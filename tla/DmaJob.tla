------------------------------- MODULE DmaJob -------------------------------
(***************************************************************************)
(* What the DMA controller promises to the host, whatever the DMA masters  *)
(* do: a job is started, is busy, and ends as done, error or aborted.      *)
(* Every end that is not an abort raises the matching interrupt in the     *)
(* same step; an abort raises none; and the line is low again when the     *)
(* next job starts.                                                        *)
(***************************************************************************)
EXTENDS Naturals

VARIABLES job,   \* where the current job is
          irq    \* the interrupt lines that are high: a subset of IrqLines

jobVars == <<job, irq>>

IrqLines == {"done", "error"}
Resting  == {"idle", "done", "error", "aborted"}
JobTypeOK == /\ job \in Resting \cup {"starting", "busy"}
             /\ irq \in SUBSET IrqLines

JobInit == job = "idle" /\ irq = {}

(* A resting job may be replaced by a new one. *)
Start == job \in Resting /\ job' = "starting" /\ irq' = {}

(* The job is accepted, or refused with an error. *)
Accept == job = "starting" /\ job' = "busy" /\ UNCHANGED irq
Refuse == job = "starting" /\ job' = "error" /\ irq' = {"error"}

(* A busy job ends, or goes on with the next item of its list. *)
Complete == job = "busy" /\ job' = "done" /\ irq' = {"done"}
Fail     == job = "busy" /\ job' = "error" /\ irq' = {"error"}
Abort    == job = "busy" /\ job' = "aborted" /\ UNCHANGED irq
NextItem == job = "busy" /\ job' = "starting" /\ UNCHANGED irq

(* An interrupt line that is high is lowered. *)
Quiet == job \in Resting /\ irq' = {} /\ UNCHANGED job

JobNext == \/ Start \/ Accept \/ Refuse \/ Complete
           \/ Fail \/ Abort \/ NextItem \/ Quiet

JobSpec == JobInit /\ [][JobNext]_jobVars
=============================================================================
