------------------------ MODULE DmaControllerProofs -------------------------
(***************************************************************************)
(* The DMA controller keeps its invariants and implements DmaJob, for      *)
(* every set of addresses, lengths and list items and whatever the host    *)
(* and the masters do.                                                     *)
(***************************************************************************)
EXTENDS DmaController, TLAPS

(* A tick is one write and one state of the case statement. *)
LEMMA NextSplit ==
    ASSUME Next
    PROVE  \E load \in Load, done, error \in BOOLEAN, item \in Items \cup {NoItem} :
              /\ PRegs(load, item)
              /\ \/ Idle \/ StartTransfer \/ Transfer(done, error)
                 \/ StartChain \/ Chain(error, item) \/ Error \/ Abort
BY DEF Next, Tick, PFsm

(* The registers of p_regs keep their types. *)
LEMMA RegsTypes ==
    ASSUME TypeOK, NEW load \in Load, NEW item \in Items \cup {NoItem},
           PRegs(load, item)
    PROVE  /\ ctrl_start' \in BOOLEAN /\ ctrl_abort' \in BOOLEAN
           /\ cstart_reg' \in Addr /\ hstart_reg' \in Addr /\ next_reg' \in Addr
           /\ len_reg' \in Lens
           /\ attrib_more' \in BOOLEAN /\ attrib_p2l' \in BOOLEAN
           /\ stat_reg' \in Statuses
<1>1. item # NoItem => item \in Item
  BY DmaConstants
<1>2. CASE item # NoItem
  BY <1>1, <1>2 DEF TypeOK, PRegs, Item, Load
<1>3. CASE item = NoItem
  BY <1>3 DEF TypeOK, PRegs, Load
<1> QED BY <1>2, <1>3

LEMMA InitInv == Init => IInv
BY DmaConstants DEF Init, IInv, TypeOK, StatusTruthful, StartDiscipline, IrqPlace,
                    States, Statuses, Running

(* Every tick preserves the inductive invariant. *)
LEMMA StepInv == IInv /\ [Next]_vars => IInv'
<1> SUFFICES ASSUME IInv, [Next]_vars PROVE IInv'
  OBVIOUS
<1> USE DEF IInv
<1>1. CASE UNCHANGED vars
  BY <1>1 DEF vars, regs, fsm, TypeOK, StatusTruthful, StartDiscipline, IrqPlace,
              Running
<1>2. CASE Next
  <2>1. PICK load \in Load, done \in BOOLEAN, error \in BOOLEAN,
             item \in Items \cup {NoItem} :
              /\ PRegs(load, item)
              /\ \/ Idle \/ StartTransfer \/ Transfer(done, error)
                 \/ StartChain \/ Chain(error, item) \/ Error \/ Abort
    BY <1>2, NextSplit
  <2>2. /\ ctrl_start' \in BOOLEAN /\ ctrl_abort' \in BOOLEAN
        /\ cstart_reg' \in Addr /\ hstart_reg' \in Addr /\ next_reg' \in Addr
        /\ len_reg' \in Lens
        /\ attrib_more' \in BOOLEAN /\ attrib_p2l' \in BOOLEAN
        /\ stat_reg' \in Statuses
    BY <2>1, RegsTypes
  <2> USE <2>2 DEF TypeOK, StatusTruthful, StartDiscipline, IrqPlace, Running,
                   States, Statuses, addrs
  <2>3. CASE Idle
    <3>1. TypeOK'
      BY <2>3 DEF Idle
    <3>2. StatusTruthful'
      BY <2>3 DEF Idle
    <3>3. StartDiscipline'
      BY <2>3 DEF Idle
    <3>4. IrqPlace'
      BY <2>3 DEF Idle
    <3> QED BY <3>1, <3>2, <3>3, <3>4
  <2>4. CASE StartTransfer
    <3>1. TypeOK'
      BY <2>4 DEF StartTransfer
    <3>2. StatusTruthful'
      BY <2>4 DEF StartTransfer
    <3>3. StartDiscipline'
      BY <2>4 DEF StartTransfer
    <3>4. IrqPlace'
      BY <2>4 DEF StartTransfer
    <3> QED BY <3>1, <3>2, <3>3, <3>4
  <2>5. CASE Transfer(done, error)
    <3>1. TypeOK'
      BY <2>5 DEF Transfer, AbortOrError
    <3>2. StatusTruthful'
      BY <2>5 DEF Transfer, AbortOrError
    <3>3. StartDiscipline'
      BY <2>5 DEF Transfer, AbortOrError
    <3>4. IrqPlace'
      BY <2>5 DEF Transfer, AbortOrError
    <3> QED BY <3>1, <3>2, <3>3, <3>4
  <2>6. CASE StartChain
    <3>1. TypeOK'
      BY <2>6 DEF StartChain
    <3>2. StatusTruthful'
      BY <2>6 DEF StartChain
    <3>3. StartDiscipline'
      BY <2>6 DEF StartChain
    <3>4. IrqPlace'
      BY <2>6 DEF StartChain
    <3> QED BY <3>1, <3>2, <3>3, <3>4
  <2>7. CASE Chain(error, item)
    <3>1. TypeOK'
      BY <2>7 DEF Chain, AbortOrError
    <3>2. StatusTruthful'
      BY <2>7 DEF Chain, AbortOrError
    <3>3. StartDiscipline'
      BY <2>7 DEF Chain, AbortOrError
    <3>4. IrqPlace'
      BY <2>7 DEF Chain, AbortOrError
    <3> QED BY <3>1, <3>2, <3>3, <3>4
  <2>8. CASE Error
    <3>1. TypeOK'
      BY <2>8 DEF Error
    <3>2. StatusTruthful'
      BY <2>8 DEF Error
    <3>3. StartDiscipline'
      BY <2>8 DEF Error
    <3>4. IrqPlace'
      BY <2>8 DEF Error
    <3> QED BY <3>1, <3>2, <3>3, <3>4
  <2>9. CASE Abort
    <3>1. TypeOK'
      BY <2>9 DEF Abort
    <3>2. StatusTruthful'
      BY <2>9 DEF Abort
    <3>3. StartDiscipline'
      BY <2>9 DEF Abort
    <3>4. IrqPlace'
      BY <2>9 DEF Abort
    <3> QED BY <3>1, <3>2, <3>3, <3>4
  <2> QED BY <2>1, <2>3, <2>4, <2>5, <2>6, <2>7, <2>8, <2>9
<1> QED BY <1>1, <1>2

(* The inductive invariant holds of every behaviour of the controller. *)
THEOREM Invariance == Spec => []IInv
<1>1. Init => IInv
  BY InitInv
<1>2. IInv /\ [Next]_vars => IInv'
  BY StepInv
<1> QED BY <1>1, <1>2, PTL DEF Spec

(* The registers always hold values of their types. *)
THEOREM TypesHold == Spec => []TypeOK
BY Invariance, PTL DEF IInv

(* DMASTATR never reports the end of an earlier job while one is running. *)
THEOREM StatusHolds == Spec => []StatusTruthful
BY Invariance, PTL DEF IInv

(* No two masters are started at once, and none while the abort line is high. *)
THEOREM StartsHold == Spec => []StartDiscipline
BY Invariance, PTL DEF IInv

-----------------------------------------------------------------------------
(* Each tick maps to a step of the abstract job, or to a stuttering step. *)
LEMMA StepJob == IInv /\ IInv' /\ [Next]_vars => [Job!JobNext]_(Job!jobVars)
<1> SUFFICES ASSUME IInv, IInv', [Next]_vars
             PROVE  Job!JobNext \/ UNCHANGED <<JobOf, IrqOf>>
  BY DEF Job!jobVars
<1> USE DEF IInv, TypeOK, IrqPlace, StatusTruthful, Running, JobOf, IrqOf, States, Statuses,
            Job!JobNext, Job!Resting
<1>1. CASE UNCHANGED vars
  BY <1>1 DEF vars, regs, fsm
<1>2. CASE Next
  <2>1. PICK load \in Load, done \in BOOLEAN, error \in BOOLEAN,
             item \in Items \cup {NoItem} :
              /\ PRegs(load, item)
              /\ \/ Idle \/ StartTransfer \/ Transfer(done, error)
                 \/ StartChain \/ Chain(error, item) \/ Error \/ Abort
    BY <1>2, NextSplit
  <2>3. CASE Idle
    BY <2>3 DEF Idle, Job!Start, Job!Quiet
  <2>4. CASE StartTransfer
    BY <2>4 DEF StartTransfer, Job!Accept, Job!Refuse
  <2>5. CASE Transfer(done, error)
    BY <2>5 DEF Transfer, AbortOrError, Job!Complete, Job!Fail, Job!Abort
  <2>6. CASE StartChain
    BY <2>6 DEF StartChain
  <2>7. CASE Chain(error, item)
    BY <2>7 DEF Chain, AbortOrError, Job!Fail, Job!Abort, Job!NextItem
  <2>8. CASE Error
    BY <2>8 DEF Error, Job!Start, Job!Quiet
  <2>9. CASE Abort
    BY <2>9 DEF Abort, Job!Start, Job!Quiet
  <2> QED BY <2>1, <2>3, <2>4, <2>5, <2>6, <2>7, <2>8, <2>9
<1> QED BY <1>1, <1>2

(* The controller implements the abstract life of a job. *)
THEOREM JobImplemented == Spec => JobRefined
<1>1. Init => Job!JobInit
  BY DEF Init, Job!JobInit, JobOf, IrqOf
<1>2. IInv /\ IInv' /\ [Next]_vars => [Job!JobNext]_(Job!jobVars)
  BY StepJob
<1> QED BY <1>1, <1>2, Invariance, PTL DEF Spec, JobRefined, Job!JobSpec

(* Strobes and interrupts last one tick; a strobe carries its address. *)
THEOREM StartStrobes == Spec => PulsesOneTick
<1> DEFINE One == /\ Strobe => ~Strobe'
                  /\ done_irq \/ error_irq => ~(done_irq' \/ error_irq')
                  /\ Strobe' => host_addr' = IF start_next' THEN next_reg ELSE hstart_reg
<1>1. IInv /\ [Next]_vars => [One]_vars
  <2> SUFFICES ASSUME IInv, Next PROVE One
    OBVIOUS
  <2>1. PICK load \in Load, done \in BOOLEAN, error \in BOOLEAN,
             item \in Items \cup {NoItem} :
              /\ PRegs(load, item)
              /\ \/ Idle \/ StartTransfer \/ Transfer(done, error)
                 \/ StartChain \/ Chain(error, item) \/ Error \/ Abort
    BY NextSplit
  <2> USE DEF IInv, TypeOK, StartDiscipline, IrqPlace, Strobe
  <2>3. CASE Idle
    BY <2>3 DEF Idle
  <2>4. CASE StartTransfer
    BY <2>4 DEF StartTransfer
  <2>5. CASE Transfer(done, error)
    BY <2>5 DEF Transfer, AbortOrError
  <2>6. CASE StartChain
    BY <2>6 DEF StartChain
  <2>7. CASE Chain(error, item)
    BY <2>7 DEF Chain, AbortOrError
  <2>8. CASE Error
    BY <2>8 DEF Error
  <2>9. CASE Abort
    BY <2>9 DEF Abort
  <2> QED BY <2>1, <2>3, <2>4, <2>5, <2>6, <2>7, <2>8, <2>9
<1> QED BY <1>1, Invariance, PTL DEF Spec, PulsesOneTick
=============================================================================
