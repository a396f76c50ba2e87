------------------------------- MODULE P2lDma -------------------------------
(***************************************************************************)
(* The P2L DMA master closed by what is around it: the DMA controller as   *)
(* it drives the master, the arbiter as it grants it, the GN4124 and the   *)
(* host that answer its read requests, and the pipelined Wishbone slave on *)
(* the carrier.  A step is an edge of clk_i or an edge of p2l_dma_clk_i.   *)
(*                                                                         *)
(* The host word at address a is the number a, and a job copies it to the  *)
(* carrier address that is the same modulo CarrierSpan.                    *)
(***************************************************************************)
EXTENDS P2lDmaWrite

CONSTANTS LowSpan,     \* 2^30: words a 32-bit host address reaches
          ToWbSize,    \* g_size of the FIFO
          RdyLag,      \* words the GN4124 still sends after P2L_RDY fell
          WriteDepth,  \* writes the Wishbone slave holds at once
          ReadJobs,    \* the jobs the controller may start
          MaxReadJobs, \* bound: jobs in a behaviour
          HostEnv      \* what the surroundings may do, see HostSays

VARIABLES gnt,      \* arb_pdm_gnt
          job,      \* the controller's job
          started,  \* jobs started
          want,     \* host addresses the jobs so far read for the carrier
          rx,       \* the request the GN4124 is receiving
          reads,    \* the read requests the host has not answered in full
          lag,      \* words sent since P2L_RDY fell
          slave,    \* writes the Wishbone slave has not acknowledged
          carrier   \* carrier memory

requestVars == <<readReqVars, requestFsmVars, captureVars>>
hostVars == <<gnt, job, started, want, rx, reads, lag>>
vars == <<requestVars, to_wb_fifo, writerVars, hostVars, slave, carrier>>

HostSpan == 2 * LowSpan
ItemWords == 7       \* a DMA item of a chain
Foreign == HostSpan  \* the data word of a target write
NoWord == HostSpan + 1

ASSUME P2lDmaConstants ==
    /\ LowSpan \in Nat \ {0} /\ RdyLag \in Nat /\ ToWbSize \in Nat
    /\ WriteDepth \in Nat \ {0} /\ MaxReadJobs \in Nat
    /\ ReadJobs \subseteq [host : 0 .. HostSpan - 1, len : 1 .. HostSpan, item : BOOLEAN]
    /\ \A j \in ReadJobs : j.item => j.len = ItemWords
    /\ HostEnv \subseteq {"cpln", "write", "abort", "late", "stall"}

(* What the full threshold leaves free (512 - 500 words in the code): the  *)
(* words the GN4124 still sends and one in to_wb_fifo_din.                 *)
ASSUME ToWbMargin == ToWbSize >= ToWbFull + RdyLag + 1

Words(j) == {(j.host + i) % HostSpan : i \in 0 .. j.len - 1}

Init ==
    /\ RequestInit /\ WriterInit
    /\ gnt = FALSE /\ slave = 0 /\ lag = 0 /\ reads = <<>>
    /\ job = [st |-> "none", host |-> 0, len |-> 0, item |-> FALSE]
    /\ started = 0 /\ want = {}
    /\ rx = [len |-> 0, base |-> 0]
    /\ carrier = [a \in 0 .. CarrierSpan - 1 |-> NoWord]

-----------------------------------------------------------------------------
(* The arbiter as the P2L master sees it; others holds it or wins it. *)
Grant(others) ==
    gnt' = IF gnt THEN pdm_req \/ ~(pdm_valid /\ ~pdm_dframe)
                  ELSE pdm_req /\ ~others

(***************************************************************************)
(* What the decoder may show in this tick.  The host answers its requests  *)
(* in order, in one or more completions; the GN4124 sends RdyLag words     *)
(* after P2L_RDY fell.                                                     *)
(*   cpln   the host refuses a request: a completion without data          *)
(*   write  the host writes a carrier register meanwhile (outside of       *)
(*          P2L_WAIT_READ_COMPLETION it may always do so)                  *)
(***************************************************************************)
MaySend == P2lRdy \/ lag < RdyLag
Word(last) == [valid |-> TRUE, last |-> last, cpld |-> TRUE, cpln |-> FALSE,
               data |-> Head(reads).at]
Refusal == [NoInput EXCEPT !.cpln = TRUE]
TargetWrite == [NoInput EXCEPT !.valid = TRUE, !.last = TRUE, !.data = Foreign]

HostSays(in) ==
    \/ in = NoInput
    \/ /\ reads # <<>> /\ MaySend
       /\ in = Word(TRUE) \/ (Head(reads).left > 1 /\ in = Word(FALSE))
    \/ reads # <<>> /\ "cpln" \in HostEnv /\ in = Refusal
    \/ /\ MaySend /\ in = TargetWrite
       /\ p2l_state = "P2L_WAIT_READ_COMPLETION" => "write" \in HostEnv

(* The answer when the host is quick. *)
Prompt == IF reads # <<>> /\ MaySend THEN Word(Head(reads).left = 1) ELSE NoInput

(* What is left of the requests when the decoder has shown in. *)
Answered(in) ==
    IF in.cpln \/ (in.cpld /\ Head(reads).left = 1) THEN Tail(reads)
    ELSE IF in.cpld
    THEN [reads EXCEPT ![1] = [at |-> (@.at + 1) % HostSpan, left |-> @.left - 1]]
    ELSE reads

(* The GN4124 takes the read request, and hands it on with its last word. *)
Receive(in) ==
    LET take == gnt /\ pdm_valid
        base == rx.base + pdm_word.addr
        n    == IF rx.len = 0 THEN LenSpan ELSE rx.len
    IN \/ /\ take /\ pdm_word.kind = "read"
          /\ rx' = [len |-> pdm_word.len, base |-> 0]
          /\ reads' = Answered(in)
       \/ /\ take /\ pdm_word.kind = "high"
          /\ rx' = [rx EXCEPT !.base = pdm_word.addr * LowSpan]
          /\ reads' = Answered(in)
       \/ /\ take /\ pdm_word.kind = "low" /\ ~pdm_dframe
          /\ reads' = Append(Answered(in), [at |-> base % HostSpan, left |-> n])
          /\ UNCHANGED rx
       \/ /\ ~take
          /\ reads' = Answered(in) /\ UNCHANGED rx

(* The controller: one start strobe, then done, next item, error or abort. *)
(* A start after an abort takes a second write of DMACTRLR by the host, a  *)
(* packet and a trip through the register slave's synchronisers later: the *)
(* master has seen dma_ctrl_abort for two ticks by then.                   *)
Running == job.st = "run"
Aborting == job.st \in {"killed", "aborting", "aborted"}
Follow(start, j, kill) ==
    \/ /\ start
       /\ started' = started + 1
       /\ want' = IF j.item THEN want ELSE want \cup Words(j)
       /\ job' = [st |-> "run", host |-> j.host, len |-> j.len, item |-> j.item]
    \/ /\ ~start
       /\ job' = IF job.st = "killed" THEN [job EXCEPT !.st = "aborting"]
                 ELSE IF job.st = "aborting" THEN [job EXCEPT !.st = "aborted"]
                 ELSE IF ~Running THEN job
                 ELSE IF kill THEN [job EXCEPT !.st = "killed"]
                 ELSE IF dma_busy_error \/ completion_error THEN [job EXCEPT !.st = "error"]
                 ELSE IF pdm_done \/ next_item_valid THEN [job EXCEPT !.st = "done"]
                 ELSE job
       /\ UNCHANGED <<started, want>>

(* An edge of clk_i. *)
Clk(start, j, kill, others, in) ==
    /\ HostSays(in)
    /\ RequestTick(start /\ ~j.item, start /\ j.item, j.host % CarrierSpan,
                   j.host \div LowSpan, j.host % LowSpan, j.len,
                   Aborting /\ ~start, gnt, in)
    /\ Grant(others) /\ Receive(in) /\ Follow(start, j, kill)
    /\ lag' = IF P2lRdy THEN 0 ELSE IF in.valid THEN lag + 1 ELSE lag
    /\ UNCHANGED <<writerVars, slave, carrier>>

(* A start; without "late" only when the host owes nothing of an old job.  *)
ClkStart(others, in) ==
    /\ job.st \notin {"run", "killed", "aborting"} /\ started < MaxReadJobs
    /\ "late" \in HostEnv \/ (p2l_state = "P2L_IDLE" /\ reads = <<>>)
    /\ \E j \in ReadJobs : Clk(TRUE, j, FALSE, others, in)
ClkAbort(others, in) ==
    /\ Running /\ "abort" \in HostEnv
    /\ Clk(FALSE, job, TRUE, others, in)
ClkRun(others, in) == Clk(FALSE, job, FALSE, others, in)

Inputs == {NoInput, Refusal, TargetWrite}
            \cup (IF reads = <<>> THEN {} ELSE {Word(TRUE), Word(FALSE)})
ClkTick == \E others \in BOOLEAN, in \in Inputs :
              \/ ClkStart(others, in)
              \/ ClkAbort(others, in)
              \/ ClkRun(others, in)

(***************************************************************************)
(* An edge of p2l_dma_clk_i.  The slave accepts a strobe it does not stall *)
(* and acknowledges later; without "stall" it only stalls between strobes. *)
(***************************************************************************)
DmaClk(stall, ack) ==
    LET accept == p2l_stb /\ p2l_cyc /\ ~stall
    IN /\ stall /\ p2l_stb => "stall" \in HostEnv
       /\ ack => slave > 0
       /\ accept => slave < WriteDepth \/ ack
       /\ WriterTick(stall, ack, FALSE)
       /\ slave' = slave + (IF accept THEN 1 ELSE 0) - (IF ack THEN 1 ELSE 0)
       /\ carrier' = IF accept THEN [carrier EXCEPT ![p2l_adr] = p2l_dat] ELSE carrier
       /\ UNCHANGED <<requestVars, hostVars>>

DmaClkTick == \E stall, ack \in BOOLEAN : DmaClk(stall, ack)

Next == ClkTick \/ DmaClkTick

Spec == Init /\ [][Next]_vars

-----------------------------------------------------------------------------
(* TypeOK: the registers hold values of their VHDL types. *)
TypeOK == RequestTypeOK /\ WriterTypeOK /\ gnt \in BOOLEAN

(* CarrierExact: carrier memory only ever changes at the addresses of a    *)
(* job, and only to the host word that belongs there: no word is repeated  *)
(* further on, swapped with another or taken from another packet.          *)
CarrierExact == \A a \in DOMAIN carrier :
                   carrier[a] # NoWord => carrier[a] % CarrierSpan = a /\ carrier[a] \in want

(* The words on their way from the decoder to the carrier. *)
OnTheWay == {to_wb_fifo[i] : i \in DOMAIN to_wb_fifo}
              \cup (IF to_wb_fifo_wr THEN {to_wb_fifo_din} ELSE {})
              \cup (IF to_wb_fifo_valid THEN {to_wb_fifo_dout} ELSE {})
              \cup (IF p2l_stb THEN {<<p2l_adr, p2l_dat>>} ELSE {})

(* DoneComplete: when the controller takes dma_ctrl_done for the end of    *)
(* the job, every word of it is on the carrier or on its way there.        *)
DoneComplete == job.st = "done" /\ ~job.item =>
                  \A w \in Words(job) : \/ carrier[w % CarrierSpan] = w
                                        \/ <<w % CarrierSpan, w>> \in OnTheWay

(* ItemExact: next_item_valid_o shows the seven words of the item, each in *)
(* its register, however the host splits its answer.                       *)
ItemExact == next_item_valid =>
               next_item = [i \in 1 .. ItemWords |-> (job.host + i - 1) % HostSpan]

(* NoOverflow: the FIFO is not written beyond its size, although P2L_RDY   *)
(* stops the GN4124 late.                                                  *)
NoOverflow == Len(to_wb_fifo) <= ToWbSize

(* BusHeld: the master holds the Wishbone cycle while the slave still owes *)
(* it an acknowledge.                                                      *)
BusHeld == slave > 0 => p2l_cyc

(***************************************************************************)
(* Both clocks run; the host answers what it has been asked, the arbiter's *)
(* other requesters let go of it and the slave acknowledges.               *)
(***************************************************************************)
Fairness == WF_vars(ClkRun(FALSE, Prompt)) /\ WF_vars(DmaClk(FALSE, slave > 0))
FairSpec == Spec /\ Fairness

(* JobEnds: every job the controller starts comes to an end. *)
JobEnds == Running ~> ~Running

(* Landed: the words of a job that was reported done reach the carrier and *)
(* the Wishbone cycle ends, so that the L2P master may use the bus again.  *)
Landed == job.st = "done" ~> OnTheWay = {} /\ ~p2l_cyc
=============================================================================
