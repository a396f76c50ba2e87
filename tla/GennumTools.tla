----------------------------- MODULE GennumTools -----------------------------
(***************************************************************************)
(* The programs dmatest.py, rrcmd.py and the self-test of rr.py, each run  *)
(* by a process of its own, over one driver and the cards on the bus.      *)
(***************************************************************************)
EXTENDS Gennum

CONSTANTS
  DmaTest,    \* the process that runs dmatest.py
  RrCmd,      \* the process that runs rrcmd.py
  RrSelf,     \* the process that runs rr.py itself
  Addresses,  \* addresses a user gives to bind: records of id, sub and geo
  MaxRuns,    \* bound: how often a process runs its program
  MaxForeign  \* bound: interrupts of other peripherals on a shared line

ASSUME ToolsAssumption ==
  /\ Procs = {DmaTest, RrCmd, RrSelf} /\ DmaTest # RrCmd
  /\ RrSelf \notin {DmaTest, RrCmd}
  /\ MaxRuns \in Nat /\ MaxForeign \in Nat

VARIABLES
  pc, runs,
  foreign,    \* interrupts of other peripherals still to come
  late,       \* history: opened the device while a RR_DEVSEL was under way
  rebound,    \* history: the driver has left a card since it was loaded
  alone       \* history: nothing but its own DMA could wake this dmatest.py

tool_vars == <<pc, runs, foreign, late, rebound, alone>>
vars == <<drv_vars, sys_vars, card_vars, tool_vars>>

Selecting == {p \in Procs : kpc[p] \in {"selected", "unregistered"}}

DmaPcs == {"plist", "config", "item", "data", "regs", "irqena", "start",
           "irqwait", "clear", "print"}
CmdPcs == {"preloop", "prompt", "reading", "writing", "info"}

TypeOK ==
  /\ DriverTypeOK /\ CardTypeOK
  /\ pc \in [Procs -> {"off", "bind", "write"} \cup DmaPcs \cup CmdPcs]
  /\ runs \in [Procs -> 0..MaxRuns]
  /\ foreign \in 0..MaxForeign /\ late \in [Procs -> BOOLEAN]
  /\ rebound \in BOOLEAN /\ alone \in BOOLEAN

Init ==
  /\ DriverInit /\ CardInit
  /\ pc = [p \in Procs |-> "off"] /\ runs = [p \in Procs |-> MaxRuns]
  /\ foreign = MaxForeign
  /\ late = [p \in Procs |-> FALSE] /\ rebound = FALSE /\ alone = FALSE

-----------------------------------------------------------------------------
\* A program's step: it is in user space and goes on to another statement.
Step(p, from, to) == kpc[p] = "user" /\ pc[p] = from /\ pc' = [pc EXCEPT ![p] = to]

\* Statements that change only what the action says.
Quiet == UNCHANGED <<runs, foreign, late, rebound, alone>>
NoCall == UNCHANGED <<drv_vars, sys_vars>>

First(p) == CASE p = DmaTest -> "plist" [] p = RrCmd -> "preloop" [] OTHER -> "bind"

\* Gennum(): every program opens the device first.
Start(p) ==
  /\ Step(p, "off", First(p)) /\ runs[p] > 0
  /\ runs' = [runs EXCEPT ![p] = @ - 1]
  /\ rr_open(p)
  /\ late' = [late EXCEPT ![p] = Selecting # {}]
  /\ UNCHANGED <<card_vars, foreign, rebound, alone>>

\* A program ends, or raises an exception it does not catch.
End(p) ==
  /\ pc' = [pc EXCEPT ![p] = "off"] /\ rr_release(p)
  /\ late' = [late EXCEPT ![p] = FALSE]
  /\ alone' = (alone /\ p # DmaTest)
  /\ UNCHANGED <<card_vars, runs, foreign, rebound>>

\* An interrupt from the keyboard; RR_DEVSEL waits without listening to it.
Kill(p) == pc[p] # "off" /\ kpc[p] \in {"user", "asleep"} /\ End(p)

-----------------------------------------------------------------------------
\* dmatest.py

GetPlist ==
  /\ Step(DmaTest, "plist", "config") /\ NoCall /\ Quiet /\ UNCHANGED card_vars

Configure ==
  /\ Step(DmaTest, "config", "item") /\ iwrite_setup({"irq"}) /\ NoCall /\ Quiet

WriteItem ==
  /\ Step(DmaTest, "item", "data") /\ iwrite_page(0, "item") /\ NoCall /\ Quiet

WriteData ==
  /\ Step(DmaTest, "data", "regs") /\ iwrite_page(1, "data") /\ NoCall /\ Quiet

WriteRegs ==
  /\ Step(DmaTest, "regs", "irqena") /\ iwrite_setup({"chain"}) /\ NoCall /\ Quiet

EnableIrq ==
  /\ Step(DmaTest, "irqena", "start") /\ irqena(DmaTest)
  /\ Quiet /\ UNCHANGED card_vars

StartDma ==
  /\ Step(DmaTest, "start", "irqwait") /\ iwrite_start /\ NoCall
  /\ alone' = /\ pdev # NoCard /\ ~irqbit /\ depth[pdev] = 0 /\ handlers[pdev] = 1
              /\ ~asserted[pdev] /\ dma[pdev] = "idle" /\ setup[pdev] = {"irq", "chain"}
              /\ Selecting = {}
  /\ UNCHANGED <<runs, foreign, late, rebound>>

\* What irqwait returns is not looked at.
WaitIrq ==
  /\ Step(DmaTest, "irqwait", "clear") /\ irqwait(DmaTest)
  /\ Quiet /\ UNCHANGED card_vars

ClearIrq ==
  /\ Step(DmaTest, "clear", "print") /\ iread_status /\ NoCall /\ Quiet

PrintPages == kpc[DmaTest] = "user" /\ pc[DmaTest] = "print" /\ End(DmaTest)

DmaTestStep ==
  \/ GetPlist \/ Configure \/ WriteItem \/ WriteData \/ WriteRegs
  \/ EnableIrq \/ StartDma \/ WaitIrq \/ ClearIrq \/ PrintPages

-----------------------------------------------------------------------------
\* rrcmd.py

\* preloop opens the device again: the program holds two files.
Preloop ==
  /\ Step(RrCmd, "preloop", "info") /\ rr_open(RrCmd)
  /\ Quiet /\ UNCHANGED card_vars

DoInfo ==
  /\ \/ Step(RrCmd, "info", "prompt")
     \/ Step(RrCmd, "prompt", "prompt")
  /\ info(RrCmd) /\ Quiet /\ UNCHANGED card_vars

DoBind ==
  /\ Step(RrCmd, "prompt", "info")
  /\ \E a \in Addresses : bind(RrCmd, a)
  /\ Quiet /\ UNCHANGED card_vars

DoIrqWait ==
  /\ Step(RrCmd, "prompt", "prompt") /\ irqwait(RrCmd)
  /\ Quiet /\ UNCHANGED card_vars

DoIrqEna ==
  /\ Step(RrCmd, "prompt", "prompt") /\ irqena(RrCmd)
  /\ Quiet /\ UNCHANGED card_vars

\* getdmasize, getplist, an empty line, a syntax error: nothing happens.
DoNothing ==
  /\ Step(RrCmd, "prompt", "prompt") /\ NoCall /\ Quiet /\ getdmasize

\* read and write are two system calls each, the first of which only seeks:
\* the place is the file's own and matters when the second one uses it.
DoSeek ==
  /\ \/ Step(RrCmd, "prompt", "reading")
     \/ Step(RrCmd, "prompt", "writing")
  /\ NoCall /\ Quiet /\ UNCHANGED card_vars

\* Reading the status steals the interrupt.
DoRead ==
  /\ Step(RrCmd, "reading", "prompt") /\ NoCall
  /\ \E place \in Places :
       /\ Transfers(place) /\ read(place)
       /\ alone' = (alone /\ place # "status")
  /\ UNCHANGED <<runs, foreign, late, rebound>>

DoWrite ==
  /\ Step(RrCmd, "writing", "prompt") /\ NoCall
  /\ \E place \in Places : Transfers(place) /\ write(place)
  /\ Quiet

\* OSError, nothing to unpack, or at once KeyError for a BAR that is none:
\* not caught.
DoRaise ==
  /\ kpc[RrCmd] = "user"
  /\ \/ /\ pc[RrCmd] \in {"reading", "writing"}
        /\ \E place \in Places : ~Transfers(place)
     \/ pc[RrCmd] = "prompt"
  /\ End(RrCmd)

DoEof == kpc[RrCmd] = "user" /\ pc[RrCmd] = "prompt" /\ End(RrCmd)

RrCmdStep ==
  \/ Preloop \/ DoInfo \/ DoBind \/ DoIrqWait \/ DoIrqEna \/ DoNothing
  \/ DoSeek \/ DoRead \/ DoWrite \/ DoRaise \/ DoEof

-----------------------------------------------------------------------------
\* rr.py run as a program: bind, then a write to a BAR bar_map does not know.

SelfBind ==
  /\ Step(RrSelf, "bind", "write")
  /\ \E a \in Addresses : bind(RrSelf, a)
  /\ Quiet /\ UNCHANGED card_vars

SelfWrite == kpc[RrSelf] = "user" /\ pc[RrSelf] = "write" /\ End(RrSelf)

-----------------------------------------------------------------------------
\* The kernel on behalf of a process, the cards, the interrupt line.

Kernel(p) ==
  /\ KernelStep(p)
  /\ rebound' = (rebound \/ pdev' = NoCard)
  /\ alone' = (alone /\ kpc[p] = "asleep")
  /\ UNCHANGED <<card_vars, pc, runs, foreign, late>>

Card(c) == CardStep(c) /\ UNCHANGED <<drv_vars, sys_vars, tool_vars>>

\* A card the driver has left may still have its handler.
CardInterrupt(c) ==
  /\ asserted[c] /\ rr_interrupt(c) /\ alone' = (alone /\ c = pdev)
  /\ UNCHANGED <<card_vars, pc, runs, foreign, late, rebound>>

ForeignInterrupt(c) ==
  /\ foreign > 0 /\ foreign' = foreign - 1
  /\ rr_interrupt(c) /\ alone' = FALSE
  /\ UNCHANGED <<card_vars, pc, runs, late, rebound>>

System ==
  \/ \E p \in Procs : Kernel(p)
  \/ \E c \in Cards : Card(c) \/ CardInterrupt(c)

Next ==
  /\ ~oops
  /\ \/ System \/ \E c \in Cards : ForeignInterrupt(c)
     \/ \E p \in Procs : Start(p) \/ Kill(p)
     \/ DmaTestStep \/ RrCmdStep \/ SelfBind \/ SelfWrite

Spec == Init /\ [][Next]_vars

\* The kernel, the cards, their interrupts and a program that is running go
\* on; the user, who starts and stops programs and types commands, need not.
FairSpec ==
  /\ Spec
  /\ \A p \in Procs : WF_vars(~oops /\ Kernel(p))
  /\ \A c \in Cards : WF_vars(~oops /\ Card(c)) /\ WF_vars(~oops /\ CardInterrupt(c))
  /\ WF_vars(~oops /\ DmaTestStep)

-----------------------------------------------------------------------------
(* dmatest.py prints its pages when the data have made the round trip: if at *)
(* the start of the DMA the line was enabled and no interrupt was pending,   *)
(* and no other peripheral and no card the driver has left interrupted, then *)
(* page 2 has the data of page 1, whatever rrcmd.py asks of the driver.      *)
DmaTestSound == pc[DmaTest] = "print" /\ alone => buf[2] = "data"

(* dmatest.py does not wait for ever: once its DMA has been started on such  *)
(* a card it gets to its print-out (or is stopped, or is disturbed by a new  *)
(* binding or by a stolen interrupt), also if the interrupt came before it   *)
(* asked, or another process enabled the line again in between.              *)
DmaTestEnds ==
  (pc[DmaTest] = "irqwait" /\ alone) ~> (pc[DmaTest] = "off" \/ ~alone \/ oops)

(* As long as the driver has not left a card: a line the handler disabled    *)
(* can be enabled again by RR_IRQENA, once is enough, and RR_IRQENA does not *)
(* follow a null pointer.                                                    *)
LineRecoverable ==
  ~rebound => /\ ~oops
              /\ \A c \in Cards : depth[c] <= 1 /\ (depth[c] > 0 => irqbit)

(* A card is not taken away from a process that had opened the device when   *)
(* RR_DEVSEL counted the users.  (One that opens it after the count, before  *)
(* the device is changed, is not protected: the race the comment admits.)    *)
CardKept ==
  [][pdev' # pdev => \A p \in Opened : p \in Selecting \/ late[p]]_vars

(* RR_IRQENA: "If the interrupt did not happen, EAGAIN is returned".         *)
IrqEnaHonest ==
  [][irqbit /\ ~irqbit' /\ pdev' = pdev => depth[pdev] > 0]_vars

=============================================================================
