-------------------------- MODULE GennumToolsProofs --------------------------
(***************************************************************************)
(* The driver and the tools for any number of cards, runs and interrupts:  *)
(* the interrupt line stays recoverable, a card is not taken from a        *)
(* process that had it open, and what dmatest.py prints is the result of   *)
(* its own DMA.                                                            *)
(***************************************************************************)
EXTENDS GennumTools, TLAPS

(* The use count: every program has the files its place in the code says.  *)
OpenOK ==
  \A p \in Procs :
     /\ fds[p] = IF pc[p] = "off" THEN 0
                 ELSE IF p = RrCmd /\ pc[p] # "preloop" THEN 2 ELSE 1
     /\ kpc[p] # "user" => pc[p] # "off"
     /\ fired[p] => kpc[p] = "asleep"

(* Who is in RR_DEVSEL was alone when it was admitted. *)
SelectOK ==
  \A q \in Selecting : \A p \in Opened : p = q \/ late[p]

(* The handler of the active card is installed; before the driver has left *)
(* a card it is the only one and the shared bit stands for its line.       *)
LineOK ==
  /\ pdev # NoCard => handlers[pdev] >= 1
  /\ ~rebound =>
       /\ registered /\ ~oops
       /\ \A p \in Procs : kpc[p] # "unregistered"
       /\ irqbit => pdev # NoCard
       /\ \A c \in Cards : handlers[c] = IF c = pdev THEN 1 ELSE 0
       /\ \A c \in Cards : depth[c] <= 1 /\ (depth[c] > 0 => irqbit /\ c = pdev)

(* A chain that runs works on the item and the data dmatest.py has written. *)
ChainOK ==
  /\ pc[DmaTest] \in {"data", "regs", "irqena", "start", "irqwait", "clear", "print"}
       => buf[0] = "item"
  /\ pc[DmaTest] \in {"regs", "irqena", "start", "irqwait", "clear", "print"}
       => buf[1] = "data"
  /\ \A c \in Cards :
       /\ dma[c] # "idle" => buf[0] = "item" /\ buf[1] = "data"
       /\ dma[c] \in {"next", "l2p"} => board[c] = "data"
       /\ dma[c] # "lost"

(* While nothing but its own DMA can wake dmatest.py and the data are not  *)
(* back, the DMA has not got to its interrupt and dmatest.py waits.        *)
Waiting ==
  /\ pdev # NoCard /\ ~irqbit /\ ~asserted[pdev] /\ ~fired[DmaTest]
  /\ dma[pdev] \in {"p2l", "next", "l2p"}
  /\ pc[DmaTest] = "irqwait" \/ (pc[DmaTest] = "clear" /\ kpc[DmaTest] = "asleep")
AloneOK ==
  alone => /\ pc[DmaTest] \in {"irqwait", "clear", "print"}
           /\ buf[2] # "data" => Waiting

TInv == TypeOK /\ OpenOK /\ SelectOK /\ LineOK /\ ChainOK /\ AloneOK

-----------------------------------------------------------------------------

(* The statements of the three programs. *)
DmaTestSays ==
  \/ GetPlist \/ Configure \/ WriteItem \/ WriteData \/ WriteRegs
  \/ EnableIrq \/ StartDma \/ WaitIrq \/ ClearIrq
RrCmdSays ==
  \/ Preloop \/ DoInfo \/ DoBind \/ DoIrqWait \/ DoIrqEna \/ DoNothing
  \/ DoSeek \/ DoRead \/ DoWrite

(* A program starts, ends or executes a statement, the kernel works for    *)
(* one, or the cards and their interrupts go on.                           *)
LEMMA NextCases ==
  Next => \/ \E p \in Procs : Start(p)
          \/ \E p \in Procs : kpc[p] \in {"user", "asleep"} /\ pc[p] # "off" /\ End(p)
          \/ \E p \in Procs : Kernel(p)
          \/ \E c \in Cards : Card(c) \/ CardInterrupt(c) \/ ForeignInterrupt(c)
          \/ DmaTestSays \/ RrCmdSays \/ SelfBind
  BY ToolsAssumption DEF Next, System, DmaTestStep, RrCmdStep, PrintPages, DoRaise, DoEof,
     SelfWrite, Kill, DmaTestSays, RrCmdSays

(* What a statement does to the program's place, and what it asks of the   *)
(* driver.                                                                 *)
Statements == {"bind", "write"} \cup DmaPcs \cup CmdPcs
Says(p, to) ==
  /\ Step(p, pc[p], to) /\ pc[p] # "off" /\ to # "preloop"
  /\ p # RrCmd => pc[p] # "preloop"
  /\ UNCHANGED <<runs, foreign, late, rebound>>
Asks(p) ==
  \/ NoCall /\ (p = RrCmd => pc[p] # "preloop")
  \/ p = RrCmd /\ pc[p] = "preloop" /\ rr_open(p)
  \/ /\ p = RrCmd => pc[p] # "preloop"
     /\ \/ RrIrqEna(p) \/ RrIrqWait(p) \/ RrDevGet(p)
        \/ \E s : RrDevselCheck(p, s)

(* Every statement of a program is a Says and an Asks. *)
LEMMA StatementCases ==
  ASSUME DmaTestSays \/ RrCmdSays \/ SelfBind
  PROVE  \E p \in Procs, to \in Statements :
            Says(p, to) /\ Asks(p) /\ (p = DmaTest => DmaTestSays)
<1>1. CASE DmaTestSays
  <2>1. \E to \in Statements : Says(DmaTest, to)
    BY <1>1, ToolsAssumption DEF DmaTestSays, GetPlist, Configure, WriteItem, WriteData, WriteRegs,
       EnableIrq, StartDma, WaitIrq, ClearIrq, Quiet, Says, Step, Statements, DmaPcs
  <2>2. Asks(DmaTest)
    BY <1>1, ToolsAssumption DEF DmaTestSays, GetPlist, Configure, WriteItem, WriteData, WriteRegs,
       EnableIrq, StartDma, WaitIrq, ClearIrq, irqena, irqwait, Asks
  <2> QED BY <1>1, <2>1, <2>2, ToolsAssumption
<1>2. CASE RrCmdSays
  <2>1. \E to \in Statements : Says(RrCmd, to)
    BY <1>2 DEF RrCmdSays, Preloop, DoInfo, DoBind, DoIrqWait, DoIrqEna, DoNothing,
       DoSeek, DoRead, DoWrite, Quiet, Says, Step, Statements, CmdPcs
  <2>2. Asks(RrCmd)
    BY <1>2 DEF RrCmdSays, Preloop, DoInfo, DoBind, DoIrqWait, DoIrqEna, DoNothing,
       DoSeek, DoRead, DoWrite, irqena, irqwait, info, bind, Step, Asks
  <2> QED BY <2>1, <2>2, ToolsAssumption
<1>3. CASE SelfBind
  <2>1. Says(RrSelf, "write")
    BY <1>3, ToolsAssumption DEF SelfBind, Quiet, Says, Step
  <2>2. Asks(RrSelf)
    BY <1>3, ToolsAssumption DEF SelfBind, bind, Asks
  <2> QED BY <2>1, <2>2, ToolsAssumption DEF Statements
<1> QED BY <1>1, <1>2, <1>3

-----------------------------------------------------------------------------
(* The use count. *)
LEMMA OpenStep == ASSUME TypeOK, OpenOK, Next PROVE OpenOK'
<1> USE DEF TypeOK, DriverTypeOK, OpenOK
<1>1. ASSUME NEW p \in Procs, Start(p) PROVE OpenOK'
  BY <1>1, ToolsAssumption DEF Start, Step, First, rr_open
<1>2. ASSUME NEW p \in Procs, End(p) PROVE OpenOK'
  BY <1>2 DEF End, rr_release, Return
<1>3. ASSUME NEW p \in Procs, Kernel(p) PROVE OpenOK'
  BY <1>3 DEF Kernel, KernelStep, IrqWoken, RrUnregister, RrRegister, Return
<1>4. ASSUME NEW c \in Cards, Card(c) \/ CardInterrupt(c) \/ ForeignInterrupt(c)
      PROVE  OpenOK'
  BY <1>4 DEF Card, CardInterrupt, ForeignInterrupt, rr_interrupt, sys_vars, tool_vars
<1>5. ASSUME NEW p \in Procs, NEW to \in Statements, Says(p, to), Asks(p) PROVE OpenOK'
  <2>1. to # "off" /\ to # "preloop" /\ kpc[p] = "user" /\ pc[p] # "off"
        /\ pc' = [pc EXCEPT ![p] = to]
    BY <1>5 DEF Says, Step, Statements, DmaPcs, CmdPcs
  <2>2. CASE UNCHANGED fds
    <3>1. p = RrCmd => pc[p] # "preloop"
      BY <1>5, <2>2 DEF Asks, rr_open
    <3>2. UNCHANGED fired /\ \A q \in Procs \ {p} : kpc'[q] = kpc[q]
      BY <1>5 DEF Asks, NoCall, sys_vars, rr_open, RrIrqEna, RrIrqWait, RrDevGet,
                  RrDevselCheck, Return
    <3> QED BY <2>1, <2>2, <3>1, <3>2
  <2>3. CASE p = RrCmd /\ pc[p] = "preloop" /\ rr_open(p)
    BY <2>1, <2>3 DEF rr_open
  <2> QED BY <1>5, <2>2, <2>3 DEF Asks, NoCall, sys_vars, RrIrqEna, RrIrqWait, RrDevGet,
                                  RrDevselCheck
<1> QED BY <1>1, <1>2, <1>3, <1>4, <1>5, NextCases, StatementCases

(* RR_DEVSEL admits a process that is alone; who opens the device while it *)
(* is under way is marked late.                                            *)
LEMMA SelectStep == ASSUME TypeOK, OpenOK, SelectOK, Next PROVE SelectOK'
<1> USE DEF TypeOK, DriverTypeOK, SelectOK, Selecting, Opened
<1>1. ASSUME NEW p \in Procs, Start(p) PROVE SelectOK'
  BY <1>1 DEF Start, rr_open
<1>2. ASSUME NEW p \in Procs, kpc[p] \in {"user", "asleep"}, End(p) PROVE SelectOK'
  BY <1>2 DEF End, rr_release, Return
<1>3. ASSUME NEW p \in Procs, Kernel(p) PROVE SelectOK'
  BY <1>3 DEF Kernel, KernelStep, IrqWoken, RrUnregister, RrRegister, Return
<1>4. ASSUME NEW c \in Cards, Card(c) \/ CardInterrupt(c) \/ ForeignInterrupt(c)
      PROVE  SelectOK'
  BY <1>4 DEF Card, CardInterrupt, ForeignInterrupt, rr_interrupt, sys_vars, tool_vars
<1>5. ASSUME NEW p \in Procs, NEW to \in Statements, Says(p, to), Asks(p) PROVE SelectOK'
  <2>1. kpc[p] = "user" /\ pc[p] # "off" /\ UNCHANGED late
    BY <1>5 DEF Says, Step
  <2>2. fds[p] > 0
    BY <2>1 DEF OpenOK
  <2>3. Opened' = Opened
    BY <1>5, <2>2 DEF Asks, NoCall, sys_vars, rr_open, RrIrqEna, RrIrqWait, RrDevGet,
                      RrDevselCheck
  <2>4. CASE Selecting' \subseteq Selecting
    BY <2>1, <2>3, <2>4
  <2>5. CASE ~(Selecting' \subseteq Selecting)
    <3>1. ~DevselRefused(p) /\ Selecting' = Selecting \cup {p}
      BY <1>5, <2>1, <2>5 DEF Asks, NoCall, sys_vars, rr_open, RrIrqEna, RrIrqWait, RrDevGet,
                         RrDevselCheck, Return
    <3>2. Opened \subseteq {p}
      BY <3>1 DEF DevselRefused, UsedByOthers
    <3>3. Selecting \subseteq Opened
      BY DEF OpenOK
    <3> QED BY <2>3, <3>1, <3>2, <3>3
  <2> QED BY <2>4, <2>5
<1> QED BY <1>1, <1>2, <1>3, <1>4, <1>5, NextCases, StatementCases

(* The line of the active card. *)
LEMMA LineStep == ASSUME TypeOK, LineOK, Next PROVE LineOK'
<1> USE DriverAssumption DEF TypeOK, DriverTypeOK, LineOK
<1>1. ASSUME UNCHANGED <<drv_vars, rebound>>,
             \A q \in Procs : kpc'[q] = "unregistered" => kpc[q] = "unregistered"
      PROVE  LineOK'
  BY <1>1 DEF drv_vars
<1>2. ASSUME NEW c \in Cards, rr_interrupt(c), UNCHANGED rebound PROVE LineOK'
  BY <1>2 DEF rr_interrupt, FlagIrq
<1>3. ASSUME NEW p \in Procs, RrIrqEna(p), UNCHANGED rebound PROVE LineOK'
  <2>1. /\ UNCHANGED <<pdev, registered, handlers, rebound>>
        /\ \A q \in Procs : kpc'[q] = "unregistered" => kpc[q] = "unregistered"
    BY <1>3 DEF RrIrqEna, Return
  <2>2. CASE ~irqbit
    BY <1>1, <1>3, <2>1, <2>2 DEF RrIrqEna, drv_vars
  <2>3. CASE irqbit /\ pdev # NoCard
    <3>1. irqbit' = FALSE /\ depth' = Enabled(pdev) /\ UNCHANGED oops
      BY <1>3, <2>3 DEF RrIrqEna
    <3>2. ~rebound => \A c \in Cards : depth'[c] = 0
      BY <2>3, <3>1 DEF Enabled
    <3> QED BY <2>1, <2>3, <3>1, <3>2
  <2>4. CASE irqbit /\ pdev = NoCard
    BY <2>1, <2>4
  <2> QED BY <2>2, <2>3, <2>4
<1>4. ASSUME NEW p \in Procs, Kernel(p) PROVE LineOK'
  <2>1. CASE IrqWoken(p)
    BY <1>4, <2>1, <1>1 DEF Kernel, IrqWoken, Return, drv_vars
  <2>2. CASE RrUnregister(p)
    BY <1>4, <2>2 DEF Kernel, RrUnregister, rr_pciremove
  <2>3. CASE RrRegister(p)
    BY <1>4, <2>3 DEF Kernel, RrRegister, rr_pciprobe
  <2> QED BY <1>4, <2>1, <2>2, <2>3 DEF Kernel, KernelStep
<1>5. ASSUME NEW p \in Procs, Start(p) \/ End(p) PROVE LineOK'
  BY <1>5, <1>1 DEF Start, End, rr_open, rr_release, Return
<1>6. ASSUME NEW c \in Cards, Card(c) \/ CardInterrupt(c) \/ ForeignInterrupt(c)
      PROVE  LineOK'
  BY <1>6, <1>1, <1>2 DEF Card, CardInterrupt, ForeignInterrupt, sys_vars, tool_vars
<1>7. ASSUME NEW p \in Procs, NEW to \in Statements, Says(p, to), Asks(p) PROVE LineOK'
  <2>1. UNCHANGED rebound
    BY <1>7 DEF Says
  <2>2. RrIrqEna(p) \/ UNCHANGED drv_vars
    BY <1>7 DEF Asks, NoCall, rr_open, RrIrqWait, RrDevGet, RrDevselCheck
  <2>3. RrIrqEna(p) \/ \A q \in Procs : kpc'[q] = "unregistered" => kpc[q] = "unregistered"
    BY <1>7 DEF Asks, NoCall, rr_open, RrIrqWait, RrDevGet, RrDevselCheck, Return, sys_vars
  <2> QED BY <2>1, <2>2, <2>3, <1>1, <1>3
<1> QED BY <1>1, <1>4, <1>5, <1>6, <1>7, NextCases, StatementCases

(* The chain a card runs. *)
LEMMA ChainStep == ASSUME TypeOK, OpenOK, ChainOK, Next PROVE ChainOK'
<1> USE PlistAssumption, ToolsAssumption DEF TypeOK, CardTypeOK, ChainOK
<1>1. ASSUME UNCHANGED card_vars,
             \/ UNCHANGED pc
             \/ \E p \in Procs : pc' = [pc EXCEPT ![p] = "off"]
             \/ \E p \in Procs, to \in Statements :
                  /\ pc' = [pc EXCEPT ![p] = to]
                  /\ p = DmaTest => <<pc[p], to>> \in
                       {<<"off", "plist">>, <<"plist", "config">>, <<"irqena", "start">>,
                        <<"irqwait", "clear">>}
      PROVE  ChainOK'
  BY <1>1 DEF card_vars
<1>2. ASSUME NEW p \in Procs, Start(p) PROVE ChainOK'
  BY <1>1, <1>2 DEF Start, Step, First, Statements, DmaPcs, CmdPcs
<1>3. ASSUME NEW p \in Procs, End(p) PROVE ChainOK'
  BY <1>1, <1>3 DEF End
<1>4. ASSUME NEW p \in Procs, Kernel(p) PROVE ChainOK'
  BY <1>1, <1>4 DEF Kernel
<1>5. ASSUME NEW c \in Cards, CardInterrupt(c) \/ ForeignInterrupt(c) PROVE ChainOK'
  BY <1>1, <1>5 DEF CardInterrupt, ForeignInterrupt
<1>6. ASSUME NEW c \in Cards, Card(c) PROVE ChainOK'
  <2>1. getplist[0] = 0 /\ getplist[1] = 1 /\ getplist[2] = 2
    BY DEF getplist, Plist
  <2>2. UNCHANGED pc
    BY <1>6 DEF Card, tool_vars
  <2>3. CASE DmaToBoard(c)
    BY <2>1, <2>2, <2>3 DEF DmaToBoard, Engine
  <2>4. CASE DmaNextItem(c)
    BY <2>1, <2>2, <2>4 DEF DmaNextItem, Engine
  <2>5. CASE DmaToHost(c)
    BY <2>1, <2>2, <2>5 DEF DmaToHost, Engine
  <2>6. CASE DmaInterrupt(c)
    BY <2>2, <2>6 DEF DmaInterrupt, Engine
  <2> QED BY <1>6, <2>3, <2>4, <2>5, <2>6 DEF Card, CardStep
<1>7. CASE DmaTestSays
  <2>1. CASE GetPlist \/ EnableIrq \/ WaitIrq
    BY <1>1, <2>1 DEF GetPlist, EnableIrq, WaitIrq, Step, Statements, DmaPcs
  <2>2. CASE Configure \/ WriteRegs
    BY <2>2 DEF Configure, WriteRegs, iwrite_setup, Step
  <2>3. CASE WriteItem
    BY <2>3 DEF WriteItem, iwrite_page, Step
  <2>4. CASE WriteData
    BY <2>4 DEF WriteData, iwrite_page, Step
  <2>5. CASE StartDma
    BY <2>5 DEF StartDma, iwrite_start, Step
  <2>6. CASE ClearIrq
    BY <2>6 DEF ClearIrq, iread_status, Step
  <2> QED BY <1>7, <2>1, <2>2, <2>3, <2>4, <2>5, <2>6 DEF DmaTestSays
<1>8. CASE RrCmdSays
  <2>1. \E to \in Statements : pc' = [pc EXCEPT ![RrCmd] = to]
    BY <1>8 DEF RrCmdSays, Preloop, DoInfo, DoBind, DoIrqWait, DoIrqEna, DoNothing,
                DoSeek, DoRead, DoWrite, Step, Statements, CmdPcs
  <2>2. UNCHANGED <<buf, dma, board>>
    BY <1>8 DEF RrCmdSays, Preloop, DoInfo, DoBind, DoIrqWait, DoIrqEna, DoNothing,
                DoSeek, DoRead, DoWrite, read, write, iread_status, getdmasize, card_vars
  <2> QED BY <2>1, <2>2
<1>9. CASE SelfBind
  BY <1>1, <1>9 DEF SelfBind, Step, Statements
<1> QED BY <1>2, <1>3, <1>4, <1>5, <1>6, <1>7, <1>8, <1>9, NextCases

(* dmatest.py waits until its data are back. *)
LEMMA AloneStep == ASSUME TypeOK, OpenOK, ChainOK, AloneOK, Next PROVE AloneOK'
<1> USE ToolsAssumption, DriverAssumption DEF TypeOK, DriverTypeOK, CardTypeOK, AloneOK, Waiting
<1>1. ASSUME NEW p \in Procs, Start(p) PROVE AloneOK'
  BY <1>1 DEF Start, Step, rr_open, drv_vars, card_vars
<1>2. ASSUME NEW p \in Procs, End(p) PROVE AloneOK'
  BY <1>2 DEF End, rr_release, Return, drv_vars, card_vars
<1>3. ASSUME NEW p \in Procs, Kernel(p) PROVE AloneOK'
  <2>1. CASE ~alone'
    BY <2>1
  <2>2. CASE alone'
    <3>1. alone /\ IrqWoken(p) /\ UNCHANGED <<pc, card_vars>>
      BY <1>3, <2>2 DEF Kernel, KernelStep, RrUnregister, RrRegister
    <3> QED BY <3>1 DEF IrqWoken, HasFired, Return, drv_vars, card_vars
  <2> QED BY <2>1, <2>2
<1>4. ASSUME NEW c \in Cards, CardInterrupt(c) PROVE AloneOK'
  BY <1>4 DEF CardInterrupt, rr_interrupt, FlagIrq, card_vars
<1>5. ASSUME NEW c \in Cards, ForeignInterrupt(c) PROVE AloneOK'
  BY <1>5 DEF ForeignInterrupt
<1>6. ASSUME NEW c \in Cards, Card(c) PROVE AloneOK'
  <2>1. getplist[0] = 0 /\ getplist[2] = 2
    BY PlistAssumption DEF getplist, Plist
  <2>2. UNCHANGED <<drv_vars, sys_vars, tool_vars>>
    BY <1>6 DEF Card
  <2>3. CASE DmaToBoard(c)
    BY <2>2, <2>3 DEF DmaToBoard, Engine, drv_vars, sys_vars, tool_vars
  <2>4. CASE DmaNextItem(c)
    BY <2>1, <2>2, <2>4 DEF DmaNextItem, Engine, drv_vars, sys_vars, tool_vars, ChainOK
  <2>5. CASE DmaToHost(c)
    <3>1. buf'[2] = "data"
      BY <2>1, <2>5 DEF DmaToHost, Engine, ChainOK
    <3> QED BY <2>2, <3>1 DEF tool_vars
  <2>6. CASE DmaInterrupt(c)
    BY <2>2, <2>6 DEF DmaInterrupt, Engine, drv_vars, sys_vars, tool_vars
  <2> QED BY <1>6, <2>3, <2>4, <2>5, <2>6 DEF Card, CardStep
<1>7. CASE DmaTestSays
  <2>1. CASE GetPlist \/ Configure \/ WriteItem \/ WriteData \/ WriteRegs \/ EnableIrq
    <3>1. ~alone /\ UNCHANGED alone
      BY <2>1 DEF GetPlist, Configure, WriteItem, WriteData, WriteRegs, EnableIrq, Quiet, Step
    <3> QED BY <3>1
  <2>2. CASE StartDma
    <3>1. CASE ~alone'
      BY <3>1
    <3>2. CASE alone'
      <4>1. /\ pdev # NoCard /\ ~irqbit /\ ~asserted[pdev] /\ dma[pdev] = "idle"
            /\ "chain" \in setup[pdev] /\ pc'[DmaTest] = "irqwait"
            /\ kpc[DmaTest] = "user"
        BY <2>2, <3>2 DEF StartDma, Step
      <4>2. dma'[pdev] = "p2l" /\ UNCHANGED <<asserted, buf>>
        BY <2>2, <4>1 DEF StartDma, iwrite_start, Reaches, BarMap
      <4>3. UNCHANGED <<pdev, irqbit, fired>>
        BY <2>2 DEF StartDma, NoCall, drv_vars, sys_vars
      <4> QED BY <4>1, <4>2, <4>3 DEF OpenOK
    <3> QED BY <3>1, <3>2
  <2>3. CASE WaitIrq
    BY <2>3 DEF WaitIrq, irqwait, RrIrqWait, IrqAlready, Return, Quiet, Step, drv_vars, card_vars
  <2>4. CASE ClearIrq
    BY <2>4 DEF ClearIrq, iread_status, NoCall, Quiet, Step, drv_vars, sys_vars
  <2> QED BY <1>7, <2>1, <2>2, <2>3, <2>4 DEF DmaTestSays
<1>8. CASE (RrCmdSays \/ SelfBind) /\ ~DmaTestSays
  <2>1. PICK p \in Procs, to \in Statements : Says(p, to) /\ Asks(p) /\ p # DmaTest
    BY <1>8, StatementCases
  <2>2. /\ UNCHANGED <<dma, buf>>
        /\ alone' => alone /\ UNCHANGED asserted
    <3>1. CASE DoRead
      BY <3>1 DEF DoRead, read, iread_status, card_vars
    <3>2. CASE ~DoRead
      BY <1>8, <3>2 DEF RrCmdSays, Preloop, DoInfo, DoBind, DoIrqWait, DoIrqEna, DoNothing,
                        DoSeek, DoWrite, SelfBind, Quiet, write, getdmasize, card_vars
    <3> QED BY <3>1, <3>2
  <2>3. pc'[DmaTest] = pc[DmaTest]
    BY <2>1 DEF Says, Step
  <2>4. /\ UNCHANGED <<pdev, fired>> /\ kpc'[DmaTest] = kpc[DmaTest]
        /\ ~irqbit => ~irqbit'
    BY <2>1 DEF Asks, NoCall, drv_vars, sys_vars, rr_open, RrIrqEna, RrIrqWait, RrDevGet,
                RrDevselCheck, Return
  <2> QED BY <2>2, <2>3, <2>4
<1> QED BY <1>1, <1>2, <1>3, <1>4, <1>5, <1>6, <1>7, <1>8, NextCases

-----------------------------------------------------------------------------
(* The types. *)
LEMMA DriverTypeStep ==
  ASSUME TypeOK, OpenOK, LineOK, Next
  PROVE  /\ pdev' \in Cards \cup {NoCard} /\ registered' \in BOOLEAN
         /\ irqbit' \in BOOLEAN /\ oops' \in BOOLEAN
         /\ handlers' \in [Cards -> Nat] /\ depth' \in [Cards -> 0..MaxDepth]
<1> USE DriverAssumption DEF TypeOK, DriverTypeOK
<1> DEFINE Goal == /\ pdev' \in Cards \cup {NoCard} /\ registered' \in BOOLEAN
                   /\ irqbit' \in BOOLEAN /\ oops' \in BOOLEAN
                   /\ handlers' \in [Cards -> Nat] /\ depth' \in [Cards -> 0..MaxDepth]
<1>1. ASSUME UNCHANGED drv_vars PROVE Goal
  BY <1>1 DEF drv_vars
<1>2. ASSUME NEW c \in Cards, rr_interrupt(c) PROVE Goal
  BY <1>2 DEF rr_interrupt, FlagIrq
<1>3. ASSUME NEW p \in Procs, RrIrqEna(p) PROVE Goal
  <2>1. UNCHANGED <<pdev, registered, handlers>>
    BY <1>3 DEF RrIrqEna
  <2>2. irqbit' \in BOOLEAN /\ oops' \in BOOLEAN
    BY <1>3, Zenon DEF RrIrqEna
  <2>3. depth' \in [Cards -> 0..MaxDepth]
    <3>1. CASE UNCHANGED depth
      BY <3>1
    <3>2. CASE pdev \in Cards /\ depth' = Enabled(pdev)
      BY <3>2 DEF Enabled
    <3> QED BY <1>3, <3>1, <3>2 DEF RrIrqEna
  <2> QED BY <2>1, <2>2, <2>3
<1>4. ASSUME NEW p \in Procs, Kernel(p) PROVE Goal
  <2>1. CASE IrqWoken(p)
    BY <1>1, <2>1 DEF IrqWoken
  <2>2. CASE RrUnregister(p)
    <3>1. /\ registered' \in BOOLEAN /\ irqbit' \in BOOLEAN
          /\ pdev' \in Cards \cup {NoCard} /\ UNCHANGED <<oops, depth>>
      BY <2>2, Zenon DEF RrUnregister, rr_pciremove
    <3>2. CASE UNCHANGED handlers
      BY <3>1, <3>2
    <3>3. CASE pdev # NoCard /\ handlers' = [handlers EXCEPT ![pdev] = @ - 1]
      BY <3>1, <3>3 DEF LineOK
    <3> QED BY <2>2, <3>2, <3>3 DEF RrUnregister, rr_pciremove
  <2>3. CASE RrRegister(p)
    <3>1. /\ registered' \in BOOLEAN /\ irqbit' \in BOOLEAN
          /\ pdev' \in Cards \cup {NoCard} /\ UNCHANGED <<oops, depth>>
      BY <2>3, Zenon DEF RrRegister, rr_pciprobe
    <3>2. handlers' \in [Cards -> Nat]
      BY <2>3 DEF RrRegister, rr_pciprobe
    <3> QED BY <3>1, <3>2
  <2> QED BY <1>4, <2>1, <2>2, <2>3 DEF Kernel, KernelStep
<1>5. ASSUME NEW p \in Procs, Start(p) \/ End(p) PROVE Goal
  BY <1>5, <1>1 DEF Start, End, rr_open, rr_release
<1>6. ASSUME NEW c \in Cards, Card(c) \/ CardInterrupt(c) \/ ForeignInterrupt(c)
      PROVE  Goal
  BY <1>6, <1>1, <1>2 DEF Card, CardInterrupt, ForeignInterrupt
<1>7. ASSUME NEW p \in Procs, Asks(p) PROVE Goal
  BY <1>7, <1>1, <1>3 DEF Asks, NoCall, rr_open, RrIrqWait, RrDevGet, RrDevselCheck
<1> QED BY <1>4, <1>5, <1>6, <1>7, NextCases, StatementCases

ProcessTypes ==
  /\ fds \in [Procs -> Nat] /\ fired \in [Procs -> BOOLEAN]
  /\ kpc \in [Procs -> {"user", "selected", "unregistered", "asleep"}]
  /\ pc \in [Procs -> {"off"} \cup Statements]
  /\ runs \in [Procs -> 0..MaxRuns]
  /\ foreign \in 0..MaxForeign /\ late \in [Procs -> BOOLEAN]
  /\ rebound \in BOOLEAN /\ alone \in BOOLEAN

(* Every step keeps the program counters and results of the processes      *)
(* typed.                                                                  *)
LEMMA ProcessTypeStep == ASSUME ProcessTypes, Next PROVE ProcessTypes'
<1> USE ToolsAssumption DEF ProcessTypes
<1>1. ASSUME NEW p \in Procs, Start(p) PROVE ProcessTypes'
  <2>1. pc' \in [Procs -> {"off"} \cup Statements] /\ runs' \in [Procs -> 0..MaxRuns]
        /\ fds' \in [Procs -> Nat]
    BY <1>1 DEF Start, Step, First, rr_open, Statements, DmaPcs, CmdPcs
  <2>2. late' \in [Procs -> BOOLEAN]
    BY <1>1 DEF Start
  <2> QED BY <1>1, <2>1, <2>2 DEF Start, rr_open
<1>2. ASSUME NEW p \in Procs, End(p) PROVE ProcessTypes'
  <2>1. pc' \in [Procs -> {"off"} \cup Statements] /\ fds' \in [Procs -> Nat]
        /\ kpc' \in [Procs -> {"user", "selected", "unregistered", "asleep"}]
    BY <1>2 DEF End, rr_release, Return
  <2>2. fired' \in [Procs -> BOOLEAN] /\ late' \in [Procs -> BOOLEAN] /\ alone' \in BOOLEAN
    BY <1>2 DEF End, rr_release
  <2> QED BY <1>2, <2>1, <2>2 DEF End
<1>3. ASSUME NEW p \in Procs, Kernel(p) PROVE ProcessTypes'
  <2>1. kpc' \in [Procs -> {"user", "selected", "unregistered", "asleep"}]
    BY <1>3 DEF Kernel, KernelStep, IrqWoken, RrUnregister, RrRegister, Return
  <2>2. fired' \in [Procs -> BOOLEAN] /\ UNCHANGED fds
    BY <1>3 DEF Kernel, KernelStep, IrqWoken, RrUnregister, RrRegister
  <2>3. rebound' \in BOOLEAN /\ alone' \in BOOLEAN
    BY <1>3, Zenon DEF Kernel
  <2> QED BY <1>3, <2>1, <2>2, <2>3 DEF Kernel
<1>4. ASSUME NEW c \in Cards, Card(c) PROVE ProcessTypes'
  BY <1>4 DEF Card, sys_vars, tool_vars
<1>5. ASSUME NEW c \in Cards, CardInterrupt(c) \/ ForeignInterrupt(c) PROVE ProcessTypes'
  <2>1. fired' \in [Procs -> BOOLEAN] /\ UNCHANGED <<fds, kpc, pc, runs, late, rebound>>
    BY <1>5 DEF CardInterrupt, ForeignInterrupt, rr_interrupt
  <2>2. alone' \in BOOLEAN
    BY <1>5, Zenon DEF CardInterrupt, ForeignInterrupt
  <2>3. foreign' \in 0..MaxForeign
    BY <1>5 DEF CardInterrupt, ForeignInterrupt
  <2> QED BY <2>1, <2>2, <2>3
<1>6. ASSUME NEW p \in Procs, NEW to \in Statements, Says(p, to), Asks(p),
             DmaTestSays \/ RrCmdSays \/ SelfBind
      PROVE ProcessTypes'
  <2>1. pc' \in [Procs -> {"off"} \cup Statements]
    BY <1>6 DEF Says, Step
  <2>2. kpc' \in [Procs -> {"user", "selected", "unregistered", "asleep"}]
    BY <1>6 DEF Asks, NoCall, sys_vars, rr_open, RrIrqEna, RrIrqWait, RrDevGet,
                RrDevselCheck, Return
  <2>3. fds' \in [Procs -> Nat] /\ UNCHANGED fired
    BY <1>6 DEF Asks, NoCall, sys_vars, rr_open, RrIrqEna, RrIrqWait, RrDevGet,
                RrDevselCheck
  <2>4. alone' \in BOOLEAN
    BY <1>6, Zenon DEF DmaTestSays, GetPlist, Configure, WriteItem, WriteData, WriteRegs, EnableIrq,
       StartDma, WaitIrq, ClearIrq, RrCmdSays, Preloop, DoInfo, DoBind, DoIrqWait, DoIrqEna,
       DoNothing, DoSeek, DoRead, DoWrite, SelfBind, Quiet
  <2> QED BY <1>6, <2>1, <2>2, <2>3, <2>4 DEF Says
<1> QED BY <1>1, <1>2, <1>3, <1>4, <1>5, <1>6, NextCases, StatementCases

(* Every step keeps the types of the driver and of the cards. *)
LEMMA CardTypeStep == ASSUME TypeOK, Next PROVE CardTypeOK'
<1> USE DriverAssumption DEF CardTypeOK
<1>1. CardTypeOK /\ pdev \in Cards \cup {NoCard}
  BY DEF TypeOK, DriverTypeOK
<1>2. CASE UNCHANGED card_vars
  BY <1>1, <1>2 DEF card_vars
<1>3. ASSUME NEW c \in Cards, CardStep(c) PROVE CardTypeOK'
  <2>1. getplist[0] = 0 /\ getplist[1] = 1 /\ getplist[2] = 2
    BY PlistAssumption DEF getplist, Plist
  <2>2. CASE DmaToBoard(c)
    BY <1>1, <2>1, <2>2 DEF DmaToBoard, Engine
  <2>3. CASE DmaNextItem(c)
    BY <1>1, <2>3 DEF DmaNextItem, Engine
  <2>4. CASE DmaToHost(c)
    BY <1>1, <2>1, <2>4 DEF DmaToHost, Engine
  <2>5. CASE DmaInterrupt(c)
    BY <1>1, <2>5 DEF DmaInterrupt, Engine
  <2> QED BY <1>3, <2>2, <2>3, <2>4, <2>5 DEF CardStep
<1>4. CASE iread_status
  BY <1>1, <1>4 DEF iread_status, Reaches
<1>5. ASSUME NEW k \in 0..2, NEW v \in {"item", "data"}, iwrite_page(k, v) PROVE CardTypeOK'
  BY <1>1, <1>5 DEF iwrite_page
<1>6. ASSUME NEW what \in SUBSET {"irq", "chain"}, iwrite_setup(what) PROVE CardTypeOK'
  <2>1. setup' \in [Cards -> SUBSET {"irq", "chain"}]
    <3>1. CASE UNCHANGED setup
      BY <1>1, <3>1
    <3>2. CASE pdev \in Cards /\ setup' = [setup EXCEPT ![pdev] = @ \cup what]
      BY <1>1, <3>2
    <3> QED BY <1>1, <1>6, <3>1, <3>2 DEF iwrite_setup, Reaches
  <2> QED BY <1>1, <1>6, <2>1 DEF iwrite_setup
<1>7. CASE iwrite_start
  BY <1>1, <1>7 DEF iwrite_start, Reaches
<1>8. CASE DmaTestSays
  <2>1. CASE Configure \/ WriteRegs
    BY <1>6, <2>1 DEF Configure, WriteRegs
  <2>2. CASE WriteItem \/ WriteData
    BY <1>5, <2>2 DEF WriteItem, WriteData
  <2> QED BY <1>2, <1>4, <1>7, <1>8, <2>1, <2>2
      DEF DmaTestSays, GetPlist, EnableIrq, StartDma, WaitIrq, ClearIrq
<1>9. CASE RrCmdSays
  BY <1>2, <1>4, <1>9 DEF RrCmdSays, Preloop, DoInfo, DoBind, DoIrqWait, DoIrqEna, DoNothing,
     DoSeek, DoRead, DoWrite, read, write, getdmasize
<1>10. CASE SelfBind
  BY <1>2, <1>10 DEF SelfBind
<1> QED BY <1>2, <1>3, <1>8, <1>9, <1>10, NextCases
    DEF Start, End, Kernel, Card, CardInterrupt, ForeignInterrupt

-----------------------------------------------------------------------------
(* TypeOK is the types of the processes and those of driver and cards. *)
LEMMA TypesApart ==
  TypeOK <=> /\ ProcessTypes /\ CardTypeOK /\ fds \in [Procs -> 0..2]
             /\ pdev \in Cards \cup {NoCard} /\ registered \in BOOLEAN
             /\ irqbit \in BOOLEAN /\ oops \in BOOLEAN
             /\ handlers \in [Cards -> Nat] /\ depth \in [Cards -> 0..MaxDepth]
<1>1. {"off", "bind", "write"} \cup DmaPcs \cup CmdPcs = {"off"} \cup Statements
  BY DEF Statements
<1>2. fds \in [Procs -> 0..2] => fds \in [Procs -> Nat]
  OBVIOUS
<1> QED BY <1>1, <1>2, Zenon DEF TypeOK, DriverTypeOK, ProcessTypes

(* The invariant holds when the driver is loaded. *)
LEMMA ToolsInit == Init => TInv
<1> SUFFICES ASSUME Init PROVE TInv
  OBVIOUS
<1> USE DriverAssumption, ToolsAssumption DEF Init, DriverInit, CardInit
<1>1. ProcessTypes /\ fds \in [Procs -> 0..2]
  <2>1. /\ fds \in [Procs -> Nat] /\ fds \in [Procs -> 0..2]
        /\ runs \in [Procs -> 0..MaxRuns] /\ foreign \in 0..MaxForeign
    OBVIOUS
  <2>2. fired \in [Procs -> BOOLEAN] /\ late \in [Procs -> BOOLEAN]
    OBVIOUS
  <2>3. /\ kpc \in [Procs -> {"user", "selected", "unregistered", "asleep"}]
        /\ pc \in [Procs -> {"off"} \cup Statements]
    OBVIOUS
  <2>4. rebound \in BOOLEAN /\ alone \in BOOLEAN
    OBVIOUS
  <2> QED BY <2>1, <2>2, <2>3, <2>4 DEF ProcessTypes
<1>2. CardTypeOK
  BY DEF CardTypeOK
<1>3. TypeOK
  <2>1. pdev \in Cards \cup {NoCard} /\ irqbit \in BOOLEAN
    OBVIOUS
  <2>2. handlers \in [Cards -> Nat] /\ depth \in [Cards -> 0..MaxDepth]
    OBVIOUS
  <2> QED BY <1>1, <1>2, <2>1, <2>2, TypesApart
<1>4. OpenOK /\ SelectOK
  BY DEF OpenOK, SelectOK, Selecting
<1>5. LineOK
  <2>1. /\ irqbit => pdev # NoCard
        /\ registered /\ ~oops
    OBVIOUS
  <2>2. \A p \in Procs : kpc[p] # "unregistered"
    OBVIOUS
  <2>3. /\ \A c \in Cards : handlers[c] = IF c = pdev THEN 1 ELSE 0
        /\ \A c \in Cards : depth[c] = 0
    OBVIOUS
  <2>4. pdev # NoCard => handlers[pdev] >= 1
    BY <2>3
  <2>5. \A c \in Cards : depth[c] <= 1 /\ ~(depth[c] > 0)
    BY <2>3
  <2> QED BY <2>1, <2>2, <2>3, <2>4, <2>5, Zenon DEF LineOK
<1>6. ChainOK
  <2>1. pc[DmaTest] = "off" /\ \A c \in Cards : dma[c] = "idle"
    OBVIOUS
  <2> QED BY <2>1 DEF ChainOK
<1>7. AloneOK
  BY DEF AloneOK
<1> QED BY <1>3, <1>4, <1>5, <1>6, <1>7 DEF TInv

(* Every step of a program, the kernel or a card keeps the invariant. *)
LEMMA ToolsNext == TInv /\ [Next]_vars => TInv'
<1> SUFFICES ASSUME TInv, [Next]_vars PROVE TInv'
  OBVIOUS
<1>1. CASE UNCHANGED vars
  BY <1>1 DEF vars, drv_vars, sys_vars, card_vars, tool_vars, TInv, TypeOK, DriverTypeOK,
     CardTypeOK, OpenOK, SelectOK, Selecting, Opened, LineOK, ChainOK, AloneOK, Waiting
<1>2. CASE Next
  <2>1. OpenOK'
    BY <1>2, OpenStep DEF TInv
  <2>2. TypeOK'
    <3>1. ProcessTypes'
      BY <1>2, TypesApart, ProcessTypeStep DEF TInv
    <3>2. fds' \in [Procs -> 0..2]
      BY <2>1, <3>1 DEF OpenOK, ProcessTypes
    <3>3. CardTypeOK'
      BY <1>2, CardTypeStep DEF TInv
    <3>4. /\ pdev' \in Cards \cup {NoCard} /\ registered' \in BOOLEAN
          /\ irqbit' \in BOOLEAN /\ oops' \in BOOLEAN
          /\ handlers' \in [Cards -> Nat] /\ depth' \in [Cards -> 0..MaxDepth]
      BY <1>2, DriverTypeStep DEF TInv
    <3>5. {"off", "bind", "write"} \cup DmaPcs \cup CmdPcs = {"off"} \cup Statements
      BY DEF Statements
    <3> QED BY <3>1, <3>2, <3>3, <3>4, <3>5, Zenon DEF TypeOK, DriverTypeOK, ProcessTypes
  <2> QED BY <1>2, <2>1, <2>2, SelectStep, LineStep, ChainStep, AloneStep DEF TInv
<1> QED BY <1>1, <1>2

(* The invariant holds in every behaviour. *)
LEMMA ToolsInv == Spec => []TInv
  BY ToolsInit, ToolsNext, PTL DEF Spec

(* As long as the driver has not left a card, rr_interrupt has disabled a  *)
(* line at most once, one RR_IRQENA enables it again, and RR_IRQENA does   *)
(* not follow a null pointer: for any cards, runs and interrupts.          *)
THEOREM LineStaysRecoverable == Spec => []LineRecoverable
<1>1. TInv => LineRecoverable
  BY DEF TInv, LineOK, LineRecoverable
<1> QED BY <1>1, ToolsInv, PTL

(* What dmatest.py prints, when nothing but its own DMA could wake it, is  *)
(* what the DMA brought back, whatever the other programs ask meanwhile.   *)
THEOREM DmaTestPrintsData == Spec => []DmaTestSound
<1>1. TInv => DmaTestSound
  BY DEF TInv, AloneOK, Waiting, DmaTestSound
<1> QED BY <1>1, ToolsInv, PTL

(* RR_DEVSEL takes a card from no process that had opened the device when  *)
(* it counted the users.                                                   *)
THEOREM CardStaysWithUser == Spec => CardKept
<1>1. ASSUME TInv, Next, pdev' # pdev
      PROVE  \A p \in Opened : p \in Selecting \/ late[p]
  <2>1. PICK q \in Procs : Kernel(q)
    <3>1. ASSUME NEW p \in Procs, Start(p) \/ End(p) PROVE FALSE
      BY <1>1, <3>1 DEF Start, End, rr_open, rr_release, drv_vars
    <3>2. ASSUME NEW c \in Cards, Card(c) \/ CardInterrupt(c) \/ ForeignInterrupt(c)
          PROVE  FALSE
      BY <1>1, <3>2 DEF Card, CardInterrupt, ForeignInterrupt, rr_interrupt, drv_vars
    <3>3. ASSUME NEW p \in Procs, Asks(p) PROVE FALSE
      BY <1>1, <3>3 DEF Asks, NoCall, rr_open, RrIrqEna, RrIrqWait, RrDevGet, RrDevselCheck,
                        drv_vars
    <3> QED BY <1>1, <3>1, <3>2, <3>3, NextCases, StatementCases
  <2>2. q \in Selecting
    BY <1>1, <2>1 DEF Kernel, KernelStep, IrqWoken, RrUnregister, RrRegister, drv_vars, Selecting
  <2> QED BY <1>1, <2>2 DEF TInv, SelectOK
<1>2. TInv /\ [Next]_vars => [pdev' # pdev => \A p \in Opened : p \in Selecting \/ late[p]]_vars
  BY <1>1
<1> QED BY <1>2, ToolsInv, PTL DEF CardKept, Spec
=============================================================================
