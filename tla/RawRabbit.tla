------------------------------ MODULE RawRabbit ------------------------------
(***************************************************************************)
(* The rawrabbit kernel driver (rawrabbit.c): one device node, one active  *)
(* card, any number of processes.  A process is in the kernel when its kpc *)
(* is not "user": in RR_DEVSEL, which gives up the lock between its steps, *)
(* or asleep in RR_IRQWAIT.  Everything else happens under the lock.       *)
(*                                                                         *)
(* irqcount only serves to tell whether an interrupt came after a sleeping *)
(* process read it: "fired" says just that.  RR_FLAG_IRQDISABLE and        *)
(* RR_FLAG_IRQREQUEST are the same bit, "irqbit".                          *)
(***************************************************************************)
EXTENDS Naturals

CONSTANTS
  Procs,      \* the processes
  Cards,      \* the cards on the bus: records of id, sub and geo
  NoCard,     \* pdev = NULL
  Unused,     \* RR_DEVSEL_UNUSED
  Default,    \* the identifiers the module is loaded with
  MaxDepth    \* bound: how often a line may be disabled on top of itself

ASSUME DriverAssumption == NoCard \notin Cards /\ MaxDepth \in Nat \ {0}

VARIABLES
  pdev,       \* the active card
  devsel,     \* the selection in force
  registered, \* RR_FLAG_REGISTERED
  irqbit,     \* the flag bit 0x2
  handlers,   \* how often rr_interrupt is installed on a card's line
  depth,      \* how often a card's line has been disabled
  oops,       \* the kernel followed a null pointer
  fds,        \* open files of a process; usecount is their sum
  kpc, sel, fired

drv_vars == <<pdev, devsel, registered, irqbit, handlers, depth, oops>>
sys_vars == <<fds, kpc, sel, fired>>

\* A selection: vendor and device, and the other pairs or Unused.
Matches(c, s) ==
  /\ c.id = s.id
  /\ s.sub # Unused => c.sub = s.sub
  /\ s.geo # Unused => c.geo = s.geo

\* No RR_DEVSEL of the process has still to take effect.
NoSel == [id |-> Unused, sub |-> Unused, geo |-> Unused]

Opened == {p \in Procs : fds[p] > 0}

\* dev->usecount > 1
UsedByOthers(p) == fds[p] > 1 \/ Opened \ {p} # {}

\* rr_init: the driver is loaded and probes for its default card.
DriverInit ==
  /\ devsel = [id |-> Default, sub |-> Unused, geo |-> Unused]
  /\ registered = TRUE
  /\ \/ pdev \in {c \in Cards : Matches(c, devsel)}
     \/ pdev = NoCard /\ \A c \in Cards : ~Matches(c, devsel)
  /\ irqbit = (pdev # NoCard)
  /\ handlers = [c \in Cards |-> IF c = pdev THEN 1 ELSE 0]
  /\ depth = [c \in Cards |-> 0] /\ oops = FALSE
  /\ fds = [p \in Procs |-> 0] /\ kpc = [p \in Procs |-> "user"]
  /\ sel = [p \in Procs |-> NoSel]
  /\ fired = [p \in Procs |-> FALSE]

DriverTypeOK ==
  /\ pdev \in Cards \cup {NoCard} /\ registered \in BOOLEAN /\ irqbit \in BOOLEAN
  /\ oops \in BOOLEAN
  /\ handlers \in [Cards -> Nat] /\ depth \in [Cards -> 0..MaxDepth]
  /\ fds \in [Procs -> 0..2] /\ fired \in [Procs -> BOOLEAN]
  /\ kpc \in [Procs -> {"user", "selected", "unregistered", "asleep"}]

\* Back to user space.  What a call returned is noted for the reader (0, an
\* error): no program looks at it.
Return(p, value) == kpc' = [kpc EXCEPT ![p] = "user"]

-----------------------------------------------------------------------------
\* open and release

rr_open(p) ==
  /\ fds' = [fds EXCEPT ![p] = @ + 1]
  /\ UNCHANGED <<drv_vars, kpc, sel, fired>>

\* Every file of a process that ends.
rr_release(p) ==
  /\ fds' = [fds EXCEPT ![p] = 0]
  /\ Return(p, "0") /\ fired' = [fired EXCEPT ![p] = FALSE]
  /\ UNCHANGED <<drv_vars, sel>>

-----------------------------------------------------------------------------
\* The interrupt

(* Mutant: the handler does not say that it has disabled the line. *)
FlagIrqForgotten == UNCHANGED irqbit
FlagIrq == irqbit' = TRUE

\* An interrupt on the line of card c runs every handler installed on it.
rr_interrupt(c) ==
  /\ handlers[c] > 0 /\ depth[c] = 0 /\ handlers[c] <= MaxDepth
  /\ FlagIrq
  /\ depth' = [depth EXCEPT ![c] = @ + handlers[c]]
  /\ fired' = [p \in Procs |-> kpc[p] = "asleep"]
  /\ UNCHANGED <<pdev, devsel, registered, handlers, oops, fds, kpc, sel>>

(* Mutant: enabling an enabled line is counted. *)
EnabledBelow(c) == [depth EXCEPT ![c] = @ - 1]

\* Enabling a line that is enabled is only warned about.
Enabled(c) == [depth EXCEPT ![c] = IF @ > 0 THEN @ - 1 ELSE 0]

-----------------------------------------------------------------------------
\* The ioctl commands

(* Mutant: that the interrupt already happened is not noticed. *)
IrqAlreadyIgnored == FALSE
IrqAlready == irqbit

\* RR_IRQWAIT: the count and the flag are read under one lock.
RrIrqWait(p) ==
  /\ IF IrqAlready
     THEN Return(p, "EAGAIN")
     ELSE kpc' = [kpc EXCEPT ![p] = "asleep"]
  /\ UNCHANGED <<drv_vars, fds, sel, fired>>

(* Mutant: the sleeper wakes up while nothing has changed. *)
HasFiredNot(p) == ~fired[p]
HasFired(p) == fired[p]

IrqWoken(p) ==
  /\ kpc[p] = "asleep" /\ HasFired(p)
  /\ Return(p, "0") /\ fired' = [fired EXCEPT ![p] = FALSE]
  /\ UNCHANGED <<drv_vars, fds, sel>>

\* RR_IRQENA: enable_irq(dev->pdev->irq), whether or not there is a card.
RrIrqEna(p) ==
  /\ \/ ~irqbit /\ Return(p, "EAGAIN") /\ UNCHANGED <<irqbit, depth, oops>>
     \/ /\ irqbit /\ pdev # NoCard
        /\ irqbit' = FALSE /\ depth' = Enabled(pdev)
        /\ Return(p, "0") /\ UNCHANGED oops
     \/ irqbit /\ pdev = NoCard /\ oops' = TRUE /\ UNCHANGED <<irqbit, depth, kpc>>
  /\ UNCHANGED <<pdev, devsel, registered, handlers, fds, sel, fired>>

RrDevGet(p) ==
  /\ Return(p, IF pdev = NoCard THEN "ENODEV" ELSE "0")
  /\ UNCHANGED <<drv_vars, fds, sel, fired>>

(* Mutant: the files of other processes are not counted. *)
DevselRefusedOwn(p) == fds[p] > 1
DevselRefused(p) == UsedByOthers(p)

\* RR_DEVSEL: the users are counted under the lock, which is then given up.
RrDevselCheck(p, s) ==
  /\ IF DevselRefused(p)
     THEN Return(p, "EBUSY") /\ UNCHANGED sel
     ELSE /\ kpc' = [kpc EXCEPT ![p] = "selected"]
          /\ sel' = [sel EXCEPT ![p] = s]
  /\ UNCHANGED <<drv_vars, fds, fired>>

\* rr_pciremove: the interrupt is freed if the bit is set.  The bit is then
\* clear, so that the line is not enabled again although the code means to.
rr_pciremove ==
  /\ irqbit' = FALSE
  /\ handlers' = IF irqbit /\ pdev # NoCard
                 THEN [handlers EXCEPT ![pdev] = @ - 1] ELSE handlers
  /\ pdev' = NoCard

RrUnregister(p) ==
  /\ kpc[p] = "selected"
  /\ devsel' = sel[p] /\ registered' = FALSE
  /\ IF registered /\ pdev # NoCard
     THEN rr_pciremove ELSE UNCHANGED <<irqbit, handlers, pdev>>
  /\ kpc' = [kpc EXCEPT ![p] = "unregistered"]
  /\ sel' = [sel EXCEPT ![p] = NoSel]
  /\ UNCHANGED <<depth, oops, fds, fired>>

\* The first matching card the bus offers is taken, the others are refused.
rr_pciprobe(c) ==
  /\ pdev' = c /\ irqbit' = TRUE
  /\ handlers' = [handlers EXCEPT ![c] = @ + 1]

RrRegister(p) ==
  /\ kpc[p] = "unregistered" /\ registered' = TRUE
  /\ \/ \E c \in Cards :
          Matches(c, devsel) /\ rr_pciprobe(c) /\ Return(p, "0")
     \/ /\ \A c \in Cards : ~Matches(c, devsel)
        /\ Return(p, "ENODEV") /\ UNCHANGED <<pdev, irqbit, handlers>>
  /\ UNCHANGED <<devsel, depth, oops, fds, sel, fired>>

KernelStep(p) == IrqWoken(p) \/ RrUnregister(p) \/ RrRegister(p)

=============================================================================
