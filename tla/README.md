# Verification of gn4124-core

gn4124-core is a VHDL core between the Gennum GN4124 PCI Express bridge and the
Wishbone buses of an FMC carrier. The host reads and writes carrier registers
through it, and a DMA engine moves blocks of 32-bit words in both directions. A
Linux driver (`sw/gnurabbit/kernel`) gives user space access to the card, and Python
tools (`sw/gnurabbit/python`) use it: a command shell, a DMA test and a programmer for
the EEPROM that configures the GN4124. This directory models the core's control logic,
the driver and the Python tools in TLA+, checks them with TLC and proves part of it with
TLAPS. Paths below are relative to `src/`; the VHDL files without a directory
are in `hdl/gn4124core/rtl/`.

## 1. Inventory

"Clock" names the domain a block's registers belong to: `clk_i` is the local bus
clock recovered from the GN4124, `dma_clk` the clock of the carrier's pipelined
Wishbone DMA bus (`l2p_dma_clk_i`, `p2l_dma_clk_i`), `wb_clk` that of the register
bus.

| Component | State | Operations | What makes it correct |
|---|---|---|---|
| DMA controller `dma_controller.vhd` (`clk_i`) | nine registers of the host, FSM state, status, start strobes, abort line, two interrupt lines | load of a register by the host, load of a list item by the P2L master, the seven states of `p_fsm` | the status never reports an earlier job; strobes and interrupts are single pulses, for the right item; every job ends in exactly one way |
| L2P DMA master `l2p_dma_master.vhd` (`clk_i`, `dma_clk`) | address counter, address FIFO, Wishbone master with read and acknowledge counters, data FIFO, packet generator, eight-state packet FSM | start, abort, read strobe, acknowledge, header / address / data words, pause | every carrier word arrives once, at its address, in a well-formed packet; no FIFO overflows; a job ends |
| P2L DMA master `p2l_dma_master.vhd` (`clk_i`, `dma_clk`) | request generator and five-state FSM, word counter, seven next-item registers, carrier address counter, FIFO, Wishbone writer | start of a transfer or of a list item, read request, completion word, completion without data, abort, write strobe, acknowledge | the carrier receives exactly the words asked for; an item's words reach their registers; no overflow; jobs end and their words land |
| L2P arbiter `l2p_arbiter.vhd` (`clk_i`) | three grants, output register | arbitrate, multiplex | a packet is never torn; a waiting register read is served |
| Wishbone master `wbmaster32.vhd` (`clk_i`, `wb_clk`) | two FIFOs, completion identifier, completion FSM, Wishbone FSM | decoded access, Wishbone cycle, completion | each host read gets one completion, with its identifier and the word as of its place among the writes; every write is made once |
| P2L decoder `p2l_decode32.vhd` (`clk_i`) | packet type, address, byte enables, data strobes | header, address and data word | every word is shown to the block it is for, with its address |
| Core top level `spartan6/gn4124_core.vhd` | status synchronisers, Wishbone DMA multiplexer, OR of the masters' done and error | wiring | the transfers of a list are made one after the other; the two masters do not disturb each other |
| DMA register slave `dma_controller_wb_slave.vhd` | wbgen2 synchronisers and acknowledge shift register | register read and write across clocks | each write is loaded once |
| Interrupt clock bridge `spartan6/pulse_sync_rtl.vhd` | two toggles | pulse in, pulse out | one pulse out for each pulse in |
| Serialiser, deserialiser `l2p_ser.vhd`, `p2l_des.vhd`, `serdes_*` | DDR registers, PLLs | | timing only |
| Package `gn4124_core_pkg.vhd` | none | `f_byte_swap` | byte order table of the specification |
| Address decoder and demo registers | slave select, acknowledge multiplexer | Wishbone access | one slave answers |
| rawrabbit driver `sw/gnurabbit/kernel` | selected device, device table, use count, IRQ flags and counters, depth of the interrupt line, wait queue | probe, remove, interrupt, open, close, ioctls | a waiter is woken for every interrupt; a line that was disabled can be enabled again; the device does not change under a user |
| `rr.py` (class `Gennum`) | open device, DMA buffer, page list | one method per ioctl or register access | addresses select the card that was named |
| `rrcmd.py` | bound card, DMA size | commands of a shell | a command does not disturb another process |
| `dmatest.py` | registers and pages it has written | a DMA round trip with an interrupt | the data printed are the data that made the trip; it does not hang |
| `eeprom_utils.py` | TWI registers, status bits, EEPROM contents, file | read and write over I2C, dump, program, compare | what is read or written is what the EEPROM holds; a dump restores it; no loop is endless |
| C tools `rrlib.c`, `rrcmd.c` | none that lasts | one system call per function | |
| Test benches, IP cores, Xilinx models, ctypes | | | third party or generated |

**How the parts interact.** The host writes the DMA registers through the decoder,
the Wishbone master and the register slave. The controller gives one master a start
strobe with addresses and a length, and waits for `done`, `error` or, in a chained
list, the next item, which the P2L master fetches from the host. The L2P master
reads the carrier bus in one clock domain and sends packets in the other; its two
FIFOs are the only link. All three senders (Wishbone master, L2P master, P2L master)
share the bus to the GN4124 through the arbiter. The P2L master sends read requests
and takes the words of the answers from the decoder, which also serves the Wishbone
master. The tools are separate processes that share the driver's only device: one
selects a card, another waits for its interrupt, a third writes its registers.

**What is hard.** Two or three independent clocks; FIFOs whose full flags come too
late for what is already in a pipeline; ready signals withdrawn with a word on its
way; ends of packets, requests and Wishbone cycles that are found by comparing
counters; an abort in the middle of any of it; answers to an aborted request. In the
software: an interrupt between a check and a sleep, a device changed between a count and
its use, status bits of an earlier transfer, a program stopped in the middle of a write.
`hazards` in `PROJECT.json` lists each at its line.

## 2. Modules

| Module | Models | Composes |
|---|---|---|
| `DmaJob` | abstract: what the controller promises the host | |
| `DmaController` | `dma_controller.vhd` | refines `DmaJob` |
| `L2pDmaPacket` | `clk_i` half of `l2p_dma_master.vhd` | |
| `L2pDmaFetch` | `p_target_cnt`, both FIFOs, Wishbone master of `l2p_dma_master.vhd` | extends `L2pDmaPacket` |
| `L2pDma` | the L2P master with controller, arbiter, Wishbone slave, GN4124 and host memory around it | extends `L2pDmaFetch` |
| `P2lRequest` | `clk_i` half of `p2l_dma_master.vhd` | |
| `P2lDmaWrite` | Wishbone writer of `p2l_dma_master.vhd` | extends `P2lRequest` |
| `P2lDma` | the P2L master with controller, arbiter, host, Wishbone slave and carrier memory around it | extends `P2lDmaWrite` |
| `L2pArbiter` | `l2p_arbiter.vhd` | |
| `WbmCompletion` | completion FSM of `wbmaster32.vhd` | |
| `L2pPath` | the arbiter with its three real requesters | extends `L2pArbiter`, `L2pDmaPacket`, `WbmCompletion`, `P2lRequest` |
| `DmaEngine` | the DMA part of `spartan6/gn4124_core.vhd`: controller, both masters, arbiter, Wishbone multiplexer, with host memory holding a chained list and carrier memory | instantiates `DmaController`; extends `L2pArbiter`, `L2pDmaFetch`, `P2lDmaWrite` |
| `P2lDecode32` | `p2l_decode32.vhd` | |
| `WbMaster32` | decoder side and Wishbone FSM of `wbmaster32.vhd` | extends `P2lDecode32`, `WbmCompletion` |
| `HostAccess` | register accesses of the host: decoder, Wishbone master and completions, with GN4124, host and register bus around them | extends `WbMaster32` |
| `RawRabbit` | the driver: probe, remove, interrupt, open, release, `RR_DEVSEL`, `RR_DEVGET`, `RR_IRQWAIT`, `RR_IRQENA` | |
| `Gennum` | `rr.py`, and the card's DMA engine as the tools see it | extends `RawRabbit` |
| `GennumTools` | `dmatest.py`, `rrcmd.py` and the main program of `rr.py` as processes on one driver | extends `Gennum` |
| `Twi` | the GN4124's TWI master and the EEPROM (external) | |
| `EepromI2c` | `i2c_read`, `i2c_write` of `eeprom_utils.py` | extends `Twi` |
| `EepromUtils` | the commands of `eeprom_utils.py` | extends `EepromI2c` |
| `DmaControllerProofs`, `L2pDmaProofs`, `P2lDmaProofs`, `L2pPathProofs`, `DmaEngineProofs`, `HostAccessProofs`, `GennumToolsProofs`, `EepromUtilsProofs` | theorems | each extends the module it is about |
| `MC*` | instances for TLC | |

Correspondence. A VHDL register is a variable of the same name (`ldm_`, `pdm_`,
`wbm_` prefixes tell equal names of two blocks apart); a process is an operator, and
a branch of its `case` one operator for the state it is about (`L2pData` is the
branch `L2P_DATA`). All processes of one clock take their step together, reading
unprimed values, which is what a rising edge does: `PacketTick`, `BusTick`,
`RequestTick`, `WriterTick`, `ArbiterTick`, `CompletionTick` and the controller's
`Tick` are such edges. In `L2pDma`, `P2lDma`, `DmaEngine` and `HostAccess` a step is an edge of either clock, in
any order. A concurrent assignment is an operator without primes (`AddrFifoRd`,
`P2lRdy`). Asynchronous reset is `Init`.

In the software modules a step is what cannot be interrupted: a system call up to the
point where the driver drops its lock or sleeps, one access of a program to a register, or
one turn of a polling loop. `pc` names the place in the program; the interrupt handler, the card,
the TWI master and the user are actions of their own.

Data. Addresses count words, not bytes. The word at address `a` is the number `a`,
which makes "the right word at the right place" a comparison. A word on the bus to the
GN4124 is a record with its kind (header, high, low, data, ...) and the fields a property
looks at. Spans (`LowSpan`, `AddrSpan`, `CntSpan`, `HdrSpan`...) are the powers of
two of the code's vectors and keep their wrap-around.

The surroundings of each master are in `L2pDma`, `P2lDma` and `DmaEngine`: the GN4124 and the
Wishbone slaves are not in the repository and are modelled from the way the core uses
them. `Env` and `HostEnv` say which of the following they may do, so that a run states
its assumptions in its cfg:

| Flag | Meaning |
|---|---|
| `throttle`, `throttle_last` | the GN4124 withdraws `L2P_RDY` while the packet FSM is in `L2P_DATA`, in `L2P_LAST_DATA` |
| `dry` | the data FIFO is empty when the data words of a packet start |
| `stall` | the Wishbone slave stalls a strobe (without it, only between strobes) |
| `abort` | the host aborts a job |
| `cpln` | the host refuses a read request |
| `write` | the host writes a carrier register during a P2L job |
| `late` | a P2L job starts while the answer to an aborted one is outstanding |
| `slow`, `refuse` | in `DmaEngine`: the carrier may take the words of a P2L item after the next item has started; the host refuses a request |

## 3. Runs

Passing:

* **controller** (`MCDmaController.cfg`). The controller with a host that writes any
  register and masters that report anything in any tick. `StatusTruthful`: Busy
  whenever a master works. `StartDiscipline`: starts exclude each other and the abort
  line. `PulsesOneTick`: pulses last a tick, and what starts is what the registers held.
  `JobRefined`: the controller implements `DmaJob`, so that every end raises its own
  interrupt and only once.
* **l2p_dma** (`MCL2pDma.cfg`). Two jobs of one, three, five or seven words in packets
  of at most three, at 32- and 64-bit addresses; the surroundings are calm (`Env = {}`), the
  clocks independent, the slave's latency and the arbiter's delay arbitrary.
  `HostExact`, `WellFormed`, `DoneComplete`, and `JobEnds` under fairness.
* **l2p_hostile** (`MCL2pHostile.cfg`). All five flags at once with aborts and
  restarts: `NoOverflow` and `BusHeld` (the Wishbone cycle is held while an answer is
  due) still hold.
* **p2l_dma** (`MCP2lDma.cfg`). Jobs of one request (2 words, a full request of 8
  whose length field is 0, as 1024 words have in the code), list items, answers split at
  any word, refusals, aborts. `CarrierExact`, `DoneComplete`, `ItemExact`, `NoOverflow`,
  `BusHeld`, `JobEnds`, `Landed`.
* **path** (`MCL2pPath.cfg`). The arbiter with its three requesters, aborts and an
  empty FIFO: `WordsGranted` (no word is shown without the grant, where the multiplexer
  would drop it), `PacketsWhole` (packets do not mix on the wire) and `WbmServed` (a
  register read of the host gets the bus, however long the jobs are; a packet that an abort has
  cut delays it until another has gone out whole, and only a wire that stays cut, or is cut
  again and again, keeps it waiting).
* **engine** (`MCDmaEngine.cfg`). The whole DMA engine on lists of one to three items of both
  directions, at 32- and 64-bit addresses, one item reading what the item before wrote; with
  aborts and refusals at any time and a second list after them. `ChainExact`: every transfer
  the controller starts is the next of the list in host memory. `ListExact`: a list
  reported done has left both memories as its items say when executed one after the other.
  `OwnEnd`: a transfer is ended by the done line of the master it was started for, the one the
  direction bit of `DMAATTRIBR` names; that this is the direction of the list's item is part of `ChainExact`. `ListEnds`.
* **host_access** (`MCHostAccess.cfg`). Three packets out of reads, writes, bursts and DMA
  completions, to both base address registers: `AnswersExact`, `ReadsAnswered`, `WritesLand`,
  `NoOverflow`, `TypeOK`.
* **eeprom** (`MCEepromUtils.cfg`). Up to three commands on an EEPROM of two pages, one fault on the
  bus, the user interrupting the program anywhere: `ReadExact`, `WriteExact`, `WriteSpaced`,
  `DumpRestores`, `CompareTruth`, and `CommandsEnd` even when no transfer ever completes.
* **tools** (`MCGennumTools.cfg`). `dmatest.py`, `rrcmd.py` and `rr.py` side by side on a driver
  with two cards, an interrupt of a stranger on the shared line, and any process killed
  at any time: `DmaTestSound`, `DmaTestEnds`, `LineRecoverable`, `CardKept`.

Violations. Each is a place where the code and a comment or document of the repository disagree;
the quotes are under `findings` in `PROJECT.json`.

* **p2l_long**: a P2L job of more than one request asks for its first block again,
  because the host address is never advanced (`CarrierExact`).
* **engine_slow**: the carrier takes the words of a P2L item when the next item, an L2P one,
  has already been started (a slave that stalls for as long as the host takes to deliver an
  item is enough). Each master looks at the other's cycle when it reads its FIFO, two ticks before its own
  cycle starts; both start one, the multiplexer hides the write, and both count its
  acknowledge: a word is missing on the carrier and a wrong one is in host memory
  (`ListExact`), although the items have no word in common.
* **irq_ena**: `RR_IRQENA` reports an interrupt that did not happen, because two flags
  share a bit (`IrqEnaHonest`).

Other disagreements met while modelling, which no run of their own records:

* With flags of the surroundings that the passing runs leave out: with
  `throttle`, `HostExact` fails (`L2P_RDY` falling in `L2P_DATA` loses the word between the FIFO
  and the output register) ; with `throttle_last`, `HostExact` fails (the host address advances in every waiting tick);
  with `CrossingJob`, it fails too (no carry into the high half); with `dry`, `WellFormed`
  fails; with `throttle` and `dry` together, `PacketsWhole` of `L2pPath` fails;
  with `abort`, `HostExact` fails (the words left in the FIFOs go out with the next job's); with `stall`, `HostExact`, `JobEnds` and `Landed` fail (a strobe the slave stalls is lost);
  with `late` or `write`, `CarrierExact` fails (identifiers are not compared, and a register write is
  stored as a word of the job); with `late`, the P2L `NoOverflow` fails as well (a start strobe
  leaves `to_wb_fifo_wr` set, and the word is written twice).
* A packet cut off by an abort never shows its last word and the arbiter keeps the grant:
  `WbmServed` without its hypothesis fails.
* After an abort the L2P master sends the words left in its FIFOs. If the host starts a list
  before they are gone, `OwnEnd` fails: their done ends a transfer of the new list. `Quiet` in
  `DmaEngine` is the patience this takes.
* An item that arrives in the tick of an abort, or in the two after it, restarts the controller
  for a tick (`p_regs` sets the start bit in any state), although
  `documentation/specifications/func_spec_GN4124_core.tex:156` leaves that to the host.
* `func_spec_GN4124_core.tex:175` calls bit 0 of DMAATTRIBR the mark of the last item;
  the controller continues the list when it is set.
* The arbiter prefers the L2P master to the P2L master, the reverse of
  `documentation/specifications/tech_spec_GN4124_core.tex:200`.
* A P2L start refused with `dma_busy_error` while `to_wb_fifo_wr` is set writes the last word twice
  (`p2l_dma_master.vhd:484`).
* `eeprom_utils.py` prints "EEPROM written" also when the last block was refused or the poll ran
  out (lines 249, 169), clears the interrupt status before it waits for the bus (114, 122), truncates the file
  before the EEPROM is read (194) and raises on a listing without an end mark (184).
* `rawrabbit.c`: after `RR_IRQENA` the shared bit is clear, `rr_pciremove` does not free the
  handler, and the card the driver has left can still end a wait (`DmaTestSound` fails if such an
  interrupt is not counted as a disturbance). `RR_IRQENA` without a card follows a null pointer. `rr.py`: `parse_addr` drops the subsystem and the
  slot (170 to 173), and its page list has 256 entries where the comment says 1024. `rrcmd.py` opens the device
  twice, so that its `bind` is always refused.

### Bounds, and why they are enough

* `MaxJobs`, `MaxReadJobs` = 2: the second job meets everything the first leaves
  behind (counters, FIFO contents, addresses, requests); a third meets nothing new.
* Payload 2 or 3, up to three packets: first, middle and last packet, and packets of
  one, two and three words, the cases the comparisons of `l2p_data_cnt` with 1 and 2
  distinguish.
* FIFO thresholds 1 or 2, with exactly the margin `FifoMargins` or `ToWbMargin` asks for (the code leaves
  12 words): the full case happens in every run with the flag.
* Counter spans of 8: they exceed the number of accesses outstanding, as 2^32 does in the
  code, and the free-running Wishbone counters wrap within **l2p_dma** and **p2l_dma**. With lost
  strobes the difference of the counters grows with every loss. **l2p_hostile** has `stall`: its
  two jobs make six accesses, so that the difference cannot wrap there either, nor do the counters.
  **p2l_dma** has no `stall`: its jobs write up to sixteen words, and a difference of 8 would look
  like none, which 2^32 losses would take in the code.
* `FifoBound` = 1 in `L2pPath`: FIFOs that are empty or not; the FSMs see no more.
* `SlaveDepth`, `WriteDepth` 1 or 2: an answer in the next tick, or one access behind another.
* Engine: items of one to three words, payload 2, so that an item takes two packets;
  a list of three items has a first, a middle and a last one, and a second list meets what
  an abort or a refusal leaves. Answers come in one packet, since **p2l_dma** splits them. The GN4124 is always
  ready; the carrier has taken the words of a P2L item before the next transfer starts
  (otherwise **engine_slow**), and has a packet's next word when it is due (`dry`).
* Register accesses: three packets are a read between two writes, or two reads
  under way at once; two words per base address register; the FIFO has the margin `WbmMargin`.
* EEPROM: page, FIFO, burst and record have their real sizes; two pages make addresses
  wrap. Three commands are a dump, a write that fails and one that restores it. Polling gives up after 2
  turns instead of hundreds of thousands.
* Tools: two cards of one kind in different slots, one start of each program, one interrupt of a stranger: each race of
  the driver needs two processes.
* Controller: two addresses, the lengths 0 (refused) and 2, and items of both
  directions, last and not last. Values are only copied.

### Fairness

Liveness is checked under weak fairness of the clocks' edges in which the surroundings
are willing: the arbiter's other requesters let go, the GN4124 is ready, the slave
answers what it accepted, the host answers its requests (`Prompt`). Clocks do run, and
the protocols of PCI Express and Wishbone oblige the partners to answer. No fairness is
assumed for starts, aborts, refusals or register accesses. In `L2pPath` the host's
answers are not fair either, since a read request must not block the bus. `HostAccess`
and `DmaEngine` take the edges of their two clocks as fair, with a host that answers and a slave that acknowledges.
In the software models a running program, the kernel and the card go on; the user need not
do anything, and in `EepromUtils` the TWI master may hang in spite of fairness.

## 4. Proofs

`DmaControllerProofs`, for every set of addresses, lengths and list items, assuming
only `DmaConstants` (items are well-typed records, the null address is an address):
`TypesHold`, `StatusHolds`, `StartsHold`, `StartStrobes` (the action property
`PulsesOneTick`) and `JobImplemented` (`Spec => JobRefined`). The invariant is
`IInv == TypeOK /\ StatusTruthful /\ StartDiscipline /\ IrqPlace`. `IrqPlace` says in
which state each interrupt and the abort line may be high; without it, neither "starts exclude
the abort line" nor the refinement (an interrupt is low when a job starts) is
inductive. The step lemma splits a tick into the register process and one of the seven
states, and each state into the conjuncts it disturbs.

`L2pDmaProofs`, theorem `FifosHold`: `Spec => []NoOverflow` for every payload, FIFO
size, threshold, slave depth and set of jobs with `FifoMargins`, and for every `Env`,
that is with stalls, throttling and aborts. The invariant is
`OInv == OTypes /\ AddrRoom /\ DataRoom`. `AddrRoom`: the address FIFO is full one
write late, and a start in that tick leaves the pending write pending, so two entries may follow the
threshold. `DataRoom`: every read that left the address FIFO is in the master (one
popped, one strobed), in the slave or in the data FIFO, so what the FIFO can still
receive after its threshold is bounded by `SlaveDepth + 2`. `NoOverflow` alone says
nothing of what is on its way and is not inductive.

`HostAccessProofs`, theorems `TypesHold` and `FifoHolds`: `Spec => []TypeOK` and
`Spec => []NoOverflow` for every FIFO size, threshold and delay of P2L_RDY with `WbmMargin`, every
set of packets and every interleaving of the clocks. The invariant is
`AInv == TypeOK /\ TxOK /\ SourcesOK /\ Room`. `TxOK`: the packet being
sent is one of `Packets` or what is left of one. `SourcesOK`: the registers the typed ones are
loaded from (the completion identifiers, the carrier's registers, the slave's answer) hold
values of their types. `Room`: the FIFO, a pending write and the word the decoder shows are together at
most the threshold, two words and the words sent since P2L_RDY fell. The FIFO's length alone does not bound what is on its way.

`HostAccessProofs`, theorem `AnswersAreExact`: `AnswersExact`, under the same assumptions and without a word about the
slave's or the arbiter's speed. Two lines go through the core. The accesses (`Ops`) stand in the bus, in the FIFO to it, in the
entry being written and in the decoder; the answers (`Answers`) on the bus, in the entry of the other FIFO, in that FIFO and in
the completion FSM. What a tick of either clock does to a line is one of three things: nothing, a word more at
its end, the first word gone. The lemmas on lines (`ValueAfter`, `ValueDone`, `DueRead`, `DueDone`, ...) say what each
means for the reads on it, apart from any register. `OrderInv` adds to `AInv`:

* `Ordered`: what the host expects a register to hold is what it will hold when the accesses on their way
  are done (`Value`); the oldest reads the host waits for are owed `Answers`, in order; and the others are exactly the reads of
  `Ops`, in order, each owed the value it will find (`Due`). `AnswersExact` alone says nothing of a read on its way.
* `BusPlaces`, `CplPlaces`: which FSM state holds a word of which line, so that none is in two places or in none.
* `Sending`: the data phase on the wire is the packet whose header the decoder has seen.
* `IdsKept`: until a later header has passed, the identifier in the decoder is that of the youngest read.

`L2pDmaProofs`, theorem `MasterKeepsCycle`: `BusHeld`, for every `Env` without `stall` and
`SlaveDepth < CntSpan`. `BInv` adds to `OInv` that the read and acknowledge counters differ by
`Owed` (the strobe on the bus and the reads in the slave) modulo their span, and that the cycle is up
while something is owed. Both hypotheses are needed: a stalled strobe is counted and lost, and with as many
reads outstanding as the counters can count, `LastAck` takes a full span for one; in the code the span is 2^32.

`L2pDmaProofs`, theorems `OnlyJobWords` (`HostExact`), `PacketsWellFormed` (`WellFormed`) and
`DoneIsComplete` (`DoneComplete`): the whole path of a word from the carrier to the host, for every
payload, header span, FIFO size and threshold, slave, set and number of jobs, under `Calm`: `Env = {}`,
`SlaveDepth < CntSpan`, and no job crosses 4 GB. The constants of **l2p_dma** satisfy it, and TLC refutes
`HostExact` or `WellFormed` when any one of the three is dropped (any of the five flags alone, a job
across the boundary, `SlaveDepth = CntSpan`). The invariant `LInv` adds to `OInv /\ BInv`:

* `Pipe`: the counts of the words that have passed each stage (`Asked`, `Queued`, ..., `Popped`) are
  computed backwards from `dma_length_cnt` through both FIFOs, the bus and the slave; between two stages lie exactly the
  words from the later count to the earlier, in order.
* `Jobbing`: `job.addr`, the address registers and `l2p_len_cnt` agree: the next packet begins at `At`.
* `Places`: in each state of the packet FSM, how many words of the packet have been popped
  and whether one is on the FIFO's output; when the header is sent, its size has been loaded (`Loaded`).
* `Bus`: what the GN4124 has received, with the word on the bus (`Seen`), is the header, the address and the words
  from `At`; at the end of a packet (`Closing`) it is whole.
* `Memory`: the words of the packets that have ended are in host memory.

Every state of the FSM has its lemma (`IdleStep`, `HeaderStep`, ..., `LastStep`), a start has `StartStep`
(between jobs the pipeline is empty, `Drained`), and an edge of the other clock `PipeDmaClk` and `Apart`.

`P2lDmaProofs` proves the safety properties of `P2lDma`. `TypesHold` (`TypeOK`, no hypothesis) with
`TInv`, which adds the types of the surroundings and that the last request is known as such before
its header goes out. `ToWbFifoHolds` (`NoOverflow`) without `late`, which breaks it: `Pulses`, `Lines` and `Aborts`
say which lines may be up in which state, `Room` that the FIFO and a pending write hold at most the
threshold, one word and what was sent since P2L_RDY fell. `WriterKeepsCycle` (`BusHeld`) is the
counterpart of `MasterKeepsCycle`. `OnlyJobWordsLand` (`CarrierExact`) and `ItemsArriveWhole` (`ItemExact`)
assume `Orderly`: no `late`, no `write` (each breaks `CarrierExact`), no job longer than one request
(**p2l_long**), and a host span that is a multiple of the carrier's, which the representation of words as
their addresses needs. `Flow` follows a request from the registers over the wire into `reads` and its answers back
into the counters, `Wanted` says that each pair in the FIFO and the writer belongs to a job and to its own address,
`ItemFilled` that the registers of an item fill in order. `EndOfJobComplete` (`DoneComplete`) assumes `Copying`:
`Orderly`, no `stall`, `WriteDepth < WrCntSpan`, and no job that writes a carrier address twice. `Placed` says that
each word received is on the carrier or is the last one for its address in the FIFO or writer. The constants of
**p2l_dma** satisfy all of these.

`L2pPathProofs`: `WordsAreGranted` (`WordsGranted`, no hypothesis) from `GInv`: each requester asks
before its packet and keeps the grant from the header to the last word, since the arbiter takes it from nobody who asks
or shows no end of packet. `PacketsStayWhole` (`PacketsWhole`) without `throttle`, which with
`dry` breaks it: `SInv` relates what has been sent of a packet, seen through the arbiter's output register, to the state of its sender, also
for a packet an abort has cut.

`DmaEngineProofs`, theorem `MasterEnds`: `OwnEnd`, for every payload, FIFO size, counter span, set of lists and number of
them, and for aborts and refused reads at any time. Its hypothesis is `Settled`: no `slow` (the carrier takes the words of a
P2L item before the next transfer starts; with it the bus is not one master's, see **engine_slow**), and the slave holds fewer
accesses than either counter pair counts (`BusDepth < CntSpan`, `BusDepth < WrCntSpan`; the counters have 32 bits). The
constants of **engine** satisfy it. The argument needs it; TLC has found no violation of `OwnEnd` itself without it. As
everywhere in `DmaEngine`, the carrier has a word ready when the data words of a packet start, unless an abort took it. The
invariant is `IInv == Types /\ Strobes /\ Starts /\ Kills /\ Turns /\ Held /\ Counted`:

* `Types`: what the registers, both memories and the packets on their way hold; an item fetched is made of words.
* `Strobes`, `Starts`: a start strobe belongs to the state that waits for its answer, and whatever can lead to one
  (a start state, the start bit, register writes to come) finds both masters at rest (`Resting`).
* `Kills`: an abort stays visible in `ctrl_abort` until the next list is written, so a transfer that goes on was not aborted.
* `Turns`: in `DMA_TRANSFER` and `DMA_CHAIN` the master that was not started is at rest, and a P2L master at work
  reports nothing yet. `OwnEnd` follows from it.
* `Held`: the accesses the slave holds are all reads of the one master or all writes of the other, and the
  difference of its counters is their number (`Open`, modulo the span), so the cycle ends with the last acknowledge.
* `Counted`: the words of an L2P transfer that are in no packet yet (`Flight`: still to be addressed, in the address FIFO, on the
  bus, in the slave, in the data FIFO) are as many as `l2p_len_cnt` and `l2p_data_cnt` say in each state of the packet FSM. When
  the FSM reports done none is left, so it does not wake up again and report a second time during another transfer.

`OwnEnd` alone is far from inductive: that a done line is not a late one depends on no word being left in any FIFO of the other
clock domain. `ClkParts` splits an edge of `clk_i` into its processes, `ControllerMoves` says what `p_fsm` may do with the
masters' lines left open, and each conjunct has a lemma for each clock (`TurnsClk`, `HeldDmaClk`, ...).

`GennumToolsProofs`: `LineStaysRecoverable` (`LineRecoverable`), `DmaTestPrintsData` (`DmaTestSound`) and
`CardStaysWithUser` (the action property `CardKept`), for any number of cards, runs and interrupts and with any
process killed at any time; the only assumptions are those of the modules. The invariant is
`TInv == TypeOK /\ OpenOK /\ SelectOK /\ LineOK /\ ChainOK /\ AloneOK`: the use count is what the places of the
programs say; who is in `RR_DEVSEL` was alone when it was admitted; the active card has its handler and, as long as no
card was left, its line is disabled at most once and only with the shared bit set; a chain that runs works on
the written item and data; while nothing else can wake `dmatest.py`, it waits until the data are back.

`EepromUtilsProofs`: `ReadsExact` (`ReadExact`), `WritesExact` (`WriteExact`), `WritesSpaced` (`WriteSpaced`),
`DumpsRestore` (`DumpRestores`) and `ComparesTrue` (`CompareTruth`), for every size of EEPROM, page, FIFO and burst,
every file and content of the EEPROM, any number of commands and faults, and a user who interrupts anywhere. The assumptions are the modules':
bytes, lines and sizes are what they are called; a page divides the EEPROM and a burst does not exceed it nor, with its address
byte, the FIFO; and `Base % RomSize = 0`, since an address byte counts whole rounds of the EEPROM (256 cells, 256 values).
`TypesHold` proves `TypeOK`. The invariant is `IInv == TInv /\ Places /\ FileBytes /\ ReadInv /\ WriteInv /\ SaidInv`:

* `TInv`: the types, and that the polling loops and the counts of `i2c_write` stay within their bounds.
* `Places`: which command is where, and when an outcome is told.
* `FileBytes`: what is written or compared is the file; the bytes of a complete dump are those it was taken from. It needs
  that a record printed as a line and read back is the record (`LineRead`, from the digits of a number, `Digits` and `AddrDigits`).
* `ReadInv`: in a calm call of `i2c_read` the buffer holds the first `total` bytes of the EEPROM, what is still
  asked for adds up, and `ReadPlace` says at each line what the TWI master, its status bits, its FIFO and the
  EEPROM's pointer hold. `ReadExact` alone says nothing before the call returns.
* `WriteInv`: in a calm call of `i2c_write` the first `total` bytes are in their cells and the other cells are untouched
  (`Written`); the block in the FIFO lies in one page (`Block`), so its bytes meet no cell twice
  (`BlockApart`) and the pointer does not roll over (`BlockWritten`).
* `SaidInv`: the outcome told last is still true of the EEPROM, until the next command.

The last three speak of `Calm` only; a refused transfer, an exhausted polling loop or a bus busy at the call leave
no promise, and TLC refutes the properties without it. Each action has one lemma that reduces it to what the conjuncts
see of it (`CallsRead`, `Leaves`, ...), and each conjunct its step lemma (`ReadInvStep`, ...).

Only model-checked: all liveness and the fairness behind it (there are no rules for `ENABLED` in the
prover); `ChainExact` and `ListExact` of the engine, which follow the data of a list through both masters, their
FIFOs and two memories at once. `WordsAreGranted` and the theorems of the masters are about the same operators the engine is
composed of, but its surroundings differ, so they do not carry over by themselves.

## 5. Not modelled

* Byte swapping and byte enables: they change words, not control.
* Serialisers and deserialisers, PLLs: timing of vendor primitives.
* The flags of the asynchronous FIFOs are exact and immediate in both domains. The FIFO itself
  (`generic_async_fifo`) comes from another repository; its flags lag on the safe side
  (full early, empty late), which the independent clocks already allow for as a delay.
* The DMA register slave and the pulse synchroniser of the interrupts (`pulse_sync_rtl.vhd`):
  wbgen2 output and a library cell; their effect in the models is one register load or one
  pulse at a time.
* Driver: read, write, mmap, the DMA buffer's allocation and the firmware loader, which copy
  data. C tools: wrappers of the same calls as the Python tools.
* The `when others` branches of FSMs, which no legal state reaches.
* Reset in the middle of a run: reset is `Init`.
* A start within two ticks of an abort: the host would have to write DMACTRLR again,
  through a packet, the Wishbone master and the register slave's synchronisers.
* Test benches, generated cores, unisims, ctypes: third party.

## 6. Plan

Done, in this order: controller and its abstract job; L2P master; P2L master; the L2P
path; the controller's theorems; the L2P FIFO theorem; EEPROM tool; driver and tools;
register accesses and their theorems; the DMA engine; the theorems of both masters, the L2P path,
the tools, the EEPROM utility and the engine's `OwnEnd`.

Next:

1. Theorems: `ChainExact` and `ListExact` of the engine, on top of `IInv` (one master works at a time).
2. `DmaRegsSlave`: the clock crossing of the DMA registers; each write is loaded once.
3. Pure operators: `f_byte_swap` and the Wishbone address decoder.
