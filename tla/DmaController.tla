--------------------------- MODULE DmaController ----------------------------
(***************************************************************************)
(* The DMA controller (hdl/gn4124core/rtl/dma_controller.vhd): the         *)
(* registers the host programs and the state machine that starts the DMA   *)
(* masters and follows the chained list of items.                          *)
(*                                                                         *)
(* One step is one rising edge of clk_i: p_regs and p_fsm update all their *)
(* registers from the old values.  The inputs of the tick are the register *)
(* write that reaches the clk_i domain in it (at most one: the Wishbone    *)
(* slave serialises them), the status lines of the two DMA masters and the *)
(* list item the P2L master has fetched, if any.                           *)
(***************************************************************************)
EXTENDS Naturals

CONSTANTS Addr,      \* addresses, of the carrier and of the host
          NullAddr,  \* address 0, the value after reset
          Lens,      \* values of DMALENR, in words (bits 31 downto 2)
          ItemLen,   \* the words of a list item (0x1C bytes)
          Items,     \* the list items that host memory may hold
          NoItem     \* next_item_valid_i = '0'

(* A list item: the seven words fetched from host memory. *)
Item == [carrier : Addr, host : Addr, len : Lens, next : Addr,
         more : BOOLEAN, p2l : BOOLEAN]

ASSUME DmaConstants == /\ NullAddr \in Addr
                       /\ Lens \subseteq Nat /\ 0 \in Lens
                       /\ ItemLen \in Nat \ {0}
                       /\ Items \subseteq Item
                       /\ NoItem \notin Item

VARIABLES
    (* registers of p_regs *)
    ctrl_start, ctrl_abort,      \* dma_ctrl_reg(0), dma_ctrl_reg(1)
    cstart_reg, hstart_reg,      \* carrier address, host address (both halves)
    len_reg, next_reg,           \* length, host address of the next item
    attrib_more, attrib_p2l,     \* dma_attrib_reg(0), dma_attrib_reg(1)
    stat_reg,                    \* what DMASTATR reads
    (* registers of p_fsm *)
    state, status,
    start_l2p, start_p2l, start_next, abort,
    carrier_addr, host_addr, len,
    error_irq, done_irq

regs  == <<ctrl_start, ctrl_abort, cstart_reg, hstart_reg, len_reg, next_reg,
           attrib_more, attrib_p2l, stat_reg>>
addrs == <<carrier_addr, host_addr, len>>
fsm   == <<state, status, start_l2p, start_p2l, start_next, abort,
           carrier_addr, host_addr, len, error_irq, done_irq>>
vars  == <<regs, fsm>>

States == {"DMA_IDLE", "DMA_START_TRANSFER", "DMA_TRANSFER",
           "DMA_START_CHAIN", "DMA_CHAIN", "DMA_ERROR", "DMA_ABORT"}
Statuses == {"c_IDLE", "c_DONE", "c_BUSY", "c_ERROR", "c_ABORT"}

-----------------------------------------------------------------------------
(* The write of one register by the host that reaches clk_i in a tick. *)
Load == [reg : {"none"}]
   \cup [reg : {"ctrl"}, start : BOOLEAN, abort : BOOLEAN]
   \cup [reg : {"cstart", "hstart", "next"}, addr : Addr]
   \cup [reg : {"len"}, len : Lens]
   \cup [reg : {"attrib"}, more : BOOLEAN, p2l : BOOLEAN]

-----------------------------------------------------------------------------
Init ==
    /\ ctrl_start = FALSE /\ ctrl_abort = FALSE
    /\ cstart_reg = NullAddr /\ hstart_reg = NullAddr /\ next_reg = NullAddr
    /\ len_reg = 0
    /\ attrib_more = FALSE /\ attrib_p2l = FALSE
    /\ stat_reg = "c_IDLE"
    /\ state = "DMA_IDLE" /\ status = "c_IDLE"
    /\ start_l2p = FALSE /\ start_p2l = FALSE /\ start_next = FALSE
    /\ abort = FALSE
    /\ carrier_addr = NullAddr /\ host_addr = NullAddr /\ len = 0
    /\ error_irq = FALSE /\ done_irq = FALSE

(* Mutant: the words of the fetched item go to the wrong registers. *)
PRegsSwapped(load, item) ==
    /\ ctrl_start' = (item # NoItem) /\ UNCHANGED <<ctrl_abort, cstart_reg, hstart_reg>>
    /\ stat_reg' = status /\ UNCHANGED <<attrib_more, attrib_p2l>>
    /\ len_reg' = IF item # NoItem THEN item.next ELSE len_reg
    /\ next_reg' = IF item # NoItem THEN item.len ELSE next_reg

(***************************************************************************)
(* p_regs.  A fetched item overrides the host's write and sets the start   *)
(* bit; a start bit that is high falls whatever else happens.  The abort   *)
(* bit keeps its value until the next write of DMACTRLR.                   *)
(***************************************************************************)
PRegs(load, item) ==
    /\ ctrl_start' = /\ ~ctrl_start
                     /\ item # NoItem \/ (load.reg = "ctrl" /\ load.start)
    /\ ctrl_abort' = IF load.reg = "ctrl" THEN load.abort ELSE ctrl_abort
    /\ stat_reg' = status
    /\ IF item # NoItem
       THEN /\ cstart_reg' = item.carrier /\ hstart_reg' = item.host
            /\ len_reg' = item.len /\ next_reg' = item.next
            /\ attrib_more' = item.more /\ attrib_p2l' = item.p2l
       ELSE /\ cstart_reg' = IF load.reg = "cstart" THEN load.addr ELSE cstart_reg
            /\ hstart_reg' = IF load.reg = "hstart" THEN load.addr ELSE hstart_reg
            /\ next_reg' = IF load.reg = "next" THEN load.addr ELSE next_reg
            /\ len_reg' = IF load.reg = "len" THEN load.len ELSE len_reg
            /\ attrib_more' = IF load.reg = "attrib" THEN load.more ELSE attrib_more
            /\ attrib_p2l' = IF load.reg = "attrib" THEN load.p2l ELSE attrib_p2l

-----------------------------------------------------------------------------
(* p_fsm: one action for each state, as the case statement has it. *)

(* Mutant: the done interrupt is left high. *)
IdleKeepsIrq ==
    /\ state = "DMA_IDLE"
    /\ state' = IF ctrl_start THEN "DMA_START_TRANSFER" ELSE state
    /\ UNCHANGED <<status, start_l2p, start_p2l, start_next, abort, addrs,
                   error_irq, done_irq>>

Idle ==
    /\ state = "DMA_IDLE"
    /\ done_irq' = FALSE
    /\ state' = IF ctrl_start THEN "DMA_START_TRANSFER" ELSE state
    /\ UNCHANGED <<status, start_l2p, start_p2l, start_next, abort, addrs,
                   error_irq>>

(* Mutant: a new transfer leaves the abort line as it is. *)
StartTransferKeepsAbort ==
    /\ state = "DMA_START_TRANSFER" /\ len_reg # 0
    /\ start_l2p' = (~attrib_p2l \/ start_l2p)
    /\ start_p2l' = (attrib_p2l \/ start_p2l)
    /\ state' = "DMA_TRANSFER" /\ status' = "c_BUSY"
    /\ carrier_addr' = cstart_reg /\ host_addr' = hstart_reg /\ len' = len_reg
    /\ UNCHANGED <<abort, start_next, error_irq, done_irq>>

(* Mutant: the busy status is not set. *)
StartTransferNotBusy ==
    /\ state = "DMA_START_TRANSFER" /\ len_reg # 0
    /\ start_l2p' = (~attrib_p2l \/ start_l2p)
    /\ start_p2l' = (attrib_p2l \/ start_p2l)
    /\ state' = "DMA_TRANSFER" /\ abort' = FALSE
    /\ carrier_addr' = cstart_reg /\ host_addr' = hstart_reg /\ len' = len_reg
    /\ UNCHANGED <<status, start_next, error_irq, done_irq>>

StartTransfer ==
    /\ state = "DMA_START_TRANSFER"
    /\ abort' = FALSE
    /\ \/ /\ len_reg = 0
          /\ error_irq' = TRUE
          /\ state' = "DMA_ERROR"
          /\ UNCHANGED <<status, start_l2p, start_p2l, addrs>>
       \/ /\ len_reg # 0
          /\ \/ ~attrib_p2l /\ start_l2p' = TRUE /\ UNCHANGED start_p2l
             \/ attrib_p2l /\ start_p2l' = TRUE /\ UNCHANGED start_l2p
          /\ state' = "DMA_TRANSFER"
          /\ carrier_addr' = cstart_reg
          /\ host_addr' = hstart_reg
          /\ len' = len_reg
          /\ status' = "c_BUSY"
          /\ UNCHANGED error_irq
    /\ UNCHANGED <<start_next, done_irq>>

(* The part DMA_TRANSFER and DMA_CHAIN share: an abort wins over an error. *)
AbortOrError(error) ==
    \/ /\ ctrl_abort
       /\ state' = "DMA_ABORT"
       /\ UNCHANGED <<error_irq, done_irq, status>>
    \/ /\ ~ctrl_abort /\ error
       /\ state' = "DMA_ERROR"
       /\ error_irq' = TRUE
       /\ UNCHANGED <<done_irq, status>>

Transfer(done, error) ==
    /\ state = "DMA_TRANSFER"
    /\ start_l2p' = FALSE
    /\ start_p2l' = FALSE
    /\ \/ AbortOrError(error)
       \/ /\ ~ctrl_abort /\ ~error /\ done
          /\ IF attrib_more
             THEN state' = "DMA_START_CHAIN" /\ UNCHANGED <<status, done_irq>>
             ELSE state' = "DMA_IDLE" /\ status' = "c_DONE" /\ done_irq' = TRUE
          /\ UNCHANGED error_irq
       \/ /\ ~ctrl_abort /\ ~error /\ ~done
          /\ UNCHANGED <<state, status, error_irq, done_irq>>
    /\ UNCHANGED <<start_next, abort, addrs>>

(* Mutant: the fetch of the next item is started without its address. *)
StartChainKeepsHost ==
    /\ state = "DMA_START_CHAIN"
    /\ state' = "DMA_CHAIN"
    /\ len' = ItemLen
    /\ start_next' = TRUE
    /\ UNCHANGED <<status, start_l2p, start_p2l, abort, carrier_addr, host_addr,
                   error_irq, done_irq>>

StartChain ==
    /\ state = "DMA_START_CHAIN"
    /\ state' = "DMA_CHAIN"
    /\ host_addr' = next_reg
    /\ len' = ItemLen
    /\ start_next' = TRUE
    /\ UNCHANGED <<status, start_l2p, start_p2l, abort, carrier_addr,
                   error_irq, done_irq>>

Chain(error, item) ==
    /\ state = "DMA_CHAIN"
    /\ start_next' = FALSE
    /\ \/ AbortOrError(error)
       \/ /\ ~ctrl_abort /\ ~error
          /\ state' = IF item # NoItem THEN "DMA_START_TRANSFER" ELSE state
          /\ UNCHANGED <<status, error_irq, done_irq>>
    /\ UNCHANGED <<start_l2p, start_p2l, abort, addrs>>

Error ==
    /\ state = "DMA_ERROR"
    /\ status' = "c_ERROR"
    /\ error_irq' = FALSE
    /\ state' = IF ctrl_start THEN "DMA_START_TRANSFER" ELSE state
    /\ UNCHANGED <<start_l2p, start_p2l, start_next, abort, addrs, done_irq>>

Abort ==
    /\ state = "DMA_ABORT"
    /\ status' = "c_ABORT"
    /\ abort' = TRUE
    /\ state' = IF ctrl_start THEN "DMA_START_TRANSFER" ELSE state
    /\ UNCHANGED <<start_l2p, start_p2l, start_next, addrs, error_irq, done_irq>>

PFsm(done, error, item) ==
    \/ Idle \/ StartTransfer \/ Transfer(done, error)
    \/ StartChain \/ Chain(error, item) \/ Error \/ Abort

(* One rising edge of clk_i. *)
Tick(load, done, error, item) == PRegs(load, item) /\ PFsm(done, error, item)

(* The controller on its own: the host and the masters do anything. *)
Next == \E load \in Load, done, error \in BOOLEAN, item \in Items \cup {NoItem} :
            Tick(load, done, error, item)

Spec == Init /\ [][Next]_vars

-----------------------------------------------------------------------------
(* TypeOK: every register holds a value of its VHDL type (p_regs, p_fsm). *)
TypeOK ==
    /\ ctrl_start \in BOOLEAN /\ ctrl_abort \in BOOLEAN
    /\ cstart_reg \in Addr /\ hstart_reg \in Addr /\ next_reg \in Addr
    /\ len_reg \in Lens
    /\ attrib_more \in BOOLEAN /\ attrib_p2l \in BOOLEAN
    /\ stat_reg \in Statuses
    /\ state \in States /\ status \in Statuses
    /\ start_l2p \in BOOLEAN /\ start_p2l \in BOOLEAN /\ start_next \in BOOLEAN
    /\ abort \in BOOLEAN
    /\ carrier_addr \in Addr /\ host_addr \in Addr
    /\ len \in Lens \cup {ItemLen}
    /\ error_irq \in BOOLEAN /\ done_irq \in BOOLEAN

Running == state \in {"DMA_TRANSFER", "DMA_START_CHAIN", "DMA_CHAIN"}

(* StatusTruthful: while a master works for the controller the status is   *)
(* Busy, so that a poll of DMASTATR never reports the end of an earlier    *)
(* job; a controller at rest reports Idle or Done.                         *)
StatusTruthful ==
    /\ Running => status = "c_BUSY"
    /\ state = "DMA_IDLE" => status \in {"c_IDLE", "c_DONE"}
    /\ status = "c_ABORT" => state \in {"DMA_ABORT", "DMA_START_TRANSFER", "DMA_ERROR"}

(* StartDiscipline: the three start strobes are mutually exclusive, they   *)
(* are only high in a state that waits for the answer, and never while the *)
(* abort line to the masters is high, so that no master sees a start it    *)
(* would cancel at once.                                                   *)
StartDiscipline ==
    /\ start_l2p \/ start_p2l => state = "DMA_TRANSFER" /\ ~abort
    /\ start_next => state = "DMA_CHAIN" /\ ~abort
    /\ ~(start_l2p /\ start_p2l)

Strobe == start_l2p \/ start_p2l \/ start_next

(* PulsesOneTick: a start strobe and an interrupt last one tick ("to make   *)
(* them 1 tick pulses"): a longer start would be taken as a second start by *)
(* a master that is already busy.  What a strobe starts is what the         *)
(* registers held in the tick before: the item, or the next item's address. *)
PulsesOneTick ==
    [][/\ Strobe => ~Strobe'
       /\ done_irq \/ error_irq => ~(done_irq' \/ error_irq')
       /\ Strobe' => host_addr' = IF start_next' THEN next_reg ELSE hstart_reg]_vars

(* IrqPlace: an interrupt line is high only in the first tick of the state *)
(* that reports it, and never both; the abort line only while the abort    *)
(* holds.  With TypeOK, StatusTruthful and StartDiscipline it is inductive. *)
IrqPlace ==
    /\ done_irq => state = "DMA_IDLE" /\ status = "c_DONE"
    /\ error_irq => state = "DMA_ERROR"
    /\ abort => state \in {"DMA_ABORT", "DMA_START_TRANSFER"}

IInv == TypeOK /\ StatusTruthful /\ StartDiscipline /\ IrqPlace

(* JobRefined: the controller implements the abstract life of a job: the   *)
(* matching interrupt is raised in the tick of each end that is not an     *)
(* abort, none otherwise, and it is low again before the next job starts.  *)
JobOf == IF state = "DMA_IDLE" THEN IF status = "c_DONE" THEN "done" ELSE "idle"
         ELSE IF state = "DMA_START_TRANSFER" THEN "starting"
         ELSE IF state = "DMA_ERROR" THEN "error"
         ELSE IF state = "DMA_ABORT" THEN "aborted"
         ELSE "busy"
IrqOf == (IF done_irq THEN {"done"} ELSE {}) \cup (IF error_irq THEN {"error"} ELSE {})
Job == INSTANCE DmaJob WITH job <- JobOf, irq <- IrqOf
JobRefined == Job!JobSpec
=============================================================================
