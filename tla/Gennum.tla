------------------------------- MODULE Gennum -------------------------------
(***************************************************************************)
(* rr.py: the class Gennum over the driver's system calls, and the card it *)
(* reaches.  The card is external here, down to what the programs see of   *)
(* it: the interrupt configuration, a DMA chain that copies page 1 of the  *)
(* driver's buffer to the board and, as the item in page 0 says, from the  *)
(* board to page 2, and an interrupt that stays asserted until the status  *)
(* registers are read.  A page of the buffer holds one value.              *)
(***************************************************************************)
EXTENDS RawRabbit

CONSTANTS
  BufPages,   \* pages of the driver's DMA buffer: 256
  PlistLen    \* entries of the array rr.py passes for them: 256

\* The driver fills as many entries as the buffer has pages.
ASSUME PlistAssumption ==
  BufPages \in Nat /\ PlistLen \in Nat /\ 2 < BufPages /\ BufPages <= PlistLen

VARIABLES
  setup,      \* what has been written to a card: "irq", "chain"
  dma,        \* the DMA engine of a card
  board,      \* the memory of a card
  asserted,   \* the card asserts its interrupt
  buf         \* pages 0 to 2 of the DMA buffer

card_vars == <<setup, dma, board, asserted, buf>>

\* A program that was stopped may have left an interrupt asserted.
CardInit ==
  /\ setup = [c \in Cards |-> {}] /\ dma = [c \in Cards |-> "idle"]
  /\ board = [c \in Cards |-> "none"]
  /\ \E left \in BOOLEAN : asserted = [c \in Cards |-> left]
  /\ buf = [k \in 0..2 |-> "none"]

CardTypeOK ==
  /\ setup \in [Cards -> SUBSET {"irq", "chain"}]
  /\ dma \in [Cards -> {"idle", "p2l", "next", "l2p", "irq", "lost"}]
  /\ board \in [Cards -> {"none", "item", "data"}]
  /\ asserted \in [Cards -> BOOLEAN]
  /\ buf \in [0..2 -> {"none", "item", "data"}]

-----------------------------------------------------------------------------
\* The methods of Gennum.

\* The BARs bar_map knows; 12 is the DMA buffer.  Any other raises KeyError.
BarMap == {0, 2, 4, 12}

\* rr_do_iocmd and rr_read reach a BAR of the card only while one is active.
Reaches(bar) == bar = 12 \/ (bar \in BarMap /\ pdev # NoCard)

\* iwrite to the buffer; to the card's registers.  The error is kept in
\* self.errno, which no program looks at: nothing is written, nothing said.
iwrite_page(k, v) ==
  /\ buf' = [buf EXCEPT ![k] = v]
  /\ UNCHANGED <<setup, dma, board, asserted>>

iwrite_setup(what) ==
  /\ setup' = IF Reaches(4) THEN [setup EXCEPT ![pdev] = @ \cup what] ELSE setup
  /\ UNCHANGED <<dma, board, asserted, buf>>

iwrite_start ==
  /\ dma' = IF Reaches(0) /\ dma[pdev] = "idle" /\ "chain" \in setup[pdev]
            THEN [dma EXCEPT ![pdev] = "p2l"] ELSE dma
  /\ UNCHANGED <<setup, board, asserted, buf>>

\* iread of the interrupt status, which clears it; 0 comes back on an error.
iread_status ==
  /\ asserted' = IF Reaches(4) THEN [asserted EXCEPT ![pdev] = FALSE] ELSE asserted
  /\ UNCHANGED <<setup, dma, board, buf>>

\* getplist: the frame of each page of the buffer, numbered like the pages.
Plist == 0..(PlistLen - 1)
getplist == [k \in Plist |-> IF k < BufPages THEN k ELSE 0]

\* getdmasize: a question about the buffer, which changes nothing.
getdmasize == UNCHANGED card_vars

\* read and write: lseek, then the transfer, which fails outside an area and
\* where no card is active.  Places: a register, the interrupt status, a page
\* of the buffer behind the first three, the end of an area.
Places == {"gpio", "status", "page", "beyond"}
BarOf(place) == IF place = "page" THEN 12 ELSE 4
Transfers(place) == place # "beyond" /\ Reaches(BarOf(place))

read(place) == IF place = "status" THEN iread_status ELSE UNCHANGED card_vars
write(place) == UNCHANGED card_vars

\* The structure RR_DEVSEL and RR_DEVGET pass: vendor and device, their sub
\* pair, bus and slot.
RR_Devsel(id, sub, geo) == [id |-> id, sub |-> sub, geo |-> geo]

\* parse_addr: the keys "sub" and "geo" it looks for are never in the
\* match, so that both optional pairs are always overwritten.
parse_addr(a) == RR_Devsel(a.id, Unused, Unused)

bind(p, a) == RrDevselCheck(p, parse_addr(a))
irqwait(p) == RrIrqWait(p)
irqena(p) == RrIrqEna(p)
info(p) == RrDevGet(p)

-----------------------------------------------------------------------------
\* The card.

\* Step of the engine of card c.
Engine(c, from, to) == dma[c] = from /\ dma' = [dma EXCEPT ![c] = to]

DmaToBoard(c) ==
  /\ Engine(c, "p2l", "next") /\ board' = [board EXCEPT ![c] = buf[getplist[1]]]
  /\ UNCHANGED <<setup, asserted, buf>>

DmaNextItem(c) ==
  /\ Engine(c, "next", IF buf[getplist[0]] = "item" THEN "l2p" ELSE "lost")
  /\ UNCHANGED <<setup, board, asserted, buf>>

DmaToHost(c) ==
  /\ Engine(c, "l2p", "irq") /\ buf' = [buf EXCEPT ![getplist[2]] = board[c]]
  /\ UNCHANGED <<setup, board, asserted>>

DmaInterrupt(c) ==
  /\ Engine(c, "irq", "idle")
  /\ asserted' = [asserted EXCEPT ![c] = @ \/ "irq" \in setup[c]]
  /\ UNCHANGED <<setup, board, buf>>

CardStep(c) == DmaToBoard(c) \/ DmaNextItem(c) \/ DmaToHost(c) \/ DmaInterrupt(c)

=============================================================================
