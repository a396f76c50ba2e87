----------------------------- MODULE DmaEngine ------------------------------
(***************************************************************************)
(* The DMA engine as gn4124_core connects it (hdl/gn4124core/rtl/          *)
(* spartan6/gn4124_core.vhd): the controller starts both DMA masters and   *)
(* takes the OR of their done and error lines, the P2L master fetches the  *)
(* items of a chained list for it, the arbiter merges their packets, and   *)
(* one multiplexer puts both on the Wishbone DMA bus of the carrier.       *)
(*                                                                         *)
(* Around it are the host, its memory with the list in it, and the carrier *)
(* memory.  A step is an edge of clk_i or an edge of dma_clk_i.            *)
(***************************************************************************)
EXTENDS L2pArbiter, L2pDmaFetch, P2lDmaWrite

CONSTANTS Programs,    \* first items, which the host writes to the registers
          Listing,     \* the other items: a function from their host address
          MaxPrograms, \* bound: lists the host starts in a behaviour
          BusDepth,    \* accesses the Wishbone slave holds at once
          Env,         \* what the surroundings may do: "abort", "refuse", "slow"
          NoItem       \* next_item_valid = '0'

HostSpan == 2 * LowSpan
ItemWords == 7

ASSUME EngineConstants ==
    /\ \A p \in Programs : p.more => p.next \in DOMAIN Listing
    /\ \A a \in DOMAIN Listing : /\ a + ItemWords <= HostSpan
                                 /\ Listing[a].more => Listing[a].next \in DOMAIN Listing
    /\ MaxPrograms \in Nat /\ BusDepth \in Nat \ {0}
    /\ Env \subseteq {"abort", "refuse", "slow"} /\ AddrSpan = CarrierSpan

VARIABLES
    (* the controller: see DmaController *)
    ctrl_start, ctrl_abort, cstart_reg, hstart_reg, len_reg, next_reg,
    attrib_more, attrib_p2l, stat_reg,
    state, status, start_l2p, start_p2l, start_next, abort,
    carrier_addr, host_addr, len, error_irq, done_irq,
    (* the surroundings *)
    loads,     \* register writes the host has still to make
    programs,  \* lists started so far
    rx,        \* the packet the GN4124 is receiving
    reads,     \* read requests the host has not answered in full
    memory,    \* host memory
    slave,     \* accesses the Wishbone slave has accepted
    carrier,   \* carrier memory
    (* what the list asks for *)
    item,      \* the item the engine was started for last
    fresh,     \* the next transfer is the first of its list
    aborted,   \* the host has aborted the list
    want       \* both memories when every item started so far is done

Ctl == INSTANCE DmaController
         WITH Addr <- 0 .. HostSpan - 1, NullAddr <- 0, Lens <- 0 .. HostSpan,
              ItemLen <- ItemWords, Items <- {}

ctlVars == <<ctrl_start, ctrl_abort, cstart_reg, hstart_reg, len_reg, next_reg,
             attrib_more, attrib_p2l, stat_reg, state, status, start_l2p, start_p2l,
             start_next, abort, carrier_addr, host_addr, len, error_irq, done_irq>>
clkVars == <<arbiterVars, pktVars, fsmVars, data_fifo_valid, data_fifo_dout,
             targetVars, readReqVars, requestFsmVars, captureVars, ctlVars>>
hostVars == <<loads, programs, rx, reads, memory, item, fresh, aborted, want>>
dmaVars == <<busVars, writerVars, slave, carrier>>
vars == <<clkVars, dmaVars, addr_fifo, data_fifo, to_wb_fifo, hostVars>>

(* The list is made of items, at addresses of the host. *)
ASSUME EngineItems == /\ Programs \subseteq Ctl!Item
                      /\ DOMAIN Listing \subseteq 0 .. HostSpan - 1
                      /\ \A a \in DOMAIN Listing : Listing[a] \in Ctl!Item

-----------------------------------------------------------------------------
(* The seven words of an item in host memory, and the item they stand for. *)
Bit(b) == IF b THEN 1 ELSE 0
ItemWord(it, i) ==
    CASE i = 1 -> it.carrier
      [] i = 2 -> it.host % LowSpan
      [] i = 3 -> it.host \div LowSpan
      [] i = 4 -> it.len
      [] i = 5 -> it.next % LowSpan
      [] i = 6 -> it.next \div LowSpan
      [] i = 7 -> Bit(it.more) + 2 * Bit(it.p2l)

(* Mutant: the pointer to the next item is taken for the host address. *)
FetchedSwapped ==
    IF ~next_item_valid THEN NoItem
    ELSE [carrier |-> next_item[1],
          host    |-> next_item[5] + LowSpan * next_item[6],
          len     |-> next_item[4],
          next    |-> next_item[2] + LowSpan * next_item[3],
          more    |-> next_item[7] % 2 = 1,
          p2l     |-> (next_item[7] \div 2) % 2 = 1]

(* What the controller makes of the P2L master's next_item registers. *)
Fetched ==
    IF ~next_item_valid THEN NoItem
    ELSE [carrier |-> next_item[1],
          host    |-> next_item[2] + LowSpan * next_item[3],
          len     |-> next_item[4],
          next    |-> next_item[5] + LowSpan * next_item[6],
          more    |-> next_item[7] % 2 = 1,
          p2l     |-> (next_item[7] \div 2) % 2 = 1]

(* Host memory holds the list, and elsewhere words that are all different. *)
FirstMemory ==
    [a \in 0 .. HostSpan - 1 |->
        IF \E b \in DOMAIN Listing : a \in b .. b + ItemWords - 1
        THEN LET b == CHOOSE b \in DOMAIN Listing : a \in b .. b + ItemWords - 1
             IN ItemWord(Listing[b], a - b + 1)
        ELSE HostSpan + a]
FirstCarrier == [a \in 0 .. CarrierSpan - 1 |-> 2 * HostSpan + a]

NoPacket == [kind |-> "none", len |-> 0, base |-> 0, words |-> <<>>]

Init ==
    /\ Ctl!Init /\ ArbiterInit /\ PacketInit /\ FetchInit /\ RequestInit /\ WriterInit
    /\ loads = <<>> /\ programs = 0 /\ rx = NoPacket /\ reads = <<>>
    /\ memory = FirstMemory /\ slave = <<>> /\ carrier = FirstCarrier
    /\ item = (CHOOSE p \in Programs : TRUE) /\ fresh = TRUE /\ aborted = FALSE
    /\ want = [host |-> FirstMemory, carrier |-> FirstCarrier]

-----------------------------------------------------------------------------
(* The GN4124 takes the words that leave the arbiter: a memory write goes   *)
(* to host memory with its last word, a read request to the host.  A packet *)
(* ended with EDB is dropped, and so are words that belong to no packet.    *)
Fits(k) == \/ rx.kind = "none" /\ k \in {"header", "read"}
           \/ rx.kind # "none" /\ k \notin {"header", "read", "zero"}
Taken ==
    LET w == ser_o.word
    IN IF rx.kind = "none" THEN [NoPacket EXCEPT !.kind = w.kind, !.len = w.len]
       ELSE CASE w.kind = "high" -> [rx EXCEPT !.base = w.addr * LowSpan]
              [] w.kind = "low"  -> [rx EXCEPT !.base = @ + w.addr]
              [] w.kind = "data" -> [rx EXCEPT !.words = Append(@, w.data)]
Stored(p) == [a \in DOMAIN memory |->
                 LET i == ((a - p.base) % HostSpan) + 1
                 IN IF i \in DOMAIN p.words THEN p.words[i] ELSE memory[a]]

(* What is left of the requests when the decoder has shown in. *)
Answered(in) ==
    IF ~in.cpld /\ ~in.cpln THEN reads
    ELSE IF in.cpln \/ Head(reads).left = 1 THEN Tail(reads)
    ELSE [reads EXCEPT ![1] = [at |-> (@.at + 1) % HostSpan, left |-> @.left - 1]]

Receive(in) ==
    LET take == ser_o.valid /\ ~ldm_edb /\ Fits(ser_o.word.kind)
        ends == take /\ ~ser_o.dframe
        n    == IF Taken.len = 0 THEN LenSpan ELSE Taken.len
    IN /\ rx' = IF ldm_edb \/ ends THEN NoPacket ELSE IF take THEN Taken ELSE rx
       /\ memory' = IF ends /\ Taken.kind = "header" THEN Stored(Taken) ELSE memory
       /\ reads' = IF ends /\ Taken.kind = "read"
                   THEN Append(Answered(in), [at |-> Taken.base % HostSpan, left |-> n])
                   ELSE Answered(in)

(* The host's answer to its oldest request: the words come in one packet,   *)
(* or it refuses what is left of it ("refuse").                             *)
Answer == [valid |-> TRUE, last |-> Head(reads).left = 1, cpld |-> TRUE,
           cpln |-> FALSE, data |-> memory[Head(reads).at]]
Refusal == [NoInput EXCEPT !.cpln = TRUE]
Prompt == IF reads # <<>> /\ P2lRdy THEN Answer ELSE NoInput

-----------------------------------------------------------------------------
(* The words of P2L transfers on their way to the carrier, oldest first. *)
Pending == (IF p2l_stb THEN << <<p2l_adr, p2l_dat>> >> ELSE <<>>)
             \o (IF to_wb_fifo_valid THEN <<to_wb_fifo_dout>> ELSE <<>>)
             \o to_wb_fifo
             \o (IF to_wb_fifo_wr THEN <<to_wb_fifo_din>> ELSE <<>>)
Landed == Pending = <<>> /\ ~p2l_cyc

(* Nothing of an earlier list is left anywhere in the engine; the arbiter   *)
(* is free too (after an abort it may not be, see path_abort of L2pPath).   *)
Quiet == /\ state \in {"DMA_IDLE", "DMA_ERROR", "DMA_ABORT"} /\ loads = <<>>
         /\ l2p_state = "L2P_IDLE" /\ dma_length_cnt = 0 /\ ~addr_fifo_wr
         /\ addr_fifo = <<>> /\ ~addr_fifo_valid /\ ~l2p_cyc /\ data_fifo = <<>>
         /\ p2l_state = "P2L_IDLE" /\ ~pdm_done_t /\ ~next_item_valid /\ ~ctrl_start
         /\ ~ldm_done /\ ~pdm_done /\ Landed /\ reads = <<>>
         /\ ~ser_t.valid /\ ~ser_o.valid /\ arb_gnt = "none"

(* The register writes that start a list. *)
Writes(p) == << [reg |-> "cstart", addr |-> p.carrier], [reg |-> "hstart", addr |-> p.host],
                [reg |-> "len", len |-> p.len], [reg |-> "next", addr |-> p.next],
                [reg |-> "attrib", more |-> p.more, p2l |-> p.p2l],
                [reg |-> "ctrl", start |-> TRUE, abort |-> FALSE] >>
NoLoad == [reg |-> "none"]
AbortLoad == [reg |-> "ctrl", start |-> FALSE, abort |-> TRUE]

(* The item the next start strobe must be for, and what it does. *)
Due == IF fresh THEN item ELSE Listing[item.next]
Done(it, m) ==
    IF it.p2l
    THEN [m EXCEPT !.carrier = [a \in DOMAIN m.carrier |->
            LET i == (a - it.carrier) % CarrierSpan
            IN IF i < it.len THEN m.host[(it.host + i) % HostSpan] ELSE m.carrier[a]]]
    ELSE [m EXCEPT !.host = [a \in DOMAIN m.host |->
            LET i == (a - it.host) % HostSpan
            IN IF i < it.len THEN m.carrier[(it.carrier + i) % CarrierSpan]
                             ELSE m.host[a]]]
Follow ==
    IF start_l2p \/ start_p2l
    THEN item' = Due /\ fresh' = FALSE /\ want' = Done(Due, want)
    ELSE UNCHANGED <<item, fresh, want>>

(* The request lines and buses, as the arbiter sees them; no host reads. *)
Req == [wbm |-> FALSE, ldm |-> ldm_req, pdm |-> pdm_req]
Bus == [wbm |-> Silent,
        ldm |-> [valid |-> ldm_valid, dframe |-> ldm_dframe, word |-> ldm_word],
        pdm |-> [valid |-> pdm_valid, dframe |-> pdm_dframe, word |-> pdm_word]]

(* Mutant: the P2L master's done is not connected. *)
CtrlDoneL2p == ldm_done

CtrlDone  == ldm_done \/ pdm_done
CtrlError == ldm_error \/ dma_busy_error \/ completion_error

(***************************************************************************)
(* An edge of clk_i.  Without "slow" the carrier has taken the words of a  *)
(* P2L transfer before the next transfer of the list starts, which takes   *)
(* the fetch of an item from the host.  The carrier has the next word when *)
(* the data words of a packet start (see "dry" in L2pDma), unless an abort *)
(* has taken it away.                                                      *)
(***************************************************************************)
Clk(load, in) ==
    /\ start_l2p => "slow" \in Env \/ Landed
    /\ l2p_state = "L2P_ADDR_L" /\ data_fifo = <<>> => aborted
    /\ Ctl!Tick(load, CtrlDone, CtrlError, Fetched)
    /\ PacketTick(start_l2p, len, host_addr \div LowSpan, host_addr % LowSpan,
                  abort, arb_gnt = "ldm", TRUE, TRUE)
    /\ TargetCnt(start_l2p, l2p_state = "L2P_IDLE", carrier_addr % AddrSpan, len)
    /\ RequestTick(start_p2l, start_next, carrier_addr % CarrierSpan,
                   host_addr \div LowSpan, host_addr % LowSpan, len,
                   abort, arb_gnt = "pdm", in)
    /\ ArbiterTick(Req, Bus)
    /\ Receive(in)
    /\ UNCHANGED dmaVars

(* The host starts a list when nothing of the one before is left. *)
ClkProgram(in) ==
    /\ programs < MaxPrograms /\ Quiet
    /\ Clk(NoLoad, in)
    /\ \E p \in Programs : item' = p /\ loads' = Writes(p)
    /\ fresh' = TRUE /\ programs' = programs + 1 /\ aborted' = FALSE
    /\ want' = [host |-> memory, carrier |-> carrier]

ClkLoad(in) ==
    /\ loads # <<>>
    /\ Clk(Head(loads), in) /\ Follow
    /\ loads' = Tail(loads)
    /\ UNCHANGED <<programs, aborted>>

ClkAbort(in) ==
    /\ "abort" \in Env /\ Ctl!Running
    /\ Clk(AbortLoad, in) /\ Follow
    /\ aborted' = TRUE
    /\ UNCHANGED <<programs, loads>>

ClkRun(in) ==
    /\ loads = <<>>
    /\ Clk(NoLoad, in) /\ Follow
    /\ UNCHANGED <<programs, loads, aborted>>

Inputs == {NoInput, Prompt}
            \cup (IF reads # <<>> /\ "refuse" \in Env THEN {Refusal} ELSE {})
ClkTick == \E in \in Inputs :
              ClkProgram(in) \/ ClkLoad(in) \/ ClkAbort(in) \/ ClkRun(in)

-----------------------------------------------------------------------------
(* Mutant: the address of the L2P master is on the bus in every cycle. *)
DmaWbMuxOneAddress ==
    [stb |-> IF l2p_cyc THEN l2p_stb ELSE p2l_cyc /\ p2l_stb,
     we |-> ~l2p_cyc, adr |-> l2p_adr, dat |-> p2l_dat]

(* p_dma_wb_mux: the L2P master has the bus when both hold a cycle. *)
DmaWbMux ==
    IF l2p_cyc THEN [stb |-> l2p_stb, we |-> FALSE, adr |-> l2p_adr, dat |-> 0]
    ELSE IF p2l_cyc THEN [stb |-> p2l_stb, we |-> TRUE, adr |-> p2l_adr, dat |-> p2l_dat]
    ELSE [stb |-> FALSE, we |-> FALSE, adr |-> 0, dat |-> 0]

(***************************************************************************)
(* An edge of dma_clk_i.  Both masters see the same stall and acknowledge. *)
(* The slave stalls between strobes only; it reads and writes when it      *)
(* accepts an access, and acknowledges in order.                           *)
(***************************************************************************)
DmaClk(stall, ack) ==
    LET accept == DmaWbMux.stb /\ ~stall
        answer == IF DmaWbMux.we THEN 0 ELSE carrier[DmaWbMux.adr]
    IN /\ stall => ~l2p_stb /\ ~p2l_stb
       /\ ack => slave # <<>>
       /\ accept => Len(slave) < BusDepth \/ ack
       /\ BusTick(stall, ack, IF ack THEN Head(slave) ELSE 0, p2l_cyc)
       /\ WriterTick(stall, ack, l2p_cyc)
       /\ slave' = (IF ack THEN Tail(slave) ELSE slave)
                     \o (IF accept THEN <<answer>> ELSE <<>>)
       /\ carrier' = IF accept /\ DmaWbMux.we
                     THEN [carrier EXCEPT ![DmaWbMux.adr] = DmaWbMux.dat] ELSE carrier
       /\ UNCHANGED <<clkVars, hostVars>>

DmaClkTick == \E stall, ack \in BOOLEAN : DmaClk(stall, ack)

Next == ClkTick \/ DmaClkTick

Spec == Init /\ [][Next]_vars

-----------------------------------------------------------------------------
(* ChainExact: every transfer the controller starts is the one the list    *)
(* has next: the first as the host wrote it to the registers, the others   *)
(* as they are in host memory, at the pointer of the item before, and none *)
(* after the last item.                                                    *)
ChainExact == start_l2p \/ start_p2l =>
                 /\ fresh \/ item.more
                 /\ Due.p2l = start_p2l
                 /\ <<carrier_addr, host_addr, len>> = <<Due.carrier, Due.host, Due.len>>

(* ListExact: when the controller reports the end of a list and the last   *)
(* packet has left the arbiter, both memories are what the items of the    *)
(* list make of them one after the other; words of a P2L transfer may      *)
(* still be on their way to the carrier.                                   *)
ListExact ==
    state = "DMA_IDLE" /\ status = "c_DONE" /\ ~aborted
      /\ ~ser_t.valid /\ ~ser_o.valid /\ ~ldm_valid /\ ~fresh =>
        /\ ~item.more
        /\ memory = want.host
        /\ \A a \in DOMAIN carrier :
             LET late == {i \in DOMAIN Pending : Pending[i][1] = a}
             IN want.carrier[a] =
                  IF late = {} THEN carrier[a]
                  ELSE Pending[CHOOSE i \in late : \A j \in late : j <= i][2]

(* OwnEnd: the done line that ends a transfer is that of the master that   *)
(* was started for it (p_fsm starts the one dma_attrib_reg(1) names),      *)
(* although the controller only sees the OR of both.                       *)
OwnEnd == state = "DMA_TRANSFER" /\ CtrlDone =>
             IF attrib_p2l THEN pdm_done /\ ~ldm_done ELSE ldm_done /\ ~pdm_done

(* Both clocks run, the host answers and the slave acknowledges. *)
Fairness == WF_vars(ClkLoad(Prompt) \/ ClkRun(Prompt)) /\ WF_vars(DmaClk(FALSE, slave # <<>>))
FairSpec == Spec /\ Fairness

(* ListEnds: a list the controller works on comes to an end. *)
ListEnds == Ctl!Running ~> ~Ctl!Running
=============================================================================
