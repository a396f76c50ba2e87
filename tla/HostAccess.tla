----------------------------- MODULE HostAccess -----------------------------
(***************************************************************************)
(* The host reads and writes carrier registers: the GN4124 with the host's *)
(* packets, the decoder, the Wishbone master, the arbiter as it grants it  *)
(* and the slave on the carrier.  A step is an edge of clk_i or an edge of *)
(* wb_clk_i.                                                               *)
(*                                                                         *)
(* "mem" is what the registers should hold once everything sent so far has *)
(* been performed in the order it was sent; every word written is another  *)
(* number.                                                                 *)
(***************************************************************************)
EXTENDS WbMaster32

CONSTANTS WbmSize,     \* g_size of the FIFO to the bus
          WbmRdyLag,   \* words the GN4124 still sends after P2L_RDY fell
          Packets,     \* the packets the host may send
          MaxPackets,  \* bound: packets in a behaviour
          MaxReads     \* reads the host may have under way

VARIABLES tx,       \* the packet the GN4124 is sending
          sent,     \* packets started
          lag,      \* words sent since P2L_RDY fell
          gnt,      \* arb_wbm_gnt
          rx_cid,   \* identifier of the completion the GN4124 is receiving
          owed,     \* reads sent and not answered, with the right answer
          slave,    \* the access the slave has taken and not acknowledged
          regs,     \* the registers
          mem

hostVars == <<tx, sent, lag, gnt, rx_cid, owed, mem>>
vars == <<decodeVars, cplVars, from_wb_fifo, entryVars, wbm_fifo, wbVars,
          hostVars, slave, regs>>

ASSUME HostAccessConstants ==
    /\ WbmSize \in Nat /\ WbmRdyLag \in Nat
    /\ MaxPackets \in Nat /\ MaxReads \in Nat
    /\ Packets \subseteq [type : {"mrd", "mwr", "cpld"}, cid : 0 .. 3, bar : 0 .. 1,
                          adr : 0 .. BarSpan - 1, len : Nat \ {0}]

(* What the full threshold leaves free (512 - 500 words in the code): the  *)
(* words the GN4124 still sends, one in the decoder, one in the FIFO's     *)
(* input register.                                                         *)
ASSUME WbmMargin == WbmSize >= WbmFull + WbmRdyLag + 2

NoPacket == [phase |-> "none", type |-> "none", cid |-> 0, bar |-> 0, adr |-> 0, len |-> 0]
NoAccess == [busy |-> FALSE, dat |-> 0]

Init ==
    /\ DecodeInit /\ CompletionInit /\ WbMasterInit
    /\ tx = NoPacket /\ sent = 0 /\ lag = 0 /\ gnt = FALSE /\ rx_cid = NoCid
    /\ owed = <<>> /\ slave = NoAccess
    /\ regs = [a \in WbAddrs |-> 0] /\ mem = [a \in WbAddrs |-> 0]

-----------------------------------------------------------------------------
(* The GN4124 sends.  It stops WbmRdyLag words after P2L_RDY fell, and may *)
(* pause in the middle of a packet.                                        *)
MaySend == WbmRdy \/ lag < WbmRdyLag
Des(word, dframe) == [valid |-> TRUE, dframe |-> dframe, word |-> word]

SendNothing(des) ==
    /\ des = [NoDes EXCEPT !.dframe = (tx.phase # "none")]
    /\ UNCHANGED <<tx, sent, mem>>

(* A header; the header of a completion announces data of no register.  A  *)
(* header that comes before the completion of a read leaves that read with *)
(* the header's identifier.                                                *)
SendHeader(des) ==
    /\ tx.phase = "none" /\ WbmRdy /\ sent < MaxPackets
    /\ \E p \in Packets :
         /\ p.type = "mrd" => Len(owed) < MaxReads
         /\ des = Des([Blank EXCEPT !.type = p.type, !.cid = p.cid], TRUE)
         /\ tx' = [phase |-> IF p.type = "cpld" THEN "data" ELSE "addr", type |-> p.type,
                   cid |-> p.cid, bar |-> p.bar, adr |-> p.adr, len |-> p.len]
    /\ sent' = sent + 1
    /\ UNCHANGED mem

SendAddr(des) ==
    /\ tx.phase = "addr" /\ MaySend
    /\ des = Des([Blank EXCEPT !.bar = tx.bar, !.adr = tx.adr], tx.type # "mrd")
    /\ tx' = IF tx.type = "mrd" THEN NoPacket ELSE [tx EXCEPT !.phase = "data"]
    /\ UNCHANGED <<sent, mem>>

SendData(des) ==
    LET stamp == (2 * BarSpan + 1) * sent + tx.len
    IN /\ tx.phase = "data" /\ MaySend
       /\ des = Des([Blank EXCEPT !.data = stamp], tx.len > 1)
       /\ tx' = IF tx.len = 1 THEN NoPacket
                ELSE [tx EXCEPT !.len = @ - 1, !.adr = (@ + 1) % BarSpan]
       /\ mem' = IF tx.type = "mwr" THEN [mem EXCEPT ![WbAddr(tx)] = stamp] ELSE mem
       /\ UNCHANGED sent

Send(des) == SendNothing(des) \/ SendHeader(des) \/ SendAddr(des) \/ SendData(des)

(* The arbiter as the Wishbone master sees it. *)
Grant(others) ==
    gnt' = IF gnt THEN wbm_req \/ ~(wbm_valid /\ ~wbm_dframe)
                  ELSE wbm_req /\ ~others

(* The GN4124 receives a completion and hands it on with its data. *)
Answering == gnt /\ wbm_valid /\ wbm_word.kind = "cpl_data"
Receive ==
    rx_cid' = IF gnt /\ wbm_valid /\ wbm_word.kind = "cpl" THEN wbm_word.cid ELSE rx_cid

(* The reads that wait for an answer, after a word to and one from the     *)
(* core.  passed: a header with another identifier came after the read.    *)
Owe(des) ==
    LET rest   == IF Answering /\ owed # <<>> THEN Tail(owed) ELSE owed
        header == tx.phase = "none" /\ des.valid
        read   == [cid |-> tx.cid, dat |-> mem[WbAddr(tx)], passed |-> FALSE]
    IN owed' = IF header
               THEN [i \in DOMAIN rest |->
                       [rest[i] EXCEPT !.passed = @ \/ des.word.cid # rest[i].cid]]
               ELSE IF tx.phase = "addr" /\ tx.type = "mrd" /\ des.valid
               THEN Append(rest, read)
               ELSE rest

(* An edge of clk_i. *)
Clk(des, others, rd_rdy) ==
    /\ DecodeTick(des) /\ FromDecoder
    /\ CompletionTick(gnt, rd_rdy, hdr_strobe, hdr_cid)
    /\ Grant(others) /\ Receive /\ Owe(des)
    /\ lag' = IF WbmRdy THEN 0 ELSE IF des.valid THEN lag + 1 ELSE lag
    /\ UNCHANGED <<wbVars, slave, regs>>

Words ==
    {[NoDes EXCEPT !.dframe = f] : f \in BOOLEAN}
      \cup {Des([Blank EXCEPT !.type = p.type, !.cid = p.cid], TRUE) : p \in Packets}
      \cup {Des([Blank EXCEPT !.bar = tx.bar, !.adr = tx.adr], f) : f \in BOOLEAN}
      \cup {Des([Blank EXCEPT !.data = (2 * BarSpan + 1) * sent + tx.len], f) : f \in BOOLEAN}

ClkTick == \E des \in Words, others, rd_rdy \in BOOLEAN :
              Send(des) /\ Clk(des, others, rd_rdy)

(* A tick at which nobody is in the way. *)
ClkRun == \E des \in Words : SendNothing(des) /\ Clk(des, FALSE, TRUE)

(***************************************************************************)
(* An edge of wb_clk_i.  The slave takes a strobe it does not stall, and   *)
(* acknowledges it at once or later.                                       *)
(***************************************************************************)
WbClk(stall, ack) ==
    LET take == wb_stb /\ wb_cyc /\ ~stall /\ ~slave.busy
        now  == IF take THEN [busy |-> TRUE, dat |-> regs[wb_adr]] ELSE slave
    IN /\ ack => now.busy
       /\ WbTick(stall, ack, now.dat)
       /\ slave' = IF ack THEN NoAccess ELSE now
       /\ regs' = IF take /\ wb_we THEN [regs EXCEPT ![wb_adr] = wb_dat] ELSE regs
       /\ UNCHANGED <<decodeVars, cplVars, entryVars, hostVars>>

WbClkTick == \E stall, ack \in BOOLEAN : WbClk(stall, ack)

(* The slave takes the strobe and acknowledges what it has taken. *)
WbClkRun == WbClk(FALSE, slave.busy \/ (wb_stb /\ wb_cyc))

Next == ClkTick \/ WbClkTick

Spec == Init /\ [][Next]_vars

(* Both clocks run; the arbiter's other requesters let go of it, the GN4124 *)
(* takes completions and the slave answers.                                *)
FairSpec == Spec /\ WF_vars(ClkRun) /\ WF_vars(WbClkRun)

-----------------------------------------------------------------------------
(* TypeOK: the registers hold values of their VHDL types. *)
TypeOK == /\ DecodeTypeOK /\ WbMasterTypeOK
          /\ lag \in 0 .. WbmRdyLag /\ gnt \in BOOLEAN /\ rx_cid \in 0 .. 3

(* AnswersExact: a completion answers the oldest read that waits for one,  *)
(* with the value the register had when the read was sent, after all       *)
(* earlier writes and before all later ones.  It carries the read's        *)
(* identifier if no header with another one came in between.               *)
AnswersExact ==
    [][Answering => /\ owed # <<>>
                    /\ wbm_word.data = Head(owed).dat
                    /\ ~Head(owed).passed => rx_cid = Head(owed).cid]_vars

(* NoOverflow: the FIFO is not written beyond its size, although P2L_RDY   *)
(* stops the GN4124 late.                                                  *)
NoOverflow == Len(wbm_fifo) <= WbmSize

(* ReadsAnswered: every read of the host is answered. *)
ReadsAnswered == owed # <<>> ~> owed = <<>>

(* WritesLand: the registers end up as the host has written them: no word  *)
(* is lost, repeated, put elsewhere or overtaken, and the data of a DMA    *)
(* completion go into none of them.                                        *)
WritesLand == <>[](regs = mem)
=============================================================================
