-------------------------- MODULE HostAccessProofs --------------------------
(***************************************************************************)
(* The path of the host's register accesses, for every threshold, FIFO     *)
(* size, lag of the GN4124, region size and set of packets that the        *)
(* assumptions admit: the registers keep their types, the margin behind    *)
(* the full threshold is enough, and a completion answers the oldest read  *)
(* with the value it was owed.                                             *)
(***************************************************************************)
EXTENDS HostAccess, SequenceTheorems, TLAPS

PacketTypes == {"mrd", "mwr", "cpld"}
Phases == {"none", "addr", "data"}

(* The packet the GN4124 is sending is one of Packets, or what is left. *)
TxOK ==
    /\ tx \in [phase : Phases, type : PacketTypes \cup {"none"}, cid : 0 .. 3,
               bar : 0 .. 1, adr : 0 .. BarSpan - 1, len : Nat]
    /\ tx.phase # "none" => tx.len >= 1
    /\ sent \in Nat

(* The other registers the typed ones are loaded from. *)
SourcesOK ==
    /\ p2l_cid \in 0 .. 3
    /\ wbm_word.kind = "cpl" => wbm_word.cid \in 0 .. 3
    /\ regs \in [WbAddrs -> Nat] /\ slave.dat \in Nat

(* A word the decoder shows now is in the FIFO two ticks later: it counts, *)
(* and every word that came after P2L_RDY fell is counted by lag.          *)
One(b) == IF b THEN 1 ELSE 0
Room == Len(wbm_fifo) + One(wbm_fifo_wr) + One(WriteShown \/ ReadShown)
          <= WbmFull + 2 + lag

AInv == TypeOK /\ TxOK /\ SourcesOK /\ Room

(* What the GN4124 puts on the deserialiser. *)
DesOK(des) ==
    /\ des.word.type \in Types \cup {"none"} /\ des.word.cid \in 0 .. 3
    /\ des.word.bar \in 0 .. 1 /\ des.word.adr \in 0 .. BarSpan - 1
    /\ des.word.data \in Nat

LEMMA InitInv == Init => AInv
<1> SUFFICES ASSUME Init PROVE AInv
  OBVIOUS
<1>1. DecodeTypeOK
  <2>1. addr \in [bar : 0 .. 1, adr : 0 .. BarSpan - 1] /\ hdr_cid \in 0 .. 3 /\ d \in Nat
    BY DecodeConstants DEF Init, DecodeInit
  <2> QED BY <2>1, Zenon DEF Init, DecodeInit, DecodeTypeOK
<1>2. WbMasterTypeOK
  <2>1. 0 \in WbAddrs
    BY DecodeConstants DEF WbAddrs
  <2>2. NoRequest \in Requests
    BY <2>1 DEF NoRequest, Requests
  <2> QED BY <2>1, <2>2 DEF Init, WbMasterInit, WbMasterTypeOK
<1>3. TypeOK
  <2>1. lag \in 0 .. WbmRdyLag /\ rx_cid \in 0 .. 3
    BY HostAccessConstants DEF Init, NoCid
  <2> QED BY <1>1, <1>2, <2>1, Zenon DEF Init, TypeOK
<1>4. TxOK
  BY DecodeConstants DEF Init, TxOK, NoPacket, Phases, PacketTypes
<1>5. SourcesOK
  BY DEF Init, CompletionInit, SourcesOK, NoCid, CplZero, NoAccess
<1>6. Room
  <2>1. Len(wbm_fifo) = 0 /\ ~wbm_fifo_wr /\ ~(WriteShown \/ ReadShown) /\ lag = 0
    BY DEF Init, WbMasterInit, DecodeInit, WriteShown, ReadShown
  <2> QED BY <2>1, WbMasterConstants DEF Room, One
<1> QED BY <1>3, <1>4, <1>5, <1>6 DEF AInv

(* Sending keeps the packet well-formed and shows a well-formed word; a    *)
(* word comes only while P2L_RDY is high or the lag allows it.             *)
LEMMA SendOK ==
  ASSUME TxOK, NEW des, Send(des)
  PROVE  TxOK' /\ DesOK(des) /\ (des.valid => MaySend)
<1> DEFINE stamp == (2 * BarSpan + 1) * sent + tx.len
<1>0. stamp \in Nat
  <2>1. (2 * BarSpan + 1) * sent \in Nat
    <3>1. 2 * BarSpan + 1 \in Nat /\ sent \in Nat
      BY DecodeConstants DEF TxOK
    <3> QED BY <3>1
  <2> QED BY <2>1 DEF TxOK
<1>1. CASE SendNothing(des)
  BY <1>1, DecodeConstants DEF SendNothing, TxOK, DesOK, NoDes, Blank
<1>2. CASE SendHeader(des)
  <2>1. PICK p \in Packets :
          /\ des = Des([Blank EXCEPT !.type = p.type, !.cid = p.cid], TRUE)
          /\ tx' = [phase |-> IF p.type = "cpld" THEN "data" ELSE "addr", type |-> p.type,
                    cid |-> p.cid, bar |-> p.bar, adr |-> p.adr, len |-> p.len]
    BY <1>2 DEF SendHeader
  <2>2. /\ p.type \in PacketTypes /\ p.cid \in 0 .. 3 /\ p.bar \in 0 .. 1
        /\ p.adr \in 0 .. BarSpan - 1 /\ p.len \in Nat \ {0}
    BY HostAccessConstants DEF PacketTypes
  <2>3. sent' \in Nat
    BY <1>2 DEF SendHeader, TxOK
  <2>4. TxOK'
    BY <2>1, <2>2, <2>3 DEF TxOK, Phases
  <2>5. DesOK(des)
    <3>1. des.word = [Blank EXCEPT !.type = p.type, !.cid = p.cid]
      BY <2>1 DEF Des
    <3> QED BY <2>2, <3>1, DecodeConstants DEF DesOK, Blank, PacketTypes, Types
  <2>6. MaySend
    BY <1>2 DEF SendHeader, MaySend
  <2> QED BY <2>4, <2>5, <2>6
<1>3. CASE SendAddr(des)
  <2>1. TxOK'
    BY <1>3, DecodeConstants DEF SendAddr, TxOK, NoPacket, Phases
  <2>2. des.word = [Blank EXCEPT !.bar = tx.bar, !.adr = tx.adr] /\ MaySend
    BY <1>3 DEF SendAddr, Des
  <2>3. DesOK(des)
    BY <2>2 DEF TxOK, DesOK, Blank
  <2> QED BY <2>1, <2>2, <2>3
<1>4. CASE SendData(des)
  <2>1. tx' = IF tx.len = 1 THEN NoPacket
              ELSE [tx EXCEPT !.len = @ - 1, !.adr = (@ + 1) % BarSpan]
    BY <1>4 DEF SendData
  <2>2. tx.phase = "data" /\ sent' = sent /\ MaySend
        /\ des = Des([Blank EXCEPT !.data = stamp], tx.len > 1)
    BY <1>4 DEF SendData
  <2>3. (tx.adr + 1) % BarSpan \in 0 .. BarSpan - 1
    BY DecodeConstants DEF TxOK
  <2>4. tx.len = 1 => TxOK'
    BY <2>1, <2>2, DecodeConstants DEF TxOK, NoPacket, Phases
  <2>5. ASSUME tx.len # 1 PROVE TxOK'
    <3>1. tx.len - 1 \in Nat /\ tx.len - 1 >= 1
      BY <2>2, <2>5 DEF TxOK
    <3> QED BY <2>1, <2>2, <2>3, <2>5, <3>1 DEF TxOK
  <2>6. DesOK(des)
    <3> HIDE DEF stamp
    <3> QED BY <1>0, <2>2, DecodeConstants DEF DesOK, Des, Blank, TxOK
  <2> QED BY <2>2, <2>4, <2>5, <2>6
<1> QED BY <1>1, <1>2, <1>3, <1>4 DEF Send

(* A tick of clk_i keeps the decoder's registers typed. *)
LEMMA DecodeOK ==
  ASSUME DecodeTypeOK, NEW des, DesOK(des),
         des.valid \in BOOLEAN, des.dframe \in BOOLEAN, DecodeTick(des)
  PROVE  DecodeTypeOK'
<1>1. pkt' \in Types \cup {"none"} /\ hdr_cid' \in 0 .. 3 /\ d' \in Nat
  BY DEF DecodeTick, TypeDecode, HeaderDecode, DataDecode, DecodeTypeOK, DesOK
<1>2. addr' \in [bar : 0 .. 1, adr : 0 .. BarSpan - 1]
  <2>1. NextAddr \in [bar : 0 .. 1, adr : 0 .. BarSpan - 1]
    <3>1. addr \in [bar : 0 .. 1, adr : 0 .. BarSpan - 1]
      BY DEF DecodeTypeOK
    <3>2. (addr.adr + 1) % BarSpan \in 0 .. BarSpan - 1
      BY <3>1, DecodeConstants
    <3> QED BY <3>1, <3>2 DEF NextAddr
  <2>2. [bar |-> des.word.bar, adr |-> des.word.adr] \in [bar : 0 .. 1, adr : 0 .. BarSpan - 1]
    BY DEF DesOK
  <2>3. addr' \in {NextAddr, addr, [bar |-> des.word.bar, adr |-> des.word.adr]}
    BY DEF DecodeTick, AddrDecode
  <2> QED BY <2>1, <2>2, <2>3 DEF DecodeTypeOK
<1>3. /\ dframe_d' \in BOOLEAN /\ valid_d' \in BOOLEAN /\ hdr_strobe' \in BOOLEAN
      /\ addr_cycle' \in BOOLEAN /\ addr_start' \in BOOLEAN
      /\ data_cycle' \in BOOLEAN /\ d_valid' \in BOOLEAN /\ d_last' \in BOOLEAN
  BY Zenon DEF DecodeTick, HeaderDecode, AddrDecode, DataDecode, DecodeTypeOK, PacketStart
<1> QED BY <1>1, <1>2, <1>3 DEF DecodeTypeOK

(* It keeps the FIFO's input typed, and the FIFO grows by its input. *)
LEMMA EntryOK ==
  ASSUME DecodeTypeOK, WbMasterTypeOK, FromDecoder
  PROVE  /\ wbm_fifo' \in Seq(Requests) /\ wbm_fifo_din' \in Requests
         /\ wbm_fifo_wr' \in BOOLEAN
         /\ Len(wbm_fifo') = Len(wbm_fifo) + One(wbm_fifo_wr)
         /\ wbm_fifo_wr' = (WriteShown \/ ReadShown)
<1>1. WbAddr(addr) \in WbAddrs
  <2>1. addr.bar \in 0 .. 1 /\ addr.adr \in 0 .. BarSpan - 1
    BY DEF DecodeTypeOK
  <2>2. addr.bar * BarSpan \in {0, BarSpan}
    BY <2>1, DecodeConstants
  <2> QED BY <2>1, <2>2, DecodeConstants DEF WbAddr, WbAddrs
<1>2. wbm_fifo_din' \in Requests
  <2>1. wbm_fifo_din \in Requests /\ d \in Nat
    BY DEF WbMasterTypeOK, DecodeTypeOK
  <2>2. /\ [rw |-> TRUE, adr |-> WbAddr(addr), dat |-> d] \in Requests
        /\ [wbm_fifo_din EXCEPT !.rw = FALSE, !.adr = WbAddr(addr)] \in Requests
    BY <1>1, <2>1 DEF Requests
  <2> QED BY <2>1, <2>2 DEF FromDecoder
<1>3. wbm_fifo_wr' = (WriteShown \/ ReadShown)
  BY DEF FromDecoder
<1>4. wbm_fifo_wr' \in BOOLEAN
  BY Zenon DEF FromDecoder
<1>5. wbm_fifo' \in Seq(Requests) /\ Len(wbm_fifo') = Len(wbm_fifo) + One(wbm_fifo_wr)
  <2>1. wbm_fifo \in Seq(Requests) /\ wbm_fifo_din \in Requests
    BY DEF WbMasterTypeOK
  <2>2. wbm_fifo' = IF wbm_fifo_wr THEN Append(wbm_fifo, wbm_fifo_din) ELSE wbm_fifo
    BY DEF FromDecoder
  <2> QED BY <2>1, <2>2 DEF One
<1> QED BY <1>2, <1>3, <1>4, <1>5

LEMMA WordBits ==
  ASSUME NEW des \in Words
  PROVE  des.valid \in BOOLEAN /\ des.dframe \in BOOLEAN
<1>1. CASE \E f \in BOOLEAN : des = [NoDes EXCEPT !.dframe = f]
  <2>1. PICK f \in BOOLEAN : des = [NoDes EXCEPT !.dframe = f]
    BY <1>1
  <2>2. des.valid = FALSE /\ des.dframe = f
    BY <2>1 DEF NoDes
  <2> QED BY <2>2, Zenon
<1>2. CASE \E w : \E f \in BOOLEAN : des = Des(w, f)
  <2>1. PICK w, f : f \in BOOLEAN /\ des = Des(w, f)
    BY <1>2
  <2>2. des.valid = TRUE /\ des.dframe = f
    BY <2>1 DEF Des
  <2> QED BY <2>1, <2>2, Zenon
<1> QED BY <1>1, <1>2, Zenon DEF Words

(* A tick of clk_i. *)
LEMMA ClkInv ==
  ASSUME AInv, NEW des \in Words, NEW others \in BOOLEAN, NEW rd_rdy \in BOOLEAN,
         Send(des), Clk(des, others, rd_rdy)
  PROVE  AInv'
<1>1. /\ DecodeTick(des) /\ FromDecoder /\ Grant(others) /\ Receive
      /\ CompletionTick(gnt, rd_rdy, hdr_strobe, hdr_cid)
      /\ lag' = IF WbmRdy THEN 0 ELSE IF des.valid THEN lag + 1 ELSE lag
      /\ UNCHANGED <<wbVars, slave, regs>>
  BY DEF Clk
<1>2. TxOK' /\ DesOK(des) /\ (des.valid => MaySend)
  BY SendOK DEF AInv
<1>3. DecodeTypeOK'
  BY <1>1, <1>2, WordBits, DecodeOK DEF AInv, TypeOK
<1>4. /\ wbm_fifo' \in Seq(Requests) /\ wbm_fifo_din' \in Requests
      /\ wbm_fifo_wr' \in BOOLEAN
      /\ Len(wbm_fifo') = Len(wbm_fifo) + One(wbm_fifo_wr)
      /\ wbm_fifo_wr' = (WriteShown \/ ReadShown)
  BY <1>1, EntryOK DEF AInv, TypeOK
<1>5. WbMasterTypeOK'
  BY <1>1, <1>4 DEF wbVars, WbMasterTypeOK, AInv, TypeOK
<1>6. lag \in Nat /\ lag <= WbmRdyLag /\ Len(wbm_fifo) \in Nat
  BY HostAccessConstants DEF AInv, TypeOK, WbMasterTypeOK
<1>7. lag' \in 0 .. WbmRdyLag
  BY <1>1, <1>2, <1>6, HostAccessConstants DEF MaySend
<1>8. SourcesOK'
  <2>1. p2l_cid' \in 0 .. 3
    BY <1>1 DEF CompletionTick, StoreCid, AInv, SourcesOK, TypeOK, DecodeTypeOK
  <2>2. \/ wbm_word' = wbm_word \/ wbm_word' = CplZero
        \/ wbm_word' = CplHeader(p2l_cid) \/ wbm_word' = CplData(from_wb_fifo_dout)
    BY <1>1 DEF CompletionTick, CplFsm, CplIdle, CplHeaderSent, CplDataSent
  <2>3. wbm_word'.kind = "cpl" => wbm_word'.cid \in 0 .. 3
    BY <2>2 DEF CplZero, CplHeader, CplData, AInv, SourcesOK
  <2> QED BY <1>1, <2>1, <2>3 DEF SourcesOK, AInv
<1>9. gnt' \in BOOLEAN
  <2>1. gnt \in BOOLEAN
    BY DEF AInv, TypeOK
  <2> QED BY <1>1, <2>1, Zenon DEF Grant
<1>10. rx_cid' \in 0 .. 3
  BY <1>1 DEF Receive, AInv, TypeOK, SourcesOK
<1>11. (WriteShown \/ ReadShown)' => des.valid
  BY <1>1, Zenon DEF DecodeTick, AddrDecode, DataDecode, WriteShown, ReadShown
<1>12. Room'
  <2>1. One((WriteShown \/ ReadShown)') <= One(des.valid)
    BY <1>11 DEF One
  <2>2. /\ One(wbm_fifo_wr) \in 0 .. 1 /\ One(WriteShown \/ ReadShown) \in 0 .. 1
        /\ One((WriteShown \/ ReadShown)') \in 0 .. 1 /\ One(des.valid) \in 0 .. 1
    BY DEF One
  <2>3. One(wbm_fifo_wr') = One(WriteShown \/ ReadShown)
    BY <1>4 DEF One
  <2>4. lag' = IF WbmRdy THEN 0 ELSE lag + One(des.valid)
    BY <1>1, <1>6 DEF One
  <2>5. Len(wbm_fifo) + One(wbm_fifo_wr) + One(WriteShown \/ ReadShown)
          <= WbmFull + 2 + lag
    BY DEF AInv, Room
  <2>6. WbmRdy => Len(wbm_fifo) <= WbmFull - 1
    BY <1>6, WbMasterConstants DEF WbmRdy
  <2> DEFINE w == One(wbm_fifo_wr)
             s == One(WriteShown \/ ReadShown)
             t == One((WriteShown \/ ReadShown)')
             v == One(des.valid)
             n == Len(wbm_fifo)
             m == Len(wbm_fifo')
  <2>7. m = n + w /\ w \in 0 .. 1 /\ s \in 0 .. 1 /\ t \in 0 .. 1 /\ v \in 0 .. 1 /\ t <= v
        /\ n + w + s <= WbmFull + 2 + lag /\ n \in Nat /\ lag \in Nat /\ WbmFull \in Nat
        /\ (WbmRdy => n <= WbmFull - 1) /\ lag' = IF WbmRdy THEN 0 ELSE lag + v
    BY <1>4, <1>6, <2>1, <2>2, <2>4, <2>5, <2>6, WbMasterConstants
  <2>8. (Room)' = (m + One(wbm_fifo_wr') + t <= WbmFull + 2 + lag')
    BY DEF Room
  <2> HIDE DEF w, s, t, v, n, m
  <2>9. m + s + t <= WbmFull + 2 + lag'
    BY <2>7
  <2> QED BY <2>3, <2>8, <2>9 DEF s
<1> QED BY <1>2, <1>3, <1>5, <1>7, <1>8, <1>9, <1>10, <1>12 DEF AInv, TypeOK

(* A tick of wb_clk_i. *)
LEMMA WbClkInv ==
  ASSUME AInv, NEW stall \in BOOLEAN, NEW ack \in BOOLEAN, WbClk(stall, ack)
  PROVE  AInv'
<1> DEFINE take == wb_stb /\ wb_cyc /\ ~stall /\ ~slave.busy
           now == IF take THEN [busy |-> TRUE, dat |-> regs[wb_adr]] ELSE slave
<1>1. /\ WbTick(stall, ack, now.dat)
      /\ slave' = (IF ack THEN NoAccess ELSE now)
      /\ regs' = (IF take /\ wb_we THEN [regs EXCEPT ![wb_adr] = wb_dat] ELSE regs)
      /\ UNCHANGED <<decodeVars, cplVars, entryVars, hostVars>>
  BY DEF WbClk
<1>2. WbMasterTypeOK /\ wb_adr \in WbAddrs /\ wb_dat \in Nat /\ regs \in [WbAddrs -> Nat]
  BY DEF AInv, TypeOK, WbMasterTypeOK, SourcesOK
<1>3. now.dat \in Nat
  BY <1>2 DEF AInv, SourcesOK
<1>4. slave'.dat \in Nat
  BY <1>1, <1>3 DEF NoAccess
<1>5. regs' \in [WbAddrs -> Nat]
  BY <1>1, <1>2
<1> HIDE DEF take, now
<1>6. /\ wbm_fifo' \in Seq(Requests) /\ wbm_fifo_dout' \in Requests
      /\ Len(wbm_fifo') <= Len(wbm_fifo)
  <2>1. wbm_fifo \in Seq(Requests) /\ wbm_fifo_dout \in Requests
    BY <1>2 DEF WbMasterTypeOK
  <2>2. CASE wbm_fifo_rd /\ wbm_fifo # <<>>
    <3>1. wbm_fifo' = Tail(wbm_fifo) /\ wbm_fifo_dout' = Head(wbm_fifo)
      BY <1>1, <2>2 DEF WbTick
    <3> QED BY <2>1, <2>2, <3>1
  <2>3. CASE ~(wbm_fifo_rd /\ wbm_fifo # <<>>)
    <3>1. wbm_fifo' = wbm_fifo /\ wbm_fifo_dout' = wbm_fifo_dout
      BY <1>1, <2>3 DEF WbTick
    <3> QED BY <2>1, <3>1
  <2> QED BY <2>2, <2>3
<1>7. wb_adr' \in WbAddrs /\ wb_dat' \in Nat
  <2>1. wbm_fifo_dout.adr \in WbAddrs /\ wbm_fifo_dout.dat \in Nat
    BY <1>2 DEF WbMasterTypeOK, Requests
  <2> QED BY <1>1, <1>2, <2>1 DEF WbTick, WbIdle, WbReadFifo, WbCycle, WbWaitAck
<1>8. from_wb_fifo_din' \in Nat
  BY <1>1, <1>2, <1>3
  DEF WbTick, WbIdle, WbReadFifo, WbCycle, WbWaitAck, WbMasterTypeOK
<1>9. wb_state' \in {"WB_IDLE", "WB_READ_FIFO", "WB_CYCLE", "WB_WAIT_ACK"}
  BY <1>1, <1>2 DEF WbTick, WbIdle, WbReadFifo, WbCycle, WbWaitAck, WbMasterTypeOK
<1>10. /\ wbm_fifo_rd' \in BOOLEAN /\ wb_cyc' \in BOOLEAN /\ wb_stb' \in BOOLEAN
       /\ wb_we' \in BOOLEAN /\ from_wb_fifo_wr' \in BOOLEAN
  <2>1. /\ wbm_fifo_rd \in BOOLEAN /\ wb_cyc \in BOOLEAN /\ wb_stb \in BOOLEAN
        /\ wb_we \in BOOLEAN /\ from_wb_fifo_wr \in BOOLEAN
        /\ wbm_fifo_dout.rw \in BOOLEAN
    BY <1>2 DEF WbMasterTypeOK, Requests
  <2>2. WbIdle \/ WbReadFifo \/ WbCycle \/ WbWaitAck(stall, ack, now.dat)
    BY <1>1 DEF WbTick
  <2> QED
    BY <2>1, <2>2, Zenon DEF WbIdle, WbReadFifo, WbCycle, WbWaitAck, StrobeNext
<1>11. WbMasterTypeOK'
  BY <1>1, <1>2, <1>6, <1>7, <1>8, <1>9, <1>10 DEF WbMasterTypeOK, entryVars
<1>12. DecodeTypeOK'
  BY <1>1 DEF decodeVars, DecodeTypeOK, AInv, TypeOK
<1>13. TypeOK'
  BY <1>1, <1>11, <1>12 DEF TypeOK, AInv, hostVars
<1>14. TxOK'
  BY <1>1 DEF TxOK, AInv, hostVars
<1>15. SourcesOK'
  BY <1>1, <1>4, <1>5 DEF SourcesOK, AInv, cplVars
<1>16. Room'
  <2>1. /\ (wbm_fifo_wr' = wbm_fifo_wr) /\ lag' = lag
        /\ (WriteShown \/ ReadShown)' = (WriteShown \/ ReadShown)
    BY <1>1 DEF entryVars, hostVars, decodeVars, WriteShown, ReadShown
  <2>2. /\ Len(wbm_fifo) \in Nat /\ Len(wbm_fifo') \in Nat /\ lag \in Nat
        /\ One(wbm_fifo_wr) \in Nat /\ One(WriteShown \/ ReadShown) \in Nat
    BY <1>2, <1>6 DEF WbMasterTypeOK, AInv, TypeOK, One
  <2>3. /\ One(wbm_fifo_wr') = One(wbm_fifo_wr)
        /\ One((WriteShown \/ ReadShown)') = One(WriteShown \/ ReadShown)
    BY <2>1 DEF One
  <2> QED BY <1>6, <2>1, <2>2, <2>3, WbMasterConstants DEF Room, AInv
<1> QED BY <1>13, <1>14, <1>15, <1>16 DEF AInv

LEMMA StutterInv == AInv /\ UNCHANGED vars => AInv'
<1> SUFFICES ASSUME AInv, UNCHANGED vars PROVE AInv'
  OBVIOUS
<1>1. UNCHANGED <<decodeVars, entryVars, wbm_fifo, wbVars, hostVars, slave, regs, cplVars>>
  BY DEF vars
<1>2. DecodeTypeOK'
  BY <1>1 DEF decodeVars, DecodeTypeOK, AInv, TypeOK
<1>3. WbMasterTypeOK'
  BY <1>1 DEF wbVars, entryVars, WbMasterTypeOK, AInv, TypeOK
<1>4. TypeOK' /\ TxOK' /\ SourcesOK'
  BY <1>1, <1>2, <1>3 DEF TypeOK, TxOK, SourcesOK, AInv, hostVars, cplVars
<1>5. Room'
  <2>1. /\ (wbm_fifo_wr' = wbm_fifo_wr) /\ lag' = lag /\ wbm_fifo' = wbm_fifo
        /\ (WriteShown \/ ReadShown)' = (WriteShown \/ ReadShown)
    BY <1>1 DEF entryVars, hostVars, decodeVars, WriteShown, ReadShown
  <2> QED BY <2>1 DEF Room, AInv, One
<1> QED BY <1>4, <1>5 DEF AInv

LEMMA StepInv == AInv /\ [Next]_vars => AInv'
<1> SUFFICES ASSUME AInv, [Next]_vars PROVE AInv'
  OBVIOUS
<1>1. CASE ClkTick
  <2>1. PICK des \in Words, others, rd_rdy \in BOOLEAN : Send(des) /\ Clk(des, others, rd_rdy)
    BY <1>1 DEF ClkTick
  <2> QED BY <2>1, ClkInv
<1>2. CASE WbClkTick
  <2>1. PICK stall, ack \in BOOLEAN : WbClk(stall, ack)
    BY <1>2 DEF WbClkTick
  <2> QED BY <2>1, WbClkInv
<1>3. CASE UNCHANGED vars
  BY <1>3, StutterInv
<1> QED BY <1>1, <1>2, <1>3 DEF Next

(* The registers of the decoder and of the Wishbone master keep their      *)
(* types: the word address stays in its region (p2l_decode32.vhd), the     *)
(* bus address in the 31 bits of wb_adr_o, the lag within what the GN4124  *)
(* is allowed.                                                             *)
THEOREM TypesHold == Spec => []TypeOK
<1>1. AInv => TypeOK
  BY DEF AInv
<1> QED BY <1>1, InitInv, StepInv, PTL DEF Spec

(* The FIFO to the carrier bus (wbmaster32.vhd, cmp_fifo_to_wb) is never   *)
(* written beyond its size: the threshold, the words on their way and the  *)
(* lag of the GN4124 fit.                                                  *)
THEOREM FifoHolds == Spec => []NoOverflow
<1>1. AInv => NoOverflow
  <2> SUFFICES ASSUME AInv PROVE NoOverflow
    OBVIOUS
  <2>1. /\ Len(wbm_fifo) \in Nat /\ lag \in Nat /\ lag <= WbmRdyLag
        /\ One(wbm_fifo_wr) \in Nat /\ One(WriteShown \/ ReadShown) \in Nat
    BY HostAccessConstants DEF AInv, TypeOK, WbMasterTypeOK, One
  <2> QED BY <2>1, WbmMargin, WbMasterConstants, HostAccessConstants DEF AInv, Room, NoOverflow
<1> QED BY <1>1, InitInv, StepInv, PTL DEF Spec

-----------------------------------------------------------------------------
(***************************************************************************)
(* The order of the accesses and of the answers.  Two lines go through the *)
(* core: the accesses, from the decoder over the FIFO to the bus, and the  *)
(* answers, from the bus over the other FIFO to the L2P packets.  First    *)
(* lines of any words, then the lines of the core, what a step does to     *)
(* them, and what the host is owed.                                        *)
(***************************************************************************)

(* The access x, a record of Requests, writes the register a. *)
WritesTo(x, a) == x.rw /\ x.adr = a

(* v is what the register a will hold when the first n accesses of the     *)
(* line q have been performed, if the registers hold r now: the last word  *)
(* written to it, or what it holds.                                        *)
Value(q, r, n, a, v) ==
   \/ (\A k \in 1 .. n : ~WritesTo(q[k], a)) /\ v = r[a]
   \/ \E k \in 1 .. n : /\ WritesTo(q[k], a) /\ v = q[k].dat
                        /\ \A j \in k + 1 .. n : ~WritesTo(q[j], a)

(* f places the unanswered reads of the host, o without its first m        *)
(* entries, at the reads of the line q, in order and without leaving one   *)
(* out; each will find the value it is owed.                               *)
ReadsAt(q, r, o, m, f) ==
   /\ f \in [1 .. Len(o) - m -> 1 .. Len(q)]
   /\ \A i, j \in 1 .. Len(o) - m : i < j => f[i] < f[j]
   /\ \A i \in 1 .. Len(o) - m : ~q[f[i]].rw /\ Value(q, r, f[i] - 1, q[f[i]].adr, o[m + i].dat)
   /\ \A k \in 1 .. Len(q) : q[k].rw \/ \E i \in 1 .. Len(o) - m : f[i] = k

(* The reads on the line are the ones the host still has to get an answer  *)
(* to.                                                                     *)
Due(q, r, o, m) == \E f : ReadsAt(q, r, o, m, f)

(* p is q with x behind it. *)
Grown(q, p, x) == /\ Len(p) = Len(q) + 1 /\ p[Len(q) + 1] = x
                  /\ \A i \in 1 .. Len(q) : p[i] = q[i]

(* p is q without its first element. *)
Shrunk(q, p) == Len(p) = Len(q) - 1 /\ \A i \in 1 .. Len(p) : p[i] = q[i + 1]

(* A value depends only on the accesses in front of it. *)
LEMMA ValueKept ==
  ASSUME NEW q, NEW p, NEW r, NEW n \in Int, NEW a, NEW v,
         \A i \in 1 .. n : p[i] = q[i], Value(q, r, n, a, v)
  PROVE  Value(p, r, n, a, v)
<1>1. CASE (\A k \in 1 .. n : ~WritesTo(q[k], a)) /\ v = r[a]
  BY <1>1 DEF Value, WritesTo
<1>2. CASE \E k \in 1 .. n : /\ WritesTo(q[k], a) /\ v = q[k].dat
                             /\ \A j \in k + 1 .. n : ~WritesTo(q[j], a)
  <2>1. PICK k \in 1 .. n : /\ WritesTo(q[k], a) /\ v = q[k].dat
                            /\ \A j \in k + 1 .. n : ~WritesTo(q[j], a)
    BY <1>2
  <2>2. WritesTo(p[k], a) /\ v = p[k].dat
    BY <2>1
  <2>3. \A j \in k + 1 .. n : ~WritesTo(p[j], a)
    <3> SUFFICES ASSUME NEW j \in k + 1 .. n PROVE ~WritesTo(p[j], a)
      OBVIOUS
    <3>1. j \in 1 .. n
      OBVIOUS
    <3> QED BY <2>1, <3>1
  <2> QED BY <2>2, <2>3 DEF Value
<1> QED BY <1>1, <1>2 DEF Value

(* One more access at the end of the line: a write changes the value of    *)
(* its register, a read none.                                              *)
LEMMA ValueAfter ==
  ASSUME NEW q, Len(q) \in Nat, NEW p, NEW x, Grown(q, p, x), NEW r, NEW a, NEW v,
         Value(q, r, Len(q), a, v)
  PROVE  Value(p, r, Len(p), a, IF WritesTo(x, a) THEN x.dat ELSE v)
<1> DEFINE n == Len(q)
<1>0. n \in Nat /\ Len(p) = n + 1 /\ p[n + 1] = x /\ \A i \in 1 .. n : p[i] = q[i]
  BY DEF Grown
<1> HIDE DEF n
<1>1. CASE WritesTo(x, a)
  <2>1. n + 1 \in 1 .. n + 1 /\ WritesTo(p[n + 1], a) /\ x.dat = p[n + 1].dat
        /\ \A j \in n + 1 + 1 .. n + 1 : ~WritesTo(p[j], a)
    BY <1>0, <1>1
  <2>2. Value(p, r, n + 1, a, x.dat)
    BY <2>1 DEF Value
  <2> QED BY <1>0, <1>1, <2>2
<1>2. CASE ~WritesTo(x, a)
  <2>1. Value(p, r, n, a, v)
    BY <1>0, ValueKept DEF n
  <2>2. CASE (\A k \in 1 .. n : ~WritesTo(p[k], a)) /\ v = r[a]
    <3>1. \A k \in 1 .. n + 1 : ~WritesTo(p[k], a)
      BY <1>0, <1>2, <2>2
    <3>2. Value(p, r, n + 1, a, v)
      BY <2>2, <3>1 DEF Value
    <3> QED BY <1>0, <1>2, <3>2
  <2>3. CASE \E k \in 1 .. n : /\ WritesTo(p[k], a) /\ v = p[k].dat
                               /\ \A j \in k + 1 .. n : ~WritesTo(p[j], a)
    <3>1. PICK k \in 1 .. n : /\ WritesTo(p[k], a) /\ v = p[k].dat
                              /\ \A j \in k + 1 .. n : ~WritesTo(p[j], a)
      BY <2>3
    <3>2. \A j \in k + 1 .. n + 1 : ~WritesTo(p[j], a)
      BY <1>0, <1>2, <3>1
    <3>3. k \in 1 .. n + 1
      BY <1>0
    <3>4. Value(p, r, n + 1, a, v)
      BY <3>1, <3>2, <3>3 DEF Value
    <3> QED BY <1>0, <1>2, <3>4
  <2> QED BY <2>1, <2>2, <2>3 DEF Value
<1> QED BY <1>1, <1>2

(* The first access has been performed: the registers s hold what it       *)
(* wrote, and every later value is the same.                               *)
LEMMA ValueDone ==
  ASSUME NEW q, NEW p, Len(q) \in Nat, Shrunk(q, p), NEW r, NEW s, NEW a, NEW v,
         s[a] = IF WritesTo(q[1], a) THEN q[1].dat ELSE r[a],
         NEW n \in 1 .. Len(q), Value(q, r, n, a, v)
  PROVE  Value(p, s, n - 1, a, v)
<1>0. Len(p) = Len(q) - 1 /\ \A i \in 1 .. Len(p) : p[i] = q[i + 1]
  BY DEF Shrunk
<1>1. CASE (\A k \in 1 .. n : ~WritesTo(q[k], a)) /\ v = r[a]
  <2>1. ~WritesTo(q[1], a)
    BY <1>1
  <2>2. \A k \in 1 .. n - 1 : ~WritesTo(p[k], a)
    <3> SUFFICES ASSUME NEW k \in 1 .. n - 1 PROVE ~WritesTo(p[k], a)
      OBVIOUS
    <3>1. k + 1 \in 1 .. n /\ k \in 1 .. Len(p)
      BY <1>0
    <3> QED BY <1>0, <1>1, <3>1
  <2> QED BY <1>1, <2>1, <2>2 DEF Value
<1>2. CASE \E k \in 1 .. n : /\ WritesTo(q[k], a) /\ v = q[k].dat
                             /\ \A j \in k + 1 .. n : ~WritesTo(q[j], a)
  <2>1. PICK k \in 1 .. n : /\ WritesTo(q[k], a) /\ v = q[k].dat
                            /\ \A j \in k + 1 .. n : ~WritesTo(q[j], a)
    BY <1>2
  <2>2. ASSUME NEW j \in k .. n - 1 PROVE ~WritesTo(p[j], a)
    <3>1. j + 1 \in k + 1 .. n /\ j \in 1 .. Len(p)
      BY <1>0
    <3> QED BY <1>0, <2>1, <3>1
  <2>3. CASE k = 1
    <3>1. s[a] = v
      BY <2>1, <2>3
    <3>2. \A j \in 1 .. n - 1 : ~WritesTo(p[j], a)
      BY <2>2, <2>3
    <3> QED BY <3>1, <3>2 DEF Value
  <2>4. CASE k # 1
    <3>1. k - 1 \in 1 .. n - 1 /\ k - 1 \in 1 .. Len(p) /\ k - 1 + 1 = k
      BY <1>0, <2>4
    <3>2. WritesTo(p[k - 1], a) /\ v = p[k - 1].dat
      BY <1>0, <2>1, <3>1
    <3>3. \A j \in k - 1 + 1 .. n - 1 : ~WritesTo(p[j], a)
      BY <2>2
    <3> QED BY <3>1, <3>2, <3>3 DEF Value
  <2> QED BY <2>3, <2>4
<1> QED BY <1>1, <1>2 DEF Value

(* A write at the end of the line leaves the reads what they are owed. *)
LEMMA DueKept ==
  ASSUME NEW q, NEW p, NEW x, NEW r, NEW o, NEW m, Len(q) \in Nat, Grown(q, p, x), x.rw,
         Due(q, r, o, m)
  PROVE  Due(p, r, o, m)
<1> DEFINE n == Len(o) - m
<1>0. Len(p) = Len(q) + 1 /\ p[Len(q) + 1] = x /\ \A i \in 1 .. Len(q) : p[i] = q[i]
  BY DEF Grown
<1>1. PICK f : ReadsAt(q, r, o, m, f)
  BY DEF Due
<1>2. /\ f \in [1 .. n -> 1 .. Len(q)] /\ \A i, j \in 1 .. n : i < j => f[i] < f[j]
      /\ \A i \in 1 .. n : ~q[f[i]].rw /\ Value(q, r, f[i] - 1, q[f[i]].adr, o[m + i].dat)
      /\ \A k \in 1 .. Len(q) : q[k].rw \/ \E i \in 1 .. n : f[i] = k
  BY <1>1 DEF ReadsAt
<1> HIDE DEF n
<1>3. f \in [1 .. n -> 1 .. Len(p)]
  BY <1>0, <1>2
<1>4. ASSUME NEW i \in 1 .. n
      PROVE  ~p[f[i]].rw /\ Value(p, r, f[i] - 1, p[f[i]].adr, o[m + i].dat)
  <2>1. f[i] \in 1 .. Len(q) /\ p[f[i]] = q[f[i]]
    BY <1>0, <1>2
  <2>2. f[i] - 1 \in Int /\ \A k \in 1 .. f[i] - 1 : p[k] = q[k]
    BY <1>0, <2>1
  <2>3. Value(q, r, f[i] - 1, q[f[i]].adr, o[m + i].dat)
    BY <1>2
  <2>4. Value(p, r, f[i] - 1, q[f[i]].adr, o[m + i].dat)
    BY <2>2, <2>3, ValueKept
  <2> QED BY <1>2, <2>1, <2>4
<1>5. ASSUME NEW k \in 1 .. Len(p) PROVE p[k].rw \/ \E i \in 1 .. n : f[i] = k
  <2>1. CASE k \in 1 .. Len(q)
    BY <1>0, <1>2, <2>1
  <2>2. CASE k = Len(q) + 1
    BY <1>0, <2>2
  <2> QED BY <1>0, <2>1, <2>2
<1>6. ReadsAt(p, r, o, m, f)
  BY <1>2, <1>3, <1>4, <1>5 DEF ReadsAt, n
<1> QED BY <1>6 DEF Due

(* A read at the end of the line is owed the value its register will have. *)
LEMMA DueRead ==
  ASSUME NEW q, NEW p, NEW x, NEW r, NEW o, NEW u, NEW e, NEW m \in Nat, Len(q) \in Nat,
         Grown(q, p, x), ~x.rw, Len(o) \in Nat, m <= Len(o), Grown(o, u, e),
         Value(q, r, Len(q), x.adr, e.dat), Due(q, r, o, m)
  PROVE  Due(p, r, u, m)
<1> DEFINE n == Len(o) - m
<1>0. /\ Len(p) = Len(q) + 1 /\ p[Len(q) + 1] = x /\ \A i \in 1 .. Len(q) : p[i] = q[i]
      /\ Len(u) = Len(o) + 1 /\ u[Len(o) + 1] = e /\ \A i \in 1 .. Len(o) : u[i] = o[i]
  BY DEF Grown
<1>1. PICK f : ReadsAt(q, r, o, m, f)
  BY DEF Due
<1>2. /\ f \in [1 .. n -> 1 .. Len(q)] /\ \A i, j \in 1 .. n : i < j => f[i] < f[j]
      /\ \A i \in 1 .. n : ~q[f[i]].rw /\ Value(q, r, f[i] - 1, q[f[i]].adr, o[m + i].dat)
      /\ \A k \in 1 .. Len(q) : q[k].rw \/ \E i \in 1 .. n : f[i] = k
  BY <1>1 DEF ReadsAt
<1>n. n \in Nat /\ Len(u) - m = n + 1 /\ m + (n + 1) = Len(o) + 1
      /\ \A i \in 1 .. n : m + i \in 1 .. Len(o)
  <2>1. n \in Nat /\ n + m = Len(o)
    OBVIOUS
  <2> HIDE DEF n
  <2>2. \A i \in 1 .. n : m + i \in 1 .. Len(o)
    BY <2>1
  <2>3. Len(u) - m = n + 1 /\ m + (n + 1) = Len(o) + 1
    BY <1>0, <2>1
  <2> QED BY <2>1, <2>2, <2>3
<1> HIDE DEF n
<1> DEFINE g == [i \in 1 .. n + 1 |-> IF i = n + 1 THEN Len(q) + 1 ELSE f[i]]
<1>g. g[n + 1] = Len(q) + 1 /\ \A i \in 1 .. n : g[i] = f[i]
  BY <1>n
<1>3. g \in [1 .. n + 1 -> 1 .. Len(p)]
  BY <1>0, <1>2, <1>n
<1> HIDE DEF g
<1>4. ASSUME NEW i \in 1 .. n + 1, NEW j \in 1 .. n + 1, i < j PROVE g[i] < g[j]
  <2>1. i \in 1 .. n /\ g[i] = f[i] /\ f[i] \in 1 .. Len(q)
    BY <1>2, <1>n, <1>4, <1>g
  <2>2. CASE j = n + 1
    BY <1>g, <2>1, <2>2
  <2>3. CASE j # n + 1
    <3>1. j \in 1 .. n
      BY <1>n, <2>3
    <3> QED BY <1>2, <1>4, <1>g, <2>1, <3>1
  <2> QED BY <2>2, <2>3
<1>5. ASSUME NEW i \in 1 .. n + 1
      PROVE  ~p[g[i]].rw /\ Value(p, r, g[i] - 1, p[g[i]].adr, u[m + i].dat)
  <2>1. CASE i = n + 1
    <3>1. g[i] = Len(q) + 1 /\ p[g[i]] = x /\ u[m + i] = e /\ g[i] - 1 = Len(q)
      BY <1>0, <1>n, <1>g, <2>1
    <3>2. Len(q) \in Int /\ \A k \in 1 .. Len(q) : p[k] = q[k]
      BY <1>0
    <3>3. Value(p, r, Len(q), x.adr, e.dat)
      BY <3>2, ValueKept
    <3> QED BY <3>1, <3>3
  <2>2. CASE i # n + 1
    <3>0. i \in 1 .. n /\ g[i] = f[i]
      BY <1>n, <1>g, <2>2
    <3>1. f[i] \in 1 .. Len(q) /\ p[f[i]] = q[f[i]] /\ u[m + i] = o[m + i]
      BY <1>0, <1>2, <1>n, <3>0
    <3>2. f[i] - 1 \in Int /\ \A k \in 1 .. f[i] - 1 : p[k] = q[k]
      BY <1>0, <3>1
    <3>3. Value(q, r, f[i] - 1, q[f[i]].adr, o[m + i].dat) /\ ~q[f[i]].rw
      BY <1>2, <3>0
    <3>4. Value(p, r, f[i] - 1, q[f[i]].adr, o[m + i].dat)
      BY <3>2, <3>3, ValueKept
    <3> QED BY <3>0, <3>1, <3>3, <3>4
  <2> QED BY <2>1, <2>2
<1>6. ASSUME NEW k \in 1 .. Len(p) PROVE p[k].rw \/ \E i \in 1 .. n + 1 : g[i] = k
  <2>1. CASE k \in 1 .. Len(q)
    <3>1. p[k] = q[k] /\ (q[k].rw \/ \E i \in 1 .. n : f[i] = k)
      BY <1>0, <1>2, <2>1
    <3>2. \A i \in 1 .. n : i \in 1 .. n + 1
      BY <1>n
    <3> QED BY <1>g, <3>1, <3>2
  <2>2. CASE k = Len(q) + 1
    BY <1>n, <1>g, <2>2
  <2> QED BY <1>0, <2>1, <2>2
<1>7. ReadsAt(p, r, u, m, g)
  BY <1>3, <1>4, <1>5, <1>6, <1>n DEF ReadsAt
<1> QED BY <1>7 DEF Due

(* The first access was a write and has been performed. *)
LEMMA DueWritten ==
  ASSUME NEW q, NEW p, NEW r, NEW s, NEW o, NEW m, Len(q) \in Nat, Shrunk(q, p),
         Len(q) > 0, q[1].rw, \A i \in 1 .. Len(q) : q[i].adr \in WbAddrs,
         \A a \in WbAddrs : s[a] = IF WritesTo(q[1], a) THEN q[1].dat ELSE r[a],
         Due(q, r, o, m)
  PROVE  Due(p, s, o, m)
<1> DEFINE n == Len(o) - m
<1>0. Len(p) = Len(q) - 1 /\ \A i \in 1 .. Len(p) : p[i] = q[i + 1]
  BY DEF Shrunk
<1>1. PICK f : ReadsAt(q, r, o, m, f)
  BY DEF Due
<1>2. /\ f \in [1 .. n -> 1 .. Len(q)] /\ \A i, j \in 1 .. n : i < j => f[i] < f[j]
      /\ \A i \in 1 .. n : ~q[f[i]].rw /\ Value(q, r, f[i] - 1, q[f[i]].adr, o[m + i].dat)
      /\ \A k \in 1 .. Len(q) : q[k].rw \/ \E i \in 1 .. n : f[i] = k
  BY <1>1 DEF ReadsAt
<1> HIDE DEF n
<1> DEFINE g == [i \in 1 .. n |-> f[i] - 1]
<1>3. ASSUME NEW i \in 1 .. n
      PROVE  f[i] \in 2 .. Len(q) /\ g[i] = f[i] - 1 /\ g[i] \in 1 .. Len(p) /\ p[g[i]] = q[f[i]]
  <2>1. f[i] \in 1 .. Len(q) /\ ~q[f[i]].rw
    BY <1>2
  <2>2. f[i] # 1
    BY <2>1
  <2>3. f[i] \in 2 .. Len(q) /\ f[i] - 1 \in 1 .. Len(p) /\ f[i] - 1 + 1 = f[i]
    BY <1>0, <2>1, <2>2
  <2> QED BY <1>0, <2>3
<1>4. g \in [1 .. n -> 1 .. Len(p)]
  BY <1>3
<1> HIDE DEF g
<1>5. ASSUME NEW i \in 1 .. n, NEW j \in 1 .. n, i < j PROVE g[i] < g[j]
  <2>1. f[i] < f[j]
    BY <1>2, <1>5
  <2> QED BY <1>3, <2>1
<1>6. ASSUME NEW i \in 1 .. n
      PROVE  ~p[g[i]].rw /\ Value(p, s, g[i] - 1, p[g[i]].adr, o[m + i].dat)
  <2>1. ~q[f[i]].rw /\ Value(q, r, f[i] - 1, q[f[i]].adr, o[m + i].dat) /\ f[i] \in 1 .. Len(q)
    BY <1>2
  <2>2. q[f[i]].adr \in WbAddrs /\ f[i] - 1 \in 1 .. Len(q)
    BY <1>3
  <2>3. s[q[f[i]].adr] = IF WritesTo(q[1], q[f[i]].adr) THEN q[1].dat ELSE r[q[f[i]].adr]
    BY <2>2
  <2>4. Value(p, s, (f[i] - 1) - 1, q[f[i]].adr, o[m + i].dat)
    BY <2>1, <2>2, <2>3, ValueDone
  <2> QED BY <1>3, <2>1, <2>4
<1>7. ASSUME NEW k \in 1 .. Len(p) PROVE p[k].rw \/ \E i \in 1 .. n : g[i] = k
  <2>1. k + 1 \in 1 .. Len(q) /\ p[k] = q[k + 1]
    BY <1>0
  <2>2. CASE \E i \in 1 .. n : f[i] = k + 1
    <3>1. PICK i \in 1 .. n : f[i] = k + 1
      BY <2>2
    <3> QED BY <1>3, <3>1
  <2> QED BY <1>2, <2>1, <2>2
<1>8. ReadsAt(p, s, o, m, g)
  BY <1>4, <1>5, <1>6, <1>7 DEF ReadsAt, n
<1> QED BY <1>8 DEF Due

(* The first access was a read: it belongs to the first read without an    *)
(* answer, and finds what that one is owed.                                *)
LEMMA DueTaken ==
  ASSUME NEW q, NEW p, NEW r, NEW o, NEW m \in Nat, Len(q) \in Nat, Shrunk(q, p),
         Len(q) > 0, ~q[1].rw, Len(o) \in Nat, m <= Len(o), Due(q, r, o, m)
  PROVE  m + 1 <= Len(o) /\ o[m + 1].dat = r[q[1].adr] /\ Due(p, r, o, m + 1)
<1> DEFINE n == Len(o) - m
<1>0. Len(p) = Len(q) - 1 /\ \A i \in 1 .. Len(p) : p[i] = q[i + 1]
  BY DEF Shrunk
<1>1. PICK f : ReadsAt(q, r, o, m, f)
  BY DEF Due
<1>2. /\ f \in [1 .. n -> 1 .. Len(q)] /\ \A i, j \in 1 .. n : i < j => f[i] < f[j]
      /\ \A i \in 1 .. n : ~q[f[i]].rw /\ Value(q, r, f[i] - 1, q[f[i]].adr, o[m + i].dat)
      /\ \A k \in 1 .. Len(q) : q[k].rw \/ \E i \in 1 .. n : f[i] = k
  BY <1>1 DEF ReadsAt
<1>n. n \in Nat /\ Len(o) = n + m
  OBVIOUS
<1> HIDE DEF n
<1>3. 1 <= n /\ f[1] = 1
  <2>1. 1 \in 1 .. Len(q)
    OBVIOUS
  <2>2. PICK i \in 1 .. n : f[i] = 1
    BY <1>2, <2>1
  <2>3. 1 \in 1 .. n /\ i \in Int /\ i >= 1
    BY <1>n
  <2>4. f[1] \in 1 .. Len(q) /\ (1 < i => f[1] < f[i])
    BY <1>2, <2>3
  <2>5. ~(1 < i)
    BY <2>2, <2>4
  <2>6. i = 1
    BY <2>3, <2>5
  <2> QED BY <2>2, <2>3, <2>6
<1>4. o[m + 1].dat = r[q[1].adr]
  <2>1. 1 \in 1 .. n /\ f[1] - 1 = 0
    BY <1>3, <1>n
  <2>2. Value(q, r, 0, q[1].adr, o[m + 1].dat)
    BY <1>2, <1>3, <2>1
  <2>3. ~ \E k \in 1 .. 0 : TRUE
    OBVIOUS
  <2> QED BY <2>2, <2>3 DEF Value
<1> DEFINE g == [i \in 1 .. n - 1 |-> f[i + 1] - 1]
<1>5. ASSUME NEW i \in 1 .. n - 1
      PROVE  /\ i + 1 \in 1 .. n /\ f[i + 1] \in 2 .. Len(q) /\ g[i] = f[i + 1] - 1
             /\ g[i] \in 1 .. Len(p) /\ p[g[i]] = q[f[i + 1]]
  <2>1. i + 1 \in 1 .. n /\ 1 \in 1 .. n /\ 1 < i + 1
    BY <1>n
  <2>2. f[1] < f[i + 1] /\ f[i + 1] \in 1 .. Len(q)
    BY <1>2, <2>1
  <2>3. f[i + 1] \in 2 .. Len(q) /\ f[i + 1] - 1 \in 1 .. Len(p) /\ f[i + 1] - 1 + 1 = f[i + 1]
    BY <1>0, <1>3, <2>2
  <2> QED BY <1>0, <2>1, <2>3
<1>6. g \in [1 .. n - 1 -> 1 .. Len(p)]
  <2>1. \A i \in 1 .. n - 1 : f[i + 1] - 1 \in 1 .. Len(p)
    <3> HIDE DEF g
    <3> QED BY <1>5
  <2> QED BY <2>1
<1> HIDE DEF g
<1>7. ASSUME NEW i \in 1 .. n - 1, NEW j \in 1 .. n - 1, i < j PROVE g[i] < g[j]
  <2>1. i + 1 \in 1 .. n /\ j + 1 \in 1 .. n /\ i + 1 < j + 1
    BY <1>n, <1>7
  <2>2. f[i + 1] < f[j + 1]
    BY <1>2, <2>1
  <2>3. f[i + 1] \in Int /\ f[j + 1] \in Int /\ g[i] = f[i + 1] - 1 /\ g[j] = f[j + 1] - 1
    BY <1>5
  <2> QED BY <2>2, <2>3
<1>8. ASSUME NEW i \in 1 .. n - 1
      PROVE  ~p[g[i]].rw /\ Value(p, r, g[i] - 1, p[g[i]].adr, o[m + 1 + i].dat)
  <2>0. i + 1 \in 1 .. n /\ m + (i + 1) = m + 1 + i
    BY <1>n
  <2>1. /\ ~q[f[i + 1]].rw /\ f[i + 1] \in 1 .. Len(q)
        /\ Value(q, r, f[i + 1] - 1, q[f[i + 1]].adr, o[m + (i + 1)].dat)
    BY <1>2, <2>0
  <2>2. f[i + 1] - 1 \in 1 .. Len(q) /\ ~WritesTo(q[1], q[f[i + 1]].adr)
    BY <1>5 DEF WritesTo
  <2>3. r[q[f[i + 1]].adr] =
          IF WritesTo(q[1], q[f[i + 1]].adr) THEN q[1].dat ELSE r[q[f[i + 1]].adr]
    BY <2>2
  <2>4. Value(p, r, (f[i + 1] - 1) - 1, q[f[i + 1]].adr, o[m + (i + 1)].dat)
    BY <2>1, <2>2, <2>3, ValueDone
  <2> QED BY <1>5, <2>0, <2>1, <2>4
<1>9. ASSUME NEW k \in 1 .. Len(p) PROVE p[k].rw \/ \E i \in 1 .. n - 1 : g[i] = k
  <2>1. k + 1 \in 1 .. Len(q) /\ p[k] = q[k + 1]
    BY <1>0
  <2>2. CASE \E i \in 1 .. n : f[i] = k + 1
    <3>1. PICK i \in 1 .. n : f[i] = k + 1
      BY <2>2
    <3>2. i # 1
      BY <1>3, <3>1
    <3>3. i - 1 \in 1 .. n - 1 /\ i - 1 + 1 = i
      BY <1>n, <3>2
    <3>4. g[i - 1] = k
      BY <1>5, <3>1, <3>3
    <3> QED BY <3>3, <3>4
  <2> QED BY <1>2, <2>1, <2>2
<1>10. Len(o) - (m + 1) = n - 1
  BY <1>n
<1>11. ReadsAt(p, r, o, m + 1, g)
  BY <1>6, <1>7, <1>8, <1>9, <1>10 DEF ReadsAt
<1> QED BY <1>3, <1>4, <1>11, <1>n DEF Due

(* Answers that leave, and marks on the reads, change nothing that is      *)
(* owed.                                                                   *)
LEMMA DueSame ==
  ASSUME NEW q, NEW r, NEW o, NEW u, NEW m \in Nat, NEW k \in 0 .. m, Len(o) \in Nat, m <= Len(o),
         Len(u) = Len(o) - k, \A i \in 1 .. Len(u) : u[i].dat = o[i + k].dat, Due(q, r, o, m)
  PROVE  Due(q, r, u, m - k)
<1>1. PICK f : ReadsAt(q, r, o, m, f)
  BY DEF Due
<1>2. Len(u) - (m - k) = Len(o) - m
  OBVIOUS
<1>3. \A i \in 1 .. Len(o) - m : u[(m - k) + i].dat = o[m + i].dat
  <2> SUFFICES ASSUME NEW i \in 1 .. Len(o) - m PROVE u[(m - k) + i].dat = o[m + i].dat
    OBVIOUS
  <2>1. (m - k) + i \in 1 .. Len(u) /\ ((m - k) + i) + k = m + i
    OBVIOUS
  <2> QED BY <2>1
<1>4. ReadsAt(q, r, u, m - k, f)
  BY <1>1, <1>2, <1>3 DEF ReadsAt
<1> QED BY <1>4 DEF Due

(* A line of words in four places, the oldest first. *)
Queue(a, b, c, e) == ((a \o b) \o c) \o e

(* The length of a line is that of its places. *)
LEMMA QueueSeq ==
  ASSUME NEW S, NEW a \in Seq(S), NEW b \in Seq(S), NEW c \in Seq(S), NEW e \in Seq(S)
  PROVE  /\ Queue(a, b, c, e) \in Seq(S) /\ Len(Queue(a, b, c, e)) \in Nat
         /\ Len(Queue(a, b, c, e)) = Len(a) + Len(b) + Len(c) + Len(e)
<1>1. a \o b \in Seq(S) /\ Len(a \o b) = Len(a) + Len(b)
  BY ConcatProperties
<1>2. (a \o b) \o c \in Seq(S) /\ Len((a \o b) \o c) = Len(a \o b) + Len(c)
  BY <1>1, ConcatProperties
<1>3. /\ ((a \o b) \o c) \o e \in Seq(S)
      /\ Len(((a \o b) \o c) \o e) = Len((a \o b) \o c) + Len(e)
  BY <1>2, ConcatProperties
<1>4. Len(((a \o b) \o c) \o e) \in Nat
  BY <1>3, LenProperties
<1> QED BY <1>1, <1>2, <1>3, <1>4 DEF Queue

(* The head of the FIFO moves to the empty place in front of it. *)
LEMMA QueuePop ==
  ASSUME NEW S, NEW b \in Seq(S), NEW c, NEW e, b # << >>
  PROVE  Queue(<< Head(b) >>, Tail(b), c, e) = Queue(<< >>, b, c, e)
<1>1. << Head(b) >> \o Tail(b) = b
  <2>1. /\ Head(b) \in S /\ Tail(b) \in Seq(S) /\ Len(Tail(b)) = Len(b) - 1
        /\ \A i \in 1 .. Len(Tail(b)) : Tail(b)[i] = b[i + 1]
    BY HeadTailProperties
  <2>2. << Head(b) >> \in Seq(S) /\ Len(<< Head(b) >>) = 1 /\ << Head(b) >>[1] = Head(b)
    BY <2>1
  <2>3. Head(b) = b[1] /\ Len(b) \in Nat /\ Len(b) >= 1
    <3>1. Len(b) \in Nat \ {0}
      BY EmptySeq
    <3> QED BY <3>1
  <2>4. /\ << Head(b) >> \o Tail(b) \in Seq(S)
        /\ Len(<< Head(b) >> \o Tail(b)) = Len(<< Head(b) >>) + Len(Tail(b))
        /\ \A i \in 1 .. Len(<< Head(b) >>) + Len(Tail(b)) : (<< Head(b) >> \o Tail(b))[i] =
              IF i <= Len(<< Head(b) >>) THEN << Head(b) >>[i]
              ELSE Tail(b)[i - Len(<< Head(b) >>)]
    BY <2>1, <2>2, ConcatProperties
  <2> DEFINE z == << Head(b) >> \o Tail(b)
  <2>5. Len(z) = Len(b)
    BY <2>1, <2>2, <2>3, <2>4
  <2>6. ASSUME NEW i \in 1 .. Len(z) PROVE z[i] = b[i]
    <3>1. z[i] = IF i <= 1 THEN << Head(b) >>[i] ELSE Tail(b)[i - 1]
      BY <2>1, <2>2, <2>3, <2>4, <2>5
    <3> HIDE DEF z
    <3>2. CASE i = 1
      BY <2>2, <2>3, <3>1, <3>2
    <3>3. CASE i # 1
      <4>1. i - 1 \in 1 .. Len(Tail(b)) /\ i - 1 + 1 = i /\ ~(i <= 1)
        BY <2>1, <2>3, <2>5, <3>3
      <4> QED BY <2>1, <3>1, <4>1
    <3> QED BY <3>2, <3>3
  <2> QED BY <2>4, <2>5, <2>6, SeqEqual
<1>2. << >> \o b = b
  BY ConcatEmptySeq
<1> QED BY <1>1, <1>2 DEF Queue

(* The front of a sequence leaves it. *)
LEMMA FrontLeaves ==
  ASSUME NEW S, NEW x \in S, NEW z \in Seq(S)
  PROVE  /\ Shrunk(<< x >> \o z, z) /\ (<< x >> \o z)[1] = x
<1>1. << x >> \in Seq(S) /\ Len(<< x >>) = 1 /\ << x >>[1] = x
  OBVIOUS
<1>2. /\ Len(<< x >> \o z) = Len(<< x >>) + Len(z)
      /\ \A i \in 1 .. Len(<< x >>) + Len(z) : (<< x >> \o z)[i] =
            IF i <= Len(<< x >>) THEN << x >>[i] ELSE z[i - Len(<< x >>)]
  BY <1>1, ConcatProperties
<1>3. Len(z) \in Nat
  OBVIOUS
<1> DEFINE y == << x >> \o z
<1>4. /\ Len(y) = 1 + Len(z)
      /\ \A i \in 1 .. 1 + Len(z) : y[i] = IF i <= 1 THEN << x >>[i] ELSE z[i - 1]
  BY <1>1, <1>2
<1> HIDE DEF y
<1>5. y[1] = x
  BY <1>1, <1>3, <1>4
<1>6. Len(z) = Len(y) - 1
  BY <1>3, <1>4
<1>7. ASSUME NEW i \in 1 .. Len(z) PROVE z[i] = y[i + 1]
  <2>1. i + 1 \in 1 .. 1 + Len(z) /\ ~(i + 1 <= 1) /\ i + 1 - 1 = i
    BY <1>3
  <2> QED BY <1>4, <2>1
<1> QED BY <1>5, <1>6, <1>7 DEF Shrunk, y

(* x has left the front of q. *)
Left(q, p, x) == Shrunk(q, p) /\ q[1] = x

(* The word in the first place leaves the line. *)
LEMMA QueueOut ==
  ASSUME NEW S, NEW x \in S, NEW b \in Seq(S), NEW c \in Seq(S), NEW e \in Seq(S)
  PROVE  Left(Queue(<< x >>, b, c, e), Queue(<< >>, b, c, e), x)
<1>0. << x >> \in Seq(S)
  OBVIOUS
<1>1. << >> \o b = b
  BY ConcatEmptySeq
<1>2. b \o c \in Seq(S) /\ (b \o c) \o e \in Seq(S)
  <2>1. b \o c \in Seq(S)
    BY ConcatProperties
  <2> QED BY <2>1, ConcatProperties
<1>3. (<< x >> \o b) \o c = << x >> \o (b \o c)
  BY <1>0, ConcatAssociative
<1>4. (<< x >> \o (b \o c)) \o e = << x >> \o ((b \o c) \o e)
  BY <1>0, <1>2, ConcatAssociative
<1>5. Shrunk(<< x >> \o ((b \o c) \o e), (b \o c) \o e) /\ (<< x >> \o ((b \o c) \o e))[1] = x
  BY <1>2, FrontLeaves
<1> QED BY <1>1, <1>3, <1>4, <1>5 DEF Queue, Left

(* A word moves from the last place to the empty one before. *)
LEMMA QueueShift ==
  ASSUME NEW S, NEW a \in Seq(S), NEW b \in Seq(S), NEW t \in Seq(S)
  PROVE  Queue(a, b, << >>, t) = Queue(a, b, t, << >>)
<1>1. a \o b \in Seq(S)
  BY ConcatProperties
<1>2. (a \o b) \o << >> = a \o b
  BY <1>1, ConcatEmptySeq
<1>3. (a \o b) \o t \in Seq(S)
  BY <1>1, ConcatProperties
<1>4. ((a \o b) \o t) \o << >> = (a \o b) \o t
  BY <1>3, ConcatEmptySeq
<1> QED BY <1>2, <1>4 DEF Queue

(* A sequence grows by a word at its end. *)
LEMMA BackGrows ==
  ASSUME NEW S, NEW z \in Seq(S), NEW x \in S
  PROVE  Grown(z, z \o << x >>, x)
<1>1. << x >> \in Seq(S) /\ Len(<< x >>) = 1 /\ << x >>[1] = x /\ Len(z) \in Nat
  OBVIOUS
<1>2. /\ Len(z \o << x >>) = Len(z) + Len(<< x >>)
      /\ \A i \in 1 .. Len(z) + Len(<< x >>) : (z \o << x >>)[i] =
            IF i <= Len(z) THEN z[i] ELSE << x >>[i - Len(z)]
  BY <1>1, ConcatProperties
<1> DEFINE y == z \o << x >>
<1>3. /\ Len(y) = Len(z) + 1
      /\ \A i \in 1 .. Len(z) + 1 : y[i] = IF i <= Len(z) THEN z[i] ELSE << x >>[i - Len(z)]
  BY <1>1, <1>2
<1> HIDE DEF y
<1>4. y[Len(z) + 1] = x
  <2>1. Len(z) + 1 \in 1 .. Len(z) + 1 /\ ~(Len(z) + 1 <= Len(z)) /\ Len(z) + 1 - Len(z) = 1
    BY <1>1
  <2> QED BY <1>1, <1>3, <2>1
<1>5. \A i \in 1 .. Len(z) : y[i] = z[i]
  BY <1>1, <1>3
<1> QED BY <1>3, <1>4, <1>5 DEF Grown, y

(* The third place moves into the FIFO, the fourth into the third. *)
LEMMA QueueSame ==
  ASSUME NEW S, NEW a \in Seq(S), NEW b \in Seq(S), NEW c \in Seq(S), NEW e \in Seq(S)
  PROVE  Queue(a, b \o c, e, << >>) = Queue(a, b, c, e)
<1>1. (a \o b) \o c = a \o (b \o c)
  BY ConcatAssociative
<1>2. Queue(a, b, c, e) \in Seq(S)
  BY QueueSeq
<1>3. Queue(a, b, c, e) \o << >> = Queue(a, b, c, e)
  BY <1>2, ConcatEmptySeq
<1> QED BY <1>1, <1>3, Zenon DEF Queue

(* The same, and a word comes into the fourth place. *)
LEMMA QueueIn ==
  ASSUME NEW S, NEW a \in Seq(S), NEW b \in Seq(S), NEW c \in Seq(S), NEW e \in Seq(S), NEW x \in S
  PROVE  Grown(Queue(a, b, c, e), Queue(a, b \o c, e, << x >>), x)
<1>1. (a \o b) \o c = a \o (b \o c)
  BY ConcatAssociative
<1>2. Queue(a, b, c, e) \in Seq(S)
  BY QueueSeq
<1>3. Grown(Queue(a, b, c, e), Queue(a, b, c, e) \o << x >>, x)
  BY <1>2, BackGrows
<1> QED BY <1>1, <1>3, Zenon DEF Queue

(* A word comes into the fourth place of a line whose last places are      *)
(* empty.                                                                  *)
LEMMA QueueGrows ==
  ASSUME NEW S, NEW a \in Seq(S), NEW b \in Seq(S), NEW x \in S
  PROVE  Grown(Queue(a, b, << >>, << >>), Queue(a, b, << >>, << x >>), x)
<1>1. << >> \in Seq(S)
  BY EmptySeq
<1>2. (a \o b) \o << >> \in Seq(S)
  <2>1. a \o b \in Seq(S)
    BY ConcatProperties
  <2> QED BY <1>1, <2>1, ConcatProperties
<1>3. ((a \o b) \o << >>) \o << >> = (a \o b) \o << >>
  BY <1>2, ConcatEmptySeq
<1>4. Grown((a \o b) \o << >>, ((a \o b) \o << >>) \o << x >>, x)
  BY <1>2, BackGrows
<1> QED BY <1>3, <1>4 DEF Queue

(* A read that waits for its answer. *)
Owings == [cid : 0 .. 3, dat : Nat, passed : BOOLEAN]

(* The types of the words on their way, and of what the host expects. *)
OrderTypesOK ==
    /\ from_wb_fifo \in Seq(Nat) /\ from_wb_fifo_dout \in Nat
    /\ wbm_word.kind = "cpl_data" => wbm_word.data \in Nat
    /\ mem \in [WbAddrs -> Nat]
    /\ owed \in Seq(Owings)
    /\ slave \in [busy : BOOLEAN, dat : Nat]
    /\ cpl_state \in {"L2P_IDLE", "L2P_HEADER", "L2P_DATA"}
    /\ wbm_req \in BOOLEAN /\ wbm_valid \in BOOLEAN /\ wbm_dframe \in BOOLEAN
    /\ from_wb_fifo_rd \in BOOLEAN

(* What the decoder's registers say of the packet the GN4124 is sending:   *)
(* p_type_decode and p_data_decode follow it, and the address of the next  *)
(* data word is its own.                                                   *)
Sending ==
    /\ dframe_d = (tx.phase # "none")
    /\ addr_cycle = (tx.phase = "addr")
    /\ data_cycle = (tx.phase = "data")
    /\ tx.phase # "none" => pkt = tx.type
    /\ tx.phase = "addr" => tx.type \in {"mrd", "mwr"}
    /\ tx.phase = "data" => tx.type \in {"mwr", "cpld"}
    /\ tx.phase = "data" /\ tx.type = "mwr" =>
         [bar |-> tx.bar, adr |-> tx.adr] = IF d_valid THEN NextAddr ELSE addr

(* The word the GN4124 sends is data of a write, the address of a read. *)
WriteSent(des) == tx.phase = "data" /\ tx.type = "mwr" /\ des.valid
ReadSent(des)  == tx.phase = "addr" /\ tx.type = "mrd" /\ des.valid

(* A tick of the decoder follows the packet, and shows a word to write or  *)
(* the address of a read exactly when one was sent, with its own address.  *)
LEMMA SendStep ==
  ASSUME AInv, Sending, NEW des \in Words, Send(des), DecodeTick(des)
  PROVE  /\ Sending'
         /\ WriteShown' <=> WriteSent(des)
         /\ ReadShown' <=> ReadSent(des)
         /\ WriteSent(des) \/ ReadSent(des) => addr' = [bar |-> tx.bar, adr |-> tx.adr]
         /\ WriteSent(des) => mem' = [mem EXCEPT ![WbAddr(tx)] = d']
         /\ ~WriteSent(des) => mem' = mem
         /\ tx'.phase = "addr" =>
              IF hdr_strobe' THEN hdr_cid' = tx'.cid ELSE tx' = tx
         /\ hdr_strobe' => tx.phase = "none" /\ des.valid /\ hdr_cid' = des.word.cid
<1>0. /\ dframe_d' = des.dframe /\ valid_d' = des.valid
      /\ TypeDecode(des) /\ HeaderDecode(des) /\ AddrDecode(des) /\ DataDecode(des)
      /\ des.valid \in BOOLEAN /\ des.dframe \in BOOLEAN
  BY WordBits DEF DecodeTick
<1>t. /\ tx \in [phase : Phases, type : PacketTypes \cup {"none"}, cid : 0 .. 3,
               bar : 0 .. 1, adr : 0 .. BarSpan - 1, len : Nat]
      /\ addr \in [bar : 0 .. 1, adr : 0 .. BarSpan - 1]
  BY DEF AInv, TxOK, TypeOK, DecodeTypeOK
<1>1. CASE SendNothing(des)
  <2>1. des.valid = FALSE /\ des.dframe = (tx.phase # "none") /\ tx' = tx /\ mem' = mem
    BY <1>1 DEF SendNothing, NoDes
  <2>2. /\ ~PacketStart(des) /\ ~d_valid' /\ ~addr_start' /\ addr_cycle' = addr_cycle
        /\ data_cycle' = (data_cycle /\ des.dframe) /\ ~hdr_strobe'
        /\ addr' = IF d_valid /\ Target THEN NextAddr ELSE addr
        /\ pkt' = IF PacketEnd THEN "none" ELSE pkt
    <3>1. ~PacketStart(des)
      BY <2>1 DEF PacketStart
    <3>2. ~d_valid' /\ ~addr_start' /\ ~hdr_strobe'
      BY <1>0, <2>1, <3>1 DEF DataDecode, AddrDecode, HeaderDecode
    <3>3. addr_cycle' = addr_cycle
      BY <1>0, <2>1, <3>1, Zenon DEF AddrDecode, AInv, TypeOK, DecodeTypeOK
    <3>4. data_cycle' = (data_cycle /\ des.dframe)
      BY <1>0, <2>1, <3>1, Zenon DEF DataDecode
    <3> QED BY <1>0, <2>1, <3>1, <3>2, <3>3, <3>4 DEF AddrDecode, TypeDecode
  <2>3. Sending'
    <3>1. dframe_d' = (tx'.phase # "none") /\ addr_cycle' = (tx'.phase = "addr")
      BY <1>0, <2>1, <2>2 DEF Sending
    <3>2. data_cycle' = (tx'.phase = "data")
      BY <2>1, <2>2 DEF Sending
    <3>3. tx'.phase # "none" => pkt' = tx'.type
      BY <2>1, <2>2 DEF Sending, PacketEnd
    <3>4. tx'.phase = "data" /\ tx'.type = "mwr" =>
            [bar |-> tx'.bar, adr |-> tx'.adr] = addr'
      <4> SUFFICES ASSUME tx.phase = "data", tx.type = "mwr"
                   PROVE  [bar |-> tx.bar, adr |-> tx.adr] = addr'
        BY <2>1
      <4>1. Target
        BY DEF Sending, Target
      <4> QED BY <2>2, <4>1 DEF Sending
    <3> QED BY <2>1, <2>2, <3>1, <3>2, <3>3, <3>4 DEF Sending
  <2>4. ~WriteShown' /\ ~ReadShown'
    BY <2>2 DEF WriteShown, ReadShown
  <2> QED BY <2>1, <2>2, <2>3, <2>4 DEF WriteSent, ReadSent
<1>2. CASE SendHeader(des)
  <2>1. PICK p \in Packets :
          /\ des = Des([Blank EXCEPT !.type = p.type, !.cid = p.cid], TRUE)
          /\ tx' = [phase |-> IF p.type = "cpld" THEN "data" ELSE "addr", type |-> p.type,
                    cid |-> p.cid, bar |-> p.bar, adr |-> p.adr, len |-> p.len]
    BY <1>2 DEF SendHeader
  <2>2. p.type \in PacketTypes /\ tx.phase = "none" /\ mem' = mem
    BY <1>2, HostAccessConstants DEF PacketTypes, SendHeader
  <2>3. des.valid = TRUE /\ des.dframe = TRUE /\ des.word.type = p.type /\ des.word.cid = p.cid
    BY <2>1 DEF Des, Blank
  <2>4. ~dframe_d /\ ~addr_cycle /\ ~data_cycle
    BY <2>2 DEF Sending
  <2>5. PacketStart(des) /\ (IsCompletion(des) <=> p.type = "cpld")
    BY <2>2, <2>3, <2>4 DEF PacketStart, IsCompletion, PacketTypes
  <2>6. /\ pkt' = p.type /\ hdr_strobe' /\ hdr_cid' = p.cid
        /\ ~d_valid' /\ ~addr_start' /\ dframe_d'
        /\ addr_cycle' = (p.type # "cpld") /\ data_cycle' = (p.type = "cpld")
    <3>1. pkt' = p.type /\ hdr_strobe' /\ hdr_cid' = p.cid
      BY <1>0, <2>3, <2>5 DEF TypeDecode, HeaderDecode
    <3>2. ~d_valid' /\ ~addr_start' /\ dframe_d'
      BY <1>0, <2>3, <2>4 DEF DataDecode, AddrDecode
    <3>3. addr_cycle' = (p.type # "cpld")
      BY <1>0, <2>4, <2>5 DEF AddrDecode
    <3>4. data_cycle' = (p.type = "cpld")
      BY <1>0, <2>3, <2>4, <2>5 DEF DataDecode
    <3> QED BY <3>1, <3>2, <3>3, <3>4
  <2>7. Sending'
    BY <2>1, <2>2, <2>6 DEF Sending, PacketTypes
  <2>8. ~WriteShown' /\ ~ReadShown' /\ tx'.cid = p.cid
    BY <2>1, <2>6 DEF WriteShown, ReadShown
  <2> QED BY <2>2, <2>3, <2>6, <2>7, <2>8 DEF WriteSent, ReadSent
<1>3. CASE SendAddr(des)
  <2>1. /\ tx.phase = "addr" /\ mem' = mem
        /\ des = Des([Blank EXCEPT !.bar = tx.bar, !.adr = tx.adr], tx.type # "mrd")
        /\ tx' = IF tx.type = "mrd" THEN NoPacket ELSE [tx EXCEPT !.phase = "data"]
    BY <1>3 DEF SendAddr
  <2>2. /\ des.valid = TRUE /\ des.dframe = (tx.type # "mrd")
        /\ des.word.bar = tx.bar /\ des.word.adr = tx.adr
    BY <2>1 DEF Des, Blank
  <2>3. dframe_d /\ addr_cycle /\ ~data_cycle /\ pkt = tx.type /\ tx.type \in {"mrd", "mwr"}
    BY <2>1 DEF Sending
  <2>4. ~PacketStart(des) /\ ~PacketEnd /\ Target
    BY <2>3 DEF PacketStart, PacketEnd, Target
  <2>5. /\ pkt' = tx.type /\ ~hdr_strobe' /\ ~d_valid' /\ addr_start' /\ addr_cycle' = FALSE
        /\ addr' = [bar |-> tx.bar, adr |-> tx.adr]
        /\ data_cycle' = (tx.type # "mrd") /\ dframe_d' = (tx.type # "mrd")
    <3>1. pkt' = tx.type /\ ~hdr_strobe'
      BY <1>0, <2>3, <2>4 DEF TypeDecode, HeaderDecode
    <3>2. ~d_valid' /\ addr_start' /\ addr_cycle' = FALSE /\ addr' = [bar |-> tx.bar, adr |-> tx.adr]
      BY <1>0, <2>2, <2>3, <2>4 DEF DataDecode, AddrDecode
    <3>3. data_cycle' = (tx.type # "mrd")
      BY <1>0, <2>2, <2>3, <2>4 DEF DataDecode
    <3>4. dframe_d' = (tx.type # "mrd")
      BY <1>0, <2>2
    <3> QED BY <3>1, <3>2, <3>3, <3>4
  <2>6. CASE tx.type = "mrd"
    <3>1. tx'.phase = "none"
      BY <2>1, <2>6 DEF NoPacket
    <3>2. Sending'
      BY <2>5, <2>6, <3>1 DEF Sending
    <3>3. ~WriteShown' /\ ReadShown'
      BY <2>5, <2>6 DEF WriteShown, ReadShown
    <3> QED BY <2>1, <2>2, <2>5, <2>6, <3>1, <3>2, <3>3 DEF WriteSent, ReadSent
  <2>7. CASE tx.type = "mwr"
    <3>1. tx'.phase = "data" /\ tx'.type = "mwr" /\ tx'.bar = tx.bar /\ tx'.adr = tx.adr
      BY <1>t, <2>1, <2>7
    <3>2. Sending'
      BY <2>5, <2>7, <3>1 DEF Sending
    <3>3. ~WriteShown' /\ ~ReadShown'
      BY <2>5, <2>7 DEF WriteShown, ReadShown
    <3> QED BY <2>1, <2>2, <2>5, <2>7, <3>1, <3>2, <3>3 DEF WriteSent, ReadSent
  <2> QED BY <2>3, <2>6, <2>7
<1>4. CASE SendData(des)
  <2> DEFINE stamp == (2 * BarSpan + 1) * sent + tx.len
  <2>1. /\ tx.phase = "data"
        /\ des = Des([Blank EXCEPT !.data = stamp], tx.len > 1)
        /\ tx' = IF tx.len = 1 THEN NoPacket
                 ELSE [tx EXCEPT !.len = @ - 1, !.adr = (@ + 1) % BarSpan]
        /\ mem' = IF tx.type = "mwr" THEN [mem EXCEPT ![WbAddr(tx)] = stamp] ELSE mem
    BY <1>4 DEF SendData
  <2> HIDE DEF stamp
  <2>2. des.valid = TRUE /\ des.dframe = (tx.len > 1) /\ des.word.data = stamp
    BY <2>1 DEF Des, Blank
  <2>3. dframe_d /\ ~addr_cycle /\ data_cycle /\ pkt = tx.type /\ tx.type \in {"cpld", "mwr"}
    BY <2>1 DEF Sending
  <2>4. ~PacketStart(des) /\ ~PacketEnd
    BY <2>3 DEF PacketStart, PacketEnd
  <2>5. /\ pkt' = tx.type /\ ~hdr_strobe' /\ d_valid' /\ ~addr_start' /\ addr_cycle' = FALSE
        /\ d' = stamp
        /\ addr' = IF d_valid /\ Target THEN NextAddr ELSE addr
        /\ data_cycle' = (tx.len > 1) /\ dframe_d' = (tx.len > 1)
    <3>1. pkt' = tx.type /\ ~hdr_strobe'
      BY <1>0, <2>3, <2>4 DEF TypeDecode, HeaderDecode
    <3>2. /\ d_valid' /\ ~addr_start' /\ addr_cycle' = FALSE /\ d' = stamp
          /\ addr' = IF d_valid /\ Target THEN NextAddr ELSE addr
      BY <1>0, <2>2, <2>3, <2>4 DEF DataDecode, AddrDecode
    <3>3. data_cycle' = (tx.len > 1)
      BY <1>0, <2>2, <2>3, <2>4 DEF DataDecode
    <3>4. dframe_d' = (tx.len > 1)
      BY <1>0, <2>2
    <3> QED BY <3>1, <3>2, <3>3, <3>4
  <2>6. tx.type = "mwr" => addr' = [bar |-> tx.bar, adr |-> tx.adr]
    <3> SUFFICES ASSUME tx.type = "mwr" PROVE addr' = [bar |-> tx.bar, adr |-> tx.adr]
      OBVIOUS
    <3>1. Target
      BY <2>3 DEF Target
    <3> QED BY <2>1, <2>5, <3>1 DEF Sending
  <2>7. Sending'
    <3>1. CASE tx.len = 1
      <4>1. tx'.phase = "none"
        BY <2>1, <3>1 DEF NoPacket
      <4>2. dframe_d' = FALSE /\ data_cycle' = FALSE /\ addr_cycle' = FALSE
        <5>1. (tx.len > 1) = FALSE
          BY <3>1
        <5> QED BY <2>5, <5>1
      <4> QED BY <4>1, <4>2 DEF Sending
    <3>2. CASE tx.len # 1
      <4>1. tx.len > 1
        BY <2>1, <3>2 DEF AInv, TxOK
      <4>2. /\ tx'.phase = "data" /\ tx'.type = tx.type /\ tx'.bar = tx.bar
            /\ tx'.adr = (tx.adr + 1) % BarSpan
        BY <1>t, <2>1, <3>2
      <4>3. tx'.type = "mwr" => [bar |-> tx'.bar, adr |-> tx'.adr] = NextAddr'
        BY <2>6, <4>2 DEF NextAddr
      <4> QED BY <2>3, <2>5, <4>1, <4>2, <4>3 DEF Sending
    <3> QED BY <3>1, <3>2
  <2>8. (WriteShown' <=> tx.type = "mwr") /\ ~ReadShown'
    BY <2>5 DEF WriteShown, ReadShown
  <2>9. tx'.phase # "addr"
    BY <2>1, <1>t DEF NoPacket
  <2> QED BY <2>1, <2>2, <2>5, <2>6, <2>7, <2>8, <2>9 DEF WriteSent, ReadSent
<1> QED BY <1>1, <1>2, <1>3, <1>4 DEF Send

(* Where an access is in p_wb_fsm: the strobe stands until the slave has   *)
(* taken it, the cycle until the acknowledge.                              *)
BusPlaces ==
    /\ wb_stb = (wb_state = "WB_WAIT_ACK" /\ ~slave.busy)
    /\ wb_cyc = (wb_state = "WB_WAIT_ACK")
    /\ slave.busy => wb_state = "WB_WAIT_ACK"
    /\ wbm_fifo_rd = (wb_state = "WB_READ_FIFO")
    /\ wbm_fifo_rd => wbm_fifo # << >>
    /\ from_wb_fifo_wr => wb_state = "WB_IDLE"

(* Where an answer is in the L2P packet write FSM: the header goes out     *)
(* under the grant, the data behind it.                                    *)
CplPlaces ==
    /\ wbm_req = (cpl_state = "L2P_HEADER")
    /\ from_wb_fifo_rd => cpl_state = "L2P_HEADER" /\ from_wb_fifo # << >>
    /\ cpl_state = "L2P_HEADER" => ~wbm_valid
    /\ cpl_state = "L2P_DATA" => gnt /\ wbm_valid /\ wbm_dframe /\ wbm_word.kind = "cpl"
    /\ cpl_state = "L2P_IDLE" /\ wbm_valid => gnt /\ ~wbm_dframe /\ wbm_word.kind = "cpl_data"

(* The accesses on their way, from the decoder's outputs to the bus. *)
Shown ==
    IF WriteShown THEN << [rw |-> TRUE, adr |-> WbAddr(addr), dat |-> d] >>
    ELSE IF ReadShown THEN << [wbm_fifo_din EXCEPT !.rw = FALSE, !.adr = WbAddr(addr)] >>
    ELSE << >>
Entry == IF wbm_fifo_wr THEN << wbm_fifo_din >> ELSE << >>
Current ==
    IF wb_state = "WB_CYCLE" THEN << wbm_fifo_dout >>
    ELSE IF wb_stb THEN << [rw |-> wb_we, adr |-> wb_adr, dat |-> wb_dat] >> ELSE << >>
Ops == Queue(Current, wbm_fifo, Entry, Shown)

(* The answers on their way, from the slave to the L2P packet. *)
Returned ==
    IF cpl_state = "L2P_IDLE" THEN IF wbm_valid THEN << wbm_word.data >> ELSE << >>
    ELSE IF from_wb_fifo_rd THEN << >> ELSE << from_wb_fifo_dout >>
Kept == IF from_wb_fifo_wr THEN << from_wb_fifo_din >> ELSE << >>
Taken == IF slave.busy /\ ~wb_we THEN << slave.dat >> ELSE << >>
Answers == Queue(Returned, from_wb_fifo, Kept, Taken)

(* The word address and the region make an address of the bus. *)
LEMMA WbAddrOK ==
  ASSUME NEW a, a.bar \in 0 .. 1, a.adr \in 0 .. BarSpan - 1
  PROVE  WbAddr(a) \in WbAddrs
<1>1. a.bar * BarSpan \in {0, BarSpan}
  BY DecodeConstants
<1> QED BY <1>1, DecodeConstants DEF WbAddr, WbAddrs

(* The accesses on their way are requests. *)
LEMMA OpsParts ==
  AInv => /\ Current \in Seq(Requests) /\ wbm_fifo \in Seq(Requests)
          /\ Entry \in Seq(Requests) /\ Shown \in Seq(Requests)
          /\ Ops \in Seq(Requests) /\ Len(Ops) \in Nat
<1> SUFFICES ASSUME AInv
    PROVE /\ Current \in Seq(Requests) /\ wbm_fifo \in Seq(Requests)
          /\ Entry \in Seq(Requests) /\ Shown \in Seq(Requests)
          /\ Ops \in Seq(Requests) /\ Len(Ops) \in Nat
  OBVIOUS
<1>1. /\ wbm_fifo \in Seq(Requests) /\ wbm_fifo_din \in Requests /\ wbm_fifo_dout \in Requests
      /\ wb_we \in BOOLEAN /\ wb_adr \in WbAddrs /\ wb_dat \in Nat /\ d \in Nat
      /\ WbAddr(addr) \in WbAddrs
  <2>1. addr.bar \in 0 .. 1 /\ addr.adr \in 0 .. BarSpan - 1
    BY DEF AInv, TypeOK, DecodeTypeOK
  <2> QED BY <2>1, WbAddrOK DEF AInv, TypeOK, WbMasterTypeOK, DecodeTypeOK
<1>2. << >> \in Seq(Requests) /\ \A x \in Requests : << x >> \in Seq(Requests)
  OBVIOUS
<1>3. [rw |-> wb_we, adr |-> wb_adr, dat |-> wb_dat] \in Requests
  BY <1>1 DEF Requests
<1>4. /\ [rw |-> TRUE, adr |-> WbAddr(addr), dat |-> d] \in Requests
      /\ [wbm_fifo_din EXCEPT !.rw = FALSE, !.adr = WbAddr(addr)] \in Requests
  BY <1>1 DEF Requests
<1>5. Current \in Seq(Requests) /\ Entry \in Seq(Requests) /\ Shown \in Seq(Requests)
  BY <1>1, <1>2, <1>3, <1>4 DEF Current, Entry, Shown
<1>6. Ops \in Seq(Requests) /\ Len(Ops) \in Nat
  <2>1. Queue(Current, wbm_fifo, Entry, Shown) \in Seq(Requests)
    BY <1>1, <1>5, QueueSeq
  <2> QED BY <2>1, LenProperties DEF Ops
<1> QED BY <1>1, <1>5, <1>6

(* The answers on their way are words. *)
LEMMA AnswerParts ==
  AInv /\ OrderTypesOK /\ CplPlaces
    => /\ Returned \in Seq(Nat) /\ from_wb_fifo \in Seq(Nat)
       /\ Kept \in Seq(Nat) /\ Taken \in Seq(Nat)
       /\ Answers \in Seq(Nat) /\ Len(Answers) \in Nat
<1> SUFFICES ASSUME AInv, OrderTypesOK, CplPlaces
    PROVE /\ Returned \in Seq(Nat) /\ from_wb_fifo \in Seq(Nat)
          /\ Kept \in Seq(Nat) /\ Taken \in Seq(Nat)
          /\ Answers \in Seq(Nat) /\ Len(Answers) \in Nat
  OBVIOUS
<1>1. /\ from_wb_fifo \in Seq(Nat) /\ from_wb_fifo_dout \in Nat /\ from_wb_fifo_din \in Nat
      /\ slave.dat \in Nat
      /\ (cpl_state = "L2P_IDLE" /\ wbm_valid => wbm_word.data \in Nat)
  BY DEF AInv, TypeOK, WbMasterTypeOK, SourcesOK, OrderTypesOK, CplPlaces
<1>2. << >> \in Seq(Nat) /\ \A x \in Nat : << x >> \in Seq(Nat)
  OBVIOUS
<1>3. Returned \in Seq(Nat) /\ Kept \in Seq(Nat) /\ Taken \in Seq(Nat)
  BY <1>1, <1>2 DEF Returned, Kept, Taken
<1>4. Queue(Returned, from_wb_fifo, Kept, Taken) \in Seq(Nat)
  BY <1>1, <1>3, QueueSeq
<1>5. Answers \in Seq(Nat) /\ Len(Answers) \in Nat
  BY <1>4, LenProperties DEF Answers
<1> QED BY <1>1, <1>3, <1>5

(* At a tick of clk_i the line of accesses grows by what was sent, and by  *)
(* nothing else.                                                           *)
LEMMA ClkOps ==
  ASSUME AInv, AInv', Sending, NEW des \in Words, NEW others, NEW rd_rdy,
         Send(des), Clk(des, others, rd_rdy)
  PROVE  \/ ~WriteSent(des) /\ ~ReadSent(des) /\ Ops' = Ops
         \/ /\ WriteSent(des)
            /\ \E x \in Requests : /\ Grown(Ops, Ops', x) /\ x.rw /\ x.adr = WbAddr(tx)
                                   /\ mem' = [mem EXCEPT ![WbAddr(tx)] = x.dat]
         \/ /\ ReadSent(des)
            /\ \E x \in Requests : Grown(Ops, Ops', x) /\ ~x.rw /\ x.adr = WbAddr(tx)
<1>1. DecodeTick(des) /\ FromDecoder /\ UNCHANGED wbVars
  BY DEF Clk
<1>2. /\ WriteShown' <=> WriteSent(des)
      /\ ReadShown' <=> ReadSent(des)
      /\ WriteSent(des) \/ ReadSent(des) => addr' = [bar |-> tx.bar, adr |-> tx.adr]
      /\ WriteSent(des) => mem' = [mem EXCEPT ![WbAddr(tx)] = d']
  BY <1>1, SendStep
<1>3. /\ Current \in Seq(Requests) /\ wbm_fifo \in Seq(Requests)
      /\ Entry \in Seq(Requests) /\ Shown \in Seq(Requests) /\ Ops \in Seq(Requests)
  BY OpsParts
<1>4. wbm_fifo' = wbm_fifo \o Entry
  <2>1. CASE wbm_fifo_wr
    <3>1. wbm_fifo' = Append(wbm_fifo, wbm_fifo_din) /\ Entry = << wbm_fifo_din >>
      BY <1>1, <2>1 DEF FromDecoder, Entry
    <3>2. wbm_fifo_din \in Requests
      BY DEF AInv, TypeOK, WbMasterTypeOK
    <3> QED BY <1>3, <3>1, <3>2, AppendIsConcat
  <2>2. CASE ~wbm_fifo_wr
    <3>1. wbm_fifo' = wbm_fifo /\ Entry = << >>
      BY <1>1, <2>2 DEF FromDecoder, Entry
    <3> QED BY <1>3, <3>1, ConcatEmptySeq
  <2> QED BY <2>1, <2>2
<1>5. Entry' = Shown
  BY <1>1 DEF FromDecoder, Entry, Shown
<1>6. Current' = Current
  BY <1>1 DEF Current, wbVars
<1>m. Ops' = Queue(Current, wbm_fifo \o Entry, Shown, Shown')
  <2>1. Ops' = Queue(Current', wbm_fifo', Entry', Shown')
    BY DEF Ops
  <2> QED BY <1>4, <1>5, <1>6, <2>1
<1>7. CASE ~WriteSent(des) /\ ~ReadSent(des)
  <2>1. Shown' = << >>
    BY <1>2, <1>7 DEF Shown
  <2>2. Queue(Current, wbm_fifo \o Entry, Shown, << >>) = Queue(Current, wbm_fifo, Entry, Shown)
    BY <1>3, QueueSame
  <2>3. Ops' = Ops
    BY <1>m, <2>1, <2>2 DEF Ops
  <2> QED BY <1>7, <2>3
<1>8. ASSUME NEW x \in Requests, Shown' = << x >> PROVE Grown(Ops, Ops', x)
  <2>1. Grown(Queue(Current, wbm_fifo, Entry, Shown),
              Queue(Current, wbm_fifo \o Entry, Shown, << x >>), x)
    BY <1>3, QueueIn
  <2>2. Ops = Queue(Current, wbm_fifo, Entry, Shown)
    BY DEF Ops
  <2> QED BY <1>m, <1>8, <2>1, <2>2
<1>9. /\ d' \in Nat /\ wbm_fifo_din' \in Requests /\ WbAddr(tx) \in WbAddrs
      /\ (WriteSent(des) \/ ReadSent(des) => WbAddr(addr') = WbAddr(tx))
  <2>1. d' \in Nat /\ wbm_fifo_din' \in Requests /\ tx.bar \in 0 .. 1 /\ tx.adr \in 0 .. BarSpan - 1
    BY DEF AInv, TypeOK, DecodeTypeOK, WbMasterTypeOK, TxOK
  <2>2. WbAddr(tx) \in WbAddrs
    BY <2>1, WbAddrOK
  <2> QED BY <1>2, <2>1, <2>2 DEF WbAddr
<1>10. CASE WriteSent(des)
  <2> DEFINE x == [rw |-> TRUE, adr |-> WbAddr(tx), dat |-> d']
  <2>1. Shown' = << x >>
    BY <1>2, <1>9, <1>10 DEF Shown
  <2>2. x \in Requests /\ x.rw /\ x.adr = WbAddr(tx) /\ x.dat = d'
    BY <1>9 DEF Requests
  <2> HIDE DEF x
  <2>3. Grown(Ops, Ops', x)
    BY <1>8, <2>1, <2>2
  <2> QED BY <1>2, <1>10, <2>2, <2>3
<1>11. CASE ReadSent(des)
  <2> DEFINE x == [wbm_fifo_din' EXCEPT !.rw = FALSE, !.adr = WbAddr(tx)]
  <2>1. Shown' = << x >>
    <3>1. ~WriteShown' /\ ReadShown'
      BY <1>2, <1>11 DEF WriteSent, ReadSent
    <3> QED BY <1>9, <1>11, <3>1 DEF Shown
  <2>2. x \in Requests /\ ~x.rw /\ x.adr = WbAddr(tx)
    BY <1>9 DEF Requests
  <2> HIDE DEF x
  <2>3. Grown(Ops, Ops', x)
    BY <1>8, <2>1, <2>2
  <2> QED BY <1>11, <2>2, <2>3
<1> QED BY <1>7, <1>10, <1>11

(* The GN4124 takes the data of a completion exactly when the FSM has      *)
(* returned to L2P_IDLE behind them.                                       *)
LEMMA WhenAnswering ==
  ASSUME OrderTypesOK, CplPlaces
  PROVE  Answering <=> cpl_state = "L2P_IDLE" /\ wbm_valid
<1>1. cpl_state = "L2P_IDLE" /\ wbm_valid => Answering
  BY DEF Answering, CplPlaces
<1>2. Answering => cpl_state = "L2P_IDLE" /\ wbm_valid
  <2> SUFFICES ASSUME Answering PROVE cpl_state = "L2P_IDLE" /\ wbm_valid
    OBVIOUS
  <2>1. gnt /\ wbm_valid /\ wbm_word.kind = "cpl_data"
    BY DEF Answering
  <2>2. cpl_state # "L2P_HEADER" /\ cpl_state # "L2P_DATA"
    BY <2>1 DEF CplPlaces
  <2> QED BY <2>1, <2>2 DEF OrderTypesOK
<1> QED BY <1>1, <1>2

(* At a tick of clk_i the first answer leaves if the GN4124 takes it, and  *)
(* no other moves past it.                                                 *)
LEMMA ClkAnswers ==
  ASSUME AInv, OrderTypesOK, CplPlaces, NEW rd_rdy, NEW others, NEW hs, NEW hc,
         CompletionTick(gnt, rd_rdy, hs, hc), Grant(others), UNCHANGED wbVars, slave' = slave
  PROVE  /\ CplPlaces'
         /\ from_wb_fifo' \in Seq(Nat) /\ from_wb_fifo_dout' \in Nat
         /\ wbm_word'.kind = "cpl_data" => wbm_word'.data \in Nat
         /\ cpl_state' \in {"L2P_IDLE", "L2P_HEADER", "L2P_DATA"}
         /\ wbm_req' \in BOOLEAN /\ wbm_valid' \in BOOLEAN /\ wbm_dframe' \in BOOLEAN
         /\ from_wb_fifo_rd' \in BOOLEAN
         /\ ~Answering => Answers' = Answers
         /\ Answering => /\ Shrunk(Answers, Answers') /\ Answers[1] = wbm_word.data
                         /\ Len(Answers) >= 1
<1>1. CplFsm(gnt, rd_rdy) /\ CplFifoRead
  BY DEF CompletionTick
<1>2. /\ Returned \in Seq(Nat) /\ from_wb_fifo \in Seq(Nat)
      /\ Kept \in Seq(Nat) /\ Taken \in Seq(Nat)
  BY AnswerParts
<1>3. Kept' = Kept /\ Taken' = Taken
  BY DEF Kept, Taken, wbVars
<1>4. Answering <=> cpl_state = "L2P_IDLE" /\ wbm_valid
  BY WhenAnswering
<1>5. /\ from_wb_fifo_dout \in Nat /\ from_wb_fifo_rd \in BOOLEAN /\ wbm_dframe \in BOOLEAN
      /\ wbm_valid \in BOOLEAN /\ wbm_req \in BOOLEAN /\ gnt \in BOOLEAN
  BY DEF OrderTypesOK, AInv, TypeOK
<1>a. Answers' = Queue(Returned', from_wb_fifo', Kept, Taken)
      /\ Answers = Queue(Returned, from_wb_fifo, Kept, Taken)
  BY <1>3 DEF Answers
<1>6. CASE CplIdle(rd_rdy)
  <2>1. /\ cpl_state = "L2P_IDLE" /\ wbm_valid' = FALSE /\ wbm_dframe' = FALSE /\ wbm_word' = CplZero
        /\ \/ /\ from_wb_fifo # << >> /\ wbm_req' = TRUE /\ from_wb_fifo_rd' = TRUE
              /\ cpl_state' = "L2P_HEADER"
           \/ /\ wbm_req' = FALSE /\ from_wb_fifo_rd' = from_wb_fifo_rd /\ cpl_state' = cpl_state
    BY <1>6 DEF CplIdle
  <2>2. from_wb_fifo_rd = FALSE
    BY <1>5, <2>1 DEF CplPlaces
  <2>3. from_wb_fifo' = from_wb_fifo /\ from_wb_fifo_dout' = from_wb_fifo_dout
    BY <1>1, <2>2 DEF CplFifoRead
  <2>4. CplPlaces'
    BY <2>1, <2>2, <2>3 DEF CplPlaces
  <2>5. wbm_word'.kind # "cpl_data"
    BY <2>1 DEF CplZero
  <2>6. Returned' = << >>
    BY <2>1, <2>2 DEF Returned
  <2>7. ~Answering => Returned = << >>
    BY <1>4, <2>1 DEF Returned
  <2>8. ASSUME Answering
        PROVE  /\ Shrunk(Answers, Answers') /\ Answers[1] = wbm_word.data
               /\ Len(Answers) >= 1
    <3>1. Returned = << wbm_word.data >> /\ wbm_word.data \in Nat
      BY <1>4, <2>8 DEF Returned, OrderTypesOK, CplPlaces
    <3> PICK v \in Nat : v = wbm_word.data
      BY <3>1
    <3>2. Shrunk(Answers, Queue(<< >>, from_wb_fifo, Kept, Taken)) /\ Answers[1] = v
      <4>1. Left(Queue(<< v >>, from_wb_fifo, Kept, Taken),
                 Queue(<< >>, from_wb_fifo, Kept, Taken), v)
        BY <1>2, QueueOut
      <4> QED BY <1>a, <3>1, <4>1 DEF Left
    <3>3. /\ Len(Answers) = Len(Returned) + Len(from_wb_fifo) + Len(Kept) + Len(Taken)
          /\ Len(from_wb_fifo) \in Nat /\ Len(Kept) \in Nat /\ Len(Taken) \in Nat
      BY <1>2, <1>a, QueueSeq
    <3>4. Len(Returned) = 1
      BY <3>1
    <3>5. Len(Answers) >= 1
      BY <3>3, <3>4
    <3> QED BY <1>a, <2>3, <2>6, <3>1, <3>2, <3>5
  <2>9. ~Answering => Answers' = Answers
    BY <1>a, <2>3, <2>6, <2>7
  <2> QED BY <1>2, <1>5, <2>1, <2>2, <2>3, <2>4, <2>5, <2>8, <2>9
<1>7. CASE CplHeaderSent(gnt)
  <2>1. /\ cpl_state = "L2P_HEADER" /\ from_wb_fifo_rd' = FALSE
        /\ \/ /\ gnt /\ wbm_req' = FALSE /\ wbm_word' = CplHeader(p2l_cid)
              /\ wbm_valid' = TRUE /\ wbm_dframe' = TRUE /\ cpl_state' = "L2P_DATA"
           \/ /\ wbm_req' = wbm_req /\ wbm_word' = wbm_word /\ wbm_valid' = wbm_valid
              /\ wbm_dframe' = wbm_dframe /\ cpl_state' = cpl_state
    BY <1>7 DEF CplHeaderSent
  <2>2. gnt => gnt'
    BY <1>5, <2>1 DEF Grant, CplPlaces
  <2>3. CplPlaces'
    <3>1. CASE cpl_state' = "L2P_DATA"
      <4>1. /\ gnt' /\ wbm_req' = FALSE /\ wbm_valid' = TRUE /\ wbm_dframe' = TRUE
            /\ wbm_word'.kind = "cpl"
        BY <2>1, <2>2, <3>1 DEF CplHeader
      <4> QED BY <2>1, <3>1, <4>1 DEF CplPlaces
    <3>2. CASE cpl_state' # "L2P_DATA"
      <4>1. cpl_state' = "L2P_HEADER" /\ wbm_req' = wbm_req /\ wbm_valid' = wbm_valid
        BY <2>1, <3>2
      <4> QED BY <2>1, <4>1 DEF CplPlaces
    <3> QED BY <3>1, <3>2
  <2>4. wbm_word'.kind = "cpl_data" => wbm_word'.data \in Nat
    BY <2>1 DEF CplHeader, OrderTypesOK
  <2>5. ~Answering
    BY <1>4, <2>1
  <2>6. Returned' = << from_wb_fifo_dout' >>
    BY <2>1 DEF Returned
  <2>7. CASE from_wb_fifo_rd
    <3>1. from_wb_fifo # << >> /\ Returned = << >>
      BY <2>1, <2>7 DEF CplPlaces, Returned
    <3>2. from_wb_fifo' = Tail(from_wb_fifo) /\ from_wb_fifo_dout' = Head(from_wb_fifo)
      BY <1>1, <2>7, <3>1 DEF CplFifoRead
    <3>3. Queue(<< Head(from_wb_fifo) >>, Tail(from_wb_fifo), Kept, Taken)
            = Queue(<< >>, from_wb_fifo, Kept, Taken)
      BY <1>2, <3>1, QueuePop
    <3>4. Answers' = Answers
      BY <1>a, <2>6, <3>1, <3>2, <3>3
    <3>5. from_wb_fifo' \in Seq(Nat) /\ from_wb_fifo_dout' \in Nat
      BY <1>2, <3>1, <3>2
    <3> QED BY <1>5, <2>1, <2>3, <2>4, <2>5, <3>4, <3>5
  <2>8. CASE ~from_wb_fifo_rd
    <3>1. from_wb_fifo' = from_wb_fifo /\ from_wb_fifo_dout' = from_wb_fifo_dout
      BY <1>1, <2>8 DEF CplFifoRead
    <3>2. Returned = << from_wb_fifo_dout >>
      BY <2>1, <2>8 DEF Returned
    <3>3. Answers' = Answers
      BY <1>a, <2>6, <3>1, <3>2
    <3> QED BY <1>2, <1>5, <2>1, <2>3, <2>4, <2>5, <3>1, <3>3
  <2> QED BY <2>7, <2>8
<1>8. CASE CplDataSent
  <2>1. /\ cpl_state = "L2P_DATA" /\ cpl_state' = "L2P_IDLE"
        /\ wbm_word' = CplData(from_wb_fifo_dout) /\ wbm_dframe' = FALSE
        /\ wbm_req' = wbm_req /\ wbm_valid' = wbm_valid /\ from_wb_fifo_rd' = from_wb_fifo_rd
    BY <1>8 DEF CplDataSent
  <2>2. gnt /\ wbm_valid /\ wbm_dframe /\ ~from_wb_fifo_rd /\ ~wbm_req
    BY <2>1 DEF CplPlaces
  <2>3. gnt'
    BY <2>2 DEF Grant
  <2>4. wbm_word'.kind = "cpl_data" /\ wbm_word'.data = from_wb_fifo_dout
    BY <2>1 DEF CplData
  <2>5. CplPlaces'
    BY <1>5, <2>1, <2>2, <2>3, <2>4 DEF CplPlaces
  <2>6. from_wb_fifo' = from_wb_fifo /\ from_wb_fifo_dout' = from_wb_fifo_dout
    BY <1>1, <2>2 DEF CplFifoRead
  <2>7. Returned' = << from_wb_fifo_dout >> /\ Returned = << from_wb_fifo_dout >>
    BY <2>1, <2>2, <2>4 DEF Returned
  <2>8. ~Answering
    BY <1>4, <2>1
  <2>9. Answers' = Answers
    BY <1>a, <2>6, <2>7
  <2> QED BY <1>2, <1>5, <2>1, <2>4, <2>5, <2>6, <2>8, <2>9
<1> QED BY <1>1, <1>6, <1>7, <1>8 DEF CplFsm

(* The slave performs the access x, the first of the line. *)
Performed(x) ==
    /\ Left(Ops, Ops', x) /\ Len(Ops) >= 1
    /\ IF x.rw THEN Answers' = Answers /\ regs' = [regs EXCEPT ![x.adr] = x.dat]
               ELSE Grown(Answers, Answers', regs[x.adr]) /\ regs' = regs

(* At a tick of wb_clk_i nothing changes the two lines unless the slave    *)
(* takes an access: the first, whose answer, if it is a read, comes last.  *)
LEMMA WbClkOrder ==
  ASSUME AInv, OrderTypesOK, BusPlaces, CplPlaces, NEW stall \in BOOLEAN, NEW ack \in BOOLEAN,
         WbClk(stall, ack)
  PROVE  /\ BusPlaces' /\ slave' \in [busy : BOOLEAN, dat : Nat] /\ from_wb_fifo' \in Seq(Nat)
         /\ \/ Ops' = Ops /\ Answers' = Answers /\ regs' = regs
            \/ \E x \in Requests : Performed(x)
<1> DEFINE take == wb_stb /\ wb_cyc /\ ~stall /\ ~slave.busy
           now == IF take THEN [busy |-> TRUE, dat |-> regs[wb_adr]] ELSE slave
<1>1. /\ WbTick(stall, ack, now.dat) /\ (ack => now.busy)
      /\ slave' = (IF ack THEN NoAccess ELSE now)
      /\ regs' = (IF take /\ wb_we THEN [regs EXCEPT ![wb_adr] = wb_dat] ELSE regs)
      /\ UNCHANGED <<decodeVars, cplVars, entryVars, hostVars>>
  BY DEF WbClk
<1>2. /\ wb_adr \in WbAddrs /\ wb_dat \in Nat /\ regs \in [WbAddrs -> Nat] /\ regs[wb_adr] \in Nat
      /\ wb_we \in BOOLEAN /\ wbm_fifo_dout \in Requests /\ from_wb_fifo_din \in Nat
      /\ slave \in [busy : BOOLEAN, dat : Nat] /\ from_wb_fifo_wr \in BOOLEAN
      /\ wb_state \in {"WB_IDLE", "WB_READ_FIFO", "WB_CYCLE", "WB_WAIT_ACK"}
  BY DEF AInv, TypeOK, WbMasterTypeOK, SourcesOK, OrderTypesOK
<1>3. now \in [busy : BOOLEAN, dat : Nat]
  BY <1>2
<1>4. slave' \in [busy : BOOLEAN, dat : Nat]
  BY <1>1, <1>3 DEF NoAccess
<1>5. /\ Current \in Seq(Requests) /\ wbm_fifo \in Seq(Requests)
      /\ Entry \in Seq(Requests) /\ Shown \in Seq(Requests)
  BY OpsParts
<1>6. /\ Returned \in Seq(Nat) /\ from_wb_fifo \in Seq(Nat)
      /\ Kept \in Seq(Nat) /\ Taken \in Seq(Nat)
  BY AnswerParts
<1>7. Entry' = Entry /\ Shown' = Shown /\ Returned' = Returned
  BY <1>1 DEF Entry, Shown, Returned, entryVars, decodeVars, cplVars, WriteShown, ReadShown, WbAddr
<1>8. from_wb_fifo' = from_wb_fifo \o Kept
  <2>1. CASE from_wb_fifo_wr
    <3>1. from_wb_fifo' = Append(from_wb_fifo, from_wb_fifo_din) /\ Kept = << from_wb_fifo_din >>
      BY <1>1, <2>1 DEF WbTick, Kept
    <3> QED BY <1>2, <1>6, <3>1, AppendIsConcat
  <2>2. CASE ~from_wb_fifo_wr
    <3>1. from_wb_fifo' = from_wb_fifo /\ Kept = << >>
      BY <1>1, <2>2 DEF WbTick, Kept
    <3> QED BY <1>6, <3>1, ConcatEmptySeq
  <2> QED BY <2>1, <2>2
<1>9. from_wb_fifo' \in Seq(Nat)
  BY <1>6, <1>8
<1>a. /\ Ops' = Queue(Current', wbm_fifo', Entry, Shown)
      /\ Ops = Queue(Current, wbm_fifo, Entry, Shown)
      /\ Answers' = Queue(Returned, from_wb_fifo', Kept', Taken')
      /\ Answers = Queue(Returned, from_wb_fifo, Kept, Taken)
  BY <1>7 DEF Ops, Answers
<1>b. ~wbm_fifo_rd => wbm_fifo' = wbm_fifo /\ wbm_fifo_dout' = wbm_fifo_dout
  BY <1>1 DEF WbTick
<1>c. ~from_wb_fifo_wr => from_wb_fifo' = from_wb_fifo /\ Kept = << >>
  BY <1>1 DEF WbTick, Kept
<1>d. ~slave.busy => Taken = << >>
  BY DEF Taken
<1>e. ~take => /\ slave' = IF ack THEN NoAccess ELSE slave
               /\ ack => slave.busy
               /\ regs' = regs
  BY <1>1
<1> HIDE DEF take, now
<1>10. CASE WbIdle
  <2>1. /\ wb_state = "WB_IDLE" /\ from_wb_fifo_wr' = FALSE /\ wb_cyc' = FALSE /\ wb_stb' = FALSE
        /\ \/ wbm_fifo # << >> /\ wbm_fifo_rd' = TRUE /\ wb_state' = "WB_READ_FIFO"
           \/ wbm_fifo_rd' = wbm_fifo_rd /\ wb_state' = wb_state
    BY <1>10 DEF WbIdle
  <2>2. wb_stb = FALSE /\ ~slave.busy /\ wbm_fifo_rd = FALSE
    BY <1>2, <2>1 DEF BusPlaces
  <2>3. ~take
    BY <2>2 DEF take
  <2>4. ~ack /\ slave' = slave /\ regs' = regs
    BY <1>e, <2>2, <2>3
  <2>5. wbm_fifo' = wbm_fifo
    BY <1>b, <2>2
  <2>6. BusPlaces'
    BY <2>1, <2>2, <2>4, <2>5 DEF BusPlaces
  <2>7. Current' = << >> /\ Current = << >>
    BY <2>1, <2>2 DEF Current
  <2>8. Ops' = Ops
    BY <1>a, <2>5, <2>7
  <2>9. Kept' = << >> /\ Taken' = << >> /\ Taken = << >>
    BY <1>d, <2>1, <2>2, <2>4 DEF Kept, Taken
  <2>10. Queue(Returned, from_wb_fifo \o Kept, << >>, << >>)
           = Queue(Returned, from_wb_fifo, Kept, << >>)
    <3>1. << >> \in Seq(Nat)
      OBVIOUS
    <3>2. PICK e \in Seq(Nat) : e = << >>
      BY <3>1
    <3>3. Queue(Returned, from_wb_fifo \o Kept, e, << >>) = Queue(Returned, from_wb_fifo, Kept, e)
      BY <1>6, QueueSame
    <3> QED BY <3>2, <3>3, Zenon
  <2>11. Answers' = Answers
    BY <1>8, <1>a, <2>9, <2>10
  <2> QED BY <1>4, <1>9, <2>4, <2>6, <2>8, <2>11
<1>11. CASE WbReadFifo
  <2>1. /\ wb_state = "WB_READ_FIFO" /\ wbm_fifo_rd' = FALSE /\ wb_state' = "WB_CYCLE"
        /\ wb_cyc' = wb_cyc /\ wb_stb' = wb_stb /\ wb_we' = wb_we
        /\ from_wb_fifo_wr' = from_wb_fifo_wr /\ from_wb_fifo_din' = from_wb_fifo_din
    BY <1>11 DEF WbReadFifo
  <2>2. /\ wb_stb = FALSE /\ wb_cyc = FALSE /\ ~slave.busy /\ wbm_fifo_rd /\ wbm_fifo # << >>
        /\ from_wb_fifo_wr = FALSE
    BY <1>2, <2>1 DEF BusPlaces
  <2>3. ~take
    BY <2>2 DEF take
  <2>4. ~ack /\ slave' = slave /\ regs' = regs
    BY <1>e, <2>2, <2>3
  <2>5. wbm_fifo' = Tail(wbm_fifo) /\ wbm_fifo_dout' = Head(wbm_fifo)
    BY <1>1, <2>2 DEF WbTick
  <2>6. BusPlaces'
    BY <2>1, <2>2, <2>4 DEF BusPlaces
  <2>7. Current' = << Head(wbm_fifo) >> /\ Current = << >>
    BY <2>1, <2>2, <2>5 DEF Current
  <2>8. Queue(<< Head(wbm_fifo) >>, Tail(wbm_fifo), Entry, Shown)
          = Queue(<< >>, wbm_fifo, Entry, Shown)
    BY <1>5, <2>2, QueuePop
  <2>9. Ops' = Ops
    BY <1>a, <2>5, <2>7, <2>8
  <2>10. Kept' = << >> /\ Kept = << >> /\ Taken' = << >> /\ Taken = << >>
    BY <2>1, <2>2, <2>4 DEF Kept, Taken
  <2>11. Answers' = Answers
    BY <1>a, <1>c, <2>2, <2>10
  <2> QED BY <1>4, <1>9, <2>4, <2>6, <2>9, <2>11
<1>12. CASE WbCycle
  <2>1. /\ wb_state = "WB_CYCLE" /\ wb_cyc' = TRUE /\ wb_stb' = TRUE /\ wb_we' = wbm_fifo_dout.rw
        /\ wb_adr' = wbm_fifo_dout.adr /\ wb_dat' = wbm_fifo_dout.dat
        /\ wb_state' = "WB_WAIT_ACK" /\ wbm_fifo_rd' = wbm_fifo_rd
        /\ from_wb_fifo_din' = from_wb_fifo_din /\ from_wb_fifo_wr' = from_wb_fifo_wr
    BY <1>12 DEF WbCycle
  <2>2. wb_stb = FALSE /\ ~slave.busy /\ wbm_fifo_rd = FALSE /\ from_wb_fifo_wr = FALSE
    BY <1>2, <2>1 DEF BusPlaces
  <2>3. ~take
    BY <2>2 DEF take
  <2>4. ~ack /\ slave' = slave /\ regs' = regs
    BY <1>e, <2>2, <2>3
  <2>5. wbm_fifo' = wbm_fifo
    BY <1>b, <2>2
  <2>6. BusPlaces'
    BY <2>1, <2>2, <2>4 DEF BusPlaces
  <2>7. [rw |-> wbm_fifo_dout.rw, adr |-> wbm_fifo_dout.adr, dat |-> wbm_fifo_dout.dat]
          = wbm_fifo_dout
    BY <1>2 DEF Requests
  <2>8. Current' = << wbm_fifo_dout >> /\ Current = << wbm_fifo_dout >>
    BY <2>1, <2>7 DEF Current
  <2>9. Ops' = Ops
    BY <1>a, <2>5, <2>8
  <2>10. Kept' = << >> /\ Kept = << >> /\ Taken' = << >> /\ Taken = << >>
    BY <2>1, <2>2, <2>4 DEF Kept, Taken
  <2>11. Answers' = Answers
    BY <1>a, <1>c, <2>2, <2>10
  <2> QED BY <1>4, <1>9, <2>4, <2>6, <2>9, <2>11
<1>13. CASE WbWaitAck(stall, ack, now.dat)
  <2>1. /\ wb_state = "WB_WAIT_ACK" /\ wb_stb' = (wb_stb /\ stall)
        /\ wb_cyc' = (wb_cyc /\ ~ack)
        /\ wb_state' = IF ack THEN "WB_IDLE" ELSE wb_state
        /\ wbm_fifo_rd' = wbm_fifo_rd /\ wb_we' = wb_we /\ wb_adr' = wb_adr /\ wb_dat' = wb_dat
    BY <1>13 DEF WbWaitAck, StrobeNext
  <2>2. /\ ack /\ ~wb_we => from_wb_fifo_din' = now.dat /\ from_wb_fifo_wr' = TRUE
        /\ ~(ack /\ ~wb_we) =>
             from_wb_fifo_wr' = from_wb_fifo_wr /\ from_wb_fifo_din' = from_wb_fifo_din
    BY <1>13 DEF WbWaitAck, AnswerKept
  <2>3. /\ wb_stb = ~slave.busy /\ wb_cyc = TRUE /\ wbm_fifo_rd = FALSE /\ from_wb_fifo_wr = FALSE
    BY <1>2, <2>1 DEF BusPlaces
  <2>4. wbm_fifo' = wbm_fifo /\ from_wb_fifo' = from_wb_fifo /\ Kept = << >>
    BY <1>b, <1>c, <2>3
  <2>5. take <=> ~slave.busy /\ ~stall
    BY <2>3 DEF take
  <2>6. slave'.busy => ~ack
    BY <1>1 DEF NoAccess
  <2>7. now.busy <=> (slave.busy \/ take)
    BY DEF now
  <2>8. wb_stb' = (wb_state' = "WB_WAIT_ACK" /\ ~slave'.busy)
    <3>1. CASE ack
      <4>1. slave.busy \/ ~stall
        BY <1>1, <2>5, <2>7, <3>1
      <4> QED BY <1>1, <2>1, <2>3, <3>1, <4>1
    <3>2. CASE ~ack
      <4>1. slave' = now
        BY <1>1, <3>2
      <4>2. wb_stb' = (~slave.busy /\ stall) /\ wb_state' = "WB_WAIT_ACK"
        BY <2>1, <2>3, <3>2
      <4>3. slave'.busy <=> (slave.busy \/ ~stall)
        BY <2>5, <2>7, <4>1
      <4> QED BY <4>2, <4>3
    <3> QED BY <3>1, <3>2
  <2>9. BusPlaces'
    <3>1. wb_cyc' = (wb_state' = "WB_WAIT_ACK")
      BY <2>1, <2>3
    <3>2. slave'.busy => wb_state' = "WB_WAIT_ACK"
      BY <2>1, <2>6
    <3>3. wbm_fifo_rd' = (wb_state' = "WB_READ_FIFO") /\ ~wbm_fifo_rd'
      BY <2>1, <2>3
    <3>4. from_wb_fifo_wr' => wb_state' = "WB_IDLE"
      BY <2>1, <2>2, <2>3
    <3> QED BY <2>8, <3>1, <3>2, <3>3, <3>4 DEF BusPlaces
  <2>10. CASE ~take
    <3>1. /\ slave' = (IF ack THEN NoAccess ELSE slave) /\ (ack => slave.busy) /\ regs' = regs
          /\ now = slave
      BY <1>e, <2>10 DEF now
    <3>2. wb_stb' = wb_stb
      BY <2>1, <2>3, <2>5, <2>10
    <3>3. Current' = Current
      <4>1. wb_state' # "WB_CYCLE" /\ wb_state # "WB_CYCLE"
        BY <2>1
      <4> QED BY <2>1, <3>2, <4>1 DEF Current
    <3>4. Ops' = Ops
      BY <1>a, <2>4, <3>3
    <3>5. Answers' = Answers
      <4>1. CASE ack /\ ~wb_we
        <5>1. Taken = << slave.dat >> /\ Kept' = << slave.dat >> /\ Taken' = << >>
          BY <2>2, <3>1, <4>1 DEF Taken, Kept, NoAccess
        <5>2. << slave.dat >> \in Seq(Nat)
          BY <1>2
        <5>3. Queue(Returned, from_wb_fifo, << >>, << slave.dat >>)
                = Queue(Returned, from_wb_fifo, << slave.dat >>, << >>)
          BY <1>6, <5>2, QueueShift
        <5> QED BY <1>a, <2>4, <5>1, <5>3
      <4>2. CASE ~(ack /\ ~wb_we)
        <5>1. Kept' = << >>
          BY <2>2, <2>3, <4>2 DEF Kept
        <5>2. Taken' = Taken
          BY <2>1, <3>1, <4>2 DEF Taken, NoAccess
        <5> QED BY <1>a, <2>4, <5>1, <5>2
      <4> QED BY <4>1, <4>2
    <3> QED BY <1>4, <1>9, <2>9, <3>1, <3>4, <3>5
  <2>11. CASE take
    <3> DEFINE x == [rw |-> wb_we, adr |-> wb_adr, dat |-> wb_dat]
    <3>1. x \in Requests /\ x.rw = wb_we /\ x.adr = wb_adr /\ x.dat = wb_dat
      BY <1>2 DEF Requests
    <3>2. Current = << x >>
      BY <2>1, <2>3, <2>5, <2>11 DEF Current
    <3> HIDE DEF x
    <3>3. Current' = << >>
      <4>1. wb_state' # "WB_CYCLE" /\ wb_stb' = FALSE
        BY <2>1, <2>5, <2>11
      <4> QED BY <4>1 DEF Current
    <3>4. Left(Queue(<< x >>, wbm_fifo, Entry, Shown), Queue(<< >>, wbm_fifo, Entry, Shown), x)
      BY <1>5, <3>1, QueueOut
    <3>5. Left(Ops, Ops', x)
      BY <1>a, <2>4, <3>2, <3>3, <3>4
    <3>6. Len(Ops) >= 1
      <4>1. /\ Len(Queue(Current, wbm_fifo, Entry, Shown))
                  = Len(Current) + Len(wbm_fifo) + Len(Entry) + Len(Shown)
            /\ Len(wbm_fifo) \in Nat /\ Len(Entry) \in Nat /\ Len(Shown) \in Nat
        BY <1>5, QueueSeq
      <4>2. Len(Current) = 1
        BY <3>2
      <4> QED BY <1>a, <4>1, <4>2
    <3>7. now = [busy |-> TRUE, dat |-> regs[wb_adr]]
      BY <2>11 DEF now
    <3>8. Taken = << >>
      BY <1>d, <2>5, <2>11
    <3>9. regs' = (IF wb_we THEN [regs EXCEPT ![wb_adr] = wb_dat] ELSE regs)
      BY <1>1, <2>11
    <3>10. CASE wb_we
      <4>1. Kept' = << >> /\ Taken' = << >>
        BY <2>1, <2>2, <2>3, <3>10 DEF Kept, Taken
      <4>2. Answers' = Answers
        BY <1>a, <2>4, <3>8, <4>1
      <4>3. Performed(x)
        BY <3>1, <3>5, <3>6, <3>9, <3>10, <4>2 DEF Performed
      <4> QED BY <1>4, <1>9, <2>9, <3>1, <4>3
    <3>11. CASE ~wb_we
      <4>1. Grown(Queue(Returned, from_wb_fifo, << >>, << >>),
                  Queue(Returned, from_wb_fifo, << >>, << regs[wb_adr] >>), regs[wb_adr])
        BY <1>2, <1>6, QueueGrows
      <4>2. CASE ack
        <5>1. Kept' = << regs[wb_adr] >> /\ Taken' = << >>
          BY <1>1, <2>2, <3>7, <3>11, <4>2 DEF Kept, Taken, NoAccess
        <5>2. << regs[wb_adr] >> \in Seq(Nat)
          BY <1>2
        <5>3. Queue(Returned, from_wb_fifo, << >>, << regs[wb_adr] >>)
                = Queue(Returned, from_wb_fifo, << regs[wb_adr] >>, << >>)
          BY <1>6, <5>2, QueueShift
        <5>4. Grown(Answers, Answers', regs[wb_adr])
          BY <1>a, <2>4, <3>8, <4>1, <5>1, <5>3
        <5>5. Performed(x)
          BY <3>1, <3>5, <3>6, <3>9, <3>11, <5>4 DEF Performed
        <5> QED BY <1>4, <1>9, <2>9, <3>1, <5>5
      <4>3. CASE ~ack
        <5>1. Kept' = << >> /\ Taken' = << regs[wb_adr] >>
          BY <1>1, <2>1, <2>2, <2>3, <3>7, <3>11, <4>3 DEF Kept, Taken
        <5>4. Grown(Answers, Answers', regs[wb_adr])
          BY <1>a, <2>4, <3>8, <4>1, <5>1
        <5>5. Performed(x)
          BY <3>1, <3>5, <3>6, <3>9, <3>11, <5>4 DEF Performed
        <5> QED BY <1>4, <1>9, <2>9, <3>1, <5>5
      <4> QED BY <4>2, <4>3
    <3> QED BY <3>10, <3>11
  <2> QED BY <2>10, <2>11
<1> QED
  <2>1. WbIdle \/ WbReadFifo \/ WbCycle \/ WbWaitAck(stall, ack, now.dat)
    BY <1>1 DEF WbTick
  <2> QED BY <1>10, <1>11, <1>12, <1>13, <2>1

(* The accesses and the answers on their way are the ones the host is      *)
(* owed: mem is what the registers will hold, the answers under way belong *)
(* to the oldest reads, the reads on the line to the others.               *)
Ordered ==
    /\ \A a \in WbAddrs : Value(Ops, regs, Len(Ops), a, mem[a])
    /\ Len(Answers) <= Len(owed)
    /\ \A i \in 1 .. Len(Answers) : owed[i].dat = Answers[i]
    /\ Due(Ops, regs, owed, Len(Answers))

(* The identifier of a read stays the one p_pkt_gen puts into the next     *)
(* completion until another header comes.                                  *)
IdsKept ==
    /\ tx.phase = "addr" => IF hdr_strobe THEN hdr_cid = tx.cid ELSE p2l_cid = tx.cid
    /\ \A i \in 1 .. Len(owed) : ~owed[i].passed =>
          p2l_cid = owed[i].cid /\ (hdr_strobe => hdr_cid = owed[i].cid)
    /\ owed # << >> /\ ~owed[1].passed =>
          /\ cpl_state = "L2P_DATA" => wbm_word.cid = owed[1].cid
          /\ cpl_state = "L2P_IDLE" /\ wbm_valid => rx_cid = owed[1].cid

(* The inductive invariant behind AnswersExact. *)
OrderInv == AInv /\ OrderTypesOK /\ Sending /\ BusPlaces /\ CplPlaces /\ Ordered /\ IdsKept

(* One if an answer leaves at this tick. *)
Gone == IF Answering THEN 1 ELSE 0

(* A completion under way has a word to carry. *)
LEMMA SomeAnswer ==
  ASSUME AInv, OrderTypesOK, CplPlaces, cpl_state # "L2P_IDLE" \/ wbm_valid
  PROVE  Len(Answers) >= 1
<1>1. /\ Returned \in Seq(Nat) /\ from_wb_fifo \in Seq(Nat)
      /\ Kept \in Seq(Nat) /\ Taken \in Seq(Nat)
  BY AnswerParts
<1>2. /\ Len(Answers) = Len(Returned) + Len(from_wb_fifo) + Len(Kept) + Len(Taken)
      /\ Len(Returned) \in Nat /\ Len(from_wb_fifo) \in Nat /\ Len(Kept) \in Nat /\ Len(Taken) \in Nat
  BY <1>1, QueueSeq DEF Answers
<1>3. Len(Returned) >= 1 \/ Len(from_wb_fifo) >= 1
  <2>1. CASE from_wb_fifo_rd
    <3>1. from_wb_fifo # << >>
      BY <2>1 DEF CplPlaces
    <3> QED BY <1>1, <3>1
  <2>2. CASE ~from_wb_fifo_rd
    <3>1. \E v : Returned = << v >>
      BY <2>2 DEF Returned
    <3>2. Len(Returned) = 1
      BY <3>1
    <3> QED BY <3>2
  <2> QED BY <2>1, <2>2
<1> QED BY <1>2, <1>3

(* What the host is owed after a word to and one from the core. *)
LEMMA OweStep ==
  ASSUME AInv, OrderTypesOK, CplPlaces, Ordered, NEW des \in Words, Owe(des)
  PROVE  /\ owed' \in Seq(Owings) /\ Gone <= Len(owed)
         /\ ~ReadSent(des) =>
              /\ Len(owed') = Len(owed) - Gone
              /\ \A i \in 1 .. Len(owed) - Gone :
                   /\ owed'[i].dat = owed[i + Gone].dat /\ owed'[i].cid = owed[i + Gone].cid
                   /\ ~owed'[i].passed =>
                        /\ ~owed[i + Gone].passed
                        /\ tx.phase = "none" /\ des.valid => des.word.cid = owed[i + Gone].cid
         /\ ReadSent(des) =>
              \E rest \in Seq(Owings) :
                /\ Len(rest) = Len(owed) - Gone
                /\ \A i \in 1 .. Len(rest) : rest[i] = owed[i + Gone]
                /\ Grown(rest, owed', [cid |-> tx.cid, dat |-> mem[WbAddr(tx)], passed |-> FALSE])
<1> DEFINE rest == IF Answering /\ owed # << >> THEN Tail(owed) ELSE owed
           read == [cid |-> tx.cid, dat |-> mem[WbAddr(tx)], passed |-> FALSE]
           marked == [i \in DOMAIN rest |->
                        [rest[i] EXCEPT !.passed = @ \/ des.word.cid # rest[i].cid]]
<1>1. owed' = IF tx.phase = "none" /\ des.valid THEN marked
              ELSE IF tx.phase = "addr" /\ tx.type = "mrd" /\ des.valid THEN Append(rest, read)
              ELSE rest
  BY DEF Owe
<1>2. owed \in Seq(Owings) /\ Len(owed) \in Nat
  BY DEF OrderTypesOK, Owings
<1>3. Answering => owed # << >> /\ Len(owed) >= 1
  <2> SUFFICES ASSUME Answering PROVE owed # << >> /\ Len(owed) >= 1
    OBVIOUS
  <2>1. Len(Answers) >= 1
    BY WhenAnswering, SomeAnswer
  <2>2. Len(Answers) \in Nat
    BY AnswerParts
  <2>3. Len(owed) >= 1
    BY <1>2, <2>1, <2>2 DEF Ordered
  <2> QED BY <1>2, <2>3
<1>4. /\ rest \in Seq(Owings) /\ Len(rest) = Len(owed) - Gone /\ Len(rest) \in Nat
      /\ \A i \in 1 .. Len(rest) : rest[i] = owed[i + Gone]
  <2>1. CASE Answering
    <3>1. rest = Tail(owed) /\ Gone = 1
      BY <1>3, <2>1 DEF Gone
    <3>2. /\ Tail(owed) \in Seq(Owings) /\ Len(Tail(owed)) = Len(owed) - 1
          /\ \A i \in 1 .. Len(Tail(owed)) : Tail(owed)[i] = owed[i + 1]
      BY <1>2, <1>3, <2>1, HeadTailProperties
    <3>3. Len(Tail(owed)) \in Nat
      BY <3>2
    <3> QED BY <3>1, <3>2, <3>3
  <2>2. CASE ~Answering
    <3>1. rest = owed /\ Gone = 0
      BY <2>2 DEF Gone
    <3> QED BY <1>2, <3>1
  <2> QED BY <2>1, <2>2
<1>5. Gone <= Len(owed)
  BY <1>2, <1>3 DEF Gone
<1>6. read \in Owings
  <2>1. tx.cid \in 0 .. 3 /\ tx.bar \in 0 .. 1 /\ tx.adr \in 0 .. BarSpan - 1
    BY DEF AInv, TxOK
  <2>2. mem[WbAddr(tx)] \in Nat
    BY <2>1, WbAddrOK DEF OrderTypesOK
  <2> QED BY <2>1, <2>2 DEF Owings
<1>7. ASSUME tx.phase = "none" /\ des.valid
      PROVE  /\ owed' \in Seq(Owings) /\ Len(owed') = Len(rest)
             /\ \A i \in 1 .. Len(rest) :
                   /\ owed'[i].dat = rest[i].dat /\ owed'[i].cid = rest[i].cid
                   /\ ~owed'[i].passed => ~rest[i].passed /\ des.word.cid = rest[i].cid
  <2>1. owed' = marked
    BY <1>1, <1>7
  <2> HIDE DEF rest
  <2>2. DOMAIN rest = 1 .. Len(rest)
    BY <1>4
  <2>3. ASSUME NEW i \in 1 .. Len(rest)
        PROVE  /\ marked[i] \in Owings
               /\ marked[i].dat = rest[i].dat /\ marked[i].cid = rest[i].cid
               /\ ~marked[i].passed => ~rest[i].passed /\ des.word.cid = rest[i].cid
    <3>1. rest[i] \in Owings
      BY <1>4
    <3>2. marked[i] = [rest[i] EXCEPT !.passed = rest[i].passed \/ des.word.cid # rest[i].cid]
      BY <2>2
    <3> HIDE DEF marked
    <3>3. PICK b \in BOOLEAN : b <=> (rest[i].passed \/ des.word.cid # rest[i].cid)
      OBVIOUS
    <3>4. marked[i] = [rest[i] EXCEPT !.passed = b]
      <4>1. (rest[i].passed \/ des.word.cid # rest[i].cid) = b
        BY <3>3, Zenon
      <4> QED BY <3>2, <4>1
    <3>5. marked[i].passed = b
      BY <3>1, <3>4 DEF Owings
    <3> QED BY <3>1, <3>3, <3>4, <3>5 DEF Owings
  <2>4. DOMAIN marked = 1 .. Len(rest)
    BY <2>2
  <2>5. marked = [i \in 1 .. Len(rest) |-> marked[i]]
    BY <2>2
  <2> HIDE DEF marked
  <2>6. marked \in [1 .. Len(rest) -> Owings]
    BY <2>3, <2>5
  <2>7. marked \in Seq(Owings) /\ Len(marked) = Len(rest)
    BY <1>4, <2>6
  <2> QED BY <2>1, <2>3, <2>7
<1>8. CASE tx.phase = "none" /\ des.valid
  <2>1. ~ReadSent(des)
    BY <1>8 DEF ReadSent
  <2> HIDE DEF rest, marked, read
  <2> QED BY <1>4, <1>5, <1>7, <1>8, <2>1
<1>9. CASE ReadSent(des)
  <2>1. owed' = Append(rest, read)
    BY <1>1, <1>9 DEF ReadSent
  <2> HIDE DEF rest, marked
  <2>2. /\ Append(rest, read) \in Seq(Owings) /\ Len(Append(rest, read)) = Len(rest) + 1
        /\ \A i \in 1 .. Len(rest) : Append(rest, read)[i] = rest[i]
        /\ Append(rest, read)[Len(rest) + 1] = read
    <3> HIDE DEF read
    <3> QED BY <1>4, <1>6, AppendProperties
  <2>3. Grown(rest, owed', read)
    BY <2>1, <2>2 DEF Grown
  <2> QED BY <1>4, <1>5, <1>9, <2>1, <2>2, <2>3
<1>10. CASE ~(tx.phase = "none" /\ des.valid) /\ ~ReadSent(des)
  <2>1. owed' = rest
    BY <1>1, <1>10 DEF ReadSent
  <2> HIDE DEF rest, marked, read
  <2> QED BY <1>4, <1>5, <1>10, <2>1
<1> QED BY <1>8, <1>9, <1>10

(* A tick of wb_clk_i keeps the order. *)
LEMMA WbClkOrdered ==
  ASSUME OrderInv, NEW stall \in BOOLEAN, NEW ack \in BOOLEAN, WbClk(stall, ack)
  PROVE  Ordered'
<1>1. mem' = mem /\ owed' = owed
  BY DEF WbClk, hostVars
<1>2. \/ Ops' = Ops /\ Answers' = Answers /\ regs' = regs
      \/ \E x \in Requests : Performed(x)
  BY WbClkOrder DEF OrderInv
<1>3. CASE Ops' = Ops /\ Answers' = Answers /\ regs' = regs
  BY <1>1, <1>3 DEF OrderInv, Ordered
<1>4. ASSUME NEW x \in Requests, Performed(x) PROVE Ordered'
  <2>1. PICK q, p, r, s, o, m, w, z : /\ q = Ops /\ p = Ops' /\ r = regs /\ s = regs' /\ o = owed
                                      /\ m = Len(w) /\ w = Answers /\ z = Answers'
    OBVIOUS
  <2>2. q \in Seq(Requests) /\ Len(q) \in Nat
    BY <2>1, OpsParts DEF OrderInv
  <2>3. m \in Nat
    BY <2>1, AnswerParts DEF OrderInv
  <2>4. /\ Len(o) \in Nat /\ m <= Len(o) /\ Due(q, r, o, m)
        /\ \A a \in WbAddrs : Value(q, r, Len(q), a, mem[a])
        /\ \A i \in 1 .. m : o[i].dat = w[i]
    BY <2>1 DEF OrderInv, OrderTypesOK, Ordered
  <2>5. Shrunk(q, p) /\ q[1] = x /\ Len(q) >= 1
    BY <1>4, <2>1 DEF Performed, Left
  <2>6. r \in [WbAddrs -> Nat] /\ x.adr \in WbAddrs /\ x.rw \in BOOLEAN
    BY <2>1 DEF OrderInv, AInv, SourcesOK, Requests
  <2>7. \A a \in WbAddrs : s[a] = IF WritesTo(q[1], a) THEN q[1].dat ELSE r[a]
    <3>1. s = IF x.rw THEN [r EXCEPT ![x.adr] = x.dat] ELSE r
      BY <1>4, <2>1 DEF Performed
    <3> QED BY <2>5, <2>6, <3>1 DEF WritesTo
  <2>8. \A i \in 1 .. Len(q) : q[i].adr \in WbAddrs
    <3> SUFFICES ASSUME NEW i \in 1 .. Len(q) PROVE q[i].adr \in WbAddrs
      OBVIOUS
    <3>1. q[i] \in Requests
      BY <2>2
    <3> QED BY <3>1 DEF Requests
  <2>9. Len(p) = Len(q) - 1
    BY <2>5 DEF Shrunk
  <2>10. \A a \in WbAddrs : Value(p, s, Len(p), a, mem[a])
    <3> SUFFICES ASSUME NEW a \in WbAddrs PROVE Value(p, s, Len(p), a, mem[a])
      OBVIOUS
    <3>1. PICK v : v = mem[a]
      OBVIOUS
    <3>2. Value(q, r, Len(q), a, v) /\ s[a] = IF WritesTo(q[1], a) THEN q[1].dat ELSE r[a]
      BY <2>4, <2>7, <3>1
    <3>3. Len(q) \in 1 .. Len(q)
      BY <2>2, <2>5
    <3>4. Value(p, s, Len(q) - 1, a, v)
      BY <2>2, <2>5, <3>2, <3>3, ValueDone
    <3> QED BY <2>9, <3>1, <3>4
  <2>11. CASE x.rw
    <3>1. z = w
      BY <1>4, <2>1, <2>11 DEF Performed
    <3>2. q[1].rw /\ Len(q) > 0
      BY <2>2, <2>5, <2>11
    <3>3. Due(p, s, o, m)
      BY <2>2, <2>4, <2>5, <2>7, <2>8, <3>2, DueWritten
    <3>4. /\ Ops' = p /\ regs' = s /\ owed' = o /\ Len(z) = m
          /\ Len(z) <= Len(owed') /\ \A i \in 1 .. m : owed'[i].dat = z[i]
      BY <1>1, <2>1, <2>4, <3>1
    <3> QED BY <1>1, <2>1, <2>10, <3>3, <3>4 DEF Ordered
  <2>12. CASE ~x.rw
    <3>1. s = r /\ Len(z) = m + 1 /\ z[m + 1] = r[x.adr]
          /\ \A i \in 1 .. m : z[i] = w[i]
      BY <1>4, <2>1, <2>12 DEF Performed, Grown
    <3>2. ~q[1].rw /\ Len(q) > 0
      BY <2>2, <2>5, <2>12
    <3>3. m + 1 <= Len(o) /\ o[m + 1].dat = r[q[1].adr] /\ Due(p, r, o, m + 1)
      BY <2>2, <2>3, <2>4, <2>5, <3>2, DueTaken
    <3>4. \A i \in 1 .. m + 1 : o[i].dat = z[i]
      <4> SUFFICES ASSUME NEW i \in 1 .. m + 1 PROVE o[i].dat = z[i]
        OBVIOUS
      <4>1. CASE i = m + 1
        BY <2>5, <3>1, <3>3, <4>1
      <4>2. CASE i # m + 1
        <5>1. i \in 1 .. m
          BY <2>3, <4>2
        <5>2. o[i].dat = w[i] /\ z[i] = w[i]
          BY <2>4, <3>1, <5>1
        <5> QED BY <5>2
      <4> QED BY <4>1, <4>2
    <3> QED BY <1>1, <2>1, <2>10, <3>1, <3>3, <3>4 DEF Ordered
  <2> QED BY <2>6, <2>11, <2>12
<1> QED BY <1>2, <1>3, <1>4

(* A tick of clk_i keeps the order. *)
LEMMA ClkOrdered ==
  ASSUME OrderInv, AInv', NEW des \in Words, NEW others \in BOOLEAN, NEW rd_rdy \in BOOLEAN,
         Send(des), Clk(des, others, rd_rdy)
  PROVE  Ordered'
<1>1. /\ DecodeTick(des) /\ Owe(des) /\ Grant(others)
      /\ CompletionTick(gnt, rd_rdy, hdr_strobe, hdr_cid)
      /\ UNCHANGED wbVars /\ slave' = slave /\ regs' = regs
  BY DEF Clk
<1>2. \/ ~WriteSent(des) /\ ~ReadSent(des) /\ Ops' = Ops
      \/ /\ WriteSent(des)
         /\ \E x \in Requests : /\ Grown(Ops, Ops', x) /\ x.rw /\ x.adr = WbAddr(tx)
                                /\ mem' = [mem EXCEPT ![WbAddr(tx)] = x.dat]
      \/ /\ ReadSent(des)
         /\ \E x \in Requests : Grown(Ops, Ops', x) /\ ~x.rw /\ x.adr = WbAddr(tx)
  BY ClkOps DEF OrderInv
<1>3. ~WriteSent(des) => mem' = mem
  BY <1>1, SendStep DEF OrderInv
<1>4. /\ ~Answering => Answers' = Answers
      /\ Answering => Shrunk(Answers, Answers') /\ Answers[1] = wbm_word.data /\ Len(Answers) >= 1
  BY <1>1, ClkAnswers DEF OrderInv
<1>5. PICK q, p, r, o, u, m, k, w, z : /\ q = Ops /\ p = Ops' /\ r = regs /\ o = owed /\ u = owed'
                                       /\ m = Len(w) /\ k = Gone /\ w = Answers /\ z = Answers'
  OBVIOUS
<1>6. /\ Len(q) \in Nat /\ m \in Nat /\ Len(o) \in Nat /\ m <= Len(o) /\ Due(q, r, o, m)
      /\ \A a \in WbAddrs : Value(q, r, Len(q), a, mem[a])
      /\ \A i \in 1 .. m : o[i].dat = w[i]
  BY <1>5, OpsParts, AnswerParts DEF OrderInv, Ordered, OrderTypesOK
<1>7. /\ u \in Seq(Owings)
      /\ ~ReadSent(des) => /\ Len(u) = Len(o) - k
                           /\ \A i \in 1 .. Len(o) - k : u[i].dat = o[i + k].dat
      /\ ReadSent(des) =>
           \E rest \in Seq(Owings) :
             /\ Len(rest) = Len(o) - k
             /\ \A i \in 1 .. Len(rest) : rest[i] = o[i + k]
             /\ Grown(rest, u, [cid |-> tx.cid, dat |-> mem[WbAddr(tx)], passed |-> FALSE])
  BY <1>1, <1>5, OweStep DEF OrderInv
<1>8. /\ k \in 0 .. m /\ Len(z) = m - k
      /\ \A i \in 1 .. m - k : z[i] = w[i + k]
  <2>1. CASE Answering
    <3>1. k = 1 /\ Len(z) = m - 1 /\ \A i \in 1 .. m - 1 : z[i] = w[i + 1]
      BY <1>4, <1>5, <2>1 DEF Shrunk, Gone
    <3>2. m >= 1
      BY <1>4, <1>5, <2>1
    <3> QED BY <1>6, <3>1, <3>2
  <2>2. CASE ~Answering
    <3>1. k = 0 /\ z = w
      BY <1>4, <2>2, <1>5 DEF Gone
    <3> QED BY <1>5, <1>6, <3>1
  <2> QED BY <2>1, <2>2
<1>9. WbAddr(tx) \in WbAddrs /\ mem \in [WbAddrs -> Nat]
  <2>1. tx.bar \in 0 .. 1 /\ tx.adr \in 0 .. BarSpan - 1
    BY DEF OrderInv, AInv, TxOK
  <2> QED BY <2>1, WbAddrOK DEF OrderInv, OrderTypesOK
<1>10. ASSUME Len(u) >= m - k, \A i \in 1 .. Len(o) - k : u[i].dat = o[i + k].dat
       PROVE  \A i \in 1 .. m - k : u[i].dat = z[i]
  <2> SUFFICES ASSUME NEW i \in 1 .. m - k PROVE u[i].dat = z[i]
    OBVIOUS
  <2>1. i \in 1 .. Len(o) - k /\ i + k \in 1 .. m
    BY <1>6, <1>8
  <2>2. u[i].dat = o[i + k].dat
    BY <1>10, <2>1
  <2>3. o[i + k].dat = w[i + k]
    BY <1>6, <2>1
  <2>4. z[i] = w[i + k]
    BY <1>8
  <2> QED BY <2>2, <2>3, <2>4
<1>11. CASE ~ReadSent(des)
  <2>1. Len(u) = Len(o) - k /\ \A i \in 1 .. Len(u) : u[i].dat = o[i + k].dat
    BY <1>7, <1>11
  <2>2. m - k <= Len(u) /\ Len(u) \in Nat
    BY <1>6, <1>8, <2>1
  <2>3. Due(q, r, u, m - k)
    BY <1>6, <1>8, <2>1, DueSame
  <2>4. \A i \in 1 .. m - k : u[i].dat = z[i]
    BY <1>10, <2>1, <2>2
  <2>5. CASE ~WriteSent(des)
    <3>1. Ops' = Ops /\ mem' = mem
      BY <1>2, <1>3, <1>11, <2>5
    <3> QED BY <1>1, <1>5, <1>6, <1>8, <2>2, <2>3, <2>4, <3>1 DEF Ordered
  <2>6. CASE WriteSent(des)
    <3>1. PICK x \in Requests : /\ Grown(q, p, x) /\ x.rw /\ x.adr = WbAddr(tx)
                                /\ mem' = [mem EXCEPT ![WbAddr(tx)] = x.dat]
      BY <1>2, <1>5, <2>6 DEF WriteSent, ReadSent
    <3>2. Due(p, r, u, m - k)
      BY <1>6, <2>3, <3>1, DueKept
    <3>3. ASSUME NEW a \in WbAddrs PROVE Value(p, r, Len(p), a, mem'[a])
      <4>1. PICK v : v = mem[a]
        OBVIOUS
      <4>2. Value(q, r, Len(q), a, v)
        BY <1>6, <4>1
      <4>3. Value(p, r, Len(p), a, IF WritesTo(x, a) THEN x.dat ELSE v)
        BY <1>6, <3>1, <4>2, ValueAfter
      <4>4. mem'[a] = IF WritesTo(x, a) THEN x.dat ELSE v
        BY <1>9, <3>1, <4>1 DEF WritesTo
      <4> QED BY <4>3, <4>4
    <3> QED BY <1>1, <1>5, <1>8, <2>2, <2>4, <3>2, <3>3 DEF Ordered
  <2> QED BY <2>5, <2>6
<1>12. CASE ReadSent(des)
  <2>1. PICK rest \in Seq(Owings) :
             /\ Len(rest) = Len(o) - k
             /\ \A i \in 1 .. Len(rest) : rest[i] = o[i + k]
             /\ Grown(rest, u, [cid |-> tx.cid, dat |-> mem[WbAddr(tx)], passed |-> FALSE])
    BY <1>7, <1>12
  <2>2. PICK e : e = [cid |-> tx.cid, dat |-> mem[WbAddr(tx)], passed |-> FALSE]
    OBVIOUS
  <2>3. Grown(rest, u, e) /\ e.dat = mem[WbAddr(tx)]
    BY <2>1, <2>2
  <2>4. PICK x \in Requests : Grown(q, p, x) /\ ~x.rw /\ x.adr = WbAddr(tx)
    BY <1>2, <1>5, <1>12 DEF WriteSent, ReadSent
  <2>5. Len(rest) \in Nat /\ m - k <= Len(rest) /\ m - k \in Nat
    BY <1>6, <1>8, <2>1
  <2>6. \A i \in 1 .. Len(rest) : rest[i].dat = o[i + k].dat
    BY <2>1
  <2>7. Due(q, r, rest, m - k)
    BY <1>6, <1>8, <2>1, <2>6, DueSame
  <2>8. Value(q, r, Len(q), x.adr, e.dat)
    BY <1>6, <1>9, <2>3, <2>4
  <2>9. Due(p, r, u, m - k)
    BY <1>6, <2>3, <2>4, <2>5, <2>7, <2>8, DueRead
  <2>10. mem' = mem
    BY <1>3, <1>12 DEF WriteSent, ReadSent
  <2>11. ASSUME NEW a \in WbAddrs PROVE Value(p, r, Len(p), a, mem'[a])
    <3>1. PICK v : v = mem[a]
      OBVIOUS
    <3>2. Value(q, r, Len(q), a, v)
      BY <1>6, <3>1
    <3>3. Value(p, r, Len(p), a, IF WritesTo(x, a) THEN x.dat ELSE v)
      BY <1>6, <2>4, <3>2, ValueAfter
    <3> QED BY <2>4, <2>10, <3>1, <3>3 DEF WritesTo
  <2>12. Len(u) = Len(rest) + 1 /\ \A i \in 1 .. Len(rest) : u[i] = rest[i]
    BY <2>3 DEF Grown
  <2>13. m - k <= Len(u)
    BY <2>5, <2>12
  <2>14. \A i \in 1 .. m - k : u[i].dat = z[i]
    <3>1. \A i \in 1 .. Len(o) - k : u[i].dat = o[i + k].dat
      BY <2>1, <2>6, <2>12
    <3>2. Len(u) >= m - k
      BY <1>6, <1>8, <2>5, <2>12
    <3> QED BY <1>10, <3>1, <3>2
  <2> QED BY <1>1, <1>5, <1>8, <2>9, <2>11, <2>13, <2>14 DEF Ordered
<1> QED BY <1>11, <1>12

(* A tick of clk_i keeps the identifiers. *)
LEMMA ClkIds ==
  ASSUME OrderInv, NEW des \in Words, NEW others \in BOOLEAN, NEW rd_rdy \in BOOLEAN,
         Send(des), Clk(des, others, rd_rdy)
  PROVE  IdsKept'
<1>1. /\ DecodeTick(des) /\ Owe(des) /\ Receive
      /\ CompletionTick(gnt, rd_rdy, hdr_strobe, hdr_cid)
  BY DEF Clk
<1>2. /\ tx'.phase = "addr" => IF hdr_strobe' THEN hdr_cid' = tx'.cid ELSE tx' = tx
      /\ hdr_strobe' => tx.phase = "none" /\ des.valid /\ hdr_cid' = des.word.cid
  BY <1>1, SendStep DEF OrderInv
<1>3. p2l_cid' = IF hdr_strobe THEN hdr_cid ELSE p2l_cid
  BY <1>1 DEF CompletionTick, StoreCid
<1>4. /\ owed' \in Seq(Owings) /\ Gone <= Len(owed)
      /\ ~ReadSent(des) =>
           /\ Len(owed') = Len(owed) - Gone
           /\ \A i \in 1 .. Len(owed) - Gone :
                /\ owed'[i].dat = owed[i + Gone].dat /\ owed'[i].cid = owed[i + Gone].cid
                /\ ~owed'[i].passed =>
                     /\ ~owed[i + Gone].passed
                     /\ tx.phase = "none" /\ des.valid => des.word.cid = owed[i + Gone].cid
      /\ ReadSent(des) =>
           \E rest \in Seq(Owings) :
             /\ Len(rest) = Len(owed) - Gone
             /\ \A i \in 1 .. Len(rest) : rest[i] = owed[i + Gone]
             /\ Grown(rest, owed', [cid |-> tx.cid, dat |-> mem[WbAddr(tx)], passed |-> FALSE])
  BY <1>1, OweStep DEF OrderInv
<1>5. Len(owed) \in Nat /\ Gone \in 0 .. 1
  BY DEF OrderInv, OrderTypesOK, Gone
<1>6. /\ Len(owed') \in Nat /\ Len(owed') >= Len(owed) - Gone
      /\ \A i \in 1 .. Len(owed) - Gone :
           /\ owed'[i].cid = owed[i + Gone].cid
           /\ ~owed'[i].passed =>
                /\ ~owed[i + Gone].passed
                /\ tx.phase = "none" /\ des.valid => des.word.cid = owed[i + Gone].cid
  <2>1. CASE ~ReadSent(des)
    <3>1. Len(owed') = Len(owed) - Gone
      BY <1>4, <2>1
    <3>2. \A i \in 1 .. Len(owed) - Gone :
            /\ owed'[i].cid = owed[i + Gone].cid
            /\ ~owed'[i].passed =>
                 /\ ~owed[i + Gone].passed
                 /\ tx.phase = "none" /\ des.valid => des.word.cid = owed[i + Gone].cid
      BY <1>4, <2>1, Zenon
    <3>3. Len(owed') \in Nat /\ Len(owed') >= Len(owed) - Gone
      BY <1>5, <3>1, <1>4
    <3> QED BY <3>2, <3>3
  <2>2. CASE ReadSent(des)
    <3>1. PICK rest \in Seq(Owings) :
             /\ Len(rest) = Len(owed) - Gone
             /\ \A i \in 1 .. Len(rest) : rest[i] = owed[i + Gone]
             /\ Grown(rest, owed', [cid |-> tx.cid, dat |-> mem[WbAddr(tx)], passed |-> FALSE])
      BY <1>4, <2>2
    <3>2. Len(owed') = Len(rest) + 1 /\ \A i \in 1 .. Len(rest) : owed'[i] = rest[i]
      BY <3>1 DEF Grown
    <3>3. tx.phase # "none"
      BY <2>2 DEF ReadSent
    <3> QED BY <1>5, <3>1, <3>2, <3>3
  <2> QED BY <2>1, <2>2
<1>7. tx'.phase = "addr" => IF hdr_strobe' THEN hdr_cid' = tx'.cid ELSE p2l_cid' = tx'.cid
  BY <1>2, <1>3 DEF OrderInv, IdsKept
<1>8. ASSUME NEW i \in 1 .. Len(owed'), ~owed'[i].passed
      PROVE  p2l_cid' = owed'[i].cid /\ (hdr_strobe' => hdr_cid' = owed'[i].cid)
  <2>1. CASE i \in 1 .. Len(owed) - Gone
    <3>1. /\ owed'[i].cid = owed[i + Gone].cid /\ ~owed[i + Gone].passed
          /\ tx.phase = "none" /\ des.valid => des.word.cid = owed[i + Gone].cid
      BY <1>6, <1>8, <2>1
    <3>2. i + Gone \in 1 .. Len(owed)
      BY <1>5, <2>1
    <3>3. p2l_cid = owed[i + Gone].cid /\ (hdr_strobe => hdr_cid = owed[i + Gone].cid)
      BY <3>1, <3>2 DEF OrderInv, IdsKept
    <3> QED BY <1>2, <1>3, <3>1, <3>3
  <2>2. CASE i \notin 1 .. Len(owed) - Gone
    <3>1. ReadSent(des)
      BY <1>4, <2>2
    <3>2. PICK rest \in Seq(Owings) :
             /\ Len(rest) = Len(owed) - Gone
             /\ \A j \in 1 .. Len(rest) : rest[j] = owed[j + Gone]
             /\ Grown(rest, owed', [cid |-> tx.cid, dat |-> mem[WbAddr(tx)], passed |-> FALSE])
      BY <1>4, <3>1
    <3>3. /\ Len(owed') = Len(rest) + 1
          /\ owed'[Len(rest) + 1] = [cid |-> tx.cid, dat |-> mem[WbAddr(tx)], passed |-> FALSE]
      BY <3>2 DEF Grown
    <3>4. i = Len(rest) + 1
      BY <1>5, <2>2, <3>2, <3>3
    <3>5. owed'[i].cid = tx.cid
      BY <3>3, <3>4
    <3>6. tx.phase = "addr"
      BY <3>1 DEF ReadSent
    <3>7. ~hdr_strobe'
      BY <1>2, <3>6
    <3>8. p2l_cid' = tx.cid
      BY <1>3, <3>6 DEF OrderInv, IdsKept
    <3> QED BY <3>5, <3>7, <3>8
  <2> QED BY <2>1, <2>2
<1>9. ASSUME owed' # << >>, ~owed'[1].passed
      PROVE  /\ cpl_state' = "L2P_DATA" => wbm_word'.cid = owed'[1].cid
             /\ cpl_state' = "L2P_IDLE" /\ wbm_valid' => rx_cid' = owed'[1].cid
  <2>1. CplIdle(rd_rdy) \/ CplHeaderSent(gnt) \/ CplDataSent
    BY <1>1 DEF CompletionTick, CplFsm
  <2>2. ASSUME cpl_state # "L2P_IDLE"
        PROVE  /\ owed # << >> /\ ~owed[1].passed /\ owed'[1].cid = owed[1].cid
               /\ 1 \in 1 .. Len(owed)
    <3>1. ~Answering
      BY <2>2, WhenAnswering DEF OrderInv
    <3>2. Gone = 0
      BY <3>1 DEF Gone
    <3>3. Len(Answers) >= 1 /\ Len(Answers) \in Nat
      BY <2>2, SomeAnswer, AnswerParts DEF OrderInv
    <3>4. 1 \in 1 .. Len(owed)
      BY <1>5, <3>3 DEF OrderInv, Ordered
    <3>5. 1 \in 1 .. Len(owed) - Gone /\ 1 + Gone = 1
      BY <1>5, <3>2, <3>4
    <3>6. ~owed[1].passed /\ owed'[1].cid = owed[1].cid
      BY <1>6, <1>9, <3>5
    <3>7. owed # << >>
      BY <3>4
    <3> QED BY <3>4, <3>6, <3>7
  <2>3. CASE CplIdle(rd_rdy)
    <3>1. ~wbm_valid' /\ cpl_state' # "L2P_DATA"
      BY <2>3 DEF CplIdle
    <3> QED BY <3>1
  <2>4. CASE CplHeaderSent(gnt)
    <3>1. cpl_state = "L2P_HEADER" /\ cpl_state' # "L2P_IDLE"
      BY <2>4 DEF CplHeaderSent
    <3>2. cpl_state' = "L2P_DATA" => wbm_word' = CplHeader(p2l_cid)
      BY <2>4 DEF CplHeaderSent
    <3>3. p2l_cid = owed[1].cid /\ owed'[1].cid = owed[1].cid
      BY <2>2, <3>1 DEF OrderInv, IdsKept
    <3> QED BY <3>1, <3>2, <3>3 DEF CplHeader
  <2>5. CASE CplDataSent
    <3>1. cpl_state = "L2P_DATA" /\ cpl_state' = "L2P_IDLE"
      BY <2>5 DEF CplDataSent
    <3>2. wbm_word.cid = owed[1].cid /\ owed'[1].cid = owed[1].cid
      BY <2>2, <3>1 DEF OrderInv, IdsKept
    <3>3. rx_cid' = wbm_word.cid
      BY <1>1, <3>1 DEF Receive, OrderInv, CplPlaces
    <3> QED BY <3>1, <3>2, <3>3
  <2> QED BY <2>1, <2>3, <2>4, <2>5
<1> QED BY <1>7, <1>8, <1>9 DEF IdsKept

(* At reset nothing is on its way. *)
LEMMA OrderInit == Init => OrderInv
<1> SUFFICES ASSUME Init PROVE OrderInv
  OBVIOUS
<1>1. AInv
  BY InitInv
<1>2. /\ wbm_fifo = << >> /\ ~wbm_fifo_wr /\ wb_state = "WB_IDLE" /\ wb_stb = FALSE /\ wb_cyc = FALSE
      /\ wbm_fifo_rd = FALSE /\ from_wb_fifo_wr = FALSE /\ pkt = "none"
      /\ dframe_d = FALSE /\ addr_cycle = FALSE /\ data_cycle = FALSE /\ tx.phase = "none"
      /\ ~d_valid /\ ~addr_start /\ owed = << >> /\ slave = [busy |-> FALSE, dat |-> 0]
      /\ regs = [a \in WbAddrs |-> 0] /\ mem = [a \in WbAddrs |-> 0]
      /\ cpl_state = "L2P_IDLE" /\ wbm_req = FALSE /\ wbm_word = CplZero
      /\ wbm_valid = FALSE /\ wbm_dframe = FALSE
      /\ from_wb_fifo = << >> /\ from_wb_fifo_rd = FALSE /\ from_wb_fifo_dout = 0
  BY DEF Init, DecodeInit, CompletionInit, WbMasterInit, NoPacket, NoAccess
<1>3. OrderTypesOK
  <2>1. mem \in [WbAddrs -> Nat] /\ slave \in [busy : BOOLEAN, dat : Nat]
    BY <1>2
  <2>2. wbm_word.kind # "cpl_data"
    BY <1>2 DEF CplZero
  <2>3. from_wb_fifo \in Seq(Nat) /\ owed \in Seq(Owings)
    BY <1>2
  <2> QED BY <1>2, <2>1, <2>2, <2>3 DEF OrderTypesOK
<1>4. Sending /\ BusPlaces /\ CplPlaces
  BY <1>2 DEF Sending, BusPlaces, CplPlaces
<1>5. Ops = << >> /\ Answers = << >>
  <2>1. Current = << >> /\ Entry = << >> /\ Shown = << >> /\ wbm_fifo = << >>
    BY <1>2 DEF Current, Entry, Shown, WriteShown, ReadShown
  <2>2. Returned = << >> /\ Kept = << >> /\ Taken = << >> /\ from_wb_fifo = << >>
    BY <1>2 DEF Returned, Kept, Taken
  <2>3. Len(Ops) = 0 /\ Ops \in Seq(Requests)
    <3>1. Len(Queue(Current, wbm_fifo, Entry, Shown))
            = Len(Current) + Len(wbm_fifo) + Len(Entry) + Len(Shown)
      BY <1>1, OpsParts, QueueSeq
    <3>2. Len(Queue(Current, wbm_fifo, Entry, Shown)) = 0
      BY <2>1, <3>1
    <3> QED BY <1>1, <3>2, OpsParts DEF Ops
  <2>4. Len(Answers) = 0 /\ Answers \in Seq(Nat)
    <3>1. Len(Queue(Returned, from_wb_fifo, Kept, Taken))
            = Len(Returned) + Len(from_wb_fifo) + Len(Kept) + Len(Taken)
      BY <1>1, <1>3, <1>4, AnswerParts, QueueSeq
    <3>2. Len(Queue(Returned, from_wb_fifo, Kept, Taken)) = 0
      BY <2>2, <3>1
    <3> QED BY <1>1, <1>3, <1>4, <3>2, AnswerParts DEF Answers
  <2> QED BY <2>3, <2>4
<1>6. Ordered
  <2>1. \A a \in WbAddrs : Value(<< >>, regs, 0, a, mem[a])
    BY <1>2 DEF Value
  <2>2. Due(<< >>, regs, << >>, 0)
    <3> DEFINE f == [i \in 1 .. 0 |-> 1]
    <3>1. f \in [1 .. 0 -> 1 .. 0] /\ 1 .. 0 = {}
      OBVIOUS
    <3> HIDE DEF f
    <3>2. ReadsAt(<< >>, regs, << >>, 0, f)
      BY <3>1 DEF ReadsAt
    <3> QED BY <3>2 DEF Due
  <2> QED BY <1>2, <1>5, <2>1, <2>2 DEF Ordered
<1>7. IdsKept
  BY <1>2 DEF IdsKept
<1> QED BY <1>1, <1>3, <1>4, <1>6, <1>7 DEF OrderInv

(* Every step keeps the invariant. *)
LEMMA OrderStep == OrderInv /\ [Next]_vars => OrderInv'
<1> SUFFICES ASSUME OrderInv, [Next]_vars PROVE OrderInv'
  OBVIOUS
<1>1. AInv'
  BY StepInv DEF OrderInv
<1>2. CASE ClkTick
  <2>1. PICK des \in Words, others, rd_rdy \in BOOLEAN : Send(des) /\ Clk(des, others, rd_rdy)
    BY <1>2 DEF ClkTick
  <2>2. /\ DecodeTick(des) /\ FromDecoder /\ Owe(des) /\ Grant(others)
        /\ CompletionTick(gnt, rd_rdy, hdr_strobe, hdr_cid)
        /\ UNCHANGED wbVars /\ slave' = slave
    BY <2>1 DEF Clk
  <2>3. /\ CplPlaces'
        /\ from_wb_fifo' \in Seq(Nat) /\ from_wb_fifo_dout' \in Nat
        /\ wbm_word'.kind = "cpl_data" => wbm_word'.data \in Nat
        /\ cpl_state' \in {"L2P_IDLE", "L2P_HEADER", "L2P_DATA"}
        /\ wbm_req' \in BOOLEAN /\ wbm_valid' \in BOOLEAN /\ wbm_dframe' \in BOOLEAN
        /\ from_wb_fifo_rd' \in BOOLEAN
    BY <2>2, ClkAnswers DEF OrderInv
  <2>4. owed' \in Seq(Owings)
    BY <2>2, OweStep DEF OrderInv
  <2>5. /\ Sending'
        /\ WriteSent(des) => mem' = [mem EXCEPT ![WbAddr(tx)] = d']
        /\ ~WriteSent(des) => mem' = mem
    BY <2>1, <2>2, SendStep DEF OrderInv
  <2>6. mem' \in [WbAddrs -> Nat]
    <3>1. mem \in [WbAddrs -> Nat] /\ d' \in Nat
      BY <1>1 DEF OrderInv, OrderTypesOK, AInv, TypeOK, DecodeTypeOK
    <3> QED BY <2>5, <3>1
  <2>7. OrderTypesOK'
    BY <2>2, <2>3, <2>4, <2>6 DEF OrderTypesOK, Owings, OrderInv
  <2>8. BusPlaces'
    <3>1. wbm_fifo' = IF wbm_fifo_wr THEN Append(wbm_fifo, wbm_fifo_din) ELSE wbm_fifo
      BY <2>2 DEF FromDecoder
    <3>2. wbm_fifo \in Seq(Requests) /\ wbm_fifo_din \in Requests
      BY DEF OrderInv, AInv, TypeOK, WbMasterTypeOK
    <3>3. wbm_fifo # << >> => wbm_fifo' # << >>
      BY <3>1, <3>2, AppendProperties
    <3> QED BY <2>2, <3>3 DEF BusPlaces, OrderInv, wbVars
  <2>9. Ordered' /\ IdsKept'
    BY <1>1, <2>1, ClkOrdered, ClkIds
  <2> QED BY <1>1, <2>3, <2>5, <2>7, <2>8, <2>9 DEF OrderInv
<1>3. CASE WbClkTick
  <2>1. PICK stall, ack \in BOOLEAN : WbClk(stall, ack)
    BY <1>3 DEF WbClkTick
  <2>2. BusPlaces' /\ slave' \in [busy : BOOLEAN, dat : Nat] /\ from_wb_fifo' \in Seq(Nat)
    BY <2>1, WbClkOrder DEF OrderInv
  <2>3. UNCHANGED <<decodeVars, cplVars, entryVars, hostVars>>
    BY <2>1 DEF WbClk
  <2>4. OrderTypesOK'
    BY <2>2, <2>3 DEF OrderTypesOK, OrderInv, cplVars, hostVars
  <2>5. Sending' /\ IdsKept'
    BY <2>3 DEF Sending, IdsKept, OrderInv, decodeVars, cplVars, hostVars, NextAddr
  <2>6. CplPlaces'
    <3>1. from_wb_fifo' = IF from_wb_fifo_wr THEN Append(from_wb_fifo, from_wb_fifo_din)
                          ELSE from_wb_fifo
      BY <2>1 DEF WbClk, WbTick
    <3>2. from_wb_fifo \in Seq(Nat) /\ from_wb_fifo_din \in Nat
      BY DEF OrderInv, OrderTypesOK, AInv, TypeOK, WbMasterTypeOK
    <3>3. from_wb_fifo # << >> => from_wb_fifo' # << >>
      BY <3>1, <3>2, AppendProperties
    <3> QED BY <2>3, <3>3 DEF CplPlaces, OrderInv, cplVars, hostVars
  <2>7. Ordered'
    BY <2>1, WbClkOrdered
  <2> QED BY <1>1, <2>2, <2>4, <2>5, <2>6, <2>7 DEF OrderInv
<1>4. CASE UNCHANGED vars
  <2>1. UNCHANGED <<decodeVars, entryVars, wbm_fifo, wbVars, hostVars, slave, regs,
                    cplVars, from_wb_fifo>>
    BY <1>4 DEF vars
  <2>2. OrderTypesOK' /\ Sending' /\ BusPlaces' /\ CplPlaces' /\ IdsKept'
    BY <2>1 DEF OrderTypesOK, Sending, BusPlaces, CplPlaces, IdsKept, OrderInv, decodeVars,
                wbVars, cplVars, hostVars, NextAddr
  <2>3. Ops' = Ops /\ Answers' = Answers
    BY <2>1 DEF Ops, Answers, Current, Entry, Shown, Returned, Kept, Taken, WriteShown, ReadShown,
                WbAddr, decodeVars, entryVars, wbVars, cplVars
  <2>4. Ordered'
    BY <2>1, <2>3 DEF Ordered, OrderInv, hostVars
  <2> QED BY <1>1, <2>2, <2>4 DEF OrderInv
<1> QED BY <1>2, <1>3, <1>4 DEF Next

(* A completion (wbmaster32.vhd, the L2P packet write FSM) answers the     *)
(* oldest read of the host that waits for one, with the value its register *)
(* had when the read was sent, whatever the two clocks, the slave, the     *)
(* arbiter and the FIFOs did in between; and with its identifier, if no    *)
(* header with another one came after the read.                            *)
THEOREM AnswersAreExact == Spec => AnswersExact
<1> DEFINE Exact == Answering => /\ owed # << >>
                                 /\ wbm_word.data = Head(owed).dat
                                 /\ ~Head(owed).passed => rx_cid = Head(owed).cid
<1>1. OrderInv => Exact
  <2> SUFFICES ASSUME OrderInv, Answering
               PROVE  /\ owed # << >> /\ wbm_word.data = Head(owed).dat
                      /\ ~Head(owed).passed => rx_cid = Head(owed).cid
    OBVIOUS
  <2>1. cpl_state = "L2P_IDLE" /\ wbm_valid
    BY WhenAnswering DEF OrderInv
  <2>2. Len(Answers) >= 1 /\ Len(Answers) \in Nat
    BY <2>1, SomeAnswer, AnswerParts DEF OrderInv
  <2>3. owed \in Seq(Owings) /\ Len(owed) >= 1 /\ owed # << >>
    BY <2>2 DEF OrderInv, Ordered, OrderTypesOK, Owings
  <2>4. Head(owed) = owed[1]
    BY <2>3
  <2>5. owed[1].dat = Answers[1]
    BY <2>2 DEF OrderInv, Ordered
  <2>6. Answers[1] = wbm_word.data
    <3>1. Returned = << wbm_word.data >> /\ wbm_word.data \in Nat
      BY <2>1 DEF Returned, OrderInv, OrderTypesOK, CplPlaces
    <3>2. PICK v \in Nat : v = wbm_word.data
      BY <3>1
    <3>3. from_wb_fifo \in Seq(Nat) /\ Kept \in Seq(Nat) /\ Taken \in Seq(Nat)
      BY AnswerParts DEF OrderInv
    <3>4. Left(Queue(<< v >>, from_wb_fifo, Kept, Taken),
               Queue(<< >>, from_wb_fifo, Kept, Taken), v)
      BY <3>3, QueueOut
    <3> QED BY <3>1, <3>2, <3>4 DEF Answers, Left
  <2>7. ~owed[1].passed => rx_cid = owed[1].cid
    BY <2>1, <2>3 DEF OrderInv, IdsKept
  <2> QED BY <2>3, <2>4, <2>5, <2>6, <2>7
<1> QED BY <1>1, OrderInit, OrderStep, PTL DEF Spec, AnswersExact
=============================================================================
