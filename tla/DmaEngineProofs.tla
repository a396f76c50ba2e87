--------------------------- MODULE DmaEngineProofs ---------------------------
(***************************************************************************)
(* The DMA engine for every payload, FIFO size, counter span, list and     *)
(* slave that the assumptions admit: a transfer ends with the done line of *)
(* the master that was started for it, whatever the host aborts or         *)
(* refuses.                                                                *)
(***************************************************************************)
EXTENDS DmaEngine, SequenceTheorems, TLAPS

Kinds == {"zero", "header", "read", "high", "low", "data"}

(* A word on the bus to the arbiter and behind it. *)
WordOK(w) ==
    /\ w.kind \in Kinds
    /\ w.kind \in {"header", "read"} => w.len \in Int
    /\ w.kind \in {"high", "low"} => w.addr \in Int
    /\ w.kind = "data" => w.data \in Nat

(* A register write of the host. *)
LoadOK(l) ==
    /\ l.reg \in {"cstart", "hstart", "next"} => l.addr \in Nat
    /\ l.reg = "len" => l.len \in Nat
    /\ l.reg = "attrib" => l.more \in BOOLEAN /\ l.p2l \in BOOLEAN
    /\ l.reg = "ctrl" => l.start \in BOOLEAN /\ l.abort \in BOOLEAN

(* What the decoder shows the P2L master. *)
InputOK(in) ==
    /\ in.valid \in BOOLEAN /\ in.last \in BOOLEAN
    /\ in.cpld \in BOOLEAN /\ in.cpln \in BOOLEAN /\ in.data \in Nat
    /\ in.cpld \/ in.cpln => reads # << >>

CtlTypes ==
    /\ state \in Ctl!States
    /\ ctrl_start \in BOOLEAN /\ ctrl_abort \in BOOLEAN
    /\ attrib_more \in BOOLEAN /\ attrib_p2l \in BOOLEAN
    /\ start_l2p \in BOOLEAN /\ start_p2l \in BOOLEAN /\ start_next \in BOOLEAN
    /\ abort \in BOOLEAN
    /\ cstart_reg \in Nat /\ hstart_reg \in Nat /\ next_reg \in Nat /\ len_reg \in Nat
    /\ carrier_addr \in Nat /\ host_addr \in Nat /\ len \in Nat

PacketTypes ==
    /\ l2p_state \in L2pStates
    /\ l2p_len_cnt \in Int /\ l2p_data_cnt \in Int /\ l2p_len_header \in Int
    /\ l2p_address_l \in Int /\ l2p_address_h \in Int
    /\ l2p_64b \in BOOLEAN /\ l2p_last_packet \in BOOLEAN
    /\ ldm_done \in BOOLEAN /\ data_fifo_rd \in BOOLEAN /\ data_fifo_valid \in BOOLEAN
    /\ WordOK(ldm_word)
    /\ data_fifo \in Seq(Nat)

(* The data FIFO's output holds a word when the FSM sends it. *)
OutputOK ==
    \/ data_fifo_dout \in Nat
    \/ /\ ~data_fifo_valid
       /\ \/ l2p_state = "L2P_IDLE"
          \/ l2p_state \in {"L2P_HEADER", "L2P_ADDR_H"} /\ data_fifo # << >>
          \/ l2p_state = "L2P_ADDR_L" /\ data_fifo # << >> /\ data_fifo_rd

Cells == 0 .. CarrierSpan - 1

FetchTypes ==
    /\ target_addr_cnt \in Cells /\ dma_length_cnt \in Nat
    /\ addr_fifo_wr \in BOOLEAN /\ addr_fifo_din \in Cells
    /\ addr_fifo \in Seq(Cells)
    /\ addr_fifo_valid \in BOOLEAN /\ addr_fifo_dout \in Cells
    /\ l2p_adr \in Cells /\ l2p_stb \in BOOLEAN /\ l2p_cyc \in BOOLEAN
    /\ wb_read_cnt \in 0 .. CntSpan - 1 /\ wb_ack_cnt \in 0 .. CntSpan - 1

P2lStates == {"P2L_IDLE", "P2L_HEADER", "P2L_ADDR_H", "P2L_ADDR_L", "P2L_WAIT_READ_COMPLETION"}

RequestTypes ==
    /\ p2l_state \in P2lStates
    /\ pdm_address_h \in Int /\ pdm_address_l \in Int /\ pdm_len_cnt \in Int
    /\ pdm_len_header \in Int /\ p2l_data_cnt \in Int
    /\ pdm_64b \in BOOLEAN /\ is_next_item \in BOOLEAN /\ pdm_last_packet \in BOOLEAN
    /\ pdm_done_t \in BOOLEAN /\ pdm_done \in BOOLEAN /\ next_item_valid \in BOOLEAN
    /\ WordOK(pdm_word)
    /\ next_item \in [1 .. 7 -> Nat]
    /\ p2l_addr_cnt \in Nat
    /\ to_wb_fifo_wr \in BOOLEAN /\ to_wb_fifo_din \in Nat \X Nat
    /\ to_wb_fifo \in Seq(Nat \X Nat)

WriterTypes ==
    /\ to_wb_fifo_valid \in BOOLEAN /\ to_wb_fifo_dout \in Nat \X Nat
    /\ p2l_adr \in Nat /\ p2l_dat \in Nat /\ p2l_stb \in BOOLEAN /\ p2l_cyc \in BOOLEAN
    /\ wb_write_cnt \in 0 .. WrCntSpan - 1 /\ p2l_ack_cnt \in 0 .. WrCntSpan - 1

Packet  == [kind : Kinds \cup {"none"}, len : Int, base : Int, words : Seq(Nat)]
Request == [at : 0 .. HostSpan - 1, left : Int]

HostTypes ==
    /\ arb_gnt \in Sources \cup {"none"}
    /\ WordOK(ser_t.word) /\ WordOK(ser_o.word)
    /\ rx \in Packet /\ reads \in Seq(Request)
    /\ memory \in [0 .. HostSpan - 1 -> Nat]
    /\ slave \in Seq(Nat) /\ carrier \in [Cells -> Nat]
    /\ aborted \in BOOLEAN
    /\ loads \in Seq(Ctl!Load)

Types == /\ CtlTypes /\ PacketTypes /\ OutputOK /\ FetchTypes /\ RequestTypes
         /\ WriterTypes /\ HostTypes

-----------------------------------------------------------------------------
(* An item that has been fetched is made of words. *)
LEMMA FetchedWords ==
  ASSUME RequestTypes, Fetched # NoItem
  PROVE  /\ next_item_valid
         /\ Fetched.carrier \in Nat /\ Fetched.host \in Nat /\ Fetched.next \in Nat
         /\ Fetched.len \in Nat /\ Fetched.more \in BOOLEAN /\ Fetched.p2l \in BOOLEAN
<1>1. LowSpan \in Nat /\ \A i \in 1 .. 7 : next_item[i] \in Nat
  BY PacketConstants DEF RequestTypes
<1>2. \A a, b, c \in Nat : a + b * c \in Nat
  OBVIOUS
<1>3. next_item_valid
  BY DEF Fetched
<1>4. /\ Fetched.carrier = next_item[1] /\ Fetched.len = next_item[4]
      /\ Fetched.host = next_item[2] + LowSpan * next_item[3]
      /\ Fetched.next = next_item[5] + LowSpan * next_item[6]
      /\ Fetched.more = (next_item[7] % 2 = 1) /\ Fetched.p2l = ((next_item[7] \div 2) % 2 = 1)
  BY <1>3, Zenon DEF Fetched
<1>5. 1 \in 1 .. 7 /\ 2 \in 1 .. 7 /\ 3 \in 1 .. 7 /\ 4 \in 1 .. 7 /\ 5 \in 1 .. 7 /\ 6 \in 1 .. 7
  OBVIOUS
<1>6. Fetched.carrier \in Nat /\ Fetched.len \in Nat
  BY <1>1, <1>4, <1>5
<1>7. Fetched.host \in Nat /\ Fetched.next \in Nat
  <2>1. next_item[2] \in Nat /\ next_item[3] \in Nat /\ next_item[5] \in Nat /\ next_item[6] \in Nat
    BY <1>1, <1>5, Zenon
  <2>2. /\ next_item[2] + LowSpan * next_item[3] \in Nat
        /\ next_item[5] + LowSpan * next_item[6] \in Nat
    BY <1>1, <1>2, <2>1, Zenon
  <2> QED BY <1>4, <2>2, Zenon
<1>8. Fetched.more \in BOOLEAN /\ Fetched.p2l \in BOOLEAN
  BY <1>4, Zenon
<1> QED BY <1>3, <1>6, <1>7, <1>8

(* The registers of the controller keep their types. *)
LEMMA CtlTyped ==
  ASSUME CtlTypes, RequestTypes, NEW load, LoadOK(load), NEW done, NEW error,
         Ctl!Tick(load, done, error, Fetched)
  PROVE  CtlTypes'
<1>1. Ctl!PRegs(load, Fetched) /\ Ctl!PFsm(done, error, Fetched)
  BY DEF Ctl!Tick
<1>2. ctrl_start' \in BOOLEAN /\ ctrl_abort' \in BOOLEAN
  <2>1. ctrl_start' \in BOOLEAN
    BY <1>1, Zenon DEF Ctl!PRegs
  <2>2. ctrl_abort' \in BOOLEAN
    BY <1>1 DEF Ctl!PRegs, LoadOK, CtlTypes
  <2> QED BY <2>1, <2>2
<1>3. /\ cstart_reg' \in Nat /\ hstart_reg' \in Nat /\ next_reg' \in Nat /\ len_reg' \in Nat
      /\ attrib_more' \in BOOLEAN /\ attrib_p2l' \in BOOLEAN
  <2>1. CASE Fetched = NoItem
    BY <1>1, <2>1 DEF Ctl!PRegs, LoadOK, CtlTypes
  <2>2. CASE Fetched # NoItem
    BY <1>1, <2>2, FetchedWords, Zenon DEF Ctl!PRegs
  <2> QED BY <2>1, <2>2
<1>4. /\ state' \in Ctl!States
      /\ start_l2p' \in BOOLEAN /\ start_p2l' \in BOOLEAN /\ start_next' \in BOOLEAN
      /\ abort' \in BOOLEAN
  <2>1. CASE Ctl!Idle \/ Ctl!Error \/ Ctl!Abort \/ Ctl!StartChain
    BY <2>1, Zenon DEF Ctl!Idle, Ctl!Error, Ctl!Abort, Ctl!StartChain, Ctl!States, CtlTypes
  <2>2. CASE Ctl!StartTransfer
    BY <2>2, Zenon DEF Ctl!StartTransfer, Ctl!States, CtlTypes
  <2>3. CASE Ctl!Transfer(done, error)
    BY <2>3, Zenon DEF Ctl!Transfer, Ctl!AbortOrError, Ctl!States, CtlTypes
  <2>4. CASE Ctl!Chain(error, Fetched)
    BY <2>4, Zenon DEF Ctl!Chain, Ctl!AbortOrError, Ctl!States, CtlTypes
  <2> QED BY <1>1, <2>1, <2>2, <2>3, <2>4, Zenon DEF Ctl!PFsm
<1>5. carrier_addr' \in Nat /\ host_addr' \in Nat /\ len' \in Nat
  <2>0. ItemWords \in Nat
    BY DEF ItemWords
  <2>1. CASE Ctl!Idle \/ Ctl!Error \/ Ctl!Abort \/ Ctl!Transfer(done, error) \/ Ctl!Chain(error, Fetched)
    BY <2>1, Zenon DEF Ctl!Idle, Ctl!Error, Ctl!Abort, Ctl!Transfer, Ctl!Chain, Ctl!addrs, CtlTypes
  <2>2. CASE Ctl!StartTransfer
    BY <2>2, Zenon DEF Ctl!StartTransfer, Ctl!addrs, CtlTypes
  <2>3. CASE Ctl!StartChain
    BY <2>0, <2>3, Zenon DEF Ctl!StartChain, CtlTypes
  <2> QED BY <1>1, <2>1, <2>2, <2>3, Zenon DEF Ctl!PFsm
<1> QED BY <1>2, <1>3, <1>4, <1>5 DEF CtlTypes

(* What p_pkt_gen holds are numbers. *)
LEMMA PktGenTyped ==
  ASSUME PacketTypes, NEW start, NEW n \in Int, NEW h \in Int, NEW l \in Int,
         PktGen(start, n, h, l)
  PROVE  /\ l2p_len_cnt' \in Int /\ l2p_data_cnt' \in Int /\ l2p_len_header' \in Int
         /\ l2p_address_l' \in Int /\ l2p_address_h' \in Int
         /\ l2p_64b' \in BOOLEAN /\ l2p_last_packet' \in BOOLEAN
<1>1. /\ MaxPayload \in Int /\ HdrSpan \in Nat \ {0} /\ LowSpan \in Nat \ {0}
  BY PacketConstants
<1>2. LoadSize => /\ l2p_data_cnt' \in Int /\ l2p_len_header' \in Int
                  /\ l2p_last_packet' \in BOOLEAN
  BY <1>1 DEF LoadSize, PacketTypes
<1>3. CASE l2p_state = "L2P_IDLE" /\ start
  BY <1>3, Zenon DEF PktGen, PacketTypes, pktVars
<1>4. CASE l2p_state = "L2P_HEADER"
  <2>1. LoadSize /\ l2p_64b' = (l2p_address_h # 0) /\ UNCHANGED <<l2p_len_cnt, l2p_address_l, l2p_address_h>>
    BY <1>4, Zenon DEF PktGen
  <2> QED BY <1>2, <2>1, Zenon DEF PacketTypes
<1>5. CASE l2p_state = "L2P_ADDR_L"
  BY <1>1, <1>5 DEF PktGen, PacketTypes
<1>6. CASE l2p_state = "L2P_DATA" /\ data_fifo_valid
  <2>1. l2p_data_cnt' = (l2p_data_cnt - 1) % (2 * HdrSpan)
    BY <1>6, Zenon DEF PktGen
  <2>2. l2p_data_cnt' \in Int
    BY <1>1, <2>1 DEF PacketTypes
  <2> QED BY <1>6, <2>2, Zenon DEF PktGen, PacketTypes
<1>7. CASE l2p_state = "L2P_LAST_DATA" /\ ~l2p_last_packet
  <2>1. NextPacket /\ UNCHANGED <<l2p_len_cnt, l2p_address_h, l2p_64b>>
    BY <1>7, Zenon DEF PktGen
  <2>2. l2p_address_l' \in Int
    BY <1>1, <2>1 DEF NextPacket, PacketTypes
  <2> QED BY <1>2, <2>1, <2>2, Zenon DEF NextPacket, PacketTypes
<1>8. CASE UNCHANGED pktVars
  BY <1>8, Zenon DEF pktVars, PacketTypes
<1> QED BY <1>3, <1>4, <1>5, <1>6, <1>7, <1>8, Zenon DEF PktGen

(* The words to the host are whole, and the data FIFO's output is not sent *)
(* before it holds a word.                                                 *)
LEMMA PacketTyped ==
  ASSUME PacketTypes, OutputOK, NEW start, NEW n \in Int, NEW h \in Int, NEW l \in Int,
         NEW kill \in BOOLEAN, NEW g,
         PacketTick(start, n, h, l, kill, g, TRUE, TRUE)
  PROVE  PacketTypes' /\ OutputOK'
<1>1. PktGen(start, n, h, l) /\ FifoRead /\ L2pFsm(kill, g, TRUE, TRUE)
  BY DEF PacketTick
<1>2. /\ data_fifo' \in Seq(Nat) /\ data_fifo_valid' \in BOOLEAN
      /\ data_fifo_valid' => data_fifo_dout' \in Nat
      /\ data_fifo_dout \in Nat => data_fifo_dout' \in Nat
      /\ ~data_fifo_valid' => data_fifo' = data_fifo /\ data_fifo_dout' = data_fifo_dout
      /\ data_fifo_valid' = (data_fifo_rd /\ data_fifo # << >>)
  <2>1. CASE data_fifo_rd /\ data_fifo # << >>
    <3>1. /\ data_fifo_valid' = TRUE /\ data_fifo' = Tail(data_fifo)
          /\ data_fifo_dout' = Head(data_fifo)
      BY <1>1, <2>1, Zenon DEF FifoRead
    <3>2. Tail(data_fifo) \in Seq(Nat) /\ Head(data_fifo) \in Nat
      BY <2>1 DEF PacketTypes
    <3> QED BY <2>1, <3>1, <3>2, Zenon
  <2>2. CASE ~(data_fifo_rd /\ data_fifo # << >>)
    <3>1. data_fifo_valid' = FALSE /\ data_fifo' = data_fifo /\ data_fifo_dout' = data_fifo_dout
      BY <1>1, <2>2, Zenon DEF FifoRead
    <3> QED BY <2>2, <3>1, Zenon DEF PacketTypes
  <2> QED BY <2>1, <2>2, Zenon
<1>3. /\ l2p_state' \in L2pStates /\ ldm_done' \in BOOLEAN /\ data_fifo_rd' \in BOOLEAN
      /\ WordOK(ldm_word')
      /\ \/ l2p_state' = "L2P_IDLE" \/ data_fifo_dout' \in Nat
         \/ l2p_state' = "L2P_HEADER" /\ data_fifo # << >>
         \/ l2p_state' = "L2P_ADDR_H" /\ l2p_state = "L2P_HEADER"
         \/ l2p_state' = "L2P_ADDR_L" /\ l2p_state \in {"L2P_HEADER", "L2P_ADDR_H"} /\ data_fifo_rd' = TRUE
  <2>1. CASE L2pIdle
    BY <2>1, <1>2 DEF L2pIdle, PacketTypes, L2pStates, WordOK, Zero, Kinds
  <2>2. CASE L2pHeader(g, TRUE)
    <3>1. CASE g
      <4>1. /\ l2p_state = "L2P_HEADER" /\ ldm_word' = Header(l2p_len_header, l2p_64b)
            /\ ldm_done' = ldm_done
            /\ IF l2p_64b THEN l2p_state' = "L2P_ADDR_H" /\ data_fifo_rd' = data_fifo_rd
               ELSE l2p_state' = "L2P_ADDR_L" /\ data_fifo_rd' = TRUE
        BY <2>2, <3>1, Zenon DEF L2pHeader
      <4>2. WordOK(ldm_word')
        BY <4>1 DEF WordOK, Header, Kinds, PacketTypes
      <4>3. CASE l2p_64b
        BY <4>1, <4>2, <4>3 DEF PacketTypes, L2pStates
      <4>4. CASE ~l2p_64b
        BY <4>1, <4>2, <4>4 DEF PacketTypes, L2pStates
      <4> QED BY <4>3, <4>4
    <3>2. CASE ~g
      BY <2>2, <3>2, <1>2 DEF L2pHeader, PacketTypes, L2pStates, OutputOK
    <3> QED BY <3>1, <3>2
  <2>3. CASE L2pAddrH
    BY <2>3, <1>2 DEF L2pAddrH, PacketTypes, L2pStates, WordOK, AddrHigh, Kinds
  <2>4. CASE L2pAddrL
    <3>1. data_fifo_dout' \in Nat
      BY <1>2, <2>4 DEF OutputOK, L2pAddrL
    <3> QED BY <2>4, <3>1 DEF L2pAddrL, PacketTypes, L2pStates, WordOK, AddrLow, Kinds
  <2>5. CASE L2pData(kill, TRUE)
    <3>1. data_fifo_dout \in Nat
      BY <2>5 DEF OutputOK, L2pData
    <3>2. WordOK(ldm_word')
      BY <2>5, <3>1 DEF L2pData, PacketTypes, WordOK, Data, Kinds
    <3>3. l2p_state' \in L2pStates /\ ldm_done' \in BOOLEAN /\ data_fifo_rd' \in BOOLEAN
      BY <2>5, Zenon DEF L2pData, PacketTypes, L2pStates
    <3> QED BY <1>2, <3>1, <3>2, <3>3
  <2>6. CASE L2pWaitRdy(TRUE) \/ L2pWaitData
    <3>1. data_fifo_dout \in Nat
      BY <2>6 DEF OutputOK, L2pWaitRdy, L2pWaitData
    <3>2. /\ l2p_state' \in L2pStates /\ ldm_done' \in BOOLEAN /\ data_fifo_rd' \in BOOLEAN
          /\ ldm_word' = ldm_word
      BY <2>6, Zenon DEF L2pWaitRdy, L2pWaitData, PacketTypes, L2pStates
    <3> QED BY <1>2, <3>1, <3>2 DEF PacketTypes
  <2>7. CASE L2pLastData(TRUE)
    <3>1. data_fifo_dout \in Nat
      BY <2>7 DEF OutputOK, L2pLastData
    <3>2. WordOK(ldm_word')
      BY <2>7, <3>1 DEF L2pLastData, WordOK, Data, Kinds
    <3>3. l2p_state' \in L2pStates /\ ldm_done' \in BOOLEAN /\ data_fifo_rd' \in BOOLEAN
      BY <2>7, Zenon DEF L2pLastData, PacketTypes, L2pStates
    <3> QED BY <1>2, <3>1, <3>2, <3>3
  <2> QED BY <1>1, <2>1, <2>2, <2>3, <2>4, <2>5, <2>6, <2>7 DEF L2pFsm
<1>4. PacketTypes'
  BY <1>1, <1>2, <1>3, PktGenTyped, Zenon DEF PacketTypes
<1>5. OutputOK'
  <2> SUFFICES ASSUME data_fifo_dout' \notin Nat PROVE OutputOK'
    BY DEF OutputOK
  <2>1. ~data_fifo_valid' /\ data_fifo_dout' = data_fifo_dout /\ data_fifo' = data_fifo
    BY <1>2
  <2>2. l2p_state # "L2P_ADDR_L" /\ (l2p_state \in {"L2P_HEADER", "L2P_ADDR_H"} => data_fifo # << >>)
    BY <1>2, <2>1 DEF OutputOK
  <2> QED BY <1>3, <2>1, <2>2 DEF OutputOK
<1> QED BY <1>4, <1>5

(* The addresses of a transfer stay in the carrier's memory. *)
LEMMA TargetTyped ==
  ASSUME FetchTypes, NEW start, NEW idle, NEW at \in Cells, NEW n \in Nat,
         TargetCnt(start, idle, at, n)
  PROVE  /\ target_addr_cnt' \in Cells /\ dma_length_cnt' \in Nat
         /\ addr_fifo_wr' \in BOOLEAN /\ addr_fifo_din' \in Cells /\ addr_fifo' \in Seq(Cells)
<1>1. CarrierSpan \in Nat \ {0} /\ AddrSpan = CarrierSpan
  BY RequestConstants, EngineConstants
<1>2. addr_fifo' \in Seq(Cells)
  BY DEF TargetCnt, FetchTypes
<1>3. NextTarget \in Cells /\ 0 \in Cells
  BY <1>1 DEF NextTarget, FetchTypes, Cells
<1>4. CASE start
  <2>1. /\ target_addr_cnt' = at \/ target_addr_cnt' = 0
        /\ dma_length_cnt' = n \/ dma_length_cnt' = 0
        /\ addr_fifo_wr' = addr_fifo_wr /\ addr_fifo_din' = addr_fifo_din
    BY <1>4, Zenon DEF TargetCnt
  <2>2. 0 \in Nat
    OBVIOUS
  <2> QED BY <1>2, <1>3, <2>1, <2>2, Zenon DEF FetchTypes
<1>5. CASE ~start /\ dma_length_cnt # 0 /\ ~addr_fifo_full
  <2>1. /\ addr_fifo_wr' = TRUE /\ addr_fifo_din' = target_addr_cnt
        /\ target_addr_cnt' = NextTarget /\ dma_length_cnt' = dma_length_cnt - 1
    BY <1>5, Zenon DEF TargetCnt
  <2>2. dma_length_cnt' \in Nat
    BY <1>5, <2>1 DEF FetchTypes
  <2> QED BY <1>2, <1>3, <2>1, <2>2, Zenon DEF FetchTypes
<1>6. CASE ~start /\ (dma_length_cnt = 0 \/ addr_fifo_full)
  BY <1>2, <1>6, Zenon DEF TargetCnt, FetchTypes
<1> QED BY <1>4, <1>5, <1>6

(* The requests of the P2L master are words, and what it takes in too. *)
LEMMA RequestTyped ==
  ASSUME RequestTypes, NEW start \in BOOLEAN, NEW next \in BOOLEAN, NEW at \in Nat,
         NEW h \in Int, NEW l \in Int, NEW n \in Int, NEW kill \in BOOLEAN, NEW g,
         NEW in, InputOK(in),
         RequestTick(start, next, at, h, l, n, kill, g, in)
  PROVE  RequestTypes'
<1>1. /\ ReadReq(start, next, h, l, n) /\ RequestFsm(start, next, kill, g, in)
      /\ CtrlPipe /\ RecvDataCnt(in) /\ NextItem(in) /\ AddrCnt(start, at, in)
  BY DEF RequestTick
<1>2. MaxRead \in Int /\ LenSpan \in Nat \ {0} /\ CarrierSpan \in Nat \ {0}
  BY RequestConstants
<1>3. /\ pdm_address_h' \in Int /\ pdm_address_l' \in Int /\ pdm_len_cnt' \in Int
      /\ pdm_len_header' \in Int /\ pdm_64b' \in BOOLEAN /\ is_next_item' \in BOOLEAN
      /\ pdm_last_packet' \in BOOLEAN
  <2>1. CASE p2l_state = "P2L_IDLE" /\ (start \/ next)
    BY <1>1, <2>1, Zenon DEF ReadReq, RequestTypes, readReqVars
  <2>2. CASE p2l_state = "P2L_HEADER"
    <3>1. /\ pdm_len_header' = (IF pdm_len_cnt > MaxRead THEN MaxRead ELSE pdm_len_cnt) % LenSpan
          /\ pdm_last_packet' = (pdm_len_cnt <= MaxRead)
          /\ UNCHANGED <<pdm_address_h, pdm_address_l, pdm_len_cnt, pdm_64b, is_next_item>>
      BY <1>1, <2>2 DEF ReadReq
    <3>2. pdm_len_header' \in Int
      <4>1. (IF pdm_len_cnt > MaxRead THEN MaxRead ELSE pdm_len_cnt) \in Int
        BY <1>2 DEF RequestTypes
      <4> QED BY <1>2, <3>1, <4>1
    <3>3. pdm_last_packet' \in BOOLEAN
      BY <1>2, <3>1 DEF RequestTypes
    <3> QED BY <3>1, <3>2, <3>3, Zenon DEF RequestTypes
  <2>3. CASE p2l_state = "P2L_ADDR_L"
    <3>1. /\ pdm_len_cnt' \in {0, pdm_len_cnt - MaxRead}
          /\ UNCHANGED <<pdm_address_h, pdm_address_l, pdm_len_header, pdm_64b,
                         is_next_item, pdm_last_packet>>
      BY <1>1, <2>3 DEF ReadReq
    <3>2. pdm_len_cnt' \in Int
      BY <1>2, <3>1 DEF RequestTypes
    <3> QED BY <3>1, <3>2, Zenon DEF RequestTypes
  <2>4. CASE UNCHANGED readReqVars
    BY <2>4, Zenon DEF readReqVars, RequestTypes
  <2> QED BY <1>1, <2>1, <2>2, <2>3, <2>4, Zenon DEF ReadReq
<1>4. /\ p2l_state' \in P2lStates /\ pdm_done_t' \in BOOLEAN /\ next_item_valid' \in BOOLEAN
      /\ WordOK(pdm_word')
  <2>1. CASE P2lIdle(start, next)
    BY <2>1 DEF P2lIdle, RequestTypes, P2lStates
  <2>2. CASE P2lHeader(g)
    <3>1. WordOK(ReadHeader(pdm_len_header, pdm_64b))
      BY DEF WordOK, ReadHeader, Kinds, RequestTypes
    <3>2. p2l_state' \in P2lStates
      BY <2>2 DEF P2lHeader, P2lStates
    <3>3. /\ pdm_word' = ReadHeader(pdm_len_header, pdm_64b) \/ pdm_word' = pdm_word
          /\ pdm_done_t' = pdm_done_t /\ next_item_valid' = next_item_valid
      BY <2>2, Zenon DEF P2lHeader
    <3> QED BY <3>1, <3>2, <3>3, Zenon DEF RequestTypes
  <2>3. CASE P2lAddrH
    BY <2>3 DEF P2lAddrH, WordOK, ReadHigh, Kinds, RequestTypes, P2lStates
  <2>4. CASE P2lAddrL
    BY <2>4 DEF P2lAddrL, WordOK, ReadLow, Kinds, RequestTypes, P2lStates
  <2>5. CASE P2lWait(kill, in)
    <3>1. /\ p2l_state' \in {p2l_state, "P2L_IDLE", "P2L_HEADER"} /\ pdm_word' = pdm_word
          /\ pdm_done_t' \in {pdm_done_t, TRUE} /\ next_item_valid' \in {next_item_valid, TRUE}
      BY <2>5, Zenon DEF P2lWait
    <3> QED BY <3>1 DEF RequestTypes, P2lStates
  <2> QED BY <1>1, <2>1, <2>2, <2>3, <2>4, <2>5, Zenon DEF RequestFsm
<1>5. pdm_done' \in BOOLEAN
  BY <1>1, Zenon DEF CtrlPipe, RequestTypes
<1>6. p2l_data_cnt' \in Int
  BY <1>1, <1>2 DEF RecvDataCnt, RequestTypes
<1>7. next_item' \in [1 .. 7 -> Nat]
  BY <1>1 DEF NextItem, RequestTypes, InputOK
<1>8. p2l_addr_cnt' \in Nat
  <2>1. NextCarrier \in Nat
    BY <1>2 DEF NextCarrier, RequestTypes
  <2> QED BY <1>1, <2>1, Zenon DEF AddrCnt, RequestTypes
<1>9. /\ to_wb_fifo' \in Seq(Nat \X Nat) /\ to_wb_fifo_wr' \in BOOLEAN
      /\ to_wb_fifo_din' \in Nat \X Nat
  <2>1. to_wb_fifo' \in Seq(Nat \X Nat)
    <3>1. to_wb_fifo' = IF to_wb_fifo_wr THEN Append(to_wb_fifo, to_wb_fifo_din) ELSE to_wb_fifo
      BY <1>1, Zenon DEF AddrCnt
    <3>2. to_wb_fifo \in Seq(Nat \X Nat) /\ to_wb_fifo_din \in Nat \X Nat
      BY DEF RequestTypes
    <3> QED BY <3>1, <3>2, AppendProperties, Zenon
  <2>2. <<p2l_addr_cnt, in.data>> \in Nat \X Nat
    BY DEF RequestTypes, InputOK
  <2> QED BY <1>1, <2>1, <2>2, Zenon DEF AddrCnt, RequestTypes
<1> QED BY <1>3, <1>4, <1>5, <1>6, <1>7, <1>8, <1>9, Zenon DEF RequestTypes

(* The arbiter hands on the words of the masters. *)
LEMMA ArbiterTyped ==
  ASSUME HostTypes, WordOK(ldm_word), WordOK(pdm_word), ArbiterTick(Req, Bus)
  PROVE  arb_gnt' \in Sources \cup {"none"} /\ WordOK(ser_t'.word) /\ WordOK(ser_o'.word)
<1>1. Arbitrate(Req, Bus) /\ Mux(Bus)
  BY DEF ArbiterTick
<1>2. arb_gnt' \in Sources \cup {"none"}
  BY <1>1 DEF Arbitrate, Sources, HostTypes
<1>3. WordOK(Silent.word)
  BY DEF Silent, WordOK, Kinds
<1>4. \A s \in Sources : WordOK(Bus[s].word)
  BY <1>3 DEF Bus, Sources
<1>5. WordOK(ser_t'.word)
  BY <1>1, <1>3, <1>4, Zenon DEF Mux, HostTypes
<1>6. WordOK(ser_o'.word)
  BY <1>1, Zenon DEF Mux, HostTypes
<1> QED BY <1>2, <1>5, <1>6

(* The host's memory holds words, and its requests lie in its memory. *)
LEMMA ReceiveTyped ==
  ASSUME HostTypes, NEW in, InputOK(in), Receive(in)
  PROVE  rx' \in Packet /\ reads' \in Seq(Request) /\ memory' \in [0 .. HostSpan - 1 -> Nat]
<1> DEFINE w == ser_o.word
           take == ser_o.valid /\ ~ldm_edb /\ Fits(w.kind)
           ends == take /\ ~ser_o.dframe
<1>1. HostSpan \in Nat \ {0} /\ LowSpan \in Nat \ {0}
  BY PacketConstants DEF HostSpan
<1>2. WordOK(w) /\ rx \in Packet /\ reads \in Seq(Request) /\ memory \in [0 .. HostSpan - 1 -> Nat]
  BY DEF HostTypes
<1>3. NoPacket \in Packet
  BY DEF NoPacket, Packet, Kinds
<1>4. take => Taken \in Packet
  <2> SUFFICES ASSUME take PROVE Taken \in Packet
    OBVIOUS
  <2>1. CASE rx.kind = "none"
    <3>1. w.kind \in {"header", "read"} /\ w.len \in Int
      BY <1>2, <2>1 DEF Fits, WordOK
    <3>2. Taken = [NoPacket EXCEPT !.kind = w.kind, !.len = w.len]
      BY <2>1 DEF Taken
    <3> QED BY <1>3, <3>1, <3>2 DEF Packet, Kinds
  <2>2. CASE rx.kind # "none"
    <3>1. w.kind \in {"high", "low", "data"}
      BY <1>2, <2>2 DEF Fits, WordOK, Kinds
    <3>2. CASE w.kind = "high"
      <4>1. Taken = [rx EXCEPT !.base = w.addr * LowSpan]
        BY <2>2, <3>2 DEF Taken
      <4>2. w.addr * LowSpan \in Int
        BY <1>1, <1>2, <3>2 DEF WordOK
      <4> QED BY <1>2, <4>1, <4>2 DEF Packet
    <3>3. CASE w.kind = "low"
      <4>1. Taken = [rx EXCEPT !.base = @ + w.addr]
        BY <2>2, <3>3 DEF Taken
      <4>2. rx.base + w.addr \in Int
        BY <1>2, <3>3 DEF WordOK, Packet
      <4> QED BY <1>2, <4>1, <4>2 DEF Packet
    <3>4. CASE w.kind = "data"
      <4>1. Taken = [rx EXCEPT !.words = Append(@, w.data)]
        BY <2>2, <3>4 DEF Taken
      <4>2. Append(rx.words, w.data) \in Seq(Nat)
        BY <1>2, <3>4 DEF WordOK, Packet
      <4> QED BY <1>2, <4>1, <4>2 DEF Packet
    <3> QED BY <3>1, <3>2, <3>3, <3>4
  <2> QED BY <2>1, <2>2
<1>5. rx' \in Packet
  BY <1>2, <1>3, <1>4, Zenon DEF Receive
<1>6. ends => memory' \in [0 .. HostSpan - 1 -> Nat]
  <2> SUFFICES ASSUME ends PROVE memory' \in [0 .. HostSpan - 1 -> Nat]
    OBVIOUS
  <2>1. Taken.words \in Seq(Nat)
    BY <1>4 DEF Packet
  <2>2. DOMAIN memory = 0 .. HostSpan - 1
    BY <1>2
  <2>3. Stored(Taken) \in [0 .. HostSpan - 1 -> Nat]
    BY <1>2, <2>1, <2>2 DEF Stored
  <2> QED BY <1>2, <2>3, Zenon DEF Receive
<1>7. memory' \in [0 .. HostSpan - 1 -> Nat]
  <2>1. ~ends => memory' = memory
    BY Zenon DEF Receive
  <2> QED BY <1>2, <1>6, <2>1, Zenon
<1>8. Answered(in) \in Seq(Request)
  <2>1. CASE ~in.cpld /\ ~in.cpln
    BY <1>2, <2>1 DEF Answered
  <2>2. CASE (in.cpld \/ in.cpln) /\ (in.cpln \/ Head(reads).left = 1)
    <3>1. Tail(reads) \in Seq(Request)
      BY <1>2, <2>2 DEF InputOK
    <3> QED BY <2>2, <3>1, Zenon DEF Answered
  <2>3. CASE (in.cpld \/ in.cpln) /\ ~(in.cpln \/ Head(reads).left = 1)
    <3>1. reads # << >> /\ reads \in [1 .. Len(reads) -> Request] /\ Len(reads) \in Nat /\ 1 \in 1 .. Len(reads)
      BY <1>2, <2>3 DEF InputOK
    <3>2. reads[1] \in Request
      BY <3>1
    <3>3. [at |-> (reads[1].at + 1) % HostSpan, left |-> reads[1].left - 1] \in Request
      BY <1>1, <3>2 DEF Request
    <3>4. Answered(in) = [reads EXCEPT ![1] = [at |-> (@.at + 1) % HostSpan, left |-> @.left - 1]]
      BY <2>3, Zenon DEF Answered
    <3>5. Answered(in) \in [1 .. Len(reads) -> Request]
      BY <3>1, <3>3, <3>4
    <3> QED BY <3>1, <3>5
  <2> QED BY <2>1, <2>2, <2>3
<1>9. reads' \in Seq(Request)
  <2> DEFINE n == IF Taken.len = 0 THEN LenSpan ELSE Taken.len
  <2>1. CASE ends /\ Taken.kind = "read"
    <3>1. Taken.base \in Int /\ Taken.len \in Int
      BY <1>4, <2>1 DEF Packet
    <3>2. n \in Int
      BY <3>1, RequestConstants
    <3>3. [at |-> Taken.base % HostSpan, left |-> n] \in Request
      BY <1>1, <3>1, <3>2 DEF Request
    <3>4. reads' = Append(Answered(in), [at |-> Taken.base % HostSpan, left |-> n])
      BY <2>1, Zenon DEF Receive
    <3> HIDE DEF n
    <3> QED BY <1>8, <3>3, <3>4, AppendProperties, Zenon
  <2>2. CASE ~(ends /\ Taken.kind = "read")
    BY <1>8, <2>2, Zenon DEF Receive
  <2> QED BY <2>1, <2>2
<1> QED BY <1>5, <1>7, <1>9

(* What the host does in a tick of clk_i: it starts a list, writes the     *)
(* next of its registers, aborts, or nothing.                              *)
Programming(load) == /\ Quiet /\ load = NoLoad /\ aborted' = FALSE
                     /\ \E p \in Programs : loads' = Writes(p)
Writing(load)  == loads # << >> /\ load = Head(loads) /\ loads' = Tail(loads) /\ aborted' = aborted
Aborting(load) == Ctl!Running /\ load = AbortLoad /\ loads' = loads /\ aborted' = TRUE
Waiting(load)  == loads = << >> /\ load = NoLoad /\ loads' = loads /\ aborted' = aborted
Hosting(load)  == Programming(load) \/ Writing(load) \/ Aborting(load) \/ Waiting(load)

(* A register write carries words. *)
LEMMA LoadForm == ASSUME NEW l \in Ctl!Load PROVE LoadOK(l)
<1>1. HostSpan \in Nat
  BY PacketConstants DEF HostSpan
<1> QED BY <1>1 DEF Ctl!Load, LoadOK

(* The start bit is the last of the register writes that start a list. *)
LEMMA WritesTyped ==
  ASSUME NEW p \in Programs
  PROVE  /\ Writes(p) \in Seq(Ctl!Load) /\ Len(Writes(p)) = 6
         /\ \A i \in 1 .. 5 : Writes(p)[i].reg # "ctrl"
<1>1. p \in Ctl!Item
  BY EngineItems
<1>2. /\ [reg |-> "cstart", addr |-> p.carrier] \in Ctl!Load
      /\ [reg |-> "hstart", addr |-> p.host] \in Ctl!Load
      /\ [reg |-> "len", len |-> p.len] \in Ctl!Load
      /\ [reg |-> "next", addr |-> p.next] \in Ctl!Load
      /\ [reg |-> "attrib", more |-> p.more, p2l |-> p.p2l] \in Ctl!Load
      /\ [reg |-> "ctrl", start |-> TRUE, abort |-> FALSE] \in Ctl!Load
  BY <1>1 DEF Ctl!Item, Ctl!Load
<1>3. Len(Writes(p)) = 6 /\ Writes(p) \in Seq(Ctl!Load)
  BY <1>2 DEF Writes
<1>4. /\ Writes(p)[1].reg = "cstart" /\ Writes(p)[2].reg = "hstart" /\ Writes(p)[3].reg = "len"
      /\ Writes(p)[4].reg = "next" /\ Writes(p)[5].reg = "attrib"
  BY DEF Writes
<1>5. \A i \in 1 .. 5 : i = 1 \/ i = 2 \/ i = 3 \/ i = 4 \/ i = 5
  OBVIOUS
<1> QED BY <1>3, <1>4, <1>5

(* What comes in with a tick of clk_i. *)
LEMMA ClkForm ==
  ASSUME HostTypes, ClkTick
  PROVE  \E in, load : /\ InputOK(in) /\ LoadOK(load) /\ Clk(load, in) /\ Hosting(load)
                       /\ aborted' \in BOOLEAN /\ loads' \in Seq(Ctl!Load)
<1>1. PICK in \in Inputs : ClkProgram(in) \/ ClkLoad(in) \/ ClkAbort(in) \/ ClkRun(in)
  BY DEF ClkTick
<1>2. InputOK(in)
  <2>1. CASE in = NoInput
    BY <2>1 DEF NoInput, InputOK
  <2>2. CASE in = Answer /\ reads # << >>
    <3>1. Head(reads) \in Request
      BY <2>2 DEF HostTypes
    <3>2. memory[Head(reads).at] \in Nat
      BY <3>1 DEF HostTypes, Request
    <3> QED BY <2>2, <3>2 DEF Answer, InputOK
  <2>3. CASE in = Refusal /\ reads # << >>
    BY <2>3 DEF Refusal, NoInput, InputOK
  <2> QED BY <1>1, <2>1, <2>2, <2>3, Zenon DEF Inputs, Prompt
<1>3. LoadOK(NoLoad) /\ LoadOK(AbortLoad)
  BY DEF NoLoad, AbortLoad, LoadOK
<1>4. loads \in Seq(Ctl!Load)
  BY DEF HostTypes
<1>5. CASE ClkProgram(in)
  <2>1. Clk(NoLoad, in) /\ Programming(NoLoad)
    BY <1>5, Zenon DEF ClkProgram, Programming
  <2>2. loads' \in Seq(Ctl!Load)
    BY <2>1, WritesTyped DEF Programming
  <2> QED BY <1>2, <1>3, <2>1, <2>2, Zenon DEF Programming, Hosting
<1>6. CASE ClkLoad(in)
  <2>1. /\ Clk(Head(loads), in) /\ Writing(Head(loads))
    BY <1>6, Zenon DEF ClkLoad, Writing
  <2>2. Head(loads) \in Ctl!Load /\ loads' \in Seq(Ctl!Load)
    BY <1>4, <2>1 DEF Writing
  <2> QED BY <1>2, <2>1, <2>2, LoadForm, Zenon DEF Writing, Hosting, HostTypes
<1>7. CASE ClkAbort(in)
  <2>1. Clk(AbortLoad, in) /\ Aborting(AbortLoad)
    BY <1>7, Zenon DEF ClkAbort, Aborting
  <2> QED BY <1>2, <1>3, <1>4, <2>1, Zenon DEF Aborting, Hosting
<1>8. CASE ClkRun(in)
  <2>1. Clk(NoLoad, in) /\ Waiting(NoLoad)
    BY <1>8, Zenon DEF ClkRun, Waiting
  <2> QED BY <1>2, <1>3, <1>4, <2>1, Zenon DEF Waiting, Hosting, HostTypes
<1> QED BY <1>1, <1>5, <1>6, <1>7, <1>8

(* An edge of clk_i keeps the types. *)
LEMMA TypesClk ==
  ASSUME Types, NEW in, NEW load, InputOK(in), LoadOK(load), Clk(load, in),
         aborted' \in BOOLEAN, loads' \in Seq(Ctl!Load)
  PROVE  Types'
<1> DEFINE high == host_addr \div LowSpan
           low  == host_addr % LowSpan
           at   == carrier_addr % CarrierSpan
<1>1. CarrierSpan \in Nat \ {0} /\ AddrSpan = CarrierSpan /\ LowSpan \in Nat \ {0}
  BY RequestConstants, EngineConstants, PacketConstants
<1>2. /\ len \in Nat /\ high \in Int /\ low \in Int /\ at \in Cells /\ at \in Nat
      /\ abort \in BOOLEAN /\ start_l2p \in BOOLEAN /\ start_p2l \in BOOLEAN /\ start_next \in BOOLEAN
  BY <1>1 DEF Types, CtlTypes, Cells
<1>3. /\ Ctl!Tick(load, CtrlDone, CtrlError, Fetched)
      /\ PacketTick(start_l2p, len, high, low, abort, arb_gnt = "ldm", TRUE, TRUE)
      /\ TargetCnt(start_l2p, l2p_state = "L2P_IDLE", at, len)
      /\ RequestTick(start_p2l, start_next, at, high, low, len, abort, arb_gnt = "pdm", in)
      /\ ArbiterTick(Req, Bus) /\ Receive(in) /\ UNCHANGED dmaVars
  BY <1>1, Zenon DEF Clk
<1>4. CtlTypes'
  BY <1>3, CtlTyped DEF Types
<1> HIDE DEF high, low, at
<1>5. PacketTypes' /\ OutputOK'
  <2>1. len \in Int
    BY <1>2
  <2> QED BY <1>2, <1>3, <2>1, PacketTyped DEF Types
<1>6. FetchTypes'
  <2>1. /\ target_addr_cnt' \in Cells /\ dma_length_cnt' \in Nat
        /\ addr_fifo_wr' \in BOOLEAN /\ addr_fifo_din' \in Cells /\ addr_fifo' \in Seq(Cells)
    BY <1>2, <1>3, TargetTyped DEF Types
  <2> QED BY <1>3, <2>1 DEF dmaVars, busVars, Types, FetchTypes
<1>7. RequestTypes'
  <2>1. len \in Int
    BY <1>2
  <2> QED BY <1>2, <1>3, <2>1, RequestTyped DEF Types
<1>8. WriterTypes'
  BY <1>3 DEF dmaVars, writerVars, Types, WriterTypes
<1>9. HostTypes'
  <2>1. arb_gnt' \in Sources \cup {"none"} /\ WordOK(ser_t'.word) /\ WordOK(ser_o'.word)
    BY <1>3, ArbiterTyped DEF Types, PacketTypes, RequestTypes
  <2>2. rx' \in Packet /\ reads' \in Seq(Request) /\ memory' \in [0 .. HostSpan - 1 -> Nat]
    BY <1>3, ReceiveTyped DEF Types
  <2>3. slave' = slave /\ carrier' = carrier
    BY <1>3 DEF dmaVars
  <2>4. slave' \in Seq(Nat) /\ carrier' \in [Cells -> Nat]
    BY <2>3 DEF Types, HostTypes
  <2> QED BY <2>1, <2>2, <2>4 DEF HostTypes
<1> QED BY <1>4, <1>5, <1>6, <1>7, <1>8, <1>9 DEF Types

(* An edge of dma_clk_i keeps the types. *)
LEMMA TypesDmaClk ==
  ASSUME Types, NEW stall \in BOOLEAN, NEW ack \in BOOLEAN, DmaClk(stall, ack)
  PROVE  Types'
<1> DEFINE word   == IF ack THEN Head(slave) ELSE 0
           accept == DmaWbMux.stb /\ ~stall
           answer == IF DmaWbMux.we THEN 0 ELSE carrier[DmaWbMux.adr]
<1>1. /\ ack => slave # << >>
      /\ BusTick(stall, ack, word, p2l_cyc) /\ WriterTick(stall, ack, l2p_cyc)
      /\ slave' = (IF ack THEN Tail(slave) ELSE slave) \o (IF accept THEN << answer >> ELSE << >>)
      /\ carrier' = IF accept /\ DmaWbMux.we THEN [carrier EXCEPT ![DmaWbMux.adr] = DmaWbMux.dat]
                    ELSE carrier
      /\ UNCHANGED <<clkVars, hostVars>>
  BY DEF DmaClk
<1>2. /\ CarrierSpan \in Nat \ {0} /\ CntSpan \in Nat \ {0} /\ WrCntSpan \in Nat \ {0}
  BY RequestConstants, FetchConstants, WriteConstants
<1>3. word \in Nat
  BY <1>1 DEF Types, HostTypes
<1>4. /\ DmaWbMux.dat \in Nat
      /\ ~DmaWbMux.we => DmaWbMux.adr \in Cells
  <2>1. l2p_adr \in Cells /\ p2l_dat \in Nat
    BY DEF Types, FetchTypes, WriterTypes
  <2>2. 0 \in Cells
    BY <1>2 DEF Cells
  <2>3. CASE l2p_cyc
    BY <2>1, <2>3 DEF DmaWbMux
  <2>4. CASE ~l2p_cyc /\ p2l_cyc
    BY <2>1, <2>4 DEF DmaWbMux
  <2>5. CASE ~l2p_cyc /\ ~p2l_cyc
    BY <2>2, <2>5 DEF DmaWbMux
  <2> QED BY <2>3, <2>4, <2>5
<1>5. answer \in Nat
  BY <1>4 DEF Types, HostTypes
<1> HIDE DEF word, answer, accept
<1>6. slave' \in Seq(Nat)
  <2>1. slave \in Seq(Nat)
    BY DEF Types, HostTypes
  <2>2. (IF ack THEN Tail(slave) ELSE slave) \in Seq(Nat)
    BY <1>1, <2>1
  <2>3. (IF accept THEN << answer >> ELSE << >>) \in Seq(Nat)
    BY <1>5
  <2> QED BY <1>1, <2>2, <2>3, ConcatProperties, Zenon
<1>7. carrier' \in [Cells -> Nat]
  BY <1>1, <1>4 DEF Types, HostTypes
<1>8. HostTypes'
  <2>1. UNCHANGED <<arb_gnt, ser_t, ser_o, rx, reads, memory, aborted, loads>>
    BY <1>1 DEF clkVars, hostVars, arbiterVars
  <2> QED BY <1>6, <1>7, <2>1 DEF Types, HostTypes
<1>9. CtlTypes'
  BY <1>1 DEF clkVars, ctlVars, Types, CtlTypes
<1>10. /\ UNCHANGED pktVars /\ UNCHANGED fsmVars /\ UNCHANGED <<data_fifo_valid, data_fifo_dout>>
       /\ UNCHANGED targetVars /\ UNCHANGED readReqVars /\ UNCHANGED requestFsmVars
       /\ UNCHANGED captureVars
  BY <1>1 DEF clkVars
<1>11. /\ data_fifo' = IF ack /\ l2p_cyc THEN Append(data_fifo, word) ELSE data_fifo
       /\ data_fifo \in Seq(Nat)
  BY <1>1 DEF BusTick, Types, PacketTypes
<1>12. data_fifo' \in Seq(Nat) /\ (data_fifo # << >> => data_fifo' # << >>)
  BY <1>3, <1>11
<1>13. PacketTypes'
  BY <1>10, <1>12 DEF pktVars, fsmVars, Types, PacketTypes
<1>14. OutputOK'
  BY <1>10, <1>12 DEF fsmVars, Types, OutputOK
<1>15. FetchTypes'
  <2>1. UNCHANGED <<target_addr_cnt, dma_length_cnt, addr_fifo_wr, addr_fifo_din>>
    BY <1>10 DEF targetVars
  <2>2. addr_fifo' \in Seq(Cells) /\ addr_fifo_dout' \in Cells
    <3>1. CASE AddrFifoRd(stall, p2l_cyc)
      <4>1. addr_fifo # << >> /\ addr_fifo \in Seq(Cells)
        BY <3>1 DEF AddrFifoRd, Types, FetchTypes
      <4>2. addr_fifo_dout' = Head(addr_fifo) /\ addr_fifo' = Tail(addr_fifo)
        BY <1>1, <3>1, Zenon DEF BusTick
      <4> QED BY <4>1, <4>2
    <3>2. CASE ~AddrFifoRd(stall, p2l_cyc)
      BY <1>1, <3>2, Zenon DEF BusTick, Types, FetchTypes
    <3> QED BY <3>1, <3>2
  <2>3. l2p_adr' \in Cells
    BY <1>1, Zenon DEF BusTick, Types, FetchTypes
  <2>4. addr_fifo_valid' \in BOOLEAN /\ l2p_stb' \in BOOLEAN /\ l2p_cyc' \in BOOLEAN
    BY <1>1, Zenon DEF BusTick, AddrFifoRd, Types, FetchTypes
  <2>5. wb_read_cnt' \in 0 .. CntSpan - 1 /\ wb_ack_cnt' \in 0 .. CntSpan - 1
    BY <1>1, <1>2 DEF BusTick, Types, FetchTypes
  <2> QED BY <2>1, <2>2, <2>3, <2>4, <2>5 DEF Types, FetchTypes
<1>16. WriterTypes' /\ to_wb_fifo' \in Seq(Nat \X Nat)
  <2>1. to_wb_fifo' \in Seq(Nat \X Nat) /\ to_wb_fifo_dout' \in Nat \X Nat
    <3>1. CASE ToWbFifoRd(stall, l2p_cyc)
      <4>1. to_wb_fifo # << >> /\ to_wb_fifo \in Seq(Nat \X Nat)
        BY <3>1 DEF ToWbFifoRd, Types, RequestTypes
      <4>2. to_wb_fifo_dout' = Head(to_wb_fifo) /\ to_wb_fifo' = Tail(to_wb_fifo)
        BY <1>1, <3>1, Zenon DEF WriterTick
      <4> QED BY <4>1, <4>2
    <3>2. CASE ~ToWbFifoRd(stall, l2p_cyc)
      BY <1>1, <3>2, Zenon DEF WriterTick, Types, RequestTypes, WriterTypes
    <3> QED BY <3>1, <3>2
  <2>2. p2l_adr' \in Nat /\ p2l_dat' \in Nat
    BY <1>1 DEF WriterTick, Types, WriterTypes
  <2>3. to_wb_fifo_valid' \in BOOLEAN /\ p2l_stb' \in BOOLEAN /\ p2l_cyc' \in BOOLEAN
    BY <1>1, Zenon DEF WriterTick, ToWbFifoRd, Types, WriterTypes
  <2>4. wb_write_cnt' \in 0 .. WrCntSpan - 1 /\ p2l_ack_cnt' \in 0 .. WrCntSpan - 1
    BY <1>1, <1>2 DEF WriterTick, Types, WriterTypes
  <2> QED BY <2>1, <2>2, <2>3, <2>4 DEF WriterTypes
<1>17. RequestTypes'
  BY <1>10, <1>16 DEF readReqVars, requestFsmVars, captureVars, Types, RequestTypes
<1> QED BY <1>8, <1>9, <1>13, <1>14, <1>15, <1>16, <1>17 DEF Types

(* The initial registers and memories hold what their types say. *)
LEMMA TypesInit == ASSUME Init PROVE Types
<1>1. /\ CarrierSpan \in Nat \ {0} /\ CntSpan \in Nat \ {0} /\ WrCntSpan \in Nat \ {0}
      /\ HostSpan \in Nat \ {0} /\ LowSpan \in Nat \ {0} /\ 0 \in Cells /\ 0 \in Nat
  BY RequestConstants, FetchConstants, WriteConstants, PacketConstants DEF HostSpan, Cells
<1>2. /\ Ctl!Init /\ ArbiterInit /\ PacketInit /\ FetchInit /\ RequestInit /\ WriterInit
      /\ loads = << >> /\ rx = NoPacket /\ reads = << >>
      /\ memory = FirstMemory /\ slave = << >> /\ carrier = FirstCarrier /\ aborted = FALSE
  BY DEF Init
<1>3. CtlTypes
  BY <1>1, <1>2, Zenon DEF Ctl!Init, CtlTypes, Ctl!States
<1>4. PacketTypes /\ OutputOK
  <2>1. WordOK(Zero)
    BY DEF WordOK, Zero, Kinds
  <2>2. << >> \in Seq(Nat) /\ 0 \in Int
    OBVIOUS
  <2> QED BY <1>2, <2>1, <2>2, Zenon DEF PacketInit, PacketTypes, OutputOK, L2pStates
<1>5. FetchTypes
  <2>1. 0 \in 0 .. CntSpan - 1 /\ << >> \in Seq(Cells) /\ 0 \in Nat
    BY <1>1
  <2> QED BY <1>1, <1>2, <2>1, Zenon DEF FetchInit, FetchTypes
<1>6. RequestTypes
  <2>1. WordOK(ReadZero)
    BY DEF WordOK, ReadZero, Kinds
  <2>2. << >> \in Seq(Nat \X Nat) /\ 0 \in Int /\ 0 \in Nat /\ <<0, 0>> \in Nat \X Nat
    OBVIOUS
  <2>3. next_item \in [1 .. 7 -> Nat]
    BY <1>2 DEF RequestInit
  <2> QED BY <1>2, <2>1, <2>2, <2>3, Zenon DEF RequestInit, RequestTypes, P2lStates
<1>7. WriterTypes
  <2>1. 0 \in 0 .. WrCntSpan - 1 /\ 0 \in Nat /\ <<0, 0>> \in Nat \X Nat
    BY <1>1
  <2> QED BY <1>2, <2>1, Zenon DEF WriterInit, WriterTypes
<1>8. HostTypes
  <2>1. /\ arb_gnt \in Sources \cup {"none"} /\ WordOK(ser_t.word) /\ WordOK(ser_o.word)
    <3>1. WordOK(Silent.word)
      BY DEF Silent, WordOK, Kinds
    <3> QED BY <1>2, <3>1, Zenon DEF ArbiterInit
  <2>2. rx \in Packet /\ reads \in Seq(Request) /\ slave \in Seq(Nat) /\ loads \in Seq(Ctl!Load)
    BY <1>2 DEF NoPacket, Packet, Kinds
  <2>3. memory \in [0 .. HostSpan - 1 -> Nat]
    <3>1. \A it \in Ctl!Item, i \in 1 .. 7 : ItemWord(it, i) \in Nat
      <4> SUFFICES ASSUME NEW it \in Ctl!Item, NEW i \in 1 .. 7 PROVE ItemWord(it, i) \in Nat
        OBVIOUS
      <4>1. /\ it.carrier \in Nat /\ it.host \in Nat /\ it.len \in Nat /\ it.next \in Nat
            /\ it.more \in BOOLEAN /\ it.p2l \in BOOLEAN
        BY <1>1 DEF Ctl!Item
      <4>2. Bit(it.more) \in Nat /\ Bit(it.p2l) \in Nat
        BY DEF Bit
      <4>3. \A n \in Nat : n % LowSpan \in Nat /\ n \div LowSpan \in Nat
        BY <1>1
      <4>4. Bit(it.more) + 2 * Bit(it.p2l) \in Nat
        BY <4>2
      <4>5. CASE i = 1 \/ i = 4 \/ i = 7
        BY <4>1, <4>4, <4>5 DEF ItemWord
      <4>6. CASE i = 2 \/ i = 3
        BY <4>1, <4>3, <4>6 DEF ItemWord
      <4>7. CASE i = 5 \/ i = 6
        BY <4>1, <4>3, <4>7 DEF ItemWord
      <4> QED BY <4>5, <4>6, <4>7
    <3>2. \A a \in 0 .. HostSpan - 1 : FirstMemory[a] \in Nat
      <4> SUFFICES ASSUME NEW a \in 0 .. HostSpan - 1 PROVE FirstMemory[a] \in Nat
        OBVIOUS
      <4> DEFINE here == {b \in DOMAIN Listing : a \in b .. b + ItemWords - 1}
                 b    == CHOOSE c \in DOMAIN Listing : a \in c .. c + ItemWords - 1
      <4>1. CASE \E c \in DOMAIN Listing : a \in c .. c + ItemWords - 1
        <5>1. b \in DOMAIN Listing /\ a \in b .. b + ItemWords - 1
          BY <4>1
        <5>2. FirstMemory[a] = ItemWord(Listing[b], a - b + 1)
          BY <4>1, Zenon DEF FirstMemory
        <5> HIDE DEF b
        <5>3. b \in 0 .. HostSpan - 1 /\ Listing[b] \in Ctl!Item
          BY <5>1, EngineItems
        <5>4. a - b + 1 \in 1 .. 7
          BY <1>1, <5>1, <5>3 DEF ItemWords
        <5> QED BY <3>1, <5>2, <5>3, <5>4
      <4>2. CASE ~\E c \in DOMAIN Listing : a \in c .. c + ItemWords - 1
        BY <1>1, <4>2 DEF FirstMemory
      <4> QED BY <4>1, <4>2
    <3>3. FirstMemory = [a \in 0 .. HostSpan - 1 |-> FirstMemory[a]]
      BY Zenon DEF FirstMemory
    <3> QED BY <1>2, <3>2, <3>3
  <2>4. carrier \in [Cells -> Nat]
    BY <1>1, <1>2 DEF FirstCarrier, Cells
  <2> QED BY <1>2, <2>1, <2>2, <2>3, <2>4 DEF HostTypes
<1> QED BY <1>3, <1>4, <1>5, <1>6, <1>7, <1>8 DEF Types

-----------------------------------------------------------------------------
(* The argument.  The engine never works on two things at once: a master   *)
(* is at rest when the other one is started, and both are when the         *)
(* controller starts anything, so that a done line can only be that of the *)
(* master started last.                                                    *)

One(b) == IF b THEN 1 ELSE 0

(* The L2P master has nothing to do and nothing under way. *)
L2pStill == /\ l2p_state = "L2P_IDLE" /\ dma_length_cnt = 0 /\ ~addr_fifo_wr
            /\ addr_fifo = << >> /\ ~addr_fifo_valid /\ ~l2p_stb /\ ~l2p_cyc
            /\ data_fifo = << >>

(* The P2L master has nothing to do and nothing to report. *)
P2lStill == p2l_state = "P2L_IDLE" /\ ~pdm_done_t /\ ~pdm_done /\ ~next_item_valid

Resting == L2pStill /\ ~ldm_done /\ P2lStill

Busy == p2l_state # "P2L_IDLE"

(* A start strobe belongs to the state that waits for its answer. *)
Strobes == /\ start_l2p => state = "DMA_TRANSFER" /\ ~attrib_p2l
           /\ start_p2l => state = "DMA_TRANSFER" /\ attrib_p2l
           /\ start_next => state = "DMA_CHAIN"
           /\ abort => state \in {"DMA_ABORT", "DMA_START_TRANSFER"}

(* Whatever can lead to a start finds both masters at rest. *)
Starts ==
    /\ (\/ state \in {"DMA_IDLE", "DMA_START_TRANSFER", "DMA_START_CHAIN"}
        \/ ctrl_start \/ loads # << >> \/ start_l2p \/ start_p2l \/ start_next) => Resting
    /\ ctrl_start => ~Ctl!Running
    /\ loads # << >> => state \in {"DMA_IDLE", "DMA_ERROR", "DMA_ABORT"} /\ ~ctrl_start
    /\ \A i \in 1 .. Len(loads) - 1 : loads[i].reg # "ctrl"

(* The abort bit stays set until the next list clears it. *)
Kills == /\ aborted => ctrl_abort
         /\ loads # << >> => ~aborted

(* While one master works the other one is at rest. *)
Turns ==
    /\ state = "DMA_TRANSFER" /\ attrib_p2l =>
         L2pStill /\ ~ldm_done /\ ~next_item_valid /\ (Busy => ~is_next_item)
    /\ state = "DMA_TRANSFER" /\ ~attrib_p2l => P2lStill
    /\ state = "DMA_CHAIN" => L2pStill /\ ~ldm_done
    /\ Busy \/ next_item_valid => L2pStill /\ ~ldm_done
    /\ Busy => ~pdm_done_t /\ ~pdm_done /\ ~next_item_valid
    /\ pdm_done_t => ~pdm_done /\ ~next_item_valid
    /\ pdm_done => ~next_item_valid

(* The accesses a counter pair says are open. *)
Open(issued, acked, n, span) == issued = acked + n \/ issued = acked + n - span

(* Nothing of a P2L transfer is on its way to the carrier. *)
P2lLanded == /\ ~p2l_stb /\ ~to_wb_fifo_valid /\ to_wb_fifo = << >> /\ ~to_wb_fifo_wr
             /\ ~p2l_cyc

(* The bus is held for the reads of the L2P master, or for the writes of   *)
(* the P2L master: the accesses the slave has are all of the one kind.     *)
ReadsHeld == /\ P2lLanded /\ wb_write_cnt = p2l_ack_cnt
             /\ Open(wb_read_cnt, wb_ack_cnt, One(l2p_stb) + Len(slave), CntSpan)
             /\ l2p_cyc <=> l2p_stb \/ slave # << >>
WritesHeld == /\ L2pStill /\ wb_read_cnt = wb_ack_cnt
              /\ Open(wb_write_cnt, p2l_ack_cnt, One(p2l_stb) + Len(slave), WrCntSpan)
              /\ p2l_cyc <=> p2l_stb \/ slave # << >>
Held == (ReadsHeld \/ WritesHeld) /\ Len(slave) <= BusDepth

(* The words of an L2P transfer that are not in a packet yet: their        *)
(* addresses are to be generated or under way, or they are in the FIFO.    *)
Ahead  == dma_length_cnt + One(addr_fifo_wr) + Len(addr_fifo)
Flight == Ahead + One(addr_fifo_valid) + One(l2p_stb) + Len(slave) + Len(data_fifo)

(* The size of a packet is that of what is left, at most MaxPayload. *)
Loaded == /\ l2p_data_cnt = (IF l2p_len_cnt > MaxPayload THEN MaxPayload ELSE l2p_len_cnt)
          /\ l2p_last_packet <=> l2p_len_cnt <= MaxPayload

(* Neither a word too many nor one too few: when the counters of p_pkt_gen *)
(* are down to zero no word of the transfer is left anywhere.              *)
Counts ==
    /\ l2p_state \in {"L2P_IDLE", "L2P_HEADER", "L2P_ADDR_H", "L2P_ADDR_L"} =>
         /\ Flight = l2p_len_cnt
         /\ l2p_state # "L2P_IDLE" => l2p_len_cnt > 0
         /\ data_fifo_rd <=> l2p_state = "L2P_ADDR_L"
    /\ l2p_state \in {"L2P_ADDR_H", "L2P_ADDR_L"} => Loaded
    /\ l2p_state = "L2P_DATA" => /\ data_fifo_rd /\ data_fifo_valid
                                 /\ l2p_data_cnt \in 2 .. MaxPayload /\ l2p_len_cnt >= 0
                                 /\ Flight = l2p_data_cnt - 1 + l2p_len_cnt
    /\ l2p_state = "L2P_WAIT_DATA" => /\ data_fifo_rd /\ ~data_fifo_valid
                                      /\ l2p_data_cnt \in 1 .. MaxPayload /\ l2p_len_cnt >= 0
                                      /\ Flight = l2p_data_cnt + l2p_len_cnt
    /\ l2p_state = "L2P_LAST_DATA" => /\ ~data_fifo_rd /\ l2p_len_cnt >= 0
                                      /\ Flight = l2p_len_cnt
    /\ l2p_state # "L2P_WAIT_RDY" /\ ~ldm_done
Counted == state \notin {"DMA_ABORT", "DMA_ERROR"} => L2pStill \/ Counts

IInv == Types /\ Strobes /\ Starts /\ Kills /\ Turns /\ Held /\ Counted

(* The carrier takes the words of a P2L transfer before the next start,    *)
(* and a cycle has fewer accesses open than the counters can tell apart.   *)
Settled == "slow" \notin Env /\ BusDepth < CntSpan /\ BusDepth < WrCntSpan

(* An edge of clk_i is a tick of every process on that clock. *)
LEMMA ClkParts ==
  ASSUME NEW load, NEW in, Clk(load, in)
  PROVE  /\ start_l2p => "slow" \in Env \/ Landed
         /\ l2p_state = "L2P_ADDR_L" /\ data_fifo = << >> => aborted
         /\ Ctl!PRegs(load, Fetched) /\ Ctl!PFsm(CtrlDone, CtrlError, Fetched)
         /\ PktGen(start_l2p, len, host_addr \div LowSpan, host_addr % LowSpan)
         /\ FifoRead /\ L2pFsm(abort, arb_gnt = "ldm", TRUE, TRUE)
         /\ TargetCnt(start_l2p, l2p_state = "L2P_IDLE", carrier_addr % AddrSpan, len)
         /\ ReadReq(start_p2l, start_next, host_addr \div LowSpan, host_addr % LowSpan, len)
         /\ RequestFsm(start_p2l, start_next, abort, arb_gnt = "pdm", in)
         /\ CtrlPipe /\ AddrCnt(start_p2l, carrier_addr % CarrierSpan, in)
         /\ UNCHANGED dmaVars
<1>1. /\ start_l2p => "slow" \in Env \/ Landed
      /\ l2p_state = "L2P_ADDR_L" /\ data_fifo = << >> => aborted
      /\ Ctl!Tick(load, CtrlDone, CtrlError, Fetched)
      /\ PacketTick(start_l2p, len, host_addr \div LowSpan, host_addr % LowSpan,
                    abort, arb_gnt = "ldm", TRUE, TRUE)
      /\ TargetCnt(start_l2p, l2p_state = "L2P_IDLE", carrier_addr % AddrSpan, len)
      /\ RequestTick(start_p2l, start_next, carrier_addr % CarrierSpan,
                     host_addr \div LowSpan, host_addr % LowSpan, len,
                     abort, arb_gnt = "pdm", in)
      /\ UNCHANGED dmaVars
  BY Zenon DEF Clk
<1> QED BY <1>1, Zenon DEF Ctl!Tick, PacketTick, RequestTick

(* An L2P master that is not started stays at rest and reports nothing. *)
LEMMA StillClk ==
  ASSUME Types, L2pStill, ~start_l2p, NEW load, NEW in, Clk(load, in)
  PROVE  L2pStill' /\ ~ldm_done'
<1>1. /\ FifoRead /\ L2pFsm(abort, arb_gnt = "ldm", TRUE, TRUE)
      /\ TargetCnt(start_l2p, l2p_state = "L2P_IDLE", carrier_addr % AddrSpan, len)
      /\ UNCHANGED dmaVars
  BY ClkParts, Zenon
<1>2. L2pIdle
  BY <1>1 DEF L2pStill, L2pFsm, L2pHeader, L2pAddrH, L2pAddrL, L2pData, L2pWaitRdy,
              L2pWaitData, L2pLastData
<1>3. l2p_state' = "L2P_IDLE" /\ ldm_done' = FALSE
  BY <1>2, Zenon DEF L2pIdle, L2pStill
<1>4. data_fifo' = << >>
  BY <1>1, Zenon DEF FifoRead, L2pStill
<1>5. dma_length_cnt' = 0 /\ addr_fifo_wr' = FALSE /\ addr_fifo' = << >>
  BY <1>1, Zenon DEF TargetCnt, L2pStill
<1>6. addr_fifo_valid' = addr_fifo_valid /\ l2p_stb' = l2p_stb /\ l2p_cyc' = l2p_cyc
  BY <1>1, Zenon DEF dmaVars, busVars
<1> QED BY <1>3, <1>4, <1>5, <1>6, Zenon DEF L2pStill

(* An L2P master at rest stays so when the carrier's clock runs. *)
LEMMA StillDmaClk ==
  ASSUME Types, L2pStill, NEW stall \in BOOLEAN, NEW ack \in BOOLEAN, DmaClk(stall, ack)
  PROVE  L2pStill'
<1> DEFINE word == IF ack THEN Head(slave) ELSE 0
<1>1. BusTick(stall, ack, word, p2l_cyc) /\ UNCHANGED clkVars
  BY DEF DmaClk
<1>2. l2p_state' = l2p_state /\ dma_length_cnt' = dma_length_cnt /\ addr_fifo_wr' = addr_fifo_wr
  BY <1>1, Zenon DEF clkVars, fsmVars, targetVars
<1> HIDE DEF word
<1>3. ~AddrFifoRd(stall, p2l_cyc)
  BY Zenon DEF AddrFifoRd, L2pStill
<1>4. /\ addr_fifo' = addr_fifo /\ ~addr_fifo_valid' /\ ~l2p_stb' /\ ~l2p_cyc'
      /\ data_fifo' = data_fifo
  <2>1. ~addr_fifo_valid /\ ~l2p_cyc
    BY DEF L2pStill
  <2>2. /\ addr_fifo_valid' = AddrFifoRd(stall, p2l_cyc) /\ l2p_stb' = addr_fifo_valid
        /\ l2p_cyc' = (addr_fifo_valid \/ (l2p_cyc /\ ~LastAck(ack)))
        /\ addr_fifo' = IF AddrFifoRd(stall, p2l_cyc) THEN Tail(addr_fifo) ELSE addr_fifo
        /\ data_fifo' = IF ack /\ l2p_cyc THEN Append(data_fifo, word) ELSE data_fifo
    BY <1>1, Zenon DEF BusTick
  <2> QED BY <1>3, <2>1, <2>2, Zenon
<1> QED BY <1>2, <1>4, Zenon DEF L2pStill

(* A P2L master that waits takes a start, and reports what it has done.    *)
LEMMA RequestIdle ==
  ASSUME Types, ~Busy, NEW load, NEW in, Clk(load, in)
  PROVE  /\ ~pdm_done_t' /\ ~next_item_valid' /\ pdm_done' = pdm_done_t
         /\ Busy' <=> start_p2l \/ start_next
         /\ start_p2l \/ start_next => is_next_item' = start_next
         /\ to_wb_fifo_wr' => to_wb_fifo_wr
<1>1. /\ ReadReq(start_p2l, start_next, host_addr \div LowSpan, host_addr % LowSpan, len)
      /\ RequestFsm(start_p2l, start_next, abort, arb_gnt = "pdm", in)
      /\ CtrlPipe /\ AddrCnt(start_p2l, carrier_addr % CarrierSpan, in)
  BY ClkParts, Zenon
<1>2. p2l_state = "P2L_IDLE"
  BY DEF Busy
<1>3. P2lIdle(start_p2l, start_next)
  BY <1>1, <1>2 DEF RequestFsm, P2lHeader, P2lAddrH, P2lAddrL, P2lWait
<1>4. /\ pdm_done_t' = FALSE /\ next_item_valid' = FALSE
      /\ IF start_p2l \/ start_next THEN p2l_state' = "P2L_HEADER" ELSE p2l_state' = p2l_state
  BY <1>3, Zenon DEF P2lIdle
<1>5. Busy' <=> start_p2l \/ start_next
  BY <1>2, <1>4 DEF Busy
<1>6. pdm_done' = pdm_done_t
  BY <1>1, Zenon DEF CtrlPipe
<1>7. start_p2l \/ start_next => is_next_item' = start_next
  <2>1. p2l_state \notin {"P2L_HEADER", "P2L_ADDR_L", "P2L_ADDR_H", "P2L_WAIT_READ_COMPLETION"}
    BY <1>2
  <2> QED BY <1>1, <2>1, Zenon DEF ReadReq
<1>8. to_wb_fifo_wr' => to_wb_fifo_wr
  <2>1. p2l_state # "P2L_WAIT_READ_COMPLETION"
    BY <1>2
  <2> QED BY <1>1, <2>1, Zenon DEF AddrCnt
<1> QED BY <1>4, <1>5, <1>6, <1>7, <1>8, Zenon

(* A P2L master at work reports the end of an item's fetch by              *)
(* next_item_valid and the end of a transfer by its done line.             *)
LEMMA RequestBusy ==
  ASSUME Types, Busy, NEW load, NEW in, Clk(load, in)
  PROVE  /\ pdm_done' = pdm_done_t /\ is_next_item' = is_next_item
         /\ Busy' => pdm_done_t' = pdm_done_t /\ next_item_valid' = next_item_valid
         /\ next_item_valid' => next_item_valid \/ (is_next_item /\ pdm_done_t' = pdm_done_t)
<1>1. /\ ReadReq(start_p2l, start_next, host_addr \div LowSpan, host_addr % LowSpan, len)
      /\ RequestFsm(start_p2l, start_next, abort, arb_gnt = "pdm", in) /\ CtrlPipe
  BY ClkParts, Zenon
<1>2. p2l_state # "P2L_IDLE"
  BY DEF Busy
<1>3. pdm_done' = pdm_done_t
  BY <1>1, Zenon DEF CtrlPipe
<1>4. is_next_item' = is_next_item
  BY <1>1, <1>2, Zenon DEF ReadReq, readReqVars
<1>5. CASE P2lHeader(arb_gnt = "pdm") \/ P2lAddrH \/ P2lAddrL
  <2>1. pdm_done_t' = pdm_done_t /\ next_item_valid' = next_item_valid
    BY <1>5, Zenon DEF P2lHeader, P2lAddrH, P2lAddrL
  <2> QED BY <1>3, <1>4, <2>1, Zenon
<1>6. CASE P2lWait(abort, in)
  <2>1. CASE ~abort /\ RequestServed(in) /\ pdm_last_packet
    <3>1. /\ p2l_state' = "P2L_IDLE"
          /\ next_item_valid' => next_item_valid \/ (is_next_item /\ pdm_done_t' = pdm_done_t)
      BY <1>6, <2>1, Zenon DEF P2lWait
    <3> QED BY <1>3, <1>4, <3>1, Zenon DEF Busy
  <2>2. CASE ~(~abort /\ RequestServed(in) /\ pdm_last_packet)
    <3>1. pdm_done_t' = pdm_done_t /\ next_item_valid' = next_item_valid
      BY <1>6, <2>2, Zenon DEF P2lWait
    <3> QED BY <1>3, <1>4, <3>1, Zenon
  <2> QED BY <2>1, <2>2
<1> QED BY <1>1, <1>2, <1>5, <1>6, Zenon DEF RequestFsm, P2lIdle

(* Both masters at rest stay so until a strobe starts one. *)
LEMMA RestingClk ==
  ASSUME Types, Resting, ~start_l2p, ~start_p2l, ~start_next,
         NEW load, NEW in, Clk(load, in)
  PROVE  Resting' /\ ~Busy'
<1>1. L2pStill' /\ ~ldm_done'
  BY StillClk, Zenon DEF Resting
<1>2. ~Busy /\ ~pdm_done_t
  BY Zenon DEF Resting, P2lStill, Busy
<1>3. ~Busy' /\ ~pdm_done_t' /\ ~pdm_done' /\ ~next_item_valid'
  BY <1>2, RequestIdle, Zenon
<1> QED BY <1>1, <1>3, Zenon DEF Resting, P2lStill, Busy

(* What p_fsm may do from one tick to the next. *)
LEMMA ControllerMoves ==
  ASSUME CtlTypes, Strobes, NEW done, NEW error, NEW it, Ctl!PFsm(done, error, it)
  PROVE  /\ start_l2p' => state = "DMA_START_TRANSFER" /\ state' = "DMA_TRANSFER" /\ ~attrib_p2l
         /\ start_p2l' => state = "DMA_START_TRANSFER" /\ state' = "DMA_TRANSFER" /\ attrib_p2l
         /\ start_next' => state = "DMA_START_CHAIN" /\ state' = "DMA_CHAIN"
         /\ abort' => state' \in {"DMA_ABORT", "DMA_START_TRANSFER"}
         /\ state' = "DMA_IDLE" => state = "DMA_IDLE" \/ (state = "DMA_TRANSFER" /\ done)
         /\ state' = "DMA_START_CHAIN" => state = "DMA_TRANSFER" /\ done
         /\ state' = "DMA_START_TRANSFER" =>
              ctrl_start \/ (state = "DMA_CHAIN" /\ it # NoItem)
         /\ state' = "DMA_TRANSFER" =>
              state = "DMA_START_TRANSFER" \/ (state = "DMA_TRANSFER" /\ ~ctrl_abort)
         /\ state' = "DMA_CHAIN" =>
              state = "DMA_START_CHAIN" \/ (state = "DMA_CHAIN" /\ it = NoItem)
         /\ state \in {"DMA_IDLE", "DMA_ERROR", "DMA_ABORT"} /\ ~ctrl_start => state' = state
<1>1. CASE Ctl!Idle \/ Ctl!Error \/ Ctl!Abort
  <2>1. /\ start_l2p' = start_l2p /\ start_p2l' = start_p2l /\ start_next' = start_next
        /\ state' = IF ctrl_start THEN "DMA_START_TRANSFER" ELSE state
        /\ state \in {"DMA_IDLE", "DMA_ERROR", "DMA_ABORT"}
        /\ abort' = abort \/ state = "DMA_ABORT"
    BY <1>1, Zenon DEF Ctl!Idle, Ctl!Error, Ctl!Abort
  <2>2. ~start_l2p /\ ~start_p2l /\ ~start_next /\ (abort => state = "DMA_ABORT")
    BY <2>1 DEF Strobes
  <2>3. ~start_l2p' /\ ~start_p2l' /\ ~start_next' /\ (abort' => state = "DMA_ABORT")
    BY <2>1, <2>2
  <2>4. CASE ctrl_start
    <3>1. state' = "DMA_START_TRANSFER"
      BY <2>1, <2>4, Zenon
    <3> QED BY <2>3, <2>4, <3>1, Zenon
  <2>5. CASE ~ctrl_start
    <3>1. state' = state
      BY <2>1, <2>5, Zenon
    <3> QED BY <2>1, <2>3, <2>5, <3>1, Zenon
  <2> QED BY <2>4, <2>5
<1>2. CASE Ctl!StartTransfer
  <2>1. /\ abort' = FALSE /\ state = "DMA_START_TRANSFER" /\ start_next' = start_next
        /\ \/ /\ state' = "DMA_ERROR" /\ start_l2p' = start_l2p /\ start_p2l' = start_p2l
           \/ /\ state' = "DMA_TRANSFER" /\ ~attrib_p2l /\ start_p2l' = start_p2l
           \/ /\ state' = "DMA_TRANSFER" /\ attrib_p2l /\ start_l2p' = start_l2p
    BY <1>2, Zenon DEF Ctl!StartTransfer
  <2>2. ~start_l2p /\ ~start_p2l /\ ~start_next
    BY <2>1 DEF Strobes
  <2>3. ~start_next' /\ ~abort'
    BY <2>1, <2>2, Zenon
  <2>4. CASE state' = "DMA_ERROR" /\ start_l2p' = start_l2p /\ start_p2l' = start_p2l
    BY <2>1, <2>2, <2>3, <2>4, Zenon
  <2>5. CASE state' = "DMA_TRANSFER" /\ ~attrib_p2l /\ start_p2l' = start_p2l
    BY <2>1, <2>2, <2>3, <2>5, Zenon
  <2>6. CASE state' = "DMA_TRANSFER" /\ attrib_p2l /\ start_l2p' = start_l2p
    BY <2>1, <2>2, <2>3, <2>6, Zenon
  <2> QED BY <2>1, <2>4, <2>5, <2>6
<1>3. CASE Ctl!Transfer(done, error)
  <2>1. /\ state = "DMA_TRANSFER" /\ start_l2p' = FALSE /\ start_p2l' = FALSE
        /\ start_next' = start_next /\ abort' = abort
        /\ \/ state' \in {"DMA_ABORT", "DMA_ERROR"}
           \/ done /\ state' \in {"DMA_START_CHAIN", "DMA_IDLE"}
           \/ state' = state /\ ~ctrl_abort
    BY <1>3 DEF Ctl!Transfer, Ctl!AbortOrError, Ctl!addrs
  <2> QED BY <2>1 DEF Strobes
<1>4. CASE Ctl!StartChain
  BY <1>4 DEF Ctl!StartChain, Strobes
<1>5. CASE Ctl!Chain(error, it)
  <2>1. /\ state = "DMA_CHAIN" /\ start_next' = FALSE
        /\ start_l2p' = start_l2p /\ start_p2l' = start_p2l /\ abort' = abort
        /\ \/ state' \in {"DMA_ABORT", "DMA_ERROR"}
           \/ it # NoItem /\ state' = "DMA_START_TRANSFER"
           \/ it = NoItem /\ state' = state
    BY <1>5 DEF Ctl!Chain, Ctl!AbortOrError, Ctl!addrs
  <2> QED BY <2>1 DEF Strobes
<1> QED BY <1>1, <1>2, <1>3, <1>4, <1>5, Zenon DEF Ctl!PFsm

(* The start bit is set by an item that has been fetched, or by the last   *)
(* write of the host.                                                      *)
LEMMA StartBit ==
  ASSUME NEW load, NEW in, Clk(load, in), Hosting(load)
  PROVE  /\ ctrl_start' => ~ctrl_start
         /\ ctrl_start' => (Fetched # NoItem /\ next_item_valid) \/ (Writing(load) /\ load.reg = "ctrl")
<1>1. Ctl!PRegs(load, Fetched)
  BY ClkParts, Zenon
<1>2. /\ ctrl_start' => ~ctrl_start
      /\ ctrl_start' => Fetched # NoItem \/ (load.reg = "ctrl" /\ load.start)
  BY <1>1, Zenon DEF Ctl!PRegs
<1>3. Fetched # NoItem => next_item_valid
  BY Zenon DEF Fetched
<1>4. /\ Programming(load) \/ Waiting(load) => load.reg = "none"
      /\ Aborting(load) => load.start = FALSE
  BY DEF Programming, Waiting, Aborting, NoLoad, AbortLoad
<1>5. Programming(load) \/ Waiting(load) => load.reg # "ctrl"
  BY <1>4
<1> QED BY <1>2, <1>3, <1>4, <1>5, Zenon DEF Hosting

(* The direction of a transfer does not change while it runs. *)
LEMMA DirectionKept ==
  ASSUME Starts, ~next_item_valid, state \notin {"DMA_IDLE", "DMA_ERROR", "DMA_ABORT"},
         NEW load, NEW in, Clk(load, in), Hosting(load)
  PROVE  attrib_p2l' = attrib_p2l
<1>1. Ctl!PRegs(load, Fetched)
  BY ClkParts, Zenon
<1>2. Fetched = NoItem
  BY Zenon DEF Fetched
<1>3. ~Writing(load)
  BY DEF Writing, Starts
<1>4. load = NoLoad \/ load = AbortLoad
  BY <1>3, Zenon DEF Hosting, Programming, Waiting, Aborting
<1>5. load.reg # "attrib"
  BY <1>4 DEF NoLoad, AbortLoad
<1> QED BY <1>1, <1>2, <1>5, Zenon DEF Ctl!PRegs

(* What the controller starts, or could start, finds both masters at rest: *)
(* the cases of a tick of clk_i in which they must be.                     *)
LEMMA RestAgain ==
  ASSUME Types, Strobes, Starts, Turns, Counted, NEW load, NEW in, Clk(load, in), Hosting(load),
         (\/ state' \in {"DMA_IDLE", "DMA_START_TRANSFER", "DMA_START_CHAIN"}
          \/ state \in {"DMA_IDLE", "DMA_START_TRANSFER", "DMA_START_CHAIN"}
          \/ ctrl_start \/ ctrl_start' \/ loads # << >>)
  PROVE  Resting'
<1>1. Ctl!PFsm(CtrlDone, CtrlError, Fetched) /\ CtlTypes
  BY ClkParts, Zenon DEF Types
<1>2. ASSUME Resting, state # "DMA_TRANSFER", state # "DMA_CHAIN" PROVE Resting'
  <2>1. ~start_l2p /\ ~start_p2l /\ ~start_next
    BY <1>2, Zenon DEF Strobes
  <2> QED BY <1>2, <2>1, RestingClk, Zenon
<1>3. ASSUME state \in {"DMA_IDLE", "DMA_START_TRANSFER", "DMA_START_CHAIN"} PROVE Resting'
  <2>1. Resting
    BY <1>3, Zenon DEF Starts
  <2>2. state # "DMA_TRANSFER" /\ state # "DMA_CHAIN"
    BY <1>3
  <2> QED BY <1>2, <2>1, <2>2, Zenon
(* The end of a transfer: the master that was started is at rest again. *)
<1>4. ASSUME state = "DMA_TRANSFER", CtrlDone PROVE Resting'
  <2>1. ~start_l2p /\ ~start_p2l /\ ~start_next
    <3>1. ldm_done \/ pdm_done
      BY <1>4, Zenon DEF CtrlDone
    <3>2. ~Resting
      BY <3>1, Zenon DEF Resting, P2lStill
    <3> QED BY <3>2, Zenon DEF Starts
  <2>2. L2pStill
    <3>1. CASE attrib_p2l
      BY <1>4, <3>1, Zenon DEF Turns
    <3>2. CASE ~attrib_p2l
      <4>1. ldm_done
        BY <1>4, <3>2, Zenon DEF Turns, CtrlDone, P2lStill
      <4>2. state \notin {"DMA_ABORT", "DMA_ERROR"}
        BY <1>4
      <4> QED BY <4>1, <4>2, Zenon DEF Counted, Counts
    <3> QED BY <3>1, <3>2
  <2>3. ~Busy /\ ~pdm_done_t
    <3>1. CASE attrib_p2l
      <4>1. pdm_done
        BY <1>4, <3>1, Zenon DEF Turns, CtrlDone
      <4> QED BY <4>1, Zenon DEF Turns
    <3>2. CASE ~attrib_p2l
      BY <1>4, <3>2, Zenon DEF Turns, P2lStill, Busy
    <3> QED BY <3>1, <3>2
  <2>4. L2pStill' /\ ~ldm_done'
    BY <2>1, <2>2, StillClk, Zenon
  <2>5. ~Busy' /\ ~pdm_done_t' /\ ~pdm_done' /\ ~next_item_valid'
    BY <2>1, <2>3, RequestIdle, Zenon
  <2> QED BY <2>4, <2>5, Zenon DEF Resting, P2lStill, Busy
(* The end of the fetch of an item. *)
<1>5. ASSUME next_item_valid PROVE Resting'
  <2>1. ~start_l2p /\ ~start_p2l /\ ~start_next
    BY <1>5, Zenon DEF Starts, Resting, P2lStill
  <2>2. L2pStill' /\ ~ldm_done'
    BY <1>5, <2>1, StillClk, Zenon DEF Turns
  <2>3. ~Busy /\ ~pdm_done_t
    BY <1>5, Zenon DEF Turns
  <2>4. ~Busy' /\ ~pdm_done_t' /\ ~pdm_done' /\ ~next_item_valid'
    BY <2>1, <2>3, RequestIdle, Zenon
  <2> QED BY <2>2, <2>4, Zenon DEF Resting, P2lStill, Busy
<1>6. ASSUME loads # << >> PROVE Resting'
  <2>1. Resting
    BY <1>6, Zenon DEF Starts
  <2>2. state # "DMA_TRANSFER" /\ state # "DMA_CHAIN"
    BY <1>6 DEF Starts
  <2> QED BY <1>2, <2>1, <2>2, Zenon
<1>7. ASSUME ctrl_start PROVE Resting'
  <2>1. Resting
    BY <1>7, Zenon DEF Starts
  <2>2. state # "DMA_TRANSFER" /\ state # "DMA_CHAIN"
    BY <1>7, Zenon DEF Starts, Ctl!Running
  <2> QED BY <1>2, <2>1, <2>2, Zenon
<1>8. ASSUME ctrl_start' PROVE Resting'
  BY <1>5, <1>6, <1>8, StartBit, Zenon DEF Writing
<1>9. ASSUME state' \in {"DMA_IDLE", "DMA_START_TRANSFER", "DMA_START_CHAIN"} PROVE Resting'
  <2>1. \/ state = "DMA_IDLE" \/ (state = "DMA_TRANSFER" /\ CtrlDone)
        \/ ctrl_start \/ (state = "DMA_CHAIN" /\ Fetched # NoItem)
    <3>1. /\ state' = "DMA_IDLE" => state = "DMA_IDLE" \/ (state = "DMA_TRANSFER" /\ CtrlDone)
          /\ state' = "DMA_START_CHAIN" => state = "DMA_TRANSFER" /\ CtrlDone
          /\ state' = "DMA_START_TRANSFER" =>
               ctrl_start \/ (state = "DMA_CHAIN" /\ Fetched # NoItem)
      BY <1>1, ControllerMoves
    <3> QED BY <1>9, <3>1, Zenon
  <2>2. Fetched # NoItem => next_item_valid
    BY Zenon DEF Fetched
  <2> QED BY <1>3, <1>4, <1>5, <1>7, <2>1, <2>2, Zenon
<1> QED BY <1>3, <1>6, <1>7, <1>8, <1>9, Zenon

-----------------------------------------------------------------------------
(* An edge of clk_i keeps each part of the invariant.                      *)

(* Each strobe follows the state that raises it. *)
LEMMA StrobesClk ==
  ASSUME Types, Strobes, Starts, NEW load, NEW in, Clk(load, in), Hosting(load)
  PROVE  Strobes'
<1>1. /\ start_l2p' => state = "DMA_START_TRANSFER" /\ state' = "DMA_TRANSFER" /\ ~attrib_p2l
      /\ start_p2l' => state = "DMA_START_TRANSFER" /\ state' = "DMA_TRANSFER" /\ attrib_p2l
      /\ start_next' => state' = "DMA_CHAIN"
      /\ abort' => state' \in {"DMA_ABORT", "DMA_START_TRANSFER"}
  BY ClkParts, ControllerMoves DEF Types
<1>2. state = "DMA_START_TRANSFER" => attrib_p2l' = attrib_p2l
  <2> SUFFICES ASSUME state = "DMA_START_TRANSFER" PROVE attrib_p2l' = attrib_p2l
    OBVIOUS
  <2>1. ~next_item_valid
    BY Zenon DEF Starts, Resting, P2lStill
  <2>2. state \notin {"DMA_IDLE", "DMA_ERROR", "DMA_ABORT"}
    OBVIOUS
  <2> QED BY <2>1, <2>2, DirectionKept, Zenon
<1>3. /\ start_l2p' => state' = "DMA_TRANSFER" /\ ~attrib_p2l'
      /\ start_p2l' => state' = "DMA_TRANSFER" /\ attrib_p2l'
  <2>1. CASE state = "DMA_START_TRANSFER"
    <3>1. attrib_p2l' = attrib_p2l
      BY <1>2, <2>1
    <3>2. /\ start_l2p' => state' = "DMA_TRANSFER" /\ ~attrib_p2l
          /\ start_p2l' => state' = "DMA_TRANSFER" /\ attrib_p2l
      BY <1>1, Zenon
    <3> QED BY <3>1, <3>2
  <2>2. CASE state # "DMA_START_TRANSFER"
    BY <1>1, <2>2, Zenon
  <2> QED BY <2>1, <2>2
<1> QED BY <1>1, <1>3 DEF Strobes

(* Nothing left of a list means both masters at rest. *)
LEMMA QuietRests == ASSUME Types, Held, Quiet PROVE Resting
<1>1. ~l2p_stb
  BY Zenon DEF Quiet, Held, ReadsHeld, WritesHeld, L2pStill
<1> QED BY <1>1, Zenon DEF Quiet, Resting, L2pStill, P2lStill

(* The host's writes: the state of the controller does not change, and the *)
(* last of them is the one that sets the start bit.                        *)
LEMMA LoadsClk ==
  ASSUME Types, Strobes, Starts, Held, NEW load, NEW in, Clk(load, in), Hosting(load)
  PROVE  /\ loads' # << >> => /\ Resting' /\ ~ctrl_start'
                              /\ state' \in {"DMA_IDLE", "DMA_ERROR", "DMA_ABORT"}
         /\ \A i \in 1 .. Len(loads') - 1 : loads'[i].reg # "ctrl"
<1>1. /\ state \in {"DMA_IDLE", "DMA_ERROR", "DMA_ABORT"} /\ ~ctrl_start => state' = state
      /\ ctrl_start' => next_item_valid \/ (Writing(load) /\ load.reg = "ctrl")
  BY ClkParts, ControllerMoves, StartBit DEF Types
<1>2. ASSUME Resting, state \in {"DMA_IDLE", "DMA_ERROR", "DMA_ABORT"} PROVE Resting'
  <2>1. state # "DMA_TRANSFER" /\ state # "DMA_CHAIN"
    BY <1>2
  <2>2. ~start_l2p /\ ~start_p2l /\ ~start_next
    BY <2>1, Zenon DEF Strobes
  <2> QED BY <1>2, <2>2, RestingClk, Zenon
<1>3. loads \in Seq(Ctl!Load)
  BY DEF Types, HostTypes
<1>4. CASE Programming(load)
  <2>1. Quiet /\ state \in {"DMA_IDLE", "DMA_ERROR", "DMA_ABORT"} /\ loads = << >>
    BY <1>4, Zenon DEF Programming, Quiet
  <2>2. Resting'
    BY <1>2, <2>1, QuietRests, Zenon
  <2>3. state' = state /\ ~ctrl_start'
    BY <1>1, <2>1, Zenon DEF Quiet, Writing
  <2>4. PICK p \in Programs : loads' = Writes(p)
    BY <1>4, Zenon DEF Programming
  <2>5. \A i \in 1 .. Len(loads') - 1 : loads'[i].reg # "ctrl"
    <3>1. Len(loads') - 1 = 5 /\ \A i \in 1 .. 5 : loads'[i].reg # "ctrl"
      BY <2>4, WritesTyped
    <3> QED BY <3>1
  <2> QED BY <2>1, <2>2, <2>3, <2>5, Zenon
<1>5. CASE Writing(load)
  <2>1. loads # << >> /\ load = Head(loads) /\ loads' = Tail(loads)
    BY <1>5, Zenon DEF Writing
  <2>2. Resting /\ state \in {"DMA_IDLE", "DMA_ERROR", "DMA_ABORT"} /\ ~ctrl_start
    BY <2>1, Zenon DEF Starts
  <2>3. Resting' /\ state' = state
    BY <1>1, <1>2, <2>2, Zenon
  <2>4. ~next_item_valid
    BY <2>2, Zenon DEF Resting, P2lStill
  <2>5. \A i \in 1 .. Len(loads) - 1 : loads[i].reg # "ctrl"
    BY Zenon DEF Starts
  <2>6. loads' # << >> => load.reg # "ctrl"
    BY <1>3, <2>1, <2>5
  <2>7. \A i \in 1 .. Len(loads') - 1 : loads'[i].reg # "ctrl"
    <3> SUFFICES ASSUME NEW i \in 1 .. Len(loads') - 1 PROVE loads'[i].reg # "ctrl"
      OBVIOUS
    <3>1. loads'[i] = loads[i + 1] /\ i + 1 \in 1 .. Len(loads) - 1
      BY <1>3, <2>1
    <3> QED BY <2>5, <3>1
  <2> QED BY <1>1, <2>2, <2>3, <2>4, <2>6, <2>7, Zenon
<1>6. CASE Aborting(load) \/ Waiting(load)
  <2>1. loads' = loads /\ loads = << >>
    <3>1. Ctl!Running => loads = << >>
      BY DEF Starts, Ctl!Running
    <3> QED BY <1>6, <3>1, Zenon DEF Aborting, Waiting
  <2> QED BY <2>1
<1> QED BY <1>4, <1>5, <1>6, Zenon DEF Hosting

(* The start bit is never set for a list that runs. *)
LEMMA StartBitClk ==
  ASSUME Types, Strobes, Starts, Turns, NEW load, NEW in, Clk(load, in), Hosting(load),
         ctrl_start'
  PROVE  ~Ctl!Running'
<1>1. /\ state' = "DMA_START_CHAIN" => state = "DMA_TRANSFER"
      /\ state' = "DMA_TRANSFER" => state = "DMA_START_TRANSFER" \/ state = "DMA_TRANSFER"
      /\ state' = "DMA_CHAIN" =>
           state = "DMA_START_CHAIN" \/ (state = "DMA_CHAIN" /\ Fetched = NoItem)
      /\ state \in {"DMA_IDLE", "DMA_ERROR", "DMA_ABORT"} /\ ~ctrl_start => state' = state
  <2>1. Ctl!PFsm(CtrlDone, CtrlError, Fetched) /\ CtlTypes
    BY ClkParts, Zenon DEF Types
  <2> QED BY <2>1, ControllerMoves
<1>2. CASE Writing(load)
  <2>1. state \in {"DMA_IDLE", "DMA_ERROR", "DMA_ABORT"} /\ ~ctrl_start
    BY <1>2, Zenon DEF Writing, Starts
  <2>2. state' \in {"DMA_IDLE", "DMA_ERROR", "DMA_ABORT"}
    BY <1>1, <2>1, Zenon
  <2> QED BY <2>2 DEF Ctl!Running
<1>3. CASE Fetched # NoItem /\ next_item_valid
  <2>1. state # "DMA_TRANSFER"
    BY <1>3, Zenon DEF Turns, P2lStill
  <2>2. state # "DMA_START_TRANSFER" /\ state # "DMA_START_CHAIN"
    <3>1. ~Resting
      BY <1>3, Zenon DEF Resting, P2lStill
    <3> QED BY <3>1 DEF Starts
  <2> QED BY <1>1, <1>3, <2>1, <2>2 DEF Ctl!Running
<1> QED BY <1>2, <1>3, StartBit, Zenon

(* Whatever can lead to a start finds both masters at rest. *)
LEMMA StartsClk ==
  ASSUME Types, Strobes, Starts, Turns, Held, Counted,
         NEW load, NEW in, Clk(load, in), Hosting(load)
  PROVE  Starts'
<1>1. /\ start_l2p' \/ start_p2l' => state = "DMA_START_TRANSFER"
      /\ start_next' => state = "DMA_START_CHAIN"
  BY ClkParts, ControllerMoves DEF Types
<1>2. (\/ state' \in {"DMA_IDLE", "DMA_START_TRANSFER", "DMA_START_CHAIN"}
       \/ ctrl_start' \/ loads' # << >> \/ start_l2p' \/ start_p2l' \/ start_next') => Resting'
  <2>1. state' \in {"DMA_IDLE", "DMA_START_TRANSFER", "DMA_START_CHAIN"} \/ ctrl_start' => Resting'
    BY RestAgain, Zenon
  <2>2. loads' # << >> => Resting'
    BY LoadsClk, Zenon
  <2>3. start_l2p' \/ start_p2l' \/ start_next' => Resting'
    <3>1. start_l2p' \/ start_p2l' \/ start_next' =>
            state \in {"DMA_IDLE", "DMA_START_TRANSFER", "DMA_START_CHAIN"}
      BY <1>1
    <3> QED BY <3>1, RestAgain, Zenon
  <2> QED BY <2>1, <2>2, <2>3, Zenon
<1>3. ctrl_start' => ~Ctl!Running'
  BY StartBitClk, Zenon
<1>4. /\ loads' # << >> => /\ ~ctrl_start'
                           /\ state' \in {"DMA_IDLE", "DMA_ERROR", "DMA_ABORT"}
      /\ \A i \in 1 .. Len(loads') - 1 : loads'[i].reg # "ctrl"
  BY LoadsClk, Zenon
<1> QED BY <1>2, <1>3, <1>4, Zenon DEF Starts

(* An abort holds until the host starts the next list. *)
LEMMA KillsClk ==
  ASSUME Types, Starts, Kills, NEW load, NEW in, Clk(load, in), Hosting(load)
  PROVE  Kills'
<1>1. ctrl_abort' = IF load.reg = "ctrl" THEN load.abort ELSE ctrl_abort
  BY ClkParts, Zenon DEF Ctl!PRegs
<1>2. CASE Programming(load)
  BY <1>2, Zenon DEF Programming, Kills
<1>3. CASE Writing(load)
  BY <1>3, Zenon DEF Writing, Kills
<1>4. CASE Aborting(load)
  <2>1. load.reg = "ctrl" /\ load.abort = TRUE
    BY <1>4 DEF Aborting, AbortLoad
  <2>2. ctrl_abort' = TRUE
    BY <1>1, <2>1, Zenon
  <2>3. loads' = << >>
    BY <1>4 DEF Aborting, Starts, Ctl!Running
  <2> QED BY <2>2, <2>3, Zenon DEF Kills
<1>5. CASE Waiting(load)
  <2>1. load.reg # "ctrl"
    BY <1>5 DEF Waiting, NoLoad
  <2>2. ctrl_abort' = ctrl_abort /\ aborted' = aborted /\ loads' = loads
    BY <1>1, <1>5, <2>1, Zenon DEF Waiting
  <2> QED BY <2>2, Zenon DEF Kills
<1> QED BY <1>2, <1>3, <1>4, <1>5, Zenon DEF Hosting

(* While one master works the other one is at rest. *)
LEMMA TurnsClk ==
  ASSUME Types, Strobes, Starts, Turns, Counted, NEW load, NEW in, Clk(load, in), Hosting(load)
  PROVE  Turns'
<1>1. /\ state' = "DMA_TRANSFER" => state = "DMA_START_TRANSFER" \/ state = "DMA_TRANSFER"
      /\ state' = "DMA_CHAIN" => state = "DMA_START_CHAIN" \/ state = "DMA_CHAIN"
  <2>1. Ctl!PFsm(CtrlDone, CtrlError, Fetched) /\ CtlTypes
    BY ClkParts, Zenon DEF Types
  <2> QED BY <2>1, ControllerMoves
<1>2. state \in {"DMA_START_TRANSFER", "DMA_START_CHAIN"} => Resting'
  BY RestAgain, Zenon
<1>3. Resting' => L2pStill' /\ ~ldm_done' /\ P2lStill' /\ ~Busy' /\ ~next_item_valid'
  BY Zenon DEF Resting, P2lStill, Busy
<1>4. start_l2p \/ start_p2l \/ start_next => Resting /\ ~Busy /\ ~next_item_valid /\ ~pdm_done_t
  BY Zenon DEF Starts, Resting, P2lStill, Busy
<1>5. start_l2p => ~start_p2l /\ ~start_next
  <2>1. start_l2p => state = "DMA_TRANSFER" /\ ~attrib_p2l
    BY Zenon DEF Strobes
  <2>2. start_next => state = "DMA_CHAIN"
    BY Zenon DEF Strobes
  <2> QED BY <2>1, <2>2, Zenon DEF Strobes
<1>6. ASSUME state = "DMA_TRANSFER"
      PROVE  /\ ~start_next /\ (attrib_p2l => ~start_l2p) /\ (~attrib_p2l => ~start_p2l)
             /\ ~next_item_valid /\ (attrib_p2l' <=> attrib_p2l)
  <2>1. ~start_next /\ (attrib_p2l => ~start_l2p) /\ (~attrib_p2l => ~start_p2l)
    BY <1>6 DEF Strobes
  <2>2. ~next_item_valid
    BY <1>6, Zenon DEF Turns, P2lStill
  <2>3. state \notin {"DMA_IDLE", "DMA_ERROR", "DMA_ABORT"}
    BY <1>6
  <2>4. attrib_p2l' = attrib_p2l
    BY <2>2, <2>3, DirectionKept, Zenon
  <2> QED BY <2>1, <2>2, <2>4
<1>7. state' = "DMA_TRANSFER" /\ attrib_p2l' =>
        L2pStill' /\ ~ldm_done' /\ ~next_item_valid' /\ (Busy' => ~is_next_item')
  <2> SUFFICES ASSUME state = "DMA_TRANSFER", attrib_p2l'
               PROVE  /\ L2pStill' /\ ~ldm_done' /\ ~next_item_valid'
                      /\ Busy' => ~is_next_item'
    BY <1>1, <1>2, <1>3, Zenon
  <2>1. attrib_p2l /\ ~start_next /\ ~start_l2p
    BY <1>6, Zenon
  <2>2. L2pStill /\ (Busy => ~is_next_item /\ ~next_item_valid)
    BY <2>1, Zenon DEF Turns
  <2>3. L2pStill' /\ ~ldm_done'
    BY <2>1, <2>2, StillClk, Zenon
  <2>4. CASE Busy
    <3>1. is_next_item' = is_next_item /\ ~next_item_valid'
      BY <2>2, <2>4, RequestBusy, Zenon
    <3>2. ~is_next_item
      BY <2>2, <2>4, Zenon
    <3> QED BY <2>3, <3>1, <3>2
  <2>5. CASE ~Busy
    <3>1. /\ ~next_item_valid' /\ (Busy' <=> start_p2l \/ start_next)
          /\ start_p2l \/ start_next => is_next_item' = start_next
      BY <2>5, RequestIdle, Zenon
    <3> QED BY <2>1, <2>3, <3>1
  <2> QED BY <2>4, <2>5
<1>8. state' = "DMA_TRANSFER" /\ ~attrib_p2l' => P2lStill'
  <2> SUFFICES ASSUME state = "DMA_TRANSFER", ~attrib_p2l' PROVE P2lStill'
    BY <1>1, <1>2, <1>3, Zenon
  <2>1. ~attrib_p2l /\ ~start_next /\ ~start_p2l
    BY <1>6, Zenon
  <2>2. ~Busy /\ ~pdm_done_t
    BY <2>1, Zenon DEF Turns, P2lStill, Busy
  <2>3. ~Busy' /\ ~pdm_done_t' /\ ~pdm_done' /\ ~next_item_valid'
    BY <2>1, <2>2, RequestIdle, Zenon
  <2> QED BY <2>3, Zenon DEF P2lStill, Busy
<1>9. state' = "DMA_CHAIN" => L2pStill' /\ ~ldm_done'
  <2> SUFFICES ASSUME state = "DMA_CHAIN" PROVE L2pStill' /\ ~ldm_done'
    BY <1>1, <1>2, <1>3, Zenon
  <2>1. ~start_l2p
    BY DEF Strobes
  <2>2. L2pStill
    BY Zenon DEF Turns
  <2> QED BY <2>1, <2>2, StillClk, Zenon
<1>10. Busy' \/ next_item_valid' => L2pStill' /\ ~ldm_done'
  <2> SUFFICES ASSUME Busy' \/ next_item_valid' PROVE L2pStill' /\ ~ldm_done'
    OBVIOUS
  <2>1. L2pStill /\ ~start_l2p
    <3>1. CASE Busy
      BY <1>4, <3>1, Zenon DEF Turns
    <3>2. CASE ~Busy
      <4>1. start_p2l \/ start_next
        BY <3>2, RequestIdle, Zenon
      <4> QED BY <1>4, <1>5, <4>1, Zenon DEF Resting
    <3> QED BY <3>1, <3>2
  <2> QED BY <2>1, StillClk, Zenon
<1>11. /\ Busy' => ~pdm_done_t' /\ ~pdm_done' /\ ~next_item_valid'
       /\ pdm_done_t' => ~pdm_done' /\ ~next_item_valid'
       /\ pdm_done' => ~next_item_valid'
  <2>1. CASE Busy
    <3>1. ~pdm_done_t /\ ~pdm_done /\ ~next_item_valid
      BY <2>1, Zenon DEF Turns
    <3>2. ~pdm_done' /\ (Busy' => ~pdm_done_t' /\ ~next_item_valid')
      BY <2>1, <3>1, RequestBusy
    <3>3. next_item_valid' => ~pdm_done_t'
      BY <2>1, <3>1, RequestBusy
    <3> QED BY <3>2, <3>3, Zenon
  <2>2. CASE ~Busy
    <3>1. ~pdm_done_t' /\ ~next_item_valid' /\ pdm_done' = pdm_done_t
      BY <2>2, RequestIdle, Zenon
    <3>2. Busy' => ~pdm_done_t
      BY <1>4, <2>2, RequestIdle, Zenon
    <3> QED BY <3>1, <3>2
  <2> QED BY <2>1, <2>2
<1> QED BY <1>7, <1>8, <1>9, <1>10, <1>11, Zenon DEF Turns

-----------------------------------------------------------------------------
(* The bus: a pair of counters of span S, n accesses apart.  An access that *)
(* is issued and one that is acknowledged keep it exact, and the master     *)
(* sees the last acknowledge when one access is open.                       *)
LEMMA OpenStep ==
  ASSUME NEW S \in Nat \ {0}, NEW r \in 0 .. S - 1, NEW a \in 0 .. S - 1, NEW n \in 0 .. S,
         Open(r, a, n, S), NEW v \in BOOLEAN, NEW k \in BOOLEAN,
         k => n > 0, v => n - One(k) < S
  PROVE  /\ Open(IF v THEN (r + 1) % S ELSE r, IF k THEN (a + 1) % S ELSE a,
                 n + One(v) - One(k), S)
         /\ k => (a = (r - 1) % S <=> n = 1)
<1>1. /\ (r + 1) % S = IF r + 1 = S THEN 0 ELSE r + 1
      /\ (a + 1) % S = IF a + 1 = S THEN 0 ELSE a + 1
      /\ (r - 1) % S = IF r = 0 THEN S - 1 ELSE r - 1
  OBVIOUS
<1>2. k => (a = (r - 1) % S <=> n = 1)
  BY <1>1 DEF Open
<1>3. CASE v /\ k
  <2>1. One(v) = 1 /\ One(k) = 1 /\ n > 0
    BY <1>3 DEF One
  <2>0. n + One(v) - One(k) = n
    BY <2>1
  <2>2. CASE r = a + n
    <3>1. Open((r + 1) % S, (a + 1) % S, n, S)
      BY <1>1, <2>1, <2>2 DEF Open
    <3> QED BY <1>2, <1>3, <2>0, <3>1, Zenon
  <2>3. CASE r = a + n - S
    <3>1. Open((r + 1) % S, (a + 1) % S, n, S)
      BY <1>1, <2>1, <2>3 DEF Open
    <3> QED BY <1>2, <1>3, <2>0, <3>1, Zenon
  <2> QED BY <2>2, <2>3 DEF Open
<1>4. CASE v /\ ~k
  BY <1>1, <1>4 DEF Open, One
<1>5. CASE ~v /\ k
  BY <1>1, <1>5 DEF Open, One
<1>6. CASE ~v /\ ~k
  BY <1>1, <1>6 DEF Open, One
<1> QED BY <1>2, <1>3, <1>4, <1>5, <1>6

(* No word on its way to the carrier: nothing between the P2L master's     *)
(* data path and the bus.                                                  *)
LEMMA LandedParts == ASSUME Types, Landed PROVE P2lLanded
<1> DEFINE A == IF p2l_stb THEN << <<p2l_adr, p2l_dat>> >> ELSE << >>
           B == IF to_wb_fifo_valid THEN << to_wb_fifo_dout >> ELSE << >>
           D == IF to_wb_fifo_wr THEN << to_wb_fifo_din >> ELSE << >>
<1>1. /\ A \in Seq(Nat \X Nat) /\ B \in Seq(Nat \X Nat) /\ D \in Seq(Nat \X Nat)
      /\ to_wb_fifo \in Seq(Nat \X Nat)
  <2>1. /\ p2l_adr \in Nat /\ p2l_dat \in Nat /\ to_wb_fifo_dout \in Nat \X Nat
        /\ to_wb_fifo_din \in Nat \X Nat /\ to_wb_fifo \in Seq(Nat \X Nat)
    BY DEF Types, RequestTypes, WriterTypes
  <2>2. A \in Seq(Nat \X Nat)
    <3>1. <<p2l_adr, p2l_dat>> \in Nat \X Nat
      BY <2>1
    <3>2. << <<p2l_adr, p2l_dat>> >> \in Seq(Nat \X Nat) /\ << >> \in Seq(Nat \X Nat)
      BY <3>1
    <3> QED BY <3>2, Zenon
  <2>3. B \in Seq(Nat \X Nat)
    <3>1. << to_wb_fifo_dout >> \in Seq(Nat \X Nat) /\ << >> \in Seq(Nat \X Nat)
      BY <2>1
    <3> QED BY <3>1, Zenon
  <2>4. D \in Seq(Nat \X Nat)
    <3>1. << to_wb_fifo_din >> \in Seq(Nat \X Nat) /\ << >> \in Seq(Nat \X Nat)
      BY <2>1
    <3> QED BY <3>1, Zenon
  <2> QED BY <2>1, <2>2, <2>3, <2>4
<1>2. /\ p2l_stb => Len(A) = 1
      /\ to_wb_fifo_valid => Len(B) = 1
      /\ to_wb_fifo_wr => Len(D) = 1
  OBVIOUS
<1>3. ((A \o B) \o to_wb_fifo) \o D = << >> /\ ~p2l_cyc
  BY DEF Landed, Pending
<1> HIDE DEF A, B, D
<1>4. Len(A) + Len(B) + Len(to_wb_fifo) + Len(D) = 0
  BY <1>1, <1>3
<1>5. Len(A) = 0 /\ Len(B) = 0 /\ Len(D) = 0 /\ to_wb_fifo = << >>
  BY <1>1, <1>4
<1> QED BY <1>2, <1>3, <1>5 DEF P2lLanded

(* With the L2P master at rest the bus is the writer's. *)
LEMMA StillWrites == ASSUME Types, Held, L2pStill PROVE WritesHeld
<1>1. CASE ReadsHeld
  <2>1. ~l2p_stb /\ slave = << >> /\ ~p2l_stb /\ ~p2l_cyc
    BY <1>1, Zenon DEF ReadsHeld, L2pStill, P2lLanded
  <2>2. /\ wb_write_cnt = p2l_ack_cnt
        /\ Open(wb_read_cnt, wb_ack_cnt, One(l2p_stb) + Len(slave), CntSpan)
    BY <1>1, Zenon DEF ReadsHeld
  <2>3. One(l2p_stb) = 0 /\ One(p2l_stb) = 0 /\ Len(slave) = 0
    BY <2>1 DEF One
  <2>4. wb_read_cnt = wb_ack_cnt
    <3>1. /\ CntSpan \in Nat \ {0} /\ wb_read_cnt \in 0 .. CntSpan - 1
          /\ wb_ack_cnt \in 0 .. CntSpan - 1
      BY FetchConstants DEF Types, FetchTypes
    <3> QED BY <2>2, <2>3, <3>1 DEF Open
  <2>5. Open(wb_write_cnt, p2l_ack_cnt, One(p2l_stb) + Len(slave), WrCntSpan)
    <3>1. p2l_ack_cnt \in Nat
      BY WriteConstants DEF Types, WriterTypes
    <3> QED BY <2>2, <2>3, <3>1 DEF Open
  <2> QED BY <2>1, <2>4, <2>5, Zenon DEF WritesHeld
<1> QED BY <1>1, Zenon DEF Held

(* An edge of clk_i does not touch the bus, but a P2L transfer may put the *)
(* first word on its way, and an L2P transfer may start.                   *)
LEMMA HeldClk ==
  ASSUME Settled, Types, Starts, Turns, Held, NEW load, NEW in, Clk(load, in)
  PROVE  Held'
<1>1. /\ p2l_stb' = p2l_stb /\ to_wb_fifo_valid' = to_wb_fifo_valid /\ p2l_cyc' = p2l_cyc
      /\ wb_write_cnt' = wb_write_cnt /\ p2l_ack_cnt' = p2l_ack_cnt
      /\ wb_read_cnt' = wb_read_cnt /\ wb_ack_cnt' = wb_ack_cnt
      /\ l2p_stb' = l2p_stb /\ l2p_cyc' = l2p_cyc /\ slave' = slave
  BY ClkParts, Zenon DEF dmaVars, busVars, writerVars
<1>2. CASE L2pStill /\ ~start_l2p
  <2>1. L2pStill'
    BY <1>2, StillClk, Zenon
  <2>2. WritesHeld
    BY <1>2, StillWrites, Zenon
  <2>3. WritesHeld'
    BY <1>1, <2>1, <2>2, Zenon DEF WritesHeld
  <2> QED BY <1>1, <2>3, Zenon DEF Held
<1>3. ASSUME ReadsHeld, ~Busy PROVE Held'
  <2>1. ~to_wb_fifo_wr /\ to_wb_fifo = << >>
    BY <1>3, Zenon DEF ReadsHeld, P2lLanded
  <2>2. ~to_wb_fifo_wr'
    BY <1>3, <2>1, RequestIdle, Zenon
  <2>3. to_wb_fifo' = << >>
    BY <2>1, ClkParts, Zenon DEF AddrCnt
  <2>4. P2lLanded'
    BY <1>1, <1>3, <2>2, <2>3, Zenon DEF ReadsHeld, P2lLanded
  <2>5. ReadsHeld'
    BY <1>1, <1>3, <2>4, Zenon DEF ReadsHeld
  <2> QED BY <1>1, <2>5, Zenon DEF Held
<1>4. CASE start_l2p
  <2>1. Resting /\ ~Busy /\ L2pStill
    BY <1>4, Zenon DEF Starts, Resting, P2lStill, Busy
  <2>2. P2lLanded
    BY <1>4, ClkParts, LandedParts, Zenon DEF Settled
  <2>3. WritesHeld
    BY <2>1, StillWrites, Zenon
  <2>4. ~p2l_stb /\ ~p2l_cyc /\ slave = << >> /\ ~l2p_stb /\ ~l2p_cyc
    BY <2>1, <2>2, <2>3, Zenon DEF WritesHeld, P2lLanded, L2pStill
  <2>5. One(l2p_stb) = 0 /\ One(p2l_stb) = 0 /\ Len(slave) = 0
    BY <2>4 DEF One
  <2>6. wb_write_cnt = p2l_ack_cnt
    <3>1. /\ WrCntSpan \in Nat \ {0} /\ wb_write_cnt \in 0 .. WrCntSpan - 1
          /\ p2l_ack_cnt \in 0 .. WrCntSpan - 1
      BY WriteConstants DEF Types, WriterTypes
    <3> QED BY <2>3, <2>5, <3>1 DEF Open, WritesHeld
  <2>7. Open(wb_read_cnt, wb_ack_cnt, One(l2p_stb) + Len(slave), CntSpan)
    <3>1. wb_ack_cnt \in Nat /\ wb_read_cnt = wb_ack_cnt
      BY <2>3, FetchConstants DEF Types, FetchTypes, WritesHeld
    <3> QED BY <2>5, <3>1 DEF Open
  <2>8. ReadsHeld
    BY <2>2, <2>4, <2>6, <2>7, Zenon DEF ReadsHeld
  <2> QED BY <1>3, <2>1, <2>8, Zenon
<1>5. CASE ~L2pStill
  <2>1. ReadsHeld /\ ~Busy
    BY <1>5, Zenon DEF Held, WritesHeld, Turns
  <2> QED BY <1>3, <2>1, Zenon
<1> QED BY <1>2, <1>4, <1>5, Zenon

(* The slave takes the strobe on the bus and gives back its oldest answer. *)
LEMMA SlaveStep ==
  ASSUME Types, Held, NEW stall \in BOOLEAN, NEW ack \in BOOLEAN, DmaClk(stall, ack)
  PROVE  /\ Len(slave') = Len(slave) + One(DmaWbMux.stb /\ ~stall) - One(ack)
         /\ Len(slave') \in 0 .. BusDepth /\ Len(slave) \in 0 .. BusDepth
         /\ ack => slave # << >>
         /\ slave' # << >> <=> Len(slave') > 0
         /\ slave # << >> <=> Len(slave) > 0
<1> DEFINE accept == DmaWbMux.stb /\ ~stall
           answer == IF DmaWbMux.we THEN 0 ELSE carrier[DmaWbMux.adr]
           rest   == IF ack THEN Tail(slave) ELSE slave
           new    == IF accept THEN << answer >> ELSE << >>
<1>1. /\ ack => slave # << >>
      /\ accept => Len(slave) < BusDepth \/ ack
      /\ slave' = rest \o new
  BY DEF DmaClk
<1>2. slave \in Seq(Nat) /\ slave' \in Seq(Nat) /\ BusDepth \in Nat
  <2>1. Types'
    BY TypesDmaClk
  <2> QED BY <2>1, EngineConstants DEF Types, HostTypes
<1>3. Len(rest) = Len(slave) - One(ack) /\ rest \in Seq(Nat)
  BY <1>1, <1>2 DEF One
<1> HIDE DEF accept, answer, rest
<1>4. Len(new) = One(accept) /\ new \in Seq(Nat \cup {answer})
  <2>1. CASE accept
    BY <2>1 DEF One
  <2>2. CASE ~accept
    BY <2>2 DEF One
  <2> QED BY <2>1, <2>2
<1> HIDE DEF new
<1>5. Len(slave') = Len(slave) + One(accept) - One(ack)
  <2>1. Len(slave') = Len(rest) + Len(new)
    <3>1. rest \in Seq(Nat \cup {answer})
      BY <1>3
    <3>2. Len(rest \o new) = Len(rest) + Len(new)
      BY <1>4, <3>1, ConcatProperties
    <3> QED BY <1>1, <3>2
  <2>2. One(accept) \in Int /\ One(ack) \in Int /\ Len(slave) \in Int
    BY <1>2 DEF One
  <2> QED BY <1>3, <1>4, <2>1, <2>2
<1>6. Len(slave') \in 0 .. BusDepth /\ Len(slave) \in 0 .. BusDepth
  <2>1. Len(slave) <= BusDepth /\ Len(slave) \in Nat /\ Len(slave') \in Nat
    BY <1>2 DEF Held
  <2> QED BY <1>1, <1>2, <1>5, <2>1 DEF One
<1> QED BY <1>1, <1>2, <1>5, <1>6 DEF accept

(* While reads hold the bus nothing of the writer moves. *)
LEMMA LandedDmaClk ==
  ASSUME P2lLanded, NEW stall \in BOOLEAN, NEW ack \in BOOLEAN, DmaClk(stall, ack)
  PROVE  P2lLanded' /\ wb_write_cnt' = wb_write_cnt /\ p2l_ack_cnt' = p2l_ack_cnt
<1>1. WriterTick(stall, ack, l2p_cyc) /\ UNCHANGED captureVars
  BY Zenon DEF DmaClk, clkVars
<1>2. to_wb_fifo_wr' = to_wb_fifo_wr
  BY <1>1 DEF captureVars
<1>3. ~to_wb_fifo_valid /\ ~p2l_cyc /\ ~to_wb_fifo_wr /\ to_wb_fifo = << >>
  BY Zenon DEF P2lLanded
<1>4. ~ToWbFifoRd(stall, l2p_cyc)
  BY <1>3, Zenon DEF ToWbFifoRd
<1>5. /\ to_wb_fifo_valid' = ToWbFifoRd(stall, l2p_cyc) /\ p2l_stb' = to_wb_fifo_valid
      /\ p2l_cyc' = (to_wb_fifo_valid \/ (p2l_cyc /\ ~LastWriteAck(ack)))
      /\ to_wb_fifo' = IF ToWbFifoRd(stall, l2p_cyc) THEN Tail(to_wb_fifo) ELSE to_wb_fifo
      /\ wb_write_cnt' = IF to_wb_fifo_valid THEN (wb_write_cnt + 1) % WrCntSpan
                         ELSE wb_write_cnt
      /\ p2l_ack_cnt' = IF ack /\ p2l_cyc THEN (p2l_ack_cnt + 1) % WrCntSpan ELSE p2l_ack_cnt
  BY <1>1, Zenon DEF WriterTick
<1> QED BY <1>2, <1>3, <1>4, <1>5, Zenon DEF P2lLanded

(* The reads of the L2P master: each is on the bus when it is strobed, and *)
(* the cycle lasts until the last of them is acknowledged.                 *)
LEMMA ReadsDmaClk ==
  ASSUME Settled, Types, Held, ReadsHeld,
         NEW stall \in BOOLEAN, NEW ack \in BOOLEAN, DmaClk(stall, ack)
  PROVE  /\ ReadsHeld' /\ (ack => l2p_cyc)
         /\ Len(slave') = Len(slave) + One(l2p_stb) - One(ack)
<1> DEFINE word == IF ack THEN Head(slave) ELSE 0
           n == One(l2p_stb) + Len(slave)
<1>1. /\ BusTick(stall, ack, word, p2l_cyc) /\ (stall => ~l2p_stb)
  BY DEF DmaClk
<1> HIDE DEF word
<1>2. /\ P2lLanded /\ wb_write_cnt = p2l_ack_cnt
      /\ Open(wb_read_cnt, wb_ack_cnt, n, CntSpan)
      /\ l2p_cyc <=> l2p_stb \/ slave # << >>
  BY Zenon DEF ReadsHeld
<1>3. DmaWbMux.stb /\ ~stall <=> l2p_stb
  <2>1. ~p2l_cyc
    BY <1>2, Zenon DEF P2lLanded
  <2>2. CASE l2p_cyc
    <3>1. DmaWbMux.stb = l2p_stb
      BY <2>2 DEF DmaWbMux
    <3> QED BY <1>1, <3>1
  <2>3. CASE ~l2p_cyc
    <3>1. DmaWbMux.stb = FALSE
      BY <2>1, <2>3 DEF DmaWbMux
    <3> QED BY <1>2, <2>3, <3>1
  <2> QED BY <2>2, <2>3
<1>4. One(DmaWbMux.stb /\ ~stall) = One(l2p_stb)
  BY <1>3, Zenon DEF One
<1>5. /\ Len(slave') = Len(slave) + One(l2p_stb) - One(ack)
      /\ Len(slave') \in 0 .. BusDepth /\ Len(slave) \in 0 .. BusDepth
      /\ ack => slave # << >>
      /\ slave' # << >> <=> Len(slave') > 0
      /\ slave # << >> <=> Len(slave) > 0
  BY <1>4, SlaveStep
<1>6. ack => l2p_cyc
  BY <1>2, <1>5, Zenon
<1>7. /\ l2p_stb' = addr_fifo_valid
      /\ l2p_cyc' = (addr_fifo_valid \/ (l2p_cyc /\ ~LastAck(ack)))
      /\ wb_read_cnt' = IF addr_fifo_valid THEN (wb_read_cnt + 1) % CntSpan ELSE wb_read_cnt
      /\ wb_ack_cnt' = IF ack THEN (wb_ack_cnt + 1) % CntSpan ELSE wb_ack_cnt
  <2>1. /\ l2p_stb' = addr_fifo_valid
        /\ l2p_cyc' = (addr_fifo_valid \/ (l2p_cyc /\ ~LastAck(ack)))
        /\ wb_read_cnt' = IF addr_fifo_valid THEN (wb_read_cnt + 1) % CntSpan ELSE wb_read_cnt
        /\ wb_ack_cnt' = IF ack /\ l2p_cyc THEN (wb_ack_cnt + 1) % CntSpan ELSE wb_ack_cnt
    BY <1>1, Zenon DEF BusTick
  <2> QED BY <1>6, <2>1, Zenon
<1>8. /\ CntSpan \in Nat \ {0} /\ wb_read_cnt \in 0 .. CntSpan - 1 /\ BusDepth \in Nat
      /\ wb_ack_cnt \in 0 .. CntSpan - 1 /\ addr_fifo_valid \in BOOLEAN /\ BusDepth < CntSpan
  BY FetchConstants, EngineConstants DEF Types, FetchTypes, Settled
<1>9. One(l2p_stb) \in 0 .. 1 /\ One(ack) \in 0 .. 1 /\ One(addr_fifo_valid) \in 0 .. 1
  BY DEF One
<1>10. /\ n \in 0 .. CntSpan /\ (ack => n > 0) /\ (addr_fifo_valid => n - One(ack) < CntSpan)
       /\ n = 0 <=> ~l2p_stb /\ slave = << >>
       /\ Len(slave') = n - One(ack)
  <2>1. One(l2p_stb) = 0 <=> ~l2p_stb
    BY DEF One
  <2> QED BY <1>5, <1>8, <1>9, <2>1
<1> HIDE DEF n
<1>11. /\ Open(wb_read_cnt', wb_ack_cnt', n + One(addr_fifo_valid) - One(ack), CntSpan)
       /\ ack => (wb_ack_cnt = (wb_read_cnt - 1) % CntSpan <=> n = 1)
  BY <1>2, <1>7, <1>8, <1>10, OpenStep
<1>12. Open(wb_read_cnt', wb_ack_cnt', One(l2p_stb') + Len(slave'), CntSpan)
  <2>1. One(l2p_stb') + Len(slave') = n + One(addr_fifo_valid) - One(ack)
    <3>1. One(l2p_stb') = One(addr_fifo_valid)
      BY <1>7, Zenon
    <3>2. n \in Int
      BY <1>10
    <3> QED BY <1>9, <1>10, <3>1, <3>2
  <2> QED BY <1>11, <2>1, Zenon
<1>13. l2p_cyc' <=> l2p_stb' \/ slave' # << >>
  <2>1. CASE addr_fifo_valid
    BY <1>7, <2>1, Zenon
  <2>2. CASE ~addr_fifo_valid
    <3>1. LastAck(ack) <=> ack /\ n = 1
      BY <1>11, Zenon DEF LastAck
    <3>2. l2p_cyc <=> n # 0
      BY <1>2, <1>10, Zenon
    <3>3. slave' # << >> <=> n - One(ack) > 0
      BY <1>5, <1>10, Zenon
    <3>4. n - One(ack) > 0 <=> n # 0 /\ ~(ack /\ n = 1)
      BY <1>8, <1>10 DEF One
    <3> QED BY <1>7, <2>2, <3>1, <3>2, <3>3, <3>4, Zenon
  <2> QED BY <2>1, <2>2
<1>14. P2lLanded' /\ wb_write_cnt' = p2l_ack_cnt'
  BY <1>2, LandedDmaClk, Zenon
<1> QED BY <1>5, <1>6, <1>12, <1>13, <1>14, Zenon DEF ReadsHeld

(* The writes of the P2L master, in the same way. *)
LEMMA WritesDmaClk ==
  ASSUME Settled, Types, Held, WritesHeld,
         NEW stall \in BOOLEAN, NEW ack \in BOOLEAN, DmaClk(stall, ack)
  PROVE  WritesHeld'
<1> DEFINE word == IF ack THEN Head(slave) ELSE 0
           n == One(p2l_stb) + Len(slave)
<1>1. /\ BusTick(stall, ack, word, p2l_cyc) /\ WriterTick(stall, ack, l2p_cyc)
      /\ stall => ~p2l_stb
  BY DEF DmaClk
<1> HIDE DEF word
<1>2. /\ L2pStill /\ wb_read_cnt = wb_ack_cnt
      /\ Open(wb_write_cnt, p2l_ack_cnt, n, WrCntSpan)
      /\ p2l_cyc <=> p2l_stb \/ slave # << >>
      /\ ~l2p_cyc /\ ~addr_fifo_valid
  BY Zenon DEF WritesHeld, L2pStill
<1>3. DmaWbMux.stb /\ ~stall <=> p2l_stb
  <2>1. CASE p2l_cyc
    <3>1. DmaWbMux.stb = p2l_stb
      BY <1>2, <2>1 DEF DmaWbMux
    <3> QED BY <1>1, <3>1
  <2>2. CASE ~p2l_cyc
    <3>1. DmaWbMux.stb = FALSE
      BY <1>2, <2>2 DEF DmaWbMux
    <3> QED BY <1>2, <2>2, <3>1
  <2> QED BY <2>1, <2>2
<1>4. One(DmaWbMux.stb /\ ~stall) = One(p2l_stb)
  BY <1>3, Zenon DEF One
<1>5. /\ Len(slave') = Len(slave) + One(p2l_stb) - One(ack)
      /\ Len(slave') \in 0 .. BusDepth /\ Len(slave) \in 0 .. BusDepth
      /\ ack => slave # << >>
      /\ slave' # << >> <=> Len(slave') > 0
      /\ slave # << >> <=> Len(slave) > 0
  BY <1>4, SlaveStep
<1>6. ack => p2l_cyc
  BY <1>2, <1>5, Zenon
<1>7. /\ p2l_stb' = to_wb_fifo_valid
      /\ p2l_cyc' = (to_wb_fifo_valid \/ (p2l_cyc /\ ~LastWriteAck(ack)))
      /\ wb_write_cnt' = IF to_wb_fifo_valid THEN (wb_write_cnt + 1) % WrCntSpan
                         ELSE wb_write_cnt
      /\ p2l_ack_cnt' = IF ack THEN (p2l_ack_cnt + 1) % WrCntSpan ELSE p2l_ack_cnt
  <2>1. /\ p2l_stb' = to_wb_fifo_valid
        /\ p2l_cyc' = (to_wb_fifo_valid \/ (p2l_cyc /\ ~LastWriteAck(ack)))
        /\ wb_write_cnt' = IF to_wb_fifo_valid THEN (wb_write_cnt + 1) % WrCntSpan
                           ELSE wb_write_cnt
        /\ p2l_ack_cnt' = IF ack /\ p2l_cyc THEN (p2l_ack_cnt + 1) % WrCntSpan ELSE p2l_ack_cnt
    BY <1>1, Zenon DEF WriterTick
  <2> QED BY <1>6, <2>1, Zenon
<1>8. /\ WrCntSpan \in Nat \ {0} /\ wb_write_cnt \in 0 .. WrCntSpan - 1 /\ BusDepth \in Nat
      /\ p2l_ack_cnt \in 0 .. WrCntSpan - 1 /\ to_wb_fifo_valid \in BOOLEAN
      /\ BusDepth < WrCntSpan
  BY WriteConstants, EngineConstants DEF Types, WriterTypes, Settled
<1>9. One(p2l_stb) \in 0 .. 1 /\ One(ack) \in 0 .. 1 /\ One(to_wb_fifo_valid) \in 0 .. 1
  BY DEF One
<1>10. /\ n \in 0 .. WrCntSpan /\ (ack => n > 0) /\ (to_wb_fifo_valid => n - One(ack) < WrCntSpan)
       /\ n = 0 <=> ~p2l_stb /\ slave = << >>
       /\ Len(slave') = n - One(ack)
  <2>1. One(p2l_stb) = 0 <=> ~p2l_stb
    BY DEF One
  <2> QED BY <1>5, <1>8, <1>9, <2>1
<1> HIDE DEF n
<1>11. /\ Open(wb_write_cnt', p2l_ack_cnt', n + One(to_wb_fifo_valid) - One(ack), WrCntSpan)
       /\ ack => (p2l_ack_cnt = (wb_write_cnt - 1) % WrCntSpan <=> n = 1)
  BY <1>2, <1>7, <1>8, <1>10, OpenStep
<1>12. Open(wb_write_cnt', p2l_ack_cnt', One(p2l_stb') + Len(slave'), WrCntSpan)
  <2>1. One(p2l_stb') + Len(slave') = n + One(to_wb_fifo_valid) - One(ack)
    <3>1. One(p2l_stb') = One(to_wb_fifo_valid)
      BY <1>7, Zenon
    <3>2. n \in Int
      BY <1>10
    <3> QED BY <1>9, <1>10, <3>1, <3>2
  <2> QED BY <1>11, <2>1, Zenon
<1>13. p2l_cyc' <=> p2l_stb' \/ slave' # << >>
  <2>1. CASE to_wb_fifo_valid
    BY <1>7, <2>1, Zenon
  <2>2. CASE ~to_wb_fifo_valid
    <3>1. LastWriteAck(ack) <=> ack /\ n = 1
      BY <1>11, Zenon DEF LastWriteAck
    <3>2. p2l_cyc <=> n # 0
      BY <1>2, <1>10, Zenon
    <3>3. slave' # << >> <=> n - One(ack) > 0
      BY <1>5, <1>10, Zenon
    <3>4. n - One(ack) > 0 <=> n # 0 /\ ~(ack /\ n = 1)
      BY <1>8, <1>10 DEF One
    <3> QED BY <1>7, <2>2, <3>1, <3>2, <3>3, <3>4, Zenon
  <2> QED BY <2>1, <2>2
<1>14. L2pStill'
  BY <1>2, StillDmaClk, Zenon
<1>15. wb_read_cnt' = wb_ack_cnt'
  BY <1>1, <1>2, Zenon DEF BusTick
<1> QED BY <1>12, <1>13, <1>14, <1>15, Zenon DEF WritesHeld

(* An edge of dma_clk_i leaves the bus with the master that holds it. *)
LEMMA HeldDmaClk ==
  ASSUME Settled, Types, Held, NEW stall \in BOOLEAN, NEW ack \in BOOLEAN, DmaClk(stall, ack)
  PROVE  Held'
<1>1. Len(slave') <= BusDepth
  <2>1. Len(slave') \in 0 .. BusDepth /\ BusDepth \in Nat
    BY SlaveStep, EngineConstants
  <2> QED BY <2>1
<1>2. ReadsHeld' \/ WritesHeld'
  BY ReadsDmaClk, WritesDmaClk, Zenon DEF Held
<1> QED BY <1>1, <1>2, Zenon DEF Held

-----------------------------------------------------------------------------
(* The words of an L2P transfer.                                           *)

(* p_target_cnt hands an address on for each word it counts down. *)
LEMMA AheadClk ==
  ASSUME Types, ~start_l2p, NEW load, NEW in, Clk(load, in)
  PROVE  Ahead' = Ahead
<1>1. TargetCnt(start_l2p, l2p_state = "L2P_IDLE", carrier_addr % AddrSpan, len)
  BY ClkParts, Zenon
<1>2. /\ dma_length_cnt \in Nat /\ addr_fifo_wr \in BOOLEAN
      /\ addr_fifo \in Seq(Cells) /\ addr_fifo_din \in Cells
  BY DEF Types, FetchTypes
<1>3. Len(addr_fifo') = Len(addr_fifo) + One(addr_fifo_wr) /\ Len(addr_fifo) \in Nat
  <2>1. addr_fifo' = IF addr_fifo_wr THEN Append(addr_fifo, addr_fifo_din) ELSE addr_fifo
    BY <1>1, Zenon DEF TargetCnt
  <2> QED BY <1>2, <2>1 DEF One
<1>4. dma_length_cnt' + One(addr_fifo_wr') = dma_length_cnt
  <2>1. CASE dma_length_cnt # 0 /\ ~addr_fifo_full
    <3>1. addr_fifo_wr' = TRUE /\ dma_length_cnt' = dma_length_cnt - 1
      BY <1>1, <2>1, Zenon DEF TargetCnt
    <3> QED BY <1>2, <3>1 DEF One
  <2>2. CASE dma_length_cnt = 0 \/ addr_fifo_full
    <3>1. addr_fifo_wr' = FALSE /\ dma_length_cnt' = dma_length_cnt
      BY <1>1, <2>2, Zenon DEF TargetCnt
    <3> QED BY <1>2, <3>1 DEF One
  <2> QED BY <2>1, <2>2
<1>5. One(addr_fifo_wr) \in 0 .. 1 /\ One(addr_fifo_wr') \in 0 .. 1 /\ dma_length_cnt' \in Nat
  <2>1. One(addr_fifo_wr) \in 0 .. 1 /\ One(addr_fifo_wr') \in 0 .. 1
    BY DEF One
  <2>2. CASE dma_length_cnt # 0 /\ ~addr_fifo_full
    <3>1. dma_length_cnt' = dma_length_cnt - 1
      BY <1>1, <2>2, Zenon DEF TargetCnt
    <3> QED BY <1>2, <2>1, <2>2, <3>1
  <2>3. CASE dma_length_cnt = 0 \/ addr_fifo_full
    <3>1. dma_length_cnt' = dma_length_cnt
      BY <1>1, <2>3, Zenon DEF TargetCnt
    <3> QED BY <1>2, <2>1, <3>1
  <2> QED BY <2>2, <2>3
<1>6. Ahead' = dma_length_cnt' + One(addr_fifo_wr') + Len(addr_fifo')
  BY DEF Ahead
<1> QED BY <1>2, <1>3, <1>4, <1>5, <1>6 DEF Ahead

(* What the words of a transfer count to. *)
LEMMA FlightNat ==
  ASSUME Types
  PROVE  /\ Ahead \in Nat /\ Flight \in Nat
         /\ Flight = Ahead + One(addr_fifo_valid) + One(l2p_stb) + Len(slave) + Len(data_fifo)
         /\ One(addr_fifo_valid) \in 0 .. 1 /\ One(l2p_stb) \in 0 .. 1
         /\ Len(slave) \in Nat /\ Len(data_fifo) \in Nat
         /\ data_fifo = << >> <=> Len(data_fifo) = 0
<1>1. One(addr_fifo_valid) \in 0 .. 1 /\ One(l2p_stb) \in 0 .. 1 /\ One(addr_fifo_wr) \in 0 .. 1
  BY DEF One
<1>2. /\ Len(slave) \in Nat /\ Len(data_fifo) \in Nat /\ Len(addr_fifo) \in Nat
      /\ data_fifo = << >> <=> Len(data_fifo) = 0
      /\ dma_length_cnt \in Nat
  BY DEF Types, HostTypes, PacketTypes, FetchTypes
<1>3. Ahead \in Nat
  BY <1>1, <1>2 DEF Ahead
<1> HIDE DEF Ahead
<1>4. Flight = Ahead + One(addr_fifo_valid) + One(l2p_stb) + Len(slave) + Len(data_fifo)
  BY DEF Flight
<1> QED BY <1>1, <1>2, <1>3, <1>4

(* A tick of clk_i takes a word of the transfer out of the FIFO, or none. *)
LEMMA FlightClk ==
  ASSUME Types, ~start_l2p, NEW load, NEW in, Clk(load, in)
  PROVE  /\ data_fifo_valid' <=> data_fifo_rd /\ data_fifo # << >>
         /\ data_fifo_rd /\ data_fifo # << >> => Flight' = Flight - 1
         /\ ~(data_fifo_rd /\ data_fifo # << >>) => Flight' = Flight
<1> DEFINE pop == data_fifo_rd /\ data_fifo # << >>
<1>1. FifoRead /\ UNCHANGED dmaVars
  BY ClkParts, Zenon
<1>2. addr_fifo_valid' = addr_fifo_valid /\ l2p_stb' = l2p_stb /\ slave' = slave
  BY <1>1, Zenon DEF dmaVars, busVars
<1>3. Ahead' = Ahead
  BY AheadClk, Zenon
<1>4. data_fifo_valid' = pop /\ data_fifo' = IF pop THEN Tail(data_fifo) ELSE data_fifo
  BY <1>1, Zenon DEF FifoRead
<1>5. data_fifo \in Seq(Nat)
  BY DEF Types, PacketTypes
<1>6. Len(data_fifo') = Len(data_fifo) - One(pop)
  BY <1>4, <1>5 DEF One
<1>7. Flight' = Ahead + One(addr_fifo_valid) + One(l2p_stb) + Len(slave) + Len(data_fifo')
  BY <1>2, <1>3, Zenon DEF Flight
<1>8. Flight' = Flight - One(pop)
  <2>1. One(pop) \in 0 .. 1
    BY DEF One
  <2> HIDE DEF pop
  <2> QED BY <1>6, <1>7, <2>1, FlightNat
<1>9. pop => One(pop) = 1
  BY DEF One
<1>10. ~pop => One(pop) = 0
  BY DEF One
<1>11. Flight \in Nat
  BY FlightNat
<1>12. data_fifo_valid' <=> pop
  BY <1>4
<1> HIDE DEF pop
<1>13. (pop => Flight' = Flight - 1) /\ (~pop => Flight' = Flight)
  BY <1>8, <1>9, <1>10, <1>11
<1> QED BY <1>12, <1>13 DEF pop

(* A packet at work on a transfer keeps the count of its words; when the   *)
(* last one has been sent none is left, and the master is at rest.         *)
LEMMA CountsClk ==
  ASSUME Types, Counts, ReadsHeld, ~start_l2p, ~abort,
         l2p_state = "L2P_ADDR_L" => data_fifo # << >>,
         NEW load, NEW in, Clk(load, in)
  PROVE  L2pStill' \/ Counts'
<1>1. /\ PktGen(start_l2p, len, host_addr \div LowSpan, host_addr % LowSpan)
      /\ L2pFsm(abort, arb_gnt = "ldm", TRUE, TRUE)
  BY ClkParts, Zenon
<1>2. /\ data_fifo_valid' <=> data_fifo_rd /\ data_fifo # << >>
      /\ data_fifo_rd /\ data_fifo # << >> => Flight' = Flight - 1
      /\ ~(data_fifo_rd /\ data_fifo # << >>) => Flight' = Flight
  BY FlightClk, Zenon
<1>3. /\ Flight \in Nat /\ (data_fifo # << >> => Flight > 0)
      /\ l2p_len_cnt \in Int /\ l2p_data_cnt \in Int
      /\ MaxPayload \in Nat \ {0} /\ HdrSpan \in Nat /\ MaxPayload <= HdrSpan
      /\ data_fifo_rd \in BOOLEAN /\ l2p_state \in L2pStates
  <2>1. data_fifo # << >> => Flight > 0
    BY FlightNat
  <2> QED BY <2>1, FlightNat, PacketConstants DEF Types, PacketTypes
<1>4. l2p_state # "L2P_WAIT_RDY" /\ ~ldm_done
  BY DEF Counts
<1>5. CASE l2p_state = "L2P_IDLE"
  <2>1. L2pIdle
    BY <1>1, <1>5 DEF L2pFsm, L2pHeader, L2pAddrH, L2pAddrL, L2pData, L2pWaitRdy,
                      L2pWaitData, L2pLastData
  <2>2. l2p_len_cnt' = l2p_len_cnt
    BY <1>1, <1>5 DEF PktGen, pktVars
  <2>3. ~data_fifo_rd /\ Flight = l2p_len_cnt
    BY <1>5 DEF Counts
  <2>4. data_fifo_rd' = FALSE /\ ldm_done' = FALSE
    BY <2>1, Zenon DEF L2pIdle
  <2>5. Flight' = Flight
    BY <1>2, <2>3, Zenon
  <2>6. CASE data_fifo # << >>
    <3>1. l2p_state' = "L2P_HEADER"
      BY <2>1, <2>6, Zenon DEF L2pIdle
    <3>2. Counts'
      BY <1>3, <2>2, <2>3, <2>4, <2>5, <2>6, <3>1 DEF Counts
    <3> QED BY <3>2
  <2>7. CASE data_fifo = << >>
    <3>1. l2p_state' = "L2P_IDLE"
      BY <1>5, <2>1, <2>7, Zenon DEF L2pIdle
    <3>2. Counts'
      BY <1>3, <2>2, <2>3, <2>4, <2>5, <3>1 DEF Counts
    <3> QED BY <3>2
  <2> QED BY <2>6, <2>7
<1>6. CASE l2p_state = "L2P_HEADER"
  <2>1. L2pHeader(arb_gnt = "ldm", TRUE)
    BY <1>1, <1>6 DEF L2pFsm, L2pIdle, L2pAddrH, L2pAddrL, L2pData, L2pWaitRdy,
                      L2pWaitData, L2pLastData
  <2>2. l2p_len_cnt' = l2p_len_cnt /\ LoadSize
    BY <1>1, <1>6, Zenon DEF PktGen
  <2>3. ~data_fifo_rd /\ Flight = l2p_len_cnt /\ l2p_len_cnt > 0
    BY <1>6 DEF Counts
  <2>4. Flight' = Flight
    BY <1>2, <2>3, Zenon
  <2>5. /\ ldm_done' = ldm_done
        /\ \/ l2p_state' = "L2P_HEADER" /\ data_fifo_rd' = data_fifo_rd
           \/ l2p_state' = "L2P_ADDR_H" /\ data_fifo_rd' = data_fifo_rd
           \/ l2p_state' = "L2P_ADDR_L" /\ data_fifo_rd' = TRUE
    BY <1>6, <2>1, Zenon DEF L2pHeader
  <2>6. Loaded'
    BY <2>2 DEF Loaded, LoadSize
  <2>7. /\ l2p_state' \in {"L2P_HEADER", "L2P_ADDR_H", "L2P_ADDR_L"} /\ ~ldm_done'
        /\ data_fifo_rd' <=> l2p_state' = "L2P_ADDR_L"
    BY <1>4, <2>3, <2>5
  <2>8. Counts'
    BY <1>3, <2>2, <2>3, <2>4, <2>6, <2>7 DEF Counts
  <2> QED BY <2>8
<1>7. CASE l2p_state = "L2P_ADDR_H"
  <2>1. L2pAddrH
    BY <1>1, <1>7 DEF L2pFsm, L2pIdle, L2pHeader, L2pAddrL, L2pData, L2pWaitRdy,
                      L2pWaitData, L2pLastData
  <2>2. UNCHANGED pktVars
    BY <1>1, <1>7 DEF PktGen
  <2>3. ~data_fifo_rd /\ Flight = l2p_len_cnt /\ l2p_len_cnt > 0 /\ Loaded
    BY <1>7 DEF Counts
  <2>4. Flight' = Flight
    BY <1>2, <2>3, Zenon
  <2>5. l2p_state' = "L2P_ADDR_L" /\ data_fifo_rd' = TRUE /\ ldm_done' = ldm_done
    BY <2>1, Zenon DEF L2pAddrH
  <2>6. Loaded' /\ l2p_len_cnt' = l2p_len_cnt
    BY <2>2, <2>3 DEF Loaded, pktVars
  <2>7. Counts'
    BY <1>3, <1>4, <2>3, <2>4, <2>5, <2>6 DEF Counts
  <2> QED BY <2>7
<1>8. CASE l2p_state = "L2P_ADDR_L"
  <2>1. L2pAddrL
    BY <1>1, <1>8 DEF L2pFsm, L2pIdle, L2pHeader, L2pAddrH, L2pData, L2pWaitRdy,
                      L2pWaitData, L2pLastData
  <2>2. /\ l2p_len_cnt' = IF l2p_last_packet THEN 0 ELSE l2p_len_cnt - MaxPayload
        /\ l2p_data_cnt' = l2p_data_cnt
    BY <1>1, <1>8 DEF PktGen
  <2>3. data_fifo_rd /\ Flight = l2p_len_cnt /\ l2p_len_cnt > 0 /\ Loaded
    BY <1>8 DEF Counts
  <2>4. Flight' = Flight - 1 /\ data_fifo_valid'
    BY <1>2, <1>8, <2>3, Zenon
  <2>5. /\ l2p_data_cnt \in 1 .. MaxPayload /\ l2p_len_cnt' \in Nat /\ l2p_len_cnt' >= 0
        /\ l2p_len_cnt = l2p_data_cnt + l2p_len_cnt'
    <3>1. CASE l2p_last_packet
      <4>1. l2p_len_cnt <= MaxPayload /\ l2p_len_cnt' = 0
        BY <2>2, <2>3, <3>1 DEF Loaded
      <4> QED BY <1>3, <2>3, <4>1 DEF Loaded
    <3>2. CASE ~l2p_last_packet
      <4>1. ~(l2p_len_cnt <= MaxPayload) /\ l2p_len_cnt' = l2p_len_cnt - MaxPayload
        BY <2>2, <2>3, <3>2 DEF Loaded
      <4> QED BY <1>3, <2>3, <4>1 DEF Loaded
    <3> QED BY <3>1, <3>2
  <2>6. CASE l2p_data_cnt <= 1
    <3>1. l2p_state' = "L2P_LAST_DATA" /\ data_fifo_rd' = FALSE /\ ldm_done' = ldm_done
      BY <2>1, <2>6, Zenon DEF L2pAddrL
    <3>2. Flight' = l2p_len_cnt'
      <4>1. l2p_data_cnt = 1
        BY <1>3, <2>5, <2>6
      <4>2. Flight = 1 + l2p_len_cnt'
        BY <2>3, <2>5, <4>1
      <4>3. Flight' = Flight - 1 /\ l2p_len_cnt' \in Nat
        BY <2>4, <2>5
      <4>4. \A a, b, c \in Int : a = 1 + b /\ c = a - 1 => c = b
        OBVIOUS
      <4>5. Flight \in Int /\ Flight' \in Int /\ l2p_len_cnt' \in Int
        BY <1>3, <4>3
      <4> QED BY <4>2, <4>3, <4>4, <4>5, Zenon
    <3>3. Counts'
      BY <1>4, <2>5, <3>1, <3>2 DEF Counts
    <3> QED BY <3>3
  <2>7. CASE ~(l2p_data_cnt <= 1)
    <3>1. l2p_state' = "L2P_DATA" /\ data_fifo_rd' = data_fifo_rd /\ ldm_done' = ldm_done
      BY <2>1, <2>7, Zenon DEF L2pAddrL
    <3>2. /\ l2p_data_cnt' \in 2 .. MaxPayload /\ Flight' = l2p_data_cnt' - 1 + l2p_len_cnt'
      BY <1>3, <2>2, <2>3, <2>4, <2>5, <2>7
    <3>3. Counts'
      BY <1>4, <2>3, <2>4, <2>5, <3>1, <3>2 DEF Counts
    <3> QED BY <3>3
  <2> QED BY <2>6, <2>7
<1>9. CASE l2p_state = "L2P_DATA"
  <2>1. L2pData(abort, TRUE)
    BY <1>1, <1>9 DEF L2pFsm, L2pIdle, L2pHeader, L2pAddrH, L2pAddrL, L2pWaitRdy,
                      L2pWaitData, L2pLastData
  <2>2. /\ data_fifo_rd /\ data_fifo_valid /\ l2p_data_cnt \in 2 .. MaxPayload
        /\ l2p_len_cnt >= 0 /\ Flight = l2p_data_cnt - 1 + l2p_len_cnt
    BY <1>9 DEF Counts
  <2>3. l2p_len_cnt' = l2p_len_cnt /\ l2p_data_cnt' = l2p_data_cnt - 1
    <3>1. l2p_len_cnt' = l2p_len_cnt /\ l2p_data_cnt' = (l2p_data_cnt - 1) % (2 * HdrSpan)
      BY <1>1, <1>9, <2>2 DEF PktGen
    <3>2. (l2p_data_cnt - 1) % (2 * HdrSpan) = l2p_data_cnt - 1
      <4>1. 2 * HdrSpan \in Nat \ {0} /\ l2p_data_cnt - 1 \in 0 .. 2 * HdrSpan - 1
        BY <1>3, <2>2
      <4>2. \A S \in Nat \ {0} : \A n \in 0 .. S - 1 : n % S = n
        OBVIOUS
      <4> QED BY <4>1, <4>2, Zenon
    <3> QED BY <3>1, <3>2
  <2>4. ldm_done' = ldm_done
    BY <2>1, Zenon DEF L2pData
  <2>5. CASE data_fifo = << >>
    <3>1. l2p_state' = "L2P_WAIT_DATA" /\ data_fifo_rd' = data_fifo_rd
      BY <2>1, <2>5, Zenon DEF L2pData
    <3>2. ~data_fifo_valid' /\ Flight' = Flight
      BY <1>2, <2>5, Zenon
    <3>3. l2p_data_cnt' \in 1 .. MaxPayload /\ Flight' = l2p_data_cnt' + l2p_len_cnt'
      BY <1>3, <2>2, <2>3, <3>2
    <3>4. Counts'
      BY <1>4, <2>2, <2>3, <2>4, <3>1, <3>2, <3>3 DEF Counts
    <3> QED BY <3>4
  <2>6. CASE data_fifo # << >>
    <3>1. data_fifo_valid' /\ Flight' = Flight - 1
      BY <1>2, <2>2, <2>6, Zenon
    <3>2. CASE l2p_data_cnt <= 2
      <4>1. l2p_state' = "L2P_LAST_DATA" /\ data_fifo_rd' = FALSE
        <5>1. ~(l2p_data_cnt > 2)
          BY <1>3, <3>2
        <5> QED BY <2>1, <2>6, <3>2, <5>1, Zenon DEF L2pData
      <4>2. Flight' = l2p_len_cnt'
        BY <1>3, <2>2, <2>3, <3>1, <3>2
      <4>3. Counts'
        BY <1>4, <2>2, <2>3, <2>4, <4>1, <4>2 DEF Counts
      <4> QED BY <4>3
    <3>3. CASE l2p_data_cnt > 2
      <4>1. l2p_state' = "L2P_DATA" /\ data_fifo_rd' = data_fifo_rd
        <5>1. ~(l2p_data_cnt <= 2)
          BY <1>3, <3>3
        <5> QED BY <1>9, <2>1, <2>6, <5>1, Zenon DEF L2pData
      <4>2. l2p_data_cnt' \in 2 .. MaxPayload /\ Flight' = l2p_data_cnt' - 1 + l2p_len_cnt'
        BY <1>3, <2>2, <2>3, <3>1, <3>3
      <4>3. Counts'
        BY <1>4, <2>2, <2>3, <2>4, <3>1, <4>1, <4>2 DEF Counts
      <4> QED BY <4>3
    <3> QED BY <1>3, <3>2, <3>3
  <2> QED BY <2>5, <2>6
<1>10. CASE l2p_state = "L2P_WAIT_DATA"
  <2>1. L2pWaitData
    BY <1>1, <1>10 DEF L2pFsm, L2pIdle, L2pHeader, L2pAddrH, L2pAddrL, L2pData,
                       L2pWaitRdy, L2pLastData
  <2>2. UNCHANGED pktVars
    BY <1>1, <1>10 DEF PktGen
  <2>3. l2p_len_cnt' = l2p_len_cnt /\ l2p_data_cnt' = l2p_data_cnt
    BY <2>2 DEF pktVars
  <2>4. /\ data_fifo_rd /\ l2p_data_cnt \in 1 .. MaxPayload
        /\ l2p_len_cnt >= 0 /\ Flight = l2p_data_cnt + l2p_len_cnt
    BY <1>10 DEF Counts
  <2>5. ldm_done' = ldm_done
    BY <2>1, Zenon DEF L2pWaitData
  <2>6. CASE data_fifo = << >>
    <3>1. l2p_state' = "L2P_WAIT_DATA" /\ data_fifo_rd' = data_fifo_rd
      BY <1>10, <2>1, <2>6, Zenon DEF L2pWaitData
    <3>2. ~data_fifo_valid' /\ Flight' = Flight
      BY <1>2, <2>6, Zenon
    <3>3. Counts'
      BY <1>4, <2>3, <2>4, <2>5, <3>1, <3>2 DEF Counts
    <3> QED BY <3>3
  <2>7. CASE data_fifo # << >>
    <3>1. data_fifo_valid' /\ Flight' = Flight - 1
      BY <1>2, <2>4, <2>7, Zenon
    <3>2. CASE l2p_data_cnt <= 1
      <4>1. l2p_state' = "L2P_LAST_DATA" /\ data_fifo_rd' = FALSE
        <5>1. ~(l2p_data_cnt > 1)
          BY <1>3, <3>2
        <5> QED BY <2>1, <2>7, <3>2, <5>1, Zenon DEF L2pWaitData
      <4>2. Flight' = l2p_len_cnt'
        BY <1>3, <2>3, <2>4, <3>1, <3>2
      <4>3. Counts'
        BY <1>4, <2>3, <2>4, <2>5, <4>1, <4>2 DEF Counts
      <4> QED BY <4>3
    <3>3. CASE l2p_data_cnt > 1
      <4>1. l2p_state' = "L2P_DATA" /\ data_fifo_rd' = data_fifo_rd
        <5>1. ~(l2p_data_cnt <= 1)
          BY <1>3, <3>3
        <5> QED BY <2>1, <2>7, <5>1, Zenon DEF L2pWaitData
      <4>2. l2p_data_cnt' \in 2 .. MaxPayload /\ Flight' = l2p_data_cnt' - 1 + l2p_len_cnt'
        BY <1>3, <2>3, <2>4, <3>1, <3>3
      <4>3. Counts'
        BY <1>4, <2>3, <2>4, <2>5, <3>1, <4>1, <4>2 DEF Counts
      <4> QED BY <4>3
    <3> QED BY <1>3, <3>2, <3>3
  <2> QED BY <2>6, <2>7
<1>11. CASE l2p_state = "L2P_LAST_DATA"
  <2>1. L2pLastData(TRUE)
    BY <1>1, <1>11 DEF L2pFsm, L2pIdle, L2pHeader, L2pAddrH, L2pAddrL, L2pData,
                       L2pWaitRdy, L2pWaitData
  <2>2. l2p_len_cnt' = l2p_len_cnt
    BY <1>1, <1>11 DEF PktGen, pktVars
  <2>3. ~data_fifo_rd /\ l2p_len_cnt >= 0 /\ Flight = l2p_len_cnt
    BY <1>11 DEF Counts
  <2>4. Flight' = Flight /\ data_fifo_rd' = data_fifo_rd
    BY <1>2, <2>1, <2>3, Zenon DEF L2pLastData
  <2>5. CASE l2p_len_cnt > 0
    <3>1. l2p_state' = "L2P_HEADER" /\ ldm_done' = ldm_done
      BY <2>1, <2>5, Zenon DEF L2pLastData
    <3>2. Counts'
      BY <1>4, <2>2, <2>3, <2>4, <2>5, <3>1 DEF Counts
    <3> QED BY <3>2
(* The transfer is over: no word is left to read, under way or in a FIFO. *)
  <2>6. CASE ~(l2p_len_cnt > 0)
    <3>1. l2p_state' = "L2P_IDLE"
      BY <2>1, <2>6, Zenon DEF L2pLastData
    <3>2. Flight = 0
      BY <1>3, <2>3, <2>6
    <3>3. /\ Ahead = 0 /\ One(addr_fifo_valid) = 0 /\ One(l2p_stb) = 0
          /\ Len(slave) = 0 /\ Len(data_fifo) = 0
      BY <3>2, FlightNat
    <3>4. /\ dma_length_cnt = 0 /\ ~addr_fifo_wr /\ addr_fifo = << >>
      <4>1. dma_length_cnt \in Nat /\ addr_fifo \in Seq(Cells)
        BY DEF Types, FetchTypes
      <4> QED BY <3>3, <4>1 DEF Ahead, One
    <3>5. ~addr_fifo_valid /\ ~l2p_stb
      BY <3>3 DEF One
    <3>6. slave = << >> /\ data_fifo = << >>
      BY <3>3 DEF Types, HostTypes, PacketTypes
    <3>7. ~l2p_cyc
      BY <3>5, <3>6, Zenon DEF ReadsHeld
    <3>8. /\ FifoRead /\ UNCHANGED dmaVars
          /\ TargetCnt(start_l2p, l2p_state = "L2P_IDLE", carrier_addr % AddrSpan, len)
      BY ClkParts, Zenon
    <3>9. dma_length_cnt' = 0 /\ addr_fifo_wr' = FALSE /\ addr_fifo' = << >>
      BY <3>4, <3>8, Zenon DEF TargetCnt
    <3>10. data_fifo' = << >>
      BY <3>6, <3>8, Zenon DEF FifoRead
    <3>11. addr_fifo_valid' = addr_fifo_valid /\ l2p_stb' = l2p_stb /\ l2p_cyc' = l2p_cyc
      BY <3>8, Zenon DEF dmaVars, busVars
    <3>12. L2pStill'
      BY <3>1, <3>5, <3>7, <3>9, <3>10, <3>11, Zenon DEF L2pStill
    <3> QED BY <3>12
  <2> QED BY <2>5, <2>6
<1> QED BY <1>3, <1>4, <1>5, <1>6, <1>7, <1>8, <1>9, <1>10, <1>11 DEF L2pStates

(* A tick of clk_i keeps the count, or ends the transfer. *)
LEMMA CountedClk ==
  ASSUME Settled, Types, Strobes, Starts, Kills, Turns, Held, Counted,
         NEW load, NEW in, Clk(load, in), Hosting(load)
  PROVE  Counted'
<1> SUFFICES ASSUME state' \notin {"DMA_ABORT", "DMA_ERROR"} PROVE L2pStill' \/ Counts'
  BY Zenon DEF Counted
<1>1. CASE L2pStill /\ ~start_l2p
  BY <1>1, StillClk, Zenon
(* The start of a transfer: all its words are still to be read. *)
<1>2. CASE start_l2p
  <2>1. L2pStill /\ ~ldm_done
    BY <1>2, Zenon DEF Starts, Resting
  <2>2. slave = << >>
    <3>1. Landed
      BY <1>2, ClkParts, Zenon DEF Settled
    <3> QED BY <2>1, <3>1, LandedParts, StillWrites, Zenon DEF P2lLanded, WritesHeld
  <2>3. /\ PktGen(start_l2p, len, host_addr \div LowSpan, host_addr % LowSpan)
        /\ L2pFsm(abort, arb_gnt = "ldm", TRUE, TRUE) /\ FifoRead
        /\ TargetCnt(start_l2p, l2p_state = "L2P_IDLE", carrier_addr % AddrSpan, len)
        /\ UNCHANGED dmaVars
    BY ClkParts, Zenon
  <2>4. l2p_state = "L2P_IDLE"
    BY <2>1 DEF L2pStill
  <2>5. l2p_len_cnt' = len
    BY <1>2, <2>3, <2>4 DEF PktGen
  <2>6. dma_length_cnt' = len /\ ~addr_fifo_wr' /\ addr_fifo' = << >>
    <3>1. ~addr_fifo_wr /\ addr_fifo = << >>
      BY <2>1, Zenon DEF L2pStill
    <3>2. dma_length_cnt' = len /\ addr_fifo_wr' = addr_fifo_wr /\ addr_fifo' = addr_fifo
      BY <1>2, <2>3, <2>4, <3>1, Zenon DEF TargetCnt
    <3> QED BY <3>1, <3>2, Zenon
  <2>7. L2pIdle
    BY <2>3, <2>4 DEF L2pFsm, L2pHeader, L2pAddrH, L2pAddrL, L2pData, L2pWaitRdy,
                      L2pWaitData, L2pLastData
  <2>8. l2p_state' = "L2P_IDLE" /\ ~data_fifo_rd' /\ ~ldm_done'
    BY <2>1, <2>4, <2>7, Zenon DEF L2pIdle, L2pStill
  <2>9. data_fifo' = << >>
    BY <2>1, <2>3, Zenon DEF FifoRead, L2pStill
  <2>10. ~addr_fifo_valid' /\ ~l2p_stb' /\ slave' = << >>
    <3>1. addr_fifo_valid' = addr_fifo_valid /\ l2p_stb' = l2p_stb /\ slave' = slave
      BY <2>3, Zenon DEF dmaVars, busVars
    <3> QED BY <2>1, <2>2, <3>1, Zenon DEF L2pStill
  <2>11. Flight' = l2p_len_cnt'
    <3>1. One(addr_fifo_wr') = 0 /\ One(addr_fifo_valid') = 0 /\ One(l2p_stb') = 0
      BY <2>6, <2>10 DEF One
    <3>2. Len(addr_fifo') = 0 /\ Len(slave') = 0 /\ Len(data_fifo') = 0 /\ len \in Nat
      BY <2>6, <2>9, <2>10 DEF Types, CtlTypes
    <3>3. Ahead' = len
      BY <2>6, <3>1, <3>2 DEF Ahead
    <3> QED BY <2>5, <3>1, <3>2, <3>3 DEF Flight
  <2>12. Counts'
    BY <2>8, <2>11 DEF Counts
  <2> QED BY <2>12
<1>3. CASE ~L2pStill /\ ~start_l2p
  <2>1. Ctl!PFsm(CtrlDone, CtrlError, Fetched) /\ CtlTypes
    BY ClkParts, Zenon DEF Types
  <2>2. /\ state \in {"DMA_IDLE", "DMA_ERROR", "DMA_ABORT"} /\ ~ctrl_start => state' = state
        /\ state' = "DMA_TRANSFER" =>
             state = "DMA_START_TRANSFER" \/ (state = "DMA_TRANSFER" /\ ~ctrl_abort)
    BY <2>1, ControllerMoves
  <2>3. state = "DMA_TRANSFER"
    <3>1. ~ctrl_start /\ state \notin {"DMA_IDLE", "DMA_START_TRANSFER", "DMA_START_CHAIN"}
      BY <1>3, Zenon DEF Starts, Resting
    <3>2. state # "DMA_CHAIN"
      BY <1>3, Zenon DEF Turns
    <3>3. state \notin {"DMA_ERROR", "DMA_ABORT"}
      BY <2>2, <3>1
    <3> QED BY <2>1, <3>1, <3>2, <3>3 DEF CtlTypes, Ctl!States
  <2>4. state' \in {"DMA_START_CHAIN", "DMA_IDLE", "DMA_TRANSFER"}
    BY <2>1, <2>3 DEF Ctl!PFsm, Ctl!Idle, Ctl!Error, Ctl!Abort, Ctl!StartTransfer,
                      Ctl!Transfer, Ctl!StartChain, Ctl!Chain, Ctl!AbortOrError
  <2>5. CASE state' \in {"DMA_START_CHAIN", "DMA_IDLE"}
    <3>1. state' \in {"DMA_IDLE", "DMA_START_TRANSFER", "DMA_START_CHAIN"}
      BY <2>5
    <3> QED BY <3>1, RestAgain, Zenon DEF Resting
  <2>6. CASE state' = "DMA_TRANSFER"
    <3>1. ~ctrl_abort
      BY <2>2, <2>3, <2>6
    <3>2. ~aborted
      BY <3>1, Zenon DEF Kills
    <3>3. ~abort
      BY <2>3 DEF Strobes
    <3>4. l2p_state = "L2P_ADDR_L" => data_fifo # << >>
      BY <3>2, ClkParts, Zenon
    <3>5. Counts
      <4>1. state \notin {"DMA_ABORT", "DMA_ERROR"}
        BY <2>3
      <4> QED BY <1>3, <4>1, Zenon DEF Counted
    <3>6. ReadsHeld
      BY <1>3, Zenon DEF Held, WritesHeld
    <3> QED BY <1>3, <3>3, <3>4, <3>5, <3>6, CountsClk, Zenon
  <2> QED BY <2>4, <2>5, <2>6
<1> QED BY <1>1, <1>2, <1>3

(* On the carrier's clock a word only moves on: from the address FIFO to   *)
(* the strobe, the slave and the data FIFO.                                *)
LEMMA FlightDmaClk ==
  ASSUME Settled, Types, Held, ReadsHeld,
         NEW stall \in BOOLEAN, NEW ack \in BOOLEAN, DmaClk(stall, ack)
  PROVE  Flight' = Flight
<1> DEFINE word == IF ack THEN Head(slave) ELSE 0
           rd   == AddrFifoRd(stall, p2l_cyc)
<1>1. BusTick(stall, ack, word, p2l_cyc) /\ UNCHANGED clkVars
  BY DEF DmaClk
<1>2. (ack => l2p_cyc) /\ Len(slave') = Len(slave) + One(l2p_stb) - One(ack)
  BY ReadsDmaClk, Zenon
<1>3. /\ addr_fifo_valid' = rd /\ l2p_stb' = addr_fifo_valid
      /\ addr_fifo' = IF rd THEN Tail(addr_fifo) ELSE addr_fifo
      /\ data_fifo' = IF ack THEN Append(data_fifo, word) ELSE data_fifo
  BY <1>1, <1>2, Zenon DEF BusTick
<1> HIDE DEF word
<1>4. /\ addr_fifo \in Seq(Cells) /\ data_fifo \in Seq(Nat) /\ slave \in Seq(Nat)
      /\ dma_length_cnt \in Nat
  BY DEF Types, FetchTypes, PacketTypes, HostTypes
<1>5. rd => addr_fifo # << >>
  BY DEF AddrFifoRd
<1> HIDE DEF rd
<1>6. Len(addr_fifo') = Len(addr_fifo) - One(rd)
  BY <1>3, <1>4, <1>5 DEF One
<1>7. Len(data_fifo') = Len(data_fifo) + One(ack)
  BY <1>3, <1>4 DEF One
<1>8. /\ One(addr_fifo_valid') = One(rd) /\ One(l2p_stb') = One(addr_fifo_valid)
      /\ One(addr_fifo_wr') = One(addr_fifo_wr) /\ dma_length_cnt' = dma_length_cnt
  <2>1. addr_fifo_wr' = addr_fifo_wr /\ dma_length_cnt' = dma_length_cnt
    BY <1>1, Zenon DEF clkVars, targetVars
  <2> QED BY <1>3, <2>1, Zenon
<1>9. /\ One(rd) \in Int /\ One(ack) \in Int /\ One(l2p_stb) \in Int /\ One(addr_fifo_wr) \in Int
      /\ One(addr_fifo_valid) \in Int
  BY DEF One
<1>10. Len(addr_fifo) \in Int /\ Len(data_fifo) \in Int /\ Len(slave) \in Int
  BY <1>4
<1>11. Ahead' = Ahead - One(rd) /\ Ahead \in Int
  BY <1>4, <1>6, <1>8, <1>9, <1>10 DEF Ahead
<1>12. Flight' = (Ahead - One(rd)) + One(rd) + One(addr_fifo_valid)
                   + (Len(slave) + One(l2p_stb) - One(ack)) + (Len(data_fifo) + One(ack))
  BY <1>2, <1>7, <1>8, <1>11, Zenon DEF Flight
<1>13. Flight = Ahead + One(addr_fifo_valid) + One(l2p_stb) + Len(slave) + Len(data_fifo)
  BY Zenon DEF Flight
<1> DEFINE a == Ahead      v == One(addr_fifo_valid)   b == One(l2p_stb)
           s == Len(slave) d == Len(data_fifo) r == One(rd) k == One(ack)
<1>14. /\ a \in Int /\ v \in Int /\ b \in Int /\ s \in Int /\ d \in Int
       /\ r \in Int /\ k \in Int
  BY <1>9, <1>10, <1>11
<1>15. /\ Flight' = (a - r) + r + v + (s + b - k) + (d + k)
       /\ Flight = a + v + b + s + d
  BY <1>12, <1>13
<1> HIDE DEF a, v, b, s, d, r, k
<1> QED BY <1>14, <1>15

(* The packets are made on the other clock. *)
LEMMA CountedDmaClk ==
  ASSUME Settled, Types, Held, Counted,
         NEW stall \in BOOLEAN, NEW ack \in BOOLEAN, DmaClk(stall, ack)
  PROVE  Counted'
<1>1. UNCHANGED clkVars
  BY DEF DmaClk
<1>2. /\ l2p_state' = l2p_state /\ state' = state /\ ldm_done' = ldm_done
      /\ l2p_len_cnt' = l2p_len_cnt /\ l2p_data_cnt' = l2p_data_cnt
      /\ l2p_last_packet' = l2p_last_packet
      /\ data_fifo_rd' = data_fifo_rd /\ data_fifo_valid' = data_fifo_valid
  BY <1>1, Zenon DEF clkVars, fsmVars, pktVars, ctlVars
<1>3. CASE L2pStill
  BY <1>3, StillDmaClk, Zenon DEF Counted
<1>4. CASE ~L2pStill
  <2>1. ReadsHeld
    BY <1>4, Zenon DEF Held, WritesHeld
  <2>2. Flight' = Flight
    BY <2>1, FlightDmaClk, Zenon
  <2>3. Counts => Counts'
    BY <1>2, <2>2 DEF Counts, Loaded
  <2> QED BY <1>2, <1>4, <2>3, Zenon DEF Counted
<1> QED BY <1>3, <1>4

-----------------------------------------------------------------------------
(* An edge of the carrier's clock changes nothing the controller or the    *)
(* host has, and leaves a master at rest at rest.                          *)
LEMMA ControlDmaClk ==
  ASSUME Types, NEW stall \in BOOLEAN, NEW ack \in BOOLEAN, DmaClk(stall, ack)
  PROVE  /\ Strobes => Strobes'
         /\ Starts => Starts'
         /\ Kills => Kills'
         /\ Turns => Turns'
<1>1. UNCHANGED clkVars /\ UNCHANGED hostVars
  BY DEF DmaClk
<1>2. /\ state' = state /\ attrib_p2l' = attrib_p2l /\ abort' = abort
      /\ start_l2p' = start_l2p /\ start_p2l' = start_p2l /\ start_next' = start_next
      /\ ctrl_start' = ctrl_start /\ ctrl_abort' = ctrl_abort
  BY <1>1, Zenon DEF clkVars, ctlVars
<1>3. /\ p2l_state' = p2l_state /\ pdm_done_t' = pdm_done_t /\ pdm_done' = pdm_done
      /\ next_item_valid' = next_item_valid /\ is_next_item' = is_next_item
      /\ ldm_done' = ldm_done
  BY <1>1, Zenon DEF clkVars, readReqVars, requestFsmVars, captureVars, fsmVars
<1>4. loads' = loads /\ aborted' = aborted
  BY <1>1, Zenon DEF hostVars
<1>5. L2pStill => L2pStill'
  BY StillDmaClk, Zenon
<1>6. (P2lStill => P2lStill') /\ (Busy' <=> Busy)
  BY <1>3, Zenon DEF P2lStill, Busy
<1>7. Resting => Resting'
  BY <1>3, <1>5, <1>6, Zenon DEF Resting
<1>8. Strobes => Strobes'
  BY <1>2 DEF Strobes
<1>9. Starts => Starts'
  <2> SUFFICES ASSUME Starts PROVE Starts'
    OBVIOUS
  <2>1. (\/ state' \in {"DMA_IDLE", "DMA_START_TRANSFER", "DMA_START_CHAIN"}
         \/ ctrl_start' \/ loads' # << >> \/ start_l2p' \/ start_p2l' \/ start_next') => Resting'
    BY <1>2, <1>4, <1>7, Zenon DEF Starts
  <2>2. /\ ctrl_start' => ~Ctl!Running'
        /\ loads' # << >> => state' \in {"DMA_IDLE", "DMA_ERROR", "DMA_ABORT"} /\ ~ctrl_start'
    BY <1>2, <1>4, Zenon DEF Starts, Ctl!Running
  <2>3. \A i \in 1 .. Len(loads') - 1 : loads'[i].reg # "ctrl"
    BY <1>4, Zenon DEF Starts
  <2> QED BY <2>1, <2>2, <2>3, Zenon DEF Starts
<1>10. Kills => Kills'
  BY <1>2, <1>4, Zenon DEF Kills
<1>11. Turns => Turns'
  <2> SUFFICES ASSUME Turns PROVE Turns'
    OBVIOUS
  <2>1. state' = "DMA_TRANSFER" /\ attrib_p2l' =>
          L2pStill' /\ ~ldm_done' /\ ~next_item_valid' /\ (Busy' => ~is_next_item')
    BY <1>2, <1>3, <1>5, <1>6, Zenon DEF Turns
  <2>2. /\ state' = "DMA_TRANSFER" /\ ~attrib_p2l' => P2lStill'
        /\ state' = "DMA_CHAIN" => L2pStill' /\ ~ldm_done'
        /\ Busy' \/ next_item_valid' => L2pStill' /\ ~ldm_done'
    BY <1>2, <1>3, <1>5, <1>6, Zenon DEF Turns
  <2>3. /\ Busy' => ~pdm_done_t' /\ ~pdm_done' /\ ~next_item_valid'
        /\ pdm_done_t' => ~pdm_done' /\ ~next_item_valid'
        /\ pdm_done' => ~next_item_valid'
    BY <1>3, <1>6, Zenon DEF Turns
  <2> QED BY <2>1, <2>2, <2>3, Zenon DEF Turns
<1> QED BY <1>8, <1>9, <1>10, <1>11

(* The engine comes out of reset with both masters at rest. *)
LEMMA InitHolds == ASSUME Init PROVE IInv
<1>1. /\ Ctl!Init /\ PacketInit /\ FetchInit /\ RequestInit /\ WriterInit
      /\ loads = << >> /\ slave = << >> /\ aborted = FALSE
  BY DEF Init
<1>2. /\ state = "DMA_IDLE" /\ ~ctrl_start /\ ~start_l2p /\ ~start_p2l /\ ~start_next /\ ~abort
  BY <1>1, Zenon DEF Ctl!Init
<1>3. L2pStill /\ ~ldm_done
  BY <1>1, Zenon DEF PacketInit, FetchInit, L2pStill
<1>4. /\ P2lStill /\ ~Busy /\ P2lLanded
  BY <1>1, Zenon DEF RequestInit, WriterInit, P2lStill, Busy, P2lLanded
<1>5. Types
  BY TypesInit
<1>6. Strobes
  BY <1>2 DEF Strobes
<1>7. Resting
  BY <1>3, <1>4, Zenon DEF Resting
<1>8. Starts
  <2>1. Len(loads) - 1 = -1
    BY <1>1
  <2>2. \A i \in 1 .. Len(loads) - 1 : loads[i].reg # "ctrl"
    BY <2>1
  <2> QED BY <1>1, <1>2, <1>7, <2>2, Zenon DEF Starts
<1>9. Kills
  BY <1>1, Zenon DEF Kills
<1>10. Turns
  <2>1. state # "DMA_TRANSFER" /\ state # "DMA_CHAIN"
    BY <1>2
  <2> QED BY <1>3, <1>4, <2>1, Zenon DEF Turns, P2lStill
<1>11. Held
  <2>1. WritesHeld
    <3>1. /\ wb_read_cnt = 0 /\ wb_ack_cnt = 0 /\ wb_write_cnt = 0 /\ p2l_ack_cnt = 0
          /\ ~p2l_cyc /\ ~p2l_stb
      BY <1>1, Zenon DEF FetchInit, WriterInit
    <3>2. One(p2l_stb) + Len(slave) = 0
      BY <1>1, <3>1 DEF One
    <3>3. Open(wb_write_cnt, p2l_ack_cnt, One(p2l_stb) + Len(slave), WrCntSpan)
      BY <3>1, <3>2 DEF Open
    <3> QED BY <1>1, <1>3, <3>1, <3>3, Zenon DEF WritesHeld
  <2>2. Len(slave) <= BusDepth
    BY <1>1, EngineConstants
  <2> QED BY <2>1, <2>2, Zenon DEF Held
<1>12. Counted
  BY <1>3, Zenon DEF Counted
<1> QED BY <1>5, <1>6, <1>8, <1>9, <1>10, <1>11, <1>12, Zenon DEF IInv

(* A step of neither clock keeps the invariant. *)
LEMMA StutterHolds == ASSUME IInv, UNCHANGED vars PROVE IInv'
<1>1. /\ UNCHANGED clkVars /\ UNCHANGED dmaVars /\ UNCHANGED hostVars
      /\ addr_fifo' = addr_fifo /\ data_fifo' = data_fifo /\ to_wb_fifo' = to_wb_fifo
  BY Zenon DEF vars
<1>2. /\ UNCHANGED arbiterVars /\ UNCHANGED pktVars /\ UNCHANGED fsmVars
      /\ data_fifo_valid' = data_fifo_valid /\ data_fifo_dout' = data_fifo_dout
      /\ UNCHANGED targetVars /\ UNCHANGED readReqVars /\ UNCHANGED requestFsmVars
      /\ UNCHANGED captureVars /\ UNCHANGED ctlVars
  BY <1>1, Zenon DEF clkVars
<1>3. /\ UNCHANGED busVars /\ UNCHANGED writerVars /\ slave' = slave /\ carrier' = carrier
  BY <1>1, Zenon DEF dmaVars
<1>4. Types'
  <2>1. CtlTypes'
    BY <1>2 DEF IInv, Types, CtlTypes, ctlVars
  <2>2. PacketTypes' /\ OutputOK'
    BY <1>1, <1>2 DEF IInv, Types, PacketTypes, OutputOK, pktVars, fsmVars
  <2>3. FetchTypes'
    BY <1>1, <1>2, <1>3 DEF IInv, Types, FetchTypes, targetVars, busVars
  <2>4. RequestTypes'
    BY <1>1, <1>2 DEF IInv, Types, RequestTypes, readReqVars, requestFsmVars, captureVars
  <2>5. WriterTypes'
    BY <1>3 DEF IInv, Types, WriterTypes, writerVars
  <2>6. HostTypes'
    BY <1>1, <1>2, <1>3 DEF IInv, Types, HostTypes, arbiterVars, hostVars
  <2> QED BY <2>1, <2>2, <2>3, <2>4, <2>5, <2>6 DEF Types
<1>5. /\ state' = state /\ attrib_p2l' = attrib_p2l /\ abort' = abort
      /\ start_l2p' = start_l2p /\ start_p2l' = start_p2l /\ start_next' = start_next
      /\ ctrl_start' = ctrl_start /\ ctrl_abort' = ctrl_abort
  BY <1>2, Zenon DEF ctlVars
<1>6. /\ p2l_state' = p2l_state /\ pdm_done_t' = pdm_done_t /\ pdm_done' = pdm_done
      /\ next_item_valid' = next_item_valid /\ is_next_item' = is_next_item
      /\ to_wb_fifo_wr' = to_wb_fifo_wr
  BY <1>2, Zenon DEF readReqVars, requestFsmVars, captureVars
<1>7. /\ l2p_state' = l2p_state /\ ldm_done' = ldm_done /\ data_fifo_rd' = data_fifo_rd
      /\ l2p_len_cnt' = l2p_len_cnt /\ l2p_data_cnt' = l2p_data_cnt
      /\ l2p_last_packet' = l2p_last_packet
      /\ dma_length_cnt' = dma_length_cnt /\ addr_fifo_wr' = addr_fifo_wr
  BY <1>2, Zenon DEF pktVars, fsmVars, targetVars
<1>8. /\ addr_fifo_valid' = addr_fifo_valid /\ l2p_stb' = l2p_stb /\ l2p_cyc' = l2p_cyc
      /\ wb_read_cnt' = wb_read_cnt /\ wb_ack_cnt' = wb_ack_cnt
      /\ to_wb_fifo_valid' = to_wb_fifo_valid /\ p2l_stb' = p2l_stb /\ p2l_cyc' = p2l_cyc
      /\ wb_write_cnt' = wb_write_cnt /\ p2l_ack_cnt' = p2l_ack_cnt
  BY <1>3, Zenon DEF busVars, writerVars
<1>9. loads' = loads /\ aborted' = aborted
  BY <1>1, Zenon DEF hostVars
<1>10. (L2pStill' <=> L2pStill) /\ (P2lStill' <=> P2lStill) /\ (Busy' <=> Busy)
       /\ (P2lLanded' <=> P2lLanded)
  BY <1>1, <1>6, <1>7, <1>8, Zenon DEF L2pStill, P2lStill, Busy, P2lLanded
<1>11. Resting' <=> Resting
  BY <1>7, <1>10, Zenon DEF Resting
<1>12. Strobes'
  BY <1>5 DEF IInv, Strobes
<1>13. Starts'
  <2> Starts
    BY DEF IInv
  <2>1. (\/ state' \in {"DMA_IDLE", "DMA_START_TRANSFER", "DMA_START_CHAIN"}
         \/ ctrl_start' \/ loads' # << >> \/ start_l2p' \/ start_p2l' \/ start_next') => Resting'
    BY <1>5, <1>9, <1>11, Zenon DEF Starts
  <2>2. /\ ctrl_start' => ~Ctl!Running'
        /\ loads' # << >> => state' \in {"DMA_IDLE", "DMA_ERROR", "DMA_ABORT"} /\ ~ctrl_start'
    BY <1>5, <1>9, Zenon DEF Starts, Ctl!Running
  <2>3. \A i \in 1 .. Len(loads') - 1 : loads'[i].reg # "ctrl"
    BY <1>9, Zenon DEF Starts
  <2> QED BY <2>1, <2>2, <2>3, Zenon DEF Starts
<1>14. Kills'
  BY <1>5, <1>9, Zenon DEF IInv, Kills
<1>15. Turns'
  <2> Turns
    BY DEF IInv
  <2>1. state' = "DMA_TRANSFER" /\ attrib_p2l' =>
          L2pStill' /\ ~ldm_done' /\ ~next_item_valid' /\ (Busy' => ~is_next_item')
    BY <1>5, <1>6, <1>7, <1>10, Zenon DEF Turns
  <2>2. /\ state' = "DMA_TRANSFER" /\ ~attrib_p2l' => P2lStill'
        /\ state' = "DMA_CHAIN" => L2pStill' /\ ~ldm_done'
        /\ Busy' \/ next_item_valid' => L2pStill' /\ ~ldm_done'
    BY <1>5, <1>6, <1>7, <1>10, Zenon DEF Turns
  <2>3. /\ Busy' => ~pdm_done_t' /\ ~pdm_done' /\ ~next_item_valid'
        /\ pdm_done_t' => ~pdm_done' /\ ~next_item_valid'
        /\ pdm_done' => ~next_item_valid'
    BY <1>6, <1>10, Zenon DEF Turns
  <2> QED BY <2>1, <2>2, <2>3, Zenon DEF Turns
<1>16. Held'
  <2>1. ReadsHeld => ReadsHeld'
    BY <1>3, <1>8, <1>10, Zenon DEF ReadsHeld
  <2>2. WritesHeld => WritesHeld'
    BY <1>3, <1>8, <1>10, Zenon DEF WritesHeld
  <2> QED BY <1>3, <2>1, <2>2, Zenon DEF IInv, Held
<1>17. Counted'
  <2>1. Flight' = Flight
    BY <1>1, <1>3, <1>7, <1>8, Zenon DEF Flight, Ahead
  <2>2. Counts => Counts'
    BY <1>2, <1>7, <2>1 DEF Counts, Loaded
  <2> QED BY <1>5, <1>10, <2>2, Zenon DEF IInv, Counted
<1> QED BY <1>4, <1>12, <1>13, <1>14, <1>15, <1>16, <1>17, Zenon DEF IInv

(* Every step keeps the invariant. *)
LEMMA StepHolds == ASSUME Settled, IInv, [Next]_vars PROVE IInv'
<1> USE DEF IInv
<1>1. CASE ClkTick
  <2>1. PICK in, load : /\ InputOK(in) /\ LoadOK(load) /\ Clk(load, in) /\ Hosting(load)
                        /\ aborted' \in BOOLEAN /\ loads' \in Seq(Ctl!Load)
    BY <1>1, ClkForm, Zenon DEF Types
  <2>2. Types'
    BY <2>1, TypesClk, Zenon
  <2>3. Strobes' /\ Starts' /\ Kills' /\ Turns'
    BY <2>1, StrobesClk, StartsClk, KillsClk, TurnsClk, Zenon
  <2>4. Held' /\ Counted'
    BY <2>1, HeldClk, CountedClk, Zenon
  <2> QED BY <2>2, <2>3, <2>4, Zenon
<1>2. CASE DmaClkTick
  <2>1. PICK stall \in BOOLEAN, ack \in BOOLEAN : DmaClk(stall, ack)
    BY <1>2, Zenon DEF DmaClkTick
  <2>2. Types' /\ Held' /\ Counted'
    BY <2>1, TypesDmaClk, HeldDmaClk, CountedDmaClk, Zenon
  <2>3. Strobes' /\ Starts' /\ Kills' /\ Turns'
    BY <2>1, ControlDmaClk, Zenon
  <2> QED BY <2>2, <2>3, Zenon
<1>3. CASE UNCHANGED vars
  BY <1>3, StutterHolds, Zenon
<1> QED BY <1>1, <1>2, <1>3, Zenon DEF Next

(* The engine holds the invariant. *)
THEOREM EngineInvariant == ASSUME Settled PROVE Spec => []IInv
<1>1. Init => IInv
  BY InitHolds
<1>2. IInv /\ [Next]_vars => IInv'
  BY StepHolds
<1> QED BY <1>1, <1>2, PTL DEF Spec

(* MasterEnds (OwnEnd): the done line that ends a transfer is that of the   *)
(* master p_fsm started for it, whatever lists the host writes and however  *)
(* the clocks interleave, aborts and refused reads included.                *)
THEOREM MasterEnds == ASSUME Settled PROVE Spec => []OwnEnd
<1>1. IInv => OwnEnd
  <2> SUFFICES ASSUME Turns, state = "DMA_TRANSFER", CtrlDone
               PROVE  IF attrib_p2l THEN pdm_done /\ ~ldm_done ELSE ldm_done /\ ~pdm_done
    BY Zenon DEF IInv, OwnEnd
  <2>1. CASE attrib_p2l
    BY <2>1, Zenon DEF Turns, CtrlDone
  <2>2. CASE ~attrib_p2l
    BY <2>2, Zenon DEF Turns, CtrlDone, P2lStill
  <2> QED BY <2>1, <2>2
<1> QED BY <1>1, EngineInvariant, PTL
=============================================================================
