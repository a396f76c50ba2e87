---------------------------- MODULE L2pDmaPacket ----------------------------
(***************************************************************************)
(* The clk_i half of the L2P DMA master (hdl/gn4124core/rtl/               *)
(* l2p_dma_master.vhd): the packet generator p_pkt_gen, the packet write   *)
(* FSM and the read side of the data FIFO.  The words read from the        *)
(* carrier are cut into memory write packets of at most MaxPayload words   *)
(* and handed to the arbiter.                                              *)
(*                                                                         *)
(* Words are 32-bit words and addresses word addresses: a host address is  *)
(* its high half and its low half (modulo LowSpan).  Byte swapping is the  *)
(* identity on words here.                                                 *)
(***************************************************************************)
EXTENDS Integers, Sequences

CONSTANTS MaxPayload,   \* c_L2P_MAX_PAYLOAD
          HdrSpan,      \* 2^10: the length field of the header
          LowSpan       \* 2^30: words addressed by the low half

ASSUME PacketConstants == /\ MaxPayload \in 1 .. HdrSpan
                          /\ HdrSpan \in Nat /\ LowSpan \in Nat \ {0}

VARIABLES l2p_state,         \* l2p_dma_current_state
          l2p_len_cnt,       \* words left for the packets after this one
          l2p_address_l, l2p_address_h,
          l2p_data_cnt, l2p_64b, l2p_len_header, l2p_last_packet,
          ldm_req, ldm_word, ldm_valid, ldm_dframe,
          ldm_done, ldm_edb,
          data_fifo, data_fifo_rd, data_fifo_valid, data_fifo_dout

pktVars  == <<l2p_len_cnt, l2p_address_l, l2p_address_h, l2p_data_cnt, l2p_64b,
              l2p_len_header, l2p_last_packet>>
fsmVars  == <<l2p_state, ldm_req, ldm_word, ldm_valid, ldm_dframe, ldm_done,
              ldm_edb, data_fifo_rd>>
fifoVars == <<data_fifo, data_fifo_valid, data_fifo_dout>>
packetVars == <<pktVars, fsmVars, fifoVars>>

L2pStates == {"L2P_IDLE", "L2P_WAIT_DATA", "L2P_HEADER", "L2P_ADDR_H",
              "L2P_ADDR_L", "L2P_DATA", "L2P_LAST_DATA", "L2P_WAIT_RDY"}

(* The words on the bus to the arbiter. *)
Header(len, wide) == [kind |-> "header", len |-> len, wide |-> wide]
AddrHigh(a)       == [kind |-> "high", addr |-> a]
AddrLow(a)        == [kind |-> "low", addr |-> a]
Data(d)           == [kind |-> "data", data |-> d]
Zero              == [kind |-> "zero"]
NoData            == -1            \* what the FIFO output holds before any read

PacketInit ==
    /\ l2p_state = "L2P_IDLE"
    /\ l2p_len_cnt = 0 /\ l2p_address_l = 0 /\ l2p_address_h = 0
    /\ l2p_data_cnt = 0 /\ l2p_64b = FALSE
    /\ l2p_len_header = 0 /\ l2p_last_packet = FALSE
    /\ ldm_req = FALSE /\ ldm_word = Zero /\ ldm_valid = FALSE
    /\ ldm_dframe = FALSE /\ ldm_done = FALSE /\ ldm_edb = FALSE
    /\ data_fifo = <<>> /\ data_fifo_rd = FALSE
    /\ data_fifo_valid = FALSE /\ data_fifo_dout = NoData

-----------------------------------------------------------------------------
(* p_pkt_gen *)

(* The size of the next packet, from the words that are left. *)
LoadSize ==
    LET size == IF l2p_len_cnt > MaxPayload THEN MaxPayload ELSE l2p_len_cnt
    IN /\ l2p_data_cnt' = size
       /\ l2p_len_header' = size % HdrSpan
       /\ l2p_last_packet' = (l2p_len_cnt <= MaxPayload)

(* Mutant: the next packet goes to the address of this one. *)
NextPacketSamePlace == LoadSize /\ UNCHANGED l2p_address_l

(* The size of the next packet is known; its address follows this packet's. *)
NextPacket ==
    /\ l2p_address_l' = (l2p_address_l + MaxPayload) % LowSpan
    /\ LoadSize

PktGen(start, len, addr_h, addr_l) ==
    \/ /\ l2p_state = "L2P_IDLE" /\ start
       /\ l2p_len_cnt' = len /\ l2p_address_l' = addr_l /\ l2p_address_h' = addr_h
       /\ UNCHANGED <<l2p_data_cnt, l2p_64b, l2p_len_header, l2p_last_packet>>
    \/ /\ l2p_state = "L2P_HEADER"
       /\ LoadSize
       /\ l2p_64b' = (l2p_address_h # 0)
       /\ UNCHANGED <<l2p_len_cnt, l2p_address_l, l2p_address_h>>
    \/ /\ l2p_state = "L2P_ADDR_L"
       /\ l2p_len_cnt' = IF l2p_last_packet THEN 0 ELSE l2p_len_cnt - MaxPayload
       /\ UNCHANGED <<l2p_address_l, l2p_address_h, l2p_data_cnt, l2p_64b,
                      l2p_len_header, l2p_last_packet>>
    \/ /\ l2p_state = "L2P_DATA" /\ data_fifo_valid
       /\ l2p_data_cnt' = (l2p_data_cnt - 1) % (2 * HdrSpan)
       /\ UNCHANGED <<l2p_len_cnt, l2p_address_l, l2p_address_h, l2p_64b,
                      l2p_len_header, l2p_last_packet>>
    \/ /\ l2p_state = "L2P_LAST_DATA" /\ ~l2p_last_packet
       /\ NextPacket
       /\ UNCHANGED <<l2p_len_cnt, l2p_address_h, l2p_64b>>
    \/ /\ \/ l2p_state \in {"L2P_ADDR_H", "L2P_WAIT_RDY", "L2P_WAIT_DATA"}
          \/ l2p_state = "L2P_IDLE" /\ ~start
          \/ l2p_state = "L2P_DATA" /\ ~data_fifo_valid
          \/ l2p_state = "L2P_LAST_DATA" /\ l2p_last_packet
       /\ UNCHANGED pktVars

-----------------------------------------------------------------------------
(* The data FIFO as this side sees it (not show-ahead): the word read in    *)
(* this tick is on its output in the next, with data_fifo_valid.           *)
FifoRead ==
    LET pop == data_fifo_rd /\ data_fifo # <<>>
    IN /\ data_fifo_valid' = pop
       /\ data_fifo' = IF pop THEN Tail(data_fifo) ELSE data_fifo
       /\ data_fifo_dout' = IF pop THEN Head(data_fifo) ELSE data_fifo_dout

-----------------------------------------------------------------------------
(* The packet write FSM: one action for each state. *)

L2pIdle ==
    /\ l2p_state = "L2P_IDLE"
    /\ data_fifo_rd' = FALSE /\ ldm_done' = FALSE /\ ldm_edb' = FALSE
    /\ ldm_word' = Zero /\ ldm_valid' = FALSE /\ ldm_dframe' = FALSE
    /\ IF data_fifo # <<>>
       THEN l2p_state' = "L2P_HEADER" /\ ldm_req' = TRUE
       ELSE UNCHANGED <<l2p_state, ldm_req>>

L2pHeader(gnt, wr_rdy) ==
    /\ l2p_state = "L2P_HEADER"
    /\ \/ /\ gnt /\ wr_rdy
          /\ ldm_req' = FALSE
          /\ ldm_word' = Header(l2p_len_header, l2p_64b)
          /\ ldm_valid' = TRUE /\ ldm_dframe' = TRUE
          /\ IF l2p_64b
             THEN l2p_state' = "L2P_ADDR_H" /\ UNCHANGED data_fifo_rd
             ELSE l2p_state' = "L2P_ADDR_L" /\ data_fifo_rd' = TRUE
       \/ /\ ~(gnt /\ wr_rdy)
          /\ ldm_valid' = FALSE
          /\ UNCHANGED <<l2p_state, ldm_req, ldm_word, ldm_dframe, data_fifo_rd>>
    /\ UNCHANGED <<ldm_done, ldm_edb>>

L2pAddrH ==
    /\ l2p_state = "L2P_ADDR_H"
    /\ ldm_word' = AddrHigh(l2p_address_h)
    /\ l2p_state' = "L2P_ADDR_L"
    /\ data_fifo_rd' = TRUE
    /\ UNCHANGED <<ldm_req, ldm_valid, ldm_dframe, ldm_done, ldm_edb>>

(* Mutant: the last word is announced one word early. *)
L2pAddrLOffByOne ==
    /\ l2p_state = "L2P_ADDR_L"
    /\ ldm_word' = AddrLow(l2p_address_l)
    /\ IF l2p_data_cnt <= 2
       THEN l2p_state' = "L2P_LAST_DATA" /\ data_fifo_rd' = FALSE
       ELSE l2p_state' = "L2P_DATA" /\ UNCHANGED data_fifo_rd
    /\ UNCHANGED <<ldm_req, ldm_valid, ldm_dframe, ldm_done, ldm_edb>>

L2pAddrL ==
    /\ l2p_state = "L2P_ADDR_L"
    /\ ldm_word' = AddrLow(l2p_address_l)
    /\ IF l2p_data_cnt <= 1
       THEN l2p_state' = "L2P_LAST_DATA" /\ data_fifo_rd' = FALSE
       ELSE l2p_state' = "L2P_DATA" /\ UNCHANGED data_fifo_rd
    /\ UNCHANGED <<ldm_req, ldm_valid, ldm_dframe, ldm_done, ldm_edb>>

L2pData(abort, rdy) ==
    /\ l2p_state = "L2P_DATA"
    /\ ldm_word' = IF data_fifo_valid THEN Data(data_fifo_dout) ELSE ldm_word
    /\ ldm_valid' = (data_fifo_valid /\ (abort \/ rdy))
    /\ ldm_edb' = (abort \/ ldm_edb)
    /\ \/ /\ abort
          /\ l2p_state' = "L2P_IDLE" /\ UNCHANGED data_fifo_rd
       \/ /\ ~abort /\ ~rdy
          /\ l2p_state' = "L2P_WAIT_RDY" /\ data_fifo_rd' = FALSE
       \/ /\ ~abort /\ rdy /\ data_fifo = <<>>
          /\ l2p_state' = "L2P_WAIT_DATA" /\ UNCHANGED data_fifo_rd
       \/ /\ ~abort /\ rdy /\ data_fifo # <<>> /\ l2p_data_cnt <= 2
          /\ l2p_state' = "L2P_LAST_DATA" /\ data_fifo_rd' = FALSE
       \/ /\ ~abort /\ rdy /\ data_fifo # <<>> /\ l2p_data_cnt > 2
          /\ UNCHANGED <<l2p_state, data_fifo_rd>>
    /\ UNCHANGED <<ldm_req, ldm_dframe, ldm_done>>

L2pWaitRdy(rdy) ==
    /\ l2p_state = "L2P_WAIT_RDY"
    /\ ldm_valid' = rdy
    /\ \/ /\ ~rdy
          /\ UNCHANGED <<l2p_state, data_fifo_rd>>
       \/ /\ rdy /\ l2p_data_cnt <= 1
          /\ l2p_state' = "L2P_LAST_DATA" /\ UNCHANGED data_fifo_rd
       \/ /\ rdy /\ l2p_data_cnt > 1
          /\ l2p_state' = "L2P_DATA" /\ data_fifo_rd' = TRUE
    /\ UNCHANGED <<ldm_req, ldm_word, ldm_dframe, ldm_done, ldm_edb>>

L2pWaitData ==
    /\ l2p_state = "L2P_WAIT_DATA"
    /\ ldm_valid' = FALSE
    /\ \/ /\ data_fifo = <<>>
          /\ UNCHANGED <<l2p_state, data_fifo_rd>>
       \/ /\ data_fifo # <<>> /\ l2p_data_cnt <= 1
          /\ l2p_state' = "L2P_LAST_DATA" /\ data_fifo_rd' = FALSE
       \/ /\ data_fifo # <<>> /\ l2p_data_cnt > 1
          /\ l2p_state' = "L2P_DATA" /\ UNCHANGED data_fifo_rd
    /\ UNCHANGED <<ldm_req, ldm_word, ldm_dframe, ldm_done, ldm_edb>>

(* Mutant: done is raised with the end of every packet. *)
L2pLastDataDoneEarly(rdy) ==
    /\ l2p_state = "L2P_LAST_DATA"
    /\ \/ /\ ~rdy
          /\ ldm_valid' = FALSE
          /\ UNCHANGED <<l2p_state, ldm_req, ldm_word, ldm_dframe, ldm_done>>
       \/ /\ rdy
          /\ ldm_word' = Data(data_fifo_dout)
          /\ ldm_valid' = TRUE /\ ldm_dframe' = FALSE
          /\ IF l2p_len_cnt > 0
             THEN /\ l2p_state' = "L2P_HEADER" /\ ldm_req' = TRUE
                  /\ ldm_done' = TRUE
             ELSE /\ l2p_state' = "L2P_IDLE" /\ ldm_done' = TRUE
                  /\ UNCHANGED ldm_req
    /\ UNCHANGED <<data_fifo_rd, ldm_edb>>

(* Mutant: the next packet is not requested. *)
L2pLastDataNoRequest(rdy) ==
    /\ l2p_state = "L2P_LAST_DATA"
    /\ \/ /\ ~rdy
          /\ ldm_valid' = FALSE
          /\ UNCHANGED <<l2p_state, ldm_req, ldm_word, ldm_dframe, ldm_done>>
       \/ /\ rdy
          /\ ldm_word' = Data(data_fifo_dout)
          /\ ldm_valid' = TRUE /\ ldm_dframe' = FALSE
          /\ IF l2p_len_cnt > 0
             THEN /\ l2p_state' = "L2P_HEADER" /\ UNCHANGED ldm_req
                  /\ UNCHANGED ldm_done
             ELSE /\ l2p_state' = "L2P_IDLE" /\ ldm_done' = TRUE
                  /\ UNCHANGED ldm_req
    /\ UNCHANGED <<data_fifo_rd, ldm_edb>>

L2pLastData(rdy) ==
    /\ l2p_state = "L2P_LAST_DATA"
    /\ \/ /\ ~rdy
          /\ ldm_valid' = FALSE
          /\ UNCHANGED <<l2p_state, ldm_req, ldm_word, ldm_dframe, ldm_done>>
       \/ /\ rdy
          /\ ldm_word' = Data(data_fifo_dout)
          /\ ldm_valid' = TRUE /\ ldm_dframe' = FALSE
          /\ IF l2p_len_cnt > 0
             THEN /\ l2p_state' = "L2P_HEADER" /\ ldm_req' = TRUE
                  /\ UNCHANGED ldm_done
             ELSE /\ l2p_state' = "L2P_IDLE" /\ ldm_done' = TRUE
                  /\ UNCHANGED ldm_req
    /\ UNCHANGED <<data_fifo_rd, ldm_edb>>

L2pFsm(abort, gnt, wr_rdy, rdy) ==
    \/ L2pIdle \/ L2pHeader(gnt, wr_rdy) \/ L2pAddrH \/ L2pAddrL
    \/ L2pData(abort, rdy) \/ L2pWaitRdy(rdy) \/ L2pWaitData \/ L2pLastData(rdy)

(* One rising edge of clk_i. *)
PacketTick(start, len, addr_h, addr_l, abort, gnt, wr_rdy, rdy) ==
    /\ PktGen(start, len, addr_h, addr_l)
    /\ FifoRead
    /\ L2pFsm(abort, gnt, wr_rdy, rdy)

(* The packet generator's registers hold values of their VHDL types. *)
PacketTypeOK ==
    /\ l2p_state \in L2pStates
    /\ l2p_len_cnt \in Nat
    /\ l2p_address_l \in 0 .. LowSpan - 1 /\ l2p_address_h \in Nat
    /\ l2p_data_cnt \in 0 .. 2 * HdrSpan - 1
    /\ l2p_len_header \in 0 .. HdrSpan - 1
    /\ l2p_64b \in BOOLEAN /\ l2p_last_packet \in BOOLEAN
    /\ ldm_req \in BOOLEAN /\ ldm_valid \in BOOLEAN /\ ldm_dframe \in BOOLEAN
    /\ ldm_done \in BOOLEAN /\ ldm_edb \in BOOLEAN
    /\ data_fifo \in Seq(Nat) /\ data_fifo_rd \in BOOLEAN
    /\ data_fifo_valid \in BOOLEAN /\ data_fifo_dout \in Nat \cup {NoData}
=============================================================================
