---------------------------- MODULE L2pDmaFetch -----------------------------
(***************************************************************************)
(* The carrier side of the L2P DMA master (hdl/gn4124core/rtl/             *)
(* l2p_dma_master.vhd): p_target_cnt puts the addresses of a transfer in   *)
(* the address FIFO (clk_i), the pipelined Wishbone master reads them and  *)
(* puts the answers in the data FIFO (l2p_dma_clk_i).                      *)
(***************************************************************************)
EXTENDS L2pDmaPacket

CONSTANTS AddrSpan,   \* 2^30: word addresses of the carrier
          AddrFull,   \* c_ADDR_FIFO_FULL_THRES
          DataFull,   \* c_DATA_FIFO_FULL_THRES
          CntSpan     \* 2^32: the Wishbone read and acknowledge counters

ASSUME FetchConstants == /\ AddrSpan \in Nat \ {0} /\ CntSpan \in Nat \ {0}
                         /\ AddrFull \in Nat \ {0} /\ DataFull \in Nat \ {0}

VARIABLES
    (* clk_i *)
    target_addr_cnt, dma_length_cnt, ldm_error,
    addr_fifo_wr, addr_fifo_din,
    (* the address FIFO; the data FIFO is data_fifo *)
    addr_fifo,
    (* l2p_dma_clk_i *)
    addr_fifo_valid, addr_fifo_dout,
    l2p_adr, l2p_stb, l2p_cyc, wb_read_cnt, wb_ack_cnt

targetVars == <<target_addr_cnt, dma_length_cnt, ldm_error, addr_fifo_wr,
                addr_fifo_din>>
busVars    == <<addr_fifo_valid, addr_fifo_dout, l2p_adr, l2p_stb, l2p_cyc,
                wb_read_cnt, wb_ack_cnt>>

FetchInit ==
    /\ target_addr_cnt = 0 /\ dma_length_cnt = 0 /\ ldm_error = FALSE
    /\ addr_fifo_wr = FALSE /\ addr_fifo_din = 0
    /\ addr_fifo = <<>>
    /\ addr_fifo_valid = FALSE /\ addr_fifo_dout = 0
    /\ l2p_adr = 0 /\ l2p_stb = FALSE /\ l2p_cyc = FALSE
    /\ wb_read_cnt = 0 /\ wb_ack_cnt = 0

addr_fifo_full == Len(addr_fifo) >= AddrFull
data_fifo_full == Len(data_fifo) >= DataFull

(* Mutant: the word address counter is one bit too wide. *)
NextTargetWide == target_addr_cnt + 1

NextTarget == (target_addr_cnt + 1) % AddrSpan

(***************************************************************************)
(* p_target_cnt, and the write side of the address FIFO.  A start while    *)
(* the packet FSM is not idle sets the error line, which only a later      *)
(* start in the idle state clears.                                         *)
(***************************************************************************)
TargetCnt(start, idle, addr, len) ==
    /\ addr_fifo' = IF addr_fifo_wr THEN Append(addr_fifo, addr_fifo_din)
                                    ELSE addr_fifo
    /\ \/ /\ start /\ idle
          /\ target_addr_cnt' = addr /\ dma_length_cnt' = len
          /\ ldm_error' = FALSE
          /\ UNCHANGED <<addr_fifo_wr, addr_fifo_din>>
       \/ /\ start /\ ~idle
          /\ target_addr_cnt' = 0 /\ dma_length_cnt' = 0
          /\ ldm_error' = TRUE
          /\ UNCHANGED <<addr_fifo_wr, addr_fifo_din>>
       \/ /\ ~start /\ dma_length_cnt # 0 /\ ~addr_fifo_full
          /\ addr_fifo_wr' = TRUE /\ addr_fifo_din' = target_addr_cnt
          /\ target_addr_cnt' = NextTarget
          /\ dma_length_cnt' = dma_length_cnt - 1
          /\ UNCHANGED ldm_error
       \/ /\ ~start /\ (dma_length_cnt = 0 \/ addr_fifo_full)
          /\ addr_fifo_wr' = FALSE
          /\ UNCHANGED <<target_addr_cnt, dma_length_cnt, ldm_error, addr_fifo_din>>

-----------------------------------------------------------------------------
(* Mutant: the data FIFO's full flag is not looked at. *)
AddrFifoRdBlind(stall, p2l_cyc) == addr_fifo # <<>> /\ ~stall /\ ~p2l_cyc

(* addr_fifo_rd: read an address while the bus and the data FIFO take it. *)
AddrFifoRd(stall, p2l_cyc) ==
    addr_fifo # <<>> /\ ~stall /\ ~data_fifo_full /\ ~p2l_cyc

(* Mutant: the read issued in the same tick is not counted. *)
LastAckEarly(ack) == ack /\ wb_ack_cnt = (wb_read_cnt - 2) % CntSpan

(* The cycle ends with the acknowledge of the last read. *)
LastAck(ack) == ack /\ wb_ack_cnt = (wb_read_cnt - 1) % CntSpan

(***************************************************************************)
(* One rising edge of l2p_dma_clk_i: p_gen_addr_fifo_valid, p_wb_master    *)
(* and the two counters.  The strobe lasts one tick, stalled or not.       *)
(***************************************************************************)
BusTick(stall, ack, data, p2l_cyc) ==
    LET rd == AddrFifoRd(stall, p2l_cyc)
    IN /\ addr_fifo_valid' = rd
       /\ addr_fifo_dout' = IF rd THEN Head(addr_fifo) ELSE addr_fifo_dout
       /\ addr_fifo' = IF rd THEN Tail(addr_fifo) ELSE addr_fifo
       /\ l2p_adr' = IF addr_fifo_valid THEN addr_fifo_dout ELSE l2p_adr
       /\ l2p_stb' = addr_fifo_valid
       /\ l2p_cyc' = (addr_fifo_valid \/ (l2p_cyc /\ ~LastAck(ack)))
       /\ wb_read_cnt' = IF addr_fifo_valid THEN (wb_read_cnt + 1) % CntSpan
                                            ELSE wb_read_cnt
       /\ wb_ack_cnt' = IF ack /\ l2p_cyc THEN (wb_ack_cnt + 1) % CntSpan
                                          ELSE wb_ack_cnt
       /\ data_fifo' = IF ack /\ l2p_cyc THEN Append(data_fifo, data) ELSE data_fifo

(* The registers of this side hold values of their VHDL types. *)
FetchTypeOK ==
    /\ target_addr_cnt \in 0 .. AddrSpan - 1 /\ dma_length_cnt \in Nat
    /\ ldm_error \in BOOLEAN
    /\ addr_fifo_wr \in BOOLEAN /\ addr_fifo_din \in 0 .. AddrSpan - 1
    /\ addr_fifo \in Seq(Nat)
    /\ addr_fifo_valid \in BOOLEAN /\ addr_fifo_dout \in Nat
    /\ l2p_adr \in Nat /\ l2p_stb \in BOOLEAN /\ l2p_cyc \in BOOLEAN
    /\ wb_read_cnt \in 0 .. CntSpan - 1 /\ wb_ack_cnt \in 0 .. CntSpan - 1
=============================================================================
