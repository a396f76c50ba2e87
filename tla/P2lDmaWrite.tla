---------------------------- MODULE P2lDmaWrite -----------------------------
(***************************************************************************)
(* The p2l_dma_clk_i half of the P2L DMA master (hdl/gn4124core/rtl/       *)
(* p2l_dma_master.vhd): the FIFO's read side and the pipelined Wishbone    *)
(* master that writes the words to the carrier.  The master never looks at *)
(* the slave's answer to a write, only counts it.                          *)
(***************************************************************************)
EXTENDS P2lRequest

CONSTANTS ToWbFull,    \* c_TO_WB_FIFO_FULL_THRES
          WrCntSpan    \* 2^32: the write and acknowledge counters

ASSUME WriteConstants == ToWbFull \in Nat \ {0} /\ WrCntSpan \in Nat \ {0}

VARIABLES to_wb_fifo_valid, to_wb_fifo_dout,
          p2l_adr, p2l_dat, p2l_stb, p2l_cyc,
          wb_write_cnt, p2l_ack_cnt       \* p2l_ack_cnt: wb_ack_cnt

writerVars == <<to_wb_fifo_valid, to_wb_fifo_dout, p2l_adr, p2l_dat, p2l_stb,
                p2l_cyc, wb_write_cnt, p2l_ack_cnt>>

WriterInit ==
    /\ to_wb_fifo_valid = FALSE /\ to_wb_fifo_dout = <<0, 0>>
    /\ p2l_adr = 0 /\ p2l_dat = 0 /\ p2l_stb = FALSE /\ p2l_cyc = FALSE
    /\ wb_write_cnt = 0 /\ p2l_ack_cnt = 0

(* Mutant: the GN4124 is never paused. *)
P2lRdyAlways == TRUE

(* p2l_rdy_o pauses the GN4124 while the FIFO is almost full. *)
P2lRdy == Len(to_wb_fifo) < ToWbFull

(* to_wb_fifo_rd: read a word while the bus is free and takes it. *)
ToWbFifoRd(stall, l2p_cyc) == to_wb_fifo # <<>> /\ ~stall /\ ~l2p_cyc

(* Mutant: the cycle ends one acknowledge early. *)
LastWriteAckEarly(ack) == ack /\ p2l_ack_cnt = (wb_write_cnt - 2) % WrCntSpan

(* Mutant: the cycle waits for one acknowledge too many. *)
LastWriteAckLate(ack) == ack /\ p2l_ack_cnt = wb_write_cnt

(* The cycle ends with the acknowledge of the last write. *)
LastWriteAck(ack) == ack /\ p2l_ack_cnt = (wb_write_cnt - 1) % WrCntSpan

(***************************************************************************)
(* One rising edge of p2l_dma_clk_i: p_gen_fifo_valid, p_wb_master and the *)
(* two counters.  The strobe lasts one tick, stalled or not.               *)
(***************************************************************************)
WriterTick(stall, ack, l2p_cyc) ==
    LET rd == ToWbFifoRd(stall, l2p_cyc)
    IN /\ to_wb_fifo_valid' = rd
       /\ to_wb_fifo_dout' = IF rd THEN Head(to_wb_fifo) ELSE to_wb_fifo_dout
       /\ to_wb_fifo' = IF rd THEN Tail(to_wb_fifo) ELSE to_wb_fifo
       /\ p2l_adr' = IF to_wb_fifo_valid THEN to_wb_fifo_dout[1] ELSE p2l_adr
       /\ p2l_dat' = IF to_wb_fifo_valid THEN to_wb_fifo_dout[2] ELSE p2l_dat
       /\ p2l_stb' = to_wb_fifo_valid
       /\ p2l_cyc' = (to_wb_fifo_valid \/ (p2l_cyc /\ ~LastWriteAck(ack)))
       /\ wb_write_cnt' = IF to_wb_fifo_valid THEN (wb_write_cnt + 1) % WrCntSpan
                                              ELSE wb_write_cnt
       /\ p2l_ack_cnt' = IF ack /\ p2l_cyc THEN (p2l_ack_cnt + 1) % WrCntSpan
                                           ELSE p2l_ack_cnt

(* The registers of this side hold values of their VHDL types. *)
WriterTypeOK ==
    /\ to_wb_fifo_valid \in BOOLEAN /\ to_wb_fifo_dout \in Nat \X Nat
    /\ p2l_adr \in Nat /\ p2l_dat \in Nat
    /\ p2l_stb \in BOOLEAN /\ p2l_cyc \in BOOLEAN
    /\ wb_write_cnt \in 0 .. WrCntSpan - 1 /\ p2l_ack_cnt \in 0 .. WrCntSpan - 1
=============================================================================
