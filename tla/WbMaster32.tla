----------------------------- MODULE WbMaster32 -----------------------------
(***************************************************************************)
(* The Wishbone master (hdl/gn4124core/rtl/wbmaster32.vhd) behind the      *)
(* decoder: p_from_decoder puts the host's register writes and reads into  *)
(* a FIFO, p_wb_fsm performs them on the carrier one by one.  The answers  *)
(* to the reads go through the FIFO of module WbmCompletion.               *)
(***************************************************************************)
EXTENDS P2lDecode32, WbmCompletion

CONSTANT WbmFull   \* c_TO_WB_FIFO_FULL_THRES

ASSUME WbMasterConstants == WbmFull \in Nat \ {0}

VARIABLES wbm_fifo, wbm_fifo_din, wbm_fifo_wr,   \* to_wb_fifo, clk_i side
          wbm_fifo_rd, wbm_fifo_dout,            \* to_wb_fifo, wb_clk_i side
          wb_state, wb_cyc, wb_stb, wb_we, wb_adr, wb_dat,
          from_wb_fifo_din, from_wb_fifo_wr

entryVars == <<wbm_fifo_din, wbm_fifo_wr>>
wbVars == <<wbm_fifo_rd, wbm_fifo_dout, wb_state, wb_cyc, wb_stb, wb_we, wb_adr,
            wb_dat, from_wb_fifo_din, from_wb_fifo_wr>>

(* pd_wbm_addr_i(0) & pd_wbm_addr_i(31 downto 2): the region on top. *)
WbAddr(a) == a.bar * BarSpan + a.adr
WbAddrs == 0 .. 2 * BarSpan - 1
Requests == [rw : BOOLEAN, adr : WbAddrs, dat : Nat]
NoRequest == [rw |-> FALSE, adr |-> 0, dat |-> 0]

WbMasterInit ==
    /\ wbm_fifo = <<>> /\ wbm_fifo_din = NoRequest /\ wbm_fifo_wr = FALSE
    /\ wbm_fifo_rd = FALSE /\ wbm_fifo_dout = NoRequest
    /\ wb_state = "WB_IDLE" /\ wb_cyc = FALSE /\ wb_stb = FALSE /\ wb_we = FALSE
    /\ wb_adr = 0 /\ wb_dat = 0
    /\ from_wb_fifo_din = 0 /\ from_wb_fifo_wr = FALSE

(* Mutant: the GN4124 is never paused. *)
WbmRdyAlways == TRUE

(* p_wr_rdy_o and p2l_rdy_o *)
WbmRdy == Len(wbm_fifo) < WbmFull

(* What the decoder shows: a word to write, the address of a read. *)
WriteShown == pkt = "mwr" /\ d_valid
ReadShown  == pkt = "mrd" /\ addr_start

(* p_from_decoder, and the write side of the FIFO. *)
FromDecoder ==
    /\ wbm_fifo' = IF wbm_fifo_wr THEN Append(wbm_fifo, wbm_fifo_din) ELSE wbm_fifo
    /\ wbm_fifo_wr' = (WriteShown \/ ReadShown)
    /\ wbm_fifo_din' =
         IF WriteShown THEN [rw |-> TRUE, adr |-> WbAddr(addr), dat |-> d]
         ELSE IF ReadShown THEN [wbm_fifo_din EXCEPT !.rw = FALSE, !.adr = WbAddr(addr)]
         ELSE wbm_fifo_din

-----------------------------------------------------------------------------
(* p_wb_fsm: one action for each state. *)

WbIdle ==
    /\ wb_state = "WB_IDLE"
    /\ from_wb_fifo_wr' = FALSE /\ wb_cyc' = FALSE /\ wb_stb' = FALSE
    /\ IF wbm_fifo # <<>> THEN wbm_fifo_rd' = TRUE /\ wb_state' = "WB_READ_FIFO"
                          ELSE UNCHANGED <<wbm_fifo_rd, wb_state>>
    /\ UNCHANGED <<wb_we, wb_adr, wb_dat, from_wb_fifo_din>>

WbReadFifo ==
    /\ wb_state = "WB_READ_FIFO"
    /\ wbm_fifo_rd' = FALSE /\ wb_state' = "WB_CYCLE"
    /\ UNCHANGED <<wb_cyc, wb_stb, wb_we, wb_adr, wb_dat, from_wb_fifo_din,
                   from_wb_fifo_wr>>

WbCycle ==
    /\ wb_state = "WB_CYCLE"
    /\ wb_cyc' = TRUE /\ wb_stb' = TRUE /\ wb_we' = wbm_fifo_dout.rw
    /\ wb_adr' = wbm_fifo_dout.adr /\ wb_dat' = wbm_fifo_dout.dat
    /\ wb_state' = "WB_WAIT_ACK"
    /\ UNCHANGED <<wbm_fifo_rd, from_wb_fifo_din, from_wb_fifo_wr>>

(* Mutant: the strobe lasts one tick, as in the DMA masters. *)
StrobeNextOnce(stall) == FALSE

(* The strobe stays until the slave takes it. *)
StrobeNext(stall) == wb_stb /\ stall

(* Mutant: the answer to a write is kept as well. *)
AnswerKeptAlways(ack) == ack

(* The slave's answer is kept when it answers a read. *)
AnswerKept(ack) == ack /\ ~wb_we

WbWaitAck(stall, ack, dat) ==
    /\ wb_state = "WB_WAIT_ACK"
    /\ wb_stb' = StrobeNext(stall)
    /\ IF AnswerKept(ack) THEN from_wb_fifo_din' = dat /\ from_wb_fifo_wr' = TRUE
                          ELSE UNCHANGED <<from_wb_fifo_din, from_wb_fifo_wr>>
    /\ wb_cyc' = (wb_cyc /\ ~ack)
    /\ wb_state' = IF ack THEN "WB_IDLE" ELSE wb_state
    /\ UNCHANGED <<wbm_fifo_rd, wb_we, wb_adr, wb_dat>>

(* One rising edge of wb_clk_i. *)
WbTick(stall, ack, dat) ==
    LET pop == wbm_fifo_rd /\ wbm_fifo # <<>>
    IN /\ WbIdle \/ WbReadFifo \/ WbCycle \/ WbWaitAck(stall, ack, dat)
       /\ wbm_fifo' = IF pop THEN Tail(wbm_fifo) ELSE wbm_fifo
       /\ wbm_fifo_dout' = IF pop THEN Head(wbm_fifo) ELSE wbm_fifo_dout
       /\ from_wb_fifo' = IF from_wb_fifo_wr THEN Append(from_wb_fifo, from_wb_fifo_din)
                                             ELSE from_wb_fifo

(* The registers hold values of their VHDL types. *)
WbMasterTypeOK ==
    /\ wbm_fifo \in Seq(Requests) /\ wbm_fifo_din \in Requests
    /\ wbm_fifo_dout \in Requests /\ wbm_fifo_wr \in BOOLEAN /\ wbm_fifo_rd \in BOOLEAN
    /\ wb_state \in {"WB_IDLE", "WB_READ_FIFO", "WB_CYCLE", "WB_WAIT_ACK"}
    /\ wb_cyc \in BOOLEAN /\ wb_stb \in BOOLEAN /\ wb_we \in BOOLEAN
    /\ wb_adr \in WbAddrs /\ wb_dat \in Nat
    /\ from_wb_fifo_din \in Nat /\ from_wb_fifo_wr \in BOOLEAN
=============================================================================
