---------------------------- MODULE WbmCompletion ---------------------------
(***************************************************************************)
(* The clk_i half of the Wishbone master that answers host reads           *)
(* (hdl/gn4124core/rtl/wbmaster32.vhd): p_pkt_gen, the L2P packet write    *)
(* FSM and the read side of the FIFO with the words read.                  *)
(***************************************************************************)
EXTENDS Integers, Sequences

VARIABLES cpl_state,      \* l2p_read_cpl_current_state
          p2l_cid,        \* identifier put in the completion header
          wbm_req, wbm_word, wbm_valid, wbm_dframe,
          from_wb_fifo, from_wb_fifo_rd, from_wb_fifo_dout

cplVars == <<cpl_state, p2l_cid, wbm_req, wbm_word, wbm_valid, wbm_dframe,
             from_wb_fifo_rd, from_wb_fifo_dout>>

NoCid == 0
CplZero == [kind |-> "zero"]
CplHeader(cid) == [kind |-> "cpl", cid |-> cid]
CplData(d)     == [kind |-> "cpl_data", data |-> d]

CompletionInit ==
    /\ cpl_state = "L2P_IDLE" /\ p2l_cid = NoCid
    /\ wbm_req = FALSE /\ wbm_word = CplZero
    /\ wbm_valid = FALSE /\ wbm_dframe = FALSE
    /\ from_wb_fifo = <<>> /\ from_wb_fifo_rd = FALSE /\ from_wb_fifo_dout = 0

(* p_pkt_gen: the identifier of the last header the decoder has seen. *)
StoreCid(hdr_start, cid) == p2l_cid' = IF hdr_start THEN cid ELSE p2l_cid

CplIdle(rd_rdy) ==
    /\ cpl_state = "L2P_IDLE"
    /\ wbm_word' = CplZero /\ wbm_valid' = FALSE /\ wbm_dframe' = FALSE
    /\ IF from_wb_fifo # <<>> /\ rd_rdy
       THEN wbm_req' = TRUE /\ from_wb_fifo_rd' = TRUE /\ cpl_state' = "L2P_HEADER"
       ELSE wbm_req' = FALSE /\ UNCHANGED <<from_wb_fifo_rd, cpl_state>>

(* Mutant: the header is sent without waiting for the grant. *)
CplHeaderUngranted(gnt) ==
    /\ cpl_state = "L2P_HEADER"
    /\ from_wb_fifo_rd' = FALSE
    /\ wbm_req' = ~gnt /\ wbm_word' = CplHeader(p2l_cid)
    /\ wbm_valid' = TRUE /\ wbm_dframe' = TRUE
    /\ cpl_state' = "L2P_DATA"

CplHeaderSent(gnt) ==
    /\ cpl_state = "L2P_HEADER"
    /\ from_wb_fifo_rd' = FALSE
    /\ IF gnt
       THEN /\ wbm_req' = FALSE /\ wbm_word' = CplHeader(p2l_cid)
            /\ wbm_valid' = TRUE /\ wbm_dframe' = TRUE
            /\ cpl_state' = "L2P_DATA"
       ELSE UNCHANGED <<wbm_req, wbm_word, wbm_valid, wbm_dframe, cpl_state>>

CplDataSent ==
    /\ cpl_state = "L2P_DATA"
    /\ cpl_state' = "L2P_IDLE"
    /\ wbm_word' = CplData(from_wb_fifo_dout) /\ wbm_dframe' = FALSE
    /\ UNCHANGED <<wbm_req, wbm_valid, from_wb_fifo_rd>>

CplFsm(gnt, rd_rdy) == CplIdle(rd_rdy) \/ CplHeaderSent(gnt) \/ CplDataSent

(* The FIFO is not show-ahead: a word read now is on its output next. *)
CplFifoRead ==
    LET pop == from_wb_fifo_rd /\ from_wb_fifo # <<>>
    IN /\ from_wb_fifo' = IF pop THEN Tail(from_wb_fifo) ELSE from_wb_fifo
       /\ from_wb_fifo_dout' = IF pop THEN Head(from_wb_fifo) ELSE from_wb_fifo_dout

(* One rising edge of clk_i. *)
CompletionTick(gnt, rd_rdy, hdr_start, cid) ==
    StoreCid(hdr_start, cid) /\ CplFsm(gnt, rd_rdy) /\ CplFifoRead
=============================================================================
