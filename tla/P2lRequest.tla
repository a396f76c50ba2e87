----------------------------- MODULE P2lRequest -----------------------------
(***************************************************************************)
(* The clk_i half of the P2L DMA master (hdl/gn4124core/rtl/               *)
(* p2l_dma_master.vhd): p_read_req and p_read_req_fsm send read requests   *)
(* to the host, the other processes take the words of the completions: a   *)
(* DMA item of a chain is stored, the words of a transfer go to the        *)
(* Wishbone writer's FIFO.                                                 *)
(*                                                                         *)
(* Words are 32-bit words and addresses word addresses.                    *)
(***************************************************************************)
EXTENDS Integers, Sequences

CONSTANTS MaxRead,     \* c_MAX_READ_REQ_SIZE
          LenSpan,     \* 2^10: the length field of the header
          CarrierSpan  \* 2^30: word addresses of the carrier

ASSUME RequestConstants == /\ LenSpan \in Nat /\ MaxRead \in 1 .. LenSpan
                           /\ CarrierSpan \in Nat \ {0}

VARIABLES p2l_state,                    \* p2l_dma_current_state
          pdm_address_h, pdm_address_l, pdm_len_cnt, pdm_len_header, pdm_64b,
          is_next_item, pdm_last_packet,
          pdm_req, pdm_word, pdm_valid, pdm_dframe,
          pdm_done_t, pdm_done,         \* dma_ctrl_done_t, dma_ctrl_done_o
          next_item_valid, completion_error, rx_error_t, rx_error,
          p2l_data_cnt,
          next_item,                    \* the seven next_item registers
          p2l_addr_cnt, dma_busy_error, to_wb_fifo_wr, to_wb_fifo_din,
          to_wb_fifo

readReqVars == <<pdm_address_h, pdm_address_l, pdm_len_cnt, pdm_len_header,
                 pdm_64b, is_next_item, pdm_last_packet>>
requestFsmVars == <<p2l_state, pdm_req, pdm_word, pdm_valid, pdm_dframe,
                    pdm_done_t, next_item_valid, completion_error, rx_error_t>>
captureVars == <<pdm_done, rx_error, p2l_data_cnt, next_item, p2l_addr_cnt,
                 dma_busy_error, to_wb_fifo_wr, to_wb_fifo_din>>

ReadZero            == [kind |-> "zero"]
ReadHeader(n, wide) == [kind |-> "read", len |-> n, wide |-> wide]
ReadHigh(a)         == [kind |-> "high", addr |-> a]
ReadLow(a)          == [kind |-> "low", addr |-> a]

(* What p2l_decode32 shows the master in a tick: a data word of a          *)
(* completion (cpld) or of a target write, the last of its packet or not;  *)
(* a completion without data (cpln); or nothing.                           *)
NoInput == [valid |-> FALSE, last |-> FALSE, cpld |-> FALSE, cpln |-> FALSE, data |-> 0]

RequestInit ==
    /\ p2l_state = "P2L_IDLE"
    /\ pdm_address_h = 0 /\ pdm_address_l = 0 /\ pdm_len_cnt = 0
    /\ pdm_len_header = 0 /\ pdm_64b = FALSE /\ is_next_item = FALSE
    /\ pdm_last_packet = FALSE
    /\ pdm_req = FALSE /\ pdm_word = ReadZero /\ pdm_valid = FALSE
    /\ pdm_dframe = FALSE /\ pdm_done_t = FALSE /\ pdm_done = FALSE
    /\ next_item_valid = FALSE /\ completion_error = FALSE
    /\ rx_error_t = FALSE /\ rx_error = FALSE
    /\ p2l_data_cnt = 0 /\ next_item = [i \in 1 .. 7 |-> 0]
    /\ p2l_addr_cnt = 0 /\ dma_busy_error = FALSE
    /\ to_wb_fifo_wr = FALSE /\ to_wb_fifo_din = <<0, 0>> /\ to_wb_fifo = <<>>

-----------------------------------------------------------------------------
(***************************************************************************)
(* p_read_req.  The address is loaded once, with the start: the requests   *)
(* after the first one carry it again.                                     *)
(***************************************************************************)
ReadReq(start, next, addr_h, addr_l, len) ==
    \/ /\ p2l_state = "P2L_IDLE" /\ (start \/ next)
       /\ pdm_address_h' = addr_h /\ pdm_address_l' = addr_l
       /\ pdm_len_cnt' = len /\ is_next_item' = next
       /\ pdm_64b' = (addr_h # 0)
       /\ UNCHANGED <<pdm_len_header, pdm_last_packet>>
    \/ /\ p2l_state = "P2L_HEADER"
       /\ pdm_len_header' = (IF pdm_len_cnt > MaxRead THEN MaxRead
                                                     ELSE pdm_len_cnt) % LenSpan
       /\ pdm_last_packet' = (pdm_len_cnt <= MaxRead)
       /\ UNCHANGED <<pdm_address_h, pdm_address_l, pdm_len_cnt, pdm_64b, is_next_item>>
    \/ /\ p2l_state = "P2L_ADDR_L"
       /\ pdm_len_cnt' = IF pdm_last_packet THEN 0 ELSE pdm_len_cnt - MaxRead
       /\ UNCHANGED <<pdm_address_h, pdm_address_l, pdm_len_header, pdm_64b,
                      is_next_item, pdm_last_packet>>
    \/ /\ \/ p2l_state = "P2L_IDLE" /\ ~start /\ ~next
          \/ p2l_state \in {"P2L_ADDR_H", "P2L_WAIT_READ_COMPLETION"}
       /\ UNCHANGED readReqVars

-----------------------------------------------------------------------------
(* p_read_req_fsm: one action for each state. *)

(* Mutant: done is left set. *)
P2lIdleKeepsDone(start, next) ==
    /\ p2l_state = "P2L_IDLE"
    /\ next_item_valid' = FALSE /\ completion_error' = FALSE /\ rx_error_t' = FALSE
    /\ IF start \/ next THEN pdm_req' = TRUE /\ p2l_state' = "P2L_HEADER"
                        ELSE UNCHANGED <<pdm_req, p2l_state>>
    /\ UNCHANGED <<pdm_word, pdm_valid, pdm_dframe, pdm_done_t>>

P2lIdle(start, next) ==
    /\ p2l_state = "P2L_IDLE"
    /\ pdm_done_t' = FALSE /\ next_item_valid' = FALSE
    /\ completion_error' = FALSE /\ rx_error_t' = FALSE
    /\ IF start \/ next THEN pdm_req' = TRUE /\ p2l_state' = "P2L_HEADER"
                        ELSE UNCHANGED <<pdm_req, p2l_state>>
    /\ UNCHANGED <<pdm_word, pdm_valid, pdm_dframe>>

P2lHeader(gnt) ==
    /\ p2l_state = "P2L_HEADER"
    /\ IF gnt
       THEN /\ pdm_req' = FALSE
            /\ pdm_word' = ReadHeader(pdm_len_header, pdm_64b)
            /\ pdm_valid' = TRUE /\ pdm_dframe' = TRUE
            /\ p2l_state' = IF pdm_64b THEN "P2L_ADDR_H" ELSE "P2L_ADDR_L"
       ELSE UNCHANGED <<p2l_state, pdm_req, pdm_word, pdm_valid, pdm_dframe>>
    /\ UNCHANGED <<pdm_done_t, next_item_valid, completion_error, rx_error_t>>

P2lAddrH ==
    /\ p2l_state = "P2L_ADDR_H"
    /\ pdm_word' = ReadHigh(pdm_address_h) /\ p2l_state' = "P2L_ADDR_L"
    /\ UNCHANGED <<pdm_req, pdm_valid, pdm_dframe, pdm_done_t, next_item_valid,
                   completion_error, rx_error_t>>

P2lAddrL ==
    /\ p2l_state = "P2L_ADDR_L"
    /\ pdm_word' = ReadLow(pdm_address_l) /\ pdm_dframe' = FALSE
    /\ p2l_state' = "P2L_WAIT_READ_COMPLETION"
    /\ UNCHANGED <<pdm_req, pdm_valid, pdm_done_t, next_item_valid,
                   completion_error, rx_error_t>>

(* Mutant: the end of the first completion is taken for the last one. *)
RequestServedFirst(in) == in.cpld /\ in.last

(* Mutant: the counter is expected to be down to 0 with the last word. *)
RequestServedNever(in) == in.cpld /\ in.last /\ p2l_data_cnt = 0

(* The last word of the last completion of this request. *)
RequestServed(in) == in.cpld /\ in.last /\ p2l_data_cnt <= 1

P2lWait(abort, in) ==
    /\ p2l_state = "P2L_WAIT_READ_COMPLETION"
    /\ pdm_valid' = FALSE
    /\ \/ /\ abort
          /\ rx_error_t' = TRUE /\ p2l_state' = "P2L_IDLE"
          /\ UNCHANGED <<pdm_req, pdm_done_t, next_item_valid, completion_error>>
       \/ /\ ~abort /\ RequestServed(in) /\ ~pdm_last_packet
          /\ p2l_state' = "P2L_HEADER" /\ pdm_req' = TRUE
          /\ UNCHANGED <<pdm_done_t, next_item_valid, completion_error, rx_error_t>>
       \/ /\ ~abort /\ RequestServed(in) /\ pdm_last_packet
          /\ IF is_next_item THEN next_item_valid' = TRUE /\ UNCHANGED pdm_done_t
                             ELSE pdm_done_t' = TRUE /\ UNCHANGED next_item_valid
          /\ p2l_state' = "P2L_IDLE"
          /\ UNCHANGED <<pdm_req, completion_error, rx_error_t>>
       \/ /\ ~abort /\ ~RequestServed(in) /\ in.cpln
          /\ completion_error' = TRUE /\ p2l_state' = "P2L_IDLE"
          /\ UNCHANGED <<pdm_req, pdm_done_t, next_item_valid, rx_error_t>>
       \/ /\ ~abort /\ ~RequestServed(in) /\ ~in.cpln
          /\ UNCHANGED <<p2l_state, pdm_req, pdm_done_t, next_item_valid,
                         completion_error, rx_error_t>>
    /\ UNCHANGED <<pdm_word, pdm_dframe>>

RequestFsm(start, next, abort, gnt, in) ==
    \/ P2lIdle(start, next) \/ P2lHeader(gnt) \/ P2lAddrH \/ P2lAddrL
    \/ P2lWait(abort, in)

-----------------------------------------------------------------------------
(* p_ctrl_pipe *)
CtrlPipe == pdm_done' = pdm_done_t /\ rx_error' = rx_error_t

(* p_recv_data_cnt *)
RecvDataCnt(in) ==
    p2l_data_cnt' =
        IF p2l_state = "P2L_ADDR_L"
        THEN IF pdm_len_header = 0 THEN LenSpan ELSE pdm_len_header
        ELSE IF p2l_state = "P2L_WAIT_READ_COMPLETION" /\ in.valid /\ in.cpld
        THEN (p2l_data_cnt - 1) % (2 * LenSpan)
        ELSE p2l_data_cnt

(* Mutant: the first word is taken for the last register. *)
ItemPlaceReversed == p2l_data_cnt % 8

(* The word's place in the item, from the words still to come. *)
ItemPlace == 8 - (p2l_data_cnt % 8)

(* p_next_item *)
NextItem(in) ==
    next_item' =
        IF /\ p2l_state = "P2L_WAIT_READ_COMPLETION" /\ is_next_item /\ in.valid
           /\ p2l_data_cnt % 8 # 0
        THEN [next_item EXCEPT ![ItemPlace] = in.data]
        ELSE next_item

(* Mutants: the counter is wider than its signal; it does not count. *)
NextCarrierWide == p2l_addr_cnt + 1
NextCarrierSame == p2l_addr_cnt

NextCarrier == (p2l_addr_cnt + 1) % CarrierSpan

(* p_addr_cnt, and the write side of the FIFO to the Wishbone writer. *)
AddrCnt(start, addr, in) ==
    /\ to_wb_fifo' = IF to_wb_fifo_wr THEN Append(to_wb_fifo, to_wb_fifo_din)
                                      ELSE to_wb_fifo
    /\ \/ /\ start
          /\ IF p2l_state = "P2L_IDLE"
             THEN p2l_addr_cnt' = addr /\ UNCHANGED dma_busy_error
             ELSE dma_busy_error' = TRUE /\ UNCHANGED p2l_addr_cnt
          /\ UNCHANGED <<to_wb_fifo_wr, to_wb_fifo_din>>
       \/ /\ ~start /\ p2l_state = "P2L_WAIT_READ_COMPLETION"
          /\ ~is_next_item /\ in.valid
          /\ p2l_addr_cnt' = NextCarrier
          /\ to_wb_fifo_wr' = TRUE /\ to_wb_fifo_din' = <<p2l_addr_cnt, in.data>>
          /\ UNCHANGED dma_busy_error
       \/ /\ ~start /\ ~(/\ p2l_state = "P2L_WAIT_READ_COMPLETION"
                         /\ ~is_next_item /\ in.valid)
          /\ dma_busy_error' = FALSE /\ to_wb_fifo_wr' = FALSE
          /\ UNCHANGED <<p2l_addr_cnt, to_wb_fifo_din>>

(* One rising edge of clk_i. *)
RequestTick(start, next, carrier, addr_h, addr_l, len, abort, gnt, in) ==
    /\ ReadReq(start, next, addr_h, addr_l, len)
    /\ RequestFsm(start, next, abort, gnt, in)
    /\ CtrlPipe /\ RecvDataCnt(in) /\ NextItem(in)
    /\ AddrCnt(start, carrier, in)

(* The registers of this side hold values of their VHDL types. *)
RequestTypeOK ==
    /\ p2l_state \in {"P2L_IDLE", "P2L_HEADER", "P2L_ADDR_H", "P2L_ADDR_L",
                      "P2L_WAIT_READ_COMPLETION"}
    /\ pdm_address_h \in Nat /\ pdm_address_l \in Nat /\ pdm_len_cnt \in Nat
    /\ pdm_len_header \in 0 .. LenSpan - 1
    /\ pdm_64b \in BOOLEAN /\ is_next_item \in BOOLEAN
    /\ pdm_last_packet \in BOOLEAN
    /\ pdm_req \in BOOLEAN /\ pdm_valid \in BOOLEAN /\ pdm_dframe \in BOOLEAN
    /\ pdm_done_t \in BOOLEAN /\ pdm_done \in BOOLEAN
    /\ next_item_valid \in BOOLEAN /\ completion_error \in BOOLEAN
    /\ rx_error_t \in BOOLEAN /\ rx_error \in BOOLEAN
    /\ p2l_data_cnt \in 0 .. 2 * LenSpan - 1
    /\ next_item \in [1 .. 7 -> Nat]
    /\ p2l_addr_cnt \in 0 .. CarrierSpan - 1 /\ dma_busy_error \in BOOLEAN
    /\ to_wb_fifo_wr \in BOOLEAN /\ to_wb_fifo_din \in Nat \X Nat
    /\ to_wb_fifo \in Seq(Nat \X Nat)
=============================================================================
