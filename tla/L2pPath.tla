------------------------------ MODULE L2pPath -------------------------------
(***************************************************************************)
(* The local-to-PCIe path: the arbiter with its three requesters, the      *)
(* packet FSM of the L2P DMA master, the completion FSM of the Wishbone    *)
(* master and the read request FSM of the P2L DMA master, as gn4124_core   *)
(* connects them.  All of them run on clk_i; the other clocks fill the     *)
(* FIFOs in steps of their own.  Payload words, and the identifier of a    *)
(* host read, are all 0 here.                                              *)
(***************************************************************************)
EXTENDS L2pArbiter, L2pDmaPacket, WbmCompletion, P2lRequest

CONSTANTS WriteLens,  \* lengths of the L2P jobs
          ReadLens,   \* lengths of the P2L jobs
          FifoBound,  \* bound: words waiting in a FIFO
          Env         \* what the surroundings may do: "throttle", "dry", "abort"

ASSUME PathConstants == /\ WriteLens \subseteq Nat \ {0}
                        /\ ReadLens \subseteq Nat \ {0}
                        /\ FifoBound \in Nat \ {0}
                        /\ Env \subseteq {"throttle", "dry", "abort"}

VARIABLES left,     \* words of the L2P job the carrier has still to deliver
          busy,     \* the controller waits for the end of a job
          killed,   \* dma_ctrl_abort: ticks since it rose, at most 3
          line      \* the packet on the wire: its kind and its last word

pathVars == <<left, busy, killed, line>>
vars == <<arbiterVars, packetVars, cplVars, from_wb_fifo, readReqVars,
          requestFsmVars, captureVars, to_wb_fifo, pathVars>>

Free == [packet |-> "none", word |-> "none"]
Cut  == [packet |-> "cut", word |-> "none"]

Init ==
    /\ ArbiterInit /\ PacketInit /\ CompletionInit /\ RequestInit
    /\ left = 0 /\ busy = FALSE /\ killed = 0 /\ line = Free

(* The request lines and the three buses, as the arbiter sees them. *)
Req == [wbm |-> wbm_req, ldm |-> ldm_req, pdm |-> pdm_req]
Bus == [wbm |-> [valid |-> wbm_valid, dframe |-> wbm_dframe, word |-> wbm_word],
        ldm |-> [valid |-> ldm_valid, dframe |-> ldm_dframe, word |-> ldm_word],
        pdm |-> [valid |-> pdm_valid, dframe |-> pdm_dframe, word |-> pdm_word]]

(***************************************************************************)
(* The wire behind the arbiter.  A packet is a memory write (header), a    *)
(* read request (read) or a completion (cpl), and its words follow in one  *)
(* order only; after an abort the rest of the packet is cut off.           *)
(***************************************************************************)
Starts == {"header", "read", "cpl"}
After(p) ==
    CASE p.word \in {"header", "read"} -> {"high", "low"}
      [] p.word = "high"               -> {"low"}
      [] p.word \in {"low", "data"}    -> {"data"}
      [] p.word = "cpl"                -> {"cpl_data"}
      [] OTHER                         -> {}
Ends(p, k) == \/ p.packet = "read" /\ k = "low"
              \/ k = "cpl_data"
Torn == [packet |-> "torn", word |-> "none"]

Wire ==
    LET k == ser_o.word.kind
        last == ~ser_o.dframe
    IN line' = IF ldm_edb THEN Cut
               ELSE IF ~ser_o.valid \/ line = Torn THEN line
               ELSE IF line \in {Free, Cut} /\ k \in Starts /\ ~last
                    THEN [packet |-> k, word |-> k]
               ELSE IF line = Cut THEN Cut
               ELSE IF k \in After(line) /\ ~last /\ ~Ends(line, k)
                    THEN [line EXCEPT !.word = k]
               ELSE IF k \in After(line) /\ last /\ (Ends(line, k) \/ k = "data")
                    THEN Free
               ELSE Torn

(* What is ready and what is not in this tick. *)
Allowed(rdy) ==
    /\ ~rdy => "throttle" \in Env
    /\ l2p_state = "L2P_ADDR_L" /\ data_fifo = <<>> /\ left > 0 => "dry" \in Env

(***************************************************************************)
(* An edge of clk_i.  wlen # 0 starts an L2P job, rlen # 0 a P2L job; the  *)
(* controller starts a job when the one before has ended, or was aborted   *)
(* at least two ticks before (and, to keep the model small, when the       *)
(* carrier owes no word of it).                                            *)
(***************************************************************************)
Clk(wlen, rlen, in, wr_rdy, rd_rdy, rdy, kill) ==
    LET wstart == wlen # 0
        rstart == rlen # 0
        ended  == ldm_done \/ pdm_done \/ dma_busy_error \/ completion_error
        abort  == killed > 0 /\ ~wstart /\ ~rstart
    IN /\ Allowed(rdy)
       /\ wstart \/ rstart => /\ ~busy /\ killed \notin {1, 2} /\ left = 0
                              /\ ~(wstart /\ rstart)
       /\ kill => "abort" \in Env /\ busy
       /\ in # NoInput => /\ p2l_state = "P2L_WAIT_READ_COMPLETION"
                          /\ Len(to_wb_fifo) < FifoBound
       /\ PacketTick(wstart, wlen, 0, 0, abort, arb_gnt = "ldm", wr_rdy, rdy)
       /\ CompletionTick(arb_gnt = "wbm", rd_rdy, FALSE, 0)
       /\ RequestTick(rstart, FALSE, 0, rlen - 1, 0, rlen, abort,
                      arb_gnt = "pdm", in)
       /\ ArbiterTick(Req, Bus)
       /\ Wire
       /\ left' = IF wstart /\ l2p_state = "L2P_IDLE" THEN wlen ELSE left
       /\ busy' = IF wstart THEN l2p_state = "L2P_IDLE"
                 ELSE rstart \/ (busy /\ ~ended /\ ~kill)
       /\ killed' = IF kill THEN 1 ELSE IF abort /\ killed < 3 THEN killed + 1
                   ELSE IF abort THEN 3 ELSE 0

(* The host's answer to a read request: its words come in one packet. *)
Answer == [NoInput EXCEPT !.valid = TRUE, !.cpld = TRUE, !.last = (p2l_data_cnt <= 1)]

ClkTick ==
    \E wlen \in WriteLens \cup {0}, rlen \in ReadLens \cup {0},
       in \in {NoInput, Answer}, wr_rdy, rd_rdy, rdy, kill \in BOOLEAN :
         Clk(wlen, rlen, in, wr_rdy, rd_rdy, rdy, kill)

(* The carrier delivers a word of the L2P job. *)
CarrierWord ==
    /\ left > 0 /\ Len(data_fifo) < FifoBound
    /\ data_fifo' = Append(data_fifo, 0) /\ left' = left - 1
    /\ UNCHANGED <<arbiterVars, pktVars, fsmVars, data_fifo_valid,
                   data_fifo_dout, cplVars, from_wb_fifo, readReqVars,
                   requestFsmVars, captureVars, to_wb_fifo, busy, killed, line>>

(* A register read by the host has been answered on the carrier. *)
HostRead ==
    /\ Len(from_wb_fifo) < FifoBound
    /\ from_wb_fifo' = Append(from_wb_fifo, 0)
    /\ UNCHANGED <<arbiterVars, packetVars, cplVars, readReqVars,
                   requestFsmVars, captureVars, to_wb_fifo, pathVars>>

(* The Wishbone writer takes a word of the P2L job. *)
CarrierWrite ==
    /\ to_wb_fifo # <<>>
    /\ to_wb_fifo' = Tail(to_wb_fifo)
    /\ UNCHANGED <<arbiterVars, packetVars, cplVars, from_wb_fifo, readReqVars,
                   requestFsmVars, captureVars, pathVars>>

Next == ClkTick \/ CarrierWord \/ HostRead \/ CarrierWrite

Spec == Init /\ [][Next]_vars

-----------------------------------------------------------------------------
(* WordsGranted: a requester shows a valid word only while it holds the    *)
(* grant: the arbiter's multiplexer would drop it otherwise.               *)
WordsGranted == /\ wbm_valid => arb_gnt = "wbm"
                /\ ldm_valid => arb_gnt = "ldm"
                /\ pdm_valid => arb_gnt = "pdm"

(* PacketsWhole: the words of a packet follow each other on the wire, in   *)
(* order and without a word of another packet between them.                *)
PacketsWhole == line # Torn

(***************************************************************************)
(* The clocks run, the carrier delivers the words of a job, and again and  *)
(* again the GN4124 is ready for everything at once.  Nothing makes the    *)
(* host answer a read request or start a job.                              *)
(***************************************************************************)
Fairness ==
    /\ WF_vars(Clk(0, 0, NoInput, TRUE, TRUE, TRUE, FALSE))
    /\ WF_vars(CarrierWord)
FairSpec == Spec /\ Fairness

(* WbmServed: a register read of the host that the carrier has answered    *)
(* gets the bus, whatever the DMA masters do.  An abort that cuts a packet  *)
(* delays it until another packet has gone out whole; only a wire that      *)
(* stays cut, or is cut again and again, can keep the read waiting.         *)
WbmServed == <>[](line # Cut) => (wbm_req ~> arb_gnt = "wbm")
=============================================================================
