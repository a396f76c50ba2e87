----------------------------- MODULE L2pArbiter -----------------------------
(***************************************************************************)
(* The arbiter of the local-to-PCIe path (hdl/gn4124core/rtl/              *)
(* l2p_arbiter.vhd): strict priority between the Wishbone master ("wbm"),  *)
(* the L2P DMA master ("ldm") and the P2L DMA master ("pdm"), and two      *)
(* output registers towards the serialiser.                                *)
(*                                                                         *)
(* The three grant registers are always written together and never two of  *)
(* them with '1': arb_gnt names the one that is set.                       *)
(***************************************************************************)
EXTENDS Integers, Sequences

VARIABLES arb_gnt,   \* arb_wbm_gnt, arb_pdm_gnt, arb_ldm_gnt
          ser_t,     \* arb_ser_*_t
          ser_o      \* arb_ser_*_o

arbiterVars == <<arb_gnt, ser_t, ser_o>>

Sources == {"wbm", "ldm", "pdm"}
Silent == [valid |-> FALSE, dframe |-> FALSE, word |-> [kind |-> "zero"]]

ArbiterInit == arb_gnt = "none" /\ ser_t = Silent /\ ser_o = Silent

(* A request counts only if no other source holds the grant. *)
ReqValid(s, req) == req[s] /\ arb_gnt \in {"none", s}

(* End of packet: the granted source's last word (valid, dframe low). *)
Eop(bus) == arb_gnt # "none" /\ bus[arb_gnt].valid /\ ~bus[arb_gnt].dframe

(* Mutant: a request takes the bus from the source that holds it. *)
ArbitratePreempt(req, bus) ==
    \/ req["wbm"] /\ arb_gnt' = "wbm"
    \/ ~req["wbm"] /\ req["ldm"] /\ arb_gnt' = "ldm"
    \/ ~req["wbm"] /\ ~req["ldm"] /\ req["pdm"] /\ arb_gnt' = "pdm"
    \/ /\ \A s \in Sources : ~req[s]
       /\ arb_gnt' = IF Eop(bus) THEN "none" ELSE arb_gnt

(* Mutant: the end of a packet does not end the grant. *)
ArbitrateForEver(req, bus) ==
    \/ ReqValid("wbm", req) /\ arb_gnt' = "wbm"
    \/ ~ReqValid("wbm", req) /\ ReqValid("ldm", req) /\ arb_gnt' = "ldm"
    \/ ~ReqValid("wbm", req) /\ ~ReqValid("ldm", req) /\ ReqValid("pdm", req) /\ arb_gnt' = "pdm"
    \/ (\A s \in Sources : ~ReqValid(s, req)) /\ UNCHANGED arb_gnt

Arbitrate(req, bus) ==
    \/ ReqValid("wbm", req) /\ arb_gnt' = "wbm"
    \/ ~ReqValid("wbm", req) /\ ReqValid("ldm", req) /\ arb_gnt' = "ldm"
    \/ /\ ~ReqValid("wbm", req) /\ ~ReqValid("ldm", req)
       /\ ReqValid("pdm", req) /\ arb_gnt' = "pdm"
    \/ /\ \A s \in Sources : ~ReqValid(s, req)
       /\ arb_gnt' = IF Eop(bus) THEN "none" ELSE arb_gnt

(* The multiplexer's register, and the register behind it. *)
Mux(bus) ==
    /\ ser_t' = IF arb_gnt = "none" THEN Silent ELSE bus[arb_gnt]
    /\ ser_o' = ser_t

(* One rising edge of clk_i. *)
ArbiterTick(req, bus) == Arbitrate(req, bus) /\ Mux(bus)
=============================================================================
