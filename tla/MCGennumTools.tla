---------------------------- MODULE MCGennumTools ----------------------------
(***************************************************************************)
(* GennumTools with two cards of one kind in different slots.              *)
(***************************************************************************)
EXTENDS GennumTools

CONSTANTS dmatest, rrcmd, rrself

CardA == [id |-> "gn4124", sub |-> "kit", geo |-> "slot1"]
CardB == [id |-> "gn4124", sub |-> "kit", geo |-> "slot2"]
MCProcs == {dmatest, rrcmd, rrself}
MCCards == {CardA, CardB}
MCAddresses == {CardB, [id |-> "other", sub |-> "none", geo |-> "none"]}

=============================================================================
