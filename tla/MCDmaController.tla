-------------------------- MODULE MCDmaController ---------------------------
(* The DMA controller with two addresses and four list items. *)
EXTENDS DmaController

CONSTANTS a0, a1

MCItems == { [carrier |-> a1, host |-> a0, len |-> 2, next |-> a0, more |-> FALSE, p2l |-> TRUE],
             [carrier |-> a0, host |-> a1, len |-> 2, next |-> a1, more |-> TRUE,  p2l |-> FALSE],
             [carrier |-> a1, host |-> a1, len |-> 0, next |-> a0, more |-> TRUE,  p2l |-> TRUE] }
=============================================================================
