---------------------------- MODULE MCDmaEngine -----------------------------
(* Lists of one to three items; host words 0..7, items at 8 and at 16,      *)
(* which is a 64-bit address.                                               *)
EXTENDS DmaEngine

ToCarrier(host, at, n, more, next) ==
    [carrier |-> at, host |-> host, len |-> n, next |-> next, more |-> more, p2l |-> TRUE]
ToHost(host, at, n, more, next) ==
    [carrier |-> at, host |-> host, len |-> n, next |-> next, more |-> more, p2l |-> FALSE]

(* Host words go to the carrier, come back from there, and one goes out. *)
MixedLists == {ToCarrier(0, 0, 2, TRUE, 8), ToHost(25, 2, 1, TRUE, 16),
               ToHost(5, 1, 3, FALSE, 0)}
MixedListing == [a \in {8, 16} |-> IF a = 8 THEN ToHost(3, 0, 3, TRUE, 16)
                                            ELSE ToCarrier(3, 3, 1, FALSE, 0)]

(* A list whose two items have no carrier word in common. *)
ApartLists == {ToCarrier(0, 0, 2, TRUE, 8)}
ApartListing == [a \in {8} |-> ToHost(3, 2, 1, FALSE, 0)]
=============================================================================
