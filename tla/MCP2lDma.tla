------------------------------ MODULE MCP2lDma ------------------------------
(* The P2L DMA master with requests of at most eight words (LenSpan 8, so   *)
(* that a full request has the length field 0, as 1024 words have in the    *)
(* code).                                                                   *)
EXTENDS P2lDma

Job(host, len)  == [host |-> host, len |-> len, item |-> FALSE]
ChainItem(host) == [host |-> host, len |-> ItemWords, item |-> TRUE]

(* A 32-bit and a 64-bit host address, a full request, a chain item. *)
MixedReads == {Job(3, 2), Job(9, 8), ChainItem(8)}
(* Short jobs, for surroundings that misbehave. *)
ShortReads == {Job(1, 1), Job(2, 3)}
(* One job of two requests. *)
LongRead == {Job(1, 10)}
=============================================================================
