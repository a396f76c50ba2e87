------------------------------ MODULE MCL2pDma ------------------------------
(* Jobs for the L2P DMA master: host memory has 16 words, 8 of them below   *)
(* the 4 GB boundary.                                                      *)
EXTENDS L2pDma

(* One short packet, one full packet, two and three packets; 32-bit and    *)
(* 64-bit host addresses.                                                  *)
MixedJobs == {[addr |-> a, len |-> n] : a \in {1, 9}, n \in {1, 3, 5, 7}}

(* Three packets of two words. *)
LongJob == {[addr |-> 1, len |-> 5]}

(* A packet of two words and one of one word. *)
HardJobs == {[addr |-> 1, len |-> 3]}

(* Two packets on either side of the 4 GB boundary. *)
CrossingJob == {[addr |-> 6, len |-> 4]}
=============================================================================
