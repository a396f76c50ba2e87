---------------------------- MODULE MCHostAccess ----------------------------
(* Two regions of two registers; bursts of two words that wrap in their     *)
(* region, reads with two identifiers and completions for the DMA master.   *)
EXTENDS HostAccess

MCPackets ==
    {[type |-> "mrd", cid |-> c, bar |-> 0, adr |-> 1, len |-> 1] : c \in {1, 2}}
      \cup {[type |-> "mwr", cid |-> 0, bar |-> b, adr |-> 1, len |-> 2] : b \in {0, 1}}
      \cup {[type |-> "cpld", cid |-> 0, bar |-> 0, adr |-> 0, len |-> 1]}
=============================================================================
