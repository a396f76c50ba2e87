------------------------------ MODULE MCL2pPath -----------------------------
(* The local-to-PCIe path with packets of two words and requests of one.    *)
EXTENDS L2pPath
=============================================================================
