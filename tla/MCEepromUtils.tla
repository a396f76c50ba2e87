---------------------------- MODULE MCEepromUtils ----------------------------
(***************************************************************************)
(* EepromUtils on an EEPROM of two pages of eight bytes of sixteen values. *)
(* Page, FIFO, burst and record have their real sizes.                     *)
(***************************************************************************)
EXTENDS EepromUtils

\* Without an end mark; with one in the second record.
Plain == [i \in 0..15 |-> (i * 5 + 1) % 15]
Ended == [Plain EXCEPT ![6] = 15, ![7] = 15]
MCRomInits == {Plain, Ended}

One == <<<<1, 2>>, <<3, 4, 5, 6>>>>
Last == <<<<15, 15>>, <<15, 15, 15, 15>>>>
MCUserFiles == {<<One, Last>>, <<One, BadLine>>}

=============================================================================
