----------------------------- MODULE EepromUtils -----------------------------
(***************************************************************************)
(* eeprom_utils.py: the menu of the EEPROM utility, its file, and the      *)
(* commands that move records between the two.  A record is six bytes, an  *)
(* address of two and a data word of four, both low byte first; the file   *)
(* has one line per record, the two numbers in hexadecimal, high byte      *)
(* first.                                                                  *)
(*                                                                         *)
(* The program can be interrupted from the keyboard anywhere and started   *)
(* again; the controller, the EEPROM and the file outlive it.              *)
(***************************************************************************)
EXTENDS EepromI2c

CONSTANTS
  ScreenRecs, \* records read by the dump to the screen: 42
  FileRecs,   \* records read by the dump to a file: 100, more than fit
  RomInits,   \* contents of the EEPROM to start from
  UserFiles,  \* files the user may provide
  MaxCommands \* bound: commands that use the bus

\* A line of the file is two fields of bytes.  One that is not two fields
\* makes the unpacking of split() raise.
IsLine(line) ==
  line \in Seq(Byte) \X Seq(Byte) /\ Len(line[1]) = 2 /\ Len(line[2]) = 4
BadLine == <<>>

ASSUME UtilsAssumption ==
  /\ ScreenRecs \in Nat /\ FileRecs \in Nat /\ MaxCommands \in Nat
  /\ RomInits \subseteq [Cells -> Byte]
  /\ \A f \in UserFiles : /\ Len(f) \in Nat /\ DOMAIN f = 1..Len(f)
                          /\ \A k \in 1..Len(f) : f[k] = BadLine \/ IsLine(f[k])

VARIABLES
  todo,       \* bound: such commands left
  cmd,        \* the menu's command in progress
  said,       \* the outcome of the last command, as the user sees it
  have,       \* the file exists
  file,       \* its lines
  rom0,       \* history: the EEPROM when the command began
  dumped,     \* history: the file is a complete dump ...
  snap        \* ... of this content

util_vars == <<todo, cmd, said, have, file, rom0, dumped, snap>>
vars == <<twi_vars, rom_vars, faults, i2c_vars, util_vars>>

-----------------------------------------------------------------------------
\* Records, lines and numbers.

RecSize == 6
AddrOf(b) == b[1] + b[2] * Base
DataOf(b) == b[3] + Base * (b[4] + Base * (b[5] + Base * b[6]))

\* '%.4X' and '%.8X': two digits per byte, the high byte first.
Weight(k) == <<1, Base, Base * Base, Base * Base * Base>>[k + 1]
Hex(n, bytes) == [i \in 1..bytes |-> (n \div Weight(bytes - i)) % Base]

LineOf(b) == <<Hex(AddrOf(b), 2), Hex(DataOf(b), 4)>>

Readable == have /\ \A k \in 1..Len(file) : file[k] # BadLine

(* Mutant: the pairs of digits are taken from left to right. *)
LineByteForward(line, at) == IF at < 2 THEN line[1][at + 1] ELSE line[2][at - 1]

\* The pairs of digits of each field, appended from the last to the first.
LineByte(line, at) == IF at < 2 THEN line[1][2 - at] ELSE line[2][6 - at]

FileData ==
  [i \in 1..(RecSize * Len(file)) |->
     LineByte(file[((i - 1) \div RecSize) + 1], (i - 1) % RecSize)]

\* The loop over the records of buf: it ends at an address of all ones, and
\* raises an IndexError where buf is shorter than the records asked for.
Record(k) == SubSeq(buf, RecSize * (k - 1) + 1, RecSize * k)
Whole(recs) == IF Len(buf) < RecSize * recs THEN Len(buf) \div RecSize ELSE recs
Ends(recs) == {k \in 1..Whole(recs) : AddrOf(Record(k)) = Base * Base - 1}
WalkRaises(recs) == Ends(recs) = {} /\ Whole(recs) < recs
Walked(recs) ==
  IF Ends(recs) = {} THEN Whole(recs)
  ELSE CHOOSE k \in Ends(recs) : \A j \in Ends(recs) : k <= j

\* The byte by byte listing looks two bytes ahead for the end mark.
ListingRaises ==
  ~ \E i \in 2..(Len(buf) - 1) : buf[i] = Base - 1 /\ buf[i + 1] = Base - 1

-----------------------------------------------------------------------------
TypeOK ==
  /\ TwiTypeOK
  /\ pc \in ReadPcs \cup WritePcs \cup {"off", "menu", "ret"}
  /\ offset \in Nat /\ length \in Nat /\ total \in Nat /\ tlen \in 0..FifoSize
  /\ err \in BOOLEAN /\ polls \in 0..PollMax
  /\ buf \in Seq(Byte) /\ wdata \in Seq(Byte)
  /\ quiet \in BOOLEAN /\ trouble \in BOOLEAN
  /\ todo \in 0..MaxCommands
  /\ cmd \in {"none", "screen", "dump", "write", "compare"}
  /\ said \in {"none", "written", "error", "same", "differs"}
  /\ have \in BOOLEAN /\ dumped \in BOOLEAN
  /\ DOMAIN file = 1..Len(file)
  /\ \A k \in 1..Len(file) : file[k] = BadLine \/ IsLine(file[k])
  /\ rom0 \in [Cells -> Byte] /\ snap \in [Cells -> Byte]

Init ==
  /\ TwiInit /\ rom \in RomInits
  /\ pc = "off" /\ offset = 0 /\ length = 0 /\ total = 0 /\ tlen = 0
  /\ err = FALSE /\ polls = 0 /\ buf = <<>> /\ wdata = <<>>
  /\ quiet = TRUE /\ trouble = FALSE
  /\ todo = MaxCommands /\ cmd = "none" /\ said = "none"
  /\ have \in BOOLEAN /\ file \in UserFiles
  /\ rom0 = rom /\ dumped = FALSE /\ snap = rom

-----------------------------------------------------------------------------
\* The menu.

Bus == UNCHANGED <<twi_vars, rom_vars, faults>>

\* Starting Python, like a polling loop, outlasts a transfer.
Start ==
  /\ twi_xfer = "idle" \/ twi_held
  /\ GoTo("off", "menu") /\ cmd' = "none" /\ said' = "none"
  /\ Forget /\ rom0' = rom
  /\ Bus /\ UNCHANGED <<todo, have, file, dumped, snap>>

Command == pc = "menu" /\ todo > 0 /\ todo' = todo - 1

\* A command that reads n bytes of the EEPROM from address 0 on.
ReadRom(c, n) ==
  /\ Call("rd_setup", n, <<>>)
  /\ cmd' = c /\ said' = "none" /\ rom0' = rom
  /\ Bus

eeprom_dump_to_screen ==
  /\ Command
  /\ ReadRom("screen", ScreenRecs * RecSize)
  /\ UNCHANGED <<have, file, dumped, snap>>

\* The file is emptied before the EEPROM is read.
eeprom_dump_to_file ==
  /\ Command
  /\ ReadRom("dump", FileRecs * RecSize)
  /\ have' = TRUE /\ file' = <<>> /\ dumped' = FALSE
  /\ UNCHANGED snap

file_dump_to_eeprom ==
  /\ Command /\ Readable
  /\ Call("wr_setup", Len(FileData), FileData)
  /\ cmd' = "write" /\ said' = "none" /\ rom0' = rom
  /\ Bus /\ UNCHANGED <<have, file, dumped, snap>>

compare_eeprom_with_file ==
  /\ Command /\ Readable
  /\ ReadRom("compare", (Len(file) + 1) * RecSize)
  /\ UNCHANGED <<have, file, dumped, snap>>

Stay == Bus /\ UNCHANGED <<todo, i2c_locals, polls, trouble, have, file, rom0, dumped, snap>>

BackTo(there) == GoTo("menu", there) /\ said' = "none" /\ Stay /\ UNCHANGED cmd

\* Commands that change nothing: the file printed, a write not confirmed, an
\* option that is none.
file_dump_to_screen == Readable /\ BackTo("menu")
NotConfirmed == Readable /\ BackTo("menu")
UnknownOption == BackTo("menu")

\* open() or the parsing of a line raises in the commands that read the file.
FileRaises == ~Readable /\ BackTo("off")

Exit == BackTo("off")

-----------------------------------------------------------------------------
\* The commands after i2c_read or i2c_write has returned.

ScreenReturn ==
  /\ pc = "ret" /\ cmd = "screen"
  /\ pc' = IF WalkRaises(ScreenRecs) \/ ListingRaises THEN "off" ELSE "menu"
  /\ cmd' = "none" /\ Stay /\ UNCHANGED said

\* A command in calm conditions: the bus was idle when it called i2c_read or
\* i2c_write, no polling loop ran out and no transfer was refused.  What was
\* left behind by earlier commands, interrupted or given up, is not excluded.
Calm == quiet /\ ~trouble

\* Lines are written up to the end mark, or to the exception.
DumpReturn ==
  /\ pc = "ret" /\ cmd = "dump"
  /\ file' = [k \in 1..Walked(FileRecs) |-> LineOf(Record(k))]
  /\ pc' = IF WalkRaises(FileRecs) THEN "off" ELSE "menu"
  /\ dumped' = (pc' = "menu" /\ Calm)
  /\ snap' = IF dumped' THEN rom ELSE snap
  /\ cmd' = "none"
  /\ Bus /\ UNCHANGED <<todo, i2c_locals, polls, trouble, said, have, rom0>>

WriteReturn ==
  /\ pc = "ret" /\ cmd = "write"
  /\ said' = IF total = Len(wdata) THEN "written" ELSE "error"
  /\ pc' = "menu" /\ cmd' = "none" /\ Stay

(* Mutant: as many bytes are compared as there are records. *)
MatchesFew == \A i \in 1..Len(file) : FileData[i] = buf[i]

Matches == \A i \in 1..Len(FileData) : FileData[i] = buf[i]

CompareReturn ==
  /\ pc = "ret" /\ cmd = "compare"
  /\ IF Len(buf) < Len(FileData)
     THEN pc' = "off" /\ UNCHANGED said
     ELSE /\ pc' = "menu"
          /\ said' = IF Matches THEN "same" ELSE "differs"
  /\ cmd' = "none" /\ Stay

-----------------------------------------------------------------------------
\* The user: an interrupt from the keyboard.

Interrupt ==
  /\ pc # "off" /\ pc' = "off" /\ UNCHANGED faults
  /\ Forget /\ cmd' = "none" /\ said' = "none" /\ rom0' = rom
  /\ UNCHANGED <<twi_vars, rom_vars, todo, have, file, dumped, snap>>

Program ==
  \/ I2cNext /\ UNCHANGED util_vars
  \/ ScreenReturn \/ DumpReturn \/ WriteReturn \/ CompareReturn

Next ==
  \/ Program
  \/ Start \/ Exit \/ Interrupt
  \/ eeprom_dump_to_screen \/ eeprom_dump_to_file
  \/ file_dump_to_eeprom \/ NotConfirmed \/ compare_eeprom_with_file
  \/ file_dump_to_screen \/ UnknownOption \/ FileRaises
  \/ TwiNext /\ UNCHANGED <<i2c_vars, util_vars>>

Spec == Init /\ [][Next]_vars

\* The program runs, and so does a transfer that is not held up; the user
\* owes nothing.
FairSpec ==
  /\ Spec /\ WF_vars(Program)
  /\ WF_vars(~twi_held /\ TwiRuns /\ UNCHANGED <<i2c_vars, util_vars>>)

-----------------------------------------------------------------------------
Wanted ==
  CASE cmd = "screen" -> ScreenRecs * RecSize
    [] cmd = "dump" -> FileRecs * RecSize
    [] OTHER -> (Len(file) + 1) * RecSize

(* A call of i2c_read in calm conditions returns as many bytes as were asked *)
(* for, each the EEPROM's byte at its address (which wraps at the end of the *)
(* device), and leaves the EEPROM as it was: lines 38-39 and 66 remove what  *)
(* an earlier transfer left in the status register and in the FIFO.          *)
ReadExact ==
  pc = "ret" /\ cmd \in {"screen", "dump", "compare"} /\ Calm =>
    /\ buf = [i \in 1..Wanted |-> rom[(i - 1) % RomSize]]
    /\ rom = rom0

(* "EEPROM written with ... content!" after calm conditions: every byte of   *)
(* the file is at its address, the last one where addresses wrap, and every  *)
(* other byte of the EEPROM is what it was, although the EEPROM rolls over   *)
(* inside a page and the FIFO drops what does not fit.                       *)
WriteExact ==
  said = "written" /\ Calm =>
    \A i \in Cells :
      LET hits == {j \in 1..Len(wdata) : (j - 1) % RomSize = i}
      IN  IF hits = {} THEN rom[i] = rom0[i]
          ELSE \E j \in hits : (\A k \in hits : k <= j) /\ rom[i] = wdata[j]

(* From the second block on, i2c_write starts a transfer only when the write *)
(* cycle of the block before has ended (the sleep of line 158), so that the  *)
(* EEPROM does not refuse it.                                                *)
WriteSpaced == pc = "wr_addr" /\ Calm /\ total > Burst => ~rom_busy

(* Writing back a dump restores the EEPROM: when the file is a complete dump *)
(* and was written in calm conditions, the EEPROM has, at every address the  *)
(* dump covers, what it had when the dump was taken, whatever the failed and *)
(* the interrupted writes in between have done to it.                        *)
DumpRestores ==
  said = "written" /\ Calm /\ dumped =>
    \A i \in 1..(RecSize * Len(file)) : rom[(i - 1) % RomSize] = snap[(i - 1) % RomSize]

(* The comparison tells the truth about the EEPROM and the file.             *)
CompareTruth ==
  said \in {"same", "differs"} /\ Calm =>
    (said = "same" <=> \A i \in 1..Len(FileData) : FileData[i] = rom[(i - 1) % RomSize])

(* Every command comes to its end, back in the menu or out of the program,   *)
(* even when no transfer ever completes: the polling loops are bounded.      *)
CommandsEnd == (pc \notin {"off", "menu"}) ~> (pc \in {"off", "menu"})

=============================================================================
