------------------------------ MODULE EepromI2c ------------------------------
(***************************************************************************)
(* i2c_read and i2c_write of eeprom_utils.py: one action for the register  *)
(* accesses between two points at which the controller's progress can make *)
(* a difference.  The bounded polling loops count down PollMax; "offset",  *)
(* "length", "total", "tlen", "err" and "polls" are the functions' locals. *)
(*                                                                         *)
(* For the properties only, "trouble" records that a polling loop of this  *)
(* call ran out or a transfer of it was refused, and "quiet" that the bus  *)
(* was idle when the call was made.                                        *)
(***************************************************************************)
EXTENDS Twi

CONSTANTS
  PollMax,    \* iterations of a polling loop: 2000000
  Burst,      \* data bytes of one write transfer: 6, the FIFO size less 2
  Junk        \* what reading an empty FIFO returns

ASSUME I2cAssumption ==
  /\ PollMax \in Nat \ {0} /\ Burst \in Nat \ {0} /\ Junk \in Byte
  /\ Burst < FifoSize /\ PageSize <= RomSize

VARIABLES
  pc, offset, length, total, tlen, err, polls,
  buf,        \* read_data
  wdata,      \* write_data
  quiet, trouble

i2c_locals == <<offset, length, total, tlen, err, buf, wdata, quiet>>
i2c_vars == <<i2c_locals, pc, polls, trouble>>

ReadPcs == {"rd_setup", "rd_idle", "rd_clear", "rd_addr", "rd_poll", "rd_mode",
            "rd_block", "rd_block_poll", "rd_fifo"}
WritePcs == {"wr_setup", "wr_idle", "wr_block", "wr_addr", "wr_poll"}

\* Both functions: "ret" returns total, "off" is sys.exit().
GoTo(here, there) == pc = here /\ pc' = there

Call(there, n, bytes) ==
  /\ pc' = there
  /\ offset' = 0 /\ length' = n /\ total' = 0 /\ tlen' = 0 /\ err' = FALSE
  /\ polls' = 0 /\ buf' = <<>> /\ wdata' = bytes
  /\ quiet' = (twi_xfer = "idle") /\ trouble' = FALSE

\* The locals are gone when the program ends.
Forget ==
  /\ offset' = 0 /\ length' = 0 /\ total' = 0 /\ tlen' = 0 /\ err' = FALSE
  /\ polls' = 0 /\ buf' = <<>> /\ wdata' = <<>>
  /\ quiet' = TRUE /\ trouble' = FALSE

(* Mutant: the loop does not count. *)
TurnForever(there) == UNCHANGED <<polls, pc, trouble>>

\* i = PollMax; while i > 0: ... : one turn that does not find its condition.
\* The last turn comes only when no transfer is under way or it is held up.
Turn(there) ==
  /\ polls' = polls - 1
  /\ polls = 1 => twi_xfer = "idle" \/ twi_held
  /\ IF polls = 1 THEN pc' = there /\ trouble' = TRUE ELSE UNCHANGED <<pc, trouble>>

-----------------------------------------------------------------------------
\* i2c_read

\* EEPROM_INIT is shut off (no effect here), write mode, read back.
RdSetup ==
  /\ GoTo("rd_setup", "rd_idle")
  /\ SetMode("wr") /\ polls' = PollMax
  /\ UNCHANGED <<i2c_locals, trouble, twi_size, twi_xfer, twi_held, twi_irt, rom_vars>>

\* The loop ends without a word when the bus never becomes idle.
RdIdle ==
  /\ pc = "rd_idle"
  /\ \/ twi_xfer = "idle" /\ pc' = "rd_clear" /\ UNCHANGED <<polls, trouble>>
     \/ twi_xfer # "idle" /\ Turn("rd_clear")
  /\ UNCHANGED <<i2c_locals, twi_vars, rom_vars>>

(* Mutant: the status is not cleared. *)
ClearStaleNot == UNCHANGED twi_irt

\* A completion of an earlier transfer must not be taken for one of this.
ClearStale == ReadIrt

RdClear ==
  /\ GoTo("rd_clear", "rd_addr")
  /\ ClearStale /\ Push(<<offset % Base>>)
  /\ UNCHANGED <<i2c_locals, polls, trouble, twi_rw, twi_size, twi_xfer, twi_held, rom_vars>>

RdAddr ==
  /\ GoTo("rd_addr", "rd_poll")
  /\ StartTransfer /\ polls' = PollMax
  /\ UNCHANGED <<i2c_locals, trouble, twi_rw, twi_fifo, twi_size, twi_irt, rom_vars>>

\* A refusal and the end of the loop both leave the program.
RdPoll ==
  /\ pc = "rd_poll" /\ ReadIrt
  /\ \/ "comp" \in twi_irt /\ pc' = "rd_mode" /\ UNCHANGED <<polls, trouble>>
     \/ twi_irt = {"fail"} /\ pc' = "off" /\ trouble' = TRUE /\ UNCHANGED polls
     \/ twi_irt = {} /\ Turn("off")
  /\ UNCHANGED <<i2c_locals, twi_rw, twi_fifo, twi_size, twi_xfer, twi_held, rom_vars>>

RdMode ==
  /\ GoTo("rd_mode", "rd_block")
  /\ SetMode("rd")
  /\ UNCHANGED <<i2c_locals, polls, trouble, twi_size, twi_xfer, twi_held, twi_irt, rom_vars>>

(* Mutant: a transfer is not split. *)
ChunkLenWhole == length

\* Transfers longer than the FIFO are split.
ChunkLen == IF length > FifoSize THEN FifoSize ELSE length

\* The next block is asked for, or none is left or one failed: return.
RdBlock ==
  /\ pc = "rd_block"
  /\ \/ /\ length > 0 /\ ~err
        /\ tlen' = ChunkLen
        /\ length' = length - tlen'
        /\ twi_size' = tlen' /\ StartTransfer
        /\ polls' = PollMax /\ pc' = "rd_block_poll"
     \/ /\ length = 0 \/ err
        /\ pc' = "ret" /\ UNCHANGED <<tlen, length, twi_size, twi_xfer, twi_held, polls>>
  /\ UNCHANGED <<offset, total, err, buf, wdata, quiet, trouble,
                 twi_rw, twi_fifo, twi_irt, rom_vars>>

\* Only the completion bit is looked at; a refusal is read and forgotten.
RdBlockPoll ==
  /\ pc = "rd_block_poll" /\ ReadIrt
  /\ \/ "comp" \in twi_irt /\ pc' = "rd_fifo" /\ UNCHANGED <<polls, trouble, err>>
     \/ "comp" \notin twi_irt /\ Turn("rd_fifo") /\ err' = (polls = 1)
  /\ UNCHANGED <<offset, length, total, tlen, buf, wdata, quiet,
                 twi_rw, twi_fifo, twi_size, twi_xfer, twi_held, rom_vars>>

\* The block is read from the FIFO whatever the poll found.
RdFifo ==
  /\ GoTo("rd_fifo", "rd_block")
  /\ buf' = buf \o [i \in 1..tlen |-> IF i <= Len(twi_fifo) THEN twi_fifo[i] ELSE Junk]
  /\ twi_fifo' = SubSeq(twi_fifo, tlen + 1, Len(twi_fifo))
  /\ total' = total + tlen /\ tlen' = 0
  /\ UNCHANGED <<offset, length, err, wdata, quiet, polls, trouble,
                 twi_rw, twi_size, twi_xfer, twi_held, twi_irt, rom_vars>>

-----------------------------------------------------------------------------
\* i2c_write

\* The status is cleared first, before the wait for an idle bus.
WrSetup ==
  /\ GoTo("wr_setup", "wr_idle")
  /\ ReadIrt /\ SetMode("wr") /\ polls' = PollMax
  /\ UNCHANGED <<i2c_locals, trouble, twi_size, twi_xfer, twi_held, rom_vars>>

WrIdle ==
  /\ pc = "wr_idle"
  /\ \/ twi_xfer = "idle" /\ pc' = "wr_block" /\ UNCHANGED <<polls, trouble>>
     \/ twi_xfer # "idle" /\ Turn("wr_block")
  /\ UNCHANGED <<i2c_locals, twi_vars, rom_vars>>

(* Mutant: the end of the page is not looked at. *)
BlockEndsAnywhere(n) == n = Burst \/ n = length

\* The inner loop: it stops after n bytes, and no sooner.
BlockEnds(n) == n = Burst \/ n = length \/ (offset + n) % PageSize = 0
BlockLen == CHOOSE n \in 1..length : BlockEnds(n) /\ \A m \in 1..(n - 1) : ~BlockEnds(m)

WrBlock ==
  /\ pc = "wr_block"
  /\ \/ /\ length > 0
        /\ Push(<<offset % Base>> \o SubSeq(wdata, total + 1, total + BlockLen))
        /\ total' = total + BlockLen /\ offset' = offset + BlockLen
        /\ length' = length - BlockLen
        /\ pc' = "wr_addr"
     \/ length = 0 /\ pc' = "ret" /\ UNCHANGED <<twi_fifo, total, offset, length>>
  /\ UNCHANGED <<tlen, err, buf, wdata, quiet, polls, trouble,
                 twi_rw, twi_size, twi_xfer, twi_held, twi_irt, rom_vars>>

WrAddr ==
  /\ GoTo("wr_addr", "wr_poll")
  /\ StartTransfer /\ polls' = PollMax
  /\ UNCHANGED <<i2c_locals, trouble, twi_rw, twi_fifo, twi_size, twi_irt, rom_vars>>

(* Mutant: there is no sleep. *)
NoSleep == UNCHANGED rom_busy

\* The sleep of 10 ms after each look at the status outlasts a write cycle
\* that was running then.
Sleep == rom_busy' = FALSE

\* A refusal returns the count with the refused
\* block in it; when the loop runs out the next block follows.
WrPoll ==
  /\ pc = "wr_poll" /\ ReadIrt /\ Sleep
  /\ \/ "comp" \in twi_irt /\ pc' = "wr_block" /\ UNCHANGED <<polls, trouble>>
     \/ twi_irt = {"fail"} /\ pc' = "ret" /\ trouble' = TRUE /\ UNCHANGED polls
     \/ twi_irt = {} /\ Turn("wr_block")
  /\ UNCHANGED <<i2c_locals, twi_rw, twi_fifo, twi_size, twi_xfer, twi_held, rom, rom_ptr>>

I2cNext ==
  /\ \/ RdSetup \/ RdIdle \/ RdClear \/ RdAddr \/ RdPoll \/ RdMode
     \/ RdBlock \/ RdBlockPoll \/ RdFifo
     \/ WrSetup \/ WrIdle \/ WrBlock \/ WrAddr \/ WrPoll
  /\ UNCHANGED faults

=============================================================================
