--------------------------------- MODULE Twi ---------------------------------
(***************************************************************************)
(* The two-wire controller of the GN4124 (registers 0x900 to 0x914 of BAR  *)
(* 4) and the serial EEPROM behind it, as eeprom_utils.py uses them.  Both *)
(* are outside the repository: the module says what the program relies on. *)
(*                                                                         *)
(* A transfer runs on its own between two register accesses.  It completes *)
(* (IRT_STATUS bit 0), or it is refused or times out (bits 2 and 3), or it *)
(* is held up, for as long as the bus likes, and may still complete then.  *)
(* Only a transfer that is held up outlasts a polling loop of the program. *)
(***************************************************************************)
EXTENDS Naturals, Sequences

CONSTANTS
  Base,       \* values of a byte: 256
  RomSize,    \* bytes of the EEPROM: 256
  PageSize,   \* bytes of a page, inside which a write rolls over: 8
  FifoSize,   \* bytes the controller's FIFO holds: 8
  MaxFaults   \* bound: transfers refused or held up

ASSUME TwiAssumption ==
  /\ Base \in Nat \ {0} /\ PageSize \in Nat \ {0} /\ FifoSize \in Nat \ {0}
  /\ RomSize \in Nat \ {0} /\ RomSize % PageSize = 0 /\ Base % RomSize = 0
  /\ MaxFaults \in Nat

Byte == 0..(Base - 1)
Cells == 0..(RomSize - 1)

VARIABLES
  twi_rw,     \* TWI_CTRL bit 0: the direction of the next transfer
  twi_fifo,   \* the FIFO behind TWI_DATA (0x90C)
  twi_size,   \* TR_SIZE (0x914), the bytes to receive
  twi_xfer,   \* the transfer on the bus: "idle", "wr" or "rd"
  twi_held,   \* that transfer is held up
  twi_irt,    \* IRT_STATUS (0x910): "comp" is bit 0, "fail" is bits 2 and 3
  rom,        \* the EEPROM
  rom_ptr,    \* its address pointer
  rom_busy,   \* its write cycle is running: it answers nothing
  faults      \* bound: faults left

twi_vars == <<twi_rw, twi_fifo, twi_size, twi_xfer, twi_held, twi_irt>>
rom_vars == <<rom, rom_ptr, rom_busy>>

TwiTypeOK ==
  /\ twi_rw \in {"wr", "rd"} /\ twi_xfer \in {"idle", "wr", "rd"}
  /\ twi_fifo \in Seq(Byte) /\ Len(twi_fifo) <= FifoSize
  /\ twi_size \in Nat /\ twi_irt \in SUBSET {"comp", "fail"}
  /\ rom \in [Cells -> Byte] /\ rom_ptr \in Cells /\ rom_busy \in BOOLEAN
  /\ twi_held \in BOOLEAN /\ faults \in 0..MaxFaults

TwiInit ==
  /\ twi_rw = "wr" /\ twi_fifo = <<>> /\ twi_size = 0
  /\ twi_xfer = "idle" /\ twi_held = FALSE /\ twi_irt = {}
  /\ rom_ptr = 0 /\ rom_busy = FALSE /\ faults = MaxFaults

-----------------------------------------------------------------------------
\* The register accesses.

Fitting(s) == SubSeq(s, 1, IF Len(s) <= FifoSize THEN Len(s) ELSE FifoSize)

\* 0x384E or 0x384F to TWI_CTRL: the direction, and CLR_FIFO in both.
SetMode(rw) == twi_rw' = rw /\ twi_fifo' = <<>>

\* TWI_DATA: bytes that find the FIFO full are lost.
Push(bytes) == twi_fifo' = Fitting(twi_fifo \o bytes)

\* The device address starts a transfer in the current direction.
StartTransfer == twi_xfer' = twi_rw /\ twi_held' = FALSE

\* IRT_STATUS is cleared by reading it.
ReadIrt == twi_irt' = {}

-----------------------------------------------------------------------------
\* The bus and the EEPROM.

PageAddr(a, n) == (a - (a % PageSize)) + ((a + n) % PageSize)

\* Data written from address a on: they stay inside the page of a.
PageWrite(a, bytes) ==
  [i \in Cells |->
     IF \E j \in 1..Len(bytes) : PageAddr(a, j - 1) = i
     THEN bytes[CHOOSE j \in 1..Len(bytes) :
                  /\ PageAddr(a, j - 1) = i
                  /\ \A k \in (j + 1)..Len(bytes) : PageAddr(a, k - 1) # i]
     ELSE rom[i]]

\* The EEPROM takes the first n bytes of the FIFO: its pointer, then data.
TakeBytes(n) ==
  /\ twi_fifo' = SubSeq(twi_fifo, n + 1, Len(twi_fifo))
  /\ IF n = 0
     THEN UNCHANGED rom_vars
     ELSE LET data == SubSeq(twi_fifo, 2, n)
              at == twi_fifo[1] % RomSize
          IN  /\ rom' = PageWrite(at, data)
              /\ rom_ptr' = PageAddr(at, Len(data))
              /\ rom_busy' = (data # <<>>)

\* The EEPROM sends n bytes from its pointer on, which wraps at its end.
SendBytes(n) ==
  /\ twi_fifo' = Fitting(twi_fifo \o [i \in 1..n |-> rom[(rom_ptr + i - 1) % RomSize]])
  /\ rom_ptr' = (rom_ptr + n) % RomSize
  /\ UNCHANGED <<rom, rom_busy>>

Fault == faults > 0 /\ faults' = faults - 1

TransferEnds(status) ==
  /\ twi_xfer' = "idle" /\ twi_held' = FALSE /\ twi_irt' = twi_irt \cup {status}
  /\ UNCHANGED <<twi_rw, twi_size>>

TransferDone ==
  /\ twi_xfer # "idle" /\ ~rom_busy
  /\ IF twi_xfer = "wr" THEN TakeBytes(Len(twi_fifo)) ELSE SendBytes(twi_size)
  /\ TransferEnds("comp") /\ UNCHANGED faults

\* A busy EEPROM acknowledges nothing.
TransferMeetsBusy ==
  /\ twi_xfer # "idle" /\ rom_busy
  /\ TransferEnds("fail") /\ UNCHANGED <<twi_fifo, rom_vars, faults>>

\* A byte is not acknowledged, or the bus times out, part of the way.
TransferFails ==
  /\ twi_xfer # "idle" /\ ~rom_busy /\ Fault
  /\ \/ twi_xfer = "wr" /\ \E n \in 0..Len(twi_fifo) : TakeBytes(n)
     \/ twi_xfer = "rd" /\ \E n \in 0..twi_size : SendBytes(n)
  /\ TransferEnds("fail")

TransferHeld ==
  /\ twi_xfer # "idle" /\ ~twi_held /\ Fault
  /\ twi_held' = TRUE
  /\ UNCHANGED <<twi_rw, twi_fifo, twi_size, twi_xfer, twi_irt, rom_vars>>

RomReady ==
  /\ rom_busy /\ rom_busy' = FALSE
  /\ UNCHANGED <<twi_vars, rom, rom_ptr, faults>>

TwiRuns == TransferDone \/ TransferMeetsBusy
TwiNext == TwiRuns \/ TransferFails \/ TransferHeld \/ RomReady

=============================================================================
