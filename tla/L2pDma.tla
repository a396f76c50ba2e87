------------------------------- MODULE L2pDma -------------------------------
(***************************************************************************)
(* The L2P DMA master closed by what is around it: the DMA controller as   *)
(* it drives the master, the arbiter as it grants it, the pipelined        *)
(* Wishbone slave on the carrier and the GN4124 that receives the packets  *)
(* and writes host memory.  The two clocks are independent: a step is an   *)
(* edge of clk_i or an edge of l2p_dma_clk_i.                              *)
(*                                                                         *)
(* The carrier word at address a is the number a, and a job copies carrier *)
(* words to host addresses that are the same modulo AddrSpan: host memory  *)
(* is right when host[a] = a % AddrSpan at the addresses asked for.        *)
(***************************************************************************)
EXTENDS L2pDmaFetch

CONSTANTS AddrSize, DataSize,  \* g_size of the two FIFOs
          SlaveDepth,          \* reads the Wishbone slave holds at once
          Jobs,                \* the jobs the controller may start
          MaxJobs,             \* bound: jobs in a behaviour
          Env                  \* what the surroundings may do, see Allowed

VARIABLES gnt,       \* arb_ldm_gnt
          slave,     \* addresses the Wishbone slave has accepted
          job,       \* the controller's job: state, address, length
          started,   \* jobs started
          want,      \* host addresses the jobs so far may write
          rx,        \* the packet the GN4124 is receiving
          malformed, \* the GN4124 has received a malformed packet
          host       \* host memory

(* The registers of clk_i, and the surroundings. *)
clkVars == <<pktVars, fsmVars, data_fifo_valid, data_fifo_dout, targetVars>>
envVars == <<gnt, job, started, want, rx, malformed, host>>
vars == <<clkVars, busVars, addr_fifo, data_fifo, slave, envVars>>

HostSpan == 2 * LowSpan
Addrs(a, n) == {(a + i) % HostSpan : i \in 0 .. n - 1}

ASSUME L2pDmaConstants ==
    /\ Jobs \subseteq [addr : 0 .. HostSpan - 1, len : 1 .. HostSpan]
    /\ Env \subseteq {"throttle", "throttle_last", "dry", "stall", "abort"}
    /\ AddrSize \in Nat /\ DataSize \in Nat /\ SlaveDepth \in Nat \ {0}
    /\ MaxJobs \in Nat

(***************************************************************************)
(* What the full thresholds leave free (512 - 500 words in the code): two  *)
(* addresses on their way to the address FIFO; the reads the slave holds   *)
(* and two more in the master on their way to the data FIFO.               *)
(***************************************************************************)
ASSUME FifoMargins ==
    /\ AddrSize >= AddrFull + 2
    /\ DataSize >= DataFull + SlaveDepth + 2

NoPacket == [phase |-> "header", wide |-> FALSE, len |-> 0, base |-> 0,
             words |-> <<>>]

Init ==
    /\ PacketInit /\ FetchInit
    /\ gnt = FALSE /\ slave = <<>>
    /\ job = [st |-> "none", addr |-> 0, len |-> 0] /\ started = 0 /\ want = {}
    /\ rx = NoPacket /\ malformed = FALSE
    /\ host = [a \in 0 .. HostSpan - 1 |-> NoData]

-----------------------------------------------------------------------------
(***************************************************************************)
(* What the surroundings may do to the packet FSM in this tick.            *)
(*   throttle       L2P_RDY falls while the FSM is in L2P_DATA             *)
(*   throttle_last  L2P_RDY falls while the FSM is in L2P_LAST_DATA        *)
(*   dry            the data FIFO is empty when a packet's data starts     *)
(*   stall          the Wishbone slave stalls                              *)
(*   abort          the host aborts the job                                *)
(***************************************************************************)
Allowed(rdy) ==
    /\ ~rdy /\ l2p_state = "L2P_DATA" => "throttle" \in Env
    /\ ~rdy /\ l2p_state = "L2P_LAST_DATA" => "throttle_last" \in Env
    /\ l2p_state = "L2P_ADDR_L" /\ data_fifo = <<>> => "dry" \in Env

(* The arbiter as the L2P master sees it; others holds it or wins it. *)
Grant(others) ==
    gnt' = IF gnt THEN ldm_req \/ ~(ldm_valid /\ ~ldm_dframe)
                  ELSE ldm_req /\ ~others

(***************************************************************************)
(* The GN4124: it takes the words by position, and writes the packet to    *)
(* host memory with its last word (dframe low).  A word that is not what   *)
(* its position asks for, or a length other than the header's, is a        *)
(* malformed packet, after which it takes no more.  A packet ended with    *)
(* EDB is dropped.                                                         *)
(***************************************************************************)
Length(p) == IF p.len = 0 THEN HdrSpan ELSE p.len
Expected(p, w) == p.phase = "data" \/ w.kind = p.phase
Advance(p, w) ==
    CASE p.phase = "header" ->
           [p EXCEPT !.len = w.len, !.wide = w.wide,
                     !.phase = IF w.wide THEN "high" ELSE "low"]
      [] p.phase = "high" -> [p EXCEPT !.base = w.addr * LowSpan, !.phase = "low"]
      [] p.phase = "low"  -> [p EXCEPT !.base = @ + w.addr, !.phase = "data"]
      [] p.phase = "data" ->
           [p EXCEPT !.words = Append(@, IF w.kind = "data" THEN w.data ELSE NoData)]
Written(p) ==
    [a \in DOMAIN host |->
        LET i == ((a - p.base) % HostSpan) + 1
        IN IF i \in DOMAIN p.words THEN p.words[i] ELSE host[a]]

Receive ==
    LET p     == Advance(rx, ldm_word)
        full  == Len(p.words) = Length(p)
        fits  == Expected(rx, ldm_word) /\ ldm_dframe = ~full
        drop  == ldm_edb \/ malformed
        take  == ~drop /\ gnt /\ ldm_valid
    IN \/ /\ drop
          /\ rx' = NoPacket /\ UNCHANGED <<malformed, host>>
       \/ /\ ~drop /\ ~take
          /\ UNCHANGED <<rx, malformed, host>>
       \/ /\ take /\ ~fits
          /\ rx' = NoPacket /\ malformed' = TRUE /\ UNCHANGED host
       \/ /\ take /\ fits /\ ldm_dframe
          /\ rx' = p /\ UNCHANGED <<malformed, host>>
       \/ /\ take /\ fits /\ ~ldm_dframe
          /\ rx' = NoPacket /\ host' = Written(p) /\ UNCHANGED malformed

(* The controller: one start strobe, then done, error or abort.            *)
(* A start after an abort takes a second write of DMACTRLR by the host, a  *)
(* packet and a trip through the register slave's synchronisers later: the *)
(* master has seen dma_ctrl_abort for two ticks by then.                   *)
Running == job.st = "run"
Aborting == job.st \in {"killed", "aborting", "aborted"}
Follow(start, j, kill) ==
    \/ /\ start
       /\ started' = started + 1
       /\ want' = want \cup Addrs(j.addr, j.len)
       /\ job' = [st |-> "run", addr |-> j.addr, len |-> j.len]
    \/ /\ ~start
       /\ job' = IF job.st = "killed" THEN [job EXCEPT !.st = "aborting"]
                 ELSE IF job.st = "aborting" THEN [job EXCEPT !.st = "aborted"]
                 ELSE IF ~Running THEN job
                 ELSE IF kill THEN [job EXCEPT !.st = "killed"]
                 ELSE IF ldm_error THEN [job EXCEPT !.st = "error"]
                 ELSE IF ldm_done THEN [job EXCEPT !.st = "done"]
                 ELSE job
       /\ UNCHANGED <<started, want>>

(* An edge of clk_i. *)
Clk(start, j, kill, others, wr_rdy, rdy) ==
    /\ Allowed(rdy)
    /\ PacketTick(start, j.len, j.addr \div LowSpan, j.addr % LowSpan,
                  Aborting /\ ~start, gnt, wr_rdy, rdy)
    /\ TargetCnt(start, l2p_state = "L2P_IDLE", j.addr % AddrSpan, j.len)
    /\ Grant(others) /\ Receive /\ Follow(start, j, kill)
    /\ UNCHANGED <<busVars, slave>>

ClkStart(others, wr_rdy, rdy) ==
    /\ job.st \notin {"run", "killed", "aborting"} /\ started < MaxJobs
    /\ \E j \in Jobs : Clk(TRUE, j, FALSE, others, wr_rdy, rdy)
ClkAbort(others, wr_rdy, rdy) ==
    /\ Running /\ "abort" \in Env
    /\ Clk(FALSE, job, TRUE, others, wr_rdy, rdy)
ClkRun(others, wr_rdy, rdy) == Clk(FALSE, job, FALSE, others, wr_rdy, rdy)

ClkTick == \E others, wr_rdy, rdy \in BOOLEAN :
              \/ ClkStart(others, wr_rdy, rdy)
              \/ ClkAbort(others, wr_rdy, rdy)
              \/ ClkRun(others, wr_rdy, rdy)

(***************************************************************************)
(* An edge of l2p_dma_clk_i.  The slave accepts a strobe it does not stall *)
(* and answers in order; without "stall" it only stalls between strobes.   *)
(***************************************************************************)
DmaClk(stall, ack) ==
    /\ stall /\ l2p_stb => "stall" \in Env
    /\ ack => slave # <<>>
    /\ l2p_stb /\ ~stall => Len(slave) < SlaveDepth \/ ack
    /\ BusTick(stall, ack, IF ack THEN Head(slave) ELSE 0, FALSE)
    /\ slave' = (IF ack THEN Tail(slave) ELSE slave)
                 \o (IF l2p_stb /\ l2p_cyc /\ ~stall THEN <<l2p_adr>> ELSE <<>>)
    /\ UNCHANGED <<clkVars, envVars>>

DmaClkTick == \E stall, ack \in BOOLEAN : DmaClk(stall, ack)

Next == ClkTick \/ DmaClkTick

Spec == Init /\ [][Next]_vars

-----------------------------------------------------------------------------
(* TypeOK: the registers hold values of their VHDL types. *)
TypeOK == PacketTypeOK /\ FetchTypeOK /\ gnt \in BOOLEAN

(* HostExact: host memory only ever changes at the addresses of a job, and *)
(* only to the carrier word that belongs there: no word is lost, repeated, *)
(* reordered or put in another packet's place.                             *)
HostExact == \A a \in DOMAIN host : host[a] # NoData => host[a] = a % AddrSpan /\ a \in want

(* WellFormed: every packet the GN4124 receives is a header, its address   *)
(* and exactly the number of data words its header announces.              *)
WellFormed == ~malformed

(* DoneComplete: when the controller takes dma_ctrl_done for the end of    *)
(* the job, every word of it has left in a finished packet.                *)
DoneComplete == job.st = "done" => \A a \in Addrs(job.addr, job.len) :
                                    host[a] = a % AddrSpan

(* NoOverflow: neither FIFO is written beyond its size, although the full  *)
(* flags stop new reads and not the ones already on their way.             *)
NoOverflow == Len(addr_fifo) <= AddrSize /\ Len(data_fifo) <= DataSize

(* BusHeld: the master holds the Wishbone cycle while the slave still owes *)
(* it an answer: an answer outside the cycle would not be written to the   *)
(* data FIFO.                                                              *)
BusHeld == slave # <<>> => l2p_cyc

(***************************************************************************)
(* Both clocks run, and the surroundings make progress: again and again    *)
(* there is an edge at which no other requester holds the arbiter and the  *)
(* GN4124 is ready, and the slave answers what it has accepted.            *)
(***************************************************************************)
Fairness == WF_vars(ClkRun(FALSE, TRUE, TRUE)) /\ WF_vars(DmaClk(FALSE, slave # <<>>))
FairSpec == Spec /\ Fairness

(* JobEnds: every job the controller starts comes to an end: the packet    *)
(* FSM and the Wishbone master never wait for each other for ever.         *)
JobEnds == Running ~> ~Running
=============================================================================
