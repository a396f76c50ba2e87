---------------------------- MODULE L2pDmaProofs ----------------------------
(***************************************************************************)
(* What holds of the L2P DMA master for every payload, FIFO size,          *)
(* threshold and Wishbone slave that its assumptions admit:                *)
(*   FifosHold           the margins behind the full thresholds are enough *)
(*   MasterKeepsCycle    no answer of the slave comes outside the cycle    *)
(*   OnlyJobWords, PacketsWellFormed, DoneIsComplete                       *)
(*                       the words of a job come to the host whole and in  *)
(*                       order, cut into packets the GN4124 accepts        *)
(* The first two also hold when the surroundings throttle, run dry and     *)
(* abort; the last three need calm surroundings, see Calm.                 *)
(***************************************************************************)
EXTENDS L2pDma, SequenceTheorems, TLAPS

-----------------------------------------------------------------------------
\* Arithmetic modulo a span.

(* Quotient and remainder, and that the remainder is the only one. *)
LEMMA DivMod ==
  ASSUME NEW S \in Nat \ {0}, NEW a \in Int
  PROVE  (a % S) \in 0 .. S - 1 /\ (a \div S) \in Int /\ a = S * (a \div S) + (a % S)
  OBVIOUS

(* Quotient and remainder are unique. *)
LEMMA ModUnique ==
  ASSUME NEW S \in Nat \ {0}, NEW q \in Int, NEW r \in 0 .. S - 1
  PROVE  (S * q + r) % S = r
  OBVIOUS

(* Below the span a number is its own remainder. *)
LEMMA ModSmall == ASSUME NEW S \in Nat \ {0}, NEW a \in 0 .. S - 1 PROVE a % S = a
  OBVIOUS

(* A counter of this width, one up and one down. *)
LEMMA ModStep ==
  ASSUME NEW S \in Nat \ {0}, NEW a \in 0 .. S - 1
  PROVE  /\ (a + 1) % S = IF a + 1 = S THEN 0 ELSE a + 1
         /\ (a - 1) % S = IF a = 0 THEN S - 1 ELSE a - 1
  OBVIOUS

(* Reducing a summand first changes nothing. *)
LEMMA ModAdd ==
  ASSUME NEW S \in Nat \ {0}, NEW a \in Int, NEW b \in Int
  PROVE  ((a % S) + b) % S = (a + b) % S
<1> DEFINE q == a \div S
           r == a % S
           p == (r + b) \div S
           t == (r + b) % S
<1>1. r \in Int /\ q \in Int /\ a = S * q + r
  BY DivMod
<1>2. p \in Int /\ t \in 0 .. S - 1 /\ r + b = S * p + t
  BY <1>1, DivMod
<1>3. a + b = S * (q + p) + t
  <2> HIDE DEF q, r, p, t
  <2> QED BY <1>1, <1>2
<1>4. (S * (q + p) + t) % S = t
  <2> HIDE DEF q, p, t
  <2>1. q + p \in Int
    BY <1>1, <1>2
  <2> QED BY <1>2, <2>1, ModUnique
<1> QED BY <1>3, <1>4

(* A counter one up, when it has been reduced before. *)
LEMMA ModNext ==
  ASSUME NEW S \in Nat \ {0}
  PROVE  \A a \in Int : ((a % S) + 1) % S = (a + 1) % S
<1>1. 1 \in Int
  OBVIOUS
<1> QED BY <1>1, ModAdd, Zenon

-----------------------------------------------------------------------------
JobStates == {"none", "run", "done", "error", "killed", "aborting", "aborted"}

(* The FIFOs and the slave hold words. *)
OTypes ==
    /\ addr_fifo \in Seq(Nat) /\ data_fifo \in Seq(Nat) /\ slave \in Seq(Nat)
    /\ addr_fifo_din \in Nat /\ addr_fifo_dout \in Nat /\ l2p_adr \in Nat
    /\ target_addr_cnt \in Nat
    /\ job \in [st : JobStates, addr : Nat, len : Nat]

(* The address FIFO is full one write late, and a start leaves the pending *)
(* write pending: two writes may follow the threshold.                     *)
AddrRoom ==
    /\ Len(addr_fifo) <= AddrFull + 2
    /\ addr_fifo_wr => Len(addr_fifo) <= AddrFull + 1
    /\ addr_fifo_wr /\ ~Running => Len(addr_fifo) <= AddrFull

(* Every read that left the address FIFO is in the master, in the slave or *)
(* in the data FIFO.                                                       *)
DataRoom ==
    LET held == Len(data_fifo) + Len(slave)
        room == DataFull + SlaveDepth
    IN /\ Len(slave) <= SlaveDepth
       /\ held <= room + 2
       /\ l2p_stb \/ addr_fifo_valid => held <= room + 1
       /\ l2p_stb /\ addr_fifo_valid => held <= room

OInv == OTypes /\ AddrRoom /\ DataRoom

(* There is room in both FIFOs after reset. *)
LEMMA RoomInit == Init => OInv
<1> SUFFICES ASSUME Init PROVE OInv
  OBVIOUS
<1>1. OTypes
  <2>1. job \in [st : JobStates, addr : Nat, len : Nat]
    BY DEF Init, JobStates
  <2>2. /\ addr_fifo = <<>> /\ data_fifo = <<>> /\ slave = <<>>
        /\ addr_fifo_din = 0 /\ addr_fifo_dout = 0 /\ l2p_adr = 0
        /\ target_addr_cnt = 0
    BY DEF Init, PacketInit, FetchInit
  <2> QED BY <2>1, <2>2 DEF OTypes
<1>2. /\ Len(addr_fifo) = 0 /\ Len(data_fifo) = 0 /\ Len(slave) = 0
  BY DEF Init, PacketInit, FetchInit
<1>3. AddrRoom
  BY <1>2, FetchConstants DEF AddrRoom
<1>4. DataRoom
  BY <1>2, FetchConstants, L2pDmaConstants DEF DataRoom
<1> QED BY <1>1, <1>3, <1>4 DEF OInv

(* clk_i: the address FIFO may grow, the data FIFO only shrinks. *)
LEMMA RoomClk ==
  ASSUME OInv,
         NEW start \in BOOLEAN, NEW j, NEW kill \in BOOLEAN,
         NEW others \in BOOLEAN, NEW wr_rdy \in BOOLEAN, NEW rdy \in BOOLEAN,
         start => ~Running, j.addr \in Nat, j.len \in Nat,
         Clk(start, j, kill, others, wr_rdy, rdy)
  PROVE  OInv'
<1> DEFINE idle == l2p_state = "L2P_IDLE"
<1>1. /\ FifoRead
      /\ TargetCnt(start, idle, j.addr % AddrSpan, j.len)
      /\ Follow(start, j, kill)
      /\ UNCHANGED <<busVars, slave>>
  BY DEF Clk, PacketTick
<1>2. /\ data_fifo' \in Seq(Nat)
      /\ Len(data_fifo') <= Len(data_fifo)
  BY <1>1 DEF FifoRead, OInv, OTypes
<1>3. /\ addr_fifo' \in Seq(Nat)
      /\ addr_fifo_wr => Len(addr_fifo') = Len(addr_fifo) + 1
      /\ ~addr_fifo_wr => Len(addr_fifo') = Len(addr_fifo)
  BY <1>1 DEF TargetCnt, OInv, OTypes
<1>4. addr_fifo_din' \in Nat /\ target_addr_cnt' \in Nat
  <2>1. j.addr % AddrSpan \in Nat /\ NextTarget \in Nat
    BY FetchConstants DEF NextTarget, OInv, OTypes
  <2> QED BY <1>1, <2>1 DEF TargetCnt, OInv, OTypes
<1>5. job' \in [st : JobStates, addr : Nat, len : Nat]
  <2>1. CASE start
    BY <1>1, <2>1 DEF Follow, JobStates
  <2>2. CASE ~start
    <3>1. \/ job' = job
          \/ \E st \in JobStates : job' = [job EXCEPT !.st = st]
      BY <1>1, <2>2 DEF Follow, JobStates
    <3> QED BY <3>1 DEF OInv, OTypes
  <2> QED BY <2>1, <2>2
<1>6. OTypes'
  BY <1>1, <1>2, <1>3, <1>4, <1>5 DEF OInv, OTypes, busVars
<1>7. DataRoom'
  <2>1. UNCHANGED <<slave, l2p_stb, addr_fifo_valid>>
    BY <1>1 DEF busVars
  <2>2. /\ Len(slave) \in Nat /\ Len(data_fifo) \in Nat /\ Len(data_fifo') \in Nat
        /\ Len(slave') = Len(slave)
    BY <1>2, <2>1 DEF OInv, OTypes
  <2> QED
    BY <1>2, <2>1, <2>2, FetchConstants, L2pDmaConstants DEF DataRoom, OInv
<1>8. AddrRoom'
  <2>1. Len(addr_fifo) \in Nat /\ Len(addr_fifo') \in Nat
    BY <1>3 DEF OInv, OTypes
  <2>2. CASE start
    <3>1. (addr_fifo_wr' <=> addr_fifo_wr) /\ ~Running /\ Running'
      BY <1>1, <2>2 DEF TargetCnt, Follow, Running
    <3> QED
      BY <1>3, <2>1, <3>1, FetchConstants DEF AddrRoom, OInv
  <2>3. CASE ~start
    <3>1. addr_fifo_wr' => Len(addr_fifo) < AddrFull
      <4>1. \/ addr_fifo_wr' = TRUE /\ ~addr_fifo_full
            \/ addr_fifo_wr' = FALSE
        BY <1>1, <2>3, Zenon DEF TargetCnt
      <4> QED BY <2>1, <4>1, FetchConstants DEF addr_fifo_full
    <3> QED
      BY <1>3, <2>1, <3>1, FetchConstants DEF AddrRoom, OInv
  <2> QED BY <2>2, <2>3
<1> QED BY <1>6, <1>7, <1>8 DEF OInv

(* l2p_dma_clk_i: a read is started only below the threshold, and is then  *)
(* in the master, in the slave or in the data FIFO.                        *)
LEMMA RoomDmaClk ==
  ASSUME OInv, NEW stall \in BOOLEAN, NEW ack \in BOOLEAN, DmaClk(stall, ack)
  PROVE  OInv'
<1> DEFINE word == IF ack THEN Head(slave) ELSE 0
           take == l2p_stb /\ l2p_cyc /\ ~stall
           rest == IF ack THEN Tail(slave) ELSE slave
           new  == IF take THEN <<l2p_adr>> ELSE <<>>
<1>1. /\ BusTick(stall, ack, word, FALSE)
      /\ slave' = rest \o new
      /\ ack => slave # <<>>
      /\ l2p_stb /\ ~stall => Len(slave) < SlaveDepth \/ ack
      /\ UNCHANGED <<clkVars, envVars>>
  BY DEF DmaClk
<1>2. UNCHANGED <<target_addr_cnt, addr_fifo_wr, addr_fifo_din, job>>
  BY <1>1 DEF clkVars, envVars, targetVars
<1>3. /\ rest \in Seq(Nat) /\ word \in Nat
      /\ ack => Len(rest) = Len(slave) - 1
      /\ ~ack => Len(rest) = Len(slave)
  BY <1>1 DEF OInv, OTypes
<1>4. /\ new \in Seq(Nat)
      /\ take => Len(new) = 1
      /\ ~take => Len(new) = 0
  BY DEF OInv, OTypes
<1>5. slave' \in Seq(Nat) /\ Len(slave') = Len(rest) + Len(new)
  <2> HIDE DEF rest, new
  <2> QED BY <1>1, <1>3, <1>4
<1>6. /\ data_fifo' \in Seq(Nat)
      /\ ack => Len(data_fifo') <= Len(data_fifo) + 1
      /\ ~ack => Len(data_fifo') = Len(data_fifo)
  BY <1>1, <1>3 DEF BusTick, OInv, OTypes
<1>7. /\ addr_fifo_valid' => Len(data_fifo) < DataFull
      /\ l2p_stb' => addr_fifo_valid
  <2>1. addr_fifo_valid' => ~data_fifo_full
    BY <1>1, Zenon DEF BusTick, AddrFifoRd
  <2>2. l2p_stb' => addr_fifo_valid
    BY <1>1, Zenon DEF BusTick
  <2>3. Len(data_fifo) \in Nat
    BY DEF OInv, OTypes
  <2> QED BY <2>1, <2>2, <2>3, FetchConstants DEF data_fifo_full
<1>8. addr_fifo' \in Seq(Nat) /\ Len(addr_fifo') <= Len(addr_fifo)
  BY <1>1 DEF BusTick, AddrFifoRd, OInv, OTypes
<1>9. addr_fifo_dout' \in Nat /\ l2p_adr' \in Nat
  BY <1>1 DEF BusTick, AddrFifoRd, OInv, OTypes
<1>10. OTypes'
  BY <1>2, <1>5, <1>6, <1>8, <1>9 DEF OInv, OTypes
<1>11. Len(slave) \in Nat /\ Len(data_fifo) \in Nat /\ Len(addr_fifo) \in Nat
  BY DEF OInv, OTypes
<1>12. Len(addr_fifo') \in Nat
  BY <1>8
<1>13. AddrRoom'
  BY <1>2, <1>8, <1>11, <1>12, FetchConstants DEF AddrRoom, Running, OInv
<1>14. Len(slave') \in Nat
  BY <1>5, Zenon, LenProperties
<1>15. Len(data_fifo') \in Nat
  BY <1>6, LenProperties
<1> DEFINE s == Len(slave)   s1 == Len(slave')
           d == Len(data_fifo)   d1 == Len(data_fifo')
<1>16. \E a \in {0, 1}, t \in {0, 1} :
          /\ s1 = (s - a) + t /\ d1 <= d + a
          /\ t = 1 => l2p_stb /\ (a = 1 \/ s < SlaveDepth)
  <2>1. take => l2p_stb /\ (ack \/ s < SlaveDepth)
    BY <1>1
  <2>2. /\ ack => Len(rest) = s - 1 /\ d1 <= d + 1
        /\ ~ack => Len(rest) = s /\ d1 = d
        /\ take => Len(new) = 1
        /\ ~take => Len(new) = 0
        /\ s1 = Len(rest) + Len(new)
    BY <1>3, <1>4, <1>5, <1>6
  <2> HIDE DEF take, rest, new, s, s1, d1, d
  <2>3. s \in Nat /\ d \in Nat
    BY <1>11 DEF s, d
  <2>4. CASE ack /\ take
    <3> WITNESS 1 \in {0, 1}, 1 \in {0, 1}
    <3> QED BY <2>1, <2>2, <2>3, <2>4
  <2>5. CASE ack /\ ~take
    <3> WITNESS 1 \in {0, 1}, 0 \in {0, 1}
    <3> QED BY <2>2, <2>3, <2>5
  <2>6. CASE ~ack /\ take
    <3> WITNESS 0 \in {0, 1}, 1 \in {0, 1}
    <3>1. l2p_stb /\ s < SlaveDepth
      BY <2>1, <2>6
    <3>2. s1 = (s - 0) + 1
      <4>1. Len(rest) = s /\ Len(new) = 1 /\ s1 = Len(rest) + Len(new)
        BY <2>2, <2>6, Zenon
      <4> QED BY <2>3, <4>1
    <3>3. d1 <= d + 0
      BY <2>2, <2>3, <2>6
    <3> QED BY <3>1, <3>2, <3>3
  <2>7. CASE ~ack /\ ~take
    <3> WITNESS 0 \in {0, 1}, 0 \in {0, 1}
    <3> QED BY <2>2, <2>3, <2>7
  <2> QED BY <2>4, <2>5, <2>6, <2>7
<1>17. DataRoom'
  <2>1. s \in Nat /\ s1 \in Nat /\ d \in Nat /\ d1 \in Nat
    BY <1>11, <1>14, <1>15
  <2>2. /\ s <= SlaveDepth /\ d + s <= DataFull + SlaveDepth + 2
        /\ l2p_stb \/ addr_fifo_valid => d + s <= DataFull + SlaveDepth + 1
        /\ l2p_stb /\ addr_fifo_valid => d + s <= DataFull + SlaveDepth
    BY DEF OInv, DataRoom
  <2>3. /\ addr_fifo_valid' => d < DataFull
        /\ l2p_stb' => addr_fifo_valid
    BY <1>7
  <2>4. SlaveDepth \in Nat /\ DataFull \in Nat
    BY L2pDmaConstants, FetchConstants
  <2> HIDE DEF s, s1, d, d1
  <2>5. /\ s1 <= SlaveDepth /\ d1 + s1 <= DataFull + SlaveDepth + 2
        /\ l2p_stb' \/ addr_fifo_valid' => d1 + s1 <= DataFull + SlaveDepth + 1
        /\ l2p_stb' /\ addr_fifo_valid' => d1 + s1 <= DataFull + SlaveDepth
    BY <1>16, <2>1, <2>2, <2>3, <2>4
  <2> QED BY <2>5 DEF DataRoom, s1, d1
<1> QED BY <1>10, <1>13, <1>17 DEF OInv

(* Every edge of either clock leaves room for what is on its way. *)
LEMMA RoomNext == OInv /\ [Next]_vars => OInv'
<1> SUFFICES ASSUME OInv, [Next]_vars PROVE OInv'
  OBVIOUS
<1>1. CASE UNCHANGED vars
  BY <1>1 DEF vars, clkVars, busVars, envVars, targetVars, OInv, OTypes,
              AddrRoom, DataRoom, Running
<1>2. CASE ClkTick
  <2>1. PICK others \in BOOLEAN, wr_rdy \in BOOLEAN, rdy \in BOOLEAN :
           \/ ClkStart(others, wr_rdy, rdy)
           \/ ClkAbort(others, wr_rdy, rdy)
           \/ ClkRun(others, wr_rdy, rdy)
    BY <1>2 DEF ClkTick
  <2>2. CASE ClkStart(others, wr_rdy, rdy)
    <3>1. PICK j \in Jobs : Clk(TRUE, j, FALSE, others, wr_rdy, rdy)
      BY <2>2 DEF ClkStart
    <3>2. j.addr \in Nat /\ j.len \in Nat
      BY L2pDmaConstants, PacketConstants DEF HostSpan
    <3>3. ~Running
      BY <2>2 DEF ClkStart, Running
    <3> QED BY <3>1, <3>2, <3>3, RoomClk
  <2>3. CASE ClkAbort(others, wr_rdy, rdy)
    BY <2>3, RoomClk DEF ClkAbort, OInv, OTypes
  <2>4. CASE ClkRun(others, wr_rdy, rdy)
    BY <2>4, RoomClk DEF ClkRun, OInv, OTypes
  <2> QED BY <2>1, <2>2, <2>3, <2>4
<1>3. CASE DmaClkTick
  BY <1>3, RoomDmaClk DEF DmaClkTick
<1> QED BY <1>1, <1>2, <1>3 DEF Next

(* NoOverflow holds in every behaviour: behind the full thresholds there   *)
(* is room for everything already on its way, whatever the slave, the      *)
(* GN4124 and the host do.                                                 *)
THEOREM FifosHold == Spec => []NoOverflow
<1>1. OInv => NoOverflow
  BY FifoMargins, L2pDmaConstants, FetchConstants
  DEF OInv, OTypes, AddrRoom, DataRoom, NoOverflow
<1> QED BY <1>1, RoomInit, RoomNext, PTL DEF Spec

-----------------------------------------------------------------------------
(* The counters of the Wishbone master differ by the answers the slave     *)
(* still owes, modulo their width.                                         *)
Owed == Len(slave) + (IF l2p_stb THEN 1 ELSE 0)
Counted == wb_read_cnt \in {wb_ack_cnt + Owed, wb_ack_cnt + Owed - CntSpan}
BInv == /\ l2p_stb \in BOOLEAN /\ l2p_cyc \in BOOLEAN /\ addr_fifo_valid \in BOOLEAN
        /\ wb_read_cnt \in 0 .. CntSpan - 1 /\ wb_ack_cnt \in 0 .. CntSpan - 1
        /\ Counted /\ (Owed > 0 => l2p_cyc)

(* What an edge of l2p_dma_clk_i does to the slave. *)
LEMMA SlaveStep ==
  ASSUME OInv, BInv, "stall" \notin Env, NEW stall \in BOOLEAN, NEW ack \in BOOLEAN,
         DmaClk(stall, ack)
  PROVE  /\ l2p_stb => l2p_cyc /\ ~stall
         /\ ack => slave # <<>> /\ l2p_cyc
         /\ slave' = (IF ack THEN Tail(slave) ELSE slave) \o (IF l2p_stb THEN <<l2p_adr>> ELSE <<>>)
         /\ Len(slave') \in Nat /\ Len(slave) \in Nat
         /\ Len(slave') = (Len(slave) + (IF l2p_stb THEN 1 ELSE 0)) - (IF ack THEN 1 ELSE 0)
<1>1. Len(slave) \in Nat /\ slave \in Seq(Nat) /\ l2p_adr \in Nat
  BY DEF OInv, OTypes
<1>2. l2p_stb => l2p_cyc /\ ~stall
  BY <1>1 DEF BInv, Owed, DmaClk
<1>3. ack => slave # <<>> /\ l2p_cyc
  <2>1. slave # <<>> => Len(slave) > 0
    BY <1>1
  <2> QED BY <1>1, <2>1 DEF BInv, Owed, DmaClk
<1>4. slave' = (IF ack THEN Tail(slave) ELSE slave) \o (IF l2p_stb THEN <<l2p_adr>> ELSE <<>>)
  BY <1>2 DEF DmaClk
<1> DEFINE rest == IF ack THEN Tail(slave) ELSE slave
           new  == IF l2p_stb THEN <<l2p_adr>> ELSE <<>>
           one  == IF l2p_stb THEN 1 ELSE 0
           got  == IF ack THEN 1 ELSE 0
<1>5. rest \in Seq(Nat) /\ Len(rest) = Len(slave) - got
  <2>1. CASE ack
    BY <1>1, <1>3, <2>1
  <2>2. CASE ~ack
    BY <1>1, <2>2
  <2> QED BY <2>1, <2>2
<1>6. new \in Seq(Nat) /\ Len(new) = one
  <2>1. CASE l2p_stb
    BY <1>1, <2>1
  <2>2. CASE ~l2p_stb
    BY <2>2
  <2> QED BY <2>1, <2>2
<1>7. slave' = rest \o new
  BY <1>4
<1>a. got \in Nat /\ one \in Nat
  OBVIOUS
<1> HIDE DEF rest, new, one, got
<1>8. Len(slave') = Len(rest) + Len(new) /\ Len(rest) \in Nat /\ Len(new) \in Nat
  <2>1. Len(rest \o new) = Len(rest) + Len(new)
    BY <1>5, <1>6, ConcatProperties, Zenon
  <2>2. Len(rest) \in Nat /\ Len(new) \in Nat
    BY <1>5, <1>6
  <2> QED BY <1>7, <2>1, <2>2, Zenon
<1>9. Len(slave') \in Nat /\ Len(slave') = (Len(slave) + one) - got
  BY <1>1, <1>a, <1>5, <1>6, <1>8
<1> QED BY <1>1, <1>2, <1>3, <1>4, <1>9 DEF one, got

(* The edge keeps the counters and the cycle in step with the slave. *)
LEMMA BusHolds ==
  ASSUME OInv, OInv', BInv, "stall" \notin Env, SlaveDepth < CntSpan,
         NEW stall \in BOOLEAN, NEW ack \in BOOLEAN, DmaClk(stall, ack)
  PROVE  BInv'
<1> DEFINE one == IF l2p_stb THEN 1 ELSE 0
           got == IF ack THEN 1 ELSE 0
           new == IF addr_fifo_valid THEN 1 ELSE 0
           s   == Len(slave)
           s1  == Len(slave')
<1>0. SlaveDepth \in Nat /\ CntSpan \in Nat \ {0}
  BY L2pDmaConstants, FetchConstants
<1>1. /\ one \in 0 .. 1 /\ got \in 0 .. 1 /\ new \in 0 .. 1
      /\ Owed = s + one
  BY DEF Owed
<1>2. l2p_stb => l2p_cyc /\ ~stall
  BY SlaveStep
<1>3. ack => s > 0 /\ l2p_cyc
  <2>1. slave \in Seq(Nat)
    BY DEF OInv, OTypes
  <2>2. slave # <<>> => Len(slave) > 0
    BY <2>1
  <2> QED BY <2>2, SlaveStep
<1>4. s1 = s + one - got
  <2>1. s1 = (s + one) - got
    BY SlaveStep
  <2> QED BY <2>1
<1>5. s \in 0 .. SlaveDepth /\ s1 \in 0 .. SlaveDepth
  <2>1. s \in Nat /\ s1 \in Nat
    BY SlaveStep
  <2>2. s <= SlaveDepth
    BY DEF OInv, DataRoom
  <2>3. s1 <= SlaveDepth
    BY DEF OInv, DataRoom
  <2> QED BY <1>0, <2>1, <2>2, <2>3
<1>6. Owed' = s1 + new /\ Owed' = (Owed - got) + new
  <2>1. l2p_stb' = addr_fifo_valid
    BY DEF DmaClk, BusTick
  <2>2. Owed' = s1 + new
    BY <2>1 DEF Owed
  <2> HIDE DEF s, s1, one, got, new
  <2>3. s1 + new = ((s + one) - got) + new
    BY <1>1, <1>4, <1>5
  <2> QED BY <1>1, <2>2, <2>3
<1>7. /\ l2p_stb' \in BOOLEAN /\ l2p_cyc' \in BOOLEAN /\ addr_fifo_valid' \in BOOLEAN
  BY Zenon DEF DmaClk, BusTick, BInv, AddrFifoRd
<1>8. wb_read_cnt' = IF addr_fifo_valid
                     THEN IF wb_read_cnt + 1 = CntSpan THEN 0 ELSE wb_read_cnt + 1
                     ELSE wb_read_cnt
  BY <1>0, ModStep DEF DmaClk, BusTick, BInv
<1>9. wb_ack_cnt' = IF ack
                    THEN IF wb_ack_cnt + 1 = CntSpan THEN 0 ELSE wb_ack_cnt + 1
                    ELSE wb_ack_cnt
  BY <1>0, <1>3, ModStep DEF DmaClk, BusTick, BInv
<1>10. /\ wb_read_cnt' \in 0 .. CntSpan - 1 /\ wb_ack_cnt' \in 0 .. CntSpan - 1
       /\ wb_read_cnt \in 0 .. CntSpan - 1 /\ wb_ack_cnt \in 0 .. CntSpan - 1
  BY <1>0, <1>8, <1>9 DEF BInv
<1> USE <1>0
<1> HIDE DEF s, s1
<1>11. Owed \in 0 .. CntSpan
  BY <1>1, <1>5
<1>12. Counted'
  <2>1. wb_read_cnt \in {wb_ack_cnt + Owed, wb_ack_cnt + Owed - CntSpan}
    BY DEF BInv, Counted
  <2>2. Owed' \in 0 .. CntSpan
    <3> HIDE DEF new, got, one
    <3>1. \A m \in 0 .. SlaveDepth, n \in 0 .. 1 : m + n \in 0 .. CntSpan
      OBVIOUS
    <3> QED BY <1>1, <1>5, <1>6, <3>1
  <2>3. CASE ack /\ addr_fifo_valid
    BY <1>6, <1>8, <1>9, <1>10, <1>11, <2>1, <2>3 DEF Counted
  <2>4. CASE ack /\ ~addr_fifo_valid
    BY <1>3, <1>1, <1>5, <1>6, <1>8, <1>9, <1>10, <1>11, <2>1, <2>4 DEF Counted
  <2>5. CASE ~ack /\ addr_fifo_valid
    BY <1>6, <1>8, <1>9, <1>10, <1>11, <2>1, <2>2, <2>5 DEF Counted
  <2>6. CASE ~ack /\ ~addr_fifo_valid
    BY <1>6, <1>8, <1>9, <1>10, <1>11, <2>1, <2>6 DEF Counted
  <2> QED BY <2>3, <2>4, <2>5, <2>6
<1>13. Owed' > 0 => l2p_cyc'
  <2> SUFFICES ASSUME Owed' > 0, ~addr_fifo_valid PROVE l2p_cyc'
    BY DEF DmaClk, BusTick
  <2>1. l2p_cyc
    BY <1>1, <1>6, <1>11 DEF BInv
  <2>2. ~LastAck(ack)
    <3> SUFFICES ASSUME ack PROVE wb_ack_cnt # (wb_read_cnt - 1) % CntSpan
      BY DEF LastAck
    <3>1. Owed > 1
      BY <1>1, <1>6, <1>11
    <3>2. (wb_read_cnt - 1) % CntSpan = IF wb_read_cnt = 0 THEN CntSpan - 1 ELSE wb_read_cnt - 1
      BY <1>10, ModStep
    <3>3. wb_read_cnt \in {wb_ack_cnt + Owed, wb_ack_cnt + Owed - CntSpan}
      BY DEF BInv, Counted
    <3> QED BY <1>10, <1>11, <3>1, <3>2, <3>3
  <2> QED BY <2>1, <2>2 DEF DmaClk, BusTick
<1> QED BY <1>7, <1>10, <1>12, <1>13 DEF BInv

(* After reset nothing is owed and the counters agree. *)
LEMMA BusInit == Init => BInv
<1> SUFFICES ASSUME Init PROVE BInv
  OBVIOUS
<1>1. /\ slave = <<>> /\ l2p_stb = FALSE /\ l2p_cyc = FALSE /\ addr_fifo_valid = FALSE
      /\ wb_read_cnt = 0 /\ wb_ack_cnt = 0
  BY DEF Init, FetchInit
<1>2. Owed = 0
  BY <1>1 DEF Owed
<1>3. CntSpan \in Nat \ {0}
  BY FetchConstants
<1>4. Counted
  BY <1>1, <1>2, <1>3 DEF Counted
<1>5. wb_read_cnt \in 0 .. CntSpan - 1 /\ wb_ack_cnt \in 0 .. CntSpan - 1 /\ ~(Owed > 0)
  BY <1>1, <1>2, <1>3
<1> QED BY <1>1, <1>4, <1>5, Zenon DEF BInv

(* Every edge keeps the counters in step with what the slave owes. *)
LEMMA BusNext ==
  ASSUME "stall" \notin Env, SlaveDepth < CntSpan, OInv, BInv, [Next]_vars
  PROVE  BInv'
<1>1. CASE UNCHANGED <<busVars, slave>>
  BY <1>1 DEF busVars, BInv, Counted, Owed
<1>2. CASE DmaClkTick
  <2>1. OInv'
    BY RoomNext
  <2> QED BY <1>2, <2>1, BusHolds DEF DmaClkTick
<1>3. ClkTick => UNCHANGED <<busVars, slave>>
  BY DEF ClkTick, ClkStart, ClkAbort, ClkRun, Clk
<1> QED BY <1>1, <1>2, <1>3 DEF Next, vars

(* The master holds the Wishbone cycle while the slave still owes it an    *)
(* answer, so that no answer is lost: for every slave that holds fewer     *)
(* reads than the counters can count and stalls no strobe, also when the   *)
(* GN4124 throttles, the FIFOs run dry and jobs are aborted.               *)
THEOREM MasterKeepsCycle ==
  "stall" \notin Env /\ SlaveDepth < CntSpan => (Spec => []BusHeld)
<1> SUFFICES ASSUME "stall" \notin Env, SlaveDepth < CntSpan PROVE Spec => []BusHeld
  OBVIOUS
<1>1. OInv /\ BInv /\ [Next]_vars => BInv'
  BY BusNext
<1>2. OInv /\ BInv => BusHeld
  <2> SUFFICES ASSUME OInv, BInv, slave # <<>> PROVE l2p_cyc
    BY DEF BusHeld
  <2>1. Len(slave) > 0
    BY DEF OInv, OTypes
  <2> QED BY <2>1 DEF BInv, Owed, OInv, OTypes
<1> QED BY <1>1, <1>2, BusInit, RoomInit, RoomNext, PTL DEF Spec

-----------------------------------------------------------------------------
(* An edge of clk_i: which start it takes, and what the GN4124 allows. *)
Edge(start, j, others, wr_rdy, rdy) ==
    /\ \E kill \in BOOLEAN : Clk(start, j, kill, others, wr_rdy, rdy) /\ (kill => "abort" \in Env)
    /\ start => j \in Jobs /\ job.st \notin {"run", "killed", "aborting"}
    /\ start => started < MaxJobs

(* The edges of clk_i have one form. *)
LEMMA Edges ==
  ClkTick => \E start, others, wr_rdy, rdy \in BOOLEAN, j \in Jobs \cup {job} :
                Edge(start, j, others, wr_rdy, rdy)
<1> SUFFICES ASSUME ClkTick
             PROVE  \E start, others, wr_rdy, rdy \in BOOLEAN, j \in Jobs \cup {job} :
                       Edge(start, j, others, wr_rdy, rdy)
  OBVIOUS
<1>1. PICK others \in BOOLEAN, wr_rdy \in BOOLEAN, rdy \in BOOLEAN :
         \/ ClkStart(others, wr_rdy, rdy)
         \/ ClkAbort(others, wr_rdy, rdy)
         \/ ClkRun(others, wr_rdy, rdy)
  BY DEF ClkTick
<1>2. CASE ClkStart(others, wr_rdy, rdy)
  <2>1. PICK j \in Jobs : Clk(TRUE, j, FALSE, others, wr_rdy, rdy)
    BY <1>2 DEF ClkStart
  <2>2. Edge(TRUE, j, others, wr_rdy, rdy)
    BY <1>2, <2>1 DEF ClkStart, Edge
  <2> QED BY <2>2
<1>3. CASE ClkAbort(others, wr_rdy, rdy)
  <2>1. Edge(FALSE, job, others, wr_rdy, rdy)
    BY <1>3 DEF ClkAbort, Edge
  <2> QED BY <2>1
<1>4. CASE ClkRun(others, wr_rdy, rdy)
  <2>1. Edge(FALSE, job, others, wr_rdy, rdy)
    BY <1>4 DEF ClkRun, Edge
  <2> QED BY <2>1
<1> QED BY <1>1, <1>2, <1>3, <1>4

-----------------------------------------------------------------------------
(***************************************************************************)
(* The words of a job, when the surroundings are calm: each flag of Env    *)
(* loses or repeats words, and the low half of the address has no carry.   *)
(***************************************************************************)
Calm == /\ Env = {} /\ SlaveDepth < CntSpan
        /\ \A j \in Jobs : (j.addr % LowSpan) + j.len <= LowSpan

One(b) == IF b THEN 1 ELSE 0
Runs(q, p, a) == \A i \in 1 .. Len(q) : q[i] = (a + (p + i - 1)) % AddrSpan
Word(i) == (job.addr + i) % AddrSpan         \* the carrier's word i of the job
RunOf(q, p) == Runs(q, p, job.addr)          \* words p, p + 1, ... of the job

(* How many words of the job have come past each stage of the pipeline.    *)
Asked    == job.len - dma_length_cnt         \* their addresses are generated
Queued   == Asked - One(addr_fifo_wr)        \* in the address FIFO
ReadOut  == Queued - Len(addr_fifo)          \* read from the address FIFO
Strobed  == ReadOut - One(addr_fifo_valid)   \* strobed
Accepted == Strobed - One(l2p_stb)           \* taken by the slave
Answered == Accepted - Len(slave)            \* in the data FIFO
Popped   == Answered - Len(data_fifo)        \* read from the data FIFO

(* Between two stages are the words from the later count to the earlier.   *)
Pipe ==
  /\ dma_length_cnt \in 0 .. job.len /\ Popped \in Nat
  /\ target_addr_cnt = Word(Asked)
  /\ addr_fifo_wr => addr_fifo_din = Word(Queued)
  /\ RunOf(addr_fifo, ReadOut)
  /\ addr_fifo_valid => addr_fifo_dout = Word(Strobed)
  /\ l2p_stb => l2p_adr = Word(Accepted)
  /\ RunOf(slave, Answered) /\ RunOf(data_fifo, Popped)
  /\ data_fifo_valid => data_fifo_dout = Word(Popped - 1)

Flags ==
  /\ addr_fifo_wr \in BOOLEAN /\ data_fifo_valid \in BOOLEAN /\ data_fifo_rd \in BOOLEAN
  /\ gnt \in BOOLEAN /\ ldm_req \in BOOLEAN /\ ldm_valid \in BOOLEAN /\ ldm_dframe \in BOOLEAN
  /\ ldm_done \in BOOLEAN /\ l2p_64b \in BOOLEAN /\ l2p_last_packet \in BOOLEAN
  /\ l2p_len_header \in 0 .. HdrSpan - 1

Inside == {"L2P_DATA", "L2P_WAIT_DATA", "L2P_LAST_DATA"}
Opening == {"L2P_HEADER", "L2P_ADDR_H", "L2P_ADDR_L"}
Size == IF l2p_len_header = 0 THEN HdrSpan ELSE l2p_len_header
Left == l2p_len_cnt + (IF l2p_state \in Inside THEN Size ELSE 0)
At == job.len - Left
Loaded == /\ l2p_data_cnt = IF l2p_len_cnt > MaxPayload THEN MaxPayload ELSE l2p_len_cnt
          /\ l2p_len_header = l2p_data_cnt % HdrSpan
          /\ l2p_last_packet <=> l2p_len_cnt <= MaxPayload
          /\ l2p_64b <=> l2p_address_h # 0

Jobbing ==
  /\ job.st \in {"none", "run", "done"}
  /\ job.addr \in 0 .. HostSpan - 1 /\ (job.addr % LowSpan) + job.len <= LowSpan
  /\ ~ldm_edb /\ ~ldm_error
  /\ ldm_done => l2p_state = "L2P_IDLE" /\ l2p_len_cnt = 0
  /\ ~Running => l2p_state = "L2P_IDLE" /\ l2p_len_cnt = 0 /\ ~ldm_done /\ ~ldm_valid
  /\ l2p_len_cnt \in 0 .. job.len
  /\ l2p_state # "L2P_IDLE" \/ l2p_len_cnt # 0 =>
        /\ l2p_address_h = job.addr \div LowSpan
        /\ l2p_address_l = (job.addr % LowSpan) + At
Places ==
  /\ l2p_state \in {"L2P_IDLE"} \cup Opening \cup Inside
  /\ l2p_state = "L2P_IDLE" => /\ Popped = job.len - l2p_len_cnt /\ ~data_fifo_rd
                               /\ l2p_len_cnt \in {0, job.len}
                               /\ l2p_len_cnt # 0 => ~ldm_valid
  /\ l2p_state \in Opening => /\ Popped = job.len - l2p_len_cnt /\ l2p_len_cnt # 0
                              /\ (data_fifo_rd <=> l2p_state = "L2P_ADDR_L")
                              /\ gnt => Loaded
  /\ l2p_state = "L2P_ADDR_H" => l2p_64b
  /\ l2p_state \in Inside =>
        /\ l2p_data_cnt \in 1 .. Size /\ Size <= MaxPayload /\ Left <= job.len
        /\ (l2p_last_packet <=> l2p_len_cnt = 0) /\ (l2p_64b <=> l2p_address_h # 0)
        /\ ~l2p_last_packet => Size = MaxPayload
        /\ Popped = (job.len - l2p_len_cnt) - l2p_data_cnt + One(data_fifo_valid)
        /\ (data_fifo_rd <=> l2p_state # "L2P_LAST_DATA")
        /\ (data_fifo_valid <=> l2p_state # "L2P_WAIT_DATA")
        /\ l2p_state = "L2P_DATA" => l2p_data_cnt > 1
        /\ l2p_state = "L2P_LAST_DATA" => l2p_data_cnt = 1

Seen == IF ldm_valid THEN Advance(rx, ldm_word) ELSE rx
Closing == ldm_valid /\ ~ldm_dframe
Begun == job.len - l2p_len_cnt - Len(Seen.words)
Bus ==
  /\ ~malformed
  /\ ldm_req <=> l2p_state = "L2P_HEADER"
  /\ l2p_state \notin {"L2P_IDLE", "L2P_HEADER"} => gnt /\ ldm_dframe
  /\ l2p_state = "L2P_IDLE" /\ gnt => Closing
  /\ l2p_state \in {"L2P_IDLE", "L2P_HEADER"} /\ ldm_valid => Closing /\ gnt
  /\ l2p_state \in {"L2P_IDLE", "L2P_HEADER"} /\ ~ldm_valid => rx = NoPacket
  /\ ldm_valid => Expected(rx, ldm_word)
  /\ l2p_state = "L2P_ADDR_H" => /\ ldm_valid /\ rx = NoPacket
                                 /\ ldm_word = Header(l2p_len_header, TRUE)
  /\ l2p_state = "L2P_ADDR_L" /\ ~l2p_64b =>
        ldm_valid /\ rx = NoPacket /\ ldm_word = Header(l2p_len_header, FALSE)
  /\ l2p_state = "L2P_ADDR_L" /\ l2p_64b =>
        /\ ldm_valid /\ ldm_word = AddrHigh(l2p_address_h)
        /\ rx = [phase |-> "high", wide |-> TRUE, len |-> l2p_len_header, base |-> 0,
                 words |-> <<>>]
  /\ l2p_state \in Inside =>
        /\ Seen = [phase |-> "data", wide |-> l2p_64b, len |-> l2p_len_header,
                   base |-> job.addr + At, words |-> Seen.words]
        /\ Seen.words \in Seq(Nat) /\ Len(Seen.words) = Size - l2p_data_cnt /\ RunOf(Seen.words, At)
  /\ Closing => /\ Begun \in Nat /\ Seen.base = job.addr + Begun
                /\ Seen.words \in Seq(Nat) /\ Len(Seen.words) = Length(Seen)
                /\ RunOf(Seen.words, Begun)

Stored == IF Closing THEN Begun ELSE At
Memory ==
  /\ DOMAIN host = 0 .. HostSpan - 1
  /\ Addrs(job.addr, job.len) \subseteq want
  /\ HostExact
  /\ \A i \in 0 .. Stored - 1 : host[job.addr + i] = (job.addr + i) % AddrSpan

-----------------------------------------------------------------------------
(* A run of words grows at its end and shrinks at its head. *)
LEMMA RunPush ==
  ASSUME NEW q \in Seq(Nat), NEW p \in Int, NEW a \in Nat, NEW x \in Nat, Runs(q, p, a),
         x = (a + (p + Len(q))) % AddrSpan
  PROVE  Runs(Append(q, x), p, a)
<1> DEFINE r == Append(q, x)
<1>1. Len(q) \in Nat /\ Len(r) = Len(q) + 1 /\ \A i \in 1 .. Len(q) : r[i] = q[i]
  OBVIOUS
<1>2. r[Len(q) + 1] = x
  OBVIOUS
<1> SUFFICES ASSUME NEW i \in 1 .. Len(r) PROVE r[i] = (a + (p + i - 1)) % AddrSpan
  BY DEF Runs
<1> HIDE DEF r
<1>3. CASE i = Len(q) + 1
  <2>1. a + (p + i - 1) = a + (p + Len(q))
    BY <1>1, <1>3
  <2> QED BY <1>2, <1>3, <2>1
<1>4. CASE i \in 1 .. Len(q)
  BY <1>1, <1>4 DEF Runs
<1> QED BY <1>1, <1>3, <1>4

LEMMA RunPop ==
  ASSUME NEW q \in Seq(Nat), q # <<>>, NEW p \in Int, NEW a \in Nat, Runs(q, p, a)
  PROVE  Head(q) = (a + p) % AddrSpan /\ Runs(Tail(q), p + 1, a)
<1> DEFINE r == Tail(q)
<1>1. /\ Len(q) \in Nat \ {0} /\ Len(r) = Len(q) - 1 /\ Head(q) = q[1]
      /\ \A i \in 1 .. Len(r) : r[i] = q[i + 1]
  OBVIOUS
<1> HIDE DEF r
<1>2. Head(q) = (a + p) % AddrSpan
  <2>1. q[1] = (a + (p + 1 - 1)) % AddrSpan
    BY <1>1 DEF Runs
  <2>2. a + (p + 1 - 1) = a + p
    OBVIOUS
  <2> QED BY <1>1, <2>1, <2>2
<1>3. Runs(r, p + 1, a)
  <2> SUFFICES ASSUME NEW i \in 1 .. Len(r) PROVE r[i] = (a + (p + 1 + i - 1)) % AddrSpan
    BY DEF Runs
  <2>1. i + 1 \in 1 .. Len(q) /\ r[i] = q[i + 1]
    BY <1>1
  <2>2. q[i + 1] = (a + (p + (i + 1) - 1)) % AddrSpan
    BY <2>1 DEF Runs
  <2>3. a + (p + (i + 1) - 1) = a + (p + 1 + i - 1)
    OBVIOUS
  <2> QED BY <2>1, <2>2, <2>3
<1> QED BY <1>2, <1>3 DEF r

(* Between a job's last word and the next job the pipeline is empty. *)
LEMMA Drained ==
  ASSUME OInv, Flags, Pipe, Popped = job.len
  PROVE  /\ dma_length_cnt = 0 /\ ~addr_fifo_wr /\ addr_fifo = <<>> /\ ~addr_fifo_valid
         /\ ~l2p_stb /\ slave = <<>> /\ data_fifo = <<>>
<1>1. /\ addr_fifo \in Seq(Nat) /\ slave \in Seq(Nat) /\ data_fifo \in Seq(Nat)
      /\ job.len \in Nat /\ dma_length_cnt \in 0 .. job.len
  BY DEF OInv, OTypes, Pipe
<1>2. /\ Len(addr_fifo) \in Nat /\ Len(slave) \in Nat /\ Len(data_fifo) \in Nat
      /\ One(addr_fifo_wr) \in 0 .. 1 /\ One(addr_fifo_valid) \in 0 .. 1 /\ One(l2p_stb) \in 0 .. 1
  BY <1>1 DEF One
<1>3. job.len = job.len - dma_length_cnt - One(addr_fifo_wr) - Len(addr_fifo)
                   - One(addr_fifo_valid) - One(l2p_stb) - Len(slave) - Len(data_fifo)
  BY DEF Popped, Answered, Accepted, Strobed, ReadOut, Queued, Asked
<1>4. /\ dma_length_cnt = 0 /\ One(addr_fifo_wr) = 0 /\ Len(addr_fifo) = 0
      /\ One(addr_fifo_valid) = 0 /\ One(l2p_stb) = 0 /\ Len(slave) = 0 /\ Len(data_fifo) = 0
  <2> DEFINE l == job.len
             a == dma_length_cnt
             b == One(addr_fifo_wr)
             c == Len(addr_fifo)
             d == One(addr_fifo_valid)
             e == One(l2p_stb)
             f == Len(slave)
             g == Len(data_fifo)
  <2>1. /\ l \in Nat /\ a \in Nat /\ b \in Nat /\ c \in Nat
        /\ d \in Nat /\ e \in Nat /\ f \in Nat /\ g \in Nat
    BY <1>1, <1>2
  <2>2. l = l - a - b - c - d - e - f - g
    BY <1>3
  <2>3. a = 0 /\ b = 0 /\ c = 0 /\ d = 0 /\ e = 0 /\ f = 0 /\ g = 0
    <3> HIDE DEF l, a, b, c, d, e, f, g
    <3> QED BY ONLY <2>1, <2>2
  <2> QED BY <2>3
<1>5. ~addr_fifo_wr /\ ~addr_fifo_valid /\ ~l2p_stb
  BY <1>4 DEF One
<1> QED BY <1>1, <1>4, <1>5

(* What an edge of clk_i without a start does to the counts. *)
LEMMA ClkCounts ==
  ASSUME OInv, Flags, Pipe, FifoRead, UNCHANGED <<busVars, slave>>, UNCHANGED <<job.addr, job.len>>,
         NEW idle \in BOOLEAN, NEW addr, NEW len, TargetCnt(FALSE, idle, addr, len)
  PROVE  /\ Queued' = Asked /\ ReadOut' = ReadOut /\ Strobed' = Strobed
         /\ Accepted' = Accepted /\ Answered' = Answered
         /\ Popped' = Popped + One(data_fifo_rd /\ data_fifo # <<>>)
         /\ One(data_fifo_rd /\ data_fifo # <<>>) \in 0 .. 1
         /\ data_fifo_rd /\ data_fifo # <<>> => Popped < job.len
         /\ Asked \in Nat /\ Queued \in Int /\ ReadOut \in Int /\ Answered \in Int
         /\ Strobed \in Int /\ Accepted \in Int
         /\ ReadOut + Len(addr_fifo) = Queued
         /\ addr_fifo_wr => Queued = Asked - 1
<1>1. /\ addr_fifo \in Seq(Nat) /\ slave \in Seq(Nat) /\ data_fifo \in Seq(Nat)
      /\ job.len \in Nat /\ dma_length_cnt \in 0 .. job.len /\ addr_fifo_din \in Nat
  BY DEF OInv, OTypes, Pipe
<1>2. /\ Len(addr_fifo) \in Nat /\ Len(slave) \in Nat /\ Len(data_fifo) \in Nat
      /\ One(addr_fifo_wr) \in 0 .. 1 /\ One(addr_fifo_valid) \in 0 .. 1 /\ One(l2p_stb) \in 0 .. 1
  BY <1>1 DEF One
<1>3. Len(addr_fifo') = Len(addr_fifo) + One(addr_fifo_wr)
  BY <1>1 DEF TargetCnt, One, Flags
<1> DEFINE pop == data_fifo_rd /\ data_fifo # <<>>
<1>4. /\ Len(data_fifo') = Len(data_fifo) - One(pop)
      /\ One(pop) \in 0 .. 1 /\ One(pop) <= Len(data_fifo)
  BY <1>1 DEF FifoRead, One
<1>5. Queued' = Asked
  <2>1. CASE addr_fifo_wr' = TRUE /\ dma_length_cnt # 0 /\ dma_length_cnt' = dma_length_cnt - 1
    BY <1>1, <2>1 DEF Queued, Asked, One
  <2>2. CASE addr_fifo_wr' = FALSE /\ dma_length_cnt' = dma_length_cnt
    BY <1>1, <2>2 DEF Queued, Asked, One
  <2> QED BY <2>1, <2>2 DEF TargetCnt
<1>6. ReadOut' = ReadOut
  BY <1>1, <1>2, <1>3, <1>5 DEF ReadOut, Queued, Asked
<1>7. Strobed' = Strobed /\ Accepted' = Accepted /\ Answered' = Answered
  BY <1>6 DEF Strobed, Accepted, Answered, busVars, One
<1>8. /\ Asked \in Nat /\ Queued \in Int /\ ReadOut \in Int /\ Answered \in Int
      /\ Strobed \in Int /\ Accepted \in Int
  <2>1. Asked \in Nat
    BY <1>1 DEF Asked
  <2>2. Queued \in Int
    BY <1>2, <2>1 DEF Queued
  <2>3. ReadOut \in Int
    BY <1>2, <2>2 DEF ReadOut
  <2>4. Strobed \in Int
    BY <1>2, <2>3 DEF Strobed
  <2>5. Accepted \in Int
    BY <1>2, <2>4 DEF Accepted
  <2>6. Answered \in Int
    BY <1>2, <2>5 DEF Answered
  <2> QED BY <2>1, <2>2, <2>3, <2>4, <2>5, <2>6
<1>9. Popped' = Popped + One(pop)
  <2> HIDE DEF pop
  <2> QED BY <1>2, <1>4, <1>7, <1>8 DEF Popped
<1>10. pop => Popped < job.len
  <2> SUFFICES ASSUME pop PROVE Popped < job.len
    OBVIOUS
  <2>1. Len(data_fifo) > 0
    BY <1>1
  <2>2. Asked <= job.len
    BY <1>1 DEF Asked
  <2>a. Queued <= Asked
    BY <1>2, <1>8 DEF Queued
  <2>b. ReadOut <= Queued
    BY <1>2, <1>8 DEF ReadOut
  <2>3. Strobed <= ReadOut
    BY <1>2, <1>8 DEF Strobed
  <2>4. Accepted <= Strobed
    BY <1>2, <1>8 DEF Accepted
  <2>5. Answered <= Accepted
    BY <1>2, <1>8 DEF Answered
  <2>6. Popped < Answered /\ Popped \in Int
    BY <1>2, <1>8, <2>1 DEF Popped
  <2> QED BY <1>1, <1>8, <2>2, <2>a, <2>b, <2>3, <2>4, <2>5, <2>6
<1>11. ReadOut + Len(addr_fifo) = Queued /\ (addr_fifo_wr => Queued = Asked - 1)
  BY <1>2, <1>8 DEF ReadOut, Queued, One
<1> QED BY <1>4, <1>5, <1>6, <1>7, <1>8, <1>9, <1>10, <1>11

(* An edge of clk_i keeps the words of the job in their order. *)
LEMMA PipeClk ==
  ASSUME OInv, OInv', Flags, Pipe, FifoRead,
         UNCHANGED <<busVars, slave>>, UNCHANGED <<job.addr, job.len>>,
         NEW idle \in BOOLEAN, NEW addr, NEW len, TargetCnt(FALSE, idle, addr, len)
  PROVE  Pipe'
<1>1. /\ addr_fifo \in Seq(Nat) /\ slave \in Seq(Nat) /\ data_fifo \in Seq(Nat)
      /\ job.len \in Nat /\ job.addr \in Nat /\ dma_length_cnt \in 0 .. job.len
      /\ addr_fifo_din \in Nat /\ Popped \in Nat
  BY DEF OInv, OTypes, Pipe
<1>2. AddrSpan \in Nat \ {0}
  BY FetchConstants
<1>3. dma_length_cnt' \in 0 .. job.len'
  BY <1>1 DEF TargetCnt
<1>4. Popped' \in Nat
  <2>1. PICK n \in 0 .. 1 : Popped' = Popped + n
    BY ClkCounts
  <2> QED BY <1>1, <2>1
<1>5. target_addr_cnt' = Word(Asked)' /\ (addr_fifo_wr' => addr_fifo_din' = Word(Queued)')
  <2>1. CASE addr_fifo_wr' = TRUE /\ dma_length_cnt' = dma_length_cnt - 1 /\ dma_length_cnt # 0
             /\ addr_fifo_din' = target_addr_cnt /\ target_addr_cnt' = NextTarget
    <3>1. Asked' = Asked + 1 /\ Asked \in Nat
      BY <1>1, <2>1 DEF Asked
    <3>2. target_addr_cnt = (job.addr + Asked) % AddrSpan
      BY DEF Pipe, Word
    <3>3. \A x \in Int : ((x % AddrSpan) + 1) % AddrSpan = (x + 1) % AddrSpan
      BY <1>2, ModNext
    <3>4. target_addr_cnt' = (job.addr + Asked + 1) % AddrSpan
      <4>1. job.addr + Asked \in Int
        BY <1>1, <3>1
      <4>2. (((job.addr + Asked) % AddrSpan) + 1) % AddrSpan = (job.addr + Asked + 1) % AddrSpan
        BY <3>3, <4>1
      <4> QED BY <2>1, <3>2, <4>2 DEF NextTarget
    <3>5. job.addr + Asked + 1 = job.addr' + Asked'
      <4>1. job.addr + Asked + 1 = job.addr + (Asked + 1)
        <5>1. job.addr \in Int /\ Asked \in Int
          BY <1>1, <3>1
        <5> QED BY <5>1
      <4> QED BY <3>1, <4>1
    <3>6. target_addr_cnt' = Word(Asked)'
      BY <3>4, <3>5 DEF Word
    <3>7. addr_fifo_din' = (job.addr' + Queued') % AddrSpan
      BY <2>1, <3>2, ClkCounts
    <3> QED BY <3>6, <3>7 DEF Word
  <2>2. CASE addr_fifo_wr' = FALSE /\ UNCHANGED <<dma_length_cnt, target_addr_cnt>>
    BY <2>2 DEF Pipe, Word, Asked
  <2> QED BY <2>1, <2>2 DEF TargetCnt
<1>6. RunOf(addr_fifo, ReadOut)'
  <2>1. CASE addr_fifo_wr
    <3>1. addr_fifo' = Append(addr_fifo, addr_fifo_din)
      BY <2>1 DEF TargetCnt
    <3>2. addr_fifo_din = (job.addr + Queued) % AddrSpan /\ Runs(addr_fifo, ReadOut, job.addr)
      BY <2>1 DEF Pipe, RunOf, Word
    <3>3. ReadOut + Len(addr_fifo) = Queued /\ ReadOut \in Int /\ ReadOut' = ReadOut
      BY ClkCounts
    <3>4. Runs(Append(addr_fifo, addr_fifo_din), ReadOut, job.addr)
      BY <1>1, <3>2, <3>3, RunPush
    <3> QED BY <3>1, <3>3, <3>4 DEF RunOf
  <2>2. CASE ~addr_fifo_wr
    <3>1. addr_fifo' = addr_fifo /\ ReadOut' = ReadOut
      BY <2>2, ClkCounts DEF TargetCnt
    <3> QED BY <3>1 DEF RunOf, Pipe, Runs
  <2> QED BY <2>1, <2>2
<1>7. /\ addr_fifo_valid' => addr_fifo_dout' = Word(Strobed)'
      /\ l2p_stb' => l2p_adr' = Word(Accepted)'
      /\ RunOf(slave, Answered)'
  BY ClkCounts DEF Pipe, Word, RunOf, Runs, busVars
<1>8. RunOf(data_fifo, Popped)' /\ (data_fifo_valid' => data_fifo_dout' = Word(Popped - 1)')
  <2>0. Runs(data_fifo, Popped, job.addr)
    BY DEF Pipe, RunOf
  <2>1. CASE data_fifo_rd /\ data_fifo # <<>>
    <3>1. data_fifo' = Tail(data_fifo) /\ data_fifo_dout' = Head(data_fifo)
      BY <2>1 DEF FifoRead
    <3>2. Popped' = Popped + 1
      BY <2>1, ClkCounts DEF One
    <3>3. /\ Head(data_fifo) = (job.addr + Popped) % AddrSpan
          /\ Runs(Tail(data_fifo), Popped + 1, job.addr)
      BY <1>1, <2>0, <2>1, RunPop
    <3>4. Popped' - 1 = Popped
      BY <1>1, <3>2
    <3>5. Word(Popped - 1)' = (job.addr + Popped) % AddrSpan
      BY <3>4 DEF Word
    <3> QED BY <3>1, <3>2, <3>3, <3>5 DEF RunOf
  <2>2. CASE ~(data_fifo_rd /\ data_fifo # <<>>)
    <3>1. data_fifo' = data_fifo /\ data_fifo_valid' = FALSE
      BY <2>2 DEF FifoRead
    <3>2. Popped' = Popped
      <4>1. One(data_fifo_rd /\ data_fifo # <<>>) = 0
        BY <2>2 DEF One
      <4>2. Popped' = Popped + 0
        BY <4>1, ClkCounts
      <4> QED BY <1>1, <4>2
    <3> QED BY <2>0, <3>1, <3>2 DEF RunOf
  <2> QED BY <2>1, <2>2
<1> QED BY <1>3, <1>4, <1>5, <1>6, <1>7, <1>8 DEF Pipe

(* What an edge of l2p_dma_clk_i does to the counts: every word moves on. *)
LEMMA DmaCounts ==
  ASSUME OInv, OInv', BInv, Flags, Pipe, Calm, NEW stall \in BOOLEAN, NEW ack \in BOOLEAN,
         DmaClk(stall, ack)
  PROVE  /\ Asked' = Asked /\ Queued' = Queued
         /\ ReadOut' = ReadOut + One(AddrFifoRd(stall, FALSE)) /\ Strobed' = ReadOut
         /\ Accepted' = Strobed /\ Answered' = Answered + One(ack) /\ Popped' = Popped
         /\ Queued \in Int /\ ReadOut \in Int /\ Strobed \in Int
         /\ Accepted \in Int /\ Answered \in Int /\ Popped \in Int
         /\ ~addr_fifo_valid => ReadOut = Strobed
         /\ l2p_stb => Accepted + 1 = Strobed
         /\ Answered + Len(slave) = Accepted /\ Popped + Len(data_fifo) = Answered
<1>0. "stall" \notin Env /\ SlaveDepth < CntSpan
  BY DEF Calm
<1>1. /\ addr_fifo \in Seq(Nat) /\ slave \in Seq(Nat) /\ data_fifo \in Seq(Nat)
      /\ job.len \in Nat /\ dma_length_cnt \in 0 .. job.len
      /\ addr_fifo' \in Seq(Nat) /\ slave' \in Seq(Nat) /\ data_fifo' \in Seq(Nat)
  BY DEF OInv, OTypes, Pipe
<1>2. /\ Len(addr_fifo) \in Nat /\ Len(slave) \in Nat /\ Len(data_fifo) \in Nat
      /\ One(addr_fifo_wr) \in 0 .. 1 /\ One(addr_fifo_valid) \in 0 .. 1 /\ One(l2p_stb) \in 0 .. 1
      /\ One(ack) \in 0 .. 1
  BY <1>1 DEF One
<1> DEFINE rd == AddrFifoRd(stall, FALSE)
<1>3. /\ BusTick(stall, ack, IF ack THEN Head(slave) ELSE 0, FALSE)
      /\ UNCHANGED <<dma_length_cnt, addr_fifo_wr, job>>
      /\ ack => l2p_cyc
  BY <1>0, SlaveStep DEF DmaClk, clkVars, targetVars, envVars
<1>4. Len(addr_fifo') = Len(addr_fifo) - One(rd) /\ One(rd) \in 0 .. 1
  BY <1>1, <1>3 DEF BusTick, AddrFifoRd, One
<1>5. Len(data_fifo') = Len(data_fifo) + One(ack)
  BY <1>1, <1>3 DEF BusTick, One
<1>6. Len(slave') = (Len(slave) + One(l2p_stb)) - One(ack)
  BY <1>0, SlaveStep DEF One
<1>7. One(addr_fifo_valid)' = One(rd) /\ One(l2p_stb)' = One(addr_fifo_valid)
  BY <1>3 DEF BusTick, One
<1>8. Asked' = Asked /\ Queued' = Queued /\ Asked \in Nat
  BY <1>1, <1>3 DEF Asked, Queued, One
<1>9. /\ Queued \in Int /\ ReadOut \in Int /\ Strobed \in Int
      /\ Accepted \in Int /\ Answered \in Int /\ Popped \in Int
  <2>1. Queued \in Int
    BY <1>2, <1>8 DEF Queued
  <2>2. ReadOut \in Int
    BY <1>2, <2>1 DEF ReadOut
  <2>3. Strobed \in Int
    BY <1>2, <2>2 DEF Strobed
  <2>4. Accepted \in Int
    BY <1>2, <2>3 DEF Accepted
  <2>5. Answered \in Int
    BY <1>2, <2>4 DEF Answered
  <2>6. Popped \in Int
    BY <1>2, <2>5 DEF Popped
  <2> QED BY <2>1, <2>2, <2>3, <2>4, <2>5, <2>6
<1> HIDE DEF rd
<1>10. ReadOut' = ReadOut + One(rd)
  <2>1. ReadOut' = Queued - Len(addr_fifo')
    BY <1>8 DEF ReadOut
  <2>2. ReadOut = Queued - Len(addr_fifo)
    BY DEF ReadOut
  <2> QED BY <1>2, <1>4, <1>9, <2>1, <2>2
<1>11. Strobed' = ReadOut
  <2>1. Strobed' = (ReadOut + One(rd)) - One(rd)
    BY <1>7, <1>10 DEF Strobed
  <2> QED BY <1>4, <1>9, <2>1
<1>12. Accepted' = Strobed
  <2>1. Accepted' = ReadOut - One(addr_fifo_valid)
    BY <1>7, <1>11 DEF Accepted
  <2> QED BY <2>1 DEF Strobed
<1>13. Answered' = Answered + One(ack)
  <2>1. Answered' = Strobed - Len(slave')
    BY <1>12 DEF Answered
  <2>2. Answered = (Strobed - One(l2p_stb)) - Len(slave)
    BY DEF Answered, Accepted
  <2> QED BY <1>2, <1>6, <1>9, <2>1, <2>2
<1>14. Popped' = Popped
  <2>1. Popped' = (Answered + One(ack)) - (Len(data_fifo) + One(ack))
    BY <1>5, <1>13 DEF Popped
  <2>2. Popped = Answered - Len(data_fifo)
    BY DEF Popped
  <2> QED BY <1>2, <1>9, <2>1, <2>2
<1>15. ~addr_fifo_valid => ReadOut = Strobed
  BY <1>9 DEF Strobed, One
<1>16. l2p_stb => Accepted + 1 = Strobed
  BY <1>9 DEF Accepted, One
<1>17. Answered + Len(slave) = Accepted
  BY <1>2, <1>9 DEF Answered
<1>18. Popped + Len(data_fifo) = Answered
  BY <1>2, <1>9 DEF Popped
<1> QED BY <1>8, <1>9, <1>10, <1>11, <1>12, <1>13, <1>14, <1>15, <1>16, <1>17, <1>18 DEF rd

(* An edge of l2p_dma_clk_i keeps the words of the job in their order. *)
LEMMA PipeDmaClk ==
  ASSUME OInv, OInv', BInv, Flags, Pipe, Calm, NEW stall \in BOOLEAN, NEW ack \in BOOLEAN,
         DmaClk(stall, ack)
  PROVE  Pipe' /\ Popped' = Popped
<1>0. "stall" \notin Env /\ SlaveDepth < CntSpan
  BY DEF Calm
<1>1. /\ addr_fifo \in Seq(Nat) /\ slave \in Seq(Nat) /\ data_fifo \in Seq(Nat)
      /\ job.len \in Nat /\ job.addr \in Nat /\ dma_length_cnt \in 0 .. job.len
      /\ addr_fifo_dout \in Nat /\ l2p_adr \in Nat /\ Popped \in Nat
  BY DEF OInv, OTypes, Pipe
<1> DEFINE rd == AddrFifoRd(stall, FALSE)
<1>3. /\ BusTick(stall, ack, IF ack THEN Head(slave) ELSE 0, FALSE)
      /\ UNCHANGED <<dma_length_cnt, addr_fifo_wr, addr_fifo_din, target_addr_cnt, job,
                     data_fifo_valid, data_fifo_dout>>
      /\ ack => slave # <<>> /\ l2p_cyc
  BY <1>0, SlaveStep DEF DmaClk, clkVars, targetVars, envVars
<1>4. /\ dma_length_cnt' \in 0 .. job.len' /\ Popped' \in Nat
      /\ target_addr_cnt' = Word(Asked)'
      /\ addr_fifo_wr' => addr_fifo_din' = Word(Queued)'
  BY <1>1, <1>3, DmaCounts DEF Pipe, Word
<1>5. data_fifo_valid' => data_fifo_dout' = Word(Popped - 1)'
  BY <1>3, DmaCounts DEF Pipe, Word
<1>6. RunOf(addr_fifo, ReadOut)' /\ (addr_fifo_valid' => addr_fifo_dout' = Word(Strobed)')
  <2>0. Runs(addr_fifo, ReadOut, job.addr) /\ ReadOut \in Int
    BY DmaCounts DEF Pipe, RunOf
  <2>1. CASE rd
    <3>1. addr_fifo # <<>> /\ addr_fifo' = Tail(addr_fifo) /\ addr_fifo_dout' = Head(addr_fifo)
      BY <1>3, <2>1 DEF BusTick, AddrFifoRd
    <3>2. ReadOut' = ReadOut + 1 /\ Strobed' = ReadOut
      BY <2>1, DmaCounts DEF One
    <3>3. /\ Head(addr_fifo) = (job.addr + ReadOut) % AddrSpan
          /\ Runs(Tail(addr_fifo), ReadOut + 1, job.addr)
      BY <1>1, <2>0, <3>1, RunPop
    <3> QED BY <1>3, <3>1, <3>2, <3>3 DEF RunOf, Word
  <2>2. CASE ~rd
    <3>1. addr_fifo' = addr_fifo /\ ~addr_fifo_valid'
      BY <1>3, <2>2, Zenon DEF BusTick
    <3>2. ReadOut' = ReadOut
      <4>1. One(rd) = 0
        BY <2>2 DEF One
      <4>2. ReadOut' = ReadOut + 0
        BY <4>1, DmaCounts
      <4> QED BY <2>0, <4>2
    <3> QED BY <1>3, <2>0, <3>1, <3>2 DEF RunOf
  <2> QED BY <2>1, <2>2
<1>7. l2p_stb' => l2p_adr' = Word(Accepted)'
  BY <1>3, DmaCounts DEF BusTick, Pipe, Word
<1>8. RunOf(slave, Answered)' /\ RunOf(data_fifo, Popped)'
  <2>0. /\ Runs(slave, Answered, job.addr) /\ Runs(data_fifo, Popped, job.addr)
        /\ Answered \in Int /\ Popped \in Int /\ Accepted \in Int
        /\ Answered + Len(slave) = Accepted /\ Popped + Len(data_fifo) = Answered
        /\ Popped' = Popped /\ Answered' = Answered + One(ack)
    BY DmaCounts DEF Pipe, RunOf
  <2> DEFINE rest == IF ack THEN Tail(slave) ELSE slave
  <2>1. slave' = rest \o (IF l2p_stb THEN <<l2p_adr>> ELSE <<>>)
    BY <1>0, SlaveStep
  <2>2. rest \in Seq(Nat) /\ Runs(rest, Answered', job.addr) /\ Answered' + Len(rest) = Accepted
        /\ Answered' \in Int
    <3>1. CASE ack
      <4>1. Answered' = Answered + 1
        BY <2>0, <3>1 DEF One
      <4>2. Runs(Tail(slave), Answered + 1, job.addr)
        BY <1>1, <1>3, <2>0, <3>1, RunPop
      <4>3. Tail(slave) \in Seq(Nat) /\ Len(Tail(slave)) = Len(slave) - 1 /\ Len(slave) \in Nat
        BY <1>1, <1>3, <3>1
      <4>4. Answered + 1 + (Len(slave) - 1) = Accepted /\ Answered + 1 \in Int
        BY <2>0, <4>3
      <4> QED BY <3>1, <4>1, <4>2, <4>3, <4>4
    <3>2. CASE ~ack
      <4>1. Answered' = Answered + 0
        BY <2>0, <3>2 DEF One
      <4>2. Answered' = Answered
        BY <2>0, <4>1
      <4> QED BY <1>1, <2>0, <3>2, <4>2
    <3> QED BY <3>1, <3>2
  <2> HIDE DEF rest
  <2>3. RunOf(slave, Answered)'
    <3>1. CASE l2p_stb
      <4>1. slave' = Append(rest, l2p_adr)
        BY <2>1, <2>2, <3>1
      <4>2. l2p_adr = (job.addr + (Answered' + Len(rest))) % AddrSpan
        BY <2>2, <3>1 DEF Pipe, Word
      <4>3. Runs(Append(rest, l2p_adr), Answered', job.addr)
        BY <1>1, <2>2, <4>2, RunPush
      <4> QED BY <1>3, <4>1, <4>3 DEF RunOf
    <3>2. CASE ~l2p_stb
      <4>1. slave' = rest
        BY <2>1, <2>2, <3>2
      <4> QED BY <1>3, <2>2, <4>1 DEF RunOf
    <3> QED BY <3>1, <3>2
  <2>4. RunOf(data_fifo, Popped)'
    <3>1. CASE ack
      <4>1. data_fifo' = Append(data_fifo, Head(slave))
        BY <1>3, <3>1 DEF BusTick
      <4>a. slave # <<>> /\ Head(slave) \in Nat
        BY <1>1, <1>3, <3>1
      <4>b. Head(slave) = (job.addr + Answered) % AddrSpan
        BY <1>1, <2>0, <4>a, RunPop
      <4>2. Head(slave) = (job.addr + (Popped + Len(data_fifo))) % AddrSpan
        BY <2>0, <4>b
      <4>3. Runs(Append(data_fifo, Head(slave)), Popped, job.addr)
        BY <1>1, <2>0, <4>a, <4>2, RunPush
      <4> QED BY <1>3, <2>0, <4>1, <4>3 DEF RunOf
    <3>2. CASE ~ack
      <4>1. data_fifo' = data_fifo
        BY <1>3, <3>2 DEF BusTick
      <4> QED BY <1>3, <2>0, <4>1 DEF RunOf
    <3> QED BY <3>1, <3>2
  <2> QED BY <2>3, <2>4
<1> QED BY <1>4, <1>5, <1>6, <1>7, <1>8, DmaCounts DEF Pipe

-----------------------------------------------------------------------------
(* An edge of clk_i in calm surroundings. *)
Step(start, j, others, wr_rdy, rdy) ==
  /\ PktGen(start, j.len, j.addr \div LowSpan, j.addr % LowSpan)
  /\ FifoRead /\ L2pFsm(FALSE, gnt, wr_rdy, rdy)
  /\ TargetCnt(start, l2p_state = "L2P_IDLE", j.addr % AddrSpan, j.len)
  /\ Grant(others) /\ Receive /\ UNCHANGED <<busVars, slave>>
  /\ start => /\ j \in Jobs /\ ~Running
              /\ job' = [st |-> "run", addr |-> j.addr, len |-> j.len]
              /\ want' = want \cup Addrs(j.addr, j.len)
  /\ ~start => /\ UNCHANGED <<job.addr, job.len>> /\ want' = want
               /\ job.st' = IF Running /\ ldm_done THEN "done" ELSE job.st
  /\ l2p_state \in {"L2P_DATA", "L2P_LAST_DATA"} => rdy
  /\ l2p_state = "L2P_ADDR_L" => data_fifo # <<>>

LEMMA Stepped ==
  ASSUME OInv, Calm, Jobbing, NEW start \in BOOLEAN, NEW others \in BOOLEAN,
         NEW wr_rdy \in BOOLEAN, NEW rdy \in BOOLEAN, NEW j \in Jobs \cup {job},
         Edge(start, j, others, wr_rdy, rdy)
  PROVE  Step(start, j, others, wr_rdy, rdy)
<1>1. Clk(start, j, FALSE, others, wr_rdy, rdy)
  BY DEF Edge, Calm
<1>2. job.st \in {"none", "run", "done"} /\ ~Aborting
  BY DEF Jobbing, Aborting
<1>3. L2pFsm(FALSE, gnt, wr_rdy, rdy)
  <2>1. L2pFsm(Aborting /\ ~start, gnt, wr_rdy, rdy)
    BY <1>1 DEF Clk, PacketTick
  <2>2. (Aborting /\ ~start) = FALSE
    BY <1>2
  <2> QED BY <2>1, <2>2
<1>4. /\ PktGen(start, j.len, j.addr \div LowSpan, j.addr % LowSpan) /\ FifoRead
      /\ TargetCnt(start, l2p_state = "L2P_IDLE", j.addr % AddrSpan, j.len)
      /\ Grant(others) /\ Receive /\ UNCHANGED <<busVars, slave>>
      /\ Follow(start, j, FALSE) /\ Allowed(rdy)
  BY <1>1 DEF Clk, PacketTick
<1>5. start => /\ j \in Jobs /\ ~Running
               /\ job' = [st |-> "run", addr |-> j.addr, len |-> j.len]
               /\ want' = want \cup Addrs(j.addr, j.len)
  BY <1>4 DEF Follow, Edge, Running
<1>6. ~start => /\ UNCHANGED <<job.addr, job.len>> /\ want' = want
                /\ job.st' = IF Running /\ ldm_done THEN "done" ELSE job.st
  <2> SUFFICES ASSUME ~start PROVE /\ UNCHANGED <<job.addr, job.len>> /\ want' = want
                                   /\ job.st' = IF Running /\ ldm_done THEN "done" ELSE job.st
    OBVIOUS
  <2>1. want' = want /\ job' = IF Running /\ ldm_done THEN [job EXCEPT !.st = "done"] ELSE job
    BY <1>2, <1>4 DEF Follow, Jobbing, Aborting
  <2>2. job \in [st : JobStates, addr : Nat, len : Nat]
    BY DEF OInv, OTypes
  <2> QED BY <2>1, <2>2
<1>7. /\ l2p_state \in {"L2P_DATA", "L2P_LAST_DATA"} => rdy
      /\ l2p_state = "L2P_ADDR_L" => data_fifo # <<>>
  BY <1>4 DEF Allowed, Calm
<1> QED BY <1>3, <1>4, <1>5, <1>6, <1>7 DEF Step

(* What the registers hold. *)
LEMMA SizeTypes ==
  Flags => /\ Size \in 1 .. HdrSpan /\ HdrSpan \in Nat \ {0} /\ LowSpan \in Nat \ {0}
           /\ MaxPayload \in 1 .. HdrSpan /\ AddrSpan \in Nat \ {0}
  BY PacketConstants, FetchConstants DEF Flags, Size

(* The header has the size of the packet: modulo the span of its field.    *)
LEMMA LoadedSize ==
  ASSUME Flags, Loaded, l2p_len_cnt \in Nat \ {0}
  PROVE  /\ Size = l2p_data_cnt /\ l2p_data_cnt \in 1 .. MaxPayload
         /\ l2p_last_packet => l2p_len_cnt = Size
         /\ ~l2p_last_packet => l2p_len_cnt > MaxPayload /\ Size = MaxPayload
<1>1. /\ HdrSpan \in Nat \ {0} /\ MaxPayload \in 1 .. HdrSpan
  BY SizeTypes
<1>2. l2p_data_cnt \in 1 .. MaxPayload
  BY <1>1 DEF Loaded
<1>3. Size = l2p_data_cnt
  <2>1. CASE l2p_data_cnt = HdrSpan
    <3>1. \A x \in Nat \ {0} : x % x = 0
      <4>1. \A x \in Nat \ {0} : (x * 1 + 0) % x = 0
        <5> SUFFICES ASSUME NEW x \in Nat \ {0} PROVE (x * 1 + 0) % x = 0
          OBVIOUS
        <5>1. 1 \in Int /\ 0 \in 0 .. x - 1
          OBVIOUS
        <5> QED BY <5>1, ModUnique, Zenon
      <4>2. \A x \in Nat \ {0} : x * 1 + 0 = x
        OBVIOUS
      <4> QED BY <4>1, <4>2
    <3>2. l2p_len_header = 0
      BY <1>1, <2>1, <3>1 DEF Loaded
    <3> QED BY <2>1, <3>2 DEF Size
  <2>2. CASE l2p_data_cnt < HdrSpan
    <3>1. l2p_data_cnt \in 0 .. HdrSpan - 1
      BY <1>1, <1>2, <2>2
    <3>2. l2p_len_header = l2p_data_cnt
      BY <1>1, <3>1, ModSmall DEF Loaded
    <3> QED BY <1>2, <3>2 DEF Size
  <2> QED BY <1>1, <1>2, <2>1, <2>2
<1>4. /\ l2p_last_packet => l2p_len_cnt = Size
      /\ ~l2p_last_packet => l2p_len_cnt > MaxPayload /\ Size = MaxPayload
  BY <1>1, <1>3 DEF Loaded
<1> QED BY <1>2, <1>3, <1>4

(* What the GN4124 has of the packet, with the word on its bus. *)
LEMMA SeenOpen ==
  ASSUME Flags, Bus, Places
  PROVE  /\ l2p_state = "L2P_ADDR_H" =>
              Seen = [phase |-> "high", wide |-> TRUE, len |-> l2p_len_header, base |-> 0,
                      words |-> <<>>]
         /\ l2p_state = "L2P_ADDR_L" =>
              Seen = [phase |-> "low", wide |-> l2p_64b, len |-> l2p_len_header,
                      base |-> IF l2p_64b THEN l2p_address_h * LowSpan ELSE 0, words |-> <<>>]
<1>1. CASE l2p_state = "L2P_ADDR_H"
  <2>1. ldm_valid /\ rx = NoPacket /\ ldm_word = Header(l2p_len_header, TRUE)
    BY <1>1 DEF Bus
  <2> QED BY <1>1, <2>1 DEF Seen, Advance, NoPacket, Header
<1>2. CASE l2p_state = "L2P_ADDR_L" /\ l2p_64b
  <2>1. /\ ldm_valid /\ ldm_word = AddrHigh(l2p_address_h)
        /\ rx = [phase |-> "high", wide |-> TRUE, len |-> l2p_len_header, base |-> 0,
                 words |-> <<>>]
    BY <1>2 DEF Bus
  <2>2. l2p_64b = TRUE
    BY <1>2 DEF Flags
  <2> QED BY <1>2, <2>1, <2>2 DEF Seen, Advance, AddrHigh
<1>3. CASE l2p_state = "L2P_ADDR_L" /\ ~l2p_64b
  <2>1. ldm_valid /\ rx = NoPacket /\ ldm_word = Header(l2p_len_header, FALSE)
    BY <1>3 DEF Bus
  <2>2. l2p_64b = FALSE
    BY <1>3 DEF Flags
  <2> QED BY <1>3, <2>1, <2>2 DEF Seen, Advance, NoPacket, Header
<1> QED BY <1>1, <1>2, <1>3

(* The GN4124 takes every word of a packet, and the packet with its last.  *)
LEMMA Received ==
  ASSUME OInv, Flags, Jobbing, Places, Bus, Receive
  PROVE  /\ ~malformed'
         /\ Closing => rx' = NoPacket /\ host' = Written(Seen)
         /\ ~Closing => rx' = Seen /\ host' = host
<1>1. ~ldm_edb /\ ~malformed /\ (ldm_valid => Expected(rx, ldm_word))
  BY DEF Jobbing, Bus
<1>2. ldm_valid => gnt
  BY DEF Bus
<1> DEFINE full == Len(Seen.words) = Length(Seen)
<1>3. CASE ~ldm_valid
  <2>1. rx' = rx /\ host' = host /\ malformed' = malformed
    BY <1>1, <1>3 DEF Receive
  <2> QED BY <1>1, <1>3, <2>1 DEF Seen, Closing
<1>4. CASE ldm_valid
  <2>1. Seen = Advance(rx, ldm_word)
    BY <1>4 DEF Seen
  <2>2. \/ ldm_dframe # ~full /\ malformed' = TRUE
        \/ ldm_dframe = ~full /\ ldm_dframe /\ rx' = Seen /\ UNCHANGED <<malformed, host>>
        \/ ldm_dframe = ~full /\ ~ldm_dframe /\ rx' = NoPacket /\ host' = Written(Seen)
           /\ UNCHANGED malformed
    BY <1>1, <1>2, <1>4, <2>1 DEF Receive
  <2>3. Closing => full
    BY DEF Bus
  <2>4. ~Closing => ~full
    <3> SUFFICES ASSUME ~Closing PROVE ~full
      OBVIOUS
    <3>1. l2p_state \in {"L2P_ADDR_H", "L2P_ADDR_L"} \cup Inside
      BY <1>4 DEF Bus, Places, Opening
    <3>2. CASE l2p_state \in {"L2P_ADDR_H", "L2P_ADDR_L"}
      <4>1. Seen.words = <<>> /\ Seen.len = l2p_len_header
        BY <3>2, SeenOpen
      <4>2. Length(Seen) = Size /\ Size \in 1 .. HdrSpan
        BY <4>1, SizeTypes DEF Length, Size
      <4> QED BY <4>1, <4>2
    <3>3. CASE l2p_state \in Inside
      <4>1. Seen.len = l2p_len_header /\ Len(Seen.words) = Size - l2p_data_cnt
        BY <3>3 DEF Bus
      <4>2. Length(Seen) = Size /\ Size \in 1 .. HdrSpan /\ l2p_data_cnt \in 1 .. Size
        BY <3>3, <4>1, SizeTypes DEF Length, Size, Places
      <4> QED BY <4>1, <4>2, SizeTypes
    <3> QED BY <3>1, <3>2, <3>3
  <2>5. ldm_dframe <=> ~full
    BY <1>4, <2>3, <2>4 DEF Closing
  <2> HIDE DEF full
  <2>6. ldm_dframe = ~full
    BY <2>5 DEF Flags
  <2> QED BY <1>1, <1>4, <2>2, <2>6 DEF Closing
<1> QED BY <1>3, <1>4

-----------------------------------------------------------------------------
Here == OInv /\ Flags /\ Pipe /\ Jobbing /\ Places /\ Bus
There == /\ Jobbing' /\ Places' /\ Bus'
         /\ Stored' = IF Closing THEN job.len - l2p_len_cnt ELSE Stored

(* The flags stay Boolean. *)
LEMMA FlagsClk ==
  ASSUME Here, NEW start \in BOOLEAN, NEW others \in BOOLEAN, NEW wr_rdy \in BOOLEAN,
         NEW rdy \in BOOLEAN, NEW j, Step(start, j, others, wr_rdy, rdy)
  PROVE  Flags'
<1>0. /\ addr_fifo_wr \in BOOLEAN /\ data_fifo_valid \in BOOLEAN /\ data_fifo_rd \in BOOLEAN
      /\ gnt \in BOOLEAN /\ ldm_req \in BOOLEAN /\ ldm_valid \in BOOLEAN /\ ldm_dframe \in BOOLEAN
      /\ ldm_done \in BOOLEAN /\ l2p_64b \in BOOLEAN /\ l2p_last_packet \in BOOLEAN
      /\ l2p_len_header \in 0 .. HdrSpan - 1
  BY DEF Here, Flags
<1>1. addr_fifo_wr' \in BOOLEAN
  BY <1>0, Zenon DEF Step, TargetCnt
<1>2. data_fifo_valid' \in BOOLEAN
  BY <1>0, Zenon DEF Step, FifoRead
<1>3. gnt' \in BOOLEAN
  BY <1>0, Zenon DEF Step, Grant
<1>4. L2pFsm(FALSE, gnt, wr_rdy, rdy)
  BY DEF Step
<1>5. data_fifo_rd' \in BOOLEAN /\ ldm_req' \in BOOLEAN
  BY <1>0, <1>4, Zenon DEF L2pFsm, L2pIdle, L2pHeader, L2pAddrH, L2pAddrL, L2pData, L2pWaitRdy,
     L2pWaitData, L2pLastData
<1>6. ldm_valid' \in BOOLEAN /\ ldm_dframe' \in BOOLEAN /\ ldm_done' \in BOOLEAN
  BY <1>0, <1>4, Zenon DEF L2pFsm, L2pIdle, L2pHeader, L2pAddrH, L2pAddrL, L2pData, L2pWaitRdy,
     L2pWaitData, L2pLastData
<1>7. LoadSize => l2p_last_packet' \in BOOLEAN /\ l2p_len_header' \in 0 .. HdrSpan - 1
  <2>1. l2p_len_cnt \in Nat
    BY DEF Here, Jobbing, OInv, OTypes
  <2>2. HdrSpan \in Nat \ {0} /\ MaxPayload \in Nat
    BY PacketConstants
  <2>3. \A x \in Int : x % HdrSpan \in 0 .. HdrSpan - 1
    BY <2>2, DivMod
  <2> QED BY <2>1, <2>2, <2>3 DEF LoadSize
<1>8. /\ l2p_last_packet' \in BOOLEAN /\ l2p_len_header' \in 0 .. HdrSpan - 1
      /\ l2p_64b' \in BOOLEAN
  <2>1. PktGen(start, j.len, j.addr \div LowSpan, j.addr % LowSpan)
    BY DEF Step
  <2>2. \/ LoadSize \/ UNCHANGED <<l2p_last_packet, l2p_len_header>>
    BY <2>1 DEF PktGen, NextPacket, pktVars
  <2>3. l2p_64b' \in BOOLEAN
    BY <1>0, <2>1, Zenon DEF PktGen, NextPacket, pktVars
  <2> QED BY <1>0, <1>7, <2>2, <2>3
<1> QED BY <1>1, <1>2, <1>3, <1>5, <1>6, <1>8 DEF Flags

(* What every edge without a start does to the job and to the counts. *)
JobStep == /\ job.addr' = job.addr /\ job.len' = job.len
           /\ job.st' = IF Running /\ ldm_done THEN "done" ELSE job.st
           /\ ~ldm_error' /\ ~malformed'
           /\ data_fifo_valid' = (data_fifo_rd /\ data_fifo # <<>>)
           /\ Popped' = IF data_fifo_rd /\ data_fifo # <<>> THEN Popped + 1 ELSE Popped
           /\ job.len \in Nat /\ job.addr \in Nat /\ Popped \in Nat
           /\ Closing => rx' = NoPacket
           /\ ~Closing => rx' = Seen

LEMMA StepJob ==
  ASSUME Here, NEW others \in BOOLEAN, NEW wr_rdy \in BOOLEAN,
         NEW rdy \in BOOLEAN, NEW j, Step(FALSE, j, others, wr_rdy, rdy)
  PROVE  JobStep
<1> USE DEF Here
<1>1. UNCHANGED <<job.addr, job.len>> /\ job.st' = IF Running /\ ldm_done THEN "done" ELSE job.st
  BY DEF Step
<1>2. ~ldm_error'
  BY DEF Step, TargetCnt, Jobbing
<1>3. job.len \in Nat /\ job.addr \in Nat /\ Popped \in Nat
  BY DEF OInv, OTypes, Pipe
<1>4. data_fifo_valid' = (data_fifo_rd /\ data_fifo # <<>>)
  BY Zenon DEF Step, FifoRead
<1>5. Popped' = IF data_fifo_rd /\ data_fifo # <<>> THEN Popped + 1 ELSE Popped
  <2>1. /\ FifoRead /\ UNCHANGED <<busVars, slave>>
        /\ TargetCnt(FALSE, l2p_state = "L2P_IDLE", j.addr % AddrSpan, j.len)
    BY DEF Step
  <2>2. (l2p_state = "L2P_IDLE") \in BOOLEAN
    OBVIOUS
  <2> HIDE DEF Here
  <2> DEFINE idle == l2p_state = "L2P_IDLE"
  <2>3. Popped' = Popped + One(data_fifo_rd /\ data_fifo # <<>>)
    BY <1>1, <2>1, <2>2, ClkCounts DEF Here
  <2> QED BY <1>3, <2>3 DEF One
<1>6. ~malformed' /\ (Closing => rx' = NoPacket) /\ (~Closing => rx' = Seen)
  BY Received DEF Step
<1> QED BY <1>1, <1>2, <1>3, <1>4, <1>5, <1>6 DEF JobStep

(* L2P_IDLE: the packet generator waits for the first word of a job. *)
LEMMA IdleStep ==
  ASSUME Here, Flags', NEW others \in BOOLEAN, NEW wr_rdy \in BOOLEAN,
         NEW rdy \in BOOLEAN, NEW j, Step(FALSE, j, others, wr_rdy, rdy), l2p_state = "L2P_IDLE"
  PROVE  There
<1>0. JobStep
  BY StepJob
<1>1. /\ UNCHANGED pktVars
      /\ ~data_fifo_rd' /\ ~ldm_done' /\ ~ldm_edb' /\ ~ldm_valid' /\ ~ldm_dframe'
      /\ data_fifo # <<>> => l2p_state' = "L2P_HEADER" /\ ldm_req'
      /\ data_fifo = <<>> => l2p_state' = "L2P_IDLE" /\ ldm_req' = ldm_req
  BY DEF Step, PktGen, L2pFsm, L2pIdle, L2pHeader, L2pAddrH, L2pAddrL, L2pData, L2pWaitRdy,
     L2pWaitData, L2pLastData
<1>2. ~ldm_req /\ ~data_fifo_rd /\ (ldm_valid => Closing) /\ (gnt => Closing)
  BY DEF Here, Bus, Places
<1>3. Popped' = Popped /\ Popped = job.len - l2p_len_cnt /\ l2p_len_cnt \in {0, job.len}
  BY <1>0, <1>2 DEF JobStep, Here, Places
<1>4. rx' = NoPacket
  <2>1. CASE Closing
    BY <1>0, <2>1 DEF JobStep
  <2>2. CASE ~Closing
    <3>1. ~ldm_valid /\ rx = NoPacket
      BY <1>2, <2>2 DEF Here, Bus
    <3> QED BY <1>0, <2>2, <3>1 DEF Seen, JobStep
  <2> QED BY <2>1, <2>2
<1>5. ~gnt'
  BY <1>2 DEF Step, Grant, Closing, Here, Flags
<1>6. l2p_len_cnt = 0 => data_fifo = <<>>
  <2> SUFFICES ASSUME l2p_len_cnt = 0 PROVE data_fifo = <<>>
    OBVIOUS
  <2>1. Popped = job.len
    BY <1>0, <1>3 DEF JobStep
  <2> QED BY <2>1, Drained DEF Here
<1>7. /\ l2p_len_cnt' = l2p_len_cnt /\ l2p_len_cnt \in 0 .. job.len /\ job.len \in Nat
      /\ At = job.len - l2p_len_cnt /\ At' = At
      /\ l2p_address_h' = l2p_address_h /\ l2p_address_l' = l2p_address_l
  <2>1. /\ l2p_len_cnt' = l2p_len_cnt
        /\ l2p_address_h' = l2p_address_h /\ l2p_address_l' = l2p_address_l
    BY <1>1 DEF pktVars
  <2>2. l2p_len_cnt \in 0 .. job.len /\ job.len \in Nat /\ job.len' = job.len
    BY <1>0 DEF JobStep, Here, Jobbing
  <2>3. l2p_state \notin Inside /\ l2p_state' \notin Inside
    BY <1>1 DEF Inside
  <2>4. At = job.len - l2p_len_cnt
    BY <2>2, <2>3 DEF At, Left
  <2>5. At' = job.len' - l2p_len_cnt'
    <3>1. Left' = l2p_len_cnt' + 0
      BY <2>3 DEF Left
    <3>2. l2p_len_cnt' + 0 = l2p_len_cnt'
      BY <2>1, <2>2
    <3> QED BY <3>1, <3>2 DEF At
  <2> QED BY <2>1, <2>2, <2>4, <2>5
<1>8. Jobbing'
  <2>1. ldm_done => l2p_len_cnt = 0
    BY DEF Here, Jobbing
  <2>2. ~Running => l2p_len_cnt = 0
    BY DEF Here, Jobbing
  <2>3. ~Running' => l2p_len_cnt = 0
    BY <1>0, <2>1, <2>2 DEF Running, JobStep
  <2>4. job.st' \in {"none", "run", "done"}
    BY <1>0 DEF Here, Jobbing, JobStep
  <2>5. l2p_state' # "L2P_IDLE" \/ l2p_len_cnt # 0 =>
          l2p_address_h = job.addr \div LowSpan /\ l2p_address_l = (job.addr % LowSpan) + At
    BY <1>1, <1>6 DEF Here, Jobbing
  <2>7. job.addr \in 0 .. HostSpan - 1 /\ (job.addr % LowSpan) + job.len <= LowSpan
    BY DEF Here, Jobbing
  <2>8. job.addr' = job.addr /\ job.len' = job.len /\ ~ldm_error'
    BY <1>0 DEF JobStep
  <2> QED BY <1>1, <1>6, <1>7, <2>3, <2>4, <2>5, <2>7, <2>8 DEF Jobbing
<1>9. Places'
  BY <1>0, <1>1, <1>3, <1>5, <1>6, <1>7 DEF JobStep, Places, Opening, Inside
<1>10. Bus'
  <2>1. ldm_req' <=> l2p_state' = "L2P_HEADER"
    <3>1. CASE data_fifo # <<>>
      BY <1>1, <3>1, Zenon
    <3>2. CASE data_fifo = <<>>
      <4>1. l2p_state' # "L2P_HEADER" /\ ~ldm_req'
        BY <1>1, <1>2, <3>2
      <4> QED BY <4>1
    <3> QED BY <3>1, <3>2
  <2>2. l2p_state' \in {"L2P_IDLE", "L2P_HEADER"} /\ ~malformed' /\ ~Closing'
    BY <1>0, <1>1 DEF JobStep, Closing
  <2>3. l2p_state' # "L2P_ADDR_H" /\ l2p_state' # "L2P_ADDR_L" /\ l2p_state' \notin Inside
    BY <2>2 DEF Inside
  <2> QED BY <1>1, <1>4, <1>5, <2>1, <2>2, <2>3 DEF Bus
<1>11. Stored' = IF Closing THEN job.len - l2p_len_cnt ELSE Stored
  BY <1>1, <1>7 DEF Stored, Closing
<1> QED BY <1>8, <1>9, <1>10, <1>11 DEF There

(* While a packet is on its way the job stays, and the address register    *)
(* points to where the packet begins.                                      *)
LEMMA JobKept ==
  ASSUME Here, JobStep, l2p_state # "L2P_IDLE", l2p_state' # "L2P_IDLE",
         l2p_len_cnt' \in 0 .. job.len, ~ldm_done', ~ldm_edb',
         l2p_address_h' = l2p_address_h, l2p_address_l' = (job.addr % LowSpan) + At'
  PROVE  Jobbing'
<1>1. Running /\ ~ldm_done
  BY DEF Here, Jobbing
<1>2. Running' /\ job.st' = "run"
  BY <1>1 DEF JobStep, Running
<1>3. job.addr \in 0 .. HostSpan - 1 /\ (job.addr % LowSpan) + job.len <= LowSpan
  BY DEF Here, Jobbing
<1>4. l2p_address_h = job.addr \div LowSpan
  BY DEF Here, Jobbing
<1> QED BY <1>2, <1>3, <1>4 DEF JobStep, Jobbing

(* L2P_HEADER: the header goes out when the arbiter grants the bus, and    *)
(* the size it announces has been loaded by then.                          *)
LEMMA HeaderStep ==
  ASSUME Here, Flags', NEW others \in BOOLEAN, NEW wr_rdy \in BOOLEAN,
         NEW rdy \in BOOLEAN, NEW j, Step(FALSE, j, others, wr_rdy, rdy), l2p_state = "L2P_HEADER"
  PROVE  There
<1>0. JobStep
  BY StepJob
<1>1. /\ LoadSize /\ l2p_64b' = (l2p_address_h # 0)
      /\ UNCHANGED <<l2p_len_cnt, l2p_address_l, l2p_address_h>>
      /\ UNCHANGED <<ldm_done, ldm_edb>>
      /\ \/ /\ gnt /\ wr_rdy /\ ~ldm_req' /\ ldm_valid' /\ ldm_dframe'
            /\ ldm_word' = Header(l2p_len_header, l2p_64b)
            /\ l2p_64b => l2p_state' = "L2P_ADDR_H" /\ data_fifo_rd' = data_fifo_rd
            /\ ~l2p_64b => l2p_state' = "L2P_ADDR_L" /\ data_fifo_rd'
         \/ /\ ~ldm_valid' /\ l2p_state' = "L2P_HEADER" /\ ldm_req' = ldm_req
            /\ data_fifo_rd' = data_fifo_rd
  BY DEF Step, PktGen, L2pFsm, L2pIdle, L2pHeader, L2pAddrH, L2pAddrL, L2pData, L2pWaitRdy,
     L2pWaitData, L2pLastData
<1>2. /\ ldm_req /\ ~data_fifo_rd /\ (ldm_valid => Closing) /\ ~ldm_done /\ ~ldm_edb
      /\ gnt => Loaded
      /\ Popped = job.len - l2p_len_cnt /\ l2p_len_cnt # 0
  BY DEF Here, Bus, Places, Opening, Jobbing
<1>3. Popped' = Popped /\ l2p_len_cnt' = l2p_len_cnt /\ job.len' = job.len
  BY <1>0, <1>1, <1>2 DEF JobStep
<1>4. rx' = NoPacket
  <2>1. CASE Closing
    BY <1>0, <2>1 DEF JobStep
  <2>2. CASE ~Closing
    <3>1. ~ldm_valid /\ rx = NoPacket
      BY <1>2, <2>2 DEF Here, Bus
    <3> QED BY <1>0, <2>2, <3>1 DEF Seen, JobStep
  <2> QED BY <2>1, <2>2
<1>5. gnt => gnt'
  BY <1>2, Zenon DEF Step, Grant, Here, Flags
<1>6. l2p_state' \in Opening /\ l2p_state' # "L2P_IDLE"
  BY <1>1 DEF Opening, Flags
<1>7. At = job.len - l2p_len_cnt /\ At' = At /\ l2p_len_cnt \in 0 .. job.len
  <2>2. l2p_len_cnt \in 0 .. job.len /\ job.len \in Nat
    BY <1>0 DEF JobStep, Here, Jobbing
  <2>3. l2p_state \notin Inside /\ l2p_state' \notin Inside
    BY <1>6 DEF Inside, Opening
  <2>4. At = job.len - l2p_len_cnt
    BY <2>2, <2>3 DEF At, Left
  <2>5. At' = job.len' - l2p_len_cnt'
    <3>1. Left' = l2p_len_cnt' + 0
      BY <2>3 DEF Left
    <3>2. l2p_len_cnt' + 0 = l2p_len_cnt'
      BY <1>3, <2>2
    <3> QED BY <3>1, <3>2 DEF At
  <2> QED BY <1>3, <2>2, <2>4, <2>5
<1>8. Jobbing'
  <2>1. l2p_address_l = (job.addr % LowSpan) + At
    BY DEF Here, Jobbing
  <2> QED BY <1>0, <1>1, <1>2, <1>3, <1>6, <1>7, <2>1, JobKept
<1>9. Loaded'
  <2>1. l2p_last_packet' <=> l2p_len_cnt <= MaxPayload
    BY <1>1 DEF LoadSize
  <2>2. l2p_64b' <=> l2p_address_h # 0
    BY <1>1
  <2>3. /\ l2p_data_cnt' = IF l2p_len_cnt > MaxPayload THEN MaxPayload ELSE l2p_len_cnt
        /\ l2p_len_header' = l2p_data_cnt' % HdrSpan
    BY <1>1 DEF LoadSize
  <2> QED BY <1>1, <2>1, <2>2, <2>3 DEF Loaded
<1>10. gnt => l2p_len_header' = l2p_len_header /\ l2p_64b' = l2p_64b
  <2> SUFFICES ASSUME gnt PROVE l2p_len_header' = l2p_len_header /\ l2p_64b' = l2p_64b
    OBVIOUS
  <2>1. l2p_data_cnt' = l2p_data_cnt
    BY <1>1, <1>2 DEF LoadSize, Loaded
  <2>2. l2p_len_header' = l2p_len_header
    BY <1>1, <1>2, <2>1 DEF LoadSize, Loaded
  <2>3. l2p_64b' <=> l2p_64b
    BY <1>1, <1>2 DEF Loaded
  <2> QED BY <2>2, <2>3, Zenon DEF Here, Flags
<1>11. Places' /\ Bus' /\ ~Closing'
  <2>1. CASE /\ gnt /\ ~ldm_req' /\ ldm_valid' /\ ldm_dframe'
             /\ ldm_word' = Header(l2p_len_header, l2p_64b)
             /\ l2p_64b => l2p_state' = "L2P_ADDR_H" /\ data_fifo_rd' = data_fifo_rd
             /\ ~l2p_64b => l2p_state' = "L2P_ADDR_L" /\ data_fifo_rd'
    <3>1. l2p_64b' => l2p_state' = "L2P_ADDR_H" /\ ~data_fifo_rd'
      BY <1>2, <1>10, <2>1
    <3>2. ~l2p_64b' => l2p_state' = "L2P_ADDR_L" /\ data_fifo_rd'
      BY <1>10, <2>1
    <3>3. Places'
      <4>1. Popped' = job.len' - l2p_len_cnt' /\ l2p_len_cnt' # 0
        BY <1>2, <1>3
      <4>2. data_fifo_rd' <=> l2p_state' = "L2P_ADDR_L"
        BY <3>1, <3>2
      <4>3. l2p_state' = "L2P_ADDR_H" => l2p_64b'
        BY <3>1, <3>2
      <4>4. l2p_state' \notin Inside
        BY <1>6 DEF Inside, Opening
      <4> QED BY <1>6, <1>9, <4>1, <4>2, <4>3, <4>4 DEF Places
    <3>4. ldm_word' = Header(l2p_len_header', l2p_64b') /\ gnt'
      BY <1>5, <1>10, <2>1
    <3>5. Expected(rx, ldm_word)' /\ ~Closing' /\ ~malformed'
      BY <1>0, <1>4, <2>1, <3>4 DEF Expected, NoPacket, Header, Closing, JobStep
    <3>6. l2p_64b' => ldm_word' = Header(l2p_len_header', TRUE)
      BY <3>4 DEF Flags
    <3>7. ~l2p_64b' => ldm_word' = Header(l2p_len_header', FALSE)
      BY <3>4 DEF Flags
    <3>8. l2p_state' \in {"L2P_ADDR_H", "L2P_ADDR_L"} /\ l2p_state' \notin Inside
      BY <3>1, <3>2 DEF Inside
    <3>9. Bus'
      <4> HIDE DEF Inside
      <4> QED BY <1>4, <2>1, <3>1, <3>2, <3>4, <3>5, <3>6, <3>7, <3>8 DEF Bus
    <3> QED BY <3>3, <3>5, <3>9
  <2>2. CASE /\ ~ldm_valid' /\ l2p_state' = "L2P_HEADER" /\ ldm_req' = ldm_req
             /\ data_fifo_rd' = data_fifo_rd
    <3>1. ldm_req' /\ ~data_fifo_rd'
      BY <1>2, <2>2
    <3>2. l2p_state' \notin Inside
      BY <2>2 DEF Inside
    <3>3. Places'
      BY <1>2, <1>3, <1>9, <2>2, <3>1, <3>2 DEF Places, Opening
    <3>4. ~Closing' /\ ~malformed'
      BY <1>0, <2>2 DEF Closing, JobStep
    <3>5. Bus'
      BY <1>4, <2>2, <3>1, <3>2, <3>4 DEF Bus
    <3> QED BY <3>3, <3>4, <3>5
  <2> QED BY <1>1, <2>1, <2>2
<1>12. Stored' = IF Closing THEN job.len - l2p_len_cnt ELSE Stored
  BY <1>7, <1>11 DEF Stored
<1> QED BY <1>8, <1>11, <1>12 DEF There

(* L2P_ADDR_H: the high half of a 64-bit address. *)
LEMMA AddrHStep ==
  ASSUME Here, Flags', NEW others \in BOOLEAN, NEW wr_rdy \in BOOLEAN,
         NEW rdy \in BOOLEAN, NEW j, Step(FALSE, j, others, wr_rdy, rdy), l2p_state = "L2P_ADDR_H"
  PROVE  There
<1>0. JobStep
  BY StepJob
<1>1. /\ UNCHANGED pktVars /\ UNCHANGED <<ldm_done, ldm_edb, ldm_req>>
      /\ ldm_valid' = ldm_valid /\ ldm_dframe' = ldm_dframe
      /\ l2p_state' = "L2P_ADDR_L" /\ data_fifo_rd' /\ ldm_word' = AddrHigh(l2p_address_h)
  BY DEF Step, PktGen, L2pFsm, L2pIdle, L2pHeader, L2pAddrH, L2pAddrL, L2pData, L2pWaitRdy,
     L2pWaitData, L2pLastData
<1>2. /\ ~ldm_req /\ ~data_fifo_rd /\ ldm_valid /\ ldm_dframe /\ gnt /\ Loaded
      /\ Popped = job.len - l2p_len_cnt /\ l2p_len_cnt # 0 /\ l2p_64b
      /\ ~ldm_done /\ ~ldm_edb
  BY DEF Here, Bus, Places, Opening, Jobbing
<1>3. Popped' = Popped /\ l2p_len_cnt' = l2p_len_cnt /\ job.len' = job.len
  BY <1>0, <1>1, <1>2 DEF JobStep, pktVars
<1>4. rx' = [phase |-> "high", wide |-> TRUE, len |-> l2p_len_header, base |-> 0, words |-> <<>>]
  <2>1. ~Closing
    BY <1>2 DEF Closing
  <2> QED BY <1>0, <2>1, SeenOpen DEF JobStep, Here
<1>5. gnt'
  BY <1>2 DEF Step, Grant
<1>6. l2p_address_h' = l2p_address_h /\ l2p_address_l' = l2p_address_l
  BY <1>1 DEF pktVars
<1>7. At = job.len - l2p_len_cnt /\ At' = At /\ l2p_len_cnt \in 0 .. job.len
  <2>2. l2p_len_cnt \in 0 .. job.len /\ job.len \in Nat
    BY <1>0 DEF JobStep, Here, Jobbing
  <2>3. l2p_state \notin Inside /\ l2p_state' \notin Inside
    BY <1>1 DEF Inside
  <2>4. At = job.len - l2p_len_cnt
    BY <2>2, <2>3 DEF At, Left
  <2>5. At' = job.len' - l2p_len_cnt'
    <3>1. Left' = l2p_len_cnt' + 0
      BY <2>3 DEF Left
    <3>2. l2p_len_cnt' + 0 = l2p_len_cnt'
      BY <1>3, <2>2
    <3> QED BY <3>1, <3>2 DEF At
  <2> QED BY <1>3, <2>2, <2>4, <2>5
<1>8. Jobbing'
  <2>1. l2p_address_l = (job.addr % LowSpan) + At
    BY DEF Here, Jobbing
  <2>2. ~ldm_done' /\ ~ldm_edb' /\ l2p_state' # "L2P_IDLE"
    BY <1>1, <1>2
  <2> QED BY <1>0, <1>3, <1>6, <1>7, <2>1, <2>2, JobKept
<1>9. Loaded' /\ l2p_64b' = l2p_64b
  BY <1>1, <1>2 DEF Loaded, pktVars
<1>10. Places'
  <2>1. l2p_state' \notin Inside
    BY <1>1 DEF Inside
  <2> QED BY <1>1, <1>2, <1>3, <1>9, <2>1 DEF Places, Opening
<1>11. ~Closing'
  BY <1>1, <1>2 DEF Closing
<1>12. Bus'
  <2>1. l2p_state' \notin Inside
    BY <1>1 DEF Inside
  <2>2. Expected(rx, ldm_word)'
    BY <1>1, <1>4 DEF Expected, AddrHigh
  <2>3. ldm_word' = AddrHigh(l2p_address_h')
    BY <1>1, <1>6
  <2>4. l2p_len_header' = l2p_len_header
    BY <1>1 DEF pktVars
  <2>5. l2p_64b' /\ ~malformed' /\ ldm_valid' /\ ldm_dframe' /\ ~ldm_req'
    BY <1>0, <1>1, <1>2, <1>9 DEF JobStep
  <2> QED BY <1>1, <1>4, <1>5, <1>11, <2>1, <2>2, <2>3, <2>4, <2>5 DEF Bus
<1>13. Stored' = IF Closing THEN job.len - l2p_len_cnt ELSE Stored
  BY <1>2, <1>7, <1>11 DEF Stored, Closing
<1> QED BY <1>8, <1>10, <1>12, <1>13 DEF There

(* L2P_ADDR_L: the low half of the address, and the first word is read.    *)
LEMMA AddrLStep ==
  ASSUME Here, Flags', NEW others \in BOOLEAN, NEW wr_rdy \in BOOLEAN,
         NEW rdy \in BOOLEAN, NEW j, Step(FALSE, j, others, wr_rdy, rdy), l2p_state = "L2P_ADDR_L"
  PROVE  There
<1>0. JobStep
  BY StepJob
<1>1. /\ l2p_len_cnt' = IF l2p_last_packet THEN 0 ELSE l2p_len_cnt - MaxPayload
      /\ UNCHANGED <<l2p_address_l, l2p_address_h, l2p_data_cnt, l2p_64b,
                      l2p_len_header, l2p_last_packet>>
      /\ UNCHANGED <<ldm_done, ldm_edb, ldm_req>>
      /\ ldm_valid' = ldm_valid /\ ldm_dframe' = ldm_dframe
      /\ ldm_word' = AddrLow(l2p_address_l) /\ data_fifo # <<>>
      /\ l2p_data_cnt <= 1 => l2p_state' = "L2P_LAST_DATA" /\ ~data_fifo_rd'
      /\ ~(l2p_data_cnt <= 1) => l2p_state' = "L2P_DATA" /\ data_fifo_rd' = data_fifo_rd
  BY DEF Step, PktGen, L2pFsm, L2pIdle, L2pHeader, L2pAddrH, L2pAddrL, L2pData, L2pWaitRdy,
     L2pWaitData, L2pLastData
<1>2. /\ ~ldm_req /\ data_fifo_rd /\ ldm_valid /\ ldm_dframe /\ gnt /\ Loaded
      /\ Popped = job.len - l2p_len_cnt /\ l2p_len_cnt # 0
      /\ ~ldm_done /\ ~ldm_edb
  BY DEF Here, Bus, Places, Opening, Jobbing
<1>3. Popped' = Popped + 1 /\ data_fifo_valid' /\ job.len' = job.len /\ job.addr' = job.addr
  BY <1>0, <1>1, <1>2 DEF JobStep
<1>4. /\ l2p_len_cnt \in 0 .. job.len /\ job.len \in Nat /\ l2p_len_cnt \in Nat \ {0}
      /\ job.addr \in Nat /\ Popped \in Nat
  BY <1>0, <1>2 DEF JobStep, Here, Jobbing
<1>5. /\ Size = l2p_data_cnt /\ l2p_data_cnt \in 1 .. MaxPayload /\ MaxPayload \in Nat
      /\ l2p_last_packet => l2p_len_cnt = Size
      /\ ~l2p_last_packet => l2p_len_cnt > MaxPayload /\ Size = MaxPayload
  BY <1>2, <1>4, LoadedSize, SizeTypes DEF Here
<1>6. Size' = Size
  BY <1>1 DEF Size
<1>7. /\ l2p_len_cnt' \in Nat /\ l2p_len_cnt' + Size = l2p_len_cnt
      /\ (l2p_last_packet <=> l2p_len_cnt' = 0)
  <2>1. CASE l2p_last_packet
    BY <1>1, <1>4, <1>5, <2>1
  <2>2. CASE ~l2p_last_packet
    <3>1. l2p_len_cnt' = l2p_len_cnt - MaxPayload
      BY <1>1, <2>2
    <3> QED BY <1>4, <1>5, <2>2, <3>1
  <2> QED BY <2>1, <2>2
<1>8. /\ l2p_state' \in {"L2P_DATA", "L2P_LAST_DATA"} /\ l2p_state' \in Inside
      /\ l2p_state' # "L2P_IDLE" /\ l2p_state' \notin Opening
  BY <1>1 DEF Inside, Opening
<1>9. Left' = l2p_len_cnt /\ At = job.len - l2p_len_cnt /\ At' = At
  <2>1. Left' = l2p_len_cnt' + Size'
    BY <1>8 DEF Left
  <2>2. Left' = l2p_len_cnt
    BY <1>6, <1>7, <2>1
  <2>3. l2p_state \notin Inside
    BY DEF Inside
  <2>4. At = job.len - l2p_len_cnt
    BY <1>4, <2>3 DEF At, Left
  <2> QED BY <1>3, <2>2, <2>4 DEF At
<1>10. Jobbing'
  <2>1. l2p_address_l = (job.addr % LowSpan) + At
    BY DEF Here, Jobbing
  <2>2. ~ldm_done' /\ ~ldm_edb'
    BY <1>1, <1>2
  <2>3. l2p_len_cnt' \in 0 .. job.len
    <3>1. PICK n \in Nat : n = l2p_len_cnt'
      BY <1>7
    <3>2. n + l2p_data_cnt = l2p_len_cnt
      BY <1>5, <1>7, <3>1
    <3>3. n \in 0 .. job.len
      BY <1>4, <1>5, <3>2
    <3> QED BY <3>1, <3>3
  <2> QED BY <1>0, <1>1, <1>8, <1>9, <2>1, <2>2, <2>3, JobKept
<1>11. Places'
  <2>1. l2p_data_cnt' \in 1 .. Size' /\ Size' <= MaxPayload /\ Left' <= job.len'
    BY <1>1, <1>3, <1>4, <1>5, <1>6, <1>9
  <2>2. (l2p_last_packet' <=> l2p_len_cnt' = 0) /\ (l2p_64b' <=> l2p_address_h' # 0)
    BY <1>1, <1>2, <1>7 DEF Loaded
  <2>3. ~l2p_last_packet' => Size' = MaxPayload
    BY <1>1, <1>5, <1>6
  <2>4. Popped' = (job.len' - l2p_len_cnt') - l2p_data_cnt' + One(data_fifo_valid')
    <3>1. One(data_fifo_valid') = 1
      BY <1>3 DEF One
    <3>2. l2p_data_cnt' = l2p_data_cnt
      BY <1>1
    <3>3. PICK n \in Nat : n = l2p_len_cnt'
      BY <1>7
    <3>4. n + l2p_data_cnt = l2p_len_cnt
      BY <1>5, <1>7, <3>3
    <3>5. Popped + 1 = (job.len - n) - l2p_data_cnt + 1
      BY <1>2, <1>4, <1>5, <3>4
    <3> QED BY <1>3, <3>1, <3>2, <3>3, <3>5
  <2>5. /\ (data_fifo_rd' <=> l2p_state' # "L2P_LAST_DATA")
        /\ (data_fifo_valid' <=> l2p_state' # "L2P_WAIT_DATA")
        /\ l2p_state' = "L2P_DATA" => l2p_data_cnt' > 1
        /\ l2p_state' = "L2P_LAST_DATA" => l2p_data_cnt' = 1
    <3>1. CASE l2p_data_cnt <= 1
      <4>1. l2p_data_cnt' = 1 /\ l2p_state' = "L2P_LAST_DATA" /\ ~data_fifo_rd'
        BY <1>1, <1>5, <3>1
      <4> QED BY <1>3, <4>1
    <3>2. CASE ~(l2p_data_cnt <= 1)
      <4>1. l2p_data_cnt' > 1 /\ l2p_state' = "L2P_DATA"
        BY <1>1, <1>5, <3>2
      <4>2. data_fifo_rd'
        BY <1>1, <1>2, <3>2
      <4> QED BY <1>3, <4>1, <4>2
    <3> QED BY <3>1, <3>2
  <2> QED BY <1>8, <2>1, <2>2, <2>3, <2>4, <2>5 DEF Places
<1>12. ~Closing
  BY <1>2 DEF Closing
<1>13. rx' = [phase |-> "low", wide |-> l2p_64b, len |-> l2p_len_header,
               base |-> IF l2p_64b THEN l2p_address_h * LowSpan ELSE 0, words |-> <<>>]
  BY <1>0, <1>12, SeenOpen DEF JobStep, Here
<1>14. gnt' /\ ldm_valid' /\ ldm_dframe' /\ ~Closing' /\ ~ldm_req'
  BY <1>1, <1>2 DEF Step, Grant, Closing
<1>15. Expected(rx, ldm_word)'
  BY <1>1, <1>13 DEF Expected, AddrLow
<1>16. (IF l2p_64b THEN l2p_address_h * LowSpan ELSE 0) + l2p_address_l = job.addr + At
  <2>1. LowSpan \in Nat \ {0}
    BY PacketConstants
  <2>2. /\ (job.addr % LowSpan) \in 0 .. LowSpan - 1 /\ (job.addr \div LowSpan) \in Int
        /\ job.addr = LowSpan * (job.addr \div LowSpan) + (job.addr % LowSpan)
    <3>1. \A x \in Int : /\ (x % LowSpan) \in 0 .. LowSpan - 1 /\ (x \div LowSpan) \in Int
                         /\ x = LowSpan * (x \div LowSpan) + (x % LowSpan)
      BY <2>1, DivMod
    <3> QED BY <1>4, <3>1
  <2>3. /\ l2p_address_h = job.addr \div LowSpan /\ l2p_address_l = (job.addr % LowSpan) + At
        /\ (l2p_64b <=> l2p_address_h # 0)
    BY <1>2 DEF Here, Jobbing, Loaded
  <2>4. At \in Int
    BY <1>4, <1>9
  <2>5. (IF l2p_64b THEN l2p_address_h * LowSpan ELSE 0) = LowSpan * (job.addr \div LowSpan)
    <3>1. \A x, y \in Int : y * x = x * y /\ (y = 0 => x * y = 0)
      OBVIOUS
    <3>2. CASE l2p_64b
      <4>1. LowSpan \in Int /\ l2p_address_h \in Int
        BY <2>1, <2>2, <2>3
      <4>2. l2p_address_h * LowSpan = LowSpan * l2p_address_h
        BY <3>1, <4>1
      <4> QED BY <2>3, <3>2, <4>2
    <3>3. CASE ~l2p_64b
      <4>1. job.addr \div LowSpan = 0 /\ LowSpan \in Int
        BY <2>1, <2>3, <3>3
      <4>2. LowSpan * (job.addr \div LowSpan) = 0
        BY <3>1, <4>1
      <4> QED BY <3>3, <4>2
    <3> QED BY <3>2, <3>3
  <2> HIDE DEF At
  <2> QED BY <1>4, <2>1, <2>2, <2>3, <2>4, <2>5
<1>17. Seen' = [phase |-> "data", wide |-> l2p_64b, len |-> l2p_len_header,
                 base |-> job.addr + At, words |-> <<>>]
  <2>1. Seen' = Advance(rx', ldm_word')
    BY <1>14 DEF Seen
  <2>2. ldm_word'.addr = l2p_address_l
    BY <1>1 DEF AddrLow
  <2> QED BY <1>13, <1>16, <2>1, <2>2 DEF Advance
<1>18. Bus'
  <2>1. /\ Seen' = [phase |-> "data", wide |-> l2p_64b', len |-> l2p_len_header',
                   base |-> job.addr' + At', words |-> (Seen.words)']
        /\ (Seen.words)' = <<>>
    BY <1>1, <1>3, <1>9, <1>17
  <2>2. /\ (Seen.words)' \in Seq(Nat) /\ Len((Seen.words)') = Size' - l2p_data_cnt'
        /\ RunOf(Seen.words, At)'
    BY <1>1, <1>5, <1>6, <2>1 DEF RunOf, Runs
  <2>3. ~malformed'
    BY <1>0 DEF JobStep
  <2>4. l2p_state' \notin {"L2P_IDLE", "L2P_HEADER", "L2P_ADDR_H", "L2P_ADDR_L"}
    BY <1>8
  <2> QED BY <1>14, <1>15, <2>1, <2>2, <2>3, <2>4 DEF Bus
<1>19. Stored' = IF Closing THEN job.len - l2p_len_cnt ELSE Stored
  BY <1>9, <1>12, <1>14 DEF Stored
<1> QED BY <1>10, <1>11, <1>18, <1>19 DEF There

(* Within the data of a packet the job, its place and the size stay. *)
LEMMA InsideKept ==
  ASSUME Here, JobStep, l2p_state \in Inside, l2p_state' \in Inside,
         UNCHANGED <<l2p_len_cnt, l2p_address_l, l2p_address_h, l2p_64b, l2p_len_header,
                     l2p_last_packet>>,
         ldm_done' = ldm_done, ~ldm_edb'
  PROVE  Size' = Size /\ Left' = Left /\ At' = At /\ Jobbing'
<1>1. Size' = Size
  BY DEF Size
<1>2. Left' = Left
  BY <1>1 DEF Left
<1>3. At' = At
  BY <1>2 DEF At, JobStep
<1>4. l2p_state # "L2P_IDLE" /\ l2p_state' # "L2P_IDLE"
  BY DEF Inside
<1>5. /\ l2p_len_cnt \in 0 .. job.len /\ ~ldm_done
      /\ l2p_address_l = (job.addr % LowSpan) + At
  BY <1>4 DEF Here, Jobbing
<1>6. Jobbing'
  BY <1>3, <1>4, <1>5, JobKept
<1> QED BY <1>1, <1>2, <1>3, <1>6

(* The word that is read next decides where the FSM goes: it waits for it, *)
(* takes it, or takes it as the last.                                      *)
LEMMA PumpPlaces ==
  ASSUME Here, JobStep, l2p_state \in Inside, l2p_state' \in Inside,
         UNCHANGED <<l2p_len_cnt, l2p_address_l, l2p_address_h, l2p_64b, l2p_len_header,
                     l2p_last_packet>>,
         Size' = Size, Left' = Left,
         NEW m \in 1 .. Size, l2p_data_cnt' = m, Popped = (job.len - l2p_len_cnt) - m, data_fifo_rd,
         \/ data_fifo = <<>> /\ l2p_state' = "L2P_WAIT_DATA" /\ data_fifo_rd'
         \/ data_fifo # <<>> /\ m = 1 /\ l2p_state' = "L2P_LAST_DATA" /\ ~data_fifo_rd'
         \/ data_fifo # <<>> /\ m > 1 /\ l2p_state' = "L2P_DATA" /\ data_fifo_rd'
  PROVE  Places'
<1>1. /\ Size <= MaxPayload /\ Left <= job.len
      /\ (l2p_last_packet <=> l2p_len_cnt = 0) /\ (l2p_64b <=> l2p_address_h # 0)
      /\ ~l2p_last_packet => Size = MaxPayload
  BY DEF Here, Places
<1>2. l2p_state' \notin {"L2P_IDLE"} \cup Opening
  BY DEF Inside, Opening
<1>3. /\ job.len' = job.len /\ job.len \in Nat /\ l2p_len_cnt \in 0 .. job.len
      /\ Popped \in Nat /\ Size \in Nat
  BY SizeTypes DEF JobStep, Here, Jobbing
<1>4. Popped' = (job.len' - l2p_len_cnt') - l2p_data_cnt' + One(data_fifo_valid')
  <2>1. CASE data_fifo = <<>>
    <3>1. Popped' = Popped /\ One(data_fifo_valid') = 0
      BY <2>1 DEF JobStep, One
    <3>2. Popped = (job.len - l2p_len_cnt) - m + 0
      BY <1>3
    <3> QED BY <1>3, <3>1, <3>2
  <2>2. CASE data_fifo # <<>>
    <3>1. Popped' = Popped + 1 /\ One(data_fifo_valid') = 1
      BY <2>2 DEF JobStep, One
    <3>2. Popped + 1 = (job.len - l2p_len_cnt) - m + 1
      BY <1>3
    <3> QED BY <1>3, <3>1, <3>2
  <2> QED BY <2>1, <2>2
<1>5. data_fifo_valid' <=> data_fifo # <<>>
  BY DEF JobStep
<1>6. /\ (data_fifo_rd' <=> l2p_state' # "L2P_LAST_DATA")
      /\ (data_fifo_valid' <=> l2p_state' # "L2P_WAIT_DATA")
      /\ l2p_state' = "L2P_DATA" => l2p_data_cnt' > 1
      /\ l2p_state' = "L2P_LAST_DATA" => l2p_data_cnt' = 1
  BY <1>5
<1>7. /\ l2p_data_cnt' \in 1 .. Size' /\ Size' <= MaxPayload /\ Left' <= job.len'
      /\ (l2p_last_packet' <=> l2p_len_cnt' = 0) /\ (l2p_64b' <=> l2p_address_h' # 0)
      /\ ~l2p_last_packet' => Size' = MaxPayload
  BY <1>1, <1>3
<1> QED BY <1>2, <1>4, <1>6, <1>7 DEF Places

(* The word on the FIFO's output is the packet's next. *)
LEMMA NextWord ==
  ASSUME Here, l2p_state \in {"L2P_DATA", "L2P_LAST_DATA"}
  PROVE  /\ data_fifo_dout \in Nat /\ Seen.words \in Seq(Nat)
         /\ Append(Seen.words, data_fifo_dout) \in Seq(Nat)
         /\ Len(Append(Seen.words, data_fifo_dout)) = Size - l2p_data_cnt + 1
         /\ RunOf(Append(Seen.words, data_fifo_dout), At)
<1>1. l2p_state \in Inside
  BY DEF Inside
<1>2. Seen.words \in Seq(Nat) /\ Len(Seen.words) = Size - l2p_data_cnt /\ RunOf(Seen.words, At)
  BY <1>1 DEF Here, Bus
<1>3. /\ data_fifo_valid /\ l2p_data_cnt \in 1 .. Size
      /\ Popped = (job.len - l2p_len_cnt) - l2p_data_cnt + 1
  BY <1>1 DEF Here, Places, One
<1>4. data_fifo_dout = Word(Popped - 1)
  BY <1>3 DEF Here, Pipe
<1>5. /\ l2p_len_cnt \in Nat /\ job.len \in Nat /\ Size \in Nat /\ job.addr \in Nat
      /\ AddrSpan \in Nat \ {0}
  BY SizeTypes DEF Here, Jobbing, OInv, OTypes
<1>6. At \in Int /\ Popped - 1 = At + Len(Seen.words)
  BY <1>1, <1>2, <1>3, <1>5 DEF At, Left
<1>7. data_fifo_dout = (job.addr + (At + Len(Seen.words))) % AddrSpan
  BY <1>4, <1>6 DEF Word
<1>8. data_fifo_dout \in Nat
  <2>1. job.addr + (Popped - 1) \in Int
    BY <1>3, <1>5
  <2>2. \A x \in Int : x % AddrSpan \in Nat
    BY <1>5, DivMod
  <2> QED BY <1>4, <2>1, <2>2 DEF Word
<1>9. Append(Seen.words, data_fifo_dout) \in Seq(Nat)
      /\ Len(Append(Seen.words, data_fifo_dout)) = Len(Seen.words) + 1
  BY <1>2, <1>8
<1>10. Len(Append(Seen.words, data_fifo_dout)) = Size - l2p_data_cnt + 1
  BY <1>2, <1>9
<1>11. RunOf(Append(Seen.words, data_fifo_dout), At)
  <2>1. Runs(Seen.words, At, job.addr)
    BY <1>2 DEF RunOf
  <2> QED BY <1>2, <1>5, <1>6, <1>7, <1>8, <2>1, RunPush DEF RunOf
<1> QED BY <1>2, <1>8, <1>9, <1>10, <1>11

(* L2P_DATA: the word on the FIFO's output goes out, and it is not the last. *)
LEMMA DataStep ==
  ASSUME Here, Flags', NEW others \in BOOLEAN, NEW wr_rdy \in BOOLEAN,
         NEW rdy \in BOOLEAN, NEW j, Step(FALSE, j, others, wr_rdy, rdy), l2p_state = "L2P_DATA"
  PROVE  There
<1>0. JobStep
  BY StepJob
<1>1. l2p_state \in Inside
  BY DEF Inside
<1>2. /\ data_fifo_rd /\ data_fifo_valid /\ l2p_data_cnt \in 2 .. Size /\ Size <= MaxPayload
      /\ Popped = (job.len - l2p_len_cnt) - l2p_data_cnt + 1
      /\ gnt /\ ldm_dframe /\ ~ldm_req /\ ~ldm_edb
      /\ Size \in 1 .. HdrSpan /\ HdrSpan \in Nat \ {0} /\ MaxPayload \in 1 .. HdrSpan
  BY <1>1, SizeTypes DEF Here, Places, Bus, One, Jobbing
<1>3. /\ l2p_data_cnt' = (l2p_data_cnt - 1) % (2 * HdrSpan)
      /\ UNCHANGED <<l2p_len_cnt, l2p_address_l, l2p_address_h, l2p_64b, l2p_len_header,
                      l2p_last_packet>>
      /\ UNCHANGED <<ldm_done, ldm_req, ldm_dframe>>
      /\ ldm_word' = Data(data_fifo_dout) /\ ldm_valid' /\ ~ldm_edb'
      /\ \/ data_fifo = <<>> /\ l2p_state' = "L2P_WAIT_DATA" /\ data_fifo_rd'
         \/ data_fifo # <<>> /\ l2p_data_cnt <= 2 /\ l2p_state' = "L2P_LAST_DATA" /\ ~data_fifo_rd'
         \/ data_fifo # <<>> /\ l2p_data_cnt > 2 /\ l2p_state' = "L2P_DATA" /\ data_fifo_rd'
  <2>1. /\ l2p_data_cnt' = (l2p_data_cnt - 1) % (2 * HdrSpan)
        /\ UNCHANGED <<l2p_len_cnt, l2p_address_l, l2p_address_h, l2p_64b, l2p_len_header,
                      l2p_last_packet>>
    BY <1>2 DEF Step, PktGen
  <2>2. rdy
    BY DEF Step
  <2>3. L2pData(FALSE, rdy)
    BY DEF Step, L2pFsm, L2pIdle, L2pHeader, L2pAddrH, L2pAddrL, L2pWaitRdy, L2pWaitData,
       L2pLastData
  <2>4. ldm_valid' /\ ~ldm_edb' /\ ldm_word' = Data(data_fifo_dout)
    BY <1>2, <2>2, <2>3, Zenon DEF L2pData
  <2>5. UNCHANGED <<ldm_done, ldm_req, ldm_dframe>>
    BY <2>3 DEF L2pData
  <2>6. \/ data_fifo = <<>> /\ l2p_state' = "L2P_WAIT_DATA" /\ data_fifo_rd'
        \/ data_fifo # <<>> /\ l2p_data_cnt <= 2 /\ l2p_state' = "L2P_LAST_DATA" /\ ~data_fifo_rd'
        \/ data_fifo # <<>> /\ l2p_data_cnt > 2 /\ l2p_state' = "L2P_DATA" /\ data_fifo_rd'
    BY <1>2, <2>2, <2>3 DEF L2pData
  <2> QED BY <2>1, <2>4, <2>5, <2>6
<1>4. l2p_state' \in Inside
  BY <1>3 DEF Inside
<1>5. Size' = Size /\ Left' = Left /\ At' = At /\ Jobbing'
  BY <1>0, <1>1, <1>2, <1>3, <1>4, InsideKept
<1>6. PICK m \in 1 .. Size : m = l2p_data_cnt - 1
  BY <1>2
<1>7. l2p_data_cnt' = m
  <2>1. m \in 0 .. (2 * HdrSpan) - 1 /\ 2 * HdrSpan \in Nat \ {0}
    BY <1>2, <1>6
  <2> QED BY <1>3, <1>6, <2>1, ModSmall
<1>8. Popped = (job.len - l2p_len_cnt) - m
  BY <1>0, <1>2, <1>6 DEF JobStep, Here, Jobbing
<1>9. \/ data_fifo = <<>> /\ l2p_state' = "L2P_WAIT_DATA" /\ data_fifo_rd'
      \/ data_fifo # <<>> /\ m = 1 /\ l2p_state' = "L2P_LAST_DATA" /\ ~data_fifo_rd'
      \/ data_fifo # <<>> /\ m > 1 /\ l2p_state' = "L2P_DATA" /\ data_fifo_rd'
  <2>1. (l2p_data_cnt <= 2 <=> m = 1) /\ (l2p_data_cnt > 2 <=> m > 1)
    BY <1>2, <1>6
  <2> QED BY <1>3, <2>1
<1>10. Places'
  BY <1>0, <1>1, <1>2, <1>3, <1>4, <1>5, <1>7, <1>8, <1>9, PumpPlaces
<1>11. ~Closing /\ ~Closing' /\ gnt'
  BY <1>2, <1>3 DEF Closing, Step, Grant
<1>12. /\ rx' = [phase |-> "data", wide |-> l2p_64b, len |-> l2p_len_header,
                 base |-> job.addr + At, words |-> Seen.words]
       /\ ~malformed'
  BY <1>0, <1>1, <1>11 DEF JobStep, Here, Bus
<1>13. Seen' = [phase |-> "data", wide |-> l2p_64b, len |-> l2p_len_header,
                 base |-> job.addr + At, words |-> Append(Seen.words, data_fifo_dout)]
  <2>1. Seen' = Advance(rx', ldm_word')
    BY <1>3 DEF Seen
  <2>2. ldm_word'.data = data_fifo_dout /\ ldm_word'.kind = "data"
    BY <1>3 DEF Data
  <2> HIDE DEF Seen
  <2> QED BY <1>12, <2>1, <2>2 DEF Advance
<1>14. /\ Append(Seen.words, data_fifo_dout) \in Seq(Nat)
       /\ Len(Append(Seen.words, data_fifo_dout)) = Size - l2p_data_cnt + 1
       /\ Runs(Append(Seen.words, data_fifo_dout), At, job.addr)
  BY NextWord DEF RunOf
<1>15. Bus'
  <2>1. (Seen.words)' = Append(Seen.words, data_fifo_dout)
    BY <1>13
  <2>2. Seen' = [phase |-> "data", wide |-> l2p_64b', len |-> l2p_len_header',
                   base |-> job.addr' + At', words |-> (Seen.words)']
    BY <1>0, <1>3, <1>5, <1>13, <2>1 DEF JobStep
  <2>3. (Seen.words)' \in Seq(Nat)
    BY <1>14, <2>1
  <2>4. Len((Seen.words)') = Size' - l2p_data_cnt'
    <3>1. Size - l2p_data_cnt + 1 = Size - m
      BY <1>2, <1>6
    <3> QED BY <1>5, <1>7, <1>14, <2>1, <3>1
  <2>5. RunOf(Seen.words, At)'
    BY <1>0, <1>5, <1>14, <2>1 DEF RunOf, JobStep
  <2>6. Expected(rx, ldm_word)'
    BY <1>12 DEF Expected
  <2>7. l2p_state' \notin {"L2P_IDLE", "L2P_HEADER", "L2P_ADDR_H", "L2P_ADDR_L"}
    BY <1>4 DEF Inside
  <2>8. ~ldm_req' /\ ldm_dframe'
    BY <1>2, <1>3
  <2> QED BY <1>11, <1>12, <2>2, <2>3, <2>4, <2>5, <2>6, <2>7, <2>8 DEF Bus
<1>16. Stored' = IF Closing THEN job.len - l2p_len_cnt ELSE Stored
  BY <1>5, <1>11 DEF Stored
<1> QED BY <1>5, <1>10, <1>15, <1>16 DEF There

(* L2P_WAIT_DATA: the packet stands still until the FIFO has a word. *)
LEMMA WaitStep ==
  ASSUME Here, Flags', NEW others \in BOOLEAN, NEW wr_rdy \in BOOLEAN,
         NEW rdy \in BOOLEAN, NEW j, Step(FALSE, j, others, wr_rdy, rdy),
         l2p_state = "L2P_WAIT_DATA"
  PROVE  There
<1>0. JobStep
  BY StepJob
<1>1. l2p_state \in Inside
  BY DEF Inside
<1>2. /\ data_fifo_rd /\ ~data_fifo_valid /\ l2p_data_cnt \in 1 .. Size
      /\ Popped = (job.len - l2p_len_cnt) - l2p_data_cnt + 0
      /\ gnt /\ ldm_dframe /\ ~ldm_req /\ ~ldm_edb /\ Size \in Nat
  BY <1>1, SizeTypes DEF Here, Places, Bus, One, Jobbing
<1>3. /\ UNCHANGED pktVars
      /\ UNCHANGED <<ldm_done, ldm_req, ldm_dframe>> /\ ~ldm_valid' /\ ldm_edb' = ldm_edb
      /\ \/ data_fifo = <<>> /\ l2p_state' = "L2P_WAIT_DATA" /\ data_fifo_rd' = data_fifo_rd
         \/ data_fifo # <<>> /\ l2p_data_cnt <= 1 /\ l2p_state' = "L2P_LAST_DATA" /\ ~data_fifo_rd'
         \/ data_fifo # <<>> /\ l2p_data_cnt > 1 /\ l2p_state' = "L2P_DATA"
            /\ data_fifo_rd' = data_fifo_rd
  BY DEF Step, PktGen, L2pFsm, L2pIdle, L2pHeader, L2pAddrH, L2pAddrL, L2pData, L2pWaitRdy,
     L2pWaitData, L2pLastData
<1>4. l2p_state' \in Inside
  BY <1>3 DEF Inside
<1>a. UNCHANGED <<l2p_len_cnt, l2p_address_l, l2p_address_h, l2p_64b, l2p_len_header,
                  l2p_last_packet, l2p_data_cnt>>
  BY <1>3 DEF pktVars
<1>5. Size' = Size /\ Left' = Left /\ At' = At /\ Jobbing'
  <2>1. ldm_done' = ldm_done /\ ~ldm_edb'
    BY <1>2, <1>3
  <2> QED BY <1>0, <1>1, <1>4, <1>a, <2>1, InsideKept
<1>6. Popped = (job.len - l2p_len_cnt) - l2p_data_cnt
  BY <1>0, <1>2 DEF JobStep, Here, Jobbing
<1>7. \/ data_fifo = <<>> /\ l2p_state' = "L2P_WAIT_DATA" /\ data_fifo_rd'
      \/ data_fifo # <<>> /\ l2p_data_cnt = 1 /\ l2p_state' = "L2P_LAST_DATA" /\ ~data_fifo_rd'
      \/ data_fifo # <<>> /\ l2p_data_cnt > 1 /\ l2p_state' = "L2P_DATA" /\ data_fifo_rd'
  <2>1. l2p_data_cnt <= 1 <=> l2p_data_cnt = 1
    BY <1>2
  <2> QED BY <1>2, <1>3, <2>1
<1>8. Places'
  BY <1>0, <1>1, <1>2, <1>4, <1>5, <1>6, <1>7, <1>a, PumpPlaces
<1>9. ~Closing /\ ~Closing' /\ gnt'
  BY <1>2, <1>3 DEF Closing, Step, Grant
<1>10. Seen' = Seen /\ ~malformed'
  BY <1>0, <1>3, <1>9 DEF Seen, JobStep
<1>11. Bus'
  <2>1. l2p_state' \notin {"L2P_IDLE", "L2P_HEADER", "L2P_ADDR_H", "L2P_ADDR_L"}
    BY <1>4 DEF Inside
  <2>2. /\ Seen = [phase |-> "data", wide |-> l2p_64b, len |-> l2p_len_header,
                   base |-> job.addr + At, words |-> Seen.words]
        /\ Seen.words \in Seq(Nat) /\ Len(Seen.words) = Size - l2p_data_cnt
        /\ Runs(Seen.words, At, job.addr)
    BY <1>1 DEF Here, Bus, RunOf
  <2>3. (Seen.words)' = Seen.words
    BY <1>10
  <2>4. Seen' = [phase |-> "data", wide |-> l2p_64b', len |-> l2p_len_header',
                   base |-> job.addr' + At', words |-> (Seen.words)']
    BY <1>0, <1>5, <1>10, <1>a, <2>2, <2>3 DEF JobStep
  <2>5. /\ (Seen.words)' \in Seq(Nat) /\ Len((Seen.words)') = Size' - l2p_data_cnt'
        /\ RunOf(Seen.words, At)'
    BY <1>0, <1>5, <1>a, <2>2, <2>3 DEF RunOf, JobStep
  <2>6. ~ldm_req' /\ ldm_dframe'
    BY <1>2, <1>3
  <2> QED BY <1>3, <1>9, <1>10, <2>1, <2>4, <2>5, <2>6 DEF Bus
<1>12. Stored' = IF Closing THEN job.len - l2p_len_cnt ELSE Stored
  BY <1>5, <1>9 DEF Stored
<1> QED BY <1>5, <1>8, <1>11, <1>12 DEF There

(* L2P_LAST_DATA: the packet's last word goes out; another packet begins   *)
(* where this one ended, or the job is done.                               *)
LEMMA LastStep ==
  ASSUME Here, Flags', NEW others \in BOOLEAN, NEW wr_rdy \in BOOLEAN,
         NEW rdy \in BOOLEAN, NEW j, Step(FALSE, j, others, wr_rdy, rdy),
         l2p_state = "L2P_LAST_DATA"
  PROVE  There
<1>0. JobStep
  BY StepJob
<1>1. l2p_state \in Inside
  BY DEF Inside
<1>2. /\ ~data_fifo_rd /\ data_fifo_valid /\ l2p_data_cnt = 1 /\ Size <= MaxPayload
      /\ Popped = (job.len - l2p_len_cnt) - 1 + 1 /\ Left <= job.len
      /\ gnt /\ ldm_dframe /\ ~ldm_req /\ ~ldm_edb /\ ~ldm_done
      /\ (l2p_last_packet <=> l2p_len_cnt = 0) /\ (l2p_64b <=> l2p_address_h # 0)
      /\ ~l2p_last_packet => Size = MaxPayload
  BY <1>1 DEF Here, Places, Bus, One, Jobbing
<1>a. /\ Size \in 1 .. HdrSpan /\ HdrSpan \in Nat \ {0} /\ MaxPayload \in 1 .. HdrSpan
      /\ LowSpan \in Nat \ {0} /\ job.len \in Nat /\ job.addr \in Nat
      /\ l2p_len_cnt \in 0 .. job.len
  BY <1>0, SizeTypes DEF Here, JobStep, Jobbing
<1>3. /\ ldm_word' = Data(data_fifo_dout) /\ ldm_valid' /\ ~ldm_dframe'
      /\ data_fifo_rd' = data_fifo_rd
      /\ ldm_edb' = ldm_edb
      /\ l2p_len_cnt > 0 => l2p_state' = "L2P_HEADER" /\ ldm_req' /\ ldm_done' = ldm_done
      /\ ~(l2p_len_cnt > 0) => l2p_state' = "L2P_IDLE" /\ ldm_req' = ldm_req
      /\ ~l2p_last_packet => NextPacket
      /\ UNCHANGED <<l2p_len_cnt, l2p_address_h, l2p_64b>>
  <2>1. /\ ~l2p_last_packet => NextPacket
        /\ UNCHANGED <<l2p_len_cnt, l2p_address_h, l2p_64b>>
    BY DEF Step, PktGen, pktVars
  <2>2. rdy
    BY DEF Step
  <2>3. L2pLastData(rdy)
    BY DEF Step, L2pFsm, L2pIdle, L2pHeader, L2pAddrH, L2pAddrL, L2pData, L2pWaitRdy, L2pWaitData
  <2> QED BY <2>1, <2>2, <2>3 DEF L2pLastData
<1>4. Popped = job.len - l2p_len_cnt /\ Popped' = Popped
  BY <1>0, <1>2, <1>a DEF JobStep
<1>5. ~Closing /\ Closing' /\ gnt'
  BY <1>2, <1>3 DEF Closing, Step, Grant
<1>6. At = job.len - (l2p_len_cnt + Size) /\ At \in Nat
  BY <1>1, <1>2, <1>a DEF At, Left
<1>7. /\ rx' = [phase |-> "data", wide |-> l2p_64b, len |-> l2p_len_header,
                 base |-> job.addr + At, words |-> Seen.words]
       /\ ~malformed'
  BY <1>0, <1>1, <1>5 DEF JobStep, Here, Bus
<1>8. Seen' = [phase |-> "data", wide |-> l2p_64b, len |-> l2p_len_header,
                 base |-> job.addr + At, words |-> Append(Seen.words, data_fifo_dout)]
  <2>1. Seen' = Advance(rx', ldm_word')
    BY <1>3 DEF Seen
  <2>2. ldm_word'.data = data_fifo_dout /\ ldm_word'.kind = "data"
    BY <1>3 DEF Data
  <2> HIDE DEF Seen
  <2> QED BY <1>7, <2>1, <2>2 DEF Advance
<1>9. /\ Append(Seen.words, data_fifo_dout) \in Seq(Nat)
      /\ Len(Append(Seen.words, data_fifo_dout)) = Size
      /\ Runs(Append(Seen.words, data_fifo_dout), At, job.addr)
  <2>1. Size - l2p_data_cnt + 1 = Size
    BY <1>2, <1>a
  <2> QED BY <2>1, NextWord DEF RunOf
<1>10. /\ (Seen.words)' = Append(Seen.words, data_fifo_dout) /\ (Seen.base)' = job.addr + At
       /\ Length(Seen)' = Size
  BY <1>8 DEF Length, Size
<1>11. Begun' = At
  <2>1. Begun' = job.len - l2p_len_cnt - Size
    BY <1>0, <1>3, <1>9, <1>10 DEF Begun, JobStep
  <2> QED BY <1>6, <1>a, <2>1
<1>12. Stored' = IF Closing THEN job.len - l2p_len_cnt ELSE Stored
  BY <1>5, <1>11 DEF Stored
<1>13. /\ Begun' \in Nat /\ (Seen.base)' = job.addr' + Begun'
       /\ (Seen.words)' \in Seq(Nat) /\ Len((Seen.words)') = Length(Seen)'
       /\ RunOf(Seen.words, Begun)'
  BY <1>0, <1>6, <1>9, <1>10, <1>11 DEF RunOf, JobStep
<1>14. Expected(rx, ldm_word)'
  BY <1>7 DEF Expected
<1>15. CASE l2p_len_cnt > 0
  <2>1. /\ l2p_state' = "L2P_HEADER" /\ ldm_req' /\ ~ldm_done' /\ NextPacket /\ Size = MaxPayload
        /\ ~ldm_edb' /\ l2p_len_cnt' = l2p_len_cnt
    BY <1>2, <1>3, <1>15
  <2>2. l2p_state' \notin Inside
    BY <2>1 DEF Inside
  <2>3. At' = At + MaxPayload
    <3>1. Left' = l2p_len_cnt + 0
      BY <2>1, <2>2 DEF Left
    <3>2. At' = job.len - (l2p_len_cnt + 0)
      BY <1>0, <3>1 DEF At, JobStep
    <3>3. job.len - (l2p_len_cnt + 0) = (job.len - (l2p_len_cnt + Size)) + Size
      BY <1>a
    <3> QED BY <1>6, <2>1, <3>2, <3>3
  <2>4. Jobbing'
    <3>1. l2p_address_l = (job.addr % LowSpan) + At /\ (job.addr % LowSpan) + job.len <= LowSpan
      BY <1>1 DEF Here, Jobbing, Inside
    <3>2. (job.addr % LowSpan) \in Nat
      <4>1. \A x \in Nat : x % LowSpan \in Nat
        BY <1>a, DivMod
      <4> QED BY <1>a, <4>1
    <3>3. l2p_address_l + MaxPayload = (job.addr % LowSpan) + (At + MaxPayload)
      BY <1>6, <1>a, <3>1, <3>2
    <3>4. l2p_address_l + MaxPayload \in 0 .. LowSpan - 1
      BY <1>6, <1>15, <1>a, <2>1, <3>1, <3>2
    <3>5. (l2p_address_l + MaxPayload) % LowSpan = l2p_address_l + MaxPayload
      BY <1>a, <3>4, ModSmall
    <3>6. l2p_address_l' = (job.addr % LowSpan) + At'
      BY <2>1, <2>3, <3>3, <3>5 DEF NextPacket
    <3> QED BY <1>0, <1>3, <1>a, <2>1, <3>6, JobKept
  <2>5. Loaded'
    <3>1. l2p_last_packet' <=> l2p_len_cnt <= MaxPayload
      BY <2>1 DEF NextPacket, LoadSize
    <3>2. l2p_64b' <=> l2p_address_h' # 0
      BY <1>2, <1>3
    <3>3. /\ l2p_data_cnt' = IF l2p_len_cnt > MaxPayload THEN MaxPayload ELSE l2p_len_cnt
          /\ l2p_len_header' = l2p_data_cnt' % HdrSpan
      BY <2>1 DEF NextPacket, LoadSize
    <3> QED BY <2>1, <3>1, <3>2, <3>3 DEF Loaded
  <2>6. Places'
    <3>1. Popped' = job.len' - l2p_len_cnt' /\ l2p_len_cnt' # 0 /\ ~data_fifo_rd'
      BY <1>0, <1>2, <1>3, <1>4, <1>15, <1>a, <2>1 DEF JobStep
    <3> QED BY <2>1, <2>2, <2>5, <3>1 DEF Places, Opening
  <2>7. Bus'
    <3> QED BY <1>3, <1>5, <1>7, <1>13, <1>14, <2>1, <2>2 DEF Bus
  <2> QED BY <1>12, <2>4, <2>6, <2>7 DEF There
<1>16. CASE ~(l2p_len_cnt > 0)
  <2>1. /\ l2p_state' = "L2P_IDLE" /\ ~ldm_req' /\ ~ldm_edb' /\ l2p_len_cnt' = 0 /\ l2p_len_cnt = 0
    BY <1>2, <1>3, <1>16, <1>a
  <2>2. l2p_state' \notin Inside
    BY <2>1 DEF Inside
  <2>3. Jobbing'
    <3>1. Running
      BY <1>1 DEF Here, Jobbing, Inside
    <3>2. Running' /\ job.st' = "run"
      BY <1>0, <1>2, <3>1 DEF JobStep, Running
    <3>3. job.addr \in 0 .. HostSpan - 1 /\ (job.addr % LowSpan) + job.len <= LowSpan
      BY DEF Here, Jobbing
    <3> QED BY <1>0, <1>a, <2>1, <3>2, <3>3 DEF Jobbing, JobStep
  <2>4. Places'
    <3>1. Popped' = job.len' - l2p_len_cnt' /\ ~data_fifo_rd'
      BY <1>0, <1>2, <1>3, <1>4, <2>1 DEF JobStep
    <3> QED BY <2>1, <2>2, <3>1 DEF Places, Opening
  <2>5. Bus'
    <3> QED BY <1>3, <1>5, <1>7, <1>13, <1>14, <2>1, <2>2 DEF Bus
  <2> QED BY <1>12, <2>3, <2>4, <2>5 DEF There
<1> QED BY <1>15, <1>16

(* A start: the job before it has left the pipeline. *)
LEMMA StartStep ==
  ASSUME Here, Calm, Flags', NEW others \in BOOLEAN, NEW wr_rdy \in BOOLEAN,
         NEW rdy \in BOOLEAN, NEW j, Step(TRUE, j, others, wr_rdy, rdy)
  PROVE  /\ Pipe' /\ Jobbing' /\ Places' /\ Bus' /\ Stored' = 0 /\ ~Closing
<1>1. /\ j \in Jobs /\ ~Running /\ job' = [st |-> "run", addr |-> j.addr, len |-> j.len]
  BY DEF Step
<1>2. /\ j.addr \in 0 .. HostSpan - 1 /\ j.len \in 1 .. HostSpan /\ HostSpan \in Nat \ {0}
      /\ LowSpan \in Nat \ {0} /\ AddrSpan \in Nat \ {0}
      /\ (j.addr % LowSpan) + j.len <= LowSpan
  <2>1. LowSpan \in Nat \ {0} /\ HostSpan \in Nat \ {0} /\ AddrSpan \in Nat \ {0}
    BY SizeTypes DEF Here, HostSpan
  <2>2. (j.addr % LowSpan) + j.len <= LowSpan
    BY <1>1 DEF Calm
  <2>3. j \in [addr : 0 .. HostSpan - 1, len : 1 .. HostSpan]
    BY <1>1, L2pDmaConstants
  <2> QED BY <2>1, <2>2, <2>3
<1>3. /\ l2p_state = "L2P_IDLE" /\ l2p_len_cnt = 0 /\ ~ldm_done /\ ~ldm_valid
      /\ ~ldm_edb /\ ~ldm_error
  BY <1>1 DEF Here, Jobbing
<1>4. ~gnt /\ ~ldm_req /\ rx = NoPacket /\ ~malformed /\ ~Closing
  BY <1>3 DEF Here, Bus, Closing
<1>5. Popped = job.len /\ ~data_fifo_rd
  <2>1. job.len \in Nat
    BY DEF Here, OInv, OTypes
  <2> QED BY <1>3, <2>1 DEF Here, Places
<1>6. /\ dma_length_cnt = 0 /\ ~addr_fifo_wr /\ addr_fifo = <<>> /\ ~addr_fifo_valid
      /\ ~l2p_stb /\ slave = <<>> /\ data_fifo = <<>>
  BY <1>5, Drained DEF Here
<1>7. /\ l2p_len_cnt' = j.len /\ l2p_address_l' = j.addr % LowSpan
      /\ l2p_address_h' = j.addr \div LowSpan
  BY <1>3 DEF Step, PktGen
<1>8. /\ ~data_fifo_rd' /\ ~ldm_done' /\ ~ldm_edb' /\ ~ldm_valid' /\ ~ldm_dframe'
      /\ l2p_state' = "L2P_IDLE" /\ ldm_req' = ldm_req
  BY <1>3, <1>6 DEF Step, L2pFsm, L2pIdle, L2pHeader, L2pAddrH, L2pAddrL, L2pData, L2pWaitRdy,
     L2pWaitData, L2pLastData
<1>9. /\ target_addr_cnt' = j.addr % AddrSpan /\ dma_length_cnt' = j.len /\ ~ldm_error'
      /\ addr_fifo_wr' = addr_fifo_wr /\ addr_fifo' = addr_fifo
  BY <1>3, <1>6 DEF Step, TargetCnt
<1>10. data_fifo' = data_fifo /\ data_fifo_valid' = FALSE
  BY <1>5 DEF Step, FifoRead
<1>11. addr_fifo_valid' = addr_fifo_valid /\ l2p_stb' = l2p_stb /\ slave' = slave
  BY DEF Step, busVars
<1>12. job.st' = "run" /\ job.addr' = j.addr /\ job.len' = j.len /\ Running'
  BY <1>1 DEF Running
<1>13. Asked' = 0 /\ Queued' = 0 /\ ReadOut' = 0 /\ Strobed' = 0 /\ Accepted' = 0
       /\ Answered' = 0 /\ Popped' = 0
  <2>a. /\ One(addr_fifo_wr') = 0 /\ One(addr_fifo_valid') = 0 /\ One(l2p_stb') = 0
        /\ Len(addr_fifo') = 0 /\ Len(slave') = 0 /\ Len(data_fifo') = 0
    BY <1>6, <1>9, <1>10, <1>11 DEF One
  <2>1. Asked' = 0
    BY <1>2, <1>9, <1>12 DEF Asked
  <2>2. Queued' = 0
    BY <2>a, <2>1 DEF Queued
  <2>3. ReadOut' = 0
    BY <2>a, <2>2 DEF ReadOut
  <2>4. Strobed' = 0
    BY <2>a, <2>3 DEF Strobed
  <2>5. Accepted' = 0
    BY <2>a, <2>4 DEF Accepted
  <2>6. Answered' = 0
    BY <2>a, <2>5 DEF Answered
  <2>7. Popped' = 0
    BY <2>a, <2>6 DEF Popped
  <2> QED BY <2>1, <2>2, <2>3, <2>4, <2>5, <2>6, <2>7
<1>14. Pipe'
  <2>1. target_addr_cnt' = Word(Asked)'
    <3>1. j.addr + 0 = j.addr
      BY <1>2
    <3> QED BY <1>9, <1>12, <1>13, <3>1 DEF Word
  <2>2. /\ addr_fifo' = <<>> /\ slave' = <<>> /\ data_fifo' = <<>>
        /\ ~addr_fifo_wr' /\ ~addr_fifo_valid' /\ ~l2p_stb' /\ ~data_fifo_valid'
    BY <1>6, <1>9, <1>10, <1>11
  <2>3. RunOf(addr_fifo, ReadOut)' /\ RunOf(slave, Answered)' /\ RunOf(data_fifo, Popped)'
    BY <2>2 DEF RunOf, Runs
  <2>4. dma_length_cnt' \in 0 .. job.len'
    BY <1>2, <1>9, <1>12
  <2> QED BY <1>13, <2>1, <2>2, <2>3, <2>4 DEF Pipe
<1>15. At' = 0
  <2>1. l2p_state' \notin Inside
    BY <1>8 DEF Inside
  <2>2. Left' = j.len + 0
    BY <1>7, <2>1 DEF Left
  <2> QED BY <1>2, <1>12, <2>2 DEF At
<1>16. Jobbing'
  <2>1. (j.addr % LowSpan) + 0 = j.addr % LowSpan
    <3>1. \A x \in Nat : x % LowSpan \in Nat
      BY <1>2, DivMod
    <3> QED BY <1>2, <3>1
  <2> QED BY <1>2, <1>7, <1>8, <1>9, <1>12, <1>15, <2>1 DEF Jobbing
<1>17. Places'
  <2>1. l2p_state' \notin Inside /\ l2p_state' \notin Opening
    BY <1>8 DEF Inside, Opening
  <2>2. Popped' = job.len' - l2p_len_cnt' /\ l2p_len_cnt' = job.len'
    BY <1>2, <1>7, <1>12, <1>13
  <2> QED BY <1>8, <2>1, <2>2 DEF Places
<1>18. Bus'
  <2>1. l2p_state' \notin Inside
    BY <1>8 DEF Inside
  <2>2. ~gnt'
    BY <1>4 DEF Step, Grant
  <2>3. rx' = NoPacket /\ ~malformed'
    BY <1>3, <1>4 DEF Step, Receive
  <2>4. ~ldm_req'
    BY <1>4, <1>8
  <2> QED BY <1>8, <2>1, <2>2, <2>3, <2>4 DEF Bus, Closing
<1>19. Stored' = 0
  BY <1>8, <1>15 DEF Stored, Closing
<1> QED BY <1>4, <1>14, <1>16, <1>17, <1>18, <1>19

-----------------------------------------------------------------------------
(* An edge of l2p_dma_clk_i touches neither the packet nor host memory. *)
LEMMA Apart ==
  ASSUME Flags, Jobbing, Places, Bus, Memory, UNCHANGED <<clkVars, envVars>>, Popped' = Popped
  PROVE  Flags' /\ Jobbing' /\ Places' /\ Bus' /\ Memory'
<1>1. /\ UNCHANGED <<l2p_len_cnt, l2p_address_l, l2p_address_h, l2p_data_cnt, l2p_64b,
                     l2p_len_header, l2p_last_packet>>
      /\ UNCHANGED <<l2p_state, ldm_req, ldm_word, ldm_valid, ldm_dframe, ldm_done,
                     ldm_edb, data_fifo_rd>>
      /\ UNCHANGED <<data_fifo_valid, data_fifo_dout, ldm_error, addr_fifo_wr>>
      /\ UNCHANGED <<gnt, job, started, want, rx, malformed, host>>
  BY DEF clkVars, envVars, pktVars, fsmVars, targetVars
<1>2. Size' = Size /\ Left' = Left /\ At' = At
  BY <1>1 DEF Size, Left, At
<1>3. Seen' = Seen /\ Closing' = Closing /\ Loaded' = Loaded
  BY <1>1 DEF Seen, Closing, Loaded
<1>4. Begun' = Begun /\ Stored' = Stored
  BY <1>1, <1>2, <1>3 DEF Begun, Stored
<1>5. Flags'
  BY <1>1 DEF Flags
<1>6. Jobbing'
  BY <1>1, <1>2 DEF Jobbing, Running
<1>7. Places'
  BY <1>1, <1>2, <1>3 DEF Places
<1>8. Bus'
  <2>1. Length(Seen)' = Length(Seen) /\ (Seen.words)' = Seen.words /\ (Seen.base)' = Seen.base
    BY <1>3 DEF Length
  <2>2. RunOf(Seen.words, At)' = RunOf(Seen.words, At)
    BY <1>1, <1>2, <2>1 DEF RunOf
  <2>3. RunOf(Seen.words, Begun)' = RunOf(Seen.words, Begun)
    BY <1>1, <1>4, <2>1 DEF RunOf
  <2> QED BY <1>1, <1>2, <1>3, <1>4, <2>1, <2>2, <2>3 DEF Bus
<1>9. Memory'
  BY <1>1, <1>4 DEF Memory, HostExact
<1> QED BY <1>5, <1>6, <1>7, <1>8, <1>9

(* A job does not run over the end of host memory. *)
LEMMA JobFits ==
  ASSUME Flags, Jobbing, job.len \in Nat
  PROVE  /\ job.addr + job.len <= HostSpan /\ job.addr \in Nat /\ HostSpan \in Nat \ {0}
         /\ \A i \in 0 .. job.len - 1 : (job.addr + i) % HostSpan = job.addr + i
<1>1. /\ job.addr \in 0 .. HostSpan - 1 /\ (job.addr % LowSpan) + job.len <= LowSpan
      /\ LowSpan \in Nat \ {0} /\ HostSpan = 2 * LowSpan
  BY SizeTypes DEF Jobbing, HostSpan
<1>2. HostSpan \in Nat \ {0}
  BY <1>1
<1>3. PICK q \in Int, r \in 0 .. LowSpan - 1 : job.addr = LowSpan * q + r /\ r = job.addr % LowSpan
  <2>1. \A x \in Int : /\ (x % LowSpan) \in 0 .. LowSpan - 1 /\ (x \div LowSpan) \in Int
                       /\ x = LowSpan * (x \div LowSpan) + (x % LowSpan)
    BY <1>1, DivMod
  <2>2. job.addr \in Int
    BY <1>1, <1>2
  <2> QED BY <2>1, <2>2
<1>4. q <= 1
  <2> SUFFICES ASSUME q >= 2 PROVE FALSE
    BY <1>3
  <2>1. LowSpan * q >= LowSpan * 2
    BY <1>1, <1>3
  <2> QED BY <1>1, <1>3, <2>1
<1>5. job.addr + job.len <= HostSpan
  <2>1. LowSpan * q <= LowSpan * 1
    BY <1>1, <1>3, <1>4
  <2> QED BY <1>1, <1>3, <2>1
<1>6. ASSUME NEW i \in 0 .. job.len - 1 PROVE (job.addr + i) % HostSpan = job.addr + i
  <2>1. job.addr + i \in 0 .. HostSpan - 1
    BY <1>1, <1>2, <1>5
  <2> HIDE DEF HostSpan
  <2> QED BY <1>2, <2>1, ModSmall
<1> QED BY <1>1, <1>2, <1>5, <1>6

(* The packet that closes writes its words at their places and nothing else. *)
LEMMA WrittenAt ==
  ASSUME Here, Memory, Closing, NEW a \in DOMAIN host
  PROVE  /\ DOMAIN Written(Seen) = DOMAIN host
         /\ Written(Seen)[a] = IF a \in job.addr + Begun .. (job.addr + (job.len - l2p_len_cnt)) - 1
                               THEN a % AddrSpan ELSE host[a]
<1>1. /\ Begun \in Nat /\ Seen.base = job.addr + Begun /\ Seen.words \in Seq(Nat)
      /\ Runs(Seen.words, Begun, job.addr)
  BY DEF Here, Bus, RunOf
<1>2. job.len \in Nat /\ l2p_len_cnt \in 0 .. job.len
  BY DEF Here, Jobbing, OInv, OTypes
<1>3. job.addr + job.len <= HostSpan /\ job.addr \in Nat /\ HostSpan \in Nat \ {0}
  BY <1>2, JobFits DEF Here
<1>4. Len(Seen.words) \in Nat /\ Begun + Len(Seen.words) = job.len - l2p_len_cnt
  BY <1>1, <1>2 DEF Begun
<1>5. a \in 0 .. HostSpan - 1
  BY DEF Memory
<1> DEFINE b == job.addr + Begun
           n == Len(Seen.words)
           d == a - b
           i == (d % HostSpan) + 1
<1>6. /\ DOMAIN Written(Seen) = DOMAIN host
      /\ Written(Seen)[a] = IF i \in DOMAIN Seen.words THEN Seen.words[i] ELSE host[a]
  <2> HIDE DEF Seen
  <2> QED BY <1>1 DEF Written
<1>7. b + n = job.addr + (job.len - l2p_len_cnt) /\ b \in Nat /\ n \in Nat /\ b + n <= HostSpan
  <2>1. \A x, y, m, k, l, h \in Nat : (y + m = k - l /\ x + k <= h) =>
           (x + y) + m = x + (k - l) /\ x + y \in Nat /\ (x + y) + m <= h
    OBVIOUS
  <2>2. /\ job.addr \in Nat /\ Begun \in Nat /\ n \in Nat /\ job.len \in Nat
        /\ l2p_len_cnt \in Nat /\ HostSpan \in Nat
        /\ Begun + n = job.len - l2p_len_cnt /\ job.addr + job.len <= HostSpan
    BY <1>1, <1>2, <1>3, <1>4
  <2> HIDE DEF n
  <2> QED BY <2>1, <2>2
<1>8. DOMAIN Seen.words = 1 .. n
  BY <1>1
<1>9. \A k \in 1 .. n : Seen.words[k] = (job.addr + (Begun + k - 1)) % AddrSpan
  BY <1>1 DEF Runs
<1> HIDE DEF b, n
<1>10. CASE a < b
  <2>1. d + HostSpan \in 0 .. HostSpan - 1 /\ d \in Int
    BY <1>3, <1>5, <1>7, <1>10
  <2>2. d % HostSpan = d + HostSpan
    <3>1. \A S \in Nat \ {0}, x \in Int : x + S \in 0 .. S - 1 => x % S = x + S
      <4> SUFFICES ASSUME NEW S \in Nat \ {0}, NEW x \in Int, x + S \in 0 .. S - 1
                   PROVE  x % S = x + S
        OBVIOUS
      <4>1. (S * (-1) + (x + S)) % S = x + S
        <5>1. -1 \in Int
          OBVIOUS
        <5> DEFINE y == x + S
        <5>2. y \in 0 .. S - 1
          OBVIOUS
        <5> HIDE DEF y
        <5>3. (S * (-1) + y) % S = y
          BY <5>1, <5>2, ModUnique, Zenon
        <5> QED BY <5>3 DEF y
      <4>2. S * (-1) + (x + S) = x
        OBVIOUS
      <4> QED BY <4>1, <4>2
    <3> HIDE DEF d, HostSpan
    <3> QED BY <1>3, <2>1, <3>1
  <2>3. i \notin 1 .. n
    <3>1. i = d + HostSpan + 1
      BY <2>2
    <3>2. d + HostSpan + 1 > n
      BY <1>3, <1>5, <1>7
    <3> HIDE DEF i
    <3> QED BY <1>7, <3>1, <3>2
  <2>4. a \notin b .. (b + n) - 1
    BY <1>5, <1>7, <1>10
  <2> HIDE DEF i
  <2> QED BY <1>6, <1>7, <1>8, <2>3, <2>4 DEF b
<1>11. CASE a >= b
  <2>1. d \in 0 .. HostSpan - 1
    BY <1>3, <1>5, <1>7, <1>11
  <2>2. d % HostSpan = d
    <3> HIDE DEF d, HostSpan
    <3> QED BY <1>3, <2>1, ModSmall
  <2>3. i = d + 1
    BY <2>2
  <2>4. i \in 1 .. n <=> a \in b .. (b + n) - 1
    <3>1. d + 1 \in 1 .. n <=> a \in b .. (b + n) - 1
      BY <1>3, <1>5, <1>7, <1>11
    <3> HIDE DEF i, d
    <3> QED BY <2>3, <3>1
  <2>5. i \in 1 .. n => Seen.words[i] = a % AddrSpan
    <3> SUFFICES ASSUME i \in 1 .. n PROVE Seen.words[i] = a % AddrSpan
      OBVIOUS
    <3>1. Seen.words[i] = (job.addr + (Begun + i - 1)) % AddrSpan
      BY <1>9
    <3>2. job.addr + (Begun + (d + 1) - 1) = a
      <4>1. \A x, y \in Nat, k \in Int : x + (y + ((k - (x + y)) + 1) - 1) = k
        OBVIOUS
      <4>2. job.addr \in Nat /\ Begun \in Nat /\ a \in Int
        BY <1>1, <1>3, <1>5
      <4> QED BY <4>1, <4>2 DEF b
    <3> HIDE DEF i
    <3> QED BY <2>3, <3>1, <3>2
  <2> HIDE DEF i
  <2> QED BY <1>6, <1>7, <1>8, <2>4, <2>5 DEF b
<1> QED BY <1>5, <1>7, <1>10, <1>11

(* Every edge without a start keeps host memory right. *)
LEMMA MemoryStep ==
  ASSUME Here, Memory, JobStep, There, want' = want,
         Closing => host' = Written(Seen), ~Closing => host' = host
  PROVE  Memory'
<1>1. job.len \in Nat /\ l2p_len_cnt \in 0 .. job.len /\ job.addr \in Nat
      /\ job.len' = job.len /\ job.addr' = job.addr
  BY DEF JobStep, Here, Jobbing
<1>2. CASE ~Closing
  <2>1. host' = host /\ Stored' = Stored
    BY <1>2 DEF There
  <2> QED BY <1>1, <2>1 DEF Memory, HostExact
<1>3. CASE Closing
  <2>1. host' = Written(Seen) /\ Stored' = job.len - l2p_len_cnt
    BY <1>3 DEF There
  <2>2. DOMAIN host' = DOMAIN host
    BY <2>1 DEF Written
  <2> DEFINE lo == job.addr + Begun
             hi == (job.addr + (job.len - l2p_len_cnt)) - 1
  <2>3. \A a \in DOMAIN host : host'[a] = IF a \in lo .. hi THEN a % AddrSpan ELSE host[a]
    BY <1>3, <2>1, WrittenAt
  <2>4. Begun \in Nat
    BY <1>3 DEF Here, Bus
  <2>5. /\ job.addr + job.len <= HostSpan /\ HostSpan \in Nat \ {0}
        /\ \A i \in 0 .. job.len - 1 : (job.addr + i) % HostSpan = job.addr + i
    BY <1>1, JobFits DEF Here
  <2>6. DOMAIN host = 0 .. HostSpan - 1 /\ Addrs(job.addr, job.len) \subseteq want
    BY DEF Memory
  <2>7. HostExact'
    <3> SUFFICES ASSUME NEW a \in DOMAIN host, host'[a] # NoData
                 PROVE  host'[a] = a % AddrSpan /\ a \in want
      BY <2>2 DEF HostExact
    <3>1. CASE a \in lo .. hi
      <4>1. a - job.addr \in 0 .. job.len - 1 /\ job.addr + (a - job.addr) = a
        <5> HIDE DEF Begun
        <5>1. a \in Int /\ a >= job.addr + Begun /\ a <= (job.addr + (job.len - l2p_len_cnt)) - 1
          BY <2>5, <2>6, <3>1
        <5>2. \A x, y, m, l \in Nat, k \in Int : (k >= x + y /\ k <= (x + (m - l)) - 1) =>
                 k - x \in 0 .. m - 1 /\ x + (k - x) = k
          OBVIOUS
        <5> QED BY <1>1, <2>4, <5>1, <5>2
      <4>2. a = (job.addr + (a - job.addr)) % HostSpan
        BY <2>5, <4>1
      <4>3. a \in want
        BY <2>6, <4>1, <4>2 DEF Addrs
      <4> QED BY <2>3, <3>1, <4>3
    <3>2. CASE a \notin lo .. hi
      <4>1. host'[a] = host[a]
        BY <2>3, <3>2
      <4> QED BY <4>1 DEF Memory, HostExact
    <3> QED BY <3>1, <3>2
  <2>8. ASSUME NEW i \in 0 .. Stored' - 1
        PROVE  host'[job.addr + i] = (job.addr + i) % AddrSpan
    <3>1. i \in 0 .. (job.len - l2p_len_cnt) - 1
      BY <2>1
    <3>2. job.addr + i \in DOMAIN host
      BY <1>1, <2>5, <2>6, <3>1
    <3>3. CASE i < Begun
      <4>1. host[job.addr + i] = (job.addr + i) % AddrSpan
        <5>1. i \in 0 .. Stored - 1
          BY <1>3, <2>4, <3>1, <3>3 DEF Stored
        <5> QED BY <5>1 DEF Memory
      <4> QED BY <2>3, <3>2, <4>1
    <3>4. CASE i >= Begun
      <4>1. job.addr + i \in lo .. hi
        <5>1. \A x, y, m, k \in Nat : (k < m /\ k >= y) => x + k \in x + y .. (x + m) - 1
          OBVIOUS
        <5>2. job.len - l2p_len_cnt \in Nat
          BY <1>1
        <5> HIDE DEF Begun
        <5> QED BY <1>1, <2>4, <3>1, <3>4, <5>1, <5>2
      <4> QED BY <2>3, <3>2, <4>1
    <3> QED BY <2>4, <3>1, <3>3, <3>4
  <2>9. Addrs(job.addr, job.len)' \subseteq want'
    BY <1>1, <2>6 DEF Addrs
  <2> QED BY <1>1, <2>2, <2>6, <2>7, <2>8, <2>9 DEF Memory
<1> QED BY <1>2, <1>3

-----------------------------------------------------------------------------
(* Everything together. *)
LInv == OInv /\ BInv /\ Flags /\ Pipe /\ Jobbing /\ Places /\ Bus /\ Memory

(* After reset there is no job, no word and no packet. *)
LEMMA LinkInit == Init => LInv
<1> SUFFICES ASSUME Init PROVE LInv
  OBVIOUS
<1>1. OInv /\ BInv
  BY RoomInit, BusInit
<1>2. /\ HdrSpan \in Nat \ {0} /\ LowSpan \in Nat \ {0} /\ AddrSpan \in Nat \ {0}
      /\ HostSpan \in Nat \ {0}
  BY PacketConstants, FetchConstants DEF HostSpan
<1>3. /\ l2p_state = "L2P_IDLE" /\ l2p_len_cnt = 0 /\ l2p_64b = FALSE /\ l2p_len_header = 0
      /\ l2p_last_packet = FALSE
      /\ ldm_req = FALSE /\ ldm_valid = FALSE /\ ldm_dframe = FALSE
      /\ ldm_done = FALSE /\ ldm_edb = FALSE
      /\ data_fifo = <<>> /\ data_fifo_rd = FALSE /\ data_fifo_valid = FALSE
      /\ target_addr_cnt = 0 /\ dma_length_cnt = 0 /\ ldm_error = FALSE
      /\ addr_fifo_wr = FALSE /\ addr_fifo = <<>> /\ addr_fifo_valid = FALSE /\ l2p_stb = FALSE
      /\ gnt = FALSE /\ slave = <<>>
      /\ job.st = "none" /\ job.addr = 0 /\ job.len = 0 /\ want = {}
      /\ rx = NoPacket /\ malformed = FALSE
      /\ host = [a \in 0 .. HostSpan - 1 |-> NoData]
  BY DEF Init, PacketInit, FetchInit
<1>4. Flags
  BY <1>2, <1>3 DEF Flags
<1>5. At = 0 /\ ~Closing /\ Stored = 0
  <2>1. l2p_state \notin Inside
    BY <1>3 DEF Inside
  <2>2. Left = 0 + 0
    BY <1>3, <2>1 DEF Left
  <2> QED BY <1>3, <2>2 DEF At, Closing, Stored
<1>6. /\ Asked = 0 /\ Queued = 0 /\ ReadOut = 0 /\ Strobed = 0 /\ Accepted = 0
      /\ Answered = 0 /\ Popped = 0
  <2>a. /\ One(addr_fifo_wr) = 0 /\ One(addr_fifo_valid) = 0 /\ One(l2p_stb) = 0
        /\ Len(addr_fifo) = 0 /\ Len(slave) = 0 /\ Len(data_fifo) = 0
    BY <1>3 DEF One
  <2>1. Asked = 0
    BY <1>3 DEF Asked
  <2>2. Queued = 0
    BY <2>a, <2>1 DEF Queued
  <2>3. ReadOut = 0
    BY <2>a, <2>2 DEF ReadOut
  <2>4. Strobed = 0
    BY <2>a, <2>3 DEF Strobed
  <2>5. Accepted = 0
    BY <2>a, <2>4 DEF Accepted
  <2>6. Answered = 0
    BY <2>a, <2>5 DEF Answered
  <2>7. Popped = 0
    BY <2>a, <2>6 DEF Popped
  <2> QED BY <2>1, <2>2, <2>3, <2>4, <2>5, <2>6, <2>7
<1>7. 0 % AddrSpan = 0 /\ 0 % LowSpan = 0
  <2>1. \A S \in Nat \ {0} : 0 % S = 0
    BY ModSmall
  <2> QED BY <1>2, <2>1
<1>8. Pipe
  <2>1. Word(Asked) = 0
    BY <1>3, <1>6, <1>7 DEF Word
  <2>2. RunOf(addr_fifo, ReadOut) /\ RunOf(slave, Answered) /\ RunOf(data_fifo, Popped)
    BY <1>3 DEF RunOf, Runs
  <2> QED BY <1>3, <1>6, <2>1, <2>2 DEF Pipe
<1>9. Jobbing
  <2>1. (job.addr % LowSpan) + job.len <= LowSpan
    BY <1>2, <1>3, <1>7
  <2> QED BY <1>2, <1>3, <2>1 DEF Jobbing
<1>10. Places
  BY <1>3, <1>6 DEF Places, Opening, Inside
<1>11. Bus
  BY <1>3, <1>5 DEF Bus, Inside
<1>12. Memory
  <2>1. Addrs(job.addr, job.len) \subseteq want
    BY <1>3 DEF Addrs
  <2>2. DOMAIN host = 0 .. HostSpan - 1 /\ HostExact
    BY <1>3 DEF HostExact
  <2> QED BY <1>5, <2>1, <2>2 DEF Memory
<1> QED BY <1>1, <1>4, <1>8, <1>9, <1>10, <1>11, <1>12 DEF LInv

(* Every edge of either clock keeps everything. *)
LEMMA LinkNext ==
  ASSUME Calm, LInv, [Next]_vars
  PROVE  LInv'
<1>1. OInv' /\ BInv'
  BY RoomNext, BusNext DEF LInv, Calm
<1>2. CASE ClkTick
  <2>1. PICK start \in BOOLEAN, others \in BOOLEAN, wr_rdy \in BOOLEAN, rdy \in BOOLEAN,
             j \in Jobs \cup {job} : Edge(start, j, others, wr_rdy, rdy)
    BY <1>2, Edges
  <2>2. Step(start, j, others, wr_rdy, rdy)
    BY <2>1, Stepped DEF LInv
  <2>3. Here
    BY DEF Here, LInv
  <2>4. Flags'
    BY <2>2, <2>3, FlagsClk
  <2>5. (Closing => host' = Written(Seen)) /\ (~Closing => host' = host)
    BY <2>2, Received DEF Step, LInv
  <2>6. CASE start = TRUE
    <3>1. Step(TRUE, j, others, wr_rdy, rdy)
      BY <2>2, <2>6
    <3>2. Pipe' /\ Jobbing' /\ Places' /\ Bus' /\ Stored' = 0 /\ ~Closing
      BY <2>3, <2>4, <3>1, StartStep
    <3>3. Memory'
      <4>1. /\ host' = host /\ job'.addr = j.addr /\ job'.len = j.len
            /\ want' = want \cup Addrs(j.addr, j.len)
        BY <2>5, <3>1, <3>2 DEF Step
      <4>2. Addrs(job.addr, job.len)' \subseteq want'
        BY <4>1 DEF Addrs
      <4>3. DOMAIN host' = 0 .. HostSpan - 1 /\ HostExact'
        BY <4>1 DEF LInv, Memory, HostExact
      <4> QED BY <3>2, <4>2, <4>3 DEF Memory
    <3> QED BY <1>1, <2>4, <3>2, <3>3 DEF LInv
  <2>7. CASE start = FALSE
    <3>1. Step(FALSE, j, others, wr_rdy, rdy)
      BY <2>2, <2>7
    <3>2. JobStep
      BY <2>3, <3>1, StepJob
    <3>3. l2p_state \in {"L2P_IDLE", "L2P_HEADER", "L2P_ADDR_H", "L2P_ADDR_L", "L2P_DATA",
                         "L2P_WAIT_DATA", "L2P_LAST_DATA"}
      BY DEF LInv, Places, Opening, Inside
    <3>4. There
      BY <2>3, <2>4, <3>1, <3>3, IdleStep, HeaderStep, AddrHStep, AddrLStep, DataStep, WaitStep,
         LastStep
    <3>5. Memory'
      BY <2>3, <2>5, <3>1, <3>2, <3>4, MemoryStep DEF Step, LInv
    <3>6. Pipe'
      <4>1. /\ FifoRead /\ UNCHANGED <<busVars, slave>> /\ UNCHANGED <<job.addr, job.len>>
            /\ TargetCnt(FALSE, l2p_state = "L2P_IDLE", j.addr % AddrSpan, j.len)
        BY <3>1 DEF Step
      <4>2. (l2p_state = "L2P_IDLE") \in BOOLEAN
        OBVIOUS
      <4> QED BY <1>1, <4>1, <4>2, PipeClk DEF LInv
    <3> QED BY <1>1, <2>4, <3>4, <3>5, <3>6 DEF LInv, There
  <2> QED BY <2>6, <2>7
<1>3. CASE DmaClkTick
  <2>1. PICK stall \in BOOLEAN, ack \in BOOLEAN : DmaClk(stall, ack)
    BY <1>3 DEF DmaClkTick
  <2>2. Pipe' /\ Popped' = Popped
    BY <1>1, <2>1, PipeDmaClk DEF LInv
  <2>3. UNCHANGED <<clkVars, envVars>>
    BY <2>1 DEF DmaClk
  <2> QED BY <1>1, <2>2, <2>3, Apart DEF LInv
<1>4. CASE UNCHANGED vars
  <2>1. UNCHANGED <<clkVars, busVars, addr_fifo, data_fifo, slave, envVars>>
    BY <1>4 DEF vars
  <2>2. /\ UNCHANGED <<job, dma_length_cnt, target_addr_cnt, addr_fifo_wr, addr_fifo_din>>
        /\ UNCHANGED <<addr_fifo, addr_fifo_valid, addr_fifo_dout, l2p_stb, l2p_adr>>
        /\ UNCHANGED <<slave, data_fifo, data_fifo_valid, data_fifo_dout>>
    BY <2>1 DEF clkVars, busVars, envVars, targetVars
  <2>3. /\ Asked' = Asked /\ Queued' = Queued /\ ReadOut' = ReadOut /\ Strobed' = Strobed
        /\ Accepted' = Accepted /\ Answered' = Answered /\ Popped' = Popped
    BY <2>2 DEF Asked, Queued, ReadOut, Strobed, Accepted, Answered, Popped
  <2>4. Pipe'
    BY <2>2, <2>3 DEF LInv, Pipe, Word, RunOf, Runs
  <2> QED BY <1>1, <2>1, <2>3, <2>4, Apart DEF LInv
<1> QED BY <1>2, <1>3, <1>4 DEF Next

(* Host memory only ever changes at the addresses of a job, and only to    *)
(* the carrier word that belongs there: no word is lost, repeated or       *)
(* reordered between the carrier and the host, for every size of FIFO,     *)
(* slave and packet, however the two clocks interleave.                    *)
THEOREM OnlyJobWords == Calm => (Spec => []HostExact)
<1> SUFFICES ASSUME Calm PROVE Spec => []HostExact
  OBVIOUS
<1>1. LInv /\ [Next]_vars => LInv'
  BY LinkNext
<1>2. LInv => HostExact
  BY DEF LInv, Memory
<1> QED BY <1>1, <1>2, LinkInit, PTL DEF Spec

(* Every packet has exactly the words its header announces. *)
THEOREM PacketsWellFormed == Calm => (Spec => []WellFormed)
<1> SUFFICES ASSUME Calm PROVE Spec => []WellFormed
  OBVIOUS
<1>1. LInv /\ [Next]_vars => LInv'
  BY LinkNext
<1>2. LInv => WellFormed
  BY DEF LInv, Bus, WellFormed
<1> QED BY <1>1, <1>2, LinkInit, PTL DEF Spec

(* When the controller takes dma_ctrl_done for the end of the job, the     *)
(* whole job is in host memory.                                            *)
THEOREM DoneIsComplete == Calm => (Spec => []DoneComplete)
<1> SUFFICES ASSUME Calm PROVE Spec => []DoneComplete
  OBVIOUS
<1>1. LInv /\ [Next]_vars => LInv'
  BY LinkNext
<1>2. LInv => DoneComplete
  <2> SUFFICES ASSUME LInv, job.st = "done", NEW a \in Addrs(job.addr, job.len)
               PROVE  host[a] = a % AddrSpan
    BY DEF DoneComplete
  <2>1. /\ l2p_state = "L2P_IDLE" /\ l2p_len_cnt = 0 /\ ~Closing /\ job.len \in Nat
    BY DEF LInv, Jobbing, Running, Closing, OInv, OTypes
  <2>2. Stored = job.len
    <3>1. Left = 0 + 0
      BY <2>1 DEF Left, Inside
    <3> QED BY <2>1, <3>1 DEF Stored, At
  <2>3. PICK i \in 0 .. job.len - 1 : a = (job.addr + i) % HostSpan
    BY DEF Addrs
  <2>4. a = job.addr + i
    BY <2>1, <2>3, JobFits DEF LInv
  <2> QED BY <2>2, <2>4 DEF LInv, Memory
<1> QED BY <1>1, <1>2, LinkInit, PTL DEF Spec
=============================================================================
