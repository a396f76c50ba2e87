---------------------------- MODULE P2lDmaProofs -----------------------------
(***************************************************************************)
(* The P2L DMA master for every value of the constants: the FIFO to the    *)
(* Wishbone writer holds what the GN4124 sends after P2L_RDY fell, the     *)
(* Wishbone cycle is held, and only words of a job reach the carrier.      *)
(***************************************************************************)
EXTENDS P2lDma, SequenceTheorems, TLAPS

-----------------------------------------------------------------------------
\* Arithmetic modulo a span.

(* Quotient and remainder, and that the remainder is the only one. *)
LEMMA DivMod ==
  ASSUME NEW S \in Nat \ {0}, NEW a \in Int
  PROVE  (a % S) \in 0 .. S - 1 /\ (a \div S) \in Int /\ a = S * (a \div S) + (a % S)
  OBVIOUS

(* Quotient and remainder are unique. *)
LEMMA ModUnique ==
  ASSUME NEW S \in Nat \ {0}, NEW q \in Int, NEW r \in 0 .. S - 1
  PROVE  (S * q + r) % S = r
  OBVIOUS

(* Below the span a number is its own remainder. *)
LEMMA ModSmall == ASSUME NEW S \in Nat \ {0}, NEW a \in 0 .. S - 1 PROVE a % S = a
  OBVIOUS

(* A counter of this width, one up and one down. *)
LEMMA ModStep ==
  ASSUME NEW S \in Nat \ {0}, NEW a \in 0 .. S - 1
  PROVE  /\ (a + 1) % S = IF a + 1 = S THEN 0 ELSE a + 1
         /\ (a - 1) % S = IF a = 0 THEN S - 1 ELSE a - 1
  OBVIOUS

(* Reducing a summand first changes nothing. *)
LEMMA ModAdd ==
  ASSUME NEW S \in Nat \ {0}, NEW a \in Int, NEW b \in Int
  PROVE  ((a % S) + b) % S = (a + b) % S
<1> DEFINE q == a \div S
           r == a % S
           p == (r + b) \div S
           t == (r + b) % S
<1>1. r \in Int /\ q \in Int /\ a = S * q + r
  BY DivMod
<1>2. p \in Int /\ t \in 0 .. S - 1 /\ r + b = S * p + t
  BY <1>1, DivMod
<1>3. a + b = S * (q + p) + t
  <2> HIDE DEF q, r, p, t
  <2> QED BY <1>1, <1>2
<1>4. (S * (q + p) + t) % S = t
  <2> HIDE DEF q, p, t
  <2>1. q + p \in Int
    BY <1>1, <1>2
  <2> QED BY <1>2, <2>1, ModUnique
<1> QED BY <1>3, <1>4

(* A counter one up, when it has been reduced before. *)
LEMMA ModNext ==
  ASSUME NEW S \in Nat \ {0}
  PROVE  \A a \in Int : ((a % S) + 1) % S = (a + 1) % S
<1>1. 1 \in Int
  OBVIOUS
<1> QED BY <1>1, ModAdd, Zenon

(* Less than a span apart, two addresses stay different. *)
LEMMA ModApart ==
  ASSUME NEW S \in Nat \ {0}, NEW a \in Int, NEW d \in 1 .. S - 1
  PROVE  (a + d) % S # a % S
<1> DEFINE r == a % S
<1>1. r \in 0 .. S - 1
  BY DivMod
<1>2. (a + d) % S = (r + d) % S
  <2>1. d \in Int
    OBVIOUS
  <2> QED BY <2>1, ModAdd, Zenon
<1> HIDE DEF r
<1>3. CASE r + d < S
  <2>1. r + d \in 0 .. S - 1
    BY <1>1, <1>3
  <2>2. (r + d) % S = r + d
    BY <2>1, ModSmall
  <2>3. r + d # r
    BY <1>1
  <2> QED BY <1>2, <2>2, <2>3 DEF r
<1>4. CASE ~(r + d < S)
  <2>1. PICK t \in 0 .. S - 1 : r + d = S + t /\ t # r
    BY <1>1, <1>4
  <2>2. (S * 1 + t) % S = t
    BY <2>1, ModUnique
  <2>3. S * 1 + t = S + t
    OBVIOUS
  <2> QED BY <1>2, <2>1, <2>2, <2>3 DEF r
<1> QED BY <1>3, <1>4

(* Reducing by a multiple of the span first changes nothing. *)
LEMMA ModMod ==
  ASSUME NEW S \in Nat \ {0}, NEW T \in Nat \ {0}, T % S = 0, NEW a \in Int
  PROVE  (a % T) % S = a % S
<1> DEFINE k == T \div S
           q == a \div T
           r == a % T
           p == r \div S
           t == r % S
<1>1. k \in Int /\ T = S * k
  BY DivMod
<1>2. r \in Int /\ q \in Int /\ a = T * q + r
  BY DivMod
<1>3. p \in Int /\ t \in 0 .. S - 1 /\ r = S * p + t
  BY <1>2, DivMod
<1>4. a = S * (k * q + p) + t
  <2> HIDE DEF k, q, r, p, t
  <2> QED BY <1>1, <1>2, <1>3
<1>5. (S * (k * q + p) + t) % S = t
  <2> HIDE DEF k, q, p, t
  <2>1. k * q + p \in Int
    BY <1>1, <1>2, <1>3
  <2> QED BY <1>3, <2>1, ModUnique
<1> QED BY <1>4, <1>5

-----------------------------------------------------------------------------
JobStates == {"none", "run", "killed", "aborting", "aborted", "error", "done"}
InPacket  == {"P2L_ADDR_H", "P2L_ADDR_L"}
Wait      == "P2L_WAIT_READ_COMPLETION"

Request == [at : 0 .. HostSpan - 1, left : Nat \ {0}]

(* The types of what surrounds the master, and of the words on its bus. *)
HostTypes ==
  /\ job \in [st : JobStates, host : 0 .. HostSpan - 1, len : 0 .. HostSpan, item : BOOLEAN]
  /\ rx \in [len : 0 .. LenSpan - 1, base : Nat]
  /\ reads \in Seq(Request)
  /\ pdm_word.kind = "read" => pdm_word.len \in 0 .. LenSpan - 1
  /\ pdm_word.kind \in {"high", "low"} => pdm_word.addr \in Nat

(* The last request of a job is known as such when its header is sent. *)
LastKnown == p2l_state \in InPacket => (pdm_last_packet <=> pdm_len_cnt <= MaxRead)

TInv == TypeOK /\ HostTypes /\ LastKnown

(* The counters of the Wishbone writer differ by what the slave still has  *)
(* to acknowledge, modulo their width.                                     *)
Owed == slave + (IF p2l_stb THEN 1 ELSE 0)
Counted == wb_write_cnt \in {p2l_ack_cnt + Owed, p2l_ack_cnt + Owed - WrCntSpan}
BInv == /\ slave \in 0 .. WriteDepth /\ p2l_stb \in BOOLEAN /\ p2l_cyc \in BOOLEAN
        /\ to_wb_fifo_valid \in BOOLEAN
        /\ wb_write_cnt \in 0 .. WrCntSpan - 1 /\ p2l_ack_cnt \in 0 .. WrCntSpan - 1
        /\ Counted /\ (Owed > 0 => p2l_cyc)

(* The end of a job is told in one tick, when the request FSM is idle. *)
Pulses ==
  /\ p2l_state # "P2L_IDLE" => job.st \in {"run", "killed", "aborting", "aborted"}
  /\ pdm_done_t \/ next_item_valid \/ completion_error =>
        p2l_state = "P2L_IDLE" /\ job.st \in {"run", "killed"} /\ ~pdm_done
  /\ pdm_done => p2l_state = "P2L_IDLE" /\ job.st \in {"run", "killed", "aborting"}
  /\ ~(pdm_done_t /\ next_item_valid) /\ ~(completion_error /\ (pdm_done_t \/ next_item_valid))
  /\ ~dma_busy_error

(* The line of the master to the arbiter. *)
Lines ==
  /\ pdm_req <=> p2l_state = "P2L_HEADER"
  /\ p2l_state \in InPacket => gnt /\ pdm_valid /\ pdm_dframe
  /\ pdm_valid => p2l_state \in InPacket \cup {Wait}
  /\ pdm_valid /\ p2l_state = Wait => gnt /\ ~pdm_dframe /\ pdm_word.kind = "low"

(* An abort that finds the FSM waiting ends the wait at once, so a later   *)
(* one finds it in the first tick of the wait, with the request on the bus; *)
(* a word taken then is in the FIFO before the next job starts.            *)
Aborts ==
  /\ p2l_state = Wait /\ job.st \in {"aborting", "aborted"} => pdm_valid
  /\ p2l_state = "P2L_IDLE" /\ to_wb_fifo_wr =>
        job.st \in {"run", "killed", "aborting"} \/ reads # <<>>

Room == /\ lag \in 0 .. RdyLag
        /\ Len(to_wb_fifo) + (IF to_wb_fifo_wr THEN 1 ELSE 0) <= ToWbFull + 1 + lag

RInv == Pulses /\ Lines /\ Aborts /\ Room

-----------------------------------------------------------------------------
(* The writer's edge keeps the counters and the cycle in step with the     *)
(* slave, when no strobe is stalled.                                       *)
LEMMA WriterHolds ==
  ASSUME BInv, "stall" \notin HostEnv, WriteDepth < WrCntSpan,
         NEW stall \in BOOLEAN, NEW ack \in BOOLEAN, DmaClk(stall, ack)
  PROVE  BInv'
<1> DEFINE one == IF p2l_stb THEN 1 ELSE 0
           got == IF ack THEN 1 ELSE 0
           new == IF to_wb_fifo_valid THEN 1 ELSE 0
<1>0. WriteDepth \in Nat /\ WrCntSpan \in Nat \ {0}
  BY P2lDmaConstants, WriteConstants
<1> USE <1>0
<1>1. /\ one \in 0 .. 1 /\ got \in 0 .. 1 /\ new \in 0 .. 1
      /\ Owed = slave + one
  BY DEF Owed
<1>2. p2l_stb => p2l_cyc /\ ~stall
  BY DEF BInv, Owed, DmaClk
<1>3. ack => slave > 0 /\ p2l_cyc
  BY DEF DmaClk, BInv, Owed
<1>4. slave' = slave + one - got
  BY <1>2 DEF DmaClk
<1>5. slave' \in 0 .. WriteDepth
  BY <1>1, <1>2, <1>3, <1>4 DEF DmaClk, BInv
<1>6. Owed' = slave' + new /\ Owed' = Owed - got + new
  <2>1. p2l_stb' = to_wb_fifo_valid
    BY DEF DmaClk, WriterTick
  <2>2. Owed' = slave' + new
    BY <2>1 DEF Owed
  <2> QED BY <1>1, <1>4, <2>2 DEF BInv
<1>7. /\ p2l_stb' \in BOOLEAN /\ p2l_cyc' \in BOOLEAN /\ to_wb_fifo_valid' \in BOOLEAN
  BY Zenon DEF DmaClk, WriterTick, BInv, ToWbFifoRd
<1>8. wb_write_cnt' = IF to_wb_fifo_valid
                      THEN IF wb_write_cnt + 1 = WrCntSpan THEN 0 ELSE wb_write_cnt + 1
                      ELSE wb_write_cnt
  BY ModStep DEF DmaClk, WriterTick, BInv
<1>9. p2l_ack_cnt' = IF ack
                     THEN IF p2l_ack_cnt + 1 = WrCntSpan THEN 0 ELSE p2l_ack_cnt + 1
                     ELSE p2l_ack_cnt
  BY <1>3, ModStep DEF DmaClk, WriterTick, BInv
<1>10. /\ wb_write_cnt' \in 0 .. WrCntSpan - 1 /\ p2l_ack_cnt' \in 0 .. WrCntSpan - 1
       /\ wb_write_cnt \in 0 .. WrCntSpan - 1 /\ p2l_ack_cnt \in 0 .. WrCntSpan - 1
       /\ slave \in 0 .. WriteDepth
  BY <1>8, <1>9 DEF BInv
<1>11. Owed \in 0 .. WrCntSpan
  BY <1>1, <1>10
<1>12. Counted'
  <2>1. wb_write_cnt \in {p2l_ack_cnt + Owed, p2l_ack_cnt + Owed - WrCntSpan}
    BY DEF BInv, Counted
  <2>2. Owed' \in 0 .. WrCntSpan
    <3> HIDE DEF new, got, one
    <3>1. \A m \in 0 .. WriteDepth, n \in 0 .. 1 : m + n \in 0 .. WrCntSpan
      OBVIOUS
    <3> QED BY <1>1, <1>5, <1>6, <3>1
  <2>3. CASE ack /\ to_wb_fifo_valid
    BY <1>6, <1>8, <1>9, <1>10, <1>11, <2>1, <2>3 DEF Counted
  <2>4. CASE ack /\ ~to_wb_fifo_valid
    BY <1>3, <1>1, <1>6, <1>8, <1>9, <1>10, <1>11, <2>1, <2>4 DEF Counted
  <2>5. CASE ~ack /\ to_wb_fifo_valid
    BY <1>6, <1>8, <1>9, <1>10, <1>11, <2>1, <2>2, <2>5 DEF Counted
  <2>6. CASE ~ack /\ ~to_wb_fifo_valid
    BY <1>6, <1>8, <1>9, <1>10, <1>11, <2>1, <2>6 DEF Counted
  <2> QED BY <2>3, <2>4, <2>5, <2>6
<1>13. Owed' > 0 => p2l_cyc'
  <2> SUFFICES ASSUME Owed' > 0, ~to_wb_fifo_valid PROVE p2l_cyc'
    BY DEF DmaClk, WriterTick
  <2>1. p2l_cyc
    BY <1>1, <1>6, <1>11 DEF BInv
  <2>2. ~LastWriteAck(ack)
    <3> SUFFICES ASSUME ack PROVE p2l_ack_cnt # (wb_write_cnt - 1) % WrCntSpan
      BY DEF LastWriteAck
    <3>1. Owed > 1
      BY <1>1, <1>6, <1>11
    <3>2. (wb_write_cnt - 1) % WrCntSpan = IF wb_write_cnt = 0 THEN WrCntSpan - 1 ELSE wb_write_cnt - 1
      BY <1>10, ModStep
    <3>3. wb_write_cnt \in {p2l_ack_cnt + Owed, p2l_ack_cnt + Owed - WrCntSpan}
      BY DEF BInv, Counted
    <3> QED BY <1>10, <1>11, <3>1, <3>2, <3>3
  <2> QED BY <2>1, <2>2 DEF DmaClk, WriterTick
<1> QED BY <1>5, <1>7, <1>10, <1>12, <1>13 DEF BInv

(* After reset nothing is owed and the counters agree. *)
LEMMA WriterStart == Init => BInv
<1> SUFFICES ASSUME Init PROVE BInv
  OBVIOUS
<1>1. /\ slave = 0 /\ p2l_stb = FALSE /\ p2l_cyc = FALSE /\ to_wb_fifo_valid = FALSE
      /\ wb_write_cnt = 0 /\ p2l_ack_cnt = 0
  BY DEF Init, WriterInit
<1>2. Owed = 0
  BY <1>1 DEF Owed
<1>3. WriteDepth \in Nat /\ WrCntSpan \in Nat \ {0}
  BY P2lDmaConstants, WriteConstants
<1>4. Counted
  BY <1>1, <1>2, <1>3 DEF Counted
<1>5. slave \in 0 .. WriteDepth /\ wb_write_cnt \in 0 .. WrCntSpan - 1
      /\ p2l_ack_cnt \in 0 .. WrCntSpan - 1 /\ ~(Owed > 0)
  BY <1>1, <1>2, <1>3
<1> QED BY <1>1, <1>4, <1>5, Zenon DEF BInv

(* Every edge keeps the counters in step with what the slave owes. *)
LEMMA WriterNext ==
  ASSUME "stall" \notin HostEnv, WriteDepth < WrCntSpan, BInv, [Next]_vars
  PROVE  BInv'
<1>1. CASE UNCHANGED <<writerVars, slave>>
  BY <1>1 DEF writerVars, BInv, Counted, Owed
<1>2. CASE DmaClkTick
  BY <1>2, WriterHolds DEF DmaClkTick
<1>3. ClkTick => UNCHANGED <<writerVars, slave>>
  BY DEF ClkTick, ClkStart, ClkAbort, ClkRun, Clk
<1> QED BY <1>1, <1>2, <1>3 DEF Next, vars

(* The master holds the Wishbone cycle while the slave still owes it an    *)
(* acknowledge, however the acknowledges and new words interleave, for     *)
(* every slave that holds fewer writes than the counters can count and     *)
(* stalls no strobe (a stalled strobe is counted and lost).                *)
THEOREM WriterKeepsCycle ==
  "stall" \notin HostEnv /\ WriteDepth < WrCntSpan => (Spec => []BusHeld)
<1> SUFFICES ASSUME "stall" \notin HostEnv, WriteDepth < WrCntSpan PROVE Spec => []BusHeld
  OBVIOUS
<1>1. BInv /\ [Next]_vars => BInv'
  BY WriterNext
<1>2. BInv => BusHeld
  BY P2lDmaConstants DEF BInv, BusHeld, Owed
<1> QED BY <1>1, <1>2, WriterStart, PTL DEF Spec

-----------------------------------------------------------------------------
(* What the decoder may show, and when. *)
LEMMA InputForm ==
  ASSUME HostTypes, NEW in, HostSays(in)
  PROVE  /\ in.valid \in BOOLEAN /\ in.last \in BOOLEAN /\ in.cpld \in BOOLEAN
         /\ in.cpln \in BOOLEAN /\ in.data \in Nat
         /\ in.valid => MaySend
         /\ in.cpld => in.valid /\ reads # <<>> /\ in.data = Head(reads).at
                       /\ ~in.cpln /\ (in.last \/ Head(reads).left > 1)
         /\ in.cpln => reads # <<>> /\ ~in.valid
         /\ in.valid /\ ~in.cpld => in.data = Foreign /\ (p2l_state = Wait => "write" \in HostEnv)
<1>0. LowSpan \in Nat \ {0} /\ HostSpan \in Nat /\ Foreign \in Nat
  BY P2lDmaConstants DEF HostSpan, Foreign
<1>1. CASE in = NoInput
  BY <1>1 DEF NoInput
<1>2. CASE reads # <<>> /\ MaySend /\ (in = Word(TRUE) \/ (Head(reads).left > 1 /\ in = Word(FALSE)))
  <2>1. Head(reads) \in Request
    BY <1>2 DEF HostTypes
  <2>2. Head(reads).at \in Nat
    BY <1>0, <2>1 DEF Request
  <2>3. PICK l \in BOOLEAN : in = Word(l) /\ (l \/ Head(reads).left > 1)
    BY <1>2
  <2> QED BY <1>2, <2>2, <2>3 DEF Word
<1>3. CASE reads # <<>> /\ "cpln" \in HostEnv /\ in = Refusal
  BY <1>3 DEF Refusal, NoInput
<1>4. CASE MaySend /\ in = TargetWrite /\ (p2l_state = Wait => "write" \in HostEnv)
  BY <1>0, <1>4 DEF TargetWrite, NoInput
<1> QED BY <1>1, <1>2, <1>3, <1>4 DEF HostSays, Wait

(* What the host still owes stays a sequence of requests. *)
LEMMA AnsweredTypes ==
  ASSUME HostTypes, NEW in, HostSays(in)
  PROVE  Answered(in) \in Seq(Request)
<1>0. HostSpan \in Nat \ {0} /\ reads \in Seq(Request)
  BY P2lDmaConstants DEF HostSpan, HostTypes
<1>1. in.cpld \/ in.cpln => reads # <<>>
  BY InputForm
<1>2. CASE in.cpln \/ (in.cpld /\ Head(reads).left = 1)
  BY <1>0, <1>1, <1>2 DEF Answered
<1>3. CASE ~(in.cpln \/ (in.cpld /\ Head(reads).left = 1)) /\ in.cpld
  <2> DEFINE r == [at |-> (reads[1].at + 1) % HostSpan, left |-> reads[1].left - 1]
  <2>1. reads[1] \in Request /\ Head(reads) = reads[1] /\ 1 \in DOMAIN reads
    BY <1>0, <1>1, <1>3
  <2>2. r \in Request
    <3>0. \A q \in Request : q.at \in Int /\ q.left \in Nat \ {0}
      BY <1>0 DEF Request
    <3>1. reads[1].at \in Int /\ reads[1].left \in Nat \ {0} /\ reads[1].left # 1
      BY <1>3, <2>1, <3>0
    <3>2. \A x \in Int : (x + 1) % HostSpan \in 0 .. HostSpan - 1
      BY <1>0, DivMod
    <3>3. (reads[1].at + 1) % HostSpan \in 0 .. HostSpan - 1
      BY <3>1, <3>2
    <3> QED BY <3>1, <3>3 DEF Request
  <2>3. Answered(in) = [reads EXCEPT ![1] = r]
    BY <1>3 DEF Answered
  <2> HIDE DEF r
  <2> QED BY <1>0, <2>1, <2>2, <2>3
<1>4. CASE ~(in.cpln \/ (in.cpld /\ Head(reads).left = 1)) /\ ~in.cpld
  BY <1>0, <1>4 DEF Answered
<1> QED BY <1>2, <1>3, <1>4

(* What the decoder shows of a completion is typed. *)
LEMMA ReceiveTypes ==
  ASSUME HostTypes, NEW in, HostSays(in), Receive(in)
  PROVE  rx' \in [len : 0 .. LenSpan - 1, base : Nat] /\ reads' \in Seq(Request)
<1>0. /\ HostSpan \in Nat \ {0} /\ LowSpan \in Nat \ {0} /\ LenSpan \in Nat \ {0}
      /\ rx \in [len : 0 .. LenSpan - 1, base : Nat]
  BY P2lDmaConstants, RequestConstants DEF HostSpan, HostTypes
<1>1. Answered(in) \in Seq(Request)
  BY AnsweredTypes
<1>2. CASE gnt /\ pdm_valid /\ pdm_word.kind = "read"
  <2>1. rx' = [len |-> pdm_word.len, base |-> 0] /\ reads' = Answered(in)
    BY <1>2 DEF Receive
  <2> QED BY <1>0, <1>1, <1>2, <2>1 DEF HostTypes
<1>3. CASE gnt /\ pdm_valid /\ pdm_word.kind = "high"
  <2>1. rx' = [rx EXCEPT !.base = pdm_word.addr * LowSpan] /\ reads' = Answered(in)
    BY <1>3 DEF Receive
  <2>2. pdm_word.addr * LowSpan \in Nat
    BY <1>0, <1>3 DEF HostTypes
  <2> QED BY <1>0, <1>1, <2>1, <2>2
<1>4. CASE gnt /\ pdm_valid /\ pdm_word.kind = "low" /\ ~pdm_dframe
  <2> DEFINE n == IF rx.len = 0 THEN LenSpan ELSE rx.len
             at == (rx.base + pdm_word.addr) % HostSpan
  <2>1. reads' = Append(Answered(in), [at |-> at, left |-> n]) /\ rx' = rx
    BY <1>4 DEF Receive
  <2>2. n \in Nat \ {0}
    BY <1>0
  <2>3. at \in 0 .. HostSpan - 1
    <3>1. rx.base + pdm_word.addr \in Int
      BY <1>0, <1>4 DEF HostTypes
    <3> QED BY <1>0, <3>1, DivMod
  <2>4. [at |-> at, left |-> n] \in Request
    BY <2>2, <2>3 DEF Request
  <2> HIDE DEF n, at
  <2> QED BY <1>0, <1>1, <2>1, <2>4
<1>5. CASE ~(gnt /\ pdm_valid)
  BY <1>0, <1>1, <1>5 DEF Receive
<1> QED BY <1>2, <1>3, <1>4, <1>5 DEF Receive

(* The registers of the request generator. *)
LEMMA ReadReqTypes ==
  ASSUME TInv, NEW start \in BOOLEAN, NEW next \in BOOLEAN, NEW ah \in Nat, NEW al \in Nat,
         NEW len \in Nat, ReadReq(start, next, ah, al, len)
  PROVE  /\ pdm_address_h' \in Nat /\ pdm_address_l' \in Nat /\ pdm_len_cnt' \in Nat
         /\ pdm_len_header' \in 0 .. LenSpan - 1
         /\ pdm_64b' \in BOOLEAN /\ is_next_item' \in BOOLEAN /\ pdm_last_packet' \in BOOLEAN
<1>0. LenSpan \in Nat \ {0} /\ MaxRead \in Nat
  BY RequestConstants
<1>a. /\ pdm_address_h \in Nat /\ pdm_address_l \in Nat /\ pdm_len_cnt \in Nat
      /\ pdm_len_header \in 0 .. LenSpan - 1
      /\ pdm_64b \in BOOLEAN /\ is_next_item \in BOOLEAN /\ pdm_last_packet \in BOOLEAN
      /\ p2l_state = "P2L_ADDR_L" => (pdm_last_packet <=> pdm_len_cnt <= MaxRead)
  BY DEF TInv, TypeOK, RequestTypeOK, LastKnown, InPacket
<1> USE <1>0, <1>a
<1>1. CASE p2l_state = "P2L_IDLE" /\ (start \/ next)
  BY <1>1 DEF ReadReq
<1>2. CASE p2l_state = "P2L_HEADER"
  <2> DEFINE m == IF pdm_len_cnt > MaxRead THEN MaxRead ELSE pdm_len_cnt
  <2>1. m \in Int
    OBVIOUS
  <2>2. pdm_len_header' = m % LenSpan
    BY <1>2 DEF ReadReq
  <2>3. m % LenSpan \in 0 .. LenSpan - 1
    <3> HIDE DEF m
    <3> QED BY <2>1, DivMod
  <2>4. UNCHANGED <<pdm_address_h, pdm_address_l, pdm_len_cnt, pdm_64b, is_next_item>>
    BY <1>2 DEF ReadReq
  <2>5. pdm_last_packet' \in BOOLEAN
    BY <1>2 DEF ReadReq
  <2> HIDE DEF m
  <2> QED BY <2>2, <2>3, <2>4, <2>5
<1>3. CASE p2l_state = "P2L_ADDR_L"
  <2>1. \A x \in Nat : ~(x <= MaxRead) => x - MaxRead \in Nat
    OBVIOUS
  <2> QED BY <1>3, <2>1 DEF ReadReq
<1>4. CASE UNCHANGED readReqVars
  BY <1>4 DEF readReqVars
<1> QED BY <1>1, <1>2, <1>3, <1>4 DEF ReadReq

(* The registers of the request FSM, and the words it shows. *)
LEMMA FsmTypes ==
  ASSUME TInv, NEW start \in BOOLEAN, NEW next \in BOOLEAN, NEW abort \in BOOLEAN, NEW in,
         RequestFsm(start, next, abort, gnt, in)
  PROVE  /\ p2l_state' \in InPacket \cup {"P2L_IDLE", "P2L_HEADER", Wait}
         /\ pdm_req' \in BOOLEAN /\ pdm_valid' \in BOOLEAN /\ pdm_dframe' \in BOOLEAN
         /\ pdm_done_t' \in BOOLEAN /\ next_item_valid' \in BOOLEAN
         /\ completion_error' \in BOOLEAN /\ rx_error_t' \in BOOLEAN
         /\ pdm_word'.kind = "read" => pdm_word'.len \in 0 .. LenSpan - 1
         /\ pdm_word'.kind \in {"high", "low"} => pdm_word'.addr \in Nat
<1> USE DEF TInv, TypeOK, RequestTypeOK, HostTypes, InPacket, Wait
<1>1. CASE P2lIdle(start, next)
  BY <1>1 DEF P2lIdle
<1>2. CASE P2lHeader(gnt)
  <2>1. CASE gnt
    <3>1. /\ pdm_req' = FALSE /\ pdm_valid' = TRUE /\ pdm_dframe' = TRUE
          /\ p2l_state' \in InPacket
          /\ UNCHANGED <<pdm_done_t, next_item_valid, completion_error, rx_error_t>>
      BY <1>2, <2>1 DEF P2lHeader
    <3>2. pdm_word' = ReadHeader(pdm_len_header, pdm_64b)
      BY <1>2, <2>1 DEF P2lHeader
    <3>3. pdm_word'.kind = "read" /\ pdm_word'.len = pdm_len_header
      BY <3>2 DEF ReadHeader
    <3> QED BY <3>1, <3>3
  <2>2. CASE ~gnt
    BY <1>2, <2>2 DEF P2lHeader
  <2> QED BY <2>1, <2>2
<1>3. CASE P2lAddrH
  BY <1>3 DEF P2lAddrH, ReadHigh
<1>4. CASE P2lAddrL
  BY <1>4 DEF P2lAddrL, ReadLow
<1>5. CASE P2lWait(abort, in)
  BY <1>5 DEF P2lWait
<1> QED BY <1>1, <1>2, <1>3, <1>4, <1>5 DEF RequestFsm

(* The registers that take the words of the completions. *)
LEMMA CaptureTypes ==
  ASSUME TInv, NEW in, HostSays(in), NEW start \in BOOLEAN, NEW c \in 0 .. CarrierSpan - 1,
         CtrlPipe, RecvDataCnt(in), NextItem(in), AddrCnt(start, c, in)
  PROVE  /\ pdm_done' \in BOOLEAN /\ rx_error' \in BOOLEAN
         /\ p2l_data_cnt' \in 0 .. 2 * LenSpan - 1
         /\ next_item' \in [1 .. 7 -> Nat]
         /\ p2l_addr_cnt' \in 0 .. CarrierSpan - 1 /\ dma_busy_error' \in BOOLEAN
         /\ to_wb_fifo_wr' \in BOOLEAN /\ to_wb_fifo_din' \in Nat \X Nat
         /\ to_wb_fifo' \in Seq(Nat \X Nat)
<1>0. /\ LenSpan \in Nat \ {0} /\ CarrierSpan \in Nat \ {0} /\ 2 * LenSpan \in Nat \ {0}
      /\ in.valid \in BOOLEAN /\ in.data \in Nat
  BY RequestConstants, InputForm DEF TInv
<1>a. /\ pdm_done_t \in BOOLEAN /\ rx_error_t \in BOOLEAN /\ dma_busy_error \in BOOLEAN
      /\ pdm_len_header \in 0 .. LenSpan - 1 /\ p2l_data_cnt \in 0 .. 2 * LenSpan - 1
      /\ next_item \in [1 .. 7 -> Nat] /\ p2l_addr_cnt \in 0 .. CarrierSpan - 1
      /\ to_wb_fifo_wr \in BOOLEAN /\ to_wb_fifo_din \in Nat \X Nat
      /\ to_wb_fifo \in Seq(Nat \X Nat)
  BY DEF TInv, TypeOK, RequestTypeOK
<1>1. pdm_done' \in BOOLEAN /\ rx_error' \in BOOLEAN
  BY <1>a DEF CtrlPipe
<1>2. p2l_data_cnt' \in 0 .. 2 * LenSpan - 1
  <2> DEFINE t == 2 * LenSpan
             x == p2l_data_cnt - 1
             h == IF pdm_len_header = 0 THEN LenSpan ELSE pdm_len_header
  <2>1. x \in Int /\ h \in 0 .. 2 * LenSpan - 1
    BY <1>0, <1>a
  <2>2. x % t \in 0 .. t - 1
    <3>1. t \in Nat \ {0}
      BY <1>0
    <3> HIDE DEF t, x
    <3> QED BY <2>1, <3>1, DivMod
  <2>3. p2l_data_cnt' \in {h, x % t, p2l_data_cnt}
    BY DEF RecvDataCnt
  <2>4. x % t \in 0 .. 2 * LenSpan - 1
    BY <2>2
  <2> HIDE DEF x, t, h
  <2> QED BY <1>a, <2>1, <2>3, <2>4
<1>3. next_item' \in [1 .. 7 -> Nat]
  BY <1>0, <1>a DEF NextItem
<1>4. /\ p2l_addr_cnt' \in 0 .. CarrierSpan - 1 /\ dma_busy_error' \in BOOLEAN
      /\ to_wb_fifo_wr' \in BOOLEAN /\ to_wb_fifo_din' \in Nat \X Nat
  <2>0. \A x \in 0 .. CarrierSpan - 1 : x \in Nat /\ (x + 1) % CarrierSpan \in 0 .. CarrierSpan - 1
    BY <1>0, ModStep
  <2>1. NextCarrier \in 0 .. CarrierSpan - 1
    BY <1>a, <2>0 DEF NextCarrier
  <2>2. <<p2l_addr_cnt, in.data>> \in Nat \X Nat
    <3>1. p2l_addr_cnt \in Nat /\ in.data \in Nat
      BY <1>0, <1>a, <2>0
    <3> QED BY <3>1
  <2>3. CASE start
    BY <1>a, <2>3 DEF AddrCnt
  <2>4. CASE ~start /\ p2l_state = Wait /\ ~is_next_item /\ in.valid
    <3>1. /\ p2l_addr_cnt' = NextCarrier /\ to_wb_fifo_wr' = TRUE
          /\ to_wb_fifo_din' = <<p2l_addr_cnt, in.data>> /\ dma_busy_error' = dma_busy_error
      BY <2>4 DEF AddrCnt, Wait
    <3> QED BY <1>a, <2>1, <2>2, <3>1
  <2>5. CASE ~start /\ ~(p2l_state = Wait /\ ~is_next_item /\ in.valid)
    BY <1>a, <2>5 DEF AddrCnt, Wait
  <2> QED BY <2>3, <2>4, <2>5
<1>5. to_wb_fifo' \in Seq(Nat \X Nat)
  BY <1>a DEF AddrCnt
<1> QED BY <1>1, <1>2, <1>3, <1>4, <1>5

(* The controller's job. *)
LEMMA JobTypes ==
  ASSUME HostTypes, NEW start \in BOOLEAN, NEW j, NEW kill \in BOOLEAN, Follow(start, j, kill),
         start => j \in ReadJobs
  PROVE  job' \in [st : JobStates, host : 0 .. HostSpan - 1, len : 0 .. HostSpan, item : BOOLEAN]
<1>1. CASE start
  <2>1. j \in [host : 0 .. HostSpan - 1, len : 1 .. HostSpan, item : BOOLEAN] /\ HostSpan \in Nat
    BY <1>1, P2lDmaConstants DEF HostSpan
  <2> QED BY <1>1, <2>1 DEF Follow, JobStates
<1>2. CASE ~start
  <2>1. PICK st \in JobStates : job' = [job EXCEPT !.st = st]
    BY <1>2 DEF Follow, JobStates, HostTypes
  <2> QED BY <2>1 DEF HostTypes
<1> QED BY <1>1, <1>2

(* The request in progress is known to be the last exactly when it is. *)
LEMMA LastKnownStep ==
  ASSUME TInv, NEW start \in BOOLEAN, NEW next \in BOOLEAN, NEW ah, NEW al, NEW len,
         NEW abort \in BOOLEAN, NEW in,
         ReadReq(start, next, ah, al, len), RequestFsm(start, next, abort, gnt, in)
  PROVE  LastKnown'
<1> SUFFICES ASSUME p2l_state' \in InPacket PROVE pdm_last_packet' <=> pdm_len_cnt' <= MaxRead
  BY DEF LastKnown
<1>1. CASE p2l_state = "P2L_HEADER"
  BY <1>1 DEF ReadReq
<1>2. CASE p2l_state = "P2L_ADDR_H"
  BY <1>2 DEF ReadReq, readReqVars, TInv, LastKnown, InPacket
<1>3. p2l_state \in {"P2L_HEADER", "P2L_ADDR_H"}
  BY DEF RequestFsm, P2lIdle, P2lHeader, P2lAddrH, P2lAddrL, P2lWait, InPacket
<1> QED BY <1>1, <1>2, <1>3

(* The parts of an edge of clk_i: start and j as the controller gives them. *)
ClkEdge(start, j, kill, others, in) ==
  /\ start => /\ j \in ReadJobs /\ job.st \notin {"run", "killed", "aborting"}
              /\ "late" \in HostEnv \/ (p2l_state = "P2L_IDLE" /\ reads = <<>>)
  /\ ~start => j = job
  /\ kill => ~start /\ Running
  /\ Clk(start, j, kill, others, in)

(* The edges of clk_i have one form. *)
LEMMA TickCases ==
  ClkTick => \E start, kill, others \in BOOLEAN, j \in ReadJobs \cup {job}, in \in Inputs :
                ClkEdge(start, j, kill, others, in)
<1> SUFFICES ASSUME NEW others \in BOOLEAN, NEW in \in Inputs,
                    ClkStart(others, in) \/ ClkAbort(others, in) \/ ClkRun(others, in)
             PROVE  \E start, kill \in BOOLEAN, j \in ReadJobs \cup {job} :
                       ClkEdge(start, j, kill, others, in)
  BY DEF ClkTick
<1>1. CASE ClkStart(others, in)
  <2>1. PICK j \in ReadJobs : Clk(TRUE, j, FALSE, others, in)
    BY <1>1 DEF ClkStart
  <2>2. ClkEdge(TRUE, j, FALSE, others, in)
    BY <1>1, <2>1 DEF ClkStart, ClkEdge
  <2> QED BY <2>2
<1>2. CASE ClkAbort(others, in)
  <2>1. ClkEdge(FALSE, job, TRUE, others, in)
    BY <1>2 DEF ClkAbort, ClkEdge
  <2> QED BY <2>1
<1>3. CASE ClkRun(others, in)
  <2>1. ClkEdge(FALSE, job, FALSE, others, in)
    BY <1>3 DEF ClkRun, ClkEdge
  <2> QED BY <2>1
<1> QED BY <1>1, <1>2, <1>3

(* An edge of clk_i keeps the types. *)
LEMMA TypesClk ==
  ASSUME TInv, NEW start \in BOOLEAN, NEW kill \in BOOLEAN, NEW others \in BOOLEAN,
         NEW j \in ReadJobs \cup {job}, NEW in, ClkEdge(start, j, kill, others, in)
  PROVE  TInv'
<1> DEFINE c == j.host % CarrierSpan
           ah == j.host \div LowSpan
           al == j.host % LowSpan
           s == start /\ ~j.item
           n == start /\ j.item
           a == Aborting /\ ~start
<1>0. /\ j.host \in 0 .. HostSpan - 1 /\ j.len \in Nat /\ j.item \in BOOLEAN
      /\ HostSpan \in Nat /\ LowSpan \in Nat \ {0} /\ CarrierSpan \in Nat \ {0}
  BY P2lDmaConstants, RequestConstants DEF TInv, HostTypes, HostSpan
<1>1. c \in 0 .. CarrierSpan - 1 /\ ah \in Nat /\ al \in Nat
  <2>1. \A x \in Nat : /\ x % CarrierSpan \in 0 .. CarrierSpan - 1
                       /\ x \div LowSpan \in Nat /\ x % LowSpan \in Nat
    BY <1>0
  <2> QED BY <1>0, <2>1
<1>2. s \in BOOLEAN /\ n \in BOOLEAN /\ a \in BOOLEAN
  BY Zenon
<1>3. /\ HostSays(in) /\ Grant(others) /\ Receive(in) /\ Follow(start, j, kill)
      /\ ReadReq(s, n, ah, al, j.len) /\ RequestFsm(s, n, a, gnt, in)
      /\ CtrlPipe /\ RecvDataCnt(in) /\ NextItem(in) /\ AddrCnt(s, c, in)
      /\ UNCHANGED writerVars
  BY DEF ClkEdge, Clk, RequestTick
<1> HIDE DEF c, ah, al, s, n, a
<1>4. HostTypes
  BY DEF TInv
<1>5. rx' \in [len : 0 .. LenSpan - 1, base : Nat] /\ reads' \in Seq(Request)
  BY <1>3, <1>4, ReceiveTypes
<1>6. job' \in [st : JobStates, host : 0 .. HostSpan - 1, len : 0 .. HostSpan, item : BOOLEAN]
  BY <1>3, <1>4, JobTypes DEF ClkEdge
<1>7. LastKnown'
  BY <1>2, <1>3, LastKnownStep
<1>8. WriterTypeOK' /\ gnt' \in BOOLEAN
  <2>1. WriterTypeOK'
    BY <1>3 DEF TInv, TypeOK, WriterTypeOK, writerVars
  <2>2. gnt' \in BOOLEAN
    BY <1>3, Zenon DEF TInv, TypeOK, RequestTypeOK, Grant
  <2> QED BY <2>1, <2>2
<1>9. /\ pdm_address_h' \in Nat /\ pdm_address_l' \in Nat /\ pdm_len_cnt' \in Nat
      /\ pdm_len_header' \in 0 .. LenSpan - 1
      /\ pdm_64b' \in BOOLEAN /\ is_next_item' \in BOOLEAN /\ pdm_last_packet' \in BOOLEAN
  BY <1>0, <1>1, <1>2, <1>3, ReadReqTypes
<1>10. /\ p2l_state' \in InPacket \cup {"P2L_IDLE", "P2L_HEADER", Wait}
       /\ pdm_req' \in BOOLEAN /\ pdm_valid' \in BOOLEAN /\ pdm_dframe' \in BOOLEAN
       /\ pdm_done_t' \in BOOLEAN /\ next_item_valid' \in BOOLEAN
       /\ completion_error' \in BOOLEAN /\ rx_error_t' \in BOOLEAN
       /\ pdm_word'.kind = "read" => pdm_word'.len \in 0 .. LenSpan - 1
       /\ pdm_word'.kind \in {"high", "low"} => pdm_word'.addr \in Nat
  BY <1>2, <1>3, FsmTypes
<1>11. /\ pdm_done' \in BOOLEAN /\ rx_error' \in BOOLEAN
       /\ p2l_data_cnt' \in 0 .. 2 * LenSpan - 1
       /\ next_item' \in [1 .. 7 -> Nat]
       /\ p2l_addr_cnt' \in 0 .. CarrierSpan - 1 /\ dma_busy_error' \in BOOLEAN
       /\ to_wb_fifo_wr' \in BOOLEAN /\ to_wb_fifo_din' \in Nat \X Nat
       /\ to_wb_fifo' \in Seq(Nat \X Nat)
  BY <1>1, <1>2, <1>3, CaptureTypes
<1>12. p2l_state' \in {"P2L_IDLE", "P2L_HEADER", "P2L_ADDR_H", "P2L_ADDR_L", "P2L_WAIT_READ_COMPLETION"}
  BY <1>10 DEF InPacket, Wait
<1>13. RequestTypeOK'
  BY <1>9, <1>10, <1>11, <1>12, Zenon DEF RequestTypeOK
<1>14. HostTypes'
  BY <1>5, <1>6, <1>10, Zenon DEF HostTypes
<1> QED BY <1>7, <1>8, <1>13, <1>14, Zenon DEF TInv, TypeOK

(* An edge of p2l_dma_clk_i keeps the types. *)
LEMMA TypesDmaClk ==
  ASSUME TInv, NEW stall \in BOOLEAN, NEW ack \in BOOLEAN, DmaClk(stall, ack)
  PROVE  TInv'
<1>0. WrCntSpan \in Nat \ {0}
  BY WriteConstants
<1>1. /\ UNCHANGED <<requestVars, hostVars>> /\ WriterTick(stall, ack, FALSE)
  BY DEF DmaClk
<1>2. to_wb_fifo' \in Seq(Nat \X Nat)
  BY <1>1 DEF WriterTick, ToWbFifoRd, TInv, TypeOK, RequestTypeOK
<1>3. RequestTypeOK' /\ gnt' \in BOOLEAN /\ HostTypes' /\ LastKnown'
  BY <1>1, <1>2 DEF TInv, TypeOK, RequestTypeOK, requestVars, readReqVars, requestFsmVars,
                    captureVars, hostVars, HostTypes, LastKnown
<1>4. WriterTypeOK'
  <2>0. /\ to_wb_fifo_valid \in BOOLEAN /\ to_wb_fifo_dout \in Nat \X Nat
        /\ p2l_adr \in Nat /\ p2l_dat \in Nat /\ p2l_cyc \in BOOLEAN
        /\ wb_write_cnt \in 0 .. WrCntSpan - 1 /\ p2l_ack_cnt \in 0 .. WrCntSpan - 1
        /\ to_wb_fifo \in Seq(Nat \X Nat)
    BY DEF TInv, TypeOK, RequestTypeOK, WriterTypeOK
  <2>1. to_wb_fifo_valid' \in BOOLEAN /\ p2l_stb' \in BOOLEAN /\ p2l_cyc' \in BOOLEAN
    BY <1>1, <2>0, Zenon DEF WriterTick, ToWbFifoRd
  <2>2. to_wb_fifo # <<>> => Head(to_wb_fifo) \in Nat \X Nat
    BY <2>0
  <2>3. to_wb_fifo_dout' \in Nat \X Nat
    BY <1>1, <2>0, <2>2 DEF WriterTick, ToWbFifoRd
  <2>4. p2l_adr' \in Nat /\ p2l_dat' \in Nat
    BY <1>1, <2>0 DEF WriterTick
  <2>5. wb_write_cnt' \in 0 .. WrCntSpan - 1 /\ p2l_ack_cnt' \in 0 .. WrCntSpan - 1
    <3>1. \A x \in 0 .. WrCntSpan - 1 : (x + 1) % WrCntSpan \in 0 .. WrCntSpan - 1
      BY <1>0, ModStep
    <3> QED BY <1>1, <2>0, <3>1 DEF WriterTick
  <2> QED BY <2>1, <2>3, <2>4, <2>5 DEF WriterTypeOK
<1> QED BY <1>3, <1>4 DEF TInv, TypeOK

(* The types hold after reset. *)
LEMMA TypesInit == Init => TInv
<1> SUFFICES ASSUME Init PROVE TInv
  OBVIOUS
<1>0. /\ LenSpan \in Nat \ {0} /\ CarrierSpan \in Nat \ {0} /\ HostSpan \in Nat \ {0}
      /\ WrCntSpan \in Nat \ {0}
  BY P2lDmaConstants, RequestConstants, WriteConstants DEF HostSpan
<1>a. /\ 0 \in 0 .. LenSpan - 1 /\ 0 \in 0 .. 2 * LenSpan - 1 /\ 0 \in 0 .. CarrierSpan - 1
      /\ 0 \in 0 .. WrCntSpan - 1 /\ <<0, 0>> \in Nat \X Nat /\ <<>> \in Seq(Nat \X Nat)
      /\ [i \in 1 .. 7 |-> 0] \in [1 .. 7 -> Nat] /\ 0 \in Nat
  BY <1>0
<1>1. RequestTypeOK
  <2>1. RequestInit
    BY DEF Init
  <2> QED BY <1>a, <2>1, Zenon DEF RequestInit, RequestTypeOK
<1>2. WriterTypeOK /\ gnt \in BOOLEAN
  <2>1. WriterInit /\ gnt = FALSE
    BY DEF Init
  <2> QED BY <1>a, <2>1, Zenon DEF WriterInit, WriterTypeOK
<1>3. HostTypes
  BY <1>0 DEF Init, RequestInit, ReadZero, HostTypes, JobStates
<1>4. LastKnown
  BY DEF Init, RequestInit, LastKnown, InPacket
<1> QED BY <1>1, <1>2, <1>3, <1>4 DEF TInv, TypeOK

(* Every step keeps the types. *)
LEMMA TypesNext == TInv /\ [Next]_vars => TInv'
<1> SUFFICES ASSUME TInv, [Next]_vars PROVE TInv'
  OBVIOUS
<1>1. CASE ClkTick
  BY <1>1, TickCases, TypesClk
<1>2. CASE DmaClkTick
  BY <1>2, TypesDmaClk DEF DmaClkTick
<1>3. CASE UNCHANGED vars
  BY <1>3 DEF vars, TInv, TypeOK, RequestTypeOK, WriterTypeOK, requestVars, readReqVars,
              requestFsmVars, captureVars, writerVars, hostVars, HostTypes, LastKnown
<1> QED BY <1>1, <1>2, <1>3 DEF Next

(* The registers of the P2L DMA master hold values of their types,         *)
(* whatever the host answers and however the two clocks interleave.        *)
THEOREM TypesHold == Spec => []TypeOK
<1>1. TInv => TypeOK
  BY DEF TInv
<1> QED BY <1>1, TypesInit, TypesNext, PTL DEF Spec

-----------------------------------------------------------------------------
(* What an edge of clk_i does, without a start in a running job. *)
Controls(start, kill, others, a, in) ==
  /\ start => p2l_state = "P2L_IDLE" /\ reads = <<>> /\ job.st \notin {"run", "killed", "aborting"}
  /\ ~start => (a <=> job.st \in {"killed", "aborting", "aborted"})
  /\ kill => ~start
  /\ \E s, n \in BOOLEAN :
        (start <=> s \/ n) /\ RequestFsm(s, n, a, gnt, in) /\ (\E c : AddrCnt(s, c, in))
  /\ CtrlPipe /\ Grant(others) /\ Receive(in) /\ HostSays(in)
  /\ \E j \in ReadJobs \cup {job} : Follow(start, j, kill)
  /\ lag' = IF P2lRdy THEN 0 ELSE IF in.valid THEN lag + 1 ELSE lag

(* What an edge does to the pulses and lines between FSM and controller. *)
LEMMA EdgeControls ==
  ASSUME TInv, "late" \notin HostEnv,
         NEW start \in BOOLEAN, NEW kill \in BOOLEAN, NEW others \in BOOLEAN,
         NEW j \in ReadJobs \cup {job}, NEW in, ClkEdge(start, j, kill, others, in)
  PROVE  Controls(start, kill, others, Aborting /\ ~start, in)
<1> DEFINE s == start /\ ~j.item
           n == start /\ j.item
           a == Aborting /\ ~start
<1>1. s \in BOOLEAN /\ n \in BOOLEAN /\ (start <=> s \/ n)
  OBVIOUS
<1>2. /\ HostSays(in) /\ Grant(others) /\ Receive(in) /\ Follow(start, j, kill)
      /\ RequestFsm(s, n, a, gnt, in) /\ CtrlPipe /\ AddrCnt(s, j.host % CarrierSpan, in)
      /\ lag' = IF P2lRdy THEN 0 ELSE IF in.valid THEN lag + 1 ELSE lag
  BY DEF ClkEdge, Clk, RequestTick
<1>3. ~start => (a <=> job.st \in {"killed", "aborting", "aborted"})
  BY DEF Aborting
<1>4. /\ start => p2l_state = "P2L_IDLE" /\ reads = <<>> /\ job.st \notin {"run", "killed", "aborting"}
      /\ kill => ~start
  BY DEF ClkEdge
<1> HIDE DEF s, n, a
<1>5. \E s1, n1 \in BOOLEAN :
        (start <=> s1 \/ n1) /\ RequestFsm(s1, n1, a, gnt, in) /\ (\E c : AddrCnt(s1, c, in))
  BY <1>1, <1>2
<1>6. Controls(start, kill, others, a, in)
  BY <1>2, <1>3, <1>4, <1>5, Zenon DEF Controls
<1> QED BY <1>6 DEF a

(* The next state of the job, when it is not started. *)
LEMMA JobStep ==
  ASSUME TInv, Pulses, NEW j, NEW kill \in BOOLEAN, Follow(FALSE, j, kill)
  PROVE  /\ job.st = "killed" => job'.st = "aborting"
         /\ job.st = "aborting" => job'.st = "aborted"
         /\ job.st \notin {"run", "killed", "aborting"} => job' = job
         /\ job.st = "run" => job'.st = IF kill THEN "killed"
                                       ELSE IF completion_error THEN "error"
                                       ELSE IF pdm_done \/ next_item_valid THEN "done" ELSE "run"
         /\ job'.host = job.host /\ job'.len = job.len /\ job'.item = job.item
  BY DEF Follow, TInv, HostTypes, Running, Pulses

(* An edge keeps the lines of the FSM in step with its state. *)
LEMMA LinesStep ==
  ASSUME TInv, Lines, NEW start, NEW kill, NEW others \in BOOLEAN, NEW a, NEW in,
         Controls(start, kill, others, a, in)
  PROVE  Lines'
<1>1. PICK s \in BOOLEAN, n \in BOOLEAN : RequestFsm(s, n, a, gnt, in)
  BY DEF Controls
<1>2. Grant(others)
  BY DEF Controls
<1>3. gnt /\ (pdm_req \/ ~pdm_valid \/ pdm_dframe) => gnt'
  BY <1>2 DEF Grant
<1> USE DEF Lines, InPacket, Wait
<1>4. CASE P2lIdle(s, n)
  BY <1>3, <1>4 DEF P2lIdle
<1>5. CASE P2lHeader(gnt)
  BY <1>3, <1>5 DEF P2lHeader
<1>6. CASE P2lAddrH
  BY <1>3, <1>6 DEF P2lAddrH
<1>7. CASE P2lAddrL
  BY <1>3, <1>7 DEF P2lAddrL, ReadLow
<1>8. CASE P2lWait(a, in)
  BY <1>3, <1>8 DEF P2lWait
<1> QED BY <1>1, <1>4, <1>5, <1>6, <1>7, <1>8 DEF RequestFsm

(* The pulses of the master stay apart over an edge. *)
LEMMA PulsesStep ==
  ASSUME TInv, Pulses, NEW start \in BOOLEAN, NEW kill \in BOOLEAN, NEW others \in BOOLEAN,
         NEW a \in BOOLEAN, NEW in, Controls(start, kill, others, a, in)
  PROVE  Pulses'
<1>1. PICK s \in BOOLEAN, n \in BOOLEAN :
        (start <=> s \/ n) /\ RequestFsm(s, n, a, gnt, in) /\ (\E c : AddrCnt(s, c, in))
  BY DEF Controls
<1>2. ~dma_busy_error'
  BY <1>1 DEF AddrCnt, Controls, Pulses
<1>3. pdm_done' = pdm_done_t
  BY DEF Controls, CtrlPipe
<1>4. PICK j \in ReadJobs \cup {job} : Follow(start, j, kill)
  BY DEF Controls
<1>5. start => p2l_state = "P2L_IDLE" /\ job.st \notin {"run", "killed"} /\ job'.st = "run"
  BY <1>4 DEF Controls, Follow
<1>6. ~start => /\ job.st = "killed" => job'.st = "aborting"
                /\ job.st = "aborting" => job'.st = "aborted"
                /\ job.st \notin {"run", "killed", "aborting"} => job' = job
                /\ job.st = "run" => job'.st = IF kill THEN "killed"
                                       ELSE IF completion_error THEN "error"
                                       ELSE IF pdm_done \/ next_item_valid THEN "done" ELSE "run"
  <2> SUFFICES ASSUME ~start PROVE Follow(FALSE, j, kill)
    BY JobStep
  <2> QED BY <1>4
<1>7. CASE P2lIdle(s, n)
  <2>1. /\ p2l_state = "P2L_IDLE" /\ ~pdm_done_t' /\ ~next_item_valid' /\ ~completion_error'
        /\ p2l_state' = IF start THEN "P2L_HEADER" ELSE "P2L_IDLE"
    BY <1>1, <1>7 DEF P2lIdle
  <2> QED BY <1>2, <1>3, <1>5, <1>6, <2>1 DEF Pulses
<1>8. CASE p2l_state \in {"P2L_HEADER", "P2L_ADDR_H", "P2L_ADDR_L"}
  <2>1. UNCHANGED <<pdm_done_t, next_item_valid, completion_error>> /\ ~start
    BY <1>1, <1>5, <1>8 DEF RequestFsm, P2lIdle, P2lHeader, P2lAddrH, P2lAddrL, P2lWait
  <2> QED BY <1>2, <1>3, <1>6, <1>8, <2>1 DEF Pulses
<1>9. CASE P2lWait(a, in)
  <2>1. p2l_state = Wait /\ ~start /\ (~a => job.st = "run") /\ p2l_state' \in {"P2L_IDLE", "P2L_HEADER", Wait}
    BY <1>5, <1>9 DEF P2lWait, Wait, Controls, Pulses
  <2>2. ~pdm_done_t /\ ~next_item_valid /\ ~completion_error /\ ~pdm_done
    BY <2>1 DEF Pulses, Wait
  <2>3. /\ pdm_done_t' \/ next_item_valid' \/ completion_error' => p2l_state' = "P2L_IDLE" /\ ~a
        /\ ~(pdm_done_t' /\ next_item_valid') /\ ~(completion_error' /\ (pdm_done_t' \/ next_item_valid'))
    BY <1>9, <2>2 DEF P2lWait
  <2>4. job.st \in {"run", "killed", "aborting", "aborted"}
    BY <2>1 DEF Pulses, Wait
  <2>5. /\ job'.st \in {"run", "killed", "aborting", "aborted"}
        /\ ~a => job'.st \in {"run", "killed"}
    BY <1>6, <2>1, <2>2, <2>4
  <2> QED BY <1>2, <1>3, <2>2, <2>3, <2>5 DEF Pulses
<1> QED BY <1>1, <1>7, <1>8, <1>9 DEF RequestFsm, P2lHeader, P2lAddrH, P2lAddrL

(* An edge keeps the mark of an abort in step with the FSM. *)
LEMMA AbortsStep ==
  ASSUME TInv, Pulses, Lines, Aborts, NEW start \in BOOLEAN, NEW kill \in BOOLEAN,
         NEW others \in BOOLEAN, NEW a \in BOOLEAN, NEW in, Controls(start, kill, others, a, in)
  PROVE  Aborts'
<1>1. PICK s \in BOOLEAN, n \in BOOLEAN :
        (start <=> s \/ n) /\ RequestFsm(s, n, a, gnt, in) /\ (\E c : AddrCnt(s, c, in))
  BY DEF Controls
<1>2. PICK j \in ReadJobs \cup {job} : Follow(start, j, kill)
  BY DEF Controls
<1>3. start => p2l_state = "P2L_IDLE" /\ job'.st = "run"
  BY <1>2 DEF Controls, Follow
<1>4. p2l_state = Wait => /\ ~start /\ (~a => job.st = "run")
                         /\ job.st \in {"run", "killed", "aborting", "aborted"}
  BY <1>3 DEF Pulses, Wait, Controls
<1>5. ~start => /\ job.st = "run" => job'.st \in {"run", "killed", "error", "done"}
                /\ job.st = "killed" => job'.st = "aborting"
  <2> SUFFICES ASSUME ~start PROVE Follow(FALSE, j, kill)
    BY JobStep
  <2> QED BY <1>2
<1>6. p2l_state = Wait /\ job.st = "run" => job'.st \in {"run", "killed"}
  <2> SUFFICES ASSUME p2l_state = Wait, job.st = "run" PROVE job'.st \in {"run", "killed"}
    OBVIOUS
  <2>1. ~completion_error /\ ~pdm_done /\ ~next_item_valid
    BY DEF Pulses, Wait
  <2>2. Follow(FALSE, j, kill)
    BY <1>2, <1>4
  <2> QED BY <2>1, <2>2, JobStep
<1>7. p2l_state' = Wait /\ job'.st \in {"aborting", "aborted"} => pdm_valid'
  <2>1. CASE p2l_state = "P2L_ADDR_L"
    BY <1>1, <2>1 DEF RequestFsm, P2lIdle, P2lHeader, P2lAddrH, P2lAddrL, P2lWait, Lines, InPacket, Wait
  <2>2. CASE p2l_state = Wait
    <3>1. a => p2l_state' # Wait
      BY <1>1, <2>2 DEF RequestFsm, P2lIdle, P2lHeader, P2lAddrH, P2lAddrL, P2lWait, Wait
    <3> QED BY <1>4, <1>6, <2>2, <3>1
  <2>3. CASE p2l_state \notin {"P2L_ADDR_L", Wait}
    BY <1>1, <2>3 DEF RequestFsm, P2lIdle, P2lHeader, P2lAddrH, P2lAddrL, P2lWait, Wait
  <2> QED BY <2>1, <2>2, <2>3
<1>8. ASSUME p2l_state' = "P2L_IDLE", to_wb_fifo_wr'
      PROVE  job'.st \in {"run", "killed", "aborting"} \/ reads' # <<>>
  <2>1. CASE start
    BY <1>3, <2>1
  <2>2. CASE ~start
    <3>1. p2l_state = Wait /\ in.valid
      BY <1>1, <1>8, <2>2 DEF AddrCnt, Wait
    <3>2. CASE job.st \in {"run", "killed"}
      BY <1>5, <1>6, <2>2, <3>1, <3>2
    <3>3. CASE job.st \in {"aborting", "aborted"}
      <4>1. gnt /\ pdm_valid /\ ~pdm_dframe /\ pdm_word.kind = "low"
        BY <3>1, <3>3 DEF Aborts, Lines
      <4>2. PICK r : reads' = Append(Answered(in), r)
        BY <4>1 DEF Controls, Receive
      <4>3. Answered(in) \in Seq(Request)
        BY AnsweredTypes DEF TInv, Controls
      <4> QED BY <4>2, <4>3
    <3> QED BY <1>4, <3>1, <3>2, <3>3
  <2> QED BY <2>1, <2>2
<1> QED BY <1>7, <1>8 DEF Aborts

(* An edge leaves room in the FIFO for what the GN4124 still sends. *)
LEMMA RoomStep ==
  ASSUME TInv, Aborts, Room, NEW start \in BOOLEAN, NEW kill \in BOOLEAN,
         NEW others \in BOOLEAN, NEW a \in BOOLEAN, NEW in, Controls(start, kill, others, a, in)
  PROVE  Room'
<1> DEFINE n == Len(to_wb_fifo)
           w == IF to_wb_fifo_wr THEN 1 ELSE 0
           m == Len(to_wb_fifo')
           v == IF to_wb_fifo_wr' THEN 1 ELSE 0
<1>0. RdyLag \in Nat /\ ToWbFull \in Nat
  BY P2lDmaConstants, WriteConstants
<1>1. PICK s \in BOOLEAN : (s => start) /\ (\E c : AddrCnt(s, c, in))
  BY DEF Controls
<1>2. to_wb_fifo \in Seq(Nat \X Nat)
  BY DEF TInv, TypeOK, RequestTypeOK
<1>3. n \in Nat /\ w \in 0 .. 1 /\ v \in 0 .. 1 /\ m = n + w
  BY <1>1, <1>2 DEF AddrCnt
<1>4. start => w = 0
  BY DEF Controls, Aborts
<1>5. in.valid \in BOOLEAN /\ (in.valid => n < ToWbFull \/ lag < RdyLag)
  BY InputForm DEF TInv, Controls, MaySend, P2lRdy
<1>6. v = 1 => in.valid \/ (start /\ w = 1)
  BY <1>1 DEF AddrCnt
<1>7. lag' = IF n < ToWbFull THEN 0 ELSE IF in.valid THEN lag + 1 ELSE lag
  BY DEF Controls, P2lRdy
<1>8. lag \in 0 .. RdyLag /\ n + w <= ToWbFull + 1 + lag
  BY DEF Room
<1> HIDE DEF n, w, m, v
<1>9. lag' \in 0 .. RdyLag
  <2>1. CASE n < ToWbFull
    BY <1>0, <1>7, <2>1
  <2>2. CASE ~(n < ToWbFull) /\ in.valid
    BY <1>0, <1>5, <1>7, <1>8, <2>2
  <2>3. CASE ~(n < ToWbFull) /\ ~in.valid
    BY <1>0, <1>7, <1>8, <2>3
  <2> QED BY <2>1, <2>2, <2>3
<1>10. m + v <= ToWbFull + 1 + lag'
  <2>1. CASE n < ToWbFull
    <3>1. n + w + v <= ToWbFull + 1
      BY <1>0, <1>3, <2>1
    <3> QED BY <1>3, <1>7, <2>1, <3>1, <1>0
  <2>2. CASE ~(n < ToWbFull) /\ in.valid
    <3>1. n + w + v <= ToWbFull + 1 + (lag + 1)
      BY <1>0, <1>3, <1>8
    <3> QED BY <1>3, <1>7, <2>2, <3>1
  <2>3. CASE ~(n < ToWbFull) /\ ~in.valid
    <3>1. v = 0
      BY <1>3, <1>4, <1>6, <2>3
    <3> QED BY <1>0, <1>3, <1>7, <1>8, <2>3, <3>1
  <2> QED BY <1>5, <2>1, <2>2, <2>3
<1> QED BY <1>9, <1>10 DEF Room, m, v

(* The FIFO has room after reset. *)
LEMMA RoomInit == Init => RInv
<1> SUFFICES ASSUME Init PROVE RInv
  OBVIOUS
<1>1. /\ p2l_state = "P2L_IDLE" /\ ~pdm_done_t /\ ~pdm_done /\ ~next_item_valid
      /\ ~completion_error /\ ~dma_busy_error /\ ~pdm_req /\ ~pdm_valid
      /\ to_wb_fifo = <<>> /\ ~to_wb_fifo_wr /\ lag = 0
  BY DEF Init, RequestInit
<1>2. Pulses /\ Lines /\ Aborts
  BY <1>1 DEF Pulses, Lines, Aborts, InPacket, Wait
<1>3. Room
  BY <1>1, P2lDmaConstants, WriteConstants DEF Room
<1> QED BY <1>2, <1>3 DEF RInv

(* Every edge of either clock leaves room in the FIFO. *)
LEMMA RoomNext ==
  "late" \notin HostEnv => (TInv /\ RInv /\ [Next]_vars => RInv')
<1> SUFFICES ASSUME "late" \notin HostEnv, TInv, RInv, [Next]_vars PROVE RInv'
  OBVIOUS
<1>1. CASE ClkTick
  <2>1. PICK start \in BOOLEAN, kill \in BOOLEAN, others \in BOOLEAN, j \in ReadJobs \cup {job},
             in \in Inputs : ClkEdge(start, j, kill, others, in)
    BY <1>1, TickCases
  <2>2. Controls(start, kill, others, Aborting /\ ~start, in)
    BY <2>1, EdgeControls
  <2>3. (Aborting /\ ~start) \in BOOLEAN
    BY DEF Aborting
  <2> QED BY <2>2, <2>3, LinesStep, PulsesStep, AbortsStep, RoomStep DEF RInv
<1>2. CASE UNCHANGED <<requestVars, hostVars>> /\ (to_wb_fifo' = to_wb_fifo \/ (to_wb_fifo # <<>> /\ to_wb_fifo' = Tail(to_wb_fifo)))
  <2>1. UNCHANGED <<p2l_state, pdm_done_t, pdm_done, next_item_valid, completion_error,
                    dma_busy_error, pdm_req, pdm_valid, pdm_dframe, pdm_word, gnt, job, reads,
                    to_wb_fifo_wr, lag>>
    BY <1>2 DEF requestVars, requestFsmVars, captureVars, hostVars
  <2>2. Pulses' /\ Lines' /\ Aborts'
    BY <2>1 DEF RInv, Pulses, Lines, Aborts
  <2>3. to_wb_fifo \in Seq(Nat \X Nat)
    BY DEF TInv, TypeOK, RequestTypeOK
  <2>4. Len(to_wb_fifo') <= Len(to_wb_fifo) /\ Len(to_wb_fifo') \in Nat /\ Len(to_wb_fifo) \in Nat
    BY <1>2, <2>3
  <2>5. ToWbFull \in Nat /\ RdyLag \in Nat
    BY P2lDmaConstants, WriteConstants
  <2>6. Room'
    <3> DEFINE n == Len(to_wb_fifo)
               m == Len(to_wb_fifo')
               w == IF to_wb_fifo_wr THEN 1 ELSE 0
    <3>1. lag \in 0 .. RdyLag /\ n + w <= ToWbFull + 1 + lag /\ w \in 0 .. 1
      BY DEF RInv, Room
    <3>2. m <= n /\ m \in Nat /\ n \in Nat
      BY <2>4
    <3>3. Room' <=> lag' \in 0 .. RdyLag /\ m + w <= ToWbFull + 1 + lag'
      BY <2>1 DEF Room
    <3> HIDE DEF n, m, w
    <3>4. m + w <= ToWbFull + 1 + lag
      BY <2>5, <3>1, <3>2
    <3> QED BY <2>1, <3>1, <3>3, <3>4
  <2> QED BY <2>2, <2>6 DEF RInv
<1>3. CASE DmaClkTick
  BY <1>2, <1>3 DEF DmaClkTick, DmaClk, WriterTick, ToWbFifoRd
<1>4. CASE UNCHANGED vars
  BY <1>2, <1>4 DEF vars
<1> QED BY <1>1, <1>3, <1>4 DEF Next

(* The FIFO to the Wishbone writer is never written when it is full: what  *)
(* the GN4124 still sends after P2L_RDY fell fits in the margin, also when *)
(* a job is refused or aborted, when the host writes registers meanwhile   *)
(* and when the carrier stalls, as long as no job starts while the host    *)
(* still owes words of another.                                            *)
THEOREM ToWbFifoHolds == "late" \notin HostEnv => (Spec => []NoOverflow)
<1> SUFFICES ASSUME "late" \notin HostEnv PROVE Spec => []NoOverflow
  OBVIOUS
<1>1. TInv /\ RInv => NoOverflow
  <2> SUFFICES ASSUME TInv, RInv PROVE NoOverflow
    OBVIOUS
  <2> DEFINE n == Len(to_wb_fifo)
             w == IF to_wb_fifo_wr THEN 1 ELSE 0
  <2>1. lag \in 0 .. RdyLag /\ n + w <= ToWbFull + 1 + lag /\ w \in 0 .. 1
    BY DEF RInv, Room
  <2>2. n \in Nat
    BY DEF TInv, TypeOK, RequestTypeOK
  <2>3. ToWbSize \in Nat /\ ToWbSize >= ToWbFull + RdyLag + 1 /\ RdyLag \in Nat /\ ToWbFull \in Nat
    BY ToWbMargin, P2lDmaConstants, WriteConstants
  <2> HIDE DEF n, w
  <2> QED BY <2>1, <2>2, <2>3 DEF NoOverflow, n
<1>2. TInv /\ RInv /\ [Next]_vars => RInv'
  BY RoomNext
<1> QED BY <1>1, <1>2, TypesInit, TypesNext, RoomInit, PTL DEF Spec

-----------------------------------------------------------------------------
(***************************************************************************)
(* The words of a job.  A well-behaved host answers one request a job and  *)
(* writes no register while the master waits; carrier addresses are host   *)
(* addresses modulo a divisor of the host's span.                          *)
(***************************************************************************)
Orderly == /\ "late" \notin HostEnv /\ "write" \notin HostEnv
           /\ \A j \in ReadJobs : j.len <= MaxRead
           /\ HostSpan % CarrierSpan = 0

Packing == {"P2L_HEADER"} \cup InPacket
Fresh   == p2l_state = Wait /\ pdm_valid     \* first tick of the wait
Waiting == p2l_state = Wait /\ ~pdm_valid
Got == job.len - p2l_data_cnt                \* words of the job received

(* The request follows the job from the registers to the wire, and the     *)
(* counters follow what the host still owes of it.                         *)
JobFlow ==
  /\ gnt => p2l_state \in Packing \/ Fresh
  /\ p2l_state # "P2L_IDLE" => job.len \in 1 .. MaxRead /\ is_next_item = job.item
  /\ p2l_state \in Packing =>
        /\ reads = <<>> /\ pdm_len_cnt = job.len
        /\ pdm_address_h = job.host \div LowSpan /\ pdm_address_l = job.host % LowSpan
  /\ p2l_state \in Packing /\ ~pdm_64b => pdm_address_h = 0
  /\ p2l_state \in Packing \/ Fresh => job.item \/ p2l_addr_cnt = job.host % CarrierSpan
  /\ p2l_state \in InPacket \cup {Wait} \/ (p2l_state = "P2L_HEADER" /\ gnt) =>
        pdm_len_header = job.len % LenSpan /\ pdm_last_packet
Packet ==
  /\ p2l_state = "P2L_ADDR_H" \/ (p2l_state = "P2L_ADDR_L" /\ ~pdm_64b) =>
        pdm_word.kind = "read" /\ pdm_word.len = pdm_len_header
  /\ p2l_state = "P2L_ADDR_H" => pdm_64b
  /\ p2l_state = "P2L_ADDR_L" /\ pdm_64b =>
        /\ pdm_word.kind = "high" /\ pdm_word.addr = pdm_address_h
        /\ rx = [len |-> pdm_len_header, base |-> 0]
  /\ Fresh => /\ reads = <<>> /\ p2l_data_cnt = job.len
              /\ pdm_word.addr = job.host % LowSpan
              /\ rx = [len |-> pdm_len_header, base |-> (job.host \div LowSpan) * LowSpan]
  /\ Waiting => /\ p2l_data_cnt \in 1 .. job.len
                /\ reads = <<[at |-> (job.host + Got) % HostSpan, left |-> p2l_data_cnt]>>
                /\ job.item \/ p2l_addr_cnt = (job.host + Got) % CarrierSpan
Flow == JobFlow /\ Packet

(* A word on its way belongs to a job and goes to its own address. *)
Fits(p) == p[1] = p[2] % CarrierSpan /\ p[2] \in want
Wanted ==
  /\ p2l_state # "P2L_IDLE" /\ ~job.item => Words(job) \subseteq want
  /\ \A i \in DOMAIN to_wb_fifo : Fits(to_wb_fifo[i])
  /\ to_wb_fifo_wr => Fits(to_wb_fifo_din)
  /\ to_wb_fifo_valid => Fits(to_wb_fifo_dout)
  /\ p2l_stb => Fits(<<p2l_adr, p2l_dat>>)

(* The registers of a chain item fill in order. *)
ItemFilled ==
  /\ p2l_state # "P2L_IDLE" /\ job.item => job.len = ItemWords
  /\ p2l_state = Wait /\ job.item =>
        \A i \in 1 .. Got : next_item[i] = (job.host + i - 1) % HostSpan
  /\ next_item_valid => job.item

(* An edge of clk_i seen from the job. *)
Step(start, j, a, in) ==
  /\ start => /\ j \in ReadJobs /\ p2l_state = "P2L_IDLE" /\ reads = <<>>
              /\ job'.host = j.host /\ job'.len = j.len /\ job'.item = j.item
              /\ want' = IF j.item THEN want ELSE want \cup Words(j)
  /\ ~start => /\ job'.host = job.host /\ job'.len = job.len /\ job'.item = job.item
               /\ want' = want
  /\ ReadReq(start /\ ~j.item, start /\ j.item, j.host \div LowSpan, j.host % LowSpan, j.len)
  /\ RequestFsm(start /\ ~j.item, start /\ j.item, a, gnt, in)
  /\ RecvDataCnt(in) /\ NextItem(in) /\ AddrCnt(start /\ ~j.item, j.host % CarrierSpan, in)
  /\ HostSays(in) /\ Receive(in) /\ (\E others : Grant(others))
  /\ UNCHANGED <<writerVars, carrier>>

(* An edge of clk_i as the job sees it. *)
LEMMA EdgeSteps ==
  ASSUME TInv, RInv, Orderly,
         NEW start \in BOOLEAN, NEW kill \in BOOLEAN, NEW others \in BOOLEAN,
         NEW j \in ReadJobs \cup {job}, NEW in, ClkEdge(start, j, kill, others, in)
  PROVE  Step(start, j, Aborting /\ ~start, in)
<1>1. Clk(start, j, kill, others, in) /\ Follow(start, j, kill)
  BY DEF ClkEdge, Clk
<1>2. start => /\ j \in ReadJobs /\ p2l_state = "P2L_IDLE" /\ reads = <<>>
               /\ job'.host = j.host /\ job'.len = j.len /\ job'.item = j.item
               /\ want' = IF j.item THEN want ELSE want \cup Words(j)
  BY <1>1 DEF ClkEdge, Follow, Orderly
<1>3. ~start => /\ job'.host = job.host /\ job'.len = job.len /\ job'.item = job.item
                /\ want' = want
  <2> SUFFICES ASSUME ~start PROVE Follow(FALSE, j, kill) /\ want' = want
    BY JobStep DEF RInv
  <2> QED BY <1>1 DEF Follow
<1> QED BY <1>1, <1>2, <1>3 DEF Step, Clk, RequestTick

(* A host that owes nothing says nothing the master would take. *)
LEMMA NothingOwed ==
  ASSUME TInv, NEW in, HostSays(in), reads = <<>>
  PROVE  ~in.cpld /\ ~in.cpln /\ Answered(in) = <<>>
<1>1. ~in.cpld /\ ~in.cpln
  BY InputForm DEF TInv
<1> QED BY <1>1 DEF Answered

(* The job as the constants allow it. *)
LEMMA JobForm ==
  ASSUME TInv, Orderly
  PROVE  /\ LowSpan \in Nat \ {0} /\ HostSpan \in Nat \ {0} /\ CarrierSpan \in Nat \ {0}
         /\ LenSpan \in Nat \ {0} /\ MaxRead \in 1 .. LenSpan /\ HostSpan % CarrierSpan = 0
         /\ job.host \in 0 .. HostSpan - 1 /\ job.len \in Nat /\ job.item \in BOOLEAN
         /\ \A j \in ReadJobs : /\ j.host \in 0 .. HostSpan - 1 /\ j.len \in 1 .. MaxRead
                                /\ j.item \in BOOLEAN /\ (j.item => j.len = ItemWords)
<1>1. /\ LowSpan \in Nat \ {0} /\ HostSpan \in Nat \ {0} /\ CarrierSpan \in Nat \ {0}
      /\ LenSpan \in Nat \ {0} /\ MaxRead \in 1 .. LenSpan /\ HostSpan % CarrierSpan = 0
  BY P2lDmaConstants, RequestConstants DEF HostSpan, Orderly
<1>2. job.host \in 0 .. HostSpan - 1 /\ job.len \in Nat /\ job.item \in BOOLEAN
  BY <1>1 DEF TInv, HostTypes
<1>3. ASSUME NEW j \in ReadJobs
      PROVE  /\ j.host \in 0 .. HostSpan - 1 /\ j.len \in 1 .. MaxRead
             /\ j.item \in BOOLEAN /\ (j.item => j.len = ItemWords)
  <2>1. j \in [host : 0 .. HostSpan - 1, len : 1 .. HostSpan, item : BOOLEAN] /\ (j.item => j.len = ItemWords)
    BY P2lDmaConstants
  <2>2. j.len <= MaxRead
    BY DEF Orderly
  <2> QED BY <1>1, <2>1, <2>2
<1> QED BY <1>1, <1>2, <1>3

(* The idle FSM, and the one whose request waits for the grant. *)
LEMMA FlowIdle ==
  ASSUME TInv, RInv, Orderly, Flow, NEW start \in BOOLEAN, NEW j, NEW a \in BOOLEAN, NEW in,
         Step(start, j, a, in), p2l_state = "P2L_IDLE"
  PROVE  Flow'
<1>1. ~pdm_valid /\ ~pdm_req /\ ~gnt
  BY DEF RInv, Lines, Flow, JobFlow, InPacket, Wait, Packing, Fresh
<1>2. ~gnt' /\ ~pdm_valid'
  <2>1. \E others : Grant(others)
    BY DEF Step
  <2>2. ~gnt'
    BY <1>1, <2>1 DEF Grant
  <2>3. pdm_valid' = pdm_valid
    BY DEF Step, RequestFsm, P2lIdle, P2lHeader, P2lAddrH, P2lAddrL, P2lWait
  <2> QED BY <1>1, <2>2, <2>3
<1>3. CASE ~start
  <2>1. p2l_state' = "P2L_IDLE"
    BY <1>3 DEF Step, RequestFsm, P2lIdle, P2lHeader, P2lAddrH, P2lAddrL, P2lWait
  <2> QED BY <1>2, <2>1 DEF Flow, JobFlow, Packet, Packing, InPacket, Wait, Fresh, Waiting
<1>4. CASE start
  <2>0. /\ j \in ReadJobs /\ reads = <<>> /\ j.item \in BOOLEAN /\ j.len \in 1 .. MaxRead
        /\ job'.host = j.host /\ job'.len = j.len /\ job'.item = j.item
    BY <1>4, JobForm DEF Step
  <2>1. p2l_state' = "P2L_HEADER"
    BY <1>4, <2>0 DEF Step, RequestFsm, P2lIdle, P2lHeader, P2lAddrH, P2lAddrL, P2lWait
  <2>2. reads' = <<>>
    BY <1>1, <2>0, NothingOwed DEF Step, Receive
  <2>3. /\ pdm_address_h' = j.host \div LowSpan /\ pdm_address_l' = j.host % LowSpan
        /\ pdm_len_cnt' = j.len /\ is_next_item' = j.item /\ pdm_64b' = (pdm_address_h' # 0)
    BY <1>4, <2>0 DEF Step, ReadReq
  <2>4. ~j.item => p2l_addr_cnt' = j.host % CarrierSpan
    BY <1>4 DEF Step, AddrCnt
  <2> QED BY <1>2, <2>0, <2>1, <2>2, <2>3, <2>4
          DEF Flow, JobFlow, Packet, Packing, InPacket, Wait, Fresh, Waiting
<1> QED BY <1>3, <1>4

(* Sending the header keeps the counters in step with the job. *)
LEMMA FlowHeader ==
  ASSUME TInv, RInv, Orderly, Flow, NEW start \in BOOLEAN, NEW j, NEW a \in BOOLEAN, NEW in,
         Step(start, j, a, in), p2l_state = "P2L_HEADER"
  PROVE  Flow'
<1> USE DEF Packing, InPacket, Wait
<1>1. /\ ~pdm_valid /\ ~start /\ reads = <<>> /\ pdm_len_cnt = job.len /\ job.len \in 1 .. MaxRead
      /\ pdm_address_h = job.host \div LowSpan /\ pdm_address_l = job.host % LowSpan
      /\ is_next_item = job.item
      /\ ~pdm_64b => pdm_address_h = 0
      /\ job.item \/ p2l_addr_cnt = job.host % CarrierSpan
      /\ gnt => pdm_len_header = job.len % LenSpan
  BY DEF RInv, Lines, Flow, JobFlow, Step
<1>2. LenSpan \in Nat \ {0} /\ MaxRead \in 1 .. LenSpan
  BY JobForm
<1>3. /\ pdm_len_header' = job.len % LenSpan /\ pdm_last_packet'
      /\ UNCHANGED <<pdm_address_h, pdm_address_l, pdm_len_cnt, pdm_64b, is_next_item>>
  <2>1. /\ pdm_len_header' = (IF pdm_len_cnt > MaxRead THEN MaxRead ELSE pdm_len_cnt) % LenSpan
        /\ pdm_last_packet' = (pdm_len_cnt <= MaxRead)
        /\ UNCHANGED <<pdm_address_h, pdm_address_l, pdm_len_cnt, pdm_64b, is_next_item>>
    BY DEF Step, ReadReq
  <2>2. (IF pdm_len_cnt > MaxRead THEN MaxRead ELSE pdm_len_cnt) = job.len /\ pdm_len_cnt <= MaxRead
    BY <1>1, <1>2
  <2> QED BY <2>1, <2>2
<1>4. reads' = <<>>
  BY <1>1, NothingOwed DEF Step, Receive
<1>5. p2l_addr_cnt' = p2l_addr_cnt
  BY <1>1 DEF Step, AddrCnt
<1>6. job'.host = job.host /\ job'.len = job.len /\ job'.item = job.item
  BY <1>1 DEF Step
<1>7. P2lHeader(gnt)
  BY DEF Step, RequestFsm, P2lIdle, P2lAddrH, P2lAddrL, P2lWait
<1>8. CASE ~gnt
  <2>1. p2l_state' = "P2L_HEADER" /\ ~pdm_valid'
    BY <1>1, <1>7, <1>8 DEF P2lHeader
  <2> QED BY <1>1, <1>3, <1>4, <1>5, <1>6, <2>1
          DEF Flow, JobFlow, Packet, Fresh, Waiting
<1>9. CASE gnt
  <2>1. /\ p2l_state' = IF pdm_64b THEN "P2L_ADDR_H" ELSE "P2L_ADDR_L"
        /\ pdm_word' = ReadHeader(pdm_len_header, pdm_64b)
    BY <1>7, <1>9 DEF P2lHeader
  <2>2. pdm_word'.kind = "read" /\ pdm_word'.len = pdm_len_header
    BY <2>1 DEF ReadHeader
  <2> QED BY <1>1, <1>3, <1>4, <1>5, <1>6, <1>9, <2>1, <2>2
          DEF Flow, JobFlow, Packet, Fresh, Waiting
<1> QED BY <1>8, <1>9

(* The words of the request reach the GN4124. *)
LEMMA FlowAddrH ==
  ASSUME TInv, RInv, Orderly, Flow, NEW start \in BOOLEAN, NEW j, NEW a \in BOOLEAN, NEW in,
         Step(start, j, a, in), p2l_state = "P2L_ADDR_H"
  PROVE  Flow'
<1> USE DEF Packing, InPacket, Wait
<1>1. /\ gnt /\ pdm_valid /\ ~start /\ reads = <<>> /\ pdm_len_cnt = job.len /\ job.len \in 1 .. MaxRead
      /\ pdm_address_h = job.host \div LowSpan /\ pdm_address_l = job.host % LowSpan
      /\ is_next_item = job.item
      /\ ~pdm_64b => pdm_address_h = 0
      /\ job.item \/ p2l_addr_cnt = job.host % CarrierSpan
      /\ pdm_len_header = job.len % LenSpan /\ pdm_last_packet
      /\ pdm_word.kind = "read" /\ pdm_word.len = pdm_len_header
  BY DEF RInv, Lines, Flow, JobFlow, Packet, Step
<1>2. UNCHANGED readReqVars
  BY DEF Step, ReadReq
<1>3. reads' = <<>> /\ rx' = [len |-> pdm_len_header, base |-> 0]
  BY <1>1, NothingOwed DEF Step, Receive
<1>4. p2l_addr_cnt' = p2l_addr_cnt /\ job'.host = job.host /\ job'.len = job.len /\ job'.item = job.item
  BY <1>1 DEF Step, AddrCnt
<1>5. p2l_state' = "P2L_ADDR_L" /\ pdm_word' = ReadHigh(pdm_address_h)
  BY DEF Step, RequestFsm, P2lIdle, P2lHeader, P2lAddrH, P2lAddrL, P2lWait
<1>6. pdm_word'.kind = "high" /\ pdm_word'.addr = pdm_address_h
  BY <1>5 DEF ReadHigh
<1>7. pdm_64b
  BY DEF Flow, Packet
<1> QED BY <1>1, <1>2, <1>3, <1>4, <1>5, <1>6, <1>7
        DEF Flow, JobFlow, Packet, Fresh, Waiting, readReqVars

(* Sending the last address word keeps the counters in step with the job. *)
LEMMA FlowAddrL ==
  ASSUME TInv, RInv, Orderly, Flow, NEW start \in BOOLEAN, NEW j, NEW a \in BOOLEAN, NEW in,
         Step(start, j, a, in), p2l_state = "P2L_ADDR_L"
  PROVE  Flow'
<1> USE DEF Packing, InPacket, Wait
<1>1. /\ gnt /\ pdm_valid /\ pdm_dframe /\ ~start /\ reads = <<>> /\ job.len \in 1 .. MaxRead
      /\ pdm_address_h = job.host \div LowSpan /\ pdm_address_l = job.host % LowSpan
      /\ is_next_item = job.item
      /\ ~pdm_64b => pdm_address_h = 0
      /\ job.item \/ p2l_addr_cnt = job.host % CarrierSpan
      /\ pdm_len_header = job.len % LenSpan /\ pdm_last_packet
      /\ ~pdm_64b => pdm_word.kind = "read" /\ pdm_word.len = pdm_len_header
      /\ pdm_64b => /\ pdm_word.kind = "high" /\ pdm_word.addr = pdm_address_h
                    /\ rx = [len |-> pdm_len_header, base |-> 0]
  BY DEF RInv, Lines, Flow, JobFlow, Packet, Step
<1>2. UNCHANGED <<pdm_len_header, is_next_item, pdm_last_packet>>
  BY DEF Step, ReadReq
<1>3. LowSpan \in Nat \ {0} /\ LenSpan \in Nat \ {0} /\ MaxRead \in 1 .. LenSpan
  BY JobForm
<1>4. reads' = <<>>
  BY <1>1, NothingOwed DEF Step, Receive
<1>5. rx' = [len |-> pdm_len_header, base |-> (job.host \div LowSpan) * LowSpan]
  <2>1. CASE pdm_64b
    <3>1. rx' = [rx EXCEPT !.base = pdm_word.addr * LowSpan]
      BY <1>1, <2>1 DEF Step, Receive
    <3> QED BY <1>1, <2>1, <3>1
  <2>2. CASE ~pdm_64b
    <3>1. rx' = [len |-> pdm_word.len, base |-> 0]
      BY <1>1, <2>2 DEF Step, Receive
    <3>2. (job.host \div LowSpan) * LowSpan = 0
      BY <1>1, <1>3, <2>2
    <3> QED BY <1>1, <2>2, <3>1, <3>2
  <2> QED BY <2>1, <2>2
<1>6. p2l_data_cnt' = job.len
  <2>1. p2l_data_cnt' = IF pdm_len_header = 0 THEN LenSpan ELSE pdm_len_header
    BY DEF Step, RecvDataCnt
  <2>2. \A n \in 1 .. LenSpan : n % LenSpan = IF n = LenSpan THEN 0 ELSE n
    BY <1>3
  <2>3. job.len \in 1 .. LenSpan
    BY <1>1, <1>3
  <2> QED BY <1>1, <1>3, <2>1, <2>2, <2>3
<1>7. p2l_addr_cnt' = p2l_addr_cnt /\ job'.host = job.host /\ job'.len = job.len /\ job'.item = job.item
  BY <1>1 DEF Step, AddrCnt
<1>8. p2l_state' = Wait /\ pdm_word' = ReadLow(pdm_address_l) /\ pdm_valid' = pdm_valid
  BY DEF Step, RequestFsm, P2lIdle, P2lHeader, P2lAddrH, P2lAddrL, P2lWait
<1>9. pdm_word'.addr = pdm_address_l
  BY <1>8 DEF ReadLow
<1> QED BY <1>1, <1>2, <1>4, <1>5, <1>6, <1>7, <1>8, <1>9
        DEF Flow, JobFlow, Packet, Fresh, Waiting

(* The first tick of the wait: the GN4124 takes the last word. *)
LEMMA FreshReads ==
  ASSUME TInv, RInv, Orderly, Flow, NEW in, HostSays(in), Receive(in), Fresh
  PROVE  reads' = <<[at |-> job.host % HostSpan, left |-> job.len]>>
<1>1. /\ gnt /\ pdm_valid /\ ~pdm_dframe /\ pdm_word.kind = "low" /\ reads = <<>>
      /\ job.len \in 1 .. MaxRead /\ pdm_len_header = job.len % LenSpan
      /\ pdm_word.addr = job.host % LowSpan
      /\ rx = [len |-> pdm_len_header, base |-> (job.host \div LowSpan) * LowSpan]
  BY DEF RInv, Lines, Flow, JobFlow, Packet, Fresh, Wait, InPacket
<1>2. /\ LowSpan \in Nat \ {0} /\ LenSpan \in Nat \ {0} /\ MaxRead \in 1 .. LenSpan
      /\ job.host \in 0 .. HostSpan - 1 /\ HostSpan \in Nat
  BY JobForm
<1>3. reads' = Append(Answered(in), [at |-> (rx.base + pdm_word.addr) % HostSpan,
                                     left |-> IF rx.len = 0 THEN LenSpan ELSE rx.len])
  BY <1>1 DEF Receive
<1>4. (IF rx.len = 0 THEN LenSpan ELSE rx.len) = job.len
  <2>1. \A n \in 1 .. LenSpan : n % LenSpan = IF n = LenSpan THEN 0 ELSE n
    BY <1>2
  <2>2. job.len \in 1 .. LenSpan
    BY <1>1, <1>2
  <2> QED BY <1>1, <1>2, <2>1, <2>2
<1>5. rx.base + pdm_word.addr = job.host
  <2>1. \A h \in Nat : (h \div LowSpan) * LowSpan + (h % LowSpan) = h
    BY <1>2, DivMod
  <2>2. job.host \in Nat
    BY <1>2
  <2> QED BY <1>1, <2>1, <2>2
<1>6. Answered(in) = <<>>
  BY <1>1, NothingOwed
<1> QED BY <1>3, <1>4, <1>5, <1>6

(* The wait: the host answers with the next word, refuses or is silent. *)
LEMMA WaitingReads ==
  ASSUME TInv, RInv, Orderly, Flow, NEW in, HostSays(in), Receive(in), RecvDataCnt(in), Waiting
  PROVE  /\ in.valid <=> in.cpld
         /\ in.cpld => in.data = (job.host + Got) % HostSpan /\ ~in.cpln
         /\ in.cpld /\ p2l_data_cnt = 1 => in.last
         /\ in.cpld => p2l_data_cnt' = p2l_data_cnt - 1
         /\ in.cpld /\ p2l_data_cnt > 1 =>
               reads' = <<[at |-> (((job.host + Got) % HostSpan) + 1) % HostSpan,
                           left |-> p2l_data_cnt - 1]>>
         /\ ~in.cpld => p2l_data_cnt' = p2l_data_cnt
         /\ ~in.cpld /\ ~in.cpln => reads' = reads
<1> DEFINE x == (job.host + Got) % HostSpan
           r == [at |-> x, left |-> p2l_data_cnt]
<1>1. /\ p2l_data_cnt \in 1 .. job.len /\ reads = <<r>> /\ ~pdm_valid
      /\ job.len \in 1 .. MaxRead /\ p2l_state = Wait
  BY DEF Flow, JobFlow, Packet, Waiting, Wait
<1>2. LenSpan \in Nat \ {0} /\ MaxRead \in 1 .. LenSpan
  BY JobForm
<1>3. reads' = Answered(in)
  BY <1>1 DEF Receive
<1>4. Head(reads) = r /\ reads # <<>>
  BY <1>1
<1>5. /\ in.valid \in BOOLEAN /\ in.cpld \in BOOLEAN
      /\ in.valid <=> in.cpld
      /\ in.cpld => in.data = x /\ ~in.cpln /\ (in.last \/ p2l_data_cnt > 1)
  BY <1>1, <1>4, InputForm DEF TInv, Orderly
<1>6. in.cpld => p2l_data_cnt' = (p2l_data_cnt - 1) % (2 * LenSpan)
  BY <1>1, <1>5 DEF RecvDataCnt, Wait
<1>7. (p2l_data_cnt - 1) % (2 * LenSpan) = p2l_data_cnt - 1
  <2>1. p2l_data_cnt - 1 \in 0 .. 2 * LenSpan - 1 /\ 2 * LenSpan \in Nat \ {0}
    BY <1>1, <1>2
  <2> QED BY <2>1, ModSmall
<1>8. ~in.cpld => p2l_data_cnt' = p2l_data_cnt
  <2> SUFFICES ASSUME ~in.cpld PROVE p2l_data_cnt' = p2l_data_cnt
    OBVIOUS
  <2>1. p2l_state # "P2L_ADDR_L" /\ ~(in.valid /\ in.cpld)
    BY <1>1 DEF Wait
  <2> QED BY <2>1, Zenon DEF RecvDataCnt
<1>9. in.cpld /\ p2l_data_cnt > 1 =>
         reads' = <<[at |-> (x + 1) % HostSpan, left |-> p2l_data_cnt - 1]>>
  <2> SUFFICES ASSUME in.cpld, p2l_data_cnt > 1
               PROVE  reads' = <<[at |-> (x + 1) % HostSpan, left |-> p2l_data_cnt - 1]>>
    OBVIOUS
  <2> HIDE DEF x
  <2>1. Head(reads).left = p2l_data_cnt /\ p2l_data_cnt # 1
    BY <1>1, <1>4
  <2>2. reads' = [reads EXCEPT ![1] = [at |-> (reads[1].at + 1) % HostSpan, left |-> reads[1].left - 1]]
    BY <1>3, <1>5, <2>1 DEF Answered
  <2>3. reads[1] = r /\ Len(reads) = 1
    BY <1>1
  <2> DEFINE q == [at |-> (x + 1) % HostSpan, left |-> p2l_data_cnt - 1]
  <2>4. reads' = [<<r>> EXCEPT ![1] = q]
    BY <1>1, <2>2, <2>3
  <2> HIDE DEF q, r
  <2>5. reads' = <<q>>
    BY <2>4
  <2> QED BY <2>5 DEF q
<1>10. ~in.cpld /\ ~in.cpln => reads' = reads
  BY <1>3 DEF Answered
<1> QED BY <1>1, <1>5, <1>6, <1>7, <1>8, <1>9, <1>10

(* Receiving words keeps the counters in step with the job. *)
LEMMA FlowWait ==
  ASSUME TInv, RInv, Orderly, Flow, NEW start \in BOOLEAN, NEW j, NEW a \in BOOLEAN, NEW in,
         Step(start, j, a, in), p2l_state = Wait
  PROVE  Flow'
<1>1. /\ ~start /\ ~pdm_req /\ job.len \in 1 .. MaxRead /\ is_next_item = job.item
      /\ pdm_len_header = job.len % LenSpan /\ pdm_last_packet
      /\ job'.host = job.host /\ job'.len = job.len /\ job'.item = job.item
  BY DEF RInv, Lines, Flow, JobFlow, Step, Wait
<1>2. UNCHANGED <<pdm_len_header, is_next_item, pdm_last_packet>>
  BY DEF Step, ReadReq, readReqVars, Wait
<1>3. P2lWait(a, in)
  BY DEF Step, RequestFsm, P2lIdle, P2lHeader, P2lAddrH, P2lAddrL, Wait
<1>4. ~gnt'
  <2>1. PICK others : Grant(others)
    BY DEF Step
  <2>2. gnt => pdm_valid /\ ~pdm_dframe
    BY DEF RInv, Lines, Flow, JobFlow, Packing, InPacket, Fresh, Wait
  <2> QED BY <1>1, <2>1, <2>2 DEF Grant
<1>5. ~pdm_valid' /\ p2l_state' \in {"P2L_IDLE", Wait}
  BY <1>1, <1>3 DEF P2lWait, Wait
<1>6. CASE p2l_state' = "P2L_IDLE"
  BY <1>4, <1>5, <1>6 DEF Flow, JobFlow, Packet, Packing, InPacket, Wait, Fresh, Waiting
<1>7. CASE p2l_state' = Wait
  <2>0. /\ JobFlow'
        /\ Packet' <=> /\ p2l_data_cnt' \in 1 .. job.len
                       /\ reads' = <<[at |-> (job.host + (job.len - p2l_data_cnt')) % HostSpan,
                                      left |-> p2l_data_cnt']>>
                       /\ job.item \/ p2l_addr_cnt' = (job.host + (job.len - p2l_data_cnt')) % CarrierSpan
    <3>1. /\ p2l_state' \notin Packing /\ p2l_state' # "P2L_HEADER" /\ ~Fresh' /\ Waiting'
          /\ p2l_state' # "P2L_ADDR_H" /\ p2l_state' # "P2L_ADDR_L"
      BY <1>5, <1>7 DEF Packing, InPacket, Wait, Fresh, Waiting
    <3>2. job'.len \in 1 .. MaxRead /\ is_next_item' = job'.item
      BY <1>1, <1>2
    <3>3. pdm_len_header' = job'.len % LenSpan /\ pdm_last_packet'
      BY <1>1, <1>2
    <3>4. JobFlow'
      BY <1>4, <3>1, <3>2, <3>3, Zenon DEF JobFlow
    <3>5. Packet' <=> /\ p2l_data_cnt' \in 1 .. job'.len
                      /\ reads' = <<[at |-> (job'.host + (job'.len - p2l_data_cnt')) % HostSpan,
                                     left |-> p2l_data_cnt']>>
                      /\ job'.item \/ p2l_addr_cnt' = (job'.host + (job'.len - p2l_data_cnt')) % CarrierSpan
      BY <3>1, Zenon DEF Packet, Got
    <3> QED BY <1>1, <3>4, <3>5
  <2>1. HostSays(in) /\ Receive(in) /\ RecvDataCnt(in) /\ AddrCnt(FALSE, j.host % CarrierSpan, in)
    BY <1>1 DEF Step
  <2>a. /\ HostSpan \in Nat \ {0} /\ CarrierSpan \in Nat \ {0} /\ job.host \in 0 .. HostSpan - 1
        /\ MaxRead \in Nat
    BY JobForm
  <2>2. CASE Fresh
    <3>1. reads = <<>> /\ p2l_data_cnt = job.len /\ (job.item \/ p2l_addr_cnt = job.host % CarrierSpan)
      BY <2>2 DEF Flow, JobFlow, Packet
    <3>2. reads' = <<[at |-> job.host % HostSpan, left |-> job.len]>>
      BY <2>1, <2>2, FreshReads
    <3>3. ~in.cpld /\ ~in.valid
      BY <2>1, <3>1, InputForm DEF TInv, Orderly
    <3>4. p2l_data_cnt' = p2l_data_cnt
      <4>1. p2l_state # "P2L_ADDR_L" /\ ~(in.valid /\ in.cpld)
        BY <3>3 DEF Wait
      <4> QED BY <2>1, <4>1, Zenon DEF RecvDataCnt
    <3>5. p2l_addr_cnt' = p2l_addr_cnt
      BY <2>1, <3>3 DEF AddrCnt
    <3>6. job.host + (job.len - p2l_data_cnt') = job.host /\ p2l_data_cnt' \in 1 .. job.len
      <4>1. job.len - job.len = 0 /\ job.host + 0 = job.host /\ job.len \in 1 .. job.len
        BY <1>1, <2>a
      <4> QED BY <3>1, <3>4, <4>1
    <3>7. p2l_data_cnt' = job.len
      BY <3>1, <3>4
    <3>8. Packet'
      BY <2>0, <3>1, <3>2, <3>5, <3>6, <3>7
    <3> QED BY <2>0, <3>8 DEF Flow
  <2>3. CASE Waiting
    <3> DEFINE x == job.host + Got
    <3>1. /\ p2l_data_cnt \in 1 .. job.len
          /\ reads = <<[at |-> x % HostSpan, left |-> p2l_data_cnt]>>
          /\ job.item \/ p2l_addr_cnt = x % CarrierSpan
      BY <2>3 DEF Flow, Packet
    <3>2. /\ in.valid <=> in.cpld
          /\ in.cpld => ~in.cpln
          /\ in.cpld /\ p2l_data_cnt = 1 => in.last
          /\ in.cpld => p2l_data_cnt' = p2l_data_cnt - 1
          /\ in.cpld /\ p2l_data_cnt > 1 =>
                reads' = <<[at |-> ((x % HostSpan) + 1) % HostSpan, left |-> p2l_data_cnt - 1]>>
          /\ ~in.cpld => p2l_data_cnt' = p2l_data_cnt
          /\ ~in.cpld /\ ~in.cpln => reads' = reads
      BY <2>1, <2>3, WaitingReads
    <3>3. x \in Int /\ Got = job.len - p2l_data_cnt
      BY <1>1, <2>a, <3>1 DEF Got
    <3>4. ~in.cpln /\ ~(in.cpld /\ p2l_data_cnt = 1)
      <4>1. in.cpld /\ p2l_data_cnt = 1 => RequestServed(in)
        BY <3>2 DEF RequestServed
      <4>2. ~RequestServed(in) /\ ~in.cpln
        BY <1>1, <1>3, <1>7 DEF P2lWait, Wait
      <4> QED BY <4>1, <4>2
    <3>5. CASE in.cpld
      <4>1. p2l_data_cnt > 1 /\ p2l_data_cnt' = p2l_data_cnt - 1 /\ p2l_data_cnt' \in 1 .. job.len
        BY <1>1, <3>1, <3>2, <3>4, <3>5
      <4>2. job.host + (job.len - p2l_data_cnt') = x + 1
        <5>1. \A h \in Int, l \in Int, c \in Int : h + (l - (c - 1)) = (h + (l - c)) + 1
          OBVIOUS
        <5>2. job.len \in Int /\ p2l_data_cnt \in Int /\ job.host \in Int
          BY <1>1, <2>a, <3>1
        <5> QED BY <3>3, <4>1, <5>1, <5>2
      <4>3. ((x % HostSpan) + 1) % HostSpan = (x + 1) % HostSpan
            /\ ((x % CarrierSpan) + 1) % CarrierSpan = (x + 1) % CarrierSpan
        <5>1. \A y \in Int : /\ ((y % HostSpan) + 1) % HostSpan = (y + 1) % HostSpan
                             /\ ((y % CarrierSpan) + 1) % CarrierSpan = (y + 1) % CarrierSpan
          BY <2>a, ModNext
        <5> HIDE DEF x
        <5> QED BY <3>3, <5>1
      <4>4. reads' = <<[at |-> (x + 1) % HostSpan, left |-> p2l_data_cnt']>>
        BY <3>2, <3>5, <4>1, <4>3
      <4>5. job.item \/ p2l_addr_cnt' = (x + 1) % CarrierSpan
        <5> SUFFICES ASSUME ~job.item PROVE p2l_addr_cnt' = (x + 1) % CarrierSpan
          OBVIOUS
        <5>1. p2l_addr_cnt' = NextCarrier
          BY <1>1, <2>1, <3>2, <3>5 DEF AddrCnt, Wait
        <5> QED BY <3>1, <4>3, <5>1 DEF NextCarrier
      <4> HIDE DEF x
      <4>6. Packet'
        BY <2>0, <4>1, <4>2, <4>4, <4>5
      <4> QED BY <2>0, <4>6 DEF Flow
    <3>6. CASE ~in.cpld
      <4>1. reads' = reads /\ p2l_data_cnt' = p2l_data_cnt
        BY <3>2, <3>4, <3>6
      <4>2. p2l_addr_cnt' = p2l_addr_cnt
        BY <2>1, <3>2, <3>6 DEF AddrCnt
      <4>3. Packet'
        BY <2>0, <3>1, <3>3, <4>1, <4>2
      <4> QED BY <2>0, <4>3 DEF Flow
    <3> QED BY <3>5, <3>6
  <2> QED BY <2>2, <2>3 DEF Fresh, Waiting
<1> QED BY <1>5, <1>6, <1>7

(* The counters agree with the job after reset, when there is none. *)
LEMMA FlowInit == Init => Flow
<1> SUFFICES ASSUME Init PROVE Flow
  OBVIOUS
<1>1. p2l_state = "P2L_IDLE" /\ ~gnt
  BY DEF Init, RequestInit
<1> QED BY <1>1 DEF Flow, JobFlow, Packet, Packing, InPacket, Wait, Fresh, Waiting

(* What an edge of p2l_dma_clk_i leaves alone. *)
LEMMA FlowNext ==
  ASSUME TInv, RInv, Orderly, Flow, [Next]_vars
  PROVE  Flow'
<1>1. CASE ClkTick
  <2>1. PICK start \in BOOLEAN, kill \in BOOLEAN, others \in BOOLEAN, j \in ReadJobs \cup {job},
             in \in Inputs : ClkEdge(start, j, kill, others, in)
    BY <1>1, TickCases
  <2>2. Step(start, j, Aborting /\ ~start, in) /\ (Aborting /\ ~start) \in BOOLEAN
    BY <2>1, EdgeSteps
  <2>3. p2l_state \in InPacket \cup {"P2L_IDLE", "P2L_HEADER", Wait}
    BY DEF TInv, TypeOK, RequestTypeOK, InPacket, Wait
  <2> QED BY <2>2, <2>3, FlowIdle, FlowHeader, FlowAddrH, FlowAddrL, FlowWait DEF InPacket
<1>2. CASE UNCHANGED <<requestVars, hostVars>>
  BY <1>2 DEF Flow, JobFlow, Packet, Fresh, Waiting, Got,
              requestVars, readReqVars, requestFsmVars, captureVars, hostVars
<1>3. CASE DmaClkTick
  BY <1>2, <1>3 DEF DmaClkTick, DmaClk
<1>4. CASE UNCHANGED vars
  BY <1>2, <1>4 DEF vars
<1> QED BY <1>1, <1>3, <1>4 DEF Next

(* The word the master takes in this tick, and the entries it makes of it. *)
LEMMA TakenWord ==
  ASSUME TInv, RInv, Orderly, Flow, NEW start \in BOOLEAN, NEW j, NEW a \in BOOLEAN, NEW in,
         Step(start, j, a, in), p2l_state = Wait, in.valid
  PROVE  /\ Waiting /\ in.cpld /\ in.data = (job.host + Got) % HostSpan
         /\ p2l_data_cnt \in 1 .. job.len /\ Got \in 0 .. job.len - 1
         /\ p2l_data_cnt' = p2l_data_cnt - 1
         /\ job.item \/ p2l_addr_cnt = (job.host + Got) % CarrierSpan
<1>1. HostSays(in) /\ Receive(in) /\ RecvDataCnt(in)
  BY DEF Step
<1>2. ~Fresh
  <2> SUFFICES ASSUME Fresh PROVE FALSE
    OBVIOUS
  <2>1. reads = <<>>
    BY DEF Flow, Packet
  <2> QED BY <1>1, <2>1, InputForm DEF TInv, Orderly
<1>3. Waiting
  BY <1>2 DEF Fresh, Waiting
<1>4. in.cpld /\ in.data = (job.host + Got) % HostSpan /\ p2l_data_cnt' = p2l_data_cnt - 1
  BY <1>1, <1>3, WaitingReads
<1>5. /\ p2l_data_cnt \in 1 .. job.len
      /\ job.item \/ p2l_addr_cnt = (job.host + Got) % CarrierSpan
  BY <1>3 DEF Flow, Packet
<1>6. job.len \in Nat
  BY JobForm
<1> QED BY <1>3, <1>4, <1>5, <1>6 DEF Got

(* An edge of clk_i puts only wanted words on the way. *)
LEMMA WantedClk ==
  ASSUME TInv, RInv, Orderly, Flow, Wanted, CarrierExact,
         NEW start \in BOOLEAN, NEW j, NEW a \in BOOLEAN, NEW in, Step(start, j, a, in)
  PROVE  Wanted' /\ CarrierExact'
<1>1. want \subseteq want'
  BY DEF Step
<1>2. \A p : Fits(p) => Fits(p)'
  BY <1>1 DEF Fits
<1>3. p2l_state' # "P2L_IDLE" /\ ~job'.item => Words(job)' \subseteq want'
  <2>1. CASE start
    <3>1. job'.host = j.host /\ job'.len = j.len /\ job'.item = j.item
      BY <2>1 DEF Step
    <3>2. Words(job') = Words(j)
      BY <3>1 DEF Words
    <3>3. ~job'.item => Words(j) \subseteq want'
      BY <2>1, <3>1 DEF Step
    <3>4. Words(job)' = Words(job')
      BY DEF Words
    <3> QED BY <3>2, <3>3, <3>4
  <2>2. CASE ~start
    <3>1. job'.host = job.host /\ job'.len = job.len /\ job'.item = job.item /\ want' = want
      BY <2>2 DEF Step
    <3>2. Words(job)' = Words(job)
      BY <3>1 DEF Words
    <3>3. p2l_state = "P2L_IDLE" => p2l_state' = "P2L_IDLE"
      BY <2>2 DEF Step, RequestFsm, P2lIdle, P2lHeader, P2lAddrH, P2lAddrL, P2lWait
    <3> QED BY <3>1, <3>2, <3>3 DEF Wanted
  <2> QED BY <2>1, <2>2
<1>4. to_wb_fifo_wr' => Fits(to_wb_fifo_din)'
  <2> SUFFICES ASSUME to_wb_fifo_wr' PROVE Fits(to_wb_fifo_din)'
    OBVIOUS
  <2>1. CASE to_wb_fifo_wr /\ to_wb_fifo_din' = to_wb_fifo_din
    BY <1>1, <2>1 DEF Wanted, Fits
  <2>2. CASE /\ p2l_state = Wait /\ ~is_next_item /\ in.valid
             /\ to_wb_fifo_din' = <<p2l_addr_cnt, in.data>>
    <3>1. /\ in.data = (job.host + Got) % HostSpan /\ Got \in 0 .. job.len - 1
          /\ job.item \/ p2l_addr_cnt = (job.host + Got) % CarrierSpan
      BY <2>2, TakenWord
    <3>2. ~job.item
      BY <2>2 DEF Flow, JobFlow, Wait
    <3>3. in.data \in Words(job)
      BY <3>1 DEF Words
    <3>4. Words(job) \subseteq want
      BY <2>2, <3>2 DEF Wanted, Wait
    <3>5. in.data % CarrierSpan = (job.host + Got) % CarrierSpan
      <4>1. \A y \in Int : (y % HostSpan) % CarrierSpan = y % CarrierSpan
        BY JobForm, ModMod
      <4>2. job.host + Got \in Int
        BY <3>1, JobForm
      <4> QED BY <3>1, <4>1, <4>2
    <3> QED BY <1>1, <2>2, <3>1, <3>2, <3>3, <3>4, <3>5 DEF Fits
  <2>3. AddrCnt(start /\ ~j.item, j.host % CarrierSpan, in)
    BY DEF Step
  <2> QED BY <2>1, <2>2, <2>3 DEF AddrCnt, Wait
<1>5. \A i \in DOMAIN to_wb_fifo' : Fits(to_wb_fifo[i])'
  <2>1. to_wb_fifo' = IF to_wb_fifo_wr THEN Append(to_wb_fifo, to_wb_fifo_din) ELSE to_wb_fifo
    BY DEF Step, AddrCnt
  <2>2. to_wb_fifo \in Seq(Nat \X Nat)
    BY DEF TInv, TypeOK, RequestTypeOK
  <2>3. \A i \in DOMAIN to_wb_fifo' : \/ i \in DOMAIN to_wb_fifo /\ to_wb_fifo'[i] = to_wb_fifo[i]
                                      \/ to_wb_fifo_wr /\ to_wb_fifo'[i] = to_wb_fifo_din
    <3>1. CASE to_wb_fifo_wr
      <4>1. to_wb_fifo' = Append(to_wb_fifo, to_wb_fifo_din)
        BY <2>1, <3>1
      <4>2. to_wb_fifo_din \in Nat \X Nat
        BY DEF TInv, TypeOK, RequestTypeOK
      <4> QED BY <2>2, <3>1, <4>1, <4>2
    <3>2. CASE ~to_wb_fifo_wr
      BY <2>1, <3>2
    <3> QED BY <3>1, <3>2
  <2>4. \A i \in DOMAIN to_wb_fifo' : Fits(to_wb_fifo'[i])
    BY <2>3 DEF Wanted
  <2> QED BY <1>1, <2>4 DEF Fits
<1>6. UNCHANGED <<to_wb_fifo_valid, to_wb_fifo_dout, p2l_stb, p2l_adr, p2l_dat, carrier>>
  BY DEF Step, writerVars
<1>7. /\ to_wb_fifo_valid' => Fits(to_wb_fifo_dout)'
      /\ p2l_stb' => Fits(<<p2l_adr, p2l_dat>>)'
  BY <1>1, <1>6 DEF Wanted, Fits
<1>8. CarrierExact'
  BY <1>1, <1>6 DEF CarrierExact
<1> QED BY <1>3, <1>4, <1>5, <1>7, <1>8 DEF Wanted

(* An edge of p2l_dma_clk_i keeps the words on their way wanted. *)
LEMMA WantedDmaClk ==
  ASSUME TInv, Wanted, CarrierExact, NEW stall \in BOOLEAN, NEW ack \in BOOLEAN, DmaClk(stall, ack)
  PROVE  Wanted' /\ CarrierExact'
<1>1. UNCHANGED <<p2l_state, job, want, to_wb_fifo_wr, to_wb_fifo_din>>
  BY DEF DmaClk, requestVars, requestFsmVars, captureVars, hostVars
<1>2. /\ to_wb_fifo_valid' => to_wb_fifo # <<>>
      /\ to_wb_fifo_dout' \in {to_wb_fifo_dout, Head(to_wb_fifo)}
      /\ to_wb_fifo_valid' => to_wb_fifo_dout' = Head(to_wb_fifo)
      /\ to_wb_fifo' = to_wb_fifo \/ (to_wb_fifo # <<>> /\ to_wb_fifo' = Tail(to_wb_fifo))
      /\ p2l_stb' = to_wb_fifo_valid
      /\ to_wb_fifo_valid => p2l_adr' = to_wb_fifo_dout[1] /\ p2l_dat' = to_wb_fifo_dout[2]
      /\ carrier' = carrier \/ (p2l_stb /\ carrier' = [carrier EXCEPT ![p2l_adr] = p2l_dat])
  BY DEF DmaClk, WriterTick, ToWbFifoRd
<1>3. to_wb_fifo \in Seq(Nat \X Nat)
  BY DEF TInv, TypeOK, RequestTypeOK
<1>4. \A i \in DOMAIN to_wb_fifo' : \E k \in DOMAIN to_wb_fifo : to_wb_fifo'[i] = to_wb_fifo[k]
  <2>1. CASE to_wb_fifo' = to_wb_fifo
    BY <2>1
  <2>2. CASE to_wb_fifo # <<>> /\ to_wb_fifo' = Tail(to_wb_fifo)
    <3>1. \A i \in DOMAIN to_wb_fifo' : i + 1 \in DOMAIN to_wb_fifo /\ to_wb_fifo'[i] = to_wb_fifo[i + 1]
      BY <1>3, <2>2
    <3> QED BY <3>1
  <2> QED BY <1>2, <2>1, <2>2
<1>5. \A i \in DOMAIN to_wb_fifo' : Fits(to_wb_fifo'[i])
  BY <1>4 DEF Wanted
<1>6. to_wb_fifo_valid' => Fits(to_wb_fifo_dout')
  <2>1. to_wb_fifo # <<>> => Head(to_wb_fifo) = to_wb_fifo[1] /\ 1 \in DOMAIN to_wb_fifo
    BY <1>3
  <2> QED BY <1>2, <2>1 DEF Wanted
<1>7. p2l_stb' => Fits(<<p2l_adr', p2l_dat'>>)
  BY <1>2 DEF Wanted, Fits
<1>8. CarrierExact'
  BY <1>1, <1>2 DEF CarrierExact, Wanted, Fits
<1>9. Words(job)' = Words(job)
  BY <1>1 DEF Words
<1> QED BY <1>1, <1>5, <1>6, <1>7, <1>8, <1>9 DEF Wanted, Fits

(* Every step keeps the words on their way wanted. *)
LEMMA WantedNext ==
  ASSUME TInv, RInv, Orderly, Flow, Wanted, CarrierExact, [Next]_vars
  PROVE  Wanted' /\ CarrierExact'
<1>1. CASE ClkTick
  <2>1. PICK start \in BOOLEAN, kill \in BOOLEAN, others \in BOOLEAN, j \in ReadJobs \cup {job},
             in \in Inputs : ClkEdge(start, j, kill, others, in)
    BY <1>1, TickCases
  <2>2. Step(start, j, Aborting /\ ~start, in) /\ (Aborting /\ ~start) \in BOOLEAN
    BY <2>1, EdgeSteps
  <2> QED BY <2>2, WantedClk
<1>2. CASE DmaClkTick
  BY <1>2, WantedDmaClk DEF DmaClkTick
<1>3. CASE UNCHANGED vars
  <2>1. UNCHANGED <<p2l_state, job, want, to_wb_fifo_wr, to_wb_fifo_din, to_wb_fifo, carrier,
                    to_wb_fifo_valid, to_wb_fifo_dout, p2l_stb, p2l_adr, p2l_dat>>
    BY <1>3 DEF vars, requestVars, requestFsmVars, captureVars, hostVars, writerVars
  <2>2. Words(job)' = Words(job)
    BY <2>1 DEF Words
  <2> QED BY <2>1, <2>2 DEF Wanted, Fits, CarrierExact
<1> QED BY <1>1, <1>2, <1>3 DEF Next

(* Carrier memory changes only at the addresses of a job, and only to the  *)
(* host word that belongs there, however the host splits its answer, the   *)
(* carrier stalls, and jobs are refused or aborted on the way: as long as  *)
(* a job is one request, the next starts when the host owes nothing, and   *)
(* the host writes no register while the master waits.                     *)
THEOREM OnlyJobWordsLand == Orderly => (Spec => []CarrierExact)
<1> SUFFICES ASSUME Orderly PROVE Spec => []CarrierExact
  OBVIOUS
<1>1. Init => Wanted /\ CarrierExact
  BY DEF Init, RequestInit, WriterInit, Wanted, CarrierExact
<1>2. "late" \notin HostEnv
  BY DEF Orderly
<1>3. Init => Flow
  BY FlowInit
<1>4. TInv /\ RInv /\ [Next]_vars => RInv'
  BY <1>2, RoomNext
<1>5. TInv /\ RInv /\ Flow /\ [Next]_vars => Flow'
  BY FlowNext
<1>6. TInv /\ RInv /\ Flow /\ Wanted /\ CarrierExact /\ [Next]_vars => Wanted' /\ CarrierExact'
  BY WantedNext
<1> QED BY <1>1, <1>3, <1>4, <1>5, <1>6, TypesInit, TypesNext, RoomInit, PTL DEF Spec

(* The wait begins with no word received. *)
LEMMA GotStart ==
  ASSUME TInv, RInv, Orderly, Flow, Flow',
         NEW start \in BOOLEAN, NEW j, NEW a \in BOOLEAN, NEW in, Step(start, j, a, in),
         p2l_state # Wait, p2l_state' = Wait
  PROVE  Got' = 0
<1>1. p2l_state = "P2L_ADDR_L" /\ pdm_valid' = pdm_valid
  BY DEF Step, RequestFsm, P2lIdle, P2lHeader, P2lAddrH, P2lAddrL, P2lWait, Wait
<1>2. Fresh'
  BY <1>1 DEF RInv, Lines, Fresh, InPacket
<1>3. p2l_data_cnt' = job'.len /\ job'.len \in 1 .. MaxRead
  BY <1>2 DEF Flow, JobFlow, Packet, Fresh, Wait
<1>4. \A n \in 1 .. MaxRead : n - n = 0
  BY JobForm
<1> QED BY <1>3, <1>4 DEF Got

(* A tick of the wait without a word. *)
LEMMA NoWordTaken ==
  ASSUME TInv, NEW in, HostSays(in), RecvDataCnt(in), p2l_state = Wait, ~in.valid
  PROVE  ~in.cpld /\ p2l_data_cnt' = p2l_data_cnt
<1>1. ~in.cpld
  BY InputForm DEF TInv
<1>2. p2l_state # "P2L_ADDR_L" /\ ~(in.valid /\ in.cpld)
  BY <1>1 DEF Wait
<1> QED BY <1>1, <1>2, Zenon DEF RecvDataCnt

(* The words of a chain item, taken in order, fill its seven registers. *)
LEMMA ItemClk ==
  ASSUME TInv, RInv, Orderly, Flow, Flow', ItemFilled, ItemExact,
         NEW start \in BOOLEAN, NEW j, NEW a \in BOOLEAN, NEW in, Step(start, j, a, in)
  PROVE  ItemFilled' /\ ItemExact'
<1>0. /\ next_item \in [1 .. 7 -> Nat] /\ job.host \in 0 .. HostSpan - 1 /\ HostSpan \in Nat
      /\ p2l_state \in InPacket \cup {"P2L_IDLE", "P2L_HEADER", Wait}
  BY JobForm DEF TInv, TypeOK, RequestTypeOK, InPacket, Wait
<1>1. p2l_state' # "P2L_IDLE" /\ job'.item => job'.len = ItemWords
  <2>1. start => (job'.item => job'.len = ItemWords)
    BY JobForm DEF Step
  <2>2. ~start => /\ job'.len = job.len /\ job'.item = job.item
                  /\ p2l_state = "P2L_IDLE" => p2l_state' = "P2L_IDLE"
    BY DEF Step, RequestFsm, P2lIdle, P2lHeader, P2lAddrH, P2lAddrL, P2lWait
  <2> QED BY <2>1, <2>2 DEF ItemFilled
<1>2. CASE p2l_state # Wait
  <2>1. ~next_item_valid'
    <3>1. p2l_state # "P2L_IDLE" => ~next_item_valid
      BY DEF RInv, Pulses
    <3> QED BY <1>2, <3>1 DEF Step, RequestFsm, P2lIdle, P2lHeader, P2lAddrH, P2lAddrL, P2lWait, Wait
  <2>2. p2l_state' = Wait => Got' = 0
    BY <1>2, GotStart
  <2> QED BY <1>1, <2>1, <2>2 DEF ItemFilled, ItemExact
<1>3. CASE p2l_state = Wait
  <2>1. /\ ~start /\ job'.host = job.host /\ job'.len = job.len /\ job'.item = job.item
        /\ is_next_item = job.item /\ ~next_item_valid /\ (job.item => job.len = ItemWords)
        /\ pdm_last_packet
    BY <1>3 DEF Step, Flow, JobFlow, RInv, Pulses, ItemFilled, Wait
  <2>2. P2lWait(a, in) /\ NextItem(in) /\ RecvDataCnt(in) /\ HostSays(in)
    BY <1>3 DEF Step, RequestFsm, P2lIdle, P2lHeader, P2lAddrH, P2lAddrL, Wait
  <2>3. CASE ~job.item
    <3>1. ~next_item_valid'
      BY <2>1, <2>2, <2>3 DEF P2lWait
    <3> QED BY <1>1, <2>1, <2>3, <3>1 DEF ItemFilled, ItemExact
  <2>4. CASE job.item /\ ~in.valid
    <3>1. ~in.cpld
      BY <1>3, <2>2, <2>4, NoWordTaken
    <3>2. p2l_data_cnt' = p2l_data_cnt
      BY <1>3, <2>2, <2>4, NoWordTaken
    <3>3. next_item' = next_item
      BY <2>2, <2>4 DEF NextItem
    <3>4. ~next_item_valid'
      BY <2>1, <2>2, <3>1 DEF P2lWait, RequestServed
    <3>5. Got' = Got
      BY <2>1, <3>2 DEF Got
    <3> QED BY <1>1, <1>3, <2>1, <3>3, <3>4, <3>5 DEF ItemFilled, ItemExact
  <2>5. CASE job.item /\ in.valid
    <3>1. /\ in.data = (job.host + Got) % HostSpan /\ p2l_data_cnt \in 1 .. job.len
          /\ p2l_data_cnt' = p2l_data_cnt - 1
      BY <1>3, <2>5, TakenWord
    <3>2. p2l_data_cnt \in 1 .. 7 /\ job.len = 7
      BY <2>1, <2>5, <3>1 DEF ItemWords
    <3>3. Got = 7 - p2l_data_cnt /\ Got' = Got + 1 /\ Got \in 0 .. 6
      BY <2>1, <3>1, <3>2 DEF Got
    <3>4. p2l_data_cnt % 8 = p2l_data_cnt
      BY <3>2
    <3>5. ItemPlace = Got + 1
      BY <3>2, <3>3, <3>4 DEF ItemPlace
    <3>6. next_item' = [next_item EXCEPT ![Got + 1] = in.data]
      <4>1. is_next_item /\ p2l_data_cnt % 8 # 0
        BY <2>1, <2>5, <3>2, <3>4
      <4> QED BY <1>3, <2>2, <2>5, <3>5, <4>1 DEF NextItem, Wait
    <3>7. \A i \in 1 .. Got : next_item[i] = (job.host + i - 1) % HostSpan
      BY <1>3, <2>5 DEF ItemFilled
    <3>8. \A i \in 1 .. Got + 1 : next_item'[i] = (job.host + i - 1) % HostSpan
      <4>1. job.host + (Got + 1) - 1 = job.host + Got
        BY <1>0, <3>3
      <4> DEFINE g == Got
      <4>2. g \in 0 .. 6
        BY <3>3
      <4>3. next_item'[g + 1] = (job.host + (g + 1) - 1) % HostSpan
        BY <1>0, <3>1, <3>6, <4>1, <4>2
      <4>4. \A i \in 1 .. g : next_item'[i] = (job.host + i - 1) % HostSpan
        <5> TAKE i \in 1 .. g
        <5>1. i # g + 1 /\ i \in 1 .. 7 /\ next_item[i] = (job.host + i - 1) % HostSpan
          BY <3>7, <4>2
        <5> QED BY <1>0, <3>6, <5>1
      <4>5. \A i \in 1 .. g + 1 : i = g + 1 \/ i \in 1 .. g
        <5> HIDE DEF g
        <5> QED BY <4>2
      <4> QED BY <4>3, <4>4, <4>5
    <3>9. p2l_state' = Wait \/ next_item_valid' => Got + 1 = Got'
      BY <3>3
    <3>10. ItemFilled'
      <4>1. \A i \in 1 .. Got' : next_item'[i] = (job'.host + i - 1) % HostSpan
        BY <2>1, <3>3, <3>8
      <4>2. next_item_valid' => job'.item
        BY <2>1, <2>5
      <4> QED BY <1>1, <4>1, <4>2 DEF ItemFilled
    <3>11. ItemExact'
      <4> SUFFICES ASSUME next_item_valid'
                   PROVE  next_item' = [i \in 1 .. ItemWords |-> (job'.host + i - 1) % HostSpan]
        BY DEF ItemExact
      <4>1. RequestServed(in)
        BY <2>1, <2>2 DEF P2lWait
      <4>2. Got + 1 = 7
        BY <3>2, <3>3, <4>1 DEF RequestServed
      <4>3. \A i \in 1 .. 7 : next_item'[i] = (job'.host + i - 1) % HostSpan
        BY <2>1, <3>8, <4>2
      <4>4. next_item' = [i \in 1 .. 7 |-> next_item'[i]]
        BY <1>0, <3>6
      <4> QED BY <4>3, <4>4 DEF ItemWords
    <3> QED BY <3>10, <3>11
  <2> QED BY <2>3, <2>4, <2>5
<1> QED BY <1>2, <1>3

(* Every step keeps the words of the item received in their registers. *)
LEMMA ItemNext ==
  ASSUME TInv, RInv, Orderly, Flow, ItemFilled, ItemExact, [Next]_vars
  PROVE  ItemFilled' /\ ItemExact'
<1>1. CASE ClkTick
  <2>1. PICK start \in BOOLEAN, kill \in BOOLEAN, others \in BOOLEAN, j \in ReadJobs \cup {job},
             in \in Inputs : ClkEdge(start, j, kill, others, in)
    BY <1>1, TickCases
  <2>2. Step(start, j, Aborting /\ ~start, in) /\ (Aborting /\ ~start) \in BOOLEAN
    BY <2>1, EdgeSteps
  <2>3. Flow'
    BY FlowNext
  <2> QED BY <2>2, <2>3, ItemClk
<1>2. CASE UNCHANGED <<requestVars, hostVars>>
  BY <1>2 DEF ItemFilled, ItemExact, Got, requestVars, readReqVars, requestFsmVars, captureVars, hostVars
<1>3. CASE DmaClkTick
  BY <1>2, <1>3 DEF DmaClkTick, DmaClk
<1>4. CASE UNCHANGED vars
  BY <1>2, <1>4 DEF vars
<1> QED BY <1>1, <1>3, <1>4 DEF Next

(* When the master tells the controller that the next item of a chain is   *)
(* there, each of its seven words is in its own register, in however many  *)
(* completions the host sent them.                                         *)
THEOREM ItemsArriveWhole == Orderly => (Spec => []ItemExact)
<1> SUFFICES ASSUME Orderly PROVE Spec => []ItemExact
  OBVIOUS
<1>1. Init => ItemFilled /\ ItemExact
  BY DEF Init, RequestInit, ItemFilled, ItemExact, Wait
<1>2. "late" \notin HostEnv
  BY DEF Orderly
<1>3. Init => Flow
  BY FlowInit
<1>4. TInv /\ RInv /\ [Next]_vars => RInv'
  BY <1>2, RoomNext
<1>5. TInv /\ RInv /\ Flow /\ [Next]_vars => Flow'
  BY FlowNext
<1>6. TInv /\ RInv /\ Flow /\ ItemFilled /\ ItemExact /\ [Next]_vars => ItemFilled' /\ ItemExact'
  BY ItemNext
<1> QED BY <1>1, <1>3, <1>4, <1>5, <1>6, TypesInit, TypesNext, RoomInit, PTL DEF Spec

-----------------------------------------------------------------------------
(***************************************************************************)
(* The end of a job.  A pair p of address and word is settled when the     *)
(* carrier will hold p[2] at p[1] once everything on its way has landed:   *)
(* p is the last entry of the pipeline for its address, or it has landed   *)
(* and no other entry will replace it.                                     *)
(***************************************************************************)
Clash(x, p)  == x[1] = p[1] /\ x # p
Clean(q, p)  == \A i \in DOMAIN q : ~Clash(q[i], p)
LastIn(q, p) == \E i \in DOMAIN q : q[i] = p /\ \A k \in i + 1 .. Len(q) : ~Clash(q[k], p)

AtBus(p)    == \/ p2l_stb /\ <<p2l_adr, p2l_dat>> = p
               \/ (p2l_stb => ~Clash(<<p2l_adr, p2l_dat>>, p)) /\ carrier[p[1]] = p[2]
AtWriter(p) == \/ to_wb_fifo_valid /\ to_wb_fifo_dout = p
               \/ (to_wb_fifo_valid => ~Clash(to_wb_fifo_dout, p)) /\ AtBus(p)
AtFifo(p)   == LastIn(to_wb_fifo, p) \/ (Clean(to_wb_fifo, p) /\ AtWriter(p))
Settled(p)  == \/ to_wb_fifo_wr /\ to_wb_fifo_din = p
               \/ (to_wb_fifo_wr => ~Clash(to_wb_fifo_din, p)) /\ AtFifo(p)

JobWord(i) == <<(job.host + i) % CarrierSpan, (job.host + i) % HostSpan>>
JobWords(n) == {JobWord(i) : i \in 0 .. n - 1}
SettledTo(n) == \A p \in JobWords(n) : Settled(p)

(* The words the job has received are settled, all of them at its end. *)
Placed ==
  /\ DOMAIN carrier = 0 .. CarrierSpan - 1
  /\ p2l_state # "P2L_IDLE" => job.len <= CarrierSpan
  /\ ~job.item /\ p2l_state = Wait => SettledTo(Got)
  /\ ~job.item /\ (pdm_done_t \/ pdm_done \/ job.st = "done") => SettledTo(job.len)

(* A job writes no carrier address twice, and the slave never stalls a     *)
(* strobe nor runs its acknowledges past the counters.                     *)
Copying == /\ Orderly /\ "stall" \notin HostEnv /\ WriteDepth < WrCntSpan
           /\ \A j \in ReadJobs : j.len <= CarrierSpan

(* What the two ends of the FIFO do to the last entry for an address. *)
LEMMA LastAppend ==
  ASSUME NEW q \in Seq(Nat \X Nat), NEW x \in Nat \X Nat, NEW p, ~Clash(x, p)
  PROVE  /\ LastIn(q, p) => LastIn(Append(q, x), p)
         /\ Clean(q, p) => Clean(Append(q, x), p)
         /\ x = p => LastIn(Append(q, x), p)
<1> DEFINE r == Append(q, x)
<1>1. /\ Len(r) = Len(q) + 1 /\ Len(q) \in Nat /\ r[Len(q) + 1] = x
      /\ DOMAIN r = 1 .. Len(q) + 1 /\ DOMAIN q = 1 .. Len(q)
      /\ \A i \in 1 .. Len(q) : r[i] = q[i]
  OBVIOUS
<1> HIDE DEF r
<1>2. LastIn(q, p) => LastIn(r, p)
  <2> SUFFICES ASSUME NEW i \in DOMAIN q, q[i] = p, \A k \in i + 1 .. Len(q) : ~Clash(q[k], p)
               PROVE  LastIn(r, p)
    BY DEF LastIn
  <2>1. i \in DOMAIN r /\ r[i] = p
    BY <1>1
  <2>2. \A k \in i + 1 .. Len(r) : ~Clash(r[k], p)
    <3> TAKE k \in i + 1 .. Len(r)
    <3>1. CASE k = Len(q) + 1
      BY <1>1, <3>1
    <3>2. CASE k # Len(q) + 1
      <4>1. k \in i + 1 .. Len(q) /\ k \in 1 .. Len(q)
        BY <1>1, <3>2
      <4> QED BY <1>1, <4>1
    <3> QED BY <3>1, <3>2
  <2> QED BY <2>1, <2>2 DEF LastIn
<1>3. Clean(q, p) => Clean(r, p)
  <2> SUFFICES ASSUME Clean(q, p), NEW i \in DOMAIN r PROVE ~Clash(r[i], p)
    BY DEF Clean
  <2>1. i = Len(q) + 1 \/ i \in 1 .. Len(q)
    BY <1>1
  <2> QED BY <1>1, <2>1 DEF Clean
<1>4. x = p => LastIn(r, p)
  <2>1. Len(q) + 1 \in DOMAIN r /\ \A k \in (Len(q) + 1) + 1 .. Len(r) : ~Clash(r[k], p)
    BY <1>1
  <2> QED BY <1>1, <2>1 DEF LastIn
<1> QED BY <1>2, <1>3, <1>4 DEF r

(* The last entry of a queue for an address survives the loss of its head, *)
(* unless it is the head.                                                  *)
LEMMA LastTail ==
  ASSUME NEW q \in Seq(Nat \X Nat), q # <<>>, NEW p
  PROVE  /\ LastIn(q, p) => LastIn(Tail(q), p) \/ (Head(q) = p /\ Clean(Tail(q), p))
         /\ Clean(q, p) => Clean(Tail(q), p) /\ ~Clash(Head(q), p)
<1> DEFINE t == Tail(q)
<1>1. /\ Len(q) \in Nat \ {0} /\ Len(t) = Len(q) - 1 /\ Head(q) = q[1]
      /\ DOMAIN t = 1 .. Len(t) /\ DOMAIN q = 1 .. Len(q)
      /\ \A i \in 1 .. Len(t) : t[i] = q[i + 1]
  OBVIOUS
<1> HIDE DEF t
<1>2. PICK n \in Nat : Len(t) = n /\ Len(q) = n + 1
  BY <1>1
<1>3. /\ DOMAIN t = 1 .. n /\ DOMAIN q = 1 .. n + 1
      /\ \A i \in 1 .. n : t[i] = q[i + 1]
  BY <1>1, <1>2
<1>4. LastIn(q, p) => LastIn(t, p) \/ (q[1] = p /\ Clean(t, p))
  <2> SUFFICES ASSUME NEW i \in 1 .. n + 1, q[i] = p, \A k \in i + 1 .. n + 1 : ~Clash(q[k], p)
               PROVE  LastIn(t, p) \/ (q[1] = p /\ Clean(t, p))
    BY <1>2, <1>3 DEF LastIn
  <2>1. CASE i = 1
    <3>1. \A k \in 1 .. n : k + 1 \in i + 1 .. n + 1
      BY <2>1
    <3> QED BY <1>3, <2>1, <3>1 DEF Clean
  <2>2. CASE i # 1
    <3>1. i - 1 \in 1 .. n /\ (i - 1) + 1 = i
      BY <2>2
    <3>2. \A k \in (i - 1) + 1 .. n : k + 1 \in i + 1 .. n + 1 /\ k \in 1 .. n
      BY <2>2
    <3>3. t[i - 1] = p
      BY <1>3, <3>1
    <3>4. \A k \in (i - 1) + 1 .. n : ~Clash(t[k], p)
      BY <1>3, <3>2
    <3> QED BY <1>2, <1>3, <3>1, <3>3, <3>4 DEF LastIn
  <2> QED BY <2>1, <2>2
<1>5. Clean(q, p) => Clean(t, p) /\ ~Clash(q[1], p)
  <2>1. \A k \in 1 .. n : k + 1 \in 1 .. n + 1
    OBVIOUS
  <2>2. 1 \in 1 .. n + 1
    OBVIOUS
  <2> QED BY <1>3, <2>1, <2>2 DEF Clean
<1> QED BY <1>1, <1>4, <1>5 DEF t

(* A word on its way moves one stage on and is not overtaken. *)
LEMMA SettledDmaClk ==
  ASSUME TInv, BInv, Copying, DOMAIN carrier = 0 .. CarrierSpan - 1,
         NEW p \in (0 .. CarrierSpan - 1) \X Nat,
         NEW stall \in BOOLEAN, NEW ack \in BOOLEAN, DmaClk(stall, ack), Settled(p)
  PROVE  Settled(p)'
<1> DEFINE rd == ToWbFifoRd(stall, FALSE)
<1>1. /\ to_wb_fifo \in Seq(Nat \X Nat) /\ to_wb_fifo_dout \in Nat \X Nat
      /\ p2l_adr \in Nat /\ p2l_dat \in Nat
  BY DEF TInv, TypeOK, RequestTypeOK, WriterTypeOK
<1>2. p2l_stb => p2l_cyc /\ ~stall
  <2>1. stall /\ p2l_stb => FALSE
    BY DEF DmaClk, Copying
  <2>2. slave \in Nat
    BY P2lDmaConstants DEF BInv
  <2>3. p2l_stb => Owed > 0
    BY <2>2 DEF Owed
  <2> QED BY <2>1, <2>3 DEF BInv
<1>3. carrier' = IF p2l_stb THEN [carrier EXCEPT ![p2l_adr] = p2l_dat] ELSE carrier
  BY <1>2 DEF DmaClk
<1>4. UNCHANGED <<to_wb_fifo_wr, to_wb_fifo_din>>
  BY DEF DmaClk, requestVars, captureVars
<1>5. /\ to_wb_fifo_valid' = rd
      /\ to_wb_fifo_dout' = IF rd THEN Head(to_wb_fifo) ELSE to_wb_fifo_dout
      /\ to_wb_fifo' = IF rd THEN Tail(to_wb_fifo) ELSE to_wb_fifo
      /\ p2l_stb' = to_wb_fifo_valid
      /\ to_wb_fifo_valid => <<p2l_adr', p2l_dat'>> = to_wb_fifo_dout
  BY <1>1 DEF DmaClk, WriterTick
<1>6. rd => to_wb_fifo # <<>>
  BY DEF ToWbFifoRd
<1> HIDE DEF rd
<1>7. AtBus(p) => carrier'[p[1]] = p[2]
  BY <1>1, <1>3 DEF AtBus, Clash
<1>8. AtWriter(p) => AtBus(p)'
  BY <1>5, <1>7 DEF AtWriter, AtBus
<1>9. AtFifo(p) => AtFifo(p)'
  <2>1. CASE rd
    <3>1. /\ LastIn(to_wb_fifo, p) => LastIn(to_wb_fifo', p) \/ (to_wb_fifo_dout' = p /\ Clean(to_wb_fifo', p))
          /\ Clean(to_wb_fifo, p) => Clean(to_wb_fifo', p) /\ ~Clash(to_wb_fifo_dout', p)
      BY <1>1, <1>5, <1>6, <2>1, LastTail
    <3>2. /\ LastIn(to_wb_fifo, p)' <=> LastIn(to_wb_fifo', p)
          /\ Clean(to_wb_fifo, p)' <=> Clean(to_wb_fifo', p)
          /\ Clash(to_wb_fifo_dout, p)' <=> Clash(to_wb_fifo_dout', p)
      BY DEF LastIn, Clean, Clash
    <3> QED BY <1>5, <1>8, <2>1, <3>1, <3>2 DEF AtFifo, AtWriter
  <2>2. CASE ~rd
    <3>1. to_wb_fifo' = to_wb_fifo /\ ~to_wb_fifo_valid'
      BY <1>5, <2>2
    <3>2. /\ LastIn(to_wb_fifo, p)' <=> LastIn(to_wb_fifo, p)
          /\ Clean(to_wb_fifo, p)' <=> Clean(to_wb_fifo, p)
      BY <3>1 DEF LastIn, Clean, Clash
    <3> QED BY <1>8, <3>1, <3>2 DEF AtFifo, AtWriter
  <2> QED BY <2>1, <2>2
<1>10. Clash(to_wb_fifo_din, p)' <=> Clash(to_wb_fifo_din, p)
  BY <1>4 DEF Clash
<1> QED BY <1>4, <1>9, <1>10 DEF Settled

(* An edge of clk_i adds at most one entry behind it. *)
LEMMA SettledClk ==
  ASSUME TInv, NEW p \in Nat \X Nat, NEW in, NEW start \in BOOLEAN, NEW c,
         AddrCnt(start, c, in), UNCHANGED <<writerVars, carrier>>,
         to_wb_fifo_wr' => to_wb_fifo_din' = p \/ (~Clash(to_wb_fifo_din', p) /\ Settled(p)),
         ~to_wb_fifo_wr' => Settled(p)
  PROVE  Settled(p)'
<1>1. to_wb_fifo \in Seq(Nat \X Nat) /\ to_wb_fifo_din \in Nat \X Nat
  BY DEF TInv, TypeOK, RequestTypeOK
<1>2. Clash(to_wb_fifo_din, p)' <=> Clash(to_wb_fifo_din', p)
  BY DEF Clash
<1>3. AtBus(p)' = AtBus(p) /\ AtWriter(p)' = AtWriter(p)
  BY DEF AtBus, AtWriter, Clash, writerVars
<1>4. Settled(p) => AtFifo(p)'
  <2>1. CASE to_wb_fifo_wr
    <3>1. to_wb_fifo' = Append(to_wb_fifo, to_wb_fifo_din)
      BY <2>1 DEF AddrCnt
    <3>2. /\ LastIn(to_wb_fifo, p)' <=> LastIn(to_wb_fifo', p)
          /\ Clean(to_wb_fifo, p)' <=> Clean(to_wb_fifo', p)
      BY DEF LastIn, Clean, Clash
    <3>3. to_wb_fifo_din = p => ~Clash(to_wb_fifo_din, p)
      BY DEF Clash
    <3>4. ~Clash(to_wb_fifo_din, p) =>
             /\ LastIn(to_wb_fifo, p) => LastIn(to_wb_fifo', p)
             /\ Clean(to_wb_fifo, p) => Clean(to_wb_fifo', p)
             /\ to_wb_fifo_din = p => LastIn(to_wb_fifo', p)
      BY <1>1, <3>1, LastAppend
    <3> QED BY <1>3, <2>1, <3>2, <3>3, <3>4 DEF Settled, AtFifo
  <2>2. CASE ~to_wb_fifo_wr
    <3>1. to_wb_fifo' = to_wb_fifo
      BY <2>2 DEF AddrCnt
    <3>2. /\ LastIn(to_wb_fifo, p)' <=> LastIn(to_wb_fifo, p)
          /\ Clean(to_wb_fifo, p)' <=> Clean(to_wb_fifo, p)
      BY <3>1 DEF LastIn, Clean, Clash
    <3> QED BY <1>3, <2>2, <3>2 DEF Settled, AtFifo
  <2> QED BY <2>1, <2>2
<1> QED BY <1>2, <1>4 DEF Settled

(* The words of a job, and that no two of them share an address. *)
LEMMA JobWordForm ==
  ASSUME TInv, Copying
  PROVE  /\ \A i \in Nat : JobWord(i) \in (0 .. CarrierSpan - 1) \X Nat
         /\ \A g \in 0 .. CarrierSpan - 1 : \A i \in 0 .. g - 1 : ~Clash(JobWord(g), JobWord(i))
<1>1. /\ CarrierSpan \in Nat \ {0} /\ HostSpan \in Nat \ {0} /\ job.host \in Nat
  BY JobForm DEF Copying
<1>2. \A x \in Int : x % CarrierSpan \in 0 .. CarrierSpan - 1 /\ x % HostSpan \in Nat
  BY <1>1, DivMod
<1>3. ASSUME NEW i \in Nat PROVE JobWord(i) \in (0 .. CarrierSpan - 1) \X Nat
  <2>1. job.host + i \in Int
    BY <1>1
  <2> QED BY <1>2, <2>1 DEF JobWord
<1>4. ASSUME NEW g \in 0 .. CarrierSpan - 1, NEW i \in 0 .. g - 1
      PROVE  ~Clash(JobWord(g), JobWord(i))
  <2>1. g - i \in 1 .. CarrierSpan - 1 /\ job.host + i \in Int /\ job.host + g = (job.host + i) + (g - i)
    BY <1>1
  <2>2. (job.host + g) % CarrierSpan # (job.host + i) % CarrierSpan
    BY <1>1, <2>1, ModApart
  <2> QED BY <2>2 DEF Clash, JobWord
<1> QED BY <1>3, <1>4

(* An edge of clk_i keeps every received word of the job settled. *)
LEMMA PlacedClk ==
  ASSUME TInv, RInv, Copying, Flow, Flow', ItemFilled, Placed,
         NEW start \in BOOLEAN, NEW kill \in BOOLEAN, NEW others \in BOOLEAN,
         NEW j, NEW a \in BOOLEAN, NEW in,
         Step(start, j, a, in), Controls(start, kill, others, a, in)
  PROVE  Placed'
<1>0. DOMAIN carrier' = 0 .. CarrierSpan - 1
  BY DEF Step, Placed
<1>a. p2l_state' # "P2L_IDLE" => job'.len <= CarrierSpan
  <2>1. CASE start
    BY <2>1 DEF Step, Copying
  <2>2. CASE ~start
    <3>1. job'.len = job.len /\ (p2l_state = "P2L_IDLE" => p2l_state' = "P2L_IDLE")
      BY <2>2 DEF Step, RequestFsm, P2lIdle, P2lHeader, P2lAddrH, P2lAddrL, P2lWait
    <3> QED BY <3>1 DEF Placed
  <2> QED BY <2>1, <2>2
<1>1. pdm_done' = pdm_done_t
  BY DEF Controls, CtrlPipe
<1>2. PICK j1 : Follow(start, j1, kill)
  BY DEF Controls
<1>3. CASE start
  <2>1. ~pdm_done' /\ ~pdm_done_t' /\ job'.st = "run" /\ p2l_state' # Wait
    BY <1>1, <1>2, <1>3 DEF Controls, Follow, RInv, Pulses, Step, RequestFsm, P2lIdle, P2lHeader,
                            P2lAddrH, P2lAddrL, P2lWait, Wait
  <2> QED BY <1>0, <1>a, <2>1 DEF Placed
<1>4. CASE ~start
  <2>1. job'.host = job.host /\ job'.len = job.len /\ job'.item = job.item
    BY <1>4 DEF Step
  <2>2. \A i \in Nat : JobWord(i)' = JobWord(i)
    BY <2>1 DEF JobWord
  <2>3. \A n \in Nat : JobWords(n)' = JobWords(n)
    BY <2>1 DEF JobWords, JobWord
  <2>4. AddrCnt(FALSE, j.host % CarrierSpan, in) /\ UNCHANGED <<writerVars, carrier>>
    BY <1>4 DEF Step
  <2>5. \A n \in Nat : JobWords(n) \subseteq Nat \X Nat
    <3>1. \A i \in Nat : JobWord(i) \in Nat \X Nat
      BY JobWordForm
    <3> QED BY <3>1 DEF JobWords
  <2>6. ASSUME ~to_wb_fifo_wr', NEW n \in Nat, SettledTo(n)
        PROVE  \A p \in JobWords(n)' : Settled(p)'
    <3> SUFFICES ASSUME NEW p \in JobWords(n) PROVE Settled(p)'
      BY <2>3
    <3>1. p \in Nat \X Nat /\ Settled(p)
      BY <2>5, <2>6 DEF SettledTo
    <3> QED BY <2>4, <2>6, <3>1, SettledClk
  <2>7. job'.st = "done" => job.st = "done" \/ pdm_done \/ next_item_valid
    BY <1>2, <1>4 DEF Follow, Controls, RInv, Pulses, TInv, HostTypes, Running
  <2>8. job.len \in Nat
    BY JobForm DEF Copying
  <2>9. CASE p2l_state # Wait
    <3>1. ~to_wb_fifo_wr'
      BY <2>4, <2>9 DEF AddrCnt, Wait
    <3>2. ~pdm_done_t'
      BY <2>9 DEF RInv, Pulses, Step, RequestFsm, P2lIdle, P2lHeader, P2lAddrH, P2lAddrL, P2lWait, Wait
    <3>3. p2l_state' = Wait => SettledTo(Got)'
      <4>1. p2l_state' = Wait => Got' = 0
        BY <2>9, GotStart DEF Copying
      <4> QED BY <4>1 DEF SettledTo, JobWords
    <3>4. ASSUME ~job'.item, pdm_done' \/ job'.st = "done" PROVE SettledTo(job.len)'
      <4>1. SettledTo(job.len)
        BY <1>1, <2>1, <2>7, <3>4 DEF Placed, ItemFilled
      <4>2. \A p \in JobWords(job.len)' : Settled(p)'
        <5>1. \A p \in JobWords(job.len) : Settled(p)'
          BY <2>3, <2>6, <2>8, <3>1, <4>1
        <5>2. JobWords(job.len)' = JobWords(job.len)
          BY <2>1 DEF JobWords, JobWord
        <5> QED BY <5>1, <5>2
      <4> QED BY <4>2 DEF SettledTo
    <3> QED BY <1>0, <1>a, <3>2, <3>3, <3>4 DEF Placed
  <2>10. CASE p2l_state = Wait /\ ~job.item
    <3>1. ~pdm_done /\ ~pdm_done_t /\ ~next_item_valid /\ job.st # "done"
      BY <2>10 DEF RInv, Pulses, Wait
    <3>2. ~pdm_done' /\ job'.st # "done"
      BY <1>1, <2>7, <3>1
    <3>3. P2lWait(a, in) /\ HostSays(in) /\ RecvDataCnt(in)
      BY <2>10 DEF Step, RequestFsm, P2lIdle, P2lHeader, P2lAddrH, P2lAddrL, Wait
    <3>4. SettledTo(Got) /\ ~is_next_item
      BY <2>10 DEF Placed, Flow, JobFlow, Wait
    <3>5. pdm_done_t' => in.cpld /\ p2l_data_cnt <= 1
      BY <3>1, <3>3 DEF P2lWait, RequestServed
    <3>6. CASE ~in.valid
      <4>1. ~in.cpld /\ p2l_data_cnt' = p2l_data_cnt
        BY <2>10, <3>3, <3>6, NoWordTaken
      <4>2. ~to_wb_fifo_wr' /\ ~pdm_done_t'
        BY <2>4, <3>5, <3>6, <4>1 DEF AddrCnt
      <4>3. \A p \in JobWords(Got) : Settled(p)'
        <5> SUFFICES ASSUME NEW p \in JobWords(Got) PROVE Settled(p)'
          OBVIOUS
        <5>1. Settled(p)
          BY <3>4 DEF SettledTo
        <5>2. p \in Nat \X Nat
          <6>1. \A i \in Nat : JobWord(i) \in Nat \X Nat
            BY JobWordForm
          <6> QED BY <6>1 DEF JobWords
        <5> QED BY <2>4, <4>2, <5>1, <5>2, SettledClk
      <4>4. JobWords(Got)' = JobWords(Got)
        BY <2>1, <4>1 DEF JobWords, JobWord, Got
      <4>5. SettledTo(Got)'
        BY <4>3, <4>4 DEF SettledTo
      <4> QED BY <1>0, <1>a, <3>2, <4>2, <4>5 DEF Placed
    <3>7. CASE in.valid
      <4>1. /\ in.data = (job.host + Got) % HostSpan /\ Got \in 0 .. job.len - 1
            /\ p2l_data_cnt \in 1 .. job.len /\ p2l_data_cnt' = p2l_data_cnt - 1
            /\ p2l_addr_cnt = (job.host + Got) % CarrierSpan
        BY <2>10, <3>7, TakenWord DEF Copying
      <4>2. to_wb_fifo_wr' /\ to_wb_fifo_din' = JobWord(Got)
        BY <2>4, <2>10, <3>4, <3>7, <4>1 DEF AddrCnt, Wait, JobWord
      <4>3. Got \in 0 .. CarrierSpan - 1 /\ Got' = Got + 1 /\ (p2l_data_cnt <= 1 => Got + 1 = job.len)
        <5>1. p2l_data_cnt <= 1 => p2l_data_cnt = 1
          BY <2>8, <4>1
        <5>2. job.len <= CarrierSpan /\ CarrierSpan \in Nat
          BY <2>10, JobForm DEF Copying, Placed, Wait
        <5> QED BY <2>1, <2>8, <4>1, <5>1, <5>2 DEF Got
      <4>4. \A p \in JobWords(Got + 1) : Settled(p)'
        <5> SUFFICES ASSUME NEW i \in 0 .. (Got + 1) - 1 PROVE \A p \in {JobWord(i)} : Settled(p)'
          BY DEF JobWords
        <5> TAKE p \in {JobWord(i)}
        <5>1. i \in Nat /\ (i = Got \/ i \in 0 .. Got - 1)
          BY <4>3
        <5>2. p \in Nat \X Nat
          BY <5>1, JobWordForm
        <5>3. i # Got => ~Clash(to_wb_fifo_din', p) /\ Settled(p)
          BY <3>4, <4>2, <4>3, <5>1, JobWordForm DEF SettledTo, JobWords
        <5> QED BY <2>4, <4>2, <5>2, <5>3, SettledClk
      <4>5. JobWords(Got)' = JobWords(Got + 1)
        BY <2>1, <4>3 DEF JobWords, JobWord
      <4>6. SettledTo(Got)'
        BY <4>4, <4>5 DEF SettledTo
      <4>7. pdm_done_t' => SettledTo(job.len)'
        <5> SUFFICES ASSUME pdm_done_t' PROVE SettledTo(job.len)'
          OBVIOUS
        <5>1. Got + 1 = job.len
          BY <3>5, <4>3
        <5>2. JobWords(job.len)' = JobWords(Got + 1)
          BY <2>1, <5>1 DEF JobWords, JobWord
        <5> QED BY <4>4, <5>2 DEF SettledTo
      <4> QED BY <1>0, <1>a, <3>2, <4>6, <4>7 DEF Placed
    <3> QED BY <3>6, <3>7
  <2>11. CASE job.item
    BY <1>0, <1>a, <2>1, <2>11 DEF Placed
  <2> QED BY <2>9, <2>10, <2>11
<1> QED BY <1>3, <1>4

(* An edge of p2l_dma_clk_i keeps every received word of the job settled. *)
LEMMA PlacedDmaClk ==
  ASSUME TInv, BInv, Copying, Placed, NEW stall \in BOOLEAN, NEW ack \in BOOLEAN, DmaClk(stall, ack)
  PROVE  Placed'
<1>1. UNCHANGED <<requestVars, hostVars>>
  BY DEF DmaClk
<1>2. UNCHANGED <<p2l_state, pdm_done_t, pdm_done, p2l_data_cnt, job>>
  BY <1>1 DEF requestVars, requestFsmVars, captureVars, hostVars
<1>3. DOMAIN carrier' = 0 .. CarrierSpan - 1
  BY DEF DmaClk, Placed
<1>4. ASSUME NEW n \in Int, SettledTo(n) PROVE \A p \in JobWords(n) : Settled(p)'
  <2> SUFFICES ASSUME NEW i \in 0 .. n - 1 PROVE \A p \in {JobWord(i)} : Settled(p)'
    BY DEF JobWords
  <2> TAKE p \in {JobWord(i)}
  <2>1. p \in (0 .. CarrierSpan - 1) \X Nat
    <3>1. i \in Nat
      OBVIOUS
    <3> QED BY <3>1, JobWordForm
  <2>2. Settled(p)
    BY <1>4 DEF SettledTo, JobWords
  <2> QED BY <2>1, <2>2, SettledDmaClk DEF Placed
<1>5. JobWords(Got)' = JobWords(Got) /\ JobWords(job.len)' = JobWords(job.len)
  BY <1>2 DEF JobWords, JobWord, Got
<1>6. Got \in Int /\ job.len \in Int
  <2>1. \A n \in Nat : 0 .. n - 1 \subseteq Int
    OBVIOUS
  <2>2. job.len \in Nat /\ 2 * LenSpan \in Nat
    BY JobForm DEF Copying
  <2>3. p2l_data_cnt \in Int
    BY <2>1, <2>2 DEF TInv, TypeOK, RequestTypeOK
  <2> QED BY <2>2, <2>3 DEF Got
<1>7. SettledTo(Got) => SettledTo(Got)'
  BY <1>4, <1>5, <1>6 DEF SettledTo
<1>8. SettledTo(job.len) => SettledTo(job.len)'
  BY <1>4, <1>5, <1>6 DEF SettledTo
<1> QED BY <1>2, <1>3, <1>7, <1>8 DEF Placed

(* Every step keeps every received word of the job settled. *)
LEMMA PlacedNext ==
  ASSUME TInv, RInv, BInv, Copying, Flow, ItemFilled, Placed, [Next]_vars
  PROVE  Placed'
<1>1. CASE ClkTick
  <2>1. PICK start \in BOOLEAN, kill \in BOOLEAN, others \in BOOLEAN, j \in ReadJobs \cup {job},
             in \in Inputs : ClkEdge(start, j, kill, others, in)
    BY <1>1, TickCases
  <2>2. /\ Step(start, j, Aborting /\ ~start, in) /\ (Aborting /\ ~start) \in BOOLEAN
        /\ Controls(start, kill, others, Aborting /\ ~start, in)
    BY <2>1, EdgeSteps, EdgeControls DEF Copying, Orderly
  <2>3. Flow'
    BY FlowNext DEF Copying
  <2> QED BY <2>2, <2>3, PlacedClk
<1>2. CASE DmaClkTick
  BY <1>2, PlacedDmaClk DEF DmaClkTick
<1>3. CASE UNCHANGED vars
  <2>1. UNCHANGED <<p2l_state, pdm_done_t, pdm_done, p2l_data_cnt, job, carrier, to_wb_fifo_wr,
                    to_wb_fifo_din, to_wb_fifo, to_wb_fifo_valid, to_wb_fifo_dout, p2l_stb,
                    p2l_adr, p2l_dat>>
    BY <1>3 DEF vars, requestVars, requestFsmVars, captureVars, hostVars, writerVars
  <2>2. JobWords(Got)' = JobWords(Got) /\ JobWords(job.len)' = JobWords(job.len)
    BY <2>1 DEF JobWords, JobWord, Got
  <2>3. \A p : Settled(p)' <=> Settled(p)
    BY <2>1 DEF Settled, AtFifo, AtWriter, AtBus, LastIn, Clean, Clash
  <2> QED BY <2>1, <2>2, <2>3 DEF Placed, SettledTo
<1> QED BY <1>1, <1>2, <1>3 DEF Next

(* When the master reports the end of a transfer, every word of it is on   *)
(* the carrier at its own address, or on its way there with nothing behind *)
(* it that would replace it: the FIFO, the two registers of the writer and *)
(* the bus keep the order in which the words came.                         *)
THEOREM EndOfJobComplete == Copying => (Spec => []DoneComplete)
<1> SUFFICES ASSUME Copying PROVE Spec => []DoneComplete
  OBVIOUS
<1>0. Orderly /\ "late" \notin HostEnv /\ "stall" \notin HostEnv /\ WriteDepth < WrCntSpan
  BY DEF Copying, Orderly
<1>1. Init => ItemFilled /\ ItemExact /\ Placed
  BY DEF Init, RequestInit, ItemFilled, ItemExact, Wait, Placed
<1>2. TInv /\ Placed => DoneComplete
  <2> SUFFICES ASSUME TInv, Placed, job.st = "done", ~job.item, NEW w \in Words(job)
               PROVE  \/ carrier[w % CarrierSpan] = w
                      \/ <<w % CarrierSpan, w>> \in OnTheWay
    BY DEF DoneComplete
  <2>1. PICK i \in 0 .. job.len - 1 : w = (job.host + i) % HostSpan
    BY DEF Words
  <2>2. w % CarrierSpan = (job.host + i) % CarrierSpan
    <3>1. \A y \in Int : (y % HostSpan) % CarrierSpan = y % CarrierSpan
      BY <1>0, JobForm, ModMod
    <3>2. job.host + i \in Int
      BY <1>0, JobForm
    <3> QED BY <2>1, <3>1, <3>2
  <2> DEFINE p == <<w % CarrierSpan, w>>
  <2>3. Settled(p)
    <3>1. p = JobWord(i)
      BY <2>1, <2>2 DEF JobWord
    <3> QED BY <3>1 DEF Placed, SettledTo, JobWords
  <2>4. LastIn(to_wb_fifo, p) => \E k \in DOMAIN to_wb_fifo : to_wb_fifo[k] = p
    BY DEF LastIn
  <2>5. p[1] = w % CarrierSpan /\ p[2] = w
    OBVIOUS
  <2> HIDE DEF p
  <2>6. p \in OnTheWay \/ carrier[p[1]] = p[2]
    BY <2>3, <2>4 DEF Settled, AtFifo, AtWriter, AtBus, OnTheWay
  <2> QED BY <2>5, <2>6 DEF p
<1>3. Init => Flow
  BY FlowInit
<1>4. TInv /\ RInv /\ [Next]_vars => RInv'
  BY <1>0, RoomNext
<1>5. TInv /\ RInv /\ Flow /\ [Next]_vars => Flow'
  BY <1>0, FlowNext
<1>6. TInv /\ RInv /\ Flow /\ ItemFilled /\ ItemExact /\ [Next]_vars => ItemFilled' /\ ItemExact'
  BY <1>0, ItemNext
<1>7. TInv /\ RInv /\ BInv /\ Flow /\ ItemFilled /\ Placed /\ [Next]_vars => Placed'
  BY PlacedNext
<1>8. BInv /\ [Next]_vars => BInv'
  BY <1>0, WriterNext
<1> QED BY <1>1, <1>2, <1>3, <1>4, <1>5, <1>6, <1>7, <1>8, WriterStart, TypesInit, TypesNext, RoomInit, PTL DEF Spec
=============================================================================
