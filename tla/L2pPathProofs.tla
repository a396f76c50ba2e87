---------------------------- MODULE L2pPathProofs ----------------------------
(***************************************************************************)
(* The local-to-PCIe path for every payload, length and environment: a     *)
(* word is shown only under the grant, and the packets reach the wire      *)
(* whole.                                                                  *)
(***************************************************************************)
EXTENDS L2pPath, TLAPS

LdmInPacket == {"L2P_ADDR_H", "L2P_ADDR_L", "L2P_DATA", "L2P_LAST_DATA",
                "L2P_WAIT_RDY", "L2P_WAIT_DATA"}
PdmInPacket == {"P2L_ADDR_H", "P2L_ADDR_L"}

(* The states and lines the grant depends on. *)
PTypes ==
  /\ l2p_state \in LdmInPacket \cup {"L2P_IDLE", "L2P_HEADER"}
  /\ cpl_state \in {"L2P_IDLE", "L2P_HEADER", "L2P_DATA"}
  /\ p2l_state \in PdmInPacket \cup {"P2L_IDLE", "P2L_HEADER", "P2L_WAIT_READ_COMPLETION"}
  /\ arb_gnt \in Sources \cup {"none"}
  /\ data_fifo_valid \in BOOLEAN
  /\ ldm_req \in BOOLEAN /\ ldm_valid \in BOOLEAN /\ ldm_dframe \in BOOLEAN
  /\ wbm_req \in BOOLEAN /\ wbm_valid \in BOOLEAN /\ wbm_dframe \in BOOLEAN
  /\ pdm_req \in BOOLEAN /\ pdm_valid \in BOOLEAN /\ pdm_dframe \in BOOLEAN

(* A requester asks before its packet, and holds the grant from the header *)
(* to the last word, the only one shown without dframe.                    *)
LdmHolds ==
  /\ ldm_req <=> l2p_state = "L2P_HEADER"
  /\ l2p_state \in LdmInPacket => arb_gnt = "ldm" /\ ldm_dframe
  /\ ldm_valid => arb_gnt = "ldm"
WbmHolds ==
  /\ wbm_req <=> cpl_state = "L2P_HEADER"
  /\ cpl_state = "L2P_DATA" => arb_gnt = "wbm" /\ wbm_dframe /\ wbm_valid
  /\ cpl_state = "L2P_HEADER" => ~wbm_valid
  /\ wbm_valid => arb_gnt = "wbm"
PdmHolds ==
  /\ pdm_req <=> p2l_state = "P2L_HEADER"
  /\ p2l_state \in PdmInPacket => arb_gnt = "pdm" /\ pdm_dframe /\ pdm_valid
  /\ pdm_valid => p2l_state \in PdmInPacket \cup {"P2L_WAIT_READ_COMPLETION"}
  /\ pdm_valid => arb_gnt = "pdm"

GInv == PTypes /\ LdmHolds /\ WbmHolds /\ PdmHolds

-----------------------------------------------------------------------------
(* The requests and end marks the arbiter sees are the requesters' own. *)
LEMMA BusFields ==
  /\ Req["ldm"] = ldm_req /\ Req["wbm"] = wbm_req /\ Req["pdm"] = pdm_req
  /\ Bus["ldm"] = [valid |-> ldm_valid, dframe |-> ldm_dframe, word |-> ldm_word]
  /\ Bus["wbm"] = [valid |-> wbm_valid, dframe |-> wbm_dframe, word |-> wbm_word]
  /\ Bus["pdm"] = [valid |-> pdm_valid, dframe |-> pdm_dframe, word |-> pdm_word]
  BY DEF Req, Bus

(* The arbiter takes the grant from nobody who asks or is in a packet. *)
LEMMA GrantKept ==
  ASSUME NEW req, NEW bus, NEW s \in Sources, Arbitrate(req, bus), arb_gnt = s,
         req[s] \/ ~(bus[s].valid /\ ~bus[s].dframe)
  PROVE  arb_gnt' = s
  BY DEF Arbitrate, ReqValid, Eop, Sources

(* The arbiter grants the bus to one of its requesters or to none. *)
LEMMA GrantTypes ==
  ASSUME NEW req, NEW bus, Arbitrate(req, bus), arb_gnt \in Sources \cup {"none"}
  PROVE  arb_gnt' \in Sources \cup {"none"}
  BY DEF Arbitrate, Sources

(* One tick of each requester. *)
LEMMA LdmTick ==
  ASSUME GInv, Arbitrate(Req, Bus), NEW abort \in BOOLEAN, NEW wr_rdy \in BOOLEAN,
         NEW rdy \in BOOLEAN, L2pFsm(abort, arb_gnt = "ldm", wr_rdy, rdy)
  PROVE  /\ LdmHolds'
         /\ l2p_state' \in LdmInPacket \cup {"L2P_IDLE", "L2P_HEADER"}
         /\ ldm_req' \in BOOLEAN /\ ldm_valid' \in BOOLEAN /\ ldm_dframe' \in BOOLEAN
<1> USE DEF GInv, PTypes, LdmHolds, LdmInPacket
<1>1. arb_gnt = "ldm" /\ (ldm_req \/ ~ldm_valid \/ ldm_dframe) => arb_gnt' = "ldm"
  BY GrantKept, BusFields DEF Sources
<1>2. CASE L2pIdle
  BY <1>1, <1>2 DEF L2pIdle
<1>3. CASE L2pHeader(arb_gnt = "ldm", wr_rdy)
  BY <1>1, <1>3 DEF L2pHeader
<1>4. CASE L2pAddrH
  BY <1>1, <1>4 DEF L2pAddrH
<1>5. CASE L2pAddrL
  BY <1>1, <1>5 DEF L2pAddrL
<1>6. CASE L2pData(abort, rdy)
  BY <1>1, <1>6 DEF L2pData
<1>7. CASE L2pWaitRdy(rdy)
  BY <1>1, <1>7 DEF L2pWaitRdy
<1>8. CASE L2pWaitData
  BY <1>1, <1>8 DEF L2pWaitData
<1>9. CASE L2pLastData(rdy)
  BY <1>1, <1>9 DEF L2pLastData
<1> QED BY <1>2, <1>3, <1>4, <1>5, <1>6, <1>7, <1>8, <1>9 DEF L2pFsm

(* What an edge does to the completion FSM and its word, state by state. *)
LEMMA WbmTick ==
  ASSUME GInv, Arbitrate(Req, Bus), NEW rd_rdy \in BOOLEAN, CplFsm(arb_gnt = "wbm", rd_rdy)
  PROVE  /\ WbmHolds' /\ cpl_state' \in {"L2P_IDLE", "L2P_HEADER", "L2P_DATA"}
         /\ wbm_req' \in BOOLEAN /\ wbm_valid' \in BOOLEAN /\ wbm_dframe' \in BOOLEAN
<1> USE DEF GInv, PTypes, WbmHolds
<1>1. arb_gnt = "wbm" /\ (wbm_req \/ ~wbm_valid \/ wbm_dframe) => arb_gnt' = "wbm"
  BY GrantKept, BusFields DEF Sources
<1>2. CASE CplIdle(rd_rdy)
  BY <1>1, <1>2 DEF CplIdle
<1>3. CASE CplHeaderSent(arb_gnt = "wbm")
  BY <1>1, <1>3 DEF CplHeaderSent
<1>4. CASE CplDataSent
  BY <1>1, <1>4 DEF CplDataSent
<1> QED BY <1>2, <1>3, <1>4 DEF CplFsm

(* What an edge does to the request FSM and its word, state by state. *)
LEMMA PdmTick ==
  ASSUME GInv, Arbitrate(Req, Bus), NEW start \in BOOLEAN, NEW abort \in BOOLEAN, NEW in,
         RequestFsm(start, FALSE, abort, arb_gnt = "pdm", in)
  PROVE  /\ PdmHolds'
         /\ p2l_state' \in PdmInPacket
                             \cup {"P2L_IDLE", "P2L_HEADER", "P2L_WAIT_READ_COMPLETION"}
         /\ pdm_req' \in BOOLEAN /\ pdm_valid' \in BOOLEAN /\ pdm_dframe' \in BOOLEAN
<1> USE DEF GInv, PTypes, PdmHolds, PdmInPacket
<1>1. arb_gnt = "pdm" /\ (pdm_req \/ ~pdm_valid \/ pdm_dframe) => arb_gnt' = "pdm"
  BY GrantKept, BusFields DEF Sources
<1>2. CASE P2lIdle(start, FALSE)
  BY <1>1, <1>2 DEF P2lIdle
<1>3. CASE P2lHeader(arb_gnt = "pdm")
  BY <1>1, <1>3 DEF P2lHeader
<1>4. CASE P2lAddrH
  BY <1>1, <1>4 DEF P2lAddrH
<1>5. CASE P2lAddrL
  BY <1>1, <1>5 DEF P2lAddrL
<1>6. CASE P2lWait(abort, in)
  BY <1>1, <1>6 DEF P2lWait
<1> QED BY <1>2, <1>3, <1>4, <1>5, <1>6 DEF RequestFsm

(* What a step that is no edge of clk_i leaves alone. *)
controlVars == <<arb_gnt, ser_t, ser_o, line, l2p_state, ldm_req, ldm_word, ldm_valid,
                 ldm_dframe, ldm_edb, data_fifo_valid, cpl_state, wbm_req, wbm_word,
                 wbm_valid, wbm_dframe, p2l_state, pdm_req, pdm_word, pdm_valid, pdm_dframe>>

(* The parts of an edge of clk_i. *)
ClkParts(abort, rstart, in, wr_rdy, rd_rdy, rdy) ==
  /\ Allowed(rdy) /\ FifoRead
  /\ L2pFsm(abort, arb_gnt = "ldm", wr_rdy, rdy)
  /\ CplFsm(arb_gnt = "wbm", rd_rdy)
  /\ RequestFsm(rstart, FALSE, abort, arb_gnt = "pdm", in)
  /\ ArbiterTick(Req, Bus) /\ Wire

(* A step runs all parts of an edge, or leaves the control alone. *)
LEMMA PathCases ==
  [Next]_vars => \/ \E abort, rstart, wr_rdy, rd_rdy, rdy \in BOOLEAN, in \in {NoInput, Answer} :
                      ClkParts(abort, rstart, in, wr_rdy, rd_rdy, rdy)
                 \/ UNCHANGED controlVars
<1> SUFFICES ASSUME [Next]_vars
             PROVE  \/ \E abort, rstart, wr_rdy, rd_rdy, rdy \in BOOLEAN, in \in {NoInput, Answer} :
                         ClkParts(abort, rstart, in, wr_rdy, rd_rdy, rdy)
                    \/ UNCHANGED controlVars
  OBVIOUS
<1>1. CASE ClkTick
  <2>1. PICK wlen \in WriteLens \cup {0}, rlen \in ReadLens \cup {0},
             in \in {NoInput, Answer}, wr_rdy \in BOOLEAN, rd_rdy \in BOOLEAN,
             rdy \in BOOLEAN, kill \in BOOLEAN :
               Clk(wlen, rlen, in, wr_rdy, rd_rdy, rdy, kill)
    BY <1>1 DEF ClkTick
  <2>2. ClkParts(killed > 0 /\ ~(wlen # 0) /\ ~(rlen # 0), rlen # 0, in, wr_rdy, rd_rdy, rdy)
    BY <2>1 DEF Clk, PacketTick, CompletionTick, RequestTick, ClkParts
  <2> QED BY <2>2
<1>2. CASE CarrierWord
  BY <1>2 DEF CarrierWord, controlVars, arbiterVars, fsmVars, cplVars, requestFsmVars
<1>3. CASE HostRead
  BY <1>3 DEF HostRead, controlVars, arbiterVars, packetVars, fsmVars, fifoVars, cplVars,
              requestFsmVars, pathVars
<1>4. CASE CarrierWrite
  BY <1>4 DEF CarrierWrite, controlVars, arbiterVars, packetVars, fsmVars, fifoVars, cplVars,
              requestFsmVars, pathVars
<1>5. CASE UNCHANGED vars
  BY <1>5 DEF vars, controlVars, arbiterVars, packetVars, fsmVars, fifoVars, cplVars,
              requestFsmVars, pathVars
<1> QED BY <1>1, <1>2, <1>3, <1>4, <1>5 DEF Next

(* The invariant of the grants holds after reset. *)
LEMMA GrantInit == Init => GInv
  BY DEF Init, ArbiterInit, PacketInit, CompletionInit, RequestInit, GInv, PTypes,
         LdmHolds, WbmHolds, PdmHolds, LdmInPacket, PdmInPacket, Sources

(* Every edge keeps the invariant of the grants. *)
LEMMA GrantNext == GInv /\ [Next]_vars => GInv'
<1> SUFFICES ASSUME GInv, [Next]_vars PROVE GInv'
  OBVIOUS
<1>1. CASE UNCHANGED controlVars
  BY <1>1 DEF controlVars, GInv, PTypes, LdmHolds, WbmHolds, PdmHolds
<1>2. ASSUME NEW abort \in BOOLEAN, NEW rstart \in BOOLEAN, NEW wr_rdy \in BOOLEAN,
             NEW rd_rdy \in BOOLEAN, NEW rdy \in BOOLEAN, NEW in \in {NoInput, Answer},
             ClkParts(abort, rstart, in, wr_rdy, rd_rdy, rdy)
      PROVE  GInv'
  <2>1. Arbitrate(Req, Bus)
    BY <1>2 DEF ClkParts, ArbiterTick
  <2>2. arb_gnt' \in Sources \cup {"none"}
    BY <2>1, GrantTypes DEF GInv, PTypes
  <2>3. data_fifo_valid' \in BOOLEAN
    BY <1>2, Zenon DEF ClkParts, FifoRead
  <2>4. /\ LdmHolds'
        /\ l2p_state' \in LdmInPacket \cup {"L2P_IDLE", "L2P_HEADER"}
        /\ ldm_req' \in BOOLEAN /\ ldm_valid' \in BOOLEAN /\ ldm_dframe' \in BOOLEAN
    BY <1>2, <2>1, LdmTick DEF ClkParts
  <2>5. /\ WbmHolds' /\ cpl_state' \in {"L2P_IDLE", "L2P_HEADER", "L2P_DATA"}
        /\ wbm_req' \in BOOLEAN /\ wbm_valid' \in BOOLEAN /\ wbm_dframe' \in BOOLEAN
    BY <1>2, <2>1, WbmTick DEF ClkParts
  <2>6. /\ PdmHolds'
        /\ p2l_state' \in PdmInPacket
                            \cup {"P2L_IDLE", "P2L_HEADER", "P2L_WAIT_READ_COMPLETION"}
        /\ pdm_req' \in BOOLEAN /\ pdm_valid' \in BOOLEAN /\ pdm_dframe' \in BOOLEAN
    BY <1>2, <2>1, PdmTick DEF ClkParts
  <2> QED BY <2>2, <2>3, <2>4, <2>5, <2>6, Zenon DEF GInv, PTypes
<1> QED BY <1>1, <1>2, PathCases

(* The invariant of the grants holds in every behaviour. *)
LEMMA GrantInv == Spec => []GInv
  BY GrantInit, GrantNext, PTL DEF Spec

(* The arbiter's multiplexer drops no word: a requester shows a valid word *)
(* only under its grant, also when the GN4124 throttles the path, a FIFO   *)
(* runs dry or a job is aborted in the middle of a packet.                 *)
THEOREM WordsAreGranted == Spec => []WordsGranted
<1>1. GInv => WordsGranted
  BY DEF GInv, LdmHolds, WbmHolds, PdmHolds, WordsGranted
<1> QED BY <1>1, GrantInv, PTL

-----------------------------------------------------------------------------
(* What is on the wire after the word s when l was there before it. *)
Adv(l, s) ==
  LET k == s.word.kind
      last == ~s.dframe
  IN IF ~s.valid \/ l = Torn THEN l
     ELSE IF l \in {Free, Cut} /\ k \in Starts /\ ~last THEN [packet |-> k, word |-> k]
     ELSE IF l = Cut THEN Cut
     ELSE IF k \in After(l) /\ ~last /\ ~Ends(l, k) THEN [l EXCEPT !.word = k]
     ELSE IF k \in After(l) /\ last /\ (Ends(l, k) \/ k = "data") THEN Free
     ELSE Torn

(* The word the multiplexer takes in this tick, and the wire when it and   *)
(* the two registers behind it have been sent.                             *)
Taken == IF arb_gnt = "none" THEN Silent ELSE Bus[arb_gnt]
Sent == Adv(Adv(Adv(line, ser_o), ser_t), Taken)

At(p, w) == [packet |-> p, word |-> w]
Begun(p) == {At(p, p), At(p, "high")}
Body == {At("header", "low"), At("header", "data")}

(* Sent follows the requester that is in a packet; without one the wire is *)
(* free, or cut by an abort, which it is at the latest when edb has been   *)
(* seen.                                                                   *)
SInv ==
  /\ l2p_state # "L2P_WAIT_RDY"
  /\ ldm_edb => l2p_state = "L2P_IDLE" /\ arb_gnt = "ldm" /\ ldm_dframe /\ Sent \in Body
                /\ (ser_t.valid => ser_t.word.kind \notin Starts)
                /\ (ldm_valid => ldm_word.kind \notin Starts)
  /\ l2p_state \in {"L2P_DATA", "L2P_WAIT_DATA"} => ldm_word.kind \notin Starts
  /\ l2p_state = "L2P_ADDR_H" => Sent = At("header", "header")
  /\ l2p_state = "L2P_ADDR_L" => Sent \in Begun("header")
  /\ l2p_state \in {"L2P_ADDR_H", "L2P_ADDR_L"} => ldm_valid /\ ldm_dframe
  /\ l2p_state \in {"L2P_DATA", "L2P_LAST_DATA", "L2P_WAIT_DATA"} => Sent \in Body
  /\ cpl_state = "L2P_DATA" => Sent = At("cpl", "cpl")
  /\ p2l_state = "P2L_ADDR_H" => Sent = At("read", "read")
  /\ p2l_state = "P2L_ADDR_L" => Sent \in Begun("read")
  /\ \/ ldm_edb \/ l2p_state \in LdmInPacket
     \/ cpl_state = "L2P_DATA" \/ p2l_state \in PdmInPacket
     \/ Sent \in {Free, Cut}

(* A tick without a word leaves the line as it is. *)
LEMMA AdvSilent == ASSUME NEW l, NEW s, ~s.valid PROVE Adv(l, s) = l
  BY DEF Adv

(* A line on which packets were torn stays torn. *)
LEMMA AdvTorn == ASSUME NEW s PROVE Adv(Torn, s) = Torn
  BY DEF Adv

(* After a packet was cut, only a first word changes the line. *)
LEMMA AdvCut == ASSUME NEW s, s.valid => s.word.kind \notin Starts PROVE Adv(Cut, s) = Cut
  BY DEF Adv, Cut, Torn, Free

(* A first word opens a packet on a free or cut line. *)
LEMMA AdvStart ==
  ASSUME NEW l \in {Free, Cut}, NEW s, s.valid, s.dframe, s.word.kind \in Starts
  PROVE  Adv(l, s) = At(s.word.kind, s.word.kind)
  BY DEF Adv, At, Free, Cut, Torn

(* A word that is neither first nor last goes on with its packet. *)
LEMMA AdvInside ==
  ASSUME NEW s, s.valid
  PROVE  /\ s.dframe /\ s.word.kind = "high" =>
              /\ Adv(At("header", "header"), s) = At("header", "high")
              /\ Adv(At("read", "read"), s) = At("read", "high")
         /\ s.dframe /\ s.word.kind = "low" =>
              \A l \in Begun("header") : Adv(l, s) = At("header", "low")
         /\ s.dframe /\ s.word.kind = "data" =>
              \A l \in Body : Adv(l, s) = At("header", "data")
  BY DEF Adv, At, Begun, Body, Free, Cut, Torn, After, Ends

(* A last word ends its packet. *)
LEMMA AdvLast ==
  ASSUME NEW s, s.valid, ~s.dframe
  PROVE  /\ s.word.kind = "data" => \A l \in Body : Adv(l, s) = Free
         /\ s.word.kind = "low" => \A l \in Begun("read") : Adv(l, s) = Free
         /\ s.word.kind = "cpl_data" => Adv(At("cpl", "cpl"), s) = Free
  BY DEF Adv, At, Begun, Body, Free, Cut, Torn, After, Ends

(* A tick moves the words one register on. *)
LEMMA Shift ==
  ASSUME Wire, Mux(Bus)
  PROVE  /\ ~ldm_edb => Sent' = Adv(Sent, Taken')
         /\ ldm_edb => Sent' = Adv(Adv(Adv(Cut, ser_t), Taken), Taken')
         /\ ser_t' = Taken
<1>1. line' = IF ldm_edb THEN Cut ELSE Adv(line, ser_o)
  BY DEF Wire, Adv
<1>2. ser_t' = Taken /\ ser_o' = ser_t
  BY DEF Mux, Taken
<1> QED BY <1>1, <1>2 DEF Sent

(* What the multiplexer takes after this tick. *)
LEMMA TakenNext ==
  ASSUME GInv'
  PROVE  /\ ldm_valid' => Taken' = [valid |-> ldm_valid', dframe |-> ldm_dframe', word |-> ldm_word']
         /\ wbm_valid' => Taken' = [valid |-> wbm_valid', dframe |-> wbm_dframe', word |-> wbm_word']
         /\ pdm_valid' => Taken' = [valid |-> pdm_valid', dframe |-> pdm_dframe', word |-> pdm_word']
         /\ ~ldm_valid' /\ ~wbm_valid' /\ ~pdm_valid' => ~Taken'.valid
  BY DEF GInv, PTypes, LdmHolds, WbmHolds, PdmHolds, Taken, Silent, Sources, Bus

(* Who does not hold the grant shows nothing and begins no packet. *)
LEMMA OthersQuiet ==
  ASSUME GInv, SInv, NEW abort \in BOOLEAN, NEW rstart \in BOOLEAN, NEW wr_rdy \in BOOLEAN,
         NEW rd_rdy \in BOOLEAN, NEW rdy \in BOOLEAN, NEW in,
         ClkParts(abort, rstart, in, wr_rdy, rd_rdy, rdy)
  PROVE  /\ arb_gnt # "ldm" => ~ldm_valid' /\ ~ldm_edb /\ ~ldm_edb' /\ l2p_state' \notin LdmInPacket
         /\ arb_gnt # "wbm" => ~wbm_valid' /\ cpl_state' # "L2P_DATA"
         /\ arb_gnt # "pdm" => ~pdm_valid' /\ p2l_state' \notin PdmInPacket
<1> USE DEF GInv, PTypes
<1>1. arb_gnt # "ldm" => ~ldm_valid' /\ ~ldm_edb /\ ~ldm_edb' /\ l2p_state' \notin LdmInPacket
  <2> SUFFICES ASSUME arb_gnt # "ldm"
               PROVE  ~ldm_valid' /\ ~ldm_edb /\ ~ldm_edb' /\ l2p_state' \notin LdmInPacket
    OBVIOUS
  <2>1. l2p_state \in {"L2P_IDLE", "L2P_HEADER"} /\ ~ldm_edb
    BY DEF LdmHolds, SInv
  <2>2. L2pIdle \/ L2pHeader(arb_gnt = "ldm", wr_rdy)
    BY <2>1 DEF ClkParts, L2pFsm, L2pAddrH, L2pAddrL, L2pData, L2pWaitRdy, L2pWaitData, L2pLastData
  <2> QED BY <2>1, <2>2 DEF L2pIdle, L2pHeader, LdmInPacket
<1>2. arb_gnt # "wbm" => ~wbm_valid' /\ cpl_state' # "L2P_DATA"
  BY DEF WbmHolds, ClkParts, CplFsm, CplIdle, CplHeaderSent, CplDataSent
<1>3. arb_gnt # "pdm" => ~pdm_valid' /\ p2l_state' \notin PdmInPacket
  <2> SUFFICES ASSUME arb_gnt # "pdm" PROVE ~pdm_valid' /\ p2l_state' \notin PdmInPacket
    OBVIOUS
  <2>1. p2l_state \notin PdmInPacket /\ ~pdm_valid
    BY DEF PdmHolds
  <2>2. P2lIdle(rstart, FALSE) \/ P2lHeader(arb_gnt = "pdm") \/ P2lWait(abort, in)
    BY <2>1 DEF ClkParts, RequestFsm, P2lAddrH, P2lAddrL, PdmInPacket
  <2> QED BY <2>1, <2>2 DEF P2lIdle, P2lHeader, P2lWait, PdmInPacket
<1> QED BY <1>1, <1>2, <1>3

(* Who holds the grant holds it alone. *)
LEMMA Alone ==
  ASSUME GInv, SInv
  PROVE  /\ arb_gnt # "ldm" => l2p_state \notin LdmInPacket /\ ~ldm_edb /\ ~ldm_valid
         /\ arb_gnt # "wbm" => cpl_state # "L2P_DATA" /\ ~wbm_valid
         /\ arb_gnt # "pdm" => p2l_state \notin PdmInPacket /\ ~pdm_valid
  BY DEF GInv, PTypes, LdmHolds, WbmHolds, PdmHolds, SInv

(* A tick in which nobody shows a word. *)
LEMMA Quiet ==
  ASSUME GInv', Wire, Mux(Bus), ~ldm_edb, ~ldm_valid', ~wbm_valid', ~pdm_valid'
  PROVE  Sent' = Sent
<1>1. ~Taken'.valid
  BY TakenNext
<1> QED BY <1>1, Shift, AdvSilent

(* The Wishbone master's completion goes out under its grant. *)
LEMMA WbmSent ==
  ASSUME GInv, GInv', SInv, NEW rd_rdy \in BOOLEAN, CplFsm(arb_gnt = "wbm", rd_rdy),
         Wire, Mux(Bus), arb_gnt = "wbm", ~ldm_edb, ~ldm_valid', ~pdm_valid'
  PROVE  /\ cpl_state' = "L2P_DATA" => Sent' = At("cpl", "cpl")
         /\ cpl_state' # "L2P_DATA" => Sent' \in {Free, Cut}
<1>1. /\ cpl_state = "L2P_DATA" => Sent = At("cpl", "cpl")
      /\ cpl_state # "L2P_DATA" => Sent \in {Free, Cut}
  BY Alone DEF SInv
<1>2. CASE CplIdle(rd_rdy)
  <2>1. cpl_state = "L2P_IDLE" /\ cpl_state' # "L2P_DATA" /\ ~wbm_valid'
    BY <1>2 DEF CplIdle
  <2>2. Sent' = Sent
    BY <2>1, Quiet
  <2> QED BY <1>1, <2>1, <2>2
<1>3. CASE CplHeaderSent(arb_gnt = "wbm")
  <2>1. /\ cpl_state = "L2P_HEADER" /\ cpl_state' = "L2P_DATA" /\ wbm_valid' /\ wbm_dframe'
        /\ wbm_word' = CplHeader(p2l_cid)
    BY <1>3 DEF CplHeaderSent
  <2>2. wbm_word'.kind = "cpl"
    BY <2>1 DEF CplHeader
  <2>3. Taken' = [valid |-> wbm_valid', dframe |-> wbm_dframe', word |-> wbm_word']
    BY <2>1, TakenNext
  <2>4. Taken'.valid /\ Taken'.dframe /\ Taken'.word.kind = "cpl"
    BY <2>1, <2>2, <2>3
  <2> QED BY <1>1, <2>1, <2>4, Shift, AdvStart DEF Starts
<1>4. CASE CplDataSent
  <2>1. /\ cpl_state = "L2P_DATA" /\ cpl_state' = "L2P_IDLE" /\ wbm_valid' /\ ~wbm_dframe'
        /\ wbm_word' = CplData(from_wb_fifo_dout)
    BY <1>4 DEF CplDataSent, GInv, WbmHolds
  <2>2. wbm_word'.kind = "cpl_data"
    BY <2>1 DEF CplData
  <2>3. Taken' = [valid |-> wbm_valid', dframe |-> wbm_dframe', word |-> wbm_word']
    BY <2>1, TakenNext
  <2>4. Taken'.valid /\ ~Taken'.dframe /\ Taken'.word.kind = "cpl_data"
    BY <2>1, <2>2, <2>3
  <2> QED BY <1>1, <2>1, <2>4, Shift, AdvLast
<1> QED BY <1>2, <1>3, <1>4 DEF CplFsm

(* So does the P2L DMA master's read request. *)
LEMMA PdmSent ==
  ASSUME GInv, GInv', SInv, NEW start \in BOOLEAN, NEW abort \in BOOLEAN, NEW in,
         RequestFsm(start, FALSE, abort, arb_gnt = "pdm", in),
         Wire, Mux(Bus), arb_gnt = "pdm", ~ldm_edb, ~ldm_valid', ~wbm_valid'
  PROVE  /\ p2l_state' = "P2L_ADDR_H" => Sent' = At("read", "read")
         /\ p2l_state' = "P2L_ADDR_L" => Sent' \in Begun("read")
         /\ p2l_state' \notin PdmInPacket => Sent' \in {Free, Cut}
<1> USE DEF PdmInPacket
<1>1. /\ p2l_state = "P2L_ADDR_H" => Sent = At("read", "read")
      /\ p2l_state = "P2L_ADDR_L" => Sent \in Begun("read")
      /\ p2l_state \notin PdmInPacket => Sent \in {Free, Cut}
  BY Alone DEF SInv
<1>2. ASSUME p2l_state \notin PdmInPacket, p2l_state' \notin PdmInPacket, ~pdm_valid'
      PROVE  Sent' \in {Free, Cut}
  BY <1>1, <1>2, Quiet
<1>3. CASE P2lIdle(start, FALSE)
  <2>1. /\ p2l_state \notin PdmInPacket /\ p2l_state' \notin PdmInPacket /\ ~pdm_valid'
    BY <1>3 DEF P2lIdle, GInv, PdmHolds
  <2> QED BY <1>2, <2>1
<1>4. CASE P2lHeader(arb_gnt = "pdm")
  <2>1. /\ p2l_state = "P2L_HEADER" /\ p2l_state' \in PdmInPacket /\ pdm_valid' /\ pdm_dframe'
        /\ pdm_word' = ReadHeader(pdm_len_header, pdm_64b)
    BY <1>4 DEF P2lHeader
  <2>2. pdm_word'.kind = "read"
    BY <2>1 DEF ReadHeader
  <2>3. Taken' = [valid |-> pdm_valid', dframe |-> pdm_dframe', word |-> pdm_word']
    BY <2>1, TakenNext
  <2>4. Taken'.valid /\ Taken'.dframe /\ Taken'.word.kind = "read"
    BY <2>1, <2>2, <2>3
  <2>5. Sent' = At("read", "read")
    BY <1>1, <2>1, <2>4, Shift, AdvStart DEF Starts
  <2> QED BY <2>1, <2>5 DEF Begun
<1>5. CASE P2lAddrH
  <2>1. /\ p2l_state = "P2L_ADDR_H" /\ p2l_state' = "P2L_ADDR_L" /\ pdm_valid' /\ pdm_dframe'
        /\ pdm_word' = ReadHigh(pdm_address_h)
    BY <1>5 DEF P2lAddrH, GInv, PdmHolds
  <2>2. pdm_word'.kind = "high"
    BY <2>1 DEF ReadHigh
  <2>3. Taken' = [valid |-> pdm_valid', dframe |-> pdm_dframe', word |-> pdm_word']
    BY <2>1, TakenNext
  <2>4. Taken'.valid /\ Taken'.dframe /\ Taken'.word.kind = "high"
    BY <2>1, <2>2, <2>3
  <2>5. Sent' = At("read", "high")
    BY <1>1, <2>1, <2>4, Shift, AdvInside
  <2> QED BY <2>1, <2>5 DEF Begun
<1>6. CASE P2lAddrL
  <2>1. /\ p2l_state = "P2L_ADDR_L" /\ p2l_state' \notin PdmInPacket /\ pdm_valid' /\ ~pdm_dframe'
        /\ pdm_word' = ReadLow(pdm_address_l)
    BY <1>6 DEF P2lAddrL, GInv, PdmHolds
  <2>2. pdm_word'.kind = "low"
    BY <2>1 DEF ReadLow
  <2>3. Taken' = [valid |-> pdm_valid', dframe |-> pdm_dframe', word |-> pdm_word']
    BY <2>1, TakenNext
  <2>4. Taken'.valid /\ ~Taken'.dframe /\ Taken'.word.kind = "low"
    BY <2>1, <2>2, <2>3
  <2> QED BY <1>1, <2>1, <2>4, Shift, AdvLast
<1>7. CASE P2lWait(abort, in)
  <2>1. /\ p2l_state \notin PdmInPacket /\ p2l_state' \notin PdmInPacket /\ ~pdm_valid'
    BY <1>7 DEF P2lWait
  <2> QED BY <1>2, <2>1
<1> QED BY <1>3, <1>4, <1>5, <1>6, <1>7 DEF RequestFsm

(* And the L2P DMA master's memory write, up to its last word or an abort. *)
LdmPart ==
  /\ l2p_state # "L2P_WAIT_RDY"
  /\ ldm_edb => l2p_state = "L2P_IDLE" /\ arb_gnt = "ldm" /\ ldm_dframe /\ Sent \in Body
                /\ (ser_t.valid => ser_t.word.kind \notin Starts)
                /\ (ldm_valid => ldm_word.kind \notin Starts)
  /\ l2p_state \in {"L2P_DATA", "L2P_WAIT_DATA"} => ldm_word.kind \notin Starts
  /\ l2p_state = "L2P_ADDR_H" => Sent = At("header", "header")
  /\ l2p_state = "L2P_ADDR_L" => Sent \in Begun("header")
  /\ l2p_state \in {"L2P_ADDR_H", "L2P_ADDR_L"} => ldm_valid /\ ldm_dframe
  /\ l2p_state \in {"L2P_DATA", "L2P_LAST_DATA", "L2P_WAIT_DATA"} => Sent \in Body
  /\ ldm_edb \/ l2p_state \in LdmInPacket \/ Sent \in {Free, Cut}

(* The L2P master continues on the line what its FSM is in the middle of. *)
LEMMA LdmSent ==
  ASSUME GInv, GInv', SInv, NEW abort \in BOOLEAN, NEW wr_rdy \in BOOLEAN,
         L2pFsm(abort, arb_gnt = "ldm", wr_rdy, TRUE), Arbitrate(Req, Bus),
         Wire, Mux(Bus), arb_gnt = "ldm", ~ldm_edb, ~wbm_valid', ~pdm_valid'
  PROVE  LdmPart'
<1> USE DEF LdmInPacket
<1>0. /\ l2p_state \in LdmInPacket \cup {"L2P_IDLE", "L2P_HEADER"}
      /\ l2p_state \in LdmInPacket => ldm_dframe
      /\ data_fifo_valid \in BOOLEAN
  BY DEF GInv, PTypes, LdmHolds
<1>1. LdmPart
  BY Alone DEF SInv, LdmPart
<1>2. ldm_valid' => /\ Taken'.valid = TRUE /\ Taken'.dframe = ldm_dframe'
                    /\ Taken'.word = ldm_word'
  BY TakenNext
<1>3. ~ldm_valid' => Sent' = Sent
  BY Quiet
<1>4. Sent' = Adv(Sent, Taken')
  BY Shift
<1>5. CASE L2pIdle
  <2>1. /\ l2p_state = "L2P_IDLE" /\ ~ldm_valid' /\ ~ldm_edb'
        /\ l2p_state' \in {"L2P_IDLE", "L2P_HEADER"}
    BY <1>5 DEF L2pIdle
  <2> QED BY <1>1, <1>3, <2>1 DEF LdmPart
<1>6. CASE L2pHeader(arb_gnt = "ldm", wr_rdy)
  <2>1. CASE wr_rdy
    <3>1. /\ l2p_state = "L2P_HEADER" /\ ldm_valid' /\ ldm_dframe' /\ ~ldm_edb'
          /\ l2p_state' \in {"L2P_ADDR_H", "L2P_ADDR_L"}
          /\ ldm_word' = Header(l2p_len_header, l2p_64b)
      BY <1>6, <2>1 DEF L2pHeader
    <3>2. ldm_word'.kind = "header"
      BY <3>1 DEF Header
    <3>3. Sent \in {Free, Cut}
      BY <1>1, <3>1 DEF LdmPart
    <3>4. Sent' = At("header", "header")
      <4>1. Taken'.valid /\ Taken'.dframe /\ Taken'.word.kind = "header"
        BY <1>2, <3>1, <3>2
      <4> QED BY <1>4, <3>3, <4>1, AdvStart DEF Starts
    <3> QED BY <3>1, <3>2, <3>4 DEF LdmPart, Begun
  <2>2. CASE ~wr_rdy
    <3>1. l2p_state = "L2P_HEADER" /\ ~ldm_valid' /\ ~ldm_edb' /\ l2p_state' = "L2P_HEADER"
      BY <1>6, <2>2 DEF L2pHeader
    <3> QED BY <1>1, <1>3, <3>1 DEF LdmPart
  <2> QED BY <2>1, <2>2
<1>7. CASE L2pAddrH
  <2>1. /\ l2p_state = "L2P_ADDR_H" /\ l2p_state' = "L2P_ADDR_L" /\ ldm_valid' /\ ldm_dframe'
        /\ ~ldm_edb' /\ ldm_word' = AddrHigh(l2p_address_h)
    BY <1>1, <1>7 DEF L2pAddrH, LdmPart
  <2>2. ldm_word'.kind = "high"
    BY <2>1 DEF AddrHigh
  <2>3. Sent' = At("header", "high")
    BY <1>1, <1>2, <1>4, <2>1, <2>2, AdvInside DEF LdmPart
  <2> QED BY <2>1, <2>3 DEF LdmPart, Begun
<1>8. CASE L2pAddrL
  <2>1. /\ l2p_state = "L2P_ADDR_L" /\ l2p_state' \in {"L2P_DATA", "L2P_LAST_DATA"}
        /\ ldm_valid' /\ ldm_dframe' /\ ~ldm_edb' /\ ldm_word' = AddrLow(l2p_address_l)
    BY <1>1, <1>8 DEF L2pAddrL, LdmPart
  <2>2. ldm_word'.kind = "low"
    BY <2>1 DEF AddrLow
  <2>3. Sent' = At("header", "low")
    BY <1>1, <1>2, <1>4, <2>1, <2>2, AdvInside DEF LdmPart
  <2> QED BY <2>1, <2>2, <2>3 DEF LdmPart, Body, Starts
<1>9. CASE L2pData(abort, TRUE)
  <2>1. /\ l2p_state = "L2P_DATA" /\ ldm_dframe' /\ (ldm_edb' <=> abort)
        /\ l2p_state' \in {"L2P_IDLE", "L2P_WAIT_DATA", "L2P_LAST_DATA", "L2P_DATA"}
        /\ (abort <=> l2p_state' = "L2P_IDLE") /\ (ldm_valid' <=> data_fifo_valid)
    BY <1>0, <1>9 DEF L2pData
  <2>2. ldm_word' = IF data_fifo_valid THEN Data(data_fifo_dout) ELSE ldm_word
    BY <1>9 DEF L2pData
  <2>3. ldm_valid' => ldm_word'.kind = "data"
    BY <2>1, <2>2 DEF Data
  <2>4. ldm_word'.kind \notin Starts
    BY <1>1, <2>1, <2>2, <2>3 DEF Starts, LdmPart
  <2>5. Sent' \in Body
    <3>1. Sent \in Body
      BY <1>1, <2>1 DEF LdmPart
    <3>2. CASE ldm_valid'
      BY <1>2, <1>4, <2>1, <2>3, <3>1, <3>2, AdvInside DEF Body
    <3> QED BY <1>3, <3>1, <3>2
  <2>6. arb_gnt' = "ldm"
    BY <1>0, <2>1, GrantKept, BusFields DEF Sources
  <2>7. ser_t'.word.kind \notin Starts
    <3>1. ser_t' = Bus["ldm"]
      BY Shift DEF Taken
    <3>2. ser_t'.word = ldm_word
      BY <3>1, BusFields
    <3> QED BY <1>1, <2>1, <3>2 DEF LdmPart
  <2> QED BY <2>1, <2>4, <2>5, <2>6, <2>7 DEF LdmPart
<1>10. CASE L2pWaitRdy(TRUE)
  BY <1>1, <1>10 DEF LdmPart, L2pWaitRdy
<1>11. CASE L2pWaitData
  <2>1. /\ l2p_state = "L2P_WAIT_DATA" /\ ~ldm_valid' /\ ~ldm_edb' /\ ldm_word' = ldm_word
        /\ l2p_state' \in {"L2P_WAIT_DATA", "L2P_LAST_DATA", "L2P_DATA"}
    BY <1>11 DEF L2pWaitData
  <2> QED BY <1>1, <1>3, <2>1 DEF LdmPart
<1>12. CASE L2pLastData(TRUE)
  <2>1. /\ l2p_state = "L2P_LAST_DATA" /\ l2p_state' \in {"L2P_IDLE", "L2P_HEADER"}
        /\ ldm_valid' /\ ~ldm_dframe' /\ ~ldm_edb' /\ ldm_word' = Data(data_fifo_dout)
    BY <1>12 DEF L2pLastData
  <2>2. ldm_word'.kind = "data"
    BY <2>1 DEF Data
  <2>3. Sent' = Free
    BY <1>1, <1>2, <1>4, <2>1, <2>2, AdvLast DEF LdmPart
  <2> QED BY <2>1, <2>3 DEF LdmPart
<1> QED BY <1>5, <1>6, <1>7, <1>8, <1>9, <1>10, <1>11, <1>12 DEF L2pFsm

(* Without throttling a tick keeps every packet whole. *)
LEMMA SentTick ==
  ASSUME GInv, GInv', SInv, "throttle" \notin Env,
         NEW abort \in BOOLEAN, NEW rstart \in BOOLEAN, NEW wr_rdy \in BOOLEAN,
         NEW rd_rdy \in BOOLEAN, NEW rdy \in BOOLEAN, NEW in,
         ClkParts(abort, rstart, in, wr_rdy, rd_rdy, rdy)
  PROVE  SInv'
<1>0. /\ Wire /\ Mux(Bus) /\ Arbitrate(Req, Bus)
      /\ L2pFsm(abort, arb_gnt = "ldm", wr_rdy, TRUE) /\ CplFsm(arb_gnt = "wbm", rd_rdy)
      /\ RequestFsm(rstart, FALSE, abort, arb_gnt = "pdm", in)
  <2>1. rdy = TRUE
    BY DEF ClkParts, Allowed
  <2> QED BY <2>1 DEF ClkParts, ArbiterTick
<1>1. /\ arb_gnt # "ldm" => ~ldm_valid' /\ ~ldm_edb /\ ~ldm_edb' /\ l2p_state' \notin LdmInPacket
      /\ arb_gnt # "wbm" => ~wbm_valid' /\ cpl_state' # "L2P_DATA"
      /\ arb_gnt # "pdm" => ~pdm_valid' /\ p2l_state' \notin PdmInPacket
  BY OthersQuiet
<1>2. CASE ldm_edb
  <2>1. l2p_state = "L2P_IDLE" /\ arb_gnt = "ldm"
    BY <1>2 DEF SInv
  <2>2. ~ldm_valid' /\ ~ldm_edb' /\ l2p_state' \in {"L2P_IDLE", "L2P_HEADER"}
    BY <1>0, <2>1 DEF L2pFsm, L2pIdle, L2pHeader, L2pAddrH, L2pAddrL, L2pData, L2pWaitRdy,
                      L2pWaitData, L2pLastData
  <2>3. ~wbm_valid' /\ cpl_state' # "L2P_DATA" /\ ~pdm_valid' /\ p2l_state' \notin PdmInPacket
    BY <1>1, <2>1
  <2>4. ~Taken'.valid
    BY <2>2, <2>3, TakenNext
  <2>5. Taken.valid => Taken.word.kind \notin Starts
    BY <1>2, <2>1, BusFields DEF Taken, SInv
  <2>6. ser_t.valid => ser_t.word.kind \notin Starts
    BY <1>2 DEF SInv
  <2>7. Sent' = Cut
    <3>1. Adv(Adv(Cut, ser_t), Taken) = Cut
      BY <2>5, <2>6, AdvCut
    <3>2. Sent' = Adv(Cut, Taken')
      BY <1>0, <1>2, <3>1, Shift
    <3> QED BY <2>4, <3>2, AdvSilent
  <2> QED BY <2>2, <2>3, <2>7 DEF SInv, LdmInPacket, PdmInPacket
<1>3. CASE ~ldm_edb /\ arb_gnt \notin Sources
  <2>1. /\ ~ldm_valid' /\ ~ldm_edb' /\ l2p_state' \notin LdmInPacket
        /\ ~wbm_valid' /\ cpl_state' # "L2P_DATA" /\ ~pdm_valid' /\ p2l_state' \notin PdmInPacket
    BY <1>1, <1>3 DEF Sources
  <2>2. Sent' = Sent
    BY <1>0, <1>3, <2>1, Quiet
  <2>3. Sent \in {Free, Cut}
    BY <1>3, Alone DEF SInv, Sources
  <2> QED BY <2>1, <2>2, <2>3 DEF SInv, LdmInPacket, PdmInPacket
<1>4. CASE ~ldm_edb /\ arb_gnt = "wbm"
  <2>1. /\ ~ldm_valid' /\ ~ldm_edb' /\ l2p_state' \notin LdmInPacket
        /\ ~pdm_valid' /\ p2l_state' \notin PdmInPacket
    BY <1>1, <1>4
  <2>2. /\ cpl_state' = "L2P_DATA" => Sent' = At("cpl", "cpl")
        /\ cpl_state' # "L2P_DATA" => Sent' \in {Free, Cut}
    BY <1>0, <1>4, <2>1, WbmSent
  <2> QED BY <2>1, <2>2 DEF SInv, LdmInPacket, PdmInPacket
<1>5. CASE ~ldm_edb /\ arb_gnt = "pdm"
  <2>1. /\ ~ldm_valid' /\ ~ldm_edb' /\ l2p_state' \notin LdmInPacket
        /\ ~wbm_valid' /\ cpl_state' # "L2P_DATA"
    BY <1>1, <1>5
  <2>2. /\ p2l_state' = "P2L_ADDR_H" => Sent' = At("read", "read")
        /\ p2l_state' = "P2L_ADDR_L" => Sent' \in Begun("read")
        /\ p2l_state' \notin PdmInPacket => Sent' \in {Free, Cut}
    BY <1>0, <1>5, <2>1, PdmSent
  <2> QED BY <2>1, <2>2 DEF SInv, LdmInPacket, PdmInPacket
<1>6. CASE ~ldm_edb /\ arb_gnt = "ldm"
  <2>1. ~wbm_valid' /\ cpl_state' # "L2P_DATA" /\ ~pdm_valid' /\ p2l_state' \notin PdmInPacket
    BY <1>1, <1>6
  <2>2. LdmPart'
    BY <1>0, <1>6, <2>1, LdmSent
  <2> QED BY <2>1, <2>2 DEF SInv, LdmPart, PdmInPacket
<1> QED BY <1>2, <1>3, <1>4, <1>5, <1>6 DEF Sources

(* The line is between packets after reset. *)
LEMMA SentInit == Init => SInv
<1> SUFFICES ASSUME Init PROVE SInv
  OBVIOUS
<1>1. /\ l2p_state = "L2P_IDLE" /\ ~ldm_edb /\ cpl_state = "L2P_IDLE" /\ p2l_state = "P2L_IDLE"
      /\ arb_gnt = "none" /\ ser_t = Silent /\ ser_o = Silent /\ line = Free
  BY DEF Init, ArbiterInit, PacketInit, CompletionInit, RequestInit
<1>2. ~Silent.valid
  BY DEF Silent
<1>3. Sent = Free
  BY <1>1, <1>2, AdvSilent DEF Sent, Taken
<1> QED BY <1>1, <1>3 DEF SInv

(* Every edge keeps the line in step with the FSM that holds the grant. *)
LEMMA SentNext == "throttle" \notin Env => (GInv /\ GInv' /\ SInv /\ [Next]_vars => SInv')
<1> SUFFICES ASSUME "throttle" \notin Env, GInv, GInv', SInv, [Next]_vars PROVE SInv'
  OBVIOUS
<1>1. CASE UNCHANGED controlVars
  <2>1. Sent' = Sent
    BY <1>1 DEF controlVars, Sent, Taken, Bus
  <2> QED BY <1>1, <2>1 DEF controlVars, SInv
<1>2. ASSUME NEW abort \in BOOLEAN, NEW rstart \in BOOLEAN, NEW wr_rdy \in BOOLEAN,
             NEW rd_rdy \in BOOLEAN, NEW rdy \in BOOLEAN, NEW in \in {NoInput, Answer},
             ClkParts(abort, rstart, in, wr_rdy, rd_rdy, rdy)
      PROVE  SInv'
  BY <1>2, SentTick
<1> QED BY <1>1, <1>2, PathCases

(* No packet is torn: the words of a memory write, a read request or a     *)
(* completion follow each other on the wire, with no word of another one   *)
(* between them, whatever the lengths of the jobs, when the FIFOs run dry  *)
(* and when jobs are aborted, as long as the GN4124 does not throttle the  *)
(* path in a packet.  (When it does and the FIFO is dry at the address     *)
(* word, L2P_WAIT_RDY shows that word a second time: TLC finds the trace.) *)
THEOREM PacketsStayWhole == "throttle" \notin Env => (Spec => []PacketsWhole)
<1> SUFFICES ASSUME "throttle" \notin Env PROVE Spec => []PacketsWhole
  OBVIOUS
<1>1. SInv /\ GInv => PacketsWhole
  <2> SUFFICES ASSUME SInv, GInv, line = Torn PROVE FALSE
    BY DEF PacketsWhole
  <2>1. Sent = Torn
    BY AdvTorn DEF Sent
  <2>2. Torn \notin {Free, Cut} \cup Body \cup Begun("header") \cup Begun("read")
                                \cup {At("cpl", "cpl")}
    BY DEF Torn, Free, Cut, Body, Begun, At
  <2>3. l2p_state \in LdmInPacket => FALSE
    BY <2>1, <2>2 DEF SInv, LdmInPacket, Begun
  <2> QED BY <2>1, <2>2, <2>3 DEF SInv, PdmInPacket, Begun
<1>2. GInv /\ GInv' /\ SInv /\ [Next]_vars => SInv'
  BY SentNext
<1> QED BY <1>1, <1>2, SentInit, GrantInv, PTL DEF Spec
=============================================================================
