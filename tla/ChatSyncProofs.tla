--------------------------- MODULE ChatSyncProofs ---------------------------
(***************************************************************************)
(* Theorems about chat2, for every number of devices and updates, every    *)
(* budget of faults and every choice of hosts and transports: every        *)
(* variable keeps its type, and a batch that a row can carry stays in its  *)
(* author's outbox until the room has numbered it.                         *)
(*                                                                         *)
(* JournaledUntilLogged is not inductive. An outbox row is deleted on the  *)
(* word of an acknowledgement, so every acknowledgement that is still      *)
(* under way, on a socket or in the HTTPS task, must name a numbered       *)
(* batch; and a checkpoint upload deletes the obligations it carries, so   *)
(* these must be batches no row can carry.                                 *)
(***************************************************************************)
EXTENDS ChatSync, TLAPS, WellFoundedInduction

-----------------------------------------------------------------------------
(* The operators that pick the first of several batches or rows.           *)

\* A non-empty set of naturals has a least element.
LEMMA LeastNat ==
    ASSUME NEW T \in SUBSET Nat, T # {}
    PROVE  \E x \in T : \A y \in T : x <= y
<1>1. PICK x \in T : \A y \in T : ~(<<y, x>> \in OpToRel(<, Nat))
  BY WFMin, NatLessThanWellFounded
<1>2. \A y \in T : ~(y < x)
  BY <1>1 DEF OpToRel
<1>3. QED
  BY <1>2

\* First picks a member of every non-empty set of batches.
LEMMA FirstIn ==
    ASSUME NEW S \in SUBSET Batches, S # {}
    PROVE  First(S) \in S
<1>1. {b[2] : b \in S} \in SUBSET Nat /\ {b[2] : b \in S} # {}
  BY BatchesAssumption
<1>2. PICK n \in {b[2] : b \in S} : \A m \in {b[2] : b \in S} : n <= m
  BY <1>1, LeastNat
<1>3. PICK b \in S : b[2] = n
  BY <1>2
<1>4. \A c \in S : b[2] <= c[2]
  BY <1>2, <1>3
<1>5. QED
  BY <1>4 DEF First

\* FirstRow picks a member of every non-empty set of rows.
LEMMA FirstRowIn ==
    ASSUME NEW R \in SUBSET Row, R # {}
    PROVE  FirstRow(R) \in R
<1>1. {r.seq : r \in R} \in SUBSET Nat /\ {r.seq : r \in R} # {}
  BY DEF Row
<1>2. PICK n \in {r.seq : r \in R} : \A m \in {r.seq : r \in R} : n <= m
  BY <1>1, LeastNat
<1>3. PICK r \in R : r.seq = n
  BY <1>2
<1>4. \A q \in R : r.seq <= q.seq
  BY <1>2, <1>3
<1>5. QED
  BY <1>4 DEF FirstRow

-----------------------------------------------------------------------------
(* Updating one device's entry, and sending on a channel.                  *)

\* Setting one device's entry to a value of the type keeps the function typed.
LEMMA Update ==
    ASSUME NEW T, NEW f \in [Devices -> T], NEW d \in Devices, NEW v \in T
    PROVE  [f EXCEPT ![d] = v] \in [Devices -> T]
OBVIOUS

\* Appending a frame of the type keeps a channel typed.
LEMMA Sending ==
    ASSUME NEW F, NEW ch \in Seq(F), NEW f \in F
    PROVE  Append(ch, f) \in Seq(F)
OBVIOUS

-----------------------------------------------------------------------------
(* Frames.                                                                 *)

\* The frames a client sends are frames of the upward channel.
LEMMA UpFrameTypes ==
    /\ HelloFrame \in UpFrames
    /\ \A n \in Nat, e \in BOOLEAN : RowsReq(n, e) \in UpFrames
    /\ \A S \in SUBSET Batches : S # {} => PushFrame(S) \in UpFrames
BY DEF UpFrames, HelloFrame, RowsReq, PushFrame

\* The frames the room sends are frames of the downward channel.
LEMMA DownFrameTypes ==
    /\ DoneFrame \in DownFrames
    /\ \A R \in SUBSET Row : R # {} => RowsFrame(R) \in DownFrames
    /\ \A b \in Batches, s \in Nat : AckFrame(b, s) \in DownFrames
    /\ \A b \in Batches : QuotaFrame(b) \in DownFrames
    /\ State \subseteq DownFrames
BY DEF DownFrames, DoneFrame, RowsFrame, AckFrame, QuotaFrame

\* A push carries at least one batch.
LEMMA PushHead ==
    ASSUME NEW f \in UpFrames, f.t = "push"
    PROVE  f.batches \in SUBSET Batches /\ f.batches # {}
BY DEF UpFrames, HelloFrame

\* A rows request carries a cursor and a flag.
LEMMA RowsReqHead ==
    ASSUME NEW f \in UpFrames, f.t = "rowsReq"
    PROVE  f.after \in Nat /\ f.excludeOwn \in BOOLEAN
BY DEF UpFrames, HelloFrame

\* A run of rows is not empty.
LEMMA RowsHead ==
    ASSUME NEW f \in DownFrames, f.t = "rows"
    PROVE  f.rows \in SUBSET Row /\ f.rows # {}
BY DEF DownFrames, DoneFrame, State

\* An acknowledgement carries a batch and a seq.
LEMMA AckHead ==
    ASSUME NEW f \in DownFrames, f.t = "ack"
    PROVE  f.batch \in Batches /\ f.seq \in Nat
BY DEF DownFrames, DoneFrame, State

\* A frame tagged "state" is a state frame.
LEMMA StateHead ==
    ASSUME NEW f \in DownFrames, f.t = "state"
    PROVE  f \in State
BY DEF DownFrames, DoneFrame, State

\* Taking one row off a channel leaves a typed channel: no empty run stays.
LEMMA AfterRowType ==
    ASSUME NEW ch \in Seq(DownFrames), ch # <<>>, Head(ch).t = "rows"
    PROVE  AfterRow(ch) \in Seq(DownFrames)
<1>1. Head(ch) \in DownFrames /\ Tail(ch) \in Seq(DownFrames)
  OBVIOUS
<1>2. Head(ch).rows \in SUBSET Row /\ Head(ch).rows # {}
  BY <1>1, RowsHead
<1>3. CASE Head(ch).rows = {FirstRow(Head(ch).rows)}
  BY <1>1, <1>3 DEF AfterRow
<1>4. CASE Head(ch).rows # {FirstRow(Head(ch).rows)}
  <2> DEFINE rest == Head(ch).rows \ {FirstRow(Head(ch).rows)}
  <2>1. rest \in SUBSET Row /\ rest # {}
    BY <1>2, <1>4, FirstRowIn
  <2>2. <<RowsFrame(rest)>> \in Seq(DownFrames)
    BY <2>1, DownFrameTypes
  <2>3. QED
    BY <1>1, <1>4, <2>2 DEF AfterRow
<1>5. QED
  BY <1>3, <1>4

\* Sending rows, or none, leaves a typed channel.
LEMMA SendRowsType ==
    ASSUME NEW ch \in Seq(DownFrames), NEW R \in SUBSET Row
    PROVE  SendRows(ch, R) \in Seq(DownFrames)
BY DownFrameTypes DEF SendRows

-----------------------------------------------------------------------------
(* The room's operators.                                                   *)

\* rowsAfter returns rows.
LEMMA RowsAfterType ==
    ASSUME RoomTypeOK, NEW after \in Nat, NEW exclude
    PROVE  rowsAfter(after, exclude) \in SUBSET Row
<1>1. \A s \in LiveSeqs : s \in Nat /\ log[s] \in Batches
  BY DEF RoomTypeOK, LiveSeqs, headSeq
<1>2. QED
  BY <1>1 DEF rowsAfter, Row

\* logStats is a state frame.
LEMMA LogStatsType ==
    ASSUME RoomTypeOK
    PROVE  logStats \in State
BY DEF RoomTypeOK, logStats, State, headSeq

\* appendRow keeps the log typed and above the floor, and acks with a seq.
LEMMA AppendRowType ==
    ASSUME RoomTypeOK, NEW b \in Batches
    PROVE  /\ AckSeq(b) \in Nat
           /\ appendRow(b) => /\ log' \in Seq(Batches)
                              /\ floor <= headSeq'
<1>1. headSeq \in Nat
  BY DEF RoomTypeOK, headSeq
<1>2. \A s \in Matches(b) : s \in Nat
  BY <1>1 DEF RoomTypeOK, Matches, LiveSeqs
<1>3. AckSeq(b) \in Nat
  BY <1>1, <1>2 DEF AckSeq
<1>4. ASSUME appendRow(b)
      PROVE  log' \in Seq(Batches) /\ Len(log) <= Len(log')
  <2>1. Append(log, b) \in Seq(Batches) /\ Len(Append(log, b)) = Len(log) + 1
    BY DEF RoomTypeOK
  <2>2. log' = Append(log, b) \/ log' = log
    BY <1>4 DEF appendRow
  <2>3. log \in Seq(Batches) /\ Len(log) \in Nat
    BY DEF RoomTypeOK
  <2>4. QED
    BY <2>1, <2>2, <2>3
<1>5. QED
  BY <1>1, <1>3, <1>4 DEF RoomTypeOK, headSeq

\* The live relay leaves every channel typed.
LEMMA RelayType ==
    ASSUME RoomTypeOK, NEW b \in Batches, NEW sender
    PROVE  Relay(b, sender) \in [Devices -> Seq(DownFrames)]
<1>1. {[seq |-> headSeq + 1, batch |-> b]} \in SUBSET Row
  BY DEF RoomTypeOK, headSeq, Row
<1>2. RowsFrame({[seq |-> headSeq + 1, batch |-> b]}) \in DownFrames
  BY <1>1, DownFrameTypes
<1>3. \A e \in Devices : /\ down[e] \in Seq(DownFrames)
                         /\ Append(down[e], RowsFrame({[seq |-> headSeq + 1, batch |-> b]}))
                                \in Seq(DownFrames)
  BY <1>2, Sending DEF RoomTypeOK
<1>4. QED
  BY <1>3, Zenon DEF Relay

\* The room reads a batch off a push, and what remains of the push is not empty.
LEMMA PushedBatch ==
    ASSUME RoomTypeOK, NEW d \in Devices, UpHead(d, "push")
    PROVE  /\ First(Head(up[d]).batches) \in Batches
           /\ TakePush(d) => up' \in [Devices -> Seq(UpFrames)]
<1> DEFINE S == Head(up[d]).batches
           rest == S \ {First(S)}
<1>1. up[d] \in Seq(UpFrames) /\ up[d] # <<>> /\ Head(up[d]).t = "push"
  BY DEF RoomTypeOK, UpHead
<1>2. S \in SUBSET Batches /\ S # {}
  BY <1>1, PushHead
<1>3. First(S) \in S
  BY <1>2, FirstIn
<1>4. Tail(up[d]) \in Seq(UpFrames)
  BY <1>1
<1>5. ASSUME S # {First(S)}
      PROVE  <<PushFrame(rest)>> \o Tail(up[d]) \in Seq(UpFrames)
  <2>1. rest \in SUBSET Batches /\ rest # {}
    BY <1>2, <1>3, <1>5
  <2>2. <<PushFrame(rest)>> \in Seq(UpFrames)
    BY <2>1, UpFrameTypes
  <2>3. QED
    BY <1>4, <2>2
<1>6. QED
  BY <1>2, <1>3, <1>4, <1>5 DEF RoomTypeOK, TakePush

\* Spending a fault counts it.
LEMMA SpendType ==
    ASSUME RoomTypeOK, NEW kind \in FaultKinds, Spend(kind)
    PROVE  faults' \in [FaultKinds -> Nat]
BY DEF RoomTypeOK, Spend

-----------------------------------------------------------------------------
(* Every event of the room keeps the room's types.                         *)

\* Hello, rows request and push keep the room's types.
LEMMA RoomStepType ==
    ASSUME RoomTypeOK, NEW d \in Devices, RoomStep(d)
    PROVE  RoomTypeOK'
<1>1. CASE handleHello(d)
  <2>1. logStats \in DownFrames
    BY LogStatsType, DownFrameTypes
  <2>2. Tail(up[d]) \in Seq(UpFrames)
    BY <1>1 DEF RoomTypeOK, handleHello, UpHead
  <2>3. QED
    BY <1>1, <2>1, <2>2 DEF RoomTypeOK, handleHello, headSeq
<1>2. CASE handleRowsReq(d)
  <2> DEFINE req == Head(up[d])
             rows == rowsAfter(req.after, IF req.excludeOwn THEN {d} ELSE {})
  <2>1. req \in UpFrames /\ req.t = "rowsReq" /\ Tail(up[d]) \in Seq(UpFrames)
    BY <1>2 DEF RoomTypeOK, handleRowsReq, UpHead
  <2>2. rows \in SUBSET Row
    BY <2>1, RowsReqHead, RowsAfterType
  <2>3. Append(SendRows(down[d], rows), DoneFrame) \in Seq(DownFrames)
    <3>1. SendRows(down[d], rows) \in Seq(DownFrames)
      BY <2>2, SendRowsType DEF RoomTypeOK
    <3>2. QED
      BY <3>1, Sending, DownFrameTypes
  <2>4. down' = [down EXCEPT ![d] = Append(SendRows(@, rows), DoneFrame)]
    BY <1>2 DEF handleRowsReq
  <2>5. down' \in [Devices -> Seq(DownFrames)]
    BY <2>3, <2>4, Update DEF RoomTypeOK
  <2>6. up' \in [Devices -> Seq(UpFrames)]
    BY <1>2, <2>1, Update DEF RoomTypeOK, handleRowsReq
  <2>7. QED
    BY <1>2, <2>5, <2>6 DEF RoomTypeOK, handleRowsReq, headSeq
<1>3. CASE handlePush(d)
  <2> DEFINE b == First(Head(up[d]).batches)
  <2>1. b \in Batches /\ up' \in [Devices -> Seq(UpFrames)]
    BY <1>3, PushedBatch DEF handlePush
  <2>2. log' \in Seq(Batches) /\ floor <= headSeq'
    BY <1>3, <2>1, AppendRowType DEF handlePush
  <2>3. AckFrame(b, AckSeq(b)) \in DownFrames
    BY <2>1, AppendRowType, DownFrameTypes
  <2>4. Relay(b, {d}) \in [Devices -> Seq(DownFrames)]
    BY <2>1, RelayType
  <2>5. down' = [Relay(b, {d}) EXCEPT ![d] = Append(@, AckFrame(b, AckSeq(b)))]
    BY <1>3 DEF handlePush
  <2>6. Append(Relay(b, {d})[d], AckFrame(b, AckSeq(b))) \in Seq(DownFrames)
    BY <2>3, <2>4, Sending
  <2>7. down' \in [Devices -> Seq(DownFrames)]
    BY <2>4, <2>5, <2>6, Update
  <2>8. QED
    BY <1>3, <2>1, <2>2, <2>7 DEF RoomTypeOK, handlePush, headSeq
<1>4. QED
  BY <1>1, <1>2, <1>3 DEF RoomStep

\* A quota refusal keeps the room's types.
LEMMA RefusePushType ==
    ASSUME RoomTypeOK, NEW d \in Devices, refusePush(d)
    PROVE  RoomTypeOK'
<1> DEFINE b == First(Head(up[d]).batches)
<1>1. b \in Batches /\ up' \in [Devices -> Seq(UpFrames)]
  BY PushedBatch DEF refusePush
<1>2. QuotaFrame(b) \in DownFrames
  BY <1>1, DownFrameTypes
<1>3. faults' \in [FaultKinds -> Nat]
  BY SpendType DEF refusePush, FaultKinds
<1>4. Append(down[d], QuotaFrame(b)) \in Seq(DownFrames)
  BY <1>2, Sending DEF RoomTypeOK
<1>5. down' \in [Devices -> Seq(DownFrames)]
  BY <1>4, Update DEF RoomTypeOK, refusePush
<1>6. QED
  BY <1>1, <1>3, <1>5 DEF RoomTypeOK, refusePush, headSeq

\* POST /rows keeps the room's types.
LEMMA PostRowType ==
    ASSUME RoomTypeOK, NEW b \in Batches, postRow(b),
           stray' \subseteq Batches, faults' \in [FaultKinds -> Nat]
    PROVE  RoomTypeOK'
<1>1. log' \in Seq(Batches) /\ floor <= headSeq'
  BY AppendRowType DEF postRow
<1>2. down' \in [Devices -> Seq(DownFrames)]
  BY RelayType DEF postRow
<1>3. QED
  BY <1>1, <1>2 DEF RoomTypeOK, postRow, headSeq

\* A push that outlived its socket keeps the room's types.
LEMMA StrayPushType ==
    ASSUME RoomTypeOK, NEW b \in stray, handleStrayPush(b)
    PROVE  RoomTypeOK'
<1>1. b \in Batches /\ stray' \subseteq Batches /\ faults' \in [FaultKinds -> Nat]
  BY DEF RoomTypeOK, handleStrayPush
<1>2. QED
  BY <1>1, PostRowType DEF handleStrayPush

\* A late checkpoint keeps the room's types: the floor stays below the head.
LEMMA LateCheckpointType ==
    ASSUME RoomTypeOK, NEW p \in late, handleLateCheckpoint(p)
    PROVE  RoomTypeOK'
<1>1. p.covered \in Nat /\ p.content \in SUBSET Batches
  BY DEF RoomTypeOK
<1>2. /\ floor' \in Nat /\ floor' <= headSeq
      /\ ckpt' \in [present : BOOLEAN, content : SUBSET Batches]
  <2>1. CASE Committable(p.covered)
    <3>1. floor' = p.covered /\ ckpt' = [present |-> TRUE, content |-> p.content]
      BY <2>1 DEF handleLateCheckpoint, commitCheckpoint
    <3>2. QED
      BY <1>1, <2>1, <3>1 DEF Committable
  <2>2. CASE ~Committable(p.covered)
    BY <2>2 DEF RoomTypeOK, handleLateCheckpoint
  <2>3. QED
    BY <2>1, <2>2
<1>3. late' \subseteq [covered : Nat, content : SUBSET Batches]
  BY DEF RoomTypeOK, handleLateCheckpoint
<1>4. QED
  BY <1>2, <1>3 DEF RoomTypeOK, handleLateCheckpoint, headSeq

-----------------------------------------------------------------------------
(* The client's operators.                                                 *)

\* The larger of two naturals is a natural.
LEMMA LargerType == \A m, n \in Nat : Larger(m, n) \in Nat
BY DEF Larger

\* Importing batches keeps the document's types.
LEMMA ImportType ==
    ASSUME ClientTypeOK, NEW d \in Devices, NEW S \in SUBSET Batches, Import(d, S)
    PROVE  /\ written' \subseteq Batches
           /\ deps' \in [Batches -> SUBSET Batches]
           /\ doc' \in [Devices -> SUBSET Batches]
           /\ parked' \in [Devices -> SUBSET Batches]
<1>1. Known(d, S) \in SUBSET Batches
  BY DEF ClientTypeOK, Known
<1>2. Applied(d, S) \in SUBSET Batches
  BY <1>1 DEF Applied
<1>3. QED
  BY <1>1, <1>2, Update DEF ClientTypeOK, Import

\* The values a fresh client starts from are typed.
LEMMA IdleTypes ==
    /\ IdleHttp \in Http
    /\ IdlePost \in Post
    /\ \A r, h, e \in BOOLEAN : DownActor(r, h, e) \in Actor
    /\ \A n \in Nat, S \in SUBSET Batches : NewShared(n, S) \in Shared
<1>1. NoState \in State
  BY DEF NoState, State
<1>2. IdleHttp \in Http
  BY <1>1 DEF IdleHttp, Http
<1>3. QED
  BY <1>2 DEF IdlePost, Post, DownActor, Actor, NewShared, Shared, ServerView

\* Starting an HTTPS cycle yields a typed task.
LEMMA SpawnType ==
    ASSUME NEW d, NEW h \in Http, NEW S \in SUBSET Batches
    PROVE  spawn_offline_sync(d, h, S) \in Http
<1>1. [IdleHttp EXCEPT !.step = "push", !.todo = S] \in Http
  BY IdleTypes DEF Http
<1>2. QED
  BY <1>1 DEF spawn_offline_sync

\* The cached view of a state frame is typed.
LEMMA ViewType == ASSUME NEW st \in State PROVE ViewOf(st) \in ServerView
BY DEF ViewOf, ServerView, State

\* plan_catch_up yields a plan.
LEMMA PlanType ==
    ASSUME NEW cursor \in Nat, NEW st \in State, NEW contained \in BOOLEAN
    PROVE  plan_catch_up(cursor, st, contained) \in [fetch : BOOLEAN, after : Nat]
BY DEF plan_catch_up, State, Larger

\* One remote row leaves the shared state typed.
LEMMA RowAdvanceType ==
    ASSUME NEW sh \in Shared, NEW r \in Row, NEW ok \in BOOLEAN
    PROVE  RowAdvance(sh, r, ok) \in Shared
BY DEF RowAdvance, Shared, Row, Larger

\* The acknowledgement's cursor rule yields a natural.
LEMMA AckAdvanceType ==
    ASSUME NEW cursor \in Nat, NEW s \in Nat
    PROVE  AckAdvance(cursor, s) \in Nat
BY DEF AckAdvance, Larger

\* A quota grant leaves the shared state typed.
LEMMA QuotaGrantType ==
    ASSUME NEW sh \in Shared, NEW left
    PROVE  QuotaGrant(sh, left) \in Shared
BY DEF QuotaGrant, Shared

\* The base of an HTTPS catch-up leaves the shared state typed.
LEMMA HttpBaseType ==
    ASSUME NEW sh \in Shared, NEW h \in Http
    PROVE  HttpBase(sh, h) \in Shared
<1>1. plan_catch_up(h.cur, h.st, h.step = "pull") \in [fetch : BOOLEAN, after : Nat]
  BY PlanType DEF Http
<1>2. QED
  BY <1>1 DEF HttpBase, Shared, Http, State, Larger

\* Ending a session keeps the types.
LEMMA HangUpType ==
    ASSUME TypeOK, NEW d \in Devices, NEW sh \in Shared, NEW h \in Http,
           HangUp(d, sh, h)
    PROVE  /\ shared' \in [Devices -> Shared]
           /\ actor' \in [Devices -> Actor]
           /\ http' \in [Devices -> Http]
           /\ up' \in [Devices -> Seq(UpFrames)]
           /\ down' \in [Devices -> Seq(DownFrames)]
           /\ ready' \in [Devices -> BOOLEAN]
<1>1. sh.pending \in SUBSET Batches
  BY DEF Shared
<1>2. spawn_offline_sync(d, h, sh.pending) \in Http
  BY <1>1, SpawnType
<1>3. DownActor(actor[d].resumed, actor[d].heal, actor[d].reseed) \in Actor
  BY IdleTypes DEF TypeOK, ClientTypeOK, Actor
<1>4. /\ shared' \in [Devices -> Shared]
      /\ actor' \in [Devices -> Actor]
      /\ http' \in [Devices -> Http]
  BY <1>2, <1>3, Update DEF TypeOK, ClientTypeOK, HangUp
<1>5. <<>> \in Seq(UpFrames) /\ <<>> \in Seq(DownFrames)
  OBVIOUS
<1>6. /\ up' \in [Devices -> Seq(UpFrames)]
      /\ down' \in [Devices -> Seq(DownFrames)]
      /\ ready' \in [Devices -> BOOLEAN]
  BY <1>5, Update DEF TypeOK, RoomTypeOK, HangUp
<1>7. QED
  BY <1>4, <1>6

\* maybe_repair_gap keeps the types in each of its three outcomes.
LEMMA RepairType ==
    ASSUME TypeOK, NEW d \in Devices, NEW sh \in Shared, NEW act \in Actor,
           NEW h \in Http, down[d] # <<>>, maybe_repair_gap(d, sh, act, h)
    PROVE  /\ shared' \in [Devices -> Shared]
           /\ actor' \in [Devices -> Actor]
           /\ http' \in [Devices -> Http]
           /\ up' \in [Devices -> Seq(UpFrames)]
           /\ down' \in [Devices -> Seq(DownFrames)]
           /\ ready' \in [Devices -> BOOLEAN]
<1> DEFINE rest == IF DownHead(d, "rows") THEN AfterRow(down[d]) ELSE Tail(down[d])
           calm == act.phase # "live" \/ ~(sh.needsCkpt \/ sh.gapRepair)
           spent == sh.needsCkpt \/ act.repairs >= MaxGapRepairs
<1>1. down[d] \in Seq(DownFrames) /\ up[d] \in Seq(UpFrames)
  BY DEF TypeOK, RoomTypeOK
<1>2. rest \in Seq(DownFrames)
  BY <1>1, AfterRowType DEF DownHead
<1>3. [down EXCEPT ![d] = rest] \in [Devices -> Seq(DownFrames)]
  BY <1>2, Update DEF TypeOK, RoomTypeOK
<1>4. [http EXCEPT ![d] = h] \in [Devices -> Http]
  BY Update DEF TypeOK, ClientTypeOK
<1>5. CASE calm
  <2>1. /\ shared' = [shared EXCEPT ![d] = sh]
        /\ actor' = [actor EXCEPT ![d] = act]
        /\ http' = [http EXCEPT ![d] = h]
        /\ down' = [down EXCEPT ![d] = rest]
        /\ UNCHANGED <<up, ready>>
    BY <1>5 DEF maybe_repair_gap
  <2>2. shared' \in [Devices -> Shared] /\ actor' \in [Devices -> Actor]
    BY <2>1, Update DEF TypeOK, ClientTypeOK
  <2>3. QED
    BY <1>3, <1>4, <2>1, <2>2 DEF TypeOK, RoomTypeOK
<1>6. CASE ~calm /\ ~spent
  <2>1. RowsReq(sh.cursor, FALSE) \in UpFrames
    BY UpFrameTypes DEF Shared
  <2>2. Append(up[d], RowsReq(sh.cursor, FALSE)) \in Seq(UpFrames)
    BY <1>1, <2>1, Sending
  <2>3. [sh EXCEPT !.gapRepair = FALSE] \in Shared
    BY DEF Shared
  <2>4. [act EXCEPT !.repairs = @ + 1] \in Actor
    BY DEF Actor
  <2>5. /\ shared' = [shared EXCEPT ![d] = [sh EXCEPT !.gapRepair = FALSE]]
        /\ actor' = [actor EXCEPT ![d] = [act EXCEPT !.repairs = @ + 1]]
        /\ http' = [http EXCEPT ![d] = h]
        /\ down' = [down EXCEPT ![d] = rest]
        /\ up' = [up EXCEPT ![d] = Append(@, RowsReq(sh.cursor, FALSE))]
        /\ UNCHANGED ready
    BY <1>6 DEF maybe_repair_gap
  <2>6. /\ shared' \in [Devices -> Shared]
        /\ actor' \in [Devices -> Actor]
        /\ up' \in [Devices -> Seq(UpFrames)]
    BY <2>2, <2>3, <2>4, <2>5, Update DEF TypeOK, RoomTypeOK, ClientTypeOK
  <2>7. QED
    BY <1>3, <1>4, <2>5, <2>6 DEF TypeOK, RoomTypeOK
<1>7. CASE ~calm /\ spent
  <2>1. [sh EXCEPT !.gapRepair = @ /\ sh.needsCkpt] \in Shared
    BY DEF Shared
  <2>2. HangUp(d, [sh EXCEPT !.gapRepair = @ /\ sh.needsCkpt], h)
    BY <1>7 DEF maybe_repair_gap
  <2>3. QED
    BY <2>1, <2>2, HangUpType
<1>8. QED
  BY <1>5, <1>6, <1>7

-----------------------------------------------------------------------------
(* Every step of a client keeps the types.                                 *)

\* What the type invariant says of one device.
LEMMA Entries ==
    ASSUME TypeOK, NEW d \in Devices
    PROVE  /\ shared[d] \in Shared /\ actor[d] \in Actor
           /\ http[d] \in Http /\ post[d] \in Post
           /\ doc[d] \in SUBSET Batches /\ parked[d] \in SUBSET Batches
           /\ outbox[d] \in SUBSET Batches
           /\ pcursor[d] \in Nat /\ flush[d] \in Nat \cup {-1}
           /\ disk[d] \in [content : SUBSET Batches, cursor : Nat]
           /\ up[d] \in Seq(UpFrames) /\ down[d] \in Seq(DownFrames)
BY DEF TypeOK, RoomTypeOK, ClientTypeOK

\* enqueue_batch keeps the types.
LEMMA WriteType ==
    ASSUME TypeOK, NEW d \in Devices, NEW b \in Batches, enqueue_batch(d, b)
    PROVE  TypeOK'
<1>1. [shared[d] EXCEPT !.pending = @ \cup ({b} \ Oversize)] \in Shared
  BY Entries DEF Shared
<1>2. shared' \in [Devices -> Shared]
  BY <1>1, Update DEF TypeOK, ClientTypeOK, enqueue_batch
<1>3. /\ written' \subseteq Batches
      /\ deps' \in [Batches -> SUBSET Batches]
      /\ doc' \in [Devices -> SUBSET Batches]
      /\ outbox' \in [Devices -> SUBSET Batches]
  BY DEF TypeOK, ClientTypeOK, enqueue_batch
<1>4. UNCHANGED <<roomVars, parked, actor, http, post, pcursor, flush, disk>>
  BY DEF enqueue_batch
<1>5. QED
  BY <1>2, <1>3, <1>4 DEF TypeOK, RoomTypeOK, ClientTypeOK, roomVars, headSeq

\* Dialling keeps the types.
LEMMA DialType ==
    ASSUME TypeOK, NEW d \in Devices, Dial(d)
    PROVE  TypeOK'
<1>1. [actor[d] EXCEPT !.phase = "hello"] \in Actor
  BY Entries DEF Actor
<1>2. <<HelloFrame>> \in Seq(UpFrames)
  BY UpFrameTypes
<1>3. actor' \in [Devices -> Actor] /\ up' \in [Devices -> Seq(UpFrames)]
  BY <1>1, <1>2, Update DEF TypeOK, RoomTypeOK, ClientTypeOK, Dial
<1>4. UNCHANGED <<log, floor, ckpt, ready, down, stray, late, faults,
                  docVars, shared, http, post, diskVars>>
  BY DEF Dial
<1>5. QED
  BY <1>3, <1>4 DEF TypeOK, RoomTypeOK, ClientTypeOK, docVars, diskVars, headSeq

\* A failed dial keeps the types.
LEMMA DialFailsType ==
    ASSUME TypeOK, NEW d \in Devices, DialFails(d)
    PROVE  TypeOK'
<1>1. spawn_offline_sync(d, http[d], shared[d].pending) \in Http
  BY SpawnType DEF TypeOK, ClientTypeOK, Shared
<1>2. http' \in [Devices -> Http]
  BY <1>1, Update DEF TypeOK, ClientTypeOK, DialFails
<1>3. faults' \in [FaultKinds -> Nat]
  BY SpendType DEF TypeOK, DialFails, FaultKinds
<1>4. UNCHANGED <<log, floor, ckpt, ready, up, down, stray, late,
                  docVars, shared, actor, post, diskVars>>
  BY DEF DialFails
<1>5. QED
  BY <1>2, <1>3, <1>4 DEF TypeOK, RoomTypeOK, ClientTypeOK, docVars, diskVars, headSeq

\* Losing the socket keeps the types, lingering pushes included.
LEMMA DropType ==
    ASSUME TypeOK, NEW d \in Devices, Drop(d)
    PROVE  TypeOK'
<1> DEFINE sent == UNION {f.batches : f \in {g \in Range(up[d]) : g.t = "push"}}
<1>1. sent \in SUBSET Batches
  <2>1. up[d] \in Seq(UpFrames)
    BY DEF TypeOK, RoomTypeOK
  <2>2. \A f \in Range(up[d]) : f \in UpFrames
    BY <2>1 DEF Range
  <2>3. QED
    BY <2>2, PushHead
<1>2. stray' \subseteq Batches /\ faults' \in [FaultKinds -> Nat]
  <2>1. stray \subseteq Batches /\ faults \in [FaultKinds -> Nat]
    BY DEF TypeOK, RoomTypeOK
  <2>2. stray' = stray \/ stray' = stray \cup sent
    BY DEF Drop
  <2>3. \/ faults' = [faults EXCEPT !["drop"] = @ + 1]
        \/ faults' = [faults EXCEPT !["drop"] = @ + 1, !["stray"] = @ + 1]
    BY DEF Drop
  <2>4. QED
    BY <1>1, <2>1, <2>2, <2>3 DEF FaultKinds
<1>3. HangUp(d, shared[d], http[d])
  BY DEF Drop
<1>4. shared[d] \in Shared /\ http[d] \in Http
  BY DEF TypeOK, ClientTypeOK
<1>5. /\ shared' \in [Devices -> Shared]
      /\ actor' \in [Devices -> Actor]
      /\ http' \in [Devices -> Http]
      /\ up' \in [Devices -> Seq(UpFrames)]
      /\ down' \in [Devices -> Seq(DownFrames)]
      /\ ready' \in [Devices -> BOOLEAN]
  BY <1>3, <1>4, HangUpType
<1>6. UNCHANGED <<log, floor, ckpt, late, docVars, post, diskVars>>
  BY DEF Drop
<1>7. QED
  BY <1>2, <1>5, <1>6 DEF TypeOK, RoomTypeOK, ClientTypeOK, docVars, diskVars, headSeq

\* Reading the state frame and planning the catch-up keep the types.
LEMMA RecvStateType ==
    ASSUME TypeOK, NEW d \in Devices, RecvState(d)
    PROVE  TypeOK'
<1> DEFINE st == Head(down[d])
           sh == shared[d]
           contained == ~st.present \/ (~sh.needsCkpt /\ contains_frontier(doc[d], st.content))
           plan == plan_catch_up(sh.cursor, st, contained)
           burst == IF sh.quotaBlocked THEN {} ELSE sh.pending
           wiped == sh.cursor > st.head
           req == RowsReq(plan.after, actor[d].resumed /\ ~sh.needsCkpt)
           pushes == IF burst = {} THEN <<>> ELSE <<PushFrame(burst)>>
<1>1. /\ down[d] \in Seq(DownFrames) /\ down[d] # <<>> /\ st.t = "state"
      /\ up[d] \in Seq(UpFrames) /\ sh \in Shared /\ actor[d] \in Actor
  BY DEF TypeOK, RoomTypeOK, ClientTypeOK, RecvState, DownHead
<1>2. st \in State /\ Tail(down[d]) \in Seq(DownFrames)
  BY <1>1, StateHead
<1>3. plan \in [fetch : BOOLEAN, after : Nat]
  <2>1. sh.cursor \in Nat /\ contained \in BOOLEAN
    BY <1>1 DEF Shared
  <2>2. QED
    BY <1>2, <2>1, PlanType
<1>4. burst \in SUBSET Batches
  BY <1>1 DEF Shared
<1> HIDE DEF plan, burst, st
<1> DEFINE newShared == [sh EXCEPT !.cursor = plan.after, !.server = ViewOf(st),
                                   !.needsCkpt = plan.fetch /\ @]
           newActor == StartCatchUp(actor[d], plan, burst, st, wiped /\ d = Host)
<1>5. newShared \in Shared
  BY <1>1, <1>2, <1>3, ViewType DEF Shared
<1>6. newActor \in Actor
  BY <1>1, <1>2, <1>3, <1>4 DEF StartCatchUp, Actor, State
<1>7. Append(up[d], req) \o pushes \in Seq(UpFrames)
  <2>1. req \in UpFrames
    BY <1>1, <1>3, UpFrameTypes DEF Shared, Actor
  <2>2. pushes \in Seq(UpFrames)
    BY <1>4, UpFrameTypes
  <2>3. Append(up[d], req) \in Seq(UpFrames)
    BY <1>1, <2>1, Sending
  <2>4. QED
    BY <2>2, <2>3
<1>8. /\ shared' = [shared EXCEPT ![d] = newShared]
      /\ actor' = [actor EXCEPT ![d] = newActor]
      /\ pcursor' = [pcursor EXCEPT ![d] = IF wiped THEN 0 ELSE @]
      /\ up' = [up EXCEPT ![d] = Append(@, req) \o pushes]
      /\ down' = [down EXCEPT ![d] = Tail(@)]
      /\ UNCHANGED <<log, floor, ckpt, ready, stray, late, faults,
                     docVars, http, post, flush, disk, outbox>>
  BY DEF RecvState, plan, burst, st
<1> HIDE DEF newShared, newActor
<1>9. shared' \in [Devices -> Shared] /\ actor' \in [Devices -> Actor]
  BY <1>5, <1>6, <1>8, Update DEF TypeOK, ClientTypeOK
<1>10. up' \in [Devices -> Seq(UpFrames)] /\ down' \in [Devices -> Seq(DownFrames)]
  BY <1>2, <1>7, <1>8, Update DEF TypeOK, RoomTypeOK
<1>11. pcursor' \in [Devices -> Nat]
  BY <1>8 DEF TypeOK, ClientTypeOK
<1>12. QED
  BY <1>8, <1>9, <1>10, <1>11 DEF TypeOK, RoomTypeOK, ClientTypeOK, docVars, headSeq

\* Applying the downloaded checkpoint keeps the types.
LEMMA FetchCheckpointType ==
    ASSUME TypeOK, NEW d \in Devices, FetchCheckpoint(d)
    PROVE  TypeOK'
<1>1. ckpt.content \in SUBSET Batches /\ actor[d].target \in Nat
  BY Entries DEF TypeOK, RoomTypeOK, Actor
<1>2. Import(d, ckpt.content) /\ pcursor' = [pcursor EXCEPT ![d] = Larger(@, actor[d].target)]
  BY DEF FetchCheckpoint, apply_checkpoint
<1>3. /\ written' \subseteq Batches
      /\ deps' \in [Batches -> SUBSET Batches]
      /\ doc' \in [Devices -> SUBSET Batches]
      /\ parked' \in [Devices -> SUBSET Batches]
  BY <1>1, <1>2, ImportType DEF TypeOK
<1>4. pcursor' \in [Devices -> Nat]
  <2>1. Larger(pcursor[d], actor[d].target) \in Nat
    BY <1>1, Entries, LargerType
  <2>2. QED
    BY <1>2, <2>1, Update DEF TypeOK, ClientTypeOK
<1> DEFINE sh == CaughtUpTo(shared[d], actor[d].target, actor[d].gap)
<1>5. sh \in Shared
  <2>1. shared[d] \in Shared /\ actor[d].gap \in BOOLEAN
    BY Entries DEF Actor
  <2>2. Larger(shared[d].cursor, actor[d].target) \in Nat
    BY <1>1, <2>1, LargerType DEF Shared
  <2>3. QED
    BY <2>1, <2>2 DEF CaughtUpTo, Shared
<1>6. shared' \in [Devices -> Shared]
  <2>1. shared' = [shared EXCEPT ![d] = sh]
    BY DEF FetchCheckpoint
  <2> HIDE DEF sh
  <2>2. QED
    BY <1>5, <2>1, Update DEF TypeOK, ClientTypeOK
<1>7. [actor[d] EXCEPT !.phase = "backfill"] \in Actor
  BY Entries DEF Actor
<1>8. actor' \in [Devices -> Actor]
  BY <1>7, Update DEF TypeOK, ClientTypeOK, FetchCheckpoint
<1>9. UNCHANGED <<roomVars, http, post, flush, disk, outbox>>
  BY DEF FetchCheckpoint
<1>10. QED
  BY <1>3, <1>4, <1>6, <1>8, <1>9 DEF TypeOK, RoomTypeOK, ClientTypeOK, roomVars, headSeq

\* Reading a row keeps the types.
LEMMA RecvRowType ==
    ASSUME TypeOK, NEW d \in Devices, RecvRow(d)
    PROVE  TypeOK'
<1> DEFINE r == FirstRow(Head(down[d]).rows)
           ok == r.batch \in Applied(d, {r.batch})
           sh == RowAdvance(shared[d], r, ok)
           h == [http[d] EXCEPT !.gap = @ \/ (~ok /\ http[d].step = "fetch")]
<1>1. down[d] # <<>> /\ Head(down[d]) \in DownFrames /\ Head(down[d]).t = "rows"
  <2>1. down[d] \in Seq(DownFrames)
    BY Entries
  <2>2. QED
    BY <2>1 DEF RecvRow, DownHead
<1>2. r \in Row /\ {r.batch} \in SUBSET Batches
  <2>1. r \in Row
    BY <1>1, RowsHead, FirstRowIn
  <2>2. QED
    BY <2>1 DEF Row
<1>3. sh \in Shared
  <2>1. shared[d] \in Shared /\ ok \in BOOLEAN
    BY Entries
  <2> HIDE DEF r, ok
  <2>2. QED
    BY <1>2, <2>1, RowAdvanceType
<1>4. h \in Http
  BY Entries DEF Http
<1>5. /\ Import(d, {r.batch})
      /\ pcursor' = [pcursor EXCEPT ![d] = IF ok THEN Larger(@, sh.cursor) ELSE @]
      /\ maybe_repair_gap(d, sh, actor[d], h)
      /\ UNCHANGED <<log, floor, ckpt, stray, late, faults, post, flush, disk, outbox>>
  BY DEF RecvRow
<1> HIDE DEF sh, h, ok, r
<1>6. /\ written' \subseteq Batches
      /\ deps' \in [Batches -> SUBSET Batches]
      /\ doc' \in [Devices -> SUBSET Batches]
      /\ parked' \in [Devices -> SUBSET Batches]
  BY <1>2, <1>5, ImportType DEF TypeOK
<1>7. pcursor' \in [Devices -> Nat]
  <2>1. (IF ok THEN Larger(pcursor[d], sh.cursor) ELSE pcursor[d]) \in Nat
    BY <1>3, Entries, LargerType DEF Shared
  <2>2. QED
    BY <1>5, <2>1, Update DEF TypeOK, ClientTypeOK
<1>8. /\ shared' \in [Devices -> Shared]
      /\ actor' \in [Devices -> Actor]
      /\ http' \in [Devices -> Http]
      /\ up' \in [Devices -> Seq(UpFrames)]
      /\ down' \in [Devices -> Seq(DownFrames)]
      /\ ready' \in [Devices -> BOOLEAN]
  BY <1>1, <1>3, <1>4, <1>5, Entries, RepairType
<1>9. QED
  BY <1>5, <1>6, <1>7, <1>8 DEF TypeOK, RoomTypeOK, ClientTypeOK, headSeq

\* Reading an acknowledgement keeps the types.
LEMMA RecvAckType ==
    ASSUME TypeOK, NEW d \in Devices, RecvAck(d)
    PROVE  TypeOK'
<1> DEFINE f == Head(down[d])
           old == shared[d]
           left == old.pending \ {f.batch}
           grant == QuotaGrant(old, left)
           sh == [grant EXCEPT !.pending = left,
                               !.cursor = AckAdvance(@, f.seq),
                               !.gapRepair = @ \/ f.seq > old.cursor + 1]
<1>1. down[d] # <<>> /\ f \in DownFrames /\ f.t = "ack"
  BY Entries DEF RecvAck, DownHead
<1>2. f.batch \in Batches /\ f.seq \in Nat
  BY <1>1, AckHead
<1>3. grant \in Shared /\ left \in SUBSET Batches
  BY Entries, QuotaGrantType DEF Shared
<1>4. /\ outbox' = [outbox EXCEPT ![d] = @ \ {f.batch}]
      /\ pcursor' = [pcursor EXCEPT ![d] = Larger(@, sh.cursor)]
      /\ maybe_repair_gap(d, sh, actor[d], http[d])
      /\ UNCHANGED <<log, floor, ckpt, stray, late, faults, docVars, post, flush, disk>>
  BY DEF RecvAck, acknowledge_chat_update
<1> HIDE DEF grant, left, f
<1>5. sh \in Shared
  BY <1>2, <1>3, AckAdvanceType DEF Shared
<1> HIDE DEF sh
<1>6. outbox' \in [Devices -> SUBSET Batches]
  BY <1>4 DEF TypeOK, ClientTypeOK
<1>7. pcursor' \in [Devices -> Nat]
  <2>1. Larger(pcursor[d], sh.cursor) \in Nat
    BY <1>5, Entries, LargerType DEF Shared
  <2>2. QED
    BY <1>4, <2>1, Update DEF TypeOK, ClientTypeOK
<1>8. /\ shared' \in [Devices -> Shared]
      /\ actor' \in [Devices -> Actor]
      /\ http' \in [Devices -> Http]
      /\ up' \in [Devices -> Seq(UpFrames)]
      /\ down' \in [Devices -> Seq(DownFrames)]
      /\ ready' \in [Devices -> BOOLEAN]
  BY <1>1, <1>4, <1>5, Entries, RepairType
<1>9. QED
  BY <1>4, <1>6, <1>7, <1>8 DEF TypeOK, RoomTypeOK, ClientTypeOK, docVars, headSeq

\* Reading a quota refusal keeps the types.
LEMMA RecvQuotaType ==
    ASSUME TypeOK, NEW d \in Devices, RecvQuota(d)
    PROVE  TypeOK'
<1> DEFINE sh == [shared[d] EXCEPT !.quotaBlocked = TRUE, !.retryAt = TRUE]
<1>1. sh \in Shared
  BY Entries DEF Shared
<1>2. /\ down[d] # <<>>
      /\ maybe_repair_gap(d, sh, actor[d], http[d])
      /\ UNCHANGED <<log, floor, ckpt, stray, late, faults, docVars, post, diskVars>>
  BY DEF RecvQuota, DownHead
<1> HIDE DEF sh
<1>3. /\ shared' \in [Devices -> Shared]
      /\ actor' \in [Devices -> Actor]
      /\ http' \in [Devices -> Http]
      /\ up' \in [Devices -> Seq(UpFrames)]
      /\ down' \in [Devices -> Seq(DownFrames)]
      /\ ready' \in [Devices -> BOOLEAN]
  BY <1>1, <1>2, Entries, RepairType
<1>4. QED
  BY <1>2, <1>3 DEF TypeOK, RoomTypeOK, ClientTypeOK, docVars, diskVars, headSeq

\* Reading ROWS_DONE keeps the types.
LEMMA RecvDoneType ==
    ASSUME TypeOK, NEW d \in Devices, RecvDone(d)
    PROVE  TypeOK'
<1> DEFINE act == [actor[d] EXCEPT !.phase = "live", !.resumed = TRUE]
<1>1. act \in Actor
  BY Entries DEF Actor
<1>2. /\ down[d] # <<>>
      /\ maybe_repair_gap(d, shared[d], act, http[d])
      /\ UNCHANGED <<log, floor, ckpt, stray, late, faults, docVars, post, diskVars>>
  BY DEF RecvDone, DownHead
<1> HIDE DEF act
<1>3. /\ shared' \in [Devices -> Shared]
      /\ actor' \in [Devices -> Actor]
      /\ http' \in [Devices -> Http]
      /\ up' \in [Devices -> Seq(UpFrames)]
      /\ down' \in [Devices -> Seq(DownFrames)]
      /\ ready' \in [Devices -> BOOLEAN]
  BY <1>1, <1>2, Entries, RepairType
<1>4. QED
  BY <1>2, <1>3 DEF TypeOK, RoomTypeOK, ClientTypeOK, docVars, diskVars, headSeq

\* Pushing what is pending keeps the types.
LEMMA PushPendingType ==
    ASSUME TypeOK, NEW d \in Devices, push_pending(d)
    PROVE  TypeOK'
<1> DEFINE new == shared[d].pending \ actor[d].inFlight
           act == [actor[d] EXCEPT !.inFlight = (@ \cap shared[d].pending) \cup new]
<1>1. new \in SUBSET Batches
  BY Entries DEF Shared
<1>2. /\ new # {}
      /\ up' = [up EXCEPT ![d] = Append(@, PushFrame(new))]
      /\ actor' = [actor EXCEPT ![d] = act]
      /\ UNCHANGED <<log, floor, ckpt, ready, down, stray, late, faults,
                     docVars, shared, http, post, diskVars>>
  BY DEF push_pending
<1>3. act \in Actor
  BY <1>1, Entries DEF Actor, Shared
<1> HIDE DEF new, act
<1>4. Append(up[d], PushFrame(new)) \in Seq(UpFrames)
  BY <1>1, <1>2, Entries, UpFrameTypes, Sending
<1>5. up' \in [Devices -> Seq(UpFrames)] /\ actor' \in [Devices -> Actor]
  BY <1>2, <1>3, <1>4, Update DEF TypeOK, RoomTypeOK, ClientTypeOK
<1>6. QED
  BY <1>2, <1>5 DEF TypeOK, RoomTypeOK, ClientTypeOK, docVars, diskVars, headSeq

\* The quota probe keeps the types.
LEMMA PushHeadType ==
    ASSUME TypeOK, NEW d \in Devices, push_head(d)
    PROVE  TypeOK'
<1> DEFINE pending == shared[d].pending
           ch == IF pending = {} THEN up[d] ELSE Append(up[d], PushFrame({First(pending)}))
           sh == [shared[d] EXCEPT !.retryAt = FALSE]
<1>1. pending \in SUBSET Batches
  BY Entries DEF Shared
<1>2. ch \in Seq(UpFrames)
  <2>1. CASE pending = {}
    BY <2>1, Entries
  <2>2. CASE pending # {}
    <3>1. {First(pending)} \in SUBSET Batches /\ {First(pending)} # {}
      BY <1>1, <2>2, FirstIn
    <3>2. PushFrame({First(pending)}) \in UpFrames
      BY <3>1, UpFrameTypes
    <3>3. QED
      BY <2>2, <3>2, Entries, Sending
  <2>3. QED
    BY <2>1, <2>2
<1>3. sh \in Shared
  BY Entries DEF Shared
<1>4. /\ shared' = [shared EXCEPT ![d] = sh]
      /\ up' = [up EXCEPT ![d] = ch]
      /\ UNCHANGED <<log, floor, ckpt, ready, down, stray, late, faults,
                     docVars, actor, http, post, diskVars>>
  BY DEF push_head
<1> HIDE DEF ch, sh
<1>5. up' \in [Devices -> Seq(UpFrames)] /\ shared' \in [Devices -> Shared]
  BY <1>2, <1>3, <1>4, Update DEF TypeOK, RoomTypeOK, ClientTypeOK
<1>6. QED
  BY <1>4, <1>5 DEF TypeOK, RoomTypeOK, ClientTypeOK, docVars, diskVars, headSeq

\* An HTTPS push keeps the types.
LEMMA HttpPushType ==
    ASSUME TypeOK, NEW d \in Devices, HttpPush(d)
    PROVE  TypeOK'
<1> DEFINE b == First(http[d].todo)
           h == [http[d] EXCEPT !.step = "ack", !.ack = AckSeq(b)]
<1>1. http[d] \in Http /\ http[d].todo \in SUBSET Batches /\ http[d].todo # {}
  BY Entries DEF HttpPush, Http
<1>2. b \in Batches
  BY <1>1, FirstIn
<1>3. AckSeq(b) \in Nat
  BY <1>2, AppendRowType DEF TypeOK
<1>4. h \in Http
  BY <1>1, <1>3 DEF Http
<1>5. /\ postRow(b)
      /\ http' = [http EXCEPT ![d] = h]
      /\ UNCHANGED <<stray, faults, docVars, shared, actor, post, diskVars>>
  BY DEF HttpPush
<1> HIDE DEF b, h
<1>6. RoomTypeOK'
  BY <1>2, <1>5, PostRowType DEF TypeOK, RoomTypeOK
<1>7. http' \in [Devices -> Http]
  BY <1>4, <1>5, Update DEF TypeOK, ClientTypeOK
<1>8. QED
  BY <1>5, <1>6, <1>7 DEF TypeOK, ClientTypeOK, docVars, diskVars

\* An HTTPS acknowledgement keeps the types.
LEMMA HttpAckType ==
    ASSUME TypeOK, NEW d \in Devices, HttpAck(d)
    PROVE  TypeOK'
<1> DEFINE b == First(http[d].todo)
           cursor == AckAdvance(shared[d].cursor, http[d].ack)
           sh == [shared[d] EXCEPT !.pending = @ \ {b}, !.cursor = cursor]
           h == [http[d] EXCEPT !.step = "push", !.todo = @ \ {b}]
<1>1. shared[d] \in Shared /\ http[d] \in Http
  BY Entries
<1>2. cursor \in Nat
  BY <1>1, AckAdvanceType DEF Shared, Http
<1>3. /\ outbox' = [outbox EXCEPT ![d] = @ \ {b}]
      /\ shared' = [shared EXCEPT ![d] = sh]
      /\ pcursor' = [pcursor EXCEPT ![d] = Larger(@, cursor)]
      /\ http' = [http EXCEPT ![d] = h]
      /\ UNCHANGED <<roomVars, docVars, actor, post, flush, disk>>
  BY DEF HttpAck, acknowledge_chat_update
<1> HIDE DEF cursor
<1>4. sh \in Shared
  BY <1>1, <1>2 DEF Shared
<1>5. h \in Http
  BY <1>1 DEF Http
<1> HIDE DEF sh, h
<1>6. shared' \in [Devices -> Shared] /\ http' \in [Devices -> Http]
  BY <1>3, <1>4, <1>5, Update DEF TypeOK, ClientTypeOK
<1>7. outbox' \in [Devices -> SUBSET Batches]
  BY <1>3 DEF TypeOK, ClientTypeOK
<1>8. pcursor' \in [Devices -> Nat]
  <2>1. Larger(pcursor[d], cursor) \in Nat
    BY <1>2, Entries, LargerType
  <2>2. QED
    BY <1>3, <2>1, Update DEF TypeOK, ClientTypeOK
<1>9. QED
  BY <1>3, <1>6, <1>7, <1>8 DEF TypeOK, RoomTypeOK, ClientTypeOK, roomVars, docVars, headSeq

\* An HTTPS pull keeps the types.
LEMMA HttpPullType ==
    ASSUME TypeOK, NEW d \in Devices, HttpPull(d)
    PROVE  TypeOK'
<1> DEFINE rows == rowsAfter(shared[d].cursor, {})
           h == [http[d] EXCEPT !.step = "pull", !.cur = shared[d].cursor,
                                !.st = logStats, !.rows = rows]
<1>1. shared[d].cursor \in Nat /\ http[d] \in Http
  BY Entries DEF Shared
<1>2. rows \in SUBSET Row /\ logStats \in State
  BY <1>1, RowsAfterType, LogStatsType DEF TypeOK
<1>3. /\ http' = [http EXCEPT ![d] = h]
      /\ UNCHANGED <<roomVars, docVars, shared, actor, post, diskVars>>
  BY DEF HttpPull
<1> HIDE DEF rows
<1>4. h \in Http
  BY <1>1, <1>2 DEF Http
<1> HIDE DEF h
<1>5. http' \in [Devices -> Http]
  BY <1>3, <1>4, Update DEF TypeOK, ClientTypeOK
<1>6. QED
  BY <1>3, <1>5
     DEF TypeOK, RoomTypeOK, ClientTypeOK, roomVars, docVars, diskVars, headSeq

\* Reading the answer of a pull keeps the types.
LEMMA HttpStateType ==
    ASSUME TypeOK, NEW d \in Devices, HttpState(d)
    PROVE  TypeOK'
<1> DEFINE h == http[d]
           sh == shared[d]
           view == [sh EXCEPT !.server = ViewOf(h.st)]
           stale == sh.cursor < h.cur /\ h.cur <= h.st.head
<1>1. sh \in Shared /\ h \in Http /\ h.st \in State
  BY Entries DEF Http
<1>2. view \in Shared
  BY <1>1, ViewType DEF Shared
<1>3. HttpBase(view, h) \in Shared
  BY <1>1, <1>2, HttpBaseType
<1>4. /\ IdleHttp \in Http
      /\ [h EXCEPT !.step = "apply"] \in Http
      /\ [h EXCEPT !.step = "fetch", !.gap = FALSE] \in Http
  BY <1>1, IdleTypes DEF Http
<1>5. \/ /\ http' = [http EXCEPT ![d] = IdleHttp]
         /\ shared' = [shared EXCEPT ![d] = view]
      \/ /\ http' = [http EXCEPT ![d] = [h EXCEPT !.step = "apply"]]
         /\ shared' = [shared EXCEPT ![d] = HttpBase(view, h)]
      \/ /\ http' = [http EXCEPT ![d] = [h EXCEPT !.step = "fetch", !.gap = FALSE]]
         /\ shared' = [shared EXCEPT ![d] = view]
  BY DEF HttpState
<1>6. /\ pcursor' = [pcursor EXCEPT ![d] = IF ~stale /\ h.cur > h.st.head THEN 0 ELSE @]
      /\ UNCHANGED <<roomVars, docVars, actor, post, flush, disk, outbox>>
  BY DEF HttpState
<1> HIDE DEF view
<1>7. shared \in [Devices -> Shared] /\ http \in [Devices -> Http]
  BY DEF TypeOK, ClientTypeOK
<1>8. shared' \in [Devices -> Shared] /\ http' \in [Devices -> Http]
  BY <1>2, <1>3, <1>4, <1>5, <1>7, Update
<1>9. pcursor' \in [Devices -> Nat]
  BY <1>6 DEF TypeOK, ClientTypeOK
<1>10. QED
  BY <1>6, <1>8, <1>9 DEF TypeOK, RoomTypeOK, ClientTypeOK, roomVars, docVars, headSeq

\* The HTTPS task's checkpoint download keeps the types.
LEMMA HttpFetchType ==
    ASSUME TypeOK, NEW d \in Devices, HttpFetch(d)
    PROVE  TypeOK'
<1> DEFINE sh == HttpBase(shared[d], http[d])
           h == [http[d] EXCEPT !.step = "apply"]
<1>1. ckpt.content \in SUBSET Batches /\ http[d].st.seq \in Nat
  BY Entries DEF TypeOK, RoomTypeOK, Http, State
<1>2. sh \in Shared
  BY Entries, HttpBaseType
<1>3. h \in Http
  BY Entries DEF Http
<1>4. /\ Import(d, ckpt.content)
      /\ pcursor' = [pcursor EXCEPT ![d] = Larger(@, http[d].st.seq)]
      /\ shared' = [shared EXCEPT ![d] = sh]
      /\ http' = [http EXCEPT ![d] = h]
      /\ UNCHANGED <<roomVars, actor, post, flush, disk, outbox>>
  BY DEF HttpFetch, apply_checkpoint
<1> HIDE DEF sh, h
<1>5. /\ written' \subseteq Batches
      /\ deps' \in [Batches -> SUBSET Batches]
      /\ doc' \in [Devices -> SUBSET Batches]
      /\ parked' \in [Devices -> SUBSET Batches]
  BY <1>1, <1>4, ImportType DEF TypeOK
<1>6. pcursor' \in [Devices -> Nat]
  <2>1. Larger(pcursor[d], http[d].st.seq) \in Nat
    BY <1>1, Entries, LargerType
  <2>2. QED
    BY <1>4, <2>1, Update DEF TypeOK, ClientTypeOK
<1>7. shared' \in [Devices -> Shared] /\ http' \in [Devices -> Http]
  BY <1>2, <1>3, <1>4, Update DEF TypeOK, ClientTypeOK
<1>8. QED
  BY <1>4, <1>5, <1>6, <1>7 DEF TypeOK, RoomTypeOK, ClientTypeOK, roomVars, headSeq

\* The HTTPS task's row keeps the types.
LEMMA HttpRowType ==
    ASSUME TypeOK, NEW d \in Devices, HttpRow(d)
    PROVE  TypeOK'
<1> DEFINE r == FirstRow(http[d].rows)
           ok == r.batch \in Applied(d, {r.batch})
           sh == RowAdvance(shared[d], r, ok)
           act == [actor[d] EXCEPT !.gap = @ \/ (~ok /\ actor[d].phase = "fetch")]
           h == [http[d] EXCEPT !.rows = @ \ {r}]
<1>1. r \in Row /\ {r.batch} \in SUBSET Batches
  <2>1. http[d].rows \in SUBSET Row /\ http[d].rows # {}
    BY Entries DEF HttpRow, Http
  <2>2. r \in Row
    BY <2>1, FirstRowIn
  <2>3. QED
    BY <2>2 DEF Row
<1>2. sh \in Shared
  <2>1. shared[d] \in Shared /\ ok \in BOOLEAN
    BY Entries
  <2> HIDE DEF r, ok
  <2>2. QED
    BY <1>1, <2>1, RowAdvanceType
<1>3. act \in Actor /\ h \in Http
  <2>1. ok \in BOOLEAN /\ actor[d] \in Actor /\ http[d] \in Http
    BY Entries
  <2> HIDE DEF r, ok
  <2>2. act \in Actor
    BY <2>1 DEF Actor
  <2>3. h \in Http
    BY <2>1 DEF Http
  <2>4. QED
    BY <2>2, <2>3
<1>4. /\ Import(d, {r.batch})
      /\ pcursor' = [pcursor EXCEPT ![d] = IF ok THEN Larger(@, sh.cursor) ELSE @]
      /\ shared' = [shared EXCEPT ![d] = sh]
      /\ http' = [http EXCEPT ![d] = h]
      /\ UNCHANGED <<roomVars, post, flush, disk, outbox>>
  BY DEF HttpRow
<1>5. actor' = [actor EXCEPT ![d] = act]
  BY DEF HttpRow
<1> HIDE DEF sh, h, act, ok, r
<1>6. /\ written' \subseteq Batches
      /\ deps' \in [Batches -> SUBSET Batches]
      /\ doc' \in [Devices -> SUBSET Batches]
      /\ parked' \in [Devices -> SUBSET Batches]
  BY <1>1, <1>4, ImportType DEF TypeOK
<1>7. pcursor' \in [Devices -> Nat]
  <2>1. (IF ok THEN Larger(pcursor[d], sh.cursor) ELSE pcursor[d]) \in Nat
    BY <1>2, Entries, LargerType DEF Shared
  <2>2. QED
    BY <1>4, <2>1, Update DEF TypeOK, ClientTypeOK
<1>8. /\ shared' \in [Devices -> Shared]
      /\ actor' \in [Devices -> Actor]
      /\ http' \in [Devices -> Http]
  BY <1>2, <1>3, <1>4, <1>5, Update DEF TypeOK, ClientTypeOK
<1>9. QED
  BY <1>4, <1>6, <1>7, <1>8 DEF TypeOK, RoomTypeOK, ClientTypeOK, roomVars, headSeq

\* The end of an HTTPS cycle keeps the types.
LEMMA HttpDoneType ==
    ASSUME TypeOK, NEW d \in Devices, HttpDone(d)
    PROVE  TypeOK'
<1>1. http' \in [Devices -> Http]
  BY IdleTypes, Update DEF TypeOK, ClientTypeOK, HttpDone
<1>2. UNCHANGED <<roomVars, docVars, shared, actor, post, diskVars>>
  BY DEF HttpDone
<1>3. QED
  BY <1>1, <1>2
     DEF TypeOK, RoomTypeOK, ClientTypeOK, roomVars, docVars, diskVars, headSeq

\* A failed HTTPS request keeps the types.
LEMMA HttpFailsType ==
    ASSUME TypeOK, NEW d \in Devices, HttpFails(d)
    PROVE  TypeOK'
<1> DEFINE h == IF http[d].step \in {"push", "ack"}
                THEN [http[d] EXCEPT !.step = "push", !.todo = {}] ELSE IdleHttp
<1>1. h \in Http
  BY Entries, IdleTypes DEF Http
<1>2. /\ http' = [http EXCEPT ![d] = h]
      /\ UNCHANGED <<log, floor, ckpt, ready, up, down, stray, late,
                     docVars, shared, actor, post, diskVars>>
  BY DEF HttpFails
<1> HIDE DEF h
<1>3. http' \in [Devices -> Http]
  BY <1>1, <1>2, Update DEF TypeOK, ClientTypeOK
<1>4. faults' \in [FaultKinds -> Nat]
  BY SpendType DEF TypeOK, HttpFails, FaultKinds
<1>5. QED
  BY <1>2, <1>3, <1>4 DEF TypeOK, RoomTypeOK, ClientTypeOK, docVars, diskVars, headSeq

\* Flushing keeps the types: what reaches the disk is a cursor, never the -1
\* of an idle flush.
LEMMA FlushType ==
    ASSUME TypeOK, NEW d \in Devices, FlushStep(d)
    PROVE  TypeOK'
<1>1. CASE FlushBegin(d)
  <2>1. flush' \in [Devices -> Nat \cup {-1}]
    BY <1>1, Entries, Update DEF TypeOK, ClientTypeOK, FlushBegin
  <2>2. UNCHANGED <<roomVars, docVars, shared, actor, http, post, pcursor, disk, outbox>>
    BY <1>1 DEF FlushBegin
  <2>3. QED
    BY <2>1, <2>2 DEF TypeOK, RoomTypeOK, ClientTypeOK, roomVars, docVars, headSeq
<1>2. CASE FlushCommit(d)
  <2> DEFINE snap == [content |-> doc[d], cursor |-> flush[d]]
  <2>1. snap \in [content : SUBSET Batches, cursor : Nat]
    BY <1>2, Entries DEF FlushCommit
  <2>2. /\ disk' = [disk EXCEPT ![d] = snap]
        /\ flush' = [flush EXCEPT ![d] = -1]
        /\ UNCHANGED <<roomVars, docVars, shared, actor, http, post, pcursor, outbox>>
    BY <1>2 DEF FlushCommit, save_verified_snapshot_with_cursor
  <2> HIDE DEF snap
  <2>3. disk' \in [Devices -> [content : SUBSET Batches, cursor : Nat]]
    BY <2>1, <2>2, Update DEF TypeOK, ClientTypeOK
  <2>4. flush' \in [Devices -> Nat \cup {-1}]
    BY <2>2, Update DEF TypeOK, ClientTypeOK
  <2>5. QED
    BY <2>2, <2>3, <2>4 DEF TypeOK, RoomTypeOK, ClientTypeOK, roomVars, docVars, headSeq
<1>3. QED
  BY <1>1, <1>2 DEF FlushStep

\* A crash and the reopening keep the types.
LEMMA CrashType ==
    ASSUME TypeOK, NEW d \in Devices, Crash(d)
    PROVE  TypeOK'
<1> DEFINE kept == Reopened(d)
           whole == {b \in kept : deps[b] \subseteq kept}
           pending == pending_updates(d)
<1>1. kept \in SUBSET Batches /\ pending \in SUBSET Batches /\ disk[d].cursor \in Nat
  BY Entries DEF Reopened, pending_updates
<1>2. /\ doc' = [doc EXCEPT ![d] = whole]
      /\ parked' = [parked EXCEPT ![d] = kept \ whole]
      /\ shared' = [shared EXCEPT ![d] = NewShared(disk[d].cursor, pending)]
      /\ actor' = [actor EXCEPT ![d] = DownActor(FALSE, TRUE, FALSE)]
      /\ http' = [http EXCEPT ![d] = spawn_offline_sync(d, IdleHttp, pending)]
      /\ post' = [post EXCEPT ![d] = IdlePost]
      /\ pcursor' = [pcursor EXCEPT ![d] = disk[d].cursor]
      /\ flush' = [flush EXCEPT ![d] = -1]
      /\ up' = [up EXCEPT ![d] = <<>>]
      /\ down' = [down EXCEPT ![d] = <<>>]
      /\ ready' = [ready EXCEPT ![d] = FALSE]
      /\ UNCHANGED <<log, floor, ckpt, stray, late, written, deps, disk, outbox>>
  BY DEF Crash
<1>3. whole \in SUBSET Batches /\ kept \ whole \in SUBSET Batches
  BY <1>1
<1> HIDE DEF kept, whole, pending
<1>4. doc' \in [Devices -> SUBSET Batches] /\ parked' \in [Devices -> SUBSET Batches]
  BY <1>2, <1>3, Update DEF TypeOK, ClientTypeOK
<1>5. /\ NewShared(disk[d].cursor, pending) \in Shared
      /\ DownActor(FALSE, TRUE, FALSE) \in Actor
      /\ spawn_offline_sync(d, IdleHttp, pending) \in Http
      /\ IdlePost \in Post
  BY <1>1, IdleTypes, SpawnType
<1>6. /\ shared' \in [Devices -> Shared]
      /\ actor' \in [Devices -> Actor]
      /\ http' \in [Devices -> Http]
      /\ post' \in [Devices -> Post]
  BY <1>2, <1>5, Update DEF TypeOK, ClientTypeOK
<1>7. pcursor' \in [Devices -> Nat] /\ flush' \in [Devices -> Nat \cup {-1}]
  BY <1>1, <1>2, Update DEF TypeOK, ClientTypeOK
<1>8. <<>> \in Seq(UpFrames) /\ <<>> \in Seq(DownFrames)
  OBVIOUS
<1>9. /\ up' \in [Devices -> Seq(UpFrames)]
      /\ down' \in [Devices -> Seq(DownFrames)]
      /\ ready' \in [Devices -> BOOLEAN]
  BY <1>2, <1>8, Update DEF TypeOK, RoomTypeOK
<1>10. faults' \in [FaultKinds -> Nat]
  BY SpendType DEF TypeOK, Crash, FaultKinds
<1>11. QED
  BY <1>2, <1>4, <1>6, <1>7, <1>9, <1>10
     DEF TypeOK, RoomTypeOK, ClientTypeOK, headSeq

\* Serving the heal and the reset keeps the session's locals typed.
LEMMA ServedType ==
    ASSUME NEW act \in Actor, NEW view \in ServerView
    PROVE  Served(act, view) \in Actor
<1>1. (act.heal /\ view.present) \in BOOLEAN
  OBVIOUS
<1>2. QED
  BY <1>1 DEF Actor, Served

\* Sampling a checkpoint's cursor keeps the types.
LEMMA CheckpointBeginType ==
    ASSUME TypeOK, NEW d \in Devices, CheckpointBegin(d)
    PROVE  TypeOK'
<1> DEFINE p == [IdlePost EXCEPT !.step = "sampled", !.covered = shared[d].cursor]
           act == Served(actor[d], shared[d].server)
<1>1. p \in Post
  BY Entries, IdleTypes DEF Post, Shared
<1>2. act \in Actor
  <2>1. actor[d] \in Actor /\ shared[d] \in Shared
    BY Entries
  <2>2. shared[d].server \in ServerView
    BY <2>1 DEF Shared
  <2>3. QED
    BY <2>1, <2>2, ServedType
<1>3. /\ post' = [post EXCEPT ![d] = p]
      /\ UNCHANGED <<roomVars, docVars, shared, http, diskVars>>
  BY DEF CheckpointBegin
<1>4. actor' = [actor EXCEPT ![d] = act]
  BY DEF CheckpointBegin
<1> HIDE DEF p, act
<1>5. post' \in [Devices -> Post] /\ actor' \in [Devices -> Actor]
  BY <1>1, <1>2, <1>3, <1>4, Update DEF TypeOK, ClientTypeOK
<1>6. QED
  BY <1>3, <1>5
     DEF TypeOK, RoomTypeOK, ClientTypeOK, roomVars, docVars, diskVars, headSeq

\* Exporting a checkpoint keeps the types.
LEMMA CheckpointExportType ==
    ASSUME TypeOK, NEW d \in Devices, CheckpointExport(d)
    PROVE  TypeOK'
<1> DEFINE p == [post[d] EXCEPT !.step = "sent", !.content = doc[d],
                                !.rej = rejected_chat_updates(d) \cap doc[d]]
<1>1. p \in Post
  BY Entries DEF Post
<1>2. /\ post' = [post EXCEPT ![d] = p]
      /\ UNCHANGED <<roomVars, docVars, shared, actor, http, diskVars>>
  BY DEF CheckpointExport
<1> HIDE DEF p
<1>3. post' \in [Devices -> Post]
  BY <1>1, <1>2, Update DEF TypeOK, ClientTypeOK
<1>4. QED
  BY <1>2, <1>3
     DEF TypeOK, RoomTypeOK, ClientTypeOK, roomVars, docVars, diskVars, headSeq

\* Posting a checkpoint keeps the types: the floor stays below the head.
LEMMA CheckpointPostType ==
    ASSUME TypeOK, NEW d \in Devices, CheckpointPost(d)
    PROVE  TypeOK'
<1> DEFINE p == post[d]
           sh == [shared[d] EXCEPT !.server =
                     IF @.known THEN [known |-> TRUE, present |-> TRUE, many |-> FALSE]
                     ELSE @]
<1>1. p \in Post /\ p.covered \in Nat /\ p.content \in SUBSET Batches
  BY Entries DEF Post
<1>2. sh \in Shared
  BY Entries DEF Shared, ServerView
<1>3. /\ post' = [post EXCEPT ![d] = IdlePost]
      /\ UNCHANGED <<log, ready, up, down, stray, late, faults,
                     docVars, actor, http, pcursor, flush, disk>>
  BY DEF CheckpointPost
<1>4. post' \in [Devices -> Post]
  BY <1>3, IdleTypes, Update DEF TypeOK, ClientTypeOK
<1>5. /\ floor' \in Nat /\ floor' <= headSeq
      /\ ckpt' \in [present : BOOLEAN, content : SUBSET Batches]
      /\ outbox' \in [Devices -> SUBSET Batches]
      /\ shared' \in [Devices -> Shared]
  <2>1. CASE Committable(p.covered)
    <3>1. /\ floor' = p.covered
          /\ ckpt' = [present |-> TRUE, content |-> p.content]
          /\ outbox' = [outbox EXCEPT ![d] = @ \ p.rej]
          /\ shared' = [shared EXCEPT ![d] = sh]
      BY <2>1 DEF CheckpointPost, acknowledge_chat_update, commitCheckpoint
    <3> HIDE DEF sh, p
    <3>2. shared' \in [Devices -> Shared]
      BY <1>2, <3>1, Update DEF TypeOK, ClientTypeOK
    <3>3. outbox' \in [Devices -> SUBSET Batches]
      BY <3>1 DEF TypeOK, ClientTypeOK
    <3>4. QED
      BY <1>1, <2>1, <3>1, <3>2, <3>3 DEF Committable
  <2>2. CASE ~Committable(p.covered)
    <3>1. UNCHANGED <<floor, ckpt, outbox, shared>>
      BY <2>2 DEF CheckpointPost
    <3>2. QED
      BY <3>1 DEF TypeOK, RoomTypeOK, ClientTypeOK
  <2>3. QED
    BY <2>1, <2>2
<1>6. QED
  BY <1>3, <1>4, <1>5 DEF TypeOK, RoomTypeOK, ClientTypeOK, docVars, headSeq

\* Giving up on a checkpoint POST keeps the types.
LEMMA CheckpointTimeoutType ==
    ASSUME TypeOK, NEW d \in Devices, CheckpointTimeout(d)
    PROVE  TypeOK'
<1> DEFINE p == [covered |-> post[d].covered, content |-> post[d].content]
<1>1. p \in [covered : Nat, content : SUBSET Batches]
  BY Entries DEF Post
<1>2. /\ late' = late \cup {p}
      /\ post' = [post EXCEPT ![d] = IdlePost]
      /\ UNCHANGED <<log, floor, ckpt, ready, up, down, stray,
                     docVars, shared, actor, http, diskVars>>
  BY DEF CheckpointTimeout
<1> HIDE DEF p
<1>3. late' \subseteq [covered : Nat, content : SUBSET Batches]
  BY <1>1, <1>2 DEF TypeOK, RoomTypeOK
<1>4. post' \in [Devices -> Post]
  BY <1>2, IdleTypes, Update DEF TypeOK, ClientTypeOK
<1>5. faults' \in [FaultKinds -> Nat]
  BY SpendType DEF TypeOK, CheckpointTimeout, FaultKinds
<1>6. QED
  BY <1>2, <1>3, <1>4, <1>5 DEF TypeOK, RoomTypeOK, ClientTypeOK, docVars, diskVars, headSeq

-----------------------------------------------------------------------------
(* Type correctness.                                                       *)

\* The initial state is typed.
LEMMA InitType == Init => TypeOK
<1> SUFFICES ASSUME Init PROVE TypeOK
  OBVIOUS
<1>1. /\ log \in Seq(Batches) /\ Len(log) = 0
      /\ <<>> \in Seq(UpFrames) /\ <<>> \in Seq(DownFrames)
  BY DEF Init, RoomInit
<1>2. RoomTypeOK
  BY <1>1 DEF Init, RoomInit, RoomTypeOK, headSeq
<1>3. \A d \in Devices : spawn_offline_sync(d, IdleHttp, {}) \in Http
  BY IdleTypes, SpawnType
<1>4. /\ NewShared(0, {}) \in Shared
      /\ DownActor(FALSE, TRUE, FALSE) \in Actor
      /\ IdlePost \in Post
  BY IdleTypes
<1>5. http \in [Devices -> Http]
  BY <1>3 DEF Init
<1>6. shared \in [Devices -> Shared] /\ actor \in [Devices -> Actor] /\ post \in [Devices -> Post]
  BY <1>4 DEF Init
<1>7. ClientTypeOK
  BY <1>5, <1>6 DEF Init, ClientTypeOK
<1>8. QED
  BY <1>2, <1>7 DEF TypeOK

\* A step of the room alone keeps the client's types.
LEMMA RoomOnly ==
    ASSUME TypeOK, RoomTypeOK', UNCHANGED clientVars
    PROVE  TypeOK'
BY DEF TypeOK, ClientTypeOK, clientVars, docVars, diskVars

\* Every step keeps the types.
LEMMA NextType == TypeOK /\ [Next]_vars => TypeOK'
<1> SUFFICES ASSUME TypeOK, [Next]_vars PROVE TypeOK'
  OBVIOUS
<1>1. ASSUME NEW d \in Devices, NEW b \in Batches, enqueue_batch(d, b) PROVE TypeOK'
  BY <1>1, WriteType
<1>2. ASSUME NEW d \in Devices, RoomStep(d), UNCHANGED clientVars PROVE TypeOK'
  BY <1>2, RoomStepType, RoomOnly DEF TypeOK
<1>3. ASSUME NEW d \in Devices, SessionStep(d) PROVE TypeOK'
  BY <1>3, DialType, RecvStateType, FetchCheckpointType, RecvRowType, RecvAckType,
     RecvQuotaType, RecvDoneType, PushPendingType, PushHeadType DEF SessionStep
<1>4. ASSUME NEW d \in Devices, HttpStep(d) PROVE TypeOK'
  BY <1>4, HttpPushType, HttpAckType, HttpPullType, HttpStateType, HttpFetchType,
     HttpRowType, HttpDoneType DEF HttpStep
<1>5. ASSUME NEW d \in Devices, FlushStep(d) PROVE TypeOK'
  BY <1>5, FlushType
<1>6. ASSUME NEW d \in Devices, CheckpointStep(d) PROVE TypeOK'
  BY <1>6, CheckpointBeginType, CheckpointExportType, CheckpointPostType DEF CheckpointStep
<1>7. ASSUME NEW d \in Devices, Fault(d) PROVE TypeOK'
  <2>1. CASE refusePush(d) /\ UNCHANGED clientVars
    BY <2>1, RefusePushType, RoomOnly DEF TypeOK
  <2>2. QED
    BY <1>7, <2>1, DropType, DialFailsType, HttpFailsType, CrashType,
       CheckpointTimeoutType DEF Fault
<1>8. ASSUME NEW b \in stray, handleStrayPush(b), UNCHANGED clientVars PROVE TypeOK'
  BY <1>8, StrayPushType, RoomOnly DEF TypeOK
<1>9. ASSUME NEW p \in late, handleLateCheckpoint(p), UNCHANGED clientVars PROVE TypeOK'
  BY <1>9, LateCheckpointType, RoomOnly DEF TypeOK
<1>10. CASE UNCHANGED vars
  BY <1>10 DEF vars, roomVars, clientVars, docVars, diskVars,
               TypeOK, RoomTypeOK, ClientTypeOK, headSeq
<1>11. QED
  BY <1>1, <1>2, <1>3, <1>4, <1>5, <1>6, <1>7, <1>8, <1>9, <1>10 DEF Next

\* Whatever the devices, the network and the room do, every variable keeps its
\* type; in particular the floor never passes the head of the log, no frame is
\* empty, and no cursor that was sampled but not stored reaches the disk.
THEOREM TypeCorrect == Spec => []TypeOK
<1>1. QED
  BY InitType, NextType, PTL DEF Spec

-----------------------------------------------------------------------------
(* The journal.                                                            *)

AckIn(ch, b) == \E i \in 1 .. Len(ch) : ch[i].t = "ack" /\ ch[i].batch = b

AcksLogged == \A d \in Devices, b \in Batches : AckIn(down[d], b) => b \in Range(log)

HttpAcksLogged == \A d \in Devices :
    http[d].step = "ack" => First(http[d].todo) \in Range(log)

ObligationsOversize == \A d \in Devices : post[d].rej \subseteq Oversize

JournalInv ==
    /\ TypeOK
    /\ AcksLogged
    /\ HttpAcksLogged
    /\ ObligationsOversize
    /\ JournaledUntilLogged

-----------------------------------------------------------------------------
(* What every step does to the parts of the invariant.                     *)

LogGrows == Range(log) \subseteq Range(log')

AcksHold == \A d \in Devices, b \in Batches :
    AckIn(down'[d], b) => AckIn(down[d], b) \/ b \in Range(log')

SameAck(h, g) == h.step = "ack" => g.step = "ack" /\ h.todo = g.todo

HttpHolds == \A d \in Devices :
    SameAck(http'[d], http[d]) \/ First(http'[d].todo) \in Range(log')

ObligationsHold == \A d \in Devices : post'[d].rej \subseteq post[d].rej \cup Oversize

OutboxHolds == \A b \in written' \ Oversize :
    \/ b \in outbox'[Author(b)]
    \/ b \in Range(log)
    \/ b \in written /\ b \notin outbox[Author(b)]

GoodStep == LogGrows /\ AcksHold /\ HttpHolds /\ ObligationsHold /\ OutboxHolds

\* A good step keeps the invariant.
LEMMA Preserved ==
    ASSUME JournalInv, TypeOK', GoodStep
    PROVE  JournalInv'
<1>1. AcksLogged'
  BY DEF JournalInv, AcksLogged, GoodStep, LogGrows, AcksHold
<1>2. HttpAcksLogged'
  BY DEF JournalInv, HttpAcksLogged, GoodStep, LogGrows, HttpHolds, SameAck
<1>3. ObligationsOversize'
  BY DEF JournalInv, ObligationsOversize, GoodStep, ObligationsHold
<1>4. JournaledUntilLogged'
  BY DEF JournalInv, JournaledUntilLogged, GoodStep, LogGrows, OutboxHolds
<1>5. QED
  BY <1>1, <1>2, <1>3, <1>4 DEF JournalInv

\* What a step leaves alone cannot break its part.
LEMMA Untouched ==
    /\ UNCHANGED log => LogGrows
    /\ UNCHANGED down => AcksHold
    /\ UNCHANGED http => HttpHolds
    /\ UNCHANGED post => ObligationsHold
    /\ UNCHANGED <<written, outbox>> => OutboxHolds
BY DEF LogGrows, AcksHold, HttpHolds, SameAck, ObligationsHold, OutboxHolds

-----------------------------------------------------------------------------
(* Channels.                                                               *)

\* Sending anything but an acknowledgement adds none to the channel.
LEMMA SendNoAck ==
    ASSUME NEW ch \in Seq(DownFrames), NEW f \in DownFrames, f.t # "ack",
           NEW b, AckIn(Append(ch, f), b)
    PROVE  AckIn(ch, b)
<1>1. PICK i \in 1 .. Len(Append(ch, f)) :
          Append(ch, f)[i].t = "ack" /\ Append(ch, f)[i].batch = b
  BY DEF AckIn
<1>2. Len(Append(ch, f)) = Len(ch) + 1 /\ Len(ch) \in Nat
  OBVIOUS
<1>3. i # Len(ch) + 1
  BY <1>1
<1>4. i \in 1 .. Len(ch) /\ Append(ch, f)[i] = ch[i]
  BY <1>2, <1>3
<1>5. QED
  BY <1>1, <1>4 DEF AckIn

\* Sending an acknowledgement adds that batch and no other.
LEMMA SendAck ==
    ASSUME NEW ch \in Seq(DownFrames), NEW c, NEW s,
           NEW b, AckIn(Append(ch, AckFrame(c, s)), b)
    PROVE  AckIn(ch, b) \/ b = c
<1> DEFINE f == AckFrame(c, s)
<1>1. PICK i \in 1 .. Len(Append(ch, f)) :
          Append(ch, f)[i].t = "ack" /\ Append(ch, f)[i].batch = b
  BY DEF AckIn
<1>2. Len(Append(ch, f)) = Len(ch) + 1 /\ Len(ch) \in Nat
  OBVIOUS
<1>3. f.batch = c
  BY DEF AckFrame
<1> HIDE DEF f
<1>4. CASE i = Len(ch) + 1
  BY <1>1, <1>3, <1>4
<1>5. CASE i # Len(ch) + 1
  <2>1. i \in 1 .. Len(ch) /\ Append(ch, f)[i] = ch[i]
    BY <1>2, <1>5
  <2>2. QED
    BY <1>1, <2>1 DEF AckIn
<1>6. QED
  BY <1>4, <1>5

\* Reading a frame leaves only frames that were there.
LEMMA TailNoAck ==
    ASSUME NEW ch \in Seq(DownFrames), ch # <<>>, NEW b, AckIn(Tail(ch), b)
    PROVE  AckIn(ch, b)
<1>1. PICK i \in 1 .. Len(Tail(ch)) : Tail(ch)[i].t = "ack" /\ Tail(ch)[i].batch = b
  BY DEF AckIn
<1>2. i + 1 \in 1 .. Len(ch) /\ Tail(ch)[i] = ch[i + 1]
  BY <1>1
<1>3. QED
  BY <1>1, <1>2 DEF AckIn

\* Reading one row leaves no acknowledgement that was not there.
LEMMA AfterRowNoAck ==
    ASSUME NEW ch \in Seq(DownFrames), ch # <<>>, NEW b, AckIn(AfterRow(ch), b)
    PROVE  AckIn(ch, b)
<1> DEFINE f == RowsFrame(Head(ch).rows \ {FirstRow(Head(ch).rows)})
           rest == <<f>> \o Tail(ch)
<1>1. CASE AfterRow(ch) = Tail(ch)
  BY <1>1, TailNoAck
<1>2. CASE AfterRow(ch) = rest
  <2>1. PICK i \in 1 .. Len(rest) : rest[i].t = "ack" /\ rest[i].batch = b
    BY <1>2 DEF AckIn
  <2>2. f.t # "ack"
    BY DEF RowsFrame
  <2> HIDE DEF f
  <2>3. Tail(ch) \in Seq(DownFrames) /\ Len(Tail(ch)) = Len(ch) - 1 /\ Len(ch) \in Nat
    OBVIOUS
  <2>4. Len(rest) = Len(ch) /\ rest[1] = f
    BY <2>3
  <2>5. i # 1
    BY <2>1, <2>2, <2>4
  <2>6. rest[i] = Tail(ch)[i - 1] /\ i - 1 \in 1 .. Len(Tail(ch))
    BY <2>1, <2>3, <2>4, <2>5
  <2>7. AckIn(Tail(ch), b)
    BY <2>1, <2>6 DEF AckIn
  <2>8. QED
    BY <2>7, TailNoAck
<1>3. QED
  BY <1>1, <1>2 DEF AfterRow

-----------------------------------------------------------------------------
(* The room.                                                               *)

\* Appending loses no row, and the batch is numbered afterwards, old or new.
LEMMA AppendLogs ==
    ASSUME RoomTypeOK, NEW b \in Batches, appendRow(b)
    PROVE  LogGrows /\ b \in Range(log')
<1>1. log \in Seq(Batches) /\ Len(log) \in Nat /\ floor \in Nat
  BY DEF RoomTypeOK
<1>2. CASE Matches(b) = {}
  <2>1. log' = Append(log, b)
    BY <1>2 DEF appendRow
  <2>2. /\ \A s \in 1 .. Len(log) : log'[s] = log[s] /\ s \in DOMAIN log'
        /\ Len(log) + 1 \in DOMAIN log' /\ log'[Len(log) + 1] = b
    BY <1>1, <2>1
  <2>3. DOMAIN log = 1 .. Len(log)
    BY <1>1
  <2>4. QED
    BY <2>2, <2>3 DEF LogGrows, Range
<1>3. CASE Matches(b) # {}
  <2>1. log' = log
    BY <1>3 DEF appendRow
  <2>2. PICK s \in Matches(b) : TRUE
    BY <1>3
  <2>3. s \in DOMAIN log /\ log[s] = b
    BY <1>1, <2>2 DEF Matches, LiveSeqs, headSeq
  <2>4. QED
    BY <2>1, <2>3 DEF LogGrows, Range
<1>4. QED
  BY <1>2, <1>3

\* The relay sends rows only.
LEMMA RelayNoAck ==
    ASSUME RoomTypeOK, NEW b \in Batches, NEW sender, NEW e \in Devices, NEW c,
           AckIn(Relay(b, sender)[e], c)
    PROVE  AckIn(down[e], c)
<1> DEFINE f == RowsFrame({[seq |-> headSeq + 1, batch |-> b]})
<1>1. {[seq |-> headSeq + 1, batch |-> b]} \in SUBSET Row
  BY DEF RoomTypeOK, headSeq, Row
<1>2. f \in DownFrames /\ f.t # "ack"
  BY <1>1, DownFrameTypes DEF RowsFrame
<1>3. Relay(b, sender)[e] = down[e] \/ Relay(b, sender)[e] = Append(down[e], f)
  BY DEF Relay
<1>4. down[e] \in Seq(DownFrames)
  BY DEF RoomTypeOK
<1> HIDE DEF f
<1>5. QED
  BY <1>2, <1>3, <1>4, SendNoAck

\* A posted row is numbered and acknowledges nothing on a socket.
LEMMA PostRowHolds ==
    ASSUME RoomTypeOK, NEW b \in Batches, postRow(b)
    PROVE  LogGrows /\ AcksHold /\ b \in Range(log')
<1>1. appendRow(b) /\ down' = Relay(b, {})
  BY DEF postRow
<1>2. QED
  BY <1>1, AppendLogs, RelayNoAck DEF AcksHold

\* The room acknowledges a push only after numbering its batch.
LEMMA RoomStepHolds ==
    ASSUME RoomTypeOK, NEW d \in Devices, RoomStep(d)
    PROVE  LogGrows /\ AcksHold
<1>1. CASE handleHello(d)
  <2>1. logStats \in DownFrames /\ logStats.t # "ack"
    BY LogStatsType, DownFrameTypes DEF logStats
  <2>2. down' = [down EXCEPT ![d] = Append(@, logStats)] /\ UNCHANGED log
    BY <1>1 DEF handleHello
  <2>3. down[d] \in Seq(DownFrames) /\ down \in [Devices -> Seq(DownFrames)]
    BY DEF RoomTypeOK
  <2>4. AcksHold
    BY <2>1, <2>2, <2>3, SendNoAck DEF AcksHold
  <2>5. QED
    BY <2>2, <2>4, Untouched
<1>2. CASE handleRowsReq(d)
  <2> DEFINE req == Head(up[d])
             rows == rowsAfter(req.after, IF req.excludeOwn THEN {d} ELSE {})
             ch == SendRows(down[d], rows)
  <2>1. req \in UpFrames /\ req.t = "rowsReq"
    BY <1>2 DEF RoomTypeOK, handleRowsReq, UpHead
  <2>2. rows \in SUBSET Row
    BY <2>1, RowsReqHead, RowsAfterType
  <2>3. down[d] \in Seq(DownFrames) /\ down \in [Devices -> Seq(DownFrames)]
    BY DEF RoomTypeOK
  <2>4. ch \in Seq(DownFrames)
    BY <2>2, <2>3, SendRowsType
  <2>5. down' = [down EXCEPT ![d] = Append(ch, DoneFrame)] /\ UNCHANGED log
    BY <1>2 DEF handleRowsReq
  <2>6. \A b \in Batches : AckIn(ch, b) => AckIn(down[d], b)
    <3>1. CASE rows = {}
      BY <3>1 DEF SendRows
    <3>2. CASE rows # {}
      <4>1. RowsFrame(rows) \in DownFrames /\ RowsFrame(rows).t # "ack"
        BY <2>2, <3>2, DownFrameTypes DEF RowsFrame
      <4>2. ch = Append(down[d], RowsFrame(rows))
        BY <3>2 DEF SendRows
      <4> HIDE DEF ch, rows
      <4>3. QED
        BY <2>3, <4>1, <4>2, SendNoAck
    <3>3. QED
      BY <3>1, <3>2
  <2>7. DoneFrame \in DownFrames /\ DoneFrame.t # "ack"
    BY DownFrameTypes DEF DoneFrame
  <2> HIDE DEF ch
  <2>8. AcksHold
    BY <2>3, <2>4, <2>5, <2>6, <2>7, SendNoAck DEF AcksHold
  <2>9. QED
    BY <2>5, <2>8, Untouched
<1>3. CASE handlePush(d)
  <2> DEFINE b == First(Head(up[d]).batches)
             relay == Relay(b, {d})
  <2>1. b \in Batches
    BY <1>3, PushedBatch DEF handlePush
  <2>2. LogGrows /\ b \in Range(log')
    BY <1>3, <2>1, AppendLogs DEF handlePush
  <2>3. relay \in [Devices -> Seq(DownFrames)]
    BY <2>1, RelayType
  <2>4. down' = [relay EXCEPT ![d] = Append(@, AckFrame(b, AckSeq(b)))]
    BY <1>3 DEF handlePush
  <2>5. \A e \in Devices, c \in Batches : AckIn(relay[e], c) => AckIn(down[e], c)
    BY <2>1, RelayNoAck
  <2> HIDE DEF relay, b
  <2>6. AcksHold
    <3>1. \A c \in Batches : AckIn(down'[d], c) => AckIn(relay[d], c) \/ c = b
      BY <2>3, <2>4, SendAck
    <3>2. \A e \in Devices : e # d => down'[e] = relay[e]
      BY <2>3, <2>4
    <3>3. QED
      BY <2>2, <2>5, <3>1, <3>2 DEF AcksHold
  <2>7. QED
    BY <2>2, <2>6
<1>4. QED
  BY <1>1, <1>2, <1>3 DEF RoomStep

\* A refusal acknowledges nothing.
LEMMA RefusePushHolds ==
    ASSUME RoomTypeOK, NEW d \in Devices, refusePush(d)
    PROVE  LogGrows /\ AcksHold
<1> DEFINE f == QuotaFrame(First(Head(up[d]).batches))
<1>1. First(Head(up[d]).batches) \in Batches
  BY PushedBatch DEF refusePush
<1>2. f \in DownFrames /\ f.t # "ack"
  BY <1>1, DownFrameTypes DEF QuotaFrame
<1>3. down' = [down EXCEPT ![d] = Append(@, f)] /\ UNCHANGED log
  BY DEF refusePush
<1>4. down[d] \in Seq(DownFrames) /\ down \in [Devices -> Seq(DownFrames)]
  BY DEF RoomTypeOK
<1> HIDE DEF f
<1>5. AcksHold
  BY <1>2, <1>3, <1>4, SendNoAck DEF AcksHold
<1>6. QED
  BY <1>3, <1>5, Untouched

-----------------------------------------------------------------------------
(* The clients.                                                            *)

\* Starting an HTTPS cycle leaves no acknowledgement to read.
LEMMA SpawnHolds ==
    ASSUME NEW d, NEW h, NEW g, NEW S, SameAck(h, g)
    PROVE  SameAck(spawn_offline_sync(d, h, S), g)
<1>1. [IdleHttp EXCEPT !.step = "push", !.todo = S].step # "ack"
  BY DEF IdleHttp
<1>2. QED
  BY <1>1 DEF spawn_offline_sync, SameAck

\* Ending a session drops the acknowledgements that were under way.
LEMMA HangUpHolds ==
    ASSUME TypeOK, NEW d \in Devices, NEW sh, NEW h, SameAck(h, http[d]),
           HangUp(d, sh, h)
    PROVE  AcksHold /\ HttpHolds
<1>1. /\ http' = [http EXCEPT ![d] = spawn_offline_sync(d, h, sh.pending)]
      /\ down' = [down EXCEPT ![d] = <<>>]
  BY DEF HangUp
<1>2. SameAck(spawn_offline_sync(d, h, sh.pending), http[d])
  BY SpawnHolds
<1>3. \A e \in Devices : SameAck(http'[e], http[e])
  BY <1>1, <1>2 DEF SameAck, TypeOK, ClientTypeOK
<1>4. \A b : ~AckIn(<<>>, b)
  BY DEF AckIn
<1>5. QED
  BY <1>1, <1>3, <1>4 DEF AcksHold, HttpHolds, TypeOK, RoomTypeOK

\* Taking the next frame and repairing a gap acknowledge nothing new.
LEMMA RepairHolds ==
    ASSUME TypeOK, NEW d \in Devices, NEW sh, NEW act, NEW h, down[d] # <<>>,
           SameAck(h, http[d]), maybe_repair_gap(d, sh, act, h)
    PROVE  AcksHold /\ HttpHolds
<1> DEFINE rest == IF DownHead(d, "rows") THEN AfterRow(down[d]) ELSE Tail(down[d])
<1>1. down[d] \in Seq(DownFrames) /\ down \in [Devices -> Seq(DownFrames)]
  BY DEF TypeOK, RoomTypeOK
<1>2. \A b : AckIn(rest, b) => AckIn(down[d], b)
  BY <1>1, AfterRowNoAck, TailNoAck
<1>3. \/ /\ http' = [http EXCEPT ![d] = h]
         /\ down' = [down EXCEPT ![d] = rest]
      \/ HangUp(d, [sh EXCEPT !.gapRepair = @ /\ sh.needsCkpt], h)
  BY DEF maybe_repair_gap
<1> HIDE DEF rest
<1>4. CASE http' = [http EXCEPT ![d] = h] /\ down' = [down EXCEPT ![d] = rest]
  BY <1>1, <1>2, <1>4 DEF AcksHold, HttpHolds, SameAck, TypeOK, ClientTypeOK
<1>5. QED
  BY <1>3, <1>4, HangUpHolds

\* A write is journaled in the step that makes it.
LEMMA WriteHolds ==
    ASSUME JournalInv, NEW d \in Devices, NEW b \in Batches, enqueue_batch(d, b)
    PROVE  GoodStep
<1>1. /\ Author(b) = d
      /\ written' = written \cup {b}
      /\ outbox' = [outbox EXCEPT ![d] = @ \cup {b}]
      /\ UNCHANGED <<log, down, http, post>>
  BY DEF enqueue_batch, roomVars
<1>2. OutboxHolds
  BY <1>1 DEF OutboxHolds, JournalInv, TypeOK, ClientTypeOK
<1>3. QED
  BY <1>1, <1>2, Untouched DEF GoodStep

\* Dialling, sending and sampling a cursor touch none of the parts.
LEMMA QuietStepHolds ==
    ASSUME NEW d \in Devices,
           Dial(d) \/ push_pending(d) \/ push_head(d) \/ FetchCheckpoint(d) \/ FlushStep(d)
    PROVE  GoodStep
<1>1. UNCHANGED <<log, down, http, post, written, outbox>>
  BY DEF Dial, push_pending, push_head, FetchCheckpoint, FlushStep, FlushBegin,
         FlushCommit, apply_checkpoint, Import, roomVars, docVars, diskVars
<1>2. QED
  BY <1>1, Untouched DEF GoodStep

\* Reading the state frame.
LEMMA RecvStateHolds ==
    ASSUME JournalInv, NEW d \in Devices, RecvState(d)
    PROVE  GoodStep
<1>1. /\ down[d] # <<>> /\ down' = [down EXCEPT ![d] = Tail(@)]
      /\ UNCHANGED <<log, http, post, written, outbox>>
  BY DEF RecvState, DownHead, docVars
<1>2. down[d] \in Seq(DownFrames) /\ down \in [Devices -> Seq(DownFrames)]
  BY DEF JournalInv, TypeOK, RoomTypeOK
<1>3. AcksHold
  BY <1>1, <1>2, TailNoAck DEF AcksHold
<1>4. QED
  BY <1>1, <1>3, Untouched DEF GoodStep

\* Reading a row, a refusal or ROWS_DONE leaves the outbox alone.
LEMMA RecvOtherHolds ==
    ASSUME JournalInv, NEW d \in Devices, RecvRow(d) \/ RecvQuota(d) \/ RecvDone(d)
    PROVE  GoodStep
<1>1. down[d] # <<>>
  BY DEF RecvRow, RecvQuota, RecvDone, DownHead
<1>2. UNCHANGED <<log, post, written, outbox>>
  BY DEF RecvRow, RecvQuota, RecvDone, Import, docVars, diskVars
<1>3. PICK sh, act, h : SameAck(h, http[d]) /\ maybe_repair_gap(d, sh, act, h)
  <2>1. SameAck(http[d], http[d])
    BY DEF SameAck
  <2>2. \A g : LET k == [http[d] EXCEPT !.gap = g] IN SameAck(k, http[d])
    BY DEF SameAck, JournalInv, TypeOK, ClientTypeOK, Http
  <2>3. CASE RecvRow(d)
    BY <2>2, <2>3 DEF RecvRow
  <2>4. CASE RecvQuota(d)
    BY <2>1, <2>4 DEF RecvQuota
  <2>5. CASE RecvDone(d)
    BY <2>1, <2>5 DEF RecvDone
  <2>6. QED
    BY <2>3, <2>4, <2>5
<1>4. AcksHold /\ HttpHolds
  BY <1>1, <1>3, RepairHolds DEF JournalInv
<1>5. QED
  BY <1>2, <1>4, Untouched DEF GoodStep

\* An acknowledgement on the socket retires a batch the room has numbered.
LEMMA RecvAckHolds ==
    ASSUME JournalInv, NEW d \in Devices, RecvAck(d)
    PROVE  GoodStep
<1> DEFINE f == Head(down[d])
<1>1. /\ down[d] # <<>> /\ f.t = "ack"
      /\ outbox' = [outbox EXCEPT ![d] = @ \ {f.batch}]
      /\ UNCHANGED <<log, post, written>>
  BY DEF RecvAck, acknowledge_chat_update, DownHead, docVars
<1>2. PICK sh : maybe_repair_gap(d, sh, actor[d], http[d])
  BY DEF RecvAck
<1>3. SameAck(http[d], http[d])
  BY DEF SameAck
<1>4. AcksHold /\ HttpHolds
  BY <1>1, <1>2, <1>3, RepairHolds DEF JournalInv
<1>5. down[d] \in Seq(DownFrames)
  BY DEF JournalInv, TypeOK, RoomTypeOK
<1>6. f \in DownFrames /\ AckIn(down[d], f.batch)
  BY <1>1, <1>5 DEF AckIn
<1>7. f.batch \in Range(log)
  BY <1>1, <1>6, AckHead DEF JournalInv, AcksLogged
<1> HIDE DEF f
<1>8. OutboxHolds
  BY <1>1, <1>7 DEF OutboxHolds, JournalInv, TypeOK, ClientTypeOK
<1>9. QED
  BY <1>1, <1>4, <1>8, Untouched DEF GoodStep

\* Setting one device's HTTPS task to a value that waits for no new answer.
LEMMA HttpSet ==
    ASSUME TypeOK, NEW d \in Devices, NEW h, SameAck(h, http[d]),
           http' = [http EXCEPT ![d] = h]
    PROVE  HttpHolds
BY DEF HttpHolds, SameAck, TypeOK, ClientTypeOK

\* The HTTPS task waits for an answer only after the room has numbered its batch.
LEMMA HttpPushHolds ==
    ASSUME JournalInv, NEW d \in Devices, HttpPush(d)
    PROVE  GoodStep
<1> DEFINE b == First(http[d].todo)
<1>1. /\ http[d].todo # {} /\ postRow(b)
      /\ http' = [http EXCEPT ![d].step = "ack", ![d].ack = AckSeq(b)]
      /\ UNCHANGED <<post, written, outbox>>
  BY DEF HttpPush, docVars, diskVars
<1>2. http[d] \in Http /\ http[d].todo \in SUBSET Batches
  BY DEF JournalInv, TypeOK, ClientTypeOK, Http
<1>3. b \in Batches
  BY <1>1, <1>2, FirstIn
<1>4. LogGrows /\ AcksHold /\ b \in Range(log')
  BY <1>1, <1>3, PostRowHolds DEF JournalInv, TypeOK
<1>5. HttpHolds
  <2>1. http'[d].todo = http[d].todo /\ \A e \in Devices : e # d => http'[e] = http[e]
    BY <1>1, <1>2 DEF JournalInv, TypeOK, ClientTypeOK, Http
  <2>2. QED
    BY <1>4, <2>1 DEF HttpHolds, SameAck
<1>6. QED
  BY <1>1, <1>4, <1>5, Untouched DEF GoodStep

\* An HTTPS answer retires a batch the room has numbered.
LEMMA HttpAckHolds ==
    ASSUME JournalInv, NEW d \in Devices, HttpAck(d)
    PROVE  GoodStep
<1> DEFINE b == First(http[d].todo)
<1>1. /\ http[d].step = "ack"
      /\ outbox' = [outbox EXCEPT ![d] = @ \ {b}]
      /\ http' = [http EXCEPT ![d].step = "push", ![d].todo = @ \ {b}]
      /\ UNCHANGED <<log, down, post, written>>
  BY DEF HttpAck, acknowledge_chat_update, docVars, roomVars
<1>2. b \in Range(log)
  BY <1>1 DEF JournalInv, HttpAcksLogged
<1>3. http[d] \in Http
  BY DEF JournalInv, TypeOK, ClientTypeOK
<1> HIDE DEF b
<1>4. HttpHolds
  <2>1. http'[d].step = "push" /\ \A e \in Devices : e # d => http'[e] = http[e]
    BY <1>1, <1>3 DEF JournalInv, TypeOK, ClientTypeOK, Http
  <2>2. QED
    BY <2>1 DEF HttpHolds, SameAck
<1>5. OutboxHolds
  BY <1>1, <1>2 DEF OutboxHolds, JournalInv, TypeOK, ClientTypeOK
<1>6. QED
  BY <1>1, <1>4, <1>5, Untouched DEF GoodStep

\* The rest of the HTTPS task waits for no acknowledgement.
LEMMA HttpOtherHolds ==
    ASSUME JournalInv, NEW d \in Devices,
           HttpPull(d) \/ HttpState(d) \/ HttpFetch(d) \/ HttpRow(d) \/ HttpDone(d)
    PROVE  GoodStep
<1>1. UNCHANGED <<log, down, post, written, outbox>>
  BY DEF HttpPull, HttpState, HttpFetch, HttpRow, HttpDone, apply_checkpoint,
         Import, roomVars, docVars, diskVars
<1>2. http[d] \in Http /\ http \in [Devices -> Http]
  BY DEF JournalInv, TypeOK, ClientTypeOK
<1>3. IdleHttp.step # "ack"
  BY DEF IdleHttp
<1>4. http'[d].step # "ack" /\ \A e \in Devices : e # d => http'[e] = http[e]
  <2>1. CASE HttpPull(d)
    BY <1>2, <2>1 DEF HttpPull, Http
  <2>2. CASE HttpState(d)
    <3>1. \/ http' = [http EXCEPT ![d] = IdleHttp]
          \/ http' = [http EXCEPT ![d].step = "apply"]
          \/ http' = [http EXCEPT ![d].step = "fetch", ![d].gap = FALSE]
      BY <2>2 DEF HttpState
    <3>2. QED
      BY <1>2, <1>3, <3>1 DEF Http
  <2>3. CASE HttpFetch(d)
    BY <1>2, <2>3 DEF HttpFetch, Http
  <2>4. CASE HttpRow(d)
    <3>1. http[d].step = "apply"
      BY <2>4 DEF HttpRow
    <3>2. PICK R : http' = [http EXCEPT ![d].rows = R]
      BY <2>4 DEF HttpRow
    <3>3. QED
      BY <1>2, <3>1, <3>2 DEF Http
  <2>5. CASE HttpDone(d)
    BY <1>2, <1>3, <2>5 DEF HttpDone
  <2>6. QED
    BY <2>1, <2>2, <2>3, <2>4, <2>5
<1>5. HttpHolds
  BY <1>4 DEF HttpHolds, SameAck
<1>6. QED
  BY <1>1, <1>5, Untouched DEF GoodStep

\* Neither a lost request nor a lost socket retires anything.
LEMMA LossHolds ==
    ASSUME JournalInv, NEW d \in Devices, DialFails(d) \/ HttpFails(d) \/ Drop(d)
    PROVE  GoodStep
<1>1. UNCHANGED <<log, post, written, outbox>>
  BY DEF DialFails, HttpFails, Drop, docVars, diskVars
<1>2. http[d] \in Http /\ http \in [Devices -> Http]
  BY DEF JournalInv, TypeOK, ClientTypeOK
<1>3. SameAck(http[d], http[d])
  BY DEF SameAck
<1>4. CASE DialFails(d)
  <2>1. /\ UNCHANGED down
        /\ http' = [http EXCEPT ![d] = spawn_offline_sync(d, @, shared[d].pending)]
    BY <1>4 DEF DialFails
  <2>2. SameAck(spawn_offline_sync(d, http[d], shared[d].pending), http[d])
    BY <1>3, SpawnHolds
  <2>3. HttpHolds
    BY <2>1, <2>2, HttpSet DEF JournalInv
  <2>4. QED
    BY <1>1, <2>1, <2>3, Untouched DEF GoodStep
<1>5. CASE HttpFails(d)
  <2> DEFINE h == IF http[d].step \in {"push", "ack"}
                  THEN [http[d] EXCEPT !.step = "push", !.todo = {}] ELSE IdleHttp
  <2>1. UNCHANGED down /\ http' = [http EXCEPT ![d] = h]
    BY <1>5 DEF HttpFails
  <2>2. h.step # "ack"
    BY <1>2 DEF Http, IdleHttp
  <2> HIDE DEF h
  <2>3. SameAck(h, http[d])
    BY <2>2 DEF SameAck
  <2>4. HttpHolds
    BY <2>1, <2>3, HttpSet DEF JournalInv
  <2>5. QED
    BY <1>1, <2>1, <2>4, Untouched DEF GoodStep
<1>6. CASE Drop(d)
  <2>1. HangUp(d, shared[d], http[d])
    BY <1>6 DEF Drop
  <2>2. AcksHold /\ HttpHolds
    BY <1>3, <2>1, HangUpHolds DEF JournalInv
  <2>3. QED
    BY <1>1, <2>2, Untouched DEF GoodStep
<1>7. QED
  BY <1>4, <1>5, <1>6

\* A process that dies leaves its outbox, and loses every answer under way.
LEMMA CrashHolds ==
    ASSUME JournalInv, NEW d \in Devices, Crash(d)
    PROVE  GoodStep
<1>1. /\ http' = [http EXCEPT ![d] = spawn_offline_sync(d, IdleHttp, pending_updates(d))]
      /\ post' = [post EXCEPT ![d] = IdlePost]
      /\ down' = [down EXCEPT ![d] = <<>>]
      /\ UNCHANGED <<log, written, outbox>>
  BY DEF Crash
<1>2. AcksHold
  <2>1. \A b : ~AckIn(<<>>, b)
    BY DEF AckIn
  <2>2. QED
    BY <1>1, <2>1 DEF AcksHold, JournalInv, TypeOK, RoomTypeOK
<1>3. HttpHolds
  <2>1. SameAck(IdleHttp, http[d])
    BY DEF SameAck, IdleHttp
  <2>2. SameAck(spawn_offline_sync(d, IdleHttp, pending_updates(d)), http[d])
    BY <2>1, SpawnHolds
  <2>3. QED
    BY <1>1, <2>2, HttpSet DEF JournalInv
<1>4. ObligationsHold
  BY <1>1 DEF ObligationsHold, IdlePost, JournalInv, TypeOK, ClientTypeOK
<1>5. QED
  BY <1>1, <1>2, <1>3, <1>4, Untouched DEF GoodStep

\* An upload carries, and its success retires, only what no row can carry.
LEMMA CheckpointHolds ==
    ASSUME JournalInv, NEW d \in Devices, CheckpointStep(d) \/ CheckpointTimeout(d)
    PROVE  GoodStep
<1>1. UNCHANGED <<log, down, http, written>>
  BY DEF CheckpointStep, CheckpointBegin, CheckpointExport, CheckpointPost,
         CheckpointTimeout, roomVars, docVars
<1>2. post[d] \in Post /\ post \in [Devices -> Post] /\ outbox \in [Devices -> SUBSET Batches]
  BY DEF JournalInv, TypeOK, ClientTypeOK
<1>3. IdlePost.rej = {}
  BY DEF IdlePost
<1>4. ObligationsHold
  <2>1. CASE CheckpointBegin(d)
    <3> DEFINE p == [IdlePost EXCEPT !.step = "sampled", !.covered = shared[d].cursor]
    <3>1. p.rej = {}
      BY DEF IdlePost
    <3>2. post' = [post EXCEPT ![d] = p]
      BY <2>1 DEF CheckpointBegin
    <3> HIDE DEF p
    <3>3. QED
      BY <1>2, <3>1, <3>2 DEF ObligationsHold
  <2>2. CASE CheckpointExport(d)
    <3> DEFINE p == [post[d] EXCEPT !.step = "sent", !.content = doc[d],
                                    !.rej = rejected_chat_updates(d) \cap doc[d]]
    <3>1. p.rej \subseteq Oversize
      BY <1>2 DEF Post, rejected_chat_updates
    <3>2. post' = [post EXCEPT ![d] = p]
      BY <2>2 DEF CheckpointExport
    <3> HIDE DEF p
    <3>3. QED
      BY <1>2, <3>1, <3>2 DEF ObligationsHold
  <2>3. CASE CheckpointPost(d) \/ CheckpointTimeout(d)
    <3>1. post' = [post EXCEPT ![d] = IdlePost]
      BY <2>3 DEF CheckpointPost, CheckpointTimeout
    <3>2. QED
      BY <1>2, <1>3, <3>1 DEF ObligationsHold
  <2>4. QED
    BY <2>1, <2>2, <2>3 DEF CheckpointStep
<1>5. OutboxHolds
  <2>1. outbox' = outbox \/ outbox' = [outbox EXCEPT ![d] = @ \ post[d].rej]
    BY DEF CheckpointStep, CheckpointBegin, CheckpointExport, CheckpointPost, acknowledge_chat_update,
           CheckpointTimeout, diskVars
  <2>2. post[d].rej \subseteq Oversize
    BY DEF JournalInv, ObligationsOversize
  <2>3. \A b \in written \ Oversize : b \in outbox[Author(b)] => b \in outbox'[Author(b)]
    <3>1. \A b \in written : Author(b) \in Devices
      BY BatchesAssumption DEF JournalInv, TypeOK, ClientTypeOK, Author
    <3>2. \A e \in Devices : outbox[e] \ Oversize \subseteq outbox'[e]
      BY <1>2, <2>1, <2>2
    <3>3. QED
      BY <3>1, <3>2
  <2>4. QED
    BY <1>1, <2>3 DEF OutboxHolds
<1>6. QED
  BY <1>1, <1>4, <1>5, Untouched DEF GoodStep

-----------------------------------------------------------------------------
(* The theorem.                                                            *)

\* Nothing is written, acknowledged or uploaded initially.
LEMMA JournalInit == Init => JournalInv
<1> SUFFICES ASSUME Init PROVE JournalInv
  OBVIOUS
<1>1. TypeOK
  BY InitType
<1>2. AcksLogged
  BY DEF Init, RoomInit, AcksLogged, AckIn
<1>3. HttpAcksLogged
  <2>1. SameAck(IdleHttp, IdleHttp)
    BY DEF SameAck
  <2>2. \A d \in Devices : SameAck(spawn_offline_sync(d, IdleHttp, {}), IdleHttp)
    BY <2>1, SpawnHolds
  <2>3. QED
    BY <2>2 DEF Init, HttpAcksLogged, SameAck, IdleHttp
<1>4. ObligationsOversize /\ JournaledUntilLogged
  BY DEF Init, ObligationsOversize, IdlePost, JournaledUntilLogged
<1>5. QED
  BY <1>1, <1>2, <1>3, <1>4 DEF JournalInv

\* Every step is a good step.
LEMMA JournalNext == JournalInv /\ [Next]_vars => JournalInv'
<1> SUFFICES ASSUME JournalInv, [Next]_vars PROVE JournalInv'
  OBVIOUS
<1>1. TypeOK /\ RoomTypeOK /\ TypeOK'
  BY NextType DEF JournalInv, TypeOK
<1>2. ASSUME LogGrows, AcksHold, UNCHANGED clientVars PROVE GoodStep
  <2>1. UNCHANGED <<http, post, written, outbox>>
    BY <1>2 DEF clientVars, docVars, diskVars
  <2>2. QED
    BY <1>2, <2>1, Untouched DEF GoodStep
<1>3. ASSUME NEW d \in Devices, NEW b \in Batches, enqueue_batch(d, b) PROVE GoodStep
  BY <1>3, WriteHolds
<1>4. ASSUME NEW d \in Devices, RoomStep(d), UNCHANGED clientVars PROVE GoodStep
  BY <1>1, <1>2, <1>4, RoomStepHolds
<1>5. ASSUME NEW d \in Devices, SessionStep(d) PROVE GoodStep
  BY <1>5, QuietStepHolds, RecvStateHolds, RecvOtherHolds, RecvAckHolds DEF SessionStep
<1>6. ASSUME NEW d \in Devices, HttpStep(d) PROVE GoodStep
  BY <1>6, HttpPushHolds, HttpAckHolds, HttpOtherHolds DEF HttpStep
<1>7. ASSUME NEW d \in Devices, FlushStep(d) PROVE GoodStep
  BY <1>7, QuietStepHolds
<1>8. ASSUME NEW d \in Devices, CheckpointStep(d) PROVE GoodStep
  BY <1>8, CheckpointHolds
<1>9. ASSUME NEW d \in Devices, Fault(d) PROVE GoodStep
  <2>1. CASE refusePush(d) /\ UNCHANGED clientVars
    BY <1>1, <1>2, <2>1, RefusePushHolds
  <2>2. QED
    BY <1>9, <2>1, LossHolds, CrashHolds, CheckpointHolds DEF Fault
<1>10. ASSUME NEW b \in stray, handleStrayPush(b), UNCHANGED clientVars PROVE GoodStep
  <2>1. b \in Batches /\ postRow(b)
    BY <1>1, <1>10 DEF RoomTypeOK, handleStrayPush
  <2>2. QED
    BY <1>1, <1>2, <1>10, <2>1, PostRowHolds
<1>11. ASSUME NEW p \in late, handleLateCheckpoint(p), UNCHANGED clientVars PROVE GoodStep
  <2>1. UNCHANGED <<log, down>>
    BY <1>11 DEF handleLateCheckpoint
  <2>2. QED
    BY <1>2, <1>11, <2>1, Untouched
<1>12. ASSUME UNCHANGED vars PROVE GoodStep
  <2>1. UNCHANGED <<log, down, http, post, written, outbox>>
    BY <1>12 DEF vars, roomVars, clientVars, docVars, diskVars
  <2>2. QED
    BY <2>1, Untouched DEF GoodStep
<1>13. GoodStep
  BY <1>3, <1>4, <1>5, <1>6, <1>7, <1>8, <1>9, <1>10, <1>11, <1>12 DEF Next
<1>14. QED
  BY <1>1, <1>13, Preserved

\* The promise of the durable outbox (store.rs, chat_client.rs): an update that
\* a row can carry leaves its author's disk only after the room has numbered it,
\* for any number of devices, updates, drops, crashes, refusals and re-sends.
THEOREM JournalSafe == Spec => []JournaledUntilLogged
<1>1. JournalInv => JournaledUntilLogged
  BY DEF JournalInv
<1>2. QED
  BY <1>1, JournalInit, JournalNext, PTL DEF Spec
=============================================================================
