-------------------------- MODULE ChatCursorProofs --------------------------
(***************************************************************************)
(* The cursors of chat2, the transcript, and the session at rest.          *)
(*                                                                         *)
(* A device that has dialled may have adopted the number of a checkpoint   *)
(* it has not read yet (plan_catch_up). SoundInv says what it owes until   *)
(* it has: never more than the room's floor, and nothing once the session  *)
(* is in; so a device that stays up is honest whenever it receives. That   *)
(* makes the uploads of sessions that have caught up honest, which is the  *)
(* premise of the room's theorem; and every step is one of the shared      *)
(* transcript (OwnHeld). HeardInv says that a session has, or has asked    *)
(* for, or is being sent, or will ask for every live row of the others; so *)
(* a session at rest is complete.                                          *)
(***************************************************************************)
EXTENDS ChatRoomProofs

\* What a device made and the room has not numbered yet, the device holds.
OwnHeld == \A b \in written : b \in Range(log) \/ b \in Held(Author(b))

-----------------------------------------------------------------------------
(* The cursors of the devices whose process does not die.                  *)

\* S has what the numbers up to n promise, but for the numbers up to k.
Owes(S, k, n, lg) == n <= Len(lg) /\ \A s \in 1 .. n : s > k => lg[s] \in S

\* A state frame is about a checkpoint with every batch up to its number.
WholeState(st, lg) == Has(st.content, st.seq, lg) /\ (st.present \/ st.seq = 0)

\* A checkpoint, or a document on its way to become one, is causally closed.
Closed(S) == \A b \in S : deps[b] \subseteq S

Contents ==
    /\ ckpt.present \/ floor = 0
    /\ Closed(ckpt.content)
    /\ \A q \in late : Closed(q.content)
    /\ \A d \in Devices : Closed(post[d].content)

\* What device d owes when it may have started from a checkpoint it has not
\* read: never more than the room's floor, and nothing once the session is in.
Debts(D, a, sh, h, ch, n, lg) ==
    /\ Owes(D, n, sh.cursor, lg)
    /\ a.phase = "hello" => \A i \in 1 .. Len(ch) : ch[i].t = "state" =>
            WholeState(ch[i], lg) /\ Owes(D, ch[i].seq, sh.cursor, lg)
    /\ a.phase = "fetch" => Owes(D, a.target, sh.cursor, lg)
    /\ a.phase \in {"backfill", "live"} => Has(D, sh.cursor, lg)
    /\ h.step \in {"pull", "fetch"} => WholeState(h.st, lg) /\ Owes(D, h.st.seq, h.cur, lg)

SoundAt(d) ==
    /\ Owned(d) \subseteq doc[d]
    /\ actor[d].phase = "down" => up[d] = <<>> /\ down[d] = <<>> /\ ~ready[d]
    /\ flush[d] = -1 /\ disk[d] = [content |-> {}, cursor |-> 0]
    /\ Debts(doc[d], actor[d], shared[d], http[d], down[d], floor, log)

SoundInv == Contents /\ \A d \in Devices \ Crashers : SoundAt(d)

\* Every upload begins in a session that has caught up, of a process that stays up.
UploadsJoined == \A d \in Devices : CheckpointBegin(d) => d \notin Crashers /\ Receiving(d)

\* What is owed stays owed, or is paid, while everything grows.
LEMMA OwesMono ==
    ASSUME NEW lg \in Seq(Batches), NEW mg \in Seq(Batches), Extends(lg, mg),
           NEW S, NEW T, S \subseteq T, NEW k \in Nat, NEW l \in Nat, k <= l,
           NEW n \in Nat, Owes(S, k, n, lg)
    PROVE  Owes(T, l, n, mg)
<1>1. Len(lg) \in Nat /\ Len(mg) \in Nat /\ n <= Len(lg) /\ Len(lg) <= Len(mg)
  BY DEF Owes, Extends
<1>2. ASSUME NEW s \in 1 .. n, s > l PROVE mg[s] \in T
  <2>1. s > k /\ s \in 1 .. Len(lg)
    BY <1>1, <1>2
  <2>2. QED
    BY <2>1, <1>2 DEF Owes, Extends
<1>3. QED
  BY <1>1, <1>2 DEF Owes

\* A lower cursor promises less.
LEMMA OwesLess ==
    ASSUME NEW lg \in Seq(Batches), NEW S, NEW k \in Nat, NEW n \in Nat, NEW m \in Nat,
           m <= n, Owes(S, k, n, lg)
    PROVE  Owes(S, k, m, lg)
<1>1. Len(lg) \in Nat
  OBVIOUS
<1>2. QED
  BY <1>1 DEF Owes

\* A cursor that owes nothing owes nothing above any number.
LEMMA HasOwes ==
    ASSUME NEW lg, NEW S, NEW k, NEW n, Has(S, n, lg)
    PROVE  Owes(S, k, n, lg)
BY DEF Has, Owes

\* The debt is paid by whoever has the numbers up to k.
LEMMA PaidOff ==
    ASSUME NEW lg \in Seq(Batches), NEW S, NEW k \in Nat, NEW n \in Nat,
           Has(S, k, lg), Owes(S, k, n, lg)
    PROVE  Has(S, n, lg)
<1>1. Len(lg) \in Nat
  OBVIOUS
<1>2. QED
  BY <1>1 DEF Has, Owes

\* A debt below nothing is none.
LEMMA NoDebt ==
    ASSUME NEW lg \in Seq(Batches), NEW S, NEW n \in Nat, Owes(S, 0, n, lg)
    PROVE  Has(S, n, lg)
BY DEF Has, Owes

\* The cursor c moves to e, over nothing that E does not have.
Moved(E, c, e, mg) ==
    \/ Has(E, e, mg)
    \/ e <= c
    \/ e = c + 1 /\ e <= Len(mg) /\ mg[e] \in E

\* A move keeps what is owed.
LEMMA MovedOwes ==
    ASSUME NEW lg \in Seq(Batches), NEW mg \in Seq(Batches), Extends(lg, mg),
           NEW D, NEW E, D \subseteq E, NEW k \in Nat, NEW l \in Nat, k <= l,
           NEW c \in Nat, NEW e \in Nat, Moved(E, c, e, mg), Owes(D, k, c, lg)
    PROVE  Owes(E, l, e, mg)
<1>1. Owes(E, l, c, mg)
  BY OwesMono
<1>2. CASE Has(E, e, mg)
  BY <1>2, HasOwes
<1>3. CASE e <= c
  BY <1>1, <1>3, OwesLess
<1>4. CASE e = c + 1 /\ e <= Len(mg) /\ mg[e] \in E
  <2>1. \A s \in 1 .. e : s \in 1 .. c \/ s = e
    BY <1>4
  <2>2. QED
    BY <1>1, <1>4, <2>1 DEF Owes
<1>5. QED
  BY <1>2, <1>3, <1>4 DEF Moved

\* A move keeps a cursor that owes nothing.
LEMMA MovedHas ==
    ASSUME NEW lg \in Seq(Batches), NEW mg \in Seq(Batches), Extends(lg, mg),
           NEW D, NEW E, D \subseteq E, NEW c \in Nat, NEW e \in Nat,
           Moved(E, c, e, mg), Has(D, c, lg)
    PROVE  Has(E, e, mg)
<1>1. Owes(D, 0, c, lg)
  BY HasOwes
<1>2. Owes(E, 0, e, mg)
  BY <1>1, MovedOwes
<1>3. QED
  BY <1>2, NoDebt

\* The larger of two cursors, when the second owes nothing or is the next one.
LEMMA LargerMoves ==
    ASSUME NEW E, NEW c \in Nat, NEW n \in Nat, NEW mg,
           \/ Has(E, n, mg)
           \/ n <= c + 1 /\ n <= Len(mg) /\ mg[n] \in E
    PROVE  Moved(E, c, Larger(c, n), mg) /\ Larger(c, n) \in Nat
<1>1. CASE c >= n
  BY <1>1 DEF Moved, Larger
<1>2. CASE n > c
  <2>1. Larger(c, n) = n
    BY <1>2 DEF Larger
  <2>2. n <= c + 1 => n = c + 1
    BY <1>2
  <2>3. QED
    BY <2>1, <2>2 DEF Moved
<1>3. QED
  BY <1>1, <1>2

\* The state a frame describes stays described.
LEMMA WholeMono ==
    ASSUME NEW lg \in Seq(Batches), NEW mg \in Seq(Batches), Extends(lg, mg),
           NEW st \in State, WholeState(st, lg)
    PROVE  WholeState(st, mg)
<1>1. st.seq \in Nat
  BY DEF State
<1>2. QED
  BY <1>1, HasMono DEF WholeState

\* What a step has to show of the channel, the session and the HTTPS task of a
\* device for its debts to stay within bounds.
SameDebts(a, b, ch, ci, h, g, m, mg) ==
    /\ b.phase = "hello" => \A i \in 1 .. Len(ci) : ci[i].t = "state" =>
          \/ a.phase = "hello" /\ \E j \in 1 .. Len(ch) : ci[i] = ch[j]
          \/ ci[i].seq = m /\ WholeState(ci[i], mg)
    /\ b.phase = "fetch" => a.phase = "fetch" /\ b.target = a.target
    /\ b.phase \in {"backfill", "live"} => a.phase \in {"backfill", "live"}
    /\ g.step \in {"pull", "fetch"} => h.step \in {"pull", "fetch"} /\ g.st = h.st /\ g.cur = h.cur

\* A device owes no more when its document and its cursor only grow and no frame
\* about a checkpoint is new.
LEMMA DebtsKept ==
    ASSUME NEW lg \in Seq(Batches), NEW mg \in Seq(Batches), Extends(lg, mg),
           NEW n \in Nat, NEW m \in Nat, n <= m, NEW D, NEW E, D \subseteq E,
           NEW a \in Actor, NEW b, NEW sh \in Shared, NEW si \in Shared,
           NEW h \in Http, NEW g, NEW ch \in Seq(DownFrames), NEW ci \in Seq(DownFrames),
           Debts(D, a, sh, h, ch, n, lg), Moved(E, sh.cursor, si.cursor, mg),
           SameDebts(a, b, ch, ci, h, g, m, mg)
    PROVE  Debts(E, b, si, g, ci, m, mg)
<1>1. /\ sh.cursor \in Nat /\ si.cursor \in Nat /\ a.target \in Nat
      /\ h.st \in State /\ h.st.seq \in Nat /\ h.cur \in Nat
  BY DEF Shared, Actor, Http, State
<1>2. Owes(E, m, si.cursor, mg)
  BY <1>1, MovedOwes DEF Debts
<1>3. ASSUME b.phase = "hello", NEW i \in 1 .. Len(ci), ci[i].t = "state"
      PROVE  WholeState(ci[i], mg) /\ Owes(E, ci[i].seq, si.cursor, mg)
  <2>1. CASE ci[i].seq = m /\ WholeState(ci[i], mg)
    BY <1>2, <2>1
  <2>2. ASSUME a.phase = "hello", NEW j \in 1 .. Len(ch), ci[i] = ch[j]
        PROVE  WholeState(ci[i], mg) /\ Owes(E, ci[i].seq, si.cursor, mg)
    <3>1. ch[j] \in DownFrames /\ ch[j].t = "state"
      BY <1>3, <2>2
    <3>2. ch[j] \in State /\ ch[j].seq \in Nat
      BY <3>1, StateHead DEF State
    <3>3. WholeState(ch[j], lg) /\ Owes(D, ch[j].seq, sh.cursor, lg)
      BY <2>2, <3>1 DEF Debts
    <3>4. WholeState(ch[j], mg)
      BY <3>2, <3>3, WholeMono
    <3>5. Owes(E, ch[j].seq, si.cursor, mg)
      <4> DEFINE k == ch[j].seq
      <4>1. k \in Nat /\ k <= k /\ Owes(D, k, sh.cursor, lg)
        BY <3>2, <3>3
      <4> HIDE DEF k
      <4>2. Owes(E, k, si.cursor, mg)
        BY <1>1, <4>1, MovedOwes
      <4>3. QED
        BY <4>2 DEF k
    <3>6. QED
      BY <2>2, <3>4, <3>5
  <2>3. QED
    BY <1>3, <2>1, <2>2 DEF SameDebts
<1>4. b.phase = "fetch" => Owes(E, b.target, si.cursor, mg)
  <2>1. SUFFICES ASSUME b.phase = "fetch" PROVE Owes(E, b.target, si.cursor, mg)
    OBVIOUS
  <2>2. a.phase = "fetch" /\ b.target = a.target
    BY <2>1 DEF SameDebts
  <2>3. Owes(D, a.target, sh.cursor, lg)
    BY <2>2 DEF Debts
  <2>4. Owes(E, a.target, si.cursor, mg)
    BY <1>1, <2>3, MovedOwes
  <2>5. QED
    BY <2>2, <2>4
<1>5. b.phase \in {"backfill", "live"} => Has(E, si.cursor, mg)
  <2>1. SUFFICES ASSUME b.phase \in {"backfill", "live"} PROVE Has(E, si.cursor, mg)
    OBVIOUS
  <2>2. Has(D, sh.cursor, lg)
    BY <2>1 DEF SameDebts, Debts
  <2>3. QED
    BY <1>1, <2>2, MovedHas
<1>6. g.step \in {"pull", "fetch"} => WholeState(g.st, mg) /\ Owes(E, g.st.seq, g.cur, mg)
  <2>1. SUFFICES ASSUME g.step \in {"pull", "fetch"}
                 PROVE  WholeState(g.st, mg) /\ Owes(E, g.st.seq, g.cur, mg)
    OBVIOUS
  <2>2. g.st = h.st /\ g.cur = h.cur /\ h.step \in {"pull", "fetch"}
    BY <2>1 DEF SameDebts
  <2>3. WholeState(h.st, lg) /\ Owes(D, h.st.seq, h.cur, lg)
    BY <2>2 DEF Debts
  <2>4. WholeState(h.st, mg) /\ Owes(E, h.st.seq, h.cur, mg)
    BY <1>1, <2>3, WholeMono, OwesMono
  <2>5. QED
    BY <2>2, <2>4
<1>7. QED
  BY <1>2, <1>3, <1>4, <1>5, <1>6 DEF Debts

-----------------------------------------------------------------------------
(* The room, seen by a device that does not die.                           *)

\* A step keeps a device sound if it moves its cursor over what its document
\* has, and changes its session and its HTTPS task only as SameDebts allows.
LEMMA SoundKept ==
    ASSUME RoadsInv, TypeOK', Grows, NEW d \in Devices, SoundAt(d),
           doc[d] \subseteq doc'[d], Owned(d)' \subseteq doc'[d],
           flush'[d] = flush[d], disk'[d] = disk[d],
           actor'[d].phase = "down" => up'[d] = <<>> /\ down'[d] = <<>> /\ ~ready'[d],
           Moved(doc'[d], shared[d].cursor, shared'[d].cursor, log'),
           SameDebts(actor[d], actor'[d], down[d], down'[d], http[d], http'[d], floor', log')
    PROVE  SoundAt(d)'
<1>1. /\ log \in Seq(Batches) /\ log' \in Seq(Batches) /\ Extends(log, log')
      /\ floor \in Nat /\ floor' \in Nat /\ floor <= floor'
  BY LogTyped, GrowTypes
<1>2. /\ actor[d] \in Actor /\ shared[d] \in Shared /\ shared'[d] \in Shared
      /\ http[d] \in Http /\ down[d] \in Seq(DownFrames) /\ down'[d] \in Seq(DownFrames)
  BY LogTyped, Entries DEF TypeOK, RoomTypeOK, ClientTypeOK
<1>3. Debts(doc'[d], actor'[d], shared'[d], http'[d], down'[d], floor', log')
  BY <1>1, <1>2, DebtsKept DEF SoundAt
<1>4. QED
  BY <1>3 DEF SoundAt

\* What the room does to a channel: a socket that is not there stays empty, and
\* a new state frame is the room's state of this moment.
Told(d) ==
    /\ (up[d] = <<>> /\ down[d] = <<>> /\ ~ready[d])
          => (up'[d] = <<>> /\ down'[d] = <<>> /\ ~ready'[d])
    /\ \A i \in 1 .. Len(down'[d]) : down'[d][i].t = "state" =>
          \/ \E j \in 1 .. Len(down[d]) : down'[d][i] = down[d][j]
          \/ down'[d][i].seq = floor' /\ WholeState(down'[d][i], log')

\* A device the room talks to, and whose own state stays, remains sound.
LEMMA ToldSound ==
    ASSUME RoadsInv, TypeOK', Grows, NEW d \in Devices, SoundAt(d), Told(d),
           Owned(d)' = Owned(d), doc'[d] = doc[d], flush'[d] = flush[d], disk'[d] = disk[d],
           actor'[d].phase = actor[d].phase, actor'[d].target = actor[d].target,
           shared'[d].cursor = shared[d].cursor,
           http'[d].step \in {"pull", "fetch"} =>
              /\ http[d].step \in {"pull", "fetch"}
              /\ http'[d].st = http[d].st /\ http'[d].cur = http[d].cur
    PROVE  SoundAt(d)'
<1>1. Owned(d)' \subseteq doc'[d]
  BY DEF SoundAt
<1>2. actor'[d].phase = "down" => up'[d] = <<>> /\ down'[d] = <<>> /\ ~ready'[d]
  BY DEF SoundAt, Told
<1>3. Moved(doc'[d], shared[d].cursor, shared'[d].cursor, log')
  <2>1. shared[d].cursor \in Nat
    BY LogTyped, Entries DEF Shared
  <2>2. QED
    BY <2>1 DEF Moved
<1>4. SameDebts(actor[d], actor'[d], down[d], down'[d], http[d], http'[d], floor', log')
  BY DEF SameDebts, Told
<1>5. QED
  BY <1>1, <1>2, <1>3, <1>4, SoundKept

\* A channel the step leaves alone.
LEMMA Unheard ==
    ASSUME NEW d, UNCHANGED <<up, down, ready>>
    PROVE  Told(d)
BY DEF Told

\* The state the room announces is that of a whole checkpoint.
LEMMA StatsWhole ==
    ASSUME RoadsInv, Contents
    PROVE  logStats.seq = floor /\ WholeState(logStats, log)
BY DEF RoadsInv, Roads, CheckpointsWhole, Contents, logStats, WholeState

\* Sending a frame that is no state, or the room's state.
LEMMA SendTold ==
    ASSUME NEW ch \in Seq(DownFrames), NEW f \in DownFrames, NEW m, NEW mg,
           f.t = "state" => f.seq = m /\ WholeState(f, mg), NEW ci \in Seq(DownFrames),
           \A i \in 1 .. Len(ci) : ci[i].t = "state" =>
              \/ \E j \in 1 .. Len(ch) : ci[i] = ch[j]
              \/ ci[i].seq = m /\ WholeState(ci[i], mg)
    PROVE  \A i \in 1 .. Len(Append(ci, f)) : Append(ci, f)[i].t = "state" =>
              \/ \E j \in 1 .. Len(ch) : Append(ci, f)[i] = ch[j]
              \/ Append(ci, f)[i].seq = m /\ WholeState(Append(ci, f)[i], mg)
<1>1. Len(Append(ci, f)) = Len(ci) + 1 /\ Len(ci) \in Nat
  OBVIOUS
<1>2. ASSUME NEW i \in 1 .. Len(Append(ci, f)), Append(ci, f)[i].t = "state"
      PROVE  \/ \E j \in 1 .. Len(ch) : Append(ci, f)[i] = ch[j]
             \/ Append(ci, f)[i].seq = m /\ WholeState(Append(ci, f)[i], mg)
  <2>1. CASE i = Len(ci) + 1
    <3>1. Append(ci, f)[i] = f
      BY <2>1
    <3>2. QED
      BY <1>2, <3>1
  <2>2. CASE i # Len(ci) + 1
    <3>1. i \in 1 .. Len(ci) /\ Append(ci, f)[i] = ci[i]
      BY <1>1, <1>2, <2>2
    <3>2. QED
      BY <1>2, <3>1
  <2>3. QED
    BY <2>1, <2>2
<1>3. QED
  BY <1>2

\* A hello is answered with the room's state.
LEMMA HelloTold ==
    ASSUME RoadsInv, Contents, NEW e \in Devices, handleHello(e), NEW d \in Devices
    PROVE  Told(d)
<1>1. /\ up[e] # <<>>
      /\ up' = [up EXCEPT ![e] = Tail(@)]
      /\ ready' = [ready EXCEPT ![e] = TRUE]
      /\ down' = [down EXCEPT ![e] = Append(@, logStats)]
      /\ UNCHANGED <<log, floor, ckpt>>
  BY DEF handleHello, UpHead
<1>2. /\ up \in [Devices -> Seq(UpFrames)] /\ down \in [Devices -> Seq(DownFrames)]
      /\ ready \in [Devices -> BOOLEAN]
  BY LogTyped DEF RoomTypeOK
<1>3. CASE d # e
  BY <1>1, <1>2, <1>3 DEF Told
<1>4. CASE d = e
  <2>1. logStats \in DownFrames
    BY LogTyped, LogStatsType, DownFrameTypes
  <2>2. logStats.seq = floor' /\ WholeState(logStats, log')
    BY <1>1, StatsWhole
  <2>3. down'[d] = Append(down[d], logStats) /\ up[d] # <<>> /\ down[d] \in Seq(DownFrames)
    BY <1>1, <1>2, <1>4
  <2>4. \A i \in 1 .. Len(down'[d]) : down'[d][i].t = "state" =>
          \/ \E j \in 1 .. Len(down[d]) : down'[d][i] = down[d][j]
          \/ down'[d][i].seq = floor' /\ WholeState(down'[d][i], log')
    BY <2>1, <2>2, <2>3, SendTold
  <2>5. QED
    BY <2>3, <2>4 DEF Told
<1>5. QED
  BY <1>3, <1>4

\* A frame that is no state is sent to a device that talks to the room.
LEMMA SentTold ==
    ASSUME RoomTypeOK, NEW d \in Devices, up[d] # <<>> \/ ready[d],
           NEW f \in DownFrames, f.t # "state",
           down'[d] = down[d] \/ down'[d] = Append(down[d], f)
    PROVE  Told(d)
<1>1. down[d] \in Seq(DownFrames)
  BY DEF RoomTypeOK
<1>2. CASE down'[d] = Append(down[d], f)
  <2>1. \A i \in 1 .. Len(down'[d]) : down'[d][i].t = "state" =>
          \/ \E j \in 1 .. Len(down[d]) : down'[d][i] = down[d][j]
          \/ down'[d][i].seq = floor' /\ WholeState(down'[d][i], log')
    BY <1>1, <1>2, SendTold
  <2>2. QED
    BY <2>1 DEF Told
<1>3. CASE down'[d] = down[d]
  BY <1>3 DEF Told
<1>4. QED
  BY <1>2, <1>3

\* The rows asked for, and ROWS_DONE.
LEMMA RowsReqTold ==
    ASSUME RoadsInv, NEW e \in Devices, handleRowsReq(e), NEW d \in Devices
    PROVE  Told(d)
<1> DEFINE req == Head(up[e])
           rows == rowsAfter(req.after, IF req.excludeOwn THEN {e} ELSE {})
           ch == SendRows(down[e], rows)
<1>1. /\ up[e] # <<>> /\ Head(up[e]).t = "rowsReq"
      /\ up' = [up EXCEPT ![e] = Tail(up[e])]
      /\ down' = [down EXCEPT ![e] = Append(ch, DoneFrame)]
      /\ UNCHANGED <<ready, log, floor>>
  BY DEF handleRowsReq, UpHead
<1>2. /\ up \in [Devices -> Seq(UpFrames)] /\ down \in [Devices -> Seq(DownFrames)]
      /\ RoomTypeOK
  BY LogTyped DEF RoomTypeOK
<1>3. CASE d # e
  BY <1>1, <1>2, <1>3 DEF Told
<1>4. CASE d = e
  <2>1. rows \in SUBSET Row
    <3>1. req \in UpFrames
      BY <1>1, <1>2
    <3>2. req.after \in Nat /\ req.excludeOwn \in BOOLEAN
      BY <1>1, <3>1, RowsReqHead
    <3>3. QED
      BY <1>2, <3>2, RowsAfterType
  <2> HIDE DEF rows
  <2>2. ch = down[e] \/ (RowsFrame(rows) \in DownFrames /\ ch = Append(down[e], RowsFrame(rows)))
    BY <2>1, DownFrameTypes DEF SendRows
  <2>3. ch \in Seq(DownFrames) /\ \A i \in 1 .. Len(ch) : ch[i].t = "state" =>
          \/ \E j \in 1 .. Len(down[d]) : ch[i] = down[d][j]
          \/ ch[i].seq = floor' /\ WholeState(ch[i], log')
    <3>1. CASE ch = down[e]
      BY <1>2, <1>4, <3>1
    <3>2. CASE RowsFrame(rows) \in DownFrames /\ ch = Append(down[e], RowsFrame(rows))
      <4>1. RowsFrame(rows).t # "state"
        BY DEF RowsFrame
      <4>2. down[d] \in Seq(DownFrames)
        BY <1>2
      <4> DEFINE f == RowsFrame(rows)
      <4> HIDE DEF f, ch
      <4>3. QED
        BY <1>4, <3>2, <4>1, <4>2, SendTold, Sending DEF f
    <3>3. QED
      BY <2>2, <3>1, <3>2
  <2> HIDE DEF ch
  <2>4. DoneFrame \in DownFrames /\ DoneFrame.t # "state"
    BY DownFrameTypes DEF DoneFrame
  <2>5. down'[d] = Append(ch, DoneFrame) /\ up[d] # <<>> /\ down[d] \in Seq(DownFrames)
    BY <1>1, <1>2, <1>4
  <2>6. \A i \in 1 .. Len(down'[d]) : down'[d][i].t = "state" =>
          \/ \E j \in 1 .. Len(down[d]) : down'[d][i] = down[d][j]
          \/ down'[d][i].seq = floor' /\ WholeState(down'[d][i], log')
    BY <2>3, <2>4, <2>5, SendTold
  <2>7. QED
    BY <2>5, <2>6 DEF Told
<1>5. QED
  BY <1>3, <1>4

\* The live relay reaches the sockets that said hello.
LEMMA RelayTold ==
    ASSUME RoomTypeOK, NEW b \in Batches, NEW sender, NEW d \in Devices,
           down'[d] = Relay(b, sender)[d], UNCHANGED ready, ready[d] \/ up'[d] = up[d]
    PROVE  Told(d)
<1> DEFINE r == [seq |-> headSeq + 1, batch |-> b]
           f == RowsFrame({r})
<1>1. r \in Row
  BY DEF RoomTypeOK, headSeq, Row
<1>2. f \in DownFrames /\ f.t # "state"
  BY <1>1, DownFrameTypes DEF RowsFrame
<1>3. \/ down'[d] = down[d]
      \/ ready[d] /\ down'[d] = Append(down[d], f)
  BY DEF Relay
<1> HIDE DEF f
<1>4. CASE ready[d]
  BY <1>2, <1>3, <1>4, SentTold
<1>5. CASE ~ready[d]
  BY <1>3, <1>5 DEF Told
<1>6. QED
  BY <1>4, <1>5

\* A push is acknowledged to its sender and relayed to the others.
LEMMA PushTold ==
    ASSUME RoadsInv, NEW e \in Devices, handlePush(e), NEW d \in Devices
    PROVE  Told(d)
<1> DEFINE b == First(Head(up[e]).batches)
           ack == AckFrame(b, AckSeq(b))
<1>1. /\ UpHead(e, "push") /\ appendRow(b) /\ TakePush(e)
      /\ down' = [Relay(b, {e}) EXCEPT ![e] = Append(@, ack)]
      /\ UNCHANGED ready
  BY DEF handlePush
<1>2. RoomTypeOK /\ up \in [Devices -> Seq(UpFrames)]
  BY LogTyped DEF RoomTypeOK
<1>3. b \in Batches
  BY <1>1, <1>2, PushedBatch
<1>4. AckSeq(b) \in Nat
  BY <1>1, <1>2, <1>3, AppendRowType
<1>5. ack \in DownFrames /\ ack.t # "state"
  BY <1>3, <1>4, DownFrameTypes DEF AckFrame
<1>6. up[e] # <<>> /\ \A c \in Devices \ {e} : up'[c] = up[c]
  BY <1>1, <1>2 DEF UpHead, TakePush
<1> HIDE DEF ack, b
<1>7. CASE d = e
  <2>1. Relay(b, {e})[e] = down[e]
    BY DEF Relay
  <2>2. down'[d] = Append(down[d], ack)
    BY <1>1, <1>7, <2>1 DEF Relay
  <2>3. QED
    BY <1>2, <1>5, <1>6, <1>7, <2>2, SentTold
<1>8. CASE d # e
  <2>1. down'[d] = Relay(b, {e})[d]
    BY <1>1, <1>8 DEF Relay
  <2>2. QED
    BY <1>1, <1>2, <1>3, <1>6, <1>8, <2>1, RelayTold
<1>9. QED
  BY <1>7, <1>8

\* A refused push.
LEMMA RefuseTold ==
    ASSUME RoadsInv, NEW e \in Devices, refusePush(e), NEW d \in Devices
    PROVE  Told(d)
<1> DEFINE f == QuotaFrame(First(Head(up[e]).batches))
<1>1. /\ UpHead(e, "push") /\ TakePush(e) /\ down' = [down EXCEPT ![e] = Append(@, f)]
      /\ UNCHANGED ready
  BY DEF refusePush
<1>2. RoomTypeOK /\ up \in [Devices -> Seq(UpFrames)] /\ down \in [Devices -> Seq(DownFrames)]
  BY LogTyped DEF RoomTypeOK
<1>3. First(Head(up[e]).batches) \in Batches
  BY <1>1, <1>2, PushedBatch
<1>4. f \in DownFrames /\ f.t # "state"
  BY <1>3, DownFrameTypes DEF QuotaFrame
<1>5. up[e] # <<>> /\ \A c \in Devices \ {e} : up'[c] = up[c]
  BY <1>1, <1>2 DEF UpHead, TakePush
<1> HIDE DEF f
<1>6. CASE d = e
  BY <1>1, <1>2, <1>4, <1>5, <1>6, SentTold
<1>7. CASE d # e
  BY <1>1, <1>2, <1>5, <1>7 DEF Told
<1>8. QED
  BY <1>6, <1>7

\* A batch that arrives over HTTPS is relayed to every ready socket.
LEMMA PostTold ==
    ASSUME RoadsInv, NEW b \in Batches, postRow(b), NEW d \in Devices
    PROVE  Told(d)
BY LogTyped, RelayTold DEF postRow

-----------------------------------------------------------------------------
(* The contents of checkpoints.                                            *)

\* A step that commits and uploads nothing.
LEMMA ContentsKept ==
    ASSUME Contents, UNCHANGED <<floor, ckpt, deps, post>>, late' \subseteq late
    PROVE  Contents'
BY DEF Contents, Closed

\* A local write gives dependencies to a batch no checkpoint contains yet.
LEMMA ContentsWrite ==
    ASSUME RoadsInv, Contents, NEW d \in Devices, NEW b \in Batches, enqueue_batch(d, b)
    PROVE  Contents'
<1>1. /\ b \notin written /\ deps' = [deps EXCEPT ![b] = doc[d]]
      /\ UNCHANGED <<floor, ckpt, late, post>>
  BY DEF enqueue_batch, roomVars
<1>2. \A c \in written : c \in Batches /\ c # b
  BY <1>1, LogTyped DEF TypeOK, ClientTypeOK
<1>3. \A c \in written : deps'[c] = deps[c]
  BY <1>1, <1>2, LogTyped DEF TypeOK, ClientTypeOK
<1>4. /\ ckpt.content \subseteq written /\ \A q \in late : q.content \subseteq written
      /\ \A e \in Devices : post[e].content \subseteq written
  BY LogTyped, EntryTrue DEF Roads, CheckpointsWhole, PostIn
<1>5. \A S : S \subseteq written /\ Closed(S) => Closed(S)'
  <2>1. SUFFICES ASSUME NEW S, S \subseteq written, Closed(S) PROVE \A c \in S : deps'[c] \subseteq S
    BY DEF Closed
  <2>2. QED
    BY <1>3, <2>1 DEF Closed
<1>6. Closed(ckpt.content)' /\ (\A q \in late : Closed(q.content)') /\ \A e \in Devices : Closed(post[e].content)'
  <2>1. Closed(ckpt.content) /\ (\A q \in late : Closed(q.content)) /\ \A e \in Devices : Closed(post[e].content)
    BY DEF Contents
  <2>2. QED
    BY <1>1, <1>3, <1>4, <2>1 DEF Closed
<1>7. QED
  BY <1>1, <1>6 DEF Contents

\* Uploads carry documents, and documents are closed.
LEMMA ContentsPosts ==
    ASSUME RoadsInv, Contents, NEW d \in Devices, CheckpointStep(d) \/ CheckpointTimeout(d)
    PROVE  Contents'
<1>1. /\ TypeOK /\ post \in [Devices -> Post] /\ UNCHANGED deps
      /\ Closed(doc[d]) /\ Closed(post[d].content) /\ Closed({})
  <2>1. UNCHANGED deps
    BY DEF CheckpointStep, CheckpointBegin, CheckpointExport, CheckpointPost, CheckpointTimeout, docVars
  <2>2. QED
    BY <2>1, LogTyped DEF TypeOK, ClientTypeOK, Roads, DocsClosed, Closed, Contents
<1>2. CASE CheckpointBegin(d)
  <2> DEFINE p == [IdlePost EXCEPT !.step = "sampled", !.covered = shared[d].cursor]
  <2>1. post' = [post EXCEPT ![d] = p] /\ UNCHANGED <<floor, ckpt, late>>
    BY <1>2 DEF CheckpointBegin, roomVars
  <2>2. p.content = {}
    BY DEF IdlePost
  <2> HIDE DEF p
  <2>3. QED
    BY <1>1, <2>1, <2>2 DEF Contents, Closed
<1>3. CASE CheckpointExport(d)
  <2> DEFINE p == [post[d] EXCEPT !.step = "sent", !.content = doc[d],
                                  !.rej = rejected_chat_updates(d) \cap doc[d]]
  <2>1. post' = [post EXCEPT ![d] = p] /\ UNCHANGED <<floor, ckpt, late>>
    BY <1>3 DEF CheckpointExport, roomVars
  <2>2. p.content = doc[d]
    BY <1>1 DEF Post
  <2> HIDE DEF p
  <2>3. QED
    BY <1>1, <2>1, <2>2 DEF Contents, Closed
<1>4. CASE CheckpointPost(d)
  <2>1. /\ post' = [post EXCEPT ![d] = IdlePost] /\ UNCHANGED late
        /\ \/ commitCheckpoint(post[d].covered, post[d].content)
           \/ UNCHANGED <<floor, ckpt>>
    BY <1>4 DEF CheckpointPost
  <2>2. IdlePost.content = {}
    BY DEF IdlePost
  <2>3. Closed(ckpt.content)' /\ (ckpt'.present \/ floor' = 0)
    BY <1>1, <2>1 DEF commitCheckpoint, Contents, Closed
  <2>4. QED
    BY <1>1, <2>1, <2>2, <2>3 DEF Contents, Closed
<1>5. CASE CheckpointTimeout(d)
  <2> DEFINE q == [covered |-> post[d].covered, content |-> post[d].content]
  <2>1. post' = [post EXCEPT ![d] = IdlePost] /\ late' = late \cup {q} /\ UNCHANGED <<floor, ckpt>>
    BY <1>5 DEF CheckpointTimeout
  <2>2. IdlePost.content = {} /\ q.content = post[d].content
    BY DEF IdlePost
  <2> HIDE DEF q
  <2>3. QED
    BY <1>1, <2>1, <2>2 DEF Contents, Closed
<1>6. QED
  BY <1>2, <1>3, <1>4, <1>5 DEF CheckpointStep

\* A late upload is committed as it was sent.
LEMMA ContentsLate ==
    ASSUME Contents, NEW p \in late, handleLateCheckpoint(p), UNCHANGED clientVars
    PROVE  Contents'
<1>1. /\ late' \subseteq late /\ UNCHANGED <<deps, post>>
      /\ \/ commitCheckpoint(p.covered, p.content)
         \/ UNCHANGED <<floor, ckpt>>
  BY DEF handleLateCheckpoint, clientVars, docVars
<1>2. Closed(ckpt.content)' /\ (ckpt'.present \/ floor' = 0)
  BY <1>1 DEF commitCheckpoint, Contents, Closed
<1>3. QED
  BY <1>1, <1>2 DEF Contents, Closed

\* A restart forgets the upload in progress.
LEMMA ContentsCrash ==
    ASSUME RoadsInv, Contents, NEW d \in Devices, Crash(d)
    PROVE  Contents'
<1>1. post' = [post EXCEPT ![d] = IdlePost] /\ UNCHANGED <<floor, ckpt, late, deps>>
  BY DEF Crash
<1>2. IdlePost.content = {} /\ post \in [Devices -> Post]
  BY LogTyped DEF IdlePost, TypeOK, ClientTypeOK
<1>3. QED
  BY <1>1, <1>2 DEF Contents, Closed

\* Every step keeps the checkpoints closed.
LEMMA ContentsNext ==
    ASSUME RoadsInv, Contents, Next
    PROVE  Contents'
<1>1. ASSUME NEW d \in Devices, NEW b \in Batches, enqueue_batch(d, b) PROVE Contents'
  BY <1>1, ContentsWrite
<1>2. ASSUME NEW d \in Devices, RoomStep(d) \/ refusePush(d), UNCHANGED clientVars PROVE Contents'
  <2>1. UNCHANGED <<floor, ckpt, late, deps, post>>
    BY <1>2 DEF RoomStep, handleHello, handleRowsReq, handlePush, refusePush, clientVars, docVars
  <2>2. QED
    BY <2>1, ContentsKept
<1>3. ASSUME NEW d \in Devices, SessionStep(d) PROVE Contents'
  <2>1. UNCHANGED <<floor, ckpt, late, deps, post>>
    BY <1>3 DEF SessionStep, Dial, RecvState, FetchCheckpoint, RecvRow, RecvAck, RecvQuota,
       RecvDone, push_pending, push_head, apply_checkpoint, Import, roomVars, docVars
  <2>2. QED
    BY <2>1, ContentsKept
<1>4. ASSUME NEW d \in Devices, HttpStep(d) PROVE Contents'
  <2>1. UNCHANGED <<floor, ckpt, late, deps, post>>
    BY <1>4 DEF HttpStep, HttpPush, HttpAck, HttpPull, HttpState, HttpFetch, HttpRow, HttpDone,
       postRow, apply_checkpoint, Import, roomVars, docVars
  <2>2. QED
    BY <2>1, ContentsKept
<1>5. ASSUME NEW d \in Devices, FlushStep(d) \/ Drop(d) \/ DialFails(d) \/ HttpFails(d) PROVE Contents'
  <2>1. UNCHANGED <<floor, ckpt, late, deps, post>>
    BY <1>5 DEF FlushStep, FlushBegin, FlushCommit, Drop, DialFails, HttpFails, roomVars, docVars
  <2>2. QED
    BY <2>1, ContentsKept
<1>6. ASSUME NEW d \in Devices, CheckpointStep(d) \/ CheckpointTimeout(d) \/ Crash(d) PROVE Contents'
  BY <1>6, ContentsPosts, ContentsCrash
<1>7. ASSUME NEW b \in stray, handleStrayPush(b), UNCHANGED clientVars PROVE Contents'
  <2>1. UNCHANGED <<floor, ckpt, late, deps, post>>
    BY <1>7 DEF handleStrayPush, postRow, clientVars, docVars
  <2>2. QED
    BY <2>1, ContentsKept
<1>8. ASSUME NEW p \in late, handleLateCheckpoint(p), UNCHANGED clientVars PROVE Contents'
  BY <1>8, ContentsLate
<1>9. CASE \E d \in Devices :
               \/ \E b \in Batches : enqueue_batch(d, b)
               \/ RoomStep(d) /\ UNCHANGED clientVars
               \/ SessionStep(d)
               \/ HttpStep(d)
               \/ FlushStep(d)
               \/ CheckpointStep(d)
               \/ Fault(d)
  <2>1. PICK d \in Devices :
            \/ \E b \in Batches : enqueue_batch(d, b)
            \/ RoomStep(d) /\ UNCHANGED clientVars
            \/ SessionStep(d)
            \/ HttpStep(d)
            \/ FlushStep(d)
            \/ CheckpointStep(d)
            \/ Fault(d)
    BY <1>9
  <2>2. CASE \E b \in Batches : enqueue_batch(d, b)
    BY <2>2, <1>1
  <2>3. CASE RoomStep(d) /\ UNCHANGED clientVars
    BY <2>3, <1>2
  <2>4. CASE SessionStep(d) \/ HttpStep(d)
    BY <2>4, <1>3, <1>4
  <2>5. CASE FlushStep(d) \/ CheckpointStep(d) \/ Fault(d)
    BY <2>5, <1>2, <1>5, <1>6 DEF Fault
  <2>6. QED
    BY <2>1, <2>2, <2>3, <2>4, <2>5
<1>10. CASE \E b \in stray : handleStrayPush(b) /\ UNCHANGED clientVars
  BY <1>7, <1>10
<1>11. CASE \E p \in late : handleLateCheckpoint(p) /\ UNCHANGED clientVars
  BY <1>8, <1>11
<1>12. QED
  BY <1>9, <1>10, <1>11, Zenon DEF Next

-----------------------------------------------------------------------------
(* What the steps of one device leave of the others.                       *)

\* Device d does not take part in the step, except that the room may talk to it.
Apart(d) ==
    /\ Told(d) /\ Owned(d)' = Owned(d)
    /\ doc'[d] = doc[d] /\ actor'[d] = actor[d] /\ shared'[d] = shared[d]
    /\ http'[d] = http[d] /\ flush'[d] = flush[d] /\ disk'[d] = disk[d]

\* A step that leaves a device apart leaves its cursor sound.
LEMMA ApartSound ==
    ASSUME RoadsInv, TypeOK', Grows, NEW d \in Devices, SoundAt(d), Apart(d)
    PROVE  SoundAt(d)'
BY ToldSound DEF Apart

\* A step of the room alone.
LEMMA RoomApart ==
    ASSUME UNCHANGED clientVars, NEW d \in Devices, Told(d)
    PROVE  Apart(d)
BY DEF Apart, clientVars, docVars, diskVars, Owned

\* A step that changes the entry of another device only.
LEMMA SilentApart ==
    ASSUME NEW d \in Devices, up'[d] = up[d], down'[d] = down[d], ready'[d] = ready[d],
           UNCHANGED written, doc'[d] = doc[d], actor'[d] = actor[d], shared'[d] = shared[d],
           http'[d] = http[d], flush'[d] = flush[d], disk'[d] = disk[d]
    PROVE  Apart(d)
BY DEF Apart, Told, Owned

\* The session of another device.
LEMMA SessionApart ==
    ASSUME TypeOK, NEW d \in Devices, NEW e \in Devices \ {d}, SessionStep(e)
    PROVE  Apart(d)
<1>1. /\ up \in [Devices -> Seq(UpFrames)] /\ down \in [Devices -> Seq(DownFrames)]
      /\ ready \in [Devices -> BOOLEAN] /\ doc \in [Devices -> SUBSET Batches]
      /\ actor \in [Devices -> Actor] /\ shared \in [Devices -> Shared] /\ http \in [Devices -> Http]
  BY DEF TypeOK, RoomTypeOK, ClientTypeOK
<1>2. ASSUME NEW sh, NEW act, NEW h, maybe_repair_gap(e, sh, act, h)
      PROVE  /\ up'[d] = up[d] /\ down'[d] = down[d] /\ ready'[d] = ready[d]
             /\ shared'[d] = shared[d] /\ actor'[d] = actor[d] /\ http'[d] = http[d]
  BY <1>1, <1>2 DEF maybe_repair_gap, HangUp
<1>3. CASE Dial(e) \/ push_pending(e) \/ push_head(e)
  <2>1. /\ up'[d] = up[d] /\ actor'[d] = actor[d] /\ shared'[d] = shared[d]
        /\ UNCHANGED <<down, ready, http, doc, written, flush, disk>>
    BY <1>1, <1>3 DEF Dial, push_pending, push_head, docVars, diskVars
  <2>2. QED
    BY <2>1, SilentApart
<1>4. CASE RecvState(e)
  <2>1. /\ up'[d] = up[d] /\ down'[d] = down[d] /\ actor'[d] = actor[d] /\ shared'[d] = shared[d]
        /\ UNCHANGED <<ready, http, doc, written, flush, disk>>
    BY <1>1, <1>4 DEF RecvState, docVars
  <2>2. QED
    BY <2>1, SilentApart
<1>5. CASE FetchCheckpoint(e)
  <2>1. /\ doc'[d] = doc[d] /\ actor'[d] = actor[d] /\ shared'[d] = shared[d]
        /\ UNCHANGED <<up, down, ready, http, written, flush, disk>>
    BY <1>1, <1>5 DEF FetchCheckpoint, apply_checkpoint, Import, roomVars
  <2>2. QED
    BY <2>1, SilentApart
<1>6. CASE RecvRow(e)
  <2>1. /\ doc'[d] = doc[d] /\ UNCHANGED <<written, flush, disk>>
        /\ \E sh, act, h : maybe_repair_gap(e, sh, act, h)
    BY <1>1, <1>6 DEF RecvRow, Import
  <2>2. QED
    BY <1>2, <2>1, SilentApart
<1>7. CASE RecvAck(e)
  <2>1. /\ UNCHANGED <<doc, written, flush, disk>>
        /\ \E sh, act, h : maybe_repair_gap(e, sh, act, h)
    BY <1>7 DEF RecvAck, docVars
  <2>2. QED
    BY <1>2, <2>1, SilentApart
<1>8. CASE RecvQuota(e) \/ RecvDone(e)
  <2>1. /\ UNCHANGED <<doc, written, flush, disk>>
        /\ \E sh, act, h : maybe_repair_gap(e, sh, act, h)
    BY <1>8 DEF RecvQuota, RecvDone, docVars, diskVars
  <2>2. QED
    BY <1>2, <2>1, SilentApart
<1>9. QED
  BY <1>3, <1>4, <1>5, <1>6, <1>7, <1>8 DEF SessionStep

\* The HTTPS task of another device.
LEMMA HttpApart ==
    ASSUME RoadsInv, NEW d \in Devices, NEW e \in Devices \ {d}, HttpStep(e)
    PROVE  Apart(d)
<1>1. /\ doc \in [Devices -> SUBSET Batches] /\ actor \in [Devices -> Actor]
      /\ shared \in [Devices -> Shared] /\ http \in [Devices -> Http]
  BY LogTyped DEF TypeOK, ClientTypeOK
<1>2. CASE HttpPush(e)
  <2>1. /\ http[e].todo # {} /\ postRow(First(http[e].todo))
        /\ http'[d] = http[d]
        /\ UNCHANGED <<doc, written, shared, actor, flush, disk>>
    BY <1>1, <1>2 DEF HttpPush, docVars, diskVars
  <2>2. http[e].todo \in SUBSET Batches
    BY <1>1 DEF Http
  <2>3. First(http[e].todo) \in Batches
    BY <2>1, <2>2, FirstIn
  <2>4. Told(d)
    BY <2>1, <2>3, PostTold
  <2>5. QED
    BY <2>1, <2>4 DEF Apart, Owned
<1>3. CASE HttpAck(e) \/ HttpPull(e) \/ HttpState(e) \/ HttpDone(e)
  <2>1. /\ http'[d] = http[d] /\ shared'[d] = shared[d]
        /\ UNCHANGED <<up, down, ready, doc, written, actor, flush, disk>>
    BY <1>1, <1>3 DEF HttpAck, HttpPull, HttpState, HttpDone, roomVars, docVars, diskVars
  <2>2. QED
    BY <2>1, SilentApart
<1>4. CASE HttpFetch(e) \/ HttpRow(e)
  <2>1. /\ http'[d] = http[d] /\ shared'[d] = shared[d] /\ doc'[d] = doc[d] /\ actor'[d] = actor[d]
        /\ UNCHANGED <<up, down, ready, written, flush, disk>>
    BY <1>1, <1>4 DEF HttpFetch, HttpRow, apply_checkpoint, Import, roomVars
  <2>2. QED
    BY <2>1, SilentApart
<1>5. QED
  BY <1>2, <1>3, <1>4 DEF HttpStep

\* The snapshots, uploads and faults of another device.
LEMMA RestApart ==
    ASSUME TypeOK, NEW d \in Devices, NEW e \in Devices \ {d},
           \/ FlushStep(e) \/ CheckpointStep(e) \/ CheckpointTimeout(e)
           \/ Drop(e) \/ DialFails(e) \/ HttpFails(e) \/ Crash(e)
    PROVE  Apart(d)
<1>1. /\ up \in [Devices -> Seq(UpFrames)] /\ down \in [Devices -> Seq(DownFrames)]
      /\ ready \in [Devices -> BOOLEAN] /\ doc \in [Devices -> SUBSET Batches]
      /\ actor \in [Devices -> Actor] /\ shared \in [Devices -> Shared] /\ http \in [Devices -> Http]
      /\ flush \in [Devices -> Nat \cup {-1}]
      /\ disk \in [Devices -> [content : SUBSET Batches, cursor : Nat]]
  BY DEF TypeOK, RoomTypeOK, ClientTypeOK
<1>2. CASE FlushStep(e)
  <2>1. /\ flush'[d] = flush[d] /\ disk'[d] = disk[d]
        /\ UNCHANGED <<up, down, ready, doc, written, actor, shared, http>>
    BY <1>1, <1>2 DEF FlushStep, FlushBegin, FlushCommit, save_verified_snapshot_with_cursor, roomVars, docVars
  <2>2. QED
    BY <2>1, SilentApart
<1>3. CASE CheckpointStep(e) \/ CheckpointTimeout(e)
  <2>1. /\ actor'[d] = actor[d] /\ shared'[d] = shared[d]
        /\ UNCHANGED <<up, down, ready, doc, written, http, flush, disk>>
    BY <1>1, <1>3 DEF CheckpointStep, CheckpointBegin, CheckpointExport, CheckpointPost,
       CheckpointTimeout, roomVars, docVars, diskVars
  <2>2. QED
    BY <2>1, SilentApart
<1>4. CASE Drop(e)
  <2>1. /\ up'[d] = up[d] /\ down'[d] = down[d] /\ ready'[d] = ready[d] /\ actor'[d] = actor[d]
        /\ shared'[d] = shared[d] /\ http'[d] = http[d]
        /\ UNCHANGED <<doc, written, flush, disk>>
    BY <1>1, <1>4 DEF Drop, HangUp, docVars, diskVars
  <2>2. QED
    BY <2>1, SilentApart
<1>5. CASE DialFails(e) \/ HttpFails(e)
  <2>1. /\ http'[d] = http[d]
        /\ UNCHANGED <<up, down, ready, actor, shared, doc, written, flush, disk>>
    BY <1>1, <1>5 DEF DialFails, HttpFails, docVars, diskVars
  <2>2. QED
    BY <2>1, SilentApart
<1>6. CASE Crash(e)
  <2>1. /\ up'[d] = up[d] /\ down'[d] = down[d] /\ ready'[d] = ready[d] /\ actor'[d] = actor[d]
        /\ shared'[d] = shared[d] /\ http'[d] = http[d] /\ doc'[d] = doc[d] /\ flush'[d] = flush[d]
        /\ UNCHANGED <<written, disk>>
    BY <1>1, <1>6 DEF Crash
  <2>2. QED
    BY <2>1, SilentApart
<1>7. QED
  BY <1>2, <1>3, <1>4, <1>5, <1>6

\* A local write on another device.
LEMMA WriteApart ==
    ASSUME TypeOK, NEW d \in Devices, NEW e \in Devices \ {d}, NEW b \in Batches, enqueue_batch(e, b)
    PROVE  Apart(d)
<1>1. doc \in [Devices -> SUBSET Batches] /\ shared \in [Devices -> Shared]
  BY DEF TypeOK, ClientTypeOK
<1>2. /\ Author(b) = e /\ written' = written \cup {b}
      /\ doc'[d] = doc[d] /\ shared'[d] = shared[d]
      /\ UNCHANGED <<up, down, ready, actor, http, flush, disk>>
  BY <1>1 DEF enqueue_batch, roomVars
<1>3. Owned(d)' = Owned(d)
  BY <1>2 DEF Owned
<1>4. Told(d)
  BY <1>2, Unheard
<1>5. QED
  BY <1>2, <1>3, <1>4 DEF Apart

-----------------------------------------------------------------------------
(* The steps of a device that does not die.                                *)

\* The entries of a device, typed.
LEMMA OwnEntries ==
    ASSUME RoadsInv, NEW d \in Devices
    PROVE  /\ shared[d] \in Shared /\ actor[d] \in Actor /\ http[d] \in Http
           /\ shared[d].cursor \in Nat /\ actor[d].target \in Nat
           /\ http[d].st \in State /\ http[d].st.seq \in Nat /\ http[d].cur \in Nat
           /\ up \in [Devices -> Seq(UpFrames)] /\ down \in [Devices -> Seq(DownFrames)]
           /\ ready \in [Devices -> BOOLEAN] /\ doc \in [Devices -> SUBSET Batches]
           /\ actor \in [Devices -> Actor] /\ shared \in [Devices -> Shared]
           /\ http \in [Devices -> Http]
           /\ log \in Seq(Batches) /\ Len(log) \in Nat /\ floor \in Nat /\ floor <= Len(log)
BY LogTyped, Entries DEF TypeOK, RoomTypeOK, ClientTypeOK, Shared, Actor, Http, State

\* A local write.
LEMMA WriteSound ==
    ASSUME RoadsInv, TypeOK', Grows, NEW d \in Devices, SoundAt(d),
           NEW b \in Batches, enqueue_batch(d, b)
    PROVE  SoundAt(d)'
<1>1. /\ written' = written \cup {b} /\ doc' = [doc EXCEPT ![d] = @ \cup {b}]
      /\ shared' = [shared EXCEPT ![d].pending = @ \cup ({b} \ Oversize)]
      /\ UNCHANGED <<log, floor, up, down, ready, actor, http, flush, disk>>
  BY DEF enqueue_batch, roomVars
<1>2. doc'[d] = doc[d] \cup {b} /\ shared'[d].cursor = shared[d].cursor
  BY <1>1, OwnEntries DEF Shared
<1>3. Owned(d)' \subseteq doc'[d]
  BY <1>1, <1>2 DEF Owned, SoundAt
<1>4. Moved(doc'[d], shared[d].cursor, shared'[d].cursor, log')
  BY <1>2, OwnEntries DEF Moved
<1>5. SameDebts(actor[d], actor'[d], down[d], down'[d], http[d], http'[d], floor', log')
  BY <1>1 DEF SameDebts
<1>6. actor'[d].phase = "down" => up'[d] = <<>> /\ down'[d] = <<>> /\ ~ready'[d]
  BY <1>1 DEF SoundAt
<1>7. QED
  BY <1>1, <1>2, <1>3, <1>4, <1>5, <1>6, SoundKept

\* A step of the session that neither moves the cursor nor the document.
LEMMA StillSound ==
    ASSUME RoadsInv, TypeOK', Grows, NEW d \in Devices, SoundAt(d),
           UNCHANGED <<written, flush, disk>>, doc'[d] = doc[d], shared'[d].cursor = shared[d].cursor,
           actor'[d].phase = "down" => up'[d] = <<>> /\ down'[d] = <<>> /\ ~ready'[d],
           SameDebts(actor[d], actor'[d], down[d], down'[d], http[d], http'[d], floor', log')
    PROVE  SoundAt(d)'
<1>1. Owned(d)' \subseteq doc'[d]
  BY DEF SoundAt, Owned
<1>2. Moved(doc'[d], shared[d].cursor, shared'[d].cursor, log')
  BY OwnEntries DEF Moved
<1>3. QED
  BY <1>1, <1>2, SoundKept

\* Dialling, and sending what is pending.
LEMMA DialSound ==
    ASSUME RoadsInv, TypeOK', Grows, NEW d \in Devices, SoundAt(d),
           Dial(d) \/ push_pending(d) \/ push_head(d)
    PROVE  SoundAt(d)'
<1>1. CASE Dial(d)
  <2>1. /\ actor[d].phase = "down" /\ actor' = [actor EXCEPT ![d].phase = "hello"]
        /\ UNCHANGED <<written, flush, disk, doc, shared, down, http>>
    BY <1>1 DEF Dial, docVars, diskVars
  <2>2. actor'[d].phase = "hello" /\ down'[d] = <<>>
    BY <2>1, OwnEntries DEF Actor, SoundAt
  <2>3. SameDebts(actor[d], actor'[d], down[d], down'[d], http[d], http'[d], floor', log')
    BY <2>1, <2>2 DEF SameDebts
  <2>4. QED
    BY <2>1, <2>2, <2>3, StillSound
<1>2. ASSUME actor[d].phase = "live", actor'[d].phase = "live", shared'[d].cursor = shared[d].cursor,
             UNCHANGED <<written, flush, disk, doc, down, http>>
      PROVE  SoundAt(d)'
  <2>1. SameDebts(actor[d], actor'[d], down[d], down'[d], http[d], http'[d], floor', log')
    BY <1>2 DEF SameDebts
  <2>2. QED
    BY <1>2, <2>1, StillSound
<1>3. CASE push_pending(d)
  <2> DEFINE flight == (actor[d].inFlight \cap shared[d].pending) \cup (shared[d].pending \ actor[d].inFlight)
             act == [actor[d] EXCEPT !.inFlight = flight]
  <2>1. /\ actor[d].phase = "live" /\ actor' = [actor EXCEPT ![d] = act]
        /\ UNCHANGED <<written, flush, disk, doc, down, http, shared>>
    BY <1>3 DEF push_pending, docVars, diskVars
  <2>2. act.phase = actor[d].phase
    BY OwnEntries DEF Actor
  <2> HIDE DEF act
  <2>3. actor'[d].phase = "live"
    BY <2>1, <2>2, OwnEntries
  <2>4. QED
    BY <2>1, <2>3, <1>2
<1>4. CASE push_head(d)
  <2>1. /\ actor[d].phase = "live" /\ shared' = [shared EXCEPT ![d].retryAt = FALSE]
        /\ UNCHANGED <<written, flush, disk, doc, down, http, actor>>
    BY <1>4 DEF push_head, docVars, diskVars
  <2>2. shared'[d].cursor = shared[d].cursor
    BY <2>1, OwnEntries DEF Shared
  <2>3. QED
    BY <2>1, <2>2, <1>2
<1>5. QED
  BY <1>1, <1>3, <1>4

\* Starting an HTTPS cycle leaves a task that is pulling alone.
LEMMA SpawnStill ==
    ASSUME NEW d, NEW h, NEW S
    PROVE  spawn_offline_sync(d, h, S).step \in {"pull", "fetch"} => spawn_offline_sync(d, h, S) = h
BY DEF spawn_offline_sync, IdleHttp

\* Hanging up.
LEMMA HangUpLeaves ==
    ASSUME RoadsInv, NEW d \in Devices, NEW sh, NEW h, HangUp(d, sh, h)
    PROVE  /\ shared'[d] = sh /\ actor'[d].phase = "down"
           /\ up'[d] = <<>> /\ down'[d] = <<>> /\ ~ready'[d]
           /\ http'[d].step \in {"pull", "fetch"} => http'[d] = h
<1>1. http'[d] = spawn_offline_sync(d, h, sh.pending)
  BY OwnEntries DEF HangUp
<1>2. actor'[d] = DownActor(actor[d].resumed, actor[d].heal, actor[d].reseed)
  BY OwnEntries DEF HangUp
<1>3. QED
  BY <1>1, <1>2, SpawnStill, OwnEntries DEF HangUp, DownActor

\* Taking a frame in a session that is in, with the cursor moved as it may.
LEMMA RepairSound ==
    ASSUME RoadsInv, TypeOK', Grows, NEW d \in Devices, SoundAt(d), Receiving(d),
           UNCHANGED <<written, flush, disk>>, doc[d] \subseteq doc'[d],
           NEW sh \in Shared, Moved(doc'[d], shared[d].cursor, sh.cursor, log'),
           NEW act \in Actor, act.phase \in {"backfill", "live"}, NEW h \in Http,
           h.step \in {"pull", "fetch"} =>
              http[d].step \in {"pull", "fetch"} /\ h.st = http[d].st /\ h.cur = http[d].cur,
           maybe_repair_gap(d, sh, act, h)
    PROVE  SoundAt(d)'
<1>1. Owned(d)' \subseteq doc'[d]
  BY DEF SoundAt, Owned
<1>2. \/ /\ shared'[d].cursor = sh.cursor /\ actor'[d].phase \in {"backfill", "live"}
         /\ http'[d] = h
      \/ /\ shared'[d].cursor = sh.cursor /\ actor'[d].phase = "down"
         /\ up'[d] = <<>> /\ down'[d] = <<>> /\ ~ready'[d]
         /\ http'[d].step \in {"pull", "fetch"} => http'[d] = h
  <2> DEFINE sh1 == [sh EXCEPT !.gapRepair = FALSE]
             act1 == [act EXCEPT !.repairs = @ + 1]
             sh2 == [sh EXCEPT !.gapRepair = @ /\ sh.needsCkpt]
  <2>1. sh1.cursor = sh.cursor /\ sh2.cursor = sh.cursor /\ act1.phase = act.phase
    BY DEF Shared, Actor
  <2>2. \/ /\ shared' = [shared EXCEPT ![d] = sh] /\ actor' = [actor EXCEPT ![d] = act]
           /\ http' = [http EXCEPT ![d] = h]
        \/ /\ shared' = [shared EXCEPT ![d] = sh1] /\ actor' = [actor EXCEPT ![d] = act1]
           /\ http' = [http EXCEPT ![d] = h]
        \/ HangUp(d, sh2, h)
    BY DEF maybe_repair_gap
  <2> HIDE DEF sh1, act1, sh2
  <2>3. CASE HangUp(d, sh2, h)
    BY <2>1, <2>3, HangUpLeaves
  <2>4. CASE ~HangUp(d, sh2, h)
    BY <2>1, <2>2, <2>4, OwnEntries
  <2>5. QED
    BY <2>3, <2>4
<1>3. SameDebts(actor[d], actor'[d], down[d], down'[d], http[d], http'[d], floor', log')
  BY <1>2 DEF SameDebts, Receiving
<1>4. QED
  BY <1>1, <1>2, <1>3, SoundKept

\* An import brings in whatever is closed, and forgets nothing.
LEMMA ImportHas ==
    ASSUME RoadsInv, NEW d \in Devices, NEW S \in SUBSET Batches, S \subseteq written, Import(d, S)
    PROVE  /\ doc[d] \subseteq doc'[d] /\ UNCHANGED written
           /\ Closed(S) => S \subseteq doc'[d]
           /\ \A b \in S : b \in Applied(d, S) => b \in doc'[d]
<1>1. DocsGrow /\ UNCHANGED written /\ doc'[d] = Applied(d, S)
  BY ImportTrue
<1>2. Closed(S) => S \subseteq Applied(d, S)
  BY DEF Closed, Applied, Known
<1>3. QED
  BY <1>1, <1>2 DEF DocsGrow

-----------------------------------------------------------------------------
(* Catching up.                                                            *)

\* The plan's cursor owes nothing to a document that has the checkpoint.
LEMMA PlanHas ==
    ASSUME NEW lg \in Seq(Batches), NEW S, NEW cur \in Nat, NEW st \in State, NEW contained,
           WholeState(st, lg), Owes(S, st.seq, cur, lg), Has(S, st.seq, lg)
    PROVE  Has(S, plan_catch_up(cur, st, contained).after, lg)
<1>1. st.seq \in Nat /\ Has(S, cur, lg) /\ Has(S, 0, lg)
  <2>1. st.seq \in Nat /\ Len(lg) \in Nat
    BY DEF State
  <2>2. Has(S, cur, lg)
    BY <2>1, PaidOff
  <2>3. QED
    BY <2>1, <2>2 DEF Has
<1>2. plan_catch_up(cur, st, contained).after \in {0, cur, st.seq}
  BY DEF plan_catch_up, Larger
<1>3. QED
  BY <1>1, <1>2

\* A checkpoint the document contains brings it up to the checkpoint's number.
LEMMA ContainedHas ==
    ASSUME NEW lg \in Seq(Batches), NEW S, NEW st \in State, WholeState(st, lg),
           ~st.present \/ contains_frontier(S, st.content)
    PROVE  Has(S, st.seq, lg)
<1>1. st.seq \in Nat /\ Len(lg) \in Nat /\ Extends(lg, lg)
  BY DEF State, Extends
<1>2. CASE ~st.present
  BY <1>1, <1>2 DEF WholeState, Has
<1>3. CASE contains_frontier(S, st.content)
  <2>1. st.content \subseteq S /\ Has(st.content, st.seq, lg)
    BY <1>3 DEF contains_frontier, WholeState
  <2>2. QED
    BY <1>1, <2>1, HasMono
<1>4. QED
  BY <1>2, <1>3

\* A session that has made its plan.
LEMMA SoundStart ==
    ASSUME RoadsInv, TypeOK', Grows, NEW d \in Devices, SoundAt(d),
           UNCHANGED <<written, flush, disk>>, doc[d] \subseteq doc'[d],
           actor'[d].phase \in {"fetch", "backfill"},
           Owes(doc'[d], floor', shared'[d].cursor, log'),
           actor'[d].phase = "fetch" => Owes(doc'[d], actor'[d].target, shared'[d].cursor, log'),
           actor'[d].phase = "backfill" => Has(doc'[d], shared'[d].cursor, log'),
           http'[d] = http[d]
    PROVE  SoundAt(d)'
<1>1. /\ log \in Seq(Batches) /\ log' \in Seq(Batches) /\ Extends(log, log')
  BY LogTyped, GrowTypes
<1>2. http[d].st \in State /\ http[d].st.seq \in Nat /\ http[d].cur \in Nat
  BY OwnEntries
<1>3. http'[d].step \in {"pull", "fetch"} => /\ WholeState(http'[d].st, log')
                                            /\ Owes(doc'[d], http'[d].st.seq, http'[d].cur, log')
  <2>1. SUFFICES ASSUME http[d].step \in {"pull", "fetch"}
                 PROVE  /\ WholeState(http[d].st, log')
                        /\ Owes(doc'[d], http[d].st.seq, http[d].cur, log')
    OBVIOUS
  <2>2. WholeState(http[d].st, log) /\ Owes(doc[d], http[d].st.seq, http[d].cur, log)
    BY <2>1 DEF SoundAt, Debts
  <2>3. QED
    BY <1>1, <1>2, <2>2, WholeMono, OwesMono
<1>4. Debts(doc'[d], actor'[d], shared'[d], http'[d], down'[d], floor', log')
  BY <1>3 DEF Debts
<1>5. QED
  BY <1>4 DEF SoundAt, Owned

\* The state frame.
LEMMA RecvStateSound ==
    ASSUME RoadsInv, TypeOK', Grows, NEW d \in Devices, SoundAt(d), RecvState(d)
    PROVE  SoundAt(d)'
<1> DEFINE st == Head(down[d])
           sh == shared[d]
           contained == ~st.present \/ (~sh.needsCkpt /\ contains_frontier(doc[d], st.content))
           plan == plan_catch_up(sh.cursor, st, contained)
           burst == IF sh.quotaBlocked THEN {} ELSE sh.pending
           wiped == sh.cursor > st.head
           si == [sh EXCEPT !.cursor = plan.after, !.server = ViewOf(st),
                            !.needsCkpt = plan.fetch /\ @]
           act == StartCatchUp(actor[d], plan, burst, st, wiped /\ d = Host)
<1>1. /\ actor[d].phase = "hello" /\ DownHead(d, "state")
      /\ shared' = [shared EXCEPT ![d] = si]
      /\ actor' = [actor EXCEPT ![d] = act]
      /\ UNCHANGED <<written, flush, disk, doc, http, log, floor>>
  BY DEF RecvState, docVars
<1>2. /\ sh \in Shared /\ actor[d] \in Actor /\ sh.cursor \in Nat /\ log \in Seq(Batches) /\ Len(log) \in Nat
      /\ floor \in Nat /\ floor <= Len(log)
      /\ down \in [Devices -> Seq(DownFrames)]
  BY OwnEntries
<1>3. /\ down[d] # <<>> /\ 1 \in 1 .. Len(down[d]) /\ st = down[d][1] /\ st.t = "state" /\ st \in DownFrames
  BY <1>1, <1>2 DEF DownHead
<1>4. st \in State /\ st.seq \in Nat /\ st.head \in Nat
  BY <1>3, StateHead DEF State
<1>5. WholeState(st, log) /\ Owes(doc[d], st.seq, sh.cursor, log)
  BY <1>1, <1>3 DEF SoundAt, Debts
<1>6. st.seq <= floor
  BY <1>3, EntryTrue DEF ChTrue, FrameIn
<1>7. si.cursor = plan.after
  BY <1>2 DEF Shared
<1>8. act.phase = (IF plan.fetch THEN "fetch" ELSE "backfill") /\ act.target = st.seq
  BY <1>2 DEF StartCatchUp, Actor
<1>9. /\ shared'[d].cursor = plan.after /\ actor'[d].target = st.seq
      /\ actor'[d].phase = (IF plan.fetch THEN "fetch" ELSE "backfill")
  <2> HIDE DEF si, act
  <2>1. shared'[d] = si /\ actor'[d] = act
    BY <1>1, OwnEntries
  <2>2. QED
    BY <1>7, <1>8, <2>1
<1> HIDE DEF st
<1>10. CASE contained
  <2>1. Has(doc[d], st.seq, log)
    BY <1>2, <1>4, <1>5, <1>10, ContainedHas
  <2>2. Has(doc[d], plan.after, log)
    BY <1>2, <1>4, <1>5, <2>1, PlanHas
  <2>3. plan.fetch = FALSE
    BY <1>10 DEF plan_catch_up
  <2>4. Owes(doc[d], floor, plan.after, log)
    BY <2>2, HasOwes
  <2> HIDE DEF plan
  <2>5. QED
    BY <1>1, <1>9, <2>2, <2>3, <2>4, SoundStart
<1>11. CASE ~contained
  <2>1. plan.fetch = TRUE /\ plan.after = st.seq
    BY <1>11 DEF plan_catch_up
  <2>2. Owes(doc[d], floor, st.seq, log) /\ Owes(doc[d], st.seq, st.seq, log)
    BY <1>2, <1>4, <1>6 DEF Owes
  <2> HIDE DEF plan
  <2>3. QED
    BY <1>1, <1>9, <2>1, <2>2, SoundStart
<1>12. QED
  BY <1>10, <1>11

\* The room's checkpoint, once imported, is in the document.
LEMMA CkptHas ==
    ASSUME RoadsInv, Contents, NEW d \in Devices, Import(d, ckpt.content), UNCHANGED log
    PROVE  doc[d] \subseteq doc'[d] /\ UNCHANGED written /\ Has(doc'[d], floor, log')
<1>1. /\ ckpt.content \in SUBSET Batches /\ ckpt.content \subseteq written /\ Has(ckpt.content, floor, log)
      /\ Closed(ckpt.content) /\ log \in Seq(Batches) /\ Extends(log, log) /\ floor \in Nat
  BY LogTyped DEF RoomTypeOK, Roads, CheckpointsWhole, Contents, Extends
<1>2. doc[d] \subseteq doc'[d] /\ UNCHANGED written /\ ckpt.content \subseteq doc'[d]
  BY <1>1, ImportHas
<1>3. QED
  BY <1>1, <1>2, HasMono

\* The download of the checkpoint.
LEMMA FetchSound ==
    ASSUME RoadsInv, TypeOK', Grows, Contents, NEW d \in Devices, SoundAt(d), FetchCheckpoint(d)
    PROVE  SoundAt(d)'
<1> DEFINE k == actor[d].target
           si == CaughtUpTo(shared[d], k, actor[d].gap)
<1>1. /\ actor[d].phase = "fetch" /\ Import(d, ckpt.content)
      /\ shared' = [shared EXCEPT ![d] = si]
      /\ actor' = [actor EXCEPT ![d].phase = "backfill"]
      /\ UNCHANGED <<http, flush, disk, log, floor>>
  BY DEF FetchCheckpoint, apply_checkpoint, roomVars
<1>2. /\ shared[d] \in Shared /\ shared[d].cursor \in Nat /\ k \in Nat /\ log \in Seq(Batches)
      /\ floor \in Nat /\ actor[d] \in Actor /\ k <= floor /\ Extends(log, log)
  BY OwnEntries, EntryTrue DEF Extends
<1>3. doc[d] \subseteq doc'[d] /\ UNCHANGED written /\ Has(doc'[d], floor, log)
  BY <1>1, CkptHas
<1>4. Owes(doc[d], k, shared[d].cursor, log)
  BY <1>1 DEF SoundAt, Debts
<1>5. si.cursor = Larger(shared[d].cursor, k)
  BY <1>2 DEF CaughtUpTo, Shared
<1>6. actor'[d].phase = "backfill" /\ shared'[d] = si
  BY <1>1, OwnEntries DEF Actor
<1> HIDE DEF k, si
<1>7. Has(doc'[d], k, log)
  BY <1>2, <1>3, HasLess
<1>8. Has(doc'[d], shared[d].cursor, log)
  BY <1>2, <1>3, <1>4, <1>7, OwesMono, PaidOff
<1>9. Has(doc'[d], si.cursor, log)
  BY <1>5, <1>7, <1>8 DEF Larger
<1>10. Owes(doc'[d], floor, si.cursor, log)
  BY <1>9, HasOwes
<1>11. QED
  BY <1>1, <1>3, <1>6, <1>9, <1>10, SoundStart

-----------------------------------------------------------------------------
(* The frames of a session that is in, and the rows of the HTTPS task.     *)

\* A row moves the cursor by at most one, onto a batch the document now has.
LEMMA RowMoves ==
    ASSUME NEW sh \in Shared, NEW r \in Row, NEW ok \in BOOLEAN, NEW lg, RowIn(r, lg),
           NEW E, ok => r.batch \in E
    PROVE  Moved(E, sh.cursor, RowAdvance(sh, r, ok).cursor, lg)
<1>1. sh.cursor \in Nat /\ r.seq \in Nat /\ r.seq <= Len(lg) /\ lg[r.seq] = r.batch
  BY DEF Shared, Row, RowIn
<1> DEFINE gap == r.seq > sh.cursor + 1
<1>2. RowAdvance(sh, r, ok).cursor = IF gap \/ ~ok THEN sh.cursor ELSE Larger(sh.cursor, r.seq)
  BY DEF RowAdvance, Shared
<1>3. CASE gap \/ ~ok
  BY <1>1, <1>2, <1>3 DEF Moved
<1>4. CASE ~gap /\ ok
  <2> DEFINE n == r.seq
  <2>1. n \in Nat /\ n <= sh.cursor + 1 /\ n <= Len(lg) /\ lg[n] \in E
    BY <1>1, <1>4
  <2>2. RowAdvance(sh, r, ok).cursor = Larger(sh.cursor, n)
    BY <1>2, <1>4
  <2> HIDE DEF n
  <2>3. QED
    BY <1>1, <2>1, <2>2, LargerMoves
<1>5. QED
  BY <1>3, <1>4

\* A row that is imported.
LEMMA RowImport ==
    ASSUME RoadsInv, NEW d \in Devices, NEW r \in Row, RowIn(r, log), Import(d, {r.batch}),
           UNCHANGED log
    PROVE  /\ doc[d] \subseteq doc'[d] /\ UNCHANGED written
           /\ RowAdvance(shared[d], r, r.batch \in Applied(d, {r.batch})) \in Shared
           /\ Moved(doc'[d], shared[d].cursor,
                    RowAdvance(shared[d], r, r.batch \in Applied(d, {r.batch})).cursor, log')
<1>1. r.batch \in Range(log) /\ r.batch \in Batches
  BY LogTyped DEF RowIn, Row, Range
<1>2. {r.batch} \in SUBSET Batches /\ {r.batch} \subseteq written
  BY <1>1, LogTyped DEF Roads, LogWritten
<1>3. /\ doc[d] \subseteq doc'[d] /\ UNCHANGED written
      /\ r.batch \in Applied(d, {r.batch}) => r.batch \in doc'[d]
  BY <1>2, ImportHas
<1> DEFINE ok == r.batch \in Applied(d, {r.batch})
<1>4. ok \in BOOLEAN /\ (ok => r.batch \in doc'[d])
  BY <1>3
<1> HIDE DEF ok
<1>5. RowAdvance(shared[d], r, ok) \in Shared
  BY <1>4, OwnEntries, RowAdvanceType
<1>6. Moved(doc'[d], shared[d].cursor, RowAdvance(shared[d], r, ok).cursor, log')
  BY <1>4, OwnEntries, RowMoves
<1>7. QED
  BY <1>3, <1>5, <1>6 DEF ok

\* A row of the session.
LEMMA RecvRowSound ==
    ASSUME RoadsInv, TypeOK', Grows, NEW d \in Devices, SoundAt(d), RecvRow(d)
    PROVE  SoundAt(d)'
<1> DEFINE r == FirstRow(Head(down[d]).rows)
           ok == r.batch \in Applied(d, {r.batch})
           sh == RowAdvance(shared[d], r, ok)
           h == [http[d] EXCEPT !.gap = @ \/ (~ok /\ http[d].step = "fetch")]
<1>1. /\ Receiving(d) /\ DownHead(d, "rows") /\ Import(d, {r.batch})
      /\ maybe_repair_gap(d, sh, actor[d], h)
      /\ UNCHANGED <<log, flush, disk>>
  BY DEF RecvRow
<1>2. r \in Row /\ RowIn(r, log)
  BY <1>1, OwnEntries, EntryTrue, AfterRowTrue DEF DownHead
<1>3. h \in Http /\ h.step = http[d].step /\ h.st = http[d].st /\ h.cur = http[d].cur
  BY OwnEntries DEF Http
<1> HIDE DEF r, h
<1>4. /\ doc[d] \subseteq doc'[d] /\ UNCHANGED written /\ sh \in Shared
      /\ Moved(doc'[d], shared[d].cursor, sh.cursor, log')
  BY <1>1, <1>2, RowImport
<1>5. actor[d] \in Actor /\ actor[d].phase \in {"backfill", "live"}
  BY <1>1, OwnEntries DEF Receiving
<1> HIDE DEF sh
<1>6. QED
  BY <1>1, <1>3, <1>4, <1>5, RepairSound

\* An acknowledgement of the device's own update moves the cursor by at most one.
LEMMA AckMoves ==
    ASSUME RoadsInv, NEW d \in Devices, SoundAt(d), NEW b \in Owned(d), NEW s \in Nat,
           RowIn([seq |-> s, batch |-> b], log)
    PROVE  Moved(doc[d], shared[d].cursor, AckAdvance(shared[d].cursor, s), log)
<1>1. s <= Len(log) /\ log[s] \in doc[d] /\ shared[d].cursor \in Nat
  BY OwnEntries DEF RowIn, SoundAt
<1>2. CASE s > shared[d].cursor + 1
  BY <1>1, <1>2 DEF AckAdvance, Moved
<1>3. CASE ~(s > shared[d].cursor + 1)
  <2>1. s <= shared[d].cursor + 1
    BY <1>1, <1>3
  <2>2. QED
    BY <1>1, <1>3, <2>1, LargerMoves DEF AckAdvance
<1>4. QED
  BY <1>2, <1>3

\* An acknowledgement, a refusal and ROWS_DONE.
LEMMA RecvAckSound ==
    ASSUME RoadsInv, TypeOK', Grows, NEW d \in Devices, SoundAt(d), RecvAck(d)
    PROVE  SoundAt(d)'
<1> DEFINE f == Head(down[d])
           old == shared[d]
           left == old.pending \ {f.batch}
           sh == [QuotaGrant(old, left) EXCEPT
                      !.pending = left,
                      !.cursor = AckAdvance(@, f.seq),
                      !.gapRepair = @ \/ f.seq > old.cursor + 1]
<1>1. /\ Receiving(d) /\ DownHead(d, "ack")
      /\ maybe_repair_gap(d, sh, actor[d], http[d])
      /\ UNCHANGED <<log, written, doc, flush, disk>>
  BY DEF RecvAck, docVars
<1>2. f \in DownFrames /\ f.t = "ack" /\ FrameIn(f, log, floor, Owned(d))
  BY <1>1, OwnEntries, EntryTrue, TailTrue DEF DownHead
<1>3. f.batch \in Owned(d) /\ f.seq \in Nat /\ RowIn(f, log)
  BY <1>2, AckHead DEF FrameIn
<1>4. RowIn([seq |-> f.seq, batch |-> f.batch], log)
  BY <1>3 DEF RowIn
<1>5. Moved(doc[d], shared[d].cursor, AckAdvance(shared[d].cursor, f.seq), log)
  BY <1>3, <1>4, AckMoves
<1>6. QuotaGrant(old, left) \in Shared /\ QuotaGrant(old, left).cursor = old.cursor
  <2>1. old \in Shared
    BY OwnEntries
  <2>2. QuotaGrant(old, left).cursor = old.cursor
    BY <2>1 DEF QuotaGrant, Shared
  <2> HIDE DEF old, left
  <2>3. QED
    BY <2>1, <2>2, QuotaGrantType
<1>7. AckAdvance(old.cursor, f.seq) \in Nat /\ left \in SUBSET Batches
  BY <1>3, OwnEntries, AckAdvanceType DEF Shared
<1>8. sh \in Shared /\ sh.cursor = AckAdvance(old.cursor, f.seq)
  BY <1>6, <1>7 DEF Shared
<1>9. /\ actor[d] \in Actor /\ actor[d].phase \in {"backfill", "live"} /\ http[d] \in Http
      /\ doc[d] \subseteq doc'[d]
  BY <1>1, OwnEntries DEF Receiving
<1> HIDE DEF sh
<1>10. Moved(doc'[d], shared[d].cursor, sh.cursor, log')
  BY <1>1, <1>5, <1>8
<1>11. QED
  BY <1>1, <1>8, <1>9, <1>10, RepairSound

\* A quota refusal, and the end of the backfill.
LEMMA RecvQuotaDoneSound ==
    ASSUME RoadsInv, TypeOK', Grows, NEW d \in Devices, SoundAt(d), RecvQuota(d) \/ RecvDone(d)
    PROVE  SoundAt(d)'
<1> DEFINE sh1 == [shared[d] EXCEPT !.quotaBlocked = TRUE, !.retryAt = TRUE]
           act1 == [actor[d] EXCEPT !.phase = "live", !.resumed = TRUE]
<1>1. /\ Receiving(d) /\ UNCHANGED <<written, doc, flush, disk>>
      /\ \/ maybe_repair_gap(d, sh1, actor[d], http[d])
         \/ maybe_repair_gap(d, shared[d], act1, http[d])
  BY DEF RecvQuota, RecvDone, docVars, diskVars
<1>2. /\ sh1 \in Shared /\ sh1.cursor = shared[d].cursor /\ shared[d] \in Shared
      /\ act1 \in Actor /\ act1.phase = "live" /\ actor[d] \in Actor
      /\ actor[d].phase \in {"backfill", "live"} /\ http[d] \in Http /\ doc[d] \subseteq doc'[d]
  BY <1>1, OwnEntries DEF Receiving, Shared, Actor
<1>3. Moved(doc'[d], shared[d].cursor, shared[d].cursor, log')
  BY OwnEntries DEF Moved
<1> HIDE DEF sh1, act1
<1>4. CASE maybe_repair_gap(d, sh1, actor[d], http[d])
  BY <1>1, <1>2, <1>3, <1>4, RepairSound
<1>5. CASE maybe_repair_gap(d, shared[d], act1, http[d])
  BY <1>1, <1>2, <1>3, <1>5, RepairSound
<1>6. QED
  BY <1>1, <1>4, <1>5

-----------------------------------------------------------------------------
(* The HTTPS task, the uploads and the faults of a device that stays up.   *)

\* A step of the HTTPS task that leaves the sockets alone and pulls nothing new.
LEMMA TaskSound ==
    ASSUME RoadsInv, TypeOK', Grows, NEW d \in Devices, SoundAt(d),
           UNCHANGED <<up, down, ready, written, flush, disk>>, doc[d] \subseteq doc'[d],
           actor'[d].phase = actor[d].phase, actor'[d].target = actor[d].target,
           Moved(doc'[d], shared[d].cursor, shared'[d].cursor, log'),
           http'[d].step \in {"pull", "fetch"} =>
              /\ http[d].step \in {"pull", "fetch"}
              /\ http'[d].st = http[d].st /\ http'[d].cur = http[d].cur
    PROVE  SoundAt(d)'
<1>1. Owned(d)' \subseteq doc'[d]
  BY DEF SoundAt, Owned
<1>2. actor'[d].phase = "down" => up'[d] = <<>> /\ down'[d] = <<>> /\ ~ready'[d]
  BY DEF SoundAt
<1>3. SameDebts(actor[d], actor'[d], down[d], down'[d], http[d], http'[d], floor', log')
  BY DEF SameDebts
<1>4. QED
  BY <1>1, <1>2, <1>3, SoundKept

\* A batch is posted and acknowledged.
LEMMA HttpPushSound ==
    ASSUME RoadsInv, TypeOK', Grows, NEW d \in Devices, SoundAt(d), HttpPush(d)
    PROVE  SoundAt(d)'
<1> DEFINE b == First(http[d].todo)
<1>1. /\ http[d].todo # {} /\ postRow(b)
      /\ http' = [http EXCEPT ![d].step = "ack", ![d].ack = AckSeq(b)]
      /\ UNCHANGED <<doc, written, shared, actor, flush, disk>>
  BY DEF HttpPush, docVars, diskVars
<1>2. b \in Batches
  <2>1. http[d].todo \in SUBSET Batches
    BY OwnEntries DEF Http
  <2>2. QED
    BY <1>1, <2>1, FirstIn
<1>3. Told(d)
  BY <1>1, <1>2, PostTold
<1>4. http'[d].step = "ack"
  BY <1>1, OwnEntries DEF Http
<1>5. Owned(d)' = Owned(d)
  BY <1>1 DEF Owned
<1>6. QED
  BY <1>1, <1>3, <1>4, <1>5, ToldSound

\* The HTTPS task advances the cursor over its own acknowledged batch.
LEMMA HttpAckSound ==
    ASSUME RoadsInv, TypeOK', Grows, NEW d \in Devices, SoundAt(d), HttpAck(d)
    PROVE  SoundAt(d)'
<1> DEFINE b == First(http[d].todo)
           k == AckAdvance(shared[d].cursor, http[d].ack)
<1>1. /\ http[d].step = "ack"
      /\ shared' = [shared EXCEPT ![d].pending = @ \ {b}, ![d].cursor = k]
      /\ http' = [http EXCEPT ![d].step = "push", ![d].todo = @ \ {b}]
      /\ UNCHANGED <<up, down, ready, log, doc, written, actor, flush, disk>>
  BY DEF HttpAck, roomVars, docVars
<1>2. /\ http[d].todo \in SUBSET Batches /\ http[d].ack \in Nat
      /\ http[d].todo # {} /\ http[d].todo \subseteq Owned(d)
      /\ RowIn([seq |-> http[d].ack, batch |-> b], log)
  BY <1>1, OwnEntries, EntryTrue DEF Http, HttpIn
<1>3. b \in Owned(d)
  BY <1>2, FirstIn
<1>4. Moved(doc[d], shared[d].cursor, k, log)
  BY <1>2, <1>3, AckMoves
<1>5. http'[d].step = "push"
  BY <1>1, OwnEntries DEF Http
<1> HIDE DEF b, k
<1>6. shared'[d].cursor = k
  BY <1>1, OwnEntries DEF Shared
<1>7. QED
  BY <1>1, <1>4, <1>5, <1>6, TaskSound

\* The rows are asked for from the cursor of this moment, which owes at most
\* what the checkpoint of this moment has.
LEMMA HttpPullSound ==
    ASSUME RoadsInv, Contents, NEW d \in Devices, SoundAt(d), HttpPull(d)
    PROVE  SoundAt(d)'
<1> DEFINE R == rowsAfter(shared[d].cursor, {})
           h == [http[d] EXCEPT !.step = "pull", !.cur = shared[d].cursor, !.st = logStats, !.rows = R]
<1>1. /\ http' = [http EXCEPT ![d] = h]
      /\ UNCHANGED <<up, down, ready, log, floor, doc, written, shared, actor, flush, disk>>
  BY DEF HttpPull, roomVars, docVars, diskVars
<1>2. h.st = logStats /\ h.cur = shared[d].cursor
  BY OwnEntries DEF Http
<1> HIDE DEF h
<1>3. http'[d].st = logStats /\ http'[d].cur = shared[d].cursor
  BY <1>1, <1>2, OwnEntries
<1>4. logStats.seq = floor /\ WholeState(logStats, log)
  BY StatsWhole
<1>5. Owes(doc[d], floor, shared[d].cursor, log)
  BY DEF SoundAt, Debts
<1>6. WholeState(http'[d].st, log) /\ Owes(doc[d], http'[d].st.seq, http'[d].cur, log)
  BY <1>3, <1>4, <1>5
<1>7. Debts(doc'[d], actor'[d], shared'[d], http'[d], down'[d], floor', log')
  BY <1>1, <1>6 DEF SoundAt, Debts
<1>8. QED
  BY <1>1, <1>7 DEF SoundAt, Owned

\* What the HTTPS task makes the cursor owes nothing to a document that has the
\* checkpoint of the response.
LEMMA BaseMoves ==
    ASSUME NEW lg \in Seq(Batches), NEW S, NEW sh \in Shared, NEW h \in Http,
           WholeState(h.st, lg), Owes(S, h.st.seq, h.cur, lg), Has(S, h.st.seq, lg)
    PROVE  Moved(S, sh.cursor, HttpBase(sh, h).cursor, lg)
<1> DEFINE n == plan_catch_up(h.cur, h.st, h.step = "pull").after
<1>1. sh.cursor \in Nat /\ h.cur \in Nat /\ h.st \in State /\ h.st.seq \in Nat /\ Len(lg) \in Nat
  BY DEF Shared, Http, State
<1>2. Has(S, n, lg) /\ n \in Nat
  <2>1. Has(S, n, lg)
    BY <1>1, PlanHas
  <2>2. n \in Nat
    BY <1>1, PlanType
  <2>3. QED
    BY <2>1, <2>2
<1>3. HttpBase(sh, h).cursor = IF sh.cursor > h.st.head THEN n ELSE Larger(sh.cursor, n)
  BY DEF HttpBase, Shared
<1> HIDE DEF n
<1>4. QED
  BY <1>1, <1>2, <1>3, LargerMoves DEF Moved

\* The response is read.
LEMMA HttpStateSound ==
    ASSUME RoadsInv, TypeOK', Grows, NEW d \in Devices, SoundAt(d), HttpState(d)
    PROVE  SoundAt(d)'
<1> DEFINE h == http[d]
           sh == shared[d]
           view == [sh EXCEPT !.server = ViewOf(h.st)]
           contained == ~h.st.present \/ (~sh.needsCkpt /\ contains_frontier(doc[d], h.st.content))
<1>1. /\ h.step = "pull"
      /\ \/ http' = [http EXCEPT ![d] = IdleHttp] /\ shared' = [shared EXCEPT ![d] = view]
         \/ /\ contained /\ http' = [http EXCEPT ![d].step = "apply"]
            /\ shared' = [shared EXCEPT ![d] = HttpBase(view, h)]
         \/ /\ http' = [http EXCEPT ![d].step = "fetch", ![d].gap = FALSE]
            /\ shared' = [shared EXCEPT ![d] = view]
      /\ UNCHANGED <<up, down, ready, log, doc, written, actor, flush, disk>>
  BY DEF HttpState, roomVars, docVars
<1>2. /\ h \in Http /\ h.st \in State /\ sh \in Shared /\ log \in Seq(Batches)
      /\ http \in [Devices -> Http] /\ shared \in [Devices -> Shared]
  BY OwnEntries
<1>3. view \in Shared /\ view.cursor = sh.cursor
  BY <1>2, ViewType DEF Shared
<1>4. WholeState(h.st, log) /\ Owes(doc[d], h.st.seq, h.cur, log)
  BY <1>1 DEF SoundAt, Debts
<1> HIDE DEF view
<1>5. CASE http' = [http EXCEPT ![d] = IdleHttp] /\ shared' = [shared EXCEPT ![d] = view]
  <2>1. http'[d].step = "idle" /\ shared'[d].cursor = shared[d].cursor
    BY <1>2, <1>3, <1>5 DEF IdleHttp
  <2>2. Moved(doc'[d], shared[d].cursor, shared'[d].cursor, log')
    BY <1>2, <2>1 DEF Moved, Shared
  <2>3. QED
    BY <1>1, <2>1, <2>2, TaskSound
<1>6. CASE /\ contained /\ http' = [http EXCEPT ![d].step = "apply"]
           /\ shared' = [shared EXCEPT ![d] = HttpBase(view, h)]
  <2>1. Has(doc[d], h.st.seq, log)
    BY <1>2, <1>4, <1>6, ContainedHas
  <2>2. Moved(doc[d], view.cursor, HttpBase(view, h).cursor, log)
    BY <1>2, <1>3, <1>4, <2>1, BaseMoves
  <2>3. http'[d].step = "apply" /\ shared'[d] = HttpBase(view, h)
    BY <1>2, <1>6 DEF Http
  <2>4. Moved(doc'[d], shared[d].cursor, shared'[d].cursor, log')
    BY <1>1, <1>3, <2>2, <2>3
  <2>5. QED
    BY <1>1, <2>3, <2>4, TaskSound
<1>7. CASE /\ http' = [http EXCEPT ![d].step = "fetch", ![d].gap = FALSE]
           /\ shared' = [shared EXCEPT ![d] = view]
  <2>1. http'[d].st = http[d].st /\ http'[d].cur = http[d].cur
    BY <1>2, <1>7 DEF Http
  <2>2. shared'[d].cursor = shared[d].cursor
    BY <1>2, <1>3, <1>7
  <2>3. Moved(doc'[d], shared[d].cursor, shared'[d].cursor, log')
    BY <1>2, <2>2 DEF Moved, Shared
  <2>4. QED
    BY <1>1, <2>1, <2>2, <2>3, TaskSound
<1>8. QED
  BY <1>1, <1>5, <1>6, <1>7

\* The download of the HTTPS task.
LEMMA HttpFetchSound ==
    ASSUME RoadsInv, TypeOK', Grows, Contents, NEW d \in Devices, SoundAt(d), HttpFetch(d)
    PROVE  SoundAt(d)'
<1> DEFINE h == http[d]
<1>1. /\ h.step = "fetch" /\ Import(d, ckpt.content)
      /\ shared' = [shared EXCEPT ![d] = HttpBase(@, h)]
      /\ http' = [http EXCEPT ![d].step = "apply"]
      /\ UNCHANGED <<up, down, ready, log, floor, actor, flush, disk>>
  BY DEF HttpFetch, apply_checkpoint, roomVars
<1>2. /\ h \in Http /\ h.st \in State /\ h.st.seq \in Nat /\ h.cur \in Nat /\ shared[d] \in Shared
      /\ log \in Seq(Batches) /\ Extends(log, log) /\ floor \in Nat
      /\ http \in [Devices -> Http] /\ shared \in [Devices -> Shared]
  BY OwnEntries DEF Extends
<1>3. doc[d] \subseteq doc'[d] /\ UNCHANGED written /\ Has(doc'[d], floor, log)
  BY <1>1, CkptHas
<1>4. WholeState(h.st, log) /\ Owes(doc[d], h.st.seq, h.cur, log)
  BY <1>1 DEF SoundAt, Debts
<1>5. Has(doc'[d], h.st.seq, log)
  BY <1>2, <1>3, EntryTrue, HasLess DEF HttpIn
<1>6. Owes(doc'[d], h.st.seq, h.cur, log)
  BY <1>2, <1>3, <1>4, OwesMono
<1>7. Moved(doc'[d], shared[d].cursor, HttpBase(shared[d], h).cursor, log)
  BY <1>2, <1>4, <1>5, <1>6, BaseMoves
<1>8. http'[d].step = "apply" /\ shared'[d] = HttpBase(shared[d], h)
  BY <1>1, <1>2 DEF Http
<1>9. QED
  BY <1>1, <1>3, <1>7, <1>8, TaskSound

\* A row of the HTTPS task, and its end.
LEMMA HttpRowSound ==
    ASSUME RoadsInv, TypeOK', Grows, NEW d \in Devices, SoundAt(d), HttpRow(d)
    PROVE  SoundAt(d)'
<1> DEFINE r == FirstRow(http[d].rows)
           ok == r.batch \in Applied(d, {r.batch})
           sh == RowAdvance(shared[d], r, ok)
           act == [actor[d] EXCEPT !.gap = @ \/ (~ok /\ actor[d].phase = "fetch")]
<1>1. /\ http[d].rows # {} /\ http[d].step = "apply" /\ Import(d, {r.batch})
      /\ shared' = [shared EXCEPT ![d] = sh]
      /\ actor' = [actor EXCEPT ![d] = act]
      /\ http' = [http EXCEPT ![d].rows = @ \ {r}]
      /\ UNCHANGED <<up, down, ready, log, flush, disk>>
  BY DEF HttpRow, roomVars
<1>2. r \in Row /\ RowIn(r, log)
  <2>1. http[d].rows \in SUBSET Row /\ \A q \in http[d].rows : RowIn(q, log)
    BY OwnEntries, EntryTrue DEF Http, HttpIn
  <2>2. QED
    BY <1>1, <2>1, FirstRowIn
<1>3. act.phase = actor[d].phase /\ act.target = actor[d].target
  BY OwnEntries DEF Actor
<1> HIDE DEF r, act
<1>4. /\ doc[d] \subseteq doc'[d] /\ UNCHANGED written
      /\ Moved(doc'[d], shared[d].cursor, sh.cursor, log')
  BY <1>1, <1>2, RowImport
<1> HIDE DEF sh
<1>5. shared'[d] = sh /\ actor'[d] = act /\ http'[d].step = "apply"
  BY <1>1, OwnEntries DEF Http
<1>6. QED
  BY <1>1, <1>3, <1>4, <1>5, TaskSound

\* The HTTPS task ends, and owes nothing any more.
LEMMA HttpDoneSound ==
    ASSUME RoadsInv, TypeOK', Grows, NEW d \in Devices, SoundAt(d), HttpDone(d)
    PROVE  SoundAt(d)'
<1>1. /\ http' = [http EXCEPT ![d] = IdleHttp]
      /\ UNCHANGED <<up, down, ready, log, doc, written, shared, actor, flush, disk>>
  BY DEF HttpDone, roomVars, docVars, diskVars
<1>2. http'[d].step = "idle"
  BY <1>1, OwnEntries DEF IdleHttp
<1>3. Moved(doc'[d], shared[d].cursor, shared'[d].cursor, log')
  BY <1>1, OwnEntries DEF Moved
<1>4. QED
  BY <1>1, <1>2, <1>3, TaskSound


\* A dial or a request that fails, and a socket that dies.
LEMMA LossSound ==
    ASSUME RoadsInv, TypeOK', Grows, NEW d \in Devices, SoundAt(d),
           DialFails(d) \/ HttpFails(d) \/ Drop(d)
    PROVE  SoundAt(d)'
<1>1. CASE DialFails(d)
  <2>1. /\ http' = [http EXCEPT ![d] = spawn_offline_sync(d, @, shared[d].pending)]
        /\ UNCHANGED <<up, down, ready, log, doc, written, shared, actor, flush, disk>>
    BY <1>1 DEF DialFails, docVars, diskVars
  <2>2. http'[d] = spawn_offline_sync(d, http[d], shared[d].pending)
    BY <2>1, OwnEntries
  <2>3. http'[d].step \in {"pull", "fetch"} => http'[d] = http[d]
    BY <2>2, SpawnStill
  <2>4. Moved(doc'[d], shared[d].cursor, shared'[d].cursor, log')
    BY <2>1, OwnEntries DEF Moved
  <2>5. QED
    BY <2>1, <2>3, <2>4, TaskSound
<1>2. CASE HttpFails(d)
  <2> DEFINE h == IF http[d].step \in {"push", "ack"}
                  THEN [http[d] EXCEPT !.step = "push", !.todo = {}] ELSE IdleHttp
  <2>1. /\ http' = [http EXCEPT ![d] = h]
        /\ UNCHANGED <<up, down, ready, log, doc, written, shared, actor, flush, disk>>
    BY <1>2 DEF HttpFails, docVars, diskVars
  <2>2. h.step \notin {"pull", "fetch"}
    BY OwnEntries DEF Http, IdleHttp
  <2> HIDE DEF h
  <2>3. http'[d].step \notin {"pull", "fetch"}
    BY <2>1, <2>2, OwnEntries
  <2>4. Moved(doc'[d], shared[d].cursor, shared'[d].cursor, log')
    BY <2>1, OwnEntries DEF Moved
  <2>5. QED
    BY <2>1, <2>3, <2>4, TaskSound
<1>3. CASE Drop(d)
  <2>1. /\ HangUp(d, shared[d], http[d])
        /\ UNCHANGED <<log, doc, written, flush, disk>>
    BY <1>3 DEF Drop, docVars, diskVars
  <2>2. /\ shared'[d] = shared[d] /\ actor'[d].phase = "down"
        /\ up'[d] = <<>> /\ down'[d] = <<>> /\ ~ready'[d]
        /\ http'[d].step \in {"pull", "fetch"} => http'[d] = http[d]
    BY <2>1, HangUpLeaves
  <2>3. SameDebts(actor[d], actor'[d], down[d], down'[d], http[d], http'[d], floor', log')
    BY <2>2 DEF SameDebts
  <2>4. QED
    BY <2>1, <2>2, <2>3, StillSound
<1>4. QED
  BY <1>1, <1>2, <1>3

\* An upload touches neither the cursor nor the session.
LEMMA UploadSound ==
    ASSUME RoadsInv, TypeOK', Grows, NEW d \in Devices, SoundAt(d),
           CheckpointStep(d) \/ CheckpointTimeout(d)
    PROVE  SoundAt(d)'
<1>1. /\ UNCHANGED <<up, down, ready, doc, written, http, flush, disk>>
      /\ actor'[d].phase = actor[d].phase /\ actor'[d].target = actor[d].target
      /\ shared'[d].cursor = shared[d].cursor
  <2>1. CASE CheckpointBegin(d)
    <3> DEFINE act == Served(actor[d], shared[d].server)
    <3>1. /\ UNCHANGED <<up, down, ready, doc, written, shared, http, flush, disk>>
          /\ actor' = [actor EXCEPT ![d] = act]
      BY <2>1 DEF CheckpointBegin, roomVars, docVars, diskVars
    <3>2. act.phase = actor[d].phase /\ act.target = actor[d].target
      BY OwnEntries DEF Served, Actor
    <3> HIDE DEF act
    <3>3. QED
      BY <3>1, <3>2, OwnEntries
  <2>2. CASE CheckpointExport(d) \/ CheckpointTimeout(d)
    BY <2>2 DEF CheckpointExport, CheckpointTimeout, roomVars, docVars, diskVars
  <2>3. CASE CheckpointPost(d)
    <3>1. /\ UNCHANGED <<up, down, ready, doc, written, actor, http, flush, disk>>
          /\ \/ shared' = [shared EXCEPT ![d].server =
                   IF @.known THEN [known |-> TRUE, present |-> TRUE, many |-> FALSE] ELSE @]
             \/ UNCHANGED shared
      BY <2>3 DEF CheckpointPost, docVars
    <3>2. QED
      BY <3>1, OwnEntries DEF Shared
  <2>4. QED
    BY <2>1, <2>2, <2>3 DEF CheckpointStep
<1>2. Told(d) /\ Owned(d)' = Owned(d)
  BY <1>1, Unheard DEF Owned
<1>3. QED
  BY <1>1, <1>2, ToldSound

\* A device that stays up never writes its snapshot.
LEMMA NoFlush ==
    ASSUME NEW d \in Devices \ Crashers, SoundAt(d)
    PROVE  ~FlushStep(d) /\ ~Crash(d)
BY DEF FlushStep, FlushBegin, FlushCommit, Crash, SoundAt

-----------------------------------------------------------------------------
(* The devices that stay up keep a sound cursor.                           *)

\* Everything the room and its readers build on grows.
LEMMA NextGrows ==
    ASSUME RoadsInv, Next
    PROVE  Grows
<1>0. TypeOK /\ RoomTypeOK /\ log \in Seq(Batches) /\ floor \in Nat /\ Extends(log, log)
  BY LogTyped DEF Extends
<1>1. ASSUME NEW b \in Batches, appendRow(b), UNCHANGED <<floor, written>> PROVE Grows
  <2>1. Extends(log, log')
    BY <1>0, <1>1, AppendTrue
  <2>2. QED
    BY <1>0, <1>1, <2>1 DEF Grows
<1>2. ASSUME NEW n, NEW S, Committable(n), commitCheckpoint(n, S), UNCHANGED <<log, written>>
      PROVE  Grows
  BY <1>0, <1>2 DEF Grows, Committable, commitCheckpoint
<1>3. ASSUME UNCHANGED <<log, floor, written>> PROVE Grows
  BY <1>0, <1>3, GrowsKept
<1>4. ASSUME NEW d \in Devices, NEW b \in Batches, enqueue_batch(d, b) PROVE Grows
  <2>1. written' = written \cup {b} /\ UNCHANGED <<log, floor>>
    BY <1>4 DEF enqueue_batch, roomVars
  <2>2. QED
    BY <1>0, <2>1 DEF Grows
<1>5. ASSUME NEW d \in Devices, RoomStep(d) \/ refusePush(d), UNCHANGED clientVars PROVE Grows
  <2>1. UNCHANGED <<floor, written>>
    BY <1>5 DEF RoomStep, handleHello, handleRowsReq, handlePush, refusePush, clientVars, docVars
  <2>2. CASE handlePush(d)
    <3>1. First(Head(up[d]).batches) \in Batches /\ appendRow(First(Head(up[d]).batches))
      BY <1>0, <2>2, PushedBatch DEF handlePush
    <3>2. QED
      BY <1>1, <2>1, <3>1
  <2>3. CASE ~handlePush(d)
    <3>1. UNCHANGED log
      BY <1>5, <2>3 DEF RoomStep, handleHello, handleRowsReq, refusePush
    <3>2. QED
      BY <1>3, <2>1, <3>1
  <2>4. QED
    BY <2>2, <2>3
<1>6. ASSUME NEW d \in Devices, SessionStep(d) PROVE Grows
  <2>1. UNCHANGED <<log, floor, written>>
    BY <1>6 DEF SessionStep, Dial, RecvState, FetchCheckpoint, RecvRow, RecvAck, RecvQuota,
       RecvDone, push_pending, push_head, apply_checkpoint, Import, roomVars, docVars
  <2>2. QED
    BY <1>3, <2>1
<1>7. ASSUME NEW d \in Devices, HttpStep(d) PROVE Grows
  <2>1. UNCHANGED <<floor, written>>
    BY <1>7 DEF HttpStep, HttpPush, HttpAck, HttpPull, HttpState, HttpFetch, HttpRow, HttpDone,
       postRow, apply_checkpoint, Import, roomVars, docVars
  <2>2. CASE HttpPush(d)
    <3>1. http[d].todo \in SUBSET Batches /\ http[d].todo # {}
      BY <2>2, OwnEntries DEF HttpPush, Http
    <3>2. First(http[d].todo) \in Batches /\ appendRow(First(http[d].todo))
      BY <2>2, <3>1, FirstIn DEF HttpPush, postRow
    <3>3. QED
      BY <1>1, <2>1, <3>2
  <2>3. CASE ~HttpPush(d)
    <3>1. UNCHANGED log
      BY <1>7, <2>3 DEF HttpStep, HttpAck, HttpPull, HttpState, HttpFetch, HttpRow, HttpDone, roomVars
    <3>2. QED
      BY <1>3, <2>1, <3>1
  <2>4. QED
    BY <2>2, <2>3
<1>8. ASSUME NEW d \in Devices, CheckpointStep(d) PROVE Grows
  <2>1. UNCHANGED <<log, written>>
    BY <1>8 DEF CheckpointStep, CheckpointBegin, CheckpointExport, CheckpointPost, roomVars, docVars
  <2>2. \/ UNCHANGED floor
        \/ Committable(post[d].covered) /\ commitCheckpoint(post[d].covered, post[d].content)
    BY <1>8 DEF CheckpointStep, CheckpointBegin, CheckpointExport, CheckpointPost, roomVars
  <2>3. QED
    BY <1>2, <1>3, <2>1, <2>2
<1>9. ASSUME NEW d \in Devices, \/ FlushStep(d) \/ Drop(d) \/ DialFails(d) \/ HttpFails(d)
                               \/ Crash(d) \/ CheckpointTimeout(d)
      PROVE  Grows
  <2>1. UNCHANGED <<log, floor, written>>
    BY <1>9 DEF FlushStep, FlushBegin, FlushCommit, Drop, DialFails, HttpFails, Crash,
       CheckpointTimeout, roomVars, docVars
  <2>2. QED
    BY <1>3, <2>1
<1>10. ASSUME NEW b \in stray, handleStrayPush(b), UNCHANGED clientVars PROVE Grows
  <2>1. b \in Batches
    BY <1>0 DEF RoomTypeOK
  <2>2. appendRow(b) /\ UNCHANGED <<floor, written>>
    BY <1>10 DEF handleStrayPush, postRow, clientVars, docVars
  <2>3. QED
    BY <1>1, <2>1, <2>2
<1>11. ASSUME NEW p \in late, handleLateCheckpoint(p), UNCHANGED clientVars PROVE Grows
  <2>1. UNCHANGED <<log, written>>
    BY <1>11 DEF handleLateCheckpoint, clientVars, docVars
  <2>2. CASE Committable(p.covered)
    <3>1. commitCheckpoint(p.covered, p.content)
      BY <1>11, <2>2 DEF handleLateCheckpoint
    <3>2. QED
      BY <1>2, <2>1, <2>2, <3>1
  <2>3. CASE ~Committable(p.covered)
    <3>1. UNCHANGED floor
      BY <1>11, <2>3 DEF handleLateCheckpoint
    <3>2. QED
      BY <1>3, <2>1, <3>1
  <2>4. QED
    BY <2>2, <2>3
<1>12. ASSUME \E d \in Devices :
                  \/ \E b \in Batches : enqueue_batch(d, b)
                  \/ RoomStep(d) /\ UNCHANGED clientVars
                  \/ SessionStep(d)
                  \/ HttpStep(d)
                  \/ FlushStep(d)
                  \/ CheckpointStep(d)
                  \/ Fault(d)
       PROVE  Grows
  <2>1. PICK d \in Devices :
            \/ \E b \in Batches : enqueue_batch(d, b)
            \/ RoomStep(d) /\ UNCHANGED clientVars
            \/ SessionStep(d)
            \/ HttpStep(d)
            \/ FlushStep(d)
            \/ CheckpointStep(d)
            \/ Fault(d)
    BY <1>12
  <2>2. CASE \E b \in Batches : enqueue_batch(d, b)
    BY <2>2, <1>4
  <2>3. CASE RoomStep(d) /\ UNCHANGED clientVars
    BY <2>3, <1>5
  <2>4. CASE SessionStep(d) \/ HttpStep(d)
    BY <2>4, <1>6, <1>7
  <2>5. CASE FlushStep(d) \/ CheckpointStep(d) \/ Fault(d)
    BY <2>5, <1>5, <1>8, <1>9 DEF Fault
  <2>6. QED
    BY <2>1, <2>2, <2>3, <2>4, <2>5
<1>13. CASE \E b \in stray : handleStrayPush(b) /\ UNCHANGED clientVars
  BY <1>10, <1>13
<1>14. CASE \E p \in late : handleLateCheckpoint(p) /\ UNCHANGED clientVars
  BY <1>11, <1>14
<1>15. QED
  BY <1>12, <1>13, <1>14, Zenon DEF Next


\* A step of device e, or of the room, keeps device d sound.
LEMMA SoundStep ==
    ASSUME RoadsInv, SoundInv, TypeOK', Next, NEW d \in Devices \ Crashers
    PROVE  SoundAt(d)'
<1>1. SoundAt(d) /\ Contents /\ Grows /\ TypeOK /\ d \in Devices
  BY NextGrows, LogTyped DEF SoundInv
<1>2. ASSUME NEW e \in Devices, NEW b \in Batches, enqueue_batch(e, b) PROVE SoundAt(d)'
  BY <1>1, <1>2, WriteSound, WriteApart, ApartSound
<1>3. ASSUME UNCHANGED clientVars, Told(d) PROVE SoundAt(d)'
  BY <1>1, <1>3, RoomApart, ApartSound
<1>4. ASSUME NEW e \in Devices, RoomStep(e) \/ refusePush(e), UNCHANGED clientVars PROVE SoundAt(d)'
  BY <1>1, <1>3, <1>4, HelloTold, RowsReqTold, PushTold, RefuseTold DEF RoomStep
<1>5. ASSUME NEW e \in Devices, SessionStep(e) PROVE SoundAt(d)'
  <2>1. CASE e = d
    BY <1>1, <1>5, <2>1, DialSound, RecvStateSound, FetchSound, RecvRowSound, RecvAckSound,
       RecvQuotaDoneSound DEF SessionStep
  <2>2. CASE e # d
    BY <1>1, <1>5, <2>2, SessionApart, ApartSound
  <2>3. QED
    BY <2>1, <2>2
<1>6. ASSUME NEW e \in Devices, HttpStep(e) PROVE SoundAt(d)'
  <2>1. CASE e = d
    BY <1>1, <1>6, <2>1, HttpPushSound, HttpAckSound, HttpPullSound, HttpStateSound,
       HttpFetchSound, HttpRowSound, HttpDoneSound DEF HttpStep
  <2>2. CASE e # d
    BY <1>1, <1>6, <2>2, HttpApart, ApartSound
  <2>3. QED
    BY <2>1, <2>2
<1>7. ASSUME NEW e \in Devices, \/ FlushStep(e) \/ CheckpointStep(e) \/ CheckpointTimeout(e)
                               \/ Drop(e) \/ DialFails(e) \/ HttpFails(e) \/ Crash(e)
      PROVE  SoundAt(d)'
  <2>1. CASE e = d
    BY <1>1, <1>7, <2>1, NoFlush, UploadSound, LossSound
  <2>2. CASE e # d
    BY <1>1, <1>7, <2>2, RestApart, ApartSound
  <2>3. QED
    BY <2>1, <2>2
<1>8. ASSUME NEW b \in stray, handleStrayPush(b), UNCHANGED clientVars PROVE SoundAt(d)'
  <2>1. b \in Batches
    BY <1>1 DEF TypeOK, RoomTypeOK
  <2>2. Told(d)
    BY <1>1, <1>8, <2>1, PostTold DEF handleStrayPush
  <2>3. QED
    BY <1>3, <1>8, <2>2
<1>9. ASSUME NEW p \in late, handleLateCheckpoint(p), UNCHANGED clientVars PROVE SoundAt(d)'
  BY <1>3, <1>9, Unheard DEF handleLateCheckpoint
<1>10. ASSUME \E e \in Devices :
                  \/ \E b \in Batches : enqueue_batch(e, b)
                  \/ RoomStep(e) /\ UNCHANGED clientVars
                  \/ SessionStep(e)
                  \/ HttpStep(e)
                  \/ FlushStep(e)
                  \/ CheckpointStep(e)
                  \/ Fault(e)
       PROVE  SoundAt(d)'
  <2>1. PICK e \in Devices :
            \/ \E b \in Batches : enqueue_batch(e, b)
            \/ RoomStep(e) /\ UNCHANGED clientVars
            \/ SessionStep(e)
            \/ HttpStep(e)
            \/ FlushStep(e)
            \/ CheckpointStep(e)
            \/ Fault(e)
    BY <1>10
  <2>2. CASE \E b \in Batches : enqueue_batch(e, b)
    BY <2>2, <1>2
  <2>3. CASE RoomStep(e) /\ UNCHANGED clientVars
    BY <2>3, <1>4
  <2>4. CASE SessionStep(e) \/ HttpStep(e)
    BY <2>4, <1>5, <1>6
  <2>5. CASE FlushStep(e) \/ CheckpointStep(e) \/ Fault(e)
    BY <2>5, <1>4, <1>7 DEF Fault
  <2>6. QED
    BY <2>1, <2>2, <2>3, <2>4, <2>5
<1>11. CASE \E b \in stray : handleStrayPush(b) /\ UNCHANGED clientVars
  BY <1>8, <1>11
<1>12. CASE \E p \in late : handleLateCheckpoint(p) /\ UNCHANGED clientVars
  BY <1>9, <1>12
<1>13. QED
  BY <1>10, <1>11, <1>12, Zenon DEF Next

\* Every step keeps the invariant ...
LEMMA SoundNext == RoadsInv /\ SoundInv /\ Next /\ TypeOK' => SoundInv'
<1> SUFFICES ASSUME RoadsInv, SoundInv, Next, TypeOK' PROVE SoundInv'
  OBVIOUS
<1>1. Contents'
  BY ContentsNext DEF SoundInv
<1>2. \A d \in Devices \ Crashers : SoundAt(d)'
  BY SoundStep
<1>3. QED
  BY <1>1, <1>2 DEF SoundInv

\* ... and so does one that changes nothing.
LEMMA SoundStutter == SoundInv /\ UNCHANGED vars => SoundInv'
<1> SUFFICES ASSUME SoundInv, UNCHANGED vars PROVE SoundInv'
  OBVIOUS
<1>1. UNCHANGED <<floor, ckpt, late, deps, post, log, up, down, ready, written, doc, flush,
                  disk, actor, shared, http>>
  BY DEF vars, roomVars, clientVars, docVars, diskVars
<1>2. Contents'
  BY <1>1, ContentsKept DEF SoundInv
<1>3. \A d \in Devices \ Crashers : SoundAt(d)'
  BY <1>1 DEF SoundInv, SoundAt, Owned, Debts, Owes, Has, WholeState
<1>4. QED
  BY <1>2, <1>3 DEF SoundInv

\* It holds of an empty room.
LEMMA SoundInit == Init => SoundInv
<1> SUFFICES ASSUME Init PROVE SoundInv
  OBVIOUS
<1>1. /\ log = <<>> /\ Len(log) = 0 /\ floor = 0 /\ ckpt.content = {} /\ late = {} /\ written = {}
  BY DEF Init, RoomInit
<1>2. Contents
  BY <1>1 DEF Init, Contents, Closed, IdlePost
<1>3. ASSUME NEW d \in Devices PROVE SoundAt(d)
  <2>1. /\ doc[d] = {} /\ up[d] = <<>> /\ down[d] = <<>> /\ ready[d] = FALSE /\ flush[d] = -1
        /\ disk[d] = [content |-> {}, cursor |-> 0]
        /\ actor[d] = DownActor(FALSE, TRUE, FALSE) /\ shared[d] = NewShared(0, {})
        /\ http[d] = spawn_offline_sync(d, IdleHttp, {})
    BY DEF Init, RoomInit
  <2>2. actor[d].phase = "down" /\ shared[d].cursor = 0
    BY <2>1 DEF DownActor, NewShared
  <2>3. http[d].step \notin {"pull", "fetch"}
    BY <2>1 DEF spawn_offline_sync, IdleHttp
  <2>4. Debts(doc[d], actor[d], shared[d], http[d], down[d], floor, log)
    BY <1>1, <2>2, <2>3 DEF Debts, Owes
  <2>5. QED
    BY <1>1, <2>1, <2>4 DEF SoundAt, Owned
<1>4. QED
  BY <1>2, <1>3 DEF SoundInv

\* What a cursor covers is in the document of a joined session.
LEMMA SoundCovers ==
    ASSUME RoadsInv, SoundInv, NEW d \in Devices \ Crashers, Receiving(d)
    PROVE  Covered(shared[d].cursor) \subseteq doc[d]
<1>1. Has(doc[d], shared[d].cursor, log) /\ shared[d].cursor \in Nat /\ Len(log) \in Nat
  BY OwnEntries DEF SoundInv, SoundAt, Debts, Receiving
<1>2. QED
  BY <1>1 DEF Covered, Has, headSeq

\* The next catch-up of such a device, joined or not, skips nothing: what its
\* cursor may owe, the checkpoint it would read first has.
LEMMA SoundRecovers ==
    ASSUME RoadsInv, SoundInv, NEW d \in Devices \ Crashers
    PROVE  /\ CatchUpSkipsNothing(doc[d] \cup parked[d], shared[d].cursor, shared[d].needsCkpt)
           /\ CatchUpSkipsNothing(disk[d].content, disk[d].cursor, FALSE)
<1>1. /\ log \in Seq(Batches) /\ Len(log) \in Nat /\ floor \in Nat /\ floor <= Len(log)
      /\ Has(ckpt.content, floor, log) /\ (ckpt.present \/ floor = 0) /\ d \in Devices
  BY LogTyped DEF Roads, CheckpointsWhole, SoundInv, Contents
<1>2. ASSUME NEW S, NEW k \in Nat, NEW needs \in BOOLEAN, Owes(S, floor, k, log)
      PROVE  CatchUpSkipsNothing(S, k, needs)
  <2> DEFINE contained == ~ckpt.present \/ (~needs /\ contains_frontier(S, ckpt.content))
             plan == plan_catch_up(k, logStats, contained)
             read == S \cup (IF plan.fetch THEN ckpt.content ELSE {})
  <2>1. /\ plan.after \in {0, k, floor} /\ (ckpt.present /\ ~contained => plan.fetch)
        /\ (~ckpt.present => plan.after \in {0, k})
    BY DEF plan_catch_up, logStats, Larger
  <2>2. ASSUME NEW s \in 1 .. Len(log), s <= plan.after PROVE log[s] \in read
    <3>1. CASE s > floor
      <4>1. s <= k
        BY <1>1, <2>1, <2>2, <3>1
      <4>2. QED
        BY <1>1, <1>2, <2>2, <3>1, <4>1 DEF Owes
    <3>2. CASE s <= floor
      <4>1. log[s] \in ckpt.content /\ ckpt.present
        BY <1>1, <2>2, <3>2 DEF Has
      <4>2. CASE contained
        BY <4>1, <4>2 DEF contains_frontier
      <4>3. CASE ~contained
        BY <2>1, <4>1, <4>3
      <4>4. QED
        BY <4>2, <4>3
    <3>3. QED
      BY <1>1, <3>1, <3>2
  <2> HIDE DEF plan
  <2>3. Covered(plan.after) \subseteq read
    BY <2>2 DEF Covered, headSeq
  <2>4. QED
    BY <2>3 DEF CatchUpSkipsNothing, plan
<1>3. /\ Owes(doc[d], floor, shared[d].cursor, log) /\ disk[d] = [content |-> {}, cursor |-> 0]
      /\ shared[d].cursor \in Nat /\ shared[d].needsCkpt \in BOOLEAN
  BY OwnEntries DEF SoundInv, SoundAt, Debts, Shared
<1>4. Owes(doc[d] \cup parked[d], floor, shared[d].cursor, log) /\ Owes(disk[d].content, floor, disk[d].cursor, log)
  BY <1>1, <1>3 DEF Owes
<1>5. disk[d].cursor \in Nat
  BY <1>3
<1>6. QED
  BY <1>2, <1>3, <1>4, <1>5

-----------------------------------------------------------------------------
(* What a step does to the documents and the log.                          *)

\* A device is told, by a row or by a checkpoint, of updates that were made.
Learns(d) == \E S \in SUBSET written : Import(d, S) /\ UNCHANGED log

\* The room numbers an update that was made.
Numbers == \E b \in written : appendRow(b) /\ UNCHANGED docVars

\* Rows and checkpoints contain updates that were made.
LEMMA Imports ==
    ASSUME RoadsInv, NEW d \in Devices,
           RecvRow(d) \/ HttpRow(d) \/ FetchCheckpoint(d) \/ HttpFetch(d)
    PROVE  Learns(d)
<1>1. CASE RecvRow(d) \/ HttpRow(d)
  <2>1. PICK r \in Row : RowIn(r, log) /\ Import(d, {r.batch}) /\ UNCHANGED log
    <3>1. CASE RecvRow(d)
      <4>1. /\ DownHead(d, "rows") /\ Import(d, {FirstRow(Head(down[d]).rows).batch})
            /\ UNCHANGED log
        BY <3>1 DEF RecvRow
      <4>2. FirstRow(Head(down[d]).rows) \in Row /\ RowIn(FirstRow(Head(down[d]).rows), log)
        BY <4>1, OwnEntries, EntryTrue, AfterRowTrue DEF DownHead
      <4>3. QED
        BY <4>1, <4>2
    <3>2. CASE HttpRow(d)
      <4>1. /\ http[d].rows # {} /\ Import(d, {FirstRow(http[d].rows).batch}) /\ UNCHANGED log
        BY <3>2 DEF HttpRow, roomVars
      <4>2. http[d].rows \in SUBSET Row /\ \A q \in http[d].rows : RowIn(q, log)
        BY OwnEntries, EntryTrue DEF Http, HttpIn
      <4>3. FirstRow(http[d].rows) \in http[d].rows
        BY <4>1, <4>2, FirstRowIn
      <4>4. QED
        BY <4>1, <4>2, <4>3
    <3>3. QED
      BY <1>1, <3>1, <3>2
  <2>2. r.batch \in Range(log)
    BY <2>1, LogTyped DEF RowIn, Range
  <2>3. {r.batch} \in SUBSET written
    BY <2>2, LogTyped DEF Roads, LogWritten
  <2>4. QED
    BY <2>1, <2>3 DEF Learns
<1>2. CASE FetchCheckpoint(d) \/ HttpFetch(d)
  <2>1. Import(d, ckpt.content) /\ UNCHANGED log
    BY <1>2 DEF FetchCheckpoint, HttpFetch, apply_checkpoint, roomVars
  <2>2. ckpt.content \in SUBSET written
    BY LogTyped DEF Roads, CheckpointsWhole
  <2>3. QED
    BY <2>1, <2>2 DEF Learns
<1>3. QED
  BY <1>1, <1>2

\* A pushed or posted update was made.
LEMMA Numbered ==
    ASSUME RoadsInv,
           \/ \E d \in Devices : \/ handlePush(d) /\ UNCHANGED clientVars
                                 \/ HttpPush(d)
           \/ \E b \in stray : handleStrayPush(b) /\ UNCHANGED clientVars
    PROVE  Numbers
<1>1. ASSUME NEW d \in Devices, handlePush(d), UNCHANGED clientVars PROVE Numbers
  <2>1. TakePush(d) /\ UpHead(d, "push") /\ appendRow(First(Head(up[d]).batches)) /\ UNCHANGED docVars
    BY <1>1 DEF handlePush, clientVars
  <2>2. up[d] \in Seq(UpFrames) /\ up[d] # <<>> /\ Head(up[d]).t = "push"
    BY <2>1, OwnEntries DEF UpHead
  <2>3. Head(up[d]).batches \in SUBSET Batches /\ Head(up[d]).batches # {}
    BY <2>2, PushHead
  <2>4. Head(up[d]).batches \subseteq Owned(d)
    BY <2>2, EntryTrue, UpRead
  <2>5. First(Head(up[d]).batches) \in written
    BY <2>3, <2>4, FirstIn DEF Owned
  <2>6. QED
    BY <2>1, <2>5 DEF Numbers
<1>2. ASSUME NEW d \in Devices, HttpPush(d) PROVE Numbers
  <2>1. http[d].todo # {} /\ appendRow(First(http[d].todo)) /\ UNCHANGED docVars
    BY <1>2 DEF HttpPush, postRow
  <2>2. http[d].todo \in SUBSET Batches /\ http[d].todo \subseteq written
    BY OwnEntries, EntryTrue DEF Http, HttpIn, Owned
  <2>3. First(http[d].todo) \in written
    BY <2>1, <2>2, FirstIn
  <2>4. QED
    BY <2>1, <2>3 DEF Numbers
<1>3. ASSUME NEW b \in stray, handleStrayPush(b), UNCHANGED clientVars PROVE Numbers
  <2>1. appendRow(b) /\ UNCHANGED docVars
    BY <1>3 DEF handleStrayPush, postRow, clientVars
  <2>2. b \in written
    BY LogTyped DEF Roads, LogWritten
  <2>3. QED
    BY <2>1, <2>2 DEF Numbers
<1>4. QED
  BY <1>1, <1>2, <1>3

\* Every step writes, learns, numbers, forgets, or leaves all of this alone.
LEMMA StepKinds ==
    ASSUME RoadsInv, Next
    PROVE  \/ \E d \in Devices, b \in Batches : enqueue_batch(d, b)
           \/ \E d \in Devices : Learns(d) \/ Crash(d)
           \/ Numbers
           \/ UNCHANGED <<log, docVars>>
<1> DEFINE Kind == \/ \E d \in Devices, b \in Batches : enqueue_batch(d, b)
                   \/ \E d \in Devices : Learns(d) \/ Crash(d)
                   \/ Numbers
                   \/ UNCHANGED <<log, docVars>>
<1>1. ASSUME NEW d \in Devices, RoomStep(d) \/ refusePush(d), UNCHANGED clientVars PROVE Kind
  <2>1. CASE handlePush(d)
    BY <1>1, <2>1, Numbered
  <2>2. CASE ~handlePush(d)
    BY <1>1, <2>2 DEF RoomStep, handleHello, handleRowsReq, refusePush, clientVars
  <2>3. QED
    BY <2>1, <2>2
<1>2. ASSUME NEW d \in Devices, SessionStep(d) PROVE Kind
  <2>1. CASE RecvRow(d) \/ FetchCheckpoint(d)
    BY <2>1, Imports
  <2>2. CASE ~(RecvRow(d) \/ FetchCheckpoint(d))
    <3>1. UNCHANGED <<log, docVars>>
      BY <1>2, <2>2 DEF SessionStep, Dial, RecvState, RecvAck, RecvQuota, RecvDone, push_pending,
         push_head
    <3>2. QED
      BY <3>1
  <2>3. QED
    BY <2>1, <2>2
<1>3. ASSUME NEW d \in Devices, HttpStep(d) PROVE Kind
  <2>1. CASE HttpRow(d) \/ HttpFetch(d)
    BY <2>1, Imports
  <2>2. CASE HttpPush(d)
    BY <2>2, Numbered
  <2>3. CASE HttpAck(d) \/ HttpPull(d) \/ HttpState(d) \/ HttpDone(d)
    <3>1. UNCHANGED <<log, docVars>>
      BY <2>3 DEF HttpAck, HttpPull, HttpState, HttpDone, roomVars
    <3>2. QED
      BY <3>1
  <2>4. QED
    BY <1>3, <2>1, <2>2, <2>3 DEF HttpStep
<1>4. ASSUME NEW d \in Devices, \/ FlushStep(d) \/ CheckpointStep(d) \/ CheckpointTimeout(d)
                               \/ Drop(d) \/ DialFails(d) \/ HttpFails(d)
      PROVE  Kind
  <2>1. UNCHANGED <<log, docVars>>
    BY <1>4 DEF FlushStep, FlushBegin, FlushCommit, CheckpointStep, CheckpointBegin, CheckpointExport,
       CheckpointPost, CheckpointTimeout, Drop, DialFails, HttpFails, roomVars
  <2>2. QED
    BY <2>1
<1>5. ASSUME NEW b \in stray, handleStrayPush(b), UNCHANGED clientVars PROVE Kind
  BY <1>5, Numbered
<1>6. ASSUME NEW p \in late, handleLateCheckpoint(p), UNCHANGED clientVars PROVE Kind
  BY <1>6 DEF handleLateCheckpoint, clientVars
<1>7. ASSUME \E d \in Devices :
                  \/ \E b \in Batches : enqueue_batch(d, b)
                  \/ RoomStep(d) /\ UNCHANGED clientVars
                  \/ SessionStep(d)
                  \/ HttpStep(d)
                  \/ FlushStep(d)
                  \/ CheckpointStep(d)
                  \/ Fault(d)
       PROVE  Kind
  <2>1. PICK d \in Devices :
            \/ \E b \in Batches : enqueue_batch(d, b)
            \/ RoomStep(d) /\ UNCHANGED clientVars
            \/ SessionStep(d)
            \/ HttpStep(d)
            \/ FlushStep(d)
            \/ CheckpointStep(d)
            \/ Fault(d)
    BY <1>7
  <2>2. CASE \E b \in Batches : enqueue_batch(d, b)
    BY <2>2
  <2>3. CASE RoomStep(d) /\ UNCHANGED clientVars
    BY <2>3, <1>1
  <2>4. CASE SessionStep(d) \/ HttpStep(d)
    BY <2>4, <1>2, <1>3
  <2>5. CASE FlushStep(d) \/ CheckpointStep(d)
    BY <2>5, <1>4
  <2>6. CASE Fault(d)
    BY <2>6, <1>1, <1>4 DEF Fault
  <2>7. QED
    BY <2>1, <2>2, <2>3, <2>4, <2>5, <2>6
<1> HIDE DEF Kind
<1>8. ASSUME \E b \in stray : handleStrayPush(b) /\ UNCHANGED clientVars PROVE Kind
  BY <1>5, <1>8
<1>9. ASSUME \E p \in late : handleLateCheckpoint(p) /\ UNCHANGED clientVars PROVE Kind
  BY <1>6, <1>9
<1>10. Kind
  BY <1>7, <1>8, <1>9, Zenon DEF Next
<1>11. QED
  BY <1>10 DEF Kind

\* What a device learns it keeps, and the others keep theirs.
LEMMA LearnsHeld ==
    ASSUME RoadsInv, NEW d \in Devices, NEW S \in SUBSET written, Import(d, S)
    PROVE  /\ DocsGrow /\ UNCHANGED written /\ Held(d)' = Held(d) \cup S
           /\ \A e \in Devices \ {d} : Held(e)' = Held(e)
<1>1. S \in SUBSET Batches
  BY LogTyped DEF TypeOK, ClientTypeOK
<1>2. /\ DocsGrow /\ UNCHANGED written /\ Held(d)' = Known(d, S)
      /\ \A e \in Devices \ {d} : Held(e)' = Held(e)
  BY <1>1, ImportTrue
<1>3. QED
  BY <1>2 DEF Known, Held

\* A local write adds to its author's document, and to nothing else.
LEMMA WriteHeld ==
    ASSUME TypeOK, NEW d \in Devices, NEW b \in Batches, enqueue_batch(d, b)
    PROVE  /\ DocsGrow /\ written' = written \cup {b} /\ Held(d)' = Held(d) \cup {b}
           /\ b \notin written /\ Author(b) = d /\ UNCHANGED log
           /\ \A e \in Devices \ {d} : Held(e)' = Held(e)
<1>1. /\ doc' = [doc EXCEPT ![d] = @ \cup {b}] /\ UNCHANGED <<parked, log>>
      /\ written' = written \cup {b} /\ b \notin written /\ Author(b) = d
  BY DEF enqueue_batch, roomVars
<1>2. doc \in [Devices -> SUBSET Batches]
  BY DEF TypeOK, ClientTypeOK
<1>3. QED
  BY <1>1, <1>2 DEF DocsGrow, Held

-----------------------------------------------------------------------------
(* The invariants, together.                                               *)

ChatInv == RoadsInv /\ SoundInv

\* The empty chat has the invariant.
LEMMA ChatStart == Init => ChatInv
BY RoadsInit, SoundInit DEF ChatInv

\* Every step whose upload is honest keeps the invariant.
LEMMA ChatStep == ChatInv /\ [Next]_vars /\ [UploadsHonest]_vars => ChatInv'
<1> SUFFICES ASSUME ChatInv, [Next]_vars, [UploadsHonest]_vars PROVE ChatInv'
  OBVIOUS
<1>1. CASE UNCHANGED vars
  BY <1>1, RoadsStutter, SoundStutter DEF ChatInv
<1>2. CASE Next /\ UploadsHonest
  <2>1. RoadsInv'
    BY <1>2, RoadsNext DEF ChatInv
  <2>2. TypeOK'
    BY <2>1 DEF RoadsInv, JournalInv
  <2>3. QED
    BY <1>2, <2>1, <2>2, SoundNext DEF ChatInv
<1>3. QED
  BY <1>1, <1>2

\* An upload of a session that has caught up is honest.
LEMMA JoinedHonest == ChatInv /\ [UploadsJoined]_vars => [UploadsHonest]_vars
BY SoundCovers DEF ChatInv, UploadsJoined, UploadsHonest

\* The cursors, when no process dies.
LEMMA CursorsSound ==
    ASSUME Crashers = {}
    PROVE  ChatInv => CursorHonest /\ CursorRecoverable
BY SoundCovers, SoundRecovers DEF ChatInv, CursorHonest, CursorRecoverable, Receiving

\* A session that has caught up has every update its cursor covers, and what a
\* cursor does not cover is still to be had (apply_remote_row advances the cursor over
\* what it applied, an acknowledgement only over the next number), when no
\* process dies and every upload begins with an honest cursor: across drops,
\* gap repairs, refusals, HTTPS catch-ups and checkpoints that overtake a row.
THEOREM CursorsSafe ==
    ASSUME Crashers = {}
    PROVE  Spec /\ [][UploadsHonest]_vars => [](CursorHonest /\ CursorRecoverable)
<1>1. QED
  BY ChatStart, ChatStep, CursorsSound, PTL DEF Spec

\* A room keeps every update when every upload is begun by a process that stays
\* up and whose session has caught up, any number of uploaders: the room can lose
\* what it has numbered only to an upload sampled between the dial and the fetch
\* of the checkpoint (spawn_chat2_checkpoint reads the cursor of a session that
\* has not read it), or by a process that restarted.
THEOREM JoinedUploadsSafe == Spec /\ [][UploadsJoined]_vars => []RoomKeepsEveryOp
<1>1. ChatInv => RoomKeepsEveryOp
  BY RoadsKeep DEF ChatInv
<1>2. QED
  BY <1>1, ChatStart, ChatStep, JoinedHonest, PTL DEF Spec

\* An update that fits in a row is in its author's journal, in the room's
\* checkpoint or in a live row.
RowUpdatesKept == \A b \in written \ Oversize : b \in outbox[Author(b)] \cup RoomOps

\* No update that fits in a row is lost, in a chat with any number of uploaders,
\* whichever processes die, if every upload begins with an honest cursor: the
\* outbox gives an update up only to the room's number (enqueue_batch,
\* acknowledge_chat_update), and commitCheckpoint prunes only what a checkpoint
\* has.
THEOREM RowUpdatesSafe == Spec /\ [][UploadsHonest]_vars => []RowUpdatesKept
<1>1. ASSUME ChatInv, NEW b \in written \ Oversize PROVE b \in outbox[Author(b)] \cup RoomOps
  <2>1. Range(log) \subseteq RoomOps
    BY <1>1, RoadsKeep DEF ChatInv, RoomKeepsEveryOp
  <2>2. b \in outbox[Author(b)] \cup Range(log)
    BY <1>1 DEF ChatInv, RoadsInv, JournalInv, JournaledUntilLogged
  <2>3. QED
    BY <2>1, <2>2
<1>2. ChatInv => RowUpdatesKept
  BY <1>1 DEF RowUpdatesKept
<1>3. QED
  BY <1>2, ChatStart, ChatStep, PTL DEF Spec

-----------------------------------------------------------------------------
(* chat2 implements the shared transcript.                                 *)

\* The author of an update no row can carry does not die.
OversizeStayUp == \A b \in Oversize : Author(b) \notin Crashers

\* The log only gets longer.
LEMMA RangeGrows ==
    ASSUME RoadsInv, TypeOK', Grows
    PROVE  Range(log) \subseteq Range(log')
<1>1. /\ log \in Seq(Batches) /\ log' \in Seq(Batches) /\ Len(log) \in Nat /\ Len(log') \in Nat
      /\ Len(log) <= Len(log') /\ \A s \in 1 .. Len(log) : log'[s] = log[s]
  BY LogTyped, GrowTypes DEF Extends
<1>2. QED
  BY <1>1 DEF Range

\* What the room stores, for the transcript, is what it has numbered.
LEMMA StoredLog ==
    /\ (RoomKeepsEveryOp => RoomOps \cap Range(log) = Range(log))
    /\ (RoomKeepsEveryOp' => (RoomOps \cap Range(log))' = Range(log'))
BY DEF RoomKeepsEveryOp

\* A restart brings back the snapshot and the outbox.
LEMMA CrashHeld ==
    ASSUME TypeOK, NEW d \in Devices, Crash(d)
    PROVE  /\ Held(d)' = Reopened(d) /\ \A e \in Devices \ {d} : Held(e)' = Held(e)
           /\ UNCHANGED <<written, log>> /\ d \in Crashers
<1> DEFINE kept == Reopened(d)
           whole == {b \in kept : deps[b] \subseteq kept}
<1>1. /\ doc' = [doc EXCEPT ![d] = whole]
      /\ parked' = [parked EXCEPT ![d] = kept \ whole]
      /\ UNCHANGED <<written, log>> /\ d \in Crashers
  BY DEF Crash
<1>2. doc \in [Devices -> SUBSET Batches] /\ parked \in [Devices -> SUBSET Batches]
  BY DEF TypeOK, ClientTypeOK
<1>3. whole \cup (kept \ whole) = kept
  OBVIOUS
<1> HIDE DEF whole
<1>4. QED
  BY <1>1, <1>2, <1>3 DEF Held

\* What a restart forgets is numbered, or its author holds it.
LEMMA CrashLoses ==
    ASSUME ChatInv, OwnHeld, OversizeStayUp, NEW d \in Devices, Crash(d),
           NEW b \in written, b \notin Range(log), b \notin Reopened(d)
    PROVE  Author(b) # d /\ b \in Held(Author(b))
<1>1. b \in Held(Author(b))
  BY DEF OwnHeld
<1>2. ASSUME Author(b) = d PROVE FALSE
  <2>1. d \in Crashers
    BY DEF Crash
  <2>2. b \in written \ Oversize
    BY <1>2, <2>1 DEF OversizeStayUp
  <2>3. b \in outbox[d]
    BY <1>2, <2>2 DEF ChatInv, RoadsInv, JournalInv, JournaledUntilLogged
  <2>4. QED
    BY <2>3 DEF Reopened
<1>3. QED
  BY <1>1, <1>2

\* Authors hold what the room has not numbered.
LEMMA OwnHeldNext ==
    ASSUME ChatInv, OwnHeld, OversizeStayUp, Next, TypeOK'
    PROVE  OwnHeld'
<1>1. /\ RoadsInv /\ TypeOK /\ Grows /\ \A b \in written : Author(b) \in Devices
      /\ written \subseteq Batches
  <2>1. RoadsInv /\ TypeOK /\ Grows
    BY LogTyped, NextGrows DEF ChatInv
  <2>2. written \subseteq Batches
    BY <2>1 DEF TypeOK, ClientTypeOK
  <2>3. QED
    BY <2>1, <2>2, BatchesAssumption DEF Author
<1>2. Range(log) \subseteq Range(log')
  BY <1>1, RangeGrows
<1>3. ASSUME NEW d \in Devices, NEW b \in Batches, enqueue_batch(d, b) PROVE OwnHeld'
  BY <1>1, <1>2, <1>3, WriteHeld DEF OwnHeld
<1>4. ASSUME NEW d \in Devices, Learns(d) PROVE OwnHeld'
  BY <1>1, <1>2, <1>4, LearnsHeld DEF Learns, OwnHeld
<1>5. ASSUME NEW d \in Devices, Crash(d) PROVE OwnHeld'
  BY <1>1, <1>2, <1>5, CrashHeld, CrashLoses DEF OwnHeld
<1>6. ASSUME Numbers \/ UNCHANGED <<log, docVars>> PROVE OwnHeld'
  BY <1>2, <1>6 DEF Numbers, docVars, OwnHeld, Held
<1>7. QED
  BY <1>1, <1>3, <1>4, <1>5, <1>6, StepKinds

\* Every step is one of the transcript's, or changes nothing of it.
LEMMA TranscriptStep ==
    ASSUME ChatInv, OwnHeld, OversizeStayUp, Next, RoomKeepsEveryOp, RoomKeepsEveryOp'
    PROVE  [Transcript!TranscriptNext]_(Transcript!tvars)
<1> DEFINE stored == RoomOps \cap Range(log)
           held == [d \in Devices |-> doc[d] \cup parked[d]]
<1>1. /\ stored = Range(log) /\ stored' = Range(log')
      /\ RoadsInv /\ TypeOK /\ written \subseteq Batches
      /\ \A b \in written : Author(b) \in Devices
  <2>1. stored = Range(log) /\ stored' = Range(log')
    BY StoredLog
  <2>2. RoadsInv /\ TypeOK /\ written \subseteq Batches
    BY LogTyped DEF ChatInv, TypeOK, ClientTypeOK
  <2>3. QED
    BY <2>1, <2>2, BatchesAssumption DEF Author
<1>2. /\ held = [d \in Devices |-> Held(d)] /\ held' = [d \in Devices |-> Held(d)']
  BY DEF Held
<1> HIDE DEF stored, held
<1>3. ASSUME NEW d \in Devices, NEW b \in Batches, enqueue_batch(d, b)
      PROVE  b \notin written /\ written' = written \cup {b} /\ stored' = stored
             /\ held' = [held EXCEPT ![d] = @ \cup {b}]
  <2>1. /\ written' = written \cup {b} /\ Held(d)' = Held(d) \cup {b} /\ b \notin written
        /\ UNCHANGED log /\ \A e \in Devices \ {d} : Held(e)' = Held(e)
    BY <1>1, <1>3, WriteHeld
  <2>2. QED
    BY <1>1, <1>2, <2>1
<1>4. ASSUME NEW d \in Devices, Learns(d)
      PROVE  \E S \in SUBSET Batches :
                /\ S \subseteq stored \cup UNION {held[e] : e \in Devices \ {d}}
                /\ held' = [held EXCEPT ![d] = @ \cup S] /\ written' = written /\ stored' = stored
  <2>1. PICK T \in SUBSET written : Import(d, T) /\ UNCHANGED log
    BY <1>4 DEF Learns
  <2>2. /\ UNCHANGED written /\ Held(d)' = Held(d) \cup T
        /\ \A e \in Devices \ {d} : Held(e)' = Held(e)
    BY <1>1, <2>1, LearnsHeld
  <2> DEFINE S == T \ Held(d)
  <2>3. S \in SUBSET Batches /\ held' = [held EXCEPT ![d] = @ \cup S]
    BY <1>1, <1>2, <2>2
  <2>4. S \subseteq stored \cup UNION {held[e] : e \in Devices \ {d}}
    <3>1. SUFFICES ASSUME NEW b \in T, b \notin Held(d), b \notin stored
                   PROVE  \E e \in Devices \ {d} : b \in held[e]
      OBVIOUS
    <3>2. b \in Held(Author(b)) /\ Author(b) \in Devices
      BY <1>1, <3>1 DEF OwnHeld
    <3>3. QED
      BY <1>2, <3>1, <3>2
  <2> HIDE DEF S
  <2>5. QED
    BY <1>1, <2>1, <2>2, <2>3, <2>4
<1>5. ASSUME NEW d \in Devices, Crash(d)
      PROVE  \E S \in SUBSET Batches :
                /\ S \subseteq stored \cup UNION {held[e] : e \in Devices \ {d}}
                /\ held' = [held EXCEPT ![d] = @ \ S] /\ written' = written /\ stored' = stored
  <2>1. /\ Held(d)' = Reopened(d) /\ \A e \in Devices \ {d} : Held(e)' = Held(e)
        /\ UNCHANGED <<written, log>>
    BY <1>1, <1>5, CrashHeld
  <2>2. Held(d) \subseteq written /\ Reopened(d) \subseteq Held(d)
    BY <1>1, EntryTrue, LogTyped DEF Roads, DocsClosed, Held, Reopened
  <2> DEFINE S == Held(d) \ Reopened(d)
  <2>3. S \in SUBSET Batches /\ held' = [held EXCEPT ![d] = @ \ S]
    BY <1>1, <1>2, <2>1, <2>2
  <2>4. S \subseteq stored \cup UNION {held[e] : e \in Devices \ {d}}
    <3>1. SUFFICES ASSUME NEW b \in written, b \notin Reopened(d), b \notin stored
                   PROVE  \E e \in Devices \ {d} : b \in held[e]
      BY <2>2
    <3>2. Author(b) # d /\ b \in Held(Author(b)) /\ Author(b) \in Devices
      BY <1>1, <1>5, <3>1, CrashLoses
    <3>3. QED
      BY <1>2, <3>2
  <2> HIDE DEF S
  <2>5. QED
    BY <1>1, <2>1, <2>3, <2>4
<1>6. ASSUME Numbers
      PROVE  \E S \in SUBSET Batches : /\ S \subseteq written /\ stored' = stored \cup S
                                       /\ written' = written /\ held' = held
  <2>1. PICK b \in written : appendRow(b) /\ UNCHANGED docVars
    BY <1>6 DEF Numbers
  <2>2. b \in Batches /\ RoomTypeOK
    BY <1>1 DEF TypeOK
  <2>3. Range(log) \subseteq Range(log') /\ Range(log') \subseteq Range(log) \cup {b} /\ b \in Range(log')
    BY <2>1, <2>2, AppendLogs, AppendTrue DEF LogGrows
  <2>4. stored' = stored \cup {b} /\ {b} \in SUBSET Batches
    BY <1>1, <2>2, <2>3
  <2>5. written' = written /\ held' = held
    BY <1>2, <2>1 DEF docVars, Held
  <2>6. QED
    BY <2>1, <2>4, <2>5
<1>7. ASSUME UNCHANGED <<log, docVars>> PROVE written' = written /\ stored' = stored /\ held' = held
  BY <1>1, <1>2, <1>7 DEF docVars, Held
<1>8. CASE \E d \in Devices, b \in Batches : enqueue_batch(d, b)
  BY <1>3, <1>8 DEF Transcript!TranscriptNext, Transcript!Write, stored, held
<1>9. CASE \E d \in Devices : Learns(d)
  <2>1. PICK d \in Devices, S \in SUBSET Batches :
            /\ S \subseteq stored \cup UNION {held[e] : e \in Devices \ {d}}
            /\ held' = [held EXCEPT ![d] = @ \cup S] /\ written' = written /\ stored' = stored
    BY <1>4, <1>9
  <2>2. Transcript!Learn(d, S)
    BY <2>1 DEF Transcript!Learn, Transcript!HeldElsewhere, stored, held
  <2>3. QED
    BY <2>2 DEF Transcript!TranscriptNext
<1>10. CASE \E d \in Devices : Crash(d)
  <2>1. PICK d \in Devices, S \in SUBSET Batches :
            /\ S \subseteq stored \cup UNION {held[e] : e \in Devices \ {d}}
            /\ held' = [held EXCEPT ![d] = @ \ S] /\ written' = written /\ stored' = stored
    BY <1>5, <1>10
  <2>2. Transcript!Restart(d, S)
    BY <2>1 DEF Transcript!Restart, Transcript!HeldElsewhere, stored, held
  <2>3. QED
    BY <2>2 DEF Transcript!TranscriptNext
<1>11. CASE Numbers
  BY <1>6, <1>11 DEF Transcript!TranscriptNext, Transcript!Publish, stored, held
<1>12. CASE UNCHANGED <<log, docVars>>
  BY <1>7, <1>12 DEF Transcript!tvars, stored, held
<1>13. QED
  BY <1>1, <1>8, <1>9, <1>10, <1>11, <1>12, StepKinds

\* A stuttering step changes nothing of the transcript.
LEMMA TranscriptStutter ==
    ASSUME UNCHANGED vars
    PROVE  UNCHANGED Transcript!tvars /\ (OwnHeld => OwnHeld')
BY DEF vars, roomVars, clientVars, docVars, Transcript!tvars, RoomOps, LiveSeqs, headSeq, OwnHeld, Held

\* The empty chat is the empty transcript.
LEMMA ChatStartsTranscript == Init => Transcript!TranscriptInit /\ OwnHeld
<1> SUFFICES ASSUME Init PROVE Transcript!TranscriptInit /\ OwnHeld
  OBVIOUS
<1>1. log = <<>> /\ written = {} /\ \A d \in Devices : doc[d] = {} /\ parked[d] = {}
  BY DEF Init, RoomInit
<1>2. Range(log) = {}
  BY <1>1 DEF Range
<1>3. [d \in Devices |-> doc[d] \cup parked[d]] = [d \in Devices |-> {}]
  BY <1>1
<1>4. QED
  BY <1>1, <1>2, <1>3 DEF Transcript!TranscriptInit, OwnHeld

\* One more step of the chat, from the invariant.
LEMMA ChatKeepsTranscript ==
    ASSUME OversizeStayUp
    PROVE  ChatInv /\ ChatInv' /\ OwnHeld /\ RoomKeepsEveryOp /\ RoomKeepsEveryOp' /\ [Next]_vars
           => OwnHeld' /\ [Transcript!TranscriptNext]_(Transcript!tvars)
<1> SUFFICES ASSUME ChatInv, ChatInv', OwnHeld, RoomKeepsEveryOp, RoomKeepsEveryOp', [Next]_vars
             PROVE  OwnHeld' /\ [Transcript!TranscriptNext]_(Transcript!tvars)
  OBVIOUS
<1>1. CASE Next
  <2>1. TypeOK'
    BY DEF ChatInv, RoadsInv, JournalInv
  <2>2. QED
    BY <1>1, <2>1, OwnHeldNext, TranscriptStep
<1>2. CASE UNCHANGED vars
  BY <1>2, TranscriptStutter
<1>3. QED
  BY <1>1, <1>2

\* chat2 implements the shared transcript: a write, a row or a checkpoint that
\* reaches the room, whatever a device imports, and a restart from the snapshot
\* and the outbox (store.rs) are its four actions, provided every upload begins
\* with an honest cursor and the author of an update too large for a row does
\* not die before a checkpoint has it.
THEOREM ChatImplementsTranscript ==
    ASSUME OversizeStayUp
    PROVE  Spec /\ [][UploadsHonest]_vars => ImplementsTranscript
<1>1. ChatInv => RoomKeepsEveryOp
  BY RoadsKeep DEF ChatInv
<1>2. QED
  BY <1>1, ChatStart, ChatStep, ChatStartsTranscript, ChatKeepsTranscript, PTL
  DEF Spec, ImplementsTranscript, Transcript!TranscriptSpec

-----------------------------------------------------------------------------
(* What a session has heard of.                                            *)

\* D has everything numbered from k + 1 to t.
Got(D, k, t, lg) == \A s \in 1 .. t : s > k => lg[s] \in D

\* A request on its way to the room asks for row t; row t is on its way back.
Asked(ch, t) == \E i \in 1 .. Len(ch) : ch[i].t = "rowsReq" /\ ch[i].after < t
Coming(ch, t) == \E i \in 1 .. Len(ch) : ch[i].t = "rows" /\ \E r \in ch[i].rows : r.seq = t

HasState(ch) == \E i \in 1 .. Len(ch) : ch[i].t = "state"

\* The checkpoint under fetch brings what is numbered up to its target.
Base(a) == IF a.phase = "fetch" THEN a.target ELSE 0

Joined(a) == a.phase \in {"fetch", "backfill", "live"}

\* Device d has row t and all below it, has asked for it, is being sent it, or
\* will ask again for every row above its cursor.
HeardAt(d, t) ==
    \/ Got(Held(d), Base(actor[d]), t, log)
    \/ Asked(up[d], t)
    \/ Coming(down[d], t)
    \/ shared[d].gapRepair

\* What is parked waits for something the device does not hold.
Waiting(d) == \A b \in parked[d] : ~(deps[b] \subseteq Held(d))

\* A session the room has greeted has heard of every live row of the others.
Heard(d) ==
    /\ Joined(actor[d]) \/ HasState(down[d]) => ready[d]
    /\ Joined(actor[d]) => \A t \in LiveSeqs : Author(log[t]) # d => HeardAt(d, t)
    /\ Waiting(d)

HeardInv == \A d \in Devices \ Crashers : Heard(d)

\* What was had remains so.
LEMMA GotMono ==
    ASSUME NEW lg \in Seq(Batches), NEW mg \in Seq(Batches), Extends(lg, mg),
           NEW k \in Nat, NEW t \in Nat, t <= Len(lg), NEW D, NEW E, D \subseteq E,
           Got(D, k, t, lg)
    PROVE  Got(E, k, t, mg)
<1>1. Len(lg) \in Nat /\ Len(mg) \in Nat
  OBVIOUS
<1>2. \A s \in 1 .. t : s \in 1 .. Len(lg)
  BY <1>1
<1>3. QED
  BY <1>1, <1>2 DEF Got, Extends

\* A request on its way stays there when another frame follows it.
LEMMA AskedSend ==
    ASSUME NEW ch \in Seq(UpFrames), NEW f \in UpFrames, NEW t
    PROVE  /\ Asked(ch, t) => Asked(Append(ch, f), t)
           /\ f.t = "rowsReq" /\ f.after < t => Asked(Append(ch, f), t)
<1>1. Len(Append(ch, f)) = Len(ch) + 1 /\ Len(ch) \in Nat
  OBVIOUS
<1>2. \A i \in 1 .. Len(ch) : i \in 1 .. Len(Append(ch, f)) /\ Append(ch, f)[i] = ch[i]
  BY <1>1
<1>3. Len(ch) + 1 \in 1 .. Len(Append(ch, f)) /\ Append(ch, f)[Len(ch) + 1] = f
  BY <1>1
<1>4. QED
  BY <1>2, <1>3 DEF Asked

\* The room reads a frame that is no request for row t.
LEMMA AskedTail ==
    ASSUME NEW ch \in Seq(UpFrames), ch # <<>>, NEW t, Asked(ch, t),
           ~(Head(ch).t = "rowsReq" /\ Head(ch).after < t)
    PROVE  /\ Asked(Tail(ch), t)
           /\ \A f \in UpFrames : Asked(<<f>> \o Tail(ch), t)
<1> DEFINE u == Tail(ch)
<1>1. PICK i \in 1 .. Len(ch) : ch[i].t = "rowsReq" /\ ch[i].after < t
  BY DEF Asked
<1>2. i # 1 /\ Len(ch) \in Nat
  BY <1>1
<1>3. u \in Seq(UpFrames) /\ Len(u) = Len(ch) - 1 /\ i - 1 \in 1 .. Len(u) /\ u[i - 1] = ch[i]
  BY <1>2
<1> HIDE DEF u
<1>4. Asked(u, t)
  BY <1>1, <1>3 DEF Asked
<1>5. ASSUME NEW f \in UpFrames PROVE Asked(<<f>> \o u, t)
  <2>1. i \in 1 .. Len(<<f>> \o u) /\ (<<f>> \o u)[i] = u[i - 1]
    BY <1>2, <1>3
  <2>2. QED
    BY <1>1, <1>3, <2>1 DEF Asked
<1>6. QED
  BY <1>4, <1>5 DEF u

\* A row on its way stays there when another frame follows it, and a row sent is
\* on its way; no state appears that is not sent.
LEMMA ComingSend ==
    ASSUME NEW ch \in Seq(DownFrames), NEW f \in DownFrames
    PROVE  /\ \A t : Coming(ch, t) => Coming(Append(ch, f), t)
           /\ \A t : (f.t = "rows" /\ \E r \in f.rows : r.seq = t) => Coming(Append(ch, f), t)
           /\ HasState(Append(ch, f)) => HasState(ch) \/ f.t = "state"
<1>1. Len(Append(ch, f)) = Len(ch) + 1 /\ Len(ch) \in Nat
  OBVIOUS
<1>2. \A i \in 1 .. Len(ch) : i \in 1 .. Len(Append(ch, f)) /\ Append(ch, f)[i] = ch[i]
  BY <1>1
<1>3. Len(ch) + 1 \in 1 .. Len(Append(ch, f)) /\ Append(ch, f)[Len(ch) + 1] = f
  BY <1>1
<1>4. \A i \in 1 .. Len(Append(ch, f)) : i \in 1 .. Len(ch) \/ i = Len(ch) + 1
  BY <1>1
<1>5. /\ \A t : Coming(ch, t) => Coming(Append(ch, f), t)
      /\ \A t : (f.t = "rows" /\ \E r \in f.rows : r.seq = t) => Coming(Append(ch, f), t)
  BY <1>2, <1>3 DEF Coming
<1>6. HasState(Append(ch, f)) => HasState(ch) \/ f.t = "state"
  BY <1>2, <1>3, <1>4 DEF HasState
<1>7. QED
  BY <1>5, <1>6

\* Reading a frame.
LEMMA ComingTail ==
    ASSUME NEW ch \in Seq(DownFrames), ch # <<>>
    PROVE  \A t : Coming(ch, t) => Coming(Tail(ch), t)
                                   \/ (Head(ch).t = "rows" /\ \E r \in Head(ch).rows : r.seq = t)
<1> DEFINE u == Tail(ch)
<1>1. u \in Seq(DownFrames) /\ Len(u) = Len(ch) - 1 /\ Len(ch) \in Nat /\ Head(ch) = ch[1]
  OBVIOUS
<1>2. \A i \in 1 .. Len(u) : i + 1 \in 1 .. Len(ch) /\ u[i] = ch[i + 1]
  OBVIOUS
<1>3. \A i \in 1 .. Len(ch) : i # 1 => i - 1 \in 1 .. Len(u) /\ ch[i] = u[i - 1]
  BY <1>1, <1>2
<1> HIDE DEF u
<1>4. ASSUME NEW t, Coming(ch, t)
      PROVE  Coming(u, t) \/ (Head(ch).t = "rows" /\ \E r \in Head(ch).rows : r.seq = t)
  <2>1. PICK i \in 1 .. Len(ch) : ch[i].t = "rows" /\ \E r \in ch[i].rows : r.seq = t
    BY <1>4 DEF Coming
  <2>2. CASE i = 1
    BY <1>1, <2>1, <2>2
  <2>3. CASE i # 1
    <3>1. i - 1 \in 1 .. Len(u) /\ u[i - 1] = ch[i]
      BY <1>3, <2>3
    <3>2. u[i - 1].t = "rows" /\ \E r \in u[i - 1].rows : r.seq = t
      BY <2>1, <3>1
    <3>3. QED
      BY <3>1, <3>2 DEF Coming
  <2>4. QED
    BY <2>2, <2>3
<1>5. QED
  BY <1>4 DEF u

\* Reading one row of a run.
LEMMA ComingAfterRow ==
    ASSUME NEW ch \in Seq(DownFrames), ch # <<>>, Head(ch).t = "rows"
    PROVE  \A t : Coming(ch, t) => Coming(AfterRow(ch), t) \/ FirstRow(Head(ch).rows).seq = t
<1> DEFINE R == Head(ch).rows
           r == FirstRow(R)
           u == Tail(ch)
<1>1. Head(ch) \in DownFrames /\ u \in Seq(DownFrames)
  OBVIOUS
<1>2. R \in SUBSET Row /\ R # {}
  BY <1>1, RowsHead
<1>3. r \in R
  BY <1>2, FirstRowIn
<1>4. \A t : Coming(ch, t) => Coming(u, t) \/ \E q \in R : q.seq = t
  BY ComingTail
<1>5. CASE R = {r}
  <2>1. AfterRow(ch) = u
    BY <1>5 DEF AfterRow
  <2>2. QED
    BY <1>4, <1>5, <2>1
<1>6. CASE R # {r}
  <2> DEFINE f == RowsFrame(R \ {r})
             v == <<f>> \o u
  <2>1. AfterRow(ch) = v
    BY <1>6 DEF AfterRow
  <2>2. f.t = "rows" /\ f.rows = R \ {r}
    BY DEF RowsFrame
  <2> HIDE DEF f
  <2>3. Len(v) = Len(u) + 1 /\ Len(u) \in Nat /\ v[1] = f
    BY <1>1
  <2>4. \A i \in 1 .. Len(u) : i + 1 \in 1 .. Len(v) /\ v[i + 1] = u[i]
    BY <1>1, <2>3
  <2> HIDE DEF v, u, R, r
  <2>5. ASSUME NEW t, Coming(u, t) PROVE Coming(v, t)
    BY <2>4, <2>5 DEF Coming
  <2>6. ASSUME NEW q \in R, q # r PROVE Coming(v, q.seq)
    <3>1. 1 \in 1 .. Len(v) /\ q \in f.rows
      BY <2>2, <2>3, <2>6
    <3>2. QED
      BY <2>2, <2>3, <3>1 DEF Coming
  <2>7. QED
    BY <1>4, <2>1, <2>5, <2>6 DEF R, r
<1>7. QED
  BY <1>5, <1>6


\* The live rows are those above the floor ...
LEMMA LiveNow ==
    ASSUME RoomTypeOK
    PROVE  \A t : t \in LiveSeqs <=> t \in Nat /\ floor < t /\ t <= Len(log)
<1>1. floor \in Nat /\ Len(log) \in Nat
  BY DEF RoomTypeOK
<1>2. QED
  BY <1>1 DEF LiveSeqs, headSeq

\* ... in the state a step reaches as well.
LEMMA LiveNext ==
    ASSUME RoomTypeOK'
    PROVE  \A t : t \in LiveSeqs' <=> t \in Nat /\ floor' < t /\ t <= Len(log')
<1>1. floor' \in Nat /\ Len(log') \in Nat
  BY DEF RoomTypeOK
<1> DEFINE m == floor'
           n == Len(log')
<1>2. LiveSeqs' = (m + 1) .. n
  BY DEF LiveSeqs, headSeq
<1>3. m \in Nat /\ n \in Nat
  BY <1>1
<1> HIDE DEF m, n
<1>4. \A t : t \in (m + 1) .. n <=> t \in Nat /\ m < t /\ t <= n
  BY <1>3
<1>5. QED
  BY <1>2, <1>4 DEF m, n

\* What the room does to a channel: a greeted socket stays greeted and no other is
\* sent a state, and every live row of the others is on its way down, or it is an
\* old one and a request for it is still on its way up.
Spoken(d) ==
    /\ ready[d] => ready'[d]
    /\ HasState(down'[d]) => HasState(down[d]) \/ ready'[d]
    /\ ready[d] => \A t \in LiveSeqs' : Author(log'[t]) # d =>
          \/ Coming(down'[d], t)
          \/ t <= Len(log) /\ ~Coming(down[d], t) /\ (Asked(up[d], t) => Asked(up'[d], t))

\* A session whose room keeps talking, and that forgets nothing, has still heard.
LEMMA HeardKept ==
    ASSUME RoadsInv, TypeOK', Grows, NEW d \in Devices, Heard(d), Spoken(d), Waiting(d)',
           Held(d) \subseteq Held(d)',
           Joined(actor'[d]) => Joined(actor[d]) /\ Base(actor'[d]) = Base(actor[d]),
           shared[d].gapRepair => shared'[d].gapRepair
    PROVE  Heard(d)'
<1>1. /\ log \in Seq(Batches) /\ log' \in Seq(Batches) /\ Extends(log, log')
      /\ floor \in Nat /\ floor' \in Nat /\ floor <= floor' /\ Len(log) \in Nat /\ Len(log') \in Nat
  BY LogTyped, GrowTypes
<1>2. Joined(actor'[d]) \/ HasState(down'[d]) => ready'[d]
  BY DEF Heard, Spoken
<1>3. ASSUME Joined(actor'[d]), NEW t \in LiveSeqs', Author(log'[t]) # d PROVE HeardAt(d, t)'
  <2>1. Joined(actor[d]) /\ Base(actor'[d]) = Base(actor[d]) /\ ready[d]
    BY <1>3 DEF Heard
  <2>2. CASE Coming(down'[d], t)
    BY <2>2 DEF HeardAt
  <2>3. CASE ~Coming(down'[d], t)
    <3>1. t <= Len(log) /\ ~Coming(down[d], t) /\ (Asked(up[d], t) => Asked(up'[d], t))
      BY <1>3, <2>1, <2>3 DEF Spoken
    <3>2. t \in Nat /\ t \in LiveSeqs /\ log'[t] = log[t]
      <4>1. t \in Nat /\ floor' < t /\ RoomTypeOK
        BY <1>3, LiveNext, LogTyped DEF TypeOK
      <4>2. t \in LiveSeqs /\ t \in 1 .. Len(log)
        BY <1>1, <3>1, <4>1, LiveNow
      <4>3. QED
        BY <1>1, <4>1, <4>2 DEF Extends
    <3>3. HeardAt(d, t)
      BY <1>3, <2>1, <3>2 DEF Heard
    <3>4. Base(actor[d]) \in Nat
      BY OwnEntries DEF Base
    <3>5. Got(Held(d), Base(actor[d]), t, log) => Got(Held(d)', Base(actor'[d]), t, log')
      BY <1>1, <2>1, <3>1, <3>2, <3>4, GotMono
    <3>6. QED
      BY <3>1, <3>3, <3>5 DEF HeardAt
  <2>4. QED
    BY <2>2, <2>3
<1>4. QED
  BY <1>2, <1>3 DEF Heard

\* A session that is not in has nothing to have heard.
LEMMA OutHeard ==
    ASSUME NEW d, ~Joined(actor'[d]), ~HasState(down'[d]), Waiting(d)'
    PROVE  Heard(d)'
BY DEF Heard

\* Nothing comes in on an empty channel.
LEMMA NoFrames == ~HasState(<<>>) /\ \A t : ~Coming(<<>>, t) /\ ~Asked(<<>>, t)
BY DEF HasState, Coming, Asked

\* A step in which the room does not talk to the device, nor read what it asked.
LEMMA SilentSpoken ==
    ASSUME NEW d, ready'[d] = ready[d], down'[d] = down[d], UNCHANGED log, floor' \in Nat,
           \A t : Asked(up[d], t) => Asked(up'[d], t)
    PROVE  Spoken(d)
<1>1. \A t \in LiveSeqs' : t <= Len(log)
  BY DEF LiveSeqs, headSeq
<1>2. QED
  BY <1>1 DEF Spoken

\* A hello is answered with the state, and greets the socket.
LEMMA HelloSpoken ==
    ASSUME RoadsInv, NEW e \in Devices, handleHello(e), NEW d \in Devices
    PROVE  Spoken(d)
<1>1. /\ up[e] # <<>> /\ Head(up[e]).t = "hello"
      /\ up' = [up EXCEPT ![e] = Tail(@)]
      /\ ready' = [ready EXCEPT ![e] = TRUE]
      /\ down' = [down EXCEPT ![e] = Append(@, logStats)]
      /\ UNCHANGED <<log, floor>>
  BY DEF handleHello, UpHead
<1>2. /\ up \in [Devices -> Seq(UpFrames)] /\ down \in [Devices -> Seq(DownFrames)]
      /\ ready \in [Devices -> BOOLEAN] /\ floor \in Nat /\ Len(log) \in Nat
  BY LogTyped DEF RoomTypeOK
<1>3. CASE d # e
  <2>1. ready'[d] = ready[d] /\ down'[d] = down[d] /\ up'[d] = up[d]
    BY <1>1, <1>2, <1>3
  <2>2. QED
    BY <1>1, <1>2, <2>1, SilentSpoken
<1>4. CASE d = e
  <2>1. logStats \in DownFrames
    BY LogTyped, LogStatsType, DownFrameTypes
  <2>2. down'[d] = Append(down[d], logStats) /\ up'[d] = Tail(up[d]) /\ ready'[d]
    BY <1>1, <1>2, <1>4
  <2>3. \A t : Coming(down[d], t) => Coming(down'[d], t)
    BY <1>2, <2>1, <2>2, ComingSend
  <2>4. \A t : Asked(up[d], t) => Asked(up'[d], t)
    BY <1>1, <1>2, <1>4, <2>2, AskedTail
  <2>5. \A t \in LiveSeqs' : t <= Len(log)
    BY <1>1, <1>2 DEF LiveSeqs, headSeq
  <2>6. QED
    BY <2>2, <2>3, <2>4, <2>5 DEF Spoken
<1>5. QED
  BY <1>3, <1>4

\* The rows asked for are sent.
LEMMA RowsReqSpoken ==
    ASSUME RoadsInv, NEW e \in Devices, handleRowsReq(e), NEW d \in Devices
    PROVE  Spoken(d)
<1> DEFINE req == Head(up[e])
           rows == rowsAfter(req.after, IF req.excludeOwn THEN {e} ELSE {})
           ch == SendRows(down[e], rows)
<1>1. /\ up[e] # <<>> /\ req.t = "rowsReq"
      /\ up' = [up EXCEPT ![e] = Tail(up[e])]
      /\ down' = [down EXCEPT ![e] = Append(ch, DoneFrame)]
      /\ UNCHANGED <<ready, log, floor>>
  BY DEF handleRowsReq, UpHead
<1>2. /\ up \in [Devices -> Seq(UpFrames)] /\ down \in [Devices -> Seq(DownFrames)]
      /\ RoomTypeOK /\ floor \in Nat /\ Len(log) \in Nat
  BY LogTyped DEF RoomTypeOK
<1>3. CASE d # e
  <2>1. ready'[d] = ready[d] /\ down'[d] = down[d] /\ up'[d] = up[d]
    BY <1>1, <1>2, <1>3
  <2>2. QED
    BY <1>1, <1>2, <2>1, SilentSpoken
<1>4. CASE d = e
  <2>1. req.after \in Nat /\ rows \in SUBSET Row
    <3>1. req \in UpFrames
      BY <1>1, <1>2
    <3>2. req.after \in Nat /\ req.excludeOwn \in BOOLEAN
      BY <1>1, <3>1, RowsReqHead
    <3>3. QED
      BY <1>2, <3>2, RowsAfterType
  <2>2. ASSUME NEW t \in LiveSeqs, Author(log[t]) # d, req.after < t
        PROVE  \E r \in rows : r.seq = t
    <3>1. t > req.after /\ Author(log[t]) \notin (IF req.excludeOwn THEN {e} ELSE {})
      BY <1>2, <1>4, <2>1, <2>2 DEF LiveSeqs
    <3>2. [seq |-> t, batch |-> log[t]] \in rows
      BY <2>2, <3>1 DEF rowsAfter
    <3>3. QED
      BY <3>2
  <2> HIDE DEF rows
  <2>3. /\ ch \in Seq(DownFrames)
        /\ \A t : Coming(down[d], t) \/ (\E r \in rows : r.seq = t) => Coming(ch, t)
        /\ HasState(ch) => HasState(down[d])
    <3>1. CASE rows = {}
      BY <1>2, <1>4, <3>1 DEF SendRows
    <3>2. CASE rows # {}
      <4> DEFINE f == RowsFrame(rows)
      <4>1. f \in DownFrames /\ f.t = "rows" /\ f.rows = rows
        BY <2>1, <3>2, DownFrameTypes DEF RowsFrame
      <4>2. ch = Append(down[d], f) /\ down[d] \in Seq(DownFrames)
        BY <1>2, <1>4, <3>2 DEF SendRows
      <4> HIDE DEF f, ch
      <4>3. QED
        BY <4>1, <4>2, ComingSend, Sending
    <3>3. QED
      BY <3>1, <3>2
  <2> HIDE DEF ch
  <2>4. DoneFrame \in DownFrames /\ DoneFrame.t # "state"
    BY DownFrameTypes DEF DoneFrame
  <2>5. down'[d] = Append(ch, DoneFrame) /\ up'[d] = Tail(up[d]) /\ ready'[d] = ready[d]
    BY <1>1, <1>2, <1>4
  <2>6. /\ \A t : Coming(ch, t) => Coming(down'[d], t)
        /\ HasState(down'[d]) => HasState(down[d])
    BY <2>3, <2>4, <2>5, ComingSend
  <2>7. ASSUME NEW t \in LiveSeqs', Author(log'[t]) # d
        PROVE  \/ Coming(down'[d], t)
               \/ t <= Len(log) /\ ~Coming(down[d], t) /\ (Asked(up[d], t) => Asked(up'[d], t))
    <3>1. t \in LiveSeqs /\ t <= Len(log) /\ Author(log[t]) # d
      BY <1>1, <1>2, <2>7 DEF LiveSeqs, headSeq
    <3>2. CASE req.after < t
      BY <2>2, <2>3, <2>6, <3>1, <3>2
    <3>3. CASE ~(req.after < t)
      <4>1. Asked(up[d], t) => Asked(up'[d], t)
        BY <1>1, <1>2, <1>4, <2>5, <3>3, AskedTail
      <4>2. QED
        BY <2>3, <2>6, <3>1, <4>1
    <3>4. QED
      BY <3>2, <3>3
  <2>8. QED
    BY <2>5, <2>6, <2>7 DEF Spoken
<1>5. QED
  BY <1>3, <1>4

\* The live relay sends what was appended to every greeted socket.
LEMMA RelaySpoken ==
    ASSUME RoomTypeOK, RoomTypeOK', NEW b \in Batches, appendRow(b), NEW sender, NEW d \in Devices \ sender,
           d \in Devices, down'[d] = Relay(b, sender)[d], ready'[d] = ready[d], up'[d] = up[d]
    PROVE  Spoken(d)
<1> DEFINE f == RowsFrame({[seq |-> headSeq + 1, batch |-> b]})
<1>1. /\ Len(log) \in Nat /\ log \in Seq(Batches) /\ down[d] \in Seq(DownFrames) /\ floor' \in Nat
      /\ [seq |-> headSeq + 1, batch |-> b] \in Row
  BY DEF RoomTypeOK, headSeq, Row
<1>2. f \in DownFrames /\ f.t = "rows" /\ \E r \in f.rows : r.seq = Len(log) + 1
  BY <1>1, DownFrameTypes DEF RowsFrame, headSeq
<1>3. down'[d] = (IF ready[d] /\ Matches(b) = {} THEN Append(down[d], f) ELSE down[d])
  BY DEF Relay
<1>4. log' = IF Matches(b) = {} THEN Append(log, b) ELSE log
  BY DEF appendRow
<1> HIDE DEF f
<1>5. \A t \in LiveSeqs' : t <= Len(log') /\ t \in Nat
  BY LiveNext
<1>6. CASE ready[d] /\ Matches(b) = {}
  <2>1. down'[d] = Append(down[d], f) /\ Len(log') = Len(log) + 1
    BY <1>1, <1>3, <1>4, <1>6
  <2>2. /\ \A t : Coming(down[d], t) => Coming(down'[d], t)
        /\ Coming(down'[d], Len(log) + 1)
    BY <1>1, <1>2, <2>1, ComingSend
  <2>3. \A t \in LiveSeqs' : t <= Len(log) \/ t = Len(log) + 1
    BY <1>1, <1>5, <2>1
  <2>4. QED
    BY <1>6, <2>2, <2>3 DEF Spoken
<1>7. CASE ready[d] /\ Matches(b) # {}
  BY <1>3, <1>4, <1>5, <1>7 DEF Spoken
<1>8. CASE ~ready[d]
  BY <1>3, <1>8 DEF Spoken
<1>9. QED
  BY <1>6, <1>7, <1>8


\* A push is relayed to the others; its sender is told the number of its own update.
LEMMA PushSpoken ==
    ASSUME RoadsInv, RoomTypeOK', NEW e \in Devices, handlePush(e), NEW d \in Devices
    PROVE  Spoken(d)
<1> DEFINE b == First(Head(up[e]).batches)
           ack == AckFrame(b, AckSeq(b))
<1>1. /\ UpHead(e, "push") /\ appendRow(b) /\ TakePush(e)
      /\ down' = [Relay(b, {e}) EXCEPT ![e] = Append(@, ack)]
      /\ UNCHANGED ready
  BY DEF handlePush
<1>2. /\ RoomTypeOK /\ up \in [Devices -> Seq(UpFrames)] /\ down \in [Devices -> Seq(DownFrames)]
      /\ log \in Seq(Batches) /\ Len(log) \in Nat
  BY LogTyped DEF RoomTypeOK
<1>3. b \in Batches
  BY <1>1, <1>2, PushedBatch
<1>4. AckSeq(b) \in Nat
  BY <1>1, <1>2, <1>3, AppendRowType
<1>5. ack \in DownFrames /\ ack.t # "state"
  BY <1>3, <1>4, DownFrameTypes DEF AckFrame
<1>6. /\ up[e] # <<>> /\ up[e] \in Seq(UpFrames) /\ Head(up[e]) \in UpFrames /\ Head(up[e]).t = "push"
      /\ \A c \in Devices \ {e} : up'[c] = up[c]
  BY <1>1, <1>2 DEF UpHead, TakePush
<1>7. CASE d = e
  <2>1. Relay(b, {e})[e] = down[e]
    BY DEF Relay
  <2> HIDE DEF ack
  <2>2. down'[d] = Append(down[d], ack) /\ ready'[d] = ready[d]
    BY <1>1, <1>7, <2>1 DEF Relay
  <2>3. /\ \A t : Coming(down[d], t) => Coming(down'[d], t)
        /\ HasState(down'[d]) => HasState(down[d])
    BY <1>2, <1>5, <2>2, ComingSend
  <2>4. \A t : Asked(up[d], t) => Asked(up'[d], t)
    <3> DEFINE S == Head(up[e]).batches
               g == PushFrame(S \ {First(S)})
               u == Tail(up[e])
    <3>1. S \in SUBSET Batches /\ S # {}
      BY <1>6, PushHead
    <3>2. up'[e] = u \/ (S \ {First(S)} # {} /\ up'[e] = <<g>> \o u)
      <4>1. up'[e] = IF S = {First(S)} THEN u ELSE <<g>> \o u
        BY <1>1, <1>2 DEF TakePush
      <4> HIDE DEF u, g
      <4>2. QED
        BY <3>1, <4>1
    <3>3. S \ {First(S)} # {} => g \in UpFrames
      BY <3>1, UpFrameTypes
    <3> HIDE DEF g
    <3>4. \A t : Asked(up[e], t) => Asked(u, t) /\ \A f \in UpFrames : Asked(<<f>> \o u, t)
      BY <1>6, AskedTail
    <3>5. QED
      BY <1>7, <3>2, <3>3, <3>4
  <2>5. b \in Owned(d)
    <3>1. Head(up[e]).batches \subseteq Owned(e)
      BY <1>6, EntryTrue, UpRead
    <3>2. Head(up[e]).batches \in SUBSET Batches /\ Head(up[e]).batches # {}
      BY <1>6, PushHead
    <3>3. QED
      BY <1>7, <3>1, <3>2, FirstIn
  <2>6. ASSUME NEW t \in LiveSeqs', Author(log'[t]) # d PROVE t <= Len(log)
    <3>1. t \in Nat /\ t <= Len(log')
      BY <2>6, LiveNext
    <3>2. log' = log \/ log' = Append(log, b)
      BY <1>1 DEF appendRow
    <3>3. Author(b) = d
      BY <2>5 DEF Owned
    <3> HIDE DEF b
    <3>4. CASE log' = log
      BY <3>1, <3>4
    <3>5. CASE log' = Append(log, b)
      <4>1. Len(log') = Len(log) + 1 /\ log'[Len(log) + 1] = b
        BY <1>2, <3>5
      <4>2. t # Len(log) + 1
        BY <2>6, <3>3, <4>1
      <4>3. QED
        BY <1>2, <3>1, <4>1, <4>2
    <3>6. QED
      BY <3>2, <3>4, <3>5
  <2>7. QED
    BY <2>2, <2>3, <2>4, <2>6 DEF Spoken
<1>8. CASE d # e
  <2> HIDE DEF ack
  <2>1. down'[d] = Relay(b, {e})[d] /\ ready'[d] = ready[d] /\ up'[d] = up[d]
    BY <1>1, <1>6, <1>8 DEF Relay
  <2> HIDE DEF b
  <2>2. QED
    BY <1>1, <1>2, <1>3, <1>8, <2>1, RelaySpoken
<1>9. QED
  BY <1>7, <1>8

\* A refused push.
LEMMA RefuseSpoken ==
    ASSUME RoadsInv, NEW e \in Devices, refusePush(e), NEW d \in Devices
    PROVE  Spoken(d)
<1> DEFINE f == QuotaFrame(First(Head(up[e]).batches))
<1>1. /\ UpHead(e, "push") /\ TakePush(e) /\ down' = [down EXCEPT ![e] = Append(@, f)]
      /\ UNCHANGED <<ready, log, floor>>
  BY DEF refusePush
<1>2. /\ RoomTypeOK /\ up \in [Devices -> Seq(UpFrames)] /\ down \in [Devices -> Seq(DownFrames)]
      /\ floor \in Nat /\ Len(log) \in Nat
  BY LogTyped DEF RoomTypeOK
<1>3. First(Head(up[e]).batches) \in Batches
  BY <1>1, <1>2, PushedBatch
<1>4. f \in DownFrames /\ f.t # "state"
  BY <1>3, DownFrameTypes DEF QuotaFrame
<1>5. /\ up[e] # <<>> /\ up[e] \in Seq(UpFrames) /\ Head(up[e]) \in UpFrames /\ Head(up[e]).t = "push"
      /\ \A c \in Devices \ {e} : up'[c] = up[c]
  BY <1>1, <1>2 DEF UpHead, TakePush
<1>6. CASE d = e
  <2> DEFINE S == Head(up[e]).batches
             g == PushFrame(S \ {First(S)})
             u == Tail(up[e])
  <2>1. S \in SUBSET Batches /\ S # {}
    BY <1>5, PushHead
  <2>2. up'[e] = u \/ (S \ {First(S)} # {} /\ up'[e] = <<g>> \o u)
    <3>1. up'[e] = IF S = {First(S)} THEN u ELSE <<g>> \o u
      BY <1>1, <1>2 DEF TakePush
    <3> HIDE DEF u, g
    <3>2. QED
      BY <2>1, <3>1
  <2>3. S \ {First(S)} # {} => g \in UpFrames
    BY <2>1, UpFrameTypes
  <2> HIDE DEF g, f
  <2>4. \A t : Asked(up[e], t) => Asked(u, t) /\ \A q \in UpFrames : Asked(<<q>> \o u, t)
    BY <1>5, AskedTail
  <2>5. \A t : Asked(up[d], t) => Asked(up'[d], t)
    BY <1>6, <2>2, <2>3, <2>4
  <2>6. down'[d] = Append(down[d], f) /\ ready'[d] = ready[d]
    BY <1>1, <1>2, <1>6
  <2>7. /\ \A t : Coming(down[d], t) => Coming(down'[d], t)
        /\ HasState(down'[d]) => HasState(down[d])
    BY <1>2, <1>4, <2>6, ComingSend
  <2>8. \A t \in LiveSeqs' : t <= Len(log)
    BY <1>1, <1>2 DEF LiveSeqs, headSeq
  <2>9. QED
    BY <2>5, <2>6, <2>7, <2>8 DEF Spoken
<1>7. CASE d # e
  <2> HIDE DEF f
  <2>1. ready'[d] = ready[d] /\ down'[d] = down[d] /\ up'[d] = up[d]
    BY <1>1, <1>2, <1>5, <1>7
  <2>2. QED
    BY <1>1, <1>2, <2>1, SilentSpoken
<1>8. QED
  BY <1>6, <1>7

\* A batch that arrives over HTTPS is relayed to every greeted socket.
LEMMA PostSpoken ==
    ASSUME RoadsInv, RoomTypeOK', NEW b \in Batches, postRow(b), NEW d \in Devices
    PROVE  Spoken(d)
<1>1. /\ RoomTypeOK /\ appendRow(b) /\ down'[d] = Relay(b, {})[d] /\ ready'[d] = ready[d]
      /\ up'[d] = up[d]
  BY LogTyped DEF postRow
<1>2. QED
  BY <1>1, RelaySpoken

-----------------------------------------------------------------------------
(* The session that hears.                                                 *)

\* The session, the uploads and the faults of another device.
LEMMA OthersSpoken ==
    ASSUME TypeOK, TypeOK', NEW d \in Devices, NEW e \in Devices \ {d},
           \/ SessionStep(e) \/ FlushStep(e) \/ CheckpointStep(e) \/ CheckpointTimeout(e)
           \/ Drop(e) \/ DialFails(e) \/ HttpFails(e) \/ Crash(e)
    PROVE  Spoken(d)
<1>1. /\ up \in [Devices -> Seq(UpFrames)] /\ down \in [Devices -> Seq(DownFrames)]
      /\ ready \in [Devices -> BOOLEAN] /\ floor' \in Nat
  BY DEF TypeOK, RoomTypeOK
<1>2. ASSUME NEW sh, NEW act, NEW h, maybe_repair_gap(e, sh, act, h)
      PROVE  up'[d] = up[d] /\ down'[d] = down[d] /\ ready'[d] = ready[d]
  BY <1>1, <1>2 DEF maybe_repair_gap, HangUp
<1>3. CASE RecvRow(e) \/ RecvAck(e) \/ RecvQuota(e) \/ RecvDone(e)
  <2>1. UNCHANGED log /\ \E sh, act, h : maybe_repair_gap(e, sh, act, h)
    BY <1>3 DEF RecvRow, RecvAck, RecvQuota, RecvDone
  <2>2. QED
    BY <1>1, <1>2, <2>1, SilentSpoken
<1>4. CASE Dial(e) \/ RecvState(e) \/ FetchCheckpoint(e) \/ push_pending(e) \/ push_head(e)
  <2>1. UNCHANGED log /\ up'[d] = up[d] /\ down'[d] = down[d] /\ ready'[d] = ready[d]
    BY <1>1, <1>4 DEF Dial, RecvState, FetchCheckpoint, push_pending, push_head, roomVars
  <2>2. QED
    BY <1>1, <2>1, SilentSpoken
<1>5. CASE \/ FlushStep(e) \/ CheckpointStep(e) \/ CheckpointTimeout(e) \/ DialFails(e) \/ HttpFails(e)
  <2>1. UNCHANGED <<log, up, down, ready>>
    BY <1>5 DEF FlushStep, FlushBegin, FlushCommit, CheckpointStep, CheckpointBegin, CheckpointExport,
       CheckpointPost, CheckpointTimeout, DialFails, HttpFails, roomVars
  <2>2. QED
    BY <1>1, <2>1, SilentSpoken
<1>6. CASE Drop(e) \/ Crash(e)
  <2>1. UNCHANGED log /\ up'[d] = up[d] /\ down'[d] = down[d] /\ ready'[d] = ready[d]
    BY <1>1, <1>6 DEF Drop, HangUp, Crash
  <2>2. QED
    BY <1>1, <2>1, SilentSpoken
<1>7. QED
  BY <1>3, <1>4, <1>5, <1>6 DEF SessionStep

\* The HTTPS task of any device.
LEMMA TaskSpoken ==
    ASSUME RoadsInv, TypeOK', NEW d \in Devices, NEW e \in Devices, HttpStep(e)
    PROVE  Spoken(d)
<1>1. RoomTypeOK' /\ floor' \in Nat
  BY DEF TypeOK, RoomTypeOK
<1>2. CASE HttpPush(e)
  <2>1. http[e].todo # {} /\ postRow(First(http[e].todo))
    BY <1>2 DEF HttpPush
  <2>2. http[e].todo \in SUBSET Batches
    BY OwnEntries DEF Http
  <2>3. First(http[e].todo) \in Batches
    BY <2>1, <2>2, FirstIn
  <2>4. QED
    BY <1>1, <2>1, <2>3, PostSpoken
<1>3. CASE ~HttpPush(e)
  <2>1. UNCHANGED <<log, up, down, ready>>
    BY <1>3 DEF HttpStep, HttpAck, HttpPull, HttpState, HttpFetch, HttpRow, HttpDone, roomVars
  <2>2. QED
    BY <1>1, <2>1, SilentSpoken
<1>4. QED
  BY <1>2, <1>3

\* A device that stays up forgets nothing, and parks only what has to wait.
LEMMA StaysHeld ==
    ASSUME RoadsInv, Next, NEW d \in Devices \ Crashers, Waiting(d)
    PROVE  Held(d) \subseteq Held(d)' /\ Waiting(d)'
<1>1. /\ TypeOK /\ parked \in [Devices -> SUBSET Batches] /\ doc \in [Devices -> SUBSET Batches]
      /\ deps \in [Batches -> SUBSET Batches] /\ d \in Devices
      /\ \A b \in Batches : deps[b] \subseteq written
      /\ parked[d] \subseteq written
  BY LogTyped DEF TypeOK, ClientTypeOK, Roads, DocsClosed
<1>2. ASSUME UNCHANGED docVars PROVE Held(d) \subseteq Held(d)' /\ Waiting(d)'
  BY <1>2 DEF docVars, Held, Waiting
<1>3. ASSUME NEW e \in Devices, NEW b \in Batches, enqueue_batch(e, b)
      PROVE  Held(d) \subseteq Held(d)' /\ Waiting(d)'
  <2>1. /\ Held(d) \subseteq Held(d)' /\ Held(d)' \subseteq Held(d) \cup {b}
    BY <1>1, <1>3, WriteHeld
  <2>2. /\ b \notin written /\ deps' = [deps EXCEPT ![b] = doc[e]] /\ UNCHANGED parked
    BY <1>3 DEF enqueue_batch
  <2>3. ASSUME NEW c \in parked'[d] PROVE ~(deps'[c] \subseteq Held(d)')
    <3>1. c \in parked[d] /\ c \in written /\ c # b /\ c \in Batches
      BY <1>1, <2>2, <2>3
    <3>2. deps'[c] = deps[c] /\ b \notin deps[c] /\ ~(deps[c] \subseteq Held(d))
      BY <1>1, <2>2, <3>1 DEF Waiting
    <3>3. QED
      BY <2>1, <3>2
  <2>4. QED
    BY <2>1, <2>3 DEF Waiting
<1>4. ASSUME NEW e \in Devices, Learns(e) PROVE Held(d) \subseteq Held(d)' /\ Waiting(d)'
  <2>1. PICK S \in SUBSET written : Import(e, S)
    BY <1>4 DEF Learns
  <2>2. /\ doc' = [doc EXCEPT ![e] = Applied(e, S)]
        /\ parked' = [parked EXCEPT ![e] = Known(e, S) \ Applied(e, S)]
        /\ UNCHANGED deps
    BY <2>1 DEF Import
  <2>3. CASE e = d
    <3>1. doc'[d] = Applied(d, S) /\ parked'[d] = Known(d, S) \ Applied(d, S)
      BY <1>1, <2>2, <2>3
    <3>2. Held(d)' = Known(d, S)
      BY <3>1 DEF Held, Applied
    <3>3. \A b \in parked'[d] : ~(deps'[b] \subseteq Held(d)')
      BY <2>2, <3>1, <3>2 DEF Applied
    <3>4. QED
      BY <3>2, <3>3 DEF Waiting, Held, Known
  <2>4. CASE e # d
    <3>1. doc'[d] = doc[d] /\ parked'[d] = parked[d]
      BY <1>1, <2>2, <2>4
    <3>2. QED
      BY <2>2, <3>1 DEF Waiting, Held
  <2>5. QED
    BY <2>3, <2>4
<1>5. ASSUME NEW e \in Devices, Crash(e) PROVE Held(d) \subseteq Held(d)' /\ Waiting(d)'
  <2>1. e # d /\ UNCHANGED deps
    BY <1>5 DEF Crash
  <2>2. doc'[d] = doc[d] /\ parked'[d] = parked[d]
    BY <1>1, <1>5, <2>1 DEF Crash
  <2>3. QED
    BY <2>1, <2>2 DEF Waiting, Held
<1>6. CASE \E e \in Devices, b \in Batches : enqueue_batch(e, b)
  BY <1>3, <1>6
<1>7. CASE \E e \in Devices : Learns(e) \/ Crash(e)
  BY <1>4, <1>5, <1>7
<1>8. CASE Numbers
  <2>1. UNCHANGED docVars
    BY <1>8 DEF Numbers
  <2>2. QED
    BY <1>2, <2>1
<1>9. CASE UNCHANGED <<log, docVars>>
  BY <1>2, <1>9
<1>10. QED
  BY <1>6, <1>7, <1>8, <1>9, StepKinds


\* A session that takes frames has heard of every live row of the others.
LEMMA StillComing ==
    ASSUME RoadsInv, NEW d \in Devices, Heard(d), Receiving(d), Held(d) \subseteq Held(d)',
           NEW t \in LiveSeqs, Author(log[t]) # d
    PROVE  \/ Got(Held(d)', 0, t, log) \/ Asked(up[d], t) \/ Coming(down[d], t)
           \/ shared[d].gapRepair
<1>1. HeardAt(d, t) /\ Base(actor[d]) = 0
  BY DEF Heard, Joined, Receiving, Base
<1>2. t \in Nat /\ t <= Len(log) /\ log \in Seq(Batches) /\ Extends(log, log)
  BY LogTyped, LiveNow DEF Extends
<1>3. Got(Held(d), 0, t, log) => Got(Held(d)', 0, t, log)
  BY <1>2, GotMono
<1>4. QED
  BY <1>1, <1>3 DEF HeardAt

\* After a frame of the session: the gap repair asks for every row above the
\* cursor, and what lies below it is in the document.
LEMMA RepairHeard ==
    ASSUME RoadsInv, NEW d \in Devices, Heard(d), SoundAt(d)', Waiting(d)', Receiving(d),
           UNCHANGED <<log, floor>>, NEW sh \in Shared, NEW act \in Actor,
           act.phase \in {"backfill", "live"}, NEW h, maybe_repair_gap(d, sh, act, h),
           NEW rest, rest = (IF DownHead(d, "rows") THEN AfterRow(down[d]) ELSE Tail(down[d])),
           \A t \in LiveSeqs : Author(log[t]) # d =>
              Got(Held(d)', 0, t, log) \/ Asked(up[d], t) \/ Coming(rest, t) \/ sh.gapRepair
    PROVE  Heard(d)'
<1> DEFINE sh1 == [sh EXCEPT !.gapRepair = FALSE]
           act1 == [act EXCEPT !.repairs = @ + 1]
           sh2 == [sh EXCEPT !.gapRepair = @ /\ sh.needsCkpt]
           req == RowsReq(sh.cursor, FALSE)
<1>1. \/ /\ shared' = [shared EXCEPT ![d] = sh] /\ actor' = [actor EXCEPT ![d] = act]
         /\ down' = [down EXCEPT ![d] = rest] /\ UNCHANGED <<up, ready>>
      \/ /\ shared' = [shared EXCEPT ![d] = sh1] /\ actor' = [actor EXCEPT ![d] = act1]
         /\ down' = [down EXCEPT ![d] = rest] /\ up' = [up EXCEPT ![d] = Append(@, req)]
         /\ UNCHANGED ready
      \/ HangUp(d, sh2, h)
  BY DEF maybe_repair_gap
<1>2. sh.cursor \in Nat /\ sh1.cursor = sh.cursor /\ act1.phase = act.phase
  BY DEF Shared, Actor
<1>3. req \in UpFrames /\ req.t = "rowsReq" /\ req.after = sh.cursor
  BY <1>2, UpFrameTypes DEF RowsReq
<1> HIDE DEF sh1, act1, sh2, req
<1>4. /\ up[d] \in Seq(UpFrames) /\ Len(log) \in Nat /\ ready[d]
      /\ \A t \in LiveSeqs : t \in Nat /\ t <= Len(log)
  BY OwnEntries, LogTyped, LiveNow DEF Heard, Joined, Receiving
<1>5. CASE HangUp(d, sh2, h)
  <2>1. actor'[d].phase = "down" /\ down'[d] = <<>>
    BY <1>5, HangUpLeaves
  <2>2. QED
    BY <2>1, NoFrames, OutHeard DEF Joined
<1>6. ASSUME ready'[d], actor'[d].phase \in {"backfill", "live"},
             \A t \in LiveSeqs : Author(log[t]) # d =>
                \/ Got(Held(d)', 0, t, log) \/ Asked(up'[d], t) \/ Coming(down'[d], t)
                \/ shared'[d].gapRepair
      PROVE  Heard(d)'
  <2>1. LiveSeqs' = LiveSeqs /\ Base(actor'[d]) = 0
    BY <1>6 DEF LiveSeqs, headSeq, Base
  <2>2. \A t \in LiveSeqs' : Author(log'[t]) # d => HeardAt(d, t)'
    BY <1>6, <2>1 DEF HeardAt
  <2>3. QED
    BY <1>6, <2>2 DEF Heard
<1>7. CASE /\ shared' = [shared EXCEPT ![d] = sh] /\ actor' = [actor EXCEPT ![d] = act]
           /\ down' = [down EXCEPT ![d] = rest] /\ UNCHANGED <<up, ready>>
  <2>1. shared'[d] = sh /\ actor'[d] = act /\ down'[d] = rest /\ up'[d] = up[d] /\ ready'[d]
    BY <1>4, <1>7, OwnEntries
  <2>2. QED
    BY <1>6, <2>1
<1>8. CASE /\ shared' = [shared EXCEPT ![d] = sh1] /\ actor' = [actor EXCEPT ![d] = act1]
           /\ down' = [down EXCEPT ![d] = rest] /\ up' = [up EXCEPT ![d] = Append(@, req)]
           /\ UNCHANGED ready
  <2>1. /\ shared'[d] = sh1 /\ actor'[d] = act1 /\ down'[d] = rest /\ ready'[d]
        /\ up'[d] = Append(up[d], req)
    BY <1>4, <1>8, OwnEntries
  <2>2. actor'[d].phase \in {"backfill", "live"} /\ shared'[d].cursor = sh.cursor
    BY <1>2, <2>1
  <2>3. Has(doc'[d], sh.cursor, log)
    BY <2>2 DEF SoundAt, Debts
  <2>4. ASSUME NEW t \in LiveSeqs PROVE Got(Held(d)', 0, t, log) \/ Asked(up'[d], t)
    <3>1. t \in Nat /\ (sh.cursor < t \/ t <= sh.cursor)
      BY <1>2, <1>4
    <3>2. CASE sh.cursor < t
      BY <1>3, <1>4, <2>1, <3>2, AskedSend
    <3>3. CASE t <= sh.cursor
      <4>1. \A s \in 1 .. t : s \in 1 .. sh.cursor
        BY <1>2, <3>1, <3>3
      <4>2. Got(doc'[d], 0, t, log)
        BY <2>3, <4>1 DEF Has, Got
      <4>3. QED
        BY <4>2 DEF Got, Held
    <3>4. QED
      BY <3>1, <3>2, <3>3
  <2>5. QED
    BY <1>6, <2>1, <2>2, <2>4
<1>9. QED
  BY <1>1, <1>5, <1>7, <1>8

\* A row: it is the next one and is held from now on, or the gap below it is noticed.
LEMMA RecvRowHeard ==
    ASSUME RoadsInv, NEW d \in Devices, Heard(d), SoundAt(d), SoundAt(d)', Waiting(d)',
           Held(d) \subseteq Held(d)', RecvRow(d), UNCHANGED floor
    PROVE  Heard(d)'
<1> DEFINE r == FirstRow(Head(down[d]).rows)
           ok == r.batch \in Applied(d, {r.batch})
           sh == RowAdvance(shared[d], r, ok)
           h == [http[d] EXCEPT !.gap = @ \/ (~ok /\ http[d].step = "fetch")]
           rest == AfterRow(down[d])
<1>1. /\ Receiving(d) /\ DownHead(d, "rows") /\ Import(d, {r.batch})
      /\ maybe_repair_gap(d, sh, actor[d], h)
      /\ UNCHANGED log
  BY DEF RecvRow
<1>2. r \in Row /\ RowIn(r, log) /\ down[d] \in Seq(DownFrames) /\ down[d] # <<>> /\ Head(down[d]).t = "rows"
  BY <1>1, OwnEntries, EntryTrue, AfterRowTrue DEF DownHead
<1>3. rest = (IF DownHead(d, "rows") THEN AfterRow(down[d]) ELSE Tail(down[d]))
  BY <1>1
<1>4. \A t : Coming(down[d], t) => Coming(rest, t) \/ r.seq = t
  BY <1>2, ComingAfterRow
<1> HIDE DEF r, h, rest
<1>5. sh \in Shared
  BY <1>1, <1>2, RowImport
<1>6. /\ shared[d].gapRepair => sh.gapRepair
      /\ r.seq > shared[d].cursor + 1 => sh.gapRepair
  <2>1. shared[d] \in Shared
    BY OwnEntries
  <2>2. QED
    BY <2>1 DEF RowAdvance, Shared
<1>7. r.seq <= shared[d].cursor + 1 => Got(Held(d)', 0, r.seq, log)
  <2>1. /\ Has(doc[d], shared[d].cursor, log) /\ shared[d].cursor \in Nat /\ r.seq \in Nat
        /\ log[r.seq] = r.batch
    BY <1>1, <1>2, OwnEntries DEF SoundAt, Debts, Receiving, RowIn, Row
  <2>2. r.batch \in Held(d)'
    <3>1. /\ doc'[d] = Applied(d, {r.batch}) /\ parked'[d] = Known(d, {r.batch}) \ Applied(d, {r.batch})
      BY <1>1, LogTyped DEF Import, TypeOK, ClientTypeOK
    <3>2. QED
      BY <3>1 DEF Held, Known
  <2>3. ASSUME r.seq <= shared[d].cursor + 1, NEW s \in 1 .. r.seq PROVE log[s] \in Held(d)'
    <3>1. s = r.seq \/ s \in 1 .. shared[d].cursor
      BY <2>1, <2>3
    <3>2. CASE s \in 1 .. shared[d].cursor
      <4>1. log[s] \in Held(d)
        BY <2>1, <3>2 DEF Has, Held
      <4>2. QED
        BY <4>1
    <3>3. QED
      BY <2>1, <2>2, <3>1, <3>2
  <2>4. QED
    BY <2>3 DEF Got
<1>8. ASSUME NEW t \in LiveSeqs, Author(log[t]) # d
      PROVE  Got(Held(d)', 0, t, log) \/ Asked(up[d], t) \/ Coming(rest, t) \/ sh.gapRepair
  <2>1. r.seq \in Nat /\ shared[d].cursor \in Nat
    BY <1>2, OwnEntries DEF Row
  <2>2. r.seq > shared[d].cursor + 1 \/ r.seq <= shared[d].cursor + 1
    BY <2>1
  <2> HIDE DEF sh
  <2>3. QED
    BY <1>1, <1>4, <1>6, <1>7, <1>8, <2>2, StillComing
<1> HIDE DEF sh
<1>9. actor[d] \in Actor /\ actor[d].phase \in {"backfill", "live"}
  BY <1>1, OwnEntries DEF Receiving
<1>10. QED
  BY <1>1, <1>3, <1>5, <1>8, <1>9, RepairHeard

\* A frame that is no row.
LEMMA FrameHeard ==
    ASSUME RoadsInv, NEW d \in Devices, Heard(d), SoundAt(d)', Waiting(d)', Receiving(d),
           Held(d) \subseteq Held(d)', UNCHANGED <<log, floor>>,
           down[d] # <<>>, Head(down[d]).t # "rows",
           NEW sh \in Shared, shared[d].gapRepair => sh.gapRepair, NEW act \in Actor,
           act.phase \in {"backfill", "live"}, NEW h, maybe_repair_gap(d, sh, act, h)
    PROVE  Heard(d)'
<1> DEFINE rest == Tail(down[d])
<1>1. rest = (IF DownHead(d, "rows") THEN AfterRow(down[d]) ELSE Tail(down[d]))
  BY DEF DownHead
<1>2. \A t : Coming(down[d], t) => Coming(rest, t)
  BY OwnEntries, ComingTail
<1> HIDE DEF rest
<1>3. \A t \in LiveSeqs : Author(log[t]) # d =>
          Got(Held(d)', 0, t, log) \/ Asked(up[d], t) \/ Coming(rest, t) \/ sh.gapRepair
  BY <1>2, StillComing
<1>4. QED
  BY <1>1, <1>3, RepairHeard

\* An acknowledgement, a refusal, and the end of the backfill.
LEMMA RecvOtherHeard ==
    ASSUME RoadsInv, NEW d \in Devices, Heard(d), SoundAt(d)', Waiting(d)',
           Held(d) \subseteq Held(d)', UNCHANGED floor,
           RecvAck(d) \/ RecvQuota(d) \/ RecvDone(d)
    PROVE  Heard(d)'
<1>1. shared[d] \in Shared /\ actor[d] \in Actor
  BY OwnEntries
<1>2. CASE RecvAck(d)
  <2> DEFINE f == Head(down[d])
             old == shared[d]
             left == old.pending \ {f.batch}
             sh == [QuotaGrant(old, left) EXCEPT
                        !.pending = left,
                        !.cursor = AckAdvance(@, f.seq),
                        !.gapRepair = @ \/ f.seq > old.cursor + 1]
  <2>1. /\ Receiving(d) /\ DownHead(d, "ack")
        /\ maybe_repair_gap(d, sh, actor[d], http[d])
        /\ UNCHANGED log
    BY <1>2 DEF RecvAck
  <2>2. f \in DownFrames /\ f.t = "ack"
    BY <2>1, OwnEntries DEF DownHead
  <2>3. f.seq \in Nat
    BY <2>2, AckHead
  <2>4. QuotaGrant(old, left) \in Shared /\ QuotaGrant(old, left).gapRepair = old.gapRepair
    <3>1. QuotaGrant(old, left).gapRepair = old.gapRepair
      BY <1>1 DEF QuotaGrant, Shared
    <3> HIDE DEF left
    <3>2. QED
      BY <1>1, <3>1, QuotaGrantType
  <2>5. AckAdvance(QuotaGrant(old, left).cursor, f.seq) \in Nat /\ left \in SUBSET Batches
    BY <1>1, <2>3, <2>4, AckAdvanceType DEF Shared
  <2>6. sh \in Shared /\ (old.gapRepair => sh.gapRepair)
    <3> DEFINE g == QuotaGrant(old, left)
    <3> HIDE DEF g
    <3>1. /\ g \in Shared /\ g.gapRepair = old.gapRepair /\ AckAdvance(g.cursor, f.seq) \in Nat
          /\ left \in SUBSET Batches
      BY <2>4, <2>5 DEF g
    <3> HIDE DEF left, f, old
    <3>2. [g EXCEPT !.pending = left, !.cursor = AckAdvance(@, f.seq),
                    !.gapRepair = @ \/ f.seq > old.cursor + 1] \in Shared
      BY <3>1 DEF Shared
    <3>3. [g EXCEPT !.pending = left, !.cursor = AckAdvance(@, f.seq),
                    !.gapRepair = @ \/ f.seq > old.cursor + 1].gapRepair
             = (g.gapRepair \/ f.seq > old.cursor + 1)
      BY <3>1 DEF Shared
    <3>4. QED
      BY <3>1, <3>2, <3>3 DEF g
  <2> HIDE DEF sh
  <2>7. /\ down[d] # <<>> /\ Head(down[d]).t # "rows" /\ actor[d].phase \in {"backfill", "live"}
    BY <2>1 DEF DownHead, Receiving
  <2>8. QED
    BY <1>1, <2>1, <2>6, <2>7, FrameHeard
<1>3. CASE RecvQuota(d)
  <2> DEFINE sh == [shared[d] EXCEPT !.quotaBlocked = TRUE, !.retryAt = TRUE]
  <2>1. /\ Receiving(d) /\ DownHead(d, "quota") /\ UNCHANGED log
        /\ maybe_repair_gap(d, sh, actor[d], http[d])
    BY <1>3 DEF RecvQuota
  <2>2. sh \in Shared /\ sh.gapRepair = shared[d].gapRepair
    BY <1>1 DEF Shared
  <2> HIDE DEF sh
  <2>3. /\ down[d] # <<>> /\ Head(down[d]).t # "rows" /\ actor[d].phase \in {"backfill", "live"}
    BY <2>1 DEF DownHead, Receiving
  <2>4. QED
    BY <1>1, <2>1, <2>2, <2>3, FrameHeard
<1>4. CASE RecvDone(d)
  <2> DEFINE act == [actor[d] EXCEPT !.phase = "live", !.resumed = TRUE]
  <2>1. /\ Receiving(d) /\ DownHead(d, "done") /\ UNCHANGED log
        /\ maybe_repair_gap(d, shared[d], act, http[d])
    BY <1>4 DEF RecvDone
  <2>2. act \in Actor /\ act.phase = "live"
    BY <1>1 DEF Actor
  <2> HIDE DEF act
  <2>3. /\ down[d] # <<>> /\ Head(down[d]).t # "rows"
    BY <2>1 DEF DownHead
  <2>4. QED
    BY <1>1, <2>1, <2>2, <2>3, FrameHeard
<1>5. QED
  BY <1>2, <1>3, <1>4


\* What has been reached by a cursor that owes nothing is held.
LEMMA HasGot ==
    ASSUME NEW S, NEW n \in Nat, NEW lg, Has(S, n, lg), NEW t \in Nat, t <= n, NEW E, S \subseteq E
    PROVE  Got(E, 0, t, lg)
<1>1. \A s \in 1 .. t : s \in 1 .. n
  OBVIOUS
<1>2. QED
  BY <1>1 DEF Has, Got

\* What the state frame leaves behind: the plan's number is the cursor, every row
\* above it is asked for, and what lies below comes with the checkpoint to fetch.
LEMMA CatchUpAsks ==
    ASSUME RoadsInv, NEW d \in Devices, RecvState(d)
    PROVE  \E n \in Nat :
              /\ shared'[d].cursor = n /\ down'[d] = Tail(down[d]) /\ ready'[d] = ready[d]
              /\ HasState(down[d]) /\ UNCHANGED <<log, floor>>
              /\ \A t : n < t => Asked(up'[d], t)
              /\ \/ actor'[d].phase = "fetch" /\ actor'[d].target = n
                 \/ actor'[d].phase = "backfill"
<1> DEFINE st == Head(down[d])
           sh == shared[d]
           contained == ~st.present \/ (~sh.needsCkpt /\ contains_frontier(doc[d], st.content))
           plan == plan_catch_up(sh.cursor, st, contained)
           burst == IF sh.quotaBlocked THEN {} ELSE sh.pending
           wiped == sh.cursor > st.head
           req == RowsReq(plan.after, actor[d].resumed /\ ~sh.needsCkpt)
           pushes == IF burst = {} THEN <<>> ELSE <<PushFrame(burst)>>
           act == StartCatchUp(actor[d], plan, burst, st, wiped /\ d = Host)
           si == [sh EXCEPT !.cursor = plan.after, !.server = ViewOf(st),
                            !.needsCkpt = plan.fetch /\ @]
<1>1. /\ down[d] # <<>> /\ st.t = "state"
      /\ shared' = [shared EXCEPT ![d] = si]
      /\ actor' = [actor EXCEPT ![d] = act]
      /\ up' = [up EXCEPT ![d] = Append(up[d], req) \o pushes]
      /\ down' = [down EXCEPT ![d] = Tail(down[d])]
      /\ UNCHANGED <<log, floor, ready>>
  BY DEF RecvState, DownHead
<1>2. /\ sh \in Shared /\ actor[d] \in Actor /\ up[d] \in Seq(UpFrames) /\ down[d] \in Seq(DownFrames)
      /\ sh.cursor \in Nat /\ sh.cursor <= Len(log) /\ Len(log) \in Nat /\ floor <= Len(log)
      /\ floor \in Nat
  BY OwnEntries, EntryTrue DEF SharedIn
<1>3. HasState(down[d])
  <2>1. 1 \in 1 .. Len(down[d]) /\ down[d][1].t = "state"
    BY <1>1, <1>2
  <2>2. QED
    BY <2>1 DEF HasState
<1>4. st \in State /\ st.seq \in Nat /\ st.seq <= Len(log)
  <2>1. st \in DownFrames /\ st = down[d][1] /\ 1 \in 1 .. Len(down[d])
    BY <1>1, <1>2
  <2>2. st \in State /\ st.seq <= floor
    BY <1>1, <2>1, StateHead, EntryTrue DEF ChTrue, FrameIn
  <2> HIDE DEF st
  <2>3. QED
    BY <1>2, <2>2 DEF State
<1> HIDE DEF st, contained
<1>5. plan.after \in Nat
  BY <1>2, <1>4, PlanIn
<1>6. plan.fetch => plan.after = st.seq
  BY DEF plan_catch_up
<1>7. si.cursor = plan.after
  BY <1>2 DEF Shared
<1>8. act.phase = (IF plan.fetch THEN "fetch" ELSE "backfill") /\ act.target = st.seq
  BY <1>2 DEF StartCatchUp, Actor
<1> HIDE DEF act, si
<1>9. req \in UpFrames /\ req.t = "rowsReq" /\ req.after = plan.after
  <2>1. (actor[d].resumed /\ ~sh.needsCkpt) \in BOOLEAN
    OBVIOUS
  <2> HIDE DEF plan
  <2>2. QED
    BY <1>5, <2>1, UpFrameTypes DEF RowsReq
<1> HIDE DEF req
<1> DEFINE ch == Append(up[d], req)
<1>10. ch \in Seq(UpFrames) /\ \A t : plan.after < t => Asked(ch, t)
  BY <1>2, <1>9, AskedSend
<1> HIDE DEF ch
<1>11. \A t : plan.after < t => Asked(ch \o pushes, t)
  <2>1. CASE burst = {}
    <3>1. ch \o pushes = ch
      BY <1>9, <1>10, <2>1, Concat
    <3>2. QED
      BY <1>10, <3>1
  <2>2. CASE burst # {}
    <3> DEFINE f == PushFrame(burst)
    <3>1. f \in UpFrames
      <4>1. burst \in SUBSET Batches
        BY <1>2 DEF Shared
      <4>2. QED
        BY <2>2, <4>1, UpFrameTypes
    <3>2. pushes = <<f>>
      BY <2>2
    <3> HIDE DEF f, pushes
    <3>3. ch \o pushes = Append(ch, f)
      BY <1>10, <3>1, <3>2, Concat
    <3>4. QED
      BY <1>10, <3>1, <3>3, AskedSend
  <2>3. QED
    BY <2>1, <2>2
<1> HIDE DEF pushes
<1>12. /\ shared'[d] = si /\ actor'[d] = act /\ up'[d] = ch \o pushes /\ down'[d] = Tail(down[d])
       /\ ready'[d] = ready[d]
  BY <1>1, OwnEntries DEF ch
<1> DEFINE n == plan.after
<1>13. n \in Nat /\ (\A t : n < t => Asked(up'[d], t)) /\ shared'[d].cursor = n
  BY <1>5, <1>7, <1>11, <1>12
<1>14. \/ actor'[d].phase = "fetch" /\ actor'[d].target = n
       \/ actor'[d].phase = "backfill"
  BY <1>6, <1>8, <1>12
<1> HIDE DEF n
<1>15. QED
  BY <1>1, <1>3, <1>12, <1>13, <1>14

\* The state frame: what is not below the plan's number is asked for.
LEMMA RecvStateHeard ==
    ASSUME RoadsInv, NEW d \in Devices, Heard(d), SoundAt(d)', Waiting(d)', RoomTypeOK',
           RecvState(d)
    PROVE  Heard(d)'
<1>1. PICK n \in Nat :
              /\ shared'[d].cursor = n /\ down'[d] = Tail(down[d]) /\ ready'[d] = ready[d]
              /\ HasState(down[d]) /\ UNCHANGED <<log, floor>>
              /\ \A t : n < t => Asked(up'[d], t)
              /\ \/ actor'[d].phase = "fetch" /\ actor'[d].target = n
                 \/ actor'[d].phase = "backfill"
  BY CatchUpAsks
<1>2. ready'[d]
  BY <1>1 DEF Heard
<1>3. ASSUME NEW t \in LiveSeqs' PROVE HeardAt(d, t)'
  <2>1. t \in Nat
    BY <1>3, LiveNext
  <2>2. CASE n < t
    BY <1>1, <2>2 DEF HeardAt
  <2>3. CASE t <= n /\ actor'[d].phase = "fetch"
    <3>1. \A s \in 1 .. t : ~(s > n)
      BY <2>1, <2>3
    <3>2. Base(actor'[d]) = n
      BY <1>1, <2>3 DEF Base
    <3>3. Got(Held(d)', n, t, log')
      BY <3>1 DEF Got
    <3>4. QED
      BY <3>2, <3>3 DEF HeardAt
  <2>4. CASE t <= n /\ actor'[d].phase = "backfill"
    <3>1. Has(doc'[d], n, log') /\ doc'[d] \subseteq Held(d)'
      BY <1>1, <2>4 DEF SoundAt, Debts, Held
    <3>2. Got(Held(d)', 0, t, log')
      BY <2>1, <2>4, <3>1, HasGot
    <3>3. Base(actor'[d]) = 0
      BY <2>4 DEF Base
    <3>4. QED
      BY <3>2, <3>3 DEF HeardAt
  <2>5. QED
    BY <1>1, <2>1, <2>2, <2>3, <2>4
<1>4. QED
  BY <1>2, <1>3 DEF Heard

\* The checkpoint: it brings what its number promised.
LEMMA FetchHeard ==
    ASSUME RoadsInv, NEW d \in Devices, Heard(d), SoundAt(d)', Waiting(d)',
           Held(d) \subseteq Held(d)', FetchCheckpoint(d)
    PROVE  Heard(d)'
<1> DEFINE k == actor[d].target
           si == CaughtUpTo(shared[d], k, actor[d].gap)
<1>1. /\ actor[d].phase = "fetch"
      /\ shared' = [shared EXCEPT ![d] = si]
      /\ actor' = [actor EXCEPT ![d].phase = "backfill"]
      /\ UNCHANGED <<up, down, ready, log, floor>>
  BY DEF FetchCheckpoint, roomVars
<1>2. shared[d] \in Shared /\ shared[d].cursor \in Nat /\ k \in Nat /\ actor[d] \in Actor
  BY OwnEntries
<1>3. si.cursor = Larger(shared[d].cursor, k) /\ si.gapRepair = shared[d].gapRepair
  BY <1>2 DEF CaughtUpTo, Shared
<1> HIDE DEF si
<1>4. /\ actor'[d].phase = "backfill" /\ shared'[d].cursor = Larger(shared[d].cursor, k)
      /\ shared'[d].gapRepair = shared[d].gapRepair
  BY <1>1, <1>3, OwnEntries DEF Actor
<1>5. Larger(shared[d].cursor, k) \in Nat /\ k <= Larger(shared[d].cursor, k)
  BY <1>2 DEF Larger
<1>6. Has(doc'[d], Larger(shared[d].cursor, k), log) /\ doc'[d] \subseteq Held(d)'
  BY <1>1, <1>4 DEF SoundAt, Debts, Held
<1>7. ready[d] /\ Base(actor[d]) = k /\ Base(actor'[d]) = 0
  BY <1>1, <1>4 DEF Heard, Joined, Base
<1>8. ASSUME NEW t \in LiveSeqs', Author(log'[t]) # d PROVE HeardAt(d, t)'
  <2>1. t \in LiveSeqs /\ t \in Nat /\ log'[t] = log[t]
    <3>1. LiveSeqs' = LiveSeqs
      BY <1>1 DEF LiveSeqs, headSeq
    <3>2. QED
      BY <1>1, <1>8, <3>1, LogTyped, LiveNow
  <2>2. HeardAt(d, t)
    BY <1>1, <1>8, <2>1 DEF Heard, Joined
  <2>3. CASE Got(Held(d), k, t, log)
    <3>1. ASSUME NEW s \in 1 .. t PROVE log[s] \in Held(d)'
      <4>1. CASE s > k
        BY <2>3, <4>1 DEF Got
      <4>2. CASE s <= k
        <5>1. s \in 1 .. Larger(shared[d].cursor, k)
          BY <1>2, <1>5, <2>1, <4>2
        <5>2. QED
          BY <1>6, <5>1 DEF Has
      <4>3. QED
        BY <1>2, <2>1, <4>1, <4>2
    <3>2. Got(Held(d)', 0, t, log')
      BY <1>1, <3>1 DEF Got
    <3>3. QED
      BY <1>7, <3>2 DEF HeardAt
  <2>4. CASE ~Got(Held(d), k, t, log)
    BY <1>1, <1>4, <1>7, <2>2, <2>4 DEF HeardAt
  <2>5. QED
    BY <2>3, <2>4
<1>9. QED
  BY <1>1, <1>7, <1>8 DEF Heard


\* Dialling, and hanging up, leave nothing to have heard of.
LEMMA LineHeard ==
    ASSUME RoadsInv, NEW d \in Devices, SoundAt(d), Waiting(d)', Dial(d) \/ Drop(d)
    PROVE  Heard(d)'
<1>1. CASE Dial(d)
  <2>1. actor[d].phase = "down" /\ actor' = [actor EXCEPT ![d].phase = "hello"] /\ UNCHANGED down
    BY <1>1 DEF Dial
  <2>2. actor'[d].phase = "hello" /\ down'[d] = <<>>
    BY <2>1, OwnEntries DEF Actor, SoundAt
  <2>3. QED
    BY <2>2, NoFrames, OutHeard DEF Joined
<1>2. CASE Drop(d)
  <2>1. HangUp(d, shared[d], http[d])
    BY <1>2 DEF Drop
  <2>2. actor'[d].phase = "down" /\ down'[d] = <<>>
    BY <2>1, HangUpLeaves
  <2>3. QED
    BY <2>2, NoFrames, OutHeard DEF Joined
<1>3. QED
  BY <1>1, <1>2

\* Steps of the device that neither take a frame nor lead in or out of a session.
Beside(d) ==
    /\ actor'[d].phase = actor[d].phase /\ actor'[d].target = actor[d].target
    /\ shared[d].gapRepair => shared'[d].gapRepair

\* Sending what is pending.
LEMMA SendBeside ==
    ASSUME RoadsInv, TypeOK', NEW d \in Devices, push_pending(d) \/ push_head(d)
    PROVE  Beside(d) /\ Spoken(d)
<1>1. floor' \in Nat /\ up[d] \in Seq(UpFrames)
  BY OwnEntries DEF TypeOK, RoomTypeOK
<1>2. ASSUME NEW S \in SUBSET Batches, S # {}, up'[d] = Append(up[d], PushFrame(S))
      PROVE  \A t : Asked(up[d], t) => Asked(up'[d], t)
  <2> DEFINE f == PushFrame(S)
  <2>1. f \in UpFrames
    BY <1>2, UpFrameTypes
  <2> HIDE DEF f
  <2>2. up'[d] = Append(up[d], f)
    BY <1>2 DEF f
  <2>3. QED
    BY <1>1, <2>1, <2>2, AskedSend
<1>3. CASE push_pending(d)
  <2> DEFINE new == shared[d].pending \ actor[d].inFlight
             flight == (actor[d].inFlight \cap shared[d].pending) \cup new
             act == [actor[d] EXCEPT !.inFlight = flight]
  <2>1. /\ new # {} /\ actor' = [actor EXCEPT ![d] = act]
        /\ up' = [up EXCEPT ![d] = Append(up[d], PushFrame(new))]
        /\ UNCHANGED <<down, ready, log, shared>>
    BY <1>3 DEF push_pending
  <2>2. act.phase = actor[d].phase /\ act.target = actor[d].target /\ new \in SUBSET Batches
    BY OwnEntries DEF Actor, Shared
  <2> HIDE DEF act, new
  <2>3. actor'[d] = act /\ up'[d] = Append(up[d], PushFrame(new))
    BY <2>1, OwnEntries
  <2>4. QED
    BY <1>1, <1>2, <2>1, <2>2, <2>3, SilentSpoken DEF Beside
<1>4. CASE push_head(d)
  <2> DEFINE S == shared[d].pending
  <2>1. /\ shared' = [shared EXCEPT ![d].retryAt = FALSE]
        /\ up' = [up EXCEPT ![d] = IF S = {} THEN up[d] ELSE Append(up[d], PushFrame({First(S)}))]
        /\ UNCHANGED <<down, ready, log, actor>>
    BY <1>4 DEF push_head
  <2>2. shared'[d].gapRepair = shared[d].gapRepair /\ S \in SUBSET Batches
    BY <2>1, OwnEntries DEF Shared
  <2>3. up'[d] = IF S = {} THEN up[d] ELSE Append(up[d], PushFrame({First(S)}))
    BY <2>1, OwnEntries
  <2> HIDE DEF S
  <2>4. \A t : Asked(up[d], t) => Asked(up'[d], t)
    <3>1. CASE S = {}
      BY <2>3, <3>1
    <3>2. CASE S # {}
      <4>1. First(S) \in Batches
        BY <2>2, <3>2, FirstIn
      <4>2. QED
        BY <1>2, <2>3, <3>2, <4>1
    <3>3. QED
      BY <3>1, <3>2
  <2>5. QED
    BY <1>1, <2>1, <2>2, <2>4, SilentSpoken DEF Beside
<1>5. QED
  BY <1>3, <1>4

\* The HTTPS task.
LEMMA TaskBeside ==
    ASSUME RoadsInv, NEW d \in Devices, HttpStep(d)
    PROVE  Beside(d)
<1>1. shared[d] \in Shared /\ actor[d] \in Actor
  BY OwnEntries
<1>2. CASE HttpPush(d) \/ HttpPull(d) \/ HttpDone(d)
  BY <1>2 DEF HttpPush, HttpPull, HttpDone, Beside
<1>3. CASE HttpAck(d)
  <2> DEFINE cursor == AckAdvance(shared[d].cursor, http[d].ack)
             b == First(http[d].todo)
  <2>1. /\ shared' = [shared EXCEPT ![d].pending = @ \ {b}, ![d].cursor = cursor]
        /\ UNCHANGED actor
    BY <1>3 DEF HttpAck
  <2> HIDE DEF b, cursor
  <2>2. shared'[d].gapRepair = shared[d].gapRepair
    BY <2>1, OwnEntries DEF Shared
  <2>3. QED
    BY <2>1, <2>2 DEF Beside
<1>4. ASSUME NEW sh \in Shared, NEW h PROVE HttpBase(sh, h).gapRepair = sh.gapRepair
  BY DEF HttpBase, Shared
<1>5. CASE HttpState(d)
  <2> DEFINE view == [shared[d] EXCEPT !.server = ViewOf(http[d].st)]
  <2>1. /\ \/ shared' = [shared EXCEPT ![d] = view]
           \/ shared' = [shared EXCEPT ![d] = HttpBase(view, http[d])]
        /\ UNCHANGED actor
    BY <1>5 DEF HttpState
  <2>2. view \in Shared /\ view.gapRepair = shared[d].gapRepair
    <3>1. ViewOf(http[d].st) \in ServerView
      BY OwnEntries DEF ViewOf, ServerView, State
    <3>2. QED
      BY <1>1, <3>1 DEF Shared
  <2> HIDE DEF view
  <2>3. shared'[d] = view \/ shared'[d] = HttpBase(view, http[d])
    BY <2>1, OwnEntries
  <2>4. QED
    BY <1>4, <2>1, <2>2, <2>3 DEF Beside
<1>6. CASE HttpFetch(d)
  <2>1. shared'[d] = HttpBase(shared[d], http[d]) /\ UNCHANGED actor
    BY <1>6, OwnEntries DEF HttpFetch
  <2>2. QED
    BY <1>1, <1>4, <2>1 DEF Beside
<1>7. CASE HttpRow(d)
  <2> DEFINE r == FirstRow(http[d].rows)
             ok == r.batch \in Applied(d, {r.batch})
             sh == RowAdvance(shared[d], r, ok)
             act == [actor[d] EXCEPT !.gap = @ \/ (~ok /\ actor[d].phase = "fetch")]
  <2>1. /\ shared' = [shared EXCEPT ![d] = sh] /\ actor' = [actor EXCEPT ![d] = act]
    BY <1>7 DEF HttpRow
  <2>2. shared[d].gapRepair => sh.gapRepair
    BY <1>1 DEF RowAdvance, Shared
  <2>3. act.phase = actor[d].phase /\ act.target = actor[d].target
    BY <1>1 DEF Actor
  <2> HIDE DEF sh, act
  <2>4. shared'[d] = sh /\ actor'[d] = act
    BY <2>1, OwnEntries
  <2>5. QED
    BY <2>2, <2>3, <2>4 DEF Beside
<1>8. QED
  BY <1>2, <1>3, <1>5, <1>6, <1>7 DEF HttpStep

\* A local write, an upload, and requests that fail.
LEMMA RestBeside ==
    ASSUME RoadsInv, TypeOK', NEW d \in Devices,
           \/ \E b \in Batches : enqueue_batch(d, b)
           \/ CheckpointStep(d) \/ CheckpointTimeout(d) \/ DialFails(d) \/ HttpFails(d)
    PROVE  Beside(d) /\ Spoken(d)
<1>1. floor' \in Nat /\ shared[d] \in Shared /\ actor[d] \in Actor
  BY OwnEntries DEF TypeOK, RoomTypeOK
<1>2. CASE \E b \in Batches : enqueue_batch(d, b)
  <2>1. PICK b \in Batches : enqueue_batch(d, b)
    BY <1>2
  <2>2. /\ shared' = [shared EXCEPT ![d].pending = @ \cup ({b} \ Oversize)]
        /\ UNCHANGED <<actor, up, down, ready, log>>
    BY <2>1 DEF enqueue_batch, roomVars
  <2>3. shared'[d].gapRepair = shared[d].gapRepair
    BY <2>2, OwnEntries DEF Shared
  <2>4. QED
    BY <1>1, <2>2, <2>3, SilentSpoken DEF Beside
<1>3. CASE CheckpointBegin(d)
  <2> DEFINE act == Served(actor[d], shared[d].server)
  <2>1. /\ actor' = [actor EXCEPT ![d] = act] /\ UNCHANGED <<shared, up, down, ready, log>>
    BY <1>3 DEF CheckpointBegin, roomVars
  <2>2. act.phase = actor[d].phase /\ act.target = actor[d].target
    BY <1>1 DEF Served, Actor
  <2> HIDE DEF act
  <2>3. actor'[d] = act
    BY <2>1, OwnEntries
  <2>4. QED
    BY <1>1, <2>1, <2>2, <2>3, SilentSpoken DEF Beside
<1>4. CASE CheckpointPost(d)
  <2>1. /\ UNCHANGED <<actor, up, down, ready, log>>
        /\ \/ shared' = [shared EXCEPT ![d].server =
                 IF @.known THEN [known |-> TRUE, present |-> TRUE, many |-> FALSE] ELSE @]
           \/ UNCHANGED shared
    BY <1>4 DEF CheckpointPost
  <2>2. shared'[d].gapRepair = shared[d].gapRepair
    BY <2>1, OwnEntries DEF Shared
  <2>3. QED
    BY <1>1, <2>1, <2>2, SilentSpoken DEF Beside
<1>5. CASE CheckpointExport(d) \/ CheckpointTimeout(d) \/ DialFails(d) \/ HttpFails(d)
  <2>1. UNCHANGED <<actor, shared, up, down, ready, log>>
    BY <1>5 DEF CheckpointExport, CheckpointTimeout, DialFails, HttpFails, roomVars
  <2>2. QED
    BY <1>1, <2>1, SilentSpoken DEF Beside
<1>6. QED
  BY <1>2, <1>3, <1>4, <1>5 DEF CheckpointStep

\* Such a step, and one the device takes no part in, leaves what was heard.
LEMMA BesideHeard ==
    ASSUME RoadsInv, TypeOK', Grows, NEW d \in Devices, Heard(d), Waiting(d)',
           Held(d) \subseteq Held(d)', Spoken(d),
           Beside(d) \/ (actor'[d] = actor[d] /\ shared'[d] = shared[d])
    PROVE  Heard(d)'
<1>1. Joined(actor'[d]) => Joined(actor[d]) /\ Base(actor'[d]) = Base(actor[d])
  BY DEF Beside, Joined, Base
<1>2. shared[d].gapRepair => shared'[d].gapRepair
  BY DEF Beside
<1>3. QED
  BY <1>1, <1>2, HeardKept


\* A step of device e, or of the room, leaves device d knowing what it lacks.
LEMMA HeardStep ==
    ASSUME RoadsInv, SoundInv, SoundInv', HeardInv, TypeOK', Next, NEW d \in Devices \ Crashers
    PROVE  Heard(d)'
<1>1. /\ SoundAt(d) /\ SoundAt(d)' /\ Heard(d) /\ Grows /\ TypeOK /\ RoomTypeOK' /\ d \in Devices
      /\ Held(d) \subseteq Held(d)' /\ Waiting(d)'
  BY NextGrows, LogTyped, StaysHeld DEF SoundInv, HeardInv, Heard, TypeOK
<1>2. ASSUME Spoken(d), Beside(d) \/ (actor'[d] = actor[d] /\ shared'[d] = shared[d])
      PROVE  Heard(d)'
  BY <1>1, <1>2, BesideHeard
<1>3. ASSUME UNCHANGED clientVars, Spoken(d) PROVE Heard(d)'
  BY <1>2, <1>3 DEF clientVars
<1>4. ASSUME NEW e \in Devices, RoomStep(e) \/ refusePush(e), UNCHANGED clientVars PROVE Heard(d)'
  BY <1>1, <1>3, <1>4, HelloSpoken, RowsReqSpoken, PushSpoken, RefuseSpoken DEF RoomStep
<1>5. ASSUME NEW e \in Devices, e # d, Apart(d), Spoken(d) PROVE Heard(d)'
  BY <1>2, <1>5 DEF Apart
<1>6. ASSUME NEW e \in Devices, NEW b \in Batches, enqueue_batch(e, b) PROVE Heard(d)'
  <2>1. CASE e = d
    BY <1>1, <1>2, <1>6, <2>1, RestBeside
  <2>2. CASE e # d
    <3>1. Apart(d) /\ UNCHANGED log /\ up'[d] = up[d] /\ down'[d] = down[d] /\ ready'[d] = ready[d]
      BY <1>1, <1>6, <2>2, WriteApart DEF enqueue_batch, roomVars
    <3>2. Spoken(d)
      BY <1>1, <3>1, SilentSpoken DEF RoomTypeOK
    <3>3. QED
      BY <1>5, <2>2, <3>1, <3>2
  <2>3. QED
    BY <2>1, <2>2
<1>7. ASSUME NEW e \in Devices, SessionStep(e) PROVE Heard(d)'
  <2>1. CASE e = d
    <3>1. CASE Dial(d)
      BY <1>1, <3>1, LineHeard
    <3>2. CASE RecvState(d)
      BY <1>1, <3>2, RecvStateHeard
    <3>3. CASE FetchCheckpoint(d)
      BY <1>1, <3>3, FetchHeard
    <3>4. CASE RecvRow(d)
      BY <1>1, <3>4, RecvRowHeard DEF RecvRow
    <3>5. CASE RecvAck(d) \/ RecvQuota(d) \/ RecvDone(d)
      BY <1>1, <3>5, RecvOtherHeard DEF RecvAck, RecvQuota, RecvDone
    <3>6. CASE push_pending(d) \/ push_head(d)
      BY <1>1, <1>2, <3>6, SendBeside
    <3>7. QED
      BY <1>7, <2>1, <3>1, <3>2, <3>3, <3>4, <3>5, <3>6 DEF SessionStep
  <2>2. CASE e # d
    BY <1>1, <1>5, <1>7, <2>2, SessionApart, OthersSpoken
  <2>3. QED
    BY <2>1, <2>2
<1>8. ASSUME NEW e \in Devices, HttpStep(e) PROVE Heard(d)'
  <2>1. Spoken(d)
    BY <1>1, <1>8, TaskSpoken
  <2>2. CASE e = d
    BY <1>1, <1>2, <1>8, <2>1, <2>2, TaskBeside
  <2>3. CASE e # d
    BY <1>1, <1>5, <1>8, <2>1, <2>3, HttpApart
  <2>4. QED
    BY <2>2, <2>3
<1>9. ASSUME NEW e \in Devices, \/ FlushStep(e) \/ CheckpointStep(e) \/ CheckpointTimeout(e)
                               \/ Drop(e) \/ DialFails(e) \/ HttpFails(e) \/ Crash(e)
      PROVE  Heard(d)'
  <2>1. CASE e = d
    <3>1. ~FlushStep(d) /\ ~Crash(d)
      BY <1>1, NoFlush
    <3>2. CASE Drop(d)
      BY <1>1, <3>2, LineHeard
    <3>3. CASE CheckpointStep(d) \/ CheckpointTimeout(d) \/ DialFails(d) \/ HttpFails(d)
      BY <1>1, <1>2, <3>3, RestBeside
    <3>4. QED
      BY <1>9, <2>1, <3>1, <3>2, <3>3
  <2>2. CASE e # d
    <3>1. Apart(d)
      BY <1>1, <1>9, <2>2, RestApart
    <3>2. Spoken(d)
      BY <1>1, <1>9, <2>2, OthersSpoken
    <3>3. QED
      BY <1>5, <2>2, <3>1, <3>2
  <2>3. QED
    BY <2>1, <2>2
<1>10. ASSUME NEW b \in stray, handleStrayPush(b), UNCHANGED clientVars PROVE Heard(d)'
  <2>1. b \in Batches
    BY <1>1 DEF TypeOK, RoomTypeOK
  <2>2. Spoken(d)
    BY <1>1, <1>10, <2>1, PostSpoken DEF handleStrayPush
  <2>3. QED
    BY <1>3, <1>10, <2>2
<1>11. ASSUME NEW p \in late, handleLateCheckpoint(p), UNCHANGED clientVars PROVE Heard(d)'
  <2>1. UNCHANGED <<log, up, down, ready>> /\ floor' \in Nat
    BY <1>1, <1>11 DEF handleLateCheckpoint, RoomTypeOK
  <2>2. QED
    BY <1>3, <1>11, <2>1, SilentSpoken
<1>12. ASSUME \E e \in Devices :
                  \/ \E b \in Batches : enqueue_batch(e, b)
                  \/ RoomStep(e) /\ UNCHANGED clientVars
                  \/ SessionStep(e)
                  \/ HttpStep(e)
                  \/ FlushStep(e)
                  \/ CheckpointStep(e)
                  \/ Fault(e)
       PROVE  Heard(d)'
  <2>1. PICK e \in Devices :
            \/ \E b \in Batches : enqueue_batch(e, b)
            \/ RoomStep(e) /\ UNCHANGED clientVars
            \/ SessionStep(e)
            \/ HttpStep(e)
            \/ FlushStep(e)
            \/ CheckpointStep(e)
            \/ Fault(e)
    BY <1>12
  <2>2. CASE \E b \in Batches : enqueue_batch(e, b)
    BY <2>2, <1>6
  <2>3. CASE RoomStep(e) /\ UNCHANGED clientVars
    BY <2>3, <1>4
  <2>4. CASE SessionStep(e) \/ HttpStep(e)
    BY <2>4, <1>7, <1>8
  <2>5. CASE FlushStep(e) \/ CheckpointStep(e) \/ Fault(e)
    BY <2>5, <1>4, <1>9 DEF Fault
  <2>6. QED
    BY <2>1, <2>2, <2>3, <2>4, <2>5
<1>13. CASE \E b \in stray : handleStrayPush(b) /\ UNCHANGED clientVars
  BY <1>10, <1>13
<1>14. CASE \E p \in late : handleLateCheckpoint(p) /\ UNCHANGED clientVars
  BY <1>11, <1>14
<1>15. QED
  BY <1>12, <1>13, <1>14, Zenon DEF Next

\* Every step keeps the invariant ...
LEMMA HeardNext == ChatInv /\ HeardInv /\ [Next]_vars /\ ChatInv' => HeardInv'
<1> SUFFICES ASSUME ChatInv, HeardInv, [Next]_vars, ChatInv' PROVE HeardInv'
  OBVIOUS
<1>1. CASE Next
  <2>1. TypeOK'
    BY DEF ChatInv, RoadsInv, JournalInv
  <2>2. \A d \in Devices \ Crashers : Heard(d)'
    BY <1>1, <2>1, HeardStep DEF ChatInv
  <2>3. QED
    BY <2>2 DEF HeardInv
<1>2. CASE UNCHANGED vars
  <2>1. UNCHANGED <<log, floor, up, down, ready, actor, shared, doc, parked, deps>>
    BY <1>2 DEF vars, roomVars, clientVars, docVars
  <2>2. LiveSeqs' = LiveSeqs
    BY <2>1 DEF LiveSeqs, headSeq
  <2>3. \A d \in Devices : Heard(d) => Heard(d)'
    BY <2>1, <2>2 DEF Heard, HeardAt, Waiting, Held
  <2>4. QED
    BY <2>3 DEF HeardInv
<1>3. QED
  BY <1>1, <1>2

\* ... and nobody is in at first.
LEMMA HeardInit == Init => HeardInv
<1> SUFFICES ASSUME Init, NEW d \in Devices PROVE Heard(d)
  BY DEF HeardInv
<1>1. parked[d] = {} /\ down[d] = <<>> /\ actor[d].phase = "down"
  BY DEF Init, RoomInit, DownActor
<1>2. QED
  BY <1>1, NoFrames DEF Heard, Joined, Waiting

-----------------------------------------------------------------------------
(* A session at rest.                                                      *)

\* With nothing on its way and no repair pending, what was heard of has come.
LEMMA AtRest ==
    ASSUME ChatInv, HeardInv, NEW d \in Devices \ Crashers, Quiet(d)
    PROVE  /\ \A s \in LiveSeqs : log[s] \in Held(d)
           /\ \A s \in LiveSeqs : Author(log[s]) # d => Got(Held(d), 0, s, log)
<1>1. /\ RoadsInv /\ SoundAt(d) /\ Heard(d) /\ up[d] = <<>> /\ down[d] = <<>> /\ d \in Devices
      /\ ~shared[d].gapRepair /\ actor[d].phase = "live"
  BY DEF ChatInv, SoundInv, HeardInv, Quiet
<1>2. \A s \in LiveSeqs : s \in 1 .. Len(log) /\ log[s] \in written
  <2>1. RoomTypeOK /\ floor \in Nat /\ Len(log) \in Nat /\ Range(log) \subseteq written
    BY <1>1, LogTyped DEF Roads, LogWritten
  <2>2. \A s \in LiveSeqs : s \in 1 .. Len(log)
    BY <2>1, LiveNow
  <2>3. QED
    BY <2>1, <2>2 DEF Range
<1>3. ASSUME NEW s \in LiveSeqs, Author(log[s]) # d PROVE Got(Held(d), 0, s, log)
  BY <1>1, <1>3, NoFrames DEF Heard, HeardAt, Joined, Base
<1>4. ASSUME NEW s \in LiveSeqs PROVE log[s] \in Held(d)
  <2>1. CASE Author(log[s]) = d
    <3>1. log[s] \in Owned(d)
      BY <1>2, <2>1 DEF Owned
    <3>2. QED
      BY <1>1, <3>1 DEF SoundAt, Held
  <2>2. CASE Author(log[s]) # d
    <3>1. s \in 1 .. s /\ s > 0
      BY <1>2
    <3>2. QED
      BY <1>3, <2>2, <3>1 DEF Got
  <2>3. QED
    BY <2>1, <2>2
<1>5. QED
  BY <1>3, <1>4

\* A session at rest is complete, when no process dies.
LEMMA RestComplete ==
    ASSUME Crashers = {}, ChatInv, HeardInv
    PROVE  QuietMeansComplete
<1>1. ASSUME NEW d \in Devices, Quiet(d)
      PROVE  /\ {log[s] : s \in LiveSeqs} \subseteq doc[d] \cup parked[d]
             /\ (shared[d].cursor >= floor \/ \E s \in LiveSeqs : Author(log[s]) # d)
                   => Range(log) \subseteq doc[d] \cup parked[d] /\ Grounded \subseteq doc[d]
  <2>1. /\ RoadsInv /\ SoundAt(d) /\ Heard(d) /\ d \in Devices \ Crashers
        /\ actor[d].phase = "live"
    BY <1>1 DEF ChatInv, SoundInv, HeardInv, Quiet
  <2>2. /\ \A s \in LiveSeqs : log[s] \in Held(d)
        /\ \A s \in LiveSeqs : Author(log[s]) # d => Got(Held(d), 0, s, log)
    BY <1>1, <2>1, AtRest
  <2>3. /\ RoomTypeOK /\ floor \in Nat /\ Len(log) \in Nat /\ shared[d].cursor \in Nat
        /\ \A s : s \in LiveSeqs <=> s \in Nat /\ floor < s /\ s <= Len(log)
    BY <2>1, LogTyped, OwnEntries, LiveNow
  <2>4. {log[s] : s \in LiveSeqs} \subseteq doc[d] \cup parked[d]
    BY <2>2 DEF Held
  <2>5. ASSUME shared[d].cursor >= floor \/ \E s \in LiveSeqs : Author(log[s]) # d
        PROVE  Range(log) \subseteq doc[d] \cup parked[d] /\ Grounded \subseteq doc[d]
    <3>1. ASSUME NEW s \in 1 .. Len(log), s <= floor PROVE log[s] \in Held(d)
      <4>1. CASE shared[d].cursor >= floor
        <5>1. Has(doc[d], shared[d].cursor, log) /\ s \in 1 .. shared[d].cursor
          BY <2>1, <2>3, <3>1, <4>1 DEF SoundAt, Debts
        <5>2. QED
          BY <5>1 DEF Has, Held
      <4>2. CASE \E t \in LiveSeqs : Author(log[t]) # d
        <5>1. PICK t \in LiveSeqs : Author(log[t]) # d
          BY <4>2
        <5>2. Got(Held(d), 0, t, log) /\ t \in Nat /\ floor < t
          BY <2>2, <2>3, <5>1
        <5>3. s \in 1 .. t /\ s > 0
          BY <2>3, <3>1, <5>2
        <5>4. QED
          BY <5>2, <5>3 DEF Got
      <4>3. QED
        BY <2>5, <4>1, <4>2
    <3>2. \A s \in 1 .. Len(log) : log[s] \in Held(d)
      <4>1. ASSUME NEW s \in 1 .. Len(log), ~(s <= floor) PROVE log[s] \in Held(d)
        BY <2>2, <2>3, <4>1
      <4>2. QED
        BY <3>1, <4>1
    <3>3. Range(log) \subseteq Held(d)
      BY <2>1, <3>2, LogTyped DEF Range
    <3>4. ASSUME NEW b \in Range(log), deps[b] \subseteq Range(log) PROVE b \in doc[d]
      BY <2>1, <3>3, <3>4 DEF Heard, Waiting, Held
    <3>5. QED
      BY <3>3, <3>4 DEF Held, Grounded
  <2>6. QED
    BY <2>4, <2>5
<1>2. QED
  BY <1>1 DEF QuietMeansComplete

\* A session at rest misses no row the room could still send it, and nothing at all
\* unless a checkpoint overtook its cursor and no row of another device has come
\* since (the gap repair of run_session), when no process dies and every upload
\* begins with an honest cursor: what is not there yet has been asked for, is on
\* its way, or will be asked for, and no refusal, late push, HTTPS catch-up or
\* gap repair that fails makes a session forget it.
THEOREM QuietSafe ==
    ASSUME Crashers = {}
    PROVE  Spec /\ [][UploadsHonest]_vars => []QuietMeansComplete
<1>1. ChatInv /\ HeardInv /\ [Next]_vars /\ [UploadsHonest]_vars => ChatInv' /\ HeardInv'
  BY ChatStep, HeardNext
<1>2. Init => ChatInv /\ HeardInv
  BY ChatStart, HeardInit
<1>3. ChatInv /\ HeardInv => QuietMeansComplete
  BY RestComplete
<1>4. QED
  BY <1>1, <1>2, <1>3, PTL DEF Spec

=============================================================================
