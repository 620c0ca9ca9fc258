--------------------------- MODULE ChatRoomProofs ---------------------------
(***************************************************************************)
(* The room of chat2 keeps every batch it has numbered, in every instance, *)
(* as long as every checkpoint upload begins with an honest cursor.        *)
(*                                                                         *)
(* chat-log.ts deletes rows on the word of a client: the checkpoint it     *)
(* takes must have every batch up to the number it claims to cover.        *)
(* RoadsInv therefore follows a claim on all its roads: a row, an          *)
(* acknowledgement and a catch-up frame agree with the log they were read  *)
(* from, whether they wait on a socket or in the HTTPS task; documents are *)
(* causally closed and hold what was written; a snapshot under upload,     *)
(* even one that outlives its client, has what its number promises. An     *)
(* upload that samples a cursor its document does not honour is what       *)
(* UploadsHonest excludes.                                                 *)
(***************************************************************************)
EXTENDS ChatSyncProofs

\* The updates device d has made.
Owned(d) == {b \in written : Author(b) = d}

\* What device d holds, applied or waiting for its dependencies.
Held(d) == doc[d] \cup parked[d]

\* S has every batch numbered up to n, and n is a number the log has reached.
Has(S, n, lg) == n <= Len(lg) /\ \A s \in 1 .. n : lg[s] \in S

\* A row, or an acknowledgement, names the batch the log has under its number.
RowIn(r, lg) == r.seq \in 1 .. Len(lg) /\ lg[r.seq] = r.batch

\* A frame of the room tells device d, who made the batches W, the truth.
FrameIn(f, lg, n, W) ==
    /\ f.t = "state" => f.seq <= n
    /\ f.t = "rows" => \A r \in f.rows : RowIn(r, lg)
    /\ f.t = "ack" => RowIn(f, lg) /\ f.batch \in W

SharedIn(sh, lg, W) == sh.cursor <= Len(lg) /\ sh.pending \subseteq W

HttpIn(h, lg, n, W) ==
    /\ h.cur <= Len(lg)
    /\ h.st.seq <= n
    /\ \A r \in h.rows : RowIn(r, lg)
    /\ h.todo \subseteq W
    /\ h.step = "ack" => h.todo # {} /\ RowIn([seq |-> h.ack, batch |-> First(h.todo)], lg)

\* An upload under way covers what its cursor promises.
PostIn(p, lg, D, W) ==
    /\ p.content \subseteq W
    /\ p.step = "sampled" => Has(D, p.covered, lg)
    /\ p.step = "sent" => Has(p.content, p.covered, lg)

LogWritten == Range(log) \subseteq written /\ stray \subseteq written

CheckpointsWhole ==
    /\ ckpt.content \subseteq written /\ Has(ckpt.content, floor, log)
    /\ \A p \in late : p.content \subseteq written /\ Has(p.content, p.covered, log)

UpTrue(ch, W) == \A i \in 1 .. Len(ch) : ch[i].t = "push" => ch[i].batches \subseteq W

ChTrue(ch, lg, n, W) == \A i \in 1 .. Len(ch) : FrameIn(ch[i], lg, n, W)

UpWritten == \A d \in Devices : UpTrue(up[d], Owned(d))

DownTrue == \A d \in Devices : ChTrue(down[d], log, floor, Owned(d))

DocsClosed ==
    /\ \A b \in Batches : deps[b] \subseteq written /\ \A c \in deps[b] : deps[c] \subseteq deps[b]
    /\ \A d \in Devices : \A b \in doc[d] : deps[b] \subseteq doc[d]
    /\ \A d \in Devices : doc[d] \cup parked[d] \subseteq written

SharedTrue == \A d \in Devices : SharedIn(shared[d], log, Owned(d))

TargetsTrue == \A d \in Devices : actor[d].target <= floor

HttpTrue == \A d \in Devices : HttpIn(http[d], log, floor, Owned(d))

PostTrue == \A d \in Devices : PostIn(post[d], log, doc[d], written)

DisksTrue == \A d \in Devices :
    /\ pcursor[d] <= Len(log) /\ flush[d] <= Len(log) /\ disk[d].cursor <= Len(log)
    /\ disk[d].content \subseteq Held(d)
    /\ outbox[d] \subseteq Held(d) \cap Owned(d)

Roads ==
    /\ LogWritten
    /\ CheckpointsWhole
    /\ UpWritten
    /\ DownTrue
    /\ DocsClosed
    /\ SharedTrue
    /\ TargetsTrue
    /\ HttpTrue
    /\ PostTrue
    /\ DisksTrue

RoadsInv == JournalInv /\ Roads

\* A checkpoint upload begins only when the cursor it samples is honest
\* (spawn_chat2_checkpoint does not look; the run checkpoint_before_fetch shows
\* that an upload between the dial and the fetch of the checkpoint is not).
UploadsHonest == \A d \in Devices : CheckpointBegin(d) => Covered(shared[d].cursor) \subseteq doc[d]

-----------------------------------------------------------------------------
(* Logs that grow, and what stays true of rows, frames and clients.        *)

Extends(lg, mg) == Len(lg) <= Len(mg) /\ \A s \in 1 .. Len(lg) : mg[s] = lg[s]

\* A set that has a prefix of the log still has it when both have grown.
LEMMA HasMono ==
    ASSUME NEW lg \in Seq(Batches), NEW mg \in Seq(Batches), Extends(lg, mg),
           NEW n \in Nat, NEW S, NEW T, S \subseteq T, Has(S, n, lg)
    PROVE  Has(T, n, mg)
<1>1. Len(lg) \in Nat /\ Len(mg) \in Nat
  OBVIOUS
<1>2. \A s \in 1 .. n : s \in 1 .. Len(lg)
  BY <1>1 DEF Has
<1>3. QED
  BY <1>1, <1>2 DEF Has, Extends

\* A shorter prefix is covered as well.
LEMMA HasLess ==
    ASSUME NEW lg \in Seq(Batches), NEW n \in Nat, NEW m \in Nat, m <= n,
           NEW S, Has(S, n, lg)
    PROVE  Has(S, m, lg)
<1>1. Len(lg) \in Nat
  OBVIOUS
<1>2. QED
  BY <1>1 DEF Has

\* A row of the log stays one.
LEMMA RowMono ==
    ASSUME NEW lg \in Seq(Batches), NEW mg \in Seq(Batches), Extends(lg, mg),
           NEW r, RowIn(r, lg)
    PROVE  RowIn(r, mg)
<1>1. Len(lg) \in Nat /\ Len(mg) \in Nat
  OBVIOUS
<1>2. QED
  BY <1>1 DEF RowIn, Extends

\* A true frame stays true.
LEMMA FrameMono ==
    ASSUME NEW lg \in Seq(Batches), NEW mg \in Seq(Batches), Extends(lg, mg),
           NEW n \in Nat, NEW m \in Nat, n <= m, NEW W, NEW V, W \subseteq V,
           NEW f \in DownFrames, FrameIn(f, lg, n, W)
    PROVE  FrameIn(f, mg, m, V)
<1>1. ASSUME f.t = "state" PROVE f.seq <= m
  <2>1. f.seq \in Nat /\ f.seq <= n
    BY <1>1, StateHead DEF FrameIn, State
  <2>2. QED
    BY <2>1
<1>2. QED
  BY <1>1, RowMono DEF FrameIn

\* A channel of true frames stays one.
LEMMA ChMono ==
    ASSUME NEW lg \in Seq(Batches), NEW mg \in Seq(Batches), Extends(lg, mg),
           NEW n \in Nat, NEW m \in Nat, n <= m, NEW W, NEW V, W \subseteq V,
           NEW ch \in Seq(DownFrames), ChTrue(ch, lg, n, W)
    PROVE  ChTrue(ch, mg, m, V)
<1>1. \A i \in 1 .. Len(ch) : ch[i] \in DownFrames
  OBVIOUS
<1>2. QED
  BY <1>1, FrameMono DEF ChTrue

\* What was true of a client stays true.
LEMMA ClientMono ==
    ASSUME NEW lg \in Seq(Batches), NEW mg \in Seq(Batches), Extends(lg, mg),
           NEW n \in Nat, NEW m \in Nat, n <= m, NEW W, NEW V, W \subseteq V
    PROVE  /\ \A sh \in Shared : SharedIn(sh, lg, W) => SharedIn(sh, mg, V)
           /\ \A h \in Http : HttpIn(h, lg, n, W) => HttpIn(h, mg, m, V)
<1>1. Len(lg) \in Nat /\ Len(mg) \in Nat /\ Len(lg) <= Len(mg)
  BY DEF Extends
<1>2. ASSUME NEW sh \in Shared, SharedIn(sh, lg, W) PROVE SharedIn(sh, mg, V)
  <2>1. sh.cursor \in Nat
    BY DEF Shared
  <2>2. QED
    BY <1>1, <1>2, <2>1 DEF SharedIn
<1>3. ASSUME NEW h \in Http, HttpIn(h, lg, n, W) PROVE HttpIn(h, mg, m, V)
  <2>1. h.cur \in Nat /\ h.st.seq \in Nat
    BY DEF Http, State
  <2>2. h.cur <= Len(mg) /\ h.st.seq <= m
    BY <1>1, <1>3, <2>1 DEF HttpIn
  <2>3. \A r \in h.rows : RowIn(r, mg)
    BY <1>3, RowMono DEF HttpIn
  <2>4. h.step = "ack" => RowIn([seq |-> h.ack, batch |-> First(h.todo)], mg)
    BY <1>3, RowMono DEF HttpIn
  <2>5. QED
    BY <1>3, <2>2, <2>3, <2>4 DEF HttpIn
<1>4. QED
  BY <1>2, <1>3

\* An upload stays covered while the log and the document grow.
LEMMA PostMono ==
    ASSUME NEW lg \in Seq(Batches), NEW mg \in Seq(Batches), Extends(lg, mg),
           NEW D, NEW E, D \subseteq E, NEW W, NEW V, W \subseteq V,
           NEW p \in Post, PostIn(p, lg, D, W)
    PROVE  PostIn(p, mg, E, V)
<1>1. p.covered \in Nat
  BY DEF Post
<1>2. QED
  BY <1>1, HasMono DEF PostIn

-----------------------------------------------------------------------------
(* Channels.                                                               *)

\* Sending a true frame.
LEMMA SendTrue ==
    ASSUME NEW ch \in Seq(DownFrames), NEW f \in DownFrames, NEW lg, NEW n, NEW W,
           ChTrue(ch, lg, n, W), FrameIn(f, lg, n, W)
    PROVE  ChTrue(Append(ch, f), lg, n, W)
<1>1. Len(Append(ch, f)) = Len(ch) + 1 /\ Len(ch) \in Nat
  OBVIOUS
<1>2. ASSUME NEW i \in 1 .. Len(Append(ch, f)) PROVE FrameIn(Append(ch, f)[i], lg, n, W)
  <2>1. CASE i = Len(ch) + 1
    BY <2>1
  <2>2. CASE i # Len(ch) + 1
    <3>1. i \in 1 .. Len(ch) /\ Append(ch, f)[i] = ch[i]
      BY <1>1, <1>2, <2>2
    <3>2. QED
      BY <3>1 DEF ChTrue
  <2>3. QED
    BY <2>1, <2>2
<1>3. QED
  BY <1>2 DEF ChTrue

\* Reading a frame.
LEMMA TailTrue ==
    ASSUME NEW ch \in Seq(DownFrames), ch # <<>>, NEW lg, NEW n, NEW W,
           ChTrue(ch, lg, n, W)
    PROVE  ChTrue(Tail(ch), lg, n, W) /\ FrameIn(Head(ch), lg, n, W)
<1>1. \A i \in 1 .. Len(Tail(ch)) : i + 1 \in 1 .. Len(ch) /\ Tail(ch)[i] = ch[i + 1]
  OBVIOUS
<1>2. 1 \in 1 .. Len(ch) /\ Head(ch) = ch[1]
  OBVIOUS
<1>3. QED
  BY <1>1, <1>2 DEF ChTrue

\* Putting a frame in front.
LEMMA ConsTrue ==
    ASSUME NEW ch \in Seq(DownFrames), NEW f \in DownFrames, NEW lg, NEW n, NEW W,
           ChTrue(ch, lg, n, W), FrameIn(f, lg, n, W)
    PROVE  ChTrue(<<f>> \o ch, lg, n, W)
<1>1. Len(<<f>> \o ch) = Len(ch) + 1 /\ Len(ch) \in Nat
  OBVIOUS
<1>2. ASSUME NEW i \in 1 .. Len(<<f>> \o ch) PROVE FrameIn((<<f>> \o ch)[i], lg, n, W)
  <2>1. CASE i = 1
    BY <2>1
  <2>2. CASE i # 1
    <3>1. i - 1 \in 1 .. Len(ch) /\ (<<f>> \o ch)[i] = ch[i - 1]
      BY <1>1, <1>2, <2>2
    <3>2. QED
      BY <3>1 DEF ChTrue
  <2>3. QED
    BY <2>1, <2>2
<1>3. QED
  BY <1>2 DEF ChTrue

\* Reading one row of a run.
LEMMA AfterRowTrue ==
    ASSUME NEW ch \in Seq(DownFrames), ch # <<>>, Head(ch).t = "rows",
           NEW lg, NEW n, NEW W, ChTrue(ch, lg, n, W)
    PROVE  /\ ChTrue(AfterRow(ch), lg, n, W)
           /\ FirstRow(Head(ch).rows) \in Row
           /\ RowIn(FirstRow(Head(ch).rows), lg)
<1> DEFINE R == Head(ch).rows
           r == FirstRow(R)
<1>1. Head(ch) \in DownFrames /\ Tail(ch) \in Seq(DownFrames)
  OBVIOUS
<1>2. R \in SUBSET Row /\ R # {}
  BY <1>1, RowsHead
<1>3. r \in R
  BY <1>2, FirstRowIn
<1>4. ChTrue(Tail(ch), lg, n, W) /\ \A q \in R : RowIn(q, lg)
  BY TailTrue DEF FrameIn
<1>5. CASE R = {r}
  BY <1>2, <1>3, <1>4, <1>5 DEF AfterRow
<1>6. CASE R # {r}
  <2> DEFINE f == RowsFrame(R \ {r})
  <2>1. R \ {r} \in SUBSET Row /\ R \ {r} # {}
    BY <1>2, <1>3, <1>6
  <2>2. f \in DownFrames /\ f.t = "rows" /\ f.rows = R \ {r}
    BY <2>1, DownFrameTypes DEF RowsFrame
  <2>3. AfterRow(ch) = <<f>> \o Tail(ch)
    BY <1>6 DEF AfterRow
  <2> HIDE DEF f
  <2>4. FrameIn(f, lg, n, W)
    BY <1>4, <2>2 DEF FrameIn
  <2>5. ChTrue(<<f>> \o Tail(ch), lg, n, W)
    BY <1>1, <1>4, <2>2, <2>4, ConsTrue
  <2>6. QED
    BY <1>2, <1>3, <1>4, <2>3, <2>5
<1>7. QED
  BY <1>5, <1>6

\* Sending a push of the sender's own updates, or anything else.
LEMMA UpSend ==
    ASSUME NEW ch \in Seq(UpFrames), NEW f \in UpFrames, NEW W, UpTrue(ch, W),
           f.t = "push" => f.batches \subseteq W
    PROVE  UpTrue(Append(ch, f), W)
<1>1. Len(Append(ch, f)) = Len(ch) + 1 /\ Len(ch) \in Nat
  OBVIOUS
<1>2. \A i \in 1 .. Len(ch) : Append(ch, f)[i] = ch[i]
  OBVIOUS
<1>3. Append(ch, f)[Len(ch) + 1] = f
  OBVIOUS
<1>4. \A i \in 1 .. Len(Append(ch, f)) : i \in 1 .. Len(ch) \/ i = Len(ch) + 1
  BY <1>1
<1>5. QED
  BY <1>2, <1>3, <1>4 DEF UpTrue

\* The room reads a frame, or one batch of a push.
LEMMA UpRead ==
    ASSUME NEW ch \in Seq(UpFrames), ch # <<>>, NEW W, UpTrue(ch, W)
    PROVE  /\ UpTrue(Tail(ch), W)
           /\ Head(ch).t = "push" => /\ Head(ch).batches \subseteq W
                                     /\ \A S \in SUBSET Head(ch).batches :
                                           UpTrue(<<PushFrame(S)>> \o Tail(ch), W)
<1>1. \A i \in 1 .. Len(Tail(ch)) : i + 1 \in 1 .. Len(ch) /\ Tail(ch)[i] = ch[i + 1]
  OBVIOUS
<1>2. 1 \in 1 .. Len(ch) /\ Head(ch) = ch[1]
  OBVIOUS
<1>3. UpTrue(Tail(ch), W)
  BY <1>1 DEF UpTrue
<1>4. ASSUME Head(ch).t = "push", NEW S \in SUBSET Head(ch).batches
      PROVE  UpTrue(<<PushFrame(S)>> \o Tail(ch), W)
  <2> DEFINE f == PushFrame(S)
             t == Tail(ch)
  <2>1. Head(ch).batches \subseteq W
    BY <1>2, <1>4 DEF UpTrue
  <2>2. f.batches \subseteq W
    BY <2>1 DEF PushFrame
  <2>3. t \in Seq(UpFrames)
    OBVIOUS
  <2> HIDE DEF f, t
  <2>4. ASSUME NEW i \in 1 .. Len(<<f>> \o t) PROVE (<<f>> \o t)[i].batches \subseteq W \/ (<<f>> \o t)[i].t # "push"
    <3>1. CASE i = 1
      BY <2>2, <3>1, <2>3
    <3>2. CASE i # 1
      <4>1. i - 1 \in 1 .. Len(t) /\ (<<f>> \o t)[i] = t[i - 1]
        BY <2>3, <2>4, <3>2
      <4>2. QED
        BY <1>3, <4>1 DEF UpTrue, t
    <3>3. QED
      BY <3>1, <3>2
  <2>5. UpTrue(<<f>> \o t, W)
    BY <2>4 DEF UpTrue
  <2>6. QED
    BY <2>5 DEF f, t
<1>5. QED
  BY <1>2, <1>3, <1>4 DEF UpTrue

-----------------------------------------------------------------------------
(* What a step leaves alone, and what it does to one device.               *)

Grows == Extends(log, log') /\ floor <= floor' /\ written \subseteq written'

\* A log that a step leaves alone, or appends to, extends itself.
LEMMA GrowsKept ==
    ASSUME TypeOK, UNCHANGED <<log, floor, written>>
    PROVE  Grows
BY DEF Grows, Extends, TypeOK, RoomTypeOK

\* What the types of two consecutive states give the lemmas on growth.
LEMMA GrowTypes ==
    ASSUME TypeOK, TypeOK', Grows
    PROVE  /\ log \in Seq(Batches) /\ log' \in Seq(Batches) /\ Extends(log, log')
           /\ floor \in Nat /\ floor' \in Nat /\ floor <= floor'
           /\ \A d \in Devices : Owned(d) \subseteq Owned(d)'
BY DEF TypeOK, RoomTypeOK, Grows, Owned

\* Parts a step leaves alone stay true while the log and the documents grow.
LEMMA Kept ==
    ASSUME RoadsInv, TypeOK', Grows
    PROVE  /\ UNCHANGED <<log, stray>> => LogWritten'
           /\ UNCHANGED <<floor, ckpt, late>> => CheckpointsWhole'
           /\ UNCHANGED up => UpWritten'
           /\ UNCHANGED down => DownTrue'
           /\ UNCHANGED docVars => DocsClosed'
           /\ UNCHANGED shared => SharedTrue'
           /\ UNCHANGED actor => TargetsTrue'
           /\ UNCHANGED http => HttpTrue'
           /\ UNCHANGED <<doc, post>> => PostTrue'
           /\ UNCHANGED <<doc, parked, diskVars>> => DisksTrue'
<1>1. TypeOK /\ Roads
  BY DEF RoadsInv, JournalInv
<1>2. /\ log \in Seq(Batches) /\ log' \in Seq(Batches) /\ Extends(log, log')
      /\ floor \in Nat /\ floor' \in Nat /\ floor <= floor'
      /\ \A d \in Devices : Owned(d) \subseteq Owned(d)'
  BY <1>1, GrowTypes
<1>3. written \subseteq written'
  BY DEF Grows
<1>4. UNCHANGED <<log, stray>> => LogWritten'
  BY <1>1, <1>3 DEF Roads, LogWritten
<1>5. UNCHANGED <<floor, ckpt, late>> => CheckpointsWhole'
  <2>1. late \subseteq [covered : Nat, content : SUBSET Batches]
    BY <1>1 DEF TypeOK, RoomTypeOK
  <2>2. \A p \in late : p.covered \in Nat
    BY <2>1
  <2>3. Has(ckpt.content, floor, log')
    BY <1>1, <1>2, HasMono DEF Roads, CheckpointsWhole
  <2>4. \A p \in late : Has(p.content, p.covered, log')
    BY <1>1, <1>2, <2>2, HasMono DEF Roads, CheckpointsWhole
  <2>5. QED
    BY <1>1, <1>3, <2>3, <2>4 DEF Roads, CheckpointsWhole
<1>6. UNCHANGED up => UpWritten'
  BY <1>1, <1>2 DEF Roads, UpWritten, UpTrue
<1>7. UNCHANGED down => DownTrue'
  <2>1. \A d \in Devices : down[d] \in Seq(DownFrames)
    BY <1>1 DEF TypeOK, RoomTypeOK
  <2>2. \A d \in Devices : ChTrue(down[d], log', floor', Owned(d)')
    BY <1>1, <1>2, <2>1, ChMono DEF Roads, DownTrue
  <2>3. QED
    BY <2>2 DEF DownTrue
<1>8. UNCHANGED docVars => DocsClosed'
  BY <1>1 DEF Roads, DocsClosed, docVars
<1>9. UNCHANGED shared => SharedTrue'
  <2>1. \A d \in Devices : shared[d] \in Shared
    BY <1>1 DEF TypeOK, ClientTypeOK
  <2>2. \A d \in Devices : SharedIn(shared[d], log', Owned(d)')
    BY <1>1, <1>2, <2>1, ClientMono DEF Roads, SharedTrue
  <2>3. QED
    BY <2>2 DEF SharedTrue
<1>10. UNCHANGED actor => TargetsTrue'
  <2>1. \A d \in Devices : actor[d].target \in Nat
    BY <1>1 DEF TypeOK, ClientTypeOK, Actor
  <2>2. QED
    BY <1>1, <1>2, <2>1 DEF Roads, TargetsTrue
<1>11. UNCHANGED http => HttpTrue'
  <2>1. \A d \in Devices : http[d] \in Http
    BY <1>1 DEF TypeOK, ClientTypeOK
  <2>2. \A d \in Devices : HttpIn(http[d], log', floor', Owned(d)')
    BY <1>1, <1>2, <2>1, ClientMono DEF Roads, HttpTrue
  <2>3. QED
    BY <2>2 DEF HttpTrue
<1>12. UNCHANGED <<doc, post>> => PostTrue'
  <2>1. \A d \in Devices : post[d] \in Post
    BY <1>1 DEF TypeOK, ClientTypeOK
  <2>2. \A d \in Devices : PostIn(post[d], log', doc[d], written')
    BY <1>1, <1>2, <1>3, <2>1, PostMono DEF Roads, PostTrue
  <2>3. QED
    BY <2>2 DEF PostTrue
<1>13. UNCHANGED <<doc, parked, diskVars>> => DisksTrue'
  <2>1. Len(log) \in Nat /\ Len(log') \in Nat /\ Len(log) <= Len(log')
    BY <1>2 DEF Extends
  <2>2. \A d \in Devices : /\ pcursor[d] \in Nat /\ flush[d] \in Nat \cup {-1}
                           /\ disk[d].cursor \in Nat
    BY <1>1 DEF TypeOK, ClientTypeOK
  <2>3. \A d \in Devices : /\ pcursor[d] <= Len(log') /\ flush[d] <= Len(log')
                           /\ disk[d].cursor <= Len(log')
    BY <1>1, <2>1, <2>2 DEF Roads, DisksTrue
  <2>4. \A d \in Devices : /\ disk[d].content \subseteq Held(d)
                           /\ outbox[d] \subseteq Held(d) \cap Owned(d)
    BY <1>1 DEF Roads, DisksTrue
  <2>5. ASSUME UNCHANGED <<doc, parked, diskVars>> PROVE DisksTrue'
    BY <1>2, <2>3, <2>4, <2>5 DEF DisksTrue, Held, diskVars
  <2>6. QED
    BY <2>5
<1>14. QED
  BY <1>4, <1>5, <1>6, <1>7, <1>8, <1>9, <1>10, <1>11, <1>12, <1>13

\* Setting one device's entry.
LEMMA SetShared ==
    ASSUME RoadsInv, TypeOK', Grows, NEW d \in Devices, NEW sh \in Shared,
           SharedIn(sh, log, Owned(d)), shared' = [shared EXCEPT ![d] = sh]
    PROVE  SharedTrue'
<1>1. TypeOK /\ Roads
  BY DEF RoadsInv, JournalInv
<1>2. /\ log \in Seq(Batches) /\ log' \in Seq(Batches) /\ Extends(log, log')
      /\ floor \in Nat /\ floor' \in Nat /\ floor <= floor'
      /\ \A e \in Devices : Owned(e) \subseteq Owned(e)'
  BY <1>1, GrowTypes
<1>3. shared \in [Devices -> Shared]
  BY <1>1 DEF TypeOK, ClientTypeOK
<1>4. \A e \in Devices : shared'[e] \in Shared /\ SharedIn(shared'[e], log, Owned(e))
  BY <1>1, <1>3 DEF Roads, SharedTrue
<1>5. \A e \in Devices : SharedIn(shared'[e], log', Owned(e)')
  BY <1>2, <1>4, ClientMono
<1>6. QED
  BY <1>5 DEF SharedTrue

\* The same for a value that is true of the log after the step.
LEMMA SetHttp ==
    ASSUME RoadsInv, TypeOK', Grows, NEW d \in Devices, NEW h,
           HttpIn(h, log', floor', Owned(d)), http' = [http EXCEPT ![d] = h]
    PROVE  HttpTrue'
<1>1. TypeOK /\ Roads
  BY DEF RoadsInv, JournalInv
<1>2. /\ log \in Seq(Batches) /\ log' \in Seq(Batches) /\ Extends(log, log')
      /\ floor \in Nat /\ floor' \in Nat /\ floor <= floor'
      /\ \A e \in Devices : Owned(e) \subseteq Owned(e)'
  BY <1>1, GrowTypes
<1>3. http \in [Devices -> Http]
  BY <1>1 DEF TypeOK, ClientTypeOK
<1>4. \A e \in Devices : HttpIn(http[e], log, floor, Owned(e))
  BY <1>1 DEF Roads, HttpTrue
<1>5. \A e \in Devices : HttpIn(http[e], log', floor', Owned(e)')
  BY <1>2, <1>3, <1>4, ClientMono
<1>6. HttpIn(h, log', floor', Owned(d)')
  BY <1>2 DEF HttpIn
<1>7. \A e \in Devices : HttpIn(http'[e], log', floor', Owned(e)')
  BY <1>3, <1>5, <1>6
<1>8. QED
  BY <1>7 DEF HttpTrue

\* A value that was true of the log before the step.
LEMMA SetHttpOld ==
    ASSUME RoadsInv, TypeOK', Grows, NEW d \in Devices, NEW h \in Http,
           HttpIn(h, log, floor, Owned(d)), http' = [http EXCEPT ![d] = h]
    PROVE  HttpTrue'
<1>1. TypeOK
  BY DEF RoadsInv, JournalInv
<1>2. HttpIn(h, log', floor', Owned(d))
  BY <1>1, GrowTypes, ClientMono
<1>3. QED
  BY <1>2, SetHttp

\* Dialling, or moving on, to a target the room's floor has reached.
LEMMA SetActor ==
    ASSUME RoadsInv, TypeOK', Grows, NEW d \in Devices, NEW a \in Actor,
           a.target <= floor, actor' = [actor EXCEPT ![d] = a]
    PROVE  TargetsTrue'
<1>1. TypeOK /\ Roads
  BY DEF RoadsInv, JournalInv
<1>2. floor \in Nat /\ floor' \in Nat /\ floor <= floor'
  BY <1>1, GrowTypes
<1>3. actor \in [Devices -> Actor]
  BY <1>1 DEF TypeOK, ClientTypeOK
<1>4. \A e \in Devices : actor'[e].target \in Nat /\ actor'[e].target <= floor
  BY <1>1, <1>3 DEF Roads, TargetsTrue, Actor
<1>5. QED
  BY <1>2, <1>4 DEF TargetsTrue

\* Setting one channel.
LEMMA SetUp ==
    ASSUME RoadsInv, TypeOK', Grows, NEW d \in Devices, NEW ch,
           UpTrue(ch, Owned(d)), up' = [up EXCEPT ![d] = ch]
    PROVE  UpWritten'
<1>1. TypeOK /\ Roads
  BY DEF RoadsInv, JournalInv
<1>2. \A e \in Devices : Owned(e) \subseteq Owned(e)'
  BY <1>1, GrowTypes
<1>3. up \in [Devices -> Seq(UpFrames)]
  BY <1>1 DEF TypeOK, RoomTypeOK
<1>4. \A e \in Devices : UpTrue(up'[e], Owned(e))
  BY <1>1, <1>3 DEF Roads, UpWritten
<1>5. \A e \in Devices : UpTrue(up'[e], Owned(e)')
  BY <1>2, <1>4 DEF UpTrue
<1>6. QED
  BY <1>5 DEF UpWritten

\* New frames of the room to one device.
LEMMA SetDown ==
    ASSUME RoadsInv, TypeOK', Grows, NEW d \in Devices, NEW ch \in Seq(DownFrames),
           ChTrue(ch, log, floor, Owned(d)), down' = [down EXCEPT ![d] = ch]
    PROVE  DownTrue'
<1>1. TypeOK /\ Roads
  BY DEF RoadsInv, JournalInv
<1>2. /\ log \in Seq(Batches) /\ log' \in Seq(Batches) /\ Extends(log, log')
      /\ floor \in Nat /\ floor' \in Nat /\ floor <= floor'
      /\ \A e \in Devices : Owned(e) \subseteq Owned(e)'
  BY <1>1, GrowTypes
<1>3. down \in [Devices -> Seq(DownFrames)]
  BY <1>1 DEF TypeOK, RoomTypeOK
<1>4. \A e \in Devices : /\ down'[e] \in Seq(DownFrames)
                         /\ ChTrue(down'[e], log, floor, Owned(e))
  BY <1>1, <1>3 DEF Roads, DownTrue
<1>5. \A e \in Devices : ChTrue(down'[e], log', floor', Owned(e)')
  BY <1>2, <1>4, ChMono
<1>6. QED
  BY <1>5 DEF DownTrue

\* Setting one upload while the documents stay.
LEMMA SetPost ==
    ASSUME RoadsInv, TypeOK', Grows, NEW d \in Devices, NEW p \in Post,
           PostIn(p, log, doc[d], written), post' = [post EXCEPT ![d] = p], UNCHANGED doc
    PROVE  PostTrue'
<1>1. TypeOK /\ Roads
  BY DEF RoadsInv, JournalInv
<1>2. log \in Seq(Batches) /\ log' \in Seq(Batches) /\ Extends(log, log')
  BY <1>1, GrowTypes
<1>3. written \subseteq written'
  BY DEF Grows
<1>4. post \in [Devices -> Post]
  BY <1>1 DEF TypeOK, ClientTypeOK
<1>5. \A e \in Devices : post'[e] \in Post /\ PostIn(post'[e], log, doc[e], written)
  BY <1>1, <1>4 DEF Roads, PostTrue
<1>6. \A e \in Devices : PostIn(post'[e], log', doc[e], written')
  BY <1>2, <1>3, <1>5, PostMono
<1>7. QED
  BY <1>6 DEF PostTrue

-----------------------------------------------------------------------------
(* The room.                                                               *)

\* When only the room moves, the clients' parts stay true.
LEMMA ClientKept ==
    ASSUME RoadsInv, TypeOK', Grows, UNCHANGED clientVars
    PROVE  DocsClosed' /\ SharedTrue' /\ TargetsTrue' /\ HttpTrue' /\ PostTrue' /\ DisksTrue'
<1>1. UNCHANGED docVars /\ UNCHANGED shared /\ UNCHANGED actor /\ UNCHANGED http
      /\ UNCHANGED <<doc, post>> /\ UNCHANGED <<doc, parked, diskVars>>
  BY DEF clientVars, docVars
<1>2. QED
  BY <1>1, Kept

\* Appending keeps every row and numbers the batch it acknowledges.
LEMMA AppendTrue ==
    ASSUME RoomTypeOK, NEW b \in Batches, appendRow(b)
    PROVE  /\ Extends(log, log') /\ Range(log') \subseteq Range(log) \cup {b}
           /\ RowIn([seq |-> AckSeq(b), batch |-> b], log')
           /\ Matches(b) = {} => RowIn([seq |-> headSeq + 1, batch |-> b], log')
<1>1. log \in Seq(Batches) /\ Len(log) \in Nat /\ floor \in Nat
  BY DEF RoomTypeOK
<1>2. CASE Matches(b) = {}
  <2>1. log' = Append(log, b)
    BY <1>2 DEF appendRow
  <2>2. Len(log') = Len(log) + 1 /\ log'[Len(log) + 1] = b
    BY <1>1, <2>1
  <2>3. \A s \in 1 .. Len(log) : log'[s] = log[s]
    BY <1>1, <2>1
  <2>4. Range(log') \subseteq Range(log) \cup {b}
    <3>1. DOMAIN log' = 1 .. Len(log) + 1 /\ DOMAIN log = 1 .. Len(log)
      BY <1>1, <2>1
    <3>2. \A s \in DOMAIN log' : s \in DOMAIN log \/ s = Len(log) + 1
      BY <1>1, <3>1
    <3>3. QED
      BY <2>2, <2>3, <3>1, <3>2 DEF Range
  <2>5. RowIn([seq |-> headSeq + 1, batch |-> b], log')
    BY <1>1, <2>2 DEF RowIn, headSeq
  <2>6. AckSeq(b) = headSeq + 1
    BY <1>2 DEF AckSeq
  <2>7. QED
    BY <1>1, <2>2, <2>3, <2>4, <2>5, <2>6 DEF Extends
<1>3. CASE Matches(b) # {}
  <2>1. log' = log
    BY <1>3 DEF appendRow
  <2>2. AckSeq(b) \in Matches(b)
    BY <1>3 DEF AckSeq
  <2>3. AckSeq(b) \in 1 .. Len(log) /\ log[AckSeq(b)] = b
    BY <1>1, <2>2 DEF Matches, LiveSeqs, headSeq
  <2>4. QED
    BY <1>1, <1>3, <2>1, <2>3 DEF RowIn, Extends
<1>4. QED
  BY <1>2, <1>3

\* The relay tells the truth about the log it has just written.
LEMMA RelayTrue ==
    ASSUME RoadsInv, NEW b \in Batches, appendRow(b), TypeOK', Grows, UNCHANGED floor,
           NEW sender, NEW e \in Devices
    PROVE  /\ Relay(b, sender)[e] \in Seq(DownFrames)
           /\ ChTrue(Relay(b, sender)[e], log', floor', Owned(e)')
<1> DEFINE r == [seq |-> headSeq + 1, batch |-> b]
           f == RowsFrame({r})
<1>1. TypeOK /\ RoomTypeOK /\ Roads
  BY DEF RoadsInv, JournalInv, TypeOK
<1>2. r \in Row
  BY <1>1 DEF RoomTypeOK, headSeq, Row
<1>3. f \in DownFrames /\ f.t = "rows" /\ f.rows = {r}
  BY <1>2, DownFrameTypes DEF RowsFrame
<1>4. Relay(b, sender)[e] = down[e] \/ (Relay(b, sender)[e] = Append(down[e], f) /\ Matches(b) = {})
  BY DEF Relay
<1>5. down[e] \in Seq(DownFrames)
  BY <1>1 DEF RoomTypeOK
<1>6. ChTrue(down[e], log', floor', Owned(e)')
  BY <1>1, <1>5, GrowTypes, ChMono DEF Roads, DownTrue
<1>7. Matches(b) = {} => RowIn(r, log')
  BY <1>1, AppendTrue
<1> HIDE DEF f, r
<1>8. Matches(b) = {} => FrameIn(f, log', floor', Owned(e)')
  BY <1>3, <1>7 DEF FrameIn
<1>9. QED
  BY <1>3, <1>4, <1>5, <1>6, <1>8, SendTrue, Sending

\* A row posted over HTTPS.
LEMMA PostRowTrue ==
    ASSUME RoadsInv, TypeOK', NEW b \in written, postRow(b), UNCHANGED written
    PROVE  /\ Grows /\ Range(log') \subseteq written
           /\ CheckpointsWhole' /\ UpWritten' /\ DownTrue'
           /\ RowIn([seq |-> AckSeq(b), batch |-> b], log') /\ UNCHANGED floor
<1>1. TypeOK /\ RoomTypeOK /\ Roads
  BY DEF RoadsInv, JournalInv, TypeOK
<1>2. b \in Batches
  BY <1>1 DEF TypeOK, ClientTypeOK
<1>3. appendRow(b) /\ down' = Relay(b, {}) /\ UNCHANGED <<floor, ckpt, ready, up, late>>
  BY DEF postRow
<1>4. /\ Extends(log, log') /\ Range(log') \subseteq Range(log) \cup {b}
      /\ RowIn([seq |-> AckSeq(b), batch |-> b], log')
  BY <1>1, <1>2, <1>3, AppendTrue
<1>5. Grows
  BY <1>1, <1>3, <1>4 DEF Grows, TypeOK, RoomTypeOK
<1>6. CheckpointsWhole' /\ UpWritten'
  BY <1>3, <1>5, Kept
<1>7. \A e \in Devices : ChTrue(Relay(b, {})[e], log', floor', Owned(e)')
  BY <1>2, <1>3, <1>5, RelayTrue
<1>8. DownTrue'
  BY <1>3, <1>7 DEF DownTrue
<1>9. Range(log') \subseteq written
  BY <1>1, <1>4 DEF Roads, LogWritten
<1>10. QED
  BY <1>3, <1>4, <1>5, <1>6, <1>8, <1>9

\* Answering hello.
LEMMA HelloTrue ==
    ASSUME RoadsInv, TypeOK', NEW d \in Devices, handleHello(d), UNCHANGED clientVars
    PROVE  Roads'
<1>1. TypeOK /\ RoomTypeOK /\ Roads
  BY DEF RoadsInv, JournalInv, TypeOK
<1>2. /\ up[d] # <<>> /\ up' = [up EXCEPT ![d] = Tail(up[d])]
      /\ down' = [down EXCEPT ![d] = Append(down[d], logStats)]
      /\ UNCHANGED <<log, floor, ckpt, stray, late>>
  BY DEF handleHello, UpHead
<1>3. Grows
  BY <1>1, <1>2, GrowsKept DEF clientVars, docVars
<1>4. up[d] \in Seq(UpFrames) /\ down[d] \in Seq(DownFrames)
  BY <1>1 DEF RoomTypeOK
<1>5. UpWritten'
  BY <1>1, <1>2, <1>3, <1>4, UpRead, SetUp DEF Roads, UpWritten
<1>6. DownTrue'
  <2>1. logStats \in DownFrames
    BY <1>1, LogStatsType, DownFrameTypes
  <2>2. FrameIn(logStats, log, floor, Owned(d))
    BY <1>1 DEF FrameIn, logStats, RoomTypeOK
  <2>3. ChTrue(down[d], log, floor, Owned(d))
    BY <1>1 DEF Roads, DownTrue
  <2>4. /\ ChTrue(Append(down[d], logStats), log, floor, Owned(d))
        /\ Append(down[d], logStats) \in Seq(DownFrames)
    BY <1>4, <2>1, <2>2, <2>3, SendTrue, Sending
  <2>5. QED
    BY <1>2, <1>3, <2>4, SetDown
<1>7. QED
  BY <1>2, <1>3, <1>5, <1>6, Kept, ClientKept DEF Roads

\* Rows of the log are true.
LEMMA RowsAfterTrue ==
    ASSUME RoomTypeOK, NEW after \in Nat, NEW exclude
    PROVE  \A r \in rowsAfter(after, exclude) : RowIn(r, log)
<1>1. \A s \in LiveSeqs : s \in 1 .. Len(log)
  BY DEF RoomTypeOK, LiveSeqs, headSeq
<1>2. QED
  BY <1>1 DEF rowsAfter, RowIn

\* Answering a rows request.
LEMMA RowsReqTrue ==
    ASSUME RoadsInv, TypeOK', NEW d \in Devices, handleRowsReq(d), UNCHANGED clientVars
    PROVE  Roads'
<1> DEFINE req == Head(up[d])
           rows == rowsAfter(req.after, IF req.excludeOwn THEN {d} ELSE {})
           ch == SendRows(down[d], rows)
<1>1. TypeOK /\ RoomTypeOK /\ Roads
  BY DEF RoadsInv, JournalInv, TypeOK
<1>2. /\ up[d] # <<>> /\ req.t = "rowsReq" /\ up' = [up EXCEPT ![d] = Tail(up[d])]
      /\ down' = [down EXCEPT ![d] = Append(ch, DoneFrame)]
      /\ UNCHANGED <<log, floor, ckpt, stray, late>>
  BY DEF handleRowsReq, UpHead
<1>3. Grows
  BY <1>1, <1>2, GrowsKept DEF clientVars, docVars
<1>4. up[d] \in Seq(UpFrames) /\ down[d] \in Seq(DownFrames)
  BY <1>1 DEF RoomTypeOK
<1>5. UpWritten'
  BY <1>1, <1>2, <1>3, <1>4, UpRead, SetUp DEF Roads, UpWritten
<1>6. rows \in SUBSET Row /\ \A r \in rows : RowIn(r, log)
  <2>1. req \in UpFrames
    BY <1>2, <1>4
  <2>2. req.after \in Nat
    BY <1>2, <2>1, RowsReqHead
  <2>3. QED
    BY <1>1, <2>2, RowsAfterType, RowsAfterTrue
<1>7. ChTrue(down[d], log, floor, Owned(d))
  BY <1>1 DEF Roads, DownTrue
<1> HIDE DEF rows
<1>8. ch \in Seq(DownFrames) /\ ChTrue(ch, log, floor, Owned(d))
  <2>1. CASE rows = {}
    BY <1>4, <1>7, <2>1 DEF SendRows
  <2>2. CASE rows # {}
    <3> DEFINE f == RowsFrame(rows)
    <3>1. f \in DownFrames /\ f.t = "rows" /\ f.rows = rows
      BY <1>6, <2>2, DownFrameTypes DEF RowsFrame
    <3>2. ch = Append(down[d], f)
      BY <2>2 DEF SendRows
    <3> HIDE DEF f, ch
    <3>3. FrameIn(f, log, floor, Owned(d))
      BY <1>6, <3>1 DEF FrameIn
    <3>4. QED
      BY <1>4, <1>7, <3>1, <3>2, <3>3, SendTrue, Sending
  <2>3. QED
    BY <2>1, <2>2
<1> HIDE DEF ch
<1>9. DownTrue'
  <2>1. DoneFrame \in DownFrames
    BY DownFrameTypes
  <2>2. FrameIn(DoneFrame, log, floor, Owned(d))
    BY DEF FrameIn, DoneFrame
  <2>3. /\ ChTrue(Append(ch, DoneFrame), log, floor, Owned(d))
        /\ Append(ch, DoneFrame) \in Seq(DownFrames)
    BY <1>8, <2>1, <2>2, SendTrue, Sending
  <2>4. QED
    BY <1>2, <1>3, <2>3, SetDown
<1>10. QED
  BY <1>2, <1>3, <1>5, <1>9, Kept, ClientKept DEF Roads

\* Reading a batch off a push leaves a push of the same device's updates.
LEMMA TakeTrue ==
    ASSUME RoadsInv, TypeOK', Grows, NEW d \in Devices, UpHead(d, "push"), TakePush(d)
    PROVE  UpWritten' /\ First(Head(up[d]).batches) \in Owned(d)
<1> DEFINE S == Head(up[d]).batches
<1>1. TypeOK /\ RoomTypeOK /\ Roads
  BY DEF RoadsInv, JournalInv, TypeOK
<1>2. up[d] \in Seq(UpFrames) /\ up[d] # <<>> /\ Head(up[d]).t = "push"
  BY <1>1 DEF RoomTypeOK, UpHead
<1>3. Head(up[d]) \in UpFrames
  BY <1>2
<1>4. S \in SUBSET Batches /\ S # {}
  BY <1>2, <1>3, PushHead
<1>5. First(S) \in S
  BY <1>4, FirstIn
<1>6. UpTrue(up[d], Owned(d))
  BY <1>1 DEF Roads, UpWritten
<1>7. /\ UpTrue(Tail(up[d]), Owned(d)) /\ S \subseteq Owned(d)
      /\ UpTrue(<<PushFrame(S \ {First(S)})>> \o Tail(up[d]), Owned(d))
  <2>1. S \ {First(S)} \in SUBSET S
    OBVIOUS
  <2>2. QED
    BY <1>2, <1>6, <2>1, UpRead
<1>8. \/ up' = [up EXCEPT ![d] = Tail(up[d])]
      \/ up' = [up EXCEPT ![d] = <<PushFrame(S \ {First(S)})>> \o Tail(up[d])]
  BY DEF TakePush
<1> HIDE DEF S
<1>9. UpWritten'
  BY <1>7, <1>8, SetUp
<1>10. QED
  BY <1>5, <1>7, <1>9 DEF S

\* Numbering a pushed batch.
LEMMA PushTrue ==
    ASSUME RoadsInv, TypeOK', NEW d \in Devices, handlePush(d), UNCHANGED clientVars
    PROVE  Roads'
<1> DEFINE b == First(Head(up[d]).batches)
           ack == AckFrame(b, AckSeq(b))
           relay == Relay(b, {d})
<1>1. TypeOK /\ RoomTypeOK /\ Roads
  BY DEF RoadsInv, JournalInv, TypeOK
<1>2. /\ UpHead(d, "push") /\ appendRow(b) /\ TakePush(d)
      /\ down' = [relay EXCEPT ![d] = Append(relay[d], ack)]
      /\ UNCHANGED <<floor, ckpt, stray, late>>
  BY DEF handlePush
<1>3. b \in Batches
  BY <1>1, <1>2, PushedBatch
<1>4. UNCHANGED written
  BY DEF clientVars, docVars
<1>5. /\ Extends(log, log') /\ Range(log') \subseteq Range(log) \cup {b}
      /\ RowIn([seq |-> AckSeq(b), batch |-> b], log')
  BY <1>1, <1>2, <1>3, AppendTrue
<1>6. Grows
  BY <1>1, <1>2, <1>4, <1>5 DEF Grows, RoomTypeOK
<1>7. UpWritten' /\ b \in Owned(d)
  BY <1>2, <1>6, TakeTrue
<1>8. /\ \A e \in Devices : relay[e] \in Seq(DownFrames) /\ ChTrue(relay[e], log', floor', Owned(e)')
      /\ relay \in [Devices -> Seq(DownFrames)]
  BY <1>1, <1>2, <1>3, <1>6, RelayTrue, RelayType
<1>9. AckSeq(b) \in Nat
  BY <1>1, <1>3, AppendRowType
<1>10. ack \in DownFrames /\ ack.t = "ack" /\ ack.batch = b /\ ack.seq = AckSeq(b)
  BY <1>3, <1>9, DownFrameTypes DEF AckFrame
<1> HIDE DEF relay, ack, b
<1>11. FrameIn(ack, log', floor', Owned(d)')
  <2>1. RowIn(ack, log')
    BY <1>5, <1>10 DEF RowIn
  <2>2. ack.batch \in Owned(d)'
    BY <1>1, <1>6, <1>7, <1>10, GrowTypes
  <2>3. QED
    BY <1>10, <2>1, <2>2 DEF FrameIn
<1>12. \A e \in Devices : ChTrue(down'[e], log', floor', Owned(e)')
  <2>1. ChTrue(Append(relay[d], ack), log', floor', Owned(d)')
    BY <1>8, <1>10, <1>11, SendTrue
  <2>2. QED
    BY <1>2, <1>8, <2>1
<1>13. DownTrue'
  BY <1>12 DEF DownTrue
<1>14. LogWritten'
  BY <1>1, <1>2, <1>4, <1>5, <1>7 DEF Roads, LogWritten, Owned
<1>15. QED
  BY <1>2, <1>6, <1>7, <1>13, <1>14, Kept, ClientKept DEF Roads

\* Refusing a push.
LEMMA RefuseTrue ==
    ASSUME RoadsInv, TypeOK', NEW d \in Devices, refusePush(d), UNCHANGED clientVars
    PROVE  Roads'
<1> DEFINE f == QuotaFrame(First(Head(up[d]).batches))
<1>1. TypeOK /\ RoomTypeOK /\ Roads
  BY DEF RoadsInv, JournalInv, TypeOK
<1>2. /\ UpHead(d, "push") /\ TakePush(d) /\ down' = [down EXCEPT ![d] = Append(down[d], f)]
      /\ UNCHANGED <<log, floor, ckpt, stray, late>>
  BY DEF refusePush
<1>3. Grows
  BY <1>1, <1>2, GrowsKept DEF clientVars, docVars
<1>4. UpWritten'
  BY <1>2, <1>3, TakeTrue
<1>5. First(Head(up[d]).batches) \in Batches
  BY <1>1, <1>2, PushedBatch
<1>6. f \in DownFrames /\ FrameIn(f, log, floor, Owned(d))
  BY <1>5, DownFrameTypes DEF QuotaFrame, FrameIn
<1>7. down[d] \in Seq(DownFrames) /\ ChTrue(down[d], log, floor, Owned(d))
  BY <1>1 DEF RoomTypeOK, Roads, DownTrue
<1> HIDE DEF f
<1>8. /\ ChTrue(Append(down[d], f), log, floor, Owned(d))
      /\ Append(down[d], f) \in Seq(DownFrames)
  BY <1>6, <1>7, SendTrue, Sending
<1>9. DownTrue'
  BY <1>2, <1>3, <1>8, SetDown
<1>10. QED
  BY <1>2, <1>3, <1>4, <1>9, Kept, ClientKept DEF Roads

\* A push that outlived its socket.
LEMMA StrayTrue ==
    ASSUME RoadsInv, TypeOK', NEW b \in stray, handleStrayPush(b), UNCHANGED clientVars
    PROVE  Roads'
<1>1. Roads /\ UNCHANGED written
  BY DEF RoadsInv, clientVars, docVars
<1>2. b \in written /\ postRow(b) /\ stray' \subseteq stray
  BY <1>1 DEF handleStrayPush, Roads, LogWritten
<1>3. /\ Grows /\ Range(log') \subseteq written
      /\ CheckpointsWhole' /\ UpWritten' /\ DownTrue'
  BY <1>1, <1>2, PostRowTrue
<1>4. LogWritten'
  BY <1>1, <1>2, <1>3 DEF LogWritten, Roads
<1>5. QED
  BY <1>3, <1>4, ClientKept DEF Roads

\* Committing a whole checkpoint.
LEMMA CommitTrue ==
    ASSUME RoadsInv, NEW n \in Nat, NEW S \in SUBSET Batches, Has(S, n, log),
           S \subseteq written, Committable(n), commitCheckpoint(n, S), late' \subseteq late,
           UNCHANGED <<log, written>>
    PROVE  Grows /\ CheckpointsWhole'
<1>1. TypeOK /\ RoomTypeOK /\ Roads
  BY DEF RoadsInv, JournalInv, TypeOK
<1>2. floor' = n /\ ckpt' = [present |-> TRUE, content |-> S] /\ floor <= n
  BY <1>1 DEF commitCheckpoint, Committable, RoomTypeOK
<1>3. Grows
  BY <1>1, <1>2 DEF Grows, Extends, RoomTypeOK
<1>4. QED
  BY <1>1, <1>2, <1>3 DEF Roads, CheckpointsWhole

\* A checkpoint whose client has given up.
LEMMA LateTrue ==
    ASSUME RoadsInv, TypeOK', NEW p \in late, handleLateCheckpoint(p), UNCHANGED clientVars
    PROVE  Roads'
<1>1. TypeOK /\ RoomTypeOK /\ Roads /\ UNCHANGED written
  BY DEF RoadsInv, JournalInv, TypeOK, clientVars, docVars
<1>2. late' \subseteq late /\ UNCHANGED <<log, up, down, stray>>
  BY DEF handleLateCheckpoint
<1>3. p.covered \in Nat /\ p.content \in SUBSET Batches
  BY <1>1 DEF RoomTypeOK
<1>4. Has(p.content, p.covered, log) /\ p.content \subseteq written
  BY <1>1 DEF Roads, CheckpointsWhole
<1>5. Grows /\ CheckpointsWhole'
  <2>1. CASE Committable(p.covered)
    <3>1. commitCheckpoint(p.covered, p.content)
      BY <2>1 DEF handleLateCheckpoint
    <3>2. QED
      BY <1>1, <1>2, <1>3, <1>4, <2>1, <3>1, CommitTrue
  <2>2. CASE ~Committable(p.covered)
    <3>1. UNCHANGED <<floor, ckpt>>
      BY <2>2 DEF handleLateCheckpoint
    <3>2. QED
      BY <1>1, <1>2, <3>1, GrowsKept DEF Roads, CheckpointsWhole
  <2>3. QED
    BY <2>1, <2>2
<1>6. QED
  BY <1>2, <1>5, Kept, ClientKept DEF Roads

-----------------------------------------------------------------------------
(* The documents and the disks.                                            *)

\* Documents keep what they have, applied or parked.
DocsGrow == \A d \in Devices : doc[d] \subseteq doc'[d] /\ Held(d) \subseteq Held(d)'

\* Documents that a step leaves alone keep what they have.
LEMMA DocsKept == UNCHANGED <<doc, parked>> => DocsGrow
BY DEF DocsGrow, Held

\* An import keeps the document causally closed and forgets nothing.
LEMMA ImportTrue ==
    ASSUME RoadsInv, NEW d \in Devices, NEW S \in SUBSET Batches, S \subseteq written,
           Import(d, S)
    PROVE  /\ DocsClosed' /\ DocsGrow /\ UNCHANGED written
           /\ doc'[d] = Applied(d, S) /\ Held(d)' = Known(d, S)
           /\ \A e \in Devices \ {d} : Held(e)' = Held(e)
<1> DEFINE K == Known(d, S)
           A == Applied(d, S)
<1>1. TypeOK /\ Roads /\ ClientTypeOK
  BY DEF RoadsInv, JournalInv, TypeOK
<1>2. /\ doc' = [doc EXCEPT ![d] = A] /\ parked' = [parked EXCEPT ![d] = K \ A]
      /\ UNCHANGED <<written, deps>>
  BY DEF Import
<1>3. doc \in [Devices -> SUBSET Batches] /\ parked \in [Devices -> SUBSET Batches]
  BY <1>1 DEF ClientTypeOK
<1>4. /\ doc'[d] = A /\ parked'[d] = K \ A
      /\ \A e \in Devices \ {d} : doc'[e] = doc[e] /\ parked'[e] = parked[e]
  BY <1>2, <1>3
<1>5. K \in SUBSET Batches /\ K \subseteq written
  <2>1. written \subseteq Batches
    BY <1>1 DEF ClientTypeOK
  <2>2. QED
    BY <1>1, <2>1 DEF Known, Roads, DocsClosed
<1>6. \A b \in A : deps[b] \subseteq A
  <2> SUFFICES ASSUME NEW b \in A, NEW c \in deps[b] PROVE c \in A
    OBVIOUS
  <2>1. b \in K /\ deps[b] \subseteq K
    BY DEF Applied
  <2>2. b \in Batches /\ c \in K
    BY <1>5, <2>1
  <2>3. deps[c] \subseteq deps[b]
    BY <1>1, <2>2 DEF Roads, DocsClosed
  <2>4. QED
    BY <2>1, <2>2, <2>3 DEF Applied
<1>7. doc[d] \subseteq A
  <2>1. \A b \in doc[d] : b \in K /\ deps[b] \subseteq K
    BY <1>1 DEF Roads, DocsClosed, Known
  <2>2. QED
    BY <2>1 DEF Applied
<1>8. A \subseteq K /\ Held(d) \subseteq K
  BY DEF Applied, Known, Held
<1> HIDE DEF A, K
<1>9. Held(d)' = K
  BY <1>4, <1>8 DEF Held
<1>10. \A e \in Devices \ {d} : Held(e)' = Held(e)
  BY <1>4 DEF Held
<1>11. DocsGrow
  BY <1>4, <1>7, <1>8, <1>9, <1>10 DEF DocsGrow
<1>12. DocsClosed'
  <2>1. \A e \in Devices : \A b \in doc'[e] : deps[b] \subseteq doc'[e]
    BY <1>1, <1>4, <1>6 DEF Roads, DocsClosed
  <2>2. \A e \in Devices : doc'[e] \cup parked'[e] \subseteq written
    BY <1>1, <1>4, <1>5, <1>8 DEF Roads, DocsClosed
  <2>3. QED
    BY <1>1, <1>2, <2>1, <2>2 DEF Roads, DocsClosed
<1>13. QED
  BY <1>2, <1>4, <1>9, <1>10, <1>11, <1>12 DEF A, K

\* Uploads and disks stay true while the documents grow and a cursor that the
\* log has reached is noted.
LEMMA GrownDocs ==
    ASSUME RoadsInv, TypeOK', Grows, DocsGrow
    PROVE  /\ UNCHANGED post => PostTrue'
           /\ \A d \in Devices, n \in Nat :
                 /\ n <= Len(log)
                 /\ pcursor' = [pcursor EXCEPT ![d] = n]
                 /\ \A e \in Devices : outbox'[e] \subseteq outbox[e]
                 /\ UNCHANGED <<flush, disk>>
                 => DisksTrue'
           /\ /\ \A e \in Devices : outbox'[e] \subseteq outbox[e]
              /\ UNCHANGED <<pcursor, flush, disk>>
              => DisksTrue'
<1>1. TypeOK /\ Roads
  BY DEF RoadsInv, JournalInv
<1>2. /\ log \in Seq(Batches) /\ log' \in Seq(Batches) /\ Extends(log, log')
      /\ \A d \in Devices : Owned(d) \subseteq Owned(d)'
  BY <1>1, GrowTypes
<1>3. UNCHANGED post => PostTrue'
  <2>1. \A d \in Devices : post[d] \in Post
    BY <1>1 DEF TypeOK, ClientTypeOK
  <2>2. \A d \in Devices : PostIn(post[d], log', doc'[d], written')
    BY <1>1, <1>2, <2>1, PostMono DEF Roads, PostTrue, Grows, DocsGrow
  <2>3. QED
    BY <2>2 DEF PostTrue
<1>4. Len(log) \in Nat /\ Len(log') \in Nat /\ Len(log) <= Len(log')
  BY <1>2 DEF Extends
<1>5. ASSUME \A e \in Devices : pcursor'[e] \in Nat /\ pcursor'[e] <= Len(log),
             \A e \in Devices : outbox'[e] \subseteq outbox[e],
             UNCHANGED <<flush, disk>>
      PROVE  DisksTrue'
  <2>1. \A e \in Devices : /\ flush[e] \in Nat \cup {-1} /\ disk[e].cursor \in Nat
                           /\ flush[e] <= Len(log) /\ disk[e].cursor <= Len(log)
    BY <1>1 DEF TypeOK, ClientTypeOK, Roads, DisksTrue
  <2>2. \A e \in Devices : /\ pcursor'[e] <= Len(log') /\ flush'[e] <= Len(log')
                           /\ disk'[e].cursor <= Len(log')
    BY <1>4, <1>5, <2>1
  <2>3. \A e \in Devices : /\ disk'[e].content \subseteq Held(e)'
                           /\ outbox'[e] \subseteq Held(e)' \cap Owned(e)'
    BY <1>1, <1>2, <1>5 DEF Roads, DisksTrue, DocsGrow
  <2>4. QED
    BY <2>2, <2>3 DEF DisksTrue
<1>6. \A e \in Devices : pcursor[e] \in Nat /\ pcursor[e] <= Len(log)
  BY <1>1 DEF TypeOK, ClientTypeOK, Roads, DisksTrue
<1>7. pcursor \in [Devices -> Nat]
  BY <1>1 DEF TypeOK, ClientTypeOK
<1>8. ASSUME NEW d \in Devices, NEW n \in Nat, n <= Len(log),
             pcursor' = [pcursor EXCEPT ![d] = n],
             \A e \in Devices : outbox'[e] \subseteq outbox[e],
             UNCHANGED <<flush, disk>>
      PROVE  DisksTrue'
  <2>1. \A e \in Devices : pcursor'[e] \in Nat /\ pcursor'[e] <= Len(log)
    BY <1>6, <1>7, <1>8
  <2>2. QED
    BY <1>5, <1>8, <2>1
<1>9. ASSUME \A e \in Devices : outbox'[e] \subseteq outbox[e],
             UNCHANGED <<pcursor, flush, disk>>
      PROVE  DisksTrue'
  <2>1. \A e \in Devices : pcursor'[e] \in Nat /\ pcursor'[e] <= Len(log)
    BY <1>6, <1>9
  <2>2. QED
    BY <1>5, <1>9, <2>1
<1>10. QED
  BY <1>3, <1>8, <1>9

-----------------------------------------------------------------------------
(* The parts of the session that several steps share.                      *)

\* An idle task, and a task that starts, is true.
LEMMA SpawnIn ==
    ASSUME NEW lg \in Seq(Batches), NEW n \in Nat, NEW W, NEW d, NEW h, NEW S,
           S \subseteq W, HttpIn(h, lg, n, W)
    PROVE  HttpIn(IdleHttp, lg, n, W) /\ HttpIn(spawn_offline_sync(d, h, S), lg, n, W)
<1>1. Len(lg) \in Nat
  OBVIOUS
<1>2. HttpIn(IdleHttp, lg, n, W)
  BY <1>1 DEF HttpIn, IdleHttp, NoState
<1>3. HttpIn([IdleHttp EXCEPT !.step = "push", !.todo = S], lg, n, W)
  BY <1>1 DEF HttpIn, IdleHttp, NoState
<1>4. QED
  BY <1>2, <1>3 DEF spawn_offline_sync

\* What the invariant says of one device.
LEMMA EntryTrue ==
    ASSUME RoadsInv, NEW d \in Devices
    PROVE  /\ SharedIn(shared[d], log, Owned(d)) /\ actor[d].target <= floor
           /\ HttpIn(http[d], log, floor, Owned(d))
           /\ PostIn(post[d], log, doc[d], written)
           /\ UpTrue(up[d], Owned(d)) /\ ChTrue(down[d], log, floor, Owned(d))
           /\ pcursor[d] <= Len(log) /\ flush[d] <= Len(log)
           /\ disk[d].cursor <= Len(log) /\ disk[d].content \subseteq Held(d)
           /\ outbox[d] \subseteq Held(d) \cap Owned(d)
BY DEF RoadsInv, Roads, SharedTrue, TargetsTrue, HttpTrue, PostTrue, UpWritten, DownTrue, DisksTrue

\* The log and the floor are typed, and the floor is a number of the log.
LEMMA LogTyped ==
    ASSUME RoadsInv
    PROVE  /\ TypeOK /\ RoomTypeOK /\ Roads /\ log \in Seq(Batches) /\ Len(log) \in Nat
           /\ floor \in Nat /\ floor <= Len(log)
BY DEF RoadsInv, JournalInv, TypeOK, RoomTypeOK, headSeq

\* Ending a session.
LEMMA HangUpTrue ==
    ASSUME RoadsInv, TypeOK', Grows, NEW d \in Devices, NEW sh \in Shared,
           SharedIn(sh, log, Owned(d)), NEW h \in Http, HttpIn(h, log, floor, Owned(d)),
           HangUp(d, sh, h)
    PROVE  UpWritten' /\ DownTrue' /\ SharedTrue' /\ TargetsTrue' /\ HttpTrue'
<1> DEFINE g == spawn_offline_sync(d, h, sh.pending)
           a == DownActor(actor[d].resumed, actor[d].heal, actor[d].reseed)
<1>1. /\ shared' = [shared EXCEPT ![d] = sh] /\ actor' = [actor EXCEPT ![d] = a]
      /\ http' = [http EXCEPT ![d] = g] /\ up' = [up EXCEPT ![d] = <<>>]
      /\ down' = [down EXCEPT ![d] = <<>>]
  BY DEF HangUp
<1>2. log \in Seq(Batches) /\ floor \in Nat /\ TypeOK
  BY LogTyped
<1>3. sh.pending \in SUBSET Batches /\ sh.pending \subseteq Owned(d)
  BY DEF Shared, SharedIn
<1>4. g \in Http /\ HttpIn(g, log, floor, Owned(d))
  BY <1>2, <1>3, SpawnType, SpawnIn
<1>5. a \in Actor /\ a.target <= floor
  <2>1. a \in Actor
    BY <1>2, Entries, IdleTypes DEF Actor
  <2>2. a.target = 0
    BY DEF DownActor
  <2>3. QED
    BY <1>2, <2>1, <2>2
<1>6. UpTrue(<<>>, Owned(d)) /\ ChTrue(<<>>, log, floor, Owned(d)) /\ <<>> \in Seq(DownFrames)
  BY DEF UpTrue, ChTrue
<1> HIDE DEF g, a
<1>7. QED
  BY <1>1, <1>4, <1>5, <1>6, SetShared, SetActor, SetHttpOld, SetUp, SetDown

\* Taking the next frame and repairing a gap.
LEMMA RepairTrue ==
    ASSUME RoadsInv, TypeOK', Grows, NEW d \in Devices, NEW sh \in Shared,
           SharedIn(sh, log, Owned(d)), NEW act \in Actor, act.target <= floor,
           NEW h \in Http, HttpIn(h, log, floor, Owned(d)),
           down[d] # <<>>, maybe_repair_gap(d, sh, act, h)
    PROVE  UpWritten' /\ DownTrue' /\ SharedTrue' /\ TargetsTrue' /\ HttpTrue'
<1> DEFINE rest == IF DownHead(d, "rows") THEN AfterRow(down[d]) ELSE Tail(down[d])
           calm == act.phase # "live" \/ ~(sh.needsCkpt \/ sh.gapRepair)
           spent == sh.needsCkpt \/ act.repairs >= MaxGapRepairs
           sh1 == [sh EXCEPT !.gapRepair = FALSE]
           act1 == [act EXCEPT !.repairs = @ + 1]
           sh2 == [sh EXCEPT !.gapRepair = @ /\ sh.needsCkpt]
           req == RowsReq(sh.cursor, FALSE)
<1>1. /\ log \in Seq(Batches) /\ floor \in Nat /\ TypeOK
      /\ down[d] \in Seq(DownFrames) /\ up[d] \in Seq(UpFrames)
      /\ UpTrue(up[d], Owned(d)) /\ ChTrue(down[d], log, floor, Owned(d))
  BY LogTyped, Entries, EntryTrue
<1>2. rest \in Seq(DownFrames) /\ ChTrue(rest, log, floor, Owned(d))
  <2>1. CASE DownHead(d, "rows")
    BY <1>1, <2>1, AfterRowType, AfterRowTrue DEF DownHead
  <2>2. CASE ~DownHead(d, "rows")
    BY <1>1, <2>2, TailTrue
  <2>3. QED
    BY <2>1, <2>2
<1>3. /\ sh1 \in Shared /\ SharedIn(sh1, log, Owned(d))
      /\ sh2 \in Shared /\ SharedIn(sh2, log, Owned(d))
  BY DEF Shared, SharedIn
<1>4. act1 \in Actor /\ act1.target <= floor
  BY DEF Actor
<1>5. UpTrue(Append(up[d], req), Owned(d))
  <2>1. sh.cursor \in Nat
    BY DEF Shared
  <2>2. req \in UpFrames /\ req.t # "push"
    BY <2>1, UpFrameTypes DEF RowsReq
  <2> HIDE DEF req
  <2>3. QED
    BY <1>1, <2>2, UpSend
<1>6. \/ /\ calm
         /\ shared' = [shared EXCEPT ![d] = sh] /\ actor' = [actor EXCEPT ![d] = act]
         /\ http' = [http EXCEPT ![d] = h] /\ down' = [down EXCEPT ![d] = rest]
         /\ UNCHANGED up
      \/ /\ ~calm /\ ~spent
         /\ shared' = [shared EXCEPT ![d] = sh1] /\ actor' = [actor EXCEPT ![d] = act1]
         /\ http' = [http EXCEPT ![d] = h] /\ down' = [down EXCEPT ![d] = rest]
         /\ up' = [up EXCEPT ![d] = Append(up[d], req)]
      \/ ~calm /\ spent /\ HangUp(d, sh2, h)
  BY DEF maybe_repair_gap
<1> HIDE DEF rest, calm, spent, sh1, act1, sh2, req
<1>7. CASE /\ shared' = [shared EXCEPT ![d] = sh] /\ actor' = [actor EXCEPT ![d] = act]
           /\ http' = [http EXCEPT ![d] = h] /\ down' = [down EXCEPT ![d] = rest]
           /\ UNCHANGED up
  BY <1>2, <1>7, SetShared, SetActor, SetHttpOld, SetDown, Kept
<1>8. CASE /\ shared' = [shared EXCEPT ![d] = sh1] /\ actor' = [actor EXCEPT ![d] = act1]
           /\ http' = [http EXCEPT ![d] = h] /\ down' = [down EXCEPT ![d] = rest]
           /\ up' = [up EXCEPT ![d] = Append(up[d], req)]
  BY <1>2, <1>3, <1>4, <1>5, <1>8, SetShared, SetActor, SetHttpOld, SetDown, SetUp
<1>9. CASE HangUp(d, sh2, h)
  BY <1>3, <1>9, HangUpTrue
<1>10. QED
  BY <1>6, <1>7, <1>8, <1>9

-----------------------------------------------------------------------------
(* One device's entry after a step, the others as they were.               *)

\* One device's cursor and pending set, checked in the state the step reaches.
LEMMA SharedAt ==
    ASSUME RoadsInv, TypeOK', Grows, NEW d \in Devices,
           SharedIn(shared'[d], log', Owned(d)'), \A e \in Devices \ {d} : shared'[e] = shared[e]
    PROVE  SharedTrue'
<1>1. \A e \in Devices : shared[e] \in Shared /\ SharedIn(shared[e], log, Owned(e))
  BY LogTyped, Entries, EntryTrue
<1>2. \A e \in Devices : SharedIn(shared[e], log', Owned(e)')
  BY <1>1, LogTyped, GrowTypes, ClientMono
<1>3. QED
  BY <1>2 DEF SharedTrue

\* One session actor.
LEMMA ActorAt ==
    ASSUME RoadsInv, TypeOK', Grows, NEW d \in Devices,
           actor'[d].target <= floor', \A e \in Devices \ {d} : actor'[e] = actor[e]
    PROVE  TargetsTrue'
<1>1. \A e \in Devices : actor[e].target \in Nat /\ actor[e].target <= floor
  BY LogTyped, Entries, EntryTrue DEF Actor
<1>2. floor \in Nat /\ floor' \in Nat /\ floor <= floor'
  BY LogTyped, GrowTypes
<1>3. QED
  BY <1>1, <1>2 DEF TargetsTrue

\* One HTTPS task.
LEMMA HttpAt ==
    ASSUME RoadsInv, TypeOK', Grows, NEW d \in Devices,
           HttpIn(http'[d], log', floor', Owned(d)'), \A e \in Devices \ {d} : http'[e] = http[e]
    PROVE  HttpTrue'
<1>1. \A e \in Devices : http[e] \in Http /\ HttpIn(http[e], log, floor, Owned(e))
  BY LogTyped, Entries, EntryTrue
<1>2. \A e \in Devices : HttpIn(http[e], log', floor', Owned(e)')
  BY <1>1, LogTyped, GrowTypes, ClientMono
<1>3. QED
  BY <1>2 DEF HttpTrue

\* One checkpoint upload.
LEMMA PostAt ==
    ASSUME RoadsInv, TypeOK', Grows, NEW d \in Devices,
           PostIn(post'[d], log', doc'[d], written'),
           \A e \in Devices \ {d} : post'[e] = post[e] /\ doc[e] \subseteq doc'[e]
    PROVE  PostTrue'
<1>1. \A e \in Devices : post[e] \in Post /\ PostIn(post[e], log, doc[e], written)
  BY LogTyped, Entries, EntryTrue
<1>2. written \subseteq written'
  BY DEF Grows
<1>3. \A e \in Devices \ {d} : PostIn(post[e], log', doc'[e], written')
  BY <1>1, <1>2, LogTyped, GrowTypes, PostMono
<1>4. QED
  BY <1>3 DEF PostTrue

-----------------------------------------------------------------------------
(* Local writes and the socket session.                                    *)

\* A new update depends on what its author had applied, and on nothing new.
LEMMA WriteTrue ==
    ASSUME RoadsInv, TypeOK', NEW d \in Devices, NEW b \in Batches, enqueue_batch(d, b)
    PROVE  Roads'
<1>1. /\ b \notin written /\ Author(b) = d
      /\ written' = written \cup {b}
      /\ deps' = [deps EXCEPT ![b] = doc[d]]
      /\ doc' = [doc EXCEPT ![d] = @ \cup {b}]
      /\ outbox' = [outbox EXCEPT ![d] = @ \cup {b}]
      /\ shared' = [shared EXCEPT ![d].pending = @ \cup ({b} \ Oversize)]
      /\ UNCHANGED <<log, floor, ckpt, stray, late, up, down, parked, actor, http, post,
                     pcursor, flush, disk>>
  BY DEF enqueue_batch, roomVars
<1>2. /\ TypeOK /\ Roads /\ ClientTypeOK
      /\ deps \in [Batches -> SUBSET Batches] /\ doc \in [Devices -> SUBSET Batches]
      /\ outbox \in [Devices -> SUBSET Batches] /\ shared \in [Devices -> Shared]
  BY LogTyped DEF TypeOK, ClientTypeOK
<1>3. Grows
  BY <1>1, LogTyped DEF Grows, Extends
<1>4. /\ doc'[d] = doc[d] \cup {b} /\ \A e \in Devices \ {d} : doc'[e] = doc[e]
      /\ deps'[b] = doc[d] /\ \A c \in Batches \ {b} : deps'[c] = deps[c]
  BY <1>1, <1>2
<1>5. DocsGrow
  BY <1>1, <1>4 DEF DocsGrow, Held
<1>6. DocsClosed'
  <2>1. \A e \in Devices : doc[e] \cup parked[e] \subseteq written /\ doc[e] \subseteq Batches
    BY <1>2 DEF Roads, DocsClosed
  <2>2. \A c \in Batches : deps[c] \subseteq written \ {b} /\ \A x \in deps[c] : deps[x] \subseteq deps[c]
    BY <1>1, <1>2 DEF Roads, DocsClosed
  <2>3. \A e \in Devices : \A c \in doc[e] : c # b /\ c \in Batches /\ deps[c] \subseteq doc[e]
    BY <1>1, <1>2, <2>1 DEF Roads, DocsClosed
  <2>4. ASSUME NEW c \in Batches
        PROVE  deps'[c] \subseteq written' /\ \A x \in deps'[c] : deps'[x] \subseteq deps'[c]
    <3>1. CASE c = b
      BY <1>1, <1>4, <2>1, <2>3, <3>1
    <3>2. CASE c # b
      <4>1. \A x \in deps[c] : x \in Batches /\ x # b
        BY <1>2, <2>2
      <4>2. QED
        BY <1>1, <1>4, <2>2, <3>2, <4>1
    <3>3. QED
      BY <3>1, <3>2
  <2>5. ASSUME NEW e \in Devices, NEW c \in doc'[e] PROVE deps'[c] \subseteq doc'[e]
    <3>1. CASE c = b /\ e = d
      BY <1>4, <3>1
    <3>2. CASE ~(c = b /\ e = d)
      <4>1. c \in doc[e]
        BY <1>4, <2>5, <3>2
      <4>2. deps'[c] = deps[c] /\ deps[c] \subseteq doc[e] /\ doc[e] \subseteq doc'[e]
        BY <1>4, <2>3, <4>1
      <4>3. QED
        BY <4>2
    <3>3. QED
      BY <3>1, <3>2
  <2>6. \A e \in Devices : doc'[e] \cup parked'[e] \subseteq written'
    BY <1>1, <1>4, <2>1
  <2>7. QED
    BY <2>4, <2>5, <2>6 DEF DocsClosed
<1>7. b \in Owned(d)'
  BY <1>1 DEF Owned
<1>8. SharedTrue'
  <2>1. /\ shared'[d].cursor = shared[d].cursor
        /\ shared'[d].pending = shared[d].pending \cup ({b} \ Oversize)
        /\ \A e \in Devices \ {d} : shared'[e] = shared[e]
    BY <1>1, <1>2 DEF Shared
  <2>2. shared[d].cursor <= Len(log) /\ shared[d].pending \subseteq Owned(d)
    BY EntryTrue DEF SharedIn
  <2>3. Owned(d) \subseteq Owned(d)'
    BY <1>2, <1>3, GrowTypes
  <2>4. SharedIn(shared'[d], log', Owned(d)')
    BY <1>1, <1>7, <2>1, <2>2, <2>3 DEF SharedIn
  <2>5. QED
    BY <1>3, <2>1, <2>4, SharedAt
<1>9. DisksTrue'
  <2>1. \A e \in Devices : Owned(e) \subseteq Owned(e)' /\ Held(e) \subseteq Held(e)'
    BY <1>2, <1>3, <1>5, GrowTypes DEF DocsGrow
  <2>2. b \in Held(d)'
    BY <1>4 DEF Held
  <2>3. \A e \in Devices : outbox'[e] \subseteq Held(e)' \cap Owned(e)'
    BY <1>1, <1>2, <1>7, <2>1, <2>2, EntryTrue
  <2>4. \A e \in Devices : disk[e].content \subseteq Held(e)'
    BY <2>1, EntryTrue
  <2>5. QED
    BY <1>1, <2>3, <2>4, EntryTrue DEF DisksTrue
<1>10. PostTrue'
  BY <1>1, <1>3, <1>5, GrownDocs
<1>11. QED
  BY <1>1, <1>3, <1>6, <1>8, <1>9, <1>10, Kept DEF Roads

\* Dialling.
LEMMA DialTrue ==
    ASSUME RoadsInv, TypeOK', NEW d \in Devices, Dial(d)
    PROVE  Roads'
<1>1. /\ actor' = [actor EXCEPT ![d].phase = "hello"]
      /\ up' = [up EXCEPT ![d] = <<HelloFrame>>]
      /\ UNCHANGED <<log, floor, ckpt, down, stray, late, docVars, shared, http, post, diskVars>>
  BY DEF Dial
<1>2. Grows
  BY <1>1, LogTyped, GrowsKept DEF docVars
<1>3. UpTrue(<<HelloFrame>>, Owned(d))
  BY DEF UpTrue, HelloFrame
<1>4. actor \in [Devices -> Actor]
  BY LogTyped DEF TypeOK, ClientTypeOK
<1>5. TargetsTrue'
  BY <1>1, <1>2, <1>4, EntryTrue, ActorAt DEF Actor
<1>6. QED
  BY <1>1, <1>2, <1>3, <1>5, SetUp, Kept DEF Roads, docVars

\* The cursor of a plan is a number of the log, and so is whatever advances it.
LEMMA PlanIn ==
    ASSUME NEW cursor \in Nat, NEW st \in State, NEW contained, NEW n \in Nat,
           cursor <= n, st.seq <= n
    PROVE  LET plan == plan_catch_up(cursor, st, contained)
           IN  plan.after \in Nat /\ plan.after <= n
BY DEF plan_catch_up, State, Larger

\* The larger of two numbers of a range is in the range.
LEMMA LargerIn ==
    ASSUME NEW m \in Nat, NEW k \in Nat, NEW n \in Nat, m <= n, k <= n
    PROVE  Larger(m, k) \in Nat /\ Larger(m, k) <= n
BY DEF Larger

\* What a handler that answers with at most one frame does to a queue.
LEMMA Concat ==
    ASSUME NEW T, NEW s \in Seq(T), NEW x \in T
    PROVE  s \o <<>> = s /\ s \o <<x>> = Append(s, x)
OBVIOUS

\* Reading the state frame.
LEMMA RecvStateTrue ==
    ASSUME RoadsInv, TypeOK', NEW d \in Devices, RecvState(d)
    PROVE  Roads'
<1> DEFINE st == Head(down[d])
           sh == shared[d]
           contained == ~st.present \/ (~sh.needsCkpt /\ contains_frontier(doc[d], st.content))
           plan == plan_catch_up(sh.cursor, st, contained)
           burst == IF sh.quotaBlocked THEN {} ELSE sh.pending
           wiped == sh.cursor > st.head
           req == RowsReq(plan.after, actor[d].resumed /\ ~sh.needsCkpt)
           pushes == IF burst = {} THEN <<>> ELSE <<PushFrame(burst)>>
           n == IF wiped THEN 0 ELSE pcursor[d]
           a == StartCatchUp(actor[d], plan, burst, st, wiped /\ d = Host)
           sh1 == [sh EXCEPT !.cursor = plan.after, !.server = ViewOf(st),
                             !.needsCkpt = plan.fetch /\ @]
<1>1. /\ down[d] # <<>> /\ st.t = "state"
      /\ shared' = [shared EXCEPT ![d] = sh1]
      /\ actor' = [actor EXCEPT ![d] = a]
      /\ pcursor' = [pcursor EXCEPT ![d] = n]
      /\ up' = [up EXCEPT ![d] = Append(up[d], req) \o pushes]
      /\ down' = [down EXCEPT ![d] = Tail(down[d])]
      /\ UNCHANGED <<log, floor, ckpt, stray, late, docVars, http, post, flush, disk, outbox>>
  BY DEF RecvState, DownHead
<1>2. /\ Grows /\ DocsGrow /\ TypeOK /\ Len(log) \in Nat /\ floor \in Nat /\ floor <= Len(log)
      /\ sh \in Shared /\ actor[d] \in Actor /\ down[d] \in Seq(DownFrames)
      /\ up[d] \in Seq(UpFrames) /\ pcursor[d] \in Nat
  BY <1>1, LogTyped, GrowsKept, DocsKept, Entries DEF docVars
<1>3. /\ SharedIn(sh, log, Owned(d)) /\ ChTrue(down[d], log, floor, Owned(d))
      /\ UpTrue(up[d], Owned(d)) /\ pcursor[d] <= Len(log)
  BY EntryTrue
<1>4. st \in State /\ st.seq \in Nat /\ st.seq <= floor /\ ChTrue(Tail(down[d]), log, floor, Owned(d))
      /\ Tail(down[d]) \in Seq(DownFrames)
  <2>1. st \in DownFrames /\ Tail(down[d]) \in Seq(DownFrames)
    BY <1>1, <1>2
  <2>2. st \in State
    BY <1>1, <2>1, StateHead
  <2>3. FrameIn(st, log, floor, Owned(d)) /\ ChTrue(Tail(down[d]), log, floor, Owned(d))
    BY <1>1, <1>2, <1>3, TailTrue
  <2>4. QED
    BY <1>1, <2>1, <2>2, <2>3 DEF FrameIn, State
<1>5. plan.after \in Nat /\ plan.after <= Len(log)
  <2>1. sh.cursor \in Nat /\ sh.cursor <= Len(log)
    BY <1>2, <1>3 DEF Shared, SharedIn
  <2>2. QED
    BY <1>2, <1>4, <2>1, PlanIn
<1>6. burst \in SUBSET Batches /\ burst \subseteq Owned(d)
  BY <1>2, <1>3 DEF Shared, SharedIn
<1>7. SharedTrue'
  <2>1. sh1.cursor = plan.after /\ sh1.pending = sh.pending
    BY <1>2 DEF Shared
  <2>2. SharedIn(sh1, log, Owned(d))
    BY <1>3, <1>5, <2>1 DEF SharedIn
  <2>3. shared \in [Devices -> Shared] /\ shared' \in [Devices -> Shared]
    BY <1>2 DEF TypeOK, ClientTypeOK
  <2>4. sh1 \in Shared
    BY <1>1, <2>3
  <2> HIDE DEF sh1
  <2>5. QED
    BY <1>1, <1>2, <2>2, <2>4, SetShared
<1>8. TargetsTrue'
  <2>1. a.target = st.seq
    BY <1>2 DEF StartCatchUp, Actor
  <2>2. actor \in [Devices -> Actor] /\ actor' \in [Devices -> Actor]
    BY <1>2 DEF TypeOK, ClientTypeOK
  <2>3. a \in Actor
    BY <1>1, <2>2
  <2> HIDE DEF a, st
  <2>4. QED
    BY <1>1, <1>2, <1>4, <2>1, <2>3, SetActor
<1>9. UpWritten'
  <2>1. req \in UpFrames /\ req.t # "push"
    <3>1. (actor[d].resumed /\ ~sh.needsCkpt) \in BOOLEAN
      OBVIOUS
    <3> HIDE DEF plan
    <3>2. QED
      BY <1>5, <3>1, UpFrameTypes DEF RowsReq
  <2> HIDE DEF req
  <2>2. Append(up[d], req) \in Seq(UpFrames) /\ UpTrue(Append(up[d], req), Owned(d))
    BY <1>2, <1>3, <2>1, UpSend
  <2> DEFINE ch == Append(up[d], req)
             f == PushFrame(burst)
  <2>3. UpTrue(ch \o pushes, Owned(d))
    <3>1. CASE burst = {}
      <4>1. ch \o pushes = ch
        BY <2>2, <3>1
      <4>2. QED
        BY <2>2, <4>1
    <3>2. CASE burst # {}
      <4>1. f \in UpFrames /\ f.batches = burst
        BY <1>6, <3>2, UpFrameTypes DEF PushFrame
      <4>2. pushes = <<f>>
        BY <3>2
      <4> HIDE DEF f, ch, pushes, burst
      <4>3. ch \o <<f>> = Append(ch, f)
        BY <2>2, <4>1, Concat DEF ch
      <4>4. UpTrue(Append(ch, f), Owned(d))
        BY <1>6, <2>2, <4>1, UpSend DEF ch
      <4>5. QED
        BY <4>2, <4>3, <4>4
    <3>3. QED
      BY <3>1, <3>2
  <2> HIDE DEF pushes, ch
  <2>4. QED
    BY <1>1, <1>2, <2>3, SetUp DEF ch
<1>10. DownTrue'
  BY <1>1, <1>2, <1>4, SetDown
<1>11. DisksTrue'
  <2>1. n \in Nat /\ n <= Len(log)
    BY <1>2, <1>3
  <2> HIDE DEF n
  <2>2. QED
    BY <1>1, <1>2, <2>1, GrownDocs
<1> HIDE DEF st, sh, contained, plan, burst, wiped, req, pushes, n, a, sh1
<1>12. QED
  BY <1>1, <1>2, <1>7, <1>8, <1>9, <1>10, <1>11, Kept DEF Roads, docVars

\* The checkpoint arrives.
LEMMA FetchCheckpointTrue ==
    ASSUME RoadsInv, TypeOK', NEW d \in Devices, FetchCheckpoint(d)
    PROVE  Roads'
<1> DEFINE n == Larger(pcursor[d], actor[d].target)
<1>1. /\ Import(d, ckpt.content)
      /\ pcursor' = [pcursor EXCEPT ![d] = n]
      /\ shared' = [shared EXCEPT ![d] = CaughtUpTo(shared[d], actor[d].target, actor[d].gap)]
      /\ actor' = [actor EXCEPT ![d].phase = "backfill"]
      /\ UNCHANGED <<log, floor, ckpt, stray, late, up, down, http, post, flush, disk, outbox>>
  BY DEF FetchCheckpoint, apply_checkpoint, roomVars
<1>2. /\ TypeOK /\ Roads /\ Len(log) \in Nat /\ floor \in Nat /\ floor <= Len(log)
      /\ ckpt.content \in SUBSET Batches /\ ckpt.content \subseteq written
      /\ shared \in [Devices -> Shared] /\ actor \in [Devices -> Actor] /\ pcursor[d] \in Nat
  BY LogTyped DEF TypeOK, RoomTypeOK, ClientTypeOK, Roads, CheckpointsWhole
<1>3. DocsClosed' /\ DocsGrow /\ UNCHANGED written
  BY <1>1, <1>2, ImportTrue
<1>4. Grows
  BY <1>1, <1>2, <1>3, GrowsKept
<1>5. /\ actor[d].target \in Nat /\ actor[d].target <= floor /\ actor[d].target <= Len(log)
      /\ shared[d].cursor \in Nat /\ shared[d].cursor <= Len(log)
      /\ shared[d].pending \subseteq Owned(d) /\ pcursor[d] <= Len(log)
  <2>1. /\ actor[d].target \in Nat /\ actor[d].target <= floor
        /\ shared[d].cursor \in Nat /\ shared[d].cursor <= Len(log)
        /\ shared[d].pending \subseteq Owned(d) /\ pcursor[d] <= Len(log)
    BY <1>2, EntryTrue DEF Actor, Shared, SharedIn
  <2>2. QED
    BY <1>2, <2>1
<1>6. SharedTrue'
  <2>1. /\ shared'[d].cursor = Larger(shared[d].cursor, actor[d].target)
        /\ shared'[d].pending = shared[d].pending
        /\ \A e \in Devices \ {d} : shared'[e] = shared[e]
    BY <1>1, <1>2 DEF CaughtUpTo, Shared
  <2>2. shared'[d].cursor <= Len(log)
    BY <1>2, <1>5, <2>1 DEF Larger
  <2>3. Owned(d)' = Owned(d)
    BY <1>3 DEF Owned
  <2>4. SharedIn(shared'[d], log', Owned(d)')
    BY <1>1, <1>5, <2>1, <2>2, <2>3 DEF SharedIn
  <2>5. QED
    BY <1>4, <2>1, <2>4, SharedAt
<1>7. TargetsTrue'
  BY <1>1, <1>2, <1>4, <1>5, ActorAt DEF Actor
<1>8. DisksTrue' /\ PostTrue'
  <2>1. n \in Nat /\ n <= Len(log)
    BY <1>2, <1>5, LargerIn
  <2> HIDE DEF n
  <2>2. QED
    BY <1>1, <1>3, <1>4, <2>1, GrownDocs
<1>9. QED
  BY <1>1, <1>3, <1>4, <1>6, <1>7, <1>8, Kept DEF Roads

\* One row on the socket.
LEMMA RecvRowTrue ==
    ASSUME RoadsInv, TypeOK', NEW d \in Devices, RecvRow(d)
    PROVE  Roads'
<1> DEFINE r == FirstRow(Head(down[d]).rows)
           ok == r.batch \in Applied(d, {r.batch})
           sh == RowAdvance(shared[d], r, ok)
           h == [http[d] EXCEPT !.gap = @ \/ (~ok /\ http[d].step = "fetch")]
           n == IF ok THEN Larger(pcursor[d], sh.cursor) ELSE pcursor[d]
<1>1. /\ down[d] # <<>> /\ Head(down[d]).t = "rows"
      /\ Import(d, {r.batch})
      /\ pcursor' = [pcursor EXCEPT ![d] = n]
      /\ maybe_repair_gap(d, sh, actor[d], h)
      /\ UNCHANGED <<log, floor, ckpt, stray, late, post, flush, disk, outbox>>
  BY DEF RecvRow, DownHead
<1>2. /\ TypeOK /\ Roads /\ log \in Seq(Batches) /\ Len(log) \in Nat /\ floor \in Nat /\ floor <= Len(log)
      /\ shared[d] \in Shared /\ http[d] \in Http /\ actor[d] \in Actor
      /\ down[d] \in Seq(DownFrames) /\ pcursor[d] \in Nat
  BY LogTyped, Entries
<1>3. /\ SharedIn(shared[d], log, Owned(d)) /\ HttpIn(http[d], log, floor, Owned(d))
      /\ actor[d].target <= floor /\ ChTrue(down[d], log, floor, Owned(d)) /\ pcursor[d] <= Len(log)
  BY EntryTrue
<1>4. r \in Row /\ RowIn(r, log)
  BY <1>1, <1>2, <1>3, AfterRowTrue
<1> HIDE DEF r
<1>5. r.seq \in Nat /\ r.seq <= Len(log) /\ {r.batch} \in SUBSET Batches /\ {r.batch} \subseteq written
  <2>1. r.seq \in 1 .. Len(log) /\ r.batch = log[r.seq]
    BY <1>4 DEF RowIn
  <2>2. r.batch \in Range(log)
    BY <1>2, <2>1 DEF Range
  <2>3. QED
    BY <1>2, <1>4, <2>1, <2>2 DEF Row, Roads, LogWritten
<1>6. DocsClosed' /\ DocsGrow /\ UNCHANGED written
  BY <1>1, <1>5, ImportTrue
<1>7. Grows
  BY <1>1, <1>2, <1>6, GrowsKept
<1> HIDE DEF ok
<1>8. ok \in BOOLEAN
  BY DEF ok
<1>9. sh \in Shared /\ sh.pending = shared[d].pending
      /\ (sh.cursor = shared[d].cursor \/ sh.cursor = Larger(shared[d].cursor, r.seq))
  <2>1. sh \in Shared
    BY <1>2, <1>4, <1>8, RowAdvanceType
  <2>2. sh.pending = shared[d].pending
    BY <1>2 DEF RowAdvance, Shared
  <2>3. sh.cursor = shared[d].cursor \/ sh.cursor = Larger(shared[d].cursor, r.seq)
    BY <1>2 DEF RowAdvance, Shared
  <2>4. QED
    BY <2>1, <2>2, <2>3
<1>10. shared[d].cursor \in Nat /\ shared[d].cursor <= Len(log)
  BY <1>2, <1>3 DEF Shared, SharedIn
<1>11. sh.cursor \in Nat /\ sh.cursor <= Len(log)
  BY <1>2, <1>5, <1>9, <1>10 DEF Larger
<1>12. SharedIn(sh, log, Owned(d))
  BY <1>3, <1>9, <1>11 DEF SharedIn
<1>13. h \in Http /\ HttpIn(h, log, floor, Owned(d))
  BY <1>2, <1>3, <1>8 DEF Http, HttpIn
<1>14. n \in Nat /\ n <= Len(log)
  BY <1>2, <1>3, <1>11, LargerIn
<1> HIDE DEF sh, h, n
<1>15. UpWritten' /\ DownTrue' /\ SharedTrue' /\ TargetsTrue' /\ HttpTrue'
  BY <1>1, <1>2, <1>3, <1>7, <1>9, <1>12, <1>13, RepairTrue
<1>16. DisksTrue' /\ PostTrue'
  BY <1>1, <1>6, <1>7, <1>14, GrownDocs
<1>17. QED
  BY <1>1, <1>6, <1>7, <1>15, <1>16, Kept DEF Roads

\* The cursor an acknowledgement leaves.
LEMMA AckAdvanceIn ==
    ASSUME NEW cursor \in Nat, NEW s \in Nat, NEW n \in Nat, cursor <= n, s <= n
    PROVE  AckAdvance(cursor, s) \in Nat /\ AckAdvance(cursor, s) <= n
BY DEF AckAdvance, Larger

\* A granted batch does not move the cursor.
LEMMA QuotaGrantCursor ==
    ASSUME NEW sh \in Shared, NEW left
    PROVE  QuotaGrant(sh, left).cursor = sh.cursor
BY DEF QuotaGrant, Shared

\* An acknowledgement on the socket.
LEMMA RecvAckTrue ==
    ASSUME RoadsInv, TypeOK', NEW d \in Devices, RecvAck(d)
    PROVE  Roads'
<1> DEFINE f == Head(down[d])
           old == shared[d]
           left == old.pending \ {f.batch}
           grant == QuotaGrant(old, left)
           sh == [grant EXCEPT !.pending = left,
                               !.cursor = AckAdvance(@, f.seq),
                               !.gapRepair = @ \/ f.seq > old.cursor + 1]
           n == Larger(pcursor[d], sh.cursor)
<1>1. /\ down[d] # <<>> /\ f.t = "ack"
      /\ outbox' = [outbox EXCEPT ![d] = @ \ {f.batch}]
      /\ pcursor' = [pcursor EXCEPT ![d] = n]
      /\ maybe_repair_gap(d, sh, actor[d], http[d])
      /\ UNCHANGED <<log, floor, ckpt, stray, late, docVars, post, flush, disk>>
  BY DEF RecvAck, DownHead, acknowledge_chat_update
<1>2. /\ TypeOK /\ log \in Seq(Batches) /\ Len(log) \in Nat /\ floor \in Nat
      /\ old \in Shared /\ http[d] \in Http /\ actor[d] \in Actor
      /\ down[d] \in Seq(DownFrames) /\ pcursor[d] \in Nat
      /\ outbox \in [Devices -> SUBSET Batches]
  BY LogTyped, Entries DEF TypeOK, ClientTypeOK
<1>3. /\ SharedIn(old, log, Owned(d)) /\ HttpIn(http[d], log, floor, Owned(d))
      /\ actor[d].target <= floor /\ ChTrue(down[d], log, floor, Owned(d)) /\ pcursor[d] <= Len(log)
  BY EntryTrue
<1>4. f.batch \in Batches /\ f.seq \in Nat /\ f.seq <= Len(log)
  <2>1. f \in DownFrames /\ FrameIn(f, log, floor, Owned(d))
    BY <1>1, <1>2, <1>3, TailTrue
  <2>2. QED
    BY <1>1, <1>2, <2>1, AckHead DEF FrameIn, RowIn
<1> HIDE DEF f
<1>5. Grows /\ DocsGrow
  BY <1>1, <1>2, GrowsKept, DocsKept DEF docVars
<1>6. grant \in Shared /\ grant.cursor = old.cursor
  BY <1>2, QuotaGrantType, QuotaGrantCursor
<1>7. old.cursor \in Nat /\ old.cursor <= Len(log) /\ left \in SUBSET Batches /\ left \subseteq Owned(d)
  BY <1>2, <1>3 DEF Shared, SharedIn
<1> HIDE DEF grant, left, old
<1>8. AckAdvance(grant.cursor, f.seq) \in Nat /\ AckAdvance(grant.cursor, f.seq) <= Len(log)
  BY <1>2, <1>4, <1>6, <1>7, AckAdvanceIn
<1>9. sh \in Shared /\ sh.pending = left /\ sh.cursor = AckAdvance(grant.cursor, f.seq)
  BY <1>4, <1>6, <1>7, <1>8 DEF Shared
<1>10. SharedIn(sh, log, Owned(d))
  BY <1>7, <1>8, <1>9 DEF SharedIn
<1>11. n \in Nat /\ n <= Len(log)
  BY <1>2, <1>3, <1>8, <1>9, LargerIn
<1> HIDE DEF sh, n
<1>12. UpWritten' /\ DownTrue' /\ SharedTrue' /\ TargetsTrue' /\ HttpTrue'
  BY <1>1, <1>2, <1>3, <1>5, <1>9, <1>10, RepairTrue
<1>13. \A e \in Devices : outbox'[e] \subseteq outbox[e]
  BY <1>1, <1>2
<1>14. DisksTrue' /\ PostTrue'
  BY <1>1, <1>5, <1>11, <1>13, GrownDocs
<1>15. QED
  BY <1>1, <1>5, <1>12, <1>14, Kept DEF Roads

\* A refusal, or ROWS_DONE.
LEMMA RecvQuotaDoneTrue ==
    ASSUME RoadsInv, TypeOK', NEW d \in Devices, RecvQuota(d) \/ RecvDone(d)
    PROVE  Roads'
<1>1. /\ down[d] # <<>>
      /\ UNCHANGED <<log, floor, ckpt, stray, late, docVars, post, diskVars>>
  BY DEF RecvQuota, RecvDone, DownHead
<1>2. /\ TypeOK /\ shared[d] \in Shared /\ http[d] \in Http /\ actor[d] \in Actor
      /\ SharedIn(shared[d], log, Owned(d)) /\ HttpIn(http[d], log, floor, Owned(d))
      /\ actor[d].target <= floor
  BY LogTyped, Entries, EntryTrue
<1>3. Grows
  BY <1>1, <1>2, GrowsKept DEF docVars
<1>4. UpWritten' /\ DownTrue' /\ SharedTrue' /\ TargetsTrue' /\ HttpTrue'
  <2>1. CASE RecvQuota(d)
    <3> DEFINE sh == [shared[d] EXCEPT !.quotaBlocked = TRUE, !.retryAt = TRUE]
    <3>1. sh \in Shared /\ SharedIn(sh, log, Owned(d))
      BY <1>2 DEF Shared, SharedIn
    <3>2. maybe_repair_gap(d, sh, actor[d], http[d])
      BY <2>1 DEF RecvQuota
    <3> HIDE DEF sh
    <3>3. QED
      BY <1>1, <1>2, <1>3, <3>1, <3>2, RepairTrue
  <2>2. CASE RecvDone(d)
    <3> DEFINE act == [actor[d] EXCEPT !.phase = "live", !.resumed = TRUE]
    <3>1. act \in Actor /\ act.target <= floor
      BY <1>2 DEF Actor
    <3>2. maybe_repair_gap(d, shared[d], act, http[d])
      BY <2>2 DEF RecvDone
    <3> HIDE DEF act
    <3>3. QED
      BY <1>1, <1>2, <1>3, <3>1, <3>2, RepairTrue
  <2>3. QED
    BY <2>1, <2>2
<1>5. QED
  BY <1>1, <1>3, <1>4, Kept DEF Roads, docVars

\* Pushing what this session has not sent yet, or the head batch.
LEMMA PushesTrue ==
    ASSUME RoadsInv, TypeOK', NEW d \in Devices, push_pending(d) \/ push_head(d)
    PROVE  Roads'
<1>1. UNCHANGED <<log, floor, ckpt, stray, late, down, docVars, http, post, diskVars>>
  BY DEF push_pending, push_head
<1>2. /\ TypeOK /\ shared[d] \in Shared /\ up[d] \in Seq(UpFrames)
      /\ SharedIn(shared[d], log, Owned(d)) /\ UpTrue(up[d], Owned(d))
      /\ shared \in [Devices -> Shared] /\ actor \in [Devices -> Actor]
  BY LogTyped, Entries, EntryTrue DEF TypeOK, ClientTypeOK
<1>3. Grows
  BY <1>1, <1>2, GrowsKept DEF docVars
<1>4. shared[d].pending \in SUBSET Batches /\ shared[d].pending \subseteq Owned(d)
  BY <1>2 DEF Shared, SharedIn
<1>5. ASSUME NEW S \in SUBSET shared[d].pending, S # {}
      PROVE  UpTrue(Append(up[d], PushFrame(S)), Owned(d))
  <2> DEFINE f == PushFrame(S)
  <2>1. S \in SUBSET Batches
    BY <1>4
  <2>2. f \in UpFrames /\ f.batches \subseteq Owned(d)
    BY <1>4, <1>5, <2>1, UpFrameTypes DEF PushFrame
  <2> HIDE DEF f
  <2>3. UpTrue(Append(up[d], f), Owned(d))
    BY <1>2, <2>2, UpSend
  <2>4. QED
    BY <2>3 DEF f
<1>6. CASE push_pending(d)
  <2> DEFINE new == shared[d].pending \ actor[d].inFlight
  <2>1. new # {} /\ up' = [up EXCEPT ![d] = Append(up[d], PushFrame(new))]
        /\ UNCHANGED shared
    BY <1>6 DEF push_pending
  <2>2. new \in SUBSET shared[d].pending
    OBVIOUS
  <2> HIDE DEF new
  <2>3. UpWritten'
    BY <1>3, <1>5, <2>1, <2>2, SetUp
  <2>4. actor'[d].target = actor[d].target /\ \A e \in Devices \ {d} : actor'[e] = actor[e]
    BY <1>2, <1>6 DEF push_pending, Actor
  <2>5. TargetsTrue'
    BY <1>1, <1>3, <2>4, EntryTrue, ActorAt
  <2>6. QED
    BY <1>1, <1>3, <2>1, <2>3, <2>5, Kept DEF Roads, docVars
<1>7. CASE push_head(d)
  <2> DEFINE S == {First(shared[d].pending)}
  <2>1. /\ \/ UNCHANGED up
           \/ shared[d].pending # {} /\ up' = [up EXCEPT ![d] = Append(up[d], PushFrame(S))]
        /\ shared' = [shared EXCEPT ![d].retryAt = FALSE]
        /\ UNCHANGED actor
    BY <1>2, <1>7 DEF push_head, TypeOK, RoomTypeOK
  <2>2. UpWritten'
    <3>1. CASE UNCHANGED up
      BY <1>3, <3>1, Kept
    <3>2. CASE shared[d].pending # {} /\ up' = [up EXCEPT ![d] = Append(up[d], PushFrame(S))]
      <4>1. S \in SUBSET shared[d].pending /\ S # {}
        BY <1>4, <3>2, FirstIn
      <4> HIDE DEF S
      <4>2. QED
        BY <1>3, <1>5, <3>2, <4>1, SetUp
    <3>3. QED
      BY <2>1, <3>1, <3>2
  <2>3. SharedTrue'
    <3>1. /\ shared'[d].cursor = shared[d].cursor /\ shared'[d].pending = shared[d].pending
          /\ \A e \in Devices \ {d} : shared'[e] = shared[e]
      BY <1>2, <2>1 DEF Shared
    <3>2. SharedIn(shared'[d], log', Owned(d)')
      BY <1>1, <1>2, <3>1 DEF SharedIn, Owned, docVars
    <3>3. QED
      BY <1>3, <3>1, <3>2, SharedAt
  <2>4. QED
    BY <1>1, <1>3, <2>1, <2>2, <2>3, Kept DEF Roads, docVars
<1>8. QED
  BY <1>6, <1>7

\* A socket that dies, with or without pushes that linger.
LEMMA DropTrue ==
    ASSUME RoadsInv, TypeOK', NEW d \in Devices, Drop(d)
    PROVE  Roads'
<1> DEFINE sent == UNION {f.batches : f \in {g \in Range(up[d]) : g.t = "push"}}
<1>1. /\ stray' = stray \/ stray' = stray \cup sent
      /\ HangUp(d, shared[d], http[d])
      /\ UNCHANGED <<log, floor, ckpt, late, docVars, post, diskVars>>
  BY DEF Drop
<1>2. /\ TypeOK /\ Roads /\ shared[d] \in Shared /\ http[d] \in Http /\ up[d] \in Seq(UpFrames)
      /\ SharedIn(shared[d], log, Owned(d)) /\ HttpIn(http[d], log, floor, Owned(d))
      /\ UpTrue(up[d], Owned(d))
  BY LogTyped, Entries, EntryTrue
<1>3. Grows
  BY <1>1, <1>2, GrowsKept DEF docVars
<1>4. sent \subseteq written
  <2>1. \A f \in Range(up[d]) : f.t = "push" => f.batches \subseteq Owned(d)
    BY <1>2 DEF UpTrue, Range
  <2>2. Owned(d) \subseteq written
    BY DEF Owned
  <2>3. QED
    BY <2>1, <2>2
<1> HIDE DEF sent
<1>5. LogWritten'
  BY <1>1, <1>2, <1>4 DEF Roads, LogWritten, docVars
<1>6. UpWritten' /\ DownTrue' /\ SharedTrue' /\ TargetsTrue' /\ HttpTrue'
  BY <1>1, <1>2, <1>3, HangUpTrue
<1>7. QED
  BY <1>1, <1>3, <1>5, <1>6, Kept DEF Roads, docVars

\* A dial or an HTTPS request that fails.
LEMMA FailsTrue ==
    ASSUME RoadsInv, TypeOK', NEW d \in Devices, DialFails(d) \/ HttpFails(d)
    PROVE  Roads'
<1>1. UNCHANGED <<log, floor, ckpt, stray, late, up, down, docVars, shared, actor, post, diskVars>>
  BY DEF DialFails, HttpFails
<1>2. /\ TypeOK /\ shared[d] \in Shared /\ http[d] \in Http /\ log \in Seq(Batches) /\ floor \in Nat
      /\ SharedIn(shared[d], log, Owned(d)) /\ HttpIn(http[d], log, floor, Owned(d))
      /\ http \in [Devices -> Http]
  BY LogTyped, Entries, EntryTrue DEF TypeOK, ClientTypeOK
<1>3. Grows
  BY <1>1, <1>2, GrowsKept DEF docVars
<1>4. PICK h : http' = [http EXCEPT ![d] = h] /\ HttpIn(h, log, floor, Owned(d))
  <2>1. CASE DialFails(d)
    <3>1. http' = [http EXCEPT ![d] = spawn_offline_sync(d, http[d], shared[d].pending)]
      BY <2>1 DEF DialFails
    <3>2. HttpIn(spawn_offline_sync(d, http[d], shared[d].pending), log, floor, Owned(d))
      BY <1>2, SpawnIn DEF SharedIn
    <3>3. QED
      BY <3>1, <3>2
  <2>2. CASE HttpFails(d)
    <3> DEFINE g == [http[d] EXCEPT !.step = "push", !.todo = {}]
    <3>1. http' = [http EXCEPT ![d] = g] \/ http' = [http EXCEPT ![d] = IdleHttp]
      BY <2>2 DEF HttpFails
    <3>2. HttpIn(g, log, floor, Owned(d))
      BY <1>2 DEF HttpIn, Http
    <3>3. HttpIn(IdleHttp, log, floor, Owned(d))
      BY <1>2, SpawnIn DEF SharedIn
    <3> HIDE DEF g
    <3>4. QED
      BY <3>1, <3>2, <3>3
  <2>3. QED
    BY <2>1, <2>2
<1>5. HttpTrue'
  <2>1. HttpIn(h, log', floor', Owned(d)) /\ UNCHANGED floor
    BY <1>1, <1>4
  <2>2. QED
    BY <1>3, <1>4, <2>1, SetHttp
<1>6. QED
  BY <1>1, <1>3, <1>5, Kept DEF Roads, docVars

\* A restarted document is what the disk kept, causally closed again.
LEMMA CrashTrue ==
    ASSUME RoadsInv, TypeOK', NEW d \in Devices, Crash(d)
    PROVE  Roads'
<1> DEFINE kept == Reopened(d)
           whole == {b \in kept : deps[b] \subseteq kept}
           S == pending_updates(d)
           a == DownActor(FALSE, TRUE, FALSE)
           h == spawn_offline_sync(d, IdleHttp, S)
           sh == NewShared(disk[d].cursor, S)
<1>1. /\ doc' = [doc EXCEPT ![d] = whole] /\ parked' = [parked EXCEPT ![d] = kept \ whole]
      /\ shared' = [shared EXCEPT ![d] = sh] /\ actor' = [actor EXCEPT ![d] = a]
      /\ http' = [http EXCEPT ![d] = h] /\ post' = [post EXCEPT ![d] = IdlePost]
      /\ pcursor' = [pcursor EXCEPT ![d] = disk[d].cursor]
      /\ flush' = [flush EXCEPT ![d] = -1]
      /\ up' = [up EXCEPT ![d] = <<>>] /\ down' = [down EXCEPT ![d] = <<>>]
      /\ UNCHANGED <<log, floor, ckpt, stray, late, written, deps, disk, outbox>>
  BY DEF Crash
<1>2. /\ TypeOK /\ Roads /\ log \in Seq(Batches) /\ Len(log) \in Nat /\ floor \in Nat
      /\ disk[d] \in [content : SUBSET Batches, cursor : Nat] /\ outbox[d] \in SUBSET Batches
      /\ doc \in [Devices -> SUBSET Batches] /\ parked \in [Devices -> SUBSET Batches]
      /\ shared \in [Devices -> Shared] /\ actor \in [Devices -> Actor]
      /\ http \in [Devices -> Http] /\ post \in [Devices -> Post]
      /\ pcursor \in [Devices -> Nat] /\ flush \in [Devices -> Nat \cup {-1}]
      /\ written \subseteq Batches
  BY LogTyped, Entries DEF TypeOK, ClientTypeOK
<1>3. Grows
  BY <1>1, <1>2, GrowsKept
<1>4. /\ disk[d].cursor <= Len(log) /\ disk[d].content \subseteq Held(d)
      /\ outbox[d] \subseteq Held(d) \cap Owned(d)
  BY EntryTrue
<1>5. kept \subseteq Held(d) /\ Held(d) \subseteq written
  BY <1>2, <1>4 DEF Reopened, Held, Roads, DocsClosed
<1>6. S \in SUBSET Batches /\ S \subseteq Owned(d)
  BY <1>2, <1>4 DEF pending_updates
<1>7. DocsClosed'
  <2>1. \A b \in whole : deps[b] \subseteq whole
    <3> SUFFICES ASSUME NEW b \in whole, NEW c \in deps[b] PROVE c \in whole
      OBVIOUS
    <3>1. b \in Batches /\ c \in kept /\ deps[b] \subseteq kept
      BY <1>2, <1>5
    <3>2. deps[c] \subseteq deps[b]
      BY <1>2, <3>1 DEF Roads, DocsClosed
    <3>3. QED
      BY <3>1, <3>2
  <2>2. whole \subseteq kept
    OBVIOUS
  <2> HIDE DEF kept, whole
  <2>3. \A e \in Devices : \A b \in doc'[e] : deps[b] \subseteq doc'[e]
    BY <1>1, <1>2, <2>1 DEF Roads, DocsClosed
  <2>4. \A e \in Devices : doc'[e] \cup parked'[e] \subseteq written
    BY <1>1, <1>2, <1>5, <2>2 DEF Roads, DocsClosed
  <2>5. QED
    BY <1>1, <1>2, <2>3, <2>4 DEF Roads, DocsClosed
<1>8. SharedTrue'
  <2>1. sh.cursor = disk[d].cursor /\ sh.pending = S
    BY DEF NewShared
  <2>2. sh \in Shared /\ SharedIn(sh, log, Owned(d))
    <3>1. sh \in Shared
      BY <1>2, <1>6, IdleTypes
    <3>2. SharedIn(sh, log, Owned(d))
      BY <1>4, <1>6, <2>1 DEF SharedIn
    <3>3. QED
      BY <3>1, <3>2
  <2> HIDE DEF sh
  <2>3. QED
    BY <1>1, <1>3, <2>2, SetShared
<1>9. TargetsTrue'
  <2>1. a.target = 0
    BY DEF DownActor
  <2>2. a \in Actor
    BY IdleTypes
  <2> HIDE DEF a
  <2>3. a.target <= floor
    BY <1>2, <2>1
  <2>4. actor' = [actor EXCEPT ![d] = a]
    BY <1>1
  <2>5. QED
    BY <1>3, <2>2, <2>3, <2>4, SetActor
<1>10. HttpTrue'
  <2>1. HttpIn(IdleHttp, log, floor, Owned(d))
    BY <1>2 DEF HttpIn, IdleHttp, NoState
  <2>2. h \in Http /\ HttpIn(h, log, floor, Owned(d))
    BY <1>2, <1>6, <2>1, SpawnIn, SpawnType, IdleTypes
  <2> HIDE DEF h
  <2>3. QED
    BY <1>1, <1>3, <2>2, SetHttpOld
<1>11. PostTrue'
  <2>1. PostIn(IdlePost, log', doc'[d], written')
    BY DEF PostIn, IdlePost
  <2>2. post'[d] = IdlePost /\ \A e \in Devices \ {d} : post'[e] = post[e] /\ doc[e] \subseteq doc'[e]
    BY <1>1, <1>2
  <2>3. QED
    BY <1>3, <2>1, <2>2, PostAt
<1>12. UpWritten' /\ DownTrue'
  <2>1. UpTrue(<<>>, Owned(d)) /\ ChTrue(<<>>, log, floor, Owned(d)) /\ <<>> \in Seq(DownFrames)
    BY DEF UpTrue, ChTrue
  <2>2. QED
    BY <1>1, <1>3, <2>1, SetUp, SetDown
<1>13. DisksTrue'
  <2>1. whole \subseteq kept
    OBVIOUS
  <2> HIDE DEF whole
  <2>2. Held(d)' = kept
    BY <1>1, <1>2, <2>1 DEF Held
  <2>3. \A e \in Devices \ {d} : Held(e)' = Held(e)
    BY <1>1, <1>2 DEF Held
  <2>4. \A e \in Devices : /\ disk[e].content \subseteq Held(e)'
                           /\ outbox[e] \subseteq Held(e)' \cap Owned(e)'
    <3>1. \A e \in Devices : Owned(e)' = Owned(e)
      BY <1>1 DEF Owned
    <3>2. disk[d].content \subseteq kept /\ outbox[d] \subseteq kept
      BY DEF kept, Reopened
    <3>3. \A e \in Devices : /\ disk[e].content \subseteq Held(e)
                             /\ outbox[e] \subseteq Held(e) \cap Owned(e)
      BY EntryTrue
    <3> HIDE DEF kept
    <3>4. QED
      BY <1>1, <2>2, <2>3, <3>1, <3>2, <3>3
  <2>5. \A e \in Devices : pcursor'[e] <= Len(log) /\ flush'[e] <= Len(log) /\ disk[e].cursor <= Len(log)
    <3>1. -1 <= Len(log)
      BY <1>2
    <3>2. QED
      BY <1>1, <1>2, <3>1, EntryTrue
  <2>6. QED
    BY <1>1, <2>4, <2>5 DEF DisksTrue
<1> HIDE DEF kept, whole, S, a, h, sh
<1>14. QED
  BY <1>1, <1>3, <1>7, <1>8, <1>9, <1>10, <1>11, <1>12, <1>13, Kept DEF Roads

-----------------------------------------------------------------------------
(* The HTTPS task.                                                         *)

\* Posting a queued batch.
LEMMA HttpPushTrue ==
    ASSUME RoadsInv, TypeOK', NEW d \in Devices, HttpPush(d)
    PROVE  Roads'
<1> DEFINE b == First(http[d].todo)
           h == [http[d] EXCEPT !.step = "ack", !.ack = AckSeq(b)]
<1>1. /\ http[d].todo # {} /\ postRow(b)
      /\ http' = [http EXCEPT ![d] = h]
      /\ UNCHANGED <<stray, docVars, shared, actor, post, diskVars>>
  BY DEF HttpPush
<1>2. /\ TypeOK /\ http[d] \in Http /\ HttpIn(http[d], log, floor, Owned(d))
      /\ log \in Seq(Batches) /\ floor \in Nat
  BY LogTyped, Entries, EntryTrue
<1>3. http[d].todo \in SUBSET Batches
  BY <1>2 DEF Http
<1>4. b \in http[d].todo
  BY <1>1, <1>3, FirstIn
<1>5. b \in written
  BY <1>2, <1>4 DEF HttpIn, Owned
<1>6. /\ Grows /\ Range(log') \subseteq written /\ UNCHANGED floor
      /\ CheckpointsWhole' /\ UpWritten' /\ DownTrue'
      /\ RowIn([seq |-> AckSeq(b), batch |-> b], log')
  BY <1>1, <1>5, PostRowTrue DEF docVars
<1>7. LogWritten'
  BY <1>1, <1>6, LogTyped DEF LogWritten, Roads, docVars
<1>8. HttpTrue'
  <2>1. HttpIn(http[d], log', floor', Owned(d))
    BY <1>2, <1>6, GrowTypes, ClientMono
  <2>2. h.ack = AckSeq(b) /\ h.todo = http[d].todo /\ h.cur = http[d].cur /\ h.st = http[d].st
        /\ h.rows = http[d].rows
    BY <1>2 DEF Http
  <2>3. HttpIn(h, log', floor', Owned(d))
    BY <1>1, <1>6, <2>1, <2>2 DEF HttpIn
  <2> HIDE DEF h
  <2>4. QED
    BY <1>1, <1>6, <2>3, SetHttp
<1>9. QED
  BY <1>1, <1>6, <1>7, <1>8, Kept DEF Roads, docVars

\* The answer to a posted batch.
LEMMA HttpAckTrue ==
    ASSUME RoadsInv, TypeOK', NEW d \in Devices, HttpAck(d)
    PROVE  Roads'
<1> DEFINE b == First(http[d].todo)
           cursor == AckAdvance(shared[d].cursor, http[d].ack)
           n == Larger(pcursor[d], cursor)
<1>1. /\ http[d].step = "ack"
      /\ outbox' = [outbox EXCEPT ![d] = @ \ {b}]
      /\ shared' = [shared EXCEPT ![d].pending = @ \ {b}, ![d].cursor = cursor]
      /\ pcursor' = [pcursor EXCEPT ![d] = n]
      /\ http' = [http EXCEPT ![d].step = "push", ![d].todo = @ \ {b}]
      /\ UNCHANGED <<log, floor, ckpt, stray, late, up, down, docVars, actor, post, flush, disk>>
  BY DEF HttpAck, acknowledge_chat_update, roomVars
<1>2. /\ TypeOK /\ http[d] \in Http /\ HttpIn(http[d], log, floor, Owned(d))
      /\ shared[d] \in Shared /\ SharedIn(shared[d], log, Owned(d))
      /\ Len(log) \in Nat /\ pcursor[d] \in Nat /\ pcursor[d] <= Len(log)
      /\ outbox \in [Devices -> SUBSET Batches] /\ shared \in [Devices -> Shared]
      /\ http \in [Devices -> Http]
  BY LogTyped, Entries, EntryTrue DEF TypeOK, ClientTypeOK
<1>3. Grows /\ DocsGrow
  BY <1>1, <1>2, GrowsKept, DocsKept DEF docVars
<1>4. http[d].ack \in Nat /\ http[d].ack <= Len(log)
  BY <1>1, <1>2 DEF HttpIn, RowIn, Http
<1>5. shared[d].cursor \in Nat /\ shared[d].cursor <= Len(log) /\ shared[d].pending \subseteq Owned(d)
  BY <1>2 DEF Shared, SharedIn
<1>6. cursor \in Nat /\ cursor <= Len(log)
  BY <1>2, <1>4, <1>5, AckAdvanceIn
<1> HIDE DEF cursor, b
<1>7. n \in Nat /\ n <= Len(log)
  BY <1>2, <1>6 DEF Larger
<1> HIDE DEF n
<1>8. SharedTrue'
  <2>1. /\ shared'[d].cursor = cursor /\ shared'[d].pending = shared[d].pending \ {b}
        /\ \A e \in Devices \ {d} : shared'[e] = shared[e]
    BY <1>1, <1>2 DEF Shared
  <2>2. SharedIn(shared'[d], log', Owned(d)')
    BY <1>1, <1>5, <1>6, <2>1 DEF SharedIn, Owned, docVars
  <2>3. QED
    BY <1>3, <2>1, <2>2, SharedAt
<1>9. HttpTrue'
  <2>1. /\ http'[d].step = "push" /\ http'[d].todo = http[d].todo \ {b}
        /\ http'[d].cur = http[d].cur /\ http'[d].st = http[d].st /\ http'[d].rows = http[d].rows
        /\ \A e \in Devices \ {d} : http'[e] = http[e]
    BY <1>1, <1>2 DEF Http
  <2>2. Owned(d)' = Owned(d)
    BY <1>1 DEF Owned, docVars
  <2>3. HttpIn(http'[d], log', floor', Owned(d)')
    BY <1>1, <1>2, <2>1, <2>2 DEF HttpIn
  <2>4. QED
    BY <1>3, <2>1, <2>3, HttpAt
<1>10. \A e \in Devices : outbox'[e] \subseteq outbox[e]
  BY <1>1, <1>2
<1>11. DisksTrue' /\ PostTrue'
  BY <1>1, <1>3, <1>7, <1>10, GrownDocs
<1>12. QED
  BY <1>1, <1>3, <1>8, <1>9, <1>11, Kept DEF Roads, docVars

\* Asking for the rows above the cursor.
LEMMA HttpPullTrue ==
    ASSUME RoadsInv, TypeOK', NEW d \in Devices, HttpPull(d)
    PROVE  Roads'
<1> DEFINE rows == rowsAfter(shared[d].cursor, {})
           h == [http[d] EXCEPT !.step = "pull", !.cur = shared[d].cursor,
                                !.st = logStats, !.rows = rows]
<1>1. /\ http' = [http EXCEPT ![d] = h]
      /\ UNCHANGED <<log, floor, ckpt, stray, late, up, down, docVars, shared, actor, post, diskVars>>
  BY DEF HttpPull, roomVars
<1>2. /\ TypeOK /\ RoomTypeOK /\ http[d] \in Http /\ HttpIn(http[d], log, floor, Owned(d))
      /\ shared[d] \in Shared /\ SharedIn(shared[d], log, Owned(d)) /\ floor \in Nat
  BY LogTyped, Entries, EntryTrue
<1>3. Grows
  BY <1>1, <1>2, GrowsKept DEF docVars
<1>4. shared[d].cursor \in Nat /\ shared[d].cursor <= Len(log)
  BY <1>2 DEF Shared, SharedIn
<1>5. \A r \in rows : RowIn(r, log)
  BY <1>2, <1>4, RowsAfterTrue
<1> HIDE DEF rows
<1>6. h.step = "pull" /\ h.cur = shared[d].cursor /\ h.st = logStats /\ h.rows = rows
      /\ h.todo = http[d].todo
  BY <1>2 DEF Http
<1>7. logStats.seq <= floor
  BY <1>2 DEF logStats
<1>8. HttpIn(h, log', floor', Owned(d))
  BY <1>1, <1>2, <1>4, <1>5, <1>6, <1>7 DEF HttpIn
<1> HIDE DEF h
<1>9. HttpTrue'
  BY <1>1, <1>3, <1>8, SetHttp
<1>10. QED
  BY <1>1, <1>3, <1>9, Kept DEF Roads, docVars

\* The base of an HTTPS catch-up is a cursor the log has reached.
LEMMA HttpBaseIn ==
    ASSUME NEW sh \in Shared, NEW h \in Http, NEW lg \in Seq(Batches), NEW n \in Nat, NEW W,
           n <= Len(lg), SharedIn(sh, lg, W), HttpIn(h, lg, n, W)
    PROVE  SharedIn(HttpBase(sh, h), lg, W)
<1> DEFINE plan == plan_catch_up(h.cur, h.st, h.step = "pull")
<1>1. /\ Len(lg) \in Nat /\ h.cur \in Nat /\ h.st \in State /\ h.cur <= Len(lg)
      /\ h.st.seq \in Nat /\ h.st.seq <= n /\ sh.cursor \in Nat /\ sh.cursor <= Len(lg)
  BY DEF Http, State, HttpIn, Shared, SharedIn
<1>2. h.st.seq <= Len(lg)
  BY <1>1
<1>3. plan.after \in Nat /\ plan.after <= Len(lg)
  BY <1>1, <1>2, PlanIn
<1>4. /\ HttpBase(sh, h).pending = sh.pending
      /\ HttpBase(sh, h).cursor = plan.after \/ HttpBase(sh, h).cursor = Larger(sh.cursor, plan.after)
  <2> HIDE DEF plan
  <2>1. HttpBase(sh, h) = [sh EXCEPT
            !.cursor = IF sh.cursor > h.st.head THEN plan.after ELSE Larger(sh.cursor, plan.after),
            !.needsCkpt = @ /\ h.gap]
    BY DEF HttpBase, plan, Shared
  <2>2. QED
    BY <2>1 DEF Shared
<1> HIDE DEF plan
<1>5. HttpBase(sh, h).cursor <= Len(lg)
  BY <1>1, <1>3, <1>4 DEF Larger
<1>6. QED
  BY <1>4, <1>5 DEF SharedIn

\* Reading the response.
LEMMA HttpStateTrue ==
    ASSUME RoadsInv, TypeOK', NEW d \in Devices, HttpState(d)
    PROVE  Roads'
<1> DEFINE h == http[d]
           view == [shared[d] EXCEPT !.server = ViewOf(h.st)]
           stale == shared[d].cursor < h.cur /\ h.cur <= h.st.head
           n == IF ~stale /\ h.cur > h.st.head THEN 0 ELSE pcursor[d]
           h1 == [h EXCEPT !.step = "apply"]
           h2 == [h EXCEPT !.step = "fetch", !.gap = FALSE]
<1>1. /\ \/ http' = [http EXCEPT ![d] = IdleHttp] /\ shared' = [shared EXCEPT ![d] = view]
         \/ http' = [http EXCEPT ![d] = h1] /\ shared' = [shared EXCEPT ![d] = HttpBase(view, h)]
         \/ http' = [http EXCEPT ![d] = h2] /\ shared' = [shared EXCEPT ![d] = view]
      /\ pcursor' = [pcursor EXCEPT ![d] = n]
      /\ UNCHANGED <<log, floor, ckpt, stray, late, up, down, docVars, actor, post, flush, disk, outbox>>
  BY DEF HttpState, roomVars
<1>2. /\ TypeOK /\ h \in Http /\ HttpIn(h, log, floor, Owned(d))
      /\ shared[d] \in Shared /\ SharedIn(shared[d], log, Owned(d)) /\ floor \in Nat
      /\ log \in Seq(Batches) /\ Len(log) \in Nat /\ floor <= Len(log)
      /\ pcursor[d] \in Nat /\ pcursor[d] <= Len(log)
  BY LogTyped, Entries, EntryTrue
<1>3. Grows /\ DocsGrow
  BY <1>1, <1>2, GrowsKept, DocsKept DEF docVars
<1>4. view \in Shared /\ SharedIn(view, log, Owned(d))
  <2>1. ViewOf(h.st) \in ServerView
    BY <1>2, ViewType DEF Http
  <2>2. QED
    BY <1>2, <2>1 DEF Shared, SharedIn
<1>5. n \in Nat /\ n <= Len(log)
  BY <1>2
<1>6. HttpIn(h1, log', floor', Owned(d)) /\ HttpIn(h2, log', floor', Owned(d))
  BY <1>1, <1>2 DEF HttpIn, Http
<1>7. HttpIn(IdleHttp, log', floor', Owned(d))
  BY <1>1, <1>2, SpawnIn DEF SharedIn
<1> HIDE DEF view, n, h1, h2, stale
<1>8. HttpBase(view, h) \in Shared /\ SharedIn(HttpBase(view, h), log, Owned(d))
  BY <1>2, <1>4, HttpBaseType, HttpBaseIn
<1>9. HttpTrue'
  BY <1>1, <1>3, <1>6, <1>7, SetHttp
<1>10. SharedTrue'
  BY <1>1, <1>3, <1>4, <1>8, SetShared
<1>11. DisksTrue'
  BY <1>1, <1>3, <1>5, GrownDocs
<1>12. QED
  BY <1>1, <1>3, <1>9, <1>10, <1>11, Kept DEF Roads, docVars

\* The checkpoint arrives over HTTPS.
LEMMA HttpFetchTrue ==
    ASSUME RoadsInv, TypeOK', NEW d \in Devices, HttpFetch(d)
    PROVE  Roads'
<1> DEFINE h == http[d]
           n == Larger(pcursor[d], h.st.seq)
           h1 == [h EXCEPT !.step = "apply"]
<1>1. /\ Import(d, ckpt.content)
      /\ pcursor' = [pcursor EXCEPT ![d] = n]
      /\ shared' = [shared EXCEPT ![d] = HttpBase(shared[d], h)]
      /\ http' = [http EXCEPT ![d] = h1]
      /\ UNCHANGED <<log, floor, ckpt, stray, late, up, down, actor, post, flush, disk, outbox>>
  BY DEF HttpFetch, apply_checkpoint, roomVars
<1>2. /\ TypeOK /\ h \in Http /\ HttpIn(h, log, floor, Owned(d))
      /\ shared[d] \in Shared /\ SharedIn(shared[d], log, Owned(d)) /\ floor \in Nat
      /\ log \in Seq(Batches) /\ Len(log) \in Nat /\ floor <= Len(log)
      /\ pcursor[d] \in Nat /\ pcursor[d] <= Len(log)
  BY LogTyped, Entries, EntryTrue
<1>3. ckpt.content \in SUBSET Batches /\ ckpt.content \subseteq written
  BY LogTyped DEF RoomTypeOK, Roads, CheckpointsWhole
<1>4. DocsClosed' /\ DocsGrow /\ UNCHANGED written
  BY <1>1, <1>3, ImportTrue
<1>5. Grows
  BY <1>1, <1>2, <1>4, GrowsKept
<1>6. n \in Nat /\ n <= Len(log)
  <2>1. h.st.seq \in Nat /\ h.st.seq <= floor
    BY <1>2 DEF Http, State, HttpIn
  <2>2. QED
    BY <1>2, <2>1 DEF Larger
<1>7. HttpIn(h1, log', floor', Owned(d))
  BY <1>1, <1>2 DEF HttpIn, Http
<1>8. HttpBase(shared[d], h) \in Shared /\ SharedIn(HttpBase(shared[d], h), log, Owned(d))
  BY <1>2, HttpBaseType, HttpBaseIn
<1> HIDE DEF n, h1
<1>9. HttpTrue'
  BY <1>1, <1>5, <1>7, SetHttp
<1>10. SharedTrue'
  BY <1>1, <1>5, <1>8, SetShared
<1>11. DisksTrue' /\ PostTrue'
  BY <1>1, <1>4, <1>5, <1>6, GrownDocs
<1>12. QED
  BY <1>1, <1>4, <1>5, <1>9, <1>10, <1>11, Kept DEF Roads

\* One row of the response.
LEMMA HttpRowTrue ==
    ASSUME RoadsInv, TypeOK', NEW d \in Devices, HttpRow(d)
    PROVE  Roads'
<1> DEFINE r == FirstRow(http[d].rows)
           ok == r.batch \in Applied(d, {r.batch})
           sh == RowAdvance(shared[d], r, ok)
           n == IF ok THEN Larger(pcursor[d], sh.cursor) ELSE pcursor[d]
<1>1. /\ http[d].step = "apply" /\ http[d].rows # {}
      /\ Import(d, {r.batch})
      /\ pcursor' = [pcursor EXCEPT ![d] = n]
      /\ shared' = [shared EXCEPT ![d] = sh]
      /\ actor' = [actor EXCEPT ![d].gap = @ \/ (~ok /\ actor[d].phase = "fetch")]
      /\ http' = [http EXCEPT ![d].rows = @ \ {r}]
      /\ UNCHANGED <<log, floor, ckpt, stray, late, up, down, post, flush, disk, outbox>>
  BY DEF HttpRow, roomVars
<1>2. /\ TypeOK /\ Roads /\ log \in Seq(Batches) /\ Len(log) \in Nat /\ floor \in Nat
      /\ shared[d] \in Shared /\ http[d] \in Http /\ pcursor[d] \in Nat
      /\ actor \in [Devices -> Actor] /\ http \in [Devices -> Http]
  BY LogTyped, Entries DEF TypeOK, ClientTypeOK
<1>3. /\ SharedIn(shared[d], log, Owned(d)) /\ HttpIn(http[d], log, floor, Owned(d))
      /\ actor[d].target <= floor /\ pcursor[d] <= Len(log)
  BY EntryTrue
<1>4. r \in Row /\ RowIn(r, log)
  <2>1. http[d].rows \in SUBSET Row
    BY <1>2 DEF Http
  <2>2. r \in http[d].rows
    BY <1>1, <2>1, FirstRowIn
  <2>3. QED
    BY <1>3, <2>1, <2>2 DEF HttpIn
<1> HIDE DEF r
<1>5. r.seq \in Nat /\ r.seq <= Len(log) /\ {r.batch} \in SUBSET Batches /\ {r.batch} \subseteq written
  <2>1. r.seq \in 1 .. Len(log) /\ r.batch = log[r.seq]
    BY <1>4 DEF RowIn
  <2>2. r.batch \in Range(log)
    BY <1>2, <2>1 DEF Range
  <2>3. QED
    BY <1>2, <1>4, <2>1, <2>2 DEF Row, Roads, LogWritten
<1>6. DocsClosed' /\ DocsGrow /\ UNCHANGED written
  BY <1>1, <1>5, ImportTrue
<1>7. Grows
  BY <1>1, <1>2, <1>6, GrowsKept
<1> HIDE DEF ok
<1>8. ok \in BOOLEAN
  BY DEF ok
<1>9. sh \in Shared /\ sh.pending = shared[d].pending
      /\ (sh.cursor = shared[d].cursor \/ sh.cursor = Larger(shared[d].cursor, r.seq))
  <2>1. sh \in Shared
    BY <1>2, <1>4, <1>8, RowAdvanceType
  <2>2. sh.pending = shared[d].pending
    BY <1>2 DEF RowAdvance, Shared
  <2>3. sh.cursor = shared[d].cursor \/ sh.cursor = Larger(shared[d].cursor, r.seq)
    BY <1>2 DEF RowAdvance, Shared
  <2>4. QED
    BY <2>1, <2>2, <2>3
<1>10. shared[d].cursor \in Nat /\ shared[d].cursor <= Len(log)
  BY <1>2, <1>3 DEF Shared, SharedIn
<1>11. sh.cursor \in Nat /\ sh.cursor <= Len(log)
  BY <1>2, <1>5, <1>9, <1>10 DEF Larger
<1>12. SharedIn(sh, log, Owned(d))
  BY <1>3, <1>9, <1>11 DEF SharedIn
<1>13. n \in Nat /\ n <= Len(log)
  BY <1>2, <1>3, <1>11 DEF Larger
<1> HIDE DEF sh, n
<1>14. SharedTrue'
  BY <1>1, <1>7, <1>9, <1>12, SetShared
<1>15. TargetsTrue'
  <2>1. actor'[d].target = actor[d].target /\ \A e \in Devices \ {d} : actor'[e] = actor[e]
    BY <1>1, <1>2 DEF Actor
  <2>2. QED
    BY <1>1, <1>3, <1>7, <2>1, ActorAt
<1>16. HttpTrue'
  <2>1. /\ http'[d].step = "apply" /\ http'[d].rows = http[d].rows \ {r}
        /\ http'[d].cur = http[d].cur /\ http'[d].st = http[d].st /\ http'[d].todo = http[d].todo
        /\ \A e \in Devices \ {d} : http'[e] = http[e]
    BY <1>1, <1>2 DEF Http
  <2>2. Owned(d)' = Owned(d)
    BY <1>6 DEF Owned
  <2>3. HttpIn(http'[d], log', floor', Owned(d)')
    BY <1>1, <1>3, <2>1, <2>2 DEF HttpIn
  <2>4. QED
    BY <1>7, <2>1, <2>3, HttpAt
<1>17. DisksTrue' /\ PostTrue'
  BY <1>1, <1>6, <1>7, <1>13, GrownDocs
<1>18. QED
  BY <1>1, <1>6, <1>7, <1>14, <1>15, <1>16, <1>17, Kept DEF Roads

\* The task ends.
LEMMA HttpDoneTrue ==
    ASSUME RoadsInv, TypeOK', NEW d \in Devices, HttpDone(d)
    PROVE  Roads'
<1>1. /\ http' = [http EXCEPT ![d] = IdleHttp]
      /\ UNCHANGED <<log, floor, ckpt, stray, late, up, down, docVars, shared, actor, post, diskVars>>
  BY DEF HttpDone, roomVars
<1>2. Grows
  BY <1>1, LogTyped, GrowsKept DEF docVars
<1>3. HttpIn(IdleHttp, log', floor', Owned(d))
  BY <1>1, LogTyped DEF HttpIn, IdleHttp, NoState
<1>4. HttpTrue'
  BY <1>1, <1>2, <1>3, SetHttp
<1>5. QED
  BY <1>1, <1>2, <1>4, Kept DEF Roads, docVars

-----------------------------------------------------------------------------
(* Snapshots and checkpoints.                                              *)

\* The snapshot saved is the document of this moment.
LEMMA FlushTrue ==
    ASSUME RoadsInv, TypeOK', NEW d \in Devices, FlushStep(d)
    PROVE  Roads'
<1>1. UNCHANGED <<log, floor, ckpt, stray, late, up, down, docVars, shared, actor, http, post,
                  pcursor, outbox>>
  BY DEF FlushStep, FlushBegin, FlushCommit, roomVars
<1>2. /\ TypeOK /\ Len(log) \in Nat
      /\ flush \in [Devices -> Nat \cup {-1}]
      /\ disk \in [Devices -> [content : SUBSET Batches, cursor : Nat]]
  BY LogTyped DEF TypeOK, ClientTypeOK
<1>3. Grows
  BY <1>1, <1>2, GrowsKept DEF docVars
<1>4. \/ flush' = [flush EXCEPT ![d] = pcursor[d]] /\ UNCHANGED disk
      \/ /\ flush' = [flush EXCEPT ![d] = -1]
         /\ disk' = [disk EXCEPT ![d] = [content |-> doc[d], cursor |-> flush[d]]]
  BY DEF FlushStep, FlushBegin, FlushCommit, save_verified_snapshot_with_cursor
<1>5. \A e \in Devices : flush'[e] <= Len(log)
  <2>1. -1 <= Len(log)
    BY <1>2
  <2>2. QED
    BY <1>2, <1>4, <2>1, EntryTrue
<1>6. \A e \in Devices : disk'[e].cursor <= Len(log) /\ disk'[e].content \subseteq Held(e)
  <2>1. doc[d] \subseteq Held(d) /\ flush[d] <= Len(log)
    BY EntryTrue DEF Held
  <2>2. \A e \in Devices : disk[e].cursor <= Len(log) /\ disk[e].content \subseteq Held(e)
    BY EntryTrue
  <2>3. CASE UNCHANGED disk
    BY <2>2, <2>3
  <2>4. CASE disk' = [disk EXCEPT ![d] = [content |-> doc[d], cursor |-> flush[d]]]
    BY <1>2, <2>1, <2>2, <2>4
  <2>5. QED
    BY <1>4, <2>3, <2>4
<1>7. DisksTrue'
  <2>1. \A e \in Devices : Held(e)' = Held(e) /\ Owned(e)' = Owned(e)
    BY <1>1 DEF Held, Owned, docVars
  <2>2. QED
    BY <1>1, <1>5, <1>6, <2>1, EntryTrue DEF DisksTrue
<1>8. QED
  BY <1>1, <1>3, <1>7, Kept DEF Roads, docVars

\* An upload begins with an honest cursor.
LEMMA BeginTrue ==
    ASSUME RoadsInv, TypeOK', NEW d \in Devices, CheckpointBegin(d),
           Covered(shared[d].cursor) \subseteq doc[d]
    PROVE  Roads'
<1> DEFINE p == [IdlePost EXCEPT !.step = "sampled", !.covered = shared[d].cursor]
<1>1. /\ post' = [post EXCEPT ![d] = p]
      /\ actor' = [actor EXCEPT ![d] = Served(@, shared[d].server)]
      /\ UNCHANGED <<log, floor, ckpt, stray, late, up, down, docVars, shared, http, diskVars>>
  BY DEF CheckpointBegin, roomVars
<1>2. /\ TypeOK /\ log \in Seq(Batches) /\ Len(log) \in Nat
      /\ shared[d] \in Shared /\ SharedIn(shared[d], log, Owned(d))
      /\ post \in [Devices -> Post] /\ post' \in [Devices -> Post]
      /\ actor \in [Devices -> Actor]
  BY LogTyped, Entries, EntryTrue DEF TypeOK, ClientTypeOK
<1>3. Grows
  BY <1>1, <1>2, GrowsKept DEF docVars
<1>4. p.step = "sampled" /\ p.covered = shared[d].cursor /\ p.content = {}
  BY DEF IdlePost
<1>5. Has(doc[d], shared[d].cursor, log)
  BY <1>2 DEF Has, Covered, headSeq, Shared, SharedIn
<1>6. PostIn(p, log, doc[d], written)
  BY <1>4, <1>5 DEF PostIn
<1>7. p \in Post
  BY <1>1, <1>2
<1> HIDE DEF p
<1>8. PostTrue'
  BY <1>1, <1>3, <1>6, <1>7, SetPost DEF docVars
<1>9. TargetsTrue'
  <2>1. actor'[d].target = actor[d].target /\ \A e \in Devices \ {d} : actor'[e] = actor[e]
    BY <1>1, <1>2 DEF Served, Actor
  <2>2. QED
    BY <1>1, <1>3, <2>1, EntryTrue, ActorAt
<1>10. QED
  BY <1>1, <1>3, <1>8, <1>9, Kept DEF Roads, docVars

\* The document exported has what the cursor covered when it was sampled.
LEMMA ExportTrue ==
    ASSUME RoadsInv, TypeOK', NEW d \in Devices, CheckpointExport(d)
    PROVE  Roads'
<1> DEFINE p == [post[d] EXCEPT !.step = "sent", !.content = doc[d],
                                !.rej = rejected_chat_updates(d) \cap doc[d]]
<1>1. /\ post[d].step = "sampled" /\ post' = [post EXCEPT ![d] = p]
      /\ UNCHANGED <<log, floor, ckpt, stray, late, up, down, docVars, shared, actor, http, diskVars>>
  BY DEF CheckpointExport, roomVars
<1>2. /\ TypeOK /\ Roads /\ post[d] \in Post /\ PostIn(post[d], log, doc[d], written)
      /\ post' \in [Devices -> Post] /\ post \in [Devices -> Post]
  BY LogTyped, Entries, EntryTrue DEF TypeOK, ClientTypeOK
<1>3. Grows
  BY <1>1, <1>2, GrowsKept DEF docVars
<1>4. p.step = "sent" /\ p.covered = post[d].covered /\ p.content = doc[d]
  BY <1>2 DEF Post
<1>5. doc[d] \subseteq written
  BY <1>2 DEF Roads, DocsClosed
<1>6. PostIn(p, log, doc[d], written)
  BY <1>1, <1>2, <1>4, <1>5 DEF PostIn
<1>7. p \in Post
  BY <1>1, <1>2
<1> HIDE DEF p
<1>8. PostTrue'
  BY <1>1, <1>3, <1>6, <1>7, SetPost DEF docVars
<1>9. QED
  BY <1>1, <1>3, <1>8, Kept DEF Roads, docVars

\* The room commits the upload, or refuses it.
LEMMA CommitPostTrue ==
    ASSUME RoadsInv, TypeOK', NEW d \in Devices, CheckpointPost(d)
    PROVE  Roads'
<1> DEFINE p == post[d]
<1>1. /\ p.step = "sent" /\ post' = [post EXCEPT ![d] = IdlePost]
      /\ UNCHANGED <<log, up, down, stray, late, docVars, actor, http, pcursor, flush, disk>>
  BY DEF CheckpointPost
<1>2. /\ TypeOK /\ Roads /\ p \in Post /\ PostIn(p, log, doc[d], written)
      /\ shared \in [Devices -> Shared] /\ outbox \in [Devices -> SUBSET Batches]
      /\ shared[d] \in Shared /\ SharedIn(shared[d], log, Owned(d))
  BY LogTyped, Entries, EntryTrue DEF TypeOK, ClientTypeOK
<1>3. p.covered \in Nat /\ p.content \in SUBSET Batches
  BY <1>2 DEF Post
<1>4. Has(p.content, p.covered, log) /\ p.content \subseteq written
  BY <1>1, <1>2 DEF PostIn
<1>5. \/ /\ Committable(p.covered) /\ commitCheckpoint(p.covered, p.content)
         /\ outbox' = [outbox EXCEPT ![d] = @ \ p.rej]
         /\ shared' = [shared EXCEPT ![d].server =
                  IF @.known THEN [known |-> TRUE, present |-> TRUE, many |-> FALSE] ELSE @]
      \/ UNCHANGED <<floor, ckpt, outbox, shared>>
  BY DEF CheckpointPost, acknowledge_chat_update
<1> HIDE DEF p
<1>6. Grows /\ CheckpointsWhole' /\ DocsGrow
  <2>1. UNCHANGED written /\ DocsGrow
    BY <1>1, DocsKept DEF docVars
  <2>2. CASE Committable(p.covered) /\ commitCheckpoint(p.covered, p.content)
    BY <1>1, <1>3, <1>4, <2>1, <2>2, CommitTrue
  <2>3. CASE UNCHANGED <<floor, ckpt>>
    BY <1>1, <1>2, <2>1, <2>3, GrowsKept DEF Roads, CheckpointsWhole
  <2>4. QED
    BY <1>5, <2>1, <2>2, <2>3
<1>7. \A e \in Devices : outbox'[e] \subseteq outbox[e]
  BY <1>2, <1>5
<1>8. DisksTrue'
  BY <1>1, <1>6, <1>7, GrownDocs
<1>9. SharedTrue'
  <2>1. /\ shared'[d].cursor = shared[d].cursor /\ shared'[d].pending = shared[d].pending
        /\ \A e \in Devices \ {d} : shared'[e] = shared[e]
    BY <1>2, <1>5 DEF Shared
  <2>2. SharedIn(shared'[d], log', Owned(d)')
    BY <1>1, <1>2, <2>1 DEF SharedIn, Owned, docVars
  <2>3. QED
    BY <1>6, <2>1, <2>2, SharedAt
<1>10. PostTrue'
  <2>1. PostIn(IdlePost, log, doc[d], written) /\ IdlePost \in Post
    BY IdleTypes DEF PostIn, IdlePost
  <2>2. QED
    BY <1>1, <1>6, <2>1, SetPost DEF docVars
<1>11. QED
  BY <1>1, <1>6, <1>8, <1>9, <1>10, Kept DEF Roads, docVars

\* The client gives up on an upload; what may still arrive is whole.
LEMMA TimeoutTrue ==
    ASSUME RoadsInv, TypeOK', NEW d \in Devices, CheckpointTimeout(d)
    PROVE  Roads'
<1> DEFINE q == [covered |-> post[d].covered, content |-> post[d].content]
<1>1. /\ post[d].step = "sent" /\ post' = [post EXCEPT ![d] = IdlePost]
      /\ late' = late \cup {q}
      /\ UNCHANGED <<log, floor, ckpt, up, down, stray, docVars, shared, actor, http, diskVars>>
  BY DEF CheckpointTimeout
<1>2. TypeOK /\ Roads /\ PostIn(post[d], log, doc[d], written)
  BY LogTyped, EntryTrue
<1>3. Grows
  BY <1>1, <1>2, GrowsKept DEF docVars
<1>4. q.content \subseteq written /\ Has(q.content, q.covered, log)
  BY <1>1, <1>2 DEF PostIn
<1> HIDE DEF q
<1>5. CheckpointsWhole'
  BY <1>1, <1>2, <1>4 DEF Roads, CheckpointsWhole, docVars
<1>6. PostTrue'
  <2>1. PostIn(IdlePost, log, doc[d], written) /\ IdlePost \in Post
    BY IdleTypes DEF PostIn, IdlePost
  <2>2. QED
    BY <1>1, <1>3, <2>1, SetPost DEF docVars
<1>7. QED
  BY <1>1, <1>3, <1>5, <1>6, Kept DEF Roads, docVars

-----------------------------------------------------------------------------
(* The room's promise.                                                     *)

\* Everything is empty and every cursor is zero initially.
LEMMA RoadsInit == Init => RoadsInv
<1> SUFFICES ASSUME Init PROVE RoadsInv
  OBVIOUS
<1>1. JournalInv
  BY JournalInit
<1>2. log = <<>> /\ log \in Seq(Batches) /\ Len(log) = 0 /\ floor = 0 /\ Range(log) = {}
  BY DEF Init, RoomInit, Range
<1>3. LogWritten /\ CheckpointsWhole
  BY <1>2 DEF Init, RoomInit, LogWritten, CheckpointsWhole, Has
<1>4. UpWritten /\ DownTrue
  BY DEF Init, RoomInit, UpWritten, DownTrue, UpTrue, ChTrue
<1>5. DocsClosed
  BY DEF Init, DocsClosed
<1>6. SharedTrue /\ TargetsTrue
  BY <1>2 DEF Init, SharedTrue, SharedIn, NewShared, TargetsTrue, DownActor
<1>7. HttpTrue
  <2>1. \A d \in Devices : HttpIn(IdleHttp, log, floor, Owned(d))
    BY <1>2 DEF HttpIn, IdleHttp, NoState
  <2>2. \A d \in Devices : HttpIn(spawn_offline_sync(d, IdleHttp, {}), log, floor, Owned(d))
    BY <1>2, <2>1, SpawnIn
  <2>3. QED
    BY <2>2 DEF Init, HttpTrue
<1>8. PostTrue
  BY DEF Init, PostTrue, PostIn, IdlePost
<1>9. DisksTrue
  BY <1>2 DEF Init, DisksTrue
<1>10. QED
  BY <1>1, <1>3, <1>4, <1>5, <1>6, <1>7, <1>8, <1>9 DEF RoadsInv, Roads

\* Every step keeps the invariant, if the uploads that begin are honest.
LEMMA RoadsNext == RoadsInv /\ Next /\ UploadsHonest => RoadsInv'
<1> SUFFICES ASSUME RoadsInv, Next, UploadsHonest PROVE RoadsInv'
  OBVIOUS
<1>1. JournalInv' /\ TypeOK'
  BY JournalNext DEF RoadsInv, JournalInv
<1>2. ASSUME NEW d \in Devices, NEW b \in Batches, enqueue_batch(d, b) PROVE Roads'
  BY <1>1, <1>2, WriteTrue
<1>3. ASSUME NEW d \in Devices, RoomStep(d), UNCHANGED clientVars PROVE Roads'
  BY <1>1, <1>3, HelloTrue, RowsReqTrue, PushTrue DEF RoomStep
<1>4. ASSUME NEW d \in Devices, SessionStep(d) PROVE Roads'
  BY <1>1, <1>4, DialTrue, RecvStateTrue, FetchCheckpointTrue, RecvRowTrue, RecvAckTrue,
     RecvQuotaDoneTrue, PushesTrue DEF SessionStep
<1>5. ASSUME NEW d \in Devices, HttpStep(d) PROVE Roads'
  BY <1>1, <1>5, HttpPushTrue, HttpAckTrue, HttpPullTrue, HttpStateTrue, HttpFetchTrue,
     HttpRowTrue, HttpDoneTrue DEF HttpStep
<1>6. ASSUME NEW d \in Devices, FlushStep(d) PROVE Roads'
  BY <1>1, <1>6, FlushTrue
<1>7. ASSUME NEW d \in Devices, CheckpointStep(d) PROVE Roads'
  <2>1. CheckpointBegin(d) => Covered(shared[d].cursor) \subseteq doc[d]
    BY DEF UploadsHonest
  <2>2. QED
    BY <1>1, <1>7, <2>1, BeginTrue, ExportTrue, CommitPostTrue DEF CheckpointStep
<1>8. ASSUME NEW d \in Devices, Fault(d) PROVE Roads'
  BY <1>1, <1>8, DropTrue, FailsTrue, CrashTrue, TimeoutTrue, RefuseTrue DEF Fault
<1>9. ASSUME NEW b \in stray, handleStrayPush(b), UNCHANGED clientVars PROVE Roads'
  BY <1>1, <1>9, StrayTrue
<1>10. ASSUME NEW p \in late, handleLateCheckpoint(p), UNCHANGED clientVars PROVE Roads'
  BY <1>1, <1>10, LateTrue
<1>11. ASSUME \E d \in Devices :
                  \/ \E b \in Batches : enqueue_batch(d, b)
                  \/ RoomStep(d) /\ UNCHANGED clientVars
                  \/ SessionStep(d)
                  \/ HttpStep(d)
                  \/ FlushStep(d)
                  \/ CheckpointStep(d)
                  \/ Fault(d)
       PROVE  Roads'
  <2>1. PICK d \in Devices :
            \/ \E b \in Batches : enqueue_batch(d, b)
            \/ RoomStep(d) /\ UNCHANGED clientVars
            \/ SessionStep(d)
            \/ HttpStep(d)
            \/ FlushStep(d)
            \/ CheckpointStep(d)
            \/ Fault(d)
    BY <1>11
  <2>2. CASE \E b \in Batches : enqueue_batch(d, b)
    BY <2>2, <1>2
  <2>3. CASE RoomStep(d) /\ UNCHANGED clientVars
    BY <2>3, <1>3
  <2>4. CASE SessionStep(d) \/ HttpStep(d)
    BY <2>4, <1>4, <1>5
  <2>5. CASE FlushStep(d) \/ CheckpointStep(d) \/ Fault(d)
    BY <2>5, <1>6, <1>7, <1>8
  <2>6. QED
    BY <2>1, <2>2, <2>3, <2>4, <2>5
<1>12. Roads'
  <2>1. CASE \E b \in stray : handleStrayPush(b) /\ UNCHANGED clientVars
    BY <2>1, <1>9
  <2>2. CASE \E p \in late : handleLateCheckpoint(p) /\ UNCHANGED clientVars
    BY <2>2, <1>10
  <2>3. QED
    BY <1>11, <2>1, <2>2, Zenon DEF Next
<1>13. QED
  BY <1>1, <1>12 DEF RoadsInv

\* A step that changes nothing keeps it.
LEMMA RoadsStutter == RoadsInv /\ UNCHANGED vars => RoadsInv'
<1> SUFFICES ASSUME RoadsInv, UNCHANGED vars PROVE RoadsInv'
  OBVIOUS
<1>1. JournalInv' /\ TypeOK'
  BY JournalNext DEF RoadsInv, JournalInv
<1>2. UNCHANGED <<log, floor, ckpt, up, down, stray, late>> /\ UNCHANGED clientVars
  BY DEF vars, roomVars
<1>3. Grows
  BY <1>2, LogTyped, GrowsKept DEF clientVars, docVars
<1>4. Roads'
  BY <1>1, <1>2, <1>3, Kept, ClientKept DEF Roads
<1>5. QED
  BY <1>1, <1>4 DEF RoadsInv

\* A whole checkpoint and the live rows together have every numbered batch.
LEMMA RoadsKeep == RoadsInv => RoomKeepsEveryOp
<1> SUFFICES ASSUME RoadsInv, NEW s \in DOMAIN log PROVE log[s] \in RoomOps
  BY DEF RoomKeepsEveryOp, Range
<1>1. s \in 1 .. Len(log) /\ floor \in Nat
  BY LogTyped
<1>2. CASE s <= floor
  BY <1>1, <1>2 DEF RoadsInv, Roads, CheckpointsWhole, Has, RoomOps
<1>3. CASE s > floor
  BY <1>1, <1>3 DEF RoomOps, LiveSeqs, headSeq
<1>4. QED
  BY <1>1, <1>2, <1>3

\* A batch the room numbered is never lost to a checkpoint (commitCheckpoint of
\* chat-log.ts deletes rows on the word of a client), provided every upload
\* begins when the cursor it samples is honest: any devices, updates, crashes,
\* refusals, lingering pushes and late uploads.
THEOREM RoomSafe == Spec /\ [][UploadsHonest]_vars => []RoomKeepsEveryOp
<1>1. RoadsInv /\ [Next]_vars /\ [UploadsHonest]_vars => RoadsInv'
  BY RoadsNext, RoadsStutter
<1>2. QED
  BY <1>1, RoadsInit, RoadsKeep, PTL DEF Spec
=============================================================================
