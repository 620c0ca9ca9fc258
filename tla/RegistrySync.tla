---------------------------- MODULE RegistrySync ----------------------------
(***************************************************************************)
(* The workspace registry: one RegistryRoom and the RegistryDoc and         *)
(* RegistryClient of every device.  A device keeps the rows the room told   *)
(* it (`auth`), the number of the last batch it has applied (`cursor`) and  *)
(* the batches the room has not acknowledged (`pending`).  Two tasks share   *)
(* that document: the session actor on its socket, and the HTTPS task that  *)
(* pushes and pulls while no socket is up.  The whole document is saved to   *)
(* disk as one blob, some time after it changes.                             *)
(*                                                                         *)
(* Every document reaches `hello` with its own device row written, so the   *)
(* cursor it sends is always a number.  A device's wall clock does not run   *)
(* back across a restart.                                                   *)
(***************************************************************************)
EXTENDS RegistryTable, Sequences, SequencesExt

CONSTANTS
    Device,
    Clocks,    \* device -> the clocks it can stamp writes with: a bound on its writes
    Writes,    \* the writes the devices issue: [op, rows, set, nulls]
    Https,     \* the devices whose client has the plain-HTTPS transport
    Faults     \* bounds: how often each fault happens, and all of them ("any")

FaultKinds == {"any", "drop", "lose", "save", "crash", "fail", "reset", "purge"}

ASSUME ClocksAssumption ==
    /\ Clocks \in [Device -> SUBSET (Nat \ {0})]
    /\ \A d, e \in Device : d # e => Clocks[d] \cap Clocks[e] = {}
ASSUME HttpsAssumption == Https \subseteq Device
ASSUME WritesAssumption ==
    Writes \subseteq [op : {"upsert", "update", "delete"}, rows : SUBSET Row,
                      set : SUBSET Field, nulls : SUBSET Field]
ASSUME FaultsAssumption == Faults \in [FaultKinds -> Nat]

VARIABLES
    room,    \* the room's table
    doc,     \* device -> its document
    stamp,   \* device -> the last clock it stamped a write with
    minted,  \* device -> how many batch ids it has minted
    nudged,  \* device -> whether a nudge waits for the session actor
    disk,    \* device -> its saved document
    sess,    \* device -> where its session is: "down", "hello" or "joined"
    up,      \* device -> frames its socket carries to the room
    down,    \* device -> frames its socket carries to the device
    http,    \* device -> where its HTTPS task is
    late,    \* pushes a dead socket carried that the room may yet receive
    left     \* how many of each fault may still happen

vars == <<room, doc, stamp, minted, nudged, disk, sess, up, down, http, late, left>>
clientVars == <<doc, stamp, minted, nudged, disk, sess, http>>

EmptyDoc == [auth |-> [r \in Row |-> Absent], cursor |-> 0, pending |-> <<>>]

Idle == [at |-> "idle"]

Init ==
    /\ room = EmptyRoom
    /\ doc = [d \in Device |-> EmptyDoc]
    /\ stamp = [d \in Device |-> 0]
    /\ minted = [d \in Device |-> 0]
    /\ nudged = [d \in Device |-> FALSE]
    /\ disk = [d \in Device |-> EmptyDoc]
    /\ sess = [d \in Device |-> "down"]
    /\ up = [d \in Device |-> <<>>]
    /\ down = [d \in Device |-> <<>>]
    /\ http = [d \in Device |-> IF d \in Https THEN [at |-> "start"] ELSE Idle]
    /\ late = {}
    /\ left = Faults

Spend(fault) ==
    /\ left[fault] > 0 /\ left["any"] > 0
    /\ left' = [left EXCEPT ![fault] = @ - 1, !["any"] = @ - 1]

-----------------------------------------------------------------------------
(* The document.                                                            *)

put_authoritative(auth, rows) ==
    [r \in Row |-> IF r \in DOMAIN rows THEN rows[r] ELSE auth[r]]

enqueue_ops(pending, id, ops) ==
    IF DOMAIN ops = {} THEN pending
    ELSE Append(pending, [id |-> id, ops |-> ops, in_flight |-> FALSE])

\* The rows a state frame makes the device seed again: all it holds when the
\* room fell behind it, those the room does not know on any other full state.
Reseeded(c, frame) ==
    {r \in Held(c.auth) :
        frame.full /\ (frame.seq < c.cursor \/ r \notin DOMAIN frame.rows)}

apply_state(c, frame, id) ==
    [auth |-> IF frame.full /\ frame.seq >= c.cursor
              THEN put_authoritative(EmptyDoc.auth, frame.rows)
              ELSE put_authoritative(c.auth, frame.rows),
     cursor |-> frame.seq,
     pending |-> enqueue_ops(c.pending, id,
                    [r \in Reseeded(c, frame) |-> row_to_seed_op(c.auth[r])])]

Gap(c, frame) == frame.seq > c.cursor + 1

\* Mutant: the cursor follows the frame across a gap.
apply_rowsJumps(c, frame) ==
    [c EXCEPT !.auth = put_authoritative(@, frame.rows),
              !.cursor = Max({@, frame.seq})]

apply_rows(c, frame) ==
    [c EXCEPT !.auth = put_authoritative(@, frame.rows),
              !.cursor = IF Gap(c, frame) THEN @ ELSE Max({@, frame.seq})]

\* retain(batch_id != id): a queue never holds an id twice.
ack_batch(c, id) ==
    [c EXCEPT !.pending =
        IF \E i \in DOMAIN @ : @[i].id = id
        THEN RemoveAt(@, CHOOSE i \in DOMAIN @ : @[i].id = id) ELSE @]

\* Those not in flight, which come after those that are.
Pushable(c) ==
    SubSeq(c.pending, Cardinality({i \in DOMAIN c.pending : c.pending[i].in_flight}) + 1,
           Len(c.pending))

MarkFlight(c, flying) ==
    [c EXCEPT !.pending = [i \in DOMAIN @ |-> [@[i] EXCEPT !.in_flight = flying]]]

\* Mutant: what was in flight on the dead connection stays in flight.
mark_disconnectedForgets(c) == c

take_pushable(c) == MarkFlight(c, TRUE)
mark_disconnected(c) == MarkFlight(c, FALSE)

\* The row as the device displays it.
overlay_row(c, r) ==
    FoldLeft(LAMBDA row, b : IF r \in DOMAIN b.ops THEN apply_op(row, b.ops[r]) ELSE row,
             c.auth[r], c.pending)

-----------------------------------------------------------------------------
(* Local writes and persistence.                                            *)

\* Some caller writes the registry: the op joins the queue under the next
\* clock and the actor is nudged.  Only an update asks whether the row exists.
Write(d, w, hlc) ==
    /\ hlc > stamp[d]
    /\ w.op = "update" => \A r \in w.rows : ~overlay_row(doc[d], r).deleted
    /\ LET op == [op |-> w.op, set |-> w.set, nulls |-> w.nulls, hlc |-> hlc,
                  clocks |-> [f \in Field |-> hlc]]
       IN  doc' = [doc EXCEPT ![d].pending =
                     enqueue_ops(@, minted[d] + 1, [r \in w.rows |-> op])]
    /\ stamp' = [stamp EXCEPT ![d] = hlc]
    /\ minted' = [minted EXCEPT ![d] = @ + 1]
    /\ nudged' = [nudged EXCEPT ![d] = TRUE]
    /\ UNCHANGED <<room, disk, sess, up, down, http, late, left>>

\* The debounced save, as often as its bound allows: it may come at any time
\* after a change, so a crash finds any earlier document on the disk.
persist_snapshot(d) ==
    /\ disk[d] # mark_disconnected(doc[d])
    /\ left["save"] > 0 /\ left' = [left EXCEPT !["save"] = @ - 1]
    /\ disk' = [disk EXCEPT ![d] = mark_disconnected(doc[d])]
    /\ UNCHANGED <<room, doc, stamp, minted, nudged, sess, up, down, http, late>>

-----------------------------------------------------------------------------
(* The session actor.                                                       *)

spawn_offline_sync(d, task) ==
    IF d \in Https /\ task = Idle THEN [at |-> "start"] ELSE task

\* The pushes among the frames of a socket that died: the room may have
\* received any of them without the client knowing.
Undelivered(d) ==
    {up[d][i].ops : i \in {j \in DOMAIN up[d] : up[d][j].t = "push"}}

\* Mutant: the frames of the dead socket are still read.
EndSessionKeepsFrames(d, c) ==
    /\ doc' = [doc EXCEPT ![d] = mark_disconnected(c)]
    /\ sess' = [sess EXCEPT ![d] = "down"]
    /\ up' = [up EXCEPT ![d] = <<>>]
    /\ late' = late \cup Undelivered(d)
    /\ http' = [http EXCEPT ![d] = spawn_offline_sync(d, @)]
    /\ UNCHANGED down

\* The session ends: what it had in flight is pushable again.
EndSession(d, c) ==
    /\ doc' = [doc EXCEPT ![d] = mark_disconnected(c)]
    /\ sess' = [sess EXCEPT ![d] = "down"]
    /\ up' = [up EXCEPT ![d] = <<>>]
    /\ down' = [down EXCEPT ![d] = <<>>]
    /\ late' = late \cup Undelivered(d)
    /\ http' = [http EXCEPT ![d] = spawn_offline_sync(d, @)]

Dial(d) ==
    /\ sess[d] = "down"
    /\ sess' = [sess EXCEPT ![d] = "hello"]
    /\ up' = [up EXCEPT ![d] = <<[t |-> "hello", cursor |-> doc[d].cursor]>>]
    /\ UNCHANGED <<room, doc, stamp, minted, nudged, disk, down, http, late, left>>

DialFails(d) ==
    /\ sess[d] = "down" /\ d \in Https /\ http[d] = Idle
    /\ Spend("fail")
    /\ http' = [http EXCEPT ![d] = spawn_offline_sync(d, @)]
    /\ UNCHANGED <<room, doc, stamp, minted, nudged, disk, sess, up, down, late>>

\* The socket dies, a deadline passes, or a redial is asked for.
Drop(d) ==
    /\ sess[d] # "down"
    /\ Spend("drop")
    /\ EndSession(d, doc[d])
    /\ UNCHANGED <<room, stamp, minted, nudged, disk>>

PushFrames(batches) ==
    [i \in DOMAIN batches |->
        [t |-> "push", id |-> batches[i].id, ops |-> batches[i].ops]]

\* The hello's answer: apply it, then push everything that is pending.
RecvState(d) ==
    /\ sess[d] = "hello" /\ down[d] # <<>> /\ Head(down[d]).t = "state"
    /\ LET c == apply_state(doc[d], Head(down[d]), minted[d] + 1)
       IN  /\ doc' = [doc EXCEPT ![d] = take_pushable(c)]
           /\ up' = [up EXCEPT ![d] = @ \o PushFrames(Pushable(c))]
    /\ minted' = [minted EXCEPT ![d] =
                    IF Reseeded(doc[d], Head(down[d])) = {} THEN @ ELSE @ + 1]
    /\ down' = [down EXCEPT ![d] = Tail(@)]
    /\ sess' = [sess EXCEPT ![d] = "joined"]
    /\ UNCHANGED <<room, stamp, nudged, disk, http, late, left>>

\* A broadcast.  A gap ends the session with the cursor held.
RecvRows(d) ==
    /\ sess[d] = "joined" /\ down[d] # <<>> /\ Head(down[d]).t = "rows"
    /\ LET frame == Head(down[d])
           c == apply_rows(doc[d], frame)
       IN  IF Gap(doc[d], frame)
           THEN EndSession(d, c)
           ELSE /\ doc' = [doc EXCEPT ![d] = c]
                /\ down' = [down EXCEPT ![d] = Tail(@)]
                /\ UNCHANGED <<sess, up, late, http>>
    /\ UNCHANGED <<room, stamp, minted, nudged, disk, left>>

RecvAck(d) ==
    /\ sess[d] = "joined" /\ down[d] # <<>> /\ Head(down[d]).t = "ack"
    /\ doc' = [doc EXCEPT ![d] = ack_batch(@, Head(down[d]).id)]
    /\ down' = [down EXCEPT ![d] = Tail(@)]
    /\ UNCHANGED <<room, stamp, minted, nudged, disk, sess, up, http, late, left>>

\* The room closed the socket.
RecvClose(d) ==
    /\ sess[d] # "down" /\ down[d] # <<>> /\ Head(down[d]).t = "close"
    /\ EndSession(d, doc[d])
    /\ UNCHANGED <<room, stamp, minted, nudged, disk, left>>

push_pending(d) ==
    /\ sess[d] = "joined" /\ nudged[d]
    /\ nudged' = [nudged EXCEPT ![d] = FALSE]
    /\ up' = [up EXCEPT ![d] = @ \o PushFrames(Pushable(doc[d]))]
    /\ doc' = [doc EXCEPT ![d] = take_pushable(@)]
    /\ UNCHANGED <<room, stamp, minted, disk, sess, down, http, late, left>>

-----------------------------------------------------------------------------
(* The room.                                                                *)

Closed(d) == down[d] # <<>> /\ Last(down[d]).t = "close"

\* The sockets that said hello.
Ready(d) ==
    /\ sess[d] # "down" /\ ~Closed(d)
    /\ up[d] # <<>> => Head(up[d]).t # "hello"

\* Apply a batch and broadcast the merged rows to every ready socket.
Broadcast(ops) ==
    [d \in Device |-> IF Ready(d) /\ Touched(room, ops) # {}
                      THEN Append(down[d], RowsFrame(room, ops)) ELSE down[d]]

handleHello(d) ==
    /\ ~Closed(d) /\ up[d] # <<>> /\ Head(up[d]).t = "hello"
    /\ down' = [down EXCEPT ![d] = Append(@, StateFrame(room, Head(up[d]).cursor))]
    /\ up' = [up EXCEPT ![d] = Tail(@)]
    /\ UNCHANGED <<room, clientVars, late, left>>

\* Mutant: the ack goes out before the merged rows.
handlePushAcksFirst(d) ==
    /\ ~Closed(d) /\ up[d] # <<>> /\ Head(up[d]).t = "push"
    /\ room' = applyPushBatch(room, Head(up[d]).ops)
    /\ down' = [Broadcast(Head(up[d]).ops) EXCEPT ![d] =
                  down[d] \o <<[t |-> "ack", id |-> Head(up[d]).id]>>
                    \o SubSeq(@, Len(down[d]) + 1, Len(@))]
    /\ up' = [up EXCEPT ![d] = Tail(@)]
    /\ UNCHANGED <<clientVars, late, left>>

handlePush(d) ==
    /\ ~Closed(d) /\ up[d] # <<>> /\ Head(up[d]).t = "push"
    /\ room' = applyPushBatch(room, Head(up[d]).ops)
    /\ down' = [Broadcast(Head(up[d]).ops) EXCEPT ![d] =
                  Append(@, [t |-> "ack", id |-> Head(up[d]).id])]
    /\ up' = [up EXCEPT ![d] = Tail(@)]
    /\ UNCHANGED <<clientVars, late, left>>

\* A push of a socket the client has given up reaches the room.
handleLatePush(ops) ==
    /\ room' = applyPushBatch(room, ops)
    /\ down' = Broadcast(ops)
    /\ late' = late \ {ops}
    /\ UNCHANGED <<clientVars, up, left>>

\* A broadcast is lost on a half-dead socket that stays open.
LoseFrame(d) ==
    /\ down[d] # <<>> /\ Last(down[d]).t = "rows"
    /\ Spend("lose")
    /\ down' = [down EXCEPT ![d] = Front(@)]
    /\ UNCHANGED <<room, clientVars, up, late>>

\* The daily alarm purges the tombstones older than its horizon.
alarm(horizon) ==
    /\ Purgeable(room, horizon) # {}
    /\ Spend("purge")
    /\ room' = PurgeTombstones(room, horizon)
    /\ UNCHANGED <<clientVars, up, down, late>>

\* POST /reset: the operator wipes the room and closes its sockets.
reset ==
    /\ Spend("reset")
    /\ room' = EmptyRoom
    /\ down' = [d \in Device |-> IF sess[d] = "down" \/ Closed(d) THEN down[d]
                                 ELSE Append(down[d], [t |-> "close"])]
    /\ UNCHANGED <<clientVars, up, late>>

-----------------------------------------------------------------------------
(* The HTTPS task: push every pushable batch, then pull from the cursor it  *)
(* reads at that moment, beside whatever the session actor does.            *)

Http(d, at) == http[d].at = at

HttpStart(d) ==
    /\ Http(d, "start")
    /\ http' = [http EXCEPT ![d] = [at |-> "push", todo |-> Pushable(doc[d])]]
    /\ doc' = [doc EXCEPT ![d] = take_pushable(@)]
    /\ UNCHANGED <<room, stamp, minted, nudged, disk, sess, up, down, late, left>>

\* The room takes a POST /push; the answer is on its way.
postPush(d) ==
    /\ Http(d, "push") /\ http[d].todo # <<>>
    /\ room' = applyPushBatch(room, Head(http[d].todo).ops)
    /\ down' = Broadcast(Head(http[d].todo).ops)
    /\ http' = [http EXCEPT ![d].at = "posted"]
    /\ UNCHANGED <<doc, stamp, minted, nudged, disk, sess, up, late, left>>

HttpAcked(d) ==
    /\ Http(d, "posted")
    /\ doc' = [doc EXCEPT ![d] = ack_batch(@, Head(http[d].todo).id)]
    /\ http' = [http EXCEPT ![d] = [at |-> "push", todo |-> Tail(http[d].todo)]]
    /\ UNCHANGED <<room, stamp, minted, nudged, disk, sess, up, down, late, left>>

\* Mutant: a POST that failed counts as taken.
HttpPushFailsRetires(d) ==
    /\ Http(d, "posted") \/ (Http(d, "push") /\ http[d].todo # <<>>)
    /\ Spend("fail")
    /\ doc' = [doc EXCEPT ![d] = ack_batch(@, Head(http[d].todo).id)]
    /\ http' = [http EXCEPT ![d] = [at |-> "push", todo |-> <<>>]]
    /\ UNCHANGED <<room, stamp, minted, nudged, disk, sess, up, down, late>>

\* A POST fails before the room sees it, or its answer is lost or unreadable:
\* the task stops pushing and un-marks every batch.
HttpPushFails(d) ==
    /\ Http(d, "posted") \/ (Http(d, "push") /\ http[d].todo # <<>>)
    /\ Spend("fail")
    /\ doc' = [doc EXCEPT ![d] = mark_disconnected(@)]
    /\ http' = [http EXCEPT ![d] = [at |-> "push", todo |-> <<>>]]
    /\ UNCHANGED <<room, stamp, minted, nudged, disk, sess, up, down, late>>

HttpPull(d) ==
    /\ Http(d, "push") /\ http[d].todo = <<>>
    /\ http' = [http EXCEPT ![d] = [at |-> "ask", since |-> doc[d].cursor]]
    /\ UNCHANGED <<room, doc, stamp, minted, nudged, disk, sess, up, down, late, left>>

\* The room answers GET /rows?since=.
getRows(d) ==
    /\ Http(d, "ask")
    /\ http' = [http EXCEPT ![d] =
                  [at |-> "answer", frame |-> StateFrame(room, http[d].since)]]
    /\ UNCHANGED <<room, doc, stamp, minted, nudged, disk, sess, up, down, late, left>>

HttpPulled(d) ==
    /\ Http(d, "answer")
    /\ doc' = [doc EXCEPT ![d] = apply_state(@, http[d].frame, minted[d] + 1)]
    /\ minted' = [minted EXCEPT ![d] =
                    IF Reseeded(doc[d], http[d].frame) = {} THEN @ ELSE @ + 1]
    /\ http' = [http EXCEPT ![d] = Idle]
    /\ UNCHANGED <<room, stamp, nudged, disk, sess, up, down, late, left>>

HttpPullFails(d) ==
    /\ Http(d, "ask") \/ Http(d, "answer")
    /\ Spend("fail")
    /\ http' = [http EXCEPT ![d] = Idle]
    /\ UNCHANGED <<room, doc, stamp, minted, nudged, disk, sess, up, down, late>>

\* The process dies and starts again from its saved document.
Crash(d) ==
    /\ Spend("crash")
    /\ doc' = [doc EXCEPT ![d] = disk[d]]
    /\ nudged' = [nudged EXCEPT ![d] = FALSE]
    /\ sess' = [sess EXCEPT ![d] = "down"]
    /\ up' = [up EXCEPT ![d] = <<>>]
    /\ down' = [down EXCEPT ![d] = <<>>]
    /\ late' = late \cup Undelivered(d)
    /\ http' = [http EXCEPT ![d] = spawn_offline_sync(d, Idle)]
    /\ UNCHANGED <<room, stamp, minted, disk>>

-----------------------------------------------------------------------------
\* Steps nothing but the program's own scheduling holds up.
Progress(d) ==
    \/ Dial(d) \/ RecvState(d) \/ RecvRows(d) \/ RecvAck(d) \/ RecvClose(d)
    \/ push_pending(d) \/ handleHello(d) \/ handlePush(d)
    \/ HttpStart(d) \/ postPush(d) \/ HttpAcked(d) \/ HttpPull(d)
    \/ getRows(d) \/ HttpPulled(d)

\* What one device does, and what may happen to it.
Step(d) ==
    \/ Progress(d)
    \/ \E w \in Writes, hlc \in Clocks[d] : Write(d, w, hlc)
    \/ persist_snapshot(d) \/ DialFails(d) \/ Drop(d) \/ LoseFrame(d)
    \/ HttpPushFails(d) \/ HttpPullFails(d) \/ Crash(d)

\* What happens in the room by itself.
RoomStep ==
    \/ \E ops \in late : handleLatePush(ops)
    \/ \E d \in Device : \E hlc \in Clocks[d] : alarm(hlc + 1)
    \/ reset

Next == RoomStep \/ \E d \in Device : Step(d)

Spec == Init /\ [][Next]_vars

\* Every task that can run does; faults and writes need not happen.
FairSpec == Spec /\ \A d \in Device : WF_vars(Progress(d))

-----------------------------------------------------------------------------
(* Properties.                                                              *)

DocOK(c) ==
    /\ \A r \in Row : c.auth[r].clocks \in [Field -> Nat] /\ c.auth[r].seq \in Nat
    /\ c.cursor \in Nat
    /\ \A i, j \in DOMAIN c.pending : i < j =>
          /\ c.pending[i].id < c.pending[j].id
          /\ c.pending[j].in_flight => c.pending[i].in_flight

\* Every variable holds what its comment says; a device's pending batches are
\* in the order their ids were minted, the order push_pending sends them in,
\* in memory and on disk, and those in flight come first.
TypeOK ==
    /\ room.rows \in [Row -> RowType] /\ room.seq \in Nat /\ room.gcFloor \in 0..room.seq
    /\ \A d \in Device : DocOK(doc[d]) /\ DocOK(disk[d])
    /\ sess \in [Device -> {"down", "hello", "joined"}]
    /\ \A d \in Device : sess[d] = "down" => up[d] = <<>> /\ down[d] = <<>>

\* One version of a row in the room supersedes another: its tombstone clock is
\* newer than everything the other had, or, under the same tombstone clock, no
\* field's clock is older.
Supersedes(new, old) ==
    \/ new.delHlc > old.delHlc /\ \A f \in Field : new.delHlc > old.clocks[f]
    \/ new.delHlc = old.delHlc /\ \A f \in Field : new.clocks[f] >= old.clocks[f]

\* No push, whether re-sent, late or seeded from an old replica, ever sets a
\* row of the room back: applyOp lets only newer clocks in.  (An operator's
\* reset and the purge of tombstones forget on purpose.)
RoomNeverRegresses ==
    [][left'["purge"] = left["purge"] /\ left'["reset"] = left["reset"] =>
         \A r \in Row : Supersedes(room'.rows[r], room.rows[r])]_vars

Lost == left["lose"] < Faults["lose"]
Purged == left["purge"] < Faults["purge"]
Wiped == left["reset"] < Faults["reset"]

\* RegistryDoc::cursor, "the last server seq this replica has fully applied":
\* a row the room last changed at or below a device's cursor is the row that
\* device holds, through drops, lost broadcasts, gaps and crashes, while the
\* room's numbering is the one the cursor counts and nothing but the socket
\* moves the cursor.
CursorHonest == ~Wiped =>
    \A d \in Device \ Https : \A r \in Held(room.rows) :
        room.rows[r].seq <= doc[d].cursor => doc[d].auth[r] = room.rows[r]

\* The same of a device without a socket, whose cursor alone decides what its
\* next hello or pull asks the room for.  With HTTPS beside the socket it fails:
\* apply_rows puts an older broadcast over a row the pull has just brought.
OfflineCursorHonest == ~Wiped =>
    \A d \in Device : sess[d] = "down" => \A r \in Held(room.rows) :
        room.rows[r].seq <= doc[d].cursor => doc[d].auth[r] = room.rows[r]

Ids(pending) == {pending[i].id : i \in DOMAIN pending}

\* The ops a step of the running program takes out of a device's queue: pairs
\* of a row and an op.
RetiredOps(d) ==
    UNION {{<<r, b.ops[r]>> : r \in DOMAIN b.ops} :
             b \in {doc[d].pending[i] : i \in
                       {j \in DOMAIN doc[d].pending :
                          doc[d].pending[j].id \notin Ids(doc'[d].pending)}}}

\* A write leaves the outgoing queue only when the room has decided it: the
\* room's row carries that write's clock or a newer one, whichever transport
\* the batch went out on and however often.  (An update the room may refuse.)
RetiredMeansDecided ==
    [][left'["crash"] = left["crash"] /\ ~Wiped /\ ~Purged =>
         \A d \in Device : \A x \in RetiredOps(d) :
            x[2].op # "update" => maxClock(room'.rows[x[1]]) >= x[2].hlc]_vars

\* "Rows go out BEFORE the ack": on the socket, the device already holds the
\* merged row when the ack retires its optimistic write, which would change
\* nothing in it any more, so what the device displays never flickers back,
\* also when the room refused the write, had it already, or purged the row.
\* (A broadcast the socket lost cannot be there, a cursor from before a reset
\* can skip it, and over HTTPS the push is retired before the pull.)
NoFlicker ==
    [][left'["crash"] = left["crash"] /\ ~Lost /\ ~Wiped =>
         \A d \in Device \ Https : \A x \in RetiredOps(d) :
            apply_op(doc'[d].auth[x[1]], x[2]) = doc'[d].auth[x[1]]]_vars

\* What a table shows: a tombstone and a row it does not hold look the same.
Shown(table) == [r \in Row |-> IF table[r].deleted THEN Absent ELSE table[r]]

\* Once writes and faults stop, every device that has only its socket shows the
\* room's rows and has the room's number, with nothing left to push, also when a purge made the room
\* forget tombstones a device missed.  (A broadcast lost on a socket that stays
\* open is only noticed when the next one leaves a gap.)
Converged ==
    \A d \in Device \ Https :
        /\ Shown(doc[d].auth) = Shown(room.rows)
        /\ doc[d].cursor = room.seq /\ doc[d].pending = <<>>

EventuallyConverged == <>[](Lost \/ Wiped \/ Converged)
=============================================================================
