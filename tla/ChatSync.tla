------------------------------ MODULE ChatSync ------------------------------
(***************************************************************************)
(* chat2: the engines of one owner's devices keep a replica of a chat      *)
(* document each and converge through the room of module ChatRoom.         *)
(*                                                                         *)
(*   - crates/sync/src/chat_client.rs: the socket actor (dial, hello,      *)
(*     catch-up, steady state) and the HTTPS task that runs beside it, both *)
(*     working on one `Shared` struct;                                     *)
(*   - crates/engine/src/chat2_host.rs, chat_persistence.rs and            *)
(*     crates/sync/src/store.rs: the Loro document behind the client, the  *)
(*     snapshot with its cursor, and the durable outbox;                   *)
(*   - crates/engine/src/doc_host.rs: opening a document, local writes and *)
(*     the checkpoint policy.                                              *)
(*                                                                         *)
(* A document is the set of batches it has applied; it is causally closed. *)
(* A batch depends on everything its author had applied when it was        *)
(* written; a batch that arrives before its dependencies is parked in      *)
(* memory, and neither snapshots nor checkpoints contain it.               *)
(***************************************************************************)
EXTENDS ChatRoom

CONSTANTS
    Host,            \* the device that hosts the chat (may be no device)
    HttpDevices,     \* devices with the plain-HTTPS transport beside the socket
    Posters,         \* devices whose document goes quiet often enough to run maintenance
    Crashers,        \* devices whose process may die
    Oversize,        \* batches above MAX_PUSH_BYTES: no row can carry them
    MaxGapRepairs    \* MAX_GAP_REPAIRS_PER_SESSION

ASSUME ClientAssumption ==
    /\ HttpDevices \subseteq Devices
    /\ Posters \subseteq Devices
    /\ Crashers \subseteq Devices
    /\ Oversize \subseteq Batches
    /\ MaxGapRepairs \in Nat

VARIABLES
    written,    \* batches that exist
    deps,       \* deps[b]: the batches b causally depends on
    doc,        \* doc[d]: batches applied to d's document
    parked,     \* parked[d]: batches held in memory until their dependencies arrive
    shared,     \* shared[d]: the `Shared` struct of d's client
    actor,      \* actor[d]: the locals of the socket actor and its session
    http,       \* http[d]: the locals of the HTTPS task (spawn_offline_sync)
    post,       \* post[d]: the checkpoint upload in progress (`checkpointing`)
    pcursor,    \* pcursor[d]: ChatPersistence.cursor
    flush,      \* flush[d]: cursor sampled by a running flush_sync, or -1
    disk,       \* disk[d]: the snapshot row, [content, cursor]
    outbox      \* outbox[d]: chat_outbox rows, kept until acknowledged

docVars == <<written, deps, doc, parked>>
diskVars == <<pcursor, flush, disk, outbox>>
clientVars == <<docVars, shared, actor, http, post, diskVars>>
vars == <<roomVars, clientVars>>

Larger(m, n) == IF m >= n THEN m ELSE n

-----------------------------------------------------------------------------
(* Types.                                                                  *)

ServerView == [known : BOOLEAN, present : BOOLEAN, many : BOOLEAN]

Shared == [cursor : Nat, pending : SUBSET Batches, server : ServerView,
           retryAt : BOOLEAN, quotaBlocked : BOOLEAN, gapRepair : BOOLEAN,
           needsCkpt : BOOLEAN]

Actor == [phase : {"down", "hello", "fetch", "backfill", "live"},
          resumed : BOOLEAN, inFlight : SUBSET Batches, repairs : Nat,
          target : Nat,      \* checkpoint_seq of the session's state frame
          gap : BOOLEAN,     \* causal_gap_generation moved during the "fetch" phase
          heal : BOOLEAN,    \* the bootstrap heal has not run yet
          reseed : BOOLEAN]  \* an unserved ServerReset event

Http == [step : {"idle", "push", "ack", "pull", "fetch", "apply"},
         todo : SUBSET Batches, ack : Nat, cur : Nat,
         st : State, rows : SUBSET Row, gap : BOOLEAN]

Post == [step : {"idle", "sampled", "sent"}, covered : Nat,
         content : SUBSET Batches, rej : SUBSET Batches]

ClientTypeOK ==
    /\ written \subseteq Batches
    /\ deps \in [Batches -> SUBSET Batches]
    /\ doc \in [Devices -> SUBSET Batches]
    /\ parked \in [Devices -> SUBSET Batches]
    /\ shared \in [Devices -> Shared]
    /\ actor \in [Devices -> Actor]
    /\ http \in [Devices -> Http]
    /\ post \in [Devices -> Post]
    /\ pcursor \in [Devices -> Nat]
    /\ flush \in [Devices -> Nat \cup {-1}]
    /\ disk \in [Devices -> [content : SUBSET Batches, cursor : Nat]]
    /\ outbox \in [Devices -> SUBSET Batches]

TypeOK == RoomTypeOK /\ ClientTypeOK

-----------------------------------------------------------------------------
(* The document, crates/engine/src/chat2_host.rs.                          *)

\* Importing S: whatever now has all its dependencies is applied, the rest
\* is parked.  `deps` is transitively closed, so one look suffices.
Known(d, S) == doc[d] \cup parked[d] \cup S
Applied(d, S) == {b \in Known(d, S) : deps[b] \subseteq Known(d, S)}

Import(d, S) ==
    /\ doc' = [doc EXCEPT ![d] = Applied(d, S)]
    /\ parked' = [parked EXCEPT ![d] = Known(d, S) \ Applied(d, S)]
    /\ UNCHANGED <<written, deps>>

\* Outbox rows with needs_checkpoint = 1: what no row can carry is flagged as
\* soon as it is journaled, and again when the outbox is loaded.
rejected_chat_updates(d) == outbox[d] \cap Oversize
pending_updates(d) == outbox[d] \ Oversize

\* The outbox rows are deleted; the snapshot and its cursor are saved as one.
acknowledge_chat_update(d, S) == outbox' = [outbox EXCEPT ![d] = @ \ S]
save_verified_snapshot_with_cursor(d, bytes, cursor) ==
    disk' = [disk EXCEPT ![d] = [content |-> bytes, cursor |-> cursor]]

\* A vacuous frontier is contained in nothing: fetching is always safe.
contains_frontier(content, frontier) == frontier # {} /\ frontier \subseteq content

\* EngineChatSink::apply_checkpoint.
apply_checkpoint(d, content, seq) ==
    /\ Import(d, content)
    /\ pcursor' = [pcursor EXCEPT ![d] = Larger(@, seq)]

IdlePost == [step |-> "idle", covered |-> 0, content |-> {}, rej |-> {}]

NoState == [t |-> "state", head |-> 0, seq |-> 0, present |-> FALSE,
            content |-> {}, many |-> FALSE]

IdleHttp == [step |-> "idle", todo |-> {}, ack |-> 0, cur |-> 0,
             st |-> NoState, rows |-> {}, gap |-> FALSE]

\* spawn_offline_sync: single-flight, and only with a transport.
spawn_offline_sync(d, h, pending) ==
    IF d \in HttpDevices /\ h.step = "idle"
    THEN [IdleHttp EXCEPT !.step = "push", !.todo = pending]
    ELSE h

DownActor(resumed, heal, reseed) ==
    [phase |-> "down", resumed |-> resumed, inFlight |-> {}, repairs |-> 0,
     target |-> 0, gap |-> FALSE, heal |-> heal, reseed |-> reseed]

NewShared(cursor, pending) ==
    [cursor |-> cursor, pending |-> pending,
     server |-> [known |-> FALSE, present |-> FALSE, many |-> FALSE],
     retryAt |-> FALSE, quotaBlocked |-> FALSE, gapRepair |-> FALSE,
     needsCkpt |-> FALSE]

ViewOf(st) == [known |-> TRUE, present |-> st.present, many |-> st.many]

-----------------------------------------------------------------------------
(* Local writes: the subscribe_local_update callback and enqueue_batch.    *)

enqueue_batch(d, b) ==
    /\ b \in Batches \ written
    /\ Author(b) = d
    /\ \A m \in 1 .. (b[2] - 1) : <<d, m>> \in written
    /\ written' = written \cup {b}
    /\ deps' = [deps EXCEPT ![b] = doc[d]]
    /\ doc' = [doc EXCEPT ![d] = @ \cup {b}]
    /\ outbox' = [outbox EXCEPT ![d] = @ \cup {b}]
    /\ shared' = [shared EXCEPT ![d].pending = @ \cup ({b} \ Oversize)]
    /\ UNCHANGED <<roomVars, parked, actor, http, post, pcursor, flush, disk>>

-----------------------------------------------------------------------------
(* The socket actor: Actor::run and run_session.                           *)

\* SessionEnd::Reconnect: the socket goes, the shared state stays, and an
\* HTTPS cycle starts.  `sh` and `h` are the values the ending step leaves.
HangUp(d, sh, h) ==
    /\ shared' = [shared EXCEPT ![d] = sh]
    /\ actor' = [actor EXCEPT ![d] = DownActor(@.resumed, @.heal, @.reseed)]
    /\ http' = [http EXCEPT ![d] = spawn_offline_sync(d, h, sh.pending)]
    /\ up' = [up EXCEPT ![d] = <<>>]
    /\ down' = [down EXCEPT ![d] = <<>>]
    /\ ready' = [ready EXCEPT ![d] = FALSE]

Dial(d) ==
    /\ actor[d].phase = "down"
    /\ actor' = [actor EXCEPT ![d].phase = "hello"]
    /\ up' = [up EXCEPT ![d] = <<HelloFrame>>]
    /\ UNCHANGED <<log, floor, ckpt, ready, down, stray, late, faults,
                   docVars, shared, http, post, diskVars>>

\* A dial that fails or times out still starts an HTTPS cycle.
DialFails(d) ==
    /\ actor[d].phase = "down"
    /\ d \in HttpDevices
    /\ http[d].step = "idle"
    /\ Spend("http")
    /\ http' = [http EXCEPT ![d] = spawn_offline_sync(d, @, shared[d].pending)]
    /\ UNCHANGED <<log, floor, ckpt, ready, up, down, stray, late,
                   docVars, shared, actor, post, diskVars>>

\* The socket dies, a deadline passes, the checkpoint download fails or a
\* redial is requested.  The pushes the room had not read are lost, or linger.
Drop(d) ==
    /\ actor[d].phase # "down"
    /\ LET sent == UNION {f.batches : f \in {g \in Range(up[d]) : g.t = "push"}} IN
       \/ /\ faults' = [faults EXCEPT !["drop"] = @ + 1]
          /\ UNCHANGED stray
       \/ /\ sent # {}
          /\ faults' = [faults EXCEPT !["drop"] = @ + 1, !["stray"] = @ + 1]
          /\ stray' = stray \cup sent
    /\ Affordable(faults')
    /\ HangUp(d, shared[d], http[d])
    /\ UNCHANGED <<log, floor, ckpt, late, docVars, post, diskVars>>

DownHead(d, t) == down[d] # <<>> /\ Head(down[d]).t = t

\* plan_catch_up: where the rows start, and whether the checkpoint comes first.
plan_catch_up(cursor, st, contained) ==
    LET from == IF cursor > st.head THEN 0 ELSE cursor IN
    IF ~st.present THEN [fetch |-> FALSE, after |-> from]
    ELSE IF contained THEN [fetch |-> FALSE, after |-> Larger(from, st.seq)]
    ELSE [fetch |-> TRUE, after |-> st.seq]

\* The session's locals once the plan is made.
StartCatchUp(act, plan, burst, st, reset) ==
    [act EXCEPT !.phase = IF plan.fetch THEN "fetch" ELSE "backfill",
                !.inFlight = burst, !.target = st.seq, !.gap = FALSE,
                !.reseed = @ \/ reset]

\* The state frame: detect a wiped room, plan the catch-up, make the plan's
\* `after` the cursor, request rows and replay the outbox.
RecvState(d) ==
    /\ actor[d].phase = "hello"
    /\ DownHead(d, "state")
    /\ LET st == Head(down[d])
           sh == shared[d]
           contained == ~st.present \/ (~sh.needsCkpt /\ contains_frontier(doc[d], st.content))
           plan == plan_catch_up(sh.cursor, st, contained)
           burst == IF sh.quotaBlocked THEN {} ELSE sh.pending
           wiped == sh.cursor > st.head
       IN
       /\ shared' = [shared EXCEPT ![d] =
              [sh EXCEPT !.cursor = plan.after, !.server = ViewOf(st),
                         !.needsCkpt = plan.fetch /\ @]]
       /\ actor' = [actor EXCEPT ![d] = StartCatchUp(@, plan, burst, st, wiped /\ d = Host)]
       /\ pcursor' = [pcursor EXCEPT ![d] = IF wiped THEN 0 ELSE @]
       /\ up' = [up EXCEPT ![d] =
              Append(@, RowsReq(plan.after, actor[d].resumed /\ ~sh.needsCkpt))
              \o (IF burst = {} THEN <<>> ELSE <<PushFrame(burst)>>)]
    /\ down' = [down EXCEPT ![d] = Tail(@)]
    /\ UNCHANGED <<log, floor, ckpt, ready, stray, late, faults,
                   docVars, http, post, flush, disk, outbox>>

\* The shared state once the checkpoint is in.
CaughtUpTo(sh, target, gap) ==
    [sh EXCEPT !.cursor = Larger(@, target), !.needsCkpt = @ /\ gap]

\* The checkpoint arrives while the row frames wait in the channel.
FetchCheckpoint(d) ==
    /\ actor[d].phase = "fetch"
    /\ apply_checkpoint(d, ckpt.content, actor[d].target)
    /\ shared' = [shared EXCEPT ![d] = CaughtUpTo(@, actor[d].target, actor[d].gap)]
    /\ actor' = [actor EXCEPT ![d].phase = "backfill"]
    /\ UNCHANGED <<roomVars, http, post, flush, disk, outbox>>

\* What one remote row does to the shared state.  The cursor walks, never
\* jumps; a row whose dependencies are missing holds it.
RowAdvance(sh, r, ok) ==
    LET gap == r.seq > sh.cursor + 1 IN
    [sh EXCEPT !.gapRepair = @ \/ gap,
               !.cursor = IF gap \/ ~ok THEN @ ELSE Larger(@, r.seq),
               !.needsCkpt = @ \/ ~ok]

\* maybe_repair_gap, run after every frame of the steady state: redial for a
\* checkpoint, request a backfill, or carry on.
maybe_repair_gap(d, sh, act, h) ==
    LET calm == act.phase # "live" \/ ~(sh.needsCkpt \/ sh.gapRepair)
        spent == sh.needsCkpt \/ act.repairs >= MaxGapRepairs
        rest == IF DownHead(d, "rows") THEN AfterRow(down[d]) ELSE Tail(down[d])
    IN
    \/ /\ calm
       /\ shared' = [shared EXCEPT ![d] = sh]
       /\ actor' = [actor EXCEPT ![d] = act]
       /\ http' = [http EXCEPT ![d] = h]
       /\ down' = [down EXCEPT ![d] = rest]
       /\ UNCHANGED <<up, ready>>
    \/ /\ ~calm /\ ~spent
       /\ shared' = [shared EXCEPT ![d] = [sh EXCEPT !.gapRepair = FALSE]]
       /\ actor' = [actor EXCEPT ![d] = [act EXCEPT !.repairs = @ + 1]]
       /\ http' = [http EXCEPT ![d] = h]
       /\ down' = [down EXCEPT ![d] = rest]
       /\ up' = [up EXCEPT ![d] = Append(@, RowsReq(sh.cursor, FALSE))]
       /\ UNCHANGED ready
    \/ /\ ~calm /\ spent
       /\ HangUp(d, [sh EXCEPT !.gapRepair = @ /\ sh.needsCkpt], h)

Receiving(d) == actor[d].phase \in {"backfill", "live"}

RecvRow(d) ==
    /\ Receiving(d)
    /\ DownHead(d, "rows")
    /\ LET r == FirstRow(Head(down[d]).rows)
           ok == r.batch \in Applied(d, {r.batch})
           sh == RowAdvance(shared[d], r, ok)
       IN
       /\ Import(d, {r.batch})
       /\ pcursor' = [pcursor EXCEPT ![d] = IF ok THEN Larger(@, sh.cursor) ELSE @]
       /\ maybe_repair_gap(d, sh, actor[d],
              [http[d] EXCEPT !.gap = @ \/ (~ok /\ http[d].step = "fetch")])
    /\ UNCHANGED <<log, floor, ckpt, stray, late, faults, post, flush, disk,
                   outbox>>

\* Mutant: an acknowledgement carries the cursor over rows not yet seen.
AckAdvanceJumps(cursor, s) == Larger(cursor, s)

\* The contiguity rule for an acknowledgement of the device's own push.
AckAdvance(cursor, s) == IF s > cursor + 1 THEN cursor ELSE Larger(cursor, s)

\* Mutant: a grant does not set the clock for the next batch.
QuotaGrantNoRearm(sh, left) == [sh EXCEPT !.quotaBlocked = @ /\ left # {}]

\* The quota drain: each grant re-arms the clock for the next head batch until
\* the queue is empty.
QuotaGrant(sh, left) ==
    [sh EXCEPT !.quotaBlocked = @ /\ left # {},
               !.retryAt = @ \/ (sh.quotaBlocked /\ left # {})]

\* acknowledge_update, the cursor rule and the quota drain.
RecvAck(d) ==
    /\ Receiving(d)
    /\ DownHead(d, "ack")
    /\ LET f == Head(down[d])
           old == shared[d]
           left == old.pending \ {f.batch}
           sh == [QuotaGrant(old, left) EXCEPT
                      !.pending = left,
                      !.cursor = AckAdvance(@, f.seq),
                      !.gapRepair = @ \/ f.seq > old.cursor + 1]
       IN
       /\ acknowledge_chat_update(d, {f.batch})
       /\ pcursor' = [pcursor EXCEPT ![d] = Larger(@, sh.cursor)]
       /\ maybe_repair_gap(d, sh, actor[d], http[d])
    /\ UNCHANGED <<log, floor, ckpt, stray, late, faults, docVars, post, flush, disk>>

\* Mutant: a quota refusal is taken for a final one.
RecvQuotaGivesUp(d) ==
    /\ Receiving(d)
    /\ DownHead(d, "quota")
    /\ acknowledge_chat_update(d, {Head(down[d]).batch})
    /\ maybe_repair_gap(d, [shared[d] EXCEPT !.pending = @ \ {Head(down[d]).batch}],
                        actor[d], http[d])
    /\ UNCHANGED <<log, floor, ckpt, stray, late, faults, docVars, post,
                   pcursor, flush, disk>>

\* The room refused the push for now: keep the batch and set the retry clock.
RecvQuota(d) ==
    /\ Receiving(d)
    /\ DownHead(d, "quota")
    /\ maybe_repair_gap(d, [shared[d] EXCEPT !.quotaBlocked = TRUE, !.retryAt = TRUE],
                        actor[d], http[d])
    /\ UNCHANGED <<log, floor, ckpt, stray, late, faults, docVars, post, diskVars>>

\* ROWS_DONE ends the backfill; the next maybe_repair_gap sees the steady state.
RecvDone(d) ==
    /\ Receiving(d)
    /\ DownHead(d, "done")
    /\ maybe_repair_gap(d, shared[d],
                        [actor[d] EXCEPT !.phase = "live", !.resumed = TRUE], http[d])
    /\ UNCHANGED <<log, floor, ckpt, stray, late, faults, docVars, post, diskVars>>

\* A nudge in the steady state sends what this session has not sent yet.
push_pending(d) ==
    /\ actor[d].phase = "live"
    /\ ~shared[d].quotaBlocked
    /\ LET new == shared[d].pending \ actor[d].inFlight IN
       /\ new # {}
       /\ up' = [up EXCEPT ![d] = Append(@, PushFrame(new))]
       /\ actor' = [actor EXCEPT ![d].inFlight = (@ \cap shared[d].pending) \cup new]
    /\ UNCHANGED <<log, floor, ckpt, ready, down, stray, late, faults,
                   docVars, shared, http, post, diskVars>>

\* The quota retry clock: probe with the head batch only.
push_head(d) ==
    /\ actor[d].phase = "live"
    /\ shared[d].retryAt
    /\ shared' = [shared EXCEPT ![d].retryAt = FALSE]
    /\ LET pending == shared[d].pending IN
       up' = [up EXCEPT ![d] =
                 IF pending = {} THEN @ ELSE Append(@, PushFrame({First(pending)}))]
    /\ UNCHANGED <<log, floor, ckpt, ready, down, stray, late, faults,
                   docVars, actor, http, post, diskVars>>

-----------------------------------------------------------------------------
(* The HTTPS task, which may overlap the socket session.                   *)

\* POST the next queued batch; the room answers, or the request is lost and
\* the task goes on to the pull.
HttpPush(d) ==
    /\ http[d].step = "push"
    /\ http[d].todo # {}
    /\ LET b == First(http[d].todo) IN
       /\ postRow(b)
       /\ http' = [http EXCEPT ![d].step = "ack", ![d].ack = AckSeq(b)]
    /\ UNCHANGED <<stray, faults, docVars, shared, actor, post, diskVars>>

HttpAck(d) ==
    /\ http[d].step = "ack"
    /\ LET b == First(http[d].todo)
           cursor == AckAdvance(shared[d].cursor, http[d].ack)
       IN
       /\ acknowledge_chat_update(d, {b})
       /\ shared' = [shared EXCEPT ![d].pending = @ \ {b}, ![d].cursor = cursor]
       /\ pcursor' = [pcursor EXCEPT ![d] = Larger(@, cursor)]
       /\ http' = [http EXCEPT ![d].step = "push", ![d].todo = @ \ {b}]
    /\ UNCHANGED <<roomVars, docVars, actor, post, flush, disk>>

\* GET /rows from the cursor of this moment.
HttpPull(d) ==
    /\ http[d].step = "push"
    /\ http[d].todo = {}
    /\ http' = [http EXCEPT ![d] =
           [@ EXCEPT !.step = "pull", !.cur = shared[d].cursor, !.st = logStats,
                     !.rows = rowsAfter(shared[d].cursor, {})]]
    /\ UNCHANGED <<roomVars, docVars, shared, actor, post, diskVars>>

\* Mutant: the cursor is set to the answer's head before its rows are applied.
HttpBaseAtHead(sh, h) ==
    [sh EXCEPT !.cursor = Larger(@, h.st.head), !.needsCkpt = @ /\ h.gap]

\* What the task does to the shared state once its catch-up base is in place.
HttpBase(sh, h) ==
    LET plan == plan_catch_up(h.cur, h.st, h.step = "pull") IN
    [sh EXCEPT !.cursor = IF @ > h.st.head THEN plan.after ELSE Larger(@, plan.after),
               !.needsCkpt = @ /\ h.gap]

\* The response is read.  One requested above a cursor that was lowered in the
\* meantime is discarded; otherwise the rows follow, after the checkpoint if
\* its frontier is missing here.
HttpState(d) ==
    /\ http[d].step = "pull"
    /\ LET h == http[d]
           sh == shared[d]
           view == [sh EXCEPT !.server = ViewOf(h.st)]
           stale == sh.cursor < h.cur /\ h.cur <= h.st.head
           contained == ~h.st.present
                        \/ (~sh.needsCkpt /\ contains_frontier(doc[d], h.st.content))
       IN
       /\ \/ /\ stale
             /\ http' = [http EXCEPT ![d] = IdleHttp]
             /\ shared' = [shared EXCEPT ![d] = view]
          \/ /\ ~stale /\ contained
             /\ http' = [http EXCEPT ![d].step = "apply"]
             /\ shared' = [shared EXCEPT ![d] = HttpBase(view, h)]
          \/ /\ ~stale /\ ~contained
             /\ http' = [http EXCEPT ![d].step = "fetch", ![d].gap = FALSE]
             /\ shared' = [shared EXCEPT ![d] = view]
       /\ pcursor' = [pcursor EXCEPT ![d] =
              IF ~stale /\ h.cur > h.st.head THEN 0 ELSE @]
    /\ UNCHANGED <<roomVars, docVars, actor, post, flush, disk, outbox>>

HttpFetch(d) ==
    /\ http[d].step = "fetch"
    /\ apply_checkpoint(d, ckpt.content, http[d].st.seq)
    /\ shared' = [shared EXCEPT ![d] = HttpBase(@, http[d])]
    /\ http' = [http EXCEPT ![d].step = "apply"]
    /\ UNCHANGED <<roomVars, actor, post, flush, disk, outbox>>

HttpRow(d) ==
    /\ http[d].step = "apply"
    /\ http[d].rows # {}
    /\ LET r == FirstRow(http[d].rows)
           ok == r.batch \in Applied(d, {r.batch})
           sh == RowAdvance(shared[d], r, ok)
       IN
       /\ Import(d, {r.batch})
       /\ pcursor' = [pcursor EXCEPT ![d] = IF ok THEN Larger(@, sh.cursor) ELSE @]
       /\ shared' = [shared EXCEPT ![d] = sh]
       /\ actor' = [actor EXCEPT ![d].gap = @ \/ (~ok /\ actor[d].phase = "fetch")]
       /\ http' = [http EXCEPT ![d].rows = @ \ {r}]
    /\ UNCHANGED <<roomVars, post, flush, disk, outbox>>

HttpDone(d) ==
    /\ http[d].step = "apply"
    /\ http[d].rows = {}
    /\ http' = [http EXCEPT ![d] = IdleHttp]
    /\ UNCHANGED <<roomVars, docVars, shared, actor, post, diskVars>>

\* A failed POST goes on to the pull; a failed pull or download ends the task.
HttpFails(d) ==
    /\ http[d].step \in {"push", "ack", "pull", "fetch"}
    /\ http[d].step = "push" => http[d].todo # {}
    /\ Spend("http")
    /\ http' = [http EXCEPT ![d] =
           IF @.step \in {"push", "ack"}
           THEN [@ EXCEPT !.step = "push", !.todo = {}] ELSE IdleHttp]
    /\ UNCHANGED <<log, floor, ckpt, ready, up, down, stray, late,
                   docVars, shared, actor, post, diskVars>>

-----------------------------------------------------------------------------
(* Persistence: chat_persistence.rs.                                       *)

\* Mutant: the cursor is saved at once, the snapshot later.
FlushBeginSavesCursor(d) ==
    /\ d \in Crashers
    /\ flush[d] = -1
    /\ disk[d] # [content |-> doc[d], cursor |-> pcursor[d]]
    /\ flush' = [flush EXCEPT ![d] = pcursor[d]]
    /\ disk' = [disk EXCEPT ![d].cursor = pcursor[d]]
    /\ UNCHANGED <<roomVars, docVars, shared, actor, http, post, pcursor, outbox>>

\* flush_sync samples the cursor first ... (only a process that may die ever
\* reads its snapshot back, so the others need not write one).
FlushBegin(d) ==
    /\ d \in Crashers
    /\ flush[d] = -1
    /\ disk[d] # [content |-> doc[d], cursor |-> pcursor[d]]
    /\ flush' = [flush EXCEPT ![d] = pcursor[d]]
    /\ UNCHANGED <<roomVars, docVars, shared, actor, http, post, pcursor, disk, outbox>>

\* Mutant: the sample is cleared before it is stored.
FlushCommitClearsFirst(d) ==
    /\ flush[d] # -1
    /\ flush' = [flush EXCEPT ![d] = -1]
    /\ save_verified_snapshot_with_cursor(d, doc[d], flush'[d])
    /\ UNCHANGED <<roomVars, docVars, shared, actor, http, post, pcursor, outbox>>

\* ... and then exports the document; both commit in one transaction.
FlushCommit(d) ==
    /\ flush[d] # -1
    /\ save_verified_snapshot_with_cursor(d, doc[d], flush[d])
    /\ flush' = [flush EXCEPT ![d] = -1]
    /\ UNCHANGED <<roomVars, docVars, shared, actor, http, post, pcursor, outbox>>

\* Mutant: the journal is not replayed into the document.
ReopenedSnapshotOnly(d) == disk[d].content

\* What opening the document imports: the snapshot, and the outbox updates it
\* may not contain yet.
Reopened(d) == disk[d].content \cup outbox[d]

\* The process dies and the document is opened again.
Crash(d) ==
    /\ d \in Crashers
    /\ Spend("crash")
    /\ LET kept == Reopened(d)
           whole == {b \in kept : deps[b] \subseteq kept}
       IN
       /\ doc' = [doc EXCEPT ![d] = whole]
       /\ parked' = [parked EXCEPT ![d] = kept \ whole]
    /\ shared' = [shared EXCEPT ![d] = NewShared(disk[d].cursor, pending_updates(d))]
    /\ actor' = [actor EXCEPT ![d] = DownActor(FALSE, TRUE, FALSE)]
    /\ http' = [http EXCEPT ![d] = spawn_offline_sync(d, IdleHttp, pending_updates(d))]
    /\ post' = [post EXCEPT ![d] = IdlePost]
    /\ pcursor' = [pcursor EXCEPT ![d] = disk[d].cursor]
    /\ flush' = [flush EXCEPT ![d] = -1]
    /\ up' = [up EXCEPT ![d] = <<>>]
    /\ down' = [down EXCEPT ![d] = <<>>]
    /\ ready' = [ready EXCEPT ![d] = FALSE]
    /\ UNCHANGED <<log, floor, ckpt, stray, late, written, deps, disk, outbox>>

-----------------------------------------------------------------------------
(* Checkpoints: doc_host.rs, spawn_chat2_checkpoint and its callers.       *)

\* Row threshold at a quiesce tick; bootstrap heal of a room without a
\* checkpoint; re-seed after ServerReset; updates no row can carry.
WantsCheckpoint(d) ==
    LET view == shared[d].server IN
    \/ d \in Posters /\ view.many
    \/ d = Host /\ actor[d].heal /\ view.known /\ ~view.present /\ doc[d] # {}
    \/ d = Host /\ actor[d].reseed
    \/ rejected_chat_updates(d) # {} /\ (view.known \/ d = Host)

\* A started upload serves the reset, and the heal if that is what it was for.
Served(act, view) == [act EXCEPT !.heal = @ /\ view.present, !.reseed = FALSE]

\* One upload at a time; seqCovered is the client's cursor of this moment.
CheckpointBegin(d) ==
    /\ post[d].step = "idle"
    /\ WantsCheckpoint(d)
    /\ post' = [post EXCEPT ![d] =
           [IdlePost EXCEPT !.step = "sampled", !.covered = shared[d].cursor]]
    /\ actor' = [actor EXCEPT ![d] = Served(@, shared[d].server)]
    /\ UNCHANGED <<roomVars, docVars, shared, http, diskVars>>

\* The document is exported afterwards, with the obligations it discharges.
CheckpointExport(d) ==
    /\ post[d].step = "sampled"
    /\ post' = [post EXCEPT ![d] =
           [@ EXCEPT !.step = "sent", !.content = doc[d],
                     !.rej = rejected_chat_updates(d) \cap doc[d]]]
    /\ UNCHANGED <<roomVars, docVars, shared, actor, http, diskVars>>

\* The POST and its answer.  Success retires the obligations the snapshot
\* carried and folds the new checkpoint into the cached server view.
CheckpointPost(d) ==
    /\ post[d].step = "sent"
    /\ LET p == post[d]
           done == Committable(p.covered)
       IN
       IF done
       THEN /\ commitCheckpoint(p.covered, p.content)
            /\ acknowledge_chat_update(d, p.rej)
            /\ shared' = [shared EXCEPT ![d].server =
                   IF @.known THEN [known |-> TRUE, present |-> TRUE, many |-> FALSE]
                   ELSE @]
       ELSE UNCHANGED <<floor, ckpt, outbox, shared>>
    /\ post' = [post EXCEPT ![d] = IdlePost]
    /\ UNCHANGED <<log, ready, up, down, stray, late, faults,
                   docVars, actor, http, pcursor, flush, disk>>

\* The client gives up on the POST; the room may still see it later.
CheckpointTimeout(d) ==
    /\ post[d].step = "sent"
    /\ Spend("late")
    /\ late' = late \cup {[covered |-> post[d].covered, content |-> post[d].content]}
    /\ post' = [post EXCEPT ![d] = IdlePost]
    /\ UNCHANGED <<log, floor, ckpt, ready, up, down, stray,
                   docVars, shared, actor, http, diskVars>>

-----------------------------------------------------------------------------
Init ==
    /\ RoomInit
    /\ written = {}
    /\ deps = [b \in Batches |-> {}]
    /\ doc = [d \in Devices |-> {}]
    /\ parked = [d \in Devices |-> {}]
    /\ shared = [d \in Devices |-> NewShared(0, {})]
    /\ actor = [d \in Devices |-> DownActor(FALSE, TRUE, FALSE)]
    /\ http = [d \in Devices |-> spawn_offline_sync(d, IdleHttp, {})]
    /\ post = [d \in Devices |-> IdlePost]
    /\ pcursor = [d \in Devices |-> 0]
    /\ flush = [d \in Devices |-> -1]
    /\ disk = [d \in Devices |-> [content |-> {}, cursor |-> 0]]
    /\ outbox = [d \in Devices |-> {}]

RoomStep(d) == handleHello(d) \/ handleRowsReq(d) \/ handlePush(d)

SessionStep(d) ==
    \/ Dial(d) \/ RecvState(d) \/ FetchCheckpoint(d) \/ RecvRow(d) \/ RecvAck(d)
    \/ RecvQuota(d) \/ RecvDone(d) \/ push_pending(d) \/ push_head(d)

HttpStep(d) ==
    \/ HttpPush(d) \/ HttpAck(d) \/ HttpPull(d) \/ HttpState(d) \/ HttpFetch(d)
    \/ HttpRow(d) \/ HttpDone(d)

CheckpointStep(d) == CheckpointBegin(d) \/ CheckpointExport(d) \/ CheckpointPost(d)

FlushStep(d) == FlushBegin(d) \/ FlushCommit(d)

Fault(d) ==
    \/ Drop(d) \/ DialFails(d) \/ HttpFails(d) \/ Crash(d) \/ CheckpointTimeout(d)
    \/ refusePush(d) /\ UNCHANGED clientVars

Next ==
    \/ \E d \in Devices :
        \/ \E b \in Batches : enqueue_batch(d, b)
        \/ RoomStep(d) /\ UNCHANGED clientVars
        \/ SessionStep(d)
        \/ HttpStep(d)
        \/ FlushStep(d)
        \/ CheckpointStep(d)
        \/ Fault(d)
    \/ \E b \in stray : handleStrayPush(b) /\ UNCHANGED clientVars
    \/ \E p \in late : handleLateCheckpoint(p) /\ UNCHANGED clientVars

Spec == Init /\ [][Next]_vars

\* The room's object handles what it received, the actor and the HTTPS task
\* keep polling their select loops, and an upload that started is posted.
FairSpec ==
    /\ Spec
    /\ \A d \in Devices :
        /\ WF_vars(RoomStep(d) /\ UNCHANGED clientVars)
        /\ WF_vars(SessionStep(d))
        /\ WF_vars(HttpStep(d))
        /\ WF_vars(CheckpointExport(d) \/ CheckpointPost(d))

-----------------------------------------------------------------------------
(* Properties.                                                             *)

\* A batch the room numbered is never lost to a checkpoint: every batch of the
\* log is still obtainable, as a row or inside the checkpoint that pruned it
\* (commitCheckpoint deletes rows on the word of the client's cursor).
RoomKeepsEveryOp == Range(log) \subseteq RoomOps

\* The outbox row of a batch goes only when the room has the batch: whatever
\* was written is journaled on its author's disk or obtainable from the room.
NoLostOps == \A b \in written : b \in outbox[Author(b)] \cup RoomOps

\* In a joined session the cursor is honest: every row up to it is reflected in
\* the document (the contiguity rule of apply_remote_row and of the ACK arm).
CursorHonest == \A d \in Devices :
    actor[d].phase \in {"backfill", "live"} => Covered(shared[d].cursor) \subseteq doc[d]

\* Catching up from `content` and `cursor` against the room as it is now reads
\* the checkpoint if the plan says so and the rows above the plan's `after`;
\* what lies below must be there already.
CatchUpSkipsNothing(content, cursor, needs) ==
    LET contained == ~ckpt.present \/ (~needs /\ contains_frontier(content, ckpt.content))
        plan == plan_catch_up(cursor, logStats, contained)
    IN  Covered(plan.after) \subseteq content \cup (IF plan.fetch THEN ckpt.content ELSE {})

\* No crash, lost answer or overlapping HTTPS cycle leaves a device, running or
\* restarted from its snapshot, with a cursor that makes the next catch-up of
\* run_session skip an update for good.
CursorRecoverable == \A d \in Devices :
    /\ CatchUpSkipsNothing(doc[d] \cup parked[d], shared[d].cursor, shared[d].needsCkpt)
    /\ CatchUpSkipsNothing(disk[d].content, disk[d].cursor, FALSE)

\* A joined session with nothing in flight and no repair pending.
Quiet(d) == /\ actor[d].phase = "live" /\ ready[d]
            /\ up[d] = <<>> /\ down[d] = <<>> /\ ~shared[d].gapRepair

\* What the room has numbered together with all it depends on.
Grounded == {b \in Range(log) : deps[b] \subseteq Range(log)}

\* A session at rest misses no row the room could still send it; and it misses
\* nothing at all unless a checkpoint overtook its cursor and no row of another
\* device has arrived since, which is what tells it (the gap repair of run_session:
\* backfill first, then redial for the checkpoint).  A row that came before its
\* dependencies may stay parked, but only while the room has not numbered them.
QuietMeansComplete == \A d \in Devices : Quiet(d) =>
    /\ {log[s] : s \in LiveSeqs} \subseteq doc[d] \cup parked[d]
    /\ (shared[d].cursor >= floor \/ \E s \in LiveSeqs : Author(log[s]) # d)
          => Range(log) \subseteq doc[d] \cup parked[d] /\ Grounded \subseteq doc[d]

\* The journal promise of enqueue_batch and acknowledge: a batch that a row can
\* carry leaves its author's outbox only once the room has numbered it, whatever
\* is refused, dropped, re-sent over HTTPS or lost with the process.
JournaledUntilLogged == \A b \in written \ Oversize :
    b \in outbox[Author(b)] \/ b \in Range(log)

\* chat2 implements the shared transcript: a device holds what its document
\* contains or has parked, and the room stores the numbered batches that its
\* checkpoint or its live rows still contain.
Transcript == INSTANCE SharedTranscript WITH
    stored <- RoomOps \cap Range(log), held <- [d \in Devices |-> doc[d] \cup parked[d]]
ImplementsTranscript == Transcript!TranscriptSpec

\* The outbox drains: under fair scheduling every update that was written becomes
\* obtainable from the room, whatever is refused in between (the retry clock of
\* the quota arm and of push_head, chat_client.rs:279).
EveryWriteReachesRoom == \A b \in Batches : (b \in written) ~> (b \in RoomOps)

\* The replicas converge: once faults stop, every device has every update and
\* keeps it, unless a checkpoint overtook its cursor and it has yet to redial.
EventuallyConverged ==
    <>[](\A d \in Devices : shared[d].cursor >= floor => written \subseteq doc[d])
=============================================================================
