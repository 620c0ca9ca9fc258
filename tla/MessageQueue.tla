---------------------------- MODULE MessageQueue ----------------------------
(***************************************************************************)
(* The pending-message queue of one chat on the device that hosts it        *)
(* (crates/doc/src/queue.rs, crates/engine/src/doc_host.rs): rows typed on   *)
(* any device wait in the document until the agent is free.  The host hands  *)
(* the head to the agent (drain_queue), a user can push one row ahead        *)
(* (send_queued_now, steer_queued_now), cancel the turn, reorder, retype or  *)
(* remove rows, and lock a row for editing with a lease that expires.        *)
(*                                                                         *)
(* drain_lock is held by every action below that says lock = Free; only the  *)
(* sends and the interrupt hold it across an await, and only they are split. *)
(* A commit of the host's document is journaled before it returns            *)
(* (ChatSync), so a crash keeps the queue and loses what is in memory.       *)
(***************************************************************************)
EXTENDS Naturals, Sequences, SequencesExt, FiniteSets

CONSTANTS
    Row,          \* message ids
    Text,         \* what a user can type
    Editor,       \* clients that edit queued rows
    Lease,        \* lease ids (new_id)
    Executor,     \* tasks that execute commands: drain_commands, a peer relay
    Steers,       \* what the harnesses a chat may use answer to steers_mid_turn
    LeaseTicks,   \* QUEUE_EDIT_LEASE_MS
    MaxTime,      \* bound: the last instant
    Faults        \* bounds: how often each optional step happens

NoText == "no text"
NoLease == "no lease"
Free == "free"
Nobody == "no row"

ASSUME QueueAssumption ==
    /\ Steers \subseteq BOOLEAN
    /\ LeaseTicks \in Nat \ {0}
    /\ MaxTime \in Nat
    /\ Nobody \notin Row
    /\ Executor \cap {Free, "drain", "send", "steer"} = {}

VARIABLES
    queue,    \* the document's `queue` list: [id, text, gate] in send order
    paused,   \* ChatDocHandle.queue_paused
    turn,     \* a turn is in flight (SessionsEngine.turn_in_flight)
    lock,     \* who holds drain_lock across an await, or Free
    taken,    \* the row the lock holder has taken, with its was_paused
    exec,     \* exec[x]: where executor x is
    wake,     \* the document or a session status changed since the last drain
    timers,   \* armed expiry wakes: [id, lease, until]
    edit,     \* edit[e]: the reply client e holds: [id, lease, text, until]
    now,      \* the clock
    leases,   \* lease ids handed out
    fate,     \* what became of each row: unborn, queued, sent, dropped, lost
    frozen,   \* cancelled or recovered, and no user has sent anything since
    left      \* bounds left

hostVars == <<queue, paused, turn, lock, taken, exec, wake, timers>>
vars == <<hostVars, edit, now, leases, fate, frozen, left>>

Gate(kind, lease, until, base) ==
    [kind |-> kind, lease |-> lease, until |-> until, base |-> base]
Open == Gate("none", NoLease, 0, NoText)
GateType ==
    {g \in [kind : {"none", "editing", "review"}, lease : Lease \cup {NoLease},
            until : 0..(MaxTime + LeaseTicks), base : Text \cup {NoText}] :
        g.kind # "none" => g.lease \in Lease}
RowType == [id : Row, text : Text, gate : GateType]
TimerType == [id : Row, lease : Lease, until : 0..(MaxTime + LeaseTicks)]
EditType == [id : Row, lease : Lease, text : Text, until : 0..(MaxTime + LeaseTicks)]
NoRow == [id |-> Nobody]
NoEdit == [id |-> Nobody]

\* One more optional step of this kind: its own bound, and the bound on all.
Spend(kind) ==
    /\ left[kind] > 0 /\ left["any"] > 0
    /\ left' = [left EXCEPT ![kind] = @ - 1, !["any"] = @ - 1]

-----------------------------------------------------------------------------
(* The list operations of queue.rs.                                        *)

Ids(q) == {q[i].id : i \in DOMAIN q}
index_of(r) == CHOOSE i \in DOMAIN queue : queue[i].id = r
Item(r) == queue[index_of(r)]

remove_queued(r) == RemoveAt(queue, index_of(r))

\* Mutant: the row comes back without its delivery gate field.
insert_queuedBare(item) == <<[id |-> item.id, text |-> item.text]>> \o queue

insert_queued(item) == <<item>> \o queue
set_queued_text(r, t) == [queue EXCEPT ![index_of(r)].text = t]
set_queued_delivery_gate(r, g) == [queue EXCEPT ![index_of(r)].gate = g]
finish_queued_edit(r, t) ==
    [queue EXCEPT ![index_of(r)].text = t, ![index_of(r)].gate = Open]
move_queued(r, to) == InsertAt(remove_queued(r), to, Item(r))

Expired(g) == g.kind = "editing" /\ g.until <= now
ReviewRequired(g) == Gate("review", g.lease, 0, g.base)

\* arm_queue_edit_expiry: a wake for this lease generation and deadline.
Timer(r, g) == [id |-> r, lease |-> g.lease, until |-> g.until]

\* Mutant: only the head's edit is armed again.
ArmedAtOpenHeadOnly ==
    {Timer(queue[i].id, queue[i].gate) :
        i \in {j \in DOMAIN queue : j = 1 /\ queue[j].gate.kind = "editing"}}

\* arm_existing_queue_edit_expiries: one wake per row under edit.
ArmedAtOpen ==
    {Timer(queue[i].id, queue[i].gate) :
        i \in {j \in DOMAIN queue : queue[j].gate.kind = "editing"}}

-----------------------------------------------------------------------------
Init ==
    /\ queue = <<>> /\ timers = {}
    /\ paused = FALSE /\ turn = FALSE /\ wake = FALSE
    /\ lock = Free /\ taken = [row |-> NoRow, was_paused |-> FALSE]
    /\ exec = [x \in Executor |-> "idle"]
    /\ edit = [e \in Editor |-> NoEdit]
    /\ now = 0 /\ leases = {}
    /\ fate = [r \in Row |-> "unborn"]
    /\ frozen = FALSE
    /\ left = Faults

\* A document commit: the new queue, and the change subscription's wake.
Commit(q) == queue' = q /\ wake' = TRUE

-----------------------------------------------------------------------------
(* Writes any device may make, without the lock.                           *)

Pushed(r, t) ==
    /\ fate[r] = "unborn"
    /\ Commit(Append(queue, [id |-> r, text |-> t, gate |-> Open]))
    /\ fate' = [fate EXCEPT ![r] = "queued"]

queue_message(r, t) ==
    /\ Pushed(r, t)
    /\ UNCHANGED <<paused, turn, lock, taken, exec, timers, edit, now, leases,
                   frozen, left>>

\* deliver_prompt for a busy agent that takes prompts only between turns.
held_until_turn_end(x, r, t) ==
    /\ exec[x] = "idle"
    /\ turn /\ FALSE \in Steers
    /\ Pushed(r, t)
    /\ UNCHANGED <<paused, turn, lock, taken, exec, timers, edit, now, leases,
                   frozen, left>>

update_queued_message(r, t) ==
    /\ Spend("update")
    /\ r \in Ids(queue)
    /\ \/ /\ t # Item(r).text
          /\ Commit(set_queued_text(r, t))
          /\ UNCHANGED fate
       \/ /\ Commit(remove_queued(r))      \* the box was emptied
          /\ fate' = [fate EXCEPT ![r] = "dropped"]
    /\ UNCHANGED <<paused, turn, lock, taken, exec, timers, edit, now, leases,
                   frozen>>

move_queued_message(r, to) ==
    /\ Spend("move")
    /\ r \in Ids(queue) /\ to \in DOMAIN queue /\ to # index_of(r)
    /\ Commit(move_queued(r, to))
    /\ UNCHANGED <<paused, turn, lock, taken, exec, timers, edit, now, leases,
                   fate, frozen>>

-----------------------------------------------------------------------------
(* Operations under the lock.                                              *)

\* Mutant: the removal is acknowledged for a row a send has already taken.
remove_queued_messageTaken(r) ==
    /\ r \in Ids(queue) \cup {taken.row.id}
    /\ Commit(SelectSeq(queue, LAMBDA m : m.id # r))
    /\ fate' = [fate EXCEPT ![r] = "dropped"]
    /\ UNCHANGED <<paused, turn, lock, taken, exec, timers, edit, now, leases,
                   frozen, left>>

remove_queued_message(r) ==
    /\ lock = Free
    /\ r \in Ids(queue)
    /\ Commit(remove_queued(r))
    /\ fate' = [fate EXCEPT ![r] = "dropped"]
    /\ UNCHANGED <<paused, turn, lock, taken, exec, timers, edit, now, leases,
                   frozen, left>>

\* Acquired: an unexpired lease of someone else is the only refusal.
begin_queued_message_edit(e, r, l) ==
    /\ lock = Free
    /\ edit[e] = NoEdit
    /\ r \in Ids(queue)
    /\ Item(r).gate.kind = "editing" => Expired(Item(r).gate)
    /\ l \in Lease \ leases
    /\ LET g == Gate("editing", l, now + LeaseTicks, Item(r).text) IN
       /\ Commit(set_queued_delivery_gate(r, g))
       /\ timers' = timers \cup {Timer(r, g)}
       /\ edit' = [edit EXCEPT ![e] = [id |-> r, lease |-> l, text |-> Item(r).text,
                                       until |-> g.until]]
    /\ leases' = leases \cup {l}
    /\ UNCHANGED <<paused, turn, lock, taken, exec, now, fate, frozen, left>>

\* An expired generation is never revived.
renew_queued_message_edit(e) ==
    /\ lock = Free
    /\ edit[e] # NoEdit
    /\ LET r == edit[e].id
           g == Item(r).gate
           renewed == [g EXCEPT !.until = now + LeaseTicks] IN
       /\ r \in Ids(queue)
       /\ g.kind = "editing" /\ g.lease = edit[e].lease
       /\ \/ /\ Expired(g)
             /\ Commit(set_queued_delivery_gate(r, ReviewRequired(g)))
             /\ UNCHANGED <<timers, edit>>
          \/ /\ ~Expired(g) /\ renewed # g
             /\ Commit(set_queued_delivery_gate(r, renewed))
             /\ timers' = timers \cup {Timer(r, renewed)}
             /\ edit' = [edit EXCEPT ![e].until = renewed.until]
    /\ UNCHANGED <<paused, turn, lock, taken, exec, now, leases, fate,
                   frozen, left>>

\* The lease of a finish must be the row's current generation.
OwnsGate(e) ==
    /\ edit[e].id \in Ids(queue)
    /\ Item(edit[e].id).gate.kind # "none"
    /\ Item(edit[e].id).gate.lease = edit[e].lease

\* Mutant: the lease alone decides, the text may have moved on.
MayCommitAnyText(e) == OwnsGate(e)

\* A commit needs the text the editor was given to be the text still there.
MayCommit(e) ==
    /\ OwnsGate(e)
    /\ LET m == Item(edit[e].id) IN
       edit[e].text = m.gate.base /\ m.text = m.gate.base

finish_queued_message_edit(e, action, t) ==
    /\ lock = Free
    /\ edit[e] # NoEdit
    /\ LET r == edit[e].id IN
       \/ /\ ~OwnsGate(e) \/ (action = "commit" /\ ~MayCommit(e))
          /\ UNCHANGED <<queue, wake, fate>>      \* Missing, Lost, Conflict
       \/ /\ action = "commit" /\ MayCommit(e)
          /\ Commit(finish_queued_edit(r, t))
          /\ UNCHANGED fate
       \/ /\ action = "cancel" /\ OwnsGate(e)     \* and ReleaseUnchanged
          /\ Commit(finish_queued_edit(r, Item(r).text))
          /\ UNCHANGED fate
       \/ /\ action = "discard" /\ OwnsGate(e)    \* and a commit of no text
          /\ Commit(remove_queued(r))
          /\ fate' = [fate EXCEPT ![r] = "dropped"]
    /\ edit' = [edit EXCEPT ![e] = NoEdit]
    /\ UNCHANGED <<paused, turn, lock, taken, exec, timers, now, leases,
                   frozen, left>>

\* Mutant: a stale timer expires a lease that was renewed.
DueStale(tm) ==
    /\ tm.id \in Ids(queue)
    /\ LET g == Item(tm.id).gate IN g.kind = "editing" /\ g.lease = tm.lease

\* The timer's own lease generation and deadline, and the deadline has passed.
Due(tm) ==
    /\ tm.id \in Ids(queue)
    /\ LET g == Item(tm.id).gate IN
       g.kind = "editing" /\ g.lease = tm.lease /\ g.until = tm.until /\ g.until <= now

expire_queued_message_edit(tm) ==
    /\ lock = Free
    /\ tm.until <= now
    /\ timers' = timers \ {tm}
    /\ IF Due(tm)
       THEN Commit(set_queued_delivery_gate(tm.id, ReviewRequired(Item(tm.id).gate)))
       ELSE UNCHANGED <<queue, wake>>
    /\ UNCHANGED <<paused, turn, lock, taken, exec, edit, now, leases, fate,
                   frozen, left>>

-----------------------------------------------------------------------------
(* Sending: the lock is held from the take to the outcome.                 *)

NothingTaken == [row |-> NoRow, was_paused |-> FALSE]

\* take_queued: a gated row is never handed out.
Takeable(r) == r \in Ids(queue) /\ Item(r).gate.kind = "none"

\* drain_queue takes the lock; a paused queue ends it there.
drain_queue ==
    /\ lock = Free
    /\ wake
    /\ wake' = FALSE
    /\ lock' = IF paused THEN Free ELSE "drain"
    /\ UNCHANGED <<queue, paused, turn, taken, exec, timers, edit, now, leases,
                   fate, frozen, left>>

\* What the drain finds at the head.
AtHead ==
    IF queue = <<>> THEN "nothing"
    ELSE IF Expired(Head(queue).gate) THEN "overdue"
    ELSE Head(queue).gate.kind

\* One round of the drain's loop: all but a sendable head and an idle agent
\* end it.
DrainLoop ==
    /\ lock = "drain" /\ taken = NothingTaken
    /\ \/ /\ AtHead \in {"nothing", "review"} \/ (AtHead = "none" /\ turn)
          /\ lock' = Free
          /\ UNCHANGED <<queue, wake, timers, taken>>
       \/ /\ AtHead = "overdue"
          /\ Commit(set_queued_delivery_gate(Head(queue).id,
                                             ReviewRequired(Head(queue).gate)))
          /\ lock' = Free
          /\ UNCHANGED <<timers, taken>>
       \/ /\ AtHead = "editing"
          /\ timers' = timers \cup {Timer(Head(queue).id, Head(queue).gate)}
          /\ lock' = Free
          /\ UNCHANGED <<queue, wake, taken>>
       \/ /\ AtHead = "none" /\ ~turn
          /\ taken' = [row |-> Head(queue), was_paused |-> FALSE]
          /\ Commit(Tail(queue))
          /\ UNCHANGED <<lock, timers>>
    /\ UNCHANGED <<paused, turn, exec, edit, now, leases, fate, frozen, left>>

\* send_queued_now and steer_queued_now up to the send: thaw, remember.
TakeNow(r, how) ==
    /\ lock = Free
    /\ Spend(how)
    /\ Takeable(r)
    /\ lock' = how
    /\ taken' = [row |-> Item(r), was_paused |-> paused]
    /\ paused' = FALSE
    /\ Commit(remove_queued(r))
    /\ UNCHANGED <<turn, exec, timers, edit, now, leases, fate, frozen>>

send_queued_now(r) == TakeNow(r, "send")
steer_queued_now(r) == TRUE \in Steers /\ TakeNow(r, "steer")

\* Sent(r): the prompt is with the agent and in the transcript.
Sent(r) ==
    /\ fate' = [fate EXCEPT ![r] = "sent"]
    /\ turn' = TRUE
    /\ wake' = TRUE

\* dispatch_queued, the send that succeeds.  A turn that is in flight takes the
\* prompt into its mailbox or is stopped and replaced; "send" stops it first.
\* A drain goes round its loop again with the lock.
dispatch_queued ==
    /\ taken # NothingTaken
    /\ Sent(taken.row.id)
    /\ frozen' = (frozen /\ lock = "drain")
    /\ lock' = IF lock = "drain" THEN "drain" ELSE Free
    /\ taken' = NothingTaken
    /\ UNCHANGED <<queue, paused, exec, timers, edit, now, leases, left>>

\* Mutant: a failed explicit send leaves the queue running.
PausedAfterFailureThaws == lock = "drain"

\* A failed drain pauses; a failed explicit send restores what it found.
PausedAfterFailure == lock = "drain" \/ taken.was_paused

\* The send fails: no run configuration, a harness that does not resolve.  The
\* turn may be gone by then; the row goes back to the head.
DispatchFails ==
    /\ taken # NothingTaken
    /\ Spend("fail")
    /\ paused' = (paused \/ PausedAfterFailure)
    /\ Commit(insert_queued(taken.row))
    /\ turn' \in IF lock = "send" THEN {turn, FALSE} ELSE {turn}
    /\ lock' = Free
    /\ taken' = NothingTaken
    /\ UNCHANGED <<exec, timers, edit, now, leases, fate, frozen>>

-----------------------------------------------------------------------------
(* Commands, the agent, the process.                                       *)

\* A Run or Steer command reaches the agent: no lock, and the pause is cleared
\* only after the dispatch returned.
RunCommand(x) ==
    /\ Spend("run")
    /\ exec[x] = "idle"
    /\ turn' = TRUE
    /\ wake' = TRUE
    /\ exec' = [exec EXCEPT ![x] = "dispatched"]
    /\ UNCHANGED <<queue, paused, lock, taken, timers, edit, now, leases, fate,
                   frozen>>

\* The store(false) after a dispatch, and the outcome written to the document.
RunThaws(x) ==
    /\ exec[x] \in {"dispatched", "overtaken"}
    /\ paused' = FALSE
    /\ frozen' = (frozen /\ exec[x] = "overtaken")
    /\ wake' = TRUE
    /\ exec' = [exec EXCEPT ![x] = "idle"]
    /\ UNCHANGED <<queue, turn, lock, taken, timers, edit, now, leases, fate, left>>

\* A turn that no prompt of the user starts: recover_stale picks a crashed run
\* up again, an answer to a dead run's question becomes a turn of its own.
ResumedTurn ==
    /\ Spend("resume")
    /\ ~turn
    /\ turn' = TRUE
    /\ wake' = TRUE
    /\ UNCHANGED <<queue, paused, lock, taken, exec, timers, edit, now, leases,
                   fate, frozen>>

\* interrupt_and_pause_queue: freeze first, then interrupt with the lock held.
interrupt_and_pause_queue(x) ==
    /\ exec[x] = "idle"
    /\ lock = Free
    /\ Spend("cancel")
    /\ turn
    /\ paused' = TRUE /\ frozen' = TRUE
    /\ lock' = x
    /\ exec' = [y \in Executor |-> IF y = x THEN "cancelling"
                                  ELSE IF exec[y] = "dispatched" THEN "overtaken"
                                  ELSE exec[y]]
    /\ UNCHANGED <<queue, turn, taken, wake, timers, edit, now, leases, fate>>

\* interrupt returned: it stopped the run, or there was none left to stop, and
\* then the pause is cleared whoever had set it.
InterruptReturns(x) ==
    /\ lock = x
    /\ lock' = Free
    /\ wake' = TRUE
    /\ exec' = [exec EXCEPT ![x] = "idle"]
    /\ \/ turn' = FALSE /\ UNCHANGED <<paused, frozen>>
       \/ ~turn /\ paused' = FALSE /\ frozen' = FALSE /\ UNCHANGED turn
    /\ UNCHANGED <<queue, taken, timers, edit, now, leases, fate, left>>

\* Mutant: nobody watches the end of a turn.
WakeAtTurnEndNot == wake

WakeAtTurnEnd == TRUE

\* The agent ends its turn: spawn_queue_flush_watcher drains again.
TurnEnds ==
    /\ turn
    /\ turn' = FALSE
    /\ wake' = WakeAtTurnEnd
    /\ UNCHANGED <<queue, paused, lock, taken, exec, timers, edit, now, leases,
                   fate, frozen, left>>

\* The process dies and the chat is opened again: the document is as committed,
\* a row that was taken is in no one's hands, a recovered queue is frozen.
Crash ==
    /\ Spend("crash")
    /\ paused' = (queue # <<>>)
    /\ turn' = FALSE /\ wake' = TRUE
    /\ lock' = Free /\ taken' = NothingTaken
    /\ exec' = [x \in Executor |-> "idle"]
    /\ timers' = ArmedAtOpen
    /\ fate' = [r \in Row |-> IF r = taken.row.id THEN "lost" ELSE fate[r]]
    /\ frozen' = (queue # <<>>)
    /\ UNCHANGED <<queue, edit, now, leases>>

\* An editor closes without a word; its lease is left to expire.
EditorGone(e) ==
    /\ Spend("gone")
    /\ edit[e] # NoEdit
    /\ edit' = [edit EXCEPT ![e] = NoEdit]
    /\ UNCHANGED <<hostVars, now, leases, fate, frozen>>

Tick ==
    /\ now < MaxTime
    /\ now' = now + 1
    /\ UNCHANGED <<hostVars, edit, leases, fate, frozen, left>>

-----------------------------------------------------------------------------
Next ==
    \/ \E r \in Row, t \in Text :
        \/ queue_message(r, t)
        \/ update_queued_message(r, t)
        \/ \E x \in Executor : held_until_turn_end(x, r, t)
    \/ \E r \in Row :
        \/ \E i \in 1..Cardinality(Row) : move_queued_message(r, i)
        \/ remove_queued_message(r)
        \/ send_queued_now(r)
        \/ steer_queued_now(r)
        \/ \E e \in Editor, l \in Lease : begin_queued_message_edit(e, r, l)
    \/ \E e \in Editor :
        \/ renew_queued_message_edit(e)
        \/ EditorGone(e)
        \/ \E action \in {"commit", "cancel", "discard"}, t \in Text :
            finish_queued_message_edit(e, action, t)
    \/ \E tm \in timers : expire_queued_message_edit(tm)
    \/ drain_queue \/ DrainLoop \/ dispatch_queued \/ DispatchFails
    \/ \E x \in Executor :
        \/ RunCommand(x) \/ RunThaws(x)
        \/ interrupt_and_pause_queue(x) \/ InterruptReturns(x)
    \/ ResumedTurn \/ TurnEnds \/ Crash \/ Tick

Spec == Init /\ [][Next]_vars

\* What the runtime keeps going: the tasks that hold the lock or wait for it,
\* the timers, the command executors, and an agent that ends its turns.
Fairness ==
    /\ WF_vars(drain_queue) /\ WF_vars(DrainLoop)
    /\ WF_vars(dispatch_queued) /\ WF_vars(TurnEnds) /\ WF_vars(Tick)
    /\ WF_vars(\E tm \in timers : expire_queued_message_edit(tm))
    /\ \A x \in Executor : WF_vars(RunThaws(x)) /\ WF_vars(InterruptReturns(x))

FairSpec == Spec /\ Fairness

-----------------------------------------------------------------------------
(* Properties.                                                             *)

TypeOK ==
    /\ queue \in Seq(RowType)
    /\ {paused, turn, wake, frozen} \subseteq BOOLEAN
    /\ lock \in {Free, "drain", "send", "steer"} \cup Executor
    /\ taken = NothingTaken \/ taken \in [row : RowType, was_paused : BOOLEAN]
    /\ exec \in [Executor -> {"idle", "dispatched", "overtaken", "cancelling"}]
    /\ timers \subseteq TimerType
    /\ edit \in [Editor -> {NoEdit} \cup EditType]
    /\ now \in 0..MaxTime /\ leases \subseteq Lease
    /\ fate \in [Row -> {"unborn", "queued", "sent", "dropped", "lost"}]

\* A row the user queued is in exactly one place: once in the queue, in the
\* hands of the one send that took it, sent, removed by a user, or (the one
\* way to lose it) gone with a process that died between its take and its
\* send.  A row whose removal was acknowledged is
\* never sent, no row is sent twice, a failed send gives the row back
\* (remove_queued_message, take_queued, dispatch_queued, insert_queued).
EveryRowInOnePlace ==
    /\ \A i, j \in DOMAIN queue : i # j => queue[i].id # queue[j].id
    /\ taken.row.id \notin Ids(queue)
    /\ \A r \in Row : fate[r] = "queued" <=> r \in Ids(queue) \cup {taken.row.id}

\* After Acquired the row cannot race into the agent: while the deadline a
\* client was promised has not passed, the row it edits is neither sent nor
\* taken, whatever timers, drains, sends, other editors and restarts do
\* (begin_queued_message_edit, expire_queued_message_edit, take_queued).
LeaseExcludesDelivery ==
    \A e \in Editor :
        edit[e] # NoEdit /\ edit[e].until > now
        => fate[edit[e].id] # "sent" /\ taken.row.id # edit[e].id

\* A commit replaces only the text its editor was shown: what another device
\* typed meanwhile is a conflict, never overwritten
\* (finish_queued_message_edit_with_attachments).
CommitOverwritesOnlySeenText ==
    [][\A e \in Editor :
        edit[e] # NoEdit /\ edit'[e] = NoEdit /\ queue' # queue
        /\ edit[e].id \in Ids(queue) /\ edit[e].id \in Ids(queue')
        /\ (CHOOSE m \in ToSet(queue') : m.id = edit[e].id).text # Item(edit[e].id).text
        => Item(edit[e].id).text = edit[e].text]_vars

\* Paused, or an explicit send that will pause it again if it fails.
HeldBack == paused \/ (lock \in {"send", "steer"} /\ taken.was_paused)

\* A cancelled or recovered queue sends nothing by itself until the user sends
\* something: the pause holds through the idle status the interrupt publishes,
\* through failed sends, further interrupts and turns the engine resumes
\* (interrupt_and_pause_queue, send_queued_now, open).  The one step that lifts
\* it is the store(false) of a command whose prompt was dispatched before the
\* cancel and which another executor, a relay beside the drain, finishes after.
FrozenMeansPaused ==
    [][frozen' /\ ~HeldBack' =>
         \/ frozen /\ ~HeldBack
         \/ \E x \in Executor : exec[x] = "overtaken" /\ exec'[x] = "idle"]_vars

\* The queue never wedges: an idle agent, a running queue and a sendable head
\* do not stay that way (spawn_queue_flush_watcher, the change subscription,
\* the drain after a finished edit).
SendableHead ==
    /\ queue # <<>> /\ Head(queue).gate.kind = "none"
    /\ ~paused /\ ~turn /\ lock = Free
NoWedge == []<>(~SendableHead)

\* An edit whose lease ran out is surfaced for review on every row, not only
\* at the head, and after a restart too (arm_queue_edit_expiry,
\* arm_existing_queue_edit_expiries).
Overdue(r) == r \in Ids(queue) /\ Expired(Item(r).gate)
OverdueEditsSurface == \A r \in Row : Overdue(r) ~> ~Overdue(r)
=============================================================================
