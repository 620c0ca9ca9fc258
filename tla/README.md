# Verification of JJzeron's synchronisation and delivery

JJzeron runs coding-agent chats on several devices of one owner. Each chat is a
CRDT document that every device's engine replicates through a "room" on the edge
(the *chat2* protocol); the list of chats, spaces and devices is a last-writer-wins
table with a room of its own (the *registry*). A device that hosts a chat takes
commands and queued messages out of the document and hands them to the agent.
This directory models these parts in TLA+, model-checks them with TLC on small
instances and proves their basic guarantees with TLAPS for every instance.

## 1. The system and its components

| Component | Source | State | Operations | Status |
|---|---|---|---|---|
| chat2 room log and handlers | `edge/src/chat-log.ts`, `chat-room.ts` | rows, head seq, floor, checkpoint and frontier; sockets and their `ready` flag, quota windows | append with dedupe, rows after a cursor, commit and prune; hello, rows request, push with relay, `POST`/`GET /rows`, `/checkpoint` | `ChatRoom` |
| chat2 client | `crates/sync/src/chat_client.rs` | `Shared` (cursor, pending queue, server view, retry clock, quota flag, gap and causal-repair flags), session and HTTPS-task locals | dial, catch-up, backfill, gap repair, push, ack, quota drain, HTTPS push and pull | `ChatSync` |
| document sink, persistence, open and checkpoints | `crates/engine/src/chat2_host.rs`, `chat_persistence.rs`, `doc_host.rs`, `crates/sync/src/store.rs` | the document and its parked updates; snapshot with cursor, outbox with obligations; `checkpointing` flag | import row or checkpoint, flush, journal, acknowledge, reopen, upload a checkpoint | `ChatSync` |
| shared transcript | (what the above promise) | written, stored, known updates | write, store, learn, forget | `SharedTranscript` |
| registry merge rules | `edge/src/registry-core.ts`, `registry-room.ts` | rows with per-field stamps, tombstones, seq | merge ops, push, rows since | `RegistryTable` |
| registry room, document, client | `registry-room.ts`, `crates/doc/src/registry*.rs`, `crates/sync/src/registry*.rs`, `crates/engine/src/workspace_host.rs` | table, seq, GC floor; authoritative rows, overlay, pending batches, cursor; session and HTTPS task; snapshot on disk | hello, push, broadcast, purge, reset; write, state/rows/ack, mark and un-mark in flight; save, crash | `RegistrySync` |
| message queue | `crates/doc/src/queue.rs`, `crates/engine/src/doc_host.rs` | queued rows with delivery gate, pause flag, drain lock, armed timers | queue, retype, reorder, remove, edit lease, drain, send now, steer now, cancel, recover | `MessageQueue` |
| command ledger | `crates/doc/src/commands.rs`, `doc_host.rs`, `store.rs` | command rows and status, processed set, executing set, message log | queue, sync, drain, claim, execute, resolve, sweep, relay, retry, expire | `CommandLedger` |
| engine sessions | `crates/engine/src/sessions.rs`, as the adapter in `crates/harness/src/codex/mod.rs` answers it | the `runs` map, each run's ledger, mailbox, signals and event stream | dispatch, steer, route, reclaim, interrupt; start, park, reap, cancel deadline, startup retry, exit and re-dispatch | `RunMailbox` |

Not modelled, with the reason for each in `PROJECT.json`: the document schema and
its projections, the run journal, engine services, the RPC device relay,
the legacy session room, preview networking, the inside of the harness adapters, MCP, self update,
protocol types, user interface, applications (with the iOS client, a second
implementation of the chat2 client in Swift), authentication and routing. Most are
rendering, parsing, process control or I/O; sections 2 and 5 say which of them hold
protocol logic and how the models see them from outside.

How they interact. A chat2 client dials a room and says hello; the room answers
with its state (head, floor, checkpoint frontier). The client plans a catch-up from
its cursor, requests rows, downloads the checkpoint over HTTPS if it lacks its
content, and replays its outbox. The room numbers pushes, acknowledges them to the
sender and relays them to the other sockets. Whenever a session ends an HTTPS cycle
runs beside the next session on the same `Shared` struct. Any device may upload a
checkpoint; the room then deletes the rows below the cursor the uploader named. The
registry client has the same two transports on one queue of batches, but its rows
overwrite each other by stamp and a full state replaces the replica. On the host, a
document change wakes the drain of commands and of queued messages; both hand work
to the session engine, which those two models see as "a turn is in flight" and
`RunMailbox` models from inside: a prompt starts a run, or goes into the mailbox of
the live one and into its ledger until the agent's boundary confirms it.

What is hard: two transports working on one cursor or one queue; acks, relays and
backfills that overtake each other; a checkpoint that prunes rows another device is
about to request; a cursor that is sampled in one step and trusted in a later one;
a crash between import, ack and flush, or between a claim and its outcome; lost
acks and re-pushes; uploads that commit after their client gave up; quota refusals
in the middle of a burst; tombstones forgotten before everybody saw them; leases
that expire while a send waits; a drain, a relay and a user's send on one row; a
message routed into a run that is just ending.
`PROJECT.json` lists these hazards line by line with the properties that cover them.

## 2. Modules

**chat2.** `ChatRoom` is the room. A Durable Object event runs to completion, so
each handler is one action. `log` keeps every batch ever numbered; rows up to
`floor` are the pruned ones, and every operator that reads rows looks at `LiveSeqs`
only. Channels are FIFO (`up`, `down`); a run of row or push frames sent in one go
is one entry the receiver takes apart one frame at a time. `ChatSync` adds the
devices: one action per frame arm of `handle_frame`, per phase of `run_session`, per
await point of the HTTPS task and of the checkpoint upload. State that the code
reads before an await and uses after it is a field (`http.cur`, `post.covered`,
`actor.target`, `flush`). `SharedTranscript` is the abstract specification (updates
are written, stored, learned, and a restart forgets only what exists elsewhere);
`ChatSync` is checked to implement it (`ImplementsTranscript`).

A batch is `<<device, n>>`; its id and bytes are one value. A document is the set of
batches it applied, causally closed; `deps` records what the author had applied.
Importing a batch whose dependencies are missing parks it: it stays in memory, holds
the cursor and asks for a checkpoint, and is part of neither snapshots nor
checkpoints, as with Loro's pending buffer. A checkpoint and its frontier are the set
of batches in it. `Oversize` batches exceed `MAX_PUSH_BYTES`, `many` is the row
threshold. A device outside `HttpDevices` is one whose HTTPS cycles fail at the first
request, which changes nothing; that keeps instances small. The environment may drop
a socket, a dial or a request, kill a process, refuse a push by quota, let a push
outlive its socket (`stray`) and let a checkpoint POST outlive its client (`late`),
within one of the run's `Budgets`, so that kinds of fault that never meet stay apart.

Left out of chat2: `POST /reset` and the cursor amnesty for pre-verified snapshots;
the one-time publication of a legacy document; failing store writes; presence,
probes, sidecars, tails and the backup alarm; presentation-only state; malformed
frames; the permanent-rejection arm, which a client never meets because
`MAX_PUSH_BYTES` is below the room's row limit. The checkpoint download is one step.
Its obligations are sampled with the export, while the code reads them just before.
`apply_remote_row` releases the lock during the import; the model takes the arm as
one step. `HttpPull` samples the cursor and takes the room's answer in one step, while
the request travels between the two, and the answer is complete: the room ends it at
`ROWS_BODY_CAP` (`chat-room.ts:207`) and leaves the rest to the next cycle.

**Registry.** `RegistryTable` is the pure part: stamps, the merge of one operation
into a row, a push of a batch, the rows since a cursor. A row is a function of its
fields' stamps (a value is a function of its stamp, which `minted` guarantees);
`Absent` is a row nobody has written. `RegistrySync` composes the room, the replicas
and their transports on it. `doc[d]` is the replica: `auth` (what the room said),
`cursor`, `pending` (batches with their in-flight mark). A local write appends a
batch and shows through `overlay_row` until it is acknowledged. `Clocks` gives each
device the stamps its clock can show, so a slow clock is a set of small numbers.
`disk` is the debounced snapshot and may be old; `late` holds pushes that outlived
their session. Left out: presence, probes, backup, the import of a legacy workspace
document, chunking of an oversize batch, malformed operations, an HTTPS push that is
given up by its client and commits later (the batch stays queued, is pushed again, and
`RepushIsNoop` says what that does).

**Queue.** `MessageQueue` is the queue of one chat at its host. Every action that
takes `drain_lock` says `lock = Free`; the sends and the interrupt hold it across an
await and are split in two (`taken` is what they carry over). `exec` are the command
executors, which call into the queue from their own tasks; `timers` are the armed
expiry wakes, one per lease generation; `wake` is the change subscription together
with the status watcher. `fate`, `frozen` and the mark "overtaken" of an executor are history:
what became of each row, whether the queue was cancelled or recovered with no user send
since, and whether a cancel came between the dispatch of an executor's command and its
store to the pause flag.

**Commands.** `CommandLedger` is the path of a command to its effect: queued on a
device, arriving at the host by the document (`RowArrives`) or by a peer call
(`ingest_relayed_command`), claimed (`Claim`, `Mark`), executed in two steps around
the message write and the dispatch, resolved (`Finish`) or swept (`PickEntry`'s first
branch). Tasks are a program counter each: the drains and the
calls in progress (`Call`). `Worker` holds every drain: `ChatTask`, which follows the
document, and those spawned for a retry, an upload that landed or a wait that ran out. A
`Run` writes a message and dispatches it, an `Interrupt` gives way to a later one and to
a turn it was not sent for; the other payloads follow the same path. `Rowed` and
`Relayed` say which roads each command travels, one or both.

**Runs.** `RunMailbox` is one chat's runs. Every message sender, and every run that
re-dispatches what it left behind, is a task with a program counter; its steps are the
lock regions and awaits of `dispatch_inner` and `steer`: look the run up, post into the
mailbox under the ledger's lock, check that the run is still registered, reclaim the
entry, interrupt, wait for the run to settle, register a new one. A steer that finds no
run is dispatched, as its callers do. `run[r]` holds the locals of `drive_run`; its loop
is one action per event it reacts to (a boundary, a completed turn, the end or a failure
of the stream, the cancel deadline, the idle reaper), the exit is two: `Leave` claims
the ledger, `Exit` removes the handle and starts the re-dispatch. Between them other
tasks still see the handle. A replaced handle drops its cancel sender, which the run
notices like a cancel: `interrupted(r)` is `cancel \/ current # r`. The agent takes its
mailbox in order, emits a boundary for each message and may die, fail a turn or ignore
its token; only steerable harnesses are modelled, since the others have no mailbox.
`confirmed`, `run[r].fate` and `run[r].owed` (what the ledger held when the exit claimed
it) are history. Left out: session statuses, the quiesce watchdog and turns an agent
starts by itself, goal actions, question inputs, transcript segments, subagents, and
dispatches that fail before they reach a run or after it: a failing document write once
the message is posted (`sessions.rs:421`, `610`), a failing registration after the
interrupt (465), a re-dispatch that fails. Adapters that do not confirm in
the order of acceptance (ACP may) are outside the model.

`MCChatSync`, `MCRegistry`, `MCRoads`, `MCQueue`, `MCCommands`, `MCRuns` hold the instances;
`MCRoads` and `MCQueue` choose one of two scenarios at the start of a behaviour;
`ChatSyncProofs`, `ChatRoomProofs`, `ChatCursorProofs`, `TranscriptProofs`,
`RegistrySyncProofs`, `MessageQueueProofs`, `CommandLedgerProofs`, `RunMailboxProofs`
the proofs.

## 3. Runs

`CHECK_DEADLOCK FALSE` everywhere because the system may really come to rest:
everything written, delivered and saved.

| Run | Instance | Properties | Shows |
|---|---|---|---|
| `crash_restart` | 2 devices; A's update is too large for a row; B may die once, or a socket drop while its pushes linger | `TypeOK`, `CursorRecoverable`, `NoLostOps`, `ImplementsTranscript` | snapshot, cursor, outbox and obligations survive together; late appends and re-pushes change nothing |
| `https_checkpoint` | 2 devices, B on both transports, A posts checkpoints; one dial or request fails | `CursorHonest`, `CursorRecoverable`, `QuietMeansComplete` | two transports, one cursor, moving floor |
| `quota_drain` | 2 devices, 2 updates of B; 2 refusals, or an upload that times out and commits later; fair | `JournaledUntilLogged`, `RoomKeepsEveryOp`, `EveryWriteReachesRoom`, `EventuallyConverged` | one-grant-at-a-time drain, pruning and competing checkpoints, replicas end complete |
| `registry` | either 2 devices on sockets, 2 rows, 2 fields, a slow and a fast clock, one of a drop, a lost frame, a save, a crash, a purge, fair; or 1 writer on both transports, up to 2 of a drop, a failed request, a reset, a purge | `TypeOK`, `CursorHonest`, `RoomNeverRegresses`, `NoFlicker`, `EventuallyConverged`, `RetiredMeansDecided` | gaps, re-pushes, old snapshots and forgotten tombstones; one queue drained by two tasks |
| `queue` | either 1 row, 2 texts, 2 editors, 2 leases of 2 ticks, 3 instants, up to 3 of a retype, a send, a steer, a crash, an editor that goes away; or 2 rows, 1 editor, 2 executors, up to 3 of sends, failing sends, commands, cancels, resumed turns, moves, a restart; fair | `TypeOK`, `EveryRowInOnePlace`, `LeaseExcludesDelivery`, `CommitOverwritesOnlySeenText`, `FrozenMeansPaused`, `NoWedge`, `OverdueEditsSurface` | leases, renewals, expiry and stale timers against sends; no row lost or doubled, a frozen queue is thawed by no drain and no failed send, a running one moves on |
| `command_once` | 2 commands with rows, the first also forwarded; 2 drains; either up to 4 of a run, its retry, 2 relay calls, an expiry, a failing execution, a crash, or a run whose bytes are missing, an interrupt and a crash; fair | `NotTakenUpAgain`, `EveryRowResolved` | what took effect is not taken up again, by either road; every row gets an outcome |
| `run_mailbox` | a run and 2 more messages, one offered as a steer, one with attachments or another configuration; mailbox of 2; one of an agent failure, a failed start, a reap, a cancel; or 1 more message and up to 3 of these and a startup retry; fair | `TypeOK`, `LedgerIsUnconfirmed`, `OneOwner`, `StaleExitKeepsNewRun`, `EveryMessageRuns`, `CancelSettles` | a message has at most one owner; what a run that ends by itself owes is dispatched again; a cancelled run leaves its loop whatever its agent does |

Five runs state what comments or tests say and TLC refutes; the findings in
`PROJECT.json` quote the lines.

| Run | Refuted statement | What happens |
|---|---|---|
| `checkpoint_before_fetch` | the cursor claims only what the document reflects (`RoomKeepsEveryOp`) | the cursor is raised to a checkpoint before it is applied; an upload in this window replaces that checkpoint and its content is gone from the room |
| `registry_two_roads` | the registry's cursor is the last seq the replica has fully applied, asked of a device that has no socket (`OfflineCursorHonest`) | an HTTPS pull moves the cursor past a row while an older broadcast of that row waits on the socket; `apply_rows` puts the older row back, the socket drops, and no later hello or pull asks for the row again |
| `command_relay` | the claim makes the row that arrives later a no-op (`ExecutedNotRejected`) | the relay executed the command before its row existed, so the outcome had no row to go to; the row arrives pending and consumed, and the sweep rejects it as interrupted |
| `command_both_roads` | "exactly-once across both roads" (`EachOnce`) | a drain has picked the row when a relay call claims, marks and executes the command; once the claim is free the drain claims it and does not look at the answer of `mark_processed`: the command runs twice |
| `run_stranded` | "an accepted message can never silently evaporate" (`NoMessageStranded`) | a message is routed to a run that is starting; the start fails and the run returns without reading its ledger. The startup retry does the same, and so does a message posted between an exit's claim of the ledger and the removal of its handle |

Because of the first, the passing chat2 runs let only the hosting device run
threshold checkpoints (`Posters = {Host}`) and let the *other* device crash: the
poster then always contains the room's checkpoint. That is an assumption about
usage, not something the code enforces. For the second, `CursorHonest` and `NoFlicker`
speak of devices without the HTTPS task, and `RetiredMeansDecided` of what HTTPS does to
the queue. Because of the fourth, `NotTakenUpAgain` allows one repetition, by a drain that
carried the entry before it took effect. Because of the fifth, `EveryMessageRuns` excepts
exactly the messages that `NoMessageStranded` is about, and those whose run the user
stopped; a ledger that an exit leaves unread in any other way breaks it.

Other places where the code gives less than one would like are hazards with a note: a
quota probe whose session ends leaves the queue blocked (`quota_drain` has no drops); a
second poster, or a late upload, may overwrite a published oversize update (`crash_restart`
has one poster); a full state makes a device seed a row again whose deletion was purged;
two retries of one dead send may both run; a row that arrives while a relay call executes
its command waits for the next change of the document (`EveryRowResolved` excepts it); a
command dispatched before a cancel and finished after it thaws the queue
(`FrozenMeansPaused` names that step). `CancelSettles` is about runs that drive their
stream: one that is cancelled while its harness starts waits for the harness.

Each property is meant to be falsifiable: `PROJECT.json` pairs it with a definition
`<name>...` standing next to the original in the module, a plausible slip in the code
it is about (an ack that jumps the cursor, a gap that is not noticed, a batch retired
on a failed request, a timer that ignores its lease generation, a restart that arms
only the head, a claim that does not mark). With the slip in place of the original
the run fails.

Bounds. Two updates of different authors are enough for a relay, an ack and a backfill
to compete; a checkpoint threshold of 0 or 1 (200 in the code) makes a prune happen
among them. One fault of a kind puts it at every position of every behaviour; two
quota refusals exercise re-arming. `MaxGapRepairs` 1 or 2 (3 in the code) reaches both
the repair and the redial. Two registry rows separate "the cursor skipped a row" from
"a row is late"; two fields separate a merge from an overwrite; two stamps against one
give a loser and a winner in both orders. Two queue rows give a head and a successor,
two lease generations a stale timer, three instants an expiry before and after a
renewal. Two commands give an order (a run and the interrupt that supersedes it); two
drains and a call are three tasks on one entry; the call made twice is a lost answer and
its repetition. Two messages beside the run's own give a
ledger with an order; four runs are more than they and one fault can start. Counters are bounded by the fault budgets
and the finite sets of batches, rows, leases and commands; `left["any"]` bounds their
sum.

Fairness, always weak and only of what the code drives by an unconditional loop or an
armed wake: in chat2 the room's event handling, the socket actor, the HTTPS task, an
upload that has started; in the registry one `Progress` action per device (dial, room
handling, frame arms, push); in the queue the drain when it is woken, the second half
of a send, the end of a turn, the clock, armed timers; in the ledger the steps of drains
and calls and the end of the attachment wait; in the runs one `Progress` action of
senders, agent and run tasks (the steps are finitely many, so it starves none), not the
agent's obedience to a cancel. Writing, starting an upload, flushing,
user operations and faults are never fair. In `registry` the fairness is that of the two
devices on sockets, so its liveness property speaks of the scenario in which they are in
use; in `queue` the scenarios take away user operations and faults only, never a step that
is fair.

## 4. Proofs

All for every value of the constants that satisfies the named assumptions
(`BatchesAssumption`, `BoundsAssumption`, `ClientAssumption`, `TableAssumption`, `WritesAssumption`,
`ClocksAssumption`, `HttpsAssumption`, `FaultsAssumption`, `QueueAssumption`,
`LedgerAssumption`, `MailboxAssumption` in the modules: device sets are subsets, batches
are numbered per device without holes, bounds are naturals, sentinels are not members).

* `TypeCorrect == Spec => []TypeOK` (`ChatSyncProofs`). `TypeOK` is inductive as it
  stands because it includes `floor <= headSeq` and that no run of rows or pushes is
  empty; one lemma per action, and lemmas for each operator. `First` and `FirstRow`
  rest on the well-foundedness of the naturals.
* `JournalSafe == Spec => []JournaledUntilLogged` (`ChatSyncProofs`). Not inductive:
  an outbox row is deleted on the word of an acknowledgement or of a successful upload.
  `JournalInv` adds that every acknowledgement in a channel (`AcksLogged`) or held by
  the HTTPS task (`HttpAcksLogged`) names a numbered batch, and that an upload carries
  only obligations no row can carry (`ObligationsOversize`). Each action is a
  `GoodStep`: the log grows, no acknowledgement appears for a batch that is not
  numbered, the outbox loses only numbered batches or obligations.
* `RoomSafe` (`ChatRoomProofs`): `RoomKeepsEveryOp`, if every upload begins with an
  honest cursor (`UploadsHonest`: the document has the batches the sampled cursor covers).
  The room deletes rows on a client's word, so the invariant (`RoadsInv`) follows the word
  on its roads: rows, acknowledgements and catch-up frames agree with the log wherever
  they wait, documents are causally closed, outbox and disk hold what the device holds, an
  upload sampled has the document behind it and an upload sent, even a late one, has what
  its number promises (`CheckpointsWhole`, `PostTrue`). The premise is no theorem of the
  code: `checkpoint_before_fetch` is a behaviour that breaks it.
* `JoinedUploadsSafe` (`ChatCursorProofs`) says that this is the only one among processes
  that stay up: `RoomKeepsEveryOp` for any number of uploaders if each upload begins in a
  session that has caught up (`UploadsJoined`). `SoundInv` says what a device owes between
  the dial, where `plan_catch_up` adopts the checkpoint's number, and the fetch: the
  batches up to the target and nothing beyond the floor.
* `CursorsSafe` (`ChatCursorProofs`): `CursorHonest` and `CursorRecoverable` under the same
  premise, when no process dies, from `SoundInv`.
* `RowUpdatesSafe` (`ChatCursorProofs`): under the same premise no update that fits in a row
  is lost, whichever processes die: what `JournalSafe` says of the outbox and `RoomSafe` of
  the room, together. The updates no row can carry stay with TLC (`NoLostOps`): a second
  poster or a late upload can replace a checkpoint of the same number that carried one,
  whose outbox entry is gone. TLC finds that in `crash_restart` with a "late" budget added.
* `ChatImplementsTranscript` (`ChatCursorProofs`): `ImplementsTranscript`, under the same
  premise and when the author of an update too large for a row stays up. With `OwnHeld` (a
  device holds what it made until the room numbers it) an import is a `Learn`, a restart a
  `Restart`, a numbered row a `Publish`, every other step a stutter.
* `QuietSafe` (`ChatCursorProofs`): `QuietMeansComplete`, under the same premise and when no
  process dies. `HeardInv` says of every live row of another device that a session which
  has been greeted holds it with all below it, has a request on its way to the room that
  covers it, is being sent it, or has a gap repair pending (`HeardAt`; during a checkpoint
  fetch "all below" starts at the checkpoint's number, which is why a fetch may come
  after the rows), that a socket on which a state frame waits is one the room relays to,
  and that what is parked waits for something the device does not hold. What the room
  does to a channel is one lemma per handler (`Spoken`), what a session does with a
  frame another (`RepairHeard`: a repair asks for all that is above the cursor, and
  `SoundInv` says that what is below is there). The property once said that a session at
  rest has *applied* every live row. That is more than the code does: a row whose
  dependency the room has not numbered yet (its author's older push was refused, or
  dropped) stays parked, and an HTTPS catch-up clears the wish for a checkpoint. The bounds of the
  run were too small to show it; `Grounded` now names what must be applied.
* `TranscriptKeepsAll == TranscriptSpec => []NothingIsLost` (`TranscriptProofs`), which a
  chat that implements the transcript inherits.
* `PushAdvances` and `RepushIsNoop` (`RegistrySyncProofs`), facts about the room's merge for
  any table and batch: a push leaves every row at least as new as it was
  (`Supersedes`), and a batch pushed again right after it was taken changes no row and
  gets no number.
* `RegistryTypeCorrect` and `NeverRegresses` (`RegistrySyncProofs`) carry them through the
  protocol: the invariant says that every batch on any road to the room (a pending queue
  in memory or on disk, a push on a socket, a late one, one under HTTPS, a re-seed) is a
  batch of well-typed operations, so whatever arrives, `PushAdvances` applies. The maxima
  over sets of clocks rest on a lemma that a finite non-empty set of naturals has one.
* `QueueTypeCorrect`, `RowsSafe`, `LeaseSafe`, `CommitSafe`, `FrozenSafe`
  (`MessageQueueProofs`), from one invariant (`QueueInv` with `TakenUnderLock`).
  `EveryRowInOnePlace` needs that ids in the queue are distinct and that the taken row is
  not among them; `LeaseExcludesDelivery` needs that a promised deadline is the gate's own
  deadline and that no timer of the same lease is later than the gate; `FrozenMeansPaused`
  is about one step and needs the pause a send will restore to be the one it found; it
  holds for any number of executors because it names the step that may thaw, the
  `store(false)` of a command that a cancel overtook.
* `CursorSafe` (`RegistrySyncProofs`): what `CursorHonest` and `OfflineCursorHonest` say,
  of every device on both roads (`EveryCursorHonest`), in behaviours in which no session
  is open while a pull is under way (`PullsAlone`, a premise of the theorem and not of
  the model). The code does not ask for that, and without it the property fails, which is
  what `registry_two_roads` shows; the theorem says that nothing but this overlap makes
  a cursor lie. Without the HTTPS task the premise holds. The invariant (`CursorInv`) says
  of document and disk that each reflects the room up to its cursor (`Reflects`), and of
  the frames on a socket (`WireOK`) that a broadcast carries all of what the room last
  changed under its number and broadcasts come in order, that the state a session waits
  for carries all the document lacks, and that the hello on its way tells the document's
  cursor; a pull asks from the document's cursor and its answer carries all the document
  lacks (`Asked`).
* `RetiredSafe` (`RegistrySyncProofs`): `RetiredMeansDecided` on both roads, crashes and
  re-sends included. `RetiredInv` says that while the room is neither wiped nor purged no
  state frame is a full one, so nothing rebuilds a queue and a batch keeps its operations
  for as long as it is queued; every push and HTTPS task that names it carries those
  operations (`Carries`), and every answer names a batch whose operations the room's
  clocks cover (`Settled`). Its premise, that an upsert names a field, holds of every
  writer in `registry.rs` (715 to 1179): an upsert of no field would leave no clock to
  compare with.
* `SocketFlickerSafe` (`RegistrySyncProofs`): what `NoFlicker` says, of every device
  (`NoSocketFlicker`), under the same premise, an ack over HTTPS excepted (the task retires
  a push before the pull that brings the row). The property says that a
  write an acknowledgement retires would change nothing any more in the rows the device
  holds, be it that the room merged it, refused it, had it already, or purged the row
  since; excepted are steps after a lost broadcast or a wipe. `FlickerInv` says what a
  device will hold once it has read every frame on its way (`Mirrors`): the room's
  rows, or a tombstone where the room has purged one; and that at the place of each
  acknowledgement among these frames the batch it names would change nothing. Without
  purges that is `Reflects` and the order of the frames. With them it needs that a
  document whose cursor has passed every purge holds no live row the room does not hold
  (`GoneKnown`), that a state frame comes before everything numbered and above the cursor
  it answers (`Framed`), and it is claimed only once the room has answered the session's
  hello (`Greeted`): before, a device may hold a row whose deletion it will never hear of
  by name. The property is stated by effect and not by comparing the clock of the write
  with the newest one of the row:
  a device that was away while a deletion was made and forgotten gets a full state
  without the row, and an acknowledgement may then retire a write that is newer than
  anything it holds. `registry` has one fault at a time on sockets, so that combination, a drop
  and a purge, rests on the proof.
* `NotTakenUpAgainSafe` (`CommandLedgerProofs`): `NotTakenUpAgain`, with any number of
  drains, calls, retries and crashes and with either road or both for every command.
  `LedgerInv` is `Typed`, `Rooted` (rows, their copies and entries in hand are of commands
  that were issued), `Claims` (an entry has one holder between its claim and its outcome)
  and `Ledger` (what executes or has run is processed, and what a relay call executes has
  not run). The mark comes before the execution and every way of taking an entry up looks
  at the ledger, so only an entry picked before the mark can be executed after it; a drain
  does that, a relay call does not, because it looks at the answer of `mark_processed`.
* `MailboxTypeCorrect` and `HandleSafe` (`RunMailboxProofs`). `TypeOK` with `Known` (a
  task at work knows its message and, once it found one, its run; a born run knows its
  prompt) is inductive; `StaleExitKeepsNewRun` follows from it step by step, since only
  `start` and the three users of `remove_run` change the registered run.
* `LedgerExact` (`RunMailboxProofs`): `LedgerIsUnconfirmed`. The property says that the
  entries are the messages of the unread `steered` events followed by the mailbox, by
  counting events instead of filtering them; the lemmas say what an entry added at the
  end, an event read at the front and a message moved from mailbox to stream do to that
  count. The invariant adds that an unborn run has nothing and that a sender that gave up
  on a run no longer finds it registered.
* `OneOwnerSafe` (`RunMailboxProofs`): `OneOwner`. `OwnerInv` says that a message is in
  the hands of one sender, in one ledger or with one exit, never in two of them
  (`Exclusive`) and nowhere twice (`Distinct`), that a message not sent yet is nowhere
  (`Unsent`), and that a run's prompt or a confirmed message is nowhere either (`Spent`),
  except where a startup retry hands the prompt on (`RetriedIsOver`). Each action passes
  messages from one holder to another and makes no copy (`Passes`).

Only model-checked: liveness and everything with fairness, which the prover does not
treat; chat2's `CursorRecoverable` and `QuietMeansComplete` for devices whose process
dies (after a restart a device's own update may come back out of the outbox as parked,
while an acknowledgement of it moves the cursor: `SoundInv` does not cover that).

## 5. What is left

* The rest of the sessions: the run journal and the recovery of a stale run after a
  restart, session statuses against the end of a run, goal actions, question inputs, the
  quiesce watchdog, subagents. Composing `RunMailbox` with the queue and the ledger,
  which take "a turn is in flight" from the environment.
* chat2: `POST /reset` with its detection, failing store writes, ranged checkpoint
  downloads; several uploaders whose processes restart.
* The device relay (`edge/src/device-room.ts`, `crates/rpc`): `CommandLedger` has its
  calls arrive, fail or repeat; registration and reconnect of the host are not modelled.
* Harness adapters beyond what a run sees of codex: their behaviour is set by agents.
* Proofs: the cursors of devices that restart; convergence of the registry's merge.
