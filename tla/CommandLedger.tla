--------------------------- MODULE CommandLedger ---------------------------
(***************************************************************************)
(* The command ledger of one chat (crates/doc/src/commands.rs,               *)
(* crates/engine/src/doc_host.rs).  A device queues a command (run a prompt, *)
(* interrupt) as a row of the shared document; the device that hosts the     *)
(* chat executes it, marking its id processed on disk BEFORE it executes, and *)
(* is the only writer of outcomes.  A sender whose rows do not flow forwards  *)
(* the entry over the peer link instead (relay), and a user can retry a send  *)
(* that died.                                                               *)
(*                                                                         *)
(* A task is one drain_commands pass or one ingest_relayed_command call; its  *)
(* steps are separated where another task of the host can get in between.    *)
(* Document commits and the processed table survive a crash, `executing` and  *)
(* the tasks do not.  Delivery of rows is ChatSync's business: here a row     *)
(* arrives at the host, and the host's outcomes at the sender, at any time.   *)
(***************************************************************************)
EXTENDS Naturals, Sequences, SequencesExt, FiniteSets

CONSTANTS
    MaxCmds,    \* bound: command ids
    Worker,     \* drain_commands tasks of the host
    ChatTask,   \* the one of them that follows the document
    Call,       \* relay calls the sender makes
    Rowed,      \* commands whose document row reaches the host
    Relayed,    \* commands the sender forwards over the peer link
    Attached,   \* messages with attachments still in transit when sent
    Budgets     \* bounds: how often each optional step happens, one per instance

Id == 1..MaxCmds

ASSUME LedgerAssumption ==
    /\ MaxCmds \in Nat
    /\ Rowed \subseteq Id /\ Relayed \subseteq Id
    /\ Worker \cap Call = {} /\ ChatTask \in Worker

Task == Worker \cup Call
None == 0

VARIABLES
    cmds,       \* the commands issued: [kind, msg, based, from], id = index
    status,     \* status[c]: the row in the host's document, or "absent"
    log,        \* user messages in the host's transcript, in order
    seen,       \* the sender's replica: [status, log]
    processed,  \* the processed_commands table of the host
    executing,  \* DocHostInner.executing
    task,       \* task[k]: the locals of a drain or of a relay call
    wake,       \* the drains that have been asked for since they last began
    bytes,      \* the attachments are on the host's disk
    waited,     \* ATTACHMENT_WAIT_MAX_MS has passed
    stale,      \* commands past their expiry
    ran,        \* ran[c]: how often c's effect happened
    done,       \* commands whose execution returned Ok in this process
    left        \* bounds left

docVars == <<cmds, status, log, seen>>
vars == <<docVars, processed, executing, task, wake, bytes, waited, stale, ran,
          done, left>>

Issued == DOMAIN cmds
Terminal == {"applied", "rejected", "expired", "superseded"}
NoRows == [c \in Id |-> "absent"]
Idle == [pc |-> "idle", cmd |-> None, disp |-> "none", snap |-> NoRows, skipped |-> {}]

\* chat_task drains after every change; the other drains are spawned for a
\* retry, an upload that landed, a wait that ran out or a restart.
DocumentChanges == wake' = wake \cup {ChatTask}
Spawned == Worker \ {ChatTask}

Spend(kind) ==
    /\ left[kind] > 0 /\ left["any"] > 0
    /\ left' = [left EXCEPT ![kind] = @ - 1, !["any"] = @ - 1]

Init ==
    /\ cmds = <<>> /\ log = <<>>
    /\ status = NoRows
    /\ seen = [status |-> NoRows, log |-> <<>>]
    /\ processed = {} /\ executing = {} /\ done = {} /\ stale = {}
    /\ task = [k \in Task |-> Idle]
    /\ wake = {} /\ bytes = FALSE /\ waited = FALSE
    /\ ran = [c \in Id |-> 0]
    /\ left \in Budgets

-----------------------------------------------------------------------------
(* Evaluation (commands.rs).                                                *)

LastOf(s) == IF s = <<>> THEN None ELSE Last(s)

\* An interrupt gives way to a later one, and to a turn it was not sent for.
Superseded(c, rows) ==
    /\ cmds[c].kind = "interrupt"
    /\ \/ \E o \in Issued : o > c /\ cmds[o].kind = "interrupt" /\ rows[o] = "pending"
       \/ cmds[c].based # LastOf(log) /\ cmds[c].based \in ToSet(log)

\* evaluate_command, against the rows read earlier and the transcript now.
Disposition(c, rows) ==
    IF c \in processed THEN "skip"
    ELSE IF c \in stale THEN "expired"
    ELSE IF Superseded(c, rows) THEN "superseded"
    ELSE "execute"

\* missing_attachments
Missing(c) == cmds[c].kind = "run" /\ cmds[c].msg \in Attached /\ ~bytes

-----------------------------------------------------------------------------
(* The sender and the user.                                                *)

\* queue_command on the sender's device: a row of its own replica.
queue_command(kind) ==
    /\ Spend(kind)
    /\ Len(cmds) < MaxCmds
    /\ cmds' = Append(cmds, [kind |-> kind, msg |-> Len(cmds) + 1,
                             based |-> LastOf(seen.log), from |-> "sender"])
    /\ seen' = [seen EXCEPT !.status[Len(cmds) + 1] = "pending"]
    /\ UNCHANGED <<status, log, processed, executing, task, wake, bytes, waited,
                   stale, ran, done>>

\* chat2 brings the row to the host.
RowArrives(c) ==
    /\ c \in Issued \cap Rowed /\ status[c] = "absent"
    /\ status' = [status EXCEPT ![c] = "pending"]
    /\ DocumentChanges
    /\ UNCHANGED <<cmds, log, seen, processed, executing, task, bytes, waited,
                   stale, ran, done, left>>

\* chat2 brings the host's writes to the sender, in the order they were made.
HostSeen ==
    /\ seen' = [status |-> [c \in Id |-> IF status[c] = "absent" THEN seen.status[c]
                                                                ELSE status[c]],
                log |-> log]
    /\ seen' # seen
    /\ UNCHANGED <<cmds, status, log, processed, executing, task, wake, bytes,
                   waited, stale, ran, done, left>>

\* What retry_delivery reads on the device where the user presses it.
Rows(dev) == IF dev = "host" THEN status ELSE seen.status
Landed(dev) == IF dev = "host" THEN ToSet(log) ELSE ToSet(seen.log)
Consumed(dev) == IF dev = "host" THEN processed ELSE {}
Running(dev) == IF dev = "host" THEN executing ELSE {}

\* An attempt that can never execute again, of a message that never landed
\* and has no live attempt.
DeadAttempt(dev, c) ==
    /\ cmds[c].kind = "run" /\ cmds[c].msg \notin Landed(dev)
    /\ \/ Rows(dev)[c] \in {"rejected", "expired"}
       \/ Rows(dev)[c] = "pending" /\ c \in Consumed(dev) \ Running(dev)
    /\ \A o \in Issued \ {c} :
        cmds[o].kind = "run" /\ cmds[o].msg = cmds[c].msg
        => ~(Rows(dev)[o] = "pending" /\ o \notin Consumed(dev))

\* retry_delivery: a fresh attempt for the latest dead one of a message, and a
\* drain pass of its own on this device.
retry_delivery(dev, c) ==
    /\ Spend("retry")
    /\ Len(cmds) < MaxCmds
    /\ c \in Issued /\ DeadAttempt(dev, c)
    /\ \A o \in Issued : o > c /\ cmds[o].msg = cmds[c].msg => ~DeadAttempt(dev, o)
    /\ LET new == Len(cmds) + 1
           row == [kind |-> "run", msg |-> cmds[c].msg,
                   based |-> LastOf(IF dev = "host" THEN log ELSE seen.log), from |-> dev]
       IN
       /\ cmds' = Append(cmds, row)
       /\ IF dev = "host"
          THEN /\ status' = [status EXCEPT
                                ![c] = IF @ = "pending" THEN "rejected" ELSE @,
                                ![new] = "pending"]
               /\ wake' = Worker
               /\ UNCHANGED seen
          ELSE /\ seen' = [seen EXCEPT !.status[new] = "pending"]
               /\ UNCHANGED <<status, wake>>
    /\ UNCHANGED <<log, processed, executing, task, bytes, waited, stale, ran, done>>

\* deliver_attachments succeeds; the host's upload commit kicks its drains.
UploadLands ==
    /\ \E c \in Issued : Missing(c)
    /\ bytes' = TRUE /\ wake' = wake \cup Spawned
    /\ UNCHANGED <<docVars, processed, executing, task, waited, stale, ran, done, left>>

\* The bounded wait runs out; the re-check loop drains again.
WaitRunsOut ==
    /\ \E c \in Issued : Missing(c)
    /\ ~waited
    /\ waited' = TRUE /\ wake' = wake \cup Spawned
    /\ UNCHANGED <<docVars, processed, executing, task, bytes, stale, ran, done, left>>

\* A command outlives its TTL.
Expire(c) ==
    /\ Spend("expire")
    /\ c \in Issued \ stale
    /\ stale' = stale \cup {c}
    /\ UNCHANGED <<docVars, processed, executing, task, wake, bytes, waited, ran, done>>

-----------------------------------------------------------------------------
(* Executing one entry, common to both roads.                              *)

At(k, pc) == task[k].pc = pc
Goto(k, pc) == task' = [task EXCEPT ![k] = [@ EXCEPT !.pc = pc]]

\* A drain goes round again and leaves the commands `more` alone.
NextRound(k, more) ==
    [task[k] EXCEPT !.pc = "read", !.cmd = None, !.disp = "none",
                    !.skipped = @ \cup more]

\* A drain's round is over, a relay call returns.
Return(k, more) ==
    task' = [task EXCEPT ![k] = IF k \in Worker THEN NextRound(k, more) ELSE Idle]

Resolve(c, outcome) ==
    status' = [status EXCEPT ![c] = IF @ = "absent" THEN @ ELSE outcome]

\* Mutant: the id is marked once the execution is over.
MarkedLate(k) == UNCHANGED processed

\* mark_processed, durable.
Marked(k) == processed' = processed \cup {task[k].cmd}

\* The in-flight claim; a drain leaves an entry someone else has alone.
Claim(k) ==
    /\ At(k, "claim")
    /\ LET c == task[k].cmd IN
       IF c \in executing
       THEN Return(k, {c}) /\ UNCHANGED executing
       ELSE executing' = executing \cup {c} /\ Goto(k, "mark")
    /\ UNCHANGED <<docVars, processed, wake, bytes, waited, stale, ran, done, left>>

\* Mark, then act on the disposition.  A relay call gives up when the id was
\* there already; a drain does not look.
Mark(k) ==
    /\ At(k, "mark")
    /\ LET c == task[k].cmd
           disp == IF k \in Call /\ c \in processed THEN "skip" ELSE task[k].disp IN
       /\ Marked(k)
       /\ IF disp = "execute"
          THEN Goto(k, "write") /\ UNCHANGED <<status, executing, wake>>
          ELSE /\ executing' = executing \ {c}
               /\ IF k \in Worker /\ disp # "skip"
                  THEN Resolve(c, disp) /\ DocumentChanges
                  ELSE UNCHANGED <<status, wake>>
               /\ Return(k, IF disp = "skip" THEN {c} ELSE {})
    /\ UNCHANGED <<cmds, log, seen, bytes, waited, stale, ran, done, left>>

\* execute up to the dispatch: a run's user message lands under its own id.
ExecuteWrites(k) ==
    /\ At(k, "write")
    /\ LET c == task[k].cmd IN
       IF cmds[c].kind = "run"
       THEN /\ log' = IF cmds[c].msg \in ToSet(log) THEN log ELSE Append(log, cmds[c].msg)
            /\ DocumentChanges
       ELSE UNCHANGED <<log, wake>>
    /\ Goto(k, "dispatch")
    /\ UNCHANGED <<cmds, status, seen, processed, executing, bytes, waited, stale,
                   ran, done, left>>

\* The worktree, the claim of the chat or the dispatch fails.
ExecuteFails(k) ==
    /\ At(k, "write") \/ At(k, "dispatch")
    /\ Spend("fail")
    /\ task' = [task EXCEPT ![k] = [@ EXCEPT !.pc = "finish", !.disp = "rejected"]]
    /\ UNCHANGED <<docVars, processed, executing, wake, bytes, waited, stale, ran, done>>

\* The effect: a turn starts, or the running one is interrupted.
ExecuteDispatches(k) ==
    /\ At(k, "dispatch")
    /\ ran' = [ran EXCEPT ![task[k].cmd] = @ + 1]
    /\ done' = done \cup {task[k].cmd}
    /\ task' = [task EXCEPT ![k] = [@ EXCEPT !.pc = "finish", !.disp = "applied"]]
    /\ UNCHANGED <<docVars, processed, executing, wake, bytes, waited, stale, left>>

\* The outcome is the drain's to write; a relay call only answers its caller.
Finish(k) ==
    /\ At(k, "finish")
    /\ executing' = executing \ {task[k].cmd}
    /\ IF k \in Worker
       THEN Resolve(task[k].cmd, task[k].disp) /\ DocumentChanges
       ELSE UNCHANGED <<status, wake>>
    /\ Return(k, {})
    /\ UNCHANGED <<cmds, log, seen, processed, bytes, waited, stale, ran, done, left>>

-----------------------------------------------------------------------------
(* The two roads.                                                          *)

\* A drain begins.
drain_commands(w) ==
    /\ At(w, "idle")
    /\ w \in wake
    /\ wake' = wake \ {w}
    /\ task' = [task EXCEPT ![w] = [Idle EXCEPT !.pc = "read"]]
    /\ UNCHANGED <<docVars, processed, executing, bytes, waited, stale, ran, done, left>>

\* read_commands: the round works on this copy.
read_commands(w) ==
    /\ At(w, "read")
    /\ task' = [task EXCEPT ![w] = [@ EXCEPT !.pc = "look", !.snap = status]]
    /\ UNCHANGED <<docVars, processed, executing, wake, bytes, waited, stale, ran,
                   done, left>>

\* Mutant: nobody looks for them.
DeadRowsNot(w) == {}

\* Consumed, not executing, still pending in the copy: taken for a crash.
DeadRows(w) ==
    {c \in Id : /\ task[w].snap[c] = "pending"
                /\ c \in processed \ (executing \cup task[w].skipped)}

\* The entries of the copy a drain may still execute, oldest first.
Eligible(w) ==
    {c \in Id : task[w].snap[c] = "pending" /\ c \notin processed \cup task[w].skipped}

\* The dead-command sweep, then the first eligible entry: wait for its bytes,
\* reject it when they never came, or go on to claim it.
PickEntry(w) ==
    /\ At(w, "look")
    /\ LET swept == [c \in Id |-> IF c \in DeadRows(w) THEN "rejected" ELSE status[c]]
           skipped == task[w].skipped \cup DeadRows(w)
       IN
       \/ /\ Eligible(w) = {}
          /\ status' = swept
          /\ task' = [task EXCEPT ![w] = Idle]
          /\ UNCHANGED processed
       \/ \E first \in Eligible(w) :
          LET disp == Disposition(first, task[w].snap)
              unready == disp = "execute" /\ Missing(first) IN
          /\ \A o \in Eligible(w) : first <= o
          /\ \/ /\ unready /\ ~waited
                /\ status' = swept
                /\ task' = [task EXCEPT ![w] = Idle]
                /\ UNCHANGED processed
             \/ /\ unready /\ waited
                /\ processed' = processed \cup {first}
                /\ status' = [swept EXCEPT ![first] = "rejected"]
                /\ task' = [task EXCEPT ![w] = [@ EXCEPT !.pc = "read", !.skipped = skipped]]
             \/ /\ ~unready
                /\ status' = swept
                /\ task' = [task EXCEPT ![w] = [@ EXCEPT !.pc = "claim", !.cmd = first,
                                                         !.disp = disp, !.snap = NoRows,
                                                         !.skipped = skipped]]
                /\ UNCHANGED processed
    /\ IF status' # status THEN DocumentChanges ELSE UNCHANGED wake
    /\ UNCHANGED <<cmds, log, seen, executing, bytes, waited, stale, ran, done, left>>

\* One relay call reaches the host: refused while bytes are missing, answered
\* "duplicate" when the ledger has the id.
ingest_relayed_command(k, c) ==
    /\ Spend("relay")
    /\ At(k, "idle")
    /\ c \in Issued \cap Relayed /\ cmds[c].from = "sender"
    /\ ~Missing(c)
    /\ IF Disposition(c, status) = "skip"
       THEN UNCHANGED task
       ELSE task' = [task EXCEPT ![k] = [Idle EXCEPT !.pc = "claim", !.cmd = c,
                                                     !.disp = Disposition(c, status)]]
    /\ UNCHANGED <<docVars, processed, executing, wake, bytes, waited, stale, ran, done>>

\* The host's process dies and starts again: the chat's task drains at once, and
\* set_sessions drains every open chat.
Crash ==
    /\ Spend("crash")
    /\ task' = [k \in Task |-> Idle]
    /\ executing' = {} /\ done' = {}
    /\ wake' = Worker
    /\ UNCHANGED <<docVars, processed, bytes, waited, stale, ran>>

-----------------------------------------------------------------------------
Steps(k) ==
    Claim(k) \/ Mark(k) \/ ExecuteWrites(k) \/ ExecuteDispatches(k) \/ Finish(k)

Drain(w) == drain_commands(w) \/ read_commands(w) \/ PickEntry(w)

Next ==
    \/ \E kind \in {"run", "interrupt"} : queue_command(kind)
    \/ \E c \in Id :
        \/ RowArrives(c) \/ Expire(c)
        \/ \E dev \in {"host", "sender"} : retry_delivery(dev, c)
        \/ \E k \in Call : ingest_relayed_command(k, c)
    \/ HostSeen \/ UploadLands \/ WaitRunsOut \/ Crash
    \/ \E w \in Worker : Drain(w)
    \/ \E k \in Task : Steps(k) \/ ExecuteFails(k)

Spec == Init /\ [][Next]_vars

\* The runtime keeps every spawned task going; the wait of a deferred command
\* ends by a timer if its bytes never land.
FairSpec ==
    /\ Spec
    /\ \A w \in Worker : WF_vars(Drain(w) \/ Steps(w))
    /\ \A k \in Call : WF_vars(Steps(k))
    /\ WF_vars(WaitRunsOut)

-----------------------------------------------------------------------------
(* Properties.                                                             *)

\* "exactly-once across both roads": a command takes effect at most once,
\* whichever road brought it how often.  With a row in one drain's hands while
\* another task executes the command it fails: the drain claims the entry once
\* it is free again and does not look at mark_processed's answer.
EachOnce == \A c \in Id : ran[c] <= 1

\* Task k has picked command c and not executed it yet.
Carries(k, c) == task[k].cmd = c /\ task[k].pc \in {"claim", "mark", "write", "dispatch"}

\* No task takes up a command that has taken effect: not a drain, not a relay
\* call, not after a crash in the middle of its execution, not for a row that
\* arrives late.  Only a drain that carried it before can repeat it (the ledger
\* mark before the execution, drain_commands, ingest_relayed_command).
NotTakenUpAgain ==
    [][\A c \in Id : ran[c] > 0 =>
         /\ \A k \in Task : Carries(k, c)' => Carries(k, c)
         /\ ran'[c] # ran[c] => \E w \in Worker : Carries(w, c) /\ ~Carries(w, c)']_vars

\* The row of a relayed command that arrives later is a no-op in the drain: a
\* command whose execution succeeded is never reported as rejected
\* (ingest_relayed_command, the dead-command sweep of drain_commands).
ExecutedNotRejected == \A c \in done : status[c] # "rejected"

\* No send stays pending for ever: every row that reached the host gets an
\* outcome, across a crash between mark and outcome, an expiry, missing
\* attachments, failures and racing drains (drain_commands,
\* arm_attachment_wait).  A command that was forwarded as well is excepted once
\* it is consumed: a relay call wakes no drain when it ends, so a row that
\* arrives during its execution waits for the next change of the document.
EveryRowResolved ==
    \A c \in Id : status[c] = "pending" ~> status[c] \in Terminal \/ c \in Relayed \cap processed
=============================================================================
