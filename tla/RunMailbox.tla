----------------------------- MODULE RunMailbox -----------------------------
(***************************************************************************)
(* The runs of one chat on its host (crates/engine/src/sessions.rs) and the *)
(* messages routed into them.  A prompt either starts a run or goes into the *)
(* mailbox of the live one; from then until the agent's Steered boundary     *)
(* confirms it, the run's ledger owns it, and a run that ends hands its      *)
(* ledger to a task that dispatches each entry again.                       *)
(*                                                                         *)
(* The runs map, a ledger and a mailbox have locks of their own, so a        *)
(* dispatch is one step per lock region and per await.  The agent takes its  *)
(* mailbox in order, as the codex adapter does; a prompt it keeps for the    *)
(* end of the turn is not told from one still in the mailbox.  Steerable     *)
(* harnesses only: for the others there is no mailbox to lose a prompt from. *)
(***************************************************************************)
EXTENDS Naturals, Sequences, SequencesExt, FiniteSets

CONSTANTS
    Msg,        \* user messages, each sent once
    Steers,     \* those offered to the live run before they are dispatched
    Rich,       \* those that may have attachments or another configuration
    First,      \* the message the chat's run was started with
    MaxRuns,    \* bound: how many runs may start
    Capacity,   \* of a mailbox (32)
    Budgets     \* bounds: how often each optional step happens, one per instance

None == 0
Run == 1..MaxRuns
Task == Msg \cup Run    \* the sender of a message; what a run left behind

ASSUME MailboxAssumption ==
    /\ MaxRuns \in Nat \ {0}
    /\ Capacity \in Nat
    /\ First \in Msg /\ Steers \subseteq Msg /\ Rich \subseteq Msg
    /\ Msg \cap (Run \cup {None}) = {}

VARIABLES
    current,    \* the run registered for the chat in `runs`, or None
    run,        \* run[r]: the locals of drive_run and the handle's signals, and
                \* as history what its ledger owed when the loop ended
    agent,      \* agent[r]: the harness side of run r
    box,        \* box[r]: its mailbox
    out,        \* out[r]: its event stream, unread
    ledger,     \* ledger[r]: RunHandle.routed_steers
    task,       \* task[k]: where a dispatch or steer stands
    confirmed,  \* messages whose boundary retired a ledger entry
    left        \* bounds left

runVars == <<current, run, agent, box, out, ledger>>
vars == <<runVars, task, confirmed, left>>

Unborn == [at |-> "unborn", msg |-> None, retry |-> FALSE, parked |-> FALSE,
           cancel |-> FALSE, orphans |-> <<>>, owed |-> <<>>, fate |-> "live"]
Gone(r) == [run[r] EXCEPT !.at = "gone", !.parked = FALSE, !.cancel = FALSE]
NoTask == [at |-> "idle", msg |-> None, how |-> "dispatch", rich |-> FALSE,
           run |-> None, rest |-> <<>>, retry |-> FALSE]
Dispatched(m, retry) == [Unborn EXCEPT !.at = "starting", !.msg = m, !.retry = retry]

\* The chat's first prompt has just been dispatched.
Init ==
    /\ current = 1
    /\ run = [r \in Run |-> IF r = 1 THEN Dispatched(First, FALSE) ELSE Unborn]
    /\ agent = [r \in Run |-> IF r = 1 THEN "boot" ELSE "none"]
    /\ box = [r \in Run |-> <<>>]
    /\ out = [r \in Run |-> <<>>]
    /\ ledger = [r \in Run |-> <<>>]
    /\ task = [k \in Task |-> IF k = First THEN [NoTask EXCEPT !.at = "done"] ELSE NoTask]
    /\ confirmed = {}
    /\ left \in Budgets

Spend(kind) ==
    /\ left[kind] > 0 /\ left["any"] > 0
    /\ left' = [left EXCEPT ![kind] = @ - 1, !["any"] = @ - 1]

-----------------------------------------------------------------------------
(* Senders: steer, dispatch_inner and interrupt.                           *)

At(k, pc) == task[k].at = pc
Goto(k, pc) == task' = [task EXCEPT ![k].at = pc]

\* Dispatch again, or for the first time after the steer found no run.
Redispatch(k) ==
    task' = [task EXCEPT ![k].at = "lookup", ![k].how = "dispatch", ![k].run = None]

\* The call returns; a re-dispatch task goes on with its next orphan.
Return(k) ==
    LET rest == task[k].rest IN
    task' = [task EXCEPT ![k] =
        IF rest = <<>> THEN [NoTask EXCEPT !.at = "done"]
        ELSE [NoTask EXCEPT !.at = "lookup", !.msg = Head(rest), !.rest = Tail(rest)]]

\* A prompt, a queued row or a command reaches the engine.
send(m, rich) ==
    /\ At(m, "idle")
    /\ rich => m \in Rich
    /\ left["send"] > 0 /\ left' = [left EXCEPT !["send"] = @ - 1]
    /\ task' = [task EXCEPT ![m] =
          [@ EXCEPT !.at = "lookup", !.msg = m, !.rich = rich,
                    !.how = IF m \in Steers THEN "steer" ELSE "dispatch"]]
    /\ UNCHANGED <<runVars, confirmed>>

\* A steer is text; a dispatch can be routed if its configuration is the run's
\* and it has no attachments (RuntimeConfig::can_route).
can_route(k) == task[k].how = "steer" \/ ~task[k].rich

lookup(k) ==
    /\ At(k, "lookup")
    /\ \/ /\ current # None
          /\ task' = [task EXCEPT ![k].run = current,
                         ![k].at = IF can_route(k) THEN "post" ELSE "interrupt"]
       \/ /\ current = None /\ task[k].how = "steer"
          /\ Redispatch(k)
       \/ /\ current = None /\ task[k].how = "dispatch"
          /\ Goto(k, "start")
    /\ UNCHANGED <<runVars, confirmed, left>>

Open(r) == agent[r] # "dead" /\ Len(box[r]) < Capacity

\* Under the ledger's lock: try_send, and the entry if it was taken.
post(k) ==
    LET r == task[k].run
        m == task[k].msg
    IN
    /\ At(k, "post")
    /\ \/ /\ Open(r)
          /\ box' = [box EXCEPT ![r] = Append(@, m)]
          /\ ledger' = [ledger EXCEPT ![r] = Append(@, m)]
          /\ Goto(k, "check")
       \/ /\ ~Open(r)
          /\ IF task[k].how = "steer" THEN Redispatch(k) ELSE Goto(k, "interrupt")
          /\ UNCHANGED <<box, ledger>>
    /\ UNCHANGED <<current, run, agent, out, confirmed, left>>

\* is_live, after the user message is in the document.
check(k) ==
    /\ At(k, "check")
    /\ IF current = task[k].run THEN Return(k) ELSE Goto(k, "reclaim")
    /\ UNCHANGED <<runVars, confirmed, left>>

\* The run died around the send: an entry still there is the sender's again,
\* one that is gone belongs to the run's exit.
reclaim(k) ==
    LET r == task[k].run
        m == task[k].msg
    IN
    /\ At(k, "reclaim")
    /\ \/ /\ \E i \in DOMAIN ledger[r] :
               ledger[r][i] = m /\ ledger' = [ledger EXCEPT ![r] = RemoveAt(@, i)]
          /\ IF task[k].how = "steer" THEN Redispatch(k) ELSE Goto(k, "interrupt")
       \/ /\ m \notin ToSet(ledger[r])
          /\ Return(k)
          /\ UNCHANGED ledger
    /\ UNCHANGED <<current, run, agent, box, out, confirmed, left>>

\* The cancel watch, then the harness token.
Cancelled(r) == [run EXCEPT ![r].cancel = TRUE]

\* Whatever run is registered by now is replaced.
interrupt(k) ==
    /\ At(k, "interrupt")
    /\ IF current = None
         THEN Goto(k, "start") /\ UNCHANGED run
         ELSE /\ run' = Cancelled(current)
              /\ task' = [task EXCEPT ![k].at = "settle", ![k].run = current]
    /\ UNCHANGED <<current, agent, box, out, ledger, confirmed, left>>

\* The bounded wait: 5 s is more than the run needs once it drives its stream
\* (3 s), so it runs out only on a harness that has not finished starting.
settle(k) ==
    /\ At(k, "settle")
    /\ current # task[k].run \/ run[task[k].run].at = "starting"
    /\ Goto(k, "start")
    /\ UNCHANGED <<runVars, confirmed, left>>

\* A new handle replaces the one in the map, if any; drive_run is spawned.
start(k) ==
    /\ At(k, "start")
    /\ \E r \in Run :
        /\ run[r].at = "unborn"
        /\ \A x \in Run : run[x].at = "unborn" => r <= x
        /\ current' = r
        /\ run' = [run EXCEPT ![r] = Dispatched(task[k].msg, task[k].retry)]
        /\ agent' = [agent EXCEPT ![r] = "boot"]
    /\ Return(k)
    /\ UNCHANGED <<box, out, ledger, confirmed, left>>

\* The stop button, a queued row sent now, the engine's shutdown.
user_interrupt ==
    /\ current # None /\ ~run[current].cancel
    /\ Spend("cancel")
    /\ run' = Cancelled(current)
    /\ UNCHANGED <<current, agent, box, out, ledger, task, confirmed>>

-----------------------------------------------------------------------------
(* The harness side of a run, as the codex adapter keeps it.  What it does  *)
(* once nobody drives its stream is not seen by the engine, except that its  *)
(* mailbox stays open until it stops.                                       *)

Alive(r) == agent[r] \in {"boot", "turn", "idle"}
Driven(r) == run[r].at = "driving"
Emit(r, event) == out' = [out EXCEPT ![r] = Append(@, event)]
Event(t, m) == [t |-> t, msg |-> m]

\* The session is announced and the first turn runs.
AgentStarts(r) ==
    /\ Driven(r) /\ agent[r] = "boot"
    /\ agent' = [agent EXCEPT ![r] = "turn"]
    /\ UNCHANGED <<current, run, box, out, ledger, task, confirmed, left>>

\* Into the live turn, or as the next turn between turns: Steered either way.
AgentTakes(r) ==
    /\ Driven(r) /\ agent[r] \in {"turn", "idle"}
    /\ box[r] # <<>>
    /\ box' = [box EXCEPT ![r] = Tail(@)]
    /\ agent' = [agent EXCEPT ![r] = "turn"]
    /\ Emit(r, Event("steered", Head(box[r])))
    /\ UNCHANGED <<current, run, ledger, task, confirmed, left>>

AgentEndsTurn(r) ==
    /\ Driven(r) /\ agent[r] = "turn"
    /\ agent' = [agent EXCEPT ![r] = "idle"]
    /\ Emit(r, Event("done", None))
    /\ UNCHANGED <<current, run, box, ledger, task, confirmed, left>>

\* The turn fails: a Done that says so, from a session that stays open.
AgentFailsTurn(r) ==
    /\ Driven(r) /\ agent[r] = "turn"
    /\ Spend("die")
    /\ agent' = [agent EXCEPT ![r] = "idle"]
    /\ Emit(r, Event("failed", None))
    /\ UNCHANGED <<current, run, box, ledger, task, confirmed>>

\* The stream ends and with it the mailbox's receiver: a crash if no session was
\* announced before.
AgentStops(r) ==
    /\ agent' = [agent EXCEPT ![r] = "dead"]
    /\ IF Driven(r)
         THEN Emit(r, Event(IF agent[r] = "boot" THEN "crash" ELSE "eof", None))
         ELSE UNCHANGED out
    /\ UNCHANGED <<current, run, box, ledger, task, confirmed>>

AgentDies(r) == Driven(r) /\ Alive(r) /\ Spend("die") /\ AgentStops(r)

\* It obeys its token, or notices that nobody reads it: in its own time or never.
\* Nobody sees when, but who is about to post into its mailbox.
AgentObeys(r) ==
    /\ Alive(r)
    /\ \/ Driven(r) /\ run[r].cancel
       \/ /\ run[r].at \in {"claimed", "gone"}
          /\ \E k \in Task : At(k, "post") /\ task[k].run = r
    /\ AgentStops(r)
    /\ UNCHANGED left

-----------------------------------------------------------------------------
(* drive_run.                                                              *)

\* Mutant: the handle of a run that is over stays in the map.
remove_runNever(r) == UNCHANGED current

\* Mutant: whatever handle the chat has is removed.
remove_runAny(r) == current' = None

\* Only the handle of this run is removed.
remove_run(r) == current' = IF current = r THEN None ELSE current

\* harness.run returned an error: the run ends here, its ledger unread.
StartFails(r) ==
    /\ run[r].at = "starting"
    /\ Spend("fail")
    /\ run' = [run EXCEPT ![r] = [Gone(r) EXCEPT !.fate = "failed"]]
    /\ agent' = [agent EXCEPT ![r] = "dead"]
    /\ remove_run(r)
    /\ UNCHANGED <<box, out, ledger, task, confirmed>>

StartReturns(r) ==
    /\ run[r].at = "starting"
    /\ run' = [run EXCEPT ![r].at = "driving"]
    /\ UNCHANGED <<current, agent, box, out, ledger, task, confirmed, left>>

\* The cancel watch: sent to, or dropped with a handle that was replaced.  The
\* select is biased, so a cancel is seen before any later event.
interrupted(r) == run[r].cancel \/ current # r

\* Mutant: the exit reads the ledger and leaves it to the handle.
TakeCopies(r) == ledger

\* std::mem::take of the unconfirmed entries, if the handle is still this run's.
Take(r) == IF current = r THEN [ledger EXCEPT ![r] = <<>>] ELSE ledger

\* Mutant: the exit claims nothing.
LeaveUnclaimed(r) ==
    /\ run' = [run EXCEPT ![r].at = "claimed", ![r].owed = ledger[r],
                          ![r].fate = IF interrupted(r) THEN "cancelled" ELSE "ended"]
    /\ UNCHANGED <<current, agent, box, ledger, task, confirmed>>

\* The loop ends and the exit claims what the ledger still owns.
Leave(r) ==
    /\ run' = [run EXCEPT ![r].at = "claimed",
                          ![r].orphans = IF current = r THEN ledger[r] ELSE <<>>,
                          ![r].owed = ledger[r],
                          ![r].fate = IF interrupted(r) THEN "cancelled" ELSE "ended"]
    /\ ledger' = Take(r)
    /\ UNCHANGED <<current, agent, box, task, confirmed>>

\* Mutant: a cancel arms no deadline, so the run ends when its agent does.
DueOnEof(r) == interrupted(r) /\ ~Alive(r)

Due(r) == interrupted(r)

\* Three seconds after a cancel the run ends, whatever the agent does.
Deadline(r) == Driven(r) /\ Due(r) /\ Leave(r) /\ UNCHANGED <<out, left>>

\* Thirty minutes parked: the child is released.
Reap(r) ==
    /\ Driven(r) /\ run[r].parked
    /\ Spend("reap")
    /\ Leave(r)
    /\ UNCHANGED out

Reads(r, t) ==
    /\ Driven(r)
    /\ out[r] # <<>> /\ Head(out[r]).t = t
    /\ out' = [out EXCEPT ![r] = Tail(@)]

\* Mutant: the boundary retires the newest entry.
RetireNewest(entries) == Front(entries)

\* The boundary confirms the oldest accepted message.
Retire(entries) == Tail(entries)

OnSteered(r) ==
    /\ Reads(r, "steered")
    /\ run' = [run EXCEPT ![r].parked = FALSE]
    /\ IF current = r /\ ledger[r] # <<>>
         THEN /\ ledger' = [ledger EXCEPT ![r] = Retire(@)]
              /\ confirmed' = confirmed \cup {Head(out[r]).msg}
         ELSE UNCHANGED <<ledger, confirmed>>
    /\ UNCHANGED <<current, agent, box, task, left>>

\* A completed turn parks the run; an interrupted run ends.
OnDone(r) ==
    /\ Reads(r, "done")
    /\ \/ interrupted(r) /\ Leave(r)
       \/ /\ ~interrupted(r)
          /\ run' = [run EXCEPT ![r].parked = TRUE]
          /\ UNCHANGED <<current, agent, box, ledger, task, confirmed>>
    /\ UNCHANGED left

\* The stream ended, parked or in a turn, or its turn failed.
OnEof(r) ==
    /\ \E t \in {"failed", "eof", "crash"} : Reads(r, t)
    /\ Leave(r)
    /\ UNCHANGED left

\* Startup-crash retry, of a run that resumed a session: the same prompt is
\* dispatched once more; the ledger stays unread.
StartupRetry(r) ==
    /\ Reads(r, "crash")
    /\ ~interrupted(r) /\ ~run[r].retry
    /\ Spend("retry")
    /\ run' = [run EXCEPT ![r] = [Gone(r) EXCEPT !.fate = "retried"]]
    /\ remove_run(r)
    /\ \E rich \in BOOLEAN :
        /\ rich => run[r].msg \in Rich
        /\ task' = [task EXCEPT ![r] = [NoTask EXCEPT !.at = "lookup", !.rich = rich,
                                          !.msg = run[r].msg, !.retry = TRUE]]
    /\ UNCHANGED <<agent, box, ledger, confirmed>>

\* Mutant: only a turn that was in flight leaves work behind.
LeavesWorkInTurn(r) ==
    run[r].fate = "ended" /\ ~run[r].parked /\ run[r].orphans # <<>>

LeavesWork(r) == run[r].fate = "ended" /\ run[r].orphans # <<>>

\* Then the handle goes; a run nobody cancelled dispatches its orphans again.
Exit(r) ==
    /\ run[r].at = "claimed"
    /\ remove_run(r)
    /\ out' = [out EXCEPT ![r] = <<>>]
    /\ IF LeavesWork(r)
         THEN /\ task' = [task EXCEPT ![r] =
                    [NoTask EXCEPT !.at = "lookup", !.msg = Head(run[r].orphans),
                                   !.rest = Tail(run[r].orphans)]]
              /\ run' = [run EXCEPT ![r] = [Gone(r) EXCEPT !.orphans = <<>>]]
         ELSE run' = [run EXCEPT ![r] = Gone(r)] /\ UNCHANGED task
    /\ UNCHANGED <<agent, box, ledger, confirmed, left>>

-----------------------------------------------------------------------------
Sender(k) ==
    \/ lookup(k) \/ post(k) \/ check(k) \/ reclaim(k)
    \/ interrupt(k) \/ settle(k) \/ start(k)

AgentStep(r) == AgentStarts(r) \/ AgentTakes(r) \/ AgentEndsTurn(r)

DriveStep(r) ==
    \/ StartReturns(r) \/ Deadline(r) \/ OnSteered(r) \/ OnDone(r) \/ OnEof(r)
    \/ Exit(r)

Next ==
    \/ \E m \in Msg, rich \in BOOLEAN : send(m, rich)
    \/ \E k \in Task : Sender(k)
    \/ user_interrupt
    \/ \E r \in Run :
        \/ AgentStep(r) \/ AgentFailsTurn(r) \/ AgentDies(r) \/ AgentObeys(r)
        \/ DriveStep(r) \/ StartFails(r) \/ Reap(r) \/ StartupRetry(r)

Spec == Init /\ [][Next]_vars

\* The engine's tasks run; the agent starts, reads its mailbox and ends its
\* turns.  Nothing makes it obey a cancel.  One of these steps moves whenever one
\* can: messages and runs are finitely many, so no step waits forever.
Progress ==
    \/ \E k \in Task : Sender(k)
    \/ \E r \in Run : AgentStep(r) \/ DriveStep(r)
FairSpec == Spec /\ WF_vars(Progress)

-----------------------------------------------------------------------------
(* Properties.                                                             *)

RunType ==
    [at : {"unborn", "starting", "driving", "claimed", "gone"},
     msg : Msg \cup {None}, retry : BOOLEAN, parked : BOOLEAN, cancel : BOOLEAN,
     orphans : Seq(Msg), owed : Seq(Msg), fate : {"live", "ended", "cancelled", "failed", "retried"}]
TaskType ==
    [at : {"idle", "lookup", "post", "check", "reclaim", "interrupt", "settle",
           "start", "done"},
     msg : Msg \cup {None}, how : {"steer", "dispatch"}, rich : BOOLEAN,
     run : Run \cup {None}, rest : Seq(Msg), retry : BOOLEAN]
EventType ==
    [t : {"steered"}, msg : Msg] \cup [t : {"done", "failed", "eof", "crash"}, msg : {None}]

TypeOK ==
    /\ current \in Run \cup {None}
    /\ run \in [Run -> RunType]
    /\ agent \in [Run -> {"none", "boot", "turn", "idle", "dead"}]
    /\ box \in [Run -> Seq(Msg)] /\ out \in [Run -> Seq(EventType)]
    /\ ledger \in [Run -> Seq(Msg)]
    /\ task \in [Task -> TaskType]
    /\ confirmed \subseteq Msg
    /\ current # None => run[current].at \in {"starting", "driving", "claimed"}

\* The run that can be routed to, until its exit has taken the ledger.
Routable(r) == current = r /\ run[r].at \in {"starting", "driving"}

\* How many of the first i events of a stream are boundaries.
Steered(s, i) == Cardinality({j \in 1..i : s[j].t = "steered"})

\* The entries a run's ledger should have: those of its unread boundaries, then
\* those of its mailbox.
Unconfirmed(entries, s, b) ==
    LET n == Steered(s, Len(s)) IN
    /\ Len(entries) = n + Len(b)
    /\ \A i \in 1..Len(s) : s[i].t = "steered" => entries[Steered(s, i)] = s[i].msg
    /\ \A i \in 1..Len(b) : entries[n + i] = b[i]

\* "a fast consumer must never outrun its ledger entry": what the ledger owns is
\* exactly what the agent has not confirmed, in the order it will confirm it, so
\* a boundary never retires another message's entry.
LedgerIsUnconfirmed ==
    \A r \in Run : Routable(r) => Unconfirmed(ledger[r], out[r], box[r])

\* Who would still bring message m to the agent.
InHand(k, m) ==
    \/ m \in ToSet(task[k].rest)
    \/ task[k].msg = m /\ task[k].at \notin {"idle", "check", "reclaim", "done"}
Owners(m) ==
    {k \in Task : InHand(k, m)}
        \cup {<<"ledger", r>> : r \in {x \in Run : m \in ToSet(ledger[x])}}
        \cup {<<"exit", r>> : r \in {x \in Run : m \in ToSet(run[x].orphans)}}

Prompted(m) == \E r \in Run : run[r].msg = m
Retried(m) == \E r \in Run : run[r].msg = m /\ run[r].fate = "retried"

\* A message has one owner at a time and none once it is a run's prompt or its
\* boundary was confirmed: the sender that lost its run, the exit of that run and
\* the agent never deliver it twice.
OneOwner ==
    \A m \in Msg :
        /\ Cardinality(Owners(m)) <= 1
        /\ Prompted(m) \/ m \in confirmed => Owners(m) = {} \/ Retried(m)

\* A run's exit unregisters no other run: a handle leaves the map when its own run
\* ends, or makes way for one that starts.
StaleExitKeepsNewRun ==
    [][\A r \in Run : current = r /\ current' # r =>
         \/ run'[r].at = "gone"
         \/ current' # None /\ run[current'].at = "unborn"]_vars

\* The run that had accepted message m was cancelled or replaced: the user's
\* stop stops what was sent before it.
Stopped(m) ==
    \E r \in Run :
        /\ run[r].at \in {"claimed", "gone"} /\ run[r].fate = "cancelled"
        /\ m \in ToSet(ledger[r]) \cup ToSet(run[r].orphans)

\* The sender of m comes back to the ledger of run r.
ComesBack(m, r) ==
    \E k \in Task : task[k].msg = m /\ task[k].run = r /\ task[k].at \in {"check", "reclaim"}

\* Message m stays behind with a run that nobody cancelled: one that did not
\* start, one that crashed before its session and is retried, or one that had
\* claimed its ledger before m came and was still registered after.
Stranded(m) ==
    \E r \in Run :
        /\ run[r].at = "gone" /\ m \in ToSet(ledger[r]) /\ ~ComesBack(m, r)
        /\ \/ run[r].fate \in {"failed", "retried"}
           \/ run[r].fate = "ended" /\ m \notin ToSet(run[r].owed)

\* A run whose loop ends by itself, in a turn or parked, reaped, dead or at the
\* end of its stream, leaves nothing of what its ledger owed: every message
\* sent ends as a run's prompt, confirmed by the agent, stopped by the user, or
\* stranded as above (drive_run's exit, reclaim, the re-dispatch of orphans).
EveryMessageRuns ==
    []<>(\A m \in Msg :
            \/ At(m, "idle") \/ Prompted(m) \/ m \in confirmed
            \/ Stopped(m) \/ Stranded(m))

\* "an accepted message can never silently evaporate": no message is left in the
\* ledger of a run that is over and that nobody cancelled.
NoMessageStranded == \A m \in Msg : ~Stranded(m)

\* "a harness that ignores its token can never strand the run": a cancelled or
\* replaced run that drives its stream leaves its loop in the end, whatever its
\* agent does.
CancelSettles == []<>(\A r \in Run : ~(Driven(r) /\ interrupted(r)))
=============================================================================
