------------------------------ MODULE MCQueue ------------------------------
(***************************************************************************)
(* An instance of MessageQueue for TLC.  What the users of the chat do is   *)
(* chosen at the start of a behaviour and kept: two of them edit one row,    *)
(* with its timers and a restart in between, or one of them queues two rows  *)
(* that are sent, cancelled and resumed through two executors.              *)
(***************************************************************************)
EXTENDS MessageQueue, TLC

CONSTANTS r1, r2, t1, t2, e1, e2, l1, l2, docTask, relay

TwoRows == {r1, r2}
TwoTexts == {t1, t2}
TwoEditors == {e1, e2}
TwoLeases == {l1, l2}
TwoExecutors == {docTask, relay}
AnyHarness == BOOLEAN

\* How often each optional step of a run may happen, and all of them together.
Kinds == {"update", "move", "send", "steer", "fail", "run", "cancel", "resume",
          "crash", "gone"}
OnceEach == [k \in Kinds \cup {"any"} |-> IF k = "any" THEN 3 ELSE 1]

VARIABLE users    \* what the users do in this behaviour

\* Editors: one row.  Senders: one text, one editor, one lease, and clocks that
\* stop when it has run out.
Allowed ==
    IF users = "editing" THEN {"update", "send", "steer", "crash", "gone"}
    ELSE Kinds \ {"update", "steer", "gone"}
Bounded ==
    /\ \A k \in Kinds \ Allowed : left'[k] = left[k]
    /\ users = "editing" => fate'[r2] = "unborn"
    /\ users = "sending" =>
         /\ edit'[e2] = NoEdit /\ l2 \notin leases'
         /\ \A m \in ToSet(queue') : m.text = t1
         /\ edit'[e1] # NoEdit => edit'[e1].until <= MaxTime

MCInit == Init /\ users \in {"editing", "sending"}
MCNext == Next /\ Bounded /\ UNCHANGED users
MCSpec == MCInit /\ [][MCNext]_<<vars, users>> /\ Fairness
=============================================================================
