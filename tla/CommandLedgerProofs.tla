------------------------ MODULE CommandLedgerProofs ------------------------
(***************************************************************************)
(* What has taken effect is not taken up again: for any number of commands,  *)
(* of drains and of relay calls, whichever roads a command travels by, and    *)
(* through any retries, failures, expiries and crashes.                      *)
(***************************************************************************)
EXTENDS CommandLedger, TLAPS, SequenceTheorems, FiniteSetTheorems

Disp == {"none", "skip", "expired", "superseded", "execute", "rejected", "applied"}
Status == Disp \cup {"absent", "pending"}
CmdType ==
    [kind : {"run", "interrupt"}, msg : Nat, based : Nat, from : {"sender", "host"}]
TaskType ==
    [pc : {"idle", "read", "look", "claim", "mark", "write", "dispatch", "finish"},
     cmd : Nat, disp : Disp, snap : [Id -> Status], skipped : SUBSET Id]

Typed ==
    /\ cmds \in Seq(CmdType) /\ Len(cmds) <= MaxCmds
    /\ status \in [Id -> Status]
    /\ log \in Seq(Nat)
    /\ seen \in [status : [Id -> Status], log : Seq(Nat)]
    /\ task \in [Task -> TaskType]
    /\ ran \in [Id -> Nat]

Claimed(k) == task[k].pc \in {"mark", "write", "dispatch", "finish"}
Holds(k) == task[k].pc = "claim" \/ Claimed(k)

\* Rows, copies of rows and entries in hand are of commands that were issued.
Rooted ==
    /\ \A c \in Id : status[c] # "absent" => c \in Issued
    /\ \A k \in Task, c \in Id : task[k].snap[c] # "absent" => status[c] # "absent"
    /\ \A k \in Task : Holds(k) => task[k].cmd \in Issued

\* An entry is in the hands of one task from its claim to its outcome.
Claims ==
    /\ \A k \in Task : Claimed(k) => task[k].cmd \in executing
    /\ \A k, l \in Task : Claimed(k) /\ Claimed(l) /\ k # l => task[k].cmd # task[l].cmd

Executes(k) == task[k].pc \in {"write", "dispatch"}

\* What runs or has run is in the ledger; a relay call, which looks at what
\* mark_processed answers, only executes what has not run.
Ledger ==
    /\ \A k \in Task : Executes(k) => task[k].cmd \in processed
    /\ \A k \in Call : Executes(k) => ran[task[k].cmd] = 0
    /\ \A c \in Id : ran[c] > 0 => c \in processed

LedgerInv == Typed /\ Rooted /\ Claims /\ Ledger

-----------------------------------------------------------------------------
(* Shapes.                                                                 *)

LEMMA IdNat == Id \subseteq Nat /\ 0 \notin Id
BY LedgerAssumption DEF Id

LEMMA IdleTyped == Idle \in TaskType
BY DEF Idle, TaskType, Disp, NoRows, Status, None

LEMMA IssuedIds ==
    ASSUME Typed
    PROVE  Issued = 1 .. Len(cmds) /\ Len(cmds) \in Nat /\ Issued \subseteq Id
BY LedgerAssumption, LenProperties DEF Typed, Issued, Id

\* A task that moves, and the others.
LEMMA Moved ==
    ASSUME Typed, NEW k \in Task, NEW t \in TaskType, task' = [task EXCEPT ![k] = t]
    PROVE  /\ task' \in [Task -> TaskType] /\ task'[k] = t
           /\ \A l \in Task \ {k} : task'[l] = task[l]
BY DEF Typed

\* One more command leaves the others as they are.
LEMMA Issuing ==
    ASSUME Typed, Len(cmds) < MaxCmds, NEW x \in CmdType, cmds' = Append(cmds, x)
    PROVE  /\ cmds' \in Seq(CmdType) /\ Len(cmds') <= MaxCmds
           /\ Issued' = Issued \cup {Len(cmds) + 1}
           /\ Len(cmds) + 1 \in Id \ Issued
           /\ cmds'[Len(cmds) + 1] = x
           /\ \A c \in Issued : cmds'[c] = cmds[c]
<1>1. Len(cmds) \in Nat /\ cmds \in Seq(CmdType) /\ Issued = 1 .. Len(cmds)
  BY IssuedIds DEF Typed
<1>2. /\ cmds' \in Seq(CmdType) /\ Len(cmds') = Len(cmds) + 1
      /\ \A i \in 1 .. Len(cmds) : cmds'[i] = cmds[i]
      /\ cmds'[Len(cmds) + 1] = x
  BY <1>1, AppendProperties
<1>3. Issued' = 1 .. (Len(cmds) + 1)
  BY <1>2, LenProperties DEF Issued
<1>4. QED
  BY <1>1, <1>2, <1>3, LedgerAssumption DEF Id

LEMMA LastTyped ==
    ASSUME NEW s \in Seq(Nat)
    PROVE  LastOf(s) \in Nat
<1>1. CASE s = <<>>
  BY <1>1 DEF LastOf, None
<1>2. CASE s # <<>>
  <2>1. Len(s) \in 1 .. Len(s)
    BY <1>2, EmptySeq, LenProperties
  <2>2. s[Len(s)] \in Nat
    BY <2>1, ElementOfSeq
  <2>3. QED
    BY <1>2, <2>2 DEF LastOf, Last
<1>3. QED
  BY <1>1, <1>2

-----------------------------------------------------------------------------
(* Steps outside the tasks.                                                *)

\* Commands and rows come, tasks and the ledger stay.
LEMMA Environment ==
    ASSUME LedgerInv, Typed', UNCHANGED <<task, executing, processed, ran>>,
           Issued \subseteq Issued',
           \A c \in Id : status[c] # "absent" => status'[c] # "absent",
           \A c \in Id : status[c] = "absent" /\ status'[c] # "absent" => c \in Issued'
    PROVE  LedgerInv'
<1>0. \A k \in Task : Holds(k)' <=> Holds(k)
  BY DEF Holds, Claimed
<1>1. \A k \in Task, c \in Id : task'[k].snap[c] # "absent" => status'[c] # "absent"
  BY DEF LedgerInv, Rooted
<1>2. \A k \in Task : Holds(k) => task[k].cmd \in Issued /\ task[k].cmd \in Id
  BY IssuedIds DEF LedgerInv, Rooted
<1>3. Rooted'
  BY <1>0, <1>1, <1>2 DEF LedgerInv, Rooted, Task
<1>4. Claims' /\ Ledger'
  BY DEF LedgerInv, Claims, Claimed, Ledger, Executes
<1>5. QED
  BY <1>3, <1>4 DEF LedgerInv

LEMMA QueueInv ==
    ASSUME LedgerInv, NEW kind \in {"run", "interrupt"}, queue_command(kind)
    PROVE  LedgerInv'
<1> DEFINE new == Len(cmds) + 1
           x == [kind |-> kind, msg |-> new, based |-> LastOf(seen.log), from |-> "sender"]
<1>1. /\ Typed /\ Len(cmds) \in Nat /\ Len(cmds) < MaxCmds /\ cmds' = Append(cmds, x)
      /\ seen' = [seen EXCEPT !.status[new] = "pending"]
      /\ UNCHANGED <<status, log, processed, executing, task, ran>>
  BY IssuedIds DEF LedgerInv, queue_command
<1>2. seen.log \in Seq(Nat) /\ seen.status \in [Id -> Status]
  BY <1>1 DEF Typed
<1>3. x \in CmdType
  BY <1>1, <1>2, LastTyped DEF CmdType
<1> HIDE DEF x
<1>4. /\ cmds' \in Seq(CmdType) /\ Len(cmds') <= MaxCmds
      /\ Issued' = Issued \cup {new} /\ \A c \in Issued : cmds'[c] = cmds[c]
  BY ONLY <1>1, <1>3, Issuing
<1>5. seen' \in [status : [Id -> Status], log : Seq(Nat)]
  BY <1>1, <1>2 DEF Typed, Status
<1>6. Typed'
  BY <1>1, <1>4, <1>5 DEF Typed
<1>7. QED
  BY <1>1, <1>4, <1>6, Environment

LEMMA RowInv ==
    ASSUME LedgerInv, NEW c \in Id, RowArrives(c)
    PROVE  LedgerInv'
<1>1. /\ Typed /\ c \in Issued /\ c \in Rowed /\ status' = [status EXCEPT ![c] = "pending"]
      /\ UNCHANGED <<cmds, log, seen, processed, executing, task, ran>>
  BY DEF LedgerInv, RowArrives
<1>2. status \in [Id -> Status] /\ "pending" \in Status
  BY <1>1 DEF Typed, Status
<1>3. Typed'
  BY <1>1, <1>2 DEF Typed
<1>4. Issued' = Issued
  BY <1>1 DEF Issued
<1>5. QED
  BY <1>1, <1>2, <1>3, <1>4, Environment

LEMMA SeenInv ==
    ASSUME LedgerInv, HostSeen
    PROVE  LedgerInv'
<1>1. /\ Typed
      /\ seen' = [status |-> [c \in Id |-> IF status[c] = "absent" THEN seen.status[c]
                                                                  ELSE status[c]],
                  log |-> log]
      /\ UNCHANGED <<cmds, status, log, processed, executing, task, ran>>
  BY DEF LedgerInv, HostSeen
<1>2. seen.status \in [Id -> Status] /\ status \in [Id -> Status] /\ log \in Seq(Nat)
  BY <1>1 DEF Typed
<1>3. seen' \in [status : [Id -> Status], log : Seq(Nat)]
  BY <1>1, <1>2
<1>4. Typed'
  BY <1>1, <1>3 DEF Typed
<1>5. Issued' = Issued
  BY <1>1 DEF Issued
<1>6. QED
  BY <1>1, <1>4, <1>5, Environment

LEMMA RetryInv ==
    ASSUME LedgerInv, NEW dev \in {"host", "sender"}, NEW c \in Id, retry_delivery(dev, c)
    PROVE  LedgerInv'
<1> DEFINE new == Len(cmds) + 1
           base == IF dev = "host" THEN log ELSE seen.log
           x == [kind |-> "run", msg |-> cmds[c].msg, based |-> LastOf(base), from |-> dev]
<1>1. /\ Typed /\ Len(cmds) \in Nat /\ Len(cmds) < MaxCmds /\ cmds' = Append(cmds, x)
      /\ c \in Issued
      /\ UNCHANGED <<log, processed, executing, task, ran>>
  BY IssuedIds DEF LedgerInv, retry_delivery
<1>2. /\ seen.log \in Seq(Nat) /\ seen.status \in [Id -> Status] /\ log \in Seq(Nat)
      /\ status \in [Id -> Status] /\ cmds \in Seq(CmdType)
  BY <1>1 DEF Typed
<1>3. x \in CmdType
  <2>1. cmds[c] \in CmdType
    BY <1>1, <1>2, IssuedIds, ElementOfSeq
  <2>2. LastOf(base) \in Nat
    BY <1>2, LastTyped
  <2> HIDE DEF base
  <2>3. QED
    BY <2>1, <2>2 DEF CmdType
<1>4. x.from = dev
  OBVIOUS
<1>5. \/ /\ dev = "host" /\ UNCHANGED seen
         /\ status' = [status EXCEPT ![c] = IF @ = "pending" THEN "rejected" ELSE @,
                                     ![new] = "pending"]
      \/ /\ dev = "sender" /\ UNCHANGED status
         /\ seen' = [seen EXCEPT !.status[new] = "pending"]
  BY DEF retry_delivery
<1> HIDE DEF x
<1>6. /\ cmds' \in Seq(CmdType) /\ Len(cmds') <= MaxCmds
      /\ Issued' = Issued \cup {new} /\ \A i \in Issued : cmds'[i] = cmds[i]
      /\ new \in Id /\ cmds'[new].from = dev
  <2>1. /\ cmds' \in Seq(CmdType) /\ Len(cmds') <= MaxCmds
        /\ Issued' = Issued \cup {new} /\ \A i \in Issued : cmds'[i] = cmds[i]
        /\ new \in Id \ Issued /\ cmds'[new] = x
    BY ONLY <1>1, <1>3, Issuing
  <2>2. QED
    BY ONLY <2>1, <1>4
<1>7. seen' \in [status : [Id -> Status], log : Seq(Nat)]
  <2>1. CASE dev = "host"
    BY <2>1, <1>1, <1>5 DEF Typed
  <2>2. CASE dev = "sender"
    <3>1. seen' = [seen EXCEPT !.status[new] = "pending"]
      BY <2>2, <1>5
    <3>2. QED
      BY <3>1, <1>1 DEF Typed, Status
  <2>3. QED
    BY <2>1, <2>2
<1>8. /\ status' \in [Id -> Status]
      /\ \A i \in Id \ {new} : status'[i] = "absent" <=> status[i] = "absent"
      /\ status'[new] # status[new] => dev = "host" /\ status'[new] = "pending"
  <2>1. CASE dev = "host"
    <3> DEFINE mid == [status EXCEPT ![c] = IF @ = "pending" THEN "rejected" ELSE @]
    <3>1. status' = [mid EXCEPT ![new] = "pending"]
      BY <2>1, <1>5
    <3>2. mid \in [Id -> Status] /\ \A i \in Id : mid[i] = "absent" <=> status[i] = "absent"
      BY <1>2 DEF Status, Disp
    <3> HIDE DEF mid
    <3>3. "pending" \in Status
      BY DEF Status
    <3>4. QED
      BY <3>1, <3>2, <3>3, <2>1, <1>6
  <2>2. CASE dev = "sender"
    BY <2>2, <1>2, <1>5
  <2>3. QED
    BY <2>1, <2>2
<1>9. Typed'
  BY <1>1, <1>6, <1>7, <1>8 DEF Typed
<1>10. QED
  BY <1>1, <1>6, <1>8, <1>9, Environment

LEMMA AsideInv ==
    ASSUME LedgerInv,
           UNCHANGED <<cmds, status, log, seen, task, processed, executing, ran>>
    PROVE  LedgerInv'
BY DEF LedgerInv, Typed, Rooted, Claims, Ledger, Holds, Claimed, Executes, Issued

-----------------------------------------------------------------------------
(* Steps of one task.                                                      *)

\* Task k moves to t; what the invariant asks of that.
LEMMA TaskMoves ==
    ASSUME LedgerInv, NEW k \in Task, NEW t \in TaskType, task' = [task EXCEPT ![k] = t],
           Typed', UNCHANGED cmds,
           \A c \in Id : status'[c] = "absent" <=> status[c] = "absent",
           \A c \in Id : t.snap[c] # "absent" => status[c] # "absent",
           t.pc \in {"claim", "mark", "write", "dispatch", "finish"} =>
              t.cmd \in Issued,
           \A l \in Task \ {k} : Claimed(l) => task[l].cmd \in executing',
           t.pc \in {"mark", "write", "dispatch", "finish"} =>
              /\ t.cmd \in executing'
              /\ \A l \in Task \ {k} : Claimed(l) => task[l].cmd # t.cmd,
           processed \subseteq processed',
           t.pc \in {"write", "dispatch"} =>
              t.cmd \in processed' /\ (k \in Call => ran'[t.cmd] = 0),
           \A l \in Call \ {k} : Executes(l) => ran'[task[l].cmd] = 0,
           \A c \in Id : ran'[c] > 0 => c \in processed'
    PROVE  LedgerInv'
<1>1. /\ task'[k] = t /\ \A l \in Task \ {k} : task'[l] = task[l]
      /\ Worker \subseteq Task /\ Call \subseteq Task
  BY Moved DEF LedgerInv, Task
<1>2. \A l \in Task \ {k} : Claimed(l)' = Claimed(l) /\ Holds(l)' = Holds(l)
  BY <1>1 DEF Claimed, Holds
<1>3. /\ Claimed(k)' <=> t.pc \in {"mark", "write", "dispatch", "finish"}
      /\ Holds(k)' <=> t.pc \in {"claim", "mark", "write", "dispatch", "finish"}
  BY <1>1 DEF Claimed, Holds
<1>4. Issued' = Issued /\ Issued \subseteq Id
  BY IssuedIds DEF Issued, LedgerInv
<1>5. Rooted'
  <2>1. \A c \in Id : status'[c] # "absent" => c \in Issued'
    BY <1>4 DEF LedgerInv, Rooted
  <2>2. \A l \in Task, c \in Id : task'[l].snap[c] # "absent" => status'[c] # "absent"
    BY <1>1 DEF LedgerInv, Rooted
  <2>3. \A l \in Task : Holds(l)' => task'[l].cmd \in Issued'
    BY <1>1, <1>2, <1>3, <1>4 DEF LedgerInv, Rooted
  <2>4. QED
    BY <2>1, <2>2, <2>3 DEF Rooted
<1>6. Claims'
  BY <1>1, <1>2, <1>3 DEF LedgerInv, Claims
<1>7. Ledger'
  BY <1>1 DEF LedgerInv, Ledger, Executes
<1>8. QED
  BY <1>5, <1>6, <1>7 DEF LedgerInv

\* The facts about the others that hold while task k does something.
LEMMA Others ==
    ASSUME LedgerInv, NEW k \in Task
    PROVE  /\ \A l \in Task \ {k} : Claimed(l) => task[l].cmd \in executing
           /\ \A l \in Task \ {k} : Claimed(l) /\ Claimed(k) => task[l].cmd # task[k].cmd
           /\ \A l \in Call \ {k} : Executes(l) => ran[task[l].cmd] = 0
           /\ \A c \in Id : ran[c] > 0 => c \in processed
           /\ \A c \in Id : task[k].snap[c] # "absent" => status[c] # "absent"
           /\ task[k] \in TaskType
BY DEF LedgerInv, Typed, Rooted, Claims, Ledger, Task

\* A task lets go of its entry.
LEMMA Released ==
    ASSUME LedgerInv, NEW k \in Task, NEW t \in TaskType, task' = [task EXCEPT ![k] = t],
           Typed', UNCHANGED <<cmds, ran>>,
           \A c \in Id : status'[c] = "absent" <=> status[c] = "absent",
           \A c \in Id : t.snap[c] # "absent" => status[c] # "absent",
           t.pc \in {"idle", "read", "look"},
           \/ executing' = executing
           \/ Claimed(k) /\ executing' = executing \ {task[k].cmd},
           processed \subseteq processed'
    PROVE  LedgerInv'
<1>1. \A l \in Task \ {k} : Claimed(l) => task[l].cmd \in executing'
  BY Others
<1>2. /\ \A l \in Call \ {k} : Executes(l) => ran'[task[l].cmd] = 0
      /\ \A c \in Id : ran'[c] > 0 => c \in processed'
  BY Others
<1>3. QED
  BY <1>1, <1>2, TaskMoves

-----------------------------------------------------------------------------
(* The steps of a task, one by one.                                        *)

LEMMA Resolved ==
    ASSUME Typed, NEW c, NEW o \in Disp, Resolve(c, o)
    PROVE  /\ status' \in [Id -> Status]
           /\ \A i \in Id : status'[i] = "absent" <=> status[i] = "absent"
BY DEF Typed, Resolve, Status, Disp

LEMMA DispositionTyped ==
    ASSUME NEW c, NEW rows
    PROVE  Disposition(c, rows) \in Disp
BY DEF Disposition, Disp

\* A drain's next round, and what a returning task becomes.
LEMMA IdleRows == Idle.pc = "idle" /\ \A c \in Id : Idle.snap[c] = "absent"
BY DEF Idle, NoRows

LEMMA NextRoundTyped ==
    ASSUME LedgerInv, NEW k \in Task, NEW more \in SUBSET Id
    PROVE  /\ NextRound(k, more) \in TaskType /\ NextRound(k, more).pc = "read"
           /\ NextRound(k, more).snap = task[k].snap
<1> DEFINE row == [Id -> Status]
           old == task[k]
           skipped == task[k].skipped \cup more
           none == "none"
           Type == [pc : {"idle", "read", "look", "claim", "mark", "write", "dispatch", "finish"},
                    cmd : Nat, disp : Disp, snap : row, skipped : SUBSET Id]
           t == [old EXCEPT !.pc = "read", !.cmd = None, !.disp = none, !.skipped = skipped]
<1>1. old \in TaskType /\ none \in Disp /\ None \in Nat /\ skipped \in SUBSET Id
  BY Others DEF TaskType, None, Disp
<1>2. old \in Type
  BY <1>1 DEF TaskType
<1> HIDE DEF old, skipped, row, none
<1>3. t \in Type /\ t.pc = "read" /\ t.snap = old.snap
  BY <1>1, <1>2
<1>4. QED
  BY <1>3 DEF TaskType, old, skipped, row, none, NextRound

\* What a task becomes when it lets go.
LEMMA Returning ==
    ASSUME LedgerInv, NEW k \in Task, NEW more \in SUBSET Id, Return(k, more)
    PROVE  \E t \in TaskType :
              /\ task' = [task EXCEPT ![k] = t] /\ t.pc \in {"idle", "read", "look"}
              /\ \A c \in Id : t.snap[c] # "absent" => status[c] # "absent"
<1>1. CASE k \in Worker
  <2>1. task' = [task EXCEPT ![k] = NextRound(k, more)]
    BY <1>1 DEF Return
  <2>2. \A c \in Id : NextRound(k, more).snap[c] # "absent" => status[c] # "absent"
    BY NextRoundTyped, Others
  <2>3. QED
    BY <2>1, <2>2, NextRoundTyped
<1>2. CASE k \notin Worker
  <2>1. task' = [task EXCEPT ![k] = Idle]
    BY <1>2 DEF Return
  <2>2. QED
    BY <2>1, IdleTyped, IdleRows
<1>3. QED
  BY <1>1, <1>2

\* A task goes on with the entry it has claimed.
LEMMA Advances ==
    ASSUME LedgerInv, NEW k \in Task, Claimed(k), task[k].cmd \in processed,
           NEW t \in TaskType, task' = [task EXCEPT ![k] = t],
           Typed', UNCHANGED <<cmds, status, processed, executing>>,
           t.cmd = task[k].cmd, t.snap = task[k].snap, t.pc \in {"dispatch", "finish"},
           t.pc = "dispatch" /\ k \in Call => ran'[t.cmd] = 0,
           \A l \in Call \ {k} : Executes(l) => ran'[task[l].cmd] = 0,
           \A c \in Id : ran'[c] > 0 => c \in processed'
    PROVE  LedgerInv'
<1> DEFINE c == task[k].cmd
<1>1. t.cmd \in Issued
  BY DEF LedgerInv, Rooted, Holds
<1>2. /\ t.cmd \in executing'
      /\ \A l \in Task \ {k} : Claimed(l) => task[l].cmd # t.cmd
  BY DEF LedgerInv, Claims
<1>3. \A l \in Task \ {k} : Claimed(l) => task[l].cmd \in executing'
  BY Others
<1>4. \A i \in Id : t.snap[i] # "absent" => status[i] # "absent"
  BY Others
<1>5. QED
  BY <1>1, <1>2, <1>3, <1>4, TaskMoves

LEMMA ClaimInv ==
    ASSUME LedgerInv, NEW k \in Task, Claim(k)
    PROVE  LedgerInv'
<1> DEFINE c == task[k].cmd
<1>0. /\ Typed /\ task[k] \in TaskType /\ task[k].pc = "claim" /\ Holds(k) /\ c \in Issued
      /\ c \in Id
  BY Others, IssuedIds DEF Claim, At, LedgerInv, Holds, Rooted
<1>1. UNCHANGED <<cmds, status, log, seen, processed, ran>>
  BY DEF Claim, docVars
<1>2. CASE c \in executing
  <2>1. executing' = executing /\ Return(k, {c})
    BY <1>2 DEF Claim
  <2>2. PICK t \in TaskType :
           /\ task' = [task EXCEPT ![k] = t] /\ t.pc \in {"idle", "read", "look"}
           /\ \A i \in Id : t.snap[i] # "absent" => status[i] # "absent"
    BY <1>0, <2>1, Returning
  <2>3. Typed'
    BY <1>0, <1>1, <2>2, Moved DEF Typed
  <2>4. QED
    BY <1>1, <2>1, <2>2, <2>3, Released
<1>3. CASE c \notin executing
  <2> DEFINE t == [task[k] EXCEPT !.pc = "mark"]
  <2>1. task' = [task EXCEPT ![k] = t] /\ executing' = executing \cup {c}
    BY <1>3 DEF Claim, Goto
  <2>2. t \in TaskType /\ t.pc = "mark" /\ t.cmd = c /\ t.snap = task[k].snap
    BY <1>0 DEF TaskType
  <2> HIDE DEF t
  <2>3. Typed'
    BY <1>0, <1>1, <2>1, <2>2, Moved DEF Typed
  <2>4. /\ t.cmd \in executing'
        /\ \A l \in Task \ {k} : Claimed(l) => task[l].cmd # t.cmd
        /\ \A l \in Task \ {k} : Claimed(l) => task[l].cmd \in executing'
    BY <1>3, <2>1, <2>2, Others
  <2>5. /\ \A i \in Id : t.snap[i] # "absent" => status[i] # "absent"
        /\ \A l \in Call \ {k} : Executes(l) => ran'[task[l].cmd] = 0
        /\ \A i \in Id : ran'[i] > 0 => i \in processed'
    BY <1>1, <2>2, Others
  <2>6. /\ \A i \in Id : status'[i] = "absent" <=> status[i] = "absent"
        /\ processed \subseteq processed'
        /\ t.pc \notin {"write", "dispatch"} /\ t.cmd \in Issued
    BY <1>0, <1>1, <2>2
  <2> HIDE DEF c
  <2>7. QED
    BY <1>1, <2>1, <2>2, <2>3, <2>4, <2>5, <2>6, TaskMoves
<1>4. QED
  BY <1>2, <1>3

LEMMA ExecuteWritesInv ==
    ASSUME LedgerInv, NEW k \in Task, ExecuteWrites(k)
    PROVE  LedgerInv'
<1> DEFINE c == task[k].cmd
           t == [task[k] EXCEPT !.pc = "dispatch"]
<1>0. /\ Typed /\ task[k] \in TaskType /\ task[k].pc = "write" /\ Claimed(k) /\ Holds(k)
      /\ c \in Issued
  BY Others DEF ExecuteWrites, At, LedgerInv, Holds, Claimed, Rooted
<1>1. UNCHANGED <<cmds, status, seen, processed, executing, ran>>
  BY DEF ExecuteWrites
<1>2. task' = [task EXCEPT ![k] = t]
  BY DEF ExecuteWrites, Goto
<1>3. t \in TaskType /\ t.pc = "dispatch" /\ t.cmd = c /\ t.snap = task[k].snap
  BY <1>0 DEF TaskType
<1>4. log' \in Seq(Nat)
  <2> DEFINE m == cmds[c].msg
  <2>1. cmds \in Seq(CmdType) /\ c \in 1 .. Len(cmds) /\ log \in Seq(Nat)
    BY <1>0, IssuedIds DEF Typed
  <2>2. cmds[c] \in CmdType
    BY <2>1, ElementOfSeq
  <2>3. m \in Nat
    BY <2>2 DEF CmdType
  <2>4. log' = log \/ log' = Append(log, m)
    BY DEF ExecuteWrites
  <2> HIDE DEF m
  <2>5. Append(log, m) \in Seq(Nat)
    BY ONLY <2>1, <2>3, AppendProperties
  <2>6. QED
    BY ONLY <2>1, <2>4, <2>5
<1> HIDE DEF t
<1>5. Typed'
  BY <1>0, <1>1, <1>2, <1>3, <1>4, Moved DEF Typed
<1>6. c \in processed /\ (k \in Call => ran[c] = 0)
  BY <1>0 DEF LedgerInv, Ledger, Executes
<1>7. /\ \A l \in Call \ {k} : Executes(l) => ran'[task[l].cmd] = 0
      /\ \A i \in Id : ran'[i] > 0 => i \in processed'
  BY <1>1, Others
<1>8. QED
  BY <1>0, <1>1, <1>2, <1>3, <1>5, <1>6, <1>7, Advances

\* The execution is over, with an effect or without.
LEMMA ExecutedInv ==
    ASSUME LedgerInv, NEW k \in Task, ExecuteFails(k) \/ ExecuteDispatches(k)
    PROVE  LedgerInv'
<1> DEFINE c == task[k].cmd
<1>0. /\ Typed /\ task[k] \in TaskType /\ task[k].pc \in {"write", "dispatch"}
      /\ Claimed(k) /\ Holds(k) /\ c \in Issued /\ c \in Id
  BY Others, IssuedIds
  DEF ExecuteFails, ExecuteDispatches, At, LedgerInv, Holds, Claimed, Rooted
<1>1. UNCHANGED <<cmds, status, log, seen, processed, executing>>
  BY DEF ExecuteFails, ExecuteDispatches, docVars
<1>2. PICK o \in {"rejected", "applied"} :
        task' = [task EXCEPT ![k] = [task[k] EXCEPT !.pc = "finish", !.disp = o]]
  BY DEF ExecuteFails, ExecuteDispatches
<1> DEFINE t == [task[k] EXCEPT !.pc = "finish", !.disp = o]
<1>3. t \in TaskType /\ t.pc = "finish" /\ t.cmd = c /\ t.snap = task[k].snap
  BY <1>0 DEF TaskType, Disp
<1> HIDE DEF t
<1>4. c \in processed
  BY <1>0 DEF LedgerInv, Ledger, Executes
<1>5. ran' = ran \/ ran' = [ran EXCEPT ![c] = @ + 1]
  BY DEF ExecuteFails, ExecuteDispatches
<1>6. /\ ran' \in [Id -> Nat]
      /\ \A i \in Id \ {c} : ran'[i] = ran[i]
  BY <1>0, <1>4, <1>5 DEF Typed
<1>7. Typed'
  BY <1>0, <1>1, <1>2, <1>3, <1>6, Moved DEF Typed, t
<1>8. \A l \in Call \ {k} : Executes(l) => ran'[task[l].cmd] = 0
  <2> SUFFICES ASSUME NEW l \in Call \ {k}, Executes(l)
               PROVE  ran'[task[l].cmd] = 0
    OBVIOUS
  <2>1. Claimed(l) /\ Holds(l) /\ l \in Task \ {k}
    BY DEF Claimed, Holds, Executes, Task
  <2>2. task[l].cmd # c /\ task[l].cmd \in Id /\ ran[task[l].cmd] = 0
    BY <1>0, <2>1, Others, IssuedIds DEF LedgerInv, Rooted
  <2>3. QED
    BY <1>6, <2>2
<1>9. \A i \in Id : ran'[i] > 0 => i \in processed'
  BY <1>1, <1>4, <1>6, Others
<1>10. QED
  BY <1>0, <1>1, <1>2, <1>3, <1>4, <1>7, <1>8, <1>9, Advances DEF t

LEMMA FinishInv ==
    ASSUME LedgerInv, NEW k \in Task, Finish(k)
    PROVE  LedgerInv'
<1>0. /\ Typed /\ task[k] \in TaskType /\ task[k].pc = "finish" /\ Claimed(k)
  BY Others DEF Finish, At, LedgerInv, Claimed
<1>1. UNCHANGED <<cmds, log, seen, processed, ran>> /\ executing' = executing \ {task[k].cmd}
  BY DEF Finish
<1>2. /\ status' \in [Id -> Status]
      /\ \A i \in Id : status'[i] = "absent" <=> status[i] = "absent"
  <2>1. task[k].disp \in Disp
    BY <1>0 DEF TaskType
  <2>2. Resolve(task[k].cmd, task[k].disp) \/ status' = status
    BY DEF Finish
  <2>3. CASE Resolve(task[k].cmd, task[k].disp)
    BY <1>0, <2>1, <2>3, Resolved
  <2>4. CASE status' = status
    BY <1>0, <2>4 DEF Typed
  <2>5. QED
    BY <2>2, <2>3, <2>4
<1>3. Return(k, {})
  BY DEF Finish
<1>4. PICK t \in TaskType :
         /\ task' = [task EXCEPT ![k] = t] /\ t.pc \in {"idle", "read", "look"}
         /\ \A i \in Id : t.snap[i] # "absent" => status[i] # "absent"
  BY <1>3, Returning
<1>5. Typed'
  BY <1>0, <1>1, <1>2, <1>4, Moved DEF Typed
<1>6. QED
  BY <1>0, <1>1, <1>2, <1>4, <1>5, Others, Released

\* The mark: durable before the execution; a relay call stops there when the
\* ledger has the id.
LEMMA MarkInv ==
    ASSUME LedgerInv, NEW k \in Task, Mark(k)
    PROVE  LedgerInv'
<1> DEFINE c == task[k].cmd
           disp == IF k \in Call /\ c \in processed THEN "skip" ELSE task[k].disp
<1>0. /\ Typed /\ task[k] \in TaskType /\ task[k].pc = "mark" /\ Claimed(k) /\ Holds(k)
      /\ c \in Issued /\ c \in Id /\ disp \in Disp
  BY Others, IssuedIds DEF Mark, At, LedgerInv, Holds, Claimed, Rooted, TaskType, Disp
<1>1. UNCHANGED <<cmds, log, seen, ran>> /\ processed' = processed \cup {c}
  BY DEF Mark, Marked
<1>3. CASE disp = "execute"
  <2> DEFINE t == [task[k] EXCEPT !.pc = "write"]
  <2>1. task' = [task EXCEPT ![k] = t] /\ UNCHANGED <<status, executing>>
    BY <1>3 DEF Mark, Goto
  <2>2. t \in TaskType /\ t.pc = "write" /\ t.cmd = c /\ t.snap = task[k].snap
    BY <1>0 DEF TaskType
  <2> HIDE DEF t
  <2>3. Typed'
    BY <1>0, <1>1, <2>1, <2>2, Moved DEF Typed
  <2>4. k \in Call => ran[c] = 0
    <3>1. k \in Call => c \notin processed
      BY <1>3
    <3>2. QED
      BY <1>0, <3>1, Others DEF Typed
  <2>5. /\ t.cmd \in processed' /\ processed \subseteq processed'
        /\ k \in Call => ran'[t.cmd] = 0
    BY <1>0, <1>1, <2>2, <2>4
  <2>6. /\ t.cmd \in executing'
        /\ \A l \in Task \ {k} : Claimed(l) => task[l].cmd # t.cmd
        /\ \A l \in Task \ {k} : Claimed(l) => task[l].cmd \in executing'
    BY <1>0, <2>1, <2>2 DEF LedgerInv, Claims
  <2>7. /\ \A i \in Id : t.snap[i] # "absent" => status[i] # "absent"
        /\ \A l \in Call \ {k} : Executes(l) => ran'[task[l].cmd] = 0
        /\ \A i \in Id : ran'[i] > 0 => i \in processed'
    BY <1>1, <2>2, Others
  <2>8. /\ UNCHANGED cmds /\ t.cmd \in Issued
        /\ \A i \in Id : status'[i] = "absent" <=> status[i] = "absent"
        /\ t.pc \notin {"claim", "mark"} /\ task' = [task EXCEPT ![k] = t]
    BY <1>0, <1>1, <2>1, <2>2
  <2> HIDE DEF c, disp
  <2>9. QED
    BY ONLY LedgerInv, k \in Task, <2>2, <2>3, <2>5, <2>6, <2>7, <2>8, TaskMoves
<1>4. CASE disp # "execute"
  <2>1. executing' = executing \ {c} /\ (Return(k, {c}) \/ Return(k, {}))
    BY <1>4 DEF Mark
  <2>2. PICK t \in TaskType :
           /\ task' = [task EXCEPT ![k] = t] /\ t.pc \in {"idle", "read", "look"}
           /\ \A i \in Id : t.snap[i] # "absent" => status[i] # "absent"
    <3>1. {c} \in SUBSET Id /\ {} \in SUBSET Id
      BY <1>0
    <3>2. QED
      BY <2>1, <3>1, Returning
  <2>3. Resolve(c, disp) \/ status' = status
    BY <1>4 DEF Mark
  <2>4. /\ status' \in [Id -> Status]
        /\ \A i \in Id : status'[i] = "absent" <=> status[i] = "absent"
    <3>1. CASE Resolve(c, disp)
      BY <1>0, <3>1, Resolved
    <3>2. CASE status' = status
      BY <1>0, <3>2 DEF Typed
    <3>3. QED
      BY <2>3, <3>1, <3>2
  <2>5. Typed'
    BY <1>0, <1>1, <2>2, <2>4, Moved DEF Typed
  <2>6. /\ processed \subseteq processed'
        /\ Claimed(k) /\ executing' = executing \ {task[k].cmd}
    BY <1>0, <1>1, <2>1
  <2>7. UNCHANGED <<cmds, ran>>
    BY <1>1
  <2> HIDE DEF c, disp
  <2>8. QED
    BY ONLY LedgerInv, k \in Task, <2>2, <2>4, <2>5, <2>6, <2>7, Released
<1>5. QED
  BY <1>3, <1>4

\* A pass begins, and copies the rows.
LEMMA ReadInv ==
    ASSUME LedgerInv, NEW w \in Worker, drain_commands(w) \/ read_commands(w)
    PROVE  LedgerInv'
<1>0. Typed /\ w \in Task /\ task[w] \in TaskType
  BY Others DEF LedgerInv, Task
<1>1. UNCHANGED <<cmds, status, log, seen, processed, executing, ran>>
  BY DEF drain_commands, read_commands, docVars
<1>2. \E t \in TaskType :
         /\ task' = [task EXCEPT ![w] = t] /\ t.pc \in {"idle", "read", "look"}
         /\ \A c \in Id : t.snap[c] # "absent" => status[c] # "absent"
  <2>1. CASE drain_commands(w)
    <3> DEFINE t == [Idle EXCEPT !.pc = "read"]
    <3>1. t \in TaskType /\ t.pc = "read" /\ t.snap = Idle.snap
      BY IdleTyped DEF TaskType
    <3>2. task' = [task EXCEPT ![w] = t]
      BY <2>1 DEF drain_commands
    <3> HIDE DEF t
    <3>3. QED
      BY <3>1, <3>2, IdleRows
  <2>2. CASE read_commands(w)
    <3> DEFINE t == [task[w] EXCEPT !.pc = "look", !.snap = status]
    <3>1. status \in [Id -> Status]
      BY <1>0 DEF Typed
    <3>2. t \in TaskType /\ t.pc = "look" /\ t.snap = status
      BY <1>0, <3>1 DEF TaskType
    <3>3. task' = [task EXCEPT ![w] = t]
      BY <2>2 DEF read_commands
    <3> HIDE DEF t
    <3>4. QED
      BY <3>2, <3>3
  <2>3. QED
    BY <2>1, <2>2
<1>3. PICK t \in TaskType :
         /\ task' = [task EXCEPT ![w] = t] /\ t.pc \in {"idle", "read", "look"}
         /\ \A c \in Id : t.snap[c] # "absent" => status[c] # "absent"
  BY <1>2
<1>4. Typed'
  BY <1>0, <1>1, <1>3, Moved DEF Typed
<1>5. QED
  BY <1>0, <1>1, <1>3, <1>4, Released

\* The sweep and the pick.
LEMMA PickInv ==
    ASSUME LedgerInv, NEW w \in Worker, PickEntry(w)
    PROVE  LedgerInv'
<1> DEFINE swept == [c \in Id |-> IF c \in DeadRows(w) THEN "rejected" ELSE status[c]]
           skipped == task[w].skipped \cup DeadRows(w)
<1>0. /\ Typed /\ w \in Task /\ task[w] \in TaskType /\ status \in [Id -> Status]
      /\ \A c \in Id : task[w].snap[c] # "absent" => status[c] # "absent"
  BY Others DEF LedgerInv, Task, Typed
<1>1. UNCHANGED <<cmds, log, seen, executing, ran>>
  BY DEF PickEntry
<1>2. /\ swept \in [Id -> Status]
      /\ \A i \in Id : swept[i] = "absent" <=> status[i] = "absent"
  BY <1>0 DEF DeadRows, Status, Disp
<1>3. skipped \in SUBSET Id
  BY <1>0 DEF TaskType, DeadRows
<1>4. \A i \in Eligible(w) :
         i \in Id /\ i \notin processed /\ status[i] # "absent" /\ i \in Issued
  BY <1>0 DEF Eligible, LedgerInv, Rooted
<1> HIDE DEF swept, skipped
<1>5. CASE status' = swept /\ task' = [task EXCEPT ![w] = Idle] /\ processed' = processed
  <2>1. Typed'
    BY <1>0, <1>1, <1>2, <1>5, IdleTyped, Moved DEF Typed
  <2>2. Idle.pc \in {"idle", "read", "look"} /\ \A c \in Id : Idle.snap[c] # "absent" => status[c] # "absent"
    BY IdleRows
  <2>3. QED
    BY <1>0, <1>1, <1>2, <1>5, <2>1, <2>2, IdleTyped, Released
<1>6. ASSUME NEW c \in Eligible(w), processed' = processed \cup {c},
             status' = [swept EXCEPT ![c] = "rejected"],
             task' = [task EXCEPT ![w] = [task[w] EXCEPT !.pc = "read", !.skipped = skipped]]
      PROVE  LedgerInv'
  <2> DEFINE t == [task[w] EXCEPT !.pc = "read", !.skipped = skipped]
  <2>1. t \in TaskType /\ t.pc = "read" /\ t.snap = task[w].snap
    BY <1>0, <1>3 DEF TaskType
  <2>2. /\ status' \in [Id -> Status]
        /\ \A i \in Id : status'[i] = "absent" <=> status[i] = "absent"
    BY <1>2, <1>4, <1>6 DEF Status, Disp
  <2>3. task' = [task EXCEPT ![w] = t]
    BY <1>6
  <2> HIDE DEF t
  <2>4. Typed'
    BY <1>0, <1>1, <2>1, <2>2, <2>3, Moved DEF Typed
  <2>5. processed \subseteq processed'
    BY <1>6
  <2>6. \A i \in Id : t.snap[i] # "absent" => status[i] # "absent"
    BY <1>0, <2>1
  <2>7. QED
    BY <1>0, <1>1, <2>1, <2>2, <2>3, <2>4, <2>5, <2>6, Released
<1>7. ASSUME NEW c \in Eligible(w), NEW d \in Disp, processed' = processed, status' = swept,
             task' = [task EXCEPT ![w] = [task[w] EXCEPT !.pc = "claim", !.cmd = c, !.disp = d,
                                                         !.snap = NoRows, !.skipped = skipped]]
      PROVE  LedgerInv'
  <2> DEFINE t == [task[w] EXCEPT !.pc = "claim", !.cmd = c, !.disp = d,
                                  !.snap = NoRows, !.skipped = skipped]
  <2>1. t \in TaskType /\ t.pc = "claim" /\ t.cmd = c /\ t.snap = NoRows
    <3> DEFINE row == [Id -> Status]
    <3>1. NoRows \in row /\ c \in Nat
      BY <1>4, IdNat DEF NoRows, Status
    <3>2. task[w] \in [pc : {"idle", "read", "look", "claim", "mark", "write", "dispatch",
                             "finish"},
                       cmd : Nat, disp : Disp, snap : row, skipped : SUBSET Id]
      BY <1>0 DEF TaskType
    <3> HIDE DEF row
    <3>3. /\ t \in [pc : {"idle", "read", "look", "claim", "mark", "write", "dispatch", "finish"},
                     cmd : Nat, disp : Disp, snap : row, skipped : SUBSET Id]
          /\ t.pc = "claim" /\ t.cmd = c /\ t.snap = NoRows
      BY <1>3, <3>1, <3>2
    <3>4. QED
      BY <3>3 DEF TaskType, row
  <2>2. task' = [task EXCEPT ![w] = t]
    BY <1>7
  <2> HIDE DEF t
  <2>3. Typed'
    BY <1>0, <1>1, <1>2, <1>7, <2>1, <2>2, Moved DEF Typed
  <2>4. t.cmd \in Issued
    BY <1>4, <2>1
  <2>5. /\ \A l \in Task \ {w} : Claimed(l) => task[l].cmd \in executing'
        /\ \A l \in Call \ {w} : Executes(l) => ran'[task[l].cmd] = 0
        /\ \A i \in Id : ran'[i] > 0 => i \in processed'
    BY <1>0, <1>1, <1>7, Others
  <2>6. \A i \in Id : t.snap[i] # "absent" => status[i] # "absent"
    BY <2>1 DEF NoRows
  <2>7. processed \subseteq processed' /\ \A i \in Id : status'[i] = "absent" <=> status[i] = "absent"
    BY <1>2, <1>7
  <2>8. QED
    BY <1>0, <1>1, <2>1, <2>2, <2>3, <2>4, <2>5, <2>6, <2>7, TaskMoves
<1>8. \A c \in Eligible(w) : Disposition(c, task[w].snap) \in Disp
  BY DispositionTyped
<1>9. QED
  BY <1>5, <1>6, <1>7, <1>8 DEF PickEntry, swept, skipped

LEMMA RelayInv ==
    ASSUME LedgerInv, NEW k \in Call, NEW c \in Id, ingest_relayed_command(k, c)
    PROVE  LedgerInv'
<1>0. /\ Typed /\ k \in Task /\ c \in Issued /\ c \in Relayed 
      /\ UNCHANGED <<cmds, status, log, seen, processed, executing, ran>>
  BY DEF LedgerInv, Task, ingest_relayed_command, docVars
<1>1. CASE task' = task
  BY <1>0, <1>1, AsideInv
<1>2. CASE task' # task
  <2> DEFINE d == Disposition(c, status)
             t == [Idle EXCEPT !.pc = "claim", !.cmd = c, !.disp = d]
  <2>1. task' = [task EXCEPT ![k] = t]
    BY <1>2 DEF ingest_relayed_command
  <2>2. d \in Disp /\ c \in Nat
    BY DispositionTyped, IdNat
  <2> HIDE DEF d
  <2>3. t \in TaskType /\ t.pc = "claim" /\ t.cmd = c /\ t.snap = Idle.snap
    BY <2>2, IdleTyped DEF TaskType
  <2> HIDE DEF t
  <2>4. Typed'
    BY <1>0, <2>1, <2>3, Moved DEF Typed
  <2>5. \A i \in Id : t.snap[i] # "absent" => status[i] # "absent"
    BY <2>3, IdleRows
  <2>6. /\ \A l \in Task \ {k} : Claimed(l) => task[l].cmd \in executing'
        /\ \A l \in Call \ {k} : Executes(l) => ran'[task[l].cmd] = 0
        /\ \A i \in Id : ran'[i] > 0 => i \in processed'
    BY <1>0, Others
  <2>7. QED
    BY <1>0, <2>1, <2>3, <2>4, <2>5, <2>6, TaskMoves
<1>3. QED
  BY <1>1, <1>2

LEMMA CrashInv ==
    ASSUME LedgerInv, Crash
    PROVE  LedgerInv'
<1>1. /\ task' = [k \in Task |-> Idle] /\ executing' = {}
      /\ UNCHANGED <<cmds, status, log, seen, processed, ran>>
  BY DEF Crash, docVars
<1>2. task' \in [Task -> TaskType]
  BY <1>1, IdleTyped
<1>3. \A k \in Task : task'[k] = Idle
  BY <1>1
<1>4. Worker \subseteq Task /\ Call \subseteq Task
  BY DEF Task
<1>5. Typed'
  BY <1>1, <1>2 DEF LedgerInv, Typed
<1>6. Rooted' /\ Claims' /\ Ledger'
  BY <1>1, <1>3, <1>4, IdleRows
  DEF LedgerInv, Rooted, Claims, Ledger, Holds, Claimed, Executes, Issued
<1>7. QED
  BY <1>5, <1>6 DEF LedgerInv

LEMMA InitInv ==
    ASSUME Init
    PROVE  LedgerInv
<1>1. /\ cmds = <<>> /\ log = <<>> /\ status = NoRows
      /\ seen = [status |-> NoRows, log |-> <<>>]
      /\ task = [k \in Task |-> Idle] /\ ran = [c \in Id |-> 0]
  BY DEF Init
<1>2. NoRows \in [Id -> Status] /\ <<>> \in Seq(Nat) /\ <<>> \in Seq(CmdType) /\ Len(<<>>) = 0
  BY EmptySeq DEF NoRows, Status
<1>3. Typed
  BY <1>1, <1>2, IdleTyped, LedgerAssumption DEF Typed
<1>4. Worker \subseteq Task /\ Call \subseteq Task
  BY DEF Task
<1>5. \A k \in Task : task[k] = Idle
  BY <1>1
<1>6. Rooted /\ Claims /\ Ledger
  BY <1>1, <1>4, <1>5, IdleRows DEF Rooted, Claims, Ledger, Holds, Claimed, Executes, NoRows
<1>7. QED
  BY <1>3, <1>6 DEF LedgerInv

-----------------------------------------------------------------------------

LEMMA LedgerStep ==
    ASSUME LedgerInv, [Next]_vars
    PROVE  LedgerInv'
<1>1. CASE \E kind \in {"run", "interrupt"} : queue_command(kind)
  BY <1>1, QueueInv
<1>2. ASSUME NEW c \in Id,
             \/ RowArrives(c) \/ Expire(c)
             \/ \E dev \in {"host", "sender"} : retry_delivery(dev, c)
             \/ \E k \in Call : ingest_relayed_command(k, c)
      PROVE  LedgerInv'
  BY <1>2, RowInv, RetryInv, RelayInv, AsideInv DEF Expire, docVars
<1>3. CASE HostSeen \/ UploadLands \/ WaitRunsOut \/ Crash
  BY <1>3, SeenInv, CrashInv, AsideInv DEF UploadLands, WaitRunsOut, docVars
<1>4. ASSUME NEW w \in Worker, Drain(w)
      PROVE  LedgerInv'
  BY <1>4, ReadInv, PickInv DEF Drain
<1>5. ASSUME NEW k \in Task, Steps(k) \/ ExecuteFails(k)
      PROVE  LedgerInv'
  BY <1>5, ClaimInv, MarkInv, ExecuteWritesInv, ExecutedInv, FinishInv DEF Steps
<1>6. CASE UNCHANGED vars
  BY <1>6, AsideInv DEF vars, docVars
<1>7. QED
  BY <1>1, <1>2, <1>3, <1>4, <1>5, <1>6 DEF Next

-----------------------------------------------------------------------------
(* The action property, step by step.                                      *)

Apart(c) ==
    /\ \A k \in Task : Carries(k, c)' => Carries(k, c)
    /\ ran'[c] # ran[c] => \E w \in Worker : Carries(w, c) /\ ~Carries(w, c)'

\* A step that moves no task to an entry and has no effect.
LEMMA NothingTakenUp ==
    ASSUME NEW c \in Id, UNCHANGED ran,
           \A k \in Task : Carries(k, c)' => Carries(k, c)
    PROVE  Apart(c)
BY DEF Apart

\* A task that moves on keeps its entry or lets go of it.
LEMMA MovesOn ==
    ASSUME LedgerInv, NEW c \in Id, NEW k \in Task, NEW t,
           task' = [task EXCEPT ![k] = t],
           \/ t.pc \in {"idle", "read", "look", "finish"}
           \/ t.cmd = c /\ t.pc \in {"claim", "mark", "write", "dispatch"} => Carries(k, c)
    PROVE  \A l \in Task : Carries(l, c)' => Carries(l, c)
<1>1. task'[k] = t /\ \A l \in Task \ {k} : task'[l] = task[l]
  BY DEF LedgerInv, Typed
<1>2. QED
  BY <1>1 DEF Carries

LEMMA StepsApart ==
    ASSUME LedgerInv, NEW c \in Id, ran[c] > 0, NEW k \in Task, Steps(k) \/ ExecuteFails(k)
    PROVE  Apart(c)
<1>0. task[k] \in TaskType
  BY Others
<1>1. ASSUME NEW more \in SUBSET Id, Return(k, more)
      PROVE  \A l \in Task : Carries(l, c)' => Carries(l, c)
  <2>1. PICK t \in TaskType :
           task' = [task EXCEPT ![k] = t] /\ t.pc \in {"idle", "read", "look"}
    BY <1>1, Returning
  <2>2. QED
    BY <2>1, MovesOn
<1>2. ASSUME NEW pc \in {"mark", "write", "dispatch"}, Goto(k, pc), Holds(k), ~At(k, "finish")
      PROVE  \A l \in Task : Carries(l, c)' => Carries(l, c)
  <2> DEFINE t == [task[k] EXCEPT !.pc = pc]
  <2>1. t.cmd = task[k].cmd /\ task' = [task EXCEPT ![k] = t]
    BY <1>0, <1>2 DEF TaskType, Goto
  <2>2. t.cmd = c => Carries(k, c)
    BY <1>2, <2>1 DEF Carries, Holds, Claimed, At
  <2> HIDE DEF t
  <2>3. QED
    BY <2>1, <2>2, MovesOn
<1>3. CASE Claim(k)
  <2>1. ran' = ran /\ (Return(k, {task[k].cmd}) \/ Goto(k, "mark"))
    BY <1>3 DEF Claim
  <2>2. At(k, "claim") /\ Holds(k) /\ ~At(k, "finish")
    BY <1>3 DEF Claim, At, Holds
  <2>3. {task[k].cmd} \in SUBSET Id
    BY <2>2, IssuedIds DEF LedgerInv, Rooted
  <2>4. QED
    BY <1>1, <1>2, <2>1, <2>2, <2>3, NothingTakenUp
<1>4. CASE Mark(k)
  <2>1. /\ ran' = ran
        /\ Return(k, {task[k].cmd}) \/ Return(k, {}) \/ Goto(k, "write")
    BY <1>4 DEF Mark
  <2>2. At(k, "mark") /\ Holds(k) /\ ~At(k, "finish")
    BY <1>4 DEF Mark, At, Holds, Claimed
  <2>3. {task[k].cmd} \in SUBSET Id /\ {} \in SUBSET Id
    BY <2>2, IssuedIds DEF LedgerInv, Rooted
  <2>4. QED
    BY <1>1, <1>2, <2>1, <2>2, <2>3, NothingTakenUp
<1>5. CASE ExecuteWrites(k)
  <2>1. ran' = ran /\ Goto(k, "dispatch") /\ Holds(k) /\ ~At(k, "finish")
    BY <1>5 DEF ExecuteWrites, At, Holds, Claimed
  <2>2. QED
    BY <1>2, <2>1, NothingTakenUp
<1>6. CASE ExecuteFails(k)
  <2> DEFINE t == [task[k] EXCEPT !.pc = "finish", !.disp = "rejected"]
  <2>1. ran' = ran /\ task' = [task EXCEPT ![k] = t] /\ t.pc = "finish"
    BY <1>0, <1>6 DEF ExecuteFails, docVars, TaskType
  <2> HIDE DEF t
  <2>2. QED
    BY <2>1, MovesOn, NothingTakenUp
<1>7. CASE ExecuteDispatches(k)
  <2> DEFINE t == [task[k] EXCEPT !.pc = "finish", !.disp = "applied"]
  <2>1. /\ task' = [task EXCEPT ![k] = t] /\ t.pc = "finish" /\ At(k, "dispatch")
        /\ ran' = [ran EXCEPT ![task[k].cmd] = @ + 1]
    BY <1>0, <1>7 DEF ExecuteDispatches, TaskType
  <2> HIDE DEF t
  <2>2. task'[k] = t
    BY <2>1 DEF LedgerInv, Typed
  <2>3. ran'[c] # ran[c] => task[k].cmd = c /\ k \notin Call
    BY <2>1 DEF LedgerInv, Ledger, Typed, Executes, At
  <2>4. ran'[c] # ran[c] => k \in Worker /\ Carries(k, c) /\ ~Carries(k, c)'
    BY <2>1, <2>2, <2>3 DEF Carries, Task, At
  <2>5. \A l \in Task : Carries(l, c)' => Carries(l, c)
    BY <2>1, MovesOn
  <2>6. QED
    BY <2>4, <2>5 DEF Apart
<1>8. CASE Finish(k)
  <2>1. ran' = ran /\ Return(k, {})
    BY <1>8 DEF Finish
  <2>2. QED
    BY <1>1, <2>1, NothingTakenUp
<1>9. QED
  BY <1>3, <1>4, <1>5, <1>6, <1>7, <1>8 DEF Steps

LEMMA DrainApart ==
    ASSUME LedgerInv, NEW c \in Id, ran[c] > 0, NEW w \in Worker, Drain(w)
    PROVE  Apart(c)
<1>0. w \in Task /\ task[w] \in TaskType /\ c \in processed
  BY Others DEF Task, LedgerInv, Ledger
<1>1. CASE drain_commands(w) \/ read_commands(w)
  <2>1. PICK t : task' = [task EXCEPT ![w] = t] /\ t.pc \in {"read", "look"}
    <3>1. CASE drain_commands(w)
      <4> DEFINE t == [Idle EXCEPT !.pc = "read"]
      <4>1. t.pc = "read" /\ task' = [task EXCEPT ![w] = t]
        BY <3>1, IdleTyped DEF drain_commands, TaskType
      <4> HIDE DEF t
      <4>2. QED
        BY <4>1
    <3>2. CASE read_commands(w)
      <4> DEFINE t == [task[w] EXCEPT !.pc = "look", !.snap = status]
      <4>1. t.pc = "look" /\ task' = [task EXCEPT ![w] = t]
        BY <1>0, <3>2 DEF read_commands, TaskType
      <4> HIDE DEF t
      <4>2. QED
        BY <4>1
    <3>3. QED
      BY <1>1, <3>1, <3>2
  <2>2. ran' = ran
    BY <1>1 DEF drain_commands, read_commands
  <2>3. QED
    BY <1>0, <2>1, <2>2, MovesOn, NothingTakenUp
<1>2. CASE PickEntry(w)
  <2> DEFINE skipped == task[w].skipped \cup DeadRows(w)
  <2>1. /\ ran' = ran
        /\ \/ task' = [task EXCEPT ![w] = Idle]
           \/ task' = [task EXCEPT ![w] = [task[w] EXCEPT !.pc = "read", !.skipped = skipped]]
           \/ \E first \in Eligible(w), d \in Disp :
                task' = [task EXCEPT ![w] = [task[w] EXCEPT !.pc = "claim", !.cmd = first,
                                        !.disp = d, !.snap = NoRows, !.skipped = skipped]]
    BY <1>2, DispositionTyped DEF PickEntry
  <2> HIDE DEF skipped
  <2>2. CASE task' = [task EXCEPT ![w] = Idle]
    BY <1>0, <2>1, <2>2, IdleRows, MovesOn, NothingTakenUp
  <2>3. CASE task' = [task EXCEPT ![w] = [task[w] EXCEPT !.pc = "read", !.skipped = skipped]]
    <3> DEFINE t == [task[w] EXCEPT !.pc = "read", !.skipped = skipped]
    <3>1. t.pc = "read" /\ task' = [task EXCEPT ![w] = t]
      BY <1>0, <2>3 DEF TaskType
    <3> HIDE DEF t
    <3>2. QED
      BY <1>0, <2>1, <3>1, MovesOn, NothingTakenUp
  <2>4. ASSUME NEW first \in Eligible(w), NEW d \in Disp,
               task' = [task EXCEPT ![w] = [task[w] EXCEPT !.pc = "claim", !.cmd = first,
                                        !.disp = d, !.snap = NoRows, !.skipped = skipped]]
        PROVE  Apart(c)
    <3> DEFINE t == [task[w] EXCEPT !.pc = "claim", !.cmd = first, !.disp = d,
                                    !.snap = NoRows, !.skipped = skipped]
    <3>1. t.cmd = first /\ task' = [task EXCEPT ![w] = t]
      BY <1>0, <2>4 DEF TaskType
    <3> HIDE DEF t
    <3>2. first # c
      BY <1>0 DEF Eligible
    <3>3. QED
      BY <1>0, <2>1, <3>1, <3>2, MovesOn, NothingTakenUp
  <2>5. QED
    BY <2>1, <2>2, <2>3, <2>4
<1>3. QED
  BY <1>1, <1>2 DEF Drain

LEMMA RelayApart ==
    ASSUME LedgerInv, NEW c \in Id, ran[c] > 0, NEW k \in Call, NEW o \in Id,
           ingest_relayed_command(k, o)
    PROVE  Apart(c)
<1>1. k \in Task /\ ran' = ran /\ c \in processed
  BY DEF Task, LedgerInv, Ledger, ingest_relayed_command
<1>2. CASE task' = task
  BY <1>1, <1>2, NothingTakenUp DEF Carries
<1>3. CASE task' # task
  <2> DEFINE d == Disposition(o, status)
             t == [Idle EXCEPT !.pc = "claim", !.cmd = o, !.disp = d]
  <2>1. d # "skip" /\ task' = [task EXCEPT ![k] = t]
    BY <1>3 DEF ingest_relayed_command
  <2>2. o # c
    BY <1>1, <2>1 DEF Disposition
  <2> HIDE DEF d
  <2>3. t.cmd = o
    BY IdleTyped DEF TaskType
  <2> HIDE DEF t
  <2>4. QED
    BY <1>1, <2>1, <2>2, <2>3, MovesOn, NothingTakenUp
<1>4. QED
  BY <1>2, <1>3

LEMMA StepApart ==
    ASSUME LedgerInv, [Next]_vars, NEW c \in Id, ran[c] > 0
    PROVE  Apart(c)
<1>1. CASE UNCHANGED <<task, ran>>
  BY <1>1, NothingTakenUp DEF Carries
<1>2. CASE Crash
  <2>1. ran' = ran /\ \A k \in Task : task'[k] = Idle
    BY <1>2 DEF Crash
  <2>2. QED
    BY <2>1, IdleRows, NothingTakenUp DEF Carries
<1>3. ASSUME NEW o \in Id, NEW k \in Call, ingest_relayed_command(k, o)
      PROVE  Apart(c)
  BY <1>3, RelayApart
<1>4. ASSUME NEW w \in Worker, Drain(w)
      PROVE  Apart(c)
  BY <1>4, DrainApart
<1>5. ASSUME NEW k \in Task, Steps(k) \/ ExecuteFails(k)
      PROVE  Apart(c)
  BY <1>5, StepsApart
<1>6. ASSUME NEW o \in Id,
             \/ RowArrives(o) \/ Expire(o)
             \/ \E dev \in {"host", "sender"} : retry_delivery(dev, o)
      PROVE  UNCHANGED <<task, ran>>
  BY <1>6 DEF RowArrives, Expire, retry_delivery
<1>7. CASE \/ \E kind \in {"run", "interrupt"} : queue_command(kind)
           \/ HostSeen \/ UploadLands \/ WaitRunsOut
  BY <1>1, <1>7 DEF queue_command, HostSeen, UploadLands, WaitRunsOut
<1>8. CASE UNCHANGED vars
  BY <1>1, <1>8 DEF vars
<1>9. QED
  BY <1>1, <1>2, <1>3, <1>4, <1>5, <1>6, <1>7, <1>8 DEF Next

\* Once a command has taken effect no task takes it up: no drain picks its row
\* again, late as it may arrive, no relay call executes it, and none does after
\* a crash anywhere in its execution; a second effect can only come from a
\* drain that had the entry in hand before the first (drain_commands,
\* ingest_relayed_command, mark_processed).
THEOREM NotTakenUpAgainSafe == Spec => NotTakenUpAgain
<1>1. Init => LedgerInv
  BY InitInv
<1>2. LedgerInv /\ [Next]_vars => LedgerInv'
  BY LedgerStep
<1> DEFINE A == \A c \in Id : ran[c] > 0 => Apart(c)
<1>3. LedgerInv /\ [Next]_vars => [A]_vars
  BY StepApart
<1>4. Spec => [][A]_vars
  BY <1>1, <1>2, <1>3, PTL DEF Spec
<1>5. [][A]_vars => NotTakenUpAgain
  BY PTL DEF NotTakenUpAgain, Apart
<1>6. QED
  BY <1>4, <1>5, PTL
=============================================================================
