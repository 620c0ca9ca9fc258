-------------------------- MODULE RunMailboxProofs --------------------------
(***************************************************************************)
(* The runs of a chat, for any messages, number of runs, mailbox capacity   *)
(* and faults: their types; that a run's exit removes no handle but its own;*)
(* that a ledger is what the agent has not confirmed (LedgerInv); and that  *)
(* no message has two owners (OwnerInv).                                    *)
(***************************************************************************)
EXTENDS RunMailbox, TLAPS, SequenceTheorems, FiniteSetTheorems

\* What a step relies on beyond the types: a task at work knows its message, and
\* its run once it found one; a run that was born knows its prompt.
AtWork(k) == task[k].at \notin {"idle", "done"}
HasRun(k) == task[k].at \in {"post", "check", "reclaim", "settle"}
Known ==
    /\ \A k \in Task : AtWork(k) => task[k].msg \in Msg
    /\ \A k \in Task : HasRun(k) => task[k].run \in Run
    /\ \A r \in Run : run[r].at # "unborn" => run[r].msg \in Msg

Inv == TypeOK /\ Known

-----------------------------------------------------------------------------
\* Removing one entry of a sequence leaves a sequence over the same set.
LEMMA RemoveAtType ==
    ASSUME NEW S, NEW s \in Seq(S), NEW i \in DOMAIN s
    PROVE  RemoveAt(s, i) \in Seq(S)
<1>1. Len(s) \in Nat /\ i \in 1 .. Len(s) /\ \A j \in 1 .. Len(s) : s[j] \in S
  BY ElementOfSeq
<1>2. SubSeq(s, 1, i - 1) \in Seq(S) /\ SubSeq(s, i + 1, Len(s)) \in Seq(S)
  BY <1>1, SubSeqProperties
<1>3. QED
  BY <1>2, ConcatProperties DEF RemoveAt

\* A task record of the right type, with what it must know, may be stored.
LEMMA TaskUpdate ==
    ASSUME Inv, NEW k \in Task, NEW v \in TaskType, task' = [task EXCEPT ![k] = v],
           v.at \notin {"idle", "done"} => v.msg \in Msg,
           v.at \in {"post", "check", "reclaim", "settle"} => v.run \in Run
    PROVE  /\ task' \in [Task -> TaskType]
           /\ \A x \in Task : AtWork(x)' => task'[x].msg \in Msg
           /\ \A x \in Task : HasRun(x)' => task'[x].run \in Run
BY DEF Inv, TypeOK, Known, AtWork, HasRun

\* So may the record of a run.
LEMMA RunUpdate ==
    ASSUME Inv, NEW r \in Run, NEW v \in RunType, run' = [run EXCEPT ![r] = v],
           v.at # "unborn" => v.msg \in Msg
    PROVE  /\ run' \in [Run -> RunType]
           /\ \A x \in Run : run'[x].at # "unborn" => run'[x].msg \in Msg
BY DEF Inv, TypeOK, Known

\* The handle in the map stays one of a run that is not gone.
LEMMA StaysRegistered ==
    ASSUME Inv, NEW r \in Run, NEW v, run' = [run EXCEPT ![r] = v],
           current' \in {current, None},
           v.at \in {"starting", "driving", "claimed"} \/ current' # r
    PROVE  /\ current' \in Run \cup {None}
           /\ current' # None => run'[current'].at \in {"starting", "driving", "claimed"}
BY DEF Inv, TypeOK

\* A task that moves on without a new message or run.
LEMMA GotoType ==
    ASSUME Inv, NEW k \in Task, AtWork(k),
           NEW pc \in {"lookup", "check", "reclaim", "interrupt", "start"}, Goto(k, pc),
           pc \in {"check", "reclaim"} => HasRun(k)
    PROVE  /\ task' \in [Task -> TaskType]
           /\ \A x \in Task : AtWork(x)' => task'[x].msg \in Msg
           /\ \A x \in Task : HasRun(x)' => task'[x].run \in Run
<1> DEFINE v == [task[k] EXCEPT !.at = pc]
<1>0. task[k] \in TaskType
  BY DEF Inv, TypeOK
<1>1. v \in TaskType
  BY <1>0 DEF TaskType
<1>2. v.at = pc /\ v.msg = task[k].msg /\ v.run = task[k].run
  BY <1>0 DEF TaskType
<1>3. task[k].msg \in Msg /\ (pc \in {"check", "reclaim"} => task[k].run \in Run)
  BY DEF Inv, Known
<1>4. task' = [task EXCEPT ![k] = v]
  BY DEF Goto
<1> HIDE DEF v
<1>5. QED
  BY <1>1, <1>2, <1>3, <1>4, TaskUpdate

\* Dispatch again.
LEMMA RedispatchType ==
    ASSUME Inv, NEW k \in Task, AtWork(k), Redispatch(k)
    PROVE  /\ task' \in [Task -> TaskType]
           /\ \A x \in Task : AtWork(x)' => task'[x].msg \in Msg
           /\ \A x \in Task : HasRun(x)' => task'[x].run \in Run
<1> DEFINE v == [task[k] EXCEPT !.at = "lookup", !.how = "dispatch", !.run = None]
<1>0. task[k] \in TaskType
  BY DEF Inv, TypeOK
<1>1. v \in TaskType /\ v.at = "lookup" /\ v.msg = task[k].msg
  BY <1>0 DEF TaskType, None
<1>2. task' = [task EXCEPT ![k] = v] /\ task[k].msg \in Msg
  BY DEF Redispatch, Inv, TypeOK, Known
<1> HIDE DEF v
<1>3. QED
  BY <1>1, <1>2, TaskUpdate

\* The call returns, or goes on with its next orphan.
LEMMA ReturnType ==
    ASSUME Inv, NEW k \in Task, Return(k)
    PROVE  /\ task' \in [Task -> TaskType]
           /\ \A x \in Task : AtWork(x)' => task'[x].msg \in Msg
           /\ \A x \in Task : HasRun(x)' => task'[x].run \in Run
<1> DEFINE rest == task[k].rest
           back == IF rest = <<>> THEN [NoTask EXCEPT !.at = "done"]
                   ELSE [NoTask EXCEPT !.at = "lookup", !.msg = Head(rest),
                                       !.rest = Tail(rest)]
<1>1. task \in [Task -> TaskType] /\ rest \in Seq(Msg)
  BY DEF Inv, TypeOK, TaskType
<1>2. back \in TaskType /\ (back.at \notin {"idle", "done"} => back.msg \in Msg)
      /\ back.at \in {"lookup", "done"}
  <2>1. CASE rest = <<>>
    BY <2>1, EmptySeq DEF TaskType, NoTask, None
  <2>2. CASE rest # <<>>
    <3>1. Head(rest) \in Msg /\ Tail(rest) \in Seq(Msg)
      BY <1>1, <2>2, HeadTailProperties
    <3> HIDE DEF rest
    <3>2. QED
      BY <2>2, <3>1 DEF TaskType, NoTask, None
  <2>3. QED
    BY <2>1, <2>2
<1>3. task' = [task EXCEPT ![k] = back]
  BY DEF Return
<1> HIDE DEF back
<1>4. QED
  BY <1>2, <1>3, TaskUpdate

-----------------------------------------------------------------------------
(* The senders.                                                            *)

LEMMA SendInv ==
    ASSUME Inv, NEW m \in Msg, NEW rich \in BOOLEAN, send(m, rich)
    PROVE  Inv'
<1> DEFINE v == [task[m] EXCEPT !.at = "lookup", !.msg = m, !.rich = rich,
                    !.how = IF m \in Steers THEN "steer" ELSE "dispatch"]
<1>0. m \in Task /\ task[m] \in TaskType
  BY DEF Inv, TypeOK, Task
<1>1. v \in TaskType /\ v.at = "lookup" /\ v.msg = m
  BY <1>0 DEF TaskType
<1>2. task' = [task EXCEPT ![m] = v]
  BY DEF send
<1> HIDE DEF v
<1>3. /\ task' \in [Task -> TaskType]
      /\ \A x \in Task : AtWork(x)' => task'[x].msg \in Msg
      /\ \A x \in Task : HasRun(x)' => task'[x].run \in Run
  BY <1>0, <1>1, <1>2, TaskUpdate
<1>4. QED
  BY <1>3 DEF Inv, TypeOK, Known, send, runVars

LEMMA LookupInv ==
    ASSUME Inv, NEW k \in Task, lookup(k)
    PROVE  Inv'
<1>1. AtWork(k)
  BY DEF lookup, At, AtWork
<1>2. /\ task' \in [Task -> TaskType]
      /\ \A x \in Task : AtWork(x)' => task'[x].msg \in Msg
      /\ \A x \in Task : HasRun(x)' => task'[x].run \in Run
  <2> DEFINE pc == IF can_route(k) THEN "post" ELSE "interrupt"
             v == [task[k] EXCEPT !.run = current, !.at = pc]
  <2>1. CASE current # None /\ task' = [task EXCEPT ![k] = v]
    <3>1. current \in Run /\ task[k].msg \in Msg
      BY <1>1, <2>1 DEF Inv, TypeOK, Known
    <3>2. v \in TaskType /\ v.msg = task[k].msg /\ v.run = current
      BY <3>1 DEF Inv, TypeOK, TaskType
    <3> HIDE DEF v
    <3>3. QED
      BY <2>1, <3>1, <3>2, TaskUpdate
  <2>2. CASE Redispatch(k)
    BY <1>1, <2>2, RedispatchType
  <2>3. CASE Goto(k, "start")
    BY <1>1, <2>3, GotoType
  <2>4. QED
    BY <2>1, <2>2, <2>3 DEF lookup
<1>3. QED
  BY <1>2 DEF Inv, TypeOK, Known, lookup, runVars

LEMMA PostInv ==
    ASSUME Inv, NEW k \in Task, post(k)
    PROVE  Inv'
<1> DEFINE r == task[k].run
           m == task[k].msg
<1>1. AtWork(k) /\ HasRun(k) /\ m \in Msg /\ r \in Run
  BY DEF post, At, AtWork, HasRun, Inv, Known
<1>2. /\ task' \in [Task -> TaskType]
      /\ \A x \in Task : AtWork(x)' => task'[x].msg \in Msg
      /\ \A x \in Task : HasRun(x)' => task'[x].run \in Run
  <2>1. Goto(k, "check") \/ Redispatch(k) \/ Goto(k, "interrupt")
    BY DEF post
  <2>2. QED
    BY <1>1, <2>1, GotoType, RedispatchType
<1>3. box' \in [Run -> Seq(Msg)] /\ ledger' \in [Run -> Seq(Msg)]
  <2>1. box \in [Run -> Seq(Msg)] /\ ledger \in [Run -> Seq(Msg)]
    BY DEF Inv, TypeOK
  <2>2. Append(box[r], m) \in Seq(Msg) /\ Append(ledger[r], m) \in Seq(Msg)
    BY <1>1, <2>1, AppendProperties
  <2>3. QED
    BY <1>1, <2>1, <2>2 DEF post
<1>4. QED
  BY <1>2, <1>3 DEF Inv, TypeOK, Known, post

LEMMA CheckInv ==
    ASSUME Inv, NEW k \in Task, check(k)
    PROVE  Inv'
<1>1. AtWork(k) /\ HasRun(k)
  BY DEF check, At, AtWork, HasRun
<1>2. Return(k) \/ Goto(k, "reclaim")
  BY DEF check
<1>3. /\ task' \in [Task -> TaskType]
      /\ \A x \in Task : AtWork(x)' => task'[x].msg \in Msg
      /\ \A x \in Task : HasRun(x)' => task'[x].run \in Run
  BY <1>1, <1>2, GotoType, ReturnType
<1>4. QED
  BY <1>3 DEF Inv, TypeOK, Known, check, runVars

LEMMA ReclaimInv ==
    ASSUME Inv, NEW k \in Task, reclaim(k)
    PROVE  Inv'
<1> DEFINE r == task[k].run
<1>1. AtWork(k) /\ HasRun(k) /\ r \in Run
  BY DEF reclaim, At, AtWork, HasRun, Inv, Known
<1>2. Return(k) \/ Redispatch(k) \/ Goto(k, "interrupt")
  BY DEF reclaim
<1>3. /\ task' \in [Task -> TaskType]
      /\ \A x \in Task : AtWork(x)' => task'[x].msg \in Msg
      /\ \A x \in Task : HasRun(x)' => task'[x].run \in Run
  BY <1>1, <1>2, GotoType, ReturnType, RedispatchType
<1>4. ledger' \in [Run -> Seq(Msg)]
  <2>1. ledger \in [Run -> Seq(Msg)]
    BY DEF Inv, TypeOK
  <2>2. \/ ledger' = ledger
        \/ \E i \in DOMAIN ledger[r] : ledger' = [ledger EXCEPT ![r] = RemoveAt(@, i)]
    BY DEF reclaim
  <2>3. \A i \in DOMAIN ledger[r] : RemoveAt(ledger[r], i) \in Seq(Msg)
    BY <1>1, <2>1, RemoveAtType
  <2>4. QED
    BY <1>1, <2>1, <2>2, <2>3
<1>5. QED
  BY <1>3, <1>4 DEF Inv, TypeOK, Known, reclaim

\* Cancelling a run changes nothing but its signals.
LEMMA CancelledType ==
    ASSUME Inv, current # None, run' = Cancelled(current), current' = current
    PROVE  /\ current \in Run
           /\ run' \in [Run -> RunType]
           /\ \A x \in Run : run'[x].at # "unborn" => run'[x].msg \in Msg
           /\ run'[current].at \in {"starting", "driving", "claimed"}
<1> DEFINE v == [run[current] EXCEPT !.cancel = TRUE]
<1>1. /\ current \in Run /\ run[current] \in RunType
      /\ run[current].at \in {"starting", "driving", "claimed"}
      /\ run[current].msg \in Msg
  BY DEF Inv, TypeOK, Known
<1>2. v \in RunType /\ v.at = run[current].at /\ v.msg = run[current].msg
  BY <1>1 DEF RunType
<1>3. run' = [run EXCEPT ![current] = v] /\ run \in [Run -> RunType]
  BY DEF Cancelled, Inv, TypeOK
<1> HIDE DEF v
<1>4. QED
  BY <1>1, <1>2, <1>3, RunUpdate

LEMMA InterruptInv ==
    ASSUME Inv, NEW k \in Task, interrupt(k)
    PROVE  Inv'
<1>1. AtWork(k)
  BY DEF interrupt, At, AtWork
<1>2. CASE current = None
  <2>1. Goto(k, "start") /\ UNCHANGED run
    BY <1>2 DEF interrupt
  <2>2. /\ task' \in [Task -> TaskType]
        /\ \A x \in Task : AtWork(x)' => task'[x].msg \in Msg
        /\ \A x \in Task : HasRun(x)' => task'[x].run \in Run
    BY <1>1, <2>1, GotoType
  <2>3. QED
    BY <2>1, <2>2 DEF Inv, TypeOK, Known, interrupt
<1>3. CASE current # None
  <2> DEFINE v == [task[k] EXCEPT !.at = "settle", !.run = current]
  <2>1. /\ run' = Cancelled(current) /\ task' = [task EXCEPT ![k] = v]
        /\ current' = current
    BY <1>3 DEF interrupt
  <2>2. task[k] \in TaskType /\ task[k].msg \in Msg /\ current \in Run
    BY <1>1, <1>3 DEF Inv, TypeOK, Known
  <2>3. v \in TaskType /\ v.at = "settle" /\ v.msg = task[k].msg /\ v.run = current
    BY <2>2 DEF TaskType
  <2> HIDE DEF v
  <2>4. /\ task' \in [Task -> TaskType]
        /\ \A x \in Task : AtWork(x)' => task'[x].msg \in Msg
        /\ \A x \in Task : HasRun(x)' => task'[x].run \in Run
    BY <2>1, <2>2, <2>3, TaskUpdate
  <2>5. /\ run' \in [Run -> RunType]
        /\ \A x \in Run : run'[x].at # "unborn" => run'[x].msg \in Msg
        /\ run'[current].at \in {"starting", "driving", "claimed"}
    BY <1>3, <2>1, CancelledType
  <2>6. QED
    BY <2>1, <2>2, <2>4, <2>5 DEF Inv, TypeOK, Known, interrupt
<1>4. QED
  BY <1>2, <1>3

LEMMA SettleInv ==
    ASSUME Inv, NEW k \in Task, settle(k)
    PROVE  Inv'
<1>1. AtWork(k) /\ Goto(k, "start")
  BY DEF settle, At, AtWork
<1>2. /\ task' \in [Task -> TaskType]
      /\ \A x \in Task : AtWork(x)' => task'[x].msg \in Msg
      /\ \A x \in Task : HasRun(x)' => task'[x].run \in Run
  BY <1>1, GotoType
<1>3. QED
  BY <1>2 DEF Inv, TypeOK, Known, settle, runVars

LEMMA StartInv ==
    ASSUME Inv, NEW k \in Task, start(k)
    PROVE  Inv'
<1>1. PICK r \in Run :
         /\ current' = r
         /\ run' = [run EXCEPT ![r] = Dispatched(task[k].msg, task[k].retry)]
         /\ agent' = [agent EXCEPT ![r] = "boot"]
  BY DEF start
<1>2. task[k].msg \in Msg /\ task[k].retry \in BOOLEAN /\ Return(k)
  BY DEF start, At, AtWork, Inv, Known, TypeOK, TaskType
<1> DEFINE v == Dispatched(task[k].msg, task[k].retry)
<1>3. v \in RunType /\ v.at = "starting" /\ v.msg = task[k].msg
  BY <1>2, EmptySeq DEF Dispatched, Unborn, RunType
<1> HIDE DEF v
<1>4. run' = [run EXCEPT ![r] = v]
  BY <1>1 DEF v
<1>5. /\ run' \in [Run -> RunType]
      /\ \A x \in Run : run'[x].at # "unborn" => run'[x].msg \in Msg
  BY <1>2, <1>3, <1>4, RunUpdate
<1>6. current' \in Run /\ run'[current'].at = "starting"
  BY <1>1, <1>3, <1>4 DEF Inv, TypeOK
<1>7. /\ task' \in [Task -> TaskType]
      /\ \A x \in Task : AtWork(x)' => task'[x].msg \in Msg
      /\ \A x \in Task : HasRun(x)' => task'[x].run \in Run
  BY <1>2, ReturnType
<1>8. agent' \in [Run -> {"none", "boot", "turn", "idle", "dead"}]
  BY <1>1 DEF Inv, TypeOK
<1>9. QED
  BY <1>5, <1>6, <1>7, <1>8 DEF Inv, TypeOK, Known, start

LEMMA UserInterruptInv ==
    ASSUME Inv, user_interrupt
    PROVE  Inv'
<1>1. /\ run' \in [Run -> RunType]
      /\ \A x \in Run : run'[x].at # "unborn" => run'[x].msg \in Msg
      /\ run'[current].at \in {"starting", "driving", "claimed"}
  BY CancelledType DEF user_interrupt
<1>2. QED
  BY <1>1 DEF Inv, TypeOK, Known, AtWork, HasRun, user_interrupt

-----------------------------------------------------------------------------
(* The agent.                                                              *)

\* What the agent emits is an event; nothing is taken out of its stream.
LEMMA EmitType ==
    ASSUME Inv, NEW r \in Run, NEW e \in EventType, Emit(r, e)
    PROVE  out' \in [Run -> Seq(EventType)]
<1>1. out \in [Run -> Seq(EventType)] /\ out[r] \in Seq(EventType)
  BY DEF Inv, TypeOK
<1>2. Append(out[r], e) \in Seq(EventType)
  BY <1>1, AppendProperties
<1>3. QED
  BY <1>1, <1>2 DEF Emit

LEMMA AgentInv ==
    ASSUME Inv, NEW r \in Run,
           AgentStep(r) \/ AgentFailsTurn(r) \/ AgentDies(r) \/ AgentObeys(r)
    PROVE  Inv'
<1>1. \A m \in Msg : Event("steered", m) \in EventType
  BY DEF Event, EventType
<1>2. \A t \in {"done", "failed", "eof", "crash"} : Event(t, None) \in EventType
  BY DEF Event, EventType
<1>3. /\ agent' \in [Run -> {"none", "boot", "turn", "idle", "dead"}]
      /\ UNCHANGED <<current, run, ledger, task, confirmed>>
  BY DEF AgentStep, AgentStarts, AgentTakes, AgentEndsTurn, AgentFailsTurn, AgentDies,
         AgentObeys, AgentStops, Inv, TypeOK
<1>4. out' \in [Run -> Seq(EventType)] /\ box' \in [Run -> Seq(Msg)]
  <2>1. box \in [Run -> Seq(Msg)] /\ out \in [Run -> Seq(EventType)]
    BY DEF Inv, TypeOK
  <2>2. CASE AgentTakes(r)
    <3>1. Head(box[r]) \in Msg /\ Tail(box[r]) \in Seq(Msg)
      BY <2>1, <2>2, HeadTailProperties DEF AgentTakes
    <3>2. out' \in [Run -> Seq(EventType)]
      BY <1>1, <2>2, <3>1, EmitType DEF AgentTakes
    <3>3. QED
      BY <2>1, <2>2, <3>1, <3>2 DEF AgentTakes
  <2>3. CASE AgentStarts(r)
    BY <2>1, <2>3 DEF AgentStarts
  <2>4. CASE AgentEndsTurn(r)
    BY <1>2, <2>1, <2>4, EmitType DEF AgentEndsTurn
  <2>5. CASE AgentFailsTurn(r)
    BY <1>2, <2>1, <2>5, EmitType DEF AgentFailsTurn
  <2>6. CASE AgentDies(r) \/ AgentObeys(r)
    <3>1. AgentStops(r)
      BY <2>6 DEF AgentDies, AgentObeys
    <3>2. \/ UNCHANGED out
          \/ Emit(r, Event("crash", None))
          \/ Emit(r, Event("eof", None))
      BY <3>1 DEF AgentStops
    <3>3. QED
      BY <1>2, <2>1, <3>1, <3>2, EmitType DEF AgentStops
  <2>7. QED
    BY <2>2, <2>3, <2>4, <2>5, <2>6 DEF AgentStep
<1>5. QED
  BY <1>3, <1>4 DEF Inv, TypeOK, Known, AtWork, HasRun

-----------------------------------------------------------------------------
(* The run's task.                                                         *)

\* A run that is over keeps its prompt.
LEMMA GoneType ==
    ASSUME Inv, NEW r \in Run
    PROVE  /\ run[r] \in RunType
           /\ Gone(r) \in RunType /\ Gone(r).at = "gone"
           /\ Gone(r).msg = run[r].msg /\ Gone(r).orphans = run[r].orphans
<1>1. run[r] \in RunType
  BY DEF Inv, TypeOK
<1>2. QED
  BY <1>1 DEF Gone, RunType

\* Reading an event leaves a stream of events, and a boundary names its message.
LEMMA ReadsType ==
    ASSUME Inv, NEW r \in Run, NEW t, Reads(r, t)
    PROVE  /\ out' \in [Run -> Seq(EventType)]
           /\ t = "steered" => Head(out[r]).msg \in Msg
<1>1. out \in [Run -> Seq(EventType)] /\ out[r] \in Seq(EventType)
  BY DEF Inv, TypeOK
<1>2. Head(out[r]) \in EventType /\ Tail(out[r]) \in Seq(EventType)
  BY <1>1, HeadTailProperties DEF Reads
<1>3. Head(out[r]).t = "steered" => Head(out[r]).msg \in Msg
  BY <1>2 DEF EventType
<1>4. QED
  BY <1>1, <1>2, <1>3 DEF Reads

LEMMA StartFailsInv ==
    ASSUME Inv, NEW r \in Run, StartFails(r)
    PROVE  Inv'
<1> DEFINE v == [Gone(r) EXCEPT !.fate = "failed"]
<1>1. run[r].msg \in Msg
  BY DEF StartFails, Inv, Known
<1>2. v \in RunType /\ v.at = "gone" /\ v.msg = run[r].msg
  BY GoneType DEF RunType
<1>3. run' = [run EXCEPT ![r] = v]
  BY DEF StartFails
<1> HIDE DEF v
<1>4. /\ run' \in [Run -> RunType]
      /\ \A x \in Run : run'[x].at # "unborn" => run'[x].msg \in Msg
  BY <1>1, <1>2, <1>3, RunUpdate
<1>5. current' \in {current, None} /\ current' # r
  BY MailboxAssumption DEF StartFails, remove_run, Run, None
<1>6. /\ current' \in Run \cup {None}
      /\ current' # None => run'[current'].at \in {"starting", "driving", "claimed"}
  BY <1>3, <1>5, StaysRegistered
<1>7. QED
  BY <1>4, <1>6 DEF Inv, TypeOK, Known, AtWork, HasRun, StartFails

LEMMA StartReturnsInv ==
    ASSUME Inv, NEW r \in Run, StartReturns(r)
    PROVE  Inv'
<1> DEFINE v == [run[r] EXCEPT !.at = "driving"]
<1>1. run[r].msg \in Msg /\ run[r] \in RunType
  BY DEF StartReturns, Inv, Known, TypeOK
<1>2. v \in RunType /\ v.at = "driving" /\ v.msg = run[r].msg
  BY <1>1 DEF RunType
<1>3. run' = [run EXCEPT ![r] = v] /\ current' = current
  BY DEF StartReturns
<1> HIDE DEF v
<1>4. /\ run' \in [Run -> RunType]
      /\ \A x \in Run : run'[x].at # "unborn" => run'[x].msg \in Msg
  BY <1>1, <1>2, <1>3, RunUpdate
<1>5. /\ current' \in Run \cup {None}
      /\ current' # None => run'[current'].at \in {"starting", "driving", "claimed"}
  BY <1>2, <1>3, StaysRegistered
<1>6. QED
  BY <1>4, <1>5 DEF Inv, TypeOK, Known, AtWork, HasRun, StartReturns

\* What the end of the loop does, but for the stream and the bounds.
LEMMA LeaveType ==
    ASSUME Inv, NEW r \in Run, Driven(r), Leave(r)
    PROVE  /\ run' \in [Run -> RunType]
           /\ \A x \in Run : run'[x].at # "unborn" => run'[x].msg \in Msg
           /\ ledger' \in [Run -> Seq(Msg)]
           /\ current' \in Run \cup {None}
           /\ current' # None => run'[current'].at \in {"starting", "driving", "claimed"}
           /\ UNCHANGED <<agent, box, task, confirmed>>
<1> DEFINE orphans == IF current = r THEN ledger[r] ELSE <<>>
           fate == IF interrupted(r) THEN "cancelled" ELSE "ended"
           v == [run[r] EXCEPT !.at = "claimed", !.orphans = orphans,
                           !.owed = ledger[r], !.fate = fate]
<1>1. run[r].msg \in Msg /\ run[r] \in RunType
  BY DEF Driven, Inv, Known, TypeOK
<1>2. ledger \in [Run -> Seq(Msg)] /\ orphans \in Seq(Msg)
  BY EmptySeq DEF Inv, TypeOK
<1>3. v \in RunType /\ v.at = "claimed" /\ v.msg = run[r].msg
  <2>1. fate \in {"cancelled", "ended"}
    OBVIOUS
  <2> HIDE DEF orphans, fate
  <2>2. QED
    BY <1>1, <1>2, <2>1 DEF RunType
<1>4. run' = [run EXCEPT ![r] = v] /\ current' = current
  BY DEF Leave
<1> HIDE DEF v
<1>5. /\ run' \in [Run -> RunType]
      /\ \A x \in Run : run'[x].at # "unborn" => run'[x].msg \in Msg
  BY <1>1, <1>3, <1>4, RunUpdate
<1>6. /\ current' \in Run \cup {None}
      /\ current' # None => run'[current'].at \in {"starting", "driving", "claimed"}
  BY <1>3, <1>4, StaysRegistered
<1>7. ledger' \in [Run -> Seq(Msg)]
  BY <1>2, EmptySeq DEF Leave, Take
<1>8. QED
  BY <1>5, <1>6, <1>7 DEF Leave

\* The ways out of the loop.
LEMMA LeaveInv ==
    ASSUME Inv, NEW r \in Run, Driven(r), Leave(r), out' \in [Run -> Seq(EventType)]
    PROVE  Inv'
BY LeaveType DEF Inv, TypeOK, Known, AtWork, HasRun

LEMMA OnSteeredInv ==
    ASSUME Inv, NEW r \in Run, OnSteered(r)
    PROVE  Inv'
<1> DEFINE v == [run[r] EXCEPT !.parked = FALSE]
<1>1. run[r].msg \in Msg /\ run[r] \in RunType /\ run[r].at = "driving"
  BY DEF OnSteered, Reads, Driven, Inv, Known, TypeOK
<1>2. v \in RunType /\ v.at = "driving" /\ v.msg = run[r].msg
  BY <1>1 DEF RunType
<1>3. run' = [run EXCEPT ![r] = v] /\ current' = current
  BY DEF OnSteered
<1> HIDE DEF v
<1>4. /\ run' \in [Run -> RunType]
      /\ \A x \in Run : run'[x].at # "unborn" => run'[x].msg \in Msg
  BY <1>1, <1>2, <1>3, RunUpdate
<1>5. /\ current' \in Run \cup {None}
      /\ current' # None => run'[current'].at \in {"starting", "driving", "claimed"}
  BY <1>2, <1>3, StaysRegistered
<1>6. Reads(r, "steered") /\ out' \in [Run -> Seq(EventType)] /\ Head(out[r]).msg \in Msg
  BY ReadsType DEF OnSteered
<1>7. ledger' \in [Run -> Seq(Msg)] /\ confirmed' \subseteq Msg
  <2>1. ledger \in [Run -> Seq(Msg)] /\ confirmed \subseteq Msg
    BY DEF Inv, TypeOK
  <2>2. ledger[r] # <<>> => Tail(ledger[r]) \in Seq(Msg)
    BY <2>1, HeadTailProperties
  <2>3. QED
    BY <1>6, <2>1, <2>2 DEF OnSteered, Retire
<1>8. QED
  BY <1>4, <1>5, <1>6, <1>7 DEF Inv, TypeOK, Known, AtWork, HasRun, OnSteered

LEMMA OnDoneInv ==
    ASSUME Inv, NEW r \in Run, OnDone(r)
    PROVE  Inv'
<1>1. Driven(r) /\ out' \in [Run -> Seq(EventType)]
  BY ReadsType DEF OnDone, Reads
<1>2. CASE Leave(r)
  BY <1>1, <1>2, LeaveInv
<1>3. CASE ~Leave(r)
  <2> DEFINE v == [run[r] EXCEPT !.parked = TRUE]
  <2>1. /\ run' = [run EXCEPT ![r] = v]
        /\ UNCHANGED <<current, agent, box, ledger, task, confirmed>>
    BY <1>3 DEF OnDone
  <2>2. run[r].msg \in Msg /\ run[r] \in RunType /\ run[r].at = "driving"
    BY <1>1 DEF Driven, Inv, Known, TypeOK
  <2>3. v \in RunType /\ v.at = "driving" /\ v.msg = run[r].msg
    BY <2>2 DEF RunType
  <2> HIDE DEF v
  <2>4. /\ run' \in [Run -> RunType]
        /\ \A x \in Run : run'[x].at # "unborn" => run'[x].msg \in Msg
    BY <2>1, <2>2, <2>3, RunUpdate
  <2>5. /\ current' \in Run \cup {None}
        /\ current' # None => run'[current'].at \in {"starting", "driving", "claimed"}
    BY <2>1, <2>3, StaysRegistered
  <2>6. QED
    BY <1>1, <2>1, <2>4, <2>5 DEF Inv, TypeOK, Known, AtWork, HasRun
<1>4. QED
  BY <1>2, <1>3

LEMMA StartupRetryInv ==
    ASSUME Inv, NEW r \in Run, StartupRetry(r)
    PROVE  Inv'
<1> DEFINE v == [Gone(r) EXCEPT !.fate = "retried"]
<1>1. Driven(r) /\ out' \in [Run -> Seq(EventType)]
  BY ReadsType DEF StartupRetry, Reads
<1>2. run[r].msg \in Msg
  BY <1>1 DEF Driven, Inv, Known
<1>3. v \in RunType /\ v.at = "gone" /\ v.msg = run[r].msg
  BY GoneType DEF RunType
<1>4. run' = [run EXCEPT ![r] = v]
  BY DEF StartupRetry
<1> HIDE DEF v
<1>5. /\ run' \in [Run -> RunType]
      /\ \A x \in Run : run'[x].at # "unborn" => run'[x].msg \in Msg
  BY <1>2, <1>3, <1>4, RunUpdate
<1>6. current' \in {current, None} /\ current' # r
  BY MailboxAssumption DEF StartupRetry, remove_run, Run, None
<1>7. /\ current' \in Run \cup {None}
      /\ current' # None => run'[current'].at \in {"starting", "driving", "claimed"}
  BY <1>4, <1>6, StaysRegistered
<1>8. /\ task' \in [Task -> TaskType]
      /\ \A x \in Task : AtWork(x)' => task'[x].msg \in Msg
      /\ \A x \in Task : HasRun(x)' => task'[x].run \in Run
  <2>1. PICK rich \in BOOLEAN :
          task' = [task EXCEPT ![r] = [NoTask EXCEPT !.at = "lookup", !.rich = rich,
                                          !.msg = run[r].msg, !.retry = TRUE]]
    BY DEF StartupRetry
  <2> DEFINE w == [NoTask EXCEPT !.at = "lookup", !.rich = rich,
                                 !.msg = run[r].msg, !.retry = TRUE]
  <2>2. w \in TaskType /\ w.at = "lookup" /\ w.msg \in Msg
    BY <1>2, EmptySeq DEF TaskType, NoTask, None
  <2>3. r \in Task /\ task' = [task EXCEPT ![r] = w]
    BY <2>1 DEF Task
  <2> HIDE DEF w
  <2>4. QED
    BY <2>2, <2>3, TaskUpdate
<1>9. QED
  BY <1>1, <1>5, <1>7, <1>8 DEF Inv, TypeOK, Known, StartupRetry

LEMMA ExitInv ==
    ASSUME Inv, NEW r \in Run, Exit(r)
    PROVE  Inv'
<1>1. run[r].msg \in Msg /\ run[r] \in RunType /\ run[r].orphans \in Seq(Msg)
  BY DEF Exit, Inv, Known, TypeOK, RunType
<1>2. PICK v \in RunType : v.at = "gone" /\ v.msg = run[r].msg /\ run' = [run EXCEPT ![r] = v]
  <2>1. [Gone(r) EXCEPT !.orphans = <<>>] \in RunType
        /\ [Gone(r) EXCEPT !.orphans = <<>>].at = "gone"
        /\ [Gone(r) EXCEPT !.orphans = <<>>].msg = run[r].msg
    BY GoneType, EmptySeq DEF RunType
  <2>2. QED
    BY <2>1, GoneType DEF Exit
<1>3. /\ run' \in [Run -> RunType]
      /\ \A x \in Run : run'[x].at # "unborn" => run'[x].msg \in Msg
  BY <1>1, <1>2, RunUpdate
<1>4. current' \in {current, None} /\ current' # r
  BY MailboxAssumption DEF Exit, remove_run, Run, None
<1>5. /\ current' \in Run \cup {None}
      /\ current' # None => run'[current'].at \in {"starting", "driving", "claimed"}
  BY <1>2, <1>4, StaysRegistered
<1>6. out' \in [Run -> Seq(EventType)]
  BY EmptySeq DEF Exit, Inv, TypeOK
<1>7. /\ task' \in [Task -> TaskType]
      /\ \A x \in Task : AtWork(x)' => task'[x].msg \in Msg
      /\ \A x \in Task : HasRun(x)' => task'[x].run \in Run
  <2>1. CASE UNCHANGED task
    BY <2>1 DEF Inv, TypeOK, Known, AtWork, HasRun
  <2>2. CASE LeavesWork(r)
    <3> DEFINE w == [NoTask EXCEPT !.at = "lookup", !.msg = Head(run[r].orphans),
                                   !.rest = Tail(run[r].orphans)]
    <3>1. Head(run[r].orphans) \in Msg /\ Tail(run[r].orphans) \in Seq(Msg)
      BY <1>1, <2>2, HeadTailProperties DEF LeavesWork
    <3>2. w \in TaskType /\ w.at = "lookup" /\ w.msg \in Msg
      BY <3>1 DEF TaskType, NoTask, None
    <3>3. r \in Task /\ task' = [task EXCEPT ![r] = w]
      BY <2>2 DEF Task, Exit
    <3> HIDE DEF w
    <3>4. QED
      BY <3>2, <3>3, TaskUpdate
  <2>3. QED
    BY <2>1, <2>2 DEF Exit
<1>8. QED
  BY <1>3, <1>5, <1>6, <1>7 DEF Inv, TypeOK, Known, Exit

-----------------------------------------------------------------------------
LEMMA InitInv == Init => Inv
<1> SUFFICES ASSUME Init PROVE Inv
  OBVIOUS
<1>1. First \in Msg /\ 1 \in Run
  BY MailboxAssumption DEF Run
<1>2. /\ Unborn \in RunType /\ Unborn.at = "unborn"
      /\ Dispatched(First, FALSE) \in RunType
      /\ Dispatched(First, FALSE).at = "starting" /\ Dispatched(First, FALSE).msg = First
  BY <1>1, EmptySeq DEF Unborn, Dispatched, RunType, None
<1>3. /\ run \in [Run -> RunType]
      /\ \A r \in Run : run[r].at # "unborn" => run[r].msg \in Msg
      /\ run[1].at = "starting"
  BY <1>1, <1>2 DEF Init
<1>4. NoTask \in TaskType /\ [NoTask EXCEPT !.at = "done"] \in TaskType
      /\ NoTask.at = "idle" /\ [NoTask EXCEPT !.at = "done"].at = "done"
  BY EmptySeq DEF NoTask, TaskType, None
<1>5. /\ task \in [Task -> TaskType]
      /\ \A k \in Task : task[k].at \in {"idle", "done"}
  BY <1>4 DEF Init
<1>6. TypeOK
  <2>1. current \in Run /\ run[current].at = "starting"
    BY <1>1, <1>3 DEF Init
  <2>2. agent \in [Run -> {"none", "boot", "turn", "idle", "dead"}]
    BY DEF Init
  <2>3. /\ box \in [Run -> Seq(Msg)] /\ out \in [Run -> Seq(EventType)]
        /\ ledger \in [Run -> Seq(Msg)]
    BY EmptySeq DEF Init
  <2>4. confirmed \subseteq Msg
    BY DEF Init
  <2>5. QED
    BY <1>3, <1>5, <2>1, <2>2, <2>3, <2>4 DEF TypeOK
<1>7. QED
  BY <1>3, <1>5, <1>6 DEF Inv, Known, AtWork, HasRun

LEMMA SenderInv ==
    ASSUME Inv, NEW k \in Task, Sender(k)
    PROVE  Inv'
BY LookupInv, PostInv, CheckInv, ReclaimInv, InterruptInv, SettleInv, StartInv DEF Sender

LEMMA DriveInv ==
    ASSUME Inv, NEW r \in Run, DriveStep(r) \/ StartFails(r) \/ Reap(r) \/ StartupRetry(r)
    PROVE  Inv'
<1>1. out \in [Run -> Seq(EventType)]
  BY DEF Inv, TypeOK
<1>2. CASE Deadline(r) \/ Reap(r)
  BY <1>1, <1>2, LeaveInv DEF Deadline, Reap
<1>3. CASE OnEof(r)
  <2>1. Driven(r) /\ Leave(r) /\ out' \in [Run -> Seq(EventType)]
    BY <1>3, ReadsType DEF OnEof, Reads
  <2>2. QED
    BY <2>1, LeaveInv
<1>4. QED
  BY <1>2, <1>3, StartReturnsInv, OnSteeredInv, OnDoneInv, ExitInv, StartFailsInv,
     StartupRetryInv DEF DriveStep

LEMMA StepInv == Inv /\ [Next]_vars => Inv'
<1> SUFFICES ASSUME Inv, [Next]_vars PROVE Inv'
  OBVIOUS
<1>1. CASE UNCHANGED vars
  BY <1>1 DEF vars, runVars, Inv, TypeOK, Known, AtWork, HasRun
<1>2. CASE \E m \in Msg, rich \in BOOLEAN : send(m, rich)
  BY <1>2, SendInv
<1>3. CASE \E k \in Task : Sender(k)
  BY <1>3, SenderInv
<1>4. CASE user_interrupt
  BY <1>4, UserInterruptInv
<1>5. ASSUME NEW r \in Run,
             AgentStep(r) \/ AgentFailsTurn(r) \/ AgentDies(r) \/ AgentObeys(r)
      PROVE  Inv'
  BY <1>5, AgentInv
<1>6. ASSUME NEW r \in Run, DriveStep(r) \/ StartFails(r) \/ Reap(r) \/ StartupRetry(r)
      PROVE  Inv'
  BY <1>6, DriveInv
<1>7. QED
  BY <1>1, <1>2, <1>3, <1>4, <1>5, <1>6 DEF Next

LEMMA Invariance == Spec => []Inv
<1>1. Init => Inv
  BY InitInv
<1>2. Inv /\ [Next]_vars => Inv'
  BY StepInv
<1>3. QED
  BY <1>1, <1>2, PTL DEF Spec

\* Every variable keeps its type, and the registered handle is always that of a
\* run that has not ended (the runs map of sessions.rs).
THEOREM MailboxTypeCorrect == Spec => []TypeOK
<1>1. Inv => TypeOK
  BY DEF Inv
<1>2. QED
  BY <1>1, Invariance, PTL

-----------------------------------------------------------------------------
\* One step: whoever takes a run's handle out of the map is that run, over now, or
\* the start of the next.
LEMMA HandleStep ==
    ASSUME Inv, Next, NEW r \in Run, current = r, current' # r
    PROVE  \/ run'[r].at = "gone"
           \/ current' # None /\ run[current'].at = "unborn"
<1>1. run \in [Run -> RunType]
  BY DEF Inv, TypeOK
<1>2. CASE \E m \in Msg, rich \in BOOLEAN : send(m, rich)
  BY <1>2 DEF send, runVars
<1>3. CASE \E k \in Task : Sender(k)
  <2>1. PICK k \in Task : Sender(k)
    BY <1>3
  <2>2. start(k)
    BY <2>1 DEF Sender, lookup, post, check, reclaim, interrupt, settle, runVars
  <2>3. current' \in Run /\ run[current'].at = "unborn"
    BY <2>2 DEF start
  <2>4. current' # None
    BY <2>3, MailboxAssumption DEF Run, None
  <2>5. QED
    BY <2>3, <2>4
<1>4. CASE user_interrupt
  BY <1>4 DEF user_interrupt
<1>5. ASSUME NEW x \in Run,
             AgentStep(x) \/ AgentFailsTurn(x) \/ AgentDies(x) \/ AgentObeys(x)
      PROVE  FALSE
  BY <1>5 DEF AgentStep, AgentStarts, AgentTakes, AgentEndsTurn, AgentFailsTurn,
              AgentDies, AgentObeys, AgentStops
<1>6. ASSUME NEW x \in Run, DriveStep(x) \/ StartFails(x) \/ Reap(x) \/ StartupRetry(x)
      PROVE  run'[r].at = "gone"
  <2>1. Exit(x) \/ StartFails(x) \/ StartupRetry(x)
    BY <1>6 DEF DriveStep, StartReturns, Deadline, OnSteered, OnDone, OnEof, Reap, Leave
  <2>2. x = r
    BY <2>1 DEF Exit, StartFails, StartupRetry, remove_run
  <2>3. PICK v : v.at = "gone" /\ run' = [run EXCEPT ![r] = v]
    <3>1. /\ Gone(r).at = "gone"
          /\ [Gone(r) EXCEPT !.orphans = <<>>].at = "gone"
          /\ [Gone(r) EXCEPT !.fate = "failed"].at = "gone"
          /\ [Gone(r) EXCEPT !.fate = "retried"].at = "gone"
      BY GoneType DEF RunType
    <3>2. QED
      BY <2>1, <2>2, <3>1 DEF Exit, StartFails, StartupRetry
  <2>4. QED
    BY <1>1, <2>3
<1>7. QED
  BY <1>2, <1>3, <1>4, <1>5, <1>6 DEF Next

\* A run's exit unregisters no other run (remove_run, sessions.rs): a stale exit
\* never takes the handle of the run that replaced it.
THEOREM HandleSafe == Spec => StaleExitKeepsNewRun
<1>1. Inv /\ [Next]_vars =>
        [\A r \in Run : current = r /\ current' # r =>
           \/ run'[r].at = "gone"
           \/ current' # None /\ run[current'].at = "unborn"]_vars
  BY HandleStep
<1>2. QED
  BY <1>1, Invariance, PTL DEF Spec, StaleExitKeepsNewRun

-----------------------------------------------------------------------------
(* What the ledger owns: the boundaries the run has not read, counted.      *)

\* The positions counted by Steered.
Hits(s, i) == {j \in 1..i : s[j].t = "steered"}

\* One more event counts if it is a boundary; nothing is counted twice.
LEMMA CountStep ==
    ASSUME NEW s, NEW i \in Nat
    PROVE  /\ IsFiniteSet(Hits(s, i)) /\ Steered(s, i) \in Nat
           /\ Steered(s, 0) = 0
           /\ Steered(s, i + 1) = Steered(s, i) + (IF s[i + 1].t = "steered" THEN 1 ELSE 0)
<1>1. \A n \in Nat : IsFiniteSet(Hits(s, n)) /\ Steered(s, n) \in Nat
  <2> TAKE n \in Nat
  <2>1. IsFiniteSet(1..n) /\ Hits(s, n) \in SUBSET (1..n)
    BY FS_Interval DEF Hits
  <2>2. IsFiniteSet(Hits(s, n))
    BY <2>1, FS_Subset
  <2>3. QED
    BY <2>2, FS_CardinalityType DEF Hits, Steered
<1>2. Steered(s, 0) = 0
  <2>1. Hits(s, 0) = {}
    BY DEF Hits
  <2>2. QED
    BY <2>1, FS_EmptySet DEF Hits, Steered
<1>3. CASE s[i + 1].t = "steered"
  <2>1. Hits(s, i + 1) = Hits(s, i) \cup {i + 1} /\ i + 1 \notin Hits(s, i)
    BY <1>3 DEF Hits
  <2>2. Cardinality(Hits(s, i + 1)) = Cardinality(Hits(s, i)) + 1
    BY <1>1, <2>1, FS_AddElement
  <2>3. QED
    BY <1>1, <1>2, <1>3, <2>2 DEF Hits, Steered
<1>4. CASE s[i + 1].t # "steered"
  <2>1. Hits(s, i + 1) = Hits(s, i)
    BY <1>4 DEF Hits
  <2>2. Steered(s, i + 1) = Steered(s, i)
    BY <2>1 DEF Hits, Steered
  <2>3. QED
    BY <1>1, <1>2, <1>4, <2>2
<1>5. QED
  BY <1>3, <1>4

\* The counts up to a place are at most the count up to a later one.
LEMMA CountMonotone ==
    ASSUME NEW s, NEW i \in Nat, NEW j \in Nat, i <= j
    PROVE  Steered(s, i) <= Steered(s, j)
<1>1. Hits(s, i) \in SUBSET Hits(s, j)
  BY DEF Hits
<1>2. Cardinality(Hits(s, i)) <= Cardinality(Hits(s, j))
  BY <1>1, CountStep, FS_Subset
<1>3. QED
  BY <1>2 DEF Hits, Steered

\* The count reads only the events up to its place.
LEMMA CountSame ==
    ASSUME NEW s, NEW z, NEW i \in Nat, \A j \in 1..i : s[j] = z[j]
    PROVE  Steered(s, i) = Steered(z, i)
<1>1. Hits(s, i) = Hits(z, i)
  BY DEF Hits
<1>2. QED
  BY <1>1 DEF Hits, Steered

\* Reading the first event shifts the counts.
LEMMA CountTail ==
    ASSUME NEW s, NEW z, NEW i \in Nat, \A j \in 1..i : z[j] = s[j + 1]
    PROVE  Steered(s, i + 1) = Steered(z, i) + (IF s[1].t = "steered" THEN 1 ELSE 0)
<1> DEFINE A == Hits(z, i)
           B == Hits(s, i + 1) \ {1}
           f == [j \in A |-> j + 1]
<1>1. f \in Bijection(A, B)
  <2>1. f \in [A -> B]
    BY DEF Hits
  <2>2. \A a, b \in A : f[a] = f[b] => a = b
    BY DEF Hits
  <2>3. \A b \in B : \E a \in A : f[a] = b
    <3> TAKE b \in B
    <3>1. b - 1 \in A /\ f[b - 1] = b
      BY DEF Hits
    <3>2. QED
      BY <3>1
  <2> HIDE DEF f
  <2>4. QED
    BY <2>1, <2>2, <2>3 DEF Bijection, Injection, Surjection, IsInjective
<1>2. IsFiniteSet(A) /\ IsFiniteSet(Hits(s, i + 1))
  BY CountStep
<1>3. Cardinality(B) = Cardinality(A)
  <2>1. ExistsBijection(A, B)
    BY <1>1 DEF ExistsBijection
  <2>2. QED
    BY <1>2, <2>1, FS_Bijection
<1>4. Cardinality(B) = IF s[1].t = "steered" THEN Cardinality(Hits(s, i + 1)) - 1
                       ELSE Cardinality(Hits(s, i + 1))
  <2>1. (1 \in Hits(s, i + 1)) <=> s[1].t = "steered"
    BY DEF Hits
  <2>2. QED
    BY <1>2, <2>1, FS_RemoveElement
<1>5. Steered(s, i + 1) = Cardinality(Hits(s, i + 1)) /\ Steered(z, i) = Cardinality(A)
  BY DEF Steered, Hits
<1>6. Steered(s, i + 1) \in Nat /\ Steered(z, i) \in Nat
  BY CountStep
<1>7. QED
  BY <1>3, <1>4, <1>5, <1>6

\* Where a boundary's entry is: in the ledger, ahead of the mailbox's.
LEMMA CountWithin ==
    ASSUME NEW s \in Seq(EventType), NEW i \in 1 .. Len(s), s[i].t = "steered"
    PROVE  Steered(s, i) \in 1 .. Steered(s, Len(s))
<1>1. PICK k \in Nat : i = k + 1 /\ i \in Nat /\ Len(s) \in Nat /\ i <= Len(s)
  <2>1. Len(s) \in Nat /\ i - 1 \in Nat /\ i = (i - 1) + 1
    BY LenProperties
  <2>2. QED
    BY <2>1
<1>2. Steered(s, k + 1) = Steered(s, k) + 1 /\ Steered(s, k) \in Nat
  BY <1>1, CountStep
<1>3. Steered(s, i) <= Steered(s, Len(s)) /\ Steered(s, Len(s)) \in Nat
  BY <1>1, CountMonotone, CountStep
<1>4. QED
  BY <1>1, <1>2, <1>3

LEMMA EmptyUnconfirmed == Unconfirmed(<<>>, <<>>, <<>>)
<1>1. Steered(<<>>, 0) = 0
  BY CountStep
<1>2. QED
  BY <1>1 DEF Unconfirmed

\* A message goes into the mailbox and the ledger at once.
LEMMA PostedUnconfirmed ==
    ASSUME NEW l \in Seq(Msg), NEW s \in Seq(EventType), NEW b \in Seq(Msg), NEW m \in Msg,
           Unconfirmed(l, s, b)
    PROVE  Unconfirmed(Append(l, m), s, Append(b, m))
<1> DEFINE n == Steered(s, Len(s))
<1>1. /\ n \in Nat /\ Len(l) = n + Len(b) /\ Len(b) \in Nat
      /\ \A i \in 1 .. Len(s) : s[i].t = "steered" => l[Steered(s, i)] = s[i].msg
      /\ \A i \in 1 .. Len(b) : l[n + i] = b[i]
      /\ DOMAIN b = 1 .. Len(b)
  BY CountStep, LenProperties DEF Unconfirmed
<1>0. \A i \in 1 .. Len(s) : s[i].t = "steered" => Steered(s, i) \in 1 .. n
  BY CountWithin
<1>7. ASSUME Len(Append(l, m)) = n + Len(Append(b, m)),
             \A i \in 1 .. Len(s) : s[i].t = "steered" => Append(l, m)[Steered(s, i)] = s[i].msg,
             \A i \in 1 .. Len(Append(b, m)) : Append(l, m)[n + i] = Append(b, m)[i]
      PROVE  Unconfirmed(Append(l, m), s, Append(b, m))
  BY <1>7 DEF Unconfirmed
<1> HIDE DEF n
<1>2. /\ Len(Append(l, m)) = Len(l) + 1 /\ Len(Append(b, m)) = Len(b) + 1
      /\ \A i \in 1 .. Len(l) : Append(l, m)[i] = l[i]
      /\ \A i \in 1 .. Len(b) : Append(b, m)[i] = b[i]
      /\ Append(l, m)[Len(l) + 1] = m /\ Append(b, m)[Len(b) + 1] = m
      /\ DOMAIN Append(b, m) = 1 .. Len(b) + 1
  BY AppendProperties, LenProperties
<1>3. \A i \in 1 .. Len(s) : s[i].t = "steered" => Append(l, m)[Steered(s, i)] = s[i].msg
  <2> TAKE i \in 1 .. Len(s)
  <2> HAVE s[i].t = "steered"
  <2>1. Steered(s, i) \in 1 .. n
    BY <1>0
  <2>2. Steered(s, i) \in 1 .. Len(l)
    BY <1>1, <2>1
  <2>3. QED
    BY <1>1, <1>2, <2>2
<1>4. \A i \in 1 .. Len(Append(b, m)) : Append(l, m)[n + i] = Append(b, m)[i]
  <2> TAKE i \in 1 .. Len(Append(b, m))
  <2>1. CASE i \in 1 .. Len(b)
    <3>1. n + i \in 1 .. Len(l) /\ l[n + i] = b[i]
      BY <1>1, <2>1
    <3>2. Append(l, m)[n + i] = l[n + i] /\ Append(b, m)[i] = b[i]
      BY <1>2, <2>1, <3>1
    <3>3. QED
      BY <3>1, <3>2
  <2>2. CASE i = Len(b) + 1
    <3>1. n + i = Len(l) + 1
      BY <1>1, <2>2
    <3>2. QED
      BY <1>2, <2>2, <3>1
  <2>3. i \in 1 .. Len(b) \/ i = Len(b) + 1
    BY <1>1, <1>2
  <2>4. QED
    BY <2>1, <2>2, <2>3
<1>5. Len(Append(l, m)) = n + Len(Append(b, m))
  BY <1>1, <1>2
<1>6. QED
  BY <1>3, <1>4, <1>5, <1>7

\* The agent says something else than a boundary.
LEMMA SaidUnconfirmed ==
    ASSUME NEW l \in Seq(Msg), NEW s \in Seq(EventType), NEW b \in Seq(Msg),
           NEW e \in EventType, e.t # "steered", Unconfirmed(l, s, b)
    PROVE  Unconfirmed(l, Append(s, e), b)
<1> DEFINE z == Append(s, e)
<1>1. /\ Len(s) \in Nat /\ DOMAIN s = 1 .. Len(s)
      /\ Len(z) = Len(s) + 1 /\ DOMAIN z = 1 .. Len(s) + 1
      /\ \A i \in 1 .. Len(s) : z[i] = s[i]
      /\ z[Len(s) + 1] = e
  BY AppendProperties, LenProperties
<1> HIDE DEF z
<1>2. \A i \in 0 .. Len(s) : Steered(z, i) = Steered(s, i)
  BY <1>1, CountSame
<1>3. Steered(z, Len(z)) = Steered(s, Len(s))
  <2>1. Steered(z, Len(s) + 1) = Steered(z, Len(s)) + 0 /\ Steered(z, Len(s)) \in Nat
    BY <1>1, CountStep
  <2>2. QED
    BY <1>1, <1>2, <2>1
<1>4. \A i \in 1 .. Len(z) : z[i].t = "steered" => l[Steered(z, i)] = z[i].msg
  <2> TAKE i \in 1 .. Len(z)
  <2> HAVE z[i].t = "steered"
  <2>1. i \in 1 .. Len(s)
    BY <1>1
  <2>2. l[Steered(s, i)] = s[i].msg
    BY <1>1, <2>1 DEF Unconfirmed
  <2>3. QED
    BY <1>1, <1>2, <2>1, <2>2
<1>5. QED
  BY <1>3, <1>4 DEF Unconfirmed, z

\* It takes a message out of the mailbox, and says so.
LEMMA TakenUnconfirmed ==
    ASSUME NEW l \in Seq(Msg), NEW s \in Seq(EventType), NEW b \in Seq(Msg), b # <<>>,
           Unconfirmed(l, s, b)
    PROVE  Unconfirmed(l, Append(s, Event("steered", Head(b))), Tail(b))
<1> DEFINE n == Steered(s, Len(s))
           e == Event("steered", Head(b))
           z == Append(s, e)
           c == Tail(b)
<1>1. Head(b) \in Msg /\ e \in EventType /\ e.t = "steered" /\ e.msg = Head(b)
  BY HeadTailProperties DEF Event, EventType
<1>2. /\ Len(s) \in Nat /\ DOMAIN s = 1 .. Len(s)
      /\ Len(z) = Len(s) + 1 /\ DOMAIN z = 1 .. Len(s) + 1
      /\ \A i \in 1 .. Len(s) : z[i] = s[i]
      /\ z[Len(s) + 1] = e
  BY <1>1, AppendProperties, LenProperties
<1>3. /\ Len(b) \in Nat \ {0} /\ DOMAIN b = 1 .. Len(b) /\ Head(b) = b[1]
      /\ c \in Seq(Msg) /\ Len(c) = Len(b) - 1 /\ DOMAIN c = 1 .. Len(b) - 1
      /\ \A i \in 1 .. Len(b) - 1 : c[i] = b[i + 1]
  BY HeadTailProperties, LenProperties, EmptySeq
<1> HIDE DEF z, c, e
<1>4. /\ n \in Nat /\ Len(l) = n + Len(b)
      /\ \A i \in 1 .. Len(s) : s[i].t = "steered" => l[Steered(s, i)] = s[i].msg
      /\ \A i \in 1 .. Len(b) : l[n + i] = b[i]
  BY <1>2, CountStep DEF Unconfirmed
<1>5. \A i \in 0 .. Len(s) : Steered(z, i) = Steered(s, i)
  BY <1>2, CountSame
<1>6. Steered(z, Len(z)) = n + 1
  <2>1. Steered(z, Len(s) + 1) = Steered(z, Len(s)) + 1
    BY <1>1, <1>2, CountStep
  <2>2. QED
    BY <1>2, <1>5, <2>1
<1> HIDE DEF n
<1>7. \A i \in 1 .. Len(z) : z[i].t = "steered" => l[Steered(z, i)] = z[i].msg
  <2> TAKE i \in 1 .. Len(z)
  <2> HAVE z[i].t = "steered"
  <2>1. CASE i \in 1 .. Len(s)
    BY <1>2, <1>4, <1>5, <2>1
  <2>2. CASE i = Len(s) + 1
    <3>1. 1 \in 1 .. Len(b) /\ l[n + 1] = b[1]
      BY <1>3, <1>4
    <3>2. QED
      BY <1>1, <1>2, <1>3, <1>6, <2>2, <3>1
  <2>3. QED
    BY <1>2, <2>1, <2>2
<1>8. \A i \in 1 .. Len(c) : l[(n + 1) + i] = c[i]
  <2> TAKE i \in 1 .. Len(c)
  <2>1. i \in 1 .. Len(b) - 1
    BY <1>3
  <2>2. i + 1 \in 1 .. Len(b) /\ c[i] = b[i + 1]
    BY <1>3, <2>1
  <2>3. l[n + (i + 1)] = b[i + 1]
    BY <1>4, <2>2
  <2>4. (n + 1) + i = n + (i + 1)
    BY <1>4, <2>1
  <2>5. QED
    BY <2>2, <2>3, <2>4
<1>9. Len(l) = (n + 1) + Len(c)
  BY <1>3, <1>4
<1>10. Unconfirmed(l, z, c)
  BY <1>6, <1>7, <1>8, <1>9 DEF Unconfirmed
<1>11. QED
  BY <1>10 DEF z, c, e

\* The run reads something else than a boundary.
LEMMA ReadUnconfirmed ==
    ASSUME NEW l \in Seq(Msg), NEW s \in Seq(EventType), NEW b \in Seq(Msg),
           s # <<>>, Head(s).t # "steered", Unconfirmed(l, s, b)
    PROVE  Unconfirmed(l, Tail(s), b)
<1> DEFINE z == Tail(s)
<1>1. /\ Len(s) \in Nat \ {0} /\ Head(s) = s[1]
      /\ Len(z) = Len(s) - 1 /\ Len(z) \in Nat
      /\ \A i \in 1 .. Len(z) : z[i] = s[i + 1]
  BY HeadTailProperties, EmptySeq
<1> HIDE DEF z
<1>2. \A i \in 0 .. Len(z) : Steered(s, i + 1) = Steered(z, i)
  <2> TAKE i \in 0 .. Len(z)
  <2>1. i \in Nat /\ \A j \in 1 .. i : z[j] = s[j + 1]
    BY <1>1
  <2>2. Steered(s, i + 1) = Steered(z, i) + (IF s[1].t = "steered" THEN 1 ELSE 0)
    BY <2>1, CountTail
  <2>3. Steered(z, i) \in Nat
    BY <2>1, CountStep
  <2>4. QED
    BY <1>1, <2>2, <2>3
<1>3. Steered(z, Len(z)) = Steered(s, Len(s))
  BY <1>1, <1>2
<1>4. \A i \in 1 .. Len(z) : z[i].t = "steered" => l[Steered(z, i)] = z[i].msg
  <2> TAKE i \in 1 .. Len(z)
  <2> HAVE z[i].t = "steered"
  <2>1. i + 1 \in 1 .. Len(s) /\ s[i + 1] = z[i] /\ Steered(s, i + 1) = Steered(z, i)
    BY <1>1, <1>2
  <2>2. QED
    BY <2>1 DEF Unconfirmed
<1>5. QED
  BY <1>3, <1>4 DEF Unconfirmed, z

\* It reads a boundary: the ledger's head is that message.
LEMMA ConfirmedUnconfirmed ==
    ASSUME NEW l \in Seq(Msg), NEW s \in Seq(EventType), NEW b \in Seq(Msg),
           s # <<>>, Head(s).t = "steered", Unconfirmed(l, s, b)
    PROVE  /\ l # <<>> /\ Head(l) = Head(s).msg
           /\ Unconfirmed(Tail(l), Tail(s), b)
<1> DEFINE z == Tail(s)
           k == Tail(l)
           n == Steered(z, Len(z))
<1>1. /\ Len(s) \in Nat \ {0} /\ Head(s) = s[1] /\ s[1].t = "steered"
      /\ Len(z) = Len(s) - 1 /\ Len(z) \in Nat
      /\ \A i \in 1 .. Len(z) : z[i] = s[i + 1]
      /\ z \in Seq(EventType)
  BY HeadTailProperties, EmptySeq
<1>2. \A i \in 1 .. Len(z) : z[i].t = "steered" => Steered(z, i) \in 1 .. n
  BY <1>1, CountWithin
<1>3. n \in Nat /\ Len(b) \in Nat
  BY <1>1, CountStep, LenProperties
<1>4. ASSUME Len(k) = n + Len(b),
             \A i \in 1 .. Len(z) : z[i].t = "steered" => k[Steered(z, i)] = z[i].msg,
             \A i \in 1 .. Len(b) : k[n + i] = b[i]
      PROVE  Unconfirmed(k, z, b)
  BY <1>4 DEF Unconfirmed
<1> HIDE DEF z
<1>5. \A i \in 0 .. Len(z) : Steered(s, i + 1) = Steered(z, i) + 1
  <2> TAKE i \in 0 .. Len(z)
  <2>1. i \in Nat /\ \A j \in 1 .. i : z[j] = s[j + 1]
    BY <1>1
  <2>2. QED
    BY <1>1, <2>1, CountTail
<1>6. Steered(s, Len(s)) = n + 1
  BY <1>1, <1>5
<1>7. /\ Len(l) = (n + 1) + Len(b)
      /\ \A i \in 1 .. Len(s) : s[i].t = "steered" => l[Steered(s, i)] = s[i].msg
      /\ \A i \in 1 .. Len(b) : l[(n + 1) + i] = b[i]
  BY <1>6 DEF Unconfirmed
<1> HIDE DEF n
<1>8. /\ l # <<>> /\ Head(l) = l[1] /\ Len(k) = Len(l) - 1
      /\ \A i \in 1 .. Len(k) : k[i] = l[i + 1]
  <2>1. l # <<>>
    BY <1>3, <1>7, EmptySeq
  <2>2. QED
    BY <2>1, HeadTailProperties
<1>9. Head(l) = Head(s).msg
  <2>1. PICK o \in Nat : o = 0
    OBVIOUS
  <2>2. Steered(s, o + 1) = Steered(s, o) + (IF s[o + 1].t = "steered" THEN 1 ELSE 0)
    BY CountStep
  <2>3. Steered(s, o) = 0 /\ o + 1 = 1
    BY <2>1, CountStep
  <2>4. 1 \in 1 .. Len(s) /\ Steered(s, 1) = 1
    BY <1>1, <2>2, <2>3
  <2>5. QED
    BY <1>1, <1>7, <1>8, <2>4
<1> HIDE DEF k
<1>10. Len(k) = n + Len(b)
  BY <1>3, <1>7, <1>8
<1>11. ASSUME NEW i \in 1 .. Len(z), z[i].t = "steered"
       PROVE  k[Steered(z, i)] = z[i].msg
  <2>1. i + 1 \in 1 .. Len(s) /\ s[i + 1] = z[i] /\ Steered(s, i + 1) = Steered(z, i) + 1
    BY <1>1, <1>5
  <2>2. l[Steered(z, i) + 1] = z[i].msg
    BY <1>7, <1>11, <2>1
  <2>3. Steered(z, i) \in 1 .. n
    BY <1>2, <1>11
  <2>4. Steered(z, i) \in 1 .. Len(k)
    BY <1>3, <1>10, <2>3
  <2>5. QED
    BY <1>8, <2>2, <2>4
<1>12. ASSUME NEW i \in 1 .. Len(b)
       PROVE  k[n + i] = b[i]
  <2>1. n + i \in 1 .. Len(k)
    BY <1>3, <1>10
  <2>2. (n + i) + 1 = (n + 1) + i
    BY <1>3
  <2>3. QED
    BY <1>7, <1>8, <2>1, <2>2
<1>13. Unconfirmed(k, z, b)
  BY <1>4, <1>10, <1>11, <1>12
<1>14. QED
  BY <1>8, <1>9, <1>13 DEF k, z

\* What a step does to the runs: nothing, the next state of one that was born,
\* which keeps its prompt, or the birth of one.
Kept(r, v) ==
    /\ run' = [run EXCEPT ![r] = v] /\ current' \in {current, None}
    /\ run[r].at \notin {"unborn", "gone"} /\ v.at # "unborn" /\ v.msg = run[r].msg
    /\ v.fate = "retried" => v.at = "gone" \/ run[r].fate = "retried"
    /\ v.at \in {"starting", "driving"} => run[r].at \in {"starting", "driving"}
Born(r) ==
    /\ run[r].at = "unborn" /\ current' = r
    /\ \E m \in Msg, retry \in BOOLEAN : run' = [run EXCEPT ![r] = Dispatched(m, retry)]

LEMMA CancelledKept ==
    ASSUME Inv, current # None, run' = Cancelled(current), current' = current
    PROVE  \E r \in Run, v \in RunType : Kept(r, v)
<1> DEFINE v == [run[current] EXCEPT !.cancel = TRUE]
<1>1. /\ current \in Run /\ run[current] \in RunType
      /\ run[current].at \in {"starting", "driving", "claimed"}
  BY DEF Inv, TypeOK
<1>2. v \in RunType /\ v.at = run[current].at /\ v.msg = run[current].msg
      /\ v.fate = run[current].fate
  BY <1>1 DEF RunType
<1>3. run' = [run EXCEPT ![current] = v]
  BY DEF Cancelled, Inv, TypeOK
<1> HIDE DEF v
<1>4. QED
  BY <1>1, <1>2, <1>3 DEF Kept

LEMMA LeaveKept ==
    ASSUME Inv, NEW r \in Run, Driven(r), Leave(r)
    PROVE  \E v \in RunType : Kept(r, v) /\ v.at = "claimed"
<1> DEFINE orphans == IF current = r THEN ledger[r] ELSE <<>>
           fate == IF interrupted(r) THEN "cancelled" ELSE "ended"
           v == [run[r] EXCEPT !.at = "claimed", !.orphans = orphans,
                           !.owed = ledger[r], !.fate = fate]
<1>1. run[r] \in RunType /\ run[r].at = "driving" /\ current' = current
  BY DEF Driven, Inv, TypeOK, Leave
<1>2. orphans \in Seq(Msg) /\ ledger[r] \in Seq(Msg) /\ fate \in {"cancelled", "ended"}
  BY EmptySeq DEF Inv, TypeOK
<1>3. run' = [run EXCEPT ![r] = v]
  BY DEF Leave
<1>4. v \in RunType /\ v.at = "claimed" /\ v.msg = run[r].msg /\ v.fate # "retried"
  <2> HIDE DEF orphans, fate
  <2>1. QED
    BY <1>1, <1>2 DEF RunType
<1> HIDE DEF v
<1>5. QED
  BY <1>1, <1>3, <1>4 DEF Kept

LEMMA RunMoves ==
    ASSUME Inv, Next
    PROVE  \/ UNCHANGED <<run, current>>
           \/ \E r \in Run, v \in RunType : Kept(r, v)
           \/ \E r \in Run : Born(r)
<1>1. CASE \E m \in Msg, rich \in BOOLEAN : send(m, rich)
  BY <1>1 DEF send, runVars
<1>2. ASSUME NEW k \in Task, lookup(k) \/ post(k) \/ check(k) \/ reclaim(k) \/ settle(k)
      PROVE  UNCHANGED <<run, current>>
  BY <1>2 DEF lookup, post, check, reclaim, settle, runVars
<1>3. ASSUME NEW k \in Task, interrupt(k)
      PROVE  UNCHANGED <<run, current>> \/ \E r \in Run, v \in RunType : Kept(r, v)
  BY <1>3, CancelledKept DEF interrupt
<1>4. ASSUME NEW k \in Task, start(k)
      PROVE  \E r \in Run : Born(r)
  <2>1. task[k].msg \in Msg /\ task[k].retry \in BOOLEAN
    BY <1>4 DEF start, At, AtWork, Inv, Known, TypeOK, TaskType
  <2>2. QED
    BY <1>4, <2>1 DEF start, Born
<1>5. CASE user_interrupt
  BY <1>5, CancelledKept DEF user_interrupt
<1>6. ASSUME NEW r \in Run,
             AgentStep(r) \/ AgentFailsTurn(r) \/ AgentDies(r) \/ AgentObeys(r)
      PROVE  UNCHANGED <<run, current>>
  BY <1>6 DEF AgentStep, AgentStarts, AgentTakes, AgentEndsTurn, AgentFailsTurn,
              AgentDies, AgentObeys, AgentStops
<1>7. ASSUME NEW r \in Run, DriveStep(r) \/ StartFails(r) \/ Reap(r) \/ StartupRetry(r)
      PROVE  \E v \in RunType : Kept(r, v)
  <2>1. /\ run[r] \in RunType
        /\ \A f \in {"failed", "retried"} :
             [Gone(r) EXCEPT !.fate = f] \in RunType /\ [Gone(r) EXCEPT !.fate = f].at = "gone"
               /\ [Gone(r) EXCEPT !.fate = f].msg = run[r].msg
        /\ [Gone(r) EXCEPT !.orphans = <<>>] \in RunType
        /\ [Gone(r) EXCEPT !.orphans = <<>>].at = "gone"
        /\ [Gone(r) EXCEPT !.orphans = <<>>].msg = run[r].msg
    BY GoneType, EmptySeq DEF RunType
  <2>2. CASE Deadline(r) \/ Reap(r) \/ OnEof(r) \/ (OnDone(r) /\ Leave(r))
    BY <2>2, LeaveKept DEF Deadline, Reap, OnEof, OnDone, Reads
  <2>3. CASE StartFails(r)
    <3>1. current' \in {current, None} /\ run[r].at = "starting"
          /\ run' = [run EXCEPT ![r] = [Gone(r) EXCEPT !.fate = "failed"]]
      BY <2>3 DEF StartFails, remove_run
    <3>2. QED
      BY <2>1, <3>1 DEF Kept
  <2>4. CASE StartupRetry(r)
    <3>1. current' \in {current, None} /\ run[r].at = "driving"
          /\ run' = [run EXCEPT ![r] = [Gone(r) EXCEPT !.fate = "retried"]]
      BY <2>4 DEF StartupRetry, remove_run, Reads, Driven
    <3>2. QED
      BY <2>1, <3>1 DEF Kept
  <2>5. CASE Exit(r)
    <3>1. PICK w \in {Gone(r), [Gone(r) EXCEPT !.orphans = <<>>]} :
             run' = [run EXCEPT ![r] = w]
      BY <2>5 DEF Exit
    <3>2. current' \in {current, None} /\ run[r].at = "claimed"
      BY <2>5 DEF Exit, remove_run
    <3>3. w \in RunType /\ w.at = "gone" /\ w.msg = run[r].msg
      BY <2>1, <3>1, GoneType
    <3>4. QED
      BY <3>1, <3>2, <3>3 DEF Kept
  <2>6. CASE StartReturns(r)
    <3> DEFINE v == [run[r] EXCEPT !.at = "driving"]
    <3>1. v \in RunType /\ v.at = "driving" /\ v.msg = run[r].msg /\ v.fate = run[r].fate
      BY <2>1 DEF RunType
    <3>2. run' = [run EXCEPT ![r] = v] /\ current' = current /\ run[r].at = "starting"
      BY <2>6 DEF StartReturns
    <3> HIDE DEF v
    <3>3. QED
      BY <3>1, <3>2 DEF Kept
  <2>7. CASE OnSteered(r) \/ (OnDone(r) /\ ~Leave(r))
    <3>1. PICK p \in BOOLEAN : run' = [run EXCEPT ![r] = [run[r] EXCEPT !.parked = p]]
      BY <2>7 DEF OnSteered, OnDone
    <3> DEFINE v == [run[r] EXCEPT !.parked = p]
    <3>2. v \in RunType /\ v.at = run[r].at /\ v.msg = run[r].msg /\ v.fate = run[r].fate
      BY <2>1 DEF RunType
    <3>3. run' = [run EXCEPT ![r] = v] /\ current' = current /\ run[r].at = "driving"
      BY <2>7, <3>1 DEF OnSteered, OnDone, Reads, Driven
    <3> HIDE DEF v
    <3>4. QED
      BY <3>2, <3>3 DEF Kept
  <2>8. QED
    BY <1>7, <2>2, <2>3, <2>4, <2>5, <2>6, <2>7 DEF DriveStep
<1>8. QED
  BY <1>1, <1>2, <1>3, <1>4, <1>5, <1>6, <1>7 DEF Next, Sender

\* What a task that is dispatched again, or returns, looks like.
LEMMA RedispatchDone ==
    ASSUME Inv, NEW k \in Task, Redispatch(k)
    PROVE  /\ \A x \in Task \ {k} : task'[x] = task[x]
           /\ task'[k].at = "lookup" /\ task'[k].msg = task[k].msg
           /\ task'[k].rest = task[k].rest /\ task'[k].run = None
<1>1. task \in [Task -> TaskType]
  BY DEF Inv, TypeOK
<1>2. QED
  BY <1>1 DEF Redispatch, TaskType

LEMMA GotoDone ==
    ASSUME Inv, NEW k \in Task, NEW pc, Goto(k, pc)
    PROVE  /\ \A x \in Task \ {k} : task'[x] = task[x]
           /\ task'[k].at = pc /\ task'[k].msg = task[k].msg
           /\ task'[k].rest = task[k].rest /\ task'[k].run = task[k].run
<1>1. task \in [Task -> TaskType]
  BY DEF Inv, TypeOK
<1>2. QED
  BY <1>1 DEF Goto, TaskType

LEMMA ReturnDone ==
    ASSUME Inv, NEW k \in Task, Return(k)
    PROVE  /\ \A x \in Task \ {k} : task'[x] = task[x]
           /\ \/ /\ task[k].rest = <<>> /\ task'[k].at = "done"
                 /\ task'[k].msg = None /\ task'[k].rest = <<>>
              \/ /\ task[k].rest # <<>> /\ task'[k].at = "lookup"
                 /\ task'[k].msg = Head(task[k].rest)
                 /\ task'[k].rest = Tail(task[k].rest)
<1>1. task \in [Task -> TaskType]
  BY DEF Inv, TypeOK
<1>2. CASE task[k].rest = <<>>
  BY <1>1, <1>2 DEF Return, NoTask
<1>3. CASE task[k].rest # <<>>
  BY <1>1, <1>3 DEF Return, NoTask
<1>4. QED
  BY <1>2, <1>3

LEMMA NotNone == \A r \in Run : r # None
BY MailboxAssumption DEF Run, None

\* A task comes to a run only by finding it registered; it takes its entry back
\* only from a run that no longer is.
LEMMA TaskRuns ==
    ASSUME Inv, Next, NEW k \in Task
    PROVE  /\ HasRun(k)' => \/ HasRun(k) /\ task'[k].run = task[k].run
                            \/ task'[k].run = current
           /\ At(k, "reclaim")' => \/ At(k, "reclaim") /\ task'[k].run = task[k].run
                                   \/ HasRun(k) /\ task'[k].run = task[k].run
                                      /\ current # task[k].run /\ UNCHANGED current
<1> DEFINE Same(x) == UNCHANGED <<task[x].at, task[x].run>>
           Away(x) == task'[x].at \in {"lookup", "interrupt", "start", "done"}
<1>1. /\ Same(k) => /\ HasRun(k)' => HasRun(k) /\ task'[k].run = task[k].run
                    /\ At(k, "reclaim")' => At(k, "reclaim") /\ task'[k].run = task[k].run
      /\ Away(k) => ~HasRun(k)' /\ ~At(k, "reclaim")'
  BY DEF HasRun, At
<1>2. task \in [Task -> TaskType]
  BY DEF Inv, TypeOK
<1>3. CASE \E m \in Msg, rich \in BOOLEAN : send(m, rich)
  <2>1. PICK m \in Msg, rich \in BOOLEAN : send(m, rich)
    BY <1>3
  <2>2. task'[m].at = "lookup" /\ \A x \in Task \ {m} : task'[x] = task[x]
    BY <1>2, <2>1 DEF send, TaskType, Task
  <2>3. QED
    BY <1>1, <2>2
<1>4. ASSUME NEW x \in Task, Sender(x)
      PROVE  \/ Same(k) \/ Away(k)
             \/ task'[k].at \in {"post", "settle"} /\ task'[k].run = current
             \/ HasRun(k) /\ task'[k].run = task[k].run /\ task'[k].at = "check"
             \/ HasRun(k) /\ task'[k].run = task[k].run /\ task'[k].at = "reclaim"
                /\ current # task[k].run /\ UNCHANGED current
  <2>1. CASE Redispatch(x) \/ Return(x) \/ Goto(x, "start") \/ Goto(x, "interrupt")
    BY <2>1, RedispatchDone, ReturnDone, GotoDone
  <2>2. CASE post(x) /\ Goto(x, "check")
    BY <2>2, GotoDone DEF post, At, HasRun
  <2>3. CASE check(x) /\ Goto(x, "reclaim") /\ current # task[x].run
    BY <2>3, GotoDone DEF check, At, HasRun, runVars
  <2>4. CASE task' = [task EXCEPT ![x].at = "settle", ![x].run = current]
    BY <1>2, <2>4 DEF TaskType
  <2>5. CASE task' = [task EXCEPT ![x].run = current,
                         ![x].at = IF can_route(x) THEN "post" ELSE "interrupt"]
    <3>1. PICK pc \in {"post", "interrupt"} :
             task' = [task EXCEPT ![x].run = current, ![x].at = pc]
      BY <2>5
    <3>2. QED
      BY <1>2, <3>1 DEF TaskType
  <2>6. QED
    BY <1>4, <2>1, <2>2, <2>3, <2>4, <2>5
       DEF Sender, lookup, post, check, reclaim, interrupt, settle, start
<1>5. CASE user_interrupt
  BY <1>1, <1>5 DEF user_interrupt
<1>6. ASSUME NEW r \in Run,
             AgentStep(r) \/ AgentFailsTurn(r) \/ AgentDies(r) \/ AgentObeys(r)
      PROVE  Same(k)
  BY <1>6 DEF AgentStep, AgentStarts, AgentTakes, AgentEndsTurn, AgentFailsTurn,
              AgentDies, AgentObeys, AgentStops
<1>7. ASSUME NEW r \in Run, DriveStep(r) \/ StartFails(r) \/ Reap(r) \/ StartupRetry(r)
      PROVE  Same(k) \/ Away(k)
  <2>1. CASE UNCHANGED task
    BY <2>1
  <2>2. ASSUME NEW v, task' = [task EXCEPT ![r] = v], v.at = "lookup"
        PROVE  Same(k) \/ Away(k)
    BY <1>2, <2>2 DEF Task
  <2>3. CASE StartupRetry(r)
    <3>1. PICK rich \in BOOLEAN :
            task' = [task EXCEPT ![r] = [NoTask EXCEPT !.at = "lookup", !.rich = rich,
                                          !.msg = run[r].msg, !.retry = TRUE]]
      BY <2>3 DEF StartupRetry
    <3>2. [NoTask EXCEPT !.at = "lookup", !.rich = rich,
                         !.msg = run[r].msg, !.retry = TRUE].at = "lookup"
      BY DEF NoTask
    <3>3. QED
      BY <2>2, <3>1, <3>2
  <2>4. CASE Exit(r) /\ LeavesWork(r)
    <3>1. task' = [task EXCEPT ![r] =
                    [NoTask EXCEPT !.at = "lookup", !.msg = Head(run[r].orphans),
                                   !.rest = Tail(run[r].orphans)]]
      BY <2>4 DEF Exit
    <3>2. [NoTask EXCEPT !.at = "lookup", !.msg = Head(run[r].orphans),
                         !.rest = Tail(run[r].orphans)].at = "lookup"
      BY DEF NoTask
    <3>3. QED
      BY <2>2, <3>1, <3>2
  <2>5. QED
    BY <1>7, <2>1, <2>3, <2>4 DEF DriveStep, StartFails, StartReturns, Deadline, Reap,
       OnSteered, OnDone, OnEof, Exit, Leave
<1>8. QED
  BY <1>1, <1>3, <1>4, <1>5, <1>6, <1>7 DEF Next, HasRun, At

\* What the ledgers rely on: a run that was not born has had no message; a task
\* at a run found it born, and takes its entry back only from a run that has left
\* the map for good.
LedgerInv ==
    /\ LedgerIsUnconfirmed
    /\ \A r \in Run : run[r].at = "unborn" =>
         ledger[r] = <<>> /\ out[r] = <<>> /\ box[r] = <<>>
    /\ \A k \in Task : HasRun(k) => run[task[k].run].at # "unborn"
    /\ \A k \in Task : At(k, "reclaim") => current # task[k].run

Queues(r) == <<ledger[r], out[r], box[r]>>

LEMMA EventKinds ==
    /\ \A m \in Msg : Event("steered", m) \in EventType
    /\ \A t \in {"done", "failed", "eof", "crash"} :
         Event(t, None) \in EventType /\ Event(t, None).t # "steered"
BY DEF Event, EventType

\* The senders.
LEMMA SenderQueues ==
    ASSUME Inv, LedgerInv, NEW k \in Task, Sender(k), NEW x \in Run
    PROVE  \/ UNCHANGED Queues(x)
           \/ /\ run[x].at # "unborn" /\ run'[x].at # "unborn"
              /\ Unconfirmed(ledger[x], out[x], box[x]) /\ Routable(x)' =>
                   Unconfirmed(ledger[x], out[x], box[x])'
<1>1. /\ ledger \in [Run -> Seq(Msg)] /\ box \in [Run -> Seq(Msg)]
      /\ out \in [Run -> Seq(EventType)]
  BY DEF Inv, TypeOK
<1>2. CASE post(k)
  <2> DEFINE r == task[k].run
             m == task[k].msg
  <2>1. r \in Run /\ m \in Msg /\ run[r].at # "unborn" /\ UNCHANGED <<run, out>>
    BY <1>2 DEF post, At, HasRun, AtWork, Inv, Known, LedgerInv
  <2>2. CASE UNCHANGED <<box, ledger>> \/ x # r
    BY <1>1, <1>2, <2>1, <2>2 DEF post, Queues
  <2>3. CASE x = r /\ box' = [box EXCEPT ![r] = Append(@, m)]
              /\ ledger' = [ledger EXCEPT ![r] = Append(@, m)]
    <3>1. box'[x] = Append(box[x], m) /\ ledger'[x] = Append(ledger[x], m) /\ out'[x] = out[x]
      BY <1>1, <2>1, <2>3
    <3>2. Unconfirmed(ledger[x], out[x], box[x]) =>
            Unconfirmed(Append(ledger[x], m), out[x], Append(box[x], m))
      BY <1>1, <2>1, PostedUnconfirmed
    <3>3. QED
      BY <2>1, <2>3, <3>1, <3>2
  <2>4. QED
    BY <1>2, <2>2, <2>3 DEF post
<1>3. CASE reclaim(k)
  <2> DEFINE r == task[k].run
  <2>1. r \in Run /\ current # r /\ run[r].at # "unborn" /\ UNCHANGED <<current, run, out, box>>
    BY <1>3 DEF reclaim, At, HasRun, Inv, Known, LedgerInv
  <2>2. CASE x = r
    BY <2>1, <2>2 DEF Routable
  <2>3. CASE x # r
    BY <1>1, <1>3, <2>1, <2>3 DEF reclaim, Queues
  <2>4. QED
    BY <2>2, <2>3
<1>4. CASE UNCHANGED <<box, out, ledger>>
  BY <1>4 DEF Queues
<1>5. QED
  BY <1>2, <1>3, <1>4 DEF Sender, lookup, check, interrupt, settle, start, runVars

\* The agent.
LEMMA AgentQueues ==
    ASSUME Inv, NEW r \in Run, NEW x \in Run,
           AgentStep(r) \/ AgentFailsTurn(r) \/ AgentDies(r) \/ AgentObeys(r)
    PROVE  \/ UNCHANGED Queues(x)
           \/ /\ run[x].at # "unborn" /\ run'[x].at # "unborn"
              /\ Unconfirmed(ledger[x], out[x], box[x]) =>
                   Unconfirmed(ledger[x], out[x], box[x])'
<1>1. /\ ledger[x] \in Seq(Msg) /\ box[x] \in Seq(Msg) /\ out[x] \in Seq(EventType)
      /\ ledger \in [Run -> Seq(Msg)] /\ box \in [Run -> Seq(Msg)]
      /\ out \in [Run -> Seq(EventType)]
  BY DEF Inv, TypeOK
<1>2. UNCHANGED <<run, ledger>>
  BY DEF AgentStep, AgentStarts, AgentTakes, AgentEndsTurn, AgentFailsTurn, AgentDies,
         AgentObeys, AgentStops
<1>3. ASSUME NEW e \in EventType, e.t # "steered", Emit(r, e), UNCHANGED box, Driven(r)
      PROVE  \/ UNCHANGED Queues(x)
             \/ /\ run[x].at # "unborn" /\ run'[x].at # "unborn"
                /\ Unconfirmed(ledger[x], out[x], box[x]) =>
                     Unconfirmed(ledger[x], out[x], box[x])'
  <2>1. CASE x = r
    <3>1. out'[x] = Append(out[x], e)
      BY <1>1, <1>3, <2>1 DEF Emit
    <3>2. Unconfirmed(ledger[x], out[x], box[x]) =>
            Unconfirmed(ledger[x], Append(out[x], e), box[x])
      BY <1>1, <1>3, SaidUnconfirmed
    <3>3. QED
      BY <1>2, <1>3, <2>1, <3>1, <3>2 DEF Driven
  <2>2. CASE x # r
    BY <1>1, <1>2, <1>3, <2>2 DEF Emit, Queues
  <2>3. QED
    BY <2>1, <2>2
<1>4. CASE AgentTakes(r)
  <2>1. CASE x = r
    <3>1. box[x] # <<>> /\ box'[x] = Tail(box[x])
          /\ out'[x] = Append(out[x], Event("steered", Head(box[x])))
          /\ run[x].at = "driving"
      BY <1>1, <1>4, <2>1 DEF AgentTakes, Emit, Driven
    <3>2. Unconfirmed(ledger[x], out[x], box[x]) =>
            Unconfirmed(ledger[x], Append(out[x], Event("steered", Head(box[x]))), Tail(box[x]))
      BY <1>1, <3>1, TakenUnconfirmed
    <3>3. QED
      BY <1>2, <3>1, <3>2
  <2>2. CASE x # r
    BY <1>1, <1>2, <1>4, <2>2 DEF AgentTakes, Emit, Queues
  <2>3. QED
    BY <2>1, <2>2
<1>5. CASE AgentStarts(r)
  BY <1>5 DEF AgentStarts, Queues
<1>6. CASE AgentEndsTurn(r) \/ AgentFailsTurn(r)
  BY <1>3, <1>6, EventKinds DEF AgentEndsTurn, AgentFailsTurn
<1>7. CASE AgentDies(r) \/ AgentObeys(r)
  <2>1. AgentStops(r)
    BY <1>7 DEF AgentDies, AgentObeys
  <2>2. CASE Driven(r)
    <3>1. UNCHANGED box /\ (Emit(r, Event("crash", None)) \/ Emit(r, Event("eof", None)))
      BY <2>1, <2>2 DEF AgentStops
    <3>2. QED
      BY <1>3, <2>2, <3>1, EventKinds
  <2>3. CASE ~Driven(r)
    BY <1>2, <2>1, <2>3 DEF AgentStops, Queues
  <2>4. QED
    BY <2>2, <2>3
<1>8. QED
  BY <1>4, <1>5, <1>6, <1>7 DEF AgentStep

\* The run itself.
LEMMA DriveQueues ==
    ASSUME Inv, NEW r \in Run, NEW x \in Run,
           DriveStep(r) \/ StartFails(r) \/ Reap(r) \/ StartupRetry(r)
    PROVE  \/ UNCHANGED Queues(x)
           \/ /\ run[x].at # "unborn" /\ run'[x].at # "unborn"
              /\ Unconfirmed(ledger[x], out[x], box[x]) /\ Routable(x)' =>
                   Unconfirmed(ledger[x], out[x], box[x])'
<1>1. /\ ledger[x] \in Seq(Msg) /\ box[x] \in Seq(Msg) /\ out[x] \in Seq(EventType)
      /\ ledger \in [Run -> Seq(Msg)] /\ box \in [Run -> Seq(Msg)]
      /\ out \in [Run -> Seq(EventType)] /\ run \in [Run -> RunType]
  BY DEF Inv, TypeOK
<1>2. CASE UNCHANGED <<box, out, ledger>>
  BY <1>2 DEF Queues
\* Only r's own queues are touched, and r is no longer a run to route to.
<1>3. ASSUME \A y \in Run \ {r} : UNCHANGED Queues(y),
             run[r].at # "unborn", run'[r].at \in {"claimed", "gone"}
      PROVE  \/ UNCHANGED Queues(x)
             \/ /\ run[x].at # "unborn" /\ run'[x].at # "unborn"
                /\ Unconfirmed(ledger[x], out[x], box[x]) /\ Routable(x)' =>
                     Unconfirmed(ledger[x], out[x], box[x])'
  <2>1. CASE x = r
    BY <1>3, <2>1 DEF Routable
  <2>2. CASE x # r
    BY <1>3, <2>2
  <2>3. QED
    BY <2>1, <2>2
<1>4. CASE Deadline(r) \/ Reap(r) \/ OnEof(r) \/ (OnDone(r) /\ Leave(r))
  <2>1. Leave(r) /\ Driven(r)
    BY <1>4 DEF Deadline, Reap, OnEof, OnDone, Reads
  <2>2. \/ UNCHANGED out
        \/ out' = [out EXCEPT ![r] = Tail(@)]
    BY <1>4 DEF Deadline, Reap, OnEof, OnDone, Reads
  <2>3. \A y \in Run \ {r} : UNCHANGED Queues(y)
    BY <1>1, <2>1, <2>2 DEF Leave, Take, Queues
  <2>4. run[r].at # "unborn" /\ run'[r].at = "claimed"
    BY <1>1, <2>1, LeaveKept DEF Driven, Kept
  <2>5. QED
    BY <1>3, <2>3, <2>4
<1>5. CASE Exit(r)
  <2>1. \A y \in Run \ {r} : UNCHANGED Queues(y)
    BY <1>1, <1>5 DEF Exit, Queues
  <2>2. run[r].at # "unborn" /\ run'[r].at = "gone"
    <3>1. Gone(r).at = "gone" /\ [Gone(r) EXCEPT !.orphans = <<>>].at = "gone"
      BY GoneType DEF RunType
    <3>2. QED
      BY <1>1, <1>5, <3>1 DEF Exit
  <2>3. QED
    BY <1>3, <2>1, <2>2
<1>6. CASE StartupRetry(r)
  <2>1. \A y \in Run \ {r} : UNCHANGED Queues(y)
    BY <1>1, <1>6 DEF StartupRetry, Reads, Queues
  <2>2. run[r].at # "unborn" /\ run'[r].at = "gone"
    <3>1. [Gone(r) EXCEPT !.fate = "retried"].at = "gone"
      BY GoneType DEF RunType
    <3>2. QED
      BY <1>1, <1>6, <3>1 DEF StartupRetry, Reads, Driven
  <2>3. QED
    BY <1>3, <2>1, <2>2
<1>7. CASE OnDone(r) /\ ~Leave(r)
  <2>1. /\ out[r] # <<>> /\ Head(out[r]).t = "done" /\ out' = [out EXCEPT ![r] = Tail(@)]
        /\ run[r].at = "driving" /\ run' = [run EXCEPT ![r].parked = TRUE]
        /\ UNCHANGED <<box, ledger>>
    BY <1>7 DEF OnDone, Reads, Driven
  <2>2. CASE x = r
    <3>1. Unconfirmed(ledger[x], out[x], box[x]) => Unconfirmed(ledger[x], Tail(out[x]), box[x])
      BY <1>1, <2>1, <2>2, ReadUnconfirmed
    <3>2. out'[x] = Tail(out[x]) /\ run'[x].at = "driving"
      BY <1>1, <2>1, <2>2 DEF RunType
    <3>3. QED
      BY <2>1, <2>2, <3>1, <3>2
  <2>3. CASE x # r
    BY <1>1, <2>1, <2>3 DEF Queues
  <2>4. QED
    BY <2>2, <2>3
<1>8. CASE OnSteered(r)
  <2>1. /\ out[r] # <<>> /\ Head(out[r]).t = "steered" /\ out' = [out EXCEPT ![r] = Tail(@)]
        /\ run[r].at = "driving" /\ run' = [run EXCEPT ![r].parked = FALSE]
        /\ UNCHANGED <<box, current>>
    BY <1>8 DEF OnSteered, Reads, Driven
  <2>2. CASE x = r
    <3> SUFFICES ASSUME Unconfirmed(ledger[x], out[x], box[x]), Routable(x)'
                 PROVE  Unconfirmed(ledger[x], out[x], box[x])'
      <4>1. run'[x].at = "driving"
        BY <1>1, <2>1, <2>2 DEF RunType
      <4>2. QED
        BY <2>1, <2>2, <4>1
    <3>1. current = r
      BY <2>1, <2>2 DEF Routable
    <3>2. ledger[x] # <<>> /\ Unconfirmed(Tail(ledger[x]), Tail(out[x]), box[x])
      BY <1>1, <2>1, <2>2, ConfirmedUnconfirmed
    <3>3. ledger'[x] = Tail(ledger[x]) /\ out'[x] = Tail(out[x]) /\ box'[x] = box[x]
      BY <1>1, <1>8, <2>1, <2>2, <3>1, <3>2 DEF OnSteered, Retire
    <3>4. QED
      BY <3>2, <3>3
  <2>3. CASE x # r
    BY <1>1, <1>8, <2>1, <2>3 DEF OnSteered, Queues
  <2>4. QED
    BY <2>2, <2>3
<1>9. QED
  BY <1>2, <1>4, <1>5, <1>6, <1>7, <1>8 DEF DriveStep, StartFails, StartReturns

LEMMA StepQueues ==
    ASSUME Inv, LedgerInv, Next, NEW x \in Run
    PROVE  \/ UNCHANGED Queues(x)
           \/ /\ run[x].at # "unborn" /\ run'[x].at # "unborn"
              /\ Unconfirmed(ledger[x], out[x], box[x]) /\ Routable(x)' =>
                   Unconfirmed(ledger[x], out[x], box[x])'
<1>1. CASE \E m \in Msg, rich \in BOOLEAN : send(m, rich)
  BY <1>1 DEF send, runVars, Queues
<1>2. CASE user_interrupt
  BY <1>2 DEF user_interrupt, Queues
<1>3. QED
  BY <1>1, <1>2, SenderQueues, AgentQueues, DriveQueues DEF Next

\* A run to route to was one before, unless it is born.
LEMMA RoutableBefore ==
    ASSUME Inv, Next, NEW x \in Run
    PROVE  /\ run[x].at # "unborn" => run'[x].at # "unborn"
           /\ Routable(x)' => Routable(x) \/ run[x].at = "unborn"
           /\ current' \in {current, None} \/ run[current'].at = "unborn"
<1>1. run \in [Run -> RunType] /\ x # None
  BY NotNone DEF Inv, TypeOK
<1>2. CASE UNCHANGED <<run, current>>
  BY <1>2 DEF Routable
<1>3. ASSUME NEW r \in Run, NEW v \in RunType, Kept(r, v)
      PROVE  /\ run[x].at # "unborn" => run'[x].at # "unborn"
             /\ Routable(x)' => Routable(x) \/ run[x].at = "unborn"
             /\ current' \in {current, None} \/ run[current'].at = "unborn"
  <2>1. run'[r] = v /\ \A y \in Run \ {r} : run'[y] = run[y]
    BY <1>1, <1>3 DEF Kept
  <2>2. QED
    BY <1>1, <1>3, <2>1 DEF Kept, Routable
<1>4. ASSUME NEW r \in Run, Born(r)
      PROVE  /\ run[x].at # "unborn" => run'[x].at # "unborn"
             /\ Routable(x)' => Routable(x) \/ run[x].at = "unborn"
             /\ current' \in {current, None} \/ run[current'].at = "unborn"
  <2>1. run[r].at = "unborn" /\ current' = r /\ \A y \in Run \ {r} : run'[y] = run[y]
    BY <1>1, <1>4 DEF Born
  <2>2. QED
    BY <1>1, <2>1 DEF Routable
<1>5. QED
  BY <1>2, <1>3, <1>4, RunMoves

LEMMA LedgerStep ==
    ASSUME Inv, LedgerInv, [Next]_vars
    PROVE  LedgerInv'
<1>1. CASE UNCHANGED vars
  BY <1>1 DEF vars, runVars, LedgerInv, LedgerIsUnconfirmed, Routable, HasRun, At
<1>2. CASE Next
  <2>0. Inv'
    BY StepInv
  <2>1. ASSUME NEW x \in Run, Routable(x)'
        PROVE  Unconfirmed(ledger[x], out[x], box[x])'
    <3>1. Unconfirmed(ledger[x], out[x], box[x])
      BY <1>2, <2>1, RoutableBefore, EmptyUnconfirmed DEF LedgerInv, LedgerIsUnconfirmed
    <3>2. QED
      BY <1>2, <2>1, <3>1, StepQueues DEF Queues
  <2>2. ASSUME NEW x \in Run, run'[x].at = "unborn"
        PROVE  ledger'[x] = <<>> /\ out'[x] = <<>> /\ box'[x] = <<>>
    <3>1. run[x].at = "unborn"
      BY <1>2, <2>2, RoutableBefore
    <3>2. UNCHANGED Queues(x)
      BY <1>2, <2>2, StepQueues
    <3>3. QED
      BY <3>1, <3>2 DEF LedgerInv, Queues
  <2>3. ASSUME NEW k \in Task, HasRun(k)'
        PROVE  run'[task'[k].run].at # "unborn"
    <3>1. task'[k].run \in Run
      BY <2>0, <2>3 DEF Inv, Known
    <3>2. run[task'[k].run].at # "unborn"
      <4>1. CASE HasRun(k) /\ task'[k].run = task[k].run
        BY <4>1 DEF LedgerInv
      <4>2. CASE task'[k].run = current
        BY <3>1, <4>2, NotNone DEF Inv, TypeOK
      <4>3. QED
        BY <1>2, <2>3, <4>1, <4>2, TaskRuns
    <3>3. QED
      BY <1>2, <3>1, <3>2, RoutableBefore
  <2>4. ASSUME NEW k \in Task, At(k, "reclaim")'
        PROVE  current' # task'[k].run
    <3>1. /\ task'[k].run = task[k].run /\ HasRun(k)
          /\ current # task[k].run
      BY <1>2, <2>4, TaskRuns DEF LedgerInv, At, HasRun
    <3>2. task[k].run \in Run /\ run[task[k].run].at # "unborn"
      BY <3>1 DEF Inv, Known, LedgerInv
    <3>3. QED
      BY <1>2, <3>1, <3>2, RoutableBefore, NotNone
  <2>5. QED
    BY <2>1, <2>2, <2>3, <2>4 DEF LedgerInv, LedgerIsUnconfirmed
<1>3. QED
  BY <1>1, <1>2

LEMMA LedgerInit == Init => LedgerInv
<1> SUFFICES ASSUME Init PROVE LedgerInv
  OBVIOUS
<1>1. \A k \in Task : task[k].at \in {"idle", "done"}
  BY DEF Init, NoTask
<1>2. \A r \in Run : ledger[r] = <<>> /\ out[r] = <<>> /\ box[r] = <<>>
  BY DEF Init
<1>3. QED
  BY <1>1, <1>2, EmptyUnconfirmed DEF LedgerInv, LedgerIsUnconfirmed, HasRun, At

\* The ledger of the run that messages are routed to (RunHandle.routed_steers) is
\* always the messages the agent has taken and not yet confirmed to the run, in
\* its order, followed by the mailbox: post writes both under the ledger's lock,
\* so no boundary the agent emits, however fast, retires another message's entry.
THEOREM LedgerExact == Spec => []LedgerIsUnconfirmed
<1>1. Init => LedgerInv
  BY LedgerInit
<1>2. Inv /\ LedgerInv /\ [Next]_vars => LedgerInv'
  BY LedgerStep
<1>3. LedgerInv => LedgerIsUnconfirmed
  BY DEF LedgerInv
<1>4. QED
  BY <1>1, <1>2, <1>3, Invariance, PTL DEF Spec

-----------------------------------------------------------------------------
(* Who has a message: the tasks, ledgers and exits that own it, and the run   *)
(* it was given to as its prompt, which may be retried.                       *)

AtHand(k) == task[k].at \notin {"idle", "check", "reclaim", "done"}
Hand(k) == ToSet(task[k].rest) \cup (IF AtHand(k) THEN {task[k].msg} ELSE {})
Prompt(r) == IF run[r].at \in {"starting", "driving"} THEN {run[r].msg} ELSE {}

Kind == {"task", "ledger", "exit", "prompt"}
Holding(t, k) ==
    IF t = "task" THEN Hand(k)
    ELSE IF k \notin Run THEN {}
    ELSE IF t = "ledger" THEN ToSet(ledger[k])
    ELSE IF t = "exit" THEN ToSet(run[k].orphans)
    ELSE Prompt(k)

Exclusive ==
    \A t, u \in Kind, k, l \in Task :
        Holding(t, k) \cap Holding(u, l) # {} => t = u /\ k = l

NoDup(s) == \A i, j \in 1..Len(s) : s[i] = s[j] => i = j

Distinct ==
    /\ \A r \in Run : NoDup(ledger[r]) /\ NoDup(run[r].orphans)
    /\ \A k \in Task : NoDup(task[k].rest) /\ (AtHand(k) => task[k].msg \notin ToSet(task[k].rest))

\* A message that was not sent is nowhere.
Unsent ==
    \A m \in Msg : At(m, "idle") =>
        /\ \A t \in Kind, k \in Task : m \notin Holding(t, k)
        /\ ~Prompted(m) /\ m \notin confirmed

\* One that was a prompt or is confirmed has no owner, but for a startup retry.
Spent ==
    \A m \in Msg : (Prompted(m) \/ m \in confirmed) /\ ~Retried(m) =>
        \A t \in Kind \ {"prompt"}, k \in Task : m \notin Holding(t, k)

RetriedIsOver == \A r \in Run : run[r].fate = "retried" => run[r].at = "gone"

OwnerInv == Exclusive /\ Distinct /\ Unsent /\ Spent /\ RetriedIsOver

\* Entries of a sequence without repetition: added, taken from the front,
\* removed at a place.
LEMMA AddEntry ==
    ASSUME NEW s \in Seq(Msg), NEW m \in Msg
    PROVE  /\ ToSet(Append(s, m)) = ToSet(s) \cup {m}
           /\ NoDup(s) /\ m \notin ToSet(s) => NoDup(Append(s, m))
<1>1. /\ Len(s) \in Nat /\ DOMAIN s = 1 .. Len(s)
      /\ Len(Append(s, m)) = Len(s) + 1 /\ DOMAIN Append(s, m) = 1 .. Len(s) + 1
      /\ \A i \in 1 .. Len(s) : Append(s, m)[i] = s[i]
      /\ Append(s, m)[Len(s) + 1] = m
  BY AppendProperties, LenProperties
<1>2. QED
  BY <1>1 DEF ToSet, NoDup

LEMMA FrontEntry ==
    ASSUME NEW s \in Seq(Msg), s # <<>>
    PROVE  /\ Head(s) \in ToSet(s) /\ ToSet(s) = {Head(s)} \cup ToSet(Tail(s))
           /\ NoDup(s) => NoDup(Tail(s)) /\ Head(s) \notin ToSet(Tail(s))
<1>1. /\ Len(s) \in Nat \ {0} /\ DOMAIN s = 1 .. Len(s) /\ Head(s) = s[1]
      /\ Len(Tail(s)) = Len(s) - 1 /\ DOMAIN Tail(s) = 1 .. Len(s) - 1
      /\ \A i \in 1 .. Len(s) - 1 : Tail(s)[i] = s[i + 1]
  BY HeadTailProperties, LenProperties, EmptySeq
<1>2. Head(s) \in ToSet(s) /\ ToSet(Tail(s)) \subseteq ToSet(s)
  BY <1>1 DEF ToSet
<1>3. ASSUME NEW i \in DOMAIN s
      PROVE  s[i] \in {Head(s)} \cup ToSet(Tail(s))
  <2>1. CASE i = 1
    BY <1>1, <2>1
  <2>2. CASE i # 1
    <3>1. i - 1 \in DOMAIN Tail(s) /\ Tail(s)[i - 1] = s[i]
      BY <1>1, <2>2
    <3>2. QED
      BY <3>1 DEF ToSet
  <2>3. QED
    BY <2>1, <2>2
<1>4. NoDup(s) => NoDup(Tail(s)) /\ Head(s) \notin ToSet(Tail(s))
  BY <1>1 DEF NoDup, ToSet
<1>5. ToSet(s) \subseteq {Head(s)} \cup ToSet(Tail(s))
  BY <1>3 DEF ToSet
<1>6. QED
  BY <1>2, <1>4, <1>5

LEMMA DropEntry ==
    ASSUME NEW s \in Seq(Msg), NEW i \in 1 .. Len(s), NoDup(s)
    PROVE  /\ ToSet(RemoveAt(s, i)) \subseteq ToSet(s) \ {s[i]}
           /\ NoDup(RemoveAt(s, i))
<1> DEFINE a == SubSeq(s, 1, i - 1)
           b == SubSeq(s, i + 1, Len(s))
           z == RemoveAt(s, i)
<1>1. Len(s) \in Nat /\ DOMAIN s = 1 .. Len(s) /\ \A j \in 1 .. Len(s) : s[j] \in Msg
  BY LenProperties, ElementOfSeq
<1>0. i \in Nat /\ 1 <= i /\ i <= Len(s) /\ Len(s) \in Nat
  BY <1>1
<1>2. /\ a \in Seq(Msg) /\ Len(a) = i - 1
      /\ \A j \in 1 .. i - 1 : a[j] = s[j]
  <2>1. \A j \in 1 .. i - 1 : s[j] \in Msg
    BY <1>1
  <2>2. QED
    BY <1>1, <2>1, SubSeqProperties
<1>3. /\ b \in Seq(Msg) /\ Len(b) = Len(s) - i
      /\ \A j \in 1 .. Len(s) - i : b[j] = s[i + j]
  <2>1. i + 1 \in Int /\ Len(s) \in Int /\ \A j \in i + 1 .. Len(s) : s[j] \in Msg
    BY <1>1
  <2>2. /\ b \in Seq(Msg)
        /\ Len(b) = IF i + 1 <= Len(s) THEN Len(s) - (i + 1) + 1 ELSE 0
        /\ \A j \in 1 .. Len(s) - (i + 1) + 1 : b[j] = s[(i + 1) + j - 1]
    BY <2>1, SubSeqProperties
  <2> HIDE DEF b
  <2>3. Len(b) = Len(s) - i
    <3>1. CASE i + 1 <= Len(s)
      BY <1>0, <2>2, <3>1
    <3>2. CASE i = Len(s)
      BY <1>0, <2>2, <3>2
    <3>3. i + 1 <= Len(s) \/ i = Len(s)
      BY <1>0
    <3>4. QED
      BY <3>1, <3>2, <3>3
  <2>4. ASSUME NEW j \in 1 .. Len(s) - i
        PROVE  b[j] = s[i + j]
    <3>1. (i + 1) + j - 1 = i + j /\ j \in 1 .. Len(s) - (i + 1) + 1
      BY <1>1
    <3>2. QED
      BY <2>2, <3>1
  <2>5. QED
    BY <2>2, <2>3, <2>4
<1> HIDE DEF a, b
<1>4. /\ Len(z) = Len(s) - 1 /\ DOMAIN z = 1 .. Len(s) - 1
      /\ \A j \in 1 .. Len(s) - 1 : z[j] = IF j < i THEN s[j] ELSE s[j + 1]
  <2>1. z = a \o b
    BY DEF RemoveAt, a, b
  <2>2. /\ a \o b \in Seq(Msg) /\ Len(a \o b) = Len(a) + Len(b)
        /\ \A j \in 1 .. Len(a) + Len(b) :
             (a \o b)[j] = IF j <= Len(a) THEN a[j] ELSE b[j - Len(a)]
    BY <1>2, <1>3, ConcatProperties
  <2>3. DOMAIN (a \o b) = 1 .. Len(a \o b) /\ Len(a) + Len(b) = Len(s) - 1
    BY <1>1, <1>2, <1>3, <2>2, LenProperties
  <2>4. ASSUME NEW j \in 1 .. Len(s) - 1
        PROVE  (a \o b)[j] = IF j < i THEN s[j] ELSE s[j + 1]
    <3>1. CASE j < i
      BY <1>1, <1>2, <2>2, <2>3, <3>1
    <3>2. CASE ~(j < i)
      <4>1. j - (i - 1) \in 1 .. Len(s) - i /\ i + (j - (i - 1)) = j + 1
        BY <1>1, <3>2
      <4>2. b[j - (i - 1)] = s[j + 1]
        BY <1>3, <4>1
      <4>3. QED
        BY <1>1, <1>2, <2>2, <2>3, <3>2, <4>2
    <3>3. QED
      BY <3>1, <3>2
  <2>5. QED
    BY <2>1, <2>2, <2>3, <2>4
<1> HIDE DEF z
<1>5. \A j \in 1 .. Len(s) - 1 : \E n \in 1 .. Len(s) :
         n # i /\ z[j] = s[n] /\ n = IF j < i THEN j ELSE j + 1
  BY <1>1, <1>4
<1>6. ToSet(z) \subseteq ToSet(s) \ {s[i]}
  BY <1>1, <1>4, <1>5 DEF ToSet, NoDup
<1>7. NoDup(z)
  BY <1>1, <1>4, <1>5 DEF NoDup
<1>8. QED
  BY <1>6, <1>7 DEF z

\* Everything held is a message; the holders of the kinds but "task" are runs.
LEMMA HoldingType ==
    ASSUME Inv, NEW t \in Kind, NEW k \in Task
    PROVE  Holding(t, k) \subseteq Msg
<1>1. task[k] \in TaskType /\ (AtHand(k) => task[k].msg \in Msg)
      /\ ToSet(task[k].rest) \subseteq Msg
  <2>1. task[k].rest \in Seq(Msg)
    BY DEF Inv, TypeOK, TaskType
  <2>2. QED
    BY <2>1, LenProperties, ElementOfSeq DEF ToSet, Inv, TypeOK, Known, AtWork, AtHand
<1>2. ASSUME k \in Run
      PROVE  /\ ToSet(ledger[k]) \subseteq Msg /\ ToSet(run[k].orphans) \subseteq Msg
             /\ Prompt(k) \subseteq Msg
  <2>1. ledger[k] \in Seq(Msg) /\ run[k].orphans \in Seq(Msg)
    BY <1>2 DEF Inv, TypeOK, RunType
  <2>2. QED
    BY <1>2, <2>1, LenProperties, ElementOfSeq DEF ToSet, Inv, Known, Prompt
<1>3. QED
  BY <1>1, <1>2 DEF Holding, Hand

\* What a step does to the holders: the messages X go from one to another of
\* another kind, the rest may only be let go.  A message becomes a prompt by going
\* to its run, and comes back from one by a retry; the boundary that confirms it
\* takes it out of the ledger.
More(y, j, u, l, X) == IF y = u /\ j = l THEN X ELSE {}
Passes(t, k, u, l, X) ==
    /\ t # u /\ X \subseteq Holding(t, k) /\ Holding(t, k)' \cap X = {}
    /\ \A y \in Kind, j \in Task : Holding(y, j)' \subseteq
         Holding(y, j) \cup More(y, j, u, l, X)
    /\ \A m \in Msg : Prompted(m)' => Prompted(m) \/ (u = "prompt" /\ m \in X)
    /\ \A m \in confirmed' \ confirmed :
         /\ \E j \in Task : m \in Holding("ledger", j)
         /\ \A y \in Kind, j \in Task : m \notin Holding(y, j)'
    /\ t = "prompt" => \A m \in X : Retried(m)'
    /\ \A m \in Msg : At(m, "idle")' => At(m, "idle")

\* Such a step keeps each message with one holder.
LEMMA PassExclusive ==
    ASSUME Exclusive, NEW t \in Kind, NEW u \in Kind, NEW k \in Task, NEW l \in Task, NEW X,
           Passes(t, k, u, l, X)
    PROVE  Exclusive'
<1>1. ASSUME NEW y \in Kind, NEW z \in Kind, NEW i \in Task, NEW j \in Task, NEW m,
             m \in Holding(y, i)', m \in Holding(z, j)'
      PROVE  y = z /\ i = j
  <2>1. /\ m \in Holding(y, i) \/ (y = u /\ i = l /\ m \in X)
        /\ m \in Holding(z, j) \/ (z = u /\ j = l /\ m \in X)
    BY <1>1 DEF Passes, More
  <2>2. CASE m \in X
    <3>1. m \in Holding(t, k) /\ m \notin Holding(t, k)'
      BY <2>2 DEF Passes
    <3>2. \A v \in Kind, n \in Task : m \in Holding(v, n) => v = t /\ n = k
      BY <3>1 DEF Exclusive
    <3>3. QED
      BY <1>1, <2>1, <3>1, <3>2
  <2>3. CASE m \notin X
    BY <2>1, <2>3 DEF Exclusive
  <2>4. QED
    BY <2>2, <2>3
<1>2. QED
  BY <1>1 DEF Exclusive

\* It takes no message that was not sent, and gives none back that was spent.
LEMMA PassSpent ==
    ASSUME Inv, Exclusive, Unsent, Spent, NEW t \in Kind, NEW u \in Kind,
           NEW k \in Task, NEW l \in Task, NEW X, Passes(t, k, u, l, X),
           \A m \in Msg : Retried(m) => Retried(m)'
    PROVE  Unsent' /\ Spent'
<1>1. ASSUME NEW m \in Msg, At(m, "idle")'
      PROVE  /\ \A y \in Kind, j \in Task : m \notin Holding(y, j)'
             /\ ~Prompted(m)' /\ m \notin confirmed'
  <2>1. /\ \A y \in Kind, j \in Task : m \notin Holding(y, j)
        /\ ~Prompted(m) /\ m \notin confirmed
    BY <1>1 DEF Passes, Unsent
  <2>2. m \notin X
    BY <2>1 DEF Passes
  <2>3. m \notin confirmed'
    BY <2>1 DEF Passes, Kind
  <2>4. QED
    BY <2>1, <2>2, <2>3 DEF Passes, More
<1>2. ASSUME NEW m \in Msg, Prompted(m)' \/ m \in confirmed', ~Retried(m)',
             NEW y \in Kind \ {"prompt"}, NEW j \in Task, m \in Holding(y, j)'
      PROVE  FALSE
  <2>1. ~Retried(m)
    BY <1>2
  <2>2. m \in Holding(y, j) \/ (y = u /\ j = l /\ m \in X)
    BY <1>2 DEF Passes, More
  <2>3. CASE Prompted(m) \/ m \in confirmed
    <3>1. \A z \in Kind \ {"prompt"}, i \in Task : m \notin Holding(z, i)
      BY <2>1, <2>3 DEF Spent
    <3>2. m \in X
      BY <2>2, <3>1
    <3>3. t = "prompt"
      BY <3>1, <3>2 DEF Passes
    <3>4. QED
      BY <1>2, <3>2, <3>3 DEF Passes
  <2>4. CASE u = "prompt" /\ m \in X
    <3>1. m \in Holding(t, k) /\ m \notin Holding(t, k)' /\ m \in Holding(y, j)
      BY <2>2, <2>4 DEF Passes
    <3>2. y = t /\ j = k
      BY <3>1 DEF Exclusive
    <3>3. QED
      BY <1>2, <3>1, <3>2
  <2>5. CASE m \in confirmed' \ confirmed
    BY <1>2, <2>5 DEF Passes
  <2>6. QED
    BY <1>2, <2>3, <2>4, <2>5 DEF Passes
<1>3. QED
  BY <1>1, <1>2 DEF Unsent, Spent

Passed == \E t, u \in Kind, k, l \in Task, X \in SUBSET Msg : Passes(t, k, u, l, X)

\* A step by which nobody gets a message.
LEMMA QuietPass ==
    ASSUME \A y \in Kind, j \in Task : Holding(y, j)' \subseteq Holding(y, j),
           \A m \in Msg : Prompted(m)' => Prompted(m),
           \A m \in confirmed' \ confirmed :
              /\ \E j \in Task : m \in Holding("ledger", j)
              /\ \A y \in Kind, j \in Task : m \notin Holding(y, j)',
           \A m \in Msg : At(m, "idle")' => At(m, "idle")
    PROVE  Passed
<1>1. Passes("task", First, "ledger", First, {})
  BY DEF Passes, More
<1>2. First \in Task /\ {} \in SUBSET Msg
  BY MailboxAssumption DEF Task
<1>3. QED
  BY <1>1, <1>2 DEF Passed, Kind

\* The holders, kind by kind.
LEMMA HoldingParts ==
    ASSUME NEW u \in Kind, NEW l \in Task, NEW X,
           \A j \in Task : Hand(j)' \subseteq
              Hand(j) \cup More("task", j, u, l, X),
           \A j \in Run : ToSet(ledger'[j]) \subseteq
              ToSet(ledger[j]) \cup More("ledger", j, u, l, X),
           \A j \in Run : ToSet(run'[j].orphans) \subseteq
              ToSet(run[j].orphans) \cup More("exit", j, u, l, X),
           \A j \in Run : Prompt(j)' \subseteq
              Prompt(j) \cup More("prompt", j, u, l, X)
    PROVE  \A y \in Kind, j \in Task : Holding(y, j)' \subseteq
              Holding(y, j) \cup More(y, j, u, l, X)
<1> TAKE y \in Kind, j \in Task
<1>1. CASE y = "task"
  BY <1>1 DEF Holding, More
<1>2. CASE y # "task" /\ j \notin Run
  BY <1>2 DEF Holding, More
<1>3. CASE y = "ledger" /\ j \in Run
  BY <1>3 DEF Holding, More
<1>4. CASE y = "exit" /\ j \in Run
  BY <1>4 DEF Holding, More
<1>5. CASE y = "prompt" /\ j \in Run
  BY <1>5 DEF Holding, More
<1>6. QED
  BY <1>1, <1>2, <1>3, <1>4, <1>5 DEF Kind, More

\* What a task that moves still has in hand.
HandTo(k, S) ==
    /\ \A j \in Task \ {k} : task'[j] = task[j]
    /\ Hand(k)' \subseteq S
    /\ NoDup(task'[k].rest)
    /\ AtHand(k)' => task'[k].msg \notin ToSet(task'[k].rest)
    /\ task'[k].at # "idle"

LEMMA WaitHand ==
    ASSUME Inv, Distinct, NEW k \in Task, NEW pc \in {"check", "reclaim"}, Goto(k, pc)
    PROVE  HandTo(k, ToSet(task[k].rest))
<1>1. /\ \A x \in Task \ {k} : task'[x] = task[x]
      /\ task'[k].at = pc /\ task'[k].msg = task[k].msg
      /\ task'[k].rest = task[k].rest
  BY GotoDone
<1>2. QED
  BY <1>1 DEF HandTo, Hand, AtHand, Distinct

LEMMA BusyHand ==
    ASSUME Inv, Distinct, NEW k \in Task, task[k].msg \notin ToSet(task[k].rest),
           Goto(k, "interrupt") \/ Goto(k, "start") \/ Redispatch(k)
    PROVE  HandTo(k, ToSet(task[k].rest) \cup {task[k].msg})
<1>1. /\ \A x \in Task \ {k} : task'[x] = task[x]
      /\ task'[k].at \in {"interrupt", "start", "lookup"} /\ task'[k].msg = task[k].msg
      /\ task'[k].rest = task[k].rest
  BY GotoDone, RedispatchDone
<1>2. QED
  BY <1>1 DEF HandTo, Hand, AtHand, Distinct

LEMMA ReturnHand ==
    ASSUME Inv, Distinct, NEW k \in Task, Return(k)
    PROVE  HandTo(k, ToSet(task[k].rest))
<1>1. task[k].rest \in Seq(Msg) /\ NoDup(task[k].rest)
  BY DEF Inv, TypeOK, TaskType, Distinct
<1>2. ToSet(<<>>) = {} /\ NoDup(<<>>)
  BY DEF ToSet, NoDup
<1>3. CASE task[k].rest = <<>>
  BY <1>2, <1>3, ReturnDone DEF HandTo, Hand, AtHand
<1>4. CASE task[k].rest # <<>>
  <2>1. /\ \A x \in Task \ {k} : task'[x] = task[x]
        /\ task'[k].at = "lookup" /\ task'[k].msg = Head(task[k].rest)
        /\ task'[k].rest = Tail(task[k].rest)
    BY <1>4, ReturnDone
  <2>2. QED
    BY <1>1, <1>4, <2>1, FrontEntry DEF HandTo, Hand, AtHand
<1>5. QED
  BY <1>3, <1>4

\* What the tasks of others have does not change with one task.
LEMMA HandParts ==
    ASSUME NEW k \in Task, NEW S, HandTo(k, S), Distinct
    PROVE  /\ \A j \in Task : Hand(j)' \subseteq Hand(j) \cup (IF j = k THEN S ELSE {})
           /\ \A j \in Task : NoDup(task'[j].rest)
                /\ (AtHand(j)' => task'[j].msg \notin ToSet(task'[j].rest))
           /\ \A m \in Msg : At(m, "idle")' => At(m, "idle")
<1>1. \A j \in Task \ {k} : Hand(j)' = Hand(j) /\ (AtHand(j)' <=> AtHand(j))
  BY DEF HandTo, Hand, AtHand
<1>2. \A m \in Msg : m \in Task
  BY DEF Task
<1>3. QED
  BY <1>1, <1>2 DEF HandTo, Distinct, At

\* A run's next state prompts nobody anew.
LEMMA KeptParts ==
    ASSUME Inv, NEW r \in Run, NEW v \in RunType, Kept(r, v)
    PROVE  /\ run'[r] = v /\ \A j \in Run \ {r} : run'[j] = run[j]
           /\ \A j \in Run : Prompt(j)' \subseteq Prompt(j)
           /\ \A m \in Msg : Prompted(m)' => Prompted(m)
<1>1. run'[r] = v /\ \A j \in Run \ {r} : run'[j] = run[j]
  BY DEF Inv, TypeOK, Kept
<1>2. QED
  BY <1>1 DEF Kept, Prompt, Prompted

\* A startup retry is remembered.
LEMMA RetriedStep ==
    ASSUME Inv, RetriedIsOver, Next
    PROVE  RetriedIsOver' /\ \A m \in Msg : Retried(m) => Retried(m)'
<1>1. CASE UNCHANGED <<run, current>>
  BY <1>1 DEF RetriedIsOver, Retried
<1>2. ASSUME NEW r \in Run, NEW v \in RunType, Kept(r, v)
      PROVE  RetriedIsOver' /\ \A m \in Msg : Retried(m) => Retried(m)'
  <2>1. run'[r] = v /\ \A j \in Run \ {r} : run'[j] = run[j]
    BY <1>2, KeptParts
  <2>2. run[r].fate # "retried" /\ (v.fate = "retried" => v.at = "gone")
    BY <1>2 DEF Kept, RetriedIsOver
  <2>3. QED
    BY <2>1, <2>2 DEF RetriedIsOver, Retried
<1>3. ASSUME NEW r \in Run, Born(r)
      PROVE  RetriedIsOver' /\ \A m \in Msg : Retried(m) => Retried(m)'
  <2>1. PICK m \in Msg, retry \in BOOLEAN : run' = [run EXCEPT ![r] = Dispatched(m, retry)]
    BY <1>3 DEF Born
  <2>2. /\ run'[r] = Dispatched(m, retry) /\ \A j \in Run \ {r} : run'[j] = run[j]
        /\ Dispatched(m, retry).fate = "live"
    BY <2>1 DEF Inv, TypeOK, Dispatched, Unborn
  <2>3. run[r].fate # "retried"
    BY <1>3 DEF Born, RetriedIsOver
  <2>4. QED
    BY <2>2, <2>3 DEF RetriedIsOver, Retried
<1>4. QED
  BY <1>1, <1>2, <1>3, RunMoves

\* Steps that change no run and no ledger, and one task at most.
LEMMA TaskPass ==
    ASSUME Inv, Distinct, NEW k \in Task, NEW S, HandTo(k, S), S \subseteq Hand(k),
           UNCHANGED <<run, ledger, confirmed>>
    PROVE  Passed /\ Distinct'
<1>1. /\ \A j \in Task : Hand(j)' \subseteq Hand(j)
      /\ \A j \in Task : NoDup(task'[j].rest)
           /\ (AtHand(j)' => task'[j].msg \notin ToSet(task'[j].rest))
      /\ \A m \in Msg : At(m, "idle")' => At(m, "idle")
  BY HandParts
<1>2. \A y \in Kind, j \in Task : Holding(y, j)' \subseteq Holding(y, j)
  BY <1>1 DEF Holding, Prompt
<1>3. \A m \in Msg : Prompted(m)' => Prompted(m)
  BY DEF Prompted
<1>4. Passed
  BY <1>1, <1>2, <1>3, QuietPass
<1>5. QED
  BY <1>1, <1>4 DEF Distinct

LEMMA StillPass ==
    ASSUME Distinct, UNCHANGED <<run, ledger, confirmed, task>>
    PROVE  Passed /\ Distinct'
<1>1. \A y \in Kind, j \in Task : Holding(y, j)' \subseteq Holding(y, j)
  BY DEF Holding, Prompt, Hand, AtHand
<1>2. /\ \A m \in Msg : Prompted(m)' => Prompted(m)
      /\ \A m \in Msg : At(m, "idle")' => At(m, "idle")
  BY DEF Prompted, At
<1>3. QED
  BY <1>1, <1>2, QuietPass DEF Distinct, AtHand

\* A sender with its message in hand.
LEMMA InHandParts ==
    ASSUME Inv, Distinct, NEW k \in Task, AtHand(k)
    PROVE  /\ task[k].msg \in Msg /\ task[k].msg \notin ToSet(task[k].rest)
           /\ Hand(k) = ToSet(task[k].rest) \cup {task[k].msg}
BY DEF Hand, AtHand, Distinct, Inv, Known, AtWork

LEMMA LookupPass ==
    ASSUME Inv, Distinct, NEW k \in Task, lookup(k)
    PROVE  Passed /\ Distinct'
<1>1. AtHand(k) /\ UNCHANGED <<run, ledger, confirmed>>
  BY DEF lookup, At, AtHand, runVars
<1>2. HandTo(k, Hand(k))
  <2>1. CASE Redispatch(k) \/ Goto(k, "start")
    BY <1>1, <2>1, InHandParts, BusyHand
  <2>2. CASE task' = [task EXCEPT ![k].run = current,
                         ![k].at = IF can_route(k) THEN "post" ELSE "interrupt"]
    <3>1. PICK pc \in {"post", "interrupt"} :
             task' = [task EXCEPT ![k].run = current, ![k].at = pc]
      BY <2>2
    <3>2. /\ \A j \in Task \ {k} : task'[j] = task[j]
          /\ task'[k].at = pc /\ task'[k].msg = task[k].msg /\ task'[k].rest = task[k].rest
      BY <3>1 DEF Inv, TypeOK, TaskType
    <3>3. QED
      BY <1>1, <3>2 DEF HandTo, Hand, AtHand, Distinct
  <2>3. QED
    BY <2>1, <2>2 DEF lookup
<1>3. QED
  BY <1>1, <1>2, TaskPass

LEMMA CheckPass ==
    ASSUME Inv, Distinct, NEW k \in Task, check(k)
    PROVE  Passed /\ Distinct'
<1>1. UNCHANGED <<run, ledger, confirmed>> /\ (Return(k) \/ Goto(k, "reclaim"))
  BY DEF check, runVars
<1>2. HandTo(k, ToSet(task[k].rest)) /\ ToSet(task[k].rest) \subseteq Hand(k)
  BY <1>1, ReturnHand, WaitHand DEF Hand
<1>3. QED
  BY <1>1, <1>2, TaskPass

LEMMA SettlePass ==
    ASSUME Inv, Distinct, NEW k \in Task, settle(k)
    PROVE  Passed /\ Distinct'
<1>1. AtHand(k) /\ Goto(k, "start") /\ UNCHANGED <<run, ledger, confirmed>>
  BY DEF settle, At, AtHand, runVars
<1>2. HandTo(k, Hand(k))
  BY <1>1, InHandParts, BusyHand
<1>3. QED
  BY <1>1, <1>2, TaskPass

\* From the sender's hand into the ledger.
LEMMA PostPass ==
    ASSUME Inv, Exclusive, Distinct, NEW k \in Task, post(k)
    PROVE  Passed /\ Distinct'
<1> DEFINE r == task[k].run
           m == task[k].msg
<1>1. /\ AtHand(k) /\ r \in Run /\ r \in Task /\ UNCHANGED <<run, confirmed>>
      /\ ledger \in [Run -> Seq(Msg)]
  BY DEF post, At, AtHand, HasRun, Inv, Known, TypeOK, Task
<1>2. m \in Msg /\ m \notin ToSet(task[k].rest) /\ m \in Hand(k)
      /\ ToSet(task[k].rest) \subseteq Hand(k)
  BY <1>1, InHandParts
<1>3. CASE ledger' = ledger
  <2>1. Redispatch(k) \/ Goto(k, "interrupt") \/ Goto(k, "check")
    BY DEF post
  <2>2. CASE Goto(k, "check")
    BY <1>1, <1>2, <1>3, <2>2, WaitHand, TaskPass
  <2>3. CASE Redispatch(k) \/ Goto(k, "interrupt")
    <3>1. HandTo(k, Hand(k))
      BY <1>1, <2>3, InHandParts, BusyHand
    <3>2. QED
      BY <1>1, <1>3, <3>1, TaskPass
  <2>4. QED
    BY <2>1, <2>2, <2>3
<1>4. CASE ledger' = [ledger EXCEPT ![r] = Append(@, m)] /\ Goto(k, "check")
  <2>1. HandTo(k, ToSet(task[k].rest))
    BY <1>4, WaitHand
  <2>2. /\ \A j \in Task : Hand(j)' \subseteq Hand(j)
        /\ \A j \in Task : NoDup(task'[j].rest)
             /\ (AtHand(j)' => task'[j].msg \notin ToSet(task'[j].rest))
        /\ \A x \in Msg : At(x, "idle")' => At(x, "idle")
    BY <1>2, <2>1, HandParts
  <2>3. m \notin Hand(k)'
    BY <1>2, <2>1 DEF HandTo
  <2>4. m \in Holding("task", k) /\ m \notin Holding("task", k)'
    BY <1>2, <2>3 DEF Holding
  <2>5. m \notin ToSet(ledger[r])
    <3>1. m \in Holding("ledger", r) <=> m \in ToSet(ledger[r])
      BY <1>1 DEF Holding
    <3>2. QED
      BY <1>1, <2>4, <3>1 DEF Exclusive, Kind
  <2>6. /\ ToSet(ledger'[r]) = ToSet(ledger[r]) \cup {m} /\ NoDup(ledger'[r])
        /\ \A j \in Run \ {r} : ledger'[j] = ledger[j]
    BY <1>1, <1>2, <1>4, <2>5, AddEntry DEF Distinct
  <2>7. \A y \in Kind, j \in Task : Holding(y, j)' \subseteq
           Holding(y, j) \cup More(y, j, "ledger", r, {m})
    <3>1. \A j \in Task : Hand(j)' \subseteq
             Hand(j) \cup More("task", j, "ledger", r, {m})
      BY <2>2 DEF More
    <3>2. \A j \in Run : ToSet(ledger'[j]) \subseteq
             ToSet(ledger[j]) \cup More("ledger", j, "ledger", r, {m})
      BY <2>6 DEF More
    <3>3. \A j \in Run : ToSet(run'[j].orphans) \subseteq
             ToSet(run[j].orphans) \cup More("exit", j, "ledger", r, {m})
      BY <1>1 DEF More
    <3>4. \A j \in Run : Prompt(j)' \subseteq
             Prompt(j) \cup More("prompt", j, "ledger", r, {m})
      BY <1>1 DEF Prompt, More
    <3> HIDE DEF r, m
    <3>5. "ledger" \in Kind
      BY DEF Kind
    <3>6. QED
      BY <1>1, <3>1, <3>2, <3>3, <3>4, <3>5, HoldingParts
  <2>8. Passes("task", k, "ledger", r, {m})
    BY <1>1, <2>2, <2>4, <2>7 DEF Passes, Prompted
  <2>9. Distinct'
    BY <1>1, <2>2, <2>6 DEF Distinct
  <2>10. QED
    BY <1>1, <1>2, <2>8, <2>9 DEF Passed, Kind
<1>5. QED
  BY <1>3, <1>4 DEF post

LEMMA PartsPass ==
    ASSUME NEW t \in Kind, NEW u \in Kind, NEW k \in Task, NEW l \in Task,
           NEW X \in SUBSET Msg,
           t # u, X \subseteq Holding(t, k), Holding(t, k)' \cap X = {},
           \A j \in Task : Hand(j)' \subseteq Hand(j) \cup More("task", j, u, l, X),
           \A j \in Run : ToSet(ledger'[j]) \subseteq
              ToSet(ledger[j]) \cup More("ledger", j, u, l, X),
           \A j \in Run : ToSet(run'[j].orphans) \subseteq
              ToSet(run[j].orphans) \cup More("exit", j, u, l, X),
           \A j \in Run : Prompt(j)' \subseteq Prompt(j) \cup More("prompt", j, u, l, X),
           \A m \in Msg : Prompted(m)' => Prompted(m) \/ (u = "prompt" /\ m \in X),
           UNCHANGED confirmed,
           t = "prompt" => \A m \in X : Retried(m)',
           \A m \in Msg : At(m, "idle")' => At(m, "idle")
    PROVE  Passes(t, k, u, l, X)
<1>1. \A y \in Kind, j \in Task :
         Holding(y, j)' \subseteq Holding(y, j) \cup More(y, j, u, l, X)
  BY HoldingParts
<1>2. QED
  BY <1>1 DEF Passes

\* And back, if the entry was still there.
LEMMA ReclaimPass ==
    ASSUME Inv, Exclusive, Distinct, NEW k \in Task, reclaim(k)
    PROVE  Passed /\ Distinct'
<1>0. PICK r \in Run, m \in Msg : r = task[k].run /\ m = task[k].msg
  BY DEF reclaim, At, AtWork, HasRun, Inv, Known
<1>1. /\ r \in Run /\ r \in Task /\ m \in Msg /\ UNCHANGED <<run, confirmed>>
      /\ ledger \in [Run -> Seq(Msg)] /\ ~AtHand(k) /\ Hand(k) = ToSet(task[k].rest)
  BY DEF reclaim, At, AtHand, Hand, AtWork, HasRun, Inv, Known, TypeOK, Task
<1>2. CASE Return(k) /\ ledger' = ledger
  BY <1>1, <1>2, ReturnHand, TaskPass
<1>3. ASSUME NEW i \in DOMAIN ledger[r], ledger[r][i] = m,
             ledger' = [ledger EXCEPT ![r] = RemoveAt(@, i)],
             Redispatch(k) \/ Goto(k, "interrupt")
      PROVE  Passed /\ Distinct'
  <2>1. ledger[r] \in Seq(Msg) /\ NoDup(ledger[r]) /\ i \in 1 .. Len(ledger[r])
        /\ m \in ToSet(ledger[r])
    BY <1>1, <1>3, LenProperties DEF Distinct, ToSet
  <2>2. /\ ToSet(ledger'[r]) \subseteq ToSet(ledger[r]) \ {m} /\ NoDup(ledger'[r])
        /\ \A j \in Run \ {r} : ledger'[j] = ledger[j]
    BY <1>1, <1>3, <2>1, DropEntry
  <2>3. m \in Holding("ledger", r) /\ m \notin Holding("ledger", r)'
    BY <1>1, <2>1, <2>2 DEF Holding
  <2>4. m \notin ToSet(task[k].rest)
    <3>1. Holding("task", k) = ToSet(task[k].rest)
      BY <1>1 DEF Holding
    <3>2. QED
      BY <1>1, <2>3, <3>1 DEF Exclusive, Kind
  <2>5. HandTo(k, ToSet(task[k].rest) \cup {m})
    BY <1>0, <1>3, <2>4, BusyHand
  <2>6. /\ \A j \in Task : Hand(j)' \subseteq Hand(j) \cup
             (IF j = k THEN ToSet(task[k].rest) \cup {m} ELSE {})
        /\ \A j \in Task : NoDup(task'[j].rest)
             /\ (AtHand(j)' => task'[j].msg \notin ToSet(task'[j].rest))
        /\ \A x \in Msg : At(x, "idle")' => At(x, "idle")
    BY <2>5, HandParts
  <2>7. \A j \in Task : Hand(j)' \subseteq Hand(j) \cup More("task", j, "task", k, {m})
    BY <1>1, <2>6 DEF More
  <2>8. \A j \in Run : ToSet(ledger'[j]) \subseteq
           ToSet(ledger[j]) \cup More("ledger", j, "task", k, {m})
    BY <2>2
  <2>9. /\ \A j \in Run : ToSet(run'[j].orphans) \subseteq
              ToSet(run[j].orphans) \cup More("exit", j, "task", k, {m})
        /\ \A j \in Run : Prompt(j)' \subseteq
              Prompt(j) \cup More("prompt", j, "task", k, {m})
        /\ \A x \in Msg : Prompted(x)' => Prompted(x)
    BY <1>1 DEF Prompt, Prompted
  <2>10. Distinct'
    BY <1>1, <2>2, <2>6 DEF Distinct
  <2>11. {"task", "ledger"} \subseteq Kind /\ {m} \in SUBSET Msg
         /\ {m} \subseteq Holding("ledger", r) /\ Holding("ledger", r)' \cap {m} = {}
    BY <1>1, <2>3 DEF Kind
  <2>12. Passes("ledger", r, "task", k, {m})
    BY <1>1, <2>6, <2>7, <2>8, <2>9, <2>11, PartsPass
  <2>13. QED
    BY <1>1, <2>10, <2>11, <2>12 DEF Passed
<1>4. QED
  BY <1>0, <1>2, <1>3 DEF reclaim

\* Nothing changes but the runs, and of them neither prompts nor orphans.
LEMMA RunPass ==
    ASSUME Inv, Distinct, NEW r \in Run, NEW v \in RunType, Kept(r, v),
           v.orphans = run[r].orphans, UNCHANGED <<ledger, confirmed>>,
           \A j \in Task : Hand(j)' \subseteq Hand(j),
           \A j \in Task : NoDup(task'[j].rest)
             /\ (AtHand(j)' => task'[j].msg \notin ToSet(task'[j].rest)),
           \A m \in Msg : At(m, "idle")' => At(m, "idle")
    PROVE  Passed /\ Distinct'
<1>1. /\ run'[r] = v /\ \A j \in Run \ {r} : run'[j] = run[j]
      /\ \A j \in Run : Prompt(j)' \subseteq Prompt(j)
      /\ \A m \in Msg : Prompted(m)' => Prompted(m)
  BY KeptParts
<1>2. \A y \in Kind, j \in Task : Holding(y, j)' \subseteq Holding(y, j)
  BY <1>1 DEF Holding
<1>3. Passed
  BY <1>1, <1>2, QuietPass
<1>4. QED
  BY <1>1, <1>3 DEF Distinct

LEMMA CancelPass ==
    ASSUME Inv, Distinct, current # None, run' = Cancelled(current), current' = current,
           UNCHANGED <<ledger, confirmed>>,
           \A j \in Task : Hand(j)' \subseteq Hand(j),
           \A j \in Task : NoDup(task'[j].rest)
             /\ (AtHand(j)' => task'[j].msg \notin ToSet(task'[j].rest)),
           \A m \in Msg : At(m, "idle")' => At(m, "idle")
    PROVE  Passed /\ Distinct'
<1> DEFINE v == [run[current] EXCEPT !.cancel = TRUE]
<1>1. /\ current \in Run /\ run[current] \in RunType
      /\ run[current].at \in {"starting", "driving", "claimed"}
  BY DEF Inv, TypeOK
<1>2. /\ v \in RunType /\ v.at = run[current].at /\ v.msg = run[current].msg
      /\ v.fate = run[current].fate /\ v.orphans = run[current].orphans
  BY <1>1 DEF RunType
<1>3. run' = [run EXCEPT ![current] = v]
  BY DEF Cancelled, Inv, TypeOK
<1> HIDE DEF v
<1>4. Kept(current, v)
  BY <1>1, <1>2, <1>3 DEF Kept
<1>5. QED
  BY <1>1, <1>2, <1>4, RunPass

LEMMA InterruptPass ==
    ASSUME Inv, Distinct, NEW k \in Task, interrupt(k)
    PROVE  Passed /\ Distinct'
<1>1. AtHand(k) /\ UNCHANGED <<current, ledger, confirmed>>
  BY DEF interrupt, At, AtHand
<1>2. CASE current = None
  <2>1. Goto(k, "start") /\ UNCHANGED run
    BY <1>2 DEF interrupt
  <2>2. HandTo(k, Hand(k))
    BY <1>1, <2>1, InHandParts, BusyHand
  <2>3. QED
    BY <1>1, <2>1, <2>2, TaskPass
<1>3. CASE current # None
  <2>1. /\ run' = Cancelled(current)
        /\ task' = [task EXCEPT ![k].at = "settle", ![k].run = current]
    BY <1>3 DEF interrupt
  <2>2. /\ \A j \in Task \ {k} : task'[j] = task[j]
        /\ task'[k].at = "settle" /\ task'[k].msg = task[k].msg /\ task'[k].rest = task[k].rest
    BY <2>1 DEF Inv, TypeOK, TaskType
  <2>3. HandTo(k, Hand(k))
    BY <1>1, <2>2 DEF HandTo, Hand, AtHand, Distinct
  <2>4. /\ \A j \in Task : Hand(j)' \subseteq Hand(j)
        /\ \A j \in Task : NoDup(task'[j].rest)
             /\ (AtHand(j)' => task'[j].msg \notin ToSet(task'[j].rest))
        /\ \A m \in Msg : At(m, "idle")' => At(m, "idle")
    BY <2>3, HandParts
  <2>5. QED
    BY <1>1, <1>3, <2>1, <2>4, CancelPass
<1>4. QED
  BY <1>2, <1>3

\* A task that stands still.
LEMMA StillHands ==
    ASSUME Distinct, UNCHANGED task
    PROVE  /\ \A j \in Task : Hand(j)' \subseteq Hand(j)
           /\ \A j \in Task : NoDup(task'[j].rest)
                /\ (AtHand(j)' => task'[j].msg \notin ToSet(task'[j].rest))
           /\ \A m \in Msg : At(m, "idle")' => At(m, "idle")
BY DEF Hand, AtHand, At, Distinct

LEMMA UserInterruptPass ==
    ASSUME Inv, Distinct, user_interrupt
    PROVE  Passed /\ Distinct'
BY StillHands, CancelPass DEF user_interrupt

\* From the sender's hand to a new run, as its prompt.
LEMMA StartPass ==
    ASSUME Inv, Exclusive, Distinct, NEW k \in Task, start(k)
    PROVE  Passed /\ Distinct'
<1>0. PICK m \in Msg : m = task[k].msg
  BY DEF start, At, AtWork, Inv, Known
<1>1. /\ AtHand(k) /\ m \notin ToSet(task[k].rest) /\ m \in Hand(k)
      /\ ToSet(task[k].rest) \subseteq Hand(k)
      /\ UNCHANGED <<ledger, confirmed>> /\ Return(k)
  <2>1. AtHand(k)
    BY DEF start, At, AtHand
  <2>2. QED
    BY <1>0, <2>1, InHandParts DEF start
<1>2. PICK r \in Run : /\ run[r].at = "unborn"
                       /\ run' = [run EXCEPT ![r] = Dispatched(m, task[k].retry)]
  BY <1>0 DEF start
<1>3. /\ \A j \in Run \ {r} : run'[j] = run[j]
      /\ run'[r].at = "starting" /\ run'[r].msg = m /\ run'[r].orphans = <<>>
  BY <1>2 DEF Inv, TypeOK, Dispatched, Unborn
<1>4. HandTo(k, ToSet(task[k].rest))
  BY <1>1, ReturnHand
<1>5. /\ \A j \in Task : Hand(j)' \subseteq Hand(j)
      /\ \A j \in Task : NoDup(task'[j].rest)
           /\ (AtHand(j)' => task'[j].msg \notin ToSet(task'[j].rest))
      /\ \A x \in Msg : At(x, "idle")' => At(x, "idle")
      /\ m \notin Hand(k)'
  <2>1. m \notin Hand(k)'
    BY <1>1, <1>4 DEF HandTo
  <2>2. QED
    BY <1>1, <1>4, <2>1, HandParts
<1>6. ToSet(<<>>) = {} /\ NoDup(<<>>)
  BY DEF ToSet, NoDup
<1>7. /\ \A j \in Task : Hand(j)' \subseteq Hand(j) \cup More("task", j, "prompt", r, {m})
      /\ \A j \in Run : ToSet(ledger'[j]) \subseteq
            ToSet(ledger[j]) \cup More("ledger", j, "prompt", r, {m})
      /\ \A j \in Run : ToSet(run'[j].orphans) \subseteq
            ToSet(run[j].orphans) \cup More("exit", j, "prompt", r, {m})
  BY <1>1, <1>3, <1>5, <1>6
<1>8. \A j \in Run : Prompt(j)' \subseteq Prompt(j) \cup More("prompt", j, "prompt", r, {m})
  BY <1>3 DEF Prompt, More
<1>9. \A x \in Msg : Prompted(x)' => Prompted(x) \/ x \in {m}
  BY <1>3 DEF Prompted
<1>10. /\ {"task", "prompt"} \subseteq Kind /\ {m} \in SUBSET Msg /\ r \in Task
       /\ {m} \subseteq Holding("task", k) /\ Holding("task", k)' \cap {m} = {}
  BY <1>1, <1>5 DEF Kind, Task, Holding
<1>11. Passes("task", k, "prompt", r, {m})
  BY <1>1, <1>5, <1>7, <1>8, <1>9, <1>10, PartsPass
<1>12. Distinct'
  BY <1>1, <1>3, <1>5, <1>6 DEF Distinct
<1>13. QED
  BY <1>10, <1>11, <1>12 DEF Passed

LEMMA AgentPass ==
    ASSUME Distinct, NEW r \in Run,
           AgentStep(r) \/ AgentFailsTurn(r) \/ AgentDies(r) \/ AgentObeys(r)
    PROVE  Passed /\ Distinct'
<1>1. UNCHANGED <<run, ledger, confirmed, task>>
  BY DEF AgentStep, AgentStarts, AgentTakes, AgentEndsTurn, AgentFailsTurn, AgentDies,
         AgentObeys, AgentStops
<1>2. QED
  BY <1>1, StillPass

\* The run's exit claims what the ledger holds.
LEMMA LeavePass ==
    ASSUME Inv, Exclusive, Distinct, NEW r \in Run, Driven(r), Leave(r)
    PROVE  Passed /\ Distinct'
<1>0. PICK O \in Seq(Msg) : O = (IF current = r THEN ledger[r] ELSE <<>>)
  BY EmptySeq DEF Inv, TypeOK
<1> DEFINE fate == IF interrupted(r) THEN "cancelled" ELSE "ended"
           v == [run[r] EXCEPT !.at = "claimed", !.orphans = O,
                           !.owed = ledger[r], !.fate = fate]
<1>1. /\ run \in [Run -> RunType] /\ ledger \in [Run -> Seq(Msg)]
      /\ UNCHANGED <<task, confirmed>> /\ r \in Task
      /\ run' = [run EXCEPT ![r] = v]
  BY <1>0 DEF Inv, TypeOK, Leave, Task
<1>2. /\ v.at = "claimed" /\ v.orphans = O /\ v.msg = run[r].msg
  BY <1>1 DEF RunType
<1> HIDE DEF v
<1>3. run'[r] = v /\ \A j \in Run \ {r} : run'[j] = run[j]
  BY <1>1
<1>4. ToSet(<<>>) = {} /\ NoDup(<<>>)
  BY DEF ToSet, NoDup
<1>5. /\ \A j \in Run \ {r} : ledger'[j] = ledger[j]
      /\ ledger'[r] = (IF current = r THEN <<>> ELSE ledger[r])
  BY <1>1 DEF Leave, Take
<1>6. /\ \A j \in Task : Hand(j)' \subseteq Hand(j)
      /\ \A j \in Task : NoDup(task'[j].rest)
           /\ (AtHand(j)' => task'[j].msg \notin ToSet(task'[j].rest))
      /\ \A x \in Msg : At(x, "idle")' => At(x, "idle")
  BY <1>1, StillHands
<1>7. ToSet(O) \subseteq ToSet(ledger[r]) /\ NoDup(O)
      /\ ToSet(ledger'[r]) \cap ToSet(O) = {} /\ ToSet(ledger'[r]) \subseteq ToSet(ledger[r])
      /\ NoDup(ledger'[r])
  <2>1. CASE current = r
    BY <1>0, <1>4, <1>5, <2>1 DEF Distinct
  <2>2. CASE current # r
    BY <1>0, <1>4, <1>5, <2>2 DEF Distinct
  <2>3. QED
    BY <2>1, <2>2
<1>8. /\ \A j \in Task : Hand(j)' \subseteq Hand(j) \cup More("task", j, "exit", r, ToSet(O))
      /\ \A j \in Run : ToSet(ledger'[j]) \subseteq
            ToSet(ledger[j]) \cup More("ledger", j, "exit", r, ToSet(O))
  BY <1>5, <1>6, <1>7
<1>9. \A j \in Run : ToSet(run'[j].orphans) \subseteq
            ToSet(run[j].orphans) \cup More("exit", j, "exit", r, ToSet(O))
  BY <1>2, <1>3 DEF More
<1>10. /\ \A j \in Run : Prompt(j)' \subseteq Prompt(j) \cup More("prompt", j, "exit", r, ToSet(O))
       /\ \A x \in Msg : Prompted(x)' => Prompted(x)
  BY <1>2, <1>3 DEF Prompt, Prompted
<1>11. /\ ToSet(O) \subseteq Holding("ledger", r) /\ Holding("ledger", r)' \cap ToSet(O) = {}
       /\ {"exit", "ledger"} \subseteq Kind
  BY <1>7 DEF Holding, Kind
<1>12. ToSet(O) \in SUBSET Msg
  BY <1>1, <1>11, HoldingType DEF Kind
<1>13. Passes("ledger", r, "exit", r, ToSet(O))
  BY <1>1, <1>6, <1>8, <1>9, <1>10, <1>11, <1>12, PartsPass
<1>14. Distinct'
  BY <1>2, <1>3, <1>5, <1>6, <1>7 DEF Distinct
<1>15. QED
  BY <1>1, <1>11, <1>12, <1>13, <1>14 DEF Passed

\* A boundary takes the message it confirms out of the ledger.
LEMMA OnSteeredPass ==
    ASSUME Inv, LedgerInv, Exclusive, Distinct, NEW r \in Run, OnSteered(r)
    PROVE  Passed /\ Distinct'
<1> DEFINE v == [run[r] EXCEPT !.parked = FALSE]
<1>1. /\ run \in [Run -> RunType] /\ ledger \in [Run -> Seq(Msg)] /\ r \in Task
      /\ out[r] # <<>> /\ Head(out[r]).t = "steered" /\ run[r].at = "driving"
      /\ UNCHANGED <<current, task>>
  BY DEF OnSteered, Reads, Driven, Inv, TypeOK, Task
<1>2. /\ v \in RunType /\ v.at = run[r].at /\ v.msg = run[r].msg
      /\ v.fate = run[r].fate /\ v.orphans = run[r].orphans
  BY <1>1 DEF RunType
<1>3. run' = [run EXCEPT ![r] = v]
  BY DEF OnSteered
<1> HIDE DEF v
<1>4. Kept(r, v)
  BY <1>1, <1>2, <1>3 DEF Kept
<1>5. /\ \A j \in Task : Hand(j)' \subseteq Hand(j)
      /\ \A j \in Task : NoDup(task'[j].rest)
           /\ (AtHand(j)' => task'[j].msg \notin ToSet(task'[j].rest))
      /\ \A x \in Msg : At(x, "idle")' => At(x, "idle")
  BY <1>1, StillHands
<1>6. CASE UNCHANGED <<ledger, confirmed>>
  BY <1>2, <1>4, <1>5, <1>6, RunPass
<1>7. CASE /\ current = r /\ ledger[r] # <<>>
           /\ ledger' = [ledger EXCEPT ![r] = Tail(@)]
           /\ confirmed' = confirmed \cup {Head(out[r]).msg}
  <2>1. PICK m : m = Head(ledger[r])
    OBVIOUS
  <2>2. m = Head(out[r]).msg
    <3>1. Unconfirmed(ledger[r], out[r], box[r])
      BY <1>1, <1>7 DEF LedgerInv, LedgerIsUnconfirmed, Routable
    <3>2. out[r] \in Seq(EventType) /\ box[r] \in Seq(Msg) /\ ledger[r] \in Seq(Msg)
      BY DEF Inv, TypeOK
    <3>3. QED
      BY <1>1, <2>1, <3>1, <3>2, ConfirmedUnconfirmed
  <2>3. /\ \A j \in Run \ {r} : ledger'[j] = ledger[j]
        /\ m \in ToSet(ledger[r]) /\ ToSet(ledger'[r]) \subseteq ToSet(ledger[r])
        /\ m \notin ToSet(ledger'[r]) /\ NoDup(ledger'[r])
    BY <1>1, <1>7, <2>1, FrontEntry DEF Distinct
  <2>4. /\ run'[r] = v /\ \A j \in Run \ {r} : run'[j] = run[j]
        /\ \A j \in Run : Prompt(j)' \subseteq Prompt(j)
        /\ \A x \in Msg : Prompted(x)' => Prompted(x)
    BY <1>2, <1>4, KeptParts
  <2>5. \A y \in Kind, j \in Task : Holding(y, j)' \subseteq Holding(y, j)
    BY <1>2, <1>5, <2>3, <2>4 DEF Holding
  <2>6. m \in Holding("ledger", r) /\ m \notin Holding("ledger", r)'
    BY <2>3 DEF Holding
  <2>7. \A y \in Kind, j \in Task : m \notin Holding(y, j)'
    BY <1>1, <2>5, <2>6 DEF Exclusive, Kind
  <2>8. \A x \in confirmed' \ confirmed : x = m
    BY <1>7, <2>2
  <2>9. Passed
    BY <1>1, <1>5, <2>4, <2>5, <2>6, <2>7, <2>8, QuietPass
  <2>10. Distinct'
    BY <1>2, <1>5, <2>3, <2>4 DEF Distinct
  <2>11. QED
    BY <2>9, <2>10
<1>8. QED
  BY <1>6, <1>7 DEF OnSteered, Retire

\* The steps of a run that end nothing, or end it before it read its ledger.
LEMMA StartPasses ==
    ASSUME Inv, Distinct, NEW r \in Run, StartFails(r) \/ StartReturns(r)
    PROVE  Passed /\ Distinct'
<1>1. run[r] \in RunType /\ UNCHANGED <<ledger, confirmed, task>>
  BY DEF Inv, TypeOK, StartFails, StartReturns
<1>2. /\ \A j \in Task : Hand(j)' \subseteq Hand(j)
      /\ \A j \in Task : NoDup(task'[j].rest)
           /\ (AtHand(j)' => task'[j].msg \notin ToSet(task'[j].rest))
      /\ \A m \in Msg : At(m, "idle")' => At(m, "idle")
  BY <1>1, StillHands
<1>3. CASE StartFails(r)
  <2> DEFINE v == [Gone(r) EXCEPT !.fate = "failed"]
  <2>1. /\ v \in RunType /\ v.at = "gone" /\ v.msg = run[r].msg /\ v.fate = "failed"
        /\ v.orphans = run[r].orphans
    BY GoneType DEF RunType
  <2>2. run' = [run EXCEPT ![r] = v] /\ current' \in {current, None} /\ run[r].at = "starting"
    BY <1>3 DEF StartFails, remove_run
  <2> HIDE DEF v
  <2>3. Kept(r, v)
    BY <2>1, <2>2 DEF Kept
  <2>4. QED
    BY <1>1, <1>2, <2>1, <2>3, RunPass
<1>4. CASE StartReturns(r)
  <2> DEFINE v == [run[r] EXCEPT !.at = "driving"]
  <2>1. /\ v \in RunType /\ v.at = "driving" /\ v.msg = run[r].msg /\ v.fate = run[r].fate
        /\ v.orphans = run[r].orphans
    BY <1>1 DEF RunType
  <2>2. run' = [run EXCEPT ![r] = v] /\ current' = current /\ run[r].at = "starting"
    BY <1>4 DEF StartReturns
  <2> HIDE DEF v
  <2>3. Kept(r, v)
    BY <2>1, <2>2 DEF Kept
  <2>4. QED
    BY <1>1, <1>2, <2>1, <2>3, RunPass
<1>5. QED
  BY <1>3, <1>4

LEMMA OnDonePass ==
    ASSUME Inv, Exclusive, Distinct, NEW r \in Run, OnDone(r)
    PROVE  Passed /\ Distinct'
<1>1. CASE Leave(r)
  BY <1>1, LeavePass DEF OnDone, Reads
<1>2. CASE run' = [run EXCEPT ![r].parked = TRUE] /\ UNCHANGED <<current, ledger, task, confirmed>>
  <2> DEFINE v == [run[r] EXCEPT !.parked = TRUE]
  <2>1. run[r] \in RunType /\ run[r].at = "driving"
    BY DEF Inv, TypeOK, OnDone, Reads, Driven
  <2>2. /\ v \in RunType /\ v.at = run[r].at /\ v.msg = run[r].msg /\ v.fate = run[r].fate
        /\ v.orphans = run[r].orphans
    BY <2>1 DEF RunType
  <2>3. run' = [run EXCEPT ![r] = v]
    BY <1>2
  <2> HIDE DEF v
  <2>4. Kept(r, v)
    BY <1>2, <2>1, <2>2, <2>3 DEF Kept
  <2>5. /\ \A j \in Task : Hand(j)' \subseteq Hand(j)
        /\ \A j \in Task : NoDup(task'[j].rest)
             /\ (AtHand(j)' => task'[j].msg \notin ToSet(task'[j].rest))
        /\ \A m \in Msg : At(m, "idle")' => At(m, "idle")
    BY <1>2, StillHands
  <2>6. QED
    BY <1>2, <2>2, <2>4, <2>5, RunPass
<1>3. QED
  BY <1>1, <1>2 DEF OnDone

\* A task slot of a run's, filled.
LEMMA FillHand ==
    ASSUME Inv, Distinct, NEW k \in Task, NEW w, task' = [task EXCEPT ![k] = w],
           w.at = "lookup", NoDup(w.rest), w.msg \notin ToSet(w.rest)
    PROVE  HandTo(k, {w.msg} \cup ToSet(w.rest))
<1>1. task'[k] = w /\ \A j \in Task \ {k} : task'[j] = task[j]
  BY DEF Inv, TypeOK
<1>2. QED
  BY <1>1 DEF HandTo, Hand, AtHand

\* From the run that was to answer it to that run's task.
LEMMA StartupRetryPass ==
    ASSUME Inv, Exclusive, Distinct, NEW r \in Run, StartupRetry(r)
    PROVE  Passed /\ Distinct'
<1>0. PICK m \in Msg : m = run[r].msg
  BY DEF StartupRetry, Reads, Driven, Inv, Known
<1> DEFINE v == [Gone(r) EXCEPT !.fate = "retried"]
<1>1. /\ v.at = "gone" /\ v.msg = m /\ v.fate = "retried" /\ v.orphans = run[r].orphans
      /\ run[r].at = "driving" /\ run \in [Run -> RunType] /\ r \in Task
      /\ run' = [run EXCEPT ![r] = v] /\ UNCHANGED <<ledger, confirmed>>
  BY <1>0, GoneType DEF RunType, StartupRetry, Reads, Driven, Inv, TypeOK, Task
<1> HIDE DEF v
<1>2. run'[r] = v /\ \A j \in Run \ {r} : run'[j] = run[j]
  BY <1>1
<1>3. ToSet(<<>>) = {} /\ NoDup(<<>>)
  BY DEF ToSet, NoDup
<1>4. HandTo(r, {m})
  <2>1. PICK rich \in BOOLEAN :
          task' = [task EXCEPT ![r] = [NoTask EXCEPT !.at = "lookup", !.rich = rich,
                                          !.msg = m, !.retry = TRUE]]
    BY <1>0 DEF StartupRetry
  <2> DEFINE w == [NoTask EXCEPT !.at = "lookup", !.rich = rich, !.msg = m, !.retry = TRUE]
  <2>2. w.at = "lookup" /\ w.msg = m /\ w.rest = <<>> /\ task' = [task EXCEPT ![r] = w]
    BY <2>1 DEF NoTask
  <2> HIDE DEF w
  <2>3. NoDup(w.rest) /\ w.msg \notin ToSet(w.rest) /\ {w.msg} \cup ToSet(w.rest) = {m}
    BY <1>3, <2>2
  <2>4. QED
    BY <1>1, <2>2, <2>3, FillHand
<1>5. /\ \A j \in Task : Hand(j)' \subseteq Hand(j) \cup (IF j = r THEN {m} ELSE {})
      /\ \A j \in Task : NoDup(task'[j].rest)
           /\ (AtHand(j)' => task'[j].msg \notin ToSet(task'[j].rest))
      /\ \A x \in Msg : At(x, "idle")' => At(x, "idle")
  BY <1>1, <1>4, HandParts
<1>6. /\ \A j \in Task : Hand(j)' \subseteq Hand(j) \cup More("task", j, "task", r, {m})
      /\ \A j \in Run : ToSet(ledger'[j]) \subseteq
            ToSet(ledger[j]) \cup More("ledger", j, "task", r, {m})
      /\ \A j \in Run : ToSet(run'[j].orphans) \subseteq
            ToSet(run[j].orphans) \cup More("exit", j, "task", r, {m})
  BY <1>1, <1>2, <1>5 DEF More
<1>7. /\ \A j \in Run : Prompt(j)' \subseteq Prompt(j) \cup More("prompt", j, "task", r, {m})
      /\ \A x \in Msg : Prompted(x)' => Prompted(x)
      /\ m \in Prompt(r) /\ m \notin Prompt(r)' /\ Retried(m)'
  BY <1>0, <1>1, <1>2 DEF Prompt, Prompted, Retried
<1>8. /\ {"task", "prompt"} \subseteq Kind /\ {m} \in SUBSET Msg
      /\ {m} \subseteq Holding("prompt", r) /\ Holding("prompt", r)' \cap {m} = {}
  BY <1>7 DEF Kind, Holding
<1>9. Passes("prompt", r, "task", r, {m})
  BY <1>1, <1>5, <1>6, <1>7, <1>8, PartsPass
<1>10. Distinct'
  BY <1>1, <1>2, <1>5 DEF Distinct
<1>11. QED
  BY <1>1, <1>8, <1>9, <1>10 DEF Passed

\* From a run's exit to its task.
LEMMA ExitPass ==
    ASSUME Inv, Exclusive, Distinct, NEW r \in Run, Exit(r)
    PROVE  Passed /\ Distinct'
<1>1. /\ run \in [Run -> RunType] /\ run[r].at = "claimed" /\ r \in Task
      /\ UNCHANGED <<ledger, confirmed>> /\ current' \in {current, None}
  BY DEF Exit, remove_run, Inv, TypeOK, Task
<1>2. CASE ~LeavesWork(r)
  <2>1. run' = [run EXCEPT ![r] = Gone(r)] /\ UNCHANGED task
    BY <1>2 DEF Exit
  <2>2. /\ \A j \in Task : Hand(j)' \subseteq Hand(j)
        /\ \A j \in Task : NoDup(task'[j].rest)
             /\ (AtHand(j)' => task'[j].msg \notin ToSet(task'[j].rest))
        /\ \A m \in Msg : At(m, "idle")' => At(m, "idle")
    BY <2>1, StillHands
  <2>3. /\ Gone(r) \in RunType /\ Gone(r).at = "gone" /\ Gone(r).msg = run[r].msg
        /\ Gone(r).orphans = run[r].orphans
    BY GoneType
  <2>4. Kept(r, Gone(r))
    BY <1>1, <2>1, <2>3 DEF Kept
  <2>5. QED
    BY <1>1, <2>2, <2>3, <2>4, RunPass
<1>3. CASE LeavesWork(r)
  <2>0. PICK O \in Seq(Msg) : O = run[r].orphans /\ O # <<>>
    BY <1>1, <1>3 DEF RunType, LeavesWork
  <2> DEFINE v == [Gone(r) EXCEPT !.orphans = <<>>]
  <2>1. /\ v.at = "gone" /\ v.msg = run[r].msg /\ v.orphans = <<>>
        /\ run' = [run EXCEPT ![r] = v]
    BY <1>3, GoneType DEF RunType, Exit
  <2> HIDE DEF v
  <2>2. run'[r] = v /\ \A j \in Run \ {r} : run'[j] = run[j]
    BY <1>1, <2>1
  <2>3. ToSet(<<>>) = {} /\ NoDup(<<>>)
    BY DEF ToSet, NoDup
  <2>4. /\ ToSet(O) = {Head(O)} \cup ToSet(Tail(O))
        /\ NoDup(Tail(O)) /\ Head(O) \notin ToSet(Tail(O))
    BY <2>0, FrontEntry DEF Distinct
  <2>5. HandTo(r, ToSet(O))
    <3> DEFINE w == [NoTask EXCEPT !.at = "lookup", !.msg = Head(O), !.rest = Tail(O)]
    <3>1. w.at = "lookup" /\ w.msg = Head(O) /\ w.rest = Tail(O)
      BY DEF NoTask
    <3>2. task' = [task EXCEPT ![r] = w]
      BY <1>3, <2>0 DEF Exit
    <3> HIDE DEF w
    <3>3. QED
      BY <1>1, <2>4, <3>1, <3>2, FillHand
  <2>6. /\ \A j \in Task : Hand(j)' \subseteq Hand(j) \cup (IF j = r THEN ToSet(O) ELSE {})
        /\ \A j \in Task : NoDup(task'[j].rest)
             /\ (AtHand(j)' => task'[j].msg \notin ToSet(task'[j].rest))
        /\ \A x \in Msg : At(x, "idle")' => At(x, "idle")
    BY <1>1, <2>5, HandParts
  <2>7. /\ \A j \in Task : Hand(j)' \subseteq Hand(j) \cup More("task", j, "task", r, ToSet(O))
        /\ \A j \in Run : ToSet(ledger'[j]) \subseteq
              ToSet(ledger[j]) \cup More("ledger", j, "task", r, ToSet(O))
    BY <1>1, <2>6 DEF More
  <2>8. \A j \in Run : ToSet(run'[j].orphans) \subseteq
              ToSet(run[j].orphans) \cup More("exit", j, "task", r, ToSet(O))
    BY <2>1, <2>2, <2>3
  <2>9. /\ \A j \in Run : Prompt(j)' \subseteq Prompt(j) \cup More("prompt", j, "task", r, ToSet(O))
        /\ \A x \in Msg : Prompted(x)' => Prompted(x)
    BY <2>1, <2>2 DEF Prompt, Prompted
  <2>10. /\ ToSet(O) \subseteq Holding("exit", r) /\ Holding("exit", r)' \cap ToSet(O) = {}
         /\ {"exit", "task"} \subseteq Kind
    BY <2>0, <2>1, <2>2, <2>3 DEF Holding, Kind
  <2>11. ToSet(O) \in SUBSET Msg
    BY <1>1, <2>10, HoldingType
  <2>12. Passes("exit", r, "task", r, ToSet(O))
    BY <1>1, <2>6, <2>7, <2>8, <2>9, <2>10, <2>11, PartsPass
  <2>13. Distinct'
    BY <1>1, <2>1, <2>2, <2>3, <2>6 DEF Distinct
  <2>14. QED
    BY <1>1, <2>10, <2>11, <2>12, <2>13 DEF Passed
<1>4. QED
  BY <1>2, <1>3

\* A message that is sent is in its sender's hand, and nowhere else.
LEMMA SendOwners ==
    ASSUME Inv, OwnerInv, NEW m \in Msg, NEW rich \in BOOLEAN, send(m, rich)
    PROVE  OwnerInv'
<1>1. /\ Exclusive /\ Distinct /\ Unsent /\ Spent /\ RetriedIsOver /\ At(m, "idle")
      /\ m \in Task /\ UNCHANGED <<run, ledger, confirmed>>
  BY DEF OwnerInv, send, runVars, Task
<1>2. /\ \A j \in Task \ {m} : task'[j] = task[j]
      /\ task'[m].at = "lookup" /\ task'[m].msg = m /\ task'[m].rest = task[m].rest
  BY <1>1 DEF send, Inv, TypeOK, TaskType
<1>3. /\ \A t \in Kind, k \in Task : m \notin Holding(t, k)
      /\ ~Prompted(m) /\ m \notin confirmed
  BY <1>1 DEF Unsent
<1>4. m \notin ToSet(task[m].rest)
  <2>1. Holding("task", m) = Hand(m) /\ ToSet(task[m].rest) \subseteq Hand(m)
    BY DEF Holding, Hand
  <2>2. QED
    BY <1>1, <1>3, <2>1 DEF Kind
<1>5. HandTo(m, ToSet(task[m].rest) \cup {m})
  BY <1>1, <1>2, <1>4 DEF HandTo, Hand, AtHand, Distinct
<1>6. ToSet(task[m].rest) \subseteq Hand(m)
  BY DEF Hand
<1>7. /\ \A j \in Task : Hand(j)' \subseteq Hand(j) \cup More("task", j, "task", m, {m})
      /\ \A j \in Task : NoDup(task'[j].rest)
           /\ (AtHand(j)' => task'[j].msg \notin ToSet(task'[j].rest))
      /\ \A x \in Msg : At(x, "idle")' => At(x, "idle") /\ x # m
  <2>1. /\ \A j \in Task : Hand(j)' \subseteq
             Hand(j) \cup (IF j = m THEN ToSet(task[m].rest) \cup {m} ELSE {})
        /\ \A j \in Task : NoDup(task'[j].rest)
             /\ (AtHand(j)' => task'[j].msg \notin ToSet(task'[j].rest))
        /\ \A x \in Msg : At(x, "idle")' => At(x, "idle")
    BY <1>1, <1>5, HandParts
  <2>2. \A j \in Task : Hand(j)' \subseteq Hand(j) \cup More("task", j, "task", m, {m})
    BY <1>6, <2>1 DEF More
  <2>3. ~At(m, "idle")'
    BY <1>2 DEF At
  <2>4. QED
    BY <2>1, <2>2, <2>3
<1>8. \A y \in Kind, j \in Task :
         Holding(y, j)' \subseteq Holding(y, j) \cup More(y, j, "task", m, {m})
  <2>1. /\ "task" \in Kind
        /\ \A j \in Run : ToSet(ledger'[j]) \subseteq
              ToSet(ledger[j]) \cup More("ledger", j, "task", m, {m})
        /\ \A j \in Run : ToSet(run'[j].orphans) \subseteq
              ToSet(run[j].orphans) \cup More("exit", j, "task", m, {m})
        /\ \A j \in Run : Prompt(j)' \subseteq
              Prompt(j) \cup More("prompt", j, "task", m, {m})
    BY <1>1 DEF Prompt, Kind
  <2>2. QED
    BY <1>1, <1>7, <2>1, HoldingParts
<1>9. Exclusive'
  <2>1. ASSUME NEW y \in Kind, NEW z \in Kind, NEW i \in Task, NEW j \in Task, NEW x,
               x \in Holding(y, i)', x \in Holding(z, j)'
        PROVE  y = z /\ i = j
    <3>1. CASE x = m
      BY <1>3, <1>8, <2>1, <3>1 DEF More
    <3>2. CASE x # m
      BY <1>1, <1>8, <2>1, <3>2 DEF More, Exclusive
    <3>3. QED
      BY <3>1, <3>2
  <2>2. QED
    BY <2>1 DEF Exclusive
<1>10. \A x \in Msg : /\ Prompted(x)' <=> Prompted(x)
                      /\ Retried(x)' <=> Retried(x)
  BY <1>1 DEF Prompted, Retried
<1>11. Unsent'
  BY <1>1, <1>7, <1>8, <1>10 DEF Unsent, More
<1>12. Spent'
  BY <1>1, <1>3, <1>8, <1>10 DEF Spent, More
<1>13. Distinct' /\ RetriedIsOver'
  BY <1>1, <1>7 DEF Distinct, RetriedIsOver
<1>14. QED
  BY <1>9, <1>11, <1>12, <1>13 DEF OwnerInv

LEMMA StepPasses ==
    ASSUME Inv, LedgerInv, Exclusive, Distinct, Next,
           ~ \E m \in Msg, rich \in BOOLEAN : send(m, rich)
    PROVE  Passed /\ Distinct'
<1>1. ASSUME NEW k \in Task, Sender(k)
      PROVE  Passed /\ Distinct'
  BY <1>1, LookupPass, PostPass, CheckPass, ReclaimPass, InterruptPass, SettlePass,
     StartPass DEF Sender
<1>2. CASE user_interrupt
  BY <1>2, UserInterruptPass
<1>3. ASSUME NEW r \in Run,
             AgentStep(r) \/ AgentFailsTurn(r) \/ AgentDies(r) \/ AgentObeys(r)
      PROVE  Passed /\ Distinct'
  BY <1>3, AgentPass
<1>4. ASSUME NEW r \in Run, DriveStep(r) \/ StartFails(r) \/ Reap(r) \/ StartupRetry(r)
      PROVE  Passed /\ Distinct'
  <2>1. CASE Deadline(r) \/ Reap(r) \/ OnEof(r)
    <3>1. Driven(r) /\ Leave(r)
      BY <2>1 DEF Deadline, Reap, OnEof, Reads
    <3>2. QED
      BY <3>1, LeavePass
  <2>2. QED
    BY <1>4, <2>1, StartPasses, OnSteeredPass, OnDonePass, StartupRetryPass, ExitPass
       DEF DriveStep
<1>5. QED
  BY <1>1, <1>2, <1>3, <1>4 DEF Next

LEMMA OwnerStep ==
    ASSUME Inv, LedgerInv, OwnerInv, [Next]_vars
    PROVE  OwnerInv'
<1>1. CASE UNCHANGED vars
  <2>1. /\ \A t \in Kind, k \in Task : Holding(t, k)' = Holding(t, k)
        /\ \A k \in Task : AtHand(k)' <=> AtHand(k)
        /\ \A m \in Msg : /\ At(m, "idle")' <=> At(m, "idle")
                          /\ Prompted(m)' <=> Prompted(m)
                          /\ Retried(m)' <=> Retried(m)
    BY <1>1 DEF vars, runVars, Holding, Hand, AtHand, Prompt, At, Prompted, Retried
  <2>2. Exclusive' /\ Unsent' /\ Spent'
    BY <1>1, <2>1 DEF vars, runVars, OwnerInv, Exclusive, Unsent, Spent
  <2>3. Distinct' /\ RetriedIsOver'
    BY <1>1, <2>1 DEF vars, runVars, OwnerInv, Distinct, RetriedIsOver
  <2>4. QED
    BY <2>2, <2>3 DEF OwnerInv
<1>2. ASSUME NEW m \in Msg, NEW rich \in BOOLEAN, send(m, rich)
      PROVE  OwnerInv'
  BY <1>2, SendOwners
<1>3. CASE Next /\ ~ \E m \in Msg, rich \in BOOLEAN : send(m, rich)
  <2>1. Exclusive /\ Distinct /\ Unsent /\ Spent /\ RetriedIsOver
    BY DEF OwnerInv
  <2>2. PICK t \in Kind, u \in Kind, k \in Task, l \in Task, X \in SUBSET Msg :
           Passes(t, k, u, l, X)
    BY <1>3, <2>1, StepPasses DEF Passed
  <2>3. Distinct'
    BY <1>3, <2>1, StepPasses
  <2>4. RetriedIsOver' /\ \A m \in Msg : Retried(m) => Retried(m)'
    BY <1>3, <2>1, RetriedStep
  <2>5. Exclusive'
    BY <2>1, <2>2, PassExclusive
  <2>6. Unsent' /\ Spent'
    BY <2>1, <2>2, <2>4, PassSpent
  <2>7. QED
    BY <2>3, <2>4, <2>5, <2>6 DEF OwnerInv
<1>4. QED
  BY <1>1, <1>2, <1>3

LEMMA OwnerInit == Init => OwnerInv
<1> SUFFICES ASSUME Init PROVE OwnerInv
  OBVIOUS
<1>1. ToSet(<<>>) = {} /\ NoDup(<<>>)
  BY DEF ToSet, NoDup
<1>2. /\ \A k \in Task : task[k].rest = <<>> /\ task[k].at \in {"idle", "done"}
      /\ task[First].at = "done"
  BY MailboxAssumption DEF Init, NoTask, Task
<1>3. \A r \in Run : /\ ledger[r] = <<>> /\ run[r].orphans = <<>> /\ run[r].fate = "live"
                     /\ run[r].msg \in {First, None}
                     /\ run[r].at \in {"starting", "unborn"} /\ (run[r].at = "starting" => r = 1)
  BY DEF Init, Dispatched, Unborn
<1>4. /\ \A k \in Task : Hand(k) = {}
      /\ \A r \in Run : Prompt(r) \subseteq {First} /\ (Prompt(r) # {} => r = 1)
  BY <1>1, <1>2, <1>3 DEF Hand, AtHand, Prompt, Init, Dispatched, Unborn
<1>5. \A t \in Kind, k \in Task :
         /\ Holding(t, k) \subseteq {First}
         /\ Holding(t, k) # {} => t = "prompt" /\ k = 1
  BY <1>1, <1>3, <1>4 DEF Holding, Kind
<1>6. \A m \in Msg : At(m, "idle") => m # First /\ m # None
  BY <1>2, MailboxAssumption DEF At, None
<1>7. \A m \in Msg : Prompted(m) => m = First
  BY <1>3, MailboxAssumption DEF Prompted, None
<1>8. Exclusive
  BY <1>5 DEF Exclusive
<1>9. Distinct
  BY <1>1, <1>2, <1>3 DEF Distinct, AtHand
<1>10. confirmed = {}
  BY DEF Init
<1>11. Unsent
  BY <1>5, <1>6, <1>7, <1>10 DEF Unsent
<1>12. Spent
  BY <1>5 DEF Spent
<1>13. RetriedIsOver
  BY <1>3 DEF RetriedIsOver
<1>14. QED
  BY <1>8, <1>9, <1>11, <1>12, <1>13 DEF OwnerInv

\* The owners of a message are its holders other than a run that was prompted.
LEMMA OwnerHolds ==
    ASSUME NEW m \in Msg, NEW x \in Owners(m)
    PROVE  \/ x \in Task /\ m \in Holding("task", x)
           \/ \E r \in Run : x = <<"ledger", r>> /\ m \in Holding("ledger", r)
           \/ \E r \in Run : x = <<"exit", r>> /\ m \in Holding("exit", r)
<1>1. CASE x \in Task /\ InHand(x, m)
  BY <1>1 DEF InHand, Holding, Hand, AtHand
<1>2. ASSUME NEW r \in Run, x = <<"ledger", r>>, m \in ToSet(ledger[r])
      PROVE  m \in Holding("ledger", r)
  BY <1>2 DEF Holding
<1>3. ASSUME NEW r \in Run, x = <<"exit", r>>, m \in ToSet(run[r].orphans)
      PROVE  m \in Holding("exit", r)
  BY <1>3 DEF Holding
<1>4. QED
  BY <1>1, <1>2, <1>3 DEF Owners

\* OwnerInv is OneOwner, said of the holders.
LEMMA OwnersOne == OwnerInv => OneOwner
<1> SUFFICES ASSUME OwnerInv, NEW m \in Msg
             PROVE  /\ Cardinality(Owners(m)) <= 1
                    /\ Prompted(m) \/ m \in confirmed => Owners(m) = {} \/ Retried(m)
  BY DEF OneOwner
<1>1. Exclusive /\ Spent /\ \A r \in Run : r \in Task
  BY DEF OwnerInv, Task
<1>2. ASSUME NEW x \in Owners(m), NEW y \in Owners(m)
      PROVE  x = y
  <2>1. \A t, u \in Kind, k, l \in Task :
           m \in Holding(t, k) /\ m \in Holding(u, l) => t = u /\ k = l
    BY <1>1 DEF Exclusive
  <2>2. QED
    BY <1>1, <2>1, OwnerHolds DEF Kind
<1>3. Cardinality(Owners(m)) <= 1
  <2>1. CASE Owners(m) = {}
    BY <2>1, FS_EmptySet
  <2>2. CASE Owners(m) # {}
    <3>1. PICK x : Owners(m) = {x}
      BY <1>2, <2>2
    <3>2. QED
      BY <3>1, FS_Singleton
  <2>3. QED
    BY <2>1, <2>2
<1>4. ASSUME Prompted(m) \/ m \in confirmed, ~Retried(m), NEW x \in Owners(m)
      PROVE  FALSE
  BY <1>1, <1>4, OwnerHolds DEF Spent, Kind
<1>5. QED
  BY <1>3, <1>4

\* Every message has one owner at most (steer, dispatch_inner, drive_run's exit):
\* the sender that lost its run, that run's exit and the agent never bring it
\* twice, and none does once it was a run's prompt or its boundary retired it.
THEOREM OneOwnerSafe == Spec => []OneOwner
<1>1. Init => OwnerInv
  BY OwnerInit
<1>2. Inv /\ LedgerInv /\ OwnerInv /\ [Next]_vars => OwnerInv'
  BY OwnerStep
<1>3. Init => LedgerInv
  BY LedgerInit
<1>4. Inv /\ LedgerInv /\ [Next]_vars => LedgerInv'
  BY LedgerStep
<1>5. OwnerInv => OneOwner
  BY OwnersOne
<1>6. QED
  BY <1>1, <1>2, <1>3, <1>4, <1>5, Invariance, PTL DEF Spec
=============================================================================
