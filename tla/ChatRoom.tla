------------------------------ MODULE ChatRoom ------------------------------
(***************************************************************************)
(* The chat2 room: one Durable Object per chat (edge/src/chat-room.ts over *)
(* edge/src/chat-log.ts).  It is a dumb sequencer.  It numbers opaque      *)
(* update batches, relays them to the other sockets, answers catch-up      *)
(* requests, and keeps one client-built checkpoint that replaces a prefix  *)
(* of the rows.  A Durable Object event runs to completion, so each        *)
(* handler is one action.                                                  *)
(*                                                                         *)
(* A batch is <<device, n>>: the n-th local update of a device.  The batch *)
(* id and the Loro bytes it names are one value.  A checkpoint's bytes and *)
(* its frontier are the set of batches it contains.                        *)
(***************************************************************************)
EXTENDS Integers, Sequences, FiniteSets, Functions

CONSTANTS
    Devices,        \* the owner's devices
    Batches,        \* the updates the devices may ever write, <<device, n>>
    RowThreshold,   \* row count above which a client posts a checkpoint
    Budgets         \* the fault budgets of a run: how often each kind may happen

\* What the environment may do to the protocol, each a bounded number of times.
FaultKinds == {"drop",    \* a socket fails
               "http",    \* a dial or an HTTPS request fails
               "crash",   \* an engine process dies
               "quota",   \* the room refuses a push: rolling quota used up
               "stray",   \* a push outlives the socket it was sent on
               "late"}    \* a checkpoint POST outlives its client

ASSUME BatchesAssumption ==
    /\ Batches \subseteq Devices \X (Nat \ {0})
    /\ \A b \in Batches : \A m \in 1 .. b[2] : <<b[1], m>> \in Batches
ASSUME BoundsAssumption ==
    /\ RowThreshold \in Nat
    /\ Budgets \subseteq [FaultKinds -> Nat]

VARIABLES
    log,     \* every batch ever appended, in seq order; seqs <= floor are pruned
    floor,   \* seqFloor = checkpointSeq
    ckpt,    \* [present, content]: the checkpoint blob (checkpointSize > 0)
    ready,   \* ready[d]: d's socket said hello and receives relays
    up,      \* up[d]: frames d sent that the room has not handled
    down,    \* down[d]: frames the room sent that d has not read
    stray,   \* pushes still in the network although their socket is gone
    late,    \* checkpoint POSTs still in the network although nobody waits
    faults   \* faults spent so far

roomVars == <<log, floor, ckpt, ready, up, down, stray, late, faults>>

\* Some budget of the run allows these faults.
Affordable(spent) == \E b \in Budgets : \A k \in FaultKinds : spent[k] <= b[k]

Spend(kind) ==
    /\ Affordable([faults EXCEPT ![kind] = @ + 1])
    /\ faults' = [faults EXCEPT ![kind] = @ + 1]

Author(b) == b[1]

\* A device queues its batches in the order it wrote them.
First(S) == CHOOSE b \in S : \A c \in S : b[2] <= c[2]

-----------------------------------------------------------------------------
(* Frames.  A run of ROW frames, or of PUSH frames, sent back to back is   *)
(* one entry of the channel that the receiver takes apart one by one.      *)

Row == [seq : Nat, batch : Batches]

HelloFrame == [t |-> "hello"]
RowsReq(after, excludeOwn) ==
    [t |-> "rowsReq", after |-> after, excludeOwn |-> excludeOwn]
PushFrame(S) == [t |-> "push", batches |-> S]

UpFrames == {HelloFrame}
            \cup [t : {"rowsReq"}, after : Nat, excludeOwn : BOOLEAN]
            \cup [t : {"push"}, batches : (SUBSET Batches) \ {{}}]

State == [t : {"state"}, head : Nat, seq : Nat, present : BOOLEAN,
          content : SUBSET Batches, many : BOOLEAN]
RowsFrame(R) == [t |-> "rows", rows |-> R]
DoneFrame == [t |-> "done"]
AckFrame(b, s) == [t |-> "ack", batch |-> b, seq |-> s]
QuotaFrame(b) == [t |-> "quota", batch |-> b]

DownFrames == State \cup {DoneFrame}
              \cup [t : {"rows"}, rows : (SUBSET Row) \ {{}}]
              \cup [t : {"ack"}, batch : Batches, seq : Nat]
              \cup [t : {"quota"}, batch : Batches]

\* Consecutive rows leave the channel lowest seq first.
FirstRow(R) == CHOOSE r \in R : \A q \in R : r.seq <= q.seq
AfterRow(ch) ==
    LET R == Head(ch).rows IN
    IF R = {FirstRow(R)} THEN Tail(ch)
    ELSE <<RowsFrame(R \ {FirstRow(R)})>> \o Tail(ch)
SendRows(ch, R) == IF R = {} THEN ch ELSE Append(ch, RowsFrame(R))

-----------------------------------------------------------------------------
(* The durable log, chat-log.ts.                                           *)

headSeq == Len(log)

LiveSeqs == (floor + 1) .. headSeq

\* The seq a replayed batch id is acknowledged with: only rows still in the
\* table can be matched.
Matches(b) == {s \in LiveSeqs : log[s] = b}

appendRow(b) == log' = IF Matches(b) = {} THEN Append(log, b) ELSE log

AckSeq(b) == IF Matches(b) = {} THEN headSeq + 1 ELSE CHOOSE s \in Matches(b) : TRUE

\* Mutant: the first row after the cursor is skipped.
rowsAfterOffByOne(after, exclude) ==
    {[seq |-> s, batch |-> log[s]] :
        s \in {q \in LiveSeqs : q > after + 1 /\ Author(log[q]) \notin exclude}}

\* Rows with seq > after, without the rows of the devices in `exclude`.
rowsAfter(after, exclude) ==
    {[seq |-> s, batch |-> log[s]] :
        s \in {q \in LiveSeqs : q > after /\ Author(log[q]) \notin exclude}}

\* The server's own guard: the floor moves forward only and covers only rows
\* that exist.  (Its refusal of a zero-length frontier never meets a client of
\* this repository: the version vector of an empty document encodes to a byte.)
Committable(covered) == covered >= floor /\ covered <= headSeq

\* Mutant: prunes rows the checkpoint does not cover.
commitCheckpointPrunesAll(covered, content) ==
    /\ floor' = headSeq
    /\ ckpt' = [present |-> TRUE, content |-> content]

\* Mutant: a checkpoint that does not move the floor is taken for a replay.
commitCheckpointKeepsBlob(covered, content) ==
    /\ floor' = covered
    /\ ckpt' = IF ckpt.present /\ covered = floor THEN ckpt
               ELSE [present |-> TRUE, content |-> content]

commitCheckpoint(covered, content) ==
    /\ floor' = covered
    /\ ckpt' = [present |-> TRUE, content |-> content]

logStats == [t |-> "state", head |-> headSeq, seq |-> floor,
             present |-> ckpt.present, content |-> ckpt.content,
             many |-> headSeq - floor > RowThreshold]

-----------------------------------------------------------------------------
(* The room's event handlers, chat-room.ts.                                *)

UpHead(d, t) == up[d] # <<>> /\ Head(up[d]).t = t

handleHello(d) ==
    /\ UpHead(d, "hello")
    /\ up' = [up EXCEPT ![d] = Tail(@)]
    /\ ready' = [ready EXCEPT ![d] = TRUE]
    /\ down' = [down EXCEPT ![d] = Append(@, logStats)]
    /\ UNCHANGED <<log, floor, ckpt, stray, late, faults>>

handleRowsReq(d) ==
    /\ UpHead(d, "rowsReq")
    /\ LET req == Head(up[d])
           rows == rowsAfter(req.after, IF req.excludeOwn THEN {d} ELSE {})
       IN  down' = [down EXCEPT ![d] = Append(SendRows(@, rows), DoneFrame)]
    /\ up' = [up EXCEPT ![d] = Tail(@)]
    /\ UNCHANGED <<log, floor, ckpt, ready, stray, late, faults>>

\* The live relay of a newly appended row to every ready socket but `sender`.
Relay(b, sender) ==
    [e \in Devices |->
        IF ready[e] /\ e \notin sender /\ Matches(b) = {}
        THEN Append(down[e], RowsFrame({[seq |-> headSeq + 1, batch |-> b]}))
        ELSE down[e]]

TakePush(d) ==
    LET S == Head(up[d]).batches IN
    up' = [up EXCEPT ![d] =
              IF S = {First(S)} THEN Tail(@)
              ELSE <<PushFrame(S \ {First(S)})>> \o Tail(@)]

handlePush(d) ==
    /\ UpHead(d, "push")
    /\ LET b == First(Head(up[d]).batches) IN
           /\ appendRow(b)
           /\ down' = [Relay(b, {d}) EXCEPT ![d] = Append(@, AckFrame(b, AckSeq(b)))]
    /\ TakePush(d)
    /\ UNCHANGED <<floor, ckpt, ready, stray, late, faults>>

\* The same handler when admitQuota says no: an error frame, no append.
refusePush(d) ==
    /\ UpHead(d, "push")
    /\ Spend("quota")
    /\ down' = [down EXCEPT ![d] = Append(@, QuotaFrame(First(Head(up[d]).batches)))]
    /\ TakePush(d)
    /\ UNCHANGED <<log, floor, ckpt, ready, stray, late>>

\* POST /rows, whoever still waits for the answer: every ready socket is told,
\* the sender's own included.
postRow(b) ==
    /\ appendRow(b)
    /\ down' = Relay(b, {})
    /\ UNCHANGED <<floor, ckpt, ready, up, late>>

handleStrayPush(b) ==
    /\ b \in stray
    /\ stray' = stray \ {b}
    /\ postRow(b)
    /\ UNCHANGED faults

handleLateCheckpoint(p) ==
    /\ p \in late
    /\ late' = late \ {p}
    /\ IF Committable(p.covered)
       THEN commitCheckpoint(p.covered, p.content)
       ELSE UNCHANGED <<floor, ckpt>>
    /\ UNCHANGED <<log, ready, up, down, stray, faults>>

RoomInit ==
    /\ log = <<>>
    /\ floor = 0
    /\ ckpt = [present |-> FALSE, content |-> {}]
    /\ ready = [d \in Devices |-> FALSE]
    /\ up = [d \in Devices |-> <<>>]
    /\ down = [d \in Devices |-> <<>>]
    /\ stray = {}
    /\ late = {}
    /\ faults = [k \in FaultKinds |-> 0]

RoomTypeOK ==
    /\ log \in Seq(Batches)
    /\ floor \in Nat
    /\ floor <= headSeq
    /\ ckpt \in [present : BOOLEAN, content : SUBSET Batches]
    /\ ready \in [Devices -> BOOLEAN]
    /\ up \in [Devices -> Seq(UpFrames)]
    /\ down \in [Devices -> Seq(DownFrames)]
    /\ stray \subseteq Batches
    /\ late \subseteq [covered : Nat, content : SUBSET Batches]
    /\ faults \in [FaultKinds -> Nat]

\* What a reader that starts from nothing can still obtain from the room.
RoomOps == ckpt.content \cup {log[s] : s \in LiveSeqs}

\* The batches a cursor claims to cover.
Covered(n) == {log[s] : s \in {q \in 1 .. headSeq : q <= n}}
=============================================================================
