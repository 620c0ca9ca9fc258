------------------------- MODULE RegistrySyncProofs -------------------------
(***************************************************************************)
(* The registry for any devices, rows, fields, clocks, writes and faults.  *)
(* First the merge rules, facts about applyOp and applyPushBatch alone: a  *)
(* push never sets a row back, and pushing a batch again changes nothing.  *)
(* Then the protocol: every variable keeps its type, the pending batches   *)
(* of a document stay in order, no step but an operator's reset or a purge *)
(* sets a row of the room back, and what leaves an outgoing queue has been *)
(* decided by the room.  As long as no session is open while an HTTPS pull *)
(* is under way, the cursor of every device is honest, and what a socket's *)
(* ack retires would change nothing in the rows the device holds by then.  *)
(* The protocol adds that whatever reaches the merge rules, over any       *)
(* socket, late or over HTTPS, from a queue, a saved document or a re-     *)
(* seed, is a batch of ops.                                                *)
(***************************************************************************)
EXTENDS RegistrySync, TLAPS, FiniteSetTheorems, SequenceTheorems, WellFoundedInduction

-----------------------------------------------------------------------------
(* The merge rules.                                                        *)

Ops == UNION {[S -> OpType] : S \in SUBSET Row}

\* What the three kinds of op do to the fields of a row.
Won(row, op) == {f \in op.set : op.clocks[f] > row.clocks[f]}
Merged(row, op) ==
    [row EXCEPT !.deleted = FALSE,
                !.fields = (@ \ Won(row, op)) \cup (Won(row, op) \ op.nulls),
                !.clocks = [f \in Field |-> IF f \in Won(row, op) THEN op.clocks[f] ELSE @[f]]]
Buried(row, op) ==
    [row EXCEPT !.deleted = TRUE, !.delHlc = op.hlc, !.fields = {}, !.clocks = NoClocks]

LEMMA ApplyOp ==
    ASSUME NEW row \in RowType, NEW op \in OpType
    PROVE  apply_op(row, op) =
             IF op.op = "delete"
             THEN IF DeleteWins(row, op.hlc) THEN Buried(row, op) ELSE row
             ELSE IF Admitted(row, op) THEN Merged(row, op) ELSE row
BY DEF apply_op, Buried, Merged, Won

\* The parts of a merged row.
LEMMA MergedParts ==
    ASSUME NEW row \in RowType, NEW op \in OpType
    PROVE  /\ Merged(row, op) \in RowType
           /\ Merged(row, op).deleted = FALSE
           /\ Merged(row, op).delHlc = row.delHlc /\ Merged(row, op).seq = row.seq
           /\ Merged(row, op).fields = (row.fields \ Won(row, op)) \cup (Won(row, op) \ op.nulls)
           /\ Merged(row, op).clocks \in [Field -> Nat]
           /\ \A f \in Won(row, op) : Merged(row, op).clocks[f] = op.clocks[f]
           /\ \A f \in Field \ Won(row, op) : Merged(row, op).clocks[f] = row.clocks[f]
<1> DEFINE won == Won(row, op)
           clocks == [f \in Field |-> IF f \in won THEN op.clocks[f] ELSE row.clocks[f]]
           fields == (row.fields \ won) \cup (won \ op.nulls)
<1>1. /\ won \subseteq Field /\ row.clocks \in [Field -> Nat] /\ op.clocks \in [Field -> Nat]
      /\ row.fields \subseteq Field
  BY DEF Won, RowType, OpType
<1>2. clocks \in [Field -> Nat] /\ fields \subseteq Field
  BY <1>1
<1>3. /\ \A f \in won : clocks[f] = op.clocks[f]
      /\ \A f \in Field \ won : clocks[f] = row.clocks[f]
  BY <1>1
<1>4. Merged(row, op) = [row EXCEPT !.deleted = FALSE, !.fields = fields, !.clocks = clocks]
  BY DEF Merged
<1> HIDE DEF clocks, fields, won
<1>5. /\ Merged(row, op) \in RowType
      /\ Merged(row, op).deleted = FALSE
      /\ Merged(row, op).delHlc = row.delHlc /\ Merged(row, op).seq = row.seq
      /\ Merged(row, op).fields = fields /\ Merged(row, op).clocks = clocks
  BY <1>2, <1>4 DEF RowType
<1>6. QED
  BY <1>2, <1>3, <1>5 DEF fields, won

\* The parts of a tombstone.
LEMMA BuriedParts ==
    ASSUME NEW row \in RowType, NEW op \in OpType
    PROVE  /\ Buried(row, op) \in RowType
           /\ Buried(row, op).deleted = TRUE
           /\ Buried(row, op).delHlc = op.hlc /\ Buried(row, op).seq = row.seq
           /\ Buried(row, op).fields = {} /\ Buried(row, op).clocks = NoClocks
BY DEF Buried, RowType, OpType, NoClocks

\* applyOp keeps a row a row and never sets it back.
LEMMA ApplyAdvances ==
    ASSUME NEW row \in RowType, NEW op \in OpType
    PROVE  apply_op(row, op) \in RowType /\ Supersedes(apply_op(row, op), row)
<1>1. Supersedes(row, row)
  BY DEF Supersedes, RowType
<1>2. Supersedes(Merged(row, op), row)
  <2>1. row.clocks \in [Field -> Nat] /\ op.clocks \in [Field -> Nat]
    BY DEF RowType, OpType
  <2>2. /\ \A f \in Won(row, op) : Merged(row, op).clocks[f] = op.clocks[f]
        /\ \A f \in Field \ Won(row, op) : Merged(row, op).clocks[f] = row.clocks[f]
    BY MergedParts
  <2>3. \A f \in Field : Merged(row, op).clocks[f] >= row.clocks[f]
    <3> SUFFICES ASSUME NEW f \in Field
                 PROVE  Merged(row, op).clocks[f] >= row.clocks[f]
      OBVIOUS
    <3>1. f \in Won(row, op) => op.clocks[f] > row.clocks[f]
      BY DEF Won
    <3>2. row.clocks[f] \in Nat /\ op.clocks[f] \in Nat
      BY <2>1
    <3>3. QED
      BY <2>2, <3>1, <3>2
  <2>4. Merged(row, op).delHlc = row.delHlc
    BY MergedParts
  <2>5. QED
    BY <2>3, <2>4 DEF Supersedes
<1>3. DeleteWins(row, op.hlc) => Supersedes(Buried(row, op), row)
  BY BuriedParts DEF Supersedes, DeleteWins
<1>4. QED
  BY <1>1, <1>2, <1>3, ApplyOp, MergedParts, BuriedParts

\* Applying an op again changes nothing.
LEMMA ApplyTwice ==
    ASSUME NEW row \in RowType, NEW op \in OpType
    PROVE  apply_op(apply_op(row, op), op) = apply_op(row, op)
<1>0. /\ row.clocks \in [Field -> Nat] /\ op.clocks \in [Field -> Nat]
      /\ op.hlc \in Nat /\ op.set \subseteq Field
  BY DEF RowType, OpType
<1>1. CASE apply_op(row, op) = row
  BY <1>1
<1>2. CASE op.op = "delete" /\ apply_op(row, op) = Buried(row, op)
  <2>1. Buried(row, op) \in RowType /\ Buried(row, op).delHlc = op.hlc
    BY BuriedParts
  <2>2. ~DeleteWins(Buried(row, op), op.hlc)
    BY <1>0, <2>1 DEF DeleteWins
  <2>3. QED
    BY <1>2, <2>1, <2>2, ApplyOp
<1>3. CASE op.op # "delete" /\ apply_op(row, op) = Merged(row, op)
  <2> DEFINE new == Merged(row, op)
  <2>1. /\ new \in RowType /\ new.deleted = FALSE
        /\ \A f \in Won(row, op) : new.clocks[f] = op.clocks[f]
        /\ \A f \in Field \ Won(row, op) : new.clocks[f] = row.clocks[f]
    BY MergedParts
  <2> HIDE DEF new
  <2>2. Won(new, op) = {}
    <3>1. ASSUME NEW f \in op.set
          PROVE  ~(op.clocks[f] > new.clocks[f])
      BY <1>0, <2>1 DEF Won
    <3>2. QED
      BY <3>1 DEF Won
  <2>3. Merged(new, op) = new
    <3> DEFINE twice == Merged(new, op)
    <3>1. /\ twice \in RowType
          /\ twice.deleted = FALSE /\ twice.delHlc = new.delHlc /\ twice.seq = new.seq
          /\ twice.fields = (new.fields \ Won(new, op)) \cup (Won(new, op) \ op.nulls)
          /\ twice.clocks \in [Field -> Nat]
          /\ \A f \in Field \ Won(new, op) : twice.clocks[f] = new.clocks[f]
      BY <2>1, MergedParts
    <3> HIDE DEF twice
    <3>2. new.clocks \in [Field -> Nat]
      BY <2>1 DEF RowType
    <3>3. twice.fields = new.fields /\ twice.clocks = new.clocks
      BY <2>2, <3>1, <3>2
    <3>4. twice = new
      BY <2>1, <3>1, <3>3 DEF RowType
    <3>5. QED
      BY <3>4 DEF twice
  <2>4. apply_op(new, op) = new
    BY <1>3, <2>1, <2>3, ApplyOp
  <2>5. QED
    BY <1>3, <2>4 DEF new
<1>4. QED
  BY <1>1, <1>2, <1>3, ApplyOp

-----------------------------------------------------------------------------
(* Batches.                                                                *)

RoomType == [rows : [Row -> RowType], seq : Nat, gcFloor : Nat]

\* A room with a new number and a new table.
Numbered(rm, table, n) == [rm EXCEPT !.seq = n, !.rows = table]

LEMMA NumberedParts ==
    ASSUME NEW rm \in RoomType, NEW table \in [Row -> RowType], NEW n \in Nat
    PROVE  Numbered(rm, table, n) \in RoomType /\ Numbered(rm, table, n).rows = table
<1> DEFINE tables == [Row -> RowType]
<1>1. rm \in [rows : tables, seq : Nat, gcFloor : Nat] /\ table \in tables
  BY DEF RoomType
<1> HIDE DEF tables
<1>2. /\ [rm EXCEPT !.seq = n, !.rows = table] \in [rows : tables, seq : Nat, gcFloor : Nat]
      /\ [rm EXCEPT !.seq = n, !.rows = table].rows = table
  BY <1>1
<1>3. QED
  BY <1>2 DEF RoomType, tables, Numbered

\* A batch leaves the rows it does not change alone, advances the others and
\* numbers at most one step.
LEMMA BatchParts ==
    ASSUME NEW rm \in RoomType, NEW ops \in Ops
    PROVE  /\ applyPushBatch(rm, ops) \in RoomType
           /\ \A r \in Row : r \notin Touched(rm, ops) =>
                 applyPushBatch(rm, ops).rows[r] = rm.rows[r]
           /\ \A r \in Touched(rm, ops) :
                 /\ r \in Row /\ r \in DOMAIN ops /\ ops[r] \in OpType
                 /\ applyPushBatch(rm, ops).rows[r] =
                       [apply_op(rm.rows[r], ops[r]) EXCEPT !.seq = rm.seq + 1]
<1>1. \A r \in DOMAIN ops : r \in Row /\ ops[r] \in OpType
  BY DEF Ops
<1>2. rm.rows \in [Row -> RowType] /\ rm.seq \in Nat
  BY DEF RoomType
<1>3. \A r \in Touched(rm, ops) : r \in Row /\ r \in DOMAIN ops /\ ops[r] \in OpType
  BY <1>1 DEF Touched
<1>4. \A r \in Touched(rm, ops) :
         [apply_op(rm.rows[r], ops[r]) EXCEPT !.seq = rm.seq + 1] \in RowType
  <2> SUFFICES ASSUME NEW r \in Touched(rm, ops)
               PROVE  [apply_op(rm.rows[r], ops[r]) EXCEPT !.seq = rm.seq + 1] \in RowType
    OBVIOUS
  <2>1. apply_op(rm.rows[r], ops[r]) \in RowType
    BY <1>2, <1>3, ApplyAdvances
  <2>2. QED
    BY <1>2, <2>1 DEF RowType
<1>5. CASE Touched(rm, ops) = {}
  BY <1>5 DEF applyPushBatch
<1>6. CASE Touched(rm, ops) # {}
  <2> DEFINE new == [r \in Row |-> IF r \in Touched(rm, ops)
                        THEN [apply_op(rm.rows[r], ops[r]) EXCEPT !.seq = rm.seq + 1]
                        ELSE rm.rows[r]]
  <2>1. applyPushBatch(rm, ops) = Numbered(rm, new, rm.seq + 1)
    BY <1>6 DEF applyPushBatch, Numbered
  <2>2. new \in [Row -> RowType]
    BY <1>2, <1>4
  <2>3. \A r \in Row : new[r] = IF r \in Touched(rm, ops)
                        THEN [apply_op(rm.rows[r], ops[r]) EXCEPT !.seq = rm.seq + 1]
                        ELSE rm.rows[r]
    OBVIOUS
  <2> HIDE DEF new
  <2>4. applyPushBatch(rm, ops) \in RoomType /\ applyPushBatch(rm, ops).rows = new
    <3>1. rm.seq + 1 \in Nat
      BY <1>2
    <3>2. QED
      BY <2>1, <2>2, <3>1, NumberedParts
  <2>5. QED
    BY <1>3, <2>3, <2>4
<1>7. QED
  BY <1>5, <1>6

\* The number of the last change plays no part in the merge.
LEMMA SeqApart ==
    ASSUME NEW row \in RowType, NEW op \in OpType, NEW n \in Nat,
           apply_op(row, op) = row
    PROVE  apply_op([row EXCEPT !.seq = n], op) = [row EXCEPT !.seq = n]
<1> DEFINE new == [row EXCEPT !.seq = n]
<1>1. /\ new \in RowType /\ new.deleted = row.deleted /\ new.delHlc = row.delHlc
      /\ new.fields = row.fields /\ new.clocks = row.clocks /\ new.seq = n
  BY DEF RowType
<1> HIDE DEF new
<1>2. /\ DeleteWins(new, op.hlc) <=> DeleteWins(row, op.hlc)
      /\ Admitted(new, op) <=> Admitted(row, op)
      /\ Won(new, op) = Won(row, op)
  BY <1>1 DEF DeleteWins, Admitted, Won
<1>3. CASE op.op = "delete" /\ DeleteWins(row, op.hlc)
  <2>1. Buried(row, op) = row
    BY <1>3, ApplyOp
  <2>2. FALSE
    <3>1. row.delHlc = op.hlc /\ op.hlc \in Nat
      BY <2>1, BuriedParts DEF OpType
    <3>2. QED
      BY <1>3, <3>1 DEF DeleteWins
  <2>3. QED
    BY <2>2
<1>4. CASE op.op # "delete" /\ Admitted(row, op)
  <2>1. Merged(row, op) = row
    BY <1>4, ApplyOp
  <2> DEFINE m == Merged(new, op)
  <2>2. /\ m \in RowType /\ m.deleted = FALSE /\ m.delHlc = new.delHlc /\ m.seq = new.seq
        /\ m.fields = (new.fields \ Won(new, op)) \cup (Won(new, op) \ op.nulls)
        /\ m.clocks \in [Field -> Nat]
        /\ \A f \in Won(new, op) : m.clocks[f] = op.clocks[f]
        /\ \A f \in Field \ Won(new, op) : m.clocks[f] = new.clocks[f]
    BY <1>1, MergedParts
  <2>6. /\ row.deleted = FALSE
        /\ row.fields = (row.fields \ Won(row, op)) \cup (Won(row, op) \ op.nulls)
        /\ row.clocks \in [Field -> Nat]
        /\ \A f \in Won(row, op) : row.clocks[f] = op.clocks[f]
    <3>1. /\ Merged(row, op).deleted = FALSE
          /\ Merged(row, op).fields =
                (row.fields \ Won(row, op)) \cup (Won(row, op) \ op.nulls)
          /\ Merged(row, op).clocks \in [Field -> Nat]
          /\ \A f \in Won(row, op) : Merged(row, op).clocks[f] = op.clocks[f]
      BY MergedParts
    <3>2. QED
      BY <2>1, <3>1
  <2> HIDE DEF m
  <2>3. m.fields = row.fields /\ m.clocks = row.clocks
    <3>1. m.fields = row.fields
      BY <1>1, <1>2, <2>2, <2>6
    <3>2. \A f \in Field : m.clocks[f] = row.clocks[f]
      BY <1>1, <1>2, <2>2, <2>6
    <3>3. QED
      BY <2>2, <2>6, <3>1, <3>2
  <2>4. m = new
    BY <1>1, <2>2, <2>6, <2>3 DEF RowType
  <2>5. QED
    BY <1>1, <1>2, <1>4, <2>4, ApplyOp DEF m, new
<1>5. QED
  BY <1>1, <1>2, <1>3, <1>4, ApplyOp DEF new

\* A push, whatever it holds and however often it comes, never sets a row of
\* the room back: the room's table only moves forward (applyOp, applyPushBatch
\* of registry-room.ts).
THEOREM PushAdvances ==
    ASSUME NEW rm \in RoomType, NEW ops \in Ops, NEW r \in Row
    PROVE  Supersedes(applyPushBatch(rm, ops).rows[r], rm.rows[r])
<1>1. rm.rows[r] \in RowType
  BY DEF RoomType
<1>2. CASE r \notin Touched(rm, ops)
  <2>1. Supersedes(rm.rows[r], rm.rows[r])
    BY <1>1 DEF Supersedes, RowType
  <2>2. QED
    BY <1>2, <2>1, BatchParts
<1>3. CASE r \in Touched(rm, ops)
  <2> DEFINE a == apply_op(rm.rows[r], ops[r])
  <2>1. ops[r] \in OpType /\ applyPushBatch(rm, ops).rows[r] = [a EXCEPT !.seq = rm.seq + 1]
    BY <1>3, BatchParts
  <2>2. a \in RowType /\ Supersedes(a, rm.rows[r])
    BY <1>1, <2>1, ApplyAdvances
  <2> HIDE DEF a
  <2>3. [a EXCEPT !.seq = rm.seq + 1].delHlc = a.delHlc
        /\ [a EXCEPT !.seq = rm.seq + 1].clocks = a.clocks
    BY <2>2 DEF RowType
  <2>4. QED
    BY <2>1, <2>2, <2>3 DEF Supersedes
<1>4. QED
  BY <1>2, <1>3

\* A batch the room has just taken, pushed again over another socket or over
\* HTTPS after a lost ack, changes no row and is given no number
\* (handlePush, POST /push).
THEOREM RepushIsNoop ==
    ASSUME NEW rm \in RoomType, NEW ops \in Ops
    PROVE  applyPushBatch(applyPushBatch(rm, ops), ops) = applyPushBatch(rm, ops)
<1> DEFINE new == applyPushBatch(rm, ops)
<1>1. \A r \in DOMAIN ops : r \in Row /\ ops[r] \in OpType /\ rm.rows[r] \in RowType
  BY DEF Ops, RoomType
<1>2. ASSUME NEW r \in DOMAIN ops
      PROVE  apply_op(new.rows[r], ops[r]) = new.rows[r]
  <2>1. CASE r \notin Touched(rm, ops)
    <3>1. new.rows[r] = rm.rows[r] /\ apply_op(rm.rows[r], ops[r]) = rm.rows[r]
      BY <1>1, <2>1, BatchParts DEF Touched
    <3>2. QED
      BY <3>1
  <2>2. CASE r \in Touched(rm, ops)
    <3> DEFINE a == apply_op(rm.rows[r], ops[r])
    <3>1. a \in RowType /\ apply_op(a, ops[r]) = a
      BY <1>1, ApplyAdvances, ApplyTwice
    <3>2. new.rows[r] = [a EXCEPT !.seq = rm.seq + 1] /\ rm.seq + 1 \in Nat
      BY <2>2, BatchParts DEF RoomType
    <3> HIDE DEF a, new
    <3>3. QED
      BY <1>1, <3>1, <3>2, SeqApart
  <2>3. QED
    BY <2>1, <2>2
<1>3. Touched(new, ops) = {}
  BY <1>2 DEF Touched
<1>4. QED
  BY <1>3 DEF applyPushBatch

-----------------------------------------------------------------------------
(* Maxima of finite sets of clocks and numbers.                            *)

\* A non-empty set of naturals has a least element.
LEMMA Least ==
    ASSUME NEW S \in SUBSET Nat, S # {}
    PROVE  \E x \in S : \A y \in S : x <= y
<1>1. PICK x \in S : \A y \in S : ~(<<y, x>> \in OpToRel(<, Nat))
  BY WFMin, NatLessThanWellFounded
<1>2. \A y \in S : ~(y < x)
  BY <1>1 DEF OpToRel
<1>3. QED
  BY <1>2

\* A finite set of naturals has a bound: the first length of an enumeration
\* without one would have a bound after all.
LEMMA FiniteBounded ==
    ASSUME NEW S \in SUBSET Nat, IsFiniteSet(S)
    PROVE  \E b \in Nat : \A x \in S : x <= b
<1>1. PICK n \in Nat : ExistsSurjection(1..n, S)
  BY FS_NatSurjection
<1>2. PICK f \in [1..n -> S] : \A x \in S : \E i \in 1..n : f[i] = x
  BY <1>1 DEF ExistsSurjection, Surjection
<1> DEFINE Bounds(m) == {b \in Nat : \A i \in 1..m : f[i] <= b}
           Free == {m \in 0..n : Bounds(m) = {}}
<1>3. ASSUME NEW m \in 0..n, \A k \in 0..n : k < m => Bounds(k) # {}
      PROVE  Bounds(m) # {}
  <2>1. CASE m = 0
    <3>1. 0 \in Bounds(m)
      BY <2>1
    <3>2. QED
      BY <3>1
  <2>2. CASE m # 0
    <3>1. m - 1 \in 0..n /\ m - 1 < m /\ m \in 1..n
      BY <2>2
    <3>2. PICK b \in Nat : \A i \in 1..(m - 1) : f[i] <= b
      BY <1>3, <3>1
    <3>3. f[m] \in Nat
      BY <1>2, <3>1
    <3>4. PICK c \in Nat : b <= c /\ f[m] <= c
      BY <3>3
    <3>5. ASSUME NEW i \in 1..m PROVE f[i] <= c
      <4>1. f[i] \in Nat /\ (i = m \/ i \in 1..(m - 1))
        <5>1. i \in 1..n
          BY <3>1
        <5>2. i = m \/ i \in 1..(m - 1)
          BY <3>1
        <5>3. QED
          BY <1>2, <5>1, <5>2
      <4>2. CASE i = m
        BY <3>4, <4>2
      <4>3. CASE i \in 1..(m - 1)
        <5>1. f[i] <= b
          BY <3>2, <4>3
        <5>2. QED
          BY <3>4, <4>1, <5>1
      <4>4. QED
        BY <4>1, <4>2, <4>3
    <3>6. QED
      BY <3>4, <3>5
  <2>3. QED
    BY <2>1, <2>2
<1>4. Free = {}
  <2> SUFFICES ASSUME Free # {} PROVE FALSE
    OBVIOUS
  <2> HIDE DEF Bounds
  <2>1. \E m \in Free : \A k \in Free : m <= k
    <3>1. Free \in SUBSET Nat
      OBVIOUS
    <3> HIDE DEF Free
    <3>2. QED
      BY <3>1, Least
  <2>2. PICK m \in 0..n : Bounds(m) = {} /\ \A k \in Free : m <= k
    BY <2>1
  <2>3. \A k \in 0..n : k < m => Bounds(k) # {}
    BY <2>2
  <2>4. QED
    BY <1>3, <2>2, <2>3
<1>5. PICK b \in Nat : \A i \in 1..n : f[i] <= b
  <2>1. n \in 0..n
    OBVIOUS
  <2>2. Bounds(n) # {}
    BY <1>4, <2>1
  <2>3. QED
    BY <2>2
<1>6. QED
  BY <1>2, <1>5

\* The image of a finite set under a function is finite.
LEMMA FiniteImage ==
    ASSUME NEW S, IsFiniteSet(S), NEW f, DOMAIN f = S, f = [x \in S |-> f[x]]
    PROVE  IsFiniteSet({f[x] : x \in S})
<1> DEFINE T == {f[x] : x \in S}
<1>1. f \in [S -> T] /\ \A t \in T : \E x \in S : f[x] = t
  OBVIOUS
<1> HIDE DEF T
<1>2. f \in Surjection(S, T)
  BY <1>1 DEF Surjection
<1>3. QED
  BY <1>2, FS_Surjection DEF T

\* Max of a non-empty finite set of naturals is its greatest member.
LEMMA MaxIn ==
    ASSUME NEW S \in SUBSET Nat, S # {}, IsFiniteSet(S)
    PROVE  Max(S) \in S /\ \A x \in S : x <= Max(S)
<1> DEFINE Above == {b \in Nat : \A x \in S : x <= b}
<1>1. PICK b \in Above : \A c \in Above : b <= c
  BY FiniteBounded, Least
<1>2. b \in S
  <2> SUFFICES ASSUME b \notin S PROVE FALSE
    OBVIOUS
  <2>1. \A x \in S : x <= b - 1
    BY <1>1
  <2>2. b - 1 \in Nat
    <3>1. PICK x \in S : x <= b - 1
      BY <2>1
    <3>2. x \in Nat /\ b \in Nat
      BY <1>1
    <3>3. QED
      BY <3>1, <3>2
  <2>3. QED
    BY <1>1, <2>1, <2>2
<1>3. \E x \in S : \A y \in S : x >= y
  BY <1>1, <1>2
<1>4. Max(S) \in S /\ \A y \in S : Max(S) >= y
  BY <1>3 DEF Max
<1>5. QED
  BY <1>4

LEMMA MaxClockType ==
    ASSUME NEW row \in RowType
    PROVE  maxClock(row) \in Nat
<1> DEFINE S == {row.clocks[f] : f \in Field}
<1>1. row.delHlc \in Nat /\ S \subseteq Nat
  BY DEF RowType
<1>2. IsFiniteSet(S)
  <2>1. row.clocks \in [Field -> Nat]
    BY DEF RowType
  <2>2. QED
    BY <2>1, TableAssumption, FiniteImage
<1>3. IsFiniteSet({row.delHlc} \cup S)
  BY <1>2, FS_Singleton, FS_Union
<1>4. Max({row.delHlc} \cup S) \in Nat
  BY <1>1, <1>3, MaxIn
<1>5. QED
  BY <1>4 DEF maxClock

-----------------------------------------------------------------------------
(* Types.                                                                  *)

Tables == [Row -> RowType]
PartialTables == UNION {[S -> RowType] : S \in SUBSET Row}
BatchType == [id : Nat, ops : Ops, in_flight : BOOLEAN]
Queue == Seq(BatchType)
DocType == [auth : Tables, cursor : Nat, pending : Queue]

StateType == [t : {"state"}, seq : Nat, full : BOOLEAN, rows : PartialTables]
RowsType == [t : {"rows"}, seq : Nat, rows : PartialTables]
UpType == [t : {"hello"}, cursor : Nat] \cup [t : {"push"}, id : Nat, ops : Ops]
DownType == StateType \cup RowsType \cup [t : {"ack"}, id : Nat] \cup [t : {"close"}]
HttpType ==
    [at : {"idle", "start"}] \cup [at : {"push"}, todo : Queue]
        \cup [at : {"posted"}, todo : Queue \ {<<>>}]
        \cup [at : {"ask"}, since : Nat] \cup [at : {"answer"}, frame : StateType]

\* Ids in the order they were minted, those in flight first.
Ordered(q, n) ==
    /\ \A i \in DOMAIN q : q[i].id <= n
    /\ \A i, j \in DOMAIN q : i < j =>
          /\ q[i].id < q[j].id
          /\ q[j].in_flight => q[i].in_flight

GoodDoc(c, n) == c \in DocType /\ Ordered(c.pending, n)

-----------------------------------------------------------------------------
(* Documents.                                                              *)

LEMMA WithPending ==
    ASSUME NEW c \in DocType, NEW q \in Queue
    PROVE  /\ [c EXCEPT !.pending = q] \in DocType
           /\ [c EXCEPT !.pending = q].pending = q
BY DEF DocType

\* The parts of the batch at a place of a queue.
LEMMA InQueue ==
    ASSUME NEW q \in Queue
    PROVE  /\ DOMAIN q = 1..Len(q) /\ Len(q) \in Nat
           /\ \A i \in DOMAIN q : q[i] \in BatchType /\ q[i].id \in Nat /\ q[i].ops \in Ops
<1>1. q \in Seq(BatchType)
  BY DEF Queue
<1>2. DOMAIN q = 1..Len(q) /\ Len(q) \in Nat /\ \A i \in 1..Len(q) : q[i] \in BatchType
  BY <1>1, LenProperties, ElementOfSeq
<1>3. \A b \in BatchType : b.id \in Nat /\ b.ops \in Ops
  BY DEF BatchType
<1>4. QED
  BY <1>2, <1>3

LEMMA MarkFlightGood ==
    ASSUME NEW c, NEW n, GoodDoc(c, n), NEW b \in BOOLEAN
    PROVE  GoodDoc(MarkFlight(c, b), n)
<1> DEFINE p == c.pending
           q == [i \in DOMAIN p |-> [p[i] EXCEPT !.in_flight = b]]
<1>1. c \in DocType /\ p \in Queue /\ Ordered(p, n)
  BY DEF GoodDoc, DocType
<1>2. DOMAIN p = 1..Len(p) /\ Len(p) \in Nat /\ \A i \in DOMAIN p : p[i] \in BatchType
  BY <1>1, InQueue
<1>3. MarkFlight(c, b) = [c EXCEPT !.pending = q]
  BY DEF MarkFlight
<1> HIDE DEF p
<1>4. \A i \in DOMAIN p : /\ [p[i] EXCEPT !.in_flight = b] \in BatchType
                          /\ [p[i] EXCEPT !.in_flight = b].id = p[i].id
                          /\ [p[i] EXCEPT !.in_flight = b].in_flight = b
  BY <1>2 DEF BatchType
<1>5. DOMAIN q = DOMAIN p /\ \A i \in DOMAIN p : q[i] = [p[i] EXCEPT !.in_flight = b]
  OBVIOUS
<1> HIDE DEF q
<1>6. \A i \in DOMAIN q : q[i] \in BatchType /\ q[i].id = p[i].id /\ q[i].in_flight = b
  BY <1>4, <1>5
<1>7. q \in Queue
  <2>1. q = [i \in 1..Len(p) |-> q[i]]
    <3>1. q = [i \in DOMAIN p |-> q[i]]
      BY DEF q
    <3>2. QED
      BY <3>1, <1>2
  <2>2. QED
    BY <2>1, <1>2, <1>5, <1>6, IsASeq DEF Queue
<1>8. Ordered(q, n)
  BY <1>1, <1>5, <1>6 DEF Ordered
<1>9. QED
  BY <1>1, <1>3, <1>7, <1>8, WithPending DEF GoodDoc

\* A queue without the batch at one of its places.
LEMMA RemovePlace ==
    ASSUME NEW p \in Queue, NEW k \in 1..Len(p)
    PROVE  /\ RemoveAt(p, k) \in Queue /\ Len(RemoveAt(p, k)) = Len(p) - 1
           /\ \A i \in 1..Len(RemoveAt(p, k)) :
                 RemoveAt(p, k)[i] = IF i < k THEN p[i] ELSE p[i + 1]
<1> DEFINE q == RemoveAt(p, k)
<1>0. k \in Nat /\ Len(p) \in Nat /\ 1 <= k /\ k <= Len(p)
  BY InQueue
<1>1. /\ SubSeq(p, 1, k - 1) \in Seq(BatchType)
      /\ Len(SubSeq(p, 1, k - 1)) = k - 1
      /\ \A i \in 1..(k - 1) : SubSeq(p, 1, k - 1)[i] = p[i]
  BY SubSeqProperties DEF Queue
<1>2. /\ SubSeq(p, k + 1, Len(p)) \in Seq(BatchType)
      /\ Len(SubSeq(p, k + 1, Len(p))) = Len(p) - k
      /\ \A i \in 1..(Len(p) - k) : SubSeq(p, k + 1, Len(p))[i] = p[i + k]
  BY SubSeqProperties DEF Queue
<1>3. q = SubSeq(p, 1, k - 1) \o SubSeq(p, k + 1, Len(p))
  BY DEF RemoveAt
<1> DEFINE a == SubSeq(p, 1, k - 1)
           z == SubSeq(p, k + 1, Len(p))
<1> HIDE DEF a, z, q
<1>4. /\ a \o z \in Seq(BatchType) /\ Len(a \o z) = Len(a) + Len(z)
      /\ \A i \in 1..(Len(a) + Len(z)) :
            (a \o z)[i] = IF i <= Len(a) THEN a[i] ELSE z[i - Len(a)]
  BY <1>1, <1>2, ConcatProperties DEF a, z
<1>5. /\ q = a \o z /\ Len(a) = k - 1 /\ Len(z) = Len(p) - k
      /\ \A i \in 1..(k - 1) : a[i] = p[i]
      /\ \A i \in 1..(Len(p) - k) : z[i] = p[i + k]
  BY <1>1, <1>2, <1>3 DEF a, z
<1>6. q \in Queue /\ Len(q) = Len(p) - 1
  <2>1. k \in Nat /\ Len(p) \in Nat
    BY <1>0
  <2>2. Len(q) = (k - 1) + (Len(p) - k)
    BY <1>4, <1>5
  <2>3. q \in Queue
    BY <1>4, <1>5 DEF Queue
  <2>4. QED
    BY <2>1, <2>2, <2>3
<1>7. ASSUME NEW i \in 1..Len(q)
      PROVE  q[i] = IF i < k THEN p[i] ELSE p[i + 1]
  <2>1. CASE i < k
    <3>1. i \in 1..(k - 1) /\ i <= Len(a) /\ i \in 1..(Len(a) + Len(z))
      BY <1>0, <1>5, <1>6, <2>1
    <3>2. (a \o z)[i] = a[i]
      BY <1>4, <3>1
    <3>3. a[i] = p[i]
      BY <1>5, <3>1
    <3>4. QED
      BY <1>5, <2>1, <3>2, <3>3
  <2>2. CASE ~(i < k)
    <3>1. i - (k - 1) \in 1..(Len(p) - k) /\ i - (k - 1) + k = i + 1
      BY <1>0, <1>6, <2>2
    <3>2. q[i] = z[i - (k - 1)]
      BY <1>0, <1>4, <1>5, <1>6, <2>2
    <3>3. QED
      BY <1>5, <2>2, <3>1, <3>2
  <2>3. QED
    BY <2>1, <2>2
<1>8. QED
  BY <1>6, <1>7 DEF q

LEMMA AckGood ==
    ASSUME NEW c, NEW n, GoodDoc(c, n), NEW id
    PROVE  GoodDoc(ack_batch(c, id), n)
<1> DEFINE p == c.pending
           k == CHOOSE i \in DOMAIN p : p[i].id = id
           q == RemoveAt(p, k)
<1>1. c \in DocType /\ p \in Queue /\ Ordered(p, n)
  BY DEF GoodDoc, DocType
<1>2. DOMAIN p = 1..Len(p) /\ Len(p) \in Nat
  BY <1>1, InQueue
<1>3. CASE ~\E i \in DOMAIN p : p[i].id = id
  <2>1. ack_batch(c, id) = [c EXCEPT !.pending = p]
    BY <1>3 DEF ack_batch
  <2>2. QED
    BY <1>1, <2>1, WithPending DEF GoodDoc
<1>4. CASE \E i \in DOMAIN p : p[i].id = id
  <2>1. ack_batch(c, id) = [c EXCEPT !.pending = q]
    BY <1>4 DEF ack_batch
  <2>2. k \in 1..Len(p)
    BY <1>2, <1>4
  <2> HIDE DEF k, p
  <2>3. /\ q \in Queue /\ Len(q) = Len(p) - 1
        /\ \A i \in 1..Len(q) : q[i] = IF i < k THEN p[i] ELSE p[i + 1]
    BY <1>1, <2>2, RemovePlace
  <2> HIDE DEF q
  <2>4. Ordered(q, n)
    <3> DEFINE at(i) == IF i < k THEN i ELSE i + 1
    <3>1. DOMAIN q = 1..Len(q)
      BY <2>3, InQueue
    <3>2. \A i \in DOMAIN q : at(i) \in DOMAIN p /\ q[i] = p[at(i)]
      BY <1>2, <2>2, <2>3, <3>1
    <3>3. \A i, j \in DOMAIN q : i < j => at(i) < at(j)
      BY <2>2, <3>1
    <3> HIDE DEF at
    <3>4. QED
      BY <1>1, <3>2, <3>3 DEF Ordered
  <2>5. QED
    BY <1>1, <2>1, <2>3, <2>4, WithPending DEF GoodDoc
<1>5. QED
  BY <1>3, <1>4

LEMMA PushableType ==
    ASSUME NEW c \in DocType
    PROVE  Pushable(c) \in Queue
<1> DEFINE p == c.pending
           F == {i \in DOMAIN p : p[i].in_flight}
<1>1. p \in Seq(BatchType) /\ DOMAIN p = 1..Len(p) /\ Len(p) \in Nat
  BY InQueue DEF DocType, Queue
<1>2. IsFiniteSet(F) /\ Cardinality(F) \in Nat
  <2>1. IsFiniteSet(1..Len(p)) /\ F \in SUBSET (1..Len(p))
    BY <1>1, FS_Interval
  <2>2. QED
    BY <2>1, FS_Subset, FS_CardinalityType
<1>3. Pushable(c) = SubSeq(p, Cardinality(F) + 1, Len(p))
  BY DEF Pushable
<1> HIDE DEF p, F
<1>4. SubSeq(p, Cardinality(F) + 1, Len(p)) \in Seq(BatchType)
  <2>1. \A i \in (Cardinality(F) + 1)..Len(p) : i \in 1..Len(p)
    BY <1>1, <1>2
  <2>2. Cardinality(F) + 1 \in 1..(Len(p) + 1) \/ Cardinality(F) + 1 > Len(p)
    BY <1>1, <1>2
  <2>3. QED
    BY <1>1, <1>2, <2>1, <2>2, SubSeqProperties, SubSeqEmpty, EmptySeq
<1>5. QED
  BY <1>3, <1>4 DEF Queue

\* A new batch goes behind the others.
LEMMA EnqueueGood ==
    ASSUME NEW q \in Queue, NEW n \in Nat, Ordered(q, n), NEW ops \in Ops
    PROVE  /\ enqueue_ops(q, n + 1, ops) \in Queue
           /\ Ordered(enqueue_ops(q, n + 1, ops), n + 1)
           /\ DOMAIN ops = {} => enqueue_ops(q, n + 1, ops) = q
<1> DEFINE b == [id |-> n + 1, ops |-> ops, in_flight |-> FALSE]
           w == Append(q, b)
<1>1. DOMAIN q = 1..Len(q) /\ Len(q) \in Nat /\ \A i \in DOMAIN q : q[i].id \in Nat
  BY InQueue
<1>2. Ordered(q, n + 1)
  BY <1>1 DEF Ordered
<1>3. b \in BatchType /\ b.id = n + 1 /\ b.in_flight = FALSE
  BY DEF BatchType
<1> HIDE DEF b
<1>4. /\ w \in Queue /\ Len(w) = Len(q) + 1
      /\ \A i \in 1..Len(q) : w[i] = q[i]
      /\ w[Len(q) + 1] = b
  BY <1>3, AppendProperties DEF Queue
<1> HIDE DEF w
<1>5. DOMAIN w = 1..(Len(q) + 1)
  BY <1>1, <1>4, InQueue
<1>6. Ordered(w, n + 1)
  <2>1. ASSUME NEW i \in DOMAIN w
        PROVE  (i \in DOMAIN q /\ w[i] = q[i]) \/ (i = Len(q) + 1 /\ w[i] = b)
    <3>1. i \in 1..Len(q) \/ i = Len(q) + 1
      BY <1>1, <1>5
    <3>2. CASE i \in 1..Len(q)
      BY <1>1, <1>4, <3>2
    <3>3. CASE i = Len(q) + 1
      BY <1>4, <3>3
    <3>4. QED
      BY <3>1, <3>2, <3>3
  <2>2. \A i \in DOMAIN w : w[i].id <= n + 1
    <3> SUFFICES ASSUME NEW i \in DOMAIN w PROVE w[i].id <= n + 1
      OBVIOUS
    <3>1. CASE i \in DOMAIN q /\ w[i] = q[i]
      BY <1>2, <3>1 DEF Ordered
    <3>2. CASE w[i] = b
      BY <1>3, <3>2
    <3>3. QED
      BY <2>1, <3>1, <3>2
  <2>3. ASSUME NEW i \in DOMAIN w, NEW j \in DOMAIN w, i < j
        PROVE  w[i].id < w[j].id /\ (w[j].in_flight => w[i].in_flight)
    <3>1. i \in DOMAIN q /\ w[i] = q[i]
      BY <1>1, <1>4, <1>5, <2>3
    <3>2. CASE j \in DOMAIN q /\ w[j] = q[j]
      BY <2>3, <3>1, <3>2 DEF Ordered
    <3>3. CASE w[j] = b
      <4>1. q[i].id <= n /\ q[i].id \in Nat
        BY <1>1, <3>1 DEF Ordered
      <4>2. QED
        BY <1>3, <3>1, <3>3, <4>1
    <3>4. QED
      BY <2>1, <3>2, <3>3
  <2>4. QED
    BY <2>2, <2>3 DEF Ordered
<1>7. QED
  BY <1>2, <1>4, <1>6 DEF enqueue_ops, w, b

LEMMA PutType ==
    ASSUME NEW auth \in Tables, NEW rows \in PartialTables
    PROVE  put_authoritative(auth, rows) \in Tables
<1>1. \A r \in DOMAIN rows : rows[r] \in RowType
  BY DEF PartialTables
<1>2. \A r \in Row : auth[r] \in RowType
  BY DEF Tables
<1>3. QED
  BY <1>1, <1>2 DEF put_authoritative, Tables

LEMMA SeedType ==
    ASSUME NEW row \in RowType
    PROVE  row_to_seed_op(row) \in OpType
<1>1. maxClock(row) \in Nat
  BY MaxClockType
<1>2. CASE row.deleted
  BY <1>2 DEF row_to_seed_op, RowType, OpType, NoClocks
<1>3. CASE ~row.deleted
  BY <1>1, <1>3 DEF row_to_seed_op, RowType, OpType
<1>4. QED
  BY <1>2, <1>3

LEMMA AbsentType == Absent \in RowType /\ Absent.seq = 0 /\ EmptyDoc.auth \in Tables
<1>1. Absent \in RowType /\ Absent.seq = 0
  BY DEF Absent, RowType, NoClocks
<1>2. QED
  BY <1>1 DEF EmptyDoc, Tables

\* The batch that seeds a set of rows again.
LEMMA SeedsType ==
    ASSUME NEW auth \in Tables, NEW S \in SUBSET Row
    PROVE  /\ [r \in S |-> row_to_seed_op(auth[r])] \in Ops
           /\ DOMAIN [r \in S |-> row_to_seed_op(auth[r])] = S
<1>1. \A r \in S : row_to_seed_op(auth[r]) \in OpType
  BY SeedType DEF Tables
<1>2. [r \in S |-> row_to_seed_op(auth[r])] \in [S -> OpType]
  BY <1>1
<1>3. QED
  BY <1>2 DEF Ops

\* A state frame leaves a good document; an id is minted if rows are seeded.
LEMMA ApplyStateGood ==
    ASSUME NEW c, NEW n \in Nat, GoodDoc(c, n), NEW frame \in StateType
    PROVE  /\ GoodDoc(apply_state(c, frame, n + 1), n + 1)
           /\ Reseeded(c, frame) = {} => GoodDoc(apply_state(c, frame, n + 1), n)
<1> DEFINE S == Reseeded(c, frame)
           ops == [r \in S |-> row_to_seed_op(c.auth[r])]
           q == enqueue_ops(c.pending, n + 1, ops)
           auth == IF frame.full /\ frame.seq >= c.cursor
                   THEN put_authoritative(EmptyDoc.auth, frame.rows)
                   ELSE put_authoritative(c.auth, frame.rows)
           new == [auth |-> auth, cursor |-> frame.seq, pending |-> q]
<1>1. c.auth \in Tables /\ c.pending \in Queue /\ Ordered(c.pending, n)
  BY DEF GoodDoc, DocType
<1>2. frame.seq \in Nat /\ frame.rows \in PartialTables
  BY DEF StateType
<1>3. S \subseteq Row
  BY DEF Reseeded, Held
<1>4. ops \in Ops /\ DOMAIN ops = S
  BY <1>1, <1>3, SeedsType
<1>5. /\ q \in Queue /\ Ordered(q, n + 1)
      /\ S = {} => q = c.pending
  <2> HIDE DEF ops, S
  <2>1. QED
    BY <1>1, <1>4, EnqueueGood
<1>6. auth \in Tables
  BY <1>1, <1>2, AbsentType, PutType
<1>7. apply_state(c, frame, n + 1) = new
  BY DEF apply_state
<1> HIDE DEF auth, q, S
<1>8. new \in DocType /\ new.pending = q
  BY <1>2, <1>5, <1>6 DEF DocType
<1> HIDE DEF new
<1>9. QED
  BY <1>1, <1>5, <1>7, <1>8 DEF GoodDoc, S

LEMMA MaxOfTwo ==
    ASSUME NEW a \in Nat, NEW b \in Nat
    PROVE  /\ Max({a, b}) \in Nat /\ Max({a, b}) \in {a, b}
           /\ a <= Max({a, b}) /\ b <= Max({a, b})
<1>1. IsFiniteSet({a, b})
  <2>1. IsFiniteSet({a}) /\ IsFiniteSet({b})
    BY FS_Singleton
  <2>2. \A S, T : IsFiniteSet(S) /\ IsFiniteSet(T) => IsFiniteSet(S \cup T)
    BY FS_Union
  <2>3. IsFiniteSet({a} \cup {b})
    BY <2>1, <2>2
  <2>4. {a, b} = {a} \cup {b}
    OBVIOUS
  <2>5. QED
    BY <2>3, <2>4
<1>2. QED
  BY <1>1, MaxIn

LEMMA ApplyRowsGood ==
    ASSUME NEW c, NEW n, GoodDoc(c, n), NEW frame \in RowsType
    PROVE  GoodDoc(apply_rows(c, frame), n)
<1> DEFINE auth == put_authoritative(c.auth, frame.rows)
           cursor == IF Gap(c, frame) THEN c.cursor ELSE Max({c.cursor, frame.seq})
<1>1. c \in DocType /\ c.auth \in Tables /\ c.cursor \in Nat
  BY DEF GoodDoc, DocType
<1>2. frame.seq \in Nat /\ frame.rows \in PartialTables
  BY DEF RowsType
<1>3. auth \in Tables /\ cursor \in Nat
  BY <1>1, <1>2, PutType, MaxOfTwo
<1>4. apply_rows(c, frame) = [c EXCEPT !.auth = auth, !.cursor = cursor]
  BY DEF apply_rows
<1> HIDE DEF auth, cursor
<1>5. /\ [c EXCEPT !.auth = auth, !.cursor = cursor] \in DocType
      /\ [c EXCEPT !.auth = auth, !.cursor = cursor].pending = c.pending
  BY <1>1, <1>3 DEF DocType
<1>6. QED
  BY <1>4, <1>5 DEF GoodDoc

-----------------------------------------------------------------------------
(* The room and its frames.                                                *)

\* No row has a number the room has not given, nor had any purged tombstone.
Numbers(rm) == rm.gcFloor <= rm.seq /\ \A r \in Row : rm.rows[r].seq <= rm.seq

GoodRoom(rm) == rm \in RoomType /\ Numbers(rm)

LEMMA EmptyRoomGood == GoodRoom(EmptyRoom)
<1>1. [r \in Row |-> Absent] \in [Row -> RowType] /\ \A r \in Row : [x \in Row |-> Absent][r].seq = 0
  BY AbsentType
<1>2. QED
  BY <1>1 DEF EmptyRoom, GoodRoom, RoomType, Numbers

\* A push keeps the room good; the merged rows it broadcasts are rows.
LEMMA PushGood ==
    ASSUME NEW rm, GoodRoom(rm), NEW ops \in Ops
    PROVE  GoodRoom(applyPushBatch(rm, ops)) /\ RowsFrame(rm, ops) \in RowsType
<1> DEFINE new == applyPushBatch(rm, ops)
           T == Touched(rm, ops)
<1>1. /\ rm \in RoomType /\ rm.rows \in [Row -> RowType]
      /\ rm.seq \in Nat /\ rm.gcFloor \in Nat /\ Numbers(rm)
  BY DEF GoodRoom, RoomType
<1>2. /\ new \in RoomType
      /\ \A r \in Row : r \notin T => new.rows[r] = rm.rows[r]
      /\ \A r \in T : /\ r \in Row /\ ops[r] \in OpType
                      /\ new.rows[r] = [apply_op(rm.rows[r], ops[r]) EXCEPT !.seq = rm.seq + 1]
  BY <1>1, BatchParts
<1>3. /\ new.seq = IF T = {} THEN rm.seq ELSE rm.seq + 1
      /\ new.gcFloor = rm.gcFloor
  BY <1>1 DEF applyPushBatch, RoomType
<1>4. RowsFrame(rm, ops) = [t |-> "rows", seq |-> new.seq, rows |-> [r \in T |-> new.rows[r]]]
  BY DEF RowsFrame
<1> HIDE DEF new, T
<1>5. \A r \in T : new.rows[r].seq = rm.seq + 1
  <2> SUFFICES ASSUME NEW r \in T PROVE new.rows[r].seq = rm.seq + 1
    OBVIOUS
  <2>1. apply_op(rm.rows[r], ops[r]) \in RowType
    BY <1>1, <1>2, ApplyAdvances
  <2>2. QED
    BY <1>2, <2>1 DEF RowType
<1>6. Numbers(new)
  <2>1. new.gcFloor <= new.seq /\ rm.seq <= new.seq
    BY <1>1, <1>3 DEF Numbers
  <2>2. ASSUME NEW r \in Row PROVE new.rows[r].seq <= new.seq
    <3>1. CASE r \in T
      BY <1>1, <1>3, <1>5, <3>1
    <3>2. CASE r \notin T
      <4>1. new.rows[r].seq = rm.rows[r].seq /\ rm.rows[r].seq \in Nat
            /\ rm.rows[r].seq <= rm.seq
        BY <1>1, <1>2, <3>2 DEF RowType, Numbers
      <4>2. new.seq \in Nat
        BY <1>2 DEF RoomType
      <4>3. QED
        BY <1>1, <2>1, <4>1, <4>2
    <3>3. QED
      BY <3>1, <3>2
  <2>3. QED
    BY <2>1, <2>2 DEF Numbers
<1>7. [r \in T |-> new.rows[r]] \in PartialTables
  <2>1. T \subseteq Row /\ \A r \in T : new.rows[r] \in RowType
    BY <1>2 DEF RoomType
  <2>2. [r \in T |-> new.rows[r]] \in [T -> RowType]
    BY <2>1
  <2>3. QED
    BY <2>1, <2>2 DEF PartialTables
<1>8. new.seq \in Nat
  BY <1>2 DEF RoomType
<1>9. RowsFrame(rm, ops) \in RowsType
  BY <1>4, <1>7, <1>8 DEF RowsType
<1>10. QED
  BY <1>2, <1>6, <1>9 DEF GoodRoom, new

LEMMA StateFrameType ==
    ASSUME NEW rm, GoodRoom(rm), NEW cursor \in Nat
    PROVE  StateFrame(rm, cursor) \in StateType
<1> DEFINE full == cursor < rm.gcFloor \/ cursor > rm.seq
           S == {x \in Held(rm.rows) : full \/ rm.rows[x].seq > cursor}
           rows == [r \in S |-> rm.rows[r]]
<1>1. rm.rows \in [Row -> RowType] /\ rm.seq \in Nat
  BY DEF GoodRoom, RoomType
<1>2. S \subseteq Row
  BY DEF Held
<1>3. StateFrame(rm, cursor) = [t |-> "state", seq |-> rm.seq, full |-> full, rows |-> rows]
  BY DEF StateFrame
<1>4. full \in BOOLEAN
  OBVIOUS
<1> HIDE DEF full, S
<1>5. rows \in [S -> RowType]
  BY <1>1, <1>2
<1>6. rows \in PartialTables
  BY <1>2, <1>5 DEF PartialTables
<1> HIDE DEF rows
<1>7. QED
  BY <1>1, <1>3, <1>4, <1>6 DEF StateType

LEMMA PurgeGood ==
    ASSUME NEW rm, GoodRoom(rm), NEW horizon, Purgeable(rm, horizon) # {}
    PROVE  GoodRoom(PurgeTombstones(rm, horizon))
<1> DEFINE gone == Purgeable(rm, horizon)
           seqs == {rm.rows[r].seq : r \in gone}
           floor == Max({rm.gcFloor} \cup seqs)
           table == [r \in Row |-> IF r \in gone THEN Absent ELSE rm.rows[r]]
<1>1. /\ rm \in RoomType /\ rm.rows \in [Row -> RowType]
      /\ rm.seq \in Nat /\ rm.gcFloor \in Nat /\ Numbers(rm)
  BY DEF GoodRoom, RoomType
<1>2. gone \subseteq Row
  BY DEF Purgeable, Held
<1>3. PurgeTombstones(rm, horizon) = [rm EXCEPT !.rows = table, !.gcFloor = floor]
  BY DEF PurgeTombstones
<1> HIDE DEF gone
<1>4. IsFiniteSet(seqs)
  <2> DEFINE f == [r \in gone |-> rm.rows[r].seq]
  <2>1. IsFiniteSet(gone)
    BY <1>2, TableAssumption, FS_Subset
  <2>2. IsFiniteSet({f[r] : r \in gone})
    BY <2>1, FiniteImage
  <2>3. {f[r] : r \in gone} = seqs
    OBVIOUS
  <2>4. QED
    BY <2>2, <2>3
<1>5. seqs \subseteq Nat /\ \A x \in seqs : x <= rm.seq
  BY <1>1, <1>2 DEF RowType, Numbers
<1> HIDE DEF seqs
<1>6. floor \in Nat /\ floor <= rm.seq
  <2>1. IsFiniteSet({rm.gcFloor} \cup seqs)
    BY <1>4, FS_Singleton, FS_Union
  <2>2. floor \in {rm.gcFloor} \cup seqs
    BY <1>1, <1>5, <2>1, MaxIn
  <2>3. QED
    BY <1>1, <1>5, <2>2 DEF Numbers
<1>7. /\ table \in [Row -> RowType]
      /\ \A r \in Row : table[r].seq <= rm.seq
  BY <1>1, <1>2, AbsentType DEF Numbers
<1> HIDE DEF floor, table
<1> DEFINE tables == [Row -> RowType]
<1>8. rm \in [rows : tables, seq : Nat, gcFloor : Nat] /\ table \in tables
  BY <1>1, <1>7 DEF RoomType
<1> HIDE DEF tables
<1>9. /\ [rm EXCEPT !.rows = table, !.gcFloor = floor] \in [rows : tables, seq : Nat, gcFloor : Nat]
      /\ [rm EXCEPT !.rows = table, !.gcFloor = floor].rows = table
      /\ [rm EXCEPT !.rows = table, !.gcFloor = floor].seq = rm.seq
      /\ [rm EXCEPT !.rows = table, !.gcFloor = floor].gcFloor = floor
  BY <1>6, <1>8
<1>10. QED
  BY <1>3, <1>6, <1>7, <1>9 DEF GoodRoom, RoomType, Numbers, tables

-----------------------------------------------------------------------------
(* The invariant.                                                          *)

Docs ==
    /\ doc \in [Device -> DocType] /\ disk \in [Device -> DocType]
    /\ minted \in [Device -> Nat]
    /\ \A d \in Device : /\ Ordered(doc[d].pending, minted[d])
                         /\ Ordered(disk[d].pending, minted[d])

Wires ==
    /\ sess \in [Device -> {"down", "hello", "joined"}]
    /\ up \in [Device -> Seq(UpType)] /\ down \in [Device -> Seq(DownType)]
    /\ \A d \in Device : sess[d] = "down" => up[d] = <<>> /\ down[d] = <<>>

Inv ==
    /\ GoodRoom(room) /\ Docs /\ Wires
    /\ http \in [Device -> HttpType]
    /\ late \subseteq Ops
    /\ left \in [FaultKinds -> Nat]

LEMMA InitInv ==
    ASSUME Init PROVE Inv
<1>1. EmptyDoc \in DocType /\ Ordered(EmptyDoc.pending, 0)
  <2>1. EmptyDoc.auth \in Tables /\ <<>> \in Queue
    BY AbsentType, EmptySeq DEF Queue
  <2>2. EmptyDoc.pending = <<>>
    BY DEF EmptyDoc
  <2>3. EmptyDoc = [auth |-> EmptyDoc.auth, cursor |-> 0, pending |-> <<>>]
    BY DEF EmptyDoc
  <2>4. EmptyDoc \in DocType
    BY <2>1, <2>3 DEF DocType
  <2>5. QED
    BY <2>2, <2>4 DEF Ordered
<1>2. Docs
  BY <1>1 DEF Init, Docs
<1>3. Wires
  BY EmptySeq DEF Init, Wires
<1>4. http \in [Device -> HttpType]
  BY DEF Init, HttpType, Idle
<1>5. left \in [FaultKinds -> Nat] /\ late \subseteq Ops
  BY FaultsAssumption DEF Init
<1>6. QED
  BY <1>2, <1>3, <1>4, <1>5, EmptyRoomGood DEF Init, Inv

\* A fault spent leaves fewer of its kind.
LEMMA SpendParts ==
    ASSUME left \in [FaultKinds -> Nat], NEW k \in FaultKinds \ {"any"}, Spend(k)
    PROVE  left' \in [FaultKinds -> Nat] /\ left'[k] # left[k]
<1>1. "any" \in FaultKinds /\ left[k] \in Nat \ {0} /\ left["any"] \in Nat \ {0}
  BY DEF Spend, FaultKinds
<1>2. left' = [left EXCEPT ![k] = left[k] - 1, !["any"] = left["any"] - 1]
  BY DEF Spend
<1>3. left[k] - 1 \in Nat /\ left["any"] - 1 \in Nat /\ left[k] - 1 # left[k]
  BY <1>1
<1>4. QED
  BY <1>1, <1>2, <1>3

\* One document changes, and perhaps the last id its device minted.
LEMMA DocUpdate ==
    ASSUME Docs, NEW d \in Device, NEW c, NEW n \in Nat,
           minted[d] <= n, GoodDoc(c, n),
           doc' = [doc EXCEPT ![d] = c], minted' = [minted EXCEPT ![d] = n], disk' = disk
    PROVE  Docs'
<1>1. c \in DocType /\ Ordered(c.pending, n)
  BY DEF GoodDoc
<1>2. doc' \in [Device -> DocType] /\ disk' \in [Device -> DocType] /\ minted' \in [Device -> Nat]
  BY <1>1 DEF Docs
<1>3. Ordered(disk[d].pending, n)
  <2>1. disk[d].pending \in Queue /\ Ordered(disk[d].pending, minted[d]) /\ minted[d] \in Nat
    BY DEF Docs, DocType
  <2>2. \A i \in DOMAIN disk[d].pending : disk[d].pending[i].id \in Nat
    BY <2>1, InQueue
  <2>3. QED
    BY <2>1, <2>2 DEF Ordered
<1>4. ASSUME NEW e \in Device
      PROVE  /\ Ordered(doc'[e].pending, minted'[e])
             /\ Ordered(disk'[e].pending, minted'[e])
  <2>1. CASE e = d
    BY <1>1, <1>3, <2>1 DEF Docs
  <2>2. CASE e # d
    BY <2>2 DEF Docs
  <2>3. QED
    BY <2>1, <2>2
<1>5. QED
  BY <1>2, <1>4 DEF Docs

\* No id is minted.
LEMMA DocReplaced ==
    ASSUME Docs, NEW d \in Device, NEW c, GoodDoc(c, minted[d]),
           doc' = [doc EXCEPT ![d] = c], minted' = minted, disk' = disk
    PROVE  Docs'
<1>1. minted[d] \in Nat /\ minted' = [minted EXCEPT ![d] = minted[d]]
  BY DEF Docs
<1>2. minted[d] <= minted[d]
  BY <1>1
<1>3. QED
  BY <1>1, <1>2, DocUpdate

\* The documents of a device.
LEMMA DocOf ==
    ASSUME Docs, NEW d \in Device
    PROVE  /\ GoodDoc(doc[d], minted[d]) /\ GoodDoc(disk[d], minted[d])
           /\ minted[d] \in Nat /\ doc[d].cursor \in Nat /\ doc[d].pending \in Queue
BY DEF Docs, GoodDoc, DocType

LEMMA UndeliveredType ==
    ASSUME Wires, NEW d \in Device
    PROVE  Undelivered(d) \subseteq Ops
<1>1. up[d] \in Seq(UpType)
  BY DEF Wires
<1>2. \A i \in DOMAIN up[d] : up[d][i] \in UpType
  BY <1>1, ElementOfSeq, LenProperties
<1>3. \A f \in UpType : f.t = "push" => f.ops \in Ops
  BY DEF UpType
<1>4. QED
  BY <1>2, <1>3 DEF Undelivered

LEMMA SpawnType ==
    ASSUME NEW d, NEW task \in HttpType
    PROVE  spawn_offline_sync(d, task) \in HttpType
BY DEF spawn_offline_sync, HttpType

\* A session ends with a good document.
LEMMA EndSessionInv ==
    ASSUME Inv, NEW d \in Device, NEW c, GoodDoc(c, minted[d]), EndSession(d, c),
           minted' = minted, disk' = disk
    PROVE  /\ Docs' /\ Wires' /\ http' \in [Device -> HttpType] /\ late' \subseteq Ops
<1>1. Docs'
  <2>1. GoodDoc(mark_disconnected(c), minted[d])
    BY MarkFlightGood DEF mark_disconnected
  <2>2. doc' = [doc EXCEPT ![d] = mark_disconnected(c)]
    BY DEF EndSession
  <2>3. QED
    BY <2>1, <2>2, DocReplaced DEF Inv
<1>2. Wires'
  BY EmptySeq DEF EndSession, Wires, Inv
<1>3. http' \in [Device -> HttpType]
  <2>1. spawn_offline_sync(d, http[d]) \in HttpType
    BY SpawnType DEF Inv
  <2>2. QED
    BY <2>1 DEF EndSession, Inv
<1>4. late' \subseteq Ops
  BY UndeliveredType DEF EndSession, Inv
<1>5. QED
  BY <1>1, <1>2, <1>3, <1>4

\* Frames sent for a list of batches.
LEMMA PushFramesType ==
    ASSUME NEW q \in Queue
    PROVE  PushFrames(q) \in Seq(UpType)
<1> DEFINE f(i) == [t |-> "push", id |-> q[i].id, ops |-> q[i].ops]
<1>1. DOMAIN q = 1..Len(q) /\ Len(q) \in Nat
      /\ \A i \in DOMAIN q : q[i].id \in Nat /\ q[i].ops \in Ops
  BY InQueue
<1>2. \A i \in DOMAIN q : f(i) \in UpType
  BY <1>1 DEF UpType
<1>3. PushFrames(q) = [i \in 1..Len(q) |-> f(i)]
  BY <1>1 DEF PushFrames
<1> HIDE DEF f
<1>4. \A i \in 1..Len(q) : f(i) \in UpType
  BY <1>1, <1>2
<1>5. [i \in 1..Len(q) |-> f(i)] \in Seq(UpType)
  BY <1>1, <1>4, IsASeq
<1>6. QED
  BY <1>3, <1>5

\* The answers a batch broadcasts.
LEMMA BroadcastType ==
    ASSUME Inv, NEW ops \in Ops
    PROVE  /\ Broadcast(ops) \in [Device -> Seq(DownType)]
           /\ \A d \in Device : sess[d] = "down" => Broadcast(ops)[d] = down[d]
<1>1. RowsFrame(room, ops) \in DownType
  BY PushGood DEF Inv, DownType
<1>2. \A d \in Device : down[d] \in Seq(DownType)
  BY DEF Inv, Wires
<1>3. \A d \in Device : Append(down[d], RowsFrame(room, ops)) \in Seq(DownType)
  BY <1>1, <1>2, AppendProperties
<1>4. QED
  BY <1>2, <1>3 DEF Broadcast, Ready

-----------------------------------------------------------------------------
(* The steps.                                                              *)

\* One socket's frames to the room change, on a session that is up.
LEMMA UpWire ==
    ASSUME Wires, NEW d \in Device, NEW q \in Seq(UpType), sess[d] # "down",
           up' = [up EXCEPT ![d] = q], sess' = sess, down' = down
    PROVE  Wires'
BY DEF Wires

LEMMA WriteInv ==
    ASSUME Inv, NEW d \in Device, NEW w \in Writes, NEW hlc \in Clocks[d], Write(d, w, hlc)
    PROVE  Inv'
<1> DEFINE op == [op |-> w.op, set |-> w.set, nulls |-> w.nulls, hlc |-> hlc,
                  clocks |-> [f \in Field |-> hlc]]
           ops == [r \in w.rows |-> op]
           q == enqueue_ops(doc[d].pending, minted[d] + 1, ops)
           c == [doc[d] EXCEPT !.pending = q]
<1>1. /\ w.op \in {"upsert", "update", "delete"} /\ w.rows \subseteq Row
      /\ w.set \subseteq Field /\ w.nulls \subseteq Field
  BY WritesAssumption
<1>2. hlc \in Nat
  BY ClocksAssumption
<1>3. op \in OpType
  BY <1>1, <1>2 DEF OpType
<1>4. ops \in Ops
  <2> HIDE DEF op
  <2>1. ops \in [w.rows -> OpType]
    BY <1>3
  <2>2. QED
    BY <1>1, <2>1 DEF Ops
<1>5. /\ doc' = [doc EXCEPT ![d] = c] /\ minted' = [minted EXCEPT ![d] = minted[d] + 1]
      /\ UNCHANGED <<room, disk, sess, up, down, http, late, left>>
  BY DEF Write, Inv, Docs
<1>6. minted[d] \in Nat /\ doc[d] \in DocType /\ doc[d].pending \in Queue
      /\ Ordered(doc[d].pending, minted[d])
  BY DocOf DEF Inv, GoodDoc
<1> HIDE DEF ops
<1>7. q \in Queue /\ Ordered(q, minted[d] + 1)
  BY <1>4, <1>6, EnqueueGood
<1> HIDE DEF q
<1>8. GoodDoc(c, minted[d] + 1)
  BY <1>6, <1>7, WithPending DEF GoodDoc
<1> HIDE DEF c
<1>9. Docs'
  <2>1. minted[d] + 1 \in Nat /\ minted[d] <= minted[d] + 1
    BY <1>6
  <2>2. QED
    BY <1>5, <1>8, <2>1, DocUpdate DEF Inv
<1>10. QED
  BY <1>5, <1>9 DEF Inv, Wires

LEMMA SaveInv ==
    ASSUME Inv, NEW d \in Device, persist_snapshot(d)
    PROVE  Inv'
<1>1. GoodDoc(mark_disconnected(doc[d]), minted[d])
  BY DocOf, MarkFlightGood DEF Inv, mark_disconnected
<1>2. /\ disk' = [disk EXCEPT ![d] = mark_disconnected(doc[d])]
      /\ UNCHANGED <<room, doc, minted, sess, up, down, http, late>>
      /\ left["save"] > 0 /\ left' = [left EXCEPT !["save"] = left["save"] - 1]
  BY DEF persist_snapshot
<1> DEFINE c == mark_disconnected(doc[d])
<1> HIDE DEF c
<1>3. Docs'
  <2>1. c \in DocType /\ Ordered(c.pending, minted[d])
    BY <1>1 DEF GoodDoc, c
  <2>2. disk' = [disk EXCEPT ![d] = c] /\ doc' = doc /\ minted' = minted
    BY <1>2 DEF c
  <2>3. QED
    BY <2>1, <2>2 DEF Inv, Docs
<1>4. left' \in [FaultKinds -> Nat]
  <2>1. left["save"] \in Nat \ {0} /\ left["save"] - 1 \in Nat
    BY <1>2 DEF Inv, FaultKinds
  <2>2. QED
    BY <1>2, <2>1 DEF Inv
<1>5. QED
  BY <1>2, <1>3, <1>4 DEF Inv, Wires

LEMMA DialInv ==
    ASSUME Inv, NEW d \in Device, Dial(d)
    PROVE  Inv'
<1> DEFINE q == <<[t |-> "hello", cursor |-> doc[d].cursor]>>
<1>1. [t |-> "hello", cursor |-> doc[d].cursor] \in UpType
  BY DocOf DEF Inv, UpType
<1>2. q \in Seq(UpType)
  BY <1>1
<1>3. /\ sess' = [sess EXCEPT ![d] = "hello"] /\ up' = [up EXCEPT ![d] = q]
      /\ UNCHANGED <<room, doc, minted, disk, down, http, late, left>>
  BY DEF Dial
<1> HIDE DEF q
<1>4. Wires'
  BY <1>2, <1>3 DEF Inv, Wires
<1>5. QED
  BY <1>3, <1>4 DEF Inv, Docs

LEMMA DialFailsInv ==
    ASSUME Inv, NEW d \in Device, DialFails(d)
    PROVE  Inv'
<1>1. /\ http' = [http EXCEPT ![d] = spawn_offline_sync(d, http[d])]
      /\ Spend("fail")
      /\ UNCHANGED <<room, doc, minted, disk, sess, up, down, late>>
  BY DEF DialFails
<1>2. http' \in [Device -> HttpType]
  BY <1>1, SpawnType DEF Inv
<1>3. left' \in [FaultKinds -> Nat]
  BY <1>1, SpendParts DEF Inv, FaultKinds
<1>4. QED
  BY <1>1, <1>2, <1>3 DEF Inv, Docs, Wires

LEMMA DropInv ==
    ASSUME Inv, NEW d \in Device, Drop(d)
    PROVE  Inv'
<1>1. /\ EndSession(d, doc[d]) /\ Spend("drop")
      /\ UNCHANGED <<room, minted, disk>>
  BY DEF Drop
<1>2. /\ Docs' /\ Wires' /\ http' \in [Device -> HttpType] /\ late' \subseteq Ops
  BY <1>1, DocOf, EndSessionInv DEF Inv
<1>3. left' \in [FaultKinds -> Nat]
  BY <1>1, SpendParts DEF Inv, FaultKinds
<1>4. QED
  BY <1>1, <1>2, <1>3 DEF Inv

\* The first frame of a socket.
LEMMA DownHead ==
    ASSUME Inv, NEW d \in Device, down[d] # <<>>
    PROVE  /\ Head(down[d]) \in DownType /\ Tail(down[d]) \in Seq(DownType)
           /\ Head(down[d]).t = "state" => Head(down[d]) \in StateType
           /\ Head(down[d]).t = "rows" => Head(down[d]) \in RowsType
<1>1. Head(down[d]) \in DownType /\ Tail(down[d]) \in Seq(DownType)
  BY HeadTailProperties DEF Inv, Wires
<1>2. QED
  BY <1>1 DEF DownType, StateType, RowsType

LEMMA UpHead ==
    ASSUME Inv, NEW d \in Device, up[d] # <<>>
    PROVE  /\ Tail(up[d]) \in Seq(UpType) /\ sess[d] # "down"
           /\ Head(up[d]).t = "hello" => Head(up[d]).cursor \in Nat
           /\ Head(up[d]).t = "push" => Head(up[d]).id \in Nat /\ Head(up[d]).ops \in Ops
<1>1. Head(up[d]) \in UpType /\ Tail(up[d]) \in Seq(UpType) /\ sess[d] # "down"
  BY HeadTailProperties DEF Inv, Wires
<1>2. QED
  BY <1>1 DEF UpType

\* A state frame applied to a device's document, with the ids it mints.
LEMMA StateApplied ==
    ASSUME Inv, NEW d \in Device, NEW frame \in StateType, NEW n,
           n = IF Reseeded(doc[d], frame) = {} THEN minted[d] ELSE minted[d] + 1
    PROVE  /\ n \in Nat /\ minted[d] <= n
           /\ GoodDoc(apply_state(doc[d], frame, minted[d] + 1), n)
<1>1. GoodDoc(doc[d], minted[d]) /\ minted[d] \in Nat
  BY DocOf DEF Inv
<1>2. n \in Nat /\ minted[d] <= n
  BY <1>1
<1>3. GoodDoc(apply_state(doc[d], frame, minted[d] + 1), n)
  BY <1>1, ApplyStateGood
<1>4. QED
  BY <1>2, <1>3

LEMMA RecvStateInv ==
    ASSUME Inv, NEW d \in Device, RecvState(d)
    PROVE  Inv'
<1> DEFINE frame == Head(down[d])
           c == apply_state(doc[d], frame, minted[d] + 1)
           n == IF Reseeded(doc[d], frame) = {} THEN minted[d] ELSE minted[d] + 1
<1>1. /\ sess[d] = "hello" /\ down[d] # <<>> /\ frame.t = "state"
      /\ doc' = [doc EXCEPT ![d] = take_pushable(c)]
      /\ up' = [up EXCEPT ![d] = up[d] \o PushFrames(Pushable(c))]
      /\ minted' = [minted EXCEPT ![d] = n]
      /\ down' = [down EXCEPT ![d] = Tail(down[d])]
      /\ sess' = [sess EXCEPT ![d] = "joined"]
      /\ UNCHANGED <<room, disk, http, late, left>>
  BY DEF RecvState
<1>2. frame \in StateType /\ Tail(down[d]) \in Seq(DownType)
  BY <1>1, DownHead
<1> HIDE DEF frame
<1>3. n \in Nat /\ minted[d] <= n /\ GoodDoc(c, n)
  BY <1>2, StateApplied
<1> HIDE DEF c, n
<1>4. Docs'
  <2>1. GoodDoc(take_pushable(c), n)
    BY <1>3, MarkFlightGood DEF take_pushable
  <2>2. QED
    BY <1>1, <1>3, <2>1, DocUpdate DEF Inv
<1>5. Wires'
  <2>1. PushFrames(Pushable(c)) \in Seq(UpType)
    BY <1>3, PushableType, PushFramesType DEF GoodDoc
  <2>2. up[d] \in Seq(UpType)
    BY DEF Inv, Wires
  <2>3. up[d] \o PushFrames(Pushable(c)) \in Seq(UpType)
    BY <2>1, <2>2, ConcatProperties
  <2>4. QED
    BY <1>1, <1>2, <2>3 DEF Inv, Wires
<1>6. QED
  BY <1>1, <1>4, <1>5 DEF Inv

\* A frame is read on a session that stays.
LEMMA FrameRead ==
    ASSUME Inv, NEW d \in Device, down[d] # <<>>,
           down' = [down EXCEPT ![d] = Tail(@)], sess' = sess, up' = up
    PROVE  Wires'
<1>1. Tail(down[d]) \in Seq(DownType) /\ sess[d] # "down"
  BY DownHead DEF Inv, Wires
<1>2. QED
  BY <1>1 DEF Inv, Wires

LEMMA RecvRowsInv ==
    ASSUME Inv, NEW d \in Device, RecvRows(d)
    PROVE  Inv'
<1> DEFINE c == apply_rows(doc[d], Head(down[d]))
<1>1. /\ down[d] # <<>> /\ Head(down[d]).t = "rows"
      /\ UNCHANGED <<room, minted, disk, left>>
  BY DEF RecvRows
<1>2. GoodDoc(c, minted[d])
  BY <1>1, DownHead, DocOf, ApplyRowsGood DEF Inv
<1>3. CASE Gap(doc[d], Head(down[d]))
  <2>1. EndSession(d, c)
    BY <1>3 DEF RecvRows
  <2> HIDE DEF c
  <2>2. QED
    BY <1>1, <1>2, <2>1, EndSessionInv DEF Inv
<1>4. CASE ~Gap(doc[d], Head(down[d]))
  <2>1. /\ doc' = [doc EXCEPT ![d] = c] /\ down' = [down EXCEPT ![d] = Tail(@)]
        /\ UNCHANGED <<sess, up, late, http>>
    BY <1>4 DEF RecvRows
  <2> HIDE DEF c
  <2>2. Docs' /\ Wires'
    BY <1>1, <1>2, <2>1, DocReplaced, FrameRead DEF Inv
  <2>3. QED
    BY <1>1, <2>1, <2>2 DEF Inv
<1>5. QED
  BY <1>3, <1>4

LEMMA RecvAckInv ==
    ASSUME Inv, NEW d \in Device, RecvAck(d)
    PROVE  Inv'
<1> DEFINE c == ack_batch(doc[d], Head(down[d]).id)
<1>1. /\ down[d] # <<>> /\ doc' = [doc EXCEPT ![d] = c]
      /\ down' = [down EXCEPT ![d] = Tail(@)]
      /\ UNCHANGED <<room, minted, disk, sess, up, http, late, left>>
  BY DEF RecvAck
<1>2. GoodDoc(c, minted[d])
  BY DocOf, AckGood DEF Inv
<1> HIDE DEF c
<1>3. Docs' /\ Wires'
  BY <1>1, <1>2, DocReplaced, FrameRead DEF Inv
<1>4. QED
  BY <1>1, <1>3 DEF Inv

LEMMA RecvCloseInv ==
    ASSUME Inv, NEW d \in Device, RecvClose(d)
    PROVE  Inv'
<1>1. EndSession(d, doc[d]) /\ UNCHANGED <<room, minted, disk, left>>
  BY DEF RecvClose
<1>2. QED
  BY <1>1, DocOf, EndSessionInv DEF Inv

LEMMA PushPendingInv ==
    ASSUME Inv, NEW d \in Device, push_pending(d)
    PROVE  Inv'
<1> DEFINE q == up[d] \o PushFrames(Pushable(doc[d]))
<1>1. /\ sess[d] = "joined" /\ up' = [up EXCEPT ![d] = q]
      /\ doc' = [doc EXCEPT ![d] = take_pushable(doc[d])]
      /\ UNCHANGED <<room, minted, disk, sess, down, http, late, left>>
  BY DEF push_pending
<1>2. GoodDoc(doc[d], minted[d]) /\ GoodDoc(take_pushable(doc[d]), minted[d])
  BY DocOf, MarkFlightGood DEF Inv, take_pushable
<1>3. q \in Seq(UpType)
  <2>1. PushFrames(Pushable(doc[d])) \in Seq(UpType)
    BY <1>2, PushableType, PushFramesType DEF GoodDoc
  <2>2. up[d] \in Seq(UpType)
    BY DEF Inv, Wires
  <2>3. QED
    BY <2>1, <2>2, ConcatProperties
<1> HIDE DEF q
<1>4. Docs'
  BY <1>1, <1>2, DocReplaced DEF Inv
<1>5. Wires'
  BY <1>1, <1>3, UpWire DEF Inv
<1>6. QED
  BY <1>1, <1>4, <1>5 DEF Inv

LEMMA HandleHelloInv ==
    ASSUME Inv, NEW d \in Device, handleHello(d)
    PROVE  Inv'
<1> DEFINE frame == StateFrame(room, Head(up[d]).cursor)
<1>1. /\ up[d] # <<>> /\ Head(up[d]).t = "hello"
      /\ down' = [down EXCEPT ![d] = Append(down[d], frame)]
      /\ up' = [up EXCEPT ![d] = Tail(up[d])]
      /\ UNCHANGED <<room, doc, minted, disk, sess, http, late, left>>
  BY DEF handleHello, clientVars
<1>2. Head(up[d]).cursor \in Nat /\ Tail(up[d]) \in Seq(UpType) /\ sess[d] # "down"
  BY <1>1, UpHead
<1>3. frame \in DownType
  BY <1>2, StateFrameType DEF Inv, DownType
<1> HIDE DEF frame
<1>4. Append(down[d], frame) \in Seq(DownType)
  BY <1>3, AppendProperties DEF Inv, Wires
<1>5. Wires'
  BY <1>1, <1>2, <1>4 DEF Inv, Wires
<1>6. QED
  BY <1>1, <1>5 DEF Inv, Docs

\* A push that arrives on a socket.
LEMMA HandlePushInv ==
    ASSUME Inv, NEW d \in Device, handlePush(d)
    PROVE  /\ Inv'
           /\ \E ops \in Ops : room' = applyPushBatch(room, ops)
<1> DEFINE ops == Head(up[d]).ops
           ack == [t |-> "ack", id |-> Head(up[d]).id]
           q == Append(Broadcast(ops)[d], ack)
<1>1. /\ up[d] # <<>> /\ Head(up[d]).t = "push"
      /\ room' = applyPushBatch(room, ops)
      /\ down' = [Broadcast(ops) EXCEPT ![d] = q]
      /\ up' = [up EXCEPT ![d] = Tail(up[d])]
      /\ UNCHANGED <<doc, minted, disk, sess, http, late, left>>
  BY DEF handlePush, clientVars
<1>2. ops \in Ops /\ Head(up[d]).id \in Nat /\ Tail(up[d]) \in Seq(UpType) /\ sess[d] # "down"
  BY <1>1, UpHead
<1>3. ack \in DownType
  BY <1>2 DEF DownType
<1> HIDE DEF ops, ack
<1>4. /\ Broadcast(ops) \in [Device -> Seq(DownType)]
      /\ \A e \in Device : sess[e] = "down" => Broadcast(ops)[e] = down[e]
  BY <1>2, BroadcastType
<1>5. q \in Seq(DownType)
  BY <1>3, <1>4, AppendProperties
<1> HIDE DEF q
<1>6. Wires'
  BY <1>1, <1>2, <1>4, <1>5 DEF Inv, Wires
<1>7. GoodRoom(room')
  BY <1>1, <1>2, PushGood DEF Inv
<1>8. QED
  BY <1>1, <1>2, <1>6, <1>7 DEF Inv, Docs

\* A push that comes by another road: of a dead socket, or over HTTPS.
LEMMA Pushed ==
    ASSUME Inv, NEW ops \in Ops, room' = applyPushBatch(room, ops),
           down' = Broadcast(ops), sess' = sess, up' = up
    PROVE  GoodRoom(room') /\ Wires'
<1>1. GoodRoom(room')
  BY PushGood DEF Inv
<1>2. /\ Broadcast(ops) \in [Device -> Seq(DownType)]
      /\ \A e \in Device : sess[e] = "down" => Broadcast(ops)[e] = down[e]
  BY BroadcastType
<1>3. Wires'
  BY <1>2 DEF Inv, Wires
<1>4. QED
  BY <1>1, <1>3

LEMMA LatePushInv ==
    ASSUME Inv, NEW ops \in late, handleLatePush(ops)
    PROVE  /\ Inv'
           /\ \E b \in Ops : room' = applyPushBatch(room, b)
<1>1. /\ ops \in Ops
      /\ room' = applyPushBatch(room, ops) /\ down' = Broadcast(ops)
      /\ late' = late \ {ops}
      /\ UNCHANGED <<doc, minted, disk, sess, http, up, left>>
  BY DEF handleLatePush, clientVars, Inv
<1>2. GoodRoom(room') /\ Wires'
  BY <1>1, Pushed
<1>3. QED
  BY <1>1, <1>2 DEF Inv, Docs

LEMMA LoseFrameInv ==
    ASSUME Inv, NEW d \in Device, LoseFrame(d)
    PROVE  Inv'
<1>1. /\ down[d] # <<>> /\ Spend("lose")
      /\ down' = [down EXCEPT ![d] = Front(down[d])]
      /\ UNCHANGED <<room, doc, minted, disk, sess, http, up, late>>
  BY DEF LoseFrame, clientVars
<1>2. Front(down[d]) \in Seq(DownType)
  <2>1. down[d] \in Seq(DownType) /\ Len(down[d]) \in Nat
        /\ \A i \in 1..Len(down[d]) : down[d][i] \in DownType
    BY ElementOfSeq, LenProperties DEF Inv, Wires
  <2>2. \A i \in 1..(Len(down[d]) - 1) : down[d][i] \in DownType
    BY <2>1
  <2>3. SubSeq(down[d], 1, Len(down[d]) - 1) \in Seq(DownType)
    BY <2>1, <2>2, SubSeqProperties
  <2>4. QED
    BY <2>3 DEF Front
<1>3. Wires'
  BY <1>1, <1>2 DEF Inv, Wires
<1>4. left' \in [FaultKinds -> Nat]
  BY <1>1, SpendParts DEF Inv, FaultKinds
<1>5. QED
  BY <1>1, <1>3, <1>4 DEF Inv, Docs

LEMMA AlarmInv ==
    ASSUME Inv, NEW horizon, alarm(horizon)
    PROVE  Inv' /\ left'["purge"] # left["purge"]
<1>1. /\ Purgeable(room, horizon) # {} /\ Spend("purge")
      /\ room' = PurgeTombstones(room, horizon)
      /\ UNCHANGED <<doc, minted, disk, sess, http, up, down, late>>
  BY DEF alarm, clientVars
<1>2. GoodRoom(room')
  BY <1>1, PurgeGood DEF Inv
<1>3. left' \in [FaultKinds -> Nat] /\ left'["purge"] # left["purge"]
  BY <1>1, SpendParts DEF Inv, FaultKinds
<1>4. QED
  BY <1>1, <1>2, <1>3 DEF Inv, Docs, Wires

LEMMA ResetInv ==
    ASSUME Inv, reset
    PROVE  Inv' /\ left'["reset"] # left["reset"]
<1>1. /\ Spend("reset") /\ room' = EmptyRoom
      /\ down' = [d \in Device |-> IF sess[d] = "down" \/ Closed(d) THEN down[d]
                                   ELSE Append(down[d], [t |-> "close"])]
      /\ UNCHANGED <<doc, minted, disk, sess, http, up, late>>
  BY DEF reset, clientVars
<1>2. \A d \in Device : Append(down[d], [t |-> "close"]) \in Seq(DownType)
  <2>1. [t |-> "close"] \in DownType
    BY DEF DownType
  <2>2. QED
    BY <2>1, AppendProperties DEF Inv, Wires
<1>3. Wires'
  BY <1>1, <1>2 DEF Inv, Wires
<1>4. left' \in [FaultKinds -> Nat] /\ left'["reset"] # left["reset"]
  BY <1>1, SpendParts DEF Inv, FaultKinds
<1>5. QED
  BY <1>1, <1>3, <1>4, EmptyRoomGood DEF Inv, Docs

\* What the HTTPS task holds where it stands.
LEMMA HttpParts ==
    ASSUME Inv, NEW d \in Device
    PROVE  /\ http[d].at \in {"push", "posted"} => http[d].todo \in Queue
           /\ http[d].at = "posted" => http[d].todo # <<>>
           /\ http[d].at = "ask" => http[d].since \in Nat
           /\ http[d].at = "answer" => http[d].frame \in StateType
<1>1. http[d] \in HttpType
  BY DEF Inv
<1>2. QED
  BY <1>1 DEF HttpType

\* A batch list of the task has a first batch.
LEMMA TodoHead ==
    ASSUME NEW q \in Queue, q # <<>>
    PROVE  Head(q).ops \in Ops /\ Tail(q) \in Queue
<1>1. Head(q) \in BatchType /\ Tail(q) \in Seq(BatchType)
  BY HeadTailProperties DEF Queue
<1>2. QED
  BY <1>1 DEF BatchType, Queue

LEMMA HttpStartInv ==
    ASSUME Inv, NEW d \in Device, HttpStart(d)
    PROVE  Inv'
<1> DEFINE v == [at |-> "push", todo |-> Pushable(doc[d])]
<1>1. /\ http' = [http EXCEPT ![d] = v]
      /\ doc' = [doc EXCEPT ![d] = take_pushable(doc[d])]
      /\ UNCHANGED <<room, minted, disk, sess, up, down, late, left>>
  BY DEF HttpStart
<1>2. GoodDoc(doc[d], minted[d]) /\ GoodDoc(take_pushable(doc[d]), minted[d])
  BY DocOf, MarkFlightGood DEF Inv, take_pushable
<1>3. v \in HttpType
  BY <1>2, PushableType DEF GoodDoc, HttpType
<1> HIDE DEF v
<1>4. Docs'
  BY <1>1, <1>2, DocReplaced DEF Inv
<1>5. QED
  BY <1>1, <1>3, <1>4 DEF Inv, Wires

LEMMA PostPushInv ==
    ASSUME Inv, NEW d \in Device, postPush(d)
    PROVE  /\ Inv'
           /\ \E ops \in Ops : room' = applyPushBatch(room, ops)
<1> DEFINE ops == Head(http[d].todo).ops
<1>1. /\ http[d].at = "push" /\ http[d].todo # <<>>
      /\ room' = applyPushBatch(room, ops) /\ down' = Broadcast(ops)
      /\ http' = [http EXCEPT ![d].at = "posted"]
      /\ UNCHANGED <<doc, minted, disk, sess, up, late, left>>
  BY DEF postPush, Http
<1>2. ops \in Ops /\ http[d].todo \in Queue
  BY <1>1, HttpParts, TodoHead
<1> HIDE DEF ops
<1>3. GoodRoom(room') /\ Wires'
  BY <1>1, <1>2, Pushed
<1>4. http' \in [Device -> HttpType]
  <2>1. http[d] \in [at : {"push"}, todo : Queue]
    <3>1. http[d] \in HttpType
      BY DEF Inv
    <3>2. QED
      BY <1>1, <3>1 DEF HttpType
  <2>2. [http[d] EXCEPT !.at = "posted"] \in [at : {"posted"}, todo : Queue \ {<<>>}]
    BY <1>1, <2>1
  <2>3. [http[d] EXCEPT !.at = "posted"] \in HttpType
    BY <2>2 DEF HttpType
  <2>4. http' = [http EXCEPT ![d] = [http[d] EXCEPT !.at = "posted"]]
    BY <1>1
  <2>5. QED
    BY <2>3, <2>4 DEF Inv
<1>5. QED
  BY <1>1, <1>2, <1>3, <1>4 DEF Inv, Docs

\* The task and perhaps the document change.
LEMMA HttpUpdate ==
    ASSUME Inv, NEW d \in Device, NEW v \in HttpType, http' = [http EXCEPT ![d] = v],
           Docs', UNCHANGED <<room, sess, up, down, late>>, left' \in [FaultKinds -> Nat]
    PROVE  Inv'
BY DEF Inv, Wires

LEMMA HttpAckedInv ==
    ASSUME Inv, NEW d \in Device, HttpAcked(d)
    PROVE  Inv'
<1> DEFINE c == ack_batch(doc[d], Head(http[d].todo).id)
           v == [at |-> "push", todo |-> Tail(http[d].todo)]
<1>1. /\ http[d].at = "posted" /\ doc' = [doc EXCEPT ![d] = c]
      /\ http' = [http EXCEPT ![d] = v]
      /\ UNCHANGED <<room, minted, disk, sess, up, down, late, left>>
  BY DEF HttpAcked, Http
<1>2. v \in HttpType
  BY <1>1, HttpParts, TodoHead DEF HttpType
<1>3. GoodDoc(c, minted[d])
  BY DocOf, AckGood DEF Inv
<1> HIDE DEF c, v
<1>4. Docs'
  BY <1>1, <1>3, DocReplaced DEF Inv
<1>5. left' \in [FaultKinds -> Nat]
  BY <1>1 DEF Inv
<1>6. QED
  BY <1>1, <1>2, <1>4, <1>5, HttpUpdate

LEMMA HttpPushFailsInv ==
    ASSUME Inv, NEW d \in Device, HttpPushFails(d)
    PROVE  Inv'
<1> DEFINE v == [at |-> "push", todo |-> <<>>]
           c == mark_disconnected(doc[d])
<1>1. /\ doc' = [doc EXCEPT ![d] = c] /\ Spend("fail")
      /\ http' = [http EXCEPT ![d] = v]
      /\ UNCHANGED <<room, minted, disk, sess, up, down, late>>
  BY DEF HttpPushFails
<1>2. v \in HttpType
  BY EmptySeq DEF HttpType, Queue
<1>3. GoodDoc(c, minted[d])
  BY DocOf, MarkFlightGood DEF Inv, mark_disconnected
<1> HIDE DEF c, v
<1>4. Docs'
  BY <1>1, <1>3, DocReplaced DEF Inv
<1>5. left' \in [FaultKinds -> Nat]
  BY <1>1, SpendParts DEF Inv, FaultKinds
<1>6. QED
  BY <1>1, <1>2, <1>4, <1>5, HttpUpdate

\* The steps of the pull that leave the documents alone.
LEMMA HttpAskInv ==
    ASSUME Inv, NEW d \in Device, HttpPull(d) \/ getRows(d) \/ HttpPullFails(d)
    PROVE  Inv'
<1>1. UNCHANGED <<room, doc, minted, disk, sess, up, down, late>>
  BY DEF HttpPull, getRows, HttpPullFails
<1>2. Docs'
  BY <1>1 DEF Inv, Docs
<1>3. CASE HttpPull(d)
  <2>1. [at |-> "ask", since |-> doc[d].cursor] \in HttpType
    BY DocOf DEF Inv, HttpType
  <2>2. left' \in [FaultKinds -> Nat]
        /\ http' = [http EXCEPT ![d] = [at |-> "ask", since |-> doc[d].cursor]]
    BY <1>3 DEF HttpPull, Inv
  <2>3. QED
    BY <1>1, <1>2, <2>1, <2>2, HttpUpdate
<1>4. CASE getRows(d)
  <2> DEFINE frame == StateFrame(room, http[d].since)
  <2>1. /\ http[d].at = "ask" /\ http' = [http EXCEPT ![d] = [at |-> "answer", frame |-> frame]]
        /\ left' \in [FaultKinds -> Nat]
    BY <1>4 DEF getRows, Http, Inv
  <2>2. frame \in StateType
    BY <2>1, HttpParts, StateFrameType DEF Inv
  <2> HIDE DEF frame
  <2>3. [at |-> "answer", frame |-> frame] \in HttpType
    BY <2>2 DEF HttpType
  <2>4. QED
    BY <1>1, <1>2, <2>1, <2>3, HttpUpdate
<1>5. CASE HttpPullFails(d)
  <2>1. Idle \in HttpType
    BY DEF Idle, HttpType
  <2>2. http' = [http EXCEPT ![d] = Idle] /\ left' \in [FaultKinds -> Nat]
    BY <1>5, SpendParts DEF HttpPullFails, Inv, FaultKinds
  <2>3. QED
    BY <1>1, <1>2, <2>1, <2>2, HttpUpdate
<1>6. QED
  BY <1>3, <1>4, <1>5

LEMMA HttpPulledInv ==
    ASSUME Inv, NEW d \in Device, HttpPulled(d)
    PROVE  Inv'
<1> DEFINE frame == http[d].frame
           c == apply_state(doc[d], frame, minted[d] + 1)
           n == IF Reseeded(doc[d], frame) = {} THEN minted[d] ELSE minted[d] + 1
<1>1. /\ http[d].at = "answer" /\ doc' = [doc EXCEPT ![d] = c]
      /\ minted' = [minted EXCEPT ![d] = n] /\ http' = [http EXCEPT ![d] = Idle]
      /\ UNCHANGED <<room, disk, sess, up, down, late, left>>
  BY DEF HttpPulled, Http
<1>2. frame \in StateType
  BY <1>1, HttpParts
<1> HIDE DEF frame
<1>3. n \in Nat /\ minted[d] <= n /\ GoodDoc(c, n)
  BY <1>2, StateApplied
<1> HIDE DEF c, n
<1>4. Docs'
  BY <1>1, <1>3, DocUpdate DEF Inv
<1>5. Idle \in HttpType /\ left' \in [FaultKinds -> Nat]
  BY <1>1 DEF Idle, HttpType, Inv
<1>6. QED
  BY <1>1, <1>4, <1>5, HttpUpdate

LEMMA CrashInv ==
    ASSUME Inv, NEW d \in Device, Crash(d)
    PROVE  Inv'
<1>1. /\ doc' = [doc EXCEPT ![d] = disk[d]] /\ Spend("crash")
      /\ sess' = [sess EXCEPT ![d] = "down"]
      /\ up' = [up EXCEPT ![d] = <<>>] /\ down' = [down EXCEPT ![d] = <<>>]
      /\ late' = late \cup Undelivered(d)
      /\ http' = [http EXCEPT ![d] = spawn_offline_sync(d, Idle)]
      /\ UNCHANGED <<room, minted, disk>>
  BY DEF Crash
<1>2. Docs'
  BY <1>1, DocOf, DocReplaced DEF Inv
<1>3. Wires'
  BY <1>1, EmptySeq DEF Inv, Wires
<1>4. http' \in [Device -> HttpType]
  <2>1. Idle \in HttpType
    BY DEF Idle, HttpType
  <2>2. QED
    BY <1>1, <2>1, SpawnType DEF Inv
<1>5. late' \subseteq Ops
  BY <1>1, UndeliveredType DEF Inv
<1>6. left' \in [FaultKinds -> Nat]
  BY <1>1, SpendParts DEF Inv, FaultKinds
<1>7. QED
  BY <1>1, <1>2, <1>3, <1>4, <1>5, <1>6 DEF Inv

-----------------------------------------------------------------------------
(* The theorems.                                                           *)

\* Steps of one device and its HTTPS task.
LEMMA ProgressInv ==
    ASSUME Inv, NEW d \in Device, Progress(d)
    PROVE  Inv'
BY DialInv, RecvStateInv, RecvRowsInv, RecvAckInv, RecvCloseInv, PushPendingInv,
   HandleHelloInv, HandlePushInv, HttpStartInv, PostPushInv, HttpAckedInv,
   HttpAskInv, HttpPulledInv DEF Progress

LEMMA StepInv ==
    ASSUME Inv, [Next]_vars
    PROVE  Inv'
<1>1. CASE UNCHANGED vars
  BY <1>1 DEF vars, Inv, Docs, Wires, GoodRoom, Numbers
<1>2. ASSUME NEW d \in Device,
             \/ Progress(d)
             \/ \E w \in Writes, hlc \in Clocks[d] : Write(d, w, hlc)
             \/ persist_snapshot(d) \/ DialFails(d) \/ Drop(d) \/ LoseFrame(d)
             \/ HttpPushFails(d) \/ HttpPullFails(d) \/ Crash(d)
      PROVE  Inv'
  BY <1>2, ProgressInv, WriteInv, SaveInv, DialFailsInv, DropInv, LoseFrameInv,
     HttpPushFailsInv, HttpAskInv, CrashInv
<1>3. ASSUME NEW ops \in late, handleLatePush(ops) PROVE Inv'
  BY <1>3, LatePushInv
<1>4. ASSUME NEW d \in Device, NEW hlc \in Clocks[d], alarm(hlc + 1) PROVE Inv'
  BY <1>4, AlarmInv
<1>5. CASE reset
  BY <1>5, ResetInv
<1>6. QED
  BY <1>1, <1>2, <1>3, <1>4, <1>5 DEF Next, Step, RoomStep

LEMMA InvAlways == Spec => []Inv
<1>1. Init => Inv
  BY InitInv
<1>2. Inv /\ [Next]_vars => Inv'
  BY StepInv
<1>3. QED
  BY <1>1, <1>2, PTL DEF Spec

\* Every row, document and frame keeps its type, the floor of purged tombstones
\* stays below the last number given, and a document's pending batches, in
\* memory and on disk, stay in the order their ids were minted with those in
\* flight first (RegistryDoc's pending list).
THEOREM RegistryTypeCorrect == Spec => []TypeOK
<1>1. Inv => TypeOK
  <2> SUFFICES ASSUME Inv PROVE TypeOK
    OBVIOUS
  <2>1. /\ room.rows \in [Row -> RowType] /\ room.seq \in Nat
        /\ room.gcFloor \in Nat /\ room.gcFloor <= room.seq
    BY DEF Inv, GoodRoom, RoomType, Numbers
  <2>2. ASSUME NEW c, NEW n, GoodDoc(c, n)
        PROVE  DocOK(c)
    <3>1. c.auth \in [Row -> RowType] /\ c.cursor \in Nat /\ Ordered(c.pending, n)
      BY <2>2 DEF GoodDoc, DocType, Tables
    <3>2. \A r \in Row : c.auth[r].clocks \in [Field -> Nat] /\ c.auth[r].seq \in Nat
      BY <3>1 DEF RowType
    <3>3. QED
      BY <3>1, <3>2 DEF DocOK, Ordered
  <2>3. \A d \in Device : DocOK(doc[d]) /\ DocOK(disk[d])
    BY <2>2, DocOf DEF Inv
  <2>4. QED
    BY <2>1, <2>3 DEF TypeOK, Inv, Wires
<1>2. QED
  BY <1>1, InvAlways, PTL

\* Every step but a reset or a purge leaves the room alone or is a push.
LEMMA RoomAdvances ==
    ASSUME Inv, [Next]_vars, left'["purge"] = left["purge"], left'["reset"] = left["reset"]
    PROVE  room' = room \/ \E ops \in Ops : room' = applyPushBatch(room, ops)
<1>1. CASE UNCHANGED vars
  BY <1>1 DEF vars
<1>2. ASSUME NEW d \in Device, Progress(d)
      PROVE  room' = room \/ \E ops \in Ops : room' = applyPushBatch(room, ops)
  <2>1. CASE handlePush(d) \/ postPush(d)
    BY <2>1, HandlePushInv, PostPushInv
  <2>2. CASE ~(handlePush(d) \/ postPush(d))
    <3>1. UNCHANGED room
      BY <1>2, <2>2 DEF Progress, Dial, RecvState, RecvRows, RecvAck, RecvClose,
         push_pending, handleHello, HttpStart, HttpAcked, HttpPull, getRows, HttpPulled
    <3>2. QED
      BY <3>1
  <2>3. QED
    BY <2>1, <2>2
<1>3. ASSUME NEW d \in Device,
             \/ \E w \in Writes, hlc \in Clocks[d] : Write(d, w, hlc)
             \/ persist_snapshot(d) \/ DialFails(d) \/ Drop(d) \/ LoseFrame(d)
             \/ HttpPushFails(d) \/ HttpPullFails(d) \/ Crash(d)
      PROVE  room' = room
  BY <1>3 DEF Write, persist_snapshot, DialFails, Drop, LoseFrame, HttpPushFails,
     HttpPullFails, Crash
<1>4. ASSUME NEW ops \in late, handleLatePush(ops)
      PROVE  \E b \in Ops : room' = applyPushBatch(room, b)
  BY <1>4, LatePushInv
<1>5. ASSUME NEW d \in Device, NEW hlc \in Clocks[d], alarm(hlc + 1) PROVE FALSE
  BY <1>5, AlarmInv
<1>6. CASE reset
  BY <1>6, ResetInv
<1>7. QED
  BY <1>1, <1>2, <1>3, <1>4, <1>5, <1>6 DEF Next, Step, RoomStep

\* No step of any device, socket, HTTPS task, crash, re-send or re-seed sets a
\* row of the room back; only an operator's reset and the purge of tombstones
\* forget (handlePush, POST /push, applyPushBatch).
THEOREM NeverRegresses == Spec => RoomNeverRegresses
<1>1. ASSUME Inv, [Next]_vars,
             left'["purge"] = left["purge"], left'["reset"] = left["reset"], NEW r \in Row
      PROVE  Supersedes(room'.rows[r], room.rows[r])
  <2>1. room \in RoomType /\ room.rows[r] \in RowType
    BY <1>1 DEF Inv, GoodRoom, RoomType
  <2>2. CASE room' = room
    BY <2>1, <2>2 DEF Supersedes, RowType
  <2>3. ASSUME NEW ops \in Ops, room' = applyPushBatch(room, ops)
        PROVE  Supersedes(room'.rows[r], room.rows[r])
    BY <2>1, <2>3, PushAdvances
  <2>4. QED
    BY <1>1, <2>2, <2>3, RoomAdvances
<1>2. Inv /\ [Next]_vars =>
        [left'["purge"] = left["purge"] /\ left'["reset"] = left["reset"] =>
           \A r \in Row : Supersedes(room'.rows[r], room.rows[r])]_vars
  BY <1>1
<1>3. QED
  BY <1>2, InvAlways, PTL DEF Spec, RoomNeverRegresses

-----------------------------------------------------------------------------
(* The cursor.  It can go wrong only by a pull under way beside a session.  *)

\* The document holds every row the room last changed at or below its cursor.
Reflects(c, rm) ==
    /\ c.cursor <= rm.seq
    /\ \A r \in Held(rm.rows) : rm.rows[r].seq <= c.cursor => c.auth[r] = rm.rows[r]

\* A broadcast carries what the room last changed under its number, and only
\* rows the room has not changed under a lower one.
RowsCurrent(f, rm) ==
    \A r \in Held(rm.rows) :
        /\ r \in DOMAIN f.rows => f.seq <= rm.rows[r].seq
        /\ rm.rows[r].seq = f.seq => r \in DOMAIN f.rows /\ f.rows[r] = rm.rows[r]

\* A state frame carries what the room last changed up to its number and the
\* document does not hold.
StateCurrent(f, c, rm) ==
    \A r \in Held(rm.rows) : rm.rows[r].seq <= f.seq =>
        /\ r \in DOMAIN f.rows => f.rows[r] = rm.rows[r]
        /\ f.full \/ rm.rows[r].seq > c.cursor => r \in DOMAIN f.rows

Counts(f) == f.t \in {"state", "rows"}

Fits(f, s, c, rm) ==
    /\ Counts(f) => f.seq <= rm.seq
    /\ f.t = "rows" => RowsCurrent(f, rm) /\ (s = "joined" => c.cursor < f.seq)
    /\ f.t = "state" /\ s = "hello" => StateCurrent(f, c, rm)

\* The frames on a socket fit the session and the document; broadcasts follow
\* in order of their numbers; nothing numbered comes before the hello's answer.
WireOK(dn, u, s, c, rm) ==
    /\ \A i \in DOMAIN dn : Fits(dn[i], s, c, rm)
    /\ \A i, j \in DOMAIN dn :
          i < j /\ Counts(dn[i]) /\ dn[j].t = "rows" => dn[i].seq < dn[j].seq
    /\ \A i \in DOMAIN u : u[i].t = "hello" =>
          /\ i = 1 /\ u[i].cursor = c.cursor
          /\ \A j \in DOMAIN dn : ~Counts(dn[j])

Tracks(d) ==
    /\ Reflects(doc[d], room) /\ Reflects(disk[d], room)
    /\ WireOK(down[d], up[d], sess[d], doc[d], room)

\* No socket is open while a pull is under way.  The code never asks for it:
\* the HTTPS task runs on when the session actor dials again.
PullsAlone ==
    \A d \in Device : http[d].at \in {"ask", "answer"} => sess[d] = "down"

\* A pull asks from the document's cursor, and its answer fits the document.
Answers(h, c, rm) ==
    /\ h.at = "ask" => h.since = c.cursor
    /\ h.at = "answer" => h.frame.seq <= rm.seq /\ StateCurrent(h.frame, c, rm)

Asked(d) == Answers(http[d], doc[d], room)

CursorInv ==
    /\ left["reset"] <= Faults["reset"]
    /\ ~Wiped => \A d \in Device : Tracks(d) /\ Asked(d)

\* The room moves forward: what it holds is what it held, or has a new number.
Fwd(rm, new) ==
    /\ rm.seq <= new.seq
    /\ \A r \in Held(new.rows) : new.rows[r] = rm.rows[r] \/ rm.seq < new.rows[r].seq

LEMMA RoomParts ==
    ASSUME NEW rm, GoodRoom(rm)
    PROVE  /\ rm.seq \in Nat
           /\ \A r \in Row : /\ rm.rows[r] \in RowType /\ rm.rows[r].seq \in Nat
                             /\ rm.rows[r].seq <= rm.seq
BY DEF GoodRoom, Numbers, RoomType, RowType

LEMMA FwdHeld ==
    ASSUME NEW rm, NEW new, GoodRoom(rm), GoodRoom(new), Fwd(rm, new), NEW r \in Held(new.rows)
    PROVE  /\ r \in Row
           /\ \/ r \in Held(rm.rows) /\ new.rows[r] = rm.rows[r]
              \/ rm.seq < new.rows[r].seq
BY DEF Fwd, Held

LEMMA FwdReflects ==
    ASSUME NEW rm, NEW new, GoodRoom(rm), GoodRoom(new), Fwd(rm, new),
           NEW c, c.cursor \in Nat, Reflects(c, rm)
    PROVE  Reflects(c, new)
<1>1. rm.seq \in Nat /\ new.seq \in Nat /\ rm.seq <= new.seq /\ c.cursor <= rm.seq
  BY RoomParts DEF Fwd, Reflects
<1>2. ASSUME NEW r \in Held(new.rows), new.rows[r].seq <= c.cursor
      PROVE  c.auth[r] = new.rows[r]
  <2>1. r \in Row /\ new.rows[r].seq \in Nat
    BY RoomParts, FwdHeld
  <2>2. ~(rm.seq < new.rows[r].seq)
    BY <1>1, <1>2, <2>1
  <2>3. r \in Held(rm.rows) /\ new.rows[r] = rm.rows[r]
    BY <2>2, FwdHeld
  <2>4. QED
    BY <1>2, <2>3 DEF Reflects
<1>3. QED
  BY <1>1, <1>2 DEF Reflects

\* The number of a frame that carries one.
LEMMA FrameSeq ==
    ASSUME NEW f \in DownType, Counts(f)
    PROVE  f.seq \in Nat
BY DEF DownType, StateType, RowsType, Counts

LEMMA FwdCurrent ==
    ASSUME NEW rm, NEW new, GoodRoom(rm), GoodRoom(new), Fwd(rm, new), NEW c, NEW f,
           f.seq \in Nat, f.seq <= rm.seq, StateCurrent(f, c, rm)
    PROVE  f.seq <= new.seq /\ StateCurrent(f, c, new)
<1>1. rm.seq \in Nat /\ new.seq \in Nat /\ rm.seq <= new.seq
  BY RoomParts DEF Fwd
<1>2. ASSUME NEW r \in Held(new.rows), new.rows[r].seq <= f.seq
      PROVE  r \in Held(rm.rows) /\ new.rows[r] = rm.rows[r]
  <2>1. new.rows[r].seq \in Nat
    BY RoomParts, FwdHeld
  <2>2. ~(rm.seq < new.rows[r].seq)
    BY <1>1, <1>2, <2>1
  <2>3. QED
    BY <2>2, FwdHeld
<1>3. StateCurrent(f, c, new)
  BY <1>2 DEF StateCurrent
<1>4. QED
  BY <1>1, <1>3

LEMMA FwdFits ==
    ASSUME NEW rm, NEW new, GoodRoom(rm), GoodRoom(new), Fwd(rm, new),
           NEW c, NEW s, NEW f \in DownType, Fits(f, s, c, rm)
    PROVE  Fits(f, s, c, new)
<1>1. rm.seq \in Nat /\ new.seq \in Nat /\ rm.seq <= new.seq
  BY RoomParts DEF Fwd
<1>2. CASE ~Counts(f)
  BY <1>2 DEF Fits, Counts
<1>3. CASE Counts(f)
  <2>1. f.seq \in Nat /\ f.seq <= rm.seq
    BY <1>3, FrameSeq DEF Fits
  <2>2. f.seq <= new.seq
    BY <1>1, <2>1
  <2>3. ASSUME NEW r \in Held(new.rows), new.rows[r].seq <= f.seq
        PROVE  r \in Held(rm.rows) /\ new.rows[r] = rm.rows[r]
    <3>1. new.rows[r].seq \in Nat
      BY RoomParts, FwdHeld
    <3>2. ~(rm.seq < new.rows[r].seq)
      BY <1>1, <2>1, <2>3, <3>1
    <3>3. QED
      BY <3>2, FwdHeld
  <2>4. ASSUME f.t = "rows" PROVE RowsCurrent(f, new)
    <3>1. RowsCurrent(f, rm)
      BY <2>4 DEF Fits
    <3>2. ASSUME NEW r \in Held(new.rows)
          PROVE  /\ r \in DOMAIN f.rows => f.seq <= new.rows[r].seq
                 /\ new.rows[r].seq = f.seq => r \in DOMAIN f.rows /\ f.rows[r] = new.rows[r]
      <4>1. new.rows[r].seq \in Nat
        BY RoomParts, FwdHeld
      <4>2. CASE new.rows[r].seq <= f.seq
        <5>1. r \in Held(rm.rows) /\ new.rows[r] = rm.rows[r]
          BY <2>3, <4>2
        <5>2. QED
          BY <3>1, <5>1 DEF RowsCurrent
      <4>3. CASE ~(new.rows[r].seq <= f.seq)
        BY <2>1, <4>1, <4>3
      <4>4. QED
        BY <4>2, <4>3
    <3>3. QED
      BY <3>2 DEF RowsCurrent
  <2>5. ASSUME f.t = "state", s = "hello" PROVE StateCurrent(f, c, new)
    <3>1. StateCurrent(f, c, rm)
      BY <2>5 DEF Fits
    <3>2. QED
      BY <2>3, <3>1 DEF StateCurrent
  <2>6. QED
    BY <2>2, <2>4, <2>5 DEF Fits
<1>4. QED
  BY <1>2, <1>3

LEMMA FwdWire ==
    ASSUME NEW rm, NEW new, GoodRoom(rm), GoodRoom(new), Fwd(rm, new),
           NEW dn \in Seq(DownType), NEW u, NEW s, NEW c, WireOK(dn, u, s, c, rm)
    PROVE  WireOK(dn, u, s, c, new)
<1>1. \A i \in DOMAIN dn : dn[i] \in DownType
  BY ElementOfSeq, LenProperties
<1>2. \A i \in DOMAIN dn : Fits(dn[i], s, c, new)
  BY <1>1, FwdFits DEF WireOK
<1>3. QED
  BY <1>2 DEF WireOK

\* A push moves the room forward, and its broadcast fits every document that
\* reflects the room before it.
LEMMA PushFwd ==
    ASSUME NEW rm, GoodRoom(rm), NEW ops \in Ops
    PROVE  /\ Fwd(rm, applyPushBatch(rm, ops))
           /\ Touched(rm, ops) # {} =>
                /\ RowsFrame(rm, ops).t = "rows" /\ RowsFrame(rm, ops).seq = rm.seq + 1
                /\ applyPushBatch(rm, ops).seq = rm.seq + 1
                /\ RowsCurrent(RowsFrame(rm, ops), applyPushBatch(rm, ops))
<1> DEFINE new == applyPushBatch(rm, ops)
           T == Touched(rm, ops)
           f == RowsFrame(rm, ops)
<1>1. /\ rm \in RoomType /\ rm.rows \in [Row -> RowType]
      /\ rm.seq \in Nat /\ \A r \in Row : rm.rows[r].seq \in Nat /\ rm.rows[r].seq <= rm.seq
  BY RoomParts DEF GoodRoom, RoomType
<1>2. /\ new \in RoomType
      /\ \A r \in Row : r \notin T => new.rows[r] = rm.rows[r]
      /\ \A r \in T : /\ r \in Row /\ ops[r] \in OpType
                      /\ new.rows[r] = [apply_op(rm.rows[r], ops[r]) EXCEPT !.seq = rm.seq + 1]
  BY <1>1, BatchParts
<1>3. new.seq = IF T = {} THEN rm.seq ELSE rm.seq + 1
  BY <1>1 DEF applyPushBatch, RoomType
<1>4. f = [t |-> "rows", seq |-> new.seq, rows |-> [r \in T |-> new.rows[r]]]
  BY DEF RowsFrame
<1>5. /\ f.t = "rows" /\ f.seq = new.seq /\ DOMAIN f.rows = T
      /\ \A r \in T : f.rows[r] = new.rows[r]
  BY <1>4
<1> HIDE DEF new, T, f
<1>6. \A r \in T : new.rows[r].seq = rm.seq + 1
  <2> SUFFICES ASSUME NEW r \in T PROVE new.rows[r].seq = rm.seq + 1
    OBVIOUS
  <2>1. apply_op(rm.rows[r], ops[r]) \in RowType
    BY <1>1, <1>2, ApplyAdvances
  <2>2. QED
    BY <1>2, <2>1 DEF RowType
<1>7. rm.seq < rm.seq + 1 /\ rm.seq <= new.seq
  BY <1>1, <1>3
<1>8. Fwd(rm, new)
  BY <1>2, <1>6, <1>7 DEF Fwd, Held
<1>9. ASSUME T # {} PROVE RowsCurrent(f, new)
  <2>1. new.seq = rm.seq + 1
    BY <1>3, <1>9
  <2>2. \A r \in Row : r \notin T => new.rows[r].seq # f.seq
    <3> SUFFICES ASSUME NEW r \in Row, r \notin T PROVE new.rows[r].seq # f.seq
      OBVIOUS
    <3>1. new.rows[r].seq \in Nat /\ new.rows[r].seq <= rm.seq
      BY <1>1, <1>2
    <3>2. QED
      BY <1>1, <1>5, <2>1, <3>1
  <2>3. \A r \in T : f.seq <= new.rows[r].seq
    BY <1>1, <1>5, <1>6, <2>1
  <2>4. QED
    BY <1>5, <2>2, <2>3 DEF RowsCurrent, Held
<1>10. QED
  BY <1>3, <1>5, <1>8, <1>9 DEF new, T, f

\* So does a purge.
LEMMA PurgeFwd ==
    ASSUME NEW rm, GoodRoom(rm), NEW horizon
    PROVE  Fwd(rm, PurgeTombstones(rm, horizon))
<1> DEFINE gone == Purgeable(rm, horizon)
           table == [r \in Row |-> IF r \in gone THEN Absent ELSE rm.rows[r]]
           new == PurgeTombstones(rm, horizon)
<1>1. rm \in RoomType /\ rm.seq \in Nat
  BY RoomParts DEF GoodRoom
<1>2. new.seq = rm.seq /\ new.rows = table
  BY <1>1 DEF PurgeTombstones, RoomType
<1>3. \A r \in Held(new.rows) : new.rows[r] = rm.rows[r]
  BY <1>2 DEF Held
<1> HIDE DEF new
<1>4. QED
  BY <1>1, <1>2, <1>3 DEF Fwd, new

\* What WireOK asks of the frames before and behind a place.
LEMMA SameCursor ==
    ASSUME NEW c, NEW c2, c2.auth = c.auth, c2.cursor = c.cursor,
           NEW dn, NEW u, NEW s, NEW rm
    PROVE  /\ Reflects(c, rm) => Reflects(c2, rm)
           /\ WireOK(dn, u, s, c, rm) => WireOK(dn, u, s, c2, rm)
BY DEF Reflects, WireOK, Fits, StateCurrent

LEMMA NoWire ==
    ASSUME NEW s, NEW c, NEW rm
    PROVE  WireOK(<<>>, <<>>, s, c, rm)
BY DEF WireOK

LEMMA DialWire ==
    ASSUME NEW s, NEW c, NEW rm
    PROVE  WireOK(<<>>, <<[t |-> "hello", cursor |-> c.cursor]>>, s, c, rm)
BY DEF WireOK

\* Frames may go from either end of the channel to the device.
LEMMA FewerFrames ==
    ASSUME NEW dn, NEW dn2, NEW u, NEW s, NEW c, NEW rm, WireOK(dn, u, s, c, rm),
           NEW k \in Nat, DOMAIN dn2 \subseteq Nat,
           \A i \in DOMAIN dn2 : i + k \in DOMAIN dn /\ dn2[i] = dn[i + k]
    PROVE  WireOK(dn2, u, s, c, rm)
<1>1. \A i \in DOMAIN dn2 : Fits(dn2[i], s, c, rm)
  BY DEF WireOK
<1>2. ASSUME NEW i \in DOMAIN dn2, NEW j \in DOMAIN dn2,
             i < j, Counts(dn2[i]), dn2[j].t = "rows"
      PROVE  dn2[i].seq < dn2[j].seq
  <2>1. i + k < j + k
    BY <1>2
  <2>2. /\ i + k \in DOMAIN dn /\ dn2[i] = dn[i + k]
        /\ j + k \in DOMAIN dn /\ dn2[j] = dn[j + k]
    OBVIOUS
  <2>3. QED
    BY <1>2, <2>1, <2>2 DEF WireOK
<1>3. \A i \in DOMAIN u : u[i].t = "hello" =>
          /\ i = 1 /\ u[i].cursor = c.cursor
          /\ \A j \in DOMAIN dn2 : ~Counts(dn2[j])
  BY DEF WireOK
<1>4. QED
  BY <1>1, <1>2, <1>3 DEF WireOK

LEMMA TailParts ==
    ASSUME NEW S, NEW q \in Seq(S), q # <<>>
    PROVE  /\ DOMAIN q = 1..Len(q) /\ Len(q) \in Nat \ {0} /\ 1 \in DOMAIN q /\ Head(q) = q[1]
           /\ Tail(q) \in Seq(S) /\ DOMAIN Tail(q) = 1..(Len(q) - 1)
           /\ \A i \in DOMAIN Tail(q) : i + 1 \in DOMAIN q /\ Tail(q)[i] = q[i + 1]
<1>1. /\ DOMAIN q = 1..Len(q) /\ Len(q) \in Nat /\ Len(q) # 0
      /\ Head(q) = q[1] /\ Tail(q) \in Seq(S) /\ Len(Tail(q)) = Len(q) - 1
      /\ \A i \in 1..(Len(q) - 1) : Tail(q)[i] = q[i + 1]
  BY HeadTailProperties, LenProperties, EmptySeq
<1>2. DOMAIN Tail(q) = 1..(Len(q) - 1)
  BY <1>1, LenProperties
<1>3. QED
  BY <1>1, <1>2

LEMMA TailWire ==
    ASSUME NEW dn \in Seq(DownType), dn # <<>>,
           NEW u, NEW s, NEW c, NEW rm, WireOK(dn, u, s, c, rm)
    PROVE  WireOK(Tail(dn), u, s, c, rm)
<1>1. /\ DOMAIN Tail(dn) \subseteq Nat
      /\ \A i \in DOMAIN Tail(dn) : i + 1 \in DOMAIN dn /\ Tail(dn)[i] = dn[i + 1]
  BY TailParts
<1>2. QED
  BY <1>1, FewerFrames

LEMMA FrontWire ==
    ASSUME NEW dn \in Seq(DownType), dn # <<>>,
           NEW u, NEW s, NEW c, NEW rm, WireOK(dn, u, s, c, rm)
    PROVE  WireOK(Front(dn), u, s, c, rm)
<1>1. DOMAIN dn = 1..Len(dn) /\ Len(dn) \in Nat \ {0}
  BY TailParts
<1>2. /\ Len(SubSeq(dn, 1, Len(dn) - 1)) = Len(dn) - 1
      /\ DOMAIN SubSeq(dn, 1, Len(dn) - 1) = 1..(Len(dn) - 1)
      /\ \A i \in 1..(Len(dn) - 1) : SubSeq(dn, 1, Len(dn) - 1)[i] = dn[i]
  BY <1>1
<1>3. Front(dn) = SubSeq(dn, 1, Len(dn) - 1)
  BY DEF Front
<1> DEFINE f == SubSeq(dn, 1, Len(dn) - 1)
<1>4. /\ DOMAIN f \subseteq Nat
      /\ \A i \in DOMAIN f : i + 0 \in DOMAIN dn /\ f[i] = dn[i + 0]
  BY <1>1, <1>2
<1> HIDE DEF f
<1>5. WireOK(f, u, s, c, rm)
  BY <1>4, FewerFrames
<1>6. QED
  BY <1>3, <1>5 DEF f

\* The channel to the room may lose its hello or gain frames that are not one.
LEMMA OtherUp ==
    ASSUME NEW dn, NEW u, NEW u2, NEW s, NEW c, NEW rm, WireOK(dn, u, s, c, rm),
           \A i \in DOMAIN u2 : u2[i].t = "hello" => i \in DOMAIN u /\ u2[i] = u[i]
    PROVE  WireOK(dn, u2, s, c, rm)
BY DEF WireOK

LEMMA TailUp ==
    ASSUME NEW dn, NEW u \in Seq(UpType), u # <<>>, NEW s, NEW c, NEW rm,
           WireOK(dn, u, s, c, rm)
    PROVE  /\ WireOK(dn, Tail(u), s, c, rm)
           /\ \A i \in DOMAIN Tail(u) : Tail(u)[i].t # "hello"
<1>1. /\ DOMAIN Tail(u) = 1..(Len(u) - 1) /\ Len(u) \in Nat
      /\ \A i \in DOMAIN Tail(u) : i + 1 \in DOMAIN u /\ Tail(u)[i] = u[i + 1]
  BY TailParts
<1>2. \A i \in DOMAIN Tail(u) : i + 1 # 1
  BY <1>1
<1>3. \A i \in DOMAIN Tail(u) : Tail(u)[i].t # "hello"
  BY <1>1, <1>2 DEF WireOK
<1>4. QED
  BY <1>3, OtherUp

LEMMA PushesUp ==
    ASSUME NEW dn, NEW u \in Seq(UpType), NEW q \in Queue, NEW s, NEW c, NEW rm,
           WireOK(dn, u, s, c, rm)
    PROVE  WireOK(dn, u \o PushFrames(q), s, c, rm)
<1> DEFINE p == PushFrames(q)
<1>1. p \in Seq(UpType) /\ \A i \in DOMAIN p : p[i].t = "push"
  <2>1. \A i \in DOMAIN p : p[i].t = "push"
    BY DEF PushFrames
  <2>2. QED
    BY <2>1, PushFramesType
<1> HIDE DEF p
<1>2. /\ u \o p \in Seq(UpType) /\ Len(u \o p) = Len(u) + Len(p)
      /\ Len(u) \in Nat /\ Len(p) \in Nat /\ DOMAIN u = 1..Len(u) /\ DOMAIN p = 1..Len(p)
      /\ \A i \in 1..(Len(u) + Len(p)) :
            (u \o p)[i] = IF i <= Len(u) THEN u[i] ELSE p[i - Len(u)]
  BY <1>1, ConcatProperties, LenProperties
<1>3. DOMAIN (u \o p) = 1..(Len(u) + Len(p))
  BY <1>2, LenProperties
<1>4. ASSUME NEW i \in DOMAIN (u \o p), (u \o p)[i].t = "hello"
      PROVE  i \in DOMAIN u /\ (u \o p)[i] = u[i]
  <2>1. CASE i <= Len(u)
    BY <1>2, <1>3, <2>1
  <2>2. CASE ~(i <= Len(u))
    <3>1. i - Len(u) \in DOMAIN p /\ (u \o p)[i] = p[i - Len(u)]
      BY <1>2, <1>3, <2>2
    <3>2. QED
      BY <1>1, <1>4, <3>1
  <2>3. QED
    BY <2>1, <2>2
<1>5. QED
  BY <1>4, OtherUp DEF p

\* A frame at the end of the channel to the device.
LEMMA AppendParts ==
    ASSUME NEW S, NEW q \in Seq(S), NEW f \in S
    PROVE  /\ Len(q) \in Nat /\ DOMAIN q = 1..Len(q) /\ DOMAIN Append(q, f) = 1..(Len(q) + 1)
           /\ \A i \in DOMAIN q : i \in DOMAIN Append(q, f) /\ Append(q, f)[i] = q[i]
           /\ \A i \in DOMAIN Append(q, f) :
                 \/ i \in DOMAIN q
                 \/ i = Len(q) + 1 /\ Append(q, f)[i] = f
<1>1. Len(q) \in Nat /\ DOMAIN q = 1..Len(q)
  BY LenProperties
<1>2. \A i \in 1..(Len(q) + 1) : i \in 1..Len(q) \/ i = Len(q) + 1
  BY <1>1
<1>3. \A i \in 1..Len(q) : i \in 1..(Len(q) + 1) /\ i # Len(q) + 1
  BY <1>1
<1>4. /\ Append(q, f) \in Seq(S) /\ Len(Append(q, f)) = Len(q) + 1
      /\ \A i \in 1..Len(q) : Append(q, f)[i] = q[i]
      /\ Append(q, f)[Len(q) + 1] = f
  BY AppendProperties
<1>5. DOMAIN Append(q, f) = 1..(Len(q) + 1)
  BY <1>4, LenProperties
<1>6. QED
  BY <1>1, <1>2, <1>3, <1>4, <1>5

LEMMA AppendWire ==
    ASSUME NEW dn \in Seq(DownType), NEW f \in DownType, NEW u, NEW s, NEW c, NEW rm,
           WireOK(dn, u, s, c, rm), Fits(f, s, c, rm),
           f.t = "rows" => \A i \in DOMAIN dn : Counts(dn[i]) => dn[i].seq < f.seq,
           Counts(f) => \A i \in DOMAIN u : u[i].t # "hello"
    PROVE  WireOK(Append(dn, f), u, s, c, rm)
<1> DEFINE q == Append(dn, f)
<1>1. /\ Len(dn) \in Nat /\ DOMAIN dn = 1..Len(dn)
      /\ \A i \in DOMAIN dn : i \in DOMAIN q /\ q[i] = dn[i]
      /\ DOMAIN q = 1..(Len(dn) + 1)
      /\ \A i \in DOMAIN q : i \in DOMAIN dn \/ (i = Len(dn) + 1 /\ q[i] = f)
  BY AppendParts
<1> HIDE DEF q
<1>2. \A i \in DOMAIN q : Fits(q[i], s, c, rm)
  <2> SUFFICES ASSUME NEW i \in DOMAIN q PROVE Fits(q[i], s, c, rm)
    OBVIOUS
  <2>1. (i \in DOMAIN dn /\ q[i] = dn[i]) \/ q[i] = f
    BY <1>1
  <2>2. QED
    BY <2>1 DEF WireOK
<1>3. ASSUME NEW i \in DOMAIN q, NEW j \in DOMAIN q, i < j, Counts(q[i]), q[j].t = "rows"
      PROVE  q[i].seq < q[j].seq
  <2>1. i \in DOMAIN dn /\ q[i] = dn[i]
    BY <1>1, <1>3
  <2>2. CASE j \in DOMAIN dn
    <3>1. q[j] = dn[j]
      BY <1>1, <2>2
    <3>2. QED
      BY <1>3, <2>1, <2>2, <3>1 DEF WireOK
  <2>3. CASE q[j] = f
    BY <1>3, <2>1, <2>3
  <2>4. QED
    BY <1>1, <2>2, <2>3
<1>4. ASSUME NEW i \in DOMAIN u, u[i].t = "hello"
      PROVE  i = 1 /\ u[i].cursor = c.cursor /\ \A j \in DOMAIN q : ~Counts(q[j])
  <2>1. i = 1 /\ u[i].cursor = c.cursor /\ \A j \in DOMAIN dn : ~Counts(dn[j])
    BY <1>4 DEF WireOK
  <2>2. ~Counts(f)
    BY <1>4
  <2>3. \A j \in DOMAIN q : (j \in DOMAIN dn /\ q[j] = dn[j]) \/ q[j] = f
    BY <1>1
  <2>4. QED
    BY <2>1, <2>2, <2>3
<1>5. WireOK(q, u, s, c, rm)
  BY <1>2, <1>3, <1>4 DEF WireOK
<1>6. QED
  BY <1>5 DEF q

LEMMA BroadcastWire ==
    ASSUME NEW rm, GoodRoom(rm), NEW ops \in Ops, Touched(rm, ops) # {},
           NEW dn \in Seq(DownType), NEW u, \A i \in DOMAIN u : u[i].t # "hello",
           NEW s, NEW c, c.cursor \in Nat, Reflects(c, rm), WireOK(dn, u, s, c, rm)
    PROVE  WireOK(Append(dn, RowsFrame(rm, ops)), u, s, c, applyPushBatch(rm, ops))
<1> DEFINE new == applyPushBatch(rm, ops)
           f == RowsFrame(rm, ops)
<1>1. /\ Fwd(rm, new) /\ f.t = "rows" /\ f.seq = rm.seq + 1 /\ new.seq = rm.seq + 1
      /\ RowsCurrent(f, new) /\ GoodRoom(new) /\ f \in RowsType /\ f \in DownType
  BY PushFwd, PushGood DEF DownType
<1>2. rm.seq \in Nat /\ c.cursor <= rm.seq
  BY RoomParts DEF Reflects
<1> HIDE DEF new, f
<1>3. WireOK(dn, u, s, c, new)
  BY <1>1, FwdWire
<1>4. Fits(f, s, c, new)
  <2>1. f.seq <= new.seq /\ c.cursor < f.seq
    BY <1>1, <1>2
  <2>2. QED
    BY <1>1, <2>1 DEF Fits
<1>5. ASSUME NEW i \in DOMAIN dn, Counts(dn[i]) PROVE dn[i].seq < f.seq
  <2>1. dn[i] \in DownType
    BY ElementOfSeq, LenProperties
  <2>2. dn[i].seq \in Nat /\ dn[i].seq <= rm.seq
    BY <1>5, <2>1, FrameSeq DEF WireOK, Fits
  <2>3. QED
    BY <1>1, <1>2, <2>2
<1>6. WireOK(Append(dn, f), u, s, c, new)
  BY <1>1, <1>3, <1>4, <1>5, AppendWire
<1>7. QED
  BY <1>6 DEF new, f

LEMMA PlainWire ==
    ASSUME NEW dn \in Seq(DownType), NEW f \in DownType, ~Counts(f),
           NEW u, NEW s, NEW c, NEW rm, WireOK(dn, u, s, c, rm)
    PROVE  WireOK(Append(dn, f), u, s, c, rm)
<1>1. Fits(f, s, c, rm) /\ f.t # "rows"
  BY DEF Fits, Counts
<1>2. QED
  BY <1>1, AppendWire

\* The answer to a hello.
LEMMA HelloWire ==
    ASSUME NEW rm, GoodRoom(rm), NEW dn \in Seq(DownType),
           NEW u \in Seq(UpType), u # <<>>, Head(u).t = "hello",
           NEW s, NEW c, c.cursor \in Nat, WireOK(dn, u, s, c, rm)
    PROVE  WireOK(Append(dn, StateFrame(rm, Head(u).cursor)), Tail(u), s, c, rm)
<1>1. 1 \in DOMAIN u /\ Head(u) = u[1]
  BY TailParts
<1>2. Head(u).cursor = c.cursor /\ \A j \in DOMAIN dn : ~Counts(dn[j])
  BY <1>1 DEF WireOK
<1> DEFINE f == StateFrame(rm, c.cursor)
           full == c.cursor < rm.gcFloor \/ c.cursor > rm.seq
           S == {x \in Held(rm.rows) : full \/ rm.rows[x].seq > c.cursor}
<1>3. f = [t |-> "state", seq |-> rm.seq, full |-> full, rows |-> [r \in S |-> rm.rows[r]]]
  BY DEF StateFrame
<1>4. f.t = "state" /\ f.seq = rm.seq /\ f.full = full /\ f.rows = [r \in S |-> rm.rows[r]]
  BY <1>3
<1>5. f \in DownType
  BY StateFrameType DEF DownType
<1>6. rm.seq <= rm.seq
  BY RoomParts
<1> HIDE DEF f, full
<1>7. StateCurrent(f, c, rm)
  BY <1>4 DEF StateCurrent
<1> HIDE DEF S
<1>8. Fits(f, s, c, rm)
  BY <1>4, <1>6, <1>7 DEF Fits
<1>9. WireOK(dn, Tail(u), s, c, rm) /\ \A i \in DOMAIN Tail(u) : Tail(u)[i].t # "hello"
  BY TailUp
<1>10. f.t # "rows"
  BY <1>4
<1>11. WireOK(Append(dn, f), Tail(u), s, c, rm)
  BY <1>5, <1>8, <1>9, <1>10, AppendWire
<1>12. QED
  BY <1>2, <1>11 DEF f

\* A frame read leaves the ones behind it above the document's new cursor.
LEMMA NextWire ==
    ASSUME NEW dn \in Seq(DownType), dn # <<>>, Counts(Head(dn)),
           NEW u, NEW s, NEW c, NEW c2, c2.cursor = Head(dn).seq, NEW rm,
           WireOK(dn, u, s, c, rm)
    PROVE  WireOK(Tail(dn), u, "joined", c2, rm) /\ \A i \in DOMAIN u : u[i].t # "hello"
<1>1. /\ 1 \in DOMAIN dn /\ Head(dn) = dn[1] /\ DOMAIN Tail(dn) \subseteq Nat \ {0}
      /\ \A i \in DOMAIN Tail(dn) : i + 1 \in DOMAIN dn /\ Tail(dn)[i] = dn[i + 1]
  BY TailParts
<1>2. \A i \in DOMAIN u : u[i].t # "hello"
  BY <1>1 DEF WireOK
<1>3. WireOK(Tail(dn), u, s, c, rm)
  BY TailWire
<1>4. ASSUME NEW i \in DOMAIN Tail(dn) PROVE Fits(Tail(dn)[i], "joined", c2, rm)
  <2>1. i + 1 \in DOMAIN dn /\ Tail(dn)[i] = dn[i + 1] /\ 1 < i + 1
    BY <1>1
  <2>2. Tail(dn)[i].t = "rows" => c2.cursor < Tail(dn)[i].seq
    BY <1>1, <2>1 DEF WireOK
  <2>3. Fits(Tail(dn)[i], s, c, rm)
    BY <1>3 DEF WireOK
  <2>4. QED
    BY <2>2, <2>3 DEF Fits
<1>5. QED
  BY <1>2, <1>3, <1>4 DEF WireOK

LEMMA PutHeld ==
    ASSUME NEW auth, NEW rows, NEW r \in Row
    PROVE  put_authoritative(auth, rows)[r] = IF r \in DOMAIN rows THEN rows[r] ELSE auth[r]
BY DEF put_authoritative

LEMMA StateReflects ==
    ASSUME NEW rm, GoodRoom(rm), NEW c, c.cursor \in Nat, NEW f, f.seq \in Nat, NEW id,
           Reflects(c, rm), f.seq <= rm.seq, StateCurrent(f, c, rm)
    PROVE  Reflects(apply_state(c, f, id), rm) /\ apply_state(c, f, id).cursor = f.seq
<1> DEFINE new == apply_state(c, f, id)
<1>1. /\ new.cursor = f.seq
      /\ \/ new.auth = put_authoritative(EmptyDoc.auth, f.rows) /\ f.full
         \/ new.auth = put_authoritative(c.auth, f.rows)
  BY DEF apply_state
<1> HIDE DEF new
<1>2. ASSUME NEW r \in Held(rm.rows), rm.rows[r].seq <= f.seq
      PROVE  new.auth[r] = rm.rows[r]
  <2>1. r \in Row /\ rm.rows[r].seq \in Nat
    BY RoomParts DEF Held
  <2>2. CASE r \in DOMAIN f.rows
    <3>1. f.rows[r] = rm.rows[r]
      BY <1>2, <2>2 DEF StateCurrent
    <3>2. QED
      BY <1>1, <2>1, <2>2, <3>1, PutHeld
  <2>3. CASE r \notin DOMAIN f.rows
    <3>1. ~f.full /\ ~(rm.rows[r].seq > c.cursor)
      BY <1>2, <2>3 DEF StateCurrent
    <3>2. c.auth[r] = rm.rows[r]
      BY <2>1, <3>1 DEF Reflects
    <3>3. QED
      BY <1>1, <2>1, <2>3, <3>1, <3>2, PutHeld
  <2>4. QED
    BY <2>2, <2>3
<1>3. QED
  BY <1>1, <1>2 DEF Reflects, new

LEMMA MaxAbove ==
    ASSUME NEW a \in Nat, NEW b \in Nat, a < b
    PROVE  Max({a, b}) = b
<1>1. b \in {a, b} /\ \A y \in {a, b} : b >= y
  OBVIOUS
<1>2. Max({a, b}) \in {a, b} /\ \A y \in {a, b} : Max({a, b}) >= y
  BY <1>1 DEF Max
<1>3. QED
  BY <1>2

LEMMA RowsReflect ==
    ASSUME NEW rm, GoodRoom(rm), NEW c \in DocType, NEW f \in RowsType,
           Reflects(c, rm), f.seq <= rm.seq, RowsCurrent(f, rm), c.cursor < f.seq
    PROVE  /\ Reflects(apply_rows(c, f), rm)
           /\ ~Gap(c, f) => apply_rows(c, f).cursor = f.seq
<1> DEFINE new == apply_rows(c, f)
           cursor == IF Gap(c, f) THEN c.cursor ELSE Max({c.cursor, f.seq})
           auth == put_authoritative(c.auth, f.rows)
<1>1. c.cursor \in Nat /\ f.seq \in Nat
  BY DEF DocType, RowsType
<1>2. new.cursor = cursor /\ new.auth = auth
  BY DEF apply_rows, DocType
<1>3. cursor = IF Gap(c, f) THEN c.cursor ELSE f.seq
  BY <1>1, MaxAbove
<1> HIDE DEF new, cursor, auth
<1>4. ASSUME NEW r \in Held(rm.rows), rm.rows[r].seq <= cursor
      PROVE  auth[r] = rm.rows[r]
  <2>1. r \in Row /\ rm.rows[r].seq \in Nat
    BY RoomParts DEF Held
  <2>2. CASE rm.rows[r].seq <= c.cursor
    <3>1. r \notin DOMAIN f.rows
      BY <1>1, <2>1, <2>2 DEF RowsCurrent
    <3>2. c.auth[r] = rm.rows[r]
      BY <2>2 DEF Reflects
    <3>3. QED
      BY <2>1, <3>1, <3>2, PutHeld DEF auth
  <2>3. CASE ~(rm.rows[r].seq <= c.cursor)
    <3>1. ~Gap(c, f)
      BY <1>3, <1>4, <2>3
    <3>2. rm.rows[r].seq = f.seq
      <4>1. f.seq <= c.cursor + 1 /\ rm.rows[r].seq <= f.seq
        BY <1>1, <1>3, <1>4, <3>1 DEF Gap
      <4>2. QED
        BY <1>1, <2>1, <2>3, <4>1
    <3>3. r \in DOMAIN f.rows /\ f.rows[r] = rm.rows[r]
      BY <3>2 DEF RowsCurrent
    <3>4. QED
      BY <2>1, <3>3, PutHeld DEF auth
  <2>4. QED
    BY <2>2, <2>3
<1>5. cursor <= rm.seq
  <2>1. rm.seq \in Nat
    BY RoomParts
  <2>2. QED
    BY <1>1, <1>3, <2>1 DEF Reflects
<1>6. QED
  BY <1>2, <1>3, <1>4, <1>5 DEF Reflects, new

\* The parts of a device the steps work on.
LEMMA DeviceParts ==
    ASSUME Inv, NEW d \in Device
    PROVE  /\ GoodRoom(room) /\ doc[d] \in DocType /\ disk[d] \in DocType
           /\ doc[d].cursor \in Nat /\ disk[d].cursor \in Nat
           /\ up[d] \in Seq(UpType) /\ down[d] \in Seq(DownType)
           /\ sess[d] = "down" => up[d] = <<>> /\ down[d] = <<>>
BY DEF Inv, Docs, Wires, DocType

\* A step of one device that leaves the room alone.
LEMMA Locally ==
    ASSUME NEW d \in Device, room' = room,
           \A e \in Device \ {d} :
              /\ doc'[e] = doc[e] /\ disk'[e] = disk[e] /\ sess'[e] = sess[e]
              /\ up'[e] = up[e] /\ down'[e] = down[e],
           \A e \in Device : Tracks(e),
           Tracks(d)'
    PROVE  \A e \in Device : Tracks(e)'
<1>1. ASSUME NEW e \in Device, e # d PROVE Tracks(e)'
  BY <1>1 DEF Tracks
<1>2. QED
  BY <1>1

\* Marking, retiring and queueing batches leave rows and cursor alone.
LEMMA QueueOnly ==
    ASSUME NEW c \in DocType, NEW q
    PROVE  /\ [c EXCEPT !.pending = q].auth = c.auth
           /\ [c EXCEPT !.pending = q].cursor = c.cursor
BY DEF DocType

LEMMA FlightOnly ==
    ASSUME NEW c \in DocType, NEW b
    PROVE  MarkFlight(c, b).auth = c.auth /\ MarkFlight(c, b).cursor = c.cursor
BY QueueOnly DEF MarkFlight

LEMMA AckOnly ==
    ASSUME NEW c \in DocType, NEW id
    PROVE  ack_batch(c, id).auth = c.auth /\ ack_batch(c, id).cursor = c.cursor
BY QueueOnly DEF ack_batch

LEMMA WriteTracks ==
    ASSUME Inv, \A e \in Device : Tracks(e),
           NEW d \in Device, NEW w, NEW hlc, Write(d, w, hlc)
    PROVE  \A e \in Device : Tracks(e)'
<1>1. PICK q : doc' = [doc EXCEPT ![d] = [doc[d] EXCEPT !.pending = q]]
  BY DEF Write
<1>2. UNCHANGED <<room, disk, sess, up, down>>
  BY DEF Write
<1>3. doc \in [Device -> DocType]
  BY DEF Inv, Docs
<1> DEFINE c == [doc[d] EXCEPT !.pending = q]
<1>4. c.auth = doc[d].auth /\ c.cursor = doc[d].cursor
  BY <1>3, QueueOnly
<1>5. doc'[d] = c /\ \A e \in Device \ {d} : doc'[e] = doc[e]
  BY <1>1, <1>3
<1> HIDE DEF c
<1>6. Tracks(d)'
  BY <1>2, <1>4, <1>5, SameCursor DEF Tracks
<1>7. QED
  BY <1>2, <1>5, <1>6, Locally

LEMMA SaveTracks ==
    ASSUME Inv, \A e \in Device : Tracks(e), NEW d \in Device, persist_snapshot(d)
    PROVE  \A e \in Device : Tracks(e)'
<1> DEFINE c == mark_disconnected(doc[d])
<1>1. disk' = [disk EXCEPT ![d] = c] /\ UNCHANGED <<room, doc, sess, up, down>>
  BY DEF persist_snapshot
<1>2. c.auth = doc[d].auth /\ c.cursor = doc[d].cursor
  BY DeviceParts, FlightOnly DEF mark_disconnected
<1>3. disk \in [Device -> DocType]
  BY DEF Inv, Docs
<1> HIDE DEF c
<1>4. disk'[d] = c /\ \A e \in Device \ {d} : disk'[e] = disk[e]
  BY <1>1, <1>3
<1>5. Tracks(d)'
  BY <1>1, <1>2, <1>4, SameCursor DEF Tracks
<1>6. QED
  BY <1>1, <1>4, <1>5, Locally

\* A session ends with a document that reflects the room.
LEMMA EndTracks ==
    ASSUME Inv, \A e \in Device : Tracks(e), NEW d \in Device,
           NEW c \in DocType, EndSession(d, c), Reflects(c, room),
           room' = room, disk' = disk
    PROVE  \A e \in Device : Tracks(e)'
<1> DEFINE c2 == mark_disconnected(c)
<1>1. /\ doc' = [doc EXCEPT ![d] = c2] /\ sess' = [sess EXCEPT ![d] = "down"]
      /\ up' = [up EXCEPT ![d] = <<>>] /\ down' = [down EXCEPT ![d] = <<>>]
  BY DEF EndSession
<1>2. c2.auth = c.auth /\ c2.cursor = c.cursor
  BY FlightOnly DEF mark_disconnected
<1> HIDE DEF c2
<1>3. /\ doc'[d] = c2 /\ up'[d] = <<>> /\ down'[d] = <<>>
      /\ \A e \in Device \ {d} : /\ doc'[e] = doc[e] /\ sess'[e] = sess[e]
                                 /\ up'[e] = up[e] /\ down'[e] = down[e]
  BY <1>1 DEF Inv, Docs, Wires
<1>4. Tracks(d)'
  <2>1. Reflects(c2, room)
    BY <1>2, SameCursor
  <2>2. WireOK(<<>>, <<>>, sess'[d], c2, room)
    BY NoWire
  <2>3. QED
    BY <1>3, <2>1, <2>2 DEF Tracks
<1>5. QED
  BY <1>3, <1>4, Locally

LEMMA CrashTracks ==
    ASSUME Inv, \A e \in Device : Tracks(e), NEW d \in Device, Crash(d)
    PROVE  \A e \in Device : Tracks(e)'
<1>1. /\ doc' = [doc EXCEPT ![d] = disk[d]] /\ sess' = [sess EXCEPT ![d] = "down"]
      /\ up' = [up EXCEPT ![d] = <<>>] /\ down' = [down EXCEPT ![d] = <<>>]
      /\ UNCHANGED <<room, disk>>
  BY DEF Crash
<1>2. /\ doc'[d] = disk[d] /\ up'[d] = <<>> /\ down'[d] = <<>>
      /\ \A e \in Device \ {d} : /\ doc'[e] = doc[e] /\ sess'[e] = sess[e]
                                 /\ up'[e] = up[e] /\ down'[e] = down[e]
  BY <1>1 DEF Inv, Docs, Wires
<1>3. Tracks(d)'
  <2>1. WireOK(<<>>, <<>>, sess'[d], disk[d], room)
    BY NoWire
  <2>2. QED
    BY <1>1, <1>2, <2>1 DEF Tracks
<1>4. QED
  BY <1>1, <1>2, <1>3, Locally

LEMMA DialTracks ==
    ASSUME Inv, \A e \in Device : Tracks(e), NEW d \in Device, Dial(d)
    PROVE  \A e \in Device : Tracks(e)'
<1> DEFINE u == <<[t |-> "hello", cursor |-> doc[d].cursor]>>
<1>1. /\ sess[d] = "down" /\ sess' = [sess EXCEPT ![d] = "hello"]
      /\ up' = [up EXCEPT ![d] = u] /\ UNCHANGED <<room, doc, disk, down>>
  BY DEF Dial
<1>2. down[d] = <<>>
  BY <1>1, DeviceParts
<1>3. \A s : WireOK(<<>>, u, s, doc[d], room)
  BY DialWire
<1> HIDE DEF u
<1>4. /\ up'[d] = u
      /\ \A e \in Device \ {d} : sess'[e] = sess[e] /\ up'[e] = up[e]
  BY <1>1 DEF Inv, Wires
<1>5. Tracks(d)'
  BY <1>1, <1>2, <1>3, <1>4 DEF Tracks
<1>6. QED
  BY <1>1, <1>4, <1>5, Locally

LEMMA DropTracks ==
    ASSUME Inv, \A e \in Device : Tracks(e), NEW d \in Device, Drop(d) \/ RecvClose(d)
    PROVE  \A e \in Device : Tracks(e)'
<1>1. EndSession(d, doc[d]) /\ room' = room /\ disk' = disk
  BY DEF Drop, RecvClose
<1>2. doc[d] \in DocType
  BY DeviceParts
<1>3. Reflects(doc[d], room)
  BY DEF Tracks
<1>4. QED
  BY <1>1, <1>2, <1>3, EndTracks

\* A frame at the head of the channel fits the document.
LEMMA HeadFits ==
    ASSUME Inv, NEW d \in Device, down[d] # <<>>, Tracks(d)
    PROVE  Fits(Head(down[d]), sess[d], doc[d], room)
<1>1. 1 \in DOMAIN down[d] /\ Head(down[d]) = down[d][1]
  BY DeviceParts, TailParts
<1>2. QED
  BY <1>1 DEF Tracks, WireOK

LEMMA RecvStateTracks ==
    ASSUME Inv, \A e \in Device : Tracks(e), NEW d \in Device, RecvState(d)
    PROVE  \A e \in Device : Tracks(e)'
<1> DEFINE f == Head(down[d])
           c == apply_state(doc[d], f, minted[d] + 1)
           n == IF Reseeded(doc[d], f) = {} THEN minted[d] ELSE minted[d] + 1
           q == Pushable(c)
           c2 == take_pushable(c)
           u == up[d] \o PushFrames(q)
<1>1. /\ sess[d] = "hello" /\ down[d] # <<>> /\ f.t = "state"
      /\ doc' = [doc EXCEPT ![d] = c2] /\ up' = [up EXCEPT ![d] = u]
      /\ down' = [down EXCEPT ![d] = Tail(down[d])]
      /\ sess' = [sess EXCEPT ![d] = "joined"]
      /\ UNCHANGED <<room, disk>>
  BY DEF RecvState
<1>2. f \in StateType /\ f.seq \in Nat /\ Counts(f)
  BY <1>1, DownHead DEF StateType, Counts
<1>3. GoodDoc(c, n)
  BY <1>2, StateApplied
<1>4. c \in DocType /\ q \in Queue
  BY <1>3, PushableType DEF GoodDoc
<1>5. c2.auth = c.auth /\ c2.cursor = c.cursor
  BY <1>4, FlightOnly DEF take_pushable
<1> HIDE DEF c2, q, u
<1>6. /\ doc'[d] = c2 /\ up'[d] = u /\ down'[d] = Tail(down[d]) /\ sess'[d] = "joined"
      /\ \A e \in Device \ {d} : /\ doc'[e] = doc[e] /\ sess'[e] = sess[e]
                                 /\ up'[e] = up[e] /\ down'[e] = down[e]
  BY <1>1 DEF Inv, Docs, Wires
<1>7. Tracks(d)'
  <2>1. Tracks(d)
    OBVIOUS
  <2>2. Fits(f, sess[d], doc[d], room)
    BY <1>1, <2>1, HeadFits
  <2>3. f.seq <= room.seq /\ StateCurrent(f, doc[d], room)
    BY <1>1, <1>2, <2>2 DEF Fits
  <2>4. Reflects(c, room) /\ c.cursor = f.seq
    BY <1>2, <2>1, <2>3, DeviceParts, StateReflects DEF Tracks
  <2>5. WireOK(Tail(down[d]), up[d], "joined", c, room)
    <3>1. WireOK(down[d], up[d], sess[d], doc[d], room)
      BY <2>1 DEF Tracks
    <3> HIDE DEF c
    <3>2. QED
      BY <1>1, <1>2, <2>4, <3>1, DeviceParts, NextWire
  <2> HIDE DEF c
  <2>6. WireOK(Tail(down[d]), u, "joined", c, room)
    BY <1>4, <2>5, DeviceParts, PushesUp DEF u
  <2>7. Reflects(c2, room) /\ WireOK(Tail(down[d]), u, "joined", c2, room)
    BY <1>5, <2>4, <2>6, SameCursor
  <2>8. QED
    BY <1>1, <1>6, <2>1, <2>7 DEF Tracks
<1>8. QED
  BY <1>1, <1>6, <1>7, Locally

LEMMA RecvRowsTracks ==
    ASSUME Inv, \A e \in Device : Tracks(e), NEW d \in Device, RecvRows(d)
    PROVE  \A e \in Device : Tracks(e)'
<1> DEFINE f == Head(down[d])
           c == apply_rows(doc[d], f)
<1>1. /\ sess[d] = "joined" /\ down[d] # <<>> /\ f.t = "rows" /\ UNCHANGED <<room, disk>>
  BY DEF RecvRows
<1>2. f \in RowsType /\ Counts(f)
  BY <1>1, DownHead DEF Counts
<1>3. c \in DocType
  BY <1>2, DocOf, ApplyRowsGood DEF Inv, GoodDoc
<1>4. /\ Tracks(d) /\ Reflects(c, room)
      /\ ~Gap(doc[d], f) => c.cursor = f.seq
  <2>1. Tracks(d)
    OBVIOUS
  <2>2. Fits(f, sess[d], doc[d], room)
    BY <1>1, <2>1, HeadFits
  <2>3. f.seq <= room.seq /\ RowsCurrent(f, room) /\ doc[d].cursor < f.seq
    BY <1>1, <1>2, <2>2 DEF Fits
  <2>4. QED
    BY <1>2, <2>1, <2>3, DeviceParts, RowsReflect DEF Tracks
<1>5. CASE Gap(doc[d], f)
  <2>1. EndSession(d, c)
    BY <1>5 DEF RecvRows
  <2> HIDE DEF c
  <2>2. QED
    BY <1>1, <1>3, <1>4, <2>1, EndTracks
<1>6. CASE ~Gap(doc[d], f)
  <2>1. /\ doc' = [doc EXCEPT ![d] = c] /\ down' = [down EXCEPT ![d] = Tail(down[d])]
        /\ UNCHANGED <<sess, up>>
    BY <1>6 DEF RecvRows
  <2> HIDE DEF c
  <2>2. /\ doc'[d] = c /\ down'[d] = Tail(down[d])
        /\ \A e \in Device \ {d} : doc'[e] = doc[e] /\ down'[e] = down[e]
    BY <2>1 DEF Inv, Docs, Wires
  <2>3. Tracks(d)'
    <3>1. Tracks(d) /\ Reflects(c, room) /\ c.cursor = f.seq
      BY <1>4, <1>6
    <3>2. WireOK(down[d], up[d], sess[d], doc[d], room)
      BY <3>1 DEF Tracks
    <3>3. WireOK(Tail(down[d]), up[d], "joined", c, room)
      BY <1>1, <1>2, <3>1, <3>2, DeviceParts, NextWire
    <3>4. QED
      BY <1>1, <2>1, <2>2, <3>1, <3>3 DEF Tracks
  <2>4. QED
    BY <1>1, <2>1, <2>2, <2>3, Locally
<1>7. QED
  BY <1>5, <1>6

LEMMA RecvAckTracks ==
    ASSUME Inv, \A e \in Device : Tracks(e), NEW d \in Device, RecvAck(d)
    PROVE  \A e \in Device : Tracks(e)'
<1> DEFINE c == ack_batch(doc[d], Head(down[d]).id)
<1>1. /\ down[d] # <<>> /\ doc' = [doc EXCEPT ![d] = c]
      /\ down' = [down EXCEPT ![d] = Tail(down[d])]
      /\ UNCHANGED <<room, disk, sess, up>>
  BY DEF RecvAck
<1>2. c.auth = doc[d].auth /\ c.cursor = doc[d].cursor
  BY DeviceParts, AckOnly
<1> HIDE DEF c
<1>3. /\ doc'[d] = c /\ down'[d] = Tail(down[d])
      /\ \A e \in Device \ {d} : doc'[e] = doc[e] /\ down'[e] = down[e]
  BY <1>1 DEF Inv, Docs, Wires
<1>4. Tracks(d)'
  <2>1. Tracks(d)
    OBVIOUS
  <2>2. WireOK(Tail(down[d]), up[d], sess[d], doc[d], room)
    BY <1>1, <2>1, DeviceParts, TailWire DEF Tracks
  <2>3. Reflects(c, room) /\ WireOK(Tail(down[d]), up[d], sess[d], c, room)
    BY <1>2, <2>1, <2>2, SameCursor DEF Tracks
  <2>4. QED
    BY <1>1, <1>3, <2>1, <2>3 DEF Tracks
<1>5. QED
  BY <1>1, <1>3, <1>4, Locally

LEMMA PushPendingTracks ==
    ASSUME Inv, \A e \in Device : Tracks(e), NEW d \in Device, push_pending(d)
    PROVE  \A e \in Device : Tracks(e)'
<1> DEFINE q == Pushable(doc[d])
           u == up[d] \o PushFrames(q)
           c == take_pushable(doc[d])
<1>1. /\ up' = [up EXCEPT ![d] = u] /\ doc' = [doc EXCEPT ![d] = c]
      /\ UNCHANGED <<room, disk, sess, down>>
  BY DEF push_pending
<1>2. c.auth = doc[d].auth /\ c.cursor = doc[d].cursor /\ q \in Queue
  BY DeviceParts, DocOf, PushableType, FlightOnly DEF take_pushable, Inv, GoodDoc
<1> HIDE DEF c, q, u
<1>3. /\ doc'[d] = c /\ up'[d] = u
      /\ \A e \in Device \ {d} : doc'[e] = doc[e] /\ up'[e] = up[e]
  BY <1>1 DEF Inv, Docs, Wires
<1>4. Tracks(d)'
  <2>1. Tracks(d)
    OBVIOUS
  <2>2. WireOK(down[d], u, sess[d], doc[d], room)
    BY <1>2, <2>1, DeviceParts, PushesUp DEF Tracks, u
  <2>3. Reflects(c, room) /\ WireOK(down[d], u, sess[d], c, room)
    BY <1>2, <2>1, <2>2, SameCursor DEF Tracks
  <2>4. QED
    BY <1>1, <1>3, <2>1, <2>3 DEF Tracks
<1>5. QED
  BY <1>1, <1>3, <1>4, Locally

LEMMA HelloTracks ==
    ASSUME Inv, \A e \in Device : Tracks(e), NEW d \in Device, handleHello(d)
    PROVE  \A e \in Device : Tracks(e)'
<1> DEFINE q == Append(down[d], StateFrame(room, Head(up[d]).cursor))
<1>1. /\ up[d] # <<>> /\ Head(up[d]).t = "hello"
      /\ down' = [down EXCEPT ![d] = q] /\ up' = [up EXCEPT ![d] = Tail(up[d])]
      /\ UNCHANGED <<room, doc, disk, sess>>
  BY DEF handleHello, clientVars
<1>2. WireOK(q, Tail(up[d]), sess[d], doc[d], room)
  <2>1. WireOK(down[d], up[d], sess[d], doc[d], room)
    BY DEF Tracks
  <2>2. QED
    BY <1>1, <2>1, DeviceParts, HelloWire
<1> HIDE DEF q
<1>3. /\ down'[d] = q /\ up'[d] = Tail(up[d])
      /\ \A e \in Device \ {d} : down'[e] = down[e] /\ up'[e] = up[e]
  BY <1>1 DEF Inv, Wires
<1>4. Tracks(d)'
  BY <1>1, <1>2, <1>3 DEF Tracks
<1>5. QED
  BY <1>1, <1>3, <1>4, Locally

LEMMA LoseTracks ==
    ASSUME Inv, \A e \in Device : Tracks(e), NEW d \in Device, LoseFrame(d)
    PROVE  \A e \in Device : Tracks(e)'
<1>1. /\ down[d] # <<>> /\ down' = [down EXCEPT ![d] = Front(down[d])]
      /\ UNCHANGED <<room, doc, disk, sess, up>>
  BY DEF LoseFrame, clientVars
<1>2. /\ down'[d] = Front(down[d]) /\ \A e \in Device \ {d} : down'[e] = down[e]
  BY <1>1 DEF Inv, Wires
<1>3. Tracks(d)'
  <2>1. Tracks(d)
    OBVIOUS
  <2>2. WireOK(Front(down[d]), up[d], sess[d], doc[d], room)
    BY <1>1, <2>1, DeviceParts, FrontWire DEF Tracks
  <2>3. QED
    BY <1>1, <1>2, <2>1, <2>2 DEF Tracks
<1>4. QED
  BY <1>1, <1>2, <1>3, Locally

\* A push, by whatever road, leaves every document and channel in step with
\* the room: the sockets that hear of it have no hello under way.
LEMMA Heard ==
    ASSUME Inv, NEW ops \in Ops, NEW e \in Device, Tracks(e)
    PROVE  LET new == applyPushBatch(room, ops)
           IN  /\ Reflects(doc[e], new) /\ Reflects(disk[e], new)
               /\ WireOK(Broadcast(ops)[e], up[e], sess[e], doc[e], new)
<1> DEFINE new == applyPushBatch(room, ops)
<1>1. GoodRoom(room) /\ GoodRoom(new) /\ Fwd(room, new)
  BY DeviceParts, PushGood, PushFwd
<1>2. /\ Reflects(doc[e], room) /\ Reflects(disk[e], room)
      /\ WireOK(down[e], up[e], sess[e], doc[e], room)
  BY DEF Tracks
<1>3. Reflects(doc[e], new) /\ Reflects(disk[e], new)
  <2> HIDE DEF new
  <2>1. QED
    BY <1>1, <1>2, DeviceParts, FwdReflects
<1>4. CASE Ready(e) /\ Touched(room, ops) # {}
  <2>1. Broadcast(ops)[e] = Append(down[e], RowsFrame(room, ops))
    BY <1>4 DEF Broadcast
  <2>2. \A i \in DOMAIN up[e] : up[e][i].t # "hello"
    <3> SUFFICES ASSUME NEW i \in DOMAIN up[e], up[e][i].t = "hello" PROVE FALSE
      OBVIOUS
    <3>1. i = 1
      BY <1>2 DEF WireOK
    <3>2. up[e] # <<>>
      BY <3>1
    <3>3. Head(up[e]) = up[e][1]
      BY <3>2, DeviceParts, TailParts
    <3>4. QED
      BY <1>4, <3>1, <3>2, <3>3 DEF Ready
  <2>3. WireOK(Append(down[e], RowsFrame(room, ops)), up[e], sess[e], doc[e], new)
    BY <1>2, <1>4, <2>2, DeviceParts, BroadcastWire
  <2>4. QED
    BY <1>3, <2>1, <2>3
<1>5. CASE ~(Ready(e) /\ Touched(room, ops) # {})
  <2>1. Broadcast(ops)[e] = down[e]
    BY <1>5 DEF Broadcast
  <2>2. WireOK(down[e], up[e], sess[e], doc[e], new)
    <3> HIDE DEF new
    <3>1. QED
      BY <1>1, <1>2, DeviceParts, FwdWire
  <2>3. QED
    BY <1>3, <2>1, <2>2
<1>6. QED
  BY <1>4, <1>5

LEMMA PushTracks ==
    ASSUME Inv, \A e \in Device : Tracks(e), NEW d \in Device, handlePush(d)
    PROVE  \A e \in Device : Tracks(e)'
<1> DEFINE ops == Head(up[d]).ops
           ack == [t |-> "ack", id |-> Head(up[d]).id]
           b == Broadcast(ops)
           q == Append(b[d], ack)
           new == applyPushBatch(room, ops)
<1>1. /\ up[d] # <<>> /\ Head(up[d]).t = "push" /\ room' = new
      /\ down' = [b EXCEPT ![d] = q]
      /\ up' = [up EXCEPT ![d] = Tail(up[d])]
      /\ UNCHANGED <<doc, disk, sess>>
  BY DEF handlePush, clientVars
<1>2. ops \in Ops /\ ack \in DownType /\ ~Counts(ack)
  BY <1>1, UpHead DEF DownType, Counts
<1>3. b \in [Device -> Seq(DownType)]
  BY <1>2, BroadcastType
<1>4. ASSUME NEW e \in Device
      PROVE  /\ Reflects(doc[e], new) /\ Reflects(disk[e], new)
             /\ WireOK(b[e], up[e], sess[e], doc[e], new)
  BY <1>2, Heard
<1> HIDE DEF ops, ack, b, q, new
<1>5. /\ down'[d] = q /\ up'[d] = Tail(up[d])
      /\ \A e \in Device \ {d} : down'[e] = b[e] /\ up'[e] = up[e]
  BY <1>1, <1>3 DEF Inv, Wires
<1>6. ASSUME NEW e \in Device, e # d PROVE Tracks(e)'
  BY <1>1, <1>4, <1>5, <1>6 DEF Tracks
<1>7. Tracks(d)'
  <2>1. WireOK(b[d], Tail(up[d]), sess[d], doc[d], new)
    BY <1>1, <1>4, DeviceParts, TailUp
  <2>2. WireOK(q, Tail(up[d]), sess[d], doc[d], new)
    BY <1>2, <1>3, <2>1, PlainWire DEF q
  <2>3. QED
    BY <1>1, <1>4, <1>5, <2>2 DEF Tracks
<1>8. QED
  BY <1>6, <1>7

\* A push of a dead socket, or one over HTTPS.
LEMMA OtherPushTracks ==
    ASSUME Inv, \A e \in Device : Tracks(e), NEW ops \in Ops,
           room' = applyPushBatch(room, ops), down' = Broadcast(ops),
           UNCHANGED <<doc, disk, sess, up>>
    PROVE  \A e \in Device : Tracks(e)'
<1> SUFFICES ASSUME NEW e \in Device PROVE Tracks(e)'
  OBVIOUS
<1>1. /\ Reflects(doc[e], room') /\ Reflects(disk[e], room')
      /\ WireOK(down'[e], up[e], sess[e], doc[e], room')
  BY Heard
<1>2. QED
  BY <1>1 DEF Tracks

LEMMA AlarmTracks ==
    ASSUME Inv, \A e \in Device : Tracks(e), NEW horizon, alarm(horizon)
    PROVE  \A e \in Device : Tracks(e)'
<1> DEFINE new == PurgeTombstones(room, horizon)
<1>1. /\ Purgeable(room, horizon) # {}
      /\ room' = new /\ UNCHANGED <<doc, disk, sess, up, down>>
  BY DEF alarm, clientVars
<1>2. GoodRoom(room) /\ GoodRoom(new) /\ Fwd(room, new)
  <2>1. GoodRoom(room)
    BY DEF Inv
  <2>2. GoodRoom(new)
    BY <1>1, <2>1, PurgeGood
  <2>3. Fwd(room, new)
    BY <2>1, PurgeFwd
  <2>4. QED
    BY <2>1, <2>2, <2>3
<1> HIDE DEF new
<1> SUFFICES ASSUME NEW e \in Device PROVE Tracks(e)'
  OBVIOUS
<1>3. /\ Reflects(doc[e], room) /\ Reflects(disk[e], room)
      /\ WireOK(down[e], up[e], sess[e], doc[e], room)
  BY DEF Tracks
<1>4. Reflects(doc[e], new) /\ Reflects(disk[e], new)
  BY <1>2, <1>3, DeviceParts, FwdReflects
<1>5. WireOK(down[e], up[e], sess[e], doc[e], new)
  BY <1>2, <1>3, DeviceParts, FwdWire
<1>6. QED
  BY <1>1, <1>4, <1>5 DEF Tracks

\* The steps of an HTTPS task, and the dial that fails and starts one.
HttpStep(d) ==
    \/ HttpStart(d) \/ postPush(d) \/ HttpAcked(d) \/ HttpPull(d) \/ getRows(d)
    \/ HttpPulled(d) \/ HttpPushFails(d) \/ HttpPullFails(d) \/ DialFails(d)

\* What an HTTPS task does to the queue leaves rows and cursor alone.
LEMMA HttpQueue ==
    ASSUME Inv, NEW d \in Device, HttpStart(d) \/ HttpAcked(d) \/ HttpPushFails(d)
    PROVE  /\ UNCHANGED <<room, disk, minted, sess, up, down>>
           /\ doc'[d].auth = doc[d].auth /\ doc'[d].cursor = doc[d].cursor
           /\ \A e \in Device \ {d} : doc'[e] = doc[e]
<1>1. UNCHANGED <<room, disk, minted, sess, up, down>>
  BY DEF HttpStart, HttpAcked, HttpPushFails
<1>2. doc \in [Device -> DocType] /\ doc[d] \in DocType
  BY DeviceParts DEF Inv, Docs
<1>3. CASE HttpAcked(d)
  <2> DEFINE c == ack_batch(doc[d], Head(http[d].todo).id)
  <2>1. c.auth = doc[d].auth /\ c.cursor = doc[d].cursor
    BY <1>2, AckOnly
  <2>2. doc' = [doc EXCEPT ![d] = c]
    BY <1>3 DEF HttpAcked
  <2> HIDE DEF c
  <2>3. QED
    BY <1>1, <1>2, <2>1, <2>2
<1>4. CASE HttpStart(d) \/ HttpPushFails(d)
  <2>1. PICK b \in BOOLEAN : doc' = [doc EXCEPT ![d] = MarkFlight(doc[d], b)]
    BY <1>4 DEF HttpStart, HttpPushFails, take_pushable, mark_disconnected
  <2> DEFINE c == MarkFlight(doc[d], b)
  <2>2. c.auth = doc[d].auth /\ c.cursor = doc[d].cursor
    BY <1>2, FlightOnly
  <2>3. doc' = [doc EXCEPT ![d] = c]
    BY <2>1
  <2> HIDE DEF c
  <2>4. QED
    BY <1>1, <1>2, <2>2, <2>3
<1>5. QED
  BY <1>3, <1>4

LEMMA HttpTracks ==
    ASSUME Inv, \A e \in Device : Tracks(e), PullsAlone, NEW d \in Device, Asked(d), HttpStep(d)
    PROVE  \A e \in Device : Tracks(e)'
<1>1. CASE postPush(d)
  <2> DEFINE ops == Head(http[d].todo).ops
  <2>1. /\ http[d].at = "push" /\ http[d].todo # <<>>
        /\ room' = applyPushBatch(room, ops) /\ down' = Broadcast(ops)
        /\ UNCHANGED <<doc, disk, sess, up>>
    BY <1>1 DEF postPush, Http
  <2>2. ops \in Ops
    BY <2>1, HttpParts, TodoHead
  <2> HIDE DEF ops
  <2>3. QED
    BY <2>1, <2>2, OtherPushTracks
<1>2. CASE HttpPulled(d)
  <2> DEFINE f == http[d].frame
             c == apply_state(doc[d], f, minted[d] + 1)
  <2>1. /\ http[d].at = "answer" /\ doc' = [doc EXCEPT ![d] = c]
        /\ UNCHANGED <<room, disk, sess, up, down>>
    BY <1>2 DEF HttpPulled, Http
  <2>2. up[d] = <<>> /\ down[d] = <<>>
    BY <2>1, DeviceParts DEF PullsAlone
  <2>3. f.seq \in Nat /\ f.seq <= room.seq /\ StateCurrent(f, doc[d], room)
    BY <2>1, HttpParts DEF StateType, Asked, Answers
  <2> HIDE DEF f
  <2>4. Reflects(c, room)
    BY <2>3, DeviceParts, StateReflects DEF Tracks
  <2> HIDE DEF c
  <2>5. doc'[d] = c /\ \A e \in Device \ {d} : doc'[e] = doc[e]
    BY <2>1 DEF Inv, Docs
  <2>6. WireOK(<<>>, <<>>, sess[d], c, room)
    BY NoWire
  <2>7. Tracks(d)'
    BY <2>1, <2>2, <2>4, <2>5, <2>6 DEF Tracks
  <2>8. QED
    BY <2>1, <2>5, <2>7, Locally
<1>3. CASE HttpStart(d) \/ HttpAcked(d) \/ HttpPushFails(d)
  <2>1. /\ UNCHANGED <<room, disk, sess, up, down>>
        /\ doc'[d].auth = doc[d].auth /\ doc'[d].cursor = doc[d].cursor
        /\ \A e \in Device \ {d} : doc'[e] = doc[e]
    BY <1>3, HttpQueue
  <2>2. Reflects(doc'[d], room) /\ WireOK(down[d], up[d], sess[d], doc'[d], room)
    BY <2>1, SameCursor DEF Tracks
  <2>3. Tracks(d)'
    BY <2>1, <2>2 DEF Tracks
  <2>4. QED
    BY <2>1, <2>3, Locally
<1>4. CASE HttpPull(d) \/ getRows(d) \/ HttpPullFails(d) \/ DialFails(d)
  <2>1. UNCHANGED <<room, doc, disk, sess, up, down>>
    BY <1>4 DEF HttpPull, getRows, HttpPullFails, DialFails
  <2>2. QED
    BY <2>1 DEF Tracks
<1>5. QED
  BY <1>1, <1>2, <1>3, <1>4 DEF HttpStep

LEMMA LateTracks ==
    ASSUME Inv, \A e \in Device : Tracks(e), NEW ops \in late, handleLatePush(ops)
    PROVE  \A e \in Device : Tracks(e)'
<1>1. /\ ops \in Ops
      /\ room' = applyPushBatch(room, ops) /\ down' = Broadcast(ops)
      /\ UNCHANGED <<doc, disk, sess, up>>
  BY DEF handleLatePush, clientVars, Inv
<1>2. QED
  BY <1>1, OtherPushTracks

LEMMA StepTracks ==
    ASSUME Inv, \A e \in Device : Tracks(e) /\ Asked(e), PullsAlone, [Next]_vars, ~reset
    PROVE  \A e \in Device : Tracks(e)'
<1>1. CASE UNCHANGED vars
  BY <1>1 DEF vars, Tracks
<1>2. ASSUME NEW d \in Device, HttpStep(d)
      PROVE  \A e \in Device : Tracks(e)'
  BY <1>2, HttpTracks
<1>3. ASSUME NEW d \in Device, Progress(d)
      PROVE  \A e \in Device : Tracks(e)'
  BY <1>2, <1>3, DialTracks, RecvStateTracks, RecvRowsTracks, RecvAckTracks, DropTracks,
     PushPendingTracks, HelloTracks, PushTracks DEF Progress, HttpStep
<1>4. ASSUME NEW d \in Device,
             \/ \E w \in Writes, hlc \in Clocks[d] : Write(d, w, hlc)
             \/ persist_snapshot(d) \/ DialFails(d) \/ Drop(d) \/ LoseFrame(d)
             \/ HttpPushFails(d) \/ HttpPullFails(d) \/ Crash(d)
      PROVE  \A e \in Device : Tracks(e)'
  BY <1>2, <1>4, WriteTracks, SaveTracks, DropTracks, LoseTracks, CrashTracks DEF HttpStep
<1>5. ASSUME NEW ops \in late, handleLatePush(ops)
      PROVE  \A e \in Device : Tracks(e)'
  BY <1>5, LateTracks
<1>6. ASSUME NEW d \in Device, NEW hlc \in Clocks[d], alarm(hlc + 1)
      PROVE  \A e \in Device : Tracks(e)'
  BY <1>6, AlarmTracks
<1>7. QED
  BY <1>1, <1>3, <1>4, <1>5, <1>6 DEF Next, Step, RoomStep

\* Without a wipe the room changes by a push or a purge.
LEMMA RoomMoves ==
    ASSUME Inv, [Next]_vars, ~reset
    PROVE  \/ room' = room
           \/ \E ops \in Ops : room' = applyPushBatch(room, ops)
           \/ \E horizon : room' = PurgeTombstones(room, horizon) /\ Purgeable(room, horizon) # {}
<1>1. CASE UNCHANGED vars
  BY <1>1 DEF vars
<1>2. ASSUME NEW d \in Device, handlePush(d)
      PROVE  \E ops \in Ops : room' = applyPushBatch(room, ops)
  <2>1. /\ up[d] # <<>> /\ Head(up[d]).t = "push"
        /\ room' = applyPushBatch(room, Head(up[d]).ops)
    BY <1>2 DEF handlePush
  <2>2. Head(up[d]).ops \in Ops
    BY <2>1, UpHead
  <2>3. QED
    BY <2>1, <2>2
<1>3. ASSUME NEW d \in Device, postPush(d)
      PROVE  \E ops \in Ops : room' = applyPushBatch(room, ops)
  <2>1. /\ http[d].at = "push" /\ http[d].todo # <<>>
        /\ room' = applyPushBatch(room, Head(http[d].todo).ops)
    BY <1>3 DEF postPush, Http
  <2>2. Head(http[d].todo).ops \in Ops
    BY <2>1, HttpParts, TodoHead
  <2>3. QED
    BY <2>1, <2>2
<1>4. ASSUME NEW d \in Device, Step(d), ~handlePush(d), ~postPush(d) PROVE room' = room
  BY <1>4 DEF Step, Progress, Dial, RecvState, RecvRows, RecvAck, RecvClose, push_pending,
     handleHello, HttpStart, HttpAcked, HttpPull, getRows, HttpPulled, Write, persist_snapshot,
     DialFails, Drop, LoseFrame, HttpPushFails, HttpPullFails, Crash
<1>5. ASSUME RoomStep
      PROVE  \/ \E ops \in Ops : room' = applyPushBatch(room, ops)
             \/ \E horizon : room' = PurgeTombstones(room, horizon) /\ Purgeable(room, horizon) # {}
  BY <1>5 DEF RoomStep, handleLatePush, alarm, Inv
<1>6. QED
  BY <1>1, <1>2, <1>3, <1>4, <1>5 DEF Next

LEMMA RoomFwd ==
    ASSUME Inv, Inv', [Next]_vars, ~reset
    PROVE  GoodRoom(room) /\ GoodRoom(room') /\ (room' = room \/ Fwd(room, room'))
<1>1. GoodRoom(room) /\ GoodRoom(room')
  BY DEF Inv
<1>2. QED
  BY <1>1, RoomMoves, PushFwd, PurgeFwd

\* The document stands still while a pull is under way.
LEMMA TaskMoves ==
    ASSUME Inv, PullsAlone, PullsAlone', [Next]_vars, NEW e \in Device,
           http'[e].at \in {"ask", "answer"}
    PROVE  \/ HttpPull(e) \/ getRows(e)
           \/ http'[e] = http[e] /\ doc'[e].auth = doc[e].auth /\ doc'[e].cursor = doc[e].cursor
<1> DEFINE Same == http'[e] = http[e] /\ doc'[e].auth = doc[e].auth /\ doc'[e].cursor = doc[e].cursor
<1>1. /\ sess'[e] = "down"
      /\ http[e].at \in {"ask", "answer"} => sess[e] = "down"
  BY DEF PullsAlone
<1>2. /\ doc \in [Device -> DocType] /\ http \in [Device -> HttpType]
      /\ sess \in [Device -> {"down", "hello", "joined"}]
  BY DEF Inv, Docs, Wires
<1>3. CASE UNCHANGED vars \/ RoomStep
  BY <1>3 DEF vars, RoomStep, handleLatePush, alarm, reset, clientVars
<1>4. ASSUME NEW d \in Device, Dial(d) \/ RecvState(d) \/ RecvAck(d) \/ push_pending(d)
      PROVE  Same
  <2>1. d # e
    BY <1>1, <1>2, <1>4 DEF Dial, RecvState, RecvAck, push_pending
  <2>2. http' = http /\ (doc' = doc \/ \E c : doc' = [doc EXCEPT ![d] = c])
    BY <1>4 DEF Dial, RecvState, RecvAck, push_pending
  <2>3. QED
    BY <1>2, <2>1, <2>2
<1>5. ASSUME NEW d \in Device, RecvRows(d) \/ RecvClose(d) \/ Drop(d)
      PROVE  Same
  <2>1. sess[d] # "down"
    BY <1>5 DEF RecvRows, RecvClose, Drop
  <2>2. /\ \E c : doc' = [doc EXCEPT ![d] = c]
        /\ \/ http' = http
           \/ http' = [http EXCEPT ![d] = spawn_offline_sync(d, http[d])]
    BY <1>5 DEF RecvRows, RecvClose, Drop, EndSession
  <2>3. d # e
    BY <1>1, <1>2, <2>1, <2>2 DEF spawn_offline_sync
  <2>4. QED
    BY <1>2, <2>2, <2>3
<1>6. ASSUME NEW d \in Device, NEW w, NEW hlc, Write(d, w, hlc) PROVE Same
  <2>1. PICK q : doc' = [doc EXCEPT ![d] = [doc[d] EXCEPT !.pending = q]]
    BY <1>6 DEF Write
  <2> DEFINE c == [doc[d] EXCEPT !.pending = q]
  <2>2. c.auth = doc[d].auth /\ c.cursor = doc[d].cursor
    BY <1>2, QueueOnly
  <2>3. doc' = [doc EXCEPT ![d] = c] /\ http' = http
    BY <1>6, <2>1 DEF Write
  <2> HIDE DEF c
  <2>4. QED
    BY <1>2, <2>2, <2>3
<1>7. ASSUME NEW d \in Device,
             handleHello(d) \/ handlePush(d) \/ persist_snapshot(d) \/ LoseFrame(d)
      PROVE  Same
  BY <1>7 DEF handleHello, handlePush, persist_snapshot, LoseFrame, clientVars
<1>8. ASSUME NEW d \in Device,
             \/ HttpStart(d) \/ postPush(d) \/ HttpAcked(d) \/ HttpPulled(d)
             \/ HttpPushFails(d) \/ HttpPullFails(d) \/ DialFails(d) \/ Crash(d)
      PROVE  Same
  <2>1. /\ doc' = doc \/ \E c : doc' = [doc EXCEPT ![d] = c]
        /\ \E v : http' = [http EXCEPT ![d] = v] /\ v.at \notin {"ask", "answer"}
    <3>1. CASE postPush(d)
      <4>1. http[d] \in HttpType /\ http[d].at = "push"
        BY <1>2, <3>1 DEF postPush, Http
      <4>2. [http[d] EXCEPT !.at = "posted"].at = "posted"
        BY <4>1 DEF HttpType
      <4>3. doc' = doc /\ http' = [http EXCEPT ![d] = [http[d] EXCEPT !.at = "posted"]]
        BY <3>1 DEF postPush
      <4>4. QED
        BY <4>2, <4>3
    <3>2. CASE DialFails(d) \/ Crash(d)
      BY <3>2 DEF DialFails, Crash, spawn_offline_sync, Idle
    <3>3. CASE HttpStart(d) \/ HttpAcked(d) \/ HttpPushFails(d)
      <4>1. PICK q : http' = [http EXCEPT ![d] = [at |-> "push", todo |-> q]]
        BY <3>3 DEF HttpStart, HttpAcked, HttpPushFails
      <4>2. [at |-> "push", todo |-> q].at \notin {"ask", "answer"}
        OBVIOUS
      <4>3. \E c : doc' = [doc EXCEPT ![d] = c]
        BY <3>3 DEF HttpStart, HttpAcked, HttpPushFails
      <4>4. QED
        BY <4>1, <4>2, <4>3
    <3>4. CASE HttpPulled(d) \/ HttpPullFails(d)
      <4>1. http' = [http EXCEPT ![d] = Idle] /\ Idle.at \notin {"ask", "answer"}
        BY <3>4 DEF HttpPulled, HttpPullFails, Idle
      <4>2. doc' = doc \/ \E c : doc' = [doc EXCEPT ![d] = c]
        BY <3>4 DEF HttpPulled, HttpPullFails
      <4>3. QED
        BY <4>1, <4>2
    <3>5. QED
      BY <1>8, <3>1, <3>2, <3>3, <3>4
  <2>2. d # e
    BY <1>2, <2>1
  <2>3. QED
    BY <1>2, <2>1, <2>2
<1>9. ASSUME NEW d \in Device, HttpPull(d) \/ getRows(d)
      PROVE  HttpPull(e) \/ getRows(e) \/ Same
  <2>1. doc' = doc /\ \E v : http' = [http EXCEPT ![d] = v]
    BY <1>9 DEF HttpPull, getRows
  <2>2. QED
    BY <1>2, <1>9, <2>1
<1>10. QED
  BY <1>3, <1>4, <1>5, <1>6, <1>7, <1>8, <1>9 DEF Next, Step, Progress

\* What a state frame answers a cursor with.
LEMMA AnswerParts ==
    ASSUME NEW rm, GoodRoom(rm), NEW c
    PROVE  LET f == StateFrame(rm, c.cursor)
           IN  /\ f.seq = rm.seq /\ f.seq <= rm.seq
               /\ c.cursor < rm.gcFloor => f.full
               /\ DOMAIN f.rows \subseteq Held(rm.rows)
               /\ StateCurrent(f, c, rm)
<1> DEFINE f == StateFrame(rm, c.cursor)
           full == c.cursor < rm.gcFloor \/ c.cursor > rm.seq
           S == {x \in Held(rm.rows) : full \/ rm.rows[x].seq > c.cursor}
<1>1. f = [t |-> "state", seq |-> rm.seq, full |-> full, rows |-> [r \in S |-> rm.rows[r]]]
  BY DEF StateFrame
<1>2. f.seq = rm.seq /\ f.full = full /\ f.rows = [r \in S |-> rm.rows[r]]
  BY <1>1
<1>3. rm.seq <= rm.seq
  BY RoomParts
<1> HIDE DEF f
<1>4. StateCurrent(f, c, rm)
  BY <1>2 DEF StateCurrent
<1>5. QED
  BY <1>2, <1>3, <1>4 DEF f

LEMMA StepAsked ==
    ASSUME Inv, Inv', \A e \in Device : Asked(e), PullsAlone, PullsAlone', [Next]_vars, ~reset
    PROVE  \A e \in Device : Asked(e)'
<1> SUFFICES ASSUME NEW e \in Device, http'[e].at \in {"ask", "answer"} PROVE Asked(e)'
  BY DEF Asked, Answers
<1>1. CASE HttpPull(e)
  <2>1. doc' = doc /\ http'[e] = [at |-> "ask", since |-> doc[e].cursor]
    BY <1>1 DEF HttpPull, Inv
  <2>2. QED
    BY <2>1 DEF Asked, Answers
<1>2. CASE getRows(e)
  <2> DEFINE f == StateFrame(room, http[e].since)
  <2>1. /\ http[e].at = "ask" /\ doc' = doc /\ room' = room
        /\ http'[e] = [at |-> "answer", frame |-> f]
    BY <1>2 DEF getRows, Http, Inv
  <2>2. f = StateFrame(room, doc[e].cursor)
    BY <2>1 DEF Asked, Answers
  <2>3. f.seq <= room.seq /\ StateCurrent(f, doc[e], room)
    BY <2>2, DeviceParts, AnswerParts
  <2> HIDE DEF f
  <2>4. QED
    BY <2>1, <2>3 DEF Asked, Answers
<1>3. CASE http'[e] = http[e] /\ doc'[e].auth = doc[e].auth /\ doc'[e].cursor = doc[e].cursor
  <2>1. CASE http[e].at = "ask"
    BY <1>3, <2>1 DEF Asked, Answers
  <2>2. CASE http[e].at = "answer"
    <3> DEFINE f == http[e].frame
    <3>1. f.seq \in Nat /\ f.seq <= room.seq /\ StateCurrent(f, doc[e], room)
      BY <2>2, HttpParts DEF Asked, Answers, StateType
    <3> HIDE DEF f
    <3>2. f.seq <= room'.seq /\ StateCurrent(f, doc[e], room')
      BY <3>1, RoomFwd, FwdCurrent
    <3>3. StateCurrent(f, doc'[e], room')
      BY <1>3, <3>2 DEF StateCurrent
    <3>4. QED
      BY <1>3, <2>2, <3>2, <3>3 DEF Asked, Answers, f
  <2>3. QED
    BY <1>3, <2>1, <2>2
<1>4. QED
  BY <1>1, <1>2, <1>3, TaskMoves

\* What is left of a kind of fault never grows, and a fault uses one up.
LEMMA SpendLess ==
    ASSUME left \in [FaultKinds -> Nat], NEW k \in FaultKinds \ {"any"}, Spend(k)
    PROVE  /\ \A j \in FaultKinds : left'[j] <= left[j]
           /\ left'[k] < left[k]
<1>1. "any" \in FaultKinds /\ \A j \in FaultKinds : left[j] \in Nat
  BY DEF FaultKinds
<1>2. left' = [left EXCEPT ![k] = left[k] - 1, !["any"] = left["any"] - 1]
  BY DEF Spend
<1>3. \A j \in FaultKinds : left'[j] = IF j = k \/ j = "any" THEN left[j] - 1 ELSE left[j]
  BY <1>1, <1>2
<1>4. QED
  BY <1>1, <1>3

LEMMA LeftStep ==
    ASSUME Inv, [Next]_vars
    PROVE  /\ \A j \in FaultKinds : left'[j] <= left[j]
           /\ reset => left'["reset"] < left["reset"]
<1>1. left \in [FaultKinds -> Nat] /\ \A j \in FaultKinds : left[j] <= left[j]
  BY DEF Inv
<1>2. ASSUME \/ left' = left
             \/ left' = [left EXCEPT !["save"] = left["save"] - 1]
             \/ \E k \in FaultKinds \ {"any"} : Spend(k)
      PROVE  \A j \in FaultKinds : left'[j] <= left[j]
  <2>1. CASE left' = left
    BY <1>1, <2>1
  <2>2. CASE left' = [left EXCEPT !["save"] = left["save"] - 1]
    BY <1>1, <2>2
  <2>3. CASE \E k \in FaultKinds \ {"any"} : Spend(k)
    BY <1>1, <2>3, SpendLess
  <2>4. QED
    BY <1>2, <2>1, <2>2, <2>3
<1>3. \/ left' = left
      \/ left' = [left EXCEPT !["save"] = left["save"] - 1]
      \/ \E k \in FaultKinds \ {"any"} : Spend(k)
  <2>1. {"drop", "lose", "save", "crash", "fail", "reset", "purge"} = FaultKinds \ {"any"}
    BY DEF FaultKinds
  <2>2. CASE UNCHANGED vars
    BY <2>2 DEF vars
  <2>3. ASSUME NEW d \in Device, Progress(d) PROVE left' = left
    BY <2>3 DEF Progress, Dial, RecvState, RecvRows, RecvAck, RecvClose, push_pending,
       handleHello, handlePush, HttpStart, postPush, HttpAcked, HttpPull, getRows, HttpPulled
  <2>4. ASSUME NEW d \in Device,
               \/ \E w \in Writes, hlc \in Clocks[d] : Write(d, w, hlc)
               \/ persist_snapshot(d)
        PROVE  left' = left \/ left' = [left EXCEPT !["save"] = left["save"] - 1]
    BY <2>4 DEF Write, persist_snapshot
  <2>5. ASSUME NEW d \in Device,
               \/ DialFails(d) \/ Drop(d) \/ LoseFrame(d)
               \/ HttpPushFails(d) \/ HttpPullFails(d) \/ Crash(d)
        PROVE  \E k \in FaultKinds \ {"any"} : Spend(k)
    BY <2>1, <2>5 DEF DialFails, Drop, LoseFrame, HttpPushFails, HttpPullFails, Crash
  <2>6. CASE \E ops \in late : handleLatePush(ops)
    BY <2>6 DEF handleLatePush
  <2>7. CASE \/ \E d \in Device : \E hlc \in Clocks[d] : alarm(hlc + 1)
             \/ reset
    BY <2>1, <2>7 DEF alarm, reset
  <2>8. QED
    BY <2>2, <2>3, <2>4, <2>5, <2>6, <2>7 DEF Next, Step, RoomStep
<1>4. reset => left'["reset"] < left["reset"]
  <2>1. "reset" \in FaultKinds \ {"any"}
    BY DEF FaultKinds
  <2>2. QED
    BY <1>1, <2>1, SpendLess DEF reset
<1>5. QED
  BY <1>2, <1>3, <1>4

LEMMA CursorInit ==
    ASSUME Init PROVE CursorInv
<1>1. left = Faults /\ left["reset"] \in Nat
  BY FaultsAssumption DEF Init, FaultKinds
<1>2. \A d \in Device : Asked(d)
  BY DEF Init, Asked, Answers, Idle
<1>3. ASSUME NEW d \in Device PROVE Tracks(d)
  <2>1. /\ room = EmptyRoom /\ doc[d] = EmptyDoc /\ disk[d] = EmptyDoc
        /\ up[d] = <<>> /\ down[d] = <<>>
    BY DEF Init
  <2>2. Held(EmptyRoom.rows) = {} /\ EmptyRoom.seq = 0 /\ EmptyDoc.cursor = 0
    BY DEF Held, EmptyRoom, EmptyDoc
  <2>3. Reflects(EmptyDoc, EmptyRoom)
    BY <2>2 DEF Reflects
  <2>4. QED
    BY <2>1, <2>3, NoWire DEF Tracks
<1>4. QED
  BY <1>1, <1>2, <1>3 DEF CursorInv

LEMMA CursorStep ==
    ASSUME Inv, CursorInv, PullsAlone, PullsAlone', [Next]_vars
    PROVE  CursorInv'
<1>1. /\ left["reset"] \in Nat /\ left'["reset"] \in Nat /\ Faults["reset"] \in Nat
      /\ left'["reset"] <= left["reset"]
      /\ reset => left'["reset"] < left["reset"]
  <2>1. "reset" \in FaultKinds
    BY DEF FaultKinds
  <2>2. left \in [FaultKinds -> Nat] /\ left' \in [FaultKinds -> Nat]
    BY StepInv DEF Inv
  <2>3. QED
    BY <2>1, <2>2, LeftStep, FaultsAssumption
<1>2. left["reset"] <= Faults["reset"]
  BY DEF CursorInv
<1>3. left'["reset"] <= Faults["reset"]
  BY <1>1, <1>2
<1>4. ASSUME ~Wiped' PROVE ~Wiped /\ ~reset
  BY <1>1, <1>2, <1>4 DEF Wiped
<1>5. ASSUME ~Wiped' PROVE \A d \in Device : Tracks(d)' /\ Asked(d)'
  BY <1>4, <1>5, StepInv, StepTracks, StepAsked DEF CursorInv
<1>6. QED
  BY <1>3, <1>5 DEF CursorInv

\* What every device's cursor claims, whatever roads it uses: CursorHonest and
\* OfflineCursorHonest without the devices and moments they leave out.
EveryCursorHonest == ~Wiped =>
    \A d \in Device : \A r \in Held(room.rows) :
        room.rows[r].seq <= doc[d].cursor => doc[d].auth[r] = room.rows[r]

\* RegistryDoc::cursor, "the last server seq this replica has fully applied":
\* while the room's numbering is the one the cursors count, no drop, lost or
\* late frame, gap, crash or purge, and no push on either road, makes the
\* cursor of any device claim a row that its document does not hold, as long
\* as no session is open while a pull is under way.  So it is only the overlap
\* of the two roads that makes it lie (the run registry_two_roads).
THEOREM CursorSafe ==
    Spec /\ []PullsAlone => [](EveryCursorHonest /\ CursorHonest /\ OfflineCursorHonest)
<1>1. Init => CursorInv
  BY CursorInit
<1>2. Inv /\ CursorInv /\ PullsAlone /\ PullsAlone' /\ [Next]_vars => CursorInv'
  BY CursorStep
<1>3. CursorInv => EveryCursorHonest
  BY DEF CursorInv, Tracks, Reflects, EveryCursorHonest
<1>4. EveryCursorHonest => CursorHonest /\ OfflineCursorHonest
  BY DEF EveryCursorHonest, CursorHonest, OfflineCursorHonest
<1>5. QED
  BY <1>1, <1>2, <1>3, <1>4, InvAlways, PTL DEF Spec

-----------------------------------------------------------------------------
(* What leaves the outgoing queue.  While the room counts on and has purged  *)
(* nothing, no state is a full one, so a batch keeps its ops for as long as  *)
(* it is queued; every frame, POST and saved document that names it carries  *)
(* those ops, and an answer names only what the room has merged.             *)

\* An op that is not an update names a field it sets, or deletes; a row that
\* takes it carries its clock.
Stamps(op) == op.op = "upsert" =>
    op.set # {} /\ \A f \in op.set : op.clocks[f] >= op.hlc

Stamped(q) == \A i \in DOMAIN q : \A r \in DOMAIN q[i].ops : Stamps(q[i].ops[r])

\* The room's rows carry the clocks of a batch, or newer ones.
Decided(ops, rm) ==
    \A r \in DOMAIN ops : ops[r].op # "update" => maxClock(rm.rows[r]) >= ops[r].hlc

\* What the frames and the HTTPS task know of a batch that is still queued.
Carries(c, id, ops) ==
    \A i \in DOMAIN c.pending : c.pending[i].id = id => c.pending[i].ops = ops
Settled(c, id, rm) ==
    \A i \in DOMAIN c.pending : c.pending[i].id = id => Decided(c.pending[i].ops, rm)

UpFits(f, c, n, rm) ==
    /\ f.t = "hello" => f.cursor <= rm.seq
    /\ f.t = "push" => f.id <= n /\ Carries(c, f.id, f.ops)

StateFits(f, rm) == f.seq <= rm.seq /\ ~f.full

DownFits(f, c, n, rm) ==
    /\ f.t = "state" => StateFits(f, rm)
    /\ f.t = "rows" => f.seq <= rm.seq
    /\ f.t = "ack" => f.id <= n /\ Settled(c, f.id, rm)

TaskFits(h, c, n, rm) ==
    /\ h.at \in {"push", "posted"} =>
         \A i \in DOMAIN h.todo : h.todo[i].id <= n /\ Carries(c, h.todo[i].id, h.todo[i].ops)
    /\ h.at = "posted" => Settled(c, Head(h.todo).id, rm)
    /\ h.at = "ask" => h.since <= rm.seq
    /\ h.at = "answer" => StateFits(h.frame, rm)

DocFits(c, rm) == Stamped(c.pending) /\ c.cursor <= rm.seq

\* While the room counts on and purges nothing, no state is a full one and an
\* answer names a batch the room has decided.
Fitting(d) ==
    /\ DocFits(doc[d], room) /\ DocFits(disk[d], room)
    /\ \A i \in DOMAIN up[d] : UpFits(up[d][i], doc[d], minted[d], room)
    /\ \A i \in DOMAIN down[d] : DownFits(down[d][i], doc[d], minted[d], room)
    /\ TaskFits(http[d], doc[d], minted[d], room)

RetiredInv ==
    /\ left["reset"] <= Faults["reset"] /\ left["purge"] <= Faults["purge"]
    /\ ~Wiped /\ ~Purged => room.gcFloor = 0 /\ \A d \in Device : Fitting(d)

LEMMA MaxClockParts ==
    ASSUME NEW row \in RowType
    PROVE  /\ maxClock(row) \in Nat /\ row.delHlc \in Nat /\ row.delHlc <= maxClock(row)
           /\ \A f \in Field : row.clocks[f] \in Nat /\ row.clocks[f] <= maxClock(row)
           /\ maxClock(row) = row.delHlc \/ \E f \in Field : maxClock(row) = row.clocks[f]
<1> DEFINE S == {row.clocks[f] : f \in Field}
           T == {row.delHlc} \cup S
<1>1. row.clocks \in [Field -> Nat] /\ row.delHlc \in Nat
  BY DEF RowType
<1>2. T \subseteq Nat /\ T # {}
  BY <1>1
<1>3. IsFiniteSet(S)
  BY <1>1, TableAssumption, FiniteImage
<1>4. IsFiniteSet(T)
  BY <1>3, FS_Singleton, FS_Union
<1>5. maxClock(row) = Max(T)
  BY DEF maxClock
<1> HIDE DEF T
<1>6. Max(T) \in T /\ \A x \in T : x <= Max(T)
  BY <1>2, <1>4, MaxIn
<1>7. QED
  BY <1>1, <1>2, <1>5, <1>6 DEF T

\* A version of a row that supersedes another has a clock as high.
LEMMA SupersedesClock ==
    ASSUME NEW old \in RowType, NEW new \in RowType, Supersedes(new, old)
    PROVE  maxClock(old) <= maxClock(new)
<1>1. /\ maxClock(old) \in Nat /\ maxClock(new) \in Nat
      /\ new.delHlc \in Nat /\ new.delHlc <= maxClock(new) /\ old.delHlc \in Nat
      /\ \A f \in Field : /\ new.clocks[f] \in Nat /\ new.clocks[f] <= maxClock(new)
                          /\ old.clocks[f] \in Nat
      /\ maxClock(old) = old.delHlc \/ \E f \in Field : maxClock(old) = old.clocks[f]
  BY MaxClockParts
<1>2. CASE maxClock(old) = old.delHlc
  <2>1. old.delHlc <= new.delHlc
    BY <1>1 DEF Supersedes
  <2>2. QED
    BY <1>1, <1>2, <2>1
<1>3. ASSUME NEW f \in Field, maxClock(old) = old.clocks[f]
      PROVE  maxClock(old) <= maxClock(new)
  <2>1. old.clocks[f] < new.delHlc \/ old.clocks[f] <= new.clocks[f]
    BY <1>1 DEF Supersedes
  <2>2. /\ maxClock(old) \in Nat /\ maxClock(new) \in Nat
        /\ new.delHlc \in Nat /\ new.delHlc <= maxClock(new)
        /\ new.clocks[f] \in Nat /\ new.clocks[f] <= maxClock(new) /\ old.clocks[f] \in Nat
    BY <1>1
  <2>3. QED
    BY <1>3, <2>1, <2>2
<1>4. QED
  BY <1>1, <1>2, <1>3

\* A delete or an upsert leaves a row with its clock, or finds it with a newer one.
LEMMA ApplyDecides ==
    ASSUME NEW row \in RowType, NEW op \in OpType, op.op # "update", Stamps(op)
    PROVE  op.hlc <= maxClock(apply_op(row, op))
<1> DEFINE new == apply_op(row, op)
<1>1. /\ op.hlc \in Nat /\ op.set \subseteq Field /\ op.clocks \in [Field -> Nat]
      /\ op.op \in {"upsert", "delete"}
  BY DEF OpType
<1>2. /\ maxClock(row) \in Nat /\ row.delHlc \in Nat /\ row.delHlc <= maxClock(row)
      /\ \A f \in Field : row.clocks[f] \in Nat /\ row.clocks[f] <= maxClock(row)
  BY MaxClockParts
<1>3. CASE op.op = "delete" /\ DeleteWins(row, op.hlc)
  <2>1. new = Buried(row, op)
    BY <1>3, ApplyOp
  <2> HIDE DEF new
  <2>2. new \in RowType /\ new.delHlc = op.hlc
    BY <2>1, BuriedParts
  <2>3. new.delHlc <= maxClock(new)
    BY <2>2, MaxClockParts
  <2>4. QED
    BY <2>2, <2>3 DEF new
<1>4. CASE op.op = "delete" /\ ~DeleteWins(row, op.hlc)
  <2>1. new = row
    BY <1>4, ApplyOp
  <2>2. op.hlc <= row.delHlc \/ \E f \in Field : op.hlc <= row.clocks[f]
    BY <1>1, <1>2, <1>4 DEF DeleteWins
  <2>3. op.hlc <= maxClock(row)
    <3>1. CASE op.hlc <= row.delHlc
      BY <1>1, <1>2, <3>1
    <3>2. ASSUME NEW f \in Field, op.hlc <= row.clocks[f]
          PROVE  op.hlc <= maxClock(row)
      <4>1. row.clocks[f] \in Nat /\ row.clocks[f] <= maxClock(row)
        BY <1>2
      <4>2. QED
        BY <1>1, <1>2, <3>2, <4>1
    <3>3. QED
      BY <2>2, <3>1, <3>2
  <2>4. QED
    BY <2>1, <2>3
<1>5. CASE op.op = "upsert" /\ ~Admitted(row, op)
  <2>1. new = row
    BY <1>5, ApplyOp
  <2>2. op.hlc <= row.delHlc
    BY <1>1, <1>2, <1>5 DEF Admitted
  <2>3. QED
    BY <1>1, <1>2, <2>1, <2>2
<1>6. CASE op.op = "upsert" /\ Admitted(row, op)
  <2>1. new = Merged(row, op)
    BY <1>6, ApplyOp
  <2>2. PICK f \in op.set : op.clocks[f] >= op.hlc
    BY <1>6 DEF Stamps
  <2>3. f \in Field /\ op.clocks[f] \in Nat /\ row.clocks[f] \in Nat
    BY <1>1, <1>2
  <2> HIDE DEF new
  <2>4. /\ new \in RowType
        /\ f \in Won(row, op) => new.clocks[f] = op.clocks[f]
        /\ f \notin Won(row, op) => new.clocks[f] = row.clocks[f]
    BY <2>1, <2>3, MergedParts
  <2>5. f \notin Won(row, op) => op.clocks[f] <= row.clocks[f]
    BY <2>3 DEF Won
  <2>6. new.clocks[f] \in Nat /\ new.clocks[f] <= maxClock(new) /\ maxClock(new) \in Nat
    BY <2>3, <2>4, MaxClockParts
  <2>7. op.hlc <= new.clocks[f]
    BY <1>1, <2>2, <2>3, <2>4, <2>5
  <2>8. op.hlc <= maxClock(new)
    BY <1>1, <2>6, <2>7
  <2>9. QED
    BY <2>8 DEF new
<1>7. QED
  BY <1>1, <1>3, <1>4, <1>5, <1>6

\* No clock of a room runs back.
Later(rm, new) ==
    /\ rm.seq <= new.seq
    /\ \A r \in Row : maxClock(rm.rows[r]) <= maxClock(new.rows[r])

\* A push decides its batch, and moves no clock back.
LEMMA PushDecides ==
    ASSUME NEW rm, GoodRoom(rm), NEW ops \in Ops
    PROVE  /\ Later(rm, applyPushBatch(rm, ops))
           /\ applyPushBatch(rm, ops).gcFloor = rm.gcFloor
           /\ (\A r \in DOMAIN ops : Stamps(ops[r])) => Decided(ops, applyPushBatch(rm, ops))
<1> DEFINE new == applyPushBatch(rm, ops)
           T == Touched(rm, ops)
<1>1. rm \in RoomType /\ rm.rows \in [Row -> RowType] /\ rm.seq \in Nat
  BY DEF GoodRoom, RoomType
<1>2. /\ new \in RoomType
      /\ \A r \in Row : r \notin T => new.rows[r] = rm.rows[r]
      /\ \A r \in T : /\ r \in Row /\ ops[r] \in OpType
                      /\ new.rows[r] = [apply_op(rm.rows[r], ops[r]) EXCEPT !.seq = rm.seq + 1]
  BY <1>1, BatchParts
<1>3. new.rows \in [Row -> RowType]
  BY <1>2 DEF RoomType
<1>4. rm.seq <= new.seq
  BY PushFwd DEF Fwd
<1>5. new.gcFloor = rm.gcFloor
  BY <1>1 DEF applyPushBatch, RoomType
<1>6. \A r \in Row : Supersedes(new.rows[r], rm.rows[r])
  BY <1>1, PushAdvances
<1>7. \A r \in DOMAIN ops : r \in Row /\ ops[r] \in OpType
  BY DEF Ops
<1>8. T = {r \in DOMAIN ops : apply_op(rm.rows[r], ops[r]) # rm.rows[r]}
  BY DEF Touched
<1> HIDE DEF new, T
<1>9. Later(rm, new)
  BY <1>1, <1>3, <1>4, <1>6, SupersedesClock DEF Later
<1>10. ASSUME NEW r \in DOMAIN ops, Stamps(ops[r]), ops[r].op # "update"
       PROVE  ops[r].hlc <= maxClock(new.rows[r])
  <2> DEFINE row == apply_op(rm.rows[r], ops[r])
  <2>1. rm.rows[r] \in RowType /\ ops[r] \in OpType /\ r \in Row
    BY <1>1, <1>7
  <2>2. row \in RowType /\ ops[r].hlc <= maxClock(row)
    BY <1>10, <2>1, ApplyAdvances, ApplyDecides
  <2>3. CASE r \notin T
    BY <1>2, <1>8, <2>1, <2>2, <2>3
  <2>4. CASE r \in T
    <3> HIDE DEF row
    <3>1. new.rows[r] = [row EXCEPT !.seq = rm.seq + 1]
      BY <1>2, <2>4 DEF row
    <3>2. new.rows[r].delHlc = row.delHlc /\ new.rows[r].clocks = row.clocks
      BY <2>2, <3>1 DEF RowType
    <3>3. maxClock(new.rows[r]) = maxClock(row)
      BY <3>2 DEF maxClock
    <3>4. QED
      BY <2>2, <3>3
  <2>5. QED
    BY <2>3, <2>4
<1>11. ASSUME NEW r \in DOMAIN ops, Stamps(ops[r]), ops[r].op # "update"
       PROVE  maxClock(new.rows[r]) >= ops[r].hlc
  <2>1. maxClock(new.rows[r]) \in Nat /\ ops[r].hlc \in Nat
    BY <1>3, <1>7, MaxClockType DEF OpType
  <2>2. QED
    BY <1>10, <1>11, <2>1
<1>12. QED
  BY <1>5, <1>9, <1>11 DEF Decided, new

\* A document's batches are those it had, or have an id beyond n.
Older(new, old, n) ==
    \A i \in DOMAIN new.pending :
        \/ n < new.pending[i].id
        \/ \E j \in DOMAIN old.pending : /\ new.pending[i].id = old.pending[j].id
                                         /\ new.pending[i].ops = old.pending[j].ops

LEMMA LaterDecided ==
    ASSUME NEW rm, NEW new, GoodRoom(rm), GoodRoom(new), Later(rm, new),
           NEW ops \in Ops, Decided(ops, rm)
    PROVE  Decided(ops, new)
<1> SUFFICES ASSUME NEW r \in DOMAIN ops, ops[r].op # "update"
             PROVE  maxClock(new.rows[r]) >= ops[r].hlc
  BY DEF Decided
<1>1. r \in Row /\ ops[r].hlc \in Nat
  BY DEF Ops, OpType
<1>2. maxClock(rm.rows[r]) \in Nat /\ maxClock(new.rows[r]) \in Nat
  BY <1>1, RoomParts, MaxClockType
<1>3. maxClock(rm.rows[r]) >= ops[r].hlc /\ maxClock(rm.rows[r]) <= maxClock(new.rows[r])
  BY <1>1 DEF Decided, Later
<1>4. QED
  BY <1>1, <1>2, <1>3

LEMMA KeepBatch ==
    ASSUME NEW rm, NEW new, GoodRoom(rm), GoodRoom(new), Later(rm, new),
           NEW n \in Nat, NEW c \in DocType, NEW c2 \in DocType, Older(c2, c, n),
           NEW id \in Nat, id <= n
    PROVE  /\ \A ops : Carries(c, id, ops) => Carries(c2, id, ops)
           /\ Settled(c, id, rm) => Settled(c2, id, new)
<1>1. c.pending \in Queue /\ c2.pending \in Queue
  BY DEF DocType
<1>2. ASSUME NEW i \in DOMAIN c2.pending, c2.pending[i].id = id
      PROVE  \E j \in DOMAIN c.pending : c.pending[j].id = id /\ c2.pending[i].ops = c.pending[j].ops
  <2>1. ~(n < c2.pending[i].id)
    BY <1>2
  <2>2. QED
    BY <1>2, <2>1 DEF Older
<1>3. \A ops : Carries(c, id, ops) => Carries(c2, id, ops)
  BY <1>2 DEF Carries
<1>4. ASSUME Settled(c, id, rm), NEW i \in DOMAIN c2.pending, c2.pending[i].id = id
      PROVE  Decided(c2.pending[i].ops, new)
  <2>1. PICK j \in DOMAIN c.pending : c.pending[j].id = id /\ c2.pending[i].ops = c.pending[j].ops
    BY <1>2, <1>4
  <2>2. Decided(c.pending[j].ops, rm) /\ c.pending[j].ops \in Ops
    BY <1>1, <1>4, <2>1, InQueue DEF Settled
  <2>3. QED
    BY <2>1, <2>2, LaterDecided
<1>5. QED
  BY <1>3, <1>4 DEF Settled

\* What fits goes on fitting.
LEMMA KeepFits ==
    ASSUME NEW rm, NEW new, GoodRoom(rm), GoodRoom(new), Later(rm, new),
           NEW n \in Nat, NEW n2 \in Nat, n <= n2,
           NEW c \in DocType, NEW c2 \in DocType, Older(c2, c, n)
    PROVE  /\ \A f \in UpType : UpFits(f, c, n, rm) => UpFits(f, c2, n2, new)
           /\ \A f \in DownType : DownFits(f, c, n, rm) => DownFits(f, c2, n2, new)
           /\ \A h \in HttpType : TaskFits(h, c, n, rm) => TaskFits(h, c2, n2, new)
<1>1. /\ rm.seq \in Nat /\ new.seq \in Nat /\ rm.seq <= new.seq
      /\ \A k \in Nat : k <= rm.seq => k <= new.seq
      /\ \A k \in Nat : k <= n => k <= n2
  BY RoomParts DEF Later
<1>2. ASSUME NEW f \in UpType, UpFits(f, c, n, rm) PROVE UpFits(f, c2, n2, new)
  <2>1. (f.t = "hello" => f.cursor \in Nat) /\ (f.t = "push" => f.id \in Nat)
    BY DEF UpType
  <2>2. f.t = "push" => f.id <= n2 /\ Carries(c2, f.id, f.ops)
    BY <1>1, <1>2, <2>1, KeepBatch DEF UpFits
  <2>3. QED
    BY <1>1, <1>2, <2>1, <2>2 DEF UpFits
<1>3. ASSUME NEW f, f.seq \in Nat, StateFits(f, rm) PROVE StateFits(f, new)
  BY <1>1, <1>3 DEF StateFits
<1>4. ASSUME NEW f \in DownType, DownFits(f, c, n, rm) PROVE DownFits(f, c2, n2, new)
  <2>1. (f.t \in {"state", "rows"} => f.seq \in Nat) /\ (f.t = "ack" => f.id \in Nat)
    BY DEF DownType, StateType, RowsType
  <2>2. f.t = "ack" => f.id <= n2 /\ Settled(c2, f.id, new)
    BY <1>1, <1>4, <2>1, KeepBatch DEF DownFits
  <2>3. QED
    BY <1>1, <1>3, <1>4, <2>1, <2>2 DEF DownFits
<1>5. ASSUME NEW h \in HttpType, TaskFits(h, c, n, rm) PROVE TaskFits(h, c2, n2, new)
  <2>1. /\ h.at \in {"push", "posted"} => h.todo \in Queue
        /\ h.at = "posted" => h.todo # <<>>
        /\ h.at = "ask" => h.since \in Nat
        /\ h.at = "answer" => h.frame.seq \in Nat
    BY DEF HttpType, StateType
  <2>2. ASSUME h.at \in {"push", "posted"}, NEW i \in DOMAIN h.todo
        PROVE  h.todo[i].id <= n2 /\ Carries(c2, h.todo[i].id, h.todo[i].ops)
    <3>1. h.todo[i].id \in Nat /\ h.todo[i].id <= n /\ Carries(c, h.todo[i].id, h.todo[i].ops)
      BY <1>5, <2>1, <2>2, InQueue DEF TaskFits
    <3>2. QED
      BY <1>1, <3>1, KeepBatch
  <2>3. ASSUME h.at = "posted" PROVE Settled(c2, Head(h.todo).id, new)
    <3>1. h.todo \in Queue /\ h.todo # <<>>
      BY <2>1, <2>3
    <3>2. 1 \in DOMAIN h.todo /\ Head(h.todo) = h.todo[1]
      BY <3>1, TailParts DEF Queue
    <3>3. Head(h.todo).id \in Nat /\ Head(h.todo).id <= n /\ Settled(c, Head(h.todo).id, rm)
      BY <1>5, <2>3, <3>1, <3>2, InQueue DEF TaskFits
    <3>4. QED
      BY <3>3, KeepBatch
  <2>4. h.at = "ask" => h.since <= new.seq
    BY <1>1, <1>5, <2>1 DEF TaskFits
  <2>5. h.at = "answer" => StateFits(h.frame, new)
    BY <1>3, <1>5, <2>1 DEF TaskFits
  <2>6. QED
    BY <2>2, <2>3, <2>4, <2>5 DEF TaskFits
<1>6. QED
  BY <1>2, <1>4, <1>5

LEMMA KeepDoc ==
    ASSUME NEW rm, NEW new, GoodRoom(rm), GoodRoom(new), rm.seq <= new.seq,
           NEW c \in DocType, DocFits(c, rm)
    PROVE  DocFits(c, new)
BY RoomParts DEF DocFits, DocType

\* A device goes on fitting when each of its frames is one it had or fits, and
\* its task is the one it was or fits.
LEMMA FittingStep ==
    ASSUME Inv, Inv', NEW d \in Device, Fitting(d), Later(room, room'),
           Older(doc'[d], doc[d], minted[d]), minted[d] <= minted'[d],
           DocFits(doc'[d], room'), DocFits(disk'[d], room'),
           \A i \in DOMAIN up'[d] : \/ \E j \in DOMAIN up[d] : up'[d][i] = up[d][j]
                                    \/ UpFits(up'[d][i], doc'[d], minted'[d], room'),
           \A i \in DOMAIN down'[d] : \/ \E j \in DOMAIN down[d] : down'[d][i] = down[d][j]
                                      \/ DownFits(down'[d][i], doc'[d], minted'[d], room'),
           http'[d] = http[d] \/ TaskFits(http'[d], doc'[d], minted'[d], room')
    PROVE  Fitting(d)'
<1>1. /\ GoodRoom(room) /\ GoodRoom(room') /\ minted[d] \in Nat /\ minted'[d] \in Nat
      /\ doc[d] \in DocType /\ doc'[d] \in DocType /\ http[d] \in HttpType
      /\ up[d] \in Seq(UpType) /\ down[d] \in Seq(DownType)
  BY DEF Inv, Docs, Wires
<1>2. /\ \A f \in UpType : UpFits(f, doc[d], minted[d], room)
                             => UpFits(f, doc'[d], minted'[d], room')
      /\ \A f \in DownType : DownFits(f, doc[d], minted[d], room)
                             => DownFits(f, doc'[d], minted'[d], room')
      /\ \A h \in HttpType : TaskFits(h, doc[d], minted[d], room)
                             => TaskFits(h, doc'[d], minted'[d], room')
  BY <1>1, KeepFits
<1>3. /\ \A i \in DOMAIN up[d] : up[d][i] \in UpType
      /\ \A i \in DOMAIN down[d] : down[d][i] \in DownType
  BY <1>1, ElementOfSeq, LenProperties
<1>4. \A i \in DOMAIN up'[d] : UpFits(up'[d][i], doc'[d], minted'[d], room')
  BY <1>2, <1>3 DEF Fitting
<1>5. \A i \in DOMAIN down'[d] : DownFits(down'[d][i], doc'[d], minted'[d], room')
  BY <1>2, <1>3 DEF Fitting
<1>6. TaskFits(http'[d], doc'[d], minted'[d], room')
  BY <1>1, <1>2 DEF Fitting
<1>7. QED
  BY <1>4, <1>5, <1>6 DEF Fitting

\* Nothing of a device changes.
LEMMA SameOlder ==
    ASSUME NEW c \in DocType, NEW n
    PROVE  Older(c, c, n)
BY DEF Older

\* A document whose batches are all ones another holds.
Kept(new, old) ==
    \A i \in DOMAIN new.pending : \E j \in DOMAIN old.pending :
        /\ new.pending[i].id = old.pending[j].id /\ new.pending[i].ops = old.pending[j].ops

LEMMA KeptOlder ==
    ASSUME NEW new, NEW old, Kept(new, old)
    PROVE  /\ \A n : Older(new, old, n)
           /\ Stamped(old.pending) => Stamped(new.pending)
<1>1. \A n : Older(new, old, n)
  BY DEF Kept, Older
<1>2. ASSUME Stamped(old.pending), NEW i \in DOMAIN new.pending, NEW r \in DOMAIN new.pending[i].ops
      PROVE  Stamps(new.pending[i].ops[r])
  <2>1. PICK j \in DOMAIN old.pending : new.pending[i].ops = old.pending[j].ops
    BY DEF Kept
  <2>2. QED
    BY <1>2, <2>1 DEF Stamped
<1>3. QED
  BY <1>1, <1>2 DEF Stamped

\* Marking batches keeps them.
LEMMA FlightKept ==
    ASSUME NEW c \in DocType, NEW b \in BOOLEAN
    PROVE  /\ Kept(MarkFlight(c, b), c)
           /\ Ids(MarkFlight(c, b).pending) = Ids(c.pending)
<1> DEFINE p == c.pending
           q == [i \in DOMAIN p |-> [p[i] EXCEPT !.in_flight = b]]
<1>1. p \in Queue /\ \A i \in DOMAIN p : p[i] \in BatchType
  BY InQueue DEF DocType
<1>2. MarkFlight(c, b) = [c EXCEPT !.pending = q]
  BY DEF MarkFlight
<1>3. MarkFlight(c, b).pending = q
  BY <1>2 DEF DocType
<1> HIDE DEF p
<1>4. DOMAIN q = DOMAIN p /\ \A i \in DOMAIN p : q[i].id = p[i].id /\ q[i].ops = p[i].ops
  BY <1>1 DEF BatchType
<1> HIDE DEF q
<1>5. Kept(MarkFlight(c, b), c)
  BY <1>3, <1>4 DEF Kept, p
<1>6. Ids(q) = Ids(p)
  BY <1>4 DEF Ids
<1>7. QED
  BY <1>3, <1>5, <1>6 DEF p

\* An acknowledgement takes out the batch it names and no other.
LEMMA AckKept ==
    ASSUME NEW c \in DocType, NEW id
    PROVE  /\ Kept(ack_batch(c, id), c)
           /\ \A i \in DOMAIN c.pending :
                 c.pending[i].id # id => c.pending[i].id \in Ids(ack_batch(c, id).pending)
<1> DEFINE p == c.pending
           k == CHOOSE i \in DOMAIN p : p[i].id = id
           q == RemoveAt(p, k)
<1>1. p \in Queue /\ DOMAIN p = 1..Len(p) /\ Len(p) \in Nat
  BY InQueue DEF DocType
<1>2. CASE ~\E i \in DOMAIN p : p[i].id = id
  <2>1. ack_batch(c, id) = [c EXCEPT !.pending = p]
    BY <1>2 DEF ack_batch
  <2>2. ack_batch(c, id).pending = p
    BY <2>1 DEF DocType
  <2>3. QED
    BY <2>2 DEF Kept, Ids
<1>3. CASE \E i \in DOMAIN p : p[i].id = id
  <2>1. ack_batch(c, id) = [c EXCEPT !.pending = q]
    BY <1>3 DEF ack_batch
  <2>2. k \in 1..Len(p) /\ p[k].id = id
    BY <1>1, <1>3
  <2>3. ack_batch(c, id).pending = q
    BY <2>1 DEF DocType
  <2> HIDE DEF k, p
  <2>4. /\ q \in Queue /\ Len(q) = Len(p) - 1
        /\ \A i \in 1..Len(q) : q[i] = IF i < k THEN p[i] ELSE p[i + 1]
    BY <1>1, <2>2, RemovePlace
  <2> HIDE DEF q
  <2>5. DOMAIN q = 1..Len(q)
    BY <2>4, InQueue
  <2>6. \A i \in DOMAIN q : \E j \in DOMAIN p : q[i] = p[j]
    <3> SUFFICES ASSUME NEW i \in DOMAIN q PROVE \E j \in DOMAIN p : q[i] = p[j]
      OBVIOUS
    <3>1. i \in DOMAIN p /\ i + 1 \in DOMAIN p
      BY <1>1, <2>4, <2>5
    <3>2. QED
      BY <2>4, <2>5, <3>1
  <2>7. ASSUME NEW i \in DOMAIN p, p[i].id # id
        PROVE  \E j \in DOMAIN q : q[j].id = p[i].id
    <3>1. i # k
      BY <2>2, <2>7
    <3>2. CASE i < k
      <4>1. i \in DOMAIN q /\ q[i] = p[i]
        BY <1>1, <2>2, <2>4, <2>5, <3>2
      <4>2. QED
        BY <4>1
    <3>3. CASE k < i
      <4>1. i - 1 \in DOMAIN q /\ ~(i - 1 < k) /\ (i - 1) + 1 = i
        BY <1>1, <2>2, <2>4, <2>5, <3>3
      <4>2. q[i - 1] = p[i]
        BY <2>4, <2>5, <4>1
      <4>3. QED
        BY <4>1, <4>2
    <3>4. QED
      BY <1>1, <2>2, <3>1, <3>2, <3>3
  <2>8. QED
    BY <2>3, <2>6, <2>7 DEF Kept, Ids, p
<1>4. QED
  BY <1>2, <1>3

\* A batch taken for pushing is the pending one of its id.
LEMMA PushableFits ==
    ASSUME NEW c, NEW n \in Nat, GoodDoc(c, n), NEW i \in DOMAIN Pushable(c)
    PROVE  /\ Pushable(c)[i].id <= n
           /\ Carries(c, Pushable(c)[i].id, Pushable(c)[i].ops)
<1> DEFINE p == c.pending
           F == {x \in DOMAIN p : p[x].in_flight}
           k == Cardinality(F)
           w == SubSeq(p, k + 1, Len(p))
<1>1. /\ p \in Queue /\ p \in Seq(BatchType) /\ DOMAIN p = 1..Len(p) /\ Len(p) \in Nat
      /\ \A x \in DOMAIN p : p[x].id \in Nat
      /\ Ordered(p, n)
  BY InQueue DEF GoodDoc, DocType, Queue
<1>2. k \in Nat
  <2>1. IsFiniteSet(1..Len(p)) /\ F \in SUBSET (1..Len(p))
    BY <1>1, FS_Interval
  <2>2. QED
    BY <2>1, FS_Subset, FS_CardinalityType
<1>3. Pushable(c) = w
  BY DEF Pushable
<1> HIDE DEF F, k, p
<1>4. \E j \in DOMAIN p : w[i] = p[j]
  <2>1. i \in DOMAIN w
    BY <1>3
  <2>2. i \in 1..(Len(p) - k) /\ w[i] = p[i + k]
    BY <1>1, <1>2, <2>1
  <2>3. i + k \in DOMAIN p
    BY <1>1, <1>2, <2>2
  <2>4. QED
    BY <2>2, <2>3
<1> HIDE DEF w
<1>5. PICK j \in DOMAIN p : w[i] = p[j]
  BY <1>4
<1>6. \A x \in DOMAIN p : p[x].id = p[j].id => x = j
  <2> SUFFICES ASSUME NEW x \in DOMAIN p, p[x].id = p[j].id, x # j PROVE FALSE
    OBVIOUS
  <2>1. x < j \/ j < x
    BY <1>1
  <2>2. p[x].id < p[j].id \/ p[j].id < p[x].id
    BY <1>1, <2>1 DEF Ordered
  <2>3. QED
    BY <1>1, <2>2
<1>7. p[j].id <= n
  BY <1>1 DEF Ordered
<1>8. QED
  BY <1>3, <1>5, <1>6, <1>7 DEF Carries, p

\* A batch that a step takes out of a queue is one the room has decided.
Keeps(d) ==
    \A i \in DOMAIN doc[d].pending :
        \/ doc[d].pending[i].id \in Ids(doc'[d].pending)
        \/ Decided(doc[d].pending[i].ops, room')

LEMMA LaterSame ==
    ASSUME NEW rm, GoodRoom(rm)
    PROVE  Later(rm, rm)
BY RoomParts, MaxClockType DEF Later

LEMMA SameKeeps ==
    ASSUME NEW d, Ids(doc[d].pending) \subseteq Ids(doc'[d].pending)
    PROVE  Keeps(d)
BY DEF Keeps, Ids

\* The other devices see at most a new frame.
LEMMA OthersFit ==
    ASSUME Inv, Inv', \A e \in Device : Fitting(e), NEW d \in Device, Later(room, room'),
           Fitting(d)', Keeps(d),
           \A e \in Device \ {d} :
              /\ doc'[e] = doc[e] /\ disk'[e] = disk[e] /\ minted'[e] = minted[e]
              /\ up'[e] = up[e] /\ http'[e] = http[e]
              /\ \A i \in DOMAIN down'[e] :
                    \/ \E j \in DOMAIN down[e] : down'[e][i] = down[e][j]
                    \/ DownFits(down'[e][i], doc'[e], minted'[e], room')
    PROVE  \A e \in Device : Fitting(e)' /\ Keeps(e)
<1> SUFFICES ASSUME NEW e \in Device, e # d PROVE Fitting(e)' /\ Keeps(e)
  OBVIOUS
<1>1. /\ GoodRoom(room) /\ GoodRoom(room') /\ room.seq <= room'.seq
      /\ doc[e] \in DocType /\ disk[e] \in DocType
      /\ minted[e] \in Nat
  BY DEF Inv, Docs, Later
<1>2. DocFits(doc'[e], room') /\ DocFits(disk'[e], room')
  BY <1>1, KeepDoc DEF Fitting
<1>3. Older(doc'[e], doc[e], minted[e]) /\ minted[e] <= minted'[e]
  BY <1>1, SameOlder
<1>4. Fitting(e)'
  BY <1>2, <1>3, FittingStep
<1>5. QED
  BY <1>4, SameKeeps

\* A step of one device that leaves the room alone.
LEMMA LocalFits ==
    ASSUME Inv, Inv', \A e \in Device : Fitting(e), NEW d \in Device, room' = room,
           \A e \in Device \ {d} :
              /\ doc'[e] = doc[e] /\ disk'[e] = disk[e] /\ minted'[e] = minted[e]
              /\ up'[e] = up[e] /\ down'[e] = down[e] /\ http'[e] = http[e],
           Kept(doc'[d], doc[d]) \/ (Older(doc'[d], doc[d], minted[d]) /\ Stamped(doc'[d].pending)),
           doc'[d].cursor <= room.seq, minted[d] <= minted'[d], DocFits(disk'[d], room), Keeps(d),
           \A i \in DOMAIN up'[d] : \/ \E j \in DOMAIN up[d] : up'[d][i] = up[d][j]
                                    \/ UpFits(up'[d][i], doc'[d], minted'[d], room),
           \A i \in DOMAIN down'[d] : \/ \E j \in DOMAIN down[d] : down'[d][i] = down[d][j]
                                      \/ DownFits(down'[d][i], doc'[d], minted'[d], room),
           http'[d] = http[d] \/ TaskFits(http'[d], doc'[d], minted'[d], room)
    PROVE  \A e \in Device : Fitting(e)' /\ Keeps(e)
<1>1. GoodRoom(room) /\ Later(room, room')
  BY LaterSame DEF Inv
<1>2. Older(doc'[d], doc[d], minted[d]) /\ DocFits(doc'[d], room')
  BY KeptOlder DEF Fitting, DocFits
<1>3. Fitting(d)'
  BY <1>1, <1>2, FittingStep
<1>4. QED
  BY <1>1, <1>3, OthersFit

LEMMA WriteFits ==
    ASSUME Inv, Inv', \A e \in Device : Fitting(e),
           \A w \in Writes : w.op = "upsert" => w.set # {},
           NEW d \in Device, NEW w \in Writes, NEW hlc \in Clocks[d], Write(d, w, hlc)
    PROVE  \A e \in Device : Fitting(e)' /\ Keeps(e)
<1> DEFINE op == [op |-> w.op, set |-> w.set, nulls |-> w.nulls, hlc |-> hlc,
                  clocks |-> [f \in Field |-> hlc]]
           ops == [r \in w.rows |-> op]
           b == [id |-> minted[d] + 1, ops |-> ops, in_flight |-> FALSE]
           p == doc[d].pending
           q == enqueue_ops(p, minted[d] + 1, ops)
           c == [doc[d] EXCEPT !.pending = q]
<1>1. /\ doc' = [doc EXCEPT ![d] = c] /\ minted' = [minted EXCEPT ![d] = minted[d] + 1]
      /\ UNCHANGED <<room, disk, sess, up, down, http, late, left>>
  BY DEF Write, Inv, Docs
<1>2. /\ doc[d] \in DocType /\ p \in Queue /\ minted[d] \in Nat
      /\ c.pending = q /\ c.cursor = doc[d].cursor
  BY DEF Inv, Docs, DocType
<1>3. hlc \in Nat /\ w.set \subseteq Field /\ w.rows \subseteq Row
      /\ w.op \in {"upsert", "update", "delete"} /\ w.nulls \subseteq Field
  BY ClocksAssumption, WritesAssumption
<1>4. Stamps(op) /\ op \in OpType
  BY <1>3 DEF Stamps, OpType
<1> HIDE DEF op
<1>5. ops \in Ops /\ \A r \in DOMAIN ops : Stamps(ops[r])
  BY <1>3, <1>4 DEF Ops
<1> HIDE DEF ops
<1>6. b \in BatchType /\ b.id = minted[d] + 1 /\ b.ops = ops
  BY <1>2, <1>5 DEF BatchType
<1> HIDE DEF b
<1>7. q = p \/ q = Append(p, b)
  BY DEF enqueue_ops, b
<1>8. /\ \A i \in DOMAIN q : (\E j \in DOMAIN p : q[i] = p[j]) \/ q[i] = b
      /\ \A i \in DOMAIN p : i \in DOMAIN q /\ q[i] = p[i]
  <2>1. CASE q = p
    BY <2>1
  <2>2. CASE q = Append(p, b)
    <3> HIDE DEF q
    <3>1. p \in Seq(BatchType)
      BY <1>2 DEF Queue
    <3>2. QED
      BY <1>6, <2>2, <3>1, AppendParts
  <2>3. QED
    BY <1>7, <2>1, <2>2
<1> HIDE DEF q
<1>9. /\ doc'[d] = c /\ minted'[d] = minted[d] + 1
      /\ \A e \in Device \ {d} : doc'[e] = doc[e] /\ minted'[e] = minted[e]
  BY <1>1 DEF Inv, Docs
<1> HIDE DEF c
<1>10. Older(c, doc[d], minted[d])
  <2>1. minted[d] < b.id
    BY <1>2, <1>6
  <2>2. QED
    BY <1>2, <1>8, <2>1 DEF Older
<1>11. Stamped(c.pending)
  <2>1. Stamped(p)
    BY DEF Fitting, DocFits
  <2>2. QED
    BY <1>2, <1>5, <1>6, <1>8, <2>1 DEF Stamped
<1>12. Keeps(d)
  <2>1. Ids(p) \subseteq Ids(c.pending)
    BY <1>2, <1>8 DEF Ids
  <2>2. QED
    BY <1>9, <2>1, SameKeeps
<1>13. c.cursor <= room.seq /\ DocFits(disk[d], room)
  BY <1>2 DEF Fitting, DocFits
<1>14. minted[d] <= minted'[d]
  BY <1>2, <1>9
<1>15. QED
  BY <1>1, <1>9, <1>10, <1>11, <1>12, <1>13, <1>14, LocalFits

LEMMA SaveFits ==
    ASSUME Inv, Inv', \A e \in Device : Fitting(e), NEW d \in Device, persist_snapshot(d)
    PROVE  \A e \in Device : Fitting(e)' /\ Keeps(e)
<1> DEFINE c == mark_disconnected(doc[d])
<1>1. /\ disk' = [disk EXCEPT ![d] = c]
      /\ UNCHANGED <<room, doc, minted, up, down, http>>
  BY DEF persist_snapshot
<1>2. /\ c.cursor = doc[d].cursor /\ Kept(c, doc[d])
  BY DeviceParts, FlightOnly, FlightKept DEF mark_disconnected
<1> HIDE DEF c
<1>3. disk'[d] = c /\ \A e \in Device \ {d} : disk'[e] = disk[e]
  BY <1>1 DEF Inv, Docs
<1>4. DocFits(c, room) /\ doc[d].cursor <= room.seq
  BY <1>2, KeptOlder DEF Fitting, DocFits
<1>5. minted[d] <= minted'[d] /\ Kept(doc'[d], doc[d]) /\ Keeps(d)
  BY <1>1, SameKeeps DEF Inv, Docs, Kept
<1>6. QED
  BY <1>1, <1>3, <1>4, <1>5, LocalFits

LEMMA DialFits ==
    ASSUME Inv, Inv', \A e \in Device : Fitting(e), NEW d \in Device, Dial(d)
    PROVE  \A e \in Device : Fitting(e)' /\ Keeps(e)
<1> DEFINE f == [t |-> "hello", cursor |-> doc[d].cursor]
           u == <<f>>
<1>1. /\ up' = [up EXCEPT ![d] = u] /\ UNCHANGED <<room, doc, minted, disk, down, http>>
  BY DEF Dial
<1>2. \A i \in DOMAIN u : u[i] = f
  OBVIOUS
<1>3. doc[d].cursor <= room.seq /\ DocFits(disk[d], room)
  BY DEF Fitting, DocFits
<1>4. UpFits(f, doc[d], minted[d], room)
  BY <1>3 DEF UpFits
<1> HIDE DEF u, f
<1>5. up'[d] = u /\ \A e \in Device \ {d} : up'[e] = up[e]
  BY <1>1 DEF Inv, Wires
<1>6. minted[d] <= minted'[d] /\ Kept(doc'[d], doc[d]) /\ Keeps(d)
  BY <1>1, SameKeeps DEF Inv, Docs, Kept
<1>7. QED
  BY <1>1, <1>2, <1>3, <1>4, <1>5, <1>6, LocalFits

LEMMA SpawnFits ==
    ASSUME NEW d, NEW h, NEW c, NEW n, NEW rm
    PROVE  spawn_offline_sync(d, h) = h \/ TaskFits(spawn_offline_sync(d, h), c, n, rm)
BY DEF spawn_offline_sync, TaskFits

LEMMA IdleFits ==
    ASSUME NEW c, NEW n, NEW rm
    PROVE  TaskFits(Idle, c, n, rm)
BY DEF Idle, TaskFits

LEMMA EndFits ==
    ASSUME Inv, Inv', \A e \in Device : Fitting(e), NEW d \in Device, NEW c \in DocType,
           EndSession(d, c), Kept(c, doc[d]), Ids(doc[d].pending) \subseteq Ids(c.pending),
           c.cursor <= room.seq, UNCHANGED <<room, minted, disk>>
    PROVE  \A e \in Device : Fitting(e)' /\ Keeps(e)
<1> DEFINE c2 == mark_disconnected(c)
           h == spawn_offline_sync(d, http[d])
<1>1. /\ doc' = [doc EXCEPT ![d] = c2]
      /\ up' = [up EXCEPT ![d] = <<>>] /\ down' = [down EXCEPT ![d] = <<>>]
      /\ http' = [http EXCEPT ![d] = h]
  BY DEF EndSession
<1>2. c2.cursor = c.cursor /\ Kept(c2, c) /\ Ids(c2.pending) = Ids(c.pending)
  BY FlightOnly, FlightKept DEF mark_disconnected
<1> HIDE DEF c2
<1>3. Kept(c2, doc[d])
  BY <1>2 DEF Kept
<1>4. h = http[d] \/ TaskFits(h, c2, minted[d], room)
  BY SpawnFits
<1> HIDE DEF h
<1>5. /\ doc'[d] = c2 /\ up'[d] = <<>> /\ down'[d] = <<>> /\ http'[d] = h
      /\ \A e \in Device \ {d} : /\ doc'[e] = doc[e] /\ http'[e] = http[e]
                                 /\ up'[e] = up[e] /\ down'[e] = down[e]
  BY <1>1 DEF Inv, Docs, Wires
<1>6. Keeps(d)
  BY <1>2, <1>5, SameKeeps
<1>7. DocFits(disk[d], room) /\ minted[d] <= minted'[d]
  BY DEF Fitting, Inv, Docs
<1>8. QED
  BY <1>2, <1>3, <1>4, <1>5, <1>6, <1>7, LocalFits

LEMMA DropFits ==
    ASSUME Inv, Inv', \A e \in Device : Fitting(e), NEW d \in Device, Drop(d) \/ RecvClose(d)
    PROVE  \A e \in Device : Fitting(e)' /\ Keeps(e)
<1>1. EndSession(d, doc[d]) /\ UNCHANGED <<room, minted, disk>>
  BY DEF Drop, RecvClose
<1>2. doc[d] \in DocType /\ Kept(doc[d], doc[d]) /\ doc[d].cursor <= room.seq
  BY DeviceParts DEF Kept, Fitting, DocFits
<1>3. QED
  BY <1>1, <1>2, EndFits

\* A crash forgets the wires; what the disk holds fits.
LEMMA CrashFits ==
    ASSUME Inv, Inv', \A e \in Device : Fitting(e), NEW d \in Device, Crash(d)
    PROVE  \A e \in Device : Fitting(e)'
<1> DEFINE h == spawn_offline_sync(d, Idle)
<1>1. /\ doc' = [doc EXCEPT ![d] = disk[d]]
      /\ up' = [up EXCEPT ![d] = <<>>] /\ down' = [down EXCEPT ![d] = <<>>]
      /\ http' = [http EXCEPT ![d] = h]
      /\ UNCHANGED <<room, minted, disk>>
  BY DEF Crash
<1>2. TaskFits(h, disk[d], minted[d], room)
  BY SpawnFits, IdleFits
<1> HIDE DEF h
<1>3. /\ doc'[d] = disk[d] /\ up'[d] = <<>> /\ down'[d] = <<>> /\ http'[d] = h
      /\ \A e \in Device \ {d} : /\ doc'[e] = doc[e] /\ http'[e] = http[e]
                                 /\ up'[e] = up[e] /\ down'[e] = down[e]
  BY <1>1 DEF Inv, Docs, Wires
<1>4. Fitting(d)'
  BY <1>1, <1>2, <1>3 DEF Fitting
<1>5. ASSUME NEW e \in Device \ {d} PROVE Fitting(e)'
  BY <1>1, <1>3 DEF Fitting
<1>6. QED
  BY <1>4, <1>5

LEMMA HeadDownFits ==
    ASSUME Inv, NEW d \in Device, Fitting(d), down[d] # <<>>
    PROVE  DownFits(Head(down[d]), doc[d], minted[d], room)
<1>1. 1 \in DOMAIN down[d] /\ Head(down[d]) = down[d][1]
  BY DeviceParts, TailParts
<1>2. QED
  BY <1>1 DEF Fitting

\* A state that is not a full one moves rows and cursor only.
LEMMA PlainState ==
    ASSUME NEW c \in DocType, NEW f \in StateType, ~f.full, NEW id
    PROVE  /\ Reseeded(c, f) = {}
           /\ apply_state(c, f, id).pending = c.pending
           /\ apply_state(c, f, id).cursor = f.seq
<1>1. Reseeded(c, f) = {}
  BY DEF Reseeded
<1>2. DOMAIN [r \in Reseeded(c, f) |-> row_to_seed_op(c.auth[r])] = {}
  BY <1>1
<1>3. QED
  BY <1>1, <1>2 DEF apply_state, enqueue_ops

\* The frames that push a document's batches.
LEMMA PushesFit ==
    ASSUME NEW c, NEW n \in Nat, GoodDoc(c, n), NEW u \in Seq(UpType), NEW rm
    PROVE  \A i \in DOMAIN (u \o PushFrames(Pushable(c))) :
              \/ \E j \in DOMAIN u : (u \o PushFrames(Pushable(c)))[i] = u[j]
              \/ UpFits((u \o PushFrames(Pushable(c)))[i], take_pushable(c), n, rm)
<1> DEFINE p == PushFrames(Pushable(c))
           w == u \o p
<1>1. c \in DocType /\ Pushable(c) \in Queue
  BY PushableType DEF GoodDoc
<1>2. p \in Seq(UpType)
  BY <1>1, PushFramesType
<1>3. /\ DOMAIN p = DOMAIN Pushable(c)
      /\ \A i \in DOMAIN p : /\ p[i].t = "push" /\ p[i].id = Pushable(c)[i].id
                             /\ p[i].ops = Pushable(c)[i].ops
  BY DEF PushFrames
<1> HIDE DEF p
<1>4. ASSUME NEW i \in DOMAIN p
      PROVE  UpFits(p[i], take_pushable(c), n, rm)
  <2>1. Kept(take_pushable(c), c)
    BY <1>1, FlightKept DEF take_pushable
  <2>2. p[i].id <= n /\ Carries(c, p[i].id, p[i].ops)
    BY <1>3, PushableFits
  <2>3. Carries(take_pushable(c), p[i].id, p[i].ops)
    BY <2>1, <2>2 DEF Carries, Kept
  <2>4. QED
    BY <1>3, <2>2, <2>3 DEF UpFits
<1>5. /\ w \in Seq(UpType) /\ Len(w) = Len(u) + Len(p)
      /\ Len(u) \in Nat /\ Len(p) \in Nat /\ DOMAIN u = 1..Len(u) /\ DOMAIN p = 1..Len(p)
      /\ \A i \in 1..(Len(u) + Len(p)) : w[i] = IF i <= Len(u) THEN u[i] ELSE p[i - Len(u)]
  BY <1>2, ConcatProperties, LenProperties
<1>6. DOMAIN w = 1..(Len(u) + Len(p))
  BY <1>5, LenProperties
<1>7. ASSUME NEW i \in DOMAIN w
      PROVE  (\E j \in DOMAIN u : w[i] = u[j]) \/ UpFits(w[i], take_pushable(c), n, rm)
  <2>1. CASE i <= Len(u)
    <3>1. i \in DOMAIN u /\ w[i] = u[i]
      BY <1>5, <1>6, <2>1
    <3>2. QED
      BY <3>1
  <2>2. CASE ~(i <= Len(u))
    <3>1. i - Len(u) \in DOMAIN p /\ w[i] = p[i - Len(u)]
      BY <1>5, <1>6, <2>2
    <3>2. QED
      BY <1>4, <3>1
  <2>3. QED
    BY <2>1, <2>2
<1>8. QED
  BY <1>7 DEF p

LEMMA RecvStateFits ==
    ASSUME Inv, Inv', \A e \in Device : Fitting(e), NEW d \in Device, RecvState(d)
    PROVE  \A e \in Device : Fitting(e)' /\ Keeps(e)
<1> DEFINE f == Head(down[d])
           c == apply_state(doc[d], f, minted[d] + 1)
           n == IF Reseeded(doc[d], f) = {} THEN minted[d] ELSE minted[d] + 1
           u == up[d] \o PushFrames(Pushable(c))
           c2 == take_pushable(c)
<1>1. /\ down[d] # <<>> /\ f.t = "state"
      /\ doc' = [doc EXCEPT ![d] = c2] /\ up' = [up EXCEPT ![d] = u]
      /\ minted' = [minted EXCEPT ![d] = n]
      /\ down' = [down EXCEPT ![d] = Tail(down[d])]
      /\ UNCHANGED <<room, disk, http>>
  BY DEF RecvState
<1>2. f \in StateType /\ ~f.full /\ f.seq <= room.seq
  BY <1>1, DownHead, HeadDownFits DEF DownFits, StateFits
<1>3. doc[d] \in DocType /\ minted[d] \in Nat /\ up[d] \in Seq(UpType) /\ down[d] \in Seq(DownType)
  BY DeviceParts DEF Inv, Docs
<1> HIDE DEF f
<1>4. Reseeded(doc[d], f) = {} /\ c.pending = doc[d].pending /\ c.cursor = f.seq
  BY <1>2, <1>3, PlainState
<1>5. GoodDoc(c, n) /\ n = minted[d]
  BY <1>2, <1>4, StateApplied
<1> HIDE DEF c, n
<1>6. /\ c2.cursor = f.seq /\ Kept(c2, c) /\ Ids(c2.pending) = Ids(doc[d].pending)
  BY <1>4, <1>5, FlightOnly, FlightKept DEF take_pushable, GoodDoc
<1>7. Kept(c2, doc[d])
  BY <1>4, <1>6 DEF Kept
<1>8. \A i \in DOMAIN u : (\E j \in DOMAIN up[d] : u[i] = up[d][j]) \/ UpFits(u[i], c2, n, room)
  BY <1>3, <1>5, PushesFit
<1> HIDE DEF c2, u
<1>9. /\ doc'[d] = c2 /\ up'[d] = u /\ minted'[d] = n /\ down'[d] = Tail(down[d])
      /\ \A e \in Device \ {d} : /\ doc'[e] = doc[e] /\ minted'[e] = minted[e]
                                 /\ up'[e] = up[e] /\ down'[e] = down[e]
  BY <1>1 DEF Inv, Docs, Wires
<1>10. \A i \in DOMAIN down'[d] : \E j \in DOMAIN down[d] : down'[d][i] = down[d][j]
  BY <1>1, <1>3, <1>9, TailParts
<1>11. Keeps(d)
  BY <1>6, <1>9, SameKeeps
<1>12. DocFits(disk[d], room) /\ minted[d] <= n
  BY <1>3, <1>5 DEF Fitting
<1>13. QED
  BY <1>1, <1>2, <1>5, <1>6, <1>7, <1>8, <1>9, <1>10, <1>11, <1>12, LocalFits

LEMMA RecvRowsFits ==
    ASSUME Inv, Inv', \A e \in Device : Fitting(e), NEW d \in Device, RecvRows(d)
    PROVE  \A e \in Device : Fitting(e)' /\ Keeps(e)
<1> DEFINE f == Head(down[d])
           c == apply_rows(doc[d], f)
<1>1. /\ down[d] # <<>> /\ f.t = "rows" /\ UNCHANGED <<room, minted, disk>>
  BY DEF RecvRows
<1>2. f \in RowsType /\ f.seq \in Nat /\ f.seq <= room.seq
  BY <1>1, DownHead, HeadDownFits DEF DownFits, RowsType
<1>3. /\ doc[d] \in DocType /\ doc[d].cursor \in Nat /\ room.seq \in Nat
      /\ doc[d].cursor <= room.seq /\ DocFits(disk[d], room)
  BY DeviceParts, RoomParts DEF Fitting, DocFits
<1>4. c.pending = doc[d].pending /\ c.cursor <= room.seq
  <2> DEFINE k == IF Gap(doc[d], f) THEN doc[d].cursor ELSE Max({doc[d].cursor, f.seq})
             rows == put_authoritative(doc[d].auth, f.rows)
  <2>1. Max({doc[d].cursor, f.seq}) <= room.seq
    BY <1>2, <1>3, MaxOfTwo
  <2>2. k <= room.seq
    BY <1>3, <2>1
  <2>3. c = [doc[d] EXCEPT !.auth = rows, !.cursor = k]
    BY DEF apply_rows
  <2> HIDE DEF k, rows
  <2>4. c.pending = doc[d].pending /\ c.cursor = k
    BY <1>3, <2>3 DEF DocType
  <2>5. QED
    BY <2>2, <2>4
<1>5. c \in DocType
  <2>1. GoodDoc(c, minted[d])
    BY <1>2, DocOf, ApplyRowsGood DEF Inv
  <2>2. QED
    BY <2>1 DEF GoodDoc
<1>6. Kept(c, doc[d]) /\ Ids(doc[d].pending) \subseteq Ids(c.pending)
  BY <1>4 DEF Kept
<1>7. CASE Gap(doc[d], f)
  <2>1. EndSession(d, c)
    BY <1>7 DEF RecvRows
  <2> HIDE DEF c
  <2>2. QED
    BY <1>1, <1>4, <1>5, <1>6, <2>1, EndFits
<1>8. CASE ~Gap(doc[d], f)
  <2>1. /\ doc' = [doc EXCEPT ![d] = c] /\ down' = [down EXCEPT ![d] = Tail(down[d])]
        /\ UNCHANGED <<up, http>>
    BY <1>8 DEF RecvRows
  <2> HIDE DEF c, f
  <2>2. /\ doc'[d] = c /\ down'[d] = Tail(down[d])
        /\ \A e \in Device \ {d} : doc'[e] = doc[e] /\ down'[e] = down[e]
    BY <2>1 DEF Inv, Docs, Wires
  <2>3. \A i \in DOMAIN down'[d] : \E j \in DOMAIN down[d] : down'[d][i] = down[d][j]
    BY <1>1, <2>2, DeviceParts, TailParts
  <2>4. Keeps(d) /\ minted[d] <= minted'[d]
    BY <1>1, <1>6, <2>2, SameKeeps DEF Inv, Docs
  <2>5. QED
    BY <1>1, <1>3, <1>4, <1>6, <2>1, <2>2, <2>3, <2>4, LocalFits
<1>9. QED
  BY <1>7, <1>8

\* Taking out a batch the room has decided.
LEMMA AckedKeeps ==
    ASSUME Inv, NEW d \in Device, NEW id, doc'[d] = ack_batch(doc[d], id),
           room' = room, Settled(doc[d], id, room)
    PROVE  Keeps(d)
BY DeviceParts, AckKept DEF Keeps, Settled

LEMMA RecvAckFits ==
    ASSUME Inv, Inv', \A e \in Device : Fitting(e), NEW d \in Device, RecvAck(d)
    PROVE  \A e \in Device : Fitting(e)' /\ Keeps(e)
<1> DEFINE id == Head(down[d]).id
           c == ack_batch(doc[d], id)
<1>1. /\ down[d] # <<>> /\ Head(down[d]).t = "ack" /\ doc' = [doc EXCEPT ![d] = c]
      /\ down' = [down EXCEPT ![d] = Tail(down[d])]
      /\ UNCHANGED <<room, minted, disk, up, http>>
  BY DEF RecvAck
<1>2. Settled(doc[d], id, room)
  BY <1>1, HeadDownFits DEF DownFits
<1>3. doc[d] \in DocType /\ doc[d].cursor <= room.seq /\ DocFits(disk[d], room)
  BY DeviceParts DEF Fitting, DocFits
<1>4. Kept(c, doc[d]) /\ c.cursor = doc[d].cursor
  BY <1>3, AckKept, AckOnly
<1>5. /\ doc'[d] = c /\ down'[d] = Tail(down[d])
      /\ \A e \in Device \ {d} : doc'[e] = doc[e] /\ down'[e] = down[e]
  BY <1>1 DEF Inv, Docs, Wires
<1>6. Keeps(d)
  BY <1>1, <1>2, <1>5, AckedKeeps
<1> HIDE DEF c
<1>7. \A i \in DOMAIN down'[d] : \E j \in DOMAIN down[d] : down'[d][i] = down[d][j]
  BY <1>1, <1>5, DeviceParts, TailParts
<1>8. minted[d] <= minted'[d]
  BY <1>1 DEF Inv, Docs
<1>9. QED
  BY <1>1, <1>3, <1>4, <1>5, <1>6, <1>7, <1>8, LocalFits

LEMMA PushPendingFits ==
    ASSUME Inv, Inv', \A e \in Device : Fitting(e), NEW d \in Device, push_pending(d)
    PROVE  \A e \in Device : Fitting(e)' /\ Keeps(e)
<1> DEFINE u == up[d] \o PushFrames(Pushable(doc[d]))
           c == take_pushable(doc[d])
<1>1. /\ up' = [up EXCEPT ![d] = u] /\ doc' = [doc EXCEPT ![d] = c]
      /\ UNCHANGED <<room, minted, disk, down, http>>
  BY DEF push_pending
<1>2. GoodDoc(doc[d], minted[d]) /\ minted[d] \in Nat /\ up[d] \in Seq(UpType)
  BY DocOf, DeviceParts DEF Inv
<1>3. \A i \in DOMAIN u : (\E j \in DOMAIN up[d] : u[i] = up[d][j])
                            \/ UpFits(u[i], c, minted[d], room)
  BY <1>2, PushesFit
<1>4. c.cursor = doc[d].cursor /\ Kept(c, doc[d]) /\ Ids(c.pending) = Ids(doc[d].pending)
  BY <1>2, FlightOnly, FlightKept DEF take_pushable, GoodDoc
<1> HIDE DEF c, u
<1>5. /\ doc'[d] = c /\ up'[d] = u
      /\ \A e \in Device \ {d} : doc'[e] = doc[e] /\ up'[e] = up[e]
  BY <1>1 DEF Inv, Docs, Wires
<1>6. Keeps(d)
  BY <1>4, <1>5, SameKeeps
<1>7. DocFits(disk[d], room) /\ doc[d].cursor <= room.seq /\ minted[d] <= minted'[d]
  BY <1>1, <1>2 DEF Fitting, DocFits
<1>8. QED
  BY <1>1, <1>3, <1>4, <1>5, <1>6, <1>7, LocalFits

\* The room never owes a full state: it has purged nothing and is never behind.
LEMMA StateFrameFits ==
    ASSUME NEW rm, GoodRoom(rm), rm.gcFloor = 0, NEW k \in Nat, k <= rm.seq
    PROVE  StateFits(StateFrame(rm, k), rm) /\ StateFrame(rm, k).t = "state"
<1>1. rm.seq \in Nat
  BY RoomParts
<1>2. ~(k < rm.gcFloor \/ k > rm.seq) /\ rm.seq <= rm.seq
  BY <1>1
<1>3. QED
  BY <1>2 DEF StateFrame, StateFits

LEMMA HelloFits ==
    ASSUME Inv, Inv', \A e \in Device : Fitting(e), room.gcFloor = 0,
           NEW d \in Device, handleHello(d)
    PROVE  \A e \in Device : Fitting(e)' /\ Keeps(e)
<1> DEFINE f == StateFrame(room, Head(up[d]).cursor)
           q == Append(down[d], f)
<1>1. /\ up[d] # <<>> /\ Head(up[d]).t = "hello"
      /\ down' = [down EXCEPT ![d] = q] /\ up' = [up EXCEPT ![d] = Tail(up[d])]
      /\ UNCHANGED <<room, doc, minted, disk, http>>
  BY DEF handleHello, clientVars
<1>2. GoodRoom(room) /\ up[d] \in Seq(UpType) /\ down[d] \in Seq(DownType) /\ minted[d] \in Nat
  BY DeviceParts DEF Inv, Docs
<1>3. 1 \in DOMAIN up[d] /\ Head(up[d]) = up[d][1]
  BY <1>1, <1>2, TailParts
<1>4. Head(up[d]).cursor \in Nat /\ Head(up[d]).cursor <= room.seq
  BY <1>1, <1>3, UpHead DEF Fitting, UpFits
<1>5. f.t = "state" /\ StateFits(f, room) /\ f \in DownType
  BY <1>2, <1>4, StateFrameFits, StateFrameType DEF DownType
<1>6. DownFits(f, doc[d], minted[d], room)
  BY <1>5 DEF DownFits
<1> HIDE DEF f
<1>7. \A i \in DOMAIN q : (\E j \in DOMAIN down[d] : q[i] = down[d][j]) \/ q[i] = f
  BY <1>2, <1>5, AppendParts
<1>8. /\ down'[d] = q /\ up'[d] = Tail(up[d])
      /\ \A e \in Device \ {d} : down'[e] = down[e] /\ up'[e] = up[e]
  BY <1>1 DEF Inv, Wires
<1> HIDE DEF q
<1>9. \A i \in DOMAIN up'[d] : \E j \in DOMAIN up[d] : up'[d][i] = up[d][j]
  BY <1>1, <1>2, <1>8, TailParts
<1>10. Kept(doc'[d], doc[d]) /\ Keeps(d) /\ minted[d] <= minted'[d]
  BY <1>1, <1>2, SameKeeps DEF Kept
<1>11. DocFits(disk[d], room) /\ doc[d].cursor <= room.seq
  BY DEF Fitting, DocFits
<1>12. QED
  BY <1>1, <1>6, <1>7, <1>8, <1>9, <1>10, <1>11, LocalFits

LEMMA LoseFits ==
    ASSUME Inv, Inv', \A e \in Device : Fitting(e), NEW d \in Device, LoseFrame(d)
    PROVE  \A e \in Device : Fitting(e)' /\ Keeps(e)
<1>1. /\ down[d] # <<>> /\ down' = [down EXCEPT ![d] = Front(down[d])]
      /\ UNCHANGED <<room, doc, minted, disk, up, http>>
  BY DEF LoseFrame, clientVars
<1>2. down[d] \in Seq(DownType) /\ minted[d] \in Nat
  BY DeviceParts DEF Inv, Docs
<1>3. \A i \in DOMAIN Front(down[d]) : i \in DOMAIN down[d] /\ Front(down[d])[i] = down[d][i]
  <2>1. DOMAIN down[d] = 1..Len(down[d]) /\ Len(down[d]) \in Nat
    BY <1>2, LenProperties
  <2>2. /\ DOMAIN SubSeq(down[d], 1, Len(down[d]) - 1) = 1..(Len(down[d]) - 1)
        /\ \A i \in 1..(Len(down[d]) - 1) :
              SubSeq(down[d], 1, Len(down[d]) - 1)[i] = down[d][i]
    BY <2>1
  <2>3. QED
    BY <2>1, <2>2 DEF Front
<1>4. down'[d] = Front(down[d]) /\ \A e \in Device \ {d} : down'[e] = down[e]
  BY <1>1 DEF Inv, Wires
<1>5. Kept(doc'[d], doc[d]) /\ Keeps(d) /\ minted[d] <= minted'[d]
  BY <1>1, <1>2, SameKeeps DEF Kept
<1>6. DocFits(disk[d], room) /\ doc[d].cursor <= room.seq
  BY DEF Fitting, DocFits
<1>7. QED
  BY <1>1, <1>3, <1>4, <1>5, <1>6, LocalFits

\* A broadcast is an old frame or numbered rows.
LEMMA BroadcastFits ==
    ASSUME Inv, NEW ops \in Ops, room' = applyPushBatch(room, ops), NEW e \in Device
    PROVE  \A i \in DOMAIN Broadcast(ops)[e] :
              \/ \E j \in DOMAIN down[e] : Broadcast(ops)[e][i] = down[e][j]
              \/ \A c, n : DownFits(Broadcast(ops)[e][i], c, n, room')
<1> DEFINE f == RowsFrame(room, ops)
           q == Append(down[e], f)
<1>1. down[e] \in Seq(DownType)
  BY DeviceParts
<1>2. Broadcast(ops)[e] = down[e] \/ (Touched(room, ops) # {} /\ Broadcast(ops)[e] = q)
  BY DEF Broadcast
<1>3. CASE Broadcast(ops)[e] = down[e]
  BY <1>3
<1>4. CASE Touched(room, ops) # {} /\ Broadcast(ops)[e] = q
  <2>1. f \in DownType /\ f.t = "rows" /\ f.seq = room.seq + 1 /\ room'.seq = room.seq + 1
    BY <1>4, PushFwd, PushGood DEF Inv, DownType
  <2>2. room.seq \in Nat
    BY RoomParts DEF Inv
  <2> HIDE DEF f
  <2>3. \A c, n : DownFits(f, c, n, room')
    BY <2>1, <2>2 DEF DownFits
  <2>4. \A i \in DOMAIN q : (\E j \in DOMAIN down[e] : q[i] = down[e][j]) \/ q[i] = f
    BY <1>1, <2>1, AppendParts
  <2>5. QED
    BY <1>4, <2>3, <2>4
<1>5. QED
  BY <1>2, <1>3, <1>4

\* The head of a channel to the room.
LEMMA HeadUpFits ==
    ASSUME Inv, NEW d \in Device, Fitting(d), up[d] # <<>>
    PROVE  UpFits(Head(up[d]), doc[d], minted[d], room)
<1>1. 1 \in DOMAIN up[d] /\ Head(up[d]) = up[d][1]
  BY DeviceParts, TailParts
<1>2. QED
  BY <1>1 DEF Fitting

\* A batch the room has just taken is settled wherever it is still queued.
LEMMA PushSettles ==
    ASSUME Inv, NEW d \in Device, Fitting(d), NEW ops \in Ops, NEW id,
           room' = applyPushBatch(room, ops), Carries(doc[d], id, ops)
    PROVE  Settled(doc[d], id, room')
<1> SUFFICES ASSUME NEW i \in DOMAIN doc[d].pending, doc[d].pending[i].id = id
             PROVE  Decided(doc[d].pending[i].ops, room')
  BY DEF Settled
<1>1. doc[d].pending[i].ops = ops
  BY DEF Carries
<1>2. \A r \in DOMAIN ops : Stamps(ops[r])
  BY <1>1 DEF Fitting, DocFits, Stamped
<1>3. QED
  BY <1>1, <1>2, PushDecides DEF Inv

LEMMA HandlePushFits ==
    ASSUME Inv, Inv', \A e \in Device : Fitting(e), NEW d \in Device, handlePush(d)
    PROVE  \A e \in Device : Fitting(e)' /\ Keeps(e)
<1> DEFINE ops == Head(up[d]).ops
           id == Head(up[d]).id
           ack == [t |-> "ack", id |-> id]
           b == Broadcast(ops)
           q == Append(b[d], ack)
<1>1. /\ up[d] # <<>> /\ Head(up[d]).t = "push" /\ room' = applyPushBatch(room, ops)
      /\ down' = [b EXCEPT ![d] = q] /\ up' = [up EXCEPT ![d] = Tail(up[d])]
      /\ UNCHANGED <<doc, minted, disk, http>>
  BY DEF handlePush, clientVars
<1>2. ops \in Ops /\ id \in Nat /\ ack \in DownType
  BY <1>1, UpHead DEF DownType
<1>3. id <= minted[d] /\ Carries(doc[d], id, ops)
  BY <1>1, HeadUpFits DEF UpFits
<1>4. b \in [Device -> Seq(DownType)]
  BY <1>2, BroadcastType
<1>5. \A e \in Device : \A i \in DOMAIN b[e] :
        \/ \E j \in DOMAIN down[e] : b[e][i] = down[e][j]
        \/ \A c, n : DownFits(b[e][i], c, n, room')
  BY <1>1, <1>2, BroadcastFits
<1>6. Later(room, room') /\ GoodRoom(room)
  BY <1>1, <1>2, PushDecides DEF Inv
<1>7. DownFits(ack, doc[d], minted[d], room')
  <2>1. Settled(doc[d], id, room')
    BY <1>1, <1>2, <1>3, PushSettles
  <2>2. QED
    BY <1>3, <2>1 DEF DownFits
<1> HIDE DEF ops, id, ack, b
<1>8. \A i \in DOMAIN q : (\E j \in DOMAIN b[d] : q[i] = b[d][j]) \/ q[i] = ack
  BY <1>2, <1>4, AppendParts
<1> HIDE DEF q
<1>9. /\ down'[d] = q /\ up'[d] = Tail(up[d])
      /\ \A e \in Device \ {d} : down'[e] = b[e] /\ up'[e] = up[e]
  BY <1>1, <1>4 DEF Inv, Wires
<1>10. Fitting(d)'
  <2>1. \A i \in DOMAIN up'[d] : \E j \in DOMAIN up[d] : up'[d][i] = up[d][j]
    BY <1>1, <1>9, DeviceParts, TailParts
  <2>2. \A i \in DOMAIN down'[d] : \/ \E j \in DOMAIN down[d] : down'[d][i] = down[d][j]
                                   \/ DownFits(down'[d][i], doc[d], minted[d], room')
    <3> SUFFICES ASSUME NEW i \in DOMAIN q
                 PROVE  \/ \E j \in DOMAIN down[d] : q[i] = down[d][j]
                        \/ DownFits(q[i], doc[d], minted[d], room')
      BY <1>9
    <3>1. CASE q[i] = ack
      BY <1>7, <3>1
    <3>2. ASSUME NEW j \in DOMAIN b[d], q[i] = b[d][j]
          PROVE  \/ \E k \in DOMAIN down[d] : q[i] = down[d][k]
                 \/ DownFits(q[i], doc[d], minted[d], room')
      BY <1>5, <3>2
    <3>3. QED
      BY <1>8, <3>1, <3>2
  <2>3. /\ doc[d] \in DocType /\ disk[d] \in DocType /\ minted[d] \in Nat
        /\ GoodRoom(room') /\ room.seq <= room'.seq
    BY <1>6 DEF Inv, Docs, Later
  <2>4. DocFits(doc[d], room') /\ DocFits(disk[d], room')
    BY <1>6, <2>3, KeepDoc DEF Fitting
  <2>5. Older(doc[d], doc[d], minted[d]) /\ minted[d] <= minted[d]
    BY <2>3, SameOlder
  <2>6. QED
    BY <1>1, <1>6, <2>1, <2>2, <2>4, <2>5, FittingStep
<1>11. Keeps(d)
  BY <1>1, SameKeeps
<1>12. \A e \in Device \ {d} : \A i \in DOMAIN down'[e] :
          \/ \E j \in DOMAIN down[e] : down'[e][i] = down[e][j]
          \/ DownFits(down'[e][i], doc'[e], minted'[e], room')
  BY <1>5, <1>9
<1>13. QED
  BY <1>1, <1>6, <1>9, <1>10, <1>11, <1>12, OthersFit

\* A push of a dead socket.
LEMMA LateFits ==
    ASSUME Inv, Inv', \A e \in Device : Fitting(e), NEW ops \in late, handleLatePush(ops)
    PROVE  \A e \in Device : Fitting(e)' /\ Keeps(e)
<1> SUFFICES ASSUME NEW e \in Device PROVE Fitting(e)' /\ Keeps(e)
  OBVIOUS
<1>1. /\ ops \in Ops /\ room' = applyPushBatch(room, ops) /\ down' = Broadcast(ops)
      /\ UNCHANGED <<doc, minted, disk, http, up>>
  BY DEF handleLatePush, clientVars, Inv
<1>2. Later(room, room')
  BY <1>1, PushDecides DEF Inv
<1>3. /\ doc[e] \in DocType /\ disk[e] \in DocType /\ minted[e] \in Nat
      /\ GoodRoom(room) /\ GoodRoom(room') /\ room.seq <= room'.seq
  BY <1>2 DEF Inv, Docs, Later
<1>4. DocFits(doc[e], room') /\ DocFits(disk[e], room')
  BY <1>3, KeepDoc DEF Fitting
<1>5. Older(doc[e], doc[e], minted[e]) /\ minted[e] <= minted[e]
  BY <1>3, SameOlder
<1>6. \A i \in DOMAIN down'[e] : \/ \E j \in DOMAIN down[e] : down'[e][i] = down[e][j]
                                 \/ DownFits(down'[e][i], doc'[e], minted'[e], room')
  BY <1>1, BroadcastFits
<1>7. Fitting(e)'
  BY <1>1, <1>2, <1>4, <1>5, <1>6, FittingStep
<1>8. QED
  BY <1>1, <1>7, SameKeeps

\* The room takes a POST /push of an HTTPS task.
LEMMA PostFits ==
    ASSUME Inv, Inv', \A e \in Device : Fitting(e), NEW d \in Device, postPush(d)
    PROVE  \A e \in Device : Fitting(e)' /\ Keeps(e)
<1> DEFINE todo == http[d].todo
           ops == Head(todo).ops
           b == Broadcast(ops)
           h == [http[d] EXCEPT !.at = "posted"]
<1>1. /\ http[d].at = "push" /\ todo # <<>> /\ room' = applyPushBatch(room, ops)
      /\ down' = b /\ http' = [http EXCEPT ![d] = h]
      /\ UNCHANGED <<doc, minted, disk, up>>
  BY DEF postPush, Http
<1>2. ops \in Ops /\ todo \in Queue
  BY <1>1, HttpParts, TodoHead
<1>3. h.at = "posted" /\ h.todo = todo
  <2>1. http[d] \in [at : {"push"}, todo : Queue]
    <3>1. http[d] \in HttpType
      BY DEF Inv
    <3>2. QED
      BY <1>1, <3>1 DEF HttpType
  <2>2. QED
    BY <2>1
<1>4. 1 \in DOMAIN todo /\ Head(todo) = todo[1]
  BY <1>1, <1>2, TailParts DEF Queue
<1>5. \A i \in DOMAIN todo : todo[i].id <= minted[d] /\ Carries(doc[d], todo[i].id, todo[i].ops)
  BY <1>1 DEF Fitting, TaskFits
<1>6. Settled(doc[d], Head(todo).id, room')
  BY <1>1, <1>2, <1>4, <1>5, PushSettles
<1>7. TaskFits(h, doc[d], minted[d], room')
  BY <1>3, <1>5, <1>6 DEF TaskFits
<1>8. \A e \in Device : \A i \in DOMAIN down'[e] :
        \/ \E j \in DOMAIN down[e] : down'[e][i] = down[e][j]
        \/ DownFits(down'[e][i], doc'[e], minted'[e], room')
  BY <1>1, <1>2, BroadcastFits
<1>9. Later(room, room')
  BY <1>1, <1>2, PushDecides DEF Inv
<1> HIDE DEF h, b, ops, todo
<1>10. http'[d] = h /\ \A e \in Device \ {d} : http'[e] = http[e]
  BY <1>1 DEF Inv
<1>11. Fitting(d)'
  <2>1. /\ doc[d] \in DocType /\ disk[d] \in DocType /\ minted[d] \in Nat
        /\ GoodRoom(room) /\ GoodRoom(room') /\ room.seq <= room'.seq
    BY <1>9 DEF Inv, Docs, Later
  <2>2. DocFits(doc[d], room') /\ DocFits(disk[d], room')
    BY <2>1, KeepDoc DEF Fitting
  <2>3. Older(doc[d], doc[d], minted[d]) /\ minted[d] <= minted[d]
    BY <2>1, SameOlder
  <2>4. QED
    BY <1>1, <1>7, <1>8, <1>9, <1>10, <2>2, <2>3, FittingStep
<1>12. Keeps(d)
  BY <1>1, SameKeeps
<1>13. QED
  BY <1>1, <1>8, <1>9, <1>10, <1>11, <1>12, OthersFit

\* A step of the HTTPS task that changes its document and the task.
LEMMA TaskStep ==
    ASSUME Inv, Inv', \A e \in Device : Fitting(e), NEW d \in Device, NEW c, NEW h,
           doc' = [doc EXCEPT ![d] = c], http' = [http EXCEPT ![d] = h],
           UNCHANGED <<room, minted, disk, up, down>>,
           Kept(c, doc[d]), c.cursor <= room.seq,
           h = http[d] \/ TaskFits(h, c, minted[d], room),
           doc'[d] = c => Keeps(d)
    PROVE  \A e \in Device : Fitting(e)' /\ Keeps(e)
<1>1. /\ doc'[d] = c /\ http'[d] = h /\ minted[d] <= minted'[d]
      /\ \A e \in Device \ {d} : doc'[e] = doc[e] /\ http'[e] = http[e]
  BY DEF Inv, Docs
<1>2. DocFits(disk[d], room)
  BY DEF Fitting
<1>3. QED
  BY <1>1, <1>2, LocalFits

\* One that leaves the document alone.
LEMMA TaskOnly ==
    ASSUME Inv, Inv', \A e \in Device : Fitting(e), NEW d \in Device, NEW h,
           http' = [http EXCEPT ![d] = h], UNCHANGED <<room, doc, minted, disk, up, down>>,
           h = http[d] \/ TaskFits(h, doc[d], minted[d], room)
    PROVE  \A e \in Device : Fitting(e)' /\ Keeps(e)
<1>1. doc' = [doc EXCEPT ![d] = doc[d]]
  BY DEF Inv, Docs
<1>2. Kept(doc[d], doc[d]) /\ doc[d].cursor <= room.seq /\ Keeps(d)
  BY SameKeeps DEF Kept, Fitting, DocFits
<1>3. QED
  BY <1>1, <1>2, TaskStep

LEMMA HttpStartFits ==
    ASSUME Inv, Inv', \A e \in Device : Fitting(e), NEW d \in Device, HttpStart(d)
    PROVE  \A e \in Device : Fitting(e)' /\ Keeps(e)
<1> DEFINE c == take_pushable(doc[d])
           w == Pushable(doc[d])
           h == [at |-> "push", todo |-> w]
<1>1. /\ http' = [http EXCEPT ![d] = h] /\ doc' = [doc EXCEPT ![d] = c]
      /\ UNCHANGED <<room, minted, disk, up, down>>
  BY DEF HttpStart
<1>2. GoodDoc(doc[d], minted[d]) /\ minted[d] \in Nat /\ doc[d].cursor <= room.seq
  BY DocOf DEF Inv, Fitting, DocFits
<1>3. c.cursor = doc[d].cursor /\ Kept(c, doc[d]) /\ Ids(c.pending) = Ids(doc[d].pending)
  BY <1>2, FlightOnly, FlightKept DEF take_pushable, GoodDoc
<1>4. \A i \in DOMAIN w : w[i].id <= minted[d] /\ Carries(doc[d], w[i].id, w[i].ops)
  BY <1>2, PushableFits
<1> HIDE DEF c, w
<1>5. \A i \in DOMAIN w : w[i].id <= minted[d] /\ Carries(c, w[i].id, w[i].ops)
  BY <1>3, <1>4 DEF Carries, Kept
<1>6. TaskFits(h, c, minted[d], room)
  BY <1>5 DEF TaskFits
<1> HIDE DEF h
<1>7. doc'[d] = c => Keeps(d)
  BY <1>3, SameKeeps
<1>8. QED
  BY <1>1, <1>2, <1>3, <1>6, <1>7, TaskStep

LEMMA HttpAckedFits ==
    ASSUME Inv, Inv', \A e \in Device : Fitting(e), NEW d \in Device, HttpAcked(d)
    PROVE  \A e \in Device : Fitting(e)' /\ Keeps(e)
<1> DEFINE todo == http[d].todo
           id == Head(todo).id
           c == ack_batch(doc[d], id)
           w == Tail(todo)
           h == [at |-> "push", todo |-> w]
<1>1. /\ http[d].at = "posted" /\ doc' = [doc EXCEPT ![d] = c]
      /\ http' = [http EXCEPT ![d] = h]
      /\ UNCHANGED <<room, minted, disk, up, down>>
  BY DEF HttpAcked, Http
<1>2. todo \in Queue /\ todo # <<>>
  BY <1>1, HttpParts
<1>3. doc[d] \in DocType /\ doc[d].cursor <= room.seq
  BY DeviceParts DEF Fitting, DocFits
<1>4. Kept(c, doc[d]) /\ c.cursor = doc[d].cursor
  BY <1>3, AckKept, AckOnly
<1>5. /\ Settled(doc[d], id, room)
      /\ \A i \in DOMAIN todo : todo[i].id <= minted[d] /\ Carries(doc[d], todo[i].id, todo[i].ops)
  BY <1>1 DEF Fitting, TaskFits
<1>6. doc'[d] = c => Keeps(d)
  BY <1>1, <1>5, AckedKeeps
<1>7. \A i \in DOMAIN w : i + 1 \in DOMAIN todo /\ w[i] = todo[i + 1]
  BY <1>2, TailParts DEF Queue
<1> HIDE DEF c, w, todo
<1>8. \A i \in DOMAIN w : w[i].id <= minted[d] /\ Carries(c, w[i].id, w[i].ops)
  BY <1>4, <1>5, <1>7 DEF Carries, Kept
<1>9. TaskFits(h, c, minted[d], room)
  BY <1>8 DEF TaskFits
<1> HIDE DEF h
<1>10. QED
  BY <1>1, <1>3, <1>4, <1>6, <1>9, TaskStep

LEMMA HttpPushFailsFits ==
    ASSUME Inv, Inv', \A e \in Device : Fitting(e), NEW d \in Device, HttpPushFails(d)
    PROVE  \A e \in Device : Fitting(e)' /\ Keeps(e)
<1> DEFINE c == mark_disconnected(doc[d])
           h == [at |-> "push", todo |-> <<>>]
<1>1. /\ http' = [http EXCEPT ![d] = h] /\ doc' = [doc EXCEPT ![d] = c]
      /\ UNCHANGED <<room, minted, disk, up, down>>
  BY DEF HttpPushFails
<1>2. doc[d] \in DocType /\ doc[d].cursor <= room.seq
  BY DeviceParts DEF Fitting, DocFits
<1>3. c.cursor = doc[d].cursor /\ Kept(c, doc[d]) /\ Ids(c.pending) = Ids(doc[d].pending)
  BY <1>2, FlightOnly, FlightKept DEF mark_disconnected
<1> HIDE DEF c
<1>4. TaskFits(h, c, minted[d], room)
  BY DEF TaskFits
<1> HIDE DEF h
<1>5. doc'[d] = c => Keeps(d)
  BY <1>3, SameKeeps
<1>6. QED
  BY <1>1, <1>2, <1>3, <1>4, <1>5, TaskStep

LEMMA HttpAskFits ==
    ASSUME Inv, Inv', \A e \in Device : Fitting(e), room.gcFloor = 0, NEW d \in Device,
           HttpPull(d) \/ getRows(d) \/ HttpPullFails(d) \/ DialFails(d)
    PROVE  \A e \in Device : Fitting(e)' /\ Keeps(e)
<1>1. UNCHANGED <<room, doc, minted, disk, up, down>>
  BY DEF HttpPull, getRows, HttpPullFails, DialFails
<1>2. CASE HttpPull(d)
  <2>1. TaskFits([at |-> "ask", since |-> doc[d].cursor], doc[d], minted[d], room)
    BY DEF TaskFits, Fitting, DocFits
  <2>2. QED
    BY <1>1, <1>2, <2>1, TaskOnly DEF HttpPull
<1>3. CASE getRows(d)
  <2> DEFINE f == StateFrame(room, http[d].since)
  <2>1. http[d].at = "ask" /\ http' = [http EXCEPT ![d] = [at |-> "answer", frame |-> f]]
    BY <1>3 DEF getRows, Http
  <2>2. http[d].since \in Nat /\ http[d].since <= room.seq
    BY <2>1, HttpParts DEF Fitting, TaskFits
  <2>3. StateFits(f, room)
    BY <2>2, StateFrameFits DEF Inv
  <2> HIDE DEF f
  <2>4. TaskFits([at |-> "answer", frame |-> f], doc[d], minted[d], room)
    BY <2>3 DEF TaskFits
  <2>5. QED
    BY <1>1, <2>1, <2>4, TaskOnly
<1>4. CASE HttpPullFails(d)
  BY <1>1, <1>4, IdleFits, TaskOnly DEF HttpPullFails
<1>5. CASE DialFails(d)
  <2> DEFINE h == spawn_offline_sync(d, http[d])
  <2>1. http' = [http EXCEPT ![d] = h]
    BY <1>5 DEF DialFails
  <2>2. h = http[d] \/ TaskFits(h, doc[d], minted[d], room)
    BY SpawnFits
  <2> HIDE DEF h
  <2>3. QED
    BY <1>1, <2>1, <2>2, TaskOnly
<1>6. QED
  BY <1>2, <1>3, <1>4, <1>5

LEMMA HttpPulledFits ==
    ASSUME Inv, Inv', \A e \in Device : Fitting(e), NEW d \in Device, HttpPulled(d)
    PROVE  \A e \in Device : Fitting(e)' /\ Keeps(e)
<1> DEFINE f == http[d].frame
           c == apply_state(doc[d], f, minted[d] + 1)
           n == IF Reseeded(doc[d], f) = {} THEN minted[d] ELSE minted[d] + 1
<1>1. /\ http[d].at = "answer" /\ doc' = [doc EXCEPT ![d] = c]
      /\ minted' = [minted EXCEPT ![d] = n] /\ http' = [http EXCEPT ![d] = Idle]
      /\ UNCHANGED <<room, disk, up, down>>
  BY DEF HttpPulled, Http
<1>2. f \in StateType /\ ~f.full /\ f.seq <= room.seq
  BY <1>1, HttpParts DEF Fitting, TaskFits, StateFits
<1>3. doc[d] \in DocType /\ minted \in [Device -> Nat]
  BY DEF Inv, Docs
<1> HIDE DEF f
<1>4. Reseeded(doc[d], f) = {} /\ c.pending = doc[d].pending /\ c.cursor = f.seq
  BY <1>2, <1>3, PlainState
<1>5. minted' = minted
  BY <1>1, <1>3, <1>4
<1> HIDE DEF c, n
<1>6. Kept(c, doc[d]) /\ Ids(doc[d].pending) \subseteq Ids(c.pending)
  BY <1>4 DEF Kept
<1>7. doc'[d] = c => Keeps(d)
  BY <1>6, SameKeeps
<1>8. TaskFits(Idle, c, minted[d], room)
  BY IdleFits
<1>9. QED
  BY <1>1, <1>2, <1>4, <1>5, <1>6, <1>7, <1>8, TaskStep

Alarms == \E d \in Device : \E hlc \in Clocks[d] : alarm(hlc + 1)

\* Every step but a purge or a reset keeps all devices fitting, and takes out
\* of a queue, unless it is a crash, only what the room has decided.
LEMMA StepFits ==
    ASSUME Inv, Inv', \A e \in Device : Fitting(e), room.gcFloor = 0, [Next]_vars,
           \A w \in Writes : w.op = "upsert" => w.set # {},
           ~reset, ~Alarms
    PROVE  /\ \A e \in Device : Fitting(e)'
           /\ (\A e \in Device : Keeps(e)) \/ \E d \in Device : Crash(d)
<1>1. CASE UNCHANGED vars
  BY <1>1, SameKeeps DEF vars, Fitting
<1>2. ASSUME NEW d \in Device, Progress(d)
      PROVE  \A e \in Device : Fitting(e)' /\ Keeps(e)
  BY <1>2, DialFits, RecvStateFits, RecvRowsFits, RecvAckFits, DropFits, PushPendingFits,
     HelloFits, HandlePushFits, HttpStartFits, PostFits, HttpAckedFits, HttpAskFits,
     HttpPulledFits DEF Progress
<1>3. ASSUME NEW d \in Device,
             \/ \E w \in Writes, hlc \in Clocks[d] : Write(d, w, hlc)
             \/ persist_snapshot(d) \/ DialFails(d) \/ Drop(d) \/ LoseFrame(d)
             \/ HttpPushFails(d) \/ HttpPullFails(d)
      PROVE  \A e \in Device : Fitting(e)' /\ Keeps(e)
  BY <1>3, WriteFits, SaveFits, HttpAskFits, DropFits, LoseFits, HttpPushFailsFits
<1>4. ASSUME NEW d \in Device, Crash(d)
      PROVE  \A e \in Device : Fitting(e)'
  BY <1>4, CrashFits
<1>5. ASSUME NEW ops \in late, handleLatePush(ops)
      PROVE  \A e \in Device : Fitting(e)' /\ Keeps(e)
  BY <1>5, LateFits
<1>6. QED
  BY <1>1, <1>2, <1>3, <1>4, <1>5 DEF Next, Step, RoomStep, Alarms

\* What is left of resets and purges only falls, and each uses one up.
LEMMA ForgetStep ==
    ASSUME Inv, [Next]_vars, RetiredInv
    PROVE  /\ left'["reset"] <= Faults["reset"] /\ left'["purge"] <= Faults["purge"]
           /\ (Wiped => Wiped') /\ (Purged => Purged')
           /\ reset => Wiped'
           /\ Alarms => Purged'
<1>1. {"reset", "purge"} \subseteq FaultKinds \ {"any"}
  BY DEF FaultKinds
<1>2. /\ left \in [FaultKinds -> Nat] /\ left' \in [FaultKinds -> Nat]
      /\ Faults \in [FaultKinds -> Nat]
  BY StepInv, FaultsAssumption DEF Inv
<1>3. /\ \A k \in {"reset", "purge"} : left[k] \in Nat /\ left'[k] \in Nat /\ Faults[k] \in Nat
      /\ \A k \in {"reset", "purge"} : left'[k] <= left[k]
      /\ reset => left'["reset"] < left["reset"]
  BY <1>1, <1>2, LeftStep
<1>4. ASSUME NEW d \in Device, NEW hlc \in Clocks[d], alarm(hlc + 1)
      PROVE  left'["purge"] < left["purge"]
  BY <1>1, <1>2, <1>4, SpendLess DEF alarm
<1>5. left["reset"] <= Faults["reset"] /\ left["purge"] <= Faults["purge"]
  BY DEF RetiredInv
<1>6. Alarms => left'["purge"] < left["purge"]
  BY <1>4 DEF Alarms
<1>7. QED
  BY <1>3, <1>5, <1>6 DEF Wiped, Purged

LEMMA FittingInit ==
    ASSUME Init PROVE RetiredInv
<1>1. /\ left["reset"] = Faults["reset"] /\ left["purge"] = Faults["purge"]
      /\ Faults["reset"] \in Nat /\ Faults["purge"] \in Nat
  BY FaultsAssumption DEF Init, FaultKinds
<1>2. room.gcFloor = 0 /\ room.seq = 0
  BY DEF Init, EmptyRoom
<1>3. ASSUME NEW d \in Device PROVE Fitting(d)
  <2>1. /\ doc[d] = EmptyDoc /\ disk[d] = EmptyDoc /\ up[d] = <<>> /\ down[d] = <<>>
        /\ http[d].at \in {"start", "idle"}
    BY DEF Init, Idle
  <2>2. DocFits(EmptyDoc, room)
    BY <1>2 DEF DocFits, EmptyDoc, Stamped
  <2>3. TaskFits(http[d], doc[d], minted[d], room)
    BY <2>1 DEF TaskFits
  <2>4. QED
    BY <2>1, <2>2, <2>3 DEF Fitting
<1>4. QED
  BY <1>1, <1>2, <1>3 DEF RetiredInv

LEMMA FittingNext ==
    ASSUME Inv, RetiredInv, [Next]_vars,
           \A w \in Writes : w.op = "upsert" => w.set # {}
    PROVE  RetiredInv'
<1>1. Inv'
  BY StepInv
<1>2. ASSUME ~Wiped', ~Purged'
      PROVE  room'.gcFloor = 0 /\ \A d \in Device : Fitting(d)'
  <2>1. ~Wiped /\ ~Purged /\ ~reset /\ ~Alarms
    BY <1>2, ForgetStep
  <2>2. room.gcFloor = 0 /\ \A d \in Device : Fitting(d)
    BY <2>1 DEF RetiredInv
  <2>3. \A d \in Device : Fitting(d)'
    BY <1>1, <2>1, <2>2, StepFits
  <2>4. left'["purge"] = left["purge"] /\ left'["reset"] = left["reset"]
    <3>1. {"reset", "purge"} \subseteq FaultKinds
      BY DEF FaultKinds
    <3>2. \A k \in {"reset", "purge"} :
             /\ left'[k] \in Nat /\ left[k] \in Nat /\ Faults[k] \in Nat /\ left'[k] <= left[k]
      BY <1>1, <3>1, LeftStep, FaultsAssumption DEF Inv
    <3>3. /\ left["reset"] <= Faults["reset"] /\ left["purge"] <= Faults["purge"]
          /\ ~(left'["reset"] < Faults["reset"]) /\ ~(left'["purge"] < Faults["purge"])
      BY <1>2 DEF RetiredInv, Wiped, Purged
    <3>4. QED
      BY <3>2, <3>3
  <2>5. room'.gcFloor = 0
    BY <2>2, <2>4, RoomAdvances, PushDecides DEF Inv
  <2>6. QED
    BY <2>3, <2>5
<1>3. QED
  BY <1>2, ForgetStep DEF RetiredInv

\* A batch leaves the outgoing queue (ack_batch, on the word of an "ack" frame
\* or of a POST /push) only when the room's rows carry the clocks of its deletes
\* and upserts, or newer ones: on either transport, re-sent, late, or saved and
\* taken up again.  Every upsert the program writes names at least one field.
THEOREM RetiredSafe ==
    ASSUME \A w \in Writes : w.op = "upsert" => w.set # {}
    PROVE  Spec => RetiredMeansDecided
<1> DEFINE P == left'["crash"] = left["crash"] /\ ~Wiped /\ ~Purged =>
                  \A d \in Device : \A x \in RetiredOps(d) :
                     x[2].op # "update" => maxClock(room'.rows[x[1]]) >= x[2].hlc
<1>1. Init => RetiredInv
  BY FittingInit
<1>2. Inv /\ RetiredInv /\ [Next]_vars => RetiredInv'
  BY FittingNext
<1>3. ASSUME Inv, RetiredInv, [Next]_vars,
             left'["crash"] = left["crash"], ~Wiped, ~Purged,
             NEW d \in Device, NEW x \in RetiredOps(d), x[2].op # "update"
      PROVE  maxClock(room'.rows[x[1]]) >= x[2].hlc
  <2>1. PICK i \in DOMAIN doc[d].pending :
           /\ doc[d].pending[i].id \notin Ids(doc'[d].pending)
           /\ x[1] \in DOMAIN doc[d].pending[i].ops
           /\ x[2] = doc[d].pending[i].ops[x[1]]
    BY <1>3 DEF RetiredOps
  <2>2. \A e \in Device : ~Crash(e)
    <3>1. "crash" \in FaultKinds \ {"any"}
      BY DEF FaultKinds
    <3>2. left \in [FaultKinds -> Nat]
      BY <1>3 DEF Inv
    <3>3. QED
      BY <1>3, <3>1, <3>2, SpendParts DEF Crash
  <2>3. doc' # doc
    BY <2>1 DEF Ids
  <2>4. ~reset /\ ~Alarms
    BY <2>3 DEF reset, Alarms, alarm, clientVars
  <2>5. room.gcFloor = 0 /\ (\A e \in Device : Fitting(e)) /\ Inv'
    BY <1>3, StepInv DEF RetiredInv
  <2>6. Keeps(d)
    BY <1>3, <2>2, <2>4, <2>5, StepFits
  <2>7. QED
    BY <1>3, <2>1, <2>6 DEF Keeps, Decided
<1>4. Inv /\ RetiredInv /\ [Next]_vars => [P]_vars
  BY <1>3
<1>5. QED
  BY <1>1, <1>2, <1>4, InvAlways, PTL DEF Spec, RetiredMeansDecided

-----------------------------------------------------------------------------
(* What a device displays.  An optimistic write is retired only when it would *)
(* change nothing in the row the device holds.  A device on its socket will    *)
(* hold, once it has read every frame on the way, the rows of the room, with   *)
(* a tombstone at most where the room has purged one; and at the place of an   *)
(* ack among the frames, rows in which the batch would change nothing.         *)

\* A state or rows frame says what a row is: a full state of every row.
Tells(f, r) == Counts(f) /\ (r \in DOMAIN f.rows \/ (f.t = "state" /\ f.full))
Told(f, r) == IF r \in DOMAIN f.rows THEN f.rows[r] ELSE Absent

\* The row a device holds once it has read the first k frames.
Sees(auth, dn, k, r, row) ==
    \/ auth[r] = row /\ \A i \in DOMAIN dn : i <= k => ~Tells(dn[i], r)
    \/ \E i \in DOMAIN dn :
          /\ i <= k /\ Tells(dn[i], r) /\ Told(dn[i], r) = row
          /\ \A j \in DOMAIN dn : i < j /\ j <= k => ~Tells(dn[j], r)

\* The room's row, or any tombstone where the room holds none.
Matches(row, truth) == row = truth \/ (truth = Absent /\ row.deleted)

Faithful(auth, dn, rm) ==
    \A r \in Row : \E row \in RowType :
        Sees(auth, dn, Len(dn), r, row) /\ Matches(row, rm.rows[r])

\* A batch changes nothing in the rows held at place k.
Absorbed(auth, dn, k, ops) ==
    \A r \in DOMAIN ops : \E row \in RowType :
        Sees(auth, dn, k - 1, r, row) /\ apply_op(row, ops[r]) = row

Acked(c, dn, n) ==
    \A k \in DOMAIN dn : dn[k].t = "ack" =>
        /\ dn[k].id <= n
        /\ \A i \in DOMAIN c.pending : c.pending[i].id = dn[k].id =>
              Absorbed(c.auth, dn, k, c.pending[i].ops)

Queued(c, u, n) ==
    \A i \in DOMAIN u : u[i].t = "push" => u[i].id <= n /\ Carries(c, u[i].id, u[i].ops)

\* A document whose cursor has passed every purge holds no live row the room
\* does not hold.
GoneKnown(c, rm) ==
    rm.gcFloor <= c.cursor => \A r \in Row : rm.rows[r] = Absent => c.auth[r].deleted

\* A state comes before everything numbered and above the cursor it answers; a
\* broadcast of a row the room has purged since is not above the purge.
Framed(dn, s, c, rm) ==
    \A i \in DOMAIN dn :
        /\ dn[i].t # "close"
        /\ dn[i].t = "state" =>
              /\ s = "hello" => c.cursor <= dn[i].seq
              /\ \A j \in DOMAIN dn : j < i => ~Counts(dn[j])
        /\ dn[i].t = "rows" =>
              \A r \in DOMAIN dn[i].rows : rm.rows[r] = Absent => dn[i].seq <= rm.gcFloor

\* The room has answered the session's hello.
Greeted(u, s) == s # "down" /\ (u # <<>> => Head(u).t # "hello")

Mirror(c, k, dn, u, s, n, rm) ==
    /\ Queued(c, u, n) /\ Acked(c, dn, n) /\ Framed(dn, s, c, rm)
    /\ GoneKnown(c, rm) /\ GoneKnown(k, rm)
    /\ Greeted(u, s) => Faithful(c.auth, dn, rm)

Mirrors(d) == Mirror(doc[d], disk[d], down[d], up[d], sess[d], minted[d], room)

\* Where the room holds no row, the answer to a pull leaves a tombstone at most.
AnswerGone(h, c, rm) == h.at = "answer" =>
    /\ c.cursor <= h.frame.seq
    /\ rm.gcFloor <= h.frame.seq => \A r \in Row : rm.rows[r] = Absent =>
          IF r \in DOMAIN h.frame.rows THEN h.frame.rows[r].deleted
          ELSE h.frame.full \/ c.auth[r].deleted

PullGone(d) == AnswerGone(http[d], doc[d], room)

FlickerInv ==
    /\ left["lose"] <= Faults["lose"]
    /\ ~Lost /\ ~Wiped => \A d \in Device : Mirrors(d) /\ PullGone(d)

\* An op that changes nothing where the room holds no row changes no tombstone.
LEMMA AbsentNoop ==
    ASSUME NEW row \in RowType, row.deleted, NEW op \in OpType, apply_op(Absent, op) = Absent
    PROVE  apply_op(row, op) = row
<1>1. /\ Absent \in RowType /\ Absent.deleted = TRUE /\ Absent.delHlc = 0
      /\ \A f \in Field : Absent.clocks[f] = 0
  BY AbsentType DEF Absent, NoClocks
<1>2. op.hlc \in Nat /\ row.delHlc \in Nat
  BY DEF OpType, RowType
<1>3. CASE op.op = "delete"
  <2>1. DeleteWins(Absent, op.hlc) => Buried(Absent, op) = Absent
    BY <1>1, <1>3, ApplyOp
  <2>2. Buried(Absent, op).delHlc = op.hlc
    BY <1>1, BuriedParts
  <2>3. ~(op.hlc > 0)
    BY <1>1, <2>1, <2>2 DEF DeleteWins
  <2>4. ~DeleteWins(row, op.hlc)
    BY <1>2, <2>3 DEF DeleteWins
  <2>5. QED
    BY <1>3, <2>4, ApplyOp
<1>4. CASE op.op # "delete"
  <2>1. Admitted(Absent, op) => Merged(Absent, op) = Absent
    BY <1>1, <1>4, ApplyOp
  <2>2. Merged(Absent, op).deleted = FALSE
    BY <1>1, MergedParts
  <2>3. ~Admitted(Absent, op)
    BY <1>1, <2>1, <2>2
  <2>4. ~Admitted(row, op)
    BY <1>1, <1>2, <2>3 DEF Admitted
  <2>5. QED
    BY <1>4, <2>4, ApplyOp
<1>5. QED
  BY <1>3, <1>4

LEMMA MatchNoop ==
    ASSUME NEW row \in RowType, NEW truth, Matches(row, truth),
           NEW op \in OpType, apply_op(truth, op) = truth
    PROVE  apply_op(row, op) = row
BY AbsentNoop DEF Matches

\* A batch the room has just taken would change nothing in it any more.
LEMMA PushedNoop ==
    ASSUME NEW rm, GoodRoom(rm), NEW ops \in Ops, NEW r \in DOMAIN ops
    PROVE  apply_op(applyPushBatch(rm, ops).rows[r], ops[r]) = applyPushBatch(rm, ops).rows[r]
<1> DEFINE new == applyPushBatch(rm, ops)
<1>1. rm \in RoomType
  BY DEF GoodRoom
<1>2. new \in RoomType /\ applyPushBatch(new, ops) = new
  BY <1>1, BatchParts, RepushIsNoop
<1> HIDE DEF new
<1>3. new.seq \in Nat
  BY <1>2 DEF RoomType
<1>4. Touched(new, ops) # {} => applyPushBatch(new, ops).seq = new.seq + 1
  BY <1>2 DEF applyPushBatch, RoomType
<1>5. Touched(new, ops) = {}
  BY <1>2, <1>3, <1>4
<1>6. apply_op(new.rows[r], ops[r]) = new.rows[r]
  BY <1>5 DEF Touched
<1>7. QED
  BY <1>6 DEF new

LEMMA ToldRow ==
    ASSUME NEW f \in DownType, NEW r \in Row, Tells(f, r)
    PROVE  Told(f, r) \in RowType
<1>1. f.rows \in PartialTables
  BY DEF DownType, StateType, RowsType, Tells, Counts
<1>2. QED
  BY <1>1, AbsentType DEF Told, PartialTables

\* Reading, sending and waiting for frames.
LEMMA SeesAppend ==
    ASSUME NEW dn \in Seq(DownType), NEW f \in DownType, NEW auth, NEW r, NEW row
    PROVE  /\ \A k : k \in 0..Len(dn) /\ Sees(auth, dn, k, r, row)
                       => Sees(auth, Append(dn, f), k, r, row)
           /\ Sees(auth, dn, Len(dn), r, row) /\ ~Tells(f, r)
                => Sees(auth, Append(dn, f), Len(Append(dn, f)), r, row)
           /\ Tells(f, r) => Sees(auth, Append(dn, f), Len(Append(dn, f)), r, Told(f, r))
<1> DEFINE q == Append(dn, f)
<1>1. /\ Len(dn) \in Nat /\ DOMAIN dn = 1..Len(dn) /\ DOMAIN q = 1..(Len(dn) + 1)
      /\ \A i \in DOMAIN dn : i \in DOMAIN q /\ q[i] = dn[i]
      /\ \A i \in DOMAIN q : i \in DOMAIN dn \/ (i = Len(dn) + 1 /\ q[i] = f)
      /\ Len(q) = Len(dn) + 1
  BY AppendParts, AppendProperties
<1>2. q[Len(dn) + 1] = f /\ Len(dn) + 1 \in DOMAIN q
  BY AppendProperties, <1>1
<1> HIDE DEF q
<1>3. ASSUME NEW k \in 0..Len(dn), Sees(auth, dn, k, r, row)
      PROVE  Sees(auth, q, k, r, row)
  <2>1. \A i \in DOMAIN q : i <= k => i \in DOMAIN dn
    BY <1>1
  <2>2. QED
    BY <1>1, <1>3, <2>1 DEF Sees
<1>4. ASSUME Sees(auth, dn, Len(dn), r, row), ~Tells(f, r)
      PROVE  Sees(auth, q, Len(q), r, row)
  <2>1. \A i \in DOMAIN dn : i <= Len(dn) /\ i <= Len(q)
    BY <1>1
  <2>2. CASE auth[r] = row /\ \A i \in DOMAIN dn : i <= Len(dn) => ~Tells(dn[i], r)
    BY <1>1, <1>4, <2>1, <2>2 DEF Sees
  <2>3. ASSUME NEW i \in DOMAIN dn, Tells(dn[i], r), Told(dn[i], r) = row,
               \A j \in DOMAIN dn : i < j /\ j <= Len(dn) => ~Tells(dn[j], r)
        PROVE  Sees(auth, q, Len(q), r, row)
    <3>1. i \in DOMAIN q /\ q[i] = dn[i] /\ i <= Len(q)
      BY <1>1, <2>1
    <3>2. \A j \in DOMAIN q : i < j => ~Tells(q[j], r)
      BY <1>1, <1>4, <2>1, <2>3
    <3>3. QED
      BY <2>3, <3>1, <3>2 DEF Sees
  <2>4. QED
    BY <1>4, <2>2, <2>3 DEF Sees
<1>5. ASSUME Tells(f, r) PROVE Sees(auth, q, Len(q), r, Told(f, r))
  <2>1. \A j \in DOMAIN q : ~(Len(dn) + 1 < j)
    BY <1>1
  <2>2. Len(dn) + 1 <= Len(q)
    BY <1>1
  <2>3. QED
    BY <1>2, <1>5, <2>1, <2>2 DEF Sees
<1>6. QED
  BY <1>3, <1>4, <1>5 DEF q

LEMMA SeesTail ==
    ASSUME NEW dn \in Seq(DownType), dn # <<>>, NEW auth, NEW auth2, NEW r, NEW row,
           auth2[r] = IF Tells(Head(dn), r) THEN Told(Head(dn), r) ELSE auth[r],
           NEW k \in Nat, Sees(auth, dn, k + 1, r, row)
    PROVE  Sees(auth2, Tail(dn), k, r, row)
<1> DEFINE q == Tail(dn)
<1>1. /\ DOMAIN dn = 1..Len(dn) /\ Len(dn) \in Nat \ {0} /\ 1 \in DOMAIN dn /\ Head(dn) = dn[1]
      /\ DOMAIN q = 1..(Len(dn) - 1)
      /\ \A i \in DOMAIN q : i + 1 \in DOMAIN dn /\ q[i] = dn[i + 1]
  BY TailParts
<1> HIDE DEF q
<1>2. CASE auth[r] = row /\ \A i \in DOMAIN dn : i <= k + 1 => ~Tells(dn[i], r)
  <2>1. ~Tells(dn[1], r)
    BY <1>1, <1>2
  <2>2. ASSUME NEW i \in DOMAIN q, i <= k PROVE ~Tells(q[i], r)
    <3>1. i + 1 \in DOMAIN dn /\ i + 1 <= k + 1 /\ q[i] = dn[i + 1]
      BY <1>1, <2>2
    <3>2. QED
      BY <1>2, <3>1
  <2>3. QED
    BY <1>1, <1>2, <2>1, <2>2 DEF Sees, q
<1>3. ASSUME NEW i \in DOMAIN dn, i <= k + 1, Tells(dn[i], r), Told(dn[i], r) = row,
             \A j \in DOMAIN dn : i < j /\ j <= k + 1 => ~Tells(dn[j], r)
      PROVE  Sees(auth2, q, k, r, row)
  <2>1. ASSUME NEW j \in DOMAIN q, i < j + 1, j <= k PROVE ~Tells(q[j], r)
    <3>1. j + 1 \in DOMAIN dn /\ j + 1 <= k + 1 /\ q[j] = dn[j + 1]
      BY <1>1, <2>1
    <3>2. QED
      BY <1>3, <2>1, <3>1
  <2>2. CASE i = 1
    <3>1. auth2[r] = row
      BY <1>1, <1>3, <2>2
    <3>2. \A j \in DOMAIN q : i < j + 1
      BY <1>1, <2>2
    <3>3. QED
      BY <2>1, <3>1, <3>2 DEF Sees
  <2>3. CASE i # 1
    <3>1. i - 1 \in DOMAIN q /\ i - 1 <= k /\ (i - 1) + 1 = i
      BY <1>1, <1>3, <2>3
    <3>2. q[i - 1] = dn[i]
      BY <1>1, <3>1
    <3>3. \A j \in DOMAIN q : i - 1 < j => i < j + 1
      BY <1>1, <3>1
    <3>4. QED
      BY <1>3, <2>1, <3>1, <3>2, <3>3 DEF Sees
  <2>4. QED
    BY <2>2, <2>3
<1>4. QED
  BY <1>2, <1>3 DEF Sees, q

\* Frames and documents change; what a device will see stays.
LEMMA ReadyGreeted ==
    ASSUME Inv, NEW d \in Device, Framed(down[d], sess[d], doc[d], room)
    PROVE  Ready(d) <=> Greeted(up[d], sess[d])
<1>1. ~Closed(d)
  <2> SUFFICES ASSUME Closed(d) PROVE FALSE
    OBVIOUS
  <2>1. down[d] # <<>> /\ down[d] \in Seq(DownType)
    BY DeviceParts DEF Closed
  <2>2. DOMAIN down[d] = 1..Len(down[d]) /\ Len(down[d]) \in Nat \ {0}
    BY <2>1, TailParts
  <2>3. Len(down[d]) \in DOMAIN down[d] /\ down[d][Len(down[d])].t = "close"
    BY <2>2 DEF Closed, Last
  <2>4. QED
    BY <2>3 DEF Framed
<1>2. QED
  BY <1>1 DEF Ready, Greeted

\* A batch keeps what the frames know of it.
LEMMA OlderBatch ==
    ASSUME NEW c, NEW c2, NEW n, Older(c2, c, n), NEW i \in DOMAIN c2.pending,
           ~(n < c2.pending[i].id)
    PROVE  \E j \in DOMAIN c.pending :
              c2.pending[i].id = c.pending[j].id /\ c2.pending[i].ops = c.pending[j].ops
BY DEF Older

LEMMA QueuedKept ==
    ASSUME NEW c, NEW c2, NEW n \in Nat, NEW n2 \in Nat, n <= n2, Older(c2, c, n),
           NEW u \in Seq(UpType), Queued(c, u, n)
    PROVE  Queued(c2, u, n2)
<1> SUFFICES ASSUME NEW i \in DOMAIN u, u[i].t = "push"
             PROVE  u[i].id <= n2 /\ Carries(c2, u[i].id, u[i].ops)
  BY DEF Queued
<1>1. u[i] \in UpType
  BY ElementOfSeq, LenProperties
<1>2. u[i].id \in Nat
  BY <1>1 DEF UpType
<1>3. u[i].id <= n /\ Carries(c, u[i].id, u[i].ops)
  BY DEF Queued
<1>4. ASSUME NEW j \in DOMAIN c2.pending, c2.pending[j].id = u[i].id
      PROVE  c2.pending[j].ops = u[i].ops
  <2>1. ~(n < c2.pending[j].id)
    BY <1>2, <1>3, <1>4
  <2>2. QED
    BY <1>3, <1>4, <2>1, OlderBatch DEF Carries
<1>5. QED
  BY <1>2, <1>3, <1>4 DEF Carries

\* The queue of batches changes; rows and cursor do not.
LEMMA QueueMirror ==
    ASSUME NEW c, NEW c2, c2.auth = c.auth, c2.cursor = c.cursor,
           NEW n \in Nat, NEW n2 \in Nat, n <= n2, Older(c2, c, n),
           NEW dn \in Seq(DownType), NEW u \in Seq(UpType), NEW k, NEW s, NEW rm,
           Mirror(c, k, dn, u, s, n, rm)
    PROVE  Mirror(c2, k, dn, u, s, n2, rm)
<1>1. Queued(c2, u, n2)
  BY QueuedKept DEF Mirror
<1>2. Acked(c2, dn, n2)
  <2> SUFFICES ASSUME NEW j \in DOMAIN dn, dn[j].t = "ack"
               PROVE  /\ dn[j].id <= n2
                      /\ \A i \in DOMAIN c2.pending : c2.pending[i].id = dn[j].id =>
                            Absorbed(c2.auth, dn, j, c2.pending[i].ops)
    BY DEF Acked
  <2>1. dn[j] \in DownType
    BY ElementOfSeq, LenProperties
  <2>2. dn[j].id \in Nat
    BY <2>1 DEF DownType, StateType, RowsType
  <2>3. /\ dn[j].id <= n
        /\ \A i \in DOMAIN c.pending : c.pending[i].id = dn[j].id =>
              Absorbed(c.auth, dn, j, c.pending[i].ops)
    BY DEF Mirror, Acked
  <2>4. ASSUME NEW i \in DOMAIN c2.pending, c2.pending[i].id = dn[j].id
        PROVE  Absorbed(c2.auth, dn, j, c2.pending[i].ops)
    <3>1. ~(n < c2.pending[i].id)
      BY <2>2, <2>3, <2>4
    <3>2. PICK x \in DOMAIN c.pending :
             c2.pending[i].id = c.pending[x].id /\ c2.pending[i].ops = c.pending[x].ops
      BY <3>1, OlderBatch
    <3>3. QED
      BY <2>3, <2>4, <3>2
  <2>5. QED
    BY <2>2, <2>3, <2>4
<1>3. Framed(dn, s, c2, rm) /\ GoneKnown(c2, rm)
  BY DEF Mirror, Framed, GoneKnown
<1>4. QED
  BY <1>1, <1>2, <1>3 DEF Mirror

\* No session, no frames.
LEMMA EmptyMirror ==
    ASSUME NEW c, NEW k, NEW n, NEW rm, GoneKnown(c, rm), GoneKnown(k, rm)
    PROVE  Mirror(c, k, <<>>, <<>>, "down", n, rm)
BY DEF Mirror, Queued, Acked, Framed, Greeted

\* A frame is read.
LEMMA ReadMirror ==
    ASSUME NEW c, NEW c2, NEW n \in Nat, NEW n2 \in Nat, n <= n2, Older(c2, c, n),
           NEW dn \in Seq(DownType), dn # <<>>,
           \A r \in Row : c2.auth[r] =
              IF Tells(Head(dn), r) THEN Told(Head(dn), r) ELSE c.auth[r],
           c2 \in DocType, c2.pending \in Queue,
           NEW s, NEW rm, Acked(c, dn, n), Framed(dn, s, c, rm)
    PROVE  /\ Acked(c2, Tail(dn), n2) /\ Framed(Tail(dn), "joined", c2, rm)
           /\ Faithful(c.auth, dn, rm) => Faithful(c2.auth, Tail(dn), rm)
<1> DEFINE q == Tail(dn)
<1>1. /\ DOMAIN dn = 1..Len(dn) /\ Len(dn) \in Nat \ {0} /\ 1 \in DOMAIN dn /\ Head(dn) = dn[1]
      /\ q \in Seq(DownType) /\ DOMAIN q = 1..(Len(dn) - 1)
      /\ \A i \in DOMAIN q : i + 1 \in DOMAIN dn /\ q[i] = dn[i + 1]
  BY TailParts
<1>2. Len(q) = Len(dn) - 1 /\ Len(q) \in Nat /\ Len(q) + 1 = Len(dn)
  BY <1>1, HeadTailProperties
<1> HIDE DEF q
<1>3. ASSUME NEW r \in Row, NEW row, NEW k \in Nat, Sees(c.auth, dn, k + 1, r, row)
      PROVE  Sees(c2.auth, q, k, r, row)
  BY <1>3, SeesTail DEF q
<1>4. Acked(c2, q, n2)
  <2> SUFFICES ASSUME NEW j \in DOMAIN q, q[j].t = "ack"
               PROVE  /\ q[j].id <= n2
                      /\ \A i \in DOMAIN c2.pending : c2.pending[i].id = q[j].id =>
                            Absorbed(c2.auth, q, j, c2.pending[i].ops)
    BY DEF Acked
  <2>1. /\ j + 1 \in DOMAIN dn /\ q[j] = dn[j + 1] /\ j \in Nat /\ j - 1 \in Nat
        /\ (j + 1) - 1 = (j - 1) + 1
    BY <1>1
  <2>2. q[j] \in DownType
    BY <1>1, ElementOfSeq, LenProperties
  <2>3. q[j].id \in Nat
    BY <2>2 DEF DownType, StateType, RowsType
  <2>4. /\ q[j].id <= n
        /\ \A i \in DOMAIN c.pending : c.pending[i].id = q[j].id =>
              Absorbed(c.auth, dn, j + 1, c.pending[i].ops)
    BY <2>1 DEF Acked
  <2>5. ASSUME NEW i \in DOMAIN c2.pending, c2.pending[i].id = q[j].id
        PROVE  Absorbed(c2.auth, q, j, c2.pending[i].ops)
    <3>1. ~(n < c2.pending[i].id)
      BY <2>3, <2>4, <2>5
    <3>2. PICK x \in DOMAIN c.pending :
             c2.pending[i].id = c.pending[x].id /\ c2.pending[i].ops = c.pending[x].ops
      BY <3>1, OlderBatch
    <3>3. Absorbed(c.auth, dn, j + 1, c2.pending[i].ops)
      BY <2>4, <2>5, <3>2
    <3>4. c2.pending[i].ops \in Ops
      BY InQueue
    <3>5. \A r \in DOMAIN c2.pending[i].ops : r \in Row
      BY <3>4 DEF Ops
    <3>6. ASSUME NEW r \in DOMAIN c2.pending[i].ops
          PROVE  \E row \in RowType : /\ Sees(c2.auth, q, j - 1, r, row)
                                      /\ apply_op(row, c2.pending[i].ops[r]) = row
      <4>1. PICK row \in RowType : /\ Sees(c.auth, dn, (j + 1) - 1, r, row)
                                   /\ apply_op(row, c2.pending[i].ops[r]) = row
        BY <3>3 DEF Absorbed
      <4>2. Sees(c2.auth, q, j - 1, r, row)
        BY <1>3, <2>1, <3>5, <4>1
      <4>3. QED
        BY <4>1, <4>2
    <3>7. QED
      BY <3>6 DEF Absorbed
  <2>6. QED
    BY <2>3, <2>4, <2>5
<1>5. Framed(q, "joined", c2, rm)
  <2> SUFFICES ASSUME NEW i \in DOMAIN q
               PROVE  /\ q[i].t # "close"
                      /\ q[i].t = "state" => \A j \in DOMAIN q : j < i => ~Counts(q[j])
                      /\ q[i].t = "rows" =>
                            \A r \in DOMAIN q[i].rows : rm.rows[r] = Absent => q[i].seq <= rm.gcFloor
    BY DEF Framed
  <2>1. i + 1 \in DOMAIN dn /\ q[i] = dn[i + 1]
    BY <1>1
  <2>2. ASSUME q[i].t = "state", NEW j \in DOMAIN q, j < i PROVE ~Counts(q[j])
    <3>1. j + 1 \in DOMAIN dn /\ q[j] = dn[j + 1] /\ j + 1 < i + 1
      BY <1>1, <2>2
    <3>2. QED
      BY <2>1, <2>2, <3>1 DEF Framed
  <2>3. QED
    BY <2>1, <2>2 DEF Framed
<1>6. Faithful(c.auth, dn, rm) => Faithful(c2.auth, q, rm)
  BY <1>2, <1>3 DEF Faithful
<1>7. QED
  BY <1>4, <1>5, <1>6 DEF q

\* The document that has read a numbered frame knows every purge below it.
LEMMA ReadGone ==
    ASSUME NEW c2, c2.cursor \in Nat, NEW q \in Seq(DownType), NEW u, NEW rm, rm.gcFloor \in Nat,
           WireOK(q, u, "joined", c2, rm), Framed(q, "joined", c2, rm),
           \A i \in DOMAIN q : q[i].t # "state", Faithful(c2.auth, q, rm)
    PROVE  GoneKnown(c2, rm)
<1> SUFFICES ASSUME rm.gcFloor <= c2.cursor, NEW r \in Row, rm.rows[r] = Absent
             PROVE  c2.auth[r].deleted
  BY DEF GoneKnown
<1>1. PICK row \in RowType : Sees(c2.auth, q, Len(q), r, row) /\ Matches(row, rm.rows[r])
  BY DEF Faithful
<1>2. row.deleted
  BY <1>1 DEF Matches, Absent
<1>3. ASSUME NEW i \in DOMAIN q, Tells(q[i], r) PROVE FALSE
  <2>1. q[i].t = "rows" /\ r \in DOMAIN q[i].rows
    BY <1>3 DEF Tells, Counts
  <2>2. q[i].seq <= rm.gcFloor /\ c2.cursor < q[i].seq
    BY <2>1 DEF Framed, WireOK, Fits
  <2>3. q[i] \in DownType
    BY ElementOfSeq, LenProperties
  <2>4. q[i].seq \in Nat
    BY <2>1, <2>3, FrameSeq DEF Counts
  <2>5. QED
    BY <2>2, <2>4
<1>4. QED
  BY <1>1, <1>2, <1>3 DEF Sees

\* A frame sent: what the acks before it say stays.
LEMMA AckedAppend ==
    ASSUME NEW c, NEW dn \in Seq(DownType), NEW f \in DownType, NEW n, Acked(c, dn, n),
           f.t = "ack" =>
              /\ f.id <= n
              /\ \A i \in DOMAIN c.pending : c.pending[i].id = f.id =>
                    Absorbed(c.auth, Append(dn, f), Len(dn) + 1, c.pending[i].ops)
    PROVE  Acked(c, Append(dn, f), n)
<1> DEFINE q == Append(dn, f)
<1>1. /\ Len(dn) \in Nat /\ DOMAIN dn = 1..Len(dn)
      /\ \A i \in DOMAIN dn : q[i] = dn[i]
      /\ \A i \in DOMAIN q : i \in DOMAIN dn \/ (i = Len(dn) + 1 /\ q[i] = f)
  BY AppendParts
<1>2. \A r, row, k : k \in 0..Len(dn) /\ Sees(c.auth, dn, k, r, row) => Sees(c.auth, q, k, r, row)
  BY SeesAppend
<1> HIDE DEF q
<1> SUFFICES ASSUME NEW k \in DOMAIN q, q[k].t = "ack"
             PROVE  /\ q[k].id <= n
                    /\ \A i \in DOMAIN c.pending : c.pending[i].id = q[k].id =>
                          Absorbed(c.auth, q, k, c.pending[i].ops)
  BY DEF Acked, q
<1>3. CASE k \in DOMAIN dn
  <2>1. dn[k].t = "ack" /\ q[k].id = dn[k].id
    BY <1>1, <1>3
  <2>2. k - 1 \in 0..Len(dn)
    BY <1>1, <1>3
  <2>3. ASSUME NEW i \in DOMAIN c.pending, c.pending[i].id = q[k].id
        PROVE  Absorbed(c.auth, q, k, c.pending[i].ops)
    <3>1. Absorbed(c.auth, dn, k, c.pending[i].ops)
      BY <1>3, <2>1, <2>3 DEF Acked
    <3>2. QED
      BY <1>2, <2>2, <3>1 DEF Absorbed
  <2>4. QED
    BY <1>3, <2>1, <2>3 DEF Acked
<1>4. CASE k = Len(dn) + 1 /\ q[k] = f
  BY <1>4 DEF q
<1>5. QED
  BY <1>1, <1>3, <1>4

\* What a push does to the rows of the room and says in its broadcast.
LEMMA PushRows ==
    ASSUME NEW rm, GoodRoom(rm), NEW ops \in Ops
    PROVE  LET new == applyPushBatch(rm, ops)
               f == RowsFrame(rm, ops)
           IN  /\ new.gcFloor = rm.gcFloor
               /\ f \in DownType /\ f.t = "rows" /\ DOMAIN f.rows = Touched(rm, ops)
               /\ \A r \in Touched(rm, ops) : r \in Row /\ f.rows[r] = new.rows[r] /\ new.rows[r] # Absent
               /\ \A r \in Row : r \notin Touched(rm, ops) => new.rows[r] = rm.rows[r]
<1> DEFINE new == applyPushBatch(rm, ops)
           T == Touched(rm, ops)
           f == RowsFrame(rm, ops)
<1>1. rm \in RoomType /\ rm.rows \in [Row -> RowType] /\ rm.seq \in Nat
  BY DEF GoodRoom, RoomType
<1>2. /\ new \in RoomType
      /\ \A r \in Row : r \notin T => new.rows[r] = rm.rows[r]
      /\ \A r \in T : /\ r \in Row /\ ops[r] \in OpType
                      /\ new.rows[r] = [apply_op(rm.rows[r], ops[r]) EXCEPT !.seq = rm.seq + 1]
  BY <1>1, BatchParts
<1>3. f = [t |-> "rows", seq |-> new.seq, rows |-> [r \in T |-> new.rows[r]]]
  BY DEF RowsFrame
<1>4. /\ f.t = "rows" /\ DOMAIN f.rows = T
      /\ \A r \in T : f.rows[r] = new.rows[r]
  BY <1>3
<1>5. f \in DownType
  BY PushGood DEF DownType
<1>6. new.gcFloor = rm.gcFloor
  BY <1>1 DEF applyPushBatch, RoomType
<1> HIDE DEF new, T, f
<1>7. \A r \in T : new.rows[r] # Absent
  <2> SUFFICES ASSUME NEW r \in T PROVE new.rows[r] # Absent
    OBVIOUS
  <2>1. apply_op(rm.rows[r], ops[r]) \in RowType
    BY <1>1, <1>2, ApplyAdvances
  <2>2. new.rows[r].seq = rm.seq + 1
    BY <1>2, <2>1 DEF RowType
  <2>3. QED
    BY <1>1, <2>2, AbsentType
<1>8. QED
  BY <1>2, <1>4, <1>5, <1>6, <1>7 DEF new, T, f

\* The room takes a push, and broadcasts what changed to a session it greeted.
LEMMA PushMirror ==
    ASSUME NEW rm, GoodRoom(rm), NEW ops \in Ops, NEW c, NEW k,
           NEW dn \in Seq(DownType), NEW u, NEW s, NEW n, Mirror(c, k, dn, u, s, n, rm),
           NEW dn2, dn2 = IF Greeted(u, s) /\ Touched(rm, ops) # {}
                          THEN Append(dn, RowsFrame(rm, ops)) ELSE dn
    PROVE  Mirror(c, k, dn2, u, s, n, applyPushBatch(rm, ops))
<1> DEFINE new == applyPushBatch(rm, ops)
           T == Touched(rm, ops)
           f == RowsFrame(rm, ops)
<1>1. /\ new.gcFloor = rm.gcFloor
      /\ f \in DownType /\ f.t = "rows" /\ DOMAIN f.rows = T
      /\ \A r \in T : r \in Row /\ f.rows[r] = new.rows[r] /\ new.rows[r] # Absent
      /\ \A r \in Row : r \notin T => new.rows[r] = rm.rows[r]
  BY PushRows
<1>2. dn2 = IF Greeted(u, s) /\ T # {} THEN Append(dn, f) ELSE dn
  OBVIOUS
<1>3. /\ Len(dn) \in Nat
      /\ \A i \in DOMAIN dn : Append(dn, f)[i] = dn[i] /\ i <= Len(dn)
      /\ \A i \in DOMAIN Append(dn, f) : i \in DOMAIN dn \/ (i = Len(dn) + 1 /\ Append(dn, f)[i] = f)
  BY <1>1, AppendParts
<1> HIDE DEF new, T, f
<1>4. \A r \in Row : new.rows[r] = Absent => rm.rows[r] = Absent
  BY <1>1
<1>5. GoneKnown(c, new) /\ GoneKnown(k, new)
  BY <1>1, <1>4 DEF Mirror, GoneKnown
<1>6. Framed(dn, s, c, new)
  <2>1. ASSUME NEW i \in DOMAIN dn, dn[i].t = "rows", NEW r \in DOMAIN dn[i].rows, new.rows[r] = Absent
        PROVE  dn[i].seq <= new.gcFloor
    <3>1. dn[i] \in DownType
      BY ElementOfSeq, LenProperties
    <3>2. r \in Row
      BY <2>1, <3>1 DEF DownType, StateType, RowsType, PartialTables
    <3>3. QED
      BY <1>1, <1>4, <2>1, <3>2 DEF Mirror, Framed
  <2>2. QED
    BY <2>1 DEF Mirror, Framed
<1>7. CASE ~(Greeted(u, s) /\ T # {})
  <2>1. dn2 = dn
    BY <1>2, <1>7
  <2>2. Greeted(u, s) => Faithful(c.auth, dn, new)
    <3>1. T = {} => \A r \in Row : new.rows[r] = rm.rows[r]
      BY <1>1
    <3>2. QED
      BY <1>7, <3>1 DEF Mirror, Faithful
  <2>3. QED
    BY <1>5, <1>6, <2>1, <2>2 DEF Mirror, new
<1>8. CASE Greeted(u, s) /\ T # {}
  <2>1. dn2 = Append(dn, f)
    BY <1>2, <1>8
  <2>2. Acked(c, Append(dn, f), n)
    BY <1>1, AckedAppend DEF Mirror
  <2>3. Framed(Append(dn, f), s, c, new)
    <3> DEFINE q == Append(dn, f)
    <3>1. ASSUME NEW i \in DOMAIN q
          PROVE  /\ q[i].t # "close"
                 /\ q[i].t = "state" =>
                       /\ s = "hello" => c.cursor <= q[i].seq
                       /\ \A j \in DOMAIN q : j < i => ~Counts(q[j])
                 /\ q[i].t = "rows" =>
                       \A r \in DOMAIN q[i].rows : new.rows[r] = Absent => q[i].seq <= new.gcFloor
      <4>1. CASE i \in DOMAIN dn
        <5>1. q[i] = dn[i] /\ i <= Len(dn)
          BY <1>3, <4>1
        <5>2. \A j \in DOMAIN q : j < i => j \in DOMAIN dn /\ q[j] = dn[j]
          BY <1>3, <4>1, <5>1
        <5>3. QED
          BY <1>6, <4>1, <5>1, <5>2 DEF Framed
      <4>2. CASE i = Len(dn) + 1 /\ q[i] = f
        BY <1>1, <4>2
      <4>3. QED
        BY <1>3, <4>1, <4>2
    <3>2. QED
      BY <3>1 DEF Framed
  <2>4. Faithful(c.auth, Append(dn, f), new)
    <3> SUFFICES ASSUME NEW r \in Row
                 PROVE  \E row \in RowType : /\ Sees(c.auth, Append(dn, f), Len(Append(dn, f)), r, row)
                                             /\ Matches(row, new.rows[r])
      BY DEF Faithful
    <3>1. CASE r \in T
      <4>1. Tells(f, r) /\ Told(f, r) = new.rows[r]
        BY <1>1, <3>1 DEF Tells, Told, Counts
      <4>2. Told(f, r) \in RowType
        BY <1>1, <4>1, ToldRow
      <4>3. QED
        BY <1>1, <4>1, <4>2, SeesAppend DEF Matches
    <3>2. CASE r \notin T
      <4>1. ~Tells(f, r)
        BY <1>1, <3>2 DEF Tells
      <4>2. PICK row \in RowType : Sees(c.auth, dn, Len(dn), r, row) /\ Matches(row, rm.rows[r])
        BY <1>8 DEF Mirror, Faithful
      <4>3. Sees(c.auth, Append(dn, f), Len(Append(dn, f)), r, row)
        BY <1>1, <4>1, <4>2, SeesAppend
      <4>4. QED
        BY <1>1, <3>2, <4>2, <4>3
    <3>3. QED
      BY <3>1, <3>2
  <2>5. QED
    BY <1>5, <2>1, <2>2, <2>3, <2>4 DEF Mirror, new
<1>9. QED
  BY <1>7, <1>8

\* A frame that numbers nothing and is no close is sent.
LEMMA PlainFaithful ==
    ASSUME NEW c, NEW dn \in Seq(DownType), NEW f \in DownType, ~Counts(f), f.t # "close",
           NEW s, NEW rm, Framed(dn, s, c, rm), Faithful(c.auth, dn, rm)
    PROVE  Framed(Append(dn, f), s, c, rm) /\ Faithful(c.auth, Append(dn, f), rm)
<1> DEFINE q == Append(dn, f)
<1>1. /\ Len(dn) \in Nat
      /\ \A i \in DOMAIN dn : q[i] = dn[i] /\ i <= Len(dn)
      /\ \A i \in DOMAIN q : i \in DOMAIN dn \/ (i = Len(dn) + 1 /\ q[i] = f)
  BY AppendParts
<1>2. \A r : ~Tells(f, r)
  BY DEF Tells
<1>3. \A r, row : Sees(c.auth, dn, Len(dn), r, row) => Sees(c.auth, q, Len(q), r, row)
  BY <1>2, SeesAppend
<1> HIDE DEF q
<1>4. Faithful(c.auth, q, rm)
  BY <1>3 DEF Faithful
<1>5. ASSUME NEW i \in DOMAIN q
      PROVE  /\ q[i].t # "close"
             /\ q[i].t = "state" =>
                   /\ s = "hello" => c.cursor <= q[i].seq
                   /\ \A j \in DOMAIN q : j < i => ~Counts(q[j])
             /\ q[i].t = "rows" =>
                   \A r \in DOMAIN q[i].rows : rm.rows[r] = Absent => q[i].seq <= rm.gcFloor
  <2>1. CASE i \in DOMAIN dn
    <3>1. q[i] = dn[i] /\ i <= Len(dn)
      BY <1>1, <2>1
    <3>2. \A j \in DOMAIN q : j < i => j \in DOMAIN dn /\ q[j] = dn[j]
      BY <1>1, <2>1, <3>1
    <3>3. QED
      BY <2>1, <3>1, <3>2 DEF Framed
  <2>2. CASE i = Len(dn) + 1 /\ q[i] = f
    BY <2>2 DEF Counts
  <2>3. QED
    BY <1>1, <2>1, <2>2
<1>6. Framed(q, s, c, rm)
  BY <1>5 DEF Framed
<1>7. QED
  BY <1>4, <1>6 DEF q

\* The room answers a push it has taken, behind the rows that changed.
LEMMA AckMirror ==
    ASSUME NEW rm, GoodRoom(rm), NEW c \in DocType, NEW k, NEW dn \in Seq(DownType),
           NEW u \in Seq(UpType), u # <<>>, Head(u).t = "push", NEW s, s # "down", NEW n,
           Mirror(c, k, dn, u, s, n, applyPushBatch(rm, Head(u).ops))
    PROVE  Mirror(c, k, Append(dn, [t |-> "ack", id |-> Head(u).id]), Tail(u), s, n,
                  applyPushBatch(rm, Head(u).ops))
<1> DEFINE ops == Head(u).ops
           new == applyPushBatch(rm, ops)
           f == [t |-> "ack", id |-> Head(u).id]
<1>1. /\ 1 \in DOMAIN u /\ Head(u) = u[1] /\ u[1] \in UpType
      /\ \A i \in DOMAIN Tail(u) : i + 1 \in DOMAIN u /\ Tail(u)[i] = u[i + 1]
  BY TailParts, ElementOfSeq, LenProperties
<1>2. Head(u).id \in Nat /\ ops \in Ops
  BY <1>1 DEF UpType
<1>3. f \in DownType /\ f.t = "ack" /\ f.id = Head(u).id
  BY <1>2 DEF DownType
<1>4. f.id <= n /\ Carries(c, f.id, ops)
  BY <1>1, <1>3 DEF Mirror, Queued
<1>5. Greeted(u, s)
  BY DEF Greeted
<1>6. new \in RoomType
  BY <1>2, PushGood DEF GoodRoom
<1>7. Mirror(c, k, dn, u, s, n, new) /\ Faithful(c.auth, dn, new)
  BY <1>5 DEF Mirror
<1>8. \A r \in DOMAIN ops : r \in Row /\ ops[r] \in OpType /\ apply_op(new.rows[r], ops[r]) = new.rows[r]
  BY <1>2, PushedNoop DEF Ops
<1> HIDE DEF ops, new, f
<1>9. ASSUME NEW i \in DOMAIN c.pending, c.pending[i].id = f.id
      PROVE  Absorbed(c.auth, Append(dn, f), Len(dn) + 1, c.pending[i].ops)
  <2>1. c.pending[i].ops = ops
    BY <1>4, <1>9 DEF Carries
  <2>2. Len(dn) \in Nat /\ Len(dn) \in 0..Len(dn) /\ (Len(dn) + 1) - 1 = Len(dn)
    BY LenProperties
  <2>3. ASSUME NEW r \in DOMAIN ops
        PROVE  \E row \in RowType : /\ Sees(c.auth, Append(dn, f), Len(dn), r, row)
                                    /\ apply_op(row, ops[r]) = row
    <3>1. PICK row \in RowType : Sees(c.auth, dn, Len(dn), r, row) /\ Matches(row, new.rows[r])
      BY <1>7, <1>8 DEF Faithful
    <3>2. apply_op(row, ops[r]) = row
      BY <1>8, <3>1, MatchNoop
    <3>3. Sees(c.auth, Append(dn, f), Len(dn), r, row)
      BY <1>3, <2>2, <3>1, SeesAppend
    <3>4. QED
      BY <3>2, <3>3
  <2>4. QED
    BY <2>1, <2>2, <2>3 DEF Absorbed
<1>10. Acked(c, Append(dn, f), n)
  BY <1>3, <1>4, <1>7, <1>9, AckedAppend DEF Mirror
<1>11. Framed(Append(dn, f), s, c, new) /\ Faithful(c.auth, Append(dn, f), new)
  BY <1>3, <1>7, PlainFaithful DEF Mirror, Counts
<1>12. Queued(c, Tail(u), n)
  BY <1>1, <1>7 DEF Mirror, Queued
<1>13. QED
  BY <1>7, <1>10, <1>11, <1>12 DEF Mirror, new, ops, f

\* What a purge does: the rows it takes were tombstones with numbers up to the
\* floor it leaves.
LEMMA PurgeRows ==
    ASSUME NEW rm, GoodRoom(rm), NEW horizon
    PROVE  LET new == PurgeTombstones(rm, horizon)
           IN  /\ rm.gcFloor \in Nat /\ new.gcFloor \in Nat /\ rm.gcFloor <= new.gcFloor
               /\ \A r \in Row :
                    \/ new.rows[r] = rm.rows[r]
                    \/ /\ new.rows[r] = Absent /\ rm.rows[r].deleted
                       /\ r \in Held(rm.rows) /\ rm.rows[r].seq <= new.gcFloor
<1> DEFINE new == PurgeTombstones(rm, horizon)
           gone == Purgeable(rm, horizon)
           seqs == {rm.rows[r].seq : r \in gone}
           all == {rm.gcFloor} \cup seqs
           table == [r \in Row |-> IF r \in gone THEN Absent ELSE rm.rows[r]]
<1>1. rm \in RoomType /\ rm.rows \in [Row -> RowType] /\ rm.gcFloor \in Nat
  BY DEF GoodRoom, RoomType
<1>2. gone \subseteq Row /\ \A r \in gone : r \in Held(rm.rows) /\ rm.rows[r].deleted
  BY DEF Purgeable, Held
<1>3. new.rows = table /\ new.gcFloor = Max(all)
  BY <1>1 DEF PurgeTombstones, RoomType
<1> HIDE DEF gone, new
<1>4. IsFiniteSet(seqs)
  <2> DEFINE f == [r \in gone |-> rm.rows[r].seq]
  <2>1. IsFiniteSet(gone)
    BY <1>2, TableAssumption, FS_Subset
  <2>2. IsFiniteSet({f[r] : r \in gone})
    BY <2>1, FiniteImage
  <2>3. {f[r] : r \in gone} = seqs
    OBVIOUS
  <2>4. QED
    BY <2>2, <2>3
<1>5. seqs \subseteq Nat
  BY <1>1, <1>2 DEF RowType
<1>6. \A r \in gone : rm.rows[r].seq \in seqs
  OBVIOUS
<1> HIDE DEF seqs
<1>7. IsFiniteSet(all) /\ all \in SUBSET Nat /\ all # {}
  BY <1>1, <1>4, <1>5, FS_Singleton, FS_Union
<1>8. rm.gcFloor \in all /\ \A x \in seqs : x \in all
  OBVIOUS
<1> HIDE DEF all
<1>9. Max(all) \in all /\ \A x \in all : x <= Max(all)
  BY <1>7, MaxIn
<1>10. \A r \in Row : IF r \in gone
                      THEN new.rows[r] = Absent /\ rm.rows[r].seq <= new.gcFloor
                      ELSE new.rows[r] = rm.rows[r]
  BY <1>3, <1>6, <1>8, <1>9
<1>11. new.gcFloor \in Nat /\ rm.gcFloor <= new.gcFloor
  BY <1>3, <1>7, <1>8, <1>9
<1>12. QED
  BY <1>1, <1>2, <1>10, <1>11 DEF new

\* A purge: the row a device holds of one purged is a tombstone.
LEMMA PurgeMirror ==
    ASSUME NEW rm, GoodRoom(rm), NEW horizon,
           NEW c, c.cursor \in Nat, Reflects(c, rm), NEW k, k.cursor \in Nat, Reflects(k, rm),
           NEW dn \in Seq(DownType), NEW u, NEW s, NEW n,
           WireOK(dn, u, s, c, rm), Mirror(c, k, dn, u, s, n, rm)
    PROVE  Mirror(c, k, dn, u, s, n, PurgeTombstones(rm, horizon))
<1> DEFINE new == PurgeTombstones(rm, horizon)
<1>1. /\ rm.gcFloor \in Nat /\ new.gcFloor \in Nat /\ rm.gcFloor <= new.gcFloor
      /\ \A r \in Row :
           \/ new.rows[r] = rm.rows[r]
           \/ /\ new.rows[r] = Absent /\ rm.rows[r].deleted
              /\ r \in Held(rm.rows) /\ rm.rows[r].seq <= new.gcFloor
  BY PurgeRows
<1>2. \A r \in Row : rm.rows[r].seq \in Nat
  BY RoomParts
<1> HIDE DEF new
<1>3. ASSUME NEW x, x.cursor \in Nat, Reflects(x, rm), GoneKnown(x, rm) PROVE GoneKnown(x, new)
  <2> SUFFICES ASSUME new.gcFloor <= x.cursor, NEW r \in Row, new.rows[r] = Absent
               PROVE  x.auth[r].deleted
    BY DEF GoneKnown
  <2>1. CASE rm.rows[r] = Absent
    BY <1>1, <1>3, <2>1 DEF GoneKnown
  <2>2. CASE rm.rows[r] # Absent
    <3>1. rm.rows[r].deleted /\ r \in Held(rm.rows) /\ rm.rows[r].seq <= x.cursor
      BY <1>1, <1>2, <1>3, <2>2
    <3>2. QED
      BY <1>3, <3>1 DEF Reflects
  <2>3. QED
    BY <2>1, <2>2
<1>4. Framed(dn, s, c, new)
  <2>1. ASSUME NEW i \in DOMAIN dn, dn[i].t = "rows", NEW r \in DOMAIN dn[i].rows, new.rows[r] = Absent
        PROVE  dn[i].seq <= new.gcFloor
    <3>1. dn[i] \in DownType
      BY ElementOfSeq, LenProperties
    <3>2. r \in Row /\ dn[i].seq \in Nat
      BY <2>1, <3>1 DEF DownType, StateType, RowsType, PartialTables
    <3>3. CASE rm.rows[r] = Absent
      <4>1. dn[i].seq <= rm.gcFloor
        BY <2>1, <3>3 DEF Mirror, Framed
      <4>2. QED
        BY <1>1, <3>2, <4>1
    <3>4. CASE rm.rows[r] # Absent
      <4>1. r \in Held(rm.rows) /\ rm.rows[r].seq <= new.gcFloor
        BY <1>1, <2>1, <3>2, <3>4
      <4>2. dn[i].seq <= rm.rows[r].seq
        BY <2>1, <4>1 DEF WireOK, Fits, RowsCurrent
      <4>3. QED
        BY <1>1, <1>2, <3>2, <4>1, <4>2
    <3>5. QED
      BY <3>3, <3>4
  <2>2. QED
    BY <2>1 DEF Mirror, Framed
<1>5. Faithful(c.auth, dn, rm) => Faithful(c.auth, dn, new)
  <2>1. \A row : \A r \in Row : Matches(row, rm.rows[r]) => Matches(row, new.rows[r])
    BY <1>1 DEF Matches
  <2>2. QED
    BY <2>1 DEF Faithful
<1>6. QED
  BY <1>3, <1>4, <1>5 DEF Mirror, new

\* The answer to a hello brings every row the document does not hold.
LEMMA HelloMirror ==
    ASSUME NEW rm, GoodRoom(rm), NEW c \in DocType, c.cursor \in Nat, Reflects(c, rm),
           NEW k, NEW dn \in Seq(DownType),
           NEW u \in Seq(UpType), u # <<>>, Head(u).t = "hello", NEW s, NEW n,
           WireOK(dn, u, s, c, rm), Mirror(c, k, dn, u, s, n, rm)
    PROVE  Mirror(c, k, Append(dn, StateFrame(rm, Head(u).cursor)), Tail(u), s, n, rm)
<1>1. /\ 1 \in DOMAIN u /\ Head(u) = u[1]
      /\ \A i \in DOMAIN Tail(u) : i + 1 \in DOMAIN u /\ Tail(u)[i] = u[i + 1]
  BY TailParts
<1>2. Head(u).cursor = c.cursor /\ \A j \in DOMAIN dn : ~Counts(dn[j])
  BY <1>1 DEF WireOK
<1> DEFINE f == StateFrame(rm, c.cursor)
           full == c.cursor < rm.gcFloor \/ c.cursor > rm.seq
           S == {x \in Held(rm.rows) : full \/ rm.rows[x].seq > c.cursor}
           q == Append(dn, f)
<1>3. f = [t |-> "state", seq |-> rm.seq, full |-> full, rows |-> [r \in S |-> rm.rows[r]]]
  BY DEF StateFrame
<1>4. /\ f.t = "state" /\ f.seq = rm.seq /\ f.full = full /\ DOMAIN f.rows = S
      /\ \A r \in S : f.rows[r] = rm.rows[r]
  BY <1>3
<1>5. f \in DownType
  BY StateFrameType DEF DownType
<1>6. rm.seq \in Nat /\ rm.gcFloor \in Nat /\ rm.rows \in Tables /\ c.auth \in Tables
  BY DEF GoodRoom, RoomType, Tables, DocType
<1>7. c.cursor <= rm.seq
  BY DEF Reflects
<1>8. \A r : r \in S <=> r \in Row /\ rm.rows[r] # Absent /\ (full \/ rm.rows[r].seq > c.cursor)
  BY DEF Held
<1> HIDE DEF f, S
<1>9. Acked(c, q, n)
  BY <1>4, <1>5, AckedAppend DEF Mirror
<1>10. /\ Len(dn) \in Nat
       /\ \A i \in DOMAIN dn : q[i] = dn[i] /\ i <= Len(dn)
       /\ \A i \in DOMAIN q : i \in DOMAIN dn \/ (i = Len(dn) + 1 /\ q[i] = f)
  BY <1>5, AppendParts
<1>11. Framed(q, s, c, rm)
  <2> HIDE DEF q
  <2> SUFFICES ASSUME NEW i \in DOMAIN q
               PROVE  /\ q[i].t # "close"
                      /\ q[i].t = "state" =>
                            /\ s = "hello" => c.cursor <= q[i].seq
                            /\ \A j \in DOMAIN q : j < i => ~Counts(q[j])
                      /\ q[i].t = "rows" =>
                            \A r \in DOMAIN q[i].rows : rm.rows[r] = Absent => q[i].seq <= rm.gcFloor
    BY DEF Framed
  <2>1. CASE i \in DOMAIN dn
    <3>1. q[i] = dn[i] /\ dn[i].t \notin {"state", "rows"}
      BY <1>2, <1>10, <2>1 DEF Counts
    <3>2. QED
      BY <2>1, <3>1 DEF Mirror, Framed
  <2>2. CASE i = Len(dn) + 1 /\ q[i] = f
    <3>1. \A j \in DOMAIN q : j < i => j \in DOMAIN dn /\ q[j] = dn[j]
      BY <1>10, <2>2
    <3>2. QED
      BY <1>2, <1>4, <1>7, <2>2, <3>1
  <2>3. QED
    BY <1>10, <2>1, <2>2
<1>12. ASSUME NEW r \in Row
       PROVE  \E row \in RowType : Sees(c.auth, q, Len(q), r, row) /\ Matches(row, rm.rows[r])
  <2>1. CASE Tells(f, r)
    <3>1. Told(f, r) \in RowType /\ Sees(c.auth, q, Len(q), r, Told(f, r))
      BY <1>5, <2>1, ToldRow, SeesAppend
    <3>2. Told(f, r) = rm.rows[r]
      BY <1>4, <1>8, <2>1 DEF Told, Tells
    <3>3. QED
      BY <3>1, <3>2 DEF Matches
  <2>2. CASE ~Tells(f, r)
    <3>1. ~full /\ r \notin S
      BY <1>4, <2>2 DEF Tells, Counts
    <3>2. c.auth[r] \in RowType /\ rm.rows[r].seq \in Nat
      BY <1>6 DEF Tables, RowType
    <3>3. \A i \in DOMAIN dn : ~Tells(dn[i], r)
      BY <1>2 DEF Tells
    <3>4. Sees(c.auth, dn, Len(dn), r, c.auth[r])
      BY <3>3 DEF Sees
    <3>5. Sees(c.auth, q, Len(q), r, c.auth[r])
      BY <1>5, <2>2, <3>4, SeesAppend
    <3>6. CASE rm.rows[r] = Absent
      <4>1. rm.gcFloor <= c.cursor
        BY <1>6, <3>1
      <4>2. c.auth[r].deleted
        BY <3>6, <4>1 DEF Mirror, GoneKnown
      <4>3. QED
        BY <3>2, <3>5, <3>6, <4>2 DEF Matches
    <3>7. CASE rm.rows[r] # Absent
      <4>1. r \in Held(rm.rows) /\ rm.rows[r].seq <= c.cursor
        BY <1>8, <3>1, <3>2, <3>7 DEF Held
      <4>2. c.auth[r] = rm.rows[r]
        BY <4>1 DEF Reflects
      <4>3. QED
        BY <3>2, <3>5, <4>2 DEF Matches
    <3>8. QED
      BY <3>6, <3>7
  <2>3. QED
    BY <2>1, <2>2
<1>13. Faithful(c.auth, q, rm)
  BY <1>12 DEF Faithful
<1>14. Queued(c, Tail(u), n)
  BY <1>1 DEF Mirror, Queued
<1>15. QED
  BY <1>2, <1>9, <1>11, <1>13, <1>14 DEF Mirror, f

\* A new batch joins the queue: the others stay.
LEMMA Enqueued ==
    ASSUME NEW c \in DocType, NEW c2, NEW n \in Nat, NEW ops \in Ops,
           c2.pending = enqueue_ops(c.pending, n + 1, ops)
    PROVE  /\ Older(c2, c, n) /\ Ids(c.pending) \subseteq Ids(c2.pending)
<1> DEFINE p == c.pending
           b == [id |-> n + 1, ops |-> ops, in_flight |-> FALSE]
<1>1. p \in Queue /\ b \in BatchType
  BY DEF DocType, BatchType
<1>2. CASE DOMAIN ops = {}
  <2>1. c2.pending = p
    BY <1>2 DEF enqueue_ops
  <2>2. QED
    BY <2>1 DEF Older, Ids
<1>3. CASE DOMAIN ops # {}
  <2>1. c2.pending = Append(p, b)
    BY <1>3 DEF enqueue_ops
  <2>2. /\ \A i \in DOMAIN p : i \in DOMAIN c2.pending /\ c2.pending[i] = p[i]
        /\ \A i \in DOMAIN c2.pending : i \in DOMAIN p \/ (i = Len(p) + 1 /\ c2.pending[i] = b)
    BY <1>1, <2>1, AppendParts DEF Queue
  <2>3. b.id = n + 1 /\ n < b.id
    OBVIOUS
  <2> HIDE DEF b
  <2>4. Older(c2, c, n)
    BY <2>2, <2>3 DEF Older
  <2>5. Ids(p) \subseteq Ids(c2.pending)
    BY <2>2 DEF Ids
  <2>6. QED
    BY <2>4, <2>5
<1>4. QED
  BY <1>2, <1>3

\* What a step takes out of a device's queue would change nothing in the rows
\* the device holds after it.
Steady(d) ==
    \A x \in RetiredOps(d) : apply_op(doc'[d].auth[x[1]], x[2]) = doc'[d].auth[x[1]]

LEMMA KeptSteady ==
    ASSUME NEW d, Ids(doc[d].pending) \subseteq Ids(doc'[d].pending)
    PROVE  Steady(d)
<1>1. \A j \in DOMAIN doc[d].pending : doc[d].pending[j].id \in Ids(doc'[d].pending)
  BY DEF Ids
<1>2. RetiredOps(d) = {}
  BY <1>1 DEF RetiredOps
<1>3. QED
  BY <1>2 DEF Steady

LEMMA SameSteady ==
    ASSUME NEW d, doc'[d] = doc[d]
    PROVE  Steady(d)
BY KeptSteady

\* A step of one device that leaves the room alone.
LEMMA MirrorsLocally ==
    ASSUME NEW d \in Device, room' = room,
           \A e \in Device \ {d} :
              /\ doc'[e] = doc[e] /\ disk'[e] = disk[e] /\ sess'[e] = sess[e]
              /\ up'[e] = up[e] /\ down'[e] = down[e] /\ minted'[e] = minted[e],
           \A e \in Device : Mirrors(e), Mirrors(d)'
    PROVE  /\ \A e \in Device : Mirrors(e)'
           /\ \A e \in Device \ {d} : Steady(e)
           /\ Steady(d) => \A e \in Device : Steady(e)
<1>1. ASSUME NEW e \in Device, e # d PROVE Mirrors(e)' /\ Steady(e)
  <2>1. Mirrors(e) /\ doc'[e] = doc[e]
    BY <1>1
  <2>2. QED
    BY <1>1, <2>1, SameSteady DEF Mirrors
<1>2. QED
  BY <1>1

LEMMA WriteMirrors ==
    ASSUME Inv, \A e \in Device : Mirrors(e),
           NEW d \in Device, NEW w \in Writes, NEW hlc \in Clocks[d], Write(d, w, hlc)
    PROVE  \A e \in Device : Mirrors(e)' /\ Steady(e)
<1> DEFINE op == [op |-> w.op, set |-> w.set, nulls |-> w.nulls, hlc |-> hlc,
                  clocks |-> [f \in Field |-> hlc]]
           ops == [r \in w.rows |-> op]
           q == enqueue_ops(doc[d].pending, minted[d] + 1, ops)
           c == [doc[d] EXCEPT !.pending = q]
<1>1. /\ doc' = [doc EXCEPT ![d] = c] /\ minted' = [minted EXCEPT ![d] = minted[d] + 1]
      /\ UNCHANGED <<room, disk, sess, up, down>>
  BY DEF Write, Inv, Docs
<1>2. /\ doc[d] \in DocType /\ minted[d] \in Nat /\ minted[d] + 1 \in Nat /\ minted[d] <= minted[d] + 1
      /\ up[d] \in Seq(UpType) /\ down[d] \in Seq(DownType)
  BY DeviceParts DEF Inv, Docs
<1>3. c.pending = q /\ c.auth = doc[d].auth /\ c.cursor = doc[d].cursor
  <2> HIDE DEF q
  <2>1. QED
    BY <1>2 DEF DocType
<1>4. hlc \in Nat /\ w.set \subseteq Field /\ w.rows \subseteq Row
      /\ w.op \in {"upsert", "update", "delete"} /\ w.nulls \subseteq Field
  BY ClocksAssumption, WritesAssumption
<1>5. op \in OpType
  BY <1>4 DEF OpType
<1> HIDE DEF op
<1>6. ops \in Ops
  BY <1>4, <1>5 DEF Ops
<1> HIDE DEF ops
<1>7. Older(c, doc[d], minted[d]) /\ Ids(doc[d].pending) \subseteq Ids(c.pending)
  BY <1>2, <1>3, <1>6, Enqueued
<1> HIDE DEF c, q
<1>8. /\ doc'[d] = c /\ minted'[d] = minted[d] + 1
      /\ \A e \in Device \ {d} : doc'[e] = doc[e] /\ minted'[e] = minted[e]
  BY <1>1 DEF Inv, Docs
<1>9. Steady(d)
  BY <1>7, <1>8, KeptSteady
<1>10. Mirrors(d)'
  <2>1. Mirror(doc[d], disk[d], down[d], up[d], sess[d], minted[d], room)
    BY DEF Mirrors
  <2>2. Mirror(c, disk[d], down[d], up[d], sess[d], minted[d] + 1, room)
    BY <1>2, <1>3, <1>7, <2>1, QueueMirror
  <2>3. QED
    BY <1>1, <1>8, <2>2 DEF Mirrors
<1>11. QED
  BY <1>1, <1>8, <1>9, <1>10, MirrorsLocally

LEMMA SaveMirrors ==
    ASSUME Inv, \A e \in Device : Mirrors(e), NEW d \in Device, persist_snapshot(d)
    PROVE  \A e \in Device : Mirrors(e)' /\ Steady(e)
<1> DEFINE c == mark_disconnected(doc[d])
<1>1. disk' = [disk EXCEPT ![d] = c] /\ UNCHANGED <<room, doc, minted, sess, up, down>>
  BY DEF persist_snapshot
<1>2. c.auth = doc[d].auth /\ c.cursor = doc[d].cursor
  BY DeviceParts, FlightOnly DEF mark_disconnected
<1> HIDE DEF c
<1>3. disk'[d] = c /\ \A e \in Device \ {d} : disk'[e] = disk[e]
  BY <1>1 DEF Inv, Docs
<1>4. Mirrors(d)'
  <2>1. Mirror(doc[d], disk[d], down[d], up[d], sess[d], minted[d], room)
    BY DEF Mirrors
  <2>2. GoneKnown(c, room)
    BY <1>2, <2>1 DEF Mirror, GoneKnown
  <2>3. Mirror(doc[d], c, down[d], up[d], sess[d], minted[d], room)
    BY <2>1, <2>2 DEF Mirror
  <2>4. QED
    BY <1>1, <1>3, <2>3 DEF Mirrors
<1>5. Steady(d)
  BY <1>1, SameSteady
<1>6. QED
  BY <1>1, <1>3, <1>4, <1>5, MirrorsLocally

\* A session ends with a document that knows the purges its cursor has passed.
LEMMA EndMirrors ==
    ASSUME Inv, \A e \in Device : Mirrors(e), NEW d \in Device,
           NEW c \in DocType, EndSession(d, c), GoneKnown(c, room),
           Ids(doc[d].pending) \subseteq Ids(c.pending), UNCHANGED <<room, disk, minted>>
    PROVE  \A e \in Device : Mirrors(e)' /\ Steady(e)
<1> DEFINE c2 == mark_disconnected(c)
<1>1. /\ doc' = [doc EXCEPT ![d] = c2] /\ sess' = [sess EXCEPT ![d] = "down"]
      /\ up' = [up EXCEPT ![d] = <<>>] /\ down' = [down EXCEPT ![d] = <<>>]
  BY DEF EndSession
<1>2. /\ c2.auth = c.auth /\ c2.cursor = c.cursor
      /\ Ids(c2.pending) = Ids(c.pending)
  BY FlightOnly, FlightKept DEF mark_disconnected
<1> HIDE DEF c2
<1>3. /\ doc'[d] = c2 /\ up'[d] = <<>> /\ down'[d] = <<>> /\ sess'[d] = "down"
      /\ \A e \in Device \ {d} : /\ doc'[e] = doc[e] /\ sess'[e] = sess[e]
                                 /\ up'[e] = up[e] /\ down'[e] = down[e]
  BY <1>1 DEF Inv, Docs, Wires
<1>4. Mirrors(d)'
  <2>1. GoneKnown(c2, room)
    BY <1>2 DEF GoneKnown
  <2>2. GoneKnown(disk[d], room)
    BY DEF Mirrors, Mirror
  <2>3. Mirror(c2, disk[d], <<>>, <<>>, "down", minted[d], room)
    BY <2>1, <2>2, EmptyMirror
  <2>4. QED
    BY <1>3, <2>3 DEF Mirrors
<1>5. Steady(d)
  BY <1>2, <1>3, KeptSteady
<1>6. QED
  BY <1>3, <1>4, <1>5, MirrorsLocally

LEMMA DropMirrors ==
    ASSUME Inv, \A e \in Device : Mirrors(e), NEW d \in Device, Drop(d) \/ RecvClose(d)
    PROVE  \A e \in Device : Mirrors(e)' /\ Steady(e)
<1>1. EndSession(d, doc[d]) /\ UNCHANGED <<room, disk, minted>>
  BY DEF Drop, RecvClose
<1>2. doc[d] \in DocType
  BY DeviceParts
<1>3. GoneKnown(doc[d], room)
  BY DEF Mirrors, Mirror
<1>4. QED
  BY <1>1, <1>2, <1>3, EndMirrors

LEMMA CrashMirrors ==
    ASSUME Inv, \A e \in Device : Mirrors(e), NEW d \in Device, Crash(d)
    PROVE  \A e \in Device : Mirrors(e)'
<1>1. /\ doc' = [doc EXCEPT ![d] = disk[d]] /\ sess' = [sess EXCEPT ![d] = "down"]
      /\ up' = [up EXCEPT ![d] = <<>>] /\ down' = [down EXCEPT ![d] = <<>>]
      /\ UNCHANGED <<room, disk, minted>>
  BY DEF Crash
<1>2. /\ doc'[d] = disk[d] /\ up'[d] = <<>> /\ down'[d] = <<>> /\ sess'[d] = "down"
      /\ \A e \in Device \ {d} : /\ doc'[e] = doc[e] /\ sess'[e] = sess[e]
                                 /\ up'[e] = up[e] /\ down'[e] = down[e]
  BY <1>1 DEF Inv, Docs, Wires
<1>3. Mirrors(d)'
  <2>1. GoneKnown(disk[d], room)
    BY DEF Mirrors, Mirror
  <2>2. Mirror(disk[d], disk[d], <<>>, <<>>, "down", minted[d], room)
    BY <2>1, EmptyMirror
  <2>3. QED
    BY <1>1, <1>2, <2>2 DEF Mirrors
<1>4. QED
  BY <1>1, <1>2, <1>3, MirrorsLocally

LEMMA DialMirrors ==
    ASSUME Inv, \A e \in Device : Mirrors(e), NEW d \in Device, Dial(d)
    PROVE  \A e \in Device : Mirrors(e)' /\ Steady(e)
<1> DEFINE u == <<[t |-> "hello", cursor |-> doc[d].cursor]>>
<1>1. /\ sess[d] = "down" /\ sess' = [sess EXCEPT ![d] = "hello"]
      /\ up' = [up EXCEPT ![d] = u] /\ UNCHANGED <<room, doc, disk, minted, down>>
  BY DEF Dial
<1>2. down[d] = <<>>
  BY <1>1, DeviceParts
<1>3. DOMAIN u = {1} /\ u # <<>> /\ Head(u).t = "hello" /\ u[1].t = "hello"
  OBVIOUS
<1> HIDE DEF u
<1>4. /\ up'[d] = u /\ sess'[d] = "hello"
      /\ \A e \in Device \ {d} : sess'[e] = sess[e] /\ up'[e] = up[e]
  BY <1>1 DEF Inv, Wires
<1>5. Mirrors(d)'
  <2>1. GoneKnown(doc[d], room) /\ GoneKnown(disk[d], room)
    BY DEF Mirrors, Mirror
  <2>2. Queued(doc[d], u, minted[d]) /\ ~Greeted(u, "hello")
    BY <1>3 DEF Queued, Greeted
  <2>3. Acked(doc[d], <<>>, minted[d]) /\ Framed(<<>>, "hello", doc[d], room)
    BY DEF Acked, Framed
  <2>4. Mirror(doc[d], disk[d], <<>>, u, "hello", minted[d], room)
    BY <2>1, <2>2, <2>3 DEF Mirror
  <2>5. QED
    BY <1>1, <1>2, <1>4, <2>4 DEF Mirrors
<1>6. Steady(d)
  BY <1>1, SameSteady
<1>7. QED
  BY <1>1, <1>4, <1>5, <1>6, MirrorsLocally

\* Reading a state or a broadcast is taking what it tells.
LEMMA StateTold ==
    ASSUME NEW c \in DocType, NEW f \in StateType, c.cursor <= f.seq, NEW id, NEW r \in Row
    PROVE  apply_state(c, f, id).auth[r] = IF Tells(f, r) THEN Told(f, r) ELSE c.auth[r]
<1>1. f.t = "state" /\ Counts(f) /\ f.full \in BOOLEAN /\ f.seq \in Nat /\ c.cursor \in Nat
  BY DEF StateType, Counts, DocType
<1>2. f.seq >= c.cursor
  BY <1>1
<1>3. apply_state(c, f, id).auth =
        IF f.full THEN put_authoritative(EmptyDoc.auth, f.rows) ELSE put_authoritative(c.auth, f.rows)
  BY <1>2 DEF apply_state
<1>4. EmptyDoc.auth[r] = Absent
  BY DEF EmptyDoc
<1>5. QED
  BY <1>1, <1>3, <1>4, PutHeld DEF Tells, Told

LEMMA RowsTold ==
    ASSUME NEW c \in DocType, NEW f \in RowsType
    PROVE  /\ \A r \in Row : apply_rows(c, f).auth[r] = IF Tells(f, r) THEN Told(f, r) ELSE c.auth[r]
           /\ apply_rows(c, f).pending = c.pending
           /\ Gap(c, f) => apply_rows(c, f).cursor = c.cursor
<1>1. f.t = "rows" /\ Counts(f)
  BY DEF RowsType, Counts
<1> DEFINE rows == put_authoritative(c.auth, f.rows)
           k == IF Gap(c, f) THEN c.cursor ELSE Max({c.cursor, f.seq})
<1>2. apply_rows(c, f) = [c EXCEPT !.auth = rows, !.cursor = k]
  BY DEF apply_rows
<1>3. \A r \in Row : rows[r] = IF Tells(f, r) THEN Told(f, r) ELSE c.auth[r]
  BY <1>1, PutHeld DEF Tells, Told
<1>4. Gap(c, f) => k = c.cursor
  OBVIOUS
<1> HIDE DEF rows, k
<1>5. /\ apply_rows(c, f).auth = rows /\ apply_rows(c, f).pending = c.pending
      /\ apply_rows(c, f).cursor = k
  BY <1>2 DEF DocType
<1>6. QED
  BY <1>3, <1>4, <1>5

\* Behind a numbered frame at the head of a channel comes no state, and the
\* room had greeted the session before it.
LEMMA BehindNumbered ==
    ASSUME NEW dn \in Seq(DownType), dn # <<>>, Counts(Head(dn)),
           NEW u \in Seq(UpType), NEW s, s # "down", NEW c, NEW rm,
           WireOK(dn, u, s, c, rm), Framed(dn, s, c, rm)
    PROVE  /\ \A i \in DOMAIN Tail(dn) : Tail(dn)[i].t # "state"
           /\ Greeted(u, s)
<1>1. /\ 1 \in DOMAIN dn /\ Head(dn) = dn[1] /\ DOMAIN dn = 1..Len(dn) /\ Len(dn) \in Nat
      /\ DOMAIN Tail(dn) = 1..(Len(dn) - 1)
      /\ \A i \in DOMAIN Tail(dn) : i + 1 \in DOMAIN dn /\ Tail(dn)[i] = dn[i + 1]
  BY TailParts
<1>2. ASSUME NEW i \in DOMAIN Tail(dn), Tail(dn)[i].t = "state" PROVE FALSE
  <2>1. i + 1 \in DOMAIN dn /\ dn[i + 1].t = "state" /\ 1 < i + 1
    BY <1>1, <1>2
  <2>2. ~Counts(dn[1])
    BY <1>1, <2>1 DEF Framed
  <2>3. QED
    BY <1>1, <2>2
<1>3. ASSUME u # <<>>, Head(u).t = "hello" PROVE FALSE
  <2>1. 1 \in DOMAIN u /\ Head(u) = u[1]
    BY <1>3, TailParts
  <2>2. \A j \in DOMAIN dn : ~Counts(dn[j])
    BY <1>3, <2>1 DEF WireOK
  <2>3. QED
    BY <1>1, <2>2
<1>4. QED
  BY <1>2, <1>3 DEF Greeted

LEMMA RecvStateMirrors ==
    ASSUME Inv, \A e \in Device : Tracks(e), \A e \in Device : Mirrors(e),
           NEW d \in Device, RecvState(d)
    PROVE  \A e \in Device : Mirrors(e)' /\ Steady(e)
<1> DEFINE f == Head(down[d])
           c == apply_state(doc[d], f, minted[d] + 1)
           n == IF Reseeded(doc[d], f) = {} THEN minted[d] ELSE minted[d] + 1
           seeds == [r \in Reseeded(doc[d], f) |-> row_to_seed_op(doc[d].auth[r])]
           u == up[d] \o PushFrames(Pushable(c))
           c2 == take_pushable(c)
           q == Tail(down[d])
<1>1. /\ sess[d] = "hello" /\ down[d] # <<>> /\ f.t = "state"
      /\ doc' = [doc EXCEPT ![d] = c2] /\ up' = [up EXCEPT ![d] = u]
      /\ minted' = [minted EXCEPT ![d] = n]
      /\ down' = [down EXCEPT ![d] = q]
      /\ sess' = [sess EXCEPT ![d] = "joined"]
      /\ UNCHANGED <<room, disk>>
  BY DEF RecvState
<1>2. f \in StateType /\ Counts(f) /\ f.seq \in Nat
  BY <1>1, DownHead DEF Counts, StateType
<1>3. /\ doc[d] \in DocType /\ minted[d] \in Nat /\ up[d] \in Seq(UpType)
      /\ down[d] \in Seq(DownType) /\ doc[d].auth \in Tables /\ GoodRoom(room) /\ room.gcFloor \in Nat
  BY DeviceParts DEF Inv, Docs, DocType, GoodRoom, RoomType
<1>4. n \in Nat /\ minted[d] <= n /\ GoodDoc(c, n)
  BY <1>2, StateApplied
<1>5. c.pending = enqueue_ops(doc[d].pending, minted[d] + 1, seeds) /\ c.cursor = f.seq
  BY DEF apply_state
<1>6. seeds \in Ops
  <2>1. Reseeded(doc[d], f) \subseteq Row
    BY DEF Reseeded, Held
  <2>2. QED
    BY <1>3, <2>1, SeedsType
<1> HIDE DEF seeds, n
<1>7. Older(c, doc[d], minted[d]) /\ Ids(doc[d].pending) \subseteq Ids(c.pending)
  BY <1>3, <1>5, <1>6, Enqueued
<1>8. ASSUME NEW r \in Row
      PROVE  c.auth[r] = IF Tells(f, r) THEN Told(f, r) ELSE doc[d].auth[r]
  <2>1. 1 \in DOMAIN down[d] /\ f = down[d][1]
    BY <1>1, <1>3, TailParts
  <2>2. doc[d].cursor <= f.seq
    BY <1>1, <2>1 DEF Mirrors, Mirror, Framed
  <2>3. QED
    BY <1>2, <1>3, <2>2, StateTold
<1> HIDE DEF c
<1>9. /\ c2.auth = c.auth /\ c2.cursor = c.cursor /\ Kept(c2, c)
      /\ Ids(c2.pending) = Ids(c.pending) /\ GoodDoc(c2, n)
  BY <1>4, FlightOnly, FlightKept, MarkFlightGood DEF take_pushable, GoodDoc
<1>10. \A i \in DOMAIN u : (\E j \in DOMAIN up[d] : u[i] = up[d][j]) \/ UpFits(u[i], c2, n, room)
  BY <1>3, <1>4, PushesFit
<1> HIDE DEF c2, u, q
<1>11. /\ doc'[d] = c2 /\ up'[d] = u /\ minted'[d] = n /\ down'[d] = q /\ sess'[d] = "joined"
       /\ \A e \in Device \ {d} : /\ doc'[e] = doc[e] /\ minted'[e] = minted[e]
                                  /\ sess'[e] = sess[e] /\ up'[e] = up[e] /\ down'[e] = down[e]
  BY <1>1 DEF Inv, Docs, Wires
<1>12. Older(c2, doc[d], minted[d])
  BY <1>7, <1>9 DEF Older, Kept
<1>13. Steady(d)
  BY <1>7, <1>9, <1>11, KeptSteady
<1>14. Mirrors(d)'
  <2>1. /\ Mirror(doc[d], disk[d], down[d], up[d], sess[d], minted[d], room)
        /\ WireOK(down[d], up[d], sess[d], doc[d], room)
    BY DEF Mirrors, Tracks
  <2>2. Framed(down[d], sess[d], doc[d], room) /\ Acked(doc[d], down[d], minted[d])
    BY <2>1 DEF Mirror
  <2>3. (\A i \in DOMAIN q : q[i].t # "state") /\ Greeted(up[d], sess[d])
    BY <1>1, <1>2, <1>3, <2>1, <2>2, BehindNumbered DEF q
  <2>4. Faithful(doc[d].auth, down[d], room)
    BY <2>1, <2>3 DEF Mirror
  <2>5. c2 \in DocType /\ c2.pending \in Queue /\ c2.cursor \in Nat
    BY <1>9 DEF GoodDoc, DocType
  <2>6. \A r \in Row : c2.auth[r] = IF Tells(f, r) THEN Told(f, r) ELSE doc[d].auth[r]
    BY <1>8, <1>9
  <2>7. /\ Acked(c2, q, n) /\ Framed(q, "joined", c2, room)
        /\ Faithful(c2.auth, q, room)
    BY <1>1, <1>3, <1>4, <1>12, <2>2, <2>4, <2>5, <2>6, ReadMirror DEF q
  <2>8. WireOK(q, up[d], "joined", c2, room)
    BY <1>1, <1>2, <1>3, <1>5, <1>9, <2>1, NextWire DEF q
  <2>9. q \in Seq(DownType)
    BY <1>1, <1>3, TailParts DEF q
  <2>10. GoneKnown(c2, room)
    BY <1>3, <2>3, <2>5, <2>7, <2>8, <2>9, ReadGone
  <2>11. Queued(c2, u, n)
    <3>1. Queued(c2, up[d], n)
      BY <1>3, <1>4, <1>12, <2>1, QueuedKept DEF Mirror
    <3>2. QED
      BY <1>10, <3>1 DEF Queued, UpFits
  <2>12. Mirror(c2, disk[d], q, u, "joined", n, room)
    BY <2>1, <2>7, <2>10, <2>11 DEF Mirror
  <2>13. QED
    BY <1>1, <1>11, <2>12 DEF Mirrors
<1>15. QED
  BY <1>1, <1>11, <1>13, <1>14, MirrorsLocally

LEMMA RecvRowsMirrors ==
    ASSUME Inv, \A e \in Device : Tracks(e), \A e \in Device : Mirrors(e),
           NEW d \in Device, RecvRows(d)
    PROVE  \A e \in Device : Mirrors(e)' /\ Steady(e)
<1> DEFINE f == Head(down[d])
           c == apply_rows(doc[d], f)
           q == Tail(down[d])
<1>1. /\ sess[d] = "joined" /\ down[d] # <<>> /\ f.t = "rows"
      /\ UNCHANGED <<room, disk, minted>>
  BY DEF RecvRows
<1>2. f \in RowsType /\ Counts(f) /\ f.seq \in Nat
  BY <1>1, DownHead DEF Counts, RowsType
<1>3. /\ doc[d] \in DocType /\ doc[d].cursor \in Nat /\ minted[d] \in Nat /\ minted[d] <= minted[d]
      /\ up[d] \in Seq(UpType) /\ down[d] \in Seq(DownType) /\ GoodRoom(room) /\ room.gcFloor \in Nat
  BY DeviceParts DEF Inv, Docs, GoodRoom, RoomType
<1>4. c \in DocType /\ c.pending \in Queue /\ c.cursor \in Nat
  BY <1>2, DocOf, ApplyRowsGood DEF Inv, GoodDoc, DocType
<1>5. /\ \A r \in Row : c.auth[r] = IF Tells(f, r) THEN Told(f, r) ELSE doc[d].auth[r]
      /\ c.pending = doc[d].pending
      /\ Gap(doc[d], f) => c.cursor = doc[d].cursor
  BY <1>2, <1>3, RowsTold
<1>6. /\ Mirror(doc[d], disk[d], down[d], up[d], sess[d], minted[d], room)
      /\ WireOK(down[d], up[d], sess[d], doc[d], room)
      /\ Reflects(doc[d], room) /\ Fits(f, sess[d], doc[d], room)
      /\ 1 \in DOMAIN down[d] /\ f = down[d][1]
  BY <1>1, <1>3, HeadFits, TailParts DEF Mirrors, Tracks
<1>7. CASE Gap(doc[d], f)
  <2>1. EndSession(d, c)
    BY <1>7 DEF RecvRows
  <2>2. GoneKnown(c, room)
    <3> SUFFICES ASSUME room.gcFloor <= doc[d].cursor, NEW r \in Row, room.rows[r] = Absent
                 PROVE  c.auth[r].deleted
      BY <1>5, <1>7 DEF GoneKnown
    <3>1. doc[d].auth[r].deleted
      BY <1>6 DEF Mirror, GoneKnown
    <3>2. ~Tells(f, r)
      <4> SUFFICES ASSUME Tells(f, r) PROVE FALSE
        OBVIOUS
      <4>1. r \in DOMAIN f.rows
        BY <1>1 DEF Tells
      <4>2. f.seq <= room.gcFloor
        BY <1>1, <1>6, <4>1 DEF Mirror, Framed
      <4>3. doc[d].cursor < f.seq
        BY <1>1, <1>6 DEF Fits
      <4>4. QED
        BY <1>2, <1>3, <4>2, <4>3
    <3>3. QED
      BY <1>5, <3>1, <3>2
  <2>3. Ids(doc[d].pending) \subseteq Ids(c.pending)
    BY <1>5
  <2> HIDE DEF c
  <2>4. QED
    BY <1>1, <1>4, <2>1, <2>2, <2>3, EndMirrors
<1>8. CASE ~Gap(doc[d], f)
  <2>1. /\ doc' = [doc EXCEPT ![d] = c] /\ down' = [down EXCEPT ![d] = q]
        /\ UNCHANGED <<sess, up>>
    BY <1>8 DEF RecvRows
  <2>2. c.cursor = f.seq
    <3>1. f.seq <= room.seq /\ RowsCurrent(f, room) /\ doc[d].cursor < f.seq
      BY <1>1, <1>2, <1>6 DEF Fits
    <3>2. QED
      BY <1>2, <1>3, <1>6, <1>8, <3>1, RowsReflect
  <2> HIDE DEF c, q
  <2>3. /\ doc'[d] = c /\ down'[d] = q
        /\ \A e \in Device \ {d} : doc'[e] = doc[e] /\ down'[e] = down[e]
    BY <2>1 DEF Inv, Docs, Wires
  <2>4. Steady(d)
    BY <1>5, <2>3, KeptSteady
  <2>5. Older(c, doc[d], minted[d])
    BY <1>5 DEF Older
  <2>6. Mirrors(d)'
    <3>1. /\ Mirror(doc[d], disk[d], down[d], up[d], sess[d], minted[d], room)
          /\ WireOK(down[d], up[d], sess[d], doc[d], room)
      BY <1>6
    <3>2. Framed(down[d], sess[d], doc[d], room) /\ Acked(doc[d], down[d], minted[d])
      BY <3>1 DEF Mirror
    <3>3. (\A i \in DOMAIN q : q[i].t # "state") /\ Greeted(up[d], sess[d])
      BY <1>1, <1>2, <1>3, <3>1, <3>2, BehindNumbered DEF q
    <3>4. Faithful(doc[d].auth, down[d], room)
      BY <3>1, <3>3 DEF Mirror
    <3>5. /\ Acked(c, q, minted[d]) /\ Framed(q, "joined", c, room)
          /\ Faithful(c.auth, q, room)
      BY <1>1, <1>3, <1>4, <1>5, <2>5, <3>2, <3>4, ReadMirror DEF q
    <3>6. WireOK(q, up[d], "joined", c, room)
      BY <1>1, <1>2, <1>3, <2>2, <3>1, NextWire DEF q
    <3>7. q \in Seq(DownType)
      BY <1>1, <1>3, TailParts DEF q
    <3>8. GoneKnown(c, room)
      BY <1>3, <1>4, <3>3, <3>5, <3>6, <3>7, ReadGone
    <3>9. Queued(c, up[d], minted[d])
      BY <1>3, <2>5, <3>1, QueuedKept DEF Mirror
    <3>10. Mirror(c, disk[d], q, up[d], "joined", minted[d], room)
      BY <3>1, <3>5, <3>8, <3>9 DEF Mirror
    <3>11. QED
      BY <1>1, <2>1, <2>3, <3>10 DEF Mirrors
  <2>7. QED
    BY <1>1, <2>1, <2>3, <2>4, <2>6, MirrorsLocally
<1>9. QED
  BY <1>7, <1>8

\* Frames behind the others.
LEMMA LongerGreeted ==
    ASSUME NEW u \in Seq(UpType), NEW w \in Seq(UpType), NEW s, Greeted(u \o w, s)
    PROVE  Greeted(u, s)
<1> SUFFICES ASSUME u # <<>> PROVE Head(u).t # "hello"
  BY DEF Greeted
<1> DEFINE v == u \o w
<1>1. /\ v \in Seq(UpType) /\ Len(v) = Len(u) + Len(w)
      /\ \A i \in 1..(Len(u) + Len(w)) : v[i] = IF i <= Len(u) THEN u[i] ELSE w[i - Len(u)]
  BY ConcatProperties
<1>2. Len(u) \in Nat \ {0} /\ Len(w) \in Nat /\ Head(u) = u[1]
  BY TailParts, LenProperties
<1> HIDE DEF v
<1>3. v[1] = u[1] /\ Len(v) # 0
  BY <1>1, <1>2
<1>4. v # <<>>
  BY <1>3
<1>5. Head(v) = u[1]
  BY <1>1, <1>3, <1>4, TailParts
<1>6. QED
  BY <1>2, <1>4, <1>5 DEF Greeted, v

\* An ack retires its batch: the rows it changed are there already.
LEMMA RecvAckMirrors ==
    ASSUME Inv, \A e \in Device : Mirrors(e), NEW d \in Device, RecvAck(d)
    PROVE  \A e \in Device : Mirrors(e)' /\ Steady(e)
<1> DEFINE f == Head(down[d])
           c == ack_batch(doc[d], f.id)
           q == Tail(down[d])
<1>1. /\ sess[d] = "joined" /\ down[d] # <<>> /\ f.t = "ack"
      /\ doc' = [doc EXCEPT ![d] = c] /\ down' = [down EXCEPT ![d] = q]
      /\ UNCHANGED <<room, disk, minted, sess, up>>
  BY DEF RecvAck
<1>2. /\ doc[d] \in DocType /\ minted[d] \in Nat /\ minted[d] <= minted[d]
      /\ up[d] \in Seq(UpType) /\ down[d] \in Seq(DownType)
      /\ 1 \in DOMAIN down[d] /\ f = down[d][1]
  BY <1>1, DeviceParts, TailParts DEF Inv, Docs
<1>3. c \in DocType /\ c.pending \in Queue
  BY DocOf, AckGood DEF Inv, GoodDoc, DocType
<1>4. /\ c.auth = doc[d].auth /\ c.cursor = doc[d].cursor /\ Kept(c, doc[d])
      /\ \A i \in DOMAIN doc[d].pending :
            doc[d].pending[i].id # f.id => doc[d].pending[i].id \in Ids(c.pending)
  BY <1>2, AckOnly, AckKept
<1>5. Older(c, doc[d], minted[d])
  BY <1>4, KeptOlder
<1> HIDE DEF c, q
<1>6. /\ doc'[d] = c /\ down'[d] = q
      /\ \A e \in Device \ {d} : doc'[e] = doc[e] /\ down'[e] = down[e]
  BY <1>1 DEF Inv, Docs, Wires
<1>7. Steady(d)
  <2> SUFFICES ASSUME NEW j \in DOMAIN doc[d].pending, doc[d].pending[j].id \notin Ids(c.pending),
                      NEW r \in DOMAIN doc[d].pending[j].ops
               PROVE  apply_op(c.auth[r], doc[d].pending[j].ops[r]) = c.auth[r]
    BY <1>6 DEF Steady, RetiredOps
  <2>1. doc[d].pending[j].id = f.id
    BY <1>4
  <2>2. Absorbed(doc[d].auth, down[d], 1, doc[d].pending[j].ops)
    BY <1>1, <1>2, <2>1 DEF Mirrors, Mirror, Acked
  <2>3. PICK row \in RowType : /\ Sees(doc[d].auth, down[d], 0, r, row)
                               /\ apply_op(row, doc[d].pending[j].ops[r]) = row
    BY <2>2 DEF Absorbed
  <2>4. \A i \in DOMAIN down[d] : ~(i <= 0)
    BY <1>2, LenProperties
  <2>5. doc[d].auth[r] = row
    BY <2>3, <2>4 DEF Sees
  <2>6. QED
    BY <1>4, <2>3, <2>5
<1>8. Mirrors(d)'
  <2>1. Mirror(doc[d], disk[d], down[d], up[d], sess[d], minted[d], room)
    BY DEF Mirrors
  <2>2. \A r \in Row : c.auth[r] = IF Tells(f, r) THEN Told(f, r) ELSE doc[d].auth[r]
    BY <1>1, <1>4 DEF Tells, Counts
  <2>3. /\ Acked(c, q, minted[d]) /\ Framed(q, "joined", c, room)
        /\ Faithful(doc[d].auth, down[d], room) => Faithful(c.auth, q, room)
    BY <1>1, <1>2, <1>3, <1>5, <2>1, <2>2, ReadMirror DEF q, Mirror
  <2>4. Queued(c, up[d], minted[d])
    BY <1>2, <1>5, <2>1, QueuedKept DEF Mirror
  <2>5. GoneKnown(c, room)
    BY <1>4, <2>1 DEF Mirror, GoneKnown
  <2>6. Mirror(c, disk[d], q, up[d], "joined", minted[d], room)
    BY <1>1, <2>1, <2>3, <2>4, <2>5 DEF Mirror
  <2>7. QED
    BY <1>1, <1>6, <2>6 DEF Mirrors
<1>9. QED
  BY <1>1, <1>6, <1>7, <1>8, MirrorsLocally

LEMMA PushPendingMirrors ==
    ASSUME Inv, \A e \in Device : Mirrors(e), NEW d \in Device, push_pending(d)
    PROVE  \A e \in Device : Mirrors(e)' /\ Steady(e)
<1> DEFINE u == up[d] \o PushFrames(Pushable(doc[d]))
           c == take_pushable(doc[d])
<1>1. /\ sess[d] = "joined" /\ up' = [up EXCEPT ![d] = u] /\ doc' = [doc EXCEPT ![d] = c]
      /\ UNCHANGED <<room, disk, minted, sess, down>>
  BY DEF push_pending
<1>2. /\ doc[d] \in DocType /\ minted[d] \in Nat /\ minted[d] <= minted[d]
      /\ up[d] \in Seq(UpType) /\ down[d] \in Seq(DownType) /\ GoodDoc(doc[d], minted[d])
  BY DeviceParts, DocOf DEF Inv, Docs
<1>3. /\ c.auth = doc[d].auth /\ c.cursor = doc[d].cursor
      /\ Kept(c, doc[d]) /\ Ids(c.pending) = Ids(doc[d].pending)
  BY <1>2, FlightOnly, FlightKept DEF take_pushable
<1>4. Older(c, doc[d], minted[d])
  BY <1>3, KeptOlder
<1>5. \A i \in DOMAIN u : (\E j \in DOMAIN up[d] : u[i] = up[d][j]) \/ UpFits(u[i], c, minted[d], room)
  BY <1>2, PushesFit
<1>6. Greeted(u, "joined") => Greeted(up[d], "joined")
  BY <1>2, PushableType, PushFramesType, LongerGreeted
<1> HIDE DEF c, u
<1>7. /\ doc'[d] = c /\ up'[d] = u
      /\ \A e \in Device \ {d} : doc'[e] = doc[e] /\ up'[e] = up[e]
  BY <1>1 DEF Inv, Docs, Wires
<1>8. Steady(d)
  BY <1>3, <1>7, KeptSteady
<1>9. Mirrors(d)'
  <2>1. Mirror(doc[d], disk[d], down[d], up[d], sess[d], minted[d], room)
    BY DEF Mirrors
  <2>2. Mirror(c, disk[d], down[d], up[d], sess[d], minted[d], room)
    BY <1>2, <1>3, <1>4, <2>1, QueueMirror
  <2>3. Queued(c, u, minted[d])
    BY <1>5, <2>2 DEF Mirror, Queued, UpFits
  <2>4. Mirror(c, disk[d], down[d], u, sess[d], minted[d], room)
    BY <1>1, <1>6, <2>2, <2>3 DEF Mirror
  <2>5. QED
    BY <1>1, <1>7, <2>4 DEF Mirrors
<1>10. QED
  BY <1>1, <1>7, <1>8, <1>9, MirrorsLocally

LEMMA HelloMirrors ==
    ASSUME Inv, \A e \in Device : Tracks(e), \A e \in Device : Mirrors(e),
           NEW d \in Device, handleHello(d)
    PROVE  \A e \in Device : Mirrors(e)' /\ Steady(e)
<1> DEFINE q == Append(down[d], StateFrame(room, Head(up[d]).cursor))
<1>1. /\ up[d] # <<>> /\ Head(up[d]).t = "hello"
      /\ down' = [down EXCEPT ![d] = q] /\ up' = [up EXCEPT ![d] = Tail(up[d])]
      /\ UNCHANGED <<room, doc, disk, minted, sess>>
  BY DEF handleHello, clientVars
<1>2. Mirror(doc[d], disk[d], q, Tail(up[d]), sess[d], minted[d], room)
  <2>1. /\ Mirror(doc[d], disk[d], down[d], up[d], sess[d], minted[d], room)
        /\ WireOK(down[d], up[d], sess[d], doc[d], room) /\ Reflects(doc[d], room)
    BY DEF Mirrors, Tracks
  <2>2. QED
    BY <1>1, <2>1, DeviceParts, HelloMirror
<1> HIDE DEF q
<1>3. /\ down'[d] = q /\ up'[d] = Tail(up[d])
      /\ \A e \in Device \ {d} : down'[e] = down[e] /\ up'[e] = up[e]
  BY <1>1 DEF Inv, Wires
<1>4. Mirrors(d)'
  BY <1>1, <1>2, <1>3 DEF Mirrors
<1>5. Steady(d)
  BY <1>1, SameSteady
<1>6. QED
  BY <1>1, <1>3, <1>4, <1>5, MirrorsLocally

\* A push, by whatever road, as a socket hears of it.
LEMMA HeardMirror ==
    ASSUME Inv, NEW ops \in Ops, NEW e \in Device, Mirrors(e)
    PROVE  Mirror(doc[e], disk[e], Broadcast(ops)[e], up[e], sess[e], minted[e],
                  applyPushBatch(room, ops))
<1>1. Mirror(doc[e], disk[e], down[e], up[e], sess[e], minted[e], room)
  BY DEF Mirrors
<1>2. Ready(e) <=> Greeted(up[e], sess[e])
  BY <1>1, ReadyGreeted DEF Mirror
<1>3. Broadcast(ops)[e] = IF Greeted(up[e], sess[e]) /\ Touched(room, ops) # {}
                          THEN Append(down[e], RowsFrame(room, ops)) ELSE down[e]
  BY <1>2 DEF Broadcast
<1>4. GoodRoom(room) /\ down[e] \in Seq(DownType)
  BY DeviceParts
<1>5. QED
  BY <1>1, <1>3, <1>4, PushMirror

LEMMA OtherPushMirrors ==
    ASSUME Inv, \A e \in Device : Mirrors(e), NEW ops \in Ops,
           room' = applyPushBatch(room, ops), down' = Broadcast(ops),
           UNCHANGED <<doc, disk, minted, sess, up>>
    PROVE  \A e \in Device : Mirrors(e)' /\ Steady(e)
<1> SUFFICES ASSUME NEW e \in Device PROVE Mirrors(e)' /\ Steady(e)
  OBVIOUS
<1>1. Mirror(doc[e], disk[e], down'[e], up[e], sess[e], minted[e], room')
  BY HeardMirror
<1>2. Mirrors(e)'
  BY <1>1 DEF Mirrors
<1>3. QED
  BY <1>2, SameSteady

LEMMA LateMirrors ==
    ASSUME Inv, \A e \in Device : Mirrors(e), NEW ops \in late, handleLatePush(ops)
    PROVE  \A e \in Device : Mirrors(e)' /\ Steady(e)
<1>1. /\ ops \in Ops
      /\ room' = applyPushBatch(room, ops) /\ down' = Broadcast(ops)
      /\ UNCHANGED <<doc, disk, minted, sess, up>>
  BY DEF handleLatePush, clientVars, Inv
<1>2. QED
  BY <1>1, OtherPushMirrors

LEMMA PushMirrors ==
    ASSUME Inv, \A e \in Device : Mirrors(e), NEW d \in Device, handlePush(d)
    PROVE  \A e \in Device : Mirrors(e)' /\ Steady(e)
<1> DEFINE ops == Head(up[d]).ops
           ack == [t |-> "ack", id |-> Head(up[d]).id]
           b == Broadcast(ops)
           q == Append(b[d], ack)
           new == applyPushBatch(room, ops)
<1>1. /\ up[d] # <<>> /\ Head(up[d]).t = "push" /\ room' = new
      /\ down' = [b EXCEPT ![d] = q]
      /\ up' = [up EXCEPT ![d] = Tail(up[d])]
      /\ UNCHANGED <<doc, disk, minted, sess>>
  BY DEF handlePush, clientVars
<1>2. ops \in Ops /\ sess[d] # "down"
  BY <1>1, UpHead
<1>3. b \in [Device -> Seq(DownType)]
  BY <1>2, BroadcastType
<1>4. ASSUME NEW e \in Device
      PROVE  Mirror(doc[e], disk[e], b[e], up[e], sess[e], minted[e], new)
  BY <1>2, HeardMirror
<1>5. Mirror(doc[d], disk[d], q, Tail(up[d]), sess[d], minted[d], new)
  <2>1. Mirror(doc[d], disk[d], b[d], up[d], sess[d], minted[d], new)
    BY <1>4
  <2>2. /\ GoodRoom(room) /\ doc[d] \in DocType /\ b[d] \in Seq(DownType)
        /\ up[d] \in Seq(UpType)
    BY <1>3, DeviceParts
  <2> HIDE DEF b
  <2>3. QED
    BY <1>1, <1>2, <2>1, <2>2, AckMirror
<1> HIDE DEF ops, ack, b, q, new
<1>6. /\ down'[d] = q /\ up'[d] = Tail(up[d])
      /\ \A e \in Device \ {d} : down'[e] = b[e] /\ up'[e] = up[e]
  BY <1>1, <1>3 DEF Inv, Wires
<1>7. ASSUME NEW e \in Device PROVE Mirrors(e)'
  <2>1. CASE e = d
    BY <1>1, <1>5, <1>6, <2>1 DEF Mirrors
  <2>2. CASE e # d
    BY <1>1, <1>4, <1>6, <2>2 DEF Mirrors
  <2>3. QED
    BY <2>1, <2>2
<1>8. QED
  BY <1>1, <1>7, SameSteady

LEMMA AlarmMirrors ==
    ASSUME Inv, \A e \in Device : Tracks(e), \A e \in Device : Mirrors(e),
           NEW horizon, alarm(horizon)
    PROVE  \A e \in Device : Mirrors(e)' /\ Steady(e)
<1> DEFINE new == PurgeTombstones(room, horizon)
<1>1. room' = new /\ UNCHANGED <<doc, disk, minted, sess, up, down>>
  BY DEF alarm, clientVars
<1> SUFFICES ASSUME NEW e \in Device PROVE Mirrors(e)' /\ Steady(e)
  OBVIOUS
<1>2. /\ Reflects(doc[e], room) /\ Reflects(disk[e], room)
      /\ WireOK(down[e], up[e], sess[e], doc[e], room)
      /\ Mirror(doc[e], disk[e], down[e], up[e], sess[e], minted[e], room)
  BY DEF Tracks, Mirrors
<1>3. Mirror(doc[e], disk[e], down[e], up[e], sess[e], minted[e], new)
  BY <1>2, DeviceParts, PurgeMirror
<1> HIDE DEF new
<1>4. Mirrors(e)'
  BY <1>1, <1>3 DEF Mirrors
<1>5. QED
  BY <1>1, <1>4, SameSteady

\* What an HTTPS task does to the queue: only its acks take a batch out.
LEMMA HttpQueueMirrors ==
    ASSUME Inv, \A e \in Device : Mirrors(e),
           NEW d \in Device, HttpStart(d) \/ HttpAcked(d) \/ HttpPushFails(d)
    PROVE  \A e \in Device : Mirrors(e)' /\ (Steady(e) \/ HttpAcked(e))
<1>1. /\ UNCHANGED <<room, disk, minted, sess, up, down>>
      /\ doc'[d].auth = doc[d].auth /\ doc'[d].cursor = doc[d].cursor
      /\ \A e \in Device \ {d} : doc'[e] = doc[e]
  BY HttpQueue
<1>2. /\ doc \in [Device -> DocType] /\ doc[d] \in DocType /\ minted[d] \in Nat
      /\ minted[d] <= minted[d] /\ up[d] \in Seq(UpType) /\ down[d] \in Seq(DownType)
  BY DeviceParts DEF Inv, Docs
<1>3. Kept(doc'[d], doc[d]) /\ (Ids(doc'[d].pending) = Ids(doc[d].pending) \/ HttpAcked(d))
  <2>1. CASE HttpAcked(d)
    <3>1. doc'[d] = ack_batch(doc[d], Head(http[d].todo).id)
      BY <1>2, <2>1 DEF HttpAcked
    <3>2. QED
      BY <1>2, <2>1, <3>1, AckKept
  <2>2. CASE HttpStart(d) \/ HttpPushFails(d)
    <3>1. \E b \in BOOLEAN : doc'[d] = MarkFlight(doc[d], b)
      BY <1>2, <2>2 DEF HttpStart, HttpPushFails, take_pushable, mark_disconnected
    <3>2. QED
      BY <1>2, <3>1, FlightKept
  <2>3. QED
    BY <2>1, <2>2
<1>4. Mirrors(d)'
  <2>1. Mirror(doc[d], disk[d], down[d], up[d], sess[d], minted[d], room)
    BY DEF Mirrors
  <2>2. Older(doc'[d], doc[d], minted[d])
    BY <1>3, KeptOlder
  <2>3. Mirror(doc'[d], disk[d], down[d], up[d], sess[d], minted[d], room)
    BY <1>1, <1>2, <2>1, <2>2, QueueMirror
  <2>4. QED
    BY <1>1, <2>3 DEF Mirrors
<1>5. Steady(d) \/ HttpAcked(d)
  BY <1>3, KeptSteady
<1>6. QED
  BY <1>1, <1>4, <1>5, MirrorsLocally

\* A pull with no session open: its answer knows the purges it has passed.
LEMMA PulledMirrors ==
    ASSUME Inv, \A e \in Device : Mirrors(e), PullsAlone,
           NEW d \in Device, PullGone(d), HttpPulled(d)
    PROVE  \A e \in Device : Mirrors(e)' /\ Steady(e)
<1> DEFINE f == http[d].frame
           c == apply_state(doc[d], f, minted[d] + 1)
           n == IF Reseeded(doc[d], f) = {} THEN minted[d] ELSE minted[d] + 1
           seeds == [r \in Reseeded(doc[d], f) |-> row_to_seed_op(doc[d].auth[r])]
<1>1. /\ http[d].at = "answer" /\ doc' = [doc EXCEPT ![d] = c]
      /\ minted' = [minted EXCEPT ![d] = n]
      /\ UNCHANGED <<room, disk, sess, up, down>>
  BY DEF HttpPulled, Http
<1>2. sess[d] = "down" /\ up[d] = <<>> /\ down[d] = <<>>
  BY <1>1, DeviceParts DEF PullsAlone
<1>3. /\ f \in StateType /\ doc[d].cursor <= f.seq
      /\ room.gcFloor <= f.seq => \A r \in Row : room.rows[r] = Absent =>
            IF r \in DOMAIN f.rows THEN f.rows[r].deleted ELSE f.full \/ doc[d].auth[r].deleted
  BY <1>1, HttpParts DEF PullGone, AnswerGone
<1>4. /\ doc[d] \in DocType /\ minted[d] \in Nat /\ doc[d].auth \in Tables
  BY DeviceParts DEF Inv, Docs, DocType
<1>5. c.pending = enqueue_ops(doc[d].pending, minted[d] + 1, seeds) /\ c.cursor = f.seq
  BY DEF apply_state
<1>6. seeds \in Ops
  <2>1. Reseeded(doc[d], f) \subseteq Row
    BY DEF Reseeded, Held
  <2>2. QED
    BY <1>4, <2>1, SeedsType
<1> HIDE DEF seeds, n, f
<1>7. Ids(doc[d].pending) \subseteq Ids(c.pending)
  BY <1>4, <1>5, <1>6, Enqueued
<1>8. \A r \in Row : c.auth[r] = IF Tells(f, r) THEN Told(f, r) ELSE doc[d].auth[r]
  BY <1>3, <1>4, StateTold
<1> HIDE DEF c
<1>9. GoneKnown(c, room)
  <2> SUFFICES ASSUME room.gcFloor <= f.seq, NEW r \in Row, room.rows[r] = Absent
               PROVE  c.auth[r].deleted
    BY <1>5 DEF GoneKnown
  <2>1. IF r \in DOMAIN f.rows THEN f.rows[r].deleted ELSE f.full \/ doc[d].auth[r].deleted
    BY <1>3
  <2>2. f.t = "state" /\ Counts(f) /\ Absent.deleted
    BY <1>3 DEF StateType, Counts, Absent
  <2>3. QED
    BY <1>8, <2>1, <2>2 DEF Tells, Told
<1>10. /\ doc'[d] = c /\ minted'[d] = n
       /\ \A e \in Device \ {d} : doc'[e] = doc[e] /\ minted'[e] = minted[e]
  BY <1>1 DEF Inv, Docs
<1>11. Steady(d)
  BY <1>7, <1>10, KeptSteady
<1>12. Mirrors(d)'
  <2>1. GoneKnown(disk[d], room)
    BY DEF Mirrors, Mirror
  <2>2. Mirror(c, disk[d], <<>>, <<>>, "down", n, room)
    BY <1>9, <2>1, EmptyMirror
  <2>3. QED
    BY <1>1, <1>2, <1>10, <2>2 DEF Mirrors
<1>13. QED
  BY <1>1, <1>10, <1>11, <1>12, MirrorsLocally

LEMMA HttpMirrors ==
    ASSUME Inv, \A e \in Device : Mirrors(e), PullsAlone,
           NEW d \in Device, PullGone(d), HttpStep(d)
    PROVE  \A e \in Device : Mirrors(e)' /\ (Steady(e) \/ HttpAcked(e))
<1>1. CASE postPush(d)
  <2> DEFINE ops == Head(http[d].todo).ops
  <2>1. /\ http[d].at = "push" /\ http[d].todo # <<>>
        /\ room' = applyPushBatch(room, ops) /\ down' = Broadcast(ops)
        /\ UNCHANGED <<doc, disk, minted, sess, up>>
    BY <1>1 DEF postPush, Http
  <2>2. ops \in Ops
    BY <2>1, HttpParts, TodoHead
  <2> HIDE DEF ops
  <2>3. QED
    BY <2>1, <2>2, OtherPushMirrors
<1>2. CASE HttpPull(d) \/ getRows(d) \/ HttpPullFails(d) \/ DialFails(d)
  <2>1. UNCHANGED <<room, doc, disk, minted, sess, up, down>>
    BY <1>2 DEF HttpPull, getRows, HttpPullFails, DialFails
  <2>2. QED
    BY <2>1, SameSteady DEF Mirrors
<1>3. QED
  BY <1>1, <1>2, HttpQueueMirrors, PulledMirrors DEF HttpStep

LEMMA StepGone ==
    ASSUME Inv, \A e \in Device : Tracks(e) /\ Asked(e), \A e \in Device : Mirrors(e) /\ PullGone(e),
           PullsAlone, PullsAlone', [Next]_vars, ~reset
    PROVE  \A e \in Device : PullGone(e)'
<1> SUFFICES ASSUME NEW e \in Device, http'[e].at = "answer" PROVE PullGone(e)'
  BY DEF PullGone, AnswerGone
<1>1. GoodRoom(room) /\ room.gcFloor \in Nat /\ room.seq \in Nat /\ doc[e].cursor \in Nat
  BY DeviceParts DEF GoodRoom, RoomType
<1>2. CASE getRows(e)
  <2> DEFINE f == StateFrame(room, http[e].since)
  <2>1. /\ http[e].at = "ask" /\ doc' = doc /\ room' = room
        /\ http'[e] = [at |-> "answer", frame |-> f]
    BY <1>2 DEF getRows, Http, Inv
  <2>2. f = StateFrame(room, doc[e].cursor)
    BY <2>1 DEF Asked, Answers
  <2>3. /\ f.seq = room.seq /\ DOMAIN f.rows \subseteq Held(room.rows)
        /\ doc[e].cursor < room.gcFloor => f.full
    BY <1>1, <2>2, AnswerParts
  <2> HIDE DEF f
  <2>4. doc[e].cursor <= f.seq
    BY <2>3 DEF Tracks, Reflects
  <2>5. ASSUME NEW r \in Row, room.rows[r] = Absent, ~f.full
        PROVE  doc[e].auth[r].deleted
    <3>1. room.gcFloor <= doc[e].cursor
      BY <1>1, <2>3, <2>5
    <3>2. QED
      BY <2>5, <3>1 DEF Mirrors, Mirror, GoneKnown
  <2>6. \A r \in Row : room.rows[r] = Absent => r \notin DOMAIN f.rows
    BY <2>3 DEF Held, Absent
  <2>7. AnswerGone([at |-> "answer", frame |-> f], doc[e], room)
    BY <2>4, <2>5, <2>6 DEF AnswerGone
  <2>8. QED
    BY <2>1, <2>7 DEF PullGone
<1>3. CASE http'[e] = http[e] /\ doc'[e].auth = doc[e].auth /\ doc'[e].cursor = doc[e].cursor
  <2> DEFINE f == http[e].frame
  <2>1. /\ http[e].at = "answer" /\ f.seq \in Nat
        /\ StateCurrent(f, doc[e], room) /\ doc[e].cursor <= f.seq
        /\ room.gcFloor <= f.seq => \A r \in Row : room.rows[r] = Absent =>
              IF r \in DOMAIN f.rows THEN f.rows[r].deleted ELSE f.full \/ doc[e].auth[r].deleted
    BY <1>3, HttpParts DEF Asked, Answers, StateType, PullGone, AnswerGone
  <2> HIDE DEF f
  <2>2. /\ room'.gcFloor \in Nat /\ room.gcFloor <= room'.gcFloor
        /\ \A r \in Row : room'.rows[r] = Absent =>
              \/ room.rows[r] = Absent
              \/ /\ room.rows[r].deleted /\ r \in Held(room.rows)
                 /\ room.rows[r].seq <= room'.gcFloor
    <3> DEFINE Swept(new) ==
                 /\ new.gcFloor \in Nat /\ room.gcFloor <= new.gcFloor
                 /\ \A r \in Row : new.rows[r] = Absent =>
                       \/ room.rows[r] = Absent
                       \/ /\ room.rows[r].deleted /\ r \in Held(room.rows)
                          /\ room.rows[r].seq <= new.gcFloor
    <3>1. CASE room' = room
      BY <1>1, <3>1
    <3>2. ASSUME NEW ops \in Ops, room' = applyPushBatch(room, ops)
          PROVE  Swept(room')
      BY <1>1, <3>2, PushRows
    <3>3. ASSUME NEW horizon, room' = PurgeTombstones(room, horizon)
          PROVE  Swept(room')
      BY <1>1, <3>3, PurgeRows
    <3>4. QED
      BY <3>1, <3>2, <3>3, RoomMoves
  <2>3. ASSUME room'.gcFloor <= f.seq, NEW r \in Row, room'.rows[r] = Absent
        PROVE  IF r \in DOMAIN f.rows THEN f.rows[r].deleted ELSE f.full \/ doc[e].auth[r].deleted
    <3>1. room.gcFloor <= f.seq
      BY <1>1, <2>1, <2>2, <2>3
    <3>2. CASE room.rows[r] = Absent
      BY <2>1, <3>1, <3>2
    <3>3. CASE room.rows[r] # Absent
      <4>1. room.rows[r].deleted /\ r \in Held(room.rows) /\ room.rows[r].seq <= room'.gcFloor
        BY <2>2, <2>3, <3>3
      <4>2. room.rows[r].seq \in Nat
        BY <1>1, RoomParts
      <4>3. room.rows[r].seq <= f.seq
        BY <2>1, <2>2, <2>3, <4>1, <4>2
      <4>4. CASE r \in DOMAIN f.rows
        BY <2>1, <4>1, <4>3, <4>4 DEF StateCurrent
      <4>5. CASE r \notin DOMAIN f.rows
        <5>1. ~f.full => room.rows[r].seq <= doc[e].cursor
          BY <1>1, <2>1, <4>1, <4>2, <4>3, <4>5 DEF StateCurrent
        <5>2. ~f.full => doc[e].auth[r] = room.rows[r]
          BY <4>1, <5>1 DEF Tracks, Reflects
        <5>3. QED
          BY <4>1, <4>5, <5>2
      <4>6. QED
        BY <4>4, <4>5
    <3>4. QED
      BY <3>2, <3>3
  <2>4. QED
    BY <1>3, <2>1, <2>3 DEF PullGone, AnswerGone, f
<1>4. ~HttpPull(e)
  BY DEF HttpPull, Inv
<1>5. QED
  BY <1>2, <1>3, <1>4, TaskMoves

Loses == \E d \in Device : LoseFrame(d)

\* Every step but a reset or a lost frame keeps the mirrors, and takes out of a
\* queue, unless it is a crash or an HTTPS ack, only what would change nothing.
LEMMA StepMirrors ==
    ASSUME Inv, \A e \in Device : Tracks(e), \A e \in Device : Mirrors(e) /\ PullGone(e),
           PullsAlone, [Next]_vars, ~reset, ~Loses
    PROVE  /\ \A e \in Device : Mirrors(e)'
           /\ \/ \A e \in Device : Steady(e) \/ HttpAcked(e)
              \/ \E d \in Device : Crash(d)
<1>1. CASE UNCHANGED vars
  BY <1>1, SameSteady DEF vars, Mirrors
<1>2. ASSUME NEW d \in Device, HttpStep(d)
      PROVE  \A e \in Device : Mirrors(e)' /\ (Steady(e) \/ HttpAcked(e))
  BY <1>2, HttpMirrors
<1>3. ASSUME NEW d \in Device, Progress(d)
      PROVE  \A e \in Device : Mirrors(e)' /\ (Steady(e) \/ HttpAcked(e))
  BY <1>2, <1>3, DialMirrors, RecvStateMirrors, RecvRowsMirrors, RecvAckMirrors, DropMirrors,
     PushPendingMirrors, HelloMirrors, PushMirrors DEF Progress, HttpStep
<1>4. ASSUME NEW d \in Device,
             \/ \E w \in Writes, hlc \in Clocks[d] : Write(d, w, hlc)
             \/ persist_snapshot(d) \/ DialFails(d) \/ Drop(d) \/ LoseFrame(d)
             \/ HttpPushFails(d) \/ HttpPullFails(d)
      PROVE  \A e \in Device : Mirrors(e)' /\ (Steady(e) \/ HttpAcked(e))
  BY <1>2, <1>4, WriteMirrors, SaveMirrors, DropMirrors DEF HttpStep, Loses
<1>5. ASSUME NEW d \in Device, Crash(d)
      PROVE  \A e \in Device : Mirrors(e)'
  BY <1>5, CrashMirrors
<1>6. ASSUME NEW ops \in late, handleLatePush(ops)
      PROVE  \A e \in Device : Mirrors(e)' /\ Steady(e)
  BY <1>6, LateMirrors
<1>7. ASSUME NEW d \in Device, NEW hlc \in Clocks[d], alarm(hlc + 1)
      PROVE  \A e \in Device : Mirrors(e)' /\ Steady(e)
  BY <1>7, AlarmMirrors
<1>8. QED
  BY <1>1, <1>3, <1>4, <1>5, <1>6, <1>7 DEF Next, Step, RoomStep

LEMMA FlickerInit ==
    ASSUME Init PROVE FlickerInv
<1>1. left["lose"] <= Faults["lose"]
  BY FaultsAssumption DEF Init, FaultKinds
<1>2. ASSUME NEW d \in Device PROVE Mirrors(d)
  <2>1. /\ doc[d] = EmptyDoc /\ disk[d] = EmptyDoc /\ up[d] = <<>> /\ down[d] = <<>>
        /\ sess[d] = "down"
    BY DEF Init
  <2>2. GoneKnown(EmptyDoc, room)
    BY DEF GoneKnown, EmptyDoc, Absent
  <2>3. QED
    BY <2>1, <2>2, EmptyMirror DEF Mirrors
<1>3. \A d \in Device : PullGone(d)
  BY DEF Init, PullGone, AnswerGone, Idle
<1>4. QED
  BY <1>1, <1>2, <1>3 DEF FlickerInv

LEMMA FlickerNext ==
    ASSUME Inv, CursorInv, FlickerInv, PullsAlone, PullsAlone', [Next]_vars
    PROVE  FlickerInv'
<1>1. {"lose", "reset"} \subseteq FaultKinds \ {"any"}
  BY DEF FaultKinds
<1>2. left \in [FaultKinds -> Nat] /\ left' \in [FaultKinds -> Nat]
  BY StepInv DEF Inv
<1>3. /\ \A k \in {"lose", "reset"} : left[k] \in Nat /\ left'[k] \in Nat /\ Faults[k] \in Nat
      /\ \A k \in {"lose", "reset"} : left'[k] <= left[k]
      /\ reset => left'["reset"] < left["reset"]
  BY <1>1, <1>2, LeftStep, FaultsAssumption
<1>4. Loses => left'["lose"] < left["lose"]
  BY <1>1, <1>2, SpendLess DEF Loses, LoseFrame
<1>5. left["reset"] <= Faults["reset"] /\ left["lose"] <= Faults["lose"]
  BY DEF CursorInv, FlickerInv
<1>6. left'["lose"] <= Faults["lose"]
  BY <1>3, <1>5
<1>7. ASSUME ~Lost', ~Wiped' PROVE ~Lost /\ ~Wiped /\ ~reset /\ ~Loses
  BY <1>3, <1>4, <1>5, <1>7 DEF Lost, Wiped
<1>8. ASSUME ~Lost', ~Wiped' PROVE \A d \in Device : Mirrors(d)' /\ PullGone(d)'
  BY <1>7, <1>8, StepMirrors, StepGone DEF CursorInv, FlickerInv
<1>9. QED
  BY <1>6, <1>8 DEF FlickerInv

\* What a device displays does not flicker back when the socket acknowledges.
NoSocketFlicker ==
    [][left'["crash"] = left["crash"] /\ ~Lost /\ ~Wiped =>
         \A d \in Device : ~HttpAcked(d) => \A x \in RetiredOps(d) :
            apply_op(doc'[d].auth[x[1]], x[2]) = doc'[d].auth[x[1]]]_vars

\* "Rows go out BEFORE the ack" (handlePush of registry-room.ts; ack_batch): on
\* any device, whatever is dropped, late, pushed again on either road, saved and
\* taken up again, or purged, a step that retires an optimistic write finds
\* rows in which the write changes nothing, as long as no session is open while
\* a pull is under way.  An ack over HTTPS, which comes before the pull, a
\* broadcast lost on a socket that stays open, and a reset are the exceptions.
THEOREM SocketFlickerSafe == Spec /\ []PullsAlone => NoSocketFlicker
<1> DEFINE P == left'["crash"] = left["crash"] /\ ~Lost /\ ~Wiped =>
                  \A d \in Device : ~HttpAcked(d) => \A x \in RetiredOps(d) :
                     apply_op(doc'[d].auth[x[1]], x[2]) = doc'[d].auth[x[1]]
<1>1. Init => CursorInv /\ FlickerInv
  BY CursorInit, FlickerInit
<1>2. Inv /\ CursorInv /\ FlickerInv /\ PullsAlone /\ PullsAlone' /\ [Next]_vars
        => CursorInv' /\ FlickerInv'
  BY CursorStep, FlickerNext
<1>3. ASSUME Inv, CursorInv, FlickerInv, PullsAlone, [Next]_vars,
             left'["crash"] = left["crash"], ~Lost, ~Wiped
      PROVE  \A d \in Device : Steady(d) \/ HttpAcked(d)
  <2>1. \A e \in Device : ~Crash(e)
    <3>1. "crash" \in FaultKinds \ {"any"}
      BY DEF FaultKinds
    <3>2. left \in [FaultKinds -> Nat]
      BY <1>3 DEF Inv
    <3>3. QED
      BY <1>3, <3>1, <3>2, SpendParts DEF Crash
  <2>2. CASE reset \/ Loses
    <3>1. doc' = doc
      BY <2>2 DEF reset, Loses, LoseFrame, clientVars
    <3>2. QED
      BY <3>1, SameSteady
  <2>3. CASE ~reset /\ ~Loses
    BY <1>3, <2>1, <2>3, StepMirrors DEF CursorInv, FlickerInv
  <2>4. QED
    BY <2>2, <2>3
<1>4. Inv /\ CursorInv /\ FlickerInv /\ PullsAlone /\ [Next]_vars => [P]_vars
  BY <1>3 DEF Steady
<1>5. QED
  BY <1>1, <1>2, <1>4, InvAlways, PTL DEF Spec, NoSocketFlicker
=============================================================================
