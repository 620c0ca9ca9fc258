------------------------- MODULE MessageQueueProofs -------------------------
(***************************************************************************)
(* The message queue is safe for any rows, texts, editors, leases, command  *)
(* executors, lease lengths and bounds.                                     *)
(*                                                                         *)
(* The list operations are described by what they do to the set of items    *)
(* (Items) of a list whose ids are distinct; the invariants are about that   *)
(* set, so an action's proof never looks at positions.                      *)
(***************************************************************************)
EXTENDS MessageQueue, TLAPS, SequenceTheorems

Items(q) == {q[i] : i \in DOMAIN q}
Distinct(q) == \A i, j \in DOMAIN q : i # j => q[i].id # q[j].id

-----------------------------------------------------------------------------
(* Lists.                                                                  *)

\* The ids of a list are the ids of its items.
LEMMA IdsOfItems ==
    ASSUME NEW q
    PROVE  Ids(q) = {m.id : m \in Items(q)}
BY DEF Ids, Items

\* An id of the queue has one position.
LEMMA IndexOf ==
    ASSUME NEW r \in Ids(queue)
    PROVE  /\ index_of(r) \in DOMAIN queue /\ queue[index_of(r)].id = r
           /\ Item(r) \in Items(queue) /\ Item(r).id = r
BY DEF Ids, Items, index_of, Item

\* A list whose positions are those of another one, without repetition, has
\* distinct ids and those items.
LEMMA Renumbered ==
    ASSUME NEW p, NEW q, Distinct(q), NEW f \in [DOMAIN p -> DOMAIN q],
           \A k, l \in DOMAIN p : k # l => f[k] # f[l],
           \A k \in DOMAIN p : p[k] = q[f[k]]
    PROVE  Distinct(p) /\ Items(p) = {q[f[k]] : k \in DOMAIN p}
BY DEF Distinct, Items

\* RemoveAt drops one item and keeps the others.
LEMMA RemoveAtItems ==
    ASSUME NEW S, NEW q \in Seq(S), Distinct(q), NEW i \in DOMAIN q
    PROVE  /\ RemoveAt(q, i) \in Seq(S)
           /\ Len(RemoveAt(q, i)) = Len(q) - 1
           /\ Distinct(RemoveAt(q, i))
           /\ Items(RemoveAt(q, i)) = Items(q) \ {q[i]}
<1> DEFINE a == SubSeq(q, 1, i - 1)
           b == SubSeq(q, i + 1, Len(q))
           p == RemoveAt(q, i)
           f == [k \in DOMAIN p |-> IF k < i THEN k ELSE k + 1]
<1>0. Len(q) \in Nat /\ DOMAIN q = 1 .. Len(q) /\ i \in 1 .. Len(q)
  BY LenProperties
<1>1. a \in Seq(S) /\ Len(a) = i - 1 /\ \A k \in 1 .. (i - 1) : a[k] = q[k]
  <2>1. \A k \in 1 .. (i - 1) : q[k] \in S
    BY <1>0, ElementOfSeq
  <2>2. QED
    BY <1>0, <2>1, SubSeqProperties
<1>2. b \in Seq(S) /\ Len(b) = Len(q) - i /\ \A k \in 1 .. (Len(q) - i) : b[k] = q[i + k]
  <2>1. \A k \in (i + 1) .. Len(q) : q[k] \in S
    BY <1>0, ElementOfSeq
  <2>2. QED
    BY <1>0, <2>1, SubSeqProperties
<1>3. p = a \o b
  BY DEF RemoveAt
<1>4. /\ p \in Seq(S) /\ Len(p) = Len(q) - 1
      /\ \A k \in 1 .. (Len(q) - 1) : p[k] = IF k < i THEN a[k] ELSE b[k - (i - 1)]
  <2> HIDE DEF a, b, p
  <2>1. /\ p \in Seq(S) /\ Len(p) = Len(a) + Len(b)
        /\ \A k \in 1 .. Len(a) + Len(b) : p[k] = IF k <= Len(a) THEN a[k] ELSE b[k - Len(a)]
    BY <1>1, <1>2, <1>3, ConcatProperties
  <2>2. Len(a) + Len(b) = Len(q) - 1
    BY <1>0, <1>1, <1>2
  <2>3. \A k \in 1 .. (Len(q) - 1) : k < i <=> k <= Len(a)
    BY <1>0, <1>1
  <2>4. QED
    BY <1>1, <2>1, <2>2, <2>3
<1>5. DOMAIN p = 1 .. (Len(q) - 1)
  BY <1>0, <1>4, LenProperties
<1>6. \A k \in DOMAIN p : p[k] = q[f[k]] /\ f[k] \in DOMAIN q /\ f[k] # i
  <2> HIDE DEF a, b, p
  <2> SUFFICES ASSUME NEW k \in DOMAIN p
               PROVE  p[k] = q[f[k]] /\ f[k] \in DOMAIN q /\ f[k] # i
    OBVIOUS
  <2>1. CASE k < i
    BY <2>1, <1>0, <1>1, <1>4, <1>5
  <2>2. CASE k >= i
    <3>1. k - (i - 1) \in 1 .. (Len(q) - i) /\ i + (k - (i - 1)) = k + 1
      BY <2>2, <1>0, <1>5
    <3>2. QED
      BY <2>2, <3>1, <1>0, <1>2, <1>4, <1>5
  <2>3. QED
    BY <2>1, <2>2, <1>0, <1>5
<1>7. \A k, l \in DOMAIN p : k # l => f[k] # f[l]
  BY <1>0, <1>5
<1>8. \A j \in DOMAIN q \ {i} : \E k \in DOMAIN p : f[k] = j
  <2> SUFFICES ASSUME NEW j \in DOMAIN q \ {i}
               PROVE  \E k \in DOMAIN p : f[k] = j
    OBVIOUS
  <2> HIDE DEF p
  <2>1. CASE j < i
    BY <2>1, <1>0, <1>5
  <2>2. CASE j > i
    <3>1. j - 1 \in DOMAIN p /\ f[j - 1] = j
      BY <2>2, <1>0, <1>5
    <3>2. QED
      BY <3>1
  <2>3. QED
    BY <2>1, <2>2, <1>0
<1>9. Distinct(p) /\ Items(p) = {q[f[k]] : k \in DOMAIN p}
  <2> HIDE DEF p
  <2>1. f \in [DOMAIN p -> DOMAIN q]
    BY <1>6
  <2> HIDE DEF f
  <2>2. QED
    BY <1>6, <1>7, <2>1, Renumbered
<1>10. \A j \in DOMAIN q \ {i} : q[j] # q[i]
  BY DEF Distinct
<1>11. Items(p) = Items(q) \ {q[i]}
  <2> HIDE DEF p, f
  <2>1. QED
    BY <1>6, <1>8, <1>9, <1>10 DEF Items
<1>12. QED
  BY <1>4, <1>9, <1>11

\* InsertAt adds one item anywhere.
LEMMA InsertAtItems ==
    ASSUME NEW S, NEW q \in Seq(S), Distinct(q), NEW x \in S,
           NEW i \in 1 .. (Len(q) + 1), x.id \notin Ids(q)
    PROVE  /\ InsertAt(q, i, x) \in Seq(S)
           /\ Distinct(InsertAt(q, i, x))
           /\ Items(InsertAt(q, i, x)) = Items(q) \cup {x}
<1> DEFINE a == SubSeq(q, 1, i - 1)
           b == SubSeq(q, i, Len(q))
           p == InsertAt(q, i, x)
           At(k) == IF k < i THEN k ELSE k - 1
<1>0. Len(q) \in Nat /\ DOMAIN q = 1 .. Len(q)
  BY LenProperties
<1>1. a \in Seq(S) /\ Len(a) = i - 1 /\ \A k \in 1 .. (i - 1) : a[k] = q[k]
  <2>1. \A k \in 1 .. (i - 1) : q[k] \in S
    BY <1>0, ElementOfSeq
  <2>2. QED
    BY <1>0, <2>1, SubSeqProperties
<1>2. /\ b \in Seq(S) /\ Len(b) = Len(q) - i + 1
      /\ \A k \in 1 .. (Len(q) - i + 1) : b[k] = q[i + k - 1]
  <2>1. \A k \in i .. Len(q) : q[k] \in S
    BY <1>0, ElementOfSeq
  <2>2. QED
    BY <1>0, <2>1, SubSeqProperties
<1>3. p = (a \o <<x>>) \o b
  BY DEF InsertAt
<1>4. /\ a \o <<x>> \in Seq(S) /\ Len(a \o <<x>>) = i
      /\ \A k \in 1 .. i : (a \o <<x>>)[k] = IF k < i THEN a[k] ELSE x
  <2> HIDE DEF a
  <2>1. QED
    BY <1>1
<1>5. /\ p \in Seq(S) /\ Len(p) = Len(q) + 1
      /\ \A k \in 1 .. (Len(q) + 1) :
            p[k] = IF k < i THEN a[k] ELSE IF k = i THEN x ELSE b[k - i]
  <2> DEFINE c == a \o <<x>>
  <2>1. c \in Seq(S) /\ Len(c) = i /\ \A k \in 1 .. i : c[k] = IF k < i THEN a[k] ELSE x
    BY <1>4
  <2>2. p = c \o b
    BY <1>3
  <2> HIDE DEF a, b, c, p
  <2>3. /\ p \in Seq(S) /\ Len(p) = Len(q) + 1
        /\ \A k \in 1 .. (Len(q) + 1) : p[k] = IF k <= i THEN c[k] ELSE b[k - i]
    <3>1. /\ p \in Seq(S) /\ Len(p) = Len(c) + Len(b)
          /\ \A k \in 1 .. Len(c) + Len(b) :
                p[k] = IF k <= Len(c) THEN c[k] ELSE b[k - Len(c)]
      BY <1>2, <2>1, <2>2, ConcatProperties
    <3>2. Len(c) + Len(b) = Len(q) + 1
      BY <1>0, <1>2, <2>1
    <3>3. QED
      BY <2>1, <3>1, <3>2
  <2>4. QED
    BY <1>0, <2>1, <2>3
<1>6. DOMAIN p = 1 .. (Len(q) + 1)
  BY <1>0, <1>5, LenProperties
<1> HIDE DEF p
<1>7. /\ p[i] = x /\ i \in DOMAIN p
      /\ \A k \in DOMAIN p \ {i} : p[k] = q[At(k)] /\ At(k) \in DOMAIN q
  <2> HIDE DEF a, b
  <2>1. p[i] = x /\ i \in DOMAIN p
    BY <1>0, <1>5, <1>6
  <2>2. ASSUME NEW k \in DOMAIN p \ {i}
        PROVE  p[k] = q[At(k)] /\ At(k) \in DOMAIN q
    <3>1. CASE k < i
      BY <3>1, <1>0, <1>1, <1>5, <1>6
    <3>2. CASE k > i
      <4>1. k - i \in 1 .. (Len(q) - i + 1) /\ i + (k - i) - 1 = k - 1
        BY <3>2, <1>0, <1>6
      <4>2. p[k] = b[k - i]
        BY <3>2, <1>0, <1>5, <1>6
      <4>3. b[k - i] = q[k - 1]
        BY <4>1, <1>2
      <4>4. At(k) = k - 1 /\ k - 1 \in DOMAIN q
        BY <3>2, <1>0, <1>6
      <4>5. QED
        BY <4>2, <4>3, <4>4
    <3>3. QED
      BY <3>1, <3>2, <1>0, <1>6
  <2>3. QED
    BY <2>1, <2>2
<1>8. \A k, l \in DOMAIN p \ {i} : k # l => At(k) # At(l)
  BY <1>0, <1>6
<1>9. \A j \in DOMAIN q : \E k \in DOMAIN p \ {i} : At(k) = j
  <2> SUFFICES ASSUME NEW j \in DOMAIN q
               PROVE  \E k \in DOMAIN p \ {i} : At(k) = j
    OBVIOUS
  <2>1. CASE j < i
    BY <2>1, <1>0, <1>6
  <2>2. CASE j >= i
    <3>1. j + 1 \in DOMAIN p \ {i} /\ At(j + 1) = j
      BY <2>2, <1>0, <1>6
    <3>2. QED
      BY <3>1
  <2>3. QED
    BY <2>1, <2>2, <1>0
<1>10. \A j \in DOMAIN q : q[j].id # x.id
  BY DEF Ids
<1>11. Distinct(p)
  <2> HIDE DEF At
  <2>1. QED
    BY <1>7, <1>8, <1>10 DEF Distinct
<1>12. Items(p) = Items(q) \cup {x}
  <2> HIDE DEF At
  <2>1. QED
    BY <1>7, <1>9 DEF Items
<1>13. QED
  BY <1>5, <1>11, <1>12 DEF p

\* Appending and prepending an item with a new id.
Behind(q, x) == Append(q, x)
Before(q, x) == <<x>> \o q

LEMMA AddItems ==
    ASSUME NEW S, NEW q \in Seq(S), Distinct(q), NEW x \in S, x.id \notin Ids(q)
    PROVE  /\ Behind(q, x) \in Seq(S) /\ Before(q, x) \in Seq(S)
           /\ Distinct(Behind(q, x)) /\ Distinct(Before(q, x))
           /\ Items(Behind(q, x)) = Items(q) \cup {x}
           /\ Items(Before(q, x)) = Items(q) \cup {x}
<1>0. Len(q) \in Nat /\ DOMAIN q = 1 .. Len(q) /\ \A j \in DOMAIN q : q[j].id # x.id
  BY LenProperties DEF Ids
<1>1. Append(q, x) = InsertAt(q, Len(q) + 1, x)
  <2>1. SubSeq(q, 1, Len(q)) = q
    BY SubSeqFull
  <2>2. SubSeq(q, Len(q) + 1, Len(q)) = <<>>
    BY <1>0, SubSeqEmpty
  <2>3. /\ q \o <<x>> \in Seq(S) /\ (q \o <<x>>) \o <<>> = q \o <<x>>
        /\ q \o <<x>> = Append(q, x)
    OBVIOUS
  <2>4. Len(q) + 1 - 1 = Len(q)
    BY <1>0
  <2>5. QED
    BY <2>1, <2>2, <2>3, <2>4 DEF InsertAt
<1>2. <<x>> \o q = InsertAt(q, 1, x)
  <2>1. SubSeq(q, 1, Len(q)) = q
    BY SubSeqFull
  <2>2. SubSeq(q, 1, 1 - 1) = <<>>
    BY SubSeqEmpty
  <2>3. <<>> \o <<x>> = <<x>>
    OBVIOUS
  <2>4. QED
    BY <2>1, <2>2, <2>3 DEF InsertAt
<1>3. Len(q) + 1 \in 1 .. (Len(q) + 1) /\ 1 \in 1 .. (Len(q) + 1)
  BY <1>0
<1>4. /\ InsertAt(q, Len(q) + 1, x) \in Seq(S) /\ Distinct(InsertAt(q, Len(q) + 1, x))
      /\ Items(InsertAt(q, Len(q) + 1, x)) = Items(q) \cup {x}
  BY <1>3, InsertAtItems
<1>5. /\ InsertAt(q, 1, x) \in Seq(S) /\ Distinct(InsertAt(q, 1, x))
      /\ Items(InsertAt(q, 1, x)) = Items(q) \cup {x}
  BY <1>3, InsertAtItems
<1>6. QED
  BY <1>1, <1>2, <1>4, <1>5 DEF Behind, Before

\* Taking the head is removing the first item.
LEMMA TailItems ==
    ASSUME NEW S, NEW q \in Seq(S), Distinct(q), q # <<>>
    PROVE  /\ Tail(q) \in Seq(S) /\ Distinct(Tail(q))
           /\ Items(Tail(q)) = Items(q) \ {Head(q)}
           /\ Head(q) \in Items(q) /\ Head(q) \in S
<1>1. /\ Tail(q) \in Seq(S) /\ Len(Tail(q)) = Len(q) - 1 /\ 1 \in 1 .. Len(q) /\ Head(q) = q[1]
      /\ \A k \in 1 .. Len(Tail(q)) : Tail(q)[k] = q[k + 1] /\ k + 1 \in 2 .. Len(q)
  OBVIOUS
<1>2. \A j \in 2 .. Len(q) : j - 1 \in 1 .. Len(Tail(q)) /\ Tail(q)[j - 1] = q[j]
  BY <1>1
<1>3. Distinct(Tail(q))
  BY <1>1 DEF Distinct
<1>4. DOMAIN q = 1 .. Len(q) /\ DOMAIN Tail(q) = 1 .. Len(Tail(q))
  BY <1>1
<1>5. \A j \in 2 .. Len(q) : q[j] # q[1]
  BY <1>1, <1>4 DEF Distinct
<1>6. Items(q) = {q[1]} \cup {q[j] : j \in 2 .. Len(q)}
  BY <1>1, <1>4 DEF Items
<1>7. Items(Tail(q)) = {q[j] : j \in 2 .. Len(q)}
  <2>1. Items(Tail(q)) = {Tail(q)[k] : k \in 1 .. Len(Tail(q))}
    BY <1>4 DEF Items
  <2>2. QED
    BY <2>1, <1>1, <1>2
<1>8. Items(Tail(q)) = Items(q) \ {Head(q)}
  BY <1>1, <1>5, <1>6, <1>7
<1>9. Head(q) \in Items(q) /\ Head(q) \in S
  BY <1>1, <1>6
<1>10. QED
  BY <1>1, <1>3, <1>8, <1>9

-----------------------------------------------------------------------------
(* The invariant.                                                          *)

\* A client's lease id is its own and was handed out once.
LeasesHeld ==
    \A e \in Editor : edit[e] # NoEdit =>
        /\ edit[e].lease \in leases
        /\ \A f \in Editor \ {e} : edit[f] # NoEdit => edit[f].lease # edit[e].lease

\* The row of an unexpired edit was removed, or it is in the queue under
\* exactly the gate its editor was promised.
Promised(m, ed) ==
    /\ m.id = ed.id
    /\ m.gate.kind = "editing" /\ m.gate.lease = ed.lease /\ m.gate.until = ed.until

LiveEdits ==
    \A e \in Editor : edit[e] # NoEdit /\ edit[e].until > now =>
        \/ fate[edit[e].id] = "dropped"
        \/ \E m \in Items(queue) : Promised(m, edit[e])

QueueInv == TypeOK /\ EveryRowInOnePlace /\ LeasesHeld /\ LiveEdits

\* What the invariant says of the list.
LEMMA QueueShape ==
    ASSUME QueueInv
    PROVE  /\ queue \in Seq(RowType) /\ Distinct(queue) /\ DOMAIN queue = 1 .. Len(queue)
           /\ \A m \in Items(queue) : m \in RowType /\ m.id \in Ids(queue)
           /\ \A m, n \in Items(queue) : m.id = n.id => m = n
           /\ \A r \in Ids(queue) : r \in Row /\ fate[r] = "queued"
<1>1. queue \in Seq(RowType) /\ Distinct(queue)
  BY DEF QueueInv, TypeOK, EveryRowInOnePlace, Distinct
<1>2. DOMAIN queue = 1 .. Len(queue) /\ \A i \in DOMAIN queue : queue[i] \in RowType
  BY <1>1, LenProperties
<1>3. \A m \in Items(queue) : m \in RowType /\ m.id \in Ids(queue)
  BY <1>2 DEF Items, Ids
<1>4. \A m, n \in Items(queue) : m.id = n.id => m = n
  BY <1>1 DEF Items, Distinct
<1>5. \A r \in Ids(queue) : r \in Row /\ fate[r] = "queued"
  BY <1>2 DEF Ids, RowType, QueueInv, EveryRowInOnePlace
<1>6. QED
  BY <1>1, <1>2, <1>3, <1>4, <1>5

\* The row someone has taken was queued and is out of the list.
LEMMA TakenShape ==
    ASSUME QueueInv, taken # NothingTaken
    PROVE  /\ taken \in [row : RowType, was_paused : BOOLEAN]
           /\ taken.row.id \in Row \ Ids(queue)
           /\ fate[taken.row.id] = "queued"
BY DEF QueueInv, TypeOK, EveryRowInOnePlace, RowType

\* Taking a row out of the queue.
LEMMA Removing ==
    ASSUME QueueInv, NEW r \in Ids(queue)
    PROVE  /\ remove_queued(r) \in Seq(RowType) /\ Distinct(remove_queued(r))
           /\ Len(remove_queued(r)) = Len(queue) - 1
           /\ Items(remove_queued(r)) = Items(queue) \ {Item(r)}
           /\ Ids(remove_queued(r)) = Ids(queue) \ {r}
<1>1. /\ remove_queued(r) \in Seq(RowType) /\ Distinct(remove_queued(r))
      /\ Len(remove_queued(r)) = Len(queue) - 1
      /\ Items(remove_queued(r)) = Items(queue) \ {Item(r)}
  <2>1. queue \in Seq(RowType) /\ Distinct(queue) /\ index_of(r) \in DOMAIN queue
    BY QueueShape, IndexOf
  <2>2. QED
    BY <2>1, RemoveAtItems DEF remove_queued, Item
<1>2. Ids(remove_queued(r)) = {m.id : m \in Items(queue) \ {Item(r)}}
  BY <1>1, IdsOfItems
<1>3. Ids(queue) = {m.id : m \in Items(queue)}
  BY IdsOfItems
<1>4. Ids(remove_queued(r)) = Ids(queue) \ {r}
  BY <1>2, <1>3, QueueShape, IndexOf
<1>5. QED
  BY <1>1, <1>4

\* Putting another version of a row in its place.
Replaced(r, x) == [queue EXCEPT ![index_of(r)] = x]

LEMMA Replacing ==
    ASSUME QueueInv, NEW r \in Ids(queue), NEW x \in RowType, x.id = r
    PROVE  /\ Replaced(r, x) \in Seq(RowType) /\ Distinct(Replaced(r, x))
           /\ Items(Replaced(r, x)) = (Items(queue) \ {Item(r)}) \cup {x}
           /\ Ids(Replaced(r, x)) = Ids(queue)
<1>1. /\ Replaced(r, x) \in Seq(RowType) /\ Distinct(Replaced(r, x))
      /\ Items(Replaced(r, x)) = (Items(queue) \ {Item(r)}) \cup {x}
  <2>1. /\ queue \in Seq(RowType) /\ Distinct(queue) /\ index_of(r) \in DOMAIN queue
        /\ x.id = queue[index_of(r)].id
    BY QueueShape, IndexOf
  <2> DEFINE i == index_of(r)
  <2>2. Replaced(r, x) = [queue EXCEPT ![i] = x] /\ Item(r) = queue[i]
    BY DEF Replaced, Item
  <2> HIDE DEF i
  <2>3. queue \in Seq(RowType) /\ Distinct(queue) /\ i \in DOMAIN queue /\ x.id = queue[i].id
    BY <2>1 DEF i
  <2>4. QED
    BY <2>2, <2>3 DEF Distinct, Items
<1>2. Ids(Replaced(r, x)) = {m.id : m \in (Items(queue) \ {Item(r)}) \cup {x}}
  BY <1>1, IdsOfItems
<1>3. Ids(queue) = {m.id : m \in Items(queue)}
  BY IdsOfItems
<1>4. Ids(Replaced(r, x)) = Ids(queue)
  BY <1>2, <1>3, QueueShape, IndexOf
<1>5. QED
  BY <1>1, <1>4

\* The writes of queue.rs replace the row by one that differs in text or gate.
LEMMA Writes ==
    ASSUME QueueInv, NEW r \in Ids(queue), NEW t \in Text, NEW g \in GateType
    PROVE  /\ Item(r) \in RowType
           /\ set_queued_text(r, t) = Replaced(r, [Item(r) EXCEPT !.text = t])
           /\ set_queued_delivery_gate(r, g) = Replaced(r, [Item(r) EXCEPT !.gate = g])
           /\ finish_queued_edit(r, t) = Replaced(r, [Item(r) EXCEPT !.text = t, !.gate = Open])
           /\ [Item(r) EXCEPT !.text = t] \in RowType
           /\ [Item(r) EXCEPT !.gate = g] \in RowType
           /\ [Item(r) EXCEPT !.text = t, !.gate = Open] \in RowType
<1>1. Item(r) \in RowType /\ queue[index_of(r)] = Item(r) /\ index_of(r) \in DOMAIN queue
  BY QueueShape, IndexOf DEF Item
<1>2. Open \in GateType
  BY QueueAssumption DEF Open, Gate, GateType
<1>3. set_queued_text(r, t) = Replaced(r, [Item(r) EXCEPT !.text = t])
  BY <1>1 DEF set_queued_text, Replaced
<1>4. set_queued_delivery_gate(r, g) = Replaced(r, [Item(r) EXCEPT !.gate = g])
  BY <1>1 DEF set_queued_delivery_gate, Replaced
<1>5. finish_queued_edit(r, t) = Replaced(r, [Item(r) EXCEPT !.text = t, !.gate = Open])
  BY <1>1, QueueShape DEF finish_queued_edit, Replaced
<1>6. /\ [Item(r) EXCEPT !.text = t] \in RowType
      /\ [Item(r) EXCEPT !.gate = g] \in RowType
      /\ [Item(r) EXCEPT !.text = t, !.gate = Open] \in RowType
  BY <1>1, <1>2 DEF RowType
<1>7. QED
  BY <1>1, <1>3, <1>4, <1>5, <1>6

\* Steps that hand out no lease: editors keep their edit or drop it, and the
\* row of an edit that stays live is removed or keeps its gate.
EditsKept ==
    /\ \A e \in Editor : edit'[e] \in {NoEdit, edit[e]}
    /\ leases \subseteq leases' /\ now <= now'
    /\ \A r \in Row : fate[r] = "dropped" => fate'[r] = "dropped"
    /\ \A e \in Editor, m \in Items(queue) :
        edit'[e] # NoEdit /\ m.gate.until > now /\ Promised(m, edit[e])
        => \/ fate'[m.id] = "dropped"
           \/ \E n \in Items(queue') : n.id = m.id /\ n.gate = m.gate

LEMMA Preserved ==
    ASSUME QueueInv, TypeOK', EveryRowInOnePlace', EditsKept
    PROVE  QueueInv'
<1>1. LeasesHeld'
  BY DEF QueueInv, LeasesHeld, EditsKept
<1>2. LiveEdits'
  <2> SUFFICES ASSUME NEW e \in Editor, edit'[e] # NoEdit, edit'[e].until > now'
               PROVE  \/ fate'[edit'[e].id] = "dropped"
                      \/ \E m \in Items(queue') : Promised(m, edit'[e])
    BY DEF LiveEdits
  <2>1. edit'[e] = edit[e] /\ edit[e] # NoEdit
    BY DEF EditsKept
  <2>2. edit[e].id \in Row /\ edit[e].until > now
    BY <2>1 DEF QueueInv, TypeOK, EditType, EditsKept
  <2>3. CASE fate[edit[e].id] = "dropped"
    BY <2>1, <2>2, <2>3 DEF EditsKept
  <2>4. CASE \E m \in Items(queue) : Promised(m, edit[e])
    BY <2>1, <2>2, <2>4 DEF EditsKept, Promised
  <2>5. QED
    BY <2>1, <2>2, <2>3, <2>4 DEF QueueInv, LiveEdits
<1>3. QED
  BY <1>1, <1>2 DEF QueueInv

-----------------------------------------------------------------------------
(* Gates and timers.                                                       *)

\* The gate of a row under edit can be armed and can be put up for review.
LEMMA GateShape ==
    ASSUME QueueInv, NEW m \in Items(queue)
    PROVE  /\ m \in RowType /\ m.id \in Row /\ m.gate \in GateType
           /\ m.gate.kind # "none" => ReviewRequired(m.gate) \in GateType
           /\ m.gate.kind # "none" => Timer(m.id, m.gate) \in TimerType
<1>1. m \in RowType /\ m.id \in Row /\ m.gate \in GateType
  BY QueueShape DEF RowType
<1>2. QED
  BY <1>1, QueueAssumption DEF GateType, ReviewRequired, Gate, Timer, TimerType

\* A fresh lease starts a gate of its own.
LEMMA FreshGate ==
    ASSUME QueueInv, NEW l \in Lease, NEW t \in Text
    PROVE  /\ Gate("editing", l, now + LeaseTicks, t) \in GateType
           /\ now + LeaseTicks \in 0..(MaxTime + LeaseTicks)
BY QueueAssumption DEF QueueInv, TypeOK, Gate, GateType

-----------------------------------------------------------------------------
(* Writes without the lock.                                                *)

LEMMA InitInv == Init => QueueInv
<1> SUFFICES ASSUME Init PROVE QueueInv
  OBVIOUS
<1>1. TypeOK
  <2>1. queue \in Seq(RowType) /\ {paused, turn, wake, frozen} \subseteq BOOLEAN
    BY EmptySeq DEF Init
  <2>2. /\ lock \in {Free, "drain", "send", "steer"} \cup Executor
        /\ taken = NothingTaken
        /\ exec \in [Executor -> {"idle", "dispatched", "overtaken", "cancelling"}]
        /\ timers = {} /\ edit \in [Editor -> {NoEdit} \cup EditType]
    BY DEF Init, NothingTaken
  <2>3. /\ now \in 0..MaxTime /\ leases \subseteq Lease
        /\ fate \in [Row -> {"unborn", "queued", "sent", "dropped", "lost"}]
    BY QueueAssumption DEF Init
  <2>4. QED
    BY <2>1, <2>2, <2>3 DEF TypeOK
<1>2. EveryRowInOnePlace
  BY QueueAssumption DEF Init, EveryRowInOnePlace, Ids, NoRow
<1>3. LeasesHeld /\ LiveEdits
  BY DEF Init, LeasesHeld, LiveEdits
<1>4. QED
  BY <1>1, <1>2, <1>3 DEF QueueInv

LEMMA PushedInv ==
    ASSUME QueueInv, NEW r \in Row, NEW t \in Text, Pushed(r, t),
           UNCHANGED <<paused, turn, lock, taken, exec, timers, edit, now, leases,
                       frozen, left>>
    PROVE  QueueInv'
<1> DEFINE x == [id |-> r, text |-> t, gate |-> Open]
<1>1. x \in RowType /\ x.id = r
  BY QueueAssumption DEF RowType, Open, Gate, GateType
<1>2. r \notin Ids(queue) \cup {taken.row.id}
  BY DEF Pushed, QueueInv, EveryRowInOnePlace
<1>3. queue' = Append(queue, x) /\ wake' = TRUE /\ fate' = [fate EXCEPT ![r] = "queued"]
  BY DEF Pushed, Commit
<1>4. queue' \in Seq(RowType) /\ Distinct(queue') /\ Items(queue') = Items(queue) \cup {x}
  <2>1. queue \in Seq(RowType) /\ Distinct(queue) /\ x.id \notin Ids(queue)
    BY <1>1, <1>2, QueueShape
  <2> HIDE DEF x
  <2>2. QED
    <3>1. queue' = Behind(queue, x)
      BY <1>3 DEF Behind
    <3>2. QED
      BY <1>1, <2>1, <3>1, AddItems
<1>5. Ids(queue') = Ids(queue) \cup {r}
  BY <1>1, <1>4, IdsOfItems
<1>6. TypeOK'
  BY <1>3, <1>4 DEF QueueInv, TypeOK
<1>7. EveryRowInOnePlace'
  BY <1>2, <1>3, <1>4, <1>5 DEF QueueInv, TypeOK, EveryRowInOnePlace, Distinct
<1>8. EditsKept
  BY <1>3, <1>4, <1>2 DEF EditsKept, Pushed, QueueInv, TypeOK
<1>9. QED
  BY <1>6, <1>7, <1>8, Preserved

LEMMA QueueMessageInv ==
    ASSUME QueueInv, NEW r \in Row, NEW t \in Text, queue_message(r, t)
    PROVE  QueueInv'
BY PushedInv DEF queue_message

LEMMA HeldInv ==
    ASSUME QueueInv, NEW x \in Executor, NEW r \in Row, NEW t \in Text,
           held_until_turn_end(x, r, t)
    PROVE  QueueInv'
BY PushedInv DEF held_until_turn_end

\* A row leaves the queue for good: what the removals have in common.
LEMMA DroppedInv ==
    ASSUME QueueInv, NEW r \in Ids(queue), queue' = remove_queued(r),
           fate' = [fate EXCEPT ![r] = "dropped"], taken' = taken, TypeOK',
           \A e \in Editor : edit'[e] \in {NoEdit, edit[e]},
           UNCHANGED <<now, leases>>
    PROVE  QueueInv'
<1>1. /\ queue' \in Seq(RowType) /\ Distinct(queue')
      /\ Items(queue') = Items(queue) \ {Item(r)} /\ Ids(queue') = Ids(queue) \ {r}
  BY Removing
<1>2. r \in Row /\ r # taken.row.id
  BY QueueShape DEF QueueInv, EveryRowInOnePlace
<1>3. EveryRowInOnePlace'
  BY <1>1, <1>2 DEF QueueInv, TypeOK, EveryRowInOnePlace, Distinct
<1>4. \A m \in Items(queue) : m # Item(r) => m \in Items(queue')
  BY <1>1
<1>5. Item(r).id = r
  BY IndexOf
<1>6. EditsKept
  BY <1>2, <1>4, <1>5 DEF EditsKept, QueueInv, TypeOK
<1>7. QED
  BY <1>3, <1>6, Preserved

\* A row keeps its place and id: what the writes to one row have in common.
LEMMA ReplacedInv ==
    ASSUME QueueInv, NEW r \in Ids(queue), NEW x \in RowType, x.id = r,
           queue' = Replaced(r, x), UNCHANGED <<fate, taken, now, leases>>, TypeOK',
           \A e \in Editor : edit'[e] \in {NoEdit, edit[e]},
           \A e \in Editor :
              edit'[e] # NoEdit /\ Item(r).gate.until > now /\ Promised(Item(r), edit[e])
              => x.gate = Item(r).gate
    PROVE  QueueInv'
<1>1. /\ queue' \in Seq(RowType) /\ Distinct(queue')
      /\ Items(queue') = (Items(queue) \ {Item(r)}) \cup {x} /\ Ids(queue') = Ids(queue)
  BY Replacing
<1>2. EveryRowInOnePlace'
  BY <1>1 DEF QueueInv, EveryRowInOnePlace, Distinct
<1>3. Item(r).id = r
  BY IndexOf
<1>4. EditsKept
  BY <1>1, <1>3 DEF EditsKept, QueueInv, TypeOK
<1>5. QED
  BY <1>2, <1>4, Preserved

LEMMA UpdateInv ==
    ASSUME QueueInv, NEW r \in Row, NEW t \in Text, update_queued_message(r, t)
    PROVE  QueueInv'
<1>1. /\ r \in Ids(queue)
      /\ UNCHANGED <<paused, turn, lock, taken, exec, timers, edit, now, leases, frozen>>
      /\ wake' = TRUE
  BY DEF update_queued_message, Commit
<1>2. CASE queue' = set_queued_text(r, t) /\ UNCHANGED fate
  <2> DEFINE x == [Item(r) EXCEPT !.text = t]
  <2>1. x \in RowType /\ queue' = Replaced(r, x) /\ Item(r) \in RowType
    BY <1>1, <1>2, Writes, GateShape, IndexOf
  <2>2. x.id = r /\ x.gate = Item(r).gate
    BY <1>1, <2>1, IndexOf DEF RowType
  <2> HIDE DEF x
  <2>3. queue' \in Seq(RowType)
    BY <1>1, <2>1, <2>2, Replacing
  <2>4. TypeOK'
    BY <1>1, <1>2, <2>3 DEF QueueInv, TypeOK
  <2>5. QED
    BY <1>1, <1>2, <2>1, <2>2, <2>4, ReplacedInv
<1>3. CASE queue' = remove_queued(r) /\ fate' = [fate EXCEPT ![r] = "dropped"]
  <2>1. queue' \in Seq(RowType)
    BY <1>1, <1>3, Removing
  <2>2. TypeOK'
    BY <1>1, <1>3, <2>1 DEF QueueInv, TypeOK
  <2>3. QED
    BY <1>1, <1>3, <2>2, DroppedInv
<1>4. QED
  BY <1>2, <1>3 DEF update_queued_message, Commit

LEMMA MoveInv ==
    ASSUME QueueInv, NEW r \in Row, NEW to, move_queued_message(r, to)
    PROVE  QueueInv'
<1> DEFINE q == remove_queued(r)
<1>1. /\ r \in Ids(queue) /\ to \in DOMAIN queue /\ wake' = TRUE
      /\ queue' = InsertAt(q, to, Item(r))
      /\ UNCHANGED <<paused, turn, lock, taken, exec, timers, edit, now, leases, fate, frozen>>
  BY DEF move_queued_message, move_queued, Commit
<1>2. /\ q \in Seq(RowType) /\ Distinct(q) /\ Len(q) = Len(queue) - 1
      /\ Items(q) = Items(queue) \ {Item(r)} /\ Ids(q) = Ids(queue) \ {r}
  BY <1>1, Removing
<1>3. Item(r) \in Items(queue) /\ Item(r) \in RowType /\ Item(r).id = r
  BY <1>1, IndexOf, QueueShape
<1>4. to \in 1 .. (Len(q) + 1)
  BY <1>1, <1>2, QueueShape, LenProperties
<1> HIDE DEF q
<1>5. Item(r).id \notin Ids(q)
  BY <1>2, <1>3
<1>6. queue' \in Seq(RowType) /\ Distinct(queue') /\ Items(queue') = Items(q) \cup {Item(r)}
  BY <1>1, <1>2, <1>3, <1>4, <1>5, InsertAtItems
<1>7. Items(queue') = Items(queue)
  BY <1>2, <1>3, <1>6
<1>8. Ids(queue') = Ids(queue)
  BY <1>7, IdsOfItems
<1>9. TypeOK'
  BY <1>1, <1>6 DEF QueueInv, TypeOK
<1>10. EveryRowInOnePlace'
  BY <1>1, <1>6, <1>8 DEF QueueInv, EveryRowInOnePlace, Distinct
<1>11. EditsKept
  BY <1>1, <1>7 DEF EditsKept, QueueInv, TypeOK
<1>12. QED
  BY <1>9, <1>10, <1>11, Preserved

LEMMA RemoveInv ==
    ASSUME QueueInv, NEW r \in Row, remove_queued_message(r)
    PROVE  QueueInv'
<1>1. /\ r \in Ids(queue) /\ queue' = remove_queued(r) /\ wake' = TRUE
      /\ fate' = [fate EXCEPT ![r] = "dropped"]
      /\ UNCHANGED <<paused, turn, lock, taken, exec, timers, edit, now, leases, frozen>>
  BY DEF remove_queued_message, Commit
<1>2. queue' \in Seq(RowType)
  BY <1>1, Removing
<1>3. TypeOK'
  BY <1>1, <1>2 DEF QueueInv, TypeOK
<1>4. QED
  BY <1>1, <1>3, DroppedInv

-----------------------------------------------------------------------------
(* Edits.                                                                  *)

LEMMA BeginInv ==
    ASSUME QueueInv, NEW e \in Editor, NEW r \in Row, NEW l \in Lease,
           begin_queued_message_edit(e, r, l)
    PROVE  QueueInv'
<1> DEFINE g == Gate("editing", l, now + LeaseTicks, Item(r).text)
           x == [Item(r) EXCEPT !.gate = g]
           ed == [id |-> r, lease |-> l, text |-> Item(r).text, until |-> g.until]
<1>1. /\ r \in Ids(queue) /\ l \notin leases /\ wake' = TRUE /\ edit[e] = NoEdit
      /\ Item(r).gate.kind = "editing" => Expired(Item(r).gate)
      /\ queue' = set_queued_delivery_gate(r, g) /\ timers' = timers \cup {Timer(r, g)}
      /\ edit' = [edit EXCEPT ![e] = ed] /\ leases' = leases \cup {l}
      /\ UNCHANGED <<paused, turn, lock, taken, exec, now, fate, frozen>>
  BY DEF begin_queued_message_edit, Commit
<1>2. Item(r) \in Items(queue) /\ Item(r) \in RowType /\ Item(r).id = r /\ Item(r).text \in Text
  BY <1>1, IndexOf, QueueShape DEF RowType
<1>3. /\ g \in GateType /\ g.kind = "editing" /\ g.lease = l /\ g.until = now + LeaseTicks
      /\ now + LeaseTicks \in 0..(MaxTime + LeaseTicks)
  BY <1>2, FreshGate DEF Gate
<1>4. queue' = Replaced(r, x) /\ x \in RowType /\ x.id = r /\ x.gate = g
  <2> HIDE DEF g
  <2>1. queue' = Replaced(r, x) /\ x \in RowType
    BY <1>1, <1>2, <1>3, Writes
  <2>2. QED
    BY <1>2, <1>3, <2>1 DEF RowType
<1>5. Timer(r, g) \in TimerType /\ ed \in EditType
  BY <1>2, <1>3 DEF Timer, TimerType, EditType
<1>6. ed.id = r /\ ed.lease = l /\ ed.until = g.until
  OBVIOUS
<1> HIDE DEF g, x, ed
<1>7. /\ queue' \in Seq(RowType) /\ Distinct(queue')
      /\ Items(queue') = (Items(queue) \ {Item(r)}) \cup {x} /\ Ids(queue') = Ids(queue)
  BY <1>1, <1>4, Replacing
<1>8. /\ edit' \in [Editor -> {NoEdit} \cup EditType]
      /\ edit'[e] = ed /\ \A f \in Editor \ {e} : edit'[f] = edit[f]
  BY <1>1, <1>5 DEF QueueInv, TypeOK
<1>9. TypeOK'
  BY <1>1, <1>5, <1>7, <1>8 DEF QueueInv, TypeOK
<1>10. EveryRowInOnePlace'
  BY <1>1, <1>7 DEF QueueInv, EveryRowInOnePlace, Distinct
<1>11. LeasesHeld'
  <2>1. \A f \in Editor \ {e} : edit[f] # NoEdit => edit[f].lease # l
    BY <1>1 DEF QueueInv, LeasesHeld
  <2>2. QED
    BY <1>1, <1>6, <1>8, <2>1 DEF QueueInv, LeasesHeld
<1>12. LiveEdits'
  <2> SUFFICES ASSUME NEW f \in Editor, edit'[f] # NoEdit, edit'[f].until > now'
               PROVE  \/ fate'[edit'[f].id] = "dropped"
                      \/ \E m \in Items(queue') : Promised(m, edit'[f])
    BY DEF LiveEdits
  <2>1. CASE f = e
    BY <2>1, <1>3, <1>4, <1>6, <1>7, <1>8 DEF Promised
  <2>2. CASE f # e
    <3>1. edit'[f] = edit[f] /\ edit[f].until > now
      BY <2>2, <1>1, <1>8
    <3>2. CASE fate[edit[f].id] = "dropped"
      BY <3>1, <3>2, <1>1
    <3>3. CASE \E m \in Items(queue) : Promised(m, edit[f])
      <4>1. PICK m \in Items(queue) : Promised(m, edit[f])
        BY <3>3
      <4>2. m # Item(r)
        BY <4>1, <3>1, <1>1 DEF Promised, Expired, QueueInv, TypeOK, EditType
      <4>3. QED
        BY <4>1, <4>2, <3>1, <1>7
    <3>4. QED
      BY <3>1, <3>2, <3>3 DEF QueueInv, LiveEdits
  <2>3. QED
    BY <2>1, <2>2
<1>13. QED
  BY <1>9, <1>10, <1>11, <1>12 DEF QueueInv

\* The editor's own row, and nobody else's, can carry the editor's lease.
LEMMA OwnGate ==
    ASSUME QueueInv, NEW e \in Editor, edit[e] # NoEdit, edit[e].id \in Ids(queue),
           Item(edit[e].id).gate.lease = edit[e].lease
    PROVE  /\ Item(edit[e].id) \in Items(queue) /\ Item(edit[e].id) \in RowType
           /\ Item(edit[e].id).id = edit[e].id /\ edit[e].id \in Row
           /\ \A f \in Editor \ {e} :
                 edit[f] # NoEdit => ~Promised(Item(edit[e].id), edit[f])
<1>1. /\ Item(edit[e].id) \in Items(queue) /\ Item(edit[e].id) \in RowType
      /\ Item(edit[e].id).id = edit[e].id /\ edit[e].id \in Row
  BY IndexOf, QueueShape
<1>2. QED
  BY <1>1 DEF QueueInv, LeasesHeld, Promised

LEMMA RenewInv ==
    ASSUME QueueInv, NEW e \in Editor, renew_queued_message_edit(e)
    PROVE  QueueInv'
<1> DEFINE r == edit[e].id
           g == Item(r).gate
           renewed == [g EXCEPT !.until = now + LeaseTicks]
<1>1. /\ edit[e] # NoEdit /\ r \in Ids(queue) /\ g.kind = "editing" /\ g.lease = edit[e].lease
      /\ wake' = TRUE
      /\ UNCHANGED <<paused, turn, lock, taken, exec, now, leases, fate, frozen>>
  BY DEF renew_queued_message_edit, Commit
<1>2. /\ Item(r) \in Items(queue) /\ Item(r) \in RowType /\ Item(r).id = r /\ r \in Row
      /\ \A f \in Editor \ {e} : edit[f] # NoEdit => ~Promised(Item(r), edit[f])
  BY <1>1, OwnGate
<1>3. g \in GateType /\ ReviewRequired(g) \in GateType /\ edit[e] \in EditType /\ now \in Nat
  BY <1>1, <1>2, GateShape DEF QueueInv, TypeOK
<1>4. CASE /\ Expired(g) /\ queue' = set_queued_delivery_gate(r, ReviewRequired(g))
           /\ UNCHANGED <<timers, edit>>
  <2> DEFINE x == [Item(r) EXCEPT !.gate = ReviewRequired(g)]
  <2>1. queue' = Replaced(r, x) /\ x \in RowType
    BY <1>1, <1>2, <1>3, <1>4, Writes DEF RowType
  <2>2. x.id = r
    BY <1>2, <2>1 DEF RowType
  <2>3. queue' \in Seq(RowType)
    <3> HIDE DEF x, r
    <3>1. QED
      BY <1>1, <2>1, <2>2, Replacing
  <2>4. TypeOK'
    BY <1>1, <1>4, <2>3 DEF QueueInv, TypeOK
  <2>5. ~(g.until > now)
    BY <1>4, <1>3 DEF Expired, GateType
  <2>6. \A f \in Editor : edit'[f] \in {NoEdit, edit[f]}
    BY <1>4
  <2> HIDE DEF x, r
  <2>7. QED
    BY <1>1, <1>4, <2>1, <2>2, <2>4, <2>5, <2>6, ReplacedInv
<1>5. CASE /\ ~Expired(g) /\ queue' = set_queued_delivery_gate(r, renewed)
           /\ timers' = timers \cup {Timer(r, renewed)}
           /\ edit' = [edit EXCEPT ![e].until = renewed.until]
  <2> DEFINE x == [Item(r) EXCEPT !.gate = renewed]
             ed == [edit[e] EXCEPT !.until = renewed.until]
  <2>1. /\ now + LeaseTicks \in 0..(MaxTime + LeaseTicks)
        /\ renewed \in GateType /\ renewed.kind = "editing" /\ renewed.lease = edit[e].lease
        /\ renewed.until = now + LeaseTicks
    <3>1. now + LeaseTicks \in 0..(MaxTime + LeaseTicks)
      BY QueueAssumption DEF QueueInv, TypeOK
    <3>2. QED
      BY <1>1, <1>3, <3>1 DEF GateType
  <2>2. queue' = Replaced(r, x) /\ x \in RowType
    <3> HIDE DEF renewed
    <3>1. Item(r).text \in Text
      BY <1>2 DEF RowType
    <3>2. QED
      BY <1>1, <1>5, <2>1, <3>1, Writes
  <2>3. x.id = r /\ x.gate = renewed
    BY <1>2, <2>2 DEF RowType
  <2>4. /\ ed \in EditType /\ ed.id = r /\ ed.lease = edit[e].lease /\ ed.until = renewed.until
        /\ Timer(r, renewed) \in TimerType
    BY <1>1, <1>2, <1>3, <2>1 DEF EditType, Timer, TimerType
  <2>5. edit' = [edit EXCEPT ![e] = ed]
    BY <1>5
  <2> HIDE DEF x, ed, renewed
  <2>6. /\ edit' \in [Editor -> {NoEdit} \cup EditType]
        /\ edit'[e] = ed /\ \A f \in Editor \ {e} : edit'[f] = edit[f]
    BY <2>4, <2>5 DEF QueueInv, TypeOK
  <2>7. /\ queue' \in Seq(RowType) /\ Distinct(queue')
        /\ Items(queue') = (Items(queue) \ {Item(r)}) \cup {x} /\ Ids(queue') = Ids(queue)
    BY <1>1, <2>2, <2>3, Replacing
  <2>8. TypeOK'
    BY <1>1, <1>5, <2>4, <2>6, <2>7 DEF QueueInv, TypeOK
  <2>9. EveryRowInOnePlace'
    BY <1>1, <2>7 DEF QueueInv, EveryRowInOnePlace, Distinct
  <2>10. LeasesHeld'
    BY <1>1, <2>4, <2>6 DEF QueueInv, LeasesHeld
  <2>11. LiveEdits'
    <3> SUFFICES ASSUME NEW f \in Editor, edit'[f] # NoEdit, edit'[f].until > now'
                 PROVE  \/ fate'[edit'[f].id] = "dropped"
                        \/ \E m \in Items(queue') : Promised(m, edit'[f])
      BY DEF LiveEdits
    <3>1. CASE f = e
      BY <3>1, <2>1, <2>3, <2>4, <2>6, <2>7 DEF Promised
    <3>2. CASE f # e
      BY <3>2, <1>1, <1>2, <2>6, <2>7 DEF QueueInv, LiveEdits
    <3>3. QED
      BY <3>1, <3>2
  <2>12. QED
    BY <2>8, <2>9, <2>10, <2>11 DEF QueueInv
<1>6. QED
  BY <1>4, <1>5 DEF renew_queued_message_edit, Commit

LEMMA FinishInv ==
    ASSUME QueueInv, NEW e \in Editor, NEW action, NEW t \in Text,
           finish_queued_message_edit(e, action, t)
    PROVE  QueueInv'
<1> DEFINE r == edit[e].id
<1>1. /\ edit[e] # NoEdit /\ edit' = [edit EXCEPT ![e] = NoEdit]
      /\ UNCHANGED <<paused, turn, lock, taken, exec, timers, now, leases, frozen>>
  BY DEF finish_queued_message_edit
<1>2. /\ edit' \in [Editor -> {NoEdit} \cup EditType]
      /\ edit'[e] = NoEdit /\ \A f \in Editor : edit'[f] \in {NoEdit, edit[f]}
  BY <1>1 DEF QueueInv, TypeOK
<1>3. CASE UNCHANGED <<queue, wake, fate>>
  <2>1. TypeOK'
    BY <1>1, <1>2, <1>3 DEF QueueInv, TypeOK
  <2>2. EveryRowInOnePlace'
    BY <1>1, <1>3 DEF QueueInv, EveryRowInOnePlace, Ids
  <2>3. EditsKept
    BY <1>1, <1>2, <1>3 DEF EditsKept, QueueInv, TypeOK
  <2>4. QED
    BY <2>1, <2>2, <2>3, Preserved
<1>4. ASSUME OwnsGate(e), NEW u \in Text, queue' = finish_queued_edit(r, u), wake' = TRUE,
             UNCHANGED fate
      PROVE  QueueInv'
  <2> DEFINE x == [Item(r) EXCEPT !.text = u, !.gate = Open]
  <2>1. r \in Ids(queue) /\ Item(r).gate.lease = edit[e].lease
    BY <1>4 DEF OwnsGate
  <2>2. /\ Item(r) \in Items(queue) /\ Item(r) \in RowType /\ Item(r).id = r
        /\ \A f \in Editor \ {e} : edit[f] # NoEdit => ~Promised(Item(r), edit[f])
    BY <1>1, <2>1, OwnGate
  <2>3. Item(r).gate \in GateType
    BY <2>2 DEF RowType
  <2>4. queue' = Replaced(r, x) /\ x \in RowType
    BY <1>4, <2>1, <2>3, Writes
  <2>5. x.id = r
    BY <2>2, <2>4 DEF RowType
  <2> HIDE DEF x, r
  <2>6. queue' \in Seq(RowType)
    BY <2>1, <2>4, <2>5, Replacing
  <2>7. TypeOK'
    BY <1>1, <1>2, <1>4, <2>6 DEF QueueInv, TypeOK
  <2>8. \A f \in Editor : edit'[f] # NoEdit => ~Promised(Item(r), edit[f])
    BY <1>2, <2>2
  <2>9. QED
    BY <1>1, <1>2, <1>4, <2>1, <2>4, <2>5, <2>7, <2>8, ReplacedInv
<1>5. CASE /\ OwnsGate(e) /\ queue' = remove_queued(r) /\ wake' = TRUE
           /\ fate' = [fate EXCEPT ![r] = "dropped"]
  <2>1. r \in Ids(queue)
    BY <1>5 DEF OwnsGate
  <2> HIDE DEF r
  <2>2. queue' \in Seq(RowType)
    BY <1>5, <2>1, Removing
  <2>3. TypeOK'
    BY <1>1, <1>2, <1>5, <2>2 DEF QueueInv, TypeOK
  <2>4. QED
    BY <1>1, <1>2, <1>5, <2>1, <2>3, DroppedInv
<1>6. OwnsGate(e) => Item(r).text \in Text
  BY <1>1, OwnGate DEF OwnsGate, RowType
<1>7. QED
  BY <1>3, <1>4, <1>5, <1>6 DEF finish_queued_message_edit, Commit, MayCommit

\* Putting a row up for review disturbs no edit whose deadline lies ahead.
LEMMA ReviewInv ==
    ASSUME QueueInv, NEW m \in Items(queue), Expired(m.gate),
           queue' = set_queued_delivery_gate(m.id, ReviewRequired(m.gate)),
           UNCHANGED <<fate, taken, now, leases, edit>>,
           queue' \in Seq(RowType) => TypeOK'
    PROVE  QueueInv'
<1> DEFINE r == m.id
           x == [Item(r) EXCEPT !.gate = ReviewRequired(m.gate)]
<1>1. r \in Ids(queue) /\ Item(r) = m
  BY QueueShape, IndexOf
<1>2. m \in RowType /\ m.gate \in GateType /\ ReviewRequired(m.gate) \in GateType
  BY GateShape DEF Expired
<1>3. m.text \in Text
  BY <1>2 DEF RowType
<1>4. queue' = Replaced(r, x) /\ x \in RowType
  BY <1>1, <1>2, <1>3, Writes
<1>5. x.id = r
  BY <1>1, <1>2, <1>4 DEF RowType
<1>6. ~(Item(r).gate.until > now)
  BY <1>1, <1>2 DEF Expired, GateType, QueueInv, TypeOK
<1> HIDE DEF x, r
<1>7. TypeOK'
  BY <1>1, <1>4, <1>5, Replacing
<1>8. QED
  BY <1>1, <1>4, <1>5, <1>6, <1>7, ReplacedInv

LEMMA ExpireInv ==
    ASSUME QueueInv, NEW tm \in timers, expire_queued_message_edit(tm)
    PROVE  QueueInv'
<1>1. /\ timers' = timers \ {tm}
      /\ UNCHANGED <<paused, turn, lock, taken, exec, edit, now, leases, fate, frozen>>
  BY DEF expire_queued_message_edit
<1>2. CASE Due(tm)
  <2> DEFINE m == Item(tm.id)
  <2>1. tm.id \in Ids(queue) /\ Expired(m.gate)
    BY <1>2 DEF Due, Expired
  <2>2. m \in Items(queue) /\ m.id = tm.id
    BY <2>1, IndexOf
  <2>3. queue' = set_queued_delivery_gate(m.id, ReviewRequired(m.gate)) /\ wake' = TRUE
    BY <1>2, <2>2 DEF expire_queued_message_edit, Commit
  <2>4. queue' \in Seq(RowType) => TypeOK'
    BY <1>1, <2>3 DEF QueueInv, TypeOK
  <2> HIDE DEF m
  <2>5. QED
    BY <1>1, <2>1, <2>2, <2>3, <2>4, ReviewInv
<1>3. CASE ~Due(tm)
  <2>1. UNCHANGED <<queue, wake>>
    BY <1>3 DEF expire_queued_message_edit
  <2>2. TypeOK'
    BY <1>1, <2>1 DEF QueueInv, TypeOK
  <2>3. EveryRowInOnePlace'
    BY <1>1, <2>1 DEF QueueInv, EveryRowInOnePlace, Ids
  <2>4. EditsKept
    BY <1>1, <2>1 DEF EditsKept, QueueInv, TypeOK
  <2>5. QED
    BY <2>2, <2>3, <2>4, Preserved
<1>4. QED
  BY <1>2, <1>3

-----------------------------------------------------------------------------
(* Sending.                                                                *)

\* Steps that touch neither the list, the rows nor the edits.
LEMMA AsideInv ==
    ASSUME QueueInv, TypeOK', UNCHANGED <<queue, taken, fate, edit, leases>>, now' >= now
    PROVE  QueueInv'
<1>1. EveryRowInOnePlace'
  BY DEF QueueInv, EveryRowInOnePlace, Ids
<1>2. EditsKept
  BY DEF EditsKept, QueueInv, TypeOK
<1>3. QED
  BY <1>1, <1>2, Preserved

\* A row without a gate is taken into someone's hands.
LEMMA TakingInv ==
    ASSUME QueueInv, taken = NothingTaken, NEW m \in Items(queue), m.gate.kind = "none",
           queue' \in Seq(RowType), Distinct(queue'), Items(queue') = Items(queue) \ {m},
           taken'.row = m, UNCHANGED <<fate, edit, now, leases>>, TypeOK'
    PROVE  QueueInv'
<1>1. Ids(queue') = Ids(queue) \ {m.id} /\ m.id \in Ids(queue)
  <2>1. Ids(queue') = {n.id : n \in Items(queue) \ {m}} /\ Ids(queue) = {n.id : n \in Items(queue)}
    BY IdsOfItems
  <2>2. QED
    BY <2>1, QueueShape
<1>2. taken.row.id \notin Row
  BY QueueAssumption DEF NothingTaken, NoRow
<1>3. EveryRowInOnePlace'
  BY <1>1, <1>2 DEF QueueInv, EveryRowInOnePlace, Distinct
<1>4. EditsKept
  BY DEF EditsKept, Promised, QueueInv, TypeOK
<1>5. QED
  BY <1>3, <1>4, Preserved

\* Only a send holds a taken row, and it holds the lock with it.
TakenUnderLock == lock \in {Free} \cup Executor => taken = NothingTaken

LEMMA DrainInv ==
    ASSUME QueueInv, drain_queue
    PROVE  QueueInv'
<1>1. TypeOK'
  BY DEF QueueInv, TypeOK, drain_queue
<1>2. now' >= now
  BY DEF QueueInv, TypeOK, drain_queue
<1>3. QED
  BY <1>1, <1>2, AsideInv DEF drain_queue

LEMMA DrainLoopInv ==
    ASSUME QueueInv, DrainLoop
    PROVE  QueueInv'
<1>1. /\ taken = NothingTaken
      /\ UNCHANGED <<paused, turn, exec, edit, now, leases, fate, frozen>>
  BY DEF DrainLoop
<1>2. now' >= now
  BY <1>1 DEF QueueInv, TypeOK
<1>3. ASSUME queue # <<>>
      PROVE  Head(queue) \in Items(queue) /\ Head(queue).id \in Row
  <2>1. Head(queue) \in Items(queue)
    BY <1>3, QueueShape, TailItems
  <2>2. QED
    BY <2>1, GateShape
<1>4. CASE lock' = Free /\ UNCHANGED <<queue, wake, timers, taken>>
  <2>1. TypeOK'
    BY <1>1, <1>4 DEF QueueInv, TypeOK
  <2>2. QED
    BY <1>1, <1>2, <1>4, <2>1, AsideInv
<1>5. CASE /\ AtHead = "overdue" /\ lock' = Free /\ UNCHANGED <<timers, taken>> /\ wake' = TRUE
           /\ queue' = set_queued_delivery_gate(Head(queue).id,
                                                ReviewRequired(Head(queue).gate))
  <2>1. queue # <<>> /\ Expired(Head(queue).gate)
    BY <1>5, GateShape, <1>3 DEF AtHead, RowType, GateType
  <2>2. queue' \in Seq(RowType) => TypeOK'
    BY <1>1, <1>5 DEF QueueInv, TypeOK
  <2>3. QED
    BY <1>1, <1>3, <1>5, <2>1, <2>2, ReviewInv
<1>6. CASE /\ AtHead = "editing" /\ lock' = Free /\ UNCHANGED <<queue, wake, taken>>
           /\ timers' = timers \cup {Timer(Head(queue).id, Head(queue).gate)}
  <2>1. queue # <<>> /\ Head(queue).gate.kind = "editing"
    BY <1>6 DEF AtHead
  <2>2. Timer(Head(queue).id, Head(queue).gate) \in TimerType
    BY <1>3, <2>1, GateShape
  <2>3. TypeOK'
    BY <1>1, <1>6, <2>2 DEF QueueInv, TypeOK
  <2>4. QED
    BY <1>1, <1>2, <1>6, <2>3, AsideInv
<1>7. CASE /\ AtHead = "none" /\ ~turn /\ UNCHANGED <<lock, timers>> /\ wake' = TRUE
           /\ taken' = [row |-> Head(queue), was_paused |-> FALSE]
           /\ queue' = Tail(queue)
  <2>1. queue # <<>> /\ Head(queue).gate.kind = "none"
    BY <1>7 DEF AtHead
  <2>2. /\ queue' \in Seq(RowType) /\ Distinct(queue')
        /\ Items(queue') = Items(queue) \ {Head(queue)}
        /\ Head(queue) \in Items(queue) /\ Head(queue) \in RowType
    BY <1>7, <2>1, QueueShape, TailItems
  <2>3. TypeOK'
    BY <1>1, <1>7, <2>2 DEF QueueInv, TypeOK
  <2>4. QED
    BY <1>1, <1>7, <2>1, <2>2, <2>3, TakingInv
<1>8. QED
  BY <1>4, <1>5, <1>6, <1>7 DEF DrainLoop, Commit

LEMMA TakeNowInv ==
    ASSUME QueueInv, TakenUnderLock, NEW r \in Row, NEW how \in {"send", "steer"},
           TakeNow(r, how)
    PROVE  QueueInv'
<1>1. /\ r \in Ids(queue) /\ Item(r).gate.kind = "none" /\ lock = Free /\ lock' = how
      /\ taken' = [row |-> Item(r), was_paused |-> paused] /\ paused' = FALSE
      /\ queue' = remove_queued(r) /\ wake' = TRUE
      /\ UNCHANGED <<turn, exec, timers, edit, now, leases, fate, frozen>>
  BY DEF TakeNow, Takeable, Commit
<1>2. taken = NothingTaken
  BY <1>1 DEF TakenUnderLock
<1>3. /\ queue' \in Seq(RowType) /\ Distinct(queue')
      /\ Items(queue') = Items(queue) \ {Item(r)}
  BY <1>1, Removing
<1>4. Item(r) \in Items(queue) /\ Item(r) \in RowType
  BY <1>1, IndexOf, QueueShape
<1>5. paused \in BOOLEAN
  BY DEF QueueInv, TypeOK
<1>6. TypeOK'
  BY <1>1, <1>3, <1>4, <1>5 DEF QueueInv, TypeOK
<1>7. QED
  BY <1>1, <1>2, <1>3, <1>4, <1>6, TakingInv

LEMMA DispatchInv ==
    ASSUME QueueInv, dispatch_queued
    PROVE  QueueInv'
<1> DEFINE r == taken.row.id
<1>1. /\ taken # NothingTaken /\ taken' = NothingTaken
      /\ fate' = [fate EXCEPT ![r] = "sent"] /\ turn' = TRUE /\ wake' = TRUE
      /\ frozen' \in BOOLEAN /\ lock' \in {"drain", Free}
      /\ UNCHANGED <<queue, paused, exec, timers, edit, now, leases>>
  BY DEF dispatch_queued, Sent
<1>2. r \in Row \ Ids(queue) /\ fate[r] = "queued"
  BY <1>1, TakenShape
<1>3. TypeOK'
  BY <1>1, <1>2 DEF QueueInv, TypeOK
<1>4. taken'.row.id \notin Row
  BY <1>1, QueueAssumption DEF NothingTaken, NoRow
<1>5. \A i \in Ids(queue) : i \in Row
  BY QueueShape
<1>6. EveryRowInOnePlace'
  BY <1>1, <1>2, <1>4, <1>5 DEF QueueInv, TypeOK, EveryRowInOnePlace, Ids
<1>7. EditsKept
  BY <1>1, <1>2 DEF EditsKept, QueueInv, TypeOK
<1>8. QED
  BY <1>3, <1>6, <1>7, Preserved

LEMMA DispatchFailsInv ==
    ASSUME QueueInv, DispatchFails
    PROVE  QueueInv'
<1> DEFINE x == taken.row
<1>1. /\ taken # NothingTaken /\ taken' = NothingTaken /\ paused' \in BOOLEAN
      /\ queue' = Before(queue, x) /\ wake' = TRUE /\ turn' \in {turn, FALSE} /\ lock' = Free
      /\ UNCHANGED <<exec, timers, edit, now, leases, fate, frozen>>
  BY DEF DispatchFails, PausedAfterFailure, insert_queued, Commit, Before
<1>2. x \in RowType /\ x.id \in Row /\ x.id \notin Ids(queue)
  BY <1>1, TakenShape
<1> HIDE DEF x
<1>3. queue' \in Seq(RowType) /\ Distinct(queue') /\ Items(queue') = Items(queue) \cup {x}
  BY <1>1, <1>2, QueueShape, AddItems
<1>4. Ids(queue') = Ids(queue) \cup {x.id}
  BY <1>3, IdsOfItems
<1>5. TypeOK'
  BY <1>1, <1>3 DEF QueueInv, TypeOK
<1>6. taken'.row.id \notin Row
  BY <1>1, QueueAssumption DEF NothingTaken, NoRow
<1>7. \A i \in Ids(queue) : i \in Row
  BY QueueShape
<1>8. EveryRowInOnePlace'
  BY <1>1, <1>2, <1>3, <1>4, <1>6, <1>7 DEF QueueInv, EveryRowInOnePlace, Distinct, x
<1>9. EditsKept
  BY <1>1, <1>3 DEF EditsKept, QueueInv, TypeOK
<1>10. QED
  BY <1>5, <1>8, <1>9, Preserved

-----------------------------------------------------------------------------
(* Commands, the agent, the process.                                       *)

LEMMA RunInv ==
    ASSUME QueueInv, NEW x \in Executor, RunCommand(x) \/ RunThaws(x)
    PROVE  QueueInv'
<1>1. TypeOK'
  <2>1. /\ paused' \in {paused, FALSE} /\ turn' \in {turn, TRUE} /\ wake' = TRUE
        /\ frozen' \in BOOLEAN \cup {frozen}
        /\ \E at \in {"idle", "dispatched"} : exec' = [exec EXCEPT ![x] = at]
        /\ UNCHANGED <<queue, lock, taken, timers, edit, now, leases, fate>>
    BY DEF RunCommand, RunThaws
  <2>2. exec' \in [Executor -> {"idle", "dispatched", "overtaken", "cancelling"}]
    BY <2>1 DEF QueueInv, TypeOK
  <2>3. QED
    BY <2>1, <2>2 DEF QueueInv, TypeOK
<1>2. now' >= now
  BY DEF QueueInv, TypeOK, RunCommand, RunThaws
<1>3. QED
  BY <1>1, <1>2, AsideInv DEF RunCommand, RunThaws

LEMMA InterruptInv ==
    ASSUME QueueInv, NEW x \in Executor,
           interrupt_and_pause_queue(x) \/ InterruptReturns(x)
    PROVE  QueueInv'
<1>1. TypeOK'
  <2>1. /\ paused' \in {paused, TRUE, FALSE} /\ turn' \in {turn, FALSE} /\ wake' \in {wake, TRUE}
        /\ frozen' \in {frozen, TRUE, FALSE} /\ lock' \in {Free, x}
        /\ UNCHANGED <<queue, taken, timers, edit, now, leases, fate>>
    BY DEF interrupt_and_pause_queue, InterruptReturns
  <2>2. exec' \in [Executor -> {"idle", "dispatched", "overtaken", "cancelling"}]
    BY DEF QueueInv, TypeOK, interrupt_and_pause_queue, InterruptReturns
  <2>3. QED
    BY <2>1, <2>2 DEF QueueInv, TypeOK
<1>2. now' >= now
  BY DEF QueueInv, TypeOK, interrupt_and_pause_queue, InterruptReturns
<1>3. QED
  BY <1>1, <1>2, AsideInv DEF interrupt_and_pause_queue, InterruptReturns

LEMMA TurnInv ==
    ASSUME QueueInv, ResumedTurn \/ TurnEnds \/ Tick
    PROVE  QueueInv'
<1>1. TypeOK'
  <2>1. /\ turn' \in {turn, TRUE, FALSE} /\ wake' \in {wake, TRUE}
        /\ UNCHANGED <<queue, paused, lock, taken, exec, timers, edit, leases, fate, frozen>>
    BY DEF ResumedTurn, TurnEnds, WakeAtTurnEnd, Tick, hostVars
  <2>2. now' \in 0..MaxTime
    BY QueueAssumption DEF QueueInv, TypeOK, ResumedTurn, TurnEnds, Tick
  <2>3. QED
    BY <2>1, <2>2 DEF QueueInv, TypeOK
<1>2. now' >= now
  BY DEF QueueInv, TypeOK, ResumedTurn, TurnEnds, Tick
<1>3. QED
  BY <1>1, <1>2, AsideInv DEF ResumedTurn, TurnEnds, Tick, hostVars

LEMMA GoneInv ==
    ASSUME QueueInv, NEW e \in Editor, EditorGone(e)
    PROVE  QueueInv'
<1>1. /\ edit' = [edit EXCEPT ![e] = NoEdit]
      /\ UNCHANGED <<queue, paused, turn, lock, taken, exec, wake, timers, now, leases, fate,
                     frozen>>
  BY DEF EditorGone, hostVars
<1>2. /\ edit' \in [Editor -> {NoEdit} \cup EditType]
      /\ \A f \in Editor : edit'[f] \in {NoEdit, edit[f]}
  BY <1>1 DEF QueueInv, TypeOK
<1>3. TypeOK'
  BY <1>1, <1>2 DEF QueueInv, TypeOK
<1>4. EveryRowInOnePlace'
  BY <1>1 DEF QueueInv, EveryRowInOnePlace, Ids
<1>5. EditsKept
  BY <1>1, <1>2 DEF EditsKept, QueueInv, TypeOK
<1>6. QED
  BY <1>3, <1>4, <1>5, Preserved

LEMMA CrashInv ==
    ASSUME QueueInv, Crash
    PROVE  QueueInv'
<1>1. /\ paused' \in BOOLEAN /\ frozen' \in BOOLEAN /\ turn' = FALSE /\ wake' = TRUE
      /\ lock' = Free /\ taken' = NothingTaken /\ exec' = [x \in Executor |-> "idle"]
      /\ timers' = ArmedAtOpen
      /\ fate' = [r \in Row |-> IF r = taken.row.id THEN "lost" ELSE fate[r]]
      /\ UNCHANGED <<queue, edit, now, leases>>
  BY DEF Crash
<1>2. ArmedAtOpen \subseteq TimerType
  <2> SUFFICES ASSUME NEW i \in DOMAIN queue, queue[i].gate.kind = "editing"
               PROVE  Timer(queue[i].id, queue[i].gate) \in TimerType
    BY DEF ArmedAtOpen
  <2>1. queue[i] \in Items(queue)
    BY DEF Items
  <2>2. QED
    BY <2>1, GateShape
<1>3. TypeOK'
  BY <1>1, <1>2 DEF QueueInv, TypeOK
<1>4. taken'.row.id \notin Row
  BY <1>1, QueueAssumption DEF NothingTaken, NoRow
<1>5. \A i \in Ids(queue) : i \in Row
  BY QueueShape
<1>6. EveryRowInOnePlace'
  BY <1>1, <1>4, <1>5 DEF QueueInv, EveryRowInOnePlace, Ids
<1>7. \A r \in Row : r = taken.row.id => fate[r] = "queued"
  BY DEF QueueInv, EveryRowInOnePlace
<1>8. EditsKept
  BY <1>1, <1>7 DEF EditsKept, QueueInv, TypeOK
<1>9. QED
  BY <1>3, <1>6, <1>8, Preserved

-----------------------------------------------------------------------------
(* The theorems.                                                           *)

\* Who changes the lock or the taken row keeps the two together.
LEMMA LockStep ==
    ASSUME QueueInv, TakenUnderLock, [Next]_vars
    PROVE  TakenUnderLock'
<1> USE DEF TakenUnderLock
<1>1. CASE UNCHANGED <<lock, taken>>
  BY <1>1
<1>2. CASE drain_queue
  BY <1>2 DEF drain_queue
<1>3. CASE DrainLoop
  BY <1>3, QueueAssumption DEF DrainLoop, Free
<1>4. ASSUME NEW r \in Row, send_queued_now(r) \/ steer_queued_now(r)
      PROVE  TakenUnderLock'
  BY <1>4, QueueAssumption DEF send_queued_now, steer_queued_now, TakeNow, Free
<1>5. CASE dispatch_queued \/ DispatchFails \/ Crash
  BY <1>5 DEF dispatch_queued, DispatchFails, Crash
<1>6. ASSUME NEW x \in Executor, interrupt_and_pause_queue(x) \/ InterruptReturns(x)
      PROVE  TakenUnderLock'
  BY <1>6 DEF interrupt_and_pause_queue, InterruptReturns
<1>7. QED
  BY <1>1, <1>2, <1>3, <1>4, <1>5, <1>6
  DEF Next, vars, hostVars, queue_message, update_queued_message, held_until_turn_end,
      move_queued_message, remove_queued_message, begin_queued_message_edit,
      renew_queued_message_edit, EditorGone, finish_queued_message_edit,
      expire_queued_message_edit, RunCommand, RunThaws, ResumedTurn, TurnEnds, Tick

\* Every step keeps the invariant.
LEMMA NextInv ==
    ASSUME QueueInv, TakenUnderLock, [Next]_vars
    PROVE  QueueInv'
<1>1. ASSUME NEW r \in Row, NEW t \in Text,
             \/ queue_message(r, t) \/ update_queued_message(r, t)
             \/ \E x \in Executor : held_until_turn_end(x, r, t)
      PROVE  QueueInv'
  BY <1>1, QueueMessageInv, UpdateInv, HeldInv
<1>2. ASSUME NEW r \in Row,
             \/ \E i \in 1..Cardinality(Row) : move_queued_message(r, i)
             \/ remove_queued_message(r)
             \/ send_queued_now(r) \/ steer_queued_now(r)
             \/ \E e \in Editor, l \in Lease : begin_queued_message_edit(e, r, l)
      PROVE  QueueInv'
  BY <1>2, MoveInv, RemoveInv, TakeNowInv, BeginInv DEF send_queued_now, steer_queued_now
<1>3. ASSUME NEW e \in Editor,
             \/ renew_queued_message_edit(e) \/ EditorGone(e)
             \/ \E action \in {"commit", "cancel", "discard"}, t \in Text :
                    finish_queued_message_edit(e, action, t)
      PROVE  QueueInv'
  BY <1>3, RenewInv, GoneInv, FinishInv
<1>4. ASSUME NEW tm \in timers, expire_queued_message_edit(tm)
      PROVE  QueueInv'
  BY <1>4, ExpireInv
<1>5. CASE drain_queue \/ DrainLoop \/ dispatch_queued \/ DispatchFails
  BY <1>5, DrainInv, DrainLoopInv, DispatchInv, DispatchFailsInv
<1>6. ASSUME NEW x \in Executor,
             \/ RunCommand(x) \/ RunThaws(x)
             \/ interrupt_and_pause_queue(x) \/ InterruptReturns(x)
      PROVE  QueueInv'
  BY <1>6, RunInv, InterruptInv
<1>7. CASE ResumedTurn \/ TurnEnds \/ Crash \/ Tick
  BY <1>7, TurnInv, CrashInv
<1>8. CASE UNCHANGED vars
  <2>1. TypeOK' /\ now' >= now
    BY <1>8 DEF QueueInv, TypeOK, vars, hostVars
  <2>2. QED
    BY <1>8, <2>1, AsideInv DEF vars, hostVars
<1>9. QED
  BY <1>1, <1>2, <1>3, <1>4, <1>5, <1>6, <1>7, <1>8 DEF Next

\* Every reachable state satisfies the invariant of the queue.
THEOREM QueueSafe == Spec => [](QueueInv /\ TakenUnderLock)
<1>1. Init => QueueInv /\ TakenUnderLock
  BY InitInv DEF Init, TakenUnderLock, NothingTaken
<1>2. QueueInv /\ TakenUnderLock /\ [Next]_vars => QueueInv' /\ TakenUnderLock'
  BY NextInv, LockStep
<1>3. QED
  BY <1>1, <1>2, PTL DEF Spec

\* The variables of the queue model keep their types for any rows, texts,
\* editors, leases, executors and lease length (queue.rs, doc_host.rs).
THEOREM QueueTypeCorrect == Spec => []TypeOK
<1>1. QueueInv => TypeOK
  BY DEF QueueInv
<1>2. QED
  BY <1>1, QueueSafe, PTL

\* Exactly one place for every queued row: no send, removal, failed dispatch,
\* edit or restart, in any order, duplicates a row, sends it twice or drops it
\* silently, except a crash between take and send
\* (take_queued, dispatch_queued, insert_queued, remove_queued_message).
THEOREM RowsSafe == Spec => []EveryRowInOnePlace
<1>1. QueueInv => EveryRowInOnePlace
  BY DEF QueueInv
<1>2. QED
  BY <1>1, QueueSafe, PTL

\* A lease excludes delivery for any number of editors, leases and timers, any
\* lease length and across restarts: until the deadline promised to an editor,
\* its row is neither sent nor taken (begin_queued_message_edit,
\* expire_queued_message_edit, take_queued).
THEOREM LeaseSafe == Spec => []LeaseExcludesDelivery
<1>1. QueueInv => LeaseExcludesDelivery
  <2> SUFFICES ASSUME QueueInv, NEW e \in Editor, edit[e] # NoEdit, edit[e].until > now
               PROVE  fate[edit[e].id] # "sent" /\ taken.row.id # edit[e].id
    BY DEF LeaseExcludesDelivery
  <2>1. edit[e].id \in Row
    BY DEF QueueInv, TypeOK, EditType
  <2>2. CASE fate[edit[e].id] = "dropped"
    BY <2>1, <2>2 DEF QueueInv, EveryRowInOnePlace
  <2>3. CASE \E m \in Items(queue) : Promised(m, edit[e])
    <3>1. edit[e].id \in Ids(queue)
      BY <2>3, QueueShape DEF Promised
    <3>2. fate[edit[e].id] = "queued" /\ taken.row.id # edit[e].id
      BY <3>1, QueueShape DEF QueueInv, EveryRowInOnePlace
    <3>3. QED
      BY <3>2
  <2>4. QED
    BY <2>2, <2>3 DEF QueueInv, LiveEdits
<1>2. QED
  BY <1>1, QueueSafe, PTL

-----------------------------------------------------------------------------
(* What a finished edit does to the text.                                  *)

TextIn(q, r) == (CHOOSE m \in ToSet(q) : m.id = r).text

LEMMA FinishText ==
    ASSUME QueueInv, NEW e \in Editor, NEW action, NEW t \in Text,
           finish_queued_message_edit(e, action, t), queue' # queue,
           edit[e].id \in Ids(queue), edit[e].id \in Ids(queue')
    PROVE  \/ TextIn(queue', edit[e].id) = Item(edit[e].id).text
           \/ Item(edit[e].id).text = edit[e].text
<1> DEFINE r == edit[e].id
<1>1. edit[e] # NoEdit
  BY DEF finish_queued_message_edit
<1>2. CASE MayCommit(e)
  BY <1>2 DEF MayCommit
<1>3. CASE OwnsGate(e) /\ queue' = finish_queued_edit(r, Item(r).text)
  <2> DEFINE x == [Item(r) EXCEPT !.text = Item(r).text, !.gate = Open]
  <2>1. /\ Item(r) \in RowType /\ Item(r).id = r
        /\ Item(r).text \in Text /\ Item(r).gate \in GateType
    BY IndexOf, QueueShape DEF RowType
  <2>2. queue' = Replaced(r, x) /\ x \in RowType
    BY <1>3, <2>1, Writes
  <2>3. x.id = r /\ x.text = Item(r).text
    BY <2>1 DEF RowType
  <2> HIDE DEF x, r
  <2>4. Items(queue') = (Items(queue) \ {Item(r)}) \cup {x}
    BY <2>2, <2>3, Replacing DEF r
  <2>5. \A m \in Items(queue) : m.id = r => m = Item(r)
    BY QueueShape, IndexOf DEF r
  <2>6. \A m \in ToSet(queue') : m.id = r <=> m = x
    BY <2>3, <2>4, <2>5 DEF ToSet, Items
  <2>7. x \in ToSet(queue')
    BY <2>4 DEF ToSet, Items
  <2>8. (CHOOSE m \in ToSet(queue') : m.id = r) = x
    BY <2>6, <2>7
  <2>9. QED
    BY <2>3, <2>8 DEF TextIn, r
<1>4. ~(queue' = remove_queued(r))
  BY Removing
<1>5. QED
  BY <1>2, <1>3, <1>4 DEF finish_queued_message_edit, Commit

\* A commit replaces only the text its editor was shown, for any editors, texts
\* and interleavings (finish_queued_message_edit_with_attachments).
THEOREM CommitSafe == Spec => CommitOverwritesOnlySeenText
<1> DEFINE A == \A e \in Editor :
        edit[e] # NoEdit /\ edit'[e] = NoEdit /\ queue' # queue
        /\ edit[e].id \in Ids(queue) /\ edit[e].id \in Ids(queue')
        /\ (CHOOSE m \in ToSet(queue') : m.id = edit[e].id).text # Item(edit[e].id).text
        => Item(edit[e].id).text = edit[e].text
<1>1. QueueInv /\ TakenUnderLock /\ [Next]_vars => [A]_vars
  <2> SUFFICES ASSUME QueueInv, Next, NEW e \in Editor, edit[e] # NoEdit, edit'[e] = NoEdit,
                      queue' # queue, edit[e].id \in Ids(queue), edit[e].id \in Ids(queue'),
                      TextIn(queue', edit[e].id) # Item(edit[e].id).text
               PROVE  Item(edit[e].id).text = edit[e].text
    BY DEF TextIn
  <2>1. edit \in [Editor -> {NoEdit} \cup EditType] /\ NoEdit \notin EditType
    BY QueueAssumption DEF QueueInv, TypeOK, EditType, NoEdit
  <2>2. ~UNCHANGED edit
    BY <2>1
  <2>3. ASSUME NEW f \in Editor, NEW r \in Row, NEW l \in Lease,
               begin_queued_message_edit(f, r, l)
        PROVE  FALSE
    <3>1. edit[f] = NoEdit /\ \E ed : edit' = [edit EXCEPT ![f] = ed]
      BY <2>3 DEF begin_queued_message_edit
    <3>2. QED
      BY <3>1, <2>1
  <2>4. ASSUME NEW f \in Editor, renew_queued_message_edit(f)
        PROVE  FALSE
    <3>1. edit[f] # NoEdit /\ \E u : edit' = [edit EXCEPT ![f].until = u]
      BY <2>2, <2>4 DEF renew_queued_message_edit
    <3>2. PICK u : edit' = [edit EXCEPT ![f] = [edit[f] EXCEPT !.until = u]]
      BY <3>1
    <3>3. e = f /\ edit[f] \in EditType
      BY <3>1, <3>2, <2>1
    <3>4. edit'[e] = [edit[e] EXCEPT !.until = u]
      BY <3>2, <3>3, <2>1
    <3>5. edit'[e].id = edit[e].id /\ edit[e].id \in Row
      BY <3>3, <3>4 DEF EditType
    <3>6. QED
      BY <3>5, QueueAssumption DEF NoEdit
  <2>5. ASSUME NEW f \in Editor, EditorGone(f)
        PROVE  FALSE
    BY <2>5 DEF EditorGone, hostVars
  <2>6. ASSUME NEW f \in Editor, NEW action, NEW t \in Text,
               finish_queued_message_edit(f, action, t)
        PROVE  Item(edit[e].id).text = edit[e].text
    <3>1. edit' = [edit EXCEPT ![f] = NoEdit]
      BY <2>6 DEF finish_queued_message_edit
    <3>2. e = f
      BY <3>1, <2>1
    <3>3. QED
      BY <3>2, <2>6, FinishText
  <2>7. QED
    BY <2>2, <2>3, <2>4, <2>5, <2>6
    DEF Next, hostVars, queue_message, update_queued_message, held_until_turn_end,
        move_queued_message, remove_queued_message, send_queued_now, steer_queued_now, TakeNow,
        expire_queued_message_edit, drain_queue, DrainLoop, dispatch_queued, DispatchFails,
        RunCommand, RunThaws, interrupt_and_pause_queue, InterruptReturns, ResumedTurn,
        TurnEnds, Crash, Tick
<1>2. QED
  BY <1>1, QueueSafe, PTL DEF CommitOverwritesOnlySeenText, Spec

-----------------------------------------------------------------------------
(* The pause.                                                              *)

\* Executor x finishes a command that a cancel overtook.
Overtaken == \E x \in Executor : exec[x] = "overtaken" /\ exec'[x] = "idle"

LEMMA PauseStep ==
    ASSUME QueueInv, Next, frozen', ~HeldBack'
    PROVE  (frozen /\ ~HeldBack) \/ Overtaken
<1>0. exec \in [Executor -> {"idle", "dispatched", "overtaken", "cancelling"}]
  BY DEF QueueInv, TypeOK
<1>1. CASE UNCHANGED <<frozen, lock, taken, paused>>
  BY <1>1 DEF HeldBack
<1>2. CASE drain_queue \/ DrainLoop
  BY <1>2, QueueAssumption DEF drain_queue, DrainLoop, NothingTaken, Free, HeldBack
<1>3. ASSUME NEW r \in Row, send_queued_now(r) \/ steer_queued_now(r)
      PROVE  frozen /\ ~HeldBack
  <2>1. PICK how \in {"send", "steer"} : TakeNow(r, how)
    BY <1>3 DEF send_queued_now, steer_queued_now
  <2>2. /\ lock = Free /\ lock' = how /\ frozen' = frozen
        /\ taken' = [row |-> Item(r), was_paused |-> paused]
    BY <2>1 DEF TakeNow
  <2>3. ~taken'.was_paused
    BY <2>1, <2>2 DEF HeldBack
  <2>4. ~paused
    BY <2>2, <2>3
  <2>5. QED
    BY <2>2, <2>4, QueueAssumption DEF Free, HeldBack
<1>4. CASE dispatch_queued
  BY <1>4, QueueAssumption DEF dispatch_queued, Free, HeldBack
<1>5. CASE DispatchFails
  BY <1>5, QueueAssumption DEF DispatchFails, PausedAfterFailure, Free, HeldBack
<1>6. CASE Crash
  BY <1>6, QueueAssumption DEF Crash, Free, HeldBack
<1>7. ASSUME NEW x \in Executor, RunThaws(x)
      PROVE  Overtaken
  <2>1. exec[x] = "overtaken" /\ exec' = [exec EXCEPT ![x] = "idle"]
    BY <1>7 DEF RunThaws
  <2>2. QED
    BY <1>0, <2>1 DEF Overtaken
<1>8. ASSUME NEW x \in Executor, interrupt_and_pause_queue(x)
      PROVE  FALSE
  BY <1>8 DEF interrupt_and_pause_queue, HeldBack
<1>9. ASSUME NEW x \in Executor, InterruptReturns(x)
      PROVE  frozen /\ ~HeldBack
  <2>1. lock = x /\ ~paused'
    BY <1>9 DEF InterruptReturns, HeldBack
  <2>2. frozen' = frozen /\ paused' = paused
    <3>1. CASE frozen' = FALSE
      BY <3>1
    <3>2. CASE UNCHANGED <<paused, frozen>>
      BY <3>2
    <3>3. QED
      BY <1>9, <3>1, <3>2 DEF InterruptReturns
  <2>3. QED
    BY <2>1, <2>2, QueueAssumption DEF HeldBack
<1>10. QED
  BY <1>1, <1>2, <1>3, <1>4, <1>5, <1>6, <1>7, <1>8, <1>9
  DEF Next, hostVars, queue_message, update_queued_message, held_until_turn_end,
      move_queued_message, remove_queued_message, begin_queued_message_edit,
      renew_queued_message_edit, EditorGone, finish_queued_message_edit,
      expire_queued_message_edit, RunCommand, ResumedTurn, TurnEnds, Tick

\* A cancelled or recovered queue stays paused until the user sends something,
\* through any failed sends, resumed turns, further cancels and restarts and
\* for any number of executors; only a command that a cancel overtook can lift
\* the pause, when its dispatch returns late (interrupt_and_pause_queue,
\* execute, send_queued_now, open).
THEOREM FrozenSafe == Spec => FrozenMeansPaused
<1> DEFINE A == frozen' /\ ~HeldBack' => (frozen /\ ~HeldBack) \/ Overtaken
<1>1. QueueInv /\ [Next]_vars => [A]_vars
  BY PauseStep
<1>2. Spec => []QueueInv
  BY QueueSafe, PTL
<1>3. Spec => [][A]_vars
  BY <1>1, <1>2, PTL DEF Spec
<1>4. [][A]_vars => FrozenMeansPaused
  BY PTL DEF FrozenMeansPaused, Overtaken
<1>5. QED
  BY <1>3, <1>4, PTL
=============================================================================
