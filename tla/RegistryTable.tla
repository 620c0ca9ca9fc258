--------------------------- MODULE RegistryTable ---------------------------
(***************************************************************************)
(* The merge rules of the workspace registry: rows of independently        *)
(* clocked fields, the three ops on them, and what the registry room does   *)
(* with a batch of ops and with a client's cursor.  The same rules exist    *)
(* twice in the program, edge/src/registry-core.ts for the room and         *)
(* crates/doc/src/registry.rs for the client; they are stated once here.    *)
(*                                                                         *)
(* A hybrid logical clock is a positive natural number: only its total      *)
(* order matters, and 0 stands for "never written".  A field's value is     *)
(* identified with the clock of the write that put it there, so a row       *)
(* records which fields hold a value and each field's clock.                *)
(***************************************************************************)
EXTENDS Naturals, FiniteSets, FiniteSetsExt

CONSTANTS
    Row,    \* the (kind, id) pairs
    Field   \* the fields of a row

ASSUME TableAssumption == IsFiniteSet(Row) /\ IsFiniteSet(Field)

NoClocks == [f \in Field |-> 0]

\* A row the table does not hold.  Every rule treats it as a tombstone that
\* is older than any clock, so it is represented as one.
Absent ==
    [deleted |-> TRUE, delHlc |-> 0, fields |-> {}, clocks |-> NoClocks, seq |-> 0]

RowType ==
    [deleted : BOOLEAN, delHlc : Nat, fields : SUBSET Field,
     clocks : [Field -> Nat], seq : Nat]

\* `set` is the fields an op writes, `nulls` those it writes null to.
OpType ==
    [op : {"upsert", "update", "delete"}, set : SUBSET Field,
     nulls : SUBSET Field, hlc : Nat, clocks : [Field -> Nat]]

\* The rows a table holds.
Held(table) == {r \in Row : table[r] # Absent}

maxClock(row) == Max({row.delHlc} \cup {row.clocks[f] : f \in Field})

\* Mutant: the delete is compared with the tombstone clock only.
DeleteWinsOverFields(row, hlc) == hlc > row.delHlc

\* A delete wins over a tombstone it is newer than, and over a live row every
\* clock of which it is newer than (a tombstone has no field clocks).
DeleteWins(row, hlc) == hlc > row.delHlc /\ \A f \in Field : hlc > row.clocks[f]

\* An update never creates or revives; an upsert revives what it is newer than.
Admitted(row, op) == row.deleted => op.op = "upsert" /\ op.hlc > row.delHlc

apply_op(row, op) ==
    IF op.op = "delete"
    THEN IF DeleteWins(row, op.hlc)
         THEN [row EXCEPT !.deleted = TRUE, !.delHlc = op.hlc,
                          !.fields = {}, !.clocks = NoClocks]
         ELSE row
    ELSE IF ~Admitted(row, op) THEN row
    ELSE LET won == {f \in op.set : op.clocks[f] > row.clocks[f]}
         IN  [row EXCEPT !.deleted = FALSE,
                         !.fields = (@ \ won) \cup (won \ op.nulls),
                         !.clocks = [f \in Field |-> IF f \in won THEN op.clocks[f]
                                                                  ELSE @[f]]]

\* A row as the op that seeds it again, with the row's original clocks.
row_to_seed_op(row) ==
    IF row.deleted
    THEN [op |-> "delete", set |-> {}, nulls |-> {},
          hlc |-> row.delHlc, clocks |-> NoClocks]
    ELSE [op |-> "upsert", set |-> row.fields, nulls |-> {},
          hlc |-> maxClock(row), clocks |-> row.clocks]

-----------------------------------------------------------------------------
(* The room: its table, the number of its last accepted batch, and the      *)
(* highest number a purged tombstone had.  A batch holds at most one op for *)
(* a row (every writer in the client builds it so): a function from rows.   *)

EmptyRoom == [rows |-> [r \in Row |-> Absent], seq |-> 0, gcFloor |-> 0]

\* The rows a batch changes.
Touched(room, ops) == {r \in DOMAIN ops : apply_op(room.rows[r], ops[r]) # room.rows[r]}

applyPushBatch(room, ops) ==
    IF Touched(room, ops) = {} THEN room
    ELSE [room EXCEPT
            !.seq = @ + 1,
            !.rows = [r \in Row |->
                        IF r \in Touched(room, ops)
                        THEN [apply_op(@[r], ops[r]) EXCEPT !.seq = room.seq + 1]
                        ELSE @[r]]]

\* The frame broadcast for a batch that changed something.
RowsFrame(room, ops) ==
    LET after == applyPushBatch(room, ops)
    IN  [t |-> "rows", seq |-> after.seq,
         rows |-> [r \in Touched(room, ops) |-> after.rows[r]]]

\* The answer to a hello, and to GET /rows?since=.
StateFrame(room, cursor) ==
    LET full == cursor < room.gcFloor \/ cursor > room.seq
    IN  [t |-> "state", seq |-> room.seq, full |-> full,
         rows |-> [r \in {x \in Held(room.rows) : full \/ room.rows[x].seq > cursor}
                     |-> room.rows[r]]]

\* The tombstones the daily alarm purges, and the room after it.
Purgeable(room, horizon) ==
    {r \in Held(room.rows) : room.rows[r].deleted /\ room.rows[r].delHlc < horizon}

PurgeTombstones(room, horizon) ==
    LET gone == Purgeable(room, horizon)
    IN  [room EXCEPT
           !.rows = [r \in Row |-> IF r \in gone THEN Absent ELSE @[r]],
           !.gcFloor = Max({@} \cup {room.rows[r].seq : r \in gone})]
=============================================================================
