----------------------------- MODULE MCRegistry -----------------------------
(***************************************************************************)
(* Constants of the small instances of RegistrySync.                       *)
(***************************************************************************)
EXTENDS RegistrySync

CONSTANTS devA, devB, rowX, rowY, fldF, fldG

DevicesAB == {devA, devB}
OnlyA == {devA}
OneRow == {rowX}
TwoRows == {rowX, rowY}
OneField == {fldF}
TwoFields == {fldF, fldG}

\* Who can stamp which clocks, so who writes how often and who is ahead.
ClocksBTwice == devA :> {} @@ devB :> {1, 2}

W(op, rows, set, nulls) == [op |-> op, rows |-> rows, set |-> set, nulls |-> nulls]

\* Create one of two rows, clear a field of the first, delete both together.
LifeOfXY ==
    {W("upsert", {rowX}, {fldF, fldG}, {}), W("upsert", {rowY}, {fldF}, {}),
     W("update", {rowX}, {fldG}, {fldG}), W("delete", {rowX, rowY}, {}, {})}
CreateDeleteX == {W("upsert", {rowX}, {fldF}, {}), W("delete", {rowX}, {}, {})}

\* At most one of each fault named, n of them altogether.
Upto(n, names) ==
    [x \in FaultKinds |-> IF x = "any" THEN n ELSE IF x \in names THEN 1 ELSE 0]
OneDrop == Upto(1, {"drop"})
=============================================================================
