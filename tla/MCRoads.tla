------------------------------ MODULE MCRoads ------------------------------
(***************************************************************************)
(* An instance of RegistrySync for TLC.  Which devices are in use is chosen  *)
(* at the start of a behaviour and kept: two that have only their sockets,   *)
(* with one fault of five kinds, or one with the HTTPS task beside its       *)
(* socket, with two faults of four kinds.                                    *)
(***************************************************************************)
EXTENDS MCRegistry

CONSTANT devC

DevicesABC == {devA, devB, devC}
OnlyC == {devC}
ClocksABC == devA :> {1} @@ devB :> {2} @@ devC :> {3}
EveryFault == Upto(2, FaultKinds)

VARIABLE road    \* the transports of this behaviour

InUse == IF road = "socket" THEN {devA, devB} ELSE {devC}
Happens ==
    IF road = "socket" THEN {"drop", "lose", "save", "crash", "purge"}
    ELSE {"drop", "fail", "reset", "purge"}
Bounded ==
    /\ \A x \in FaultKinds \ (Happens \cup {"any"}) : left'[x] = left[x]
    /\ road = "socket" => left'["any"] >= 1

MCInit == Init /\ road \in {"socket", "https"}
MCNext == (RoomStep \/ \E d \in InUse : Step(d)) /\ Bounded /\ UNCHANGED road

\* Fair to the devices that have only their sockets: a liveness property speaks
\* of the behaviours in which those two are in use.
MCSpec ==
    /\ MCInit /\ [][MCNext]_<<vars, road>>
    /\ \A d \in Device \ Https : WF_vars(Progress(d))
=============================================================================
