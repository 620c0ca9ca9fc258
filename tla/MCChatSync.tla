----------------------------- MODULE MCChatSync -----------------------------
(***************************************************************************)
(* Small instances of ChatSync: one or two devices, two or three updates,   *)
(* and the fault budgets of each run, one of which it may use up.          *)
(***************************************************************************)
EXTENDS ChatSync

CONSTANTS
    devA, devB,  \* the devices
    none         \* a chat hosted by none of them

TwoDevices == {devA, devB}

\* The updates of a run, named after their authors.
BatchesAB == {<<devA, 1>>, <<devB, 1>>}
BatchesAAB == {<<devA, 1>>, <<devA, 2>>, <<devB, 1>>}
BatchesBB == {<<devB, 1>>, <<devB, 2>>}

FirstOfA == {<<devA, 1>>}

Budget(kinds) == [k \in FaultKinds |-> IF k \in kinds THEN 1 ELSE 0]

NoFaults == {Budget({})}
OneHttp == {Budget({"http"})}
CrashOrStray == {Budget({"crash"}), Budget({"drop", "stray"})}
QuotasOrLate == {[Budget({}) EXCEPT !["quota"] = 2], Budget({"late"})}
=============================================================================
