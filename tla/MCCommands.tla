----------------------------- MODULE MCCommands -----------------------------
(***************************************************************************)
(* Instances of CommandLedger for TLC.                                     *)
(***************************************************************************)
EXTENDS CommandLedger, TLC

CONSTANTS chatTask, retryTask, callA

OneWorker == {chatTask}
TwoWorkers == {chatTask, retryTask}
OneCall == {callA}

\* Both commands have a row, the first is forwarded as well.
BothIds == {1, 2}
FirstId == {1}
SecondMessage == {2}
Nothing == {}

Kinds == {"run", "interrupt", "retry", "expire", "fail", "relay", "crash"}
Budget(kinds, any) ==
    [k \in Kinds \cup {"any"} |-> IF k = "any" THEN any ELSE IF k \in kinds THEN 1 ELSE 0]

LedgerFaults ==
    {[Budget(Kinds \ {"interrupt"}, 4) EXCEPT !["relay"] = 2], Budget({"run", "interrupt", "crash"}, 3)}
RelayFaults == {Budget({"run", "relay"}, 2)}
=============================================================================
