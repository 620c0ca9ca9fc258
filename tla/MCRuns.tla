------------------------------- MODULE MCRuns -------------------------------
(***************************************************************************)
(* Instances of RunMailbox for TLC.                                        *)
(***************************************************************************)
EXTENDS RunMailbox, TLC

CONSTANTS m1, m2, m3

ThreeMsgs == {m1, m2, m3}
OneSteer == {m2}
OneRich == {m3}

\* How often each optional step of a run may happen, and all of them together:
\* three messages and one fault, or two messages, a startup crash that is retried
\* and another fault.
Kinds == {"die", "fail", "reap", "retry", "cancel"}
Budget(sends, kinds, any) ==
    [k \in Kinds \cup {"send", "any"} |->
        IF k = "send" THEN sends ELSE IF k = "any" THEN any
        ELSE IF k \in kinds THEN 1 ELSE 0]
OneFault == {Budget(1, Kinds, 1)}
FaultOrRetry == {Budget(2, Kinds \ {"retry"}, 1), Budget(1, Kinds, 3)}
=============================================================================
