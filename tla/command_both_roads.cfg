SPECIFICATION Spec
CONSTANTS
    chatTask = chatTask
    retryTask = retryTask
    callA = callA
    ChatTask = chatTask
    Worker <- OneWorker
    Call <- OneCall
    Rowed <- FirstId
    Relayed <- FirstId
    Attached <- Nothing
    Budgets <- RelayFaults
    MaxCmds = 1
INVARIANT EachOnce
CHECK_DEADLOCK FALSE
