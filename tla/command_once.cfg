SPECIFICATION FairSpec
CONSTANTS
    chatTask = chatTask
    retryTask = retryTask
    callA = callA
    ChatTask = chatTask
    Worker <- TwoWorkers
    Call <- OneCall
    Rowed <- BothIds
    Relayed <- FirstId
    Attached <- SecondMessage
    Budgets <- LedgerFaults
    MaxCmds = 2
PROPERTY NotTakenUpAgain
PROPERTY EveryRowResolved
CHECK_DEADLOCK FALSE
