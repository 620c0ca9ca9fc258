SPECIFICATION FairSpec
CONSTANTS
    m1 = m1
    m2 = m2
    m3 = m3
    Msg <- ThreeMsgs
    Steers <- OneSteer
    Rich <- OneRich
    First = m1
    MaxRuns = 4
    Capacity = 2
    Budgets <- FaultOrRetry
INVARIANT TypeOK
INVARIANT LedgerIsUnconfirmed
INVARIANT OneOwner
PROPERTY StaleExitKeepsNewRun
PROPERTY EveryMessageRuns
PROPERTY CancelSettles
CHECK_DEADLOCK FALSE
