SPECIFICATION Spec
CONSTANTS
    m1 = m1
    m2 = m2
    m3 = m3
    Msg <- ThreeMsgs
    Steers <- OneSteer
    Rich <- OneRich
    First = m1
    MaxRuns = 2
    Capacity = 2
    Budgets <- OneFault
INVARIANT NoMessageStranded
CHECK_DEADLOCK FALSE
