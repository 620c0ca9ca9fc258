SPECIFICATION FairSpec
CONSTANTS
    devA = devA
    devB = devB
    none = none
    Devices <- TwoDevices
    Batches <- BatchesBB
    Budgets <- QuotasOrLate
    Host = devA
    HttpDevices = {}
    Posters = {devA}
    Crashers = {}
    Oversize = {}
    RowThreshold = 1
    MaxGapRepairs = 2
INVARIANTS
    JournaledUntilLogged
    RoomKeepsEveryOp
PROPERTIES
    EveryWriteReachesRoom
    EventuallyConverged
CHECK_DEADLOCK FALSE
