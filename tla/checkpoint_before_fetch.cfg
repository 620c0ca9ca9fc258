SPECIFICATION Spec
CONSTANTS
    devA = devA
    devB = devB
    none = none
    Devices <- TwoDevices
    Batches <- BatchesAAB
    Budgets <- NoFaults
    Host = devA
    HttpDevices = {}
    Posters = {devA, devB}
    Crashers = {}
    Oversize = {}
    RowThreshold = 0
    MaxGapRepairs = 1
INVARIANTS
    RoomKeepsEveryOp
CHECK_DEADLOCK FALSE
