SPECIFICATION Spec
CONSTANTS
    devA = devA
    devB = devB
    none = none
    Devices <- TwoDevices
    Batches <- BatchesAB
    Budgets <- OneHttp
    Host = devA
    HttpDevices = {devB}
    Posters = {devA}
    Crashers = {}
    Oversize = {}
    RowThreshold = 0
    MaxGapRepairs = 1
INVARIANTS
    CursorHonest
    CursorRecoverable
    QuietMeansComplete
CHECK_DEADLOCK FALSE
