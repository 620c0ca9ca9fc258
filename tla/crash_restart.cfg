SPECIFICATION Spec
CONSTANTS
    devA = devA
    devB = devB
    none = none
    Devices <- TwoDevices
    Batches <- BatchesAB
    Budgets <- CrashOrStray
    Host = devA
    HttpDevices = {}
    Posters = {devA}
    Crashers = {devB}
    Oversize <- FirstOfA
    RowThreshold = 0
    MaxGapRepairs = 1
INVARIANTS
    TypeOK
    CursorRecoverable
    NoLostOps
PROPERTIES
    ImplementsTranscript
CHECK_DEADLOCK FALSE
