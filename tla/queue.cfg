SPECIFICATION MCSpec
CONSTANTS
    r1 = r1
    r2 = r2
    t1 = t1
    t2 = t2
    e1 = e1
    e2 = e2
    l1 = l1
    l2 = l2
    docTask = docTask
    relay = relay
    Row <- TwoRows
    Text <- TwoTexts
    Editor <- TwoEditors
    Lease <- TwoLeases
    Executor <- TwoExecutors
    Faults <- OnceEach
    Steers <- AnyHarness
    LeaseTicks = 2
    MaxTime = 2
INVARIANT TypeOK
INVARIANT EveryRowInOnePlace
INVARIANT LeaseExcludesDelivery
PROPERTY FrozenMeansPaused
PROPERTY CommitOverwritesOnlySeenText
PROPERTY NoWedge
PROPERTY OverdueEditsSurface
CHECK_DEADLOCK FALSE
