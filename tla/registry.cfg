SPECIFICATION MCSpec
CONSTANTS
    devA = devA
    devB = devB
    devC = devC
    rowX = rowX
    rowY = rowY
    fldF = fldF
    fldG = fldG
    Https <- OnlyC
    Device <- DevicesABC
    Row <- TwoRows
    Field <- TwoFields
    Clocks <- ClocksABC
    Writes <- LifeOfXY
    Faults <- EveryFault
INVARIANT TypeOK
INVARIANT CursorHonest
PROPERTY RoomNeverRegresses
PROPERTY NoFlicker
PROPERTY EventuallyConverged
PROPERTY RetiredMeansDecided
CHECK_DEADLOCK FALSE
