SPECIFICATION Spec
CONSTANTS
    devA = devA
    devB = devB
    rowX = rowX
    rowY = rowY
    fldF = fldF
    fldG = fldG
    Https <- OnlyA
    Device <- DevicesAB
    Row <- OneRow
    Field <- OneField
    Clocks <- ClocksBTwice
    Writes <- CreateDeleteX
    Faults <- OneDrop
INVARIANT OfflineCursorHonest
CHECK_DEADLOCK FALSE
