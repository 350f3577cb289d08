CONSTANTS
    Listeners = {l1}
    Conns = {c1, c2}
    Faults = {}
    MaxItems = 1
    StartAgain = FALSE
    MaxRecv = 1
    SNSpace = 4
SPECIFICATION Spec
INVARIANT FramesBeginWithTag
CHECK_DEADLOCK FALSE
