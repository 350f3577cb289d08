CONSTANTS
    Listeners = {l1}
    Conns = {c1, c2}
    Faults = {"accept"}
    MaxItems = 1
    StartAgain = FALSE
    MaxRecv = 2
    SNSpace = 4
SPECIFICATION Spec
SYMMETRY Symmetry
INVARIANTS
    FramesUninterrupted
CHECK_DEADLOCK FALSE
