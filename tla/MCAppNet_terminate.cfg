CONSTANTS
    Listeners = {l1}
    Conns = {c1}
    Faults = {}
    MaxItems = 1
    StartAgain = FALSE
    MaxRecv = 0
    SNSpace = 4
SPECIFICATION Spec
INVARIANT JoinedBeforeDelete
CHECK_DEADLOCK FALSE
