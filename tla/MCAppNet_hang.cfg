CONSTANTS
    Listeners = {l1}
    Conns = {c1}
    Faults = {}
    MaxItems = 1
    StartAgain = FALSE
    MaxRecv = 0
    SNSpace = 4
SPECIFICATION FairSpec
PROPERTY StopReturns
CHECK_DEADLOCK FALSE
