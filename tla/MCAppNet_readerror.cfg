CONSTANTS
    Listeners = {l1}
    Conns = {c1}
    Faults = {"reset"}
    MaxItems = 1
    StartAgain = FALSE
    MaxRecv = 0
    SNSpace = 4
SPECIFICATION Spec
INVARIANT ReadErrorsHandled
CHECK_DEADLOCK FALSE
