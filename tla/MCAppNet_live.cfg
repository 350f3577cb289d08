CONSTANTS
    Listeners = {l1, l2}
    Conns = {c1}
    Faults = {}
    MaxItems = 2
    StartAgain = FALSE
    MaxRecv = 1
    SNSpace = 4
SPECIFICATION FairSpec
PROPERTIES
    StopReturnsWhileServing
    QueuedIsSent
    ClosedClientReleased
CHECK_DEADLOCK FALSE
