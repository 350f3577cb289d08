CONSTANTS
    Listeners = {l1, l2}
    Conns = {c1, c2}
    Faults = {"setup", "thread", "accept", "select", "reset"}
    MaxItems = 1
    StartAgain = TRUE
    MaxRecv = 0
    SNSpace = 4
SPECIFICATION Spec
SYMMETRY Symmetry
INVARIANTS
    PopFromNonEmpty
    PushedMessagesAccounted
    OpenConnectionServed
    StopIsComplete
    QueuedHasTimer
PROPERTIES
    NoUseAfterDelete
    StopGoesStraight
CHECK_DEADLOCK FALSE
