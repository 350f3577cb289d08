CONSTANTS
    Listeners = {l1}
    Conns = {c1, c2}
    Faults = {}
    MaxItems = 2
    StartAgain = FALSE
    MaxRecv = 0
    SNSpace = 4
SPECIFICATION Spec
INVARIANTS
    TypeOK
    SentPacketsCounted
    StopIsComplete
    OnlyLastCut
    NothingLostWhileServed
PROPERTIES
    ImplementsRelay
CHECK_DEADLOCK FALSE
