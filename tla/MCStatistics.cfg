CONSTANTS
    SNSpace = 4
    Second = 2
    Modes = {0, 1}
    Sizes = {3}
    MaxArrivals = 5
    MaxClock = 4
    TripTimes = {1}
SPECIFICATION StatSpec
INVARIANTS
    StatTypeOK
    EveryPacketCountedOnce
    LossAccounting
    ForwardedIncreasing
    MarkedOnce
    DuplicateTestSound
    ThroughputWindow
    FTTVarianceNotNegative
PROPERTIES
    NothingAfterLastSequenceNumber
CHECK_DEADLOCK FALSE
