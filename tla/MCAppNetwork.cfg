CONSTANTS
    SNSpace = 4
    Second = 2
    Modes = {0, 1}
    Sizes = {3}
    TripTimes = {0}
    MaxArrivals = 4
    MaxClock = 1
    Senders = {s1, s2}
    MaxSent = 4
SPECIFICATION NetworkSpec
SYMMETRY Symmetry
INVARIANTS
    NetworkTypeOK
    OneLossTooMany
    InvalidAreKnownNumbers
    NothingDroppedInOrder
    ErrorRateLagsBehind
PROPERTIES
    ImplementsOrderedDelivery
CHECK_DEADLOCK FALSE
