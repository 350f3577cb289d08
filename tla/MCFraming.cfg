CONSTANTS
    Width = 2
    BufferSize = 2
    Lengths = {0, 1, 2, 3}
    MaxFrames = 2
SPECIFICATION FramingSpec
INVARIANTS
    FramingTypeOK
    WholeUnlessCut
    OneMessagePerFrame
    GoodClientKept
PROPERTIES
    ReceiveReturns
    FramesReceived
CHECK_DEADLOCK FALSE
