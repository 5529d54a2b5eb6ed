SPECIFICATION Spec
CHECK_DEADLOCK FALSE
CONSTANTS
    MaxAid = 2
    ByteBits = 2
    SsidLengths = {0}
    Depth = 1
    MaxConfig = 2
INVARIANTS
    FrameLengthCounted
    TimOrPending
PROPERTIES
    SentUnchanged
    BeaconComesBack
