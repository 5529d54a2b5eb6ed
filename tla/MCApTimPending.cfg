SPECIFICATION Spec
CHECK_DEADLOCK FALSE
CONSTANTS
    MaxAid = 1
    ByteBits = 1
    SsidLengths = {0, 1}
    Depth = 1
    MaxConfig = 2
INVARIANTS
    PendingIsScheduled
    LowKnowsTim
