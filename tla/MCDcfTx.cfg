CONSTANTS
    ShortLimit = 2
    LongLimit = 2
    Limits <- MCLimits
    RetryWrap = 4
    StationMax = 2
    CwMin = 1
    CwMax = 2
    MaxConfig = 1
SPECIFICATION DcfSpec
INVARIANTS SuccessIsAcked LongMpduOnlyForRts WithinRetryLimits AttemptsReported
PROPERTY FrameCompletes
