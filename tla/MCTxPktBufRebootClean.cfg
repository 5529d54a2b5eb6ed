SPECIFICATION RebootSpec
CONSTANTS
    NumMpdu = 2
    GeneralLimit = 2
    MaxPending = 2
    MailboxDepth = 2
    NumLowInit = 1
    MaxReboots = 1
INVARIANTS
    LowBootCleansUp
CHECK_DEADLOCK FALSE
