SPECIFICATION RebootSpec
CONSTANTS
    NumMpdu = 2
    GeneralLimit = 2
    MaxPending = 2
    MailboxDepth = 2
    NumLowInit = 2
    MaxReboots = 1
INVARIANTS
    DoneHandlerSucceeds
CHECK_DEADLOCK FALSE
