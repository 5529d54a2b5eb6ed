SPECIFICATION FairRebootSpec
CONSTANTS
    NumMpdu = 2
    GeneralLimit = 2
    MaxPending = 2
    MailboxDepth = 2
    NumLowInit = 1
    MaxReboots = 1
INVARIANTS
    RebootHandover
    LeakOnlyInWindow
PROPERTIES
    BuffersReturnAfterReboot
    HighNeverStuck
CHECK_DEADLOCK FALSE
