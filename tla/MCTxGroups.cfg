SPECIFICATION Spec
CONSTANTS
    NumMpdu = 3
    GeneralLimit = 1
    DtimLimit = 1
    MaxPending = 2
    MaxQueued = 1
    MaxSwitches = 2
INVARIANTS
    GroupLimits
    ListsConsistent
    HeadKept
    MoreDataHonest
    NoLostWakeup
