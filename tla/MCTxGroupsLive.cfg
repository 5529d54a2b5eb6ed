SPECIFICATION FairSpec
CONSTANTS
    NumMpdu = 3
    GeneralLimit = 1
    DtimLimit = 1
    MaxPending = 2
    MaxQueued = 1
    MaxSwitches = 0
PROPERTIES
    McastServed
