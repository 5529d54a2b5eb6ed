SPECIFICATION Spec
CONSTANTS
    NumMpdu = 4
    GeneralLimit = 2
    DtimLimit = 1
    MaxPending = 3
    MaxQueued = 1
    MaxSwitches = 0
INVARIANTS
    AvailableCanBeFilled
