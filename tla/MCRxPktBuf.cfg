CONSTANTS
    NumRx = 2
    Depth = 2
    MaxReads = 2
    MaxReboots = 1
SPECIFICATION Spec
INVARIANTS PhyWritesAlone ReadyAnnounced ReadsAnswered
PROPERTY LowReceives
