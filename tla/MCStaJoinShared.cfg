SPECIFICATION Spec
CONSTANTS
    a = a
    b = b
    c = c
    Nets = {a, b, c}
    SsidOf <- SharedSsid
    Slots = {s1, s2}
    MaxId = 1
CONSTRAINT Undivided
INVARIANTS
    SchedulesOwned
    DataOnChannel
    ActiveKept
PROPERTIES
    JoinsRequested
    BssidJoined
