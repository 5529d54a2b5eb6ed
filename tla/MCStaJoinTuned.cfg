SPECIFICATION Spec
CONSTANTS
    a = a
    b = b
    c = c
    Nets = {a, b}
    SsidOf <- OwnSsid
    Slots = {s1, s2}
    MaxId = 1
CONSTRAINT Undivided
INVARIANTS
    DataHeard
