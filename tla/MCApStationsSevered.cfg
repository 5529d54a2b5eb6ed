SPECIFICATION Spec
CONSTANTS
    Stations = {a, b}
    Mcast = mcast
    Infos = {i1, i2}
    Pool = 1
    Buffers = 1
    MaxQueue = 1
    MaxAssoc = 2
    MaxAuth = 1
SYMMETRY Symmetry
INVARIANT EntriesKept
