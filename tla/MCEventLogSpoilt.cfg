SPECIFICATION Spec
CONSTANTS
    Size = 30
    NodeInfoEntry = 4
    Sizes = {4, 6}
    Burst = 1
INVARIANT NodeInfoFirst
