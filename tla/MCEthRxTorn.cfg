SPECIFICATION EthSpec
CONSTANTS
    Blocks = {b1, b2, b3}
    Null = Null
    Kinds = {"eth", "ltg", "tim", "join"}
    NumBds = 2
    Spare = 1
    MaxEnqueued = 1
    MaxTotal = 2
    MaxJoin = 0
    Ltgs = {g}
SYMMETRY BlockSymmetry
INVARIANTS
    ListsIntact
