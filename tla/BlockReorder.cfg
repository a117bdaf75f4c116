SPECIFICATION Spec
CONSTANTS
    d1 = d1
    d2 = d2
    DIDs <- MCDIDs
    Pairs <- MCPairs
    RKeys = {1}
    PairOf <- MCPairOf
    NoRKey = 0
    Workers = {w1, w2}
    Procs <- MCProcs
    QueueCap = 3
    PageSize = 1
    MaxPages = 2
    Leavers <- MCLeavers
    Faults = {}
SYMMETRY MCSymmetry
INVARIANT UnblockTakesEffect
CHECK_DEADLOCK FALSE
