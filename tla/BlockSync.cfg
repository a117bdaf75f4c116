SPECIFICATION Spec
CONSTANTS
    d1 = d1
    d2 = d2
    DIDs <- MCDIDs
    Pairs <- MCPairs
    RKeys = {1, 2}
    PairOf <- MCPairOf
    NoRKey = 0
    Workers = {w1, w2}
    Procs <- MCProcs
    QueueCap = 2
    PageSize = 1
    MaxPages = 2
    Leavers <- MCLeavers
    Faults = {"drop", "restart", "storeError", "fetchError"}
SYMMETRY MCSymmetry
INVARIANTS StoreTypeOK BlockMirrorExact SyncExact NoPhantomUnlessTainted
CHECK_DEADLOCK FALSE
