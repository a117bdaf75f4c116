SPECIFICATION Spec
CONSTANTS
    Keys = {k1, k2, k3, k4, k5}
    Callers = {c1, c2}
    None = None
    MaxSize = 4
    Share = 2
    TTL = 2
    NegativeTTL = 1
    Timeout = 1
    CacheFailures = TRUE
    Failing = {k1}
    MaxTime = 3
SYMMETRY MCSymmetry
INVARIANTS TypeOK FreshnessBound
PROPERTY OldestGoFirst
