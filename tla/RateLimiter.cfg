SPECIFICATION Spec
CONSTANTS
    Keys = {k1, k2, k3}
    Limit = 2
    Window = 1
    MaxKeys = 1
    MaxTime = 4
SYMMETRY MCSymmetry
INVARIANTS BurstBound RefusedIsOver MapBounded
