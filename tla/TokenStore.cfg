SPECIFICATION Spec
CONSTANTS
    DIDs = {d1, d2}
    Tokens = {t1, t2}
    Apps = {a1, a2}
    Procs = {p1, p2, p3}
    MaxTokensPerDID = 1
    None = None
    ReadsMayFail = TRUE
SYMMETRY MCSymmetry
INVARIANTS TypeOK CapRespected SnapshotInv MirrorExact
PROPERTY RegistrySpec
