SPECIFICATION Spec
CONSTANTS
    DIDs = {d1}
    Tokens = {t1, t2}
    Apps = {a1}
    Procs = {p1, p2}
    MaxTokensPerDID = 2
    None = None
    ReadsMayFail = FALSE
INVARIANT NoHolderForgotten
