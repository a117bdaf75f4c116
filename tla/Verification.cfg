SPECIFICATION Spec
CONSTANTS
    Records = {v1, v2}
    None = None
    Workers = {w1, w2}
    QueueCap = 2
    MaxReplays = 2
SYMMETRY MCSymmetry
INVARIANTS IndexExact LastWord
