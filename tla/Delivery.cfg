SPECIFICATION Spec
CONSTANTS
    a = a
    b = b
    c = c
    d1 = d1
    d2 = d2
    None = None
    DIDs = {a, b, c}
    Devices = {d1, d2}
    Workers = {w1, w2}
    Events <- MCEvents
    Clients <- MCClients
    BlockPairs <- MCBlocks
    Platform <- MCPlatform
    ExpoTokens = {d2}
    Configured = {"fcm"}
    Faults = {"readFails", "deleteFails"}
INVARIANTS TypeOK OnlyWelcome OncePerEngagement LiveRowKept
SYMMETRY MCSymmetry
PROPERTY NoOneForgotten
