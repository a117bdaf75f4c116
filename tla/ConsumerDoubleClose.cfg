SPECIFICATION Spec
CONSTANTS
    Handlers = {h1, h2}
    Workers = {w1}
    QueueCap = 1
    MaxBackoff = 2
    Kinds = {"commit"}
    MaxEvents = 0
    MaxCrashes = 0
INVARIANT NoDoubleClose
CHECK_DEADLOCK FALSE
