SPECIFICATION FairSpec
CONSTANTS
    Handlers = {h1}
    Workers = {w1}
    QueueCap = 1
    MaxBackoff = 1
    Kinds = {"commit", "garbled"}
    MaxEvents = 2
    MaxCrashes = 1
INVARIANTS TypeOK NoGap OneConnection NoTrafficBeforeToken WaitingIsAccounted
PROPERTIES StopEnds QueuedIsHandled TokenStarts
CHECK_DEADLOCK FALSE
