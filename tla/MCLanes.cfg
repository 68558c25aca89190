CONSTANTS
    PING_MISSES = 3
    BULK_WAIT = 5
    Cached = {"dead"}
    MaxFault = 1
    MaxChange = 2
SPECIFICATION FairSpec
INVARIANTS StartHeard SeededIsCurrent
PROPERTIES Recovers
CHECK_DEADLOCK FALSE
