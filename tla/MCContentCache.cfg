CONSTANTS
    N = 2
    Reader = {r1}
    STASH_MAX = 2
    RAM_CAP = 1
    InitSize = {1}
    Tick = {2}
    MaxGuest = 1
    MaxMac = 2
    MaxRead = 1
SPECIFICATION Spec
INVARIANTS CachedIsCurrent
CHECK_DEADLOCK FALSE
