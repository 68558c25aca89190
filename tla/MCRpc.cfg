CONSTANTS
    N = 3
    Reads = {1, 2}
    Size = 2
    Permits = 1
    OutCap = 1
    MaxShrink = 2
    NoHead = NoHead
SPECIFICATION FairSpec
INVARIANTS ReadExact SinksGo
PROPERTIES AllReturn
CHECK_DEADLOCK FALSE
