CONSTANTS
    Block = {b1, b2}
    WRITE_BEHIND_SLOTS = 2
    BootNonce = TRUE
    MaxWrite = 2
    MaxOther = 1
    MaxOp = 1
    MaxFail = 1
    MaxCrash = 1
SPECIFICATION FairSpec
INVARIANTS TypeOK
PROPERTIES BarrierDurable ReadFresh OverlapsInOrder AllAnswered
CHECK_DEADLOCK FALSE
