CONSTANTS
    Dir = {d1, d2}
    KERNEL_QUEUE = 1
    CHANNEL_DEPTH = 1
    MAX_RECORDS = 1
    BROADCAST_DEPTH = 1
    MaxChange = 2
    MaxSession = 2
SPECIFICATION FairSpec
INVARIANTS TypeOK Converged NeverHalfBuilt
PROPERTIES Settles
CHECK_DEADLOCK FALSE
