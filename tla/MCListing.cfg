CONSTANTS
    Name = {a, b, c}
    Node = {1, 2}
    Long = {a}
    FIRST_COOKIE = 3
    COMPACT_MIN = 2
    MAX_ENTRIES = 4
    Budget = {2}
    MaxChange = 4
SPECIFICATION Spec
INVARIANTS IndexExact ListedOnce
PROPERTIES ListingEnds IsTable
