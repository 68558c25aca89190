CONSTANTS
    Root = r
    Node = {r, a, f}
    DirNode = {r, a}
    Name = {x, y}
    NoNode = NoNode
    Stat = {s1, s2}
    NoStat = NoStat
    Placeholder = Placeholder
    Version = {0, 1}
    MAX_PENDING = 1
    MaxSnap = 1
    MaxRec = 3
    AttrOmitted = TRUE
SYMMETRY Symmetry
SPECIFICATION Spec
INVARIANTS TypeOK NoPrematureRemoval CookiesDistinct StatsExact
PROPERTIES CookiesNeverReused AttrsFollowRecords StashConsumed
CHECK_DEADLOCK FALSE
