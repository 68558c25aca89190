CONSTANTS
    Dir = {d1, d2}
    Name = {x}
    Call = {}
    MaxNode = 2
    MaxMutation = 1
    MaxSeed = 1
SYMMETRY Symmetry
SPECIFICATION Spec
INVARIANTS ConsistentCut
CHECK_DEADLOCK FALSE
