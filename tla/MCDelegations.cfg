CONSTANTS
    Node = {n1}
    Conn = {c1, c2}
    DELEG_CAP = 1
    INVAL_CAP = 1
    MaxChange = 2
    MaxSession = 2
    MaxOther = 2
SPECIFICATION Spec
INVARIANTS TypeOK HeldIsKnown Coherent
SYMMETRY Symmetry
CHECK_DEADLOCK FALSE
