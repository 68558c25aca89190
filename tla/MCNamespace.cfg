CONSTANTS
    Dir = {d1, d2}
    Name = {x}
    Call = {m1}
    MaxNode = 2
    MaxMutation = 2
    MaxSeed = 1
SYMMETRY Symmetry
SPECIFICATION Spec
INVARIANTS NamesAgree ListingsFresh
CHECK_DEADLOCK FALSE
