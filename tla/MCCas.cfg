CONSTANTS
    Node = {f}
    Ver = {WIP, v}
    WIP = WIP
    Off = {o}
    Hash = {h1, h2}
    NoHash = NoHash
    Thread = {t1, t2}
    MAX_BYTES = 1
    TARGET = 0
    FD_CAP = 1
    WIDTH = 16
    MaxOp = 3
    Damage = {"short"}
    MaxRot = 1
    MaxKill = 1
SYMMETRY Symmetry
SPECIFICATION Spec
INVARIANTS ExactUnlessRaced WarmSurvives PersistComing
PROPERTIES KeepsPromise
CHECK_DEADLOCK FALSE
