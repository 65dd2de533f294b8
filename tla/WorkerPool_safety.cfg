SPECIFICATION Spec
CONSTANTS
    s1 = s1
    s2 = s2
    w1 = w1
    w2 = w2
    w3 = w3
    r1 = r1
    r2 = r2
    Slaves = {s1, s2}
    Works = {w1, w2, w3, r1}
    Recurring = {r1}
    PipeSize = 2
    MaxDeaths = 1
    NoWork = NoWork
SYMMETRY SlavesSymmetry
INVARIANTS
    TypeOK
    WorkidOwnership
    NoCapacityLeak
    GracefulStop

PROPERTIES
    ImplementsDispatch
CHECK_DEADLOCK FALSE
