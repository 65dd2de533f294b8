SPECIFICATION Spec
CONSTANTS
    Files = {1, 2, 3}
    Parents = {p1}
    MaxFiles = 2
    PerBlock = 2
    Bounds <- Mixed
INVARIANTS
    TypeOK
    DoneIsPublished
PROPERTIES
    RequestSettles
CHECK_DEADLOCK FALSE
