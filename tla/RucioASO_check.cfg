CONSTANTS
    f1 = f1
    f2 = f2
    Files = {f1, f2}
    Chunk = 1
    MaxFiles = 2
    Bounds <- Mixed
SPECIFICATION Spec
INVARIANTS
    TypeOK
    ToldIsThere
PROPERTIES
    DatasetsAreFinal
    CopiedIsReported
CHECK_DEADLOCK FALSE
