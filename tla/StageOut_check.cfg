SPECIFICATION Spec
CONSTANTS
    f1 = f1
    f2 = f2
    Files = {f1, f2}
    Bounds <- TwoRunsOrTwoFiles
INVARIANTS
    TypeOK
    FilesAreRight
    SubmittedIsTracked
PROPERTIES
    RowSettles
CHECK_DEADLOCK FALSE
