SPECIFICATION Spec
CONSTANTS
    Tasks = {t1}
    Clients = {c1, c2}
    TWs = {w1}
    Slots = {s1, s2}
    Rejected = {}
    BannedTasks = {}
    DryRunTasks = {}
    TapeTasks = {t1}
    AutoTasks = {}
    RecallTWs = {w1}
    MaxRequests = 2
    MaxFaults = 1
    MaxCrashes = 1
    NoTW = NoTW
    NoTask = NoTask
SYMMETRY Symmetry
INVARIANTS
    TypeOK
    QueuedAccounted
    RowAndDagAgree
PROPERTIES
    ImplementsDiagram
