SPECIFICATION Spec
CONSTANTS
    Tasks = {t1, t2}
    Clients = {c1}
    TWs = {w1, w2}
    Slots = {s1}
    Rejected = {"KILL"}
    BannedTasks = {t2}
    DryRunTasks = {t1}
    TapeTasks = {}
    AutoTasks = {t1}
    RecallTWs = {}
    MaxRequests = 1
    MaxFaults = 1
    MaxCrashes = 1
    NoTW = NoTW
    NoTask = NoTask
INVARIANTS
    NoConcurrentWork
