SPECIFICATION FairSpec
CONSTANTS
    Tasks = {t1}
    Clients = {c1}
    TWs = {w1, w2}
    Slots = {s1}
    Rejected = {}
    BannedTasks = {}
    DryRunTasks = {}
    TapeTasks = {t1}
    AutoTasks = {}
    RecallTWs = {w1}
    MaxRequests = 1
    MaxFaults = 0
    MaxCrashes = 1
    NoTW = NoTW
    NoTask = NoTask
PROPERTIES
    TasksSettle
