SPECIFICATION FairSpec
CONSTANTS
    s1 = s1
    s2 = s2
    w1 = w1
    w2 = w2
    w3 = w3
    r1 = r1
    r2 = r2
    Slaves = {s1}
    Works = {w1, w2, r1, r2}
    Recurring = {r1, r2}
    PipeSize = 4
    MaxDeaths = 1
    NoWork = NoWork
PROPERTIES
    WorkCollected
    StopsEventually
CHECK_DEADLOCK FALSE
