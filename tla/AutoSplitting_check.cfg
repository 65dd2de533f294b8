SPECIFICATION Spec
CONSTANTS
    Probes = {p1, p2}
    Processing = {j1, j2}
    Unplaced = {j2}
    Triggers <- ThreeTriggers
    MinTailSize = 1
    MaxRestarts = 1
INVARIANTS
    TypeOK
    EachLumiOnce
PROPERTIES
    EstimatesAreThere
    WavesEnd
CHECK_DEADLOCK FALSE
