SPECIFICATION Spec
CONSTANTS
    Jobs = {j1}
    Others = {o1}
    NumAutomJobRetries = 1
    FailedNodeLimit = 2
    Transfers = TRUE
    MaxDeferrals = 1
    MaxUnsaved = 1
    MaxRestarts = 1
    MaxResubmits = 1
INVARIANTS
    TypeOK
    RunNumbers
    SuccessIsReal
PROPERTIES
    DagFinishes
CHECK_DEADLOCK FALSE
