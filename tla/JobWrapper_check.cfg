SPECIFICATION Spec
CONSTANTS
    NumOutputs = 2
    AppCodes = {0, 8001, 10240}
    MaxRestarts = 1
    Setups <- Ads
INVARIANTS
    TypeOK
    ReportedIsStored
    SuccessIsStored
CHECK_DEADLOCK FALSE
