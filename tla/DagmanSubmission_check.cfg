SPECIFICATION FairSubmission
CONSTANTS
    Schedds = {s1, s2, s3}
    NoSchedd = NoSchedd
    max_retry = 1
INVARIANTS
    SubmissionTypeOK
    OneDag
    RunningIsRecorded
    SubmittedHasDag
PROPERTIES
    SubmissionEnds
CHECK_DEADLOCK FALSE
