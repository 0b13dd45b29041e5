SPECIFICATION ConvertingSpec
CONSTANTS
    Clients = {c1, c2}
    Versions = {v1}
    NoVersion = NoVersion
    Batches = 1
    MaxNumber = 1
    MaxCrashes = 1
    Outcomes = {"ok", "fail"}
    Overlap = TRUE
    Jobs = {j1, j2, j3, j4}
    NoJob = NoJob
    Size = 2
CHECK_DEADLOCK FALSE
INVARIANTS
    NoAbandonedVersion LateProgressHarmless WaitingJobsAreHeld
PROPERTIES EverySubmissionSettles OutcomesAreTrue JobsSettle
