SPECIFICATION FairSpec
CONSTANTS
    Jobs = {j1, j2}
    NoJob = NoJob
    Managers = {m1, m2}
    MaxConcurrent = 1
    MaxStops = 1
CHECK_DEADLOCK FALSE
INVARIANTS
    CountIsExact
    OkMeansProduced
PROPERTIES OpenJobsSettle RunsEnd
