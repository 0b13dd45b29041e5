SPECIFICATION Spec
CONSTANTS
    Clients = {c1}
    Versions = {v1}
    NoVersion = NoVersion
    Batches = 2
    MaxNumber = 1
    MaxCrashes = 1
    Outcomes = {"ok"}
    Overlap = FALSE
CHECK_DEADLOCK FALSE
INVARIANTS
    ImportNeverAborts
