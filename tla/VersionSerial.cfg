SPECIFICATION Spec
CONSTANTS
    Clients = {c1, c2}
    Versions = {v1, v2}
    NoVersion = NoVersion
    Batches = 2
    MaxNumber = 2
    MaxCrashes = 2
    Outcomes = {"ok", "fail"}
    Overlap = FALSE
CHECK_DEADLOCK FALSE
INVARIANTS ImportsAreWhole NumbersUnique
PROPERTIES ReadyArtifactsImmutable FollowsStatusMachine
