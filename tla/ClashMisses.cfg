SPECIFICATION WorkspaceSpec
CONSTANTS
    MaxVersion = 3
    MaxRestarts = 2
    Overlap = FALSE
    Clients = {c1, c2, c3}
    Models = {m1, m2}
    VersionIds = {v1, v2, v3}
    Blobs = {b1, b2}
    NoBlob = NoBlob
    Requests = {"upload", "fast", "delete", "delete_model"}
    Groups = {{"upload", "fast"}, {"delete"}}
    MaxFaults = 1
    CrashAt = {"link", "move", "create", "winner", "version", "del_version", "del_model",
               "release", "del_file"}
    PartsTotal = 2
    Completes = {d1, d2}
    NoFile = NoFile
    OverlapUpload = FALSE
    MaxRuns = 2
    MaxDrops = 1
    MaxApiRestarts = 1
    Keys = {"k1", "k2"}
    Loads = 2
    MaxArtifacts = 1
    Users = {"u1", "u2"}
    Projects = {"p1", "p2"}
    Topics = 2
    Imports = {"i1", "i2"}
    NoOne = "none"
    MaxChanges = 1
    OverlapImport = FALSE
    MaxCrashes = 1
    ReportVersions = {"r1", "r2"}
    Axes = {0, 1}
    Sweep = 0
    Tables <- MCTables
    Tolerances = {0, 1}
CHECK_DEADLOCK FALSE
INVARIANT EveryClashIsFound
