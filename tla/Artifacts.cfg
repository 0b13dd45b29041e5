SPECIFICATION ArtifactsSpec
CONSTANTS
    Storeys = {"s1", "none"}
    NoStorey = "none"
    Axes = {0, 1}
    Coords <- MCCoords
    MaxTriangles = 1
    MaxSplits = 2
    Far = 1000
    Elements = {"e1", "e2"}
    Colors = {"grey"}
    Shapes <- MCShapes
    MaxVertices = 6
    MaxPieces = 3
    MaxRuns = 2
    Counts = {1, 3}
    PackedLengths = {5, 8}
    TextLengths = {6}
    MaxPrimitives = 2
    Inputs <- MCSources
    Texts <- MCTexts
    Digits = {"1", "2", "3"}
    Blanks = {" "}
    Versions = {v1, v2}
    NoVersion = NoVersion
    MaxShards = 2
    MaxCrashes = 2
    CrashAt = {"slice", "sliced", "fan", "convert", "aggregate", "import"}
CHECK_DEADLOCK FALSE
INVARIANTS
    ArtifactsTypeOK GeometryIsKept ArtifactIsExact ChunksPartitionSpace ViewsFit
    SlicesAreWhole LexersIgnoreCuts OutputIsComplete
PROPERTIES OnlyUnfinishedIsRedone PendingSettles
