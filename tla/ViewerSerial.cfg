SPECIFICATION FairSpec
CONSTANTS
    Single = {b}
    Chunked = {a}
    Chunks = 2
    Budget = 2
    Concurrency = 1
    MaxLoads = 2
    MaxWishes = 1
    Overlap = FALSE
CHECK_DEADLOCK FALSE
INVARIANTS SceneIsFederation BytesAreExact
PROPERTY ComesToRest
