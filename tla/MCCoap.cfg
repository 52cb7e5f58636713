SPECIFICATION Spec
CONSTANTS
    Files <- FourFiles
    Unquoted <- EqualsSign
    FileSize <- FourSizes
    MAX_RETRIES = 2
    Versions = {1, 2}
    ServerHasDataDir = TRUE
    Torn = Torn
    None = None
INVARIANTS
    OkMeansSaved
    MissingRowExplained
    AbortLosesBatch
PROPERTIES
    BatchEnds
CONSTRAINTS
    SmallBatch
