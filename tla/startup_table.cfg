SPECIFICATION Spec
CONSTANTS
    DrvInfos = {"a?", "b?", "c=", "s2?", "s3?", "w?", "n", "o?"}
    info <- Info
    Names = {"a", "b", "c"}
    DefaultPort = 851
    paramTableSize = 4
    CHUNK_SIZE = 2
    None = None
INVARIANT ReasonFindsParam
INVARIANT StatePublishedOwn
INVARIANT ResolvedOrRefused
