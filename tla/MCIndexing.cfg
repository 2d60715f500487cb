SPECIFICATION FairIndexingSpec
CONSTANTS
    MaxChars = 7
    Overlap = 2
    Setups <- MCSetups
    MaxConcurrency = 2
    MaxRetries = 1
    ContextBatch = 3
    EmbedBatch = 2
    MaxBuilds = 2
CHECK_DEADLOCK FALSE
INVARIANTS ChunksFit NothingLost ContextsBelong
PROPERTY BuildsEnd
