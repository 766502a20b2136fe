SPECIFICATION Spec
CONSTANTS
    Texts <- MCTexts
    MaxPages = 2
    MaxChunks = 4
    MaxChars = 3
    OverlapChars = 1
    TargetClusterSize = 1
    MaxClusters = 3
    NeighborChunkCount = 2
    MaxNeighborChars = 5
    MaxConcurrency = 2
CHECK_DEADLOCK FALSE
INVARIANT RequestsWithinConcurrency
