SPECIFICATION QSpec
CONSTANTS
    u1 = u1
    u2 = u2
    q1 = q1
    q2 = q2
    None = None
    Uploads <- MCUploads
    Queries <- MCQueries
    TitleOf <- MCTitleOf
    Target <- MCTarget
    NumBatches = 1
    HierarchyMode = "fail_open"
    Faults = {"external", "database"}
    MaxLookups = 2
    Connections = 2
SYMMETRY QuerySymmetry
CHECK_DEADLOCK FALSE
INVARIANTS
    RecordsAreComplete
    NobodyWaitsForEver
PROPERTY
    OnlyUncommittedDocumentsLoseQueries
