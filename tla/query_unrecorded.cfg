SPECIFICATION QSpec
CONSTANTS
    u1 = u1
    u2 = u2
    q1 = q1
    q2 = q2
    None = None
    Uploads <- MCUploads
    Queries <- MCQueries
    TitleOf <- MCTitleOf
    Target <- MCTarget
    NumBatches = 1
    HierarchyMode = "disabled"
    Faults = {"external"}
    MaxLookups = 2
    Connections = 2
CHECK_DEADLOCK FALSE
INVARIANT CompletedRunsArePersisted
