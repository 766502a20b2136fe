SPECIFICATION Spec
CONSTANTS
    u1 = u1
    u2 = u2
    u3 = u3
    None = None
    Uploads <- MCUploads
    TitleOf <- MCTitleOf
    Target <- MCTarget
    NumBatches = 2
    HierarchyMode = "disabled"
    Faults = {}
CHECK_DEADLOCK FALSE
INVARIANT MatchingTitlesShareADocument
