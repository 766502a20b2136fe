SPECIFICATION Spec
CONSTANTS
    s1 = s1
    s2 = s2
    i1 = i1
    None = None
    Searchers <- MCSearchers
    Ingestions <- MCIngestions
    NumPages = 1
    Ttl = 2
    MaxTime = 2
INVARIANT FinishedIngestionIsSeen
