SPECIFICATION FairSpec
CONSTANTS
    c1 = c1
    c2 = c2
    c3 = c3
    NumNeeds = 6
    Chunks <- OneChunk
    TopK = 1
    MaxTotal = 2
    MaxAttempts = 2
    MaxReclass = 1
    MaxEvidence = 1
    DocumentOf <- EachItsOwn
    Scores = {8}
    ReplacementMargin = 1
INVARIANTS
    StepsAccounted
PROPERTIES
    ImplementsQueue
CHECK_DEADLOCK FALSE
