SPECIFICATION Spec
CONSTANTS
    c1 = c1
    c2 = c2
    c3 = c3
    NumNeeds = 1
    Chunks <- OneChunk
    TopK = 1
    MaxTotal = 1
    MaxAttempts = 1
    MaxReclass = 1
    MaxEvidence = 1
    DocumentOf <- EachItsOwn
    Scores = {8}
    ReplacementMargin = 1
INVARIANTS
    EvidenceIsOfSupportedNeeds
CHECK_DEADLOCK FALSE
