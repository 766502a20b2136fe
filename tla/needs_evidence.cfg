SPECIFICATION Spec
CONSTANTS
    c1 = c1
    c2 = c2
    c3 = c3
    NumNeeds = 2
    Chunks <- ThreeChunks
    TopK = 2
    MaxTotal = 3
    MaxAttempts = 3
    MaxReclass = 1
    MaxEvidence = 2
    DocumentOf <- EachItsOwn
    Scores = {6, 8}
    ReplacementMargin = 1
SYMMETRY Symmetry
INVARIANTS
    BudgetsRespected
    EvidenceAccounted
    PreferenceIsBacked
    ReportIsSound
PROPERTIES
    ResolvedIsFinal
CHECK_DEADLOCK FALSE
