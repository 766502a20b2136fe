SPECIFICATION Spec
CONSTANTS
    Offers <- MCOffers
    StartTopKs <- MCTopKs
    MaxTopK = 6
    Multipliers <- MCMultipliers
    Thresholds = {0, 2}
    MaxAttempts = 6
    MaxReclass = 1
    MaxTotal = 8
    Scopes <- MCScopes
INVARIANTS
    PlansExecutable
    UntriedFirst
    StopMeansExhausted
    ScopeKept
CHECK_DEADLOCK FALSE
