SPECIFICATION ScopeSpec
CONSTANTS
    FirstYear = 2022
    LastYear = 2026
    Inputs <- MCSpanInputs
    Starts <- MCStarts
    MaxTicks = 2
    MaxRetries = 1
    Documents <- MCDocuments
    Searches <- MCSearches
CHECK_DEADLOCK FALSE
INVARIANTS
    DatesAreEnforced
