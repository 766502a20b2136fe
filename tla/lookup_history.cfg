SPECIFICATION Spec
CONSTANTS
    Requests <- MCRequests
    Newest <- MCNewest
    Growing = "a"
    Key <- MCKey
    RRFK = 60
    Weight <- MCWeight
    FailOpen = TRUE
    RerankFallback = TRUE
    Pool <- MCPool
    Wide <- MCWide
    Deep <- MCDeep
    Documents = 2
    Sections = 2
    Shares <- MCShares
INVARIANT HistoryAsAsked
CHECK_DEADLOCK FALSE
