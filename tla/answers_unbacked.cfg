SPECIFICATION Spec
CONSTANTS
    MaxNeeds = 2
    Ranks = {1, 2}
    Repairs <- MCRepairs
    FailOpen <- MCFailOpen
INVARIANT CompleteAnswersAreBacked
CHECK_DEADLOCK FALSE
