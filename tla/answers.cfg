SPECIFICATION Spec
CONSTANTS
    MaxNeeds = 2
    Ranks = {1, 2}
    Repairs <- MCRepairs
    FailOpen <- MCFailOpen
INVARIANTS
    StatusBacked
    AnswersRestOnGrades
PROPERTY
    ArbitrationNarrows
CHECK_DEADLOCK FALSE
