SPECIFICATION CondSpec
CONSTANTS
    MaxNesting = 3
    MaxBranches = 2
INVARIANTS
    LiveAsWritten
    ConditionMatches
CHECK_DEADLOCK FALSE
