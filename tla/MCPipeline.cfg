SPECIFICATION Spec
CONSTANTS
    MaxIter = 3
    MaxFailures = 3
INVARIANTS
    TypeOK
    CleanIterationIsFresh
    StaleIsExplained
CHECK_DEADLOCK FALSE
