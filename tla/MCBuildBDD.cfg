SPECIFICATION Spec
CONSTANTS
    Name <- MCName
    Nets <- MCNetsBDD
    NoDD = NoDD
    StackLimit = 6
INVARIANTS
    ComputesNodeFunctions
    ReferencesAccounted
    OverflowsOnCycles
PROPERTY
    BuildEnds
CHECK_DEADLOCK FALSE
