SPECIFICATION CandSpec
CONSTANTS
    Name <- MCName
    Networks <- MCNetworks
    num_input_min = 1
    num_input_max = 2
    None = None
INVARIANTS
    TopTypeOK
    FaninsFirst
    NoDuplicates
    LeftoverIsStuck
    MffcTypeOK
    NeverExits
    MffcFanoutFree
    MffcMaximal
    WalkSettled
    BestCandidate
    WrittenCircuitClosed
    WrittenCircuitSevers
    InputsFeedElsewhere
    WrittenIsCandidate
PROPERTIES
    MffcTerminates
CHECK_DEADLOCK FALSE
