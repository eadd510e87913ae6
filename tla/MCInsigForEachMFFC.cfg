SPECIFICATION CandSpec
CONSTANTS
    Name <- MCName
    Networks <- MCNetworks
    num_input_min = 1
    num_input_max = 2
    None = None
INVARIANTS
    InsigForEachMFFC
CHECK_DEADLOCK FALSE
