SPECIFICATION SynSpec
CONSTANTS
    Name <- MCName
    Circuits <- MCCircuits
    Tables <- MCTables
    Literal <- MCLiteral
    num_input_min = 2
    num_input_max = 4
    None = None
INVARIANT FollowingCoversNotPrinted
CHECK_DEADLOCK FALSE
