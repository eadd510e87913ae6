SPECIFICATION MTSpec
CONSTANTS
    Other = Other
    CoverFiles <- MCFiles
INVARIANTS
    TableListsCover
    CountsLastCube
CHECK_DEADLOCK FALSE
