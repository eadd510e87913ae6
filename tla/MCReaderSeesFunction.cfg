SPECIFICATION MTSpec
CONSTANTS
    Other = Other
    CoverFiles <- MCFiles
INVARIANTS
    ReaderSeesFunction
CHECK_DEADLOCK FALSE
