SPECIFICATION Spec
CONSTANTS
    NoAssignment = NoAssignment
    Tables <- MCTables
INVARIANTS
    SearchFailsOnlyOnTrivialTables
    CircuitComputesTable
    ExactErrorIsExact
    PruningLosesNothing
    KeepsDecomposableMaps
CHECK_DEADLOCK FALSE
