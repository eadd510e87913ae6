SPECIFICATION Spec
CONSTANTS
    Cell = {c1, c2, c3, c4}
    Datum = {d1, d2}
    NULL = NULL
INVARIANTS
    NoLeakNoDangle
PROPERTIES
    FifoSpec
CHECK_DEADLOCK FALSE
