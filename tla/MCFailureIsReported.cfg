SPECIFICATION Spec
CONSTANTS
    a = a
    f = f
    g = g
    Name <- MCName
    Directives <- MCDirectives
    MaxDirectives = 3
INVARIANTS
    FailureIsReported
CHECK_DEADLOCK FALSE
