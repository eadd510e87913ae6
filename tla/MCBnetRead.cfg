SPECIFICATION Spec
CONSTANTS
    a = a
    f = f
    g = g
    Name <- MCName
    Directives <- MCDirectives
    MaxDirectives = 5
INVARIANTS
    TypeOK
    ReturnsWellFormed
    ReturnsIffLegal
CHECK_DEADLOCK FALSE
