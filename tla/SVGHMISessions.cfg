SPECIFICATION Spec
SYMMETRY Symmetry
CONSTANTS
    a = a
    b = b
    c1 = c1
    c2 = c2
    Items = {a, b}
    Indexes <- MCIndexes
    NULL = NULL
    Connections = {c1, c2}
    MaxOpens = 2
    MaxSubscriptions = 2
    MaxStarts = 1
INVARIANTS
    TypeOK
    HMIOK
    WakeUpHeard
CHECK_DEADLOCK FALSE
