SPECIFICATION Spec
CONSTANTS
    p = p
    q = q
    NONE = NONE
    Programs = {p, q}
    Values <- MCValues
    N = 2
    default = 0
INVARIANT TypeOK
PROPERTY ImplementsRetainStore
