SPECIFICATION Spec
CONSTANTS
    i1 = i1
    i2 = i2
    Ides = {i1, i2}
    Builds = {b1, b2}
    b1 = b1
    b2 = b2
    x = x
    y = y
    Names = {x, y}
    Files <- MCFiles
    None = None
    Torn = Torn
    MaxTransfers = 2
    MaxCrashes = 1
    MaxFull = 1
SYMMETRY Symmetry
INVARIANTS
    TypeOK
    DiskOK
PROPERTIES
    ToldWhole
CHECK_DEADLOCK FALSE
