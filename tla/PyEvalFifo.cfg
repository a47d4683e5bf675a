\* Two blocks, one of each kind; of the two commands one may end the python thread.
SPECIFICATION FairSpec
CONSTANTS
    f1 = f1
    f2 = f2
    k1 = k1
    k2 = k2
    FBs = {f1, f2}
    PollFBs = {f2}
    Codes = {k1, k2}
    CodesOf <- MCCodesOf
    Unreadable = {k2}
    NoValue = NoValue
    Null = Null
    MaxStarts = 1
INVARIANTS
    TypeOK
    CellIsFree
    CommandWakes
    SafeCopy
    AckCanRise
PROPERTIES
    ImplementsPyGateway
    TriggedAnswered
    PythonThreadEnds
CHECK_DEADLOCK FALSE
