\* Three threads, two operations each; one of them may use quit().
SPECIFICATION FairSpec
CONSTANTS
    c1 = c1
    c2 = c2
    c3 = c3
    Callers = {c1, c2, c3}
    Quitters = {c1}
    FirstJob = FirstJob
    NoJob = NoJob
    Loops = {"runloop", "interleave"}
    MaxOps = 2
INVARIANTS
    TypeOK
    JobHasOwner
    WorkerAwake
    DoneNotMissed
    FreeNotMissed
PROPERTIES
    CallsReturn
    ImplementsJobService
CHECK_DEADLOCK FALSE
