\* One thread calls, another quits: does runloop() end?
SPECIFICATION FairSpec
CONSTANTS
    c1 = c1
    c2 = c2
    c3 = c3
    Callers = {c1, c2}
    Quitters = {c1}
    FirstJob = FirstJob
    NoJob = NoJob
    Loops = {"runloop"}
    MaxOps = 1
PROPERTY
    QuitTerminates
CHECK_DEADLOCK FALSE
