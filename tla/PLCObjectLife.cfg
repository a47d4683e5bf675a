\* Both kinds of program, and every failure.
SPECIFICATION FairSpec
CONSTANTS
    Kinds = {"pyext", "plain"}
    Failures = {"files", "dlopen", "pyinit", "startPLC", "slow", "killed", "debug", "text",
                "endless"}
INVARIANTS
    TypeOK
    StatusIsTrue
    NotUnloadedInUse
    CommandHeard
PROPERTIES
    PreStartFirst
    StartStopReturn
    UnLoadEnds
CHECK_DEADLOCK FALSE
