\* The variables are chosen while a trace thread starts.
SPECIFICATION Spec
CONSTANTS
    None = None
    Mixed = Mixed
    MaxToken = 2
    MaxStarts = 2
INVARIANT
    SuspendExcludesPlc
CHECK_DEADLOCK FALSE
