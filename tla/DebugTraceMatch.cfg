\* The variables are chosen anew while the trace thread holds a trace.
SPECIFICATION Spec
CONSTANTS
    None = None
    Mixed = Mixed
    MaxToken = 2
    MaxStarts = 2
INVARIANT
    TracesMatch
CHECK_DEADLOCK FALSE
