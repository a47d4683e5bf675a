\* The variables are chosen twice, the PLC is started twice.
SPECIFICATION FairSpec
CONSTANTS
    None = None
    Mixed = Mixed
    MaxToken = 2
    MaxStarts = 2
INVARIANTS
    TypeOK
    OneTraceThread
    BufferOwned
PROPERTIES
    TraceFlows
    SuspendReturns
    StopReturns
CHECK_DEADLOCK FALSE
