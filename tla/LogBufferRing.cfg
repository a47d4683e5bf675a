SPECIFICATION Spec
CONSTANTS
    plc = plc
    job = job
    Writers = {plc, job}
    PlcThreads = {plc}
    Sizes <- MCSizes
    LOG_BUFFER_SIZE = 6
    MaxMessages = 4
INVARIANTS
    TypeOK
    LogOK
CHECK_DEADLOCK FALSE
