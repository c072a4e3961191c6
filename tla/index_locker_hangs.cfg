CONSTANTS
    Threads = {t1, t2}
    Indexes = {i1, i2}
    NoThread = NoThread
    MaxCalls = 2
    AllocFails = FALSE
SPECIFICATION Spec
PROPERTY ThreadsReturn
CHECK_DEADLOCK FALSE
