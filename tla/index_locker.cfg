CONSTANTS
    Threads = {t1, t2, t3}
    Indexes = {i1, i2}
    NoThread = NoThread
    MaxCalls = 2
    AllocFails = TRUE
SPECIFICATION Spec
INVARIANTS TypeOK MutualExclusion NoUseAfterErase CountsUsers NoElementLeft
PROPERTY HangsOnlyOnMissOrBadAlloc
CHECK_DEADLOCK FALSE
