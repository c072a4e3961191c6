CONSTANTS
    Threads = {t1, t2}
    Transient = {t2}
    Owner = t1
    Filling = {t1}
    Node = {n1, n2, n3}
    NULL = NULL
    Classic = FALSE
    Dummy = Dummy
    MaxAttach = 3
    MaxLoad = 5
SPECIFICATION Spec
INVARIANTS TypeOK NoUseAfterFree OneHolder TailIsClose FreeRecordsAreUnused
PROPERTIES ImplementsQueue LockFree
CHECK_DEADLOCK FALSE
