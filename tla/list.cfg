CONSTANTS
    Threads = {t1, t2}
    Owner = t1
    Values = {x, y}
    Addr = {a1, a2, a3}
    NULL = NULL
    Freed = Freed
    SizeModulus = 8
    MaxFail = 1
SPECIFICATION Spec
INVARIANTS TypeOK Linked NoLeak SizeAccounts
PROPERTY ImplementsFifo
CHECK_DEADLOCK FALSE
