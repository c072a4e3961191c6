CONSTANTS
    N = 5
    K = 4
    Dim = 1
    RandMax = 3
    Unit = 60
    High = 2
    Inputs <- MCFivePoints
SPECIFICATION Spec
INVARIANT ResultIsNearest
CHECK_DEADLOCK FALSE
