CONSTANTS
    N = 4
    K = 3
    Dim = 1
    RandMax = 3
    Unit = 12
    High = 2
    Inputs <- MCInputs
SPECIFICATION Spec
INVARIANT SeedsFromSet
CHECK_DEADLOCK FALSE
