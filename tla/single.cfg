CONSTANTS
    N = 4
    K = 3
    Dim = 1
    RandMax = 3
    Unit = 12
    High = 2
    Inputs <- MCInputs
SPECIFICATION Spec
INVARIANTS TypeOK NeverGrows
PROPERTY ImplementsLloyd
CHECK_DEADLOCK FALSE
