CONSTANTS
    Workers = {w1, w2}
    Tasks = {0, 1, 2}
    NumTasks = 3
    NoWorker = NoWorker
    NoTask = NoTask
    N = 5
    K = 2
    Dim = 1
    RandMax = 2
    Unit = 60
    Inputs <- MCInputs
SPECIFICATION Spec
INVARIANTS TypeOK NoRace TasksOutliveUse ClustersAreCurrent NeverGrows ResultIsNearest
PROPERTIES EndsUnlessStalled ImplementsLloyd
CHECK_DEADLOCK FALSE
