CONSTANTS
    Workers = {w1, w2}
    Tasks = {k1, k2}
    NoWorker = NoWorker
    NoTask = NoTask
    Reuse = FALSE
    MaxAdds = 2
SPECIFICATION Spec
PROPERTY OnWaitingIsCalled
CHECK_DEADLOCK FALSE
