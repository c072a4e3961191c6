CONSTANTS
    Workers = {w1, w2}
    Tasks = {k1, k2}
    NoWorker = NoWorker
    NoTask = NoTask
    Reuse = TRUE
    MaxAdds = 3
SPECIFICATION Spec
INVARIANT NeverTerminates
CHECK_DEADLOCK FALSE
