CONSTANTS
    Workers = {w1, w2}
    Tasks = {k1, k2, k3}
    NoWorker = NoWorker
    NoTask = NoTask
    Reuse = FALSE
    MaxAdds = 3
SPECIFICATION Spec
INVARIANTS TypeOK WaitIsBarrier OnlyShutdownDrops NoTaskDuplicated NeverTerminates
PROPERTY HangsOnlyOnLostWakeUp
CHECK_DEADLOCK FALSE
