\* A pending task is taken through a resize, and shutdown ends.
SPECIFICATION LiveSpec
CONSTANTS
    Tasks = {t1, t2}
    NoTask = NoTask
    Submitters = {s1}
    MaxSize = 2
    PerWorker = 1
    MaxPool = 2
    MaxResize = 1
    MaxIdle = 0
    MayDelete = FALSE
    MayStop = TRUE
    SlowReads = FALSE
CHECK_DEADLOCK FALSE
PROPERTIES PendingIsTaken ShutdownEnds
