\* Submission, replacement and the end of pools; up to three pools of one provider.
SPECIFICATION SafeSpec
CONSTANTS
    Tasks = {t1, t2}
    NoTask = NoTask
    Submitters = {s1, s2}
    MaxSize = 2
    PerWorker = 1
    MaxPool = 3
    MaxResize = 1
    MaxIdle = 1
    MayDelete = TRUE
    MayStop = TRUE
    SlowReads = FALSE
SYMMETRY Symmetry
CHECK_DEADLOCK FALSE
INVARIANTS OneLivePool SendNeverBlocks CancelSparesWork ProcessingIsHeld NothingStranded StoppedIsQuiet
