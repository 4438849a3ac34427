\* Two tasks on one instance, two workers and the goroutine a restart leaves behind;
\* operations may outlast the threshold of the repair job.
SPECIFICATION Spec
CONSTANTS
    MaxTask = 2
    Insts = {i1}
    Workers = {w1, w2}
    Helpers = {h1}
    QueueCap = 1
    MaxContexts = 2
    Others = 1
    SlowOps = TRUE
    Editable = {}
    Saved = {}
    MaxCrashes = 0
    MaxFaults = 0
    Requests = {"restart", "delete"}
SYMMETRY Symmetry
CHECK_DEADLOCK FALSE
CONSTRAINT OneDelete
INVARIANTS OneCallPerInstance CancelledUnlocks
