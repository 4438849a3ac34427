\* The cleanup of a cancelled restart under the next task.
SPECIFICATION Spec
CONSTANTS
    MaxTask = 2
    Insts = {i1}
    Workers = {w1}
    Helpers = {h1, h2}
    QueueCap = 1
    MaxContexts = 2
    Others = 0
    SlowOps = FALSE
    Editable = {}
    Saved = {}
    MaxCrashes = 0
    MaxFaults = 0
    Requests = {"restart"}
CHECK_DEADLOCK FALSE
PROPERTY CleanupKeepsOthers
