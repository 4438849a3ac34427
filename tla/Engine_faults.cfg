\* One task through crashes, failed database calls and cancellations.
SPECIFICATION Spec
CONSTANTS
    MaxTask = 1
    Insts = {i1}
    Workers = {w1, w2}
    Helpers = {h1}
    QueueCap = 2
    MaxContexts = 2
    Others = 0
    SlowOps = FALSE
    Editable = {i1}
    Saved = {"running"}
    MaxCrashes = 1
    MaxFaults = 2
    Requests = {"start", "stop", "delete"}
CHECK_DEADLOCK FALSE
INVARIANTS CallHoldsTask PastNoReturn
PROPERTY ImplementsLifecycle
