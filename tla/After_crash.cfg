\* One task ends, and its instance is unlocked, through a crash and a failed call.  One
\* mapping and two listeners; the agent connects once and the controller restarts once.
SPECIFICATION AfterCrashSpec
CONSTANTS
    MaxTask = 1
    Insts = {i1}
    Workers = {w1}
    Helpers = {h1}
    QueueCap = 1
    MaxContexts = 1
    Others = 1
    SlowOps = FALSE
    Editable = {}
    Saved = {}
    MaxCrashes = 1
    MaxFaults = 1
    Requests = {"restart", "delete"}
    Ports = {p1}
    Addr <- OnePort
    Socks = {s1, s2}
    None = None
    MaxConns = 1
    MaxBreaks = 1
    MaxRestarts = 1
    MaxRepair = 1
    Retries = 1
CHECK_DEADLOCK FALSE
INVARIANTS ServingIsKnown
PROPERTIES EveryTaskEnds EveryLockOpens ForwardsSettle
