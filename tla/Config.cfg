\* Forced reruns, cancellations, failed calls and a crash.
SPECIFICATION FairSpec
CONSTANTS
    Requests = {r1, r2}
    MaxTask = 2
    MaxAttempts = 1
    MaxCrashes = 1
    MaxFaults = 3
CHECK_DEADLOCK FALSE
INVARIANTS OneConfiguration ActiveIsOwned
PROPERTIES CancelWins RerunWaits SlotOpens
