\* Two instances of a user who may hold one, on a node with room for two; three tasks
\* that come again and again, scanned one by one; two instances, of which users operate one,
\* one task at a time, and two reports that confirm a status.
SPECIFICATION AdmissionSpec
CONSTANTS
    Jobs = {j1, j2}
    Creators = {c1}
    UserMax = 1
    NodeMax = 2
    MaxRestarts = 1
    Tasks = {t1, t2, t3}
    NoTask = NoTask
    Maintenance = {t1, t2}
    Removals = {t1}
    Limit = 1
    MaxReboots = 1
    Instances = {i1, i2}
    Operated = i1
    Slots = {1}
    Confirmations = 2
CHECK_DEADLOCK FALSE
PROPERTIES OverLimitOnlyByReturn ClosedDrains CreatingEnds ScanComesRound StatusHeals
