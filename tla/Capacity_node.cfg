\* Two instances of a user who may hold two, on a node with room for one.
SPECIFICATION CapacitySpec
CONSTANTS
    Jobs = {j1, j2}
    Creators = {c1}
    UserMax = 2
    NodeMax = 1
    MaxRestarts = 0
CHECK_DEADLOCK FALSE
INVARIANT NodeWithinCap
