\* One pass at a time, the policy stops, the instance goes over its quota; a slot is left for
\* the task of a limit while another is open, so the bound makes no limit wait.
SPECIFICATION MCTrafficSpec
CONSTANTS
    i1 = i1
    u1 = u1
    p1 = p1
    Instances = {i1}
    Users = {u1}
    Providers = {p1}
    OwnerOf <- OfOneUser
    HostOf <- OnOneHost
    Slots = {1, 2}
    Passes = {1}
    Sweeper = 1
    Turning = {i1}
    InForce = {"stop"}
    Limitable = {u1}
    FrozenAs = {"no"}
    Leaving = {}
    Powered = TRUE
    Edited = {"none", "user", "provider", "instance"}
PROPERTY EnforcedInTheEnd
PROPERTY LimitsLift
