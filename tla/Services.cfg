\* Two connections of an agent, a tunnel, a discovery, an edit; a command and a shell
\* with three users; two requests for two rows over a range of two ports; a code that
\* two users redeem and an administrator deletes; two passes that freeze what is over its
\* quota, a user or his instance, while an administrator limits the user and the provider.
SPECIFICATION ServicesSpec
CONSTANTS
    i1 = v1
    u1 = v2
    p1 = v3
    Instances = {v1}
    Users = {v2}
    Providers = {v3}
    OwnerOf <- OfOneUser
    HostOf <- OnOneHost
    Slots = {1}
    Passes = {1, 2}
    Sweeper = 1
    Turning = {v2, v1}
    InForce = {"freeze"}
    Limitable = {v2, v3}
    FrozenAs = {"no", "traffic"}
    Leaving = {v2}
    Powered = FALSE
    Edited = {"none", "user", "provider", "instance"}
    Conns = {a1, a2}
    NoConn = NoConn
    Tunnels = {u1, u2}
    Tries = 2
    MaxFaults = 1
    MaxMarks = 2
    MaxEdits = 1
    MaxReboots = 1
    Calls = {c1}
    ShellUsers = {t1, t2, t3}
    Opener = t0
    NoUser = NoUser
    Insts = {i1, i2}
    Existing = {i1}
    Rows = {r1, r2}
    Reqs = {q1, q2}
    First = 1
    Last = 2
    Sizes = {1, 2}
    MaxQueue = 1
    MaxRefused = 1
    None = None
    Redeemers = {e1, e2}
    Nobody = Nobody
    Admins = {b1}
    Editors = {g1}
    MaxDeletes = 2
    MaxRestarts = 1
CHECK_DEADLOCK FALSE
INVARIANTS StatusHonest TunnelOfCurrent DiscoveredOnce SessionSafe SegmentsDisjoint RulesHaveRows LinkHonest LimitsHaveCauses
PROPERTY RedeemedOnce
