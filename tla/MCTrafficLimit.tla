--------------------------- MODULE MCTrafficLimit ---------------------------
(* Small instances for TLC of the traffic limit: one instance goes over its quota.  *)
(* A behaviour is of requests, or of edits of one tier that cross the sweeps.     *)
EXTENDS TrafficLimit

CONSTANTS
    i1, u1, p1,
    Turning,    \* the objects that go over their quota
    InForce,    \* the policies that the provider has
    Limitable,  \* the users and providers that are limited, where it is not their rows that are edited
    FrozenAs,   \* what instances are frozen as
    Leaving,    \* the users and providers that a sweep may leave out
    Powered,    \* the instances are started and stopped, and their guests turn
    Edited      \* the tiers whose rows are edited, one in a behaviour; "none" where requests are made

VARIABLE tier

mcTrafficVars == <<trafficVars, tier>>

OfOneUser == [i \in Instances |-> u1]
OnOneHost == [i \in Instances |-> p1]

(* Where the rows of users or providers are edited, both may be limited and no instance runs. *)
TierEdits == tier \in {"user", "provider"}
Moving == Powered /\ ~TierEdits

(* One object at a time is over its quota, or left out. *)
Narrow ==
    /\ over' \subseteq Turning
    /\ policy'[p1] \in InForce
    /\ TierEdits \/ limited' \subseteq Limitable
    /\ \A i \in Instances : frozen'[i] \in FrozenAs
    /\ absent' \subseteq Leaving
    /\ Cardinality(over') + Cardinality(absent') <= 1
    /\ Moving \/ UNCHANGED powerVars

(* An instance that moves is edited while its user or provider limits it, and keeps a      *)
(* status that a sweep stops or starts.                                           *)
Edit ==
    /\ EditsRow /\ \A d \in draft' : Tier(d.of) = tier
    /\ Moving => \A i \in Instances :
                    /\ status'[i] \in {"running", "stopped"}
                    /\ draft' # {} => reason[i] \in {"user", "provider"}

(* Beside the edits and the requests there are the sweeps, and limits that administrators   *)
(* set; where nothing moves, checks of one object and limits that administrators lift.     *)
Sweeping ==
    \/ \E q \in Passes : Sweeps(q) \/ PassStep(q)
    \/ \E o \in Users \cup Providers : AdminLimits(o)
    \/ \E o \in Objects : Uses(o)
    \/ \E i \in Instances : Reconciles(i)

Requesting ==
    \/ \E q \in Passes, i \in Instances, kind \in Kinds : Errs(q) \/ Requests(q, i, kind)
    \/ \E i \in Instances : AdminAsks(i, "start")
    \/ \E i \in Instances : GuestTurns(i) /\ UNCHANGED Others
    \/ TaskStep /\ UNCHANGED Others

Editing ==
    \/ Edit
    \/ \E i \in Instances, k \in Slots : Executes(i, k) /\ UNCHANGED Others
    \/ ~Moving /\ \E q \in Passes, o \in Users \cup Providers : Errs(q) \/ AdminLifts(q, o)

MCInit == /\ TrafficInit /\ policy[p1] \in InForce
          /\ tier \in Edited
          /\ Moving \/ \A i \in Instances : ~runs[i]
MCNext == /\ tier' = tier
          /\ \/ tier # "none" /\ (Sweeping \/ Editing) /\ \A q \in Passes \ {Sweeper} : pass'[q] = NoPass
             \/ tier = "none" /\ Moving /\ (Sweeping \/ Requesting)
             \/ tier = "none" /\ ~Moving /\ TrafficNext /\ draft' = {}
          /\ Narrow
MCTrafficSpec == MCInit /\ [][MCNext]_mcTrafficVars /\ TrafficFairness
=============================================================================
