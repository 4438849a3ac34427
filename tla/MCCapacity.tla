----------------------------- MODULE MCCapacity -----------------------------
(* Small instances for TLC of what the controller admits and looks after: the      *)
(* capacity of users and nodes, the scan of the pending tasks, and the comparison of *)
(* the instances with their node.  They share no state, so a behaviour is of one of  *)
(* them, and the others are at rest.                                           *)
EXTENDS Capacity, PendingScan, InstanceSync

CONSTANT Operated   \* the instance that users start and stop
VARIABLE part

parts == <<part, capacityVars, scanVars, syncVars>>

AdmissionInit ==
    /\ CapacityInit /\ ScanInit /\ InstanceSyncInit
    /\ \/ part = "comparison"
       \/ part \in {"capacity", "scan"} /\ \A i \in Instances : runs[i]

OneIsOperated == \A i \in Instances \ {Operated} : task'[i] = task[i]

AdmissionNext ==
    /\ part' = part
    /\ \/ part = "capacity" /\ CapacityNext /\ UNCHANGED <<scanVars, syncVars>>
       \/ part = "scan" /\ ScanNext /\ UNCHANGED <<capacityVars, syncVars>>
       \/ part = "comparison" /\ InstanceSyncNext /\ OneIsOperated /\ UNCHANGED <<capacityVars, scanVars>>

(* The fairness of each.  Of those at rest, the start of a pass and that of a comparison  *)
(* are enabled, and nothing else.                                                *)
AdmissionSpec ==
    /\ AdmissionInit /\ [][AdmissionNext]_parts
    /\ CapacityFairness
    /\ WF_scanVars(part = "scan" /\ SetMark) /\ WF_scanVars(Fetch) /\ WF_scanVars(Try)
    /\ WF_syncVars(part = "comparison" /\ Lists) /\ ComparisonFairness
=============================================================================
