------------------------------ MODULE Capacity ------------------------------
(***************************************************************************)
(* What a user may hold and what a node may carry: the admission of create     *)
(* tasks (server/service/user/provider/create.go), the reservation each holds   *)
(* until its instance exists (server/service/resources), the node's cached      *)
(* instance count, the switch that closes the task pool (server/service/        *)
(* taskgate) and the clean-up of creates that a restart interrupted.           *)
(*                                                                          *)
(* One user creates instances of one type on one node.  A job is a create task  *)
(* with its reservation and the instance row it makes; it is free again when    *)
(* the task has ended and the row is deleted.                                 *)
(***************************************************************************)
EXTENDS Naturals, FiniteSets

CONSTANTS
    Jobs,          \* create tasks alive at a time
    Creators,      \* goroutines of HTTP requests that create instances
    UserMax,       \* levelLimits.MaxInstances
    NodeMax,       \* provider.MaxContainerInstances (or MaxVMInstances)
    MaxRestarts    \* bound: ends of the process

ASSUME CapacityAssumption ==
    /\ UserMax \in Nat \ {0} /\ NodeMax \in Nat \ {0} /\ MaxRestarts \in Nat
    /\ IsFiniteSet(Jobs)

VARIABLES
    open,       \* system_configs: the task pool accepts new tasks
    phase,      \* tasks.status of the create task
    deletes,    \* jobs whose instance has an open delete task
    hold,       \* its row of resource_reservations, "late" when past expires_at
    guest,      \* instances.status, "live" for running and stopped
    back,       \* originalStatus of the instance's delete task
    count, fresh,  \* providers.container_count, and count_cache_expiry ahead
    place, seen,   \* place of a request, and the count its snapshot shows
    boot, orphans, \* a starting process, and the tasks it has still to clean up
    restarts

jobVars == <<phase, hold, guest, back, deletes>>
nodeVars == <<count, fresh>>
creatorVars == <<place, seen>>
bootVars == <<boot, orphans, restarts>>
capacityVars == <<open, jobVars, nodeVars, creatorVars, bootVars>>

CapacityTypeOK ==
    /\ open \in BOOLEAN
    /\ phase \in [Jobs -> {"none", "pending", "running", "cancelling", "over"}]
    /\ hold \in [Jobs -> {"none", "live", "late"}]
    /\ guest \in [Jobs -> {"none", "creating", "live", "error", "failed", "deleting"}]
    /\ back \in [Jobs -> {"live", "error"}] /\ deletes \subseteq Jobs
    /\ count \in Nat /\ fresh \in BOOLEAN
    /\ place \in [Creators -> {"idle", "checked"}] /\ seen \in [Creators -> Nat]
    /\ boot \in BOOLEAN /\ orphans \subseteq Jobs \X {"running", "cancelling", "delete"}
    /\ restarts \in 0..MaxRestarts

CapacityInit ==
    /\ open = TRUE
    /\ phase = [j \in Jobs |-> "none"] /\ hold = [j \in Jobs |-> "none"]
    /\ guest = [j \in Jobs |-> "none"] /\ back = [j \in Jobs |-> "live"]
    /\ deletes = {}
    /\ count = 0 /\ fresh = FALSE
    /\ place = [c \in Creators |-> "idle"] /\ seen = [c \in Creators |-> 0]
    /\ boot = FALSE /\ orphans = {} /\ restarts = 0

Terminal == {"none", "failed", "deleting"}

(* Rows a node's count counts, and what a user's count counts: reservations    *)
(* that have not expired are the instances of tomorrow.                       *)
Standing == {j \in Jobs : guest[j] \notin Terminal}
Reserved == {j \in Jobs : hold[j] = "live"}

HeldCount == Cardinality(Standing) + Cardinality(Reserved)

-----------------------------------------------------------------------------
(* Admission: one transaction.  Its first read, of the gate, fixes the snapshot *)
(* its plain reads see; what it reads under the user's and the node's row locks *)
(* is current.                                                              *)
AcceptingUnchecked == TRUE
Accepting == open

CheckGate(c) ==
    /\ ~boot /\ place[c] = "idle" /\ Accepting
    /\ place' = [place EXCEPT ![c] = "checked"]
    /\ seen' = [seen EXCEPT ![c] = Cardinality(Standing)]
    /\ UNCHANGED <<open, jobVars, nodeVars, bootVars>>

(* An expired count is counted again, from the snapshot, and written back.     *)
NodeCount(c) == IF fresh THEN count ELSE seen[c]

UserFitsUnreserved == Cardinality(Standing) < UserMax
UserFits == HeldCount < UserMax
NodeFits(c) == NodeCount(c) + Cardinality(Reserved) < NodeMax
Fits(c) == UserFits /\ NodeFits(c)

Admit(c, j) ==
    /\ ~boot /\ place[c] = "checked" /\ Fits(c)
    /\ phase[j] \in {"none", "over"} /\ guest[j] = "none" /\ hold[j] = "none"
    /\ phase' = [phase EXCEPT ![j] = "pending"]
    /\ hold' = [hold EXCEPT ![j] = "live"]
    /\ count' = NodeCount(c) /\ fresh' = TRUE
    /\ place' = [place EXCEPT ![c] = "idle"] /\ seen' = [seen EXCEPT ![c] = 0]
    /\ UNCHANGED <<open, guest, back, deletes, bootVars>>

(* The transaction is rolled back: over a limit, or the node is not available. *)
Refuse(c) ==
    /\ place[c] = "checked"
    /\ place' = [place EXCEPT ![c] = "idle"] /\ seen' = [seen EXCEPT ![c] = 0]
    /\ UNCHANGED <<open, jobVars, nodeVars, bootVars>>

-----------------------------------------------------------------------------
(* The worker. *)
Begin(j) ==
    /\ ~boot /\ phase[j] = "pending"
    /\ phase' = [phase EXCEPT ![j] = "running"]
    /\ UNCHANGED <<open, hold, guest, back, deletes, nodeVars, creatorVars, bootVars>>

(* prepareInstanceCreation: the row, its place on the node and the end of the  *)
(* reservation in one transaction, which an expired reservation rolls back.    *)
Consumable(j) == hold[j] = "live"

(* AllocateResourcesInTx takes the count as it stands, expired or not. *)
Room == count < NodeMax
Allocated == count + 1

Prepare(j) ==
    /\ ~boot /\ phase[j] = "running" /\ guest[j] = "none"
    /\ Consumable(j) /\ Room
    /\ guest' = [guest EXCEPT ![j] = "creating"]
    /\ hold' = [hold EXCEPT ![j] = "none"]
    /\ count' = Allocated
    /\ UNCHANGED <<open, phase, back, deletes, fresh, creatorVars, bootVars>>

(* releaseTaskResources *)
Returned(j) == [hold EXCEPT ![j] = "none"]

(* A create that fails before it has a row gives its reservation back. *)
PrepareFails(j) ==
    /\ ~boot /\ phase[j] = "running" /\ guest[j] = "none"
    /\ phase' = [phase EXCEPT ![j] = "over"]
    /\ hold' = Returned(j)
    /\ UNCHANGED <<open, guest, back, deletes, nodeVars, creatorVars, bootVars>>

(* finalizeInstanceCreation looks at the task, not at the status the row has by *)
(* now.                                                                      *)
Finalize(j) ==
    /\ ~boot /\ phase[j] = "running" /\ guest[j] \in {"creating", "failed"}
    /\ guest' = [guest EXCEPT ![j] = "live"]
    /\ UNCHANGED <<open, phase, hold, back, deletes, nodeVars, creatorVars, bootVars>>

(* The provider failed, and the row keeps its place until it is deleted; when   *)
(* that cannot be saved either, the row stays as it is.                        *)
CreateFails(j) ==
    /\ ~boot /\ phase[j] = "running" /\ guest[j] \in {"creating", "failed"}
    /\ phase' = [phase EXCEPT ![j] = "over"]
    /\ \E saved \in BOOLEAN : guest' = IF saved THEN [guest EXCEPT ![j] = "error"] ELSE guest
    /\ UNCHANGED <<open, hold, back, deletes, nodeVars, creatorVars, bootVars>>

(* Post-processing ends the task, and may find the instance unusable. *)
PostProcess(j) ==
    /\ ~boot /\ phase[j] = "running" /\ guest[j] \in {"live", "error"}
    /\ phase' = [phase EXCEPT ![j] = "over"]
    /\ \E s \in {"live", "error"} : guest' = [guest EXCEPT ![j] = s]
    /\ UNCHANGED <<open, hold, back, deletes, nodeVars, creatorVars, bootVars>>

-----------------------------------------------------------------------------
(* Cancellation and time-out. *)
CancelPending(j) ==
    /\ ~boot /\ phase[j] = "pending"
    /\ phase' = [phase EXCEPT ![j] = "over"]
    /\ hold' = Returned(j)
    /\ UNCHANGED <<open, guest, back, deletes, nodeVars, creatorVars, bootVars>>

CancelRunning(j) ==
    /\ ~boot /\ phase[j] = "running"
    /\ phase' = [phase EXCEPT ![j] = "cancelling"]
    /\ UNCHANGED <<open, hold, guest, back, deletes, nodeVars, creatorVars, bootVars>>

Errored(j) == IF guest[j] = "creating" THEN [guest EXCEPT ![j] = "error"] ELSE guest

EndCancelled(j) ==
    /\ ~boot /\ phase[j] = "cancelling"
    /\ phase' = [phase EXCEPT ![j] = "over"]
    /\ hold' = Returned(j)
    /\ guest' = Errored(j)
    /\ UNCHANGED <<open, back, deletes, nodeVars, creatorVars, bootVars>>

-----------------------------------------------------------------------------
(* Deletion.  A row being deleted is of nobody's count; the task may end with   *)
(* the row gone, or undone.                                                  *)
Delete(j) ==
    /\ ~boot /\ Accepting /\ phase[j] = "over" /\ j \notin deletes
    /\ guest[j] \in {"live", "error", "failed"}
    /\ guest' = [guest EXCEPT ![j] = "deleting"]
    /\ back' = [back EXCEPT ![j] = IF guest[j] = "live" THEN "live" ELSE "error"]
    /\ deletes' = deletes \cup {j}
    /\ UNCHANGED <<open, phase, hold, nodeVars, creatorVars, bootVars>>

Released == IF count > 0 THEN count - 1 ELSE 0

DeleteDone(j) ==
    /\ ~boot /\ j \in deletes
    /\ guest' = [guest EXCEPT ![j] = "none"]
    /\ deletes' = deletes \ {j}
    /\ back' = [back EXCEPT ![j] = "live"]
    /\ count' = Released
    /\ UNCHANGED <<open, phase, hold, fresh, creatorVars, bootVars>>

(* reconcileDestructiveTask: the status it had, or error once the deletion was  *)
(* under way on the node.                                                    *)
Undone(j) ==
    IF guest[j] = "deleting"
    THEN {[guest EXCEPT ![j] = s] : s \in {back[j], "error"}}
    ELSE {guest}

DeleteUndone(j) ==
    /\ ~boot /\ j \in deletes
    /\ guest' \in Undone(j)
    /\ deletes' = deletes \ {j}
    /\ back' = [back EXCEPT ![j] = "live"]
    /\ UNCHANGED <<open, phase, hold, nodeVars, creatorVars, bootVars>>

-----------------------------------------------------------------------------
(* Periodic jobs, and time. *)

(* RepairStuckInstances, after 30 minutes in one status. *)
RepairedDeletesOnly == [deleting |-> "live"]
Repaired == [creating |-> "failed", deleting |-> "live"]

Repair(j) ==
    /\ ~boot /\ guest[j] \in DOMAIN Repaired
    /\ guest' = [guest EXCEPT ![j] = Repaired[guest[j]]]
    /\ UNCHANGED <<open, phase, hold, back, deletes, nodeVars, creatorVars, bootVars>>

HoldExpires(j) ==
    /\ hold[j] = "live"
    /\ hold' = [hold EXCEPT ![j] = "late"]
    /\ UNCHANGED <<open, phase, guest, back, deletes, nodeVars, creatorVars, bootVars>>

CleanHold(j) ==
    /\ ~boot /\ hold[j] = "late"
    /\ hold' = [hold EXCEPT ![j] = "none"]
    /\ UNCHANGED <<open, phase, guest, back, deletes, nodeVars, creatorVars, bootVars>>

CountExpires ==
    /\ fresh
    /\ fresh' = FALSE
    /\ UNCHANGED <<open, jobVars, count, creatorVars, bootVars>>

SetEnabled(b) ==
    /\ ~boot /\ open # b
    /\ open' = b
    /\ UNCHANGED <<jobVars, nodeVars, creatorVars, bootVars>>

-----------------------------------------------------------------------------
(* The process ends.  The next one marks the tasks that were under way, then     *)
(* cleans up after each: what is left of that list is lost if it ends again.    *)
Interrupted(k) == IF k = "running" THEN {j \in Jobs : phase[j] = "running"}
           ELSE IF k = "cancelling" THEN {j \in Jobs : phase[j] = "cancelling"}
           ELSE deletes

Restart ==
    /\ restarts < MaxRestarts
    /\ restarts' = restarts + 1 /\ boot' = TRUE
    /\ orphans' = {o \in Jobs \X {"running", "cancelling", "delete"} : o[1] \in Interrupted(o[2])}
    /\ phase' = [j \in Jobs |-> IF phase[j] \in {"running", "cancelling"} THEN "over" ELSE phase[j]]
    /\ deletes' = {}
    /\ place' = [c \in Creators |-> "idle"] /\ seen' = [c \in Creators |-> 0]
    /\ UNCHANGED <<open, hold, guest, back, nodeVars>>

CleanOrphan(j, k) ==
    /\ boot /\ <<j, k>> \in orphans
    /\ orphans' = orphans \ {<<j, k>>}
    /\ hold' = IF k = "running" /\ guest[j] = "none" THEN Returned(j) ELSE hold
    /\ IF k = "delete" THEN guest' \in Undone(j) ELSE guest' = Errored(j)
    /\ back' = IF k = "delete" THEN [back EXCEPT ![j] = "live"] ELSE back
    /\ UNCHANGED <<open, phase, deletes, nodeVars, creatorVars, boot, restarts>>

(* SyncProviderResources, for a node that is reachable, before anything is served. *)
Booted ==
    /\ boot /\ orphans = {}
    /\ boot' = FALSE
    /\ \/ count' = Cardinality(Standing) /\ fresh' = TRUE
       \/ UNCHANGED nodeVars
    /\ UNCHANGED <<open, jobVars, creatorVars, orphans, restarts>>

-----------------------------------------------------------------------------
JobStep(j) ==
    \/ Begin(j) \/ Prepare(j) \/ PrepareFails(j) \/ Finalize(j) \/ CreateFails(j)
    \/ PostProcess(j) \/ CancelPending(j) \/ CancelRunning(j) \/ EndCancelled(j)
    \/ Delete(j) \/ DeleteDone(j) \/ DeleteUndone(j) \/ Repair(j)
    \/ HoldExpires(j) \/ CleanHold(j)
    \/ \E k \in {"running", "cancelling", "delete"} : CleanOrphan(j, k)

CapacityNext ==
    \/ \E c \in Creators : CheckGate(c) \/ Refuse(c) \/ \E j \in Jobs : Admit(c, j)
    \/ \E j \in Jobs : JobStep(j)
    \/ CountExpires \/ \E b \in BOOLEAN : SetEnabled(b)
    \/ Restart \/ Booted

CapacitySpec == CapacityInit /\ [][CapacityNext]_capacityVars

(* Goroutines run, the executor ends each task it holds, and the hourly repair   *)
(* comes; nobody need cancel, delete or restart anything.                      *)
JobWork(j) ==
    \/ Begin(j) \/ Prepare(j) \/ PrepareFails(j) \/ Finalize(j) \/ CreateFails(j)
    \/ PostProcess(j) \/ EndCancelled(j) \/ DeleteDone(j) \/ DeleteUndone(j)
    \/ \E k \in {"running", "cancelling", "delete"} : CleanOrphan(j, k)

Answered(c) == Refuse(c) \/ \E j \in Jobs : Admit(c, j)

CapacityFairness ==
    /\ \A j \in Jobs : WF_capacityVars(JobWork(j)) /\ WF_capacityVars(Repair(j))
    /\ \A c \in Creators : WF_capacityVars(Answered(c))
    /\ WF_capacityVars(Booted)

-----------------------------------------------------------------------------
(* A user holds more than the limit only because an instance came back: one     *)
(* whose deletion was undone, or whose create finished after it was given up.   *)
(* No interleaving of admissions, expiring reservations and restarts does it.   *)
OverLimitOnlyByReturn ==
    [][HeldCount' > UserMax /\ HeldCount' > HeldCount =>
       \E j \in Jobs : guest[j] \in {"deleting", "failed"} /\ guest'[j] \notin Terminal]_capacityVars

(* The pool drains: closed for good, it ends with no task pending or under way,   *)
(* though a request that saw it open may still add one.                        *)
Drained == deletes = {} /\ \A j \in Jobs : phase[j] \in {"none", "over"}
ClosedDrains == (<>[]~open) => <>[]Drained

(* No instance stays in creating, whatever became of its task: not even one of a   *)
(* list of clean-ups that a second restart lost.                               *)
CreatingEnds == \A j \in Jobs : guest[j] = "creating" ~> guest[j] # "creating"

(* The limit of the node holds (create.go, where the provider's row is locked):  *)
(* violated.                                                                *)
NodeWithinCap == Cardinality(Standing) <= NodeMax
=============================================================================
