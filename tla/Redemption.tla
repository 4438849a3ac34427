------------------------------ MODULE Redemption ------------------------------
(***************************************************************************)
(* One redemption code (src/server/service/admin/redemption/service.go,     *)
(* src/server/service/user/provider/redeem.go and redemption_task.go): the   *)
(* instance that is created for it beforehand, the users who redeem it, the  *)
(* administrators who delete it, the deletions of the instance and of its     *)
(* provider, and the administrators who edit the instance.                   *)
(*                                                                           *)
(* A redemption is one transaction that holds the code's row from its read   *)
(* to its commit.  A deletion by administrators reads the code, its task,    *)
(* its instance and the open deletions without a transaction, and writes     *)
(* them all in one.  An edit of the instance reads its row and later saves   *)
(* every column of it, the owner it read included.                           *)
(***************************************************************************)
EXTENDS Naturals, FiniteSets

CONSTANTS
    Redeemers,         \* who redeem
    Nobody,        \* instances.user_id = 0
    Admins,        \* requests of administrators that delete the code
    Editors,       \* requests of administrators that edit the instance
    MaxDeletes,    \* bound: delete tasks
    MaxRestarts    \* bound: ends of the process

ASSUME RedemptionAssumption ==
    Nobody \notin Redeemers /\ MaxDeletes \in Nat /\ MaxRestarts \in Nat

VARIABLES
    code,       \* redemption_codes.status, "gone" when hard-deleted
    create,     \* tasks.status of the create task
    place,      \* its executor, or the goroutine that goes on after it
    instance,      \* instances.status, "live" for running and stopped
    owner,      \* instances.user_id
    redeeming,  \* the user whose transaction holds the code's row
    plan,       \* what an administrator's request has read
    deletes,    \* the delete tasks of the instance, in order
    delayed,    \* delayedDeleteFailedInstance sleeps
    ends,       \* ends of the process so far
    copies,     \* the owner an edit has read, {} when it holds no row
    redeemer,   \* history: who redeemed the code
    scars       \* history: what deletions and edits left wrong

rowVars == <<code, instance, owner>>
createVars == <<create, place>>
editVars == <<copies, redeemer, scars>>
redemptionVars == <<rowVars, createVars, redeeming, plan, deletes, delayed, ends, editVars>>

Ids == 1..MaxDeletes
NoPlan == [at |-> "idle", code |-> "none", create |-> "none", instance |-> FALSE, active |-> FALSE]
NoDelete == [st |-> "none", was |-> "error"]

RedemptionTypeOK ==
    /\ code \in {"none", "creating", "usable", "used", "gone"}
    /\ create \in {"none", "pending", "running", "cancelling", "completed", "ended"}
    /\ place \in {"idle", "claimed", "unprepared", "prepared", "post", "checked", "broken", "ending"}
    /\ instance \in {"none", "creating", "live", "error", "deleting", "gone"}
    /\ owner \in Redeemers \cup {Nobody} /\ redeeming \subseteq Redeemers
    /\ plan \in [Admins -> [at : {"idle", "code", "task", "instance"},
                            code : {"none", "creating", "usable", "used"},
                            create : {"none", "pending", "running", "cancelling", "completed", "ended"},
                            instance : BOOLEAN, active : BOOLEAN]]
    /\ deletes \in [Ids -> [st : {"none", "pending", "running", "started", "over"},
                            was : {"live", "error"}]]
    /\ delayed \in BOOLEAN /\ ends \in 0..MaxRestarts
    /\ copies \in [Editors -> SUBSET (Redeemers \cup {Nobody})]
    /\ redeemer \in Redeemers \cup {Nobody} /\ scars \subseteq {"code", "owner", "status"}

RedemptionInit ==
    /\ code = "none" /\ create = "none" /\ place = "idle"
    /\ instance = "none" /\ owner = Nobody /\ redeeming = {}
    /\ plan = [a \in Admins |-> NoPlan] /\ deletes = [d \in Ids |-> NoDelete]
    /\ delayed = FALSE /\ ends = 0
    /\ copies = [e \in Editors |-> {}] /\ redeemer = Nobody /\ scars = {}

-----------------------------------------------------------------------------
Unfinished == {"pending", "running", "cancelling"}
Present == instance \notin {"none", "gone"}
DeleteOpen == \E d \in Ids : deletes[d].st \in {"pending", "running", "started"}
Begun == {d \in Ids : deletes[d].st \in {"running", "started"}}
Purged == IF code = "none" THEN code ELSE "gone"

(* A code that was not used goes with its instance. *)
OrphanedNot == code
Orphaned == IF code = "usable" THEN "gone" ELSE code

(* The next delete task. *)
NextId(d) == deletes[d].st = "none" /\ \A e \in Ids : e < d => deletes[e].st # "none"

(* What ends a task leaves one that has ended alone. *)
EndedAs(status) == IF create \in {"running", "cancelling"} THEN status ELSE create

(* CreateTask through reserveInstanceOperationInTx: nothing else is open. *)
Reserve(d) ==
    /\ NextId(d) /\ instance \in {"live", "error"} /\ create \notin Unfinished /\ ~DeleteOpen
    /\ deletes' = [deletes EXCEPT ![d] = [st |-> "pending", was |-> instance]]
    /\ instance' = "deleting"

-----------------------------------------------------------------------------
(* The create task. *)
BatchCreate ==
    /\ code = "none" /\ code' = "creating" /\ create' = "pending"
    /\ UNCHANGED <<instance, owner, place, redeeming, plan, deletes, delayed, ends, editVars>>

Claim ==
    /\ create = "pending" /\ create' = "running" /\ place' = "claimed"
    /\ UNCHANGED <<rowVars, redeeming, plan, deletes, delayed, ends, editVars>>

Cancel ==
    /\ \/ create = "pending" /\ create' = "ended"
       \/ create = "running" /\ create' = "cancelling"
    /\ UNCHANGED <<rowVars, place, redeeming, plan, deletes, delayed, ends, editVars>>

Prepare ==
    /\ place = "claimed"
    /\ \/ create = "running" /\ instance' = "creating" /\ place' = "prepared" /\ UNCHANGED create
       \/ place' = "unprepared" /\ create' = EndedAs("ended") /\ UNCHANGED instance
    /\ UNCHANGED <<code, owner, redeeming, plan, deletes, delayed, ends, editVars>>

(* hardDeleteRedemptionCodeByTask *)
HardDelete ==
    /\ place = "unprepared" /\ redeeming = {}
    /\ code' = Purged /\ place' = "idle"
    /\ UNCHANGED <<instance, owner, create, redeeming, plan, deletes, delayed, ends, editVars>>

(* finalizeRedemptionInstanceCreation's transaction, for either answer of the node. *)
Finalize ==
    /\ place = "prepared" /\ create = "running" /\ redeeming = {}
    /\ \/ /\ code = "creating" /\ code' = "usable" /\ instance' = "live"
          /\ place' = "post" /\ UNCHANGED delayed
       \/ code' = Purged /\ instance' = "error" /\ delayed' = TRUE /\ place' = "ending"
    /\ UNCHANGED <<owner, create, redeeming, plan, deletes, ends, editVars>>

(* It is refused when the task has stopped, and may fail. *)
Unfinalized ==
    /\ place = "prepared" /\ place' = "ending"
    /\ UNCHANGED <<rowVars, create, redeeming, plan, deletes, delayed, ends, editVars>>

(* The goroutine it leaves behind: the instance runs and its ports are active, or it is given up. *)
PostProcess ==
    /\ place = "post"
    /\ \/ place' = "checked" /\ UNCHANGED instance
       \/ place' = "broken" /\ instance' = IF Present THEN "error" ELSE instance
       \/ create # "running" /\ place' = "ending" /\ UNCHANGED instance
    /\ UNCHANGED <<code, owner, create, redeeming, plan, deletes, delayed, ends, editVars>>

GiveUp ==
    /\ place = "broken" /\ redeeming = {}
    /\ code' = Purged /\ delayed' = TRUE /\ place' = "ending"
    /\ UNCHANGED <<instance, owner, create, redeeming, plan, deletes, ends, editVars>>

Complete ==
    /\ \/ place = "checked" /\ create' = IF create = "running" THEN "completed" ELSE EndedAs("ended")
       \/ place = "ending" /\ create' = EndedAs("ended")
    /\ place' = "idle"
    /\ UNCHANGED <<rowVars, redeeming, plan, deletes, delayed, ends, editVars>>

(* The clean-up of a create that was cancelled or interrupted, or the hourly repair. *)
Quarantine ==
    /\ instance = "creating" /\ create = "ended" /\ instance' = "error"
    /\ UNCHANGED <<code, owner, createVars, redeeming, plan, deletes, delayed, ends, editVars>>

-----------------------------------------------------------------------------
(* RedeemCode: the code's row is locked and its instance read; then both are written. *)
RedeemUnlocked(u) ==
    /\ code = "usable" /\ instance = "live" /\ redeeming' = redeeming \cup {u}
    /\ UNCHANGED <<rowVars, createVars, plan, deletes, delayed, ends, editVars>>

Redeem(u) ==
    /\ redeeming = {} /\ code = "usable" /\ instance = "live"
    /\ redeeming' = {u}
    /\ UNCHANGED <<rowVars, createVars, plan, deletes, delayed, ends, editVars>>

Redeemed(u) ==
    /\ u \in redeeming /\ redeeming' = redeeming \ {u}
    /\ owner' = (IF Present THEN u ELSE owner) /\ code' = "used" /\ redeemer' = u
    /\ UNCHANGED <<instance, createVars, plan, deletes, delayed, ends, copies, scars>>

NotRedeemed(u) ==
    /\ u \in redeeming /\ redeeming' = redeeming \ {u}
    /\ UNCHANGED <<rowVars, createVars, plan, deletes, delayed, ends, editVars>>

-----------------------------------------------------------------------------
(* BatchDelete: four reads and a transaction. *)
Hit(p) ==
    /\ p.instance
    /\ p.code = "creating" => p.create = "completed"

ReadCode(a) ==
    /\ plan[a].at = "idle" /\ code \notin {"none", "gone"}
    /\ plan' = [plan EXCEPT ![a].at = "code", ![a].code = code]
    /\ UNCHANGED <<rowVars, createVars, redeeming, deletes, delayed, ends, editVars>>

ReadTask(a) ==
    /\ plan[a].at = "code"
    /\ plan' = [plan EXCEPT ![a].at = "task", ![a].create = create]
    /\ UNCHANGED <<rowVars, createVars, redeeming, deletes, delayed, ends, editVars>>

ReadGuest(a) ==
    /\ plan[a].at = "task"
    /\ plan' = [plan EXCEPT ![a].at = "instance", ![a].instance = Present, ![a].active = DeleteOpen]
    /\ UNCHANGED <<rowVars, createVars, redeeming, deletes, delayed, ends, editVars>>

DropPlan(a) ==
    /\ plan[a].at # "idle" /\ plan' = [plan EXCEPT ![a] = NoPlan]
    /\ UNCHANGED <<rowVars, createVars, redeeming, deletes, delayed, ends, editVars>>

BatchDelete(a) ==
    LET p == plan[a] IN
    /\ p.at = "instance" /\ redeeming = {}
    /\ IF Hit(p) /\ ~p.active
       THEN \E d \in Ids : NextId(d) /\ deletes' = [deletes EXCEPT ![d].st = "pending"]
       ELSE UNCHANGED deletes
    /\ create' = IF p.code = "creating" /\ p.create \in Unfinished /\ create \in Unfinished THEN "ended" ELSE create
    /\ instance' = IF Hit(p) /\ Present THEN "deleting" ELSE instance
    /\ code' = "gone" /\ plan' = [plan EXCEPT ![a] = NoPlan]
    /\ UNCHANGED <<owner, place, redeeming, delayed, ends, editVars>>

-----------------------------------------------------------------------------
(* Deletions of the instance, asked for or delayed. *)
RequestDelete(d) ==
    /\ Reserve(d)
    /\ UNCHANGED <<code, owner, createVars, redeeming, plan, delayed, ends, editVars>>

DelayedDelete ==
    /\ delayed /\ delayed' = FALSE
    /\ \/ \E d \in Ids : Reserve(d)
       \/ UNCHANGED <<instance, deletes>>
    /\ UNCHANGED <<code, owner, createVars, redeeming, plan, ends, editVars>>

BeginDelete(d) ==
    /\ \/ deletes[d].st = "pending" /\ deletes' = [deletes EXCEPT ![d].st = "running"]
       \/ deletes[d].st = "running" /\ Present /\ deletes' = [deletes EXCEPT ![d].st = "started"]
    /\ UNCHANGED <<rowVars, createVars, redeeming, plan, delayed, ends, editVars>>

(* The node has deleted the instance, or had no such instance.  A deletion of the code *)
(* that fails, as it does when it waits too long for the code's row, is only logged.   *)
Deleted(d) ==
    /\ \/ deletes[d].st = "running" /\ ~Present /\ UNCHANGED <<code, instance, scars>>
       \/ /\ deletes[d].st = "started" /\ instance' = "gone"
          /\ \/ redeeming = {} /\ code' = Orphaned /\ UNCHANGED scars
             \/ UNCHANGED code /\ scars' = scars \cup {"code"}
    /\ deletes' = [deletes EXCEPT ![d].st = "over"]
    /\ UNCHANGED <<owner, createVars, redeeming, plan, delayed, ends, copies, redeemer>>

(* The provider is deleted when none of its tasks is under way, with its instances and  *)
(* tasks; their codes stay.                                                          *)
ProviderDeleted ==
    /\ Present /\ create \notin {"running", "cancelling"} /\ Begun = {}
    /\ instance' = "gone" /\ create' = (IF create = "pending" THEN "ended" ELSE create)
    /\ deletes' = [d \in Ids |-> IF deletes[d].st = "pending" THEN [deletes[d] EXCEPT !.st = "over"] ELSE deletes[d]]
    /\ scars' = scars \cup {"code"}
    /\ UNCHANGED <<code, owner, place, redeeming, plan, delayed, ends, copies, redeemer>>

(* reconcileDestructiveTask: unless a later task exists, an instance that the node     *)
(* may have lost is in error, another is what it was.                                  *)
Restored(d) ==
    IF instance \in {"deleting", "creating"} /\ \A e \in Ids : e > d => deletes[e].st = "none"
    THEN IF deletes[d].st = "started" THEN "error" ELSE deletes[d].was
    ELSE instance

NotDeleted(d) ==
    /\ deletes[d].st \in {"pending", "running", "started"}
    /\ deletes' = [deletes EXCEPT ![d].st = "over"]
    /\ instance' = Restored(d)
    /\ UNCHANGED <<code, owner, createVars, redeeming, plan, delayed, ends, editVars>>

-----------------------------------------------------------------------------
(* UpdateInstance: the row is read, and refused when it is busy; later every column is  *)
(* saved, on a row that may have changed or gone, with a status the request may name.   *)
Asked == {"creating", "live", "error", "deleting"}

ReadRow(e) ==
    /\ copies[e] = {} /\ instance \in {"live", "error"}
    /\ copies' = [copies EXCEPT ![e] = {owner}]
    /\ UNCHANGED <<rowVars, createVars, redeeming, plan, deletes, delayed, ends, redeemer, scars>>

SaveRow(e) ==
    /\ owner' \in copies[e] /\ instance' \in Asked
    /\ copies' = [copies EXCEPT ![e] = {}]
    /\ scars' = scars \cup (IF owner' # owner THEN {"owner"} ELSE {})
                     \cup (IF instance' = "creating" THEN {"status"} ELSE {})
    /\ UNCHANGED <<code, createVars, redeeming, plan, deletes, delayed, ends, redeemer>>

DropRow(e) ==
    /\ copies[e] # {} /\ copies' = [copies EXCEPT ![e] = {}]
    /\ UNCHANGED <<rowVars, createVars, redeeming, plan, deletes, delayed, ends, redeemer, scars>>

-----------------------------------------------------------------------------
(* The process ends, and the next one ends the tasks that were under way. *)
EndProcess ==
    /\ ends < MaxRestarts /\ ends' = ends + 1
    /\ create' = EndedAs("ended") /\ place' = "idle" /\ redeeming' = {}
    /\ plan' = [a \in Admins |-> NoPlan] /\ delayed' = FALSE /\ copies' = [e \in Editors |-> {}]
    /\ deletes' = [d \in Ids |-> IF d \in Begun THEN [deletes[d] EXCEPT !.st = "over"] ELSE deletes[d]]
    /\ \/ \E d \in Begun : instance' = Restored(d) /\ instance' # instance
       \/ (\A d \in Begun : Restored(d) = instance) /\ UNCHANGED instance
    /\ UNCHANGED <<code, owner, redeemer, scars>>

CreateStep ==
    \/ BatchCreate \/ Claim \/ Cancel \/ Prepare \/ HardDelete \/ Finalize \/ Unfinalized
    \/ PostProcess \/ GiveUp \/ Complete \/ Quarantine

RedeemStep == \E u \in Redeemers : Redeem(u) \/ Redeemed(u) \/ NotRedeemed(u)

AdminStep == \E a \in Admins : ReadCode(a) \/ ReadTask(a) \/ ReadGuest(a) \/ DropPlan(a) \/ BatchDelete(a)

DeleteStep ==
    \/ DelayedDelete \/ ProviderDeleted
    \/ \E d \in Ids : RequestDelete(d) \/ BeginDelete(d) \/ Deleted(d) \/ NotDeleted(d)

EditRowStep == \E e \in Editors : ReadRow(e) \/ SaveRow(e) \/ DropRow(e)

RedemptionNext == CreateStep \/ RedeemStep \/ AdminStep \/ DeleteStep \/ EditRowStep \/ EndProcess

RedemptionSpec == RedemptionInit /\ [][RedemptionNext]_redemptionVars

-----------------------------------------------------------------------------
(* A code tells the truth about its instance: a usable one has an instance that is   *)
(* nobody's and was created, a used one an instance that is somebody's, and no        *)
(* instance is somebody's whose code is not used or deleted.  What the code gives     *)
(* up is named by scars: a deletion of the instance may leave its code behind (a       *)
(* failure that is only logged, delete_task.go:305-313, or the provider's deletion,    *)
(* admin/provider/clean.go:324), and an edit may save the owner it read before a       *)
(* redemption or a status it was asked for (admin/instance/service.go:554-572).        *)
LinkHonest ==
    /\ code = "usable" => owner = Nobody
    /\ code = "usable" /\ "code" \notin scars => Present
    /\ code = "usable" /\ "status" \notin scars => instance # "creating"
    /\ code = "used" /\ scars \cap {"code", "owner"} = {} => owner # Nobody
    /\ owner # Nobody => code \in {"used", "gone"}

(* A code is redeemed once, and its instance becomes nobody else's: it is its       *)
(* redeemer's, unless an edit that read the row before the redemption saves it.       *)
RedeemedOnce ==
    [][/\ redeemer # Nobody => redeemer' = redeemer
       /\ owner' \in {Nobody, redeemer'}
       /\ owner # Nobody /\ owner' = Nobody => \E e \in Editors : Nobody \in copies[e] /\ copies'[e] = {}
      ]_redemptionVars

(* "The instance is ready and waits for its user" (system/redemption_code.go:17): *)
(* the creation of an instance that was redeemed does not give it up.            *)
RedeemedIsKept == [][owner # Nobody /\ instance = "live" => instance' # "error"]_redemptionVars
=============================================================================
