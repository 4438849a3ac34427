-------------------------- MODULE RedemptionProofs --------------------------
(***************************************************************************)
(* Theorems about one redemption code, for any number of users, of           *)
(* administrators that delete it, of deletions and of restarts.              *)
(*                                                                         *)
(* The lock on the code's row carries the argument: who redeems has it       *)
(* alone, everybody else who writes the code waits for it, so what a        *)
(* redemption read of the code still holds when it commits.  Until the        *)
(* create task is finalized the code cannot be usable (Early).  Whatever an   *)
(* edit has read of the owner is nobody or who redeemed the code (Owned), so  *)
(* that a save brings nobody else.                                         *)
(***************************************************************************)
EXTENDS Redemption, TLAPS

Instances == {"none", "creating", "live", "error", "deleting", "gone"}
Deletes == [st : {"none", "pending", "running", "started", "over"}, was : {"live", "error"}]

-----------------------------------------------------------------------------
(* Types. *)

Plans == [at : {"idle", "code", "task", "instance"},
          code : {"none", "creating", "usable", "used"},
          create : {"none", "pending", "running", "cancelling", "completed", "ended"},
          instance : BOOLEAN, active : BOOLEAN]

LEMMA NoPlanTyped == NoPlan \in Plans
  BY DEF NoPlan, Plans

LEMMA TypedInit == RedemptionInit => RedemptionTypeOK
  <1> SUFFICES ASSUME RedemptionInit PROVE RedemptionTypeOK
    OBVIOUS
  <1>1. plan \in [Admins -> Plans]
    BY NoPlanTyped DEF RedemptionInit
  <1>2. NoDelete \in Deletes
    BY DEF NoDelete, Deletes
  <1>3. deletes \in [Ids -> Deletes]
    BY <1>2 DEF RedemptionInit
  <1>4. delayed \in BOOLEAN
    BY DEF RedemptionInit
  <1>6. ends \in 0..MaxRestarts
    BY RedemptionAssumption DEF RedemptionInit
  <1>5. owner \in Redeemers \cup {Nobody} /\ redeeming \subseteq Redeemers
    BY DEF RedemptionInit
  <1> QED
    BY <1>1, <1>3, <1>4, <1>5, <1>6 DEF RedemptionInit, RedemptionTypeOK, Plans, Deletes

LEMMA RestoredTyped ==
  ASSUME RedemptionTypeOK, NEW d \in Ids PROVE Restored(d) \in Instances
  BY DEF RedemptionTypeOK, Restored, Instances

LEMMA ReserveTyped ==
  ASSUME RedemptionTypeOK, NEW d \in Ids, Reserve(d)
  PROVE  deletes' \in [Ids -> Deletes] /\ instance' = "deleting"
  BY DEF RedemptionTypeOK, Reserve, Deletes

LEMMA CreateTyped == RedemptionTypeOK /\ CreateStep => RedemptionTypeOK'
  <1> SUFFICES ASSUME RedemptionTypeOK, CreateStep PROVE RedemptionTypeOK'
    OBVIOUS
  <1> USE DEF RedemptionTypeOK, rowVars, createVars, editVars, Purged, EndedAs
  <1>1. CASE BatchCreate
    BY <1>1 DEF BatchCreate
  <1>8. CASE Claim
    BY <1>8 DEF Claim
  <1>9. CASE Cancel
    BY <1>9 DEF Cancel
  <1>2. CASE Prepare
    BY <1>2 DEF Prepare
  <1>10. CASE HardDelete
    BY <1>10 DEF HardDelete
  <1>3. CASE Finalize
    BY <1>3 DEF Finalize
  <1>11. CASE Unfinalized
    BY <1>11 DEF Unfinalized
  <1>4. CASE PostProcess
    BY <1>4 DEF PostProcess
  <1>6. CASE GiveUp
    BY <1>6 DEF GiveUp
  <1>5. CASE Complete
    BY <1>5 DEF Complete
  <1>7. CASE Quarantine
    BY <1>7 DEF Quarantine
  <1> HIDE DEF RedemptionTypeOK, rowVars, createVars, editVars, Purged, EndedAs
  <1> QED
    BY <1>1, <1>2, <1>3, <1>4, <1>5, <1>6, <1>7, <1>8, <1>9, <1>10, <1>11 DEF CreateStep

LEMMA RedeemTyped == RedemptionTypeOK /\ RedeemStep => RedemptionTypeOK'
  <1> SUFFICES ASSUME RedemptionTypeOK, NEW u \in Redeemers, Redeem(u) \/ Redeemed(u) \/ NotRedeemed(u)
               PROVE  RedemptionTypeOK'
    BY DEF RedeemStep
  <1> USE DEF RedemptionTypeOK, rowVars, createVars, editVars
  <1>1. CASE Redeem(u)
    BY <1>1 DEF Redeem
  <1>2. CASE Redeemed(u)
    BY <1>2 DEF Redeemed
  <1>3. CASE NotRedeemed(u)
    BY <1>3 DEF NotRedeemed
  <1> QED
    BY <1>1, <1>2, <1>3

LEMMA AdminTyped == RedemptionTypeOK /\ AdminStep => RedemptionTypeOK'
  <1> SUFFICES ASSUME RedemptionTypeOK, NEW a \in Admins,
                      \/ ReadCode(a) \/ ReadTask(a) \/ ReadGuest(a)
                      \/ DropPlan(a) \/ BatchDelete(a)
               PROVE  RedemptionTypeOK'
    BY DEF AdminStep
  <1>t. /\ plan \in [Admins -> Plans]
        /\ create \in {"none", "pending", "running", "cancelling", "completed", "ended"}
        /\ code \in {"none", "creating", "usable", "used", "gone"}
    BY DEF RedemptionTypeOK, Plans
  <1>r. SUFFICES ASSUME ReadCode(a) \/ ReadTask(a) \/ ReadGuest(a) \/ DropPlan(a)
                 PROVE  plan' \in [Admins -> Plans]
    <2>1. CASE BatchDelete(a)
      <3>1. plan' \in [Admins -> Plans]
        BY <1>t, <2>1, NoPlanTyped DEF BatchDelete
      <3>2. deletes' \in [Ids -> Deletes]
        BY <2>1 DEF BatchDelete, RedemptionTypeOK, Deletes
      <3> QED
        BY <2>1, <3>1, <3>2 DEF BatchDelete, RedemptionTypeOK, editVars, Plans, Deletes
    <2>2. CASE (ReadCode(a) \/ ReadTask(a) \/ ReadGuest(a) \/ DropPlan(a)) /\ plan' \in [Admins -> Plans]
      BY <2>2 DEF ReadCode, ReadTask, ReadGuest, DropPlan, rowVars, createVars, editVars, RedemptionTypeOK, Plans
    <2> QED
      BY <2>1, <2>2
  <1> DEFINE p == plan[a]
  <1>p. p \in Plans
    BY <1>t
  <1>1. CASE ReadCode(a)
    <2>1. code \in {"creating", "usable", "used"}
      BY <1>1, <1>t DEF ReadCode
    <2>2. plan' = [plan EXCEPT ![a] = [p EXCEPT !.at = "code", !.code = code]]
      BY <1>1, <1>t DEF ReadCode
    <2>3. [p EXCEPT !.at = "code", !.code = code] \in Plans
      BY <1>p, <2>1 DEF Plans
    <2> QED
      BY <1>t, <2>2, <2>3
  <1>2. CASE ReadTask(a)
    <2>2. plan' = [plan EXCEPT ![a] = [p EXCEPT !.at = "task", !.create = create]]
      BY <1>2, <1>t DEF ReadTask
    <2>3. [p EXCEPT !.at = "task", !.create = create] \in Plans
      BY <1>p, <1>t DEF Plans
    <2> QED
      BY <1>t, <2>2, <2>3
  <1>3. CASE ReadGuest(a)
    <2> DEFINE present == Present
               open == DeleteOpen
    <2>1. present \in BOOLEAN /\ open \in BOOLEAN
      BY DEF Present, DeleteOpen
    <2>2. plan' = [plan EXCEPT ![a] = [p EXCEPT !.at = "instance", !.instance = present, !.active = open]]
      BY <1>3, <1>t DEF ReadGuest
    <2> HIDE DEF present, open
    <2>3. [p EXCEPT !.at = "instance", !.instance = present, !.active = open] \in Plans
      BY <1>p, <2>1 DEF Plans
    <2> QED
      BY <1>t, <2>2, <2>3
  <1>4. CASE DropPlan(a)
    BY <1>4, <1>t, NoPlanTyped DEF DropPlan
  <1> QED
    BY <1>1, <1>2, <1>3, <1>4, <1>r

LEMMA DeleteTyped == RedemptionTypeOK /\ DeleteStep => RedemptionTypeOK'
  <1> SUFFICES ASSUME RedemptionTypeOK, DeleteStep PROVE RedemptionTypeOK'
    OBVIOUS
  <1> USE DEF RedemptionTypeOK, rowVars, createVars, editVars
  <1>1. CASE DelayedDelete
    <2>1. deletes' \in [Ids -> Deletes] /\ instance' \in Instances
      BY <1>1, ReserveTyped DEF DelayedDelete, Deletes, Instances
    <2> QED
      BY <1>1, <2>1 DEF DelayedDelete, Deletes, Instances
  <1>2. ASSUME NEW d \in Ids, RequestDelete(d) PROVE RedemptionTypeOK'
    BY <1>2, ReserveTyped DEF RequestDelete, Deletes
  <1>3. ASSUME NEW d \in Ids, BeginDelete(d) PROVE RedemptionTypeOK'
    BY <1>3 DEF BeginDelete
  <1>4. ASSUME NEW d \in Ids, Deleted(d) PROVE RedemptionTypeOK'
    BY <1>4 DEF Deleted, Orphaned
  <1>5. ASSUME NEW d \in Ids, NotDeleted(d) PROVE RedemptionTypeOK'
    BY <1>5, RestoredTyped DEF NotDeleted, Instances
  <1>6. CASE ProviderDeleted
    <2>1. deletes' \in [Ids -> Deletes]
      BY <1>6 DEF ProviderDeleted, Deletes
    <2> QED
      BY <1>6, <2>1 DEF ProviderDeleted, Deletes
  <1> QED
    BY <1>1, <1>2, <1>3, <1>4, <1>5, <1>6 DEF DeleteStep

LEMMA EditRowTyped == RedemptionTypeOK /\ EditRowStep => RedemptionTypeOK'
  <1> SUFFICES ASSUME RedemptionTypeOK, NEW e \in Editors, ReadRow(e) \/ SaveRow(e) \/ DropRow(e)
               PROVE  RedemptionTypeOK'
    BY DEF EditRowStep
  <1> USE DEF RedemptionTypeOK, rowVars, createVars
  <1>1. CASE ReadRow(e)
    BY <1>1 DEF ReadRow
  <1>2. CASE SaveRow(e)
    <2>1. owner' \in Redeemers \cup {Nobody} /\ scars' \subseteq {"code", "owner", "status"}
      BY <1>2 DEF SaveRow
    <2> QED
      BY <1>2, <2>1 DEF SaveRow, Asked
  <1>3. CASE DropRow(e)
    BY <1>3 DEF DropRow
  <1> QED
    BY <1>1, <1>2, <1>3

LEMMA EndTyped == RedemptionTypeOK /\ EndProcess => RedemptionTypeOK'
  <1> SUFFICES ASSUME RedemptionTypeOK, EndProcess PROVE RedemptionTypeOK'
    OBVIOUS
  <1> USE DEF RedemptionTypeOK
  <1>1. instance' \in Instances
    BY RestoredTyped DEF EndProcess, Begun, Instances
  <1>2. deletes' \in [Ids -> Deletes]
    BY DEF EndProcess, Deletes
  <1>3. ends' \in 0..MaxRestarts
    BY RedemptionAssumption DEF EndProcess
  <1> QED
    BY <1>1, <1>2, <1>3 DEF EndProcess, EndedAs, NoPlan, Instances, Deletes

(* Every state is well typed. *)
THEOREM TypeCorrect == RedemptionSpec => []RedemptionTypeOK
  <1>1. RedemptionTypeOK /\ [RedemptionNext]_redemptionVars => RedemptionTypeOK'
    <2> SUFFICES ASSUME RedemptionTypeOK, [RedemptionNext]_redemptionVars PROVE RedemptionTypeOK'
      OBVIOUS
    <2>1. CASE UNCHANGED redemptionVars
      BY <2>1 DEF redemptionVars, rowVars, createVars, editVars, RedemptionTypeOK
    <2> QED
      BY <2>1, CreateTyped, RedeemTyped, AdminTyped, DeleteTyped, EditRowTyped, EndTyped DEF RedemptionNext
  <1> QED
    BY <1>1, TypedInit, PTL DEF RedemptionSpec

-----------------------------------------------------------------------------
(* The invariant. *)

(* Before its creation is finalized a code is not usable. *)
Early ==
    /\ code = "none" => create = "none" /\ place = "idle"
    /\ create = "pending" \/ place \in {"claimed", "unprepared", "prepared"}
         => code \in {"creating", "gone"}

(* Who redeems holds the row of a usable code, alone. *)
Locked == \A u \in redeeming : code = "usable" /\ redeeming = {u}

(* Who owns the instance, or did when an edit read it, is who redeemed the code.  *)
Owned ==
    /\ owner \in {Nobody, redeemer}
    /\ \A e \in Editors : copies[e] \subseteq {Nobody, redeemer}
    /\ redeemer # Nobody => code \in {"used", "gone"}

RedemptionIInv == RedemptionTypeOK /\ Early /\ Locked /\ Owned /\ LinkHonest

LEMMA InvariantInit == RedemptionInit => Early /\ Locked /\ Owned /\ LinkHonest
  BY DEF RedemptionInit, Early, Locked, Owned, LinkHonest

\* Nobody writes the code's row while it is held, but its holder.
LEMMA LockedKept ==
  ASSUME Locked, redeeming' = redeeming, code' = code \/ redeeming = {}
  PROVE  Locked'
  BY DEF Locked

\* What writes no owner, and the code of no redeemed instance but to delete it.
LEMMA OwnedKept ==
  ASSUME Owned, owner' = owner, copies' = copies, redeemer' = redeemer,
         code' = code \/ code' = "gone" \/ code \in {"none", "creating", "usable"}
  PROVE  Owned'
  BY DEF Owned

LEMMA CreateKeeps == RedemptionIInv /\ CreateStep => Early' /\ Locked' /\ Owned' /\ LinkHonest'
  <1> SUFFICES ASSUME RedemptionIInv, CreateStep PROVE Early' /\ Locked' /\ Owned' /\ LinkHonest'
    OBVIOUS
  <1> USE DEF RedemptionIInv, rowVars, createVars, editVars
  <1>1. Locked'
    BY LockedKept DEF CreateStep, BatchCreate, Claim, Cancel, Prepare, HardDelete, Finalize,
                      Unfinalized, PostProcess, GiveUp, Complete, Quarantine, Early, Locked
  <1>0. Owned'
    BY OwnedKept DEF CreateStep, BatchCreate, Claim, Cancel, Prepare, HardDelete, Finalize,
                     Unfinalized, PostProcess, GiveUp, Complete, Quarantine, Purged, Early
  <1>2. CASE BatchCreate
    BY <1>0, <1>1, <1>2 DEF BatchCreate, Early, LinkHonest, Present
  <1>3. CASE Claim \/ Cancel \/ Unfinalized \/ Complete \/ Quarantine
    BY <1>0, <1>1, <1>3 DEF Claim, Cancel, Unfinalized, Complete, Quarantine, EndedAs, Early, LinkHonest, Present
  <1>4. CASE Prepare
    BY <1>0, <1>1, <1>4 DEF Prepare, EndedAs, Early, LinkHonest, Present
  <1>5. CASE HardDelete \/ GiveUp
    BY <1>0, <1>1, <1>5 DEF HardDelete, GiveUp, Purged, Early, Owned, LinkHonest, Present
  <1>6. CASE Finalize
    BY <1>0, <1>1, <1>6 DEF Finalize, Purged, Early, Owned, LinkHonest, Present
  <1>7. CASE PostProcess
    BY <1>0, <1>1, <1>7 DEF PostProcess, Present, Early, LinkHonest
  <1> QED
    BY <1>2, <1>3, <1>4, <1>5, <1>6, <1>7 DEF CreateStep

LEMMA RedeemKeeps == RedemptionIInv /\ RedeemStep => Early' /\ Locked' /\ Owned' /\ LinkHonest'
  <1> SUFFICES ASSUME RedemptionIInv, NEW u \in Redeemers, Redeem(u) \/ Redeemed(u) \/ NotRedeemed(u)
               PROVE  Early' /\ Locked' /\ Owned' /\ LinkHonest'
    BY DEF RedeemStep
  <1> USE DEF RedemptionIInv, rowVars, createVars, editVars
  <1>1. CASE Redeem(u) \/ NotRedeemed(u)
    BY <1>1 DEF Redeem, NotRedeemed, Early, Locked, Owned, LinkHonest, Present
  <1>2. CASE Redeemed(u)
    <2>1. code = "usable" /\ redeeming = {u} /\ redeemer = Nobody
      BY <1>2 DEF Redeemed, Locked, Owned
    <2>2. Early' /\ Locked' /\ Owned'
      BY <1>2, <2>1 DEF Redeemed, Early, Locked, Owned
    <2>3. u # Nobody
      BY RedemptionAssumption
    <2> QED
      BY <1>2, <2>1, <2>2, <2>3 DEF Redeemed, LinkHonest
  <1> QED
    BY <1>1, <1>2

LEMMA AdminKeeps == RedemptionIInv /\ AdminStep => Early' /\ Locked' /\ Owned' /\ LinkHonest'
  <1> SUFFICES ASSUME RedemptionIInv, NEW a \in Admins,
                      \/ ReadCode(a) \/ ReadTask(a) \/ ReadGuest(a)
                      \/ DropPlan(a) \/ BatchDelete(a)
               PROVE  Early' /\ Locked' /\ Owned' /\ LinkHonest'
    BY DEF AdminStep
  <1> USE DEF RedemptionIInv, rowVars, createVars, editVars
  <1>1. CASE ReadCode(a) \/ ReadTask(a) \/ ReadGuest(a) \/ DropPlan(a)
    BY <1>1 DEF ReadCode, ReadTask, ReadGuest, DropPlan, Early, Locked, Owned, LinkHonest, Present
  <1>2. CASE BatchDelete(a)
    <2>1. Owned'
      BY <1>2, OwnedKept DEF BatchDelete
    <2> QED
      BY <1>2, <2>1 DEF BatchDelete, Unfinished, Early, Locked, Owned, LinkHonest
  <1> QED
    BY <1>1, <1>2

\* What a deletion leaves of the instance.
LEMMA RestoredExists ==
  ASSUME RedemptionTypeOK, NEW d \in Ids, Restored(d) # instance
  PROVE  Restored(d) \in {"live", "error"}
  BY DEF RedemptionTypeOK, Restored

LEMMA DeleteKeeps == RedemptionIInv /\ DeleteStep => Early' /\ Locked' /\ Owned' /\ LinkHonest'
  <1> SUFFICES ASSUME RedemptionIInv, DeleteStep PROVE Early' /\ Locked' /\ Owned' /\ LinkHonest'
    OBVIOUS
  <1> USE DEF RedemptionIInv, rowVars, createVars, editVars
  <1>0. Owned'
    BY OwnedKept DEF DeleteStep, DelayedDelete, ProviderDeleted, RequestDelete, BeginDelete, Deleted,
                     NotDeleted, Orphaned
  <1>1. CASE DelayedDelete
    BY <1>0, <1>1 DEF DelayedDelete, Reserve, Early, Locked, LinkHonest, Present
  <1>2. ASSUME NEW d \in Ids, RequestDelete(d) PROVE Early' /\ Locked' /\ LinkHonest'
    BY <1>2 DEF RequestDelete, Reserve, Early, Locked, LinkHonest, Present
  <1>3. ASSUME NEW d \in Ids, BeginDelete(d) PROVE Early' /\ Locked' /\ LinkHonest'
    BY <1>3 DEF BeginDelete, Early, Locked, LinkHonest, Present
  <1>4. ASSUME NEW d \in Ids, Deleted(d) PROVE Early' /\ Locked' /\ LinkHonest'
    BY <1>4 DEF Deleted, Orphaned, Early, Locked, Owned, LinkHonest, Present
  <1>5. ASSUME NEW d \in Ids, NotDeleted(d) PROVE Early' /\ Locked' /\ LinkHonest'
    BY <1>5, RestoredExists DEF NotDeleted, Early, Locked, LinkHonest, Present
  <1>6. CASE ProviderDeleted
    <2>1. /\ code' = code /\ owner' = owner /\ place' = place /\ redeeming' = redeeming
          /\ instance' = "gone" /\ scars' = scars \cup {"code"}
          /\ create' = "pending" => create = "pending"
          /\ create = "none" => create' = "none"
      BY <1>6 DEF ProviderDeleted
    <2>2. Early' /\ Locked'
      BY <2>1 DEF Early, Locked
    <2>3. LinkHonest'
      BY <2>1 DEF LinkHonest, Present
    <2> QED
      BY <1>0, <2>2, <2>3
  <1> QED
    BY <1>0, <1>1, <1>2, <1>3, <1>4, <1>5, <1>6 DEF DeleteStep

LEMMA EditRowKeeps == RedemptionIInv /\ EditRowStep => Early' /\ Locked' /\ Owned' /\ LinkHonest'
  <1> SUFFICES ASSUME RedemptionIInv, NEW e \in Editors, ReadRow(e) \/ SaveRow(e) \/ DropRow(e)
               PROVE  Early' /\ Locked' /\ Owned' /\ LinkHonest'
    BY DEF EditRowStep
  <1> USE DEF RedemptionIInv, rowVars, createVars
  <1>1. CASE ReadRow(e)
    BY <1>1 DEF ReadRow, RedemptionTypeOK, Early, Locked, Owned, LinkHonest, Present
  <1>2. CASE SaveRow(e)
    <2>1. Early' /\ Locked'
      BY <1>2 DEF SaveRow, Early, Locked
    <2>2. owner' \in {Nobody, redeemer} /\ Owned'
      BY <1>2 DEF SaveRow, RedemptionTypeOK, Owned
    <2>3. scars \subseteq scars' /\ (owner' # owner => "owner" \in scars')
      BY <1>2 DEF SaveRow
    <2>4. Present' /\ ("status" \in scars' \/ instance' # "creating")
      BY <1>2 DEF SaveRow, Asked, Present
    <2> QED
      BY <1>2, <2>1, <2>2, <2>3, <2>4 DEF SaveRow, Owned, LinkHonest
  <1>3. CASE DropRow(e)
    BY <1>3 DEF DropRow, RedemptionTypeOK, Early, Locked, Owned, LinkHonest, Present
  <1> QED
    BY <1>1, <1>2, <1>3

LEMMA EndKeeps == RedemptionIInv /\ EndProcess => Early' /\ Locked' /\ Owned' /\ LinkHonest'
  <1> SUFFICES ASSUME RedemptionIInv, EndProcess PROVE Early' /\ Locked' /\ Owned' /\ LinkHonest'
    OBVIOUS
  <1>1. instance' = instance \/ instance' \in {"live", "error"}
    BY RestoredExists DEF RedemptionIInv, EndProcess, Begun
  <1>2. Owned'
    BY DEF RedemptionIInv, EndProcess, Owned
  <1> QED
    BY <1>1, <1>2 DEF RedemptionIInv, EndProcess, EndedAs, Early, Locked, LinkHonest, Present

LEMMA Invariance == RedemptionSpec => []RedemptionIInv
  <1>1. RedemptionIInv /\ [RedemptionNext]_redemptionVars => Early' /\ Locked' /\ Owned' /\ LinkHonest'
    <2> SUFFICES ASSUME RedemptionIInv, [RedemptionNext]_redemptionVars
                 PROVE  Early' /\ Locked' /\ Owned' /\ LinkHonest'
      OBVIOUS
    <2>1. CASE UNCHANGED redemptionVars
      BY <2>1 DEF redemptionVars, rowVars, createVars, editVars, RedemptionIInv, Early, Locked, Owned,
                  LinkHonest, Present
    <2> QED
      BY <2>1, CreateKeeps, RedeemKeeps, AdminKeeps, DeleteKeeps, EditRowKeeps, EndKeeps DEF RedemptionNext
  <1>2. RedemptionTypeOK /\ Early /\ Locked /\ Owned /\ LinkHonest <=> RedemptionIInv
    BY DEF RedemptionIInv
  <1> QED
    BY <1>1, <1>2, InvariantInit, TypeCorrect, PTL DEF RedemptionSpec

(* However users, administrators, deletions, edits, the create task and restarts      *)
(* interleave, a usable code has an instance that is nobody's, and what is            *)
(* somebody's was redeemed; a code whose instance went, or was taken, was left so by   *)
(* a deletion or an edit that the history names.                                    *)
THEOREM LinkHonestAlways == RedemptionSpec => []LinkHonest
  <1>1. RedemptionIInv => LinkHonest
    BY DEF RedemptionIInv
  <1> QED
    BY <1>1, Invariance, PTL

(* A code is redeemed by one user, its instance is nobody else's afterwards, and only  *)
(* the save of an edit that read it as nobody's takes it from that user.              *)
THEOREM RedeemedOnceAlways == RedemptionSpec => RedeemedOnce
  <1> DEFINE Step ==
        /\ redeemer # Nobody => redeemer' = redeemer
        /\ owner' \in {Nobody, redeemer'}
        /\ owner # Nobody /\ owner' = Nobody => \E e \in Editors : Nobody \in copies[e] /\ copies'[e] = {}
  <1>1. RedemptionIInv /\ [RedemptionNext]_redemptionVars => [Step]_redemptionVars
    <2> SUFFICES ASSUME RedemptionIInv, RedemptionNext PROVE Step
      BY DEF redemptionVars
    <2>0. Owned'
      BY CreateKeeps, RedeemKeeps, AdminKeeps, DeleteKeeps, EditRowKeeps, EndKeeps DEF RedemptionNext
    <2> SUFFICES /\ redeemer # Nobody => redeemer' = redeemer
                 /\ owner # Nobody /\ owner' = Nobody
                      => \E e \in Editors : Nobody \in copies[e] /\ copies'[e] = {}
      BY <2>0 DEF Owned
    <2> USE DEF rowVars, createVars, editVars
    <2>1. CASE CreateStep
      BY <2>1 DEF CreateStep, BatchCreate, Claim, Cancel, Prepare, HardDelete, Finalize,
                  Unfinalized, PostProcess, GiveUp, Complete, Quarantine
    <2>2. CASE RedeemStep
      BY <2>2, RedemptionAssumption
         DEF RedemptionIInv, RedeemStep, Redeem, Redeemed, NotRedeemed, Locked, Owned
    <2>3. CASE AdminStep
      BY <2>3 DEF AdminStep, ReadCode, ReadTask, ReadGuest, DropPlan, BatchDelete
    <2>4. CASE DeleteStep \/ EndProcess
      BY <2>4 DEF DeleteStep, DelayedDelete, ProviderDeleted, RequestDelete, BeginDelete, Deleted,
                  NotDeleted, EndProcess
    <2>5. ASSUME NEW e \in Editors, ReadRow(e) \/ DropRow(e) PROVE redeemer' = redeemer /\ owner' = owner
      BY <2>5 DEF ReadRow, DropRow
    <2>6. ASSUME NEW e \in Editors, SaveRow(e)
          PROVE  /\ redeemer' = redeemer
                 /\ owner # Nobody /\ owner' = Nobody => Nobody \in copies[e] /\ copies'[e] = {}
      BY <2>6 DEF SaveRow, RedemptionIInv, RedemptionTypeOK
    <2> QED
      BY <2>1, <2>2, <2>3, <2>4, <2>5, <2>6 DEF RedemptionNext, EditRowStep
  <1> QED
    BY <1>1, Invariance, PTL DEF RedemptionSpec, RedeemedOnce
=============================================================================
