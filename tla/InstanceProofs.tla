--------------------------- MODULE InstanceProofs ---------------------------
(***************************************************************************)
(* Theorems about the instances of users: how many a user may hold (Capacity),  *)
(* and what writes an instance's status, limit and freeze, that is the traffic    *)
(* passes (TrafficLimit) and the comparison with the node (InstanceSync); for any *)
(* instances, users, providers, tasks, requests, passes, slots and limits.  They   *)
(* share no state; their proofs share a module.                                *)
(***************************************************************************)
EXTENDS Capacity, InstanceSync, TrafficLimit, FiniteSetTheorems, TLAPS

-----------------------------------------------------------------------------
(* Capacity.  The argument counts: an admission adds one to what a user holds    *)
(* and is allowed below the limit only; preparing an instance exchanges its      *)
(* reservation for its row; every other step takes instances and reservations     *)
(* away, or brings an instance back from a status that is not counted.           *)

CleanKinds == {"running", "cancelling", "delete"}
Guests == {"none", "creating", "live", "error", "failed", "deleting"}

LEMMA Counting ==
  ASSUME NEW S \in SUBSET Jobs PROVE IsFiniteSet(S) /\ Cardinality(S) \in Nat
  BY CapacityAssumption, FS_Subset, FS_CardinalityType

\* The node's count and a request's snapshot are numbers of instances.
LEMMA StandingCount == Cardinality(Standing) \in Nat /\ Cardinality(Reserved) \in Nat
  BY Counting DEF Standing, Reserved

LEMMA TypedInit == CapacityInit => CapacityTypeOK
  <1> SUFFICES ASSUME CapacityInit PROVE CapacityTypeOK
    OBVIOUS
  <1> USE DEF CapacityInit
  <1>1. 0 \in 0..MaxRestarts
    BY CapacityAssumption
  <1> QED
    BY <1>1 DEF CapacityTypeOK

-----------------------------------------------------------------------------
(* Types. *)

\* The admission: the gate, the snapshot, and the node's count written back.
LEMMA AdmissionTyped ==
  ASSUME CapacityTypeOK, NEW c \in Creators,
         CheckGate(c) \/ Refuse(c) \/ \E j \in Jobs : Admit(c, j)
  PROVE  CapacityTypeOK'
  <1> USE DEF CapacityTypeOK, jobVars, nodeVars, creatorVars, bootVars
  <1>1. CASE CheckGate(c)
    BY <1>1, StandingCount DEF CheckGate
  <1>2. CASE Refuse(c)
    BY <1>2 DEF Refuse
  <1>3. ASSUME NEW j \in Jobs, Admit(c, j) PROVE CapacityTypeOK'
    <2>1. NodeCount(c) \in Nat
      BY DEF NodeCount
    <2> QED
      BY <1>3, <2>1 DEF Admit
  <1> QED
    BY <1>1, <1>2, <1>3

LEMMA UndoneTyped ==
  ASSUME CapacityTypeOK, NEW j \in Jobs, NEW g \in Undone(j)
  PROVE  g \in [Jobs -> Guests] /\ \A k \in Jobs : k # j => g[k] = guest[k]
  BY DEF CapacityTypeOK, Undone, Guests

LEMMA ErroredTyped ==
  ASSUME CapacityTypeOK, NEW j \in Jobs
  PROVE  Errored(j) \in [Jobs -> Guests]
  BY DEF CapacityTypeOK, Errored, Guests

LEMMA WorkTyped ==
  ASSUME CapacityTypeOK, NEW j \in Jobs,
         \/ Begin(j) \/ Prepare(j) \/ PrepareFails(j) \/ Finalize(j) \/ CreateFails(j)
         \/ PostProcess(j) \/ CancelPending(j) \/ CancelRunning(j) \/ EndCancelled(j)
  PROVE  CapacityTypeOK'
  <1> USE DEF CapacityTypeOK, jobVars, nodeVars, creatorVars, bootVars, Returned
  <1>1. CASE Begin(j)
    BY <1>1 DEF Begin
  <1>2. CASE Prepare(j)
    BY <1>2 DEF Prepare, Allocated
  <1>3. CASE PrepareFails(j)
    BY <1>3 DEF PrepareFails
  <1>4. CASE Finalize(j)
    BY <1>4 DEF Finalize
  <1>5. CASE CreateFails(j)
    BY <1>5 DEF CreateFails
  <1>6. CASE PostProcess(j)
    BY <1>6 DEF PostProcess
  <1>7. CASE CancelPending(j)
    BY <1>7 DEF CancelPending
  <1>8. CASE CancelRunning(j)
    BY <1>8 DEF CancelRunning
  <1>9. CASE EndCancelled(j)
    BY <1>9, ErroredTyped DEF EndCancelled, Guests
  <1> QED
    BY <1>1, <1>2, <1>3, <1>4, <1>5, <1>6, <1>7, <1>8, <1>9

LEMMA OtherJobTyped ==
  ASSUME CapacityTypeOK, NEW j \in Jobs,
         \/ Delete(j) \/ DeleteDone(j) \/ DeleteUndone(j) \/ Repair(j)
         \/ HoldExpires(j) \/ CleanHold(j) \/ \E k \in CleanKinds : CleanOrphan(j, k)
  PROVE  CapacityTypeOK'
  <1> USE DEF CapacityTypeOK, jobVars, nodeVars, creatorVars, bootVars, Returned
  <1>1. CASE Delete(j)
    BY <1>1 DEF Delete
  <1>2. CASE DeleteDone(j)
    <2>1. Released \in Nat
      BY DEF Released
    <2> QED
      BY <1>2, <2>1 DEF DeleteDone
  <1>3. CASE DeleteUndone(j)
    BY <1>3, UndoneTyped DEF DeleteUndone, Guests
  <1>4. CASE Repair(j)
    <2>1. guest' \in [Jobs -> Guests]
      BY <1>4 DEF Repair, Repaired, Guests
    <2> QED
      BY <1>4, <2>1 DEF Repair, Guests
  <1>5. CASE HoldExpires(j)
    BY <1>5 DEF HoldExpires
  <1>6. CASE CleanHold(j)
    BY <1>6 DEF CleanHold
  <1>7. ASSUME NEW k \in CleanKinds, CleanOrphan(j, k) PROVE CapacityTypeOK'
    <2>1. guest' \in [Jobs -> Guests]
      BY <1>7, UndoneTyped, ErroredTyped DEF CleanOrphan
    <2>2. hold' \in [Jobs -> {"none", "live", "late"}] /\ back' \in [Jobs -> {"live", "error"}]
      BY <1>7 DEF CleanOrphan
    <2> QED
      BY <1>7, <2>1, <2>2 DEF CleanOrphan, Guests
  <1> QED
    BY <1>1, <1>2, <1>3, <1>4, <1>5, <1>6, <1>7

LEMMA TypedNext == CapacityTypeOK /\ [CapacityNext]_capacityVars => CapacityTypeOK'
  <1> SUFFICES ASSUME CapacityTypeOK, [CapacityNext]_capacityVars PROVE CapacityTypeOK'
    OBVIOUS
  <1> USE DEF CapacityTypeOK, jobVars, nodeVars, creatorVars, bootVars
  <1>1. CASE \E c \in Creators : CheckGate(c) \/ Refuse(c) \/ \E j \in Jobs : Admit(c, j)
    BY <1>1, AdmissionTyped DEF CapacityTypeOK
  <1>2. CASE \E j \in Jobs : JobStep(j)
    <2> PICK j \in Jobs : JobStep(j)
      BY <1>2
    <2> QED
      BY WorkTyped, OtherJobTyped DEF JobStep, CleanKinds
  <1>3. CASE CountExpires
    BY <1>3 DEF CountExpires
  <1>4. ASSUME NEW b \in BOOLEAN, SetEnabled(b) PROVE CapacityTypeOK'
    BY <1>4 DEF SetEnabled
  <1>5. CASE Restart
    BY <1>5, CapacityAssumption DEF Restart
  <1>6. CASE Booted
    BY <1>6, StandingCount DEF Booted
  <1>7. CASE UNCHANGED capacityVars
    BY <1>7 DEF capacityVars
  <1> QED
    BY <1>1, <1>2, <1>3, <1>4, <1>5, <1>6, <1>7 DEF CapacityNext

(* Every reachable state is well typed; in particular the cached count, which    *)
(* releases lower and allocations raise, is never negative.                    *)
THEOREM CapacityTypeCorrect == CapacitySpec => []CapacityTypeOK
  BY TypedInit, TypedNext, PTL DEF CapacitySpec

-----------------------------------------------------------------------------
(* The limit of the user. *)

Returns == \E j \in Jobs : guest[j] \in {"deleting", "failed"} /\ guest'[j] \notin Terminal

\* Nothing new: instances and reservations are at most what they were.
LEMMA FewerHeld ==
  ASSUME Standing' \subseteq Standing, Reserved' \subseteq Reserved
  PROVE  HeldCount' <= HeldCount
  <1>1. Standing \in SUBSET Jobs /\ Reserved \in SUBSET Jobs
    BY DEF Standing, Reserved
  <1>2. Cardinality(Standing') <= Cardinality(Standing) /\ Cardinality(Standing') \in Nat
    BY <1>1, Counting, FS_Subset, FS_CardinalityType
  <1>3. Cardinality(Reserved') <= Cardinality(Reserved) /\ Cardinality(Reserved') \in Nat
    BY <1>1, Counting, FS_Subset, FS_CardinalityType
  <1> QED
    BY <1>2, <1>3, StandingCount DEF HeldCount

\* An admission adds a reservation to what was below the limit.
LEMMA AdmitFits ==
  ASSUME CapacityTypeOK, NEW c \in Creators, NEW j \in Jobs, Admit(c, j)
  PROVE  HeldCount' <= UserMax
  <1>1. Standing' = Standing
    BY DEF Admit, Standing
  <1>2. Reserved' = Reserved \cup {j}
    BY DEF Admit, Reserved, CapacityTypeOK
  <1>3. Reserved \in SUBSET Jobs
    BY DEF Reserved
  <1>4. Cardinality(Reserved') <= Cardinality(Reserved) + 1 /\ Cardinality(Reserved') \in Nat
    BY <1>2, <1>3, Counting, FS_AddElement, FS_CardinalityType
  <1>5. Cardinality(Standing) + Cardinality(Reserved) < UserMax
    BY DEF Admit, Fits, UserFits, HeldCount
  <1> QED
    BY <1>1, <1>4, <1>5, StandingCount, CapacityAssumption DEF HeldCount

\* A reservation becomes an instance.
LEMMA PrepareExchanges ==
  ASSUME CapacityTypeOK, NEW j \in Jobs, Prepare(j)
  PROVE  HeldCount' <= HeldCount
  <1>1. Standing' = Standing \cup {j} /\ j \notin Standing
    BY DEF Prepare, Standing, Terminal, CapacityTypeOK
  <1>2. Reserved' = Reserved \ {j} /\ j \in Reserved
    BY DEF Prepare, Consumable, Reserved, CapacityTypeOK
  <1>3. Standing \in SUBSET Jobs /\ Reserved \in SUBSET Jobs
    BY DEF Standing, Reserved
  <1>4. Cardinality(Standing') = Cardinality(Standing) + 1
    BY <1>1, <1>3, Counting, FS_AddElement
  <1>5. Cardinality(Reserved') = Cardinality(Reserved) - 1
    BY <1>2, <1>3, Counting, FS_RemoveElement
  <1> QED
    BY <1>4, <1>5, StandingCount DEF HeldCount

\* A step that neither brings an instance back nor makes one.
LEMMA NothingNew ==
  ASSUME CapacityTypeOK, ~Returns,
         \A j \in Jobs : guest[j] = "none" => guest'[j] = "none",
         \A j \in Jobs : hold'[j] = "live" => hold[j] = "live"
  PROVE  HeldCount' <= HeldCount
  <1>1. Standing' \subseteq Standing
    BY DEF Standing, Returns, Terminal
  <1>2. Reserved' \subseteq Reserved
    BY DEF Reserved
  <1> QED
    BY <1>1, <1>2, FewerHeld

LEMMA JobStepLimited ==
  ASSUME CapacityTypeOK, NEW j \in Jobs, JobStep(j), ~Returns
  PROVE  HeldCount' <= HeldCount
  <1> DEFINE Same == /\ \A i \in Jobs : guest[i] = "none" => guest'[i] = "none"
                     /\ \A i \in Jobs : hold'[i] = "live" => hold[i] = "live"
  <1> USE DEF jobVars, nodeVars, creatorVars, bootVars
  <1>1. CASE Prepare(j)
    BY <1>1, PrepareExchanges
  <1>2. CASE Begin(j) \/ CancelRunning(j)
    <2> Same
      BY <1>2 DEF Begin, CancelRunning
    <2> QED
      BY NothingNew
  <1>3. CASE PrepareFails(j) \/ CancelPending(j)
    <2> Same
      BY <1>3 DEF PrepareFails, CancelPending, Returned, CapacityTypeOK
    <2> QED
      BY NothingNew
  <1>4. CASE Finalize(j) \/ CreateFails(j) \/ PostProcess(j)
    <2> Same
      BY <1>4 DEF Finalize, CreateFails, PostProcess, CapacityTypeOK
    <2> QED
      BY NothingNew
  <1>5. CASE EndCancelled(j)
    <2> Same
      BY <1>5 DEF EndCancelled, Returned, Errored, CapacityTypeOK
    <2> QED
      BY NothingNew
  <1>6. CASE Delete(j) \/ DeleteDone(j)
    <2> Same
      BY <1>6 DEF Delete, DeleteDone, CapacityTypeOK
    <2> QED
      BY NothingNew
  <1>7. CASE DeleteUndone(j)
    <2> Same
      BY <1>7 DEF DeleteUndone, Undone, CapacityTypeOK
    <2> QED
      BY NothingNew
  <1>8. CASE Repair(j)
    <2> Same
      BY <1>8 DEF Repair, Repaired, CapacityTypeOK
    <2> QED
      BY NothingNew
  <1>9. CASE HoldExpires(j) \/ CleanHold(j)
    <2> Same
      BY <1>9 DEF HoldExpires, CleanHold, CapacityTypeOK
    <2> QED
      BY NothingNew
  <1>10. ASSUME NEW k \in CleanKinds, CleanOrphan(j, k) PROVE HeldCount' <= HeldCount
    <2>1. \A i \in Jobs : guest[i] = "none" => guest'[i] = "none"
      BY <1>10 DEF CleanOrphan, Undone, Errored, CapacityTypeOK
    <2>2. \A i \in Jobs : hold'[i] = "live" => hold[i] = "live"
      BY <1>10 DEF CleanOrphan, Returned, CapacityTypeOK
    <2> QED
      BY <2>1, <2>2, NothingNew
  <1> QED
    BY <1>1, <1>2, <1>3, <1>4, <1>5, <1>6, <1>7, <1>8, <1>9, <1>10 DEF JobStep, CleanKinds

LEMMA StepLimited ==
  ASSUME CapacityTypeOK, [CapacityNext]_capacityVars, ~Returns
  PROVE  HeldCount' <= HeldCount \/ HeldCount' <= UserMax
  <1> DEFINE Same == UNCHANGED <<guest, hold>>
  <1>0. ASSUME Same PROVE HeldCount' <= HeldCount
    BY <1>0, NothingNew
  <1> USE DEF jobVars, nodeVars, creatorVars, bootVars
  <1>1. ASSUME NEW c \in Creators, CheckGate(c) \/ Refuse(c) PROVE Same
    BY <1>1 DEF CheckGate, Refuse
  <1>2. ASSUME NEW c \in Creators, NEW j \in Jobs, Admit(c, j) PROVE HeldCount' <= UserMax
    BY <1>2, AdmitFits
  <1>3. ASSUME NEW j \in Jobs, JobStep(j) PROVE HeldCount' <= HeldCount
    BY <1>3, JobStepLimited
  <1>4. CASE CountExpires \/ Restart \/ Booted \/ \E b \in BOOLEAN : SetEnabled(b)
    <2> Same
      BY <1>4 DEF CountExpires, Restart, Booted, SetEnabled
    <2> QED
      BY <1>0
  <1>5. CASE UNCHANGED capacityVars
    <2> Same
      BY <1>5 DEF capacityVars
    <2> QED
      BY <1>0
  <1> QED
    BY <1>0, <1>1, <1>2, <1>3, <1>4, <1>5 DEF CapacityNext

(* Whatever the limits and however requests, workers, expiry, repairs and         *)
(* restarts interleave, a step that takes a user over the limit brings back an     *)
(* instance that was being deleted or was given up as failed.                    *)
THEOREM OverLimitOnlyByReturnAlways == CapacitySpec => OverLimitOnlyByReturn
  <1>1. CapacityTypeOK /\ [CapacityNext]_capacityVars
          => [HeldCount' > UserMax /\ HeldCount' > HeldCount =>
                \E j \in Jobs : guest[j] \in {"deleting", "failed"}
                                /\ guest'[j] \notin Terminal]_capacityVars
    <2> SUFFICES ASSUME CapacityTypeOK, [CapacityNext]_capacityVars,
                        HeldCount' > UserMax, HeldCount' > HeldCount
                 PROVE  Returns
      BY DEF Returns
    <2>1. HeldCount \in Nat /\ HeldCount' \in Nat /\ UserMax \in Nat
      <3>1. Standing' \in SUBSET Jobs /\ Reserved' \in SUBSET Jobs
        BY DEF Standing, Reserved
      <3> QED
        BY <3>1, Counting, StandingCount, CapacityAssumption DEF HeldCount
    <2> QED
      BY <2>1, StepLimited
  <1> QED
    BY <1>1, CapacityTypeCorrect, PTL DEF CapacitySpec, OverLimitOnlyByReturn

-----------------------------------------------------------------------------
(* Power, traffic and comparison.  The invariant about the limits needs no word   *)
(* on the passes: whatever a pass has read before, its transactions write reason,  *)
(* limited and freeze together, and each of them leaves every reason with a cause  *)
(* (LimitedOK, ClearsOK).                                                     *)

-----------------------------------------------------------------------------
(* The tasks that start and stop. *)

TaskTable == [Instances -> [Slots -> OpenTasks \cup {EmptySlot}]]

(* A task that is queued finds a slot where there is room. *)
LEMMA QueuedTyped ==
  ASSUME PowerTypeOK, NEW S, HasRoom(S), NEW kind \in Kinds
  PROVE  Queued(S, kind) \in TaskTable
  <1>1. \A i \in S : (CHOOSE k \in FreeSlots(i) : TRUE) \in Slots
    BY DEF HasRoom, FreeSlots
  <1>2. [kind |-> kind, at |-> "queued"] \in OpenTasks
    BY DEF OpenTasks
  <1>3. ASSUME NEW i \in Instances, NEW k \in Slots
        PROVE  [task[i] EXCEPT ![k] = [kind |-> kind, at |-> "queued"]]
                 \in [Slots -> OpenTasks \cup {EmptySlot}]
    BY <1>2 DEF PowerTypeOK
  <1>4. ASSUME NEW i \in Instances
        PROVE  Queued(S, kind)[i] \in [Slots -> OpenTasks \cup {EmptySlot}]
    BY <1>1, <1>3 DEF Queued, PowerTypeOK
  <1> QED
    BY <1>4 DEF Queued, TaskTable

LEMMA ReserveTyped ==
  ASSUME PowerTypeOK, PowerAssumption, NEW i \in Instances, NEW kind \in Kinds,
         ReserveInstance(i, kind), UNCHANGED runs
  PROVE  PowerTypeOK'
  <1>1. HasRoom({i})
    BY PowerAssumption DEF ReserveInstance, Reservable, Unoccupied, HasRoom
  <1>2. task' \in TaskTable
    BY <1>1, QueuedTyped DEF ReserveInstance
  <1>3. Busy[kind] \in Statuses
    BY DEF Busy, Kinds, Statuses
  <1> QED
    BY <1>2, <1>3 DEF ReserveInstance, PowerTypeOK, TaskTable

LEMMA TaskStepTyped ==
  ASSUME PowerTypeOK, TaskStep
  PROVE  PowerTypeOK'
  <1> PICK i \in Instances, k \in Slots : Executes(i, k) \/ Fails(i, k) \/ Cancelled(i, k)
    BY DEF TaskStep
  <1> DEFINE t == task[i][k]
  <1>1. task \in TaskTable /\ t \in OpenTasks \cup {EmptySlot}
    BY DEF PowerTypeOK, TaskTable
  <1>2. ASSUME NEW n \in OpenTasks \cup {EmptySlot}
        PROVE  [task EXCEPT ![i][k] = n] \in TaskTable
    BY <1>1 DEF TaskTable
  <1>3. t.at \in {"queued", "done", "refused"} => t \in OpenTasks /\ t.kind \in Kinds
    BY <1>1 DEF EmptySlot, OpenTasks
  <1>4. ASSUME t \in OpenTasks, NEW at \in {"done", "refused"}
        PROVE  [task EXCEPT ![i][k].at = at] \in TaskTable
    <2>1. [t EXCEPT !.at = at] \in OpenTasks
      BY <1>4 DEF OpenTasks
    <2>2. [task EXCEPT ![i][k].at = at] = [task EXCEPT ![i][k] = [t EXCEPT !.at = at]]
      BY <1>1 DEF TaskTable
    <2> QED
      BY <1>2, <2>1, <2>2
  <1>5. Closed(i, k) => task' \in TaskTable
    BY <1>2 DEF Closed
  <1>6. CASE Obeys(i, k) \/ Fails(i, k)
    <2>1. task' \in TaskTable
      BY <1>3, <1>4, <1>6 DEF Obeys, Fails
    <2>2. runs' \in [Instances -> BOOLEAN]
      BY <1>6 DEF Obeys, Fails, PowerTypeOK
    <2> QED
      BY <1>6, <2>1, <2>2 DEF Obeys, Fails, PowerTypeOK, TaskTable
  <1>7. CASE Records(i, k) \/ RecordsFailure(i, k) \/ Cancelled(i, k)
    <2>1. t.kind \in Kinds /\ task' \in TaskTable /\ runs' = runs
      BY <1>3, <1>5, <1>7 DEF Records, RecordsFailure, Cancelled
    <2>2. /\ Result[t.kind] \in Statuses /\ From[t.kind] \in Statuses
          /\ Failure[t.kind] \subseteq Statuses
      BY <2>1 DEF Kinds, Result, From, Failure, Statuses
    <2>3. status' \in [Instances -> Statuses]
      BY <1>7, <2>2 DEF Records, RecordsFailure, Cancelled, PowerTypeOK
    <2> QED
      BY <2>1, <2>3 DEF PowerTypeOK, TaskTable
  <1> QED
    BY <1>6, <1>7 DEF Executes

LEMMA GuestTyped ==
  ASSUME PowerTypeOK, NEW i \in Instances, GuestTurns(i)
  PROVE  PowerTypeOK'
  BY DEF GuestTurns, PowerTypeOK

LEMMA PowerUnchanged == PowerTypeOK /\ UNCHANGED powerVars => PowerTypeOK'
  BY DEF PowerTypeOK, powerVars

-----------------------------------------------------------------------------
(* The comparison with the node: a count stays below what confirms. *)

Reports == [at : {"idle", "listed", "compared"},
            remote : [Instances -> Remotes \cup {"none"}],
            old : [Instances -> Statuses \cup {"none"}],
            changed : SUBSET Instances, left : SUBSET Instances]
Mismatches == [remote : Remotes, count : 1..Confirmations]

(* What is compared was listed before. *)
ReportListed == report.at # "idle" => report.remote \in [Instances -> Remotes]

SyncInv == InstanceSyncTypeOK /\ ReportListed

LEMMA SyncInvIs ==
  SyncInv <=> /\ PowerTypeOK /\ report \in Reports
              /\ tracker \in [Instances -> Mismatches \cup {NoRecord}]
              /\ ReportListed
  BY DEF SyncInv, InstanceSyncTypeOK, Reports, Mismatches

LEMMA NoReportTyped == NoReport \in Reports /\ NoReport.at = "idle"
  BY DEF NoReport, Reports

LEMMA SyncInvInit == InstanceSyncInit => SyncInv
  <1> SUFFICES ASSUME InstanceSyncInit PROVE SyncInv
    OBVIOUS
  <1>1. PowerTypeOK
    BY DEF InstanceSyncInit, PowerInit, PowerTypeOK, Statuses
  <1> QED
    BY <1>1, NoReportTyped, SyncInvIs DEF InstanceSyncInit, ReportListed

LEMMA SyncInvStep == SyncInv /\ [InstanceSyncNext]_syncVars => SyncInv'
  <1> SUFFICES ASSUME SyncInv, [InstanceSyncNext]_syncVars PROVE SyncInv'
    OBVIOUS
  <1>t. /\ PowerTypeOK /\ report \in Reports
        /\ tracker \in [Instances -> Mismatches \cup {NoRecord}]
        /\ ReportListed
    BY SyncInvIs
  <1>p. /\ UNCHANGED powerVars => PowerTypeOK'
        /\ UNCHANGED report => report' \in Reports /\ ReportListed'
        /\ UNCHANGED tracker => tracker' \in [Instances -> Mismatches \cup {NoRecord}]
    BY <1>t, PowerUnchanged DEF ReportListed
  <1>q. PowerTypeOK' /\ report' \in Reports
          /\ tracker' \in [Instances -> Mismatches \cup {NoRecord}]
          /\ ReportListed' => SyncInv'
    BY DEF SyncInv, InstanceSyncTypeOK, Reports, Mismatches
  <1>n. NoRecord \in Mismatches \cup {NoRecord}
    OBVIOUS
  <1>1. CASE Lists
    <2>1. [i \in Instances |-> Remote(i)] \in [Instances -> Remotes]
      BY DEF Remote, Remotes
    <2>2. /\ report' \in Reports /\ ReportListed'
      BY <1>1, <2>1 DEF Lists, NoReport, Reports, ReportListed
    <2> QED
      BY <1>1, <1>p, <1>q, <2>2 DEF Lists
  <1>2. CASE Compares
    <2>1. Differing \in SUBSET Instances /\ status \in [Instances -> Statuses]
      BY <1>t DEF Differing, PowerTypeOK
    <2>2. report' \in Reports /\ report'.remote = report.remote
      BY <1>2, <1>t, <2>1 DEF Compares, Reports
    <2>3. ReportListed'
      BY <1>2, <1>t, <2>2 DEF Compares, ReportListed
    <2> QED
      BY <1>2, <1>p, <1>q, <2>2, <2>3 DEF Compares
  <1>3. CASE Concludes \/ GivesUp
    <2>1. report' \in Reports /\ ReportListed'
      BY <1>3, NoReportTyped DEF Concludes, GivesUp, ReportListed
    <2>2. tracker' \in [Instances -> Mismatches \cup {NoRecord}]
      BY <1>3, <1>t DEF Concludes, GivesUp
    <2> QED
      BY <1>3, <1>p, <1>q, <2>1, <2>2 DEF Concludes, GivesUp
  <1>4. ASSUME NEW i \in Instances, Processes(i)
        PROVE  SyncInv'
    <2>1. report.remote[i] \in Remotes
      BY <1>4, <1>t DEF Processes, ReportListed
    <2>2. /\ report' \in Reports /\ report'.remote = report.remote /\ report.at = "compared"
      BY <1>4, <1>t DEF Processes, Reports
    <2>3. ReportListed'
      BY <1>t, <2>2 DEF ReportListed
    <2>4. ~Confirmed(i) => Counted(i) \in Mismatches
      <3>1. ASSUME Repeated(i), ~Confirmed(i) PROVE Counted(i) \in Mismatches
        <4>1. tracker[i] \in Mismatches
          BY <3>1, <1>t, <2>1 DEF Repeated, NoRecord, Remotes
        <4> QED
          BY <3>1, <4>1, SyncAssumption DEF Counted, Confirmed, Mismatches
      <3>2. ASSUME ~Repeated(i) PROVE Counted(i) \in Mismatches
        BY <3>2, <2>1, SyncAssumption DEF Counted, Mismatches
      <3> QED
        BY <3>1, <3>2
    <2>5. tracker' \in [Instances -> Mismatches \cup {NoRecord}]
      BY <1>4, <1>t, <2>4 DEF Processes
    <2>6. status' \in [Instances -> Statuses]
      BY <1>4, <1>t, <2>1 DEF Processes, PowerTypeOK, Remotes, Statuses
    <2>7. PowerTypeOK'
      BY <1>4, <1>t, <2>6 DEF Processes, PowerTypeOK
    <2> QED
      BY <2>2, <2>3, <2>5, <2>7, <1>q
  <1>5. ASSUME NEW i \in Instances, WriteFails(i) \/ Forgets(i)
        PROVE  SyncInv'
    <2>1. report' \in Reports /\ ReportListed'
      BY <1>5, <1>t DEF WriteFails, Forgets, Reports, ReportListed
    <2>2. tracker' \in [Instances -> Mismatches \cup {NoRecord}]
      BY <1>5, <1>t DEF WriteFails, Forgets
    <2> QED
      BY <1>5, <1>p, <1>q, <2>1, <2>2 DEF WriteFails, Forgets
  <1>6. ASSUME NEW i \in Instances, NEW kind \in Kinds, UserAsks(i, kind)
        PROVE  SyncInv'
    BY <1>6, <1>p, <1>q, <1>t, ReserveTyped, PowerAssumption DEF UserAsks
  <1>7. CASE TaskStep /\ UNCHANGED <<report, tracker>>
    BY <1>7, <1>p, <1>q, <1>t, TaskStepTyped
  <1>8. ASSUME NEW i \in Instances, GuestTurns(i) /\ UNCHANGED <<report, tracker>>
        PROVE  SyncInv'
    BY <1>8, <1>p, <1>q, <1>t, GuestTyped
  <1>9. CASE UNCHANGED syncVars
    BY <1>9, <1>p, <1>q DEF syncVars
  <1> QED
    BY <1>1, <1>2, <1>3, <1>4, <1>5, <1>6, <1>7, <1>8, <1>9
       DEF InstanceSyncNext, SyncStep, SyncFault

(* Statuses stay of the five that a start and a stop know, and no record counts further      *)
(* than requiredConfirmations, however reports, refused writes, tasks and guests cross.     *)
THEOREM SyncTypeCorrect == InstanceSyncSpec => []InstanceSyncTypeOK
  <1>1. SyncInv => InstanceSyncTypeOK
    BY DEF SyncInv
  <1> QED
    BY <1>1, SyncInvInit, SyncInvStep, PTL DEF InstanceSyncSpec

-----------------------------------------------------------------------------
(* The passes over the limits: what they carry. *)

PassRecords == [stage : Stages, goal : {"none", "sweep", "check", "start", "stop"},
                of : SUBSET Objects, at : {"judge", "each", "act"},
                limit : SUBSET Objects, lift : SUBSET Objects, up : SUBSET Instances,
                how : [Providers -> Policies] \cup {<<>>},
                on : SUBSET Objects, stops : SUBSET Instances]

(* A pass that asks for a task, or reserves its instance, is one of a request. *)
PassFits(r) == r \in PassRecords /\ (r.stage \in {"ask", "reserve"} => r.goal \in Kinds)
PassesFit == pass \in [Passes -> PassRecords] /\ \A q \in Passes : PassFits(pass[q])

LimitTypes ==
    /\ limited \subseteq Users \cup Providers
    /\ reason \in [Instances -> Tiers \cup {""}]
    /\ frozen \in [Instances -> {"no", "traffic", "other"}]
    /\ marked \subseteq Instances /\ revived \subseteq Objects

(* What an edit holds of an instance is a row as it was: frozen by traffic only if limited. *)
DraftFits(d) ==
    d \in Drafts /\ (d.of \in Instances => (d.frozen = "traffic" => d.reason # ""))
WorldTypes ==
    /\ over \subseteq Objects /\ absent \subseteq Users \cup Providers
    /\ policy \in [Providers -> Policies]
    /\ \A d \in draft : DraftFits(d)

TrafficInv == PowerTypeOK /\ LimitTypes /\ WorldTypes /\ PassesFit /\ LimitsHaveCauses

LEMMA TrafficInvTyped == TrafficInv => TrafficTypeOK
  <1> SUFFICES ASSUME TrafficInv PROVE TrafficTypeOK
    OBVIOUS
  <1>1. draft \subseteq Drafts
    BY DEF TrafficInv, WorldTypes, DraftFits
  <1> QED
    BY <1>1 DEF TrafficInv, TrafficTypeOK, LimitTypes, WorldTypes, PassesFit, PassRecords

LEMMA TierTyped == \A o : Tier(o) \in Tiers
  BY DEF Tier, Tiers

LEMMA NoPassFits == PassFits(NoPass) /\ NoPass.goal = "none"
  BY DEF NoPass, PassFits, PassRecords, Stages

LEMMA Replaced ==
  ASSUME PassesFit, NEW q \in Passes, NEW r, PassFits(r), pass' = [pass EXCEPT ![q] = r]
  PROVE  PassesFit'
  BY DEF PassesFit, PassFits

LEMMA BeginsFits ==
  ASSUME PassesFit, NEW q \in Passes, NEW stage \in Stages,
         NEW goal \in {"none", "sweep", "check", "start", "stop"}, NEW of \in SUBSET Objects,
         stage \in {"ask", "reserve"} => goal \in Kinds,
         Begins(q, stage, goal, of)
  PROVE  PassesFit'
  <1> DEFINE r == [NoPass EXCEPT !.stage = stage, !.goal = goal, !.of = of]
  <1>1. PassFits(r)
    BY DEF NoPass, PassFits, PassRecords
  <1>2. pass' = [pass EXCEPT ![q] = r]
    BY DEF Begins
  <1> HIDE DEF r
  <1> QED
    BY <1>1, <1>2, Replaced

LEMMA AtStageFits ==
  ASSUME PassesFit, NEW q \in Passes, NEW stage \in Stages,
         stage \in {"ask", "reserve"} => pass[q].goal \in Kinds
  PROVE  PassFits(AtStage(q, stage))
  <1>1. PassFits(pass[q])
    BY DEF PassesFit
  <1> QED
    BY <1>1, NoPassFits DEF AtStage, NoPass, PassFits, PassRecords

LEMMA NextStageFits ==
  ASSUME NEW q \in Passes
  PROVE  /\ NextStage(q) \in Stages
         /\ NextStage(q) \in {"ask", "reserve"} => pass[q].goal \in Kinds
  BY DEF NextStage, Stages, Tiers, Kinds

(* Whatever step a pass takes, it fits afterwards. *)
LEMMA PassStepFits ==
  ASSUME TrafficInv, NEW q \in Passes, PassStep(q) \/ Errs(q)
  PROVE  PassesFit'
  <1>t. PassesFit /\ PassFits(pass[q]) /\ pass[q] \in PassRecords
    BY DEF TrafficInv, PassesFit, PassFits
  <1>w. /\ over \subseteq Objects /\ policy \in [Providers -> Policies]
        /\ Running \subseteq Instances /\ Providers \subseteq Objects /\ Instances \subseteq Objects
    BY DEF TrafficInv, WorldTypes, Running, Objects
  <1>1. CASE Judges(q)
    <2> DEFINE r == [pass[q] EXCEPT !.at = "each", !.limit = Judged(q) \cap over,
                                    !.lift = {o \in Judged(q) \ over : HasLimit(o)},
                                    !.up = Running, !.how = policy]
    <2>1. Judged(q) \subseteq Objects
      BY <1>t DEF Judged, PassRecords
    <2>2. PassFits(r)
      BY <1>t, <1>w, <2>1 DEF PassFits, PassRecords
    <2>3. pass' = [pass EXCEPT ![q] = r]
      BY <1>1, <1>t DEF Judges, PassesFit
    <2> HIDE DEF r
    <2> QED
      BY <1>t, <2>2, <2>3, Replaced
  <1>2. CASE FindsDue(q)
    <2> PICK due \in SUBSET Providers : pass' = [pass EXCEPT ![q].at = "each", ![q].lift = due]
      BY <1>2 DEF FindsDue
    <2> DEFINE r == [pass[q] EXCEPT !.at = "each", !.lift = due]
    <2>2. PassFits(r)
      BY <1>t, <1>w DEF PassFits, PassRecords
    <2>3. pass' = [pass EXCEPT ![q] = r]
      BY <1>t DEF PassesFit
    <2> HIDE DEF r
    <2> QED
      BY <1>t, <2>2, <2>3, Replaced
  <1>3. CASE Advances(q) \/ Errs(q)
    <2>1. \E stage \in {"idle", NextStage(q)} : pass' = [pass EXCEPT ![q] = AtStage(q, stage)]
      BY <1>3 DEF Advances, Errs
    <2>2. "idle" \in Stages
      BY DEF Stages
    <2> QED
      BY <1>t, <2>1, <2>2, NextStageFits, AtStageFits, Replaced
  <1>4. CASE Asks(q)
    <2>1. \E stage \in {"idle", "reserve"} : pass' = [pass EXCEPT ![q] = AtStage(q, stage)]
      BY <1>4 DEF Asks
    <2>2. pass[q].goal \in Kinds
      BY <1>4, <1>t DEF Asks, PassFits
    <2>3. "idle" \in Stages /\ "reserve" \in Stages
      BY DEF Stages
    <2> QED
      BY <1>t, <2>1, <2>2, <2>3, AtStageFits, Replaced
  <1>5. CASE Finds(q)
    <2>1. CASE pass' = [pass EXCEPT ![q] = NoPass]
      BY <1>t, <2>1, NoPassFits, Replaced
    <2>2. CASE pass' = [pass EXCEPT ![q] = [@ EXCEPT !.at = "act", !.limit = Recoverable]]
      <3> DEFINE r == [pass[q] EXCEPT !.at = "act", !.limit = Recoverable]
      <3>1. Recoverable \subseteq Objects
        BY DEF Recoverable, TrafficInv, LimitTypes, Objects
      <3>2. PassFits(r)
        BY <1>t, <3>1 DEF PassFits, PassRecords
      <3>3. pass' = [pass EXCEPT ![q] = r]
        BY <1>t, <2>2 DEF PassesFit
      <3> HIDE DEF r
      <3> QED
        BY <1>t, <3>2, <3>3, Replaced
    <2> QED
      BY <1>5, <2>1, <2>2 DEF Finds
  <1>6. CASE Restarts(q)
    <2>1. "recover" \in Stages
      BY DEF Stages
    <2> QED
      BY <1>6, <1>t, <2>1, AtStageFits, Replaced DEF Restarts
  <1>7. CASE TurnedDown(q) \/ \E i \in Instances : Reserves(q, i)
    BY <1>7, <1>t, NoPassFits, Replaced DEF TurnedDown, Reserves
  <1>8. ASSUME NEW o \in Objects, Lifts(q, o)
        PROVE  PassesFit'
    <2> DEFINE r == [pass[q] EXCEPT !.lift = @ \ {o}]
    <2>2. PassFits(r)
      BY <1>t DEF PassFits, PassRecords
    <2>3. pass' = [pass EXCEPT ![q] = r]
      BY <1>8, <1>t DEF Lifts, PassesFit
    <2> HIDE DEF r
    <2> QED
      BY <1>t, <2>2, <2>3, Replaced
  <1>9. ASSUME NEW o \in Objects, NEW isOpen \in BOOLEAN, Surveys(q, o, isOpen)
        PROVE  PassesFit'
    <2> DEFINE running == IF o \in Instances THEN pass[q].up ELSE Running
               r == [pass[q] EXCEPT !.at = "act", !.on = {o}, !.limit = @ \ {o},
                               !.how = IF o \in Users THEN policy ELSE @,
                               !.stops = IF isOpen THEN running \cap Of(o) ELSE {}]
    <2>1. Of(o) \subseteq Instances
      BY DEF Of
    <2>2. PassFits(r)
      BY <1>t, <1>w, <2>1 DEF PassFits, PassRecords
    <2>3. pass' = [pass EXCEPT ![q] = r]
      BY <1>9, <1>t DEF Surveys, PassesFit
    <2> HIDE DEF r
    <2> QED
      BY <1>t, <2>2, <2>3, Replaced
  <1>10. ASSUME NEW o \in Objects, Limits(q, o)
         PROVE  PassesFit'
    <2> DEFINE r == [pass[q] EXCEPT !.at = "each", !.on = {}, !.stops = {}]
    <2>2. PassFits(r)
      BY <1>t DEF PassFits, PassRecords
    <2>3. pass' = [pass EXCEPT ![q] = r]
      BY <1>10, <1>t DEF Limits, PassesFit
    <2> HIDE DEF r
    <2> QED
      BY <1>t, <2>2, <2>3, Replaced
  <1> QED
    BY <1>1, <1>2, <1>3, <1>4, <1>5, <1>6, <1>7, <1>8, <1>9, <1>10 DEF PassStep

-----------------------------------------------------------------------------
(* What the transactions leave. *)

LEMMA OwnedBy ==
  ASSUME NEW o \in Objects, NEW i \in Of(o)
  PROVE  /\ Tier(o) = "user" => o = OwnerOf[i] /\ o \notin Instances
         /\ Tier(o) = "provider" => o = HostOf[i] /\ o \notin Instances
  BY TrafficAssumption DEF Of, Tier, Objects

(* What an instance's limit comes from. *)
LEMMA CausesAre ==
  ASSUME NEW i \in Instances
  PROVE  /\ reason[i] = "user" => Causes(i) = {OwnerOf[i]}
         /\ reason[i] = "provider" => Causes(i) = {HostOf[i]}
         /\ reason[i] \notin {"user", "provider"} => Causes(i) = {}
         /\ Causes(i) \cap Instances = {}
  BY TrafficAssumption DEF Causes

LEMMA CausesWillBe ==
  ASSUME NEW i \in Instances
  PROVE  /\ reason'[i] = "user" => Causes(i)' = {OwnerOf[i]}
         /\ reason'[i] = "provider" => Causes(i)' = {HostOf[i]}
         /\ reason'[i] \notin {"user", "provider"} => Causes(i)' = {}
  BY DEF Causes

(* Whose reason stays keeps its cause, if what loses its flag or its scar is none of its. *)
LEMMA CauseKept ==
  ASSUME NEW i \in Instances, Causes(i) \subseteq limited \/ Revived(i),
         reason'[i] = reason[i],
         \A c \in Causes(i) : c \in limited => c \in limited' \/ c \in revived',
         \A c \in Causes(i) \cup {i} : c \in revived => c \in revived' \/ Causes(i) \subseteq limited'
  PROVE  (Causes(i) \subseteq limited \/ Revived(i))'
  <1>1. Causes(i)' = Causes(i)
    BY DEF Causes
  <1>2. Causes(i) = {} \/ \E c : Causes(i) = {c}
    BY CausesAre
  <1> QED
    BY <1>1, <1>2 DEF Revived

(* A limit is written with the object that it comes from. *)
LEMMA LimitedOK ==
  ASSUME LimitTypes, LimitsHaveCauses, NEW o \in Objects,
         limited' = Flagged(o),
         reason' = [i \in Instances |-> IF i \in Written(o) THEN Tier(o) ELSE reason[i]],
         revived' = revived \ (Written(o) \cup {o}),
         \A i \in Instances : frozen'[i] = "traffic" => frozen[i] = "traffic" \/ i \in Written(o)
  PROVE  LimitsHaveCauses' /\ limited' \subseteq Users \cup Providers
                           /\ reason' \in [Instances -> Tiers \cup {""}] /\ revived' \subseteq Objects
  <1>1. Written(o) \subseteq Of(o) /\ Of(o) \subseteq Instances
    BY DEF Written, Of
  <1>2. limited \subseteq limited' /\ (o \notin Instances => o \in limited')
    BY DEF Flagged
  <1>3. limited' \subseteq Users \cup Providers /\ revived' \subseteq Objects
    BY DEF Flagged, LimitTypes, Objects
  <1>4. reason' \in [Instances -> Tiers \cup {""}]
    BY TierTyped DEF LimitTypes
  <1>5. ASSUME NEW i \in Instances
        PROVE  (Causes(i) \subseteq limited \/ Revived(i))'
    <2>1. CASE i \in Written(o)
      <3>1. reason'[i] = Tier(o) /\ i \in Of(o)
        BY <1>1, <2>1
      <3>2. Causes(i)' \subseteq {o} /\ (Causes(i)' # {} => o \notin Instances)
        BY <3>1, OwnedBy, CausesWillBe
      <3> QED
        BY <1>2, <3>2
    <2>2. CASE i \notin Written(o)
      <3>1. reason'[i] = reason[i] /\ (Causes(i) \subseteq limited \/ Revived(i))
        BY <2>2 DEF LimitsHaveCauses, FlagBehindReason
      <3>2. \A c \in Causes(i) \cup {i} : c \in revived => c \in revived' \/ c = o
        BY <1>1, <2>2, CausesAre
      <3>3. o # i
        <4>1. i \notin Users /\ i \in Of(i)
          BY TrafficAssumption DEF Of
        <4> QED
          BY <2>2, <4>1 DEF Written
      <3>4. o \in Causes(i) => Causes(i) \subseteq limited'
        BY <1>2, CausesAre
      <3> QED
        BY <1>2, <3>1, <3>2, <3>3, <3>4, CauseKept
    <2> QED
      BY <2>1, <2>2
  <1>6. ASSUME NEW i \in Instances
        PROVE  frozen'[i] = "traffic" => reason'[i] # ""
    BY TierTyped DEF LimitsHaveCauses, FreezeBehindLimit, Tiers
  <1> QED
    BY <1>3, <1>4, <1>5, <1>6 DEF LimitsHaveCauses, FlagBehindReason, FreezeBehindLimit

(* What is lifted takes with it every reason that comes from it. *)
LEMMA ClearsOK ==
  ASSUME LimitTypes, LimitsHaveCauses, NEW o \in Objects, NEW A \in SUBSET Of(o),
         Reasoned(o) \subseteq A, Clears(o, A), UNCHANGED marked
  PROVE  LimitsHaveCauses' /\ LimitTypes'
  <1>1. reason' \in [Instances -> Tiers \cup {""}]
    BY DEF Clears, LimitTypes
  <1>2. frozen' \in [Instances -> {"no", "traffic", "other"}]
    BY DEF Clears, LimitTypes
  <1>3. limited' = limited \ {o} /\ revived' = revived \ (A \cup {o}) /\ A \subseteq Instances
    BY DEF Clears, Of
  <1>4. ASSUME NEW i \in Instances
        PROVE  (Causes(i) \subseteq limited \/ Revived(i))'
    <2>1. CASE i \in A
      <3>1. reason'[i] = ""
        BY <2>1 DEF Clears
      <3> QED
        BY <3>1, CausesWillBe
    <2>2. CASE i \notin A
      <3>1. reason'[i] = reason[i] /\ (Causes(i) \subseteq limited \/ Revived(i))
        BY <2>2 DEF Clears, LimitsHaveCauses, FlagBehindReason
      <3>2. o \notin Causes(i) /\ o # i
        <4>1. reason[i] = "user" /\ o = OwnerOf[i] => i \in Reasoned(o)
          BY TrafficAssumption DEF Reasoned, Of, Tier, Objects
        <4>2. reason[i] = "provider" /\ o = HostOf[i] => i \in Reasoned(o)
          BY TrafficAssumption DEF Reasoned, Of, Tier, Objects
        <4>3. o = i => i \in Reasoned(o)
          BY DEF Reasoned
        <4> QED
          BY <2>2, <4>1, <4>2, <4>3, CausesAre
      <3>3. \A c \in Causes(i) \cup {i} : c \notin A
        BY <1>3, <2>2, CausesAre
      <3> QED
        BY <1>3, <3>1, <3>2, <3>3, CauseKept
    <2> QED
      BY <2>1, <2>2
  <1>5. ASSUME NEW i \in Instances
        PROVE  frozen'[i] = "traffic" => reason'[i] # ""
    <2>1. frozen'[i] = "traffic" => frozen[i] = "traffic" /\ (i \in Of(o) => reason'[i] # "")
      BY DEF Clears
    <2>2. i \notin Of(o) => reason'[i] = reason[i]
      BY DEF Clears
    <2> QED
      BY <2>1, <2>2 DEF LimitsHaveCauses, FreezeBehindLimit
  <1>6. limited' \subseteq Users \cup Providers /\ revived' \subseteq Objects
    BY <1>3 DEF LimitTypes
  <1> QED
    BY <1>1, <1>2, <1>4, <1>5, <1>6 DEF LimitsHaveCauses, FlagBehindReason, FreezeBehindLimit, LimitTypes

LEMMA LiftedOK ==
  ASSUME LimitTypes, LimitsHaveCauses, NEW o \in Objects, Lifted(o) \/ Reset(o)
  PROVE  LimitsHaveCauses' /\ LimitTypes' /\ UNCHANGED powerVars
  <1>1. Reasoned(o) \subseteq Of(o)
    BY DEF Reasoned, Of
  <1>2. CASE Lifted(o)
    BY <1>1, <1>2, ClearsOK DEF Lifted
  <1>3. CASE Reset(o)
    BY <1>1, <1>3, ClearsOK DEF Reset
  <1> QED
    BY <1>2, <1>3

LEMMA LimitsOK ==
  ASSUME PowerTypeOK, LimitTypes, LimitsHaveCauses, NEW o \in Objects, NEW how, NEW running,
         Limited(o, how, running)
  PROVE  PowerTypeOK' /\ LimitTypes' /\ LimitsHaveCauses'
  <1> DEFINE S == Written(o)
             down == ToStop(o, how, running)
  <1>1. S \subseteq Instances
    BY DEF Written, Of
  <1>2. /\ HasRoom(down) /\ limited' = Flagged(o) /\ UNCHANGED runs
        /\ reason' = [i \in Instances |-> IF i \in S THEN Tier(o) ELSE reason[i]]
        /\ frozen' = [i \in Instances |->
                        IF i \in S /\ how[HostOf[i]] = "freeze" THEN "traffic" ELSE frozen[i]]
        /\ marked' = (marked \ S) \cup (S \cap down)
        /\ status' = [i \in Instances |-> IF i \in S \cap down THEN "stopped" ELSE status[i]]
        /\ task' = Queued(down, "stop")
        /\ revived' = revived \ (S \cup {o})
    BY DEF Limited
  <1> HIDE DEF S, down
  <1>3. \A i \in Instances : frozen'[i] = "traffic" => frozen[i] = "traffic" \/ i \in S
    BY <1>2
  <1>4. LimitsHaveCauses' /\ limited' \subseteq Users \cup Providers
                          /\ reason' \in [Instances -> Tiers \cup {""}] /\ revived' \subseteq Objects
    BY <1>2, <1>3, LimitedOK DEF S
  <1>5. frozen' \in [Instances -> {"no", "traffic", "other"}] /\ marked' \subseteq Instances
    BY <1>1, <1>2 DEF LimitTypes
  <1>6. task' \in TaskTable
    BY <1>2, QueuedTyped DEF Kinds
  <1>7. status' \in [Instances -> Statuses]
    BY <1>2 DEF PowerTypeOK, Statuses
  <1> QED
    BY <1>2, <1>4, <1>5, <1>6, <1>7 DEF LimitTypes, PowerTypeOK, TaskTable

-----------------------------------------------------------------------------
LEMMA TrafficInvInit == TrafficInit => TrafficInv
  <1> SUFFICES ASSUME TrafficInit PROVE TrafficInv
    OBVIOUS
  <1>1. PowerTypeOK
    BY DEF TrafficInit, PowerInit, PowerTypeOK, Statuses
  <1>2. LimitTypes /\ WorldTypes
    BY DEF TrafficInit, LimitTypes, WorldTypes
  <1>3. PassesFit
    BY NoPassFits DEF TrafficInit, PassesFit, PassFits
  <1>4. LimitsHaveCauses
    BY CausesAre DEF TrafficInit, LimitsHaveCauses, FlagBehindReason, FreezeBehindLimit
  <1> QED
    BY <1>1, <1>2, <1>3, <1>4 DEF TrafficInv

LEMMA FlagsUnchanged ==
  FlagBehindReason /\ UNCHANGED <<limited, reason, revived>> => FlagBehindReason'
  BY DEF FlagBehindReason, Causes, Revived

LEMMA LimitsUnchanged ==
  LimitTypes /\ LimitsHaveCauses /\ UNCHANGED limitVars => LimitTypes' /\ LimitsHaveCauses'
  BY FlagsUnchanged DEF LimitTypes, LimitsHaveCauses, FreezeBehindLimit, limitVars

LEMMA WorldUnchanged == WorldTypes /\ UNCHANGED worldVars => WorldTypes'
  BY DEF WorldTypes, worldVars, DraftFits, Drafts

LEMMA DraftsUnchanged ==
  (\A d \in draft : DraftFits(d)) /\ UNCHANGED draft => (\A d \in draft : DraftFits(d))'
  BY DEF DraftFits, Drafts

LEMMA PassUnchanged == PassesFit /\ UNCHANGED pass => PassesFit'
  BY DEF PassesFit, PassFits

LEMMA TierDraft ==
  ASSUME NEW o \in Users \cup Providers, NEW b \in BOOLEAN
  PROVE  [of |-> o, limited |-> b] \in Drafts
  BY DEF Drafts

LEMMA InstanceDraft ==
  ASSUME NEW i \in Instances, NEW r \in Tiers \cup {""}, NEW f \in {"no", "traffic", "other"}, NEW b \in BOOLEAN
  PROVE  [of |-> i, reason |-> r, frozen |-> f, marked |-> b] \in Drafts
  BY DEF Drafts

(* An edit reads a row that is in order, and what its save breaks is known. *)
LEMMA EditReads ==
  ASSUME LimitTypes, LimitsHaveCauses, WorldTypes, NEW o \in Objects, OpensEdit(o)
  PROVE  WorldTypes'
  <1>1. CASE o \in Instances
    <2> DEFINE d == [of |-> o, reason |-> reason[o], frozen |-> frozen[o], marked |-> o \in marked]
    <2>1. draft' = {d} /\ UNCHANGED <<over, absent, policy>>
      BY <1>1 DEF OpensEdit
    <2>2. d \in Drafts
      <3>1. reason[o] \in Tiers \cup {""} /\ frozen[o] \in {"no", "traffic", "other"}
        BY <1>1 DEF LimitTypes
      <3>2. (o \in marked) \in BOOLEAN
        OBVIOUS
      <3> QED
        BY <1>1, <3>1, <3>2, InstanceDraft, Zenon
    <2>3. d.frozen = "traffic" => d.reason # ""
      BY <1>1 DEF LimitsHaveCauses, FreezeBehindLimit
    <2>4. DraftFits(d)
      BY <2>2, <2>3 DEF DraftFits
    <2> HIDE DEF d
    <2>5. (\A e \in draft : DraftFits(e))'
      BY <2>1, <2>4 DEF DraftFits, Drafts
    <2> QED
      BY <2>1, <2>5 DEF WorldTypes
  <1>2. CASE o \notin Instances
    <2> DEFINE d == [of |-> o, limited |-> o \in limited]
    <2>1. draft' = {d} /\ UNCHANGED <<over, absent, policy>>
      BY <1>2 DEF OpensEdit
    <2>2. d \in Drafts /\ d.of \notin Instances
      <3>1. o \in Users \cup Providers
        BY <1>2 DEF Objects
      <3>2. (o \in limited) \in BOOLEAN
        OBVIOUS
      <3>3. d \in Drafts
        BY <3>1, <3>2, TierDraft, Zenon
      <3> QED
        BY <1>2, <3>3
    <2>4. DraftFits(d)
      BY <2>2 DEF DraftFits
    <2> HIDE DEF d
    <2>5. (\A e \in draft : DraftFits(e))'
      BY <2>1, <2>4 DEF DraftFits, Drafts
    <2> QED
      BY <2>1, <2>5 DEF WorldTypes
  <1> QED
    BY <1>1, <1>2

LEMMA TierSaved ==
  ASSUME LimitTypes, LimitsHaveCauses, WorldTypes, NEW o \in Users \cup Providers,
         NEW to \in Policies, SavesTier(o, to)
  PROVE  LimitTypes' /\ LimitsHaveCauses' /\ WorldTypes'
  <1>1. limited' \in {limited \cup {o}, limited \ {o}} /\ revived' = revived \cup (limited \ limited')
        /\ UNCHANGED <<reason, frozen, marked, over, absent>> /\ draft' = {}
        /\ policy' = IF o \in Providers THEN [policy EXCEPT ![o] = to] ELSE policy
    BY DEF SavesTier, With
  <1>2. LimitTypes'
    BY <1>1 DEF LimitTypes, Objects
  <1>3. ASSUME NEW i \in Instances
        PROVE  (Causes(i) \subseteq limited \/ Revived(i))'
    <2>1. Causes(i) \subseteq limited \/ Revived(i)
      BY DEF LimitsHaveCauses, FlagBehindReason
    <2> QED
      BY <1>1, <2>1, CauseKept
  <1>4. LimitsHaveCauses'
    BY <1>1, <1>3 DEF LimitsHaveCauses, FlagBehindReason, FreezeBehindLimit
  <1>5. WorldTypes'
    BY <1>1 DEF WorldTypes
  <1> QED
    BY <1>2, <1>4, <1>5

LEMMA InstanceSaved ==
  ASSUME LimitTypes, LimitsHaveCauses, WorldTypes, NEW o \in Instances,
         NEW s \in Statuses, SavesInstance(o, s)
  PROVE  LimitTypes' /\ LimitsHaveCauses' /\ WorldTypes'
  <1>1. PICK d \in draft : /\ d.of = o
                           /\ reason' = [reason EXCEPT ![o] = d.reason]
                           /\ frozen' = [frozen EXCEPT ![o] = d.frozen]
                           /\ marked' = With(marked, o, d.marked)
                           /\ revived' = IF d.reason \in {"", reason[o]} THEN revived ELSE revived \cup {o}
    BY DEF SavesInstance
  <1>2. DraftFits(d)
    BY DEF WorldTypes
  <1>3. d \notin [of : Users \cup Providers, limited : BOOLEAN]
    BY <1>1, TrafficAssumption
  <1>4. d.reason \in Tiers \cup {""} /\ d.frozen \in {"no", "traffic", "other"}
    BY <1>2, <1>3 DEF DraftFits, Drafts
  <1>5. d.frozen = "traffic" => d.reason # ""
    BY <1>1, <1>2 DEF DraftFits
  <1>6. reason' \in [Instances -> Tiers \cup {""}] /\ frozen' \in [Instances -> {"no", "traffic", "other"}]
    BY <1>1, <1>4 DEF LimitTypes
  <1>7. marked' \subseteq Instances /\ revived' \subseteq Objects
    BY <1>1 DEF With, LimitTypes, Objects
  <1>8. UNCHANGED <<limited, over, absent, policy>> /\ draft' = {}
    BY DEF SavesInstance
  <1>9. LimitTypes' /\ WorldTypes'
    BY <1>6, <1>7, <1>8 DEF LimitTypes, WorldTypes
  <1>10. ASSUME NEW i \in Instances
         PROVE  (Causes(i) \subseteq limited \/ Revived(i))'
    <2>1. Causes(i) \subseteq limited \/ Revived(i)
      BY DEF LimitsHaveCauses, FlagBehindReason
    <2>2. revived \subseteq revived'
      BY <1>1
    <2>3. CASE reason'[i] = reason[i]
      BY <1>8, <2>1, <2>2, <2>3, CauseKept
    <2>4. CASE reason'[i] # reason[i]
      <3>1. i = o /\ reason'[i] = d.reason
        BY <1>1, <2>4 DEF LimitTypes
      <3>2. CASE d.reason = ""
        BY <3>1, <3>2, CausesWillBe
      <3>3. CASE d.reason # ""
        <4>1. i \in revived'
          BY <1>1, <2>4, <3>1, <3>3
        <4> QED
          BY <4>1 DEF Revived
      <3> QED
        BY <3>2, <3>3
    <2> QED
      BY <2>3, <2>4
  <1>11. ASSUME NEW i \in Instances
         PROVE  frozen'[i] = "traffic" => reason'[i] # ""
    BY <1>1, <1>5 DEF LimitsHaveCauses, FreezeBehindLimit, LimitTypes
  <1> QED
    BY <1>9, <1>10, <1>11 DEF LimitsHaveCauses, FlagBehindReason, FreezeBehindLimit

LEMMA EditKeeps ==
  ASSUME PowerTypeOK, LimitTypes, LimitsHaveCauses, WorldTypes, EditsRow
  PROVE  PowerTypeOK' /\ LimitTypes' /\ LimitsHaveCauses' /\ WorldTypes' /\ UNCHANGED pass
  <1>1. ASSUME NEW o \in Objects, OpensEdit(o)
        PROVE  PowerTypeOK' /\ LimitTypes' /\ LimitsHaveCauses' /\ WorldTypes' /\ UNCHANGED pass
    <2>1. UNCHANGED <<powerVars, limitVars, pass>>
      BY <1>1 DEF OpensEdit
    <2> QED
      BY <1>1, <2>1, PowerUnchanged, LimitsUnchanged, EditReads
  <1>2. ASSUME NEW o \in Users \cup Providers, NEW to \in Policies, SavesTier(o, to)
        PROVE  PowerTypeOK' /\ LimitTypes' /\ LimitsHaveCauses' /\ WorldTypes' /\ UNCHANGED pass
    <2>1. UNCHANGED <<powerVars, pass>>
      BY <1>2 DEF SavesTier
    <2> QED
      BY <1>2, <2>1, PowerUnchanged, TierSaved
  <1>3. ASSUME NEW i \in Instances, NEW s \in Statuses, SavesInstance(i, s)
        PROVE  PowerTypeOK' /\ LimitTypes' /\ LimitsHaveCauses' /\ WorldTypes' /\ UNCHANGED pass
    <2>1. UNCHANGED <<runs, task, pass>> /\ status' = [status EXCEPT ![i] = s]
      BY <1>3 DEF SavesInstance
    <2>2. PowerTypeOK'
      BY <2>1 DEF PowerTypeOK
    <2> QED
      BY <1>3, <2>1, <2>2, InstanceSaved
  <1>4. CASE DropsEdit
    <2>1. UNCHANGED <<powerVars, limitVars, over, absent, policy, pass>> /\ draft' = {}
      BY <1>4 DEF DropsEdit
    <2>2. WorldTypes'
      BY <2>1 DEF WorldTypes
    <2> QED
      BY <2>1, <2>2, PowerUnchanged, LimitsUnchanged
  <1> QED
    BY <1>1, <1>2, <1>3, <1>4 DEF EditsRow

LEMMA TrafficInvStep == TrafficInv /\ [TrafficNext]_trafficVars => TrafficInv'
  <1> SUFFICES ASSUME TrafficInv, [TrafficNext]_trafficVars PROVE TrafficInv'
    OBVIOUS
  <1>t. PowerTypeOK /\ LimitTypes /\ WorldTypes /\ PassesFit /\ LimitsHaveCauses
    BY DEF TrafficInv
  <1>p. UNCHANGED powerVars => PowerTypeOK'
    BY <1>t, PowerUnchanged
  <1>l. UNCHANGED limitVars => LimitTypes' /\ LimitsHaveCauses'
    BY <1>t, LimitsUnchanged
  <1>w. UNCHANGED worldVars => WorldTypes'
    BY <1>t, WorldUnchanged
  <1>f. UNCHANGED pass => PassesFit'
    BY <1>t, PassUnchanged
  <1>s. "reset" \in Stages /\ "recover" \in Stages /\ "ask" \in Stages /\ "provider" \in Stages
        /\ Tiers \subseteq Stages
    BY DEF Stages, Tiers
  <1>o. Users \subseteq Objects /\ Providers \subseteq Objects /\ Instances \subseteq Objects
    BY DEF Objects
  <1>1. ASSUME NEW q \in Passes, Sweeps(q)
        PROVE  TrafficInv'
    <2>1. PassesFit'
      BY <1>1, <1>t, <1>s, BeginsFits DEF Sweeps
    <2> QED
      BY <1>1, <1>p, <1>l, <1>w, <2>1 DEF Sweeps, TrafficInv
  <1>2. ASSUME NEW q \in Passes, NEW o \in Users \cup Providers, Checks(q, o)
        PROVE  TrafficInv'
    <2>1. Tier(o) \in Stages /\ Tier(o) \notin {"ask", "reserve"} /\ {o} \in SUBSET Objects
      BY <1>s, <1>o, TierTyped DEF Tiers
    <2>2. PassesFit'
      BY <1>2, <1>t, <2>1, BeginsFits DEF Checks
    <2> QED
      BY <1>2, <1>p, <1>l, <1>w, <2>2 DEF Checks, TrafficInv
  <1>3. ASSUME NEW q \in Passes, NEW o \in Users \cup Providers, AdminLifts(q, o)
        PROVE  TrafficInv'
    <2>1. PassesFit'
      BY <1>3, <1>t, <1>s, BeginsFits DEF AdminLifts
    <2>2. LimitsHaveCauses' /\ LimitTypes' /\ UNCHANGED powerVars
      BY <1>3, <1>t, <1>o, LiftedOK DEF AdminLifts
    <2> QED
      BY <1>3, <1>p, <1>w, <2>1, <2>2 DEF AdminLifts, TrafficInv
  <1>4. ASSUME NEW q \in Passes, NEW i \in Instances, NEW kind \in Kinds, Requests(q, i, kind)
        PROVE  TrafficInv'
    <2>1. {i, OwnerOf[i], HostOf[i]} \in SUBSET Objects /\ {i} \in SUBSET Objects
      BY TrafficAssumption DEF Objects
    <2>2. PassesFit'
      BY <1>4, <1>t, <1>s, <2>1, BeginsFits DEF Requests, Kinds
    <2> QED
      BY <1>4, <1>p, <1>l, <1>w, <2>2 DEF Requests, TrafficInv
  <1>5. ASSUME NEW q \in Passes, PassStep(q) \/ Errs(q)
        PROVE  TrafficInv'
    <2>1. PassesFit'
      BY <1>5, PassStepFits
    <2>2. WorldTypes'
      BY <1>5, <1>w DEF PassStep, Errs, Judges, FindsDue, Advances, Asks, Finds, Restarts, TurnedDown,
                        Lifts, Limits, Surveys, Reserves
    <2>3. CASE \/ Judges(q) \/ FindsDue(q) \/ Advances(q) \/ Asks(q) \/ Finds(q)
               \/ TurnedDown(q) \/ Errs(q)
               \/ \E o \in Objects, isOpen \in BOOLEAN : Surveys(q, o, isOpen)
      <3>1. UNCHANGED <<powerVars, limitVars>>
        BY <2>3 DEF Judges, FindsDue, Advances, Asks, Finds, TurnedDown, Errs, Surveys
      <3> QED
        BY <1>p, <1>l, <2>1, <2>2, <3>1 DEF TrafficInv
    <2>4. CASE Restarts(q)
      <3>1. HasRoom(pass[q].limit) /\ task' = Queued(pass[q].limit, "start")
        BY <2>4 DEF Restarts
      <3>2. task' \in TaskTable
        BY <1>t, <3>1, QueuedTyped DEF Kinds
      <3>3. status' \in [Instances -> Statuses] /\ UNCHANGED <<runs, limited, reason, frozen, revived>>
        BY <2>4, <1>t DEF Restarts, PowerTypeOK, Statuses
      <3>4. marked' \subseteq Instances
        BY <2>4, <1>t DEF Restarts, LimitTypes
      <3>5. PowerTypeOK'
        BY <1>t, <3>2, <3>3 DEF PowerTypeOK, TaskTable
      <3>6. LimitTypes' /\ LimitsHaveCauses'
        BY <1>t, <3>3, <3>4, FlagsUnchanged DEF LimitTypes, LimitsHaveCauses, FreezeBehindLimit
      <3> QED
        BY <2>1, <2>2, <3>5, <3>6 DEF TrafficInv
    <2>5. ASSUME NEW o \in Objects, Lifts(q, o)
          PROVE  TrafficInv'
      <3>1. LimitsHaveCauses' /\ LimitTypes' /\ UNCHANGED powerVars
        BY <1>t, <2>5, LiftedOK DEF Lifts
      <3> QED
        BY <1>p, <2>1, <2>2, <3>1 DEF TrafficInv
    <2>6. ASSUME NEW o \in Objects, Limits(q, o)
          PROVE  TrafficInv'
      <3>1. PowerTypeOK' /\ LimitTypes' /\ LimitsHaveCauses'
        BY <1>t, <2>6, LimitsOK DEF Limits
      <3> QED
        BY <2>1, <2>2, <3>1 DEF TrafficInv
    <2>7. ASSUME NEW i \in Instances, Reserves(q, i)
          PROVE  TrafficInv'
      <3>1. pass[q].goal \in Kinds
        BY <1>t, <2>7 DEF Reserves, PassesFit, PassFits
      <3>2. PowerTypeOK'
        BY <1>t, <2>7, <3>1, ReserveTyped, PowerAssumption DEF Reserves
      <3> QED
        BY <1>l, <2>7, <2>1, <2>2, <3>2 DEF Reserves, TrafficInv
    <2> QED
      BY <1>5, <2>3, <2>4, <2>5, <2>6, <2>7 DEF PassStep
  <1>6. ASSUME NEW o \in Users \cup Providers, AdminLimits(o)
        PROVE  TrafficInv'
    <2>1. limited' = Flagged(o) /\ o \in Objects
      BY <1>6, <1>o, TrafficAssumption DEF AdminLimits, Flagged
    <2>2. \A i \in Instances : frozen'[i] = "traffic" => frozen[i] = "traffic" \/ i \in Written(o)
      BY <1>6 DEF AdminLimits
    <2>3. LimitsHaveCauses' /\ limited' \subseteq Users \cup Providers
                            /\ reason' \in [Instances -> Tiers \cup {""}] /\ revived' \subseteq Objects
      BY <1>6, <1>t, <2>1, <2>2, LimitedOK DEF AdminLimits
    <2>4. LimitTypes'
      BY <1>6, <1>t, <2>3 DEF AdminLimits, LimitTypes
    <2> QED
      BY <1>6, <1>p, <1>w, <1>f, <2>3, <2>4 DEF AdminLimits, TrafficInv
  <1>7. ASSUME NEW i \in Instances, NEW how \in {"no", "other"}, Freezes(i, how)
        PROVE  TrafficInv'
    <2>1. LimitTypes' /\ LimitsHaveCauses'
      BY <1>7, <1>t, FlagsUnchanged DEF Freezes, LimitTypes, LimitsHaveCauses, FreezeBehindLimit
    <2> QED
      BY <1>7, <1>p, <1>w, <1>f, <2>1 DEF Freezes, TrafficInv
  <1>8. ASSUME NEW i \in Instances, NEW kind \in Kinds, AdminAsks(i, kind)
        PROVE  TrafficInv'
    <2>1. PowerTypeOK'
      BY <1>8, <1>t, ReserveTyped, PowerAssumption DEF AdminAsks
    <2> QED
      BY <1>8, <1>l, <1>w, <1>f, <2>1 DEF AdminAsks, TrafficInv
  <1>9. ASSUME NEW i \in Instances, Reconciles(i)
        PROVE  TrafficInv'
    <2>1. PowerTypeOK'
      BY <1>9, <1>t DEF Reconciles, PowerTypeOK, Statuses
    <2> QED
      BY <1>9, <1>l, <1>w, <1>f, <2>1 DEF Reconciles, TrafficInv
  <1>10. ASSUME NEW o \in Objects, Uses(o)
         PROVE  TrafficInv'
    <2>1. WorldTypes'
      BY <1>10, <1>t, DraftsUnchanged DEF Uses, WorldTypes
    <2> QED
      BY <1>10, <1>p, <1>l, <1>f, <2>1 DEF Uses, TrafficInv
  <1>11. ASSUME NEW o \in Users \cup Providers, Leaves(o)
         PROVE  TrafficInv'
    <2>1. WorldTypes'
      BY <1>11, <1>t, DraftsUnchanged DEF Leaves, WorldTypes
    <2> QED
      BY <1>11, <1>p, <1>l, <1>f, <2>1 DEF Leaves, TrafficInv
  <1>12. CASE EditsRow
    BY <1>12, <1>t, <1>f, EditKeeps DEF TrafficInv
  <1>13. CASE (TaskStep \/ \E i \in Instances : GuestTurns(i)) /\ UNCHANGED Others
    <2>1. PowerTypeOK'
      BY <1>13, <1>t, TaskStepTyped, GuestTyped
    <2> QED
      BY <1>13, <1>l, <1>w, <1>f, <2>1 DEF Others, TrafficInv
  <1>14. CASE UNCHANGED trafficVars
    BY <1>14, <1>p, <1>l, <1>w, <1>f DEF trafficVars, TrafficInv
  <1> QED
    BY <1>1, <1>2, <1>3, <1>4, <1>5, <1>6, <1>7, <1>8, <1>9, <1>10, <1>11, <1>12, <1>13, <1>14
       DEF TrafficNext, ControlStep

LEMMA TrafficInvAlways == TrafficSpec => []TrafficInv
  BY TrafficInvInit, TrafficInvStep, PTL DEF TrafficSpec

(* Statuses, tasks, limits, freezes and what the passes carry keep their types; in particular   *)
(* a task is only queued where the instance has room for it, and what a request asks for    *)
(* at its end is what it began with.                                        *)
THEOREM TrafficTypeCorrect == TrafficSpec => []TrafficTypeOK
  BY TrafficInvAlways, TrafficInvTyped, PTL

(* A limit and a traffic freeze never outlive the limit they come from, whatever passes,    *)
(* resets, requests, administrators and edits interleave, on any number of objects, but for  *)
(* the limits of rows that the save of a stale edit has parted from their cause.        *)
THEOREM LimitsHaveCausesAlways == TrafficSpec => []LimitsHaveCauses
  <1>1. TrafficInv => LimitsHaveCauses
    BY DEF TrafficInv
  <1> QED
    BY <1>1, TrafficInvAlways, PTL
=============================================================================
