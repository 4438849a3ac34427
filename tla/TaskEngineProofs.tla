-------------------------- MODULE TaskEngineProofs --------------------------
(* Theorems about TaskEngine and their proofs.                              *)
EXTENDS TaskEngine, FiniteSetTheorems, TLAPS

-----------------------------------------------------------------------------
(* Types.                                                                   *)

\* A busy thread, submitter or reaper has a task in its hands.
Placed ==
    /\ \A w \in Threads : pc[w] # "idle" => job[w] \in Tasks
    /\ subpc # "idle" => cur \in Tasks
    /\ reap # "no" => prey \in Tasks

Typed == TypeOK /\ Placed

LEMMA TypedInit == Init => Typed
  <1> SUFFICES ASSUME Init PROVE Typed
    OBVIOUS
  <1> USE EngineAssumption DEF Init
  <1>1. row \in [Tasks -> [op : Ops, on : Insts, was : InstStatus, stoppable : BOOLEAN]]
    <2>1. PICK i \in Insts : row = [t \in Tasks |-> [op |-> "start", on |-> i, was |-> "stopped",
                                                   stoppable |-> TRUE]]
      OBVIOUS
    <2> QED
      BY <2>1 DEF Ops, InstStatus, Stable
  <1>2. inst \in [Insts -> InstStatus]
    BY DEF InstStatus, Stable
  <1>3. chan \in Seq(Tasks)
    OBVIOUS
  <1> QED
    BY <1>1, <1>2, <1>3 DEF Typed, TypeOK, Placed, Status, Reaping

\* CompleteTask writes one of the terminal statuses.
LEMMA OutcomeTerminal ==
  ASSUME NEW t, NEW success PROVE Outcome(t, success) \in Terminal
  BY DEF Outcome, Terminal

LEMMA CompleteTaskTyped ==
  ASSUME TypeOK, NEW t \in Tasks, NEW success, CompleteTask(t, success)
  PROVE  status' \in [Tasks -> Status] /\ undoing' \subseteq Tasks
  <1>1. Outcome(t, success) \in Status
    BY OutcomeTerminal DEF Status
  <1>2. status' \in [Tasks -> Status]
    BY <1>1 DEF CompleteTask, TypeOK
  <1>3. undoing' = undoing \/ undoing' = undoing \cup {t}
    BY DEF CompleteTask, NeedsUndo
  <1> QED
    BY <1>2, <1>3 DEF TypeOK

LEMMA AppendTyped == ASSUME NEW S, NEW q \in Seq(S), NEW e \in S PROVE Append(q, e) \in Seq(S)
  OBVIOUS

LEMMA TypedNext == Typed /\ [Next]_vars => Typed'
  <1> SUFFICES ASSUME Typed, [Next]_vars PROVE Typed'
    OBVIOUS
  <1> USE EngineAssumption, RequestsAssumption DEF Typed, TypeOK, Placed, edits
  <1>1. ASSUME NEW t \in Tasks, NEW op \in Requests, NEW i \in Insts, NEW byAdmin \in BOOLEAN,
               CreateTask(t, op, i, byAdmin)
        PROVE  Typed'
    <2>1. row' \in [Tasks -> [op : Ops, on : Insts, was : InstStatus, stoppable : BOOLEAN]]
      BY <1>1 DEF CreateTask
    <2>2. inst' \in [Insts -> InstStatus]
      BY <1>1 DEF CreateTask, Transition, InstStatus, Busy, Ops
    <2>3. status' \in [Tasks -> Status]
      BY <1>1 DEF CreateTask, Status, Active
    <2> QED
      BY <1>1, <2>1, <2>2, <2>3 DEF CreateTask, threads, scheduler, jobs, reaper, env
  <1>2. CASE ScanPending
    BY <1>2 DEF ScanPending, rows, threads, jobs, reaper, env
  <1>3. ASSUME NEW t \in Tasks, SubmitReserve(t) PROVE Typed'
    BY <1>3 DEF SubmitReserve, rows, threads, jobs, reaper, env
  <1>4. CASE SubmitClaim
    <2>1. status' \in [Tasks -> Status]
      <3>1. cur \in Tasks
        BY <1>4 DEF SubmitClaim
      <3>2. status' = status \/ status' = [status EXCEPT ![cur] = "processing"]
        BY <1>4 DEF SubmitClaim
      <3> QED
        BY <3>1, <3>2 DEF Status, Active
    <2>2. chan' \in Seq(Tasks)
      <3>1. cur \in Tasks /\ chan \in Seq(Tasks)
        BY <1>4 DEF SubmitClaim
      <3>2. chan' = chan \/ chan' = Append(chan, cur)
        BY <1>4 DEF SubmitClaim
      <3>3. Append(chan, cur) \in Seq(Tasks)
        BY <3>1, AppendTyped
      <3> QED
        BY <3>1, <3>2, <3>3, Zenon
    <2>3. faults' \in 0..MaxFaults
      BY <1>4 DEF SubmitClaim, NoFault, Fault
    <2> QED
      BY <1>4, <2>1, <2>2, <2>3 DEF SubmitClaim, Submitted, threads, jobs, reaper
  <1>5. CASE SubmitRequeue
    <2>1. status' \in [Tasks -> Status] /\ queued' \subseteq Tasks /\ faults' \in 0..MaxFaults
      <3>1. cur \in Tasks /\ faults \in 0..MaxFaults /\ status \in [Tasks -> Status] /\ queued \subseteq Tasks
        BY <1>5 DEF SubmitRequeue
      <3> HIDE DEF Typed, TypeOK, Placed
      <3> QED
        BY <1>5, <3>1 DEF SubmitRequeue, Requeue, NoFault, Fault, Status, Active
    <2>2. /\ subpc' = "idle" /\ cur' = NoTask
          /\ UNCHANGED <<row, phase, reason, inst, chan, ctx, pc, job, ok, scan, cleaner, reap, prey, repair,
                         editing, overwritten, undoing, mode, crashes>>
      <3> HIDE DEF Typed, TypeOK, Placed
      <3> QED
        BY <1>5 DEF SubmitRequeue, Submitted, threads, jobs, reaper, edits
    <2> QED
      BY <2>1, <2>2
  <1>6. ASSUME NEW w \in Workers, Register(w) PROVE Typed'
    <2>1. Head(chan) \in Tasks /\ chan' \in Seq(Tasks)
      BY <1>6 DEF Register
    <2>2. w \in Threads
      BY DEF Threads
    <2>3. queued' \subseteq Tasks
      BY <1>6, <2>1 DEF Register
    <2>4. ctx' \in [Tasks -> {"none", "live", "cancelled", "expired"}]
      BY <1>6, <2>1 DEF Register
    <2>5. UNCHANGED threads \/ \E place \in {"full", "unmark"} : Take(w, Head(chan), place)
      BY <1>6 DEF Register
    <2>6. CASE UNCHANGED threads
      BY <1>6, <2>1, <2>3, <2>4, <2>6 DEF Register, rows, threads, scheduler, jobs, reaper, env
    <2>7. ASSUME NEW place \in {"full", "unmark"}, Take(w, Head(chan), place) PROVE Typed'
      BY <1>6, <2>1, <2>2, <2>3, <2>4, <2>7 DEF Register, Take, rows, scheduler, jobs, reaper, env
    <2> QED
      BY <2>5, <2>6, <2>7
  <1>7. ASSUME NEW w \in Workers, FailFull(w) PROVE Typed'
    <2>1. w \in Threads /\ job[w] \in Tasks
      BY <1>7 DEF FailFull, Threads
    <2>2. status' \in [Tasks -> Status] /\ undoing' \subseteq Tasks
      BY <1>7, <2>1, CompleteTaskTyped DEF FailFull
    <2> QED
      BY <1>7, <2>1, <2>2 DEF FailFull, Idle, scheduler, jobs, reaper, env
  <1>8. ASSUME NEW w \in Workers, Unmark(w) PROVE Typed'
    BY <1>8 DEF Unmark, Goto, Threads, rows, scheduler, jobs, reaper, env
  <1>9. ASSUME NEW w \in Workers, Claim(w) PROVE Typed'
    <2>1. w \in Threads
      BY DEF Threads
    <2>2. status' \in [Tasks -> Status]
      BY <1>9 DEF Claim, Status, Active
    <2>3. faults' \in 0..MaxFaults
      BY <1>9 DEF Claim, NoFault, Fault
    <2> QED
      BY <1>9, <2>1, <2>2, <2>3 DEF Claim, Goto, scheduler, jobs, reaper
  <1>10. ASSUME NEW w \in Workers, RequeueLost(w) PROVE Typed'
    <2>1. w \in Threads
      BY DEF Threads
    <2>2. status' \in [Tasks -> Status] /\ queued' \subseteq Tasks /\ faults' \in 0..MaxFaults
      BY <1>10 DEF RequeueLost, Requeue, NoFault, Fault, Status, Active
    <2> QED
      BY <1>10, <2>1, <2>2 DEF RequeueLost, Goto, scheduler, jobs, reaper
  <1>11. ASSUME NEW w \in Workers, PreflightFail(w) PROVE Typed'
    BY <1>11 DEF PreflightFail, GotoWith, Threads, rows, scheduler, jobs, reaper, env
  <1>12. ASSUME NEW w \in Workers, BeginCall(w) PROVE Typed'
    BY <1>12 DEF BeginCall, Goto, Threads, scheduler, jobs, reaper, env
  <1>13. ASSUME NEW w \in Workers, Succeeded(w) PROVE Typed'
    <2>1. w \in Threads /\ job[w] \in Tasks
      BY <1>13 DEF Succeeded, Threads
    <2>2. inst' \in [Insts -> InstStatus]
      BY <1>13 DEF Succeeded, Reached, InstStatus, Stable
    <2>3. CASE GotoWith(w, "commit", TRUE)
      BY <1>13, <2>1, <2>2, <2>3 DEF Succeeded, GotoWith, rows, scheduler, jobs, reaper, env
    <2>4. ASSUME NEW h \in Helpers,
                 pc' = [pc EXCEPT ![w] = "idle", ![h] = "post"],
                 job' = [job EXCEPT ![w] = NoTask, ![h] = job[w]], UNCHANGED ok
          PROVE  Typed'
      <3>1. h \in Threads
        BY DEF Threads
      <3> QED
        BY <1>13, <2>1, <2>2, <2>4, <3>1 DEF Succeeded, rows, scheduler, jobs, reaper, env
    <2> QED
      BY <1>13, <2>3, <2>4 DEF Succeeded
  <1>14. ASSUME NEW w \in Workers, Failed(w) PROVE Typed'
    BY <1>14 DEF Failed, Fallback, GotoWith, Threads, InstStatus, Stable, Ops, Destructive, rows, scheduler, jobs, reaper, env
  <1>15. ASSUME NEW w \in Workers, Unrecorded(w) PROVE Typed'
    BY <1>15 DEF Unrecorded, GotoWith, NoFault, Fault, Threads, rows, scheduler, jobs, reaper
  <1>16. ASSUME NEW w \in Workers, NotDeleted(w) PROVE Typed'
    BY <1>16 DEF NotDeleted, GotoWith, Threads, rows, scheduler, jobs, reaper, env
  <1>17. ASSUME NEW w \in Workers, NEW s \in BOOLEAN, Deleted(w, s) PROVE Typed'
    <2>1. w \in Threads
      BY DEF Threads
    <2>2. inst' \in [Insts -> InstStatus]
      BY <1>17 DEF Deleted, InstStatus, Stable
    <2>4. faults' \in 0..MaxFaults
      <3>1. NoFault \/ Fault
        BY <1>17 DEF Deleted
      <3> QED
        BY <3>1 DEF NoFault, Fault
    <2>3. PICK b \in BOOLEAN : GotoWith(w, "commit", b)
      BY <1>17 DEF Deleted
    <2> QED
      BY <1>17, <2>1, <2>2, <2>3, <2>4 DEF Deleted, GotoWith, rows, scheduler, jobs, reaper
  <1>18. ASSUME NEW h \in Helpers, NEW s \in BOOLEAN, PostProcessed(h, s) PROVE Typed'
    BY <1>18 DEF PostProcessed, GotoWith, Threads, rows, scheduler, jobs, reaper, env
  <1>19. ASSUME NEW w \in Threads, Commit(w) PROVE Typed'
    <2>1. job[w] \in Tasks
      BY <1>19 DEF Commit
    <2>2. status' \in [Tasks -> Status] /\ undoing' \subseteq Tasks
      <3>1. CASE CompleteTask(job[w], ok[w])
        BY <2>1, <3>1, CompleteTaskTyped
      <3>2. CASE UNCHANGED undoing /\ (UNCHANGED status \/
                   status' = [status EXCEPT ![job[w]] = Outcome(job[w], ok[w])])
        BY <2>1, <3>2, OutcomeTerminal DEF Status
      <3> QED
        BY <1>19, <3>1, <3>2 DEF Commit
    <2>3. faults' \in 0..MaxFaults
      BY <1>19 DEF Commit, NoFault, Fault
    <2> QED
      BY <1>19, <2>1, <2>2, <2>3 DEF Commit, Goto, scheduler, jobs, reaper
  <1>20. ASSUME NEW w \in Threads, Release(w) PROVE Typed'
    BY <1>20 DEF Release, DropContext, Idle, rows, scheduler, jobs, reaper, env
  <1>21. ASSUME NEW t \in Tasks, Expire(t) PROVE Typed'
    BY <1>21 DEF Expire, NoFault, Fault, rows, threads, scheduler, jobs, reaper
  <1>22. ASSUME NEW t \in Tasks, NEW a \in BOOLEAN, CancelUnstarted(t, a) PROVE Typed'
    BY <1>22 DEF CancelUnstarted, Status, Terminal, threads, scheduler, jobs, reaper, env
  <1>23. ASSUME NEW t \in Tasks, NEW a \in BOOLEAN, CancelStarted(t, a) PROVE Typed'
    BY <1>23 DEF CancelStarted, CancelContext, Status, Active, threads, scheduler, reaper, env
  <1>24. ASSUME NEW t \in Tasks, GraceOver(t) PROVE Typed'
    BY <1>24 DEF GraceOver, rows, threads, scheduler, reaper, env
  <1>25. ASSUME NEW t \in Tasks, Finalize(t) PROVE Typed'
    BY <1>25 DEF Finalize, DropContext, Status, Terminal, threads, scheduler, reaper, env
  <1>26. ASSUME NEW t \in Tasks, Undo(t) PROVE Typed'
    <2>1. Restored(t) \in InstStatus
      BY DEF Restored, InstStatus, Stable, Ops
    <2> QED
      BY <1>26, <2>1 DEF Undo, Undone, rows, threads, scheduler, jobs, reaper, env
  <1>27. ASSUME NEW t \in Tasks, ReapRead(t) PROVE Typed'
    BY <1>27 DEF ReapRead, Suspect, InFlight, Reaping, rows, threads, scheduler, env
  <1>28. CASE ReapCheck
    BY <1>28 DEF ReapCheck, Reaped, CancelContext, Reaping, rows, threads, scheduler, env
  <1>29. CASE ReapOrphan
    BY <1>29 DEF ReapOrphan, Reaped, Reaping, Status, Active, threads, scheduler, env
  <1>30. CASE ReapHeld
    BY <1>30 DEF ReapHeld, Reaped, CancelContext, Reaping, Status, Active, threads, scheduler, env
  <1>31. CASE ReapDead
    <2>1. prey \in Tasks
      BY <1>31 DEF ReapDead
    <2>2. status' \in [Tasks -> Status] /\ undoing' \subseteq Tasks
      BY <1>31, <2>1 DEF ReapDead, Status, Terminal
    <2>3. reason' \in [Tasks -> {"none", "request", "timeout"}]
      BY <1>31, <2>1 DEF ReapDead
    <2> QED
      BY <1>31, <2>2, <2>3 DEF ReapDead, Reaped, Reaping, threads, scheduler, env
  <1>32. ASSUME NEW i \in Insts, RepairRead(i) PROVE Typed'
    BY <1>32 DEF RepairRead, RepairsTo, rows, threads, scheduler, reaper, env
  <1>33. ASSUME NEW i \in Insts, RepairWrite(i) PROVE Typed'
    BY <1>33 DEF RepairWrite, InstStatus, Stable, rows, threads, scheduler, reaper, env
  <1>38. ASSUME NEW i \in Insts, EditRead(i) \/ EditDrop(i) PROVE Typed'
    BY <1>38 DEF EditRead, EditDrop, rows, threads, scheduler, jobs, reaper, env
  <1>39. ASSUME NEW i \in Insts, NEW s \in Saved, EditSave(i, s) PROVE Typed'
    <2>1. inst' \in [Insts -> InstStatus]
      BY <1>39, SavedAssumption DEF EditSave
    <2> QED
      BY <1>39, <2>1 DEF EditSave, rows, threads, scheduler, jobs, reaper, env
  <1>40. ASSUME NEW i \in Insts, NEW s \in Saved, Reconciles(i, s) PROVE Typed'
    <2>1. inst' \in [Insts -> InstStatus]
      BY <1>40, SavedAssumption DEF Reconciles
    <2> QED
      BY <1>40, <2>1 DEF Reconciles, rows, threads, scheduler, jobs, reaper, env
  <1>34. CASE Crash
    <2>1. chan' \in Seq(Tasks)
      BY <1>34 DEF Crash
    <2> QED
      BY <1>34, <2>1 DEF Crash, Reaping, rows
  <1>35. CASE Reboot
    <2>1. status' \in [Tasks -> Status]
      BY <1>35 DEF Reboot, Status, Terminal
    <2>2. undoing' \subseteq Tasks
      BY <1>35 DEF Reboot, Interrupted
    <2> QED
      BY <1>35, <2>1, <2>2 DEF Reboot, threads, scheduler, jobs, reaper
  <1>36. CASE Serve
    BY <1>36 DEF Serve, rows, threads, scheduler, jobs, reaper
  <1>37. CASE UNCHANGED vars
    BY <1>37 DEF vars, rows, threads, scheduler, jobs, reaper, env
  <1> HIDE DEF Typed, TypeOK, Placed
  <1> QED
    BY <1>1, <1>2, <1>3, <1>4, <1>5, <1>6, <1>7, <1>8, <1>9, <1>10, <1>11, <1>12, <1>13, <1>14,
       <1>15, <1>16, <1>17, <1>18, <1>19, <1>20, <1>21, <1>22, <1>23, <1>24, <1>25, <1>26, <1>27,
       <1>28, <1>29, <1>30, <1>31, <1>32, <1>33, <1>34, <1>35, <1>36, <1>37, <1>38, <1>39, <1>40
    DEF Next, Rewrite, EditStep, SchedulerStep, WorkerStep, Execute, Finish, HelperStep, Cancel, CleanerStep, ReaperStep

LEMMA TypedAlways == Spec => []Typed
  BY TypedInit, TypedNext, PTL DEF Spec

\* Type correctness of the whole state, for every value of the constants.
THEOREM TypeCorrect == Spec => []TypeOK
  BY TypedAlways, PTL DEF Typed

-----------------------------------------------------------------------------
(* One open task per instance.                                              *)

\* Nothing but admission opens a task, and an id keeps the columns it was
\* admitted with.
NothingOpens == row' = row /\ \A u \in Tasks : status'[u] \in Active => status[u] \in Active

LEMMA OneOpenNext ==
  ASSUME Typed, Typed', OneOpenTask, [Next]_vars PROVE OneOpenTask'
  <1> USE DEF Typed, TypeOK, Placed
  <1>1. ASSUME NEW t \in Tasks, NEW op \in Requests, NEW i \in Insts, NEW byAdmin \in BOOLEAN,
               CreateTask(t, op, i, byAdmin)
        PROVE  OneOpenTask'
    <2>1. /\ \A u \in Tasks \ {t} : status'[u] = status[u] /\ row'[u] = row[u]
          /\ row'[t].on = i
          /\ \A u \in Tasks \ {t} : status[u] \in Active => row[u].on # i
      BY <1>1 DEF CreateTask, Admissible, OpenOn
    <2> QED
      BY <2>1 DEF OneOpenTask
  <1>2. CASE NothingOpens
    BY <1>2 DEF NothingOpens, OneOpenTask
  <1> USE DEF NothingOpens, Active
  <1>3. CASE UNCHANGED <<status, row>>
    BY <1>2, <1>3
  <1>4. CASE SubmitClaim
    BY <1>2, <1>4 DEF SubmitClaim
  <1>5. CASE SubmitRequeue
    BY <1>2, <1>5 DEF SubmitRequeue, Requeue
  <1>6. ASSUME NEW w \in Workers, FailFull(w) PROVE OneOpenTask'
    <2>1. Outcome(job[w], FALSE) \notin Active
      BY OutcomeTerminal DEF Terminal
    <2>2. \/ UNCHANGED status
          \/ \E s \in Terminal : s \notin Active /\ status' = [status EXCEPT ![job[w]] = s]
      BY <1>6, <2>1, OutcomeTerminal DEF FailFull, CompleteTask
    <2>3. row' = row
      BY <1>6 DEF FailFull
    <2> QED
      BY <1>2, <2>2, <2>3
  <1>7. ASSUME NEW w \in Workers, Claim(w) PROVE OneOpenTask'
    BY <1>2, <1>7 DEF Claim, Claimable
  <1>8. ASSUME NEW w \in Workers, RequeueLost(w) PROVE OneOpenTask'
    BY <1>2, <1>8 DEF RequeueLost, Requeue
  <1>9. ASSUME NEW w \in Threads, Commit(w) PROVE OneOpenTask'
    <2>1. Outcome(job[w], ok[w]) \notin Active
      BY OutcomeTerminal DEF Terminal
    <2>2. \/ UNCHANGED status
          \/ \E s \in Terminal : s \notin Active /\ status' = [status EXCEPT ![job[w]] = s]
      BY <1>9, <2>1, OutcomeTerminal DEF Commit, CompleteTask
    <2>3. row' = row
      BY <1>9 DEF Commit
    <2> QED
      BY <1>2, <2>2, <2>3
  <1>10. ASSUME NEW t \in Tasks, NEW a \in BOOLEAN, CancelUnstarted(t, a) \/ CancelStarted(t, a)
         PROVE  OneOpenTask'
    BY <1>2, <1>10 DEF CancelUnstarted, CancelStarted
  <1>11. ASSUME NEW t \in Tasks, Finalize(t) PROVE OneOpenTask'
    BY <1>2, <1>11 DEF Finalize
  <1>12. CASE ReapOrphan
    BY <1>2, <1>12 DEF ReapOrphan
  <1>13. CASE ReapHeld
    BY <1>2, <1>13 DEF ReapHeld
  <1>14. CASE ReapDead
    BY <1>2, <1>14 DEF ReapDead
  <1>15. CASE Reboot
    BY <1>2, <1>15 DEF Reboot, Interrupted, InFlight
  <1>16. ASSUME NEW w \in Threads, NEW s \in BOOLEAN,
                \/ Register(w) \/ Unmark(w) \/ PreflightFail(w) \/ BeginCall(w) \/ Succeeded(w)
                \/ Failed(w) \/ Unrecorded(w) \/ NotDeleted(w) \/ Deleted(w, s)
                \/ PostProcessed(w, s) \/ Release(w)
         PROVE  OneOpenTask'
    <2>1. UNCHANGED <<status, row>>
      BY <1>16 DEF Register, Unmark, PreflightFail, BeginCall, Succeeded, Failed, Unrecorded, NotDeleted,
                   Deleted, PostProcessed, Release, rows
    <2> QED
      BY <1>3, <2>1
  <1>17. ASSUME NEW t \in Tasks,
                SubmitReserve(t) \/ Expire(t) \/ GraceOver(t) \/ Undo(t) \/ ReapRead(t)
         PROVE  OneOpenTask'
    <2>1. UNCHANGED <<status, row>>
      BY <1>17 DEF SubmitReserve, Expire, GraceOver, Undo, ReapRead, rows
    <2> QED
      BY <1>3, <2>1
  <1>18. ASSUME NEW i \in Insts, RepairRead(i) \/ RepairWrite(i) \/ Rewrite(i) PROVE OneOpenTask'
    <2>1. UNCHANGED <<status, row>>
      BY <1>18 DEF RepairRead, RepairWrite, Rewrite, EditStep, EditRead, EditSave, EditDrop, Reconciles, rows
    <2> QED
      BY <1>3, <2>1
  <1>19. CASE ScanPending \/ ReapCheck \/ Crash \/ Serve \/ UNCHANGED vars
    <2>1. UNCHANGED <<status, row>>
      BY <1>19 DEF ScanPending, ReapCheck, Crash, Serve, vars, rows
    <2> QED
      BY <1>3, <2>1
  <1> HIDE DEF Typed, TypeOK, Placed, NothingOpens, Active, OneOpenTask
  <1>20. ASSUME NEW w \in Workers, WorkerStep(w) PROVE OneOpenTask'
    BY <1>6, <1>7, <1>8, <1>16, <1>20 DEF WorkerStep, Execute, Threads
  <1>21. ASSUME NEW h \in Helpers, HelperStep(h) PROVE OneOpenTask'
    BY <1>16, <1>21 DEF HelperStep, Threads
  <1>22. ASSUME NEW w \in Threads, Finish(w) PROVE OneOpenTask'
    BY <1>9, <1>16, <1>22 DEF Finish
  <1> QED
    BY <1>1, <1>4, <1>5, <1>10, <1>11, <1>12, <1>13, <1>14, <1>15, <1>17, <1>18, <1>19, <1>20, <1>21, <1>22
    DEF Next, SchedulerStep, Cancel, CleanerStep, ReaperStep

\* Two tasks that have not ended never share an instance, for any number of
\* tasks, instances and goroutines, whatever fails: reserveInstanceOperationInTx
\* counts the open ones, and nothing else opens a task.
THEOREM OneOpenTaskAlways == Spec => []OneOpenTask
  <1>1. Init => OneOpenTask
    BY DEF Init, OneOpenTask, Active
  <1>2. Typed /\ Typed' /\ OneOpenTask /\ [Next]_vars => OneOpenTask'
    BY OneOpenNext
  <1> QED
    BY <1>1, <1>2, TypedAlways, PTL DEF Spec

-----------------------------------------------------------------------------
(* A call holds its task: the inductive invariant.  Everything below is about  *)
(* a context manager that never fills up.                                     *)

Roomy == MaxContexts >= MaxTask + Others

\* From the registration of the context to the end of the deferred clean-up.
Holding(w) == pc[w] \notin {"idle", "full"}

Unstarted(t) == status[t] \in {"pending", "processing"}
Past(t) == status[t] \in {"running", "cancelling"} \cup Terminal

NobodyExecutes(t) == \A w \in Threads : Executing(w) => job[w] # t

\* Nothing runs while the process is down or starting, and no worker is refused
\* a context.
Down == mode # "up" => \A w \in Threads : pc[w] = "idle"
NeverFull == \A w \in Threads : pc[w] # "full"

\* Ids are used once their row exists.
Known ==
    /\ \A w \in Threads : pc[w] # "idle" => status[job[w]] # "absent"
    /\ \A n \in 1..Len(chan) : status[chan[n]] # "absent"
    /\ \A t \in scan : status[t] # "absent"
    /\ subpc # "idle" => status[cur] # "absent"

\* While a task may still be claimed, or is executed, the one thread that holds
\* it keeps its context registered, which keeps other workers away from it.
Owned == \A w \in Threads :
    Holding(w) /\ (Executing(w) \/ Unstarted(job[w]))
    => /\ ctx[job[w]] # "none"
       /\ \A v \in Threads : Holding(v) /\ job[v] = job[w] => v = w

Begun == \A w \in Threads : Executing(w) => status[job[w]] \in {"running", "cancelling"}

\* Cleanup and reaper act on what they read before: it has not moved back since.
Settled ==
    /\ \A t \in Tasks : cleaner[t] = "finalize" => Past(t) /\ NobodyExecutes(t)
    /\ reap \in {"late", "held", "stale", "dead", "over"} => Past(prey)
    /\ reap \in {"dead", "over"} => NobodyExecutes(prey)

HoldInv == Down /\ NeverFull /\ Known /\ Owned /\ Begun /\ Settled

\* What a queue holds after a send, and after a receive.
LEMMA AppendElements ==
  ASSUME NEW S, NEW q \in Seq(S), NEW e \in S
  PROVE  \A n \in 1..Len(Append(q, e)) :
            Append(q, e)[n] = e \/ (n \in 1..Len(q) /\ Append(q, e)[n] = q[n])
  OBVIOUS

LEMMA TailElements ==
  ASSUME NEW S, NEW q \in Seq(S), q # <<>>
  PROVE  \A n \in 1..Len(Tail(q)) : n + 1 \in 1..Len(q) /\ Tail(q)[n] = q[n + 1]
  OBVIOUS

LEMMA TaskCount == IsFiniteSet(Tasks) /\ Cardinality(Tasks) = MaxTask
  BY EngineAssumption, FS_Interval DEF Tasks

LEMMA HoldInit == Init => HoldInv
  BY DEF Init, HoldInv, Down, NeverFull, Known, Owned, Begun, Settled, Holding, Executing

\* The reaper ends the row that it read, which had begun, or writes nothing.
LEMMA ReapDeadMoves ==
  ASSUME Typed, ReapDead
  PROVE  \A u \in Tasks : \/ status'[u] = status[u]
                          \/ u = prey /\ Past(u) /\ status'[u] \in {"cancelled", "timeout"}
  <1>1. prey \in Tasks /\ status \in [Tasks -> Status]
    BY DEF Typed, TypeOK, Placed, ReapDead
  <1>2. \/ status' = status
        \/ \E s \in {"cancelled", "timeout"} :
              status[prey] \in {"running", "cancelling"} /\ status' = [status EXCEPT ![prey] = s]
    BY DEF ReapDead
  <1> QED
    BY <1>1, <1>2 DEF Past

LEMMA HoldNext ==
  ASSUME Roomy, Typed, Typed', HoldInv, [Next]_vars PROVE HoldInv'
  <1> USE EngineAssumption DEF Roomy, Typed, TypeOK, Placed, HoldInv, Down, NeverFull, Known, Owned, Begun, Settled,
          Holding, Executing, Unstarted, Past, Terminal, NobodyExecutes, Threads
  <1>1. ASSUME NEW t \in Tasks, NEW op \in Requests, NEW i \in Insts, NEW byAdmin \in BOOLEAN,
               CreateTask(t, op, i, byAdmin) PROVE HoldInv'
    BY <1>1 DEF CreateTask, threads, scheduler, jobs, reaper, env
  <1>2. CASE ScanPending
    BY <1>2 DEF ScanPending, rows, threads, jobs, reaper, env
  <1>3. ASSUME NEW t \in Tasks, SubmitReserve(t) PROVE HoldInv'
    BY <1>3 DEF SubmitReserve, rows, threads, jobs, reaper, env
  <1>4. CASE SubmitClaim
    <2>1. cur \in Tasks /\ UNCHANGED <<pc, job, ctx, cleaner, reap, prey, mode, scan>>
      BY <1>4 DEF SubmitClaim, threads, jobs, reaper
    <2>2. status' = status \/ (status[cur] = "pending" /\ status' = [status EXCEPT ![cur] = "processing"])
      BY <1>4 DEF SubmitClaim
    <2>3. \A u \in Tasks : status'[u] = status[u] \/ (status[u] = "pending" /\ status'[u] = "processing")
      BY <2>1, <2>2
    <2>4. chan' = chan \/ chan' = Append(chan, cur)
      BY <1>4 DEF SubmitClaim
    <2>5. subpc = "claim" /\ status[cur] # "absent" /\ (subpc' # "idle" => cur' = cur)
      BY <1>4 DEF SubmitClaim, Submitted
    <2>6. \A n \in 1..Len(chan') : status'[chan'[n]] # "absent"
      <3>1. CASE chan' = chan
        BY <2>3, <3>1
      <3>2. CASE chan' = Append(chan, cur)
        BY <2>1, <2>3, <2>5, <3>2, AppendElements
      <3> QED
        BY <2>4, <3>1, <3>2
    <2>7. Known'
      BY <2>1, <2>3, <2>5, <2>6
    <2>8. Owned' /\ Begun'
      <3>1. Owned'
        BY <2>1, <2>3
      <3>2. Begun'
        BY <2>1, <2>3
      <3> QED
        BY <3>1, <3>2
    <2>9. Settled'
      BY <2>1, <2>3
    <2> QED
      BY <2>1, <2>7, <2>8, <2>9
  <1>5. CASE SubmitRequeue
    <2>1. /\ cur \in Tasks /\ subpc' = "idle"
          /\ UNCHANGED <<pc, job, ctx, chan, cleaner, reap, prey, mode, scan>>
      BY <1>5 DEF SubmitRequeue, Submitted, threads, jobs, reaper
    <2>2. status' = status \/ (status[cur] = "processing" /\ status' = [status EXCEPT ![cur] = "pending"])
      BY <1>5 DEF SubmitRequeue, Requeue
    <2>3. \A u \in Tasks : status'[u] = status[u] \/ (status[u] = "processing" /\ status'[u] = "pending")
      BY <2>1, <2>2
    <2>4. Known'
      BY <2>1, <2>3
    <2>5. Owned'
      <3> HIDE DEF TypeOK, Settled, Begun, Known, Down
      <3> QED
        BY <2>1, <2>3
    <2>6. Begun'
      BY <2>1, <2>3
    <2>7. Settled'
      <3> HIDE DEF Owned, Begun, Known, Down
      <3> QED
        BY <2>1, <2>3
    <2> QED
      BY <2>1, <2>4, <2>5, <2>6, <2>7
  <1>6. ASSUME NEW w \in Workers, Register(w) PROVE HoldInv'
    <2> DEFINE t == Head(chan)
    <2>1. /\ t \in Tasks /\ w \in Threads /\ status[t] # "absent" /\ pc[w] = "idle" /\ mode = "up"
          /\ UNCHANGED <<status, scan, cur, subpc, cleaner, reap, prey, mode>>
      BY <1>6 DEF Register, rows, scheduler, jobs, reaper, env
    <2>2. \A n \in 1..Len(chan') : status'[chan'[n]] # "absent"
      <3>1. chan # <<>> /\ chan' = Tail(chan)
        BY <1>6 DEF Register
      <3>2. \A n \in 1..Len(chan') : \E m \in 1..Len(chan) : chan'[n] = chan[m]
        BY <3>1, TailElements
      <3> QED
        BY <2>1, <3>2
    <2>3. CASE UNCHANGED <<ctx, pc, job>>
      BY <2>1, <2>2, <2>3
    <2>4. CASE /\ ctx[t] = "none"
               /\ Cardinality(Held) + Others >= MaxContexts
      <3>1. Held \subseteq Tasks \ {t} /\ IsFiniteSet(Tasks) /\ Cardinality(Tasks) = MaxTask
        <4>1. Held \subseteq Tasks \ {t}
          BY <2>4 DEF Held
        <4> QED
          BY <4>1, TaskCount
      <3>2. IsFiniteSet(Tasks \ {t}) /\ Cardinality(Tasks \ {t}) = MaxTask - 1
        BY <2>1, <3>1, FS_RemoveElement
      <3>3. Cardinality(Held) \in Nat /\ Cardinality(Held) <= MaxTask - 1
        BY <3>1, <3>2, FS_Subset, FS_CardinalityType
      <3> QED
        BY <2>4, <3>3
    <2>5. CASE /\ ctx[t] = "none"
               /\ ctx' = [ctx EXCEPT ![t] = "live"]
               /\ Take(w, t, "unmark")
      <3>1. /\ pc' = [pc EXCEPT ![w] = "unmark"] /\ job' = [job EXCEPT ![w] = t]
            /\ ctx' = [ctx EXCEPT ![t] = "live"] /\ ctx[t] = "none"
        BY <2>5 DEF Take
      <3>2. Owned'
        BY <2>1, <3>1
      <3> QED
        BY <2>1, <2>2, <3>1, <3>2
    <2> QED
      BY <1>6, <2>3, <2>4, <2>5 DEF Register, threads
  <1>7. ASSUME NEW w \in Workers, FailFull(w) PROVE HoldInv'
    BY <1>7 DEF FailFull
  <1>8. ASSUME NEW w \in Workers, Unmark(w) PROVE HoldInv'
    BY <1>8 DEF Unmark, Goto, rows, scheduler, jobs, reaper, env
  <1>9. ASSUME NEW w \in Workers, Claim(w) PROVE HoldInv'
    <2>1. /\ w \in Threads /\ job[w] \in Tasks /\ pc[w] = "claim" /\ mode = "up"
          /\ UNCHANGED <<ctx, job, chan, scan, cur, subpc, cleaner, reap, prey, mode>>
      BY <1>9 DEF Claim, Goto, scheduler, jobs, reaper
    <2>2. \/ /\ Unstarted(job[w]) /\ ctx[job[w]] = "live"
             /\ status' = [status EXCEPT ![job[w]] = "running"]
             /\ pc' = [pc EXCEPT ![w] = "exec"] \/ pc' = [pc EXCEPT ![w] = "requeue"]
          \/ status' = status /\ pc' = [pc EXCEPT ![w] = "requeue"]
      BY <1>9 DEF Claim, Claimable, Goto
    <2>3. \A v \in Threads : Unstarted(job[w]) /\ Holding(v) /\ job[v] = job[w] => v = w
      BY <2>1
    <2>4. Owned'
      BY <2>1, <2>2, <2>3
    <2>5. Known' /\ Begun'
      <3>1. \A u \in Tasks : status[u] # "absent" => status'[u] # "absent"
        BY <2>1, <2>2
      <3>2. \A v \in Threads : pc'[v] # "idle" => pc[v] # "idle"
        BY <2>1, <2>2
      <3>3. Known'
        <4> HIDE DEF Owned, Begun, Settled, NeverFull, Down
        <4> QED
          BY <2>1, <3>1, <3>2
      <3>4. Begun'
        BY <2>1, <2>2, <2>3
      <3> QED
        BY <3>3, <3>4
    <2>6. Settled'
      <3>1. \A u \in Tasks : Past(u) => Past(u)'
        BY <2>1, <2>2
      <3>2. \A u \in Tasks : Past(u) /\ NobodyExecutes(u) => NobodyExecutes(u)'
        BY <2>1, <2>2
      <3> HIDE DEF TypeOK, Past, NobodyExecutes, Owned, Begun, Known, Down, NeverFull
      <3> QED
        BY <2>1, <3>1, <3>2
    <2> QED
      BY <2>1, <2>2, <2>4, <2>5, <2>6
  <1>10. ASSUME NEW w \in Workers, RequeueLost(w) PROVE HoldInv'
    <2>1. /\ w \in Threads /\ job[w] \in Tasks /\ pc[w] = "requeue" /\ mode = "up"
          /\ pc' = [pc EXCEPT ![w] = "release"]
          /\ UNCHANGED <<ctx, job, chan, scan, cur, subpc, cleaner, reap, prey, mode>>
      BY <1>10 DEF RequeueLost, Goto, scheduler, jobs, reaper
    <2>2. status' = status \/ (status[job[w]] = "processing" /\ status' = [status EXCEPT ![job[w]] = "pending"])
      BY <1>10 DEF RequeueLost, Requeue
    <2>3. \A u \in Tasks : status'[u] = status[u] \/ (status[u] = "processing" /\ status'[u] = "pending")
      BY <2>1, <2>2
    <2>4. Known'
      BY <2>1, <2>3
    <2>5. Owned'
      <3>1. \A v \in Threads : (Holding(v)' <=> Holding(v)) /\ (Executing(v)' <=> Executing(v))
        BY <2>1
      <3>2. \A v \in Threads : Holding(v) /\ Unstarted(job[v])' => Unstarted(job[v])
        <4>1. \A v \in Threads : Holding(v) => job[v] \in Tasks /\ job'[v] = job[v]
          BY <2>1
        <4> HIDE DEF TypeOK, Owned, Settled, Begun, Known, Down, NeverFull, Holding
        <4> QED
          BY <2>3, <4>1
      <3> HIDE DEF TypeOK, Holding, Executing, Unstarted, Settled, Begun, Known, Down, NeverFull
      <3> QED
        BY <2>1, <3>1, <3>2
    <2>7. Begun'
      BY <2>1, <2>3
    <2>6. Settled'
      <3>1. \A u \in Tasks : NobodyExecutes(u) => NobodyExecutes(u)'
        BY <2>1
      <3> QED
        BY <2>1, <2>3, <3>1
    <2> QED
      BY <2>1, <2>4, <2>5, <2>6, <2>7
  <1>11. ASSUME NEW w \in Workers, PreflightFail(w) PROVE HoldInv'
    BY <1>11 DEF PreflightFail, GotoWith, rows, scheduler, jobs, reaper, env
  <1>12. ASSUME NEW w \in Workers, BeginCall(w) PROVE HoldInv'
    BY <1>12 DEF BeginCall, Goto, scheduler, jobs, reaper, env
  <1>13. ASSUME NEW w \in Workers, Succeeded(w) PROVE HoldInv'
    <2>1. /\ w \in Threads /\ job[w] \in Tasks /\ pc[w] = "call" /\ mode = "up"
          /\ UNCHANGED <<status, ctx, chan, scan, cur, subpc, cleaner, reap, prey, mode>>
      BY <1>13 DEF Succeeded, rows, scheduler, jobs, reaper, env
    <2>2. CASE GotoWith(w, "commit", TRUE)
      BY <2>1, <2>2 DEF GotoWith
    <2>3. ASSUME NEW h \in Helpers, pc[h] = "idle",
                 pc' = [pc EXCEPT ![w] = "idle", ![h] = "post"],
                 job' = [job EXCEPT ![w] = NoTask, ![h] = job[w]]
          PROVE  HoldInv'
      <3>1. h \in Threads /\ h # w
        BY <2>1, <2>3
      <3>2. /\ pc'[h] = "post" /\ job'[h] = job[w] /\ pc'[w] = "idle"
            /\ \A v \in Threads \ {w, h} : pc'[v] = pc[v] /\ job'[v] = job[v]
        BY <2>1, <2>3, <3>1
      <3>3. Known /\ Owned /\ Begun /\ Settled /\ NeverFull
        OBVIOUS
      <3> HIDE DEF Typed, TypeOK, Placed, HoldInv, Known, Owned, Begun, Settled, Down, NeverFull
      <3>4. Down' /\ NeverFull'
        BY <2>1, <3>1, <3>2, <3>3 DEF Down, NeverFull
      <3>5. Known'
        BY <2>1, <3>1, <3>2, <3>3 DEF Known
      <3>6. Begun'
        BY <2>1, <3>1, <3>2, <3>3 DEF Begun
      <3>7. Owned'
        <4>1. ctx[job[w]] # "none" /\ \A v \in Threads : Holding(v) /\ job[v] = job[w] => v = w
          BY <2>1, <3>3 DEF Owned
        <4> QED
          BY <2>1, <3>1, <3>2, <3>3, <4>1 DEF Owned
      <3>8. Settled'
        <4>1. \A t \in Tasks : NobodyExecutes(t) => NobodyExecutes(t)'
          BY <2>1, <3>1, <3>2
        <4>2. \A t \in Tasks : Past(t) => Past(t)'
          BY <2>1
        <4>3. reap # "no" => prey \in Tasks
          BY DEF Typed, Placed
        <4> HIDE DEF Past, NobodyExecutes
        <4> QED
          BY <2>1, <3>3, <4>1, <4>2, <4>3 DEF Settled
      <3> QED
        BY <3>4, <3>5, <3>6, <3>7, <3>8 DEF HoldInv
    <2> QED
      BY <1>13, <2>2, <2>3 DEF Succeeded
  <1>14. ASSUME NEW w \in Workers, Failed(w) PROVE HoldInv'
    BY <1>14 DEF Failed, GotoWith, rows, scheduler, jobs, reaper, env
  <1>15. ASSUME NEW w \in Workers, Unrecorded(w) PROVE HoldInv'
    BY <1>15 DEF Unrecorded, GotoWith, rows, scheduler, jobs, reaper
  <1>16. ASSUME NEW w \in Workers, NotDeleted(w) PROVE HoldInv'
    BY <1>16 DEF NotDeleted, GotoWith, rows, scheduler, jobs, reaper, env
  <1>17. ASSUME NEW w \in Workers, NEW s \in BOOLEAN, Deleted(w, s) PROVE HoldInv'
    BY <1>17 DEF Deleted, GotoWith, rows, scheduler, jobs, reaper
  <1>18. ASSUME NEW h \in Helpers, NEW s \in BOOLEAN, PostProcessed(h, s) PROVE HoldInv'
    BY <1>18 DEF PostProcessed, GotoWith, rows, scheduler, jobs, reaper, env
  <1>19. ASSUME NEW w \in Threads, Commit(w) PROVE HoldInv'
    <2>1. /\ w \in Threads /\ job[w] \in Tasks /\ pc[w] = "commit" /\ mode = "up"
          /\ pc' = [pc EXCEPT ![w] = "release"]
          /\ UNCHANGED <<ctx, job, chan, scan, cur, subpc, cleaner, reap, prey, mode>>
      BY <1>19 DEF Commit, Goto, scheduler, jobs, reaper
    <2>2. status' = status \/ status' = [status EXCEPT ![job[w]] = Outcome(job[w], ok[w])]
      BY <1>19 DEF Commit, CompleteTask
    <2>3. Outcome(job[w], ok[w]) \in Terminal
      BY OutcomeTerminal
    <2>4. \A t \in Tasks : \/ status'[t] = status[t]
                           \/ t = job[w] /\ status'[t] \in Terminal
      BY <2>1, <2>2, <2>3
    <2>5. Known'
      <3>1. \A t \in Tasks : status[t] # "absent" => status'[t] # "absent"
        BY <2>4
      <3> QED
        BY <2>1, <3>1
    <2>6. Owned' /\ Begun'
      BY <2>1, <2>4
    <2>7. Settled'
      BY <2>1, <2>4
    <2> QED
      BY <2>1, <2>5, <2>6, <2>7
  <1>20. ASSUME NEW w \in Threads, Release(w) PROVE HoldInv'
    BY <1>20 DEF Release, DropContext, Idle, rows, scheduler, jobs, reaper, env
  <1>21. ASSUME NEW t \in Tasks, Expire(t) PROVE HoldInv'
    BY <1>21 DEF Expire, rows, threads, scheduler, jobs, reaper
  <1>22. ASSUME NEW t \in Tasks, NEW a \in BOOLEAN, CancelUnstarted(t, a) PROVE HoldInv'
    BY <1>22 DEF CancelUnstarted, threads, scheduler, jobs, reaper, env
  <1>23. ASSUME NEW t \in Tasks, NEW a \in BOOLEAN, CancelStarted(t, a) PROVE HoldInv'
    BY <1>23 DEF CancelStarted, CancelContext, threads, scheduler, reaper, env
  <1>24. ASSUME NEW t \in Tasks, GraceOver(t) PROVE HoldInv'
    BY <1>24 DEF GraceOver, rows, threads, scheduler, reaper, env
  <1>25. ASSUME NEW t \in Tasks, Finalize(t) PROVE HoldInv'
    <2>1. /\ cleaner[t] = "finalize" /\ ctx' = [ctx EXCEPT ![t] = "none"]
          /\ cleaner' = [cleaner EXCEPT ![t] = "none"]
          /\ UNCHANGED <<pc, job, chan, scan, cur, subpc, reap, prey, mode>>
      BY <1>25 DEF Finalize, DropContext, threads, scheduler, reaper, env
    <2>2. \/ status' = status
          \/ \E s \in {"timeout", "cancelled"} : status' = [status EXCEPT ![t] = s]
      BY <1>25 DEF Finalize
    <2>3. Past(t) /\ Past(t)' /\ NobodyExecutes(t)
      BY <2>1, <2>2
    <2>4. \A u \in Tasks : u # t => status'[u] = status[u] /\ ctx'[u] = ctx[u]
      BY <2>1, <2>2
    <2>5. Owned'
      BY <2>1, <2>3, <2>4
    <2>6. Known' /\ Begun'
      BY <2>1, <2>3, <2>4
    <2>7. Settled'
      BY <2>1, <2>3, <2>4
    <2> QED
      BY <2>1, <2>5, <2>6, <2>7
  <1>26. ASSUME NEW t \in Tasks, Undo(t) PROVE HoldInv'
    BY <1>26 DEF Undo, rows, threads, scheduler, jobs, reaper, env
  <1>27. ASSUME NEW t \in Tasks, ReapRead(t) PROVE HoldInv'
    BY <1>27 DEF ReapRead, Suspect, InFlight, rows, threads, scheduler, env
  <1>28. CASE ReapCheck
    BY <1>28 DEF ReapCheck, Unowned, Reaped, CancelContext, rows, threads, scheduler, env
  <1>29. CASE ReapOrphan
    BY <1>29 DEF ReapOrphan, Reaped, threads, scheduler, env
  <1>30. CASE ReapHeld
    <2>1. /\ reap = "held" /\ reap' = "no" /\ prey \in Tasks
          /\ UNCHANGED <<pc, job, chan, scan, cur, subpc, cleaner, mode>>
          /\ ctx' = ctx \/ ctx' = CancelContext(prey)
          /\ status' = status \/ (status[prey] = "running" /\ status' = [status EXCEPT ![prey] = "cancelling"])
      BY <1>30 DEF ReapHeld, Reaped, threads, scheduler, env
    <2>2. \A u \in Tasks : ctx[u] # "none" => ctx'[u] # "none"
      BY <2>1 DEF CancelContext
    <2>3. \A u \in Tasks : status'[u] = status[u] \/ (status[u] = "running" /\ status'[u] = "cancelling")
      BY <2>1
    <2>4. Known'
      BY <2>1, <2>3
    <2>5. Owned' /\ Begun'
      BY <2>1, <2>2, <2>3
    <2>6. Settled'
      BY <2>1, <2>3
    <2> QED
      BY <2>1, <2>4, <2>5, <2>6
  <1>31. CASE ReapDead
    <2>1. /\ reap \in {"dead", "over"} /\ reap' = "no" /\ prey \in Tasks
          /\ UNCHANGED <<pc, job, ctx, chan, scan, cur, subpc, cleaner, mode>>
          /\ NobodyExecutes(prey)
      BY <1>31 DEF ReapDead, Reaped, threads, scheduler, env
    <2>3. \A u \in Tasks : \/ status'[u] = status[u]
                           \/ u = prey /\ Past(u) /\ status'[u] \in {"cancelled", "timeout"}
      BY <1>31, ReapDeadMoves
    <2>4. Known'
      BY <2>1, <2>3
    <2>5. Owned' /\ Begun'
      BY <2>1, <2>3
    <2>6. Settled'
      BY <2>1, <2>3
    <2> QED
      BY <2>1, <2>4, <2>5, <2>6
  <1>32. ASSUME NEW i \in Insts, RepairRead(i) PROVE HoldInv'
    BY <1>32 DEF RepairRead, rows, threads, scheduler, reaper, env
  <1>33. ASSUME NEW i \in Insts, RepairWrite(i) PROVE HoldInv'
    BY <1>33 DEF RepairWrite, rows, threads, scheduler, reaper, env
  <1>38. ASSUME NEW i \in Insts, Rewrite(i) PROVE HoldInv'
    BY <1>38 DEF Rewrite, EditStep, EditRead, EditSave, EditDrop, Reconciles, rows, threads, scheduler, jobs, reaper, env
  <1>34. CASE Crash
    BY <1>34 DEF Crash, rows
  <1>35. CASE Reboot
    BY <1>35 DEF Reboot, Interrupted, InFlight, threads, scheduler, jobs, reaper
  <1>36. CASE Serve
    BY <1>36 DEF Serve, rows, threads, scheduler, jobs, reaper
  <1>37. CASE UNCHANGED vars
    BY <1>37 DEF vars, rows, threads, scheduler, jobs, reaper, env
  <1> HIDE DEF Typed, TypeOK, Placed, HoldInv
  <1> QED
    BY <1>1, <1>2, <1>3, <1>4, <1>5, <1>6, <1>7, <1>8, <1>9, <1>10, <1>11, <1>12, <1>13, <1>14, <1>15, <1>16, <1>17, <1>18, <1>19, <1>20, <1>21, <1>22, <1>23, <1>24, <1>25, <1>26, <1>27, <1>28, <1>29, <1>30, <1>31, <1>32, <1>33, <1>34, <1>35, <1>36, <1>37, <1>38
    DEF Next, SchedulerStep, WorkerStep, Execute, Finish, HelperStep, Cancel, CleanerStep, ReaperStep

\* As long as the context manager never fills up: no task ends, and no task's
\* context is dropped, under a goroutine that executes it.
THEOREM CallHoldsTaskAlways ==
  ASSUME Roomy PROVE Spec => []CallHoldsTask
  <1>1. Init => HoldInv
    BY HoldInit
  <1>2. Typed /\ Typed' /\ HoldInv /\ [Next]_vars => HoldInv'
    BY HoldNext
  <1>3. HoldInv => CallHoldsTask
    BY DEF HoldInv, Owned, Begun, CallHoldsTask, Holding, Executing
  <1> QED
    BY <1>1, <1>2, <1>3, TypedAlways, PTL DEF Spec

\* As long as the context manager never fills up: two goroutines never operate on
\* one instance.  Both would execute open tasks, hence the same task, which only
\* one thread holds.
THEOREM OneCallPerInstanceAlways ==
  ASSUME Roomy PROVE Spec => []OneCallPerInstance
  <1>1. Init => HoldInv
    BY HoldInit
  <1>2. Typed /\ Typed' /\ HoldInv /\ [Next]_vars => HoldInv'
    BY HoldNext
  <1>3. Typed /\ HoldInv /\ OneOpenTask => OneCallPerInstance
    <2> SUFFICES ASSUME Typed, HoldInv, OneOpenTask, NEW v \in Threads, NEW w \in Threads,
                        Executing(v), Executing(w), row[job[v]].on = row[job[w]].on
                 PROVE  v = w
      BY DEF OneCallPerInstance
    <2>1. Holding(v) /\ Holding(w) /\ job[v] \in Tasks /\ job[w] \in Tasks
      BY DEF Executing, Holding, Typed, Placed
    <2>2. status[job[v]] \in Active /\ status[job[w]] \in Active
      BY DEF HoldInv, Begun, Active
    <2>3. job[v] = job[w]
      BY <2>1, <2>2 DEF OneOpenTask
    <2> QED
      BY <2>1, <2>3 DEF HoldInv, Owned
  <1> QED
    BY <1>1, <1>2, <1>3, TypedAlways, OneOpenTaskAlways, PTL DEF Spec

-----------------------------------------------------------------------------
(* What a step does to the rows, whoever takes it.                            *)

\* Ids are given out in order, only a crash takes the service away, and what is
\* to be cleaned up after has ended.
Ordered == \A t, u \in Tasks : u < t /\ status[t] # "absent" => status[u] # "absent"
DownAfterCrash == mode # "up" => crashes > 0
UndoingEnded == \A t \in undoing : status[t] \in Terminal

RecordInv == Known /\ Ordered /\ DownAfterCrash /\ UndoingEnded

\* A row keeps its columns, is not opened, and what has ended stays as it is.
RowMoves ==
    /\ row' = row
    /\ \A t \in Tasks : \/ status'[t] = status[t]
                        \/ status[t] \in Active /\ status'[t] \in Active \cup Terminal

\* Who cancels a task, or times it out, leaves it to be cleaned up after; only the
\* cleanup itself, or a crash, takes it away.
UndoMoves ==
    /\ crashes' >= crashes /\ faults' >= faults
    /\ \A t \in undoing' \ undoing : status[t] \in Active /\ status'[t] \in Terminal
    /\ \A t \in undoing \ undoing' : crashes' > 0 \/ inst' = Undone(t)
    /\ \A t \in Tasks : status'[t] \in {"cancelled", "timeout"} /\ status'[t] # status[t]
                        => t \in undoing' \/ crashes' > 0 \/ faults' > 0

\* Only admission locks an instance, or an edit whose request says so; what an edit
\* has overwritten stays marked until the next admission.
InstMoves ==
    /\ \A i \in Insts : inst'[i] = inst[i] \/ inst'[i] \notin Busy \/ i \in overwritten'
    /\ overwritten \subseteq overwritten'

Admission == \E t \in Tasks, op \in Requests, i \in Insts, byAdmin \in BOOLEAN : CreateTask(t, op, i, byAdmin)

\* CompleteTask, by a thread whose task has a row.
LEMMA CompleteTaskMoves ==
  ASSUME Typed, NEW t \in Tasks, status[t] # "absent", NEW success, CompleteTask(t, success)
  PROVE  /\ \/ UNCHANGED <<status, undoing>>
            \/ /\ status[t] \in Active /\ status' = [status EXCEPT ![t] = Outcome(t, success)]
               /\ undoing' = undoing \/ undoing' = undoing \cup {t}
               /\ Outcome(t, success) \in {"cancelled", "timeout"} => t \in undoing'
  BY DEF CompleteTask, NeedsUndo, Typed, TypeOK, Status

LEMMA StepMovesRows ==
  ASSUME Typed, Known, [Next]_vars, ~Admission PROVE RowMoves
  <1> USE DEF Typed, TypeOK, Placed, RowMoves
  <1> USE DEF Active, Terminal
  <1>3. CASE UNCHANGED <<status, row>>
    BY <1>3
  <1>4. CASE SubmitClaim
    BY <1>4 DEF SubmitClaim
  <1>5. CASE SubmitRequeue
    BY <1>5 DEF SubmitRequeue, Requeue
  <1>6. ASSUME NEW w \in Workers, FailFull(w) PROVE RowMoves
    <2>1. /\ job[w] \in Tasks /\ status[job[w]] # "absent" /\ row' = row
          /\ \E s \in BOOLEAN : CompleteTask(job[w], s)
      BY <1>6 DEF FailFull, Known, Threads
    <2>2. \/ status' = status
          \/ \E s \in Terminal : status[job[w]] \in Active /\ status' = [status EXCEPT ![job[w]] = s]
      BY <2>1, CompleteTaskMoves, OutcomeTerminal
    <2> QED
      BY <2>1, <2>2
  <1>7. ASSUME NEW w \in Workers, Claim(w) PROVE RowMoves
    BY <1>7 DEF Claim, Claimable
  <1>8. ASSUME NEW w \in Workers, RequeueLost(w) PROVE RowMoves
    BY <1>8 DEF RequeueLost, Requeue
  <1>9. ASSUME NEW w \in Threads, Commit(w) PROVE RowMoves
    <2>1. job[w] \in Tasks /\ status[job[w]] # "absent" /\ row' = row
      BY <1>9 DEF Commit, Known
    <2>2. CASE CompleteTask(job[w], ok[w])
      <3>1. \/ status' = status
            \/ \E s \in Terminal : status[job[w]] \in Active /\ status' = [status EXCEPT ![job[w]] = s]
        BY <2>1, <2>2, CompleteTaskMoves, OutcomeTerminal
      <3> QED
        BY <2>1, <3>1
    <2>3. CASE UNCHANGED status
      BY <2>1, <2>3
    <2>4. CASE status[job[w]] \notin Terminal /\ status' = [status EXCEPT ![job[w]] = Outcome(job[w], ok[w])]
      BY <2>1, <2>4, OutcomeTerminal DEF Status
    <2> QED
      BY <1>9, <2>2, <2>3, <2>4 DEF Commit
  <1>10. ASSUME NEW t \in Tasks, NEW a \in BOOLEAN, CancelUnstarted(t, a) \/ CancelStarted(t, a)
         PROVE  RowMoves
    BY <1>10 DEF CancelUnstarted, CancelStarted
  <1>11. ASSUME NEW t \in Tasks, Finalize(t) PROVE RowMoves
    BY <1>11 DEF Finalize
  <1>12. CASE ReapOrphan
    BY <1>12 DEF ReapOrphan
  <1>13. CASE ReapHeld
    BY <1>13 DEF ReapHeld
  <1>14. CASE ReapDead
    BY <1>14 DEF ReapDead
  <1>15. CASE Reboot
    BY <1>15 DEF Reboot, Interrupted, InFlight
  <1>16. ASSUME NEW w \in Threads, NEW s \in BOOLEAN,
                \/ Register(w) \/ Unmark(w) \/ PreflightFail(w) \/ BeginCall(w) \/ Succeeded(w)
                \/ Failed(w) \/ Unrecorded(w) \/ NotDeleted(w) \/ Deleted(w, s)
                \/ PostProcessed(w, s) \/ Release(w)
         PROVE  RowMoves
    <2>1. UNCHANGED <<status, row>>
      BY <1>16 DEF Register, Unmark, PreflightFail, BeginCall, Succeeded, Failed, Unrecorded, NotDeleted,
                   Deleted, PostProcessed, Release, rows
    <2> QED
      BY <1>3, <2>1
  <1>17. ASSUME NEW t \in Tasks,
                SubmitReserve(t) \/ Expire(t) \/ GraceOver(t) \/ Undo(t) \/ ReapRead(t)
         PROVE  RowMoves
    <2>1. UNCHANGED <<status, row>>
      BY <1>17 DEF SubmitReserve, Expire, GraceOver, Undo, ReapRead, rows
    <2> QED
      BY <1>3, <2>1
  <1>18. ASSUME NEW i \in Insts, RepairRead(i) \/ RepairWrite(i) \/ Rewrite(i) PROVE RowMoves
    <2>1. UNCHANGED <<status, row>>
      BY <1>18 DEF RepairRead, RepairWrite, Rewrite, EditStep, EditRead, EditSave, EditDrop, Reconciles, rows
    <2> QED
      BY <1>3, <2>1
  <1>19. CASE ScanPending \/ ReapCheck \/ Crash \/ Serve \/ UNCHANGED vars
    <2>1. UNCHANGED <<status, row>>
      BY <1>19 DEF ScanPending, ReapCheck, Crash, Serve, vars, rows
    <2> QED
      BY <1>3, <2>1
  <1> HIDE DEF Typed, TypeOK, Placed, RowMoves, Active, Terminal
  <1>20. ASSUME NEW w \in Workers, WorkerStep(w) PROVE RowMoves
    BY <1>6, <1>7, <1>8, <1>16, <1>20 DEF WorkerStep, Execute, Threads
  <1>21. ASSUME NEW h \in Helpers, HelperStep(h) PROVE RowMoves
    BY <1>16, <1>21 DEF HelperStep, Threads
  <1>22. ASSUME NEW w \in Threads, Finish(w) PROVE RowMoves
    BY <1>9, <1>16, <1>22 DEF Finish
  <1> QED
    BY <1>4, <1>5, <1>10, <1>11, <1>12, <1>13, <1>14, <1>15, <1>17, <1>18, <1>19, <1>20, <1>21, <1>22
    DEF Next, SchedulerStep, Cancel, CleanerStep, ReaperStep, Admission

\* What a cleanup writes never locks.
LEMMA RestoredFree ==
  ASSUME Typed, NEW t \in Tasks PROVE Restored(t) \notin Busy
  BY DEF Restored, Busy, Typed, TypeOK, Ops

LEMMA StepMovesInst ==
  ASSUME Typed, [Next]_vars, ~Admission PROVE InstMoves
  <1> USE DEF Typed, TypeOK, Placed, InstMoves, edits
  <1>1. CASE UNCHANGED <<inst, overwritten>>
    BY <1>1
  <1>2. ASSUME NEW w \in Workers, Succeeded(w) \/ Failed(w) PROVE InstMoves
    <2>1. w \in Threads /\ job[w] \in Tasks /\ row[job[w]].op \in Ops \ Destructive
      BY <1>2 DEF Succeeded, Failed, Threads
    <2>2. Reached(row[job[w]].op) \notin Busy /\ Fallback(row[job[w]].op) \notin Busy
      BY <2>1 DEF Reached, Fallback, Busy, Ops, Destructive
    <2>4. overwritten' = overwritten
      BY <1>2 DEF Succeeded, Failed
    <2>3. \E s : s \notin Busy /\ (inst' = inst \/ inst' = [inst EXCEPT ![row[job[w]].on] = s])
      BY <1>2, <2>2 DEF Succeeded, Failed
    <2> QED
      BY <2>3, <2>4
  <1>3. ASSUME NEW w \in Workers, NEW s \in BOOLEAN, Deleted(w, s) PROVE InstMoves
    BY <1>3 DEF Deleted, Busy
  <1>4. ASSUME NEW t \in Tasks, Undo(t) PROVE InstMoves
    BY <1>4, RestoredFree DEF Undo, Undone
  <1>5. ASSUME NEW i \in Insts, RepairWrite(i) PROVE InstMoves
    BY <1>5 DEF RepairWrite, Busy
  <1>9. ASSUME NEW i \in Insts, Rewrite(i) PROVE InstMoves
    BY <1>9 DEF Rewrite, EditStep, EditRead, EditSave, EditDrop, Reconciles
  <1>6. ASSUME NEW w \in Threads, NEW s \in BOOLEAN,
                \/ Register(w) \/ Unmark(w) \/ PreflightFail(w) \/ BeginCall(w) \/ FailFull(w) \/ Claim(w)
                \/ RequeueLost(w) \/ Unrecorded(w) \/ NotDeleted(w) \/ PostProcessed(w, s) \/ Release(w)
                \/ Commit(w)
         PROVE  InstMoves
    <2>1. UNCHANGED <<inst, overwritten>>
      BY <1>6 DEF Register, Unmark, PreflightFail, BeginCall, FailFull, Claim, RequeueLost, Unrecorded,
                  NotDeleted, PostProcessed, Release, Commit
    <2> QED
      BY <1>1, <2>1
  <1>7. ASSUME NEW t \in Tasks, NEW a \in BOOLEAN,
                \/ SubmitReserve(t) \/ Expire(t) \/ GraceOver(t) \/ Finalize(t) \/ ReapRead(t)
                \/ CancelUnstarted(t, a) \/ CancelStarted(t, a)
         PROVE  InstMoves
    <2>1. UNCHANGED <<inst, overwritten>>
      BY <1>7 DEF SubmitReserve, Expire, GraceOver, Finalize, ReapRead, CancelUnstarted, CancelStarted
    <2> QED
      BY <1>1, <2>1
  <1>8. CASE \/ ScanPending \/ SubmitClaim \/ SubmitRequeue \/ ReapCheck \/ ReapOrphan \/ ReapHeld \/ ReapDead
             \/ Crash \/ Reboot \/ Serve \/ (\E i \in Insts : RepairRead(i)) \/ UNCHANGED vars
    <2>1. UNCHANGED <<inst, overwritten>>
      BY <1>8 DEF ScanPending, SubmitClaim, SubmitRequeue, ReapCheck, ReapOrphan, ReapHeld, ReapDead,
                  Crash, Reboot, Serve, RepairRead, vars
    <2> QED
      BY <1>1, <2>1
  <1> HIDE DEF Typed, TypeOK, Placed, InstMoves
  <1>20. ASSUME NEW w \in Workers, WorkerStep(w) PROVE InstMoves
    BY <1>2, <1>3, <1>6, <1>20 DEF WorkerStep, Execute, Threads
  <1>21. ASSUME NEW h \in Helpers, HelperStep(h) PROVE InstMoves
    BY <1>6, <1>21 DEF HelperStep, Threads
  <1>22. ASSUME NEW w \in Threads, Finish(w) PROVE InstMoves
    BY <1>6, <1>22 DEF Finish
  <1> QED
    BY <1>4, <1>5, <1>7, <1>8, <1>9, <1>20, <1>21, <1>22
    DEF Next, SchedulerStep, Cancel, CleanerStep, ReaperStep, Admission

LEMMA StepMovesUndoing ==
  ASSUME Typed, RecordInv, [Next]_vars, ~Admission PROVE UndoMoves
  <1> USE DEF Typed, TypeOK, Placed, UndoMoves
  <1>0. \A n \in Nat : n + 1 > n /\ n + 1 > 0 /\ n >= n
    OBVIOUS
  <1>1. CASE UNCHANGED <<crashes, undoing>> /\ faults' >= faults
             /\ \A t \in Tasks : status'[t] \in {"cancelled", "timeout"} => status'[t] = status[t]
    BY <1>0, <1>1
  <1>2. ASSUME NEW w \in Workers, FailFull(w) PROVE UndoMoves
    <2>1. /\ job[w] \in Tasks /\ status[job[w]] # "absent" /\ UNCHANGED <<crashes, faults>>
          /\ \E s \in BOOLEAN : CompleteTask(job[w], s)
      BY <1>2 DEF FailFull, RecordInv, Known, Threads, env
    <2>2. \/ UNCHANGED <<status, undoing>>
          \/ \E s \in Terminal : /\ status[job[w]] \in Active /\ status' = [status EXCEPT ![job[w]] = s]
                                 /\ undoing' = undoing \/ undoing' = undoing \cup {job[w]}
                                 /\ s \in {"cancelled", "timeout"} => job[w] \in undoing'
      BY <2>1, CompleteTaskMoves, OutcomeTerminal
    <2> QED
      BY <1>0, <2>1, <2>2
  <1>3. ASSUME NEW w \in Threads, Commit(w) PROVE UndoMoves
    <2>1. job[w] \in Tasks /\ status[job[w]] # "absent" /\ crashes' = crashes
      BY <1>3 DEF Commit, RecordInv, Known
    <2>2. CASE NoFault /\ CompleteTask(job[w], ok[w])
      <3>1. \/ UNCHANGED <<status, undoing>>
            \/ \E s \in Terminal : /\ status[job[w]] \in Active /\ status' = [status EXCEPT ![job[w]] = s]
                                   /\ undoing' = undoing \/ undoing' = undoing \cup {job[w]}
                                   /\ s \in {"cancelled", "timeout"} => job[w] \in undoing'
        BY <2>1, <2>2, CompleteTaskMoves, OutcomeTerminal
      <3> QED
        BY <1>0, <2>1, <2>2, <3>1 DEF NoFault
    <2>3. CASE Fault /\ UNCHANGED undoing
      BY <1>0, <2>1, <2>3 DEF Fault
    <2> QED
      BY <1>3, <2>2, <2>3 DEF Commit
  <1>4. ASSUME NEW t \in Tasks, NEW a \in BOOLEAN, CancelUnstarted(t, a) PROVE UndoMoves
    BY <1>0, <1>4 DEF CancelUnstarted, Active, Terminal, env
  <1>5. ASSUME NEW t \in Tasks, Finalize(t) PROVE UndoMoves
    BY <1>0, <1>5 DEF Finalize, Active, Terminal, env
  <1>6. CASE ReapDead
    BY <1>0, <1>6 DEF ReapDead, Active, Terminal, env
  <1>7. ASSUME NEW t \in Tasks, Undo(t) PROVE UndoMoves
    BY <1>0, <1>7 DEF Undo, rows, env
  <1>8. CASE Crash
    <2>1. crashes' = crashes + 1 /\ undoing' = {} /\ UNCHANGED <<status, faults>>
      BY <1>8 DEF Crash, rows
    <2> QED
      BY <1>0, <2>1
  <1>9. CASE Reboot
    <2>1. crashes > 0 /\ UNCHANGED <<crashes, faults>>
      BY <1>9 DEF Reboot, RecordInv, DownAfterCrash
    <2>2. \A t \in undoing' : status[t] \in Active /\ status'[t] \in Terminal
      BY <1>9 DEF Reboot, Interrupted, InFlight, Active, Terminal
    <2> QED
      BY <1>0, <2>1, <2>2
  <1>10. CASE \/ SubmitClaim \/ SubmitRequeue \/ \E w \in Workers : Claim(w) \/ RequeueLost(w)
    <2>1. UNCHANGED <<crashes, undoing>> /\ (NoFault \/ Fault)
      BY <1>10 DEF SubmitClaim, SubmitRequeue, Claim, RequeueLost, Requeue
    <2>2. \A t \in Tasks : status'[t] = status[t] \/ status'[t] \in Active
      BY <1>10 DEF SubmitClaim, SubmitRequeue, Claim, RequeueLost, Requeue, Active, Threads
    <2> QED
      BY <1>0, <1>1, <2>1, <2>2 DEF NoFault, Fault, Active
  <1>11. CASE ReapOrphan \/ ReapHeld \/ \E t \in Tasks, a \in BOOLEAN : CancelStarted(t, a)
    <2>1. UNCHANGED <<crashes, faults, undoing>>
      BY <1>11 DEF ReapOrphan, ReapHeld, CancelStarted, env
    <2>2. \A t \in Tasks : status'[t] = status[t] \/ status'[t] \in Active
      BY <1>11 DEF ReapOrphan, ReapHeld, CancelStarted, Active
    <2> QED
      BY <1>0, <1>1, <2>1, <2>2 DEF Active
  <1>12. ASSUME NEW w \in Threads, NEW s \in BOOLEAN,
                \/ Register(w) \/ Unmark(w) \/ PreflightFail(w) \/ BeginCall(w) \/ Succeeded(w)
                \/ Failed(w) \/ Unrecorded(w) \/ NotDeleted(w) \/ Deleted(w, s)
                \/ PostProcessed(w, s) \/ Release(w)
         PROVE  UndoMoves
    <2>1. UNCHANGED <<status, crashes, undoing>> /\ (NoFault \/ Fault)
      BY <1>12 DEF Register, Unmark, PreflightFail, BeginCall, Succeeded, Failed, Unrecorded, NotDeleted,
                   Deleted, PostProcessed, Release, rows, env, NoFault
    <2> QED
      BY <1>0, <1>1, <2>1 DEF NoFault, Fault
  <1>13. CASE \/ ScanPending \/ ReapCheck \/ Serve \/ UNCHANGED vars
              \/ (\E t \in Tasks : SubmitReserve(t) \/ Expire(t) \/ GraceOver(t) \/ ReapRead(t))
              \/ (\E i \in Insts : RepairRead(i) \/ RepairWrite(i) \/ Rewrite(i))
    <2>1. UNCHANGED <<status, crashes, undoing>> /\ (NoFault \/ Fault)
      BY <1>13 DEF ScanPending, ReapCheck, Serve, SubmitReserve, Expire, GraceOver, ReapRead, RepairRead,
                   RepairWrite, Rewrite, EditStep, EditRead, EditSave, EditDrop, Reconciles, vars, rows, env, NoFault
    <2> QED
      BY <1>0, <1>1, <2>1 DEF NoFault, Fault
  <1> HIDE DEF Typed, TypeOK, Placed, UndoMoves
  <1>20. ASSUME NEW w \in Workers, WorkerStep(w) PROVE UndoMoves
    BY <1>2, <1>10, <1>12, <1>20 DEF WorkerStep, Execute, Threads
  <1>21. ASSUME NEW h \in Helpers, HelperStep(h) PROVE UndoMoves
    BY <1>12, <1>21 DEF HelperStep, Threads
  <1>22. ASSUME NEW w \in Threads, Finish(w) PROVE UndoMoves
    BY <1>3, <1>12, <1>22 DEF Finish
  <1> QED
    BY <1>4, <1>5, <1>6, <1>7, <1>8, <1>9, <1>10, <1>11, <1>13, <1>20, <1>21, <1>22
    DEF Next, SchedulerStep, Cancel, CleanerStep, ReaperStep, Admission

\* What is in a thread's hands, in the queue or with the scheduler comes from
\* there, or was read from a row.
LEMMA KnownNext ==
  ASSUME Typed, Known, [Next]_vars PROVE Known'
  <1> USE DEF Typed, TypeOK, Placed
  <1>1. ASSUME NEW t \in Tasks, NEW op \in Requests, NEW i \in Insts, NEW byAdmin \in BOOLEAN,
               CreateTask(t, op, i, byAdmin) PROVE Known'
    BY <1>1 DEF CreateTask, Known, threads, scheduler
  <1> SUFFICES ASSUME ~Admission PROVE Known'
    BY <1>1 DEF Admission
  <1>2. \A t \in Tasks : status[t] # "absent" => status'[t] # "absent"
    BY StepMovesRows DEF RowMoves, Active, Terminal
  <1>3. /\ \A w \in Threads : pc[w] # "idle" => job[w] \in Tasks /\ status'[job[w]] # "absent"
        /\ \A n \in 1..Len(chan) : chan[n] \in Tasks /\ status'[chan[n]] # "absent"
        /\ \A t \in scan : status'[t] # "absent"
        /\ subpc # "idle" => status'[cur] # "absent"
    BY <1>2 DEF Known
  <1>4. ASSUME NEW w \in Threads, \A v \in Threads \ {w} : pc'[v] = pc[v], pc[w] # "idle", job' = job
        PROVE  \A v \in Threads : pc'[v] # "idle" => status'[job'[v]] # "absent"
    BY <1>3, <1>4
  <1>5. CASE UNCHANGED threads /\ UNCHANGED chan /\ UNCHANGED scheduler
    BY <1>3, <1>5 DEF Known, threads, scheduler
  <1>6. CASE ScanPending \/ \E t \in Tasks : SubmitReserve(t)
    BY <1>2, <1>3, <1>6 DEF ScanPending, SubmitReserve, Known, threads
  <1>7. CASE SubmitClaim
    <2>1. \A n \in 1..Len(chan') : status'[chan'[n]] # "absent"
      <3>1. chan' = chan \/ chan' = Append(chan, cur)
        BY <1>7 DEF SubmitClaim
      <3>2. subpc # "idle" /\ cur \in Tasks /\ chan \in Seq(Tasks)
        BY <1>7 DEF SubmitClaim
      <3> HIDE DEF Typed, TypeOK, Placed
      <3> QED
        BY <1>3, <3>1, <3>2, AppendElements
    <2> QED
      BY <1>3, <1>7, <2>1 DEF SubmitClaim, Submitted, Known, threads
  <1>8. CASE SubmitRequeue
    BY <1>3, <1>8 DEF SubmitRequeue, Submitted, Known, threads
  <1>9. ASSUME NEW w \in Workers, Register(w) PROVE Known'
    <2>1. chan # <<>> /\ chan' = Tail(chan) /\ Head(chan) = chan[1] /\ 1 \in 1..Len(chan)
      BY <1>9 DEF Register
    <2>2. \A n \in 1..Len(chan') : status'[chan'[n]] # "absent"
      BY <1>3, <2>1, TailElements
    <2>3. \/ UNCHANGED threads
          \/ \E place \in {"full", "unmark"} : Take(w, chan[1], place)
      BY <1>9, <2>1 DEF Register
    <2>4. \A v \in Threads : pc'[v] # "idle" => status'[job'[v]] # "absent"
      <3>1. CASE UNCHANGED threads
        BY <1>3, <3>1 DEF threads
      <3>2. ASSUME NEW place \in {"full", "unmark"}, Take(w, chan[1], place),
                   NEW v \in Threads, pc'[v] # "idle"
            PROVE  status'[job'[v]] # "absent"
        <4>1. CASE v = w
          <5>1. job'[v] = chan[1]
            BY <3>2, <4>1 DEF Take
          <5> QED
            BY <1>3, <2>1, <5>1
        <4>2. CASE v # w
          <5>1. pc'[v] = pc[v] /\ job'[v] = job[v]
            BY <3>2, <4>2 DEF Take
          <5> QED
            BY <1>3, <3>2, <5>1
        <4> QED
          BY <4>1, <4>2
      <3> QED
        BY <2>3, <3>1, <3>2
    <2> QED
      BY <1>3, <1>9, <2>2, <2>4 DEF Register, Known, scheduler
  <1>10. ASSUME NEW w \in Workers, Succeeded(w) PROVE Known'
    <2>1. pc[w] # "idle" /\ w \in Threads /\ UNCHANGED <<chan, scan, cur, subpc>>
      BY <1>10 DEF Succeeded, Threads, scheduler
    <2>2. \/ GotoWith(w, "commit", TRUE)
          \/ \E h \in Helpers : /\ pc' = [pc EXCEPT ![w] = "idle", ![h] = "post"]
                                /\ job' = [job EXCEPT ![w] = NoTask, ![h] = job[w]]
      BY <1>10 DEF Succeeded
    <2>3. \A v \in Threads : pc'[v] # "idle" => status'[job'[v]] # "absent"
      <3>1. CASE GotoWith(w, "commit", TRUE)
        BY <1>3, <2>1, <3>1 DEF GotoWith
      <3>2. ASSUME NEW h \in Helpers, pc' = [pc EXCEPT ![w] = "idle", ![h] = "post"],
                   job' = [job EXCEPT ![w] = NoTask, ![h] = job[w]], NEW v \in Threads, pc'[v] # "idle"
            PROVE  status'[job'[v]] # "absent"
        <4>1. CASE v = h
          <5>1. job'[h] = job[w]
            BY <2>1, <3>2 DEF Threads
          <5> QED
            BY <1>3, <2>1, <4>1, <5>1
        <4>2. CASE v # h
          <5>1. v # w /\ pc'[v] = pc[v] /\ job'[v] = job[v]
            BY <2>1, <3>2, <4>2
          <5> QED
            BY <1>3, <3>2, <5>1
        <4> QED
          BY <4>1, <4>2
      <3> QED
        BY <2>2, <3>1, <3>2
    <2> QED
      BY <1>3, <2>1, <2>3 DEF Known
  <1>11. ASSUME NEW w \in Threads, NEW s \in BOOLEAN,
                \/ Unmark(w) \/ PreflightFail(w) \/ BeginCall(w) \/ Claim(w) \/ RequeueLost(w)
                \/ Failed(w) \/ Unrecorded(w) \/ NotDeleted(w) \/ Deleted(w, s)
                \/ PostProcessed(w, s) \/ Commit(w)
         PROVE  Known'
    <2>1. pc[w] # "idle" /\ job' = job /\ UNCHANGED <<chan, scheduler>>
      BY <1>11 DEF Unmark, PreflightFail, BeginCall, Claim, RequeueLost, Failed, Unrecorded, NotDeleted,
                   Deleted, PostProcessed, Commit, Goto, GotoWith
    <2>2. \E place : pc' = [pc EXCEPT ![w] = place]
      BY <1>11 DEF Unmark, PreflightFail, BeginCall, Claim, RequeueLost, Failed, Unrecorded, NotDeleted,
                   Deleted, PostProcessed, Commit, Goto, GotoWith
    <2> QED
      BY <1>3, <1>4, <2>1, <2>2 DEF Known, scheduler
  <1>12. ASSUME NEW w \in Threads, FailFull(w) \/ Release(w) PROVE Known'
    BY <1>3, <1>12 DEF FailFull, Release, Idle, Known, scheduler
  <1>13. CASE \/ (\E t \in Tasks : \/ Expire(t) \/ GraceOver(t) \/ Finalize(t) \/ Undo(t) \/ ReapRead(t)
                                   \/ \E a \in BOOLEAN : CancelUnstarted(t, a) \/ CancelStarted(t, a))
              \/ ReapCheck \/ ReapOrphan \/ ReapHeld \/ ReapDead \/ Reboot \/ Serve \/ UNCHANGED vars
              \/ (\E i \in Insts : RepairRead(i) \/ RepairWrite(i) \/ Rewrite(i))
    <2>1. UNCHANGED threads /\ UNCHANGED chan /\ UNCHANGED scheduler
      BY <1>13 DEF Expire, GraceOver, Finalize, Undo, ReapRead, CancelUnstarted, CancelStarted,
                   ReapCheck, ReapOrphan, ReapHeld, ReapDead, Reboot, Serve, RepairRead, RepairWrite,
                   Rewrite, EditStep, EditRead, EditSave, EditDrop, Reconciles, vars
    <2> QED
      BY <1>5, <2>1
  <1>14. CASE Crash
    BY <1>14 DEF Crash, Known
  <1> HIDE DEF Typed, TypeOK, Placed, Known
  <1>20. ASSUME NEW w \in Workers, WorkerStep(w) PROVE Known'
    BY <1>9, <1>10, <1>11, <1>12, <1>20 DEF WorkerStep, Execute, Threads
  <1>21. ASSUME NEW h \in Helpers, HelperStep(h) PROVE Known'
    BY <1>11, <1>21 DEF HelperStep, Threads
  <1>22. ASSUME NEW w \in Threads, Finish(w) PROVE Known'
    BY <1>11, <1>12, <1>22 DEF Finish
  <1> QED
    BY <1>6, <1>7, <1>8, <1>13, <1>14, <1>20, <1>21, <1>22
    DEF Next, SchedulerStep, Cancel, CleanerStep, ReaperStep, Admission

LEMMA RecordInit == Init => RecordInv
  BY DEF Init, RecordInv, Known, Ordered, DownAfterCrash, UndoingEnded

LEMMA RecordNext ==
  ASSUME Typed, RecordInv, [Next]_vars PROVE RecordInv'
  <1> USE DEF Typed, TypeOK
  <1>1. Known'
    BY KnownNext DEF RecordInv
  <1>2. DownAfterCrash'
    <2>1. CASE UNCHANGED <<mode, crashes>>
      BY <2>1 DEF RecordInv, DownAfterCrash
    <2>2. CASE Crash \/ Reboot \/ Serve
      BY <2>2 DEF Crash, Reboot, Serve, RecordInv, DownAfterCrash
    <2>3. ASSUME NEW w \in Threads, WorkerStep(w) \/ HelperStep(w) \/ Finish(w)
          PROVE  UNCHANGED <<mode, crashes>>
      BY <2>3 DEF WorkerStep, Execute, HelperStep, Finish, Register, FailFull, Unmark, Claim, RequeueLost,
                  PreflightFail, BeginCall, Succeeded, Failed, Unrecorded, NotDeleted, Deleted,
                  PostProcessed, Commit, Release, env
    <2>4. ASSUME NEW t \in Tasks, Expire(t) \/ Cancel(t) \/ CleanerStep(t) \/ Undo(t)
          PROVE  UNCHANGED <<mode, crashes>>
      BY <2>4 DEF Expire, Cancel, CancelUnstarted, CancelStarted, CleanerStep, GraceOver, Finalize, Undo, env
    <2>5. ASSUME Admission \/ SchedulerStep \/ ReaperStep \/ UNCHANGED vars
                 \/ \E i \in Insts : RepairRead(i) \/ RepairWrite(i) \/ Rewrite(i)
          PROVE  UNCHANGED <<mode, crashes>>
      BY <2>5 DEF Admission, CreateTask, SchedulerStep, ScanPending, SubmitReserve, SubmitClaim, SubmitRequeue,
                  ReaperStep, ReapRead, ReapCheck, ReapOrphan, ReapHeld, ReapDead, RepairRead, RepairWrite,
                  Rewrite, EditStep, EditRead, EditSave, EditDrop, Reconciles,
                  vars, env
    <2> QED
      BY <2>1, <2>2, <2>3, <2>4, <2>5 DEF Next, Admission, Threads
  <1>3. CASE Admission
    <2>1. PICK t \in Tasks, op \in Requests, i \in Insts, byAdmin \in BOOLEAN : CreateTask(t, op, i, byAdmin)
      BY <1>3 DEF Admission
    <2>2. /\ status[t] = "absent" /\ status' = [status EXCEPT ![t] = "pending"] /\ undoing' = undoing
          /\ \A u \in Tasks : u < t => status[u] # "absent"
      BY <2>1 DEF CreateTask
    <2>3. Ordered' /\ UndoingEnded'
      BY <2>2 DEF RecordInv, Ordered, UndoingEnded, Terminal, Tasks
    <2> QED
      BY <1>1, <1>2, <2>3 DEF RecordInv
  <1>4. CASE ~Admission
    <2>1. RowMoves /\ UndoMoves
      BY <1>4, StepMovesRows, StepMovesUndoing DEF RecordInv
    <2>0. \A t \in Tasks : status'[t] = "absent" <=> status[t] = "absent"
      BY <2>1 DEF RowMoves, Active, Terminal
    <2>2. Ordered'
      BY <2>0 DEF RecordInv, Ordered
    <2>3. UndoingEnded'
      BY <2>1 DEF RowMoves, UndoMoves, RecordInv, UndoingEnded, Active, Terminal
    <2> QED
      BY <1>1, <1>2, <2>2, <2>3 DEF RecordInv
  <1> QED
    BY <1>3, <1>4

LEMMA RecordAlways == Spec => [](Typed /\ RecordInv)
  <1>1. Typed /\ RecordInv /\ [Next]_vars => RecordInv'
    BY RecordNext
  <1> QED
    BY <1>1, RecordInit, TypedAlways, PTL DEF Spec

\* What is cancelled or timed out without a fault is in the hands of its cleanup,
\* and the cleanup unlocks; nothing but admission locks again.
LEMMA UnlocksNext ==
  ASSUME Typed, RecordInv, CancelledUnlocks, [Next]_vars PROVE CancelledUnlocks'
  <1> USE DEF Typed, TypeOK
  <1>1. ASSUME NEW u \in Tasks, NEW op \in Requests, NEW i \in Insts, NEW byAdmin \in BOOLEAN,
               CreateTask(u, op, i, byAdmin) PROVE CancelledUnlocks'
    <2>1. /\ status[u] = "absent" /\ row'[u].on = i /\ UNCHANGED <<crashes, faults, undoing>>
          /\ status' = [status EXCEPT ![u] = "pending"]
          /\ \A t \in Tasks \ {u} : row'[t] = row[t]
          /\ \A j \in Insts \ {i} : inst'[j] = inst[j]
          /\ overwritten' = overwritten \ {i}
      BY <1>1, RequestsAssumption DEF CreateTask, env
    <2>2. \A t \in Tasks : status[t] # "absent" => t < u
      BY <2>1 DEF RecordInv, Ordered, Tasks
    <2> SUFFICES ASSUME NEW t \in Tasks, crashes' = 0, faults' = 0, status'[t] \in {"cancelled", "timeout"}, row'[t].on \notin overwritten',
                        \A v \in Tasks : v > t /\ status'[v] # "absent" => row'[v].on # row'[t].on
                 PROVE  inst'[row'[t].on] # Transition(row'[t].op) \/ t \in undoing'
      BY DEF CancelledUnlocks
    <2>3. t # u /\ status[t] = status'[t] /\ row'[t] = row[t] /\ u > t
      BY <2>1, <2>2, RequestsAssumption DEF Tasks
    <2>4. row[t].on # i
      BY <2>1, <2>3
    <2>5. \A v \in Tasks : v > t /\ status[v] # "absent" => row[v].on # row[t].on
      BY <2>1, <2>3
    <2>6. row[t].on \notin overwritten /\ row[t].on \in Insts
      BY <2>1, <2>3, <2>4
    <2>7. inst'[row[t].on] = inst[row[t].on]
      BY <2>1, <2>4, <2>6
    <2>8. inst[row[t].on] # Transition(row[t].op) \/ t \in undoing
      BY <2>1, <2>3, <2>5, <2>6 DEF CancelledUnlocks
    <2> QED
      BY <2>1, <2>3, <2>7, <2>8
  <1>2. CASE ~Admission
    <2>1. RowMoves /\ UndoMoves /\ InstMoves
      BY <1>2, StepMovesRows, StepMovesUndoing, StepMovesInst DEF RecordInv
    <2>2. row' = row /\ \A t \in Tasks : status'[t] = "absent" <=> status[t] = "absent"
      BY <2>1 DEF RowMoves, Active, Terminal
    <2> SUFFICES ASSUME NEW t \in Tasks, crashes' = 0, faults' = 0, status'[t] \in {"cancelled", "timeout"}, row'[t].on \notin overwritten',
                        \A v \in Tasks : v > t /\ status'[v] # "absent" => row'[v].on # row'[t].on
                 PROVE  inst'[row'[t].on] # Transition(row'[t].op) \/ t \in undoing'
      BY DEF CancelledUnlocks
    <2>3. crashes = 0 /\ faults = 0
      BY <2>1 DEF UndoMoves
    <2>4. row'[t] = row[t] /\ row[t].on \in Insts /\ row[t].op \in Ops
      BY <2>2
    <2>5. Transition(row[t].op) \in Busy
      BY <2>4 DEF Transition, Busy, Ops
    <2>6. StillOwner(t)
      BY <2>2 DEF StillOwner
    <2>10. row[t].on \notin overwritten'  /\ row[t].on \notin overwritten
      BY <2>1, <2>4 DEF InstMoves
    <2>7. CASE status'[t] # status[t]
      BY <2>1, <2>7 DEF UndoMoves
    <2>8. CASE status'[t] = status[t] /\ t \notin undoing
      <3>1. inst[row[t].on] # Transition(row[t].op)
        BY <2>2, <2>3, <2>8, <2>10 DEF CancelledUnlocks
      <3> QED
        BY <2>1, <2>4, <2>5, <2>10, <3>1 DEF InstMoves
    <2>9. CASE t \in undoing /\ t \notin undoing'
      <3>1. inst' = Undone(t)
        BY <2>1, <2>9 DEF UndoMoves
      <3>2. Restored(t) \notin Busy
        BY RestoredFree
      <3> QED
        BY <2>4, <2>5, <2>6, <3>1, <3>2 DEF Undone
    <2> QED
      BY <2>7, <2>8, <2>9
  <1> QED
    BY <1>1, <1>2 DEF Admission

\* A task that is cancelled or times out unlocks its instance, for any number of
\* tasks and goroutines, full context manager or not, as long as nothing crashed,
\* no database call failed and no edit wrote the status.
THEOREM CancelledUnlocksAlways == Spec => []CancelledUnlocks
  <1>1. Init => CancelledUnlocks
    BY DEF Init, CancelledUnlocks
  <1>2. Typed /\ RecordInv /\ CancelledUnlocks /\ [Next]_vars => CancelledUnlocks'
    BY UnlocksNext
  <1> QED
    BY <1>1, <1>2, RecordAlways, PTL DEF Spec

-----------------------------------------------------------------------------
(* Past the point of no return.  Only the latest task of an instance can be open; *)
(* the repair job that finds what it read writes "stopped" over "deleting".       *)

LastOpen == \A t, u \in Tasks :
    t < u /\ status[u] # "absent" /\ row[t].on = row[u].on => status[t] \notin Active

Latest(t) == \A u \in Tasks : u > t /\ status[u] # "absent" => row[u].on # row[t].on

\* What a delete leaves its instance in, from its admission on, where nothing was
\* overwritten; one that gave up before its destructive phase may put it back.
DeleteLocks == \A t \in Tasks :
    /\ status[t] # "absent" /\ row[t].op \in Destructive /\ Latest(t)
    /\ status[t] \in Active \/ phase[t]
    /\ row[t].on \notin overwritten
    => inst[row[t].on] \in {"deleting", "deleted", "error", "stopped"}

PastInv == LastOpen /\ DeleteLocks

\* Who writes an instance other than at admission: an open task, a cleanup, the
\* repair job, or a write from an older read.
Writes(i) ==
    \/ \E t \in Tasks : /\ row[t].on = i /\ status[t] \in Active
                        /\ IF row[t].op \in Destructive THEN inst'[i] \in {"deleted", "error"}
                                                        ELSE inst[i] = Transition(row[t].op)
    \/ \E t \in undoing : row[t].on = i /\ inst' = Undone(t)
    \/ inst[i] = "deleted" /\ inst'[i] = "deleted"
    \/ inst[i] \in Busy /\ inst'[i] = RepairsTo(inst[i])
    \/ i \in overwritten'

WriteMoves ==
    /\ \A i \in Insts : inst'[i] = inst[i] \/ Writes(i)
    /\ \A t \in Tasks : phase'[t] = phase[t] \/ status[t] = "running"

LEMMA StepMovesWrites ==
  ASSUME Typed, HoldInv, [Next]_vars, ~Admission PROVE WriteMoves
  <1> USE DEF Typed, TypeOK, Placed, WriteMoves
  <1>1. CASE UNCHANGED <<inst, phase>>
    BY <1>1
  <1>2. ASSUME NEW w \in Workers, Succeeded(w) \/ Failed(w) PROVE WriteMoves
    <2>1. /\ w \in Threads /\ job[w] \in Tasks /\ row[job[w]].op \notin Destructive
          /\ UNCHANGED phase
      BY <1>2 DEF Succeeded, Failed, Threads, rows, jobs
    <2>2. \/ inst' = inst
          \/ /\ status[job[w]] \in Active /\ inst[row[job[w]].on] = Transition(row[job[w]].op)
             /\ \A i \in Insts \ {row[job[w]].on} : inst'[i] = inst[i]
      BY <1>2 DEF Succeeded, Failed, MayRecord, Active
    <2> QED
      BY <2>1, <2>2 DEF Writes
  <1>3. ASSUME NEW w \in Workers, NEW s \in BOOLEAN, Deleted(w, s) PROVE WriteMoves
    <2>1. /\ w \in Threads /\ job[w] \in Tasks /\ row[job[w]].op \in Destructive
          /\ UNCHANGED phase
      BY <1>3 DEF Deleted, Threads, rows, jobs
    <2>2. status[job[w]] \in Active
      BY <1>3, <2>1 DEF Deleted, HoldInv, Begun, Executing, Active
    <2>3. \E x \in {"deleted", "error"} : inst' = [inst EXCEPT ![row[job[w]].on] = x]
      BY <1>3 DEF Deleted
    <2> QED
      BY <2>1, <2>2, <2>3 DEF Writes
  <1>4. ASSUME NEW t \in Tasks, Undo(t) PROVE WriteMoves
    BY <1>4 DEF Undo, Undone, Writes, rows, jobs
  <1>5. ASSUME NEW i \in Insts, RepairWrite(i) PROVE WriteMoves
    BY <1>5 DEF RepairWrite, Stuck, Writes, rows
  <1>6. ASSUME NEW i \in Insts, RepairRead(i) PROVE WriteMoves
    BY <1>6 DEF RepairRead, rows
  <1>12. ASSUME NEW i \in Insts, Rewrite(i) PROVE WriteMoves
    BY <1>12 DEF Rewrite, EditStep, EditRead, EditSave, EditDrop, Reconciles, Writes, rows
  <1>7. ASSUME NEW w \in Workers, BeginCall(w) PROVE WriteMoves
    BY <1>7 DEF BeginCall, Threads, jobs
  <1>8. CASE Crash
    BY <1>8 DEF Crash, rows
  <1>9. ASSUME NEW w \in Threads, NEW s \in BOOLEAN,
                \/ Register(w) \/ Unmark(w) \/ PreflightFail(w) \/ FailFull(w) \/ Claim(w)
                \/ RequeueLost(w) \/ Unrecorded(w) \/ NotDeleted(w) \/ PostProcessed(w, s) \/ Release(w)
                \/ Commit(w)
         PROVE  WriteMoves
    <2>1. UNCHANGED <<inst, phase>>
      BY <1>9 DEF Register, Unmark, PreflightFail, FailFull, Claim, RequeueLost, Unrecorded,
                  NotDeleted, PostProcessed, Release, Commit, rows, jobs
    <2> QED
      BY <1>1, <2>1
  <1>10. ASSUME NEW t \in Tasks, NEW a \in BOOLEAN,
                \/ SubmitReserve(t) \/ Expire(t) \/ GraceOver(t) \/ Finalize(t) \/ ReapRead(t)
                \/ CancelUnstarted(t, a) \/ CancelStarted(t, a)
         PROVE  WriteMoves
    <2>1. UNCHANGED <<inst, phase>>
      BY <1>10 DEF SubmitReserve, Expire, GraceOver, Finalize, ReapRead, CancelUnstarted, CancelStarted,
                   rows, jobs
    <2> QED
      BY <1>1, <2>1
  <1>11. CASE \/ ScanPending \/ SubmitClaim \/ SubmitRequeue \/ ReapCheck \/ ReapOrphan \/ ReapHeld \/ ReapDead
             \/ Reboot \/ Serve \/ UNCHANGED vars
    <2>1. UNCHANGED <<inst, phase>>
      BY <1>11 DEF ScanPending, SubmitClaim, SubmitRequeue, ReapCheck, ReapOrphan, ReapHeld, ReapDead,
                  Reboot, Serve, vars, rows, jobs
    <2> QED
      BY <1>1, <2>1
  <1> HIDE DEF Typed, TypeOK, Placed, WriteMoves
  <1>20. ASSUME NEW w \in Workers, WorkerStep(w) PROVE WriteMoves
    BY <1>2, <1>3, <1>7, <1>9, <1>20 DEF WorkerStep, Execute, Threads
  <1>21. ASSUME NEW h \in Helpers, HelperStep(h) PROVE WriteMoves
    BY <1>9, <1>21 DEF HelperStep, Threads
  <1>22. ASSUME NEW w \in Threads, Finish(w) PROVE WriteMoves
    BY <1>9, <1>22 DEF Finish
  <1> QED
    BY <1>4, <1>5, <1>6, <1>8, <1>10, <1>11, <1>12, <1>20, <1>21, <1>22
    DEF Next, SchedulerStep, Cancel, CleanerStep, ReaperStep, Admission

LEMMA PastNext ==
  ASSUME Typed, RecordInv, HoldInv, PastInv, [Next]_vars PROVE PastInv'
  <1> USE DEF Typed, TypeOK
  <1>1. ASSUME NEW u \in Tasks, NEW op \in Requests, NEW i \in Insts, NEW byAdmin \in BOOLEAN,
               CreateTask(u, op, i, byAdmin) PROVE PastInv'
    <2>1. /\ status[u] = "absent" /\ UNCHANGED <<undoing, phase>>
          /\ status' = [status EXCEPT ![u] = "pending"]
          /\ row'[u].on = i /\ row'[u].op = op /\ \A t \in Tasks \ {u} : row'[t] = row[t]
          /\ inst' = [inst EXCEPT ![i] = Transition(op)]
          /\ overwritten' = overwritten \ {i}
          /\ \A t \in Tasks : row[t].on = i => status[t] \notin Active
      BY <1>1, RequestsAssumption DEF CreateTask, Admissible, OpenOn, rows, jobs
    <2>2. \A t \in Tasks : status[t] # "absent" => t < u /\ u > t
      BY <2>1 DEF RecordInv, Ordered, Tasks
    <2>3. LastOpen'
      BY <2>1, <2>2 DEF PastInv, LastOpen, Tasks
    <2>5. DeleteLocks'
      <3> SUFFICES ASSUME NEW t \in Tasks, status'[t] # "absent", row'[t].op \in Destructive, Latest(t)',
                          status'[t] \in Active \/ phase'[t], row'[t].on \notin overwritten'
                   PROVE  inst'[row'[t].on] \in {"deleting", "deleted", "error", "stopped"}
        BY DEF DeleteLocks
      <3>1. CASE t = u
        BY <2>1, <3>1 DEF Destructive, Transition
      <3>2. CASE t # u
        <4>1. status'[t] = status[t] /\ row'[t] = row[t] /\ u > t
          BY <2>1, <2>2, <3>2
        <4>2. row[t].on # i /\ Latest(t)
          BY <2>1, <4>1 DEF Latest
        <4> QED
          BY <2>1, <4>1, <4>2 DEF PastInv, DeleteLocks
      <3> QED
        BY <3>1, <3>2
    <2> QED
      BY <2>3, <2>5 DEF PastInv
  <1>2. CASE ~Admission
    <2>1. RowMoves /\ UndoMoves /\ InstMoves /\ WriteMoves
      BY <1>2, StepMovesRows, StepMovesUndoing, StepMovesInst, StepMovesWrites DEF RecordInv
    <2>2. /\ row' = row
          /\ \A t \in Tasks : /\ status'[t] = "absent" <=> status[t] = "absent"
                              /\ status'[t] \in Active => status[t] \in Active
      BY <2>1 DEF RowMoves, Active, Terminal
    <2>3. LastOpen'
      BY <2>2 DEF PastInv, LastOpen
    <2>6. DeleteLocks'
      <3> SUFFICES ASSUME NEW t \in Tasks, status'[t] # "absent", row'[t].op \in Destructive, Latest(t)',
                          status'[t] \in Active \/ phase'[t], row'[t].on \notin overwritten'
                   PROVE  inst'[row'[t].on] \in {"deleting", "deleted", "error", "stopped"}
        BY DEF DeleteLocks
      <3> DEFINE i == row[t].on
      <3>1. status[t] # "absent" /\ row[t].op = "delete" /\ Latest(t) /\ i \in Insts
        BY <2>2 DEF Latest, Destructive
      <3>2. status[t] \in Active \/ phase[t]
        BY <2>1, <2>2 DEF WriteMoves, Active
      <3>0. i \notin overwritten' /\ i \notin overwritten
        BY <2>1, <2>2 DEF InstMoves
      <3>3. inst[i] \in {"deleting", "deleted", "error", "stopped"}
        BY <3>0, <3>1, <3>2 DEF PastInv, DeleteLocks, Destructive
      <3>4. ASSUME NEW v \in Tasks, row[v].on = i, status[v] \in Active
            PROVE  v = t
        BY <3>1, <3>4 DEF PastInv, LastOpen, Latest, Active, Tasks
      <3>5. \A op \in Ops \ Destructive : inst[i] # Transition(op)
        BY <3>3 DEF Ops, Destructive, Transition
      <3>6. CASE inst'[i] = inst[i]
        BY <2>2, <3>3, <3>6
      <3>7. ASSUME NEW v \in Tasks, row[v].on = i, status[v] \in Active,
                   IF row[v].op \in Destructive THEN inst'[i] \in {"deleted", "error"}
                                                ELSE inst[i] = Transition(row[v].op)
            PROVE  inst'[i] \in {"deleting", "deleted", "error", "stopped"}
        BY <3>1, <3>4, <3>7 DEF Destructive
      <3>8. ASSUME NEW v \in undoing, row[v].on = i, inst' = Undone(v), inst'[i] # inst[i]
            PROVE  inst'[i] \in {"deleting", "deleted", "error", "stopped"}
        <4>1. v \in Tasks /\ inst[i] = Transition(row[v].op) /\ StillOwner(v)
          BY <3>8 DEF Undone
        <4>2. row[v].op \in Destructive
          BY <3>5, <4>1
        <4>3. status[v] \in Terminal
          BY <3>8 DEF RecordInv, UndoingEnded
        <4>4. v = t
          BY <3>1, <3>8, <4>1, <4>2, <4>3 DEF StillOwner, Latest, Terminal, Tasks
        <4>5. phase[t]
          BY <3>2, <4>3, <4>4 DEF Active, Terminal
        <4>6. inst'[i] = Restored(t) /\ Restored(t) = "error"
          BY <3>1, <3>8, <4>1, <4>4, <4>5 DEF Undone, Restored
        <4> QED
          BY <4>6
      <3>9. ASSUME \/ inst[i] = "deleted" /\ inst'[i] = "deleted"
                   \/ inst[i] \in Busy /\ inst'[i] = RepairsTo(inst[i])
            PROVE  inst'[i] \in {"deleting", "deleted", "error", "stopped"}
        BY <3>3, <3>9 DEF Busy, RepairsTo
      <3> QED
        BY <2>1, <2>2, <3>0, <3>1, <3>6, <3>7, <3>8, <3>9 DEF WriteMoves, Writes
    <2> QED
      BY <2>3, <2>6 DEF PastInv
  <1> QED
    BY <1>1, <1>2 DEF Admission

\* A delete that has passed its destructive phase never shows its instance running
\* again, whatever crashes, cancellations, operations that outlast the repair's threshold
\* and repairs cross it: as long as the context manager never fills up, and until a later
\* task is admitted, or an edit or a repair saves over a status it has not read.
THEOREM PastNoReturnAlways ==
  ASSUME Roomy PROVE Spec => []PastNoReturn
  <1>1. Init => HoldInv /\ PastInv
    BY HoldInit DEF Init, PastInv, LastOpen, DeleteLocks, Active
  <1>2. Typed /\ Typed' /\ HoldInv /\ [Next]_vars => HoldInv'
    BY HoldNext
  <1>3. Typed /\ RecordInv /\ HoldInv /\ PastInv /\ [Next]_vars => PastInv'
    BY PastNext
  <1>4. PastInv => PastNoReturn
    BY DEF PastInv, DeleteLocks, PastNoReturn, Latest
  <1> QED
    BY <1>1, <1>2, <1>3, <1>4, TypedAlways, RecordAlways, PTL DEF Spec

-----------------------------------------------------------------------------
(* The engine implements TaskLifecycle: each step is one of its steps on the row,  *)
(* with the tasks in somebody's hands, or leaves both alone.                      *)

LEMMA HandsStay ==
  ASSUME \A v \in Threads : /\ Executing(v)' <=> Executing(v)
                            /\ Executing(v) => job'[v] = job[v]
  PROVE  InHand' = InHand
  BY DEF InHand

\* The hands that hold a task are one thread's.
LEMMA HandsLeave ==
  ASSUME HoldInv, NEW w \in Threads, Executing(w), ~Executing(w)', job' = job,
         \A v \in Threads \ {w} : Executing(v)' <=> Executing(v)
  PROVE  job[w] \in InHand /\ InHand' = InHand \ {job[w]}
  <1>1. \A v \in Threads : Executing(v) /\ job[v] = job[w] => v = w
    BY DEF HoldInv, Owned, Holding, Executing
  <1> QED
    BY <1>1 DEF InHand

LEMMA LifecycleStep ==
  ASSUME Roomy, Typed, HoldInv, [Next]_vars
  PROVE  [Lifecycle!Next]_<<status, InHand>>
  <1> DEFINE Implemented == [Lifecycle!Next]_<<status, InHand>>
  <1> SUFFICES Implemented
    OBVIOUS
  <1> USE DEF Typed, TypeOK, Placed
  <1>0. (UNCHANGED threads => InHand' = InHand) /\ (status' = status /\ InHand' = InHand => Implemented)
    <2>1. UNCHANGED threads => InHand' = InHand
      BY HandsStay DEF Executing, threads
    <2> QED
      BY <2>1
  <1>1. ASSUME NEW t \in Tasks,
               \/ Lifecycle!Admit(t) \/ Lifecycle!Queue(t) \/ Lifecycle!Return(t) \/ Lifecycle!Begin(t)
               \/ Lifecycle!Ask(t) \/ Lifecycle!Drop(t) \/ Lifecycle!Leave(t) \/ Lifecycle!End(t)
        PROVE  Implemented
    BY <1>1 DEF Lifecycle!Next
  <1> HIDE DEF Implemented
  <1>2. ASSUME NEW t \in Tasks, NEW op \in Requests, NEW i \in Insts, NEW byAdmin \in BOOLEAN,
               CreateTask(t, op, i, byAdmin) PROVE Implemented
    BY <1>0, <1>1, <1>2 DEF CreateTask, Lifecycle!Admit, Lifecycle!Become
  <1>3. CASE SubmitClaim
    <2>1. cur \in Tasks /\ InHand' = InHand
      BY <1>0, <1>3 DEF SubmitClaim
    <2>2. status' = status \/ (status[cur] = "pending" /\ status' = [status EXCEPT ![cur] = "processing"])
      BY <1>3 DEF SubmitClaim
    <2>3. ASSUME NEW t \in Tasks, status[t] = "pending", status' = [status EXCEPT ![t] = "processing"]
          PROVE  Implemented
      BY <1>1, <2>1, <2>3 DEF Lifecycle!Queue, Lifecycle!Become
    <2> QED
      BY <1>0, <2>1, <2>2, <2>3
  <1>4. ASSUME NEW t \in Tasks, status' = status \/ (status[t] = "processing" /\ status' = [status EXCEPT ![t] = "pending"]),
               InHand' = InHand
        PROVE  Implemented
    BY <1>0, <1>1, <1>4 DEF Lifecycle!Return, Lifecycle!Become
  <1>5. CASE SubmitRequeue
    <2>1. cur \in Tasks /\ InHand' = InHand
      BY <1>0, <1>5 DEF SubmitRequeue
    <2> QED
      BY <1>4, <1>5, <2>1 DEF SubmitRequeue, Requeue
  <1>6. ASSUME NEW w \in Workers, RequeueLost(w) PROVE Implemented
    <2>1. w \in Threads /\ job[w] \in Tasks /\ InHand' = InHand
      BY <1>6, HandsStay DEF RequeueLost, Goto, Executing, Threads
    <2> QED
      BY <1>4, <1>6, <2>1 DEF RequeueLost, Requeue
  <1>7. CASE ReapOrphan
    BY <1>0, <1>4, <1>7 DEF ReapOrphan
  <1>8. ASSUME NEW w \in Workers, Register(w) PROVE Implemented
    <2>1. status' = status /\ pc[w] = "idle" /\ w \in Threads
      BY <1>8 DEF Register, rows, Threads
    <2>2. UNCHANGED threads \/ \E place \in {"full", "unmark"} : Take(w, Head(chan), place)
      BY <1>8 DEF Register
    <2>3. InHand' = InHand
      BY <1>0, <2>1, <2>2, HandsStay DEF Take, Executing
    <2> QED
      BY <1>0, <2>1, <2>3
  <1>9. ASSUME NEW w \in Workers, FailFull(w) PROVE Implemented
    BY <1>9 DEF FailFull, HoldInv, NeverFull, Threads
  <1>10. ASSUME NEW w \in Workers, Claim(w) PROVE Implemented
    <2>1. w \in Threads /\ job[w] \in Tasks /\ pc[w] = "claim" /\ job' = job
      BY <1>10 DEF Claim, Goto, Threads
    <2>2. CASE Claimable(job[w]) /\ status' = [status EXCEPT ![job[w]] = "running"]
      <3>1. Goto(w, "exec") \/ Goto(w, "requeue")
        BY <1>10 DEF Claim
      <3>2. InHand' = InHand \/ InHand' = InHand \cup {job[w]}
        <4>1. CASE Goto(w, "requeue")
          BY <2>1, <4>1, HandsStay DEF Goto, Executing
        <4>2. CASE Goto(w, "exec")
          <5>1. \A v \in Threads : Executing(v)' <=> Executing(v) \/ v = w
            BY <2>1, <4>2 DEF Goto, Executing
          <5> QED
            BY <2>1, <5>1 DEF InHand
        <4> QED
          BY <3>1, <4>1, <4>2
      <3> QED
        BY <1>1, <2>1, <2>2, <3>2 DEF Claimable, Lifecycle!Begin, Lifecycle!Open, Lifecycle!Become
    <2>3. CASE status' = status /\ Goto(w, "requeue")
      BY <1>0, <2>1, <2>3, HandsStay DEF Goto, Executing
    <2> QED
      BY <1>10, <2>2, <2>3 DEF Claim
  <1>11. ASSUME NEW w \in Workers, Succeeded(w) PROVE Implemented
    <2>1. status' = status /\ pc[w] = "call" /\ w \in Threads
      BY <1>11 DEF Succeeded, rows, Threads
    <2>2. CASE GotoWith(w, "commit", TRUE)
      BY <1>0, <2>1, <2>2, HandsStay DEF GotoWith, Executing
    <2>3. ASSUME NEW h \in Helpers, pc[h] = "idle", pc' = [pc EXCEPT ![w] = "idle", ![h] = "post"],
                 job' = [job EXCEPT ![w] = NoTask, ![h] = job[w]]
          PROVE  Implemented
      <3>1. h \in Threads /\ h # w
        BY <2>1, <2>3 DEF Threads
      <3>2. /\ pc'[h] = "post" /\ job'[h] = job[w] /\ pc'[w] = "idle"
            /\ \A v \in Threads \ {w, h} : pc'[v] = pc[v] /\ job'[v] = job[v]
        BY <2>1, <2>3, <3>1
      <3>3. Executing(h)' /\ ~Executing(h) /\ Executing(w) /\ ~Executing(w)'
        BY <2>1, <2>3, <3>2 DEF Executing
      <3>4. \A v \in Threads \ {w, h} : Executing(v)' <=> Executing(v)
        BY <3>2 DEF Executing
      <3>5. InHand' \subseteq InHand
        <4>1. SUFFICES ASSUME NEW v \in Threads, Executing(v)' PROVE job'[v] \in InHand
          BY DEF InHand
        <4> QED
          BY <2>1, <3>1, <3>2, <3>3, <3>4, <4>1 DEF InHand
      <3>6. InHand \subseteq InHand'
        <4>1. SUFFICES ASSUME NEW v \in Threads, Executing(v) PROVE job[v] \in InHand'
          BY DEF InHand
        <4>2. job[v] = job'[IF v = w THEN h ELSE v] /\ Executing(IF v = w THEN h ELSE v)'
          BY <2>1, <3>1, <3>2, <3>3, <3>4, <4>1
        <4> QED
          BY <2>1, <3>1, <4>2 DEF InHand
      <3> QED
        BY <1>0, <2>1, <3>5, <3>6
    <2> QED
      BY <1>11, <2>2, <2>3 DEF Succeeded
  <1>12. ASSUME NEW w \in Threads, Commit(w) PROVE Implemented
    <2>1. /\ job[w] \in Tasks /\ pc[w] = "commit" /\ job' = job /\ pc' = [pc EXCEPT ![w] = "release"]
          /\ status[job[w]] \in {"running", "cancelling"}
      BY <1>12 DEF Commit, Goto, HoldInv, Begun, Executing
    <2>2. job[w] \in InHand /\ InHand' = InHand \ {job[w]}
      BY <2>1, HandsLeave DEF Executing
    <2>3. CASE status' = status
      BY <1>1, <2>1, <2>2, <2>3 DEF Lifecycle!Leave
    <2>4. CASE status' = [status EXCEPT ![job[w]] = Outcome(job[w], ok[w])]
      <3>1. Outcome(job[w], ok[w]) \in IF status[job[w]] = "running" THEN {"completed", "failed", "timeout"}
                                                                     ELSE {"cancelled", "timeout"}
        BY <2>1 DEF Outcome
      <3> QED
        BY <1>1, <2>1, <2>2, <2>4, <3>1 DEF Lifecycle!End, Lifecycle!Begun, Lifecycle!Become
    <2> QED
      BY <1>12, <2>3, <2>4 DEF Commit, CompleteTask
  <1>13. ASSUME NEW t \in Tasks, NEW a \in BOOLEAN, CancelUnstarted(t, a) PROVE Implemented
    BY <1>0, <1>1, <1>13 DEF CancelUnstarted, Lifecycle!Drop, Lifecycle!Open, Lifecycle!Become
  <1>14. ASSUME NEW t \in Tasks, status' = status \/ (status[t] = "running" /\ status' = [status EXCEPT ![t] = "cancelling"]),
                InHand' = InHand
         PROVE  Implemented
    BY <1>0, <1>1, <1>14 DEF Lifecycle!Ask, Lifecycle!Become
  <1>15. ASSUME NEW t \in Tasks, NEW a \in BOOLEAN, CancelStarted(t, a) PROVE Implemented
    <2>1. status' = status \/ (status[t] = "running" /\ status' = [status EXCEPT ![t] = "cancelling"])
      BY <1>15 DEF CancelStarted
    <2> QED
      BY <1>0, <1>14, <1>15, <2>1 DEF CancelStarted
  <1>16. CASE ReapHeld
    BY <1>0, <1>14, <1>16 DEF ReapHeld
  <1>17. ASSUME NEW t \in Tasks, NobodyExecutes(t), InHand' = InHand,
                \/ status[t] = "running" /\ status' = [status EXCEPT ![t] = "timeout"]
                \/ /\ status[t] = "cancelling"
                   /\ \E s \in {"cancelled", "timeout"} : status' = [status EXCEPT ![t] = s]
         PROVE  Implemented
    <2>0. t \notin InHand
      BY <1>17 DEF NobodyExecutes, InHand
    <2>1. InHand' = InHand \ {t}
      BY <1>17, <2>0
    <2> QED
      BY <1>1, <1>17, <2>1 DEF Lifecycle!End, Lifecycle!Begun, Lifecycle!Become
  <1>18. ASSUME NEW t \in Tasks, Finalize(t) PROVE Implemented
    <2>1. NobodyExecutes(t) /\ InHand' = InHand
      BY <1>0, <1>18 DEF Finalize, HoldInv, Settled
    <2> QED
      BY <1>0, <1>17, <1>18, <2>1 DEF Finalize
  <1>19. CASE ReapDead
    <2>1. prey \in Tasks /\ NobodyExecutes(prey) /\ InHand' = InHand
      BY <1>0, <1>19 DEF ReapDead, HoldInv, Settled
    <2> QED
      BY <1>0, <1>17, <1>19, <2>1 DEF ReapDead
  <1>20. CASE Crash
    <2>1. InHand' = {} /\ status' = status
      BY <1>20 DEF Crash, InHand, Executing, rows
    <2> QED
      BY <2>1 DEF Implemented, Lifecycle!Next, Lifecycle!Crash
  <1>21. CASE Reboot
    <2>1. InHand = {} /\ InHand' = InHand
      <3>1. \A w \in Threads : ~Executing(w)
        BY <1>21 DEF Reboot, HoldInv, Down, Executing
      <3> QED
        BY <1>0, <1>21, <3>1 DEF Reboot, InHand
    <2>2. status' = [t \in Tasks |-> CASE status[t] = "cancelling" -> "cancelled"
                                       [] status[t] \in {"processing", "running"} -> "failed"
                                       [] OTHER -> status[t]]
      BY <1>21 DEF Reboot, Interrupted, InFlight
    <2> QED
      BY <2>1, <2>2 DEF Implemented, Lifecycle!Next, Lifecycle!Interrupt
  <1>22. ASSUME NEW w \in Threads, NEW s \in BOOLEAN,
                \/ Unmark(w) \/ PreflightFail(w) \/ BeginCall(w) \/ Failed(w) \/ Unrecorded(w) \/ NotDeleted(w)
                \/ Deleted(w, s) \/ PostProcessed(w, s) \/ Release(w)
         PROVE  Implemented
    <2>1. status' = status
      BY <1>22 DEF Unmark, PreflightFail, BeginCall, Failed, Unrecorded, NotDeleted, Deleted, PostProcessed,
                   Release, rows
    <2>2. InHand' = InHand
      BY <1>22, HandsStay DEF Unmark, PreflightFail, BeginCall, Failed, Unrecorded, NotDeleted, Deleted,
                              PostProcessed, Release, Idle, Goto, GotoWith, Executing
    <2> QED
      BY <1>0, <2>1, <2>2
  <1>23. CASE \/ ScanPending \/ ReapCheck \/ Serve \/ UNCHANGED vars
              \/ (\E t \in Tasks : SubmitReserve(t) \/ Expire(t) \/ GraceOver(t) \/ Undo(t) \/ ReapRead(t))
              \/ (\E i \in Insts : RepairRead(i) \/ RepairWrite(i) \/ Rewrite(i))
    <2>1. UNCHANGED threads /\ status' = status
      BY <1>23 DEF ScanPending, ReapCheck, Serve, SubmitReserve, Expire, GraceOver, Undo, ReapRead,
                   RepairRead, RepairWrite, Rewrite, EditStep, EditRead, EditSave, EditDrop, Reconciles, vars, rows
    <2> QED
      BY <1>0, <2>1
  <1> HIDE DEF Typed, TypeOK, Placed
  <1>30. ASSUME NEW w \in Workers, WorkerStep(w) PROVE Implemented
    BY <1>6, <1>8, <1>9, <1>10, <1>11, <1>22, <1>30 DEF WorkerStep, Execute, Threads
  <1>31. ASSUME NEW h \in Helpers, HelperStep(h) PROVE Implemented
    BY <1>22, <1>31 DEF HelperStep, Threads
  <1>32. ASSUME NEW w \in Threads, Finish(w) PROVE Implemented
    BY <1>12, <1>22, <1>32 DEF Finish
  <1>33. Implemented
    BY <1>2, <1>3, <1>5, <1>7, <1>13, <1>15, <1>16, <1>18, <1>19, <1>20, <1>21, <1>23, <1>30, <1>31, <1>32
    DEF Next, SchedulerStep, Cancel, CleanerStep, ReaperStep
  <1> QED
    BY <1>33

\* A task is begun once, ends by its executor or when it has none, and is left alone
\* once it has ended: the engine implements TaskLifecycle, for any number of tasks and
\* goroutines, as long as the context manager never fills up.
THEOREM EngineImplementsLifecycle ==
  ASSUME Roomy PROVE Spec => ImplementsLifecycle
  <1>1. Init => Lifecycle!Init
    BY DEF Init, Lifecycle!Init, InHand, Executing
  <1>2. Init => HoldInv
    BY HoldInit
  <1>3. Typed /\ Typed' /\ HoldInv /\ [Next]_vars => HoldInv'
    BY HoldNext
  <1>4. Typed /\ HoldInv /\ [Next]_vars => [Lifecycle!Next]_<<status, InHand>>
    BY LifecycleStep
  <1> QED
    BY <1>1, <1>2, <1>3, <1>4, TypedAlways, PTL DEF Spec, ImplementsLifecycle, Lifecycle!Spec
=============================================================================
