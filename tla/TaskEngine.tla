----------------------------- MODULE TaskEngine -----------------------------
(***************************************************************************)
(* The task engine of the controller (server/service/task): the rows of the *)
(* tasks table and of the instances they operate on, the scheduler that     *)
(* submits pending rows to a provider's worker pool, the workers, the       *)
(* goroutines a finished start or restart leaves behind, cancellation, the  *)
(* periodic reaper, the hourly repair of stuck instances, the edits of an    *)
(* instance by administrators, and the crash and restart of the controller. *)
(*                                                                          *)
(* Each action is one database transaction, or one critical section over    *)
(* the process's shared maps: the grain at which the goroutines of the code *)
(* interleave.  One provider, hence one pool, is modelled; the lifecycle    *)
(* operations are start, stop, restart and delete.                          *)
(***************************************************************************)
EXTENDS Naturals, Sequences, FiniteSets

CONSTANTS
    MaxTask,      \* task ids are 1..MaxTask, given out in order (autoincrement)
    Insts,        \* instances
    Workers,      \* goroutines of the pool
    Helpers,      \* goroutines that start and restart tasks leave behind
    Requests,     \* bound: the operations that are asked for
    QueueCap,     \* capacity of the pool's channel
    MaxContexts,  \* capacity of the context manager
    Others,       \* contexts that tasks of other providers hold, at times
    SlowOps,      \* may an operation outlast the 30 minute repair threshold?
    Editable,     \* bound: the instances that edits and the comparison write
    Saved,        \* bound: the statuses that they write
    MaxCrashes,   \* bound: crashes of the controller
    MaxFaults     \* bound: failed database calls

ASSUME EngineAssumption ==
    /\ MaxTask \in Nat
    /\ Workers \cap Helpers = {}
    /\ QueueCap \in Nat
    /\ MaxContexts \in Nat /\ Others \in Nat
    /\ SlowOps \in BOOLEAN
    /\ Editable \subseteq Insts
    /\ MaxCrashes \in Nat
    /\ MaxFaults \in Nat

Tasks == 1..MaxTask
Threads == Workers \cup Helpers
NoTask == 0

Ops == {"start", "stop", "restart", "delete"}

ASSUME RequestsAssumption == Requests \subseteq Ops

Destructive == {"delete"}

\* "absent" is an id not given out yet; the rest are the constants of the code.
Active == {"pending", "processing", "running", "cancelling"}
InFlight == {"processing", "running", "cancelling"}
Terminal == {"completed", "failed", "cancelled", "timeout"}
Status == {"absent"} \cup Active \cup Terminal

Stable == {"running", "stopped", "error"}
Busy == {"starting", "stopping", "restarting", "deleting"}
InstStatus == Stable \cup Busy \cup {"deleted"}

ASSUME SavedAssumption == Saved \subseteq InstStatus

VARIABLES
    status,    \* tasks.status
    row,       \* the columns of a task that are fixed when it is created
    phase,     \* task_data.lifecyclePhase recorded
    reason,    \* tasks.cancel_reason
    inst,      \* instances.status
    queued,    \* TaskService.queuedTasks
    chan,      \* ProviderWorkerPool.TaskQueue
    ctx,       \* TaskContextManager.contexts, with the error of each context
    pc, job, ok,          \* a worker's or helper's place, task and outcome
    scan, cur, subpc,     \* the scheduler: rows read, row being submitted
    cleaner,   \* TaskService.cancellationCleanup and the goroutine behind it
    undoing,   \* terminal tasks whose cleanup still has to run
    reap, prey,           \* the reaper's step and the row it is working on
    repair,    \* the status the repair job is about to write to an instance
    editing,   \* instances whose row an UpdateInstance has read and will save
    overwritten,  \* history: instances whose status an edit, the comparison or a late
                  \* repair has changed since an operation was last admitted
    mode,      \* of the process: up, down, or booting
    crashes, faults

rows == <<status, row, phase, reason>>
threads == <<pc, job, ok>>
scheduler == <<scan, cur, subpc>>
reaper == <<reap, prey>>
jobs == <<cleaner, reaper, repair>>
edits == <<editing, overwritten>>
env == <<mode, crashes, faults>>
vars == <<rows, inst, queued, chan, ctx, threads, scheduler, jobs, edits, undoing, env>>

Reaping == {"no", "orphan", "orphaned", "late", "dead", "held", "stale", "over"}

TypeOK ==
    /\ status \in [Tasks -> Status]
    /\ row \in [Tasks -> [op : Ops, on : Insts, was : InstStatus, stoppable : BOOLEAN]]
    /\ phase \in [Tasks -> BOOLEAN]
    /\ reason \in [Tasks -> {"none", "request", "timeout"}]
    /\ inst \in [Insts -> InstStatus]
    /\ queued \subseteq Tasks
    /\ chan \in Seq(Tasks)
    /\ ctx \in [Tasks -> {"none", "live", "cancelled", "expired"}]
    /\ pc \in [Threads -> {"idle", "full", "unmark", "claim", "requeue",
                           "exec", "call", "post", "commit", "release"}]
    /\ job \in [Threads -> Tasks \cup {NoTask}]
    /\ ok \in [Threads -> BOOLEAN]
    /\ scan \subseteq Tasks
    /\ cur \in Tasks \cup {NoTask}
    /\ subpc \in {"idle", "claim", "requeue"}
    /\ cleaner \in [Tasks -> {"none", "grace", "finalize"}]
    /\ undoing \subseteq Tasks
    /\ reap \in Reaping /\ prey \in Tasks \cup {NoTask}
    /\ repair \in [Insts -> {"none", "running", "stopped"}]
    /\ editing \subseteq Insts /\ overwritten \subseteq Insts
    /\ mode \in {"up", "down", "boot"}
    /\ crashes \in 0..MaxCrashes
    /\ faults \in 0..MaxFaults

Init ==
    /\ status = [t \in Tasks |-> "absent"]
    /\ row \in {[t \in Tasks |-> [op |-> "start", on |-> i, was |-> "stopped",
                                  stoppable |-> TRUE]] : i \in Insts}
    /\ phase = [t \in Tasks |-> FALSE]
    /\ reason = [t \in Tasks |-> "none"]
    /\ inst \in [Insts -> {"running", "stopped"}]
    /\ queued = {}
    /\ chan = <<>>
    /\ ctx = [t \in Tasks |-> "none"]
    /\ pc = [w \in Threads |-> "idle"]
    /\ job = [w \in Threads |-> NoTask]
    /\ ok = [w \in Threads |-> FALSE]
    /\ scan = {} /\ cur = NoTask /\ subpc = "idle"
    /\ cleaner = [t \in Tasks |-> "none"]
    /\ undoing = {}
    /\ reap = "no" /\ prey = NoTask
    /\ repair = [i \in Insts |-> "none"]
    /\ editing = {} /\ overwritten = {}
    /\ mode = "up"
    /\ crashes = 0 /\ faults = 0

-----------------------------------------------------------------------------
(* Vocabulary of the instance operations.                                   *)

Transition(op) ==
    CASE op = "start" -> "starting" [] op = "stop" -> "stopping"
      [] op = "restart" -> "restarting" [] op = "delete" -> "deleting"

\* The statuses an instance may be in when an operation is asked for.
StartsFrom(op) ==
    CASE op = "start" -> {"stopped"}
      [] op = "stop" -> {"running"}
      [] op = "restart" -> {"running"}
      [] op = "delete" -> Stable

OpenOn(i) == {t \in Tasks : status[t] \in Active /\ row[t].on = i}

\* Mutant: the recorded phase is not consulted.
RestoredAnyPhase(t) ==
    CASE row[t].op = "start" -> "stopped"
      [] row[t].op \in {"stop", "restart"} -> "running"
      [] row[t].op = "delete" -> row[t].was

\* What the cleanup of a cancelled, timed out or interrupted task writes.  A
\* delete goes back only when it had not reached its destructive phase.
Restored(t) ==
    CASE row[t].op = "start" -> "stopped"
      [] row[t].op \in {"stop", "restart"} -> "running"
      [] row[t].op = "delete" ->
            IF ~phase[t] /\ row[t].was \in {"running", "stopped"} THEN row[t].was ELSE "error"

\* reconcileDestructiveTask looks for later tasks on the instance, the cleanup
\* of a start, stop or restart looks at the instance's status only.
StillOwner(t) ==
    row[t].op \in Destructive =>
        ~\E u \in Tasks : u > t /\ status[u] # "absent" /\ row[u].on = row[t].on

Undone(t) ==
    IF inst[row[t].on] = Transition(row[t].op) /\ StillOwner(t)
    THEN [inst EXCEPT ![row[t].on] = Restored(t)]
    ELSE inst

CancelContext(t) == IF ctx[t] = "live" THEN [ctx EXCEPT ![t] = "cancelled"] ELSE ctx
\* Mutant: the deferred contextManager.Delete is forgotten.
KeepContext(t) == ctx

DropContext(t) == [ctx EXCEPT ![t] = "none"]

\* A failed database call; it may or may not have committed.
Fault == faults < MaxFaults /\ faults' = faults + 1
NoFault == UNCHANGED faults

-----------------------------------------------------------------------------
(* Admission: CreateTask with reserveInstanceOperationInTx.                 *)

\* Mutant: the count of open tasks is dropped.
AdmissibleUncounted(op, i) == inst[i] \in StartsFrom(op)

Admissible(op, i) == inst[i] \in StartsFrom(op) /\ OpenOn(i) = {}

CreateTask(t, op, i, byAdmin) ==
    /\ mode = "up"
    /\ status[t] = "absent" /\ \A u \in Tasks : u < t => status[u] # "absent"
    /\ Admissible(op, i)
    /\ status' = [status EXCEPT ![t] = "pending"]
    /\ row' = [row EXCEPT ![t] = [op |-> op, on |-> i, was |-> inst[i],
                                  stoppable |-> ~(op = "delete" /\ byAdmin)]]
    /\ inst' = [inst EXCEPT ![i] = Transition(op)]
    /\ overwritten' = overwritten \ {i}
    /\ UNCHANGED <<phase, reason, queued, chan, ctx, threads, scheduler, jobs, editing, undoing, env>>

-----------------------------------------------------------------------------
(* The scheduler: processPendingTasks reads a batch of pending rows and      *)
(* submits each of them (trySubmit); a row may have changed since.          *)

ScanPending ==
    /\ mode = "up" /\ subpc = "idle" /\ scan = {}
    /\ scan' = {t \in Tasks : status[t] = "pending"}
    /\ scan' # {}
    /\ UNCHANGED <<rows, inst, queued, chan, ctx, threads, cur, subpc, jobs, edits, undoing, env>>

Accepted(t) == Len(chan) < QueueCap /\ t \notin queued

SubmitReserve(t) ==
    /\ mode = "up" /\ subpc = "idle" /\ t \in scan
    /\ scan' = scan \ {t}
    /\ IF Accepted(t)
       THEN queued' = queued \cup {t} /\ cur' = t /\ subpc' = "claim"
       ELSE UNCHANGED <<queued, cur, subpc>>
    /\ UNCHANGED <<rows, inst, chan, ctx, threads, jobs, edits, undoing, env>>

Submitted == subpc' = "idle" /\ cur' = NoTask

\* A claim whose reply is lost may have been written all the same.
SubmitClaim ==
    /\ mode = "up" /\ subpc = "claim"
    /\ \/ /\ status[cur] = "pending" /\ NoFault
          /\ status' = [status EXCEPT ![cur] = "processing"]
          /\ chan' = Append(chan, cur)
          /\ Submitted /\ UNCHANGED queued
       \/ /\ status[cur] # "pending" /\ NoFault
          /\ queued' = queued \ {cur}
          /\ Submitted /\ UNCHANGED <<status, chan>>
       \/ /\ Fault /\ subpc' = "requeue"
          /\ \/ UNCHANGED status
             \/ status[cur] = "pending" /\ status' = [status EXCEPT ![cur] = "processing"]
          /\ UNCHANGED <<queued, chan, cur>>
    /\ UNCHANGED <<row, phase, reason, inst, ctx, threads, scan, jobs, edits, undoing, mode, crashes>>

\* requeueUnstartedTask: the write may fail, the marker goes in any case.
Requeue(t) ==
    /\ \/ /\ NoFault
          /\ status' = IF status[t] = "processing" THEN [status EXCEPT ![t] = "pending"] ELSE status
       \/ Fault /\ UNCHANGED status
    /\ queued' = queued \ {t}

SubmitRequeue ==
    /\ mode = "up" /\ subpc = "requeue"
    /\ Requeue(cur) /\ Submitted
    /\ UNCHANGED <<row, phase, reason, inst, chan, ctx, threads, scan, jobs, edits, undoing, mode, crashes>>

-----------------------------------------------------------------------------
(* CompleteTask: the terminal status is derived from the row as it is now.  *)

Outcome(t, success) ==
    IF status[t] = "cancelling"
    THEN IF reason[t] = "timeout" \/ ctx[t] = "expired" THEN "timeout" ELSE "cancelled"
    ELSE IF ctx[t] = "expired" THEN "timeout"
    ELSE IF success THEN "completed" ELSE "failed"

\* Mutant: only timeouts are cleaned up after.
NeedsUndoOnTimeout(t, end) == end = "timeout"

NeedsUndo(t, end) == end \in {"cancelled", "timeout"} \/ (end = "failed" /\ row[t].op \in Destructive)

CompleteTask(t, success) ==
    IF status[t] \in Terminal
    THEN UNCHANGED <<status, undoing>>
    ELSE /\ status' = [status EXCEPT ![t] = Outcome(t, success)]
         /\ undoing' = IF NeedsUndo(t, Outcome(t, success)) THEN undoing \cup {t} ELSE undoing

-----------------------------------------------------------------------------
(* A worker: executeTask.                                                   *)

Idle(w) == /\ pc' = [pc EXCEPT ![w] = "idle"]
           /\ job' = [job EXCEPT ![w] = NoTask]
           /\ ok' = [ok EXCEPT ![w] = FALSE]

Goto(w, place) == pc' = [pc EXCEPT ![w] = place] /\ UNCHANGED <<job, ok>>

GotoWith(w, place, success) ==
    /\ pc' = [pc EXCEPT ![w] = place]
    /\ ok' = [ok EXCEPT ![w] = success]
    /\ UNCHANGED job

Held == {t \in Tasks : ctx[t] # "none"}

Take(w, t, place) ==
    /\ pc' = [pc EXCEPT ![w] = place]
    /\ job' = [job EXCEPT ![w] = t]
    /\ UNCHANGED ok

\* A task that already has a context is left to the thread that owns it.
Register(w) == LET t == Head(chan) IN
    /\ mode = "up" /\ pc[w] = "idle" /\ chan # <<>>
    /\ chan' = Tail(chan)
    /\ \/ /\ ctx[t] # "none"
          /\ queued' = queued \ {t}
          /\ UNCHANGED <<ctx, threads>>
       \/ /\ ctx[t] = "none" /\ Cardinality(Held) + Others >= MaxContexts
          /\ queued' = queued \ {t}
          /\ Take(w, t, "full") /\ UNCHANGED ctx
       \/ /\ ctx[t] = "none" /\ Cardinality(Held) < MaxContexts
          /\ ctx' = [ctx EXCEPT ![t] = "live"]
          /\ Take(w, t, "unmark") /\ UNCHANGED queued
    /\ UNCHANGED <<rows, inst, scheduler, jobs, edits, undoing, env>>

FailFull(w) ==
    /\ mode = "up" /\ pc[w] = "full"
    /\ CompleteTask(job[w], FALSE)
    /\ Idle(w)
    /\ UNCHANGED <<row, phase, reason, inst, queued, chan, ctx, scheduler, jobs, edits, env>>

Unmark(w) ==
    /\ mode = "up" /\ pc[w] = "unmark"
    /\ queued' = queued \ {job[w]}
    /\ Goto(w, "claim")
    /\ UNCHANGED <<rows, inst, chan, ctx, scheduler, jobs, edits, undoing, env>>

\* Mutant: the claim's UPDATE without its status condition.
ClaimableUnchecked(t) == TRUE

Claimable(t) == status[t] \in {"pending", "processing"}

\* The transaction runs under the task's context, so it fails once that ended.
Claim(w) == LET t == job[w] IN
    /\ mode = "up" /\ pc[w] = "claim"
    /\ \/ /\ Claimable(t) /\ ctx[t] = "live"
          /\ status' = [status EXCEPT ![t] = "running"]
          /\ \/ NoFault /\ Goto(w, "exec")
             \/ Fault /\ Goto(w, "requeue")
       \/ /\ ~Claimable(t) \/ ctx[t] # "live"
          /\ NoFault /\ Goto(w, "requeue") /\ UNCHANGED status
       \/ Fault /\ Goto(w, "requeue") /\ UNCHANGED status
    /\ UNCHANGED <<row, phase, reason, inst, queued, chan, ctx, scheduler, jobs, edits, undoing, mode, crashes>>

RequeueLost(w) ==
    /\ mode = "up" /\ pc[w] = "requeue"
    /\ Requeue(job[w])
    /\ Goto(w, "release")
    /\ UNCHANGED <<row, phase, reason, inst, chan, ctx, scheduler, jobs, edits, undoing, mode, crashes>>

-----------------------------------------------------------------------------
(* The execution itself: executeStart-, executeStop-, executeRestart- and    *)
(* executeDeleteInstanceTask.                                               *)

\* Anything that fails before the provider is called leaves the instance alone.
PreflightFail(w) ==
    /\ mode = "up" /\ pc[w] = "exec"
    /\ GotoWith(w, "commit", FALSE)
    /\ UNCHANGED <<rows, inst, queued, chan, ctx, scheduler, jobs, edits, undoing, env>>

\* recordLifecyclePhase persists the point of no return of a delete.
BeginCall(w) == LET t == job[w] IN
    /\ mode = "up" /\ pc[w] = "exec"
    /\ row[t].op # "start" => ctx[t] = "live"
    /\ IF row[t].op \in Destructive
       THEN status[t] = "running" /\ phase' = [phase EXCEPT ![t] = TRUE]
       ELSE UNCHANGED phase
    /\ Goto(w, "call")
    /\ UNCHANGED <<status, row, reason, inst, queued, chan, ctx, scheduler, jobs, edits, undoing, env>>

Reached(op) == IF op = "stop" THEN "stopped" ELSE "running"
Fallback(op) == CASE op = "start" -> "stopped" [] op = "stop" -> "error" [] op = "restart" -> "running"

MayRecord(t, statuses) == status[t] \in statuses /\ inst[row[t].on] = Transition(row[t].op)

\* The provider's call returned.  A result it confirmed is kept even if the task
\* is being cancelled.  A start or restart hands the task over to a goroutine.
Succeeded(w) == LET t == job[w] IN
    /\ mode = "up" /\ pc[w] = "call" /\ row[t].op \notin Destructive
    /\ MayRecord(t, {"running", "cancelling"})
    /\ inst' = [inst EXCEPT ![row[t].on] = Reached(row[t].op)]
    /\ \/ row[t].op = "stop" /\ GotoWith(w, "commit", TRUE)
       \/ /\ row[t].op # "stop"
          /\ \E h \in Helpers :
                /\ pc[h] = "idle"
                /\ pc' = [pc EXCEPT ![w] = "idle", ![h] = "post"]
                /\ job' = [job EXCEPT ![w] = NoTask, ![h] = t]
          /\ UNCHANGED ok
    /\ UNCHANGED <<rows, queued, chan, ctx, scheduler, jobs, edits, undoing, env>>

\* A failure falls back only while the task is still running.
Failed(w) == LET t == job[w] IN
    /\ mode = "up" /\ pc[w] = "call" /\ row[t].op \notin Destructive
    /\ inst' = IF MayRecord(t, {"running"})
               THEN [inst EXCEPT ![row[t].on] = Fallback(row[t].op)] ELSE inst
    /\ GotoWith(w, "commit", FALSE)
    /\ UNCHANGED <<rows, queued, chan, ctx, scheduler, jobs, edits, undoing, env>>

\* Task or instance have moved on, or the database does not answer: whatever
\* the provider did is not written.
Unrecorded(w) == LET t == job[w] IN
    /\ mode = "up" /\ pc[w] = "call" /\ row[t].op \notin Destructive
    /\ IF MayRecord(t, {"running", "cancelling"}) THEN Fault ELSE NoFault
    /\ GotoWith(w, "commit", FALSE)
    /\ UNCHANGED <<rows, inst, queued, chan, ctx, scheduler, jobs, edits, undoing, mode, crashes>>

\* A delete that failed remotely keeps the instance for a retry.
NotDeleted(w) ==
    /\ mode = "up" /\ pc[w] = "call" /\ row[job[w]].op \in Destructive
    /\ GotoWith(w, "commit", FALSE)
    /\ UNCHANGED <<rows, inst, queued, chan, ctx, scheduler, jobs, edits, undoing, env>>

\* The bookkeeping of a delete is one transaction under the task's context; the
\* remote instance is gone, so when it fails the row is kept as an error.
Deleted(w, success) == LET t == job[w] IN
    /\ mode = "up" /\ pc[w] = "call" /\ row[t].op \in Destructive
    /\ \/ /\ ctx[t] = "live" /\ NoFault
          /\ inst' = [inst EXCEPT ![row[t].on] = "deleted"]
          /\ GotoWith(w, "commit", success)
       \/ /\ IF ctx[t] = "live" THEN Fault ELSE NoFault
          /\ inst' = [inst EXCEPT ![row[t].on] = "error"]
          /\ GotoWith(w, "commit", FALSE)
    /\ UNCHANGED <<rows, queued, chan, ctx, scheduler, jobs, edits, undoing, mode, crashes>>

\* Post-processing waits 30 seconds and then succeeds; it fails when cancelled.
PostProcessed(h, success) ==
    /\ mode = "up" /\ pc[h] = "post"
    /\ ~success => ctx[job[h]] # "live"
    /\ GotoWith(h, "commit", success)
    /\ UNCHANGED <<rows, inst, queued, chan, ctx, scheduler, jobs, edits, undoing, env>>

\* When the write fails, or its reply is lost, nothing else of CompleteTask runs.
Commit(w) == LET t == job[w] IN
    /\ mode = "up" /\ pc[w] = "commit"
    /\ \/ NoFault /\ CompleteTask(t, ok[w])
       \/ Fault /\ UNCHANGED <<status, undoing>>
       \/ /\ Fault /\ status[t] \notin Terminal
          /\ status' = [status EXCEPT ![t] = Outcome(t, ok[w])] /\ UNCHANGED undoing
    /\ Goto(w, "release")
    /\ UNCHANGED <<row, phase, reason, inst, queued, chan, ctx, scheduler, jobs, edits, mode, crashes>>

Release(w) ==
    /\ mode = "up" /\ pc[w] = "release"
    /\ ctx' = DropContext(job[w])
    /\ Idle(w)
    /\ UNCHANGED <<rows, inst, queued, chan, scheduler, jobs, edits, undoing, env>>

\* The deadline of a context, minutes after it was made, passes.  Before the
\* claim, which follows at once, that takes a database that does not answer.
Expire(t) ==
    /\ mode = "up" /\ ctx[t] = "live"
    /\ IF Claimable(t) THEN Fault ELSE NoFault
    /\ ctx' = [ctx EXCEPT ![t] = "expired"]
    /\ UNCHANGED <<rows, inst, queued, chan, threads, scheduler, jobs, edits, undoing, mode, crashes>>

-----------------------------------------------------------------------------
(* Cancellation: CancelTask, CancelTaskByAdminScoped and their cleanup.     *)

MayCancel(t, byAdmin) == row[t].stoppable \/ (byAdmin /\ status[t] = "pending")

\* pending or processing: no context exists yet, so the row ends at once.
CancelUnstarted(t, byAdmin) ==
    /\ mode = "up" /\ status[t] \in {"pending", "processing"} /\ MayCancel(t, byAdmin)
    /\ status' = [status EXCEPT ![t] = "cancelled"]
    /\ reason' = [reason EXCEPT ![t] = "request"]
    /\ undoing' = undoing \cup {t}
    /\ UNCHANGED <<row, phase, inst, queued, chan, ctx, threads, scheduler, jobs, edits, env>>

\* running or cancelling: end the context and give the worker a grace period.
CancelStarted(t, byAdmin) ==
    /\ mode = "up" /\ status[t] \in {"running", "cancelling"} /\ MayCancel(t, byAdmin)
    /\ status' = [status EXCEPT ![t] = "cancelling"]
    /\ reason' = IF status[t] = "running" THEN [reason EXCEPT ![t] = "request"] ELSE reason
    /\ ctx' = CancelContext(t)
    /\ cleaner' = IF cleaner[t] = "none" THEN [cleaner EXCEPT ![t] = "grace"] ELSE cleaner
    /\ UNCHANGED <<row, phase, inst, queued, chan, threads, scheduler, reaper, repair, edits, undoing, env>>

GraceOver(t) ==
    /\ mode = "up" /\ cleaner[t] = "grace"
    /\ cleaner' = [cleaner EXCEPT ![t] =
                     IF status[t] = "cancelling" /\ ctx[t] = "none" THEN "finalize" ELSE "none"]
    /\ UNCHANGED <<rows, inst, queued, chan, ctx, threads, scheduler, reaper, repair, edits, undoing, env>>

Finalize(t) ==
    /\ mode = "up" /\ cleaner[t] = "finalize"
    /\ ctx' = DropContext(t)
    /\ IF status[t] = "cancelling"
       THEN /\ status' = [status EXCEPT ![t] = IF reason[t] = "timeout" THEN "timeout" ELSE "cancelled"]
            /\ undoing' = undoing \cup {t}
       ELSE UNCHANGED <<status, undoing>>
    /\ cleaner' = [cleaner EXCEPT ![t] = "none"]
    /\ UNCHANGED <<row, phase, reason, inst, queued, chan, threads, scheduler, reaper, repair, edits, env>>

\* handleCancelledTaskCleanup and reconcileDestructiveTask.  They run after the
\* terminal status has been committed, in the thread that committed it or in a
\* goroutine of their own; either way other threads may act in between.
Undo(t) ==
    /\ mode \in {"up", "boot"} /\ t \in undoing
    /\ undoing' = undoing \ {t}
    /\ inst' = Undone(t)
    /\ UNCHANGED <<rows, queued, chan, ctx, threads, scheduler, jobs, edits, env>>

-----------------------------------------------------------------------------
(* The reaper: CleanupTimeoutTasksWithLockRelease.  It reads the rows that are *)
(* old enough, then looks at the maps, then writes with a CAS.  The rows of    *)
(* a batch are independent; the model takes them one at a time.              *)

Suspect(s) ==
    CASE s = "processing" -> "orphan" [] s = "running" -> "late" [] s = "cancelling" -> "stale"

ReapRead(t) ==
    /\ mode = "up" /\ reap = "no" /\ status[t] \in InFlight
    /\ reap' = Suspect(status[t]) /\ prey' = t
    /\ UNCHANGED <<rows, inst, queued, chan, ctx, threads, scheduler, cleaner, repair, edits, undoing, env>>

\* Mutant: the reaper does not consult the context manager.
UnownedUnchecked(t) == TRUE

Unowned(t) == ctx[t] = "none"

Reaped == reap' = "no" /\ prey' = NoTask

ReapCheck ==
    /\ mode = "up"
    /\ \/ /\ reap = "orphan" /\ prey \notin queued /\ Unowned(prey)
          /\ reap' = "orphaned" /\ UNCHANGED <<prey, ctx>>
       \/ /\ reap = "orphan" /\ ~(prey \notin queued /\ Unowned(prey))
          /\ Reaped /\ UNCHANGED ctx
       \/ /\ reap = "late"
          /\ reap' = IF Unowned(prey) THEN "dead" ELSE "held"
          /\ UNCHANGED <<prey, ctx>>
       \/ /\ reap = "stale" /\ Unowned(prey)
          /\ reap' = "over" /\ UNCHANGED <<prey, ctx>>
       \/ /\ reap = "stale" /\ ~Unowned(prey)
          /\ Reaped /\ ctx' = CancelContext(prey)
    /\ UNCHANGED <<rows, inst, queued, chan, threads, scheduler, cleaner, repair, edits, undoing, env>>

ReapOrphan ==
    /\ mode = "up" /\ reap = "orphaned"
    /\ status' = IF status[prey] = "processing" THEN [status EXCEPT ![prey] = "pending"] ELSE status
    /\ Reaped
    /\ UNCHANGED <<row, phase, reason, inst, queued, chan, ctx, threads, scheduler, cleaner, repair, edits, undoing, env>>

\* An overdue task whose provider call has not returned only starts cancelling.
ReapHeld ==
    /\ mode = "up" /\ reap = "held"
    /\ IF status[prey] = "running"
       THEN /\ status' = [status EXCEPT ![prey] = "cancelling"]
            /\ reason' = [reason EXCEPT ![prey] = "timeout"]
            /\ ctx' = CancelContext(prey)
       ELSE UNCHANGED <<status, reason, ctx>>
    /\ Reaped
    /\ UNCHANGED <<row, phase, inst, queued, chan, threads, scheduler, cleaner, repair, edits, undoing, env>>

\* Nobody executes the task any more: it ends here and its cleanup is started.
ReapDead ==
    /\ mode = "up" /\ reap \in {"dead", "over"}
    /\ IF status[prey] = (IF reap = "dead" THEN "running" ELSE "cancelling")
       THEN /\ status' = [status EXCEPT ![prey] =
                            IF reap = "dead" \/ reason[prey] = "timeout" THEN "timeout" ELSE "cancelled"]
            /\ reason' = IF reap = "dead" THEN [reason EXCEPT ![prey] = "timeout"] ELSE reason
            /\ undoing' = undoing \cup {prey}
       ELSE UNCHANGED <<status, reason, undoing>>
    /\ Reaped
    /\ UNCHANGED <<row, phase, inst, queued, chan, ctx, threads, scheduler, cleaner, repair, edits, env>>

-----------------------------------------------------------------------------
(* RepairStuckInstances, hourly: instances whose busy status is older than 30  *)
(* minutes are read, and each is then written without looking at it again.    *)

Forgotten(i) == \A t \in Tasks : row[t].on = i => status[t] \notin Active /\ t \notin undoing

\* Mutant: a busy status is missing from the query.
StuckNoRestart(i) == inst[i] \in Busy \ {"restarting"}

Stuck(i) == inst[i] \in Busy

RepairsTo(s) == IF s \in {"deleting", "starting"} THEN "stopped" ELSE "running"

RepairRead(i) ==
    /\ mode = "up" /\ repair[i] = "none"
    /\ Stuck(i)
    /\ SlowOps \/ Forgotten(i)
    /\ repair' = [repair EXCEPT ![i] = RepairsTo(inst[i])]
    /\ UNCHANGED <<rows, inst, queued, chan, ctx, threads, scheduler, cleaner, reaper, edits, undoing, env>>

RepairWrite(i) ==
    /\ mode = "up" /\ repair[i] # "none"
    /\ inst' = [inst EXCEPT ![i] = IF inst[i] = "deleted" THEN "deleted" ELSE repair[i]]
    /\ repair' = [repair EXCEPT ![i] = "none"]
    /\ overwritten' = IF inst[i] = "deleted" \/ (Stuck(i) /\ RepairsTo(inst[i]) = repair[i])
                      THEN overwritten ELSE overwritten \cup {i}
    /\ UNCHANGED <<rows, queued, chan, ctx, threads, scheduler, cleaner, reaper, editing, undoing, env>>

-----------------------------------------------------------------------------
(* UpdateInstance: an administrator's edit reads the whole row of an instance  *)
(* that no operation holds, and saves all of it later, with the status that it *)
(* read or that the request asks for, whatever the row has become meanwhile.  *)

EditRead(i) ==
    /\ mode = "up" /\ i \in Editable \ editing
    /\ inst[i] \notin Busy \cup {"deleted"}
    /\ editing' = editing \cup {i}
    /\ UNCHANGED <<rows, inst, queued, chan, ctx, threads, scheduler, jobs, overwritten, undoing, env>>

EditSave(i, s) ==
    /\ mode = "up" /\ i \in editing
    /\ inst' = [inst EXCEPT ![i] = s]
    /\ editing' = editing \ {i}
    /\ overwritten' = IF s = inst[i] THEN overwritten ELSE overwritten \cup {i}
    /\ UNCHANGED <<rows, queued, chan, ctx, threads, scheduler, jobs, undoing, env>>

\* The transaction fails.
EditDrop(i) ==
    /\ mode = "up" /\ i \in editing
    /\ editing' = editing \ {i}
    /\ UNCHANGED <<rows, inst, queued, chan, ctx, threads, scheduler, jobs, overwritten, undoing, env>>

\* processStatusChanges: a status that enough reports of the node contradict becomes
\* the one that they show, unless the row is being deleted or has changed meanwhile.
Reconciles(i, s) ==
    /\ mode = "up" /\ i \in Editable /\ s \in Stable
    /\ inst[i] \notin {s, "deleting", "deleted"}
    /\ inst' = [inst EXCEPT ![i] = s]
    /\ overwritten' = overwritten \cup {i}
    /\ UNCHANGED <<rows, queued, chan, ctx, threads, scheduler, jobs, editing, undoing, env>>

-----------------------------------------------------------------------------
(* The process dies and everything but the database is lost; the next start   *)
(* ends whatever was in flight (cleanupInterruptedTasks) before it serves.   *)

Crash ==
    /\ mode \in {"up", "boot"} /\ crashes < MaxCrashes
    /\ crashes' = crashes + 1 /\ mode' = "down"
    /\ queued' = {} /\ chan' = <<>>
    /\ ctx' = [t \in Tasks |-> "none"]
    /\ pc' = [w \in Threads |-> "idle"]
    /\ job' = [w \in Threads |-> NoTask]
    /\ ok' = [w \in Threads |-> FALSE]
    /\ scan' = {} /\ cur' = NoTask /\ subpc' = "idle"
    /\ cleaner' = [t \in Tasks |-> "none"]
    /\ undoing' = {}
    /\ reap' = "no" /\ prey' = NoTask
    /\ repair' = [i \in Insts |-> "none"]
    /\ editing' = {}
    /\ UNCHANGED <<rows, inst, overwritten, faults>>

Interrupted == {t \in Tasks : status[t] \in InFlight}

Reboot ==
    /\ mode = "down" /\ mode' = "boot"
    /\ status' = [t \in Tasks |-> IF t \notin Interrupted THEN status[t]
                                  ELSE IF status[t] = "cancelling" THEN "cancelled" ELSE "failed"]
    /\ undoing' = Interrupted
    /\ UNCHANGED <<row, phase, reason, inst, queued, chan, ctx, threads, scheduler, jobs, edits, crashes, faults>>

Serve ==
    /\ mode = "boot" /\ undoing = {}
    /\ mode' = "up"
    /\ UNCHANGED <<rows, inst, queued, chan, ctx, threads, scheduler, jobs, edits, undoing, crashes, faults>>

-----------------------------------------------------------------------------

SchedulerStep == ScanPending \/ (\E t \in Tasks : SubmitReserve(t))
                 \/ SubmitClaim \/ SubmitRequeue

Execute(w) ==
    \/ PreflightFail(w) \/ BeginCall(w)
    \/ Succeeded(w) \/ Failed(w) \/ Unrecorded(w)
    \/ NotDeleted(w) \/ \E s \in BOOLEAN : Deleted(w, s)

WorkerStep(w) ==
    Register(w) \/ FailFull(w) \/ Unmark(w) \/ Claim(w) \/ RequeueLost(w) \/ Execute(w)

Finish(w) == Commit(w) \/ Release(w)

HelperStep(h) == \E s \in BOOLEAN : PostProcessed(h, s)

Cancel(t) == \E byAdmin \in BOOLEAN : CancelUnstarted(t, byAdmin) \/ CancelStarted(t, byAdmin)

CleanerStep(t) == GraceOver(t) \/ Finalize(t)

EditStep(i) == EditRead(i) \/ (\E s \in Saved : EditSave(i, s)) \/ EditDrop(i)

Rewrite(i) == EditStep(i) \/ \E s \in Saved : Reconciles(i, s)

ReaperStep == (\E t \in Tasks : ReapRead(t)) \/ ReapCheck \/ ReapOrphan \/ ReapHeld \/ ReapDead

Next ==
    \/ \E t \in Tasks, op \in Requests, i \in Insts, byAdmin \in BOOLEAN : CreateTask(t, op, i, byAdmin)
    \/ SchedulerStep
    \/ \E w \in Workers : WorkerStep(w)
    \/ \E h \in Helpers : HelperStep(h)
    \/ \E w \in Threads : Finish(w)
    \/ \E t \in Tasks : Expire(t) \/ Cancel(t) \/ CleanerStep(t) \/ Undo(t)
    \/ ReaperStep
    \/ \E i \in Insts : RepairRead(i) \/ RepairWrite(i) \/ Rewrite(i)
    \/ Crash \/ Reboot \/ Serve

Spec == Init /\ [][Next]_vars

\* Every goroutine that can go on does, provider calls return, the reaper keeps
\* coming back to each row that is old enough, and so does the repair job.
Fairness ==
    /\ WF_vars(SchedulerStep)
    /\ \A w \in Workers : WF_vars(WorkerStep(w))
    /\ \A h \in Helpers : WF_vars(HelperStep(h))
    /\ \A w \in Threads : WF_vars(Finish(w))
    /\ \A t \in Tasks : WF_vars(CleanerStep(t)) /\ WF_vars(Undo(t)) /\ SF_vars(ReapRead(t))
    /\ WF_vars(ReapCheck \/ ReapOrphan \/ ReapHeld \/ ReapDead)
    /\ \A i \in Insts : WF_vars(RepairRead(i)) /\ WF_vars(RepairWrite(i))
    /\ WF_vars(Reboot) /\ WF_vars(Serve)

FairSpec == Spec /\ Fairness

-----------------------------------------------------------------------------
(* Properties.                                                              *)

Executing(w) == pc[w] \in {"exec", "call", "post", "commit"}

\* At most one task that has not ended operates on an instance: the point of
\* the row lock and the count in reserveInstanceOperationInTx.
OneOpenTask == \A t, u \in Tasks :
    status[t] \in Active /\ status[u] \in Active /\ row[t].on = row[u].on => t = u

\* Two goroutines never operate on one instance at a time, whatever duplicate
\* queue entries, requeues, reaper passes and cancellations are under way.
OneCallPerInstance == \A v, w \in Threads :
    Executing(v) /\ Executing(w) /\ row[job[v]].on = row[job[w]].on => v = w

\* A task never ends under a provider call that is still active, and its context
\* stays registered until the call returned: scheduleCancellationCleanup and the
\* reaper rely on it before they end a row.
CallHoldsTask == \A w \in Threads :
    Executing(w) => status[job[w]] \in {"running", "cancelling"} /\ ctx[job[w]] # "none"

\* Past the destructive phase of a delete, the instance is never shown running
\* (recordLifecyclePhase), unless a later task made it so, the node shows it running,
\* or a write from an older read did: UpdateInstance and the repair job save without
\* looking again.
PastNoReturn == \A t \in Tasks :
    (/\ status[t] # "absent" /\ row[t].op \in Destructive /\ phase[t]
     /\ row[t].on \notin overwritten
     /\ \A u \in Tasks : u > t /\ status[u] # "absent" => row[u].on # row[t].on)
    => inst[row[t].on] # "running"

\* While nothing crashed and no database call failed, a task that was cancelled
\* or timed out does not leave its instance locked in the transition it had
\* reserved, unless its cleanup is still to run (handleCancelledTaskCleanup) or an
\* edit, the comparison or a late repair has changed that status since.
CancelledUnlocks == \A t \in Tasks :
    (/\ crashes = 0 /\ faults = 0
     /\ status[t] \in {"cancelled", "timeout"}
     /\ row[t].on \notin overwritten
     /\ \A u \in Tasks : u > t /\ status[u] # "absent" => row[u].on # row[t].on)
    => inst[row[t].on] # Transition(row[t].op) \/ t \in undoing

\* The cleanup of a task leaves an instance alone that another open task holds:
\* "cancellation cleanup only restores an instance that is still in this task's
\* transition state" (instance_operations.go).
CleanupKeepsOthers == [][\A t, u \in Tasks :
    (/\ t \in undoing /\ t \notin undoing' /\ t # u
     /\ status[u] \in Active /\ row[u].on = row[t].on)
    => inst'[row[u].on] = inst[row[u].on]]_vars

\* Every task that was admitted ends, whatever crashes, faults, lost replies and
\* cancellations it goes through.
EveryTaskEnds == \A t \in Tasks : status[t] \in Active ~> status[t] \in Terminal

\* No instance stays locked in an operation for ever.
EveryLockOpens == \A i \in Insts : inst[i] \in Busy ~> inst[i] \notin Busy

\* The engine implements the abstract life of a task: see TaskLifecycle.
InHand == {job[w] : w \in {v \in Threads : Executing(v)}}

Lifecycle == INSTANCE TaskLifecycle WITH executing <- InHand

\* A task is begun once, ends by its executor or when it has none, and is then
\* left alone: claims, requeues, the reaper and startup only move it forward.
ImplementsLifecycle == Lifecycle!Spec
=============================================================================
