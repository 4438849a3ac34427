----------------------------- MODULE ConfigTask -----------------------------
(***************************************************************************)
(* The configuration tasks of one provider (server/service/config/task.go and *)
(* the transitions of server/service/task/state_manager.go): requests create,  *)
(* start, force, cancel and finish them, and results that could not be saved   *)
(* are saved again.                                                          *)
(*                                                                          *)
(* The provider's entry of runningTasks, slot, is what keeps two operations    *)
(* from overlapping on the node; the row's status is what users and later      *)
(* tasks see.  A task is started once, so its number stands for its            *)
(* TaskContext.  A provider is none of another's business, so there is one.    *)
(***************************************************************************)
EXTENDS Naturals, FiniteSets

CONSTANTS
    Requests,    \* goroutines of HTTP requests and of what they leave running
    MaxTask,     \* bound: tasks created
    MaxAttempts, \* attempts of a retry goroutine, 3 in the code
    MaxCrashes, MaxFaults   \* bounds: ends of the process, failed database calls

ASSUME ConfigAssumption ==
    {MaxTask, MaxCrashes, MaxFaults} \subseteq Nat /\ MaxAttempts \in Nat \ {0}

Tasks == 1..MaxTask
NoTask == 0

VARIABLES
    status,     \* configuration_tasks.status
    slot,       \* TaskService.runningTasks of the provider
    signalled,  \* tasks whose context has been cancelled
    result,     \* TaskContext.completion
    saver,      \* who holds TaskContext.finishMu
    saved,      \* tasks whose result is saved and whose slot is still held
    retrying,   \* TaskContext.retrying
    attempts,   \* failed attempts of the retry goroutine
    pc, task,   \* place of a request and the task it created
    victim, goal,  \* the task it cancels, and why
    next,       \* the last number given to a row
    lost,       \* history: active rows that a failed call left to nobody
    crashes, faults

rows == <<status, next>>
context == <<slot, signalled, result, saver, saved, retrying, attempts>>
requests == <<pc, task, victim, goal>>
bounds == <<lost, crashes, faults>>
vars == <<rows, context, requests, bounds>>

Active == {"running", "cancelling"}
Terminal == {"completed", "failed", "cancelled"}
Status == {"none", "pending"} \cup Active \cup Terminal
Places == {"idle", "cancel", "signal", "wait", "released", "poll", "insert",
           "start", "check", "reserve", "begin", "withdraw", "run", "finish", "save"}

TypeOK ==
    /\ status \in [Tasks -> Status]
    /\ next \in 0..MaxTask
    /\ slot \in Tasks \cup {NoTask}
    /\ signalled \subseteq Tasks
    /\ result \in [Tasks -> {"none", "ok", "bad"}]
    /\ saver \in [Tasks -> {"nobody", "runner", "retry"}]
    /\ saved \subseteq Tasks
    /\ retrying \subseteq Tasks
    /\ attempts \in [Tasks -> 0..MaxAttempts]
    /\ pc \in [Requests -> Places]
    /\ task \in [Requests -> Tasks \cup {NoTask}]
    /\ victim \in [Requests -> Tasks \cup {NoTask}]
    /\ goal \in [Requests -> {"none", "force", "stop", "undo"}]
    /\ lost \subseteq Tasks /\ crashes \in 0..MaxCrashes /\ faults \in 0..MaxFaults

Init ==
    /\ status = [t \in Tasks |-> "none"] /\ next = 0
    /\ slot = NoTask /\ signalled = {}
    /\ result = [t \in Tasks |-> "none"]
    /\ saver = [t \in Tasks |-> "nobody"] /\ saved = {}
    /\ retrying = {} /\ attempts = [t \in Tasks |-> 0]
    /\ pc = [r \in Requests |-> "idle"] /\ task = [r \in Requests |-> NoTask]
    /\ victim = [r \in Requests |-> NoTask] /\ goal = [r \in Requests |-> "none"]
    /\ lost = {} /\ crashes = 0 /\ faults = 0

Go(r, place) == pc' = [pc EXCEPT ![r] = place]

\* A database call fails, or its reply is lost.
Fault == faults < MaxFaults /\ faults' = faults + 1

End(r) ==
    /\ Go(r, "idle")
    /\ task' = [task EXCEPT ![r] = NoTask] /\ victim' = [victim EXCEPT ![r] = NoTask]
    /\ goal' = [goal EXCEPT ![r] = "none"]

-----------------------------------------------------------------------------
(* AutoConfigureProvider, first part: a task in the way, and force.           *)

\* GetRunningTask sees the provider free.
Look(r) ==
    /\ pc[r] = "idle" /\ slot = NoTask /\ next < MaxTask
    /\ next' = next + 1 /\ task' = [task EXCEPT ![r] = next + 1]
    /\ Go(r, "insert")
    /\ UNCHANGED <<status, context, victim, goal, bounds>>

CancelOf(r, t, why) ==
    /\ Go(r, "cancel")
    /\ victim' = [victim EXCEPT ![r] = t] /\ goal' = [goal EXCEPT ![r] = why]

\* A task that is not yet being cancelled may be forced out of the way.
Rerun(r) ==
    /\ pc[r] = "idle" /\ slot # NoTask /\ slot \notin signalled
    /\ CancelOf(r, slot, "force")
    /\ UNCHANGED <<rows, context, task, bounds>>

\* CancelConfigurationTask, of any task.
Stop(r) ==
    /\ pc[r] = "idle"
    /\ \E t \in Tasks : status[t] # "none" /\ CancelOf(r, t, "stop")
    /\ UNCHANGED <<rows, context, task, bounds>>

Cancelled(st) ==
    CASE st = "pending" -> "cancelled"
      [] st = "running" -> "cancelling"
      [] OTHER -> st

\* CancelConfigTask; a call that failed may have cancelled the row.
Cancel(r) == LET t == victim[r] IN
    /\ pc[r] = "cancel"
    /\ \/ /\ status' = [status EXCEPT ![t] = Cancelled(@)] /\ UNCHANGED faults
          /\ \/ /\ status[t] \notin {"completed", "failed"}
                /\ Go(r, "signal") /\ UNCHANGED <<task, victim, goal>>
             \/ status[t] \in {"completed", "failed"} /\ End(r)
       \/ /\ Fault /\ End(r)
          /\ status' \in {status, [status EXCEPT ![t] = Cancelled(@)]}
    /\ UNCHANGED <<next, context, lost, crashes>>

\* Mutant: the provider is free as soon as its task is told to stop.
KeptNot(t) == IF slot = t THEN NoTask ELSE slot

Kept(t) == slot

\* cancelRunningTaskContext.
Signal(r) == LET t == victim[r] IN
    /\ pc[r] = "signal"
    /\ signalled' = IF slot = t THEN signalled \cup {t} ELSE signalled
    /\ slot' = Kept(t)
    /\ IF goal[r] = "force"
       THEN Go(r, "wait") /\ UNCHANGED <<task, victim, goal>>
       ELSE End(r)
    /\ UNCHANGED <<rows, result, saver, saved, retrying, attempts, bounds>>

\* Mutant: what could not be saved is not tried again.
RetriedNever == UNCHANGED <<retrying, attempts>>

\* retryFinishedTask, called by a request or by a failed FinishTask.
Retried ==
    IF slot # NoTask /\ slot \notin retrying /\ result[slot] # "none"
    THEN /\ retrying' = retrying \cup {slot}
         /\ attempts' = [attempts EXCEPT ![slot] = 0]
    ELSE UNCHANGED <<retrying, attempts>>

\* WaitForTaskRelease: by the owner's Done if there is one, else by the row.
Wait(r) ==
    /\ pc[r] = "wait" /\ Retried
    /\ Go(r, IF slot = victim[r] THEN "released" ELSE "poll")
    /\ UNCHANGED <<rows, slot, signalled, result, saver, saved, task, victim, goal, bounds>>

\* Mutant: a task that has been told to stop counts as stopped.
FreeWhenStopped(r, t) == pc[r] \in {"released", "poll"} /\ status[t] # "running"

Free(r, t) ==
    \/ pc[r] = "released" /\ slot # t
    \/ pc[r] = "poll" /\ status[t] \notin Active

\* Then a task is created; or the wait is over first, or the row cannot be read.
Released(r) ==
    \/ /\ Free(r, victim[r]) /\ next < MaxTask
       /\ next' = next + 1 /\ task' = [task EXCEPT ![r] = next + 1]
       /\ victim' = [victim EXCEPT ![r] = NoTask] /\ goal' = [goal EXCEPT ![r] = "none"]
       /\ Go(r, "insert") /\ UNCHANGED <<status, context, bounds>>
    \/ /\ pc[r] \in {"released", "poll"} /\ End(r)
       /\ UNCHANGED <<rows, context, bounds>>

-----------------------------------------------------------------------------
(* CreateTask and StartTask.  A number is given before its row is visible.    *)

Insert(r) == LET t == task[r] IN
    /\ pc[r] = "insert"
    /\ \/ /\ status' = [status EXCEPT ![t] = "pending"] /\ Go(r, "start")
          /\ UNCHANGED <<task, victim, goal, faults>>
       \/ /\ Fault /\ End(r)
          /\ status' \in {status, [status EXCEPT ![t] = "pending"]}
    /\ UNCHANGED <<next, context, lost, crashes>>

\* A start that failed cancels its row.
Undo(r) == CancelOf(r, task[r], "undo")

Start(r) == LET t == task[r] IN
    /\ pc[r] = "start"
    /\ \/ /\ status[t] = "pending" /\ Retried /\ Go(r, "check")
          /\ UNCHANGED <<victim, goal, faults>>
       \/ /\ \/ status[t] # "pending" /\ UNCHANGED faults
             \/ Fault
          /\ Undo(r) /\ UNCHANGED <<retrying, attempts>>
    /\ UNCHANGED <<rows, slot, signalled, result, saver, saved, task, lost, crashes>>

\* Tasks of one provider are started in the order of their numbers.
Earlier(t) == \E u \in Tasks \ {t} :
    status[u] \in Active \/ (status[u] = "pending" /\ u < t)

Check(r) ==
    /\ pc[r] = "check"
    /\ \/ ~Earlier(task[r]) /\ Go(r, "reserve") /\ UNCHANGED <<victim, goal, faults>>
       \/ /\ \/ Earlier(task[r]) /\ UNCHANGED faults
             \/ Fault
          /\ Undo(r)
    /\ UNCHANGED <<rows, context, task, lost, crashes>>

\* Mutant: the entry is written without a look at who is there.
VacantUnchecked == TRUE

Vacant == slot = NoTask

Reserve(r) ==
    /\ pc[r] = "reserve"
    /\ \/ Vacant /\ slot' = task[r] /\ Go(r, "begin") /\ UNCHANGED <<victim, goal>>
       \/ slot # NoTask /\ Undo(r) /\ UNCHANGED slot
    /\ UNCHANGED <<rows, signalled, result, saver, saved, retrying, attempts, task, bounds>>

\* StartConfigTask.  The goroutine that configures is started with its success.
Begin(r) == LET t == task[r] IN
    /\ pc[r] = "begin"
    /\ \/ /\ status[t] = "pending" /\ status' = [status EXCEPT ![t] = "running"]
          /\ Go(r, "run") /\ UNCHANGED faults
       \/ /\ status[t] # "pending" /\ Go(r, "withdraw") /\ UNCHANGED <<status, faults>>
       \/ /\ Fault /\ Go(r, "withdraw")
          /\ \/ UNCHANGED status
             \/ status[t] = "pending" /\ status' = [status EXCEPT ![t] = "running"]
    /\ lost' = IF status'[t] = "running" /\ pc'[r] # "run" THEN lost \cup {t} ELSE lost
    /\ UNCHANGED <<next, context, task, victim, goal, crashes>>

\* removeRunningTask after a start that failed.
Withdraw(r) ==
    /\ pc[r] = "withdraw"
    /\ slot' = IF slot = task[r] THEN NoTask ELSE slot
    /\ signalled' = signalled \cup {task[r]}
    /\ Undo(r)
    /\ UNCHANGED <<rows, result, saver, saved, retrying, attempts, task, bounds>>

-----------------------------------------------------------------------------
(* The configuration itself, and FinishTask.                                 *)

\* The provider has answered and FinishTask puts its answer down.  The context may
\* be cancelled after the last look at it, so a cancelled task may have succeeded.
Execute(r) == LET t == task[r] IN
    /\ pc[r] = "run"
    /\ \E res \in {"ok", "bad"} :
         result' = IF slot = t THEN [result EXCEPT ![t] = res] ELSE result
    /\ Go(r, "finish")
    /\ UNCHANGED <<rows, slot, signalled, saver, saved, retrying, attempts, task, victim, goal,
                   bounds>>

\* persistCompletion, first part: finishMu is locked and the entry read.
Hold(t, who) ==
    /\ saver[t] = "nobody"
    /\ saver' = IF slot = t THEN [saver EXCEPT ![t] = who] ELSE saver

Finish(r) == LET t == task[r] IN
    /\ pc[r] = "finish" /\ Hold(t, "runner")
    /\ IF slot = t THEN Go(r, "save") /\ UNCHANGED <<task, victim, goal>> ELSE End(r)
    /\ UNCHANGED <<rows, slot, signalled, result, saved, retrying, attempts, bounds>>

\* Mutant: a late answer does not look at what became of the row.
CompletedLate(st, res) == IF res = "ok" THEN "completed" ELSE "failed"

\* CompleteConfigTask.
Completed(st, res) ==
    CASE st \in Terminal -> st
      [] st = "cancelling" -> "cancelled"
      [] OTHER -> IF res = "ok" THEN "completed" ELSE "failed"

Saved(t) == [status EXCEPT ![t] = Completed(@, result[t])]

Save(t) == t \notin saved /\ status' = Saved(t) /\ saved' = saved \cup {t}

\* A save that failed may have been done.
SaveFailed(t) ==
    /\ t \notin saved /\ Fault
    /\ status' \in {status, Saved(t)}
    /\ saver' = [saver EXCEPT ![t] = "nobody"]

\* The entry is removed, Done closed and the context cancelled.
Remove(t) ==
    /\ t \in saved /\ saved' = saved \ {t}
    /\ slot' = IF slot = t THEN NoTask ELSE slot
    /\ signalled' = signalled \cup {t}
    /\ saver' = [saver EXCEPT ![t] = "nobody"]

FinishSave(r) == LET t == task[r] IN
    /\ pc[r] = "save" /\ saver[t] = "runner"
    /\ \/ /\ Save(t) /\ UNCHANGED <<slot, signalled, saver, retrying, attempts, requests, faults>>
       \/ /\ SaveFailed(t) /\ Retried /\ End(r) /\ UNCHANGED <<slot, signalled, saved>>
       \/ /\ Remove(t) /\ End(r) /\ UNCHANGED <<status, retrying, attempts, faults>>
    /\ UNCHANGED <<next, result, lost, crashes>>

Exhausted(t) == attempts[t] + 1 = MaxAttempts

\* An attempt of the retry goroutine; it ends with the first that succeeds.
Retry(t) ==
    /\ t \in retrying
    /\ \/ /\ Hold(t, "retry")
          /\ retrying' = IF slot = t THEN retrying ELSE retrying \ {t}
          /\ UNCHANGED <<status, slot, signalled, saved, attempts, faults>>
       \/ /\ saver[t] = "retry" /\ Save(t)
          /\ UNCHANGED <<slot, signalled, saver, retrying, attempts, faults>>
       \/ /\ saver[t] = "retry" /\ SaveFailed(t)
          /\ attempts' = [attempts EXCEPT ![t] = @ + 1]
          /\ retrying' = IF Exhausted(t) THEN retrying \ {t} ELSE retrying
          /\ UNCHANGED <<slot, signalled, saved>>
       \/ /\ saver[t] = "retry" /\ Remove(t)
          /\ retrying' = retrying \ {t}
          /\ UNCHANGED <<status, attempts, faults>>
    /\ UNCHANGED <<next, result, requests, lost, crashes>>

\* The process ends; the next one cancels what is unfinished before it serves.
Reboot ==
    /\ crashes < MaxCrashes /\ crashes' = crashes + 1
    /\ \/ /\ status' = [t \in Tasks |->
                IF status[t] \in {"pending"} \cup Active THEN "cancelled" ELSE status[t]]
          /\ UNCHANGED faults
       \/ Fault /\ UNCHANGED status
    /\ lost' = {t \in Tasks : status'[t] \in Active}
    /\ slot' = NoTask /\ signalled' = {} /\ saved' = {} /\ retrying' = {}
    /\ result' = [t \in Tasks |-> "none"] /\ saver' = [t \in Tasks |-> "nobody"]
    /\ attempts' = [t \in Tasks |-> 0]
    /\ pc' = [r \in Requests |-> "idle"] /\ task' = [r \in Requests |-> NoTask]
    /\ victim' = task' /\ goal' = [r \in Requests |-> "none"]
    /\ UNCHANGED next

-----------------------------------------------------------------------------

Handle(r) ==
    \/ Cancel(r) \/ Signal(r) \/ Wait(r) \/ Released(r)
    \/ Insert(r) \/ Start(r) \/ Check(r) \/ Reserve(r) \/ Begin(r) \/ Withdraw(r)
    \/ Execute(r) \/ Finish(r) \/ FinishSave(r)

Next ==
    \/ \E r \in Requests : Look(r) \/ Rerun(r) \/ Stop(r) \/ Handle(r)
    \/ \E t \in Tasks : Retry(t)
    \/ Reboot

Spec == Init /\ [][Next]_vars

\* Goroutines go on and calls return; finishMu is held for a few attempts only.
FairSpec == Spec
    /\ \A r \in Requests : WF_vars(Handle(r))
    /\ \A t \in Tasks : WF_vars(Retry(t))

-----------------------------------------------------------------------------
(* Properties.                                                              *)

\* A request's goroutine that has not had the provider's answer.
Configuring(r) == pc[r] = "run"

\* "never start a second provider configuration concurrently" (config_task.go):
\* whatever requests, forced reruns, cancellations and retries do, one goroutine
\* at most configures the provider.
OneConfiguration == \A r, q \in Requests : Configuring(r) /\ Configuring(q) => r = q

\* WaitForTaskRelease: a forced rerun goes on only when the task it cancelled
\* is no longer executed.
RerunWaits == [][\A r, q \in Requests :
    pc[r] \in {"released", "poll"} /\ pc'[r] = "insert" =>
        ~(task[q] = victim[r] /\ Configuring(q))]_vars

\* A row that runs or is being cancelled belongs to somebody in this process
\* who will end it: without an owner it would block the provider's queue.  The
\* exceptions are a start whose reply was lost and a failed startup cleanup.
ActiveIsOwned == \A t \in Tasks : status[t] \in Active => slot = t \/ t \in lost

\* "a late provider response cannot resurrect a cancelled task": what is being
\* cancelled ends as cancelled, and what has ended stays as it is.
CancelWins == [][\A t \in Tasks :
    /\ status[t] = "cancelling" => status'[t] \in {"cancelling", "cancelled"}
    /\ status[t] \in Terminal => status'[t] = status[t]]_vars

\* A reserved provider is released, unless the database refused the result in
\* every attempt.
SlotOpens == \A t \in Tasks : slot = t ~> slot # t \/ attempts[t] = MaxAttempts
=============================================================================
