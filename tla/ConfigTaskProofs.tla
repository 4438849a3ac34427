-------------------------- MODULE ConfigTaskProofs --------------------------
(***************************************************************************)
(* Theorems about the configuration tasks of a provider, for any number of   *)
(* requests, tasks, crashes, failed calls and attempts of a retry.           *)
(*                                                                          *)
(* The argument is about ownership: a task's number is one request's, so the  *)
(* provider's slot can be freed only by that request or, once it has put a     *)
(* result down, by the retry of its save; and a task without a result is not   *)
(* saved, so nothing but a cancellation moves its row while it runs.         *)
(***************************************************************************)
EXTENDS ConfigTask, TLAPS

Before == {"insert", "start", "check", "reserve", "begin"}
Cancels == {"cancel", "signal", "wait", "released", "poll"}

Numbered == \A r \in Requests :
    /\ task[r] <= next
    /\ pc[r] \in Before \cup {"withdraw", "run", "finish", "save"} => task[r] # NoTask
    /\ pc[r] \in Cancels => victim[r] # NoTask

OneRequest == \A r, q \in Requests : task[r] = task[q] /\ task[r] # NoTask => r = q

Fresh == \A t \in Tasks : t > next => status[t] = "none" /\ result[t] = "none"

\* What the place of a request says of its task.
PlacedAt(r) ==
    /\ pc[r] \in Before \cup {"withdraw", "run"} => result[task[r]] = "none"
    /\ pc[r] \in {"finish", "save"} => result[task[r]] # "none"
    /\ pc[r] = "insert" => status[task[r]] = "none"
    /\ pc[r] \in Before => status[task[r]] \notin Active
    /\ pc[r] = "withdraw" => status[task[r]] \notin Active \/ task[r] \in lost
    /\ pc[r] = "run" => status[task[r]] \in Active

Placed == \A r \in Requests : PlacedAt(r)

Held == \A r \in Requests : pc[r] \in {"begin", "withdraw", "run"} => slot = task[r]

\* Only a task with a result is saved.
Results == \A t \in Tasks :
    /\ t \in retrying => result[t] # "none" /\ attempts[t] < MaxAttempts
    /\ saver[t] # "nobody" => result[t] # "none"
    /\ t \in saved => result[t] # "none" /\ status[t] \in Terminal

RowsTyped == status \in [Tasks -> Status] /\ next \in 0..MaxTask

ContextTyped ==
    /\ slot \in Tasks \cup {NoTask}
    /\ signalled \subseteq Tasks /\ saved \subseteq Tasks /\ retrying \subseteq Tasks
    /\ result \in [Tasks -> {"none", "ok", "bad"}]
    /\ saver \in [Tasks -> {"nobody", "runner", "retry"}]
    /\ attempts \in [Tasks -> 0..MaxAttempts]

RequestsTyped ==
    /\ pc \in [Requests -> Places]
    /\ task \in [Requests -> Tasks \cup {NoTask}]
    /\ victim \in [Requests -> Tasks \cup {NoTask}]
    /\ goal \in [Requests -> {"none", "force", "stop", "undo"}]

BoundsTyped == lost \subseteq Tasks /\ crashes \in 0..MaxCrashes /\ faults \in 0..MaxFaults

IInv == /\ RowsTyped /\ ContextTyped /\ RequestsTyped /\ BoundsTyped
        /\ Numbered /\ OneRequest /\ Fresh /\ Placed /\ Held /\ Results /\ ActiveIsOwned

-----------------------------------------------------------------------------
(* What the transitions of state_manager.go do to a status.                  *)

\* A cancellation neither starts nor ends anything that is executed.
LEMMA CancelledStatus ==
  ASSUME NEW st \in Status
  PROVE  /\ Cancelled(st) \in Status
         /\ Cancelled(st) \in Active <=> st \in Active
         /\ st \in Terminal => Cancelled(st) = st
         /\ st = "none" => Cancelled(st) = st
         /\ st = "cancelling" => Cancelled(st) = st
  BY DEF Cancelled, Status, Active, Terminal

\* A completion ends a task, and as cancelled if that is what it is becoming.
LEMMA CompletedStatus ==
  ASSUME NEW st, NEW res
  PROVE  /\ Completed(st, res) \in Terminal
         /\ st \in Terminal => Completed(st, res) = st
         /\ st = "cancelling" => Completed(st, res) = "cancelled"
  BY DEF Completed, Terminal

-----------------------------------------------------------------------------
(* The invariant is inductive.                                               *)

LEMMA IInvInit == Init => IInv
  BY ConfigAssumption DEF Init, IInv, RowsTyped, ContextTyped, RequestsTyped, BoundsTyped,
     Status, Places,
     Numbered, OneRequest, Fresh, Placed, PlacedAt, Held, Results,
     ActiveIsOwned, Tasks, NoTask, Before, Cancels, Active, Terminal

\* How a request moves: it ends, goes on, or turns to cancelling a task.
LEMMA EndTyped ==
  ASSUME RequestsTyped, NEW r \in Requests, End(r)
  PROVE  RequestsTyped'
  BY DEF RequestsTyped, End, Go, Places

LEMMA GoTyped ==
  ASSUME RequestsTyped, NEW r \in Requests, NEW p \in Places, Go(r, p), UNCHANGED <<task, victim,
     goal>>
  PROVE  RequestsTyped'
  BY DEF RequestsTyped, Go

LEMMA CancelOfTyped ==
  ASSUME RequestsTyped, NEW r \in Requests, NEW t \in Tasks \cup {NoTask},
         NEW why \in {"force", "stop", "undo"}, CancelOf(r, t, why), UNCHANGED task
  PROVE  RequestsTyped'
  BY DEF RequestsTyped, CancelOf, Go, Places

\* Requests stay at places of the program and hold tasks.
LEMMA RequestsNext == RowsTyped /\ ContextTyped /\ RequestsTyped /\ [Next]_vars => RequestsTyped'
  <1> SUFFICES ASSUME RowsTyped /\ ContextTyped /\ RequestsTyped, [Next]_vars PROVE RequestsTyped'
    OBVIOUS
  <1> USE ConfigAssumption DEF RowsTyped, ContextTyped, RequestsTyped, Tasks, NoTask, Places,
     rows, context, requests, bounds
  <1>1. ASSUME NEW r \in Requests, Look(r) PROVE RequestsTyped'
    BY <1>1 DEF Look, Go
  <1>2. ASSUME NEW r \in Requests, Rerun(r) PROVE RequestsTyped'
    BY <1>2, CancelOfTyped DEF Rerun
  <1>3. ASSUME NEW r \in Requests, Stop(r) PROVE RequestsTyped'
    BY <1>3, CancelOfTyped DEF Stop
  <1>4. ASSUME NEW r \in Requests, Cancel(r) PROVE RequestsTyped'
    BY <1>4, EndTyped, GoTyped DEF Cancel
  <1>5. ASSUME NEW r \in Requests, Signal(r) PROVE RequestsTyped'
    BY <1>5, EndTyped, GoTyped DEF Signal
  <1>6. ASSUME NEW r \in Requests, Wait(r) PROVE RequestsTyped'
    BY <1>6, GoTyped DEF Wait
  <1>7. ASSUME NEW r \in Requests, Released(r) PROVE RequestsTyped'
    <2>1. CASE Free(r, victim[r]) /\ next' = next + 1 /\ task' = [task EXCEPT ![r] = next + 1]
               /\ next < MaxTask /\ Go(r, "insert")
               /\ victim' = [victim EXCEPT ![r] = NoTask] /\ goal' = [goal EXCEPT ![r] = "none"]
      <3>1. next + 1 \in Tasks
        BY <2>1
      <3> QED
        BY <2>1, <3>1 DEF Go
    <2>2. CASE End(r)
      BY <2>2 DEF End, Go
    <2> QED
      BY <1>7, <2>1, <2>2 DEF Released
  <1>8. ASSUME NEW r \in Requests, Insert(r) PROVE RequestsTyped'
    BY <1>8, EndTyped, GoTyped DEF Insert
  <1>9. ASSUME NEW r \in Requests, Start(r) PROVE RequestsTyped'
    BY <1>9, GoTyped, CancelOfTyped DEF Start, Undo
  <1>10. ASSUME NEW r \in Requests, Check(r) PROVE RequestsTyped'
    BY <1>10, GoTyped, CancelOfTyped DEF Check, Undo
  <1>11. ASSUME NEW r \in Requests, Reserve(r) PROVE RequestsTyped'
    BY <1>11, GoTyped, CancelOfTyped DEF Reserve, Undo
  <1>12. ASSUME NEW r \in Requests, Begin(r) PROVE RequestsTyped'
    BY <1>12, GoTyped DEF Begin
  <1>13. ASSUME NEW r \in Requests, Withdraw(r) PROVE RequestsTyped'
    BY <1>13, CancelOfTyped DEF Withdraw, Undo
  <1>14. ASSUME NEW r \in Requests, Execute(r) PROVE RequestsTyped'
    BY <1>14, GoTyped DEF Execute
  <1>15. ASSUME NEW r \in Requests, Finish(r) PROVE RequestsTyped'
    BY <1>15, EndTyped, GoTyped DEF Finish
  <1>16. ASSUME NEW r \in Requests, FinishSave(r) PROVE RequestsTyped'
    BY <1>16, EndTyped DEF FinishSave, Remove
  <1>17. ASSUME NEW t \in Tasks, Retry(t) PROVE RequestsTyped'
    BY <1>17 DEF Retry, Hold, Save, SaveFailed, Remove, Saved, Exhausted, Fault
  <1>18. ASSUME Reboot PROVE RequestsTyped'
    BY <1>18 DEF Reboot, Fault
  <1>19. CASE UNCHANGED vars
    BY <1>19 DEF vars
  <1> QED
    BY <1>1, <1>2, <1>3, <1>4, <1>5, <1>6, <1>7, <1>8, <1>9, <1>10, <1>11, <1>12, <1>13, <1>14,
       <1>15, <1>16, <1>17, <1>18, <1>19 DEF Next, Handle

\* Rows keep statuses of the model.
LEMMA RowsNext == RowsTyped /\ RequestsTyped /\ [Next]_vars => RowsTyped'
  <1> SUFFICES ASSUME RowsTyped /\ RequestsTyped, [Next]_vars PROVE RowsTyped'
    OBVIOUS
  <1> USE ConfigAssumption DEF RowsTyped, RequestsTyped, Tasks, NoTask, Status, Active, Terminal,
     rows, context, requests, bounds
  <1>1. ASSUME NEW r \in Requests, Look(r) PROVE RowsTyped'
    BY <1>1 DEF Look, Go
  <1>2. ASSUME NEW r \in Requests, Rerun(r) PROVE RowsTyped'
    BY <1>2 DEF Rerun, CancelOf, Go
  <1>3. ASSUME NEW r \in Requests, Stop(r) PROVE RowsTyped'
    BY <1>3 DEF Stop, CancelOf, Go
  <1>4. ASSUME NEW r \in Requests, Cancel(r) PROVE RowsTyped'
    BY <1>4, CancelledStatus DEF Cancel, Fault, End, Go
  <1>5. ASSUME NEW r \in Requests, Signal(r) PROVE RowsTyped'
    BY <1>5 DEF Signal, Kept, Go, End
  <1>6. ASSUME NEW r \in Requests, Wait(r) PROVE RowsTyped'
    BY <1>6 DEF Wait, Retried, Go
  <1>7. ASSUME NEW r \in Requests, Released(r) PROVE RowsTyped'
    BY <1>7 DEF Released, Go, End
  <1>8. ASSUME NEW r \in Requests, Insert(r) PROVE RowsTyped'
    BY <1>8 DEF Insert, Go, Fault, End
  <1>9. ASSUME NEW r \in Requests, Start(r) PROVE RowsTyped'
    BY <1>9 DEF Start, Retried, Go, Fault, Undo, CancelOf
  <1>10. ASSUME NEW r \in Requests, Check(r) PROVE RowsTyped'
    BY <1>10 DEF Check, Go, Fault, Undo, CancelOf
  <1>11. ASSUME NEW r \in Requests, Reserve(r) PROVE RowsTyped'
    BY <1>11 DEF Reserve, Vacant, Go, Undo, CancelOf
  <1>12. ASSUME NEW r \in Requests, Begin(r) PROVE RowsTyped'
    BY <1>12 DEF Begin, Go, Fault
  <1>13. ASSUME NEW r \in Requests, Withdraw(r) PROVE RowsTyped'
    BY <1>13 DEF Withdraw, Undo, CancelOf, Go
  <1>14. ASSUME NEW r \in Requests, Execute(r) PROVE RowsTyped'
    BY <1>14 DEF Execute, Go
  <1>15. ASSUME NEW r \in Requests, Finish(r) PROVE RowsTyped'
    BY <1>15 DEF Finish, Hold, Go, End
  <1>16. ASSUME NEW r \in Requests, FinishSave(r) PROVE RowsTyped'
    <2>1. Saved(task[r]) \in [Tasks -> Status]
      BY CompletedStatus DEF Saved
    <2> QED
      BY <1>16, <2>1 DEF FinishSave, Save, SaveFailed, Remove
  <1>17. ASSUME NEW t \in Tasks, Retry(t) PROVE RowsTyped'
    BY <1>17, CompletedStatus DEF Retry, Hold, Save, SaveFailed, Remove, Saved, Exhausted, Fault
  <1>18. ASSUME Reboot PROVE RowsTyped'
    BY <1>18 DEF Reboot, Fault
  <1>19. CASE UNCHANGED vars
    BY <1>19 DEF vars
  <1> QED
    BY <1>1, <1>2, <1>3, <1>4, <1>5, <1>6, <1>7, <1>8, <1>9, <1>10, <1>11, <1>12, <1>13, <1>14,
       <1>15, <1>16, <1>17, <1>18, <1>19 DEF Next, Handle

\* A retry starts with no attempt made.
LEMMA RetriedTyped ==
  ASSUME ContextTyped, Retried
  PROVE  retrying' \subseteq Tasks /\ attempts' \in [Tasks -> 0..MaxAttempts]
  BY ConfigAssumption DEF ContextTyped, Retried

\* A retry makes no more attempts than it may.
LEMMA ContextNext == ContextTyped /\ RequestsTyped /\ Results /\ Numbered /\ [Next]_vars => ContextTyped'
  <1> SUFFICES ASSUME ContextTyped /\ RequestsTyped /\ Results /\ Numbered,
     [Next]_vars PROVE ContextTyped'
    OBVIOUS
  <1> USE ConfigAssumption DEF ContextTyped, RequestsTyped, Results, Numbered, Before, Cancels,
     Tasks, NoTask, rows, context, requests, bounds
  <1>1. ASSUME NEW r \in Requests, Look(r) PROVE ContextTyped'
    BY <1>1 DEF Look, Go
  <1>2. ASSUME NEW r \in Requests, Rerun(r) PROVE ContextTyped'
    BY <1>2 DEF Rerun, CancelOf, Go
  <1>3. ASSUME NEW r \in Requests, Stop(r) PROVE ContextTyped'
    BY <1>3 DEF Stop, CancelOf, Go
  <1>4. ASSUME NEW r \in Requests, Cancel(r) PROVE ContextTyped'
    BY <1>4 DEF Cancel, Fault, End, Go
  <1>5. ASSUME NEW r \in Requests, Signal(r) PROVE ContextTyped'
    <2>1. victim[r] \in Tasks
      BY <1>5 DEF Signal
    <2> QED
      BY <1>5, <2>1 DEF Signal, Kept
  <1>6. ASSUME NEW r \in Requests, Wait(r) PROVE ContextTyped'
    BY <1>6, RetriedTyped DEF Wait
  <1>7. ASSUME NEW r \in Requests, Released(r) PROVE ContextTyped'
    BY <1>7 DEF Released, Go, End
  <1>8. ASSUME NEW r \in Requests, Insert(r) PROVE ContextTyped'
    BY <1>8 DEF Insert, Go, Fault, End
  <1>9. ASSUME NEW r \in Requests, Start(r) PROVE ContextTyped'
    BY <1>9, RetriedTyped DEF Start
  <1>10. ASSUME NEW r \in Requests, Check(r) PROVE ContextTyped'
    BY <1>10 DEF Check, Go, Fault, Undo, CancelOf
  <1>11. ASSUME NEW r \in Requests, Reserve(r) PROVE ContextTyped'
    BY <1>11 DEF Reserve, Vacant, Go, Undo, CancelOf
  <1>12. ASSUME NEW r \in Requests, Begin(r) PROVE ContextTyped'
    BY <1>12 DEF Begin, Go, Fault
  <1>13. ASSUME NEW r \in Requests, Withdraw(r) PROVE ContextTyped'
    <2>1. task[r] \in Tasks
      BY <1>13 DEF Withdraw
    <2> QED
      BY <1>13, <2>1 DEF Withdraw
  <1>14. ASSUME NEW r \in Requests, Execute(r) PROVE ContextTyped'
    BY <1>14 DEF Execute, Go
  <1>15. ASSUME NEW r \in Requests, Finish(r) PROVE ContextTyped'
    BY <1>15 DEF Finish, Hold, Go, End
  <1>16. ASSUME NEW r \in Requests, FinishSave(r) PROVE ContextTyped'
    <2>1. task[r] \in Tasks
      BY <1>16 DEF FinishSave
    <2>2. CASE Save(task[r]) /\ UNCHANGED <<slot, signalled, saver, retrying, attempts>>
      BY <1>16, <2>1, <2>2 DEF FinishSave, Save
    <2>3. CASE SaveFailed(task[r]) /\ Retried /\ UNCHANGED <<slot, signalled, saved>>
      BY <1>16, <2>1, <2>3, RetriedTyped DEF FinishSave, SaveFailed
    <2>4. CASE Remove(task[r]) /\ UNCHANGED <<retrying, attempts>>
      BY <1>16, <2>1, <2>4 DEF FinishSave, Remove
    <2> QED
      BY <1>16, <2>2, <2>3, <2>4 DEF FinishSave
  <1>17. ASSUME NEW t \in Tasks, Retry(t) PROVE ContextTyped'
    <2>1. attempts' \in [Tasks -> 0..MaxAttempts]
      <3>1. attempts[t] < MaxAttempts
        BY <1>17 DEF Retry
      <3> QED
        BY <1>17, <3>1 DEF Retry
    <2>2. retrying' \subseteq Tasks /\ signalled' \subseteq Tasks /\ saved' \subseteq Tasks
      BY <1>17 DEF Retry, Save, Remove
    <2>3. slot' \in Tasks \cup {NoTask} /\ saver' \in [Tasks -> {"nobody", "runner", "retry"}]
      BY <1>17 DEF Retry, Hold, Save, SaveFailed, Remove
    <2> QED
      BY <1>17, <2>1, <2>2, <2>3 DEF Retry
  <1>18. ASSUME Reboot PROVE ContextTyped'
    BY <1>18 DEF Reboot, Fault
  <1>19. CASE UNCHANGED vars
    BY <1>19 DEF vars
  <1> QED
    BY <1>1, <1>2, <1>3, <1>4, <1>5, <1>6, <1>7, <1>8, <1>9, <1>10, <1>11, <1>12, <1>13, <1>14,
       <1>15, <1>16, <1>17, <1>18, <1>19 DEF Next, Handle

\* The bounds hold.
LEMMA BoundsNext == RowsTyped /\ RequestsTyped /\ Numbered /\ BoundsTyped /\ [Next]_vars => BoundsTyped'
  <1> SUFFICES ASSUME RowsTyped /\ RequestsTyped /\ Numbered /\ BoundsTyped,
     [Next]_vars PROVE BoundsTyped'
    OBVIOUS
  <1> USE ConfigAssumption DEF Numbered, Before, BoundsTyped, RowsTyped, RequestsTyped, Tasks,
     NoTask, rows, context, requests, bounds
  <1>1. ASSUME NEW r \in Requests, Look(r) PROVE BoundsTyped'
    BY <1>1 DEF Look, Go
  <1>2. ASSUME NEW r \in Requests, Rerun(r) PROVE BoundsTyped'
    BY <1>2 DEF Rerun, CancelOf, Go
  <1>3. ASSUME NEW r \in Requests, Stop(r) PROVE BoundsTyped'
    BY <1>3 DEF Stop, CancelOf, Go
  <1>4. ASSUME NEW r \in Requests, Cancel(r) PROVE BoundsTyped'
    BY <1>4 DEF Cancel, Fault, End, Go
  <1>5. ASSUME NEW r \in Requests, Signal(r) PROVE BoundsTyped'
    BY <1>5 DEF Signal, Kept, Go, End
  <1>6. ASSUME NEW r \in Requests, Wait(r) PROVE BoundsTyped'
    BY <1>6 DEF Wait, Retried, Go
  <1>7. ASSUME NEW r \in Requests, Released(r) PROVE BoundsTyped'
    BY <1>7 DEF Released, Go, End
  <1>8. ASSUME NEW r \in Requests, Insert(r) PROVE BoundsTyped'
    BY <1>8 DEF Insert, Go, Fault, End
  <1>9. ASSUME NEW r \in Requests, Start(r) PROVE BoundsTyped'
    BY <1>9 DEF Start, Retried, Go, Fault, Undo, CancelOf
  <1>10. ASSUME NEW r \in Requests, Check(r) PROVE BoundsTyped'
    BY <1>10 DEF Check, Go, Fault, Undo, CancelOf
  <1>11. ASSUME NEW r \in Requests, Reserve(r) PROVE BoundsTyped'
    BY <1>11 DEF Reserve, Vacant, Go, Undo, CancelOf
  <1>12. ASSUME NEW r \in Requests, Begin(r) PROVE BoundsTyped'
    <2>1. lost' \subseteq Tasks
      <3>1. CASE task[r] \in Tasks
        BY <1>12, <3>1 DEF Begin
      <3>2. CASE task[r] = NoTask
        BY <1>12, <3>2 DEF Begin
      <3> QED
        BY <3>1, <3>2
    <2> QED
      BY <1>12, <2>1 DEF Begin, Fault
  <1>13. ASSUME NEW r \in Requests, Withdraw(r) PROVE BoundsTyped'
    BY <1>13 DEF Withdraw, Undo, CancelOf, Go
  <1>14. ASSUME NEW r \in Requests, Execute(r) PROVE BoundsTyped'
    BY <1>14 DEF Execute, Go
  <1>15. ASSUME NEW r \in Requests, Finish(r) PROVE BoundsTyped'
    BY <1>15 DEF Finish, Hold, Go, End
  <1>16. ASSUME NEW r \in Requests, FinishSave(r) PROVE BoundsTyped'
    BY <1>16 DEF FinishSave, Save, SaveFailed, Remove, Saved, Retried, Go, End, Fault
  <1>17. ASSUME NEW t \in Tasks, Retry(t) PROVE BoundsTyped'
    BY <1>17 DEF Retry, Hold, Save, SaveFailed, Remove, Saved, Exhausted, Fault
  <1>18. ASSUME Reboot PROVE BoundsTyped'
    BY <1>18 DEF Reboot, Fault
  <1>19. CASE UNCHANGED vars
    BY <1>19 DEF vars
  <1> QED
    BY <1>1, <1>2, <1>3, <1>4, <1>5, <1>6, <1>7, <1>8, <1>9, <1>10, <1>11, <1>12, <1>13, <1>14,
       <1>15, <1>16, <1>17, <1>18, <1>19 DEF Next, Handle

\* A cancellation moves rows as state_manager.go lets it.
LEMMA CancelMoves ==
  ASSUME IInv, NEW r \in Requests, Cancel(r), NEW t \in Tasks
  PROVE  /\ status'[t] \in Active <=> status[t] \in Active
         /\ status[t] \in Terminal \cup {"none", "cancelling"} => status'[t] = status[t]
  <1>1. status'[t] = status[t] \/ status'[t] = Cancelled(status[t])
    BY DEF IInv, RowsTyped, Cancel
  <1>2. status[t] \in Status
    BY DEF IInv, RowsTyped
  <1> QED
    BY <1>1, <1>2, CancelledStatus

\* A save ends a row that has a result, unless it has ended.
Ends(t) ==
    \/ status'[t] = status[t]
    \/ /\ result[t] # "none" /\ status'[t] \in Terminal /\ status[t] \notin Terminal
       /\ status[t] = "cancelling" => status'[t] = "cancelled"

LEMMA SavedMoves ==
  ASSUME IInv, NEW t \in Tasks, result[t] # "none", NEW u \in Tasks,
         status' = status \/ status' = Saved(t)
  PROVE  Ends(u)
  <1>1. CASE status'[u] = status[u]
    BY <1>1 DEF Ends
  <1>2. CASE u = t /\ status'[u] = Completed(status[u], result[u])
    BY <1>2, CompletedStatus DEF Ends
  <1> QED
    BY <1>1, <1>2 DEF Saved, IInv, RowsTyped

LEMMA FinishMoves ==
  ASSUME IInv, NEW r \in Requests, FinishSave(r), NEW u \in Tasks
  PROVE  Ends(u)
  <1>1. task[r] \in Tasks /\ result[task[r]] # "none"
    BY DEF IInv, RequestsTyped, Numbered, Placed, PlacedAt, FinishSave, NoTask
  <1>2. status' = status \/ status' = Saved(task[r])
    BY DEF FinishSave, Save, SaveFailed, Remove
  <1> QED
    BY <1>1, <1>2, SavedMoves

LEMMA RetryMoves ==
  ASSUME IInv, NEW t \in Tasks, Retry(t), NEW u \in Tasks
  PROVE  Ends(u)
  <1>1. result[t] # "none"
    BY DEF IInv, Results, Retry
  <1>2. status' = status \/ status' = Saved(t)
    BY DEF Retry, Save, SaveFailed, Remove, rows
  <1> QED
    BY <1>1, <1>2, SavedMoves

\* A number given to a row is never given again, and who acts on a task has one.
LEMMA NumberedNext == IInv /\ [Next]_vars => Numbered'
  <1> SUFFICES ASSUME IInv, [Next]_vars PROVE Numbered'
    OBVIOUS
  <1> USE ConfigAssumption DEF IInv, Numbered, RowsTyped, ContextTyped, RequestsTyped, Tasks,
     NoTask, Before, Cancels, rows, context, requests, bounds
  <1>1. ASSUME NEW r \in Requests, Look(r) PROVE Numbered'
    BY <1>1 DEF Look, Go
  <1>2. ASSUME NEW r \in Requests, Rerun(r) PROVE Numbered'
    BY <1>2 DEF Rerun, CancelOf, Go
  <1>3. ASSUME NEW r \in Requests, Stop(r) PROVE Numbered'
    BY <1>3 DEF Stop, CancelOf, Go
  <1>4. ASSUME NEW r \in Requests, Cancel(r) PROVE Numbered'
    <2>1. /\ \/ pc'[r] = "signal" /\ UNCHANGED <<task, victim>>
             \/ pc'[r] = "idle" /\ task'[r] = NoTask
          /\ \A q \in Requests \ {r} : pc'[q] = pc[q] /\ task'[q] = task[q] /\ victim'[q] = victim[q]
          /\ UNCHANGED next
      BY <1>4 DEF Cancel, End, Go
    <2>2. victim[r] # NoTask
      BY <1>4 DEF Cancel
    <2> QED
      BY <2>1, <2>2
  <1>5. ASSUME NEW r \in Requests, Signal(r) PROVE Numbered'
    BY <1>5 DEF Signal, Kept, Go, End
  <1>6. ASSUME NEW r \in Requests, Wait(r) PROVE Numbered'
    BY <1>6 DEF Wait, Retried, Go
  <1>7. ASSUME NEW r \in Requests, Released(r) PROVE Numbered'
    <2>1. \A q \in Requests \ {r} : pc'[q] = pc[q] /\ task'[q] = task[q] /\ victim'[q] = victim[q]
      BY <1>7 DEF Released, End, Go
    <2>2. /\ next' \in Nat /\ next <= next'
          /\ \/ pc'[r] = "insert" /\ task'[r] = next' /\ next' # 0
             \/ pc'[r] = "idle" /\ task'[r] = NoTask
      BY <1>7, ConfigAssumption DEF Released, End, Go
    <2>3. ASSUME NEW q \in Requests PROVE task'[q] <= next'
      <3>1. task[q] \in Nat /\ next \in Nat /\ task[q] <= next
        OBVIOUS
      <3>2. CASE q = r
        BY <2>2, <3>2
      <3>3. CASE q # r
        BY <2>1, <2>2, <3>1, <3>3
      <3> QED
        BY <3>2, <3>3
    <2>4. ASSUME NEW q \in Requests PROVE
            /\ pc'[q] \in Before \cup {"withdraw", "run", "finish", "save"} => task'[q] # NoTask
            /\ pc'[q] \in Cancels => victim'[q] # NoTask
      BY <2>1, <2>2
    <2> QED
      BY <2>3, <2>4
  <1>8. ASSUME NEW r \in Requests, Insert(r) PROVE Numbered'
    BY <1>8 DEF Insert, Go, Fault, End
  <1>9. ASSUME NEW r \in Requests, Start(r) PROVE Numbered'
    BY <1>9 DEF Start, Retried, Go, Fault, Undo, CancelOf
  <1>10. ASSUME NEW r \in Requests, Check(r) PROVE Numbered'
    BY <1>10 DEF Check, Go, Fault, Undo, CancelOf
  <1>11. ASSUME NEW r \in Requests, Reserve(r) PROVE Numbered'
    BY <1>11 DEF Reserve, Vacant, Go, Undo, CancelOf
  <1>12. ASSUME NEW r \in Requests, Begin(r) PROVE Numbered'
    BY <1>12 DEF Begin, Go, Fault
  <1>13. ASSUME NEW r \in Requests, Withdraw(r) PROVE Numbered'
    BY <1>13 DEF Withdraw, Undo, CancelOf, Go
  <1>14. ASSUME NEW r \in Requests, Execute(r) PROVE Numbered'
    BY <1>14 DEF Execute, Go
  <1>15. ASSUME NEW r \in Requests, Finish(r) PROVE Numbered'
    BY <1>15 DEF Finish, Hold, Go, End
  <1>16. ASSUME NEW r \in Requests, FinishSave(r) PROVE Numbered'
    BY <1>16 DEF FinishSave, Save, SaveFailed, Remove, Saved, Retried, Go, End, Fault
  <1>17. ASSUME NEW t \in Tasks, Retry(t) PROVE Numbered'
    BY <1>17 DEF Retry, Hold, Save, SaveFailed, Remove, Saved, Exhausted, Fault
  <1>18. ASSUME Reboot PROVE Numbered'
    BY <1>18 DEF Reboot, Fault
  <1>19. CASE UNCHANGED vars
    BY <1>19 DEF vars
  <1> QED
    BY <1>1, <1>2, <1>3, <1>4, <1>5, <1>6, <1>7, <1>8, <1>9, <1>10, <1>11, <1>12, <1>13, <1>14,
       <1>15, <1>16, <1>17, <1>18, <1>19 DEF Next, Handle

\* A task is of one request.
LEMMA OneRequestNext == IInv /\ [Next]_vars => OneRequest'
  <1> SUFFICES ASSUME IInv, [Next]_vars PROVE OneRequest'
    OBVIOUS
  <1> USE ConfigAssumption DEF IInv, OneRequest, Numbered, RowsTyped, ContextTyped,
     RequestsTyped, Tasks, NoTask, Before, Cancels, rows, context, requests, bounds
  <1>1. ASSUME NEW r \in Requests, Look(r) PROVE OneRequest'
    BY <1>1 DEF Look, Go
  <1>2. ASSUME NEW r \in Requests, Rerun(r) PROVE OneRequest'
    BY <1>2 DEF Rerun, CancelOf, Go
  <1>3. ASSUME NEW r \in Requests, Stop(r) PROVE OneRequest'
    BY <1>3 DEF Stop, CancelOf, Go
  <1>4. ASSUME NEW r \in Requests, Cancel(r) PROVE OneRequest'
    <2>1. task' \in {task, [task EXCEPT ![r] = NoTask]}
      BY <1>4 DEF Cancel, End
    <2> QED
      BY <2>1
  <1>5. ASSUME NEW r \in Requests, Signal(r) PROVE OneRequest'
    BY <1>5 DEF Signal, Kept, Go, End
  <1>6. ASSUME NEW r \in Requests, Wait(r) PROVE OneRequest'
    BY <1>6 DEF Wait, Retried, Go
  <1>7. ASSUME NEW r \in Requests, Released(r) PROVE OneRequest'
    BY <1>7 DEF Released, Go, End
  <1>8. ASSUME NEW r \in Requests, Insert(r) PROVE OneRequest'
    <2>1. task' \in {task, [task EXCEPT ![r] = NoTask]}
      BY <1>8 DEF Insert, End
    <2> QED
      BY <2>1
  <1>9. ASSUME NEW r \in Requests, Start(r) PROVE OneRequest'
    BY <1>9 DEF Start, Retried, Go, Fault, Undo, CancelOf
  <1>10. ASSUME NEW r \in Requests, Check(r) PROVE OneRequest'
    BY <1>10 DEF Check, Go, Fault, Undo, CancelOf
  <1>11. ASSUME NEW r \in Requests, Reserve(r) PROVE OneRequest'
    BY <1>11 DEF Reserve, Vacant, Go, Undo, CancelOf
  <1>12. ASSUME NEW r \in Requests, Begin(r) PROVE OneRequest'
    BY <1>12 DEF Begin, Go, Fault
  <1>13. ASSUME NEW r \in Requests, Withdraw(r) PROVE OneRequest'
    BY <1>13 DEF Withdraw, Undo, CancelOf, Go
  <1>14. ASSUME NEW r \in Requests, Execute(r) PROVE OneRequest'
    BY <1>14 DEF Execute, Go
  <1>15. ASSUME NEW r \in Requests, Finish(r) PROVE OneRequest'
    <2>1. task' \in {task, [task EXCEPT ![r] = NoTask]}
      BY <1>15 DEF Finish, Hold, End
    <2> QED
      BY <2>1
  <1>16. ASSUME NEW r \in Requests, FinishSave(r) PROVE OneRequest'
    BY <1>16 DEF FinishSave, Save, SaveFailed, Remove, Saved, Retried, Go, End, Fault
  <1>17. ASSUME NEW t \in Tasks, Retry(t) PROVE OneRequest'
    BY <1>17 DEF Retry, Hold, Save, SaveFailed, Remove, Saved, Exhausted, Fault
  <1>18. ASSUME Reboot PROVE OneRequest'
    BY <1>18 DEF Reboot, Fault
  <1>19. CASE UNCHANGED vars
    BY <1>19 DEF vars
  <1> QED
    BY <1>1, <1>2, <1>3, <1>4, <1>5, <1>6, <1>7, <1>8, <1>9, <1>10, <1>11, <1>12, <1>13, <1>14,
       <1>15, <1>16, <1>17, <1>18, <1>19 DEF Next, Handle

\* A number that has not been given has neither a row nor a result.
LEMMA FreshNext == IInv /\ [Next]_vars => Fresh'
  <1> SUFFICES ASSUME IInv, [Next]_vars PROVE Fresh'
    OBVIOUS
  <1> USE ConfigAssumption DEF IInv, Fresh, Numbered, Results, Status, RowsTyped, ContextTyped,
     RequestsTyped, Tasks, NoTask, Before, Cancels, rows, context, requests, bounds
  <1>1. ASSUME NEW r \in Requests, Look(r) PROVE Fresh'
    BY <1>1 DEF Look, Go
  <1>2. ASSUME NEW r \in Requests, Rerun(r) PROVE Fresh'
    BY <1>2 DEF Rerun, CancelOf, Go
  <1>3. ASSUME NEW r \in Requests, Stop(r) PROVE Fresh'
    BY <1>3 DEF Stop, CancelOf, Go
  <1>4. ASSUME NEW r \in Requests, Cancel(r) PROVE Fresh'
    BY <1>4, CancelMoves DEF Cancel
  <1>5. ASSUME NEW r \in Requests, Signal(r) PROVE Fresh'
    BY <1>5 DEF Signal, Kept, Go, End
  <1>6. ASSUME NEW r \in Requests, Wait(r) PROVE Fresh'
    BY <1>6 DEF Wait, Retried, Go
  <1>7. ASSUME NEW r \in Requests, Released(r) PROVE Fresh'
    BY <1>7 DEF Released, Go, End
  <1>8. ASSUME NEW r \in Requests, Insert(r) PROVE Fresh'
    BY <1>8 DEF Insert, Go, Fault, End
  <1>9. ASSUME NEW r \in Requests, Start(r) PROVE Fresh'
    BY <1>9 DEF Start, Retried, Go, Fault, Undo, CancelOf
  <1>10. ASSUME NEW r \in Requests, Check(r) PROVE Fresh'
    BY <1>10 DEF Check, Go, Fault, Undo, CancelOf
  <1>11. ASSUME NEW r \in Requests, Reserve(r) PROVE Fresh'
    BY <1>11 DEF Reserve, Vacant, Go, Undo, CancelOf
  <1>12. ASSUME NEW r \in Requests, Begin(r) PROVE Fresh'
    BY <1>12 DEF Begin, Go, Fault
  <1>13. ASSUME NEW r \in Requests, Withdraw(r) PROVE Fresh'
    BY <1>13 DEF Withdraw, Undo, CancelOf, Go
  <1>14. ASSUME NEW r \in Requests, Execute(r) PROVE Fresh'
    BY <1>14 DEF Execute, Go
  <1>15. ASSUME NEW r \in Requests, Finish(r) PROVE Fresh'
    BY <1>15 DEF Finish, Hold, Go, End
  <1>16. ASSUME NEW r \in Requests, FinishSave(r) PROVE Fresh'
    BY <1>16, CompletedStatus DEF FinishSave, Save, SaveFailed, Remove, Saved, Retried, Go, End,
       Fault
  <1>17. ASSUME NEW t \in Tasks, Retry(t) PROVE Fresh'
    BY <1>17, CompletedStatus DEF Retry, Hold, Save, SaveFailed, Remove, Saved, Exhausted, Fault
  <1>18. ASSUME Reboot PROVE Fresh'
    <2>1. next' = next /\ result' = [t \in Tasks |-> "none"]
      BY <1>18 DEF Reboot
    <2>2. ASSUME NEW t \in Tasks, status[t] = "none" PROVE status'[t] = "none"
      <3>1. CASE UNCHANGED status
        BY <2>2, <3>1
      <3>2. CASE status'[t] = IF status[t] \in {"pending"} \cup Active THEN "cancelled" ELSE status[t]
        BY <2>2, <3>2 DEF Active
      <3> QED
        BY <1>18, <3>1, <3>2 DEF Reboot
    <2> QED
      BY <2>1, <2>2
  <1>19. CASE UNCHANGED vars
    BY <1>19 DEF vars
  <1> QED
    BY <1>1, <1>2, <1>3, <1>4, <1>5, <1>6, <1>7, <1>8, <1>9, <1>10, <1>11, <1>12, <1>13, <1>14,
       <1>15, <1>16, <1>17, <1>18, <1>19 DEF Next, Handle

\* The slot is the starting or running request's until that request gives it back.
LEMMA HeldNext == IInv /\ [Next]_vars => Held'
  <1> SUFFICES ASSUME IInv, [Next]_vars PROVE Held'
    OBVIOUS
  <1> USE ConfigAssumption DEF IInv, Held, OneRequest, Numbered, Placed, PlacedAt, Results,
     RowsTyped, ContextTyped, RequestsTyped, Tasks, NoTask, Before, Cancels, rows, context,
     requests, bounds
  <1>1. ASSUME NEW r \in Requests, Look(r) PROVE Held'
    BY <1>1 DEF Look, Go
  <1>2. ASSUME NEW r \in Requests, Rerun(r) PROVE Held'
    BY <1>2 DEF Rerun, CancelOf, Go
  <1>3. ASSUME NEW r \in Requests, Stop(r) PROVE Held'
    BY <1>3 DEF Stop, CancelOf, Go
  <1>4. ASSUME NEW r \in Requests, Cancel(r) PROVE Held'
    BY <1>4 DEF Cancel, Fault, End, Go
  <1>5. ASSUME NEW r \in Requests, Signal(r) PROVE Held'
    BY <1>5 DEF Signal, Kept, Go, End
  <1>6. ASSUME NEW r \in Requests, Wait(r) PROVE Held'
    BY <1>6 DEF Wait, Retried, Go
  <1>7. ASSUME NEW r \in Requests, Released(r) PROVE Held'
    BY <1>7 DEF Released, Go, End
  <1>8. ASSUME NEW r \in Requests, Insert(r) PROVE Held'
    BY <1>8 DEF Insert, Go, Fault, End
  <1>9. ASSUME NEW r \in Requests, Start(r) PROVE Held'
    BY <1>9 DEF Start, Retried, Go, Fault, Undo, CancelOf
  <1>10. ASSUME NEW r \in Requests, Check(r) PROVE Held'
    BY <1>10 DEF Check, Go, Fault, Undo, CancelOf
  <1>11. ASSUME NEW r \in Requests, Reserve(r) PROVE Held'
    BY <1>11 DEF Reserve, Vacant, Go, Undo, CancelOf
  <1>12. ASSUME NEW r \in Requests, Begin(r) PROVE Held'
    BY <1>12 DEF Begin, Go, Fault
  <1>13. ASSUME NEW r \in Requests, Withdraw(r) PROVE Held'
    BY <1>13 DEF Withdraw, Undo, CancelOf, Go
  <1>14. ASSUME NEW r \in Requests, Execute(r) PROVE Held'
    BY <1>14 DEF Execute, Go
  <1>15. ASSUME NEW r \in Requests, Finish(r) PROVE Held'
    BY <1>15 DEF Finish, Hold, Go, End
  <1>16. ASSUME NEW r \in Requests, FinishSave(r) PROVE Held'
    BY <1>16 DEF FinishSave, Save, SaveFailed, Remove, Saved, Retried, Go, End, Fault
  <1>17. ASSUME NEW t \in Tasks, Retry(t) PROVE Held'
    BY <1>17 DEF Retry, Hold, Save, SaveFailed, Remove, Saved, Exhausted, Fault
  <1>18. ASSUME Reboot PROVE Held'
    BY <1>18 DEF Reboot, Fault
  <1>19. CASE UNCHANGED vars
    BY <1>19 DEF vars
  <1> QED
    BY <1>1, <1>2, <1>3, <1>4, <1>5, <1>6, <1>7, <1>8, <1>9, <1>10, <1>11, <1>12, <1>13, <1>14,
       <1>15, <1>16, <1>17, <1>18, <1>19 DEF Next, Handle

\* While a request runs its task nobody else puts a result down or ends the row.
LEMMA PlacedNext == IInv /\ [Next]_vars => Placed'
  <1> SUFFICES ASSUME IInv, [Next]_vars PROVE Placed'
    OBVIOUS
  <1> USE ConfigAssumption DEF IInv, Held, OneRequest, Numbered, Fresh, Placed, PlacedAt,
     Results, Status, Active, Terminal, RowsTyped, ContextTyped, RequestsTyped, Tasks, NoTask,
     Before, Cancels, rows, context, requests, bounds
  <1>1. ASSUME NEW r \in Requests, Look(r) PROVE Placed'
    BY <1>1 DEF Look, Go
  <1>2. ASSUME NEW r \in Requests, Rerun(r) PROVE Placed'
    BY <1>2 DEF Rerun, CancelOf, Go
  <1>3. ASSUME NEW r \in Requests, Stop(r) PROVE Placed'
    BY <1>3 DEF Stop, CancelOf, Go
  <1>4. ASSUME NEW r \in Requests, Cancel(r) PROVE Placed'
    <2>1. /\ pc'[r] \in {"signal", "idle"} /\ UNCHANGED <<result, lost>>
          /\ \A q \in Requests \ {r} : pc'[q] = pc[q] /\ task'[q] = task[q]
      BY <1>4 DEF Cancel, End, Go
    <2>2. \A t \in Tasks : status'[t] \in Active <=> status[t] \in Active
      BY <1>4, CancelMoves
    <2>3. \A t \in Tasks : status[t] = "none" => status'[t] = "none"
      BY <1>4, CancelMoves
    <2>4. \A q \in Requests : pc[q] \in Before \cup {"withdraw", "run"} => task[q] \in Tasks
      OBVIOUS
    <2> QED
      BY <2>1, <2>2, <2>3, <2>4
  <1>5. ASSUME NEW r \in Requests, Signal(r) PROVE Placed'
    <2>1. /\ pc'[r] \in {"wait", "idle"} /\ UNCHANGED <<status, result, lost>>
          /\ \A q \in Requests \ {r} : pc'[q] = pc[q] /\ task'[q] = task[q]
      BY <1>5 DEF Signal, End, Go
    <2> QED
      BY <2>1
  <1>6. ASSUME NEW r \in Requests, Wait(r) PROVE Placed'
    BY <1>6 DEF Wait, Retried, Go
  <1>7. ASSUME NEW r \in Requests, Released(r) PROVE Placed'
    <2>1. /\ pc'[r] = "idle" \/ (pc'[r] = "insert" /\ task'[r] = next + 1 /\ next < MaxTask)
          /\ UNCHANGED <<status, result, lost>>
          /\ \A q \in Requests \ {r} : pc'[q] = pc[q] /\ task'[q] = task[q]
      BY <1>7 DEF Released, End, Go
    <2>2. next < MaxTask => status[next + 1] = "none" /\ result[next + 1] = "none"
      OBVIOUS
    <2>3. PlacedAt(r)'
      BY <2>1, <2>2
    <2>4. ASSUME NEW q \in Requests \ {r} PROVE PlacedAt(q)'
      BY <2>1
    <2> QED
      BY <2>3, <2>4
  <1>8. ASSUME NEW r \in Requests, Insert(r) PROVE Placed'
    <2>1. /\ pc'[r] \in {"start", "idle"} /\ UNCHANGED <<result, lost>>
          /\ pc'[r] = "start" => task'[r] = task[r]
          /\ \A q \in Requests \ {r} : pc'[q] = pc[q] /\ task'[q] = task[q]
      BY <1>8 DEF Insert, End, Go
    <2>2. task[r] \in Tasks /\ result[task[r]] = "none" /\ status[task[r]] = "none"
      BY <1>8 DEF Insert
    <2>3. /\ status'[task[r]] \in {"none", "pending"}
          /\ \A t \in Tasks \ {task[r]} : status'[t] = status[t]
      BY <1>8, <2>2 DEF Insert
    <2>4. \A q \in Requests \ {r} : task[q] # task[r]
      BY <2>2
    <2>5. \A q \in Requests :
            pc[q] \in Before \cup {"withdraw", "run", "finish", "save"} => task[q] \in Tasks
      OBVIOUS
    <2>6. PlacedAt(r)'
      BY <2>1, <2>2, <2>3
    <2>7. ASSUME NEW q \in Requests \ {r} PROVE PlacedAt(q)'
      BY <2>1, <2>3, <2>4, <2>5
    <2> QED
      BY <2>6, <2>7
  <1>9. ASSUME NEW r \in Requests, Start(r) PROVE Placed'
    BY <1>9 DEF Start, Retried, Go, Fault, Undo, CancelOf
  <1>10. ASSUME NEW r \in Requests, Check(r) PROVE Placed'
    BY <1>10 DEF Check, Go, Fault, Undo, CancelOf
  <1>11. ASSUME NEW r \in Requests, Reserve(r) PROVE Placed'
    BY <1>11 DEF Reserve, Vacant, Go, Undo, CancelOf
  <1>12. ASSUME NEW r \in Requests, Begin(r) PROVE Placed'
    BY <1>12 DEF Begin, Go, Fault
  <1>13. ASSUME NEW r \in Requests, Withdraw(r) PROVE Placed'
    BY <1>13 DEF Withdraw, Undo, CancelOf, Go
  <1>14. ASSUME NEW r \in Requests, Execute(r) PROVE Placed'
    BY <1>14 DEF Execute, Go
  <1>15. ASSUME NEW r \in Requests, Finish(r) PROVE Placed'
    BY <1>15 DEF Finish, Hold, Go, End
  <1>16. ASSUME NEW r \in Requests, FinishSave(r) PROVE Placed'
    <2>1. \A u \in Tasks : Ends(u)
      BY <1>16, FinishMoves
    <2>2. /\ pc'[r] = "idle" \/ (pc'[r] = "save" /\ task'[r] = task[r])
          /\ UNCHANGED <<result, lost>>
          /\ \A q \in Requests \ {r} : pc'[q] = pc[q] /\ task'[q] = task[q]
      BY <1>16 DEF FinishSave, End, Go, Save, SaveFailed, Fault, Remove
    <2>3. result[task[r]] # "none"
      BY <1>16 DEF FinishSave
    <2>4. \A q \in Requests :
            pc[q] \in Before \cup {"withdraw", "run", "finish", "save"} => task[q] \in Tasks
      OBVIOUS
    <2>5. PlacedAt(r)'
      BY <2>2, <2>3
    <2>6. ASSUME NEW q \in Requests \ {r} PROVE PlacedAt(q)'
      BY <2>1, <2>2, <2>4 DEF Ends
    <2> QED
      BY <2>5, <2>6
  <1>17. ASSUME NEW t \in Tasks, Retry(t) PROVE Placed'
    <2>1. \A u \in Tasks : Ends(u)
      BY <1>17, RetryMoves
    <2>2. UNCHANGED <<pc, task, result, lost>>
      BY <1>17 DEF Retry, SaveFailed, Fault
    <2>3. \A q \in Requests :
            pc[q] \in Before \cup {"withdraw", "run", "finish", "save"} => task[q] \in Tasks
      OBVIOUS
    <2> QED
      BY <2>1, <2>2, <2>3 DEF Ends
  <1>18. ASSUME Reboot PROVE Placed'
    BY <1>18 DEF Reboot, Fault
  <1>19. CASE UNCHANGED vars
    BY <1>19 DEF vars
  <1> QED
    BY <1>1, <1>2, <1>3, <1>4, <1>5, <1>6, <1>7, <1>8, <1>9, <1>10, <1>11, <1>12, <1>13, <1>14,
       <1>15, <1>16, <1>17, <1>18, <1>19 DEF Next, Handle

\* What is saved or retried has a result, and what is saved has ended.
LEMMA ResultsNext == IInv /\ [Next]_vars => Results'
  <1> SUFFICES ASSUME IInv, [Next]_vars PROVE Results'
    OBVIOUS
  <1> USE ConfigAssumption DEF IInv, Held, OneRequest, Numbered, Fresh, Placed, PlacedAt,
     Results, Status, Active, Terminal, RowsTyped, ContextTyped, RequestsTyped, Tasks, NoTask,
     Before, Cancels, rows, context, requests, bounds
  <1>1. ASSUME NEW r \in Requests, Look(r) PROVE Results'
    BY <1>1 DEF Look, Go
  <1>2. ASSUME NEW r \in Requests, Rerun(r) PROVE Results'
    BY <1>2 DEF Rerun, CancelOf, Go
  <1>3. ASSUME NEW r \in Requests, Stop(r) PROVE Results'
    BY <1>3 DEF Stop, CancelOf, Go
  <1>4. ASSUME NEW r \in Requests, Cancel(r) PROVE Results'
    BY <1>4, CancelledStatus DEF Cancel, Fault, End, Go
  <1>5. ASSUME NEW r \in Requests, Signal(r) PROVE Results'
    BY <1>5 DEF Signal, Kept, Go, End
  <1>6. ASSUME NEW r \in Requests, Wait(r) PROVE Results'
    BY <1>6 DEF Wait, Retried, Go
  <1>7. ASSUME NEW r \in Requests, Released(r) PROVE Results'
    BY <1>7 DEF Released, Go, End
  <1>8. ASSUME NEW r \in Requests, Insert(r) PROVE Results'
    <2>1. UNCHANGED <<result, saver, saved, retrying, attempts>>
      BY <1>8 DEF Insert
    <2>2. task[r] \notin saved
      BY <1>8 DEF Insert
    <2>3. \A t \in Tasks \ {task[r]} : status'[t] = status[t]
      BY <1>8 DEF Insert
    <2> QED
      BY <2>1, <2>2, <2>3
  <1>9. ASSUME NEW r \in Requests, Start(r) PROVE Results'
    BY <1>9 DEF Start, Retried, Go, Fault, Undo, CancelOf
  <1>10. ASSUME NEW r \in Requests, Check(r) PROVE Results'
    BY <1>10 DEF Check, Go, Fault, Undo, CancelOf
  <1>11. ASSUME NEW r \in Requests, Reserve(r) PROVE Results'
    BY <1>11 DEF Reserve, Vacant, Go, Undo, CancelOf
  <1>12. ASSUME NEW r \in Requests, Begin(r) PROVE Results'
    BY <1>12 DEF Begin, Go, Fault
  <1>13. ASSUME NEW r \in Requests, Withdraw(r) PROVE Results'
    BY <1>13 DEF Withdraw, Undo, CancelOf, Go
  <1>14. ASSUME NEW r \in Requests, Execute(r) PROVE Results'
    BY <1>14 DEF Execute, Go
  <1>15. ASSUME NEW r \in Requests, Finish(r) PROVE Results'
    BY <1>15 DEF Finish, Hold, Go, End
  <1>16. ASSUME NEW r \in Requests, FinishSave(r) PROVE Results'
    <2>1. \A u \in Tasks : Ends(u)
      BY <1>16, FinishMoves
    <2>2. CASE Save(task[r]) /\ UNCHANGED <<saver, retrying, attempts>>
      BY <1>16, <2>1, <2>2, CompletedStatus DEF FinishSave, Save, Saved, Ends
    <2>3. CASE SaveFailed(task[r]) /\ Retried /\ UNCHANGED saved
      BY <1>16, <2>1, <2>3, ConfigAssumption DEF FinishSave, SaveFailed, Retried, Ends
    <2>4. CASE Remove(task[r]) /\ UNCHANGED <<status, retrying, attempts>>
      BY <1>16, <2>1, <2>4 DEF FinishSave, Remove, Ends
    <2> QED
      BY <1>16, <2>2, <2>3, <2>4 DEF FinishSave
  <1>17. ASSUME NEW t \in Tasks, Retry(t) PROVE Results'
    <2>1. \A u \in Tasks : Ends(u)
      BY <1>17, RetryMoves
    <2>2. \A u \in Tasks : u \in retrying' => u \in retrying /\ attempts'[u] < MaxAttempts
      BY <1>17, ConfigAssumption DEF Retry, Exhausted
    <2>3. \A u \in Tasks : saver'[u] # "nobody" => result[u] # "none"
      BY <1>17 DEF Retry, Hold, Save, SaveFailed, Remove
    <2>4. \A u \in Tasks : u \in saved' => u \in saved \/ (u = t /\ Save(t))
      BY <1>17 DEF Retry, Hold, Save, SaveFailed, Remove
    <2>5. Save(t) => status'[t] \in Terminal
      BY CompletedStatus DEF Save, Saved
    <2> QED
      BY <1>17, <2>1, <2>2, <2>3, <2>4, <2>5 DEF Retry, Ends
  <1>18. ASSUME Reboot PROVE Results'
    BY <1>18 DEF Reboot, Fault
  <1>19. CASE UNCHANGED vars
    BY <1>19 DEF vars
  <1> QED
    BY <1>1, <1>2, <1>3, <1>4, <1>5, <1>6, <1>7, <1>8, <1>9, <1>10, <1>11, <1>12, <1>13, <1>14,
       <1>15, <1>16, <1>17, <1>18, <1>19 DEF Next, Handle

\* An active row keeps its owner.
LEMMA OwnedNext == IInv /\ [Next]_vars => ActiveIsOwned'
  <1> SUFFICES ASSUME IInv, [Next]_vars PROVE ActiveIsOwned'
    OBVIOUS
  <1> USE ConfigAssumption DEF IInv, Held, OneRequest, Numbered, Placed, PlacedAt, Results,
     ActiveIsOwned, Status, Active, Terminal, RowsTyped, ContextTyped, RequestsTyped, Tasks,
     NoTask, Before, Cancels, rows, context, requests, bounds
  <1>1. ASSUME NEW r \in Requests, Look(r) PROVE ActiveIsOwned'
    BY <1>1 DEF Look, Go
  <1>2. ASSUME NEW r \in Requests, Rerun(r) PROVE ActiveIsOwned'
    BY <1>2 DEF Rerun, CancelOf, Go
  <1>3. ASSUME NEW r \in Requests, Stop(r) PROVE ActiveIsOwned'
    BY <1>3 DEF Stop, CancelOf, Go
  <1>4. ASSUME NEW r \in Requests, Cancel(r) PROVE ActiveIsOwned'
    BY <1>4, CancelMoves DEF Cancel
  <1>5. ASSUME NEW r \in Requests, Signal(r) PROVE ActiveIsOwned'
    BY <1>5 DEF Signal, Kept, Go, End
  <1>6. ASSUME NEW r \in Requests, Wait(r) PROVE ActiveIsOwned'
    BY <1>6 DEF Wait, Retried, Go
  <1>7. ASSUME NEW r \in Requests, Released(r) PROVE ActiveIsOwned'
    BY <1>7 DEF Released, Go, End
  <1>8. ASSUME NEW r \in Requests, Insert(r) PROVE ActiveIsOwned'
    BY <1>8 DEF Insert, Go, Fault, End
  <1>9. ASSUME NEW r \in Requests, Start(r) PROVE ActiveIsOwned'
    BY <1>9 DEF Start, Retried, Go, Fault, Undo, CancelOf
  <1>10. ASSUME NEW r \in Requests, Check(r) PROVE ActiveIsOwned'
    BY <1>10 DEF Check, Go, Fault, Undo, CancelOf
  <1>11. ASSUME NEW r \in Requests, Reserve(r) PROVE ActiveIsOwned'
    BY <1>11 DEF Reserve, Vacant, Go, Undo, CancelOf
  <1>12. ASSUME NEW r \in Requests, Begin(r) PROVE ActiveIsOwned'
    BY <1>12 DEF Begin, Go, Fault
  <1>13. ASSUME NEW r \in Requests, Withdraw(r) PROVE ActiveIsOwned'
    BY <1>13 DEF Withdraw, Undo, CancelOf, Go
  <1>14. ASSUME NEW r \in Requests, Execute(r) PROVE ActiveIsOwned'
    BY <1>14 DEF Execute, Go
  <1>15. ASSUME NEW r \in Requests, Finish(r) PROVE ActiveIsOwned'
    BY <1>15 DEF Finish, Hold, Go, End
  <1>16. ASSUME NEW r \in Requests, FinishSave(r) PROVE ActiveIsOwned'
    <2>1. \A u \in Tasks : Ends(u)
      BY <1>16, FinishMoves
    <2>2. \A u \in Tasks : slot = u => slot' = u \/ u \in saved
      BY <1>16 DEF FinishSave, Save, SaveFailed, Remove
    <2> QED
      BY <1>16, <2>1, <2>2 DEF FinishSave, Ends
  <1>17. ASSUME NEW t \in Tasks, Retry(t) PROVE ActiveIsOwned'
    <2>1. \A u \in Tasks : Ends(u)
      BY <1>17, RetryMoves
    <2>2. \A u \in Tasks : slot = u => slot' = u \/ u \in saved
      BY <1>17 DEF Retry, Hold, Save, SaveFailed, Remove
    <2> QED
      BY <1>17, <2>1, <2>2 DEF Retry, Ends
  <1>18. ASSUME Reboot PROVE ActiveIsOwned'
    BY <1>18 DEF Reboot, Fault
  <1>19. CASE UNCHANGED vars
    BY <1>19 DEF vars
  <1> QED
    BY <1>1, <1>2, <1>3, <1>4, <1>5, <1>6, <1>7, <1>8, <1>9, <1>10, <1>11, <1>12, <1>13, <1>14,
       <1>15, <1>16, <1>17, <1>18, <1>19 DEF Next, Handle

THEOREM Invariance == Spec => []IInv
  <1>1. IInv /\ [Next]_vars => IInv'
    BY RowsNext, ContextNext, RequestsNext, BoundsNext, NumberedNext, OneRequestNext, FreshNext,
       PlacedNext, HeldNext, ResultsNext, OwnedNext DEF IInv
  <1> QED
    BY IInvInit, <1>1, PTL DEF Spec

-----------------------------------------------------------------------------
(* Theorems.                                                                *)

\* Every reachable state is well typed: a retry makes no more attempts than it
\* may, whatever is forced and cancelled meanwhile.
THEOREM TypeCorrect == Spec => []TypeOK
  <1>1. IInv => TypeOK
    BY DEF IInv, TypeOK, RowsTyped, ContextTyped, RequestsTyped, BoundsTyped
  <1> QED
    BY <1>1, Invariance, PTL

\* Two goroutines never configure one provider: what is executed holds the slot,
\* and a task is of one request (StartTask and removeRunningTask).
THEOREM OneConfigurationAlways == Spec => []OneConfiguration
  <1>1. IInv => OneConfiguration
    BY DEF IInv, Held, OneRequest, Numbered, OneConfiguration, Configuring
  <1> QED
    BY <1>1, Invariance, PTL

\* A row that is active has its owner in memory, but for those that a lost reply
\* of a start or a failed startup cleanup leaves behind.
THEOREM ActiveIsOwnedAlways == Spec => []ActiveIsOwned
  <1>1. IInv => ActiveIsOwned
    BY DEF IInv
  <1> QED
    BY <1>1, Invariance, PTL

\* A forced rerun creates its task only after the task it cancelled is no longer
\* executed, whether WaitForTaskRelease waited for Done or for the row.
THEOREM RerunWaitsAlways == Spec => RerunWaits
  <1> DEFINE Waits == \A r, q \in Requests :
        pc[r] \in {"released", "poll"} /\ pc'[r] = "insert" =>
            ~(task[q] = victim[r] /\ Configuring(q))
  <1>1. IInv /\ [Next]_vars => [Waits]_vars
    <2> SUFFICES ASSUME IInv, [Next]_vars, NEW r \in Requests, NEW q \in Requests,
                        pc[r] \in {"released", "poll"}, pc'[r] = "insert",
                        task[q] = victim[r], Configuring(q)
                 PROVE  FALSE
      OBVIOUS
    <2> USE DEF IInv, RequestsTyped
    <2>1. Free(r, victim[r])
      <3>1. ASSUME NEW s \in Requests, Look(s) \/ Rerun(s) \/ Stop(s) \/ Insert(s) \/ Start(s)
                   \/ Check(s) \/ Reserve(s) \/ Begin(s)
            PROVE  FALSE
        BY <3>1 DEF Look, Rerun, Stop, Insert, Start, Check, Reserve, Begin, CancelOf, Undo, End,
           Go
      <3>2. ASSUME NEW s \in Requests, Cancel(s) \/ Signal(s) \/ Wait(s) \/ Withdraw(s)
                   \/ Execute(s) \/ Finish(s) \/ FinishSave(s)
            PROVE  FALSE
        BY <3>2 DEF Cancel, Signal, Wait, Withdraw, Execute, Finish, FinishSave, CancelOf, Undo,
               End, Go, requests
      <3>3. ASSUME NEW s \in Requests, Released(s) PROVE Free(r, victim[r])
        BY <3>3 DEF Released, End, Go
      <3>4. ASSUME NEW t \in Tasks, Retry(t) PROVE FALSE
        BY <3>4 DEF Retry, requests
      <3>5. ~Reboot /\ ~UNCHANGED vars
        BY DEF Reboot, vars, requests
      <3> QED
        BY <3>1, <3>2, <3>3, <3>4, <3>5 DEF Next, Handle
    <2>2. slot = victim[r] /\ status[victim[r]] \in Active
      BY DEF IInv, Held, Placed, PlacedAt, Configuring
    <2> QED
      BY <2>1, <2>2 DEF Free
  <1> QED
    BY <1>1, Invariance, PTL DEF Spec, RerunWaits

\* A cancellation that has been accepted wins over every late result, and what
\* has ended is not changed, not even by a restart.
THEOREM CancelWinsAlways == Spec => CancelWins
  <1> DEFINE Wins == \A t \in Tasks :
        /\ status[t] = "cancelling" => status'[t] \in {"cancelling", "cancelled"}
        /\ status[t] \in Terminal => status'[t] = status[t]
  <1>1. IInv /\ [Next]_vars => [Wins]_vars
    <2> SUFFICES ASSUME IInv, [Next]_vars, NEW t \in Tasks
                 PROVE  /\ status[t] = "cancelling" => status'[t] \in {"cancelling", "cancelled"}
                        /\ status[t] \in Terminal => status'[t] = status[t]
      OBVIOUS
    <2>1. ASSUME NEW r \in Requests, Cancel(r) PROVE Wins
      BY <2>1, CancelMoves
    <2>2. ASSUME NEW r \in Requests, FinishSave(r) PROVE Wins
      BY <2>2, FinishMoves DEF Ends, Terminal
    <2>3. ASSUME NEW u \in Tasks, Retry(u) PROVE Wins
      BY <2>3, RetryMoves DEF Ends, Terminal
    <2>4. ASSUME NEW r \in Requests, Insert(r) PROVE Wins
      BY <2>4 DEF Insert, IInv, Placed, PlacedAt, RowsTyped, Terminal
    <2>5. ASSUME NEW r \in Requests, Begin(r) PROVE Wins
      BY <2>5 DEF Begin, IInv, RowsTyped, Terminal
    <2>6. ASSUME Reboot PROVE Wins
      BY <2>6 DEF Reboot, Active, Terminal
    <2>7. CASE UNCHANGED status
      BY <2>7
    <2> QED
      BY <2>1, <2>2, <2>3, <2>4, <2>5, <2>6, <2>7
      DEF Next, Handle, Look, Rerun, Stop, Signal, Wait, Released, Start, Check, Reserve,
          Withdraw, Execute, Finish, rows, vars
  <1> QED
    BY <1>1, Invariance, PTL DEF Spec, CancelWins
=============================================================================
