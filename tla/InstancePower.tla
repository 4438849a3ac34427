---------------------------- MODULE InstancePower ----------------------------
(***************************************************************************)
(* Whether an instance runs: what the database says (status), what the node  *)
(* does (runs), and the start and stop tasks that lead from one to the     *)
(* other (src/server/service/task/instance_operations.go).  A task that a     *)
(* user asks for reserves the instance; the tasks that the policies insert     *)
(* do not, so several may be open for one instance and the node may serve     *)
(* them in any order.  What a task goes through is the matter of TaskEngine;    *)
(* here only its effects are kept.  The modules that extend this one write     *)
(* the same status for reasons of their own.                               *)
(***************************************************************************)
EXTENDS Naturals

CONSTANTS
    Instances,
    Slots        \* bound: tasks of one instance that are open at once

ASSUME PowerAssumption == Slots # {}

VARIABLES
    status,  \* instances.status
    runs,   \* the node runs it
    task    \* the open tasks of every instance

powerVars == <<status, runs, task>>

Statuses == {"running", "stopped", "error", "starting", "stopping"}
Kinds == {"start", "stop"}
EmptySlot == [kind |-> "none", at |-> "none"]
OpenTasks == [kind : Kinds, at : {"queued", "done", "refused"}]

PowerTypeOK ==
    /\ status \in [Instances -> Statuses]
    /\ runs \in [Instances -> BOOLEAN]
    /\ task \in [Instances -> [Slots -> OpenTasks \cup {EmptySlot}]]

PowerInit ==
    /\ runs \in [Instances -> BOOLEAN]
    /\ status = [i \in Instances |-> IF runs[i] THEN "running" ELSE "stopped"]
    /\ task = [i \in Instances |-> [k \in Slots |-> EmptySlot]]

-----------------------------------------------------------------------------
(* Tasks *)

From == [start |-> "stopped", stop |-> "running"]
Busy == [start |-> "starting", stop |-> "stopping"]
Result == [start |-> "running", stop |-> "stopped"]
Failure == [start |-> {"stopped"}, stop |-> {"error", "running"}]  \* failed, or cancelled by then

FreeSlots(i) == {k \in Slots : task[i][k] = EmptySlot}
Unoccupied(i) == FreeSlots(i) = Slots
HasRoom(S) == \A i \in S : FreeSlots(i) # {}

(* One more task for every instance of S. *)
Queued(S, kind) ==
    [i \in Instances |->
        IF i \in S
        THEN [task[i] EXCEPT ![CHOOSE k \in FreeSlots(i) : TRUE] = [kind |-> kind, at |-> "queued"]]
        ELSE task[i]]

(* CreateTask: the reservation and the task are one transaction. *)
Reservable(i, kind) == status[i] = From[kind] /\ Unoccupied(i)
ReserveInstance(i, kind) ==
    /\ Reservable(i, kind)
    /\ status' = [status EXCEPT ![i] = Busy[kind]]
    /\ task' = Queued({i}, kind)

(* The node does what the task asks, or an error comes back, possibly after it did. *)
Obeys(i, k) ==
    /\ task[i][k].at = "queued"
    /\ runs' = [runs EXCEPT ![i] = task[i][k].kind = "start"]
    /\ task' = [task EXCEPT ![i][k].at = "done"]
    /\ UNCHANGED status

Fails(i, k) ==
    /\ task[i][k].at = "queued"
    /\ \E g \in {runs[i], task[i][k].kind = "start"} : runs' = [runs EXCEPT ![i] = g]
    /\ task' = [task EXCEPT ![i][k].at = "refused"]
    /\ UNCHANGED status

(* The executor writes what came of it, if the instance still waits for that. *)
Awaited(i, k) == status[i] = Busy[task[i][k].kind]
Closed(i, k) == task' = [task EXCEPT ![i][k] = EmptySlot]

Records(i, k) ==
    /\ task[i][k].at = "done"
    /\ status' = IF Awaited(i, k) THEN [status EXCEPT ![i] = Result[task[i][k].kind]] ELSE status
    /\ Closed(i, k)
    /\ UNCHANGED runs

RecordsFailure(i, k) ==
    /\ task[i][k].at = "refused"
    /\ \E s \in Failure[task[i][k].kind] :
          status' = IF Awaited(i, k) THEN [status EXCEPT ![i] = s] ELSE status
    /\ Closed(i, k)
    /\ UNCHANGED runs

(* A task that is cancelled before its call gives the instance back. *)
Cancelled(i, k) ==
    /\ task[i][k].at = "queued"
    /\ status' = IF Awaited(i, k) THEN [status EXCEPT ![i] = From[task[i][k].kind]] ELSE status
    /\ Closed(i, k)
    /\ UNCHANGED runs

Executes(i, k) == Obeys(i, k) \/ Records(i, k) \/ RecordsFailure(i, k)
TaskStep == \E i \in Instances, k \in Slots : Executes(i, k) \/ Fails(i, k) \/ Cancelled(i, k)

(* The guest stops or starts without the controller: it is shut down from within,   *)
(* the node reboots.                                                         *)
GuestTurns(i) ==
    /\ runs' = [runs EXCEPT ![i] = ~@]
    /\ UNCHANGED <<status, task>>
=============================================================================
