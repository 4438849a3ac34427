------------------------------ MODULE PendingScan ------------------------------
(***************************************************************************)
(* The scheduler's scan of the pending tasks of one provider               *)
(* (src/server/service/scheduler/service.go).  A pass takes a batch of      *)
(* them in the order of their ids, from a cursor to a high-water mark that   *)
(* stands until the cursor has reached it, and tries to start each.         *)
(*                                                                         *)
(* A task that has ended may come back as a new one, the last of the line,   *)
(* so tasks arrive without end.                                           *)
(***************************************************************************)
EXTENDS Naturals, SequencesExt

CONSTANTS
    Tasks, NoTask,
    Maintenance,    \* those allowed on a provider that is not available
    Removals,       \* those allowed on one that is being deleted
    Limit,          \* tasks of a batch
    MaxReboots      \* bound: ends of the process

ASSUME PendingScanAssumption ==
    /\ NoTask \notin Tasks /\ Removals \subseteq Maintenance /\ Maintenance \subseteq Tasks
    /\ Limit \in Nat \ {0} /\ MaxReboots \in Nat

VARIABLES
    line,       \* the tasks in the order of their ids
    state,     \* tasks.status, "busy" from the claim to the end
    provider,   \* the provider's row
    cursor, mark,   \* pendingTaskCursor and pendingTaskHighWatermark, NoTask for 0
    at,         \* the scheduler's place in a pass
    batch,      \* tasks of the pass still to be tried
    loaded,     \* the provider as the pass read it
    reboots

markVars == <<cursor, mark>>
passVars == <<at, batch, loaded>>
scanVars == <<line, state, provider, markVars, passVars, reboots>>

Providers == {"usable", "unavailable", "deleting", "missing"}

ScanTypeOK ==
    /\ line \in Seq(Tasks) /\ IsInjective(line)
    /\ state \in [Tasks -> {"pending", "busy", "over"}]
    /\ {provider, loaded} \subseteq Providers
    /\ {cursor, mark} \subseteq Tasks \cup {NoTask}
    /\ at \in {"idle", "bounded", "tries"} /\ batch \in Seq(Tasks)
    /\ reboots \in 0..MaxReboots

ScanInit ==
    /\ line = <<>> /\ state = [t \in Tasks |-> "over"] /\ provider = "usable"
    /\ cursor = NoTask /\ mark = NoTask
    /\ at = "idle" /\ batch = <<>> /\ loaded = "usable" /\ reboots = 0

-----------------------------------------------------------------------------
Place(t) == IF t = NoTask THEN 0 ELSE CHOOSE i \in DOMAIN line : line[i] = t
Waiting == SelectSeq(line, LAMBDA t : state[t] = "pending")

(* The high-water mark, when there is none. *)
SetMark ==
    /\ at = "idle" /\ mark = NoTask
    /\ mark' = IF Waiting = <<>> THEN NoTask ELSE Last(Waiting)
    /\ cursor' = IF Waiting = <<>> \/ Place(Last(Waiting)) <= Place(cursor) THEN NoTask ELSE cursor
    /\ at' = "bounded"
    /\ UNCHANGED <<line, state, provider, batch, loaded, reboots>>

Batch ==
    LET ahead == SelectSeq(Waiting, LAMBDA t : Place(cursor) < Place(t) /\ Place(t) <= Place(mark))
    IN SubSeq(ahead, 1, IF Len(ahead) < Limit THEN Len(ahead) ELSE Limit)

(* The batch and its provider; an empty batch ends the round. *)
Fetch ==
    /\ at = "bounded" \/ (at = "idle" /\ mark # NoTask)
    /\ IF Batch = <<>>
       THEN cursor' = NoTask /\ mark' = NoTask /\ at' = "idle" /\ UNCHANGED <<batch, loaded>>
       ELSE batch' = Batch /\ loaded' = provider /\ at' = "tries" /\ UNCHANGED markVars
    /\ UNCHANGED <<line, state, provider, reboots>>

(* A query fails, or its 15 seconds are over. *)
FetchFails ==
    /\ at = "bounded" \/ (at = "idle" /\ mark # NoTask)
    /\ at' = "idle"
    /\ UNCHANGED <<line, state, provider, markVars, batch, loaded, reboots>>

Refused(t) ==
    \/ loaded = "missing"
    \/ loaded = "deleting" /\ t \notin Removals
    \/ loaded = "unavailable" /\ t \notin Maintenance

(* tryStartTask: the task is cancelled, or started, or left pending when there is  *)
(* no room for it.  One that is no longer pending is past that.                  *)
Outcomes(t) == IF state[t] # "pending" THEN {state[t]}
               ELSE IF Refused(t) THEN {"over", "pending"} ELSE {"busy", "pending"}

AtEndEarly(t) == Place(t) <= Place(mark)
AtEnd(t) == Place(t) >= Place(mark)

Try ==
    /\ at = "tries"
    /\ LET t == Head(batch)
           last == Tail(batch) = <<>>
       IN
       /\ \E s \in Outcomes(t) : state' = [state EXCEPT ![t] = s]
       /\ batch' = Tail(batch)
       /\ at' = IF last THEN "idle" ELSE "tries"
       /\ cursor' = IF last /\ AtEnd(t) THEN NoTask ELSE t
       /\ mark' = IF last /\ AtEnd(t) THEN NoTask ELSE mark
    /\ UNCHANGED <<line, provider, loaded, reboots>>

-----------------------------------------------------------------------------
(* Everybody else. *)
Referred(t) == t \in {cursor, mark} \/ Contains(batch, t)

Arrive(t) ==
    /\ state[t] = "over" /\ ~Referred(t)
    /\ line' = Append(Remove(line, t), t) /\ state' = [state EXCEPT ![t] = "pending"]
    /\ UNCHANGED <<provider, markVars, at, batch, loaded, reboots>>

(* It is cancelled or ends, or a worker or the reaper gives it back. *)
Moves(t) ==
    /\ \/ state[t] \in {"pending", "busy"} /\ state' = [state EXCEPT ![t] = "over"]
       \/ state[t] = "busy" /\ state' = [state EXCEPT ![t] = "pending"]
    /\ UNCHANGED <<line, provider, markVars, passVars, reboots>>

ProviderChanges ==
    /\ provider # "missing" /\ provider' \in Providers \ {provider}
    /\ UNCHANGED <<line, state, markVars, passVars, reboots>>

Reboots ==
    /\ reboots < MaxReboots /\ reboots' = reboots + 1
    /\ cursor' = NoTask /\ mark' = NoTask /\ at' = "idle" /\ batch' = <<>>
    /\ UNCHANGED <<line, state, provider, loaded>>

ScanNext ==
    \/ SetMark \/ Fetch \/ Try \/ FetchFails \/ ProviderChanges \/ Reboots
    \/ \E t \in Tasks : Arrive(t) \/ Moves(t)

(* The scheduler's loop goes on; a query that is repeated succeeds in the end. *)
ScanFairness == WF_scanVars(SetMark) /\ WF_scanVars(Fetch) /\ WF_scanVars(Try)

ScanSpec == ScanInit /\ [][ScanNext]_scanVars /\ ScanFairness

-----------------------------------------------------------------------------
(* However many tasks are in front of it, however full the provider and however   *)
(* many arrive behind it, a pending task is tried again and again.               *)
ScanComesRound == \A t \in Tasks :
    []<>(state[t] # "pending") \/ []<><<Try /\ Head(batch) = t>>_scanVars
=============================================================================
