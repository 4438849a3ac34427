--------------------------- MODULE TaskLifecycle ---------------------------
(***************************************************************************)
(* What the task engine promises about a task, whatever machinery executes  *)
(* it: the life of its row, and how that life relates to the goroutine that  *)
(* executes it.  A task is begun at most once; it ends by the hand of its    *)
(* executor, or when it has none; what has ended stays as it is; a task that *)
(* was asked to stop ends as cancelled or timed out, never as completed.     *)
(***************************************************************************)
CONSTANT Tasks

VARIABLES status, executing

Open == {"pending", "processing"}
Begun == {"running", "cancelling"}
Ended == {"completed", "failed", "cancelled", "timeout"}

Init == /\ status = [t \in Tasks |-> "absent"]
        /\ executing = {}

Become(t, s) == status' = [status EXCEPT ![t] = s]

Admit(t) == status[t] = "absent" /\ Become(t, "pending") /\ UNCHANGED executing

Queue(t) == status[t] = "pending" /\ Become(t, "processing") /\ UNCHANGED executing

Return(t) == status[t] = "processing" /\ Become(t, "pending") /\ UNCHANGED executing

\* The reply of the claim may be lost: then nobody executes what has begun.
Begin(t) ==
    /\ status[t] \in Open /\ Become(t, "running")
    /\ executing' \in {executing, executing \cup {t}}

Ask(t) == status[t] = "running" /\ Become(t, "cancelling") /\ UNCHANGED executing

\* A task that has not begun is dropped.
Drop(t) ==
    /\ status[t] \in Open
    /\ \E s \in {"cancelled", "failed"} : Become(t, s)
    /\ UNCHANGED executing

\* The executor stops, whether or not it could write the end of the task.
Leave(t) == t \in executing /\ executing' = executing \ {t} /\ UNCHANGED status

End(t) ==
    /\ status[t] \in Begun
    /\ \E s \in IF status[t] = "running" THEN {"completed", "failed", "timeout"}
                                         ELSE {"cancelled", "timeout"} : Become(t, s)
    /\ executing' = executing \ {t}

Crash == executing' = {} /\ UNCHANGED status

\* The restarted process ends everything that was in flight.
Interrupt ==
    /\ executing = {} /\ UNCHANGED executing
    /\ status' = [t \in Tasks |-> CASE status[t] = "cancelling" -> "cancelled"
                                    [] status[t] \in {"processing", "running"} -> "failed"
                                    [] OTHER -> status[t]]

Next ==
    \/ \E t \in Tasks : \/ Admit(t) \/ Queue(t) \/ Return(t) \/ Begin(t) \/ Ask(t)
                        \/ Drop(t) \/ Leave(t) \/ End(t)
    \/ Crash \/ Interrupt

Spec == Init /\ [][Next]_<<status, executing>>
=============================================================================
