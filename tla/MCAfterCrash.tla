---------------------------- MODULE MCAfterCrash ----------------------------
(* Small instances for TLC of what is put right after an end of the controller: the     *)
(* task it was at, and the forwards of an agent's ports.  They share no state, so a      *)
(* behaviour is of one of them, and the other is at rest.                       *)
EXTENDS MCTaskEngine, PortForward

VARIABLE part

afterCrashVars == <<part, vars, forwardVars>>

(* All rows ask for one port. *)
OnePort == [p \in Ports |-> 1]

(* One failure or one restart, which no deletion precedes or follows. *)
NoneDeleted == run'["task"].op = "none" /\ \A p \in Ports : portStatus'[p] # "deleting"
Brief == breaks' + restarts' <= 1 /\ (breaks' + restarts' = 1 => NoneDeleted)

AfterCrashInit ==
    /\ Init /\ PortForwardInit
    /\ \/ part = "task"
       \/ part = "forwards" /\ \A i \in Insts : inst[i] = "running"

AfterCrashNext ==
    /\ part' = part
    /\ \/ part = "task" /\ Next /\ UNCHANGED forwardVars
       \/ part = "forwards" /\ PortForwardNext /\ Brief /\ UNCHANGED vars

(* Of either, nothing that fairness asks for is enabled at rest. *)
AfterCrashSpec ==
    AfterCrashInit /\ [][AfterCrashNext]_afterCrashVars /\ Fairness /\ PortForwardFairness
=============================================================================
