----------------------------- MODULE InstanceSync -----------------------------
(***************************************************************************)
(* The periodic comparison of one provider's instances with its node         *)
(* (src/server/service/scheduler/instance_sync.go,                          *)
(* src/server/service/admin/provider/instance_discovery.go).  It lists what    *)
(* the node runs, then reads the instances, then writes a status that has     *)
(* differed in three reports; users' tasks and the guests go on meanwhile.     *)
(***************************************************************************)
EXTENDS InstancePower

CONSTANT Confirmations    \* requiredConfirmations

ASSUME SyncAssumption == Confirmations \in Nat \ {0}

VARIABLES
    report,   \* the comparison under way
    tracker  \* mismatchTracker: what the node said, and in how many reports

syncVars == <<powerVars, report, tracker>>

Remote(i) == IF runs[i] THEN "running" ELSE "stopped"
Remotes == {"running", "stopped"}
NoRecord == [remote |-> "none", count |-> 0]
NoReport == [at |-> "idle", remote |-> [i \in Instances |-> "none"],
             old |-> [i \in Instances |-> "none"], changed |-> {}, left |-> {}]

InstanceSyncTypeOK ==
    /\ PowerTypeOK
    /\ report \in [at : {"idle", "listed", "compared"},
                   remote : [Instances -> Remotes \cup {"none"}],
                   old : [Instances -> Statuses \cup {"none"}],
                   changed : SUBSET Instances, left : SUBSET Instances]
    /\ tracker \in [Instances -> [remote : Remotes, count : 1..Confirmations] \cup {NoRecord}]

InstanceSyncInit ==
    /\ PowerInit
    /\ report = NoReport
    /\ tracker = [i \in Instances |-> NoRecord]

-----------------------------------------------------------------------------
(* compareInstancesWithRemote: the node first, the database after it. *)
Lists ==
    /\ report.at = "idle"
    /\ report' = [NoReport EXCEPT !.at = "listed", !.remote = [i \in Instances |-> Remote(i)]]
    /\ UNCHANGED <<powerVars, tracker>>

Differing == {i \in Instances : status[i] # report.remote[i]}
Compares ==
    /\ report.at = "listed"
    /\ report' = [report EXCEPT !.at = "compared", !.old = status,
                                !.changed = Differing, !.left = Differing]
    /\ UNCHANGED <<powerVars, tracker>>

(* The node does not answer, or the database does not. *)
GivesUp ==
    /\ report.at = "listed"
    /\ report' = NoReport
    /\ UNCHANGED <<powerVars, tracker>>

(* processStatusChanges, one instance of the report.  All the statuses of a start or   *)
(* a stop pass its filter, which keeps creating and resetting instances out.         *)
Repeated(i) == tracker[i].remote = report.remote[i]
Counted(i) == IF Repeated(i) THEN [tracker[i] EXCEPT !.count = @ + 1]
                             ELSE [remote |-> report.remote[i], count |-> 1]
Confirmed(i) == Repeated(i) /\ tracker[i].count + 1 >= Confirmations
StillOld(i) == status[i] = report.old[i]

Processes(i) ==
    /\ report.at = "compared" /\ i \in report.left
    /\ report' = [report EXCEPT !.left = @ \ {i}]
    /\ tracker' = [tracker EXCEPT ![i] = IF Confirmed(i) THEN NoRecord ELSE Counted(i)]
    /\ status' = IF Confirmed(i) /\ StillOld(i)
                 THEN [status EXCEPT ![i] = report.remote[i]] ELSE status
    /\ UNCHANGED <<runs, task>>

(* The database refuses the write: the record stays as it counts. *)
WriteFails(i) ==
    /\ report.at = "compared" /\ i \in report.left /\ Confirmed(i)
    /\ report' = [report EXCEPT !.left = @ \ {i}]
    /\ UNCHANGED <<powerVars, tracker>>

ConcludesInverted ==   \* mutant: the instances that differ are forgotten
    /\ report.at = "compared" /\ report.left = {}
    /\ tracker' = [i \in Instances |-> IF i \in report.changed THEN NoRecord ELSE tracker[i]]
    /\ report' = NoReport
    /\ UNCHANGED powerVars

(* A report that differs somewhere forgets the instances that agree; one that differs     *)
(* nowhere returns at once.                                                 *)
Concludes ==
    /\ report.at = "compared" /\ report.left = {}
    /\ tracker' = IF report.changed = {} THEN tracker
                  ELSE [i \in Instances |-> IF i \in report.changed THEN tracker[i] ELSE NoRecord]
    /\ report' = NoReport
    /\ UNCHANGED powerVars

(* cleanupExpiredMismatchRecords, for reports that are far apart. *)
Forgets(i) ==
    /\ report.at = "idle" /\ tracker[i] # NoRecord
    /\ tracker' = [tracker EXCEPT ![i] = NoRecord]
    /\ UNCHANGED <<powerVars, report>>

-----------------------------------------------------------------------------
UserAsks(i, kind) == ReserveInstance(i, kind) /\ UNCHANGED <<runs, report, tracker>>

SyncStep == Lists \/ Compares \/ Concludes \/ \E i \in Instances : Processes(i)
SyncFault == GivesUp \/ \E i \in Instances : WriteFails(i) \/ Forgets(i)

InstanceSyncNext ==
    \/ SyncStep \/ SyncFault
    \/ \E i \in Instances, kind \in Kinds : UserAsks(i, kind)
    \/ TaskStep /\ UNCHANGED <<report, tracker>>
    \/ \E i \in Instances : GuestTurns(i) /\ UNCHANGED <<report, tracker>>

(* The ticker of the scheduler and the pool keep going; a node answers in the end. *)
ComparisonFairness ==
    /\ SF_syncVars(Compares) /\ WF_syncVars(Concludes)
    /\ \A i \in Instances :
          /\ SF_syncVars(Processes(i))
          /\ \A k \in Slots : WF_syncVars(Executes(i, k) /\ UNCHANGED <<report, tracker>>)
InstanceSyncFairness == WF_syncVars(Lists) /\ ComparisonFairness

InstanceSyncSpec == InstanceSyncInit /\ [][InstanceSyncNext]_syncVars /\ InstanceSyncFairness

-----------------------------------------------------------------------------
(* Once nobody operates an instance, its guest stays as it is and reports come less than   *)
(* mismatchExpiry apart, its status becomes what the node shows and stays so, whatever     *)
(* the late results, cancelled tasks and interrupted reports of before left there.       *)
ReportsComeInTime == <>[][\A i \in Instances : ~Forgets(i)]_syncVars
StatusHeals ==
    ReportsComeInTime =>
        \A i \in Instances, g \in BOOLEAN :
            <>[](Unoccupied(i) /\ runs[i] = g) => <>[](status[i] = Remote(i))
=============================================================================
