-------------------------------- MODULE PortPool --------------------------------
(***************************************************************************)
(* The node-side port mappings of one provider                             *)
(* (src/server/service/resources/port.go, port_allocate.go, clean.go,      *)
(* src/server/service/task/port_mapping_tasks.go).  A request picks a      *)
(* segment of host ports in one transaction and inserts its row in         *)
(* another; rows, not the cursor, say which ports are taken.  The rules on *)
(* the node are made and removed by tasks, which the provider's pool runs  *)
(* one after the other, as it does unless concurrent tasks are allowed.    *)
(* A reset replaces the guest and hands its rows to the new one.           *)
(***************************************************************************)
EXTENDS Naturals, Sequences, FiniteSets, FiniteSetsExt, Functions

CONSTANTS Insts,      \* instances
          Existing,   \* those that exist from the start
          Rows,       \* ids of mapping rows
          Reqs,       \* requests of administrators
          First, Last,\* the provider's port range
          Sizes,      \* lengths of the segments asked for
          MaxQueue,   \* tasks that wait
          MaxRefused, \* submissions that fail (the gate is closed, the database does not answer)
          None

ASSUME PortPoolAssumption ==
    /\ Existing \subseteq Insts /\ None \notin Insts \cup Rows
    /\ First \in Nat /\ Last \in Nat /\ First <= Last
    /\ Sizes \subseteq 1..(Last - First + 1) /\ 1 \in Sizes
    /\ MaxQueue \in Nat /\ MaxRefused \in Nat

VARIABLES port,    \* the table of mappings
          cursor,  \* Provider.NextAvailablePort
          guest,   \* the instances: "none", "busy", "ready", "error", "gone"
          rules,   \* rules[h]: the guests that host port h leads to
          req,     \* requests between their transactions
          queue,   \* the provider's tasks, in order
          refused, \* submissions that failed
          job      \* the task that runs

poolVars == <<port, cursor, guest, rules, req, queue, refused, job>>

PortRange == First..Last
NoRow == [inst |-> None, lo |-> First, n |-> 0, status |-> "none"]
Gone  == [NoRow EXCEPT !.status = "gone"]
NoReq == [at |-> "idle", row |-> None, inst |-> None, lo |-> First, n |-> 1]
NoJob == [op |-> "none", row |-> None, inst |-> None, at |-> "idle", had |-> {}, into |-> None]

Exists(r) == port[r].status \notin {"none", "gone"}
HostPorts(r) == port[r].lo .. (port[r].lo + port[r].n - 1)       \* effectiveStoredHostPortEnd
RowsOf(i) == {r \in Rows : Exists(r) /\ port[r].inst = i}
Occupied == UNION {HostPorts(r) : r \in {r \in Rows : Exists(r)}}
Free(lo, n) == lo .. (lo + n - 1) \subseteq PortRange \ Occupied
Fresh == {r \in Rows : port[r].status = "none"}

\* The first free segment at or after the cursor, else the first of the range.
FirstFree(n) ==
    LET free == {lo \in PortRange : Free(lo, n)}
        ahead == {lo \in free : lo >= cursor}
    IN IF ahead # {} THEN Min(ahead) ELSE Min(free)
After(lo, n) == IF lo + n > Last THEN First ELSE lo + n

\* OptimizeNextAvailablePortInTx: released ports lead the cursor back.
Back(released) == IF released # {} /\ Min(released) < cursor THEN Min(released) ELSE cursor

Marked(rs, status) == [r \in Rows |-> IF r \in rs /\ Exists(r) THEN [port[r] EXCEPT !.status = status] ELSE port[r]]
Dropped(rs) == [r \in Rows |-> IF r \in rs THEN Gone ELSE port[r]]

\* Rules are set and removed host port by host port.
WithRules(hs, i) == [h \in PortRange |-> IF h \in hs THEN rules[h] \cup {i} ELSE rules[h]]
WithoutRules(hs, i) == [h \in PortRange |-> IF h \in hs THEN rules[h] \ {i} ELSE rules[h]]

--------------------------------------------------------------------------------
(***************************************************************************)
(* Requests.                                                               *)
(***************************************************************************)
\* CreatePortMappingWithTask up to its allocation: the instance is read, and its status.
Ask(q, i, n) ==
    /\ req[q].at = "idle" /\ guest[i] = "ready"
    /\ req' = [req EXCEPT ![q] = [NoReq EXCEPT !.at = "checked", !.inst = i, !.n = n]]
    /\ UNCHANGED <<port, cursor, guest, rules, queue, job, refused>>

\* allocateConsecutivePorts moves the cursor; it inserts nothing.
Allocate(q) ==
    /\ req[q].at = "checked"
    /\ \E lo \in PortRange : Free(lo, req[q].n)
    /\ LET lo == FirstFree(req[q].n) IN
       /\ req' = [req EXCEPT ![q].at = "allocated", ![q].lo = lo]
       /\ cursor' = After(lo, req[q].n)
    /\ UNCHANGED <<port, guest, rules, queue, job, refused>>

\* A host port the administrator names is only checked.
Choose(q) ==
    /\ req[q].at = "checked"
    /\ \E lo \in PortRange : Free(lo, req[q].n) /\ req' = [req EXCEPT ![q].at = "allocated", ![q].lo = lo]
    /\ UNCHANGED <<port, cursor, guest, rules, queue, job, refused>>

NoPort(q) ==
    /\ req[q].at = "checked" /\ ~\E lo \in PortRange : Free(lo, req[q].n)
    /\ req' = [req EXCEPT ![q] = NoReq]
    /\ UNCHANGED <<port, cursor, guest, rules, queue, job, refused>>

\* The second transaction looks again, with the provider locked.
StillFreeUnlooked(q) == TRUE
StillFree(q) == Free(req[q].lo, req[q].n)

Insert(q) ==
    /\ req[q].at = "allocated" /\ Fresh # {}
    /\ IF StillFree(q)
       THEN LET r == CHOOSE r \in Fresh : TRUE IN
            /\ port' = [port EXCEPT ![r] = [inst |-> req[q].inst, lo |-> req[q].lo, n |-> req[q].n,
                                            status |-> "pending"]]
            /\ req' = [req EXCEPT ![q].at = "inserted", ![q].row = r]
       ELSE port' = port /\ req' = [req EXCEPT ![q] = NoReq]
    /\ UNCHANGED <<cursor, guest, rules, queue, job, refused>>

Task(op, r, i) == [NoJob EXCEPT !.op = op, !.row = r, !.inst = i, !.at = "begin"]

Rejected == refused < MaxRefused /\ refused' = refused + 1

\* The task, or without it the row goes again (the gate may have closed).
Submit(q) ==
    /\ req[q].at = "inserted"
    /\ \/ /\ Len(queue) < MaxQueue /\ port' = port
          /\ queue' = Append(queue, Task("create", req[q].row, req[q].inst))
          /\ refused' = refused
       \/ port' = Dropped({req[q].row}) /\ queue' = queue /\ Rejected
    /\ req' = [req EXCEPT ![q] = NoReq]
    /\ UNCHANGED <<cursor, guest, rules, job>>

\* DeletePortMappingWithTask, and the handler that submits its task or takes the mark back.
AskDelete(q, r) ==
    /\ req[q].at = "idle" /\ Exists(r) /\ guest[port[r].inst] = "ready"
    /\ port' = Marked({r}, "deleting")
    /\ req' = [req EXCEPT ![q] = [NoReq EXCEPT !.at = "marked", !.row = r, !.inst = port[r].inst]]
    /\ UNCHANGED <<cursor, guest, rules, queue, job, refused>>

SubmitDelete(q) ==
    /\ req[q].at = "marked"
    /\ \/ /\ Len(queue) < MaxQueue /\ port' = port
          /\ queue' = Append(queue, Task("delete", req[q].row, req[q].inst))
          /\ refused' = refused
       \/ port' = Marked({req[q].row}, "active") /\ queue' = queue /\ Rejected
    /\ req' = [req EXCEPT ![q] = NoReq]
    /\ UNCHANGED <<cursor, guest, rules, job>>

\* Creating, resetting or deleting an instance occupies it and queues its task in one transaction.
Occupy(i, op) ==
    /\ guest[i] = (IF op = "build" THEN "none" ELSE "ready")
    /\ Len(queue) < MaxQueue
    /\ guest' = [guest EXCEPT ![i] = "busy"]
    /\ queue' = Append(queue, Task(op, None, i))
    /\ UNCHANGED <<port, cursor, rules, req, job, refused>>

--------------------------------------------------------------------------------
(***************************************************************************)
(* Tasks.                                                                  *)
(***************************************************************************)
Begin ==
    /\ job = NoJob /\ queue # <<>>
    /\ job' = Head(queue) /\ queue' = Tail(queue)
    /\ UNCHANGED <<port, cursor, guest, rules, req, refused>>

At(op, at) == job.op = op /\ job.at = at
Step(at) == job' = [job EXCEPT !.at = at]
JobEnds == job' = NoJob

\* validatePortTaskOwnership
Owns == port[job.row].inst = job.inst /\ port[job.row].status # "restoring"

\* executeCreatePortMappingTask reads the row, its owner and the instance.
CreateReads ==
    /\ At("create", "begin")
    /\ \/ Exists(job.row) /\ Owns /\ guest[job.inst] # "gone" /\ Step("apply") /\ port' = port
       \/ Exists(job.row) /\ Owns /\ guest[job.inst] = "gone" /\ JobEnds /\ port' = Marked({job.row}, "failed")
       \/ ~(Exists(job.row) /\ Owns) /\ JobEnds /\ port' = port
    /\ UNCHANGED <<cursor, guest, rules, req, queue, refused>>

\* The endpoints of a segment are applied one by one; a failure leaves those before it.
CreateApplies ==
    /\ At("create", "apply")
    /\ \E k \in 0 .. port[job.row].n :
         /\ rules' = WithRules(port[job.row].lo .. (port[job.row].lo + k - 1), job.inst)
         /\ Step(IF k = port[job.row].n THEN "active" ELSE "failed")
    /\ UNCHANGED <<port, cursor, guest, req, queue, refused>>

CreateMarks ==
    /\ job.op = "create" /\ job.at \in {"active", "failed"}
    /\ port' = Marked({job.row}, job.at)
    /\ JobEnds
    /\ UNCHANGED <<cursor, guest, rules, req, queue, refused>>

DeleteReads ==
    /\ At("delete", "begin")
    /\ IF Exists(job.row) /\ Owns THEN Step("remove") ELSE JobEnds
    /\ UNCHANGED <<port, cursor, guest, rules, req, queue, refused>>

\* Rules that could not be removed keep the row, for the administrator to try again.
RowAfterDropped(all) == "drop"
RowAfter(all) == IF all THEN "drop" ELSE "keep"

DeleteRemoves ==
    /\ At("delete", "remove")
    /\ \E k \in 0 .. port[job.row].n :
         /\ rules' = WithoutRules(port[job.row].lo .. (port[job.row].lo + k - 1), job.inst)
         /\ Step(RowAfter(k = port[job.row].n))
    /\ UNCHANGED <<port, cursor, guest, req, queue, refused>>

DeleteMarks ==
    /\ job.op = "delete" /\ job.at \in {"drop", "keep"}
    /\ port' = IF job.at = "drop" THEN Dropped({job.row}) ELSE port
    /\ JobEnds
    /\ UNCHANGED <<cursor, guest, rules, req, queue, refused>>

\* The provider deletes the guest with its rules, or fails and everything stays.
GuestGone(then) ==
    \/ /\ rules' = [h \in PortRange |-> rules[h] \ {job.inst}]
       /\ Step(then) /\ guest' = guest
    \/ /\ rules' = rules /\ JobEnds
       /\ guest' = [guest EXCEPT ![job.inst] = "ready"]

RemoveGuest == At("remove", "begin") /\ GuestGone("rows") /\ UNCHANGED <<port, cursor, req, queue, refused>>

\* DeleteInstancePortMappingsInTx
RemoveRows ==
    /\ At("remove", "rows")
    /\ port' = Dropped(RowsOf(job.inst))
    /\ cursor' = Back({port[r].lo : r \in RowsOf(job.inst)})
    /\ guest' = [guest EXCEPT ![job.inst] = "gone"]
    /\ JobEnds
    /\ UNCHANGED <<rules, req, queue, refused>>

\* resetTask_Prepare notes the active mappings.
ResetReads ==
    /\ At("reset", "begin")
    /\ job' = [job EXCEPT !.at = "old guest", !.had = {r \in RowsOf(job.inst) : port[r].status = "active"}]
    /\ UNCHANGED <<port, cursor, guest, rules, req, queue, refused>>

ResetGuest == At("reset", "old guest") /\ GuestGone("transfer") /\ UNCHANGED <<port, cursor, req, queue, refused>>

\* transferResetPortMappingsInTx: a mapping that changed meanwhile ends the reset.
Transferable == job.had = {r \in RowsOf(job.inst) : port[r].status = "active"}

Transferred(i) ==
    [r \in Rows |-> IF r \notin RowsOf(job.inst) THEN port[r]
                    ELSE [port[r] EXCEPT !.inst = i, !.status = IF @ = "active" THEN "restoring" ELSE @]]

Transfer ==
    /\ At("reset", "transfer")
    /\ \E i \in Insts :
         /\ guest[i] = "none"
         /\ IF Transferable
            THEN /\ port' = Transferred(i)
                 /\ guest' = [guest EXCEPT ![job.inst] = "gone", ![i] = "busy"]
                 /\ job' = [job EXCEPT !.at = "restore", !.into = i]
            ELSE /\ guest' = [guest EXCEPT ![job.inst] = "error"]
                 /\ JobEnds /\ port' = port
    /\ UNCHANGED <<cursor, rules, req, queue, refused>>

Restoring == {r \in Rows : Exists(r) /\ port[r].inst = job.into /\ port[r].status = "restoring"}

\* The new guest, its rules, and what became of them; a failed creation leaves "error" rows.
Restore ==
    /\ At("reset", "restore")
    /\ \/ \E ok \in SUBSET Restoring :
            /\ rules' = WithRules(UNION {HostPorts(r) : r \in ok}, job.into)
            /\ port' = [r \in Rows |-> IF r \in ok THEN [port[r] EXCEPT !.status = "active"]
                                       ELSE IF r \in Restoring THEN [port[r] EXCEPT !.status = "failed"]
                                       ELSE port[r]]
            /\ guest' = [guest EXCEPT ![job.into] = "ready"]
       \/ /\ rules' = rules
          /\ port' = Marked(Restoring, "error")
          /\ guest' = [guest EXCEPT ![job.into] = "error"]
    /\ JobEnds
    /\ UNCHANGED <<cursor, req, queue, refused>>

\* createDefaultPortMappings: segment, rows and cursor in one transaction, before the guest is made.
BuildReserves ==
    /\ At("build", "begin") /\ Fresh # {}
    /\ IF \E lo \in PortRange : Free(lo, 1)
       THEN LET lo == FirstFree(1)
                r  == CHOOSE r \in Fresh : TRUE
            IN /\ port' = [port EXCEPT ![r] = [inst |-> job.inst, lo |-> lo, n |-> 1, status |-> "pending"]]
               /\ cursor' = After(lo, 1) /\ guest' = guest
               /\ Step("guest")
       ELSE /\ guest' = [guest EXCEPT ![job.inst] = "error"]
            /\ JobEnds /\ UNCHANGED <<port, cursor, refused>>
    /\ UNCHANGED <<rules, req, queue, refused>>

\* The guest is made with its rules, or its creation fails and its rows wait for the cleanup.
BuildEnds ==
    /\ At("build", "guest")
    /\ \/ /\ port' = Marked(RowsOf(job.inst), "active")
          /\ rules' = WithRules(UNION {HostPorts(r) : r \in RowsOf(job.inst)}, job.inst)
          /\ guest' = [guest EXCEPT ![job.inst] = "ready"]
       \/ /\ port' = Marked(RowsOf(job.inst), "deleting")
          /\ rules' = rules
          /\ guest' = [guest EXCEPT ![job.inst] = "error"]
    /\ JobEnds
    /\ UNCHANGED <<cursor, req, queue, refused>>

--------------------------------------------------------------------------------
PortPoolInit ==
    /\ port = [r \in Rows |-> NoRow] /\ cursor = First
    /\ guest = [i \in Insts |-> IF i \in Existing THEN "ready" ELSE "none"]
    /\ rules = [h \in PortRange |-> {}]
    /\ req = [q \in Reqs |-> NoReq] /\ queue = <<>> /\ refused = 0 /\ job = NoJob

PortPoolNext ==
    \/ \E q \in Reqs :
         \/ \E i \in Insts, n \in Sizes : Ask(q, i, n)
         \/ Allocate(q) \/ Choose(q) \/ NoPort(q) \/ Insert(q) \/ Submit(q)
         \/ \E r \in Rows : AskDelete(q, r)
         \/ SubmitDelete(q)
    \/ \E i \in Insts, op \in {"build", "reset", "remove"} : Occupy(i, op)
    \/ Begin \/ CreateReads \/ CreateApplies \/ CreateMarks
    \/ DeleteReads \/ DeleteRemoves \/ DeleteMarks \/ RemoveGuest \/ RemoveRows
    \/ ResetReads \/ ResetGuest \/ Transfer \/ Restore \/ BuildReserves \/ BuildEnds

PortPoolSpec == PortPoolInit /\ [][PortPoolNext]_poolVars

--------------------------------------------------------------------------------
PortPoolTypeOK ==
    /\ port \in [Rows -> [inst : Insts \cup {None}, lo : PortRange, n : 0..(Last - First + 1),
                          status : {"none", "gone", "pending", "active", "failed", "deleting",
                                    "restoring", "error"}]]
    /\ cursor \in PortRange
    /\ guest \in [Insts -> {"none", "busy", "ready", "error", "gone"}]
    /\ rules \in [PortRange -> SUBSET Insts]
    /\ \A q \in Reqs : req[q].lo \in PortRange /\ req[q].n \in Sizes /\ req[q].row \in Rows \cup {None}
    /\ refused \in 0..MaxRefused
    /\ Len(queue) <= MaxQueue /\ job.row \in Rows \cup {None} /\ job.inst \in Insts \cup {None}

(***************************************************************************)
(* No host port belongs to two rows, whoever allocated them between a      *)
(* request's two transactions, and whole segments count, not their first   *)
(* port (the unique index sees only that one).                             *)
(***************************************************************************)
SegmentsDisjoint ==
    \A r, s \in Rows : r # s /\ Exists(r) /\ Exists(s) => HostPorts(r) \cap HostPorts(s) = {}

(***************************************************************************)
(* While no task runs, a rule on the node leads to the guest of a row that *)
(* holds its port: after a failed removal, a reset, a late request.        *)
(***************************************************************************)
RulesHaveRows ==
    job = NoJob => \A h \in PortRange : \A i \in rules[h] :
                      \E r \in Rows : Exists(r) /\ port[r].inst = i /\ h \in HostPorts(r)
================================================================================
