--------------------------- MODULE PortPoolProofs ---------------------------
(***************************************************************************)
(* Theorems about the host ports of a provider, for any range, sizes,        *)
(* instances, requests and refused submissions.                             *)
(*                                                                          *)
(* Ports are held by rows: a request that chose its segment in an earlier     *)
(* transaction looks again when it inserts, so that only the rows matter, not  *)
(* the cursor nor what other requests chose.  Every other step keeps a row's   *)
(* segment or takes the row away.                                           *)
(*                                                                          *)
(* Rules follow rows: a task makes rules only for a row it has read, and the   *)
(* rows that go have no rule left, as their task removed it or, for a row      *)
(* whose submission was refused, as none was made yet.  That last reason is    *)
(* good for one refusal (RulesHaveRowsAlways).                               *)
(***************************************************************************)
EXTENDS PortPool, WellFoundedInduction, TLAPS

Statuses == {"none", "gone", "pending", "active", "failed", "deleting", "restoring", "error"}
Table == [Rows -> [inst : Insts \cup {None}, lo : PortRange, n : 0..(Last - First + 1),
                   status : Statuses]]

Stages == {"begin", "apply", "active", "failed", "remove", "drop", "keep", "rows", "old guest",
           "transfer", "restore", "guest"}

PoolTasks ==
    {t \in [op : {"create", "delete", "build", "reset", "remove"}, row : Rows \cup {None},
            inst : Insts, at : Stages, had : SUBSET Rows, into : Insts \cup {None}] :
        (t.op \in {"create", "delete"} => t.row \in Rows) /\ (t.at = "restore" => t.into \in Insts)}

Requests == [at : {"idle", "checked", "allocated", "inserted", "marked"}, row : Rows \cup {None},
             inst : Insts \cup {None}, lo : PortRange, n : Sizes]

\* What the types leave out: a row that exists has an instance, and requests and tasks
\* carry what their next step reads.
PortTyped == port \in Table /\ \A r \in Rows : Exists(r) => port[r].inst \in Insts
ReqsTyped ==
    /\ req \in [Reqs -> Requests]
    /\ \A q \in Reqs : /\ req[q].at # "idle" => req[q].inst \in Insts
                       /\ req[q].at \in {"inserted", "marked"} => req[q].row \in Rows
QueueKept == queue \in Seq(PoolTasks) /\ Len(queue) <= MaxQueue

PoolTyped ==
    /\ PortTyped /\ cursor \in PortRange
    /\ guest \in [Insts -> {"none", "busy", "ready", "error", "gone"}]
    /\ rules \in [PortRange -> SUBSET Insts]
    /\ ReqsTyped /\ QueueKept
    /\ job \in PoolTasks \cup {NoJob}
    /\ refused \in 0..MaxRefused

-----------------------------------------------------------------------------
(* A set of natural numbers has a least one.                                *)

LEMMA LeastOf ==
  ASSUME NEW R, IsWellFoundedOn(R, Nat), \A x, y \in Nat : <<y, x>> \in R <=> y < x,
         NEW S \in SUBSET Nat, S # {}
  PROVE  \E x \in S : \A y \in S : x <= y
  <1>1. PICK x \in S : \A y \in S : ~(<<y, x>> \in R)
    BY WFMin
  <1>2. \A y \in S : ~(y < x)
    <2> TAKE y \in S
    <2>1. x \in Nat /\ y \in Nat
      OBVIOUS
    <2>2. ~(<<y, x>> \in R)
      BY <1>1
    <2> QED
      BY <2>1, <2>2, Zenon
  <1>3. \A y \in S : x <= y
    BY <1>2
  <1> QED
    BY <1>3

LEMMA Least == \A S \in SUBSET Nat : S # {} => \E x \in S : \A y \in S : x <= y
  <1>1. IsWellFoundedOn(OpToRel(<, Nat), Nat)
    BY NatLessThanWellFounded
  <1>2. \A x, y \in Nat : <<y, x>> \in OpToRel(<, Nat) <=> y < x
    BY DEF OpToRel
  <1>3. \E R : IsWellFoundedOn(R, Nat) /\ \A x, y \in Nat : <<y, x>> \in R <=> y < x
    BY <1>1, <1>2, Zenon
  <1> QED
    BY <1>3, LeastOf

LEMMA MinIn == ASSUME NEW S \in SUBSET Nat, S # {} PROVE Min(S) \in S
  BY Least DEF Min

LEMMA RangeNat == PortRange \in SUBSET Nat /\ First \in PortRange /\ Last \in PortRange
  BY PortPoolAssumption DEF PortRange

\* The segment found is free, wherever the cursor stands.
LEMMA FirstFreeFits ==
  ASSUME NEW n, \E lo \in PortRange : Free(lo, n)
  PROVE  FirstFree(n) \in PortRange /\ Free(FirstFree(n), n)
  <1> DEFINE free  == {lo \in PortRange : Free(lo, n)}
             ahead == {lo \in free : lo >= cursor}
  <1>1. free \in SUBSET Nat /\ free # {} /\ ahead \in SUBSET Nat
    BY RangeNat
  <1>2. Min(free) \in free /\ (ahead # {} => Min(ahead) \in ahead)
    BY <1>1, MinIn
  <1>3. FirstFree(n) \in free
    BY <1>2 DEF FirstFree
  <1> QED
    BY <1>3

\* The cursor stays in the range: past its end it wraps.
LEMMA AfterInRange ==
  ASSUME NEW lo \in PortRange, NEW n \in Sizes PROVE After(lo, n) \in PortRange
  BY PortPoolAssumption DEF After, PortRange

LEMMA BackInRange ==
  ASSUME NEW S \in SUBSET PortRange, cursor \in PortRange PROVE Back(S) \in PortRange
  BY MinIn, RangeNat DEF Back

-----------------------------------------------------------------------------
(* Types.                                                                   *)

LEMMA TableOps ==
  ASSUME PoolTyped, NEW rs
  PROVE  /\ \A s \in Statuses : Marked(rs, s) \in Table
         /\ Dropped(rs) \in Table
  <1>1. Gone \in [inst : Insts \cup {None}, lo : PortRange, n : 0..(Last - First + 1), status : Statuses]
    BY RangeNat, PortPoolAssumption DEF Gone, NoRow, Statuses
  <1>2. \A s \in Statuses, r \in Rows :
          [port[r] EXCEPT !.status = s] \in [inst : Insts \cup {None}, lo : PortRange,
                                             n : 0..(Last - First + 1), status : Statuses]
    BY DEF PoolTyped, PortTyped, Table
  <1>3. port \in Table
    BY DEF PoolTyped, PortTyped
  <1> HIDE DEF Statuses
  <1>4. \A s \in Statuses : Marked(rs, s) \in Table
    BY <1>2, <1>3 DEF Table, Marked
  <1>5. Dropped(rs) \in Table
    BY <1>1, <1>3 DEF Table, Dropped
  <1> QED
    BY <1>4, <1>5

\* Marking and dropping rows bring no row into existence and move no segment.
Kept(t) ==
    \A r \in Rows : t[r].status \notin {"none", "gone"} =>
        /\ Exists(r) /\ t[r].lo = port[r].lo /\ t[r].n = port[r].n
        /\ (t[r].inst = port[r].inst \/ t[r].inst \in Insts)

LEMMA MarkedKept ==
  ASSUME PoolTyped, NEW rs, NEW s \in Statuses \ {"none", "gone"} PROVE Kept(Marked(rs, s))
  BY DEF PoolTyped, PortTyped, Table, Kept, Marked, Exists, Statuses

LEMMA DroppedKept ==
  ASSUME PoolTyped, NEW rs PROVE Kept(Dropped(rs))
  BY DEF PoolTyped, PortTyped, Table, Kept, Dropped, Gone, NoRow, Exists

LEMMA SameKept == PoolTyped => Kept(port)
  BY DEF PoolTyped, PortTyped, Kept, Exists

\* What a new row of the table is: its instance, its segment, pending.
NewRow(r, i, lo, n) ==
    port' = [port EXCEPT ![r] = [inst |-> i, lo |-> lo, n |-> n, status |-> "pending"]]

LEMMA NewRowTyped ==
  ASSUME PoolTyped, NEW r \in Rows, NEW i \in Insts, NEW lo \in PortRange, NEW n \in Sizes,
         NewRow(r, i, lo, n)
  PROVE  PortTyped'
  <1>1. n \in 0..(Last - First + 1)
    BY PortPoolAssumption
  <1> QED
    BY <1>1 DEF NewRow, PoolTyped, PortTyped, Table, Statuses, Exists

LEMMA RulesTyped ==
  ASSUME PoolTyped, NEW hs, NEW i \in Insts
  PROVE  /\ WithRules(hs, i) \in [PortRange -> SUBSET Insts]
         /\ WithoutRules(hs, i) \in [PortRange -> SUBSET Insts]
  BY DEF PoolTyped, PortTyped, WithRules, WithoutRules

LEMMA TaskTyped ==
  ASSUME NEW op \in {"create", "delete", "build", "reset", "remove"}, NEW r \in Rows \cup {None},
         NEW i \in Insts, op \in {"create", "delete"} => r \in Rows
  PROVE  Task(op, r, i) \in PoolTasks
  BY DEF Task, NoJob, PoolTasks, Stages

LEMMA QueueTyped ==
  ASSUME PoolTyped, NEW t \in PoolTasks, Len(queue) < MaxQueue
  PROVE  Append(queue, t) \in Seq(PoolTasks) /\ Len(Append(queue, t)) <= MaxQueue
  BY PortPoolAssumption DEF PoolTyped, QueueKept

\* A request that ends is idle.
LEMMA RequestEnds ==
  ASSUME PoolTyped, NEW q \in Reqs, req' = [req EXCEPT ![q] = NoReq]
  PROVE  ReqsTyped'
  BY PortPoolAssumption, RangeNat DEF PoolTyped, ReqsTyped, Requests, NoReq

LEMMA JobSteps ==
  ASSUME PoolTyped, job \in PoolTasks, NEW s \in Stages \ {"restore"}, Step(s)
  PROVE  job' \in PoolTasks
  BY DEF Step, PoolTasks

LEMMA PoolTypedInit == PortPoolInit => PoolTyped
  <1> SUFFICES ASSUME PortPoolInit PROVE PoolTyped
    OBVIOUS
  <1>1. port \in Table /\ cursor \in PortRange
    BY RangeNat, PortPoolAssumption DEF PortPoolInit, Table, NoRow, Statuses
  <1>2. req \in [Reqs -> Requests]
    BY RangeNat, PortPoolAssumption DEF PortPoolInit, NoReq, Requests
  <1>3. queue \in Seq(PoolTasks) /\ Len(queue) <= MaxQueue /\ refused \in 0..MaxRefused
    BY PortPoolAssumption DEF PortPoolInit
  <1> QED
    BY <1>1, <1>2, <1>3 DEF PortPoolInit, PoolTyped, PortTyped, ReqsTyped, QueueKept, Exists, NoRow, NoReq

LEMMA KeptTyped == ASSUME PoolTyped, port' \in Table, Kept(port') PROVE PortTyped'
  BY DEF PoolTyped, PortTyped, Kept, Exists

LEMMA SamePort == ASSUME PoolTyped, port' = port PROVE PortTyped'
  BY DEF PoolTyped, PortTyped, Exists

LEMMA SameReq == ASSUME PoolTyped, req' = req PROVE ReqsTyped'
  BY DEF PoolTyped, ReqsTyped

\* A request that takes its next stage with a segment or a row.
LEMMA Allocated ==
  ASSUME PoolTyped, NEW q \in Reqs, req[q].at = "checked", NEW lo \in PortRange,
         req' = [req EXCEPT ![q].at = "allocated", ![q].lo = lo]
  PROVE  ReqsTyped'
  <1> DEFINE mid == [req EXCEPT ![q].at = "allocated"]
  <1>1. mid \in [Reqs -> Requests] /\ \A p \in Reqs : mid[p].inst = req[p].inst /\ mid[p].row = req[p].row
    BY DEF PoolTyped, ReqsTyped, Requests
  <1>2. mid[q].at = "allocated" /\ \A p \in Reqs \ {q} : mid[p] = req[p]
    BY DEF PoolTyped, ReqsTyped, Requests
  <1>3. req' = [mid EXCEPT ![q].lo = lo]
    OBVIOUS
  <1> HIDE DEF mid
  <1>4. req' \in [Reqs -> Requests]
    BY <1>1, <1>3 DEF Requests
  <1>5. \A p \in Reqs : req'[p].at = mid[p].at /\ req'[p].inst = mid[p].inst /\ req'[p].row = mid[p].row
    BY <1>1, <1>3 DEF Requests
  <1> QED
    BY <1>1, <1>2, <1>4, <1>5 DEF PoolTyped, ReqsTyped

LEMMA Inserted ==
  ASSUME PoolTyped, NEW q \in Reqs, req[q].at = "allocated", NEW r \in Rows,
         req' = [req EXCEPT ![q].at = "inserted", ![q].row = r]
  PROVE  ReqsTyped'
  <1> DEFINE mid == [req EXCEPT ![q].at = "inserted"]
  <1>1. mid \in [Reqs -> Requests] /\ \A p \in Reqs : mid[p].inst = req[p].inst
    BY DEF PoolTyped, ReqsTyped, Requests
  <1>2. mid[q].at = "inserted" /\ \A p \in Reqs \ {q} : mid[p] = req[p]
    BY DEF PoolTyped, ReqsTyped, Requests
  <1>3. req' = [mid EXCEPT ![q].row = r]
    OBVIOUS
  <1> HIDE DEF mid
  <1>4. req' \in [Reqs -> Requests]
    BY <1>1, <1>3 DEF Requests
  <1>5. req'[q].row = r
    BY <1>1, <1>3 DEF Requests
  <1>6. \A p \in Reqs : req'[p].at = mid[p].at /\ req'[p].inst = mid[p].inst /\ (p # q => req'[p] = mid[p])
    BY <1>1, <1>3 DEF Requests
  <1>7. req[q].inst \in Insts
    BY DEF PoolTyped, ReqsTyped
  <1> QED
    BY <1>1, <1>2, <1>4, <1>6, <1>7, <1>5 DEF PoolTyped, ReqsTyped

\* The steps of requests.
LEMMA AskTyped ==
  ASSUME PoolTyped, NEW q \in Reqs, NEW i \in Insts, NEW n \in Sizes, Ask(q, i, n) PROVE PoolTyped'
  <1>1. PortTyped'
    BY SamePort DEF Ask
  <1>2. ReqsTyped'
    BY PortPoolAssumption, RangeNat DEF Ask, PoolTyped, ReqsTyped, Requests, NoReq
  <1> QED
    BY <1>1, <1>2 DEF Ask, PoolTyped, QueueKept

LEMMA AllocateTyped == ASSUME PoolTyped, NEW q \in Reqs, Allocate(q) PROVE PoolTyped'
  <1> DEFINE lo == FirstFree(req[q].n)
  <1>1. lo \in PortRange /\ req[q].n \in Sizes
    BY FirstFreeFits DEF Allocate, PoolTyped, ReqsTyped, Requests
  <1>2. cursor' \in PortRange
    BY <1>1, AfterInRange DEF Allocate
  <1>3. PortTyped'
    BY SamePort DEF Allocate
  <1>4. req' = [req EXCEPT ![q].at = "allocated", ![q].lo = lo]
    BY DEF Allocate
  <1>5. ReqsTyped'
    BY <1>1, <1>4, Allocated DEF Allocate
  <1> QED
    BY <1>2, <1>3, <1>5 DEF Allocate, PoolTyped, QueueKept

LEMMA ChooseTyped == ASSUME PoolTyped, NEW q \in Reqs, Choose(q) PROVE PoolTyped'
  <1>1. PortTyped'
    BY SamePort DEF Choose
  <1>2. ReqsTyped'
    BY Allocated DEF Choose
  <1> QED
    BY <1>1, <1>2 DEF Choose, PoolTyped, QueueKept

LEMMA NoPortTyped == ASSUME PoolTyped, NEW q \in Reqs, NoPort(q) PROVE PoolTyped'
  <1>1. PortTyped' /\ ReqsTyped'
    BY SamePort, RequestEnds DEF NoPort
  <1> QED
    BY <1>1 DEF NoPort, PoolTyped, QueueKept

\* What an insertion writes: the segment it has looked at again.
LEMMA InsertRow ==
  ASSUME PoolTyped, NEW q \in Reqs, Insert(q), StillFree(q)
  PROVE  \E r \in Fresh : /\ NewRow(r, req[q].inst, req[q].lo, req[q].n)
                         /\ req' = [req EXCEPT ![q].at = "inserted", ![q].row = r]
  BY DEF Insert, NewRow

LEMMA InsertTyped == ASSUME PoolTyped, NEW q \in Reqs, Insert(q) PROVE PoolTyped'
  <1>1. CASE StillFree(q)
    <2>1. PICK r \in Fresh : /\ NewRow(r, req[q].inst, req[q].lo, req[q].n)
                             /\ req' = [req EXCEPT ![q].at = "inserted", ![q].row = r]
      BY <1>1, InsertRow
    <2>2. r \in Rows /\ req[q].inst \in Insts /\ req[q].lo \in PortRange /\ req[q].n \in Sizes
      BY DEF Fresh, Insert, PoolTyped, ReqsTyped, Requests
    <2>3. PortTyped'
      BY <2>1, <2>2, NewRowTyped
    <2>4. ReqsTyped'
      BY <2>1, <2>2, Inserted DEF Insert
    <2> QED
      BY <2>3, <2>4 DEF Insert, PoolTyped, QueueKept
  <1>2. CASE ~StillFree(q)
    <2>1. PortTyped' /\ ReqsTyped'
      BY <1>2, SamePort, RequestEnds DEF Insert
    <2> QED
      BY <2>1 DEF Insert, PoolTyped, QueueKept
  <1> QED
    BY <1>1, <1>2

LEMMA SubmitTyped == ASSUME PoolTyped, NEW q \in Reqs, Submit(q) \/ SubmitDelete(q) PROVE PoolTyped'
  <1>1. ReqsTyped'
    BY RequestEnds DEF Submit, SubmitDelete
  <1>2. req[q].row \in Rows /\ req[q].inst \in Insts
    BY DEF Submit, SubmitDelete, PoolTyped, ReqsTyped
  <1>3. Task("create", req[q].row, req[q].inst) \in PoolTasks /\ Task("delete", req[q].row, req[q].inst) \in PoolTasks
    BY <1>2, TaskTyped
  <1>4. QueueKept'
    BY <1>3, QueueTyped DEF Submit, SubmitDelete, PoolTyped, QueueKept
  <1>5. port' = port \/ port' = Dropped({req[q].row}) \/ port' = Marked({req[q].row}, "active")
    BY DEF Submit, SubmitDelete
  <1>6. port' \in Table /\ Kept(port')
    BY <1>5, TableOps, DroppedKept, MarkedKept, SameKept DEF Statuses, PoolTyped, PortTyped
  <1>7. refused' \in 0..MaxRefused
    BY PortPoolAssumption DEF Submit, SubmitDelete, Rejected, PoolTyped
  <1> QED
    BY <1>1, <1>4, <1>6, <1>7, KeptTyped DEF Submit, SubmitDelete, PoolTyped

LEMMA AskDeleteTyped ==
  ASSUME PoolTyped, NEW q \in Reqs, NEW r \in Rows, AskDelete(q, r) PROVE PoolTyped'
  <1>1. port' \in Table /\ Kept(port')
    BY TableOps, MarkedKept DEF AskDelete, Statuses
  <1>2. port[r].inst \in Insts
    BY DEF AskDelete, PoolTyped, PortTyped
  <1>3. ReqsTyped'
    BY <1>2, PortPoolAssumption, RangeNat DEF AskDelete, PoolTyped, ReqsTyped, Requests, NoReq
  <1> QED
    BY <1>1, <1>3, KeptTyped DEF AskDelete, PoolTyped, QueueKept

LEMMA OccupyTyped ==
  ASSUME PoolTyped, NEW i \in Insts, NEW op \in {"build", "reset", "remove"}, Occupy(i, op)
  PROVE  PoolTyped'
  <1>1. Task(op, None, i) \in PoolTasks
    BY TaskTyped
  <1>2. QueueKept'
    BY <1>1, QueueTyped DEF Occupy, PoolTyped, QueueKept
  <1>3. PortTyped' /\ ReqsTyped'
    BY SamePort, SameReq DEF Occupy
  <1> QED
    BY <1>2, <1>3 DEF Occupy, PoolTyped

\* The steps of tasks.
JobTyped == job \in PoolTasks

LEMMA JobIs == ASSUME PoolTyped, job.at # "idle" PROVE JobTyped
  BY DEF PoolTyped, JobTyped, NoJob

LEMMA BeginTyped == ASSUME PoolTyped, Begin PROVE PoolTyped'
  <1>1. PortTyped' /\ ReqsTyped'
    BY SamePort, SameReq DEF Begin
  <1>2. queue \in Seq(PoolTasks) /\ queue # <<>> /\ Len(queue) <= MaxQueue
    BY DEF Begin, PoolTyped, QueueKept
  <1>3. Head(queue) \in PoolTasks /\ Tail(queue) \in Seq(PoolTasks) /\ Len(Tail(queue)) <= MaxQueue
    BY <1>2, PortPoolAssumption
  <1>4. job' \in PoolTasks /\ QueueKept'
    BY <1>3 DEF Begin, QueueKept
  <1> QED
    BY <1>1, <1>4 DEF Begin, PoolTyped

LEMMA CreateTyped ==
  ASSUME PoolTyped, CreateReads \/ CreateApplies \/ CreateMarks
  PROVE  PoolTyped'
  <1>1. JobTyped
    BY JobIs DEF CreateReads, CreateApplies, CreateMarks, At
  <1>2. port' = port \/ port' = Marked({job.row}, "failed") \/ port' = Marked({job.row}, "active")
    BY DEF CreateReads, CreateApplies, CreateMarks
  <1>3. port' \in Table /\ Kept(port')
    BY <1>2, TableOps, MarkedKept, SameKept DEF Statuses, PoolTyped, PortTyped
  <1>4. job' \in PoolTasks \cup {NoJob}
    BY <1>1, JobSteps DEF CreateReads, CreateApplies, CreateMarks, JobEnds, Stages, JobTyped
  <1>5. job.inst \in Insts
    BY <1>1 DEF JobTyped, PoolTasks
  <1>6. rules' \in [PortRange -> SUBSET Insts]
    BY <1>5, RulesTyped DEF CreateReads, CreateApplies, CreateMarks, PoolTyped
  <1>7. ReqsTyped'
    BY SameReq DEF CreateReads, CreateApplies, CreateMarks
  <1> QED
    BY <1>3, <1>4, <1>6, <1>7, KeptTyped
    DEF CreateReads, CreateApplies, CreateMarks, PoolTyped, QueueKept

LEMMA DeleteTyped ==
  ASSUME PoolTyped, DeleteReads \/ DeleteRemoves \/ DeleteMarks
  PROVE  PoolTyped'
  <1>1. JobTyped
    BY JobIs DEF DeleteReads, DeleteRemoves, DeleteMarks, At
  <1>2. port' = port \/ port' = Dropped({job.row})
    BY DEF DeleteReads, DeleteRemoves, DeleteMarks
  <1>3. port' \in Table /\ Kept(port')
    BY <1>2, TableOps, DroppedKept, SameKept DEF PoolTyped, PortTyped
  <1>4. job' \in PoolTasks \cup {NoJob}
    BY <1>1, JobSteps DEF DeleteReads, DeleteRemoves, DeleteMarks, JobEnds, RowAfter, Stages, JobTyped
  <1>5. job.inst \in Insts
    BY <1>1 DEF JobTyped, PoolTasks
  <1>6. rules' \in [PortRange -> SUBSET Insts]
    BY <1>5, RulesTyped DEF DeleteReads, DeleteRemoves, DeleteMarks, PoolTyped
  <1>7. ReqsTyped'
    BY SameReq DEF DeleteReads, DeleteRemoves, DeleteMarks
  <1> QED
    BY <1>3, <1>4, <1>6, <1>7, KeptTyped
    DEF DeleteReads, DeleteRemoves, DeleteMarks, PoolTyped, QueueKept

LEMMA GuestTyped ==
  ASSUME PoolTyped, RemoveGuest \/ ResetGuest
  PROVE  PoolTyped'
  <1>1. JobTyped
    BY JobIs DEF RemoveGuest, ResetGuest, At
  <1>2. GuestGone("rows") \/ GuestGone("transfer")
    BY DEF RemoveGuest, ResetGuest
  <1>3. job' \in PoolTasks \cup {NoJob}
    BY <1>1, <1>2, JobSteps DEF GuestGone, JobEnds, Stages, JobTyped
  <1>4. rules' \in [PortRange -> SUBSET Insts]
    BY <1>2 DEF GuestGone, PoolTyped
  <1>5. guest' \in [Insts -> {"none", "busy", "ready", "error", "gone"}]
    BY <1>2 DEF GuestGone, PoolTyped
  <1>6. PortTyped' /\ ReqsTyped'
    BY SamePort, SameReq DEF RemoveGuest, ResetGuest
  <1> QED
    BY <1>3, <1>4, <1>5, <1>6 DEF RemoveGuest, ResetGuest, PoolTyped, QueueKept

LEMMA RemoveRowsTyped == ASSUME PoolTyped, RemoveRows PROVE PoolTyped'
  <1>1. port' \in Table /\ Kept(port')
    BY TableOps, DroppedKept DEF RemoveRows
  <1>2. {port[r].lo : r \in RowsOf(job.inst)} \in SUBSET PortRange
    BY DEF RowsOf, PoolTyped, PortTyped, Table
  <1>3. cursor' \in PortRange
    BY <1>2, BackInRange DEF RemoveRows, PoolTyped
  <1>4. ReqsTyped' /\ PortTyped'
    BY <1>1, SameReq, KeptTyped DEF RemoveRows
  <1> QED
    BY <1>3, <1>4 DEF RemoveRows, PoolTyped, QueueKept, JobEnds

LEMMA ResetReadsTyped == ASSUME PoolTyped, ResetReads PROVE PoolTyped'
  <1>1. JobTyped
    BY JobIs DEF ResetReads, At
  <1>2. {r \in RowsOf(job.inst) : port[r].status = "active"} \in SUBSET Rows
    BY DEF RowsOf
  <1>3. job' \in PoolTasks
    BY <1>1, <1>2 DEF ResetReads, JobTyped, PoolTasks, Stages
  <1>4. PortTyped' /\ ReqsTyped'
    BY SamePort, SameReq DEF ResetReads
  <1> QED
    BY <1>3, <1>4 DEF ResetReads, PoolTyped, QueueKept

LEMMA TransferTyped == ASSUME PoolTyped, Transfer PROVE PoolTyped' /\ Kept(port')
  <1>1. JobTyped
    BY JobIs DEF Transfer, At
  <1>2. PICK i \in Insts :
          IF Transferable
          THEN /\ port' = Transferred(i)
               /\ guest' = [guest EXCEPT ![job.inst] = "gone", ![i] = "busy"]
               /\ job' = [job EXCEPT !.at = "restore", !.into = i]
          ELSE /\ guest' = [guest EXCEPT ![job.inst] = "error"]
               /\ JobEnds /\ port' = port
    BY DEF Transfer
  <1>3. Transferred(i) \in Table /\ Kept(Transferred(i))
    <2> DEFINE own(r)  == [port[r] EXCEPT !.inst = i]
               hers(r) == [own(r) EXCEPT !.status = IF port[r].status = "active" THEN "restoring" ELSE port[r].status]
    <2>1. port \in Table
      BY DEF PoolTyped, PortTyped
    <2>2. \A r \in Rows : /\ own(r) \in [inst : Insts \cup {None}, lo : PortRange, n : 0..(Last - First + 1), status : Statuses]
                          /\ own(r).lo = port[r].lo /\ own(r).n = port[r].n /\ own(r).inst = i
                          /\ own(r).status = port[r].status
      BY <2>1 DEF Table
    <2>3. Transferred(i) = [r \in Rows |-> IF r \notin RowsOf(job.inst) THEN port[r] ELSE hers(r)]
      BY <2>2 DEF Transferred
    <2> HIDE DEF own
    <2>4. \A r \in Rows : /\ hers(r) \in [inst : Insts \cup {None}, lo : PortRange, n : 0..(Last - First + 1), status : Statuses]
                          /\ hers(r).lo = port[r].lo /\ hers(r).n = port[r].n /\ hers(r).inst = i
      BY <2>1, <2>2 DEF Statuses, Table
    <2> HIDE DEF hers
    <2>5. Transferred(i) \in Table
      BY <2>1, <2>3, <2>4 DEF Table
    <2>6. \A r \in RowsOf(job.inst) : Exists(r)
      BY DEF RowsOf
    <2>7. Kept(Transferred(i))
      BY <2>3, <2>4, <2>6 DEF Kept, Exists
    <2> QED
      BY <2>5, <2>7
  <1>4. port' \in Table /\ Kept(port')
    BY <1>2, <1>3, SameKept DEF PoolTyped, PortTyped
  <1>5. job' \in PoolTasks \cup {NoJob}
    BY <1>1, <1>2 DEF JobTyped, PoolTasks, Stages, JobEnds
  <1>6. guest' \in [Insts -> {"none", "busy", "ready", "error", "gone"}]
    BY <1>2 DEF PoolTyped
  <1>7. ReqsTyped' /\ PortTyped'
    BY <1>4, SameReq, KeptTyped DEF Transfer
  <1> QED
    BY <1>4, <1>5, <1>6, <1>7 DEF Transfer, PoolTyped, QueueKept

LEMMA RestoreTyped == ASSUME PoolTyped, Restore PROVE PoolTyped' /\ Kept(port')
  <1>1. JobTyped /\ job.into \in Insts
    BY JobIs DEF Restore, At, JobTyped, PoolTasks
  <1>2. CASE \E ok \in SUBSET Restoring :
            /\ rules' = WithRules(UNION {HostPorts(r) : r \in ok}, job.into)
            /\ port' = [r \in Rows |-> IF r \in ok THEN [port[r] EXCEPT !.status = "active"]
                                       ELSE IF r \in Restoring THEN [port[r] EXCEPT !.status = "failed"]
                                       ELSE port[r]]
            /\ guest' = [guest EXCEPT ![job.into] = "ready"]
    <2>1. PICK ok \in SUBSET Restoring :
            /\ rules' = WithRules(UNION {HostPorts(r) : r \in ok}, job.into)
            /\ port' = [r \in Rows |-> IF r \in ok THEN [port[r] EXCEPT !.status = "active"]
                                       ELSE IF r \in Restoring THEN [port[r] EXCEPT !.status = "failed"]
                                       ELSE port[r]]
            /\ guest' = [guest EXCEPT ![job.into] = "ready"]
      BY <1>2
    <2>2. port' \in Table /\ Kept(port')
      BY <2>1 DEF Restoring, Table, Kept, Exists, Statuses, PoolTyped, PortTyped
    <2>3. rules' \in [PortRange -> SUBSET Insts]
      BY <1>1, <2>1, RulesTyped
    <2>4. ReqsTyped' /\ PortTyped'
      BY <2>2, SameReq, KeptTyped DEF Restore
    <2> QED
      BY <2>1, <2>2, <2>3, <2>4 DEF Restore, JobEnds, PoolTyped, QueueKept
  <1>3. CASE /\ rules' = rules
             /\ port' = Marked(Restoring, "error")
             /\ guest' = [guest EXCEPT ![job.into] = "error"]
    <2>1. port' \in Table /\ Kept(port')
      BY <1>3, TableOps, MarkedKept DEF Statuses
    <2>2. ReqsTyped' /\ PortTyped'
      BY <2>1, SameReq, KeptTyped DEF Restore
    <2> QED
      BY <1>3, <2>1, <2>2 DEF Restore, JobEnds, PoolTyped, QueueKept
  <1> QED
    BY <1>2, <1>3 DEF Restore

\* What a creation writes: a segment free in the same transaction.
LEMMA BuildRow ==
  ASSUME PoolTyped, BuildReserves, \E lo \in PortRange : Free(lo, 1)
  PROVE  /\ \E r \in Fresh : NewRow(r, job.inst, FirstFree(1), 1)
         /\ cursor' = After(FirstFree(1), 1) /\ guest' = guest /\ Step("guest")
  BY DEF BuildReserves, NewRow

LEMMA BuildTyped == ASSUME PoolTyped, BuildReserves PROVE PoolTyped'
  <1>1. JobTyped /\ job.inst \in Insts
    BY JobIs DEF BuildReserves, At, JobTyped, PoolTasks
  <1>2. CASE \E lo \in PortRange : Free(lo, 1)
    <2>1. FirstFree(1) \in PortRange /\ 1 \in Sizes
      BY <1>2, FirstFreeFits, PortPoolAssumption
    <2>2. cursor' \in PortRange
      BY <1>2, <2>1, BuildRow, AfterInRange
    <2>3. PICK r \in Fresh : NewRow(r, job.inst, FirstFree(1), 1)
      BY <1>2, BuildRow
    <2>4. PortTyped'
      BY <1>1, <2>1, <2>3, NewRowTyped DEF Fresh
    <2>5. job' \in PoolTasks
      BY <1>1, <1>2, BuildRow, JobSteps DEF JobTyped, Stages
    <2>6. ReqsTyped'
      BY SameReq DEF BuildReserves
    <2> QED
      BY <1>2, <2>2, <2>4, <2>5, <2>6, BuildRow DEF BuildReserves, PoolTyped, QueueKept
  <1>3. CASE ~\E lo \in PortRange : Free(lo, 1)
    <2>1. PortTyped' /\ ReqsTyped'
      BY <1>3, SamePort, SameReq DEF BuildReserves
    <2> QED
      BY <1>1, <1>3, <2>1 DEF BuildReserves, JobEnds, PoolTyped, QueueKept
  <1> QED
    BY <1>2, <1>3

LEMMA BuildEndsTyped == ASSUME PoolTyped, BuildEnds PROVE PoolTyped'
  <1>1. JobTyped /\ job.inst \in Insts
    BY JobIs DEF BuildEnds, At, JobTyped, PoolTasks
  <1>2. port' = Marked(RowsOf(job.inst), "active") \/ port' = Marked(RowsOf(job.inst), "deleting")
    BY DEF BuildEnds
  <1>3. port' \in Table /\ Kept(port')
    BY <1>2, TableOps, MarkedKept DEF Statuses
  <1>4. rules' \in [PortRange -> SUBSET Insts]
    BY <1>1, RulesTyped DEF BuildEnds, PoolTyped
  <1>5. ReqsTyped' /\ PortTyped'
    BY <1>3, SameReq, KeptTyped DEF BuildEnds
  <1> QED
    BY <1>1, <1>4, <1>5 DEF BuildEnds, JobEnds, PoolTyped, QueueKept

LEMMA StutterTyped == ASSUME PoolTyped, UNCHANGED poolVars PROVE PoolTyped'
  BY SamePort, SameReq DEF poolVars, PoolTyped, QueueKept

LEMMA PoolTypedNext == ASSUME PoolTyped, [PortPoolNext]_poolVars PROVE PoolTyped'
  <1>1. ASSUME NEW q \in Reqs,
               \/ \E i \in Insts, n \in Sizes : Ask(q, i, n)
               \/ Allocate(q) \/ Choose(q) \/ NoPort(q) \/ Insert(q) \/ Submit(q)
               \/ \E r \in Rows : AskDelete(q, r)
               \/ SubmitDelete(q)
        PROVE  PoolTyped'
    BY <1>1, AskTyped, AllocateTyped, ChooseTyped, NoPortTyped, InsertTyped, SubmitTyped, AskDeleteTyped
  <1>2. ASSUME NEW i \in Insts, NEW op \in {"build", "reset", "remove"}, Occupy(i, op)
        PROVE  PoolTyped'
    BY <1>2, OccupyTyped
  <1>3. CASE Begin \/ CreateReads \/ CreateApplies \/ CreateMarks \/ DeleteReads \/ DeleteRemoves
             \/ DeleteMarks
    BY <1>3, BeginTyped, CreateTyped, DeleteTyped
  <1>4. CASE RemoveGuest \/ RemoveRows \/ ResetReads \/ ResetGuest \/ Transfer \/ Restore
             \/ BuildReserves \/ BuildEnds
    BY <1>4, GuestTyped, RemoveRowsTyped, ResetReadsTyped, TransferTyped, RestoreTyped, BuildTyped,
       BuildEndsTyped
  <1>5. CASE UNCHANGED poolVars
    BY <1>5, StutterTyped
  <1> QED
    BY <1>1, <1>2, <1>3, <1>4, <1>5 DEF PortPoolNext

LEMMA PoolTypedAlways == PortPoolSpec => []PoolTyped
  <1>1. PoolTyped /\ [PortPoolNext]_poolVars => PoolTyped'
    BY PoolTypedNext
  <1> QED
    BY <1>1, PoolTypedInit, PTL DEF PortPoolSpec

LEMMA PoolTypedType == PoolTyped => PortPoolTypeOK
  BY DEF PoolTyped, PortTyped, Table, Statuses, ReqsTyped, Requests, QueueKept, PoolTasks, NoJob,
         PortPoolTypeOK

\* Every reachable state is well typed: segments lie in tables, requests and tasks carry rows
\* and instances that fit what they do (port.go, port_mapping_tasks.go).
THEOREM TypeCorrect == PortPoolSpec => []PortPoolTypeOK
  BY PoolTypedAlways, PoolTypedType, PTL

-----------------------------------------------------------------------------
(* Segments.                                                                *)

\* Rows that keep their segments, and at most lose their existence, stay apart.
LEMMA KeptApart == ASSUME SegmentsDisjoint, Kept(port') PROVE SegmentsDisjoint'
  <1> SUFFICES ASSUME NEW r \in Rows, NEW s \in Rows, r # s, Exists(r)', Exists(s)'
               PROVE  HostPorts(r)' \cap HostPorts(s)' = {}
    BY DEF SegmentsDisjoint
  <1>1. Exists(r) /\ Exists(s) /\ HostPorts(r)' = HostPorts(r) /\ HostPorts(s)' = HostPorts(s)
    BY DEF Kept, Exists, HostPorts
  <1> QED
    BY <1>1 DEF SegmentsDisjoint

\* A new row whose segment was free keeps the table apart.
LEMMA NewApart ==
  ASSUME PoolTyped, SegmentsDisjoint, NEW r \in Rows, NEW i, NEW lo, NEW n,
         NewRow(r, i, lo, n), Free(lo, n)
  PROVE  SegmentsDisjoint'
  <1> SUFFICES ASSUME NEW s \in Rows, NEW t \in Rows, s # t, Exists(s)', Exists(t)'
               PROVE  HostPorts(s)' \cap HostPorts(t)' = {}
    BY DEF SegmentsDisjoint
  <1>1. HostPorts(r)' = lo .. (lo + n - 1)
    BY DEF NewRow, HostPorts, PoolTyped, PortTyped, Table
  <1>2. \A u \in Rows \ {r} : port'[u] = port[u]
    BY DEF NewRow, PoolTyped, PortTyped, Table
  <1>3. \A u \in Rows \ {r} : Exists(u)' => Exists(u) /\ HostPorts(u)' = HostPorts(u)
    BY <1>2 DEF Exists, HostPorts
  <1>4. \A u \in Rows : Exists(u) => HostPorts(u) \subseteq Occupied
    BY DEF Occupied
  <1>5. \A u \in Rows \ {r} : Exists(u)' => HostPorts(r)' \cap HostPorts(u)' = {}
    BY <1>1, <1>3, <1>4 DEF Free
  <1> QED
    BY <1>3, <1>5 DEF SegmentsDisjoint

LEMMA ApartNext == ASSUME PoolTyped, SegmentsDisjoint, [PortPoolNext]_poolVars PROVE SegmentsDisjoint'
  <1>1. ASSUME NEW q \in Reqs, Insert(q) PROVE SegmentsDisjoint'
    <2>1. CASE StillFree(q)
      <3>1. PICK r \in Fresh : NewRow(r, req[q].inst, req[q].lo, req[q].n)
        BY <1>1, <2>1, InsertRow
      <3> QED
        BY <2>1, <3>1, NewApart DEF StillFree, Fresh
    <2>2. CASE ~StillFree(q)
      <3>1. port' = port
        BY <1>1, <2>2 DEF Insert
      <3> QED
        BY <3>1, SameKept, KeptApart
    <2> QED
      BY <2>1, <2>2
  <1>2. CASE BuildReserves
    <2>1. CASE \E lo \in PortRange : Free(lo, 1)
      <3>1. PICK r \in Fresh : NewRow(r, job.inst, FirstFree(1), 1)
        BY <1>2, <2>1, BuildRow
      <3>2. Free(FirstFree(1), 1)
        BY <2>1, FirstFreeFits
      <3> QED
        BY <3>1, <3>2, NewApart DEF Fresh
    <2>2. CASE ~\E lo \in PortRange : Free(lo, 1)
      <3>1. port' = port
        BY <1>2, <2>2 DEF BuildReserves
      <3> QED
        BY <3>1, SameKept, KeptApart
    <2> QED
      BY <2>1, <2>2
  <1>3. CASE Transfer \/ Restore
    BY <1>3, TransferTyped, RestoreTyped, KeptApart
  <1>4. ASSUME NEW rs, NEW s \in {"active", "failed", "deleting"},
               port' = Marked(rs, s) \/ port' = Dropped(rs) \/ port' = port
        PROVE  SegmentsDisjoint'
    <2>1. s \in Statuses \ {"none", "gone"}
      BY DEF Statuses
    <2>2. Kept(port')
      BY <1>4, <2>1, MarkedKept, DroppedKept, SameKept
    <2> QED
      BY <2>2, KeptApart
  <1>5. ASSUME NEW q \in Reqs,
               \/ \E i \in Insts, n \in Sizes : Ask(q, i, n)
               \/ Allocate(q) \/ Choose(q) \/ NoPort(q) \/ Submit(q)
               \/ \E r \in Rows : AskDelete(q, r)
               \/ SubmitDelete(q)
        PROVE  SegmentsDisjoint'
    <2>1. \E rs, s : /\ s \in {"active", "failed", "deleting"}
                     /\ port' = Marked(rs, s) \/ port' = Dropped(rs) \/ port' = port
      BY <1>5 DEF Ask, Allocate, Choose, NoPort, Submit, AskDelete, SubmitDelete
    <2> QED
      BY <1>4, <2>1
  <1>6. CASE \/ \E i \in Insts, op \in {"build", "reset", "remove"} : Occupy(i, op)
             \/ Begin \/ CreateReads \/ CreateApplies \/ CreateMarks
             \/ DeleteReads \/ DeleteRemoves \/ DeleteMarks \/ RemoveGuest \/ RemoveRows
             \/ ResetReads \/ ResetGuest \/ BuildEnds \/ UNCHANGED poolVars
    <2>1. \E rs, s : /\ s \in {"active", "failed", "deleting"}
                     /\ port' = Marked(rs, s) \/ port' = Dropped(rs) \/ port' = port
      BY <1>6 DEF Occupy, Begin, CreateReads, CreateApplies, CreateMarks, DeleteReads, DeleteRemoves,
                  DeleteMarks, RemoveGuest, RemoveRows, ResetReads, ResetGuest, BuildEnds, poolVars
    <2> QED
      BY <1>4, <2>1
  <1> QED
    BY <1>1, <1>2, <1>3, <1>5, <1>6 DEF PortPoolNext

\* No host port belongs to two rows of a provider, for any range, number of requests and sizes
\* of segments: createPortMappingWithTask's second transaction looks at the rows again, and a
\* creation allocates and inserts in one.
THEOREM SegmentsDisjointAlways == PortPoolSpec => []SegmentsDisjoint
  <1>1. PortPoolInit => SegmentsDisjoint
    BY DEF PortPoolInit, SegmentsDisjoint, Exists, NoRow
  <1>2. PoolTyped /\ SegmentsDisjoint /\ [PortPoolNext]_poolVars => SegmentsDisjoint'
    BY ApartNext
  <1> QED
    BY <1>1, <1>2, PoolTypedAlways, PTL DEF PortPoolSpec

-----------------------------------------------------------------------------
(* Rules.                                                                   *)

\* Creations.  An instance that is being created was not there, and is created once.
Building(i) ==
    \/ job.op = "build" /\ job.inst = i
    \/ \E k \in 1..Len(queue) : queue[k].op = "build" /\ queue[k].inst = i
Made(i) == guest[i] # "none" /\ ~Building(i)

BuildsApart ==
    /\ \A i \in Insts : Building(i) => guest[i] = "busy"
    /\ \A k \in 1..Len(queue) : queue[k].op = "build" =>
          /\ ~(job.op = "build" /\ job.inst = queue[k].inst)
          /\ \A l \in 1..Len(queue) : queue[l].op = "build" /\ queue[l].inst = queue[k].inst => l = k

\* Whatever else a request, a task or its row names has been made.
NamedIsMade ==
    /\ \A k \in 1..Len(queue) : queue[k].at = "begin" /\ (queue[k].op # "build" => Made(queue[k].inst))
    /\ job # NoJob /\ job.op # "build" => Made(job.inst)
    /\ job.at = "restore" => Made(job.into)
    /\ \A q \in Reqs : req[q].at # "idle" => Made(req[q].inst)
    /\ \A q \in Reqs : req[q].at = "inserted" /\ Exists(req[q].row) => Made(port[req[q].row].inst)

\* A row is its request's until the task that makes its rules is submitted.
Unsubmitted(r) == \E q \in Reqs : req[q].at = "inserted" /\ req[q].row = r
Creating(r) ==
    \/ job.op = "create" /\ job.row = r
    \/ \E k \in 1..Len(queue) : queue[k].op = "create" /\ queue[k].row = r

RowsInHand ==
    /\ \A q \in Reqs : req[q].at = "inserted" =>
          /\ ~Creating(req[q].row)
          /\ \A p \in Reqs : req[p].at = "inserted" /\ req[p].row = req[q].row => p = q
    /\ \A r \in Rows : Unsubmitted(r) \/ Creating(r) => r \notin Fresh

HasRow(h, i) == \E r \in Rows : Exists(r) /\ port[r].inst = i /\ h \in HostPorts(r)
RulesBacked == \A h \in PortRange : \A i \in rules[h] : HasRow(h, i)

\* No rule is made for a row before its submission, while none was refused.
Bare(r) == \A h \in HostPorts(r) \cap PortRange : port[r].inst \notin rules[h]
UnsubmittedBare ==
    refused = 0 => \A r \in Rows : Unsubmitted(r) /\ Exists(r) => port[r].status \in {"pending", "deleting"} /\ Bare(r)

\* What the task under way has done so far.
JobSoFar ==
    /\ At("create", "apply") => Exists(job.row) /\ port[job.row].inst = job.inst
    /\ At("delete", "remove") \/ At("delete", "drop") =>
          /\ job.row \notin Fresh
          /\ Exists(job.row) => port[job.row].inst = job.inst
    /\ At("delete", "drop") /\ Exists(job.row) => Bare(job.row)
    /\ At("remove", "rows") \/ At("reset", "transfer") => \A h \in PortRange : job.inst \notin rules[h]

RulesInv == SegmentsDisjoint /\ BuildsApart /\ NamedIsMade /\ RowsInHand /\ (refused <= 1 => RulesBacked) /\ UnsubmittedBare /\ JobSoFar

-----------------------------------------------------------------------------
(* The queue: one more task, or one less.                                     *)

LEMMA OneMore ==
  ASSUME PoolTyped, NEW t \in PoolTasks, queue' = Append(queue, t)
  PROVE  /\ \A k \in 1..Len(queue') : (k \in 1..Len(queue) /\ queue'[k] = queue[k]) \/ (k \notin 1..Len(queue) /\ queue'[k] = t)
         /\ \A k, l \in 1..Len(queue') : k \notin 1..Len(queue) /\ l \notin 1..Len(queue) => k = l
         /\ \A k \in 1..Len(queue) : k \in 1..Len(queue') /\ queue'[k] = queue[k]
         /\ \E k \in 1..Len(queue') : queue'[k] = t
  <1>1. queue \in Seq(PoolTasks)
    BY DEF PoolTyped, QueueKept
  <1> QED
    BY <1>1

LEMMA OneLess ==
  ASSUME PoolTyped, Begin
  PROVE  /\ 1 \in 1..Len(queue) /\ job' = queue[1]
         /\ \A k \in 1..Len(queue') : k + 1 \in 1..Len(queue) /\ k + 1 # 1 /\ queue'[k] = queue[k + 1]
         /\ \A k \in 1..Len(queue) : k = 1 \/ \E l \in 1..Len(queue') : k = l + 1
  <1>1. queue \in Seq(PoolTasks) /\ queue # <<>>
    BY DEF Begin, PoolTyped, QueueKept
  <1>2. Len(queue) \in Nat /\ Len(queue) > 0
    BY <1>1
  <1>3. job' = queue[1] /\ Len(queue') = Len(queue) - 1 /\ \A k \in 1..(Len(queue) - 1) : queue'[k] = queue[k + 1]
    BY <1>1, <1>2 DEF Begin
  <1>4. \A k \in 1..Len(queue) : k = 1 \/ (k - 1 \in 1..Len(queue') /\ k = (k - 1) + 1)
    BY <1>2, <1>3
  <1> QED
    BY <1>2, <1>3, <1>4

\* What the queue and the task under way are after a step.
JobGoesOn == queue' = queue /\ (job' = NoJob \/ (job # NoJob /\ job'.op = job.op /\ job'.inst = job.inst /\ job'.row = job.row))
Queues(t) == queue' = Append(queue, t) /\ job' = job

\* The steps of a task after its beginning.
TaskStep ==
    \/ CreateReads \/ CreateApplies \/ CreateMarks \/ DeleteReads \/ DeleteRemoves \/ DeleteMarks
    \/ RemoveGuest \/ RemoveRows \/ ResetReads \/ ResetGuest \/ Transfer \/ Restore
    \/ BuildReserves \/ BuildEnds

LEMMA TaskGoesOn == ASSUME PoolTyped, TaskStep PROVE JobTyped /\ job # NoJob /\ JobGoesOn /\ req' = req /\ refused' = refused
  <1>1. JobTyped
    BY JobIs DEF TaskStep, CreateReads, CreateApplies, CreateMarks, DeleteReads, DeleteRemoves, DeleteMarks, RemoveGuest, RemoveRows,
                 ResetReads, ResetGuest, Transfer, Restore, BuildReserves, BuildEnds, At
  <1>2. job # NoJob
    BY <1>1 DEF JobTyped, PoolTasks, NoJob
  <1>3. queue' = queue /\ req' = req /\ refused' = refused
    BY DEF TaskStep, CreateReads, CreateApplies, CreateMarks, DeleteReads, DeleteRemoves, DeleteMarks, RemoveGuest, RemoveRows,
           ResetReads, ResetGuest, Transfer, Restore, BuildReserves, BuildEnds
  <1>4. ASSUME NEW s, Step(s) PROVE job'.op = job.op /\ job'.inst = job.inst /\ job'.row = job.row
    BY <1>1, <1>4 DEF Step, JobTyped, PoolTasks
  <1>5. CASE CreateReads \/ CreateApplies \/ CreateMarks \/ DeleteReads \/ DeleteRemoves \/ DeleteMarks
             \/ RemoveGuest \/ RemoveRows \/ ResetGuest \/ Restore \/ BuildReserves \/ BuildEnds
    <2>1. JobEnds \/ \E s : Step(s)
      BY <1>5 DEF CreateReads, CreateApplies, CreateMarks, DeleteReads, DeleteRemoves, DeleteMarks, RemoveGuest, RemoveRows,
           ResetGuest, Restore, BuildReserves, BuildEnds, GuestGone
    <2> QED
      BY <1>1, <1>2, <1>3, <1>4, <2>1 DEF JobGoesOn, JobEnds
  <1>6. CASE ResetReads
    BY <1>1, <1>2, <1>3, <1>6 DEF ResetReads, JobGoesOn, JobTyped, PoolTasks
  <1>7. CASE Transfer
    BY <1>1, <1>2, <1>3, <1>7 DEF Transfer, JobGoesOn, JobTyped, PoolTasks, JobEnds
  <1> QED
    BY <1>1, <1>2, <1>3, <1>5, <1>6, <1>7 DEF TaskStep

LEMMA TasksStep ==
  ASSUME PoolTyped, [PortPoolNext]_poolVars
  PROVE  \/ TaskStep /\ JobGoesOn
         \/ UNCHANGED <<queue, job, guest>>
         \/ Begin /\ guest' = guest
         \/ \E q \in Reqs : Submit(q) /\ Queues(Task("create", req[q].row, req[q].inst)) /\ guest' = guest
         \/ \E q \in Reqs : SubmitDelete(q) /\ Queues(Task("delete", req[q].row, req[q].inst)) /\ guest' = guest
         \/ \E i \in Insts, op \in {"build", "reset", "remove"} : Occupy(i, op) /\ Queues(Task(op, None, i))
  <1>2. ASSUME NEW q \in Reqs,
               \/ \E i \in Insts, n \in Sizes : Ask(q, i, n)
               \/ Allocate(q) \/ Choose(q) \/ NoPort(q) \/ Insert(q)
               \/ \E r \in Rows : AskDelete(q, r)
        PROVE  UNCHANGED <<queue, job, guest>>
    BY <1>2 DEF Ask, Allocate, Choose, NoPort, Insert, AskDelete
  <1>3. ASSUME NEW q \in Reqs, Submit(q)
        PROVE  UNCHANGED <<queue, job, guest>> \/ (Queues(Task("create", req[q].row, req[q].inst)) /\ guest' = guest)
    BY <1>3 DEF Submit, Queues
  <1>4. ASSUME NEW q \in Reqs, SubmitDelete(q)
        PROVE  UNCHANGED <<queue, job, guest>> \/ (Queues(Task("delete", req[q].row, req[q].inst)) /\ guest' = guest)
    BY <1>4 DEF SubmitDelete, Queues
  <1>5. ASSUME NEW i \in Insts, NEW op \in {"build", "reset", "remove"}, Occupy(i, op) PROVE Queues(Task(op, None, i))
    BY <1>5 DEF Occupy, Queues
  <1>6. ASSUME TaskStep PROVE JobGoesOn
    BY <1>6, TaskGoesOn
  <1>7. CASE UNCHANGED poolVars
    BY <1>7 DEF poolVars
  <1>8. CASE Begin
    BY <1>8 DEF Begin
  <1> QED
    BY <1>2, <1>3, <1>4, <1>5, <1>6, <1>7, <1>8 DEF PortPoolNext, TaskStep

\* What a step of a task does to the instances.
LEMMA GuestsGoOn ==
  ASSUME PoolTyped, TaskStep
  PROVE  \A i \in Insts :
            /\ guest[i] # "none" => guest'[i] # "none"
            /\ \/ guest'[i] = guest[i]
               \/ i = job.inst /\ (job.op = "build" => job' = NoJob)
               \/ job.at = "restore" /\ i = job.into
               \/ guest[i] = "none"
  <1> DEFINE Goal == \A i \in Insts :
            /\ guest[i] # "none" => guest'[i] # "none"
            /\ \/ guest'[i] = guest[i]
               \/ i = job.inst /\ (job.op = "build" => job' = NoJob)
               \/ job.at = "restore" /\ i = job.into
               \/ guest[i] = "none"
  <1> SUFFICES Goal
    OBVIOUS
  <1>1. guest \in [Insts -> {"none", "busy", "ready", "error", "gone"}]
    BY DEF PoolTyped
  <1>2. ASSUME guest' = guest PROVE Goal
    BY <1>2
  <1>3. ASSUME NEW s \in {"ready", "error", "gone"}, guest' = [guest EXCEPT ![job.inst] = s],
               job.op = "build" => job' = NoJob PROVE Goal
    BY <1>1, <1>3
  <1>4. ASSUME NEW s \in {"ready", "error"}, job.at = "restore", guest' = [guest EXCEPT ![job.into] = s] PROVE Goal
    BY <1>1, <1>4
  <1>5. ASSUME NEW i \in Insts, guest[i] = "none", job.op # "build",
               guest' = [guest EXCEPT ![job.inst] = "gone", ![i] = "busy"] PROVE Goal
    <2>1. \A j \in Insts : guest'[j] = IF j = i THEN "busy" ELSE IF j = job.inst THEN "gone" ELSE guest[j]
      BY <1>1, <1>5
    <2>2. guest[i] = "none" /\ job.op # "build"
      BY <1>5
    <2> QED
      BY <2>1, <2>2
  <1> HIDE DEF Goal
  <1>6. CASE CreateReads \/ CreateApplies \/ CreateMarks \/ DeleteReads \/ DeleteRemoves \/ DeleteMarks \/ ResetReads
    BY <1>2, <1>6 DEF CreateReads, CreateApplies, CreateMarks, DeleteReads, DeleteRemoves, DeleteMarks, ResetReads
  <1>7. CASE RemoveGuest \/ ResetGuest
    <2>1. guest' = guest \/ (guest' = [guest EXCEPT ![job.inst] = "ready"] /\ job' = NoJob)
      BY <1>7 DEF RemoveGuest, ResetGuest, GuestGone, JobEnds
    <2> QED
      BY <1>2, <1>3, <2>1
  <1>8. CASE RemoveRows
    <2>1. guest' = [guest EXCEPT ![job.inst] = "gone"] /\ job' = NoJob
      BY <1>8 DEF RemoveRows, JobEnds
    <2> QED
      BY <1>3, <2>1
  <1>9. CASE Transfer
    <2>1. job.op # "build"
      BY <1>9 DEF Transfer, At
    <2>2. \/ \E i \in Insts : guest[i] = "none" /\ guest' = [guest EXCEPT ![job.inst] = "gone", ![i] = "busy"]
          \/ guest' = [guest EXCEPT ![job.inst] = "error"]
      BY <1>9 DEF Transfer
    <2> QED
      BY <1>3, <1>5, <2>1, <2>2
  <1>10. CASE Restore
    BY <1>4, <1>10 DEF Restore, At
  <1>11. CASE BuildReserves
    <2>1. guest' = guest \/ (guest' = [guest EXCEPT ![job.inst] = "error"] /\ job' = NoJob)
      BY <1>11 DEF BuildReserves, JobEnds
    <2> QED
      BY <1>2, <1>3, <2>1
  <1>12. CASE BuildEnds
    <2>1. job' = NoJob /\ \E s \in {"ready", "error"} : guest' = [guest EXCEPT ![job.inst] = s]
      BY <1>12 DEF BuildEnds, JobEnds
    <2> QED
      BY <1>3, <2>1
  <1> QED
    BY <1>6, <1>7, <1>8, <1>9, <1>10, <1>11, <1>12 DEF TaskStep

LEMMA TaskIs ==
  ASSUME NEW op, NEW r, NEW i
  PROVE  Task(op, r, i).op = op /\ Task(op, r, i).inst = i /\ Task(op, r, i).row = r /\ Task(op, r, i).at = "begin"
  BY DEF Task, NoJob

LEMMA SubmittedTyped ==
  ASSUME PoolTyped, NEW q \in Reqs, Submit(q) \/ SubmitDelete(q)
  PROVE  \A op \in {"create", "delete"} : Task(op, req[q].row, req[q].inst) \in PoolTasks
  <1>1. req[q].row \in Rows /\ req[q].inst \in Insts
    BY DEF Submit, SubmitDelete, PoolTyped, ReqsTyped
  <1> QED
    BY <1>1, TaskTyped

\* Which instances are being created, after a step.
LEMMA BuildingStep ==
  ASSUME PoolTyped, [PortPoolNext]_poolVars
  PROVE  \/ \A i \in Insts : Building(i)' => Building(i)
         \/ \E j \in Insts : Occupy(j, "build") /\ Queues(Task("build", None, j)) /\ \A i \in Insts : Building(i)' => Building(i) \/ i = j
  <1>1. CASE JobGoesOn \/ UNCHANGED <<queue, job>>
    <2>1. NoJob.op # "build"
      BY DEF NoJob
    <2> QED
      BY <1>1, <2>1 DEF JobGoesOn, Building
  <1>2. CASE Begin
    <2>1. \A i \in Insts : Building(i)' => Building(i)
      BY <1>2, OneLess DEF Building
    <2> QED
      BY <1>2, <2>1
  <1>3. ASSUME NEW t \in PoolTasks, Queues(t)
        PROVE  \A i \in Insts : Building(i)' => Building(i) \/ (t.op = "build" /\ t.inst = i)
    <2>1. \A k \in 1..Len(queue') : (k \in 1..Len(queue) /\ queue'[k] = queue[k]) \/ queue'[k] = t
      BY <1>3, OneMore DEF Queues
    <2>2. job' = job
      BY <1>3 DEF Queues
    <2> QED
      BY <2>1, <2>2 DEF Building
  <1>6. ASSUME NEW q \in Reqs, NEW op \in {"create", "delete"}, Submit(q) \/ SubmitDelete(q), Queues(Task(op, req[q].row, req[q].inst))
        PROVE  \A i \in Insts : Building(i)' => Building(i)
    <2>1. Task(op, req[q].row, req[q].inst) \in PoolTasks /\ Task(op, req[q].row, req[q].inst).op # "build"
      BY <1>6, TaskIs, SubmittedTyped
    <2> QED
      BY <1>3, <1>6, <2>1
  <1>7. ASSUME NEW i \in Insts, NEW op \in {"build", "reset", "remove"}, Queues(Task(op, None, i))
        PROVE  /\ Task(op, None, i) \in PoolTasks
               /\ Task(op, None, i).op = op
               /\ \A j \in Insts : Building(j)' => Building(j) \/ (op = "build" /\ j = i)
    <2>1. Task(op, None, i) \in PoolTasks
      BY TaskTyped
    <2> QED
      BY <1>3, <1>7, <2>1, TaskIs
  <1> QED
    BY <1>1, <1>2, <1>6, <1>7, TasksStep

\* An instance that has been made stays made.
LEMMA MadeStays ==
  ASSUME PoolTyped, [PortPoolNext]_poolVars PROVE \A i \in Insts : Made(i) => Made(i)'
  <1>1. \A i \in Insts : guest[i] # "none" => guest'[i] # "none"
    <2>1. CASE TaskStep
      BY <2>1, GuestsGoOn
    <2>2. ASSUME NEW j \in Insts, NEW op \in {"build", "reset", "remove"}, Occupy(j, op) PROVE \A i \in Insts : guest[i] # "none" => guest'[i] # "none"
      BY <2>2 DEF Occupy, PoolTyped
    <2>3. ASSUME NEW q \in Reqs,
               \/ \E i \in Insts, n \in Sizes : Ask(q, i, n)
               \/ Allocate(q) \/ Choose(q) \/ NoPort(q) \/ Insert(q) \/ Submit(q)
               \/ \E r \in Rows : AskDelete(q, r)
               \/ SubmitDelete(q)
        PROVE  guest' = guest
      BY <2>3 DEF Ask, Allocate, Choose, NoPort, Insert, AskDelete, Submit, SubmitDelete
    <2>4. CASE Begin \/ UNCHANGED poolVars
      BY <2>4 DEF Begin, poolVars
    <2> QED
      BY <2>1, <2>2, <2>3, <2>4 DEF PortPoolNext, TaskStep
  <1>2. \A j \in Insts : Occupy(j, "build") => guest[j] = "none"
    BY DEF Occupy
  <1> QED
    BY <1>1, <1>2, BuildingStep DEF Made

LEMMA BuildsApartNext == ASSUME PoolTyped, BuildsApart, NamedIsMade, [PortPoolNext]_poolVars PROVE BuildsApart'
  <1>1. CASE TaskStep /\ JobGoesOn
    <2>1. \A k \in 1..Len(queue) : queue[k].inst \in Insts
      <3>1. \A k \in 1..Len(queue) : queue[k] \in PoolTasks
        BY DEF PoolTyped, QueueKept
      <3> QED
        BY <3>1 DEF PoolTasks
    <2>2. job # NoJob
      BY <1>1, TaskGoesOn
    <2>3. NoJob.op # "build"
      BY DEF NoJob
    <2>4. ASSUME NEW i \in Insts, Building(i)' PROVE guest'[i] = "busy"
      <3>1. Building(i) /\ guest[i] = "busy"
        BY <1>1, <2>3, <2>4 DEF JobGoesOn, Building, BuildsApart
      <3>2. ~Made(i)
        BY <3>1 DEF Made
      <3>3. CASE i = job.inst
        <4>1. job.op = "build"
          BY <2>2, <3>2, <3>3 DEF NamedIsMade
        <4>2. job' # NoJob
          BY <1>1, <2>3, <2>4, <3>3, <4>1 DEF JobGoesOn, Building, BuildsApart
        <4> QED
          BY <1>1, <3>1, <3>2, <3>3, <4>1, <4>2, GuestsGoOn DEF NamedIsMade
      <3>4. CASE i # job.inst
        BY <1>1, <3>1, <3>2, <3>4, GuestsGoOn DEF NamedIsMade
      <3> QED
        BY <3>3, <3>4
    <2> QED
      BY <1>1, <2>3, <2>4 DEF JobGoesOn, BuildsApart
  <1>2. CASE UNCHANGED <<queue, job, guest>>
    BY <1>2 DEF BuildsApart, Building
  <1>3. CASE Begin /\ guest' = guest
    <2>1. \A i \in Insts : Building(i)' => Building(i)
      BY <1>3, OneLess DEF Building
    <2>2. \A k \in 1..Len(queue') : queue'[k].op = "build" =>
             /\ ~(job'.op = "build" /\ job'.inst = queue'[k].inst)
             /\ \A l \in 1..Len(queue') : queue'[l].op = "build" /\ queue'[l].inst = queue'[k].inst => l = k
      <3> SUFFICES ASSUME NEW k \in 1..Len(queue'), queue'[k].op = "build"
                   PROVE  /\ ~(job'.op = "build" /\ job'.inst = queue'[k].inst)
                          /\ \A l \in 1..Len(queue') : queue'[l].op = "build" /\ queue'[l].inst = queue'[k].inst => l = k
        OBVIOUS
      <3>1. k + 1 \in 1..Len(queue) /\ k + 1 # 1 /\ queue'[k] = queue[k + 1] /\ 1 \in 1..Len(queue) /\ job' = queue[1]
        BY <1>3, OneLess
      <3>2. ~(job'.op = "build" /\ job'.inst = queue'[k].inst)
        BY <3>1 DEF BuildsApart
      <3>3. ASSUME NEW l \in 1..Len(queue'), queue'[l].op = "build" /\ queue'[l].inst = queue'[k].inst PROVE l = k
        <4>1. l + 1 \in 1..Len(queue) /\ queue'[l] = queue[l + 1]
          BY <1>3, OneLess
        <4>2. l + 1 = k + 1
          BY <3>1, <3>3, <4>1 DEF BuildsApart
        <4> QED
          BY <4>2
      <3> QED
        BY <3>2, <3>3
    <2> QED
      BY <1>3, <2>1, <2>2 DEF BuildsApart
  <1>4. ASSUME NEW t \in PoolTasks, Queues(t), guest' = guest \/ \E i \in Insts : guest[i] # "busy" /\ guest' = [guest EXCEPT ![i] = "busy"],
               t.op = "build" => guest[t.inst] = "none" /\ guest'[t.inst] = "busy"
        PROVE  BuildsApart'
    <2>0. queue' = Append(queue, t) /\ job' = job
      BY <1>4 DEF Queues
    <2>1. /\ \A k \in 1..Len(queue') : (k \in 1..Len(queue) /\ queue'[k] = queue[k]) \/ (k \notin 1..Len(queue) /\ queue'[k] = t)
          /\ \A k, l \in 1..Len(queue') : k \notin 1..Len(queue) /\ l \notin 1..Len(queue) => k = l
      BY <2>0, OneMore
    <2>2. \A i \in Insts : guest[i] = "busy" => guest'[i] = "busy"
      BY <1>4 DEF PoolTyped
    <2>3. \A i \in Insts : Building(i)' => Building(i) \/ (t.op = "build" /\ i = t.inst)
      BY <2>0, <2>1 DEF Building
    <2>4. \A i \in Insts : Building(i)' => guest'[i] = "busy"
      BY <1>4, <2>2, <2>3 DEF BuildsApart
    <2>5. t.inst \in Insts
      BY DEF PoolTasks
    <2>6. t.op = "build" => ~Building(t.inst)
      BY <1>4, <2>5 DEF BuildsApart
    <2>7. \A k \in 1..Len(queue') : queue'[k].op = "build" =>
             /\ ~(job'.op = "build" /\ job'.inst = queue'[k].inst)
             /\ \A l \in 1..Len(queue') : queue'[l].op = "build" /\ queue'[l].inst = queue'[k].inst => l = k
      BY <2>0, <2>1, <2>6 DEF BuildsApart, Building
    <2> QED
      BY <2>4, <2>7 DEF BuildsApart
  <1>5. ASSUME NEW q \in Reqs, NEW op \in {"create", "delete"}, Submit(q) \/ SubmitDelete(q),
               Queues(Task(op, req[q].row, req[q].inst)), guest' = guest PROVE BuildsApart'
    BY <1>4, <1>5, TaskIs, SubmittedTyped
  <1>6. ASSUME NEW i \in Insts, NEW op \in {"build", "reset", "remove"}, Occupy(i, op), Queues(Task(op, None, i)) PROVE BuildsApart'
    <2>1. Task(op, None, i) \in PoolTasks /\ Task(op, None, i).op = op /\ Task(op, None, i).inst = i
      BY TaskTyped, TaskIs
    <2>2. guest[i] # "busy" /\ guest' = [guest EXCEPT ![i] = "busy"] /\ (op = "build" => guest[i] = "none")
      BY <1>6 DEF Occupy
    <2>3. guest'[i] = "busy"
      BY <2>2 DEF PoolTyped
    <2> HIDE DEF Task
    <2> QED
      BY <1>4, <1>6, <2>1, <2>2, <2>3
  <1> QED
    BY <1>1, <1>2, <1>3, <1>5, <1>6, TasksStep

-----------------------------------------------------------------------------
(* What becomes of rows in a step.                                           *)

\* What becomes of a row that is marked, dropped, handed over or restored.
Like(t, r) == t[r].inst = port[r].inst /\ t[r].lo = port[r].lo /\ t[r].n = port[r].n
There(s) == s \notin {"none", "gone"}

LEMMA MarkedIs ==
  ASSUME PoolTyped, NEW rs, NEW s \in Statuses \ {"none", "gone"}
  PROVE  \A r \in Rows : /\ Like(Marked(rs, s), r)
                         /\ Marked(rs, s)[r].status = IF r \in rs /\ Exists(r) THEN s ELSE port[r].status
  BY DEF PoolTyped, PortTyped, Table, Like, Marked

LEMMA DroppedIs ==
  ASSUME NEW rs
  PROVE  \A r \in Rows : IF r \in rs THEN Dropped(rs)[r].status = "gone" ELSE Dropped(rs)[r] = port[r]
  BY DEF Dropped, Gone, NoRow

LEMMA TransferredIs ==
  ASSUME PoolTyped, NEW i \in Insts
  PROVE  \A r \in Rows :
            IF r \in RowsOf(job.inst)
            THEN /\ Transferred(i)[r].inst = i /\ Transferred(i)[r].lo = port[r].lo /\ Transferred(i)[r].n = port[r].n
                 /\ Transferred(i)[r].status = IF port[r].status = "active" THEN "restoring" ELSE port[r].status
            ELSE Transferred(i)[r] = port[r]
  <1> DEFINE own(r)  == [port[r] EXCEPT !.inst = i]
             hers(r) == [own(r) EXCEPT !.status = IF port[r].status = "active" THEN "restoring" ELSE port[r].status]
  <1>1. port \in Table
    BY DEF PoolTyped, PortTyped
  <1>2. \A r \in Rows : /\ own(r) \in [inst : Insts \cup {None}, lo : PortRange, n : 0..(Last - First + 1), status : Statuses]
                        /\ own(r).lo = port[r].lo /\ own(r).n = port[r].n /\ own(r).inst = i
                        /\ own(r).status = port[r].status
    BY <1>1 DEF Table
  <1>3. Transferred(i) = [r \in Rows |-> IF r \notin RowsOf(job.inst) THEN port[r] ELSE hers(r)]
    BY <1>2 DEF Transferred
  <1> HIDE DEF own
  <1>4. \A r \in Rows : /\ hers(r).lo = port[r].lo /\ hers(r).n = port[r].n /\ hers(r).inst = i
                        /\ hers(r).status = IF port[r].status = "active" THEN "restoring" ELSE port[r].status
    BY <1>1, <1>2 DEF Statuses, Table
  <1> HIDE DEF hers
  <1> QED
    BY <1>3, <1>4

Restored(ok) == [r \in Rows |-> IF r \in ok THEN [port[r] EXCEPT !.status = "active"]
                                ELSE IF r \in Restoring THEN [port[r] EXCEPT !.status = "failed"]
                                ELSE port[r]]

LEMMA RestoredIs ==
  ASSUME PoolTyped, NEW ok \in SUBSET Restoring
  PROVE  \A r \in Rows : /\ Like(Restored(ok), r)
                         /\ Restored(ok)[r].status = IF r \in ok THEN "active" ELSE IF r \in Restoring THEN "failed" ELSE port[r].status
  BY DEF PoolTyped, PortTyped, Table, Restored, Like

\* A row that is there before and after a step, with its instance and segment.
Stays(r) == Exists(r) /\ Like(port', r)

LEMMA StaysPorts == ASSUME NEW r, Stays(r) PROVE HostPorts(r)' = HostPorts(r)
  BY DEF Stays, Like, HostPorts

\* A step brings at most one row into existence, or hands the rows of an instance over.
NoNewRow == \A r \in Rows : Exists(r)' => Stays(r)
NewRowAt(r, i, lo, n) == /\ port'[r] = [inst |-> i, lo |-> lo, n |-> n, status |-> "pending"]
                         /\ \A s \in Rows \ {r} : port'[s] = port[s]

LEMMA NewRowIs ==
  ASSUME PoolTyped, NEW r \in Rows, NEW i, NEW lo, NEW n, NewRow(r, i, lo, n) PROVE NewRowAt(r, i, lo, n)
  BY DEF NewRow, NewRowAt, PoolTyped, PortTyped, Table

LEMMA MarkedOrDropped ==
  ASSUME PoolTyped, NEW rs, NEW s \in Statuses \ {"none", "gone"},
         port' = Marked(rs, s) \/ port' = Dropped(rs) \/ port' = port
  PROVE  NoNewRow /\ \A r \in Rows : port'[r].status = "none" => port[r].status = "none"
  <1>1. CASE port' = Marked(rs, s)
    BY <1>1, MarkedIs DEF NoNewRow, Stays, Exists
  <1>2. CASE port' = Dropped(rs)
    BY <1>2, DroppedIs DEF NoNewRow, Stays, Exists, Like
  <1>3. CASE port' = port
    BY <1>3 DEF NoNewRow, Stays, Exists, Like
  <1> QED
    BY <1>1, <1>2, <1>3

LEMMA RowsStep ==
  ASSUME PoolTyped, [PortPoolNext]_poolVars
  PROVE  /\ \A r \in Rows : port'[r].status = "none" => port[r].status = "none"
         /\ \/ NoNewRow
            \/ \E q \in Reqs, r \in Fresh :
                  /\ Insert(q) /\ StillFree(q) /\ NewRowAt(r, req[q].inst, req[q].lo, req[q].n)
                  /\ req' = [req EXCEPT ![q].at = "inserted", ![q].row = r]
            \/ \E r \in Fresh :
                  /\ BuildReserves /\ Free(FirstFree(1), 1) /\ NewRowAt(r, job.inst, FirstFree(1), 1)
                  /\ Step("guest") /\ guest' = guest
            \/ \E i \in Insts :
                  /\ Transfer /\ Transferable /\ guest[i] = "none" /\ port' = Transferred(i)
                  /\ guest' = [guest EXCEPT ![job.inst] = "gone", ![i] = "busy"]
                  /\ job' = [job EXCEPT !.at = "restore", !.into = i]
  <1> DEFINE NoneStays == \A r \in Rows : port'[r].status = "none" => port[r].status = "none"
  <1>1. ASSUME NEW q \in Reqs, Insert(q)
        PROVE  NoneStays /\ (NoNewRow \/ \E r \in Fresh : /\ StillFree(q) /\ NewRowAt(r, req[q].inst, req[q].lo, req[q].n)
                                                          /\ req' = [req EXCEPT ![q].at = "inserted", ![q].row = r])
    <2>1. CASE StillFree(q)
      <3>1. PICK r \in Fresh : /\ NewRow(r, req[q].inst, req[q].lo, req[q].n)
                               /\ req' = [req EXCEPT ![q].at = "inserted", ![q].row = r]
        BY <1>1, <2>1, InsertRow
      <3>2. NewRowAt(r, req[q].inst, req[q].lo, req[q].n)
        BY <3>1, NewRowIs DEF Fresh
      <3>3. NoneStays
        BY <3>2 DEF NewRowAt
      <3> QED
        BY <2>1, <3>1, <3>2, <3>3
    <2>2. CASE ~StillFree(q)
      <3>1. port' = port
        BY <1>1, <2>2 DEF Insert
      <3> QED
        BY <3>1 DEF NoNewRow, Stays, Exists, Like
    <2> QED
      BY <2>1, <2>2
  <1>2. CASE BuildReserves
    <2>1. CASE \E lo \in PortRange : Free(lo, 1)
      <3>1. PICK r \in Fresh : NewRow(r, job.inst, FirstFree(1), 1)
        BY <1>2, <2>1, BuildRow
      <3>2. NewRowAt(r, job.inst, FirstFree(1), 1) /\ Free(FirstFree(1), 1)
        BY <2>1, <3>1, NewRowIs, FirstFreeFits DEF Fresh
      <3>3. NoneStays
        BY <3>2 DEF NewRowAt
      <3>4. Step("guest") /\ guest' = guest
        BY <1>2, <2>1, BuildRow
      <3> QED
        BY <1>2, <3>2, <3>3, <3>4
    <2>2. CASE ~\E lo \in PortRange : Free(lo, 1)
      <3>1. port' = port
        BY <1>2, <2>2 DEF BuildReserves
      <3> QED
        BY <3>1 DEF NoNewRow, Stays, Exists, Like
    <2> QED
      BY <2>1, <2>2
  <1>3. CASE Transfer
    <2>1. PICK i \in Insts : /\ guest[i] = "none"
         /\ IF Transferable
            THEN /\ port' = Transferred(i)
                 /\ guest' = [guest EXCEPT ![job.inst] = "gone", ![i] = "busy"]
                 /\ job' = [job EXCEPT !.at = "restore", !.into = i]
            ELSE /\ guest' = [guest EXCEPT ![job.inst] = "error"]
                 /\ JobEnds /\ port' = port
      BY <1>3 DEF Transfer
    <2>2. CASE Transferable
      <3>1. NoneStays
        BY <2>1, <2>2, TransferredIs
      <3> QED
        BY <1>3, <2>1, <2>2, <3>1
    <2>3. CASE ~Transferable
      BY <2>1, <2>3 DEF NoNewRow, Stays, Exists, Like
    <2> QED
      BY <2>2, <2>3
  <1>4. CASE Restore
    <2>1. ASSUME NEW ok \in SUBSET Restoring, port' = Restored(ok) PROVE NoNewRow /\ NoneStays
      <3>1. \A r \in Rows : Like(port', r) /\ (port'[r].status = port[r].status \/ (r \in Restoring /\ port'[r].status \in {"active", "failed"}))
        BY <2>1, RestoredIs
      <3> QED
        BY <3>1 DEF NoNewRow, Stays, Exists, Restoring
    <2>2. ASSUME port' = Marked(Restoring, "error") PROVE NoNewRow /\ NoneStays
      BY <2>2, MarkedOrDropped DEF Statuses
    <2>3. (\E ok \in SUBSET Restoring : port' = Restored(ok)) \/ port' = Marked(Restoring, "error")
      BY <1>4, Zenon DEF Restore, Restored
    <2>4. NoNewRow /\ NoneStays
      BY <2>1, <2>2, <2>3
    <2> QED
      BY <2>4
  <1>5. ASSUME NEW rs, NEW s \in {"active", "failed", "deleting"},
               port' = Marked(rs, s) \/ port' = Dropped(rs) \/ port' = port
        PROVE  NoNewRow /\ NoneStays
    BY <1>5, MarkedOrDropped DEF Statuses
  <1>6. ASSUME NEW q \in Reqs,
               \/ \E i \in Insts, n \in Sizes : Ask(q, i, n)
               \/ Allocate(q) \/ Choose(q) \/ NoPort(q) \/ Submit(q)
               \/ \E r \in Rows : AskDelete(q, r)
               \/ SubmitDelete(q)
        PROVE  NoNewRow /\ NoneStays
    <2>1. \E rs, s : /\ s \in {"active", "failed", "deleting"}
                     /\ port' = Marked(rs, s) \/ port' = Dropped(rs) \/ port' = port
      BY <1>6 DEF Ask, Allocate, Choose, NoPort, Submit, AskDelete, SubmitDelete
    <2> QED
      BY <1>5, <2>1
  <1>7. CASE \/ \E i \in Insts, op \in {"build", "reset", "remove"} : Occupy(i, op)
             \/ Begin \/ CreateReads \/ CreateApplies \/ CreateMarks
             \/ DeleteReads \/ DeleteRemoves \/ DeleteMarks \/ RemoveGuest \/ RemoveRows
             \/ ResetReads \/ ResetGuest \/ BuildEnds \/ UNCHANGED poolVars
    <2>1. \E rs, s : /\ s \in {"active", "failed", "deleting"}
                     /\ port' = Marked(rs, s) \/ port' = Dropped(rs) \/ port' = port
      BY <1>7 DEF Occupy, Begin, CreateReads, CreateApplies, CreateMarks, DeleteReads, DeleteRemoves,
                  DeleteMarks, RemoveGuest, RemoveRows, ResetReads, ResetGuest, BuildEnds, poolVars
    <2> QED
      BY <1>5, <2>1
  <1>8. CASE \E q \in Reqs : Insert(q)
    <2>1. PICK q \in Reqs : Insert(q)
      BY <1>8
    <2>2. NoneStays
      BY <1>1, <2>1
    <2>3. NoNewRow \/ \E r \in Fresh : /\ Insert(q) /\ StillFree(q) /\ NewRowAt(r, req[q].inst, req[q].lo, req[q].n)
                                       /\ req' = [req EXCEPT ![q].at = "inserted", ![q].row = r]
      BY <1>1, <2>1
    <2> QED
      BY <2>2, <2>3
  <1>9. CASE NoNewRow /\ NoneStays
    BY <1>9
  <1> QED
    BY <1>2, <1>3, <1>4, <1>6, <1>7, <1>8, <1>9 DEF PortPoolNext

-----------------------------------------------------------------------------
(* Requests, and what they and the tasks name.                               *)

\* A request that takes its next stage keeps its instance.
LEMMA RequestMoves ==
  ASSUME PoolTyped, NEW q \in Reqs, NEW at \in {"allocated", "inserted"}, NEW x
  PROVE  /\ req' = [req EXCEPT ![q].at = at, ![q].lo = x]
              => req'[q].at = at /\ req'[q].inst = req[q].inst /\ \A p \in Reqs \ {q} : req'[p] = req[p]
         /\ req' = [req EXCEPT ![q].at = at, ![q].row = x]
              => req'[q].at = at /\ req'[q].inst = req[q].inst /\ req'[q].row = x /\ \A p \in Reqs \ {q} : req'[p] = req[p]
  <1> DEFINE mid == [req EXCEPT ![q].at = at]
  <1>1. mid \in [Reqs -> Requests] /\ mid[q].inst = req[q].inst
    BY DEF PoolTyped, ReqsTyped, Requests
  <1>2. mid[q].at = at /\ \A p \in Reqs \ {q} : mid[p] = req[p]
    BY DEF PoolTyped, ReqsTyped, Requests
  <1>3. /\ req' = [req EXCEPT ![q].at = at, ![q].lo = x] => req' = [mid EXCEPT ![q].lo = x]
        /\ req' = [req EXCEPT ![q].at = at, ![q].row = x] => req' = [mid EXCEPT ![q].row = x]
    OBVIOUS
  <1> HIDE DEF mid
  <1>4. ASSUME req' = [mid EXCEPT ![q].lo = x]
        PROVE  req'[q].at = at /\ req'[q].inst = req[q].inst /\ \A p \in Reqs \ {q} : req'[p] = req[p]
    BY <1>1, <1>2, <1>4 DEF Requests
  <1>5. ASSUME req' = [mid EXCEPT ![q].row = x]
        PROVE  req'[q].at = at /\ req'[q].inst = req[q].inst /\ req'[q].row = x /\ \A p \in Reqs \ {q} : req'[p] = req[p]
    BY <1>1, <1>2, <1>5 DEF Requests
  <1> QED
    BY <1>3, <1>4, <1>5

\* What a request names after a step, and whose row it holds.
RequestGoesOn(q) ==
    /\ req'[q].at # "idle" =>
          \/ req[q].at # "idle" /\ req'[q].inst = req[q].inst
          \/ req'[q].inst \in Insts /\ guest[req'[q].inst] = "ready"
    /\ req'[q].at = "inserted" =>
          \/ req[q].at = "inserted" /\ req'[q].row = req[q].row
          \/ Insert(q) /\ StillFree(q)

LEMMA RequestsStep ==
  ASSUME PoolTyped, [PortPoolNext]_poolVars PROVE \A q \in Reqs : RequestGoesOn(q)
  <1>0. req \in [Reqs -> Requests]
    BY DEF PoolTyped, ReqsTyped
  <1>1. ASSUME NEW q \in Reqs, req'[q] = req[q] PROVE RequestGoesOn(q)
    BY <1>1 DEF RequestGoesOn
  <1>2. ASSUME NEW q \in Reqs, req' = [req EXCEPT ![q] = NoReq] PROVE \A p \in Reqs : RequestGoesOn(p)
    <2>1. req'[q].at = "idle" /\ \A p \in Reqs \ {q} : req'[p] = req[p]
      BY <1>0, <1>2 DEF NoReq
    <2> QED
      BY <1>1, <2>1 DEF RequestGoesOn
  <1>3. ASSUME NEW q \in Reqs, NEW r \in [at : {"checked", "marked"}, row : Rows \cup {None}, inst : Insts, lo : PortRange, n : Sizes],
               guest[r.inst] = "ready", req' = [req EXCEPT ![q] = r] PROVE \A p \in Reqs : RequestGoesOn(p)
    <2>1. req'[q] = r /\ \A p \in Reqs \ {q} : req'[p] = req[p]
      BY <1>0, <1>3
    <2> QED
      BY <1>1, <1>3, <2>1 DEF RequestGoesOn
  <1>4. ASSUME NEW q \in Reqs, NEW i \in Insts, NEW n \in Sizes, Ask(q, i, n) PROVE \A p \in Reqs : RequestGoesOn(p)
    <2>1. [NoReq EXCEPT !.at = "checked", !.inst = i, !.n = n] \in [at : {"checked", "marked"}, row : Rows \cup {None}, inst : Insts, lo : PortRange, n : Sizes]
          /\ [NoReq EXCEPT !.at = "checked", !.inst = i, !.n = n].inst = i
      BY RangeNat DEF NoReq
    <2> QED
      BY <1>3, <1>4, <2>1 DEF Ask
  <1>5. ASSUME NEW q \in Reqs, NEW r \in Rows, AskDelete(q, r) PROVE \A p \in Reqs : RequestGoesOn(p)
    <2>1. port[r].inst \in Insts
      BY <1>5 DEF AskDelete, PoolTyped, PortTyped
    <2>2. [NoReq EXCEPT !.at = "marked", !.row = r, !.inst = port[r].inst] \in [at : {"checked", "marked"}, row : Rows \cup {None}, inst : Insts, lo : PortRange, n : Sizes]
          /\ [NoReq EXCEPT !.at = "marked", !.row = r, !.inst = port[r].inst].inst = port[r].inst
      BY <2>1, RangeNat, PortPoolAssumption DEF NoReq
    <2> QED
      BY <1>3, <1>5, <2>2 DEF AskDelete
  <1>6. ASSUME NEW q \in Reqs, Allocate(q) \/ Choose(q) PROVE \A p \in Reqs : RequestGoesOn(p)
    <2>1. req[q].at # "idle" /\ \E lo : req' = [req EXCEPT ![q].at = "allocated", ![q].lo = lo]
      BY <1>6 DEF Allocate, Choose
    <2>2. req'[q].at = "allocated" /\ req'[q].inst = req[q].inst /\ \A p \in Reqs \ {q} : req'[p] = req[p]
      BY <2>1, RequestMoves
    <2> QED
      BY <1>1, <2>1, <2>2 DEF RequestGoesOn
  <1>7. ASSUME NEW q \in Reqs, NoPort(q) \/ Submit(q) \/ SubmitDelete(q) PROVE \A p \in Reqs : RequestGoesOn(p)
    BY <1>2, <1>7 DEF NoPort, Submit, SubmitDelete
  <1>8. ASSUME NEW q \in Reqs, Insert(q) PROVE \A p \in Reqs : RequestGoesOn(p)
    <2>1. CASE StillFree(q)
      <3>1. PICK r \in Fresh : req' = [req EXCEPT ![q].at = "inserted", ![q].row = r]
        BY <1>8, <2>1, InsertRow
      <3>2. req'[q].at = "inserted" /\ req'[q].inst = req[q].inst /\ \A p \in Reqs \ {q} : req'[p] = req[p]
        BY <3>1, RequestMoves
      <3>3. req[q].at # "idle"
        BY <1>8 DEF Insert
      <3> QED
        BY <1>1, <1>8, <2>1, <3>2, <3>3 DEF RequestGoesOn
    <2>2. CASE ~StillFree(q)
      BY <1>2, <1>8, <2>2 DEF Insert
    <2> QED
      BY <2>1, <2>2
  <1>9. ASSUME req' = req PROVE \A p \in Reqs : RequestGoesOn(p)
    BY <1>1, <1>9
  <1>10. CASE \/ \E i \in Insts, op \in {"build", "reset", "remove"} : Occupy(i, op)
              \/ Begin \/ UNCHANGED poolVars
    BY <1>9, <1>10 DEF Occupy, Begin, poolVars
  <1>11. CASE TaskStep
    BY <1>9, <1>11, TaskGoesOn
  <1> QED
    BY <1>4, <1>5, <1>6, <1>7, <1>8, <1>10, <1>11 DEF PortPoolNext, TaskStep

\* The place of the task under way after a step.
LEMMA RestoreBegins ==
  ASSUME PoolTyped, TaskStep
  PROVE  job'.at # "restore" \/ (Transfer /\ \E i \in Insts : guest[i] = "none" /\ job'.into = i /\ guest'[i] = "busy")
  <1>0. JobTyped
    BY TaskGoesOn
  <1>1. ASSUME NEW s \in Stages \ {"restore"}, Step(s) PROVE job'.at # "restore"
    BY <1>0, <1>1 DEF Step, JobTyped, PoolTasks
  <1>2. NoJob.at # "restore"
    BY DEF NoJob
  <1>3. CASE CreateReads \/ CreateApplies \/ CreateMarks \/ DeleteReads \/ DeleteRemoves \/ DeleteMarks
             \/ RemoveGuest \/ RemoveRows \/ ResetGuest \/ Restore \/ BuildReserves \/ BuildEnds
    <2>1. JobEnds \/ \E s \in Stages \ {"restore"} : Step(s)
      BY <1>3, Zenon DEF CreateReads, CreateApplies, CreateMarks, DeleteReads, DeleteRemoves, DeleteMarks, RemoveGuest, RemoveRows,
           ResetGuest, Restore, BuildReserves, BuildEnds, GuestGone, RowAfter, Stages
    <2> QED
      BY <1>1, <1>2, <2>1 DEF JobEnds
  <1>4. CASE ResetReads
    BY <1>0, <1>4 DEF ResetReads, JobTyped, PoolTasks
  <1>5. CASE Transfer
    <2>1. PICK i \in Insts : /\ guest[i] = "none"
         /\ \/ /\ guest' = [guest EXCEPT ![job.inst] = "gone", ![i] = "busy"]
               /\ job' = [job EXCEPT !.at = "restore", !.into = i]
            \/ JobEnds
      BY <1>5, Zenon DEF Transfer
    <2>2. CASE JobEnds
      BY <1>2, <2>2 DEF JobEnds
    <2>3. ASSUME guest' = [guest EXCEPT ![job.inst] = "gone", ![i] = "busy"] PROVE guest'[i] = "busy"
      BY <2>3 DEF PoolTyped
    <2>4. ASSUME job' = [job EXCEPT !.at = "restore", !.into = i] PROVE job'.into = i
      BY <1>0, <2>4 DEF JobTyped, PoolTasks
    <2> QED
      BY <1>5, <2>1, <2>2, <2>3, <2>4
  <1> QED
    BY <1>3, <1>4, <1>5 DEF TaskStep

\* Made, of the state after a step.
ExistsThen(r) == port'[r].status \notin {"none", "gone"}
MadeThen(i) == guest'[i] # "none" /\ ~ (\/ job'.op = "build" /\ job'.inst = i
                                      \/ \E k \in 1..Len(queue') : queue'[k].op = "build" /\ queue'[k].inst = i)

\* An instance at rest has been made.
LEMMA RestIsMade == ASSUME BuildsApart, NEW i \in Insts, guest[i] \notin {"none", "busy"} PROVE Made(i)
  BY DEF BuildsApart, Made

\* The instance a reset makes has been made once its task goes on.
LEMMA IntoIsMade ==
  ASSUME PoolTyped, BuildsApart, TaskStep, JobGoesOn, NEW i \in Insts, guest[i] = "none", guest'[i] = "busy"
  PROVE  Made(i)'
  <1>1. ~Building(i)
    BY DEF BuildsApart
  <1>2. NoJob.op # "build"
    BY DEF NoJob
  <1> QED
    BY <1>1, <1>2 DEF JobGoesOn, Building, Made

\* The rows requests hold after a step: the same, or one just inserted.
LEMMA RowInserted ==
  ASSUME PoolTyped, NEW q \in Reqs, Insert(q), StillFree(q)
  PROVE  /\ req'[q].row \in Fresh /\ NewRowAt(req'[q].row, req[q].inst, req[q].lo, req[q].n)
         /\ req'[q].inst = req[q].inst /\ req[q].inst \in Insts /\ req'[q].at = "inserted"
         /\ \A p \in Reqs \ {q} : req'[p] = req[p]
  <1>1. PICK r \in Fresh : NewRow(r, req[q].inst, req[q].lo, req[q].n) /\ req' = [req EXCEPT ![q].at = "inserted", ![q].row = r]
    BY InsertRow
  <1>2. req'[q].row = r /\ req'[q].inst = req[q].inst /\ req'[q].at = "inserted" /\ \A p \in Reqs \ {q} : req'[p] = req[p]
    BY <1>1, RequestMoves
  <1>3. req[q].inst \in Insts
    BY DEF Insert, PoolTyped, ReqsTyped
  <1> QED
    BY <1>1, <1>2, <1>3, NewRowIs DEF Fresh

LEMMA NamedIsMadeNext ==
  ASSUME PoolTyped, PoolTyped', BuildsApart, NamedIsMade, RowsInHand, [PortPoolNext]_poolVars PROVE NamedIsMade'
  <1>1. \A i \in Insts : Made(i) => MadeThen(i)
    BY MadeStays DEF Made, Building, MadeThen
  <1>0. \A i \in Insts : Made(i)' => MadeThen(i)
    BY DEF Made, Building, MadeThen
  <1>2. \A q \in Reqs : RequestGoesOn(q)
    BY RequestsStep
  <1>3. \A k \in 1..Len(queue) : queue[k] \in PoolTasks /\ queue[k].inst \in Insts
    BY DEF PoolTyped, QueueKept, PoolTasks
  <1>4. job # NoJob => job.inst \in Insts
    BY DEF PoolTyped, PoolTasks
  <1>5. \A k \in 1..Len(queue') : queue'[k].at = "begin" /\ (queue'[k].op # "build" => MadeThen(queue'[k].inst))
    <2>1. CASE queue' = queue
      BY <1>1, <1>3, <2>1 DEF NamedIsMade
    <2>2. CASE Begin
      BY <1>1, <1>3, <2>2, OneLess DEF NamedIsMade
    <2>3. ASSUME NEW t \in PoolTasks, Queues(t), t.at = "begin", t.op # "build" => Made(t.inst)
          PROVE  \A k \in 1..Len(queue') : queue'[k].at = "begin" /\ (queue'[k].op # "build" => MadeThen(queue'[k].inst))
      <3>1. \A k \in 1..Len(queue') : (k \in 1..Len(queue) /\ queue'[k] = queue[k]) \/ queue'[k] = t
        BY <2>3, OneMore DEF Queues
      <3>2. t.inst \in Insts
        BY DEF PoolTasks
      <3> QED
        BY <1>1, <1>3, <2>3, <3>1, <3>2 DEF NamedIsMade
    <2>4. ASSUME NEW q \in Reqs, NEW op \in {"create", "delete"}, Submit(q) \/ SubmitDelete(q), Queues(Task(op, req[q].row, req[q].inst))
          PROVE  \A k \in 1..Len(queue') : queue'[k].at = "begin" /\ (queue'[k].op # "build" => MadeThen(queue'[k].inst))
      <3>1. Made(req[q].inst)
        BY <2>4 DEF NamedIsMade, Submit, SubmitDelete
      <3>2. Task(op, req[q].row, req[q].inst) \in PoolTasks
        BY <2>4, SubmittedTyped
      <3> QED
        BY <2>3, <2>4, <3>1, <3>2, TaskIs
    <2>5. ASSUME NEW i \in Insts, NEW op \in {"build", "reset", "remove"}, Occupy(i, op), Queues(Task(op, None, i))
          PROVE  \A k \in 1..Len(queue') : queue'[k].at = "begin" /\ (queue'[k].op # "build" => MadeThen(queue'[k].inst))
      <3>1. op # "build" => Made(i)
        BY <2>5, RestIsMade DEF Occupy
      <3>2. Task(op, None, i) \in PoolTasks
        BY TaskTyped
      <3> QED
        BY <2>3, <2>5, <3>1, <3>2, TaskIs
    <2> QED
      BY <2>1, <2>2, <2>4, <2>5, TasksStep DEF JobGoesOn
  <1>6. /\ job' # NoJob /\ job'.op # "build" => MadeThen(job'.inst)
        /\ job'.at = "restore" => MadeThen(job'.into)
    <2>0. NoJob.at # "restore"
      BY DEF NoJob
    <2>1. CASE TaskStep /\ JobGoesOn
      <3>1. job' # NoJob /\ job'.op # "build" => MadeThen(job'.inst)
        BY <1>1, <1>4, <2>1 DEF JobGoesOn, NamedIsMade
      <3>2. job'.at = "restore" => MadeThen(job'.into)
        BY <1>0, <2>1, RestoreBegins, IntoIsMade
      <3> QED
        BY <3>1, <3>2
    <2>2. CASE job' = job
      <3>1. job.at = "restore" => job.into \in Insts
        BY <2>0 DEF PoolTyped, PoolTasks
      <3> QED
        BY <1>1, <1>4, <2>2, <3>1 DEF NamedIsMade
    <2>3. CASE Begin
      BY <1>1, <1>3, <2>3, OneLess DEF NamedIsMade
    <2> QED
      BY <2>1, <2>2, <2>3, TasksStep DEF Queues
  <1>7. \A q \in Reqs : req'[q].at # "idle" => MadeThen(req'[q].inst)
    <2> TAKE q \in Reqs
    <2>1. req[q].at # "idle" => req[q].inst \in Insts /\ Made(req[q].inst)
      BY DEF PoolTyped, ReqsTyped, NamedIsMade
    <2> QED
      BY <1>1, <1>2, <2>1, RestIsMade DEF RequestGoesOn
  <1>8. ASSUME NEW q \in Reqs, req'[q].at = "inserted", ExistsThen(req'[q].row) PROVE MadeThen(port'[req'[q].row].inst)
    <2>1. CASE req[q].at = "inserted" /\ req'[q].row = req[q].row
      <3> DEFINE r == req[q].row
      <3>1. r \in Rows /\ r \notin Fresh
        BY <2>1 DEF PoolTyped, ReqsTyped, RowsInHand, Unsubmitted
      <3>2. Exists(r) => port[r].inst \in Insts /\ Made(port[r].inst)
        BY <2>1, <3>1 DEF PoolTyped, PortTyped, NamedIsMade
      <3>8. ExistsThen(r)
        BY <1>8, <2>1
      <3> HIDE DEF r
      <3>3. ASSUME Exists(r), port'[r].inst = port[r].inst PROVE MadeThen(port'[r].inst)
        BY <1>1, <3>2, <3>3
      <3>4. CASE NoNewRow
        <4>1. \A s \in Rows : ExistsThen(s) => Exists(s) /\ port'[s].inst = port[s].inst
          BY <3>4 DEF NoNewRow, Stays, Like, Exists, ExistsThen
        <4> QED
          BY <2>1, <3>1, <3>3, <3>8, <4>1 DEF r
      <3>5. ASSUME NEW p \in Reqs, NEW s \in Fresh, Insert(p), NewRowAt(s, req[p].inst, req[p].lo, req[p].n) PROVE MadeThen(port'[r].inst)
        <4>1. r # s
          BY <3>1
        <4>2. port'[r] = port[r]
          BY <3>1, <3>5, <4>1 DEF NewRowAt
        <4>3. Exists(r)
          BY <3>8, <4>2 DEF Exists, ExistsThen
        <4> QED
          BY <3>3, <4>2, <4>3
      <3>6. ASSUME NEW s \in Fresh, NewRowAt(s, job.inst, FirstFree(1), 1) PROVE MadeThen(port'[r].inst)
        <4>1. port'[r] = port[r]
          BY <3>1, <3>6 DEF NewRowAt
        <4>3. Exists(r)
          BY <3>8, <4>1 DEF Exists, ExistsThen
        <4> QED
          BY <3>3, <4>1, <4>3
      <3>7. ASSUME NEW i \in Insts, Transfer, guest[i] = "none", port' = Transferred(i),
                   guest' = [guest EXCEPT ![job.inst] = "gone", ![i] = "busy"]
            PROVE MadeThen(port'[r].inst)
        <4>1. guest'[i] = "busy"
          BY <3>7 DEF PoolTyped
        <4>2. MadeThen(i)
          BY <1>0, <3>7, <4>1, IntoIsMade, TaskGoesOn DEF TaskStep
        <4>3. CASE r \in RowsOf(job.inst)
          BY <3>1, <3>7, <4>2, <4>3, TransferredIs
        <4>4. CASE r \notin RowsOf(job.inst)
          <5>1. port'[r] = port[r]
            BY <3>1, <3>7, <4>4, TransferredIs
          <5>2. Exists(r)
            BY <3>8, <5>1 DEF Exists, ExistsThen
          <5> QED
            BY <3>3, <5>1, <5>2
        <4> QED
          BY <4>3, <4>4
      <3> QED
        BY <2>1, <3>4, <3>5, <3>6, <3>7, RowsStep DEF r
    <2>2. CASE Insert(q) /\ StillFree(q)
      <3>1. Made(req[q].inst) /\ req[q].inst \in Insts
        BY <2>2 DEF Insert, NamedIsMade, PoolTyped, ReqsTyped
      <3>2. NewRowAt(req'[q].row, req[q].inst, req[q].lo, req[q].n)
        BY <2>2, RowInserted
      <3>3. port'[req'[q].row].inst = req[q].inst
        BY <3>2 DEF NewRowAt
      <3> QED
        BY <1>1, <3>1, <3>3
    <2> QED
      BY <1>2, <1>8, <2>1, <2>2 DEF RequestGoesOn
  <1>9. /\ \A q \in Reqs : (Exists(req[q].row))' = ExistsThen(req'[q].row)
        /\ \A k : (Made(queue[k].inst))' = MadeThen(queue'[k].inst)
        /\ (Made(job.inst))' = MadeThen(job'.inst) /\ (Made(job.into))' = MadeThen(job'.into)
        /\ \A q \in Reqs : (Made(req[q].inst))' = MadeThen(req'[q].inst)
        /\ \A q \in Reqs : (Made(port[req[q].row].inst))' = MadeThen(port'[req'[q].row].inst)
    BY DEF Made, Building, MadeThen, Exists, ExistsThen
  <1> HIDE DEF Made
  <1> QED
    BY <1>5, <1>6, <1>7, <1>8, <1>9 DEF NamedIsMade

-----------------------------------------------------------------------------
(* Rows in the hands of a request.                                           *)

\* Which rows tasks are to make the rules of, after a step.
LEMMA CreatingStep ==
  ASSUME PoolTyped, [PortPoolNext]_poolVars, NEW r, Creating(r)'
  PROVE  Creating(r) \/ \E q \in Reqs : Submit(q) /\ req[q].row = r /\ req'[q].at = "idle"
  <1>1. CASE JobGoesOn \/ UNCHANGED <<queue, job>>
    <2>1. NoJob.op # "create"
      BY DEF NoJob
    <2> QED
      BY <1>1, <2>1 DEF JobGoesOn, Creating
  <1>2. CASE Begin
    BY <1>2, OneLess DEF Creating
  <1>3. ASSUME NEW t \in PoolTasks, Queues(t) PROVE Creating(r) \/ (t.op = "create" /\ t.row = r)
    <2>1. \A k \in 1..Len(queue') : (k \in 1..Len(queue) /\ queue'[k] = queue[k]) \/ queue'[k] = t
      BY <1>3, OneMore DEF Queues
    <2> QED
      BY <1>3, <2>1 DEF Creating, Queues
  <1>4. ASSUME NEW q \in Reqs, Submit(q), Queues(Task("create", req[q].row, req[q].inst))
        PROVE  Creating(r) \/ (Submit(q) /\ req[q].row = r /\ req'[q].at = "idle")
    <2>1. Task("create", req[q].row, req[q].inst) \in PoolTasks
      BY <1>4, SubmittedTyped
    <2>2. req'[q].at = "idle"
      BY <1>4 DEF Submit, PoolTyped, ReqsTyped, NoReq
    <2> QED
      BY <1>3, <1>4, <2>1, <2>2, TaskIs
  <1>5. ASSUME NEW q \in Reqs, SubmitDelete(q), Queues(Task("delete", req[q].row, req[q].inst)) PROVE Creating(r)
    <2>1. Task("delete", req[q].row, req[q].inst) \in PoolTasks
      BY <1>5, SubmittedTyped
    <2> QED
      BY <1>3, <1>5, <2>1, TaskIs
  <1>6. ASSUME NEW i \in Insts, NEW op \in {"build", "reset", "remove"}, Queues(Task(op, None, i)) PROVE Creating(r)
    <2>1. Task(op, None, i) \in PoolTasks /\ Task(op, None, i).op # "create"
      BY TaskTyped, TaskIs
    <2> QED
      BY <1>3, <1>6, <2>1
  <1> QED
    BY <1>1, <1>2, <1>4, <1>5, <1>6, TasksStep

LEMMA RowsInHandNext == ASSUME PoolTyped, RowsInHand, [PortPoolNext]_poolVars PROVE RowsInHand'
  <1> DEFINE Held(q)  == req[q].at = "inserted" /\ req'[q].at = "inserted" /\ req'[q].row = req[q].row
             Taken(q) == Insert(q) /\ StillFree(q)
  <1>1. \A q \in Reqs : req'[q].at = "inserted" => Held(q) \/ Taken(q)
    BY RequestsStep DEF RequestGoesOn
  <1>2. \A q \in Reqs : Taken(q) => /\ req'[q].row \in Fresh /\ port'[req'[q].row].status = "pending"
                                    /\ req[q].at = "allocated" /\ \A p \in Reqs \ {q} : req'[p] = req[p]
    BY RowInserted DEF NewRowAt, Insert
  <1>3. \A q \in Reqs : Held(q) => /\ ~Creating(req[q].row) /\ req[q].row \in Rows /\ req[q].row \notin Fresh
                                   /\ \A p \in Reqs : Held(p) /\ req[p].row = req[q].row => p = q
    BY DEF RowsInHand, PoolTyped, ReqsTyped, Unsubmitted
  <1>4. \A q \in Reqs : Submit(q) => req[q].at = "inserted" /\ req[q].row \in Rows /\ req[q].row \notin Fresh
    BY DEF Submit, RowsInHand, PoolTyped, ReqsTyped, Unsubmitted
  <1>5. \A r \in Rows : Creating(r) => r \notin Fresh
    BY DEF RowsInHand
  <1>6. \A r : Creating(r)' => Creating(r) \/ \E q \in Reqs : Submit(q) /\ req[q].row = r /\ req'[q].at = "idle"
    BY CreatingStep
  <1>7. \A r \in Rows : r \notin Fresh => r \notin Fresh'
    BY RowsStep DEF Fresh
  <1> HIDE DEF Held, Taken
  <1>8. ASSUME NEW q \in Reqs, NEW r, req'[q].at = "inserted", r = req'[q].row
        PROVE  /\ ~Creating(r)' /\ r \notin Fresh'
               /\ \A p \in Reqs : req'[p].at = "inserted" /\ req'[p].row = r => p = q
    <2>1. CASE Held(q)
      <3>1. r \in Rows /\ r \notin Fresh /\ r = req[q].row /\ ~Creating(r)
        BY <1>3, <1>8, <2>1 DEF Held
      <3>2. ~Creating(r)'
        <4>1. ASSUME NEW p \in Reqs, Submit(p), req[p].row = r, req'[p].at = "idle" PROVE FALSE
          <5>1. req[p].at = "inserted"
            BY <1>4, <4>1
          <5>2. p = q
            BY <2>1, <3>1, <4>1, <5>1 DEF RowsInHand, Held
          <5> QED
            BY <1>8, <4>1, <5>2
        <4> QED
          BY <1>6, <3>1, <4>1
      <3>3. ASSUME NEW p \in Reqs, req'[p].at = "inserted", req'[p].row = r PROVE p = q
        <4>1. CASE Held(p)
          BY <1>3, <2>1, <3>1, <3>3, <4>1 DEF Held
        <4>2. CASE Taken(p)
          BY <1>2, <3>1, <3>3, <4>2
        <4> QED
          BY <1>1, <3>3, <4>1, <4>2
      <3> QED
        BY <1>7, <3>1, <3>2, <3>3
    <2>2. CASE Taken(q)
      <3>1. r \in Fresh /\ r \in Rows /\ port'[r].status = "pending"
        BY <1>2, <1>8, <2>2 DEF Fresh
      <3>2. ~Creating(r)'
        BY <1>4, <1>5, <1>6, <3>1
      <3>3. ASSUME NEW p \in Reqs, req'[p].at = "inserted", req'[p].row = r PROVE p = q
        <4>1. CASE Held(p)
          BY <1>3, <3>1, <3>3, <4>1 DEF Held
        <4>2. CASE Taken(p)
          BY <1>2, <2>2, <3>3, <4>2
        <4> QED
          BY <1>1, <3>3, <4>1, <4>2
      <3> QED
        BY <3>1, <3>2, <3>3 DEF Fresh
    <2> QED
      BY <1>1, <1>8, <2>1, <2>2
  <1>9. ASSUME NEW r \in Rows, Creating(r)' PROVE r \notin Fresh'
    BY <1>4, <1>5, <1>6, <1>7, <1>9
  <1> QED
    BY <1>8, <1>9 DEF RowsInHand, Unsubmitted

-----------------------------------------------------------------------------
(* Every rule keeps its row.                                                 *)

\* What setting and removing rules does at one port.
LEMMA RulesAre ==
  ASSUME PoolTyped, NEW hs, NEW i \in Insts, NEW h \in PortRange, NEW j
  PROVE  /\ j \in WithRules(hs, i)[h] <=> (j \in rules[h] \/ (h \in hs /\ j = i))
         /\ j \in WithoutRules(hs, i)[h] <=> (j \in rules[h] /\ ~(h \in hs /\ j = i))
  BY DEF WithRules, WithoutRules, PoolTyped

\* A rule that is new leads to a row, and a row that goes or changes hands led nowhere.
NewIsBacked  == \A h \in PortRange : \A i \in rules'[h] : i \in rules[h] \/ HasRow(h, i)'
LostWasBare == \A r \in Rows : Exists(r) =>
                  \/ ExistsThen(r) /\ Like(port', r)
                  \/ \A h \in HostPorts(r) \cap PortRange : port[r].inst \notin rules'[h]

LEMMA StillBacked == ASSUME RulesBacked, NewIsBacked, LostWasBare PROVE RulesBacked'
  <1> SUFFICES ASSUME NEW h \in PortRange, NEW i \in rules'[h] PROVE HasRow(h, i)'
    BY DEF RulesBacked
  <1>1. CASE i \in rules[h]
    <2>1. PICK r \in Rows : Exists(r) /\ port[r].inst = i /\ h \in HostPorts(r)
      BY <1>1 DEF RulesBacked, HasRow
    <2>2. ExistsThen(r) /\ Like(port', r)
      BY <2>1 DEF LostWasBare
    <2> QED
      BY <2>1, <2>2 DEF HasRow, Exists, ExistsThen, Like, HostPorts
  <1>2. CASE HasRow(h, i)'
    BY <1>2
  <1> QED
    BY <1>1, <1>2 DEF NewIsBacked

\* Rows that keep their instance and segment, or go.
LEMMA MarksKeep ==
  ASSUME PoolTyped, NEW rs, NEW s \in Statuses \ {"none", "gone"}, port' = Marked(rs, s) \/ port' = port
  PROVE  \A r \in Rows : Exists(r) => ExistsThen(r) /\ Like(port', r)
  <1>1. CASE port' = Marked(rs, s)
    BY <1>1, MarkedIs DEF Exists, ExistsThen, Like
  <1>2. CASE port' = port
    BY <1>2 DEF Exists, ExistsThen, Like
  <1> QED
    BY <1>1, <1>2

LEMMA NewRowKeeps ==
  ASSUME NEW r \in Fresh, NEW i, NEW lo, NEW n, NewRowAt(r, i, lo, n)
  PROVE  \A s \in Rows : Exists(s) => ExistsThen(s) /\ Like(port', s)
  BY DEF NewRowAt, Fresh, Exists, ExistsThen, Like

LEMMA RestoredKeeps ==
  ASSUME PoolTyped, NEW ok \in SUBSET Restoring, port' = Restored(ok)
  PROVE  \A s \in Rows : Exists(s) => ExistsThen(s) /\ Like(port', s)
  BY RestoredIs DEF Exists, ExistsThen, Like

LEMMA RowThere ==
  ASSUME NEW r \in Rows, Exists(r), ExistsThen(r), Like(port', r), NEW h \in HostPorts(r), NEW i, i = port[r].inst
  PROVE  HasRow(h, i)'
  BY DEF HasRow, Exists, ExistsThen, Like, HostPorts

\* The rules a creation applies, all or the first ones, are those of its row's ports.
LEMMA AppliesWithin ==
  ASSUME PoolTyped, CreateApplies, job.row \in Rows
  PROVE  \E hs : hs \subseteq HostPorts(job.row) /\ rules' = WithRules(hs, job.inst)
  <1>1. PICK k \in 0 .. port[job.row].n : rules' = WithRules(port[job.row].lo .. (port[job.row].lo + k - 1), job.inst)
    BY DEF CreateApplies
  <1>2. port[job.row].lo \in Nat /\ port[job.row].n \in Nat
    <2>1. port[job.row].lo \in PortRange /\ port[job.row].n \in 0..(Last - First + 1)
      BY DEF PoolTyped, PortTyped, Table
    <2>2. \A n \in 0..(Last - First + 1) : n \in Nat
      OBVIOUS
    <2> QED
      BY <2>1, <2>2, RangeNat
  <1>3. k \in Nat /\ k <= port[job.row].n
    BY <1>1, <1>2
  <1>4. port[job.row].lo .. (port[job.row].lo + k - 1) \subseteq HostPorts(job.row)
    BY <1>2, <1>3 DEF HostPorts
  <1> QED
    BY <1>1, <1>4

LEMMA RulesBackedNext ==
  ASSUME PoolTyped, refused' <= 1, RulesBacked, UnsubmittedBare, JobSoFar, [PortPoolNext]_poolVars
  PROVE  RulesBacked'
  <1> DEFINE Stay == \A r \in Rows : Exists(r) => ExistsThen(r) /\ Like(port', r)
  <1>0. NewIsBacked /\ (Stay \/ LostWasBare) => RulesBacked'
    <2>1. Stay => LostWasBare
      BY DEF LostWasBare
    <2> QED
      BY <2>1, StillBacked
  <1>1. ASSUME \A h \in PortRange : rules'[h] \subseteq rules[h] PROVE NewIsBacked
    BY <1>1 DEF NewIsBacked
  <1>2. ASSUME rules' = rules PROVE NewIsBacked
    BY <1>2 DEF NewIsBacked
  <1>3. port' = port => Stay
    BY DEF Exists, ExistsThen, Like
  <1>4. \A rs, s : s \in {"active", "failed", "deleting", "error"} /\ port' = Marked(rs, s) => Stay
    BY MarksKeep DEF Statuses
  <1>5. ASSUME NEW q \in Reqs,
               \/ \E i \in Insts, n \in Sizes : Ask(q, i, n)
               \/ Allocate(q) \/ Choose(q) \/ NoPort(q)
               \/ \E r \in Rows : AskDelete(q, r)
               \/ SubmitDelete(q)
        PROVE  Stay /\ rules' = rules
    <2>1. rules' = rules /\ (port' = port \/ \E rs, s : s \in {"active", "failed", "deleting", "error"} /\ port' = Marked(rs, s))
      BY <1>5 DEF Ask, Allocate, Choose, NoPort, AskDelete, SubmitDelete
    <2> QED
      BY <1>3, <1>4, <2>1
  <1>6. ASSUME NEW q \in Reqs, Insert(q) PROVE Stay /\ rules' = rules
    <2>1. rules' = rules /\ (~StillFree(q) => port' = port)
      BY <1>6 DEF Insert
    <2>2. StillFree(q) => Stay
      BY <1>6, RowInserted, NewRowKeeps
    <2> QED
      BY <1>3, <2>1, <2>2
  <1>7. ASSUME NEW q \in Reqs, Submit(q) PROVE rules' = rules /\ (Stay \/ LostWasBare)
    <2>1. rules' = rules /\ (port' = port \/ (port' = Dropped({req[q].row}) /\ refused' = refused + 1))
      BY <1>7 DEF Submit, Rejected
    <2>2. CASE port' = Dropped({req[q].row}) /\ refused' = refused + 1
      <3>1. refused = 0
        BY <2>2 DEF PoolTyped
      <3>2. Unsubmitted(req[q].row)
        BY <1>7 DEF Submit, Unsubmitted
      <3>3. \A r \in Rows : r # req[q].row => port'[r] = port[r]
        BY <2>2, DroppedIs
      <3>4. \A r \in Rows : Exists(r) /\ r = req[q].row => Bare(r)
        BY <3>1, <3>2 DEF UnsubmittedBare
      <3> QED
        BY <2>1, <3>3, <3>4 DEF LostWasBare, Exists, ExistsThen, Like, Bare
    <2> QED
      BY <1>3, <2>1, <2>2
  <1>8. CASE \/ \E i \in Insts, op \in {"build", "reset", "remove"} : Occupy(i, op)
             \/ Begin \/ CreateReads \/ CreateMarks \/ DeleteReads \/ ResetReads \/ UNCHANGED poolVars
    <2>1. rules' = rules /\ (port' = port \/ \E rs, s : s \in {"active", "failed", "deleting", "error"} /\ port' = Marked(rs, s))
      BY <1>8 DEF Occupy, Begin, CreateReads, CreateMarks, DeleteReads, ResetReads, poolVars
    <2> QED
      BY <1>0, <1>2, <1>3, <1>4, <2>1
  <1>9. CASE CreateApplies
    <2>1. JobTyped /\ job.inst \in Insts /\ job.row \in Rows
      BY <1>9, JobIs DEF CreateApplies, At, JobTyped, PoolTasks
    <2>2. Exists(job.row) /\ port[job.row].inst = job.inst
      BY <1>9 DEF CreateApplies, JobSoFar
    <2>3. PICK hs : hs \subseteq HostPorts(job.row) /\ rules' = WithRules(hs, job.inst)
      BY <1>9, <2>1, AppliesWithin
    <2>4. port' = port
      BY <1>9 DEF CreateApplies
    <2>5. ExistsThen(job.row) /\ Like(port', job.row)
      BY <1>3, <2>1, <2>2, <2>4
    <2>6. ASSUME NEW r, r = job.row PROVE \A h \in HostPorts(r) : \A i : i = job.inst => HasRow(h, i)'
      BY <2>1, <2>2, <2>6, <2>5, RowThere
    <2>7. NewIsBacked
      <3>1. \A h \in PortRange : \A i \in rules'[h] : i \in rules[h] \/ (h \in hs /\ i = job.inst)
        BY <2>1, <2>3, RulesAre
      <3> QED
        BY <2>1, <2>3, <2>6, <3>1 DEF NewIsBacked
    <2> QED
      BY <1>0, <1>3, <2>4, <2>7
  <1>10. CASE DeleteRemoves
    <2>1. JobTyped /\ job.inst \in Insts
      BY <1>10, JobIs DEF DeleteRemoves, At, JobTyped, PoolTasks
    <2>2. PICK hs : rules' = WithoutRules(hs, job.inst)
      BY <1>10 DEF DeleteRemoves
    <2>3. \A h \in PortRange : rules'[h] \subseteq rules[h]
      BY <2>1, <2>2, RulesAre
    <2> QED
      BY <1>0, <1>1, <1>3, <1>10, <2>3 DEF DeleteRemoves
  <1>11. CASE DeleteMarks
    <2>1. rules' = rules /\ (port' = port \/ (At("delete", "drop") /\ port' = Dropped({job.row})))
      BY <1>11 DEF DeleteMarks, At
    <2>2. CASE At("delete", "drop") /\ port' = Dropped({job.row})
      <3>1. \A r \in Rows : r # job.row => port'[r] = port[r]
        BY <2>2, DroppedIs
      <3>2. \A r \in Rows : Exists(r) /\ r = job.row => Bare(r)
        BY <2>2 DEF JobSoFar
      <3>3. LostWasBare
        BY <2>1, <3>1, <3>2 DEF LostWasBare, Exists, ExistsThen, Like, Bare
      <3> QED
        BY <1>0, <1>2, <2>1, <3>3
    <2> QED
      BY <1>0, <1>2, <1>3, <2>1, <2>2
  <1>12. CASE RemoveGuest \/ ResetGuest
    <2>1. port' = port /\ (rules' = [h \in PortRange |-> rules[h] \ {job.inst}] \/ rules' = rules)
      BY <1>12 DEF RemoveGuest, ResetGuest, GuestGone
    <2>2. \A h \in PortRange : rules'[h] \subseteq rules[h]
      BY <2>1
    <2> QED
      BY <1>0, <1>1, <1>3, <2>1, <2>2
  <1>13. CASE RemoveRows
    <2>1. rules' = rules /\ port' = Dropped(RowsOf(job.inst)) /\ \A h \in PortRange : job.inst \notin rules[h]
      BY <1>13 DEF RemoveRows, JobSoFar
    <2>2. \A r \in Rows : Exists(r) /\ port[r].inst # job.inst => port'[r] = port[r]
      BY <2>1, DroppedIs DEF RowsOf
    <2>3. LostWasBare
      BY <2>1, <2>2 DEF LostWasBare, Exists, ExistsThen, Like
    <2> QED
      BY <1>0, <1>2, <2>1, <2>3
  <1>14. CASE Transfer
    <2>1. PICK i \in Insts : rules' = rules /\ (port' = port \/ port' = Transferred(i)) /\ \A h \in PortRange : job.inst \notin rules[h]
      BY <1>14 DEF Transfer, JobSoFar
    <2>2. port' = Transferred(i) => \A r \in Rows : Exists(r) /\ port[r].inst # job.inst => port'[r] = port[r]
      BY TransferredIs DEF RowsOf
    <2>3. port' = Transferred(i) => LostWasBare
      BY <2>1, <2>2 DEF LostWasBare, Exists, ExistsThen, Like
    <2> QED
      BY <1>0, <1>2, <1>3, <2>1, <2>3
  <1>15. CASE Restore
    <2>1. JobTyped /\ job.into \in Insts
      BY <1>15, JobIs DEF Restore, At, JobTyped, PoolTasks
    <2>2. \/ \E ok \in SUBSET Restoring : port' = Restored(ok) /\ rules' = WithRules(UNION {HostPorts(r) : r \in ok}, job.into)
          \/ port' = Marked(Restoring, "error") /\ rules' = rules
      BY <1>15, Zenon DEF Restore, Restored
    <2>3. ASSUME NEW ok \in SUBSET Restoring, port' = Restored(ok), rules' = WithRules(UNION {HostPorts(r) : r \in ok}, job.into)
          PROVE  RulesBacked'
      <3>1. Stay
        BY <2>3, RestoredKeeps
      <3>2. \A r \in ok : r \in Rows /\ Exists(r) /\ port[r].inst = job.into
        BY DEF Restoring
      <3>3. \A r \in ok : \A h \in HostPorts(r) : \A i : i = job.into => HasRow(h, i)'
        BY <3>1, <3>2, RowThere
      <3>4. NewIsBacked
        BY <2>1, <2>3, <3>3, RulesAre DEF NewIsBacked
      <3> QED
        BY <1>0, <3>1, <3>4
    <2> QED
      BY <1>0, <1>2, <1>4, <2>2, <2>3
  <1>16. CASE BuildReserves
    <2>1. rules' = rules
      BY <1>16 DEF BuildReserves
    <2>2. Stay
      <3>1. CASE \E lo \in PortRange : Free(lo, 1)
        BY <1>16, <3>1, BuildRow, NewRowIs, NewRowKeeps DEF Fresh
      <3>2. CASE ~\E lo \in PortRange : Free(lo, 1)
        BY <1>3, <1>16, <3>2 DEF BuildReserves
      <3> QED
        BY <3>1, <3>2
    <2> QED
      BY <1>0, <1>2, <2>1, <2>2
  <1>17. CASE BuildEnds
    <2>1. JobTyped /\ job.inst \in Insts
      BY <1>17, JobIs DEF BuildEnds, At, JobTyped, PoolTasks
    <2>2. \/ port' = Marked(RowsOf(job.inst), "active") /\ rules' = WithRules(UNION {HostPorts(r) : r \in RowsOf(job.inst)}, job.inst)
          \/ port' = Marked(RowsOf(job.inst), "deleting") /\ rules' = rules
      BY <1>17 DEF BuildEnds
    <2>3. ASSUME port' = Marked(RowsOf(job.inst), "active"), rules' = WithRules(UNION {HostPorts(r) : r \in RowsOf(job.inst)}, job.inst)
          PROVE  RulesBacked'
      <3>1. Stay
        BY <1>4, <2>3
      <3>2. \A r \in RowsOf(job.inst) : r \in Rows /\ Exists(r) /\ port[r].inst = job.inst
        BY DEF RowsOf
      <3>3. \A r \in RowsOf(job.inst) : \A h \in HostPorts(r) : \A i : i = job.inst => HasRow(h, i)'
        BY <3>1, <3>2, RowThere
      <3>4. NewIsBacked
        BY <2>1, <2>3, <3>3, RulesAre DEF NewIsBacked
      <3> QED
        BY <1>0, <3>1, <3>4
    <2> QED
      BY <1>0, <1>2, <1>4, <2>2, <2>3
  <1> HIDE DEF Stay
  <1> QED
    BY <1>0, <1>2, <1>5, <1>6, <1>7, <1>8, <1>9, <1>10, <1>11, <1>12, <1>13, <1>14, <1>15, <1>16, <1>17 DEF PortPoolNext

\* A row that is its request's, before its submission.
Waits(r) ==
    /\ r \in Rows /\ Exists(r) /\ ExistsThen(r) /\ r \notin Fresh
    /\ port[r].inst \in Insts /\ Made(port[r].inst)
    /\ port[r].status \in {"pending", "deleting"} /\ Bare(r)
    /\ Unsubmitted(r) /\ ~Creating(r)
StillWaits(r) == port'[r].status \in {"pending", "deleting"} /\ Bare(r)'

LEMMA WaitsOn ==
  ASSUME NEW r, Waits(r), Like(port', r), port'[r].status \in {port[r].status, "deleting"},
         \A h \in HostPorts(r) \cap PortRange : port[r].inst \in rules'[h] => port[r].inst \in rules[h]
  PROVE  StillWaits(r)
  BY DEF Waits, StillWaits, Like, Bare, HostPorts

LEMMA WaitsSame ==
  ASSUME NEW r, Waits(r), port'[r] = port[r],
         \A h \in HostPorts(r) \cap PortRange : port[r].inst \in rules'[h] => port[r].inst \in rules[h]
  PROVE  StillWaits(r)
  BY WaitsOn DEF Like

\* What waits is not marked by a task that makes rules, nor dropped as it is still there.
LEMMA WaitsMarked ==
  ASSUME PoolTyped, NEW r, Waits(r), rules' = rules,
         \/ port' = port \/ \E rs : port' = Dropped(rs) \/ port' = Marked(rs, "deleting")
         \/ \E rs : r \notin rs /\ \E s \in {"active", "failed", "error"} : port' = Marked(rs, s)
  PROVE  StillWaits(r)
  <1>0. r \in Rows /\ Exists(r) /\ ExistsThen(r)
    BY DEF Waits
  <1>1. CASE port' = port
    BY <1>1, WaitsSame
  <1>2. ASSUME NEW rs, port' = Dropped(rs) PROVE StillWaits(r)
    BY <1>0, <1>2, DroppedIs, WaitsSame DEF ExistsThen
  <1>3. ASSUME NEW rs, port' = Marked(rs, "deleting") PROVE StillWaits(r)
    BY <1>0, <1>3, MarkedIs, WaitsOn DEF Statuses
  <1>4. ASSUME NEW rs, r \notin rs, NEW s \in {"active", "failed", "error"}, port' = Marked(rs, s) PROVE StillWaits(r)
    <2>1. Like(port', r) /\ port'[r].status = port[r].status
      BY <1>0, <1>4, MarkedIs DEF Statuses
    <2> QED
      BY <1>4, <2>1, WaitsOn
  <1> QED
    BY <1>1, <1>2, <1>3, <1>4

\* Rules made for other rows do not touch the ports of one that waits.
LEMMA OthersRules ==
  ASSUME PoolTyped, SegmentsDisjoint, NEW r, Waits(r), NEW ss \in SUBSET Rows, r \notin ss, \A s \in ss : Exists(s),
         NEW hs, hs \subseteq UNION {HostPorts(s) : s \in ss}, NEW i \in Insts, rules' = WithRules(hs, i)
  PROVE  \A h \in HostPorts(r) \cap PortRange : port[r].inst \in rules'[h] => port[r].inst \in rules[h]
  <1>1. \A s \in ss : HostPorts(s) \cap HostPorts(r) = {}
    BY DEF SegmentsDisjoint, Waits
  <1>2. \A h \in HostPorts(r) : h \notin hs
    BY <1>1
  <1> QED
    BY <1>2, RulesAre

LEMMA WaitsTransferred ==
  ASSUME PoolTyped, SegmentsDisjoint, RulesBacked, NEW r, Waits(r), NEW i \in Insts, guest[i] = "none", At("reset", "transfer"),
         port' = Transferred(i), rules' = rules
  PROVE  StillWaits(r)
  <1>0. r \in Rows /\ Exists(r) /\ port[r].status \in {"pending", "deleting"} /\ port[r].inst # i
    BY DEF Waits, Made
  <1>1. CASE r \in RowsOf(job.inst)
    <2>1. port'[r].inst = i /\ port'[r].lo = port[r].lo /\ port'[r].n = port[r].n /\ port'[r].status = port[r].status
      BY <1>0, <1>1, TransferredIs
    <2>2. \A h \in HostPorts(r) \cap PortRange : i \notin rules[h]
      BY <1>0 DEF RulesBacked, HasRow, SegmentsDisjoint
    <2> QED
      BY <1>0, <2>1, <2>2 DEF StillWaits, Bare, HostPorts
  <1>2. CASE r \notin RowsOf(job.inst)
    <2>1. port'[r] = port[r]
      BY <1>0, <1>2, TransferredIs
    <2> QED
      BY <2>1, WaitsSame
  <1> QED
    BY <1>1, <1>2

LEMMA WaitsStep ==
  ASSUME PoolTyped, SegmentsDisjoint, NamedIsMade, RulesBacked, JobSoFar, [PortPoolNext]_poolVars, refused' = 0, NEW r, Waits(r)
  PROVE  StillWaits(r)
  <1>0. r \in Rows /\ Exists(r) /\ r \notin Fresh /\ ~Creating(r) /\ port[r].status \in {"pending", "deleting"}
    BY DEF Waits
  <1>1. ASSUME NEW q \in Reqs,
               \/ \E i \in Insts, n \in Sizes : Ask(q, i, n)
               \/ Allocate(q) \/ Choose(q) \/ NoPort(q) \/ Submit(q)
               \/ \E s \in Rows : AskDelete(q, s)
               \/ SubmitDelete(q)
        PROVE  StillWaits(r)
    <2>1. refused' # refused + 1
      BY DEF PoolTyped
    <2>2. rules' = rules /\ (port' = port \/ \E rs : port' = Dropped(rs) \/ port' = Marked(rs, "deleting"))
      BY <1>1, <2>1 DEF Ask, Allocate, Choose, NoPort, Submit, AskDelete, SubmitDelete, Rejected
    <2> QED
      BY <2>2, WaitsMarked
  <1>2. ASSUME NEW q \in Reqs, Insert(q) PROVE StillWaits(r)
    <2>1. rules' = rules /\ (~StillFree(q) => port' = port)
      BY <1>2 DEF Insert
    <2>2. ASSUME StillFree(q) PROVE port'[r] = port[r]
      <3>1. req'[q].row \in Fresh /\ NewRowAt(req'[q].row, req[q].inst, req[q].lo, req[q].n)
        BY <1>2, <2>2, RowInserted
      <3> QED
        BY <1>0, <3>1 DEF NewRowAt
    <2> QED
      BY <2>1, <2>2, WaitsSame
  <1>3. CASE \/ \E i \in Insts, op \in {"build", "reset", "remove"} : Occupy(i, op)
             \/ Begin \/ DeleteReads \/ DeleteMarks \/ ResetReads \/ RemoveRows \/ UNCHANGED poolVars
    <2>1. rules' = rules /\ (port' = port \/ \E rs : port' = Dropped(rs))
      BY <1>3 DEF Occupy, Begin, DeleteReads, DeleteMarks, ResetReads, RemoveRows, poolVars
    <2> QED
      BY <2>1, WaitsMarked
  <1>4. CASE CreateReads \/ CreateMarks
    <2>1. r \notin {job.row}
      BY <1>0, <1>4 DEF CreateReads, CreateMarks, At, Creating
    <2>2. rules' = rules /\ (port' = port \/ \E s \in {"active", "failed", "error"} : port' = Marked({job.row}, s))
      BY <1>4 DEF CreateReads, CreateMarks
    <2> QED
      BY <2>1, <2>2, WaitsMarked
  <1>5. CASE CreateApplies
    <2>1. JobTyped /\ job.inst \in Insts /\ job.row \in Rows
      BY <1>5, JobIs DEF CreateApplies, At, JobTyped, PoolTasks
    <2>2. Exists(job.row) /\ r # job.row /\ port' = port
      BY <1>0, <1>5 DEF CreateApplies, JobSoFar, Creating, At
    <2>3. \E hs : hs \subseteq HostPorts(job.row) /\ rules' = WithRules(hs, job.inst)
      BY <1>5, <2>1, AppliesWithin
    <2>4. \A h \in HostPorts(r) \cap PortRange : port[r].inst \in rules'[h] => port[r].inst \in rules[h]
      <3> DEFINE ss == {job.row}
      <3>1. ss \in SUBSET Rows /\ r \notin ss /\ UNION {HostPorts(s) : s \in ss} = HostPorts(job.row) /\ \A s \in ss : Exists(s)
        BY <2>1, <2>2
      <3> HIDE DEF ss
      <3> QED
        BY <2>1, <2>3, <3>1, OthersRules
    <2> QED
      BY <2>2, <2>4, WaitsSame
  <1>6. CASE DeleteRemoves
    <2>1. JobTyped /\ job.inst \in Insts
      BY <1>6, JobIs DEF DeleteRemoves, At, JobTyped, PoolTasks
    <2>2. port' = port /\ \E hs : rules' = WithoutRules(hs, job.inst)
      BY <1>6 DEF DeleteRemoves
    <2> QED
      BY <2>1, <2>2, RulesAre, WaitsSame
  <1>7. CASE RemoveGuest \/ ResetGuest
    <2>1. port' = port /\ (rules' = [h \in PortRange |-> rules[h] \ {job.inst}] \/ rules' = rules)
      BY <1>7 DEF RemoveGuest, ResetGuest, GuestGone
    <2>2. \A h \in PortRange : rules'[h] \subseteq rules[h]
      BY <2>1
    <2> QED
      BY <2>1, <2>2, WaitsSame
  <1>8. CASE Transfer
    <2>1. PICK i \in Insts : guest[i] = "none" /\ (port' = Transferred(i) \/ port' = port) /\ rules' = rules
      BY <1>8 DEF Transfer
    <2> QED
      BY <1>8, <2>1, WaitsTransferred, WaitsSame DEF Transfer
  <1>9. CASE Restore
    <2>1. JobTyped /\ job.into \in Insts
      BY <1>9, JobIs DEF Restore, At, JobTyped, PoolTasks
    <2>2. \/ \E ok \in SUBSET Restoring : port' = Restored(ok) /\ rules' = WithRules(UNION {HostPorts(s) : s \in ok}, job.into)
          \/ port' = Marked(Restoring, "error") /\ rules' = rules
      BY <1>9, Zenon DEF Restore, Restored
    <2>3. r \notin Restoring
      BY <1>0 DEF Restoring
    <2>4. ASSUME NEW ok \in SUBSET Restoring, port' = Restored(ok), rules' = WithRules(UNION {HostPorts(s) : s \in ok}, job.into)
          PROVE  StillWaits(r)
      <3>1. Like(port', r) /\ port'[r].status = port[r].status
        BY <1>0, <2>3, <2>4, RestoredIs
      <3>2. ok \in SUBSET Rows /\ r \notin ok /\ \A s \in ok : Exists(s)
        BY <2>3 DEF Restoring
      <3>3. \A h \in HostPorts(r) \cap PortRange : port[r].inst \in rules'[h] => port[r].inst \in rules[h]
        BY <2>1, <2>4, <3>2, OthersRules
      <3> QED
        BY <3>1, <3>3, WaitsOn
    <2> QED
      BY <2>2, <2>3, <2>4, WaitsMarked
  <1>10. CASE BuildReserves
    <2>1. rules' = rules
      BY <1>10 DEF BuildReserves
    <2>2. port'[r] = port[r]
      <3>1. CASE \E lo \in PortRange : Free(lo, 1)
        BY <1>0, <1>10, <3>1, BuildRow, NewRowIs DEF Fresh, NewRowAt
      <3>2. CASE ~\E lo \in PortRange : Free(lo, 1)
        BY <1>10, <3>2 DEF BuildReserves
      <3> QED
        BY <3>1, <3>2
    <2> QED
      BY <2>1, <2>2, WaitsSame
  <1>11. CASE BuildEnds
    <2>1. JobTyped /\ job.inst \in Insts /\ job.op = "build"
      BY <1>11, JobIs DEF BuildEnds, At, JobTyped, PoolTasks
    <2>2. \/ port' = Marked(RowsOf(job.inst), "active") /\ rules' = WithRules(UNION {HostPorts(s) : s \in RowsOf(job.inst)}, job.inst)
          \/ port' = Marked(RowsOf(job.inst), "deleting") /\ rules' = rules
      BY <1>11 DEF BuildEnds
    <2>3. r \notin RowsOf(job.inst)
      BY <2>1 DEF Waits, Made, Building, RowsOf
    <2>4. ASSUME port' = Marked(RowsOf(job.inst), "active"), rules' = WithRules(UNION {HostPorts(s) : s \in RowsOf(job.inst)}, job.inst)
          PROVE  StillWaits(r)
      <3>1. Like(port', r) /\ port'[r].status = port[r].status
        BY <1>0, <2>3, <2>4, MarkedIs DEF Statuses
      <3>2. RowsOf(job.inst) \in SUBSET Rows /\ \A s \in RowsOf(job.inst) : Exists(s)
        BY DEF RowsOf
      <3>3. \A h \in HostPorts(r) \cap PortRange : port[r].inst \in rules'[h] => port[r].inst \in rules[h]
        BY <2>1, <2>3, <2>4, <3>2, OthersRules
      <3> QED
        BY <3>1, <3>3, WaitsOn
    <2> QED
      BY <2>2, <2>4, WaitsMarked
  <1> QED
    BY <1>1, <1>2, <1>3, <1>4, <1>5, <1>6, <1>7, <1>8, <1>9, <1>10, <1>11 DEF PortPoolNext

LEMMA UnsubmittedBareNext ==
  ASSUME PoolTyped, SegmentsDisjoint, NamedIsMade, RowsInHand, RulesBacked, UnsubmittedBare, JobSoFar,
         [PortPoolNext]_poolVars, refused' = 0, NEW r \in Rows, NEW q \in Reqs, req'[q].at = "inserted", req'[q].row = r, ExistsThen(r)
  PROVE  StillWaits(r)
  <1>1. CASE req[q].at = "inserted" /\ req[q].row = r
    <2>1. refused = 0
      <3>1. refused' = refused \/ refused' = refused + 1
        BY DEF PortPoolNext, poolVars, Ask, Allocate, Choose, NoPort, Insert, Submit, AskDelete, SubmitDelete, Rejected, Occupy, Begin,
               CreateReads, CreateApplies, CreateMarks, DeleteReads, DeleteRemoves, DeleteMarks, RemoveGuest, RemoveRows,
               ResetReads, ResetGuest, Transfer, Restore, BuildReserves, BuildEnds
      <3> QED
        BY <3>1 DEF PoolTyped
    <2>2. Unsubmitted(r) /\ r \notin Fresh /\ ~Creating(r)
      BY <1>1 DEF Unsubmitted, RowsInHand
    <2>3. Exists(r)
      <3>1. CASE NoNewRow
        BY <3>1 DEF NoNewRow, Stays, Exists, ExistsThen
      <3>2. ASSUME NEW s \in Fresh, NEW i, NEW lo, NEW n, NewRowAt(s, i, lo, n) PROVE Exists(r)
        BY <2>2, <3>2 DEF NewRowAt, Exists, ExistsThen
      <3>3. ASSUME NEW i \in Insts, port' = Transferred(i) PROVE Exists(r)
        BY <3>3, TransferredIs DEF Exists, ExistsThen, RowsOf
      <3> QED
        BY <3>1, <3>2, <3>3, RowsStep
    <2>4. port[r].inst \in Insts /\ Made(port[r].inst)
      BY <1>1, <2>3 DEF PoolTyped, PortTyped, NamedIsMade
    <2>5. Waits(r)
      BY <2>1, <2>2, <2>3, <2>4 DEF Waits, UnsubmittedBare
    <2> QED
      BY <2>5, WaitsStep
  <1>2. CASE Insert(q) /\ StillFree(q)
    <2>1. NewRowAt(r, req[q].inst, req[q].lo, req[q].n) /\ rules' = rules
      BY <1>2, RowInserted DEF Insert
    <2>2. Free(req[q].lo, req[q].n)
      BY <1>2 DEF StillFree
    <2>3. port'[r].status = "pending" /\ HostPorts(r)' = req[q].lo .. (req[q].lo + req[q].n - 1)
      BY <2>1 DEF NewRowAt, HostPorts
    <2>4. \A h \in req[q].lo .. (req[q].lo + req[q].n - 1) : h \in PortRange /\ rules[h] = {}
      <3>1. \A h \in req[q].lo .. (req[q].lo + req[q].n - 1) : h \in PortRange /\ h \notin Occupied
        BY <2>2 DEF Free
      <3>2. \A h \in PortRange : \A i \in rules[h] : h \in Occupied
        BY DEF RulesBacked, HasRow, Occupied
      <3> QED
        BY <3>1, <3>2
    <2> QED
      BY <2>1, <2>3, <2>4 DEF StillWaits, Bare
  <1> QED
    BY <1>1, <1>2, RequestsStep DEF RequestGoesOn

-----------------------------------------------------------------------------
(* The task under way, and the induction.                                    *)

\* The place of the task under way after its step.
LEMMA PlaceIs ==
  ASSUME PoolTyped, TaskStep
  PROVE  /\ At("create", "apply")' => CreateReads /\ Exists(job.row) /\ Owns /\ port' = port
         /\ At("delete", "remove")' => DeleteReads /\ Exists(job.row) /\ Owns
         /\ At("delete", "drop")' => DeleteRemoves
         /\ At("remove", "rows")' \/ At("reset", "transfer")' => RemoveGuest \/ ResetGuest
  <1>0. JobTyped
    BY TaskGoesOn
  <1>1. \A s : Step(s) => job'.at = s /\ job'.op = job.op
    BY <1>0 DEF Step, JobTyped, PoolTasks
  <1>2. JobEnds => job'.at = "idle"
    BY DEF JobEnds, NoJob
  <1>3. CASE CreateReads
    <2>1. (Step("apply") /\ Exists(job.row) /\ Owns /\ port' = port) \/ JobEnds
      BY <1>3 DEF CreateReads
    <2>2. job.op = "create"
      BY <1>3 DEF CreateReads, At
    <2> QED
      BY <1>1, <1>2, <1>3, <2>1, <2>2 DEF At
  <1>4. CASE CreateApplies \/ CreateMarks \/ DeleteMarks \/ RemoveRows \/ Restore \/ BuildReserves \/ BuildEnds
    <2>1. JobEnds \/ Step("active") \/ Step("failed") \/ Step("guest")
      BY <1>4, Zenon DEF CreateApplies, CreateMarks, DeleteMarks, RemoveRows, Restore, BuildReserves, BuildEnds
    <2> QED
      BY <1>1, <1>2, <2>1 DEF At
  <1>5. CASE DeleteReads
    <2>1. (Step("remove") /\ Exists(job.row) /\ Owns) \/ JobEnds
      BY <1>5 DEF DeleteReads
    <2> QED
      BY <1>1, <1>2, <1>5, <2>1 DEF At
  <1>6. CASE DeleteRemoves
    <2>1. Step("drop") \/ Step("keep")
      BY <1>6 DEF DeleteRemoves, RowAfter
    <2> QED
      BY <1>1, <1>6, <2>1 DEF At
  <1>7. CASE RemoveGuest \/ ResetGuest
    <2>1. JobEnds \/ Step("rows") \/ Step("transfer")
      BY <1>7 DEF RemoveGuest, ResetGuest, GuestGone
    <2> QED
      BY <1>1, <1>2, <1>7, <2>1 DEF At
  <1>8. CASE ResetReads
    <2>1. job'.at = "old guest"
      BY <1>0, <1>8 DEF ResetReads, JobTyped, PoolTasks
    <2> QED
      BY <2>1 DEF At
  <1>9. CASE Transfer
    <2>1. job'.at = "restore" \/ JobEnds
      BY <1>0, <1>9 DEF Transfer, JobTyped, PoolTasks
    <2> QED
      BY <1>2, <2>1 DEF At
  <1> QED
    BY <1>3, <1>4, <1>5, <1>6, <1>7, <1>8, <1>9 DEF TaskStep

\* What requests do to rows that are not theirs.
RequestStep ==
    \/ \E q \in Reqs :
         \/ \E i \in Insts, n \in Sizes : Ask(q, i, n)
         \/ Allocate(q) \/ Choose(q) \/ NoPort(q) \/ Insert(q) \/ Submit(q)
         \/ \E r \in Rows : AskDelete(q, r)
         \/ SubmitDelete(q)
    \/ \E i \in Insts, op \in {"build", "reset", "remove"} : Occupy(i, op)
    \/ UNCHANGED poolVars

LEMMA RequestsKeep ==
  ASSUME PoolTyped, RequestStep
  PROVE  /\ job' = job /\ rules' = rules
         /\ \A r \in Rows \ Fresh : /\ ExistsThen(r) => Exists(r) /\ Like(port', r)
                                    /\ Exists(r) /\ ~Unsubmitted(r) => ExistsThen(r)
  <1> DEFINE Keep == \A r \in Rows \ Fresh : /\ ExistsThen(r) => Exists(r) /\ Like(port', r)
                                             /\ Exists(r) /\ ~Unsubmitted(r) => ExistsThen(r)
  <1>1. job' = job /\ rules' = rules
    BY DEF RequestStep, poolVars, Ask, Allocate, Choose, NoPort, Insert, Submit, AskDelete, SubmitDelete, Occupy
  <1>2. port' = port => Keep
    BY DEF Exists, ExistsThen, Like
  <1>3. ASSUME NEW rs, NEW s \in {"active", "deleting"}, port' = Marked(rs, s) PROVE Keep
    BY <1>3, MarkedIs DEF Statuses, Exists, ExistsThen, Like
  <1>4. ASSUME NEW q \in Reqs, Submit(q) PROVE Keep
    <2>1. port' = port \/ port' = Dropped({req[q].row})
      BY <1>4 DEF Submit
    <2>2. Unsubmitted(req[q].row)
      BY <1>4 DEF Submit, Unsubmitted
    <2>3. port' = Dropped({req[q].row}) => \A r \in Rows : IF r = req[q].row THEN port'[r].status = "gone" ELSE port'[r] = port[r]
      BY DroppedIs
    <2> QED
      BY <1>2, <2>1, <2>2, <2>3 DEF Exists, ExistsThen, Like
  <1>5. ASSUME NEW q \in Reqs, Insert(q) PROVE Keep
    <2>1. CASE StillFree(q)
      <3>1. req'[q].row \in Fresh /\ NewRowAt(req'[q].row, req[q].inst, req[q].lo, req[q].n)
        BY <1>5, <2>1, RowInserted
      <3>2. \A r \in Rows \ Fresh : port'[r] = port[r]
        BY <3>1 DEF NewRowAt
      <3> QED
        BY <3>2 DEF Exists, ExistsThen, Like
    <2>2. CASE ~StillFree(q)
      BY <1>2, <1>5, <2>2 DEF Insert
    <2> QED
      BY <2>1, <2>2
  <1>6. ASSUME NEW q \in Reqs, (\E r \in Rows : AskDelete(q, r)) \/ SubmitDelete(q) PROVE Keep
    <2>1. port' = port \/ \E rs : port' = Marked(rs, "active") \/ port' = Marked(rs, "deleting")
      BY <1>6 DEF AskDelete, SubmitDelete
    <2> QED
      BY <1>2, <1>3, <2>1
  <1>7. CASE \/ \E q \in Reqs : (\E i \in Insts, n \in Sizes : Ask(q, i, n)) \/ Allocate(q) \/ Choose(q) \/ NoPort(q)
             \/ \E i \in Insts, op \in {"build", "reset", "remove"} : Occupy(i, op)
             \/ UNCHANGED poolVars
    BY <1>2, <1>7 DEF Ask, Allocate, Choose, NoPort, Occupy, poolVars
  <1>8. Keep
    BY <1>4, <1>5, <1>6, <1>7 DEF RequestStep
  <1> QED
    BY <1>1, <1>8, Zenon

BareThen(r) == \A h \in (port'[r].lo .. (port'[r].lo + port'[r].n - 1)) \cap PortRange : port'[r].inst \notin rules'[h]

LEMMA JobSoFarNext ==
  ASSUME PoolTyped, NamedIsMade, RowsInHand, JobSoFar, [PortPoolNext]_poolVars PROVE JobSoFar'
  <1>1. CASE RequestStep
    <2>1. job' = job /\ rules' = rules
      BY <1>1, RequestsKeep
    <2>2. \A r \in Rows \ Fresh : /\ ExistsThen(r) => Exists(r) /\ Like(port', r)
                                  /\ Exists(r) /\ ~Unsubmitted(r) => ExistsThen(r)
      BY <1>1, RequestsKeep
    <2>3. \A r \in Rows : r \notin Fresh => r \notin Fresh'
      BY RowsStep DEF Fresh
    <2>4. At("create", "apply") => job.row \in Rows /\ Exists(job.row) /\ ~Unsubmitted(job.row) /\ job.row \notin Fresh
      <3>1. ASSUME At("create", "apply") PROVE job.row \in Rows /\ Creating(job.row)
        BY <3>1, JobIs DEF At, JobTyped, PoolTasks, Creating
      <3> QED
        BY <3>1 DEF JobSoFar, RowsInHand, Unsubmitted
    <2>5. At("delete", "remove") \/ At("delete", "drop") => job.row \in Rows /\ job.row \notin Fresh
      <3>1. At("delete", "remove") \/ At("delete", "drop") => job.row \in Rows
        BY JobIs DEF At, JobTyped, PoolTasks
      <3> QED
        BY <3>1 DEF JobSoFar
    <2>6. ASSUME At("create", "apply") PROVE ExistsThen(job.row) /\ port'[job.row].inst = job.inst
      BY <2>2, <2>4, <2>6 DEF JobSoFar, Like
    <2>7. ASSUME At("delete", "remove") \/ At("delete", "drop")
          PROVE  job.row \notin Fresh' /\ (ExistsThen(job.row) => port'[job.row].inst = job.inst)
      BY <2>2, <2>3, <2>5, <2>7 DEF JobSoFar, Like
    <2>8. ASSUME At("delete", "drop"), ExistsThen(job.row)
          PROVE  BareThen(job.row)
      BY <2>1, <2>2, <2>5, <2>8 DEF JobSoFar, Like, Bare, BareThen, HostPorts
    <2> QED
      BY <2>1, <2>6, <2>7, <2>8 DEF JobSoFar, At, Exists, ExistsThen, Bare, BareThen, HostPorts
  <1>2. CASE Begin
    <2>1. job'.at = "begin"
      BY <1>2, OneLess DEF NamedIsMade
    <2> QED
      BY <2>1 DEF JobSoFar, At
  <1>3. CASE TaskStep
    <2>1. JobTyped /\ (job' = NoJob \/ (job'.inst = job.inst /\ job'.row = job.row))
      BY <1>3, TaskGoesOn DEF JobGoesOn
    <2>2. NoJob.at = "idle"
      BY DEF NoJob
    <2>3. ASSUME At("create", "apply")' PROVE ExistsThen(job'.row) /\ port'[job'.row].inst = job'.inst
      <3>1. Exists(job.row) /\ Owns /\ port' = port
        BY <1>3, <2>3, PlaceIs
      <3>2. job'.inst = job.inst /\ job'.row = job.row
        BY <2>1, <2>2, <2>3 DEF At
      <3> QED
        BY <3>1, <3>2 DEF Owns, Exists, ExistsThen
    <2>4. ASSUME At("delete", "remove")' PROVE job'.row \notin Fresh' /\ (ExistsThen(job'.row) => port'[job'.row].inst = job'.inst)
      <3>1. DeleteReads /\ Exists(job.row) /\ Owns
        BY <1>3, <2>4, PlaceIs
      <3>2. job'.inst = job.inst /\ job'.row = job.row /\ port' = port
        BY <2>1, <2>2, <2>4, <3>1 DEF At, DeleteReads
      <3> QED
        BY <3>1, <3>2 DEF Owns, Exists, ExistsThen, Fresh
    <2>5. ASSUME At("delete", "drop")'
          PROVE  /\ job'.row \notin Fresh' /\ (ExistsThen(job'.row) => port'[job'.row].inst = job'.inst)
                 /\ ExistsThen(job'.row) => BareThen(job'.row)
      <3>1. DeleteRemoves /\ job'.inst = job.inst /\ job'.row = job.row /\ port' = port
        BY <1>3, <2>1, <2>2, <2>5, PlaceIs DEF At, DeleteRemoves
      <3>2. job.row \notin Fresh /\ (Exists(job.row) => port[job.row].inst = job.inst)
        BY <3>1 DEF DeleteRemoves, JobSoFar
      <3>3. PICK k \in 0 .. port[job.row].n :
               rules' = WithoutRules(port[job.row].lo .. (port[job.row].lo + k - 1), job.inst) /\ Step(RowAfter(k = port[job.row].n))
        BY <3>1 DEF DeleteRemoves
      <3>4. k = port[job.row].n
        <4>1. k # port[job.row].n => job'.at = "keep"
          BY <2>1, <3>3 DEF Step, RowAfter, JobTyped, PoolTasks
        <4> QED
          BY <2>5, <4>1 DEF At
      <3>5. rules' = WithoutRules(HostPorts(job.row), job.inst) /\ job.inst \in Insts
        BY <2>1, <3>3, <3>4 DEF HostPorts, JobTyped, PoolTasks
      <3>6. \A h \in HostPorts(job.row) \cap PortRange : job.inst \notin rules'[h]
        BY <3>5, RulesAre
      <3> QED
        BY <3>1, <3>2, <3>6 DEF Exists, ExistsThen, Fresh, BareThen, HostPorts
    <2>6. ASSUME At("remove", "rows")' \/ At("reset", "transfer")' PROVE \A h \in PortRange : job'.inst \notin rules'[h]
      <3>1. job'.inst = job.inst /\ (RemoveGuest \/ ResetGuest)
        BY <1>3, <2>1, <2>2, <2>6, PlaceIs DEF At
      <3>2. rules' = [h \in PortRange |-> rules[h] \ {job.inst}]
        BY <2>1, <2>2, <2>6, <3>1 DEF RemoveGuest, ResetGuest, GuestGone, JobEnds, At
      <3> QED
        BY <3>1, <3>2
    <2> QED
      BY <2>3, <2>4, <2>5, <2>6 DEF JobSoFar, At, Exists, ExistsThen, Bare, BareThen, HostPorts
  <1> QED
    BY <1>1, <1>2, <1>3 DEF RequestStep, TaskStep, PortPoolNext

LEMMA RefusedGrows == ASSUME PoolTyped, [PortPoolNext]_poolVars PROVE refused \in Nat /\ refused' \in {refused, refused + 1}
  <1>1. refused' = refused \/ refused' = refused + 1
    BY DEF PortPoolNext, poolVars, Ask, Allocate, Choose, NoPort, Insert, Submit, AskDelete, SubmitDelete, Rejected, Occupy, Begin,
           CreateReads, CreateApplies, CreateMarks, DeleteReads, DeleteRemoves, DeleteMarks, RemoveGuest, RemoveRows,
           ResetReads, ResetGuest, Transfer, Restore, BuildReserves, BuildEnds
  <1> QED
    BY <1>1 DEF PoolTyped

LEMMA RulesInvInit == PortPoolInit => RulesInv
  <1> SUFFICES ASSUME PortPoolInit PROVE RulesInv
    OBVIOUS
  <1>1. \A i : ~Building(i)
    BY DEF PortPoolInit, Building, NoJob
  <1>2. SegmentsDisjoint
    BY DEF PortPoolInit, SegmentsDisjoint, Exists, NoRow
  <1>3. \A q \in Reqs : req[q].at = "idle"
    BY DEF PortPoolInit, NoReq
  <1>4. job = NoJob /\ queue = <<>> /\ job.at = "idle" /\ job.op = "none"
    BY DEF PortPoolInit, NoJob
  <1>5. \A h \in PortRange : rules[h] = {}
    BY DEF PortPoolInit
  <1>6. BuildsApart /\ NamedIsMade /\ RowsInHand
    BY <1>1, <1>3, <1>4 DEF BuildsApart, NamedIsMade, RowsInHand, Unsubmitted, Creating
  <1>7. RulesBacked /\ UnsubmittedBare /\ JobSoFar
    BY <1>3, <1>4, <1>5 DEF RulesBacked, UnsubmittedBare, Unsubmitted, JobSoFar, At
  <1> QED
    BY <1>2, <1>6, <1>7 DEF RulesInv

LEMMA RulesInvNext == ASSUME PoolTyped, PoolTyped', RulesInv, [PortPoolNext]_poolVars PROVE RulesInv'
  <1>1. SegmentsDisjoint' /\ BuildsApart' /\ NamedIsMade' /\ RowsInHand' /\ JobSoFar'
    BY ApartNext, BuildsApartNext, NamedIsMadeNext, RowsInHandNext, JobSoFarNext DEF RulesInv
  <1>2. ASSUME refused' <= 1 PROVE RulesBacked'
    BY <1>2, RefusedGrows, RulesBackedNext DEF RulesInv
  <1>3. UnsubmittedBare'
    <2>1. ASSUME refused' = 0, NEW r \in Rows, NEW q \in Reqs, req'[q].at = "inserted", req'[q].row = r, ExistsThen(r)
          PROVE  StillWaits(r)
      BY <2>1, RefusedGrows, UnsubmittedBareNext DEF RulesInv
    <2> QED
      BY <2>1 DEF UnsubmittedBare, Unsubmitted, Exists, ExistsThen, StillWaits
  <1> QED
    BY <1>1, <1>2, <1>3 DEF RulesInv

\* A rule on the node leads to the guest of a row that holds its port, while no task runs, for
\* any number of instances, rows, requests and tasks, as long as at most one submission was
\* refused: after failed removals, resets and late requests (port_mapping_tasks.go).  A second
\* refusal can take away a row whose rule a reset restored: its request drops the row without
\* looking at it again (admin_port_mapping.go).
THEOREM RulesHaveRowsAlways == PortPoolSpec => [](refused <= 1 => RulesHaveRows)
  <1>1. PoolTyped /\ PoolTyped' /\ RulesInv /\ [PortPoolNext]_poolVars => RulesInv'
    BY RulesInvNext
  <1>2. RulesInv => (refused <= 1 => RulesHaveRows)
    BY DEF RulesInv, RulesBacked, HasRow, RulesHaveRows
  <1> QED
    BY <1>1, <1>2, RulesInvInit, PoolTypedAlways, PTL DEF PortPoolSpec
=============================================================================
