---------------------------- MODULE ProviderPool ----------------------------
(***************************************************************************)
(* The worker pools of one provider (server/service/task/pool_manager.go and *)
(* worker_pool.go): pools are created for the provider's concurrency, opened, *)
(* resized, closed when idle, deleted with the provider and shut down, while *)
(* schedulers submit tasks to them and workers execute them.                 *)
(*                                                                          *)
(* What a task does and who else writes its row is TaskEngine's subject: here *)
(* a row is pending, processing, running or ended.  createMu and submitMu are *)
(* held within one action, except by who reads hasLocalWork (holder), because *)
(* its counters are loaded one after the other while workers go on.          *)
(***************************************************************************)
EXTENDS Naturals, Sequences, FiniteSets, SequencesExt

CONSTANTS
    Tasks,       \* tasks of the provider
    NoTask,      \* a model value
    Submitters,  \* goroutines that submit pending tasks
    MaxSize,     \* bound: the provider's concurrency is in 1..MaxSize
    PerWorker,   \* places in the queue per worker, 2 in the code
    MaxPool,     \* bound: pools made
    MaxResize,   \* bound: changes of the provider's concurrency
    MaxIdle,     \* bound: passes of the idle cleanup that find the pool unused
    MayDelete, MayStop,  \* may the provider be deleted, the service be shut down?
    SlowReads    \* can a whole task be executed between two loads of hasLocalWork?

ASSUME PoolAssumption ==
    /\ IsFiniteSet(Tasks) /\ NoTask \notin Tasks
    /\ IsFiniteSet(Submitters) /\ Submitters \cap {"nobody", "deleter", "idler", "idler again"} = {}
    /\ MaxSize \in Nat \ {0} /\ PerWorker \in Nat \ {0}
    /\ MaxPool \in Nat /\ MaxResize \in Nat /\ MaxIdle \in Nat
    /\ {MayDelete, MayStop, SlowReads} \subseteq BOOLEAN

Pools == 1..MaxPool
Slots == 1..MaxSize
NoPool == 0

VARIABLES
    status,     \* tasks.status
    marked,     \* TaskService.queuedTasks
    want,       \* the provider's row: its concurrency, 0 once it is deleted
    current,    \* ProviderPoolManager.pools
    made,       \* pools created so far
    size, chan, closed, retire, cancelled,      \* of a pool
    submitting, outstanding, owned, live,       \* its counters
    wpc, job,   \* place and task of a worker, by pool and slot
    helper,     \* the pool whose worker left a task to a goroutine of its own
    spc, task, conc, pool, busy,                \* of a submitter
    holder, saw,\* who reads hasLocalWork under the locks, and did it see a context
    ipc, ibusy, ipool,                          \* the idle cleanup
    shut,       \* the shutdown: no, cancelled, waiting, or done
    awaited,    \* the pool it collected and waits for
    resizes, idles

rows == <<status, marked>>
pools == <<current, made, size, closed, retire, cancelled>>
counters == <<submitting, outstanding, owned, live>>
workers == <<wpc, job, helper>>
submitters == <<spc, task, conc, pool, busy>>
reader == <<holder, saw>>
idler == <<ipc, ibusy, ipool>>
env == <<want, shut, awaited, resizes, idles>>
vars == <<rows, pools, chan, counters, workers, submitters, reader, idler, env>>

TypeOK ==
    /\ status \in [Tasks -> {"pending", "processing", "running", "ended"}]
    /\ marked \subseteq Tasks
    /\ want \in 0..MaxSize
    /\ current \in Pools \cup {NoPool} /\ made \in 0..MaxPool
    /\ size \in [Pools -> 0..MaxSize]
    /\ chan \in [Pools -> Seq(Tasks)]
    /\ closed \in [Pools -> BOOLEAN] /\ retire \in [Pools -> BOOLEAN]
    /\ cancelled \in [Pools -> BOOLEAN]
    /\ submitting \in [Pools -> Nat] /\ outstanding \in [Pools -> Nat]
    /\ owned \in [Pools -> Nat] /\ live \in [Pools -> Nat]
    /\ wpc \in [Pools \X Slots -> {"none", "idle", "start", "claim", "run", "leave", "left",
                                   "release", "drain"}]
    /\ job \in [Pools \X Slots -> Seq(Tasks)]
    /\ helper \in [Tasks -> Pools \cup {NoPool}]
    /\ spc \in [Submitters -> {"idle", "load", "create", "reopen", "query", "decide", "choose",
                               "reserve", "claim", "send", "back", "forget", "drop"}]
    /\ task \in [Submitters -> Tasks \cup {NoTask}] /\ conc \in [Submitters -> 0..MaxSize]
    /\ pool \in [Submitters -> Pools \cup {NoPool}] /\ busy \in [Submitters -> BOOLEAN]
    /\ holder \in Submitters \cup {"nobody", "deleter", "idler", "idler again"}
    /\ saw \in BOOLEAN
    /\ ipc \in {"off", "check", "lock"} /\ ibusy \in BOOLEAN /\ ipool \in Pools \cup {NoPool}
    /\ shut \in {"no", "cancelled", "waiting", "done"} /\ awaited \in Pools \cup {NoPool}
    /\ resizes \in 0..MaxResize /\ idles \in 0..MaxIdle

Init ==
    /\ status = [t \in Tasks |-> "pending"] /\ marked = {}
    /\ want = 1
    /\ current = NoPool /\ made = 0
    /\ size = [p \in Pools |-> 0] /\ chan = [p \in Pools |-> <<>>]
    /\ closed = [p \in Pools |-> FALSE] /\ retire = closed /\ cancelled = closed
    /\ submitting = size /\ outstanding = size /\ owned = size /\ live = size
    /\ wpc = [w \in Pools \X Slots |-> "none"] /\ job = [w \in Pools \X Slots |-> <<>>]
    /\ helper = [t \in Tasks |-> NoPool]
    /\ spc = [s \in Submitters |-> "idle"] /\ task = [s \in Submitters |-> NoTask]
    /\ conc = [s \in Submitters |-> 0] /\ pool = [s \in Submitters |-> NoPool]
    /\ busy = [s \in Submitters |-> FALSE]
    /\ holder = "nobody" /\ saw = FALSE
    /\ ipc = "off" /\ ibusy = FALSE /\ ipool = NoPool
    /\ shut = "no" /\ awaited = NoPool /\ resizes = 0 /\ idles = 0

-----------------------------------------------------------------------------
(* The locks and what is read under them.                                   *)

MgrFree == holder = "nobody"
\* Only the pool in the map is ever read by a holder.
SubmitFree(p) == holder = "nobody" \/ p # current

Cap(p) == PerWorker * size[p]

InFlight == {t \in Tasks : status[t] \in {"processing", "running"}}

\* Mutant: contexts that post-processing keeps are not counted.
LocalWorkNoContext(p, context) == outstanding[p] > 0 \/ chan[p] # <<>>

\* Mutant: a pool is busy as long as its workers wait for tasks.
LocalWorkLive(p, context) == context \/ outstanding[p] > 0 \/ chan[p] # <<>> \/ live[p] > 0

\* hasLocalWork, given what the load of ownedContexts saw.  activeCount is
\* positive only while outstanding is.
LocalWork(p, context) == context \/ outstanding[p] > 0 \/ chan[p] # <<>>

OwnsContext(p) == owned[p] > 0

Matching(p, n) == ~cancelled[p] /\ size[p] = n /\ ~retire[p]

Grab(who) == holder' = who /\ saw' = OwnsContext(current)
LetGo == holder' = "nobody" /\ saw' = FALSE

Made == made + 1

\* Mutant: the map is not read again under createMu.
VacantUnchecked == TRUE

Vacant == current = NoPool

\* createPoolLocked: after the service's context ended a pool is born cancelled.
CreatePool(n) ==
    /\ made' = Made /\ current' = Made
    /\ size' = [size EXCEPT ![Made] = n]
    /\ live' = [live EXCEPT ![Made] = n]
    /\ wpc' = [w \in Pools \X Slots |-> IF w[1] = Made /\ w[2] <= n THEN "idle" ELSE wpc[w]]

BornCancelled(c) == [c EXCEPT ![Made] = (shut # "no")]

-----------------------------------------------------------------------------
(* A submitter: StartTaskWithProvider, that is GetOrCreate and trySubmit.    *)

Step(s, place) == spc' = [spc EXCEPT ![s] = place]

\* The row and the provider were read earlier; both may be old when they are used.
Begin(s, t) ==
    /\ spc[s] = "idle" /\ status[t] = "pending" /\ want # 0 /\ shut = "no"
    /\ Step(s, "load")
    /\ task' = [task EXCEPT ![s] = t] /\ conc' = [conc EXCEPT ![s] = want]
    /\ UNCHANGED <<rows, pools, chan, counters, workers, pool, busy, reader, idler, env>>

Abandon(s) ==
    /\ Step(s, "idle")
    /\ task' = [task EXCEPT ![s] = NoTask] /\ conc' = [conc EXCEPT ![s] = 0]
    /\ pool' = [pool EXCEPT ![s] = NoPool] /\ busy' = [busy EXCEPT ![s] = FALSE]

Load(s) ==
    /\ spc[s] = "load" /\ SubmitFree(current)
    /\ \/ current = NoPool /\ Step(s, "create") /\ UNCHANGED <<pool, busy>>
       \/ /\ current # NoPool
          /\ pool' = [pool EXCEPT ![s] = current]
          /\ busy' = [busy EXCEPT ![s] = LocalWork(current, OwnsContext(current))]
          /\ Step(s, IF Matching(current, conc[s]) THEN "reopen" ELSE "query")
    /\ UNCHANGED <<rows, pools, chan, counters, workers, task, conc, reader, idler, env>>

Create(s) ==
    /\ spc[s] = "create" /\ MgrFree
    /\ \/ /\ shut \in {"waiting", "done"} /\ Abandon(s)
          /\ UNCHANGED <<pools, live, wpc>>
       \/ /\ shut \in {"no", "cancelled"} /\ current # NoPool
          /\ Step(s, "load") /\ UNCHANGED <<pools, live, wpc, task, conc, pool, busy>>
       \/ /\ shut \in {"no", "cancelled"} /\ Vacant /\ made < MaxPool
          /\ CreatePool(conc[s]) /\ cancelled' = BornCancelled(cancelled)
          /\ pool' = [pool EXCEPT ![s] = Made] /\ Step(s, "reserve")
          /\ UNCHANGED <<closed, retire, task, conc, busy>>
    /\ UNCHANGED <<rows, chan, submitting, outstanding, owned, job, helper, reader, idler, env>>

Reopen(s) == LET p == pool[s] IN
    /\ spc[s] = "reopen" /\ MgrFree
    /\ \/ /\ shut \in {"waiting", "done"} /\ Abandon(s) /\ UNCHANGED closed
       \/ /\ shut \in {"no", "cancelled"} /\ current = p /\ Matching(p, conc[s])
          /\ closed' = [closed EXCEPT ![p] = FALSE]
          /\ Step(s, "reserve") /\ UNCHANGED <<task, conc, pool, busy>>
       \/ /\ shut \in {"no", "cancelled"} /\ ~(current = p /\ Matching(p, conc[s]))
          /\ Step(s, "load") /\ UNCHANGED <<closed, task, conc, pool, busy>>
    /\ UNCHANGED <<rows, current, made, size, retire, cancelled, chan, counters, workers, reader, idler, env>>

\* The durable state is read without a lock, and only if the pool looked idle.
Query(s) ==
    /\ spc[s] = "query"
    /\ busy' = [busy EXCEPT ![s] = busy[s] \/ InFlight # {}]
    /\ Step(s, "decide")
    /\ UNCHANGED <<rows, pools, chan, counters, workers, task, conc, pool, reader, idler, env>>

Decide(s) ==
    /\ spc[s] = "decide" /\ MgrFree
    /\ \/ shut \in {"waiting", "done"} /\ Abandon(s) /\ UNCHANGED reader
       \/ /\ shut \in {"no", "cancelled"} /\ current # pool[s]
          /\ Step(s, "load") /\ UNCHANGED <<task, conc, pool, busy, reader>>
       \/ /\ shut \in {"no", "cancelled"} /\ current = pool[s]
          /\ made < MaxPool
          /\ Grab(s) /\ Step(s, "choose") /\ UNCHANGED <<task, conc, pool, busy>>
    /\ UNCHANGED <<rows, pools, chan, counters, workers, idler, env>>

Keep(p, shutIt) == closed' = [closed EXCEPT ![p] = shutIt] /\ UNCHANGED <<current, made, size, cancelled, live, wpc>>

\* A pool of another size is replaced once it is idle, and closed until then.
Choose(s) == LET p == pool[s] IN
    /\ spc[s] = "choose" /\ holder = s /\ LetGo
    /\ \/ retire[p] /\ Keep(p, TRUE) /\ UNCHANGED pool
       \/ /\ ~retire[p] /\ Matching(p, conc[s])
          /\ Keep(p, FALSE) /\ UNCHANGED pool
       \/ /\ ~retire[p] /\ ~Matching(p, conc[s])
          /\ LocalWork(p, saw) \/ busy[s]
          /\ Keep(p, TRUE) /\ UNCHANGED pool
       \/ /\ ~retire[p] /\ ~Matching(p, conc[s])
          /\ ~(LocalWork(p, saw) \/ busy[s])
          /\ closed' = [closed EXCEPT ![p] = TRUE]
          /\ CreatePool(conc[s])
          /\ cancelled' = BornCancelled([cancelled EXCEPT ![p] = TRUE])
          /\ pool' = [pool EXCEPT ![s] = Made]
    /\ Step(s, "reserve")
    /\ UNCHANGED <<rows, retire, chan, submitting, outstanding, owned, job, helper, task, conc, busy, idler, env>>

Open(p) == ~closed[p] /\ ~cancelled[p]

\* Mutant: places that are reserved but not yet taken are not counted.
RoomUnreserved(p) == Len(chan[p]) < Cap(p)

Room(p) == Len(chan[p]) + submitting[p] < Cap(p)

Reserve(s) == LET p == pool[s] IN
    /\ spc[s] = "reserve" /\ SubmitFree(p)
    /\ \/ /\ Open(p) /\ Room(p) /\ task[s] \notin marked
          /\ marked' = marked \cup {task[s]}
          /\ submitting' = [submitting EXCEPT ![p] = @ + 1]
          /\ outstanding' = [outstanding EXCEPT ![p] = @ + 1]
          /\ Step(s, "claim") /\ UNCHANGED <<task, conc, pool, busy>>
       \/ /\ ~(Open(p) /\ Room(p) /\ task[s] \notin marked)
          /\ Abandon(s) /\ UNCHANGED <<marked, submitting, outstanding>>
    /\ UNCHANGED <<status, pools, chan, owned, live, workers, reader, idler, env>>

\* The claim runs under the pool's context: once that ended its reply is an
\* error, whether or not it was written.
ClaimRow(s) == LET t == task[s] IN
    /\ spc[s] = "claim"
    /\ \/ /\ ~cancelled[pool[s]] /\ status[t] = "pending"
          /\ status' = [status EXCEPT ![t] = "processing"] /\ Step(s, "send")
       \/ /\ ~cancelled[pool[s]] /\ status[t] # "pending"
          /\ Step(s, "forget") /\ UNCHANGED status
       \/ /\ cancelled[pool[s]] /\ Step(s, "back")
          /\ \/ UNCHANGED status
             \/ status[t] = "pending" /\ status' = [status EXCEPT ![t] = "processing"]
    /\ UNCHANGED <<marked, pools, chan, counters, workers, task, conc, pool, busy, reader, idler, env>>

\* Mutant: the pool is not looked at again after the claim.
AcceptsUnchecked(p) == TRUE

Accepts(p) == Open(p)

Send(s) == LET p == pool[s] IN
    /\ spc[s] = "send" /\ SubmitFree(p)
    /\ \/ /\ Accepts(p) /\ Len(chan[p]) < Cap(p)
          /\ chan' = [chan EXCEPT ![p] = Append(@, task[s])]
          /\ submitting' = [submitting EXCEPT ![p] = @ - 1]
          /\ Abandon(s)
       \/ ~Accepts(p) /\ Step(s, "back") /\ UNCHANGED <<chan, submitting, task, conc, pool, busy>>
    /\ UNCHANGED <<rows, pools, outstanding, owned, live, workers, reader, idler, env>>

\* Mutant: a row that was claimed is not handed back.
GivenBackNever(ts) == status

GivenBack(ts) == [t \in Tasks |-> IF t \in ts /\ status[t] = "processing" THEN "pending" ELSE status[t]]

Back(s) ==
    /\ \/ spc[s] = "back" /\ status' = GivenBack({task[s]})
       \/ spc[s] = "forget" /\ UNCHANGED status
    /\ marked' = marked \ {task[s]}
    /\ Step(s, "drop")
    /\ UNCHANGED <<pools, chan, counters, workers, task, conc, pool, busy, reader, idler, env>>

Drop(s) == LET p == pool[s] IN
    /\ spc[s] = "drop" /\ SubmitFree(p)
    /\ outstanding' = [outstanding EXCEPT ![p] = @ - 1]
    /\ submitting' = [submitting EXCEPT ![p] = @ - 1]
    /\ Abandon(s)
    /\ UNCHANGED <<rows, pools, chan, owned, live, workers, reader, idler, env>>

-----------------------------------------------------------------------------
(* A worker w = <<pool, slot>>: worker and executeTask.                       *)

Move(w, place) == wpc' = [wpc EXCEPT ![w] = place]

\* Both branches of the select may be ready; the context is looked at after.
Receive(w) == LET p == w[1] IN
    /\ wpc[w] = "idle" /\ chan[p] # <<>>
    /\ chan' = [chan EXCEPT ![p] = Tail(@)]
    /\ job' = [job EXCEPT ![w] = <<Head(chan[p])>>]
    /\ Move(w, IF cancelled[p] THEN "release" ELSE "start")
    /\ UNCHANGED <<rows, pools, counters, helper, submitters, reader, idler, env>>

HasContext(t) ==
    \/ helper[t] # NoPool
    \/ \E v \in Pools \X Slots : wpc[v] \in {"claim", "run", "leave"} /\ job[v] = <<t>>

Register(w) == LET t == job[w][1] IN
    /\ wpc[w] = "start" /\ (SlowReads \/ MgrFree)
    /\ marked' = marked \ {t}
    /\ IF HasContext(t)
       THEN Move(w, "left") /\ UNCHANGED owned
       ELSE Move(w, "claim") /\ owned' = [owned EXCEPT ![w[1]] = @ + 1]
    /\ UNCHANGED <<status, pools, chan, submitting, outstanding, live, job, helper, submitters, reader, idler, env>>

Claim(w) == LET t == job[w][1] IN
    /\ wpc[w] = "claim"
    /\ \/ /\ ~cancelled[w[1]] /\ status[t] \in {"pending", "processing"}
          /\ status' = [status EXCEPT ![t] = "running"] /\ Move(w, "run")
       \/ /\ cancelled[w[1]] \/ status[t] \notin {"pending", "processing"}
          /\ status' = GivenBack({t}) /\ Move(w, "leave")
    /\ UNCHANGED <<marked, pools, chan, counters, job, helper, submitters, reader, idler, env>>

Ended(t) == status' = [status EXCEPT ![t] = "ended"]

LeftToHelper == "left"

\* A start or restart leaves its task, and the context, to a goroutine.
Execute(w) == LET t == job[w][1] IN
    /\ wpc[w] = "run"
    /\ \/ Ended(t) /\ Move(w, "leave") /\ UNCHANGED helper
       \/ helper' = [helper EXCEPT ![t] = w[1]] /\ Move(w, LeftToHelper) /\ UNCHANGED status
    /\ UNCHANGED <<marked, pools, chan, counters, job, submitters, reader, idler, env>>

DropContext(w) ==
    /\ wpc[w] = "leave"
    /\ owned' = [owned EXCEPT ![w[1]] = @ - 1]
    /\ Move(w, "left")
    /\ UNCHANGED <<rows, pools, chan, submitting, outstanding, live, job, helper, submitters, reader, idler, env>>

Leave(w) ==
    /\ wpc[w] = "left"
    /\ outstanding' = [outstanding EXCEPT ![w[1]] = @ - 1]
    /\ job' = [job EXCEPT ![w] = <<>>]
    /\ Move(w, "idle")
    /\ UNCHANGED <<rows, pools, chan, submitting, owned, live, helper, submitters, reader, idler, env>>

PostProcess(t) ==
    /\ helper[t] # NoPool
    /\ Ended(t)
    /\ owned' = [owned EXCEPT ![helper[t]] = @ - 1]
    /\ helper' = [helper EXCEPT ![t] = NoPool]
    /\ UNCHANGED <<marked, pools, chan, submitting, outstanding, live, wpc, job, submitters, reader, idler, env>>

\* releaseQueuedTasks, for a task received late and for a drained queue.
Returned(w) ==
    /\ status' = GivenBack(ToSet(job[w]))
    /\ marked' = marked \ ToSet(job[w])
    /\ outstanding' = [outstanding EXCEPT ![w[1]] = @ - Len(job[w])]
    /\ job' = [job EXCEPT ![w] = <<>>]

Release(w) ==
    /\ wpc[w] = "release" /\ Returned(w) /\ Move(w, "idle")
    /\ UNCHANGED <<pools, chan, submitting, owned, live, helper, submitters, reader, idler, env>>

\* Mutant: a worker that ends leaves the queue to the others.
DrainedNot(p) == <<>>

Drained(p) == chan[p]

Drain(w) == LET p == w[1] IN
    /\ wpc[w] = "idle" /\ cancelled[p] /\ SubmitFree(p)
    /\ closed' = [closed EXCEPT ![p] = TRUE]
    /\ job' = [job EXCEPT ![w] = Drained(p)]
    /\ chan' = [chan EXCEPT ![p] = SubSeq(@, Len(Drained(p)) + 1, Len(@))]
    /\ Move(w, "drain")
    /\ UNCHANGED <<rows, current, made, size, retire, cancelled, counters, helper, submitters, reader, idler, env>>

Exit(w) ==
    /\ wpc[w] = "drain" /\ Returned(w) /\ Move(w, "none")
    /\ live' = [live EXCEPT ![w[1]] = @ - 1]
    /\ UNCHANGED <<pools, chan, submitting, owned, helper, submitters, reader, idler, env>>

-----------------------------------------------------------------------------
(* What closes a pool: deletion of the provider, the idle cleanup, shutdown.  *)

\* deleteLocked, given what the load of ownedContexts saw.
RemovePool(p, context) ==
    /\ closed' = [closed EXCEPT ![p] = TRUE]
    /\ IF LocalWork(p, context)
       THEN retire' = [retire EXCEPT ![p] = TRUE] /\ UNCHANGED <<current, cancelled>>
       ELSE /\ current' = NoPool /\ cancelled' = [cancelled EXCEPT ![p] = TRUE]
            /\ UNCHANGED retire

DeleteProvider ==
    /\ MayDelete /\ want # 0 /\ want' = 0
    /\ UNCHANGED <<rows, pools, chan, counters, workers, submitters, reader, idler, shut, awaited, resizes, idles>>

DeleteLook ==
    /\ want = 0 /\ current # NoPool /\ MgrFree /\ Grab("deleter")
    /\ UNCHANGED <<rows, pools, chan, counters, workers, submitters, idler, env>>

Delete ==
    /\ holder = "deleter" /\ LetGo
    /\ RemovePool(current, saw)
    /\ UNCHANGED <<rows, made, size, chan, counters, workers, submitters, idler, env>>

\* One pass of cleanupIdleProviderPools reads the busy providers once, then
\* looks at the queue and the workers, then takes the locks.
IdleSnapshot ==
    /\ ipc = "off" /\ idles < MaxIdle /\ shut = "no"
    /\ idles' = idles + 1
    /\ ibusy' = (InFlight # {})
    /\ ipc' = "check" /\ UNCHANGED ipool
    /\ UNCHANGED <<rows, pools, chan, counters, workers, submitters, reader, want, shut, awaited, resizes>>

Working(p) == \E k \in Slots : wpc[<<p, k>>] \in {"start", "claim", "run", "leave"}

IdleOver == ipc' = "off" /\ ibusy' = FALSE /\ ipool' = NoPool

IdleCheck ==
    /\ ipc = "check"
    /\ \/ /\ current # NoPool /\ chan[current] = <<>> /\ ~Working(current)
          /\ ipool' = current /\ ipc' = "lock" /\ UNCHANGED ibusy
       \/ IdleOver
    /\ UNCHANGED <<rows, pools, chan, counters, workers, submitters, reader, env>>

IdleLook ==
    /\ ipc = "lock" /\ MgrFree
    /\ \/ current = ipool /\ Grab("idler") /\ UNCHANGED idler
       \/ current # ipool /\ IdleOver /\ UNCHANGED reader
    /\ UNCHANGED <<rows, pools, chan, counters, workers, submitters, env>>

\* The pool is closed, and deleteLocked loads the counters again.
IdleClose ==
    /\ holder = "idler"
    /\ \/ /\ LocalWork(ipool, saw) \/ ibusy
          /\ LetGo /\ IdleOver /\ UNCHANGED closed
       \/ /\ ~(LocalWork(ipool, saw) \/ ibusy)
          /\ closed' = [closed EXCEPT ![ipool] = TRUE]
          /\ Grab("idler again") /\ UNCHANGED idler
    /\ UNCHANGED <<rows, current, made, size, retire, cancelled, chan, counters, workers, submitters, env>>

IdleRemove ==
    /\ holder = "idler again" /\ LetGo /\ IdleOver
    /\ RemovePool(ipool, saw)
    /\ UNCHANGED <<rows, made, size, chan, counters, workers, submitters, env>>

Resize ==
    /\ resizes < MaxResize /\ resizes' = resizes + 1 /\ want # 0
    /\ want' \in (1..MaxSize) \ {want}
    /\ UNCHANGED <<rows, pools, chan, counters, workers, submitters, reader, idler, shut, awaited, idles>>

\* A request cancels a task that has not begun.
Withdraw(t) ==
    /\ status[t] \in {"pending", "processing"} /\ Ended(t)
    /\ UNCHANGED <<marked, pools, chan, counters, workers, submitters, reader, idler, env>>

\* Shutdown ends the service's context, from which every pool's is derived.
StopService ==
    /\ MayStop /\ shut = "no" /\ shut' = "cancelled"
    /\ cancelled' = [p \in Pools |-> cancelled[p] \/ p <= made]
    /\ UNCHANGED <<rows, current, made, size, closed, retire, chan, counters, workers, submitters,
                   reader, idler, want, awaited, resizes, idles>>

CancelAll ==
    /\ shut = "cancelled" /\ MgrFree /\ shut' = "waiting" /\ awaited' = current
    /\ closed' = IF current = NoPool THEN closed ELSE [closed EXCEPT ![current] = TRUE]
    /\ UNCHANGED <<rows, current, made, size, retire, cancelled, chan, counters, workers, submitters,
                   reader, idler, want, resizes, idles>>

\* Mutant: only the queue is waited for.
QuietQueue(p) == submitting[p] = 0 /\ chan[p] = <<>>

Quiet(p) == submitting[p] = 0 /\ live[p] = 0 /\ outstanding[p] = 0 /\ owned[p] = 0 /\ chan[p] = <<>>

\* CancelAllAndWait; the wait for the service's other goroutines follows.
Stopped ==
    /\ shut = "waiting" /\ (awaited # NoPool => Quiet(awaited))
    /\ \A t \in Tasks : helper[t] = NoPool
    /\ shut' = "done"
    /\ UNCHANGED <<rows, pools, chan, counters, workers, submitters, reader, idler, want, awaited, resizes, idles>>

-----------------------------------------------------------------------------

Submit(s) ==
    \/ Load(s) \/ Create(s) \/ Reopen(s) \/ Query(s) \/ Decide(s) \/ Choose(s)
    \/ Reserve(s) \/ ClaimRow(s) \/ Send(s) \/ Back(s) \/ Drop(s)

Work(w) ==
    \/ Receive(w) \/ Register(w) \/ Claim(w) \/ Execute(w) \/ DropContext(w) \/ Leave(w)
    \/ Release(w) \/ Drain(w) \/ Exit(w)

Closing == DeleteLook \/ Delete \/ IdleCheck \/ IdleLook \/ IdleClose \/ IdleRemove

Next ==
    \/ \E s \in Submitters : Submit(s) \/ \E t \in Tasks : Begin(s, t)
    \/ \E w \in Pools \X Slots : Work(w)
    \/ \E t \in Tasks : PostProcess(t) \/ Withdraw(t)
    \/ Closing \/ IdleSnapshot \/ DeleteProvider \/ Resize
    \/ StopService \/ CancelAll \/ Stopped

Spec == Init /\ [][Next]_vars

\* Every goroutine that can go on does, what was called returns, a mutex is not
\* kept from who waits for it (Go hands it over), and the scheduler comes back to
\* every row that is pending.
Fairness ==
    /\ \A s \in Submitters : SF_vars(Submit(s))
    /\ \A t \in Tasks : SF_vars(\E s \in Submitters : Begin(s, t)) /\ WF_vars(PostProcess(t))
    /\ \A p \in Pools : SF_vars(\E k \in Slots : Work(<<p, k>>))
    /\ WF_vars(Closing) /\ SF_vars(CancelAll) /\ WF_vars(Stopped)

FairSpec == Spec /\ Fairness

-----------------------------------------------------------------------------
(* Properties.                                                              *)

Reserving(s, p) == pool[s] = p /\ spc[s] \in {"claim", "send", "back", "forget", "drop"}

\* The tasks a pool has accepted and not yet given up.
Accepted(p) ==
    {task[s] : s \in {r \in Submitters : Reserving(r, p)}}
    \cup ToSet(chan[p])
    \cup UNION {ToSet(job[<<p, k>>]) : k \in Slots}
    \cup {t \in Tasks : helper[t] = p}

\* createMu: a pool that may still take tasks is the one in the map, so a
\* provider's workers never add up to more than its concurrency.
OneLivePool == \A p \in Pools : p <= made /\ ~cancelled[p] => p = current

\* The send in trySubmit is done under submitMu and must never wait for room.
SendNeverBlocks == \A p \in Pools : Len(chan[p]) + submitting[p] <= Cap(p)

\* "Reconfiguring must not cancel a destructive operation" (pool_manager.go):
\* before shutdown, no pool is cancelled under a task it has accepted, be it
\* reserved, queued, executed or left to post-processing.
CancelSparesWork == \A p \in Pools : cancelled[p] /\ shut = "no" => Accepted(p) = {}

\* What enters a queue is taken out of it: once the workers of a pool are gone
\* nothing is left in its channel, and nothing is sent to it any more.
NothingStranded == \A p \in Pools : live[p] = 0 => chan[p] = <<>>

\* A processing row is in somebody's hands, so that no lost reply, closed pool
\* or shutdown leaves it to the reaper (the database answering).
ProcessingIsHeld == \A t \in Tasks :
    status[t] = "processing" => \E p \in Pools : t \in Accepted(p)

\* When shutdown reports that all work has stopped, it has: no task is
\* executed, queued or post-processed, and nobody will add one.
StoppedIsQuiet == shut = "done" =>
    (\A p \in Pools : Accepted(p) = {}) /\ InFlight = {}

\* A pending task is taken or withdrawn, whatever resizes and idle passes do to
\* the pool, unless the provider is deleted or the service stops.
PendingIsTaken == \A t \in Tasks :
    status[t] = "pending" ~> (status[t] # "pending" \/ want = 0 \/ shut # "no")

\* Shutdown ends once the calls it cancelled have returned.
ShutdownEnds == shut # "no" ~> shut = "done"
=============================================================================
