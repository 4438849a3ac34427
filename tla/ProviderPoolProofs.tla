------------------------- MODULE ProviderPoolProofs -------------------------
(***************************************************************************)
(* Theorems about the worker pools of one provider, for any number of      *)
(* tasks, submitters, pools, resizes and idle passes and any sizes of pool *)
(* and queue.                                                              *)
(*                                                                         *)
(* The argument is that the counters count (Counts): submitting the        *)
(* goroutines that hold a place, outstanding these, the queue and what is  *)
(* in the workers' hands, owned the contexts, live the workers.  So what   *)
(* the locked passages read from counters is true of the goroutines.  On   *)
(* it rest: a pool that nobody may use any more has nothing (OthersIdle),  *)
(* a worker that ends has drained the queue (DrainedOnce), and a row that  *)
(* is processing or running has a holder (Right).                          *)
(***************************************************************************)
EXTENDS ProviderPool, Integers, FiniteSetTheorems, TLAPS

Workers == Pools \X Slots
Tagged == {"claim", "send", "back", "forget", "drop"}
InContext == {"claim", "run", "leave"}
AtTask == {"start", "claim", "run", "leave", "left", "release"}

\* The types, but for the counters' sign.
RowsTyped ==
    /\ status \in [Tasks -> {"pending", "processing", "running", "ended"}]
    /\ marked \subseteq Tasks
    /\ helper \in [Tasks -> Pools \cup {NoPool}]
PoolsTyped ==
    /\ current \in Pools \cup {NoPool} /\ made \in 0..MaxPool
    /\ size \in [Pools -> 0..MaxSize]
    /\ closed \in [Pools -> BOOLEAN] /\ retire \in [Pools -> BOOLEAN]
    /\ cancelled \in [Pools -> BOOLEAN]
    /\ chan \in [Pools -> Seq(Tasks)]
CountersTyped ==
    /\ submitting \in [Pools -> Int] /\ outstanding \in [Pools -> Int]
    /\ owned \in [Pools -> Int] /\ live \in [Pools -> Int]
WorkersTyped ==
    /\ wpc \in [Workers -> {"none", "idle", "start", "claim", "run", "leave", "left", "release", "drain"}]
    /\ job \in [Workers -> Seq(Tasks)]
SubmittersTyped ==
    /\ spc \in [Submitters -> {"idle", "load", "create", "reopen", "query", "decide", "choose",
                               "reserve", "claim", "send", "back", "forget", "drop"}]
    /\ task \in [Submitters -> Tasks \cup {NoTask}] /\ conc \in [Submitters -> 0..MaxSize]
    /\ pool \in [Submitters -> Pools \cup {NoPool}] /\ busy \in [Submitters -> BOOLEAN]
RestTyped ==
    /\ holder \in Submitters \cup {"nobody", "deleter", "idler", "idler again"}
    /\ saw \in BOOLEAN
    /\ ipc \in {"off", "check", "lock"} /\ ibusy \in BOOLEAN /\ ipool \in Pools \cup {NoPool}
    /\ shut \in {"no", "cancelled", "waiting", "done"} /\ awaited \in Pools \cup {NoPool}
    /\ want \in 0..MaxSize /\ resizes \in 0..MaxResize /\ idles \in 0..MaxIdle
Typed == RowsTyped /\ PoolsTyped /\ CountersTyped /\ WorkersTyped /\ SubmittersTyped /\ RestTyped

\* What its place says of a submitter, a worker and a pool.
SubmitterShape == \A s \in Submitters :
    /\ pool[s] <= made
    /\ spc[s] \notin {"idle", "load", "create"} => pool[s] # NoPool
    /\ spc[s] # "idle" => task[s] \in Tasks /\ conc[s] # 0
WorkerShape == \A w \in Workers :
    /\ wpc[w] \in {"none", "idle"} => job[w] = <<>>
    /\ wpc[w] \in AtTask => Len(job[w]) = 1
    /\ wpc[w] # "none" => w[1] <= made /\ w[2] <= size[w[1]]
PoolShape == current <= made /\ \A p \in Pools :
    /\ p <= made => size[p] # 0
    /\ p > made => chan[p] = <<>>
HelperShape == \A t \in Tasks : helper[t] <= made
Shape == SubmitterShape /\ WorkerShape /\ PoolShape /\ HelperShape /\ (ipc = "lock" => ipool # NoPool)

Locks ==
    /\ holder \in Submitters => spc[holder] = "choose" /\ pool[holder] = current /\ made < MaxPool
    /\ holder \in {"idler", "idler again"} => current = ipool /\ ipc = "lock"
    /\ holder # "nobody" => current # NoPool

\* What a holder did not see is not there, unless a task may be executed meanwhile.
SawRight == holder # "nobody" /\ ~saw /\ ~SlowReads => owned[current] = 0

Live ==
    /\ OneLivePool
    /\ shut = "no" /\ current # NoPool => ~cancelled[current]
    /\ shut # "no" => \A p \in Pools : p <= made => cancelled[p]

\* The counters are the sizes of what they count.
Tagging(p) == {s \in Submitters : Reserving(s, p)}
HandOf(j, p) == {x \in Slots \X Nat : x[2] \in 1..Len(j[<<p, x[1]>>])}
InHand(p) == HandOf(job, p)
Owning(p) == {k \in Slots : wpc[<<p, k>>] \in InContext}
Left(p) == {t \in Tasks : helper[t] = p}
Living(p) == {k \in Slots : wpc[<<p, k>>] # "none"}

SubmittingCount == \A p \in Pools : submitting[p] = Cardinality(Tagging(p))
OutstandingCount == \A p \in Pools :
    IsFiniteSet(InHand(p)) /\ outstanding[p] = submitting[p] + Len(chan[p]) + Cardinality(InHand(p))
OwnedCount == \A p \in Pools : owned[p] = Cardinality(Owning(p)) + Cardinality(Left(p))
LiveCount == \A p \in Pools : live[p] = Cardinality(Living(p))
Counts == SubmittingCount /\ OutstandingCount /\ OwnedCount /\ LiveCount

\* A task's context is registered once.
Contexts == \A w \in Workers : wpc[w] \in InContext =>
    /\ helper[job[w][1]] = NoPool
    /\ \A v \in Workers : wpc[v] \in InContext /\ job[v] = job[w] => v = w

\* Only the pool in the map, or the one the shutdown awaits, has tasks in its
\* workers' hands or on the way to them ...
Idle(p) ==
    /\ \A s \in Submitters : ~Reserving(s, p)
    /\ chan[p] = <<>>
    /\ \A k \in Slots : job[<<p, k>>] = <<>>
Keeper == IF shut \in {"waiting", "done"} THEN awaited ELSE current
OthersIdle ==
    /\ \A p \in Pools : p # Keeper => Idle(p)
    /\ shut = "done" => (\A p \in Pools : Idle(p)) /\ \A t \in Tasks : helper[t] = NoPool
\* ... and, when no task is executed between two loads, only it has tasks that are
\* post-processed.
OthersUnhelped == \A p \in Pools : p # Keeper => \A t \in Tasks : helper[t] # p

\* A worker that ends has drained the queue of a cancelled pool.
DrainedOnce == \A w \in Workers :
    wpc[w] = "drain" \/ (wpc[w] = "none" /\ w[1] <= made /\ w[2] <= size[w[1]]) => cancelled[w[1]] /\ chan[w[1]] = <<>>

\* Rows and who holds their tasks.
Claiming(t) == \E s \in Submitters : spc[s] \in {"send", "back"} /\ task[s] = t
Handling(t) == \E w \in Workers : wpc[w] \in {"claim", "release", "drain"} /\ t \in ToSet(job[w])
Queued(t) ==
    \/ \E p \in Pools : t \in ToSet(chan[p])
    \/ \E w \in Workers : wpc[w] = "start" /\ job[w] = <<t>>

-----------------------------------------------------------------------------
(* What each step changes.                                                 *)

\* Each step changes only some of the state.
LEMMA RowsKept ==
  ASSUME [Next]_vars
  PROVE  \/ UNCHANGED <<status, marked, helper>>
         \/ \E s \in Submitters : Reserve(s) \/ ClaimRow(s) \/ Back(s)
         \/ \E w \in Workers : Register(w) \/ Claim(w) \/ Execute(w) \/ Release(w) \/ Exit(w)
         \/ \E t \in Tasks : PostProcess(t) \/ Withdraw(t)
  BY DEF Next, vars, rows, workers, Submit, Work, Closing, Workers, Load, Create, Reopen, Query, Decide,
     Choose, Send, Drop, Begin,
         Receive, DropContext, Leave, Drain, DeleteLook, Delete, IdleCheck, IdleLook, IdleClose, IdleRemove, IdleSnapshot,
         DeleteProvider, Resize, StopService, CancelAll, Stopped

LEMMA PoolsKept ==
  ASSUME [Next]_vars
  PROVE  \/ UNCHANGED <<current, made, size, retire, cancelled>>
         \/ \E s \in Submitters : Create(s) \/ Choose(s)
         \/ Delete \/ IdleRemove \/ StopService
  <1>1. ASSUME NEW s \in Submitters, Submit(s) \/ \E t \in Tasks : Begin(s, t)
        PROVE  UNCHANGED <<current, made, size, retire, cancelled>> \/ Create(s) \/ Choose(s)
    BY <1>1 DEF pools, Submit, Load, Reopen, Query, Decide, Send, Drop, Begin, Reserve, ClaimRow, Back
  <1>2. ASSUME NEW w \in Workers, Work(w) PROVE UNCHANGED <<current, made, size, retire, cancelled>>
    BY <1>2 DEF pools, Work, Receive, Register, Claim, Execute, DropContext, Leave, Release, Drain, Exit
  <1>3. CASE \/ \E t \in Tasks : PostProcess(t) \/ Withdraw(t)
             \/ Closing \/ IdleSnapshot \/ DeleteProvider \/ Resize \/ CancelAll \/ Stopped
             \/ UNCHANGED vars
    BY <1>3 DEF pools, vars, PostProcess, Withdraw, Closing, DeleteLook, IdleCheck, IdleLook, IdleClose,
       IdleSnapshot,
         DeleteProvider, Resize, CancelAll, Stopped
  <1> QED
    BY <1>1, <1>2, <1>3 DEF Next, Workers

LEMMA ChanKept ==
  ASSUME [Next]_vars
  PROVE  \/ chan' = chan
         \/ \E s \in Submitters : Send(s)
         \/ \E w \in Workers : Receive(w) \/ Drain(w)
  BY DEF Next, vars, Submit, Work, Closing, Workers, Load, Create, Choose, Reopen, Query, Decide, Drop,
     Begin, Reserve, ClaimRow, Back,
         Register, Claim, Execute, DropContext, Leave, Release, Exit, PostProcess, Withdraw,
         DeleteLook, Delete, IdleCheck, IdleLook, IdleClose, IdleRemove, IdleSnapshot,
         DeleteProvider, Resize, StopService, CancelAll, Stopped

LEMMA WorkersKept ==
  ASSUME [Next]_vars
  PROVE  \/ UNCHANGED <<wpc, job>>
         \/ \E s \in Submitters : Create(s) \/ Choose(s)
         \/ \E w \in Workers : Work(w)
  <1>1. ASSUME NEW s \in Submitters, Submit(s) \/ \E t \in Tasks : Begin(s, t)
        PROVE  UNCHANGED <<wpc, job>> \/ Create(s) \/ Choose(s)
    BY <1>1 DEF rows, pools, counters, workers, submitters, reader, idler, env, Submit, Load, Reopen,
       Query, Decide, Reserve, ClaimRow, Send, Back, Drop, Begin
  <1>3. CASE \/ (\E t \in Tasks : PostProcess(t) \/ Withdraw(t)) \/ DeleteLook \/ Delete \/ IdleCheck
             \/ IdleLook \/ IdleClose \/ IdleRemove \/ IdleSnapshot \/ DeleteProvider \/ Resize
             \/ StopService \/ CancelAll \/ Stopped \/ UNCHANGED vars
    BY <1>3 DEF rows, pools, counters, workers, submitters, reader, idler, env, vars, DeleteLook,
       Delete, IdleCheck, IdleLook, IdleClose, IdleRemove, PostProcess, Withdraw, IdleSnapshot,
       DeleteProvider, Resize, StopService, CancelAll, Stopped
  <1> QED
    BY <1>1, <1>3 DEF Next, Workers, Closing

LEMMA SubmittersKept ==
  ASSUME [Next]_vars
  PROVE  \/ UNCHANGED <<spc, task, conc, pool, busy>>
         \/ \E s \in Submitters : Submit(s) \/ \E t \in Tasks : Begin(s, t)
  <1>1. ASSUME NEW w \in Workers, Work(w) PROVE UNCHANGED <<spc, task, conc, pool, busy>>
    BY <1>1 DEF rows, pools, counters, workers, submitters, reader, idler, env, Work, Receive, Register,
       Claim, Execute, DropContext, Leave, Release, Drain, Exit
  <1>2. CASE \/ (\E t \in Tasks : PostProcess(t) \/ Withdraw(t)) \/ DeleteLook \/ Delete \/ IdleCheck
             \/ IdleLook \/ IdleClose \/ IdleRemove \/ IdleSnapshot \/ DeleteProvider \/ Resize
             \/ StopService \/ CancelAll \/ Stopped \/ UNCHANGED vars
    BY <1>2 DEF rows, pools, counters, workers, submitters, reader, idler, env, vars, DeleteLook,
       Delete, IdleCheck, IdleLook, IdleClose, IdleRemove, PostProcess, Withdraw, IdleSnapshot,
       DeleteProvider, Resize, StopService, CancelAll, Stopped
  <1> QED
    BY <1>1, <1>2 DEF Next, Workers, Closing

LEMMA SubmittingKept ==
  ASSUME [Next]_vars
  PROVE  \/ UNCHANGED <<submitting>>
         \/ \E s \in Submitters : Reserve(s) \/ Send(s) \/ Drop(s)
  <1>1. ASSUME NEW s \in Submitters, Submit(s) \/ \E t \in Tasks : Begin(s, t)
        PROVE  UNCHANGED <<submitting>> \/ Reserve(s) \/ Send(s) \/ Drop(s)
    BY <1>1 DEF rows, pools, counters, workers, submitters, reader, idler, env, Submit, Load, Create,
       Reopen, Query, Decide, Choose, ClaimRow, Back, Begin
  <1>2. ASSUME NEW w \in Workers, Work(w) PROVE UNCHANGED <<submitting>>
    BY <1>2 DEF rows, pools, counters, workers, submitters, reader, idler, env, Work, Receive, Register,
       Claim, Execute, DropContext, Leave, Release, Drain, Exit
  <1>3. CASE \/ (\E t \in Tasks : PostProcess(t) \/ Withdraw(t)) \/ DeleteLook \/ Delete \/ IdleCheck
             \/ IdleLook \/ IdleClose \/ IdleRemove \/ IdleSnapshot \/ DeleteProvider \/ Resize
             \/ StopService \/ CancelAll \/ Stopped \/ UNCHANGED vars
    BY <1>3 DEF rows, pools, counters, workers, submitters, reader, idler, env, vars, DeleteLook,
       Delete, IdleCheck, IdleLook, IdleClose, IdleRemove, PostProcess, Withdraw, IdleSnapshot,
       DeleteProvider, Resize, StopService, CancelAll, Stopped
  <1> QED
    BY <1>1, <1>2, <1>3 DEF Next, Workers, Closing

LEMMA OutstandingKept ==
  ASSUME [Next]_vars
  PROVE  \/ UNCHANGED <<outstanding>>
         \/ \E s \in Submitters : Reserve(s) \/ Drop(s)
         \/ \E w \in Workers : Leave(w) \/ Release(w) \/ Exit(w)
  <1>1. ASSUME NEW s \in Submitters, Submit(s) \/ \E t \in Tasks : Begin(s, t)
        PROVE  UNCHANGED <<outstanding>> \/ Reserve(s) \/ Drop(s)
    BY <1>1 DEF rows, pools, counters, workers, submitters, reader, idler, env, Submit, Load, Create,
       Reopen, Query, Decide, Choose, ClaimRow, Send, Back, Begin
  <1>2. ASSUME NEW w \in Workers, Work(w)
        PROVE  UNCHANGED <<outstanding>> \/ Leave(w) \/ Release(w) \/ Exit(w)
    BY <1>2 DEF rows, pools, counters, workers, submitters, reader, idler, env, Work, Receive, Register,
       Claim, Execute, DropContext, Drain
  <1>3. CASE \/ (\E t \in Tasks : PostProcess(t) \/ Withdraw(t)) \/ DeleteLook \/ Delete \/ IdleCheck
             \/ IdleLook \/ IdleClose \/ IdleRemove \/ IdleSnapshot \/ DeleteProvider \/ Resize
             \/ StopService \/ CancelAll \/ Stopped \/ UNCHANGED vars
    BY <1>3 DEF rows, pools, counters, workers, submitters, reader, idler, env, vars, DeleteLook,
       Delete, IdleCheck, IdleLook, IdleClose, IdleRemove, PostProcess, Withdraw, IdleSnapshot,
       DeleteProvider, Resize, StopService, CancelAll, Stopped
  <1> QED
    BY <1>1, <1>2, <1>3 DEF Next, Workers, Closing

LEMMA OwnedKept ==
  ASSUME [Next]_vars
  PROVE  \/ UNCHANGED <<owned>>
         \/ \E w \in Workers : Register(w) \/ DropContext(w)
         \/ \E t \in Tasks : PostProcess(t)
  <1>1. ASSUME NEW s \in Submitters, Submit(s) \/ \E t \in Tasks : Begin(s, t)
        PROVE  UNCHANGED <<owned>>
    BY <1>1 DEF rows, pools, counters, workers, submitters, reader, idler, env, Submit, Load, Create,
       Reopen, Query, Decide, Choose, Reserve, ClaimRow, Send, Back, Drop, Begin
  <1>2. ASSUME NEW w \in Workers, Work(w) PROVE UNCHANGED <<owned>> \/ Register(w) \/ DropContext(w)
    BY <1>2 DEF rows, pools, counters, workers, submitters, reader, idler, env, Work, Receive, Claim,
       Execute, Leave, Release, Drain, Exit
  <1>3. CASE \/ (\E t \in Tasks : Withdraw(t)) \/ DeleteLook \/ Delete \/ IdleCheck \/ IdleLook
             \/ IdleClose \/ IdleRemove \/ IdleSnapshot \/ DeleteProvider \/ Resize \/ StopService
             \/ CancelAll \/ Stopped \/ UNCHANGED vars
    BY <1>3 DEF rows, pools, counters, workers, submitters, reader, idler, env, vars, DeleteLook,
       Delete, IdleCheck, IdleLook, IdleClose, IdleRemove, Withdraw, IdleSnapshot, DeleteProvider,
       Resize, StopService, CancelAll, Stopped
  <1> QED
    BY <1>1, <1>2, <1>3 DEF Next, Workers, Closing

LEMMA LivingKept ==
  ASSUME [Next]_vars
  PROVE  \/ UNCHANGED <<live>>
         \/ \E s \in Submitters : Create(s) \/ Choose(s)
         \/ \E w \in Workers : Exit(w)
  <1>1. ASSUME NEW s \in Submitters, Submit(s) \/ \E t \in Tasks : Begin(s, t)
        PROVE  UNCHANGED <<live>> \/ Create(s) \/ Choose(s)
    BY <1>1 DEF rows, pools, counters, workers, submitters, reader, idler, env, Submit, Load, Reopen,
       Query, Decide, Reserve, ClaimRow, Send, Back, Drop, Begin
  <1>2. ASSUME NEW w \in Workers, Work(w) PROVE UNCHANGED <<live>> \/ Exit(w)
    BY <1>2 DEF rows, pools, counters, workers, submitters, reader, idler, env, Work, Receive, Register,
       Claim, Execute, DropContext, Leave, Release, Drain
  <1>3. CASE \/ (\E t \in Tasks : PostProcess(t) \/ Withdraw(t)) \/ DeleteLook \/ Delete \/ IdleCheck
             \/ IdleLook \/ IdleClose \/ IdleRemove \/ IdleSnapshot \/ DeleteProvider \/ Resize
             \/ StopService \/ CancelAll \/ Stopped \/ UNCHANGED vars
    BY <1>3 DEF rows, pools, counters, workers, submitters, reader, idler, env, vars, DeleteLook,
       Delete, IdleCheck, IdleLook, IdleClose, IdleRemove, PostProcess, Withdraw, IdleSnapshot,
       DeleteProvider, Resize, StopService, CancelAll, Stopped
  <1> QED
    BY <1>1, <1>2, <1>3 DEF Next, Workers, Closing

LEMMA ReaderKept ==
  ASSUME [Next]_vars
  PROVE  \/ UNCHANGED <<holder, saw>>
         \/ \E s \in Submitters : Decide(s) \/ Choose(s)
         \/ DeleteLook \/ Delete \/ IdleLook \/ IdleClose \/ IdleRemove
  <1>1. ASSUME NEW s \in Submitters, Submit(s) \/ \E t \in Tasks : Begin(s, t)
        PROVE  UNCHANGED <<holder, saw>> \/ Decide(s) \/ Choose(s)
    BY <1>1 DEF rows, pools, counters, workers, submitters, reader, idler, env, Submit, Load, Create,
       Reopen, Query, Reserve, ClaimRow, Send, Back, Drop, Begin
  <1>2. ASSUME NEW w \in Workers, Work(w) PROVE UNCHANGED <<holder, saw>>
    BY <1>2 DEF rows, pools, counters, workers, submitters, reader, idler, env, Work, Receive, Register,
       Claim, Execute, DropContext, Leave, Release, Drain, Exit
  <1>3. CASE \/ (\E t \in Tasks : PostProcess(t) \/ Withdraw(t)) \/ IdleCheck \/ IdleSnapshot
             \/ DeleteProvider \/ Resize \/ StopService \/ CancelAll \/ Stopped \/ UNCHANGED vars
    BY <1>3 DEF rows, pools, counters, workers, submitters, reader, idler, env, vars, IdleCheck,
       PostProcess, Withdraw, IdleSnapshot, DeleteProvider, Resize, StopService, CancelAll, Stopped
  <1> QED
    BY <1>1, <1>2, <1>3 DEF Next, Workers, Closing

LEMMA IdlerKept ==
  ASSUME [Next]_vars
  PROVE  \/ UNCHANGED <<ipc, ibusy, ipool>>
         \/ IdleSnapshot \/ IdleCheck \/ IdleLook \/ IdleClose \/ IdleRemove
  <1>1. ASSUME NEW s \in Submitters, Submit(s) \/ \E t \in Tasks : Begin(s, t)
        PROVE  UNCHANGED <<ipc, ibusy, ipool>>
    BY <1>1 DEF rows, pools, counters, workers, submitters, reader, idler, env, Submit, Load, Create,
       Reopen, Query, Decide, Choose, Reserve, ClaimRow, Send, Back, Drop, Begin
  <1>2. ASSUME NEW w \in Workers, Work(w) PROVE UNCHANGED <<ipc, ibusy, ipool>>
    BY <1>2 DEF rows, pools, counters, workers, submitters, reader, idler, env, Work, Receive, Register,
       Claim, Execute, DropContext, Leave, Release, Drain, Exit
  <1>3. CASE \/ (\E t \in Tasks : PostProcess(t) \/ Withdraw(t)) \/ DeleteLook \/ Delete
             \/ DeleteProvider \/ Resize \/ StopService \/ CancelAll \/ Stopped \/ UNCHANGED vars
    BY <1>3 DEF rows, pools, counters, workers, submitters, reader, idler, env, vars, DeleteLook,
       Delete, PostProcess, Withdraw, DeleteProvider, Resize, StopService, CancelAll, Stopped
  <1> QED
    BY <1>1, <1>2, <1>3 DEF Next, Workers, Closing

LEMMA ShutKept ==
  ASSUME [Next]_vars
  PROVE  \/ UNCHANGED <<shut, awaited>>
         \/ StopService \/ CancelAll \/ Stopped
  <1>1. ASSUME NEW s \in Submitters, Submit(s) \/ \E t \in Tasks : Begin(s, t)
        PROVE  UNCHANGED <<shut, awaited>>
    BY <1>1 DEF rows, pools, counters, workers, submitters, reader, idler, env, Submit, Load, Create,
       Reopen, Query, Decide, Choose, Reserve, ClaimRow, Send, Back, Drop, Begin
  <1>2. ASSUME NEW w \in Workers, Work(w) PROVE UNCHANGED <<shut, awaited>>
    BY <1>2 DEF rows, pools, counters, workers, submitters, reader, idler, env, Work, Receive, Register,
       Claim, Execute, DropContext, Leave, Release, Drain, Exit
  <1>3. CASE \/ (\E t \in Tasks : PostProcess(t) \/ Withdraw(t)) \/ DeleteLook \/ Delete \/ IdleCheck
             \/ IdleLook \/ IdleClose \/ IdleRemove \/ IdleSnapshot \/ DeleteProvider \/ Resize
             \/ UNCHANGED vars
    BY <1>3 DEF rows, pools, counters, workers, submitters, reader, idler, env, vars, DeleteLook,
       Delete, IdleCheck, IdleLook, IdleClose, IdleRemove, PostProcess, Withdraw, IdleSnapshot,
       DeleteProvider, Resize
  <1> QED
    BY <1>1, <1>2, <1>3 DEF Next, Workers, Closing

LEMMA ClosedKept ==
  ASSUME [Next]_vars
  PROVE  \/ UNCHANGED <<closed>>
         \/ \E s \in Submitters : Reopen(s) \/ Choose(s)
         \/ \E w \in Workers : Drain(w)
         \/ Delete \/ IdleClose \/ IdleRemove \/ CancelAll
  <1>1. ASSUME NEW s \in Submitters, Submit(s) \/ \E t \in Tasks : Begin(s, t)
        PROVE  UNCHANGED <<closed>> \/ Reopen(s) \/ Choose(s)
    BY <1>1 DEF rows, pools, counters, workers, submitters, reader, idler, env, Submit, Load, Create,
       Query, Decide, Reserve, ClaimRow, Send, Back, Drop, Begin
  <1>2. ASSUME NEW w \in Workers, Work(w) PROVE UNCHANGED <<closed>> \/ Drain(w)
    BY <1>2 DEF rows, pools, counters, workers, submitters, reader, idler, env, Work, Receive, Register,
       Claim, Execute, DropContext, Leave, Release, Exit
  <1>3. CASE \/ (\E t \in Tasks : PostProcess(t) \/ Withdraw(t)) \/ DeleteLook \/ IdleCheck \/ IdleLook
             \/ IdleSnapshot \/ DeleteProvider \/ Resize \/ StopService \/ Stopped \/ UNCHANGED vars
    BY <1>3 DEF rows, pools, counters, workers, submitters, reader, idler, env, vars, DeleteLook,
       IdleCheck, IdleLook, PostProcess, Withdraw, IdleSnapshot, DeleteProvider, Resize, StopService,
       Stopped
  <1> QED
    BY <1>1, <1>2, <1>3 DEF Next, Workers, Closing

LEMMA EnvKept ==
  ASSUME [Next]_vars
  PROVE  \/ UNCHANGED <<want, resizes, idles>>
         \/ IdleSnapshot \/ DeleteProvider \/ Resize
  <1>1. ASSUME NEW s \in Submitters, Submit(s) \/ \E t \in Tasks : Begin(s, t)
        PROVE  UNCHANGED <<want, resizes, idles>>
    BY <1>1 DEF rows, pools, counters, workers, submitters, reader, idler, env, Submit, Load, Create,
       Reopen, Query, Decide, Choose, Reserve, ClaimRow, Send, Back, Drop, Begin
  <1>2. ASSUME NEW w \in Workers, Work(w) PROVE UNCHANGED <<want, resizes, idles>>
    BY <1>2 DEF rows, pools, counters, workers, submitters, reader, idler, env, Work, Receive, Register,
       Claim, Execute, DropContext, Leave, Release, Drain, Exit
  <1>3. CASE \/ (\E t \in Tasks : PostProcess(t) \/ Withdraw(t)) \/ DeleteLook \/ Delete \/ IdleCheck
             \/ IdleLook \/ IdleClose \/ IdleRemove \/ StopService \/ CancelAll \/ Stopped
             \/ UNCHANGED vars
    BY <1>3 DEF rows, pools, counters, workers, submitters, reader, idler, env, vars, DeleteLook,
       Delete, IdleCheck, IdleLook, IdleClose, IdleRemove, PostProcess, Withdraw, StopService,
       CancelAll, Stopped
  <1> QED
    BY <1>1, <1>2, <1>3 DEF Next, Workers, Closing

-----------------------------------------------------------------------------
(* Types.                                                                  *)

\* What is assumed of the constants.
LEMMA SetsAssumed ==
  /\ IsFiniteSet(Tasks) /\ NoTask \notin Tasks /\ IsFiniteSet(Submitters)
  /\ "nobody" \notin Submitters /\ "deleter" \notin Submitters
  /\ "idler" \notin Submitters /\ "idler again" \notin Submitters
  BY PoolAssumption, Zenon
LEMMA Assumed ==
  /\ MaxSize \in Nat /\ MaxSize > 0 /\ PerWorker \in Nat /\ PerWorker > 0
  /\ MaxPool \in Nat /\ MaxResize \in Nat /\ MaxIdle \in Nat
  <1>1. /\ MaxSize \in Nat \ {0} /\ PerWorker \in Nat \ {0} /\ MaxPool \in Nat /\ MaxResize \in Nat
        /\ MaxIdle \in Nat
    BY PoolAssumption, Zenon
  <1> QED BY <1>1

LEMMA InitTyped == ASSUME Init PROVE Typed
  <1>a. MaxSize \in Nat /\ MaxPool \in Nat /\ MaxResize \in Nat /\ MaxIdle \in Nat /\ 1 \in 0..MaxSize
    BY Assumed
  <1>1. RowsTyped BY DEF Init, RowsTyped
  <1>2. PoolsTyped
    <2>1. 0 \in 0..MaxSize /\ 0 \in 0..MaxPool BY <1>a
    <2>2. current = NoPool /\ made = 0 /\ size = [p \in Pools |-> 0] /\ chan = [p \in Pools |-> <<>>]
          /\ closed = [p \in Pools |-> FALSE] /\ retire = closed /\ cancelled = closed BY DEF Init
    <2> QED BY <2>1, <2>2 DEF PoolsTyped
  <1>3. CountersTyped BY DEF Init, CountersTyped
  <1>4. WorkersTyped BY DEF Init, WorkersTyped, Workers
  <1>5. SubmittersTyped
    <2>1. 0 \in 0..MaxSize BY <1>a
    <2> QED BY <2>1 DEF Init, SubmittersTyped
  <1>6. RestTyped
    <2>1. want = 1 /\ holder = "nobody" /\ saw = FALSE /\ ipc = "off" /\ ibusy = FALSE /\ ipool = NoPool
          /\ shut = "no" /\ awaited = NoPool /\ resizes = 0 /\ idles = 0 BY DEF Init
    <2>2. want \in 0..MaxSize /\ resizes \in 0..MaxResize /\ idles \in 0..MaxIdle BY <1>a, <2>1
    <2>3. holder \in Submitters \cup {"nobody", "deleter", "idler", "idler again"} BY <2>1, Zenon
    <2>4. /\ saw \in BOOLEAN /\ ipc \in {"off", "check", "lock"} /\ ibusy \in BOOLEAN
          /\ ipool \in Pools \cup {NoPool}
          /\ shut \in {"no", "cancelled", "waiting", "done"} /\ awaited \in Pools \cup {NoPool} BY <2>1
    <2> QED BY <2>2, <2>3, <2>4 DEF RestTyped
  <1> QED BY <1>1, <1>2, <1>3, <1>4, <1>5, <1>6 DEF Typed

LEMMA InitShape == ASSUME Init PROVE Shape
  <1>1. /\ current = 0 /\ made = 0 /\ spc = [s \in Submitters |-> "idle"]
        /\ pool = [s \in Submitters |-> 0]
        /\ wpc = [w \in Workers |-> "none"] /\ job = [w \in Workers |-> <<>>]
        /\ chan = [p \in Pools |-> <<>>] /\ helper = [t \in Tasks |-> 0] /\ ipc = "off"
    BY DEF Init, NoPool, Workers
  <1>2. \A p \in Pools : p \in Nat /\ p > 0 BY Assumed DEF Pools
  <1> QED BY <1>1, <1>2 DEF Shape, SubmitterShape, WorkerShape, PoolShape, HelperShape, AtTask

LEMMA InitLocks == ASSUME Init PROVE Locks
  <1>1. holder = "nobody" BY DEF Init
  <1> QED BY <1>1, SetsAssumed, Zenon DEF Locks

LEMMA InitLive == ASSUME Init PROVE Live
  <1>1. made = 0 /\ shut = "no" /\ current = NoPool BY DEF Init
  <1>2. \A p \in Pools : p \in Nat /\ p > 0 BY Assumed DEF Pools
  <1> QED BY <1>1, <1>2 DEF Live, OneLivePool

\* What the place of a worker says of its task.
LEMMA JobTask ==
  ASSUME Typed, Shape, NEW w \in Workers, wpc[w] \in AtTask
  PROVE  /\ job[w] = <<job[w][1]>> /\ job[w][1] \in Tasks /\ Len(job[w]) = 1
         /\ job[w] # <<>> /\ w[1] \in Pools /\ w[2] \in Slots
         /\ w[1] <= made /\ w[2] <= size[w[1]]
  <1>1. job[w] \in Seq(Tasks) BY DEF Typed, WorkersTyped
  <1>2. Len(job[w]) = 1 BY DEF Shape, WorkerShape
  <1>3. w[1] \in Pools /\ w[2] \in Slots BY DEF Workers
  <1>4. w[1] <= made /\ w[2] <= size[w[1]] BY DEF Shape, WorkerShape, AtTask
  <1>5. job[w] = <<job[w][1]>> /\ job[w][1] \in Tasks BY <1>1, <1>2
  <1> QED BY <1>2, <1>3, <1>4, <1>5

LEMMA SubmitterTask ==
  ASSUME Typed, Shape, NEW s \in Submitters, spc[s] \notin {"idle", "load", "create"}
  PROVE  /\ task[s] \in Tasks /\ pool[s] \in Pools /\ pool[s] <= made
         /\ conc[s] \in Slots /\ pool[s] # NoPool
  <1>1. task[s] \in Tasks /\ conc[s] # 0 /\ pool[s] # NoPool /\ pool[s] <= made
    BY DEF Shape, SubmitterShape
  <1> QED BY <1>1, Assumed DEF Typed, SubmittersTyped, Slots

\* What one submitter does leaves the others where they are.
LEMMA OthersStay ==
  ASSUME Typed, NEW s \in Submitters, Submit(s) \/ (\E t \in Tasks : Begin(s, t)),
         NEW r \in Submitters \ {s}
  PROVE  spc'[r] = spc[r] /\ task'[r] = task[r] /\ conc'[r] = conc[r] /\ pool'[r] = pool[r]
  <1> USE DEF Typed, SubmittersTyped
  <1>1. CASE \E t \in Tasks : Begin(s, t) BY <1>1 DEF Begin, Step
  <1>2. CASE Load(s) \/ Create(s) \/ Reopen(s) \/ Query(s) \/ Decide(s) \/ Choose(s)
    BY <1>2 DEF Load, Create, Reopen, Query, Decide, Choose, Step, Abandon
  <1>3. CASE Reserve(s) \/ ClaimRow(s) \/ Send(s) \/ Back(s) \/ Drop(s)
    BY <1>3 DEF Reserve, ClaimRow, Send, Back, Drop, Step, Abandon
  <1> QED BY <1>1, <1>2, <1>3 DEF Submit

LEMMA RowsTypedNext == ASSUME Typed, Shape, [Next]_vars PROVE RowsTyped'
  <1> USE DEF Typed, RowsTyped
  <1>1. CASE UNCHANGED <<status, marked, helper>> BY <1>1
  <1>2. ASSUME NEW s \in Submitters, Reserve(s) \/ ClaimRow(s) \/ Back(s) PROVE RowsTyped'
    <2>1. task[s] \in Tasks BY <1>2, SubmitterTask DEF Reserve, ClaimRow, Back
    <2> QED BY <1>2, <2>1 DEF Reserve, ClaimRow, Back, rows, workers, GivenBack
  <1>3. ASSUME NEW w \in Workers, Register(w) \/ Claim(w) \/ Execute(w) \/ Release(w) \/ Exit(w)
        PROVE  RowsTyped'
    <2>1. w[1] \in Pools BY DEF Workers
    <2> QED
      BY <1>3, <2>1 DEF Register, Claim, Execute, Release, Exit, Returned, workers, rows, GivenBack,
         Ended
  <1>4. ASSUME NEW t \in Tasks, PostProcess(t) \/ Withdraw(t) PROVE RowsTyped'
    BY <1>4 DEF PostProcess, Withdraw, Ended, workers
  <1> QED BY <1>1, <1>2, <1>3, <1>4, RowsKept

LEMMA MadeTyped ==
  ASSUME Typed, Locks, NEW s \in Submitters,
         (spc[s] = "create" /\ made < MaxPool) \/ (spc[s] = "choose" /\ holder = s)
  PROVE  Made \in Pools /\ made < MaxPool /\ made \in Nat
  <1>1. made < MaxPool BY Zenon DEF Locks
  <1>2. made \in Nat BY DEF Typed, PoolsTyped
  <1> QED BY <1>1, <1>2, Assumed DEF Made, Pools

LEMMA PoolsTypedNext == ASSUME Typed, Shape, Locks, [Next]_vars PROVE PoolsTyped'
  <1> USE DEF Typed, PoolsTyped
  <1> DEFINE G1 == /\ (current \in Pools \cup {NoPool} /\ made \in 0..MaxPool)'
                   /\ (size \in [Pools -> 0..MaxSize])' /\ (retire \in [Pools -> BOOLEAN])'
                   /\ (cancelled \in [Pools -> BOOLEAN])'
  <1>1. G1
    <2>1. ASSUME NEW s \in Submitters, Create(s) PROVE G1
      <3>1. CASE UNCHANGED pools BY <3>1 DEF pools
      <3>2. CASE /\ spc[s] = "create" /\ made < MaxPool /\ CreatePool(conc[s])
                 /\ cancelled' = BornCancelled(cancelled)
                 /\ UNCHANGED <<closed, retire, task, conc, busy>>
        BY <3>2, MadeTyped DEF CreatePool, BornCancelled, SubmittersTyped, Made, Pools
      <3> QED BY <2>1, <3>1, <3>2 DEF Create
    <2>2. ASSUME NEW s \in Submitters, Choose(s) PROVE G1
      <3>1. CASE UNCHANGED <<current, made, size, cancelled, live, wpc>> BY <2>2, <3>1 DEF Choose
      <3>2. CASE CreatePool(conc[s]) /\ cancelled' = BornCancelled([cancelled EXCEPT ![pool[s]] = TRUE])
        <4>1. Made \in Pools BY <2>2, MadeTyped DEF Choose
        <4>2. retire' = retire BY <2>2 DEF Choose
        <4>3. Made \in 0..MaxPool BY <4>1, Assumed DEF Pools
        <4>4. current' = Made /\ made' = Made /\ size' = [size EXCEPT ![Made] = conc[s]]
          BY <3>2 DEF CreatePool
        <4>5. cancelled' \in [Pools -> BOOLEAN] BY <3>2 DEF BornCancelled
        <4>6. conc[s] \in 0..MaxSize BY DEF SubmittersTyped
        <4> QED BY <4>1, <4>2, <4>3, <4>4, <4>5, <4>6
      <3> QED BY <2>2, <3>1, <3>2 DEF Choose, Keep
    <2>3. CASE Delete \/ IdleRemove \/ StopService
      BY <2>3 DEF Delete, IdleRemove, StopService, RemovePool, NoPool
    <2>4. CASE UNCHANGED <<current, made, size, retire, cancelled>> BY <2>4
    <2> HIDE DEF G1
    <2> QED BY <2>1, <2>2, <2>3, <2>4, PoolsKept
  <1> DEFINE G2 == (closed \in [Pools -> BOOLEAN])'
  <1>2. G2
    <2>1. CASE closed' = closed BY <2>1
    <2>2. ASSUME NEW s \in Submitters, Reopen(s) \/ Choose(s) PROVE G2 BY <2>2 DEF Reopen, Choose, Keep
    <2>3. ASSUME NEW w \in Workers, Drain(w) PROVE G2 BY <2>3 DEF Drain
    <2>4. CASE Delete \/ IdleClose \/ IdleRemove \/ CancelAll
      BY <2>4 DEF Delete, IdleClose, IdleRemove, CancelAll, RemovePool
    <2> HIDE DEF G2
    <2> QED BY <2>1, <2>2, <2>3, <2>4, ClosedKept
  <1> DEFINE G3 == (chan \in [Pools -> Seq(Tasks)])'
  <1>3. G3
    <2>1. CASE chan' = chan BY <2>1
    <2>2. ASSUME NEW s \in Submitters, Send(s) PROVE G3
      <3>1. task[s] \in Tasks /\ pool[s] \in Pools BY <2>2, SubmitterTask DEF Send
      <3>2. Append(chan[pool[s]], task[s]) \in Seq(Tasks) BY <3>1
      <3> QED BY <2>2, <3>1, <3>2 DEF Send
    <2>3. ASSUME NEW w \in Workers, Receive(w) PROVE G3
      <3>1. w[1] \in Pools BY DEF Workers
      <3>2. Tail(chan[w[1]]) \in Seq(Tasks) BY <2>3, <3>1 DEF Receive
      <3> QED BY <2>3, <3>1, <3>2 DEF Receive
    <2>4. ASSUME NEW w \in Workers, Drain(w) PROVE G3
      <3>1. w[1] \in Pools BY DEF Workers
      <3>2. SubSeq(chan[w[1]], Len(chan[w[1]]) + 1, Len(chan[w[1]])) \in Seq(Tasks) BY <3>1
      <3>3. chan' = [chan EXCEPT ![w[1]] = SubSeq(chan[w[1]], Len(chan[w[1]]) + 1, Len(chan[w[1]]))]
        BY <2>4 DEF Drain, Drained
      <3> QED BY <3>1, <3>2, <3>3
    <2> HIDE DEF G3
    <2> QED BY <2>1, <2>2, <2>3, <2>4, ChanKept
  <1> QED BY <1>1, <1>2, <1>3

LEMMA CountersTypedNext == ASSUME Typed, Shape, Locks, [Next]_vars PROVE CountersTyped'
  <1> USE DEF Typed, CountersTyped
  <1> DEFINE G1 == (submitting \in [Pools -> Int])'
  <1>1. G1
    <2>1. CASE UNCHANGED <<submitting>> BY <2>1
    <2>2. ASSUME NEW s \in Submitters, Reserve(s) \/ Send(s) \/ Drop(s) PROVE G1
      <3>1. pool[s] \in Pools BY <2>2, SubmitterTask DEF Reserve, Send, Drop
      <3> QED BY <2>2, <3>1 DEF Reserve, Send, Drop
    <2> HIDE DEF G1
    <2> QED BY <2>1, <2>2, SubmittingKept
  <1> DEFINE G2 == (outstanding \in [Pools -> Int])'
  <1>2. G2
    <2>1. CASE UNCHANGED <<outstanding>> BY <2>1
    <2>2. ASSUME NEW s \in Submitters, Reserve(s) \/ Drop(s) PROVE G2
      <3>1. pool[s] \in Pools BY <2>2, SubmitterTask DEF Reserve, Drop
      <3> QED BY <2>2, <3>1 DEF Reserve, Drop
    <2>3. ASSUME NEW w \in Workers, Leave(w) \/ Release(w) \/ Exit(w) PROVE G2
      <3>1. w[1] \in Pools /\ Len(job[w]) \in Nat BY DEF Workers, WorkersTyped
      <3> QED BY <2>3, <3>1 DEF Leave, Release, Exit, Returned
    <2> HIDE DEF G2
    <2> QED BY <2>1, <2>2, <2>3, OutstandingKept
  <1> DEFINE G3 == (owned \in [Pools -> Int])'
  <1>3. G3
    <2>1. CASE UNCHANGED <<owned>> BY <2>1
    <2>2. ASSUME NEW w \in Workers, Register(w) \/ DropContext(w) PROVE G3
      <3>1. w[1] \in Pools BY DEF Workers
      <3> QED BY <2>2, <3>1 DEF Register, DropContext
    <2>3. ASSUME NEW t \in Tasks, PostProcess(t) PROVE G3
      <3>1. helper[t] \in Pools BY <2>3 DEF RowsTyped, PostProcess
      <3> QED BY <2>3, <3>1 DEF PostProcess
    <2> HIDE DEF G3
    <2> QED BY <2>1, <2>2, <2>3, OwnedKept
  <1> DEFINE G4 == (live \in [Pools -> Int])'
  <1>4. G4
    <2>1. CASE UNCHANGED <<live>> BY <2>1
    <2>2. ASSUME NEW s \in Submitters, Create(s) \/ Choose(s) PROVE G4
      <3>1. conc[s] \in Int BY DEF SubmittersTyped
      <3> QED BY <2>2, <3>1 DEF Create, Choose, CreatePool, Keep
    <2>3. ASSUME NEW w \in Workers, Exit(w) PROVE G4
      <3>1. w[1] \in Pools BY DEF Workers
      <3> QED BY <2>3, <3>1 DEF Exit
    <2> HIDE DEF G4
    <2> QED BY <2>1, <2>2, <2>3, LivingKept
  <1> QED BY <1>1, <1>2, <1>3, <1>4

LEMMA WorkersTypedNext == ASSUME Typed, Shape, [Next]_vars PROVE WorkersTyped'
  <1> USE DEF Typed, WorkersTyped
  <1>1. CASE UNCHANGED <<wpc, job>> BY <1>1
  <1>2. ASSUME NEW s \in Submitters, Create(s) \/ Choose(s) PROVE WorkersTyped'
    <2>1. job' = job BY <1>2 DEF Create, Choose
    <2>2. wpc' = wpc \/ CreatePool(conc[s]) BY <1>2 DEF Create, Choose, Keep
    <2> QED BY <2>1, <2>2 DEF CreatePool, Workers
  <1>3. ASSUME NEW w \in Workers, Receive(w) PROVE WorkersTyped'
    <2>1. w[1] \in Pools BY DEF Workers
    <2>2. Head(chan[w[1]]) \in Tasks BY <1>3, <2>1 DEF Receive, PoolsTyped
    <2>3. <<Head(chan[w[1]])>> \in Seq(Tasks) BY <2>2
    <2> QED BY <1>3, <2>3 DEF Receive, Move
  <1>4. ASSUME NEW w \in Workers, Register(w) \/ Claim(w) \/ Execute(w) \/ DropContext(w)
        PROVE  WorkersTyped'
    <2>1. job' = job BY <1>4 DEF Register, Claim, Execute, DropContext
    <2> QED BY <1>4, <2>1 DEF Register, Claim, Execute, DropContext, Move, LeftToHelper
  <1>5. ASSUME NEW w \in Workers, Leave(w) \/ Release(w) \/ Exit(w) PROVE WorkersTyped'
    <2>1. <<>> \in Seq(Tasks) OBVIOUS
    <2> QED BY <1>5, <2>1 DEF Leave, Release, Exit, Returned, Move
  <1>6. ASSUME NEW w \in Workers, Drain(w) PROVE WorkersTyped'
    <2>1. w[1] \in Pools BY DEF Workers
    <2>2. chan[w[1]] \in Seq(Tasks) BY <2>1 DEF PoolsTyped
    <2> QED BY <1>6, <2>2 DEF Drain, Drained, Move
  <1> QED BY <1>1, <1>2, <1>3, <1>4, <1>5, <1>6, WorkersKept DEF Work

LEMMA SubmittersTypedNext == ASSUME Typed, Shape, Locks, [Next]_vars PROVE SubmittersTyped'
  <1> USE DEF Typed, SubmittersTyped
  <1>1. CASE UNCHANGED <<spc, task, conc, pool, busy>> BY <1>1
  <1>a. ASSUME NEW s \in Submitters, Abandon(s) PROVE SubmittersTyped'
    BY <1>a, Assumed DEF Abandon, Step, NoPool
  <1>2. ASSUME NEW s \in Submitters, NEW t \in Tasks, Begin(s, t) PROVE SubmittersTyped'
    BY <1>2 DEF Begin, Step, RestTyped
  <1>3. ASSUME NEW s \in Submitters, Load(s) PROVE SubmittersTyped'
    <2>1. LocalWork(current, OwnsContext(current)) \in BOOLEAN BY DEF LocalWork, OwnsContext
    <2>2. current \in Pools \cup {NoPool} BY DEF PoolsTyped
    <2>3. busy' \in [Submitters -> BOOLEAN] /\ pool' \in [Submitters -> Pools \cup {NoPool}]
      BY <1>3, <2>1, <2>2 DEF Load
    <2>4. spc' \in [Submitters -> {"idle", "load", "create", "reopen", "query", "decide", "choose",
                               "reserve", "claim", "send", "back", "forget", "drop"}]
      BY <1>3 DEF Load, Step
    <2> QED BY <1>3, <2>3, <2>4 DEF Load
  <1>4. ASSUME NEW s \in Submitters, Create(s) PROVE SubmittersTyped'
    <2>1. CASE Abandon(s) BY <2>1, <1>a
    <2>2. CASE Step(s, "load") /\ UNCHANGED <<pools, live, wpc, task, conc, pool, busy>>
      BY <2>2 DEF Step
    <2>3. CASE /\ made < MaxPool /\ pool' = [pool EXCEPT ![s] = Made] /\ Step(s, "reserve")
               /\ UNCHANGED <<closed, retire, task, conc, busy>>
      <3>1. Made \in Pools BY <1>4, <2>3, MadeTyped DEF Create
      <3> QED BY <2>3, <3>1 DEF Step
    <2> QED BY <1>4, <2>1, <2>2, <2>3 DEF Create
  <1>5. ASSUME NEW s \in Submitters, Reopen(s) \/ Query(s) \/ Decide(s) PROVE SubmittersTyped'
    <2>1. CASE Abandon(s) BY <2>1, <1>a
    <2>2. CASE /\ UNCHANGED <<task, conc, pool>>
               /\ (Step(s, "reserve") \/ Step(s, "load") \/ Step(s, "decide") \/ Step(s, "choose"))
               /\ (UNCHANGED busy \/ Query(s))
      BY <2>2 DEF Step, Query
    <2> QED BY <1>5, <2>1, <2>2 DEF Reopen, Query, Decide
  <1>6. ASSUME NEW s \in Submitters, Choose(s) PROVE SubmittersTyped'
    <2>1. Made \in Pools BY <1>6, MadeTyped DEF Choose
    <2>2. pool' = pool \/ pool' = [pool EXCEPT ![s] = Made] BY <1>6 DEF Choose
    <2> QED BY <1>6, <2>1, <2>2 DEF Choose, Step
  <1>7. ASSUME NEW s \in Submitters, Reserve(s) \/ ClaimRow(s) \/ Send(s) \/ Back(s) \/ Drop(s)
        PROVE  SubmittersTyped'
    <2>1. CASE Abandon(s) BY <2>1, <1>a
    <2>2. CASE /\ UNCHANGED <<task, conc, pool, busy>>
               /\ (\E x \in {"claim", "send", "forget", "back", "drop"} : Step(s, x))
      BY <2>2 DEF Step
    <2> QED BY <1>7, <2>1, <2>2 DEF Reserve, ClaimRow, Send, Back, Drop
  <1> QED BY <1>1, <1>2, <1>3, <1>4, <1>5, <1>6, <1>7, SubmittersKept DEF Submit

LEMMA RestTypedNext == ASSUME Typed, Shape, Locks, [Next]_vars PROVE RestTyped'
  <1> USE DEF Typed, RestTyped
  <1>1. (/\ holder \in Submitters \cup {"nobody", "deleter", "idler", "idler again"}
         /\ saw \in BOOLEAN)'
    <2>1. ASSUME current # NoPool PROVE OwnsContext(current) \in BOOLEAN
      <3>1. owned[current] \in Int BY <2>1 DEF PoolsTyped, CountersTyped
      <3> HIDE DEF Typed, RestTyped
      <3> QED BY <3>1 DEF OwnsContext
    <2>2. ASSUME NEW who, Grab(who), current # NoPool,
                 who \in Submitters \cup {"deleter", "idler", "idler again"}
          PROVE  (holder \in Submitters \cup {"nobody", "deleter", "idler", "idler again"} /\ saw \in BOOLEAN)'
      BY <2>1, <2>2, Zenon DEF Grab
    <2>3. CASE LetGo BY <2>3, Zenon DEF LetGo
    <2>4. ASSUME NEW s \in Submitters, Decide(s) PROVE UNCHANGED reader \/ (Grab(s) /\ current # NoPool)
      <3>1. pool[s] # NoPool BY <2>4, SubmitterTask DEF Decide
      <3> QED BY <2>4, <3>1 DEF Decide
    <2>5. CASE IdleLook
      <3>1. ipool # NoPool BY <2>5 DEF IdleLook, Shape
      <3>2. UNCHANGED reader \/ (Grab("idler") /\ current # NoPool) BY <2>5, <3>1 DEF IdleLook
      <3> QED BY <3>2, <2>2, Zenon DEF reader
    <2>6. CASE IdleClose
      <3>1. current # NoPool BY <2>6, SetsAssumed, Zenon DEF IdleClose, Locks
      <3>2. LetGo \/ Grab("idler again") BY <2>6 DEF IdleClose
      <3> QED BY <3>1, <3>2, <2>2, <2>3, Zenon
    <2>7. CASE DeleteLook BY <2>7, <2>2, Zenon DEF DeleteLook
    <2>8. CASE Delete \/ IdleRemove \/ \E s \in Submitters : Choose(s)
      BY <2>8, <2>3 DEF Delete, IdleRemove, Choose
    <2>9. CASE UNCHANGED <<holder, saw>> BY <2>9, Zenon
    <2>10. ASSUME NEW s \in Submitters, Decide(s)
           PROVE  (holder \in Submitters \cup {"nobody", "deleter", "idler", "idler again"} /\ saw \in BOOLEAN)'
      BY <2>10, <2>4, <2>2, <2>9, Zenon DEF reader
    <2> QED BY <2>5, <2>6, <2>7, <2>8, <2>9, <2>10, ReaderKept
  <1>2. (ipc \in {"off", "check", "lock"} /\ ibusy \in BOOLEAN /\ ipool \in Pools \cup {NoPool})'
    BY IdlerKept DEF IdleSnapshot, IdleCheck, IdleLook, IdleClose, IdleRemove, IdleOver, PoolsTyped,
       NoPool, idler
  <1>3. (shut \in {"no", "cancelled", "waiting", "done"} /\ awaited \in Pools \cup {NoPool})'
    BY ShutKept DEF StopService, CancelAll, Stopped, PoolsTyped
  <1>4. (want \in 0..MaxSize /\ resizes \in 0..MaxResize /\ idles \in 0..MaxIdle)'
    <2>1. want \in 0..MaxSize /\ resizes \in 0..MaxResize /\ idles \in 0..MaxIdle OBVIOUS
    <2> HIDE DEF Typed, RestTyped
    <2>2. CASE UNCHANGED <<want, resizes, idles>> BY <2>1, <2>2
    <2>3. CASE IdleSnapshot
      <3>1. idles < MaxIdle /\ idles' = idles + 1 /\ want' = want /\ resizes' = resizes
        BY <2>3 DEF IdleSnapshot
      <3> QED BY <3>1, <2>1, Assumed
    <2>4. CASE DeleteProvider
      <3>1. want' = 0 /\ resizes' = resizes /\ idles' = idles BY <2>4 DEF DeleteProvider
      <3> QED BY <3>1, <2>1, Assumed
    <2>5. CASE Resize
      <3>1. resizes < MaxResize /\ resizes' = resizes + 1 /\ want' \in 1..MaxSize /\ idles' = idles
        BY <2>5 DEF Resize
      <3> QED BY <3>1, <2>1, Assumed
    <2> QED BY <2>2, <2>3, <2>4, <2>5, EnvKept
  <1> QED BY <1>1, <1>2, <1>3, <1>4

LEMMA TypedNext == ASSUME Typed, Shape, Locks, [Next]_vars PROVE Typed'
  BY RowsTypedNext, PoolsTypedNext, CountersTypedNext, WorkersTypedNext, SubmittersTypedNext,
     RestTypedNext DEF Typed

-----------------------------------------------------------------------------
(* Places.                                                                 *)

\* Pools are only added, of a size that is not zero.
LEMMA MadeGrows ==
  ASSUME Typed, Shape, Locks, [Next]_vars
  PROVE  /\ made \in Nat /\ made' \in Nat /\ made <= made'
         /\ \A p \in Pools : p \in Nat /\ p > 0
         /\ \A p \in Pools : p <= made => size'[p] = size[p]
         /\ \A p \in Pools : p <= made' => size'[p] # 0
  <1> DEFINE G == /\ made' \in Nat /\ made <= made'
                  /\ \A p \in Pools : p <= made => size'[p] = size[p]
                  /\ \A p \in Pools : p <= made' => size'[p] # 0
  <1>1. made \in Nat /\ size \in [Pools -> 0..MaxSize] BY DEF Typed, PoolsTyped
  <1>2. \A p \in Pools : p \in Nat /\ p > 0 BY Assumed DEF Pools
  <1>3. \A p \in Pools : p <= made => size[p] # 0 BY DEF Shape, PoolShape
  <1>4. CASE UNCHANGED <<made, size>>
    <2>1. made' = made /\ size' = size BY <1>4
    <2> QED BY <2>1, <1>1, <1>2, <1>3
  <1>5. ASSUME NEW s \in Submitters, CreatePool(conc[s]), conc[s] # 0 PROVE G
    <2>1. made' = made + 1 /\ size' = [size EXCEPT ![made + 1] = conc[s]] BY <1>5 DEF CreatePool, Made
    <2> QED BY <2>1, <1>1, <1>2, <1>3, <1>5
  <1>6. ASSUME NEW s \in Submitters, Create(s) \/ Choose(s) PROVE G
    <2>1. conc[s] # 0 BY <1>6 DEF Create, Choose, Shape, SubmitterShape
    <2>2. UNCHANGED <<made, size>> \/ CreatePool(conc[s]) BY <1>6 DEF Create, Choose, Keep, pools
    <2> QED BY <2>1, <2>2, <1>4, <1>5
  <1>7. CASE Delete \/ IdleRemove \/ StopService
    <2>1. UNCHANGED <<made, size>> BY <1>7 DEF Delete, IdleRemove, StopService
    <2> QED BY <2>1, <1>4
  <1>8. G
    <2> QED BY <1>4, <1>6, <1>7, PoolsKept
  <1> QED BY <1>1, <1>2, <1>8

\* A submitter past the creation has a pool that was made, and one that is not
\* idle a task.
LEMMA SubmitterShapeNext == ASSUME Typed, Shape, Locks, [Next]_vars PROVE SubmitterShape'
  <1> DEFINE P(s) == /\ pool[s] <= made
                     /\ spc[s] \notin {"idle", "load", "create"} => pool[s] # NoPool
                     /\ spc[s] # "idle" => task[s] \in Tasks /\ conc[s] # 0
             Same(r) == spc'[r] = spc[r] /\ task'[r] = task[r] /\ conc'[r] = conc[r] /\ pool'[r] = pool[r]
  <1>1. \A s \in Submitters : P(s) BY DEF Shape, SubmitterShape
  <1>2. made \in Nat /\ made' \in Nat /\ made <= made' BY MadeGrows
  <1>3. \A s \in Submitters : pool[s] \in Nat BY Assumed DEF Typed, SubmittersTyped, Pools, NoPool
  <1>4. ASSUME NEW r \in Submitters, Same(r) PROVE P(r)' BY <1>1, <1>2, <1>3, <1>4
  <1>5. CASE UNCHANGED <<spc, task, conc, pool, busy>>
    <2>1. \A r \in Submitters : Same(r) BY <1>5
    <2> QED BY <2>1, <1>4 DEF SubmitterShape
  <1>6. ASSUME NEW s \in Submitters, Submit(s) \/ (\E t \in Tasks : Begin(s, t)) PROVE SubmitterShape'
    <2> USE DEF Typed, SubmittersTyped
    <2>1. \A r \in Submitters \ {s} : Same(r) BY <1>6, OthersStay
    <2>a. ASSUME Abandon(s) PROVE P(s)'
      <3>1. pool'[s] = 0 /\ spc'[s] = "idle" BY <2>a DEF Abandon, Step, NoPool
      <3> QED BY <3>1, <1>2
    <2>b. ASSUME Same(s) \/ (UNCHANGED <<task, conc, pool>> /\ spc[s] # "idle" /\ (spc[s] \notin {"load", "create"} \/ spc'[s] \in {"idle", "load", "create"}))
          PROVE  P(s)'
      BY <2>b, <1>1, <1>2, <1>3
    <2>2. P(s)'
      <3>1. ASSUME NEW t \in Tasks, Begin(s, t) PROVE P(s)'
        <4>1. spc'[s] = "load" /\ task'[s] = t /\ conc'[s] = want /\ want # 0 /\ pool'[s] = pool[s]
          BY <3>1 DEF Begin, Step
        <4> QED BY <4>1, <1>1, <1>2, <1>3
      <3>2. CASE Load(s)
        <4>1. task'[s] = task[s] /\ conc'[s] = conc[s] /\ spc[s] # "idle" BY <3>2 DEF Load
        <4>2. \/ spc'[s] = "create" /\ pool'[s] = pool[s]
              \/ pool'[s] = current /\ current # NoPool
          BY <3>2 DEF Load, Step
        <4>3. current <= made /\ current \in Nat
          BY Assumed DEF Shape, PoolShape, PoolsTyped, NoPool, Pools
        <4> QED BY <4>1, <4>2, <4>3, <1>1, <1>2, <1>3
      <3>3. CASE Create(s)
        <4>1. CASE Step(s, "load") /\ UNCHANGED <<pools, live, wpc, task, conc, pool, busy>>
          <5>1. spc'[s] = "load" /\ spc[s] # "idle" BY <3>3, <4>1 DEF Create, Step
          <5> QED BY <4>1, <5>1, <2>b
        <4>2. CASE /\ CreatePool(conc[s]) /\ pool' = [pool EXCEPT ![s] = Made]
                   /\ UNCHANGED <<closed, retire, task, conc, busy>>
          <5>1. pool'[s] = made' /\ made' = made + 1 /\ spc[s] # "idle"
            BY <3>3, <4>2 DEF CreatePool, Made, Create
          <5> QED BY <4>2, <5>1, <1>1, <1>2 DEF NoPool
        <4> QED BY <3>3, <4>1, <4>2, <2>a DEF Create
      <3>4. CASE Reopen(s) \/ Query(s) \/ Decide(s)
        <4>1. Abandon(s) \/ UNCHANGED <<task, conc, pool>> BY <3>4 DEF Reopen, Query, Decide
        <4>2. spc[s] \notin {"idle", "load", "create"} BY <3>4 DEF Reopen, Query, Decide
        <4> QED BY <4>1, <4>2, <2>a, <2>b
      <3>5. CASE Choose(s)
        <4>1. CASE UNCHANGED pool
          <5>1. UNCHANGED <<task, conc>> /\ spc[s] = "choose" BY <3>5 DEF Choose
          <5> QED BY <4>1, <5>1, <2>b
        <4>2. CASE CreatePool(conc[s]) /\ pool' = [pool EXCEPT ![s] = Made]
          <5>1. pool'[s] = made' /\ made' = made + 1 /\ spc[s] # "idle" /\ UNCHANGED <<task, conc>>
            BY <3>5, <4>2 DEF CreatePool, Made, Choose
          <5> QED BY <5>1, <1>1, <1>2 DEF NoPool
        <4> QED BY <3>5, <4>1, <4>2 DEF Choose
      <3>6. CASE Reserve(s) \/ ClaimRow(s) \/ Send(s) \/ Back(s) \/ Drop(s)
        <4>1. Abandon(s) \/ UNCHANGED <<task, conc, pool>>
          BY <3>6 DEF Reserve, ClaimRow, Send, Back, Drop
        <4>2. spc[s] \notin {"idle", "load", "create"} BY <3>6 DEF Reserve, ClaimRow, Send, Back, Drop
        <4> QED BY <4>1, <4>2, <2>a, <2>b
      <3> QED BY <1>6, <3>1, <3>2, <3>3, <3>4, <3>5, <3>6 DEF Submit
    <2>3. \A r \in Submitters : P(r)' BY <2>1, <2>2, <1>4
    <2> QED BY <2>3 DEF SubmitterShape
  <1> QED BY <1>5, <1>6, SubmittersKept

\* A worker at a task holds one task, and works for a pool that was made.
LEMMA WorkerShapeNext == ASSUME Typed, Shape, Locks, [Next]_vars PROVE WorkerShape'
  <1> DEFINE P(w) == /\ wpc[w] \in {"none", "idle"} => job[w] = <<>>
                     /\ wpc[w] \in AtTask => Len(job[w]) = 1
                     /\ wpc[w] # "none" => w[1] <= made /\ w[2] <= size[w[1]]
             Same(v) == wpc'[v] = wpc[v] /\ job'[v] = job[v]
  <1>1. \A w \in Workers : P(w) BY DEF Shape, WorkerShape
  <1>2. /\ made \in Nat /\ made' \in Nat /\ made <= made'
        /\ \A p \in Pools : p <= made => size'[p] = size[p]
        /\ \A p \in Pools : p \in Nat /\ p > 0
    BY MadeGrows
  <1>3. \A w \in Workers : w[1] \in Pools /\ w[2] \in Slots BY DEF Workers
  <1>4. ASSUME NEW v \in Workers, Same(v) PROVE P(v)' BY <1>1, <1>2, <1>3, <1>4
  <1>5. CASE UNCHANGED <<wpc, job>>
    <2>1. \A v \in Workers : Same(v) BY <1>5
    <2> QED BY <2>1, <1>4 DEF WorkerShape
  <1>6. ASSUME NEW s \in Submitters, job' = job, CreatePool(conc[s]) PROVE WorkerShape'
    <2>1. /\ made' = made + 1 /\ size' = [size EXCEPT ![made + 1] = conc[s]]
          /\ size \in [Pools -> 0..MaxSize]
      BY <1>6 DEF CreatePool, Made, Typed, PoolsTyped
    <2>2. ASSUME NEW w \in Workers PROVE P(w)'
      <3>1. CASE w[1] = made + 1 /\ w[2] <= conc[s]
        <4>1. wpc'[w] = "idle" BY <1>6, <3>1 DEF CreatePool, Made, Workers
        <4>2. wpc[w] = "none" BY <1>1, <1>2, <1>3, <3>1
        <4>3. job'[w] = <<>> BY <1>1, <4>2, <1>6
        <4>4. size'[w[1]] = conc[s] BY <2>1, <1>3, <3>1
        <4> QED BY <4>1, <4>3, <4>4, <3>1, <2>1, <1>2 DEF AtTask
      <3>2. CASE ~(w[1] = made + 1 /\ w[2] <= conc[s])
        <4>1. Same(w) BY <1>6, <3>2 DEF CreatePool, Made, Workers, Typed, WorkersTyped
        <4> QED BY <4>1, <1>4
      <3> QED BY <3>1, <3>2
    <2> QED BY <2>2 DEF WorkerShape
  <1>7. ASSUME NEW s \in Submitters, Create(s) \/ Choose(s) PROVE WorkerShape'
    <2>1. job' = job BY <1>7 DEF Create, Choose
    <2>2. wpc' = wpc \/ CreatePool(conc[s]) BY <1>7 DEF Create, Choose, Keep
    <2> QED BY <2>1, <2>2, <1>5, <1>6
  <1>8. ASSUME NEW w \in Workers, Work(w)
        PROVE WorkerShape'
    <2> USE DEF Typed, WorkersTyped
    <2>1. \A v \in Workers \ {w} : Same(v)
      BY <1>8 DEF Work, Receive, Register, Claim, Execute, DropContext, Leave, Release, Drain, Exit,
         Returned, Move
    <2>2. wpc[w] # "none"
      BY <1>8 DEF Work, Receive, Register, Claim, Execute, DropContext, Leave, Release, Drain, Exit
    <2>3. w[1] <= made' /\ w[2] <= size'[w[1]] BY <2>2, <1>1, <1>2, <1>3
    <2>4. /\ wpc'[w] \in {"none", "idle"} => job'[w] = <<>>
          /\ wpc'[w] \in AtTask => Len(job'[w]) = 1
      <3>1. CASE Receive(w)
        <4>1. job'[w] = <<Head(chan[w[1]])>> /\ wpc'[w] \in {"release", "start"}
          BY <3>1 DEF Receive, Move
        <4> QED BY <4>1
      <3>2. CASE Register(w) \/ Claim(w) \/ Execute(w) \/ DropContext(w)
        <4>1. job' = job /\ wpc[w] \in AtTask /\ wpc'[w] \notin {"none", "idle"}
          BY <3>2 DEF Register, Claim, Execute, DropContext, Move, AtTask, LeftToHelper
        <4> QED BY <4>1, <1>1
      <3>3. CASE Leave(w) \/ Release(w) \/ Exit(w)
        <4>1. job'[w] = <<>> /\ wpc'[w] \in {"none", "idle"}
          BY <3>3 DEF Leave, Release, Exit, Returned, Move
        <4> QED BY <4>1 DEF AtTask
      <3>4. CASE Drain(w)
        <4>1. wpc'[w] = "drain" BY <3>4 DEF Drain, Move
        <4> QED BY <4>1 DEF AtTask
      <3> QED BY <1>8, <3>1, <3>2, <3>3, <3>4 DEF Work
    <2>5. P(w)' BY <2>3, <2>4
    <2> QED BY <2>1, <2>5, <1>4 DEF WorkerShape
  <1> QED BY <1>5, <1>7, <1>8, WorkersKept

LEMMA ShapeNext == ASSUME Typed, Shape, Locks, [Next]_vars PROVE Shape'
  <1>1. SubmitterShape' /\ WorkerShape' BY SubmitterShapeNext, WorkerShapeNext
  <1>2. /\ made \in Nat /\ made' \in Nat /\ made <= made'
        /\ \A p \in Pools : p \in Nat /\ p > 0
        /\ \A p \in Pools : p <= made' => size'[p] # 0
    BY MadeGrows
  <1>3. current' <= made'
    <2>1. current <= made /\ current \in Nat
      BY Assumed DEF Shape, PoolShape, Typed, PoolsTyped, NoPool, Pools
    <2>2. current' \in {current, NoPool, made'}
      <3>1. ASSUME NEW s \in Submitters, Create(s) \/ Choose(s) PROVE current' \in {current, made'}
        BY <3>1 DEF Create, Choose, CreatePool, Keep, pools
      <3>2. CASE Delete \/ IdleRemove \/ StopService
        BY <3>2 DEF Delete, IdleRemove, StopService, RemovePool
      <3> QED BY <3>1, <3>2, PoolsKept
    <2> QED BY <2>1, <2>2, <1>2 DEF NoPool
  <1>4. \A p \in Pools : p > made' => chan'[p] = <<>>
    <2>1. \A p \in Pools : p > made => chan[p] = <<>> BY DEF Shape, PoolShape
    <2>2. CASE chan' = chan BY <2>1, <2>2, <1>2
    <2>3. ASSUME NEW s \in Submitters, Send(s) PROVE <1>4
      <3>1. pool[s] \in Pools /\ pool[s] <= made BY <2>3, SubmitterTask DEF Send
      <3>2. \A p \in Pools : p # pool[s] => chan'[p] = chan[p] BY <2>3 DEF Send, Typed, PoolsTyped
      <3> QED BY <3>1, <3>2, <2>1, <1>2
    <2>4. ASSUME NEW w \in Workers, Receive(w) \/ Drain(w) PROVE <1>4
      <3>1. w[1] \in Pools /\ w[1] <= made BY <2>4 DEF Receive, Drain, Shape, WorkerShape, Workers
      <3>2. \A p \in Pools : p # w[1] => chan'[p] = chan[p]
        BY <2>4 DEF Receive, Drain, Typed, PoolsTyped
      <3> QED BY <3>1, <3>2, <2>1, <1>2
    <2> QED BY <2>2, <2>3, <2>4, ChanKept
  <1>5. HelperShape'
    <2>1. \A t \in Tasks : helper[t] <= made /\ helper[t] \in Nat
      BY Assumed DEF Shape, HelperShape, Typed, RowsTyped, NoPool, Pools
    <2>2. \A t \in Tasks : helper'[t] \in {helper[t], NoPool} \/ \E w \in Workers : helper'[t] = w[1] /\ wpc[w] = "run"
      <3>1. CASE helper' = helper BY <3>1
      <3>2. ASSUME NEW s \in Submitters, Reserve(s) \/ ClaimRow(s) \/ Back(s) PROVE helper' = helper
        BY <3>2 DEF Reserve, ClaimRow, Back, workers
      <3>3. ASSUME NEW w \in Workers, Register(w) \/ Claim(w) \/ Release(w) \/ Exit(w)
            PROVE  helper' = helper
        BY <3>3 DEF Register, Claim, Release, Exit
      <3>4. ASSUME NEW w \in Workers, Execute(w) PROVE <2>2 BY <3>4 DEF Execute, Typed, RowsTyped
      <3>5. ASSUME NEW t \in Tasks, PostProcess(t) \/ Withdraw(t) PROVE <2>2
        BY <3>5 DEF PostProcess, Withdraw, Typed, RowsTyped, workers
      <3> QED BY <3>1, <3>2, <3>3, <3>4, <3>5, RowsKept
    <2>3. \A w \in Workers : wpc[w] = "run" => w[1] <= made /\ w[1] \in Nat
      BY <1>2 DEF Shape, WorkerShape, Workers
    <2> QED BY <2>1, <2>2, <2>3, <1>2 DEF HelperShape, NoPool
  <1>6. (ipc = "lock" => ipool # NoPool)'
    BY IdlerKept DEF IdleSnapshot, IdleCheck, IdleLook, IdleClose, IdleRemove, IdleOver, idler, Shape
  <1> QED BY <1>1, <1>2, <1>3, <1>4, <1>5, <1>6 DEF Shape, PoolShape

-----------------------------------------------------------------------------
(* The locks, and the pool that may take tasks.                            *)

\* While a holder reads, the map, its place and the cleanup stay as they are.
LEMMA HeldStill ==
  ASSUME Typed, Shape, Locks, [Next]_vars, holder # "nobody", holder' = holder
  PROVE  /\ UNCHANGED <<current, made, size>>
         /\ holder \in Submitters => spc'[holder] = spc[holder] /\ pool'[holder] = pool[holder]
         /\ holder \in {"idler", "idler again"} => UNCHANGED <<ipc, ipool>>
  <1>1. \A s \in Submitters : ~Choose(s) BY DEF Choose, LetGo
  <1>2. ~Delete /\ ~IdleRemove BY DEF Delete, IdleRemove, LetGo
  <1>3. UNCHANGED <<current, made, size>>
    <2>1. \A s \in Submitters : ~Create(s) BY DEF Create, MgrFree
    <2>2. CASE StopService BY <2>2 DEF StopService
    <2> QED BY <1>1, <1>2, <2>1, <2>2, PoolsKept
  <1>4. ASSUME holder \in Submitters PROVE spc'[holder] = spc[holder] /\ pool'[holder] = pool[holder]
    <2>1. spc[holder] = "choose" BY <1>4 DEF Locks
    <2>2. CASE UNCHANGED <<spc, task, conc, pool, busy>> BY <2>2
    <2>3. ASSUME NEW s \in Submitters, s # holder, Submit(s) \/ (\E t \in Tasks : Begin(s, t))
          PROVE  spc'[holder] = spc[holder] /\ pool'[holder] = pool[holder]
      BY <2>3, <1>4, OthersStay
    <2>4. ASSUME NEW s \in Submitters, s = holder PROVE ~Submit(s) /\ \A t \in Tasks : ~Begin(s, t)
      BY <2>4, <2>1, <1>1 DEF Submit, Begin, Load, Create, Reopen, Query, Decide, Reserve, ClaimRow,
         Send, Back, Drop
    <2> QED BY <2>2, <2>3, <2>4, SubmittersKept
  <1>5. ASSUME holder \in {"idler", "idler again"} PROVE UNCHANGED <<ipc, ipool>>
    <2>1. ipc = "lock" BY <1>5 DEF Locks
    <2>2. ~IdleClose BY <1>5 DEF IdleClose, LetGo, Grab
    <2>3. ~IdleLook BY DEF IdleLook, MgrFree
    <2> QED BY <2>1, <2>2, <2>3, <1>2, IdlerKept DEF IdleSnapshot, IdleCheck
  <1> QED BY <1>3, <1>4, <1>5

\* Who reads hasLocalWork is where it reads it, and reads the pool in the map.
LEMMA LocksNext == ASSUME Typed, Shape, Locks, [Next]_vars PROVE Locks'
  <1>0. \A s \in Submitters : s # "nobody" /\ s # "deleter" /\ s # "idler" /\ s # "idler again"
    BY SetsAssumed
  <1>a. ASSUME holder' = "nobody" PROVE Locks' BY <1>0, <1>a, Zenon DEF Locks
  <1>1. CASE holder' = holder /\ holder # "nobody"
    <2>1. ASSUME holder' \in Submitters
          PROVE  spc'[holder'] = "choose" /\ pool'[holder'] = current' /\ made' < MaxPool
      <3>1. holder \in Submitters BY <2>1, <1>1
      <3>2. spc[holder] = "choose" /\ pool[holder] = current /\ made < MaxPool BY <3>1 DEF Locks
      <3>3. /\ spc'[holder] = spc[holder] /\ pool'[holder] = pool[holder] /\ current' = current
            /\ made' = made
        BY <1>1, <3>1, HeldStill
      <3> QED BY <1>1, <3>2, <3>3
    <2>2. ASSUME holder' \in {"idler", "idler again"} PROVE current' = ipool' /\ ipc' = "lock"
      BY <2>2, <1>1, HeldStill DEF Locks
    <2>3. current' # NoPool BY <1>1, HeldStill DEF Locks
    <2> QED BY <2>1, <2>2, <2>3 DEF Locks
  <1>2. ASSUME NEW s \in Submitters, Decide(s), Grab(s) PROVE Locks'
    <2>1. /\ spc'[s] = "choose" /\ pool' = pool /\ current = pool[s] /\ current' = current
          /\ made' = made /\ made < MaxPool
      BY <1>2, <1>0 DEF Decide, Grab, Step, Typed, SubmittersTyped, pools, reader, MgrFree
    <2>2. pool[s] # NoPool BY <1>2, SubmitterTask DEF Decide
    <2>3. holder' = s BY <1>2 DEF Grab
    <2>4. holder' \notin {"idler", "idler again"} BY <2>3, <1>0
    <2> QED BY <2>1, <2>2, <2>3, <2>4 DEF Locks
  <1>3. ASSUME holder' \in {"deleter", "idler", "idler again"}, current' # NoPool,
               holder' # "deleter" => current' = ipool' /\ ipc' = "lock"
        PROVE  Locks'
    <2>1. holder' \notin Submitters BY <1>0, <1>3
    <2> QED BY <2>1, <1>3 DEF Locks
  <1>4. CASE DeleteLook
    <2>1. holder' = "deleter" /\ current' # NoPool BY <1>4 DEF DeleteLook, Grab, pools
    <2> QED BY <2>1, <1>3
  <1>5. CASE IdleLook
    <2>1. CASE current = ipool /\ Grab("idler") /\ UNCHANGED idler
      <3>1. holder' = "idler" /\ current' = current /\ ipool' = ipool /\ ipc' = "lock" /\ ipc = "lock"
        BY <1>5, <2>1 DEF IdleLook, Grab, pools, idler
      <3>2. ipool # NoPool BY <3>1 DEF Shape
      <3> QED BY <2>1, <3>1, <3>2, <1>3
    <2>2. CASE UNCHANGED reader
      <3>1. holder' = "nobody" BY <1>5, <2>2 DEF reader, IdleLook, MgrFree
      <3> QED BY <3>1, <1>a
    <2> QED BY <1>5, <2>1, <2>2 DEF IdleLook
  <1>6. CASE IdleClose
    <2>1. CASE LetGo BY <2>1, <1>a DEF LetGo
    <2>2. CASE Grab("idler again") /\ UNCHANGED idler
      <3>1. /\ holder' = "idler again" /\ current' = current /\ ipool' = ipool /\ ipc' = ipc
            /\ holder = "idler"
        BY <1>6, <2>2 DEF IdleClose, Grab, idler
      <3>2. current = ipool /\ ipc = "lock" /\ current # NoPool BY <3>1 DEF Locks
      <3> QED BY <3>1, <3>2, <1>3
    <2> QED BY <1>6, <2>1, <2>2 DEF IdleClose
  <1>7. CASE Delete \/ IdleRemove \/ \E s \in Submitters : Choose(s)
    BY <1>7, <1>a DEF Delete, IdleRemove, Choose, LetGo
  <1>8. ASSUME NEW s \in Submitters, Decide(s) PROVE Locks'
    <2>1. Grab(s) \/ holder' = "nobody" BY <1>8 DEF Decide, reader, MgrFree
    <2> QED BY <1>8, <2>1, <1>2, <1>a
  <1>9. CASE UNCHANGED <<holder, saw>> BY <1>9, <1>1, <1>a
  <1> QED BY <1>4, <1>5, <1>6, <1>7, <1>8, <1>9, ReaderKept

\* No pool but the one in the map is live; createMu covers the change of the map
\* and of the contexts.
LEMMA LiveNext == ASSUME Typed, Shape, Locks, Live, [Next]_vars PROVE Live'
  <1>0. /\ made \in Nat /\ MaxPool \in Nat /\ \A p \in Pools : p \in Nat /\ p > 0
        /\ current <= made /\ current \in Pools \cup {NoPool}
        /\ cancelled \in [Pools -> BOOLEAN]
    BY Assumed DEF Typed, PoolsTyped, Pools, Shape, PoolShape
  <1>1. /\ \A p \in Pools : p <= made /\ ~cancelled[p] => p = current
        /\ shut = "no" /\ current # NoPool => ~cancelled[current]
        /\ shut # "no" => \A p \in Pools : p <= made => cancelled[p]
    BY DEF Live, OneLivePool
  <1>2. CASE UNCHANGED <<current, made, size, retire, cancelled>> /\ (shut = "no" <=> shut' = "no")
    <2>1. current' = current /\ made' = made /\ cancelled' = cancelled BY <1>2
    <2> QED BY <1>1, <1>2, <2>1 DEF Live, OneLivePool
  \* A pool is made where there was none that is not cancelled.
  <1>3. ASSUME NEW s \in Submitters, CreatePool(conc[s]), Made \in Pools, shut' = shut,
               NEW q \in Pools \cup {NoPool}, q = current, 
               cancelled' = BornCancelled(IF q = NoPool THEN cancelled ELSE [cancelled EXCEPT ![q] = TRUE])
        PROVE  Live'
    <2>1. made' = made + 1 /\ current' = made + 1 /\ made + 1 \in Pools BY <1>3 DEF CreatePool, Made
    <2>2. cancelled'[made + 1] = (shut # "no") BY <1>3, <2>1, <1>0 DEF BornCancelled, Made
    <2>3. ASSUME NEW p \in Pools, p <= made PROVE cancelled'[p]
      <3>1. p # made + 1 BY <2>3, <1>0
      <3>2. CASE q = NoPool
        <4>1. cancelled'[p] = cancelled[p] BY <1>3, <3>1, <3>2, <1>0 DEF BornCancelled, Made
        <4>2. cancelled[p] BY <1>1, <1>3, <3>2, <2>3, <1>0 DEF NoPool
        <4> QED BY <4>1, <4>2
      <3>3. CASE q # NoPool
        <4>1. cancelled'[p] = IF p = current THEN TRUE ELSE cancelled[p]
          BY <1>3, <3>1, <3>3, <1>0 DEF BornCancelled, Made
        <4> QED BY <4>1, <1>1, <2>3
      <3> QED BY <3>2, <3>3
    <2>4. \A p \in Pools : p <= made + 1 => p <= made \/ p = made + 1 BY <1>0
    <2>5. OneLivePool' BY <2>1, <2>3, <2>4 DEF OneLivePool
    <2>6. (shut = "no" /\ current # NoPool => ~cancelled[current])' BY <1>3, <2>1, <2>2
    <2>7. (shut # "no" => \A p \in Pools : p <= made => cancelled[p])' BY <1>3, <2>1, <2>2, <2>3, <2>4
    <2> QED BY <2>5, <2>6, <2>7 DEF Live
  <1>4. ASSUME NEW s \in Submitters, Create(s) PROVE Live'
    <2>1. shut' = shut BY <1>4 DEF Create, env
    <2>2. CASE UNCHANGED pools BY <2>1, <2>2, <1>2 DEF pools
    <2>3. CASE Vacant /\ made < MaxPool /\ CreatePool(conc[s]) /\ cancelled' = BornCancelled(cancelled)
      <3>1. Made \in Pools BY <1>4, <2>3, MadeTyped DEF Create
      <3> QED BY <3>1, <2>1, <2>3, <1>3 DEF Vacant
    <2> QED BY <1>4, <2>2, <2>3 DEF Create
  <1>5. ASSUME NEW s \in Submitters, Choose(s) PROVE Live'
    <2>1. shut' = shut /\ retire' = retire BY <1>5 DEF Choose, env
    <2>2. CASE UNCHANGED <<current, made, size, cancelled, live, wpc>> BY <2>1, <2>2, <1>2
    <2>3. CASE CreatePool(conc[s]) /\ cancelled' = BornCancelled([cancelled EXCEPT ![pool[s]] = TRUE])
      <3>1. Made \in Pools BY <1>5, MadeTyped DEF Choose
      <3>2. pool[s] = current BY <1>5, Zenon DEF Choose, Locks
      <3>3. pool[s] # NoPool BY <1>5, SubmitterTask DEF Choose
      <3> QED BY <3>1, <3>2, <3>3, <2>1, <2>3, <1>3, <1>0
    <2> QED BY <1>5, <2>2, <2>3 DEF Choose, Keep
  <1>6. ASSUME NEW p \in Pools, p = current, NEW c, RemovePool(p, c), made' = made, shut' = shut
        PROVE  Live'
    <2>1. CASE UNCHANGED <<current, cancelled>>
      <3>1. current' = current /\ cancelled' = cancelled BY <2>1
      <3> QED BY <1>1, <1>6, <3>1 DEF Live, OneLivePool
    <2>2. CASE current' = NoPool /\ cancelled' = [cancelled EXCEPT ![p] = TRUE]
      BY <1>0, <1>1, <1>6, <2>2 DEF Live, OneLivePool
    <2> QED BY <1>6, <2>1, <2>2 DEF RemovePool
  <1>7. CASE Delete
    <2>1. current # NoPool /\ RemovePool(current, saw) /\ made' = made /\ shut' = shut
      BY <1>7 DEF Delete, Locks, env
    <2> QED BY <2>1, <1>0, <1>6
  <1>8. CASE IdleRemove
    <2>1. current # NoPool /\ current = ipool /\ RemovePool(ipool, saw) /\ made' = made /\ shut' = shut
      BY <1>8 DEF IdleRemove, Locks, env
    <2> QED BY <2>1, <1>0, <1>6
  <1>9. CASE StopService
    <2>1. /\ shut' = "cancelled" /\ made' = made /\ current' = current
          /\ cancelled' = [p \in Pools |-> cancelled[p] \/ p <= made] BY <1>9 DEF StopService
    <2> QED BY <2>1 DEF Live, OneLivePool
  <1>10. CASE UNCHANGED <<current, made, size, retire, cancelled>> /\ ~StopService
    <2>1. shut = "no" <=> shut' = "no" BY <1>10, ShutKept DEF CancelAll, Stopped
    <2> QED BY <1>2, <1>10, <2>1
  <1> QED BY <1>4, <1>5, <1>7, <1>8, <1>9, <1>10, PoolsKept

\* A pool that may still take tasks is the one in the map: createMu, so a
\* provider's workers never add up to more than its concurrency.
THEOREM OneLivePoolAlways == Spec => []OneLivePool
  <1> DEFINE I == Typed /\ Shape /\ Locks /\ Live
  <1>1. Init => I BY InitTyped, InitShape, InitLocks, InitLive
  <1>2. I /\ [Next]_vars => I' BY TypedNext, ShapeNext, LocksNext, LiveNext
  <1>3. I => OneLivePool BY DEF Live
  <1> QED BY <1>1, <1>2, <1>3, PTL DEF Spec

-----------------------------------------------------------------------------
(* The places taken in a queue, and the queue.                             *)

\* What a step does to those who hold a place of a pool.
LEMMA TaggingStep ==
  ASSUME Typed, Shape, Locks, [Next]_vars, NEW p \in Pools
  PROVE  \/ Tagging(p)' = Tagging(p) /\ submitting'[p] = submitting[p]
         \/ \E s \in Submitters \ Tagging(p) :
              /\ Reserve(s) /\ Room(p) /\ pool[s] = p /\ Tagging(p)' = Tagging(p) \cup {s}
              /\ submitting'[p] = submitting[p] + 1
         \/ \E s \in Tagging(p) :
              /\ (Send(s) \/ Drop(s)) /\ Tagging(p)' = Tagging(p) \ {s}
              /\ submitting'[p] = submitting[p] - 1
  <1> DEFINE Same == Tagging(p)' = Tagging(p) /\ submitting'[p] = submitting[p]
             Kept(r) == spc'[r] = spc[r] /\ pool'[r] = pool[r]
             Taken == \E s \in Submitters \ Tagging(p) :
               /\ Reserve(s) /\ Room(p) /\ pool[s] = p /\ Tagging(p)' = Tagging(p) \cup {s}
               /\ submitting'[p] = submitting[p] + 1
             Given == \E s \in Tagging(p) :
               /\ (Send(s) \/ Drop(s)) /\ Tagging(p)' = Tagging(p) \ {s}
               /\ submitting'[p] = submitting[p] - 1
  <1>1. submitting \in [Pools -> Int] BY DEF Typed, CountersTyped
  <1>2. ASSUME UNCHANGED <<spc, task, conc, pool, busy>> PROVE Same
    <2>1. \A s \in Submitters : ~Reserve(s) /\ ~Send(s) /\ ~Drop(s)
      <3> USE DEF Typed, SubmittersTyped
      <3>1. ASSUME NEW s \in Submitters, spc[s] = "reserve" PROVE ~Reserve(s)
        BY <1>2, <3>1 DEF Reserve, Step, Abandon
      <3>2. ASSUME NEW s \in Submitters, spc[s] = "send" PROVE ~Send(s)
        BY <1>2, <3>2 DEF Send, Step, Abandon
      <3>3. ASSUME NEW s \in Submitters, spc[s] = "drop" PROVE ~Drop(s)
        BY <1>2, <3>3 DEF Drop, Step, Abandon
      <3> QED BY <3>1, <3>2, <3>3 DEF Reserve, Send, Drop
    <2>2. submitting' = submitting BY <2>1, SubmittingKept
    <2>3. Tagging(p)' = Tagging(p) BY <1>2 DEF Tagging, Reserving
    <2> QED BY <2>2, <2>3
  <1>3. ASSUME NEW s \in Submitters, Submit(s) \/ (\E t \in Tasks : Begin(s, t))
        PROVE  Same \/ Taken \/ Given
    <2>1. \A r \in Submitters \ {s} : Kept(r) BY <1>3, OthersStay
    <2>2. ASSUME spc[s] \notin Tagged,
                 spc'[s] \notin Tagged \/ (spc[s] \in Tagged /\ spc'[s] \in Tagged)
          PROVE  Tagging(p)' = Tagging(p)
      BY <2>1, <2>2 DEF Tagging, Reserving, Tagged
    <2>3. ASSUME spc[s] \in Tagged, spc'[s] \in Tagged, pool'[s] = pool[s]
          PROVE  Tagging(p)' = Tagging(p)
      BY <2>1, <2>3 DEF Tagging, Reserving, Tagged
    <2>4. CASE \/ (\E t \in Tasks : Begin(s, t)) \/ Load(s) \/ Create(s) \/ Reopen(s) \/ Query(s)
               \/ Decide(s) \/ Choose(s)
      <3>1. spc[s] \notin Tagged /\ spc'[s] \notin Tagged
        BY <2>4 DEF Begin, Load, Create, Reopen, Query, Decide, Choose, Step, Abandon, Tagged, Typed,
           SubmittersTyped
      <3>2. submitting' = submitting
        BY <2>4 DEF Begin, Load, Create, Reopen, Query, Decide, Choose, counters
      <3> QED BY <3>1, <3>2, <2>2
    <2>5. CASE ClaimRow(s) \/ Back(s)
      <3>1. spc[s] \in Tagged /\ spc'[s] \in Tagged /\ pool'[s] = pool[s]
        BY <2>5 DEF ClaimRow, Back, Step, Tagged, Typed, SubmittersTyped
      <3>2. submitting' = submitting BY <2>5 DEF ClaimRow, Back, counters
      <3> QED BY <3>1, <3>2, <2>3
    <2>6. CASE Reserve(s)
      <3>1. CASE Abandon(s) /\ UNCHANGED <<marked, submitting, outstanding>>
        <4>1. spc[s] \notin Tagged /\ spc'[s] \notin Tagged
          BY <2>6, <3>1 DEF Reserve, Step, Abandon, Tagged, Typed, SubmittersTyped
        <4> QED BY <4>1, <3>1, <2>2
      <3>2. CASE /\ Room(pool[s])
                 /\ submitting' = [submitting EXCEPT ![pool[s]] = submitting[pool[s]] + 1]
                 /\ Step(s, "claim") /\ UNCHANGED <<task, conc, pool, busy>>
        <4>1. spc[s] \notin Tagged /\ spc'[s] \in Tagged /\ pool'[s] = pool[s]
          BY <2>6, <3>2 DEF Reserve, Step, Tagged, Typed, SubmittersTyped
        <4>2. CASE pool[s] = p
          <5>1. s \notin Tagging(p) BY <4>1 DEF Tagging, Reserving, Tagged
          <5>2. Tagging(p)' = Tagging(p) \cup {s} BY <2>1, <4>1, <4>2 DEF Tagging, Reserving, Tagged
          <5>3. submitting'[p] = submitting[p] + 1 BY <1>1, <3>2, <4>2
          <5>4. Room(p) BY <3>2, <4>2
          <5> QED BY <2>6, <5>1, <5>2, <5>3, <5>4, <4>2
        <4>3. CASE pool[s] # p
          <5>1. Tagging(p)' = Tagging(p) BY <2>1, <4>1, <4>3 DEF Tagging, Reserving, Tagged
          <5>2. submitting'[p] = submitting[p] BY <1>1, <3>2, <4>3
          <5> QED BY <5>1, <5>2
        <4> QED BY <4>2, <4>3
      <3> QED BY <2>6, <3>1, <3>2 DEF Reserve
    <2>7. CASE Send(s) \/ Drop(s)
      <3>1. CASE Step(s, "back") /\ UNCHANGED <<chan, submitting, task, conc, pool, busy>>
        <4>1. spc[s] \in Tagged /\ spc'[s] \in Tagged /\ pool'[s] = pool[s]
          BY <2>7, <3>1 DEF Send, Drop, Step, Tagged, Typed, SubmittersTyped
        <4> QED BY <4>1, <3>1, <2>3
      <3>2. CASE submitting' = [submitting EXCEPT ![pool[s]] = submitting[pool[s]] - 1] /\ Abandon(s)
        <4>1. spc[s] \in Tagged /\ spc'[s] \notin Tagged
          BY <2>7, <3>2 DEF Send, Drop, Step, Abandon, Tagged, Typed, SubmittersTyped
        <4>2. CASE pool[s] = p
          <5>1. s \in Tagging(p) BY <4>1, <4>2 DEF Tagging, Reserving, Tagged
          <5>2. Tagging(p)' = Tagging(p) \ {s} BY <2>1, <4>1, <4>2 DEF Tagging, Reserving, Tagged
          <5>3. submitting'[p] = submitting[p] - 1 BY <1>1, <3>2, <4>2
          <5> QED BY <2>7, <5>1, <5>2, <5>3, <4>2
        <4>3. CASE pool[s] # p
          <5>1. Tagging(p)' = Tagging(p) BY <2>1, <4>1, <4>3 DEF Tagging, Reserving, Tagged
          <5>2. submitting'[p] = submitting[p] BY <1>1, <3>2, <4>3
          <5> QED BY <5>1, <5>2
        <4> QED BY <4>2, <4>3
      <3> QED BY <2>7, <3>1, <3>2 DEF Send, Drop
    <2> QED BY <1>3, <2>4, <2>5, <2>6, <2>7 DEF Submit
  <1>4. Same \/ Taken \/ Given
    <2> HIDE DEF Same, Taken, Given
    <2> QED BY <1>2, <1>3, SubmittersKept
  <1> QED BY <1>4

LEMMA TaggingFinite ==
  ASSUME NEW p \in Pools
  PROVE  IsFiniteSet(Tagging(p)) /\ Cardinality(Tagging(p)) \in Nat
  BY SetsAssumed, FS_Subset, FS_CardinalityType DEF Tagging

\* submitting is the number of goroutines between Reserve and Send or Drop.
LEMMA SubmittingCountNext ==
  ASSUME Typed, Shape, Locks, SubmittingCount, [Next]_vars
  PROVE  SubmittingCount'
  <1>1. ASSUME NEW p \in Pools PROVE submitting'[p] = Cardinality(Tagging(p)')
    <2>1. submitting[p] = Cardinality(Tagging(p)) /\ IsFiniteSet(Tagging(p))
      BY TaggingFinite DEF SubmittingCount
    <2>2. ASSUME NEW s \in Submitters \ Tagging(p), Tagging(p)' = Tagging(p) \cup {s},
                 submitting'[p] = submitting[p] + 1
          PROVE  submitting'[p] = Cardinality(Tagging(p)')
      BY <2>1, <2>2, FS_AddElement
    <2>3. ASSUME NEW s \in Tagging(p), Tagging(p)' = Tagging(p) \ {s},
                 submitting'[p] = submitting[p] - 1
          PROVE  submitting'[p] = Cardinality(Tagging(p)')
      BY <2>1, <2>3, FS_RemoveElement
    <2> QED BY <2>1, <2>2, <2>3, TaggingStep
  <1> QED BY <1>1 DEF SubmittingCount

\* What a step does to the queue of a pool.
LEMMA ChanStep ==
  ASSUME Typed, Shape, [Next]_vars, NEW p \in Pools
  PROVE  \/ chan'[p] = chan[p]
         \/ \E s \in Submitters : /\ Send(s) /\ pool[s] = p /\ Len(chan[p]) < Cap(p)
                                  /\ chan'[p] = Append(chan[p], task[s])
                                  /\ Len(chan'[p]) = Len(chan[p]) + 1
         \/ \E w \in Workers : /\ Receive(w) /\ w[1] = p /\ chan'[p] = Tail(chan[p]) /\ chan[p] # <<>>
                               /\ Len(chan'[p]) = Len(chan[p]) - 1
         \/ \E w \in Workers : Drain(w) /\ w[1] = p /\ chan'[p] = <<>>
  <1>1. chan \in [Pools -> Seq(Tasks)] BY DEF Typed, PoolsTyped
  <1>2. ASSUME NEW s \in Submitters, Send(s), chan'[p] # chan[p]
        PROVE  Send(s) /\ pool[s] = p /\ Len(chan[p]) < Cap(p) /\ chan'[p] = Append(chan[p], task[s]) /\ Len(chan'[p]) = Len(chan[p]) + 1
    <2>1. task[s] \in Tasks BY <1>2, SubmitterTask DEF Send
    <2>2. /\ chan' = [chan EXCEPT ![pool[s]] = Append(chan[pool[s]], task[s])]
          /\ Len(chan[pool[s]]) < Cap(pool[s])
      BY <1>2, <1>1 DEF Send
    <2>3. pool[s] = p BY <1>1, <1>2, <2>2
    <2>4. chan'[p] = Append(chan[p], task[s]) BY <1>1, <2>2, <2>3
    <2> QED BY <1>1, <1>2, <2>1, <2>2, <2>3, <2>4
  <1>3. ASSUME NEW w \in Workers, Receive(w), chan'[p] # chan[p]
        PROVE  Receive(w) /\ w[1] = p /\ chan'[p] = Tail(chan[p]) /\ chan[p] # <<>> /\ Len(chan'[p]) = Len(chan[p]) - 1
    <2>1. chan' = [chan EXCEPT ![w[1]] = Tail(chan[w[1]])] /\ chan[w[1]] # <<>> BY <1>3 DEF Receive
    <2>2. w[1] = p BY <1>1, <1>3, <2>1
    <2>3. chan'[p] = Tail(chan[p]) BY <1>1, <2>1, <2>2
    <2> QED BY <1>1, <1>3, <2>1, <2>2, <2>3
  <1>4. ASSUME NEW w \in Workers, Drain(w), chan'[p] # chan[p]
        PROVE  Drain(w) /\ w[1] = p /\ chan'[p] = <<>>
    <2>1. chan' = [chan EXCEPT ![w[1]] = SubSeq(chan[w[1]], Len(chan[w[1]]) + 1, Len(chan[w[1]]))]
      BY <1>4 DEF Drain, Drained
    <2>2. w[1] = p BY <1>1, <1>4, <2>1
    <2>3. chan'[p] = SubSeq(chan[p], Len(chan[p]) + 1, Len(chan[p])) BY <1>1, <2>1, <2>2
    <2>4. Len(chan[p]) \in Nat BY <1>1
    <2>5. SubSeq(chan[p], Len(chan[p]) + 1, Len(chan[p])) = <<>> BY <2>4
    <2> QED BY <1>4, <2>2, <2>3, <2>5
  <1> QED BY <1>2, <1>3, <1>4, ChanKept, Zenon

\* Reserve looks for room under submitMu, so the queue never lacks a place for
\* who reserved.
LEMMA SendNeverBlocksNext ==
  ASSUME Typed, Shape, Locks, SubmittingCount, SendNeverBlocks, [Next]_vars PROVE SendNeverBlocks'
  <1>1. ASSUME NEW p \in Pools PROVE Len(chan'[p]) + submitting'[p] <= PerWorker * size'[p]
    <2>1. /\ chan[p] \in Seq(Tasks) /\ chan'[p] \in Seq(Tasks) /\ submitting[p] \in Int
          /\ submitting'[p] \in Int
          /\ size[p] \in Nat /\ size'[p] \in Nat
      BY TypedNext DEF Typed, PoolsTyped, CountersTyped
    <2>2. Len(chan[p]) \in Nat /\ Len(chan'[p]) \in Nat BY <2>1
    <2>3. Len(chan[p]) + submitting[p] <= Cap(p) /\ Cap(p) \in Nat /\ PerWorker * size'[p] \in Nat
      BY <2>1, Assumed DEF SendNeverBlocks, Cap
    <2>4. CASE p <= made
      <3>1. PerWorker * size'[p] = Cap(p) BY <2>4, MadeGrows DEF Cap
      <3>2. Len(chan'[p]) + submitting'[p] <= Cap(p)
        <4>1. ASSUME NEW s \in Submitters, Send(s), pool[s] = p, Len(chan'[p]) = Len(chan[p]) + 1
              PROVE  submitting'[p] = submitting[p] - 1
          <5>1. task[s] \in Tasks /\ pool[s] = p BY <4>1, SubmitterTask DEF Send
          <5>2. chan' # chan BY <4>1, <2>2
          <5>3. submitting' = [submitting EXCEPT ![pool[s]] = submitting[pool[s]] - 1]
            BY <4>1, <5>2 DEF Send
          <5> QED BY <5>1, <5>3 DEF Typed, CountersTyped
        <4>2. ASSUME NEW s \in Submitters, Reserve(s), Room(p), submitting'[p] = submitting[p] + 1
              PROVE  Len(chan'[p]) + submitting'[p] <= Cap(p)
          <5>1. chan' = chan BY <4>2 DEF Reserve
          <5> QED BY <4>2, <5>1, <2>1, <2>2, <2>3 DEF Room
        <4>3. \/ Len(chan'[p]) <= Len(chan[p])
              \/ \E s \in Submitters : Send(s) /\ pool[s] = p /\ Len(chan'[p]) = Len(chan[p]) + 1
          <5>1. Len(<<>>) = 0 OBVIOUS
          <5> QED BY <2>1, <2>2, <5>1, ChanStep
        <4>4. \/ submitting'[p] <= submitting[p]
              \/ \E s \in Submitters : Reserve(s) /\ Room(p) /\ submitting'[p] = submitting[p] + 1
          BY <2>1, TaggingStep
        <4>5. CASE Len(chan'[p]) <= Len(chan[p]) BY <2>1, <2>2, <2>3, <4>2, <4>4, <4>5
        <4>6. ASSUME NEW s \in Submitters, Send(s), pool[s] = p, Len(chan'[p]) = Len(chan[p]) + 1
              PROVE  Len(chan'[p]) + submitting'[p] <= Cap(p)
          <5>1. submitting'[p] = submitting[p] - 1 BY <4>1, <4>6
          <5> QED BY <5>1, <4>6, <2>1, <2>2, <2>3
        <4> QED BY <4>3, <4>5, <4>6
      <3> QED BY <3>1, <3>2
    <2>5. CASE ~(p <= made)
      <3>1. p > made BY <2>5, MadeGrows
      <3>2. chan[p] = <<>> BY <3>1 DEF Shape, PoolShape
      <3>3. \A s \in Submitters : pool[s] # p
        <4>1. \A s \in Submitters : pool[s] <= made BY DEF Shape, SubmitterShape
        <4> QED BY <4>1, <2>5
      <3>4. Tagging(p) = {} BY <3>3 DEF Tagging, Reserving
      <3>5. submitting[p] = 0 BY <3>4, FS_EmptySet DEF SubmittingCount
      <3>6. submitting'[p] = submitting[p]
        <4>1. \A s \in Submitters : ~(pool[s] = p) BY <3>3
        <4> QED BY <4>1, <3>4, TaggingStep
      <3>7. chan'[p] = chan[p]
        <4>1. \A w \in Workers : Receive(w) \/ Drain(w) => w[1] <= made
          BY DEF Receive, Drain, Shape, WorkerShape
        <4> QED BY <4>1, <2>5, <3>3, ChanStep
      <3>8. Len(chan'[p]) = 0 BY <3>2, <3>7
      <3> QED BY <3>5, <3>6, <3>8, <2>3
    <2> QED BY <2>4, <2>5
  <1> QED BY <1>1 DEF SendNeverBlocks, Cap

-----------------------------------------------------------------------------
(* The counter of what is outstanding.                                     *)

\* What is in hand grows by the length of what a worker takes ...
LEMMA HandGrows ==
  ASSUME NEW j \in [Workers -> Seq(Tasks)], NEW p \in Pools, NEW w \in Workers, j[w] = <<>>,
         NEW x \in Seq(Tasks), IsFiniteSet(HandOf(j, p))
  PROVE  /\ IsFiniteSet(HandOf([j EXCEPT ![w] = x], p))
         /\ Cardinality(HandOf([j EXCEPT ![w] = x], p))
              = Cardinality(HandOf(j, p)) + (IF w[1] = p THEN Len(x) ELSE 0)
  <1> DEFINE k == [j EXCEPT ![w] = x]
             D == {w[2]} \X (1..Len(x))
  <1>1. w = <<w[1], w[2]>> /\ w[1] \in Pools /\ w[2] \in Slots BY DEF Workers
  <1>2. Len(x) \in Nat OBVIOUS
  <1>3. \A q \in Slots : <<p, q>> \in Workers BY DEF Workers
  <1>4. CASE w[1] = p
    <2>1. \A q \in Slots : Len(k[<<p, q>>]) = IF q = w[2] THEN Len(x) ELSE Len(j[<<p, q>>])
      <3>1. ASSUME NEW q \in Slots PROVE k[<<p, q>>] = IF q = w[2] THEN x ELSE j[<<p, q>>]
        <4>1. <<p, q>> = w <=> q = w[2] BY <1>1, <1>4
        <4> QED BY <1>3, <4>1
      <3> QED BY <3>1
    <2>2. Len(j[<<p, w[2]>>]) = 0
      <3>1. j[<<p, w[2]>>] = <<>> BY <1>1, <1>4
      <3> QED BY <3>1
    <2>3. HandOf(k, p) = HandOf(j, p) \cup D
      <3> HIDE DEF k
      <3>1. \A z \in Slots \X Nat : z[1] \in Slots /\ z[2] \in Nat OBVIOUS
      <3>2. ASSUME NEW z \in Slots \X Nat
            PROVE  z[2] \in 1..Len(k[<<p, z[1]>>]) <=> z[2] \in 1..Len(j[<<p, z[1]>>]) \/ z \in D
        <4>1. CASE z[1] = w[2]
          <5>1. Len(k[<<p, z[1]>>]) = Len(x) BY <2>1, <4>1, <1>1
          <5>2. Len(j[<<p, z[1]>>]) = 0 BY <2>2, <4>1
          <5>3. z \in D <=> z[2] \in 1..Len(x) BY <4>1
          <5> QED BY <5>1, <5>2, <5>3
        <4>2. CASE z[1] # w[2]
          <5>1. Len(k[<<p, z[1]>>]) = Len(j[<<p, z[1]>>]) BY <2>1, <4>2, <3>1
          <5>2. z \notin D BY <4>2
          <5> QED BY <5>1, <5>2
        <4> QED BY <4>1, <4>2
      <3>3. D \subseteq Slots \X Nat BY <1>1, <1>2
      <3> HIDE DEF D
      <3> QED BY <3>2, <3>3 DEF HandOf
    <2>4. HandOf(j, p) \cap D = {} 
      <3>1. ASSUME NEW z \in HandOf(j, p) PROVE z \notin D
        <4>1. CASE z[1] = w[2]
          <5>1. z[2] \in 1..Len(j[<<p, w[2]>>]) BY <3>1, <4>1 DEF HandOf
          <5> QED BY <5>1, <2>2
        <4>2. CASE z[1] # w[2] BY <4>2
        <4> QED BY <4>1, <4>2
      <3> QED BY <3>1
    <2>5. IsFiniteSet(D) /\ Cardinality(D) = Len(x)
      <3>1. IsFiniteSet({w[2]}) /\ Cardinality({w[2]}) = 1 BY FS_Singleton
      <3>2. IsFiniteSet(1..Len(x)) /\ Cardinality(1..Len(x)) = Len(x)
        <4>1. 1 \in Int /\ Len(x) \in Int BY <1>2
        <4>2. /\ IsFiniteSet(1..Len(x))
              /\ Cardinality(1..Len(x)) = IF 1 > Len(x) THEN 0 ELSE Len(x) - 1 + 1
          <5> HIDE DEF k, D
          <5> QED BY <4>1, FS_Interval
        <4> QED BY <4>2, <1>2
      <3>3. IsFiniteSet(D) /\ Cardinality(D) = Cardinality({w[2]}) * Cardinality(1..Len(x))
        BY <3>1, <3>2, FS_Product
      <3> QED BY <3>1, <3>2, <3>3, <1>2
    <2>6. /\ IsFiniteSet(HandOf(j, p) \cup D)
          /\ Cardinality(HandOf(j, p) \cup D) = Cardinality(HandOf(j, p)) + Cardinality(D) - Cardinality({})
      <3> HIDE DEF D
      <3> QED BY <2>4, <2>5, FS_Union
    <2>7. Cardinality(HandOf(j, p)) \in Nat BY FS_CardinalityType
    <2> HIDE DEF k, D
    <2>8. IsFiniteSet(HandOf(k, p)) /\ Cardinality(HandOf(k, p)) = Cardinality(HandOf(j, p)) + Len(x)
      BY <2>3, <2>5, <2>6, <2>7, <1>2, FS_EmptySet
    <2> QED BY <2>8, <1>4 DEF k
  <1>5. CASE w[1] # p
    <2>1. \A q \in Slots : k[<<p, q>>] = j[<<p, q>>]
      <3>1. \A q \in Slots : <<p, q>> # w BY <1>1, <1>5
      <3> QED BY <3>1, <1>3
    <2>2. HandOf(k, p) = HandOf(j, p) BY <2>1 DEF HandOf
    <2>3. Cardinality(HandOf(j, p)) \in Nat BY FS_CardinalityType
    <2> QED BY <2>2, <2>3, <1>5
  <1> QED BY <1>4, <1>5

\* ... and shrinks by the length of what it gives up.
LEMMA HandShrinks ==
  ASSUME NEW j \in [Workers -> Seq(Tasks)], NEW p \in Pools, NEW w \in Workers,
         IsFiniteSet(HandOf(j, p))
  PROVE  /\ IsFiniteSet(HandOf([j EXCEPT ![w] = <<>>], p))
         /\ Cardinality(HandOf([j EXCEPT ![w] = <<>>], p))
              = Cardinality(HandOf(j, p)) - (IF w[1] = p THEN Len(j[w]) ELSE 0)
  <1> DEFINE k == [j EXCEPT ![w] = <<>>]
  <1>1. /\ k \in [Workers -> Seq(Tasks)] /\ k[w] = <<>> /\ j = [k EXCEPT ![w] = j[w]]
        /\ j[w] \in Seq(Tasks)
    <2>1. <<>> \in Seq(Tasks) OBVIOUS
    <2>2. k \in [Workers -> Seq(Tasks)] BY <2>1
    <2>3. \A v \in Workers : [k EXCEPT ![w] = j[w]][v] = j[v] BY <2>2
    <2>4. j = [k EXCEPT ![w] = j[w]] BY <2>2, <2>3
    <2> QED BY <2>2, <2>4
  <1>2. \A v \in Workers : Len(k[v]) = 0 \/ k[v] = j[v]
    <2>1. Len(<<>>) = 0 OBVIOUS
    <2> QED BY <2>1
  <1>3. HandOf(k, p) \subseteq HandOf(j, p)
    <2> HIDE DEF k
    <2>1. \A q \in Slots : <<p, q>> \in Workers BY DEF Workers
    <2>2. ASSUME NEW z \in HandOf(k, p) PROVE z \in HandOf(j, p)
      <3>1. z \in Slots \X Nat /\ z[1] \in Slots /\ z[2] \in 1..Len(k[<<p, z[1]>>]) BY <2>2 DEF HandOf
      <3>2. Len(k[<<p, z[1]>>]) # 0 BY <3>1
      <3>3. k[<<p, z[1]>>] = j[<<p, z[1]>>] BY <3>1, <3>2, <1>2, <2>1
      <3> QED BY <3>1, <3>3 DEF HandOf
    <2> QED BY <2>2
  <1>4. IsFiniteSet(HandOf(k, p)) BY <1>3, FS_Subset
  <1> HIDE DEF k
  <1>5. Cardinality(HandOf(j, p)) = Cardinality(HandOf(k, p)) + (IF w[1] = p THEN Len(j[w]) ELSE 0)
    <2>1. Cardinality(HandOf([k EXCEPT ![w] = j[w]], p)) = Cardinality(HandOf(k, p)) + (IF w[1] = p THEN Len(j[w]) ELSE 0)
      BY <1>1, <1>4, HandGrows
    <2> QED BY <2>1, <1>1
  <1>6. Cardinality(HandOf(k, p)) \in Nat /\ Len(j[w]) \in Nat BY <1>1, <1>4, FS_CardinalityType
  <1>7. /\ IsFiniteSet(HandOf(k, p))
        /\ Cardinality(HandOf(k, p)) = Cardinality(HandOf(j, p)) - (IF w[1] = p THEN Len(j[w]) ELSE 0)
    BY <1>4, <1>5, <1>6
  <1> QED BY <1>7 DEF k

\* outstanding counts the places taken, the queue and the tasks in the workers'
\* hands.
LEMMA OutstandingCountNext ==
  ASSUME Typed, Shape, Locks, OutstandingCount, [Next]_vars PROVE OutstandingCount'
  <1>0. /\ submitting \in [Pools -> Int] /\ outstanding \in [Pools -> Int]
        /\ chan \in [Pools -> Seq(Tasks)] /\ job \in [Workers -> Seq(Tasks)]
    BY DEF Typed, CountersTyped, PoolsTyped, WorkersTyped
  <1> SUFFICES ASSUME NEW p \in Pools
               PROVE  IsFiniteSet(HandOf(job', p)) /\ outstanding'[p] = submitting'[p] + Len(chan'[p]) + Cardinality(HandOf(job', p))
    BY DEF OutstandingCount, InHand
  <1> DEFINE Goal == IsFiniteSet(HandOf(job', p)) /\ outstanding'[p] = submitting'[p] + Len(chan'[p]) + Cardinality(HandOf(job', p))
  <1>1. /\ IsFiniteSet(HandOf(job, p))
        /\ outstanding[p] = submitting[p] + Len(chan[p]) + Cardinality(HandOf(job, p))
        /\ Cardinality(HandOf(job, p)) \in Nat /\ Len(chan[p]) \in Nat /\ submitting[p] \in Int
    BY <1>0, FS_CardinalityType DEF OutstandingCount, InHand
  <1>2. ASSUME UNCHANGED <<submitting, outstanding, chan, job>> PROVE Goal BY <1>1, <1>2
  <1>3. ASSUME NEW s \in Submitters, Submit(s) \/ \E t \in Tasks : Begin(s, t) PROVE Goal
    <2>1. CASE ~(Reserve(s) \/ Send(s) \/ Drop(s))
      BY <1>2, <1>3, <2>1 DEF Submit, Begin, Load, Create, Reopen, Query, Decide, Choose, ClaimRow,
         Back, counters, workers
    <2>2. CASE Reserve(s)
      <3>1. job' = job /\ chan' = chan BY <2>2 DEF Reserve, workers
      <3>2. \/ UNCHANGED <<submitting, outstanding>>
            \/ /\ submitting' = [submitting EXCEPT ![pool[s]] = submitting[pool[s]] + 1]
               /\ outstanding' = [outstanding EXCEPT ![pool[s]] = outstanding[pool[s]] + 1]
        BY <2>2 DEF Reserve
      <3>3. CASE submitting'[p] = submitting[p] /\ outstanding'[p] = outstanding[p] BY <1>1, <3>1, <3>3
      <3>4. CASE submitting'[p] = submitting[p] + 1 /\ outstanding'[p] = outstanding[p] + 1
        BY <1>1, <3>1, <3>4
      <3> QED BY <1>0, <3>2, <3>3, <3>4
    <2>3. CASE Drop(s)
      <3>1. job' = job /\ chan' = chan BY <2>3 DEF Drop, workers
      <3>2. /\ submitting' = [submitting EXCEPT ![pool[s]] = submitting[pool[s]] - 1]
            /\ outstanding' = [outstanding EXCEPT ![pool[s]] = outstanding[pool[s]] - 1]
        BY <2>3 DEF Drop
      <3>3. CASE pool[s] = p
        <4>1. submitting'[p] = submitting[p] - 1 /\ outstanding'[p] = outstanding[p] - 1
          BY <1>0, <3>2, <3>3
        <4> QED BY <1>1, <3>1, <4>1
      <3>4. CASE pool[s] # p
        <4>1. submitting'[p] = submitting[p] /\ outstanding'[p] = outstanding[p] BY <1>0, <3>2, <3>4
        <4> QED BY <1>1, <3>1, <4>1
      <3> QED BY <3>3, <3>4
    <2>4. CASE Send(s)
      <3>1. job' = job /\ outstanding' = outstanding BY <2>4 DEF Send, workers
      <3>2. CASE UNCHANGED <<chan, submitting, task, conc, pool, busy>> BY <3>1, <3>2, <1>2
      <3>3. CASE /\ chan' = [chan EXCEPT ![pool[s]] = Append(chan[pool[s]], task[s])]
                 /\ submitting' = [submitting EXCEPT ![pool[s]] = submitting[pool[s]] - 1]
        <4>1. task[s] \in Tasks BY <2>4, SubmitterTask DEF Send
        <4>2. CASE pool[s] = p
          <5>1. chan'[p] = Append(chan[p], task[s]) /\ submitting'[p] = submitting[p] - 1
            BY <1>0, <3>3, <4>2
          <5>2. Len(chan'[p]) = Len(chan[p]) + 1 BY <1>0, <4>1, <5>1
          <5> QED BY <1>1, <3>1, <5>1, <5>2
        <4>3. CASE pool[s] # p
          <5>1. chan'[p] = chan[p] /\ submitting'[p] = submitting[p] BY <1>0, <3>3, <4>3
          <5> QED BY <1>1, <3>1, <5>1
        <4> QED BY <4>2, <4>3
      <3> QED BY <2>4, <3>2, <3>3 DEF Send
    <2> QED BY <2>1, <2>2, <2>3, <2>4
  <1>4. ASSUME NEW w \in Workers, Work(w) PROVE Goal
    <2>0. w[1] \in Pools BY DEF Workers
    <2>1. CASE Register(w) \/ Claim(w) \/ Execute(w) \/ DropContext(w)
      BY <1>2, <2>1 DEF Register, Claim, Execute, DropContext, counters
    <2>2. CASE Receive(w)
      <3>1. /\ chan' = [chan EXCEPT ![w[1]] = Tail(chan[w[1]])] /\ chan[w[1]] # <<>>
            /\ job' = [job EXCEPT ![w] = <<Head(chan[w[1]])>>] /\ submitting' = submitting
            /\ outstanding' = outstanding
        BY <2>2 DEF Receive, counters
      <3>2. job[w] = <<>> BY <2>2 DEF Receive, Shape, WorkerShape
      <3>3. <<Head(chan[w[1]])>> \in Seq(Tasks) /\ Len(<<Head(chan[w[1]])>>) = 1
        <4>1. Head(chan[w[1]]) \in Tasks BY <1>0, <2>0, <3>1
        <4> QED BY <4>1
      <3>4. /\ IsFiniteSet(HandOf(job', p))
            /\ Cardinality(HandOf(job', p)) = Cardinality(HandOf(job, p)) + (IF w[1] = p THEN 1 ELSE 0)
        BY <1>0, <1>1, <3>1, <3>2, <3>3, HandGrows
      <3>5. CASE w[1] = p
        <4>1. chan'[p] = Tail(chan[p]) /\ chan[p] # <<>> BY <1>0, <3>1, <3>5
        <4>2. Len(chan'[p]) = Len(chan[p]) - 1 BY <1>0, <4>1
        <4>3. Cardinality(HandOf(job', p)) = Cardinality(HandOf(job, p)) + 1 BY <3>4, <3>5
        <4>4. outstanding'[p] = outstanding[p] /\ submitting'[p] = submitting[p] BY <3>1
        <4>5. IsFiniteSet(HandOf(job', p)) BY <3>4
        <4>6. outstanding'[p] = submitting'[p] + Len(chan'[p]) + Cardinality(HandOf(job', p))
          BY <1>1, <4>2, <4>3, <4>4
        <4> QED BY <4>5, <4>6
      <3>6. CASE w[1] # p
        <4>1. chan'[p] = chan[p] BY <1>0, <3>1, <3>6
        <4> QED BY <1>1, <3>1, <3>4, <3>6, <4>1
      <3> QED BY <3>5, <3>6
    <2>3. CASE Leave(w)
      <3>1. /\ chan' = chan /\ submitting' = submitting
            /\ outstanding' = [outstanding EXCEPT ![w[1]] = outstanding[w[1]] - 1]
            /\ job' = [job EXCEPT ![w] = <<>>]
        BY <2>3 DEF Leave
      <3>2. Len(job[w]) = 1 BY <2>3, JobTask DEF Leave, AtTask
      <3>3. /\ IsFiniteSet(HandOf(job', p))
            /\ Cardinality(HandOf(job', p)) = Cardinality(HandOf(job, p)) - (IF w[1] = p THEN 1 ELSE 0)
        BY <1>0, <1>1, <3>1, <3>2, HandShrinks
      <3>4. Cardinality(HandOf(job', p)) \in Nat BY <3>3, FS_CardinalityType
      <3> QED BY <1>0, <1>1, <3>1, <3>3, <3>4
    <2>4. CASE Release(w) \/ Exit(w)
      <3>1. /\ chan' = chan /\ submitting' = submitting
            /\ outstanding' = [outstanding EXCEPT ![w[1]] = outstanding[w[1]] - Len(job[w])]
            /\ job' = [job EXCEPT ![w] = <<>>]
        BY <2>4 DEF Release, Exit, Returned
      <3>2. Len(job[w]) \in Nat BY <1>0
      <3>3. /\ IsFiniteSet(HandOf(job', p))
            /\ Cardinality(HandOf(job', p)) = Cardinality(HandOf(job, p)) - (IF w[1] = p THEN Len(job[w]) ELSE 0)
        BY <1>0, <1>1, <3>1, HandShrinks
      <3>4. Cardinality(HandOf(job', p)) \in Nat BY <3>3, FS_CardinalityType
      <3> QED BY <1>0, <1>1, <3>1, <3>2, <3>3, <3>4
    <2>5. CASE Drain(w)
      <3>1. /\ chan' = [chan EXCEPT ![w[1]] = SubSeq(chan[w[1]], Len(chan[w[1]]) + 1, Len(chan[w[1]]))]
            /\ job' = [job EXCEPT ![w] = chan[w[1]]] /\ submitting' = submitting
            /\ outstanding' = outstanding
        BY <2>5 DEF Drain, Drained, counters
      <3>2. job[w] = <<>> BY <2>5 DEF Drain, Shape, WorkerShape
      <3>3. chan[w[1]] \in Seq(Tasks) BY <1>0, <2>0
      <3>4. /\ IsFiniteSet(HandOf(job', p))
            /\ Cardinality(HandOf(job', p)) = Cardinality(HandOf(job, p)) + (IF w[1] = p THEN Len(chan[w[1]]) ELSE 0)
        BY <1>0, <1>1, <3>1, <3>2, <3>3, HandGrows
      <3>5. CASE w[1] = p
        <4>1. chan'[p] = SubSeq(chan[p], Len(chan[p]) + 1, Len(chan[p])) BY <1>0, <3>1, <3>5
        <4>2. SubSeq(chan[p], Len(chan[p]) + 1, Len(chan[p])) = <<>> BY <1>1
        <4>3. Len(chan'[p]) = 0 BY <4>1, <4>2
        <4>4. Cardinality(HandOf(job', p)) = Cardinality(HandOf(job, p)) + Len(chan[p]) BY <3>4, <3>5
        <4> QED BY <1>1, <3>1, <3>4, <4>3, <4>4
      <3>6. CASE w[1] # p
        <4>1. chan'[p] = chan[p] BY <1>0, <3>1, <3>6
        <4> QED BY <1>1, <3>1, <3>4, <3>6, <4>1
      <3> QED BY <3>5, <3>6
    <2> QED BY <1>4, <2>1, <2>2, <2>3, <2>4, <2>5 DEF Work
  <1>5. ASSUME \/ (\E t \in Tasks : PostProcess(t) \/ Withdraw(t))
               \/ Closing \/ IdleSnapshot \/ DeleteProvider \/ Resize \/ StopService \/ CancelAll
               \/ Stopped \/ UNCHANGED vars
        PROVE  Goal
    BY <1>2, <1>5 DEF PostProcess, Withdraw, Closing, DeleteLook, Delete, IdleCheck, IdleLook,
       IdleClose, IdleRemove, IdleSnapshot,
         DeleteProvider, Resize, StopService, CancelAll, Stopped, vars, counters, workers
  <1>6. Goal
    <2> HIDE DEF Goal
    <2> QED BY <1>3, <1>4, <1>5 DEF Next, Workers
  <1> QED BY <1>6

-----------------------------------------------------------------------------
(* The contexts and their counter.                                         *)

\* What a step does to the places of the workers.
LEMMA PlacesStep ==
  ASSUME Typed, Shape, Locks, [Next]_vars
  PROVE  \/ wpc' = wpc
         \/ \E s \in Submitters : (Create(s) \/ Choose(s)) /\ CreatePool(conc[s]) /\ Made \in Pools
         \/ \E w \in Workers : Work(w)
  <1>1. ASSUME NEW s \in Submitters, Create(s) \/ Choose(s), wpc' # wpc
        PROVE  CreatePool(conc[s]) /\ Made \in Pools
    <2>1. CreatePool(conc[s]) BY <1>1 DEF Create, Choose, Keep
    <2>2. spc[s] = "create" => made < MaxPool BY <1>1 DEF Create, Choose
    <2>3. Made \in Pools BY <1>1, <2>2, MadeTyped DEF Create, Choose
    <2> QED BY <2>1, <2>3
  <1> QED BY <1>1, WorkersKept DEF Work

\* A worker's step moves no other worker.
LEMMA OneMoves ==
  ASSUME Typed, NEW w \in Workers, Work(w)
  PROVE  \A v \in Workers \ {w} : wpc'[v] = wpc[v] /\ job'[v] = job[v]
  BY DEF Typed, WorkersTyped, Work, Receive, Register, Claim, Execute, DropContext, Leave, Release,
     Drain, Exit, Returned, Move

\* The workers of a new pool begin idle, and there were none.
LEMMA WorkersMade ==
  ASSUME Typed, Shape, NEW s \in Submitters, CreatePool(conc[s])
  PROVE  /\ made' = made + 1
         /\ \A w \in Workers : IF w[1] = made + 1 THEN wpc[w] = "none" /\ wpc'[w] = (IF w[2] <= conc[s] THEN "idle" ELSE "none")
                                                  ELSE wpc'[w] = wpc[w]
  <1>1. made \in Nat /\ \A p \in Pools : p \in Nat BY Assumed DEF Typed, PoolsTyped, Pools
  <1>2. wpc \in [Workers -> {"none", "idle", "start", "claim", "run", "leave", "left", "release", "drain"}]
    BY DEF Typed, WorkersTyped
  <1>3. \A w \in Workers : w[1] \in Pools BY DEF Workers
  <1>4. \A w \in Workers : w[1] = made + 1 => wpc[w] = "none" BY <1>1, <1>3 DEF Shape, WorkerShape
  <1>5. made' = made + 1 /\ \A w \in Workers : wpc'[w] = IF w[1] = made + 1 /\ w[2] <= conc[s] THEN "idle" ELSE wpc[w]
    BY DEF CreatePool, Made, Workers
  <1> QED BY <1>4, <1>5

\* Register looks for the context of the task before it makes one.
LEMMA ContextsNext == ASSUME Typed, Shape, Locks, Contexts, [Next]_vars PROVE Contexts'
  <1>0. /\ helper \in [Tasks -> Pools \cup {NoPool}] /\ job \in [Workers -> Seq(Tasks)]
        /\ wpc \in [Workers -> {"none", "idle", "start", "claim", "run", "leave", "left", "release", "drain"}]
    BY DEF Typed, RowsTyped, WorkersTyped
  <1>1. \A w \in Workers : wpc[w] \in InContext =>
           /\ job[w] = <<job[w][1]>> /\ job[w][1] \in Tasks /\ helper[job[w][1]] = NoPool
           /\ \A v \in Workers : wpc[v] \in InContext /\ job[v] = job[w] => v = w
    BY JobTask DEF Contexts, InContext, AtTask
  <1>2. ASSUME \A w \in Workers : wpc'[w] \in InContext => wpc[w] \in InContext /\ job'[w] = job[w],
               \A t \in Tasks : helper[t] = NoPool => helper'[t] = NoPool
        PROVE  Contexts'
    BY <1>1, <1>2 DEF Contexts
  <1>3. ASSUME NEW w \in Workers, Work(w) PROVE Contexts'
    <2>1. \A v \in Workers \ {w} : wpc'[v] = wpc[v] /\ job'[v] = job[v] BY <1>3, OneMoves
    <2>2. CASE Receive(w) \/ DropContext(w) \/ Leave(w) \/ Release(w) \/ Drain(w) \/ Exit(w)
      <3>1. wpc'[w] \notin InContext /\ helper' = helper
        BY <2>2, <1>0 DEF Receive, DropContext, Leave, Release, Drain, Exit, Returned, Move, InContext
      <3> QED BY <2>1, <3>1, <1>2
    <2>3. CASE Claim(w) \/ (Execute(w) /\ helper' = helper)
      <3>1. wpc[w] \in InContext /\ job' = job /\ helper' = helper BY <2>3 DEF Claim, Execute, InContext
      <3> QED BY <2>1, <3>1, <1>2
    <2>4. CASE Register(w)
      <3>1. job' = job /\ helper' = helper BY <2>4 DEF Register
      <3>2. CASE HasContext(job[w][1])
        <4>1. wpc'[w] \notin InContext BY <2>4, <3>2, <1>0 DEF Register, Move, InContext
        <4> QED BY <2>1, <3>1, <4>1, <1>2
      <3>3. CASE ~HasContext(job[w][1])
        <4>1. job[w] = <<job[w][1]>> /\ job[w][1] \in Tasks BY <2>4, JobTask DEF Register, AtTask
        <4>2. helper[job[w][1]] = NoPool /\ \A v \in Workers : wpc[v] \in InContext => job[v] # <<job[w][1]>>
          BY <3>3 DEF HasContext, InContext, Workers
        <4>3. \A v \in Workers : wpc[v] \in InContext => job[v] # job[w] BY <4>1, <4>2
        <4>4. ASSUME NEW u \in Workers, wpc'[u] \in InContext PROVE helper'[job'[u][1]] = NoPool
          BY <2>1, <3>1, <4>2, <4>4, <1>1
        <4>5. ASSUME NEW u \in Workers, NEW v \in Workers, wpc'[u] \in InContext, wpc'[v] \in InContext,
                     job'[v] = job'[u]
              PROVE  v = u
          BY <2>1, <3>1, <4>3, <4>5, <1>1
        <4> QED BY <4>4, <4>5 DEF Contexts
      <3> QED BY <3>2, <3>3
    <2>5. CASE Execute(w) /\ helper' = [helper EXCEPT ![job[w][1]] = w[1]] /\ Move(w, LeftToHelper)
      <3>1. wpc[w] \in InContext /\ job' = job /\ wpc'[w] \notin InContext
        BY <2>5, <1>0 DEF Execute, InContext, Move, LeftToHelper
      <3>2. ASSUME NEW u \in Workers, wpc'[u] \in InContext
            PROVE  wpc[u] \in InContext /\ helper'[job[u][1]] = NoPool
        <4>1. u # w /\ wpc[u] \in InContext BY <2>1, <3>1, <3>2
        <4>2. job[u] # job[w] BY <4>1, <3>1, <1>1
        <4>3. job[u][1] # job[w][1] BY <4>1, <4>2, <3>1, <1>1
        <4> QED BY <2>5, <4>1, <4>3, <1>0, <1>1
      <3> QED BY <3>1, <3>2, <1>1 DEF Contexts
    <2> QED BY <1>3, <2>2, <2>3, <2>4, <2>5 DEF Work, Execute
  <1>4. ASSUME NEW s \in Submitters, Create(s) \/ Choose(s), CreatePool(conc[s]) PROVE Contexts'
    <2>1. job' = job /\ helper' = helper BY <1>4 DEF Create, Choose
    <2>2. \A w \in Workers : wpc'[w] = wpc[w] \/ wpc'[w] \in {"idle", "none"} BY <1>4, WorkersMade
    <2> QED BY <2>1, <2>2, <1>2 DEF InContext
  <1>5. CASE wpc' = wpc /\ ~\E w \in Workers : Work(w)
    <2>1. job' = job
      <3>1. \A s \in Submitters : Create(s) \/ Choose(s) => job' = job BY DEF Create, Choose
      <3> QED BY <3>1, <1>5, WorkersKept DEF Work
    <2>2. \A t \in Tasks : helper[t] = NoPool => helper'[t] = NoPool
      <3>1. \A s \in Submitters : Reserve(s) \/ ClaimRow(s) \/ Back(s) => helper' = helper
        BY DEF Reserve, ClaimRow, Back, workers
      <3>2. ASSUME NEW t \in Tasks, PostProcess(t) \/ Withdraw(t) PROVE <2>2
        BY <3>2, <1>0 DEF PostProcess, Withdraw, workers
      <3> QED BY <3>1, <3>2, <1>5, RowsKept DEF Work
    <2> QED BY <1>5, <2>1, <2>2, <1>2
  <1> QED BY <1>3, <1>4, <1>5, PlacesStep

LEMMA SlotsFinite == IsFiniteSet(Slots) /\ (\A p : IsFiniteSet(Owning(p)) /\ IsFiniteSet(Left(p)) /\ IsFiniteSet(Living(p)))
  <1>1. 1 \in Int /\ MaxSize \in Int BY Assumed
  <1>2. IsFiniteSet(Slots) BY <1>1, FS_Interval DEF Slots
  <1>3. \A p : Owning(p) \subseteq Slots /\ Living(p) \subseteq Slots /\ Left(p) \subseteq Tasks
    BY DEF Owning, Living, Left
  <1>4. \A p : IsFiniteSet(Owning(p)) /\ IsFiniteSet(Living(p)) BY <1>2, <1>3, FS_Subset
  <1>5. \A p : IsFiniteSet(Left(p)) BY <1>3, SetsAssumed, FS_Subset
  <1> QED BY <1>2, <1>4, <1>5

\* owned counts the workers in a context and the tasks left to a goroutine.
LEMMA OwnedCountNext == ASSUME Typed, Shape, Locks, Contexts, OwnedCount, [Next]_vars PROVE OwnedCount'
  <1>0. /\ helper \in [Tasks -> Pools \cup {NoPool}] /\ owned \in [Pools -> Int]
        /\ wpc \in [Workers -> {"none", "idle", "start", "claim", "run", "leave", "left", "release", "drain"}]
    BY DEF Typed, RowsTyped, WorkersTyped, CountersTyped
  <1> SUFFICES ASSUME NEW p \in Pools PROVE owned'[p] = Cardinality(Owning(p)') + Cardinality(Left(p)')
    BY DEF OwnedCount
  <1> DEFINE Goal == owned'[p] = Cardinality(Owning(p)') + Cardinality(Left(p)')
  <1>1. /\ owned[p] = Cardinality(Owning(p)) + Cardinality(Left(p)) /\ IsFiniteSet(Owning(p))
        /\ IsFiniteSet(Left(p))
        /\ Cardinality(Owning(p)) \in Nat /\ Cardinality(Left(p)) \in Nat
    BY SlotsFinite, FS_CardinalityType DEF OwnedCount
  <1>2. \A k \in Slots : <<p, k>> \in Workers BY DEF Workers
  <1>3. ASSUME \A w \in Workers : wpc'[w] \in InContext <=> wpc[w] \in InContext, helper' = helper,
               owned' = owned
        PROVE  Goal
    <2>1. Owning(p)' = Owning(p) BY <1>2, <1>3 DEF Owning
    <2>2. Left(p)' = Left(p) BY <1>3 DEF Left
    <2> QED BY <2>1, <2>2, <1>1, <1>3
  <1>4. ASSUME NEW w \in Workers, Work(w) PROVE Goal
    <2>0. w = <<w[1], w[2]>> /\ w[1] \in Pools /\ w[2] \in Slots BY DEF Workers
    <2>1. \A v \in Workers \ {w} : wpc'[v] = wpc[v] BY <1>4, OneMoves
    <2>2. CASE Receive(w) \/ Leave(w) \/ Release(w) \/ Drain(w) \/ Exit(w)
      <3>1. wpc[w] \notin InContext /\ wpc'[w] \notin InContext /\ helper' = helper /\ owned' = owned
        BY <2>2, <1>0 DEF Receive, Leave, Release, Drain, Exit, Returned, Move, InContext, counters
      <3> QED BY <2>1, <3>1, <1>3
    <2>3. CASE Claim(w) \/ (Execute(w) /\ UNCHANGED helper /\ Move(w, "leave"))
      <3>1. wpc[w] \in InContext /\ wpc'[w] \in InContext /\ helper' = helper /\ owned' = owned
        BY <2>3, <1>0 DEF Claim, Execute, Move, InContext, counters
      <3> QED BY <2>1, <3>1, <1>3
    <2>4. CASE Register(w) /\ Move(w, "left") /\ UNCHANGED owned
      <3>1. wpc[w] \notin InContext /\ wpc'[w] \notin InContext /\ helper' = helper
        BY <2>4, <1>0 DEF Register, Move, InContext
      <3> QED BY <2>1, <2>4, <3>1, <1>3
    <2>5. CASE Register(w) /\ Move(w, "claim") /\ owned' = [owned EXCEPT ![w[1]] = owned[w[1]] + 1]
      <3>1. wpc[w] \notin InContext /\ wpc'[w] \in InContext /\ helper' = helper
        BY <2>5, <1>0 DEF Register, Move, InContext
      <3>2. Left(p)' = Left(p) BY <3>1 DEF Left
      <3>3. CASE w[1] = p
        <4>1. w[2] \notin Owning(p) BY <3>1, <3>3, <2>0 DEF Owning
        <4>2. Owning(p)' = Owning(p) \cup {w[2]} BY <2>0, <2>1, <3>1, <3>3, <1>2 DEF Owning
        <4>3. Cardinality(Owning(p)') = Cardinality(Owning(p)) + 1 BY <4>1, <4>2, <1>1, FS_AddElement
        <4>4. owned'[p] = owned[p] + 1 BY <2>5, <1>0, <3>3
        <4> QED BY <3>2, <4>3, <4>4, <1>1
      <3>4. CASE w[1] # p
        <4>1. \A k \in Slots : <<p, k>> # w BY <2>0, <3>4
        <4>2. Owning(p)' = Owning(p) BY <2>1, <4>1, <1>2 DEF Owning
        <4>3. owned'[p] = owned[p] BY <2>5, <1>0, <3>4
        <4> QED BY <3>2, <4>2, <4>3, <1>1
      <3> QED BY <3>3, <3>4
    <2>6. CASE DropContext(w)
      <3>1. /\ wpc[w] \in InContext /\ wpc'[w] \notin InContext /\ helper' = helper
            /\ owned' = [owned EXCEPT ![w[1]] = owned[w[1]] - 1]
        BY <2>6, <1>0 DEF DropContext, Move, InContext
      <3>2. Left(p)' = Left(p) BY <3>1 DEF Left
      <3>3. CASE w[1] = p
        <4>1. w[2] \in Owning(p) BY <3>1, <3>3, <2>0 DEF Owning
        <4>2. Owning(p)' = Owning(p) \ {w[2]} BY <2>0, <2>1, <3>1, <3>3, <1>2 DEF Owning
        <4>a. Cardinality(Owning(p) \ {w[2]}) = Cardinality(Owning(p)) - 1
          <5>1. IsFiniteSet(Owning(p)) BY <1>1
          <5> HIDE DEF Goal
          <5> QED BY <4>1, <5>1, FS_RemoveElement
        <4>3. Cardinality(Owning(p)') = Cardinality(Owning(p)) - 1 BY <4>a, <4>2
        <4>4. owned'[p] = owned[p] - 1 BY <3>1, <1>0, <3>3
        <4> QED BY <3>2, <4>3, <4>4, <1>1
      <3>4. CASE w[1] # p
        <4>1. \A k \in Slots : <<p, k>> # w BY <2>0, <3>4
        <4>2. Owning(p)' = Owning(p) BY <2>1, <4>1, <1>2 DEF Owning
        <4>3. owned'[p] = owned[p] BY <3>1, <1>0, <3>4
        <4> QED BY <3>2, <4>2, <4>3, <1>1
      <3> QED BY <3>3, <3>4
    <2>7. CASE Execute(w) /\ helper' = [helper EXCEPT ![job[w][1]] = w[1]] /\ Move(w, LeftToHelper)
      <3> DEFINE t == job[w][1]
      <3>1. wpc[w] \in InContext /\ wpc'[w] \notin InContext /\ owned' = owned
        BY <2>7, <1>0 DEF Execute, Move, InContext, LeftToHelper, counters
      <3>2. t \in Tasks /\ helper[t] = NoPool BY <2>7, JobTask DEF Execute, AtTask, Contexts, InContext
      <3>3. p # NoPool BY MadeGrows DEF NoPool
      <3> HIDE DEF t
      <3>4. helper' = [helper EXCEPT ![t] = w[1]] BY <2>7 DEF t
      <3>5. CASE w[1] = p
        <4>1. w[2] \in Owning(p) BY <3>1, <3>5, <2>0 DEF Owning
        <4>2. Owning(p)' = Owning(p) \ {w[2]} BY <2>0, <2>1, <3>1, <3>5, <1>2 DEF Owning
        <4>a. Cardinality(Owning(p) \ {w[2]}) = Cardinality(Owning(p)) - 1
          <5>1. IsFiniteSet(Owning(p)) BY <1>1
          <5> HIDE DEF Goal
          <5> QED BY <4>1, <5>1, FS_RemoveElement
        <4>3. Cardinality(Owning(p)') = Cardinality(Owning(p)) - 1 BY <4>a, <4>2
        <4>4. t \notin Left(p) BY <3>2, <3>3 DEF Left
        <4>5. Left(p)' = Left(p) \cup {t} BY <3>2, <3>4, <3>5, <1>0 DEF Left
        <4>6. Cardinality(Left(p)') = Cardinality(Left(p)) + 1 BY <4>4, <4>5, <1>1, FS_AddElement
        <4> QED BY <3>1, <4>3, <4>6, <1>1
      <3>6. CASE w[1] # p
        <4>1. \A k \in Slots : <<p, k>> # w BY <2>0, <3>6
        <4>2. Owning(p)' = Owning(p) BY <2>1, <4>1, <1>2 DEF Owning
        <4>3. Left(p)' = Left(p) BY <3>2, <3>3, <3>4, <3>6, <1>0 DEF Left
        <4> QED BY <3>1, <4>2, <4>3, <1>1
      <3> QED BY <3>5, <3>6
    <2> QED BY <1>4, <2>2, <2>3, <2>4, <2>5, <2>6, <2>7 DEF Work, Execute, Register
  <1>5. ASSUME NEW s \in Submitters, Create(s) \/ Choose(s), CreatePool(conc[s]) PROVE Goal
    <2>1. helper' = helper /\ owned' = owned BY <1>5 DEF Create, Choose
    <2>2. \A w \in Workers : wpc'[w] = wpc[w] \/ (wpc'[w] \in {"idle", "none"} /\ wpc[w] = "none")
      BY <1>5, WorkersMade
    <2> QED BY <2>1, <2>2, <1>3 DEF InContext
  <1>6. ASSUME NEW t \in Tasks, PostProcess(t) PROVE Goal
    <2>1. /\ wpc' = wpc /\ helper[t] \in Pools
          /\ owned' = [owned EXCEPT ![helper[t]] = owned[helper[t]] - 1]
          /\ helper' = [helper EXCEPT ![t] = NoPool]
      BY <1>6, <1>0 DEF PostProcess
    <2>2. Owning(p)' = Owning(p) BY <2>1 DEF Owning
    <2>3. p # NoPool BY MadeGrows DEF NoPool
    <2>4. CASE helper[t] = p
      <3>1. t \in Left(p) BY <2>4 DEF Left
      <3>2. Left(p)' = Left(p) \ {t} BY <2>1, <2>3, <2>4, <1>0 DEF Left
      <3>3. Cardinality(Left(p)') = Cardinality(Left(p)) - 1 BY <3>1, <3>2, <1>1, FS_RemoveElement
      <3>4. owned'[p] = owned[p] - 1 BY <2>1, <2>4, <1>0
      <3> QED BY <2>2, <3>3, <3>4, <1>1
    <2>5. CASE helper[t] # p
      <3>1. Left(p)' = Left(p) BY <2>1, <2>3, <2>5, <1>0 DEF Left
      <3>2. owned'[p] = owned[p] BY <2>1, <2>5, <1>0
      <3> QED BY <2>2, <3>1, <3>2, <1>1
    <2> QED BY <2>4, <2>5
  <1>7. ASSUME wpc' = wpc, ~\E w \in Workers : Work(w), ~\E t \in Tasks : PostProcess(t) PROVE Goal
    <2>1. owned' = owned BY <1>7, OwnedKept DEF Work
    <2>2. helper' = helper
      <3>1. \A s \in Submitters : Reserve(s) \/ ClaimRow(s) \/ Back(s) => helper' = helper
        BY DEF Reserve, ClaimRow, Back, workers
      <3>2. \A t \in Tasks : Withdraw(t) => helper' = helper BY DEF Withdraw, workers
      <3> QED BY <3>1, <3>2, <1>7, RowsKept DEF Work
    <2> QED BY <1>7, <2>1, <2>2, <1>3
  <1>8. Goal
    <2> HIDE DEF Goal
    <2> QED BY <1>4, <1>5, <1>6, <1>7, PlacesStep
  <1> QED BY <1>8

-----------------------------------------------------------------------------
(* The workers and their counter; a worker that ends drains the queue.     *)

\* live counts the workers of a pool.
LEMMA LiveCountNext == ASSUME Typed, Shape, Locks, LiveCount, [Next]_vars PROVE LiveCount'
  <1>0. /\ live \in [Pools -> Int] /\ made \in Nat /\ \A p \in Pools : p \in Nat
        /\ wpc \in [Workers -> {"none", "idle", "start", "claim", "run", "leave", "left", "release", "drain"}]
    BY Assumed DEF Typed, WorkersTyped, CountersTyped, PoolsTyped, Pools
  <1> SUFFICES ASSUME NEW p \in Pools PROVE live'[p] = Cardinality(Living(p)')
    BY DEF LiveCount
  <1> DEFINE Goal == live'[p] = Cardinality(Living(p)')
  <1>1. live[p] = Cardinality(Living(p)) /\ IsFiniteSet(Living(p)) /\ Cardinality(Living(p)) \in Nat
    BY SlotsFinite, FS_CardinalityType DEF LiveCount
  <1>2. \A k \in Slots : <<p, k>> \in Workers BY DEF Workers
  <1>3. ASSUME \A w \in Workers : wpc'[w] = "none" <=> wpc[w] = "none", live' = live PROVE Goal
    <2>1. Living(p)' = Living(p) BY <1>2, <1>3 DEF Living
    <2> QED BY <2>1, <1>1, <1>3
  <1>4. ASSUME NEW w \in Workers, Work(w) PROVE Goal
    <2>0. w = <<w[1], w[2]>> /\ w[1] \in Pools /\ w[2] \in Slots BY DEF Workers
    <2>1. \A v \in Workers \ {w} : wpc'[v] = wpc[v] BY <1>4, OneMoves
    <2>2. CASE ~Exit(w)
      <3>1. wpc[w] # "none" /\ wpc'[w] # "none" /\ live' = live
        BY <1>4, <2>2, <1>0 DEF Work, Receive, Register, Claim, Execute, DropContext, Leave, Release,
           Drain, Returned, Move, counters, LeftToHelper
      <3> QED BY <2>1, <3>1, <1>3
    <2>3. CASE Exit(w)
      <3>1. wpc[w] # "none" /\ wpc'[w] = "none" /\ live' = [live EXCEPT ![w[1]] = live[w[1]] - 1]
        BY <2>3, <1>0 DEF Exit, Move
      <3>2. CASE w[1] = p
        <4>1. w[2] \in Living(p) BY <3>1, <3>2, <2>0 DEF Living
        <4>2. Living(p)' = Living(p) \ {w[2]} BY <2>0, <2>1, <3>1, <3>2, <1>2 DEF Living
        <4>3. Cardinality(Living(p) \ {w[2]}) = Cardinality(Living(p)) - 1
          <5>1. IsFiniteSet(Living(p)) BY <1>1
          <5> HIDE DEF Goal
          <5> QED BY <4>1, <5>1, FS_RemoveElement
        <4>4. live'[p] = live[p] - 1 BY <3>1, <1>0, <3>2
        <4> QED BY <4>2, <4>3, <4>4, <1>1
      <3>3. CASE w[1] # p
        <4>1. \A k \in Slots : <<p, k>> # w BY <2>0, <3>3
        <4>2. Living(p)' = Living(p) BY <2>1, <4>1, <1>2 DEF Living
        <4>3. live'[p] = live[p] BY <3>1, <1>0, <3>3
        <4> QED BY <4>2, <4>3, <1>1
      <3> QED BY <3>2, <3>3
    <2> QED BY <2>2, <2>3
  <1>5. ASSUME NEW s \in Submitters, Create(s) \/ Choose(s), CreatePool(conc[s]), Made \in Pools
        PROVE  Goal
    <2>1. live' = [live EXCEPT ![made + 1] = conc[s]] /\ made + 1 \in Pools /\ conc[s] \in 0..MaxSize
      BY <1>5 DEF CreatePool, Made, Typed, SubmittersTyped
    <2>2. \A w \in Workers : IF w[1] = made + 1 THEN wpc[w] = "none" /\ wpc'[w] = (IF w[2] <= conc[s] THEN "idle" ELSE "none")
                                                ELSE wpc'[w] = wpc[w]
      BY <1>5, WorkersMade
    <2>3. CASE p = made + 1
      <3>1. Living(p)' = 1..conc[s]
        <4>1. ASSUME NEW k \in Slots PROVE wpc'[<<p, k>>] # "none" <=> k <= conc[s]
          <5>1. <<p, k>>[1] = made + 1 /\ <<p, k>>[2] = k BY <2>3
          <5>2. wpc'[<<p, k>>] = IF k <= conc[s] THEN "idle" ELSE "none" BY <5>1, <2>2, <1>2
          <5> QED BY <5>2
        <4>2. 1..conc[s] \subseteq Slots /\ \A k \in Slots : k <= conc[s] => k \in 1..conc[s]
          BY <2>1, Assumed DEF Slots
        <4> QED BY <4>1, <4>2 DEF Living
      <3>2. Cardinality(1..conc[s]) = conc[s]
        <4>1. conc[s] \in Nat /\ 1 \in Int /\ conc[s] \in Int BY <2>1, Assumed
        <4>2. Cardinality(1..conc[s]) = IF 1 > conc[s] THEN 0 ELSE conc[s] - 1 + 1
          <5> HIDE DEF Goal
          <5> QED BY <4>1, FS_Interval
        <4> QED BY <4>1, <4>2
      <3>3. live'[p] = conc[s] BY <2>1, <2>3, <1>0
      <3> QED BY <3>1, <3>2, <3>3
    <2>4. CASE p # made + 1
      <3>1. \A k \in Slots : wpc'[<<p, k>>] = wpc[<<p, k>>] BY <2>2, <2>4, <1>2
      <3>2. Living(p)' = Living(p) BY <3>1 DEF Living
      <3>3. live'[p] = live[p] BY <2>1, <2>4, <1>0
      <3> QED BY <3>2, <3>3, <1>1
    <2> QED BY <2>3, <2>4
  <1>6. ASSUME wpc' = wpc, ~\E w \in Workers : Work(w) PROVE Goal
    <2>1. CASE live' = live BY <1>6, <2>1, <1>3
    <2>2. ASSUME NEW s \in Submitters, Create(s) \/ Choose(s), live' # live PROVE Goal
      <3>1. CreatePool(conc[s]) BY <2>2 DEF Create, Choose, Keep
      <3>2. spc[s] = "create" => made < MaxPool BY <2>2 DEF Create, Choose
      <3>3. Made \in Pools BY <2>2, <3>2, MadeTyped DEF Create, Choose
      <3> QED BY <2>2, <3>1, <3>3, <1>5
    <2> HIDE DEF Goal
    <2> QED BY <2>1, <2>2, <1>6, LivingKept DEF Work
  <1>7. Goal
    <2> HIDE DEF Goal
    <2> QED BY <1>4, <1>5, <1>6, PlacesStep
  <1> QED BY <1>7

\* A cancelled pool stays cancelled, and nothing is sent to it.
LEMMA CancelledStays ==
  ASSUME Typed, Shape, Locks, [Next]_vars, NEW p \in Pools, p <= made, cancelled[p]
  PROVE  cancelled'[p] /\ (chan[p] = <<>> => chan'[p] = <<>>)
  <1>0. cancelled \in [Pools -> BOOLEAN] /\ made \in Nat /\ p \in Nat
    BY Assumed DEF Typed, PoolsTyped, Pools
  <1>1. cancelled'[p]
    <2>1. p # Made BY <1>0 DEF Made
    <2>2. ASSUME NEW s \in Submitters, Create(s) \/ Choose(s) PROVE cancelled'[p]
      BY <2>1, <2>2, <1>0 DEF Create, Choose, Keep, BornCancelled, pools
    <2>3. CASE Delete \/ IdleRemove \/ StopService
      BY <2>3, <1>0 DEF Delete, IdleRemove, StopService, RemovePool
    <2>4. CASE cancelled' = cancelled BY <2>4
    <2> QED BY <2>2, <2>3, <2>4, PoolsKept
  <1>2. ASSUME chan[p] = <<>> PROVE chan'[p] = <<>>
    <2>1. ASSUME NEW s \in Submitters, Send(s), pool[s] = p, Len(chan'[p]) = Len(chan[p]) + 1
          PROVE  FALSE
      <3>1. ~Accepts(p) BY <2>1 DEF Accepts, Open
      <3>2. UNCHANGED chan BY <2>1, <3>1 DEF Send
      <3>3. Len(chan[p]) = 0 BY <1>2
      <3> QED BY <2>1, <3>2, <3>3
    <2> QED BY <1>2, <2>1, ChanStep
  <1> QED BY <1>1, <1>2

\* Between the drain and the end of a worker nothing is sent to its pool.
LEMMA DrainedOnceNext == ASSUME Typed, Shape, Locks, DrainedOnce, [Next]_vars PROVE DrainedOnce'
  <1>0. /\ made \in Nat /\ made' \in Nat /\ \A p \in Pools : p \in Nat /\ (p <= made => size'[p] = size[p])
        /\ \A w \in Workers : w[1] \in Pools /\ w[2] \in Slots
        /\ wpc \in [Workers -> {"none", "idle", "start", "claim", "run", "leave", "left", "release", "drain"}]
    BY MadeGrows DEF Workers, Typed, WorkersTyped
  <1> DEFINE Over(w) == wpc[w] = "drain" \/ (wpc[w] = "none" /\ w[1] <= made /\ w[2] <= size[w[1]])
             OverThen(w) == wpc'[w] = "drain" \/ (wpc'[w] = "none" /\ w[1] <= made' /\ w[2] <= size'[w[1]])
  <1>1. ASSUME NEW w \in Workers, Over(w) PROVE cancelled'[w[1]] /\ chan'[w[1]] = <<>>
    <2>1. cancelled[w[1]] /\ chan[w[1]] = <<>> BY <1>1 DEF DrainedOnce
    <2>2. w[1] <= made /\ w[1] \in Pools BY <1>1, <1>0 DEF Shape, WorkerShape
    <2> QED BY <2>1, <2>2, CancelledStays
  <1>2. ASSUME NEW w \in Workers, w[1] <= made, wpc'[w] = wpc[w], OverThen(w)
        PROVE  cancelled'[w[1]] /\ chan'[w[1]] = <<>>
    <2>1. Over(w) BY <1>0, <1>2
    <2> QED BY <2>1, <1>1
  <1>3. ASSUME NEW w \in Workers, OverThen(w) PROVE cancelled'[w[1]] /\ chan'[w[1]] = <<>>
    <2>1. ASSUME wpc' = wpc, made' = made PROVE cancelled'[w[1]] /\ chan'[w[1]] = <<>>
      <3>1. CASE wpc[w] = "none" BY <3>1, <2>1, <1>2, <1>3
      <3>2. CASE wpc[w] # "none"
        <4>1. w[1] <= made BY <3>2 DEF Shape, WorkerShape
        <4> QED BY <4>1, <2>1, <1>2, <1>3
      <3> QED BY <3>1, <3>2
    <2>2. ASSUME NEW s \in Submitters, CreatePool(conc[s]) PROVE cancelled'[w[1]] /\ chan'[w[1]] = <<>>
      <3>1. /\ made' = made + 1 /\ size' = [size EXCEPT ![made + 1] = conc[s]]
            /\ \A v \in Workers : IF v[1] = made + 1 THEN wpc'[v] = (IF v[2] <= conc[s] THEN "idle" ELSE "none")
                                                     ELSE wpc'[v] = wpc[v]
        BY <2>2, WorkersMade DEF CreatePool, Made
      <3>2. CASE w[1] = made + 1
        <4>1. size'[w[1]] = conc[s] BY <3>1, <3>2, <1>0 DEF Typed, PoolsTyped
        <4>2. FALSE
          <5>1. wpc'[w] = IF w[2] <= conc[s] THEN "idle" ELSE "none" BY <3>1, <3>2
          <5> QED BY <5>1, <4>1, <1>3
        <4> QED BY <4>2
      <3>3. CASE w[1] # made + 1
        <4>1. wpc'[w] = wpc[w] BY <3>1, <3>3
        <4>2. wpc[w] # "none" => w[1] <= made BY DEF Shape, WorkerShape
        <4>3. w[1] <= made
          <5>1. wpc[w] = "none" => w[1] <= made' BY <4>1, <1>3
          <5> QED BY <5>1, <4>2, <3>1, <3>3, <1>0
        <4> QED BY <4>1, <4>3, <1>2, <1>3
      <3> QED BY <3>2, <3>3
    <2>3. ASSUME NEW v \in Workers, Work(v) PROVE cancelled'[w[1]] /\ chan'[w[1]] = <<>>
      <3>1. UNCHANGED made
        BY <2>3 DEF Work, Receive, Register, Claim, Execute, DropContext, Leave, Release, Drain, Exit,
           pools
      <3>2. CASE v # w
        <4>1. wpc'[w] = wpc[w] BY <2>3, <3>2, OneMoves
        <4>2. w[1] <= made BY <4>1, <3>1, <1>3 DEF Shape, WorkerShape
        <4> QED BY <4>1, <4>2, <1>2, <1>3
      <3>3. CASE v = w /\ Drain(w)
        <4>1. cancelled' = cancelled /\ cancelled[w[1]] BY <3>3 DEF Drain
        <4>2. chan'[w[1]] = <<>>
          <5>1. chan' = [chan EXCEPT ![w[1]] = SubSeq(chan[w[1]], Len(chan[w[1]]) + 1, Len(chan[w[1]]))]
            BY <3>3 DEF Drain, Drained
          <5>2. Len(chan[w[1]]) \in Nat BY <1>0 DEF Typed, PoolsTyped
          <5>3. SubSeq(chan[w[1]], Len(chan[w[1]]) + 1, Len(chan[w[1]])) = <<>> BY <5>2
          <5> QED BY <5>1, <5>3, <1>0 DEF Typed, PoolsTyped
        <4> QED BY <4>1, <4>2
      <3>4. CASE v = w /\ Exit(w)
        <4>1. wpc[w] = "drain" BY <3>4 DEF Exit
        <4> QED BY <4>1, <1>1
      <3>5. CASE v = w /\ ~Drain(w) /\ ~Exit(w)
        <4>1. wpc'[w] # "none" /\ wpc'[w] # "drain"
          BY <2>3, <3>5, <1>0 DEF Work, Receive, Register, Claim, Execute, DropContext, Leave, Release,
             Move, LeftToHelper
        <4> QED BY <4>1, <1>3
      <3> QED BY <3>2, <3>3, <3>4, <3>5
    <2>4. ASSUME wpc' = wpc, made' # made PROVE cancelled'[w[1]] /\ chan'[w[1]] = <<>>
      <3>1. \A s \in Submitters : Create(s) \/ Choose(s) => UNCHANGED made \/ CreatePool(conc[s])
        BY DEF Create, Choose, Keep, pools
      <3>2. Delete \/ IdleRemove \/ StopService => UNCHANGED made BY DEF Delete, IdleRemove, StopService
      <3> QED BY <2>4, <3>1, <3>2, <2>2, PoolsKept
    <2> QED BY <2>1, <2>2, <2>3, <2>4, PlacesStep
  <1> QED BY <1>3 DEF DrainedOnce

\* Once the workers of a pool are gone nothing is left in its queue.
LEMMA StrandsNothing == ASSUME Typed, Shape, LiveCount, DrainedOnce PROVE NothingStranded
  <1> SUFFICES ASSUME NEW p \in Pools, live[p] = 0 PROVE chan[p] = <<>> BY DEF NothingStranded
  <1>1. made \in Nat /\ p \in Nat /\ size[p] \in Nat BY Assumed DEF Typed, PoolsTyped, Pools
  <1>2. CASE p > made BY <1>2 DEF Shape, PoolShape
  <1>3. CASE p <= made
    <2>1. Living(p) = {} BY SlotsFinite, FS_EmptySet DEF LiveCount
    <2>2. 1 \in Slots BY Assumed DEF Slots
    <2>3. wpc[<<p, 1>>] = "none" BY <2>1, <2>2 DEF Living
    <2>4. size[p] # 0 BY <1>3 DEF Shape, PoolShape
    <2>5. <<p, 1>> \in Workers /\ <<p, 1>>[1] = p /\ <<p, 1>>[2] = 1 BY <2>2 DEF Workers
    <2>6. 1 <= size[p] BY <2>4, <1>1
    <2> QED BY <1>3, <2>3, <2>5, <2>6 DEF DrainedOnce
  <1> QED BY <1>1, <1>2, <1>3

\* A counter counts, so it is never negative.
LEMMA CountersNatural == ASSUME Typed, Counts PROVE TypeOK
  <1>1. \A p \in Pools : /\ submitting[p] \in Nat /\ live[p] \in Nat
                         /\ owned[p] \in Nat /\ outstanding[p] \in Nat
    <2> SUFFICES ASSUME NEW p \in Pools
                 PROVE  submitting[p] \in Nat /\ live[p] \in Nat /\ owned[p] \in Nat /\ outstanding[p] \in Nat
      OBVIOUS
    <2>1. submitting[p] = Cardinality(Tagging(p)) /\ Cardinality(Tagging(p)) \in Nat
      BY TaggingFinite DEF Counts, SubmittingCount
    <2>2. live[p] = Cardinality(Living(p)) /\ Cardinality(Living(p)) \in Nat
      BY SlotsFinite, FS_CardinalityType DEF Counts, LiveCount
    <2>3. /\ owned[p] = Cardinality(Owning(p)) + Cardinality(Left(p)) /\ Cardinality(Owning(p)) \in Nat
          /\ Cardinality(Left(p)) \in Nat
      BY SlotsFinite, FS_CardinalityType DEF Counts, OwnedCount
    <2>4. /\ outstanding[p] = submitting[p] + Len(chan[p]) + Cardinality(InHand(p))
          /\ Cardinality(InHand(p)) \in Nat
      BY FS_CardinalityType DEF Counts, OutstandingCount
    <2>5. Len(chan[p]) \in Nat BY DEF Typed, PoolsTyped
    <2> QED BY <2>1, <2>2, <2>3, <2>4, <2>5
  <1>2. /\ submitting \in [Pools -> Nat] /\ outstanding \in [Pools -> Nat]
        /\ owned \in [Pools -> Nat] /\ live \in [Pools -> Nat]
    BY <1>1 DEF Typed, CountersTyped
  <1> QED
    BY <1>2 DEF Typed, RowsTyped, PoolsTyped, WorkersTyped, SubmittersTyped, RestTyped, Workers, TypeOK

LEMMA InitCounts == ASSUME Init PROVE Counts /\ Contexts /\ DrainedOnce
  <1>1. /\ submitting = [p \in Pools |-> 0] /\ outstanding = [p \in Pools |-> 0]
        /\ owned = [p \in Pools |-> 0]
        /\ live = [p \in Pools |-> 0] /\ spc = [s \in Submitters |-> "idle"]
        /\ chan = [p \in Pools |-> <<>>]
        /\ wpc = [w \in Workers |-> "none"] /\ job = [w \in Workers |-> <<>>]
        /\ helper = [t \in Tasks |-> NoPool] /\ made = 0
    BY DEF Init, Workers
  <1>2. \A p \in Pools : p \in Nat /\ p > 0 /\ p # NoPool BY Assumed DEF Pools, NoPool
  <1>3. Len(<<>>) = 0 OBVIOUS
  <1>4. \A p \in Pools : \A k \in Slots : <<p, k>> \in Workers BY DEF Workers
  <1>5. ASSUME NEW p \in Pools
        PROVE  Tagging(p) = {} /\ InHand(p) = {} /\ Owning(p) = {} /\ Left(p) = {} /\ Living(p) = {}
    <2>1. Tagging(p) = {} BY <1>1 DEF Tagging, Reserving
    <2>2. InHand(p) = {}
      <3>1. \A z \in Slots \X Nat : Len(job[<<p, z[1]>>]) = 0 BY <1>1, <1>3, <1>4
      <3>2. \A z \in Slots \X Nat : z[2] \notin 1..Len(job[<<p, z[1]>>])
        <4>1. \A z \in Slots \X Nat : z[2] \notin 1..0 OBVIOUS
        <4> QED BY <3>1, <4>1
      <3> QED BY <3>2 DEF InHand, HandOf
    <2>3. Owning(p) = {} /\ Living(p) = {} BY <1>1, <1>4 DEF Owning, Living, InContext
    <2>4. Left(p) = {} BY <1>1, <1>2 DEF Left
    <2> QED BY <2>1, <2>2, <2>3, <2>4
  <1>6. Cardinality({}) = 0 /\ IsFiniteSet({}) BY FS_EmptySet
  <1>7. Counts
    <2>1. \A p \in Pools : submitting[p] = 0 /\ outstanding[p] = 0 /\ owned[p] = 0 /\ live[p] = 0 /\ Len(chan[p]) = 0
      BY <1>1, <1>3
    <2>2. ASSUME NEW p \in Pools
          PROVE  /\ Cardinality(Tagging(p)) = 0 /\ Cardinality(InHand(p)) = 0 /\ IsFiniteSet(InHand(p))
                 /\ Cardinality(Owning(p)) = 0 /\ Cardinality(Left(p)) = 0 /\ Cardinality(Living(p)) = 0
      BY <1>5, <1>6
    <2>3. SubmittingCount /\ OwnedCount /\ LiveCount
      BY <2>1, <2>2 DEF SubmittingCount, OwnedCount, LiveCount
    <2>4. OutstandingCount
      <3>1. ASSUME NEW p \in Pools
            PROVE  outstanding[p] = submitting[p] + Len(chan[p]) + Cardinality(InHand(p))
        BY <2>1, <2>2
      <3> QED BY <2>2, <3>1 DEF OutstandingCount
    <2> QED BY <2>3, <2>4 DEF Counts
  <1>8. Contexts BY <1>1 DEF Contexts, InContext
  <1>9. DrainedOnce
    <2>1. \A w \in Workers : ~(w[1] <= made) BY <1>1, <1>2 DEF Workers
    <2> QED BY <1>1, <2>1 DEF DrainedOnce
  <1> QED BY <1>7, <1>8, <1>9

\* The invariant: types, places, locks, the live pool and the counters.
PoolInv == Typed /\ Shape /\ Locks /\ Live /\ Counts /\ Contexts /\ DrainedOnce /\ SendNeverBlocks

LEMMA InitPoolInv == Init => PoolInv
  <1> SUFFICES ASSUME Init PROVE PoolInv OBVIOUS
  <1>1. SendNeverBlocks
    <2>1. \A p \in Pools : chan[p] = <<>> /\ submitting[p] = 0 /\ size[p] = 0 BY DEF Init
    <2>2. Len(<<>>) = 0 /\ PerWorker * 0 = 0 BY Assumed
    <2> QED BY <2>1, <2>2 DEF SendNeverBlocks, Cap
  <1> QED BY <1>1, InitTyped, InitShape, InitLocks, InitLive, InitCounts DEF PoolInv

LEMMA PoolInvNext == PoolInv /\ [Next]_vars => PoolInv'
  <1> SUFFICES ASSUME PoolInv, [Next]_vars PROVE PoolInv' OBVIOUS
  <1>1. Typed' /\ Shape' /\ Locks' /\ Live' BY TypedNext, ShapeNext, LocksNext, LiveNext DEF PoolInv
  <1>2. Counts'
    BY SubmittingCountNext, OutstandingCountNext, OwnedCountNext, LiveCountNext DEF PoolInv, Counts
  <1>3. Contexts' /\ DrainedOnce' /\ SendNeverBlocks'
    BY ContextsNext, DrainedOnceNext, SendNeverBlocksNext DEF PoolInv, Counts
  <1> QED BY <1>1, <1>2, <1>3 DEF PoolInv

LEMMA PoolInvAlways == Spec => []PoolInv
  BY InitPoolInv, PoolInvNext, PTL DEF Spec

\* The types hold; no counter of a pool ever falls below zero.
THEOREM PoolTypeCorrect == Spec => []TypeOK
  <1>1. PoolInv => TypeOK BY CountersNatural DEF PoolInv
  <1> QED BY <1>1, PoolInvAlways, PTL

\* The send in trySubmit, done under submitMu, never waits for room.
THEOREM SendNeverBlocksAlways == Spec => []SendNeverBlocks
  <1>1. PoolInv => SendNeverBlocks BY DEF PoolInv
  <1> QED BY <1>1, PoolInvAlways, PTL

\* Once the workers of a pool are gone nothing is left in its queue.
THEOREM NothingStrandedAlways == Spec => []NothingStranded
  <1>1. PoolInv => NothingStranded BY StrandsNothing DEF PoolInv, Counts
  <1> QED BY <1>1, PoolInvAlways, PTL

-----------------------------------------------------------------------------
(* What hasLocalWork finds, and the pools that matter.                     *)

LEMMA CountersSigned == ASSUME PoolInv, NEW p \in Pools
  PROVE  submitting[p] \in Nat /\ outstanding[p] \in Nat /\ owned[p] \in Nat /\ live[p] \in Nat /\ Len(chan[p]) \in Nat
  <1>1. TypeOK /\ Typed BY CountersNatural DEF PoolInv
  <1>2. /\ submitting \in [Pools -> Nat] /\ outstanding \in [Pools -> Nat] /\ owned \in [Pools -> Nat]
        /\ live \in [Pools -> Nat]
    BY <1>1, Zenon DEF TypeOK
  <1>3. chan[p] \in Seq(Tasks) BY <1>1 DEF Typed, PoolsTyped
  <1> QED BY <1>2, <1>3

\* Who holds a context, or left it to a goroutine, is counted.
LEMMA OwnedZero ==
  ASSUME PoolInv, NEW p \in Pools, owned[p] = 0
  PROVE  (\A w \in Workers : w[1] = p => wpc[w] \notin InContext) /\ (\A t \in Tasks : helper[t] # p)
  <1>1. owned[p] = Cardinality(Owning(p)) + Cardinality(Left(p)) BY DEF PoolInv, Counts, OwnedCount
  <1>2. /\ IsFiniteSet(Owning(p)) /\ IsFiniteSet(Left(p))
        /\ Cardinality(Owning(p)) \in Nat
        /\ Cardinality(Left(p)) \in Nat BY SlotsFinite, FS_CardinalityType
  <1>3. Cardinality(Owning(p)) = 0 /\ Cardinality(Left(p)) = 0 BY <1>1, <1>2
  <1>4. Owning(p) = {} /\ Left(p) = {} BY <1>2, <1>3, FS_EmptySet
  <1>5. ASSUME NEW w \in Workers, w[1] = p PROVE wpc[w] \notin InContext
    <2>1. w = <<p, w[2]>> /\ w[2] \in Slots BY <1>5 DEF Workers
    <2> QED BY <2>1, <1>4 DEF Owning
  <1> QED BY <1>4, <1>5 DEF Left

\* While hasLocalWork is read, and no whole task is executed between two loads,
\* no context appears in the pool.
LEMMA SawRightNext == ASSUME PoolInv, SawRight, [Next]_vars PROVE SawRight'
  <1>a. \A n \in Nat : ~(n > 0) => n = 0 OBVIOUS
  <1> USE DEF PoolInv
  <1>1. ASSUME NEW who, Grab(who), current' = current, current # NoPool, owned' = owned PROVE SawRight'
    <2>1. current \in Pools BY <1>1 DEF Typed, PoolsTyped
    <2>2. owned[current] \in Nat BY <2>1, CountersSigned
    <2>3. saw' = (owned[current] > 0) BY <1>1 DEF Grab, OwnsContext
    <2>4. ~saw' => owned[current] = 0
      <3>1. ~saw' => ~(owned[current] > 0) BY <2>3, Zenon
      <3> QED BY <1>a, <2>2, <3>1, Zenon
    <2> QED BY <1>1, <2>4 DEF SawRight
  <1>2. ASSUME holder' = "nobody" PROVE SawRight' BY <1>2 DEF SawRight
  <1>3. CASE UNCHANGED <<holder, saw>> /\ holder # "nobody"
    <2>1. SUFFICES ASSUME ~saw, ~SlowReads PROVE owned'[current'] = 0 BY <1>3 DEF SawRight
    <2>2. current' = current BY <1>3, HeldStill
    <2>3. current # NoPool /\ owned[current] = 0 BY <1>3, <2>1 DEF Locks, SawRight
    <2>4. current \in Pools BY <2>3 DEF Typed, PoolsTyped
    <2>5. /\ \A w \in Workers : w[1] = current => wpc[w] \notin InContext
          /\ \A t \in Tasks : helper[t] # current BY <2>3, <2>4, OwnedZero
    <2>6. owned'[current] = owned[current]
      <3>1. ASSUME NEW w \in Workers, Register(w) PROVE FALSE BY <3>1, <1>3, <2>1 DEF Register, MgrFree
      <3>2. ASSUME NEW w \in Workers, DropContext(w) PROVE owned'[current] = owned[current]
        <4>1. wpc[w] \in InContext BY <3>2 DEF DropContext, InContext
        <4>2. w[1] # current BY <4>1, <2>5
        <4>3. owned' = [owned EXCEPT ![w[1]] = owned[w[1]] - 1] BY <3>2 DEF DropContext
        <4> QED BY <4>2, <4>3, <2>4 DEF Typed, CountersTyped
      <3>3. ASSUME NEW t \in Tasks, PostProcess(t) PROVE owned'[current] = owned[current]
        <4>1. helper[t] # current BY <2>5
        <4>2. owned' = [owned EXCEPT ![helper[t]] = owned[helper[t]] - 1] BY <3>3 DEF PostProcess
        <4> QED BY <4>1, <4>2, <2>4 DEF Typed, CountersTyped
      <3> QED BY <3>1, <3>2, <3>3, OwnedKept
    <2> QED BY <2>2, <2>3, <2>6
  <1>4. ASSUME NEW s \in Submitters, Decide(s) PROVE SawRight'
    <2>1. pool[s] # NoPool BY <1>4, SubmitterTask DEF Decide
    <2>2. CASE UNCHANGED reader
      <3>1. holder' = "nobody" BY <1>4, <2>2 DEF Decide, MgrFree, reader
      <3> QED BY <3>1, <1>2
    <2>3. CASE Grab(s) /\ current = pool[s]
      <3>1. current' = current /\ owned' = owned BY <1>4 DEF Decide, pools, counters
      <3> QED BY <2>1, <2>3, <3>1, <1>1
    <2> QED BY <1>4, <2>2, <2>3 DEF Decide
  <1>5. CASE DeleteLook
    <2>1. Grab("deleter") /\ current' = current /\ owned' = owned /\ current # NoPool
      BY <1>5 DEF DeleteLook, pools, counters
    <2> QED BY <2>1, <1>1
  <1>6. CASE IdleLook
    <2>1. ipool # NoPool BY <1>6 DEF IdleLook, Shape
    <2>2. CASE UNCHANGED reader
      <3>1. holder' = "nobody" BY <1>6, <2>2 DEF IdleLook, MgrFree, reader
      <3> QED BY <3>1, <1>2
    <2>3. CASE Grab("idler") /\ current = ipool
      <3>1. current' = current /\ owned' = owned BY <1>6 DEF IdleLook, pools, counters
      <3> QED BY <2>1, <2>3, <3>1, <1>1
    <2> QED BY <1>6, <2>2, <2>3 DEF IdleLook
  <1>7. CASE IdleClose
    <2>1. CASE LetGo BY <2>1, <1>2 DEF LetGo
    <2>2. CASE Grab("idler again")
      <3>1. current' = current /\ owned' = owned /\ current # NoPool
        BY <1>7 DEF IdleClose, counters, Locks
      <3> QED BY <2>2, <3>1, <1>1
    <2> QED BY <1>7, <2>1, <2>2 DEF IdleClose
  <1>8. CASE Delete \/ IdleRemove \/ \E s \in Submitters : Choose(s)
    BY <1>8, <1>2 DEF Delete, IdleRemove, Choose, LetGo
  <1>9. CASE UNCHANGED <<holder, saw>> BY <1>9, <1>2, <1>3
  <1> QED BY <1>4, <1>5, <1>6, <1>7, <1>8, <1>9, ReaderKept

\* Nothing outstanding: the pool and its workers have nothing.
LEMMA ZeroIsIdle ==
  ASSUME PoolInv, NEW p \in Pools, outstanding[p] = 0
  PROVE  Idle(p)
  <1>1. /\ submitting[p] \in Nat /\ Len(chan[p]) \in Nat /\ IsFiniteSet(InHand(p))
        /\ Cardinality(InHand(p)) \in Nat
        /\ outstanding[p] = submitting[p] + Len(chan[p]) + Cardinality(InHand(p))
    BY CountersSigned, FS_CardinalityType DEF PoolInv, Counts, OutstandingCount
  <1>2. submitting[p] = 0 /\ Len(chan[p]) = 0 /\ Cardinality(InHand(p)) = 0 BY <1>1
  <1>3. InHand(p) = {} BY <1>1, <1>2, FS_EmptySet
  <1>4. Tagging(p) = {} BY <1>2, TaggingFinite, FS_EmptySet DEF PoolInv, Counts, SubmittingCount
  <1>5. chan[p] = <<>>
    <2>1. chan[p] \in Seq(Tasks) BY DEF PoolInv, Typed, PoolsTyped
    <2> QED BY <1>2, <2>1
  <1>6. ASSUME NEW k \in Slots PROVE job[<<p, k>>] = <<>>
    <2>1. job[<<p, k>>] \in Seq(Tasks) BY DEF PoolInv, Typed, WorkersTyped, Workers
    <2>2. <<k, 1>> \in Slots \X Nat OBVIOUS
    <2>3. 1 \notin 1..Len(job[<<p, k>>])
      <3>1. <<k, 1>>[1] = k /\ <<k, 1>>[2] = 1 OBVIOUS
      <3> QED BY <1>3, <2>2, <3>1 DEF InHand, HandOf
    <2>4. Len(job[<<p, k>>]) = 0
      <3>1. Len(job[<<p, k>>]) \in Nat BY <2>1
      <3> QED BY <2>3, <3>1
    <2> QED BY <2>1, <2>4
  <1> QED BY <1>4, <1>5, <1>6 DEF Idle, Tagging

\* What hasLocalWork does not find is not there; what is post-processed may have been
\* left to its goroutine after the contexts were loaded.
LEMMA NoLocalWork ==
  ASSUME PoolInv, holder # "nobody", ~LocalWork(current, saw)
  PROVE  /\ current \in Pools /\ Idle(current)
         /\ SawRight /\ ~SlowReads => \A t \in Tasks : helper[t] # current
  <1>1. current \in Pools BY DEF PoolInv, Locks, Typed, PoolsTyped
  <1>2. ~saw /\ ~(outstanding[current] > 0) BY DEF LocalWork
  <1>3. SawRight /\ ~SlowReads => owned[current] = 0 BY <1>2 DEF SawRight
  <1>4. outstanding[current] = 0 BY <1>1, <1>2, CountersSigned
  <1> QED BY <1>1, <1>3, <1>4, ZeroIsIdle, OwnedZero

\* A pool that takes no tasks and has none gets none.
LEMMA IdleStays ==
  ASSUME Typed, Shape, Locks, [Next]_vars, NEW p \in Pools, Idle(p),
         ~Open(p) \/ p > made \/ submitting'[p] = submitting[p]
  PROVE  Idle(p)'
  <1>0. /\ made \in Nat /\ p \in Nat /\ submitting[p] \in Int /\ job \in [Workers -> Seq(Tasks)]
        /\ p # NoPool
    BY MadeGrows DEF Typed, WorkersTyped, CountersTyped, NoPool
  <1>1. /\ Tagging(p) = {} /\ chan[p] = <<>> /\ (\A k \in Slots : job[<<p, k>>] = <<>>)
    BY DEF Idle, Tagging
  <1>2. Tagging(p)' = {}
    <2>1. ASSUME NEW s \in Submitters, Reserve(s), pool[s] = p, submitting'[p] = submitting[p] + 1
          PROVE  FALSE
      <3>1. submitting' # submitting BY <2>1, <1>0
      <3>2. Open(p) BY <2>1, <3>1 DEF Reserve
      <3>3. p <= made BY <2>1, SubmitterTask DEF Reserve
      <3> QED BY <2>1, <3>2, <3>3, <1>0
    <2> QED BY <2>1, <1>1, TaggingStep
  <1>3. chan'[p] = <<>>
    <2>1. ASSUME NEW s \in Submitters, Send(s), pool[s] = p PROVE FALSE
      <3>1. s \in Tagging(p) BY <2>1 DEF Send, Tagging, Reserving
      <3> QED BY <3>1, <1>1
    <2> QED BY <2>1, <1>1, ChanStep
  <1>4. ASSUME NEW k \in Slots PROVE job'[<<p, k>>] = <<>>
    <2>0. <<p, k>> \in Workers /\ <<p, k>>[1] = p BY DEF Workers
    <2>1. CASE job' = job BY <2>1, <1>1
    <2>2. ASSUME NEW w \in Workers, Work(w), w # <<p, k>> PROVE job'[<<p, k>>] = <<>>
      BY <2>0, <2>2, OneMoves, <1>1
    <2>3. ASSUME NEW w \in Workers, Work(w), w = <<p, k>> PROVE job'[<<p, k>>] = <<>>
      <3>1. job[w] = <<>> /\ w[1] = p /\ chan[w[1]] = <<>> BY <2>0, <2>3, <1>1
      <3>2. ~Receive(w) BY <3>1 DEF Receive
      <3>3. job'[w] \in {<<>>, job[w], chan[w[1]]}
        BY <2>3, <3>2, <1>0
        DEF Work, Register, Claim, Execute, DropContext, Leave, Release, Drain, Exit, Returned, Drained
      <3> QED BY <2>3, <3>1, <3>3
    <2>4. ASSUME NEW s \in Submitters, Create(s) \/ Choose(s) PROVE job' = job
      BY <2>4 DEF Create, Choose
    <2> QED BY <2>1, <2>2, <2>3, <2>4, WorkersKept DEF Work
  <1> QED BY <1>2, <1>3, <1>4 DEF Idle, Tagging, Reserving

\* Only a worker that executes a task leaves it to a goroutine.
LEMMA HelperStep ==
  ASSUME Typed, Shape, [Next]_vars, NEW t \in Tasks
  PROVE  \/ helper'[t] = helper[t]
         \/ helper'[t] = NoPool /\ PostProcess(t)
         \/ \E w \in Workers : Execute(w) /\ helper'[t] = w[1] /\ job[w] # <<>>
  <1> DEFINE Goal == \/ helper'[t] = helper[t]
                     \/ helper'[t] = NoPool /\ PostProcess(t)
                     \/ \E w \in Workers : Execute(w) /\ helper'[t] = w[1] /\ job[w] # <<>>
  <1> SUFFICES Goal OBVIOUS
  <1>0. helper \in [Tasks -> Pools \cup {NoPool}] BY DEF Typed, RowsTyped
  <1>1. ASSUME NEW w \in Workers, Execute(w) PROVE Goal
    <2>1. job[w] # <<>> BY <1>1, JobTask DEF Execute, AtTask
    <2>2. helper' = helper \/ helper' = [helper EXCEPT ![job[w][1]] = w[1]] BY <1>1 DEF Execute
    <2> QED BY <1>0, <1>1, <2>1, <2>2
  <1>2. ASSUME NEW u \in Tasks, PostProcess(u) PROVE Goal
    <2>1. helper' = [helper EXCEPT ![u] = NoPool] BY <1>2 DEF PostProcess
    <2> QED BY <1>0, <1>2, <2>1
  <1>3. ASSUME helper' = helper PROVE Goal BY <1>3
  <1>4. \A s \in Submitters : Reserve(s) \/ ClaimRow(s) \/ Back(s) => helper' = helper
    BY DEF Reserve, ClaimRow, Back, workers
  <1>5. \A w \in Workers : Register(w) \/ Claim(w) \/ Release(w) \/ Exit(w) => helper' = helper
    BY DEF Register, Claim, Release, Exit
  <1>6. \A u \in Tasks : Withdraw(u) => helper' = helper BY DEF Withdraw, workers
  <1> HIDE DEF Goal
  <1> QED BY <1>1, <1>2, <1>3, <1>4, <1>5, <1>6, RowsKept

\* A pool without tasks in hand leaves none to a goroutine.
LEMMA UnhelpedStays ==
  ASSUME Typed, Shape, [Next]_vars, NEW p \in Pools, Idle(p), NEW t \in Tasks, helper[t] # p
  PROVE  helper'[t] # p
  <1>1. p # NoPool BY Assumed DEF Pools, NoPool
  <1>2. ASSUME NEW w \in Workers, job[w] # <<>> PROVE w[1] # p
    <2>1. w = <<w[1], w[2]>> /\ w[2] \in Slots BY DEF Workers
    <2> QED BY <1>2, <2>1 DEF Idle
  <1> QED BY <1>1, <1>2, HelperStep

\* The pool that matters changes only when there was none, or when who reads
\* hasLocalWork found nothing in it.
LEMMA KeeperMoves ==
  ASSUME PoolInv, [Next]_vars, shut # "done", ~Stopped, Keeper' # Keeper
  PROVE  \/ Keeper = NoPool
         \/ Keeper = current /\ holder # "nobody" /\ ~LocalWork(current, saw) /\ submitting' = submitting
  <1> USE DEF PoolInv
  <1>1. UNCHANGED <<shut, awaited>>
    <2>1. StopService => Keeper' = Keeper BY DEF StopService, Keeper
    <2>2. CancelAll => Keeper' = Keeper BY DEF CancelAll, Keeper
    <2> QED BY <2>1, <2>2, ShutKept
  <1>2. Keeper = current /\ current' # current BY <1>1 DEF Keeper
  <1>3. ASSUME NEW s \in Submitters, Create(s) PROVE current = NoPool
    BY <1>2, <1>3 DEF Create, Vacant, pools
  <1>4. ASSUME NEW s \in Submitters, Choose(s)
        PROVE  holder # "nobody" /\ ~LocalWork(current, saw) /\ submitting' = submitting
    <2>1. holder = s /\ ~LocalWork(pool[s], saw) /\ submitting' = submitting
      BY <1>2, <1>4 DEF Choose, Keep
    <2>2. pool[s] = current /\ holder # "nobody" BY <2>1, SetsAssumed, Zenon DEF Locks
    <2> QED BY <2>1, <2>2
  <1>5. ASSUME Delete \/ IdleRemove
        PROVE  holder # "nobody" /\ ~LocalWork(current, saw) /\ submitting' = submitting
    <2>1. holder # "nobody" /\ submitting' = submitting BY <1>5 DEF Delete, IdleRemove, counters
    <2>2. ~LocalWork(current, saw)
      <3>1. CASE Delete BY <1>2, <3>1 DEF Delete, RemovePool
      <3>2. CASE IdleRemove
        <4>1. current = ipool BY <3>2 DEF IdleRemove, Locks
        <4> QED BY <1>2, <3>2, <4>1 DEF IdleRemove, RemovePool
      <3> QED BY <1>5, <3>1, <3>2
    <2> QED BY <2>1, <2>2
  <1>6. StopService => current' = current BY DEF StopService
  <1> QED BY <1>2, <1>3, <1>4, <1>5, <1>6, PoolsKept

\* A pool that does not matter takes no tasks.
LEMMA OthersShut ==
  ASSUME PoolInv, NEW p \in Pools, p # Keeper \/ shut = "done"
  PROVE  ~Open(p) \/ p > made
  <1>1. made \in Nat /\ p \in Nat
    <2>1. made \in 0..MaxPool BY DEF PoolInv, Typed, PoolsTyped
    <2> QED BY <2>1, Assumed DEF Pools
  <1>2. p <= made /\ ~cancelled[p] => p = current /\ shut = "no" BY DEF PoolInv, Live, OneLivePool
  <1>3. shut = "no" => Keeper = current BY DEF Keeper
  <1> QED BY <1>1, <1>2, <1>3 DEF Open

\* The pool in the map is replaced or removed only when it has nothing.
LEMMA OthersIdleNext == ASSUME PoolInv, OthersIdle, [Next]_vars PROVE OthersIdle'
  <1>0. Typed /\ Shape /\ Locks BY DEF PoolInv
  <1>1. \A p \in Pools : p # Keeper => Idle(p)' BY <1>0, OthersShut, IdleStays DEF OthersIdle
  <1>2. CASE shut = "done"
    <2>1. \A p \in Pools : Idle(p)' BY <1>0, <1>2, OthersShut, IdleStays DEF OthersIdle
    <2>2. \A t \in Tasks : helper[t] = NoPool BY <1>2 DEF OthersIdle
    <2>3. \A w \in Workers : job[w] = <<>>
      <3>1. \A w \in Workers : w = <<w[1], w[2]>> /\ w[1] \in Pools /\ w[2] \in Slots BY DEF Workers
      <3> QED BY <1>2, <3>1 DEF OthersIdle, Idle
    <2>4. \A t \in Tasks : helper'[t] = NoPool BY <1>0, <2>2, <2>3, HelperStep
    <2> QED BY <2>1, <2>4 DEF OthersIdle
  <1>3. CASE Stopped
    <2>1. /\ shut = "waiting" /\ (awaited # NoPool => Quiet(awaited))
          /\ UNCHANGED <<helper, submitting>>
          /\ \A t \in Tasks : helper[t] = NoPool
      BY <1>3 DEF Stopped, workers, counters
    <2>2. Keeper = awaited BY <2>1 DEF Keeper
    <2>3. ASSUME NEW p \in Pools, p = awaited PROVE Idle(p)'
      <3>1. p # NoPool BY Assumed DEF Pools, NoPool
      <3>2. outstanding[p] = 0 BY <2>1, <2>3, <3>1 DEF Quiet
      <3> QED BY <1>0, <2>1, <3>2, ZeroIsIdle, IdleStays
    <2>4. \A p \in Pools : Idle(p)' BY <1>1, <2>2, <2>3
    <2> QED BY <2>1, <2>4 DEF OthersIdle
  <1>4. CASE shut # "done" /\ ~Stopped
    <2>1. shut' # "done" BY <1>4, ShutKept DEF StopService, CancelAll
    <2>2. CASE Keeper' = Keeper BY <1>1, <2>1, <2>2 DEF OthersIdle
    <2>3. CASE Keeper = NoPool
      <3>1. \A p \in Pools : p # NoPool BY Assumed DEF Pools, NoPool
      <3> QED BY <1>1, <2>1, <2>3, <3>1 DEF OthersIdle
    <2>4. CASE /\ Keeper = current /\ holder # "nobody" /\ ~LocalWork(current, saw)
               /\ submitting' = submitting
      <3>1. ASSUME NEW p \in Pools, p = current PROVE Idle(p)'
        BY <1>0, <2>4, <3>1, NoLocalWork, IdleStays
      <3> QED BY <1>1, <2>1, <2>4, <3>1 DEF OthersIdle
    <2> QED BY <1>4, <2>2, <2>3, <2>4, KeeperMoves
  <1> QED BY <1>2, <1>3, <1>4

\* Nor, when no task is executed between two loads, does it have anything
\* post-processed.
LEMMA OthersUnhelpedNext ==
  ASSUME PoolInv, OthersIdle, OthersUnhelped, SawRight, ~SlowReads, [Next]_vars PROVE OthersUnhelped'
  <1>0. Typed /\ Shape BY DEF PoolInv
  <1>1. \A p \in Pools : p # Keeper => \A t \in Tasks : helper'[t] # p
    BY <1>0, UnhelpedStays DEF OthersIdle, OthersUnhelped
  <1>2. CASE Keeper' = Keeper BY <1>1, <1>2 DEF OthersUnhelped
  <1>3. CASE Keeper = NoPool
    <2>1. \A p \in Pools : p # NoPool BY Assumed DEF Pools, NoPool
    <2> QED BY <1>1, <1>3, <2>1 DEF OthersUnhelped
  <1>4. CASE Keeper = current /\ holder # "nobody" /\ ~LocalWork(current, saw)
    <2>1. ASSUME NEW p \in Pools, p = current, NEW t \in Tasks PROVE helper'[t] # p
      BY <1>0, <1>4, <2>1, NoLocalWork, UnhelpedStays
    <2> QED BY <1>1, <1>4, <2>1 DEF OthersUnhelped
  <1>5. shut = "done" \/ Stopped => Keeper' = Keeper
    <2>1. Stopped => Keeper' = Keeper BY DEF Stopped, Keeper
    <2>2. shut = "done" => UNCHANGED <<shut, awaited>> BY ShutKept DEF StopService, CancelAll, Stopped
    <2>3. shut = "done" => Keeper' = Keeper BY <2>2 DEF Keeper
    <2> QED BY <2>1, <2>3
  <1> QED BY <1>2, <1>3, <1>4, <1>5, KeeperMoves

LEMMA IdleAcceptsNone ==
  ASSUME NEW p \in Pools, Idle(p), \A t \in Tasks : helper[t] # p PROVE Accepted(p) = {}
  <1>1. ToSet(<<>>) = {} BY DEF ToSet
  <1>2. {task[s] : s \in {r \in Submitters : Reserving(r, p)}} = {} BY DEF Idle
  <1>3. ToSet(chan[p]) = {} BY <1>1 DEF Idle
  <1>4. UNION {ToSet(job[<<p, k>>]) : k \in Slots} = {} BY <1>1 DEF Idle
  <1>5. {t \in Tasks : helper[t] = p} = {} OBVIOUS
  <1> QED BY <1>2, <1>3, <1>4, <1>5 DEF Accepted

LEMMA SparesWork == ASSUME PoolInv, OthersIdle, OthersUnhelped PROVE CancelSparesWork
  <1> SUFFICES ASSUME NEW p \in Pools, cancelled[p], shut = "no" PROVE Accepted(p) = {}
    BY DEF CancelSparesWork
  <1>1. p # current
    <2>1. p # NoPool BY Assumed DEF Pools, NoPool
    <2> QED BY <2>1 DEF PoolInv, Live
  <1>2. Keeper = current BY DEF Keeper
  <1> QED BY <1>1, <1>2, IdleAcceptsNone DEF OthersIdle, OthersUnhelped

LEMMA QuietInit == Init => SawRight /\ OthersIdle /\ OthersUnhelped
  <1> SUFFICES ASSUME Init PROVE SawRight /\ OthersIdle /\ OthersUnhelped OBVIOUS
  <1>1. /\ holder = "nobody" /\ shut = "no" /\ spc = [s \in Submitters |-> "idle"]
        /\ chan = [p \in Pools |-> <<>>]
        /\ job = [w \in Workers |-> <<>>] /\ helper = [t \in Tasks |-> NoPool]
    BY DEF Init, Workers
  <1>2. \A p \in Pools : p # NoPool BY Assumed DEF Pools, NoPool
  <1>3. \A p \in Pools : \A k \in Slots : <<p, k>> \in Workers BY DEF Workers
  <1>4. \A p \in Pools : Idle(p) BY <1>1, <1>3 DEF Idle, Reserving
  <1> QED BY <1>1, <1>2, <1>4 DEF SawRight, OthersIdle, OthersUnhelped

\* Before the shutdown no pool is cancelled under a task it has accepted. The
\* hypothesis is that no whole task is executed between two loads of
\* hasLocalWork.
THEOREM CancelSparesWorkAlways ==
  ASSUME ~SlowReads PROVE Spec => []CancelSparesWork
  <1> DEFINE QuietInv == PoolInv /\ SawRight /\ OthersIdle /\ OthersUnhelped
  <1>1. Init => QuietInv BY InitPoolInv, QuietInit
  <1>2. QuietInv /\ [Next]_vars => QuietInv'
    <2> SUFFICES ASSUME QuietInv, [Next]_vars PROVE QuietInv' OBVIOUS
    <2> QED BY PoolInvNext, SawRightNext, OthersIdleNext, OthersUnhelpedNext
  <1>3. QuietInv => CancelSparesWork BY SparesWork
  <1> HIDE DEF QuietInv
  <1> QED BY <1>1, <1>2, <1>3, PTL DEF Spec

\* What a step does to one worker, and to one submitter.
LEMMA WorkerStep ==
  ASSUME Typed, Shape, Locks, [Next]_vars, NEW w \in Workers
  PROVE  \/ wpc'[w] = wpc[w] /\ job'[w] = job[w]
         \/ Work(w)
         \/ wpc[w] = "none" /\ wpc'[w] = "idle" /\ job'[w] = job[w]
  <1>1. ASSUME NEW v \in Workers, Work(v), v # w PROVE wpc'[w] = wpc[w] /\ job'[w] = job[w]
    BY <1>1, OneMoves
  <1>2. ASSUME NEW s \in Submitters, Create(s) \/ Choose(s) PROVE job' = job BY <1>2 DEF Create, Choose
  <1>3. ASSUME NEW s \in Submitters, CreatePool(conc[s])
        PROVE  wpc'[w] = wpc[w] \/ (wpc[w] = "none" /\ wpc'[w] = "idle")
    BY <1>3, WorkersMade
  <1>4. ASSUME NEW s \in Submitters, Create(s) \/ Choose(s) PROVE wpc' = wpc \/ CreatePool(conc[s])
    BY <1>4 DEF Create, Choose, Keep
  <1> QED BY <1>1, <1>2, <1>3, <1>4, WorkersKept DEF Work

LEMMA SubmitterStep ==
  ASSUME Typed, [Next]_vars, NEW s \in Submitters
  PROVE  \/ spc'[s] = spc[s] /\ task'[s] = task[s] /\ pool'[s] = pool[s]
         \/ Submit(s) \/ spc[s] = "idle"
  <1>1. ASSUME NEW r \in Submitters, Submit(r) \/ \E t \in Tasks : Begin(r, t), r # s
        PROVE  spc'[s] = spc[s] /\ task'[s] = task[s] /\ pool'[s] = pool[s]
    BY <1>1, OthersStay
  <1>2. ASSUME NEW t \in Tasks, Begin(s, t) PROVE spc[s] = "idle" BY <1>2 DEF Begin
  <1> QED BY <1>1, <1>2, SubmittersKept

\* A row that ended stays so, and one that runs runs or ends.
LEMMA StatusStep ==
  ASSUME Typed, Shape, [Next]_vars, NEW t \in Tasks
  PROVE  /\ status[t] = "ended" => status'[t] = "ended"
         /\ status[t] = "running" => status'[t] \in {"running", "ended"}
         /\ status'[t] = "processing" => status[t] = "processing" \/ Claiming(t)'
         /\ status'[t] = "running" =>
              \/ status[t] = "running"
              \/ \E w \in Workers : wpc'[w] = "run" /\ job'[w] = <<t>>
  <1> DEFINE Goal == /\ status[t] = "ended" => status'[t] = "ended"
                     /\ status[t] = "running" => status'[t] \in {"running", "ended"}
                     /\ status'[t] = "processing" => status[t] = "processing" \/ Claiming(t)'
                     /\ status'[t] = "running" =>
                          \/ status[t] = "running"
                          \/ \E w \in Workers : wpc'[w] = "run" /\ job'[w] = <<t>>
  <1> SUFFICES Goal OBVIOUS
  <1>0. /\ status \in [Tasks -> {"pending", "processing", "running", "ended"}]
        /\ spc \in [Submitters -> {"idle", "load", "create", "reopen", "query", "decide", "choose",
                                   "reserve", "claim", "send", "back", "forget", "drop"}]
        /\ wpc \in [Workers -> {"none", "idle", "start", "claim", "run", "leave", "left", "release", "drain"}]
    BY DEF Typed, RowsTyped, SubmittersTyped, WorkersTyped
  <1>1. ASSUME status' = status PROVE Goal BY <1>1
  <1>2. ASSUME NEW s \in Submitters, ClaimRow(s) PROVE Goal
    <2>1. task[s] \in Tasks BY <1>2, SubmitterTask DEF ClaimRow
    <2>2. status'[task[s]] # status[task[s]] =>
            /\ status[task[s]] = "pending" /\ status'[task[s]] = "processing"
            /\ spc'[s] \in {"send", "back"} /\ task'[s] = task[s]
      BY <1>0, <1>2, <2>1 DEF ClaimRow, Step
    <2>3. \A u \in Tasks : u # task[s] => status'[u] = status[u] BY <1>0, <1>2 DEF ClaimRow
    <2>4. CASE t # task[s] BY <2>4, <2>3
    <2>5. CASE t = task[s] BY <2>5, <2>2 DEF Claiming
    <2> QED BY <2>4, <2>5
  <1>3. ASSUME NEW ts, status' = GivenBack(ts) PROVE Goal BY <1>0, <1>3 DEF GivenBack
  <1>4. ASSUME NEW s \in Submitters, Back(s) PROVE Goal BY <1>4, <1>1, <1>3 DEF Back
  <1>5. ASSUME NEW w \in Workers, Claim(w) PROVE Goal
    <2>1. CASE /\ wpc[w] = "claim" /\ status[job[w][1]] \in {"pending", "processing"}
               /\ status' = [status EXCEPT ![job[w][1]] = "running"]
               /\ Move(w, "run") /\ job' = job
      <3>1. wpc'[w] = "run" /\ job'[w] = <<job[w][1]>> /\ job[w][1] \in Tasks
        BY <1>0, <2>1, JobTask DEF Move, AtTask
      <3>2. CASE t = job[w][1] BY <3>2, <3>1, <2>1, <1>0
      <3>3. CASE t # job[w][1] BY <3>3, <2>1, <1>0
      <3> QED BY <3>2, <3>3
    <2> QED BY <1>5, <2>1, <1>3 DEF Claim, workers
  <1>6. ASSUME NEW u, Ended(u) PROVE Goal BY <1>6, <1>0 DEF Ended
  <1>7. ASSUME NEW w \in Workers, Register(w) \/ Execute(w) \/ Release(w) \/ Exit(w) PROVE Goal
    BY <1>7, <1>1, <1>3, <1>6 DEF Register, Execute, Release, Exit, Returned
  <1>8. ASSUME NEW u \in Tasks, PostProcess(u) \/ Withdraw(u) PROVE Goal
    BY <1>8, <1>6 DEF PostProcess, Withdraw
  <1>9. ASSUME NEW s \in Submitters, Reserve(s) PROVE Goal BY <1>9, <1>1 DEF Reserve
  <1> HIDE DEF Goal
  <1> QED BY <1>1, <1>2, <1>4, <1>5, <1>7, <1>8, <1>9, RowsKept

\* Who claims a row sends its task to a pool that still accepts it, or hands it back.
LEMMA ClaimingStep ==
  ASSUME PoolInv, [Next]_vars, NEW t \in Tasks, Claiming(t), status'[t] = "processing"
  PROVE  \/ Claiming(t)'
         \/ Queued(t)' /\ shut = "no"
  <1>1. PICK s \in Submitters : spc[s] \in {"send", "back"} /\ task[s] = t BY DEF Claiming
  <1>2. Typed /\ Shape /\ Live BY DEF PoolInv
  <1>3. pool[s] \in Pools /\ pool[s] <= made BY <1>1, <1>2, SubmitterTask
  <1>4. CASE spc'[s] = spc[s] /\ task'[s] = task[s] BY <1>1, <1>4 DEF Claiming
  <1>5. CASE Send(s)
    <2>1. CASE Accepts(pool[s])
      <3>1. chan' = [chan EXCEPT ![pool[s]] = Append(chan[pool[s]], t)] BY <1>1, <1>5, <2>1 DEF Send
      <3>2. chan \in [Pools -> Seq(Tasks)] BY <1>2 DEF Typed, PoolsTyped
      <3>3. chan'[pool[s]] = Append(chan[pool[s]], t) BY <1>3, <3>1, <3>2
      <3>4. t \in ToSet(chan'[pool[s]])
        <4>1. chan[pool[s]] \in Seq(Tasks) BY <1>3, <3>2
        <4>2. /\ Len(chan[pool[s]]) + 1 \in DOMAIN Append(chan[pool[s]], t)
              /\ Append(chan[pool[s]], t)[Len(chan[pool[s]]) + 1] = t BY <4>1
        <4> QED BY <3>3, <4>2 DEF ToSet
      <3>5. shut = "no" BY <2>1, <1>2, <1>3 DEF Accepts, Open, Live
      <3> QED BY <1>3, <3>4, <3>5 DEF Queued
    <2>2. CASE ~Accepts(pool[s])
      <3>1. spc'[s] = "back" /\ task'[s] = task[s]
        BY <1>5, <2>2, <1>2 DEF Send, Step, Typed, SubmittersTyped
      <3> QED BY <1>1, <3>1 DEF Claiming
    <2> QED BY <2>1, <2>2
  <1>6. CASE Back(s)
    <2>1. status' = GivenBack({t}) BY <1>1, <1>6 DEF Back
    <2>2. status'[t] # "processing" BY <2>1 DEF GivenBack
    <2> QED BY <2>2
  <1>7. Submit(s) => Send(s) \/ Back(s)
    BY <1>1 DEF Submit, Load, Create, Reopen, Query, Decide, Choose, Reserve, ClaimRow, Drop
  <1> QED BY <1>1, <1>2, <1>4, <1>5, <1>6, <1>7, SubmitterStep

\* A worker that holds a claimed row begins it or hands it back.
LEMMA HandlingStep ==
  ASSUME PoolInv, [Next]_vars, NEW t \in Tasks, Handling(t), status'[t] = "processing"
  PROVE  Handling(t)'
  <1>1. PICK w \in Workers : wpc[w] \in {"claim", "release", "drain"} /\ t \in ToSet(job[w])
    BY DEF Handling
  <1>2. Typed /\ Shape /\ Locks BY DEF PoolInv
  <1>3. CASE wpc'[w] = wpc[w] /\ job'[w] = job[w] BY <1>1, <1>3 DEF Handling
  <1>4. ASSUME status' = GivenBack(ToSet(job[w])) PROVE FALSE BY <1>1, <1>4 DEF GivenBack
  <1>5. CASE Claim(w)
    <2>1. job[w] = <<job[w][1]>> BY <1>2, <1>5, JobTask DEF Claim, AtTask
    <2>2. ToSet(<<job[w][1]>>) = {job[w][1]} BY DEF ToSet
    <2>3. t = job[w][1] BY <1>1, <2>1, <2>2
    <2>4. status \in [Tasks -> {"pending", "processing", "running", "ended"}]
      BY <1>2 DEF Typed, RowsTyped
    <2>5. status'[t] # "processing" BY <1>5, <2>3, <2>4 DEF Claim, GivenBack
    <2> QED BY <2>5
  <1>6. CASE Release(w) \/ Exit(w) BY <1>4, <1>6 DEF Release, Exit, Returned
  <1>7. Work(w) => Claim(w) \/ Release(w) \/ Exit(w)
    BY <1>1 DEF Work, Receive, Register, Execute, DropContext, Leave, Drain
  <1> QED BY <1>1, <1>2, <1>3, <1>5, <1>6, <1>7, WorkerStep

-----------------------------------------------------------------------------
(* The rows and who holds their tasks.                                     *)

\* Who executes a task has its row running, or somebody withdrew it; so with
\* post-processing.
RunRight == \A w \in Workers : wpc[w] = "run" => status[job[w][1]] \in {"running", "ended"}
HelpRight == \A t \in Tasks : helper[t] # NoPool => status[t] \in {"running", "ended"}
\* Who leaves a task has its row begun; during the shutdown it may have been
\* handed back and claimed again, then who claimed it holds it.
LeaveRight == \A w \in Workers : \A t \in Tasks : wpc[w] = "leave" /\ job[w] = <<t>> =>
    /\ shut = "no" => status[t] \in {"running", "ended"}
    /\ status[t] = "processing" => Claiming(t) \/ Handling(t)
\* Who holds a task whose row is processing, and whose row is running.
HeldRight == \A t \in Tasks : status[t] = "processing" => Claiming(t) \/ Handling(t) \/ Queued(t)
RunsRight == \A t \in Tasks : status[t] = "running" =>
    helper[t] # NoPool \/ \E w \in Workers : wpc[w] = "run" /\ job[w] = <<t>>
Right == RunRight /\ HelpRight /\ LeaveRight /\ HeldRight /\ RunsRight

LEMMA RightInit == Init => Right
  <1> SUFFICES ASSUME Init PROVE Right OBVIOUS
  <1>1. /\ status = [t \in Tasks |-> "pending"] /\ wpc = [w \in Workers |-> "none"]
        /\ helper = [t \in Tasks |-> NoPool]
    BY DEF Init, Workers
  <1> QED BY <1>1 DEF Right, RunRight, HelpRight, LeaveRight, HeldRight, RunsRight

LEMMA RunRightNext == ASSUME PoolInv, Right, [Next]_vars PROVE RunRight'
  <1>0. Typed /\ Shape /\ Locks /\ Typed' /\ Shape' BY PoolInvNext DEF PoolInv
  <1> SUFFICES ASSUME NEW w \in Workers, wpc'[w] = "run"
               PROVE  status'[job'[w][1]] \in {"running", "ended"}
    BY DEF RunRight
  <1>1. CASE wpc[w] = "run" /\ job'[w] = job[w]
    <2>1. job[w][1] \in Tasks BY <1>0, <1>1, JobTask DEF AtTask
    <2>2. status[job[w][1]] \in {"running", "ended"} BY <1>1 DEF Right, RunRight
    <2> QED BY <1>0, <1>1, <2>1, <2>2, StatusStep
  <1>2. CASE Claim(w)
    <2>1. status' = [status EXCEPT ![job[w][1]] = "running"] /\ job' = job
      BY <1>0, <1>2 DEF Claim, Move, workers, Typed, WorkersTyped
    <2>2. job[w][1] \in Tasks BY <1>0, <1>2, JobTask DEF Claim, AtTask
    <2> QED BY <1>0, <2>1, <2>2 DEF Typed, RowsTyped
  <1>3. ASSUME Work(w), ~Claim(w) PROVE FALSE
    BY <1>0, <1>3 DEF Typed, WorkersTyped, Work, Receive, Register, Execute, DropContext, Leave,
       Release, Drain, Exit, Move, LeftToHelper
  <1> QED BY <1>0, <1>1, <1>2, <1>3, WorkerStep

LEMMA HelpRightNext == ASSUME PoolInv, Right, [Next]_vars PROVE HelpRight'
  <1>0. Typed /\ Shape BY DEF PoolInv
  <1> SUFFICES ASSUME NEW t \in Tasks, helper'[t] # NoPool PROVE status'[t] \in {"running", "ended"}
    BY DEF HelpRight
  <1>1. status[t] \in {"running", "ended"}
    <2>1. CASE helper[t] # NoPool BY <2>1 DEF Right, HelpRight
    <2>2. ASSUME NEW w \in Workers, Execute(w), helper'[t] # helper[t]
          PROVE  status[t] \in {"running", "ended"}
      <3>1. t = job[w][1] /\ wpc[w] = "run" BY <1>0, <2>2 DEF Execute, Typed, RowsTyped
      <3> QED BY <3>1 DEF Right, RunRight
    <2>3. ASSUME NEW u \in Tasks, PostProcess(u), helper[t] = NoPool PROVE FALSE
      BY <1>0, <2>3 DEF PostProcess, Typed, RowsTyped
    <2>4. \A s \in Submitters : Reserve(s) \/ ClaimRow(s) \/ Back(s) => helper' = helper
      BY DEF Reserve, ClaimRow, Back, workers
    <2>5. \A w \in Workers : Register(w) \/ Claim(w) \/ Release(w) \/ Exit(w) => helper' = helper
      BY DEF Register, Claim, Release, Exit
    <2>6. \A u \in Tasks : Withdraw(u) => helper' = helper BY DEF Withdraw, workers
    <2> QED BY <2>1, <2>2, <2>3, <2>4, <2>5, <2>6, RowsKept
  <1> QED BY <1>0, <1>1, StatusStep

\* Before the shutdown no pool with a worker at a task is cancelled
\* (OthersIdle), so a claim fails only on a row that runs or ended.
LEMMA LeaveRightNext == ASSUME PoolInv, OthersIdle, Right, [Next]_vars PROVE LeaveRight'
  <1>0. Typed /\ Shape /\ Locks /\ Live BY DEF PoolInv
  <1>s. status \in [Tasks -> {"pending", "processing", "running", "ended"}] BY <1>0 DEF Typed, RowsTyped
  <1>n. shut' = "no" => shut = "no" BY ShutKept DEF StopService, CancelAll, Stopped
  <1> SUFFICES ASSUME NEW w \in Workers, NEW t \in Tasks, wpc'[w] = "leave", job'[w] = <<t>>
               PROVE  /\ shut' = "no" => status'[t] \in {"running", "ended"}
                      /\ status'[t] = "processing" => Claiming(t)' \/ Handling(t)'
    BY DEF LeaveRight
  <1> DEFINE Goal == /\ shut' = "no" => status'[t] \in {"running", "ended"}
                     /\ status'[t] = "processing" => Claiming(t)' \/ Handling(t)'
  <1>1. ASSUME wpc[w] = "leave", job'[w] = job[w] PROVE Goal
    <2>2. shut = "no" => status[t] \in {"running", "ended"} BY <1>1 DEF Right, LeaveRight
    <2>3. status[t] = "processing" => Claiming(t) \/ Handling(t) BY <1>1 DEF Right, LeaveRight
    <2>4. status'[t] = "processing" => Claiming(t)' \/ Handling(t)'
      <3>1. SUFFICES ASSUME status'[t] = "processing", ~Claiming(t)' PROVE Handling(t)' OBVIOUS
      <3>2. status[t] = "processing" BY <1>0, <3>1, StatusStep
      <3>3. shut # "no" BY <2>2, <3>2
      <3>4. ~Claiming(t) BY <3>1, <3>3, ClaimingStep
      <3>5. Handling(t) BY <2>3, <3>2, <3>4
      <3> QED BY <3>1, <3>5, HandlingStep
    <2>5. shut' = "no" => status'[t] \in {"running", "ended"} BY <1>0, <1>n, <2>2, StatusStep
    <2> QED BY <2>4, <2>5
  <1>2. ASSUME Execute(w) PROVE Goal
    <2>1. job'[w] = job[w] /\ job[w][1] = t BY <1>2 DEF Execute
    <2>2. status' = [status EXCEPT ![t] = "ended"]
      BY <1>0, <1>2, <2>1 DEF Execute, Ended, Move, LeftToHelper, Typed, WorkersTyped
    <2> QED BY <1>s, <2>2
  <1>3. ASSUME Claim(w) PROVE Goal
    <2>1. job' = job /\ job[w] # <<>> /\ w[1] \in Pools /\ w[2] \in Slots /\ w[1] <= made
      BY <1>0, <1>3, JobTask DEF Claim, AtTask, workers
    <2>0. job[w][1] = t BY <2>1
    <2>2. (cancelled[w[1]] \/ status[t] \notin {"pending", "processing"}) /\ status' = GivenBack({t})
      BY <1>0, <1>3, <2>0 DEF Claim, Move, Typed, WorkersTyped
    <2>3. status'[t] # "processing" BY <1>s, <2>2 DEF GivenBack
    <2>4. ASSUME shut = "no" PROVE status'[t] \in {"running", "ended"}
      <3>1. ~cancelled[w[1]]
        <4>1. SUFFICES ASSUME cancelled[w[1]] PROVE FALSE OBVIOUS
        <4>2. w[1] # NoPool BY <2>1, Assumed DEF Pools, NoPool
        <4>3. w[1] # current BY <1>0, <2>4, <4>1, <4>2 DEF Live
        <4>4. Keeper = current BY <2>4 DEF Keeper
        <4>5. job[<<w[1], w[2]>>] = <<>> BY <2>1, <4>3, <4>4 DEF OthersIdle, Idle
        <4>6. w = <<w[1], w[2]>> BY DEF Workers
        <4> QED BY <2>1, <4>5, <4>6
      <3>2. status[t] \in {"running", "ended"} BY <1>s, <2>2, <3>1
      <3> QED BY <2>2, <3>2 DEF GivenBack
    <2> QED BY <1>n, <2>3, <2>4
  <1>4. ASSUME Work(w), ~Claim(w), ~Execute(w) PROVE FALSE
    BY <1>0, <1>4 DEF Typed, WorkersTyped, Work, Receive, Register, DropContext, Leave, Release, Drain,
       Exit, Move
  <1> HIDE DEF Goal
  <1>5. Goal BY <1>0, <1>1, <1>2, <1>3, <1>4, WorkerStep
  <1> QED BY <1>5 DEF Goal

\* The head of a sequence or in its tail.
LEMMA SeqTailOne ==
  ASSUME NEW S, NEW c \in Seq(S), c # <<>>, NEW t \in ToSet(c)
  PROVE  t = Head(c) \/ t \in ToSet(Tail(c))
  <1>1. PICK n \in 1..Len(c) : c[n] = t BY DEF ToSet
  <1>2. Len(c) \in Nat /\ Len(c) > 0 BY DEF ToSet
  <1>3. CASE n = 1 BY <1>1, <1>3
  <1>4. CASE n > 1
    <2>1. Len(Tail(c)) = Len(c) - 1 /\ n - 1 \in 1..Len(Tail(c)) /\ Tail(c) \in Seq(S) BY <1>2, <1>4
    <2>2. Tail(c)[n - 1] = t BY <1>1, <1>4, <2>1
    <2>3. n - 1 \in DOMAIN Tail(c) BY <2>1
    <2> QED BY <2>2, <2>3 DEF ToSet
  <1> QED BY <1>1, <1>3, <1>4

\* A queued task stays queued until a worker has it.
LEMMA QueuedStep ==
  ASSUME PoolInv, [Next]_vars, NEW t \in Tasks, Queued(t)
  PROVE  \/ Queued(t)' \/ Handling(t)'
         \/ \E w \in Workers : Register(w) /\ job[w] = <<t>>
  <1>0. Typed /\ Shape /\ Locks BY DEF PoolInv
  <1>w. wpc \in [Workers -> {"none", "idle", "start", "claim", "run", "leave", "left", "release", "drain"}]
        /\ job \in [Workers -> Seq(Tasks)]
        /\ chan \in [Pools -> Seq(Tasks)] BY <1>0 DEF Typed, WorkersTyped, PoolsTyped
  <1>1. ASSUME NEW w \in Workers, wpc[w] = "start", job[w] = <<t>>
        PROVE  Queued(t)' \/ \E v \in Workers : Register(v) /\ job[v] = <<t>>
    <2>1. Work(w) => Register(w)
      BY <1>1 DEF Work, Receive, Claim, Execute, DropContext, Leave, Release, Drain, Exit
    <2>2. CASE wpc'[w] = wpc[w] /\ job'[w] = job[w] BY <1>1, <2>2 DEF Queued
    <2> QED BY <1>0, <1>1, <2>1, <2>2, WorkerStep
  <1>2. ASSUME NEW p \in Pools, t \in ToSet(chan[p]) PROVE Queued(t)' \/ Handling(t)'
    <2>1. CASE chan'[p] = chan[p] BY <1>2, <2>1 DEF Queued
    <2>2. ASSUME NEW s \in Submitters, chan'[p] = Append(chan[p], task[s]), s \in Submitters,
                 task[s] \in Tasks
          PROVE  Queued(t)'
      <3>1. PICK n \in 1..Len(chan[p]) : chan[p][n] = t BY <1>w, <1>2 DEF ToSet
      <3>2. n \in DOMAIN chan'[p] /\ chan'[p][n] = t BY <1>w, <2>2, <3>1
      <3>3. t \in ToSet(chan'[p]) BY <3>2 DEF ToSet
      <3> QED BY <3>3 DEF Queued
    <2>3. ASSUME NEW w \in Workers, Receive(w), w[1] = p PROVE Queued(t)' \/ Handling(t)'
      <3>1. /\ wpc'[w] \in {"release", "start"} /\ job'[w] = <<Head(chan[p])>>
            /\ chan'[p] = Tail(chan[p]) /\ chan[p] # <<>>
        BY <1>w, <2>3 DEF Receive, Move
      <3>2. CASE t = Head(chan[p])
        <4>1. t \in ToSet(<<t>>) BY DEF ToSet
        <4> QED BY <3>1, <3>2, <4>1 DEF Queued, Handling
      <3>3. CASE t \in ToSet(Tail(chan[p])) BY <3>1, <3>3 DEF Queued
      <3> QED BY <1>w, <1>2, <3>1, <3>2, <3>3, SeqTailOne
    <2>4. ASSUME NEW w \in Workers, Drain(w), w[1] = p PROVE Handling(t)'
      <3>1. wpc'[w] = "drain" /\ job'[w] = chan[p] BY <1>w, <2>4 DEF Drain, Drained, Move
      <3> QED BY <1>2, <3>1 DEF Handling
    <2>5. ASSUME NEW s \in Submitters, Send(s) PROVE task[s] \in Tasks
      BY <1>0, <2>5, SubmitterTask DEF Send
    <2> QED BY <1>0, <2>1, <2>2, <2>3, <2>4, <2>5, ChanStep
  <1> QED BY <1>1, <1>2 DEF Queued

\* The only step that lets a queued task go is a registration that finds the
\* context of the task, and who has it holds the row.
LEMMA HeldRightNext == ASSUME PoolInv, Right, [Next]_vars PROVE HeldRight'
  <1>0. Typed /\ Shape /\ Locks /\ Live BY DEF PoolInv
  <1> SUFFICES ASSUME NEW t \in Tasks, status'[t] = "processing", ~Claiming(t)', ~Handling(t)', ~Queued(t)'
               PROVE  FALSE
    BY DEF HeldRight
  <1>1. status[t] = "processing" BY <1>0, StatusStep
  <1>2. ~Claiming(t) BY ClaimingStep
  <1>3. ~Handling(t) BY HandlingStep
  <1>4. Queued(t) BY <1>1, <1>2, <1>3 DEF Right, HeldRight
  <1>5. PICK w \in Workers : Register(w) /\ job[w] = <<t>> BY <1>4, QueuedStep
  <1>6. job[w][1] = t BY <1>5
  <1>7. ~HasContext(t)
    <2>1. helper[t] = NoPool BY <1>1 DEF Right, HelpRight
    <2>2. ASSUME NEW v \in Workers, wpc[v] \in {"claim", "run", "leave"}, job[v] = <<t>> PROVE FALSE
      <3>1. job[v][1] = t /\ t \in ToSet(job[v]) BY <2>2 DEF ToSet
      <3>2. CASE wpc[v] = "claim" BY <3>1, <3>2, <1>3 DEF Handling
      <3>3. CASE wpc[v] = "run" BY <3>1, <3>3, <1>1 DEF Right, RunRight
      <3>4. CASE wpc[v] = "leave" BY <2>2, <3>4, <1>1, <1>2, <1>3 DEF Right, LeaveRight
      <3> QED BY <2>2, <3>2, <3>3, <3>4
    <2> QED BY <2>1, <2>2 DEF HasContext, Workers
  <1>8. wpc'[w] = "claim" /\ job' = job
    BY <1>0, <1>5, <1>6, <1>7 DEF Register, Move, Typed, WorkersTyped
  <1>9. t \in ToSet(<<t>>) BY DEF ToSet
  <1> QED BY <1>5, <1>8, <1>9 DEF Handling

\* Whoever stops executing a task ends its row or leaves it to a goroutine,
\* which ends it.
LEMMA RunsRightNext == ASSUME PoolInv, Right, [Next]_vars PROVE RunsRight'
  <1>0. Typed /\ Shape /\ Locks BY DEF PoolInv
  <1>t. /\ status \in [Tasks -> {"pending", "processing", "running", "ended"}]
        /\ helper \in [Tasks -> Pools \cup {NoPool}]
        /\ NoPool \notin Pools
    BY <1>0, Assumed DEF Typed, RowsTyped, Pools, NoPool
  <1> SUFFICES ASSUME NEW t \in Tasks, status'[t] = "running", helper'[t] = NoPool,
                      ~\E w \in Workers : wpc'[w] = "run" /\ job'[w] = <<t>>
               PROVE  FALSE
    BY DEF RunsRight
  <1>1. status[t] = "running" BY <1>0, StatusStep
  <1>2. helper[t] = NoPool
    <2>1. ASSUME NEW u \in Tasks, PostProcess(u), helper'[t] # helper[t] PROVE FALSE
      <3>1. u = t BY <1>t, <2>1 DEF PostProcess
      <3> QED BY <1>t, <2>1, <3>1 DEF PostProcess, Ended
    <2>2. ASSUME NEW w \in Workers, Execute(w), helper'[t] # helper[t] PROVE FALSE
      <3>1. helper'[t] = w[1] /\ w[1] \in Pools BY <1>t, <2>2 DEF Execute, Workers
      <3> QED BY <1>t, <3>1
    <2>4. \A s \in Submitters : Reserve(s) \/ ClaimRow(s) \/ Back(s) => helper' = helper
      BY DEF Reserve, ClaimRow, Back, workers
    <2>5. \A w \in Workers : Register(w) \/ Claim(w) \/ Release(w) \/ Exit(w) => helper' = helper
      BY DEF Register, Claim, Release, Exit
    <2>6. \A u \in Tasks : Withdraw(u) => helper' = helper BY DEF Withdraw, workers
    <2> QED BY <2>1, <2>2, <2>4, <2>5, <2>6, RowsKept
  <1>3. PICK w \in Workers : wpc[w] = "run" /\ job[w] = <<t>> BY <1>1, <1>2 DEF Right, RunsRight
  <1>4. Execute(w)
    <2>1. Work(w) => Execute(w)
      BY <1>3 DEF Work, Receive, Register, Claim, DropContext, Leave, Release, Drain, Exit
    <2> QED BY <1>0, <1>3, <2>1, WorkerStep
  <1>5. job[w][1] = t BY <1>3
  <1>6. CASE Ended(t) BY <1>t, <1>6 DEF Ended
  <1>7. CASE helper' = [helper EXCEPT ![t] = w[1]] BY <1>t, <1>7 DEF Workers
  <1> QED BY <1>4, <1>5, <1>6, <1>7 DEF Execute

\* The invariant of the rows.
RightInv == PoolInv /\ OthersIdle /\ Right

LEMMA RightInvAlways == Spec => []RightInv
  <1>1. Init => RightInv BY InitPoolInv, QuietInit, RightInit DEF RightInv
  <1>2. RightInv /\ [Next]_vars => RightInv'
    <2> SUFFICES ASSUME RightInv, [Next]_vars PROVE RightInv' OBVIOUS
    <2>1. PoolInv' /\ OthersIdle' BY PoolInvNext, OthersIdleNext DEF RightInv
    <2>2. Right'
      BY RunRightNext, HelpRightNext, LeaveRightNext, HeldRightNext, RunsRightNext DEF RightInv, Right
    <2> QED BY <2>1, <2>2 DEF RightInv
  <1> QED BY <1>1, <1>2, PTL DEF Spec

\* Who holds a row holds a task its pool has accepted.
LEMMA HeldIsAccepted == ASSUME PoolInv, Right PROVE ProcessingIsHeld
  <1> SUFFICES ASSUME NEW t \in Tasks, status[t] = "processing" PROVE \E p \in Pools : t \in Accepted(p)
    BY DEF ProcessingIsHeld
  <1>0. Typed /\ Shape BY DEF PoolInv
  <1>1. ASSUME NEW w \in Workers, t \in ToSet(job[w]) PROVE \E p \in Pools : t \in Accepted(p)
    <2>1. w = <<w[1], w[2]>> /\ w[1] \in Pools /\ w[2] \in Slots BY DEF Workers
    <2>2. t \in UNION {ToSet(job[<<w[1], k>>]) : k \in Slots} BY <1>1, <2>1
    <2> QED BY <2>1, <2>2 DEF Accepted
  <1>2. CASE Claiming(t)
    <2>1. PICK s \in Submitters : spc[s] \in {"send", "back"} /\ task[s] = t BY <1>2 DEF Claiming
    <2>2. pool[s] \in Pools /\ Reserving(s, pool[s]) BY <1>0, <2>1, SubmitterTask DEF Reserving
    <2>3. t \in {task[r] : r \in {q \in Submitters : Reserving(q, pool[s])}} BY <2>1, <2>2
    <2> QED BY <2>2, <2>3 DEF Accepted
  <1>3. CASE Handling(t) BY <1>1, <1>3 DEF Handling
  <1>4. CASE Queued(t)
    <2>1. ASSUME NEW p \in Pools, t \in ToSet(chan[p]) PROVE t \in Accepted(p) BY <2>1 DEF Accepted
    <2>2. t \in ToSet(<<t>>) BY DEF ToSet
    <2> QED BY <1>1, <1>4, <2>1, <2>2 DEF Queued
  <1> QED BY <1>2, <1>3, <1>4 DEF Right, HeldRight

\* What the shutdown awaited is idle, and so is everything else.
LEMMA StoppedAllQuiet == ASSUME PoolInv, OthersIdle, Right PROVE StoppedIsQuiet
  <1> SUFFICES ASSUME shut = "done" PROVE (\A p \in Pools : Accepted(p) = {}) /\ InFlight = {}
    BY DEF StoppedIsQuiet
  <1>1. (\A p \in Pools : Idle(p) /\ p # NoPool) /\ \A t \in Tasks : helper[t] = NoPool
    BY Assumed DEF OthersIdle, Pools, NoPool
  <1>2. \A p \in Pools : Accepted(p) = {} BY <1>1, IdleAcceptsNone
  <1>3. ASSUME NEW t \in Tasks, status[t] = "processing" PROVE FALSE
    BY <1>2, <1>3, HeldIsAccepted DEF ProcessingIsHeld
  <1>4. ASSUME NEW t \in Tasks, status[t] = "running" PROVE FALSE
    <2>2. PICK w \in Workers : wpc[w] = "run" /\ job[w] = <<t>> BY <1>1, <1>4 DEF Right, RunsRight
    <2>3. w = <<w[1], w[2]>> /\ w[1] \in Pools /\ w[2] \in Slots BY DEF Workers
    <2>4. job[w] = <<>> BY <1>1, <2>3 DEF Idle
    <2>5. Len(job[w]) = 1 /\ Len(job[w]) = 0
      <3>1. Len(<<t>>) = 1 /\ Len(<<>>) = 0 OBVIOUS
      <3> QED BY <2>2, <2>4, <3>1, Zenon
    <2> QED BY <2>5
  <1> QED BY <1>2, <1>3, <1>4 DEF InFlight

\* A processing row is in somebody's hands: who claimed it, a queue, or a
\* worker. No lost reply, closed pool or shutdown leaves it behind.
THEOREM ProcessingIsHeldAlways == Spec => []ProcessingIsHeld
  <1>1. RightInv => ProcessingIsHeld BY HeldIsAccepted DEF RightInv
  <1> QED BY <1>1, RightInvAlways, PTL

\* After CancelAllAndWait reported the end of all work, nothing is accepted,
\* queued, executed or post-processed.
THEOREM StoppedIsQuietAlways == Spec => []StoppedIsQuiet
  <1>1. RightInv => StoppedIsQuiet BY StoppedAllQuiet DEF RightInv
  <1> QED BY <1>1, RightInvAlways, PTL

=============================================================================
