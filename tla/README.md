# A verification development for OneClickVirt

OneClickVirt is a controller for virtualization nodes: users and administrators
ask, through a web API, for instances (containers and virtual machines) on
*providers* (Proxmox, Incus, LXD, Docker, ... nodes reached over SSH, an HTTP API
or a WebSocket agent). Whatever takes time is a *task*: a row of the `tasks`
table that a scheduler hands to the provider's worker pool. The controller is one
Go process (`server/`) over a MySQL database; it can be restarted at any moment.

This directory holds TLA+ models of the controller's own logic, TLC runs that
check them on small instances, and TLAPS proofs of their main theorems for every
instance. `PROJECT.json` maps every definition to the lines it was translated
from. All paths below are relative to `src/`.

## 1. Inventory

### 1.1 The task engine (`server/service/task`)

| state | where |
|---|---|
| `tasks` rows: status, type, instance, `cancel_reason`, `task_data` (original status, lifecycle phase) | database |
| `instances.status`, the lock of an operation while it is starting, stopping, ... | database |
| `queuedTasks`: ids that sit in some pool's channel | process, `service.go` |
| `ProviderWorkerPool.TaskQueue` and its counters | process, `service.go`, `pool_manager.go` |
| `TaskContextManager.contexts`: id -> context with cancel function | process, `context_manager.go` |
| `cancellationCleanup`: ids with a cleanup goroutine | process, `control.go` |

Operations: `CreateTask` (with `reserveInstanceOperationInTx`), `trySubmit`,
`worker`/`executeTask`, the executors of each task type, `CompleteTask`,
`CancelTask` and `CancelTaskByAdminScoped` with their cleanup goroutine,
`CleanupTimeoutTasksWithLockRelease` (the reaper, every few minutes),
`cleanupInterruptedTasks` (at startup), `GetOrCreate`, `Delete`, `CleanupIdle`,
`CancelAllAndWait` of the pools.

A task's status moves pending -> processing -> running -> (cancelling ->)
completed, failed, cancelled or timeout. Seven kinds of goroutine write it:
request handlers, the scheduler, workers, the goroutine a start or restart
leaves behind for post-processing, the cancellation cleanup, the reaper, and
startup. All of them use row locks or a conditional `UPDATE`, but between two such
transactions, and between a transaction and the process's maps, anything may
happen. The instance's status has writers that look at no task as well: the hourly
repair, the comparison with the node, and administrators, whose edit reads a row and saves
every column of it later. That is where this component is hard, and where the models aim.

What makes it correct: two tasks never operate on one instance; a row does not end
while the provider call it stands for is active; a task is begun at most once;
what has ended stays as it is; every task ends and every lock opens; a delete
past its point of no return never shows the instance as running again, but by a write of
those others.

### 1.2 Worker pools (`server/service/task/pool_manager.go`, `worker_pool.go`)

One pool per provider: a channel, `MaxWorkers` goroutines, a context, and
counters that tell whether it may be closed. Pools are replaced when a
provider's concurrency changes, closed when idle, deleted with the provider, and
all closed at shutdown, while schedulers submit to them. Correct when an accepted
task is executed or given back, a pool is closed under no task except by
shutdown, and shutdown returns only when nothing runs.

### 1.3 Configuration tasks (`server/service/config/task.go`, `service/task/state_manager.go`)

A provider's own configuration (installing tools, exchanging certificates) is a row of
`configuration_tasks` and an entry of `runningTasks`, a process-local map from provider
to the task that occupies it. The entry is written before the row is running and
removed after the row has ended, so the two disagree in between on purpose.
Operations: `CreateTask`, `StartTask`, `CancelTaskScoped`, `FinishTask` with its
retries, `WaitForTaskRelease` for forced reruns, and `cleanupUnfinishedTasks` at the
first use after a restart. Cancellation, completion, a forced rerun and a retried
save may all act on one task at a time. Correct when one goroutine configures a
provider at a time, a cancellation that was accepted wins over a late answer, and
the provider is given back whatever fails.

### 1.4 Admission and capacity (`server/service/user/provider`, `resources`, `taskgate`)

A create request is one transaction: it reads the switch of the task pool, locks the
user and the provider, counts what the user holds (instances and unexpired
reservations) and what the node carries (`providers.container_count`, counted
again when its cache has expired), and inserts a reservation and a task. The create task
later exchanges the reservation for the instance's row; a periodic job removes
expired reservations; deletions, cancellations, the repair job and the next
process's cleanup take instances out of the count and may put them back. Hard: what is
read from the transaction's snapshot and what under a lock. Correct when no user
gets more than the limit allows, a closed pool drains, and no instance stays in
creation for ever.

### 1.5 The scan of pending tasks (`server/service/scheduler/service.go`)

A pass takes a batch of a provider's pending tasks, from a cursor to a high-water
mark, and tries each. Correct when each pending task is tried again and again,
whatever stands before it and arrives behind it.

### 1.6 The agent hub (`server/service/agent/hub.go`, `conn.go`, `tunnel*.go`)

| state | where |
|---|---|
| `conns`, the current connection by provider | process |
| `pending` requests, shell sessions, `doneCh` of a connection | process |
| tunnel managers and their sessions | process |
| `providers.agent_status`, the marker of a pending discovery | database |

An agent that reconnects supersedes its old connection while that one's read loop,
ping loop and tunnels still go on. Only `Register` and `unregister` share a lock per
provider; the health pass and edits write the row from what they saw before. Correct
when the row tells whether an agent is connected, tunnels belong
to the current connection, a discovery asked for is run once, a caller who is told
that a command has ended can rely on it, and a shell's frames are in order.

### 1.7 Outages (`agent/hub.go`, `scheduler/health.go`, `scheduler/instance_recovery*.go`)

The edges of the hub, its frames, the health pass, the periodic or requested
recovery and a starting process write one provider's row: agent status, status,
freeze, offline marker and the recovery's lease. All but the edges read the row
first and write later. Correct when an outage that was long enough is recovered
exactly by a recovery that queued its starts, and is not forgotten through flaps.

### 1.8 The controller's port forwards (`agent/tunnel_proxy.go`)

A row asks the controller to listen on a port and to carry its connections through
the agent's tunnel. The request that creates it, the task that deletes it, the
holder of `recoveryMu` and the listeners themselves act on the rows, the map of
listeners and the sockets. Correct when each listener is known to somebody who can
stop it, and rows and listeners come together again after any failure.

### 1.9 Host ports (`service/resources/port*.go`, `service/task/port_mapping_tasks.go`)

Rows of port mappings, the provider's cursor, and the rules on the node, which tasks
make and remove. A request chooses a segment in one transaction and inserts in
another; a reset gives a guest's rows to its successor. Correct when a host port
belongs to one row, and a rule on the node leads to a guest that has a row for it.

### 1.10 Redemption codes (`service/admin/redemption`, `service/user/provider/redeem*.go`)

A code comes with an instance of its own, created beforehand; a user redeems it and
becomes the instance's owner; administrators delete it with its instance, by a
request that reads before its transaction, and edit the instance in the same way. The
instance may be deleted apart from the code. Correct when a code is redeemed
once and tells the truth about its instance.

### 1.11 Whether an instance runs (`scheduler/instance_sync.go`, `service/traffic/three_tier_*.go`)

`instances.status` says whether a guest runs, and the node knows. Start and stop tasks
lead from one to the other; a periodic comparison with the node writes the status
when three reports in a row differ from it; the traffic limits of three tiers (provider,
user, instance) stop, freeze or mark what is over its quota, and later restart what
they stopped.

| state | where |
|---|---|
| `instances.status`, `traffic_limited`, `traffic_limit_reason`, `traffic_stopped`, `is_frozen`, `frozen_reason` | database |
| `traffic_limited` of users and providers, the policy of a provider | database |
| `mismatchTracker`: the differences counted so far, by instance | process |
| `trafficCheckMu`: one sweep at a time | process |

Sweeps, single checks, start requests (which refresh the limits first), monthly
resets and administrators all read usage and rows first and write in one short
transaction per object afterwards; the edit of a provider, a user or an instance saves the
limits that it read with the rest of the row. Hard: what a pass acts on may be gone. Correct when
a status comes to what the node shows, no limit or freeze outlives what it came from,
what stays over its quota is stopped in the end, and what is not over it is freed.

### 1.12 The other components

| component | state and operations | hard part | correct when |
|---|---|---|---|
| scheduler's other jobs (`service/scheduler`) | pmacct and agent monitoring, expiry freeze, snapshots | passes overlap with user operations; each reads, calls a node, writes | no pass overwrites a newer state |
| repair and expiry (`service/system`) | hourly `RepairStuckInstances` (in `TaskEngine` and `Capacity`), `stopExpiredInstance` | unconditional writes after a read | a repaired instance is nobody's |
| IPv6 and IPv4 pools, tunnels (`service/ipv6pool`, `service/ipv6tunnel`) | address rows bound to instances | release by binding while being reallocated | an address has one owner |
| traffic counters (`service/traffic`, `service/pmacct`) | counters and histories | counter resets of the node, batches | nothing counted twice |
| caches (`service/cache`) | per-user and per-instance entries with TTL | invalidation before the write it is for | no stale entry outlives an update |
| auth and sessions (`service/auth`, `oauth2`, `kyc`, `middleware`) | tokens, key rotation, revocation | rotation versus validation | a revoked token is refused |
| check-in, invites, snapshots, domains, firewall | rows with a state and a node-side effect | partial failure between row and node | row and node agree after retry |
| update (`service/update`) | self-update with rollback | crash in the middle | the old or the new version runs |
| drivers (`server/provider/*`), API (`api/v1`), MCP, web, agent in Rust, scripts, deploy, action tests | translation to commands and pages | I/O | not state machines of their own |

The interactions that matter: request handlers call `CreateTask`; the scheduler
calls `StartTaskWithProvider` and the reaper; executors call the drivers, the
quota service, ports, pools of addresses and the agent hub; `CompleteTask` calls
the cleanup of quota and instances; the repair and sync jobs write the same
`instances.status` the executors use as their lock; the hub's edges start and stop
forwards and begin and end outages.

## 2. Modules

| module | what it models |
|---|---|
| `TaskEngine` | 1.1 for start, stop, restart and delete tasks, with the scheduler's submission, the repair job, edits of an instance, the comparison with the node and process crashes |
| `TaskLifecycle` | the abstract life of a task: begun at most once, ends by its executor or when it has none, terminal stays |
| `ProviderPool` | 1.2 for one provider: pools, submission, workers, idle cleanup, deletion, shutdown |
| `ConfigTask` | 1.3 for one provider, with process restarts |
| `Capacity` | 1.4 for one user and one node, with the gate, the repair job and restarts |
| `PendingScan` | 1.5 for one provider |
| `AgentHub` | 1.6 for one agent: connections, row, tunnels, discovery, the health pass and edits |
| `AgentSession` | 1.6 for one connection: commands and one shell |
| `ProviderOutage` | 1.7 for one agent provider |
| `PortForward` | 1.8 for one provider's rows |
| `PortPool` | 1.9 for one provider |
| `Redemption` | 1.10 for one code, with edits of its instance |
| `InstancePower` | 1.11: status, guest and the effects of start and stop tasks; extended by the next two |
| `InstanceSync` | 1.11: the comparison of one provider's instances with its node |
| `TrafficLimit` | 1.11: passes over the three tiers, resets, administrators, edits of the rows, recoveries |
| `TaskEngineProofs`, `ProviderPoolProofs`, `ConfigTaskProofs`, `PortPoolProofs`, `AgentHubProofs`, `RedemptionProofs` | theorems about the modules they are named for, for all constants |
| `InstanceProofs` | theorems about `Capacity`, `InstanceSync` and `TrafficLimit` |
| `AgentUseProofs` | theorems about `AgentSession`, `PortForward` and `ProviderOutage` |
| `MC*` | instances for TLC: symmetry and constraints. `MCAfterCrash` (`TaskEngine`, `PortForward`), `MCCapacity` (`Capacity`, `PendingScan`, `InstanceSync`) and `MCServices` (`AgentHub`, `AgentSession`, `PortPool`, `Redemption`, `TrafficLimit`) check modules without common state as parts of one run |

How they meet. `ProviderPool` details what `TaskEngine` takes for granted: that a
pending row which the scheduler submits reaches a worker's hands or goes back to
pending; `PendingScan` that the scheduler submits it at all. They meet in the row's
status and in `queuedTasks`; they are checked apart because their product is out of
reach. `Capacity` is the create task's side of the engine: its phases are those of
a `TaskEngine` task, and an instance enters `TaskEngine` when it leaves `Capacity`'s
`creating`. `AgentHub`'s edges are the steps `Link`/`Unlink` of `ProviderOutage` and
`Connect`/`Withdraw` of `PortForward`, each with the detail its own state needs;
`AgentSession` is what goes on inside a connection. `Redemption`'s create and delete
tasks are `TaskEngine`'s. `PortPool`'s jobs are executors of one `ProviderPool`.
Configuration tasks share no state with the others. `InstancePower`'s tasks are
`TaskEngine`'s with only their effects kept, so that several may be open at once: the
ones that policies insert bypass the admission of 1.1. The comparison that
`InstanceSync` models step by step is one step (`Reconciles`) in `TrafficLimit` and in
`TaskEngine`. The edit of an instance (`UpdateInstance`) is in each module that has one of
the columns it saves over: the status in `TaskEngine`, the owner and the status in
`Redemption`, limit, freeze, mark and status in `TrafficLimit`.

### 2.1 TaskEngine

Grain: an action is one database transaction or one critical section over the
process's shared maps, which is where goroutines interleave. A worker's place is
`pc`: it registers a context (`Register`), removes the queue marker (`Unmark`),
claims the row (`Claim`), executes (`PreflightFail`, `BeginCall`, then one of
`Succeeded`, `Failed`, `Unrecorded`, `NotDeleted`, `Deleted`), completes
(`Commit`) and drops the context (`Release`). Starts and restarts hand the task to
a helper goroutine after the provider's call (`PostProcessed`). `undoing` holds the
tasks whose row is terminal and whose `handleCancelledTaskCleanup` has not run
yet: it always runs after the transaction, so anything may come in between, the
process's end included. An edit reads an instance that no operation holds (`EditRead`) and
later saves the status that it read, or that the request asks for, over whatever the row has become
(`EditSave`, `EditDrop`); the comparison with the node writes what the node shows
(`Reconciles`). `overwritten` is a history variable: the instances whose status one of the
two, or a repair of what is no longer as it was read, has changed since an operation was
last admitted there.

Abstractions:
- one provider with one pool of fixed size; a pool's life is 1.2's subject;
- `inst` is `instances.status`; `desired_state`, progress and log columns are left out;
- `Editable` and `Saved` bound which instances edits and the comparison write, and to what. An
  edit may ask for any status, so what it saves is any member of `Saved`; the proofs hold
  for every choice of the two;
- a status written, or a task inserted, by the traffic policies, by expiry and by the
  recovery of instances is not here: the first are in `TrafficLimit`, the others are item 1 of the plan. They
  bypass the admission, so `OneOpenTask` and `OneCallPerInstance` are about tasks that were admitted;
- time is not modelled: a deadline (`Expire`), the grace period, the reaper's age
  thresholds and the repair's 30 minutes may pass at any moment. `SlowOps = FALSE`
  says that an operation does not outlast the 30 minutes, so `RepairRead` finds
  only instances that no open task and no cleanup is about to release. `contention` lifts
  it: then the job, which does not look again at what it read, may show an instance
  running after a later delete has begun; that counts as `overwritten`;
- an `Expire` before the claim, which follows registration at once, counts as a fault;
- a failed database call (`Fault`) may or may not have committed where the code
  cannot tell; panics of an executor are a fault that completes the task as failed;
- `GraceOver` and `Finalize` read the row and the context map in one step;
- the reaper works on its batch one row at a time (rows are independent);
- the startup cleanup's writes are done in `Reboot`, its per-task cleanup in `Undo`
  with the mode `boot`; serving starts when all of them are done.

### 2.2 ProviderPool

Grain: `createMu` and `submitMu` are held within one action, except by whoever
reads `hasLocalWork` (`holder`), whose counters are loaded one after the other
while workers move tasks between them. A submitter goes through `Load`, `Create`,
`Reopen`, `Query`, `Decide`, `Choose` (`GetOrCreate`), `Reserve`, `ClaimRow`, `Send`
(`trySubmit`) and, when it loses, `Back` and `Drop`. A worker receives, registers,
claims and executes, may leave its task to a helper, and drains the queue when its
context ends. A resize marks the old pool for retirement; it is replaced only when
no work is seen, reopened when the concurrency is changed back, and closed by the
idle pass or by shutdown.

Abstractions:
- what a task does and who else writes its row is `TaskEngine`'s; the context manager
  always has room here;
- of database failures only the end of a caller's context (by shutdown) is modelled;
- a worker's claim and its removal of the queue marker are one step, and so are the
  end of a helper and the drop of its context;
- `hasLocalWork` loads `ownedContexts` first and the other counters in one step
  afterwards. `SlowReads = FALSE` says that no whole task (registration, provider
  call, hand-over to post-processing) fits between the two (see 2.10);
- the provider's concurrency is read once per submission;
- idle thresholds are times: a pass may find a pool old enough at any moment,
  `MaxIdle` times;
- `activeCount` and other figures of the statistics page are left out.

### 2.3 ConfigTask

Grain: an action is one transaction, or one critical section of the service's mutex.
A task is started at most once, so its number stands for its `TaskContext`; a
provider's tasks do not touch another's, so there is one provider. A request goes
through `Look` or `Rerun` (with `Cancel`, `Signal`, `Wait`, `Released`), `Insert`, `Start`,
`Check`, `Reserve`, `Begin`, and its goroutine through `Execute`, `Finish`, `FinishSave`; a start
that fails is withdrawn (`Withdraw`) and its row cancelled (`Undo`). `Retry` is
`retryFinishedTask`'s goroutine, `Reboot` the end of the process and the cleanup of the
next. A failed call (`Fault`) may have been committed; `lost` is a history variable
that remembers the active rows such a call left without an owner.

Abstractions:
- the numbers of rows are given in order, before the rows are visible, as
  auto-increment does;
- the confirmation at the end of `StartTask` cannot fail once the transition is
  committed (the entry is removed by its owner only, which `OneConfigurationAlways`
  rests on) and is part of `Begin`;
- `CancelTaskScoped`'s read of the row and the transaction that reads it again under
  a lock are one step;
- the check of the task gate in `CreateTask`, progress and log writes, and the second
  `FinishTask` of a panicking goroutine (which finds the first's result) are left out;
- waiting times are not modelled: a wait may end at any moment.

### 2.4 Capacity and PendingScan

Grain: a transaction is one action, but for its snapshot: `CheckGate` opens the
admission's transaction and fixes what its plain reads see (`seen`); `Admit` or
`Refuse` is the rest of it, with what is read under a row lock as it is now. A job is a
create task with its reservation (`hold`) and its instance (`guest`); `phase` is where
its task is: none, pending, running, cancelling or over; `back` is the status a deletion would restore. `Restart`
leaves a list of `orphans` to clean up one by one, which a second restart loses.
`PendingScan` keeps the rows of pending tasks as a `line` in the order of their ids: a
task that has ended may come again as the last. `SetMark`, `Fetch`, `Try` are a pass.

Abstractions:
- one user, one type of instance, one node; processors, memory, disk and bandwidth
  are sums that follow the same rows; `used_quota` and `pending_quota` are shown and
  not checked by the admission, and are left out;
- the user's count reads under `FOR SHARE` and is current, the node's is a plain
  `SELECT`; the node's cached count is `count`, valid while `fresh`;
- `CleanupOldFailedInstances` is never called and not modelled;
- in the scan a task meets a provider that is available, not available or being deleted.
  `Maintenance` are the tasks that are allowed on one that is not available, `Removals`
  those allowed on one that is being deleted; the others are refused for good or
  cancelled there. A full provider leaves a task pending;
- `service.go`'s branch for a mark that does not exceed the cursor is in `SetMark`,
  though cursor and mark are always reset together, so it is never needed.

### 2.5 AgentHub, AgentSession, ProviderOutage, PortForward

`AgentHub`: an edge is `Register` or `unregister`, in steps as it publishes or removes
the connection, ends tunnels, and writes the row. `conns` is read by everyone
without the edge's lock. The health pass decides by the connection in the hub or, when there is
none, by whether `agent_last_seen` is at most two minutes old, which it may be
or not (`HealthLook`), and writes later (`HealthWrite`, `HealthLost`). `missed` and `stale` are
history variables: a failed write, a write of the pass that was not true of the hub,
or an administrator's edit that saved an older row, excuses the row until the next
write. Identifiers of connections are not used again, as pointers are not while they are referred to.

`AgentSession`: `a.mu`'s critical sections are actions; a frame that is sent is
appended to `wire`; the node ends a command on its own or because it was told to.
A write that waits too long for the gate and one that fails differ only in whether the
transport survives (`NotSent`). File transfer is a command without answers and is
left out.

`ProviderOutage`: each write of the row is an action; `pass` and `rec` hold what the
health pass and the two recoveries have read. Durations are within or beyond their
window (`recent`, `since`, `leased`). Instances are not modelled: a recovery that
queues its starts is done with what it can do.

`PortForward`: a listener is a member of `Socks` and an id is used again once nobody
refers to it. Stopping takes the listener out of the map first and waits for its
goroutine, up to a time. A check works on the rows it has read. The accepted
connections of a listener are not modelled; `RebuildControllerPortForwardsByProvider`
is never called and left out.

### 2.6 PortPool and Redemption

`PortPool`: a request's choice of ports and its insertion are separate transactions;
tasks run one after the other, as they do unless the provider allows concurrent tasks.
`rules` are the node's, from a host port to guests. A reset is `ResetReads`,
`ResetGuest`, `Transfer` and `Restore`. IPv6, dedicated addresses and the
controller's rows are left out; the allocation on a node ignores the latter.

`Redemption`: a redemption locks the code's row from `Redeem` to `Redeemed`; an
administrator's request reads in up to three steps what `BatchDelete` then writes in
one transaction. The instance's other users (start, stop, reset) are left out, and
with resets the transfer of a code to the new instance; a code is deleted with its instance
(`Orphaned`), unless that fails, which the code only logs (the other disjunct of `Deleted`), or the instance
goes with its provider (`ProviderDeleted`). `creating` instances are quarantined when their
creation ends badly (`Quarantine`), and a delayed deletion is asked for. An edit of the
instance (`ReadRow`, `SaveRow`, `DropRow`) holds in `copies` the owner that it read, and saves
it with any status that it may be asked for, also over a row that is gone. `redeemer` and `scars` are
history variables: who redeemed the code, and which of the three ways to part code and instance has
been taken (`"code"`: the code was left behind; `"owner"`, `"status"`: an edit changed
the one or saved "creating"). The comparison with the node, which moves an instance
between running, stopped and error, is left out: `live` and `error` are told apart by
no property.

### 2.7 InstancePower, InstanceSync, TrafficLimit

`InstancePower`: a task is queued, then obeyed by the node or refused, then recorded;
its executor writes a result only on an instance that still waits for that kind of
result (`Awaited`). A user's task reserves the instance, a policy's does not. The guest
may turn by itself at any moment.

`InstanceSync`: the node is listed first (`Lists`), the rows are read after it (`Compares`),
and each difference is counted or, the third time, written (`Processes`) if the row
is still as it was read (`StillOld`). A record is forgotten when reports are too
far apart (`Forgets`), or when a report that differs elsewhere finds it agrees.

`TrafficLimit`: a pass has a stage (`reset`, the three tiers, `recover`; `ask` and
`reserve` of a start request) and goes through what it has judged one transaction at a
time: `Judges` reads a tier's rows and usage together, `Surveys` reads the instances of
an object, `Limits` and `Lifts` write. A sweep whose stage fails goes on with the next
one (`Errs`). `Limited` stops, freezes or marks by the policy of each provider. An edit of a
provider, a user or an instance reads its row (`OpensEdit`) and saves the limits of then with
what it changes (`SavesTier`, `SavesInstance`). `revived` is a history variable: a row that such a
save gave an older limit, or took a flag from, until it is limited or lifted again.

Abstractions:
- usage is an input: an object is at its quota or not (`over`), and may be left out of
  a sweep (`absent`);
- tasks are reduced to their effects; `desired_state` is left out;
- one edit is under way at a time (`draft`); the status that an instance's edit saves may be any;
- `Slots` bounds the tasks of one instance that are open at once;
- creating and resetting instances, which the filter of `processStatusChanges` keeps
  out, do not appear.

### 2.8 Runs

Bounds are constants of the models; the `MC` modules add what a constant cannot say.

| run | instance | what it asks |
|---|---|---|
| `faults` | 1 task, 2 workers, a helper, 1 crash, 2 faults; start, stop, delete; edits and comparisons that save "running" | a row does not end under its call; past the point of no return an instance is not shown running but by a write that does not look again; the refinement of `TaskLifecycle` |
| `contention` | 2 tasks on 1 instance, 2 workers, a helper, a context that another provider takes at times, `SlowOps`; restart, delete | two goroutines never operate on one instance, even when the repair job unlocks instances in use; a cancelled task unlocks |
| `after_crash` | 1 task, a context manager that another provider may fill, 1 crash, 1 fault; and 1 forward, 2 listeners, 1 connection, 1 break or 1 restart; fair | every task ends, every lock opens; every serving listener can be stopped, rows and listeners settle |
| `pool_safe` | 2 tasks, 2 submitters, 3 pools, a resize, an idle pass, deletion, shutdown | one live pool; the send never waits; no pool is cancelled under its work; claimed rows are held; nothing stays in a dead pool; nothing runs after `Shutdown` |
| `pool_live` | 2 tasks, 1 submitter, a resize, shutdown, fair | pending tasks are taken; shutdown ends |
| `config` | 2 requests, 2 tasks, 1 attempt, 1 crash, 3 faults, fair | one configuration at a time; reruns wait; cancellation wins; active rows are owned; the provider is given back |
| `capacity` | 2 jobs, 1 creator, limits 1 and 2, 1 restart; 3 tasks, batches of 1, 1 reboot; 2 instances, 1 operated, 2 confirmations; fair | no admission passes the user's limit; a closed pool drains; no creation stays; the scan comes round; a status heals |
| `outage` | frozen after 1 inactive pass, 1 reboot, fair | a long outage is kept for its recovery; outages are noticed and recovered |
| `services` | 2 connections, 2 tunnels, 1 fault, 1 edit, 1 reboot, health checks; 1 command, a shell with 3 users; 2 requests for 2 rows over 2 ports; 1 code, 2 redeemers, 1 administrator, 1 editor, 2 deletions, 1 restart; 2 passes over 1 instance, 1 user, 1 provider that freezes, with edits of each | the safety properties of the hub, of sessions, of ports, of codes and of traffic limits |
| `traffic_live` | 1 pass, 1 instance that goes over its quota, 2 open tasks, the policy stops; edits of one tier; fair | what stays over its quota is off again and again; what is not loses its limits |
| `cleanup_race` | 2 restarts | finding 1 |
| `capacity_node` | 2 jobs, limits 2 and 1 | finding 2 |

Why the bounds are enough. Engine: one task with two workers is enough for the races
of a row with itself: duplicate queue entries come from the scheduler, the reaper and
a lost reply, and need two workers, two faults and one crash at most. Two tasks on one
instance are enough for the races over an instance, since every property about
instances relates two tasks; `OneDelete` leaves a second delete task out of
`contention`. Only "running" is saved in `faults`, the status that `PastNoReturn` is about;
`contention`, `after_crash` and `cleanup_race` have no edits and no comparison (`Editable = {}`), which would
take them out of reach: `OneCallPerInstance` and `CancelledUnlocks` are proved with
them, `EveryTaskEnds` and `EveryLockOpens` are claimed without. Pools: two submitters race for one creation and one replacement; a third
pool lets a pool follow one that was deleted. `pool_safe` leaves out some of the
combinations (`MCProviderPool`): while the service goes on, two submitters meet either
the resize or the idle pass, and one submitter meets both; during shutdown there is one
submitter, with either. Configurations: every property relates two tasks or two
goroutines; one failed attempt of `FinishTask` and one of the retry exhaust the
retries, and a third fault hits whoever comes next. The code's three attempts differ
in number only. Capacity: the second job is the one over the limit or beyond the
snapshot; the scan's three tasks are one refused, one blocked and one behind them, and
a batch of one makes every boundary of a batch one of the scan. Outage: the properties
are about one provider; a second reboot restarts the same windows. Manual recoveries
with a reboot in the grace period are a part of their own (`asked`), without liveness.
Forwards: one failure or restart at a time (`Brief`), no deletion before or after it;
the second listener is the one that overlaps the first. Hub: two connections are an old
and a new one, which is all a property relates; ports: two rows over two ports are the
least at which segments of one and two ports collide and a cursor wraps; the health pass is a part of its own (`health`), beside connections and without failures of the database; codes: two
users, and a deletion that crosses an older one; a behaviour has deletions by administrators
or edits (`edited codes`), not both. `MaxRefused = 1`: two refusals break
`RulesHaveRows` (2.10). Comparison: one instance is operated and the second is the one a
report differs or agrees in; two confirmations already make a count that may be
interrupted. Traffic limits: every property relates one object to one instance, so one
object at a time is over its quota or left out (`Narrow`); two passes are an old and a
new one. In a behaviour the rows of one tier are edited, or none are and requests are made (`Edited`).
`services` leaves the power of instances out and `traffic_live` the second pass:
there the sweep has to share its slot with requests and checks. When `traffic_live` edits users or
providers, both may be limited and no instance runs; when it edits the instance, that runs
and stops, is edited while its user or provider limits it, and is saved as running or
stopped. Beside edits there are sweeps, limits by hand and the executors; the other administrators'
requests and single checks go with the behaviours without edits. With one slot the
bound, not the code, would make a limit wait for a task, hence two. `CHECK_DEADLOCK FALSE`: a system whose
bounded requests are all served stops.

Modules that share no state are checked as parts of one run (`MCCapacity`,
`MCServices`, `MCAfterCrash`): a behaviour is of one part, chosen at the start, the others rest.

Fairness. Engine (`FairSpec`): weak fairness of every goroutine's next step (the Go
scheduler runs what can run; provider calls have timeouts), of the cleanup
goroutines and of the repair job; strong fairness of the reaper per row, because
it reads the oldest rows first on every pass, so a row that keeps being old enough
is taken. Pools: strong fairness of submitters, workers, and the scheduler per task,
because Go's mutexes hand over to who has waited and a select over a ready channel
is taken in the end; weak fairness of calls that return. Configurations: weak
fairness of the goroutines of a request and of a retry. Capacity: weak fairness of
each job's goroutine, of the hourly repair per instance, of an open request and of the
start of a process; nobody need cancel, delete or close anything. Scan: weak fairness of
the loop's steps: a query that is repeated succeeds in the end. Outage: weak fairness of
edges, frames of a connected agent and time; strong fairness of the steps of the
periodic pass and of the scheduled recovery, which may fail any number of times and not
for ever. Forwards: weak fairness of the goroutines, strong fairness of the periodic
check and of whoever waits for `recoveryMu`. Comparison: weak fairness of the ticker, of
the executors and of a report's end, strong fairness of its other steps, since a node may
fail to answer any number of times and not for ever; `StatusHeals` assumes that reports
come less than `mismatchExpiry` apart in the end (`ReportsComeInTime`). Traffic limits: strong
fairness of the sweep's start, since others may take its slot, of the comparison and of
what a node is asked, weak fairness of the sweep's steps and of the executors. Two
premises say what no scheduling can give: sweeps no longer fail and find the gate of the
tasks open (`SweepsGetThrough`), and, for `EnforcedInTheEnd`, nobody limits by hand, has
tasks of his own under way or saves an instance's status by an edit (`HandsOff`). Nothing is assumed about
cancellation, deadlines, resizes, reconnections, crashes or faults.

### 2.9 Findings

1. `CleanupKeepsOthers`: the cleanup of a cancelled start, stop or restart looks at
   the instance's status only (`control.go:505`), the one of a delete also looks
   for newer tasks (`lifecycle_phase.go:83`). A restart is cancelled; before its
   cleanup the instance is unlocked (its confirmed result is written, or it is
   repaired), a second restart locks it again, and the first one's cleanup then
   unlocks it under the second.
2. `NodeWithinCap`: the admission's first read, of the task gate (`create.go:246`),
   opens the transaction's snapshot before the provider's row is locked
   (`create.go:314`, "防止并发超配"). When the node's cached count has expired the
   instances are counted from that snapshot (`create.go:345`), and one whose row was
   committed since, and whose reservation is consumed already, is counted by neither.

### 2.10 Known limits of the code that the models show

No run checks these. Some can be seen by changing the constant named in the
configuration named; the others follow from the steps of the module named.

- `CallHoldsTask` with two workers and `MaxContexts` below the number of tasks
  (`Engine_faults.cfg`): `executeTask` removes the queue marker first and fails the row
  after (`worker_pool.go:90`). A row that is neither marked nor in the context map
  is an orphan for the reaper; it is requeued, begun by another worker, and ended by the
  first one's late `CompleteTask` (`control.go:388`). Hence `Roomy` in the theorems; the
  code's limit is 1000 contexts.
- `PastNoReturn` without its excuse (`Engine_faults.cfg`): an administrator's edit that read
  "running" before a delete was admitted saves it past the delete's destructive phase
  (`admin/instance/service.go:554-572`); an instance that is destroyed is shown running until the
  delete records its end, or for good when the edit comes after that. With `SlowOps = TRUE`
  the repair job does the same (`system/cleanup.go:109`): it reads an instance that a restart
  has held for more than 30 minutes, and writes it without looking again.
- `CancelSparesWork` with `SlowReads = TRUE` (`Pool_safe.cfg`): a task that is queued
  at `hasLocalWork`'s first load and in post-processing at the others
  (`pool_manager.go:496`) is counted by neither, and its pool is cancelled under it.
- `ConfigTask`: a forced rerun of a provider whose
  cancelled task could not be saved is answered from memory and never reaches the retry
  that the comment at `config/task.go:647` counts on; once the attempts are used up
  the provider stays taken until a restart.
- `ProviderOutage`: a health pass that read the row before the agent
  registered again may freeze it after the thaw (`status.go:193`, `health.go:383`,
  `hub.go:166`). Endless manual recoveries may also starve the scheduled one.
- `PortForward`: a listener may keep the tunnel manager of a
  superseded connection (`tunnel_proxy.go:187`, `hub.go:120`). A check reads the rows
  before it lists the listeners, so a fresh listener may be stopped as an orphan and
  come back with the next check; a late "active" may overwrite "deleting".
- `RedeemedIsKept` of `Redemption`: a code is usable before the post-processing of its
  instance; if that fails after a user redeemed it (`redemption_task.go:365`), the
  user's instance is marked as failed, and its deletion asked for.
- `LinkHonest` and `RedeemedOnce` without `scars` and `copies` (`Services.cfg`): an edit that
  read the instance before its redemption saves `user_id = 0` after it, and takes it from
  its user, whose code is used; one may also save "creating", or bring a deleted instance
  back. When the deletion of the code fails at the end of a
  delete task, that is logged and the rest committed (`delete_task.go:305-313`), and
  the deletion of a provider removes its instances only (`admin/provider/clean.go:324`):
  either way a usable code without an instance, or a used one, stays.
- `StatusHonest` without `missed`: the health pass writes "online" for two minutes after
  the last frame of an agent that is gone (`admin/provider/check.go:90-97`), or
  writes what it saw before a connection was made or lost.
- Redemption, beyond the properties: a create that is cancelled, times out or is cut off
  by a restart leaves its code "creating" until an administrator deletes it; a batch
  deletion reads before its transaction, so a create finalized in between leaves an
  instance without code and owner; its delete tasks bypass the admission of 1.1.
- `RulesHaveRows` with `MaxRefused = 2` (`Services.cfg`): a request inserts a row; its
  deletion is asked for before its submission, and is refused, which marks the row
  "active"; a reset of the instance takes the row along and makes its rule; then the
  submission of the first request is refused as well, and it deletes the row without
  looking at it again (`admin_port_mapping.go:309`). The rule stays without a row.
- `PortPool`, beyond the property: the unique index on host ports includes `deleted_at`,
  so it does not bind live rows; a request that inserts after its instance was deleted
  leaves a row that the API cannot delete. With concurrent tasks a creation
  and a deletion of one row may interleave and leave a rule without a row.
- `InstanceSync`: a status of starting or stopping is written over too, although the
  comment at `instance_sync.go:338` speaks of running and stopped ones only; a report
  without differences returns before it resets the counts (`instance_sync.go:375`), so
  the three reports are not the consecutive ones of `instance_sync.go:30`.
- `TrafficLimit`: a second pass that finds the instance stopped clears the mark of the
  first (`three_tier_limit_instance.go:369`), and the instance is not restarted when
  its limit is lifted, unlike what `model/provider/provider.go:515` says. A stale row
  marks an instance that its user stopped, and it is restarted later. A
  recovery looks at neither freeze nor expiry (`three_tier_recovery.go:32`). A traffic
  freeze overwrites the reason of another one, and is lifted with the limit.
- `LimitsHaveCauses` without `revived`: an edit of a provider (`service_update.go:97`, `:781`), a user
  (`admin/user/service.go:189`, `:314`) or an instance that read its row before a lift saves the limit
  back, and one that read it before a limit takes the flag away. An instance whose limit
  is parted from its user's or provider's keeps it, and stays without enforcement of its own: the sweep of
  its tier skips it (`three_tier_limit_instance.go:37`) and that of the other lifts only what has the flag
  (`three_tier_limit_provider.go:163`), until that tier is limited and lifted once more.
- Other saves of whole rows that no module has: the provider's, by `UpdateProvider`,
  `UnfreezeProvider` (`service_freeze.go:60-99`), `UpdateProviderPortConfig`
  (`resources/port.go:440-489`) and `SaveProviderConfig` (`service/provider/config.go:71`), also write the
  outage's marker and lease, freeze and port cursor, which `ProviderOutage` and
  `PortPool` do not show; the user's, by `UpdateProfile` (`user/profile/service.go:45`), is of the kind
  of `UpdateUser`. `InstanceSync` and `Capacity` do not have the edit of an instance's
  status: what they say is of instances that are not edited meanwhile.
- Tasks inserted by policies, expiry and recovery bypass the admission, so two operations on
  one instance may run at once, which `OneCallPerInstance` does not exclude (2.1).
- `TrafficLimit`, the policy's own stop: the instance is "stopped" at once, so that the
  task's result is not awaited any more (the executor's update requires "stopping"),
  and a refused stop leaves the guest running until the comparison sees it. Who limits
  by hand, or asks for stops of his own and cancels them whenever a sweep looks, keeps
  a guest running: hence `HandsOff`. A limit set by hand is undone by the next sweep.
- Capacity: the repair job fails an instance that has been creating for 30 minutes while
  its task may last longer, and the finalization overwrites that: one of the two ways
  in which `OverLimitOnlyByReturn` lets a user exceed the limit.

## 3. Proofs

`TaskEngineProofs` proves, for every value of the constants that satisfies the
assumptions of `TaskEngine`:

- `TypeCorrect`: `Spec => []TypeOK`. Its inductive invariant `Typed` adds that
  what threads, the scheduler and the reaper hold is a task exactly where their
  place says so.
- `OneOpenTaskAlways`: `Spec => []OneOpenTask`. Inductive as it stands over the type
  invariant: `NothingOpens` shows that admission is the only step that opens a task.
- `CallHoldsTaskAlways` and `OneCallPerInstanceAlways`: under `Roomy`
  (`MaxContexts >= MaxTask + Others`). Their invariant `HoldInv` ties the place of every
  thread to the context map: whoever has registered owns the context alone
  (`Owned`), a row that has begun and has no context has nobody executing it
  (`Begun`), a reaper that saw no context may only find rows that nobody executes
  (`Settled`), and the context manager never turns a task away (`NeverFull`, from
  a counting argument over `Held`).
- `CancelledUnlocksAlways`: `Spec => []CancelledUnlocks`, without a hypothesis. Over
  `RecordInv` (ids in order, a cleanup is owed by ended tasks only, serving stops only by a
  crash): a step that ends a task leaves its cleanup behind, and only the cleanup itself
  or the end of the process takes it away.
- `PastNoReturnAlways`: under `Roomy`, for every `SlowOps`, `Editable` and `Saved`. `PastInv` says that only the
  latest task of an instance can be open (`LastOpen`), and what a delete leaves its
  instance in from its admission on, unless it was `overwritten` (`DeleteLocks`). `WriteMoves`
  says once for all steps who may change a status: the task that is open on it, a cleanup,
  the repair of a stuck one, or a write that is remembered in `overwritten`.
- `EngineImplementsLifecycle`: `Spec => ImplementsLifecycle` under `Roomy`. The mapping takes
  the abstract `inHand` to the tasks that a thread executes (`InHand`); every step is
  an abstract one or a stutter (`LifecycleStep`), by `HoldInv`: who leaves a task was
  the only one to hold it (`HandsLeave`).

`ProviderPoolProofs` proves, for every value of the constants that satisfies
`PoolAssumption`, `OneLivePoolAlways`, `PoolTypeCorrect`, `SendNeverBlocksAlways`,
`NothingStrandedAlways`, `ProcessingIsHeldAlways` and `StoppedIsQuietAlways`, and
`CancelSparesWorkAlways` under `~SlowReads`. The code decides from counters, so the
invariant `PoolInv` says that they count (`Counts`): `submitting` the submitters that hold
a place, `outstanding` these, the queue and what workers have in their hands, `owned` the
contexts (registered once, `Contexts`), `live` the workers. With the places (`Shape`), the
locks (`Locks`) and the pool that may take tasks (`Live`), room under the lock is room at
the send, no counter falls below zero, and a worker that ends has drained its queue
(`DrainedOnce`). `OthersIdle` says that a pool which neither the map nor the shutdown holds
has nothing: a replacement or removal saw no work, and counters do not lie. That is
enough without `~SlowReads` for queues and hands, because the counter of what is outstanding
is loaded after that of the contexts and a task outlives it only in
post-processing; for post-processed tasks (`OthersUnhelped`) it takes `~SlowReads`.
`Right` ties rows to hands (`HeldRight`: a processing row is with its claimant, in a queue
or with a worker; `RunsRight`: a running one with a worker or a helper), from which the
last two theorems follow.

`ConfigTaskProofs` proves, for every value of the constants that satisfies
`ConfigAssumption` (a retry makes at least one attempt):

- `TypeCorrect`, in which the bound on `attempts` is what takes an argument: a request
  may restart a retry at any moment, but only one that is not under way;
- `OneConfigurationAlways`: `Spec => []OneConfiguration`;
- `ActiveIsOwnedAlways`: `Spec => []ActiveIsOwned`;
- `RerunWaitsAlways` and `CancelWinsAlways`, action properties from the same invariant.

The inductive invariant `IInv` is about ownership. Numbers are given once, so a task
is of one request (`Numbered`, `OneRequest`, `Fresh`); from its reservation to its
answer a request's task has the slot (`Held`); until the answer it has no result, and
its row is where the request left it or where a cancellation took it (`Placed`); and
only what has a result is saved, retried or removed (`Results`). Each conjunct has
its own lemma with a step per action, `CancelMoves` and `Ends` say once what a
cancellation and a save do to any row, and `Invariance` puts them together.

`InstanceProofs` proves three modules. `CapacityTypeCorrect` and
`OverLimitOnlyByReturnAlways`, by counting: an
admission adds one to what the user holds, and only below the limit; preparing an
instance exchanges its reservation for its row; every other step takes away, or
brings back an instance of a status that is not counted. `SyncTypeCorrect`: counts stay
below the confirmations, because what a report processes it has listed (`ReportListed`,
in `SyncInv`); it types the comparison, not the recovery of 1.7. `TrafficTypeCorrect` and `LimitsHaveCausesAlways`: `TrafficInv` adds to the
types that a request's pass has a request's goal (`PassFits`), and that an edit holds a row as
rows are, frozen by traffic only if limited (`DraftFits`); that no limit or freeze
outlives its cause but in a `revived` row is then kept by each transaction, whatever passes and edits had
read before (`EditKeeps`).

`PortPoolProofs` proves `TypeCorrect`, `SegmentsDisjointAlways` and `RulesHaveRowsAlways`.
Rows, not the cursor,
hold ports: every step keeps what is occupied or less of it (`Kept`), or inserts a
segment that it has found free in the same transaction, by its own check (`StillFree`)
or by the choice of the first free one (`FirstFreeFits`). Rules follow rows as long as at
most one submission was refused, `Spec => [](refused <= 1 => RulesHaveRows)`, which is
what the code gives (2.10): `RulesInv` says that a rule leads to a guest with a row for
its port even between two steps of a task (`RulesBacked`), what the task under way has
done so far (`JobSoFar`), whose hands a new row is in (`RowsInHand`), that no rule is
made for a row before its submission unless one was refused (`UnsubmittedBare`), and
that a guest under construction is no one else's (`BuildsApart`, `NamedIsMade`).

`AgentHubProofs` proves `TypeCorrect`, `StatusHonestAlways`, `CurrentAcceptsAlways`,
`TunnelOfCurrentAlways` and `DiscoveredOnceAlways`. The invariant `HubIInv` is about
connections that are new: one that is not published yet is nowhere in the hub
(`NewIsNowhere`), so nothing done to older ones ends it; where an edge stands tells who
is current (`EdgeTells`), and with that whether a write, the health pass's too, is true; what is current is open, and so is its manager.

`AgentUseProofs` proves three modules. `SessionTypeCorrect` and `SessionSafeAlways`
(`SessionIInv`): the shell's lock is held
from a user's check to the end of its frame (`Writers`), so that no frame comes before the
opener's or after a close (`Unopened`, `ClosedIsRetired`, `WireOrder`); an answer in a
channel is of a command that ended (`AnswerMeansEnded`). `PortForwardTypeCorrect` and
`ServingIsKnownAlways` (`ForwardIInv`): who has a listener in hand has it alone
(`HeldIsBound`, `HeldByOne`), the map knows only listeners of its rows (`KnownIsOfRow`), and
one about to serve is known or was told to stop (`EnteredIsKnown`). `OutageTypeCorrect` and
`LongOutageKeptAlways` (`OutageIInv`): that a recovery which holds the marker of an outage
holds one that is still there (`MarkerIsThere`) is a conjunct of the invariant, which the
second theorem rests on; the first is about types only.

`RedemptionProofs` proves `TypeCorrect`, `LinkHonestAlways` and `RedeemedOnceAlways`: before
its create task is finalized a code is not usable (`Early`), who redeems holds the
row of a usable code alone (`Locked`), and the instance, or an edit's copy of it, is its
redeemer's or nobody's (`Owned`).

Hypotheses. Beyond the named assumptions of the modules, three are made, and TLC finds
the property violated without each (2.10): `Roomy`, which the code's limit of 1000
contexts gives as long as fewer tasks are open (`CallHoldsTask`, `OneCallPerInstance`,
`PastNoReturn`, `ImplementsLifecycle`); `~SlowReads`, no whole task between two loads of a
counter (`CancelSparesWork`); and at most one refused submission (`RulesHaveRows`). Each is
met by instances that the runs check. What some properties excuse they name themselves, by a
history variable (`overwritten`, `missed`, `stale`, `scars`, `revived`, `lost`): the step in
which the code gives the property up, so that everything else is held to it.
`PoolAssumption` asks for finitely many submitters (goroutines) that are not called by the
four strings that `holder` uses for others.

Only model-checked: liveness (`EveryTaskEnds`, `EveryLockOpens`, `ForwardsSettle`,
`PendingIsTaken`, `ShutdownEnds`, `SlotOpens`, `ClosedDrains`, `CreatingEnds`,
`ScanComesRound`, `StatusHeals`, `OutageSettles`, `EnforcedInTheEnd`, `LimitsLift`), since
fairness and `ENABLED` are beyond the prover, and with it everything about `PendingScan`.
Every invariant and action property of the passing runs is stated by a theorem.

## 4. Plan

What is left, in this order:

1. System tasks (expiry, recovery) as requests of `TaskEngine` that bypass its admission; the
   saves of whole rows in `ProviderOutage`, `PortPool`, `InstanceSync` and `Capacity`.
2. The steps of a reset and of a rebuild with a crash after each, and a reset's transfer
   of a redemption code.
3. Snapshots and their restore tasks; check-in and invites; address pools.
4. Traffic counters across resets of the node; caches against concurrent fills.
5. Self-update: a crash at each step.
6. Proofs: type correctness of `PendingScan` with the bound its cursor keeps; the safety
   half of `SlotOpens` and `ShutdownEnds` (what is still needed is in somebody's hands).

The runs are kept few, one for each distinct question: when a module is added, its
runs replace the ones whose question a theorem has answered or a larger instance
includes.

## 5. Not modelled

`PROJECT.json` lists every component with the reason. In short: drivers and the
node-side agent are sequences of remote calls whose state is the node's; API
handlers, pages and statistics read; authentication, payment, update and the like
keep state of their own and are planned or apart from the task machinery. No module is
called complete: each leaves out operations that the notes in `PROJECT.json` name.
