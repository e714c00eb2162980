# TLA+ models of the Forail backend

Forail is a Django application that launches Ansible jobs. Several kinds of processes work on the same
database: the API, periodic task managers, one dispatcher per node with a pool of worker processes, and
heartbeats that clean up after all of them. They coordinate through rows that are mostly read and written
without locks, through PostgreSQL NOTIFY messages, and through signals. The modules here model the parts
that decide *what runs, when and how often*, and what the database says of it afterwards.

## 1. The system

| Component | State it keeps | Operations | Talks to | What is hard about it |
|---|---|---|---|---|
| Workflow manager (`main/scheduler/task_manager.py`, `dag_workflow.py`) | a workflow's status and cancel flag, its nodes' `do_not_run` and jobs | mark nodes, spawn jobs, finish, cancel | node jobs, cancel requests | reads the jobs at different moments of one transaction |
| Task manager (same file) | none of its own; reads all pending, waiting and running tasks in a pass | start a task, fail it, spread failures of dependencies, time out approvals | job rows; NOTIFY to a dispatcher | the pass saves rows as it read them; capacity is counted within the pass |
| Dependency manager (same file) | `dependencies_processed`, `dependent_jobs` | create and link updates | task manager | shared updates, caching |
| Job (`models/unified_jobs.py`, `tasks/jobs.py`) | status, `cancel_flag`, `start_args`, `celery_task_id`, `started` | signal_start, run, cancel | all of them | no row lock: stale reads, signals at any moment |
| Receptor execution (`tasks/receptor.py`, `tasks/signals.py`) | a work unit, three threads, the two signal flags | submit, transmit, process, cancel, release | receptor, the job's run | signals between any two statements, threads that wait for each other |
| Dispatcher and pool (`dispatch/pool.py`, `dispatch/worker/base.py`) | workers, their queues and `managed_tasks` | write, grow, retire, cleanup, cancel, reload | workers by queue, pipe and signal | dead, exiting and full workers |
| Reapers (`dispatch/reaper.py`, `tasks/system.py`) | none | fail jobs that nobody works on | job rows, `managed_tasks` | act on information from another process and an earlier time |
| Workflow approvals (`models/workflow.py`) | the approval's status | approve, deny, time out, cancel | workflow manager | racing saves |
| Service catalog (`models/service_catalog.py`) | a request's status and its job | submit, approve, reject, delete, mirror the job's status | jobs by a `post_save` signal | check-then-act, swallowed errors |
| Event rules (`tasks/eda.py`, `api/views/eda.py`) | event log, last firing | receive, evaluate, fire, edit | jobs | throttling by check-then-act in concurrent workers |
| Callback receiver (`dispatch/worker/callback.py`) | a buffer per process, a redis list | pop, save in batches, retry one by one, wrap up | the job's worker | which of two processes notifies; failing halves of a batch |
| Facts, snapshots and drift (`tasks/facts.py`, `tasks/drift.py`) | the host's facts, snapshots, drifts, a rule's cooldown | gather, save, capture, compare, alert | jobs | jobs that end in another order, tasks that run late |
| Tenant quotas (`tenancy/quota.py`, `usage.py`) | counts of running jobs and of launches a day | gate, recalculate | launches | a recalculation beside a gate that locks |
| Settings (`conf/settings.py`, `signals.py`) | row, redis, memory of each process | edit, clear, fill | all processes | caches filled with what is no longer, or never was, committed |
| Schedules (`tasks/system.py`, `models/schedules.py`) | `next_run`, the time of the last pass | select, move on, launch | jobs | boundaries in time, passes that die |
| Instances (`models/ha.py`, `tasks/system.py`) | node state, capacity, last seen | heartbeat, health check, go offline, deprovision, remove | task manager, receptor | each saves a row it read earlier |
| Instance group policies (same files) | policies, memberships | edit, attach, detach, apply | task manager | a task that reads and writes while requests do |
| Websocket relay (`wsrelay.py`, `consumers.py`) | known hosts, connections, producers, subscriptions | heartbeat, connect, clean up, subscribe, forward | web hosts, browsers, redis | coroutines that clean up the same thing |
| Inventory import (`management/commands/inventory_import.py`) | hosts, groups, memberships | match, overwrite or merge, roll back | inventory update jobs, users | identity by id, variables and name at once |
| Project working trees (`SourceControlMixin`, `RunProjectUpdate` in `tasks/jobs.py`) | a git tree and a cache of roles per node, the project's revision and last job | lock, check what is missing, sync, copy, set back | jobs, updates | a lock that a canceled process goes without; a row saved in two steps |
| Template graphs (`dag_simple.py`, `api/views/workflows.py`) | links between nodes | add a link if it makes no cycle | workflow manager | the search starts at roots; concurrent requests |
| Notifications, access control, authentication, metrics, policy as code, audit, AWX import, REST layer | | | | see section 8 |

A job's way: the API stores it `pending`; a task manager pass writes `waiting`, a task id and a NOTIFY in
one transaction; the dispatcher's main process puts the message into a worker's queue; the worker loads
the row, writes `running`, blanks the launch-time secrets, prepares and submits the playbook to receptor, and in
the end writes a final status; callback receivers save its events and send its notifications. A cancel
request sets a flag, and asks the dispatcher for a signal. When a process or a message gets lost, one of the
reapers writes `failed`. A workflow is a job whose running is the workflow manager's passes.

What makes the components correct:

* **Workflow manager**: nodes run or are skipped exactly as their parents' outcomes say; a workflow ends,
  and ends only when its jobs have; a canceled one starts nothing.
* **Task and dependency manager**: blocked tasks wait, capacity is not exceeded, what a task depends on comes
  first, every task starts in the end.
* **Job, reapers and receptor**: the playbook starts at most once and without secrets in the row; only live
  work is spared, only dead work is reaped; every job settles; cancel means cancel; no work unit is left.
* **Pool**: every message is performed at most once and is not forgotten; what is in hand is registered;
  a task whose worker died is failed.
* **Requests, approvals, rules, quotas, schedules**: one decision, one job; one firing in a period; one launch
  of an occurrence; no admission above the limit.
* **Copies** (facts and snapshots, caches, memberships, imported hosts): they agree with what they copy once
  the tasks that follow a change have run; a job plays the revision that its row records, with the roles of it.
* **Connections** (relay): what the browsers have subscribed to is forwarded, and lost hosts are found again.

## 2. Modules

| Module | Content |
|---|---|
| `WorkflowManager` | one workflow job: manager passes, node jobs, template deletion, cancel requests |
| `JobLifecycle` | one job: task manager pass, message, worker, main process, cancel requests, reapers, faults |
| `JobStatus` | what a job's status promises: the documented state machine |
| `DispatchPool` | the pool: many tasks, many workers, queues, growth, retirement, cleanup |
| `Scheduler` | passes over many tasks: dependencies, blocking, capacity, starts |
| `WorkflowApproval`, `ServiceRequest` | decisions by racing users, timeouts and hooks |
| `EventRule`, `DriftAlert` | throttling and cooldown with concurrent evaluations |
| `EventProcessing` | one job's events from worker to table, and its notifications |
| `FactCache`, `SettingsCache` | copies of facts and settings |
| `TemplateGraph` | the links of a workflow template and `has_cycle` (its search is a recursive function) |
| `TenantQuota`, `PeriodicSchedule`, `ExecutionNode`, `ClusterPolicies` | quotas, schedules, nodes, memberships of instance groups |
| `ReceptorWork` | one run's threads, signals and work unit |
| `RelayConnections`, `RelaySubscriptions` | the relay's hosts, and one group of messages |
| `InventoryImport` | matching and merging the hosts of two sources |
| `ProjectCheckout` | a project's working tree on one node |
| `Sums` | the sum of numbers, by a recursive function |
| `WorkflowManagerProofs`, `JobLifecycleProofs`, `DispatchPoolProofs`, `SchedulerProofs`, `ServicesProofs`, `ClusterProofs`, `ProjectCheckoutProofs` | theorems, see section 5 |
| `SequenceLemmas` | lemmas about sequences, sums and finite sets that these proofs share |
| `MCWorkflowManager`, `MCJobLifecycle`, `MCDispatchPool`, `MCScheduler`, `MCServices` | the instances for TLC |

The modules overlap where the components meet: `JobLifecycle` looks at one job in great detail and sees of the
pool only that job's message and worker, of receptor only a submitted work and its outcome, of the scheduler
only one start; `DispatchPool` looks at many messages and sees of a job only that it is begun and ends;
`ReceptorWork` is what `JobLifecycle` calls executing; `WorkflowManager` sees of its jobs only that they start
and end, and an approval is one of them; `Scheduler` sees of a task only that it becomes active and ends.
Operators named `Faulty...` are plausible mistakes that the properties are known to catch; the specifications
use none of them.

### WorkflowManager

A pass runs under an advisory lock in one READ COMMITTED transaction. `BeginPass` reads the workflow row
and its nodes (`snap`). The jobs are read one at a time, so that the pass ends with a *view*
(`Views`) in which each job is as old as the beginning or as new as the end of the pass. `AdvancePass` is
the rest of the pass without `cancel_flag` (mark, then finish or spawn), `CancelPass` the one with it,
`AbortPass` a rollback. The graph operators are `WorkflowDAG`'s methods; the in-order marking is an
equation that the marks satisfy (`MarkDnrNodes`), the breadth-first search a least fixed point
(`Visited`). Node jobs start and end with any of `Outcomes`; a process that was asked to stop writes its
result over what the row says. A cancel request is `CancelLoad`, `CancelFlag` and `CancelStatus`, because
the code saves in two steps on a row it loaded before. `AtRest` is the only state without further steps.
The task manager starts the workflow in a transaction of its own: `StartRead` reads the row (`tm`),
`StartWorkflow` saves it whole, the cancel flag as it was read included, over any request that came
between; `StartLeave` is a pass that is killed or ends before it comes to the workflow.

### JobLifecycle

A step is one statement, transaction, message or signal. `row` is the job's row; `tm` what a task
manager pass read; `msg` the last start's message; `managed` the ids in the workers' `managed_tasks`; `w`
the worker, whose `pc` follows `BaseTask.run` (taken, loaded, marked, stopped or submitted, executing, ended); `main`
the dispatcher's main process; `reap` how far each reaper is between its query, the refresh of the row and
the save; `hb` what the heartbeat was given when it was dispatched; `c` the cancel requests. `asked`,
`acked` and `runs` are history. Faults are taken from `Faults`: the death of a worker, a crash or shutdown
of the dispatcher, a partition in which a peer finds the instance lost, a lost and a late NOTIFY, and an
exceeded container quota, after which the job is pending once more.

SIGTERM has its default action in a worker, except while `run()` has connected its handler (`SignalWorker`): before that it kills
the process, in `run()` it only sets a flag, and afterwards nothing remembers it (`signals.py:54` calls callable handlers
only), so that a worker which a shutdown has stopped in `run()` goes back to its loop until the supervisor kills the process group (`ShutdownEnd`).
The preparation of a job (`WorkerPreCheck`) may write a status before it raises an exception; if it stops for a cancel, `WorkerStopped` reads
the row again. `HeartbeatDispatch` reaps no waiting job while the pool is `crowded` (`system.py:656`).

`JobStatus` is the abstract specification: the arrows of the documented state machine, and `Correct`, the one thing the code does
besides: `run()` ends with error what its own preparation had written as failed.

### DispatchPool

`pool` are the slots of the pool's workers, `proc` their processes, `queue` and `managed` each worker's
queue and `managed_tasks`, `cur` what it has in hand. `Receive` is `AutoscalePool.write` with the growth
before it and the three ways it can end: to an idle worker, to the first that has room, dropped.
`Requeue` is the same for a message that a cleanup puts back. `Cleanup` drops dead workers, fails the
job of their first managed task and retires idle ones. A cancel looks at one worker after the other and
signals after looking, so that workers move in between (`CancelLook`, `CancelKill`); the signal kills, or is handled by
the task in hand, and the worker stays. A slot is a process that can be used again; the queue of a new process is empty.

### Scheduler

`Launch`, `Cancel` and `Finish` are what the rest of the system does to tasks; `CacheExpires` makes an update
old enough to be repeated. `DependencyPass` is one pass of the dependency manager, one step because what it
writes counts for others only with `dependencies_processed`, which it writes last; it keeps the code's list
that grows over the tasks of a pass, so that a job is linked with updates of other jobs. `BeginPass` is the queries of the
task manager, `HandleNext` its loop (a failed dependency, blocked, or started at a place), `EndPass` the
commit, `TimeOut` the end for lack of time, `Abort` a roll-back. `Blocks` is `DependencyGraph`; `Places`
the search for a control node, instance groups in order, and an execution node with room or the largest idle
one. Between `BeginPass` and the commit everybody else goes on, but for the rows the pass has written.

### Decisions and cooldowns

`WorkflowApproval`: the request, the timeout and the workflow's cancel each load the row and save it later;
`Follow` is the workflow manager, which runs one branch and marks the other for good. `ServiceRequest`: the same for
submit, approve, reject and delete by `Users`; a job that is saved calls a hook, which queries the request and
saves it (`HookQuery`, `HookSave`), and may be lost. `EventRule`: deliveries with one guid, their duplicate
check and log, and evaluations that read the rule first and record the firing last; edits save the row as it was loaded. `DriftAlert`
is the same of alerts, whose rules are read in a list before they are checked one by one (`ReadRules`, `Evaluate`), and whose count is an update in the database. The histories (`clash`, `overlap`,
`together`, `reverted`, ...) say when two of them had the row at one time: the code promises nothing then.

### Events and copies

`EventProcessing`: the worker pushes events and EOF, receivers pop them, save them in bulk and one by one
after a failure, give up a refused one after its retries, and process the wrapup; worker and receiver read the row with and
without its lock to find out who notifies (`ReadUnlocked`, `SaveUnlocked`, `ReceiverNotifies`). `FactCache`: each job writes
the file at its start and saves what it finds at its end (`Saved` decides by the file's modification), a task
captures a snapshot, another compares it. `SettingsCache`: an edit's open transaction, the processes that fill
redis and their memory with what they read, the task that clears it, and timeouts. `TenantQuota`: the gate
under the row's lock beside a recalculation without it, and midnight.

### The cluster

`PeriodicSchedule`: passes on several nodes select by the last and the current time, move `next_run` and launch. `ExecutionNode`:
heartbeats and health checks save node state and capacity computed from a row they read;
deprovisioning waits for jobs and is retried only by the user. `ClusterPolicies`: `Plans` is the algorithm of
`apply_cluster_membership_policies` (lists, minimums, percentages, the groups in turn); the task reads
policies, then memberships, then writes the difference, while requests commit in between. Every commit sends the task, but not that of
`Attach`; `attached` and `raced` are the histories that say what it did to a list since the last run began, and during that run.

`ReceptorWork`: `main` walks through the code of `AWXReceptorJob.run`, with the ends of its `with` blocks that wait for
the `transmitter` and the `processor`; `signals` and `raising` are the two flags of
`tasks/signals.py`, so that a signal that is only noted, one that raises and one that interrupts the handling of another
differ. `RelayConnections`: a step is what the event loop does between two awaits; the listener and the main
loop clean up at the same time. `RelaySubscriptions`: messages between two processes, a producer that takes
itself off the list with an await in the middle.

### InventoryImport

`BuildMaps` reads and matches, `Load` is the transaction in the code's order (delete hosts, groups, memberships;
then groups, matched hosts, new hosts, memberships), `LoadFails` a roll-back for whichever reason. `Match` gives each listed host the row
with its instance id, by the variables first, and then lets the name replace it. Users create and
delete hosts and move them between the two. Names are numbers because rows are updated in their order, which
decides whether a rename collides.

### ProjectCheckout

A process is a job that needs the project on this node, or an update of the project; an update may also run on
another node, of which only its saves are seen here. `at` follows the code from `acquire_lock` through
`get_sync_needs`, the sync (`pre_run_hook`, the playbook, `post_run_hook`), `make_local_copy` and the `finally` of
`sync_and_copy`. Commits are numbers, the other branch is one commit. The tree is the commit of HEAD and whether
its files are torn between two commits: the playbook's checkout is two steps, as is a copy (`Spoilt`). A cache is the commit for which
its roles were installed, named by the update that did it, as the project's `last_job`
names it. `GiveUp` is the process that is canceled while it waits, `FailSync` the playbook that fails or is
cut off, `Die` the death of a worker, after which the kernel drops its lock. Pushing to the remote repository
is no step of its own: an update finds any commit that is not older than what was found before.

## 3. Runs

| Run | Instance | What it shows |
|---|---|---|
| `workflow_paths` | a fork of 4 nodes ending in an ALL node; outcomes successful, failed, error; one deletable template | the types, and that nodes run, are skipped and end as the outcomes say |
| `workflow_finishes` | a diamond of 4 nodes without an ALL node | every workflow reaches a final status |
| `workflow_hang` (violation) | the fork | finding 1 |
| `workflow_cancel_spawn` (violation) | the diamond | finding 2 |
| `job_faults` | 2 cancel requests, 2 starts, any 2 of 6 kinds of fault | types, `RunOnce`, `PlaysWithoutSecrets`, `CanceledWasAsked`, `AckedNeverPlays` |
| `job_reaping` | no cancel request; worker deaths and lost messages | no live run is reaped; every change of the status is one that `JobStatus` allows |
| `job_settles` | 1 cancel request, 2 starts, any 2 of 5 kinds of fault, fairness | every job reaches a final status in the end, and keeps it |
| `job_cancel_lost` (violation) | 1 cancel request, no fault | finding 3 |
| `pool_messages` | 3 tasks, 2 slots, queues of 2, one death, one cancel, one reload, fairness | types, `NoTaskTwice`, `NothingLost`, `WorkIsManaged`, `NothingAbandoned`, and that every task is begun or dropped by full queues |
| `pool_reload` (violation) | 2 tasks, one reload, nothing dies | finding 4 |
| `scheduler_passes` | 5 tasks at most: a job whose inventory source is a project it uses, its updates, an ad hoc command, a sliced workflow; a hybrid node, a too small execution node, a container group; one fault; fairness | types, `NoConflict`, `DependenciesFirst`, `UpdatesLinked`, `WithinCapacity`, `StartsUnblocked`, and that every task starts |
| `services` | the other 17 modules side by side, fairness | one property for each hazard they are about, see below |

`MCServices` runs the remaining modules in one run: its initial state picks a part, and only that part's
variables move, so that its state space is the sum of theirs (590,000 states). Its properties name the
parts' own: `RequestsDecidedOnce`, `ApprovalHolds`, `CooldownsHold` (rules and alerts), `EventsProcessedOnce`,
`TemplatesAcyclic`, `WithinQuota`, `CopiesAreCurrent` (facts, settings, memberships, inventories, working trees),
`ConnectionsHold` (receptor and the relay), `PeriodicTasksHold` (schedules and nodes), and `ServicesSettle`:
every part comes to rest again and again.

### Bounds

* Four nodes are enough for a fork, a join, both kinds of convergence and a failure path beside a success
  path. The proofs cover the other graphs.
* Two starts are the first one and the one after an exceeded quota; two cancel requests can race with each
  other and with a pass; two faults can hit the first attempt and what repairs it. The cancel requests are
  interchangeable, so `job_faults` uses symmetry (it checks no liveness).
* Two slots and queues of two let a message wait behind `QUIT`, a queue refuse a message that another takes,
  and all queues refuse one; three tasks let one be in hand, one be queued and one arrive.
  With as many slots as `MaxWorkers` a retired worker keeps the pool from growing until it has exited;
  the invariants were also checked with one slot more (1.1 million states).
* `MaxDeaths`, `MaxCancels`, `MaxReloads`, `MaxFaults`, `MaxStarts`, `MaxTasks` and `MaxLaunches` are the only bounds
  in the guards of the first four instances.

* `scheduler_passes`: five tasks are two that users launch and the updates they need (a project, a source, the
  source's project once more); the job is larger than its execution node, so that the idle rule and the
  container group both come into play; a control node of 3 fills up.
* `services`: two users, requests, receivers, processes or scheduler nodes, since their hazards are of two
  that meet; but one control node beside the health checks (the heartbeat that races is with a health check, or with a user; two control nodes are in the proof only), and one
  web host. One fault or lost message at a time (two hitches of a relay: a lost connection and a failing redis); clocks one tick
  longer than the longest period. Four nodes and three links hold a cycle below a root, and one beside it; with a fourth link paths
  meet, an instance that was checked apart. Facts take three
  jobs, for a clearing between two gatherings. Two imports by two sources, one with
  ids, let one undo what the other has done; one edit comes before, between or after them. There are three rows for each name, so that none is short. One web host with two addresses has
  three moves. A project is played by a job, by a job of another branch, and updated once, here or elsewhere, and its tree is there; the instances
  that begin without a tree, with one job and two updates, and with two of each were checked apart. The relay's entries of different hosts do not interact. `MaxStarts`, `MaxLinks`,
  `MaxRequests`, `MaxEdits`, `MaxLostHooks`, `MaxSignals`, `MaxMishaps`, `MaxChanges`, `MaxBreaks`,
  `MaxHitches`, `MaxMessages`, `MaxBrowserRequests`, `MaxPolicyEdits`, `MaxLostTasks`, `MaxRow`,
  `MaxImports`, `MaxHostEdits`, `MaxLosses`, `Commits`, the clocks' bounds and `LastDay` are bounds in guards.

### Deadlock

A workflow and a job have an explicit `AtRest` step, so that TLC's deadlock check is on: anything stuck
before that is an error. A pool without messages, a scheduler without launches and a service whose requests are
used up have nothing to do and stop; these runs switch the check off and rely on `EveryTaskIsBegun`,
`NothingLost`, `EveryTaskStarts` and `ServicesSettle`.

### Where a property holds and where it does not

Each exception is a definition in the property, or a fault that a run leaves out; it names what the code
does not promise.

* `NoFalseReap` and `ImplementsJobStatus` are stated for no cancel request and no other fault than worker
  deaths and lost messages. Under a crash of the dispatcher its startup fails the
  job of a surviving worker; after an exceeded quota `started` is still the first start's; a task manager's
  full save can take a job from canceled back to waiting.
* `CanceledWasAsked` speaks of jobs whose playbook was started. Before that, a shutdown makes a job canceled that nobody asked
  to cancel, because any signal during the preparation counts as a cancel (`jobs.py:502`). `AckedNeverPlays` does not hold with an exceeded quota, after which the job is started anew.
* `ImplementsJobStatus` allows `run()` to turn failed into error (`Correct`); without that it is violated with no fault at all.
* `NothingAbandoned` is stated for pools in which no full queue has refused a message: a refused one stays in
  `managed_tasks` for good and hides the task in hand from the cleanup.
* `EveryTaskStarts` excepts tasks that are `Knotted`: the growing list of dependencies can make an inventory update
  wait for itself, and all that wait for it.
* `RequestsDecidedOnce`, `ApprovalHolds` and `CooldownsHold` except actors that had the row at the same time (`overlap`,
  `clash`, `together`, `concurrent`) and edits that saved an older row; but an approval never runs both branches, even then.
* `TemplatesAcyclic` excepts overlapping requests, and a cycle closed where no root leads.
* `WithinQuota` excepts a recalculation that saved over a launch, `PeriodicTasksHold` an occurrence at the very
  time of a pass and a heartbeat or health check that saved an older row.
* `CopiesAreCurrent` excepts jobs that end in another order than they gathered, a reader that fills the cache during the commit, an edit that puts
  an old policy back, what a request attached to an instance group since the policy task last ran, a host that takes another one's name or shares a listed instance id with another one, jobs that read their project
  across an update's saves or find the roles of such a job, and trees that a process without the lock has touched or a death left torn.
* `ConnectionsHold` excepts a relay whose hosts move, and subscriptions that were lost with a connection or a
  producer. `ServicesSettle` excepts a request whose job could not be started, and the waits of observations 1 to 3 below.

These limits are listed as hazards in `PROJECT.json`.

## 4. Fairness

* `WorkflowManager`: the task manager is periodic (20 seconds, `celery_conf.py:30`) and each of its passes
  schedules a manager pass for every running workflow (`task_manager.py:533-537`), so `BeginPass` and
  `StartRead` are weakly fair; its passes are not cut off before the workflow for ever (strong fairness of
  `StartWorkflow`). A pass that has begun ends, and not every pass is rolled back (strong fairness of `AdvancePass` and
  `CancelPass`); jobs that were created start and end.
* `JobLifecycle`: the task manager and the heartbeat are periodic, the supervisor restarts the dispatcher,
  live processes progress, playbooks end. No fault is fair. The heartbeat is strongly fair in the form that finds no worker with more than one task: a pool that is crowded
  at every heartbeat, for ever, would keep the reaper of waiting jobs from running at all, and `Settles` does not claim anything of it. A shutdown ends, at the latest when the supervisor's patience does. Strong fairness of the start says that a job that can be
  started again and again is not left in the queue for ever (capacity is abstract here).
* `DispatchPool`: weak fairness of what the main loop and live workers do; deaths, cancels and reloads
  need not happen. That tasks end is the assumption that a hung task would break.
* `Scheduler`: both managers are periodic and their passes go on; active tasks end; lost nodes return. Timeouts and
  roll-backs are faults and bounded.
* `services`: workers, receivers and hooks go on; recalculation, scheduler passes, heartbeats and the policy
  task are periodic tasks or are sent by each commit; cache entries expire; the supervisor restarts the relay,
  web hosts send heartbeats, playbooks of syncs end and whoever has the project's lock goes on, connecting succeeds if it is tried for ever (strong fairness of `Connect`). A task manager pass may leave an expired approval
  to the next one, but not for ever (strong fairness of `TimeOut`). No request, edit, fault or loss is fair.

## 5. Proofs

`WorkflowManagerProofs` holds for every finite or infinite set of nodes, every graph and all outcomes. The
safety invariants are not inductive alone: a pass works on a view that is partly old. `IndInv` adds `StartInv` (a workflow that waits to be started has no pass, no job and no mark),
`SnapshotSound` (a job absent in the snapshot is still absent, since only passes create jobs; a finished job
stays finished; templates only disappear) and `LiveAgrees` (a process runs a job whose row says so until
a cancellation). Lemma `ViewSound` transfers the snapshot's soundness to every view, and each pass
preserves each invariant by it. Theorems: `TypeCorrect`, `DnrNeverRuns`, `ParentsSettleFirst`,
`RunsFollowOutcomes`, `SkipsAreJustified`, `EndsDecided` (from `DecidedInv`) and `EndsConcluded` (from
`ConcludedInv`, for workflows that run before the first cancel request loads them; without
that assumption the fallback of the cancel request ends a workflow whose jobs have not).

`JobLifecycleProofs` holds for any cancel requests, faults and bounds. `StartToken` says that the right to
start the playbook is in one place: a pending row or a pass, a message, or a worker that has not used it.
With `SecretInv` and the types it is inductive (`IInv`); from it follow `TypeCorrect`, `PlaybookRunsOnce`
and `SecretsGoneWhenPlaying`. Under `OnlyLosses` (no cancel request; worker deaths and lost messages at
most) `LossInv` relates each place of the worker, the message, the managed ids and each reaper to the
row's status; it gives `ReapersSpareLiveRuns` and, as a refinement, `StatusFollowsTheDocs`. There the step that needs care is the end of a job whose preparation wrote
failed: it maps to `Correct`, for which `LossInv` must know that the result is error whenever the row of an ended run says failed.

Without such assumptions, `CanceledOnlyIfAsked` (a job that becomes canceled after the start of its playbook was asked to be, whatever is shut down) follows
from `AskedInv`, which traces every cancel flag, of the row, the pass and the worker, and every canceled row and result back to a request or to a preparation that a signal stopped,
and from `NeverPlays`: what was stopped there leaves nothing behind that could start the playbook. `AcknowledgedCancelHolds`
(after the answer to a cancel request the playbook does not start, unless a quota may be exceeded) needs `OneStart`, that at
most one start of the job is under way, and `AckedInv`, what an acknowledged request leaves in the row, the
pass, the message and the worker; both stand on the types and `StartToken`.

`DispatchPoolProofs` holds for any tasks, workers, queue lengths, pool sizes and faults. What makes the pool hard to reason about is that a
message is at one place of many: in the inbox, in a worker's queue, behind a `QUIT`, in hand, or put back by a cleanup. The inductive invariant adds to the properties
`NoCopies` (a message is in one place of one queue, or put back once), `Fresh` (what waits is not begun, not unreceived and not dropped), `InHand` and `Ordered` (without refusals
a worker's managed tasks are the one in hand and then those of its queue, in this order). Theorems: `PoolTypes`, `BegunAtMostOnce`, `WaitsUntilBegun`, `AllWorkIsManaged` and, in pools whose queues have refused nothing,
`DeadWorkersTaskIsReaped`: there the first of the managed tasks is the one in hand, which is what the cleanup takes it for.

`SchedulerProofs` holds for any tasks, nodes, groups and capacities. Tasks that exclude each other are kept apart by the dependency graph of a pass, which
is older than the rows. `IInv` is therefore about both: `GraphHasActive` (what is active in the table, or is being started by
the pass, is in its graph), `GraphCompatible` (the tasks of a graph may be active together) and `StartedUnblocked` (what is active
outside blocks nothing that the pass starts), with `PassType` and `Counted` for the ranges. Theorems: `ConflictFree` and `StartsAreUnblocked`.
The dependencies cross two processes: one writes links and updates while the other works on statuses it read before. `SInv` adds `Rows`
(rows exist up to the count, links lead to rows that exist), `Linked` (a processed task depends on an update of everything it wants), `Reads` (what a pass has read
as over is over, for only pending and active rows move on, and what it starts has dependencies that were over when it read them) and the bounds. `Linked` is where the
lists of `generate_dependencies` matter: lemmas follow a target from `Wants` through the flattened list and `Outdated` to the `Update` that `Links` takes.
Theorems: `SchedulerTypes`, `DependenciesEndFirst` and `UpdatesAreLinked`.

`SchedulerProofs` also has `CapacityKept`, on the same types. A pass keeps running sums: what is left of each instance, and what each container group runs. `Books` says that these
are the sums over the tasks of the pass's graph. `Fit` says what a set of tasks with their places takes at most: an instance's capacity, or, on an instance without
another job, one job that is too large for it; a container group's limits. `CapacityInv` is `Books`, and `Fit` of what is active in the table and of the graph of a running pass.
Two lemmas carry it: a part of what fits still fits (`FitPart`: tasks end while the pass runs, and the next pass reads the rest), and what is placed where the pass found room still fits
(`PlacesHaveRoom`, `FitWith`). It needs that impacts are positive, those of workflow jobs apart, that a control task takes something (`AWX_CONTROL_NODE_TASK_IMPACT` is 1;
with 0 the code takes the impact of the task instead) and that the control plane is no container group, which the instance group's validation sees to.

`ServicesProofs` is about the composition `MCServices`: one part moves and the others are left alone, so that each part's invariant, proved from the part's own
`Init` and `Next`, carries over to the specification that the run checks. `DecisionHolds`, for any approvers, from `ApprovalInv`, which adds that
an approval somebody has loaded is still undecided, unless two had it at a time (`LoadedInv`), and that both branches are settled together and not before the decision (`BranchInv`).
`RequestsAreDecidedOnce`, for any users and jobs, from `OnceInv` (a launched job is linked to a decided request, and what a deciding user has found still holds) and
`FollowsInv` (the request runs until its job's hook has saved). `PeriodsAreKept`, for any workers, events, times and edits: evaluations which overlap are known as such, and every other firing
is recorded in the rule before the next evaluation reads it, for event rules and, with a count of triggers besides, for drift alerts. `QuotaIsKept`, for any finite set of launches and positive limits:
the row's lock has one holder (`Locks`), the counts of the row, and of the copy that a recalculation holds, are not below what was admitted
(`LoadInv`, `LedgerInv`), unless a recalculation saved over a launch.

`ServicesProofs` is about the callback receivers as well, for any receivers, faults and batches, and two events or more (a complete run has its first event and `playbook_on_stats`). `OnePlace`: an event that was
pushed is at one place of the list, or in one buffer, or saved. `WrapupInv` follows the wrapup, which is an event for playbooks and EOF for the others: it is taken once, after it was sent, and
the receiver that has it notifies only if the final status was there before. `NoticeInv` is the agreement of worker and receivers in the locked row: whoever is about to notify is alone, and nobody is asked again, either
because the wrapup is done or because none was sent; a worker that reads without the lock may see too little of the wrapup, but never too much. `CalmInv` is the other half: without a fault an expected wrapup is on its way, and a worker
that left the notifications to a receiver has one. That a job counts as processed only when all events are saved is a fact about a sum: as many rows as events only if each has its row (`AllCounted`).
Theorem: `EventsAreProcessedOnce`.

Its last part is about workflow templates, for any finite set of nodes (`NodesAssumed`) and any requests: `TemplatesStayAcyclic`, which stands on the exactness of `has_cycle`. Three things had to be shown.

* What the model's definitions by recursion are. `Below`, what links lead to, is the least set that has the children and is closed (`BelowLeast`, `BelowClosed`). The function that the
  loop of `has_cycle` computes exists (`SearchExists`): the states in which it answers yes are the least set that is closed backwards under its steps (`Winning`).
* That the search decides (`SearchDecides`). Its invariant: the children of a visited node are visited and it is on no cycle; a node on the path has each child visited or above itself on the stack, and what is above it
  on the stack is below it in the graph. So a node on the path that has children left closes a cycle, and one whose children are visited is on none. It ends, because a step pushes a node onto the
  path, or visits one, or shortens the stack (`SearchEnds`, by the least counterexample of what remains). `FindsCycleIsExact`: the answer is yes if and only if a start leads to a cycle.
* That the requests keep it (`TemplateInv`): unless they overlapped or a cycle escaped, at most one link is on its way, and with it there is no cycle. If a link closes a cycle then one that it lies on itself
  (`LastLinkCloses`), and that one is found.

`ClusterProofs` is about five more parts of the composition, for any numbers of nodes, controllers, browsers and web hosts. `PeriodicTasksAreKept`, from two invariants. `ScheduleInv`: one
pass at a time has the advisory lock and the last run that it saved (`OnePass`), what it is about to launch was not launched and is left behind by the schedule first (`DueOnce`), and an occurrence that came
due before the pass is owed by it, launched, or in the history's `lost` (`OwedOrLost`). `NodeInv`: what a heartbeat or a health check is going to save was in service when it was read (`RowsInService`), and
the task that deletes a row has seen its last job end (`NoJobAtDeletion`), unless the history says that a row was saved over a newer one or a job started late.
`ConnectionsAreKept`, from three. `WorkInv`: who takes the work unit away, and that a signal which came in time is raised at once or by the check and then not forgotten (`HeedInv`). `RelayInv`: as long as no host
has moved or said goodbye, each has one address in the notes, the table and the connection, and one cleanup at a time (`AtHome`), so that the relay raises nothing of its own. `SubInv`: the last message of a
browser on its way says what it wants (`LastSays`), and when none is on its way the producer has served it, but for what is in the history's `missed` (`Served`).

`ProjectCheckoutProofs` holds for any jobs, updates, overriding branches and number of commits. Files: who checks out, copies or installs has the lock, unless somebody without it `intruded`, so that HEAD is
what the holder has checked out or has found there, and its stage is a copy of that; a checkout that was cut off leaves the tree torn until the next one. Roles: they are not kept with the tree but in a cache that is
named by an update's number, so that the invariant is about numbers. Two rows that name the same update name the same revision, the project's row while it is half saved excepted; and the cache of an update
has the roles of its revision, whoever installed them, unless the job that did is in the history's `unsure`. Theorem: `CheckoutIsRight`, both invariants of the module at once.

`ClusterProofs` has the other half of `CopiesAreCurrent` and puts the parts together (`CopiesAreKept`).

* `FactsInv`: what a job saves is what its host gave it, no older than the row; the snapshots of a host follow its facts, and the drifts are the changes between snapshots that have been compared.
* `SettingInv`: what is going to fill the cache was read after the last commit, unless the two overlapped.
* `PolicyInv`: when no task is on its way and none was lost, the memberships are a plan, but for what was attached since (`MembersMet`); while a task runs, it has a plan of the policies it read (`WantedMet`), and what was attached since is listed (`AddedAreListed`). That a plan
  meets the policies is about counting: the task takes instances one after the other, fewest groups first, and takes as many as are asked for if there are any (`TakeFacts`, from the lemma `FirstOfAll` of what comes first in an order).
* `ImportInv`: an update holds a match of names and rows that it made on the hosts of an earlier time. It is enough that there are some hosts `H` that it was made on and that users have since only deleted from or
  created in (`MatchedWith`); the match is injective, and the new hosts find rows, of which there are three for a name.
* The working tree: the actions of the composition are those of `ProjectCheckout` for its jobs, and `CheckoutInv` carries over.

`SequenceLemmas` has what these proofs need of flattening, filtering, removing, summing, ordering and fitting. The library's induction theorems take an operator as a parameter and cannot be used; a lemma about every
length or number is proved by its least counterexample instead; of a sum, that the recursive function exists (`SumsExist`).

Assumptions on constants that a module states are `GraphAssumption`, `StatusAssumption`, `FaultAssumption`, `StartAssumption`,
`PoolAssumption`, `SchedulerAssumption` and `ActorsAssumption`; TLC evaluates them in the runs. The others are
hypotheses of the theorems (`ASSUME ... PROVE`): which faults are left out, and that limits, times and job numbers are
numbers, the launches and the nodes of a template finite, the events of a run two or more, the occurrences of a schedule times of the clock, and `Absent` neither an
address nor a connection of the relay; that instances are finitely many numbers and the two groups different (`PoliciesAssumed`); that the names of an inventory are finitely many of its ids, and there are three rows for each
(`ImportAssumed`: the rows are the table's, bounded here); that updates and jobs are numbered apart and from 1 (`CheckoutAssumed`: both are rows of one table).

Only model-checked:

* liveness (`WorkflowFinishes`, `Settles`, `EveryTaskIsBegun`, `EveryTaskStarts`, `ServicesSettle`), which is beyond the prover together with ENABLED;
* `ServicesTypeOK`, of which the proofs have the parts that they need.

## 6. Findings

1. `workflow_hang`: a node that needs all its parents, on success edges from parents that end in status
   error, is neither run nor marked, and the workflow stays running (`dag_workflow.py:240`).
2. `workflow_cancel_spawn`: the pass that cancels a workflow builds its graph before it marks the nodes in the database,
   and may spawn the failure handler of the job it just canceled (`task_manager.py:185`).
3. `job_cancel_lost`: `start_task` saves all columns and thereby undoes a cancel request that came during
   the pass; the playbook runs (`task_manager.py:513`).
4. `pool_reload`: after a reload, a task that was queued behind `QUIT` and never begun has its job failed by
   the cleanup, and its message is put back as well (`pool.py:397`).

Observations. What the models show besides, without a line of the repository that says otherwise or outside
the violation runs; each is an exception in a property of section 3.

1. `ReceptorWork`: a SIGTERM that comes while the SignalExit of an earlier one (raised by the check at `receptor.py:477`) is handled interrupts this
   handling, although the comment at `signals.py:31` has it that a signal raises once: the work unit is not canceled, and the run waits for the playbook.
2. A `submit_work` that fails with a payload larger than the socket's buffer leaves the transmitter writing for ever, and the run waiting for it (`receptor.py:430`).
3. A `work cancel` that fails leaves the run waiting for the natural end of the playbook (`receptor.py:480`).
4. `RelayConnections`: a host that is connected and comes back with another address ends the relay by a KeyError (`wsrelay.py:362`), although the comment
   at 337-338 has it handled; so do two cleanups of one host (line 288). The supervisor starts the relay again.
5. `RelaySubscriptions`: a subscription to a producer that is just ending, or that redis has ended, is lost, as are those of a lost connection.
6. `ClusterPolicies`: saving a group that was loaded before another edit puts back the old policies, and no task is sent when it looks like no edit (`ha.py:510`).
   A request that attaches an instance sends none either, although the mixin "calls InstanceGroup.save(), triggering a background recalculation of policy-based instance group membership"
   (`api/views/mixin.py:73-77`): it appends to the very list that the row remembers as its prior value (`mixin.py:96`, `ha.py:51-58`), so that `has_policy_changes` finds none; detaching sends the task itself (`mixin.py:123`).
   What was attached while the task ran is removed by it for good, and a group with a minimum keeps one member too many, until some other change sends the task.
7. `InventoryImport`: a match by name replaces the one by instance id, so that two hosts that swap names upstream violate the uniqueness of names, and the import is
   rolled back each time; a host that was found by its id keeps its memberships if one without id has its old name; a source without `instance_id_var`
   wipes the ids of another, which finds its hosts again by their variables. A host whose instance id equals a listed one stays in the group (`inventory_import.py:430`), although the
   listing was matched with another host, of which only the variables have that id (`:280-294`, `:434`): two sources with ids and three imports, found in the proof of `CopiesAreKept`.
8. `ProjectCheckout`: a process that is canceled while it waits for the lock goes on without it (`jobs.py:412`). Its sync may take away the holder's stage,
   or move the tree while the holder copies.
9. An update saves the project's revision before its last job, by which the cache is named (`jobs.py:1432`): a job that reads the row in between, or whose sync reads it again after an
   update, plays with the right files and the roles of another commit, or with none. If its sync installs only roles, it names the cache by the last job of the row as it
   reads it then (`jobs.py:701-705`, `1399-1405`, `projects.py:449`), and the cache keeps its commit's roles for later jobs of the other one. That takes two updates, one of another node: it came up in the proof of
   `CheckoutIsRight`, whose history `unsure` therefore has caches as well.
10. A worker that dies between the installation of a cache and the save of the revision leaves roles of the newer commit to jobs of the older one; one that
    dies in the checkout leaves files that the next job takes for complete, as HEAD has not moved.
11. `JobLifecycle`: a job whose project sync fails, or that has no inventory or project, is saved as failed by the preparation, which then raises (`jobs.py:753-761`, `779`, `1069`, `1073`); the same
    `run()` saves error over it (`jobs.py:648`): observers see a final status change.
12. `JobLifecycle`: a shutdown of the dispatcher cancels a job that is being prepared (`jobs.py:502`), with cancel_flag unset, while one whose playbook runs becomes failed (`jobs.py:616-623`).
13. `TenantQuota`: nothing counts a job's end. The handler that should (`signals.py:303`) is connected with the sender `UnifiedJob`, and what is saved is a subclass, so that only the recalculation brings the number down.
14. `WorkflowApproval`, `ServiceRequest`, `EventRule`, `DriftAlert`, `TenantQuota`, `SettingsCache`, `ExecutionNode`: actors that hold the row at the
    same time can decide twice, fire twice, count wrong, cache what was not committed and bring back a node state; section 3 names when.

## 7. Plan

The plan's modules are written: the workflow manager, the job with its refinement, the pool, the scheduler, requests and
approvals, rules and alerts, the template graph, and the copies, connections and periodic tasks around them. What is left:

1. A composition of `JobLifecycle` with `DispatchPool`, in which a reaped pending task meets its requeued message.
2. Two relays and two web hosts, with the subscriptions that move between them.
3. The gathering of analytics (its lock and its last time) and the token buckets of the API, small modules like `PeriodicSchedule`.

## 8. Not modelled

* Receptor, ansible-runner, container groups, redis, PostgreSQL, git and the remote repositories are environment: actions marked external
  stand for what the code sees of them.
* Notifications: messages to outside services, sent once. When they are sent is part of `EventProcessing`.
* Access control: the code that keeps a hierarchy of roles is switched off (`ANSIBLE_BASE_ROLE_SYSTEM_ACTIVATED` in `settings/defaults`); what is left are
  queries. Authentication: protocols of libraries.
* REST layer, serialisation, filters, activity stream and audit trail: single queries or writes without an order of steps to get wrong. The
  requests that change what the models keep are actions of the models.
* Analytics, metrics, observability, policy as code, scanners and recommendations: computations on data that nothing else waits for.
* Credentials: records, encryption and lookups. The import from AWX: a migration that is run once.
* Recurrence rules of schedules, Jinja2 conditions, comparison of facts: sequential computations on data; the models take their results.
* In the modelled parts: artifacts, log texts and the content of messages; the chain of jobs that one cancel spreads to; the death of the main process in
  `DispatchPool` (it is in `JobLifecycle`); SIGUSR1 to a task manager that holds its lock too long; nested groups, filters and constructed inventories, an exception of `create_unified_job` when a request is
  approved (`service_catalog.py:250`: it rolls back the whole API request), and the
  failures that the licence's limits cause (a roll-back like any other); source control other than git, inventory updates that sync, and playbooks that outlive
  their worker; what each component's note in `PROJECT.json` names.
