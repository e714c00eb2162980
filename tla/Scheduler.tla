------------------------------ MODULE Scheduler ------------------------------
(***************************************************************************)
(* Which pending task starts, and where: the DependencyManager, which      *)
(* creates and links the updates a task needs, and the TaskManager, which  *)
(* starts tasks that nothing blocks on instances with room for them        *)
(* (main/scheduler/task_manager.py, dependency_graph.py,                   *)
(* task_manager_models.py).                                                *)
(*                                                                         *)
(* A pass of the TaskManager is one READ COMMITTED transaction under an    *)
(* advisory lock.  BeginPass is its queries, each of the middle actions    *)
(* handles the next pending task, EndPass commits.  Between them the rest  *)
(* of the system moves on, but for the rows the pass has written: they are *)
(* locked.  A pass works on what it read: a start saves the whole row, so  *)
(* it takes back a cancel that came after the queries.                     *)
(*                                                                         *)
(* The DependencyManager holds another lock, so its pass comes at any      *)
(* time.  What it writes the TaskManager sees only with                    *)
(* dependencies_processed, which it writes last: its pass is one step.     *)
(*                                                                         *)
(* "waiting" stands for waiting and running of all tasks but workflow      *)
(* jobs, and "failed" for failed and error: both managers treat them       *)
(* alike.                                                                  *)
(***************************************************************************)
EXTENDS Naturals, SequencesExt, Sums

CONSTANTS
    MaxTasks,       \* bound: how many tasks there ever are
    MaxLaunches,    \* bound: how many of them users launch
    MaxFaults,      \* bound: nodes that change, passes that are cut off
    Outcomes,       \* the statuses in which active tasks end
    Launchable,     \* the tasks users, schedules and workflows launch
    Target,         \* projects and inventory sources that update on launch
    UpdateOf,       \* the update of a target, as a task
    SourcesOf,      \* the targets among the sources of an inventory, in order
    SourceProject,  \* an inventory source's project, if that is a target
    StartTaskLimit, \* START_TASK_LIMIT
    Node, NodeType, Capacity,
    Members, ContainerGroup,
    MaxJobs, MaxForks,  \* a group's limits, 0 for none
    ControlPlane,   \* the group of the control plane
    ControlImpact,  \* AWX_CONTROL_NODE_TASK_IMPACT
    None

(* Tasks are numbered in the order of their creation. *)
Task == 1..MaxTasks
Kind == {"job", "project_update", "inventory_update", "ad_hoc", "system_job",
         "workflow"}
Active == {"waiting", "running"}
Unfinished == Active \cup {"pending"}
Finished == {"successful", "failed", "canceled"}

ASSUME SchedulerAssumption ==
    /\ MaxTasks \in Nat /\ MaxLaunches \in Nat /\ MaxFaults \in Nat
    /\ None \notin Unfinished \cup Finished
    /\ None \notin Target
    /\ Outcomes \subseteq Finished
    /\ StartTaskLimit \in Nat
    /\ ControlImpact \in Nat \ {0}
    /\ Capacity \in [Node -> Nat]
    /\ \A g \in ContainerGroup : MaxJobs[g] \in Nat /\ MaxForks[g] \in Nat
    /\ None \notin Node \cup ContainerGroup
    /\ ControlPlane \notin ContainerGroup     \* validate_is_container_group
    /\ \A r \in Launchable \cup {UpdateOf[x] : x \in Target} :
         /\ r.impact \in Nat
         /\ r.kind # "workflow" => r.impact > 0     \* _get_task_impact
         /\ r.kind = "job" => SourcesOf[r.inventory] \in Seq(Target)
         /\ r.kind = "inventory_update" => SourceProject[r.source] \in Target \cup {None}

VARIABLES
    count,      \* how many tasks there are
    task,       \* what each of them is
    status,
    deps,       \* dependent_jobs
    processed,  \* the tasks with dependencies_processed
    place,      \* controller_node, execution_node and instance_group
    stale,      \* updates whose cache timeout has passed
    nodes,      \* "ready", "unavailable" or "gone", for each node
    launches, faults,
    pass        \* the TaskManager's pass

vars == <<count, task, status, deps, processed, place, stale, nodes, launches,
          faults, pass>>

Nowhere == [control |-> None, execution |-> None, group |-> None]
Idle == [on |-> FALSE, seen |-> [t \in Task |-> None],
         new |-> [t \in Task |-> None], place |-> [t \in Task |-> Nowhere],
         used |-> [n \in Node |-> 0], jobs |-> [n \in Node |-> 0],
         graph |-> {}, todo |-> {}, ready |-> {}, limit |-> 0]

Init ==
    /\ count = 0
    /\ task = [t \in Task |-> None]
    /\ status = [t \in Task |-> None]
    /\ deps = [t \in Task |-> {}]
    /\ processed = {}
    /\ place = [t \in Task |-> Nowhere]
    /\ stale = {}
    /\ nodes = [n \in Node |-> "ready"]
    /\ launches = 0
    /\ faults = 0
    /\ pass = Idle

-----------------------------------------------------------------------------
(* The rest of the system.  A row the pass has written is locked. *)

Locked(t) == pass.new[t] # None

(* signal_start of a task a user, a schedule or a workflow creates; the     *)
(* second conjunct is a bound, and leaves room for the updates it needs    *)
Launch(r) ==
    /\ launches < MaxLaunches
    /\ count + 3 <= MaxTasks
    /\ launches' = launches + 1
    /\ count' = count + 1
    /\ task' = [task EXCEPT ![count + 1] = r]
    /\ status' = [status EXCEPT ![count + 1] = "pending"]
    /\ UNCHANGED <<deps, processed, place, stale, nodes, faults, pass>>

Finish(t, result) ==
    /\ status[t] \in Active
    /\ ~Locked(t)
    /\ status' = [status EXCEPT ![t] = result]
    /\ UNCHANGED <<count, task, deps, processed, place, stale, nodes, launches,
                   faults, pass>>

(* get_jobs_fail_chain: who is canceled along with t *)
Blocked(t) == {u \in 1..count : t \in deps[u]}
FailChain(t) ==
    CASE task[t].kind = "project_update" ->
           {Blocked(t) \cup UNION {Blocked(u) : u \in Blocked(t)}}
      [] task[t].kind = "inventory_update" /\ Blocked(t) # {} ->
           {Blocked(t) \cup {d \in deps[u] : task[d].kind = task[t].kind} :
                u \in Blocked(t)}
      [] OTHER -> {{}}

(* Those that wait for a process to end them are left to Finish. *)
Cancel(t) ==
    /\ status[t] \in Unfinished
    /\ \E chain \in FailChain(t) :
         LET hit == {u \in chain \cup {t} : status[u] = "pending"}
         IN  /\ hit # {}
             /\ \A u \in hit : ~Locked(u)
             /\ status' = [u \in Task |->
                             IF u \in hit THEN "canceled" ELSE status[u]]
    /\ UNCHANGED <<count, task, deps, processed, place, stale, nodes, launches,
                   faults, pass>>

(* finished + cache_timeout < now() *)
CacheExpires(t) ==
    /\ status[t] = "successful"
    /\ task[t].kind \in {"project_update", "inventory_update"}
    /\ stale' = stale \cup {t}
    /\ stale' # stale
    /\ UNCHANGED <<count, task, status, deps, processed, place, nodes,
                   launches, faults, pass>>

(* A node goes offline, or is deregistered. *)
NodeLeaves(n, s) ==
    /\ nodes[n] = "ready"
    /\ faults < MaxFaults
    /\ faults' = faults + 1
    /\ nodes' = [nodes EXCEPT ![n] = s]
    /\ UNCHANGED <<count, task, status, deps, processed, place, stale,
                   launches, pass>>

NodeReturns(n) ==
    /\ nodes[n] # "ready"
    /\ nodes' = [nodes EXCEPT ![n] = "ready"]
    /\ UNCHANGED <<count, task, status, deps, processed, place, stale,
                   launches, faults, pass>>

-----------------------------------------------------------------------------
(* The DependencyManager *)

UpdatesOf(x) == {u \in 1..count : task[u] = UpdateOf[x]}
Latest(x) == IF UpdatesOf(x) = {} THEN None ELSE Max(UpdatesOf(x))

ShouldUpdateAgain(x) ==
    LET u == Latest(x)
    IN  \/ u = None
        \/ status[u] \in {"failed", "canceled"}
        \/ status[u] = "successful" /\ u \in stale

(* The elements of a sequence at chosen indices: what a filter leaves *)
Keep(seq, chosen) ==
    FlattenSeq([i \in DOMAIN seq |-> IF i \in chosen THEN <<seq[i]>> ELSE <<>>])

(* What a task wants updated before it starts, in the order of the code *)
Wants(r) ==
    CASE r.kind = "job" ->
           LET sources == SourcesOf[r.inventory]
           IN  (IF r.project \in Target THEN <<r.project>> ELSE <<>>)
                 \o Keep(sources, {i \in DOMAIN sources : sources[i] \notin r.updated})
      [] r.kind = "inventory_update" /\ SourceProject[r.source] # None ->
           <<SourceProject[r.source]>>
      [] OTHER -> <<>>

(* generate_dependencies, given what each task of its list wants: the        *)
(* targets that get a new update, in the order they are come to, when those *)
(* of new have one already; the update a target has then; and the           *)
(* dependencies of the i-th task, which grow from one task to the next.     *)
FirstIn(seq, x) == CHOOSE i \in 1..Len(seq) :
                     seq[i] = x /\ \A j \in 1..(i - 1) : seq[j] # x

Outdated(wanted, new) ==
    Keep(wanted, {i \in DOMAIN wanted : /\ i = FirstIn(wanted, wanted[i])
                                        /\ ~Contains(new, wanted[i])
                                        /\ ShouldUpdateAgain(wanted[i])})

Update(x, new) == IF Contains(new, x) THEN count + FirstIn(new, x) ELSE Latest(x)

StaleLinks(wants, i, new) ==     \* links what was there before the pass
    {Latest(x) : x \in ToSet(wants[i])}

FaultyLinks(wants, i, new) ==     \* forgets updates that were there already
    {Update(x, new) : x \in {y \in ToSet(wants[i]) : Contains(new, y)}}

Links(wants, i, new) ==
    IF wants[i] = <<>>
      THEN {}
      ELSE {Update(x, new) : x \in UNION {ToSet(wants[j]) : j \in 1..i}}

DepsIn(t, list, wants, new) ==
    UNION {Links(wants, i, new) : i \in {j \in 1..Len(list) : list[j] = t}}

(* The lists of the two calls of generate_dependencies: the pending tasks, *)
(* and those of their dependencies whose own are not processed yet.        *)
Undeped ==
    Keep([t \in 1..count |-> t],
         {t \in 1..count : status[t] = "pending" /\ t \notin processed})
UndepedOf(wanted, new) ==
    LET updates == [i \in 1..Len(wanted) |-> Update(wanted[i], new)]
    IN  Keep(updates, {i \in 1..Len(wanted) : updates[i] \notin processed})

(* What the tasks of a list want; those after count are created by the pass. *)
WantsOf(list, new) ==
    [i \in 1..Len(list) |-> Wants(IF list[i] <= count
                                    THEN task[list[i]]
                                    ELSE UpdateOf[new[list[i] - count]])]

(* The updates are created, the dependencies linked, the lists processed. *)
Manage(first, wants1, new1, second, wants2, new) ==
    /\ count' = count + Len(new)
    /\ count' \in count..MaxTasks          \* a bound
    /\ LET created == (count + 1)..count'
       IN  /\ task' = [t \in Task |-> IF t \in created
                                        THEN UpdateOf[new[t - count]] ELSE task[t]]
           /\ status' = [t \in Task |-> IF t \in created THEN "pending"
                                                         ELSE status[t]]
    /\ deps' = [t \in Task |-> deps[t] \cup DepsIn(t, first, wants1, new1)
                                       \cup DepsIn(t, second, wants2, new)]
    /\ processed' = processed \cup ToSet(first) \cup ToSet(second)
    /\ UNCHANGED <<place, stale, nodes, launches, faults, pass>>

(* A project update that the second call creates is left to the next pass. *)
(* The quantifiers over one value only name it.                            *)
DependencyPass ==
    \E first \in {Undeped} :
    \E wants1 \in {WantsOf(first, <<>>)} :
    \E wanted \in {FlattenSeq(wants1)} :
    \E new1 \in {Outdated(wanted, <<>>)} :
    \E second \in {UndepedOf(wanted, new1)} :
    \E wants2 \in {WantsOf(second, new1)} :
    \E new \in {new1 \o Outdated(FlattenSeq(wants2), new1)} :
      /\ first # <<>>
      /\ Manage(first, wants1, new1, second, wants2, new)

-----------------------------------------------------------------------------
(* The TaskManager: what it reads *)

(* The sum of the numbers that a function gives some tasks *)
Total(f) == SumTo([t \in Task |-> IF t \in DOMAIN f THEN f[t] ELSE 0], MaxTasks)

(* TaskManagerInstances.consume_capacity: what a task at a place takes of   *)
(* instance n.  Its impact does not count where it is only controlled, be  *)
(* it a task that runs there: a project update on a control node.          *)
RunsOn(n, where) ==
    where.execution = n /\ NodeType[n] \in {"hybrid", "execution"}
ControlledBy(n, where) ==
    where.control = n /\ NodeType[n] \in {"hybrid", "control"}
Takes(n, t, where) ==
    (IF RunsOn(n, where) THEN task[t].impact ELSE 0)
      + (IF ControlledBy(n, where) THEN ControlImpact ELSE 0)

(* get_tasks, after_lock_init, reap_jobs_from_orphaned_instances,          *)
(* process_running_tasks.  Reaping changes rows the pass has read before.  *)
BeginPass ==
    /\ ~pass.on
    /\ \E t \in processed : status[t] \in Unfinished
    /\ \E graph \in {{t \in 1..count : t \in processed /\ status[t] \in Active}} :
         pass' =
           [on |-> TRUE,
            seen |-> status,
            new |-> [t \in Task |->
                       IF /\ status[t] \in Active
                          /\ place[t].execution # None
                          /\ nodes[place[t].execution] = "gone"
                         THEN "failed" ELSE None],
            place |-> place,
            used |-> [n \in Node |->
                        Total([t \in graph |-> Takes(n, t, place[t])])],
            jobs |-> [n \in Node |->
                        Cardinality({t \in graph : RunsOn(n, place[t])})],
            graph |-> graph,
            todo |-> {t \in 1..count : t \in processed /\ status[t] = "pending"},
            ready |-> {n \in Node : nodes[n] = "ready"},
            limit |-> StartTaskLimit]
    /\ UNCHANGED <<count, task, status, deps, processed, place, stale, nodes,
                   launches, faults>>

(* DependencyGraph.task_blocked_by *)
Blocks(u, t) ==
    LET r == task[t]
        b == task[u]
    IN  CASE r.kind = "project_update" ->
               b.kind = "project_update" /\ b.project = r.project
          [] r.kind = "inventory_update" ->
               b.kind = "inventory_update" /\ b.source = r.source
          [] r.kind = "job" ->
               \/ b.kind = "project_update" /\ b.project = r.project
               \/ /\ b.kind \in {"inventory_update", "ad_hoc"}
                  /\ b.inventory = r.inventory
               \/ /\ ~r.simultaneous
                  /\ b.kind = "job" /\ b.template = r.template
          [] r.kind = "ad_hoc" ->
               /\ b.kind \in {"inventory_update", "ad_hoc"}
               /\ b.inventory = r.inventory
          [] r.kind = "system_job" -> b.kind = "system_job"
          [] r.kind = "workflow" ->
               /\ ~r.simultaneous         \* a sliced job's is a job template
               /\ b.kind \in {"workflow", "job"} /\ b.template = r.template

FaultyIsBlocked(t) ==     \* looks at the dependencies only
    \E d \in deps[t] : pass.seen[d] \in Unfinished

StuckIsBlocked(t) ==     \* blocked by pending tasks as well
    \E u \in 1..count : u # t /\ Blocks(u, t) /\ pass.seen[u] \in Unfinished

(* job_blocked_by: the graph, then the dependencies as they were read *)
IsBlocked(t) ==
    \/ \E u \in pass.graph : Blocks(u, t)
    \/ \E d \in deps[t] : pass.seen[d] \in Unfinished

FaultyDependencyFailed(t) ==     \* forgets inventory updates
    \E d \in deps[t] : /\ pass.seen[d] = "failed"
                       /\ task[d].kind = "project_update"

DependencyFailed(t) == \E d \in deps[t] : pass.seen[d] = "failed"

FaultyRemaining(n) == Capacity[n]     \* forgets what runs

Remaining(n) == IF pass.used[n] > Capacity[n] THEN 0
                                              ELSE Capacity[n] - pass.used[n]

(* has_remaining_capacity of a group, for an impact and a number of jobs *)
ReadyMembers(g) == Members[g] \cap pass.ready
InContainer(g) == {t \in pass.graph : pass.place[t].group = g}
OfMembers(g, f) == MapThenSumSet(LAMBDA n : f[n], ReadyMembers(g))
GroupHasRoom(g, impact, jobs) ==
    LET running == IF g \in ContainerGroup
                     THEN Cardinality(InContainer(g))
                     ELSE OfMembers(g, pass.jobs)
        consumed == IF g \in ContainerGroup
                      THEN Total([t \in InContainer(g) |-> task[t].impact])
                      ELSE OfMembers(g, pass.used)
    IN  /\ MaxJobs[g] # 0 => running + jobs <= MaxJobs[g]
        /\ MaxForks[g] # 0 => consumed + impact <= MaxForks[g]

(* fit_task_to_most_remaining_capacity_instance: one with the most capacity *)
(* left.  A hybrid node controls what it runs.                             *)
Fits(g, impact, type, addControl) ==
    LET Need(n) == impact + IF addControl /\ NodeType[n] = "hybrid"
                              THEN ControlImpact ELSE 0
        able == {n \in ReadyMembers(g) : /\ NodeType[n] \in {type, "hybrid"}
                                         /\ Need(n) <= Remaining(n)}
    IN  {n \in able : \A m \in able : Remaining(m) - Need(m) <= Remaining(n) - Need(n)}

(* find_largest_idle_instance *)
LargestIdle(g) ==
    LET idle == {n \in ReadyMembers(g) :
                   /\ NodeType[n] \in {"execution", "hybrid"}
                   /\ Capacity[n] > 0
                   /\ pass.jobs[n] = 0 \/ Remaining(n) = Capacity[n]}
    IN  {n \in idle : \A m \in idle : Capacity[m] <= Capacity[n]}

IsControlTask(t) == task[t].kind \in {"project_update", "system_job"}
Controllers(t) ==
    Fits(ControlPlane,
         ControlImpact + IF IsControlTask(t) THEN task[t].impact ELSE 0,
         "control", FALSE)

(* Where task t would run in group g, given its controller c *)
PlacesIn(g, t, c) ==
    IF ~GroupHasRoom(g, task[t].impact, 1)
      THEN {}
    ELSE IF g \in ContainerGroup
      THEN {[control |-> c, execution |-> None, group |-> g]}
    ELSE LET fitting == Fits(g, task[t].impact, "execution", TRUE)
         IN  {[control |-> IF NodeType[n] = "hybrid" THEN n ELSE c,
               execution |-> n, group |-> g] :
                n \in IF fitting # {} THEN fitting ELSE LargestIdle(g)}

(* The first of the task's groups that takes it *)
Places(t) ==
    IF IsControlTask(t)
      THEN IF GroupHasRoom(ControlPlane, ControlImpact, 0)
             THEN {[control |-> c, execution |-> c, group |-> ControlPlane] :
                     c \in Controllers(t)}
             ELSE {}
      ELSE UNION {LET at(i) == PlacesIn(task[t].groups[i], t, c)
                      open == {i \in DOMAIN task[t].groups : at(i) # {}}
                  IN  IF open = {} THEN {} ELSE at(Min(open)) :
                    c \in Controllers(t)}

-----------------------------------------------------------------------------
(* process_pending_tasks, one task after the other *)

IsNext(t) ==
    /\ pass.on
    /\ pass.limit > 0
    /\ t \in pass.todo
    /\ \A u \in pass.todo : t <= u

Handled == UNCHANGED <<count, task, status, deps, processed, place, stale,
                       nodes, launches, faults>>

(* process_job_dep_failures *)
FailDependent(t) ==
    /\ IsNext(t)
    /\ DependencyFailed(t)
    /\ pass' = [pass EXCEPT !.todo = @ \ {t}, !.new[t] = "failed"]
    /\ Handled

Postpone(t) ==
    /\ IsNext(t)
    /\ ~DependencyFailed(t)
    /\ IsBlocked(t) \/ (task[t].kind # "workflow" /\ Places(t) = {})
    /\ pass' = [pass EXCEPT !.todo = @ \ {t}]
    /\ Handled

FaultyStartTask(t, where, ok) ==     \* forgets add_job
    /\ pass' = [pass EXCEPT
         !.todo = @ \ {t},
         !.place[t] = where,
         !.limit = @ - 1,
         !.new[t] = IF ok THEN "waiting" ELSE "failed"]
    /\ Handled

(* start_task; ok is the outcome of pre_start.  Even a task that fails     *)
(* there stays in the graph, and in the capacity, for the rest of the pass *)
StartTask(t, where, ok) ==
    /\ pass' = [pass EXCEPT
         !.todo = @ \ {t},
         !.graph = @ \cup {t},
         !.place[t] = where,
         !.used = [n \in Node |-> @[n] + Takes(n, t, where)],
         !.jobs = [n \in Node |-> @[n] + IF RunsOn(n, where) THEN 1 ELSE 0],
         !.limit = @ - 1,
         !.new[t] = IF ~ok THEN "failed"
                    ELSE IF task[t].kind = "workflow" THEN "running"
                    ELSE "waiting"]
    /\ Handled

StartWorkflow(t, ok) ==
    /\ IsNext(t)
    /\ ~DependencyFailed(t) /\ ~IsBlocked(t)
    /\ task[t].kind = "workflow"
    /\ StartTask(t, Nowhere, ok)

StartPlaced(t, ok) ==
    /\ IsNext(t)
    /\ ~DependencyFailed(t) /\ ~IsBlocked(t)
    /\ task[t].kind # "workflow"
    /\ \E where \in Places(t) : StartTask(t, where, ok)

(* The commit.  timed_out and START_TASK_LIMIT end a pass early. *)
Commit ==
    /\ status' = [t \in Task |-> IF Locked(t) THEN pass.new[t] ELSE status[t]]
    /\ place' = [t \in Task |-> IF Locked(t) THEN pass.place[t] ELSE place[t]]
    /\ pass' = Idle
    /\ UNCHANGED <<count, task, deps, processed, stale, nodes, launches>>

EndPass ==
    /\ pass.on
    /\ pass.todo = {} \/ pass.limit = 0
    /\ Commit
    /\ UNCHANGED faults

TimeOut ==
    /\ pass.on
    /\ pass.todo # {} /\ pass.limit > 0
    /\ faults < MaxFaults
    /\ faults' = faults + 1
    /\ Commit

(* The process is killed, and the transaction is rolled back. *)
Abort ==
    /\ pass.on
    /\ faults < MaxFaults
    /\ faults' = faults + 1
    /\ pass' = Idle
    /\ UNCHANGED <<count, task, status, deps, processed, place, stale, nodes,
                   launches>>

HandleNext(t) ==
    \/ FailDependent(t)
    \/ Postpone(t)
    \/ \E ok \in BOOLEAN : StartWorkflow(t, ok) \/ StartPlaced(t, ok)

PassStep ==
    \/ BeginPass
    \/ \E t \in pass.todo : HandleNext(t)
    \/ EndPass

Next ==
    \/ \E r \in Launchable : Launch(r)
    \/ \E t \in Task :
         \/ \E result \in Outcomes : Finish(t, result)
         \/ Cancel(t)
         \/ CacheExpires(t)
    \/ \E n \in Node :
         \/ \E s \in {"unavailable", "gone"} : NodeLeaves(n, s)
         \/ NodeReturns(n)
    \/ DependencyPass
    \/ PassStep
    \/ TimeOut
    \/ Abort

Spec == Init /\ [][Next]_vars

FairSpec ==
    /\ Spec
    /\ WF_vars(DependencyPass)
    /\ WF_vars(PassStep)
    /\ WF_vars(\E t \in Task, result \in Outcomes : Finish(t, result))
    /\ WF_vars(\E n \in Node : NodeReturns(n))

-----------------------------------------------------------------------------
(* Properties *)

(* Every variable has the values the code gives it; tasks exist in the      *)
(* order of their creation, and only existing tasks are linked.            *)
TypeOK ==
    /\ count \in 0..MaxTasks
    /\ launches \in 0..MaxLaunches
    /\ faults \in 0..MaxFaults
    /\ \A t \in Task :
         /\ IF t <= count
              THEN /\ task[t] \in Launchable \cup {UpdateOf[x] : x \in Target}
                   /\ status[t] \in Unfinished \cup Finished
              ELSE status[t] = None /\ task[t] = None
         /\ deps[t] \subseteq 1..count
    /\ processed \subseteq 1..count
    /\ stale \subseteq 1..count
    /\ \A n \in Node : nodes[n] \in {"ready", "unavailable", "gone"}
    /\ pass.graph \subseteq processed
    /\ pass.todo \subseteq processed
    /\ pass.limit \in 0..StartTaskLimit

(* DependencyGraph: two tasks that block each other, such as two updates   *)
(* of a project or two jobs of a template without allow_simultaneous, are  *)
(* never active together.                                                  *)
NoConflict ==
    \A t, u \in Task :
      t # u /\ status[t] \in Active /\ status[u] \in Active
        => ~(Blocks(t, u) /\ Blocks(u, t))

(* DependencyGraph: a task becomes active only when nothing that blocks it  *)
(* was, whatever the pass had read.                                        *)
StartsUnblocked ==
    [][\A t \in Task : status[t] \notin Active /\ status'[t] \in Active
         => \A u \in Task \ {t} : status[u] \in Active => ~Blocks(u, t)]_vars

(* job_blocked_by, process_job_dep_failures: what a task depends on ended  *)
(* before it started, and did not fail.                                    *)
DependenciesFirst ==
    \A t \in Task : status[t] \in Active
      => \A d \in deps[t] : status[d] \in {"successful", "canceled"}

(* gen_dep_for_job and gen_dep_for_inventory_update: what starts depends    *)
(* on an update of everything it wants updated.                            *)
UpdatesLinked ==
    \A t \in Task : status[t] \in Active
      => \A x \in ToSet(Wants(task[t])) :
           \E d \in deps[t] : task[d] = UpdateOf[x]

(* fit_task_to_most_remaining_capacity_instance and                         *)
(* find_largest_idle_instance: an instance is given more than its capacity  *)
(* only by a single job too large for it, and a container group never more  *)
(* than its limits.                                                        *)
WithinCapacity ==
    pass.on =>
      /\ \A n \in Node : pass.used[n] <= Capacity[n] \/ pass.jobs[n] = 1
      /\ \A g \in ContainerGroup :
           /\ MaxJobs[g] # 0 => Cardinality(InContainer(g)) <= MaxJobs[g]
           /\ MaxForks[g] # 0 =>
                Total([t \in InContainer(g) |-> task[t].impact]) <= MaxForks[g]

(* Task t waits for itself, or for tasks that wait for themselves.         *)
Knotted(t) ==
    \E S \in SUBSET (1..count) :
      /\ t \in S
      /\ \A s \in S : status[s] = "pending" /\ deps[s] \cap S # {}

(* Every pending task is started, failed or canceled in the end, unless     *)
(* generate_dependencies has tied it into a knot: the dependencies that an  *)
(* inventory update gets from the tasks before it can include itself.      *)
EveryTaskStarts ==
    []<>(\A t \in Task : status[t] = "pending" => Knotted(t))
=============================================================================
