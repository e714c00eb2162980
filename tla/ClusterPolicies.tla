---------------------------- MODULE ClusterPolicies ----------------------------
(***************************************************************************)
(* Which instances belong to which instance groups: the policies of the    *)
(* groups, the requests that edit them, attach and detach instances, and   *)
(* the task that makes the memberships what the policies ask for.  Runs of *)
(* the task exclude each other by a lock.  Every commit sends the task,    *)
(* except that of a request that attaches an instance.                     *)
(***************************************************************************)
EXTENDS Integers, FiniteSets

CONSTANTS
    Instances,          \* their ids, numbers
    NodeType,           \* instance to "control", "execution" or "hybrid"
    Controlplane,       \* the group of the control plane
    Default,            \* another group, which a user has made
    MaxPolicyEdits,     \* bound of the requests
    MaxLostTasks        \* bound of the tasks that are lost

InstanceGroups == {Controlplane, Default}

VARIABLES
    managed,            \* the instances that are managed_by_policy
    groups,             \* group to its row: list, minimum, percentage
    members,            \* group to its instances
    patch,              \* the request that edits a group: the group and the row it has loaded, or none
    tasks,              \* the tasks on their way
    task,               \* the task that has the lock: position, memberships it wants, memberships it has read
    changed, lostTasks,
    unnoticed,          \* history: since the last run began, a task was lost, or an edit was not seen to be one
    attached,           \* history: group to what was put on its list by attaching since the last run began ...
    raced               \* history: ... and those of them that were attached while the task ran

policyvars == <<managed, groups, members, patch, tasks, task, changed, lostTasks, unnoticed, attached, raced>>

NoPatch == [group |-> "none", row |-> [list |-> {}, minimum |-> 0, percentage |-> 0]]
Nothing == [g \in InstanceGroups |-> {}]
NoTask == [at |-> "idle", wanted |-> Nothing, prior |-> Nothing]

\* Both groups ask for all instances; the task of the dispatcher's start is on its way.
Init ==
    /\ managed = Instances
    /\ groups = [g \in InstanceGroups |-> [list |-> {}, minimum |-> 0, percentage |-> 100]]
    /\ members = Nothing
    /\ patch = NoPatch
    /\ tasks = 1 /\ task = NoTask
    /\ changed = 0 /\ lostTasks = 0 /\ unnoticed = FALSE
    /\ attached = Nothing /\ raced = Nothing

-----------------------------------------------------------------------------
(* apply_cluster_membership_policies as an algorithm.  A plan is what it has *)
(* made of the groups so far.                                              *)

Excluded(g) == IF g = Controlplane THEN "execution" ELSE "control"
CarelessCandidates(g) == managed
Candidates(g) == {i \in managed : NodeType[i] # Excluded(g)}

\* The group takes so many of the instances it does not have yet, those first that policies have put into the fewest
\* groups.
Load(plan, i) == Cardinality({g \in InstanceGroups : i \in plan[g] \ groups[g].list})
Before(plan, i, j) == Load(plan, i) < Load(plan, j) \/ (Load(plan, i) = Load(plan, j) /\ i < j)
Take(plan, g, count) ==
    LET offered == Candidates(g) \ plan[g]
    IN  [plan EXCEPT ![g] = @ \union {i \in offered : Cardinality({j \in offered : Before(plan, j, i)}) < count}]

\* How many members a percentage of the candidates asks for.
Share(g) == (groups[g].percentage * Cardinality(Candidates(g)) + 99) \div 100

TakeMinimum(plan, g) == Take(plan, g, groups[g].minimum - Cardinality(plan[g]))
TakeShare(plan, g) == Take(plan, g, Share(g) - Cardinality(plan[g]))

\* First the lists, then the minimums, then the percentages; each time the groups in turn, the smaller first.  Of two of
\* the same size the database decides.
Listed == [g \in InstanceGroups |-> groups[g].list]
InTurn(plan) == {turn \in {<<Controlplane, Default>>, <<Default, Controlplane>>} :
                    Cardinality(plan[turn[1]]) <= Cardinality(plan[turn[2]])}
AllTake(what, plans) ==
    LET TakeSome(plan, g) == IF what = "minimum" THEN TakeMinimum(plan, g) ELSE TakeShare(plan, g)
        pairs == UNION {{<<plan, turn>> : turn \in InTurn(plan)} : plan \in plans}
        halfway == {<<TakeSome(pair[1], pair[2][1]), pair[2][2]>> : pair \in pairs}
    IN  {TakeSome(pair[1], pair[2]) : pair \in halfway}
Plans == AllTake("share", AllTake("minimum", {Listed}))

-----------------------------------------------------------------------------
(* The task *)

\* The instances and the groups are read ...
ReadPolicies ==
    /\ tasks > 0 /\ task.at = "idle"
    /\ tasks' = tasks - 1
    /\ \E plan \in Plans : task' = [NoTask EXCEPT !.at = "read", !.wanted = plan]
    /\ unnoticed' = FALSE /\ attached' = Nothing /\ raced' = Nothing
    /\ UNCHANGED <<managed, groups, members, patch, changed, lostTasks>>

\* ... then the memberships ...
ReadMembers ==
    /\ task.at = "read"
    /\ task' = [task EXCEPT !.at = "read_all", !.prior = members]
    /\ UNCHANGED <<managed, groups, members, patch, tasks, changed, lostTasks, unnoticed, attached, raced>>

\* ... and what differs is added and removed.
ApplyPolicies ==
    /\ task.at = "read_all"
    /\ members' = [g \in InstanceGroups |->
                      (members[g] \union (task.wanted[g] \ task.prior[g])) \ (task.prior[g] \ task.wanted[g])]
    /\ task' = NoTask
    /\ UNCHANGED <<managed, groups, patch, tasks, changed, lostTasks, unnoticed, attached, raced>>

\* A task is lost on its way, or dies before it has written anything; the lock is free again.
LoseTask ==
    /\ lostTasks < MaxLostTasks /\ lostTasks' = lostTasks + 1
    /\ \/ tasks > 0 /\ tasks' = tasks - 1 /\ task' = task
       \/ task.at # "idle" /\ task' = NoTask /\ tasks' = tasks
    /\ unnoticed' = TRUE
    /\ UNCHANGED <<managed, groups, members, patch, changed, attached, raced>>

-----------------------------------------------------------------------------
(* Requests; each is a transaction, the task is sent when it commits. *)

Request == changed < MaxPolicyEdits /\ changed' = changed + 1

\* The edit of a group loads its row ...
LoadGroup(g) ==
    /\ patch = NoPatch /\ Request
    /\ patch' = [group |-> g, row |-> groups[g]]
    /\ UNCHANGED <<managed, groups, members, tasks, task, lostTasks, unnoticed, attached, raced>>

\* ... and saves all of it; the task is sent when a policy field differs from the row that was loaded.  Of the group of
\* the control plane only the minimum can be edited.
SaveGroup ==
    /\ patch # NoPatch
    /\ \E list \in {patch.row.list, {}}, minimum \in {patch.row.minimum, 1}, percentage \in {patch.row.percentage, 0} :
          /\ patch.group = Controlplane => list = patch.row.list /\ percentage = patch.row.percentage
          /\ LET row == [list |-> list, minimum |-> minimum, percentage |-> percentage]
             IN  /\ groups' = [groups EXCEPT ![patch.group] = row]
                 /\ tasks' = IF row = patch.row THEN tasks ELSE tasks + 1
                 /\ unnoticed' = (unnoticed \/ (row = patch.row /\ row # groups[patch.group]))
    /\ patch' = NoPatch
    /\ UNCHANGED <<managed, members, task, changed, lostTasks, attached, raced>>

\* A user puts an instance into a group, and on its list, which is read under a lock.  The name is appended to the very
\* list that the row remembers as its prior value, so that the save sees no change of a policy and sends no task.
Attach(g, i) ==
    /\ Request /\ NodeType[i] # "control"
    /\ members' = [members EXCEPT ![g] = @ \union {i}]
    /\ groups' = [groups EXCEPT ![g].list = @ \union {i}]
    /\ LET added == {i} \ groups[g].list
       IN  /\ attached' = [attached EXCEPT ![g] = @ \union added]
           /\ raced' = [raced EXCEPT ![g] = @ \union IF task.at = "idle" THEN {} ELSE added]
    /\ UNCHANGED <<managed, patch, tasks, task, lostTasks, unnoticed>>

\* A user takes one out of a group, except out of that of the control plane; here the task is sent explicitly.
Detach(g, i) ==
    /\ Request /\ NodeType[i] # "control" /\ ~(NodeType[i] = "hybrid" /\ g = Controlplane)
    /\ members' = [members EXCEPT ![g] = @ \ {i}]
    /\ groups' = [groups EXCEPT ![g].list = @ \ {i}]
    /\ tasks' = tasks + 1
    /\ UNCHANGED <<managed, patch, task, lostTasks, unnoticed, attached, raced>>

\* managed_by_policy is switched.
Switch(i) ==
    /\ Request
    /\ managed' = (managed \ {i}) \union ({i} \ managed)
    /\ tasks' = tasks + 1
    /\ UNCHANGED <<groups, members, patch, task, lostTasks, unnoticed, attached, raced>>

PolicyTask == ReadPolicies \/ ReadMembers \/ ApplyPolicies

Next ==
    \/ PolicyTask \/ LoseTask
    \/ SaveGroup
    \/ \E g \in InstanceGroups : LoadGroup(g)
    \/ \E g \in InstanceGroups, i \in Instances : Attach(g, i) \/ Detach(g, i)
    \/ \E i \in Instances : Switch(i)

Spec == Init /\ [][Next]_policyvars /\ WF_policyvars(PolicyTask)

-----------------------------------------------------------------------------

Rows == [list : SUBSET Instances, minimum : 0 .. 1, percentage : {0, 100}]
Memberships == [InstanceGroups -> SUBSET Instances]

TypeOK ==
    /\ managed \subseteq Instances
    /\ groups \in [InstanceGroups -> Rows]
    /\ members \in Memberships
    /\ patch \in [group : InstanceGroups \union {"none"}, row : Rows]
    /\ tasks \in 0 .. MaxPolicyEdits + 1
    /\ task \in [at : {"idle", "read", "read_all"}, wanted : Memberships, prior : Memberships]
    /\ changed \in 0 .. MaxPolicyEdits /\ lostTasks \in 0 .. MaxLostTasks
    /\ unnoticed \in BOOLEAN /\ attached \in Memberships /\ raced \in Memberships

\* What the policy of a group asks for: the listed instances, no others that are of the wrong type or not managed, as
\* many as the minimum and the percentage of the eligible say as far as there are any, and no more.  What was attached
\* since the last run of the task may be too many; what was attached while it ran may have been removed again.
Eligible(g) == {i \in managed : ~(NodeType[i] = "execution" /\ g = Controlplane) /\ ~(NodeType[i] = "control" /\ g # Controlplane)}
PolicyMet(g) ==
    LET row == groups[g]
        enough(n) == /\ n >= row.minimum
                     /\ 100 * n >= row.percentage * Cardinality(Eligible(g))
    IN  /\ row.list \ raced[g] \subseteq members[g]
        /\ members[g] \ row.list \subseteq Eligible(g)
        /\ enough(Cardinality(members[g])) \/ Eligible(g) \subseteq members[g]
        /\ attached[g] = {} /\ members[g] # row.list => ~enough(Cardinality(members[g]) - 1)

\* When the tasks have run, the memberships are what the policies ask for, whatever requests came while they ran;
\* unless a task was lost, or an edit of something else has put an old policy back.
PoliciesHold ==
    tasks = 0 /\ task.at = "idle" /\ ~unnoticed => \A g \in InstanceGroups : PolicyMet(g)

PolicyTasksEnd == tasks = 0 /\ task.at = "idle"
=============================================================================
