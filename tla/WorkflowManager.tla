--------------------------- MODULE WorkflowManager ---------------------------
(***************************************************************************)
(* One running workflow job and the WorkflowManager that advances it       *)
(* (main/scheduler/task_manager.py, main/scheduler/dag_workflow.py).       *)
(*                                                                         *)
(* A pass of the manager holds an advisory lock and one database           *)
(* transaction, but the transaction is READ COMMITTED: the workflow row    *)
(* and its nodes are read when the pass begins, each node's job row the    *)
(* first time the pass touches it, and everything is written when the pass *)
(* commits.  A pass is therefore two steps, BeginPass and a commit, and    *)
(* the commit works on a view of the jobs in which every job is as old as  *)
(* the beginning of the pass or as new as its end.                         *)
(*                                                                         *)
(* The jobs that the nodes spawn are run by the rest of the system (see    *)
(* JobLifecycle); here they start, and end with any of Outcomes.           *)
(***************************************************************************)
CONSTANTS
    Node,           \* the workflow job's nodes
    SuccessEdges,   \* success_nodes, failure_nodes and always_nodes links,
    FailureEdges,   \* each a set of <<parent, child>> pairs
    AlwaysEdges,
    AllConverge,    \* the nodes with all_parents_must_converge
    Outcomes,       \* the final statuses the node jobs may reach
    Deletable,      \* nodes whose unified job template may be deleted
    InitStatuses,   \* statuses the workflow job may start in
    NoJob           \* the node has no job

Finished == {"successful", "failed", "error", "canceled"}
FailedStatuses == {"failed", "error", "canceled"}
Active == {"pending", "running"}        \* "running" covers waiting as well

Edges == SuccessEdges \cup FailureEdges \cup AlwaysEdges

ASSUME GraphAssumption ==
    /\ SuccessEdges \subseteq Node \X Node
    /\ FailureEdges \subseteq Node \X Node
    /\ AlwaysEdges \subseteq Node \X Node
    /\ AllConverge \subseteq Node
    /\ Deletable \subseteq Node
ASSUME StatusAssumption ==
    /\ Outcomes \subseteq Finished
    /\ InitStatuses \subseteq Active
    /\ NoJob \notin Active \cup Finished

VARIABLES
    wf,         \* the workflow job's status
    flag,       \* the workflow job's cancel_flag
    dnr,        \* do_not_run of every node
    job,        \* the status of every node's job, or NoJob
    live,       \* the nodes whose job has a process executing it
    tmpl,       \* the nodes whose unified_job_template still exists
    pass,       \* "idle", or "reading" while a pass is under way
    snap,       \* what the pass in progress read when it began
    tm,         \* the task manager's pass that starts it, and what it read
    request     \* how far a cancel request is, and the status it loaded

vars == <<wf, flag, dnr, job, live, tmpl, pass, snap, tm, request>>

JobStatuses == Active \cup Finished \cup {NoJob}

TypeOK ==
    /\ wf \in Active \cup Finished
    /\ flag \in BOOLEAN
    /\ dnr \in [Node -> BOOLEAN]
    /\ job \in [Node -> JobStatuses]
    /\ live \subseteq Node
    /\ tmpl \subseteq Node
    /\ pass \in {"idle", "reading"}
    /\ snap \in [flag : BOOLEAN, job : [Node -> JobStatuses], tmpl : SUBSET Node]
    /\ tm \in [busy : BOOLEAN, flag : BOOLEAN]
    /\ request \in Active \cup {"unnotified", "none"}

(* The pass between two passes: nothing has been read. *)
NothingRead == [flag |-> FALSE, job |-> [n \in Node |-> NoJob], tmpl |-> Node]
IdleTM == [busy |-> FALSE, flag |-> FALSE]

Init ==
    /\ wf \in InitStatuses
    /\ flag = FALSE
    /\ dnr = [n \in Node |-> FALSE]
    /\ job = [n \in Node |-> NoJob]
    /\ live = {}
    /\ tmpl = Node
    /\ pass = "idle"
    /\ snap = NothingRead
    /\ tm = IdleTM
    /\ request = "none"

-----------------------------------------------------------------------------
(***************************************************************************)
(* The WorkflowDAG.  Its operators take what the pass sees: s, the status  *)
(* of every node's job; t, the nodes with a template; d, do_not_run.       *)
(***************************************************************************)
Parents(n) == {p \in Node : <<p, n>> \in Edges}
RootNodes == {n \in Node : Parents(n) = {}}

(* Faulty variants, here and below, are the plausible mistakes that the    *)
(* properties are shown to catch; the specification uses none of them.     *)
FaultyParentsFinished(n, s, t, d) ==        \* a spawned parent is enough
    \A p \in Parents(n) : d[p] \/ p \notin t \/ s[p] # NoJob

(* The outcome of p leads along its edge to c: success and always edges    *)
(* out of a successful job, failure and always edges out of any other      *)
(* finished job and out of a node that lost its template.                  *)
Opens(p, c, s, t) ==
    \/ s[p] = "successful" /\ <<p, c>> \in SuccessEdges \cup AlwaysEdges
    \/ s[p] \in FailedStatuses /\ <<p, c>> \in FailureEdges \cup AlwaysEdges
    \/ s[p] = NoJob /\ p \notin t /\ <<p, c>> \in FailureEdges \cup AlwaysEdges

AreRelevantParentsFinished(n, s, t, d) ==
    \A p \in Parents(n) : d[p] \/ p \notin t \/ s[p] \in Finished

(* Looks only at parents that are successful or failed: one that ended in  *)
(* error or was canceled is not compared with its edge.                    *)
AllParentsMetConvergenceCriteria(n, s) ==
    \A p \in Parents(n) :
        /\ s[p] = "successful" => <<p, n>> \in SuccessEdges \cup AlwaysEdges
        /\ s[p] = "failed" => <<p, n>> \in FailureEdges \cup AlwaysEdges

FaultyMarkWhileRunning(n, s, t, d) ==       \* does not wait for the parents
    \A p \in Parents(n) : d[p] \/ ~Opens(p, n, s, t)

FaultyMarkSkipsError(n, s, t, d) ==         \* forgets the status error
    \A p \in Parents(n) :
        \/ d[p]
        \/ /\ s[p] \in Finished \ {"error"} \/ (s[p] = NoJob /\ p \notin t)
           /\ ~Opens(p, n, s, t)

AreAllNodesDnrDecided(ps, s, t, d) ==
    \A p \in ps : d[p] \/ s[p] # NoJob \/ p \notin t

ShouldMarkNodeDnr(n, s, t, d) ==
    \A p \in Parents(n) :
        \/ d[p]
        \/ /\ s[p] \in Finished \/ (s[p] = NoJob /\ p \notin t)
           /\ ~Opens(p, n, s, t)

(* mark_dnr_nodes visits the nodes in topological order, so that a node is *)
(* decided from its parents' new marks: d is the function that satisfies   *)
(* the equation at every node, which is unique on an acyclic graph.        *)
MarkDnrNodes(s, t, d) ==
    \A n \in Node :
        d[n] = (\/ dnr[n]
                \/ /\ s[n] = NoJob
                   /\ n \notin RootNodes
                   /\ IF n \in AllConverge
                      THEN \/ \E p \in Parents(n) : d[p]
                           \/ ~AllParentsMetConvergenceCriteria(n, s)
                      ELSE /\ AreAllNodesDnrDecided(Parents(n), s, t, d)
                           /\ ShouldMarkNodeDnr(n, s, t, d))

FaultyVisitAll(s, t, d) == Node             \* does not follow the outcomes

(* The nodes the breadth-first search visits: the least set that holds the *)
(* roots and is closed under the open edges of nodes not marked.           *)
Visited(s, t, d) ==
    {n \in Node : \A S \in SUBSET Node :
        (/\ RootNodes \subseteq S
         /\ \A p \in S, c \in Node : ~d[p] /\ Opens(p, c, s, t) => c \in S)
        => n \in S}

BfsNodesToRun(s, t, d) ==
    {n \in Visited(s, t, d) :
        /\ ~d[n]
        /\ s[n] = NoJob
        /\ n \in t
        /\ AreRelevantParentsFinished(n, s, t, d)
        /\ n \in AllConverge => AllParentsMetConvergenceCriteria(n, s)}

FaultyDoneWhileRunning(s, t, d) ==          \* every node is decided
    \A n \in Node : d[n] \/ s[n] # NoJob \/ n \notin t

FaultyDoneUndecided(s, t, d) ==             \* every spawned job has finished
    \A n \in Node : s[n] # NoJob => s[n] \in Finished

IsWorkflowDone(s, t, d) ==
    \A n \in Node :
        /\ d[n] \/ s[n] # NoJob \/ n \notin t
        /\ s[n] # NoJob => s[n] \in Finished

HasWorkflowFailed(s, t, d) ==
    \E n \in Node :
        /\ (~d[n] /\ n \notin t) \/ s[n] \in FailedStatuses
        /\ \A c \in Node : <<n, c>> \notin FailureEdges \cup AlwaysEdges

-----------------------------------------------------------------------------
(***************************************************************************)
(* The WorkflowManager's pass over the workflow.                           *)
(***************************************************************************)
BeginPass ==
    /\ pass = "idle"
    /\ wf = "running"
    /\ pass' = "reading"
    /\ snap' = [flag |-> flag, job |-> job, tmpl |-> tmpl]
    /\ UNCHANGED <<wf, flag, dnr, job, live, tmpl, tm, request>>

(* The jobs as a pass may see them when it commits. *)
Views == {[n \in Node |-> IF n \in fresh THEN job[n] ELSE snap.job[n]] :
              fresh \in SUBSET Node}

(* Every node of run gets a job: a pending one, or one that is failed at   *)
(* once because it would recurse, misses a resource or cannot start.  The  *)
(* transaction cannot commit when the template of a spawned node is gone.  *)
Spawn(run, after) ==
    /\ run \subseteq tmpl
    /\ \E started \in SUBSET run :
          job' = [n \in Node |-> IF n \in started THEN "pending"
                                 ELSE IF n \in run THEN "failed"
                                 ELSE after[n]]

(* The branch without cancel_flag: mark, then finish or spawn.  The marks  *)
(* and the jobs are written by this transaction only.                      *)
AdvancePass ==
    /\ pass = "reading"
    /\ ~snap.flag
    /\ \E s \in Views, d \in [Node -> BOOLEAN] :
          /\ MarkDnrNodes(s, snap.tmpl, d)
          /\ dnr' = d
          /\ IF IsWorkflowDone(s, snap.tmpl, d)
             THEN /\ wf' = IF HasWorkflowFailed(s, snap.tmpl, d)
                           THEN "failed" ELSE "successful"
                  /\ UNCHANGED job
             ELSE /\ UNCHANGED wf
                  /\ Spawn(BfsNodesToRun(s, snap.tmpl, d), job)
    /\ pass' = "idle"
    /\ snap' = NothingRead
    /\ UNCHANGED <<flag, live, tmpl, tm, request>>

(* cancel_node_jobs cancels every job that can be canceled.  One that is   *)
(* seen pending has no task id and becomes canceled, in memory and in the  *)
(* database; one seen running is only asked to stop.                       *)
CancelNodeJobs(s) ==
    [n \in Node |-> IF s[n] = "pending" THEN "canceled" ELSE s[n]]

FaultyMarkEverything(s, run) ==             \* job__isnull is forgotten
    [n \in Node |-> n \notin run]

(* The marks in the database: the nodes without a job are marked, and      *)
(* saving a spawned node writes its old mark, FALSE, back.                 *)
CancelMarks(s, run) ==
    [n \in Node |-> IF n \in run THEN FALSE ELSE dnr[n] \/ s[n] = NoJob]

(* The branch with cancel_flag.  The nodes without a job are marked in the *)
(* database only; the graph in memory keeps the marks of the beginning, so *)
(* a workflow that is not finished yet may still spawn in this pass.       *)
CancelPass ==
    /\ pass = "reading"
    /\ snap.flag
    /\ \E s \in Views :
          LET seen == CancelNodeJobs(s)
              after == [n \in Node |-> IF s[n] = "pending" THEN "canceled" ELSE job[n]]
              run == IF \E n \in Node : s[n] \in Active
                     THEN BfsNodesToRun(seen, snap.tmpl, dnr) ELSE {}
          IN /\ wf' = IF \E n \in Node : s[n] \in Active THEN wf ELSE "canceled"
             /\ Spawn(run, after)
             /\ dnr' = CancelMarks(s, run)
    /\ pass' = "idle"
    /\ snap' = NothingRead
    /\ UNCHANGED <<flag, live, tmpl, tm, request>>

(* The pass times out, is killed or fails: its transaction is rolled back. *)
AbortPass ==
    /\ pass = "reading"
    /\ pass' = "idle"
    /\ snap' = NothingRead
    /\ UNCHANGED <<wf, flag, dnr, job, live, tmpl, tm, request>>

-----------------------------------------------------------------------------
(***************************************************************************)
(* The task manager, the node jobs and the users.                          *)
(***************************************************************************)
(* The task manager's pass is a transaction of its own: start_task saves   *)
(* every column of the row as it was read, the cancel flag included.  The  *)
(* pre-start check finds nothing to miss in a workflow job.                *)
StartRead ==
    /\ ~tm.busy
    /\ wf = "pending"
    /\ tm' = [busy |-> TRUE, flag |-> flag]
    /\ UNCHANGED <<wf, flag, dnr, job, live, tmpl, pass, snap, request>>

StartWorkflow ==
    /\ tm.busy
    /\ wf' = "running"
    /\ flag' = tm.flag
    /\ tm' = IdleTM
    /\ UNCHANGED <<dnr, job, live, tmpl, pass, snap, request>>

(* The pass is killed, or ends before it comes to the workflow. *)
StartLeave ==
    /\ tm.busy
    /\ tm' = IdleTM
    /\ UNCHANGED <<wf, flag, dnr, job, live, tmpl, pass, snap, request>>

JobStart(n) ==
    /\ job[n] = "pending"
    /\ job' = [job EXCEPT ![n] = "running"]
    /\ live' = live \cup {n}
    /\ UNCHANGED <<wf, flag, dnr, tmpl, pass, snap, tm, request>>

FaultyRawTimeout(n) ==                      \* the runner's status, unmapped
    /\ n \in live
    /\ \E o \in Outcomes \cup {"timeout"} : job' = [job EXCEPT ![n] = o]
    /\ live' = live \ {n}
    /\ UNCHANGED <<wf, flag, dnr, tmpl, pass, snap, tm, request>>

(* The process writes its result over whatever the row says by then. *)
JobEnd(n) ==
    /\ n \in live
    /\ \E o \in Outcomes : job' = [job EXCEPT ![n] = o]
    /\ live' = live \ {n}
    /\ UNCHANGED <<wf, flag, dnr, tmpl, pass, snap, tm, request>>

(* A template can be deleted while it has no active job. *)
DeleteTemplate(n) ==
    /\ n \in tmpl \cap Deletable
    /\ job[n] \notin Active
    /\ tmpl' = tmpl \ {n}
    /\ UNCHANGED <<wf, flag, dnr, job, live, pass, snap, tm, request>>

(* UnifiedJob.cancel of the workflow job.  The request loads the row, then *)
(* acts on what it loaded, in two saves: every workflow gets the flag; one *)
(* that was loaded before it was started (it has no task id) also gets the *)
(* status, without waiting for the manager.                                *)
CancelLoad ==
    /\ request = "none"
    /\ wf \in Active
    /\ request' = wf
    /\ UNCHANGED <<wf, flag, dnr, job, live, tmpl, pass, snap, tm>>

CancelFlag ==
    /\ request \in Active
    /\ flag' = TRUE
    /\ request' = IF request = "pending" THEN "unnotified" ELSE "none"
    /\ UNCHANGED <<wf, dnr, job, live, tmpl, pass, snap, tm>>

CancelStatus ==
    /\ request = "unnotified"
    /\ wf' = "canceled"
    /\ request' = "none"
    /\ UNCHANGED <<flag, dnr, job, live, tmpl, pass, snap, tm>>

(* Nothing is left to do: the workflow and its jobs are at rest. *)
AtRest ==
    /\ wf \in Finished
    /\ pass = "idle"
    /\ ~tm.busy
    /\ live = {}
    /\ \A n \in Node : job[n] # "pending"
    /\ UNCHANGED vars

Next ==
    \/ BeginPass
    \/ AdvancePass
    \/ CancelPass
    \/ AbortPass
    \/ StartRead
    \/ StartWorkflow
    \/ StartLeave
    \/ \E n \in Node : JobStart(n) \/ JobEnd(n) \/ DeleteTemplate(n)
    \/ CancelLoad
    \/ CancelFlag
    \/ CancelStatus
    \/ AtRest

Fairness ==
    /\ WF_vars(BeginPass)
    /\ WF_vars(AdvancePass \/ CancelPass \/ AbortPass)
    /\ SF_vars(AdvancePass)
    /\ SF_vars(CancelPass)
    /\ WF_vars(StartRead)
    /\ SF_vars(StartWorkflow)
    /\ \A n \in Node : WF_vars(JobStart(n)) /\ WF_vars(JobEnd(n))

Spec == Init /\ [][Next]_vars /\ Fairness
-----------------------------------------------------------------------------
(***************************************************************************)
(* Properties.                                                             *)
(***************************************************************************)

(* A node that is marked do_not_run never has a job: a pass that spawns    *)
(* and one that marks, on views of different ages, never disagree.         *)
DnrHasNoJob == \A n \in Node : dnr[n] => job[n] = NoJob

(* A node has a job only if each of its parents is settled for good: not   *)
(* going to run, without a template, or with a job that has finished       *)
(* (what _are_relevant_parents_finished is for).                           *)
ParentsSettled ==
    \A n \in Node : job[n] # NoJob =>
        \A p \in Parents(n) : dnr[p] \/ p \notin tmpl \/ job[p] \in Finished

(* Until the workflow is canceled, a node below a root runs only if the    *)
(* outcome of one of its parents leads to it (bfs_nodes_to_run).           *)
RanOnlyIfReached ==
    ~flag => \A n \in Node :
        job[n] # NoJob /\ n \notin RootNodes
            => \E p \in Parents(n) : Opens(p, n, job, tmpl)

(* Until the workflow is canceled, a node that needs any parent is skipped *)
(* only if no parent's outcome can lead to it (mark_dnr_nodes).            *)
SkippedOnlyIfClosed ==
    ~flag => \A n \in Node \ AllConverge :
        dnr[n] => \A p \in Parents(n) :
            \/ dnr[p]
            \/ /\ job[p] \in Finished \/ (job[p] = NoJob /\ p \notin tmpl)
               /\ ~Opens(p, n, job, tmpl)

(* A workflow job with a final status has no job left to run or running:   *)
(* "Marking %s as canceled, all spawned jobs have concluded."              *)
FinishedMeansConcluded ==
    wf \in Finished => \A n \in Node : job[n] \notin Active

(* A workflow that ends successful or failed left no node undecided.       *)
DoneMeansDecided ==
    wf \in {"successful", "failed"} =>
        \A n \in Node : dnr[n] \/ job[n] # NoJob \/ n \notin tmpl

(* A workflow job that is started reaches a final status, however its      *)
(* jobs end, whether or not it is canceled.                                *)
WorkflowFinishes == wf \in Active ~> wf \in Finished

(* Once a pass has seen the cancel flag, the workflow spawns no new job:   *)
(* the pass marks every node without a job do_not_run.                     *)
NothingSpawnedWhenCanceled ==
    [][snap.flag => \A n \in Node : job[n] = NoJob => job'[n] = NoJob]_vars
=============================================================================
