-------------------------- MODULE WorkflowApproval --------------------------
(***************************************************************************)
(* An approval node of a running workflow.  Users approve or deny it by    *)
(* API requests, a task manager pass times it out, and the workflow        *)
(* manager cancels it: each of them loads the row while it is pending and  *)
(* saves later, without looking again.  The workflow goes on along the     *)
(* success or the failure branch, as soon as a pass finds the approval     *)
(* decided.                                                                *)
(***************************************************************************)
EXTENDS Naturals

CONSTANTS
    Approvers,          \* users
    Nobody              \* the approver of an undecided approval

ASSUME ActorsAssumption ==
    /\ Nobody \notin Approvers
    /\ "task_manager" \notin Approvers
    /\ "workflow_manager" \notin Approvers

VARIABLES
    approval,           \* the row: status, timed_out, approved_or_denied_by
    expired,            \* the row's expires is in the past
    loaded,             \* who has loaded the row as pending, and for what
    branch,             \* of the node's success child and failure child: open, run or do_not_run
    clash               \* history: the row was saved by one who was not alone with it

vars == <<approval, expired, loaded, branch, clash>>

Actors == Approvers \union {"task_manager", "workflow_manager"}

Init ==
    /\ approval = [status |-> "pending", timed_out |-> FALSE, approved_or_denied_by |-> Nobody]
    /\ expired = FALSE
    /\ loaded = [a \in Actors |-> "no"]
    /\ branch = [success |-> "open", failure |-> "open"]
    /\ clash = FALSE

\* now() comes to expires; an approval without a timeout never does.
Expire ==
    /\ ~expired
    /\ expired' = TRUE
    /\ UNCHANGED <<approval, loaded, branch, clash>>

Load(a, intent) ==
    /\ loaded[a] = "no"
    /\ approval.status = "pending"
    /\ loaded' = [loaded EXCEPT ![a] = intent]
    /\ UNCHANGED <<approval, expired, branch, clash>>

\* WorkflowApprovalApprove.post and WorkflowApprovalDeny.post answer an error unless the row is pending.
LoadRequest(u) == Load(u, "approve") \/ Load(u, "deny")

\* get_expired_workflow_approvals
LoadExpired == expired /\ Load("task_manager", "time_out")

\* cancel_node_jobs in a pass over a canceled workflow
LoadToCancel == Load("workflow_manager", "cancel")

Saved(a) ==
    /\ loaded' = [loaded EXCEPT ![a] = "no"]
    /\ clash' = (clash \/ \E b \in Actors \ {a} : loaded[b] # "no")
    /\ UNCHANGED <<expired, branch>>

\* approve and deny save the whole row, whose timed_out was false when it was loaded.
Decide(u) ==
    /\ u \in Approvers /\ loaded[u] # "no"
    /\ approval' = [status |-> IF loaded[u] = "approve" THEN "successful" ELSE "failed",
                    timed_out |-> FALSE, approved_or_denied_by |-> u]
    /\ Saved(u)

\* timeout_approval_node
TimeOut ==
    /\ loaded["task_manager"] = "time_out"
    /\ approval' = [approval EXCEPT !.status = "failed", !.timed_out = TRUE]
    /\ Saved("task_manager")

\* The pass has run too long and leaves the approvals to the next one, or is rolled back.
PassLeaves ==
    /\ loaded["task_manager"] = "time_out"
    /\ loaded' = [loaded EXCEPT !["task_manager"] = "no"]
    /\ UNCHANGED <<approval, expired, branch, clash>>

\* UnifiedJob.cancel: an approval has no process, its status is canceled at once.
Cancel ==
    /\ loaded["workflow_manager"] = "cancel"
    /\ approval' = [approval EXCEPT !.status = "canceled"]
    /\ Saved("workflow_manager")

FaultyFollow ==
    /\ loaded["workflow_manager"] = "no"
    /\ approval.status # "pending"
    /\ LET way == IF approval.status = "successful" THEN "success" ELSE "failure"
       IN  branch' = [branch EXCEPT ![way] = IF @ = "open" THEN "run" ELSE @]
    /\ UNCHANGED <<approval, expired, loaded, clash>>
\* A pass over the workflow that finds the approval decided marks the child on the other branch and
\* spawns the one on this branch; a child that is marked or has a job is left alone.  The pass that cancels
\* the approval may still go on along the failure branch.
Follow ==
    /\ loaded["workflow_manager"] = "no"
    /\ approval.status # "pending"
    /\ LET way == IF approval.status = "successful" THEN "success" ELSE "failure"
       IN  branch' = [b \in {"success", "failure"} |->
               IF branch[b] # "open" THEN branch[b] ELSE IF b = way THEN "run" ELSE "do_not_run"]
    /\ UNCHANGED <<approval, expired, loaded, clash>>

Next ==
    \/ Expire
    \/ \E u \in Approvers : LoadRequest(u) \/ Decide(u)
    \/ LoadExpired \/ TimeOut \/ PassLeaves
    \/ LoadToCancel \/ Cancel
    \/ Follow

Spec == Init /\ [][Next]_vars

-----------------------------------------------------------------------------

TypeOK ==
    /\ approval \in [status : {"pending", "successful", "failed", "canceled"}, timed_out : BOOLEAN,
                     approved_or_denied_by : Approvers \union {Nobody}]
    /\ expired \in BOOLEAN
    /\ loaded \in [Actors -> {"no", "approve", "deny", "time_out", "cancel"}]
    /\ branch \in [{"success", "failure"} -> {"open", "run", "do_not_run"}]
    /\ clash \in BOOLEAN

\* Whoever saves last, an approval that counts as approved is not recorded as timed out, and it names the
\* user who approved it.
ApprovedMeansApproved ==
    approval.status = "successful" => ~approval.timed_out /\ approval.approved_or_denied_by # Nobody

\* Even when a decision is overwritten after the workflow has gone on, the workflow never runs both the
\* success and the failure branch: the child that is not run is marked for good.
OneBranch == ~(branch.success = "run" /\ branch.failure = "run")

\* Unless two of them had the row at the same time, the branch that runs is the one the row shows.
BranchMatchesRow ==
    ~clash =>
        /\ branch.success = "run" => approval.status = "successful"
        /\ branch.failure = "run" => approval.status \in {"failed", "canceled"}

\* A decided approval stays in line with what the workflow did after it: the three above, together.
ApprovalHolds == ApprovedMeansApproved /\ OneBranch /\ BranchMatchesRow

\* An approval that has expired does not stay pending.
ExpiredIsDecided == ~(expired /\ approval.status = "pending")
=============================================================================
