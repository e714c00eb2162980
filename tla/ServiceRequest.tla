--------------------------- MODULE ServiceRequest ---------------------------
(***************************************************************************)
(* One request of the self-service portal: it is submitted for a catalog   *)
(* item, approved, rejected or deleted by users whose API requests run at  *)
(* the same time, and launches a job whose final status it mirrors.  An    *)
(* API request is one transaction (ATOMIC_REQUESTS): it loads the row,     *)
(* checks its status, and in the end saves without looking again.          *)
(***************************************************************************)
EXTENDS Naturals

CONSTANTS
    Users,              \* the users that decide about the request
    JobIds,             \* 1 .. n, the jobs that the request may launch
    MaxLostHooks        \* how often a process dies between a job's save and its post_save hook

VARIABLES
    request,            \* the row: present, status, job (0: none)
    jobStatus,          \* the launched jobs' statuses
    decision,           \* what each user's API request has checked and will save
    hook,               \* per job: how far the post_save receiver is
    lostHooks,          \* bound for MaxLostHooks, and history
    overlap             \* history: a decision was saved while another was being made

vars == <<request, jobStatus, decision, hook, lostHooks, overlap>>

Final == {"successful", "failed", "error", "canceled"}
TERMINAL_STATUSES == {"rejected", "successful", "failed", "canceled"}

\* sync_status_from_job's mapping of a job's status.
Mapping(s) == IF s = "error" THEN "failed" ELSE s

Init ==
    /\ request = [present |-> FALSE, status |-> "none", job |-> 0]
    /\ jobStatus = [j \in JobIds |-> "absent"]
    /\ decision = [u \in Users |-> "none"]
    /\ hook = [j \in JobIds |-> "idle"]
    /\ lostHooks = 0
    /\ overlap = FALSE

\* _launch: an item without a template fails the request; otherwise a job is created and linked, and
\* stays new if it cannot be started, which is only logged.
Launch ==
    \/ /\ request' = [request EXCEPT !.present = TRUE, !.status = "failed"]
       /\ UNCHANGED jobStatus
    \/ \E j \in JobIds, started \in BOOLEAN :
         /\ \A i \in JobIds : jobStatus[i] = "absent" <=> i >= j
         /\ request' = [present |-> TRUE, status |-> "running", job |-> j]
         /\ jobStatus' = [jobStatus EXCEPT ![j] = IF started THEN "pending" ELSE "new"]

Submit(requiresApproval) ==
    /\ request.status = "none"
    /\ IF requiresApproval
       THEN /\ request' = [request EXCEPT !.present = TRUE, !.status = "pending_approval"]
            /\ UNCHANGED jobStatus
       ELSE Launch
    /\ UNCHANGED <<decision, hook, lostHooks, overlap>>

FaultyBegin(u, kind) ==
    /\ decision[u] = "none"
    /\ request.present
    /\ kind = "delete" => request.status \in {"pending_approval", "rejected"}
    /\ decision' = [decision EXCEPT ![u] = kind]
    /\ UNCHANGED <<request, jobStatus, hook, lostHooks, overlap>>
\* A user's API request loads the row and finds that it may be decided or deleted.
Begin(u, kind) ==
    /\ decision[u] = "none"
    /\ request.present
    /\ request.status = "pending_approval" \/ (kind = "delete" /\ request.status = "rejected")
    /\ decision' = [decision EXCEPT ![u] = kind]
    /\ UNCHANGED <<request, jobStatus, hook, lostHooks, overlap>>

Others(u) == \E v \in Users \ {u} : decision[v] # "none"

\* The rest of the API request.  To save or delete a row that is gone changes nothing: the save fails and
\* the transaction is rolled back.
Decide(u) ==
    /\ decision[u] # "none"
    /\ decision' = [decision EXCEPT ![u] = "none"]
    /\ overlap' = (overlap \/ Others(u))
    /\ IF ~request.present THEN UNCHANGED <<request, jobStatus>>
       ELSE \/ decision[u] = "approve" /\ Launch
            \/ /\ decision[u] = "reject"
               /\ request' = [request EXCEPT !.status = "rejected"]
               /\ UNCHANGED jobStatus
            \/ /\ decision[u] = "delete"
               /\ request' = [request EXCEPT !.present = FALSE]
               /\ UNCHANGED jobStatus
    /\ UNCHANGED <<hook, lostHooks>>

JobRuns(j) ==
    /\ jobStatus[j] = "pending"
    /\ jobStatus' = [jobStatus EXCEPT ![j] = "running"]
    /\ UNCHANGED <<request, decision, hook, lostHooks, overlap>>

\* A job ends, or is canceled before it has begun; a new one can only be canceled.  Its save calls the hook.
JobEnds(j, s) ==
    /\ jobStatus[j] \in {"new", "pending", "running"}
    /\ jobStatus[j] # "running" => s = "canceled"
    /\ jobStatus' = [jobStatus EXCEPT ![j] = s]
    /\ hook' = [hook EXCEPT ![j] = "due"]
    /\ UNCHANGED <<request, decision, lostHooks, overlap>>

\* _service_request_sync_on_uj_save: find the job's request among those that are not final ...
HookQuery(j) ==
    /\ hook[j] = "due"
    /\ hook' = [hook EXCEPT ![j] =
           IF request.present /\ request.job = j /\ request.status \notin TERMINAL_STATUSES
           THEN "loaded" ELSE "idle"]
    /\ UNCHANGED <<request, jobStatus, decision, lostHooks, overlap>>

\* ... and save the job's status in it (sync_status_from_job); a failure is only logged.
HookSave(j) ==
    /\ hook[j] = "loaded"
    /\ hook' = [hook EXCEPT ![j] = "idle"]
    /\ request' = IF request.present THEN [request EXCEPT !.status = Mapping(jobStatus[j])] ELSE request
    /\ UNCHANGED <<jobStatus, decision, lostHooks, overlap>>

\* The process that saved the job dies before its hook has saved.
HookLost(j) ==
    /\ lostHooks < MaxLostHooks
    /\ hook[j] # "idle"
    /\ hook' = [hook EXCEPT ![j] = "idle"]
    /\ lostHooks' = lostHooks + 1
    /\ UNCHANGED <<request, jobStatus, decision, overlap>>

Progress ==
    \/ \E j \in JobIds : JobRuns(j) \/ HookQuery(j) \/ HookSave(j)
    \/ \E j \in JobIds, s \in Final : JobEnds(j, s)

Next ==
    \/ \E a \in BOOLEAN : Submit(a)
    \/ \E u \in Users, kind \in {"approve", "reject", "delete"} : Begin(u, kind)
    \/ \E u \in Users : Decide(u)
    \/ \E j \in JobIds : HookLost(j)
    \/ Progress

Spec == Init /\ [][Next]_vars

-----------------------------------------------------------------------------

TypeOK ==
    /\ request \in [present : BOOLEAN, job : JobIds \union {0},
                    status : TERMINAL_STATUSES \union {"none", "pending_approval", "running"}]
    /\ jobStatus \in [JobIds -> Final \union {"absent", "new", "pending", "running"}]
    /\ decision \in [Users -> {"none", "approve", "reject", "delete"}]
    /\ hook \in [JobIds -> {"idle", "due", "loaded"}]
    /\ lostHooks \in 0 .. MaxLostHooks
    /\ overlap \in BOOLEAN

\* Unless two users decided at the same time, a request launches one job at most, and none when it was
\* rejected or deleted: the saves of approve, reject and delete rely on the status read at their beginning.
DecidedOnce ==
    ~overlap =>
        /\ \A i, j \in JobIds : jobStatus[i] # "absent" /\ jobStatus[j] # "absent" => i = j
        /\ ~request.present \/ request.status = "rejected" => \A j \in JobIds : jobStatus[j] = "absent"

\* Once its job has ended and the job's hook is done, a request shows the outcome of the job it links,
\* unless a hook was lost or two users decided at the same time.
MirrorsItsJob ==
    \A j \in JobIds :
        /\ request.present
        /\ request.job = j
        /\ jobStatus[j] \in Final
        /\ hook[j] = "idle"
        /\ lostHooks = 0
        /\ ~overlap
        => request.status = (IF jobStatus[j] = "error" THEN "failed" ELSE jobStatus[j])

\* No request stays running for ever, unless its job could not be started, which _launch only logs, or its
\* hook was lost, or two users decided at the same time.
SettlesOrStuck ==
    request.status = "running" =>
        ~request.present \/ overlap \/ lostHooks > 0 \/ jobStatus[request.job] = "new"
=============================================================================
