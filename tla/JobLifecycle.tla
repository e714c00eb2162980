---------------------------- MODULE JobLifecycle ----------------------------
(***************************************************************************)
(* One job from pending to a final status, and every process that writes   *)
(* its row: the task manager that starts it, the dispatcher main process   *)
(* and the worker that run it, cancel requests, and the reapers.           *)
(*                                                                         *)
(* None of them locks the row between reading it and writing it.  A step   *)
(* of the model is one database statement or transaction, one signal, or   *)
(* one message, so that the model has every interleaving of them.  A task  *)
(* manager pass is one transaction: the row is read when it begins and     *)
(* written, with the NOTIFY of the message, when it commits.               *)
(*                                                                         *)
(* A start of the job has a number, its celery_task_id; 0 is no id.        *)
(***************************************************************************)
EXTENDS Naturals

CONSTANTS
    Cancelers,      \* the cancel requests that may arrive
    Faults,         \* the faults that may happen
    MaxFaults,      \* how many of them, at most
    MaxStarts       \* how often the task manager may start the job, at most

AllFaults == {"worker_death",       \* a worker process dies
              "dispatcher_crash",   \* the main process dies, its workers not
              "shutdown",           \* the main process is told to stop
              "partition",          \* a peer finds the instance lost
              "lost_message",       \* a NOTIFY while the bus reconnects
              "late_message",       \* a NOTIFY later than the grace period
              "quota"}              \* the container group's quota is exceeded

ASSUME FaultAssumption == Faults \subseteq AllFaults /\ MaxFaults \in Nat
ASSUME StartAssumption == MaxStarts \in Nat \ {0}

VARIABLES
    row,        \* the job's row: status, cancel_flag, start_args, ...
    tm,         \* the task manager pass and what it read
    msg,        \* the task message of the last start
    managed,    \* the ids in the managed_tasks of the dispatcher's workers
    w,          \* the worker
    main,       \* the dispatcher's main process
    reap,       \* how far each reaper is with this job
    hb,         \* what the heartbeat task was given when it was dispatched
    c,          \* the cancel requests
    runs,       \* how often the playbook was started
    asked,      \* a cancel request has set cancel_flag
    acked,      \* a cancel was acknowledged before the work was submitted
    faults      \* the number of faults so far

vars == <<row, tm, msg, managed, w, main, reap, hb, c, runs, asked, acked, faults>>

Final == {"successful", "failed", "error", "canceled"}
ActiveStates == {"pending", "waiting", "running"}
Ids == 0..MaxStarts
Reapers == {"main", "heartbeat", "peer"}
Holding == {"taken", "loaded", "marked", "stopped", "submitted", "executing", "ended"}

Row == [status : ActiveStates \cup Final, flag : BOOLEAN, secret : BOOLEAN,
        task : Ids, started : BOOLEAN]
Worker == [pc : {"idle", "gone"} \cup Holding, task : Ids, sig : BOOLEAN,
           flag : BOOLEAN, result : ActiveStates \cup Final, orphan : BOOLEAN]
Cancel == [pc : {"new", "loaded", "flagged", "unacked", "forced", "done"},
           flag : BOOLEAN, task : Ids]

TypeOK ==
    /\ row \in Row
    /\ tm \in [busy : BOOLEAN, flag : BOOLEAN, secret : BOOLEAN]
    /\ msg \in {"none", "bus", "queue", "lost"}
    /\ managed \subseteq Ids
    /\ w \in Worker
    /\ main \in {"up", "cleanup", "stopping", "joining", "down", "starting", "listening"}
    /\ reap \in [Reapers -> {"off", "chosen", "checked"}]
    /\ hb \in [on : BOOLEAN, excluded : SUBSET Ids, started : BOOLEAN, old : Ids]
    /\ c \in [Cancelers -> Cancel]
    /\ runs \in Nat
    /\ asked \in BOOLEAN
    /\ acked \in BOOLEAN
    /\ faults \in Nat

IdleTM == [busy |-> FALSE, flag |-> FALSE, secret |-> FALSE]
IdleHeartbeat == [on |-> FALSE, excluded |-> {}, started |-> FALSE, old |-> 0]
IdleWorker == [pc |-> "idle", task |-> 0, sig |-> FALSE, flag |-> FALSE,
               result |-> "error", orphan |-> FALSE]

(* The job after signal_start: pending, with its launch-time secrets. *)
Init ==
    /\ row = [status |-> "pending", flag |-> FALSE, secret |-> TRUE,
              task |-> 0, started |-> FALSE]
    /\ tm = IdleTM
    /\ msg = "none"
    /\ managed = {}
    /\ w = IdleWorker
    /\ main = "up"
    /\ reap = [r \in Reapers |-> "off"]
    /\ hb = IdleHeartbeat
    /\ c = [u \in Cancelers |-> [pc |-> "new", flag |-> FALSE, task |-> 0]]
    /\ runs = 0
    /\ asked = FALSE
    /\ acked = FALSE
    /\ faults = 0

Fault(f) ==
    /\ f \in Faults
    /\ faults < MaxFaults
    /\ faults' = faults + 1

-----------------------------------------------------------------------------
(***************************************************************************)
(* The task manager.  Its lock makes passes exclude each other.  start_task*)
(* and the pre-start failure save every column of the row as it was read.  *)
(***************************************************************************)
CanBegin == row.status = "pending"

TMRead ==
    /\ ~tm.busy
    /\ CanBegin
    /\ row.task < MaxStarts
    /\ tm' = [busy |-> TRUE, flag |-> row.flag, secret |-> row.secret]
    /\ UNCHANGED <<row, msg, managed, w, main, reap, hb, c, runs, asked, acked, faults>>

TMStart ==
    /\ tm.busy
    /\ row.task < MaxStarts
    /\ row' = [row EXCEPT !.status = "waiting", !.flag = tm.flag,
                          !.secret = tm.secret, !.task = @ + 1]
    /\ tm' = IdleTM
    /\ \/ /\ msg' = IF main \in {"joining", "down"} THEN "lost" ELSE "bus"
          /\ UNCHANGED faults
       \/ /\ Fault("lost_message")
          /\ msg' = "lost"
    /\ UNCHANGED <<managed, w, main, reap, hb, c, runs, asked, acked>>

TMFail ==
    /\ tm.busy
    /\ row' = [row EXCEPT !.status = "failed", !.flag = tm.flag, !.secret = tm.secret]
    /\ tm' = IdleTM
    /\ UNCHANGED <<msg, managed, w, main, reap, hb, c, runs, asked, acked, faults>>

(* process_job_dep_failures saves the status only. *)
TMDepFail ==
    /\ tm.busy
    /\ row' = [row EXCEPT !.status = "failed"]
    /\ tm' = IdleTM
    /\ UNCHANGED <<msg, managed, w, main, reap, hb, c, runs, asked, acked, faults>>

(* The pass does not get to the job (blocked, no capacity, the start limit *)
(* or the time limit is reached) or is rolled back.                        *)
TMLeave ==
    /\ tm.busy
    /\ tm' = IdleTM
    /\ UNCHANGED <<row, msg, managed, w, main, reap, hb, c, runs, asked, acked, faults>>

-----------------------------------------------------------------------------
(***************************************************************************)
(* The dispatcher's main process hands the message to a worker that has no *)
(* managed task.  One that is gone is still in the pool until the cleanup  *)
(* finds it, and counts as such; a fresh one may be picked instead.        *)
(***************************************************************************)
Deliver ==
    /\ main = "up"
    /\ msg = "bus"
    /\ msg' = "queue"
    /\ managed' = managed \cup {row.task}
    /\ \/ ~w.orphan /\ UNCHANGED w
       \/ w.pc = "gone" /\ w' = IdleWorker
    /\ UNCHANGED <<row, tm, main, reap, hb, c, runs, asked, acked, faults>>

FaultyWorkerTake ==             \* the message stays until the task is over
    /\ w.pc = "idle"
    /\ msg = "queue"
    /\ msg' = "bus"
    /\ w' = [w EXCEPT !.pc = "taken", !.task = row.task]
    /\ UNCHANGED <<row, tm, managed, main, reap, hb, c, runs, asked, acked, faults>>

WorkerTake ==
    /\ w.pc = "idle"
    /\ msg = "queue"
    /\ msg' = "none"
    /\ w' = [w EXCEPT !.pc = "taken", !.task = row.task]
    /\ UNCHANGED <<row, tm, managed, main, reap, hb, c, runs, asked, acked, faults>>

(* SIGTERM has its default action outside run() and kills the worker.      *)
(* Inside it only sets a flag; the handler is connected before the row is  *)
(* read, so that a worker which took a task may do either.                 *)
SignalWorker ==
    \/ /\ w.pc \in {"idle", "taken"}
       /\ w' = [w EXCEPT !.pc = "gone"]
    \/ /\ w.pc \in Holding
       /\ w' = [w EXCEPT !.sig = TRUE]
    \/ /\ w.pc = "gone"
       /\ UNCHANGED w

(* The worker after its task.  A signal that run() got does not end its    *)
(* loop: the default action is no handler that could be called afterwards. *)
Released == IF w.orphan
            THEN [IdleWorker EXCEPT !.pc = "gone", !.orphan = TRUE]
            ELSE IdleWorker

FaultyStartable == ~row.flag            \* starts what was reaped
Startable == row.status \in ActiveStates /\ ~row.flag

(* The first lines of run(): a job with cancel_flag is canceled here, and  *)
(* one that is not active is not started.                                  *)
WorkerLoad ==
    /\ w.pc = "taken"
    /\ \/ /\ Startable
          /\ w' = [w EXCEPT !.pc = "loaded"]
          /\ UNCHANGED <<row, managed>>
       \/ /\ ~Startable
          /\ row' = IF row.flag
                    THEN [row EXCEPT !.status = "canceled",
                            !.secret = IF row.status = "canceled" THEN @ ELSE FALSE]
                    ELSE row
          /\ w' = Released
          /\ managed' = managed \ {w.task}
    /\ UNCHANGED <<tm, msg, main, reap, hb, c, runs, asked, acked, faults>>

FaultyMarkKeepsSecret ==        \* does not blank start_args
    /\ w.pc = "loaded"
    /\ row' = [row EXCEPT !.status = "running", !.started = TRUE]
    /\ w' = [w EXCEPT !.pc = "marked", !.flag = row.flag]
    /\ UNCHANGED <<tm, msg, managed, main, reap, hb, c, runs, asked, acked, faults>>

WorkerMarkRunning ==
    /\ w.pc = "loaded"
    /\ row' = [row EXCEPT !.status = "running", !.secret = FALSE, !.started = TRUE]
    /\ w' = [w EXCEPT !.pc = "marked", !.flag = row.flag]
    /\ UNCHANGED <<tm, msg, managed, main, reap, hb, c, runs, asked, acked, faults>>

FaultyPreCheckBlind ==          \* does not look at the signal
    /\ w.pc = "marked"
    /\ w' = [w EXCEPT !.pc = "submitted", !.sig = FALSE]
    /\ UNCHANGED <<row, tm, msg, managed, main, reap, hb, c, runs, asked, acked, faults>>

(* The job's files are prepared.  An exception makes the result error; some*)
(* write a status before they are raised: failed for a project that failed *)
(* or a missing inventory, error for a missing execution environment.      *)
(* After that cancel_flag, or any signal, makes the job canceled, and the  *)
(* row is read once more.  The copy of the flag was read with the status   *)
(* running; a sync of the project has read the whole row again.            *)
WorkerPreCheck ==
    /\ w.pc = "marked"
    /\ \/ /\ w.flag \/ w.sig \/ row.flag
          /\ row' = [row EXCEPT !.status = "canceled"]
          /\ w' = [w EXCEPT !.pc = "stopped"]
       \/ /\ row.status # "running" /\ ~(row.flag \/ w.sig)
          /\ w' = [w EXCEPT !.pc = "stopped"]
          /\ UNCHANGED row
       \/ /\ ~(w.flag \/ w.sig)
          /\ w' = [w EXCEPT !.pc = "submitted"]
          /\ UNCHANGED row
       \/ /\ \E s \in {row.status, "failed", "error"} : row' = [row EXCEPT !.status = s]
          /\ w' = [w EXCEPT !.pc = "ended", !.result = "error"]
    /\ UNCHANGED <<tm, msg, managed, main, reap, hb, c, runs, asked, acked, faults>>

WorkerStopped ==
    /\ w.pc = "stopped"
    /\ w' = [w EXCEPT !.pc = "ended", !.result = row.status]
    /\ UNCHANGED <<row, tm, msg, managed, main, reap, hb, c, runs, asked, acked, faults>>

(* No pod could be started: back to pending, whatever the status is now.   *)
(* run() returns; the id stays managed until the main process notices.     *)
WorkerQuota ==
    /\ w.pc = "submitted"
    /\ ~w.sig
    /\ row.task < MaxStarts
    /\ Fault("quota")
    /\ row' = [row EXCEPT !.status = "pending"]
    /\ w' = Released
    /\ UNCHANGED <<tm, msg, managed, main, reap, hb, c, runs, asked, acked>>

WorkerPlay ==
    /\ w.pc = "submitted"
    /\ w' = [w EXCEPT !.pc = "executing"]
    /\ runs' = runs + 1
    /\ UNCHANGED <<row, tm, msg, managed, main, reap, hb, c, asked, acked, faults>>

(* What run() makes of the runner's status: a cancellation without         *)
(* cancel_flag is a failure.                                               *)
FaultyInterpret == "canceled"           \* does not look at cancel_flag
FaultyRawStatus == "timeout"            \* a status that jobs do not have
Interpret == IF row.flag THEN "canceled" ELSE "failed"

WorkerEnd ==
    /\ w.pc = "executing"
    /\ \E s \in {Interpret} \cup IF w.sig THEN {} ELSE {"successful", "failed", "error"} :
          w' = [w EXCEPT !.pc = "ended", !.result = s]
    /\ UNCHANGED <<row, tm, msg, managed, main, reap, hb, c, runs, asked, acked, faults>>

WorkerFinal ==
    /\ w.pc = "ended"
    /\ row' = [row EXCEPT !.status = w.result]
    /\ w' = Released
    /\ managed' = managed \ {w.task}
    /\ UNCHANGED <<tm, msg, main, reap, hb, c, runs, asked, acked, faults>>

(* The main process sees that a task returned without a final status. *)
Forget ==
    /\ \E t \in managed :
          /\ t # w.task
          /\ msg = "queue" => t # row.task
          /\ managed' = managed \ {t}
    /\ main = "up"
    /\ UNCHANGED <<row, tm, msg, w, main, reap, hb, c, runs, asked, acked, faults>>

-----------------------------------------------------------------------------
(***************************************************************************)
(* A cancel request.  It works on the row as it was when it was loaded,    *)
(* its writes are not conditional on the row, and it has no transaction.   *)
(***************************************************************************)
CancelLoad(u) ==
    /\ c[u].pc = "new"
    /\ row.status \in ActiveStates
    /\ c' = [c EXCEPT ![u] = [pc |-> "loaded", flag |-> row.flag, task |-> row.task]]
    /\ UNCHANGED <<row, tm, msg, managed, w, main, reap, hb, runs, asked, acked, faults>>

CancelFlag(u) ==
    /\ c[u].pc = "loaded"
    /\ row' = IF c[u].flag THEN row ELSE [row EXCEPT !.flag = TRUE, !.secret = FALSE]
    /\ asked' = TRUE
    /\ c' = [c EXCEPT ![u].pc = "flagged"]
    /\ UNCHANGED <<tm, msg, managed, w, main, reap, hb, runs, acked, faults>>

(* The control message cancel: SIGTERM to the worker whose first managed   *)
(* task it is, also when the worker has not taken it yet or has just       *)
(* returned from it.                                                       *)
CancelSignal(t) ==
    IF ~w.orphan /\ (w.task = t \/ w.pc = "idle") THEN SignalWorker ELSE UNCHANGED w

CancelAsk(u) ==
    /\ c[u].pc = "flagged"
    /\ \/ /\ c[u].task # 0
          /\ main = "up"
          /\ c[u].task \in managed
          /\ CancelSignal(c[u].task)
          /\ c' = [c EXCEPT ![u].pc = "done"]
          /\ acked' = (acked \/ (runs = 0 /\ w.pc # "submitted"))
       \/ /\ c[u].task = 0 \/ main # "up" \/ c[u].task \notin managed
          /\ c' = [c EXCEPT ![u].pc = "unacked"]
          /\ UNCHANGED <<w, acked>>
    /\ UNCHANGED <<row, tm, msg, managed, main, reap, hb, runs, asked, faults>>

CancelForce(u) ==
    /\ c[u].pc = "unacked"
    /\ row' = [row EXCEPT !.status = "canceled"]
    /\ c' = [c EXCEPT ![u].pc = "forced"]
    /\ UNCHANGED <<tm, msg, managed, w, main, reap, hb, runs, asked, acked, faults>>

(* fallback_cancel, with the celery_task_id read again if there was none. *)
CancelFallback(u) ==
    /\ c[u].pc = "forced"
    /\ LET t == IF c[u].task = 0 THEN row.task ELSE c[u].task
       IN  IF main = "up" /\ t \in managed THEN CancelSignal(t) ELSE UNCHANGED w
    /\ c' = [c EXCEPT ![u].pc = "done"]
    /\ UNCHANGED <<row, tm, msg, managed, main, reap, hb, runs, asked, acked, faults>>

-----------------------------------------------------------------------------
(***************************************************************************)
(* The reapers.  Each chooses the job by a query, reads its status again,  *)
(* and saves it as failed.                                                 *)
(***************************************************************************)
ReapCheck(r) ==
    /\ reap[r] = "chosen"
    /\ reap' = [reap EXCEPT ![r] = IF row.status \in {"running", "waiting"}
                                   THEN "checked" ELSE "off"]
    /\ UNCHANGED <<row, tm, msg, managed, w, main, hb, c, runs, asked, acked, faults>>

ReapSave(r) ==
    /\ reap[r] = "checked"
    /\ row' = [row EXCEPT !.status = "failed", !.secret = FALSE]
    /\ reap' = [reap EXCEPT ![r] = "off"]
    /\ UNCHANGED <<tm, msg, managed, w, main, hb, c, runs, asked, acked, faults>>

Choice(cond) == IF cond THEN "chosen" ELSE "off"

(* The heartbeat task is given the managed ids and the time of its         *)
(* dispatch.  A job is old when it has waited longer than the grace period *)
(* without being managed: its message is lost, or very late.  While some   *)
(* worker of the pool has more than one task no waiting job is reaped.     *)
HeartbeatDispatch(crowded) ==
    /\ main = "up"
    /\ ~hb.on
    /\ reap["heartbeat"] = "off"
    /\ row.task # 0
    /\ LET old == /\ ~crowded
                  /\ row.status = "waiting"
                  /\ row.task \notin managed
                  /\ msg = "lost" \/ "late_message" \in Faults
       IN  hb' = [on |-> TRUE, excluded |-> managed, started |-> row.started,
                  old |-> IF old THEN row.task ELSE 0]
    /\ UNCHANGED <<row, tm, msg, managed, w, main, reap, c, runs, asked, acked, faults>>

FaultyEligible ==               \* without the reference time
    \/ row.status = "running" /\ row.task \notin hb.excluded
    \/ row.status = "waiting" /\ row.task = hb.old

FaultyNeverWaiting ==           \* without reap_waiting
    row.status = "running" /\ hb.started /\ row.task \notin hb.excluded

Eligible ==
    \/ row.status = "running" /\ hb.started /\ row.task \notin hb.excluded
    \/ row.status = "waiting" /\ row.task = hb.old

HeartbeatSelect ==
    /\ hb.on
    /\ hb' = IdleHeartbeat
    /\ reap' = [reap EXCEPT !["heartbeat"] = Choice(Eligible)]
    /\ UNCHANGED <<row, tm, msg, managed, w, main, c, runs, asked, acked, faults>>

(* A peer that finds the instance lost excludes nothing. *)
PeerSelect ==
    /\ Fault("partition")
    /\ reap["peer"] = "off"
    /\ reap' = [reap EXCEPT !["peer"] = Choice(row.status \in {"running", "waiting"})]
    /\ UNCHANGED <<row, tm, msg, managed, w, main, hb, c, runs, asked, acked>>

(* pool.cleanup: the job of a worker that is gone is reaped; messages that *)
(* it did not take are given to another worker.                            *)
Cleanup ==
    /\ main = "up"
    /\ w.pc = "gone"
    /\ ~w.orphan
    /\ main' = "cleanup"
    /\ reap' = [reap EXCEPT !["main"] =
                    Choice(row.task \in managed /\ (w.task = row.task \/ msg = "queue"))]
    /\ UNCHANGED <<row, tm, msg, managed, w, hb, c, runs, asked, acked, faults>>

CleanupEnd ==
    /\ main = "cleanup"
    /\ reap["main"] = "off"
    /\ main' = "up"
    /\ w' = IdleWorker
    /\ managed' = managed \ {w.task}
    /\ UNCHANGED <<row, tm, msg, reap, hb, c, runs, asked, acked, faults>>

WorkerDie ==
    /\ Fault("worker_death")
    /\ w.pc # "gone"
    /\ w' = [w EXCEPT !.pc = "gone"]
    /\ UNCHANGED <<row, tm, msg, managed, main, reap, hb, c, runs, asked, acked>>

(* The main process is killed.  A worker goes on with its task and then    *)
(* notices that its parent is gone; messages in pipes and buses are lost.  *)
Crash ==
    /\ Fault("dispatcher_crash")
    /\ main # "down"
    /\ main' = "down"
    /\ managed' = {}
    /\ msg' = IF msg = "none" THEN "none" ELSE "lost"
    /\ w' = IF w.pc \in Holding THEN [w EXCEPT !.orphan = TRUE]
            ELSE [IdleWorker EXCEPT !.pc = "gone"]
    /\ reap' = [reap EXCEPT !["main"] = "off"]
    /\ UNCHANGED <<row, tm, hb, c, runs, asked, acked>>

(* dispatch_startup, already listening: reap what is running, then what is *)
(* waiting, with no grace period.                                          *)
Restart ==
    /\ main = "down"
    /\ main' = "starting"
    /\ reap' = [reap EXCEPT !["main"] = Choice(row.status = "running")]
    /\ UNCHANGED <<row, tm, msg, managed, w, hb, c, runs, asked, acked, faults>>

RestartWaiting ==
    /\ main = "starting"
    /\ reap["main"] = "off"
    /\ main' = "listening"
    /\ reap' = [reap EXCEPT !["main"] = Choice(row.status = "waiting")]
    /\ UNCHANGED <<row, tm, msg, managed, w, hb, c, runs, asked, acked, faults>>

RestartEnd ==
    /\ main = "listening"
    /\ reap["main"] = "off"
    /\ main' = "up"
    /\ w' = IF w.orphan /\ w.pc \in Holding THEN w ELSE IdleWorker
    /\ UNCHANGED <<row, tm, msg, managed, reap, hb, c, runs, asked, acked, faults>>

(* A normal shutdown: reap what is waiting, then SIGTERM to the workers,   *)
(* then wait for them.  One that was in run() stays in its loop, and the   *)
(* supervisor kills it with the main process when its patience ends.       *)
Shutdown ==
    /\ Fault("shutdown")
    /\ main = "up"
    /\ main' = "stopping"
    /\ reap' = [reap EXCEPT !["main"] = Choice(row.status = "waiting")]
    /\ UNCHANGED <<row, tm, msg, managed, w, hb, c, runs, asked, acked>>

ShutdownSignal ==
    /\ main = "stopping"
    /\ reap["main"] = "off"
    /\ main' = "joining"
    /\ IF w.orphan THEN UNCHANGED w ELSE SignalWorker
    /\ UNCHANGED <<row, tm, msg, managed, reap, hb, c, runs, asked, acked, faults>>

ShutdownEnd ==
    /\ main = "joining"
    /\ main' = "down"
    /\ managed' = {}
    /\ msg' = IF msg = "none" THEN "none" ELSE "lost"
    /\ w' = IF w.orphan THEN w ELSE [w EXCEPT !.pc = "gone"]
    /\ UNCHANGED <<row, tm, reap, hb, c, runs, asked, acked, faults>>

-----------------------------------------------------------------------------
AtRest ==       \* settled, and every process is done with the job
    /\ row.status \in Final
    /\ ~tm.busy
    /\ \A u \in Cancelers : c[u].pc \in {"new", "done"}
    /\ \A r \in Reapers : reap[r] = "off"
    /\ UNCHANGED vars

TMNext == TMRead \/ TMStart \/ TMFail \/ TMDepFail \/ TMLeave
WorkerNext ==
    \/ WorkerTake \/ WorkerLoad \/ WorkerMarkRunning \/ WorkerPreCheck
    \/ WorkerStopped \/ WorkerQuota \/ WorkerPlay \/ WorkerEnd \/ WorkerFinal
CancelNext(u) ==
    \/ CancelLoad(u) \/ CancelFlag(u) \/ CancelAsk(u)
    \/ CancelForce(u) \/ CancelFallback(u)
MainNext ==
    \/ Deliver \/ Forget \/ Cleanup \/ CleanupEnd
    \/ Crash \/ Restart \/ RestartWaiting \/ RestartEnd
    \/ Shutdown \/ ShutdownSignal \/ ShutdownEnd
ReapNext ==
    \/ \E crowded \in BOOLEAN : HeartbeatDispatch(crowded)
    \/ HeartbeatSelect \/ PeerSelect
    \/ \E r \in Reapers : ReapCheck(r) \/ ReapSave(r)

Next ==
    \/ TMNext \/ WorkerNext \/ WorkerDie \/ MainNext \/ ReapNext
    \/ \E u \in Cancelers : CancelNext(u)
    \/ AtRest

Spec == Init /\ [][Next]_vars

(* The task manager and the heartbeat are scheduled periodically, the      *)
(* supervisor restarts the dispatcher, processes that live make progress,  *)
(* playbooks end, a pass does not leave a startable job for ever, and the  *)
(* pool is not crowded at every heartbeat.                                 *)
Fairness ==
    /\ WF_vars(TMRead)
    /\ SF_vars(TMStart \/ TMFail)
    /\ WF_vars(WorkerNext)
    /\ WF_vars(Deliver)
    /\ WF_vars(Cleanup)
    /\ WF_vars(CleanupEnd \/ Restart \/ RestartWaiting \/ RestartEnd)
    /\ WF_vars(ShutdownSignal \/ ShutdownEnd)
    /\ SF_vars(HeartbeatDispatch(FALSE))
    /\ WF_vars(HeartbeatSelect)
    /\ \A r \in Reapers : WF_vars(ReapCheck(r) \/ ReapSave(r))
    /\ \A u \in Cancelers : WF_vars(CancelFlag(u) \/ CancelAsk(u) \/ CancelForce(u) \/ CancelFallback(u))

FairSpec == Spec /\ Fairness

-----------------------------------------------------------------------------
(* The playbook of a job is started at most once: neither a second message *)
(* nor a requeued one, a retry after an exceeded quota, a reaper or a      *)
(* restart makes it run again.                                             *)
RunOnce == runs <= 1

(* Whatever the task manager wrote back, the launch-time passwords are out *)
(* of the row from the moment the playbook is started (run() blanks        *)
(* start_args with the status running).                                    *)
PlaysWithoutSecrets == runs > 0 => ~row.secret

(* A shutdown that stops a playbook does not make its job canceled: from   *)
(* the start of the playbook on a job becomes canceled only if somebody    *)
(* asked.  run() gets the same signal for both, and looks at cancel_flag.  *)
(* (Before that, in the preparation, it does not look: a shutdown cancels.)*)
CanceledWasAsked == row.status = "canceled" /\ runs > 0 => asked

(* A cancel that the dispatcher acknowledged before the work was submitted *)
(* keeps the playbook from starting, wherever between the pool's queue and *)
(* the last check of run() the signal found the worker.                    *)
AckedNeverPlays == acked => runs = 0

(* A step in which reaper r fails the job. *)
Reaps(r) == reap[r] = "checked" /\ reap'[r] = "off" /\ row' # row

(* The local reapers (heartbeat, cleanup) fail only jobs that no process   *)
(* is working on: "was not present in the job queue".                      *)
NoFalseReap ==
    [][\A r \in Reapers : Reaps(r) => w.pc \notin Holding]_vars

(* "Avoid race condition where we have stale model from pending state but  *)
(* job has already started": a cancel request that loaded a pending job    *)
(* and has returned keeps the playbook from starting, or has at least sent *)
(* the signal that stops it.                                               *)
StaleCancelStillCancels ==
    [][runs' > runs /\ ~w.sig => \A u \in Cancelers : ~(c[u].pc = "done" /\ c[u].task = 0)]_vars

(* The status of the row implements the documented state machine: without  *)
(* cancel requests, and with workers that may die, messages that may be    *)
(* lost and reapers that fail what they left behind, every change of the   *)
(* status is one of its arrows, or run() correcting what its preparation   *)
(* wrote.                                                                  *)
Documented == INSTANCE JobStatus WITH status <- row.status, inRun <- w.pc = "ended"
ImplementsJobStatus == Documented!Spec

(* A pending job reaches a final status and keeps it. *)
Settles == <>[](row.status \in Final)
=============================================================================
