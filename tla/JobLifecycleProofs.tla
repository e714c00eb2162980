------------------------- MODULE JobLifecycleProofs -------------------------
(* Theorems about JobLifecycle, for any cancel requests, faults and bounds.*)
EXTENDS JobLifecycle, TLAPS

(* Where the right to start the playbook is: with a pending row or a task  *)
(* manager pass, with a message, or with a worker that has not used it.    *)
(* It is never in two of these places, and nowhere once it has been used.  *)
StartToken ==
    /\ row.status = "pending" \/ tm.busy =>
          msg = "none" /\ w.pc \notin Holding /\ runs = 0
    /\ msg # "none" => w.pc \notin Holding
    /\ msg \in {"bus", "queue"} => runs = 0
    /\ w.pc \in {"taken", "loaded", "marked", "stopped", "submitted"} => runs = 0
    /\ w.pc = "ended" => w.result # "pending"
    /\ runs <= 1

(* A worker that has marked the job running has blanked start_args, and    *)
(* only a task manager pass could bring the secrets back.                  *)
SecretInv ==
    /\ w.pc \in {"marked", "submitted"} => ~row.secret
    /\ runs > 0 => ~row.secret

IInv == TypeOK /\ StartToken /\ SecretInv

(***************************************************************************)
(* What holds besides when nothing is canceled and no fault but the death  *)
(* of workers and the loss of messages happens.                            *)
(***************************************************************************)
OnlyLosses == Cancelers = {} /\ Faults \subseteq {"worker_death", "lost_message"}

(* No flag, signal, crash or lost instance: main is up or cleaning up. *)
Quiet ==
    /\ ~row.flag /\ ~tm.flag
    /\ ~w.flag /\ ~w.sig /\ ~w.orphan
    /\ main \in {"up", "cleanup"}
    /\ reap["peer"] = "off"

(* Before the first start nobody has anything of the job. *)
Unstarted ==
    /\ tm.busy => row.status = "pending"
    /\ row.status = "pending" =>
          /\ row.task = 0 /\ managed = {} /\ ~row.started /\ w.task = 0
          /\ ~hb.on /\ reap["main"] = "off" /\ reap["heartbeat"] = "off"

(* The worker, and what the status is at each place of its task; one that  *)
(* died keeps the task until the cleanup is done with it.  A preparation   *)
(* that failed may have written a final status before the run ends.        *)
WorkerInv ==
    /\ w.pc = "idle" => w.task = 0
    /\ w.pc \in Holding => w.task # 0
    /\ w.task # 0 => /\ w.task = row.task /\ managed = {row.task} /\ msg = "none"
                     /\ row.status \in {"waiting", "running", "failed", "error"}
    /\ w.pc = "taken" => row.status \in {"waiting", "failed"}
    /\ w.pc = "loaded" => row.status = "waiting"
    /\ w.pc \in {"marked", "submitted", "executing"} => row.status = "running"
    /\ w.pc = "ended" =>
          /\ w.result \in Final
          /\ row.status = "running" \/ (row.status \in {"failed", "error"} /\ w.result = "error")
    /\ w.pc # "stopped"

(* The message, and the ids that the main process manages. *)
MessageInv ==
    /\ row.status = "waiting" => row.task # 0
    /\ msg = "bus" => /\ row.task # 0 /\ managed = {}
                      /\ row.status \in {"waiting", "failed"}
    /\ msg = "queue" => /\ row.task # 0 /\ managed = {row.task}
                        /\ row.status \in {"waiting", "failed"}
    /\ msg = "lost" => /\ row.task # 0 /\ managed = {} /\ w.task = 0
                       /\ row.status \in {"waiting", "failed"}
    /\ managed # {} => w.task # 0 \/ msg = "queue"
    /\ row.started => \/ row.status \in Final
                      \/ row.status = "running" /\ w.task # 0
    /\ row.status = "running" => row.started

(* A reaper that has chosen the job works for a worker that is gone, or    *)
(* for a message that is lost.                                             *)
ReaperInv ==
    /\ main = "cleanup" => w.pc = "gone"
    /\ reap["main"] # "off" => /\ main = "cleanup"
                               /\ row.status \in {"waiting", "running", "failed", "error"}
    /\ reap["main"] = "checked" => row.status # "error"
    /\ main = "cleanup" /\ reap["main"] = "off" /\ w.task # 0 => row.status \in Final
    /\ hb.on => /\ hb.old # 0 => msg = "lost"
                /\ hb.started => row.status \in Final \/ row.task \in hb.excluded
    /\ reap["heartbeat"] # "off" => msg = "lost"

LossInv == Quiet /\ Unstarted /\ WorkerInv /\ MessageInv /\ ReaperInv

-----------------------------------------------------------------------------
(* A worker that is idle, or that has been released, holds no job. *)
LEMMA IdleIsFree ==
    /\ IdleWorker \in Worker
    /\ IdleWorker.pc = "idle"
    /\ IdleWorker.task = 0
    /\ [IdleWorker EXCEPT !.pc = "gone"] \in Worker
    /\ [IdleWorker EXCEPT !.pc = "gone"].pc = "gone"
<1>1. 0 \in Ids
  BY StartAssumption DEF Ids
<1>2. IdleWorker \in Worker
  BY <1>1 DEF IdleWorker, Worker, Final
<1>3. [IdleWorker EXCEPT !.pc = "gone"] \in Worker
  BY <1>2 DEF Worker
<1> QED
  BY <1>2, <1>3 DEF IdleWorker

LEMMA ReleasedIsFree ==
    Released \in Worker /\ Released.pc \in {"idle", "gone"} /\ Released.task = 0
<1>1. [IdleWorker EXCEPT !.pc = "gone", !.orphan = TRUE] \in Worker
  BY IdleIsFree DEF Worker
<1>2. /\ [IdleWorker EXCEPT !.pc = "gone", !.orphan = TRUE].pc = "gone"
      /\ [IdleWorker EXCEPT !.pc = "gone", !.orphan = TRUE].task = 0
  BY DEF IdleWorker
<1> QED
  BY <1>1, <1>2, IdleIsFree DEF Released

(* A signal leaves the worker where it is, or kills it outside run(); in   *)
(* run() the worker finds it.                                              *)
LEMMA SignalFields ==
    ASSUME TypeOK, SignalWorker \/ UNCHANGED w
    PROVE  /\ w' \in Worker
           /\ w'.pc = w.pc \/ (w'.pc = "gone" /\ w.pc \in {"idle", "taken"})
           /\ w'.task = w.task /\ w'.flag = w.flag
           /\ w'.result = w.result /\ w'.orphan = w.orphan
           /\ SignalWorker /\ w.pc \in {"loaded", "marked"} => w'.sig
           /\ w.sig => w'.sig
  BY DEF SignalWorker, TypeOK, Worker, Holding

LEMMA CancelSignals ==
    ASSUME NEW t, CancelSignal(t)
    PROVE  /\ SignalWorker \/ UNCHANGED w
           /\ ~w.orphan /\ w.task = t => SignalWorker
  BY DEF CancelSignal

(* Every row, message and process stays in its type. *)
LEMMA TypeInit == Init => TypeOK
<1> SUFFICES ASSUME Init PROVE TypeOK
  OBVIOUS
<1>1. 0 \in Ids
  BY StartAssumption DEF Ids
<1>2. row \in Row
  BY <1>1 DEF Init, Row, ActiveStates
<1>3. c \in [Cancelers -> Cancel]
  BY <1>1 DEF Init, Cancel
<1>4. hb \in [on : BOOLEAN, excluded : SUBSET Ids, started : BOOLEAN, old : Ids]
  BY <1>1 DEF Init, IdleHeartbeat
<1>5. tm \in [busy : BOOLEAN, flag : BOOLEAN, secret : BOOLEAN]
  BY DEF Init, IdleTM
<1>6. reap \in [Reapers -> {"off", "chosen", "checked"}]
  BY DEF Init
<1> QED
  BY <1>1, <1>2, <1>3, <1>4, <1>5, <1>6, IdleIsFree DEF Init, TypeOK

(* Every step of every process keeps the types. *)
LEMMA TypeStep == TypeOK /\ [Next]_vars => TypeOK'
<1> SUFFICES ASSUME TypeOK, [Next]_vars PROVE TypeOK'
  OBVIOUS
<1>1. CASE TMRead
  BY <1>1 DEF TMRead, CanBegin, TypeOK, Row, Ids, Reapers, Holding,
     ActiveStates, Final
<1>2. CASE TMStart
  <2>1. row.task + 1 \in Ids
    BY <1>2, StartAssumption DEF TMStart, TypeOK, Row, Ids
  <2>2. row' \in Row
    BY <1>2, <2>1 DEF TMStart, TypeOK, Row, ActiveStates
  <2> QED
    BY <1>2, <2>2 DEF TMStart, TypeOK, Fault, IdleTM
<1>3. CASE TMFail
  BY <1>3 DEF TMFail, IdleTM, TypeOK, Row, Ids, Reapers, Holding, ActiveStates,
     Final
<1>4. CASE TMDepFail
  BY <1>4 DEF TMDepFail, IdleTM, TypeOK, Row, Ids, Reapers, Holding,
     ActiveStates, Final
<1>5. CASE TMLeave
  BY <1>5 DEF TMLeave, IdleTM, TypeOK, Ids, Reapers, Holding, ActiveStates,
     Final
<1>6. CASE WorkerTake
  <2>1. w' \in Worker
    BY <1>6 DEF WorkerTake, TypeOK, Worker, Row, Holding
  <2> QED
    BY <1>6, <2>1 DEF WorkerTake, TypeOK
<1>7. CASE WorkerStopped
  <2>1. w' \in Worker
    BY <1>7 DEF WorkerStopped, TypeOK, Worker, Row, Holding
  <2> QED
    BY <1>7, <2>1 DEF WorkerStopped, TypeOK
<1>8. CASE WorkerLoad
  <2>1. row' \in Row
    <3>1. \/ row' = row
          \/ \E b \in BOOLEAN : row' = [row EXCEPT !.status = "canceled", !.secret = b]
      BY <1>8 DEF WorkerLoad, TypeOK, Row
    <3> QED
      BY <3>1 DEF TypeOK, Row, Final
  <2>2. w' \in Worker
    BY <1>8, ReleasedIsFree DEF WorkerLoad, TypeOK, Worker, Holding
  <2> QED
    BY <1>8, <2>1, <2>2 DEF WorkerLoad, TypeOK
<1>9. CASE WorkerMarkRunning
  <2>1. row' \in Row
    BY <1>9 DEF WorkerMarkRunning, TypeOK, Row, Ids, ActiveStates, Final
  <2>2. w' \in Worker
    BY <1>9 DEF WorkerMarkRunning, TypeOK, Worker, Row, Holding, Final
  <2> QED
    BY <1>9, <2>1, <2>2 DEF WorkerMarkRunning, TypeOK
<1>10. CASE WorkerPreCheck
  <2>1. row' \in Row
    <3>1. \E s \in {row.status, "failed", "error", "canceled"} :
              row' = row \/ row' = [row EXCEPT !.status = s]
      BY <1>10 DEF WorkerPreCheck
    <3> QED
      BY <3>1 DEF TypeOK, Row, Final
  <2>2. w' \in Worker
    <3>1. \/ w' = [w EXCEPT !.pc = "submitted"]
          \/ w' = [w EXCEPT !.pc = "stopped"]
          \/ w' = [w EXCEPT !.pc = "ended", !.result = "error"]
      BY <1>10 DEF WorkerPreCheck
    <3>2. CASE w' = [w EXCEPT !.pc = "submitted"]
      BY <3>2 DEF TypeOK, Worker, Holding
    <3>3. CASE w' = [w EXCEPT !.pc = "stopped"]
      BY <3>3 DEF TypeOK, Worker, Holding
    <3>4. CASE w' = [w EXCEPT !.pc = "ended", !.result = "error"]
      BY <3>4 DEF TypeOK, Worker, Holding, Final
    <3> QED
      BY <3>1, <3>2, <3>3, <3>4
  <2> QED
    BY <1>10, <2>1, <2>2 DEF WorkerPreCheck, TypeOK
<1>11. CASE WorkerQuota
  BY <1>11, ReleasedIsFree DEF WorkerQuota, Fault, TypeOK, Row, Ids, Reapers,
     Holding, ActiveStates, Final
<1>12. CASE WorkerPlay
  BY <1>12 DEF WorkerPlay, TypeOK, Worker, Ids, Reapers, Holding, ActiveStates,
     Final
<1>13. CASE WorkerEnd
  <2>1. Interpret \in Final
    BY DEF Interpret, Final
  <2>2. w' \in Worker
    <3> PICK s \in Final : w' = [w EXCEPT !.pc = "ended", !.result = s]
      BY <1>13, <2>1 DEF WorkerEnd, Final
    <3> QED
      BY DEF TypeOK, Worker, Holding
  <2> QED
    BY <1>13, <2>2 DEF WorkerEnd, TypeOK
<1>14. CASE WorkerFinal
  <2>1. row' \in Row
    BY <1>14 DEF WorkerFinal, TypeOK, Row, Worker
  <2>2. w' \in Worker
    BY <1>14, ReleasedIsFree DEF WorkerFinal, TypeOK, Worker
  <2> QED
    BY <1>14, <2>1, <2>2 DEF WorkerFinal, TypeOK
<1>15. CASE Deliver
  BY <1>15, IdleIsFree DEF Deliver, TypeOK, Row, Ids, Reapers, Holding,
     ActiveStates, Final
<1>16. CASE Forget
  BY <1>16 DEF Forget, TypeOK, Ids, Reapers, Holding, ActiveStates, Final
<1>17. CASE Cleanup
  BY <1>17 DEF Cleanup, Choice, TypeOK, Ids, Reapers, Holding, ActiveStates,
     Final
<1>18. CASE CleanupEnd
  BY <1>18, IdleIsFree DEF CleanupEnd, TypeOK
<1>19. CASE Crash
  <2>1. w' \in Worker
    BY <1>19, IdleIsFree DEF Crash, TypeOK, Worker
  <2> QED
    BY <1>19, <2>1 DEF Crash, Fault, TypeOK, Reapers
<1>20. CASE Restart
  BY <1>20 DEF Restart, Choice, TypeOK, Ids, Reapers, Holding, ActiveStates,
     Final
<1>21. CASE RestartWaiting
  BY <1>21 DEF RestartWaiting, Choice, TypeOK, Ids, Reapers, Holding,
     ActiveStates, Final
<1>22. CASE RestartEnd
  BY <1>22, IdleIsFree DEF RestartEnd, TypeOK
<1>23. CASE Shutdown
  BY <1>23 DEF Shutdown, Fault, Choice, TypeOK, Ids, Reapers, Holding,
     ActiveStates, Final
<1>24. CASE ShutdownSignal
  <2>1. w' \in Worker
    BY <1>24, SignalFields DEF ShutdownSignal
  <2> QED
    BY <1>24, <2>1 DEF ShutdownSignal, TypeOK
<1>25. CASE ShutdownEnd
  <2>1. w' \in Worker
    BY <1>25 DEF ShutdownEnd, TypeOK, Worker
  <2> QED
    BY <1>25, <2>1 DEF ShutdownEnd, TypeOK
<1>26. CASE \E crowded \in BOOLEAN : HeartbeatDispatch(crowded)
  <2>1. hb' \in [on : BOOLEAN, excluded : SUBSET Ids, started : BOOLEAN, old : Ids]
    BY <1>26, StartAssumption DEF HeartbeatDispatch, TypeOK, Row, Ids
  <2> QED
    BY <1>26, <2>1 DEF HeartbeatDispatch, TypeOK
<1>27. CASE HeartbeatSelect
  <2>1. hb' \in [on : BOOLEAN, excluded : SUBSET Ids, started : BOOLEAN, old : Ids]
    BY <1>27, StartAssumption DEF HeartbeatSelect, IdleHeartbeat, Ids
  <2>2. reap' \in [Reapers -> {"off", "chosen", "checked"}]
    BY <1>27 DEF HeartbeatSelect, Choice, TypeOK
  <2> QED
    BY <1>27, <2>1, <2>2 DEF HeartbeatSelect, TypeOK
<1>28. CASE PeerSelect
  BY <1>28 DEF PeerSelect, Fault, Choice, TypeOK, Ids, Reapers, Holding,
     ActiveStates, Final
<1>29. CASE WorkerDie
  BY <1>29 DEF WorkerDie, Fault, TypeOK, Worker, Ids, Reapers, Holding,
     ActiveStates, Final
<1>30. CASE \E r \in Reapers : ReapCheck(r)
  <2> PICK r \in Reapers : ReapCheck(r)
    BY <1>30
  <2> QED
    BY DEF ReapCheck, TypeOK, Ids, Reapers, Holding, ActiveStates, Final
<1>31. CASE \E r \in Reapers : ReapSave(r)
  <2> PICK r \in Reapers : ReapSave(r)
    BY <1>31
  <2>1. row' \in Row
    BY DEF ReapSave, TypeOK, Row, Final
  <2>2. reap' \in [Reapers -> {"off", "chosen", "checked"}]
    BY DEF ReapSave, TypeOK
  <2> QED
    BY <2>1, <2>2 DEF ReapSave, TypeOK
<1>32. CASE \E u \in Cancelers : CancelLoad(u)
  <2> PICK u \in Cancelers : CancelLoad(u)
    BY <1>32
  <2> QED
    BY DEF CancelLoad, TypeOK, Cancel, Row, Ids, Reapers, Holding,
       ActiveStates, Final
<1>33. CASE \E u \in Cancelers : CancelFlag(u)
  <2> PICK u \in Cancelers : CancelFlag(u)
    BY <1>33
  <2>1. row' \in Row
    BY DEF CancelFlag, TypeOK, Row
  <2>2. c' \in [Cancelers -> Cancel]
    BY DEF CancelFlag, TypeOK, Cancel
  <2> QED
    BY <2>1, <2>2 DEF CancelFlag, TypeOK
<1>34. CASE \E u \in Cancelers : CancelAsk(u)
  <2> PICK u \in Cancelers : CancelAsk(u)
    BY <1>34
  <2>1. c[u] \in Cancel /\ c[u].task \in Ids
    BY DEF TypeOK, Cancel
  <2>2. w' \in Worker
    BY SignalFields, CancelSignals DEF CancelAsk
  <2>3. c' \in [Cancelers -> Cancel]
    BY <2>1 DEF CancelAsk, TypeOK, Cancel
  <2>4. acked' \in BOOLEAN
    BY DEF CancelAsk, TypeOK
  <2> QED
    BY <2>2, <2>3, <2>4 DEF CancelAsk, TypeOK
<1>35. CASE \E u \in Cancelers : CancelForce(u)
  <2> PICK u \in Cancelers : CancelForce(u)
    BY <1>35
  <2>1. row' \in Row
    BY DEF CancelForce, TypeOK, Row, Final
  <2>2. c' \in [Cancelers -> Cancel]
    BY DEF CancelForce, TypeOK, Cancel
  <2> QED
    BY <2>1, <2>2 DEF CancelForce, TypeOK
<1>36. CASE \E u \in Cancelers : CancelFallback(u)
  <2> PICK u \in Cancelers : CancelFallback(u)
    BY <1>36
  <2>1. c[u] \in Cancel /\ c[u].task \in Ids /\ row.task \in Ids
    BY DEF TypeOK, Cancel, Row
  <2>2. w' \in Worker
    BY SignalFields, CancelSignals DEF CancelFallback
  <2>3. c' \in [Cancelers -> Cancel]
    BY <2>1 DEF CancelFallback, TypeOK, Cancel
  <2> QED
    BY <2>2, <2>3 DEF CancelFallback, TypeOK
<1>37. CASE UNCHANGED vars
  BY <1>37 DEF vars, TypeOK, Ids, Reapers, Holding, ActiveStates, Final
<1> QED
  BY <1>1, <1>2, <1>3, <1>4, <1>5, <1>6, <1>7, <1>8, <1>9, <1>10, <1>11, <1>12,
     <1>13, <1>14, <1>15, <1>16, <1>17, <1>18, <1>19, <1>20, <1>21, <1>22,
     <1>23, <1>24, <1>25, <1>26, <1>27, <1>28, <1>29, <1>30, <1>31, <1>32,
     <1>33, <1>34, <1>35, <1>36, <1>37 DEF Next, TMNext, WorkerNext, MainNext,
     ReapNext, CancelNext, AtRest

(* No step duplicates the right to start the playbook. *)
LEMMA TokenStep == TypeOK /\ StartToken /\ [Next]_vars => StartToken'
<1> SUFFICES ASSUME TypeOK /\ StartToken, [Next]_vars PROVE StartToken'
  OBVIOUS
<1>1. CASE TMRead
  BY <1>1 DEF TMRead, CanBegin, StartToken, TypeOK, Ids, Reapers, Holding,
     ActiveStates, Final, Row
<1>2. CASE TMStart
  BY <1>2 DEF TMStart, Fault, IdleTM, StartToken, TypeOK, Ids, Reapers,
     Holding, ActiveStates, Final, Row
<1>3. CASE TMFail
  BY <1>3 DEF TMFail, IdleTM, StartToken, TypeOK, Ids, Reapers, Holding,
     ActiveStates, Final, Row
<1>4. CASE TMDepFail
  BY <1>4 DEF TMDepFail, IdleTM, StartToken, TypeOK, Ids, Reapers, Holding,
     ActiveStates, Final, Row
<1>5. CASE TMLeave
  BY <1>5 DEF TMLeave, IdleTM, StartToken, TypeOK, Ids, Reapers, Holding,
     ActiveStates, Final, Row
<1>6. CASE WorkerTake
  BY <1>6 DEF WorkerTake, StartToken, TypeOK, Ids, Reapers, Holding,
     ActiveStates, Final, Row, Worker
<1>7. CASE WorkerStopped
  BY <1>7 DEF WorkerStopped, StartToken, TypeOK, Ids, Reapers, Holding,
     ActiveStates, Final, Row, Worker
<1>8. CASE WorkerLoad
  <2>1. w'.pc \in {"loaded", "idle", "gone"}
    BY <1>8, ReleasedIsFree DEF WorkerLoad, TypeOK, Worker
  <2>2. row'.status = "pending" => row.status = "pending"
    BY <1>8 DEF WorkerLoad, TypeOK, Row
  <2> QED
    BY <1>8, <2>1, <2>2 DEF WorkerLoad, StartToken, Holding
<1>9. CASE WorkerMarkRunning
  BY <1>9 DEF WorkerMarkRunning, StartToken, TypeOK, Ids, Reapers, Holding,
     ActiveStates, Final, Row, Worker
<1>10. CASE WorkerPreCheck
  BY <1>10 DEF WorkerPreCheck, StartToken, TypeOK, Ids, Reapers, Holding,
     ActiveStates, Final, Row, Worker
<1>11. CASE WorkerQuota
  BY <1>11, ReleasedIsFree DEF WorkerQuota, Fault, StartToken, TypeOK, Ids,
     Reapers, Holding, ActiveStates, Final, Row
<1>12. CASE WorkerPlay
  BY <1>12 DEF WorkerPlay, StartToken, TypeOK, Ids, Reapers, Holding,
     ActiveStates, Final, Row, Worker
<1>13. CASE WorkerEnd
  BY <1>13 DEF WorkerEnd, Interpret, StartToken, TypeOK, Ids, Reapers, Holding,
     ActiveStates, Final, Row, Worker
<1>14. CASE WorkerFinal
  BY <1>14, ReleasedIsFree DEF WorkerFinal, StartToken, TypeOK, Ids, Reapers,
     Holding, ActiveStates, Final, Row, Worker
<1>15. CASE Deliver
  BY <1>15, IdleIsFree DEF Deliver, StartToken, TypeOK, Ids, Reapers, Holding,
     ActiveStates, Final, Row
<1>16. CASE Forget
  BY <1>16 DEF Forget, StartToken, TypeOK, Ids, Reapers, Holding, ActiveStates,
     Final, Row
<1>17. CASE Cleanup
  BY <1>17 DEF Cleanup, Choice, StartToken, TypeOK, Ids, Reapers, Holding,
     ActiveStates, Final, Row
<1>18. CASE CleanupEnd
  BY <1>18, IdleIsFree DEF CleanupEnd, StartToken, TypeOK, Ids, Reapers,
     Holding, ActiveStates, Final, Row
<1>19. CASE Crash
  BY <1>19, IdleIsFree DEF Crash, Fault, StartToken, TypeOK, Ids, Reapers,
     Holding, ActiveStates, Final, Row, Worker
<1>20. CASE Restart
  BY <1>20 DEF Restart, Choice, StartToken, TypeOK, Ids, Reapers, Holding,
     ActiveStates, Final, Row
<1>21. CASE RestartWaiting
  BY <1>21 DEF RestartWaiting, Choice, StartToken, TypeOK, Ids, Reapers,
     Holding, ActiveStates, Final, Row
<1>22. CASE RestartEnd
  BY <1>22, IdleIsFree DEF RestartEnd, StartToken, TypeOK, Ids, Reapers,
     Holding, ActiveStates, Final, Row
<1>23. CASE Shutdown
  BY <1>23 DEF Shutdown, Fault, Choice, StartToken, TypeOK, Ids, Reapers,
     Holding, ActiveStates, Final, Row
<1>24. CASE ShutdownSignal
  <2>1. /\ w'.pc = w.pc \/ (w'.pc = "gone" /\ w.pc \in {"idle", "taken"})
        /\ w'.task = w.task /\ w'.orphan = w.orphan /\ w'.result = w.result
        /\ w'.flag = w.flag /\ (w.sig => w'.sig)
    BY <1>24, SignalFields DEF ShutdownSignal
  <2> QED
    BY <1>24, <2>1 DEF ShutdownSignal, StartToken, Holding
<1>25. CASE ShutdownEnd
  BY <1>25 DEF ShutdownEnd, StartToken, TypeOK, Ids, Reapers, Holding,
     ActiveStates, Final, Row
<1>26. CASE \E crowded \in BOOLEAN : HeartbeatDispatch(crowded)
  BY <1>26 DEF HeartbeatDispatch, StartToken, TypeOK, Ids, Reapers, Holding,
     ActiveStates, Final, Row
<1>27. CASE HeartbeatSelect
  BY <1>27 DEF HeartbeatSelect, Choice, IdleHeartbeat, StartToken, TypeOK, Ids,
     Reapers, Holding, ActiveStates, Final, Row
<1>28. CASE PeerSelect
  BY <1>28 DEF PeerSelect, Fault, Choice, StartToken, TypeOK, Ids, Reapers,
     Holding, ActiveStates, Final, Row
<1>29. CASE WorkerDie
  BY <1>29 DEF WorkerDie, Fault, StartToken, TypeOK, Ids, Reapers, Holding,
     ActiveStates, Final, Row, Worker
<1>30. CASE \E r \in Reapers : ReapCheck(r)
  <2> PICK r \in Reapers : ReapCheck(r)
    BY <1>30
  <2> QED
    BY DEF ReapCheck, StartToken, TypeOK, Ids, Reapers, Holding, ActiveStates,
       Final, Row
<1>31. CASE \E r \in Reapers : ReapSave(r)
  <2> PICK r \in Reapers : ReapSave(r)
    BY <1>31
  <2> QED
    BY DEF ReapSave, StartToken, TypeOK, Ids, Reapers, Holding, ActiveStates,
       Final, Row
<1>32. CASE \E u \in Cancelers : CancelLoad(u)
  <2> PICK u \in Cancelers : CancelLoad(u)
    BY <1>32
  <2> QED
    BY DEF CancelLoad, StartToken, TypeOK, Ids, Reapers, Holding, ActiveStates,
       Final, Row, Cancel
<1>33. CASE \E u \in Cancelers : CancelFlag(u)
  <2> PICK u \in Cancelers : CancelFlag(u)
    BY <1>33
  <2> QED
    BY DEF CancelFlag, StartToken, TypeOK, Ids, Reapers, Holding, ActiveStates,
       Final, Row, Cancel
<1>34. CASE \E u \in Cancelers : CancelAsk(u)
  <2> PICK u \in Cancelers : CancelAsk(u)
    BY <1>34
  <2>1. /\ w'.pc = w.pc \/ (w'.pc = "gone" /\ w.pc \in {"idle", "taken"})
        /\ w'.result = w.result
    BY SignalFields, CancelSignals DEF CancelAsk
  <2> QED
    BY <2>1 DEF CancelAsk, StartToken, Holding
<1>35. CASE \E u \in Cancelers : CancelForce(u)
  <2> PICK u \in Cancelers : CancelForce(u)
    BY <1>35
  <2> QED
    BY DEF CancelForce, StartToken, TypeOK, Ids, Reapers, Holding,
       ActiveStates, Final, Row, Cancel
<1>36. CASE \E u \in Cancelers : CancelFallback(u)
  <2> PICK u \in Cancelers : CancelFallback(u)
    BY <1>36
  <2>1. /\ w'.pc = w.pc \/ (w'.pc = "gone" /\ w.pc \in {"idle", "taken"})
        /\ w'.result = w.result
    BY SignalFields, CancelSignals DEF CancelFallback
  <2> QED
    BY <2>1 DEF CancelFallback, StartToken, Holding
<1>37. CASE UNCHANGED vars
  BY <1>37 DEF vars, StartToken, TypeOK, Ids, Reapers, Holding, ActiveStates,
     Final, Row
<1> QED
  BY <1>1, <1>2, <1>3, <1>4, <1>5, <1>6, <1>7, <1>8, <1>9, <1>10, <1>11, <1>12,
     <1>13, <1>14, <1>15, <1>16, <1>17, <1>18, <1>19, <1>20, <1>21, <1>22,
     <1>23, <1>24, <1>25, <1>26, <1>27, <1>28, <1>29, <1>30, <1>31, <1>32,
     <1>33, <1>34, <1>35, <1>36, <1>37 DEF Next, TMNext, WorkerNext, MainNext,
     ReapNext, CancelNext, AtRest

(* No step brings the secrets back once run() has blanked them. *)
LEMMA SecretStep == TypeOK /\ StartToken /\ SecretInv /\ [Next]_vars => SecretInv'
<1> SUFFICES ASSUME TypeOK /\ StartToken /\ SecretInv, [Next]_vars PROVE SecretInv'
  OBVIOUS
<1>1. CASE TMRead
  BY <1>1 DEF TMRead, CanBegin, SecretInv, StartToken, TypeOK, Ids, Reapers,
     Holding, ActiveStates, Final, Row
<1>2. CASE TMStart
  BY <1>2 DEF TMStart, Fault, IdleTM, SecretInv, StartToken, TypeOK, Ids,
     Reapers, Holding, ActiveStates, Final, Row
<1>3. CASE TMFail
  BY <1>3 DEF TMFail, IdleTM, SecretInv, StartToken, TypeOK, Ids, Reapers,
     Holding, ActiveStates, Final, Row
<1>4. CASE TMDepFail
  BY <1>4 DEF TMDepFail, IdleTM, SecretInv, StartToken, TypeOK, Ids, Reapers,
     Holding, ActiveStates, Final, Row
<1>5. CASE TMLeave
  BY <1>5 DEF TMLeave, IdleTM, SecretInv, StartToken, TypeOK, Ids, Reapers,
     Holding, ActiveStates, Final, Row
<1>6. CASE WorkerTake
  BY <1>6 DEF WorkerTake, SecretInv, StartToken, TypeOK, Ids, Reapers, Holding,
     ActiveStates, Final, Row, Worker
<1>7. CASE WorkerStopped
  BY <1>7 DEF WorkerStopped, SecretInv, StartToken, TypeOK, Ids, Reapers, Holding,
     ActiveStates, Final, Row, Worker
<1>8. CASE WorkerLoad
  <2>1. row.secret = FALSE => row'.secret = FALSE
    BY <1>8 DEF WorkerLoad, TypeOK, Row
  <2>2. w'.pc \notin {"marked", "submitted"}
    BY <1>8, ReleasedIsFree DEF WorkerLoad, TypeOK, Worker
  <2> QED
    BY <1>8, <2>1, <2>2 DEF WorkerLoad, SecretInv, TypeOK, Row
<1>9. CASE WorkerMarkRunning
  BY <1>9 DEF WorkerMarkRunning, SecretInv, StartToken, TypeOK, Ids, Reapers,
     Holding, ActiveStates, Final, Row, Worker
<1>10. CASE WorkerPreCheck
  BY <1>10 DEF WorkerPreCheck, SecretInv, StartToken, TypeOK, Ids, Reapers,
     Holding, ActiveStates, Final, Row, Worker
<1>11. CASE WorkerQuota
  BY <1>11, ReleasedIsFree DEF WorkerQuota, Fault, SecretInv, StartToken,
     TypeOK, Ids, Reapers, Holding, ActiveStates, Final, Row
<1>12. CASE WorkerPlay
  BY <1>12 DEF WorkerPlay, SecretInv, StartToken, TypeOK, Ids, Reapers,
     Holding, ActiveStates, Final, Row, Worker
<1>13. CASE WorkerEnd
  BY <1>13 DEF WorkerEnd, Interpret, SecretInv, StartToken, TypeOK, Ids,
     Reapers, Holding, ActiveStates, Final, Row, Worker
<1>14. CASE WorkerFinal
  BY <1>14, ReleasedIsFree DEF WorkerFinal, SecretInv, StartToken, TypeOK, Ids,
     Reapers, Holding, ActiveStates, Final, Row, Worker
<1>15. CASE Deliver
  BY <1>15, IdleIsFree DEF Deliver, SecretInv, StartToken, TypeOK, Ids,
     Reapers, Holding, ActiveStates, Final, Row
<1>16. CASE Forget
  BY <1>16 DEF Forget, SecretInv, StartToken, TypeOK, Ids, Reapers, Holding,
     ActiveStates, Final, Row
<1>17. CASE Cleanup
  BY <1>17 DEF Cleanup, Choice, SecretInv, StartToken, TypeOK, Ids, Reapers,
     Holding, ActiveStates, Final, Row
<1>18. CASE CleanupEnd
  BY <1>18, IdleIsFree DEF CleanupEnd, SecretInv, StartToken, TypeOK, Ids,
     Reapers, Holding, ActiveStates, Final, Row
<1>19. CASE Crash
  BY <1>19, IdleIsFree DEF Crash, Fault, SecretInv, StartToken, TypeOK, Ids,
     Reapers, Holding, ActiveStates, Final, Row, Worker
<1>20. CASE Restart
  BY <1>20 DEF Restart, Choice, SecretInv, StartToken, TypeOK, Ids, Reapers,
     Holding, ActiveStates, Final, Row
<1>21. CASE RestartWaiting
  BY <1>21 DEF RestartWaiting, Choice, SecretInv, StartToken, TypeOK, Ids,
     Reapers, Holding, ActiveStates, Final, Row
<1>22. CASE RestartEnd
  BY <1>22, IdleIsFree DEF RestartEnd, SecretInv, StartToken, TypeOK, Ids,
     Reapers, Holding, ActiveStates, Final, Row
<1>23. CASE Shutdown
  BY <1>23 DEF Shutdown, Fault, Choice, SecretInv, StartToken, TypeOK, Ids,
     Reapers, Holding, ActiveStates, Final, Row
<1>24. CASE ShutdownSignal
  <2>1. /\ w'.pc = w.pc \/ (w'.pc = "gone" /\ w.pc \in {"idle", "taken"})
        /\ w'.task = w.task /\ w'.orphan = w.orphan /\ w'.result = w.result
        /\ w'.flag = w.flag /\ (w.sig => w'.sig)
    BY <1>24, SignalFields DEF ShutdownSignal
  <2> QED
    BY <1>24, <2>1 DEF ShutdownSignal, SecretInv
<1>25. CASE ShutdownEnd
  BY <1>25 DEF ShutdownEnd, SecretInv, StartToken, TypeOK, Ids, Reapers,
     Holding, ActiveStates, Final, Row
<1>26. CASE \E crowded \in BOOLEAN : HeartbeatDispatch(crowded)
  BY <1>26 DEF HeartbeatDispatch, SecretInv, StartToken, TypeOK, Ids, Reapers,
     Holding, ActiveStates, Final, Row
<1>27. CASE HeartbeatSelect
  BY <1>27 DEF HeartbeatSelect, Choice, IdleHeartbeat, SecretInv, StartToken,
     TypeOK, Ids, Reapers, Holding, ActiveStates, Final, Row
<1>28. CASE PeerSelect
  BY <1>28 DEF PeerSelect, Fault, Choice, SecretInv, StartToken, TypeOK, Ids,
     Reapers, Holding, ActiveStates, Final, Row
<1>29. CASE WorkerDie
  BY <1>29 DEF WorkerDie, Fault, SecretInv, StartToken, TypeOK, Ids, Reapers,
     Holding, ActiveStates, Final, Row, Worker
<1>30. CASE \E r \in Reapers : ReapCheck(r)
  <2> PICK r \in Reapers : ReapCheck(r)
    BY <1>30
  <2> QED
    BY DEF ReapCheck, SecretInv, StartToken, TypeOK, Ids, Reapers, Holding,
       ActiveStates, Final, Row
<1>31. CASE \E r \in Reapers : ReapSave(r)
  <2> PICK r \in Reapers : ReapSave(r)
    BY <1>31
  <2> QED
    BY DEF ReapSave, SecretInv, StartToken, TypeOK, Ids, Reapers, Holding,
       ActiveStates, Final, Row
<1>32. CASE \E u \in Cancelers : CancelLoad(u)
  <2> PICK u \in Cancelers : CancelLoad(u)
    BY <1>32
  <2> QED
    BY DEF CancelLoad, SecretInv, StartToken, TypeOK, Ids, Reapers, Holding,
       ActiveStates, Final, Row, Cancel
<1>33. CASE \E u \in Cancelers : CancelFlag(u)
  <2> PICK u \in Cancelers : CancelFlag(u)
    BY <1>33
  <2> QED
    BY DEF CancelFlag, SecretInv, StartToken, TypeOK, Ids, Reapers, Holding,
       ActiveStates, Final, Row, Cancel
<1>34. CASE \E u \in Cancelers : CancelAsk(u)
  <2> PICK u \in Cancelers : CancelAsk(u)
    BY <1>34
  <2>1. /\ w'.pc = w.pc \/ (w'.pc = "gone" /\ w.pc \in {"idle", "taken"})
        /\ w'.result = w.result
    BY SignalFields, CancelSignals DEF CancelAsk
  <2> QED
    BY <2>1 DEF CancelAsk, SecretInv
<1>35. CASE \E u \in Cancelers : CancelForce(u)
  <2> PICK u \in Cancelers : CancelForce(u)
    BY <1>35
  <2> QED
    BY DEF CancelForce, SecretInv, StartToken, TypeOK, Ids, Reapers, Holding,
       ActiveStates, Final, Row, Cancel
<1>36. CASE \E u \in Cancelers : CancelFallback(u)
  <2> PICK u \in Cancelers : CancelFallback(u)
    BY <1>36
  <2>1. /\ w'.pc = w.pc \/ (w'.pc = "gone" /\ w.pc \in {"idle", "taken"})
        /\ w'.result = w.result
    BY SignalFields, CancelSignals DEF CancelFallback
  <2> QED
    BY <2>1 DEF CancelFallback, SecretInv
<1>37. CASE UNCHANGED vars
  BY <1>37 DEF vars, SecretInv, StartToken, TypeOK, Ids, Reapers, Holding,
     ActiveStates, Final, Row
<1> QED
  BY <1>1, <1>2, <1>3, <1>4, <1>5, <1>6, <1>7, <1>8, <1>9, <1>10, <1>11, <1>12,
     <1>13, <1>14, <1>15, <1>16, <1>17, <1>18, <1>19, <1>20, <1>21, <1>22,
     <1>23, <1>24, <1>25, <1>26, <1>27, <1>28, <1>29, <1>30, <1>31, <1>32,
     <1>33, <1>34, <1>35, <1>36, <1>37 DEF Next, TMNext, WorkerNext, MainNext,
     ReapNext, CancelNext, AtRest

(* Init establishes the invariant and every step keeps it. *)
LEMMA Invariance == Spec => []IInv
<1>1. Init => IInv
  BY TypeInit, IdleIsFree DEF Init, IInv, StartToken, SecretInv, IdleTM, Holding
<1>2. IInv /\ [Next]_vars => IInv'
  BY TypeStep, TokenStep, SecretStep DEF IInv
<1> QED
  BY <1>1, <1>2, PTL DEF Spec

(* Type correctness for any cancel requests, faults and number of starts.  *)
THEOREM TypeCorrect == Spec => []TypeOK
<1>1. IInv => TypeOK
  BY DEF IInv
<1> QED
  BY <1>1, Invariance, PTL

(* Whatever is canceled, reaped, requeued, crashed or restarted, and       *)
(* however often the task manager starts the job, its playbook is started  *)
(* at most once.                                                           *)
THEOREM PlaybookRunsOnce == Spec => []RunOnce
<1>1. IInv => RunOnce
  BY DEF IInv, StartToken, RunOnce
<1> QED
  BY <1>1, Invariance, PTL

(* From the start of the playbook on, the row holds no launch-time secret, *)
(* although the task manager writes back every column it read.             *)
THEOREM SecretsGoneWhenPlaying == Spec => []PlaysWithoutSecrets
<1>1. IInv => PlaysWithoutSecrets
  BY DEF IInv, SecretInv, PlaysWithoutSecrets
<1> QED
  BY <1>1, Invariance, PTL

(* An idle worker has no signal pending. *)
LEMMA IdleIsQuiet ==
    ~IdleWorker.sig /\ ~IdleWorker.flag /\ ~IdleWorker.orphan
  BY DEF IdleWorker

LEMMA ReleasedIsQuiet == Quiet => Released = IdleWorker
  BY DEF Quiet, Released

(* Every step keeps it. *)
LEMMA LossStep == OnlyLosses /\ IInv /\ LossInv /\ [Next]_vars => LossInv'
<1> SUFFICES ASSUME OnlyLosses /\ IInv /\ LossInv, [Next]_vars PROVE LossInv'
  OBVIOUS
<1>1. CASE TMRead
  BY <1>1 DEF TMRead, CanBegin, LossInv, Quiet, Unstarted, WorkerInv,
     MessageInv, ReaperInv, Reapers, Holding, Final, IInv, TypeOK, StartToken,
     Row
<1>2. CASE TMStart
  BY <1>2 DEF TMStart, Fault, IdleTM, LossInv, Quiet, Unstarted, WorkerInv,
     MessageInv, ReaperInv, Reapers, Holding, Final, IInv, TypeOK, StartToken,
     Row
<1>3. CASE TMFail
  BY <1>3 DEF TMFail, IdleTM, LossInv, Quiet, Unstarted, WorkerInv, MessageInv,
     ReaperInv, Reapers, Holding, Final, IInv, TypeOK, StartToken, Row
<1>4. CASE TMDepFail
  BY <1>4 DEF TMDepFail, IdleTM, LossInv, Quiet, Unstarted, WorkerInv,
     MessageInv, ReaperInv, Reapers, Holding, Final, IInv, TypeOK, StartToken,
     Row
<1>5. CASE TMLeave
  BY <1>5 DEF TMLeave, IdleTM, LossInv, Quiet, Unstarted, WorkerInv,
     MessageInv, ReaperInv, Reapers, Holding, Final, IInv, TypeOK, StartToken,
     Row
<1>6. CASE WorkerTake
  BY <1>6 DEF WorkerTake, LossInv, Quiet, Unstarted, WorkerInv, MessageInv,
     ReaperInv, Reapers, Holding, Final, IInv, TypeOK, StartToken, Row, Worker
<1>7. CASE WorkerStopped
  BY <1>7 DEF WorkerStopped, LossInv, WorkerInv
<1>8. CASE WorkerLoad
  <2>1. row' = row
    BY <1>8 DEF WorkerLoad, LossInv, Quiet
  <2>2. CASE w' = [w EXCEPT !.pc = "loaded"] /\ managed' = managed /\ Startable
    BY <1>8, <2>1, <2>2 DEF WorkerLoad, Startable, LossInv, Quiet, Unstarted, WorkerInv,
       MessageInv, ReaperInv, Holding, Final, ActiveStates, IInv, TypeOK, Row, Worker
  <2>3. CASE w' = IdleWorker /\ managed' = managed \ {w.task} /\ ~Startable
    <3>1. row.status = "failed" /\ managed' = {}
      BY <1>8, <2>3 DEF WorkerLoad, Startable, LossInv, Quiet, WorkerInv, Holding, ActiveStates
    <3> QED
      BY <1>8, <2>1, <2>3, <3>1, IdleIsFree, IdleIsQuiet DEF WorkerLoad, LossInv, Quiet,
         Unstarted, WorkerInv, MessageInv, ReaperInv, Holding, Final
  <2> QED
    BY <1>8, <2>2, <2>3, ReleasedIsQuiet DEF WorkerLoad, LossInv
<1>9. CASE WorkerMarkRunning
  BY <1>9 DEF WorkerMarkRunning, LossInv, Quiet, Unstarted, WorkerInv,
     MessageInv, ReaperInv, Reapers, Holding, Final, IInv, TypeOK, StartToken,
     Row, Worker
<1>10. CASE WorkerPreCheck
  <2>1. \/ row' = row /\ w' = [w EXCEPT !.pc = "submitted"]
        \/ /\ \E s \in {row.status, "failed", "error"} : row' = [row EXCEPT !.status = s]
           /\ w' = [w EXCEPT !.pc = "ended", !.result = "error"]
    BY <1>10 DEF WorkerPreCheck, LossInv, Quiet, WorkerInv
  <2>2. /\ w'.pc = "submitted" \/ (w'.pc = "ended" /\ w'.result = "error")
        /\ w'.task = w.task /\ w'.flag = w.flag /\ w'.sig = w.sig /\ w'.orphan = w.orphan
    BY <2>1 DEF IInv, TypeOK, Worker
  <2>3. /\ row'.status \in {row.status, "failed", "error"}
        /\ w'.pc = "submitted" => row'.status = row.status
        /\ row'.flag = row.flag /\ row'.task = row.task /\ row'.started = row.started
    BY <2>1 DEF IInv, TypeOK, Row, Worker
  <2>4. row.status = "running" /\ main # "cleanup" /\ reap["main"] = "off"
    BY <1>10 DEF WorkerPreCheck, LossInv, WorkerInv, ReaperInv
  <2> QED
    BY <1>10, <2>2, <2>3, <2>4 DEF WorkerPreCheck, LossInv, Quiet, Unstarted, WorkerInv,
       MessageInv, ReaperInv, Holding, Final
<1>11. CASE WorkerQuota
  BY <1>11 DEF WorkerQuota, Fault, OnlyLosses
<1>12. CASE WorkerPlay
  BY <1>12 DEF WorkerPlay, LossInv, Quiet, Unstarted, WorkerInv, MessageInv,
     ReaperInv, Reapers, Holding, Final, IInv, TypeOK, StartToken, Row, Worker
<1>13. CASE WorkerEnd
  BY <1>13 DEF WorkerEnd, Interpret, LossInv, Quiet, Unstarted, WorkerInv,
     MessageInv, ReaperInv, Reapers, Holding, Final, IInv, TypeOK, StartToken,
     Row, Worker
<1>14. CASE WorkerFinal
  BY <1>14, ReleasedIsQuiet, IdleIsFree, IdleIsQuiet DEF WorkerFinal, LossInv,
     Quiet, Unstarted, WorkerInv, MessageInv, ReaperInv, Reapers, Holding,
     Final, IInv, TypeOK, StartToken, Row, Worker
<1>15. CASE Deliver
  BY <1>15, IdleIsFree, IdleIsQuiet DEF Deliver, LossInv, Quiet, Unstarted,
     WorkerInv, MessageInv, ReaperInv, Reapers, Holding, Final, IInv, TypeOK,
     StartToken, Row
<1>16. CASE Forget
  BY <1>16 DEF Forget, LossInv, Quiet, Unstarted, WorkerInv, MessageInv,
     ReaperInv, Reapers, Holding, Final, IInv, TypeOK, StartToken, Row
<1>17. CASE Cleanup
  BY <1>17 DEF Cleanup, Choice, LossInv, Quiet, Unstarted, WorkerInv,
     MessageInv, ReaperInv, Reapers, Holding, Final, IInv, TypeOK, StartToken,
     Row
<1>18. CASE CleanupEnd
  BY <1>18, IdleIsFree, IdleIsQuiet DEF CleanupEnd, LossInv, Quiet, Unstarted,
     WorkerInv, MessageInv, ReaperInv, Reapers, Holding, Final, IInv, TypeOK,
     StartToken, Row
<1>19. CASE Crash
  BY <1>19 DEF Crash, Fault, OnlyLosses
<1>20. CASE Restart
  BY <1>20 DEF Restart, LossInv, Quiet
<1>21. CASE RestartWaiting
  BY <1>21 DEF RestartWaiting, LossInv, Quiet
<1>22. CASE RestartEnd
  BY <1>22 DEF RestartEnd, LossInv, Quiet
<1>23. CASE Shutdown
  BY <1>23 DEF Shutdown, Fault, OnlyLosses
<1>24. CASE ShutdownSignal
  BY <1>24 DEF ShutdownSignal, LossInv, Quiet
<1>25. CASE ShutdownEnd
  BY <1>25 DEF ShutdownEnd, LossInv, Quiet
<1>26. CASE \E crowded \in BOOLEAN : HeartbeatDispatch(crowded)
  <2>1. /\ hb'.excluded = managed /\ hb'.started = row.started
        /\ hb'.old # 0 => msg = "lost"
    BY <1>26 DEF HeartbeatDispatch, OnlyLosses
  <2>2. hb'.started => row.status \in Final \/ row.task \in hb'.excluded
    BY <2>1 DEF LossInv, MessageInv, WorkerInv
  <2>3. row.status # "pending"
    BY <1>26 DEF HeartbeatDispatch, LossInv, Unstarted
  <2> QED
    BY <1>26, <2>1, <2>2, <2>3 DEF HeartbeatDispatch, LossInv, Quiet, Unstarted, WorkerInv,
       MessageInv, ReaperInv
<1>27. CASE HeartbeatSelect
  <2>1. Eligible => msg = "lost"
    <3>1. row.status = "running" => ~(hb.started /\ row.task \notin hb.excluded)
      BY <1>27 DEF HeartbeatSelect, LossInv, ReaperInv, Final
    <3>2. row.status = "waiting" /\ row.task = hb.old => msg = "lost"
      BY <1>27 DEF HeartbeatSelect, LossInv, ReaperInv, MessageInv, WorkerInv
    <3> QED
      BY <3>1, <3>2 DEF Eligible
  <2>2. ~hb'.on
    BY <1>27 DEF HeartbeatSelect, IdleHeartbeat
  <2>3. /\ reap'["main"] = reap["main"] /\ reap'["peer"] = reap["peer"]
        /\ reap'["heartbeat"] # "off" => msg = "lost"
    BY <1>27, <2>1 DEF HeartbeatSelect, Choice, IInv, TypeOK, Reapers
  <2>4. row.status # "pending"
    BY <1>27 DEF HeartbeatSelect, LossInv, Unstarted
  <2> QED
    BY <1>27, <2>2, <2>3, <2>4 DEF HeartbeatSelect, LossInv, Quiet, Unstarted, WorkerInv,
       MessageInv, ReaperInv
<1>28. CASE PeerSelect
  BY <1>28 DEF PeerSelect, Fault, OnlyLosses
<1>29. CASE WorkerDie
  BY <1>29 DEF WorkerDie, Fault, LossInv, Quiet, Unstarted, WorkerInv,
     MessageInv, ReaperInv, Reapers, Holding, Final, IInv, TypeOK, StartToken,
     Row, Worker
<1>30. CASE \E r \in Reapers : ReapCheck(r)
  <2> PICK r \in Reapers : ReapCheck(r)
    BY <1>30
  <2> QED
    BY DEF ReapCheck, LossInv, Quiet, Unstarted, WorkerInv, MessageInv,
       ReaperInv, Reapers, Holding, Final, IInv, TypeOK, StartToken, Row
<1>31. CASE \E r \in Reapers : ReapSave(r)
  <2> PICK r \in Reapers : ReapSave(r)
    BY <1>31
  <2>1. /\ row'.status = "failed" /\ row'.task = row.task
        /\ row'.flag = row.flag /\ row'.started = row.started
    BY DEF ReapSave, IInv, TypeOK, Row
  <2>2. w.pc \notin Holding /\ row.status \in {"waiting", "running", "failed"}
    BY DEF ReapSave, LossInv, Quiet, ReaperInv, MessageInv, IInv, StartToken, Reapers, Holding
  <2>3. \A q \in Reapers : reap'[q] = IF q = r THEN "off" ELSE reap[q]
    BY DEF ReapSave, IInv, TypeOK
  <2> QED
    BY <2>1, <2>2, <2>3 DEF ReapSave, LossInv, Quiet, Unstarted, WorkerInv,
       MessageInv, ReaperInv, Reapers, Holding, Final
<1>32. CASE \E u \in Cancelers : CancelLoad(u)
  <2> PICK u \in Cancelers : CancelLoad(u)
    BY <1>32
  <2> QED
    BY DEF OnlyLosses
<1>33. CASE \E u \in Cancelers : CancelFlag(u)
  <2> PICK u \in Cancelers : CancelFlag(u)
    BY <1>33
  <2> QED
    BY DEF OnlyLosses
<1>34. CASE \E u \in Cancelers : CancelAsk(u)
  <2> PICK u \in Cancelers : CancelAsk(u)
    BY <1>34
  <2> QED
    BY DEF OnlyLosses
<1>35. CASE \E u \in Cancelers : CancelForce(u)
  <2> PICK u \in Cancelers : CancelForce(u)
    BY <1>35
  <2> QED
    BY DEF OnlyLosses
<1>36. CASE \E u \in Cancelers : CancelFallback(u)
  <2> PICK u \in Cancelers : CancelFallback(u)
    BY <1>36
  <2> QED
    BY DEF OnlyLosses
<1>37. CASE UNCHANGED vars
  BY <1>37 DEF vars, LossInv, Quiet, Unstarted, WorkerInv, MessageInv,
     ReaperInv, Reapers, Holding, Final, IInv, TypeOK, StartToken, Row
<1> QED
  BY <1>1, <1>2, <1>3, <1>4, <1>5, <1>6, <1>7, <1>8, <1>9, <1>10, <1>11, <1>12,
     <1>13, <1>14, <1>15, <1>16, <1>17, <1>18, <1>19, <1>20, <1>21, <1>22,
     <1>23, <1>24, <1>25, <1>26, <1>27, <1>28, <1>29, <1>30, <1>31, <1>32,
     <1>33, <1>34, <1>35, <1>36, <1>37 DEF Next, TMNext, WorkerNext, MainNext,
     ReapNext, CancelNext, AtRest

(* Without cancel requests, and with worker deaths and lost messages as the *)
(* only faults, the invariant above holds.                                 *)
LEMMA LossInvariance ==
    ASSUME OnlyLosses
    PROVE  Spec => []LossInv
<1>1. Init => LossInv
  BY IdleIsFree, IdleIsQuiet DEF Init, LossInv, Quiet, Unstarted, WorkerInv, MessageInv,
     ReaperInv, IdleTM, IdleHeartbeat, Holding, Reapers
<1>2. IInv /\ LossInv /\ [Next]_vars => LossInv'
  BY OnlyLosses, LossStep
<1> QED
  BY <1>1, <1>2, Invariance, PTL DEF Spec

(* Without cancel requests, the local reapers never fail a job that a      *)
(* worker is still working on, although they read and write its row        *)
(* without a lock while workers die and messages get lost.                 *)
THEOREM ReapersSpareLiveRuns ==
    ASSUME OnlyLosses
    PROVE  Spec => NoFalseReap
<1>1. TypeOK /\ LossInv /\ StartToken => \A r \in Reapers : Reaps(r) => w.pc \notin Holding
  BY DEF TypeOK, LossInv, Quiet, ReaperInv, WorkerInv, StartToken, Reaps, Reapers, Holding
<1>2. IInv /\ LossInv => \A r \in Reapers : Reaps(r) => w.pc \notin Holding
  BY <1>1 DEF IInv
<1> QED
  BY <1>2, Invariance, LossInvariance, PTL DEF NoFalseReap

(* Without cancel requests every change of the status is an arrow of the   *)
(* documented state machine; a job's final status is overwritten only by   *)
(* the run whose preparation wrote it, failed by error.                    *)
THEOREM StatusFollowsTheDocs ==
    ASSUME OnlyLosses
    PROVE  Spec => ImplementsJobStatus
<1>1. Init => Documented!Init
  BY DEF Init, Documented!Init

<1>2. IInv /\ LossInv /\ [Next]_vars => [Documented!Next]_(row.status)
  <2> SUFFICES ASSUME IInv, LossInv, [Next]_vars, row.status' # row.status
               PROVE  Documented!Next
    BY DEF Documented!Next
  <2> USE DEF Documented!Next, Documented!Forward, Documented!Correct,
              Documented!Arrows, Documented!Final
  <2>t. row \in Row /\ w \in Worker
    BY DEF IInv, TypeOK
  <2>1. CASE TMStart \/ TMFail \/ TMDepFail
    BY <2>1, <2>t DEF TMStart, TMFail, TMDepFail, LossInv, Unstarted, Row
  <2>2. CASE WorkerLoad
    BY <2>2, <2>t DEF WorkerLoad, LossInv, Quiet, Row
  <2>3. CASE WorkerMarkRunning
    BY <2>3, <2>t DEF WorkerMarkRunning, LossInv, WorkerInv, Row
  <2>4. CASE WorkerPreCheck
    BY <2>4, <2>t DEF WorkerPreCheck, LossInv, Quiet, WorkerInv, Row
  <2>5. CASE WorkerFinal
    <3>1. w'.pc # "ended" /\ row'.status = w.result
      BY <2>5, <2>t, ReleasedIsFree DEF WorkerFinal, Row
    <3> QED
      BY <2>5, <2>t, <3>1 DEF WorkerFinal, LossInv, WorkerInv, Final
  <2>6. CASE \E r \in Reapers : ReapSave(r)
    BY <2>6, <2>t DEF ReapSave, LossInv, Quiet, ReaperInv, MessageInv, Row, Reapers
  <2>7. CASE WorkerQuota
    BY <2>7 DEF WorkerQuota, Fault, OnlyLosses
  <2>8. CASE \E u \in Cancelers : CancelNext(u)
    BY <2>8 DEF OnlyLosses
  <2>9. row' # row
    OBVIOUS
  <2> QED
    BY <2>1, <2>2, <2>3, <2>4, <2>5, <2>6, <2>7, <2>8, <2>9
    DEF Next, TMNext, TMRead, TMLeave, WorkerNext, WorkerTake, WorkerStopped, WorkerPlay,
        WorkerEnd, WorkerDie, MainNext, Deliver, Forget, Cleanup, CleanupEnd, Crash,
        Restart, RestartWaiting, RestartEnd, Shutdown, ShutdownSignal, ShutdownEnd,
        ReapNext, HeartbeatDispatch, HeartbeatSelect, PeerSelect, ReapCheck, AtRest, vars
<1> QED
  BY <1>1, <1>2, Invariance, LossInvariance, PTL DEF Spec, ImplementsJobStatus, Documented!Spec

-----------------------------------------------------------------------------
(***************************************************************************)
(* What a cancel request may cause and what it guarantees, for any number  *)
(* of requests.                                                            *)
(***************************************************************************)
(* The preparation of a job that a shutdown stopped has canceled it; the   *)
(* right to start the playbook is gone.                                    *)
NeverPlays ==
    /\ runs = 0 /\ ~tm.busy /\ msg = "none"
    /\ row.status # "pending"
    /\ w.pc \in {"idle", "gone", "stopped", "ended"}

(* Every other trace of a cancellation, in the row, in a pass, in a worker *)
(* and in the requests, is there because somebody asked.                   *)
AskedInv ==
    \/ asked
    \/ /\ ~row.flag /\ ~tm.flag /\ ~w.flag
       /\ \A u \in Cancelers : c[u].pc \in {"new", "loaded"}
       /\ row.status = "canceled" \/ w.result = "canceled" => NeverPlays

(* Without the retry after a quota a job is started once, and what refers  *)
(* to its task means this start.                                           *)
OneStart ==
    /\ row.status = "pending" \/ tm.busy => row.task = 0
    /\ managed \subseteq {row.task}
    /\ row.task = 0 => msg = "none" /\ managed = {}
    /\ w.pc \in Holding => w.task = row.task /\ row.task # 0
    /\ w.orphan => w.pc \in Holding \cup {"gone"}
    /\ w.orphan /\ w.pc \in Holding => msg = "none" /\ managed = {}
    /\ w.pc = "executing" => runs > 0
    /\ \A u \in Cancelers : c[u].task # 0 =>
          /\ c[u].task = row.task
          /\ c[u].pc \in {"flagged", "unacked", "forced", "done"} \/ c[u].flag => row.flag

(* An acknowledged cancel has reached the worker before the playbook, or   *)
(* finds it by cancel_flag when it takes the message.                      *)
AckedInv ==
    acked =>
        /\ runs = 0 /\ row.flag /\ row.task # 0
        /\ w.pc \notin {"submitted", "executing"}
        /\ w.pc = "loaded" => w.sig
        /\ w.pc = "marked" => w.sig \/ w.flag

(* A worker that is idle or released carries no trace of a task. *)
LEMMA IdleFields ==
    /\ IdleWorker.pc = "idle" /\ IdleWorker.task = 0 /\ IdleWorker.orphan = FALSE
    /\ IdleWorker.sig = FALSE /\ IdleWorker.flag = FALSE /\ IdleWorker.result = "error"
    /\ LET gone == [IdleWorker EXCEPT !.pc = "gone"]
       IN  /\ gone.pc = "gone" /\ gone.task = 0 /\ gone.orphan = FALSE
           /\ gone.sig = FALSE /\ gone.flag = FALSE /\ gone.result = "error"
  BY DEF IdleWorker

LEMMA ReleasedFields ==
    /\ Released.pc \in {"idle", "gone"} /\ Released.task = 0
    /\ Released.sig = FALSE /\ Released.flag = FALSE /\ Released.result = "error"
    /\ Released.orphan => Released.pc = "gone"
  BY DEF Released, IdleWorker

(* Nobody but a cancel request leaves such a trace. *)
LEMMA AskedStep ==
    ASSUME TypeOK, StartToken, AskedInv, [Next]_vars
    PROVE  AskedInv'
<1>1. CASE TMRead
  BY <1>1 DEF TMRead, CanBegin, AskedInv, NeverPlays, StartToken, TypeOK, Ids, Reapers, Holding,
     ActiveStates, Final, Row
<1>2. CASE TMStart
  BY <1>2 DEF TMStart, Fault, IdleTM, AskedInv, NeverPlays, StartToken, TypeOK, Ids, Reapers,
     Holding, ActiveStates, Final, Row
<1>3. CASE TMFail
  BY <1>3 DEF TMFail, IdleTM, AskedInv, NeverPlays, StartToken, TypeOK, Ids, Reapers, Holding,
     ActiveStates, Final, Row
<1>4. CASE TMDepFail
  BY <1>4 DEF TMDepFail, IdleTM, AskedInv, NeverPlays, StartToken, TypeOK, Ids, Reapers, Holding,
     ActiveStates, Final, Row
<1>5. CASE TMLeave
  BY <1>5 DEF TMLeave, IdleTM, AskedInv, NeverPlays, StartToken, TypeOK, Ids, Reapers, Holding,
     ActiveStates, Final, Row
<1>6. CASE WorkerTake
  BY <1>6 DEF WorkerTake, AskedInv, NeverPlays, StartToken, TypeOK, Ids, Reapers, Holding,
     ActiveStates, Final, Row, Worker
<1>7. CASE WorkerStopped
  BY <1>7 DEF WorkerStopped, AskedInv, NeverPlays, StartToken, TypeOK, Ids, Reapers, Holding,
     ActiveStates, Final, Row, Worker
<1>8. CASE WorkerLoad
  <2>1. row'.flag = row.flag /\ (row'.status = "canceled" => row.status = "canceled" \/ row.flag)
    BY <1>8 DEF WorkerLoad, TypeOK, Row
  <2>2. w'.flag \in {w.flag, FALSE} /\ w'.sig \in {w.sig, FALSE} /\ w'.result \in {w.result, "error"}
    BY <1>8, ReleasedFields DEF WorkerLoad, TypeOK, Worker
  <2> QED
    BY <1>8, <2>1, <2>2 DEF WorkerLoad, AskedInv, NeverPlays
<1>9. CASE WorkerMarkRunning
  BY <1>9 DEF WorkerMarkRunning, AskedInv, NeverPlays, StartToken, TypeOK, Ids, Reapers, Holding,
     ActiveStates, Final, Row, Worker
<1>10. CASE WorkerPreCheck
  BY <1>10 DEF WorkerPreCheck, AskedInv, NeverPlays, StartToken, TypeOK, Ids, Reapers, Holding,
     ActiveStates, Final, Row, Worker
<1>11. CASE WorkerQuota
  BY <1>11, ReleasedFields DEF WorkerQuota, Fault, AskedInv, TypeOK, Ids,
     Reapers, Holding, ActiveStates, Final, Row
<1>12. CASE WorkerPlay
  BY <1>12 DEF WorkerPlay, AskedInv, NeverPlays, StartToken, TypeOK, Ids, Reapers, Holding,
     ActiveStates, Final, Row, Worker
<1>13. CASE WorkerEnd
  BY <1>13 DEF WorkerEnd, Interpret, AskedInv, NeverPlays, StartToken, TypeOK, Ids, Reapers, Holding,
     ActiveStates, Final, Row, Worker
<1>14. CASE WorkerFinal
  BY <1>14, ReleasedFields DEF WorkerFinal, AskedInv, NeverPlays, StartToken, TypeOK, Ids, Reapers,
     Holding, ActiveStates, Final, Row, Worker
<1>15. CASE Deliver
  BY <1>15, IdleFields DEF Deliver, AskedInv, NeverPlays, StartToken, TypeOK, Ids, Reapers, Holding,
     ActiveStates, Final, Row
<1>16. CASE Forget
  BY <1>16 DEF Forget, AskedInv, NeverPlays, StartToken, TypeOK, Ids, Reapers, Holding, ActiveStates,
     Final, Row
<1>17. CASE Cleanup
  BY <1>17 DEF Cleanup, Choice, AskedInv, NeverPlays, StartToken, TypeOK, Ids, Reapers, Holding,
     ActiveStates, Final, Row
<1>18. CASE CleanupEnd
  BY <1>18, IdleFields DEF CleanupEnd, AskedInv, NeverPlays, StartToken, TypeOK, Ids, Reapers,
     Holding, ActiveStates, Final, Row
<1>19. CASE Crash
  BY <1>19, IdleFields DEF Crash, Fault, AskedInv, NeverPlays, StartToken, TypeOK, Ids, Reapers,
     Holding, ActiveStates, Final, Row, Worker
<1>20. CASE Restart
  BY <1>20 DEF Restart, Choice, AskedInv, NeverPlays, StartToken, TypeOK, Ids, Reapers, Holding,
     ActiveStates, Final, Row
<1>21. CASE RestartWaiting
  BY <1>21 DEF RestartWaiting, Choice, AskedInv, NeverPlays, StartToken, TypeOK, Ids, Reapers,
     Holding, ActiveStates, Final, Row
<1>22. CASE RestartEnd
  BY <1>22, IdleFields DEF RestartEnd, AskedInv, NeverPlays, StartToken, TypeOK, Ids, Reapers,
     Holding, ActiveStates, Final, Row
<1>23. CASE Shutdown
  BY <1>23 DEF Shutdown, Fault, Choice, AskedInv, NeverPlays, StartToken, TypeOK, Ids, Reapers,
     Holding, ActiveStates, Final, Row
<1>24. CASE ShutdownSignal
  <2>1. /\ w'.pc = w.pc \/ (w'.pc = "gone" /\ w.pc \in {"idle", "taken"})
        /\ w'.task = w.task /\ w'.orphan = w.orphan /\ w'.result = w.result
        /\ w'.flag = w.flag /\ (w.sig => w'.sig)
    BY <1>24, SignalFields DEF ShutdownSignal
  <2> QED
    BY <1>24, <2>1 DEF ShutdownSignal, AskedInv, NeverPlays
<1>25. CASE ShutdownEnd
  BY <1>25 DEF ShutdownEnd, AskedInv, NeverPlays, StartToken, TypeOK, Ids, Reapers, Holding,
     ActiveStates, Final, Row
<1>26. CASE \E crowded \in BOOLEAN : HeartbeatDispatch(crowded)
  BY <1>26 DEF HeartbeatDispatch, AskedInv, NeverPlays, StartToken, TypeOK, Ids, Reapers, Holding,
     ActiveStates, Final, Row
<1>27. CASE HeartbeatSelect
  BY <1>27 DEF HeartbeatSelect, AskedInv, NeverPlays
<1>28. CASE PeerSelect
  BY <1>28 DEF PeerSelect, Fault, Choice, AskedInv, NeverPlays, StartToken, TypeOK, Ids, Reapers,
     Holding, ActiveStates, Final, Row
<1>29. CASE WorkerDie
  BY <1>29 DEF WorkerDie, Fault, AskedInv, NeverPlays, StartToken, TypeOK, Ids, Reapers, Holding,
     ActiveStates, Final, Row, Worker
<1>30. CASE \E r \in Reapers : ReapCheck(r)
  <2> PICK r \in Reapers : ReapCheck(r)
    BY <1>30
  <2> QED
    BY DEF ReapCheck, AskedInv, NeverPlays, StartToken, TypeOK, Ids, Reapers, Holding, ActiveStates,
       Final, Row
<1>31. CASE \E r \in Reapers : ReapSave(r)
  <2> PICK r \in Reapers : ReapSave(r)
    BY <1>31
  <2> QED
    BY DEF ReapSave, AskedInv, NeverPlays, StartToken, TypeOK, Ids, Reapers, Holding, ActiveStates,
       Final, Row
<1>32. CASE \E u \in Cancelers : CancelLoad(u)
  <2> PICK u \in Cancelers : CancelLoad(u)
    BY <1>32
  <2> QED
    BY DEF CancelLoad, AskedInv, NeverPlays, StartToken, TypeOK, Ids, Reapers, Holding, ActiveStates,
       Final, Row, Cancel
<1>33. CASE \E u \in Cancelers : CancelFlag(u)
  <2> PICK u \in Cancelers : CancelFlag(u)
    BY <1>33
  <2> QED
    BY DEF CancelFlag, AskedInv, NeverPlays, StartToken, TypeOK, Ids, Reapers, Holding, ActiveStates,
       Final, Row, Cancel
<1>34. CASE \E u \in Cancelers : CancelAsk(u)
  <2> PICK u \in Cancelers : CancelAsk(u)
    BY <1>34
  <2>1. /\ w'.pc = w.pc \/ (w'.pc = "gone" /\ w.pc \in {"idle", "taken"})
        /\ w'.result = w.result /\ w'.flag = w.flag
    BY SignalFields, CancelSignals DEF CancelAsk
  <2> QED
    BY <2>1 DEF CancelAsk, AskedInv
<1>35. CASE \E u \in Cancelers : CancelForce(u)
  <2> PICK u \in Cancelers : CancelForce(u)
    BY <1>35
  <2> QED
    BY DEF CancelForce, AskedInv, NeverPlays, StartToken, TypeOK, Ids, Reapers, Holding,
       ActiveStates, Final, Row, Cancel
<1>36. CASE \E u \in Cancelers : CancelFallback(u)
  <2> PICK u \in Cancelers : CancelFallback(u)
    BY <1>36
  <2>1. /\ w'.pc = w.pc \/ (w'.pc = "gone" /\ w.pc \in {"idle", "taken"})
        /\ w'.result = w.result /\ w'.flag = w.flag
    BY SignalFields, CancelSignals DEF CancelFallback
  <2> QED
    BY <2>1 DEF CancelFallback, AskedInv
<1>37. CASE UNCHANGED vars
  BY <1>37 DEF vars, AskedInv, NeverPlays, StartToken, TypeOK, Ids, Reapers, Holding, ActiveStates,
     Final, Row
<1> QED
  BY <1>1, <1>2, <1>3, <1>4, <1>5, <1>6, <1>7, <1>8, <1>9, <1>10, <1>11, <1>12,
     <1>13, <1>14, <1>15, <1>16, <1>17, <1>18, <1>19, <1>20, <1>21, <1>22,
     <1>23, <1>24, <1>25, <1>26, <1>27, <1>28, <1>29, <1>30, <1>31, <1>32,
     <1>33, <1>34, <1>35, <1>36, <1>37 DEF Next, TMNext, WorkerNext, MainNext,
     ReapNext, CancelNext, AtRest

(* No step starts the job again, or loses a cancel_flag that was seen. *)
LEMMA OneStartStep ==
    ASSUME TypeOK, StartToken, OneStart, "quota" \notin Faults, [Next]_vars
    PROVE  OneStart'
<1>1. CASE TMRead
  BY <1>1 DEF TMRead, CanBegin, OneStart, TypeOK, Ids, Reapers, Holding,
     ActiveStates, Final, Row
<1>2. CASE TMStart
  BY <1>2 DEF TMStart, Fault, IdleTM, OneStart, TypeOK, Ids, Reapers,
     Holding, ActiveStates, Final, Row
<1>3. CASE TMFail
  BY <1>3 DEF TMFail, IdleTM, OneStart, TypeOK, Ids, Reapers, Holding,
     ActiveStates, Final, Row
<1>4. CASE TMDepFail
  BY <1>4 DEF TMDepFail, IdleTM, OneStart, TypeOK, Ids, Reapers, Holding,
     ActiveStates, Final, Row
<1>5. CASE TMLeave
  BY <1>5 DEF TMLeave, IdleTM, OneStart, TypeOK, Ids, Reapers, Holding,
     ActiveStates, Final, Row
<1>6. CASE WorkerTake
  BY <1>6 DEF WorkerTake, OneStart, TypeOK, Ids, Reapers, Holding,
     ActiveStates, Final, Row, Worker
<1>7. CASE WorkerStopped
  BY <1>7 DEF WorkerStopped, OneStart, TypeOK, Ids, Reapers, Holding,
     ActiveStates, Final, Row, Worker
<1>8. CASE WorkerLoad
  <2>1. /\ row'.flag = row.flag /\ row'.task = row.task
        /\ row'.status = "pending" => row.status = "pending"
    BY <1>8 DEF WorkerLoad, TypeOK, Row
  <2>2. CASE w' = Released /\ managed' = managed \ {w.task}
    BY <1>8, <2>1, <2>2, ReleasedFields DEF WorkerLoad, OneStart, Holding
  <2>3. CASE w' = [w EXCEPT !.pc = "loaded"] /\ managed' = managed
    BY <1>8, <2>1, <2>3 DEF WorkerLoad, OneStart, TypeOK, Worker, Holding
  <2> QED
    BY <1>8, <2>2, <2>3 DEF WorkerLoad
<1>9. CASE WorkerMarkRunning
  BY <1>9 DEF WorkerMarkRunning, OneStart, TypeOK, Ids, Reapers, Holding,
     ActiveStates, Final, Row, Worker
<1>10. CASE WorkerPreCheck
  <2>1. /\ row'.flag = row.flag /\ row'.task = row.task
        /\ row'.status = "pending" => row.status = "pending"
    BY <1>10 DEF WorkerPreCheck, TypeOK, Row
  <2>2. /\ w'.pc \in {"stopped", "ended", "submitted"} /\ w'.task = w.task /\ w'.orphan = w.orphan
    BY <1>10 DEF WorkerPreCheck, TypeOK, Worker
  <2> QED
    BY <1>10, <2>1, <2>2 DEF WorkerPreCheck, OneStart, Holding
<1>11. CASE WorkerQuota
  BY <1>11, ReleasedFields DEF WorkerQuota, Fault, OneStart, TypeOK, Ids,
     Reapers, Holding, ActiveStates, Final, Row
<1>12. CASE WorkerPlay
  BY <1>12 DEF WorkerPlay, OneStart, TypeOK, Ids, Reapers, Holding,
     ActiveStates, Final, Row, Worker
<1>13. CASE WorkerEnd
  BY <1>13 DEF WorkerEnd, Interpret, OneStart, TypeOK, Ids, Reapers, Holding,
     ActiveStates, Final, Row, Worker
<1>14. CASE WorkerFinal
  BY <1>14, ReleasedFields DEF WorkerFinal, OneStart, StartToken, TypeOK, Ids, Reapers,
     Holding, ActiveStates, Final, Row, Worker
<1>15. CASE Deliver
  BY <1>15, IdleFields DEF Deliver, OneStart, TypeOK, Ids, Reapers, Holding,
     ActiveStates, Final, Row
<1>16. CASE Forget
  BY <1>16 DEF Forget, OneStart, TypeOK, Ids, Reapers, Holding, ActiveStates,
     Final, Row
<1>17. CASE Cleanup
  BY <1>17 DEF Cleanup, Choice, OneStart, TypeOK, Ids, Reapers, Holding,
     ActiveStates, Final, Row
<1>18. CASE CleanupEnd
  BY <1>18, IdleFields DEF CleanupEnd, OneStart, TypeOK, Ids, Reapers,
     Holding, ActiveStates, Final, Row
<1>19. CASE Crash
  <2>1. CASE w.pc \in Holding
    <3>1. w' = [w EXCEPT !.orphan = TRUE] /\ msg' \in {"none", "lost"}
      BY <1>19, <2>1 DEF Crash
    <3> QED
      BY <1>19, <2>1, <3>1 DEF Crash, OneStart, StartToken, TypeOK, Worker, Holding
  <2>2. CASE w.pc \notin Holding
    BY <1>19, <2>2, IdleFields DEF Crash, OneStart, TypeOK, Holding
  <2> QED
    BY <2>1, <2>2
<1>20. CASE Restart
  BY <1>20 DEF Restart, Choice, OneStart, TypeOK, Ids, Reapers, Holding,
     ActiveStates, Final, Row
<1>21. CASE RestartWaiting
  BY <1>21 DEF RestartWaiting, Choice, OneStart, TypeOK, Ids, Reapers,
     Holding, ActiveStates, Final, Row
<1>22. CASE RestartEnd
  BY <1>22, IdleFields DEF RestartEnd, OneStart, TypeOK, Ids, Reapers,
     Holding, ActiveStates, Final, Row
<1>23. CASE Shutdown
  BY <1>23 DEF Shutdown, Fault, Choice, OneStart, TypeOK, Ids, Reapers,
     Holding, ActiveStates, Final, Row
<1>24. CASE ShutdownSignal
  <2>1. /\ w'.pc = w.pc \/ (w'.pc = "gone" /\ w.pc \in {"idle", "taken"})
        /\ w'.task = w.task /\ w'.orphan = w.orphan /\ w'.result = w.result
        /\ w'.flag = w.flag /\ (w.sig => w'.sig)
    BY <1>24, SignalFields DEF ShutdownSignal
  <2> QED
    BY <1>24, <2>1 DEF ShutdownSignal, OneStart, Holding
<1>25. CASE ShutdownEnd
  BY <1>25 DEF ShutdownEnd, OneStart, TypeOK, Ids, Reapers, Holding,
     ActiveStates, Final, Row
<1>26. CASE \E crowded \in BOOLEAN : HeartbeatDispatch(crowded)
  BY <1>26 DEF HeartbeatDispatch, OneStart, TypeOK, Ids, Reapers, Holding,
     ActiveStates, Final, Row
<1>27. CASE HeartbeatSelect
  BY <1>27 DEF HeartbeatSelect, Choice, IdleHeartbeat, OneStart, TypeOK, Ids,
     Reapers, Holding, ActiveStates, Final, Row
<1>28. CASE PeerSelect
  BY <1>28 DEF PeerSelect, Fault, Choice, OneStart, TypeOK, Ids, Reapers,
     Holding, ActiveStates, Final, Row
<1>29. CASE WorkerDie
  BY <1>29 DEF WorkerDie, Fault, OneStart, TypeOK, Ids, Reapers, Holding,
     ActiveStates, Final, Row, Worker
<1>30. CASE \E r \in Reapers : ReapCheck(r)
  <2> PICK r \in Reapers : ReapCheck(r)
    BY <1>30
  <2> QED
    BY DEF ReapCheck, OneStart, TypeOK, Ids, Reapers, Holding, ActiveStates,
       Final, Row
<1>31. CASE \E r \in Reapers : ReapSave(r)
  <2> PICK r \in Reapers : ReapSave(r)
    BY <1>31
  <2> QED
    BY DEF ReapSave, OneStart, TypeOK, Ids, Reapers, Holding, ActiveStates,
       Final, Row
<1>32. CASE \E u \in Cancelers : CancelLoad(u)
  <2> PICK u \in Cancelers : CancelLoad(u)
    BY <1>32
  <2> QED
    BY DEF CancelLoad, OneStart, TypeOK, Ids, Reapers, Holding, ActiveStates,
       Final, Row, Cancel
<1>33. CASE \E u \in Cancelers : CancelFlag(u)
  <2> PICK u \in Cancelers : CancelFlag(u)
    BY <1>33
  <2> QED
    BY DEF CancelFlag, OneStart, TypeOK, Ids, Reapers, Holding, ActiveStates,
       Final, Row, Cancel
<1>34. CASE \E u \in Cancelers : CancelAsk(u)
  <2> PICK u \in Cancelers : CancelAsk(u)
    BY <1>34
  <2>1. /\ w'.pc = w.pc \/ (w'.pc = "gone" /\ w.pc \in {"idle", "taken"})
        /\ w'.task = w.task /\ w'.orphan = w.orphan
        /\ w'.flag = w.flag /\ (w.sig => w'.sig)
    BY SignalFields, CancelSignals DEF CancelAsk
  <2>2. /\ \A v \in Cancelers \ {u} : c'[v] = c[v]
        /\ c'[u].pc \in {"done", "unacked"} /\ c'[u].task = c[u].task /\ c'[u].flag = c[u].flag
    BY DEF CancelAsk, TypeOK, Cancel
  <2> QED
    BY <2>1, <2>2 DEF CancelAsk, OneStart, Holding
<1>35. CASE \E u \in Cancelers : CancelForce(u)
  <2> PICK u \in Cancelers : CancelForce(u)
    BY <1>35
  <2> QED
    BY DEF CancelForce, OneStart, TypeOK, Ids, Reapers, Holding,
       ActiveStates, Final, Row, Cancel
<1>36. CASE \E u \in Cancelers : CancelFallback(u)
  <2> PICK u \in Cancelers : CancelFallback(u)
    BY <1>36
  <2>1. /\ w'.pc = w.pc \/ (w'.pc = "gone" /\ w.pc \in {"idle", "taken"})
        /\ w'.task = w.task /\ w'.orphan = w.orphan
        /\ w'.flag = w.flag /\ (w.sig => w'.sig)
    BY SignalFields, CancelSignals DEF CancelFallback
  <2>2. /\ \A v \in Cancelers \ {u} : c'[v] = c[v]
        /\ c'[u].pc = "done" /\ c'[u].task = c[u].task /\ c'[u].flag = c[u].flag
    BY DEF CancelFallback, TypeOK, Cancel
  <2> QED
    BY <2>1, <2>2 DEF CancelFallback, OneStart, Holding
<1>37. CASE UNCHANGED vars
  BY <1>37 DEF vars, OneStart, TypeOK, Ids, Reapers, Holding, ActiveStates,
     Final, Row
<1> QED
  BY <1>1, <1>2, <1>3, <1>4, <1>5, <1>6, <1>7, <1>8, <1>9, <1>10, <1>11, <1>12,
     <1>13, <1>14, <1>15, <1>16, <1>17, <1>18, <1>19, <1>20, <1>21, <1>22,
     <1>23, <1>24, <1>25, <1>26, <1>27, <1>28, <1>29, <1>30, <1>31, <1>32,
     <1>33, <1>34, <1>35, <1>36, <1>37 DEF Next, TMNext, WorkerNext, MainNext,
     ReapNext, CancelNext, AtRest

(* No step gets a playbook past an acknowledged cancel. *)
LEMMA AckedStep ==
    ASSUME TypeOK, StartToken, OneStart, AckedInv, "quota" \notin Faults, [Next]_vars
    PROVE  AckedInv'
<1>1. CASE TMRead
  BY <1>1 DEF TMRead, CanBegin, AckedInv, TypeOK, Ids, Reapers, Holding,
     ActiveStates, Final, Row
<1>2. CASE TMStart
  BY <1>2 DEF TMStart, Fault, IdleTM, OneStart, AckedInv, TypeOK, Ids, Reapers,
     Holding, ActiveStates, Final, Row
<1>3. CASE TMFail
  BY <1>3 DEF TMFail, IdleTM, OneStart, AckedInv, TypeOK, Ids, Reapers, Holding,
     ActiveStates, Final, Row
<1>4. CASE TMDepFail
  BY <1>4 DEF TMDepFail, IdleTM, AckedInv, TypeOK, Ids, Reapers, Holding,
     ActiveStates, Final, Row
<1>5. CASE TMLeave
  BY <1>5 DEF TMLeave, IdleTM, AckedInv, TypeOK, Ids, Reapers, Holding,
     ActiveStates, Final, Row
<1>6. CASE WorkerTake
  BY <1>6 DEF WorkerTake, AckedInv, TypeOK, Ids, Reapers, Holding,
     ActiveStates, Final, Row, Worker
<1>7. CASE WorkerStopped
  BY <1>7 DEF WorkerStopped, AckedInv, TypeOK, Ids, Reapers, Holding,
     ActiveStates, Final, Row, Worker
<1>8. CASE WorkerLoad
  BY <1>8, ReleasedFields DEF WorkerLoad, Startable, AckedInv, TypeOK, Ids,
     Reapers, Holding, ActiveStates, Final, Row
<1>9. CASE WorkerMarkRunning
  BY <1>9 DEF WorkerMarkRunning, AckedInv, TypeOK, Ids, Reapers, Holding,
     ActiveStates, Final, Row, Worker
<1>10. CASE WorkerPreCheck
  <2>1. row'.flag = row.flag /\ row'.task = row.task
    BY <1>10 DEF WorkerPreCheck, TypeOK, Row
  <2>2. w'.pc \in {"stopped", "ended"} \/ (w'.pc = "submitted" /\ ~w.flag /\ ~w.sig)
    BY <1>10 DEF WorkerPreCheck, TypeOK, Worker
  <2> QED
    BY <1>10, <2>1, <2>2 DEF WorkerPreCheck, AckedInv
<1>11. CASE WorkerQuota
  BY <1>11, ReleasedFields DEF WorkerQuota, Fault, AckedInv, TypeOK, Ids,
     Reapers, Holding, ActiveStates, Final, Row
<1>12. CASE WorkerPlay
  BY <1>12 DEF WorkerPlay, AckedInv, TypeOK, Ids, Reapers, Holding,
     ActiveStates, Final, Row, Worker
<1>13. CASE WorkerEnd
  BY <1>13 DEF WorkerEnd, Interpret, AckedInv, TypeOK, Ids, Reapers, Holding,
     ActiveStates, Final, Row, Worker
<1>14. CASE WorkerFinal
  BY <1>14, ReleasedFields DEF WorkerFinal, AckedInv, TypeOK, Ids, Reapers,
     Holding, ActiveStates, Final, Row, Worker
<1>15. CASE Deliver
  BY <1>15, IdleFields DEF Deliver, AckedInv, TypeOK, Ids, Reapers, Holding,
     ActiveStates, Final, Row
<1>16. CASE Forget
  BY <1>16 DEF Forget, AckedInv, TypeOK, Ids, Reapers, Holding, ActiveStates,
     Final, Row
<1>17. CASE Cleanup
  BY <1>17 DEF Cleanup, Choice, AckedInv, TypeOK, Ids, Reapers, Holding,
     ActiveStates, Final, Row
<1>18. CASE CleanupEnd
  BY <1>18, IdleFields DEF CleanupEnd, AckedInv, TypeOK, Ids, Reapers,
     Holding, ActiveStates, Final, Row
<1>19. CASE Crash
  BY <1>19, IdleFields DEF Crash, Fault, AckedInv, TypeOK, Ids, Reapers,
     Holding, ActiveStates, Final, Row, Worker
<1>20. CASE Restart
  BY <1>20 DEF Restart, Choice, AckedInv, TypeOK, Ids, Reapers, Holding,
     ActiveStates, Final, Row
<1>21. CASE RestartWaiting
  BY <1>21 DEF RestartWaiting, Choice, AckedInv, TypeOK, Ids, Reapers,
     Holding, ActiveStates, Final, Row
<1>22. CASE RestartEnd
  BY <1>22, IdleFields DEF RestartEnd, AckedInv, TypeOK, Ids, Reapers,
     Holding, ActiveStates, Final, Row
<1>23. CASE Shutdown
  BY <1>23 DEF Shutdown, Fault, Choice, AckedInv, TypeOK, Ids, Reapers,
     Holding, ActiveStates, Final, Row
<1>24. CASE ShutdownSignal
  <2>1. /\ w'.pc = w.pc \/ (w'.pc = "gone" /\ w.pc \in {"idle", "taken"})
        /\ w'.task = w.task /\ w'.orphan = w.orphan /\ w'.result = w.result
        /\ w'.flag = w.flag /\ (w.sig => w'.sig)
    BY <1>24, SignalFields DEF ShutdownSignal
  <2> QED
    BY <1>24, <2>1 DEF ShutdownSignal, AckedInv
<1>25. CASE ShutdownEnd
  BY <1>25 DEF ShutdownEnd, AckedInv, TypeOK, Ids, Reapers, Holding,
     ActiveStates, Final, Row
<1>26. CASE \E crowded \in BOOLEAN : HeartbeatDispatch(crowded)
  BY <1>26 DEF HeartbeatDispatch, AckedInv, TypeOK, Ids, Reapers, Holding,
     ActiveStates, Final, Row
<1>27. CASE HeartbeatSelect
  BY <1>27 DEF HeartbeatSelect, Choice, IdleHeartbeat, AckedInv, TypeOK, Ids,
     Reapers, Holding, ActiveStates, Final, Row
<1>28. CASE PeerSelect
  BY <1>28 DEF PeerSelect, Fault, Choice, AckedInv, TypeOK, Ids, Reapers,
     Holding, ActiveStates, Final, Row
<1>29. CASE WorkerDie
  BY <1>29 DEF WorkerDie, Fault, AckedInv, TypeOK, Ids, Reapers, Holding,
     ActiveStates, Final, Row, Worker
<1>30. CASE \E r \in Reapers : ReapCheck(r)
  <2> PICK r \in Reapers : ReapCheck(r)
    BY <1>30
  <2> QED
    BY DEF ReapCheck, AckedInv, TypeOK, Ids, Reapers, Holding, ActiveStates,
       Final, Row
<1>31. CASE \E r \in Reapers : ReapSave(r)
  <2> PICK r \in Reapers : ReapSave(r)
    BY <1>31
  <2> QED
    BY DEF ReapSave, AckedInv, TypeOK, Ids, Reapers, Holding, ActiveStates,
       Final, Row
<1>32. CASE \E u \in Cancelers : CancelLoad(u)
  <2> PICK u \in Cancelers : CancelLoad(u)
    BY <1>32
  <2> QED
    BY DEF CancelLoad, AckedInv, TypeOK, Ids, Reapers, Holding, ActiveStates,
       Final, Row, Cancel
<1>33. CASE \E u \in Cancelers : CancelFlag(u)
  <2> PICK u \in Cancelers : CancelFlag(u)
    BY <1>33
  <2> QED
    BY DEF CancelFlag, AckedInv, TypeOK, Ids, Reapers, Holding, ActiveStates,
       Final, Row, Cancel
<1>34. CASE \E u \in Cancelers : CancelAsk(u)
  <2> PICK u \in Cancelers : CancelAsk(u)
    BY <1>34
  <2>1. /\ w'.pc = w.pc \/ (w'.pc = "gone" /\ w.pc \in {"idle", "taken"})
        /\ w'.task = w.task /\ w'.orphan = w.orphan
        /\ w'.flag = w.flag /\ (w.sig => w'.sig)
    BY SignalFields, CancelSignals DEF CancelAsk
  <2>2. /\ \A v \in Cancelers \ {u} : c'[v] = c[v]
        /\ c'[u].pc \in {"done", "unacked"} /\ c'[u].task = c[u].task /\ c'[u].flag = c[u].flag
    BY DEF CancelAsk, TypeOK, Cancel
  <2>3. CASE acked
    BY <2>1, <2>2, <2>3 DEF CancelAsk, AckedInv
  <2>4. CASE acked' /\ ~acked
    <3>1. /\ c[u].pc = "flagged" /\ c[u].task # 0 /\ c[u].task \in managed
          /\ CancelSignal(c[u].task) /\ runs = 0 /\ w.pc # "submitted"
      BY <2>4 DEF CancelAsk, TypeOK
    <3>2. row.flag /\ row.task = c[u].task /\ w.pc # "executing"
      BY <3>1 DEF OneStart
    <3>3. w.pc \in {"loaded", "marked"} => ~w.orphan /\ w.task = c[u].task
      BY <3>1, <3>2 DEF OneStart, Holding, TypeOK, Worker
    <3>4. w.pc \in {"loaded", "marked"} => SignalWorker
      BY <3>1, <3>3, CancelSignals
    <3>5. w.pc \in {"loaded", "marked"} => w'.sig
      BY <3>4, SignalFields
    <3> QED
      BY <2>1, <3>1, <3>2, <3>5 DEF CancelAsk, AckedInv
  <2>5. CASE ~acked'
    BY <2>5 DEF AckedInv
  <2> QED
    BY <2>3, <2>4, <2>5
<1>35. CASE \E u \in Cancelers : CancelForce(u)
  <2> PICK u \in Cancelers : CancelForce(u)
    BY <1>35
  <2> QED
    BY DEF CancelForce, AckedInv, TypeOK, Ids, Reapers, Holding,
       ActiveStates, Final, Row, Cancel
<1>36. CASE \E u \in Cancelers : CancelFallback(u)
  <2> PICK u \in Cancelers : CancelFallback(u)
    BY <1>36
  <2>1. /\ w'.pc = w.pc \/ (w'.pc = "gone" /\ w.pc \in {"idle", "taken"})
        /\ w'.task = w.task /\ w'.orphan = w.orphan
        /\ w'.flag = w.flag /\ (w.sig => w'.sig)
    BY SignalFields, CancelSignals DEF CancelFallback
  <2>2. /\ \A v \in Cancelers \ {u} : c'[v] = c[v]
        /\ c'[u].pc = "done" /\ c'[u].task = c[u].task /\ c'[u].flag = c[u].flag
    BY DEF CancelFallback, TypeOK, Cancel
  <2> QED
    BY <2>1, <2>2 DEF CancelFallback, AckedInv, OneStart
<1>37. CASE UNCHANGED vars
  BY <1>37 DEF vars, AckedInv, TypeOK, Ids, Reapers, Holding, ActiveStates,
     Final, Row
<1> QED
  BY <1>1, <1>2, <1>3, <1>4, <1>5, <1>6, <1>7, <1>8, <1>9, <1>10, <1>11, <1>12,
     <1>13, <1>14, <1>15, <1>16, <1>17, <1>18, <1>19, <1>20, <1>21, <1>22,
     <1>23, <1>24, <1>25, <1>26, <1>27, <1>28, <1>29, <1>30, <1>31, <1>32,
     <1>33, <1>34, <1>35, <1>36, <1>37 DEF Next, TMNext, WorkerNext, MainNext,
     ReapNext, CancelNext, AtRest

(* BaseTask.run gets the same signal for a shutdown and for a cancel, and  *)
(* tells them apart by cancel_flag: once the playbook has been started the *)
(* job becomes canceled only if somebody asked, whatever is shut down.     *)
THEOREM CanceledOnlyIfAsked == Spec => []CanceledWasAsked
<1>1. Init => AskedInv
  BY DEF Init, AskedInv, IdleTM, IdleWorker
<1>2. IInv /\ AskedInv /\ [Next]_vars => AskedInv'
  BY AskedStep DEF IInv
<1>3. AskedInv => CanceledWasAsked
  BY DEF AskedInv, NeverPlays, CanceledWasAsked
<1> QED
  BY <1>1, <1>2, <1>3, Invariance, PTL DEF Spec

(* UnifiedJob.cancel, BaseTask.run: a cancel that the dispatcher            *)
(* acknowledged before the work was submitted keeps the playbook from      *)
(* starting, unless an exceeded quota starts the job again.                *)
THEOREM AcknowledgedCancelHolds ==
    ASSUME "quota" \notin Faults
    PROVE  Spec => []AckedNeverPlays
<1> DEFINE Inv == TypeOK /\ StartToken /\ OneStart /\ AckedInv
<1>1. Init => Inv
  BY TypeInit, StartAssumption DEF Init, StartToken, OneStart, AckedInv, IdleTM, IdleWorker, Holding
<1>2. Inv /\ [Next]_vars => Inv'
  BY TypeStep, TokenStep, OneStartStep, AckedStep
<1>3. Inv => AckedNeverPlays
  BY DEF AckedInv, AckedNeverPlays
<1> HIDE DEF Inv
<1> QED
  BY <1>1, <1>2, <1>3, PTL DEF Spec
=============================================================================
