-------------------------- MODULE EventProcessing --------------------------
(***************************************************************************)
(* The events of one job: its worker pushes them on a redis list, several  *)
(* callback receivers pop them, buffer them and save them in batches.  The *)
(* notifications of the job are sent once: by its worker if the wrapup is  *)
(* already processed when it saves the final status, else by the receiver  *)
(* that processes the wrapup; the row lock decides which of them.          *)
(***************************************************************************)
EXTENDS Integers, Sequences, SequencesExt, Sums

CONSTANTS
    Receivers,          \* the receiver's worker processes
    Events,             \* 1 .. n: the events of a complete run; the last one is playbook_on_stats
    MaxFaults           \* bound of faults

VARIABLES
    wrapup,             \* WRAPUP_EVENT of the job's type: "stats" or "eof"
    unsaveable,         \* events that the database refuses
    worker,             \* the job's worker: next event, position, what it has read without the lock
    job,                \* the row: final status, host_status_counts set, emitted_events
    redis,              \* the list: events, and 0 for EOF
    receiver,           \* per receiver: position, buffer, retries of the unsaveable event
    saved,              \* how often each event was saved
    notified,           \* how often the job's notifications were sent
    faults,             \* bound for MaxFaults, and history
    reaped              \* history: the reaper ended the job

vars == <<wrapup, unsaveable, worker, job, redis, receiver, saved, notified, faults, reaped>>

EOF == 0
LastEvent == Cardinality(Events)
INDIVIDUAL_EVENT_RETRIES == 3
Idle == [at |-> "idle", buff |-> {}, tries |-> 0]

Init ==
    /\ wrapup \in {"stats", "eof"}
    /\ unsaveable \in {{}, {1}}
    /\ worker = [at |-> "playing", event |-> 1, dispatched |-> FALSE, counts |-> FALSE]
    /\ job = [final |-> FALSE, counts |-> FALSE, emitted |-> 0]
    /\ redis = <<>>
    /\ receiver = [r \in Receivers |-> Idle]
    /\ saved = [e \in Events |-> 0]
    /\ notified = 0
    /\ faults = 0
    /\ reaped = FALSE

Fault == faults < MaxFaults /\ faults' = faults + 1
WorkerOnly == UNCHANGED <<wrapup, unsaveable, receiver, saved>>

-----------------------------------------------------------------------------
\* The job's worker

\* event_handler: an event goes to redis.
event_handler ==
    /\ worker.at = "playing" /\ worker.event \in Events
    /\ redis' = Append(redis, worker.event)
    /\ worker' = [worker EXCEPT !.event = @ + 1,
                                !.dispatched = @ \/ (wrapup = "stats" /\ worker.event = LastEvent)]
    /\ WorkerOnly /\ UNCHANGED <<job, notified, faults, reaped>>

\* redis refuses an event: the run ends with an error.  The wrapup counts as dispatched even then.
DispatchFails ==
    /\ worker.at = "playing" /\ worker.event \in Events
    /\ Fault
    /\ worker' = [worker EXCEPT !.at = "ended",
                                !.dispatched = @ \/ (wrapup = "stats" /\ worker.event = LastEvent)]
    /\ WorkerOnly /\ UNCHANGED <<job, redis, notified, reaped>>

\* finished_callback: the run ends, perhaps before its last event.
finished_callback ==
    /\ worker.at = "playing"
    /\ redis' = Append(redis, EOF)
    /\ worker' = [worker EXCEPT !.at = "ended", !.dispatched = @ \/ wrapup = "eof"]
    /\ WorkerOnly /\ UNCHANGED <<job, notified, faults, reaped>>

\* The run ends without its finished_callback.
EndsEarly ==
    /\ worker.at = "playing"
    /\ worker' = [worker EXCEPT !.at = "ended"]
    /\ WorkerOnly /\ UNCHANGED <<job, redis, notified, faults, reaped>>

FaultyToNotify(counts) == "notify"
\* Who saves the final status sends the notifications, if the wrapup is done or never comes.
ToNotify(counts) == IF counts \/ ~worker.dispatched THEN "notify" ELSE "done"

\* update_model with the row locked: the final status is saved and host_status_counts read in one step.
SaveStatus ==
    /\ worker.at = "ended"
    /\ job' = [job EXCEPT !.final = TRUE, !.emitted = worker.event - 1]
    /\ worker' = [worker EXCEPT !.at = ToNotify(job.counts)]
    /\ WorkerOnly /\ UNCHANGED <<redis, notified, faults, reaped>>

\* A database error makes update_model try again, now without the lock: what it reads may be old when it saves.
ReadUnlocked ==
    /\ worker.at = "ended"
    /\ Fault
    /\ worker' = [worker EXCEPT !.at = "saving", !.counts = job.counts]
    /\ WorkerOnly /\ UNCHANGED <<job, redis, notified, reaped>>

SaveUnlocked ==
    /\ worker.at = "saving"
    /\ job' = [job EXCEPT !.final = TRUE, !.emitted = worker.event - 1]
    /\ worker' = [worker EXCEPT !.at = ToNotify(worker.counts)]
    /\ WorkerOnly /\ UNCHANGED <<redis, notified, faults, reaped>>

WorkerNotifies ==
    /\ worker.at = "notify"
    /\ worker' = [worker EXCEPT !.at = "done"]
    /\ notified' = notified + 1
    /\ WorkerOnly /\ UNCHANGED <<job, redis, faults, reaped>>

\* The worker dies; what it has pushed stays.
WorkerDies ==
    /\ worker.at \in {"playing", "ended", "saving", "notify"}
    /\ Fault
    /\ worker' = [worker EXCEPT !.at = "done"]
    /\ WorkerOnly /\ UNCHANGED <<job, redis, notified, reaped>>

\* reap_job fails the job of a worker that died, and notifies whether or not a wrapup comes.
Reap ==
    /\ worker.at = "done" /\ ~job.final
    /\ job' = [job EXCEPT !.final = TRUE]
    /\ notified' = notified + 1
    /\ reaped' = TRUE
    /\ WorkerOnly /\ UNCHANGED <<worker, redis, faults>>

-----------------------------------------------------------------------------
\* The receivers

ReceiverOnly == UNCHANGED <<wrapup, unsaveable, worker, reaped>>

\* read and perform_work of an event: it is buffered, and the buffer flushed if that is due.
Buffer(r) ==
    /\ receiver[r].at = "idle"
    /\ redis # <<>> /\ Head(redis) # EOF
    /\ redis' = Tail(redis)
    /\ \E due \in BOOLEAN :
         receiver' = [receiver EXCEPT ![r].buff = @ \union {Head(redis)},
                                      ![r].at = IF due THEN "flush" ELSE "idle"]
    /\ ReceiverOnly /\ UNCHANGED <<job, saved, notified, faults>>

\* EOF is not saved; the buffer is left as it is.
HandleEOF(r) ==
    /\ receiver[r].at = "idle"
    /\ redis # <<>> /\ Head(redis) = EOF
    /\ redis' = Tail(redis)
    /\ receiver' = [receiver EXCEPT ![r].at = IF wrapup = "eof" THEN "wrapup" ELSE "idle"]
    /\ ReceiverOnly /\ UNCHANGED <<job, saved, notified, faults>>

\* The read times out, or fails: FLUSH.
ReadTimesOut(r) ==
    /\ receiver[r].at = "idle" /\ receiver[r].buff # {}
    /\ receiver' = [receiver EXCEPT ![r].at = "flush"]
    /\ ReceiverOnly /\ UNCHANGED <<job, redis, saved, notified, faults>>

\* After the events are saved they are broadcast, and the wrapup among them is processed.
AfterSave(now) == IF wrapup = "stats" /\ LastEvent \in now THEN "wrapup" ELSE "idle"

SaveAll(now) == saved' = [e \in Events |-> saved[e] + IF e \in now THEN 1 ELSE 0]

\* bulk_create saves the whole buffer, which is empty then.
BulkCreate(r) ==
    /\ receiver[r].at = "flush" /\ receiver[r].buff \intersect unsaveable = {}
    /\ SaveAll(receiver[r].buff)
    /\ receiver' = [receiver EXCEPT ![r].buff = {}, ![r].at = AfterSave(receiver[r].buff)]
    /\ ReceiverOnly /\ UNCHANGED <<job, redis, notified, faults>>

FaultySaveEach(r) ==     \* leaves the saved events in the buffer
    /\ receiver[r].at = "flush" /\ receiver[r].buff \intersect unsaveable # {}
    /\ SaveAll(receiver[r].buff \ unsaveable)
    /\ receiver' = [receiver EXCEPT ![r].tries = (@ + 1) % INDIVIDUAL_EVENT_RETRIES, ![r].at = "idle"]
    /\ ReceiverOnly /\ UNCHANGED <<job, redis, notified, faults>>

\* The database refuses an event of the batch: each is saved on its own, and leaves the buffer when it is
\* saved, or when it was refused too often.
SaveEach(r) ==
    /\ receiver[r].at = "flush" /\ receiver[r].buff \intersect unsaveable # {}
    /\ LET now == receiver[r].buff \ unsaveable
           given_up == receiver[r].tries + 1 >= INDIVIDUAL_EVENT_RETRIES
       IN  /\ SaveAll(now)
           /\ receiver' = [receiver EXCEPT ![r].buff = IF given_up THEN {} ELSE @ \intersect unsaveable,
                                           ![r].tries = @ + 1, ![r].at = AfterSave(now)]
    /\ ReceiverOnly /\ UNCHANGED <<job, redis, notified, faults>>

\* The database stays away for all retries of the flush: the buffer is dropped.
GiveUp(r) ==
    /\ receiver[r].at = "flush"
    /\ Fault
    /\ receiver' = [receiver EXCEPT ![r].buff = {}, ![r].at = "idle"]
    /\ ReceiverOnly /\ UNCHANGED <<job, redis, saved, notified>>

\* job_stats_wrapup: with the row locked, host_status_counts is saved and the status read.
Wrapup(r) ==
    /\ receiver[r].at = "wrapup"
    /\ job' = [job EXCEPT !.counts = TRUE]
    /\ receiver' = [receiver EXCEPT ![r].at = IF job.final THEN "notify" ELSE "idle"]
    /\ ReceiverOnly /\ UNCHANGED <<redis, saved, notified, faults>>

\* The broadcast of a saved event, or the wrapup itself, fails: the wrapup is not tried again, for the
\* buffer is empty.
WrapupFails(r) ==
    /\ receiver[r].at = "wrapup"
    /\ Fault
    /\ receiver' = [receiver EXCEPT ![r].at = "idle"]
    /\ ReceiverOnly /\ UNCHANGED <<job, redis, saved, notified>>

ReceiverNotifies(r) ==
    /\ receiver[r].at = "notify"
    /\ notified' = notified + 1
    /\ receiver' = [receiver EXCEPT ![r].at = "idle"]
    /\ ReceiverOnly /\ UNCHANGED <<job, redis, saved, faults>>

\* A receiver is stopped or dies, and with it its buffer: work_loop ends without a flush.
ReceiverStops(r) ==
    /\ receiver[r].at # "stopped"
    /\ Fault
    /\ receiver' = [receiver EXCEPT ![r] = [Idle EXCEPT !.at = "stopped"]]
    /\ ReceiverOnly /\ UNCHANGED <<job, redis, saved, notified>>

-----------------------------------------------------------------------------

Receive(r) ==
    \/ Buffer(r) \/ HandleEOF(r) \/ ReadTimesOut(r) \/ BulkCreate(r) \/ SaveEach(r)
    \/ Wrapup(r) \/ ReceiverNotifies(r)
Work == SaveStatus \/ SaveUnlocked \/ WorkerNotifies \/ Reap
Finish == finished_callback \/ EndsEarly

Progress == Work \/ Finish \/ \E r \in Receivers : Receive(r)

Next ==
    \/ event_handler \/ DispatchFails \/ ReadUnlocked \/ WorkerDies
    \/ \E r \in Receivers : GiveUp(r) \/ WrapupFails(r) \/ ReceiverStops(r)
    \/ Progress

Spec == Init /\ [][Next]_vars

-----------------------------------------------------------------------------

TypeOK ==
    /\ wrapup \in {"stats", "eof"}
    /\ unsaveable \subseteq Events
    /\ worker \in [at : {"playing", "ended", "saving", "notify", "done"}, event : Events \union {LastEvent + 1},
                   dispatched : BOOLEAN, counts : BOOLEAN]
    /\ job \in [final : BOOLEAN, counts : BOOLEAN, emitted : Events \union {0}]
    /\ redis \in Seq(Events \union {EOF})
    /\ receiver \in [Receivers -> [at : {"idle", "flush", "wrapup", "notify", "stopped"}, buff : SUBSET Events,
                                   tries : 0 .. INDIVIDUAL_EVENT_RETRIES]]
    /\ saved \in [Events -> 0 .. 1]
    /\ notified \in Nat
    /\ faults \in 0 .. MaxFaults
    /\ reaped \in BOOLEAN

\* The notifications of a job are not sent twice, whoever of worker and receivers comes first; only of a job
\* that the reaper has ended they may be, for the reaper does not ask whether a wrapup comes.
NotifiedOnce == notified <= 1 \/ reaped

\* When everything is processed, somebody has sent the notifications, unless something failed: neither the
\* worker nor the receiver may leave them to the other one.
SomeoneNotifies ==
    /\ worker.at = "done" /\ redis = <<>>
    /\ \A r \in Receivers : receiver[r].at = "idle" /\ LastEvent \notin receiver[r].buff
    /\ faults = 0
    => notified = 1

\* No event is saved twice or kept for a second save, though failed batches are saved again one by one.
EventInOnePlace ==
    \A e \in Events :
        saved[e] + Cardinality({i \in DOMAIN redis : redis[i] = e})
                 + Cardinality({r \in Receivers : e \in receiver[r].buff}) <= 1

Rows == SumTo(saved, LastEvent)

\* event_processing_finished is not true while an event is on its way, unless the job was reaped, which leaves
\* emitted_events at 0.
FinishedMeansSaved ==
    job.final /\ job.emitted = Rows /\ ~reaped =>
        /\ \A i \in DOMAIN redis : redis[i] = EOF
        /\ \A r \in Receivers : receiver[r].buff = {}

\* Every job comes to its final status; without a fault all its events but the unsaveable one are saved then,
\* and its notifications are sent.
Processed ==
    /\ job.final
    /\ faults = 0 => /\ notified = 1
                     /\ job.emitted = Rows + Cardinality({e \in unsaveable : e <= job.emitted})
=============================================================================
