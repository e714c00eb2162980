----------------------------- MODULE ReceptorWork -----------------------------
(***************************************************************************)
(* One run of a job on receptor: the main thread submits a work unit while *)
(* a transmitter thread writes the payload, then a processor thread reads  *)
(* the results while the main thread waits for it or for a signal, and the *)
(* unit is released at the end.  Signals, failing commands, the death of   *)
(* the worker, and the periodic task that releases what is left.           *)
(***************************************************************************)
EXTENDS Naturals, FiniteSets

CONSTANTS
    MaxSignals,         \* bound of the SIGTERMs: a cancel request, a shutdown
    MaxMishaps          \* bound of the commands that fail and the deaths

VARIABLES
    payload,            \* whether the payload is larger than the buffer of the socket
    main,               \* the main thread: its position, its result
    transmitter, processor,
    signals,            \* the SIGTERMs so far: sigterm_flag is set when there is one
    raising,            \* signal_state.raise_exception
    unit,               \* the work unit in receptor
    known,              \* who knows its id: nobody, the worker, the row of the job
    socket,             \* the result socket is open
    over,               \* the job's row is final
    mishaps,            \* history: what went wrong
    heeded              \* history: a signal came before the results were read

workvars == <<payload, main, transmitter, processor, signals, raising, unit, known, socket, over, mishaps, heeded>>

Init ==
    /\ payload \in {"small", "large"}
    /\ main = [at |-> "start", result |-> "none"]
    /\ transmitter = "off" /\ processor = "off"
    /\ signals = 0 /\ raising = FALSE
    /\ unit = "none" /\ known = "nobody"
    /\ socket = FALSE /\ over = FALSE
    /\ mishaps = {} /\ heeded = FALSE

Mishap(m) == Cardinality(mishaps) < MaxMishaps /\ mishaps' = mishaps \union {m}

\* Where an exception leads: out of a with block only when its thread has ended.
Goto(at) == main' = [main EXCEPT !.at = at]
Raise(at) == main' = [at |-> at, result |-> "error"]

-----------------------------------------------------------------------------
(* Submitting *)

\* The node may not be in the mesh; otherwise the transmitter starts.
Begin ==
    /\ main.at = "start"
    /\ \/ Goto("submitting") /\ transmitter' = "writing"
       \/ Raise("releasing") /\ UNCHANGED transmitter
    /\ UNCHANGED <<payload, processor, signals, raising, unit, known, socket, over, mishaps, heeded>>

\* submit_work: the unit is created, then the payload is copied to receptor.
CreateUnit ==
    /\ main.at = "submitting"
    /\ unit' = "active"
    /\ Goto("copying")
    /\ UNCHANGED <<payload, transmitter, processor, signals, raising, known, socket, over, mishaps, heeded>>

\* A small payload fits into the buffer; a large one needs a reader.  The writing may fail.
Transmit ==
    /\ transmitter = "writing"
    /\ payload = "small" \/ main.at = "copying"
    /\ transmitter' \in {"done", "failed"}
    /\ UNCHANGED <<payload, main, processor, signals, raising, unit, known, socket, over, mishaps, heeded>>

\* The end of the payload ends submit_work.
Submitted ==
    /\ main.at = "copying" /\ transmitter # "writing"
    /\ known' = "worker"
    /\ Goto("saving")
    /\ UNCHANGED <<payload, transmitter, processor, signals, raising, unit, socket, over, mishaps, heeded>>

\* submit_work fails, perhaps after the unit was created.
SubmitFails ==
    /\ main.at \in {"submitting", "copying"}
    /\ Mishap("submit")
    /\ Raise("joining")
    /\ UNCHANGED <<payload, transmitter, processor, signals, raising, unit, known, socket, over, heeded>>

\* The end of the first with block waits for the transmitter, which nobody may be reading from.
JoinTransmitter ==
    /\ main.at = "joining" /\ transmitter # "writing"
    /\ Goto("releasing")
    /\ UNCHANGED <<payload, transmitter, processor, signals, raising, unit, known, socket, over, mishaps, heeded>>

\* update_model(work_unit_id) ...
SaveUnitId ==
    /\ main.at = "saving"
    /\ known' = "row"
    /\ Goto("saved")
    /\ UNCHANGED <<payload, transmitter, processor, signals, raising, unit, socket, over, mishaps, heeded>>

\* ... which, when the database fails for long or a signal comes during its retries, raises.
SaveFails ==
    /\ main.at = "saving"
    /\ Mishap("save")
    /\ Raise("releasing")
    /\ UNCHANGED <<payload, transmitter, processor, signals, raising, unit, known, socket, over, heeded>>

-----------------------------------------------------------------------------
(* Reading the results *)

\* What the transmitter raised is raised here; get_work_results opens the socket and the processor starts.
GetResults ==
    /\ main.at = "saved"
    /\ IF transmitter = "failed"
       THEN Raise("releasing") /\ UNCHANGED <<processor, socket>>
       ELSE Goto("arming") /\ processor' = "reading" /\ socket' = TRUE
    /\ UNCHANGED <<payload, transmitter, signals, raising, unit, known, over, mishaps, heeded>>

Arm ==
    /\ main.at = "arming"
    /\ raising' = TRUE
    /\ Goto("armed")
    /\ UNCHANGED <<payload, transmitter, processor, signals, unit, known, socket, over, mishaps, heeded>>

\* A signal that came before is acted upon now; raise_exception stays set.
DeafCheckSignal ==
    main.at = "armed" /\ Goto("waiting")
    /\ UNCHANGED <<payload, transmitter, processor, signals, raising, unit, known, socket, over, mishaps, heeded>>

CheckSignal ==
    /\ main.at = "armed"
    /\ Goto(IF signals > 0 THEN "canceling" ELSE "waiting")
    /\ UNCHANGED <<payload, transmitter, processor, signals, raising, unit, known, socket, over, mishaps, heeded>>

\* The processor has read everything and returns the status.
WaitEnds ==
    /\ main.at = "waiting" /\ processor \in {"successful", "failed", "error"}
    /\ main' = [at |-> IF processor = "error" THEN "details" ELSE "leaving", result |-> processor]
    /\ raising' = FALSE
    /\ UNCHANGED <<payload, transmitter, processor, signals, unit, known, socket, over, mishaps, heeded>>

\* After an error the status of the unit tells whether the quota of the container group was exceeded; then the job is
\* pending again.  Whatever else is found there is for the user.
ReadDetails ==
    /\ main.at = "details"
    /\ \E result \in {"error", "pending"} : main' = [at |-> "leaving", result |-> result]
    /\ UNCHANGED <<payload, transmitter, processor, signals, raising, unit, known, socket, over, mishaps, heeded>>

\* The processor reads until the unit has ended or the socket is shut.
ProcessorEnds ==
    /\ processor = "reading"
    /\ unit # "active" \/ ~socket
    /\ processor' \in {"successful", "failed", "error"}
    /\ UNCHANGED <<payload, main, transmitter, signals, raising, unit, known, socket, over, mishaps, heeded>>

-----------------------------------------------------------------------------
(* Signals *)

\* set_sigterm_flag and raise_if_needed.  In the handling of the first SignalExit, raise_exception has been reset by
\* the signal that raised it; not so when the exception was raised by the main thread itself.
Signal ==
    /\ main.at \notin {"done", "dead"} /\ signals < MaxSignals
    /\ signals' = signals + 1
    /\ heeded' = (heeded \/ processor \in {"off", "reading"})
    /\ raising' = FALSE
    /\ IF ~raising THEN UNCHANGED <<main, mishaps>>
       ELSE IF main.at \in {"armed", "waiting"} THEN Goto("canceling") /\ UNCHANGED mishaps
            ELSE Raise("leaving") /\ mishaps' = mishaps \union {"interrupted"}
    /\ UNCHANGED <<payload, transmitter, processor, unit, known, socket, over>>

\* The handling of SignalExit: work cancel ...
CancelUnit ==
    /\ main.at = "canceling"
    /\ unit' = IF unit = "active" THEN "ended" ELSE unit
    /\ Goto("shutting")
    /\ UNCHANGED <<payload, transmitter, processor, signals, raising, known, socket, over, mishaps, heeded>>

CancelFails ==
    /\ main.at = "canceling"
    /\ Mishap("cancel")
    /\ raising' = FALSE
    /\ Raise("leaving")
    /\ UNCHANGED <<payload, transmitter, processor, signals, unit, known, socket, over, heeded>>

\* ... and the socket is taken from the processor.
ShutSocket ==
    /\ main.at = "shutting"
    /\ socket' = FALSE
    /\ raising' = FALSE
    /\ main' = [at |-> "leaving", result |-> "canceled"]
    /\ UNCHANGED <<payload, transmitter, processor, signals, unit, known, over, mishaps, heeded>>

-----------------------------------------------------------------------------
(* The end *)

\* The end of the second with block waits for the processor.
HastyJoinProcessor ==
    main.at = "leaving" /\ Goto("releasing")
    /\ UNCHANGED <<payload, transmitter, processor, signals, raising, unit, known, socket, over, mishaps, heeded>>

JoinProcessor ==
    /\ main.at = "leaving" /\ processor # "reading"
    /\ Goto("releasing")
    /\ UNCHANGED <<payload, transmitter, processor, signals, raising, unit, known, socket, over, mishaps, heeded>>

\* The finally of run; a failure is only logged.
Release ==
    /\ main.at = "releasing"
    /\ Goto("done")
    /\ \/ /\ unit' = IF known = "nobody" THEN unit ELSE "gone"
          /\ UNCHANGED mishaps
       \/ known # "nobody" /\ Mishap("release") /\ UNCHANGED unit
    /\ UNCHANGED <<payload, transmitter, processor, signals, raising, known, socket, over, heeded>>

\* The playbook ends by itself.
UnitEnds ==
    /\ unit = "active"
    /\ unit' = "ended"
    /\ UNCHANGED <<payload, main, transmitter, processor, signals, raising, known, socket, over, mishaps, heeded>>

\* The worker dies with its threads; receptor goes on.
WorkerDies ==
    /\ main.at \notin {"done", "dead"}
    /\ Mishap("death")
    /\ Goto("dead")
    /\ transmitter' = "off" /\ processor' = "off"
    /\ UNCHANGED <<payload, signals, raising, unit, known, socket, over, heeded>>

\* The rest of BaseTask.run, or a reaper, makes the row final.
JobIsOver ==
    /\ main.at \in {"done", "dead"} /\ ~over
    /\ main.result # "pending"
    /\ over' = TRUE
    /\ UNCHANGED <<payload, main, transmitter, processor, signals, raising, unit, known, socket, mishaps, heeded>>

\* awx_receptor_workunit_reaper cancels and releases the units of jobs that are not active.
ReapUnit ==
    /\ known = "row" /\ over
    /\ unit \in {"active", "ended"}
    /\ unit' = "gone"
    /\ UNCHANGED <<payload, main, transmitter, processor, signals, raising, known, socket, over, mishaps, heeded>>

Threads ==
    \/ Begin \/ CreateUnit \/ Transmit \/ Submitted \/ JoinTransmitter \/ SaveUnitId
    \/ GetResults \/ Arm \/ CheckSignal \/ WaitEnds \/ ReadDetails \/ ProcessorEnds
    \/ CancelUnit \/ ShutSocket \/ JoinProcessor \/ Release
    \/ JobIsOver \/ ReapUnit

Next ==
    \/ Threads
    \/ Signal \/ UnitEnds
    \/ SubmitFails \/ SaveFails \/ CancelFails \/ WorkerDies

Spec == Init /\ [][Next]_workvars /\ WF_workvars(Threads)

-----------------------------------------------------------------------------

Results == {"successful", "failed", "error"}

TypeOK ==
    /\ payload \in {"small", "large"}
    /\ main \in [at : {"start", "submitting", "copying", "joining", "saving", "saved", "arming", "armed", "waiting",
                       "details", "canceling", "shutting", "leaving", "releasing", "done", "dead"},
                 result : Results \union {"none", "canceled", "pending"}]
    /\ transmitter \in {"off", "writing", "done", "failed"}
    /\ processor \in {"off", "reading"} \union Results
    /\ signals \in 0 .. MaxSignals /\ raising \in BOOLEAN
    /\ unit \in {"none", "active", "ended", "gone"}
    /\ known \in {"nobody", "worker", "row"}
    /\ socket \in BOOLEAN /\ over \in BOOLEAN
    /\ mishaps \subseteq {"submit", "save", "cancel", "release", "death", "interrupted"}
    /\ heeded \in BOOLEAN

\* While the results of a unit are read, nobody takes it away; and the run that knows a unit leaves none behind, unless
\* the release itself failed.
UnitReleased ==
    /\ processor = "reading" => unit # "gone"
    /\ main.at = "done" /\ known # "nobody" /\ "release" \notin mishaps => unit = "gone"

\* A run does not end well, or fail by itself, or go back to pending, past a signal that came before all results were
\* read.
SignalHeeded == main.at = "done" /\ heeded => main.result \in {"canceled", "error"}

\* A signal ends the run, whatever the playbook does.  It does not when the submission failed with a payload that
\* nobody reads, and it waits for the playbook when the cancel failed, or its handling was interrupted by a second
\* signal.  No unit is left behind whose id reached the row of the job.
WorkSettles ==
    /\ signals > 0 =>
         \/ main.at \in {"done", "dead"}
         \/ main.at = "joining" /\ payload = "large" /\ "submit" \in mishaps
         \/ main.at = "leaving" /\ unit = "active" /\ mishaps \intersect {"cancel", "interrupted"} # {}
    /\ over /\ known = "row" => unit \in {"none", "gone"}
=============================================================================
