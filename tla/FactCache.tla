----------------------------- MODULE FactCache -----------------------------
(***************************************************************************)
(* The facts of one host: jobs write them to a file at their start, let    *)
(* the playbook gather or clear them, and save what the file says at their *)
(* end.  A task after each job takes a snapshot if the facts differ from   *)
(* the latest one, and another compares it with the one before.            *)
(***************************************************************************)
EXTENDS Integers, Sequences, FiniteSets

CONSTANTS
    Jobs,               \* 1 .. n, in the order of their start
    Values              \* what the playbook may find on the host

VARIABLES
    host,               \* ansible_facts, and which gathering they come from
    run,                \* per job: position, the file, whether it was written anew
    capture,            \* per job's capture_fact_snapshot: position, the facts it has read
    snapshots,          \* in the order of captured_at
    undetected,         \* snapshots whose detect_drift has not run
    drifts,             \* pairs of snapshots found to differ
    gathered,           \* history: number of gatherings
    newest,             \* history: the newest gathering that was saved
    crossed             \* history: jobs ended in another order than they gathered; captures ran at one time

fcvars == <<host, run, capture, snapshots, undetected, drifts, gathered, newest, crossed>>

NoFacts == [value |-> "never", by |-> 0]        \* ansible_facts_modified is null
Cleared == [value |-> "empty", by |-> 0]
NoFile == [value |-> "no file", by |-> 0]
Over == [at |-> "done", file |-> NoFile, written |-> FALSE]
Facts == {NoFacts, Cleared} \union [value : Values, by : Jobs]

Init ==
    /\ host = NoFacts
    /\ run = [j \in Jobs |-> [at |-> "none", file |-> NoFile, written |-> FALSE]]
    /\ capture = [j \in Jobs |-> [at |-> "none", facts |-> NoFacts]]
    /\ snapshots = <<>>
    /\ undetected = {}
    /\ drifts = {}
    /\ gathered = 0
    /\ newest = 0
    /\ crossed = [jobs |-> FALSE, captures |-> FALSE]

\* start_fact_cache: facts that were never gathered, or have expired, are not written.
Start(j) ==
    /\ run[j].at = "none" /\ \A i \in Jobs : i < j => run[i].at # "none"
    /\ \E file \in {NoFile, IF host = NoFacts THEN NoFile ELSE host} :
         run' = [run EXCEPT ![j].at = "started", ![j].file = file]
    /\ UNCHANGED <<host, capture, snapshots, undetected, drifts, gathered, newest, crossed>>

\* The playbook gathers facts, ...
Gather(j, v) ==
    /\ run[j].at = "started"
    /\ gathered' = gathered + 1
    /\ run' = [run EXCEPT ![j] = [at |-> "played", file |-> [value |-> v, by |-> gathered + 1], written |-> TRUE]]
    /\ UNCHANGED <<host, capture, snapshots, undetected, drifts, newest, crossed>>

\* ... clears them, ...
ClearFacts(j) ==
    /\ run[j].at = "started"
    /\ run' = [run EXCEPT ![j].at = "played", ![j].file = NoFile]
    /\ UNCHANGED <<host, capture, snapshots, undetected, drifts, gathered, newest, crossed>>

\* ... or does neither.
PlayOnly(j) ==
    /\ run[j].at = "started"
    /\ run' = [run EXCEPT ![j].at = "played"]
    /\ UNCHANGED <<host, capture, snapshots, undetected, drifts, gathered, newest, crossed>>

FaultySaved(r) == IF r.file = NoFile THEN Cleared ELSE r.file
\* finish_fact_cache: a missing file clears the facts, a file that was not written since the start is ignored.
Saved(r) ==
    CASE r.file = NoFile -> Cleared
      [] r.written       -> r.file
      [] OTHER           -> host

\* post_run_hook: the facts are saved, and the capture is queued.
Finish(j) ==
    /\ run[j].at = "played"
    /\ host' = Saved(run[j])
    /\ run' = [run EXCEPT ![j] = Over]
    /\ newest' = IF run[j].file.by > newest /\ run[j].written THEN run[j].file.by ELSE newest
    /\ crossed' = [crossed EXCEPT !.jobs = @ \/ (run[j].written /\ run[j].file.by < newest)]
    /\ capture' = [capture EXCEPT ![j].at = "queued"]
    /\ UNCHANGED <<snapshots, undetected, drifts, gathered>>

\* The job fails before it has run, or its facts cannot be saved.
Fail(j) ==
    /\ run[j].at \in {"started", "played"}
    /\ run' = [run EXCEPT ![j] = Over]
    /\ UNCHANGED <<host, capture, snapshots, undetected, drifts, gathered, newest, crossed>>

-----------------------------------------------------------------------------

\* capture_fact_snapshot reads the host's facts, unless there are none ...
ReadFacts(j) ==
    /\ capture[j].at = "queued"
    /\ capture' = [capture EXCEPT ![j] = IF host \in {NoFacts, Cleared} THEN [at |-> "done", facts |-> NoFacts]
                                         ELSE [at |-> "read", facts |-> host]]
    /\ crossed' = [crossed EXCEPT !.captures = @ \/ \E i \in Jobs : capture[i].at \in {"read", "create"}]
    /\ UNCHANGED <<host, run, snapshots, undetected, drifts, gathered, newest>>

IsNew(v) == snapshots = <<>> \/ snapshots[Len(snapshots)] # v

\* ... compares them with the latest snapshot ...
Compare(j) ==
    /\ capture[j].at = "read"
    /\ capture' = [capture EXCEPT ![j] = IF IsNew(capture[j].facts.value) THEN [@ EXCEPT !.at = "create"]
                                         ELSE [at |-> "done", facts |-> NoFacts]]
    /\ UNCHANGED <<host, run, snapshots, undetected, drifts, gathered, newest, crossed>>

\* ... and creates one, for which detect_drift is queued.
CreateSnapshot(j) ==
    /\ capture[j].at = "create"
    /\ snapshots' = Append(snapshots, capture[j].facts.value)
    /\ undetected' = undetected \union {Len(snapshots) + 1}
    /\ capture' = [capture EXCEPT ![j] = [at |-> "done", facts |-> NoFacts]]
    /\ UNCHANGED <<host, run, drifts, gathered, newest, crossed>>

\* detect_drift compares with the latest of the snapshots before this one.
DetectDrift(i) ==
    /\ i \in undetected
    /\ undetected' = undetected \ {i}
    /\ drifts' = IF i > 1 /\ snapshots[i - 1] # snapshots[i] THEN drifts \union {<<i - 1, i>>} ELSE drifts
    /\ UNCHANGED <<host, run, capture, snapshots, gathered, newest, crossed>>

Next ==
    \/ \E j \in Jobs :
         \/ Start(j) \/ ClearFacts(j) \/ PlayOnly(j) \/ Finish(j) \/ Fail(j)
         \/ ReadFacts(j) \/ Compare(j) \/ CreateSnapshot(j)
    \/ \E j \in Jobs, v \in Values : Gather(j, v)
    \/ \E i \in undetected : DetectDrift(i)

Spec == Init /\ [][Next]_fcvars

-----------------------------------------------------------------------------

TypeOK ==
    /\ host \in Facts
    /\ run \in [Jobs -> [at : {"none", "started", "played", "done"}, file : Facts \union {NoFile}, written : BOOLEAN]]
    /\ capture \in [Jobs -> [at : {"none", "queued", "read", "create", "done"}, facts : Facts]]
    /\ snapshots \in Seq(Values)
    /\ undetected \subseteq DOMAIN snapshots
    /\ drifts \subseteq (DOMAIN snapshots) \X (DOMAIN snapshots)
    /\ gathered \in 0 .. Cardinality(Jobs) /\ newest \in 0 .. gathered
    /\ crossed \in [jobs : BOOLEAN, captures : BOOLEAN]

\* Older facts never replace newer ones, unless two jobs that both gathered them end in the other order: a job
\* that gathered nothing leaves alone what others have saved since its start, or clears it.
NeverOlder == crossed.jobs \/ host.by \in {0, newest}

\* When all captures are done, the latest snapshot shows the facts of the host, unless two captures were on their
\* way at the same time.
LatestIsCurrent ==
    /\ \A j \in Jobs : capture[j].at \in {"none", "done"}
    /\ ~crossed.captures
    /\ host.by # 0
    => /\ snapshots # <<>>
       /\ snapshots[Len(snapshots)] = host.value

\* Each change from one snapshot to the next is reported as a drift once all comparisons have run, however late,
\* and nothing else is.
ChangesAreDetected ==
    undetected = {} =>
        drifts = {<<i - 1, i>> : i \in {i \in DOMAIN snapshots : i > 1 /\ snapshots[i] # snapshots[i - 1]}}
=============================================================================
