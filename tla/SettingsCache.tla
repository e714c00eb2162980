--------------------------- MODULE SettingsCache ---------------------------
(***************************************************************************)
(* One setting: a row of the database, a shared cache in redis in front of *)
(* it, and an in-memory cache in every process.  A request that changes    *)
(* the setting deletes the cached value while its transaction is open, and *)
(* again, by a task, after the commit; processes fill the cache with what  *)
(* they have read before.                                                  *)
(***************************************************************************)
EXTENDS Integers, FiniteSets

CONSTANTS
    Processes,          \* processes that read the setting
    MaxEdits            \* bound of the edits

VARIABLES
    setting,            \* the committed value: the number of the edit that it comes from
    change,             \* the open transaction: position and value
    cached,             \* the value in redis, or NotCached
    memo,               \* per process: the value in memory, or NotCached
    reading,            \* per process: position and the value read from the table
    clearing,           \* clear_setting_cache tasks on their way
    unclean             \* history: edits overlapped a fill, were rolled back, or lost their task

scvars == <<setting, change, cached, memo, reading, clearing, unclean>>

NotCached == -1
NoEdit == [at |-> "none", value |-> NotCached]
NotReading == [at |-> "none", value |-> NotCached]

Init ==
    /\ setting = 0
    /\ change = NoEdit
    /\ cached = NotCached
    /\ memo = [p \in Processes |-> NotCached]
    /\ reading = [p \in Processes |-> NotReading]
    /\ clearing = 0
    /\ unclean = FALSE

\* An edit writes a newer value; it keeps the row locked until its end.
SaveSetting(value) ==
    /\ change = NoEdit /\ value > setting
    /\ change' = [at |-> "saved", value |-> value]
    /\ UNCHANGED <<setting, cached, memo, reading, clearing, unclean>>

\* handle_setting_change, called by the save: the cached value is deleted ...
DeleteCached ==
    /\ change.at = "saved"
    /\ change' = [change EXCEPT !.at = "deleted"]
    /\ cached' = NotCached
    /\ UNCHANGED <<setting, memo, reading, clearing, unclean>>

\* ... and read again, for setting_changed: the open transaction's value goes to the cache.
Recache ==
    /\ change.at = "deleted"
    /\ change' = [change EXCEPT !.at = "recached"]
    /\ cached' = IF cached = NotCached THEN change.value ELSE cached
    /\ UNCHANGED <<setting, memo, reading, clearing, unclean>>

FaultyCommit ==
    /\ change.at = "recached"
    /\ setting' = change.value
    /\ change' = NoEdit
    /\ unclean' = (unclean \/ \E p \in Processes : reading[p].at = "fill")
    /\ UNCHANGED <<cached, memo, reading, clearing>>
\* The commit sends the task.
Commit ==
    /\ change.at = "recached"
    /\ setting' = change.value
    /\ change' = NoEdit
    /\ clearing' = clearing + 1
    /\ unclean' = (unclean \/ \E p \in Processes : reading[p].at = "fill")
    /\ UNCHANGED <<cached, memo, reading>>

\* A later setting of the request fails: nothing clears what Recache has stored.
Rollback ==
    /\ change # NoEdit
    /\ change' = NoEdit
    /\ unclean' = TRUE
    /\ UNCHANGED <<setting, cached, memo, reading, clearing>>

clear_setting_cache ==
    /\ clearing > 0
    /\ clearing' = clearing - 1
    /\ cached' = NotCached
    /\ UNCHANGED <<setting, change, memo, reading, unclean>>

\* No dispatcher listens.
LoseTask ==
    /\ clearing > 0
    /\ clearing' = clearing - 1
    /\ unclean' = TRUE
    /\ UNCHANGED <<setting, change, cached, memo, reading>>

-----------------------------------------------------------------------------

\* _get_local of a value that is in redis.
Hit(p) ==
    /\ reading[p] = NotReading /\ memo[p] = NotCached /\ cached # NotCached
    /\ memo' = [memo EXCEPT ![p] = cached]
    /\ UNCHANGED <<setting, change, cached, reading, clearing, unclean>>

\* The value is not in redis, or all values are due to be loaded (_preload_cache): the table is read, ...
ReadTable(p) ==
    /\ reading[p] = NotReading /\ memo[p] = NotCached
    /\ reading' = [reading EXCEPT ![p] = [at |-> "fill", value |-> setting]]
    /\ UNCHANGED <<setting, change, cached, memo, clearing, unclean>>

\* ... and redis filled with what was there.
Fill(p) ==
    /\ reading[p].at = "fill"
    /\ cached' = reading[p].value
    /\ memo' = [memo EXCEPT ![p] = reading[p].value]
    /\ reading' = [reading EXCEPT ![p] = NotReading]
    /\ UNCHANGED <<setting, change, clearing, unclean>>

\* SETTING_CACHE_TIMEOUT and SETTING_MEMORY_TTL
Expire ==
    /\ cached # NotCached
    /\ cached' = NotCached
    /\ UNCHANGED <<setting, change, memo, reading, clearing, unclean>>

Forget(p) ==
    /\ memo[p] # NotCached
    /\ memo' = [memo EXCEPT ![p] = NotCached]
    /\ UNCHANGED <<setting, change, cached, reading, clearing, unclean>>

Next ==
    \/ \E v \in 1 .. MaxEdits : SaveSetting(v)
    \/ DeleteCached \/ Recache \/ Commit \/ Rollback
    \/ clear_setting_cache \/ LoseTask
    \/ \E p \in Processes : Hit(p) \/ ReadTable(p) \/ Fill(p) \/ Forget(p)
    \/ Expire

Spec == Init /\ [][Next]_scvars

-----------------------------------------------------------------------------

TypeOK ==
    /\ setting \in 0 .. MaxEdits
    /\ change \in [at : {"none", "saved", "deleted", "recached"}, value : {NotCached} \union 1 .. MaxEdits]
    /\ cached \in {NotCached} \union 0 .. MaxEdits
    /\ memo \in [Processes -> {NotCached} \union 0 .. MaxEdits]
    /\ reading \in [Processes -> [at : {"none", "fill"}, value : {NotCached} \union 0 .. MaxEdits]]
    /\ clearing \in 0 .. MaxEdits
    /\ unclean \in BOOLEAN

\* When the task that follows an edit is done, redis does not hold an older value, or one that was never
\* committed; unless a process was filling the cache at the commit, an edit was rolled back after it had stored
\* its value in redis, or the task was lost.
ClearedIsFresh ==
    change = NoEdit /\ clearing = 0 /\ ~unclean => cached \in {NotCached, setting}

\* Whatever went wrong, a stale value leaves redis again: timeouts make up for it.
StaleValuesLeave == cached \in {NotCached, setting}
=============================================================================
