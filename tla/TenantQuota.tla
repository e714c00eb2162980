---------------------------- MODULE TenantQuota ----------------------------
(***************************************************************************)
(* The quotas of one tenant: a launch request locks the tenant's usage     *)
(* row, compares its counters with the limits and counts itself; every few *)
(* minutes a task reads the row without the lock, counts the jobs and      *)
(* saves all columns.  Nothing counts a job that ends: its signal handler  *)
(* is connected to UnifiedJob, and what is saved is a subclass.            *)
(***************************************************************************)
EXTENDS Integers, FiniteSets

CONSTANTS
    Launches,           \* launch requests
    MaxConcurrent,      \* tenant_max_concurrent_jobs; 0: unlimited
    MaxDaily,           \* tenant_max_daily_launches; 0: unlimited
    LastDay             \* bound of the days

VARIABLES
    day,
    usage,              \* the row: concurrent_jobs_count, launches_today_count, the window's day
    launch,             \* per request: its position or its job's
    today,              \* the day that a launch asked on, unless it was refused
    recalculation,      \* its position, the row it has read and the jobs it has counted
    overwritten         \* history: a recalculation saved over a launch

tqvars == <<day, usage, launch, today, recalculation, overwritten>>

NoDay == -1
Idle == [at |-> "idle", row |-> [running |-> 0, launches |-> 0, window |-> NoDay], counted |-> 0]

Init ==
    /\ day = 0
    /\ usage = [running |-> 0, launches |-> 0, window |-> NoDay]
    /\ launch = [l \in Launches |-> "none"]
    /\ today = [l \in Launches |-> NoDay]
    /\ recalculation = Idle
    /\ overwritten = FALSE

NextDay ==
    /\ day < LastDay
    /\ day' = day + 1
    /\ UNCHANGED <<usage, launch, today, recalculation, overwritten>>

\* The launch request that holds the row lock until its transaction commits.
Locked == \E l \in Launches : launch[l] \in {"blocked", "admitted"}

Below(current, limit) == limit = 0 \/ current < limit

\* The daily count starts again when the window is another day's.
RolledOver(d) == IF usage.window = d THEN usage ELSE [usage EXCEPT !.window = d, !.launches = 0]

FaultyCheckQuota(l) ==
    /\ launch[l] = "none" /\ ~Locked
    /\ LET fits == /\ usage.running <= MaxConcurrent
                   /\ Below(RolledOver(day).launches, MaxDaily)
       IN  launch' = [launch EXCEPT ![l] = IF fits THEN "admitted" ELSE "blocked"]
    /\ today' = [today EXCEPT ![l] = day]
    /\ UNCHANGED <<day, usage, recalculation, overwritten>>
\* check_tenant_quota: the counters are compared under the lock.
CheckQuota(l) ==
    /\ launch[l] = "none" /\ ~Locked
    /\ LET fits == /\ Below(usage.running, MaxConcurrent)
                   /\ Below(RolledOver(day).launches, MaxDaily)
       IN  launch' = [launch EXCEPT ![l] = IF fits THEN "admitted" ELSE "blocked"]
    /\ today' = [today EXCEPT ![l] = day]
    /\ UNCHANGED <<day, usage, recalculation, overwritten>>

\* A blocked launch commits the rolled over window and deletes its job.
Refuse(l) ==
    /\ launch[l] = "blocked"
    /\ launch' = [launch EXCEPT ![l] = "gone"]
    /\ usage' = RolledOver(today[l])
    /\ today' = [today EXCEPT ![l] = NoDay]
    /\ UNCHANGED <<day, recalculation, overwritten>>

\* An admitted launch commits its counts and starts its job; it keeps the counts if a later gate, or the job
\* itself, refuses, and the job is deleted.
Admit(l) ==
    /\ launch[l] = "admitted"
    /\ usage' = [RolledOver(today[l]) EXCEPT !.running = @ + 1, !.launches = @ + 1]
    /\ \E outcome \in {"live", "gone"} : launch' = [launch EXCEPT ![l] = outcome]
    /\ overwritten' = (overwritten \/ recalculation.at # "idle")
    /\ UNCHANGED <<day, today, recalculation>>

\* Schedules, webhooks, workflows and relaunches start jobs without asking.
StartUnasked(l) ==
    /\ launch[l] = "none"
    /\ launch' = [launch EXCEPT ![l] = "unasked"]
    /\ UNCHANGED <<day, usage, today, recalculation, overwritten>>

JobEnds(l) ==
    /\ launch[l] \in {"live", "unasked"}
    /\ launch' = [launch EXCEPT ![l] = "ended"]
    /\ UNCHANGED <<day, usage, today, recalculation, overwritten>>

-----------------------------------------------------------------------------

Live == {l \in Launches : launch[l] \in {"live", "unasked"}}

\* recalculate_tenant_usage reads the row ...
ReadUsage ==
    /\ recalculation.at = "idle"
    /\ recalculation' = [recalculation EXCEPT !.at = "read", !.row = usage]
    /\ UNCHANGED <<day, usage, launch, today, overwritten>>

FaultyCountJobs ==
    /\ recalculation.at = "read"
    /\ recalculation' = [recalculation EXCEPT !.at = "counted",
                                              !.counted = Cardinality({l \in Launches : launch[l] \notin {"none", "gone"}})]
    /\ UNCHANGED <<day, usage, launch, today, overwritten>>
\* ... counts the tenant's jobs that wait or run ...
CountJobs ==
    /\ recalculation.at = "read"
    /\ recalculation' = [recalculation EXCEPT !.at = "counted", !.counted = Cardinality(Live)]
    /\ UNCHANGED <<day, usage, launch, today, overwritten>>

\* ... and saves the row as it was read, with the new count, once no launch holds the lock.
SaveUsage ==
    /\ recalculation.at = "counted" /\ ~Locked
    /\ usage' = [recalculation.row EXCEPT !.running = recalculation.counted]
    /\ recalculation' = Idle
    /\ UNCHANGED <<day, launch, today, overwritten>>

Recalculate == ReadUsage \/ CountJobs \/ SaveUsage
Answer == \E l \in Launches : Refuse(l) \/ Admit(l)

Next ==
    \/ NextDay
    \/ \E l \in Launches : CheckQuota(l) \/ StartUnasked(l) \/ JobEnds(l)
    \/ Answer
    \/ Recalculate

Spec == Init /\ [][Next]_tqvars

-----------------------------------------------------------------------------

Row == [running : 0 .. Cardinality(Launches), launches : 0 .. Cardinality(Launches), window : {NoDay} \union 0 .. day]

TypeOK ==
    /\ day \in 0 .. LastDay
    /\ usage \in Row
    /\ launch \in [Launches -> {"none", "blocked", "admitted", "live", "gone", "unasked", "ended"}]
    /\ today \in [Launches -> {NoDay} \union 0 .. day]
    /\ recalculation \in [at : {"idle", "read", "counted"}, row : Row, counted : 0 .. Cardinality(Launches)]
    /\ overwritten \in BOOLEAN

\* The jobs that the quota gate has admitted and that have not ended never exceed the limit of concurrent jobs,
\* unless a recalculation saved over a launch: two launches cannot both take the last place.
WithinConcurrent ==
    overwritten \/ Cardinality({l \in Launches : launch[l] = "live"}) <= MaxConcurrent

\* On no day the gate admits more launches than tenant_max_daily_launches, across the midnight rollover and the
\* recalculations, unless one of these saved over a launch.
WithinDaily ==
    overwritten \/ \A d \in 0 .. LastDay :
        Cardinality({l \in Launches : today[l] = d /\ launch[l] # "blocked"}) <= MaxDaily

\* The count of concurrent jobs does not stay above the number of jobs there are, though nothing counts down
\* when a job ends: a tenant is not locked out for ever.
CountComesDown == usage.running <= Cardinality(Live)
=============================================================================
