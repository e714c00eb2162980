-------------------------- MODULE PeriodicSchedule --------------------------
(***************************************************************************)
(* A schedule and the passes of awx_periodic_scheduler, which any node's   *)
(* dispatcher runs: a pass remembers when it ran, selects the schedules    *)
(* that came due since the last pass, moves each to its next run and       *)
(* launches its job.  Passes crash, and users edit the schedule.           *)
(***************************************************************************)
EXTENDS Integers, FiniteSets

CONSTANTS
    Nodes,              \* nodes whose dispatchers run passes
    Occurrences,        \* the times that the rrule yields
    LastTick,           \* bound of the clock
    MaxDeaths           \* bound on the passes that die with their node

VARIABLES
    tick,
    next_run,           \* of the schedule, or Ended
    schedule_last_run,  \* of TowerScheduleState
    pass,               \* per node: position, last_run and run_now, the due next_run
    launches,           \* history: how often a job was launched for each occurrence
    lost,               \* history: occurrences that an edit, a death, a bypass, a late pass or a tie took away
    tied,               \* history: a pass ran at the very time of next_run
    deaths              \* history: how many passes died

psvars == <<tick, next_run, schedule_last_run, pass, launches, lost, tied, deaths>>

Ended == LastTick + 2
NoPass == [at |-> "idle", last_run |-> 0, run_now |-> 0, due |-> 0]

\* rrule.after: the first occurrence later than t
After(t) == CHOOSE o \in Occurrences \union {Ended} :
    (o > t \/ o = Ended) /\ \A x \in Occurrences : x > t => o <= x

Init ==
    /\ tick = 1
    /\ next_run = After(1)
    /\ schedule_last_run = 0
    /\ pass = [n \in Nodes |-> NoPass]
    /\ launches = [o \in Occurrences |-> 0]
    /\ lost = {}
    /\ tied = FALSE
    /\ deaths = 0

Tick ==
    /\ tick < LastTick
    /\ tick' = tick + 1
    /\ UNCHANGED <<next_run, schedule_last_run, pass, launches, lost, tied, deaths>>

SwappedBeginPass(n) ==     \* saves last_run before it reads it
    /\ \A m \in Nodes : pass[m] = NoPass
    /\ schedule_last_run' = tick
    /\ pass' = [pass EXCEPT ![n] = [at |-> "select", last_run |-> tick, run_now |-> tick, due |-> 0]]
    /\ tied' = (tied \/ next_run = tick)
    /\ lost' = lost \union ({next_run} \intersect {tick})
    /\ UNCHANGED <<tick, next_run, launches, deaths>>
\* The advisory lock is free; the time of this pass is saved before anything is launched.  A run that is due at this
\* very time is neither before nor after it, for this pass and the next one.
BeginPass(n) ==
    /\ \A m \in Nodes : pass[m] = NoPass
    /\ schedule_last_run' = tick
    /\ pass' = [pass EXCEPT ![n] = [at |-> "select", last_run |-> schedule_last_run, run_now |-> tick, due |-> 0]]
    /\ tied' = (tied \/ next_run = tick)
    /\ lost' = lost \union ({next_run} \intersect {tick})
    /\ UNCHANGED <<tick, next_run, launches, deaths>>

\* Occurrences that a schedule passes by when it moves on are not made up for.
Skipped(from, to) == {o \in Occurrences : from < o /\ o < to}

\* Due before the last pass: the schedule only moves on.  Due since then: it is selected.
Select(n) ==
    /\ pass[n].at = "select"
    /\ IF next_run < pass[n].last_run
       THEN /\ next_run' = After(tick)
            /\ lost' = lost \union Skipped(next_run, After(tick))
            /\ pass' = [pass EXCEPT ![n] = NoPass]
       ELSE /\ pass' = [pass EXCEPT ![n] = IF next_run > @.last_run /\ next_run < @.run_now
                                           THEN [@ EXCEPT !.at = "move", !.due = next_run] ELSE NoPass]
            /\ UNCHANGED <<next_run, lost>>
    /\ UNCHANGED <<tick, schedule_last_run, launches, tied, deaths>>

\* update_computed_fields comes first, ...
MoveOn(n) ==
    /\ pass[n].at = "move"
    /\ next_run' = After(tick)
    /\ lost' = lost \union Skipped(pass[n].due, After(tick))
    /\ pass' = [pass EXCEPT ![n].at = "launch"]
    /\ UNCHANGED <<tick, schedule_last_run, launches, tied, deaths>>

\* ... and then the launch; a job that cannot start is there and failed.
LaunchJob(n) ==
    /\ pass[n].at = "launch"
    /\ launches' = [launches EXCEPT ![pass[n].due] = @ + 1]
    /\ pass' = [pass EXCEPT ![n] = NoPass]
    /\ UNCHANGED <<tick, next_run, schedule_last_run, lost, tied, deaths>>

\* The template's cache timeout bypasses the schedule, or its job cannot be created: both after the move.
GiveUp(n) ==
    /\ pass[n].at = "launch"
    /\ lost' = lost \union {pass[n].due}
    /\ pass' = [pass EXCEPT ![n] = NoPass]
    /\ UNCHANGED <<tick, next_run, schedule_last_run, launches, tied, deaths>>

\* What the pass on n has to launch still.
Owed(n) ==
    CASE pass[n].at = "select" -> {o \in Occurrences : o = next_run /\ pass[n].last_run < o /\ o < pass[n].run_now}
      [] pass[n].at \in {"move", "launch"} -> {pass[n].due}

\* The node dies, and its session with it, which frees the lock; the next pass will not launch what this one owed.
Die(n) ==
    /\ pass[n] /= NoPass
    /\ deaths < MaxDeaths
    /\ deaths' = deaths + 1
    /\ lost' = lost \union Owed(n)
    /\ pass' = [pass EXCEPT ![n] = NoPass]
    /\ UNCHANGED <<tick, next_run, schedule_last_run, launches, tied>>

\* Every save of the schedule computes next_run anew: an edit of a schedule that is due takes the run away.
EditSchedule ==
    /\ next_run' = After(tick)
    /\ lost' = lost \union Skipped(next_run - 1, After(tick))
    /\ UNCHANGED <<tick, schedule_last_run, pass, launches, tied, deaths>>

RunPass == \E n \in Nodes : BeginPass(n) \/ Select(n) \/ MoveOn(n) \/ LaunchJob(n)

Next ==
    \/ Tick
    \/ RunPass
    \/ \E n \in Nodes : GiveUp(n) \/ Die(n)
    \/ EditSchedule

Spec == Init /\ [][Next]_psvars

-----------------------------------------------------------------------------

TypeOK ==
    /\ tick \in 1 .. LastTick
    /\ next_run \in Occurrences \union {Ended}
    /\ schedule_last_run \in 0 .. tick
    /\ pass \in [Nodes -> [at : {"idle", "select", "move", "launch"}, last_run : 0 .. tick, run_now : 0 .. tick,
                           due : {0} \union Occurrences]]
    /\ launches \in [Occurrences -> 0 .. 1]
    /\ lost \subseteq Occurrences
    /\ tied \in BOOLEAN
    /\ deaths \in 0 .. MaxDeaths

\* No occurrence launches two jobs, whatever pass dies where and however often the schedule is edited.
LaunchedOnce == \A o \in Occurrences : launches[o] <= 1

\* An occurrence that the schedule has passed by was launched, or is being launched, unless there was no pass between
\* it and the next one, an edit or a bypass took it away, the pass that owed it died, or one began at its very time.
RunOrLost ==
    \A o \in Occurrences : 1 < o /\ o < next_run =>
        \/ launches[o] > 0 \/ o \in lost
        \/ \E n \in Nodes : pass[n].at = "launch" /\ pass[n].due = o

\* The schedule does not stay behind the clock: it is launched or moves on, unless a pass ran at the very time
\* of its next run, which is neither before nor after that pass.
NotStuck == tied \/ next_run >= tick
=============================================================================
