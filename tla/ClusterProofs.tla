---------------------------- MODULE ClusterProofs ----------------------------
(***************************************************************************)
(* What the nodes of a cluster go on doing, and their connections, for     *)
(* every number of them: the periodic scheduler launches an occurrence     *)
(* once and passes none over silently; a node that is offline offers no    *)
(* capacity, and one that is removed stays removed (PeriodicTasksHold).    *)
(* A run on receptor heeds its signals and leaves no unit behind, the      *)
(* relay of websockets is not taken down by lost connections and forwards  *)
(* what the browsers have subscribed to (ConnectionsHold).  What is kept a *)
(* second time, facts, settings, memberships, imported hosts and working   *)
(* trees, agrees with what it was made from (CopiesAreCurrent).            *)
(*                                                                         *)
(* A pass owes the occurrence that came due since the last one until it    *)
(* has launched it; what a heartbeat or a health check saves is what it    *)
(* has read, unless the history says otherwise.  A signal that came in     *)
(* time is still to be raised or has been; a host that has not moved has   *)
(* one address everywhere; the last message of a browser says what it      *)
(* wants.  Memberships are, or will be once a task on its way has run,     *)
(* those of a plan, which counts instances one after the other, but for    *)
(* what was attached since; an update of an inventory has matched what is  *)
(* listed with hosts that users have only deleted or added to since, no    *)
(* two with the same.                                                      *)
(***************************************************************************)
EXTENDS MCServices, SequenceLemmas

-----------------------------------------------------------------------------
(* The schedule. *)

(* The rule yields times. *)
TimesAssumed == LastTick \in Nat \ {0} /\ Occurrences \subseteq Nat

PassStates == [at : {"idle", "select", "move", "launch"}, last_run : Nat, run_now : Nat, due : Nat]

ScheduleTypes ==
    /\ tick \in 1 .. LastTick
    /\ next_run \in Occurrences \union {PS!Ended}
    /\ schedule_last_run \in 0 .. tick
    /\ pass \in [Nodes -> PassStates]
    /\ launches \in [Occurrences -> Nat]

(* The advisory lock: one pass at a time, with the time that it has saved.   *)
OnePass ==
    /\ \A n, m \in Nodes : pass[n] # PS!NoPass /\ pass[m] # PS!NoPass => n = m
    /\ \A n \in Nodes : pass[n] # PS!NoPass =>
          /\ pass[n].at # "idle"
          /\ pass[n].last_run <= pass[n].run_now /\ pass[n].run_now = schedule_last_run

(* What is due was not launched, and the schedule leaves it before it is.    *)
DueOnce ==
    /\ \A n \in Nodes : pass[n].at \in {"move", "launch"} =>
          /\ pass[n].due \in Occurrences /\ pass[n].due < pass[n].run_now
          /\ launches[pass[n].due] = 0
          /\ pass[n].due <= next_run
    /\ \A n \in Nodes : pass[n].at = "launch" => pass[n].due < next_run
    /\ \A o \in Occurrences : launches[o] > 0 => o < tick /\ o < next_run
    /\ PS!LaunchedOnce

(* A run that came due before the last pass began is lost, or owed by it.    *)
OwedOrLost ==
    next_run <= schedule_last_run => next_run \in lost \/ \E n \in Nodes : pass[n] # PS!NoPass /\ next_run \in PS!Owed(n)

ScheduleInv == ScheduleTypes /\ OnePass /\ DueOnce /\ OwedOrLost /\ PS!RunOrLost

-----------------------------------------------------------------------------
(* The node. *)

NodeTypes ==
    /\ hour \in Int
    /\ instance \in [node_state : EN!States, capacity : BOOLEAN, last_seen : Int]
    /\ advertised \in Int
    /\ heartbeat \in [Controllers -> [at : {"idle", "reap", "offline"}, row : EN!CopyType]]
    /\ check \in [Controllers -> [at : {"idle", "queued", "checking"}, row : EN!CopyType]]
    /\ nodeJob \in [status : {"none", "waiting", "running"}, left : Int]
    /\ removal \in [at : {"idle", "waiting", "delete", "done", "lost"}, losses : Int]
    /\ stale \in [row : BOOLEAN, start : BOOLEAN]

(* Heartbeats and health checks work on rows that were in service.           *)
InService == {"installed", "ready", "unavailable"}
RowsInService ==
    /\ \A c \in Controllers : heartbeat[c].at # "idle" => heartbeat[c].row.node_state \in InService
    /\ \A c \in Controllers : check[c].at = "checking" => check[c].row.node_state \in InService

(* The task that is about to delete the row has seen the last job end.       *)
NoJobAtDeletion ==
    removal.at = "delete" /\ ~stale.row /\ ~stale.start => nodeJob.status = "none"

NodeInv ==
    /\ NodeTypes /\ RowsInService /\ NoJobAtDeletion
    /\ EN!OfflineHasNoCapacity /\ EN!RemovedForGood /\ EN!NoJobOnRemovedNode

PeriodicInv == (part = "schedule" => ScheduleInv) /\ (part = "node" => NodeInv)

(* rrule.after: a later occurrence, the first one, or none.                  *)
LEMMA AfterFacts ==
    ASSUME TimesAssumed, NEW t \in Int
    PROVE  /\ PS!After(t) \in Occurrences \union {PS!Ended}
           /\ PS!After(t) > t \/ PS!After(t) = PS!Ended
           /\ \A o \in Occurrences : o > t => PS!After(t) <= o
<1> DEFINE Good(o) == (o > t \/ o = PS!Ended) /\ \A x \in Occurrences : x > t => o <= x
           T == {o \in Occurrences : o > t}
<1>1. \A o \in Occurrences : o \in Nat
  BY DEF TimesAssumed
<1>2. \E o \in Occurrences \union {PS!Ended} : Good(o)
  <2>1. CASE T = {}
    BY <2>1
  <2>2. CASE T # {}
    <3>1. T \in SUBSET Nat
      BY <1>1
    <3>2. PICK o \in T : \A m \in T : o <= m
      <4> HIDE DEF T
      <4> QED
        BY <3>1, <2>2, LeastNat
    <3> QED
      BY <3>2
  <2> QED
    BY <2>1, <2>2
<1>3. PS!After(t) \in Occurrences \union {PS!Ended} /\ Good(PS!After(t))
  BY <1>2, Zenon DEF PS!After
<1> QED
  BY <1>3

(* What the clock says is before whatever comes next.                        *)
LEMMA NextIsLater ==
    ASSUME TimesAssumed, tick \in 1 .. LastTick
    PROVE  /\ PS!After(tick) \in Occurrences \union {PS!Ended} /\ PS!After(tick) \in Int /\ PS!After(tick) > tick
           /\ \A o \in Occurrences : o \in Int /\ (o > tick => PS!After(tick) <= o)
<1>1. tick \in Int /\ LastTick \in Int /\ tick < PS!Ended /\ PS!Ended \in Int
  BY DEF TimesAssumed, PS!Ended
<1>2. /\ PS!After(tick) \in Occurrences \union {PS!Ended}
      /\ PS!After(tick) > tick \/ PS!After(tick) = PS!Ended
      /\ \A o \in Occurrences : o > tick => PS!After(tick) <= o
  BY <1>1, AfterFacts
<1>3. \A o \in Occurrences : o \in Int
  BY DEF TimesAssumed
<1> QED
  BY <1>1, <1>2, <1>3

LEMMA ScheduleInit == TimesAssumed /\ PS!Init => ScheduleInv
<1> SUFFICES ASSUME TimesAssumed, PS!Init PROVE ScheduleInv
  OBVIOUS
<1>1. tick = 1 /\ next_run = PS!After(1) /\ schedule_last_run = 0 /\ pass = [n \in Nodes |-> PS!NoPass]
      /\ launches = [o \in Occurrences |-> 0]
  BY DEF PS!Init
<1>2. tick \in 1 .. LastTick
  BY <1>1 DEF TimesAssumed
<1>3. /\ next_run \in Occurrences \union {PS!Ended} /\ next_run \in Int /\ next_run > 1
      /\ \A o \in Occurrences : o \in Int /\ (o > 1 => next_run <= o)
  BY <1>1, <1>2, NextIsLater
<1>4. PS!NoPass \in PassStates /\ PS!NoPass.at = "idle"
  BY DEF PS!NoPass, PassStates
<1>5. ScheduleTypes
  BY <1>1, <1>2, <1>3, <1>4 DEF ScheduleTypes
<1>6. OnePass
  BY <1>1 DEF OnePass
<1>7. DueOnce
  BY <1>1, <1>4 DEF DueOnce, PS!LaunchedOnce
<1>8. OwedOrLost
  BY <1>1, <1>3 DEF OwedOrLost
<1>9. PS!RunOrLost
  BY <1>1, <1>3 DEF PS!RunOrLost
<1> QED
  BY <1>5, <1>6, <1>7, <1>8, <1>9 DEF ScheduleInv

(* What the numbers are. *)
LEMMA ScheduleNumbers ==
    ASSUME TimesAssumed, ScheduleTypes
    PROVE  /\ tick \in Int /\ LastTick \in Int /\ PS!Ended \in Int /\ tick < PS!Ended /\ next_run \in Int
           /\ schedule_last_run \in Int /\ schedule_last_run <= tick
           /\ \A o \in Occurrences : o \in Int /\ launches[o] \in Nat
           /\ next_run \in Occurrences \/ next_run = PS!Ended
           /\ \A n \in Nodes : pass[n] \in PassStates
BY DEF TimesAssumed, ScheduleTypes, PS!Ended

LEMMA PassFields ==
    /\ \A p \in PassStates : /\ p.at \in {"idle", "select", "move", "launch"}
                             /\ p.last_run \in Nat /\ p.run_now \in Nat /\ p.due \in Nat
    /\ PS!NoPass \in PassStates /\ PS!NoPass.at = "idle"
BY DEF PassStates, PS!NoPass

(* A step of the pass of n, when no other node is in one.                    *)
LEMMA PassSet ==
    ASSUME TimesAssumed, ScheduleTypes, OnePass, NEW n \in Nodes, NEW p \in PassStates,
           pass' = [pass EXCEPT ![n] = p],
           pass[n] # PS!NoPass \/ \A m \in Nodes : pass[m] = PS!NoPass
    PROVE  /\ pass' \in [Nodes -> PassStates] /\ pass'[n] = p
           /\ \A m \in Nodes : m # n => pass[m] = PS!NoPass /\ pass'[m] = PS!NoPass
<1>1. pass \in [Nodes -> PassStates]
  BY DEF ScheduleTypes
<1>2. \A m \in Nodes : m # n => pass[m] = PS!NoPass
  BY DEF OnePass
<1> QED
  BY <1>1, <1>2

(* The clock goes on, and nothing else. *)
LEMMA TickStep ==
    ASSUME TimesAssumed, ScheduleInv, PS!Tick
    PROVE  ScheduleInv'
<1>1. tick' = tick + 1 /\ tick < LastTick /\ next_run' = next_run /\ schedule_last_run' = schedule_last_run
      /\ pass' = pass /\ launches' = launches /\ lost' = lost
  BY DEF PS!Tick
<1>2. ScheduleTypes /\ OnePass /\ DueOnce /\ OwedOrLost /\ PS!RunOrLost
  BY DEF ScheduleInv
<1>3. ScheduleTypes'
  BY <1>1, <1>2 DEF ScheduleTypes, TimesAssumed
<1>4. \A o \in Occurrences : o < tick => o < tick'
  BY <1>1, <1>2, ScheduleNumbers
<1>5. DueOnce'
  BY <1>1, <1>2, <1>4 DEF DueOnce, PS!LaunchedOnce
<1>6. OnePass' /\ OwedOrLost' /\ PS!RunOrLost'
  BY <1>1, <1>2 DEF OnePass, OwedOrLost, PS!RunOrLost, PS!Owed
<1> QED
  BY <1>3, <1>5, <1>6 DEF ScheduleInv

LEMMA BeginPassStep ==
    ASSUME TimesAssumed, ScheduleInv, NEW n \in Nodes, PS!BeginPass(n)
    PROVE  ScheduleInv'
<1> DEFINE p == [at |-> "select", last_run |-> schedule_last_run, run_now |-> tick, due |-> 0]
<1>1. /\ \A m \in Nodes : pass[m] = PS!NoPass
      /\ schedule_last_run' = tick /\ pass' = [pass EXCEPT ![n] = p]
      /\ lost' = lost \union ({next_run} \intersect {tick})
      /\ tick' = tick /\ next_run' = next_run /\ launches' = launches
  BY DEF PS!BeginPass
<1>2. ScheduleTypes /\ OnePass /\ DueOnce /\ OwedOrLost /\ PS!RunOrLost
  BY DEF ScheduleInv
<1>3. p \in PassStates /\ p # PS!NoPass /\ p.at = "select" /\ p.last_run = schedule_last_run /\ p.run_now = tick
  <2>1. schedule_last_run \in Nat /\ tick \in Nat
    BY <1>2 DEF ScheduleTypes
  <2> QED
    BY <2>1 DEF PassStates, PS!NoPass
<1>4. /\ pass' \in [Nodes -> PassStates] /\ pass'[n] = p
      /\ \A m \in Nodes : m # n => pass'[m] = PS!NoPass
  <2> HIDE DEF p
  <2> QED
    BY <1>1, <1>2, <1>3, PassSet
<1> HIDE DEF p
<1>5. ScheduleTypes'
  BY <1>1, <1>2, <1>4 DEF ScheduleTypes
<1>6. OnePass'
  BY <1>1, <1>2, <1>3, <1>4, ScheduleNumbers DEF OnePass
<1>7. DueOnce'
  <2>1. \A m \in Nodes : pass'[m].at \notin {"move", "launch"}
    BY <1>3, <1>4, PassFields
  <2> QED
    BY <1>1, <1>2, <2>1 DEF DueOnce, PS!LaunchedOnce
<1>8. OwedOrLost'
  <2> SUFFICES ASSUME next_run <= tick, next_run # tick
               PROVE  next_run \in lost' \/ \E m \in Nodes : pass'[m] # PS!NoPass /\ next_run \in PS!Owed(m)'
    BY <1>1 DEF OwedOrLost
  <2>1. CASE next_run <= schedule_last_run
    BY <1>1, <1>2, <2>1 DEF OwedOrLost
  <2>2. CASE schedule_last_run < next_run
    <3>1. next_run \in Occurrences /\ next_run < tick
      BY <1>2, ScheduleNumbers
    <3>2. PS!Owed(n)' = {o \in Occurrences : o = next_run /\ schedule_last_run < o /\ o < tick}
      BY <1>1, <1>3, <1>4 DEF PS!Owed
    <3> QED
      BY <1>3, <1>4, <2>2, <3>1, <3>2
  <2> QED
    BY <1>2, <2>1, <2>2, ScheduleNumbers
<1>9. PS!RunOrLost'
  <2>1. \A m \in Nodes : pass[m].at # "launch"
    BY <1>1, PassFields
  <2> QED
    BY <1>1, <1>2, <2>1 DEF PS!RunOrLost
<1> QED
  BY <1>5, <1>6, <1>7, <1>8, <1>9 DEF ScheduleInv

(* A pass ends without a launch; what it owed is lost.                       *)
EndsPass(n) ==
    /\ pass[n] # PS!NoPass /\ pass' = [pass EXCEPT ![n] = PS!NoPass]
    /\ lost \subseteq lost' /\ PS!Owed(n) \subseteq lost'
    /\ UNCHANGED <<tick, next_run, schedule_last_run, launches>>

LEMMA PassEnds ==
    ASSUME TimesAssumed, ScheduleInv, NEW n \in Nodes, EndsPass(n)
    PROVE  ScheduleInv'
<1>1. /\ pass[n] # PS!NoPass /\ pass' = [pass EXCEPT ![n] = PS!NoPass]
      /\ lost \subseteq lost' /\ PS!Owed(n) \subseteq lost'
      /\ tick' = tick /\ next_run' = next_run /\ schedule_last_run' = schedule_last_run /\ launches' = launches
  BY DEF EndsPass
<1>2. ScheduleTypes /\ OnePass /\ DueOnce /\ OwedOrLost /\ PS!RunOrLost
  BY DEF ScheduleInv
<1>3. /\ pass' \in [Nodes -> PassStates]
      /\ \A m \in Nodes : pass'[m] = PS!NoPass
      /\ \A m \in Nodes : m # n => pass[m] = PS!NoPass
  BY <1>1, <1>2, PassSet, PassFields
<1>4. ScheduleTypes' /\ OnePass'
  BY <1>1, <1>2, <1>3 DEF ScheduleTypes, OnePass
<1>5. DueOnce'
  <2>1. \A m \in Nodes : pass'[m].at \notin {"move", "launch"}
    BY <1>3, PassFields
  <2> QED
    BY <1>1, <1>2, <2>1 DEF DueOnce, PS!LaunchedOnce
<1>6. OwedOrLost'
  BY <1>1, <1>2, <1>3 DEF OwedOrLost
<1>7. PS!RunOrLost'
  <2>1. \A m \in Nodes : pass[m].at = "launch" => m = n
    BY <1>3, PassFields
  <2>2. pass[n].at = "launch" => pass[n].due \in lost'
    BY <1>1 DEF PS!Owed
  <2> QED
    BY <1>1, <1>2, <2>1, <2>2 DEF PS!RunOrLost
<1> QED
  BY <1>4, <1>5, <1>6, <1>7 DEF ScheduleInv

(* The schedule moves on; what it passes by is launched, or lost.            *)
LEMMA SelectStep ==
    ASSUME TimesAssumed, ScheduleInv, NEW n \in Nodes, PS!Select(n)
    PROVE  ScheduleInv'
<1>1. /\ pass[n].at = "select"
      /\ tick' = tick /\ schedule_last_run' = schedule_last_run /\ launches' = launches
  BY DEF PS!Select
<1>2. ScheduleTypes /\ OnePass /\ DueOnce /\ OwedOrLost /\ PS!RunOrLost
  BY DEF ScheduleInv
<1>3. pass[n] # PS!NoPass /\ pass[n] \in PassStates
  BY <1>1, <1>2, PassFields DEF ScheduleTypes
<1>4. /\ \A m \in Nodes : m # n => pass[m] = PS!NoPass
      /\ pass[n].last_run <= pass[n].run_now /\ pass[n].run_now = schedule_last_run
      /\ pass[n].last_run \in Nat
  BY <1>2, <1>3, PassFields DEF OnePass
<1>5. PS!Owed(n) = {o \in Occurrences : o = next_run /\ pass[n].last_run < o /\ o < pass[n].run_now}
  BY <1>1 DEF PS!Owed
<1>6. \A m \in Nodes : pass[m].at # "launch"
  BY <1>1, <1>4, PassFields
<1>7. next_run <= schedule_last_run /\ next_run \notin PS!Owed(n) => next_run \in lost
  BY <1>2, <1>4 DEF OwedOrLost
<1>8. CASE next_run < pass[n].last_run
  <2>1. /\ next_run' = PS!After(tick)
        /\ lost' = lost \union PS!Skipped(next_run, PS!After(tick))
        /\ pass' = [pass EXCEPT ![n] = PS!NoPass]
    BY <1>8 DEF PS!Select
  <2>2. /\ next_run' \in Occurrences \union {PS!Ended} /\ next_run' \in Int /\ next_run' > tick
        /\ tick \in Int /\ schedule_last_run \in Int /\ schedule_last_run <= tick /\ next_run \in Int
        /\ \A o \in Occurrences : o \in Int
    BY <1>2, <2>1, NextIsLater, ScheduleNumbers DEF ScheduleTypes
  <2>3. /\ pass' \in [Nodes -> PassStates]
        /\ \A m \in Nodes : pass'[m] = PS!NoPass
    BY <1>2, <1>3, <2>1, PassSet, PassFields
  <2>4. ScheduleTypes' /\ OnePass'
    BY <1>1, <1>2, <2>2, <2>3 DEF ScheduleTypes, OnePass
  <2>5. DueOnce'
    <3>1. \A m \in Nodes : pass'[m].at \notin {"move", "launch"}
      BY <2>3, PassFields
    <3>2. \A o \in Occurrences : launches[o] > 0 => o < tick /\ o < next_run'
      BY <1>2, <2>2 DEF DueOnce
    <3> QED
      BY <1>1, <1>2, <3>1, <3>2 DEF DueOnce, PS!LaunchedOnce
  <2>6. OwedOrLost'
    BY <1>1, <2>2 DEF OwedOrLost
  <2>7. PS!RunOrLost'
    <3>1. next_run \in lost
      <4>1. next_run <= schedule_last_run /\ next_run \notin PS!Owed(n)
        BY <1>4, <1>5, <1>8, <2>2
      <4> QED
        BY <1>7, <4>1
    <3>2. ASSUME NEW o \in Occurrences, 1 < o, o < next_run' PROVE launches[o] > 0 \/ o \in lost'
      <4>1. CASE o < next_run
        BY <1>2, <1>6, <2>1, <3>2, <4>1 DEF PS!RunOrLost
      <4>2. CASE o = next_run
        BY <2>1, <3>1, <4>2
      <4>3. CASE next_run < o
        BY <2>1, <3>2, <4>3 DEF PS!Skipped
      <4> QED
        BY <2>2, <4>1, <4>2, <4>3
    <3> QED
      BY <1>1, <3>2 DEF PS!RunOrLost
  <2> QED
    BY <2>4, <2>5, <2>6, <2>7 DEF ScheduleInv
<1>9. CASE ~(next_run < pass[n].last_run)
  <2> DEFINE due == next_run > pass[n].last_run /\ next_run < pass[n].run_now
             p == [pass[n] EXCEPT !.at = "move", !.due = next_run]
  <2>1. /\ pass' = [pass EXCEPT ![n] = IF due THEN p ELSE PS!NoPass]
        /\ next_run' = next_run /\ lost' = lost
    BY <1>9 DEF PS!Select
  <2>2. CASE ~due
    <3>1. pass' = [pass EXCEPT ![n] = PS!NoPass]
      BY <2>1, <2>2
    <3>2. PS!Owed(n) = {}
      BY <1>5, <2>2
    <3> QED
      BY <1>1, <1>3, <2>1, <3>1, <3>2, PassEnds DEF EndsPass
  <2>3. CASE due
    <3>1. pass' = [pass EXCEPT ![n] = p]
      BY <2>1, <2>3
    <3>2. /\ next_run \in Occurrences /\ next_run \in Nat /\ next_run < tick
          /\ next_run <= schedule_last_run /\ next_run < pass[n].run_now
      BY <1>2, <1>4, <2>3, ScheduleNumbers DEF TimesAssumed
    <3>3. /\ p \in PassStates /\ p.at = "move" /\ p.due = next_run
          /\ p.last_run = pass[n].last_run /\ p.run_now = pass[n].run_now /\ p # PS!NoPass
      <4>1. p \in PassStates /\ p.at = "move" /\ p.due = next_run
            /\ p.last_run = pass[n].last_run /\ p.run_now = pass[n].run_now
        BY <1>3, <3>2 DEF PassStates
      <4> QED
        BY <4>1, PassFields
    <3> HIDE DEF p, due
    <3>4. /\ pass' \in [Nodes -> PassStates] /\ pass'[n] = p
          /\ \A m \in Nodes : m # n => pass'[m] = PS!NoPass
      BY <1>2, <1>3, <3>1, <3>3, PassSet
    <3>5. ScheduleTypes' /\ OnePass'
      <4>1. OnePass'
        BY <1>1, <1>4, <3>3, <3>4 DEF OnePass
      <4> QED
        BY <1>1, <1>2, <2>1, <3>4, <4>1 DEF ScheduleTypes
    <3>6. DueOnce'
      <4>1. \A m \in Nodes : pass'[m].at \in {"move", "launch"} => m = n
        BY <3>4, PassFields
      <4>2. launches[next_run] = 0
        <5>1. ~(launches[next_run] > 0) /\ launches[next_run] \in Nat
          BY <1>2, <3>2, ScheduleNumbers DEF DueOnce
        <5> QED
          BY <5>1
      <4> QED
        BY <1>1, <1>2, <2>1, <3>2, <3>3, <3>4, <4>1, <4>2 DEF DueOnce, PS!LaunchedOnce
    <3>7. OwedOrLost'
      <4>1. PS!Owed(n)' = {next_run}
        BY <2>1, <3>3, <3>4 DEF PS!Owed
      <4> QED
        BY <2>1, <3>3, <3>4, <4>1 DEF OwedOrLost
    <3>8. PS!RunOrLost'
      BY <1>1, <1>2, <1>6, <2>1 DEF PS!RunOrLost
    <3> QED
      BY <3>5, <3>6, <3>7, <3>8 DEF ScheduleInv
  <2> QED
    BY <2>2, <2>3
<1> QED
  BY <1>8, <1>9

LEMMA MoveOnStep ==
    ASSUME TimesAssumed, ScheduleInv, NEW n \in Nodes, PS!MoveOn(n)
    PROVE  ScheduleInv'
<1> DEFINE p == [pass[n] EXCEPT !.at = "launch"]
<1>1. /\ pass[n].at = "move" /\ next_run' = PS!After(tick)
      /\ lost' = lost \union PS!Skipped(pass[n].due, PS!After(tick))
      /\ pass' = [pass EXCEPT ![n].at = "launch"]
      /\ tick' = tick /\ schedule_last_run' = schedule_last_run /\ launches' = launches
  BY DEF PS!MoveOn
<1>2. ScheduleTypes /\ OnePass /\ DueOnce /\ OwedOrLost /\ PS!RunOrLost
  BY DEF ScheduleInv
<1>3. pass[n] # PS!NoPass /\ pass[n] \in PassStates
  BY <1>1, <1>2, PassFields DEF ScheduleTypes
<1>4. /\ p \in PassStates /\ p.at = "launch" /\ p.due = pass[n].due
      /\ p.last_run = pass[n].last_run /\ p.run_now = pass[n].run_now /\ p # PS!NoPass
  <2>1. p \in PassStates /\ p.at = "launch" /\ p.due = pass[n].due
        /\ p.last_run = pass[n].last_run /\ p.run_now = pass[n].run_now
    BY <1>3 DEF PassStates
  <2> QED
    BY <2>1, PassFields
<1>5. pass' = [pass EXCEPT ![n] = p]
  BY <1>1
<1> HIDE DEF p
<1>6. /\ pass' \in [Nodes -> PassStates] /\ pass'[n] = p
      /\ \A m \in Nodes : m # n => pass[m] = PS!NoPass /\ pass'[m] = PS!NoPass
  BY <1>2, <1>3, <1>4, <1>5, PassSet
<1>7. /\ next_run' \in Occurrences \union {PS!Ended} /\ next_run' \in Int /\ next_run' > tick
      /\ tick \in Int /\ schedule_last_run \in Int /\ schedule_last_run <= tick
      /\ \A o \in Occurrences : o \in Int
  BY <1>1, <1>2, NextIsLater, ScheduleNumbers DEF ScheduleTypes
<1>8. /\ pass[n].due \in Occurrences /\ pass[n].due < next_run' /\ launches[pass[n].due] = 0
      /\ pass[n].due < pass[n].run_now /\ pass[n].due <= next_run /\ pass[n].due \in Int
  <2>1. /\ pass[n].due \in Occurrences /\ launches[pass[n].due] = 0
        /\ pass[n].due < pass[n].run_now /\ pass[n].due <= next_run
    BY <1>1, <1>2 DEF DueOnce
  <2>2. pass[n].run_now = schedule_last_run
    BY <1>2, <1>3 DEF OnePass
  <2> QED
    BY <1>7, <2>1, <2>2
<1>9. ScheduleTypes' /\ OnePass'
  <2>1. OnePass'
    BY <1>1, <1>2, <1>3, <1>4, <1>6 DEF OnePass
  <2> QED
    BY <1>1, <1>2, <1>6, <1>7, <2>1 DEF ScheduleTypes
<1>10. DueOnce'
  <2>1. \A m \in Nodes : pass'[m].at \in {"move", "launch"} => m = n
    BY <1>6, PassFields
  <2>2. \A o \in Occurrences : launches[o] > 0 => o < tick /\ o < next_run'
    BY <1>2, <1>7 DEF DueOnce
  <2>3. \A m \in Nodes : pass'[m].at \in {"move", "launch"} =>
          /\ pass'[m].due \in Occurrences /\ pass'[m].due < pass'[m].run_now
          /\ launches[pass'[m].due] = 0 /\ pass'[m].due < next_run' /\ pass'[m].due <= next_run'
    BY <1>4, <1>6, <1>7, <1>8, <2>1
  <2> QED
    BY <1>1, <1>2, <2>2, <2>3 DEF DueOnce, PS!LaunchedOnce
<1>11. OwedOrLost'
  BY <1>1, <1>7 DEF OwedOrLost
<1>12. PS!RunOrLost'
  <2>1. \A m \in Nodes : pass[m].at # "launch"
    BY <1>1, <1>6, PassFields
  <2>2. next_run \in Int
    BY <1>2, ScheduleNumbers
  <2>3. ASSUME NEW o \in Occurrences, 1 < o, o < next_run'
        PROVE  launches[o] > 0 \/ o \in lost' \/ (pass'[n].at = "launch" /\ pass'[n].due = o)
    <3>1. CASE o < pass[n].due
      <4>1. o < next_run
        BY <1>7, <1>8, <2>2, <3>1
      <4> QED
        BY <1>1, <1>2, <2>1, <2>3, <4>1 DEF PS!RunOrLost
    <3>2. CASE o = pass[n].due
      BY <1>4, <1>6, <3>2
    <3>3. CASE pass[n].due < o
      BY <1>1, <2>3, <3>3 DEF PS!Skipped
    <3> QED
      BY <1>7, <1>8, <3>1, <3>2, <3>3
  <2> QED
    BY <1>1, <2>3 DEF PS!RunOrLost
<1> QED
  BY <1>9, <1>10, <1>11, <1>12 DEF ScheduleInv

LEMMA LaunchJobStep ==
    ASSUME TimesAssumed, ScheduleInv, NEW n \in Nodes, PS!LaunchJob(n)
    PROVE  ScheduleInv'
<1>1. /\ pass[n].at = "launch" /\ launches' = [launches EXCEPT ![pass[n].due] = @ + 1]
      /\ pass' = [pass EXCEPT ![n] = PS!NoPass]
      /\ tick' = tick /\ next_run' = next_run /\ schedule_last_run' = schedule_last_run /\ lost' = lost
  BY DEF PS!LaunchJob
<1>2. ScheduleTypes /\ OnePass /\ DueOnce /\ OwedOrLost /\ PS!RunOrLost
  BY DEF ScheduleInv
<1>3. pass[n] # PS!NoPass /\ pass[n] \in PassStates
  BY <1>1, <1>2, PassFields DEF ScheduleTypes
<1>4. /\ pass' \in [Nodes -> PassStates]
      /\ \A m \in Nodes : pass'[m] = PS!NoPass
      /\ \A m \in Nodes : m # n => pass[m] = PS!NoPass
  BY <1>1, <1>2, <1>3, PassSet, PassFields
<1>5. /\ pass[n].due \in Occurrences /\ launches[pass[n].due] = 0
      /\ pass[n].due < tick /\ pass[n].due < next_run
  <2>1. /\ pass[n].due \in Occurrences /\ pass[n].due < pass[n].run_now
        /\ launches[pass[n].due] = 0 /\ pass[n].due < next_run
    BY <1>1, <1>2 DEF DueOnce
  <2>2. pass[n].run_now = schedule_last_run
    BY <1>2, <1>3 DEF OnePass
  <2> QED
    BY <1>2, <2>1, <2>2, ScheduleNumbers
<1>6. /\ launches' \in [Occurrences -> Nat] /\ launches'[pass[n].due] = 1
      /\ \A o \in Occurrences : o # pass[n].due => launches'[o] = launches[o]
  BY <1>1, <1>2, <1>5 DEF ScheduleTypes
<1>7. ScheduleTypes' /\ OnePass'
  BY <1>1, <1>2, <1>4, <1>6 DEF ScheduleTypes, OnePass
<1>8. DueOnce'
  <2>1. \A m \in Nodes : pass'[m].at \notin {"move", "launch"}
    BY <1>4, PassFields
  <2>2. \A o \in Occurrences : launches'[o] > 0 => o < tick /\ o < next_run
    BY <1>2, <1>5, <1>6 DEF DueOnce
  <2>3. \A o \in Occurrences : launches'[o] <= 1
    BY <1>2, <1>6 DEF DueOnce, PS!LaunchedOnce
  <2> QED
    BY <1>1, <2>1, <2>2, <2>3 DEF DueOnce, PS!LaunchedOnce
<1>9. OwedOrLost'
  <2>1. next_run \notin PS!Owed(n)
    <3>1. PS!Owed(n) = {pass[n].due}
      BY <1>1 DEF PS!Owed
    <3> QED
      BY <1>2, <1>5, <3>1, ScheduleNumbers
  <2> QED
    BY <1>1, <1>2, <1>4, <2>1 DEF OwedOrLost
<1>10. PS!RunOrLost'
  <2>1. \A m \in Nodes : pass[m].at = "launch" => m = n
    BY <1>4, PassFields
  <2>2. \A o \in Occurrences : launches[o] > 0 => launches'[o] > 0
    BY <1>5, <1>6
  <2> QED
    BY <1>1, <1>2, <1>6, <2>1, <2>2 DEF PS!RunOrLost
<1> QED
  BY <1>7, <1>8, <1>9, <1>10 DEF ScheduleInv

LEMMA EditScheduleStep ==
    ASSUME TimesAssumed, ScheduleInv, PS!EditSchedule
    PROVE  ScheduleInv'
<1>1. /\ next_run' = PS!After(tick)
      /\ lost' = lost \union PS!Skipped(next_run - 1, PS!After(tick))
      /\ tick' = tick /\ schedule_last_run' = schedule_last_run /\ pass' = pass /\ launches' = launches
  BY DEF PS!EditSchedule
<1>2. ScheduleTypes /\ OnePass /\ DueOnce /\ OwedOrLost /\ PS!RunOrLost
  BY DEF ScheduleInv
<1>3. /\ next_run' \in Occurrences \union {PS!Ended} /\ next_run' \in Int /\ next_run' > tick
      /\ tick \in Int /\ schedule_last_run \in Int /\ schedule_last_run <= tick /\ next_run \in Int
      /\ \A o \in Occurrences : o \in Int
  BY <1>1, <1>2, NextIsLater, ScheduleNumbers DEF ScheduleTypes
<1>4. ScheduleTypes' /\ OnePass'
  BY <1>1, <1>2, <1>3 DEF ScheduleTypes, OnePass
<1>5. DueOnce'
  <2>1. \A n \in Nodes : pass[n].at \in {"move", "launch"} =>
          /\ pass[n].due \in Occurrences /\ pass[n].due < pass[n].run_now
          /\ launches[pass[n].due] = 0 /\ pass[n].due < next_run'
    <3> SUFFICES ASSUME NEW n \in Nodes, pass[n].at \in {"move", "launch"}
                 PROVE  /\ pass[n].due \in Occurrences /\ pass[n].due < pass[n].run_now
                        /\ launches[pass[n].due] = 0 /\ pass[n].due < next_run'
      OBVIOUS
    <3>1. pass[n].due \in Occurrences /\ pass[n].due < pass[n].run_now /\ launches[pass[n].due] = 0
      BY <1>2 DEF DueOnce
    <3>2. pass[n] # PS!NoPass
      BY PassFields
    <3>3. pass[n].run_now = schedule_last_run
      BY <1>2, <3>2 DEF OnePass
    <3>4. pass[n].due \in Int /\ pass[n].due < schedule_last_run
      BY <1>3, <3>1, <3>3
    <3>5. \A x, y, z, w \in Int : x < y /\ y <= z /\ w > z => x < w
      OBVIOUS
    <3>6. pass[n].due < next_run'
      BY <1>3, <3>4, <3>5
    <3> QED
      BY <3>1, <3>6
  <2>2. \A n \in Nodes : pass[n].at \in {"move", "launch"} => pass[n].due <= next_run'
    <3>1. \A x, y \in Int : x < y => x <= y
      OBVIOUS
    <3> QED
      BY <1>3, <2>1, <3>1
  <2>3. \A o \in Occurrences : launches[o] > 0 => o < tick /\ o < next_run'
    BY <1>2, <1>3 DEF DueOnce
  <2> QED
    BY <1>1, <1>2, <2>1, <2>2, <2>3 DEF DueOnce, PS!LaunchedOnce
<1>6. OwedOrLost'
  BY <1>1, <1>3 DEF OwedOrLost
<1>7. PS!RunOrLost'
  <2>1. ASSUME NEW o \in Occurrences, 1 < o, o < next_run', ~(o < next_run) PROVE o \in lost'
    <3>1. next_run - 1 < o
      BY <1>3, <2>1
    <3> QED
      BY <1>1, <2>1, <3>1 DEF PS!Skipped
  <2> QED
    BY <1>1, <1>2, <2>1 DEF PS!RunOrLost
<1> QED
  BY <1>4, <1>5, <1>6, <1>7 DEF ScheduleInv

LEMMA ScheduleStep == ASSUME TimesAssumed, ScheduleInv, [PS!Next]_scheduleVars PROVE ScheduleInv'
<1>1. CASE UNCHANGED scheduleVars
  BY <1>1 DEF scheduleVars, ScheduleInv, ScheduleTypes, OnePass, DueOnce, OwedOrLost, PS!LaunchedOnce,
              PS!RunOrLost, PS!Owed
<1>2. CASE PS!Tick
  BY <1>2, TickStep
<1>3. CASE PS!RunPass
  BY <1>3, BeginPassStep, SelectStep, MoveOnStep, LaunchJobStep DEF PS!RunPass
<1>4. ASSUME NEW n \in Nodes, PS!GiveUp(n) PROVE ScheduleInv'
  <2>1. pass[n].at = "launch" /\ PS!Owed(n) = {pass[n].due}
    BY <1>4 DEF PS!GiveUp, PS!Owed
  <2>2. pass[n] # PS!NoPass
    BY <2>1, PassFields
  <2> QED
    BY <1>4, <2>1, <2>2, PassEnds DEF PS!GiveUp, EndsPass
<1>5. ASSUME NEW n \in Nodes, PS!Die(n) PROVE ScheduleInv'
  BY <1>5, PassEnds DEF PS!Die, EndsPass
<1>6. CASE PS!EditSchedule
  BY <1>6, EditScheduleStep
<1> QED
  BY <1>1, <1>2, <1>3, <1>4, <1>5, <1>6 DEF PS!Next
-----------------------------------------------------------------------------

LEMMA NodeInit == EN!Init /\ MaxStarts \in Nat => NodeInv
BY DEF EN!Init, NodeInv, NodeTypes, RowsInService, NoJobAtDeletion, EN!OfflineHasNoCapacity, EN!RemovedForGood,
       EN!NoJobOnRemovedNode, EN!NewRow, EN!Quiet, EN!Copy, EN!CopyType, EN!States, EN!Unseen

(* What a save makes of the row; unless the history says so, it was what was read. *)
LEMMA SaveFacts ==
    ASSUME NodeInv, NEW s \in EN!States, NEW k \in BOOLEAN, NEW read, EN!Save(s, k, read)
    PROVE  /\ instance' \in [node_state : EN!States, capacity : BOOLEAN, last_seen : Int]
           /\ stale' \in [row : BOOLEAN, start : BOOLEAN]
           /\ stale'.start = stale.start /\ (stale.row => stale'.row)
           /\ instance.node_state = "gone" => instance' = instance /\ stale' = stale
           /\ instance.node_state # "gone" =>
                /\ instance'.node_state = s /\ instance'.capacity = k
                /\ ~stale'.row => EN!Copy(instance) = read
<1>1. /\ instance \in [node_state : EN!States, capacity : BOOLEAN, last_seen : Int]
      /\ stale \in [row : BOOLEAN, start : BOOLEAN]
  BY DEF NodeInv, NodeTypes
<1>2. CASE instance.node_state = "gone"
  BY <1>1, <1>2 DEF EN!Save
<1>3. CASE instance.node_state # "gone"
  <2>1. instance' = [instance EXCEPT !.node_state = s, !.capacity = k]
    BY <1>3 DEF EN!Save
  <2>2. /\ instance' \in [node_state : EN!States, capacity : BOOLEAN, last_seen : Int]
        /\ instance'.node_state = s /\ instance'.capacity = k
    BY <1>1, <2>1
  <2>3. stale' = [stale EXCEPT !.row = @ \/ EN!Copy(instance) # read]
    BY <1>3 DEF EN!Save
  <2>4. /\ stale' \in [row : BOOLEAN, start : BOOLEAN]
        /\ stale'.start = stale.start
        /\ stale'.row <=> (stale.row \/ EN!Copy(instance) # read)
    BY <1>1, <2>3
  <2> QED
    BY <1>3, <2>2, <2>4
<1> QED
  BY <1>2, <1>3

RowTypes == /\ instance \in [node_state : EN!States, capacity : BOOLEAN, last_seen : Int]
            /\ stale \in [row : BOOLEAN, start : BOOLEAN]
NodeRules == NoJobAtDeletion /\ EN!OfflineHasNoCapacity /\ EN!RemovedForGood /\ EN!NoJobOnRemovedNode

LEMMA SavedRow ==
    ASSUME NodeInv, NEW s \in EN!States, NEW k \in BOOLEAN, NEW read, EN!Save(s, k, read),
           nodeJob' = nodeJob, removal' = removal, read.node_state \in InService,
           EN!Copy(instance) = read =>
              /\ s \in InService
              /\ s = "unavailable" => ~k \/ (instance.node_state = "unavailable" /\ k = instance.capacity)
    PROVE  RowTypes' /\ NodeRules'
<1>1. RowTypes'
  BY SaveFacts DEF RowTypes
<1>2. NodeRules
  BY DEF NodeRules, NodeInv
<1>3. CASE instance.node_state = "gone"
  <2>1. instance' = instance /\ stale' = stale
    BY <1>3, SaveFacts
  <2> QED
    BY <1>1, <1>2, <2>1 DEF NodeRules, NoJobAtDeletion, EN!OfflineHasNoCapacity, EN!RemovedForGood,
                            EN!NoJobOnRemovedNode
<1>4. CASE instance.node_state # "gone"
  <2>1. /\ instance'.node_state = s /\ instance'.capacity = k /\ stale'.start = stale.start
        /\ stale.row => stale'.row
        /\ ~stale'.row => EN!Copy(instance) = read
    BY <1>4, SaveFacts
  <2>2. CASE stale'.row
    BY <1>1, <2>2 DEF NodeRules, NoJobAtDeletion, EN!OfflineHasNoCapacity, EN!RemovedForGood, EN!NoJobOnRemovedNode,
                      RowTypes
  <2>3. CASE ~stale'.row
    <3>1. ~stale.row /\ EN!Copy(instance) = read
      BY <2>1, <2>3
    <3>2. instance.node_state \in InService
      BY <3>1 DEF EN!Copy
    <3>3. removal.at = "idle"
      BY <1>2, <3>1, <3>2 DEF NodeRules, EN!RemovedForGood, InService
    <3>4. s \in InService /\ s # "gone"
      BY <3>1 DEF InService
    <3>5. s = "unavailable" => ~k
      BY <1>2, <3>1 DEF NodeRules, EN!OfflineHasNoCapacity
    <3>6. removal' = removal /\ nodeJob' = nodeJob
      OBVIOUS
    <3>7. NoJobAtDeletion' /\ EN!RemovedForGood'
      BY <3>3, <3>6, Zenon DEF NoJobAtDeletion, EN!RemovedForGood
    <3>8. EN!OfflineHasNoCapacity' /\ EN!NoJobOnRemovedNode'
      BY <2>1, <3>4, <3>5, Zenon DEF EN!OfflineHasNoCapacity, EN!NoJobOnRemovedNode
    <3> QED
      BY <1>1, <3>7, <3>8 DEF NodeRules
  <2> QED
    BY <2>2, <2>3
<1> QED
  BY <1>3, <1>4

(* cluster_node_heartbeat. *)
LEMMA HeartbeatStep ==
    ASSUME NodeInv, NEW c \in Controllers, EN!BeginHeartbeat(c) \/ EN!Reap(c) \/ EN!MarkOffline(c)
    PROVE  NodeInv'
<1>1. NodeTypes /\ RowsInService /\ NodeRules
  BY DEF NodeInv, NodeRules
<1>2. heartbeat[c].row \in EN!CopyType
  BY <1>1 DEF NodeTypes
<1>3. CASE EN!BeginHeartbeat(c)
  <2> DEFINE seen == advertised > instance.last_seen
             row == IF seen THEN [instance EXCEPT !.last_seen = advertised] ELSE instance
  <2>1. /\ instance.node_state \in InService
        /\ instance' = row
        /\ heartbeat' = [heartbeat EXCEPT ![c] = IF EN!is_lost(row) THEN [at |-> "reap", row |-> EN!Copy(row)]
                                                 ELSE EN!Quiet]
        /\ check' = check \/ (check[c].at = "idle" /\ check' = [check EXCEPT ![c].at = "queued"])
        /\ UNCHANGED <<hour, advertised, nodeJob, removal, stale>>
    BY <1>3 DEF EN!BeginHeartbeat, InService
  <2>2. /\ row \in [node_state : EN!States, capacity : BOOLEAN, last_seen : Int]
        /\ row.node_state = instance.node_state /\ row.capacity = instance.capacity
    BY <1>1 DEF NodeTypes
  <2> HIDE DEF row
  <2>3. /\ [at |-> "reap", row |-> EN!Copy(row)] \in [at : {"idle", "reap", "offline"}, row : EN!CopyType]
        /\ EN!Copy(row).node_state \in InService
    BY <2>1, <2>2 DEF EN!Copy, EN!CopyType
  <2>4. EN!Quiet \in [at : {"idle", "reap", "offline"}, row : EN!CopyType] /\ EN!Quiet.at = "idle"
    BY DEF EN!Quiet, EN!NewRow, EN!Copy, EN!CopyType, EN!States
  <2>5. NodeTypes'
    BY <1>1, <2>1, <2>2, <2>3, <2>4 DEF NodeTypes
  <2>6. RowsInService'
    <3>1. \A d \in Controllers : heartbeat'[d].at # "idle" => heartbeat'[d].row.node_state \in InService
      BY <1>1, <2>1, <2>3, <2>4 DEF RowsInService, NodeTypes
    <3>2. \A d \in Controllers : check'[d].at = "checking" => check'[d] = check[d]
      BY <1>1, <2>1 DEF NodeTypes
    <3> QED
      BY <1>1, <3>1, <3>2 DEF RowsInService
  <2>7. NodeRules'
    BY <1>1, <2>1, <2>2 DEF NodeRules, NoJobAtDeletion, EN!OfflineHasNoCapacity, EN!RemovedForGood,
                            EN!NoJobOnRemovedNode
  <2> QED
    BY <2>5, <2>6, <2>7 DEF NodeInv, NodeRules
<1>4. CASE EN!Reap(c)
  <2>1. /\ heartbeat[c].at = "reap" /\ heartbeat' = [heartbeat EXCEPT ![c].at = "offline"]
        /\ nodeJob' = [nodeJob EXCEPT !.status = IF @ = "running" THEN "none" ELSE @]
        /\ UNCHANGED <<hour, instance, advertised, check, removal, stale>>
    BY <1>4 DEF EN!Reap
  <2>2. NodeTypes'
    BY <1>1, <2>1 DEF NodeTypes
  <2>3. RowsInService'
    BY <1>1, <2>1 DEF RowsInService, NodeTypes
  <2>4. nodeJob.status = "none" => nodeJob'.status = "none"
    BY <1>1, <2>1 DEF NodeTypes
  <2>5. NodeRules'
    BY <1>1, <2>1, <2>4 DEF NodeRules, NoJobAtDeletion, EN!OfflineHasNoCapacity, EN!RemovedForGood,
                            EN!NoJobOnRemovedNode
  <2> QED
    BY <2>2, <2>3, <2>5 DEF NodeInv, NodeRules
<1>5. CASE EN!MarkOffline(c)
  <2>1. /\ heartbeat[c].at = "offline" /\ heartbeat' = [heartbeat EXCEPT ![c] = EN!Quiet]
        /\ UNCHANGED <<hour, advertised, check, nodeJob, removal>>
    BY <1>5 DEF EN!MarkOffline
  <2>2. EN!Quiet \in [at : {"idle", "reap", "offline"}, row : EN!CopyType] /\ EN!Quiet.at = "idle"
    BY DEF EN!Quiet, EN!NewRow, EN!Copy, EN!CopyType, EN!States
  <2>3. RowTypes' /\ NodeRules'
    <3>1. CASE heartbeat[c].row.node_state = "ready"
      <4>1. EN!Save("unavailable", FALSE, heartbeat[c].row)
        BY <1>5, <3>1 DEF EN!MarkOffline
      <4>2. "unavailable" \in EN!States /\ "unavailable" \in InService /\ heartbeat[c].row.node_state \in InService
        BY <3>1 DEF EN!States, InService
      <4> QED
        BY <2>1, <4>1, <4>2, SavedRow
    <3>2. CASE heartbeat[c].row.node_state # "ready"
      <4>1. instance' = instance /\ stale' = stale
        BY <1>5, <3>2 DEF EN!MarkOffline
      <4> QED
        BY <1>1, <2>1, <4>1 DEF RowTypes, NodeTypes, NodeRules, NoJobAtDeletion, EN!OfflineHasNoCapacity,
                                EN!RemovedForGood, EN!NoJobOnRemovedNode
    <3> QED
      BY <3>1, <3>2
  <2>4. NodeTypes'
    BY <1>1, <2>1, <2>2, <2>3 DEF NodeTypes, RowTypes
  <2>5. RowsInService'
    BY <1>1, <2>1, <2>2 DEF RowsInService, NodeTypes
  <2> QED
    BY <2>3, <2>4, <2>5 DEF NodeInv, NodeRules
<1> QED
  BY <1>3, <1>4, <1>5

(* execution_node_health_check. *)
LEMMA CheckStep ==
    ASSUME NodeInv, NEW c \in Controllers, EN!RequestCheck(c) \/ EN!BeginCheck(c) \/ EN!EndCheck(c)
    PROVE  NodeInv'
<1>1. NodeTypes /\ RowsInService /\ NodeRules
  BY DEF NodeInv, NodeRules
<1>2. EN!Quiet \in [at : {"idle", "queued", "checking"}, row : EN!CopyType] /\ EN!Quiet.at = "idle"
  BY DEF EN!Quiet, EN!NewRow, EN!Copy, EN!CopyType, EN!States
<1>3. CASE EN!RequestCheck(c)
  <2>1. /\ check' = [check EXCEPT ![c].at = "queued"]
        /\ UNCHANGED <<hour, instance, advertised, heartbeat, nodeJob, removal, stale>>
    BY <1>3 DEF EN!RequestCheck
  <2>2. NodeTypes' /\ RowsInService'
    BY <1>1, <2>1 DEF NodeTypes, RowsInService
  <2>3. NodeRules'
    BY <1>1, <2>1 DEF NodeRules, NoJobAtDeletion, EN!OfflineHasNoCapacity, EN!RemovedForGood, EN!NoJobOnRemovedNode
  <2> QED
    BY <2>2, <2>3 DEF NodeInv, NodeRules
<1>4. CASE EN!BeginCheck(c)
  <2>1. /\ check' = [check EXCEPT ![c] = IF instance.node_state \in InService
                                         THEN [at |-> "checking", row |-> EN!Copy(instance)] ELSE EN!Quiet]
        /\ UNCHANGED <<hour, instance, advertised, heartbeat, nodeJob, removal, stale>>
    BY <1>4 DEF EN!BeginCheck, InService
  <2>2. /\ [at |-> "checking", row |-> EN!Copy(instance)] \in [at : {"idle", "queued", "checking"}, row : EN!CopyType]
        /\ EN!Copy(instance).node_state = instance.node_state
    BY <1>1 DEF NodeTypes, EN!Copy, EN!CopyType
  <2>3. NodeTypes' /\ RowsInService'
    BY <1>1, <1>2, <2>1, <2>2 DEF NodeTypes, RowsInService
  <2>4. NodeRules'
    BY <1>1, <2>1 DEF NodeRules, NoJobAtDeletion, EN!OfflineHasNoCapacity, EN!RemovedForGood, EN!NoJobOnRemovedNode
  <2> QED
    BY <2>3, <2>4 DEF NodeInv, NodeRules
<1>5. CASE EN!EndCheck(c)
  <2> DEFINE row == check[c].row
  <2>1. /\ check[c].at = "checking" /\ check' = [check EXCEPT ![c] = EN!Quiet]
        /\ UNCHANGED <<hour, advertised, heartbeat, nodeJob, removal>>
        /\ \/ EN!Save(IF row.node_state = "ready" THEN instance.node_state ELSE "ready", TRUE, row)
           \/ EN!Save("unavailable", FALSE, row)
           \/ row.node_state = "unavailable" /\ EN!Save(instance.node_state, row.capacity, row)
    BY <1>5 DEF EN!EndCheck
  <2>2. row \in EN!CopyType /\ row.node_state \in InService /\ row.capacity \in BOOLEAN
        /\ instance.node_state \in EN!States
    BY <1>1, <2>1 DEF NodeTypes, RowsInService, EN!CopyType
  <2>3. {"ready", "unavailable"} \subseteq EN!States /\ {"ready", "unavailable"} \subseteq InService
    BY DEF EN!States, InService
  <2>4. EN!Copy(instance) = row => instance.node_state = row.node_state /\ instance.capacity = row.capacity
    BY DEF EN!Copy
  <2> HIDE DEF row
  <2>5. RowTypes' /\ NodeRules'
    <3>1. CASE EN!Save(IF row.node_state = "ready" THEN instance.node_state ELSE "ready", TRUE, row)
      <4> DEFINE s == IF row.node_state = "ready" THEN instance.node_state ELSE "ready"
      <4>1. s \in EN!States /\ (EN!Copy(instance) = row => s \in InService /\ s # "unavailable")
        BY <2>2, <2>3, <2>4
      <4>2. EN!Save(s, TRUE, row)
        BY <3>1
      <4> HIDE DEF s
      <4> QED
        BY <2>1, <2>2, <4>1, <4>2, SavedRow
    <3>2. CASE EN!Save("unavailable", FALSE, row)
      BY <2>1, <2>2, <2>3, <3>2, SavedRow
    <3>3. CASE row.node_state = "unavailable" /\ EN!Save(instance.node_state, row.capacity, row)
      <4>1. EN!Copy(instance) = row =>
              /\ instance.node_state \in InService
              /\ instance.node_state = "unavailable" /\ row.capacity = instance.capacity
        BY <2>3, <2>4, <3>3
      <4> QED
        BY <2>1, <2>2, <3>3, <4>1, SavedRow
    <3> QED
      BY <2>1, <3>1, <3>2, <3>3
  <2>6. NodeTypes'
    BY <1>1, <1>2, <2>1, <2>5 DEF NodeTypes, RowTypes
  <2>7. RowsInService'
    BY <1>1, <1>2, <2>1 DEF NodeTypes, RowsInService
  <2> QED
    BY <2>5, <2>6, <2>7 DEF NodeInv, NodeRules
<1> QED
  BY <1>3, <1>4, <1>5

(* The jobs: a pass that had read the node as ready may start one late.      *)
LEMMA NodeJobStep ==
    ASSUME NodeInv, EN!TMRead \/ EN!TMStart \/ EN!TMLeave \/ EN!JobRuns \/ EN!JobEnds
    PROVE  NodeInv'
<1>1. NodeTypes /\ RowsInService /\ NodeRules
  BY DEF NodeInv, NodeRules
<1>2. UNCHANGED <<hour, instance, advertised, heartbeat, check, removal>>
  BY DEF EN!TMRead, EN!TMStart, EN!TMLeave, EN!JobRuns, EN!JobEnds
<1>3. RowsInService'
  BY <1>1, <1>2 DEF RowsInService
<1>4. CASE EN!TMStart
  <2>1. /\ nodeJob' = [status |-> "waiting", left |-> nodeJob.left - 1]
        /\ stale' = [stale EXCEPT !.start = @ \/ instance.node_state # "ready"]
    BY <1>4 DEF EN!TMStart
  <2>2. /\ nodeJob' \in [status : {"none", "waiting", "running"}, left : Int]
        /\ stale' \in [row : BOOLEAN, start : BOOLEAN] /\ stale'.row = stale.row
        /\ stale'.start <=> (stale.start \/ instance.node_state # "ready")
    <3>1. nodeJob.left \in Int /\ stale \in [row : BOOLEAN, start : BOOLEAN]
      BY <1>1 DEF NodeTypes
    <3>2. nodeJob' \in [status : {"none", "waiting", "running"}, left : Int]
      BY <2>1, <3>1
    <3>3. /\ stale' \in [row : BOOLEAN, start : BOOLEAN] /\ stale'.row = stale.row
          /\ stale'.start <=> (stale.start \/ instance.node_state # "ready")
      BY <2>1, <3>1
    <3> QED
      BY <3>2, <3>3
  <2>3. ~stale'.row /\ ~stale'.start => removal.at = "idle" /\ instance.node_state # "gone"
    BY <1>1, <2>2 DEF NodeRules, EN!RemovedForGood
  <2>4. NodeRules'
    <3>1. EN!OfflineHasNoCapacity' /\ EN!RemovedForGood'
      BY <1>1, <1>2, <2>2 DEF NodeRules, EN!OfflineHasNoCapacity, EN!RemovedForGood
    <3>2. NoJobAtDeletion' /\ EN!NoJobOnRemovedNode'
      BY <1>2, <2>3 DEF NoJobAtDeletion, EN!NoJobOnRemovedNode
    <3> QED
      BY <3>1, <3>2 DEF NodeRules
  <2> QED
    BY <1>1, <1>2, <1>3, <2>2, <2>4 DEF NodeInv, NodeRules, NodeTypes
<1>5. CASE EN!TMRead \/ EN!TMLeave \/ EN!JobRuns \/ EN!JobEnds
  <2>1. /\ stale' = stale
        /\ nodeJob' \in [status : {"none", "waiting", "running"}, left : Int]
        /\ nodeJob.status = "none" => nodeJob'.status = "none"
    BY <1>1, <1>5 DEF NodeTypes, EN!TMRead, EN!TMLeave, EN!JobRuns, EN!JobEnds
  <2>2. NodeRules'
    BY <1>1, <1>2, <2>1 DEF NodeRules, NoJobAtDeletion, EN!OfflineHasNoCapacity, EN!RemovedForGood,
                            EN!NoJobOnRemovedNode
  <2> QED
    BY <1>1, <1>2, <1>3, <2>1, <2>2 DEF NodeInv, NodeRules, NodeTypes
<1> QED
  BY <1>4, <1>5

(* The end of the node. *)
LEMMA RemovalStep ==
    ASSUME NodeInv, EN!Deprovision \/ EN!JobsAreOver \/ EN!Remove \/ EN!LoseRemoval
    PROVE  NodeInv'
<1>1. NodeTypes /\ RowsInService /\ NodeRules
  BY DEF NodeInv, NodeRules
<1>2. UNCHANGED <<hour, advertised, heartbeat, check, nodeJob, stale>>
  BY DEF EN!Deprovision, EN!JobsAreOver, EN!Remove, EN!LoseRemoval
<1>3. RowsInService'
  BY <1>1, <1>2 DEF RowsInService
<1>4. /\ instance' \in [node_state : EN!States, capacity : BOOLEAN, last_seen : Int]
      /\ removal' \in [at : {"idle", "waiting", "delete", "done", "lost"}, losses : Int]
  <2>1. CASE EN!Deprovision
    BY <1>1, <2>1 DEF NodeTypes, EN!Deprovision, EN!States
  <2>2. CASE EN!JobsAreOver
    BY <1>1, <2>2 DEF NodeTypes, EN!JobsAreOver
  <2>3. CASE EN!Remove
    BY <1>1, <2>3 DEF NodeTypes, EN!Remove, EN!States
  <2>4. CASE EN!LoseRemoval
    BY <1>1, <2>4 DEF NodeTypes, EN!LoseRemoval
  <2> QED
    BY <2>1, <2>2, <2>3, <2>4
<1>5. NodeTypes'
  BY <1>1, <1>2, <1>4 DEF NodeTypes
<1>6. NodeRules'
  <2>1. CASE EN!Deprovision
    <3>1. instance'.node_state = "deprovisioning" /\ removal'.at = "waiting"
      BY <1>1, <2>1 DEF NodeTypes, EN!Deprovision
    <3> QED
      BY <3>1 DEF NodeRules, NoJobAtDeletion, EN!OfflineHasNoCapacity, EN!RemovedForGood, EN!NoJobOnRemovedNode
  <2>2. CASE EN!JobsAreOver
    <3>1. nodeJob.status = "none" /\ removal.at = "waiting" /\ removal'.at = "delete" /\ instance' = instance
      BY <1>1, <2>2 DEF NodeTypes, EN!JobsAreOver
    <3> QED
      BY <1>1, <1>2, <3>1 DEF NodeRules, NoJobAtDeletion, EN!OfflineHasNoCapacity, EN!RemovedForGood,
                              EN!NoJobOnRemovedNode
  <2>3. CASE EN!Remove
    <3>1. removal.at = "delete" /\ instance'.node_state = "gone" /\ removal'.at = "done"
      BY <1>1, <2>3 DEF NodeTypes, EN!Remove
    <3>2. stale' = stale /\ nodeJob' = nodeJob
      BY <1>2
    <3> QED
      BY <1>1, <3>1, <3>2 DEF NodeRules, NoJobAtDeletion, EN!OfflineHasNoCapacity, EN!RemovedForGood,
                              EN!NoJobOnRemovedNode
  <2>4. CASE EN!LoseRemoval
    <3>1. removal.at # "idle" /\ removal'.at = "lost" /\ instance' = instance
      BY <2>4 DEF EN!LoseRemoval
    <3> QED
      BY <1>1, <1>2, <3>1 DEF NodeRules, NoJobAtDeletion, EN!OfflineHasNoCapacity, EN!RemovedForGood,
                              EN!NoJobOnRemovedNode
  <2> QED
    BY <2>1, <2>2, <2>3, <2>4
<1> QED
  BY <1>3, <1>5, <1>6 DEF NodeInv, NodeRules

LEMMA NodeStep == ASSUME NodeInv, [EN!Next]_nodeVars PROVE NodeInv'
<1>1. CASE UNCHANGED nodeVars
  BY <1>1 DEF nodeVars, NodeInv, NodeTypes, RowsInService, NoJobAtDeletion, EN!OfflineHasNoCapacity,
              EN!RemovedForGood, EN!NoJobOnRemovedNode
<1>2. CASE EN!Hour \/ EN!Advertise
  BY <1>2 DEF EN!Hour, EN!Advertise, NodeInv, NodeTypes, RowsInService, NoJobAtDeletion, EN!OfflineHasNoCapacity,
              EN!RemovedForGood, EN!NoJobOnRemovedNode
<1>3. CASE EN!Heartbeats
  BY <1>3, HeartbeatStep DEF EN!Heartbeats
<1>4. ASSUME NEW c \in Controllers, EN!RequestCheck(c) \/ EN!BeginCheck(c) \/ EN!EndCheck(c) PROVE NodeInv'
  BY <1>4, CheckStep
<1>5. CASE EN!TMRead \/ EN!TMStart \/ EN!TMLeave \/ EN!JobRuns \/ EN!JobEnds
  BY <1>5, NodeJobStep
<1>6. CASE EN!Deprovision \/ EN!LoseRemoval \/ EN!Removal
  BY <1>6, RemovalStep DEF EN!Removal
<1> QED
  BY <1>1, <1>2, <1>3, <1>4, <1>5, <1>6 DEF EN!Next

-----------------------------------------------------------------------------
(* awx_periodic_scheduler, cluster_node_heartbeat,                           *)
(* execution_node_health_check and remove_deprovisioned_node: whatever the   *)
(* number of nodes, deaths and edits, an occurrence launches one job at most *)
(* and none is passed over silently; and unless a row was saved over a newer *)
(* one, a node that is offline offers no capacity, one that is removed does  *)
(* not come back, and (no job having started late) it has no job.            *)
THEOREM PeriodicTasksAreKept ==
    ASSUME TimesAssumed, MaxStarts \in Nat
    PROVE  ServicesSpec => []PeriodicTasksHold
<1>1. ServicesInit => PeriodicInv
  BY ScheduleInit, NodeInit DEF ServicesInit, PeriodicInv
<1>2. PeriodicInv /\ [ServicesNext]_allvars => PeriodicInv'
  <2>1. ASSUME part = "schedule", [ServicesNext]_allvars PROVE [PS!Next]_scheduleVars
    BY <2>1 DEF ServicesNext, allvars, serviceVars
  <2>2. ASSUME part = "node", [ServicesNext]_allvars PROVE [EN!Next]_nodeVars
    BY <2>2 DEF ServicesNext, allvars, clusterVars
  <2>3. [ServicesNext]_allvars => part' = part
    BY DEF ServicesNext, allvars
  <2> QED
    BY <2>1, <2>2, <2>3, ScheduleStep, NodeStep DEF PeriodicInv
<1>3. PeriodicInv => PeriodicTasksHold
  BY DEF PeriodicInv, ScheduleInv, DueOnce, NodeInv, PeriodicTasksHold
<1> QED
  BY <1>1, <1>2, <1>3, PTL DEF ServicesSpec
-----------------------------------------------------------------------------
(* A run on receptor. *)

Handling == {"armed", "waiting", "canceling", "shutting"}
Reading == Handling \union {"arming", "leaving"}

MainType == [at : {"start", "submitting", "copying", "joining", "saving", "saved", "arming", "armed", "waiting", "details",
                   "canceling", "shutting", "leaving", "releasing", "done", "dead"},
             result : {"none", "successful", "failed", "error", "canceled", "pending"}]

WorkTypes ==
    /\ main \in MainType
    /\ processor \in {"off", "reading", "successful", "failed", "error"}
    /\ signals \in Nat
    /\ raising \in BOOLEAN

(* Who takes the unit away: the run at its end, or somebody after it.        *)
UnitInv ==
    /\ processor = "reading" => main.at \in Reading
    /\ over => main.at \in {"done", "dead"}
    /\ unit = "gone" => main.at \in {"done", "dead"}
    /\ RW!UnitReleased

(* A signal that came in time raises, at once or at the check, and what was  *)
(* raised is not forgotten.                                                  *)
HeedInv ==
    /\ heeded => signals > 0
    /\ raising => main.at \in Handling \union {"dead"}
    /\ main.at \in {"armed", "waiting"} => raising
    /\ main.at = "waiting" => ~heeded
    /\ main.at = "joining" => main.result = "error"
    /\ main.at = "details" => ~heeded /\ processor = "error"
    /\ main.at \in {"leaving", "releasing", "done"} =>
          main.result \in {"canceled", "error"} \/ (~heeded /\ processor \in RW!Results)

WorkInv == WorkTypes /\ UnitInv /\ HeedInv

-----------------------------------------------------------------------------
(* The websocket relay. *)

Note == [host : Hosts, action : {"online", "offline"}, ip : RC!AddressOrAbsent]
Task == [remote_host : Addresses, state : {"connecting", "connected", "canceled", "ended"}]

Reasons == {"listener", "cleaned twice", "forgotten"}
CrashTypes == [reasons : SUBSET Reasons, moved : BOOLEAN, home : [Hosts -> RC!AddressOrAbsent]]
LoopTypes == DOMAIN loop = {"cleaning", "new", "at"} /\ loop.new \subseteq Hosts /\ DOMAIN loop.cleaning \subseteq Hosts

RelayTypes ==
    /\ web \in [Hosts -> RC!AddressOrAbsent]
    /\ notes \in Seq(Note)
    /\ known_hosts \in [Hosts -> RC!AddressOrAbsent]
    /\ relay_connections \in [Hosts -> {Absent} \union Task]
    /\ LoopTypes
    /\ crash \in CrashTypes

(* As long as no host has moved or said goodbye, each has one address, and   *)
(* one task at a time cleans up after it.                                    *)
AtHome ==
    /\ crash.reasons \subseteq {"listener"}
    /\ listener = RC!NoCleanup
    /\ \A h \in Hosts :
          /\ web[h] \in {Absent, crash.home[h]}
          /\ known_hosts[h] \in {Absent, crash.home[h]}
          /\ RC!Connection(h) => relay_connections[h].remote_host = crash.home[h]
          /\ RC!At(h, "await") => RC!Connection(h)
    /\ \A i \in DOMAIN notes : notes[i].action = "online" /\ notes[i].ip = crash.home[notes[i].host] /\ notes[i].ip # Absent
    /\ \A h \in loop.new : RC!Known(h) /\ h \notin DOMAIN loop.cleaning

RelayInv == RelayTypes /\ (~crash.moved => AtHome)

-----------------------------------------------------------------------------
(* The subscriptions. *)

Subscription == [type : {"subscribe", "unsubscribe"}, origin_channel : Browsers]

SubTypes ==
    /\ groups \in [Browsers -> BOOLEAN]
    /\ messages \in Seq(Subscription)
    /\ producer \in [at : {"none", "starting", "receiving", "leaving", "dead"}, subscriptions : SUBSET Browsers]

(* Without a connection nothing is on its way.                               *)
JoinedOnly ==
    /\ connection # "joined" => messages = <<>> /\ producer.at = "none"
    /\ producer.at = "none" => producer.subscriptions = {}

(* The last message of a browser says what it wants; when none is on its     *)
(* way, the producer knows, but for what was missed.                         *)
Pending(b) == \E i \in DOMAIN messages : messages[i].origin_channel = b
LastSays ==
    \A i \in DOMAIN messages :
        (\A j \in DOMAIN messages : j > i => messages[j].origin_channel # messages[i].origin_channel) =>
            (messages[i].type = "subscribe" <=> groups[messages[i].origin_channel])
Served(b) ==
    /\ b \in producer.subscriptions => groups[b]
    /\ groups[b] /\ b \notin missed => b \in producer.subscriptions
    /\ producer.at = "dead" /\ b \in producer.subscriptions => b \in missed

SubInv == SubTypes /\ JoinedOnly /\ LastSays /\ \A b \in Browsers : ~Pending(b) => Served(b)

ConnectionsInv ==
    /\ part = "work" => WorkInv
    /\ part = "relay" => RelayInv
    /\ part = "subscription" => SubInv

-----------------------------------------------------------------------------
LEMMA WorkInit == RW!Init => WorkInv
<1> SUFFICES ASSUME RW!Init PROVE WorkInv
  OBVIOUS
<1>1. /\ main = [at |-> "start", result |-> "none"] /\ processor = "off" /\ signals = 0 /\ raising = FALSE
      /\ unit = "none" /\ over = FALSE /\ heeded = FALSE
  BY DEF RW!Init
<1>2. WorkTypes
  <2>1. main \in MainType
    BY <1>1 DEF MainType
  <2>2. raising \in BOOLEAN
    BY <1>1, Zenon
  <2> QED
    BY <1>1, <2>1, <2>2 DEF WorkTypes
<1>3. UnitInv
  BY <1>1 DEF UnitInv, RW!UnitReleased
<1>4. HeedInv
  BY <1>1 DEF HeedInv
<1> QED
  BY <1>2, <1>3, <1>4 DEF WorkInv

(* The steps of a run, by where it is: submitting, reading the results,      *)
(* handling a signal, at the end.                                            *)
Submits == RW!Begin \/ RW!CreateUnit \/ RW!Transmit \/ RW!Submitted \/ RW!SubmitFails \/ RW!JoinTransmitter
           \/ RW!SaveUnitId \/ RW!SaveFails

Reads == RW!GetResults \/ RW!Arm \/ RW!CheckSignal \/ RW!WaitEnds \/ RW!ReadDetails \/ RW!ProcessorEnds

Handles == RW!Signal \/ RW!CancelUnit \/ RW!CancelFails \/ RW!ShutSocket

Finishes == RW!JoinProcessor \/ RW!Release \/ RW!UnitEnds \/ RW!WorkerDies \/ RW!JobIsOver \/ RW!ReapUnit

LEMMA SubmitStep == ASSUME WorkInv, Submits PROVE WorkInv'
<1>1. WorkTypes /\ UnitInv /\ HeedInv /\ RW!UnitReleased /\ main \in MainType /\ signals \in Nat /\ raising \in BOOLEAN
  BY DEF WorkInv, WorkTypes, UnitInv, MainType
<1>2. CASE RW!Begin
  <2>1. /\ main' \in MainType
        /\ (main'.at = "submitting" /\ main'.result = main.result) \/ (main'.at = "releasing" /\ main'.result = "error")
    BY <1>1, <1>2 DEF RW!Begin, RW!Goto, RW!Raise, MainType, WorkTypes
  <2>2. WorkTypes'
    BY <1>1, <1>2, <2>1 DEF RW!Begin, WorkTypes, MainType
  <2>3. UnitInv'
    BY <1>1, <1>2, <2>1 DEF RW!Begin, UnitInv, RW!UnitReleased, Reading, Handling, RW!Mishap
  <2>4. HeedInv'
    BY <1>1, <1>2, <2>1 DEF RW!Begin, HeedInv, Handling, RW!Results
  <2> QED
    BY <2>2, <2>3, <2>4 DEF WorkInv
<1>3. CASE RW!CreateUnit
  <2>1. /\ main' \in MainType
        /\ main'.at = "copying" /\ main'.result = main.result
    BY <1>1, <1>3 DEF RW!CreateUnit, RW!Goto, RW!Raise, MainType, WorkTypes
  <2>2. WorkTypes'
    BY <1>1, <1>3, <2>1 DEF RW!CreateUnit, WorkTypes, MainType
  <2>3. UnitInv'
    BY <1>1, <1>3, <2>1 DEF RW!CreateUnit, UnitInv, RW!UnitReleased, Reading, Handling, RW!Mishap
  <2>4. HeedInv'
    BY <1>1, <1>3, <2>1 DEF RW!CreateUnit, HeedInv, Handling, RW!Results
  <2> QED
    BY <2>2, <2>3, <2>4 DEF WorkInv
<1>4. CASE RW!Transmit
  <2>1. main' = main
    BY <1>4 DEF RW!Transmit
  <2>2. WorkTypes'
    BY <1>1, <1>4, <2>1 DEF RW!Transmit, WorkTypes, MainType
  <2>3. UnitInv'
    BY <1>1, <1>4, <2>1 DEF RW!Transmit, UnitInv, RW!UnitReleased, Reading, Handling, RW!Mishap
  <2>4. HeedInv'
    BY <1>1, <1>4, <2>1 DEF RW!Transmit, HeedInv, Handling, RW!Results
  <2> QED
    BY <2>2, <2>3, <2>4 DEF WorkInv
<1>5. CASE RW!Submitted
  <2>1. /\ main' \in MainType
        /\ main'.at = "saving" /\ main'.result = main.result
    BY <1>1, <1>5 DEF RW!Submitted, RW!Goto, RW!Raise, MainType, WorkTypes
  <2>2. WorkTypes'
    BY <1>1, <1>5, <2>1 DEF RW!Submitted, WorkTypes, MainType
  <2>3. UnitInv'
    BY <1>1, <1>5, <2>1 DEF RW!Submitted, UnitInv, RW!UnitReleased, Reading, Handling, RW!Mishap
  <2>4. HeedInv'
    BY <1>1, <1>5, <2>1 DEF RW!Submitted, HeedInv, Handling, RW!Results
  <2> QED
    BY <2>2, <2>3, <2>4 DEF WorkInv
<1>6. CASE RW!SubmitFails
  <2>1. /\ main' \in MainType
        /\ main'.at = "joining" /\ main'.result = "error"
    BY <1>1, <1>6 DEF RW!SubmitFails, RW!Goto, RW!Raise, MainType, WorkTypes
  <2>2. WorkTypes'
    BY <1>1, <1>6, <2>1 DEF RW!SubmitFails, WorkTypes, MainType
  <2>3. UnitInv'
    BY <1>1, <1>6, <2>1 DEF RW!SubmitFails, UnitInv, RW!UnitReleased, Reading, Handling, RW!Mishap
  <2>4. HeedInv'
    BY <1>1, <1>6, <2>1 DEF RW!SubmitFails, HeedInv, Handling, RW!Results
  <2> QED
    BY <2>2, <2>3, <2>4 DEF WorkInv
<1>7. CASE RW!JoinTransmitter
  <2>1. /\ main' \in MainType
        /\ main'.at = "releasing" /\ main'.result = main.result
    BY <1>1, <1>7 DEF RW!JoinTransmitter, RW!Goto, RW!Raise, MainType, WorkTypes
  <2>2. WorkTypes'
    BY <1>1, <1>7, <2>1 DEF RW!JoinTransmitter, WorkTypes, MainType
  <2>3. UnitInv'
    BY <1>1, <1>7, <2>1 DEF RW!JoinTransmitter, UnitInv, RW!UnitReleased, Reading, Handling, RW!Mishap
  <2>4. HeedInv'
    BY <1>1, <1>7, <2>1 DEF RW!JoinTransmitter, HeedInv, Handling, RW!Results
  <2> QED
    BY <2>2, <2>3, <2>4 DEF WorkInv
<1>8. CASE RW!SaveUnitId
  <2>1. /\ main' \in MainType
        /\ main'.at = "saved" /\ main'.result = main.result
    BY <1>1, <1>8 DEF RW!SaveUnitId, RW!Goto, RW!Raise, MainType, WorkTypes
  <2>2. WorkTypes'
    BY <1>1, <1>8, <2>1 DEF RW!SaveUnitId, WorkTypes, MainType
  <2>3. UnitInv'
    BY <1>1, <1>8, <2>1 DEF RW!SaveUnitId, UnitInv, RW!UnitReleased, Reading, Handling, RW!Mishap
  <2>4. HeedInv'
    BY <1>1, <1>8, <2>1 DEF RW!SaveUnitId, HeedInv, Handling, RW!Results
  <2> QED
    BY <2>2, <2>3, <2>4 DEF WorkInv
<1>9. CASE RW!SaveFails
  <2>1. /\ main' \in MainType
        /\ main'.at = "releasing" /\ main'.result = "error"
    BY <1>1, <1>9 DEF RW!SaveFails, RW!Goto, RW!Raise, MainType, WorkTypes
  <2>2. WorkTypes'
    BY <1>1, <1>9, <2>1 DEF RW!SaveFails, WorkTypes, MainType
  <2>3. UnitInv'
    BY <1>1, <1>9, <2>1 DEF RW!SaveFails, UnitInv, RW!UnitReleased, Reading, Handling, RW!Mishap
  <2>4. HeedInv'
    BY <1>1, <1>9, <2>1 DEF RW!SaveFails, HeedInv, Handling, RW!Results
  <2> QED
    BY <2>2, <2>3, <2>4 DEF WorkInv
<1> QED
  BY <1>2, <1>3, <1>4, <1>5, <1>6, <1>7, <1>8, <1>9 DEF Submits

LEMMA ReadStep == ASSUME WorkInv, Reads PROVE WorkInv'
<1>1. WorkTypes /\ UnitInv /\ HeedInv /\ RW!UnitReleased /\ main \in MainType /\ signals \in Nat /\ raising \in BOOLEAN
  BY DEF WorkInv, WorkTypes, UnitInv, MainType
<1>2. CASE RW!GetResults
  <2>1. /\ main' \in MainType
        /\ \/ (transmitter = "failed" /\ main'.at = "releasing" /\ main'.result = "error")
           \/ (transmitter # "failed" /\ main'.at = "arming" /\ main'.result = main.result)
    BY <1>1, <1>2 DEF RW!GetResults, RW!Goto, RW!Raise, MainType, WorkTypes
  <2>2. WorkTypes'
    BY <1>1, <1>2, <2>1 DEF RW!GetResults, WorkTypes, MainType
  <2>3. UnitInv'
    BY <1>1, <1>2, <2>1 DEF RW!GetResults, UnitInv, RW!UnitReleased, Reading, Handling, RW!Mishap
  <2>4. HeedInv'
    BY <1>1, <1>2, <2>1 DEF RW!GetResults, HeedInv, Handling, RW!Results
  <2> QED
    BY <2>2, <2>3, <2>4 DEF WorkInv
<1>3. CASE RW!Arm
  <2>1. /\ main' \in MainType
        /\ main'.at = "armed" /\ main'.result = main.result
    BY <1>1, <1>3 DEF RW!Arm, RW!Goto, RW!Raise, MainType, WorkTypes
  <2>2. WorkTypes'
    BY <1>1, <1>3, <2>1 DEF RW!Arm, WorkTypes, MainType
  <2>3. UnitInv'
    BY <1>1, <1>3, <2>1 DEF RW!Arm, UnitInv, RW!UnitReleased, Reading, Handling, RW!Mishap
  <2>4. HeedInv'
    BY <1>1, <1>3, <2>1 DEF RW!Arm, HeedInv, Handling, RW!Results
  <2> QED
    BY <2>2, <2>3, <2>4 DEF WorkInv
<1>4. CASE RW!CheckSignal
  <2>1. /\ main' \in MainType
        /\ \/ (signals > 0 /\ main'.at = "canceling" /\ main'.result = main.result)
           \/ (signals = 0 /\ main'.at = "waiting" /\ main'.result = main.result)
    BY <1>1, <1>4 DEF RW!CheckSignal, RW!Goto, RW!Raise, MainType, WorkTypes
  <2>2. WorkTypes'
    BY <1>1, <1>4, <2>1 DEF RW!CheckSignal, WorkTypes, MainType
  <2>3. UnitInv'
    BY <1>1, <1>4, <2>1 DEF RW!CheckSignal, UnitInv, RW!UnitReleased, Reading, Handling, RW!Mishap
  <2>4. HeedInv'
    BY <1>1, <1>4, <2>1 DEF RW!CheckSignal, HeedInv, Handling, RW!Results
  <2> QED
    BY <2>2, <2>3, <2>4 DEF WorkInv
<1>5. CASE RW!WaitEnds
  <2>1. /\ main' \in MainType
        /\ main'.at \in {"details", "leaving"} /\ main'.result = processor /\ (main'.at = "details" <=> processor = "error")
    BY <1>1, <1>5 DEF RW!WaitEnds, RW!Goto, RW!Raise, MainType, WorkTypes
  <2>2. WorkTypes'
    BY <1>1, <1>5, <2>1 DEF RW!WaitEnds, WorkTypes, MainType
  <2>3. UnitInv'
    BY <1>1, <1>5, <2>1 DEF RW!WaitEnds, UnitInv, RW!UnitReleased, Reading, Handling, RW!Mishap
  <2>4. HeedInv'
    BY <1>1, <1>5, <2>1 DEF RW!WaitEnds, HeedInv, Handling, RW!Results
  <2> QED
    BY <2>2, <2>3, <2>4 DEF WorkInv
<1>6. CASE RW!ReadDetails
  <2>1. /\ main' \in MainType
        /\ main'.at = "leaving"
    BY <1>1, <1>6 DEF RW!ReadDetails, RW!Goto, RW!Raise, MainType, WorkTypes
  <2>2. WorkTypes'
    BY <1>1, <1>6, <2>1 DEF RW!ReadDetails, WorkTypes, MainType
  <2>3. UnitInv'
    BY <1>1, <1>6, <2>1 DEF RW!ReadDetails, UnitInv, RW!UnitReleased, Reading, Handling, RW!Mishap
  <2>4. HeedInv'
    BY <1>1, <1>6, <2>1 DEF RW!ReadDetails, HeedInv, Handling, RW!Results
  <2> QED
    BY <2>2, <2>3, <2>4 DEF WorkInv
<1>7. CASE RW!ProcessorEnds
  <2>1. main' = main
    BY <1>7 DEF RW!ProcessorEnds
  <2>2. WorkTypes'
    BY <1>1, <1>7, <2>1 DEF RW!ProcessorEnds, WorkTypes, MainType
  <2>3. UnitInv'
    BY <1>1, <1>7, <2>1 DEF RW!ProcessorEnds, UnitInv, RW!UnitReleased, Reading, Handling, RW!Mishap
  <2>4. HeedInv'
    BY <1>1, <1>7, <2>1 DEF RW!ProcessorEnds, HeedInv, Handling, RW!Results
  <2> QED
    BY <2>2, <2>3, <2>4 DEF WorkInv
<1> QED
  BY <1>2, <1>3, <1>4, <1>5, <1>6, <1>7 DEF Reads

LEMMA HandleStep == ASSUME WorkInv, Handles PROVE WorkInv'
<1>1. WorkTypes /\ UnitInv /\ HeedInv /\ RW!UnitReleased /\ main \in MainType /\ signals \in Nat /\ raising \in BOOLEAN
  BY DEF WorkInv, WorkTypes, UnitInv, MainType
<1>2. CASE RW!Signal
  <2>1. /\ main' \in MainType
        /\ \/ ~raising /\ main' = main
           \/ raising /\ main.at \in {"armed", "waiting"} /\ main'.at = "canceling" /\ main'.result = main.result
           \/ raising /\ main.at \notin {"armed", "waiting"} /\ main'.at = "leaving" /\ main'.result = "error"
    <3>1. CASE ~raising
      <4>1. main' = main
        BY <1>2, <3>1, Zenon DEF RW!Signal
      <4> QED
        BY <1>1, <3>1, <4>1, Zenon
    <3>2. CASE raising /\ main.at \in {"armed", "waiting"}
      <4>1. main' = [main EXCEPT !.at = "canceling"]
        BY <1>2, <3>2 DEF RW!Signal, RW!Goto
      <4>2. main' \in MainType /\ main'.at = "canceling" /\ main'.result = main.result
        BY <1>1, <4>1 DEF MainType
      <4> QED
        BY <3>2, <4>2, Zenon
    <3>3. CASE raising /\ main.at \notin {"armed", "waiting"}
      <4>1. main' = [at |-> "leaving", result |-> "error"]
        BY <1>2, <3>3 DEF RW!Signal, RW!Raise
      <4> QED
        BY <3>3, <4>1 DEF MainType
    <3> QED
      BY <3>1, <3>2, <3>3
  <2>2. WorkTypes'
    <3>1. main' \in MainType /\ processor' = processor /\ signals' = signals + 1 /\ raising' = FALSE
      BY <1>2, <2>1 DEF RW!Signal
    <3>2. processor' \in {"off", "reading", "successful", "failed", "error"}
      BY <1>1, <3>1 DEF WorkTypes
    <3>3. signals' \in Nat
      BY <1>1, <3>1
    <3>4. raising' \in BOOLEAN
      BY <3>1, Zenon
    <3> QED
      BY <3>1, <3>2, <3>3, <3>4, Zenon DEF WorkTypes
  <2>3. UnitInv'
    BY <1>1, <1>2, <2>1 DEF RW!Signal, UnitInv, RW!UnitReleased, Reading, Handling, RW!Mishap
  <2>4. HeedInv'
    BY <1>1, <1>2, <2>1 DEF RW!Signal, HeedInv, Handling, RW!Results
  <2> QED
    BY <2>2, <2>3, <2>4 DEF WorkInv
<1>3. CASE RW!CancelUnit
  <2>1. /\ main' \in MainType
        /\ main'.at = "shutting" /\ main'.result = main.result
    BY <1>1, <1>3 DEF RW!CancelUnit, RW!Goto, RW!Raise, MainType, WorkTypes
  <2>2. WorkTypes'
    BY <1>1, <1>3, <2>1 DEF RW!CancelUnit, WorkTypes, MainType
  <2>3. UnitInv'
    BY <1>1, <1>3, <2>1 DEF RW!CancelUnit, UnitInv, RW!UnitReleased, Reading, Handling, RW!Mishap
  <2>4. HeedInv'
    BY <1>1, <1>3, <2>1 DEF RW!CancelUnit, HeedInv, Handling, RW!Results
  <2> QED
    BY <2>2, <2>3, <2>4 DEF WorkInv
<1>4. CASE RW!CancelFails
  <2>1. /\ main' \in MainType
        /\ main'.at = "leaving" /\ main'.result = "error"
    BY <1>1, <1>4 DEF RW!CancelFails, RW!Goto, RW!Raise, MainType, WorkTypes
  <2>2. WorkTypes'
    BY <1>1, <1>4, <2>1 DEF RW!CancelFails, WorkTypes, MainType
  <2>3. UnitInv'
    BY <1>1, <1>4, <2>1 DEF RW!CancelFails, UnitInv, RW!UnitReleased, Reading, Handling, RW!Mishap
  <2>4. HeedInv'
    BY <1>1, <1>4, <2>1 DEF RW!CancelFails, HeedInv, Handling, RW!Results
  <2> QED
    BY <2>2, <2>3, <2>4 DEF WorkInv
<1>5. CASE RW!ShutSocket
  <2>1. /\ main' \in MainType
        /\ main'.at = "leaving" /\ main'.result = "canceled"
    BY <1>1, <1>5 DEF RW!ShutSocket, RW!Goto, RW!Raise, MainType, WorkTypes
  <2>2. WorkTypes'
    BY <1>1, <1>5, <2>1 DEF RW!ShutSocket, WorkTypes, MainType
  <2>3. UnitInv'
    BY <1>1, <1>5, <2>1 DEF RW!ShutSocket, UnitInv, RW!UnitReleased, Reading, Handling, RW!Mishap
  <2>4. HeedInv'
    BY <1>1, <1>5, <2>1 DEF RW!ShutSocket, HeedInv, Handling, RW!Results
  <2> QED
    BY <2>2, <2>3, <2>4 DEF WorkInv
<1> QED
  BY <1>2, <1>3, <1>4, <1>5 DEF Handles

LEMMA FinishStep == ASSUME WorkInv, Finishes PROVE WorkInv'
<1>1. WorkTypes /\ UnitInv /\ HeedInv /\ RW!UnitReleased /\ main \in MainType /\ signals \in Nat /\ raising \in BOOLEAN
  BY DEF WorkInv, WorkTypes, UnitInv, MainType
<1>2. CASE RW!JoinProcessor
  <2>1. /\ main' \in MainType
        /\ main'.at = "releasing" /\ main'.result = main.result
    BY <1>1, <1>2 DEF RW!JoinProcessor, RW!Goto, RW!Raise, MainType, WorkTypes
  <2>2. WorkTypes'
    BY <1>1, <1>2, <2>1 DEF RW!JoinProcessor, WorkTypes, MainType
  <2>3. UnitInv'
    BY <1>1, <1>2, <2>1 DEF RW!JoinProcessor, UnitInv, RW!UnitReleased, Reading, Handling, RW!Mishap
  <2>4. HeedInv'
    BY <1>1, <1>2, <2>1 DEF RW!JoinProcessor, HeedInv, Handling, RW!Results
  <2> QED
    BY <2>2, <2>3, <2>4 DEF WorkInv
<1>3. CASE RW!Release
  <2>1. /\ main' \in MainType
        /\ main'.at = "done" /\ main'.result = main.result
    BY <1>1, <1>3 DEF RW!Release, RW!Goto, RW!Raise, MainType, WorkTypes
  <2>2. WorkTypes'
    BY <1>1, <1>3, <2>1 DEF RW!Release, WorkTypes, MainType
  <2>3. UnitInv'
    BY <1>1, <1>3, <2>1 DEF RW!Release, UnitInv, RW!UnitReleased, Reading, Handling, RW!Mishap
  <2>4. HeedInv'
    BY <1>1, <1>3, <2>1 DEF RW!Release, HeedInv, Handling, RW!Results
  <2> QED
    BY <2>2, <2>3, <2>4 DEF WorkInv
<1>4. CASE RW!UnitEnds
  <2>1. main' = main
    BY <1>4 DEF RW!UnitEnds
  <2>2. WorkTypes'
    BY <1>1, <1>4, <2>1 DEF RW!UnitEnds, WorkTypes, MainType
  <2>3. UnitInv'
    BY <1>1, <1>4, <2>1 DEF RW!UnitEnds, UnitInv, RW!UnitReleased, Reading, Handling, RW!Mishap
  <2>4. HeedInv'
    BY <1>1, <1>4, <2>1 DEF RW!UnitEnds, HeedInv, Handling, RW!Results
  <2> QED
    BY <2>2, <2>3, <2>4 DEF WorkInv
<1>5. CASE RW!WorkerDies
  <2>1. /\ main' \in MainType
        /\ main'.at = "dead" /\ main'.result = main.result
    BY <1>1, <1>5 DEF RW!WorkerDies, RW!Goto, RW!Raise, MainType, WorkTypes
  <2>2. WorkTypes'
    BY <1>1, <1>5, <2>1 DEF RW!WorkerDies, WorkTypes, MainType
  <2>3. UnitInv'
    BY <1>1, <1>5, <2>1 DEF RW!WorkerDies, UnitInv, RW!UnitReleased, Reading, Handling, RW!Mishap
  <2>4. HeedInv'
    BY <1>1, <1>5, <2>1 DEF RW!WorkerDies, HeedInv, Handling, RW!Results
  <2> QED
    BY <2>2, <2>3, <2>4 DEF WorkInv
<1>6. CASE RW!JobIsOver
  <2>1. main' = main
    BY <1>6 DEF RW!JobIsOver
  <2>2. WorkTypes'
    BY <1>1, <1>6, <2>1 DEF RW!JobIsOver, WorkTypes, MainType
  <2>3. UnitInv'
    BY <1>1, <1>6, <2>1 DEF RW!JobIsOver, UnitInv, RW!UnitReleased, Reading, Handling, RW!Mishap
  <2>4. HeedInv'
    BY <1>1, <1>6, <2>1 DEF RW!JobIsOver, HeedInv, Handling, RW!Results
  <2> QED
    BY <2>2, <2>3, <2>4 DEF WorkInv
<1>7. CASE RW!ReapUnit
  <2>1. main' = main
    BY <1>7 DEF RW!ReapUnit
  <2>2. WorkTypes'
    BY <1>1, <1>7, <2>1 DEF RW!ReapUnit, WorkTypes, MainType
  <2>3. UnitInv'
    BY <1>1, <1>7, <2>1 DEF RW!ReapUnit, UnitInv, RW!UnitReleased, Reading, Handling, RW!Mishap
  <2>4. HeedInv'
    BY <1>1, <1>7, <2>1 DEF RW!ReapUnit, HeedInv, Handling, RW!Results
  <2> QED
    BY <2>2, <2>3, <2>4 DEF WorkInv
<1> QED
  BY <1>2, <1>3, <1>4, <1>5, <1>6, <1>7 DEF Finishes

LEMMA WorkStep == ASSUME WorkInv, [RW!Next]_workVars PROVE WorkInv'
<1>1. CASE UNCHANGED workVars
  BY <1>1 DEF workVars, WorkInv, WorkTypes, UnitInv, HeedInv, RW!UnitReleased
<1>2. CASE RW!Next
  BY <1>2, SubmitStep, ReadStep, HandleStep, FinishStep DEF RW!Next, RW!Threads, Submits, Reads, Handles, Finishes
<1> QED
  BY <1>1, <1>2

LEMMA WorkHolds == WorkInv => RW!UnitReleased /\ RW!SignalHeeded
BY DEF WorkInv, UnitInv, HeedInv, RW!SignalHeeded

-----------------------------------------------------------------------------
LEMMA SubInit == RS!Init => SubInv
<1> SUFFICES ASSUME RS!Init PROVE SubInv
  OBVIOUS
<1>1. /\ groups = [b \in Browsers |-> FALSE] /\ connection = "lost" /\ messages = <<>>
      /\ producer = [at |-> "none", subscriptions |-> {}]
  BY DEF RS!Init, RS!NoProducer
<1>2. SubTypes
  BY <1>1 DEF SubTypes
<1>3. JoinedOnly
  BY <1>1 DEF JoinedOnly
<1>4. LastSays
  BY <1>1 DEF LastSays
<1>5. \A b \in Browsers : Served(b)
  BY <1>1 DEF Served
<1> QED
  BY <1>2, <1>3, <1>4, <1>5 DEF SubInv

(* A message is appended that says what its browser wants now.               *)
LEMMA Said ==
    ASSUME SubInv, NEW b \in Browsers, NEW type \in {"subscribe", "unsubscribe"},
           messages' = Append(messages, [type |-> type, origin_channel |-> b]),
           groups' = [groups EXCEPT ![b] = (type = "subscribe")],
           producer' = producer, connection' = connection, connection = "joined",
           \A c \in Browsers : c # b => (c \in missed' <=> c \in missed)
    PROVE  SubInv'
<1> DEFINE m == [type |-> type, origin_channel |-> b]
           n == Len(messages) + 1
<1>1. m \in Subscription /\ messages \in Seq(Subscription) /\ m.type = type /\ m.origin_channel = b
  BY DEF Subscription, SubInv, SubTypes
<1>2. messages' = Append(messages, m)
  OBVIOUS
<1> HIDE DEF m
<1>3. /\ messages' \in Seq(Subscription)
      /\ DOMAIN messages' = DOMAIN messages \union {n}
      /\ \A i \in DOMAIN messages : messages'[i] = messages[i] /\ i < n
      /\ messages'[n] = m
  BY <1>1, <1>2, AppendFacts
<1>4. DOMAIN messages \subseteq Int /\ n \in Int
  BY <1>1
<1>5. /\ groups' \in [Browsers -> BOOLEAN] /\ (groups'[b] <=> type = "subscribe")
      /\ \A c \in Browsers : c # b => (groups'[c] <=> groups[c])
  BY DEF SubInv, SubTypes
<1>6. SubTypes'
  BY <1>3, <1>5 DEF SubInv, SubTypes
<1>7. JoinedOnly'
  BY DEF SubInv, JoinedOnly
<1>8. LastSays'
  <2> SUFFICES ASSUME NEW i \in DOMAIN messages',
                      \A j \in DOMAIN messages' : j > i => messages'[j].origin_channel # messages'[i].origin_channel
               PROVE  messages'[i].type = "subscribe" <=> groups'[messages'[i].origin_channel]
    BY DEF LastSays
  <2>1. CASE i = n
    BY <1>1, <1>3, <1>5, <2>1
  <2>2. CASE i \in DOMAIN messages
    <3>1. messages'[i] = messages[i] /\ messages[i] \in Subscription
      BY <1>1, <1>3, <2>2
    <3>2. messages[i].origin_channel # b /\ messages[i].origin_channel \in Browsers
      <4>1. messages'[n].origin_channel = b /\ n > i
        BY <1>1, <1>3, <1>4, <2>2
      <4> QED
        BY <1>3, <3>1, <4>1 DEF Subscription
    <3>3. \A j \in DOMAIN messages : j > i => messages[j].origin_channel # messages[i].origin_channel
      BY <1>3, <2>2, <3>1
    <3>4. messages[i].type = "subscribe" <=> groups[messages[i].origin_channel]
      BY <2>2, <3>3 DEF SubInv, LastSays
    <3> QED
      BY <1>5, <3>1, <3>2, <3>4
  <2> QED
    BY <1>3, <2>1, <2>2
<1>9. ASSUME NEW c \in Browsers, ~Pending(c)' PROVE Served(c)'
  <2>1. c # b
    BY <1>1, <1>3, <1>9 DEF Pending
  <2>2. ~Pending(c)
    BY <1>3, <1>9 DEF Pending
  <2>3. Served(c)
    BY <2>2 DEF SubInv
  <2>4. (groups'[c] <=> groups[c]) /\ (c \in missed' <=> c \in missed)
    BY <1>5, <2>1
  <2> QED
    BY <2>3, <2>4 DEF Served
<1> QED
  BY <1>6, <1>7, <1>8, <1>9 DEF SubInv

LEMMA SubscribeStep ==
    ASSUME SubInv, NEW b \in Browsers, RS!Subscribe(b) \/ RS!Unsubscribe(b)
    PROVE  SubInv'
<1>1. CASE connection = "joined"
  <2>1. CASE RS!Subscribe(b)
    <3>1. /\ messages' = Append(messages, [type |-> "subscribe", origin_channel |-> b])
          /\ groups' = [groups EXCEPT ![b] = TRUE] /\ missed' = missed \ {b}
          /\ producer' = producer /\ connection' = connection
      BY <1>1, <2>1 DEF RS!Subscribe, RS!Broadcast
    <3>2. groups' = [groups EXCEPT ![b] = ("subscribe" = "subscribe")]
      BY <3>1
    <3> QED
      BY <1>1, <3>1, <3>2, Said
  <2>2. CASE RS!Unsubscribe(b)
    <3>1. /\ messages' = Append(messages, [type |-> "unsubscribe", origin_channel |-> b])
          /\ groups' = [groups EXCEPT ![b] = FALSE] /\ missed' = missed \ {b}
          /\ producer' = producer /\ connection' = connection
      BY <1>1, <2>2 DEF RS!Unsubscribe, RS!Broadcast
    <3>2. groups' = [groups EXCEPT ![b] = ("unsubscribe" = "subscribe")]
      BY <3>1
    <3> QED
      BY <1>1, <3>1, <3>2, Said
  <2> QED
    BY <2>1, <2>2
<1>2. CASE connection # "joined"
  <2>1. messages = <<>> /\ producer.at = "none" /\ producer.subscriptions = {}
    BY <1>2 DEF SubInv, JoinedOnly
  <2>2. /\ messages' = messages /\ producer' = producer /\ connection' = connection
        /\ groups' \in [Browsers -> BOOLEAN]
    BY <1>2 DEF RS!Subscribe, RS!Unsubscribe, RS!Broadcast, SubInv, SubTypes
  <2>3. SubTypes' /\ JoinedOnly' /\ LastSays'
    BY <2>1, <2>2 DEF SubInv, SubTypes, JoinedOnly, LastSays
  <2>4. \A c \in Browsers : Served(c) /\ ~Pending(c)
    BY <2>1 DEF SubInv, Pending
  <2>5. ASSUME NEW c \in Browsers, groups'[c], c \notin missed' PROVE FALSE
    <3>1. CASE RS!Subscribe(b)
      <4>1. groups' = [groups EXCEPT ![b] = TRUE] /\ missed' = missed \union {b}
        BY <1>2, <3>1 DEF RS!Subscribe
      <4> QED
        BY <2>1, <2>4, <2>5, <4>1 DEF Served, SubInv, SubTypes
    <3>2. CASE RS!Unsubscribe(b)
      <4>1. groups' = [groups EXCEPT ![b] = FALSE] /\ missed' = missed \ {b}
        BY <3>2 DEF RS!Unsubscribe
      <4> QED
        BY <2>1, <2>4, <2>5, <4>1 DEF Served, SubInv, SubTypes
    <3> QED
      BY <3>1, <3>2
  <2>6. \A c \in Browsers : Served(c)'
    BY <2>1, <2>2, <2>5 DEF Served
  <2> QED
    BY <2>3, <2>6 DEF SubInv
<1> QED
  BY <1>1, <1>2

(* The relay takes the oldest message.                                       *)
LEMMA ReceiveStep == ASSUME SubInv, RS!Receive PROVE SubInv'
<1> DEFINE m == Head(messages)
           b == messages[1].origin_channel
<1>1. /\ messages # <<>> /\ messages' = Tail(messages) /\ groups' = groups /\ connection' = connection
      /\ IF m.type = "subscribe" THEN RS!OnSubscribe(m.origin_channel) ELSE RS!OnUnsubscribe(m.origin_channel)
  BY DEF RS!Receive
<1>2. /\ messages \in Seq(Subscription) /\ m = messages[1] /\ messages[1] \in Subscription
      /\ messages' \in Seq(Subscription) /\ 1 \in DOMAIN messages
      /\ \A i \in DOMAIN messages' : i + 1 \in DOMAIN messages /\ messages'[i] = messages[i + 1]
      /\ \A i \in DOMAIN messages : i # 1 => i - 1 \in DOMAIN messages' /\ messages'[i - 1] = messages[i]
      /\ DOMAIN messages \subseteq Nat \ {0} /\ DOMAIN messages' \subseteq Nat \ {0}
  BY <1>1, TailFacts DEF SubInv, SubTypes
<1>3. b \in Browsers /\ messages[1].type \in {"subscribe", "unsubscribe"}
  BY <1>2 DEF Subscription
<1>4. /\ messages[1].type = "subscribe" => RS!OnSubscribe(b)
      /\ messages[1].type # "subscribe" => RS!OnUnsubscribe(b)
  BY <1>1, <1>2
<1>5. /\ producer \in [at : {"none", "starting", "receiving", "leaving", "dead"}, subscriptions : SUBSET Browsers]
      /\ groups \in [Browsers -> BOOLEAN]
  BY DEF SubInv, SubTypes
<1>6. connection = "joined" /\ (producer.at = "none" => producer.subscriptions = {})
  BY <1>1 DEF SubInv, JoinedOnly
<1>7. /\ producer' \in [at : {"none", "starting", "receiving", "leaving", "dead"}, subscriptions : SUBSET Browsers]
      /\ producer'.at = "dead" <=> producer.at = "dead"
      /\ producer'.at = "none" => producer'.subscriptions = {}
      /\ \A c \in Browsers : c # b => (c \in producer'.subscriptions <=> c \in producer.subscriptions)
      /\ b \in producer'.subscriptions <=> messages[1].type = "subscribe"
  <2>1. CASE messages[1].type = "subscribe" /\ producer.at = "none"
    <3>1. producer' = [at |-> "starting", subscriptions |-> {b}]
      BY <1>4, <2>1 DEF RS!OnSubscribe
    <3> QED
      BY <1>3, <1>6, <2>1, <3>1
  <2>2. CASE messages[1].type = "subscribe" /\ producer.at # "none"
    <3>1. producer' = [producer EXCEPT !.subscriptions = @ \union {b}]
      BY <1>4, <2>2 DEF RS!OnSubscribe
    <3> QED
      BY <1>3, <1>5, <2>2, <3>1
  <2>3. CASE messages[1].type # "subscribe"
    <3>1. producer' = [producer EXCEPT !.subscriptions = @ \ {b}]
      BY <1>4, <2>3 DEF RS!OnUnsubscribe
    <3> QED
      BY <1>3, <1>5, <1>6, <2>3, <3>1
  <2> QED
    BY <2>1, <2>2, <2>3
<1>8. /\ \A c \in Browsers : c # b => (c \in missed' <=> c \in missed)
      /\ messages[1].type = "subscribe" /\ producer.at = "dead" /\ groups[b] => b \in missed'
  BY <1>3, <1>4 DEF RS!OnSubscribe, RS!OnUnsubscribe
<1> HIDE DEF m, b
<1>9. SubTypes' /\ JoinedOnly'
  BY <1>1, <1>2, <1>5, <1>6, <1>7 DEF SubTypes, JoinedOnly
<1>10. LastSays'
  <2> SUFFICES ASSUME NEW i \in DOMAIN messages',
                      \A j \in DOMAIN messages' : j > i => messages'[j].origin_channel # messages'[i].origin_channel
               PROVE  messages'[i].type = "subscribe" <=> groups[messages'[i].origin_channel]
    BY <1>1 DEF LastSays
  <2>1. i \in Nat /\ i + 1 \in DOMAIN messages /\ messages'[i] = messages[i + 1]
    BY <1>2
  <2>2. ASSUME NEW j \in DOMAIN messages, j > i + 1 PROVE messages[j].origin_channel # messages[i + 1].origin_channel
    <3>1. j \in Nat /\ j # 1 /\ j - 1 > i
      BY <1>2, <2>1, <2>2
    <3>2. j - 1 \in DOMAIN messages' /\ messages'[j - 1] = messages[j]
      BY <1>2, <3>1
    <3> QED
      BY <2>1, <3>1, <3>2
  <2>3. messages[i + 1].type = "subscribe" <=> groups[messages[i + 1].origin_channel]
    BY <2>1, <2>2 DEF SubInv, LastSays
  <2> QED
    BY <2>1, <2>3
<1>11. ASSUME NEW c \in Browsers, ~Pending(c)' PROVE Served(c)'
  <2>1. \A i \in DOMAIN messages : i # 1 => messages[i].origin_channel # c
    BY <1>2, <1>11 DEF Pending
  <2>2. CASE c # b
    <3>1. ~Pending(c)
      BY <2>1, <2>2 DEF Pending, b
    <3>2. Served(c)
      BY <3>1 DEF SubInv
    <3> QED
      BY <1>1, <1>7, <1>8, <2>2, <3>2 DEF Served
  <2>3. CASE c = b
    <3>1. \A j \in DOMAIN messages : j > 1 => messages[j].origin_channel # messages[1].origin_channel
      BY <1>2, <2>1, <2>3 DEF b
    <3>2. messages[1].type = "subscribe" <=> groups[b]
      BY <1>2, <3>1 DEF SubInv, LastSays, b
    <3> QED
      BY <1>1, <1>7, <1>8, <2>3, <3>2 DEF Served
  <2> QED
    BY <2>2, <2>3
<1> QED
  BY <1>9, <1>10, <1>11 DEF SubInv

(* The connection comes and goes. *)
LEMMA JoinStep == ASSUME SubInv, RS!Accept \/ RS!Join \/ RS!Lose PROVE SubInv'
<1>1. CASE RS!Accept \/ RS!Join
  <2>1. /\ groups' = groups /\ messages' = messages /\ producer' = producer /\ missed' = missed
        /\ connection # "joined"
    BY <1>1 DEF RS!Accept, RS!Join
  <2> QED
    BY <2>1 DEF SubInv, SubTypes, JoinedOnly, LastSays, Served, Pending
<1>2. CASE RS!Lose
  <2>1. /\ groups' = groups /\ messages' = <<>> /\ producer' = [at |-> "none", subscriptions |-> {}]
        /\ missed' = {b \in Browsers : groups[b]}
    BY <1>2 DEF RS!Lose, RS!NoProducer
  <2>2. SubTypes' /\ JoinedOnly' /\ LastSays'
    BY <2>1 DEF SubInv, SubTypes, JoinedOnly, LastSays
  <2>3. \A b \in Browsers : Served(b)'
    BY <2>1 DEF Served
  <2> QED
    BY <2>2, <2>3 DEF SubInv
<1> QED
  BY <1>1, <1>2

(* The producer's task; the last case is its end, for one reason or another. *)
LEMMA ProducerStep == ASSUME SubInv, RS!Produce \/ RS!Idle \/ RS!RedisFails \/ RS!Leave PROVE SubInv'
<1>1. /\ groups' = groups /\ messages' = messages /\ connection' = connection
  BY DEF RS!Produce, RS!Idle, RS!RedisFails, RS!Leave
<1>2. producer \in [at : {"none", "starting", "receiving", "leaving", "dead"}, subscriptions : SUBSET Browsers]
  BY DEF SubInv, SubTypes
<1>3. producer.at # "none" /\ (connection # "joined" => producer.at = "none")
  BY DEF RS!Produce, RS!Idle, RS!RedisFails, RS!Leave, SubInv, JoinedOnly
<1>4. CASE RS!Produce \/ RS!Idle
  <2>1. /\ producer' \in [at : {"none", "starting", "receiving", "leaving", "dead"}, subscriptions : SUBSET Browsers]
        /\ producer'.subscriptions = producer.subscriptions /\ producer'.at \in {"receiving", "leaving"}
        /\ missed' = missed
    BY <1>2, <1>4 DEF RS!Produce, RS!Idle
  <2>2. SubTypes' /\ JoinedOnly' /\ LastSays'
    BY <1>1, <1>3, <2>1 DEF SubInv, SubTypes, JoinedOnly, LastSays
  <2>3. \A b \in Browsers : ~Pending(b)' => Served(b)'
    BY <1>1, <2>1 DEF SubInv, Served, Pending
  <2> QED
    BY <2>2, <2>3 DEF SubInv
<1>5. CASE RS!RedisFails \/ RS!Leave
  <2>1. /\ missed' = missed \union {b \in producer.subscriptions : groups[b]}
        /\ \/ producer' \in [at : {"leaving", "dead"}, subscriptions : {producer.subscriptions}]
           \/ producer' = [at |-> "none", subscriptions |-> {}]
    BY <1>2, <1>5 DEF RS!RedisFails, RS!Leave, RS!NoProducer
  <2>2. /\ producer' \in [at : {"none", "starting", "receiving", "leaving", "dead"}, subscriptions : SUBSET Browsers]
        /\ producer'.subscriptions \in {producer.subscriptions, {}}
        /\ producer'.at = "none" => producer'.subscriptions = {}
        /\ producer'.subscriptions = {} \/ producer'.subscriptions = producer.subscriptions
    BY <1>2, <2>1
  <2>3. SubTypes' /\ JoinedOnly' /\ LastSays'
    BY <1>1, <1>3, <2>2 DEF SubInv, SubTypes, JoinedOnly, LastSays
  <2>4. \A b \in Browsers : ~Pending(b)' => Served(b)'
    <3>1. \A b \in Browsers : ~Pending(b)' => Served(b)
      BY <1>1 DEF SubInv, Pending
    <3> QED
      BY <1>1, <2>1, <2>2, <3>1 DEF Served
  <2> QED
    BY <2>3, <2>4 DEF SubInv
<1> QED
  BY <1>4, <1>5

LEMMA SubStep == ASSUME SubInv, [RS!Next]_subVars PROVE SubInv'
<1>1. CASE UNCHANGED subVars
  BY <1>1 DEF subVars, SubInv, SubTypes, JoinedOnly, LastSays, Served, Pending
<1>2. CASE RS!Next
  BY <1>2, SubscribeStep, ReceiveStep, JoinStep, ProducerStep DEF RS!Next, RS!Relay
<1> QED
  BY <1>1, <1>2

LEMMA SubHolds == SubInv => RS!Subscribed
<1> SUFFICES ASSUME SubInv, RS!Settled
             PROVE  /\ producer.subscriptions \subseteq RS!Wanted
                    /\ RS!Wanted \ missed \subseteq producer.subscriptions
                    /\ RS!Wanted \ missed # {} => producer.at \in {"starting", "receiving"}
  BY DEF RS!Subscribed
<1>1. \A b \in Browsers : Served(b)
  BY DEF SubInv, Pending, RS!Settled
<1>2. /\ producer \in [at : {"none", "starting", "receiving", "leaving", "dead"}, subscriptions : SUBSET Browsers]
      /\ producer.at # "leaving" /\ (producer.at = "none" => producer.subscriptions = {})
  BY DEF SubInv, SubTypes, JoinedOnly, RS!Settled
<1> QED
  BY <1>1, <1>2 DEF Served, RS!Wanted

-----------------------------------------------------------------------------
(* Neither an address nor a connection. *)
AbsentAssumed == Absent \notin Addresses /\ Absent \notin Task

LEMMA LoopBegins == loop = RC!Awake => LoopTypes /\ loop.new = {} /\ DOMAIN loop.cleaning = {}
BY DEF RC!Awake, LoopTypes

LEMMA LoopGoes ==
    ASSUME LoopTypes, NEW h \in DOMAIN loop.cleaning, NEW position, RC!Goto(h, position)
    PROVE  /\ LoopTypes' /\ loop'.new = loop.new /\ DOMAIN loop'.cleaning = DOMAIN loop.cleaning
           /\ \A g \in DOMAIN loop.cleaning : loop'.cleaning[g] = IF g = h THEN position ELSE loop.cleaning[g]
<1>1. loop' = [loop EXCEPT !.cleaning = [loop.cleaning EXCEPT ![h] = position]]
  BY DEF RC!Goto
<1>2. /\ DOMAIN loop' = DOMAIN loop /\ loop'.new = loop.new
      /\ loop'.cleaning = [loop.cleaning EXCEPT ![h] = position]
  BY <1>1 DEF LoopTypes
<1> QED
  BY <1>2 DEF LoopTypes

LEMMA RelayInit == RC!Init => RelayInv
<1> SUFFICES ASSUME RC!Init PROVE RelayInv
  OBVIOUS
<1>1. /\ web = [h \in Hosts |-> Absent] /\ notes = <<>>
      /\ known_hosts = [h \in Hosts |-> Absent] /\ relay_connections = [h \in Hosts |-> Absent]
      /\ listener = RC!NoCleanup /\ loop = RC!Awake
      /\ crash = [reasons |-> {}, moved |-> FALSE, home |-> web]
  BY DEF RC!Init, RC!NoConnections
<1>2. LoopTypes /\ loop.new = {} /\ DOMAIN loop.cleaning = {}
  BY <1>1, LoopBegins
<1>3. RelayTypes
  <2>1. web \in [Hosts -> RC!AddressOrAbsent] /\ known_hosts \in [Hosts -> RC!AddressOrAbsent]
    BY <1>1 DEF RC!AddressOrAbsent
  <2>2. crash \in CrashTypes
    BY <1>1, <2>1 DEF CrashTypes
  <2>3. notes \in Seq(Note)
    BY <1>1
  <2>4. relay_connections \in [Hosts -> {Absent} \union Task]
    BY <1>1
  <2> QED
    BY <1>1, <1>2, <2>1, <2>2, <2>3, <2>4 DEF RelayTypes
<1>4. AtHome
  BY <1>1, <1>2 DEF AtHome, RC!Connection, RC!At
<1> QED
  BY <1>3, <1>4 DEF RelayInv

(* What an exception of the main loop leaves.                                *)
LEMMA CrashFacts ==
    ASSUME RelayTypes, NEW reason \in Reasons, RC!Crash(reason), web' = web,
           ~crash.moved => AtHome /\ reason = "listener"
    PROVE  RelayInv'
<1>1. /\ crash' = [crash EXCEPT !.reasons = @ \union {reason}] /\ notes' = <<>>
      /\ known_hosts' = [h \in Hosts |-> Absent] /\ relay_connections' = [h \in Hosts |-> Absent]
      /\ listener' = RC!NoCleanup /\ loop' = RC!Awake
  BY DEF RC!Crash, RC!NoConnections
<1>2. LoopTypes' /\ loop'.new = {} /\ DOMAIN loop'.cleaning = {}
  <2>1. RC!Awake' = RC!Awake
    BY DEF RC!Awake
  <2> QED
    BY <1>1, <2>1 DEF RC!Awake, LoopTypes
<1>3. crash' \in CrashTypes /\ crash'.moved = crash.moved /\ crash'.home = crash.home
      /\ crash'.reasons = crash.reasons \union {reason}
  <2>1. crash \in CrashTypes
    BY DEF RelayTypes
  <2> QED
    BY <1>1, <2>1 DEF CrashTypes
<1>4. RelayTypes'
  <2>1. known_hosts' \in [Hosts -> RC!AddressOrAbsent]
    BY <1>1 DEF RC!AddressOrAbsent
  <2> QED
    BY <1>1, <1>2, <1>3, <2>1 DEF RelayTypes
<1>5. ~crash'.moved => AtHome'
  BY <1>1, <1>2, <1>3 DEF AtHome, RC!Connection, RC!At
<1> QED
  BY <1>4, <1>5 DEF RelayInv

(* The web hosts. *)
LEMMA HostStep ==
    ASSUME AbsentAssumed, RelayInv, NEW h \in Hosts,
           (\E a \in Addresses : RC!Move(h, a)) \/ RC!Stop(h) \/ RC!Heartbeat(h)
    PROVE  RelayInv'
<1>1. /\ RelayTypes
      /\ UNCHANGED <<known_hosts, relay_connections, listener, loop>>
  BY DEF RelayInv, RC!Move, RC!Stop, RC!Heartbeat
<1>2. /\ web \in [Hosts -> RC!AddressOrAbsent] /\ notes \in Seq(Note) /\ crash \in CrashTypes
      /\ known_hosts \in [Hosts -> RC!AddressOrAbsent] /\ relay_connections \in [Hosts -> {Absent} \union Task]
  BY <1>1 DEF RelayTypes
<1>3. LoopTypes'
  BY <1>1 DEF RelayTypes, LoopTypes
<1>4. ASSUME NEW a \in Addresses, RC!Move(h, a) PROVE RelayInv'
  <2>1. /\ web' = [web EXCEPT ![h] = a] /\ notes' = notes
        /\ crash' = [crash EXCEPT !.moved = @ \/ crash.home[h] \notin {Absent, a}, !.home[h] = a]
    BY <1>4 DEF RC!Move
  <2>2. web' \in [Hosts -> RC!AddressOrAbsent] /\ a \in RC!AddressOrAbsent
    BY <1>2, <2>1 DEF RC!AddressOrAbsent
  <2>3. /\ crash' \in CrashTypes /\ crash'.reasons = crash.reasons
        /\ crash'.home = [crash.home EXCEPT ![h] = a]
        /\ crash'.moved <=> (crash.moved \/ crash.home[h] \notin {Absent, a})
    BY <1>2, <2>1, <2>2 DEF CrashTypes
  <2>4. RelayTypes'
    BY <1>1, <1>2, <1>3, <2>1, <2>2, <2>3 DEF RelayTypes
  <2>5. ASSUME ~crash'.moved PROVE AtHome'
    <3>1. AtHome /\ crash.home[h] \in {Absent, a}
      BY <2>3, <2>5 DEF RelayInv
    <3>2. crash'.home[h] = a /\ \A g \in Hosts : g # h => crash'.home[g] = crash.home[g]
      BY <1>2, <2>3 DEF CrashTypes
    <3>3. \A g \in Hosts : crash.home[g] # Absent => crash'.home[g] = crash.home[g]
      BY <3>1, <3>2
    <3>4. \A g \in Hosts : RC!Connection(g) => relay_connections[g].remote_host # Absent
      BY <1>2 DEF RC!Connection, Task, AbsentAssumed
    <3>5. \A i \in DOMAIN notes : notes[i].host \in Hosts
      <4>1. \A i \in DOMAIN notes : notes[i] \in Note
        BY <1>2
      <4> QED
        BY <4>1 DEF Note
    <3>6. \A g \in Hosts : web'[g] \in {Absent, crash'.home[g]}
      BY <1>2, <2>1, <3>1, <3>2 DEF AtHome
    <3>7. \A g \in Hosts : known_hosts[g] \in {Absent, crash'.home[g]}
      BY <3>1, <3>3 DEF AtHome
    <3>8. \A g \in Hosts : RC!Connection(g) => relay_connections[g].remote_host = crash'.home[g]
      BY <3>1, <3>3, <3>4 DEF AtHome
    <3>9. \A i \in DOMAIN notes :
             notes[i].action = "online" /\ notes[i].ip = crash'.home[notes[i].host] /\ notes[i].ip # Absent
      BY <3>1, <3>3, <3>5 DEF AtHome
    <3> QED
      BY <1>1, <2>1, <2>3, <3>1, <3>6, <3>7, <3>8, <3>9 DEF AtHome, RC!Connection, RC!At, RC!Known
  <2> QED
    BY <2>4, <2>5 DEF RelayInv
<1>5. ASSUME NEW action \in {"online", "offline"}, RC!Notify(h, action)
      PROVE  /\ notes' \in Seq(Note)
             /\ \A i \in DOMAIN notes' : (i \in DOMAIN notes /\ notes'[i] = notes[i])
                                         \/ notes'[i] = [host |-> h, action |-> action, ip |-> web[h]]
  <2> DEFINE n == [host |-> h, action |-> action, ip |-> web[h]]
  <2>1. n \in Note
    BY <1>2 DEF Note
  <2>2. notes' = Append(notes, n) \/ notes' = notes
    BY <1>5 DEF RC!Notify
  <2> HIDE DEF n
  <2>3. CASE notes' = Append(notes, n)
    BY <1>2, <2>1, <2>3, AppendFacts DEF n
  <2>4. CASE notes' = notes
    BY <1>2, <2>4
  <2> QED
    BY <2>2, <2>3, <2>4 DEF n
<1>6. CASE RC!Stop(h)
  <2>1. /\ web' = [web EXCEPT ![h] = Absent]
        /\ (RC!Notify(h, "offline") /\ crash' = [crash EXCEPT !.moved = TRUE]) \/ (notes' = notes /\ crash' = crash)
    BY <1>6 DEF RC!Stop
  <2>2. web' \in [Hosts -> RC!AddressOrAbsent]
    BY <1>2, <2>1 DEF RC!AddressOrAbsent
  <2>3. CASE RC!Notify(h, "offline") /\ crash' = [crash EXCEPT !.moved = TRUE]
    <3>1. crash' \in CrashTypes /\ crash'.moved
      BY <1>2, <2>3 DEF CrashTypes
    <3>2. notes' \in Seq(Note)
      BY <1>5, <2>3
    <3> QED
      BY <1>1, <1>2, <1>3, <2>2, <3>1, <3>2 DEF RelayInv, RelayTypes
  <2>4. CASE notes' = notes /\ crash' = crash
    <3>1. RelayTypes'
      BY <1>1, <1>2, <1>3, <2>2, <2>4 DEF RelayTypes
    <3>2. \A g \in Hosts : web'[g] \in {web[g], Absent}
      BY <1>2, <2>1
    <3>3. ASSUME ~crash.moved PROVE AtHome'
      BY <1>1, <2>4, <3>2, <3>3 DEF RelayInv, AtHome, RC!Connection, RC!At, RC!Known
    <3> QED
      BY <2>4, <3>1, <3>3 DEF RelayInv
  <2> QED
    BY <2>1, <2>3, <2>4
<1>7. CASE RC!Heartbeat(h)
  <2>1. web' = web /\ crash' = crash /\ web[h] # Absent /\ RC!Notify(h, "online")
    BY <1>7 DEF RC!Heartbeat
  <2>2. /\ notes' \in Seq(Note)
        /\ \A i \in DOMAIN notes' : (i \in DOMAIN notes /\ notes'[i] = notes[i])
                                    \/ notes'[i] = [host |-> h, action |-> "online", ip |-> web[h]]
    BY <1>5, <2>1
  <2>3. RelayTypes'
    BY <1>1, <1>2, <1>3, <2>1, <2>2 DEF RelayTypes
  <2>4. ASSUME ~crash.moved PROVE AtHome'
    <3>1. AtHome /\ web[h] = crash.home[h]
      BY <2>1, <2>4 DEF RelayInv, AtHome
    <3>2. \A i \in DOMAIN notes' :
             notes'[i].action = "online" /\ notes'[i].ip = crash.home[notes'[i].host] /\ notes'[i].ip # Absent
      BY <2>1, <2>2, <3>1 DEF AtHome
    <3> QED
      BY <1>1, <2>1, <3>1, <3>2 DEF AtHome, RC!Connection, RC!At, RC!Known
  <2> QED
    BY <2>1, <2>3, <2>4 DEF RelayInv
<1> QED
  BY <1>4, <1>6, <1>7

(* The state of a connection's task. *)
LEMMA TaskStep ==
    ASSUME AbsentAssumed, RelayInv, NEW h \in Hosts, RC!Connect(h) \/ RC!TaskEnds(h) \/ RC!Break(h)
    PROVE  RelayInv'
<1>1. /\ RelayTypes
      /\ UNCHANGED <<web, notes, known_hosts, listener, loop, crash>>
      /\ RC!Connection(h) /\ (RC!State(h, "connected") \/ RC!State(h, "ended"))
  BY DEF RelayInv, RC!Connect, RC!TaskEnds, RC!Break
<1>2. relay_connections \in [Hosts -> {Absent} \union Task] /\ relay_connections[h] \in Task
  BY <1>1 DEF RelayTypes, RC!Connection
<1>3. PICK s \in {"connected", "ended"} : relay_connections' = [relay_connections EXCEPT ![h] = [@ EXCEPT !.state = s]]
  BY <1>1 DEF RC!State
<1>4. /\ [relay_connections[h] EXCEPT !.state = s] \in Task
      /\ [relay_connections[h] EXCEPT !.state = s].remote_host = relay_connections[h].remote_host
  BY <1>2 DEF Task
<1>5. /\ relay_connections' \in [Hosts -> {Absent} \union Task]
      /\ \A g \in Hosts : /\ RC!Connection(g)' <=> RC!Connection(g)
                          /\ RC!Connection(g) => relay_connections'[g].remote_host = relay_connections[g].remote_host
  BY <1>2, <1>3, <1>4 DEF RC!Connection, AbsentAssumed
<1>6. RelayTypes'
  BY <1>1, <1>5 DEF RelayTypes, LoopTypes
<1>7. ASSUME ~crash.moved PROVE AtHome'
  BY <1>1, <1>5, <1>7 DEF RelayInv, AtHome, RC!At, RC!Known
<1> QED
  BY <1>1, <1>6, <1>7 DEF RelayInv

(* A task that is canceled is still there.                                   *)
LEMMA CancelFacts ==
    ASSUME relay_connections \in [Hosts -> {Absent} \union Task], NEW H, RC!Cancel(H), AbsentAssumed
    PROVE  /\ relay_connections' \in [Hosts -> {Absent} \union Task]
           /\ \A g \in Hosts : /\ RC!Connection(g)' <=> RC!Connection(g)
                               /\ RC!Connection(g) => relay_connections'[g].remote_host = relay_connections[g].remote_host
<1>1. \A p \in Task : [p EXCEPT !.state = "canceled"] \in Task /\ [p EXCEPT !.state = "canceled"].remote_host = p.remote_host
  BY DEF Task
<1>2. \A g \in Hosts : RC!Connection(g) => relay_connections[g] \in Task
  BY DEF RC!Connection
<1>3. \A g \in Hosts : relay_connections'[g] = relay_connections[g]
                       \/ (RC!Connection(g) /\ relay_connections'[g] = [relay_connections[g] EXCEPT !.state = "canceled"])
  BY DEF RC!Cancel
<1>4. \A g \in Hosts : relay_connections'[g] \in {Absent} \union Task
  BY <1>1, <1>2, <1>3
<1> QED
  <2>1. relay_connections' \in [Hosts -> {Absent} \union Task]
    BY <1>4 DEF RC!Cancel
  <2>2. ASSUME NEW g \in Hosts
        PROVE  /\ RC!Connection(g)' <=> RC!Connection(g)
               /\ RC!Connection(g) => relay_connections'[g].remote_host = relay_connections[g].remote_host
    <3>1. CASE relay_connections'[g] = relay_connections[g]
      BY <3>1 DEF RC!Connection
    <3>2. CASE RC!Connection(g) /\ relay_connections'[g] = [relay_connections[g] EXCEPT !.state = "canceled"]
      <4>1. relay_connections[g] \in Task
        BY <1>2, <3>2
      <4>2. relay_connections'[g] \in Task /\ relay_connections'[g].remote_host = relay_connections[g].remote_host
        BY <1>1, <3>2, <4>1
      <4>3. relay_connections'[g] # Absent
        BY <4>2 DEF AbsentAssumed
      <4> QED
        BY <3>2, <4>2, <4>3 DEF RC!Connection
    <3> QED
      BY <1>3, <3>1, <3>2
  <2> QED
    BY <2>1, <2>2

(* The listener.  Without a goodbye it only learns where the hosts are.      *)
LEMMA ListenStep ==
    ASSUME AbsentAssumed, RelayInv, RC!Listen \/ RC!ListenerCleans \/ RC!ListenerEnds
    PROVE  RelayInv'
<1>1. /\ RelayTypes /\ UNCHANGED <<web, loop, crash>>
  BY DEF RelayInv, RC!Listen, RC!ListenerCleans, RC!ListenerEnds
<1>2. /\ notes \in Seq(Note) /\ known_hosts \in [Hosts -> RC!AddressOrAbsent]
      /\ relay_connections \in [Hosts -> {Absent} \union Task]
  BY <1>1 DEF RelayTypes
<1>3. LoopTypes' /\ Absent \in RC!AddressOrAbsent
  BY <1>1 DEF RelayTypes, LoopTypes, RC!AddressOrAbsent
<1>4. CASE RC!Listen
  <2>1. PICK note : note = Head(notes)
    OBVIOUS
  <2>2. notes # <<>> /\ notes' = Tail(notes) /\ note = notes[1] /\ note \in Note /\ 1 \in DOMAIN notes
        /\ notes' \in Seq(Note)
        /\ \A i \in DOMAIN notes' : i + 1 \in DOMAIN notes /\ notes'[i] = notes[i + 1]
    BY <1>2, <1>4, <2>1, TailFacts DEF RC!Listen
  <2>3. note.host \in Hosts /\ note.ip \in RC!AddressOrAbsent
    BY <2>2 DEF Note
  <2>4. CASE note.action = "online"
    <3>1. /\ known_hosts' = [known_hosts EXCEPT ![note.host] = note.ip]
          /\ relay_connections' = relay_connections /\ listener' = listener
      BY <1>4, <2>1, <2>4 DEF RC!Listen
    <3>2. RelayTypes'
      BY <1>1, <1>2, <1>3, <2>2, <2>3, <3>1 DEF RelayTypes
    <3>3. ASSUME ~crash.moved PROVE AtHome'
      <4>1. AtHome /\ note.ip = crash.home[note.host] /\ note.ip # Absent
        BY <2>2, <3>3 DEF RelayInv, AtHome
      <4>2. \A g \in Hosts : known_hosts'[g] \in {known_hosts[g], crash.home[g]}
                             /\ (RC!Known(g) => known_hosts'[g] # Absent)
        BY <1>2, <3>1, <4>1 DEF RC!Known
      <4>3. \A g \in Hosts : known_hosts'[g] \in {Absent, crash.home[g]}
        BY <4>1, <4>2 DEF AtHome
      <4>4. \A g \in loop.new : known_hosts'[g] # Absent
        BY <1>1, <4>1, <4>2 DEF AtHome, RelayTypes, LoopTypes
      <4>5. \A i \in DOMAIN notes' :
              notes'[i].action = "online" /\ notes'[i].ip = crash.home[notes'[i].host] /\ notes'[i].ip # Absent
        BY <2>2, <4>1 DEF AtHome
      <4> QED
        BY <1>1, <3>1, <4>1, <4>3, <4>4, <4>5 DEF AtHome, RC!Connection, RC!At, RC!Known
    <3> QED
      BY <1>1, <3>2, <3>3 DEF RelayInv
  <2>5. CASE note.action # "online"
    <3>1. crash.moved
      BY <2>2, <2>5 DEF RelayInv, AtHome
    <3>2. (RC!Cancel({note.host}) /\ known_hosts' = known_hosts)
          \/ (RC!Forget({note.host}) /\ relay_connections' = relay_connections)
      BY <1>4, <2>1, <2>5 DEF RC!Listen
    <3>3. known_hosts' \in [Hosts -> RC!AddressOrAbsent] /\ relay_connections' \in [Hosts -> {Absent} \union Task]
      BY <1>2, <1>3, <3>2, CancelFacts DEF RC!Forget
    <3> QED
      BY <1>1, <1>3, <2>2, <3>1, <3>3 DEF RelayInv, RelayTypes
  <2> QED
    BY <2>4, <2>5
<1>5. CASE RC!ListenerCleans
  <2>1. listener # RC!NoCleanup /\ notes' = notes
    BY <1>5 DEF RC!ListenerCleans
  <2>2. crash.moved
    BY <2>1 DEF RelayInv, AtHome
  <2>3. known_hosts' \in [Hosts -> RC!AddressOrAbsent] /\ relay_connections' \in [Hosts -> {Absent} \union Task]
    BY <1>2, <1>3, <1>5 DEF RC!ListenerCleans, RC!Remove, RC!Forget
  <2> QED
    BY <1>1, <1>3, <2>1, <2>2, <2>3 DEF RelayInv, RelayTypes
<1>6. CASE RC!ListenerEnds
  <2>1. notes' = <<>> /\ listener' = RC!NoCleanup /\ UNCHANGED <<known_hosts, relay_connections>>
    BY <1>6 DEF RC!ListenerEnds
  <2>2. RelayTypes'
    BY <1>1, <1>3, <2>1 DEF RelayTypes
  <2>3. ASSUME ~crash.moved PROVE AtHome'
    BY <1>1, <2>1, <2>3 DEF RelayInv, AtHome, RC!Connection, RC!At, RC!Known
  <2> QED
    BY <1>1, <2>2, <2>3 DEF RelayInv
<1> QED
  BY <1>4, <1>5, <1>6

(* The main loop.  What it cleans up is not what it adds.                    *)
LEMMA LoopCleanStep ==
    ASSUME AbsentAssumed, RelayInv, NEW h \in Hosts, RC!LoopCancels(h) \/ RC!LoopCleans(h)
    PROVE  RelayInv'
<1>1. /\ RelayTypes /\ web' = web /\ h \in DOMAIN loop.cleaning /\ LoopTypes
  BY DEF RelayInv, RelayTypes, RC!LoopCancels, RC!LoopCleans, RC!At
<1>2. /\ notes \in Seq(Note) /\ known_hosts \in [Hosts -> RC!AddressOrAbsent]
      /\ relay_connections \in [Hosts -> {Absent} \union Task]
  BY <1>1 DEF RelayTypes
<1>3. Absent \in RC!AddressOrAbsent
  BY DEF RC!AddressOrAbsent
<1>4. ASSUME NEW position \in {"await", "done"}, RC!Goto(h, position),
             UNCHANGED <<notes, listener, crash>>,
             \/ RC!Cancel({h}) /\ RC!Connection(h) /\ known_hosts' = known_hosts
             \/ RC!Forget({h}) /\ relay_connections' = relay_connections /\ position = "done"
             \/ RC!Remove(h) /\ position = "done"
      PROVE  RelayInv'
  <2>1. /\ LoopTypes' /\ loop'.new = loop.new /\ DOMAIN loop'.cleaning = DOMAIN loop.cleaning
        /\ \A g \in DOMAIN loop.cleaning : loop'.cleaning[g] = IF g = h THEN position ELSE loop.cleaning[g]
    BY <1>1, <1>4, LoopGoes
  <2>2. /\ known_hosts' \in [Hosts -> RC!AddressOrAbsent] /\ relay_connections' \in [Hosts -> {Absent} \union Task]
        /\ \A g \in Hosts : known_hosts'[g] \in {Absent, known_hosts[g]} /\ (g # h => known_hosts'[g] = known_hosts[g])
        /\ \A g \in Hosts : RC!Connection(g)' => RC!Connection(g)
                                                 /\ relay_connections'[g].remote_host = relay_connections[g].remote_host
        /\ \A g \in Hosts : RC!Connection(g) => RC!Connection(g)' \/ (g = h /\ position = "done")
    <3>1. CASE RC!Cancel({h}) /\ RC!Connection(h) /\ known_hosts' = known_hosts
      BY <1>2, <3>1, CancelFacts
    <3>2. CASE RC!Forget({h}) /\ relay_connections' = relay_connections /\ position = "done"
      BY <1>2, <1>3, <3>2 DEF RC!Forget, RC!Connection
    <3>3. CASE RC!Remove(h) /\ position = "done"
      BY <1>2, <1>3, <3>3 DEF RC!Remove, RC!Forget, RC!Connection
    <3> QED
      BY <1>4, <3>1, <3>2, <3>3
  <2>3. RelayTypes'
    BY <1>1, <1>2, <1>4, <2>1, <2>2 DEF RelayTypes
  <2>4. ASSUME ~crash.moved PROVE AtHome'
    <3>1. AtHome
      BY <2>4 DEF RelayInv
    <3>2. \A g \in Hosts : RC!At(g, "await")' => RC!Connection(g)'
      <4> SUFFICES ASSUME NEW g \in Hosts, g \in DOMAIN loop'.cleaning, loop'.cleaning[g] = "await"
                   PROVE  RC!Connection(g)'
        BY DEF RC!At
      <4>1. CASE g # h
        BY <2>1, <2>2, <3>1, <4>1 DEF AtHome, RC!At
      <4>2. CASE g = h
        <5>1. position = "await"
          BY <2>1, <4>2
        <5>2. RC!Connection(h)
          BY <1>4, <5>1
        <5> QED
          BY <2>2, <4>2, <5>1, <5>2
      <4> QED
        BY <4>1, <4>2
    <3>3. \A g \in loop'.new : known_hosts'[g] # Absent /\ g \notin DOMAIN loop'.cleaning
      BY <1>1, <2>1, <2>2, <3>1 DEF AtHome, RC!Known, LoopTypes
    <3>4. \A g \in Hosts : known_hosts'[g] \in {Absent, crash.home[g]}
      BY <2>2, <3>1 DEF AtHome
    <3>5. \A g \in Hosts : RC!Connection(g)' => relay_connections'[g].remote_host = crash.home[g]
      BY <2>2, <3>1 DEF AtHome
    <3> QED
      BY <1>1, <1>4, <3>1, <3>2, <3>3, <3>4, <3>5 DEF AtHome, RC!Known
  <2> QED
    BY <1>4, <2>3, <2>4 DEF RelayInv
<1>5. CASE RC!LoopCancels(h)
  <2>1. CASE RC!Connection(h)
    <3>1. RC!Cancel({h}) /\ RC!Goto(h, "await") /\ UNCHANGED <<notes, listener, crash, known_hosts>>
      BY <1>5, <2>1 DEF RC!LoopCancels
    <3> QED
      BY <1>4, <2>1, <3>1
  <2>2. CASE ~RC!Connection(h)
    <3>1. RC!Forget({h}) /\ RC!Goto(h, "done") /\ UNCHANGED <<notes, listener, crash, relay_connections>>
      BY <1>5, <2>2 DEF RC!LoopCancels
    <3> QED
      BY <1>4, <3>1
  <2> QED
    BY <2>1, <2>2
<1>6. CASE RC!LoopCleans(h)
  <2>1. CASE RC!Connection(h)
    <3>1. RC!Remove(h) /\ RC!Goto(h, "done") /\ UNCHANGED <<notes, listener, crash>>
      BY <1>6, <2>1 DEF RC!LoopCleans
    <3> QED
      BY <1>4, <3>1
  <2>2. CASE ~RC!Connection(h)
    <3>1. RC!Crash("cleaned twice") /\ RC!At(h, "await")
      BY <1>6, <2>2 DEF RC!LoopCleans
    <3>2. crash.moved
      BY <2>2, <3>1 DEF RelayInv, AtHome
    <3> QED
      BY <1>1, <3>1, <3>2, CrashFacts DEF Reasons
  <2> QED
    BY <2>1, <2>2
<1> QED
  BY <1>5, <1>6

LEMMA LoopStep ==
    ASSUME AbsentAssumed, RelayInv, RC!Wake \/ RC!WakeDeaf \/ RC!Add \/ RC!Restart
    PROVE  RelayInv'
<1>1. /\ RelayTypes /\ LoopTypes
      /\ notes \in Seq(Note) /\ known_hosts \in [Hosts -> RC!AddressOrAbsent]
      /\ relay_connections \in [Hosts -> {Absent} \union Task]
  BY DEF RelayInv, RelayTypes
<1>2. CASE RC!Wake
  <2>1. /\ UNCHANGED <<web, notes, known_hosts, relay_connections, listener, crash>>
        /\ loop' = [at |-> "cleaning", new |-> RC!New, cleaning |-> [h \in RC!Deleted |-> "begin"]]
    BY <1>2 DEF RC!Wake
  <2>2. LoopTypes' /\ loop'.new = RC!New /\ loop'.cleaning = [h \in RC!Deleted |-> "begin"]
    BY <2>1 DEF LoopTypes, RC!New, RC!Deleted
  <2>3. RelayTypes'
    BY <1>1, <2>1, <2>2 DEF RelayTypes
  <2>4. ASSUME ~crash.moved PROVE AtHome'
    <3>1. AtHome
      BY <2>4 DEF RelayInv
    <3>2. \A h \in Hosts : ~RC!Moved(h)
      BY <3>1 DEF AtHome, RC!Moved, RC!Known
    <3>3. \A h \in RC!New : RC!Known(h) /\ h \notin RC!Deleted
      BY <3>2 DEF RC!New, RC!Deleted
    <3>4. \A h \in Hosts : ~(h \in DOMAIN loop'.cleaning /\ loop'.cleaning[h] = "await")
      BY <2>2
    <3> QED
      BY <2>1, <2>2, <3>1, <3>3, <3>4 DEF AtHome, RC!Connection, RC!At, RC!Known
  <2> QED
    BY <2>1, <2>3, <2>4 DEF RelayInv
<1>3. CASE RC!WakeDeaf
  <2>1. RC!Crash("listener") /\ web' = web
    BY <1>3 DEF RC!WakeDeaf
  <2> QED
    BY <1>1, <2>1, CrashFacts DEF RelayInv, Reasons
<1>4. CASE RC!Add /\ \A h \in loop.new : RC!Known(h)
  <2>1. /\ UNCHANGED <<web, notes, known_hosts, listener, crash>>
        /\ relay_connections' = [h \in Hosts |->
              IF h \in loop.new THEN [remote_host |-> known_hosts[h], state |-> "connecting"] ELSE relay_connections[h]]
        /\ loop' = RC!Awake
    BY <1>4 DEF RC!Add
  <2>2. \A h \in loop.new : h \in Hosts /\ known_hosts[h] \in Addresses
    BY <1>1, <1>4 DEF LoopTypes, RC!Known, RC!AddressOrAbsent
  <2>3. \A h \in loop.new : [remote_host |-> known_hosts[h], state |-> "connecting"] \in Task
    BY <2>2 DEF Task
  <2>4. relay_connections' \in [Hosts -> {Absent} \union Task]
    BY <1>1, <2>1, <2>3
  <2>5. LoopTypes' /\ loop'.new = {} /\ DOMAIN loop'.cleaning = {}
    <3>1. RC!Awake' = RC!Awake
      BY DEF RC!Awake
    <3> QED
      BY <2>1, <3>1 DEF RC!Awake, LoopTypes
  <2>6. RelayTypes'
    BY <1>1, <2>1, <2>4, <2>5 DEF RelayTypes
  <2>7. ASSUME ~crash.moved PROVE AtHome'
    <3>1. AtHome
      BY <2>7 DEF RelayInv
    <3>2. ASSUME NEW h \in Hosts, relay_connections'[h] # Absent
          PROVE  relay_connections'[h].remote_host = crash.home[h]
      <4>1. CASE h \in loop.new
        BY <1>4, <2>1, <3>1, <4>1 DEF AtHome, RC!Known
      <4>2. CASE h \notin loop.new
        BY <2>1, <3>1, <3>2, <4>2 DEF AtHome, RC!Connection
      <4> QED
        BY <4>1, <4>2
    <3> QED
      BY <2>1, <2>5, <3>1, <3>2 DEF AtHome, RC!Connection, RC!At, RC!Known
  <2> QED
    BY <2>1, <2>6, <2>7 DEF RelayInv
<1>5. CASE RC!Add /\ ~\A h \in loop.new : RC!Known(h)
  <2>1. RC!Crash("forgotten") /\ web' = web
    BY <1>5 DEF RC!Add
  <2>2. crash.moved
    BY <1>5 DEF RelayInv, AtHome
  <2> QED
    BY <1>1, <2>1, <2>2, CrashFacts DEF Reasons
<1>6. CASE RC!Restart
  <2>1. UNCHANGED <<web, notes, known_hosts, relay_connections, listener, loop, crash>>
    BY <1>6 DEF RC!Restart
  <2> QED
    BY <2>1 DEF RelayInv, RelayTypes, LoopTypes, AtHome, RC!Connection, RC!At, RC!Known
<1> QED
  BY <1>2, <1>3, <1>4, <1>5, <1>6

LEMMA RelayStep == ASSUME AbsentAssumed, RelayInv, [RC!Next]_relayVars PROVE RelayInv'
<1>1. CASE UNCHANGED relayVars
  BY <1>1 DEF relayVars, RelayInv, RelayTypes, LoopTypes, AtHome, RC!Connection, RC!At, RC!Known
<1>2. CASE RC!Next
  BY <1>2, HostStep, TaskStep, ListenStep, LoopStep, LoopCleanStep DEF RC!Next, RC!MainLoop
<1> QED
  BY <1>1, <1>2

-----------------------------------------------------------------------------
(* run_receptor_job with its two threads and the reaper of work units,       *)
(* WebSocketRelayManager, and run_connection with its producers: a run that  *)
(* ends leaves no unit behind that it knows and does not pass over a signal; *)
(* whatever connections are lost, the relay raises no exception of its own   *)
(* unless a host moved or said goodbye; and it forwards what the browsers    *)
(* have subscribed to, for any number of them, but for what was lost.        *)
THEOREM ConnectionsAreKept ==
    ASSUME AbsentAssumed
    PROVE  ServicesSpec => []ConnectionsHold
<1>1. ServicesInit => ConnectionsInv
  BY WorkInit, RelayInit, SubInit DEF ServicesInit, ConnectionsInv
<1>2. ConnectionsInv /\ [ServicesNext]_allvars => ConnectionsInv'
  <2>1. ASSUME part = "work", [ServicesNext]_allvars PROVE [RW!Next]_workVars
    BY <2>1 DEF ServicesNext, allvars, clusterVars
  <2>2. ASSUME part = "relay", [ServicesNext]_allvars PROVE [RC!Next]_relayVars
    BY <2>2 DEF ServicesNext, allvars, clusterVars
  <2>3. ASSUME part = "subscription", [ServicesNext]_allvars PROVE [RS!Next]_subVars
    BY <2>3 DEF ServicesNext, allvars, clusterVars
  <2>4. [ServicesNext]_allvars => part' = part
    BY DEF ServicesNext, allvars
  <2> QED
    BY <2>1, <2>2, <2>3, <2>4, WorkStep, RelayStep, SubStep DEF ConnectionsInv
<1>3. ConnectionsInv => ConnectionsHold
  <2>1. RelayInv => RC!RelayStaysUp
    BY DEF RelayInv, AtHome, RC!RelayStaysUp
  <2> QED
    BY <2>1, WorkHolds, SubHolds DEF ConnectionsInv, ConnectionsHold
<1> QED
  BY <1>1, <1>2, <1>3, PTL DEF ServicesSpec

-----------------------------------------------------------------------------
(* A setting. *)

(* What is going to fill the cache was read since the last commit, unless    *)
(* the history says that it overlapped one.                                  *)
SettingInv ==
    /\ clearing \in Nat
    /\ reading \in [Processes -> [at : {"none", "fill"}, value : Int]]
    /\ setting \in Int /\ change \in [at : {"none", "saved", "deleted", "recached"}, value : Int]
    /\ ~unclean => \A p \in Processes : reading[p].at = "fill" => reading[p].value = setting
    /\ SC!ClearedIsFresh

LEMMA SettingInit == SC!Init => SettingInv
BY DEF SC!Init, SettingInv, SC!ClearedIsFresh, SC!NotReading, SC!NotCached, SC!NoEdit

LEMMA SettingStep == SettingInv /\ [SC!Next]_settingVars => SettingInv'
<1> SUFFICES ASSUME SettingInv, [SC!Next]_settingVars PROVE SettingInv'
  OBVIOUS
<1> USE DEF SettingInv, SC!ClearedIsFresh, SC!NoEdit
<1>1. CASE UNCHANGED settingVars
  BY <1>1 DEF settingVars
<1>2. ASSUME NEW v \in 1 .. MaxEdits, SC!SaveSetting(v) PROVE SettingInv'
  BY <1>2 DEF SC!SaveSetting
<1>3. CASE SC!DeleteCached \/ SC!Recache
  <2>1. change' # SC!NoEdit
    BY <1>3 DEF SC!DeleteCached, SC!Recache
  <2> QED
    BY <1>3, <2>1 DEF SC!DeleteCached, SC!Recache
<1>4. CASE SC!Commit
  <2>1. ~unclean' => \A p \in Processes : reading[p].at # "fill"
    BY <1>4, Zenon DEF SC!Commit
  <2>2. clearing' \in Nat /\ clearing' # 0 /\ setting' \in Int /\ change' = SC!NoEdit /\ reading' = reading
    BY <1>4 DEF SC!Commit
  <2> QED
    BY <2>1, <2>2 DEF SC!NotCached
<1>9. CASE SC!Rollback
  BY <1>9 DEF SC!Rollback, SC!NotCached
<1>5. CASE SC!clear_setting_cache \/ SC!LoseTask
  BY <1>5 DEF SC!clear_setting_cache, SC!LoseTask
<1>6. ASSUME NEW p \in Processes, SC!Hit(p) \/ SC!Forget(p) PROVE SettingInv'
  BY <1>6 DEF SC!Hit, SC!Forget
<1>7. ASSUME NEW p \in Processes, SC!ReadTable(p) \/ SC!Fill(p) PROVE SettingInv'
  BY <1>7 DEF SC!ReadTable, SC!Fill, SC!NotReading, SC!NotCached
<1>8. CASE SC!Expire
  BY <1>8 DEF SC!Expire
<1> QED
  BY <1>1, <1>2, <1>3, <1>4, <1>5, <1>6, <1>7, <1>8, <1>9 DEF SC!Next

-----------------------------------------------------------------------------
(* The facts of a host. *)

FileWords == Values \union {"never", "empty", "no file"}
File == [value : FileWords, by : Nat]

(* Only a playbook that is over has written its file, under a number of its  *)
(* own; and a capture comes after the end of the job.                        *)
FactTypes ==
    /\ host \in File
    /\ run \in [Jobs -> [at : {"none", "started", "played", "done"}, file : File, written : BOOLEAN]]
    /\ capture \in [Jobs -> [at : {"none", "queued", "read", "create", "done"}, facts : File]]
    /\ gathered \in Nat /\ newest \in Nat
    /\ crossed \in [jobs : BOOLEAN, captures : BOOLEAN]
    /\ \A j \in Jobs : run[j].written => run[j].at = "played" /\ run[j].file.by > 0
    /\ \A j \in Jobs : run[j].at # "done" => capture[j].at = "none"

(* One capture at a time has read the facts; unless another is to come, it   *)
(* has the latest, or the snapshot shows them.                               *)
Capturing(j) == capture[j].at \in {"read", "create"}
Latest == snapshots # <<>> /\ snapshots[Len(snapshots)] = host.value
SnapshotInv ==
    /\ snapshots \in Seq(FileWords)
    /\ ~crossed.captures =>
          /\ \A i, j \in Jobs : Capturing(i) /\ Capturing(j) => i = j
          /\ host.by # 0 /\ (\A j \in Jobs : capture[j].at # "queued") =>
                /\ \A j \in Jobs : Capturing(j) => capture[j].facts.value = host.value
                /\ (\A j \in Jobs : ~Capturing(j)) => Latest

(* What has been compared is reported.                                       *)
Changes(compared) == {<<i - 1, i>> : i \in {i \in compared : i > 1 /\ snapshots[i] # snapshots[i - 1]}}
DriftInv ==
    /\ undetected \subseteq DOMAIN snapshots
    /\ drifts = Changes(DOMAIN snapshots \ undetected)

FactsInv == FactTypes /\ FC!NeverOlder /\ SnapshotInv /\ DriftInv

LEMMA FactsInit == FC!Init => FactsInv
<1> SUFFICES ASSUME FC!Init PROVE FactsInv
  OBVIOUS
<1> USE DEF FC!Init, FC!NoFacts, FC!NoFile
<1>1. FactTypes
  <2>1. FC!NoFacts \in File /\ FC!NoFile \in File
    BY DEF File, FileWords
  <2> QED
    BY <2>1 DEF FactTypes
<1>2. FC!NeverOlder
  BY DEF FC!NeverOlder
<1>5. snapshots \in Seq(FileWords) /\ DOMAIN snapshots = {}
  <2>1. snapshots = <<>>
    BY DEF FC!Init
  <2> HIDE DEF FC!Init
  <2> QED
    BY <2>1
<1>6. SnapshotInv
  <2>1. snapshots \in Seq(FileWords)
    BY <1>5
  <2>2. host.by = 0 /\ \A j \in Jobs : ~Capturing(j)
    BY DEF Capturing
  <2> QED
    BY <2>1, <2>2 DEF SnapshotInv
<1>7. DriftInv
  <2>1. undetected = {} /\ drifts = {}
    BY DEF FC!Init
  <2>2. DOMAIN snapshots = {} /\ undetected = {} /\ drifts = {}
    BY <2>1, <1>5
  <2> QED
    BY <2>2 DEF DriftInv, Changes
<1> QED
  BY <1>1, <1>2, <1>6, <1>7 DEF FactsInv

FactsStays == UNCHANGED <<host, newest, crossed, capture, snapshots, undetected, drifts>>

LEMMA RunStep ==
    ASSUME FactTypes, NEW j \in Jobs,
           FC!Start(j) \/ FC!ClearFacts(j) \/ FC!PlayOnly(j) \/ \E v \in Values : FC!Gather(j, v)
    PROVE  FactTypes' /\ FactsStays
<1>1. FactsStays
  BY DEF FactsStays, FC!Start, FC!ClearFacts, FC!PlayOnly, FC!Gather
<1>2. FC!NoFile \in File
  BY DEF FC!NoFile, File, FileWords
<1>3. \A v \in Values, n \in Nat : [value |-> v, by |-> n] \in File
  BY DEF File, FileWords
<1>4. CASE FC!Start(j)
  BY <1>1, <1>2, <1>4 DEF FC!Start, FactTypes, FactsStays
<1>5. CASE FC!ClearFacts(j) \/ FC!PlayOnly(j)
  <2>1. PICK f \in File : run' = [run EXCEPT ![j] = [at |-> "played", file |-> f, written |-> run[j].written]]
    <3>1. run[j].file \in File /\ run[j] = [at |-> run[j].at, file |-> run[j].file, written |-> run[j].written]
      BY DEF FactTypes
    <3>2. run' = [run EXCEPT ![j] = [at |-> "played", file |-> IF FC!ClearFacts(j) THEN FC!NoFile ELSE run[j].file,
                                     written |-> run[j].written]]
      BY <1>5, <3>1 DEF FC!ClearFacts, FC!PlayOnly
    <3> QED
      BY <1>2, <3>1, <3>2
  <2>2. run[j].at = "started" /\ gathered' = gathered
    BY <1>5 DEF FC!ClearFacts, FC!PlayOnly
  <2> QED
    BY <1>1, <2>1, <2>2 DEF FactTypes, FactsStays
<1>6. ASSUME NEW v \in Values, FC!Gather(j, v) PROVE FactTypes'
  <2>1. [value |-> v, by |-> gathered + 1] \in File /\ gathered + 1 \in Nat /\ gathered + 1 > 0
    BY <1>3 DEF FactTypes
  <2> QED
    BY <1>1, <1>6, <2>1 DEF FC!Gather, FactTypes, FactsStays
<1>7. CASE \E v \in Values : FC!Gather(j, v)
  BY <1>1, <1>6, <1>7
<1> QED
  BY <1>1, <1>4, <1>5, <1>7

LEMMA FactsStaysHolds == ASSUME FactsInv, FactTypes', FactsStays PROVE FactsInv'
BY DEF FactsInv, FactsStays, FC!NeverOlder, SnapshotInv, Capturing, Latest, DriftInv, Changes

LEMMA SavedFile ==
    ASSUME NEW r
    PROVE  /\ r.file = FC!NoFile /\ ~r.written => FC!Saved(r) = FC!Cleared
           /\ r.file # FC!NoFile /\ r.written => FC!Saved(r) = r.file
           /\ r.file # FC!NoFile /\ ~r.written => FC!Saved(r) = host
<1>1. ASSUME r.file = FC!NoFile, ~r.written PROVE FC!Saved(r) = FC!Cleared
  BY <1>1 DEF FC!Saved
<1>3. ASSUME r.file # FC!NoFile, r.written PROVE FC!Saved(r) = r.file
  BY <1>3 DEF FC!Saved
<1>4. ASSUME r.file # FC!NoFile, ~r.written PROVE FC!Saved(r) = host
  BY <1>4 DEF FC!Saved
<1> QED
  BY <1>1, <1>3, <1>4

(* The facts are saved, or the job has failed. *)
LEMMA SaveFactsStep == ASSUME FactsInv, NEW j \in Jobs, FC!Finish(j) \/ FC!Fail(j) PROVE FactsInv'
<1> USE DEF FactsInv
<1>1. FC!Over \in [at : {"none", "started", "played", "done"}, file : File, written : BOOLEAN]
      /\ FC!Over.at = "done" /\ ~FC!Over.written
  BY DEF FC!Over, FC!NoFile, File, FileWords
<1>2. CASE FC!Fail(j)
  <2>1. FactTypes'
    BY <1>1, <1>2 DEF FC!Fail, FactTypes
  <2>2. FactsStays
    BY <1>2 DEF FC!Fail, FactsStays
  <2> QED
    BY <2>1, <2>2, FactsStaysHolds
<1>3. CASE FC!Finish(j)
  <2> DEFINE r == run[j]
  <2>1. /\ r \in [at : {"none", "started", "played", "done"}, file : File, written : BOOLEAN]
        /\ r.at = "played" /\ capture[j].at = "none"
        /\ r.written => r.file.by > 0
    BY <1>3 DEF FC!Finish, FactTypes
  <2>2. r.written => r.file # FC!NoFile
    <3>1. FC!NoFile.by = 0
      BY DEF FC!NoFile
    <3> QED
      BY <2>1, <3>1
  <2>3. /\ r.file = FC!NoFile => host' = FC!Cleared
        /\ r.file # FC!NoFile /\ r.written => host' = r.file
        /\ r.file # FC!NoFile /\ ~r.written => host' = host
    <3>1. host' = FC!Saved(r)
      BY <1>3 DEF FC!Finish
    <3> QED
      BY <2>2, <3>1, SavedFile
  <2>4. host' \in File
    <3>1. FC!Cleared \in File
      BY DEF FC!Cleared, File, FileWords
    <3> QED
      BY <2>1, <2>3, <3>1 DEF FactTypes
  <2>5. crossed'.jobs <=> crossed.jobs \/ (r.written /\ r.file.by < newest)
    BY <1>3 DEF FC!Finish, FactTypes
  <2>6. crossed' \in [jobs : BOOLEAN, captures : BOOLEAN] /\ crossed'.captures = crossed.captures
    BY <1>3 DEF FC!Finish, FactTypes
  <2>7. newest' = IF r.file.by > newest /\ r.written THEN r.file.by ELSE newest
    BY <1>3 DEF FC!Finish
  <2>8. r.file.by \in Nat /\ newest \in Nat
    BY <2>1 DEF File, FactTypes
  <2>9. capture' = [capture EXCEPT ![j].at = "queued"] /\ run' = [run EXCEPT ![j] = FC!Over]
        /\ UNCHANGED <<snapshots, undetected, drifts, gathered>>
    BY <1>3 DEF FC!Finish
  <2>10. FactTypes'
    BY <1>1, <2>4, <2>6, <2>7, <2>8, <2>9 DEF FactTypes
  <2>11. FC!NeverOlder'
    <3>1. CASE r.file = FC!NoFile
      BY <3>1, <2>3 DEF FC!NeverOlder, FC!Cleared
    <3>2. CASE r.file # FC!NoFile /\ r.written
      BY <3>2, <2>3, <2>5, <2>7, <2>8 DEF FC!NeverOlder
    <3>3. CASE r.file # FC!NoFile /\ ~r.written
      BY <3>3, <2>3, <2>5, <2>7 DEF FC!NeverOlder
    <3> QED
      BY <3>1, <3>2, <3>3
  <2>12. SnapshotInv'
    <3>1. capture'[j].at = "queued" /\ \A i \in Jobs : i # j => capture'[i] = capture[i]
      BY <2>9 DEF FactTypes
    <3>2. \A i \in Jobs : Capturing(i)' => Capturing(i)
      BY <3>1 DEF Capturing
    <3> QED
      BY <2>6, <2>9, <3>1, <3>2 DEF SnapshotInv
  <2>13. DriftInv'
    BY <2>9 DEF DriftInv, Changes
  <2> QED
    BY <2>10, <2>11, <2>12, <2>13
<1> QED
  BY <1>2, <1>3

(* The captures. *)
LEMMA CaptureStep ==
    ASSUME FactsInv, NEW j \in Jobs, FC!ReadFacts(j) \/ FC!Compare(j) \/ FC!CreateSnapshot(j)
    PROVE  FactsInv'
<1> USE DEF FactsInv
<1> DEFINE captured == [at |-> "done", facts |-> FC!NoFacts]
<1>0. FC!NoFacts \in File
  BY DEF FC!NoFacts, File, FileWords
<1>1. /\ UNCHANGED <<host, run, drifts, gathered, newest>>
      /\ crossed'.jobs = crossed.jobs /\ crossed' \in [jobs : BOOLEAN, captures : BOOLEAN]
      /\ crossed'.captures <=> crossed.captures \/ (FC!ReadFacts(j) /\ \E i \in Jobs : Capturing(i))
  <2>1. CASE FC!ReadFacts(j)
    BY <2>1 DEF FC!ReadFacts, FactTypes, Capturing
  <2>2. CASE FC!Compare(j) \/ FC!CreateSnapshot(j)
    BY <2>2 DEF FC!Compare, FC!CreateSnapshot, FC!ReadFacts, FactTypes
  <2> QED
    BY <2>1, <2>2
<1>2. /\ \A i \in Jobs : i # j => capture'[i] = capture[i]
      /\ capture[j].at # "none"
      /\ capture' \in [Jobs -> [at : {"none", "queued", "read", "create", "done"}, facts : File]]
  <2>1. CASE FC!ReadFacts(j)
    <3>1. PICK c \in [at : {"read", "done"}, facts : File] : capture' = [capture EXCEPT ![j] = c]
      <4>1. captured \in [at : {"read", "done"}, facts : File]
        BY <1>0
      <4>2. [at |-> "read", facts |-> host] \in [at : {"read", "done"}, facts : File]
        BY DEF FactTypes
      <4> QED
        BY <2>1, <4>1, <4>2 DEF FC!ReadFacts
    <3> QED
      BY <2>1, <3>1 DEF FC!ReadFacts, FactTypes
  <2>2. CASE FC!Compare(j)
    BY <2>2, <1>0 DEF FC!Compare, FactTypes
  <2>3. CASE FC!CreateSnapshot(j)
    BY <2>3, <1>0 DEF FC!CreateSnapshot, FactTypes
  <2> QED
    BY <2>1, <2>2, <2>3
<1>3. FactTypes' /\ FC!NeverOlder'
  BY <1>1, <1>2 DEF FactTypes, FC!NeverOlder
<1>4. SnapshotInv' /\ DriftInv'
  <2>1. CASE FC!ReadFacts(j)
    <3>1. UNCHANGED <<snapshots, undetected>>
      BY <2>1 DEF FC!ReadFacts
    <3>2. /\ capture[j].at = "queued"
          /\ host.by # 0 => capture'[j].at = "read" /\ capture'[j].facts = host
          /\ capture'[j].at \in {"read", "done"}
      BY <2>1 DEF FC!ReadFacts, FC!NoFacts, FC!Cleared, FactTypes
    <3>3. ~crossed'.captures => ~crossed.captures /\ \A i \in Jobs : ~Capturing(i)
      BY <1>1, <2>1
    <3>4. ~crossed'.captures => \A i \in Jobs : Capturing(i)' => i = j
      BY <3>3, <1>2 DEF Capturing
    <3>5. SnapshotInv'
      BY <1>1, <3>1, <3>2, <3>4 DEF SnapshotInv, Capturing
    <3> QED
      BY <1>1, <3>1, <3>5 DEF DriftInv, Changes
  <2>2. CASE FC!Compare(j)
    <3>1. UNCHANGED <<snapshots, undetected>>
      BY <2>2 DEF FC!Compare
    <3>2. capture[j].at = "read"
          /\ \/ capture'[j].at = "create" /\ capture'[j].facts = capture[j].facts
             \/ capture'[j].at = "done" /\ ~FC!IsNew(capture[j].facts.value)
      BY <2>2 DEF FC!Compare, FactTypes
    <3>3. SnapshotInv'
      BY <1>1, <1>2, <2>2, <3>1, <3>2 DEF SnapshotInv, Capturing, FC!IsNew, Latest, FC!ReadFacts
    <3> QED
      BY <1>1, <3>1, <3>3 DEF DriftInv, Changes
  <2>3. CASE FC!CreateSnapshot(j)
    <3> DEFINE word == capture[j].facts.value
    <3>1. word \in FileWords
      BY DEF FactTypes, File
    <3>2. /\ capture[j].at = "create" /\ capture'[j].at = "done"
          /\ snapshots' = Append(snapshots, word)
          /\ undetected' = undetected \union {Len(snapshots) + 1}
      BY <2>3 DEF FC!CreateSnapshot, FactTypes
    <3>3. /\ snapshots' \in Seq(FileWords) /\ Len(snapshots') = Len(snapshots) + 1
          /\ snapshots'[Len(snapshots) + 1] = word
          /\ \A i \in DOMAIN snapshots : snapshots'[i] = snapshots[i]
          /\ DOMAIN snapshots = 1 .. Len(snapshots) /\ DOMAIN snapshots' = 1 .. Len(snapshots) + 1
          /\ Len(snapshots) \in Nat /\ snapshots' # <<>>
      BY <3>1, <3>2 DEF SnapshotInv
    <3>4. SnapshotInv'
      BY <1>1, <1>2, <2>3, <3>2, <3>3 DEF SnapshotInv, Capturing, Latest, FC!ReadFacts, FC!CreateSnapshot
    <3>5. DOMAIN snapshots' \ undetected' = DOMAIN snapshots \ undetected
      BY <3>2, <3>3
    <3>6. \A i \in DOMAIN snapshots \ undetected : i > 1 =>
             snapshots'[i] = snapshots[i] /\ snapshots'[i - 1] = snapshots[i - 1]
      BY <3>3
    <3>7. Changes(DOMAIN snapshots \ undetected)' = Changes(DOMAIN snapshots \ undetected)
      BY <3>5, <3>6 DEF Changes
    <3>8. undetected' \subseteq DOMAIN snapshots'
      BY <3>2, <3>3 DEF DriftInv
    <3> QED
      BY <1>1, <3>4, <3>7, <3>8 DEF DriftInv
  <2> QED
    BY <2>1, <2>2, <2>3
<1> QED
  BY <1>3, <1>4

LEMMA DetectStep == ASSUME FactsInv, NEW i \in undetected, FC!DetectDrift(i) PROVE FactsInv'
<1> USE DEF FactsInv
<1>1. /\ UNCHANGED <<host, run, capture, snapshots, gathered, newest, crossed>>
      /\ undetected' = undetected \ {i}
      /\ drifts' = IF i > 1 /\ snapshots[i - 1] # snapshots[i] THEN drifts \union {<<i - 1, i>>} ELSE drifts
  BY DEF FC!DetectDrift
<1>2. FactTypes' /\ FC!NeverOlder' /\ SnapshotInv'
  BY <1>1 DEF FactTypes, FC!NeverOlder, SnapshotInv, Capturing, Latest
<1>3. i \in DOMAIN snapshots /\ DOMAIN snapshots \ undetected' = (DOMAIN snapshots \ undetected) \union {i}
  BY <1>1 DEF DriftInv
<1>4. drifts' = Changes((DOMAIN snapshots \ undetected) \union {i})
  BY <1>1 DEF DriftInv, Changes
<1>5. DriftInv'
  BY <1>1, <1>3, <1>4 DEF DriftInv, Changes
<1> QED
  BY <1>2, <1>5

LEMMA FactsStep == FactsInv /\ [FC!Next]_factsVars => FactsInv'
<1> SUFFICES ASSUME FactsInv, [FC!Next]_factsVars PROVE FactsInv'
  OBVIOUS
<1>1. CASE UNCHANGED factsVars
  BY <1>1 DEF factsVars, FactsInv, FactTypes, FC!NeverOlder, SnapshotInv, Capturing, Latest, DriftInv, Changes
<1>2. ASSUME NEW j \in Jobs, NEW v \in Values, FC!Gather(j, v) PROVE FactsInv'
  BY <1>2, RunStep, FactsStaysHolds DEF FactsInv
<1>3. ASSUME NEW j \in Jobs, FC!Start(j) \/ FC!ClearFacts(j) \/ FC!PlayOnly(j) PROVE FactsInv'
  <2>1. FactTypes' /\ FactsStays
    BY <1>3, RunStep DEF FactsInv
  <2> QED
    BY <2>1, FactsStaysHolds
<1>4. ASSUME NEW j \in Jobs, FC!Finish(j) \/ FC!Fail(j) PROVE FactsInv'
  BY <1>4, SaveFactsStep
<1>5. ASSUME NEW j \in Jobs, FC!ReadFacts(j) \/ FC!Compare(j) \/ FC!CreateSnapshot(j) PROVE FactsInv'
  BY <1>5, CaptureStep
<1>6. ASSUME NEW i \in undetected, FC!DetectDrift(i) PROVE FactsInv'
  BY <1>6, DetectStep
<1> QED
  BY <1>1, <1>2, <1>3, <1>4, <1>5, <1>6 DEF FC!Next

LEMMA FactsKept == FactsInv => FC!NeverOlder /\ FC!LatestIsCurrent /\ FC!ChangesAreDetected
<1> SUFFICES ASSUME FactsInv PROVE FC!LatestIsCurrent /\ FC!ChangesAreDetected
  BY DEF FactsInv
<1>1. FC!LatestIsCurrent
  BY DEF FactsInv, SnapshotInv, Capturing, Latest, FC!LatestIsCurrent
<1>2. FC!ChangesAreDetected
  <2>1. undetected = {} => DOMAIN snapshots \ undetected = DOMAIN snapshots
    OBVIOUS
  <2> QED
    BY <2>1 DEF FactsInv, DriftInv, Changes, FC!ChangesAreDetected
<1> QED
  BY <1>1, <1>2

-----------------------------------------------------------------------------
(* The policies of the instance groups. *)

(* The instances are numbered, and the two groups are two.                   *)
PoliciesAssumed == IsFiniteSet(Instances) /\ Instances \subseteq Nat /\ Controlplane # Default

(* A group takes as many as it asks for, as long as there are any.            *)
LEMMA PolicyCardinality == \A S : CP!Cardinality(S) = Cardinality(S)
BY DEF CP!Cardinality, Cardinality

LEMMA TakeFacts ==
    ASSUME PoliciesAssumed, managed \subseteq Instances, NEW plan \in [CP!InstanceGroups -> SUBSET Instances],
           NEW g \in CP!InstanceGroups, NEW count \in Int
    PROVE  \E C \in SUBSET (CP!Candidates(g) \ plan[g]) :
              /\ CP!Take(plan, g, count) = [plan EXCEPT ![g] = @ \union C]
              /\ IsFiniteSet(C) /\ Cardinality(C) \in Nat
              /\ C # {} => Cardinality(C) <= count
              /\ C = CP!Candidates(g) \ plan[g] \/ Cardinality(C) >= count
<1> DEFINE S == CP!Candidates(g) \ plan[g]
           load(i) == CP!Load(plan, i)
           down == [i \in S |-> {j \in S : CP!Before(plan, j, i)}]
           C == {i \in S : Cardinality(down[i]) < count}
<1>1. S \subseteq Instances /\ IsFiniteSet(S)
  BY FS_Subset DEF CP!Candidates, PoliciesAssumed
<1>2. \A i \in S : load(i) \in Nat /\ i \in Nat
  <2>1. IsFiniteSet(CP!InstanceGroups)
    <3>1. IsFiniteSet({Controlplane}) /\ {Controlplane} \union {Default} = CP!InstanceGroups
      BY FS_Singleton DEF CP!InstanceGroups
    <3> QED
      BY <3>1, FS_AddElement
  <2> QED
    <3>1. ASSUME NEW i \in S PROVE load(i) \in Nat
      <4>1. {h \in CP!InstanceGroups : i \in plan[h] \ policies[h].list} \in SUBSET CP!InstanceGroups
        OBVIOUS
      <4> QED
        BY <2>1, <4>1, FS_Subset, FS_CardinalityType, PolicyCardinality DEF CP!Load
    <3> QED
      BY <1>1, <3>1 DEF PoliciesAssumed
<1>3. \A i, j \in S : CP!Before(plan, i, j) <=> load(i) < load(j) \/ (load(i) = load(j) /\ i < j)
  BY DEF CP!Before
<1> HIDE DEF load
<1>4. \A i \in S : down[i] \subseteq S /\ i \notin down[i]
  BY <1>2, <1>3
<1>5. \A i, j \in S : i # j => i \in down[j] \/ j \in down[i]
  BY <1>2, <1>3
<1>6. \A i, j \in S : i \in down[j] => down[i] \subseteq down[j]
  BY <1>2, <1>3
<1>7. CP!Take(plan, g, count) = [plan EXCEPT ![g] = @ \union C]
  <2>1. C = {i \in S : Cardinality({j \in S : CP!Before(plan, j, i)}) < count}
    OBVIOUS
  <2> QED
    BY <2>1, PolicyCardinality DEF CP!Take
<1> HIDE DEF down, S
<1>8. /\ IsFiniteSet(C) /\ Cardinality(C) \in Nat
      /\ C # {} => Cardinality(C) <= count
      /\ C = S \/ Cardinality(C) >= count
  BY <1>1, <1>4, <1>5, <1>6, FirstOfAll
<1> QED
  BY <1>7, <1>8 DEF S

Asked(what, g) == IF what = "minimum" THEN policies[g].minimum ELSE CP!Share(g)
Took(what, before, after, g) ==
    \E C \in SUBSET (CP!Candidates(g) \ before) :
        /\ after = before \union C
        /\ IsFiniteSet(C) /\ Cardinality(C) \in Nat
        /\ C # {} => Cardinality(C) <= Asked(what, g) - Cardinality(before)
        /\ C = CP!Candidates(g) \ before \/ Cardinality(C) >= Asked(what, g) - Cardinality(before)

Plan == [CP!InstanceGroups -> SUBSET Instances]
PolicyInputs ==
    /\ PoliciesAssumed /\ managed \subseteq Instances
    /\ policies \in [CP!InstanceGroups -> [list : SUBSET Instances, minimum : Nat, percentage : Nat]]

LEMMA AskedIsInt == ASSUME PolicyInputs, NEW g \in CP!InstanceGroups PROVE
    /\ IsFiniteSet(CP!Candidates(g)) /\ Cardinality(CP!Candidates(g)) \in Nat
    /\ policies[g].percentage * Cardinality(CP!Candidates(g)) \in Nat
    /\ CP!Share(g) = (policies[g].percentage * Cardinality(CP!Candidates(g)) + 99) \div 100
    /\ policies[g].minimum \in Int /\ CP!Share(g) \in Int
    /\ \A s \in SUBSET Instances : IsFiniteSet(s) /\ Cardinality(s) \in Nat
<1>1. CP!Candidates(g) \in SUBSET Instances
  BY DEF PolicyInputs, CP!Candidates
<1>2. \A s \in SUBSET Instances : IsFiniteSet(s) /\ Cardinality(s) \in Nat
  BY FS_Subset, FS_CardinalityType DEF PolicyInputs, PoliciesAssumed
<1>3. policies[g].percentage \in Nat /\ policies[g].minimum \in Nat
  BY DEF PolicyInputs
<1>4. policies[g].percentage * Cardinality(CP!Candidates(g)) \in Nat
  BY <1>1, <1>2, <1>3
<1>5. CP!Share(g) = (policies[g].percentage * Cardinality(CP!Candidates(g)) + 99) \div 100
  BY PolicyCardinality DEF CP!Share
<1>6. CP!Share(g) \in Int
  BY <1>4, <1>5
<1> QED
  BY <1>1, <1>2, <1>3, <1>4, <1>5, <1>6

(* The groups take in turn, and none disturbs what the other has. *)
LEMMA AllTakeFacts ==
    ASSUME PolicyInputs, NEW what \in {"minimum", "share"}, NEW plans \in SUBSET Plan,
           NEW after \in CP!AllTake(what, plans)
    PROVE  /\ after \in Plan
           /\ \E before \in plans : \A g \in CP!InstanceGroups : Took(what, before[g], after[g], g)
<1> DEFINE take(plan, g) == IF what = "minimum" THEN CP!TakeMinimum(plan, g) ELSE CP!TakeShare(plan, g)
<1>0. PICK before \in plans : \E turn \in CP!InTurn(before) : after = take(take(before, turn[1]), turn[2])
  BY DEF CP!AllTake
<1>1. PICK turn \in CP!InTurn(before) : after = take(take(before, turn[1]), turn[2])
  BY <1>0
<1>2. \A plan : \A g : take(plan, g) = CP!Take(plan, g, Asked(what, g) - Cardinality(plan[g]))
  BY PolicyCardinality DEF Asked, CP!TakeMinimum, CP!TakeShare
<1>3. /\ turn[1] \in CP!InstanceGroups /\ turn[2] \in CP!InstanceGroups /\ turn[1] # turn[2]
      /\ \A g \in CP!InstanceGroups : g = turn[1] \/ g = turn[2]
  BY DEF CP!InTurn, CP!InstanceGroups, PolicyInputs, PoliciesAssumed
<1>4. ASSUME NEW plan \in Plan, NEW g \in CP!InstanceGroups
      PROVE  /\ take(plan, g) \in Plan
             /\ \A h \in CP!InstanceGroups : h # g => take(plan, g)[h] = plan[h]
             /\ Took(what, plan[g], take(plan, g)[g], g)
  <2>1. Asked(what, g) - Cardinality(plan[g]) \in Int
    <3>1. plan[g] \in SUBSET Instances
      BY DEF Plan
    <3> QED
      BY <3>1, AskedIsInt DEF Asked
  <2>2. PICK C \in SUBSET (CP!Candidates(g) \ plan[g]) :
              /\ take(plan, g) = [plan EXCEPT ![g] = @ \union C]
              /\ IsFiniteSet(C) /\ Cardinality(C) \in Nat
              /\ C # {} => Cardinality(C) <= Asked(what, g) - Cardinality(plan[g])
              /\ C = CP!Candidates(g) \ plan[g] \/ Cardinality(C) >= Asked(what, g) - Cardinality(plan[g])
    BY <1>2, <2>1, TakeFacts DEF Plan, PolicyInputs
  <2>3. C \subseteq Instances
    BY DEF CP!Candidates, PolicyInputs
  <2>4. take(plan, g)[g] = plan[g] \union C
    BY <2>2 DEF Plan
  <2> HIDE DEF take
  <2>5. Took(what, plan[g], take(plan, g)[g], g)
    BY <2>2, <2>4 DEF Took
  <2> QED
    BY <2>2, <2>3, <2>5 DEF Plan
<1> HIDE DEF take
<1> DEFINE halfway == take(before, turn[1])
<1>5. /\ halfway \in Plan /\ halfway[turn[2]] = before[turn[2]]
      /\ Took(what, before[turn[1]], halfway[turn[1]], turn[1])
  BY <1>3, <1>4
<1>6. /\ after \in Plan /\ after[turn[1]] = halfway[turn[1]]
      /\ Took(what, halfway[turn[2]], after[turn[2]], turn[2])
  BY <1>1, <1>3, <1>4, <1>5
<1>7. \A g \in CP!InstanceGroups : Took(what, before[g], after[g], g)
  BY <1>3, <1>5, <1>6
<1> QED
  BY <1>6, <1>7

(* A plan, or a membership M, is what a policy asks for: list L, eligible    *)
(* instances E, minimum m and percentage p.                                  *)
Enough(n, E, m, p) == n >= m /\ 100 * n >= p * Cardinality(E)
Meets(M, L, E, m, p) ==
    /\ L \subseteq M
    /\ M \ L \subseteq E
    /\ Enough(Cardinality(M), E, m, p) \/ E \subseteq M
    /\ M # L => ~Enough(Cardinality(M) - 1, E, m, p)

LEMMA MoreIsEnough ==
    ASSUME PolicyInputs, NEW g \in CP!InstanceGroups, NEW N \in SUBSET Instances, NEW M \in SUBSET N,
           Enough(Cardinality(M), CP!Eligible(g), policies[g].minimum, policies[g].percentage)
    PROVE  Enough(Cardinality(N), CP!Eligible(g), policies[g].minimum, policies[g].percentage)
<1> DEFINE E == CP!Eligible(g)
           m == policies[g].minimum
           p == policies[g].percentage
<1>1. E \in SUBSET Instances
  BY DEF PolicyInputs, CP!Eligible
<1>2. \A S \in SUBSET Instances : IsFiniteSet(S) /\ Cardinality(S) \in Nat
  BY FS_Subset, FS_CardinalityType DEF PolicyInputs, PoliciesAssumed
<1>3. m \in Nat /\ p \in Nat
  BY DEF PolicyInputs
<1>4. p * Cardinality(E) \in Nat
  BY <1>1, <1>2, <1>3
<1>5. Cardinality(M) <= Cardinality(N)
  BY <1>2, FS_Subset
<1>6. Cardinality(M) \in Nat /\ Cardinality(N) \in Nat
  BY <1>2
<1>7. Cardinality(M) >= m /\ 100 * Cardinality(M) >= p * Cardinality(E)
  BY DEF Enough
<1> HIDE DEF E, m, p
<1>8. Cardinality(N) >= m /\ 100 * Cardinality(N) >= p * Cardinality(E)
  BY <1>3, <1>4, <1>5, <1>6, <1>7
<1> QED
  BY <1>8 DEF Enough, E, m, p

LEMMA PlansMeetPolicies ==
    ASSUME PolicyInputs, NEW plan \in CP!Plans, NEW g \in CP!InstanceGroups
    PROVE  /\ plan \in Plan
           /\ Meets(plan[g], policies[g].list, CP!Eligible(g), policies[g].minimum, policies[g].percentage)
<1>1. CP!Listed \in Plan /\ CP!Listed[g] = policies[g].list
  BY DEF CP!Listed, PolicyInputs, Plan
<1>2. \A half \in CP!AllTake("minimum", {CP!Listed}) :
         half \in Plan /\ Took("minimum", policies[g].list, half[g], g)
  BY <1>1, AllTakeFacts
<1>3. CP!AllTake("minimum", {CP!Listed}) \in SUBSET Plan
  BY <1>2
<1>4. PICK half \in CP!AllTake("minimum", {CP!Listed}) : plan \in Plan /\ Took("share", half[g], plan[g], g)
  BY <1>3, AllTakeFacts DEF CP!Plans
<1> DEFINE E == CP!Candidates(g)
           L == policies[g].list
           M == half[g]
           N == plan[g]
           m == policies[g].minimum
           x == policies[g].percentage * Cardinality(E)
           s == CP!Share(g)
<1>5. /\ IsFiniteSet(E) /\ Cardinality(E) \in Nat
      /\ m \in Int /\ s \in Int /\ x \in Nat
      /\ \A S \in SUBSET Instances : IsFiniteSet(S) /\ Cardinality(S) \in Nat
  BY AskedIsInt
<1>6. s = (x + 99) \div 100
  BY AskedIsInt
<1>7. PICK C \in SUBSET (E \ L) :
        /\ M = L \union C
        /\ IsFiniteSet(C) /\ Cardinality(C) \in Nat
        /\ C # {} => Cardinality(C) <= m - Cardinality(L)
        /\ C = E \ L \/ Cardinality(C) >= m - Cardinality(L)
  BY <1>2, <1>4 DEF Took, Asked
<1>8. PICK D \in SUBSET (E \ M) :
        /\ N = M \union D
        /\ IsFiniteSet(D) /\ Cardinality(D) \in Nat
        /\ D # {} => Cardinality(D) <= s - Cardinality(M)
        /\ D = E \ M \/ Cardinality(D) >= s - Cardinality(M)
  BY <1>4 DEF Took, Asked
<1>9. /\ L \in SUBSET Instances /\ M \in SUBSET Instances /\ N \in SUBSET Instances
  BY <1>1, <1>2, <1>4 DEF Plan
<1>10. Cardinality(M) = Cardinality(L) + Cardinality(C)
  <2>1. Cardinality(M) = Cardinality(L) + Cardinality(C) - Cardinality(L \intersect C)
    BY <1>5, <1>7, <1>9, FS_Union
  <2>2. L \intersect C = {}
    OBVIOUS
  <2> QED
    BY <1>5, <1>7, <1>9, <2>1, <2>2, FS_EmptySet
<1>11. Cardinality(N) = Cardinality(M) + Cardinality(D)
  <2>1. Cardinality(N) = Cardinality(M) + Cardinality(D) - Cardinality(M \intersect D)
    BY <1>5, <1>8, <1>9, FS_Union
  <2>2. M \intersect D = {}
    OBVIOUS
  <2> QED
    BY <1>5, <1>8, <1>9, <2>1, <2>2, FS_EmptySet
<1> DEFINE l == Cardinality(L)
           c == Cardinality(C)
           d == Cardinality(D)
           n == Cardinality(N)
<1>12. l \in Nat /\ c \in Nat /\ d \in Nat /\ n = l + c + d /\ Cardinality(M) = l + c
  BY <1>5, <1>7, <1>8, <1>9, <1>10, <1>11
<1>13. CP!Eligible(g) = E
  BY DEF CP!Eligible, CP!Candidates, CP!Excluded
<1>14. (C = {} <=> c = 0) /\ (D = {} <=> d = 0)
  BY <1>7, <1>8, FS_EmptySet
<1>15. L \subseteq N /\ N \ L \subseteq E /\ (N # L => C # {} \/ D # {}) /\ (~(E \subseteq N) => C # E \ L /\ D # E \ M)
  BY <1>7, <1>8
<1> HIDE DEF E, L, M, N, m, x, s, l, c, d, n
<1>16. ~(E \subseteq N) => n >= m /\ 100 * n >= x
  BY <1>5, <1>6, <1>7, <1>8, <1>12, <1>15 DEF l, c, d
<1>17. N # L => ~(n - 1 >= m /\ 100 * (n - 1) >= x)
  <2>1. CASE D # {}
    <3>1. n <= s
      BY <1>8, <1>12, <2>1, <1>5 DEF d
    <3> QED
      BY <1>5, <1>6, <1>12, <3>1
  <2>2. CASE D = {} /\ C # {}
    BY <1>5, <1>7, <1>12, <1>14, <2>2 DEF c, l
  <2> QED
    BY <1>15, <2>1, <2>2
<1>18. Meets(N, L, E, m, policies[g].percentage)
  BY <1>15, <1>16, <1>17 DEF Meets, Enough, x, n
<1> QED
  BY <1>4, <1>13, <1>18 DEF N, L, E, m

(* Unless a task is on its way, or the history says that a change went       *)
(* unnoticed, the task works with a plan of the policies, without what was   *)
(* attached since it read them; what was added to a group since it read the  *)
(* members is listed; and what it leaves behind is what the policies ask     *)
(* for, but for what was attached.                                           *)
PolicyTypes ==
    /\ PolicyInputs
    /\ members \in Plan
    /\ patch = CP!NoPatch \/ patch.group \in CP!InstanceGroups
    /\ patch.row \in [list : SUBSET Instances, minimum : Nat, percentage : Nat]
    /\ tasks \in Nat
    /\ task.at \in {"idle", "read", "read_all"} /\ task = [at |-> task.at, wanted |-> task.wanted, prior |-> task.prior]
    /\ task.wanted \in Plan
    /\ unnoticed \in BOOLEAN /\ attached \in Plan /\ raced \in Plan
MembersMet(g) ==
    LET E == CP!Eligible(g)
        m == policies[g].minimum
        p == policies[g].percentage
    IN  /\ policies[g].list \ raced[g] \subseteq members[g]
        /\ members[g] \ policies[g].list \subseteq E
        /\ Enough(Cardinality(members[g]), E, m, p) \/ E \subseteq members[g]
        /\ attached[g] = {} /\ members[g] # policies[g].list => ~Enough(Cardinality(members[g]) - 1, E, m, p)
WantedMet(g) ==
    /\ Meets(task.wanted[g], policies[g].list \ attached[g], CP!Eligible(g), policies[g].minimum, policies[g].percentage)
    /\ attached[g] = raced[g]
AddedAreListed(g) == task.prior[g] \subseteq members[g] /\ members[g] \ task.prior[g] \subseteq policies[g].list
OnPlan(g) ==
    /\ raced[g] \subseteq attached[g]
    /\ task.at = "idle" => MembersMet(g)
    /\ task.at # "idle" => WantedMet(g)
    /\ task.at = "read_all" => AddedAreListed(g)
PolicyInv == PolicyTypes /\ (tasks = 0 /\ ~unnoticed => \A g \in CP!InstanceGroups : OnPlan(g))

LEMMA PolicyInit == PoliciesAssumed /\ CP!Init => PolicyInv
<1> SUFFICES ASSUME PoliciesAssumed, CP!Init PROVE PolicyInv
  OBVIOUS
<1>1. policies \in [CP!InstanceGroups -> [list : SUBSET Instances, minimum : Nat, percentage : Nat]]
  BY DEF CP!Init
<1>2. patch = CP!NoPatch /\ patch.row \in [list : SUBSET Instances, minimum : Nat, percentage : Nat]
  BY DEF CP!Init, CP!NoPatch
<1>3. members \in Plan /\ attached \in Plan /\ raced \in Plan
  BY DEF CP!Init, CP!Nothing, Plan
<1>4. task.at = "idle" /\ task = [at |-> task.at, wanted |-> task.wanted, prior |-> task.prior] /\ task.wanted \in Plan
  BY DEF CP!Init, CP!NoTask, CP!Nothing, Plan
<1>5. tasks = 1 /\ unnoticed = FALSE /\ managed = Instances
  BY DEF CP!Init
<1>6. PolicyTypes
  BY <1>1, <1>2, <1>3, <1>4, <1>5 DEF PolicyTypes, PolicyInputs
<1> QED
  BY <1>5, <1>6 DEF PolicyInv

(* The task leaves behind what it wants, and what was attached since it read *)
(* the members.                                                              *)
LEMMA AppliedMeets ==
    ASSUME PolicyTypes, PolicyTypes', CP!ApplyPolicies, NEW g \in CP!InstanceGroups, WantedMet(g), AddedAreListed(g)
    PROVE  MembersMet(g)'
<1> DEFINE E == CP!Eligible(g)
           W == task.wanted[g]
           L == policies[g].list
           M == members'[g]
<1>1. /\ M = (members[g] \union (W \ task.prior[g])) \ (task.prior[g] \ W)
      /\ UNCHANGED <<managed, policies, attached, raced>>
  BY DEF CP!ApplyPolicies
<1>2. CP!Eligible(g)' = E
  BY <1>1 DEF CP!Eligible
<1>3. /\ L \ attached[g] \subseteq W /\ W \ (L \ attached[g]) \subseteq E
      /\ attached[g] = raced[g]
      /\ Enough(Cardinality(W), E, policies[g].minimum, policies[g].percentage) \/ E \subseteq W
      /\ W # L \ attached[g] => ~Enough(Cardinality(W) - 1, E, policies[g].minimum, policies[g].percentage)
  BY DEF WantedMet, Meets
<1>4. task.prior[g] \subseteq members[g] /\ members[g] \ task.prior[g] \subseteq L
  BY DEF AddedAreListed
<1>5. M \in SUBSET Instances /\ W \in SUBSET M
  <2>1. M \in SUBSET Instances
    BY DEF PolicyTypes, Plan
  <2> QED
    BY <1>1, <1>4, <2>1
<1>6. Enough(Cardinality(M), E, policies[g].minimum, policies[g].percentage) \/ E \subseteq M
  <2>1. PolicyInputs
    BY DEF PolicyTypes
  <2> QED
    BY <1>3, <1>5, <2>1, MoreIsEnough
<1> HIDE DEF E, W, L, M
<1>7. L \ raced[g] \subseteq M /\ M \ L \subseteq E
  BY <1>1, <1>3, <1>4, <1>5
<1>8. attached[g] = {} => M = W /\ L \ attached[g] = L
  <2>1. attached[g] = {} => L \subseteq W
    BY <1>3
  <2> QED
    BY <1>1, <1>4, <1>5, <2>1
<1> QED
  BY <1>1, <1>2, <1>3, <1>6, <1>7, <1>8 DEF MembersMet, E, L, M

LEMMA PolicyTaskStep == ASSUME PolicyInv, CP!PolicyTask PROVE PolicyInv'
<1> USE DEF PolicyInv
<1>0. /\ UNCHANGED <<managed, policies, patch>>
      /\ \A g \in CP!InstanceGroups : CP!Eligible(g)' = CP!Eligible(g)
      /\ PolicyInputs' /\ (patch = CP!NoPatch <=> patch' = CP!NoPatch')
  <2>1. UNCHANGED <<managed, policies, patch>>
    <3>1. CP!ReadPolicies => UNCHANGED <<managed, policies, patch>>
      BY Zenon DEF CP!ReadPolicies
    <3> QED
      BY <3>1 DEF CP!PolicyTask, CP!ReadMembers, CP!ApplyPolicies
  <2> QED
    BY <2>1 DEF PolicyTypes, PolicyInputs, CP!NoPatch, CP!Eligible
<1>1. CASE CP!ReadPolicies
  <2>1. PICK plan \in CP!Plans : task' = [CP!NoTask EXCEPT !.at = "read", !.wanted = plan]
    BY <1>1, Zenon DEF CP!ReadPolicies
  <2>2. plan \in Plan
    BY PlansMeetPolicies DEF PolicyTypes, CP!InstanceGroups
  <2>3. task'.at = "read" /\ task'.wanted = plan /\ task' = [at |-> task'.at, wanted |-> task'.wanted, prior |-> task'.prior]
    BY <2>1, <2>2 DEF CP!NoTask
  <2>4. members' = members /\ tasks' \in Nat /\ unnoticed' = FALSE /\ attached' = CP!Nothing /\ raced' = CP!Nothing
    BY <1>1 DEF CP!ReadPolicies, PolicyTypes
  <2>5. PolicyTypes'
    <3>1. attached' \in Plan /\ raced' \in Plan
      BY <2>4 DEF CP!Nothing, Plan
    <3> QED
      BY <1>0, <2>2, <2>3, <2>4, <3>1 DEF PolicyTypes
  <2>6. ASSUME NEW g \in CP!InstanceGroups PROVE WantedMet(g)'
    <3>1. attached'[g] = {} /\ raced'[g] = {}
      BY <2>4 DEF CP!Nothing
    <3>2. Meets(plan[g], policies[g].list, CP!Eligible(g), policies[g].minimum, policies[g].percentage)
      BY PlansMeetPolicies DEF PolicyTypes
    <3>3. policies'[g].list \ attached'[g] = policies[g].list
      BY <1>0, <3>1
    <3> QED
      BY <1>0, <2>3, <3>1, <3>2, <3>3 DEF WantedMet
  <2> QED
    BY <2>3, <2>5, <2>6 DEF OnPlan, WantedMet
<1>2. CASE CP!ReadMembers
  <2>1. /\ task.at = "read" /\ task'.at = "read_all" /\ task'.wanted = task.wanted /\ task'.prior = members
        /\ task' = [at |-> task'.at, wanted |-> task'.wanted, prior |-> task'.prior]
    BY <1>2 DEF CP!ReadMembers, PolicyTypes
  <2>2. UNCHANGED <<members, tasks, unnoticed, attached, raced>>
    BY <1>2 DEF CP!ReadMembers
  <2>3. PolicyTypes'
    BY <1>0, <2>1, <2>2 DEF PolicyTypes, Plan
  <2>4. ASSUME tasks = 0, ~unnoticed, NEW g \in CP!InstanceGroups PROVE OnPlan(g)'
    <3>1. AddedAreListed(g)'
      BY <1>0, <2>1, <2>2 DEF AddedAreListed
    <3>2. WantedMet(g)'
      <4>1. WantedMet(g)
        BY <2>1, <2>4 DEF OnPlan
      <4> QED
        BY <1>0, <2>1, <2>2, <4>1 DEF WantedMet
    <3> QED
      BY <2>1, <3>1, <3>2 DEF OnPlan, WantedMet
  <2> QED
    BY <2>2, <2>3, <2>4
<1>3. CASE CP!ApplyPolicies
  <2>1. /\ task.at = "read_all" /\ task' = CP!NoTask
        /\ members' = [g \in CP!InstanceGroups |->
                          (members[g] \union (task.wanted[g] \ task.prior[g])) \ (task.prior[g] \ task.wanted[g])]
        /\ UNCHANGED <<tasks, unnoticed, attached, raced>>
    BY <1>3 DEF CP!ApplyPolicies
  <2>2. task'.at = "idle" /\ task' = [at |-> task'.at, wanted |-> task'.wanted, prior |-> task'.prior] /\ task'.wanted \in Plan
    BY <2>1 DEF CP!NoTask, CP!Nothing, Plan
  <2>3. members' \in Plan
    <3>1. members \in Plan /\ task.wanted \in Plan
      BY DEF PolicyTypes
    <3> QED
      BY <2>1, <3>1 DEF Plan
  <2>4. PolicyTypes'
    BY <1>0, <2>1, <2>2, <2>3 DEF PolicyTypes, Plan
  <2>5. ASSUME tasks = 0, ~unnoticed, NEW g \in CP!InstanceGroups PROVE OnPlan(g)'
    <3>1. WantedMet(g) /\ AddedAreListed(g)
      BY <2>1, <2>5 DEF OnPlan
    <3>2. MembersMet(g)'
      BY <1>3, <2>4, <3>1, AppliedMeets
    <3> QED
      BY <2>1, <2>2, <2>5, <3>2 DEF OnPlan
  <2> QED
    BY <2>1, <2>4, <2>5
<1> QED
  BY <1>1, <1>2, <1>3 DEF CP!PolicyTask

(* A new task is sent, or nothing that the policies say has changed. *)
LEMMA SentOrKept ==
    ASSUME PolicyInv, PolicyTypes',
           \/ tasks' # 0
           \/ unnoticed'
           \/ /\ UNCHANGED <<managed, policies, members, task, tasks, attached, raced>>
              /\ unnoticed' <=> unnoticed
    PROVE  PolicyInv'
<1> SUFFICES ASSUME tasks' = 0, ~unnoticed', NEW g \in CP!InstanceGroups PROVE OnPlan(g)'
  BY DEF PolicyInv
<1>1. UNCHANGED <<managed, policies, members, task, attached, raced>> /\ OnPlan(g)
  BY DEF PolicyInv
<1>2. CP!Eligible(g)' = CP!Eligible(g)
  BY <1>1 DEF CP!Eligible
<1> QED
  BY <1>1, <1>2 DEF OnPlan, MembersMet, WantedMet, AddedAreListed

(* Attaching sends no task, and adds to a group what it puts on its list.    *)
LEMMA AttachKeepsPlan ==
    ASSUME PolicyTypes, PolicyTypes', NEW h \in CP!InstanceGroups, NEW i \in Instances, CP!Attach(h, i),
           NEW g \in CP!InstanceGroups, OnPlan(g)
    PROVE  OnPlan(g)'
<1> DEFINE E == CP!Eligible(g)
           L == policies[g].list
           A == attached[g]
           R == raced[g]
           M == members[g]
<1>1. /\ UNCHANGED <<managed, tasks, task>>
      /\ policies' = [policies EXCEPT ![h].list = @ \union {i}]
      /\ members' = [members EXCEPT ![h] = @ \union {i}]
      /\ attached' = [attached EXCEPT ![h] = @ \union ({i} \ policies[h].list)]
      /\ raced' = [raced EXCEPT ![h] = @ \union IF task.at = "idle" THEN {} ELSE {i} \ policies[h].list]
  BY DEF CP!Attach
<1>2. /\ policies \in [CP!InstanceGroups -> [list : SUBSET Instances, minimum : Nat, percentage : Nat]]
      /\ members \in Plan /\ attached \in Plan /\ raced \in Plan
  BY DEF PolicyTypes, PolicyInputs
<1>3. /\ policies'[g].list = L \union (IF g = h THEN {i} ELSE {})
      /\ policies'[g].minimum = policies[g].minimum /\ policies'[g].percentage = policies[g].percentage
  BY <1>1, <1>2
<1>4. /\ members'[g] = M \union (IF g = h THEN {i} ELSE {})
      /\ attached'[g] = A \union (IF g = h THEN {i} \ L ELSE {})
      /\ raced'[g] = R \union (IF g = h /\ task.at # "idle" THEN {i} \ L ELSE {})
  BY <1>1, <1>2 DEF Plan
<1>5. CP!Eligible(g)' = E
  BY <1>1 DEF CP!Eligible
<1>6. CASE task.at = "idle"
  <2>1. MembersMet(g)
    BY <1>6 DEF OnPlan
  <2>2. M \in SUBSET members'[g] /\ members'[g] \in SUBSET Instances /\ PolicyInputs
    BY <1>2, <1>4 DEF Plan, PolicyTypes
  <2>3. \/ Enough(Cardinality(members'[g]), E, policies[g].minimum, policies[g].percentage)
        \/ E \subseteq members'[g]
    <3>1. Enough(Cardinality(M), E, policies[g].minimum, policies[g].percentage) \/ E \subseteq M
      BY <2>1 DEF MembersMet
    <3> QED
      BY <2>2, <3>1, MoreIsEnough
  <2>4. /\ L \ R \subseteq M /\ M \ L \subseteq E
        /\ A = {} /\ M # L => ~Enough(Cardinality(M) - 1, E, policies[g].minimum, policies[g].percentage)
    BY <2>1 DEF MembersMet
  <2>5. raced'[g] = R
    BY <1>4, <1>6
  <2> HIDE DEF E, L, A, R, M
  <2>6. policies'[g].list \ raced'[g] \subseteq members'[g] /\ members'[g] \ policies'[g].list \subseteq E
    BY <1>3, <1>4, <2>4, <2>5
  <2>7. attached'[g] = {} => A = {} /\ policies'[g].list = L /\ (R = {} => members'[g] = M)
    BY <1>3, <1>4, <2>4
  <2>8. R \subseteq A /\ raced'[g] \subseteq attached'[g]
    BY <1>4, <2>5 DEF OnPlan, R, A
  <2>9. MembersMet(g)'
    <3>1. attached'[g] = {} /\ members'[g] # policies'[g].list =>
             ~Enough(Cardinality(members'[g]) - 1, E, policies[g].minimum, policies[g].percentage)
      <4>1. attached'[g] = {} => A = {} /\ policies'[g].list = L /\ members'[g] = M
        BY <2>7, <2>8
      <4> QED
        BY <2>4, <4>1
    <3> QED
      BY <1>3, <1>5, <2>3, <2>6, <3>1 DEF MembersMet
  <2> QED
    BY <1>1, <1>6, <2>8, <2>9 DEF OnPlan
<1>7. CASE task.at # "idle"
  <2>1. WantedMet(g)
    BY <1>7 DEF OnPlan
  <2>2. A = R /\ attached'[g] = raced'[g]
    BY <1>4, <1>7, <2>1 DEF WantedMet
  <2>3. policies'[g].list \ attached'[g] = L \ A
    <3> HIDE DEF L, A
    <3> QED
      BY <1>3, <1>4
  <2>4. WantedMet(g)'
    BY <1>1, <1>3, <1>5, <2>1, <2>2, <2>3 DEF WantedMet
  <2>5. AddedAreListed(g) => AddedAreListed(g)'
    BY <1>1, <1>3, <1>4 DEF AddedAreListed
  <2> QED
    BY <1>1, <1>7, <2>2, <2>4, <2>5 DEF OnPlan
<1> QED
  BY <1>6, <1>7

LEMMA PolicyRequestStep ==
    ASSUME PolicyInv,
           \/ CP!LoseTask \/ CP!SaveGroup
           \/ \E g \in CP!InstanceGroups : CP!LoadGroup(g)
           \/ \E g \in CP!InstanceGroups, i \in Instances : CP!Attach(g, i) \/ CP!Detach(g, i)
           \/ \E i \in Instances : CP!Switch(i)
    PROVE  PolicyInv'
<1> USE DEF CP!Request
<1>0. PolicyTypes
  BY DEF PolicyInv
<1>1. CASE CP!LoseTask
  <2>1. UNCHANGED <<managed, policies, members, patch, attached, raced>> /\ tasks' \in Nat /\ unnoticed' = TRUE
    BY <1>0, <1>1 DEF CP!LoseTask, PolicyTypes
  <2>2. task' = task \/ task' = CP!NoTask
    BY <1>1 DEF CP!LoseTask
  <2>3. /\ task'.at \in {"idle", "read", "read_all"} /\ task'.wanted \in Plan
        /\ task' = [at |-> task'.at, wanted |-> task'.wanted, prior |-> task'.prior]
    <3>1. CASE task' = task
      BY <1>0, <3>1 DEF PolicyTypes
    <3>2. CASE task' = CP!NoTask
      BY <3>2 DEF CP!NoTask, CP!Nothing, Plan
    <3> QED
      BY <2>2, <3>1, <3>2
  <2>4. PolicyTypes'
    BY <1>0, <2>1, <2>3 DEF PolicyTypes, PolicyInputs, CP!NoPatch, Plan
  <2> QED
    BY <2>1, <2>4, SentOrKept
<1>2. CASE CP!SaveGroup
  <2>1. PICK list \in {patch.row.list, {}}, minimum \in {patch.row.minimum, 1}, percentage \in {patch.row.percentage, 0} :
          /\ patch.group = Controlplane => list = patch.row.list /\ percentage = patch.row.percentage
          /\ LET row == [list |-> list, minimum |-> minimum, percentage |-> percentage]
             IN  /\ policies' = [policies EXCEPT ![patch.group] = row]
                 /\ tasks' = IF row = patch.row THEN tasks ELSE tasks + 1
                 /\ unnoticed' = (unnoticed \/ (row = patch.row /\ row # policies[patch.group]))
    BY <1>2 DEF CP!SaveGroup
  <2> DEFINE row == [list |-> list, minimum |-> minimum, percentage |-> percentage]
  <2>2. /\ patch # CP!NoPatch /\ patch' = CP!NoPatch
        /\ UNCHANGED <<managed, members, task, attached, raced>>
    BY <1>2 DEF CP!SaveGroup
  <2>3. row \in [list : SUBSET Instances, minimum : Nat, percentage : Nat] /\ patch.group \in CP!InstanceGroups
    BY <1>0, <2>1, <2>2 DEF PolicyTypes
  <2> HIDE DEF row
  <2>4. policies' \in [CP!InstanceGroups -> [list : SUBSET Instances, minimum : Nat, percentage : Nat]]
    BY <1>0, <2>1, <2>3 DEF row, PolicyTypes, PolicyInputs
  <2>5. patch' = CP!NoPatch' /\ patch'.row \in [list : SUBSET Instances, minimum : Nat, percentage : Nat]
    BY <2>2 DEF CP!NoPatch
  <2>6. tasks' \in Nat /\ unnoticed' \in BOOLEAN
    BY <1>0, <2>1 DEF PolicyTypes
  <2>7. PolicyTypes'
    BY <1>0, <2>2, <2>4, <2>5, <2>6 DEF PolicyTypes, PolicyInputs, Plan
  <2>8. CASE row # patch.row
    <3>1. tasks' # 0
      BY <1>0, <2>1, <2>8 DEF row, PolicyTypes
    <3> QED
      BY <2>7, <3>1, SentOrKept
  <2>9. CASE row = patch.row /\ row # policies[patch.group]
    BY <2>1, <2>7, <2>9, SentOrKept DEF row
  <2>10. CASE row = patch.row /\ row = policies[patch.group]
    <3>1. tasks' = tasks /\ unnoticed' = unnoticed
      BY <1>0, <2>1, <2>10 DEF row, PolicyTypes
    <3>2. policies' = policies
      BY <1>0, <2>1, <2>3, <2>10 DEF row, PolicyTypes, PolicyInputs
    <3> QED
      BY <2>2, <2>7, <3>1, <3>2, SentOrKept
  <2> QED
    BY <2>8, <2>9, <2>10
<1>3. ASSUME NEW g \in CP!InstanceGroups, CP!LoadGroup(g) PROVE PolicyInv'
  <2>1. UNCHANGED <<managed, policies, members, tasks, task, unnoticed, attached, raced>>
    BY <1>3 DEF CP!LoadGroup
  <2>2. patch'.group \in CP!InstanceGroups /\ patch'.row \in [list : SUBSET Instances, minimum : Nat, percentage : Nat]
    BY <1>0, <1>3 DEF CP!LoadGroup, PolicyTypes, PolicyInputs
  <2>3. PolicyTypes'
    BY <1>0, <2>1, <2>2 DEF PolicyTypes, PolicyInputs, Plan
  <2> QED
    BY <2>1, <2>3, SentOrKept
<1>4. ASSUME NEW g \in CP!InstanceGroups, NEW i \in Instances, CP!Attach(g, i) \/ CP!Detach(g, i) PROVE PolicyInv'
  <2>1. UNCHANGED <<managed, patch, task, unnoticed>>
    BY <1>4 DEF CP!Attach, CP!Detach
  <2>2. PICK s \in SUBSET Instances : policies' = [policies EXCEPT ![g].list = s]
    <3>1. policies[g].list \in SUBSET Instances
      BY <1>0 DEF PolicyTypes, PolicyInputs
    <3> QED
      BY <1>4, <3>1 DEF CP!Attach, CP!Detach
  <2>3. PICK t \in SUBSET Instances : members' = [members EXCEPT ![g] = t]
    <3>1. members[g] \in SUBSET Instances
      BY <1>0 DEF PolicyTypes, Plan
    <3> QED
      BY <1>4, <3>1 DEF CP!Attach, CP!Detach
  <2>4. tasks' \in Nat /\ attached' \in Plan /\ raced' \in Plan
    <3>1. CASE CP!Attach(g, i)
      <4>1. attached' = [attached EXCEPT ![g] = @ \union ({i} \ policies[g].list)] /\ tasks' = tasks
        BY <3>1 DEF CP!Attach
      <4>2. raced' = [raced EXCEPT ![g] = @ \union IF task.at = "idle" THEN {} ELSE {i} \ policies[g].list]
        BY <3>1 DEF CP!Attach
      <4> QED
        BY <1>0, <4>1, <4>2 DEF PolicyTypes, Plan
    <3>2. CASE CP!Detach(g, i)
      BY <1>0, <3>2 DEF CP!Detach, PolicyTypes, Plan
    <3> QED
      BY <1>4, <3>1, <3>2
  <2>5. PolicyTypes'
    <3>1. members' \in Plan
      BY <1>0, <2>3 DEF PolicyTypes, Plan
    <3>2. policies' \in [CP!InstanceGroups -> [list : SUBSET Instances, minimum : Nat, percentage : Nat]]
      BY <1>0, <2>2 DEF PolicyTypes, PolicyInputs
    <3>3. patch = CP!NoPatch => patch' = CP!NoPatch'
      BY <2>1 DEF CP!NoPatch
    <3> QED
      BY <1>0, <2>1, <2>4, <3>1, <3>2, <3>3 DEF PolicyTypes, PolicyInputs, Plan
  <2>6. CASE CP!Detach(g, i)
    <3>1. tasks' # 0
      BY <1>0, <2>6 DEF CP!Detach, PolicyTypes
    <3> QED
      BY <2>5, <3>1, SentOrKept
  <2>7. CASE CP!Attach(g, i)
    <3>1. tasks' = tasks /\ unnoticed' = unnoticed
      BY <2>7 DEF CP!Attach
    <3>2. ASSUME tasks = 0, ~unnoticed, NEW h \in CP!InstanceGroups PROVE OnPlan(h)'
      BY <1>0, <2>5, <2>7, <3>2, AttachKeepsPlan DEF PolicyInv
    <3> QED
      BY <2>5, <3>1, <3>2 DEF PolicyInv
  <2> QED
    BY <1>4, <2>6, <2>7
<1>5. ASSUME NEW i \in Instances, CP!Switch(i) PROVE PolicyInv'
  <2>1. /\ managed' \subseteq Instances /\ tasks' \in Nat /\ tasks' # 0
        /\ UNCHANGED <<policies, members, patch, task, unnoticed, attached, raced>>
    BY <1>0, <1>5 DEF CP!Switch, PolicyTypes, PolicyInputs
  <2>2. patch = CP!NoPatch => patch' = CP!NoPatch'
    BY <2>1 DEF CP!NoPatch
  <2>3. PolicyTypes'
    BY <1>0, <2>1, <2>2 DEF PolicyTypes, PolicyInputs, Plan
  <2> QED
    BY <2>1, <2>3, SentOrKept
<1> QED
  BY <1>1, <1>2, <1>3, <1>4, <1>5

LEMMA PolicyStep == PolicyInv /\ [CP!Next]_policyVars => PolicyInv'
<1> SUFFICES ASSUME PolicyInv, [CP!Next]_policyVars PROVE PolicyInv'
  OBVIOUS
<1>1. CASE CP!PolicyTask
  BY <1>1, PolicyTaskStep
<1>2. CASE CP!Next /\ ~CP!PolicyTask
  BY <1>2, PolicyRequestStep DEF CP!Next
<1>3. CASE UNCHANGED policyVars
  <2>1. UNCHANGED <<managed, policies, members, patch, tasks, task, unnoticed, attached, raced>>
    BY <1>3 DEF policyVars
  <2>2. PolicyTypes'
    BY <2>1 DEF PolicyInv, PolicyTypes, PolicyInputs, Plan, CP!NoPatch
  <2> QED
    BY <2>1, <2>2, SentOrKept
<1> QED
  BY <1>1, <1>2, <1>3

LEMMA PoliciesKept == PolicyInv => CP!PoliciesHold
<1> SUFFICES ASSUME PolicyInv, tasks = 0, task.at = "idle", ~unnoticed, NEW g \in CP!InstanceGroups PROVE CP!PolicyMet(g)
  BY DEF CP!PoliciesHold
<1>1. MembersMet(g)
  BY DEF PolicyInv, OnPlan
<1> QED
  BY <1>1, PolicyCardinality DEF MembersMet, Enough, CP!PolicyMet

-----------------------------------------------------------------------------
(* The hosts of an inventory and the imports of its sources. *)

(* The inventory begins with one host for each name, under the name's        *)
(* number; primary keys do not run out.                                      *)
ImportAssumed ==
    /\ IsFiniteSet(Names) /\ Names \subseteq Ids /\ Ids \subseteq Nat \ {0}
    /\ IdSources \subseteq Sources
    /\ MaxRow \in Nat /\ 3 * Cardinality(Names) <= MaxRow /\ Names \subseteq 1 .. MaxRow

HostRow == [name : Names, instance_id : Ids \union {0}, variable : Ids \union {0}, sources : SUBSET Sources]
GoodHosts(H) ==
    /\ DOMAIN H \subseteq II!Rows /\ H = [p \in DOMAIN H |-> H[p]]
    /\ \A p \in DOMAIN H : H[p] \in HostRow
    /\ \A p, q \in DOMAIN H : H[p].name = H[q].name => p = q

(* The matches with the hosts H. *)
VariableIn(H, s, id) ==
    IF s \notin IdSources THEN {}
    ELSE LET found == {p \in II!HostsOf(H, s) : H[p].instance_id = 0 /\ H[p].variable = id}
         IN  IF found = {} THEN {} ELSE {II!Last(H, found)}
ClaimedIn(H, s, id) ==
    IF id = 0 THEN {}
    ELSE IF VariableIn(H, s, id) # {} THEN VariableIn(H, s, id)
    ELSE {p \in DOMAIN H : H[p].instance_id = id}
Namesakes(H, s, d, n) ==
    {p \in DOMAIN H \ UNION {ClaimedIn(H, s, d[m].id) : m \in II!ListedNames(d)} : H[p].name = n}
MatchIn(H, s, d) ==
    [n \in Names |-> IF n \notin II!ListedNames(d) THEN 0
                     ELSE IF Namesakes(H, s, d, n) # {} THEN CHOOSE p \in Namesakes(H, s, d, n) : TRUE
                     ELSE IF ClaimedIn(H, s, d[n].id) # {} THEN II!Last(H, ClaimedIn(H, s, d[n].id)) ELSE 0]

LEMMA MatchNow ==
    /\ \A s, id : II!ByVariable(s, id) = VariableIn(hosts, s, id)
    /\ \A s, d : II!Match(s, d) = MatchIn(hosts, s, d)
<1>1. \A s, id : II!ByVariable(s, id) = VariableIn(hosts, s, id)
  BY DEF II!ByVariable, VariableIn, II!NoId
<1>2. \A s, id : II!Claimed(s, id) = ClaimedIn(hosts, s, id)
  BY <1>1 DEF II!Claimed, ClaimedIn, II!NoId, II!Existing
<1>3. ASSUME NEW s, NEW d PROVE II!Match(s, d) = MatchIn(hosts, s, d)
  <2> DEFINE listed == {n \in Names : d[n].listed}
             claimed == UNION {II!Claimed(s, d[n].id) : n \in listed}
             namesake(n) == {p \in DOMAIN hosts \ claimed : hosts[p].name = n}
  <2>1. II!Match(s, d) = [n \in Names |->
           IF n \notin listed THEN 0
           ELSE IF namesake(n) # {} THEN CHOOSE p \in namesake(n) : TRUE
           ELSE IF II!Claimed(s, d[n].id) # {} THEN II!Last(hosts, II!Claimed(s, d[n].id)) ELSE 0]
    BY DEF II!Match, II!Existing, II!NoRow
  <2>2. claimed = UNION {ClaimedIn(hosts, s, d[m].id) : m \in II!ListedNames(d)} /\ listed = II!ListedNames(d)
    BY <1>2 DEF II!ListedNames
  <2> HIDE DEF claimed, listed
  <2>3. \A n : namesake(n) = Namesakes(hosts, s, d, n)
    BY <2>2 DEF Namesakes
  <2> HIDE DEF namesake
  <2> QED
    BY <1>2, <2>1, <2>2, <2>3 DEF MatchIn
<1> QED
  BY <1>1, <1>3

LEMMA ListingFacts ==
    ASSUME ImportAssumed, NEW s, NEW d \in II!Listings(s)
    PROVE  /\ \A n \in Names : d[n].id \in Ids \union {0} /\ d[n].grouped \in BOOLEAN /\ d[n].listed \in BOOLEAN
           /\ \A n \in Names : d[n].id # 0 \/ d[n].grouped => d[n].listed
           /\ \A n \in Names : d[n].grouped /\ d[n].id = 0 => d[n] \in [listed : {TRUE}, id : {0}, grouped : {TRUE}]
           /\ \A m, n \in Names : d[m].id = d[n].id /\ d[m].id # 0 => m = n
           /\ s \notin IdSources => \A n \in Names : d[n].id = 0
<1> DEFINE ids == IF s \in IdSources THEN Ids \union {0} ELSE {0}
<1>1. /\ d \in [Names -> {II!Unlisted} \union [listed : {TRUE}, id : ids, grouped : BOOLEAN]]
      /\ \A m, n \in Names : m # n /\ d[m].id # 0 => d[m].id # d[n].id
  BY DEF II!Listings, II!NoId
<1>2. II!Unlisted = [listed |-> FALSE, id |-> 0, grouped |-> FALSE]
  BY DEF II!Unlisted, II!NoId
<1>4. ids \subseteq Ids \union {0}
  OBVIOUS
<1> HIDE DEF ids
<1>3. ASSUME NEW n \in Names
      PROVE  \/ d[n].listed = FALSE /\ d[n].id = 0 /\ d[n].grouped = FALSE
             \/ /\ d[n] \in [listed : {TRUE}, id : ids, grouped : BOOLEAN]
                /\ d[n].listed = TRUE /\ d[n].id \in ids /\ d[n].grouped \in BOOLEAN
  <2>1. CASE d[n] = II!Unlisted
    BY <1>2, <2>1
  <2>2. CASE d[n] \in [listed : {TRUE}, id : ids, grouped : BOOLEAN]
    BY <2>2
  <2> QED
    BY <1>1, <2>1, <2>2
<1>5. \A n \in Names : d[n].grouped /\ d[n].id = 0 => d[n] \in [listed : {TRUE}, id : {0}, grouped : {TRUE}]
  BY <1>3
<1> QED
  BY <1>1, <1>3, <1>4, <1>5 DEF ids

LEMMA LastFacts ==
    ASSUME ImportAssumed, NEW H, GoodHosts(H), NEW S \in SUBSET DOMAIN H, S # {}
    PROVE  II!Last(H, S) \in S
<1> DEFINE T == {MaxRow - H[p].name : p \in S}
<1>1. \A p \in S : H[p].name \in Nat /\ H[p].name <= MaxRow
  BY DEF GoodHosts, HostRow, ImportAssumed
<1>2. T \in SUBSET Nat /\ T # {}
  BY <1>1 DEF ImportAssumed
<1>3. PICK n \in T : \A m \in T : n <= m
  BY <1>2, LeastNat
<1>4. PICK p \in S : n = MaxRow - H[p].name
  OBVIOUS
<1>5. ASSUME NEW q \in S PROVE H[p].name >= H[q].name
  <2>1. MaxRow - H[q].name \in T
    OBVIOUS
  <2>2. MaxRow - H[p].name <= MaxRow - H[q].name
    BY <1>3, <1>4, <2>1
  <2> QED
    BY <1>1, <2>2 DEF ImportAssumed
<1> QED
  BY <1>5 DEF II!Last

LEMMA ClaimedFacts ==
    ASSUME ImportAssumed, NEW H, GoodHosts(H), NEW s, NEW id \in Ids \union {0}
    PROVE  /\ ClaimedIn(H, s, id) \subseteq DOMAIN H
           /\ ClaimedIn(H, s, id) # {} => II!Last(H, ClaimedIn(H, s, id)) \in ClaimedIn(H, s, id)
           /\ \A p \in ClaimedIn(H, s, id) :
                 /\ id # 0
                 /\ \/ H[p].instance_id = id
                    \/ s \in IdSources /\ s \in H[p].sources /\ H[p].instance_id = 0 /\ H[p].variable = id
           /\ \A p \in VariableIn(H, s, id) : H[p].instance_id = 0 /\ H[p].variable = id /\ p \in DOMAIN H /\ s \in H[p].sources
<1> DEFINE found == {p \in II!HostsOf(H, s) : H[p].instance_id = 0 /\ H[p].variable = id}
<1>1. found \in SUBSET DOMAIN H /\ \A p \in found : s \in H[p].sources
  BY DEF II!HostsOf
<1>2. \A p \in VariableIn(H, s, id) : p \in found /\ s \in IdSources
  BY <1>1, LastFacts DEF VariableIn
<1>3. ClaimedIn(H, s, id) \subseteq DOMAIN H
  BY <1>1, <1>2 DEF ClaimedIn
<1>4. \A p \in ClaimedIn(H, s, id) :
                 /\ id # 0
                 /\ \/ H[p].instance_id = id
                    \/ s \in IdSources /\ s \in H[p].sources /\ H[p].instance_id = 0 /\ H[p].variable = id
  BY <1>1, <1>2 DEF ClaimedIn
<1> QED
  BY <1>1, <1>2, <1>3, <1>4, LastFacts

(* What a match of a listed name is.                                         *)
LEMMA MatchFacts ==
    ASSUME ImportAssumed, NEW H, GoodHosts(H), NEW s, NEW d \in II!Listings(s)
    PROVE  \A n \in Names :
              LET p == MatchIn(H, s, d)[n]
              IN  \/ p = 0
                  \/ /\ d[n].listed /\ p \in DOMAIN H
                     /\ \/ /\ H[p].name = n
                           /\ \A m \in Names : p \notin ClaimedIn(H, s, d[m].id)
                        \/ p \in ClaimedIn(H, s, d[n].id)
<1> TAKE n \in Names
<1> DEFINE p == MatchIn(H, s, d)[n]
<1>1. n \notin II!ListedNames(d) => p = 0
  BY DEF MatchIn
<1>2. ASSUME n \in II!ListedNames(d), Namesakes(H, s, d, n) # {}
      PROVE  p \in DOMAIN H /\ H[p].name = n /\ \A m \in Names : p \notin ClaimedIn(H, s, d[m].id)
  <2>1. p \in Namesakes(H, s, d, n)
    BY <1>2 DEF MatchIn
  <2>2. ASSUME NEW m \in Names, p \in ClaimedIn(H, s, d[m].id) PROVE m \in II!ListedNames(d)
    BY <2>2, ClaimedFacts, ListingFacts DEF II!ListedNames
  <2> QED
    BY <2>1, <2>2 DEF Namesakes
<1>3. ASSUME n \in II!ListedNames(d), Namesakes(H, s, d, n) = {}, p # 0
      PROVE  p \in ClaimedIn(H, s, d[n].id) /\ p \in DOMAIN H
  <2>1. p = II!Last(H, ClaimedIn(H, s, d[n].id)) /\ ClaimedIn(H, s, d[n].id) # {}
    BY <1>3 DEF MatchIn
  <2>2. d[n].id \in Ids \union {0}
    BY ListingFacts
  <2>3. ClaimedIn(H, s, d[n].id) \subseteq DOMAIN H /\ II!Last(H, ClaimedIn(H, s, d[n].id)) \in ClaimedIn(H, s, d[n].id)
    BY <2>1, <2>2, ClaimedFacts
  <2> QED
    BY <2>1, <2>3
<1> QED
  BY <1>1, <1>2, <1>3 DEF II!ListedNames

(* Two names have no common match, and a row that an id claims matches       *)
(* nothing but that id's name.                                               *)
LEMMA MatchInjective ==
    ASSUME ImportAssumed, NEW H, GoodHosts(H), NEW s, NEW d \in II!Listings(s), NEW M, M = MatchIn(H, s, d)
    PROVE  /\ \A n \in Names : M[n] = 0 \/ (M[n] \in DOMAIN H /\ M[n] \in II!Rows /\ d[n].listed)
           /\ \A m, n \in Names : M[m] = M[n] /\ M[m] # 0 => m = n
           /\ \A m, n \in Names : M[n] \in ClaimedIn(H, s, d[m].id) /\ M[n] # 0 => m = n
<1>0. GoodHosts(H) /\ \A n \in Names : d[n].id \in Ids \union {0}
  BY ListingFacts
<1>1. DOMAIN H \subseteq II!Rows
  BY DEF GoodHosts
<1>2. \A n \in Names : \/ M[n] = 0
                       \/ /\ d[n].listed /\ M[n] \in DOMAIN H
                          /\ \/ /\ H[M[n]].name = n
                                /\ \A m \in Names : M[n] \notin ClaimedIn(H, s, d[m].id)
                             \/ M[n] \in ClaimedIn(H, s, d[n].id)
  BY MatchFacts
<1>3. ASSUME NEW m \in Names, NEW n \in Names, NEW p, p \in ClaimedIn(H, s, d[m].id), p \in ClaimedIn(H, s, d[n].id)
      PROVE  m = n
  <2>1. /\ d[m].id \in Ids \union {0} /\ d[n].id \in Ids \union {0}
    BY <1>0
  <2>2. d[m].id # 0 /\ d[n].id # 0 /\ d[m].id = d[n].id
    BY <1>3, <2>1, ClaimedFacts
  <2> QED
    BY <2>2, ListingFacts
<1>4. \A m, n \in Names : M[n] \in ClaimedIn(H, s, d[m].id) /\ M[n] # 0 => m = n
  BY <1>2, <1>3
<1>5. ASSUME NEW m \in Names, NEW n \in Names, M[m] = M[n], M[m] # 0 PROVE m = n
  <2>1. CASE \E k \in Names : M[m] \in ClaimedIn(H, s, d[k].id)
    BY <1>4, <1>5, <2>1
  <2>2. CASE \A k \in Names : M[m] \notin ClaimedIn(H, s, d[k].id)
    BY <1>2, <1>5, <2>2
  <2> QED
    BY <2>1, <2>2
<1> QED
  BY <1>1, <1>2, <1>4, <1>5

(* Without ids the names decide. *)
LEMMA MatchByName ==
    ASSUME ImportAssumed, NEW H, GoodHosts(H), NEW s, s \notin IdSources, NEW d \in II!Listings(s),
           NEW p \in DOMAIN H, d[H[p].name].listed
    PROVE  MatchIn(H, s, d)[H[p].name] = p
<1> DEFINE n == H[p].name
<1>1. n \in Names /\ \A q \in DOMAIN H : H[q].name = n => q = p
  BY DEF GoodHosts, HostRow
<1>2. \A m \in Names : ClaimedIn(H, s, d[m].id) = {}
  BY ListingFacts DEF ClaimedIn
<1>3. \A m \in II!ListedNames(d) : ClaimedIn(H, s, d[m].id) = {}
  BY <1>2 DEF II!ListedNames
<1>4. UNION {ClaimedIn(H, s, d[m].id) : m \in II!ListedNames(d)} = {}
  BY <1>3
<1>5. Namesakes(H, s, d, n) = {p}
  BY <1>1, <1>4 DEF Namesakes
<1>6. n \in II!ListedNames(d)
  BY <1>1 DEF II!ListedNames
<1> QED
  BY <1>1, <1>5, <1>6 DEF MatchIn

(* The one that bears an id is what the id finds.                            *)
LEMMA MatchById ==
    ASSUME ImportAssumed, NEW H, GoodHosts(H), NEW s, NEW d \in II!Listings(s),
           NEW n \in Names, d[n].id # 0, NEW p \in DOMAIN H,
           \A q \in DOMAIN H : II!HasId(s, H[q], d[n].id) <=> q = p,
           \A q \in DOMAIN H : H[q].name = n => q = p
    PROVE  MatchIn(H, s, d)[n] = p
<1> DEFINE id == d[n].id
<1>1. id \in Ids /\ n \in II!ListedNames(d) /\ s \in IdSources
  <2>1. d[n].id \in Ids \union {0} /\ (s \notin IdSources => d[n].id = 0)
    BY ListingFacts
  <2>2. d[n].listed
    BY ListingFacts
  <2> QED
    BY <2>1, <2>2 DEF II!ListedNames
<1>2. \A q \in ClaimedIn(H, s, id) : q = p
  BY <1>1, ClaimedFacts DEF II!HasId, II!NoId
<1>3. p \in ClaimedIn(H, s, id)
  <2>1. CASE VariableIn(H, s, id) # {}
    BY <1>1, <1>2, <2>1 DEF ClaimedIn, ImportAssumed
  <2>2. CASE VariableIn(H, s, id) = {}
    <3>1. II!HasId(s, H[p], id)
      OBVIOUS
    <3>2. \A q \in II!HostsOf(H, s) : ~(H[q].instance_id = 0 /\ H[q].variable = id)
      BY <1>1, <2>2 DEF VariableIn
    <3>3. H[p].instance_id = id
      BY <3>1, <3>2 DEF II!HasId, II!HostsOf, II!NoId
    <3> QED
      BY <1>1, <2>2, <3>3 DEF ClaimedIn, ImportAssumed
  <2> QED
    BY <2>1, <2>2
<1>4. Namesakes(H, s, d, n) = {}
  BY <1>1, <1>3 DEF Namesakes
<1>5. II!Last(H, ClaimedIn(H, s, id)) = p
  BY <1>1, <1>2, <1>3, ClaimedFacts
<1> HIDE DEF id
<1>6. ClaimedIn(H, s, id) # {}
  BY <1>3
<1> QED
  BY <1>1, <1>4, <1>5, <1>6 DEF MatchIn, id

(* Who is neither listed by name nor by id, and not of the source, matches   *)
(* nothing.                                                                  *)
LEMMA UnlistedUnmatched ==
    ASSUME ImportAssumed, NEW H, GoodHosts(H), NEW s, NEW d \in II!Listings(s),
           NEW p \in DOMAIN H, s \notin H[p].sources, ~d[H[p].name].listed,
           \A n \in Names : d[n].id = 0 \/ d[n].id # H[p].instance_id
    PROVE  \A n \in Names : MatchIn(H, s, d)[n] # p
<1> TAKE n \in Names
<1>1. p # 0
  BY DEF GoodHosts, II!Rows
<1>2. p \notin ClaimedIn(H, s, d[n].id)
  <2>1. d[n].id \in Ids \union {0}
    BY ListingFacts
  <2> QED
    BY <2>1, ClaimedFacts
<1> QED
  BY <1>1, <1>2, MatchFacts

(* There are rows for whatever is to be created. *)
FreeRows(H, M) == II!Rows \ (DOMAIN H \union {M[n] : n \in Names})
LEMMA RowsSuffice ==
    ASSUME ImportAssumed, NEW H, GoodHosts(H), NEW M, NEW created \in SUBSET Names,
           \A n \in Names : M[n] \in II!Rows \union {0}
    PROVE  Injectable(created, FreeRows(H, M))
<1> DEFINE matches == {M[n] : n \in Names}
           used == DOMAIN H \union matches
           free == II!Rows \ used
           c == Cardinality(Names)
<1>1. /\ IsFiniteSet(II!Rows) /\ Cardinality(II!Rows) = MaxRow /\ MaxRow \in Nat /\ IsFiniteSet(Names)
      /\ c \in Nat /\ 3 * c <= MaxRow
  <2>1. /\ MaxRow \in Nat /\ IsFiniteSet(Names) /\ c \in Nat /\ 3 * c <= MaxRow
    BY FS_CardinalityType DEF ImportAssumed
  <2>2. IsFiniteSet(1 .. MaxRow) /\ Cardinality(1 .. MaxRow) = IF 1 > MaxRow THEN 0 ELSE MaxRow - 1 + 1
    BY <2>1, FS_Interval
  <2> QED
    BY <2>1, <2>2 DEF II!Rows
<1>2. IsFiniteSet(DOMAIN H) /\ Cardinality(DOMAIN H) \in Nat /\ Cardinality(DOMAIN H) <= c
  <2> DEFINE name == [p \in DOMAIN H |-> H[p].name]
  <2>1. name \in Injection(DOMAIN H, Names)
    BY DEF Injection, IsInjective, GoodHosts, HostRow
  <2> HIDE DEF name
  <2> QED
    BY <1>1, <2>1, FS_Injection, FS_CardinalityType
<1>3. IsFiniteSet(matches) /\ Cardinality(matches) \in Nat /\ Cardinality(matches) <= c
  <2> DEFINE f == [n \in Names |-> M[n]]
  <2>1. f \in Surjection(Names, matches)
    BY DEF Surjection
  <2> HIDE DEF f, matches
  <2> QED
    BY <1>1, <2>1, FS_Surjection, FS_CardinalityType
<1> HIDE DEF matches, c
<1>4. IsFiniteSet(used) /\ Cardinality(used) \in Nat /\ Cardinality(used) <= 2 * c
  <2>1. Cardinality(DOMAIN H \intersect matches) \in Nat
    BY <1>2, FS_Intersection, FS_CardinalityType
  <2>2. IsFiniteSet(used) /\ Cardinality(used) = Cardinality(DOMAIN H) + Cardinality(matches) - Cardinality(DOMAIN H \intersect matches)
    BY <1>2, <1>3, FS_Union
  <2>3. Cardinality(used) \in Nat
    BY <2>2, FS_CardinalityType
  <2> QED
    BY <1>1, <1>2, <1>3, <2>1, <2>2, <2>3
<1> HIDE DEF used
<1>5. IsFiniteSet(free) /\ Cardinality(free) >= c
  <2>1. IsFiniteSet(free) /\ Cardinality(free) = MaxRow - Cardinality(II!Rows \intersect used)
    BY <1>1, FS_Difference
  <2>2. Cardinality(II!Rows \intersect used) \in Nat /\ Cardinality(II!Rows \intersect used) <= Cardinality(used)
    BY <1>4, FS_Intersection, FS_CardinalityType
  <2> QED
    BY <1>1, <1>4, <2>1, <2>2
<1>6. IsFiniteSet(created) /\ Cardinality(created) \in Nat /\ Cardinality(created) <= c
  BY <1>1, FS_Subset, FS_CardinalityType DEF c
<1>7. Cardinality(created) <= Cardinality(free)
  BY <1>1, <1>5, <1>6, FS_CardinalityType
<1>8. Injectable(created, free)
  BY <1>5, <1>6, <1>7, FitsInto
<1> QED
  BY <1>8 DEF used, matches, FreeRows

(* The update that has the lock was matched with hosts that users may have   *)
(* deleted or created since, but in no other way changed.                    *)
MatchedWith(H) ==
    LET s == update.source
        d == update.data
    IN  /\ GoodHosts(H)
        /\ update.match = MatchIn(H, s, d)
        /\ update.byVariable = UNION {VariableIn(H, s, id) : id \in {d[n].id : n \in Names} \ {0}}
        /\ update.edits = hostEdits => hosts = H
        /\ \A p \in DOMAIN hosts :
              \/ p \in DOMAIN H /\ hosts[p] = H[p]
              \/ /\ hosts[p].sources = {} /\ hosts[p].instance_id = 0
                 /\ \A n \in Names : update.match[n] # p
UpdateInv ==
    /\ update.source \in Sources /\ update.data \in II!Listings(update.source)
    /\ update.edits \in Nat /\ update.edits <= hostEdits
    /\ \E H : MatchedWith(H)

ImportInv ==
    /\ ImportAssumed
    /\ GoodHosts(hosts)
    /\ options \in [overwrite : BOOLEAN, overwrite_vars : BOOLEAN]
    /\ group \in [exists : BOOLEAN, sources : SUBSET Sources]
    /\ hostEdits \in Nat
    /\ update # II!NoUpdate => UpdateInv
    /\ II!ImportedAsListed /\ II!IdsFollowed /\ II!OthersLeftAlone

LEMMA ImportInit == ASSUME ImportAssumed, II!Init PROVE ImportInv
<1>1. hosts = [p \in Names |-> [name |-> p, instance_id |-> p, variable |-> p, sources |-> IdSources]]
  BY DEF II!Init
<1>2. \A p \in Names : p \in II!Rows /\ hosts[p] \in HostRow /\ hosts[p].name = p
  BY <1>1 DEF HostRow, ImportAssumed, II!Rows
<1>3. GoodHosts(hosts)
  BY <1>1, <1>2 DEF GoodHosts
<1>4. group \in [exists : BOOLEAN, sources : SUBSET Sources]
  BY DEF II!Init, ImportAssumed
<1>5. II!ImportedAsListed /\ II!IdsFollowed /\ II!OthersLeftAlone
  BY DEF II!Init, II!ImportedAsListed, II!IdsFollowed, II!OthersLeftAlone
<1> QED
  BY <1>3, <1>4, <1>5 DEF II!Init, ImportInv

(* The rows after an import. *)
LEMMA LoadedRows ==
    ASSUME ImportInv, II!Load
    PROVE  LET s == update.source
               d == update.data
               M == update.match
               Matched == II!Matched(update)
               Remaining == II!Remaining(s, update)
               Missing == II!ToCreate(update)
               Now == DOMAIN hosts'
           IN  /\ Matched \subseteq Remaining /\ Remaining \subseteq DOMAIN hosts /\ Remaining \subseteq Now
               /\ Now \subseteq II!Rows /\ hosts' = [p \in Now |-> hosts'[p]] /\ Now \intersect DOMAIN hosts = Remaining
               /\ \A p \in Now : hosts'[p] \in HostRow
               /\ \A p \in Matched : \E n \in Names :
                     M[n] = p /\ hosts'[p].name = n /\ hosts'[p].instance_id = d[n].id /\ s \in hosts'[p].sources
               /\ \A p \in Remaining \ Matched :
                     IF hosts[p].name \in Missing
                     THEN /\ hosts'[p].name = hosts[p].name /\ s \in hosts'[p].sources
                          /\ hosts'[p].instance_id = IF s \in IdSources THEN d[hosts[p].name].id ELSE hosts[p].instance_id
                     ELSE hosts'[p] = hosts[p]
               /\ \A p \in Now \ Remaining :
                     /\ hosts'[p].name \in Missing /\ \A q \in Remaining \ Matched : hosts[q].name # hosts'[p].name
                     /\ hosts'[p].instance_id = d[hosts'[p].name].id /\ s \in hosts'[p].sources
               /\ \A n \in Missing : \E p \in Now : p \notin Matched /\ hosts'[p].name = n
               /\ \A p, q \in Now \ Remaining : hosts'[p].name = hosts'[q].name => p = q
<1> DEFINE s == update.source
           d == update.data
           M == update.match
           Matched == II!Matched(update)
           R == II!Remaining(s, update)
           Missing == II!ToCreate(update)
<1>0. /\ ImportAssumed /\ GoodHosts(hosts)
      /\ update # II!NoUpdate /\ ~II!Clash(s, update) /\ hosts' = II!NewRows(s, update)
      /\ s \in Sources /\ d \in II!Listings(s)
  BY DEF ImportInv, UpdateInv, II!Load
<1>1. PICK H : MatchedWith(H)
  BY <1>0 DEF ImportInv, UpdateInv
<1>2. GoodHosts(H) /\ M = MatchIn(H, s, d)
  BY <1>1 DEF MatchedWith
<1>3. /\ \A n \in Names : M[n] = 0 \/ (M[n] \in II!Rows /\ d[n].listed)
      /\ \A m, n \in Names : M[m] = M[n] /\ M[m] # 0 => m = n
  BY <1>0, <1>2, MatchInjective
<1>4. \A n \in Names : d[n].id \in Ids \union {0}
  BY <1>0, ListingFacts
<1>5. /\ DOMAIN hosts \subseteq II!Rows /\ 0 \notin DOMAIN hosts
      /\ \A p \in DOMAIN hosts : hosts[p] \in HostRow /\ hosts[p].name \in Names
  BY <1>0 DEF GoodHosts, II!Rows, HostRow
<1>6. ASSUME NEW p \in Matched
      PROVE  /\ p \in DOMAIN hosts /\ II!NewName(update, p) \in Names /\ M[II!NewName(update, p)] = p
  <2>1. p \in DOMAIN hosts /\ \E n \in Names : M[n] = p
    BY DEF II!Matched, II!Existing
  <2> QED
    BY <2>1 DEF II!NewName
<1>7. Matched \subseteq R /\ R \subseteq DOMAIN hosts
  BY DEF II!Matched, II!Remaining, II!Existing
<1>8. Missing = {n \in Names : d[n].listed /\ M[n] \notin DOMAIN hosts}
  BY DEF II!ToCreate, II!ListedNames, II!Existing
<1> DEFINE free == II!Rows \ (DOMAIN hosts \union {M[n] : n \in Names})
           taken == {p \in R \ Matched : hosts[p].name \in Missing}
           created == Missing \ {hosts[p].name : p \in taken}
           place == CHOOSE f \in [created -> free] : \A m, n \in created : m # n => f[m] # f[n]
           fresh == {place[n] : n \in created}
           id(p) == d[hosts[p].name].id
           rows == [p \in R \union fresh |->
                IF p \in Matched THEN II!Updated(hosts[p], II!NewName(update, p), d[II!NewName(update, p)].id, s)
                ELSE IF p \in taken
                THEN [hosts[p] EXCEPT !.instance_id = IF s \in IdSources THEN id(p) ELSE @, !.variable = id(p), !.sources = @ \union {s}]
                ELSE IF p \in fresh
                THEN LET n == CHOOSE m \in created : place[m] = p
                     IN  [name |-> n, instance_id |-> d[n].id, variable |-> d[n].id, sources |-> {s}]
                ELSE hosts[p]]
<1>9. hosts' = rows
  BY <1>0 DEF II!NewRows, II!Existing, II!OldName
<1>10. place \in [created -> free] /\ \A m, n \in created : m # n => place[m] # place[n]
  <2>1. \A n \in Names : M[n] \in II!Rows \union {0}
    BY <1>3
  <2>2. created \in SUBSET Names
    BY <1>8
  <2>5. free = FreeRows(hosts, M)
    BY DEF FreeRows
  <2> HIDE DEF created, M, free
  <2>3. ImportAssumed /\ GoodHosts(hosts)
    BY <1>0
  <2>4. Injectable(created, FreeRows(hosts, M))
    BY <2>1, <2>2, <2>3, RowsSuffice
  <2> QED
    BY <2>4, <2>5 DEF Injectable
<1> HIDE DEF Matched, R, Missing, place
<1>11. created \subseteq Names /\ \A n \in created : place[n] \in II!Rows \ DOMAIN hosts
  BY <1>8, <1>10
<1>12. fresh \subseteq II!Rows \ DOMAIN hosts
  BY <1>11
<1>13. ASSUME NEW p \in Matched
       PROVE  /\ hosts'[p] \in HostRow
              /\ \E n \in Names : M[n] = p /\ hosts'[p].name = n /\ hosts'[p].instance_id = d[n].id /\ s \in hosts'[p].sources
  <2> DEFINE n == II!NewName(update, p)
  <2>1. n \in Names /\ M[n] = p /\ p \in R /\ hosts[p] \in HostRow /\ d[n].id \in Ids \union {0}
    BY <1>4, <1>5, <1>6, <1>7
  <2>2. hosts'[p] = II!Updated(hosts[p], n, d[n].id, s)
    BY <1>9, <2>1
  <2> HIDE DEF n, s
  <2>3. hosts'[p] = [name |-> n, instance_id |-> d[n].id, sources |-> hosts[p].sources \union {s},
                     variable |-> IF options.overwrite_vars \/ d[n].id # 0 THEN d[n].id ELSE hosts[p].variable]
    BY <2>2 DEF II!Updated, II!NoId
  <2> QED
    BY <1>0, <2>1, <2>3 DEF HostRow
<1>14. ASSUME NEW p \in taken
       PROVE  /\ hosts'[p] \in HostRow /\ p \in R \ Matched /\ hosts[p].name \in Missing
              /\ hosts'[p].name = hosts[p].name /\ s \in hosts'[p].sources
              /\ hosts'[p].instance_id = IF s \in IdSources THEN d[hosts[p].name].id ELSE hosts[p].instance_id
  <2>1. p \in R \ Matched /\ hosts[p] \in HostRow /\ id(p) \in Ids \union {0} /\ hosts[p].name \in Missing
    BY <1>4, <1>5, <1>7
  <2>2. hosts'[p] = [hosts[p] EXCEPT !.instance_id = IF s \in IdSources THEN id(p) ELSE @, !.variable = id(p), !.sources = @ \union {s}]
    BY <1>9, <2>1
  <2>4. hosts[p] = [name |-> hosts[p].name, instance_id |-> hosts[p].instance_id, variable |-> hosts[p].variable,
                    sources |-> hosts[p].sources]
    BY <2>1 DEF HostRow
  <2> HIDE DEF id, s
  <2>5. hosts'[p] = [name |-> hosts[p].name, instance_id |-> IF s \in IdSources THEN id(p) ELSE hosts[p].instance_id,
                     variable |-> id(p), sources |-> hosts[p].sources \union {s}]
    BY <2>2, <2>4
  <2>3. /\ hosts'[p] \in HostRow /\ hosts'[p].name = hosts[p].name /\ s \in hosts'[p].sources
        /\ hosts'[p].instance_id = IF s \in IdSources THEN id(p) ELSE hosts[p].instance_id
    BY <1>0, <2>1, <2>5 DEF HostRow
  <2> QED
    BY <2>1, <2>3 DEF id
<1>15. ASSUME NEW p \in fresh
       PROVE  \E n \in created : place[n] = p /\ hosts'[p] = [name |-> n, instance_id |-> d[n].id, variable |-> d[n].id, sources |-> {s}]
  <2> DEFINE n == CHOOSE m \in created : place[m] = p
  <2>1. n \in created /\ place[n] = p
    OBVIOUS
  <2>2. p \notin R /\ p \notin Matched /\ p \notin taken
    BY <1>7, <1>12
  <2>3. hosts'[p] = [name |-> n, instance_id |-> d[n].id, variable |-> d[n].id, sources |-> {s}]
    BY <1>9, <2>2
  <2> HIDE DEF n
  <2> QED
    BY <2>1, <2>3
<1>16. ASSUME NEW p \in R \ Matched, p \notin taken PROVE hosts'[p] = hosts[p] /\ hosts[p].name \notin Missing
  BY <1>7, <1>9, <1>12, <1>16
<1>17. DOMAIN hosts' = R \union fresh /\ hosts' = [p \in DOMAIN hosts' |-> hosts'[p]]
  BY <1>9
<1> HIDE DEF rows, taken, fresh
<1>18. ASSUME NEW p \in DOMAIN hosts' \ R
       PROVE  /\ hosts'[p] \in HostRow
              /\ hosts'[p].name \in created /\ place[hosts'[p].name] = p
              /\ hosts'[p].instance_id = d[hosts'[p].name].id /\ s \in hosts'[p].sources
  <2>1. PICK n \in created : place[n] = p /\ hosts'[p] = [name |-> n, instance_id |-> d[n].id, variable |-> d[n].id, sources |-> {s}]
    BY <1>15, <1>17
  <2>2. n \in Names /\ d[n].id \in Ids \union {0}
    BY <1>4, <1>11
  <2> QED
    BY <1>0, <2>1, <2>2 DEF HostRow
<1>19. \A p \in R \ Matched : IF hosts[p].name \in Missing THEN p \in taken ELSE p \notin taken
  BY DEF taken
<1>20. created = Missing \ {hosts[p].name : p \in taken}
  OBVIOUS
<1> HIDE DEF created
<1>21. \A p \in DOMAIN hosts' \ R : \A q \in R \ Matched : hosts[q].name # hosts'[p].name
  BY <1>18, <1>19, <1>20
<1>22. \A p \in DOMAIN hosts' : hosts'[p] \in HostRow
  BY <1>5, <1>7, <1>13, <1>14, <1>16, <1>18
<1>23. ASSUME NEW n \in Missing PROVE \E p \in DOMAIN hosts' : p \notin Matched /\ hosts'[p].name = n
  <2>1. CASE n \in created
    <3>1. place[n] \in fresh /\ place[n] \notin Matched
      BY <1>7, <1>11, <2>1 DEF fresh
    <3>2. \E m \in created : place[m] = place[n] /\ hosts'[place[n]] = [name |-> m, instance_id |-> d[m].id, variable |-> d[m].id, sources |-> {s}]
      BY <1>15, <3>1
    <3>3. hosts'[place[n]].name = n
      BY <1>10, <2>1, <3>2
    <3> QED
      BY <1>17, <3>1, <3>3
  <2>2. CASE n \notin created
    <3>1. PICK p \in taken : hosts[p].name = n
      BY <1>20, <2>2
    <3> QED
      BY <1>14, <1>17, <3>1
  <2> QED
    BY <2>1, <2>2
<1>24. \A p, q \in DOMAIN hosts' \ R : hosts'[p].name = hosts'[q].name => p = q
  BY <1>18
<1>25. \A p \in R \ Matched :
                     IF hosts[p].name \in Missing
                     THEN /\ hosts'[p].name = hosts[p].name /\ s \in hosts'[p].sources
                          /\ hosts'[p].instance_id = IF s \in IdSources THEN d[hosts[p].name].id ELSE hosts[p].instance_id
                     ELSE hosts'[p] = hosts[p]
  BY <1>14, <1>16, <1>19
<1>26. /\ R \subseteq DOMAIN hosts' /\ DOMAIN hosts' \subseteq II!Rows /\ DOMAIN hosts' \intersect DOMAIN hosts = R
  BY <1>5, <1>7, <1>12, <1>17
<1>27. \A p \in DOMAIN hosts' \ R : hosts'[p].name \in Missing
  BY <1>18, <1>20
<1> HIDE DEF s, d, M
<1>28. /\ Matched \subseteq R /\ R \subseteq DOMAIN hosts /\ R \subseteq DOMAIN hosts'
       /\ DOMAIN hosts' \subseteq II!Rows /\ hosts' = [p \in DOMAIN hosts' |-> hosts'[p]] /\ DOMAIN hosts' \intersect DOMAIN hosts = R
  BY <1>7, <1>17, <1>26
<1>29. \A p \in DOMAIN hosts' \ R :
           /\ hosts'[p].name \in Missing /\ \A q \in R \ Matched : hosts[q].name # hosts'[p].name
           /\ hosts'[p].instance_id = d[hosts'[p].name].id /\ s \in hosts'[p].sources
  BY <1>18, <1>21, <1>27
<1> QED
  BY <1>13, <1>22, <1>23, <1>24, <1>25, <1>28, <1>29 DEF s, d, M, Matched, R, Missing

(* The names stay unique. *)
LEMMA LoadedHosts == ASSUME ImportInv, II!Load PROVE GoodHosts(hosts')
<1> DEFINE s == update.source
           d == update.data
           M == update.match
           Matched == II!Matched(update)
           R == II!Remaining(s, update)
           Missing == II!ToCreate(update)
           Now == DOMAIN hosts'
<1>1. /\ Matched \subseteq R /\ R \subseteq DOMAIN hosts
      /\ Now \subseteq II!Rows /\ hosts' = [p \in Now |-> hosts'[p]]
      /\ \A p \in Now : hosts'[p] \in HostRow
  BY LoadedRows
<1>2. \A p \in Matched : \E n \in Names : M[n] = p /\ hosts'[p].name = n
  BY LoadedRows
<1>3. \A p \in R \ Matched : hosts'[p].name = hosts[p].name
  BY LoadedRows
<1>4. \A p \in Now \ R : hosts'[p].name \in Missing /\ \A q \in R \ Matched : hosts[q].name # hosts'[p].name
  BY LoadedRows
<1>5. \A p, q \in Now \ R : hosts'[p].name = hosts'[q].name => p = q
  BY LoadedRows
<1>6. \A m, n \in Names : M[m] = M[n] /\ M[m] # 0 => m = n
  <2>1. PICK H : MatchedWith(H)
    BY DEF ImportInv, UpdateInv, II!Load
  <2>2. ImportAssumed /\ d \in II!Listings(s) /\ GoodHosts(H) /\ M = MatchIn(H, s, d)
    BY <2>1 DEF ImportInv, UpdateInv, II!Load, MatchedWith
  <2> QED
    BY <2>2, MatchInjective
<1>7. /\ \A p, q \in DOMAIN hosts : hosts[p].name = hosts[q].name => p = q
      /\ 0 \notin DOMAIN hosts
  BY DEF ImportInv, GoodHosts, II!Rows
<1>8. ~II!Clash(s, update)
  BY DEF II!Load
<1>9. ASSUME NEW p \in Matched, NEW q \in R \ Matched PROVE hosts'[p].name # hosts[q].name
  <2>1. PICK n \in Names : M[n] = p /\ hosts'[p].name = n
    BY <1>2
  <2>2. II!NewName(update, p) = n
    <3>1. \A m \in Names : update.match[m] = p <=> m = n
      BY <1>1, <1>6, <1>7, <2>1
    <3> QED
      BY <3>1 DEF II!NewName
  <2> QED
    BY <1>1, <1>7, <1>8, <2>1, <2>2 DEF II!Clash, II!OldName
<1>10. \A n \in Missing : M[n] \notin DOMAIN hosts
  BY DEF II!ToCreate, II!Existing
<1> HIDE DEF s, d, M, Matched, R, Missing
<1>11. \A p \in Matched, q \in Now \ R : hosts'[p].name # hosts'[q].name
  BY <1>1, <1>2, <1>4, <1>10
<1>12. \A p, q \in Matched : hosts'[p].name = hosts'[q].name => p = q
  BY <1>2
<1>13. \A p, q \in R \ Matched : hosts'[p].name = hosts'[q].name => p = q
  BY <1>1, <1>3, <1>7
<1>14. \A p \in Now : p \in Matched \/ p \in R \ Matched \/ p \in Now \ R
  OBVIOUS
<1>15. ASSUME NEW p \in Now, NEW q \in Now, hosts'[p].name = hosts'[q].name PROVE p = q
  BY <1>3, <1>4, <1>5, <1>9, <1>11, <1>12, <1>13, <1>14, <1>15
<1> QED
  BY <1>1, <1>15 DEF GoodHosts

(* What an import has matched stays a match at the load. *)
LEMMA LoadedMatches ==
    ASSUME ImportInv, II!Load
    PROVE  LET s == update.source
               d == update.data
               M == update.match
           IN  /\ s \in Sources /\ d \in II!Listings(s)
               /\ \A n \in Names : M[n] # 0 => d[n].listed
               /\ \A m, n \in Names : M[m] = M[n] /\ M[m] # 0 => m = n
               /\ \A p \in DOMAIN hosts : p # 0 /\ hosts[p].name \in Names
               /\ \A p \in II!Matched(update) :
                     /\ p \in DOMAIN hosts /\ p \in DOMAIN hosts'
                     /\ hosts'[p].name \in Names /\ M[hosts'[p].name] = p /\ s \in hosts'[p].sources
                     /\ hosts'[p].instance_id = d[hosts'[p].name].id
               /\ \A n \in Names : M[n] \in DOMAIN hosts => M[n] \in II!Matched(update)
<1>1. PICK H : MatchedWith(H)
  BY DEF ImportInv, UpdateInv, II!Load
<1>2. /\ ImportAssumed /\ update.source \in Sources /\ update.data \in II!Listings(update.source)
      /\ GoodHosts(H) /\ update.match = MatchIn(H, update.source, update.data)
  BY <1>1 DEF ImportInv, UpdateInv, II!Load, MatchedWith
<1>3. /\ \A n \in Names : update.match[n] # 0 => update.data[n].listed
      /\ \A m, n \in Names : update.match[m] = update.match[n] /\ update.match[m] # 0 => m = n
  BY <1>2, MatchInjective
<1>4. \A p \in DOMAIN hosts : p # 0 /\ hosts[p].name \in Names
  BY DEF ImportInv, GoodHosts, HostRow, II!Rows
<1>5. \A p \in II!Matched(update) : p \in DOMAIN hosts /\ p \in DOMAIN hosts'
  BY LoadedRows
<1>6. \A p \in II!Matched(update) : \E n \in Names :
         update.match[n] = p /\ hosts'[p].name = n /\ hosts'[p].instance_id = update.data[n].id /\ update.source \in hosts'[p].sources
  BY LoadedRows
<1>7. \A n \in Names : update.match[n] \in DOMAIN hosts => update.match[n] \in II!Matched(update)
  BY DEF II!Matched, II!Existing
<1> QED
  BY <1>2, <1>3, <1>4, <1>5, <1>6, <1>7

(* Every listed name has its row. *)
LEMMA ListedRows ==
    ASSUME ImportInv, II!Load, NEW n \in Names, update.data[n].listed
    PROVE  /\ II!Row(n)' \in DOMAIN hosts' /\ hosts'[II!Row(n)'].name = n
           /\ update.source \in hosts'[II!Row(n)'].sources
           /\ hosts'[II!Row(n)'].instance_id = update.data[n].id
<1> DEFINE s == update.source
           d == update.data
           M == update.match
           Matched == II!Matched(update)
           R == II!Remaining(s, update)
           Missing == II!ToCreate(update)
           Now == DOMAIN hosts'
           Rowed(p) == hosts'[p].name = n /\ s \in hosts'[p].sources /\ hosts'[p].instance_id = d[n].id
<1>1. \E p \in Now : Rowed(p)
  <2>1. CASE M[n] \in DOMAIN hosts
    <3>1. M[n] \in Matched /\ M[n] # 0
      BY <2>1, LoadedMatches
    <3>2. hosts'[M[n]].name = n
      BY <3>1, LoadedMatches
    <3> QED
      BY <3>1, <3>2, LoadedMatches
  <2>2. CASE M[n] \notin DOMAIN hosts
    <3>1. n \in Missing
      BY <2>2 DEF II!ToCreate, II!ListedNames, II!Existing
    <3>2. PICK p \in Now : p \notin Matched /\ hosts'[p].name = n
      BY <3>1, LoadedRows
    <3>3. CASE p \notin R
      <4>1. hosts'[p].instance_id = d[hosts'[p].name].id /\ s \in hosts'[p].sources
        BY <3>2, <3>3, LoadedRows
      <4> QED
        BY <3>2, <4>1
    <3>4. CASE p \in R
      <4>1. p \in R \ Matched /\ p \in DOMAIN hosts
        BY <3>2, <3>4 DEF II!Remaining, II!Existing
      <4>2. IF hosts[p].name \in Missing
            THEN /\ hosts'[p].name = hosts[p].name /\ s \in hosts'[p].sources
                 /\ hosts'[p].instance_id = IF s \in IdSources THEN d[hosts[p].name].id ELSE hosts[p].instance_id
            ELSE hosts'[p] = hosts[p]
        BY <4>1, LoadedRows
      <4> HIDE DEF s, d, M, Matched, R, Missing
      <4>3. /\ hosts[p].name = n /\ s \in hosts'[p].sources
            /\ hosts'[p].instance_id = IF s \in IdSources THEN d[n].id ELSE hosts[p].instance_id
        BY <3>1, <3>2, <4>2
      <4>4. ASSUME s \notin IdSources PROVE hosts[p].instance_id = d[n].id
        <5>1. PICK H : MatchedWith(H)
          BY DEF ImportInv, UpdateInv, II!Load
        <5>2. /\ ImportAssumed /\ d \in II!Listings(s) /\ GoodHosts(H) /\ M = MatchIn(H, s, d)
              /\ (p \in DOMAIN H /\ hosts[p] = H[p]) \/ hosts[p].instance_id = 0
          BY <4>1, <5>1 DEF ImportInv, UpdateInv, II!Load, MatchedWith, s, d, M
        <5>3. d[n].id = 0
          BY <4>4, <5>2, ListingFacts
        <5>4. CASE hosts[p].instance_id = 0
          BY <5>3, <5>4
        <5>5. CASE p \in DOMAIN H /\ hosts[p] = H[p]
          <6>1. d[H[p].name].listed /\ H[p].name = n
            BY <4>3, <5>5 DEF d
          <6>2. M[n] = p
            BY <4>4, <5>2, <5>5, <6>1, MatchByName
          <6> QED
            BY <4>1, <2>2, <6>2 DEF M
        <5> QED
          BY <5>2, <5>4, <5>5
      <4> QED
        BY <3>2, <4>3, <4>4 DEF Missing
    <3> QED
      BY <3>3, <3>4
  <2> QED
    BY <2>1, <2>2
<1>2. PICK p \in Now : Rowed(p)
  BY <1>1
<1>3. \A q \in Now : hosts'[q].name = n => q = p
  BY <1>2, LoadedHosts DEF GoodHosts
<1>4. II!Row(n)' = p
  BY <1>2, <1>3 DEF II!Row, II!Existing
<1> QED
  BY <1>2, <1>4

(* The history of a load. *)
LEMMA LoadHistory ==
    ASSUME ImportInv, II!Load
    PROVE  /\ imported'.source = update.source /\ imported'.data = update.data /\ imported'.hosts = hosts
           /\ imported'.group = group /\ imported'.members = listing
           /\ imported'.undisturbed = (update.edits = hostEdits)
           /\ options' = options
BY DEF II!Load

(* Which rows of the source an overwriting import leaves. *)
LEMMA OverwrittenRows ==
    ASSUME ImportInv, II!Load, options.overwrite
    PROVE  \A p \in II!HostsOf(hosts, update.source) : p \in II!Remaining(update.source, update) => p \in II!Matched(update)
BY DEF II!Remaining

LEMMA LoadListsNames ==
    ASSUME ImportInv, II!Load
    PROVE  LET mine == II!HostsOf(hosts', update.source)
               listed == {n \in Names : update.data[n].listed}
           IN  /\ listed \subseteq {hosts'[p].name : p \in mine}
               /\ options.overwrite => {hosts'[p].name : p \in mine} = listed
<1> DEFINE s == update.source
           d == update.data
           Matched == II!Matched(update)
           R == II!Remaining(s, update)
           mine == II!HostsOf(hosts', s)
           listed == {n \in Names : d[n].listed}
<1>1. ASSUME NEW n \in listed PROVE n \in {hosts'[p].name : p \in mine}
  <2>1. /\ II!Row(n)' \in DOMAIN hosts' /\ hosts'[II!Row(n)'].name = n
        /\ s \in hosts'[II!Row(n)'].sources
    BY ListedRows
  <2> QED
    BY <2>1 DEF II!HostsOf
<1>2. ASSUME options.overwrite, NEW p \in mine PROVE hosts'[p].name \in listed
  <2>1. p \in DOMAIN hosts' /\ s \in hosts'[p].sources
    BY DEF II!HostsOf
  <2>2. CASE p \in Matched
    <3>1. LET n == hosts'[p].name
          IN  n \in Names /\ update.match[n] = p /\ p \in DOMAIN hosts
      BY <2>2, LoadedMatches
    <3> QED
      BY <3>1, LoadedMatches
  <2>3. CASE p \notin R
    <3>1. hosts'[p].name \in II!ToCreate(update)
      BY <2>1, <2>3, LoadedRows
    <3> QED
      BY <3>1 DEF II!ToCreate, II!ListedNames
  <2>4. CASE p \in R \ Matched
    <3>1. p \in DOMAIN hosts /\ p \notin II!HostsOf(hosts, s)
      BY <1>2, <2>4, OverwrittenRows DEF II!Remaining, II!Existing
    <3>2. s \notin hosts[p].sources
      BY <3>1 DEF II!HostsOf
    <3>3. hosts[p].name \in II!ToCreate(update) /\ hosts'[p].name = hosts[p].name
      BY <2>1, <2>4, <3>2, LoadedRows
    <3> QED
      BY <3>3 DEF II!ToCreate, II!ListedNames
  <2> QED
    BY <2>2, <2>3, <2>4
<1> QED
  BY <1>1, <1>2

LEMMA LoadListsMembers ==
    ASSUME ImportInv, II!Load, NEW n \in Names, update.data[n].grouped
    PROVE  II!Row(n)' \in listing'
<1>1. update.data[n].listed
  BY LoadedMatches, ListingFacts DEF ImportInv
<1>2. /\ II!Row(n)' \in DOMAIN hosts' /\ hosts'[II!Row(n)'].name = n
      /\ hosts'[II!Row(n)'].instance_id = update.data[n].id
  BY <1>1, ListedRows
<1>3. hosts' = II!NewRows(update.source, update)
      /\ listing' = II!KeptMembers(update.source, update) \union II!Joining(II!NewRows(update.source, update), update.data)
  BY DEF II!Load
<1>4. listing' = II!KeptMembers(update.source, update) \union II!Joining(hosts', update.data)
  BY <1>3
<1>5. II!Row(n)' \in II!Joining(hosts', update.data)
  BY <1>2 DEF II!Joining
<1> QED
  BY <1>4, <1>5

(* Who of the source stays in the group. *)
LEMMA LoadKeepsMembers ==
    ASSUME ImportInv, II!Load, options.overwrite, update.source \in group.sources,
           NEW p \in listing' \intersect II!HostsOf(hosts, update.source)
    PROVE  LET d == update.data
           IN  \/ d[hosts'[p].name].grouped
               \/ d[hosts[p].name] \in [listed : {TRUE}, id : {0}, grouped : {TRUE}]
               \/ \E n \in Names : d[n].grouped /\ d[n].id = hosts[p].instance_id /\ II!IdShared(p)'
<1> DEFINE s == update.source
           d == update.data
           M == update.match
           Matched == II!Matched(update)
           R == II!Remaining(s, update)
<1>0. ImportAssumed /\ s \in Sources /\ d \in II!Listings(s)
  BY LoadedMatches DEF ImportInv
<1>1. p \in DOMAIN hosts /\ s \in hosts[p].sources
  BY DEF II!HostsOf
<1>2. listing' = II!KeptMembers(s, update) \union II!Joining(hosts', d)
  BY DEF II!Load
<1>3. ASSUME p \in R
      PROVE /\ p \in Matched /\ hosts'[p].name \in Names /\ M[hosts'[p].name] = p
            /\ hosts'[p].instance_id = d[hosts'[p].name].id
  BY <1>3, OverwrittenRows, LoadedMatches
<1>4. \A m, n \in Names : d[m].id = d[n].id /\ d[m].id # 0 => m = n
  BY <1>0, ListingFacts
<1>5. CASE p \in II!Joining(hosts', d)
  <2>1. PICK n \in Names : d[n].grouped /\ (IF d[n].id = 0 THEN hosts'[p].name = n ELSE hosts'[p].instance_id = d[n].id)
    BY <1>5 DEF II!Joining, II!NoId
  <2>2. p \in DOMAIN hosts'
    BY <1>5 DEF II!Joining
  <2>3. p \in R
    BY <1>1, <2>2, LoadedRows
  <2>4. hosts'[p].name = n
    BY <1>3, <1>4, <2>1, <2>3
  <2> QED
    BY <2>1, <2>4
<1>6. CASE p \in II!KeptMembers(s, update)
  <2> DEFINE names == {n \in Names : d[n].grouped /\ d[n].id = 0}
             ids == {d[n].id : n \in {m \in Names : d[m].grouped}} \ {0}
  <2>1. /\ p \in R
        /\ \/ hosts[p].name \in names \/ hosts[p].instance_id \in ids
           \/ p \in update.byVariable /\ hosts[p].variable \in ids
    BY <1>6 DEF II!KeptMembers, II!GroupDeleted, II!NoId
  <2>2. /\ p \in Matched /\ hosts'[p].name \in Names /\ M[hosts'[p].name] = p
        /\ hosts'[p].instance_id = d[hosts'[p].name].id
    BY <1>3, <2>1
  <2>3. PICK H : MatchedWith(H)
    BY DEF ImportInv, UpdateInv, II!Load
  <2>4. /\ GoodHosts(H) /\ M = MatchIn(H, s, d)
        /\ update.byVariable = UNION {VariableIn(H, s, id) : id \in {d[n].id : n \in Names} \ {0}}
        /\ update.edits = hostEdits => hosts = H
    BY <2>3 DEF MatchedWith
  <2>5. p \in DOMAIN H /\ hosts[p] = H[p]
    BY <1>1, <2>2, <2>3 DEF MatchedWith
  <2>6. ASSUME NEW n \in Names, p \in ClaimedIn(H, s, d[n].id) PROVE hosts'[p].name = n
    <3>1. M[hosts'[p].name] \in ClaimedIn(H, s, d[n].id) /\ M[hosts'[p].name] # 0
      BY <1>1, <2>2, <2>6, LoadedMatches
    <3> QED
      BY <1>0, <2>2, <2>4, <3>1, MatchInjective
  <2>7. CASE hosts[p].name \in names
    <3>2. PICK n \in Names : n = hosts[p].name /\ d[n].grouped /\ d[n].id = 0
      BY <2>7
    <3>3. d[n] \in [listed : {TRUE}, id : {0}, grouped : {TRUE}]
      BY <1>0, <3>2, ListingFacts
    <3>1. d[hosts[p].name] \in [listed : {TRUE}, id : {0}, grouped : {TRUE}]
      BY <3>2, <3>3
    <3> QED
      BY <3>1
  <2>8. CASE hosts[p].instance_id \in ids
    <3>1. PICK n \in Names : d[n].grouped /\ d[n].id = hosts[p].instance_id /\ d[n].id # 0
      BY <2>8
    <3>2. CASE VariableIn(H, s, d[n].id) = {}
      <4>1. p \in ClaimedIn(H, s, d[n].id)
        BY <2>5, <3>1, <3>2 DEF ClaimedIn
      <4> QED
        BY <2>6, <3>1, <4>1
    <3>3. CASE VariableIn(H, s, d[n].id) # {}
      <4>1. PICK q : q \in VariableIn(H, s, d[n].id)
        BY <3>3
      <4>2. d[n].id \in Ids \union {0}
        BY <1>0, ListingFacts
      <4>3. H[q].instance_id = 0 /\ H[q].variable = d[n].id /\ q \in DOMAIN H /\ s \in H[q].sources
        BY <1>0, <2>4, <4>1, <4>2, ClaimedFacts
      <4>4. II!HasId(s, H[q], d[n].id) /\ q # p
        BY <2>5, <3>1, <4>3 DEF II!HasId, II!NoId
      <4>5. update.edits = hostEdits => \E r \in DOMAIN hosts \ {p} : II!HasId(s, hosts[r], hosts[p].instance_id)
        BY <2>4, <3>1, <4>3, <4>4
      <4>6. II!IdShared(p)' <=>
               /\ imported'.hosts[p].instance_id # 0
               /\ imported'.undisturbed =>
                    \E r \in DOMAIN imported'.hosts \ {p} : II!HasId(imported'.source, imported'.hosts[r], imported'.hosts[p].instance_id)
        BY DEF II!IdShared, II!NoId, II!HasId
      <4>7. II!IdShared(p)'
        BY <3>1, <4>5, <4>6, LoadHistory
      <4> QED
        BY <3>1, <4>7
    <3> QED
      BY <3>2, <3>3
  <2>9. CASE p \in update.byVariable /\ hosts[p].variable \in ids
    <3>1. PICK n \in Names : d[n].grouped /\ d[n].id = hosts[p].variable /\ d[n].id # 0
      BY <2>9
    <3>2. PICK m \in Names : p \in VariableIn(H, s, d[m].id)
      BY <2>4, <2>9
    <3>3. d[m].id \in Ids \union {0}
      BY <1>0, ListingFacts
    <3>4. H[p].variable = d[m].id
      BY <1>0, <2>4, <3>2, <3>3, ClaimedFacts
    <3>5. p \in ClaimedIn(H, s, d[n].id)
      BY <2>5, <3>1, <3>2, <3>4 DEF ClaimedIn
    <3> QED
      BY <2>6, <3>1, <3>5
  <2> QED
    BY <2>1, <2>7, <2>8, <2>9
<1> QED
  BY <1>2, <1>5, <1>6

LEMMA LoadIsAsListed == ASSUME ImportInv, II!Load PROVE II!ImportedAsListed'
<1> DEFINE s == update.source
           d == update.data
           listed == {n \in Names : d[n].listed}
<1>1. /\ listed \subseteq {hosts'[p].name : p \in II!HostsOf(hosts', s)}
      /\ options.overwrite => {hosts'[p].name : p \in II!HostsOf(hosts', s)} = listed
  BY LoadListsNames
<1>2. \A n \in listed : hosts'[II!Row(n)'].instance_id = d[n].id
  BY ListedRows
<1>3. \A n \in listed : d[n].grouped => II!Row(n)' \in listing'
  BY LoadListsMembers
<1>4. options.overwrite /\ s \in group.sources =>
         \A p \in listing' \intersect II!HostsOf(hosts, s) :
            \/ d[hosts'[p].name].grouped \/ d[hosts[p].name] \in [listed : {TRUE}, id : {0}, grouped : {TRUE}]
            \/ \E n \in Names : d[n].grouped /\ d[n].id = hosts[p].instance_id /\ II!IdShared(p)'
  BY LoadKeepsMembers
<1>5. /\ imported'.source = s /\ imported'.data = d /\ imported'.hosts = hosts /\ imported'.group = group
      /\ options' = options
  BY LoadHistory
<1> HIDE DEF s, d
<1> QED
  BY <1>1, <1>2, <1>3, <1>4, <1>5 DEF II!ImportedAsListed, II!HostsOf, II!NoId

LEMMA LoadFollowsIds == ASSUME ImportInv, II!Load PROVE II!IdsFollowed'
<1> DEFINE s == update.source
           d == update.data
<1>1. /\ imported'.source = s /\ imported'.data = d /\ imported'.hosts = hosts
      /\ imported'.undisturbed = (update.edits = hostEdits)
  BY LoadHistory
<1>2. ASSUME update.edits = hostEdits, NEW n \in Names, NEW p \in DOMAIN hosts, d[n].id # 0,
             \A q \in DOMAIN hosts : II!HasId(s, hosts[q], d[n].id) <=> q = p,
             \A q \in DOMAIN hosts : hosts[q].name = n => q = p
      PROVE  p \in DOMAIN hosts' /\ hosts'[p].name = n
  <2>1. PICK H : MatchedWith(H)
    BY DEF ImportInv, UpdateInv, II!Load
  <2>2. /\ ImportAssumed /\ d \in II!Listings(s) /\ GoodHosts(hosts) /\ update.match = MatchIn(hosts, s, d)
    BY <1>2, <2>1 DEF ImportInv, UpdateInv, II!Load, MatchedWith
  <2>5. update.match[n] = p
    BY <1>2, <2>2, MatchById
  <2>6. p \in II!Matched(update)
    BY <2>5, LoadedMatches
  <2>7. p \in DOMAIN hosts' /\ hosts'[p].name \in Names /\ update.match[hosts'[p].name] = p /\ p # 0
    BY <2>6, LoadedMatches
  <2> QED
    BY <2>5, <2>7, LoadedMatches
<1> HIDE DEF s, d
<1>3. II!IdsFollowed' <=>
         (imported' # II!NoImport /\ imported'.undisturbed =>
            \A n \in Names : \A p \in DOMAIN imported'.hosts :
               LET id == imported'.data[n].id
                   bearers == {q \in DOMAIN imported'.hosts : II!HasId(imported'.source, imported'.hosts[q], id)}
                   namesakes == {q \in DOMAIN imported'.hosts : imported'.hosts[q].name = n}
               IN  id # 0 /\ bearers = {p} /\ namesakes \subseteq {p} => p \in DOMAIN hosts' /\ hosts'[p].name = n)
  BY DEF II!IdsFollowed, II!NoId, II!Existing, II!HasId, II!NoImport
<1>4. ASSUME imported'.undisturbed, NEW n \in Names, NEW p \in DOMAIN hosts, d[n].id # 0,
             {q \in DOMAIN hosts : II!HasId(s, hosts[q], d[n].id)} = {p},
             {q \in DOMAIN hosts : hosts[q].name = n} \subseteq {p}
      PROVE  p \in DOMAIN hosts' /\ hosts'[p].name = n
  <2>1. \A q \in DOMAIN hosts : II!HasId(s, hosts[q], d[n].id) <=> q = p
    BY <1>4
  <2>2. \A q \in DOMAIN hosts : hosts[q].name = n => q = p
    BY <1>4
  <2>3. update.edits = hostEdits
    BY <1>1, <1>4
  <2> QED
    BY <1>2, <1>4, <2>1, <2>2, <2>3
<1> QED
  BY <1>1, <1>3, <1>4

LEMMA LoadLeavesOthers == ASSUME ImportInv, II!Load PROVE II!OthersLeftAlone'
<1> DEFINE s == update.source
           d == update.data
           R == II!Remaining(s, update)
<1>1. /\ imported'.source = s /\ imported'.data = d /\ imported'.hosts = hosts /\ imported'.members = listing
  BY LoadHistory
<1>2. ASSUME NEW p \in DOMAIN hosts, s \notin hosts[p].sources, ~d[hosts[p].name].listed,
             \A n \in Names : d[n].id = 0 \/ d[n].id # hosts[p].instance_id
      PROVE  /\ p \in DOMAIN hosts' /\ hosts'[p] = hosts[p]
             /\ p \in listing /\ group'.exists => p \in listing'
  <2>1. PICK H : MatchedWith(H)
    BY DEF ImportInv, UpdateInv, II!Load
  <2>2. /\ ImportAssumed /\ d \in II!Listings(s) /\ GoodHosts(H) /\ update.match = MatchIn(H, s, d)
        /\ (p \in DOMAIN H /\ hosts[p] = H[p]) \/ \A n \in Names : update.match[n] # p
    BY <2>1 DEF ImportInv, UpdateInv, II!Load, MatchedWith
  <2>3. \A n \in Names : update.match[n] # p
    <3>1. CASE p \in DOMAIN H /\ hosts[p] = H[p]
      BY <1>2, <2>2, <3>1, UnlistedUnmatched
    <3> QED
      BY <2>2, <3>1
  <2>4. p \notin II!Matched(update) /\ p \notin II!HostsOf(hosts, s)
    BY <1>2, <2>3 DEF II!Matched, II!HostsOf
  <2>5. p \in R
    BY <2>4 DEF II!Remaining, II!Existing
  <2>6. hosts[p].name \notin II!ToCreate(update)
    BY <1>2 DEF II!ToCreate, II!ListedNames
  <2>7. p \in DOMAIN hosts' /\ hosts'[p] = hosts[p]
    BY <2>4, <2>5, <2>6, LoadedRows
  <2>8. ASSUME p \in listing, group'.exists PROVE p \in listing'
    <3>1. ~II!GroupDeleted(s, update)
      BY <2>8 DEF II!Load, II!GroupDeleted, II!NoGroup
    <3>2. p \in II!KeptMembers(s, update)
      BY <2>4, <2>5, <2>8, <3>1 DEF II!KeptMembers
    <3> QED
      BY <3>2 DEF II!Load
  <2> QED
    BY <2>7, <2>8
<1> HIDE DEF s, d
<1>3. II!OthersLeftAlone' <=>
         (imported' # II!NoImport =>
            \A p \in DOMAIN imported'.hosts :
               LET row == imported'.hosts[p]
               IN  imported'.source \notin row.sources /\ ~imported'.data[row.name].listed
                   /\ (\A n \in Names : imported'.data[n].id = 0 \/ imported'.data[n].id # row.instance_id)
                   => /\ p \in DOMAIN hosts' /\ hosts'[p] = row
                      /\ p \in imported'.members /\ group'.exists => p \in listing')
  BY DEF II!OthersLeftAlone, II!NoId, II!Existing, II!NoImport
<1> QED
  BY <1>1, <1>2, <1>3

LEMMA ImportStep == ASSUME ImportInv, [II!Next]_importVars PROVE ImportInv'
<1>0. /\ ImportAssumed /\ GoodHosts(hosts)
      /\ options \in [overwrite : BOOLEAN, overwrite_vars : BOOLEAN]
      /\ group \in [exists : BOOLEAN, sources : SUBSET Sources]
      /\ hostEdits \in Nat
      /\ update # II!NoUpdate => UpdateInv
  BY DEF ImportInv
<1>1. ASSUME imported' = II!NoImport PROVE II!ImportedAsListed' /\ II!IdsFollowed' /\ II!OthersLeftAlone'
  BY <1>1 DEF II!ImportedAsListed, II!IdsFollowed, II!OthersLeftAlone, II!NoImport
<1>2. ASSUME NEW s \in Sources, II!BuildMaps(s) PROVE ImportInv'
  <2>1. /\ imported' = II!NoImport /\ options' = options /\ hosts' = hosts /\ group' = group /\ hostEdits' = hostEdits
    BY <1>2 DEF II!BuildMaps
  <2>2. PICK d \in II!Listings(s) :
           update' = [source |-> s, data |-> d, match |-> II!Match(s, d), edits |-> hostEdits,
                      byVariable |-> UNION {II!ByVariable(s, id) : id \in {d[n].id : n \in Names} \ {0}}]
    BY <1>2 DEF II!BuildMaps, II!NoId
  <2>3. /\ update'.source = s /\ update'.data = d /\ update'.match = MatchIn(hosts, s, d) /\ update'.edits = hostEdits
        /\ update'.byVariable = UNION {VariableIn(hosts, s, id) : id \in {d[n].id : n \in Names} \ {0}}
    BY <2>2, MatchNow
  <2>4. PICK H : H = hosts
    OBVIOUS
  <2>5. MatchedWith(H)'
    BY <1>0, <2>1, <2>3, <2>4 DEF MatchedWith
  <2>6. hostEdits' \in Nat /\ update'.edits \in Nat /\ update'.edits <= hostEdits'
    BY <1>0, <2>1, <2>3
  <2>7. UpdateInv'
    BY <2>3, <2>5, <2>6 DEF UpdateInv
  <2> QED
    BY <1>0, <1>1, <2>1, <2>7 DEF ImportInv
<1>3. CASE II!Load
  <2>1. GoodHosts(hosts')
    BY <1>3, LoadedHosts
  <2>2. II!ImportedAsListed' /\ II!IdsFollowed' /\ II!OthersLeftAlone'
    BY <1>3, LoadIsAsListed, LoadFollowsIds, LoadLeavesOthers
  <2>3. /\ update' = II!NoUpdate /\ options' = options /\ hostEdits' = hostEdits
        /\ group' \in {[exists |-> TRUE, sources |-> group.sources \union {update.source}], II!NoGroup, group}
    BY <1>3 DEF II!Load
  <2>4. update.source \in Sources
    BY <1>3, LoadedMatches
  <2>6. group.sources \union {update.source} \in SUBSET Sources
    BY <1>0, <2>4
  <2>7. II!NoGroup = [exists |-> FALSE, sources |-> {}]
    BY DEF II!NoGroup
  <2>5. group' \in [exists : BOOLEAN, sources : SUBSET Sources]
    <3>1. [exists |-> TRUE, sources |-> group.sources \union {update.source}] \in [exists : BOOLEAN, sources : SUBSET Sources]
      BY <2>6
    <3>2. II!NoGroup \in [exists : BOOLEAN, sources : SUBSET Sources]
      BY <2>7
    <3> QED
      BY <1>0, <2>3, <3>1, <3>2
  <2> QED
    BY <1>0, <2>1, <2>2, <2>3, <2>5 DEF ImportInv, II!NoUpdate
<1>4. CASE II!LoadFails
  BY <1>0, <1>1, <1>4 DEF II!LoadFails, ImportInv, II!NoUpdate
<1>5. ASSUME NEW H, update # II!NoUpdate, MatchedWith(H), update' = update, hostEdits' = hostEdits + 1,
             \A p \in DOMAIN hosts' :
                \/ p \in DOMAIN hosts /\ hosts'[p] = hosts[p]
                \/ /\ hosts'[p].sources = {} /\ hosts'[p].instance_id = 0
                   /\ \A n \in Names : update.match[n] # p
      PROVE  UpdateInv'
  <2>1. /\ update.source \in Sources /\ update.data \in II!Listings(update.source)
        /\ update.edits \in Nat /\ update.edits <= hostEdits
    BY <1>0, <1>5 DEF UpdateInv
  <2>2. MatchedWith(H)'
    BY <1>0, <1>5, <2>1 DEF MatchedWith
  <2> QED
    BY <1>0, <1>5, <2>1, <2>2 DEF UpdateInv
<1>6. ASSUME II!HostEdit, update' = update, options' = options, group' = group, GoodHosts(hosts'),
             \A p \in DOMAIN hosts' :
                \/ p \in DOMAIN hosts /\ hosts'[p] = hosts[p]
                \/ /\ hosts'[p].sources = {} /\ hosts'[p].instance_id = 0
                   /\ \A n \in Names : update.match[n] # p
      PROVE  ImportInv'
  <2>1. hostEdits' = hostEdits + 1 /\ imported' = II!NoImport
    BY <1>6 DEF II!HostEdit
  <2>2. ASSUME update # II!NoUpdate PROVE UpdateInv'
    <3>1. PICK H : MatchedWith(H)
      BY <1>0, <2>2 DEF UpdateInv
    <3> QED
      BY <1>5, <1>6, <2>1, <2>2, <3>1
  <2> QED
    BY <1>0, <1>1, <1>6, <2>1, <2>2 DEF ImportInv, II!NoUpdate
<1>7. ASSUME NEW n \in Names, II!CreateHost(n) PROVE ImportInv'
  <2> DEFINE free == {p \in II!Rows \ DOMAIN hosts : \A m \in Names : update.match[m] # p}
             new == CHOOSE p \in free : TRUE
             row == [name |-> n, instance_id |-> 0, variable |-> 0, sources |-> {}]
  <2>1. /\ II!HostEdit /\ update' = update /\ options' = options /\ group' = group
        /\ \A p \in DOMAIN hosts : hosts[p].name # n
        /\ free # {} /\ hosts' = [p \in DOMAIN hosts \union {new} |-> IF p = new THEN row ELSE hosts[p]]
    BY <1>7 DEF II!CreateHost, II!Existing, II!NoId
  <2>2. new \in free
    BY <2>1
  <2> HIDE DEF new
  <2>3. /\ new \in II!Rows \ DOMAIN hosts /\ hosts'[new] = row /\ \A p \in DOMAIN hosts : hosts'[p] = hosts[p]
        /\ DOMAIN hosts' = DOMAIN hosts \union {new}
    BY <2>1, <2>2
  <2>4. \A m \in Names : update.match[m] # new
    BY <2>2
  <2>5. row \in HostRow /\ row.name = n /\ row.sources = {} /\ row.instance_id = 0
    BY DEF HostRow
  <2> HIDE DEF row
  <2>6. \A p, q \in DOMAIN hosts' : hosts'[p].name = hosts'[q].name => p = q
    BY <1>0, <2>1, <2>3, <2>5 DEF GoodHosts
  <2>7. hosts' = [p \in DOMAIN hosts' |-> hosts'[p]]
    BY <2>1
  <2>8. GoodHosts(hosts')
    BY <1>0, <2>3, <2>5, <2>6, <2>7 DEF GoodHosts
  <2> QED
    BY <1>6, <2>1, <2>3, <2>4, <2>5, <2>8
<1>8. ASSUME NEW p \in II!Existing, II!DeleteHost(p) PROVE ImportInv'
  <2>1. /\ II!HostEdit /\ update' = update /\ options' = options /\ group' = group
        /\ hosts' = [q \in DOMAIN hosts \ {p} |-> hosts[q]]
    BY <1>8 DEF II!DeleteHost, II!Existing
  <2>2. GoodHosts(hosts')
    BY <1>0, <2>1 DEF GoodHosts
  <2> QED
    BY <1>6, <2>1, <2>2
<1>9. ASSUME NEW p \in II!Existing, II!MoveHost(p) PROVE ImportInv'
  BY <1>0, <1>6, <1>9 DEF II!MoveHost
<1>10. CASE UNCHANGED importVars
  <2>1. /\ options' = options /\ hosts' = hosts /\ group' = group /\ listing' = listing /\ update' = update
        /\ hostEdits' = hostEdits /\ imported' = imported
    BY <1>10 DEF importVars
  <2>5. \A n : II!Row(n)' = II!Row(n)
    BY <2>1 DEF II!Row, II!Existing
  <2>6. \A p : II!IdShared(p)' = II!IdShared(p)
    BY <2>1 DEF II!IdShared
  <2>7. II!ImportedAsListed
    BY DEF ImportInv
  <2>2. II!ImportedAsListed'
    BY <2>1, <2>5, <2>6, <2>7, Zenon DEF II!ImportedAsListed, II!HostsOf
  <2>3. II!IdsFollowed' /\ II!OthersLeftAlone'
    BY <2>1 DEF ImportInv, II!IdsFollowed, II!OthersLeftAlone, II!Existing
  <2>4. UpdateInv <=> UpdateInv'
    BY <2>1 DEF UpdateInv, MatchedWith
  <2> QED
    BY <1>0, <2>1, <2>2, <2>3, <2>4 DEF ImportInv
<1> QED
  BY <1>2, <1>3, <1>4, <1>7, <1>8, <1>9, <1>10 DEF II!Next

LEMMA ImportKept ==
    ASSUME ImportInv
    PROVE  II!NamesUnique /\ II!ImportedAsListed /\ II!IdsFollowed /\ II!OthersLeftAlone
BY DEF ImportInv, GoodHosts, II!NamesUnique, II!Existing

-----------------------------------------------------------------------------
(* The working tree of a project: ProjectCheckoutProofs, for the jobs of the *)
(* services.  Its actions are those of the instance PC.                      *)

CK == INSTANCE ProjectCheckoutProofs WITH Jobs <- ProjectJobs

LEMMA CheckoutBegins == PC!Init <=> CK!Init
BY DEF PC!Init, CK!Init, PC!Tasks, CK!Tasks, PC!Blank, CK!Blank, PC!Nothing, CK!Nothing, PC!Unlocked, CK!Unlocked

LEMMA CheckoutNames ==
    /\ PC!Tasks = CK!Tasks /\ PC!Unlocked = CK!Unlocked /\ PC!Branch = CK!Branch /\ PC!Torn = CK!Torn
    /\ PC!Blank = CK!Blank /\ PC!Nothing = CK!Nothing /\ PC!Newest = CK!Newest /\ PC!Over = CK!Over
    /\ PC!MishapsLeft = CK!MishapsLeft
    /\ PC!Spoilt = CK!Spoilt
    /\ \A p : PC!Free(p) = CK!Free(p) /\ PC!Plays(p) = CK!Plays(p) /\ PC!CacheId(p) = CK!CacheId(p)
              /\ PC!NeedsUpdate(p) = CK!NeedsUpdate(p) /\ PC!NeedsInstall(p) = CK!NeedsInstall(p)
    /\ \A p, place : PC!Move(p, place) = CK!Move(p, place)
<1>1. /\ PC!Tasks = CK!Tasks /\ PC!Unlocked = CK!Unlocked /\ PC!Branch = CK!Branch /\ PC!Torn = CK!Torn
      /\ PC!Blank = CK!Blank /\ PC!Nothing = CK!Nothing /\ PC!Newest = CK!Newest /\ PC!Over = CK!Over
  BY DEF PC!Tasks, CK!Tasks, PC!Unlocked, CK!Unlocked, PC!Branch, CK!Branch, PC!Torn, CK!Torn, PC!Blank, CK!Blank,
         PC!Nothing, CK!Nothing, PC!Newest, CK!Newest, PC!Over, CK!Over
<1>2. PC!MishapsLeft = CK!MishapsLeft
  BY DEF PC!MishapsLeft, CK!MishapsLeft, PC!Cardinality, CK!Cardinality
<1>3. PC!Spoilt = CK!Spoilt
  BY DEF PC!Spoilt, CK!Spoilt, PC!Torn, CK!Torn
<1>4. \A p : PC!Free(p) = CK!Free(p) /\ PC!Plays(p) = CK!Plays(p) /\ PC!CacheId(p) = CK!CacheId(p)
             /\ PC!NeedsUpdate(p) = CK!NeedsUpdate(p) /\ PC!NeedsInstall(p) = CK!NeedsInstall(p)
  BY Zenon DEF PC!Free, CK!Free, PC!Unlocked, CK!Unlocked, PC!Plays, CK!Plays, PC!CacheId, CK!CacheId,
     PC!NeedsUpdate, CK!NeedsUpdate, PC!NeedsInstall, CK!NeedsInstall
<1>5. \A p, place : PC!Move(p, place) = CK!Move(p, place)
  BY DEF PC!Move, CK!Move
<1> QED
  BY <1>1, <1>2, <1>3, <1>4, <1>5

LEMMA CheckoutSteps ==
    ASSUME PC!Next
    PROVE  CK!Next
<1> USE CheckoutNames DEF PC!row, CK!row, PC!local, CK!local, PC!ghosts, CK!ghosts
<1>1. ASSUME NEW j, PC!StartJob(j) PROVE CK!StartJob(j)
  BY <1>1, Zenon DEF PC!StartJob, CK!StartJob
<1>2. ASSUME NEW u, PC!StartUpdate(u) PROVE CK!StartUpdate(u)
  BY <1>2, Zenon DEF PC!StartUpdate, CK!StartUpdate
<1>3. ASSUME NEW p, PC!Acquire(p) PROVE CK!Acquire(p)
  BY <1>3, Zenon DEF PC!Acquire, CK!Acquire
<1>4. ASSUME NEW p, PC!GiveUp(p) PROVE CK!GiveUp(p)
  BY <1>4, Zenon DEF PC!GiveUp, CK!GiveUp
<1>5. ASSUME NEW j, PC!Decide(j) PROVE CK!Decide(j)
  BY <1>5, Zenon DEF PC!Decide, CK!Decide
<1>6. ASSUME NEW p, PC!BeginSync(p) PROVE CK!BeginSync(p)
  BY <1>6, Zenon DEF PC!BeginSync, CK!BeginSync
<1>7. ASSUME NEW p, PC!Fetch(p) PROVE CK!Fetch(p)
  BY <1>7, Zenon DEF PC!Fetch, CK!Fetch
<1>8. ASSUME NEW p, PC!CheckOut(p) PROVE CK!CheckOut(p)
  BY <1>8, Zenon DEF PC!CheckOut, CK!CheckOut
<1>9. ASSUME NEW p, PC!FailSync(p) PROVE CK!FailSync(p)
  BY <1>9, Zenon DEF PC!FailSync, CK!FailSync
<1>10. ASSUME NEW p, PC!Install(p) PROVE CK!Install(p)
  BY <1>10, Zenon DEF PC!Install, CK!Install
<1>11. ASSUME NEW j, PC!BeginCopy(j) PROVE CK!BeginCopy(j)
  BY <1>11, Zenon DEF PC!BeginCopy, CK!BeginCopy
<1>12. ASSUME NEW j, PC!LeaveJob(j) PROVE CK!LeaveJob(j)
  BY <1>12, Zenon DEF PC!LeaveJob, CK!LeaveJob
<1>13. ASSUME NEW u, PC!LeaveUpdate(u) PROVE CK!LeaveUpdate(u)
  BY <1>13, Zenon DEF PC!LeaveUpdate, CK!LeaveUpdate
<1>14. ASSUME NEW u, PC!SaveRevision(u) PROVE CK!SaveRevision(u)
  BY <1>14, Zenon DEF PC!SaveRevision, CK!SaveRevision
<1>15. ASSUME NEW u, PC!SaveStatus(u) PROVE CK!SaveStatus(u)
  BY <1>15, Zenon DEF PC!SaveStatus, CK!SaveStatus
<1>16. ASSUME NEW p, PC!Die(p) PROVE CK!Die(p)
  BY <1>16, Zenon DEF PC!Die, CK!Die
<1>17. ASSUME NEW p, PC!Progress(p) PROVE CK!Progress(p)
  BY <1>3, <1>5, <1>6, <1>7, <1>8, <1>10, <1>11, <1>12, <1>13, <1>14, <1>15, <1>17, Zenon DEF PC!Progress, CK!Progress
<1>18. CASE \E p \in PC!Tasks : PC!Progress(p) \/ PC!GiveUp(p) \/ PC!FailSync(p) \/ PC!Die(p)
  <2>1. PICK p \in PC!Tasks : PC!Progress(p) \/ PC!GiveUp(p) \/ PC!FailSync(p) \/ PC!Die(p)
    BY <1>18, Zenon
  <2>2. p \in CK!Tasks
    BY <2>1, Zenon
  <2>3. CK!Progress(p) \/ CK!GiveUp(p) \/ CK!FailSync(p) \/ CK!Die(p)
    BY <1>4, <1>9, <1>16, <1>17, <2>1, Zenon
  <2> QED
    BY <2>2, <2>3, Zenon DEF CK!Next
<1>19. CASE \E j \in ProjectJobs : PC!StartJob(j)
  BY <1>1, <1>19, Zenon DEF CK!Next
<1>20. CASE \E u \in Updates : PC!StartUpdate(u)
  BY <1>2, <1>20, Zenon DEF CK!Next
<1> QED
  BY <1>18, <1>19, <1>20, Zenon DEF PC!Next

LEMMA CheckoutInCluster ==
    ASSUME CK!CheckoutAssumed, CK!CheckoutInv, [PC!Next]_checkoutVars
    PROVE  CK!CheckoutInv'
<1>1. UNCHANGED checkoutVars =>
         UNCHANGED <<remote, project, tree, caches, staged, lock, at, work, result, gaveUp, intruded, unsure, interrupts>>
  BY DEF checkoutVars
<1>2. UNCHANGED checkoutVars => UNCHANGED CK!pcvars
  BY <1>1 DEF CK!pcvars, CK!row, CK!local, CK!ghosts
<1> QED
  BY <1>2, CheckoutSteps, CK!CheckoutStep

LEMMA CheckoutHolds == CK!CheckoutInv => PC!PlaysWhatIsRecorded /\ PC!PlaysWithItsRoles
<1>1. CK!CheckoutInv => CK!PlaysWhatIsRecorded /\ CK!PlaysWithItsRoles
  BY CK!CheckoutKept
<1> QED
  BY <1>1, Zenon DEF CK!PlaysWhatIsRecorded, CK!PlaysWithItsRoles, PC!PlaysWhatIsRecorded, PC!PlaysWithItsRoles, PC!Torn, CK!Torn

-----------------------------------------------------------------------------

CopiesInv ==
    /\ part = "facts" => FactsInv
    /\ part = "setting" => SettingInv
    /\ part = "policy" => PolicyInv
    /\ part = "import" => ImportInv
    /\ part = "project" => CK!CheckoutInv

(* finish_job_fact_cache, capture_snapshot and detect_drift,                 *)
(* clear_setting_cache, apply_cluster_membership_policies,                   *)
(* load_into_database and sync_and_copy: whatever the numbers of jobs,       *)
(* processes, instances, sources, hosts, updates and commits, what is kept a *)
(* second time agrees with what it was made from (CopiesAreCurrent).         *)
THEOREM CopiesAreKept ==
    ASSUME PoliciesAssumed, ImportAssumed, CK!CheckoutAssumed
    PROVE  ServicesSpec => []CopiesAreCurrent
<1>1. ServicesInit => CopiesInv
  <2>1. PC!Init => CK!CheckoutInv
    BY CheckoutBegins, CK!CheckoutInitial
  <2> QED
    BY <2>1, FactsInit, SettingInit, PolicyInit, ImportInit DEF ServicesInit, CopiesInv
<1>2. CopiesInv /\ [ServicesNext]_allvars => CopiesInv'
  <2>1. ASSUME part = "facts", [ServicesNext]_allvars PROVE [FC!Next]_factsVars
    BY <2>1 DEF ServicesNext, allvars, serviceVars
  <2>2. ASSUME part = "setting", [ServicesNext]_allvars PROVE [SC!Next]_settingVars
    BY <2>2 DEF ServicesNext, allvars, serviceVars
  <2>3. ASSUME part = "policy", [ServicesNext]_allvars PROVE [CP!Next]_policyVars
    BY <2>3 DEF ServicesNext, allvars, clusterVars
  <2>4. ASSUME part = "import", [ServicesNext]_allvars PROVE [II!Next]_importVars
    BY <2>4 DEF ServicesNext, allvars, clusterVars
  <2>5. ASSUME part = "project", [ServicesNext]_allvars PROVE [PC!Next]_checkoutVars
    BY <2>5 DEF ServicesNext, allvars, clusterVars
  <2>6. [ServicesNext]_allvars => part' = part
    BY DEF ServicesNext, allvars
  <2> QED
    BY <2>1, <2>2, <2>3, <2>4, <2>5, <2>6, FactsStep, SettingStep, PolicyStep, ImportStep, CheckoutInCluster DEF CopiesInv
<1>3. CopiesInv => CopiesAreCurrent
  <2>1. SettingInv => SC!ClearedIsFresh
    BY DEF SettingInv
  <2> QED
    BY <2>1, FactsKept, PoliciesKept, ImportKept, CheckoutHolds DEF CopiesInv, CopiesAreCurrent
<1> QED
  BY <1>1, <1>2, <1>3, PTL DEF ServicesSpec
=============================================================================
