---------------------------- MODULE DispatchPool ----------------------------
(***************************************************************************)
(* The dispatcher's AutoscalePool of worker processes (main/dispatch/      *)
(* pool.py, main/dispatch/worker/base.py): how task messages reach the     *)
(* workers, and what happens to them when workers are added, retired,      *)
(* told to quit, signalled or killed.                                      *)
(*                                                                         *)
(* The main process is one thread; its operations are atomic, except that  *)
(* a cancel looks at the workers one by one and signals a worker after it  *)
(* looked, and that a cleanup puts the messages of dead workers back one   *)
(* by one.  The workers run beside it.  The ids of finished tasks come     *)
(* back through a pipe that the main process drains whenever it looks at   *)
(* managed_tasks, so a finished task leaves managed when it is reported.   *)
(* Left out: SIGUSR1 to a task manager that holds its lock for too long.   *)
(***************************************************************************)
EXTENDS Integers, Sequences, SequencesExt, FiniteSets

CONSTANTS
    Task,           \* the task messages, each with its uuid
    Slot,           \* process slots
    MinWorkers, MaxWorkers,
    QueueSize,      \* of every worker's queue
    MaxDeaths,      \* workers that may be killed, at most
    MaxCancels,     \* cancel control messages, at most
    MaxReloads,     \* reload control messages, at most
    None, Quit      \* no task or worker, and the message 'QUIT'

ASSUME PoolAssumption ==
    /\ IsFiniteSet(Slot)
    /\ MinWorkers \in Nat \ {0}
    /\ MaxWorkers \in Nat /\ MaxWorkers >= MinWorkers
    /\ QueueSize \in Nat \ {0}
    /\ MaxDeaths \in Nat /\ MaxCancels \in Nat /\ MaxReloads \in Nat
    /\ None \notin Task \cup Slot /\ Quit \notin Task /\ None # Quit

VARIABLES
    pool,       \* the workers of the pool
    proc,       \* the process in every slot: "none", "up" or "gone"
    queue,      \* the queue of every worker
    managed,    \* its managed_tasks, oldest first
    cur,        \* the task it is performing, or died performing
    inbox,      \* the tasks that have not been received yet
    orphaned,   \* the messages of dead workers that a cleanup puts back
    cancel,     \* the cancel in progress: its task, the workers still to
                \* look at and the one that is about to be signalled
    begun,      \* how often every task was begun
    done,       \* the tasks whose end was reported
    refused,    \* the tasks that some full queue refused
    lost,       \* the tasks dropped because of full queues
    reaped,     \* the tasks whose jobs a cleanup marked failed
    budget      \* what is left of the bounded events

vars == <<pool, proc, queue, managed, cur, inbox, orphaned, cancel, begun, done, refused, lost, reaped, budget>>

Busy(w) == managed[w] # <<>>
Queued(w) == {queue[w][i] : i \in DOMAIN queue[w]} \ {Quit}
FullQueue(w) == Len(queue[w]) >= QueueSize
NoCancel == [task |-> None, todo |-> {}, at |-> None]
MainFree == orphaned = <<>> /\ cancel = NoCancel

TypeOK ==
    /\ pool \subseteq Slot
    /\ proc \in [Slot -> {"none", "up", "gone"}]
    /\ queue \in [Slot -> Seq(Task \cup {Quit})]
    /\ managed \in [Slot -> Seq(Task)]
    /\ cur \in [Slot -> Task \cup {None}]
    /\ inbox \subseteq Task
    /\ orphaned \in Seq(Task)
    /\ cancel \in [task : Task \cup {None}, todo : SUBSET Slot, at : Slot \cup {None}]
    /\ begun \in [Task -> Nat]
    /\ done \subseteq Task /\ refused \subseteq Task /\ lost \subseteq Task /\ reaped \subseteq Task
    /\ budget \in [deaths : 0..MaxDeaths, cancels : 0..MaxCancels, reloads : 0..MaxReloads]

(* init_workers starts the least number of workers. *)
Init ==
    /\ pool \in SUBSET Slot /\ Cardinality(pool) = MinWorkers
    /\ proc = [w \in Slot |-> IF w \in pool THEN "up" ELSE "none"]
    /\ queue = [w \in Slot |-> <<>>]
    /\ managed = [w \in Slot |-> <<>>]
    /\ cur = [w \in Slot |-> None]
    /\ inbox = Task
    /\ orphaned = <<>>
    /\ cancel = NoCancel
    /\ begun = [t \in Task |-> 0]
    /\ done = {} /\ refused = {} /\ lost = {} /\ reaped = {}
    /\ budget = [deaths |-> MaxDeaths, cancels |-> MaxCancels, reloads |-> MaxReloads]

-----------------------------------------------------------------------------
(***************************************************************************)
(* Writing a message.  A new worker is started first when there are too    *)
(* few or all are busy.  A worker counts as busy by its managed_tasks, dead*)
(* or alive.                                                               *)
(***************************************************************************)
Free == {w \in Slot : proc[w] = "none"}
Up(p) == {p \cup {w} : w \in Free \ p}
ShouldGrow(p) == Cardinality(p) < MinWorkers \/ \A w \in p : Busy(w)

(* The pools after should_grow and, where it says so, AutoscalePool.up. *)
Grown(p) == IF ShouldGrow(p) /\ Cardinality(p) # MaxWorkers THEN Up(p) ELSE {p}

FaultyRegister(t, ws) == managed    \* forgets to register the message

(* put() registers the message before it waits for room in the queue, so   *)
(* that it stays registered with a worker whose queue was full.            *)
Register(t, ws) ==
    [w \in Slot |-> IF w \in ws /\ ~Contains(managed[w], t)
                    THEN Append(managed[w], t) ELSE managed[w]]

(* To some idle worker if there is one, and dropped if even its queue is   *)
(* full; otherwise to the first worker, in some order, that has room, and  *)
(* dropped if none has.                                                    *)
Put(t, p) ==
    \/ \E w \in p :
          /\ ~Busy(w) /\ ~FullQueue(w)
          /\ managed' = Register(t, {w})
          /\ queue' = [queue EXCEPT ![w] = Append(@, t)]
          /\ UNCHANGED <<refused, lost>>
    \/ \E w \in p, tried \in SUBSET p :
          /\ \A v \in p : Busy(v)
          /\ ~FullQueue(w) /\ \A v \in tried : FullQueue(v)
          /\ managed' = Register(t, tried \cup {w})
          /\ queue' = [queue EXCEPT ![w] = Append(@, t)]
          /\ refused' = IF tried = {} THEN refused ELSE refused \cup {t}
          /\ UNCHANGED lost
    \/ \E tried \in SUBSET p :
          /\ \A w \in tried : FullQueue(w)
          /\ \/ \E w \in p : ~Busy(w) /\ tried = {w}
             \/ tried = p /\ \A w \in p : Busy(w)
          /\ managed' = Register(t, tried)
          /\ refused' = refused \cup {t}
          /\ lost' = lost \cup {t}
          /\ UNCHANGED queue

Write(t, base) ==
    \E p \in Grown(base) :
        /\ pool' = p
        /\ proc' = [w \in Slot |-> IF w \in p \ pool THEN "up" ELSE proc[w]]
        /\ Put(t, p)

Receive(t) ==
    /\ MainFree
    /\ t \in inbox
    /\ inbox' = inbox \ {t}
    /\ Write(t, pool)
    /\ UNCHANGED <<cur, orphaned, cancel, begun, done, reaped, budget>>

(* If all the workers are dead, a cleanup first spawns one. *)
Requeue ==
    /\ orphaned # <<>>
    /\ \E base \in IF pool = {} THEN Up(pool) ELSE {pool} : Write(Head(orphaned), base)
    /\ orphaned' = Tail(orphaned)
    /\ UNCHANGED <<cur, inbox, cancel, begun, done, reaped, budget>>

-----------------------------------------------------------------------------
(***************************************************************************)
(* A worker's loop.                                                        *)
(***************************************************************************)
(* A worker that the pool has dropped leaves nothing behind. *)
Exit(w, q) ==
    /\ proc' = [proc EXCEPT ![w] = IF w \in pool THEN "gone" ELSE "none"]
    /\ queue' = [queue EXCEPT ![w] = IF w \in pool THEN q ELSE <<>>]

WorkerTake(w) ==
    /\ proc[w] = "up" /\ cur[w] = None
    /\ queue[w] # <<>> /\ Head(queue[w]) # Quit
    /\ cur' = [cur EXCEPT ![w] = Head(queue[w])]
    /\ begun' = [begun EXCEPT ![Head(queue[w])] = @ + 1]
    /\ queue' = [queue EXCEPT ![w] = Tail(@)]
    /\ UNCHANGED <<pool, proc, managed, inbox, orphaned, cancel, done, refused, lost, reaped, budget>>

WorkerQuit(w) ==
    /\ proc[w] = "up" /\ cur[w] = None
    /\ queue[w] # <<>> /\ Head(queue[w]) = Quit
    /\ Exit(w, Tail(queue[w]))
    /\ UNCHANGED <<pool, managed, cur, inbox, orphaned, cancel, begun, done, refused, lost, reaped, budget>>

(* The end of a task removes its id from managed_tasks, if it is there. *)
Without(s, t) ==
    IF Contains(s, t) THEN RemoveAt(s, CHOOSE i \in DOMAIN s : s[i] = t) ELSE s

WorkerFinish(w) ==
    /\ proc[w] = "up" /\ cur[w] # None
    /\ managed' = [managed EXCEPT ![w] = Without(@, cur[w])]
    /\ done' = done \cup {cur[w]}
    /\ cur' = [cur EXCEPT ![w] = None]
    /\ UNCHANGED <<pool, proc, queue, inbox, orphaned, cancel, begun, refused, lost, reaped, budget>>

(* A worker is killed, whatever it does. *)
WorkerDie(w) ==
    /\ proc[w] = "up"
    /\ budget.deaths > 0
    /\ budget' = [budget EXCEPT !.deaths = @ - 1]
    /\ Exit(w, queue[w])
    /\ UNCHANGED <<pool, managed, cur, inbox, orphaned, cancel, begun, done, refused, lost, reaped>>

-----------------------------------------------------------------------------
(***************************************************************************)
(* Control messages and the periodic cleanup.                              *)
(***************************************************************************)
Looking(t, todo) == IF todo = {} THEN NoCancel ELSE [task |-> t, todo |-> todo, at |-> None]

CancelStart(t) ==
    /\ MainFree
    /\ budget.cancels > 0
    /\ budget' = [budget EXCEPT !.cancels = @ - 1]
    /\ cancel' = Looking(t, pool)
    /\ UNCHANGED <<pool, proc, queue, managed, cur, inbox, orphaned, begun, done, refused, lost, reaped>>

CancelLook(w) ==
    /\ cancel.at = None
    /\ w \in cancel.todo
    /\ LET hit == Busy(w) /\ Head(managed[w]) = cancel.task
           rest == cancel.todo \ {w}
       IN cancel' = IF hit THEN [cancel EXCEPT !.todo = rest, !.at = w]
                           ELSE Looking(cancel.task, rest)
    /\ UNCHANGED <<pool, proc, queue, managed, cur, inbox, orphaned, begun, done, refused, lost, reaped, budget>>

(* SIGTERM has its default action in a worker and kills it, in the middle  *)
(* of its task or between two, unless the task in hand handles the signal; *)
(* then the worker goes on.  A process that is gone may be signalled in    *)
(* vain or raise an error, which ends the cancel.                          *)
CancelKill ==
    /\ cancel.at # None
    /\ LET w == cancel.at IN
       \/ /\ proc[w] = "up"
          /\ Exit(w, queue[w])
          /\ cancel' = Looking(cancel.task, cancel.todo)
       \/ /\ proc[w] = "up" /\ cur[w] # None
          /\ cancel' = Looking(cancel.task, cancel.todo)
          /\ UNCHANGED <<proc, queue>>
       \/ /\ proc[w] = "gone"
          /\ \E todo \in {cancel.todo, {}} : cancel' = Looking(cancel.task, todo)
          /\ UNCHANGED <<proc, queue>>
    /\ UNCHANGED <<pool, managed, cur, inbox, orphaned, begun, done, refused, lost, reaped, budget>>

(* quit() waits until there is room for the message. *)
Reload ==
    /\ MainFree
    /\ budget.reloads > 0
    /\ budget' = [budget EXCEPT !.reloads = @ - 1]
    /\ \A w \in pool : ~FullQueue(w)
    /\ queue' = [w \in Slot |-> IF w \in pool THEN Append(queue[w], Quit) ELSE queue[w]]
    /\ UNCHANGED <<pool, proc, managed, cur, inbox, orphaned, cancel, begun, done, refused, lost, reaped>>

FaultyGone == {}                    \* does not notice dead workers
Gone == {w \in pool : proc[w] = "gone"}
Idle == {w \in pool : proc[w] = "up" /\ ~Busy(w)}

FaultyForgets(w) == <<>>            \* leaves the messages in the queue
FaultyManaged(w) == managed[w]      \* puts back all that was registered
FaultyQuit(w) == queue[w]           \* puts back 'QUIT' as well

(* orphaned_tasks: what waits in the queue of a dead worker. *)
Messages(w) ==
    FlattenSeq([i \in DOMAIN queue[w] |->
                   IF queue[w][i] = Quit THEN <<>> ELSE <<queue[w][i]>>])

FaultyCurrentTask(w) == {}          \* reaps nothing
CurrentTask(w) == IF Busy(w) THEN {Head(managed[w])} ELSE {}

(* The idle workers r may be retired: one by one in the order of the pool, *)
(* dead ones removed in between, while there are more than min_workers.    *)
Retirable(r) ==
    /\ r = {} \/ Cardinality(r) <= Cardinality(pool) - MinWorkers
    /\ r = Idle \/ Cardinality(r) >= Cardinality(pool \ Gone) - MinWorkers

Cleanup ==
    /\ MainFree
    /\ \E r \in SUBSET Idle :
          /\ Retirable(r)
          /\ Gone \cup r # {}
          /\ \A w \in r : ~FullQueue(w)
          /\ pool' = pool \ (Gone \cup r)
          /\ queue' = [w \in Slot |-> IF w \in Gone THEN <<>>
                                      ELSE IF w \in r THEN Append(queue[w], Quit)
                                      ELSE queue[w]]
    /\ proc' = [w \in Slot |-> IF w \in Gone THEN "none" ELSE proc[w]]
    /\ cur' = [w \in Slot |-> IF w \in Gone THEN None ELSE cur[w]]
    /\ managed' = [w \in Slot |-> IF w \in Gone THEN <<>> ELSE managed[w]]
    /\ reaped' = reaped \cup UNION {CurrentTask(w) : w \in Gone}
    /\ \E order \in SetToSeqs(Gone) :
          orphaned' = FlattenSeq([i \in DOMAIN order |-> Messages(order[i])])
    /\ UNCHANGED <<inbox, cancel, begun, done, refused, lost, budget>>

Next ==
    \/ \E t \in Task : Receive(t) \/ CancelStart(t)
    \/ Requeue \/ CancelKill \/ Reload \/ Cleanup
    \/ \E w \in Slot : \/ WorkerTake(w) \/ WorkerQuit(w) \/ WorkerFinish(w)
                      \/ WorkerDie(w) \/ CancelLook(w)

Spec == Init /\ [][Next]_vars

(* The main loop goes on receiving, works through what it began and cleans *)
(* up periodically; live workers go on and the tasks they perform end.     *)
(* Nothing has to die, to be cancelled or to be reloaded.                  *)
Fairness ==
    /\ \A t \in Task : WF_vars(Receive(t))
    /\ WF_vars(Requeue) /\ WF_vars(CancelKill) /\ WF_vars(Cleanup)
    /\ \A w \in Slot : /\ WF_vars(CancelLook(w))
                       /\ WF_vars(WorkerTake(w) \/ WorkerQuit(w) \/ WorkerFinish(w))

FairSpec == Spec /\ Fairness

-----------------------------------------------------------------------------
(* No task is begun twice, although the messages of dead, killed and       *)
(* reloaded workers are put back and a message may be registered with      *)
(* several workers (pool.write, cleanup, orphaned_tasks).                  *)
NoTaskTwice == \A t \in Task : begun[t] <= 1

(* No task disappears: until it is begun it waits in the queue of a worker *)
(* of the pool or is being put back, unless a full queue refused it.       *)
NothingLost ==
    \A t \in Task \ (inbox \cup lost) :
        begun[t] = 0 => Contains(orphaned, t) \/ \E w \in pool : t \in Queued(w)

(* What a worker has in hand or in its queue is registered in its          *)
(* managed_tasks, and a retired worker has nothing: the reapers spare the  *)
(* jobs whose ids the pool manages.                                        *)
WorkIsManaged ==
    \A w \in Slot : \A t \in Queued(w) \cup ({cur[w]} \ {None}) :
        w \in pool /\ Contains(managed[w], t)

(* As long as no full queue refused a message: a task that was begun is in *)
(* the hand of a worker, or has ended, or its worker died and the cleanup  *)
(* that dropped the worker failed its job.  No job is left without a       *)
(* process and without an end.                                             *)
NothingAbandoned ==
    refused = {} => \A t \in Task : begun[t] > 0 =>
        t \in done \cup reaped \/ \E w \in pool : cur[w] = t

(* What the comments of cleanup say: it fails the job that a dead worker   *)
(* was running, and sends what was only pending to another worker.         *)
ReapsOnlyRunning == \A t \in reaped : begun[t] > 0

(* Every task is begun, or dropped because of full queues. *)
EveryTaskIsBegun == \A t \in Task : <>(begun[t] > 0 \/ t \in lost)
=============================================================================
