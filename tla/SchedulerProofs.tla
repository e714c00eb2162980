--------------------------- MODULE SchedulerProofs ---------------------------
(***************************************************************************)
(* For every set of tasks, nodes and groups, all limits and every order of *)
(* the actions: tasks that block each other are never active together (the *)
(* invariant IInv); a task becomes active after what it depends on, and    *)
(* depends on an update of all it wants updated (Ordered, on top of IInv); *)
(* no pass gives an instance more than its capacity but by one job that is *)
(* too large, and no container group more than its limits: what tasks take *)
(* is a sum that a pass adds to, CapacityInv says that it is the sum over  *)
(* the graph, and what that sum is at most.                                *)
(***************************************************************************)
EXTENDS Scheduler, SequenceLemmas, TLAPS

(* There are tasks up to count. *)
Counted ==
    /\ count \in 0..MaxTasks
    /\ status \in [Task -> Unfinished \cup Finished \cup {None}]
    /\ \A t \in Task : status[t] # None => t <= count
    /\ DOMAIN task = Task

(* What a pass keeps of its tasks; the other fields do not matter here. *)
PassType ==
    /\ DOMAIN pass = {"on", "seen", "new", "place", "used", "jobs", "graph",
                      "todo", "ready", "limit"}
    /\ pass.on \in BOOLEAN
    /\ pass.new \in [Task -> {"waiting", "running", "failed", None}]
    /\ pass.graph \subseteq 1..count
    /\ pass.todo \subseteq 1..count
    /\ \A t \in Task : pass.new[t] # None => t <= count

(* Active tasks have been through the DependencyManager, and the graph of a *)
(* pass has all of them, with those that it starts: no one else starts any. *)
GraphHasActive ==
    /\ \A t \in Task : status[t] \in Active => t \in processed
    /\ pass.todo \subseteq processed
    /\ \A t \in Task : pass.new[t] \in Active => t \in processed
    /\ pass.on => \A t \in Task :
         status[t] \in Active \/ pass.new[t] \in Active => t \in pass.graph

(* The tasks of a graph may be active together ... *)
GraphCompatible ==
    pass.on => \A t, u \in pass.graph : t # u => ~(Blocks(t, u) /\ Blocks(u, t))

(* ... and what is active outside the pass blocks nothing that it starts. *)
StartedUnblocked ==
    pass.on => \A t, u \in Task :
      pass.new[t] \in Active /\ status[u] \in Active => ~Blocks(u, t)

IInv ==
    /\ Counted
    /\ PassType
    /\ GraphHasActive
    /\ GraphCompatible
    /\ StartedUnblocked
    /\ NoConflict

(* None is not the status of a task. *)
LEMMA StatusFacts ==
    /\ MaxTasks \in Nat
    /\ None \notin Active /\ None # "pending" /\ None # "failed"
    /\ Active \subseteq Unfinished
    /\ \A s \in Finished \cup {"pending", "failed", None} : s \notin Active
    /\ Outcomes \subseteq Finished
BY SchedulerAssumption DEF Active, Unfinished, Finished

(* Whether tasks block each other does not depend on anything but the two. *)
LEMMA BlocksSame ==
    ASSUME NEW t \in Task, NEW u \in Task, task'[t] = task[t], task'[u] = task[u]
    PROVE  Blocks(u, t)' <=> Blocks(u, t)
BY DEF Blocks

LEMMA InitIInv == Init => IInv
<1> SUFFICES ASSUME Init PROVE IInv
    OBVIOUS
<1> USE DEF Init
<1>1. Counted
    BY StatusFacts DEF Counted, Unfinished, Task
<1>2. PassType
    BY DEF PassType, Idle
<1>3. GraphHasActive /\ GraphCompatible /\ StartedUnblocked /\ NoConflict
    BY StatusFacts DEF GraphHasActive, GraphCompatible, StartedUnblocked, NoConflict, Idle
<1> QED
    BY <1>1, <1>2, <1>3 DEF IInv

(* An action outside the pass that makes no task active. *)
LEMMA QuietStep ==
    ASSUME IInv, Counted', pass' = pass, count <= count',
           processed \subseteq processed',
           \A t \in Task : status'[t] \in Active => status[t] \in Active,
           \A t \in 1..count : task'[t] = task[t]
    PROVE  IInv'
<1> USE DEF IInv
<1>0. \A t \in Task : t \in 1..count <=> t <= count
    BY SchedulerAssumption DEF Task, Counted
<1>1. PassType'
  <2>1. count \in Nat /\ count' \in Nat
      BY SchedulerAssumption DEF Counted
  <2>2. 1..count \subseteq 1..count' /\ \A t \in Task : t <= count => t <= count'
      BY <2>1 DEF Task
  <2> QED
      BY <2>2 DEF PassType
<1>2. GraphHasActive'
    BY DEF GraphHasActive
<1>3. GraphCompatible'
    BY BlocksSame, SchedulerAssumption DEF GraphCompatible, PassType, Counted, Task
<1>4. StartedUnblocked'
    BY <1>0, BlocksSame, StatusFacts DEF StartedUnblocked, PassType, Counted
<1>5. NoConflict'
    BY <1>0, BlocksSame, StatusFacts DEF NoConflict, Counted
<1> QED
    BY <1>1, <1>2, <1>3, <1>4, <1>5

LEMMA LaunchStep ==
    ASSUME IInv, NEW r \in Launchable, Launch(r)
    PROVE  IInv'
<1> USE DEF IInv, Launch
<1>1. Counted'
    BY SchedulerAssumption, StatusFacts DEF Counted, Unfinished, Task
<1>2. \A t \in Task : status'[t] \in Active => status[t] \in Active
    BY StatusFacts DEF Counted
<1>3. count \in Nat /\ count' = count + 1
    BY SchedulerAssumption DEF Counted
<1>4. \A t \in 1..count : task'[t] = task[t]
    BY <1>3, SchedulerAssumption DEF Counted, Task
<1> QED
    BY <1>1, <1>2, <1>3, <1>4, QuietStep

LEMMA FinishStep ==
    ASSUME IInv, NEW t \in Task, NEW result \in Outcomes, Finish(t, result)
    PROVE  IInv'
<1> USE DEF IInv, Finish
<1>1. Counted'
    BY StatusFacts DEF Counted
<1>2. \A u \in Task : status'[u] \in Active => status[u] \in Active
    BY StatusFacts DEF Counted
<1> QED
    BY <1>1, <1>2, SchedulerAssumption, QuietStep DEF Counted

LEMMA CancelStep ==
    ASSUME IInv, NEW t \in Task, Cancel(t)
    PROVE  IInv'
<1> USE DEF IInv
<1>1. PICK hit : /\ \A u \in hit : status[u] = "pending"
                 /\ status' = [u \in Task |-> IF u \in hit THEN "canceled" ELSE status[u]]
    BY DEF Cancel
<1>2. /\ UNCHANGED <<count, task, processed, pass>>
      /\ count <= count'
    BY SchedulerAssumption DEF Cancel, Counted
<1>3. Counted'
    BY <1>1, <1>2, StatusFacts DEF Counted, Finished
<1>4. \A u \in Task : status'[u] \in Active => status[u] \in Active
    BY <1>1, StatusFacts DEF Finished
<1> QED
    BY <1>2, <1>3, <1>4, QuietStep

LEMMA DependencyStep ==
    ASSUME IInv, DependencyPass
    PROVE  IInv'
<1> USE DEF IInv
<1>1. /\ count' \in count..MaxTasks
      /\ \A t \in Task : t \notin (count + 1)..count' => task'[t] = task[t]
      /\ DOMAIN task' = Task
      /\ status' = [t \in Task |-> IF t \in (count + 1)..count' THEN "pending" ELSE status[t]]
      /\ processed \subseteq processed'
      /\ pass' = pass
    BY DEF DependencyPass, Manage
<1>2. count \in Nat
    BY SchedulerAssumption DEF Counted
<1>3. Counted'
    BY <1>1, <1>2, SchedulerAssumption, StatusFacts DEF Counted, Unfinished, Task
<1>4. \A t \in Task : status'[t] \in Active => status[t] \in Active
    BY <1>1, StatusFacts
<1>5. \A t \in 1..count : task'[t] = task[t]
    BY <1>1, <1>2, SchedulerAssumption DEF Task, Counted
<1> QED
    BY <1>1, <1>2, <1>3, <1>4, <1>5, SchedulerAssumption, QuietStep

(* Cache timeouts, nodes. *)
LEMMA ElsewhereStep ==
    ASSUME IInv, UNCHANGED <<count, task, status, processed, pass>>
    PROVE  IInv'
<1>1. Counted' /\ count <= count'
    BY SchedulerAssumption DEF IInv, Counted
<1> QED
    BY <1>1, QuietStep

LEMMA BeginStep ==
    ASSUME IInv, BeginPass
    PROVE  IInv'
<1> USE DEF IInv
<1>1. /\ UNCHANGED <<count, task, status, processed>>
      /\ DOMAIN pass' = DOMAIN Idle
      /\ pass'.on = TRUE
      /\ pass'.new = [t \in Task |->
                        IF /\ status[t] \in Active
                           /\ place[t].execution # None
                           /\ nodes[place[t].execution] = "gone"
                          THEN "failed" ELSE None]
      /\ pass'.graph = {t \in 1..count : t \in processed /\ status[t] \in Active}
      /\ pass'.todo = {t \in 1..count : t \in processed /\ status[t] = "pending"}
    BY DEF BeginPass, Idle
<1>2. \A t \in Task : pass'.new[t] \notin Active
    BY <1>1, StatusFacts DEF Finished
<1>3. \A t \in Task : status[t] \in Active => t \in 1..count
    BY StatusFacts, SchedulerAssumption DEF Counted, Task
<1>4. 1..count \subseteq Task
    BY SchedulerAssumption DEF Counted, Task
<1>5. Counted' /\ NoConflict'
    BY <1>1, BlocksSame DEF Counted, NoConflict
<1>6. PassType'
  <2>1. \A t \in Task : pass'.new[t] # None => t <= count
      BY <1>1, <1>3
  <2>2. pass'.new \in [Task -> {"waiting", "running", "failed", None}]
      BY <1>1
  <2> QED
      BY <1>1, <2>1, <2>2 DEF PassType, Idle
<1>7. GraphHasActive'
    BY <1>1, <1>2, <1>3 DEF GraphHasActive
<1>8. GraphCompatible'
  <2> SUFFICES ASSUME NEW t \in pass'.graph, NEW u \in pass'.graph, t # u
               PROVE  ~(Blocks(t, u)' /\ Blocks(u, t)')
      BY DEF GraphCompatible
  <2>1. /\ t \in Task /\ u \in Task /\ status[t] \in Active /\ status[u] \in Active
      BY <1>1, <1>4
  <2>2. ~(Blocks(t, u) /\ Blocks(u, t))
      BY <2>1 DEF NoConflict
  <2> QED
      BY <1>1, <2>1, <2>2, BlocksSame
<1>9. StartedUnblocked'
    BY <1>2 DEF StartedUnblocked
<1> QED
    BY <1>5, <1>6, <1>7, <1>8, <1>9

(* A task is dealt with and not started. *)
LEMMA HandledStep ==
    ASSUME IInv, NEW t \in Task, t <= count,
           UNCHANGED <<count, task, status, processed>>,
           \/ pass' = [pass EXCEPT !.todo = @ \ {t}]
           \/ pass' = [pass EXCEPT !.todo = @ \ {t}, !.new[t] = "failed"]
    PROVE  IInv'
<1> USE DEF IInv
<1>1. /\ DOMAIN pass' = DOMAIN pass
      /\ pass'.on = pass.on /\ pass'.graph = pass.graph
      /\ pass'.todo = pass.todo \ {t}
      /\ pass'.new \in [Task -> {"waiting", "running", "failed", None}]
      /\ \A u \in Task : pass'.new[u] = pass.new[u] \/ (u = t /\ pass'.new[u] = "failed")
  <2>1. CASE pass' = [pass EXCEPT !.todo = @ \ {t}]
      BY <2>1 DEF PassType
  <2>2. CASE pass' = [pass EXCEPT !.todo = @ \ {t}, !.new[t] = "failed"]
    <3>1. /\ DOMAIN pass' = DOMAIN pass
          /\ pass'.on = pass.on /\ pass'.graph = pass.graph
          /\ pass'.todo = pass.todo \ {t}
          /\ pass'.new = [pass.new EXCEPT ![t] = "failed"]
        BY <2>2 DEF PassType
    <3> QED
        BY <3>1 DEF PassType
  <2> QED
      BY <2>1, <2>2
<1>2. \A u \in Task : pass'.new[u] \in Active => pass.new[u] \in Active
    BY <1>1, StatusFacts
<1>3. Counted' /\ NoConflict'
    BY BlocksSame DEF Counted, NoConflict
<1>4. PassType'
    BY <1>1, StatusFacts DEF PassType
<1>5. GraphHasActive'
    BY <1>1, <1>2 DEF GraphHasActive
<1>6. GraphCompatible'
    BY <1>1, BlocksSame, SchedulerAssumption DEF GraphCompatible, PassType, Counted, Task
<1>7. StartedUnblocked'
    BY <1>1, <1>2, BlocksSame DEF StartedUnblocked
<1> QED
    BY <1>3, <1>4, <1>5, <1>6, <1>7

LEMMA StartStep ==
    ASSUME IInv, NEW t \in Task, NEW where, NEW ok \in BOOLEAN,
           IsNext(t), ~IsBlocked(t), StartTask(t, where, ok)
    PROVE  IInv'
<1> USE DEF IInv
<1>1. /\ UNCHANGED <<count, task, status, processed>>
      /\ t \in pass.todo /\ pass.on
    BY DEF StartTask, Handled, IsNext
<1>2. /\ DOMAIN pass' = DOMAIN pass
      /\ pass'.on = pass.on
      /\ pass'.graph = pass.graph \cup {t}
      /\ pass'.todo = pass.todo \ {t}
      /\ pass'.new = [pass.new EXCEPT ![t] = IF ~ok THEN "failed"
                        ELSE IF task[t].kind = "workflow" THEN "running"
                        ELSE "waiting"]
    BY DEF StartTask, PassType
<1>3. \A u \in pass.graph : ~Blocks(u, t)
    BY DEF IsBlocked
<1>4. \A u \in Task : u # t => pass'.new[u] = pass.new[u]
    BY <1>2 DEF PassType
<1>5. Counted' /\ NoConflict'
    BY <1>1, BlocksSame DEF Counted, NoConflict
<1>6. PassType'
    BY <1>1, <1>2, SchedulerAssumption DEF PassType, Counted, Task
<1>7. GraphHasActive'
    BY <1>1, <1>2, <1>4 DEF GraphHasActive
<1>8. GraphCompatible'
    BY <1>1, <1>2, <1>3, BlocksSame, SchedulerAssumption
       DEF GraphCompatible, PassType, Counted, Task
<1>9. StartedUnblocked'
  <2> SUFFICES ASSUME NEW r \in Task, NEW u \in Task,
                      pass'.new[r] \in Active, status'[u] \in Active
               PROVE  ~Blocks(u, r)'
      BY DEF StartedUnblocked
  <2>1. CASE r = t
    <3>1. u \in pass.graph
        BY <1>1 DEF GraphHasActive
    <3> QED
        BY <1>1, <1>3, <2>1, <3>1, BlocksSame
  <2>2. CASE r # t
      BY <1>1, <1>4, <2>2, BlocksSame DEF StartedUnblocked
  <2> QED
      BY <2>1, <2>2
<1> QED
    BY <1>5, <1>6, <1>7, <1>8, <1>9

(* A pass is over: what it has written is committed, or lost. *)
LEMMA CommitStep ==
    ASSUME IInv, pass.on, Commit
    PROVE  IInv'
<1> USE DEF IInv
<1>1. /\ status' = [t \in Task |-> IF pass.new[t] # None THEN pass.new[t] ELSE status[t]]
      /\ UNCHANGED <<count, task, processed>>
      /\ pass' = Idle
    BY DEF Commit, Locked
<1>2. \A t \in Task : status'[t] \in Active => t \in pass.graph
    BY <1>1 DEF GraphHasActive
<1>3. Counted'
    BY <1>1 DEF Counted, PassType, Unfinished, Active, Finished
<1>4. PassType'
    BY <1>1 DEF PassType, Idle
<1>5. \A t \in Task : status'[t] \in Active => t \in processed
    BY <1>1 DEF GraphHasActive
<1>6. GraphHasActive' /\ GraphCompatible' /\ StartedUnblocked'
    BY <1>1, <1>5, StatusFacts DEF GraphHasActive, GraphCompatible, StartedUnblocked, Idle
<1>7. NoConflict'
    BY <1>1, <1>2, BlocksSame DEF NoConflict, GraphCompatible
<1> QED
    BY <1>3, <1>4, <1>6, <1>7

LEMMA AbortStep ==
    ASSUME IInv, Abort
    PROVE  IInv'
<1> USE DEF IInv
<1>1. UNCHANGED <<count, task, status, processed>> /\ pass' = Idle
    BY DEF Abort
<1>2. Counted' /\ NoConflict'
    BY <1>1, BlocksSame DEF Counted, NoConflict
<1>3. PassType'
    BY <1>1 DEF PassType, Idle
<1>4. GraphHasActive' /\ GraphCompatible' /\ StartedUnblocked'
    BY <1>1, StatusFacts DEF GraphHasActive, GraphCompatible, StartedUnblocked, Idle
<1> QED
    BY <1>2, <1>3, <1>4

(* Every step preserves the invariant. *)
LEMMA NextIInv == IInv /\ [Next]_vars => IInv'
<1> SUFFICES ASSUME IInv, [Next]_vars PROVE IInv'
    OBVIOUS
<1>1. ASSUME NEW r \in Launchable, Launch(r) PROVE IInv'
    BY <1>1, LaunchStep
<1>2. ASSUME NEW t \in Task, NEW result \in Outcomes, Finish(t, result) PROVE IInv'
    BY <1>2, FinishStep
<1>3. ASSUME NEW t \in Task, Cancel(t) PROVE IInv'
    BY <1>3, CancelStep
<1>4. ASSUME NEW t \in Task, CacheExpires(t) PROVE IInv'
    BY <1>4, ElsewhereStep DEF CacheExpires
<1>5. ASSUME NEW n \in Node, NEW s, NodeLeaves(n, s) PROVE IInv'
    BY <1>5, ElsewhereStep DEF NodeLeaves
<1>6. ASSUME NEW n \in Node, NodeReturns(n) PROVE IInv'
    BY <1>6, ElsewhereStep DEF NodeReturns
<1>7. CASE DependencyPass
    BY <1>7, DependencyStep
<1>8. CASE BeginPass
    BY <1>8, BeginStep
<1>9. ASSUME NEW t \in pass.todo, HandleNext(t) PROVE IInv'
  <2>1. t \in Task /\ t <= count
      BY SchedulerAssumption DEF IInv, PassType, Counted, Task
  <2>2. CASE FailDependent(t)
      BY <2>1, <2>2, HandledStep DEF FailDependent, Handled
  <2>3. CASE Postpone(t)
      BY <2>1, <2>3, HandledStep DEF Postpone, Handled
  <2>4. ASSUME NEW ok \in BOOLEAN, StartWorkflow(t, ok) PROVE IInv'
      BY <2>1, <2>4, StartStep DEF StartWorkflow
  <2>5. ASSUME NEW ok \in BOOLEAN, StartPlaced(t, ok) PROVE IInv'
    <3>1. PICK where : StartTask(t, where, ok)
        BY <2>5 DEF StartPlaced
    <3> QED
        BY <2>1, <2>5, <3>1, StartStep DEF StartPlaced
  <2> QED
      BY <1>9, <2>2, <2>3, <2>4, <2>5 DEF HandleNext
<1>10. CASE EndPass
    BY <1>10, CommitStep DEF EndPass
<1>11. CASE TimeOut
    BY <1>11, CommitStep DEF TimeOut
<1>12. CASE Abort
    BY <1>12, AbortStep
<1>13. CASE UNCHANGED vars
    BY <1>13, ElsewhereStep DEF vars
<1> QED
    BY <1>1, <1>2, <1>3, <1>4, <1>5, <1>6, <1>7, <1>8, <1>9, <1>10, <1>11,
       <1>12, <1>13 DEF Next, PassStep

(* DependencyGraph: of two tasks that block each other one is not active,   *)
(* although each pass works on statuses that may be old when it commits.    *)
THEOREM ConflictFree == Spec => []NoConflict
<1>1. IInv => NoConflict
    BY DEF IInv
<1> QED
    BY <1>1, InitIInv, NextIInv, PTL DEF Spec

(* DependencyGraph, TaskManager.process_pending_tasks: nothing that is      *)
(* active when a task becomes active blocks it.                             *)
THEOREM StartsAreUnblocked == Spec => StartsUnblocked
<1> DEFINE Unblocked ==
      \A t \in Task : status[t] \notin Active /\ status'[t] \in Active
        => \A u \in Task \ {t} : status[u] \in Active => ~Blocks(u, t)
<1>1. IInv /\ [Next]_vars => [Unblocked]_vars
  <2> SUFFICES ASSUME IInv, Next,
                      NEW t \in Task, status[t] \notin Active, status'[t] \in Active,
                      NEW u \in Task, status[u] \in Active
               PROVE  ~Blocks(u, t)
      OBVIOUS
  <2>1. pass.on /\ Commit
    <3>1. UNCHANGED status => FALSE
        OBVIOUS
    <3>2. ASSUME NEW r \in Launchable, Launch(r) PROVE FALSE
        BY <3>2, StatusFacts DEF Launch, IInv, Counted
    <3>3. ASSUME NEW x \in Task, NEW result \in Outcomes, Finish(x, result) PROVE FALSE
        BY <3>3, StatusFacts DEF Finish, IInv, Counted
    <3>4. ASSUME NEW x \in Task, Cancel(x) PROVE FALSE
        BY <3>4, StatusFacts DEF Cancel, Finished
    <3>5. ASSUME DependencyPass PROVE FALSE
      <4>1. status' = [x \in Task |-> IF x \in (count + 1)..count' THEN "pending" ELSE status[x]]
          BY <3>5 DEF DependencyPass, Manage
      <4> QED
          BY <4>1, StatusFacts
    <3>6. ASSUME NEW x \in pass.todo, HandleNext(x) PROVE UNCHANGED status
        BY <3>6 DEF HandleNext, FailDependent, Postpone, StartWorkflow, StartPlaced,
                    StartTask, Handled
    <3> QED
        BY <3>1, <3>2, <3>3, <3>4, <3>5, <3>6
           DEF Next, PassStep, CacheExpires, NodeLeaves, NodeReturns, BeginPass,
               EndPass, TimeOut, Abort
  <2>2. pass.new[t] \in Active
      BY <2>1 DEF Commit, Locked
  <2> QED
      BY <2>1, <2>2 DEF IInv, StartedUnblocked
<1> QED
    BY <1>1, InitIInv, NextIInv, PTL DEF Spec, StartsUnblocked

-----------------------------------------------------------------------------
(* The helpers of the DependencyManager: what its sequences hold. *)

(* The elements of a sequence at chosen indices.                            *)
LEMMA KeepFacts ==
    ASSUME NEW S, NEW seq \in Seq(S), NEW chosen
    PROVE  /\ Keep(seq, chosen) \in Seq(S)
           /\ ToSet(Keep(seq, chosen)) = {seq[i] : i \in DOMAIN seq \cap chosen}
<1> DEFINE parts == [i \in DOMAIN seq |-> IF i \in chosen THEN <<seq[i]>> ELSE <<>>]
           kept == FlattenSeq(parts)
<1>1. /\ parts \in Seq(Seq(S)) /\ Len(parts) = Len(seq)
      /\ DOMAIN seq = 1..Len(seq)
  <2>1. DOMAIN seq = 1..Len(seq) /\ Len(seq) \in Nat /\ \A i \in DOMAIN seq : seq[i] \in S
    OBVIOUS
  <2>2. \A i \in DOMAIN seq : <<seq[i]>> \in Seq(S)
    BY <2>1
  <2>3. \A i \in DOMAIN seq : (IF i \in chosen THEN <<seq[i]>> ELSE <<>>) \in Seq(S)
    BY <2>2
  <2>4. parts \in [1..Len(seq) -> Seq(S)]
    BY <2>1, <2>3
  <2> HIDE DEF parts
  <2>5. parts \in Seq(Seq(S)) /\ Len(parts) = Len(seq)
    BY <2>1, <2>4
  <2> QED
    BY <2>1, <2>5
<1>2. /\ \A i \in DOMAIN seq : i \in chosen => DOMAIN parts[i] = {1} /\ parts[i][1] = seq[i]
      /\ \A i \in DOMAIN seq : i \notin chosen => DOMAIN parts[i] = {}
  OBVIOUS
<1> HIDE DEF parts
<1>3. kept \in Seq(S) /\ Gathers(parts, Len(parts), kept)
  BY <1>1, FlattenSeqGathers
<1>4. Keep(seq, chosen) = kept
  BY DEF Keep, parts
<1> HIDE DEF kept
<1>5. ASSUME NEW k \in DOMAIN kept PROVE \E i \in DOMAIN seq \cap chosen : kept[k] = seq[i]
  <2>1. PICK i \in 1..Len(parts) : \E j \in DOMAIN parts[i] : kept[k] = parts[i][j]
    BY <1>3 DEF Gathers
  <2> QED
    BY <1>1, <1>2, <2>1
<1>6. ASSUME NEW i \in DOMAIN seq \cap chosen PROVE \E k \in DOMAIN kept : kept[k] = seq[i]
  <2>1. i \in 1..Len(parts) /\ 1 \in DOMAIN parts[i] /\ parts[i][1] = seq[i]
    BY <1>1, <1>2
  <2> QED
    BY <1>3, <2>1 DEF Gathers
<1>7. ToSet(kept) = {seq[i] : i \in DOMAIN seq \cap chosen}
  BY <1>5, <1>6 DEF ToSet
<1> QED
  BY <1>3, <1>4, <1>7

(* What is in the parts of a sequence is in their concatenation, and only that. *)
LEMMA FlattenSeqSet ==
    ASSUME NEW S, NEW ss \in Seq(Seq(S))
    PROVE  /\ FlattenSeq(ss) \in Seq(S)
           /\ \A x : x \in ToSet(FlattenSeq(ss)) <=> \E i \in DOMAIN ss : x \in ToSet(ss[i])
<1>1. FlattenSeq(ss) \in Seq(S) /\ Gathers(ss, Len(ss), FlattenSeq(ss)) /\ DOMAIN ss = 1..Len(ss)
  BY FlattenSeqGathers
<1>2. ASSUME NEW x, x \in ToSet(FlattenSeq(ss)) PROVE \E i \in DOMAIN ss : x \in ToSet(ss[i])
  <2>1. PICK k \in DOMAIN FlattenSeq(ss) : x = FlattenSeq(ss)[k]
    BY <1>2 DEF ToSet
  <2>2. PICK i \in 1..Len(ss) : \E j \in DOMAIN ss[i] : FlattenSeq(ss)[k] = ss[i][j]
    BY <1>1 DEF Gathers
  <2> QED
    BY <1>1, <2>1, <2>2 DEF ToSet
<1>3. ASSUME NEW x, NEW i \in DOMAIN ss, x \in ToSet(ss[i]) PROVE x \in ToSet(FlattenSeq(ss))
  <2>1. PICK j \in DOMAIN ss[i] : x = ss[i][j]
    BY <1>3 DEF ToSet
  <2>2. PICK k \in DOMAIN FlattenSeq(ss) : FlattenSeq(ss)[k] = ss[i][j]
    BY <1>1 DEF Gathers
  <2> QED
    BY <2>1, <2>2 DEF ToSet
<1> QED
  BY <1>1, <1>2, <1>3

LEMMA ContainsSet ==
    ASSUME NEW S, NEW seq \in Seq(S), NEW x
    PROVE  Contains(seq, x) <=> x \in ToSet(seq)
BY DEF Contains, ToSet

(* An element has a first place in a sequence.                              *)
LEMMA FirstInFacts ==
    ASSUME NEW S, NEW seq \in Seq(S), NEW x \in ToSet(seq)
    PROVE  FirstIn(seq, x) \in 1..Len(seq) /\ seq[FirstIn(seq, x)] = x
<1> DEFINE T == {i \in 1..Len(seq) : seq[i] = x}
<1>1. T \subseteq Nat /\ T # {}
  BY DEF ToSet
<1>2. PICK i \in T : \A j \in T : i <= j
  <2> HIDE DEF T
  <2> QED
    BY <1>1, LeastNat
<1>3. i \in 1..Len(seq) /\ seq[i] = x /\ \A j \in 1..(i - 1) : seq[j] # x
  BY <1>2
<1> QED
  BY <1>3 DEF FirstIn

(* A set of existing tasks has a last one.                                  *)
LEMMA MaxFacts ==
    ASSUME NEW n \in Nat, NEW S, S \subseteq 1..n, S # {}
    PROVE  Max(S) \in S
<1> DEFINE T == {n - u : u \in S}
<1>1. T \subseteq Nat /\ T # {}
  <2>1. \A u \in S : u \in Int /\ u <= n
    OBVIOUS
  <2>2. \A u \in S : n - u \in Nat
    BY <2>1
  <2> QED
    BY <2>2
<1>2. PICK m \in T : \A k \in T : m <= k
  <2> HIDE DEF T
  <2> QED
    BY <1>1, LeastNat
<1>3. PICK u \in S : m = n - u
  BY <1>2
<1>4. \A v \in S : u >= v
  <2> TAKE v \in S
  <2>1. n - u <= n - v
    BY <1>2, <1>3
  <2>2. u \in Int /\ v \in Int
    OBVIOUS
  <2> QED
    BY <2>1, <2>2
<1> QED
  BY <1>4 DEF Max

(* Seq(Target) and what is wanted.                                          *)
Known == Launchable \cup {UpdateOf[x] : x \in Target}

LEMMA WantsType ==
    ASSUME NEW r \in Known
    PROVE  Wants(r) \in Seq(Target)
<1>1. CASE r.kind = "job"
  <2>1. SourcesOf[r.inventory] \in Seq(Target)
    BY <1>1, SchedulerAssumption DEF Known
  <2> DEFINE own == IF r.project \in Target THEN <<r.project>> ELSE <<>>
             kept == Keep(SourcesOf[r.inventory],
                          {i \in DOMAIN SourcesOf[r.inventory] : SourcesOf[r.inventory][i] \notin r.updated})
  <2>2. Wants(r) = own \o kept
    BY <1>1, Zenon DEF Wants
  <2>3. own \in Seq(Target)
    OBVIOUS
  <2>4. kept \in Seq(Target)
    BY <2>1, KeepFacts
  <2> HIDE DEF own, kept
  <2> QED
    BY <2>2, <2>3, <2>4
<1>2. CASE r.kind = "inventory_update" /\ SourceProject[r.source] # None
  <2>1. SourceProject[r.source] \in Target
    BY <1>2, SchedulerAssumption DEF Known
  <2>2. Wants(r) = <<SourceProject[r.source]>>
    BY <1>2 DEF Wants
  <2> QED
    BY <2>1, <2>2
<1>3. CASE r.kind # "job" /\ ~(r.kind = "inventory_update" /\ SourceProject[r.source] # None)
  <2>1. Wants(r) = <<>>
    BY <1>3, Zenon DEF Wants
  <2> QED
    BY <2>1
<1> QED
  BY <1>1, <1>2, <1>3

(* What exists, as far as the lists of a pass need it. *)
Existing == count \in Nat /\ \A t \in 1..count : task[t] \in Known

(* The update of a target that is current is there, or about to be. *)
LEMMA UpdateFacts ==
    ASSUME Existing, NEW x \in Target, NEW new \in Seq(Target),
           Contains(new, x) \/ ~ShouldUpdateAgain(x)
    PROVE  \/ /\ Update(x, new) \in 1..count
              /\ task[Update(x, new)] = UpdateOf[x]
           \/ \E i \in 1..Len(new) : Update(x, new) = count + i /\ new[i] = x
<1>1. CASE Contains(new, x)
  <2>1. FirstIn(new, x) \in 1..Len(new) /\ new[FirstIn(new, x)] = x
    BY <1>1, ContainsSet, FirstInFacts
  <2> QED
    BY <1>1, <2>1 DEF Update
<1>2. CASE ~Contains(new, x)
  <2>1. Latest(x) # None
    BY <1>2 DEF ShouldUpdateAgain
  <2>2. UpdatesOf(x) # {} /\ Latest(x) = Max(UpdatesOf(x))
    BY <2>1 DEF Latest
  <2>3. Latest(x) \in UpdatesOf(x)
    BY <2>2, MaxFacts DEF UpdatesOf, Existing
  <2> QED
    BY <1>2, <2>3 DEF Update, UpdatesOf
<1> QED
  BY <1>1, <1>2

(* What is out of date gets an update. *)
LEMMA OutdatedFacts ==
    ASSUME NEW wanted \in Seq(Target), NEW new \in Seq(Target)
    PROVE  /\ Outdated(wanted, new) \in Seq(Target)
           /\ \A x \in ToSet(wanted) :
                Contains(new \o Outdated(wanted, new), x) \/ ~ShouldUpdateAgain(x)
<1> DEFINE chosen == {i \in DOMAIN wanted : /\ i = FirstIn(wanted, wanted[i])
                                            /\ ~Contains(new, wanted[i])
                                            /\ ShouldUpdateAgain(wanted[i])}
           more == Outdated(wanted, new)
<1>1. more = Keep(wanted, chosen)
  BY DEF Outdated
<1>2. more \in Seq(Target) /\ ToSet(more) = {wanted[i] : i \in DOMAIN wanted \cap chosen}
  BY <1>1, KeepFacts
<1> HIDE DEF more
<1>3. ASSUME NEW x \in ToSet(wanted), ShouldUpdateAgain(x), ~Contains(new, x)
      PROVE  x \in ToSet(more)
  <2>1. FirstIn(wanted, x) \in DOMAIN wanted /\ wanted[FirstIn(wanted, x)] = x
    BY FirstInFacts
  <2>2. FirstIn(wanted, x) \in chosen
    BY <1>3, <2>1
  <2> QED
    BY <1>2, <2>1, <2>2
<1>4. /\ new \o more \in Seq(Target)
      /\ \A x : x \in ToSet(new) \/ x \in ToSet(more) => x \in ToSet(new \o more)
  <2>1. /\ new \o more \in Seq(Target)
        /\ \A i \in DOMAIN new : i \in DOMAIN (new \o more) /\ (new \o more)[i] = new[i]
        /\ \A i \in DOMAIN more : /\ Len(new) + i \in DOMAIN (new \o more)
                                  /\ (new \o more)[Len(new) + i] = more[i]
    BY <1>2, ConcatProperties
  <2> QED
    BY <2>1 DEF ToSet
<1>5. \A x \in ToSet(wanted) : Contains(new \o more, x) \/ ~ShouldUpdateAgain(x)
  BY <1>2, <1>3, <1>4, ContainsSet
<1> QED
  BY <1>2, <1>5 DEF more

(* The dependencies that the tasks of a list get. *)
LEMMA DepsInFacts ==
    ASSUME Existing, NEW list, NEW wants \in Seq(Seq(Target)), NEW new \in Seq(Target),
           Len(wants) = Len(list),
           \A i \in 1..Len(wants) : \A x \in ToSet(wants[i]) :
              Contains(new, x) \/ ~ShouldUpdateAgain(x)
    PROVE  /\ \A t : DepsIn(t, list, wants, new) \subseteq 1..(count + Len(new))
           /\ \A i \in 1..Len(list) : \A x \in ToSet(wants[i]) :
                Update(x, new) \in DepsIn(list[i], list, wants, new)
           /\ \A t : (\A i \in 1..Len(list) : list[i] # t) => DepsIn(t, list, wants, new) = {}
<1>1. Len(wants) \in Nat /\ DOMAIN wants = 1..Len(wants) /\ Len(new) \in Nat /\ count \in Nat
  BY DEF Existing
<1>2. \A i \in 1..Len(wants) : wants[i] \in Seq(Target)
  BY <1>1
<1>3. \A i \in 1..Len(wants) : \A x \in ToSet(wants[i]) : x \in Target
  BY <1>2 DEF ToSet
<1>4. \A i \in 1..Len(wants) : \A x \in ToSet(wants[i]) : Update(x, new) \in 1..(count + Len(new))
  BY <1>1, <1>3, UpdateFacts
<1>5. \A i \in 1..Len(wants) : Links(wants, i, new) \subseteq 1..(count + Len(new))
  <2> SUFFICES ASSUME NEW i \in 1..Len(wants), NEW d \in Links(wants, i, new)
               PROVE  d \in 1..(count + Len(new))
    OBVIOUS
  <2>1. PICK j \in 1..i : \E x \in ToSet(wants[j]) : d = Update(x, new)
    BY DEF Links
  <2>2. j \in 1..Len(wants)
    BY <1>1
  <2> QED
    BY <1>4, <2>1, <2>2
<1>6. \A i \in 1..Len(wants) : \A x \in ToSet(wants[i]) : Update(x, new) \in Links(wants, i, new)
  <2> SUFFICES ASSUME NEW i \in 1..Len(wants), NEW x \in ToSet(wants[i])
               PROVE  Update(x, new) \in Links(wants, i, new)
    OBVIOUS
  <2>1. wants[i] # <<>>
    BY DEF ToSet
  <2>2. i \in 1..i
    BY <1>1
  <2> QED
    BY <2>1, <2>2 DEF Links
<1> QED
  BY <1>5, <1>6 DEF DepsIn

(* Rows of tasks: those that exist are tasks the system knows, the others   *)
(* are empty, and nothing refers to these.                                  *)
Rows ==
    /\ DOMAIN deps = Task /\ DOMAIN task = Task
    /\ \A t \in Task : deps[t] \subseteq 1..count
    /\ \A t \in 1..count : task[t] \in Known /\ status[t] # None
    /\ \A t \in Task : t > count => task[t] = None
    /\ processed \subseteq 1..count
    /\ stale \subseteq 1..count
    /\ pass.graph \subseteq processed

(* What a task wants updated has an update among its dependencies. *)
WantsLinked(t) ==
    \A x \in ToSet(Wants(task[t])) : \E d \in deps[t] : task[d] = UpdateOf[x]

LEMMA ManagedFacts ==
    ASSUME Rows, count \in 0..MaxTasks, DependencyPass
    PROVE  /\ count' \in count..MaxTasks
           /\ DOMAIN deps' = Task /\ DOMAIN task' = Task
           /\ \A t \in Task : deps'[t] \subseteq 1..count'
           /\ \A t \in processed : deps'[t] = deps[t]
           /\ \A t \in 1..count : task'[t] = task[t]
           /\ \A t \in (count + 1)..count' : task'[t] \in Known
           /\ \A t \in Task : t > count' => task'[t] = None
           /\ processed \subseteq processed' /\ processed' \subseteq 1..count'
           /\ \A t \in processed' \ processed : WantsLinked(t)'
<1>0. Existing /\ MaxTasks \in Nat /\ 1..count \subseteq Task
  BY SchedulerAssumption DEF Rows, Existing, Task
<1>1. PICK first, wants1, wanted, new1, second, wants2, new :
        /\ first = Undeped
        /\ wants1 = WantsOf(first, <<>>)
        /\ wanted = FlattenSeq(wants1)
        /\ new1 = Outdated(wanted, <<>>)
        /\ second = UndepedOf(wanted, new1)
        /\ wants2 = WantsOf(second, new1)
        /\ new = new1 \o Outdated(FlattenSeq(wants2), new1)
        /\ Manage(first, wants1, new1, second, wants2, new)
  BY Zenon DEF DependencyPass
<1>2. /\ count' = count + Len(new)
      /\ count' \in count..MaxTasks
      /\ processed' = processed \cup ToSet(first) \cup ToSet(second)
  BY <1>1, Zenon DEF Manage
<1>3. task' = [t \in Task |-> IF t \in (count + 1)..count'
                               THEN UpdateOf[new[t - count]] ELSE task[t]]
  BY <1>1, Zenon DEF Manage
<1>4. deps' = [t \in Task |-> deps[t] \cup DepsIn(t, first, wants1, new1)
                                     \cup DepsIn(t, second, wants2, new)]
  BY <1>1, Zenon DEF Manage
<1>5. /\ first \in Seq(1..count)
      /\ ToSet(first) \subseteq 1..count
      /\ \A t \in ToSet(first) : t \notin processed
  <2> DEFINE all == [t \in 1..count |-> t]
  <2>1. all \in Seq(1..count)
    BY <1>0 DEF Existing
  <2>2. first = Keep(all, {t \in 1..count : status[t] = "pending" /\ t \notin processed})
    BY <1>1 DEF Undeped
  <2>3. \A i \in DOMAIN all : all[i] = i
    OBVIOUS
  <2> HIDE DEF all
  <2> QED
    BY <2>1, <2>2, <2>3, KeepFacts
<1>6. \A i \in 1..Len(first) : first[i] \in 1..count /\ first[i] \in ToSet(first)
  BY <1>5 DEF ToSet
<1>7. /\ wants1 \in Seq(Seq(Target)) /\ Len(wants1) = Len(first)
      /\ \A i \in 1..Len(first) : wants1[i] = Wants(task[first[i]])
  <2>1. \A i \in 1..Len(first) : first[i] <= count /\ Wants(task[first[i]]) \in Seq(Target)
    BY <1>0, <1>6, WantsType DEF Existing
  <2>2. wants1 = [i \in 1..Len(first) |-> Wants(task[first[i]])]
    BY <1>1, <2>1 DEF WantsOf
  <2> QED
    BY <1>5, <2>1, <2>2
<1>8. wanted \in Seq(Target) /\ \A i \in 1..Len(first) : \A x \in ToSet(wants1[i]) : x \in ToSet(wanted)
  BY <1>1, <1>7, FlattenSeqSet
<1>9. /\ new1 \in Seq(Target)
      /\ \A x \in ToSet(wanted) : Contains(new1, x) \/ ~ShouldUpdateAgain(x)
  <2>1. <<>> \in Seq(Target) /\ new1 = Outdated(wanted, <<>>)
    BY <1>1
  <2>2. /\ new1 \in Seq(Target)
        /\ \A x \in ToSet(wanted) : Contains(<<>> \o new1, x) \/ ~ShouldUpdateAgain(x)
    BY <1>8, <2>1, OutdatedFacts
  <2>3. <<>> \o new1 = new1
    BY <2>2
  <2> QED
    BY <2>2, <2>3
<1>10. /\ second \in Seq(1..(count + Len(new1)))
      /\ \A t \in ToSet(second) : t \in 1..(count + Len(new1)) /\ t \notin processed
  <2> DEFINE updates == [i \in 1..Len(wanted) |-> Update(wanted[i], new1)]
             chosen == {i \in 1..Len(wanted) : updates[i] \notin processed}
  <2>1. \A i \in 1..Len(wanted) : wanted[i] \in Target /\ wanted[i] \in ToSet(wanted)
    BY <1>8 DEF ToSet
  <2>2. \A i \in 1..Len(wanted) : Update(wanted[i], new1) \in 1..(count + Len(new1))
    BY <1>0, <1>9, <2>1, UpdateFacts DEF Existing
  <2>3. updates \in Seq(1..(count + Len(new1))) /\ DOMAIN updates = 1..Len(wanted)
    BY <1>8, <2>2
  <2>4. second = Keep(updates, chosen)
    BY <1>1 DEF UndepedOf
  <2> HIDE DEF updates
  <2>5. /\ second \in Seq(1..(count + Len(new1)))
        /\ ToSet(second) = {updates[i] : i \in DOMAIN updates \cap chosen}
    BY <2>3, <2>4, KeepFacts
  <2> QED
    BY <2>3, <2>5
<1>11. \A i \in 1..Len(second) : second[i] \in 1..(count + Len(new1)) /\ second[i] \in ToSet(second)
  BY <1>10 DEF ToSet
<1> DEFINE What(t) == IF t <= count THEN task[t] ELSE UpdateOf[new1[t - count]]
<1>12. \A t \in 1..(count + Len(new1)) : What(t) \in Known
  <2> SUFFICES ASSUME NEW t \in 1..(count + Len(new1)), ~(t <= count)
               PROVE  UpdateOf[new1[t - count]] \in Known
    BY <1>0 DEF Existing
  <2>1. t - count \in 1..Len(new1)
    BY <1>0, <1>9 DEF Existing
  <2>2. new1[t - count] \in Target
    BY <1>9, <2>1
  <2> QED
    BY <2>2 DEF Known
<1>13. /\ wants2 \in Seq(Seq(Target)) /\ Len(wants2) = Len(second)
       /\ \A i \in 1..Len(second) : wants2[i] = Wants(What(second[i]))
  <2>1. wants2 = [i \in 1..Len(second) |-> Wants(What(second[i]))]
    BY <1>1 DEF WantsOf
  <2> HIDE DEF What
  <2>2. \A i \in 1..Len(second) : Wants(What(second[i])) \in Seq(Target)
    BY <1>11, <1>12, WantsType
  <2> QED
    BY <1>10, <2>1, <2>2
<1> DEFINE more == Outdated(FlattenSeq(wants2), new1)
<1>14. /\ more \in Seq(Target)
       /\ \A i \in 1..Len(second) : \A x \in ToSet(wants2[i]) :
            Contains(new, x) \/ ~ShouldUpdateAgain(x)
  <2>1. /\ FlattenSeq(wants2) \in Seq(Target)
        /\ \A i \in 1..Len(second) : \A x \in ToSet(wants2[i]) : x \in ToSet(FlattenSeq(wants2))
    BY <1>13, FlattenSeqSet
  <2> QED
    BY <1>1, <1>9, <2>1, OutdatedFacts
<1> HIDE DEF more
<1>15. /\ new \in Seq(Target) /\ Len(new) \in Nat /\ Len(new1) \in Nat
       /\ Len(new1) <= Len(new)
       /\ \A i \in 1..Len(new1) : new[i] = new1[i]
  <2>1. new = new1 \o more
    BY <1>1 DEF more
  <2> QED
    BY <1>9, <1>14, <2>1, ConcatProperties
<1> DEFINE links1(t) == DepsIn(t, first, wants1, new1)
           links2(t) == DepsIn(t, second, wants2, new)
<1>16. /\ \A t : links1(t) \subseteq 1..(count + Len(new1))
       /\ \A i \in 1..Len(first) : \A x \in ToSet(wants1[i]) : Update(x, new1) \in links1(first[i])
       /\ \A t : (\A i \in 1..Len(first) : first[i] # t) => links1(t) = {}
  <2>1. \A i \in 1..Len(wants1) : \A x \in ToSet(wants1[i]) :
           Contains(new1, x) \/ ~ShouldUpdateAgain(x)
    BY <1>7, <1>8, <1>9
  <2> QED
    BY <1>0, <1>7, <1>9, <2>1, DepsInFacts
<1>17. /\ \A t : links2(t) \subseteq 1..(count + Len(new))
       /\ \A i \in 1..Len(second) : \A x \in ToSet(wants2[i]) : Update(x, new) \in links2(second[i])
       /\ \A t : (\A i \in 1..Len(second) : second[i] # t) => links2(t) = {}
  BY <1>0, <1>13, <1>14, <1>15, DepsInFacts
<1> HIDE DEF links1, links2
<1>18. deps' = [t \in Task |-> deps[t] \cup links1(t) \cup links2(t)]
  BY <1>4 DEF links1, links2
<1>19. \A t \in Task : deps'[t] \subseteq 1..count'
  <2>1. count' = count + Len(new) /\ count \in Nat
    BY <1>0, <1>2 DEF Existing
  <2>2. 1..count \subseteq 1..count' /\ 1..(count + Len(new1)) \subseteq 1..count'
    BY <1>15, <2>1
  <2> QED
    BY <1>16, <1>17, <1>18, <2>1, <2>2 DEF Rows
<1>20. \A t \in processed : deps'[t] = deps[t]
  <2> SUFFICES ASSUME NEW t \in processed PROVE deps'[t] = deps[t]
    OBVIOUS
  <2>1. links1(t) = {} /\ links2(t) = {}
    BY <1>5, <1>6, <1>10, <1>11, <1>16, <1>17
  <2>2. t \in Task
    BY <1>0 DEF Rows
  <2> QED
    BY <1>18, <2>1, <2>2
<1>21. /\ \A t \in 1..count : task'[t] = task[t]
       /\ \A i \in 1..Len(new) : /\ count + i \in (count + 1)..count'
                                 /\ task'[count + i] = UpdateOf[new[i]]
       /\ \A t \in Task : t > count' => task'[t] = None
  <2>1. count' = count + Len(new) /\ count \in Nat /\ count' \in Nat /\ count' <= MaxTasks
    BY <1>0, <1>2, <1>15 DEF Existing
  <2>2. \A t \in 1..count : t \in Task /\ t \notin (count + 1)..count'
    BY <1>0, <2>1
  <2>3. \A i \in 1..Len(new) : /\ count + i \in (count + 1)..count' /\ count + i \in Task
                               /\ (count + i) - count = i
    BY <1>0, <1>15, <2>1 DEF Task
  <2>4. \A t \in Task : t > count' => t > count /\ t \notin (count + 1)..count'
    BY <1>0, <2>1 DEF Task
  <2> QED
    BY <1>3, <2>2, <2>3, <2>4 DEF Rows
<1>22. \A t \in (count + 1)..count' : task'[t] \in Known
  <2> SUFFICES ASSUME NEW t \in (count + 1)..count' PROVE task'[t] \in Known
    OBVIOUS
  <2>1. t - count \in 1..Len(new) /\ count + (t - count) = t
    BY <1>0, <1>2, <1>15 DEF Existing
  <2>2. new[t - count] \in Target
    BY <1>15, <2>1
  <2> QED
    BY <1>21, <2>1, <2>2 DEF Known
<1>23. \A x \in Target : Contains(new1, x) \/ ~ShouldUpdateAgain(x)
                           => task'[Update(x, new1)] = UpdateOf[x]
  <2> SUFFICES ASSUME NEW x \in Target, Contains(new1, x) \/ ~ShouldUpdateAgain(x)
               PROVE  task'[Update(x, new1)] = UpdateOf[x]
    OBVIOUS
  <2>1. \/ /\ Update(x, new1) \in 1..count
           /\ task[Update(x, new1)] = UpdateOf[x]
        \/ \E i \in 1..Len(new1) : Update(x, new1) = count + i /\ new1[i] = x
    BY <1>0, <1>9, UpdateFacts
  <2> QED
    BY <1>15, <1>21, <2>1, Z3
<1>24. \A x \in Target : Contains(new, x) \/ ~ShouldUpdateAgain(x)
                           => task'[Update(x, new)] = UpdateOf[x]
  <2> SUFFICES ASSUME NEW x \in Target, Contains(new, x) \/ ~ShouldUpdateAgain(x)
               PROVE  task'[Update(x, new)] = UpdateOf[x]
    OBVIOUS
  <2>1. \/ /\ Update(x, new) \in 1..count
           /\ task[Update(x, new)] = UpdateOf[x]
        \/ \E i \in 1..Len(new) : Update(x, new) = count + i /\ new[i] = x
    BY <1>0, <1>15, UpdateFacts
  <2> QED
    BY <1>21, <2>1
<1>25. \A i \in 1..Len(first) : WantsLinked(first[i])'
  <2> SUFFICES ASSUME NEW i \in 1..Len(first), NEW x \in ToSet(Wants(task'[first[i]]))
               PROVE  \E d \in deps'[first[i]] : task'[d] = UpdateOf[x]
    BY DEF WantsLinked
  <2>1. x \in ToSet(wants1[i]) /\ first[i] \in Task
    BY <1>0, <1>6, <1>7, <1>21
  <2>2. x \in Target
    BY <1>7, <2>1 DEF ToSet
  <2>3. Update(x, new1) \in deps'[first[i]]
    BY <1>16, <1>18, <2>1
  <2> QED
    BY <1>8, <1>9, <1>23, <2>1, <2>2, <2>3
<1>26. \A i \in 1..Len(second) : WantsLinked(second[i])'
  <2> SUFFICES ASSUME NEW i \in 1..Len(second), NEW x \in ToSet(Wants(task'[second[i]]))
               PROVE  \E d \in deps'[second[i]] : task'[d] = UpdateOf[x]
    BY DEF WantsLinked
  <2>1. second[i] \in 1..(count + Len(new1)) /\ count \in Nat
    BY <1>0, <1>11 DEF Existing
  <2>2. task'[second[i]] = What(second[i])
    <3>1. CASE second[i] <= count
      BY <1>21, <2>1, <3>1
    <3>2. CASE ~(second[i] <= count)
      <4>1. /\ second[i] - count \in 1..Len(new1)
            /\ second[i] - count \in 1..Len(new)
            /\ count + (second[i] - count) = second[i]
        BY <1>15, <2>1, <3>2
      <4> QED
        BY <1>15, <1>21, <3>2, <4>1
    <3> QED
      BY <3>1, <3>2
  <2>3. x \in ToSet(wants2[i]) /\ x \in Target
    <3>1. wants2[i] = Wants(task'[second[i]])
      BY <1>13, <2>2
    <3>2. wants2[i] \in Seq(Target)
      BY <1>13
    <3> QED
      BY <3>1, <3>2 DEF ToSet
  <2>4. second[i] \in Task
    BY <1>0, <1>2, <1>15, <2>1 DEF Task
  <2>5. Update(x, new) \in deps'[second[i]]
    BY <1>17, <1>18, <2>3, <2>4
  <2> QED
    BY <1>14, <1>24, <2>3, <2>5
<1>27. /\ processed \subseteq processed' /\ processed' \subseteq 1..count'
       /\ \A t \in processed' \ processed : WantsLinked(t)'
  <2>1. \A t \in ToSet(first) : \E i \in 1..Len(first) : t = first[i]
    BY <1>5 DEF ToSet
  <2>2. \A t \in ToSet(second) : \E i \in 1..Len(second) : t = second[i]
    BY <1>10 DEF ToSet
  <2>3. \A t \in ToSet(first) \cup ToSet(second) : WantsLinked(t)'
    BY <1>25, <1>26, <2>1, <2>2
  <2>4. /\ 1..count \subseteq 1..count'
        /\ 1..(count + Len(new1)) \subseteq 1..count'
    BY <1>0, <1>2, <1>15 DEF Existing
  <2>5. processed' \subseteq 1..count'
    BY <1>2, <1>5, <1>10, <2>4 DEF Rows
  <2> QED
    BY <1>2, <2>3, <2>5
<1> QED
  BY <1>2, <1>3, <1>18, <1>19, <1>20, <1>21, <1>22, <1>27

-----------------------------------------------------------------------------
(* Counters and nodes. *)
Bounds ==
    /\ launches \in 0..MaxLaunches
    /\ faults \in 0..MaxFaults
    /\ nodes \in [Node -> {"ready", "unavailable", "gone"}]
    /\ pass.limit \in 0..StartTaskLimit

(* Once it is processed, a task depends on all it wants updated. *)
Linked == \A t \in processed : WantsLinked(t)

Over == {"successful", "canceled"}
DepsOver(t) == \A d \in deps[t] : pass.seen[d] \in Over

(* What a pass has read holds still where it matters: what was over is over *)
(* and not written, what is active was so; and what the dependencies of a   *)
(* task were, when the pass has started it, or has still to handle it.      *)
Reads ==
    /\ pass.seen \in [Task -> Unfinished \cup Finished \cup {None}]
    /\ pass.on => \A t \in Task :
         /\ pass.seen[t] \in Finished => status[t] = pass.seen[t] /\ pass.new[t] = None
         /\ status[t] \in Active => pass.seen[t] \in Active
         /\ pass.new[t] \in Active => DepsOver(t)
         /\ pass.seen[t] \in Active => t \in processed /\ DepsOver(t)
         /\ t \in pass.todo => /\ pass.seen[t] = "pending"
                               /\ \A d \in deps[t] : pass.seen[d] # None

Ordered == Rows /\ Linked /\ Reads /\ DependenciesFirst

LEMMA RowFacts ==
    ASSUME IInv, Rows
    PROVE  /\ count \in Nat /\ MaxTasks \in Nat /\ count \in 0..MaxTasks
           /\ 1..count \subseteq Task
           /\ \A t \in Task : deps[t] \subseteq Task
           /\ processed \subseteq Task
           /\ \A t \in Task : t <= count => t \in 1..count
           /\ \A t \in Task : status[t] # None => t \in 1..count
BY SchedulerAssumption DEF IInv, Counted, Rows, Task

LEMMA OverFacts ==
    /\ Over \subseteq Finished
    /\ \A s \in Finished : s \notin Active /\ s # "pending" /\ s \notin Unfinished
    /\ None \notin Finished /\ None \notin Unfinished
    /\ \A s \in Unfinished \cup Finished \cup {None} :
         s \notin Unfinished /\ s # "failed" /\ s # None => s \in Over
BY SchedulerAssumption DEF Over, Finished, Active, Unfinished

LEMMA InitOrdered == Init => Ordered /\ Bounds
<1> SUFFICES ASSUME Init PROVE Ordered /\ Bounds
    OBVIOUS
<1> USE DEF Init
<1>1. Rows
    BY SchedulerAssumption DEF Rows, Idle, Task
<1>2. Linked /\ DependenciesFirst
    BY StatusFacts DEF Linked, DependenciesFirst
<1>3. Reads
    BY DEF Reads, Idle
<1>4. Bounds
    BY SchedulerAssumption DEF Bounds, Idle
<1> QED
    BY <1>1, <1>2, <1>3, <1>4 DEF Ordered

(* An action outside the pass. *)
LEMMA QuietOrder ==
    ASSUME IInv, Ordered, IInv', pass' = pass, count <= count',
           DOMAIN deps' = Task,
           \A t \in Task : deps'[t] \subseteq 1..count',
           \A t \in processed : deps'[t] = deps[t],
           \A t \in 1..count : task'[t] = task[t],
           \A t \in 1..count' : task'[t] \in Known /\ status'[t] # None,
           \A t \in Task : t > count' => task'[t] = None,
           processed \subseteq processed', processed' \subseteq 1..count',
           \A t \in processed' \ processed : WantsLinked(t)',
           stale' \subseteq 1..count',
           \A t \in Task : status[t] \in Finished => status'[t] = status[t],
           \A t \in Task : status'[t] \in Active => status[t] \in Active
    PROVE  Ordered'
<1>0. Rows /\ Linked /\ Reads /\ DependenciesFirst
    BY DEF Ordered
<1>1. Rows'
    BY <1>0 DEF Rows, IInv, Counted
<1>2. \A t \in processed : t \in Task /\ task'[t] = task[t] /\ deps'[t] = deps[t]
                           /\ \A d \in deps[t] : task'[d] = task[d] /\ d \in Task
    BY <1>0, RowFacts DEF Rows
<1>3. Linked'
  <2> SUFFICES ASSUME NEW t \in processed' PROVE WantsLinked(t)'
      BY DEF Linked
  <2>1. CASE t \in processed
    <3>1. WantsLinked(t)
        BY <1>0, <2>1 DEF Linked
    <3> QED
        BY <1>2, <2>1, <3>1 DEF WantsLinked
  <2> QED
      BY <2>1
<1>4. \A t \in Task : DepsOver(t) /\ t \in processed => DepsOver(t)'
    BY <1>2 DEF DepsOver
<1>5. pass.on => \A t \in Task : (pass.new[t] \in Active \/ t \in pass.todo) => t \in processed
    BY DEF IInv, GraphHasActive
<1>6. Reads'
  <2>1. pass.seen' \in [Task -> Unfinished \cup Finished \cup {None}]
      BY <1>0 DEF Reads
  <2> SUFFICES ASSUME pass.on, NEW t \in Task
               PROVE  /\ pass.seen[t] \in Finished => status'[t] = pass.seen[t] /\ pass.new[t] = None
                      /\ status'[t] \in Active => pass.seen[t] \in Active
                      /\ pass.new[t] \in Active => DepsOver(t)'
                      /\ pass.seen[t] \in Active => t \in processed' /\ DepsOver(t)'
                      /\ t \in pass.todo => /\ pass.seen[t] = "pending"
                                            /\ \A d \in deps'[t] : pass.seen[d] # None
      BY <2>1 DEF Reads
  <2> QED
      BY <1>0, <1>2, <1>4, <1>5 DEF Reads
<1>7. DependenciesFirst'
  <2> SUFFICES ASSUME NEW t \in Task, status'[t] \in Active, NEW d \in deps'[t]
               PROVE  status'[d] \in {"successful", "canceled"}
      BY DEF DependenciesFirst
  <2>1. t \in processed /\ status[t] \in Active
      BY DEF IInv, GraphHasActive
  <2>2. d \in deps[t] /\ d \in Task /\ status[d] \in {"successful", "canceled"}
      BY <1>0, <1>2, <2>1 DEF DependenciesFirst
  <2> QED
      BY <2>2 DEF Finished
<1> QED
    BY <1>1, <1>3, <1>6, <1>7 DEF Ordered

LEMMA LaunchOrder ==
    ASSUME IInv, Ordered, IInv', NEW r \in Launchable, Launch(r)
    PROVE  Ordered'
<1>0. Rows
    BY DEF Ordered
<1>1. /\ count \in Nat /\ count' = count + 1 /\ count + 1 \in Task /\ count' \in Task
      /\ 1..count \subseteq 1..count' /\ 1..count' = 1..count \cup {count + 1}
      /\ count + 1 \notin 1..count
    BY <1>0, RowFacts DEF Launch, Task
<1>2. /\ UNCHANGED <<deps, processed, stale, pass>>
      /\ task' = [task EXCEPT ![count + 1] = r]
      /\ status' = [status EXCEPT ![count + 1] = "pending"]
    BY DEF Launch
<1>3. \A t \in 1..count : task'[t] = task[t] /\ t \in Task
    BY <1>0, <1>1, <1>2, RowFacts DEF Rows
<1>4. \A t \in 1..count' : task'[t] \in Known /\ status'[t] # None
    BY <1>0, <1>1, <1>2, RowFacts, StatusFacts DEF Rows, IInv, Counted, Known
<1>5. \A t \in Task : t > count' => task'[t] = None
    BY <1>0, <1>1, <1>2 DEF Rows, Task
<1>6. status[count + 1] = None
    BY <1>0, <1>1, RowFacts
<1>7. \A t \in Task : status[t] \in Finished => status'[t] = status[t]
    BY <1>2, <1>6, OverFacts DEF IInv, Counted
<1>8. \A t \in Task : status'[t] \in Active => status[t] \in Active
    BY <1>2, StatusFacts DEF IInv, Counted
<1>9. /\ \A t \in Task : deps'[t] \subseteq 1..count'
      /\ processed' \subseteq 1..count' /\ stale' \subseteq 1..count'
      /\ DOMAIN deps' = Task /\ count <= count'
    BY <1>0, <1>1, <1>2 DEF Rows
<1> QED
    BY <1>2, <1>3, <1>4, <1>5, <1>7, <1>8, <1>9, QuietOrder

(* An action that changes nothing but statuses, or what does not matter. *)
LEMMA StatusOrder ==
    ASSUME IInv, Ordered, IInv', UNCHANGED <<count, task, deps, processed, pass>>,
           stale' \subseteq 1..count,
           \A t \in 1..count : status'[t] # None,
           \A t \in Task : status[t] \in Finished => status'[t] = status[t],
           \A t \in Task : status'[t] \in Active => status[t] \in Active
    PROVE  Ordered'
<1>1. Rows
    BY DEF Ordered
<1>2. count <= count'
    BY <1>1, RowFacts
<1> QED
    BY <1>1, <1>2, QuietOrder DEF Rows

LEMMA FinishOrder ==
    ASSUME IInv, Ordered, IInv', NEW t \in Task, NEW result \in Outcomes, Finish(t, result)
    PROVE  Ordered'
<1>1. Rows /\ stale' \subseteq 1..count
    BY DEF Ordered, Rows, Finish
<1>2. \A u \in 1..count : status'[u] # None
    BY <1>1, StatusFacts, OverFacts, RowFacts DEF Finish, Rows, IInv, Counted
<1>3. \A u \in Task : status[u] \in Finished => status'[u] = status[u]
    BY OverFacts DEF Finish, IInv, Counted
<1>4. \A u \in Task : status'[u] \in Active => status[u] \in Active
    BY StatusFacts DEF Finish, IInv, Counted
<1> QED
    BY <1>1, <1>2, <1>3, <1>4, StatusOrder DEF Finish

LEMMA CancelOrder ==
    ASSUME IInv, Ordered, IInv', NEW t \in Task, Cancel(t)
    PROVE  Ordered'
<1>1. PICK hit : /\ \A u \in hit : status[u] = "pending"
                 /\ status' = [u \in Task |-> IF u \in hit THEN "canceled" ELSE status[u]]
    BY DEF Cancel
<1>2. /\ UNCHANGED <<count, task, deps, processed, stale, pass>>
    BY DEF Cancel
<1>3. Rows
    BY DEF Ordered
<1>4. \A u \in 1..count : status'[u] # None
    BY <1>1, <1>3, RowFacts, SchedulerAssumption DEF Rows, Finished
<1>5. \A u \in Task : status[u] \in Finished => status'[u] = status[u]
    BY <1>1, OverFacts
<1>6. \A u \in Task : status'[u] \in Active => status[u] \in Active
    BY <1>1, StatusFacts DEF Finished
<1> QED
    BY <1>2, <1>3, <1>4, <1>5, <1>6, StatusOrder DEF Rows

LEMMA ElsewhereOrder ==
    ASSUME IInv, Ordered, IInv', UNCHANGED <<count, task, status, deps, processed, pass>>,
           stale' \subseteq 1..count
    PROVE  Ordered'
<1>1. Rows
    BY DEF Ordered
<1> QED
    BY <1>1, StatusOrder DEF Rows

LEMMA DependencyOrder ==
    ASSUME IInv, Ordered, IInv', DependencyPass
    PROVE  Ordered'
<1>1. Rows /\ count \in 0..MaxTasks
    BY DEF Ordered, IInv, Counted
<1>2. /\ count' \in count..MaxTasks
      /\ DOMAIN deps' = Task /\ DOMAIN task' = Task
      /\ \A t \in Task : deps'[t] \subseteq 1..count'
      /\ \A t \in processed : deps'[t] = deps[t]
      /\ \A t \in 1..count : task'[t] = task[t]
      /\ \A t \in (count + 1)..count' : task'[t] \in Known
      /\ \A t \in Task : t > count' => task'[t] = None
      /\ processed \subseteq processed' /\ processed' \subseteq 1..count'
      /\ \A t \in processed' \ processed : WantsLinked(t)'
    BY <1>1, ManagedFacts
<1>3. /\ status' = [t \in Task |-> IF t \in (count + 1)..count' THEN "pending" ELSE status[t]]
      /\ UNCHANGED <<stale, pass>>
    BY DEF DependencyPass, Manage
<1>4. /\ count <= count' /\ 1..count \subseteq 1..count'
      /\ 1..count' \subseteq Task
      /\ \A t \in 1..count' : t \in 1..count \/ t \in (count + 1)..count'
      /\ \A t \in (count + 1)..count' : t \notin 1..count
    BY <1>1, <1>2, RowFacts DEF Task
<1>5. \A t \in 1..count' : task'[t] \in Known /\ status'[t] # None
    BY <1>1, <1>2, <1>3, <1>4, StatusFacts DEF Rows
<1>6. \A t \in Task : t \in (count + 1)..count' => status[t] = None
    BY <1>1, <1>4, RowFacts
<1>7. \A t \in Task : status[t] \in Finished => status'[t] = status[t]
    BY <1>3, <1>6, OverFacts
<1>8. \A t \in Task : status'[t] \in Active => status[t] \in Active
    BY <1>3, StatusFacts
<1>9. stale' \subseteq 1..count'
    BY <1>1, <1>3, <1>4 DEF Rows
<1> QED
    BY <1>2, <1>3, <1>4, <1>5, <1>7, <1>8, <1>9, QuietOrder

LEMMA BeginOrder ==
    ASSUME IInv, Ordered, BeginPass
    PROVE  Ordered'
<1>0. Rows /\ Linked /\ DependenciesFirst
    BY DEF Ordered
<1>1. /\ UNCHANGED <<count, task, status, deps, processed, stale>>
      /\ pass'.on = TRUE
      /\ pass'.seen = status
      /\ pass'.new = [t \in Task |->
                        IF /\ status[t] \in Active
                           /\ place[t].execution # None
                           /\ nodes[place[t].execution] = "gone"
                          THEN "failed" ELSE None]
      /\ pass'.graph = {t \in 1..count : t \in processed /\ status[t] \in Active}
      /\ pass'.todo = {t \in 1..count : t \in processed /\ status[t] = "pending"}
    BY DEF BeginPass
<1>2. Rows'
    BY <1>0, <1>1 DEF Rows
<1>3. Linked' /\ DependenciesFirst'
    BY <1>0, <1>1 DEF Linked, WantsLinked, DependenciesFirst
<1>4. \A t \in Task : /\ pass'.new[t] \notin Active
                      /\ status[t] \in Finished => pass'.new[t] = None
    BY <1>1, StatusFacts, OverFacts
<1>5. \A t \in Task : status[t] \in Active =>
        t \in processed /\ \A d \in deps[t] : status[d] \in Over
    BY <1>0 DEF IInv, GraphHasActive, DependenciesFirst, Over
<1>6. \A t \in Task : \A d \in deps[t] : status[d] # None
    BY <1>0 DEF Rows
<1>7. Reads'
  <2>1. pass'.seen \in [Task -> Unfinished \cup Finished \cup {None}]
      BY <1>1 DEF IInv, Counted
  <2> QED
      BY <1>1, <1>4, <1>5, <1>6, <2>1 DEF Reads, DepsOver
<1> QED
    BY <1>2, <1>3, <1>7 DEF Ordered

(* The next task is handled, and started perhaps. *)
LEMMA HandledOrder ==
    ASSUME IInv, Ordered, NEW t \in pass.todo, pass.on,
           UNCHANGED <<count, task, status, deps, processed, stale>>,
           pass'.on, pass'.seen = pass.seen,
           pass'.graph \subseteq pass.graph \cup {t},
           pass'.todo \subseteq pass.todo,
           \A u \in Task : u # t => pass'.new[u] = pass.new[u],
           pass'.new[t] \in Active => pass.new[t] \in Active \/ DepsOver(t)
    PROVE  Ordered'
<1>0. Rows /\ Linked /\ Reads /\ DependenciesFirst
    BY DEF Ordered
<1>1. t \in processed /\ t \in Task
    BY <1>0, RowFacts DEF IInv, GraphHasActive
<1>2. Rows'
    BY <1>0, <1>1 DEF Rows
<1>3. Linked' /\ DependenciesFirst'
    BY <1>0 DEF Linked, WantsLinked, DependenciesFirst
<1>4. \A u \in Task : DepsOver(u)' <=> DepsOver(u)
    BY DEF DepsOver
<1>5. pass.seen[t] \notin Finished
    BY <1>0, <1>1, OverFacts DEF Reads
<1>6. Reads'
    BY <1>0, <1>1, <1>4, <1>5 DEF Reads
<1> QED
    BY <1>2, <1>3, <1>6 DEF Ordered

LEMMA PostponeOrder ==
    ASSUME IInv, Ordered, NEW t \in Task, FailDependent(t) \/ Postpone(t)
    PROVE  Ordered'
<1>1. t \in pass.todo /\ pass.on
    BY DEF FailDependent, Postpone, IsNext
<1>2. UNCHANGED <<count, task, status, deps, processed, stale>>
    BY DEF FailDependent, Postpone, Handled
<1>3. /\ pass'.on = pass.on /\ pass'.seen = pass.seen /\ pass'.graph = pass.graph
      /\ pass'.todo = pass.todo \ {t}
      /\ pass'.new = pass.new \/ pass'.new = [pass.new EXCEPT ![t] = "failed"]
    BY DEF FailDependent, Postpone, IInv, PassType
<1>4. /\ \A u \in Task : u # t => pass'.new[u] = pass.new[u]
      /\ pass'.new[t] \in Active => pass.new[t] \in Active
    BY <1>3, StatusFacts DEF IInv, PassType
<1> QED
    BY <1>1, <1>2, <1>3, <1>4, HandledOrder

LEMMA StartOrder ==
    ASSUME IInv, Ordered, NEW t \in Task, NEW where, NEW ok \in BOOLEAN,
           IsNext(t), ~IsBlocked(t), ~DependencyFailed(t), StartTask(t, where, ok)
    PROVE  Ordered'
<1>1. t \in pass.todo /\ pass.on
    BY DEF IsNext
<1>2. UNCHANGED <<count, task, status, deps, processed, stale>>
    BY DEF StartTask, Handled
<1>3. /\ pass'.on = pass.on /\ pass'.seen = pass.seen
      /\ pass'.graph = pass.graph \cup {t}
      /\ pass'.todo = pass.todo \ {t}
      /\ pass'.new = [pass.new EXCEPT ![t] = IF ~ok THEN "failed"
                        ELSE IF task[t].kind = "workflow" THEN "running"
                        ELSE "waiting"]
    BY DEF StartTask, IInv, PassType
<1>4. \A u \in Task : u # t => pass'.new[u] = pass.new[u]
    BY <1>3 DEF IInv, PassType
<1>5. DepsOver(t)
  <2> SUFFICES ASSUME NEW d \in deps[t] PROVE pass.seen[d] \in Over
      BY DEF DepsOver
  <2>1. Rows /\ Reads
      BY DEF Ordered
  <2>2. d \in Task
      BY <2>1, RowFacts
  <2>3. pass.seen[d] \in Unfinished \cup Finished \cup {None} /\ pass.seen[d] # None
      BY <1>1, <2>1, <2>2 DEF Reads
  <2>4. pass.seen[d] \notin Unfinished /\ pass.seen[d] # "failed"
      BY DEF IsBlocked, DependencyFailed
  <2> QED
      BY <2>3, <2>4, OverFacts
<1> QED
    BY <1>1, <1>2, <1>3, <1>4, <1>5, HandledOrder

LEMMA CommitOrder ==
    ASSUME IInv, Ordered, pass.on, Commit
    PROVE  Ordered'
<1>0. Rows /\ Linked /\ Reads /\ DependenciesFirst
    BY DEF Ordered
<1>1. /\ status' = [t \in Task |-> IF pass.new[t] # None THEN pass.new[t] ELSE status[t]]
      /\ UNCHANGED <<count, task, deps, processed, stale>>
      /\ pass' = Idle
    BY DEF Commit, Locked
<1>2. Rows'
    BY <1>0, <1>1, RowFacts DEF Rows, Idle
<1>3. Linked'
    BY <1>0, <1>1 DEF Linked, WantsLinked
<1>4. Reads'
    BY <1>1 DEF Reads, Idle
<1>5. DependenciesFirst'
  <2> SUFFICES ASSUME NEW t \in Task, status'[t] \in Active, NEW d \in deps[t]
               PROVE  status'[d] \in {"successful", "canceled"}
      BY <1>1 DEF DependenciesFirst
  <2>1. pass.new[t] \in Active \/ status[t] \in Active
      BY <1>1
  <2>2. DepsOver(t)
      BY <1>0, <2>1 DEF Reads
  <2>3. d \in Task /\ pass.seen[d] \in Over
      BY <1>0, <2>2, RowFacts DEF DepsOver
  <2>4. status[d] = pass.seen[d] /\ pass.new[d] = None
      BY <1>0, <2>3, OverFacts DEF Reads
  <2> QED
      BY <1>1, <2>3, <2>4 DEF Over
<1> QED
    BY <1>2, <1>3, <1>4, <1>5 DEF Ordered

LEMMA AbortOrder ==
    ASSUME IInv, Ordered, Abort
    PROVE  Ordered'
<1>1. UNCHANGED <<count, task, status, deps, processed, stale>> /\ pass' = Idle
    BY DEF Abort
<1>2. Rows'
    BY <1>1 DEF Ordered, Rows, Idle
<1>3. Linked' /\ DependenciesFirst'
    BY <1>1 DEF Ordered, Linked, WantsLinked, DependenciesFirst
<1>4. Reads'
    BY <1>1 DEF Reads, Idle
<1> QED
    BY <1>2, <1>3, <1>4 DEF Ordered

LEMMA NextOrdered == IInv /\ Ordered /\ [Next]_vars => Ordered'
<1> SUFFICES ASSUME IInv, Ordered, [Next]_vars PROVE Ordered'
    OBVIOUS
<1>0. IInv'
    BY NextIInv
<1>1. ASSUME NEW r \in Launchable, Launch(r) PROVE Ordered'
    BY <1>0, <1>1, LaunchOrder
<1>2. ASSUME NEW t \in Task, NEW result \in Outcomes, Finish(t, result) PROVE Ordered'
    BY <1>0, <1>2, FinishOrder
<1>3. ASSUME NEW t \in Task, Cancel(t) PROVE Ordered'
    BY <1>0, <1>3, CancelOrder
<1>4. ASSUME NEW t \in Task, CacheExpires(t) PROVE Ordered'
  <2>1. Rows /\ status[t] # None
      BY <1>4, OverFacts DEF Ordered, CacheExpires, Finished
  <2>2. stale' \subseteq 1..count
      BY <1>4, <2>1, RowFacts DEF CacheExpires, Rows
  <2> QED
      BY <1>0, <1>4, <2>2, ElsewhereOrder DEF CacheExpires
<1>5. stale \subseteq 1..count
    BY DEF Ordered, Rows
<1>6. ASSUME NEW n \in Node, NEW s, NodeLeaves(n, s) PROVE Ordered'
    BY <1>0, <1>5, <1>6, ElsewhereOrder DEF NodeLeaves
<1>7. ASSUME NEW n \in Node, NodeReturns(n) PROVE Ordered'
    BY <1>0, <1>5, <1>7, ElsewhereOrder DEF NodeReturns
<1>8. CASE DependencyPass
    BY <1>0, <1>8, DependencyOrder
<1>9. CASE BeginPass
    BY <1>9, BeginOrder
<1>10. ASSUME NEW t \in pass.todo, HandleNext(t) PROVE Ordered'
  <2>1. t \in Task
      BY RowFacts DEF Ordered, IInv, GraphHasActive
  <2>2. CASE FailDependent(t) \/ Postpone(t)
      BY <2>1, <2>2, PostponeOrder
  <2>3. ASSUME NEW ok \in BOOLEAN, StartWorkflow(t, ok) PROVE Ordered'
      BY <2>1, <2>3, StartOrder DEF StartWorkflow
  <2>4. ASSUME NEW ok \in BOOLEAN, StartPlaced(t, ok) PROVE Ordered'
    <3>1. PICK where : StartTask(t, where, ok)
        BY <2>4 DEF StartPlaced
    <3> QED
        BY <2>1, <2>4, <3>1, StartOrder DEF StartPlaced
  <2> QED
      BY <1>10, <2>2, <2>3, <2>4 DEF HandleNext
<1>11. CASE EndPass
    BY <1>11, CommitOrder DEF EndPass
<1>12. CASE TimeOut
    BY <1>12, CommitOrder DEF TimeOut
<1>13. CASE Abort
    BY <1>13, AbortOrder
<1>14. CASE UNCHANGED vars
    BY <1>0, <1>5, <1>14, ElsewhereOrder DEF vars
<1> QED
    BY <1>1, <1>2, <1>3, <1>4, <1>6, <1>7, <1>8, <1>9, <1>10, <1>11, <1>12,
       <1>13, <1>14 DEF Next, PassStep

LEMMA NextBounds == IInv /\ Bounds /\ [Next]_vars => Bounds'
<1> SUFFICES ASSUME IInv, Bounds, [Next]_vars PROVE Bounds'
    OBVIOUS
<1> USE DEF Bounds
<1>0. /\ MaxLaunches \in Nat /\ MaxFaults \in Nat /\ StartTaskLimit \in Nat
      /\ launches \in Nat /\ faults \in Nat /\ pass.limit \in Nat
      /\ Idle.limit = 0
    BY SchedulerAssumption DEF Idle
<1>1. ASSUME NEW r \in Launchable, Launch(r) PROVE Bounds'
    BY <1>0, <1>1 DEF Launch
<1>2. ASSUME UNCHANGED <<launches, faults, nodes, pass>> PROVE Bounds'
    BY <1>2
<1>3. ASSUME NEW n \in Node, NEW s \in {"unavailable", "gone"}, NodeLeaves(n, s) PROVE Bounds'
    BY <1>0, <1>3 DEF NodeLeaves
<1>4. ASSUME NEW n \in Node, NodeReturns(n) PROVE Bounds'
    BY <1>4 DEF NodeReturns
<1>5. CASE DependencyPass
    BY <1>2, <1>5 DEF DependencyPass, Manage
<1>6. ASSUME UNCHANGED <<launches, nodes>>, faults' \in 0..MaxFaults,
             pass'.limit \in 0..StartTaskLimit
      PROVE  Bounds'
    BY <1>6
<1>7. CASE BeginPass
  <2>1. pass'.limit = StartTaskLimit /\ UNCHANGED <<launches, nodes, faults>>
      BY <1>7 DEF BeginPass
  <2> QED
      BY <1>0, <1>6, <2>1
<1>8. ASSUME NEW t \in pass.todo, HandleNext(t) PROVE Bounds'
  <2>1. UNCHANGED <<launches, nodes, faults>>
      BY <1>8 DEF HandleNext, FailDependent, Postpone, StartWorkflow, StartPlaced, StartTask, Handled
  <2>2. CASE FailDependent(t) \/ Postpone(t)
    <3>1. pass'.limit = pass.limit
        BY <2>2 DEF FailDependent, Postpone, IInv, PassType
    <3> QED
        BY <1>6, <2>1, <3>1
  <2>3. ASSUME NEW where, NEW ok, IsNext(t), StartTask(t, where, ok) PROVE Bounds'
    <3>1. pass'.limit = pass.limit - 1 /\ pass.limit > 0
        BY <2>3 DEF StartTask, IsNext, IInv, PassType
    <3> QED
        BY <1>0, <1>6, <2>1, <3>1
  <2> QED
      BY <1>8, <2>2, <2>3 DEF HandleNext, StartWorkflow, StartPlaced
<1>9. CASE EndPass \/ TimeOut \/ Abort
  <2>1. UNCHANGED <<launches, nodes>> /\ pass'.limit = 0
      BY <1>0, <1>9 DEF EndPass, TimeOut, Abort, Commit
  <2>2. faults' = faults \/ (faults < MaxFaults /\ faults' = faults + 1)
      BY <1>9 DEF EndPass, TimeOut, Abort
  <2> QED
      BY <1>0, <1>6, <2>1, <2>2
<1>10. ASSUME NEW t \in Task,
              Cancel(t) \/ CacheExpires(t) \/ \E result \in Outcomes : Finish(t, result)
       PROVE  Bounds'
    BY <1>2, <1>10 DEF Cancel, CacheExpires, Finish
<1> QED
    BY <1>1, <1>2, <1>3, <1>4, <1>5, <1>7, <1>8, <1>9, <1>10 DEF Next, PassStep, vars

(* The inductive invariant of all this. *)
SInv == IInv /\ Ordered /\ Bounds

LEMMA SpecSInv == Spec => []SInv
<1>1. Init => SInv
    BY InitIInv, InitOrdered DEF SInv
<1>2. SInv /\ [Next]_vars => SInv'
    BY NextIInv, NextOrdered, NextBounds DEF SInv
<1> QED
    BY <1>1, <1>2, PTL DEF Spec

(* What the rows of the two managers and a pass may be. *)
THEOREM SchedulerTypes == Spec => []TypeOK
<1>1. SInv => TypeOK
  <2> SUFFICES ASSUME SInv PROVE TypeOK
      OBVIOUS
  <2>1. IInv /\ Rows /\ Bounds
      BY DEF SInv, Ordered
  <2>2. \A t \in Task : t <= count => status[t] \in Unfinished \cup Finished
      BY <2>1, RowFacts DEF Rows, IInv, Counted
  <2>3. \A t \in Task : ~(t <= count) => status[t] = None /\ task[t] = None
      BY <2>1, RowFacts DEF Rows, IInv, Counted, Task
  <2>4. \A t \in Task : t <= count => task[t] \in Launchable \cup {UpdateOf[x] : x \in Target}
      BY <2>1, RowFacts DEF Rows, Known
  <2> QED
      BY <2>1, <2>2, <2>3, <2>4 DEF TypeOK, Rows, Bounds, IInv, Counted, GraphHasActive
<1> QED
    BY <1>1, SpecSInv, PTL

(* job_blocked_by, process_job_dep_failures: what an active task depends on *)
(* was over before it started, and had not failed: although the pass had    *)
(* read both statuses before, and links are written by the other manager.   *)
THEOREM DependenciesEndFirst == Spec => []DependenciesFirst
<1>1. SInv => DependenciesFirst
    BY DEF SInv, Ordered
<1> QED
    BY <1>1, SpecSInv, PTL

(* generate_dependencies: whatever lists the two calls work on, a task that *)
(* starts depends on an update of all it wants updated.                     *)
THEOREM UpdatesAreLinked == Spec => []UpdatesLinked
<1>1. SInv => UpdatesLinked
  <2> SUFFICES ASSUME SInv, NEW t \in Task, status[t] \in Active PROVE WantsLinked(t)
      BY DEF UpdatesLinked, WantsLinked
  <2> QED
      BY DEF SInv, IInv, GraphHasActive, Ordered, Linked
<1> QED
    BY <1>1, SpecSInv, PTL
-----------------------------------------------------------------------------
(* Sums *)

(* What a task adds to a sum *)
Share(f, t) == IF t \in DOMAIN f THEN f[t] ELSE 0

LEMMA TotalFacts ==
    ASSUME NEW f
    PROVE  \E s : /\ s[0] = 0
                  /\ \A t \in Task : s[t] = s[t - 1] + Share(f, t)
                  /\ Total(f) = s[MaxTasks]
<1> DEFINE g == [t \in Task |-> IF t \in DOMAIN f THEN f[t] ELSE 0]
<1>1. Total(f) = SumTo(g, MaxTasks)
    BY DEF Total
<1>2. \A t \in Task : g[t] = Share(f, t)
    BY DEF Share
<1> HIDE DEF g
<1>3. PICK s : s[0] = 0 /\ (\A i \in 1..MaxTasks : s[i] = s[i - 1] + g[i]) /\ SumTo(g, MaxTasks) = s[MaxTasks]
    BY SumFacts, StatusFacts
<1> QED
    BY <1>1, <1>2, <1>3 DEF Task

Numbers(f) == DOMAIN f \subseteq Task /\ \A t \in DOMAIN f : f[t] \in Nat

(* A smaller function of fewer tasks has a smaller sum. *)
LEMMA TotalAtMost ==
    ASSUME NEW f, NEW g, Numbers(f),
           \A t \in DOMAIN g : t \in DOMAIN f /\ g[t] \in Nat /\ g[t] <= f[t]
    PROVE  Total(f) \in Nat /\ Total(g) \in Nat /\ Total(g) <= Total(f)
<1>1. PICK s : s[0] = 0 /\ (\A t \in Task : s[t] = s[t - 1] + Share(f, t)) /\ Total(f) = s[MaxTasks]
    BY TotalFacts
<1>2. PICK r : r[0] = 0 /\ (\A t \in Task : r[t] = r[t - 1] + Share(g, t)) /\ Total(g) = r[MaxTasks]
    BY TotalFacts
<1> DEFINE P == {k \in Nat : s[k] \in Nat /\ r[k] \in Nat /\ r[k] <= s[k]}
<1>3. 0 \in P
    BY <1>1, <1>2
<1>4. ASSUME NEW k \in Nat, k < MaxTasks, k \in P PROVE k + 1 \in P
  <2>1. k + 1 \in Task /\ (k + 1) - 1 = k
      BY <1>4, StatusFacts DEF Task
  <2>2. s[k + 1] = s[k] + Share(f, k + 1) /\ r[k + 1] = r[k] + Share(g, k + 1)
    <3>1. s[k + 1] = s[(k + 1) - 1] + Share(f, k + 1)
        BY <1>1, <2>1
    <3>2. r[k + 1] = r[(k + 1) - 1] + Share(g, k + 1)
        BY <1>2, <2>1
    <3> QED
        BY <2>1, <3>1, <3>2
  <2>3. Share(f, k + 1) \in Nat /\ Share(g, k + 1) \in Nat /\ Share(g, k + 1) <= Share(f, k + 1)
      BY DEF Share, Numbers
  <2>4. s[k] \in Nat /\ r[k] \in Nat /\ r[k] <= s[k]
      BY <1>4
  <2> QED
      BY <2>2, <2>3, <2>4
<1>5. P \in SUBSET Nat /\ MaxTasks \in 0..MaxTasks
    BY StatusFacts
<1> HIDE DEF P
<1>6. MaxTasks \in P
    BY <1>3, <1>4, <1>5, UpTo, StatusFacts
<1> QED
    BY <1>1, <1>2, <1>6 DEF P

(* One more task adds its number. *)
LEMMA TotalWith ==
    ASSUME NEW f, NEW g, Numbers(f), Numbers(g), NEW t \in Task,
           t \notin DOMAIN f, DOMAIN g = DOMAIN f \cup {t},
           \A u \in DOMAIN f : g[u] = f[u]
    PROVE  Total(g) = Total(f) + g[t]
<1>1. PICK s : s[0] = 0 /\ (\A u \in Task : s[u] = s[u - 1] + Share(f, u)) /\ Total(f) = s[MaxTasks]
    BY TotalFacts
<1>2. PICK r : r[0] = 0 /\ (\A u \in Task : r[u] = r[u - 1] + Share(g, u)) /\ Total(g) = r[MaxTasks]
    BY TotalFacts
<1>3. t \in Nat /\ 1 <= t /\ t <= MaxTasks /\ g[t] \in Nat
    BY StatusFacts DEF Task, Numbers
<1> DEFINE P == {k \in Nat : s[k] \in Nat /\ r[k] = s[k] + IF t <= k THEN g[t] ELSE 0}
<1>4. 0 \in P
    BY <1>1, <1>2, <1>3
<1>5. ASSUME NEW k \in Nat, k < MaxTasks, k \in P PROVE k + 1 \in P
  <2>1. k + 1 \in Task /\ (k + 1) - 1 = k
      BY <1>5, StatusFacts DEF Task
  <2>2. s[k + 1] = s[k] + Share(f, k + 1) /\ r[k + 1] = r[k] + Share(g, k + 1)
    <3>1. s[k + 1] = s[(k + 1) - 1] + Share(f, k + 1)
        BY <1>1, <2>1
    <3>2. r[k + 1] = r[(k + 1) - 1] + Share(g, k + 1)
        BY <1>2, <2>1
    <3> QED
        BY <2>1, <3>1, <3>2
  <2>3. Share(f, k + 1) \in Nat /\ Share(g, k + 1) = Share(f, k + 1) + IF k + 1 = t THEN g[t] ELSE 0
      BY <1>3 DEF Share, Numbers
  <2>4. s[k] \in Nat /\ r[k] = s[k] + IF t <= k THEN g[t] ELSE 0
      BY <1>5
  <2>5. CASE t <= k
      BY <1>3, <2>2, <2>3, <2>4, <2>5
  <2>6. CASE t = k + 1
      BY <1>3, <2>2, <2>3, <2>4, <2>6
  <2>7. CASE t > k + 1
      BY <1>3, <2>2, <2>3, <2>4, <2>7
  <2> QED
      BY <1>3, <2>5, <2>6, <2>7
<1>6. P \in SUBSET Nat /\ MaxTasks \in 0..MaxTasks
    BY StatusFacts
<1> HIDE DEF P
<1>7. MaxTasks \in P
    BY <1>4, <1>5, <1>6, UpTo, StatusFacts
<1> QED
    BY <1>1, <1>2, <1>3, <1>7 DEF P

(* A sum without a task is less by its number. *)
LEMMA TotalWithout ==
    ASSUME NEW f, Numbers(f), NEW t \in DOMAIN f, NEW g,
           DOMAIN g = DOMAIN f \ {t}, \A u \in DOMAIN g : g[u] = f[u]
    PROVE  Total(f) \in Nat /\ Total(g) \in Nat /\ Total(f) = Total(g) + f[t]
<1>1. Numbers(g) /\ t \in Task /\ t \notin DOMAIN g /\ DOMAIN f = DOMAIN g \cup {t}
    BY DEF Numbers
<1>2. \A u \in DOMAIN g : f[u] = g[u]
    OBVIOUS
<1>3. Total(f) = Total(g) + f[t]
    BY <1>1, <1>2, TotalWith
<1>4. \A u \in DOMAIN g : u \in DOMAIN f /\ g[u] \in Nat /\ g[u] <= f[u]
    BY DEF Numbers
<1> QED
    BY <1>3, <1>4, TotalAtMost

-----------------------------------------------------------------------------
(* What tasks demand: a function from tasks to an impact and a place *)

Demand(D) ==
    /\ DOMAIN D \subseteq Task
    /\ \A t \in DOMAIN D :
         /\ D[t].impact \in Nat
         /\ \A n \in Node : RunsOn(n, D[t].where) => D[t].impact > 0

TakesOf(n, d) ==
    (IF RunsOn(n, d.where) THEN d.impact ELSE 0)
      + (IF ControlledBy(n, d.where) THEN ControlImpact ELSE 0)
Loads(n, D) == [t \in DOMAIN D |-> TakesOf(n, D[t])]
Runners(n, D) == {t \in DOMAIN D : RunsOn(n, D[t].where)}
InGroup(g, D) == {t \in DOMAIN D : D[t].where.group = g}
Impacts(g, D) == [t \in InGroup(g, D) |-> D[t].impact]

(* An instance has too much only by the one job that runs there; a          *)
(* container group is within its limits.                                   *)
NodeFits(n, D) ==
    \/ Total(Loads(n, D)) <= Capacity[n]
    \/ \E r \in DOMAIN D : /\ Runners(n, D) = {r}
                           /\ Total(Loads(n, D)) <= Capacity[n] + Loads(n, D)[r]
GroupFits(g, D) ==
    /\ MaxJobs[g] # 0 => Cardinality(InGroup(g, D)) <= MaxJobs[g]
    /\ MaxForks[g] # 0 => Total(Impacts(g, D)) <= MaxForks[g]
Fit(D) ==
    /\ Demand(D)
    /\ \A n \in Node : NodeFits(n, D)
    /\ \A g \in ContainerGroup : GroupFits(g, D)

LEMMA DemandFacts ==
    ASSUME NEW D, Demand(D)
    PROVE  /\ IsFiniteSet(DOMAIN D)
           /\ \A n \in Node : /\ Numbers(Loads(n, D)) /\ Total(Loads(n, D)) \in Nat
                              /\ IsFiniteSet(Runners(n, D)) /\ Cardinality(Runners(n, D)) \in Nat
           /\ \A g : /\ Numbers(Impacts(g, D)) /\ Total(Impacts(g, D)) \in Nat
                     /\ IsFiniteSet(InGroup(g, D)) /\ Cardinality(InGroup(g, D)) \in Nat
<1>1. IsFiniteSet(DOMAIN D)
  <2>1. IsFiniteSet(Task)
      BY FS_Interval, StatusFacts DEF Task
  <2> QED
      BY <2>1, FS_Subset DEF Demand
<1>2. ASSUME NEW n \in Node
      PROVE  /\ Numbers(Loads(n, D)) /\ Total(Loads(n, D)) \in Nat
             /\ IsFiniteSet(Runners(n, D)) /\ Cardinality(Runners(n, D)) \in Nat
  <2>1. \A t \in DOMAIN D : TakesOf(n, D[t]) \in Nat
      BY SchedulerAssumption DEF Demand, TakesOf
  <2>2. Numbers(Loads(n, D))
      BY <2>1 DEF Numbers, Loads, Demand
  <2>3. Total(Loads(n, D)) \in Nat
    <3>1. \A t \in DOMAIN Loads(n, D) : /\ t \in DOMAIN Loads(n, D) /\ Loads(n, D)[t] \in Nat
                                        /\ Loads(n, D)[t] <= Loads(n, D)[t]
        BY <2>2 DEF Numbers
    <3> QED
        BY <2>2, <3>1, TotalAtMost
  <2>4. Runners(n, D) \subseteq DOMAIN D
      BY DEF Runners
  <2> QED
      BY <1>1, <2>2, <2>3, <2>4, FS_Subset, FS_CardinalityType
<1>3. ASSUME NEW g
      PROVE  /\ Numbers(Impacts(g, D)) /\ Total(Impacts(g, D)) \in Nat
             /\ IsFiniteSet(InGroup(g, D)) /\ Cardinality(InGroup(g, D)) \in Nat
  <2>1. Numbers(Impacts(g, D))
      BY DEF Numbers, Impacts, Demand, InGroup
  <2>2. Total(Impacts(g, D)) \in Nat
    <3>1. \A t \in DOMAIN Impacts(g, D) : /\ t \in DOMAIN Impacts(g, D) /\ Impacts(g, D)[t] \in Nat
                                          /\ Impacts(g, D)[t] <= Impacts(g, D)[t]
        BY <2>1 DEF Numbers
    <3> QED
        BY <2>1, <3>1, TotalAtMost
  <2>3. InGroup(g, D) \subseteq DOMAIN D
      BY DEF InGroup
  <2> QED
      BY <1>1, <2>1, <2>2, <2>3, FS_Subset, FS_CardinalityType
<1> QED
    BY <1>1, <1>2, <1>3

(* Fewer tasks fit as well. *)
LEMMA FitPart ==
    ASSUME NEW D, NEW E, Fit(D), DOMAIN E \subseteq DOMAIN D,
           \A t \in DOMAIN E : E[t] = D[t]
    PROVE  Fit(E)
<1>1. Demand(D) /\ Demand(E)
    BY DEF Fit, Demand
<1>2. ASSUME NEW n \in Node PROVE NodeFits(n, E)
  <2>1. NodeFits(n, D) /\ Numbers(Loads(n, D)) /\ Capacity[n] \in Nat
      BY <1>1, DemandFacts, SchedulerAssumption DEF Fit
  <2>2. \A t \in DOMAIN Loads(n, E) : /\ t \in DOMAIN Loads(n, D) /\ Loads(n, E)[t] \in Nat
                                      /\ Loads(n, E)[t] <= Loads(n, D)[t]
      BY <2>1 DEF Loads, Numbers
  <2>3. Total(Loads(n, D)) \in Nat /\ Total(Loads(n, E)) \in Nat /\ Total(Loads(n, E)) <= Total(Loads(n, D))
      BY <2>1, <2>2, TotalAtMost
  <2>4. CASE Total(Loads(n, D)) <= Capacity[n]
      BY <2>1, <2>3, <2>4 DEF NodeFits
  <2>5. CASE ~(Total(Loads(n, D)) <= Capacity[n])
    <3>1. PICK r \in DOMAIN D : /\ Runners(n, D) = {r}
                                /\ Total(Loads(n, D)) <= Capacity[n] + Loads(n, D)[r]
        BY <2>1, <2>5 DEF NodeFits
    <3>2. CASE r \in DOMAIN E
      <4>1. Runners(n, E) = {r}
          BY <3>1, <3>2 DEF Runners
      <4>2. Loads(n, E)[r] = Loads(n, D)[r] /\ Loads(n, D)[r] \in Nat
          BY <2>1, <3>2 DEF Loads, Numbers
      <4> QED
          BY <2>1, <2>3, <3>1, <3>2, <4>1, <4>2 DEF NodeFits
    <3>3. CASE r \notin DOMAIN E
      <4> DEFINE R == [t \in DOMAIN D \ {r} |-> Loads(n, D)[t]]
      <4>1. DOMAIN Loads(n, D) = DOMAIN D /\ Loads(n, D)[r] \in Nat
          BY <2>1 DEF Loads, Numbers
      <4>2. Total(R) \in Nat /\ Total(Loads(n, D)) = Total(R) + Loads(n, D)[r]
        <5>1. DOMAIN R = DOMAIN Loads(n, D) \ {r} /\ \A u \in DOMAIN R : R[u] = Loads(n, D)[u]
            BY <4>1
        <5> HIDE DEF R
        <5> QED
            BY <2>1, <4>1, <5>1, TotalWithout
      <4>3. Numbers(R)
          BY <2>1, <4>1 DEF Numbers
      <4>4. \A t \in DOMAIN Loads(n, E) : /\ t \in DOMAIN R /\ Loads(n, E)[t] \in Nat
                                          /\ Loads(n, E)[t] <= R[t]
          BY <2>1, <2>2, <3>3, <4>1 DEF Loads
      <4>5. Total(Loads(n, E)) <= Total(R)
        <5> HIDE DEF R
        <5> QED
            BY <4>3, <4>4, TotalAtMost
      <4> HIDE DEF R
      <4> QED
          BY <2>1, <2>3, <3>1, <4>1, <4>2, <4>5 DEF NodeFits
    <3> QED
        BY <3>2, <3>3
  <2> QED
      BY <2>4, <2>5
<1>3. ASSUME NEW g \in ContainerGroup PROVE GroupFits(g, E)
  <2>1. GroupFits(g, D) /\ MaxJobs[g] \in Nat /\ MaxForks[g] \in Nat
      BY SchedulerAssumption DEF Fit
  <2>2. InGroup(g, E) \subseteq InGroup(g, D)
      BY DEF InGroup
  <2>3. /\ IsFiniteSet(InGroup(g, D)) /\ Cardinality(InGroup(g, D)) \in Nat
        /\ Cardinality(InGroup(g, E)) \in Nat /\ Numbers(Impacts(g, D))
      BY <1>1, DemandFacts
  <2>4. Cardinality(InGroup(g, E)) <= Cardinality(InGroup(g, D))
      BY <2>2, <2>3, FS_Subset
  <2>5. \A t \in DOMAIN Impacts(g, E) : /\ t \in DOMAIN Impacts(g, D) /\ Impacts(g, E)[t] \in Nat
                                        /\ Impacts(g, E)[t] <= Impacts(g, D)[t]
      BY <2>2, <1>1 DEF Impacts, InGroup, Demand
  <2>6. /\ Total(Impacts(g, D)) \in Nat /\ Total(Impacts(g, E)) \in Nat
        /\ Total(Impacts(g, E)) <= Total(Impacts(g, D))
      BY <2>3, <2>5, TotalAtMost
  <2> QED
      BY <2>1, <2>3, <2>4, <2>6 DEF GroupFits
<1> QED
    BY <1>1, <1>2, <1>3 DEF Fit

(* What one more task adds, whatever its place. *)
LEMMA OneMore ==
    ASSUME NEW D, Demand(D), NEW E, Demand(E), NEW t \in Task, t \notin DOMAIN D,
           DOMAIN E = DOMAIN D \cup {t}, \A u \in DOMAIN D : E[u] = D[u]
    PROVE  /\ \A n \in Node :
                /\ Total(Loads(n, E)) = Total(Loads(n, D)) + TakesOf(n, E[t])
                /\ Runners(n, E) = Runners(n, D) \cup IF RunsOn(n, E[t].where) THEN {t} ELSE {}
                /\ Cardinality(Runners(n, E)) =
                     Cardinality(Runners(n, D)) + IF RunsOn(n, E[t].where) THEN 1 ELSE 0
                /\ TakesOf(n, E[t]) \in Nat
           /\ \A g :
                IF E[t].where.group = g
                  THEN /\ Cardinality(InGroup(g, E)) = Cardinality(InGroup(g, D)) + 1
                       /\ Total(Impacts(g, E)) = Total(Impacts(g, D)) + E[t].impact
                  ELSE InGroup(g, E) = InGroup(g, D) /\ Impacts(g, E) = Impacts(g, D)
<1>1. ASSUME NEW n \in Node
      PROVE  /\ Total(Loads(n, E)) = Total(Loads(n, D)) + TakesOf(n, E[t])
             /\ Runners(n, E) = Runners(n, D) \cup IF RunsOn(n, E[t].where) THEN {t} ELSE {}
             /\ Cardinality(Runners(n, E)) =
                  Cardinality(Runners(n, D)) + IF RunsOn(n, E[t].where) THEN 1 ELSE 0
             /\ TakesOf(n, E[t]) \in Nat
  <2>1. /\ Numbers(Loads(n, D)) /\ Numbers(Loads(n, E))
        /\ IsFiniteSet(Runners(n, D)) /\ Cardinality(Runners(n, D)) \in Nat
      BY DemandFacts
  <2>2. /\ DOMAIN Loads(n, D) = DOMAIN D /\ DOMAIN Loads(n, E) = DOMAIN D \cup {t}
        /\ \A u \in DOMAIN D : Loads(n, E)[u] = Loads(n, D)[u]
        /\ Loads(n, E)[t] = TakesOf(n, E[t])
      BY DEF Loads
  <2>3. Total(Loads(n, E)) = Total(Loads(n, D)) + Loads(n, E)[t]
      BY <2>1, <2>2, TotalWith
  <2>4. Runners(n, E) = Runners(n, D) \cup IF RunsOn(n, E[t].where) THEN {t} ELSE {}
      BY DEF Runners
  <2>5. t \notin Runners(n, D)
      BY DEF Runners
  <2>6. Cardinality(Runners(n, E)) =
          Cardinality(Runners(n, D)) + IF RunsOn(n, E[t].where) THEN 1 ELSE 0
    <3>1. CASE RunsOn(n, E[t].where)
        BY <2>1, <2>4, <2>5, <3>1, FS_AddElement
    <3>2. CASE ~RunsOn(n, E[t].where)
        BY <2>1, <2>4, <3>2
    <3> QED
        BY <3>1, <3>2
  <2> QED
      BY <2>1, <2>2, <2>3, <2>4, <2>6 DEF Numbers
<1>2. ASSUME NEW g
      PROVE  IF E[t].where.group = g
               THEN /\ Cardinality(InGroup(g, E)) = Cardinality(InGroup(g, D)) + 1
                    /\ Total(Impacts(g, E)) = Total(Impacts(g, D)) + E[t].impact
               ELSE InGroup(g, E) = InGroup(g, D) /\ Impacts(g, E) = Impacts(g, D)
  <2>1. /\ Numbers(Impacts(g, D)) /\ Numbers(Impacts(g, E))
        /\ IsFiniteSet(InGroup(g, D)) /\ Cardinality(InGroup(g, D)) \in Nat
      BY DemandFacts
  <2>2. CASE E[t].where.group = g
    <3>1. InGroup(g, E) = InGroup(g, D) \cup {t} /\ t \notin InGroup(g, D)
        BY <2>2 DEF InGroup
    <3>2. Cardinality(InGroup(g, E)) = Cardinality(InGroup(g, D)) + 1
        BY <2>1, <3>1, FS_AddElement
    <3>3. /\ DOMAIN Impacts(g, D) = InGroup(g, D) /\ DOMAIN Impacts(g, E) = InGroup(g, D) \cup {t}
          /\ \A u \in InGroup(g, D) : Impacts(g, E)[u] = Impacts(g, D)[u]
          /\ Impacts(g, E)[t] = E[t].impact
        BY <3>1 DEF Impacts, InGroup
    <3>4. Total(Impacts(g, E)) = Total(Impacts(g, D)) + Impacts(g, E)[t]
        BY <2>1, <3>1, <3>3, TotalWith
    <3> QED
        BY <2>2, <3>2, <3>3, <3>4
  <2>3. CASE E[t].where.group # g
    <3>1. InGroup(g, E) = InGroup(g, D)
        BY <2>3 DEF InGroup
    <3>2. \A u \in InGroup(g, D) : E[u].impact = D[u].impact
        BY DEF InGroup
    <3>3. Impacts(g, E) = Impacts(g, D)
        BY <3>1, <3>2 DEF Impacts
    <3> QED
        BY <2>3, <3>1, <3>3
  <2> QED
      BY <2>2, <2>3
<1> QED
    BY <1>1, <1>2

(* An instance may take a task that it has room for, or any task to run if *)
(* none runs there; a container group one that is within its limits.       *)
NodeTakes(n, D, d) ==
    \/ TakesOf(n, d) = 0 /\ ~RunsOn(n, d.where)
    \/ Total(Loads(n, D)) + TakesOf(n, d) <= Capacity[n]
    \/ RunsOn(n, d.where) /\ Runners(n, D) = {}
GroupTakes(g, D, d) ==
    d.where.group = g =>
      /\ MaxJobs[g] # 0 => Cardinality(InGroup(g, D)) + 1 <= MaxJobs[g]
      /\ MaxForks[g] # 0 => Total(Impacts(g, D)) + d.impact <= MaxForks[g]

LEMMA FitWith ==
    ASSUME NEW D, Fit(D), NEW E, Demand(E), NEW t \in Task, t \notin DOMAIN D,
           DOMAIN E = DOMAIN D \cup {t}, \A u \in DOMAIN D : E[u] = D[u],
           \A n \in Node : NodeTakes(n, D, E[t]),
           \A g \in ContainerGroup : GroupTakes(g, D, E[t])
    PROVE  Fit(E)
<1>1. Demand(D)
    BY DEF Fit
<1>2. ASSUME NEW n \in Node PROVE NodeFits(n, E)
  <2>1. NodeFits(n, D) /\ NodeTakes(n, D, E[t]) /\ Total(Loads(n, D)) \in Nat /\ Capacity[n] \in Nat
      BY <1>1, DemandFacts, SchedulerAssumption DEF Fit
  <2>2. /\ Total(Loads(n, E)) = Total(Loads(n, D)) + TakesOf(n, E[t])
        /\ Runners(n, E) = Runners(n, D) \cup IF RunsOn(n, E[t].where) THEN {t} ELSE {}
        /\ TakesOf(n, E[t]) \in Nat
      BY <1>1, OneMore
  <2>3. /\ Loads(n, E)[t] = TakesOf(n, E[t])
        /\ \A u \in DOMAIN D : Loads(n, E)[u] = Loads(n, D)[u] /\ Loads(n, D)[u] \in Nat
    <3>1. Numbers(Loads(n, D))
        BY <1>1, DemandFacts
    <3> QED
        BY <3>1 DEF Loads, Numbers
  <2>4. CASE TakesOf(n, E[t]) = 0 /\ ~RunsOn(n, E[t].where)
    <3>1. Total(Loads(n, E)) = Total(Loads(n, D)) /\ Runners(n, E) = Runners(n, D)
        BY <2>1, <2>2, <2>4
    <3>2. CASE Total(Loads(n, D)) <= Capacity[n]
        BY <3>1, <3>2 DEF NodeFits
    <3>3. CASE \E r \in DOMAIN D : /\ Runners(n, D) = {r}
                                   /\ Total(Loads(n, D)) <= Capacity[n] + Loads(n, D)[r]
        BY <2>3, <3>1, <3>3 DEF NodeFits
    <3> QED
        BY <2>1, <3>2, <3>3 DEF NodeFits
  <2>5. CASE Total(Loads(n, D)) + TakesOf(n, E[t]) <= Capacity[n]
      BY <2>2, <2>5 DEF NodeFits
  <2>6. CASE RunsOn(n, E[t].where) /\ Runners(n, D) = {}
    <3>1. Total(Loads(n, D)) <= Capacity[n]
        BY <2>1, <2>6 DEF NodeFits
    <3>2. Runners(n, E) = {t}
        BY <2>2, <2>6
    <3>3. Total(Loads(n, E)) <= Capacity[n] + Loads(n, E)[t]
        BY <2>1, <2>2, <2>3, <3>1
    <3> QED
        BY <3>2, <3>3 DEF NodeFits
  <2> QED
      BY <2>1, <2>4, <2>5, <2>6 DEF NodeTakes
<1>3. ASSUME NEW g \in ContainerGroup PROVE GroupFits(g, E)
  <2>1. GroupFits(g, D) /\ GroupTakes(g, D, E[t])
      BY DEF Fit
  <2>2. IF E[t].where.group = g
          THEN /\ Cardinality(InGroup(g, E)) = Cardinality(InGroup(g, D)) + 1
               /\ Total(Impacts(g, E)) = Total(Impacts(g, D)) + E[t].impact
          ELSE InGroup(g, E) = InGroup(g, D) /\ Impacts(g, E) = Impacts(g, D)
      BY <1>1, OneMore
  <2> QED
      BY <2>1, <2>2 DEF GroupFits, GroupTakes
<1> QED
    BY <1>2, <1>3 DEF Fit

(* Where nothing is taken nothing runs. *)
LEMMA UnusedRunsNothing ==
    ASSUME NEW D, Demand(D), NEW n \in Node, Total(Loads(n, D)) = 0
    PROVE  Runners(n, D) = {}
<1> SUFFICES ASSUME NEW t \in Runners(n, D) PROVE FALSE
    OBVIOUS
<1>1. t \in DOMAIN D /\ RunsOn(n, D[t].where) /\ D[t].impact \in Nat /\ D[t].impact > 0
    BY DEF Runners, Demand
<1>2. Loads(n, D)[t] \in Nat /\ Loads(n, D)[t] > 0 /\ Numbers(Loads(n, D)) /\ t \in DOMAIN Loads(n, D)
  <2>1. Loads(n, D)[t] = TakesOf(n, D[t]) /\ t \in DOMAIN Loads(n, D)
      BY <1>1 DEF Loads
  <2>2. TakesOf(n, D[t]) \in Nat /\ TakesOf(n, D[t]) > 0
      BY <1>1, SchedulerAssumption DEF TakesOf
  <2> QED
      BY <2>1, <2>2, DemandFacts
<1> DEFINE g == [u \in DOMAIN Loads(n, D) \ {t} |-> Loads(n, D)[u]]
<1>3. DOMAIN g = DOMAIN Loads(n, D) \ {t} /\ \A u \in DOMAIN g : g[u] = Loads(n, D)[u]
    OBVIOUS
<1> HIDE DEF g
<1>4. Total(g) \in Nat /\ Total(Loads(n, D)) = Total(g) + Loads(n, D)[t]
    BY <1>2, <1>3, TotalWithout
<1> QED
    BY <1>2, <1>4

(* No task at all fits. *)
LEMMA EmptyFits ==
    ASSUME NEW D, DOMAIN D = {}
    PROVE  Fit(D)
<1>1. Demand(D)
    BY DEF Demand
<1>2. ASSUME NEW f, DOMAIN f = {} PROVE Total(f) = 0
  <2>1. PICK s : s[0] = 0 /\ (\A t \in Task : s[t] = s[t - 1] + Share(f, t)) /\ Total(f) = s[MaxTasks]
      BY TotalFacts
  <2> DEFINE P == {k \in Nat : s[k] = 0}
  <2>2. 0 \in P
      BY <2>1
  <2>3. ASSUME NEW k \in Nat, k < MaxTasks, k \in P PROVE k + 1 \in P
    <3>1. k + 1 \in Task /\ (k + 1) - 1 = k
        BY <2>3, StatusFacts DEF Task
    <3>2. s[k + 1] = s[(k + 1) - 1] + Share(f, k + 1)
        BY <2>1, <3>1
    <3> QED
        BY <1>2, <2>3, <3>1, <3>2 DEF Share
  <2>4. P \in SUBSET Nat /\ MaxTasks \in 0..MaxTasks
      BY StatusFacts
  <2> HIDE DEF P
  <2>5. MaxTasks \in P
      BY <2>2, <2>3, <2>4, UpTo, StatusFacts
  <2> QED
      BY <2>1, <2>5 DEF P
<1>3. ASSUME NEW n \in Node PROVE NodeFits(n, D)
  <2>1. DOMAIN Loads(n, D) = {}
      BY DEF Loads
  <2> QED
      BY <1>2, <2>1, SchedulerAssumption DEF NodeFits
<1>4. ASSUME NEW g \in ContainerGroup PROVE GroupFits(g, D)
  <2>1. InGroup(g, D) = {} /\ DOMAIN Impacts(g, D) = {}
      BY DEF InGroup, Impacts
  <2>2. Cardinality(InGroup(g, D)) = 0 /\ Total(Impacts(g, D)) = 0
      BY <1>2, <2>1, FS_EmptySet
  <2> QED
      BY <2>2, SchedulerAssumption DEF GroupFits
<1> QED
    BY <1>1, <1>3, <1>4 DEF Fit

-----------------------------------------------------------------------------
(* The invariant *)

(* What the active tasks of the table demand, and the tasks that a pass has *)
(* in its graph.                                                           *)
TableDemand ==
    [t \in {u \in Task : status[u] \in Active} |-> [impact |-> task[t].impact, where |-> place[t]]]
PassDemand ==
    [t \in pass.graph |-> [impact |-> task[t].impact, where |-> pass.place[t]]]

(* The books of a pass are about its graph. *)
Books ==
    /\ DOMAIN place = Task
    /\ pass.on =>
         /\ DOMAIN pass.place = Task
         /\ pass.ready \subseteq Node
         /\ \A n \in Node : /\ pass.used[n] = Total(Loads(n, PassDemand))
                            /\ pass.jobs[n] = Cardinality(Runners(n, PassDemand))
         /\ pass.todo \cap pass.graph = {}
         /\ \A t \in Task : pass.new[t] = None => pass.place[t] = place[t]

CapacityInv ==
    /\ Books
    /\ Fit(TableDemand)
    /\ pass.on => Fit(PassDemand)

LEMMA InitCapacity == Init => CapacityInv
<1> SUFFICES ASSUME Init PROVE CapacityInv
    OBVIOUS
<1>1. Books /\ ~pass.on
    BY DEF Init, Books, Idle
<1>2. DOMAIN TableDemand = {}
    BY StatusFacts DEF Init, TableDemand
<1>3. Demand(TableDemand)
    BY <1>2 DEF Demand
<1>5. Fit(TableDemand)
    BY <1>2, <1>3, EmptyFits
<1> QED
    BY <1>1, <1>5 DEF CapacityInv

(* A step outside the pass that makes no task active. *)
LEMMA QuietCapacity ==
    ASSUME IInv, CapacityInv, UNCHANGED <<pass, place>>,
           \A t \in Task : status'[t] \in Active => status[t] \in Active,
           \A t \in 1..count : task'[t] = task[t]
    PROVE  CapacityInv'
<1>1. /\ \A t \in Task : status[t] \in Active => t \in 1..count
      /\ pass.graph \subseteq 1..count
    BY StatusFacts DEF IInv, Counted, PassType, Task
<1>2. PassDemand' = PassDemand
    BY <1>1 DEF PassDemand
<1>3. Books'
    BY <1>2 DEF CapacityInv, Books
<1>4. /\ DOMAIN TableDemand' \subseteq DOMAIN TableDemand
      /\ \A t \in DOMAIN TableDemand' : TableDemand'[t] = TableDemand[t]
    BY <1>1 DEF TableDemand
<1>5. Fit(TableDemand')
    BY <1>4, FitPart DEF CapacityInv
<1> QED
    BY <1>2, <1>3, <1>5 DEF CapacityInv

-----------------------------------------------------------------------------
(* Where a pass places a task *)

LEMMA TakesSame ==
    ASSUME NEW n, NEW t, NEW where
    PROVE  Takes(n, t, where) = TakesOf(n, [impact |-> task[t].impact, where |-> where])
BY DEF Takes, TakesOf

(* What there is room for, in terms of what is taken. *)
LEMMA RemainingFacts ==
    ASSUME CapacityInv, pass.on, NEW n \in Node
    PROVE  /\ Total(Loads(n, PassDemand)) \in Nat
           /\ Remaining(n) \in Nat
           /\ \A x \in Nat : 0 < x /\ x <= Remaining(n) => Total(Loads(n, PassDemand)) + x <= Capacity[n]
           /\ Capacity[n] > 0 /\ (pass.jobs[n] = 0 \/ Remaining(n) = Capacity[n])
                => Runners(n, PassDemand) = {}
<1>1. /\ Demand(PassDemand)
      /\ pass.used[n] = Total(Loads(n, PassDemand))
      /\ pass.jobs[n] = Cardinality(Runners(n, PassDemand))
    BY DEF CapacityInv, Fit, Books
<1>2. /\ Total(Loads(n, PassDemand)) \in Nat /\ Capacity[n] \in Nat
      /\ IsFiniteSet(Runners(n, PassDemand))
    BY <1>1, DemandFacts, SchedulerAssumption
<1>3. /\ Remaining(n) \in Nat
      /\ \A x \in Nat : 0 < x /\ x <= Remaining(n) => Total(Loads(n, PassDemand)) + x <= Capacity[n]
    BY <1>1, <1>2 DEF Remaining
<1>4. CASE pass.jobs[n] = 0
  <2>1. Runners(n, PassDemand) = {}
      BY <1>1, <1>2, <1>4, FS_EmptySet
  <2> QED
      BY <1>2, <1>3, <2>1
<1>5. CASE Capacity[n] > 0 /\ Remaining(n) = Capacity[n]
  <2>1. Total(Loads(n, PassDemand)) = 0
      BY <1>1, <1>2, <1>5 DEF Remaining
  <2>2. Runners(n, PassDemand) = {}
      BY <1>1, <2>1, UnusedRunsNothing
  <2> QED
      BY <1>2, <1>3, <2>2
<1> QED
    BY <1>2, <1>3, <1>4, <1>5

LEMMA FitsFacts ==
    ASSUME NEW g, NEW impact, NEW type, NEW add \in BOOLEAN, NEW n \in Fits(g, impact, type, add)
    PROVE  /\ n \in pass.ready
           /\ NodeType[n] \in {type, "hybrid"}
           /\ impact + (IF add /\ NodeType[n] = "hybrid" THEN ControlImpact ELSE 0) <= Remaining(n)
BY DEF Fits, ReadyMembers

LEMMA IdleFacts ==
    ASSUME NEW g, NEW n \in LargestIdle(g)
    PROVE  /\ n \in pass.ready
           /\ NodeType[n] \in {"execution", "hybrid"}
           /\ Capacity[n] > 0 /\ (pass.jobs[n] = 0 \/ Remaining(n) = Capacity[n])
BY DEF LargestIdle, ReadyMembers

(* The places of a task in a group. *)
LEMMA PlaceFacts ==
    ASSUME NEW t, NEW where \in Places(t), ~IsControlTask(t)
    PROVE  \E g, c : c \in Controllers(t) /\ where \in PlacesIn(g, t, c)
BY DEF Places


LEMMA ControllerFacts ==
    ASSUME CapacityInv, pass.on, NEW t, task[t].impact \in Nat, NEW c \in Controllers(t)
    PROVE  /\ c \in Node /\ NodeType[c] \in {"control", "hybrid"}
           /\ ControlImpact + (IF IsControlTask(t) THEN task[t].impact ELSE 0) <= Remaining(c)
<1> DEFINE i == ControlImpact + IF IsControlTask(t) THEN task[t].impact ELSE 0
<1>1. c \in Fits(ControlPlane, i, "control", FALSE)
    BY DEF Controllers
<1>2. i \in Nat
    BY SchedulerAssumption
<1>3. /\ c \in pass.ready /\ NodeType[c] \in {"control", "hybrid"}
      /\ i + (IF FALSE /\ NodeType[c] = "hybrid" THEN ControlImpact ELSE 0) <= Remaining(c)
  <2> HIDE DEF i
  <2> QED
      BY <1>1, FitsFacts
<1>4. c \in Node
    BY <1>3 DEF CapacityInv, Books
<1> QED
    BY <1>2, <1>3, <1>4

(* Every place that a pass finds for a task has room for it. *)
LEMMA PlacesHaveRoom ==
    ASSUME CapacityInv, pass.on, NEW t, task[t].impact \in Nat, task[t].impact > 0,
           NEW where \in Places(t), NEW d, d = [impact |-> task[t].impact, where |-> where]
    PROVE  /\ \A n \in Node : NodeTakes(n, PassDemand, d)
           /\ \A g \in ContainerGroup : GroupTakes(g, PassDemand, d)
<1>1. ASSUME NEW n \in Node,
             TakesOf(n, d) \in Nat, 0 < TakesOf(n, d), TakesOf(n, d) <= Remaining(n)
      PROVE  NodeTakes(n, PassDemand, d)
    BY <1>1, RemainingFacts DEF NodeTakes
<1>2. d.impact = task[t].impact /\ d.where = where
    OBVIOUS
<1>3. ASSUME IsControlTask(t)
      PROVE  /\ \A n \in Node : NodeTakes(n, PassDemand, d)
             /\ \A g \in ContainerGroup : GroupTakes(g, PassDemand, d)
  <2>1. PICK c \in Controllers(t) : where = [control |-> c, execution |-> c, group |-> ControlPlane]
      BY <1>3 DEF Places
  <2>2. c \in Node /\ NodeType[c] \in {"control", "hybrid"} /\ ControlImpact + task[t].impact <= Remaining(c)
      BY <1>3, ControllerFacts
  <2>3. Remaining(c) \in Nat
      BY <2>2, RemainingFacts
  <2>4. ASSUME NEW n \in Node PROVE NodeTakes(n, PassDemand, d)
    <3>1. CASE n = c
      <4>1. TakesOf(n, d) \in Nat /\ 0 < TakesOf(n, d) /\ TakesOf(n, d) <= Remaining(n)
          BY <1>2, <2>1, <2>2, <2>3, <3>1, SchedulerAssumption DEF TakesOf, ControlledBy, RunsOn
      <4> QED
          BY <1>1, <4>1
    <3>2. CASE n # c
      <4>1. TakesOf(n, d) = 0 /\ ~RunsOn(n, d.where)
          BY <1>2, <2>1, <3>2 DEF TakesOf, ControlledBy, RunsOn
      <4> QED
          BY <4>1 DEF NodeTakes
    <3> QED
        BY <3>1, <3>2
  <2>5. \A g \in ContainerGroup : GroupTakes(g, PassDemand, d)
      BY <1>2, <2>1, SchedulerAssumption DEF GroupTakes
  <2> QED
      BY <2>4, <2>5
<1>4. ASSUME ~IsControlTask(t)
      PROVE  /\ \A n \in Node : NodeTakes(n, PassDemand, d)
             /\ \A g \in ContainerGroup : GroupTakes(g, PassDemand, d)
  <2>1. PICK g, c : c \in Controllers(t) /\ where \in PlacesIn(g, t, c)
      BY <1>4, PlaceFacts
  <2>2. c \in Node /\ NodeType[c] \in {"control", "hybrid"} /\ ControlImpact <= Remaining(c)
      BY <1>4, <2>1, ControllerFacts, SchedulerAssumption
  <2>3. GroupHasRoom(g, task[t].impact, 1)
      BY <2>1 DEF PlacesIn
  <2>4. CASE g \in ContainerGroup
    <3>1. where = [control |-> c, execution |-> None, group |-> g]
        BY <2>1, <2>3, <2>4 DEF PlacesIn
    <3>2. ASSUME NEW n \in Node PROVE NodeTakes(n, PassDemand, d)
      <4>1. ~RunsOn(n, d.where)
          BY <1>2, <3>1, SchedulerAssumption DEF RunsOn
      <4>2. CASE n = c
        <5>1. TakesOf(n, d) = ControlImpact
            BY <1>2, <2>2, <3>1, <4>1, <4>2, SchedulerAssumption DEF TakesOf, ControlledBy
        <5> QED
            BY <1>1, <2>2, <4>2, <5>1, SchedulerAssumption
      <4>3. CASE n # c
        <5>1. TakesOf(n, d) = 0
            BY <1>2, <3>1, <4>1, <4>3 DEF TakesOf, ControlledBy
        <5> QED
            BY <4>1, <5>1 DEF NodeTakes
      <4> QED
          BY <4>2, <4>3
    <3>3. /\ InContainer(g) = InGroup(g, PassDemand)
          /\ [u \in InContainer(g) |-> task[u].impact] = Impacts(g, PassDemand)
        BY DEF InContainer, InGroup, Impacts, PassDemand
    <3>4. /\ MaxJobs[g] # 0 => Cardinality(InGroup(g, PassDemand)) + 1 <= MaxJobs[g]
          /\ MaxForks[g] # 0 => Total(Impacts(g, PassDemand)) + d.impact <= MaxForks[g]
      <4>1. /\ MaxJobs[g] # 0 => Cardinality(InContainer(g)) + 1 <= MaxJobs[g]
            /\ MaxForks[g] # 0 => Total([u \in InContainer(g) |-> task[u].impact]) + task[t].impact <= MaxForks[g]
          BY <2>3, <2>4 DEF GroupHasRoom
      <4> QED
          BY <1>2, <3>3, <4>1
    <3>5. \A h \in ContainerGroup : GroupTakes(h, PassDemand, d)
        BY <1>2, <3>1, <3>4 DEF GroupTakes
    <3> QED
        BY <3>2, <3>5
  <2>5. CASE g \notin ContainerGroup
    <3>1. PICK m : /\ m \in Fits(g, task[t].impact, "execution", TRUE) \cup LargestIdle(g)
                   /\ where = [control |-> IF NodeType[m] = "hybrid" THEN m ELSE c,
                               execution |-> m, group |-> g]
        BY <2>1, <2>3, <2>5 DEF PlacesIn
    <3>2. /\ m \in Node /\ NodeType[m] \in {"execution", "hybrid"}
          /\ \/ task[t].impact + (IF NodeType[m] = "hybrid" THEN ControlImpact ELSE 0) <= Remaining(m)
             \/ Runners(m, PassDemand) = {}
      <4>1. CASE m \in Fits(g, task[t].impact, "execution", TRUE)
        <5>1. /\ m \in pass.ready /\ NodeType[m] \in {"execution", "hybrid"}
              /\ task[t].impact + (IF TRUE /\ NodeType[m] = "hybrid" THEN ControlImpact ELSE 0) <= Remaining(m)
            BY <4>1, FitsFacts
        <5> QED
            BY <5>1 DEF CapacityInv, Books
      <4>2. CASE m \in LargestIdle(g)
        <5>1. /\ m \in pass.ready /\ NodeType[m] \in {"execution", "hybrid"}
              /\ Capacity[m] > 0 /\ (pass.jobs[m] = 0 \/ Remaining(m) = Capacity[m])
            BY <4>2, IdleFacts
        <5>2. m \in Node
            BY <5>1 DEF CapacityInv, Books
        <5> QED
            BY <5>1, <5>2, RemainingFacts
      <4> QED
          BY <3>1, <4>1, <4>2
    <3>3. ASSUME NEW n \in Node PROVE NodeTakes(n, PassDemand, d)
      <4>1. CASE n = m
        <5>1. RunsOn(n, d.where)
            BY <1>2, <3>1, <3>2, <4>1 DEF RunsOn
        <5>2. TakesOf(n, d) = task[t].impact + IF NodeType[m] = "hybrid" THEN ControlImpact ELSE 0
            BY <1>2, <2>2, <3>1, <3>2, <4>1, <5>1, SchedulerAssumption DEF TakesOf, ControlledBy
        <5>3. TakesOf(n, d) \in Nat /\ 0 < TakesOf(n, d)
            BY <5>2, SchedulerAssumption
        <5>4. CASE TakesOf(n, d) <= Remaining(n)
            BY <1>1, <5>3, <5>4
        <5>5. CASE Runners(m, PassDemand) = {}
            BY <4>1, <5>1, <5>5 DEF NodeTakes
        <5> QED
            BY <3>2, <4>1, <5>2, <5>4, <5>5
      <4>2. CASE n # m
        <5>1. ~RunsOn(n, d.where)
            BY <1>2, <3>1, <4>2 DEF RunsOn
        <5>2. TakesOf(n, d) = 0 \/ (n = c /\ TakesOf(n, d) = ControlImpact)
            BY <1>2, <3>1, <4>2, <5>1, SchedulerAssumption DEF TakesOf, ControlledBy
        <5>3. CASE TakesOf(n, d) = 0
            BY <5>1, <5>3 DEF NodeTakes
        <5>4. CASE n = c /\ TakesOf(n, d) = ControlImpact
            BY <1>1, <2>2, <5>4, SchedulerAssumption
        <5> QED
            BY <5>2, <5>3, <5>4
      <4> QED
          BY <4>1, <4>2
    <3>4. \A h \in ContainerGroup : GroupTakes(h, PassDemand, d)
        BY <1>2, <2>5, <3>1 DEF GroupTakes
    <3> QED
        BY <3>3, <3>4
  <2> QED
      BY <2>4, <2>5
<1> QED
    BY <1>3, <1>4


LEMMA BeginCapacity ==
    ASSUME IInv, CapacityInv, BeginPass
    PROVE  CapacityInv'
<1> DEFINE graph == {t \in 1..count : t \in processed /\ status[t] \in Active}
<1>1. /\ UNCHANGED <<status, place, task>>
      /\ pass'.on /\ pass'.place = place /\ pass'.graph = graph
      /\ pass'.todo = {t \in 1..count : t \in processed /\ status[t] = "pending"}
      /\ pass'.ready = {n \in Node : nodes[n] = "ready"}
    BY DEF BeginPass
<1>2. \A n \in Node : /\ pass'.used[n] = Total([t \in graph |-> Takes(n, t, place[t])])
                      /\ pass'.jobs[n] = Cardinality({t \in graph : RunsOn(n, place[t])})
    BY DEF BeginPass
<1>3. DOMAIN place = Task /\ Fit(TableDemand)
    BY DEF CapacityInv, Books
<1>4. PassDemand' = [t \in graph |-> [impact |-> task[t].impact, where |-> place[t]]]
    BY <1>1 DEF PassDemand
<1>5. Fit(PassDemand')
  <2>1. \A t \in graph : t \in Task /\ status[t] \in Active
      BY RowFacts, SchedulerAssumption DEF IInv, Counted, Task
  <2>2. /\ DOMAIN PassDemand' \subseteq DOMAIN TableDemand
        /\ \A t \in DOMAIN PassDemand' : PassDemand'[t] = TableDemand[t]
      BY <1>4, <2>1 DEF TableDemand
  <2> QED
      BY <1>3, <2>2, FitPart
<1>6. ASSUME NEW n \in Node
      PROVE  /\ pass'.used[n] = Total(Loads(n, PassDemand'))
             /\ pass'.jobs[n] = Cardinality(Runners(n, PassDemand'))
  <2>1. Loads(n, PassDemand') = [t \in graph |-> Takes(n, t, place[t])]
    <3>1. \A t \in graph : TakesOf(n, PassDemand'[t]) = Takes(n, t, place[t])
        BY <1>4, TakesSame
    <3>2. DOMAIN PassDemand' = graph
        BY <1>4
    <3> HIDE DEF graph
    <3> QED
        BY <3>1, <3>2 DEF Loads
  <2>2. Runners(n, PassDemand') = {t \in graph : RunsOn(n, place[t])}
      BY <1>4 DEF Runners
  <2> QED
      BY <1>2, <2>1, <2>2
<1>7. pass'.todo \cap pass'.graph = {}
    BY <1>1, StatusFacts
<1>8. Books'
    BY <1>1, <1>3, <1>6, <1>7 DEF Books
<1>9. TableDemand' = TableDemand
    BY <1>1 DEF TableDemand
<1> QED
    BY <1>3, <1>5, <1>8, <1>9 DEF CapacityInv

(* A task is dealt with and not started. *)
LEMMA HandledCapacity ==
    ASSUME IInv, CapacityInv, NEW t \in Task,
           UNCHANGED <<task, status, place>>, pass.on,
           \/ pass' = [pass EXCEPT !.todo = @ \ {t}]
           \/ pass' = [pass EXCEPT !.todo = @ \ {t}, !.new[t] = "failed"]
    PROVE  CapacityInv'
<1>1. /\ pass'.on = pass.on /\ pass'.place = pass.place /\ pass'.graph = pass.graph
      /\ pass'.used = pass.used /\ pass'.jobs = pass.jobs /\ pass'.ready = pass.ready
      /\ pass'.todo \subseteq pass.todo
      /\ \A u \in Task : pass'.new[u] = None => pass.new[u] = None
  <2>1. CASE pass' = [pass EXCEPT !.todo = @ \ {t}]
      BY <2>1 DEF IInv, PassType
  <2>2. CASE pass' = [pass EXCEPT !.todo = @ \ {t}, !.new[t] = "failed"]
      BY <2>2, StatusFacts DEF IInv, PassType
  <2> QED
      BY <2>1, <2>2
<1>2. PassDemand' = PassDemand /\ TableDemand' = TableDemand
    BY <1>1 DEF PassDemand, TableDemand
<1>3. Books'
    BY <1>1, <1>2 DEF CapacityInv, Books
<1> QED
    BY <1>1, <1>2, <1>3 DEF CapacityInv

(* A task is started at a place with room for it. *)
LEMMA StartCapacity ==
    ASSUME IInv, CapacityInv, NEW t \in Task, NEW where, NEW ok \in BOOLEAN,
           pass.on, t \in pass.todo, StartTask(t, where, ok),
           NEW d, d = [impact |-> task[t].impact, where |-> where],
           task[t].impact \in Nat,
           \A n \in Node : RunsOn(n, where) => task[t].impact > 0,
           \A n \in Node : NodeTakes(n, PassDemand, d),
           \A g \in ContainerGroup : GroupTakes(g, PassDemand, d)
    PROVE  CapacityInv'
<1>1. UNCHANGED <<task, status, place>>
    BY DEF StartTask, Handled
<1>2. /\ pass'.on = pass.on /\ pass'.ready = pass.ready
      /\ pass'.graph = pass.graph \cup {t}
      /\ pass'.todo = pass.todo \ {t}
      /\ pass'.place = [pass.place EXCEPT ![t] = where]
      /\ pass'.used = [n \in Node |-> pass.used[n] + Takes(n, t, where)]
      /\ pass'.jobs = [n \in Node |-> pass.jobs[n] + IF RunsOn(n, where) THEN 1 ELSE 0]
      /\ \A u \in Task : pass'.new[u] = None => u # t /\ pass.new[u] = None
  <2>1. pass'.new = [pass.new EXCEPT ![t] = IF ~ok THEN "failed"
                        ELSE IF task[t].kind = "workflow" THEN "running"
                        ELSE "waiting"]
      BY DEF StartTask, IInv, PassType
  <2>2. \A u \in Task : pass'.new[u] = None => u # t /\ pass.new[u] = None
      BY <2>1, StatusFacts DEF IInv, PassType, Active
  <2> QED
      BY <2>2 DEF StartTask, IInv, PassType
<1>3. /\ DOMAIN pass.place = Task /\ t \notin pass.graph
      /\ pass.graph \subseteq Task
    BY SchedulerAssumption DEF CapacityInv, Books, IInv, PassType, Counted, Task
<1>4. /\ DOMAIN PassDemand = pass.graph /\ DOMAIN PassDemand' = pass.graph \cup {t}
      /\ \A u \in pass.graph : PassDemand'[u] = PassDemand[u]
      /\ PassDemand'[t] = d
    BY <1>1, <1>2, <1>3 DEF PassDemand
<1>5. Fit(PassDemand) /\ Demand(PassDemand)
    BY DEF CapacityInv, Fit
<1>6. d.impact = task[t].impact /\ d.where = where
    OBVIOUS
<1>7. Demand(PassDemand')
  <2>1. ASSUME NEW u \in DOMAIN PassDemand'
        PROVE  /\ PassDemand'[u].impact \in Nat
               /\ \A n \in Node : RunsOn(n, PassDemand'[u].where) => PassDemand'[u].impact > 0
    <3>1. CASE u = t
        BY <1>4, <1>6, <3>1
    <3>2. CASE u # t
        BY <1>4, <1>5, <3>2 DEF Demand
    <3> QED
        BY <3>1, <3>2
  <2>2. DOMAIN PassDemand' \subseteq Task
      BY <1>3, <1>4
  <2> QED
      BY <2>1, <2>2 DEF Demand
<1>8. Fit(PassDemand')
  <2>1. \A n \in Node : NodeTakes(n, PassDemand, PassDemand'[t])
      BY <1>4
  <2>2. \A g \in ContainerGroup : GroupTakes(g, PassDemand, PassDemand'[t])
      BY <1>4
  <2> QED
      BY <1>3, <1>4, <1>5, <1>7, <2>1, <2>2, FitWith
<1>9. ASSUME NEW n \in Node
      PROVE  /\ pass'.used[n] = Total(Loads(n, PassDemand'))
             /\ pass'.jobs[n] = Cardinality(Runners(n, PassDemand'))
  <2>1. /\ pass.used[n] = Total(Loads(n, PassDemand))
        /\ pass.jobs[n] = Cardinality(Runners(n, PassDemand))
      BY DEF CapacityInv, Books
  <2>2. /\ Total(Loads(n, PassDemand')) = Total(Loads(n, PassDemand)) + TakesOf(n, PassDemand'[t])
        /\ Cardinality(Runners(n, PassDemand')) =
             Cardinality(Runners(n, PassDemand)) + IF RunsOn(n, PassDemand'[t].where) THEN 1 ELSE 0
      BY <1>3, <1>4, <1>5, <1>7, OneMore
  <2>3. TakesOf(n, d) = Takes(n, t, where)
      BY TakesSame
  <2> QED
      BY <1>2, <1>4, <1>6, <2>1, <2>2, <2>3
<1>10. Books'
  <2>1. \A u \in Task : pass'.new[u] = None => pass'.place[u] = place[u]
      BY <1>2, <1>3 DEF CapacityInv, Books
  <2> QED
      BY <1>1, <1>2, <1>3, <1>9, <2>1 DEF CapacityInv, Books
<1>11. TableDemand' = TableDemand
    BY <1>1 DEF TableDemand
<1> QED
    BY <1>8, <1>10, <1>11 DEF CapacityInv


LEMMA CommitCapacity ==
    ASSUME IInv, CapacityInv, pass.on, Commit
    PROVE  CapacityInv'
<1>1. /\ status' = [t \in Task |-> IF pass.new[t] # None THEN pass.new[t] ELSE status[t]]
      /\ place' = [t \in Task |-> IF pass.new[t] # None THEN pass.place[t] ELSE place[t]]
      /\ UNCHANGED task /\ ~pass'.on
    BY DEF Commit, Locked, Idle
<1>2. \A t \in Task : status'[t] \in Active => t \in pass.graph
    BY <1>1 DEF IInv, GraphHasActive
<1>3. \A t \in Task : place'[t] = pass.place[t]
    BY <1>1 DEF CapacityInv, Books
<1>4. /\ DOMAIN TableDemand' \subseteq DOMAIN PassDemand
      /\ \A t \in DOMAIN TableDemand' : TableDemand'[t] = PassDemand[t]
    BY <1>1, <1>2, <1>3 DEF TableDemand, PassDemand
<1>5. Fit(TableDemand')
    BY <1>4, FitPart DEF CapacityInv
<1>6. Books'
    BY <1>1 DEF Books
<1> QED
    BY <1>1, <1>5, <1>6 DEF CapacityInv

LEMMA AbortCapacity ==
    ASSUME IInv, CapacityInv, Abort
    PROVE  CapacityInv'
<1>1. UNCHANGED <<task, status, place>> /\ ~pass'.on
    BY DEF Abort, Idle
<1>2. TableDemand' = TableDemand
    BY <1>1 DEF TableDemand
<1>3. Books'
    BY <1>1 DEF CapacityInv, Books
<1> QED
    BY <1>1, <1>2, <1>3 DEF CapacityInv

(* The tasks of a pass have impacts; only workflow jobs may have none, and  *)
(* they run nowhere.                                                       *)
LEMMA ImpactFacts ==
    ASSUME IInv, Ordered, NEW t \in pass.todo
    PROVE  /\ t \in Task
           /\ task[t].impact \in Nat
           /\ task[t].kind # "workflow" => task[t].impact > 0
<1>1. t \in 1..count /\ t \in Task
    BY RowFacts DEF IInv, PassType, Ordered
<1>2. task[t] \in Known
    BY <1>1 DEF Ordered, Rows
<1> QED
    BY <1>1, <1>2, SchedulerAssumption DEF Known

LEMMA StartWorkflowCapacity ==
    ASSUME IInv, Ordered, CapacityInv, NEW t \in Task, NEW ok \in BOOLEAN, StartWorkflow(t, ok)
    PROVE  CapacityInv'
<1>1. pass.on /\ t \in pass.todo /\ StartTask(t, Nowhere, ok)
    BY DEF StartWorkflow, IsNext
<1>2. task[t].impact \in Nat
    BY <1>1, ImpactFacts
<1> DEFINE d == [impact |-> task[t].impact, where |-> Nowhere]
<1>3. \A n \in Node : ~RunsOn(n, Nowhere) /\ ~ControlledBy(n, Nowhere)
    BY SchedulerAssumption DEF RunsOn, ControlledBy, Nowhere
<1>4. \A n \in Node : NodeTakes(n, PassDemand, d)
  <2>1. \A n \in Node : TakesOf(n, d) = 0 /\ ~RunsOn(n, d.where)
      BY <1>3 DEF TakesOf
  <2> QED
      BY <2>1 DEF NodeTakes
<1>5. \A g \in ContainerGroup : GroupTakes(g, PassDemand, d)
    BY SchedulerAssumption DEF GroupTakes, Nowhere
<1> QED
    BY <1>1, <1>2, <1>3, <1>4, <1>5, StartCapacity

LEMMA StartPlacedCapacity ==
    ASSUME IInv, Ordered, CapacityInv, NEW t \in Task, NEW ok \in BOOLEAN, StartPlaced(t, ok)
    PROVE  CapacityInv'
<1>1. pass.on /\ t \in pass.todo /\ task[t].kind # "workflow"
    BY DEF StartPlaced, IsNext
<1>2. PICK where \in Places(t) : StartTask(t, where, ok)
    BY DEF StartPlaced
<1>3. task[t].impact \in Nat /\ task[t].impact > 0
    BY <1>1, ImpactFacts
<1> DEFINE d == [impact |-> task[t].impact, where |-> where]
<1>4. /\ \A n \in Node : NodeTakes(n, PassDemand, d)
      /\ \A g \in ContainerGroup : GroupTakes(g, PassDemand, d)
    BY <1>1, <1>2, <1>3, PlacesHaveRoom
<1> QED
    BY <1>1, <1>2, <1>3, <1>4, StartCapacity

LEMMA DependencyCapacity ==
    ASSUME IInv, CapacityInv, DependencyPass
    PROVE  CapacityInv'
<1>1. /\ count' \in count..MaxTasks
      /\ \A t \in Task : t \notin (count + 1)..count' => task'[t] = task[t]
      /\ status' = [t \in Task |-> IF t \in (count + 1)..count' THEN "pending" ELSE status[t]]
      /\ UNCHANGED <<pass, place>>
    BY DEF DependencyPass, Manage
<1>2. \A t \in Task : status'[t] \in Active => status[t] \in Active
    BY <1>1, StatusFacts
<1>3. \A t \in 1..count : task'[t] = task[t]
    BY <1>1, SchedulerAssumption DEF IInv, Counted, Task
<1> QED
    BY <1>1, <1>2, <1>3, QuietCapacity

LEMMA NextCapacity == IInv /\ Ordered /\ CapacityInv /\ [Next]_vars => CapacityInv'
<1> SUFFICES ASSUME IInv, Ordered, CapacityInv, [Next]_vars PROVE CapacityInv'
    OBVIOUS
<1>1. ASSUME NEW r \in Launchable, Launch(r) PROVE CapacityInv'
  <2>1. \A u \in Task : status'[u] \in Active => status[u] \in Active
      BY <1>1, StatusFacts DEF Launch, IInv, Counted
  <2>2. \A u \in 1..count : task'[u] = task[u]
      BY <1>1, SchedulerAssumption DEF Launch, IInv, Counted, Task
  <2> QED
      BY <1>1, <2>1, <2>2, QuietCapacity DEF Launch
<1>2. ASSUME NEW t \in Task, NEW result \in Outcomes, Finish(t, result) PROVE CapacityInv'
  <2>1. \A u \in Task : status'[u] \in Active => status[u] \in Active
      BY <1>2, StatusFacts DEF Finish, IInv, Counted
  <2> QED
      BY <1>2, <2>1, QuietCapacity DEF Finish
<1>3. ASSUME NEW t \in Task, Cancel(t) PROVE CapacityInv'
  <2>1. PICK hit : status' = [u \in Task |-> IF u \in hit THEN "canceled" ELSE status[u]]
      BY <1>3 DEF Cancel
  <2>2. \A u \in Task : status'[u] \in Active => status[u] \in Active
      BY <2>1, StatusFacts DEF Finished
  <2> QED
      BY <1>3, <2>2, QuietCapacity DEF Cancel
<1>4. ASSUME UNCHANGED <<pass, place, status, task>> PROVE CapacityInv'
    BY <1>4, QuietCapacity
<1>5. CASE BeginPass
    BY <1>5, BeginCapacity
<1>6. ASSUME NEW t \in pass.todo, HandleNext(t) PROVE CapacityInv'
  <2>1. t \in Task
      BY ImpactFacts
  <2>2. CASE FailDependent(t) \/ Postpone(t)
    <3>1. pass.on /\ UNCHANGED <<task, status, place>>
        BY <2>2 DEF FailDependent, Postpone, IsNext, Handled
    <3>2. \/ pass' = [pass EXCEPT !.todo = @ \ {t}]
          \/ pass' = [pass EXCEPT !.todo = @ \ {t}, !.new[t] = "failed"]
        BY <2>2 DEF FailDependent, Postpone
    <3> QED
        BY <2>1, <3>1, <3>2, HandledCapacity
  <2>3. ASSUME NEW ok \in BOOLEAN, StartWorkflow(t, ok) PROVE CapacityInv'
      BY <2>1, <2>3, StartWorkflowCapacity
  <2>4. ASSUME NEW ok \in BOOLEAN, StartPlaced(t, ok) PROVE CapacityInv'
      BY <2>1, <2>4, StartPlacedCapacity
  <2> QED
      BY <1>6, <2>2, <2>3, <2>4 DEF HandleNext
<1>7. CASE EndPass \/ TimeOut
    BY <1>7, CommitCapacity DEF EndPass, TimeOut
<1>8. CASE Abort
    BY <1>8, AbortCapacity
<1>9. ASSUME NEW t \in Task, CacheExpires(t) PROVE CapacityInv'
    BY <1>4, <1>9 DEF CacheExpires
<1>10. ASSUME NEW n \in Node, NEW s, NodeLeaves(n, s) PROVE CapacityInv'
    BY <1>4, <1>10 DEF NodeLeaves
<1>11. ASSUME NEW n \in Node, NodeReturns(n) PROVE CapacityInv'
    BY <1>4, <1>11 DEF NodeReturns
<1>12. CASE DependencyPass
    BY <1>12, DependencyCapacity
<1>13. CASE UNCHANGED vars
    BY <1>4, <1>13 DEF vars
<1> QED
    BY <1>1, <1>2, <1>3, <1>5, <1>6, <1>7, <1>8, <1>9, <1>10, <1>11, <1>12, <1>13
       DEF Next, PassStep

(* fit_task_to_most_remaining_capacity_instance, find_largest_idle_instance *)
(* and has_remaining_capacity: no pass gives an instance more than its     *)
(* capacity, but by one job that is too large for it, and no container     *)
(* group more than its limits, whatever ends between and during passes.    *)
THEOREM CapacityKept == Spec => []WithinCapacity
<1> DEFINE Inv == SInv /\ CapacityInv
<1>1. Init => Inv
    BY InitIInv, InitOrdered, InitCapacity DEF SInv
<1>2. Inv /\ [Next]_vars => Inv'
    BY NextIInv, NextOrdered, NextBounds, NextCapacity DEF SInv
<1>3. Inv => WithinCapacity
  <2> SUFFICES ASSUME CapacityInv, pass.on
               PROVE  /\ \A n \in Node : pass.used[n] <= Capacity[n] \/ pass.jobs[n] = 1
                      /\ \A g \in ContainerGroup :
                           /\ MaxJobs[g] # 0 => Cardinality(InContainer(g)) <= MaxJobs[g]
                           /\ MaxForks[g] # 0 =>
                                Total([t \in InContainer(g) |-> task[t].impact]) <= MaxForks[g]
      BY DEF WithinCapacity
  <2>1. Books /\ Fit(PassDemand)
      BY DEF CapacityInv
  <2>2. ASSUME NEW n \in Node PROVE pass.used[n] <= Capacity[n] \/ pass.jobs[n] = 1
    <3>1. NodeFits(n, PassDemand)
        BY <2>1 DEF Fit
    <3>2. /\ pass.used[n] = Total(Loads(n, PassDemand))
          /\ pass.jobs[n] = Cardinality(Runners(n, PassDemand))
        BY <2>1 DEF Books
    <3>3. CASE Total(Loads(n, PassDemand)) <= Capacity[n]
        BY <3>2, <3>3
    <3>4. ASSUME NEW r, Runners(n, PassDemand) = {r} PROVE pass.jobs[n] = 1
        BY <3>2, <3>4, FS_Singleton
    <3> QED
        BY <3>1, <3>3, <3>4 DEF NodeFits
  <2>3. ASSUME NEW g \in ContainerGroup
        PROVE  /\ MaxJobs[g] # 0 => Cardinality(InContainer(g)) <= MaxJobs[g]
               /\ MaxForks[g] # 0 =>
                    Total([t \in InContainer(g) |-> task[t].impact]) <= MaxForks[g]
    <3>1. GroupFits(g, PassDemand)
        BY <2>1 DEF Fit
    <3>2. /\ InContainer(g) = InGroup(g, PassDemand)
          /\ [u \in InContainer(g) |-> task[u].impact] = Impacts(g, PassDemand)
        BY DEF InContainer, InGroup, Impacts, PassDemand
    <3> QED
        BY <3>1, <3>2 DEF GroupFits
  <2> QED
      BY <2>2, <2>3
<1> HIDE DEF Inv
<1> QED
    BY <1>1, <1>2, <1>3, PTL DEF Spec

=============================================================================
