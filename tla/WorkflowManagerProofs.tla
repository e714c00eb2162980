------------------------ MODULE WorkflowManagerProofs ------------------------
(***************************************************************************)
(* Safety of the workflow manager, for every graph, every set of outcomes  *)
(* and every choice of convergence and of deletable templates.             *)
(***************************************************************************)
EXTENDS WorkflowManager, TLAPS

(* What a pass has read stays true enough while it is under way: only the  *)
(* pass itself creates jobs, a finished job stays finished, and templates  *)
(* only disappear.                                                         *)
SnapshotSound ==
    pass = "reading" =>
        /\ snap.flag => flag
        /\ tmpl \subseteq snap.tmpl
        /\ \A n \in Node :
              /\ snap.job[n] = NoJob <=> job[n] = NoJob
              /\ snap.job[n] \in Finished => job[n] \in Finished
              /\ ~flag /\ snap.job[n] \in Finished => job[n] = snap.job[n]

(* A process executes a job that exists, and before a cancellation the     *)
(* row says so.                                                            *)
LiveAgrees ==
    \A n \in live : job[n] # NoJob /\ (~flag => job[n] = "running")

(* Before the workflow is started, and until the pass that starts it is    *)
(* over, nothing has happened in it but cancel requests.                   *)
StartInv ==
    wf = "pending" \/ tm.busy =>
        /\ wf \in {"pending", "canceled"}
        /\ pass = "idle"
        /\ \A n \in Node : ~dnr[n] /\ job[n] = NoJob

IndInv ==
    /\ TypeOK
    /\ StartInv
    /\ SnapshotSound
    /\ LiveAgrees
    /\ DnrHasNoJob
    /\ ParentsSettled
    /\ RanOnlyIfReached
    /\ SkippedOnlyIfClosed

-----------------------------------------------------------------------------
(* In every view of a pass a job is absent exactly if it is absent now,    *)
(* and a job seen finished is finished, with the status seen unless the    *)
(* workflow was canceled.                                                  *)
LEMMA ViewSound ==
    ASSUME TypeOK, SnapshotSound, pass = "reading", NEW s \in Views
    PROVE  /\ s \in [Node -> JobStatuses]
           /\ \A n \in Node :
                 /\ s[n] = NoJob <=> job[n] = NoJob
                 /\ s[n] \in Finished => job[n] \in Finished
                 /\ ~flag /\ s[n] \in Finished => job[n] = s[n]
<1>1. PICK fresh \in SUBSET Node :
          s = [n \in Node |-> IF n \in fresh THEN job[n] ELSE snap.job[n]]
  BY DEF Views
<1>2. job \in [Node -> JobStatuses] /\ snap.job \in [Node -> JobStatuses]
  BY DEF TypeOK
<1> QED
  BY <1>1, <1>2 DEF SnapshotSound

(* The search reaches a node below a root only along an open edge. *)
LEMMA VisitedOpened ==
    ASSUME NEW s, NEW t, NEW d, NEW n \in Visited(s, t, d), n \notin RootNodes
    PROVE  \E p \in Parents(n) : Opens(p, n, s, t)
<1> DEFINE S == {x \in Node : x \in RootNodes \/ \E p \in Node : Opens(p, x, s, t)}
<1>1. S \in SUBSET Node
  OBVIOUS
<1>2. RootNodes \subseteq S
  BY DEF RootNodes
<1>3. \A p \in S, c \in Node : ~d[p] /\ Opens(p, c, s, t) => c \in S
  OBVIOUS
<1>4. n \in S
  BY <1>1, <1>2, <1>3 DEF Visited
<1>5. PICK p \in Node : Opens(p, n, s, t)
  BY <1>4
<1>6. p \in Parents(n) /\ n \in Node
  BY <1>4, <1>5 DEF Opens, Parents, Edges
<1> QED
  BY <1>5, <1>6

-----------------------------------------------------------------------------
LEMMA InitEstablishes == Init => IndInv
<1> SUFFICES ASSUME Init PROVE IndInv
  OBVIOUS
<1>1. TypeOK
  BY StatusAssumption DEF Init, TypeOK, NothingRead, IdleTM, JobStatuses, Active
<1> QED
  BY <1>1, StatusAssumption DEF Init, IndInv, StartInv, IdleTM, SnapshotSound, LiveAgrees, DnrHasNoJob,
     ParentsSettled, RanOnlyIfReached, SkippedOnlyIfClosed

-----------------------------------------------------------------------------
(* The steps that change neither the marks nor which nodes have a job.     *)
LEMMA QuietStep ==
    ASSUME IndInv,
           TypeOK', StartInv', LiveAgrees', SnapshotSound',
           UNCHANGED dnr, tmpl' \subseteq tmpl,
           flag => flag',
           \A n \in Node : job'[n] = NoJob <=> job[n] = NoJob,
           \A n \in Node : job[n] \in Finished => job'[n] \in Finished,
           ~flag => \A n \in Node : job[n] \in Finished => job'[n] = job[n]
    PROVE  IndInv'
<1> USE DEF IndInv
<1>1. DnrHasNoJob'
  BY DEF DnrHasNoJob
<1>2. ParentsSettled'
  BY DEF ParentsSettled, Parents
<1>3. ASSUME ~flag, NEW p \in Node, NEW n \in Node, Opens(p, n, job, tmpl)
      PROVE  Opens(p, n, job', tmpl')
  BY <1>3, StatusAssumption DEF Opens, Finished, FailedStatuses
<1>4. ASSUME ~flag, NEW p \in Node, NEW n \in Node,
             job[p] \in Finished \/ (job[p] = NoJob /\ p \notin tmpl),
             Opens(p, n, job', tmpl')
      PROVE  Opens(p, n, job, tmpl)
  BY <1>4, StatusAssumption DEF Opens, Finished, FailedStatuses
<1>5. RanOnlyIfReached'
  <2> SUFFICES ASSUME ~flag', NEW n \in Node, job'[n] # NoJob, n \notin RootNodes
               PROVE  \E p \in Parents(n) : Opens(p, n, job', tmpl')
    BY DEF RanOnlyIfReached, RootNodes, Parents
  <2>1. PICK p \in Parents(n) : Opens(p, n, job, tmpl)
    BY DEF RanOnlyIfReached
  <2> QED
    BY <2>1, <1>3 DEF Parents
<1>6. SkippedOnlyIfClosed'
  <2> SUFFICES ASSUME ~flag', NEW n \in Node \ AllConverge, dnr[n],
                      NEW p \in Parents(n), ~dnr[p]
               PROVE  /\ job'[p] \in Finished \/ (job'[p] = NoJob /\ p \notin tmpl')
                      /\ ~Opens(p, n, job', tmpl')
    BY DEF SkippedOnlyIfClosed, Parents
  <2>1. /\ job[p] \in Finished \/ (job[p] = NoJob /\ p \notin tmpl)
        /\ ~Opens(p, n, job, tmpl)
    BY DEF SkippedOnlyIfClosed
  <2>2. p \in Node
    BY DEF Parents
  <2> QED
    BY <2>1, <2>2, <1>4
<1> QED
  BY <1>1, <1>2, <1>5, <1>6

-----------------------------------------------------------------------------
LEMMA TypeStep == TypeOK /\ [Next]_vars => TypeOK'
<1> SUFFICES ASSUME TypeOK, [Next]_vars PROVE TypeOK'
  OBVIOUS
<1> USE StatusAssumption DEF TypeOK, JobStatuses, Active, Finished
<1>1. CASE BeginPass
  BY <1>1 DEF BeginPass
<1>2. CASE AdvancePass
  <2>1. job' \in [Node -> JobStatuses]
    BY <1>2 DEF AdvancePass, Spawn
  <2> QED
    BY <1>2, <2>1 DEF AdvancePass, NothingRead
<1>3. CASE CancelPass
  <2>1. job' \in [Node -> JobStatuses]
    BY <1>3 DEF CancelPass, Spawn
  <2>2. dnr' \in [Node -> BOOLEAN]
    BY <1>3 DEF CancelPass, CancelMarks
  <2> QED
    BY <1>3, <2>1, <2>2 DEF CancelPass, NothingRead
<1>4. CASE AbortPass
  BY <1>4 DEF AbortPass, NothingRead
<1>5. CASE StartRead \/ StartWorkflow \/ StartLeave
  <2>1. tm' \in [busy : BOOLEAN, flag : BOOLEAN]
    <3>1. CASE StartRead
      <4>1. flag \in BOOLEAN /\ tm' = [busy |-> TRUE, flag |-> flag]
        BY <3>1 DEF StartRead
      <4>2. CASE flag = TRUE
        BY <4>1, <4>2
      <4>3. CASE flag = FALSE
        BY <4>1, <4>3
      <4> QED
        BY <4>1, <4>2, <4>3
    <3>2. CASE StartWorkflow \/ StartLeave
      <4>1. tm' = [busy |-> FALSE, flag |-> FALSE]
        BY <3>2 DEF StartWorkflow, StartLeave, IdleTM
      <4> QED
        BY <4>1
    <3> QED
      BY <1>5, <3>1, <3>2
  <2>2. wf' \in Active \cup Finished /\ flag' \in BOOLEAN
    BY <1>5 DEF StartRead, StartWorkflow, StartLeave
  <2>3. UNCHANGED <<dnr, job, live, tmpl, pass, snap, request>>
    BY <1>5 DEF StartRead, StartWorkflow, StartLeave
  <2> QED
    BY <2>1, <2>2, <2>3
<1>6. CASE \E n \in Node : JobStart(n) \/ JobEnd(n) \/ DeleteTemplate(n)
  BY <1>6 DEF JobStart, JobEnd, DeleteTemplate
<1>7. CASE CancelLoad \/ CancelFlag \/ CancelStatus
  BY <1>7 DEF CancelLoad, CancelFlag, CancelStatus
<1>8. CASE AtRest \/ UNCHANGED vars
  BY <1>8 DEF AtRest, vars
<1> QED
  BY <1>1, <1>2, <1>3, <1>4, <1>5, <1>6, <1>7, <1>8 DEF Next

(* A workflow that is about to be started has no pass and no jobs. *)
LEMMA StartStep == IndInv /\ [Next]_vars => StartInv'
<1> SUFFICES ASSUME IndInv, [Next]_vars PROVE StartInv'
  OBVIOUS
<1> USE StatusAssumption DEF IndInv, StartInv, TypeOK, Active, Finished
<1>1. CASE BeginPass \/ AbortPass
  BY <1>1 DEF BeginPass, AbortPass
<1>2. CASE AdvancePass
  BY <1>2 DEF AdvancePass
<1>3. CASE CancelPass
  BY <1>3 DEF CancelPass
<1>4. CASE StartRead \/ StartWorkflow \/ StartLeave
  BY <1>4 DEF StartRead, StartWorkflow, StartLeave, IdleTM
<1>5. ASSUME NEW n \in Node, JobStart(n) \/ JobEnd(n) \/ DeleteTemplate(n)
      PROVE  StartInv'
  BY <1>5 DEF JobStart, JobEnd, DeleteTemplate, LiveAgrees
<1>6. CASE CancelLoad \/ CancelFlag \/ CancelStatus
  BY <1>6 DEF CancelLoad, CancelFlag, CancelStatus
<1>7. CASE AtRest \/ UNCHANGED vars
  BY <1>7 DEF AtRest, vars
<1> QED
  BY <1>1, <1>2, <1>3, <1>4, <1>5, <1>6, <1>7 DEF Next

(* Every action but the two commits is a quiet step, or finds no marks and *)
(* no jobs.                                                                *)
LEMMA OtherSteps ==
    ASSUME IndInv, TypeOK', StartInv',
           \/ BeginPass \/ AbortPass \/ StartRead \/ StartWorkflow \/ StartLeave
           \/ \E n \in Node : JobStart(n) \/ JobEnd(n) \/ DeleteTemplate(n)
           \/ CancelLoad \/ CancelFlag \/ CancelStatus
           \/ AtRest \/ UNCHANGED vars
    PROVE  IndInv'
<1> USE StatusAssumption DEF IndInv
<1>1. CASE BeginPass
  BY <1>1, QuietStep DEF BeginPass, LiveAgrees, SnapshotSound
<1>2. CASE AbortPass
  BY <1>2, QuietStep DEF AbortPass, LiveAgrees, SnapshotSound
<1>3. CASE StartRead \/ StartLeave \/ CancelLoad \/ CancelFlag \/ CancelStatus \/ AtRest \/ UNCHANGED vars
  BY <1>3, QuietStep DEF StartRead, StartLeave, CancelLoad, CancelFlag, CancelStatus, AtRest,
     vars, LiveAgrees, SnapshotSound
<1>4. ASSUME NEW n \in Node, JobStart(n)
      PROVE  IndInv'
  <2>1. job[n] = "pending" /\ job' = [job EXCEPT ![n] = "running"]
    BY <1>4 DEF JobStart
  <2>2. LiveAgrees'
    BY <1>4, <2>1 DEF JobStart, LiveAgrees, TypeOK, Active
  <2>3. SnapshotSound'
    BY <1>4, <2>1 DEF JobStart, SnapshotSound, TypeOK, Finished, Active
  <2> QED
    BY <1>4, <2>1, <2>2, <2>3, QuietStep DEF JobStart, TypeOK, Finished, Active
<1>5. ASSUME NEW n \in Node, JobEnd(n)
      PROVE  IndInv'
  <2>1. PICK o \in Outcomes : n \in live /\ job' = [job EXCEPT ![n] = o]
    BY <1>5 DEF JobEnd
  <2>2. o \in Finished /\ o # NoJob
    BY <2>1
  <2>3. job[n] # NoJob /\ (~flag => job[n] = "running")
    BY <2>1 DEF LiveAgrees
  <2>4. LiveAgrees'
    BY <1>5, <2>1 DEF JobEnd, LiveAgrees, TypeOK
  <2>5. SnapshotSound'
    BY <1>5, <2>1, <2>2, <2>3 DEF JobEnd, SnapshotSound, TypeOK, Finished
  <2> QED
    BY <1>5, <2>1, <2>2, <2>3, <2>4, <2>5, QuietStep DEF JobEnd, TypeOK, Finished
<1>6. ASSUME NEW n \in Node, DeleteTemplate(n)
      PROVE  IndInv'
  BY <1>6, QuietStep DEF DeleteTemplate, LiveAgrees, SnapshotSound
<1>7. CASE StartWorkflow
  <2>1. /\ pass = "idle"
        /\ \A n \in Node : ~dnr[n] /\ job[n] = NoJob
    BY <1>7 DEF StartWorkflow, StartInv
  <2>2. UNCHANGED <<dnr, job, live, tmpl, pass, snap>>
    BY <1>7 DEF StartWorkflow
  <2>3. SnapshotSound' /\ LiveAgrees'
    <3>1. live = {}
      BY <2>1 DEF LiveAgrees, TypeOK
    <3>2. live' = {} /\ pass' = "idle"
      BY <2>1, <2>2, <3>1
    <3> QED
      BY <3>2 DEF LiveAgrees, SnapshotSound
  <2>4. DnrHasNoJob' /\ ParentsSettled'
    BY <2>1, <2>2 DEF DnrHasNoJob, ParentsSettled
  <2>5. RanOnlyIfReached' /\ SkippedOnlyIfClosed'
    BY <2>1, <2>2 DEF RanOnlyIfReached, SkippedOnlyIfClosed
  <2> QED
    BY <2>3, <2>4, <2>5
<1> QED
  BY <1>1, <1>2, <1>3, <1>4, <1>5, <1>6, <1>7

-----------------------------------------------------------------------------
(* A commit without the cancel flag. *)
LEMMA AdvanceStep ==
    ASSUME IndInv, TypeOK', StartInv', AdvancePass
    PROVE  IndInv'
<1> USE StatusAssumption DEF IndInv
<1> DEFINE t == snap.tmpl
<1>1. PICK s \in Views, d \in [Node -> BOOLEAN] :
         /\ MarkDnrNodes(s, t, d)
         /\ dnr' = d
         /\ \/ UNCHANGED job
            \/ Spawn(BfsNodesToRun(s, t, d), job)
  BY DEF AdvancePass
<1>2. pass = "reading" /\ pass' = "idle" /\ UNCHANGED <<flag, live, tmpl>>
  BY DEF AdvancePass
<1> DEFINE run == {n \in Node : job[n] = NoJob /\ job'[n] # NoJob}
<1>3. \A n \in Node :
         /\ s[n] = NoJob <=> job[n] = NoJob
         /\ s[n] \in Finished => job[n] \in Finished
         /\ ~flag /\ s[n] \in Finished => job[n] = s[n]
  BY <1>1, <1>2, ViewSound
<1>4. /\ \A n \in run : n \in BfsNodesToRun(s, t, d)
      /\ \A n \in Node \ run : job'[n] = job[n]
  <2>1. CASE UNCHANGED job
    BY <2>1
  <2>2. CASE Spawn(BfsNodesToRun(s, t, d), job)
    <3>1. \A n \in Node : n \notin BfsNodesToRun(s, t, d) => job'[n] = job[n]
      BY <2>2 DEF Spawn
    <3>2. \A n \in BfsNodesToRun(s, t, d) : n \in Node /\ job[n] = NoJob /\ job'[n] # NoJob
      BY <2>2, <1>3 DEF Spawn, BfsNodesToRun, Visited, Active, Finished
    <3> QED
      BY <3>1, <3>2
  <2> QED
    BY <1>1, <2>1, <2>2
<1>5. \A n \in run : /\ n \in Visited(s, t, d)
                     /\ ~d[n]
                     /\ AreRelevantParentsFinished(n, s, t, d)
  BY <1>4 DEF BfsNodesToRun
<1>6. \A n \in Node : dnr[n] => d[n]
  BY <1>1 DEF MarkDnrNodes
<1>7. \A n \in Node : d[n] => dnr[n] \/ s[n] = NoJob
  BY <1>1 DEF MarkDnrNodes
<1>8. tmpl \subseteq t
  BY <1>2 DEF SnapshotSound
<1>9. SnapshotSound' /\ LiveAgrees'
  BY <1>2, <1>4, StatusAssumption DEF SnapshotSound, LiveAgrees, TypeOK
<1>10. DnrHasNoJob'
  BY <1>1, <1>3, <1>4, <1>5, <1>7 DEF DnrHasNoJob
<1>11. ParentsSettled'
  <2> SUFFICES ASSUME NEW n \in Node, job'[n] # NoJob, NEW p \in Parents(n)
               PROVE  d[p] \/ p \notin tmpl \/ job'[p] \in Finished
    BY <1>1, <1>2 DEF ParentsSettled, Parents
  <2>1. p \in Node
    BY DEF Parents
  <2>2. job[p] \in Finished => job'[p] \in Finished
    BY <2>1, <1>4 DEF Finished
  <2>3. CASE n \in run
    BY <2>1, <2>2, <2>3, <1>3, <1>5, <1>8 DEF AreRelevantParentsFinished
  <2>4. CASE n \notin run
    BY <2>1, <2>2, <2>4, <1>6 DEF ParentsSettled
  <2> QED
    BY <2>3, <2>4
<1>12. RanOnlyIfReached'
  <2> SUFFICES ASSUME ~flag, NEW n \in Node, job'[n] # NoJob, n \notin RootNodes
               PROVE  \E p \in Parents(n) : Opens(p, n, job', tmpl)
    BY <1>2 DEF RanOnlyIfReached, RootNodes, Parents
  <2>1. CASE n \in run
    <3>1. PICK p \in Parents(n) : Opens(p, n, s, t)
      BY <2>1, <1>5, VisitedOpened
    <3>2. p \in Node
      BY DEF Parents
    <3>3. Opens(p, n, job, tmpl)
      BY <3>1, <3>2, <1>3, <1>8 DEF Opens, Finished, FailedStatuses
    <3>4. s[p] # NoJob \/ p \notin t
      BY <3>1 DEF Opens, FailedStatuses, Finished
    <3>5. p \notin run
      BY <3>2, <3>4, <1>3, <1>4 DEF BfsNodesToRun
    <3> QED
      BY <3>2, <3>3, <3>5, <1>4 DEF Opens
  <2>2. CASE n \notin run
    <3>1. PICK p \in Parents(n) : Opens(p, n, job, tmpl)
      BY <2>2 DEF RanOnlyIfReached
    <3>2. p \in Node
      BY DEF Parents
    <3>3. p \notin run
      <4>1. CASE job[p] # NoJob
        BY <4>1
      <4>2. CASE p \notin tmpl
        <5>1. \A m \in run : m \in tmpl
          BY <1>1, <1>4 DEF Spawn
        <5> QED
          BY <4>2, <5>1
      <4> QED
        BY <3>1, <4>1, <4>2 DEF Opens, FailedStatuses, Finished
    <3> QED
      BY <3>1, <3>2, <3>3, <1>4 DEF Opens
  <2> QED
    BY <2>1, <2>2
<1>13. \A m \in run : m \in tmpl
  BY <1>1, <1>4 DEF Spawn
<1>14. SkippedOnlyIfClosed'
  <2> SUFFICES ASSUME ~flag, NEW n \in Node \ AllConverge, d[n],
                      NEW p \in Parents(n), ~d[p]
               PROVE  /\ job'[p] \in Finished \/ (job'[p] = NoJob /\ p \notin tmpl)
                      /\ ~Opens(p, n, job', tmpl)
    BY <1>1, <1>2 DEF SkippedOnlyIfClosed, Parents
  <2>1. p \in Node
    BY DEF Parents
  <2>2. /\ job[p] \in Finished \/ (job[p] = NoJob /\ p \notin tmpl)
        /\ ~Opens(p, n, job, tmpl)
    <3>1. CASE dnr[n]
      BY <2>1, <3>1, <1>6 DEF SkippedOnlyIfClosed
    <3>2. CASE ~dnr[n]
      <4>1. ShouldMarkNodeDnr(n, s, t, d)
        BY <3>2, <1>1 DEF MarkDnrNodes
      <4>2. /\ s[p] \in Finished \/ (s[p] = NoJob /\ p \notin t)
            /\ ~Opens(p, n, s, t)
        BY <4>1 DEF ShouldMarkNodeDnr
      <4>3. job[p] = s[p]
        BY <2>1, <4>2, <1>3
      <4> QED
        BY <4>2, <4>3, <1>8 DEF Opens, Finished, FailedStatuses
    <3> QED
      BY <3>1, <3>2
  <2>3. job'[p] = job[p]
    BY <2>1, <2>2, <1>4, <1>13 DEF Finished
  <2> QED
    BY <2>2, <2>3 DEF Opens
<1> QED
  BY <1>9, <1>10, <1>11, <1>12, <1>14

(* A commit with the cancel flag.  The two properties about outcomes say   *)
(* nothing of a canceled workflow.                                         *)
LEMMA CancelStep ==
    ASSUME IndInv, TypeOK', StartInv', CancelPass
    PROVE  IndInv'
<1> USE StatusAssumption DEF IndInv
<1> DEFINE t == snap.tmpl
           seen(s) == CancelNodeJobs(s)
           after(s) == [n \in Node |-> IF s[n] = "pending" THEN "canceled" ELSE job[n]]
<1>1. PICK s \in Views, run \in SUBSET Node :
         /\ run \subseteq BfsNodesToRun(seen(s), t, dnr)
         /\ Spawn(run, after(s))
         /\ dnr' = [n \in Node |-> IF n \in run THEN FALSE ELSE dnr[n] \/ s[n] = NoJob]
  <2>1. PICK s \in Views :
         LET r == IF \E n \in Node : s[n] \in Active
                  THEN BfsNodesToRun(seen(s), t, dnr) ELSE {}
         IN /\ Spawn(r, after(s))
            /\ dnr' = [n \in Node |-> IF n \in r THEN FALSE ELSE dnr[n] \/ s[n] = NoJob]
    BY DEF CancelPass, CancelMarks
  <2>2. BfsNodesToRun(seen(s), t, dnr) \subseteq Node
    BY DEF BfsNodesToRun, Visited
  <2> QED
    BY <2>1, <2>2
<1>2. /\ pass = "reading" /\ pass' = "idle" /\ snap.flag /\ flag
      /\ UNCHANGED <<flag, live, tmpl>>
  BY DEF CancelPass, SnapshotSound
<1>3. /\ s \in [Node -> JobStatuses]
      /\ \A n \in Node : /\ s[n] = NoJob <=> job[n] = NoJob
                         /\ s[n] \in Finished => job[n] \in Finished
  BY <1>1, <1>2, ViewSound
<1>4. \A n \in Node : seen(s)[n] = NoJob <=> s[n] = NoJob
  BY <1>3 DEF CancelNodeJobs, Active, Finished
<1>5. \A n \in run : /\ ~dnr[n] /\ job[n] = NoJob /\ job'[n] # NoJob
                     /\ AreRelevantParentsFinished(n, seen(s), t, dnr)
  BY <1>1, <1>3, <1>4 DEF BfsNodesToRun, Spawn, Active, Finished
<1>6. \A n \in Node \ run : job'[n] = IF s[n] = "pending" THEN "canceled" ELSE job[n]
  BY <1>1 DEF Spawn
<1>7. \A n \in Node : n \notin run => (job'[n] = NoJob <=> job[n] = NoJob)
  BY <1>3, <1>6 DEF Active, Finished
<1>8. \A n \in Node : dnr'[n] <=> n \notin run /\ (dnr[n] \/ s[n] = NoJob)
  BY <1>1
<1>9. tmpl \subseteq t
  BY <1>2 DEF SnapshotSound
<1>10. SnapshotSound' /\ LiveAgrees' /\ RanOnlyIfReached' /\ SkippedOnlyIfClosed'
  BY <1>2, <1>5, <1>7 DEF SnapshotSound, LiveAgrees, RanOnlyIfReached,
     SkippedOnlyIfClosed, TypeOK
<1>11. DnrHasNoJob'
  BY <1>3, <1>7, <1>8 DEF DnrHasNoJob
<1>12. ParentsSettled'
  <2> SUFFICES ASSUME NEW n \in Node, job'[n] # NoJob, NEW p \in Parents(n)
               PROVE  dnr'[p] \/ p \notin tmpl \/ job'[p] \in Finished
    BY <1>2 DEF ParentsSettled, Parents
  <2>1. p \in Node
    BY DEF Parents
  <2>2. dnr[p] => dnr'[p]
    BY <2>1, <1>5, <1>8
  <2>3. job[p] \in Finished => job'[p] \in Finished
    BY <2>1, <1>5, <1>6 DEF Finished
  <2>4. seen(s)[p] \in Finished => job'[p] \in Finished
    <3>1. CASE s[p] = "pending"
      BY <2>1, <3>1, <1>3, <1>5, <1>6 DEF Finished, Active
    <3>2. CASE s[p] # "pending"
      BY <2>1, <2>3, <3>2, <1>3 DEF CancelNodeJobs
    <3> QED
      BY <3>1, <3>2
  <2>5. CASE n \in run
    BY <2>1, <2>2, <2>4, <2>5, <1>5, <1>9 DEF AreRelevantParentsFinished
  <2>6. CASE n \notin run
    BY <2>1, <2>2, <2>3, <2>6, <1>7 DEF ParentsSettled
  <2> QED
    BY <2>5, <2>6
<1> QED
  BY <1>10, <1>11, <1>12

-----------------------------------------------------------------------------
LEMMA StepPreserves == IndInv /\ [Next]_vars => IndInv'
<1> SUFFICES ASSUME IndInv, [Next]_vars PROVE IndInv'
  OBVIOUS
<1>1. TypeOK'
  BY TypeStep DEF IndInv
<1>5. StartInv'
  BY StartStep
<1>2. CASE AdvancePass
  BY <1>1, <1>5, <1>2, AdvanceStep
<1>3. CASE CancelPass
  BY <1>1, <1>5, <1>3, CancelStep
<1>4. CASE \/ BeginPass \/ AbortPass \/ StartRead \/ StartWorkflow \/ StartLeave
           \/ \E n \in Node : JobStart(n) \/ JobEnd(n) \/ DeleteTemplate(n)
           \/ CancelLoad \/ CancelFlag \/ CancelStatus
           \/ AtRest \/ UNCHANGED vars
  BY <1>1, <1>5, <1>4, OtherSteps
<1> QED
  BY <1>2, <1>3, <1>4 DEF Next

LEMMA Inductive == Spec => []IndInv
<1> QED
  BY InitEstablishes, StepPreserves, PTL DEF Spec

(* The workflow manager keeps every variable in its type. *)
THEOREM TypeCorrect == Spec => []TypeOK
<1>1. IndInv => TypeOK
  BY DEF IndInv
<1> QED
  BY <1>1, Inductive, PTL

(* No node that is marked do_not_run ever has a job, in any graph. *)
THEOREM DnrNeverRuns == Spec => []DnrHasNoJob
<1>1. IndInv => DnrHasNoJob
  BY DEF IndInv
<1> QED
  BY <1>1, Inductive, PTL

(* No node has a job before all of its parents are settled, in any graph   *)
(* and however old the job rows that a pass saw are.                       *)
THEOREM ParentsSettleFirst == Spec => []ParentsSettled
<1>1. IndInv => ParentsSettled
  BY DEF IndInv
<1> QED
  BY <1>1, Inductive, PTL

(* Nodes run along the outcomes of their parents only. *)
THEOREM RunsFollowOutcomes == Spec => []RanOnlyIfReached
<1>1. IndInv => RanOnlyIfReached
  BY DEF IndInv
<1> QED
  BY <1>1, Inductive, PTL

(* A node that any parent may trigger is skipped only when none can. *)
THEOREM SkipsAreJustified == Spec => []SkippedOnlyIfClosed
<1>1. IndInv => SkippedOnlyIfClosed
  BY DEF IndInv
<1> QED
  BY <1>1, Inductive, PTL

-----------------------------------------------------------------------------
(* What a final status means.  A workflow that ended by itself is not      *)
(* touched by a pass again.                                                *)
DecidedInv ==
    /\ IndInv
    /\ pass = "reading" => wf \notin {"successful", "failed"}
    /\ DoneMeansDecided

(* A workflow that ends successful or failed has decided every node.       *)
THEOREM EndsDecided == Spec => []DoneMeansDecided
<1>1. Init => DecidedInv
  BY InitEstablishes, StatusAssumption DEF Init, DecidedInv, DoneMeansDecided, Active
<1>2. DecidedInv /\ [Next]_vars => DecidedInv'
  <2> SUFFICES ASSUME DecidedInv, [Next]_vars PROVE DecidedInv'
    OBVIOUS
  <2>1. IndInv'
    BY StepPreserves DEF DecidedInv
  <2> USE DEF DecidedInv
  <2>2. CASE AdvancePass
    <3>1. PICK s \in Views, d \in [Node -> BOOLEAN] :
             /\ dnr' = d
             /\ \/ IsWorkflowDone(s, snap.tmpl, d) /\ UNCHANGED job
                \/ UNCHANGED wf
      BY <2>2 DEF AdvancePass
    <3>2. /\ pass = "reading" /\ pass' = "idle" /\ UNCHANGED tmpl
          /\ wf \notin {"successful", "failed"} /\ tmpl \subseteq snap.tmpl
      BY <2>2 DEF AdvancePass, IndInv, SnapshotSound
    <3>3. \A n \in Node : s[n] = NoJob <=> job[n] = NoJob
      BY <3>1, <3>2, ViewSound DEF IndInv
    <3> QED
      BY <2>1, <3>1, <3>2, <3>3 DEF IsWorkflowDone, DoneMeansDecided
  <2>3. CASE CancelPass
    BY <2>1, <2>3 DEF CancelPass, DoneMeansDecided
  <2>4. CASE BeginPass \/ AbortPass \/ StartRead \/ StartWorkflow \/ StartLeave
    BY <2>1, <2>4 DEF BeginPass, AbortPass, StartRead, StartWorkflow, StartLeave, DoneMeansDecided
  <2>5. ASSUME NEW n \in Node, JobStart(n) \/ JobEnd(n) \/ DeleteTemplate(n)
        PROVE  DecidedInv'
    <3>1. UNCHANGED <<wf, dnr, pass>> /\ tmpl' \subseteq tmpl
      BY <2>5 DEF JobStart, JobEnd, DeleteTemplate
    <3>2. \A m \in Node : job[m] # NoJob => job'[m] # NoJob
      BY <2>5, StatusAssumption DEF JobStart, JobEnd, DeleteTemplate, IndInv, TypeOK, Active
    <3> QED
      BY <2>1, <3>1, <3>2 DEF DoneMeansDecided
  <2>6. CASE CancelLoad \/ CancelFlag \/ CancelStatus \/ AtRest \/ UNCHANGED vars
    BY <2>1, <2>6 DEF CancelLoad, CancelFlag, CancelStatus, AtRest, vars, DoneMeansDecided
  <2> QED
    BY <2>2, <2>3, <2>4, <2>5, <2>6 DEF Next
<1>3. DecidedInv => DoneMeansDecided
  BY DEF DecidedInv
<1> QED
  BY <1>1, <1>2, <1>3, PTL DEF Spec

(* For a workflow that is running when the first cancel request loads it,  *)
(* the final status, canceled or not, waits for all spawned jobs.          *)
ConcludedInv ==
    /\ IndInv
    /\ wf # "pending" /\ ~tm.busy /\ request \in {"running", "none"}
    /\ pass = "reading" => wf = "running"
    /\ FinishedMeansConcluded

(* Once the workflow is started before any cancel request loads it, a      *)
(* final status means that no spawned job is pending or running.           *)
THEOREM EndsConcluded ==
    ASSUME "pending" \notin InitStatuses
    PROVE  Spec => []FinishedMeansConcluded
<1>1. Init => ConcludedInv
  BY InitEstablishes, StatusAssumption
     DEF Init, ConcludedInv, IdleTM, FinishedMeansConcluded, Active, Finished
<1>2. ConcludedInv /\ [Next]_vars => ConcludedInv'
  <2> SUFFICES ASSUME ConcludedInv, [Next]_vars PROVE ConcludedInv'
    OBVIOUS
  <2>1. IndInv'
    BY StepPreserves DEF ConcludedInv
  <2> USE StatusAssumption DEF ConcludedInv
  <2>2. CASE AdvancePass
    <3>1. PICK s \in Views, d \in [Node -> BOOLEAN] :
             \/ IsWorkflowDone(s, snap.tmpl, d) /\ UNCHANGED job /\ wf' \in Finished
             \/ UNCHANGED wf
      BY <2>2 DEF AdvancePass, Finished
    <3>2. pass = "reading" /\ pass' = "idle" /\ UNCHANGED <<tm, request>> /\ wf = "running"
      BY <2>2 DEF AdvancePass
    <3>3. \A n \in Node : /\ s[n] = NoJob <=> job[n] = NoJob
                          /\ s[n] \in Finished => job[n] \in Finished
      BY <3>1, <3>2, ViewSound DEF IndInv
    <3>4. CASE UNCHANGED wf
      BY <2>1, <3>2, <3>4 DEF FinishedMeansConcluded, Finished
    <3>5. CASE IsWorkflowDone(s, snap.tmpl, d) /\ UNCHANGED job /\ wf' \in Finished
      <4>1. \A n \in Node : job[n] = NoJob \/ job[n] \in Finished
        BY <3>3, <3>5 DEF IsWorkflowDone
      <4>2. \A n \in Node : job'[n] \notin Active
        BY <3>5, <4>1 DEF Active, Finished
      <4> QED
        BY <2>1, <3>2, <3>5, <4>2 DEF FinishedMeansConcluded, Finished
    <3> QED
      BY <3>1, <3>4, <3>5
  <2>3. CASE CancelPass
    <3>1. PICK s \in Views :
             \/ /\ wf' = "canceled"
                /\ \A n \in Node : s[n] \notin Active
                /\ Spawn({}, [n \in Node |-> IF s[n] = "pending" THEN "canceled" ELSE job[n]])
             \/ UNCHANGED wf
      BY <2>3 DEF CancelPass
    <3>2. pass = "reading" /\ pass' = "idle" /\ UNCHANGED <<tm, request>> /\ wf = "running"
      BY <2>3 DEF CancelPass
    <3>3. /\ s \in [Node -> JobStatuses]
          /\ \A n \in Node : /\ s[n] = NoJob <=> job[n] = NoJob
                             /\ s[n] \in Finished => job[n] \in Finished
      BY <3>1, <3>2, ViewSound DEF IndInv
    <3>4. FinishedMeansConcluded'
      <4>1. CASE UNCHANGED wf
        BY <3>2, <4>1 DEF FinishedMeansConcluded, Finished
      <4>2. CASE wf' = "canceled" /\ wf' # wf
        <5>1. \A n \in Node : s[n] \notin Active /\ job'[n] = job[n]
          BY <3>1, <4>2 DEF Spawn, Active
        <5>2. \A n \in Node : job[n] = NoJob \/ job[n] \in Finished
          BY <3>3, <5>1 DEF JobStatuses
        <5> QED
          BY <5>1, <5>2 DEF FinishedMeansConcluded, Active, Finished
      <4> QED
        BY <3>1, <4>1, <4>2
    <3> QED
      BY <2>1, <3>1, <3>2, <3>4
  <2>4. CASE BeginPass \/ AbortPass \/ StartRead \/ StartWorkflow \/ StartLeave
    BY <2>1, <2>4 DEF BeginPass, AbortPass, StartRead, StartWorkflow, StartLeave,
       FinishedMeansConcluded
  <2>5. ASSUME NEW n \in Node, JobStart(n) \/ JobEnd(n) \/ DeleteTemplate(n)
        PROVE  ConcludedInv'
    BY <2>1, <2>5 DEF JobStart, JobEnd, DeleteTemplate, FinishedMeansConcluded, IndInv,
       TypeOK, Active, Finished
  <2>6. CASE CancelLoad \/ CancelFlag \/ CancelStatus \/ AtRest \/ UNCHANGED vars
    BY <2>1, <2>6 DEF CancelLoad, CancelFlag, CancelStatus, AtRest, vars, Active,
       FinishedMeansConcluded
  <2> QED
    BY <2>2, <2>3, <2>4, <2>5, <2>6 DEF Next
<1>3. ConcludedInv => FinishedMeansConcluded
  BY DEF ConcludedInv
<1> QED
  BY <1>1, <1>2, <1>3, PTL DEF Spec
=============================================================================
