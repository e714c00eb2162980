-------------------------- MODULE ProjectCheckout --------------------------
(***************************************************************************)
(* The working tree of one git project on one control node.  Jobs, and     *)
(* updates that look for new commits, share it under a file lock; a job    *)
(* brings the tree to the revision it needs, copies it with the roles that *)
(* belong to it, and sets a tree on another branch back.  A process that   *)
(* is canceled while it waits for the lock goes on without it.             *)
(***************************************************************************)
EXTENDS Naturals, FiniteSets

CONSTANTS
    Jobs,               \* jobs of the project that run on this node, numbers that are no updates
    Overriding,         \* those of them that ask for another branch
    Updates,            \* 1 .. n, the updates, in the order in which they run
    Commits,            \* bound of the commits of the project's branch
    MaxMishaps          \* how many processes are canceled while they wait for the lock, or die, or are cut off

VARIABLES
    remote,             \* the newest commit that anybody has found in the remote repository
    project,            \* the row: scm_revision, last_job, whether that failed; and if an update has half saved
    tree,               \* the commit that HEAD names, 0 if there is no tree; whether the files are torn
    caches,             \* per update: the commit whose roles its cache holds, 0: no cache
    staged,             \* the process whose stage of the cache is whole
    lock,               \* who holds the file lock
    at,                 \* per process: its position
    work,               \* per process: the row it has read, what it syncs, the commit it checks out, the
                        \* commit to set the tree back to, and how its sync or update ends
    result,             \* per job: scm_revision, the commits of the copied files and roles
    gaveUp,             \* the processes that go without the lock
    intruded,           \* history: one of them has touched tree or stage
    unsure,             \* history: jobs that have read the row half saved, or once before and once after a save, the
                        \* caches that they have installed, and the jobs that use those
    interrupts          \* history: how many have died, or were cut off in a checkout

row == <<remote, project>>
local == <<tree, caches, staged>>
ghosts == <<gaveUp, intruded, unsure, interrupts>>
pcvars == <<row, local, lock, at, work, result, ghosts>>

Tasks == Jobs \union Updates
Unlocked == 0
Branch == Commits + 1       \* the commit of the other branch
Torn == Commits + 2         \* files of more than one commit, roles of a disturbed installation
Blank == [row |-> [revision |-> 1, last_job |-> 0, failed |-> FALSE, half |-> FALSE],
          tags |-> {}, target |-> 0, original |-> 0, outcome |-> "successful"]

Nothing == [revision |-> 0, files |-> 0, roles |-> 0]

\* The project has been updated once: here, or on another node, so that there is neither tree nor cache.
Init ==
    /\ remote = 1
    /\ project = Blank.row
    /\ \E here \in {0, 1} : /\ tree = [head |-> here, torn |-> FALSE]
                            /\ caches = [c \in {0} \union Updates |-> IF c = 0 THEN here ELSE 0]
    /\ staged = {} /\ lock = Unlocked
    /\ at = [p \in Tasks |-> "new"]
    /\ work = [p \in Tasks |-> Blank]
    /\ result = [j \in Jobs |-> Nothing]
    /\ gaveUp = {} /\ intruded = FALSE /\ unsure = {} /\ interrupts = 0

Move(p, place) == at' = [at EXCEPT ![p] = place]
MishapsLeft == Cardinality(gaveUp) + interrupts < MaxMishaps
Newest == remote .. Commits     \* somebody may have pushed commits since
Free(p) == IF lock = p THEN Unlocked ELSE lock

\* A job loads its project in pre_run_hook, before it waits for the lock.
StartJob(j) ==
    /\ at[j] = "new"
    /\ work' = [work EXCEPT ![j].row = project]
    /\ unsure' = IF project.half THEN unsure \union {j} ELSE unsure
    /\ Move(j, "waiting")
    /\ UNCHANGED <<row, local, lock, result, gaveUp, intruded, interrupts>>

\* An update does, too, here or on another node; the task manager starts one at a time.  While it runs the
\* project is not failed.
StartUpdate(u) ==
    /\ \A v \in Updates : IF v < u THEN at[v] = "done" ELSE at[v] = "new"
    /\ project' = [project EXCEPT !.failed = FALSE]
    /\ \/ /\ work' = [work EXCEPT ![u].row = project, ![u].tags = {"update", "install"}]
          /\ Move(u, "waiting")
          /\ UNCHANGED remote
       \/ /\ remote' \in Newest
          /\ work' = [work EXCEPT ![u].target = remote']
          /\ Move(u, "saving")
    /\ UNCHANGED <<local, lock, result, ghosts>>

\* acquire_lock.
Acquire(p) ==
    /\ at[p] = "waiting" /\ lock = Unlocked
    /\ lock' = p
    /\ Move(p, IF p \in Jobs THEN "locked" ELSE "syncing")
    /\ UNCHANGED <<row, local, work, result, ghosts>>

\* acquire_lock finds the process canceled, and returns as if it had the lock.
GiveUp(p) ==
    /\ at[p] = "waiting" /\ lock # Unlocked
    /\ MishapsLeft
    /\ gaveUp' = gaveUp \union {p}
    /\ Move(p, IF p \in Jobs THEN "locked" ELSE "syncing")
    /\ UNCHANGED <<row, local, lock, work, result, intruded, unsure, interrupts>>

NeedsUpdate(j) == tree.head = 0 \/ j \in Overriding \/ work[j].row.revision # tree.head
NeedsInstall(j) == caches[work[j].row.last_job] = 0 \/ j \in Overriding

\* sync_and_copy up to the sync: a failed project fails the job, unless it is one that is updated on launch; a tree at
\* the right commit is copied at once.
Decide(j) ==
    /\ at[j] = "locked"
    /\ LET needs == {t \in {"update", "install"} : (t = "update" /\ NeedsUpdate(j)) \/ (t = "install" /\ NeedsInstall(j))}
       IN  \/ /\ work[j].row.failed
              /\ work' = [work EXCEPT ![j].outcome = "failed"]
              /\ Move(j, "leaving")
              /\ UNCHANGED result
           \/ /\ work' = [work EXCEPT ![j].tags = needs, ![j].original = IF j \in Overriding THEN tree.head ELSE 0]
              /\ result' = [result EXCEPT ![j].revision = work[j].row.revision]
              /\ Move(j, IF needs = {} THEN "copying" ELSE "syncing")
    /\ UNCHANGED <<row, local, lock, ghosts>>

-----------------------------------------------------------------------------

\* The sync of a job reads the project again, an update goes on with what it has read.  The stage of the cache is
\* made anew.  What is canceled stops here, but for the sync of a job whose signal has not yet come.
BeginSync(p) ==
    /\ at[p] = "syncing"
    /\ intruded' = (intruded \/ p \in gaveUp)
    /\ \/ /\ p \notin gaveUp \/ p \in Jobs
          /\ work' = IF p \in Jobs THEN [work EXCEPT ![p].row = project] ELSE work
          /\ unsure' = IF p \in Jobs /\ work[p].row # project THEN unsure \union {p} ELSE unsure
          /\ staged' = {p}
          /\ Move(p, IF "update" \in work[p].tags THEN "fetching" ELSE "installing")
       \/ /\ p \in gaveUp
          /\ work' = [work EXCEPT ![p].outcome = "canceled"]
          /\ staged' = {}
          /\ Move(p, "leaving")
          /\ UNCHANGED unsure
    /\ UNCHANGED <<row, tree, caches, lock, result, gaveUp, interrupts>>

\* A copy that is being made while the tree changes is torn.
Spoilt == [j \in Jobs |-> IF at[j] = "copied" THEN [result[j] EXCEPT !.files = Torn] ELSE result[j]]

\* The playbook begins to check out: the newest commit for an update, the project's revision or the other
\* branch for a job.
Fetch(p) ==
    /\ at[p] = "fetching"
    /\ remote' \in IF p \in Updates THEN Newest ELSE {remote}
    /\ work' = [work EXCEPT ![p].target =
           IF p \in Updates THEN remote' ELSE IF p \in Overriding THEN Branch ELSE work[p].row.revision]
    /\ tree' = [tree EXCEPT !.torn = TRUE]
    /\ result' = Spoilt
    /\ Move(p, "checkout")
    /\ UNCHANGED <<project, caches, staged, lock, ghosts>>

\* HEAD moves when the files are there.
CheckOut(p) ==
    /\ at[p] = "checkout"
    /\ tree' = [head |-> work[p].target, torn |-> \E q \in Tasks \ {p} : at[q] = "checkout"]
    /\ result' = IF p \in Jobs THEN [Spoilt EXCEPT ![p].revision = work[p].target] ELSE Spoilt
    /\ Move(p, "installing")
    /\ UNCHANGED <<row, caches, staged, lock, work, ghosts>>

\* The playbook fails before it changes a file, or after the checkout, or is cut off in the middle; post_run_hook
\* removes the stage.  An update that knows its revision may also end in error.
FailSync(p) ==
    /\ \/ at[p] \in {"fetching", "installing"} /\ UNCHANGED interrupts
       \/ at[p] = "checkout" /\ MishapsLeft /\ interrupts' = interrupts + 1
    /\ \E status \in {"failed", "canceled", "error"} :
           /\ status = "canceled" => p \in Updates
           /\ status = "error" => p \in Updates /\ at[p] = "installing"
           /\ work' = [work EXCEPT ![p].outcome = status]
    /\ staged' = {}
    /\ Move(p, "leaving")
    /\ UNCHANGED <<row, tree, caches, lock, result, gaveUp, intruded, unsure>>

CacheId(p) == IF p \in Updates THEN p ELSE work[p].row.last_job

\* post_run_hook of a sync that has succeeded: the stage becomes a cache, the others but the project's are
\* cleared, and a job copies.  The cache of another branch is used by nobody else.
Install(p) ==
    /\ at[p] = "installing"
    /\ LET roles == IF p \in staged THEN tree.head ELSE Torn
           kept(c) == IF c = work[p].row.last_job THEN caches[c] ELSE 0
       IN  /\ caches' = IF "install" \notin work[p].tags THEN caches
                        ELSE [c \in {0} \union Updates |-> IF c = CacheId(p) /\ p \notin Overriding THEN roles ELSE kept(c)]
           /\ result' = IF p \in Overriding THEN [result EXCEPT ![p].roles = roles] ELSE result
           /\ unsure' = IF "install" \in work[p].tags /\ p \notin Overriding /\ p \in unsure THEN unsure \union {CacheId(p)} ELSE unsure
    /\ staged' = {}
    /\ Move(p, IF p \in Jobs THEN "copying" ELSE "leaving")
    /\ UNCHANGED <<row, tree, lock, work, gaveUp, intruded, interrupts>>

-----------------------------------------------------------------------------

\* make_local_copy: the files of the tree, and the roles of the cache that belongs to the row it decides by.
BeginCopy(j) ==
    /\ at[j] = "copying"
    /\ result' = [result EXCEPT ![j].files = IF tree.torn THEN Torn ELSE tree.head,
                                ![j].roles = IF j \in Overriding THEN @ ELSE caches[CacheId(j)]]
    /\ unsure' = IF j \notin Overriding /\ CacheId(j) \in unsure THEN unsure \union {j} ELSE unsure
    /\ Move(j, "copied")
    /\ UNCHANGED <<row, local, lock, work, gaveUp, intruded, interrupts>>

\* run() starts the playbook unless the sync has failed or the job is canceled; else nobody looks at its copy.
Plays(j) == work[j].outcome = "successful" /\ j \notin gaveUp

\* A mistake: the tree is set back before it is copied.
FaultyLeaveJob(j) ==
    /\ at[j] \in {"copied", "leaving"} /\ j \in Jobs
    /\ UNCHANGED <<tree, intruded>>
    /\ result' = [result EXCEPT ![j].files = IF work[j].original = 0 THEN @ ELSE work[j].original]
    /\ lock' = Free(j)
    /\ work' = [work EXCEPT ![j] = Blank]
    /\ Move(j, IF Plays(j) THEN "playing" ELSE "over")
    /\ UNCHANGED <<row, caches, staged, gaveUp, unsure, interrupts>>

\* The end of sync_and_copy: a tree on another branch is set back, if that works, the lock is released, and run()
\* looks whether the job may start its playbook.
LeaveJob(j) ==
    /\ at[j] \in {"copied", "leaving"} /\ j \in Jobs
    /\ \/ /\ UNCHANGED <<tree, intruded>>
          /\ result' = [result EXCEPT ![j] = IF Plays(j) THEN @ ELSE Nothing]
       \/ /\ work[j].original # 0
          /\ tree' = [tree EXCEPT !.head = work[j].original]
          /\ result' = [Spoilt EXCEPT ![j] = IF Plays(j) THEN result[j] ELSE Nothing]
          /\ intruded' = (intruded \/ j \in gaveUp)
    /\ lock' = Free(j)
    /\ work' = [work EXCEPT ![j] = Blank]
    /\ Move(j, IF Plays(j) THEN "playing" ELSE "over")
    /\ UNCHANGED <<row, caches, staged, gaveUp, unsure, interrupts>>

\* post_run_hook of an update: the lock is released, then the project's revision is saved, unless the update has failed
\* or is canceled ...
LeaveUpdate(u) ==
    /\ at[u] = "leaving" /\ u \in Updates
    /\ lock' = Free(u)
    /\ Move(u, IF work[u].outcome \in {"successful", "error"} THEN "saving" ELSE "ending")
    /\ UNCHANGED <<row, local, work, result, ghosts>>

SaveRevision(u) ==
    /\ at[u] = "saving"
    /\ project' = [project EXCEPT !.revision = work[u].target, !.half = TRUE]
    /\ Move(u, "ending")
    /\ UNCHANGED <<remote, local, lock, work, result, ghosts>>

\* ... and with the update's status the project's last_job, by which the caches are named.
SaveStatus(u) ==
    /\ at[u] = "ending"
    /\ project' = [project EXCEPT !.last_job = u, !.failed = work[u].outcome \in {"failed", "error"}, !.half = FALSE]
    /\ work' = [work EXCEPT ![u] = Blank]
    /\ Move(u, "done")
    /\ UNCHANGED <<remote, local, lock, result, ghosts>>

Over == {"new", "playing", "over", "done"}

\* The worker dies: the kernel releases its lock, and a reaper fails an update.
Die(p) ==
    /\ MishapsLeft
    /\ at[p] \notin Over
    /\ interrupts' = interrupts + 1
    /\ lock' = Free(p)
    /\ work' = [work EXCEPT ![p] = [Blank EXCEPT !.outcome = "failed"]]
    /\ Move(p, IF p \in Jobs THEN "over" ELSE "ending")
    /\ result' = IF p \in Jobs THEN [result EXCEPT ![p] = Nothing] ELSE result
    /\ UNCHANGED <<row, local, gaveUp, intruded, unsure>>

Progress(p) ==
    \/ Acquire(p) \/ BeginSync(p) \/ Fetch(p) \/ CheckOut(p) \/ Install(p)
    \/ Decide(p) \/ BeginCopy(p) \/ LeaveJob(p)
    \/ LeaveUpdate(p) \/ SaveRevision(p) \/ SaveStatus(p)

Next ==
    \/ \E j \in Jobs : StartJob(j)
    \/ \E u \in Updates : StartUpdate(u)
    \/ \E p \in Tasks : Progress(p) \/ GiveUp(p) \/ FailSync(p) \/ Die(p)

Spec == Init /\ [][Next]_pcvars

-----------------------------------------------------------------------------

Rows == [revision : 1 .. Commits, last_job : {0} \union Updates, failed : BOOLEAN, half : BOOLEAN]

TypeOK ==
    /\ remote \in 1 .. Commits /\ project \in Rows
    /\ tree \in [head : 0 .. Branch, torn : BOOLEAN]
    /\ caches \in [{0} \union Updates -> 0 .. Torn]
    /\ staged \subseteq Tasks /\ lock \in Tasks \union {Unlocked}
    /\ at \in [Tasks -> Over \union {"waiting", "locked", "syncing", "fetching", "checkout", "installing",
                                         "copying", "copied", "leaving", "saving", "ending"}]
    /\ work \in [Tasks -> [row : Rows, tags : SUBSET {"update", "install"}, target : 0 .. Branch,
                               original : 0 .. Branch, outcome : {"successful", "failed", "canceled", "error"}]]
    /\ result \in [Jobs -> [revision : 0 .. Branch, files : 0 .. Torn, roles : 0 .. Torn]]
    /\ gaveUp \subseteq Tasks /\ intruded \in BOOLEAN /\ unsure \subseteq Tasks \union {0}
    /\ interrupts \in 0 .. MaxMishaps

\* A playing job has the files of the commit that its row records, however other jobs, branches and updates
\* moved the shared tree; at worst they are torn, after a checkout was cut off.  A process that was canceled
\* while it waited, and went on without the lock, is excepted.
PlaysWhatIsRecorded ==
    \A j \in Jobs : at[j] = "playing" /\ ~intruded =>
        result[j].files = result[j].revision \/ (interrupts > 0 /\ result[j].files = Torn)

\* And it has the roles that were installed for that commit, unless an update saved the project between the
\* job's two reads of it, or the job read it between the update's two saves, or the cache is from such a job, or an
\* update died between its installation and its saves.
PlaysWithItsRoles ==
    \A j \in Jobs : at[j] = "playing" /\ ~intruded /\ j \notin unsure /\ interrupts = 0 =>
        result[j].roles = result[j].revision

\* Whoever waits for the tree gets it, and gives it back.
TreeIsFree == \A p \in Tasks : at[p] \in Over
=============================================================================
