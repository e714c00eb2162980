----------------------- MODULE ProjectCheckoutProofs -----------------------
(***************************************************************************)
(* The working tree of a project, for every number of jobs, overriding     *)
(* branches, updates and commits: a job plays the files of the commit that *)
(* its row records (PlaysWhatIsRecorded), with the roles that were         *)
(* installed for it (PlaysWithItsRoles).                                   *)
(*                                                                         *)
(* Whoever works on the tree has the lock, or the history knows it; so     *)
(* HEAD names what the holder has checked out, or has found there, and its *)
(* copy is of that.  For the roles: two rows that name the same update     *)
(* have the same revision, and the cache of an update is of the revision   *)
(* that it saves, unless the history says that a row was read half saved,  *)
(* or that a cache comes from who has read such a row.                     *)
(***************************************************************************)
EXTENDS ProjectCheckout, TLAPS

-----------------------------------------------------------------------------
(* The working tree of a project. *)

(* Updates and jobs are numbered apart, and nothing is number 0.             *)
CheckoutAssumed ==
    /\ Updates \subseteq Nat \ {0} /\ Jobs \subseteq Nat \ {0} /\ Updates \intersect Jobs = {}
    /\ Overriding \subseteq Jobs
    /\ Commits \in Nat

UpdatePlaces == {"new", "waiting", "syncing", "fetching", "checkout", "installing", "leaving", "saving", "ending", "done"}
JobPlaces == {"new", "waiting", "locked", "syncing", "fetching", "checkout", "installing", "copying", "copied",
              "leaving", "playing", "over"}
Caches == {0} \union Updates
ProjectRow == [revision : Nat, last_job : Caches, failed : BOOLEAN, half : BOOLEAN]
WorkRow == [row : ProjectRow, tags : SUBSET {"update", "install"}, target : Nat, original : Nat,
            outcome : {"successful", "failed", "canceled", "error"}]

CheckoutTypes ==
    /\ remote \in Nat /\ project \in ProjectRow
    /\ tree \in [head : Nat, torn : BOOLEAN]
    /\ caches \in [Caches -> Nat]
    /\ at \in [Tasks -> UpdatePlaces \union JobPlaces]
    /\ \A u \in Updates : at[u] \in UpdatePlaces
    /\ \A j \in Jobs : at[j] \in JobPlaces
    /\ work \in [Tasks -> WorkRow]
    /\ result \in [Jobs -> [revision : Nat, files : Nat, roles : Nat]]
    /\ intruded \in BOOLEAN /\ interrupts \in Nat

(* Who did not give up has the lock while it works on the tree.              *)
Locked == {"locked", "syncing", "fetching", "checkout", "installing", "copying", "copied", "leaving"}
Playing == {"fetching", "checkout", "installing"}
HasLock(p) == p \notin gaveUp /\ at[p] \in Locked
LockHeld ==
    /\ \A p \in Tasks : HasLock(p) => lock = p
    /\ ~intruded => \A p \in Tasks : p \in gaveUp => at[p] \notin Playing

(* How updates go on, one after the other.                                   *)
Sequential == \A u, v \in Updates : u < v /\ at[v] # "new" => at[u] = "done"
InPlace(p) ==
    /\ p \in Updates /\ at[p] \in {"waiting", "syncing"} \union Playing => work[p].tags = {"update", "install"}
    /\ p \in Updates /\ at[p] \in {"new", "waiting", "syncing"} \union Playing => work[p].outcome = "successful"
    /\ p \in Jobs /\ at[p] = "leaving" => work[p].outcome # "successful"
InOrder == Sequential /\ \A p \in Tasks : InPlace(p)

(* Whose tree it is, finds at HEAD what it has checked out or found there.   *)
HeadFor(p) ==
    /\ p \in Jobs /\ at[p] \in {"installing", "copying"} => tree.head = result[p].revision
    /\ p \in Jobs /\ at[p] = "syncing" /\ "update" \notin work[p].tags => tree.head = result[p].revision
    /\ p \in Updates /\ at[p] = "installing" => tree.head = work[p].target
TornKnown == tree.torn => interrupts > 0 \/ \E p \in Tasks : at[p] = "checkout"
HeadKnown == ~intruded => TornKnown /\ \A p \in Tasks \ gaveUp : HeadFor(p)

Copied(j) == (at[j] = "copied" /\ j \notin gaveUp) \/ at[j] = "playing"
FilesRecorded ==
    ~intruded => \A j \in Jobs : Copied(j) =>
        result[j].files = result[j].revision \/ (interrupts > 0 /\ result[j].files = Torn)

FilesInv == CheckoutTypes /\ LockHeld /\ InOrder /\ HeadKnown /\ FilesRecorded

(* The rows that are trusted: the project's, between two updates, and those  *)
(* that jobs have read.  Those that name the same update agree, and so does  *)
(* the cache that it names.                                                  *)
Sure(j) == j \in Jobs \ unsure /\ at[j] \notin {"new", "playing", "over"}
RowsAgree ==
    /\ \A j \in Jobs : Sure(j) => ~work[j].row.half
    /\ \A j, k \in Jobs : Sure(j) /\ Sure(k) /\ work[j].row.last_job = work[k].row.last_job =>
          work[j].row.revision = work[k].row.revision
    /\ \A j \in Jobs : Sure(j) /\ ~project.half /\ work[j].row.last_job = project.last_job =>
          work[j].row.revision = project.revision
CacheOf(r) == r.last_job \notin unsure /\ caches[r.last_job] # 0 => caches[r.last_job] = r.revision
CachesAgree ==
    /\ ~project.half => CacheOf(project)
    /\ \A j \in Jobs : Sure(j) => CacheOf(work[j].row)

(* Only what is done is named, and what an update has installed before is of *)
(* the commit that it saves.                                                 *)
Named(c) == c # 0 => at[c] = "done"
SaveFor(u) ==
    at[u] # "done" =>
        /\ u \notin unsure
        /\ caches[u] # 0 => /\ at[u] \in {"leaving", "saving", "ending"}
                            /\ caches[u] = work[u].target /\ work[u].outcome = "successful"
        /\ at[u] = "ending" /\ work[u].outcome = "successful" => project.half /\ project.revision = work[u].target
UpdatesSave ==
    /\ Named(project.last_job)
    /\ \A j \in Jobs : at[j] # "new" => Named(work[j].row.last_job)
    /\ \A u \in Updates : SaveFor(u)

(* What a job finds in the stage, the cache and its own row.                 *)
Syncing == {"syncing"} \union Playing
StageHeld == \A p \in Tasks \ gaveUp : at[p] \in Playing => p \in staged
RowFor(j) ==
    /\ at[j] \in Syncing \union {"copying"} => result[j].revision = work[j].row.revision
    /\ at[j] = "checkout" => work[j].target = work[j].row.revision
    /\ at[j] \in Syncing /\ "install" \notin work[j].tags => caches[work[j].row.last_job] # 0
    /\ at[j] = "copying" => work[j].row.last_job \in unsure \/ caches[work[j].row.last_job] = work[j].row.revision
RowKept == \A j \in Jobs : j \notin gaveUp /\ j \notin unsure /\ j \notin Overriding => RowFor(j)
RolesFor(j) ==
    /\ j \in Overriding \ gaveUp /\ at[j] = "copying" => result[j].roles = result[j].revision
    /\ j \notin unsure /\ Copied(j) => result[j].roles = result[j].revision
RolesFound == \A j \in Jobs : RolesFor(j)

RolesParts == RowsAgree /\ CachesAgree /\ UpdatesSave /\ StageHeld /\ RowKept /\ RolesFound
RolesInv == ~intruded /\ interrupts = 0 => RolesParts
CheckoutInv == FilesInv /\ RolesInv

(* Rows and results with new fields. *)
LEMMA NewFields ==
    /\ Blank \in WorkRow /\ [Blank EXCEPT !.outcome = "failed"] \in WorkRow
    /\ \A w \in WorkRow, r \in ProjectRow : [w EXCEPT !.row = r] \in WorkRow
    /\ \A w \in WorkRow, r \in ProjectRow, t \in SUBSET {"update", "install"} : [w EXCEPT !.row = r, !.tags = t] \in WorkRow
    /\ \A w \in WorkRow, t \in SUBSET {"update", "install"}, n \in Nat : [w EXCEPT !.tags = t, !.original = n] \in WorkRow
    /\ \A w \in WorkRow, n \in Nat : [w EXCEPT !.target = n] \in WorkRow
    /\ \A w \in WorkRow, o \in {"successful", "failed", "canceled", "error"} : [w EXCEPT !.outcome = o] \in WorkRow
<1>1. Blank.row \in ProjectRow
  BY DEF Blank, ProjectRow, Caches
<1> QED
  BY <1>1 DEF WorkRow, Blank

(* Everybody's step moves one process, and touches no other's row; a copy of *)
(* the tree that is being made may be spoilt.                                *)
OnlyMoves(p) == \A q \in Tasks \ {p} : at'[q] = at[q] /\ work'[q] = work[q]

LEMMA CheckoutInitial == CheckoutAssumed /\ Init => CheckoutInv
<1> SUFFICES ASSUME CheckoutAssumed, Init PROVE CheckoutInv
  OBVIOUS
<1>1. Blank \in WorkRow /\ Blank.row \in ProjectRow /\ Blank.outcome = "successful" /\ ~Blank.row.half
      /\ Blank.row.last_job = 0 /\ Blank.row.revision = 1
  BY NewFields DEF Blank, WorkRow
<1>2. /\ remote = 1 /\ project = Blank.row
      /\ at = [p \in Tasks |-> "new"] /\ work = [p \in Tasks |-> Blank]
      /\ result = [j \in Jobs |-> Nothing]
      /\ gaveUp = {} /\ unsure = {} /\ interrupts = 0 /\ intruded = FALSE
  BY DEF Init
<1>3. PICK here \in {0, 1} : /\ tree = [head |-> here, torn |-> FALSE]
                             /\ caches = [c \in Caches |-> IF c = 0 THEN here ELSE 0]
  BY DEF Init, Caches
<1>4. Nothing \in [revision : Nat, files : Nat, roles : Nat]
  BY DEF Nothing
<1>5. tree \in [head : Nat, torn : BOOLEAN] /\ caches \in [Caches -> Nat]
  BY <1>3
<1>6. CheckoutTypes
  BY <1>1, <1>2, <1>4, <1>5 DEF CheckoutTypes, UpdatePlaces, JobPlaces, Tasks
<1>7. LockHeld /\ InOrder /\ FilesRecorded
  BY <1>1, <1>2 DEF LockHeld, InOrder, Sequential, InPlace, FilesRecorded, Copied, HasLock, Locked, Tasks, Playing
<1>8. HeadKnown
  BY <1>2, <1>3 DEF HeadKnown, TornKnown, HeadFor, Tasks
<1>9. RowsAgree /\ UpdatesSave /\ StageHeld /\ RowKept /\ RolesFound
  BY <1>1, <1>2, <1>3 DEF RowsAgree, UpdatesSave, StageHeld, RowKept, RowFor, RolesFound, RolesFor, SaveFor, Sure, Named, Playing, Syncing, Copied, Tasks, CheckoutAssumed, Caches
<1>10. CachesAgree
  BY <1>1, <1>2, <1>3 DEF CachesAgree, CacheOf, Sure, Caches, Tasks
<1> QED
  BY <1>6, <1>7, <1>8, <1>9, <1>10 DEF CheckoutInv, FilesInv, RolesInv, RolesParts

-----------------------------------------------------------------------------
(* Types. *)
LEMMA TypesAfter ==
    ASSUME CheckoutTypes, NEW p \in Tasks, NEW place \in UpdatePlaces \union JobPlaces, NEW w \in WorkRow,
           p \in Updates => place \in UpdatePlaces, p \in Jobs => place \in JobPlaces,
           at' = [at EXCEPT ![p] = place], work' = [work EXCEPT ![p] = w],
           remote' \in Nat, project' \in ProjectRow, tree' \in [head : Nat, torn : BOOLEAN],
           caches' \in [Caches -> Nat], result' \in [Jobs -> [revision : Nat, files : Nat, roles : Nat]],
           intruded' \in BOOLEAN, interrupts' \in Nat
    PROVE  CheckoutTypes' /\ OnlyMoves(p)
<1>1. at' \in [Tasks -> UpdatePlaces \union JobPlaces] /\ work' \in [Tasks -> WorkRow]
  BY DEF CheckoutTypes
<1>2. \A u \in Updates : at'[u] \in UpdatePlaces
  BY DEF CheckoutTypes, Tasks
<1>3. \A j \in Jobs : at'[j] \in JobPlaces
  BY DEF CheckoutTypes, Tasks
<1>4. OnlyMoves(p)
  BY DEF OnlyMoves, CheckoutTypes
<1> QED
  BY <1>1, <1>2, <1>3, <1>4 DEF CheckoutTypes

(* The process moves and keeps its row. *)
LEMMA MovesAfter ==
    ASSUME CheckoutTypes, NEW p \in Tasks, NEW place \in UpdatePlaces \union JobPlaces,
           p \in Updates => place \in UpdatePlaces, p \in Jobs => place \in JobPlaces,
           at' = [at EXCEPT ![p] = place], work' = work,
           remote' \in Nat, project' \in ProjectRow, tree' \in [head : Nat, torn : BOOLEAN],
           caches' \in [Caches -> Nat], result' \in [Jobs -> [revision : Nat, files : Nat, roles : Nat]],
           intruded' \in BOOLEAN, interrupts' \in Nat
    PROVE  CheckoutTypes' /\ OnlyMoves(p)
<1>1. work' = [work EXCEPT ![p] = work[p]] /\ work[p] \in WorkRow
  BY DEF CheckoutTypes
<1> QED
  BY <1>1, TypesAfter

Results == [Jobs -> [revision : Nat, files : Nat, roles : Nat]]
LEMMA SpoiltCopies ==
    ASSUME CheckoutAssumed, CheckoutTypes
    PROVE  /\ Spoilt \in Results
           /\ Torn \in Nat /\ Branch \in Nat
           /\ \A j \in Jobs : /\ at[j] # "copied" => Spoilt[j] = result[j]
                              /\ Spoilt[j].revision = result[j].revision /\ Spoilt[j].roles = result[j].roles
<1>1. Torn \in Nat /\ Branch \in Nat
  BY DEF Torn, Branch, CheckoutAssumed
<1>2. result \in Results
  BY DEF CheckoutTypes, Results
<1>3. \A j \in Jobs : [result[j] EXCEPT !.files = Torn] \in [revision : Nat, files : Nat, roles : Nat]
  BY <1>1, <1>2 DEF Results
<1>4. \A j \in Jobs : Spoilt[j] = IF at[j] = "copied" THEN [result[j] EXCEPT !.files = Torn] ELSE result[j]
  BY DEF Spoilt
<1>5. Spoilt \in Results
  BY <1>2, <1>3 DEF Spoilt, Results
<1> QED
  BY <1>1, <1>2, <1>4, <1>5 DEF Results

(* Nobody else works on the tree who did not give up.                        *)
LEMMA Alone ==
    ASSUME LockHeld, NEW p \in Tasks, HasLock(p)
    PROVE  \A q \in Tasks \ {p} : q \in gaveUp \/ at[q] \notin Locked
BY DEF LockHeld, HasLock

(* What the step of p has to be shown to keep, for each part of the          *)
(* invariant; it holds of the others because p alone moves.                  *)
LEMMA PlacesKept ==
    ASSUME CheckoutAssumed, InOrder, NEW p \in Tasks, OnlyMoves(p), Sequential', InPlace(p)'
    PROVE  InOrder'
<1>1. \A q \in Tasks \ {p} : InPlace(q)'
  BY DEF OnlyMoves, InOrder, InPlace
<1> QED
  BY <1>1 DEF InOrder

LEMMA HeadKept ==
    ASSUME NEW p \in Tasks, OnlyMoves(p), gaveUp \subseteq gaveUp',
           ~intruded' => ~intruded /\ HeadKnown /\ TornKnown' /\ (p \notin gaveUp' => HeadFor(p)'),
           \A q \in Tasks \ {p} : ~intruded' /\ q \notin gaveUp /\ at[q] \in Locked =>
               tree'.head = tree.head /\ (q \in Jobs => result'[q].revision = result[q].revision)
    PROVE  HeadKnown'
<1> SUFFICES ASSUME ~intruded' PROVE HeadKnown'
  BY DEF HeadKnown
<1>1. ASSUME NEW q \in Tasks \ {p}, q \notin gaveUp' PROVE HeadFor(q)'
  <2>1. at'[q] = at[q] /\ work'[q] = work[q]
    BY DEF OnlyMoves
  <2>2. HeadFor(q)
    BY <1>1 DEF HeadKnown
  <2>3. CASE at[q] \in Locked
    BY <1>1, <2>1, <2>2, <2>3 DEF HeadFor
  <2>4. CASE at[q] \notin Locked
    BY <1>1, <2>1, <2>4 DEF HeadFor, Locked
  <2> QED
    BY <2>3, <2>4
<1> QED
  BY <1>1 DEF HeadKnown

LEMMA FilesKept ==
    ASSUME CheckoutAssumed, FilesRecorded, NEW p \in Tasks, OnlyMoves(p), gaveUp \subseteq gaveUp',
           ~intruded' => ~intruded, interrupts > 0 => interrupts' > 0,
           \A q \in Jobs \ {p} : ~intruded' /\ Copied(q) => result'[q].files = result[q].files /\ result'[q].revision = result[q].revision,
           p \in Jobs /\ ~intruded' /\ Copied(p)' =>
               result'[p].files = result'[p].revision \/ (interrupts' > 0 /\ result'[p].files = Torn)
    PROVE  FilesRecorded'
<1> SUFFICES ASSUME ~intruded', NEW q \in Jobs \ {p}, Copied(q)'
             PROVE  result'[q].files = result'[q].revision \/ (interrupts' > 0 /\ result'[q].files = Torn)
  BY DEF FilesRecorded
<1>1. Copied(q)
  BY DEF OnlyMoves, Copied, Tasks
<1> QED
  BY <1>1 DEF FilesRecorded

LEMMA RowsKept ==
    ASSUME CheckoutAssumed, RowsAgree, CachesAgree, NEW p \in Tasks, OnlyMoves(p), unsure \subseteq unsure',
           caches' = caches, project'.half = project.half, project'.last_job = project.last_job, project'.revision = project.revision,
           p \in Jobs /\ Sure(p)' => Sure(p) /\ work'[p].row = work[p].row
    PROVE  RowsAgree' /\ CachesAgree'
<1>1. \A j \in Jobs : Sure(j)' => Sure(j) /\ work'[j].row = work[j].row
  BY DEF OnlyMoves, Sure, Tasks
<1> QED
  BY <1>1 DEF RowsAgree, CachesAgree, CacheOf

(* What an update that is not done leaves behind.                            *)
LEMMA UpdatesKept ==
    ASSUME CheckoutAssumed, CheckoutTypes, CheckoutTypes', UpdatesSave, NEW p \in Tasks, OnlyMoves(p), at[p] # "done",
           project'.half = project.half, project'.last_job = project.last_job, project'.revision = project.revision,
           \A u \in Updates \ {p} : caches'[u] \in {0, caches[u]} \/ at[u] = "done",
           \A v \in Updates : v \in unsure' => v \in unsure \/ at[v] = "done",
           p \in Jobs /\ at'[p] # "new" => Named(work'[p].row.last_job),
           p \in Updates => SaveFor(p)'
    PROVE  UpdatesSave'
<1>1. \A c \in Caches : Named(c) /\ c # 0 => at'[c] = "done"
  BY DEF Named, OnlyMoves, CheckoutAssumed, Caches, Tasks
<1>2. ASSUME NEW u \in Updates \ {p} PROVE SaveFor(u)'
  <2>1. at'[u] = at[u] /\ work'[u] = work[u]
    BY <1>2 DEF OnlyMoves, Tasks
  <2> QED
    BY <1>2, <2>1 DEF UpdatesSave, SaveFor
<1>3. \A j \in Jobs \ {p} : at'[j] = at[j] /\ work'[j] = work[j]
  BY DEF OnlyMoves, Tasks
<1>4. project.last_job \in Caches /\ \A j \in Jobs : work[j].row.last_job \in Caches /\ work'[j].row.last_job \in Caches
  BY DEF CheckoutTypes, WorkRow, ProjectRow, Tasks
<1>5. Named(project.last_job)'
  BY <1>1, <1>4 DEF UpdatesSave, Named
<1>6. \A j \in Jobs : at'[j] # "new" => (work'[j].row.last_job # 0 => at'[work'[j].row.last_job] = "done")
  BY <1>1, <1>3, <1>4 DEF UpdatesSave
<1>7. \A u \in Updates : SaveFor(u)'
  BY <1>2
<1> QED
  BY <1>5, <1>6, <1>7 DEF UpdatesSave, Named

LEMMA StageKept ==
    ASSUME StageHeld, NEW p \in Tasks, OnlyMoves(p), gaveUp \subseteq gaveUp',
           \A q \in Tasks \ {p} : q \notin gaveUp /\ at[q] \in Locked => staged \subseteq staged',
           at'[p] \in Playing => p \in staged'
    PROVE  StageHeld'
BY DEF StageHeld, OnlyMoves, Playing, Locked

LEMMA RowForKept ==
    ASSUME CheckoutAssumed, RowKept, NEW p \in Tasks, OnlyMoves(p), gaveUp \subseteq gaveUp', unsure \subseteq unsure',
           \A q \in Jobs \ {p} : q \notin gaveUp /\ at[q] \in Locked =>
               result'[q].revision = result[q].revision /\ caches' = caches,
           p \in Jobs /\ p \notin gaveUp' /\ p \notin unsure' /\ p \notin Overriding => RowFor(p)'
    PROVE  RowKept'
<1>1. ASSUME NEW q \in Jobs \ {p}, q \notin gaveUp', q \notin unsure', q \notin Overriding PROVE RowFor(q)'
  <2>1. at'[q] = at[q] /\ work'[q] = work[q]
    BY <1>1 DEF OnlyMoves, Tasks
  <2>2. RowFor(q)
    BY <1>1 DEF RowKept
  <2>3. CASE at[q] \in Locked
    <3>1. result'[q].revision = result[q].revision /\ caches' = caches
      BY <1>1, <2>3
    <3> QED
      BY <2>1, <2>2, <3>1 DEF RowFor
  <2>4. CASE at[q] \notin Locked
    BY <2>1, <2>4 DEF RowFor, Locked, Syncing, Playing
  <2> QED
    BY <2>3, <2>4
<1> QED
  BY <1>1 DEF RowKept

LEMMA RolesKept ==
    ASSUME CheckoutAssumed, RolesFound, NEW p \in Tasks, OnlyMoves(p), gaveUp \subseteq gaveUp', unsure \subseteq unsure',
           \A q \in Jobs \ {p} : at[q] = "playing" \/ (q \notin gaveUp /\ at[q] \in Locked) =>
               result'[q].revision = result[q].revision /\ result'[q].roles = result[q].roles,
           p \in Jobs => RolesFor(p)'
    PROVE  RolesFound'
<1>1. ASSUME NEW q \in Jobs \ {p} PROVE RolesFor(q)'
  <2>1. at'[q] = at[q]
    BY <1>1 DEF OnlyMoves, Tasks
  <2>2. RolesFor(q)
    BY <1>1 DEF RolesFound
  <2>3. CASE at[q] = "playing" \/ (q \notin gaveUp /\ at[q] \in Locked)
    <3>1. result'[q].revision = result[q].revision /\ result'[q].roles = result[q].roles
      BY <1>1, <2>3
    <3> QED
      BY <2>1, <2>2, <3>1 DEF RolesFor, Copied
  <2>4. CASE ~(at[q] = "playing" \/ (q \notin gaveUp /\ at[q] \in Locked))
    BY <2>1, <2>4 DEF RolesFor, Copied, Locked
  <2> QED
    BY <2>3, <2>4
<1> QED
  BY <1>1 DEF RolesFound


LEMMA AcquireHolds == ASSUME CheckoutAssumed, CheckoutInv, NEW p \in Tasks, Acquire(p) PROVE CheckoutInv'
<1> USE DEF CheckoutInv, FilesInv
<1>0. Tasks = Jobs \union Updates /\ Jobs \intersect Updates = {} /\ Overriding \subseteq Jobs /\ 0 \notin Tasks
  BY DEF Tasks, CheckoutAssumed
<1> DEFINE place == IF p \in Jobs THEN "locked" ELSE "syncing"
<1>1. /\ at[p] = "waiting" /\ lock = 0 /\ lock' = p
      /\ work' = work /\ at' = [at EXCEPT ![p] = place]
      /\ UNCHANGED <<remote, project, tree, caches, staged, result, gaveUp, intruded, unsure, interrupts>>
  BY DEF Acquire, Move, row, local, ghosts, Unlocked
<1>2. (p \in Jobs /\ p \notin Updates /\ place = "locked") \/ (p \in Updates /\ p \notin Jobs /\ place = "syncing")
  BY <1>0
<1>3. CheckoutTypes' /\ OnlyMoves(p) /\ at'[p] = place /\ work'[p] = work[p]
  BY <1>0, <1>1, MovesAfter DEF CheckoutTypes, UpdatePlaces, JobPlaces
<1> HIDE DEF place
<1>9. gaveUp \subseteq gaveUp' /\ unsure \subseteq unsure' /\ (~intruded' => ~intruded) /\ (interrupts > 0 => interrupts' > 0)
  BY <1>0, <1>1, <1>2 DEF CheckoutTypes
<1>10. LockHeld'
  BY <1>0, <1>1, <1>3, <1>2 DEF OnlyMoves, LockHeld, HasLock, Locked, Playing
<1>11. InOrder'
  <2>1. Sequential'
    BY <1>0, <1>1, <1>3 DEF OnlyMoves, InOrder, Sequential
  <2>2. InPlace(p)'
    BY <1>0, <1>1, <1>3, <1>2 DEF InOrder, InPlace, Playing
  <2> QED
    BY <1>0, <1>3, <2>1, <2>2, PlacesKept
<1>12. HeadKnown'
  <2>1. ASSUME ~intruded' PROVE TornKnown'
    BY <1>0, <1>1, <1>3, <1>2, <1>9, <2>1 DEF OnlyMoves, HeadKnown, TornKnown
  <2>2. ASSUME ~intruded', p \notin gaveUp' PROVE HeadFor(p)'
    BY <1>0, <1>1, <1>3, <1>2, <1>9, <2>2 DEF HeadKnown, HeadFor
  <2>3. \A q \in Tasks \ {p} : ~intruded' /\ q \notin gaveUp /\ at[q] \in Locked =>
            tree'.head = tree.head /\ (q \in Jobs => result'[q].revision = result[q].revision)
    BY <1>0, <1>1, <1>3, <1>2, <1>9
  <2> QED
    BY <1>0, <1>3, <1>9, <2>1, <2>2, <2>3, HeadKept
<1>13. FilesRecorded'
  <2>1. \A q \in Jobs \ {p} : ~intruded' /\ Copied(q) => result'[q].files = result[q].files /\ result'[q].revision = result[q].revision
    BY <1>0, <1>1, <1>3, <1>2, <1>9
  <2>2. p \in Jobs /\ ~intruded' /\ Copied(p)' =>
            result'[p].files = result'[p].revision \/ (interrupts' > 0 /\ result'[p].files = Torn)
    BY <1>0, <1>1, <1>3, <1>2 DEF Copied
  <2> QED
    BY <1>0, <1>3, <1>9, <2>1, <2>2, FilesKept
<1>20. ASSUME RolesInv, ~intruded', interrupts' = 0 PROVE RolesParts'
  <2>1. ~intruded /\ interrupts = 0 /\ RolesParts
    BY <1>1, <1>2, <1>20 DEF RolesInv
  <2>2. RowsAgree' /\ CachesAgree'
    <3>1. p \in Jobs /\ Sure(p)' => Sure(p) /\ work'[p].row = work[p].row
      BY <1>0, <1>1, <1>3, <1>2 DEF Sure
    <3> QED
      BY <1>0, <1>1, <1>3, <1>9, <2>1, <3>1, RowsKept DEF RolesParts
  <2>3. UpdatesSave'
    <3>1. p \in Jobs /\ at'[p] # "new" => Named(work'[p].row.last_job)
      BY <1>0, <1>1, <1>3, <1>2, <2>1 DEF RolesParts, UpdatesSave, Named
    <3>2. p \in Updates => SaveFor(p)'
      BY <1>0, <1>1, <1>3, <1>2, <2>1 DEF RolesParts, UpdatesSave, SaveFor
    <3>3. at[p] # "done" /\ \A v \in Updates : v \in unsure' => v \in unsure \/ at[v] = "done"
      BY <1>0, <1>1, <1>2
    <3>4. \A u \in Updates \ {p} : caches'[u] \in {0, caches[u]} \/ at[u] = "done"
      BY <1>1
    <3> QED
      BY <1>0, <1>1, <1>3, <1>2, <2>1, <3>1, <3>2, <3>3, <3>4, UpdatesKept DEF RolesParts
  <2>4. StageHeld'
    <3>1. \A q \in Tasks \ {p} : q \notin gaveUp /\ at[q] \in Locked => staged \subseteq staged'
      BY <1>1
    <3>2. at'[p] \in Playing => p \in staged'
      BY <1>0, <1>1, <1>3, <1>2, <2>1 DEF RolesParts, StageHeld, Playing
    <3> QED
      BY <1>0, <1>3, <1>9, <2>1, <3>1, <3>2, StageKept DEF RolesParts
  <2>5. RowKept'
    <3>1. \A q \in Jobs \ {p} : q \notin gaveUp /\ at[q] \in Locked => result'[q].revision = result[q].revision /\ caches' = caches
      BY <1>0, <1>1, <1>3, <1>2
    <3>2. ASSUME p \in Jobs, p \notin gaveUp', p \notin unsure', p \notin Overriding PROVE RowFor(p)'
      BY <1>0, <1>1, <1>3, <1>2, <2>1, <1>9, <3>2 DEF RolesParts, RowKept, RowFor, Playing, Syncing
    <3> QED
      BY <1>0, <1>3, <1>9, <2>1, <3>1, <3>2, RowForKept DEF RolesParts
  <2>6. RolesFound'
    <3>1. \A q \in Jobs \ {p} : at[q] = "playing" \/ (q \notin gaveUp /\ at[q] \in Locked) =>
              result'[q].revision = result[q].revision /\ result'[q].roles = result[q].roles
      BY <1>0, <1>1, <1>3, <1>2
    <3>2. p \in Jobs => RolesFor(p)'
      BY <1>0, <1>1, <1>3, <1>2, <2>1, <1>9 DEF RolesParts, RolesFound, RolesFor, Copied
    <3> QED
      BY <1>0, <1>3, <1>9, <2>1, <3>1, <3>2, RolesKept DEF RolesParts
  <2> QED
    BY <2>2, <2>3, <2>4, <2>5, <2>6 DEF RolesParts
<1> QED
  BY <1>3, <1>10, <1>11, <1>12, <1>13, <1>20 DEF RolesInv

LEMMA GiveUpHolds == ASSUME CheckoutAssumed, CheckoutInv, NEW p \in Tasks, GiveUp(p) PROVE CheckoutInv'
<1> USE DEF CheckoutInv, FilesInv
<1>0. Tasks = Jobs \union Updates /\ Jobs \intersect Updates = {} /\ Overriding \subseteq Jobs /\ 0 \notin Tasks
  BY DEF Tasks, CheckoutAssumed
<1> DEFINE place == IF p \in Jobs THEN "locked" ELSE "syncing"
<1>1. /\ at[p] = "waiting" /\ gaveUp' = gaveUp \union {p}
      /\ work' = work /\ at' = [at EXCEPT ![p] = place]
      /\ UNCHANGED <<remote, project, tree, caches, staged, lock, result, intruded, unsure, interrupts>>
  BY DEF GiveUp, Move, row, local
<1>2. (p \in Jobs /\ p \notin Updates /\ place = "locked") \/ (p \in Updates /\ p \notin Jobs /\ place = "syncing")
  BY <1>0
<1>3. CheckoutTypes' /\ OnlyMoves(p) /\ at'[p] = place /\ work'[p] = work[p]
  BY <1>0, <1>1, MovesAfter DEF CheckoutTypes, UpdatePlaces, JobPlaces
<1> HIDE DEF place
<1>9. gaveUp \subseteq gaveUp' /\ unsure \subseteq unsure' /\ (~intruded' => ~intruded) /\ (interrupts > 0 => interrupts' > 0)
  BY <1>0, <1>1, <1>2 DEF CheckoutTypes
<1>10. LockHeld'
  BY <1>0, <1>1, <1>3, <1>2 DEF OnlyMoves, LockHeld, HasLock, Locked, Playing
<1>11. InOrder'
  <2>1. Sequential'
    BY <1>0, <1>1, <1>3 DEF OnlyMoves, InOrder, Sequential
  <2>2. InPlace(p)'
    BY <1>0, <1>1, <1>3, <1>2 DEF InOrder, InPlace, Playing
  <2> QED
    BY <1>0, <1>3, <2>1, <2>2, PlacesKept
<1>12. HeadKnown'
  <2>1. ASSUME ~intruded' PROVE TornKnown'
    BY <1>0, <1>1, <1>3, <1>2, <1>9, <2>1 DEF OnlyMoves, HeadKnown, TornKnown
  <2>2. ASSUME ~intruded', p \notin gaveUp' PROVE HeadFor(p)'
    BY <1>0, <1>1, <1>3, <1>2, <1>9, <2>2 DEF HeadKnown, HeadFor
  <2>3. \A q \in Tasks \ {p} : ~intruded' /\ q \notin gaveUp /\ at[q] \in Locked =>
            tree'.head = tree.head /\ (q \in Jobs => result'[q].revision = result[q].revision)
    BY <1>0, <1>1, <1>3, <1>2, <1>9
  <2> QED
    BY <1>0, <1>3, <1>9, <2>1, <2>2, <2>3, HeadKept
<1>13. FilesRecorded'
  <2>1. \A q \in Jobs \ {p} : ~intruded' /\ Copied(q) => result'[q].files = result[q].files /\ result'[q].revision = result[q].revision
    BY <1>0, <1>1, <1>3, <1>2, <1>9
  <2>2. p \in Jobs /\ ~intruded' /\ Copied(p)' =>
            result'[p].files = result'[p].revision \/ (interrupts' > 0 /\ result'[p].files = Torn)
    BY <1>0, <1>1, <1>3, <1>2 DEF Copied
  <2> QED
    BY <1>0, <1>3, <1>9, <2>1, <2>2, FilesKept
<1>20. ASSUME RolesInv, ~intruded', interrupts' = 0 PROVE RolesParts'
  <2>1. ~intruded /\ interrupts = 0 /\ RolesParts
    BY <1>1, <1>2, <1>20 DEF RolesInv
  <2>2. RowsAgree' /\ CachesAgree'
    <3>1. p \in Jobs /\ Sure(p)' => Sure(p) /\ work'[p].row = work[p].row
      BY <1>0, <1>1, <1>3, <1>2 DEF Sure
    <3> QED
      BY <1>0, <1>1, <1>3, <1>9, <2>1, <3>1, RowsKept DEF RolesParts
  <2>3. UpdatesSave'
    <3>1. p \in Jobs /\ at'[p] # "new" => Named(work'[p].row.last_job)
      BY <1>0, <1>1, <1>3, <1>2, <2>1 DEF RolesParts, UpdatesSave, Named
    <3>2. p \in Updates => SaveFor(p)'
      BY <1>0, <1>1, <1>3, <1>2, <2>1 DEF RolesParts, UpdatesSave, SaveFor
    <3>3. at[p] # "done" /\ \A v \in Updates : v \in unsure' => v \in unsure \/ at[v] = "done"
      BY <1>0, <1>1, <1>2
    <3>4. \A u \in Updates \ {p} : caches'[u] \in {0, caches[u]} \/ at[u] = "done"
      BY <1>1
    <3> QED
      BY <1>0, <1>1, <1>3, <1>2, <2>1, <3>1, <3>2, <3>3, <3>4, UpdatesKept DEF RolesParts
  <2>4. StageHeld'
    <3>1. \A q \in Tasks \ {p} : q \notin gaveUp /\ at[q] \in Locked => staged \subseteq staged'
      BY <1>1
    <3>2. at'[p] \in Playing => p \in staged'
      BY <1>0, <1>1, <1>3, <1>2, <2>1 DEF RolesParts, StageHeld, Playing
    <3> QED
      BY <1>0, <1>3, <1>9, <2>1, <3>1, <3>2, StageKept DEF RolesParts
  <2>5. RowKept'
    <3>1. \A q \in Jobs \ {p} : q \notin gaveUp /\ at[q] \in Locked => result'[q].revision = result[q].revision /\ caches' = caches
      BY <1>0, <1>1, <1>3, <1>2
    <3>2. ASSUME p \in Jobs, p \notin gaveUp', p \notin unsure', p \notin Overriding PROVE RowFor(p)'
      BY <1>0, <1>1, <1>3, <1>2, <2>1, <1>9, <3>2 DEF RolesParts, RowKept, RowFor, Playing, Syncing
    <3> QED
      BY <1>0, <1>3, <1>9, <2>1, <3>1, <3>2, RowForKept DEF RolesParts
  <2>6. RolesFound'
    <3>1. \A q \in Jobs \ {p} : at[q] = "playing" \/ (q \notin gaveUp /\ at[q] \in Locked) =>
              result'[q].revision = result[q].revision /\ result'[q].roles = result[q].roles
      BY <1>0, <1>1, <1>3, <1>2
    <3>2. p \in Jobs => RolesFor(p)'
      BY <1>0, <1>1, <1>3, <1>2, <2>1, <1>9 DEF RolesParts, RolesFound, RolesFor, Copied
    <3> QED
      BY <1>0, <1>3, <1>9, <2>1, <3>1, <3>2, RolesKept DEF RolesParts
  <2> QED
    BY <2>2, <2>3, <2>4, <2>5, <2>6 DEF RolesParts
<1> QED
  BY <1>3, <1>10, <1>11, <1>12, <1>13, <1>20 DEF RolesInv

LEMMA StartJobHolds == ASSUME CheckoutAssumed, CheckoutInv, NEW j \in Jobs, StartJob(j) PROVE CheckoutInv'
<1> USE DEF CheckoutInv, FilesInv
<1>0. Tasks = Jobs \union Updates /\ Jobs \intersect Updates = {} /\ Overriding \subseteq Jobs /\ 0 \notin Tasks
  BY DEF Tasks, CheckoutAssumed
<1> DEFINE w == [work[j] EXCEPT !.row = project]
<1>1. /\ at[j] = "new"
      /\ work' = [work EXCEPT ![j] = w] /\ at' = [at EXCEPT ![j] = "waiting"]
      /\ unsure' = IF project.half THEN unsure \union {j} ELSE unsure
      /\ UNCHANGED <<remote, project, tree, caches, staged, lock, result, gaveUp, intruded, interrupts>>
  BY DEF StartJob, Move, row, local
<1>2. w \in WorkRow /\ w.row = project
  <2>1. work[j] \in WorkRow /\ project \in ProjectRow
    BY <1>0 DEF CheckoutTypes
  <2>2. w \in WorkRow
    BY <2>1, NewFields
  <2> QED
    BY <2>1, <2>2 DEF WorkRow
<1>3. CheckoutTypes' /\ OnlyMoves(j) /\ at'[j] = "waiting" /\ work'[j] = w
  BY <1>0, <1>1, <1>2, TypesAfter DEF CheckoutTypes, UpdatePlaces, JobPlaces
<1> HIDE DEF w
<1>9. gaveUp \subseteq gaveUp' /\ unsure \subseteq unsure' /\ (~intruded' => ~intruded) /\ (interrupts > 0 => interrupts' > 0)
  BY <1>0, <1>1, <1>2 DEF CheckoutTypes
<1>10. LockHeld'
  BY <1>0, <1>1, <1>3, <1>2 DEF OnlyMoves, LockHeld, HasLock, Locked, Playing
<1>11. InOrder'
  <2>1. Sequential'
    BY <1>0, <1>1, <1>3 DEF OnlyMoves, InOrder, Sequential
  <2>2. InPlace(j)'
    BY <1>0, <1>1, <1>3, <1>2 DEF InOrder, InPlace, Playing
  <2> QED
    BY <1>0, <1>3, <2>1, <2>2, PlacesKept
<1>12. HeadKnown'
  <2>1. ASSUME ~intruded' PROVE TornKnown'
    BY <1>0, <1>1, <1>3, <1>2, <1>9, <2>1 DEF OnlyMoves, HeadKnown, TornKnown
  <2>2. ASSUME ~intruded', j \notin gaveUp' PROVE HeadFor(j)'
    BY <1>0, <1>1, <1>3, <1>2, <1>9, <2>2 DEF HeadKnown, HeadFor
  <2>3. \A q \in Tasks \ {j} : ~intruded' /\ q \notin gaveUp /\ at[q] \in Locked =>
            tree'.head = tree.head /\ (q \in Jobs => result'[q].revision = result[q].revision)
    BY <1>0, <1>1, <1>3, <1>2, <1>9
  <2> QED
    BY <1>0, <1>3, <1>9, <2>1, <2>2, <2>3, HeadKept
<1>13. FilesRecorded'
  <2>1. \A q \in Jobs \ {j} : ~intruded' /\ Copied(q) => result'[q].files = result[q].files /\ result'[q].revision = result[q].revision
    BY <1>0, <1>1, <1>3, <1>2, <1>9
  <2>2. j \in Jobs /\ ~intruded' /\ Copied(j)' =>
            result'[j].files = result'[j].revision \/ (interrupts' > 0 /\ result'[j].files = Torn)
    BY <1>0, <1>1, <1>3, <1>2 DEF Copied
  <2> QED
    BY <1>0, <1>3, <1>9, <2>1, <2>2, FilesKept
<1>20. ASSUME RolesInv, ~intruded', interrupts' = 0 PROVE RolesParts'
  <2>1. ~intruded /\ interrupts = 0 /\ RolesParts
    BY <1>1, <1>2, <1>20 DEF RolesInv
  <2>2. RowsAgree' /\ CachesAgree'
    <3>1. \A q \in Jobs : Sure(q)' => \/ q = j /\ ~project.half /\ work'[q].row = project
                                      \/ q # j /\ Sure(q) /\ work'[q].row = work[q].row
      BY <1>0, <1>1, <1>2, <1>3 DEF Sure, OnlyMoves
    <3>2. project' = project /\ caches' = caches /\ unsure \subseteq unsure'
      BY <1>1, <1>9
    <3>3. RowsAgree'
      BY <2>1, <3>1, <3>2 DEF RolesParts, RowsAgree
    <3>4. CachesAgree'
      BY <2>1, <3>1, <3>2 DEF RolesParts, CachesAgree, CacheOf
    <3> QED
      BY <3>3, <3>4
  <2>3. UpdatesSave'
    <3>1. j \in Jobs /\ at'[j] # "new" => Named(work'[j].row.last_job)
      BY <1>0, <1>1, <1>3, <1>2, <2>1 DEF RolesParts, UpdatesSave, Named
    <3>2. j \in Updates => SaveFor(j)'
      BY <1>0, <1>1, <1>3, <1>2, <2>1 DEF RolesParts, UpdatesSave, SaveFor
    <3>3. at[j] # "done" /\ \A v \in Updates : v \in unsure' => v \in unsure \/ at[v] = "done"
      BY <1>0, <1>1, <1>2
    <3>4. \A u \in Updates \ {j} : caches'[u] \in {0, caches[u]} \/ at[u] = "done"
      BY <1>1
    <3> QED
      BY <1>0, <1>1, <1>3, <1>2, <2>1, <3>1, <3>2, <3>3, <3>4, UpdatesKept DEF RolesParts
  <2>4. StageHeld'
    <3>1. \A q \in Tasks \ {j} : q \notin gaveUp /\ at[q] \in Locked => staged \subseteq staged'
      BY <1>1
    <3>2. at'[j] \in Playing => j \in staged'
      BY <1>0, <1>1, <1>3, <1>2, <2>1 DEF RolesParts, StageHeld, Playing
    <3> QED
      BY <1>0, <1>3, <1>9, <2>1, <3>1, <3>2, StageKept DEF RolesParts
  <2>5. RowKept'
    <3>1. \A q \in Jobs \ {j} : q \notin gaveUp /\ at[q] \in Locked => result'[q].revision = result[q].revision /\ caches' = caches
      BY <1>0, <1>1, <1>3, <1>2
    <3>2. ASSUME j \in Jobs, j \notin gaveUp', j \notin unsure', j \notin Overriding PROVE RowFor(j)'
      BY <1>0, <1>1, <1>3, <1>2, <2>1, <1>9, <3>2 DEF RolesParts, RowKept, RowFor, Playing, Syncing
    <3> QED
      BY <1>0, <1>3, <1>9, <2>1, <3>1, <3>2, RowForKept DEF RolesParts
  <2>6. RolesFound'
    <3>1. \A q \in Jobs \ {j} : at[q] = "playing" \/ (q \notin gaveUp /\ at[q] \in Locked) =>
              result'[q].revision = result[q].revision /\ result'[q].roles = result[q].roles
      BY <1>0, <1>1, <1>3, <1>2
    <3>2. j \in Jobs => RolesFor(j)'
      BY <1>0, <1>1, <1>3, <1>2, <2>1, <1>9 DEF RolesParts, RolesFound, RolesFor, Copied
    <3> QED
      BY <1>0, <1>3, <1>9, <2>1, <3>1, <3>2, RolesKept DEF RolesParts
  <2> QED
    BY <2>2, <2>3, <2>4, <2>5, <2>6 DEF RolesParts
<1> QED
  BY <1>3, <1>10, <1>11, <1>12, <1>13, <1>20 DEF RolesInv

LEMMA DecideFails == ASSUME CheckoutAssumed, CheckoutInv, NEW j \in Jobs, Decide(j), at'[j] = "leaving" PROVE CheckoutInv'
<1> USE DEF CheckoutInv, FilesInv
<1>0. Tasks = Jobs \union Updates /\ Jobs \intersect Updates = {} /\ Overriding \subseteq Jobs /\ 0 \notin Tasks
  BY DEF Tasks, CheckoutAssumed
<1> DEFINE w == [work[j] EXCEPT !.outcome = "failed"]
<1>1. /\ at[j] = "locked"
      /\ work' = [work EXCEPT ![j] = w] /\ at' = [at EXCEPT ![j] = "leaving"]
      /\ UNCHANGED <<remote, project, tree, caches, staged, lock, result, gaveUp, intruded, unsure, interrupts>>
  BY <1>0 DEF Decide, Move, row, local, ghosts, CheckoutTypes
<1>2. w \in WorkRow /\ w.row = work[j].row /\ w.outcome = "failed"
  <2>1. work[j] \in WorkRow
    BY <1>0 DEF CheckoutTypes
  <2>2. w \in WorkRow
    BY <2>1, NewFields
  <2> QED
    BY <2>1, <2>2 DEF WorkRow
<1>3. CheckoutTypes' /\ OnlyMoves(j) /\ at'[j] = "leaving" /\ work'[j] = w
  BY <1>0, <1>1, <1>2, TypesAfter DEF CheckoutTypes, UpdatePlaces, JobPlaces
<1> HIDE DEF w
<1>9. gaveUp \subseteq gaveUp' /\ unsure \subseteq unsure' /\ (~intruded' => ~intruded) /\ (interrupts > 0 => interrupts' > 0)
  BY <1>0, <1>1, <1>2 DEF CheckoutTypes
<1>10. LockHeld'
  BY <1>0, <1>1, <1>3, <1>2 DEF OnlyMoves, LockHeld, HasLock, Locked, Playing
<1>11. InOrder'
  <2>1. Sequential'
    BY <1>0, <1>1, <1>3 DEF OnlyMoves, InOrder, Sequential
  <2>2. InPlace(j)'
    BY <1>0, <1>1, <1>3, <1>2 DEF InOrder, InPlace, Playing
  <2> QED
    BY <1>0, <1>3, <2>1, <2>2, PlacesKept
<1>12. HeadKnown'
  <2>1. ASSUME ~intruded' PROVE TornKnown'
    BY <1>0, <1>1, <1>3, <1>2, <1>9, <2>1 DEF OnlyMoves, HeadKnown, TornKnown
  <2>2. ASSUME ~intruded', j \notin gaveUp' PROVE HeadFor(j)'
    BY <1>0, <1>1, <1>3, <1>2, <1>9, <2>2 DEF HeadKnown, HeadFor
  <2>3. \A q \in Tasks \ {j} : ~intruded' /\ q \notin gaveUp /\ at[q] \in Locked =>
            tree'.head = tree.head /\ (q \in Jobs => result'[q].revision = result[q].revision)
    BY <1>0, <1>1, <1>3, <1>2, <1>9
  <2> QED
    BY <1>0, <1>3, <1>9, <2>1, <2>2, <2>3, HeadKept
<1>13. FilesRecorded'
  <2>1. \A q \in Jobs \ {j} : ~intruded' /\ Copied(q) => result'[q].files = result[q].files /\ result'[q].revision = result[q].revision
    BY <1>0, <1>1, <1>3, <1>2, <1>9
  <2>2. j \in Jobs /\ ~intruded' /\ Copied(j)' =>
            result'[j].files = result'[j].revision \/ (interrupts' > 0 /\ result'[j].files = Torn)
    BY <1>0, <1>1, <1>3, <1>2 DEF Copied
  <2> QED
    BY <1>0, <1>3, <1>9, <2>1, <2>2, FilesKept
<1>20. ASSUME RolesInv, ~intruded', interrupts' = 0 PROVE RolesParts'
  <2>1. ~intruded /\ interrupts = 0 /\ RolesParts
    BY <1>1, <1>2, <1>20 DEF RolesInv
  <2>2. RowsAgree' /\ CachesAgree'
    <3>1. j \in Jobs /\ Sure(j)' => Sure(j) /\ work'[j].row = work[j].row
      BY <1>0, <1>1, <1>3, <1>2 DEF Sure
    <3> QED
      BY <1>0, <1>1, <1>3, <1>9, <2>1, <3>1, RowsKept DEF RolesParts
  <2>3. UpdatesSave'
    <3>1. j \in Jobs /\ at'[j] # "new" => Named(work'[j].row.last_job)
      BY <1>0, <1>1, <1>3, <1>2, <2>1 DEF RolesParts, UpdatesSave, Named
    <3>2. j \in Updates => SaveFor(j)'
      BY <1>0, <1>1, <1>3, <1>2, <2>1 DEF RolesParts, UpdatesSave, SaveFor
    <3>3. at[j] # "done" /\ \A v \in Updates : v \in unsure' => v \in unsure \/ at[v] = "done"
      BY <1>0, <1>1, <1>2
    <3>4. \A u \in Updates \ {j} : caches'[u] \in {0, caches[u]} \/ at[u] = "done"
      BY <1>1
    <3> QED
      BY <1>0, <1>1, <1>3, <1>2, <2>1, <3>1, <3>2, <3>3, <3>4, UpdatesKept DEF RolesParts
  <2>4. StageHeld'
    <3>1. \A q \in Tasks \ {j} : q \notin gaveUp /\ at[q] \in Locked => staged \subseteq staged'
      BY <1>1
    <3>2. at'[j] \in Playing => j \in staged'
      BY <1>0, <1>1, <1>3, <1>2, <2>1 DEF RolesParts, StageHeld, Playing
    <3> QED
      BY <1>0, <1>3, <1>9, <2>1, <3>1, <3>2, StageKept DEF RolesParts
  <2>5. RowKept'
    <3>1. \A q \in Jobs \ {j} : q \notin gaveUp /\ at[q] \in Locked => result'[q].revision = result[q].revision /\ caches' = caches
      BY <1>0, <1>1, <1>3, <1>2
    <3>2. ASSUME j \in Jobs, j \notin gaveUp', j \notin unsure', j \notin Overriding PROVE RowFor(j)'
      BY <1>0, <1>1, <1>3, <1>2, <2>1, <1>9, <3>2 DEF RolesParts, RowKept, RowFor, Playing, Syncing
    <3> QED
      BY <1>0, <1>3, <1>9, <2>1, <3>1, <3>2, RowForKept DEF RolesParts
  <2>6. RolesFound'
    <3>1. \A q \in Jobs \ {j} : at[q] = "playing" \/ (q \notin gaveUp /\ at[q] \in Locked) =>
              result'[q].revision = result[q].revision /\ result'[q].roles = result[q].roles
      BY <1>0, <1>1, <1>3, <1>2
    <3>2. j \in Jobs => RolesFor(j)'
      BY <1>0, <1>1, <1>3, <1>2, <2>1, <1>9 DEF RolesParts, RolesFound, RolesFor, Copied
    <3> QED
      BY <1>0, <1>3, <1>9, <2>1, <3>1, <3>2, RolesKept DEF RolesParts
  <2> QED
    BY <2>2, <2>3, <2>4, <2>5, <2>6 DEF RolesParts
<1> QED
  BY <1>3, <1>10, <1>11, <1>12, <1>13, <1>20 DEF RolesInv

LEMMA DecideGoesOn == ASSUME CheckoutAssumed, CheckoutInv, NEW j \in Jobs, Decide(j), at'[j] # "leaving" PROVE CheckoutInv'
<1> USE DEF CheckoutInv, FilesInv
<1>0. Tasks = Jobs \union Updates /\ Jobs \intersect Updates = {} /\ Overriding \subseteq Jobs /\ 0 \notin Tasks
  BY DEF Tasks, CheckoutAssumed
<1> DEFINE needs == {t \in {"update", "install"} : (t = "update" /\ NeedsUpdate(j)) \/ (t = "install" /\ NeedsInstall(j))}
           original == IF j \in Overriding THEN tree.head ELSE 0
           place == IF needs = {} THEN "copying" ELSE "syncing"
           w == [work[j] EXCEPT !.tags = needs, !.original = original]
<1>1. /\ at[j] = "locked"
      /\ work' = [work EXCEPT ![j] = w] /\ at' = [at EXCEPT ![j] = place]
      /\ result' = [result EXCEPT ![j].revision = work[j].row.revision]
      /\ UNCHANGED <<remote, project, tree, caches, staged, lock, gaveUp, intruded, unsure, interrupts>>
  BY <1>0 DEF CheckoutTypes, Decide, Move, row, local, ghosts
<1>2. /\ w \in WorkRow /\ w.row = work[j].row /\ w.outcome = work[j].outcome /\ w.tags = needs
      /\ work[j].row.revision \in Nat
      /\ "update" \notin needs => j \notin Overriding /\ tree.head = work[j].row.revision
      /\ "install" \notin needs => j \notin Overriding /\ caches[work[j].row.last_job] # 0
      /\ place = "syncing" \/ (place = "copying" /\ "update" \notin needs /\ "install" \notin needs)
  <2>1. work[j] \in WorkRow /\ work[j].row \in ProjectRow /\ work[j].row.revision \in Nat
    BY <1>0 DEF CheckoutTypes, WorkRow, ProjectRow
  <2>2. needs \in SUBSET {"update", "install"} /\ original \in Nat
    BY DEF CheckoutTypes
  <2>3. w \in WorkRow
    BY <2>1, <2>2, NewFields
  <2>4. "update" \in needs <=> NeedsUpdate(j)
    OBVIOUS
  <2>5. "install" \in needs <=> NeedsInstall(j)
    OBVIOUS
  <2>6. "update" \notin needs => j \notin Overriding /\ tree.head = work[j].row.revision
    BY <2>4 DEF NeedsUpdate
  <2>7. "install" \notin needs => j \notin Overriding /\ caches[work[j].row.last_job] # 0
    BY <2>5 DEF NeedsInstall
  <2>8. w.row = work[j].row /\ w.outcome = work[j].outcome /\ w.tags = needs
    BY <2>1 DEF WorkRow
  <2> HIDE DEF w, needs
  <2> QED
    BY <2>1, <2>3, <2>6, <2>7, <2>8
<1> HIDE DEF w, needs, place, original
<1>4. /\ result' \in [Jobs -> [revision : Nat, files : Nat, roles : Nat]] /\ result'[j].revision = work[j].row.revision
      /\ \A k \in Jobs \ {j} : result'[k] = result[k]
  BY <1>1, <1>2 DEF CheckoutTypes
<1>3. CheckoutTypes' /\ OnlyMoves(j) /\ at'[j] = place /\ work'[j] = w
  BY <1>0, <1>1, <1>2, <1>4, TypesAfter DEF CheckoutTypes, UpdatePlaces, JobPlaces
<1>9. gaveUp \subseteq gaveUp' /\ unsure \subseteq unsure' /\ (~intruded' => ~intruded) /\ (interrupts > 0 => interrupts' > 0)
  BY <1>0, <1>1, <1>2, <1>4 DEF CheckoutTypes
<1>10. LockHeld'
  BY <1>0, <1>1, <1>3, <1>2, <1>4 DEF OnlyMoves, LockHeld, HasLock, Locked, Playing
<1>11. InOrder'
  <2>1. Sequential'
    BY <1>0, <1>1, <1>3 DEF OnlyMoves, InOrder, Sequential
  <2>2. InPlace(j)'
    BY <1>0, <1>1, <1>3, <1>2, <1>4 DEF InOrder, InPlace, Playing
  <2> QED
    BY <1>0, <1>3, <2>1, <2>2, PlacesKept
<1>12. HeadKnown'
  <2>1. ASSUME ~intruded' PROVE TornKnown'
    <3>1. \A q \in Tasks : at[q] = "checkout" => q # j /\ at'[q] = "checkout"
      BY <1>1, <1>3 DEF OnlyMoves
    <3> QED
      BY <1>1, <2>1, <3>1 DEF HeadKnown, TornKnown
  <2>2. ASSUME ~intruded', j \notin gaveUp' PROVE HeadFor(j)'
    BY <1>0, <1>1, <1>3, <1>2, <1>4, <1>9, <2>2 DEF HeadKnown, HeadFor
  <2>3. \A q \in Tasks \ {j} : ~intruded' /\ q \notin gaveUp /\ at[q] \in Locked =>
            tree'.head = tree.head /\ (q \in Jobs => result'[q].revision = result[q].revision)
    BY <1>0, <1>1, <1>3, <1>2, <1>4, <1>9
  <2> QED
    BY <1>0, <1>3, <1>9, <2>1, <2>2, <2>3, HeadKept
<1>13. FilesRecorded'
  <2>1. \A q \in Jobs \ {j} : ~intruded' /\ Copied(q) => result'[q].files = result[q].files /\ result'[q].revision = result[q].revision
    BY <1>0, <1>1, <1>3, <1>2, <1>4, <1>9
  <2>2. j \in Jobs /\ ~intruded' /\ Copied(j)' =>
            result'[j].files = result'[j].revision \/ (interrupts' > 0 /\ result'[j].files = Torn)
    BY <1>0, <1>1, <1>3, <1>2, <1>4 DEF Copied
  <2> QED
    BY <1>0, <1>3, <1>9, <2>1, <2>2, FilesKept
<1>20. ASSUME RolesInv, ~intruded', interrupts' = 0 PROVE RolesParts'
  <2>1. ~intruded /\ interrupts = 0 /\ RolesParts
    BY <1>1, <1>2, <1>4, <1>20 DEF RolesInv
  <2>2. RowsAgree' /\ CachesAgree'
    <3>1. j \in Jobs /\ Sure(j)' => Sure(j) /\ work'[j].row = work[j].row
      BY <1>0, <1>1, <1>3, <1>2, <1>4 DEF Sure
    <3> QED
      BY <1>0, <1>1, <1>3, <1>9, <2>1, <3>1, RowsKept DEF RolesParts
  <2>3. UpdatesSave'
    <3>1. j \in Jobs /\ at'[j] # "new" => Named(work'[j].row.last_job)
      BY <1>0, <1>1, <1>3, <1>2, <1>4, <2>1 DEF RolesParts, UpdatesSave, Named
    <3>2. j \in Updates => SaveFor(j)'
      BY <1>0, <1>1, <1>3, <1>2, <1>4, <2>1 DEF RolesParts, UpdatesSave, SaveFor
    <3>3. at[j] # "done" /\ \A v \in Updates : v \in unsure' => v \in unsure \/ at[v] = "done"
      BY <1>0, <1>1, <1>2, <1>4
    <3>4. \A u \in Updates \ {j} : caches'[u] \in {0, caches[u]} \/ at[u] = "done"
      BY <1>1
    <3> QED
      BY <1>0, <1>1, <1>3, <1>2, <1>4, <2>1, <3>1, <3>2, <3>3, <3>4, UpdatesKept DEF RolesParts
  <2>4. StageHeld'
    <3>1. \A q \in Tasks \ {j} : q \notin gaveUp /\ at[q] \in Locked => staged \subseteq staged'
      BY <1>1
    <3>2. at'[j] \in Playing => j \in staged'
      BY <1>0, <1>1, <1>3, <1>2, <1>4, <2>1 DEF RolesParts, StageHeld, Playing
    <3> QED
      BY <1>0, <1>3, <1>9, <2>1, <3>1, <3>2, StageKept DEF RolesParts
  <2>5. RowKept'
    <3>1. \A q \in Jobs \ {j} : q \notin gaveUp /\ at[q] \in Locked => result'[q].revision = result[q].revision /\ caches' = caches
      BY <1>0, <1>1, <1>3, <1>2, <1>4
    <3>2. ASSUME j \in Jobs, j \notin gaveUp', j \notin unsure', j \notin Overriding PROVE RowFor(j)'
      <4>1. RowFor(j) /\ Sure(j) /\ CacheOf(work[j].row)
        BY <1>1, <2>1, <3>2 DEF RolesParts, RowKept, CachesAgree, Sure
      <4>2. place = "copying" => work'[j].row.last_job \in unsure' \/ caches'[work'[j].row.last_job] = work'[j].row.revision
        BY <1>1, <1>2, <1>3, <4>1 DEF CacheOf
      <4> QED
        BY <1>1, <1>2, <1>3, <1>4, <4>2 DEF RowFor, Syncing, Playing
    <3> QED
      BY <1>0, <1>3, <1>9, <2>1, <3>1, <3>2, RowForKept DEF RolesParts
  <2>6. RolesFound'
    <3>1. \A q \in Jobs \ {j} : at[q] = "playing" \/ (q \notin gaveUp /\ at[q] \in Locked) =>
              result'[q].revision = result[q].revision /\ result'[q].roles = result[q].roles
      BY <1>0, <1>1, <1>3, <1>2, <1>4
    <3>2. j \in Jobs => RolesFor(j)'
      BY <1>0, <1>1, <1>3, <1>2, <1>4, <2>1, <1>9 DEF RolesParts, RolesFound, RolesFor, Copied
    <3> QED
      BY <1>0, <1>3, <1>9, <2>1, <3>1, <3>2, RolesKept DEF RolesParts
  <2> QED
    BY <2>2, <2>3, <2>4, <2>5, <2>6 DEF RolesParts
<1> QED
  BY <1>3, <1>10, <1>11, <1>12, <1>13, <1>20 DEF RolesInv

LEMMA BeginSyncHolds == ASSUME CheckoutAssumed, CheckoutInv, NEW p \in Tasks, BeginSync(p), p \notin gaveUp PROVE CheckoutInv'
<1> USE DEF CheckoutInv, FilesInv
<1>0. Tasks = Jobs \union Updates /\ Jobs \intersect Updates = {} /\ Overriding \subseteq Jobs /\ 0 \notin Tasks
  BY DEF Tasks, CheckoutAssumed
<1> DEFINE w == IF p \in Jobs THEN [work[p] EXCEPT !.row = project] ELSE work[p]
           place == IF "update" \in work[p].tags THEN "fetching" ELSE "installing"
<1>1. /\ at[p] = "syncing" /\ at' = [at EXCEPT ![p] = place] /\ work' = [work EXCEPT ![p] = w]
      /\ staged' = {p} /\ intruded' = intruded
      /\ unsure' = IF p \in Jobs /\ work[p].row # project THEN unsure \union {p} ELSE unsure
      /\ UNCHANGED <<remote, project, tree, caches, lock, result, gaveUp, interrupts>>
  <2>1. work = [work EXCEPT ![p] = work[p]]
    BY <1>0 DEF CheckoutTypes
  <2> QED
    BY <2>1 DEF BeginSync, Move, row, CheckoutTypes
<1>2. /\ w \in WorkRow /\ w.tags = work[p].tags /\ w.outcome = work[p].outcome /\ w.target = work[p].target
      /\ p \in Jobs => w.row = project
      /\ p \in Updates => w = work[p]
      /\ (place = "fetching" /\ "update" \in work[p].tags) \/ (place = "installing" /\ "update" \notin work[p].tags)
  <2>1. work[p] \in WorkRow /\ project \in ProjectRow
    BY <1>0 DEF CheckoutTypes
  <2>2. w \in WorkRow
    BY <2>1, NewFields
  <2>3. w.tags = work[p].tags /\ w.outcome = work[p].outcome /\ w.target = work[p].target
    BY <2>1 DEF WorkRow
  <2>4. p \in Jobs => w.row = project
    BY <2>1 DEF WorkRow
  <2> HIDE DEF w
  <2>5. p \in Updates => w = work[p]
    BY <1>0 DEF w
  <2> QED
    BY <2>2, <2>3, <2>4, <2>5
<1> HIDE DEF w, place
<1>3. CheckoutTypes' /\ OnlyMoves(p) /\ at'[p] = place /\ work'[p] = w
  BY <1>0, <1>1, <1>2, TypesAfter DEF CheckoutTypes, UpdatePlaces, JobPlaces
<1>4. \A q \in Tasks \ {p} : q \in gaveUp \/ at[q] \notin Locked
  BY <1>1, Alone DEF HasLock, Locked
<1>9. gaveUp \subseteq gaveUp' /\ unsure \subseteq unsure' /\ (~intruded' => ~intruded) /\ (interrupts > 0 => interrupts' > 0)
  BY <1>0, <1>1, <1>2, <1>4 DEF CheckoutTypes
<1>10. LockHeld'
  BY <1>0, <1>1, <1>3, <1>2, <1>4 DEF OnlyMoves, LockHeld, HasLock, Locked, Playing
<1>11. InOrder'
  <2>1. Sequential'
    BY <1>0, <1>1, <1>3 DEF OnlyMoves, InOrder, Sequential
  <2>2. InPlace(p)'
    BY <1>0, <1>1, <1>3, <1>2, <1>4 DEF InOrder, InPlace, Playing
  <2> QED
    BY <1>0, <1>3, <2>1, <2>2, PlacesKept
<1>12. HeadKnown'
  <2>1. ASSUME ~intruded' PROVE TornKnown'
    BY <1>0, <1>1, <1>3, <1>2, <1>4, <1>9, <2>1 DEF OnlyMoves, HeadKnown, TornKnown
  <2>2. ASSUME ~intruded', p \notin gaveUp' PROVE HeadFor(p)'
    BY <1>0, <1>1, <1>2, <1>3, <1>9, <2>2 DEF HeadKnown, HeadFor, InOrder, InPlace
  <2>3. \A q \in Tasks \ {p} : ~intruded' /\ q \notin gaveUp /\ at[q] \in Locked =>
            tree'.head = tree.head /\ (q \in Jobs => result'[q].revision = result[q].revision)
    BY <1>0, <1>1, <1>3, <1>2, <1>4, <1>9
  <2> QED
    BY <1>0, <1>3, <1>9, <2>1, <2>2, <2>3, HeadKept
<1>13. FilesRecorded'
  <2>1. \A q \in Jobs \ {p} : ~intruded' /\ Copied(q) => result'[q].files = result[q].files /\ result'[q].revision = result[q].revision
    BY <1>0, <1>1, <1>3, <1>2, <1>4, <1>9
  <2>2. p \in Jobs /\ ~intruded' /\ Copied(p)' =>
            result'[p].files = result'[p].revision \/ (interrupts' > 0 /\ result'[p].files = Torn)
    BY <1>0, <1>1, <1>3, <1>2, <1>4 DEF Copied
  <2> QED
    BY <1>0, <1>3, <1>9, <2>1, <2>2, FilesKept
<1>20. ASSUME RolesInv, ~intruded', interrupts' = 0 PROVE RolesParts'
  <2>1. ~intruded /\ interrupts = 0 /\ RolesParts
    BY <1>1, <1>2, <1>4, <1>20 DEF RolesInv
  <2>2. RowsAgree' /\ CachesAgree'
    <3>1. p \in Jobs /\ Sure(p)' => Sure(p) /\ work'[p].row = work[p].row
      BY <1>0, <1>1, <1>3, <1>2, <1>4 DEF Sure
    <3> QED
      BY <1>0, <1>1, <1>3, <1>9, <2>1, <3>1, RowsKept DEF RolesParts
  <2>3. UpdatesSave'
    <3>1. p \in Jobs /\ at'[p] # "new" => Named(work'[p].row.last_job)
      BY <1>0, <1>1, <1>3, <1>2, <1>4, <2>1 DEF RolesParts, UpdatesSave, Named
    <3>2. p \in Updates => SaveFor(p)'
      BY <1>0, <1>1, <1>3, <1>2, <1>4, <2>1 DEF RolesParts, UpdatesSave, SaveFor
    <3>3. at[p] # "done" /\ \A v \in Updates : v \in unsure' => v \in unsure \/ at[v] = "done"
      BY <1>0, <1>1, <1>2, <1>4
    <3>4. \A u \in Updates \ {p} : caches'[u] \in {0, caches[u]} \/ at[u] = "done"
      BY <1>1
    <3> QED
      BY <1>0, <1>1, <1>3, <1>2, <1>4, <2>1, <3>1, <3>2, <3>3, <3>4, UpdatesKept DEF RolesParts
  <2>4. StageHeld'
    <3>1. \A q \in Tasks \ {p} : q \notin gaveUp /\ at[q] \in Locked => staged \subseteq staged'
      BY <1>4
    <3>2. at'[p] \in Playing => p \in staged'
      BY <1>0, <1>1, <1>3, <1>2, <1>4, <2>1 DEF RolesParts, StageHeld, Playing
    <3> QED
      BY <1>0, <1>3, <1>9, <2>1, <3>1, <3>2, StageKept DEF RolesParts
  <2>5. RowKept'
    <3>1. \A q \in Jobs \ {p} : q \notin gaveUp /\ at[q] \in Locked => result'[q].revision = result[q].revision /\ caches' = caches
      BY <1>0, <1>1, <1>3, <1>2, <1>4
    <3>2. ASSUME p \in Jobs, p \notin gaveUp', p \notin unsure', p \notin Overriding PROVE RowFor(p)'
      <4>1. RowFor(p) /\ work[p].row = project
        BY <1>1, <2>1, <3>2 DEF RolesParts, RowKept
      <4> QED
        BY <1>1, <1>2, <1>3, <3>2, <4>1 DEF RowFor, Syncing, Playing
    <3> QED
      BY <1>0, <1>3, <1>9, <2>1, <3>1, <3>2, RowForKept DEF RolesParts
  <2>6. RolesFound'
    <3>1. \A q \in Jobs \ {p} : at[q] = "playing" \/ (q \notin gaveUp /\ at[q] \in Locked) =>
              result'[q].revision = result[q].revision /\ result'[q].roles = result[q].roles
      BY <1>0, <1>1, <1>3, <1>2, <1>4
    <3>2. p \in Jobs => RolesFor(p)'
      BY <1>0, <1>1, <1>3, <1>2, <1>4, <2>1, <1>9 DEF RolesParts, RolesFound, RolesFor, Copied
    <3> QED
      BY <1>0, <1>3, <1>9, <2>1, <3>1, <3>2, RolesKept DEF RolesParts
  <2> QED
    BY <2>2, <2>3, <2>4, <2>5, <2>6 DEF RolesParts
<1> QED
  BY <1>3, <1>10, <1>11, <1>12, <1>13, <1>20 DEF RolesInv

(* Of what gave up, the sync of a job goes on if its signal has not come; the *)
(* rest of the invariant does not speak of a tree that was intruded.         *)
LEMMA BeginSyncIntrudes == ASSUME CheckoutAssumed, CheckoutInv, NEW p \in Tasks, BeginSync(p), p \in gaveUp PROVE CheckoutInv'
<1> USE DEF CheckoutInv, FilesInv
<1>0. Tasks = Jobs \union Updates /\ Jobs \intersect Updates = {}
  BY DEF Tasks, CheckoutAssumed
<1>1. PICK place \in {"fetching", "installing", "leaving"}, w \in WorkRow :
         /\ at[p] = "syncing" /\ at' = [at EXCEPT ![p] = place] /\ work' = [work EXCEPT ![p] = w]
         /\ p \in Updates => place = "leaving"
         /\ place = "leaving" => w.outcome # "successful"
         /\ UNCHANGED <<remote, project, tree, caches, lock, result, gaveUp, interrupts>> /\ intruded'
  <2>1. work[p] \in WorkRow /\ project \in ProjectRow
    BY <1>0 DEF CheckoutTypes
  <2>2. /\ at[p] = "syncing" /\ intruded'
        /\ UNCHANGED <<remote, project, tree, caches, lock, result, gaveUp, interrupts>>
    BY DEF BeginSync, row, CheckoutTypes
  <2>3. CASE at' = [at EXCEPT ![p] = "leaving"] /\ work' = [work EXCEPT ![p] = [work[p] EXCEPT !.outcome = "canceled"]]
    <3>1. [work[p] EXCEPT !.outcome = "canceled"] \in WorkRow
      BY <2>1, NewFields
    <3>2. [work[p] EXCEPT !.outcome = "canceled"].outcome # "successful"
      BY <2>1 DEF WorkRow
    <3> QED
      BY <2>2, <2>3, <3>1, <3>2
  <2>4. CASE p \in Jobs /\ work' = [work EXCEPT ![p] = [work[p] EXCEPT !.row = project]]
             /\ (at' = [at EXCEPT ![p] = "fetching"] \/ at' = [at EXCEPT ![p] = "installing"])
    <3>1. [work[p] EXCEPT !.row = project] \in WorkRow
      BY <2>1, NewFields
    <3> QED
      BY <1>0, <2>2, <2>4, <3>1
  <2> QED
    BY <1>0, <2>3, <2>4 DEF BeginSync, Move
<1>3. CheckoutTypes' /\ OnlyMoves(p) /\ at'[p] = place /\ work'[p] = w /\ intruded'
  BY <1>0, <1>1, TypesAfter DEF CheckoutTypes, UpdatePlaces, JobPlaces
<1>10. LockHeld'
  BY <1>0, <1>1, <1>3 DEF OnlyMoves, LockHeld, HasLock, Locked
<1>11. InOrder'
  <2>1. Sequential'
    BY <1>0, <1>1, <1>3 DEF OnlyMoves, InOrder, Sequential
  <2>2. InPlace(p)'
    BY <1>0, <1>1, <1>3 DEF InOrder, InPlace, Playing
  <2> QED
    BY <1>0, <1>3, <2>1, <2>2, PlacesKept
<1> QED
  BY <1>3, <1>10, <1>11 DEF HeadKnown, FilesRecorded, RolesInv

LEMMA FetchHolds == ASSUME CheckoutAssumed, CheckoutInv, NEW p \in Tasks, Fetch(p) PROVE CheckoutInv'
<1> USE DEF CheckoutInv, FilesInv
<1>0. Tasks = Jobs \union Updates /\ Jobs \intersect Updates = {} /\ Overriding \subseteq Jobs /\ 0 \notin Tasks
  BY DEF Tasks, CheckoutAssumed
<1> DEFINE t == IF p \in Updates THEN remote' ELSE IF p \in Overriding THEN Branch ELSE work[p].row.revision
           w == [work[p] EXCEPT !.target = t]
<1>1. /\ at[p] = "fetching" /\ at' = [at EXCEPT ![p] = "checkout"] /\ work' = [work EXCEPT ![p] = w]
      /\ remote' \in Newest \/ remote' = remote
      /\ tree' = [tree EXCEPT !.torn = TRUE] /\ result' = Spoilt
      /\ UNCHANGED <<project, caches, staged, lock, gaveUp, intruded, unsure, interrupts>>
  BY <1>0 DEF Fetch, CheckoutTypes, Move, ghosts
<1>2. /\ w \in WorkRow /\ w.row = work[p].row /\ w.tags = work[p].tags /\ w.outcome = work[p].outcome
      /\ p \in Jobs \ Overriding => w.target = work[p].row.revision
      /\ remote' \in Nat
  <2>1. work[p] \in WorkRow /\ work[p].row.revision \in Nat /\ Branch \in Nat
    BY <1>0, SpoiltCopies DEF CheckoutTypes, WorkRow, ProjectRow
  <2>2. remote \in Nat /\ Commits \in Nat
    BY DEF CheckoutTypes, CheckoutAssumed
  <2>3. remote' \in Nat
    <3>1. remote' \in remote .. Commits \/ remote' = remote
      BY DEF Fetch, Newest
    <3> QED
      BY <2>2, <3>1
  <2>4. t \in Nat /\ (p \in Jobs \ Overriding => t = work[p].row.revision)
    BY <1>0, <2>1, <2>3
  <2> HIDE DEF t
  <2>5. w \in WorkRow
    BY <2>1, <2>4, NewFields
  <2> QED
    BY <2>1, <2>3, <2>4, <2>5 DEF WorkRow
<1> HIDE DEF w, t
<1>6. /\ Spoilt \in Results
      /\ \A j \in Jobs : /\ at[j] # "copied" => result'[j] = result[j]
                         /\ result'[j].revision = result[j].revision /\ result'[j].roles = result[j].roles
  <2>1. result' = Spoilt
    BY <1>1
  <2> QED
    BY <2>1, SpoiltCopies
<1>7. tree' \in [head : Nat, torn : BOOLEAN] /\ tree'.head = tree.head
  BY <1>1 DEF CheckoutTypes
<1>3. CheckoutTypes' /\ OnlyMoves(p) /\ at'[p] = "checkout" /\ work'[p] = w
  BY <1>0, <1>1, <1>2, <1>6, <1>7, TypesAfter DEF CheckoutTypes, UpdatePlaces, JobPlaces, Results
<1>4. ~intruded' => \A q \in Tasks \ {p} : q \in gaveUp \/ at[q] \notin Locked
  <2> SUFFICES ASSUME ~intruded' PROVE \A q \in Tasks \ {p} : q \in gaveUp \/ at[q] \notin Locked
    OBVIOUS
  <2>1. HasLock(p)
    BY <1>1 DEF LockHeld, HasLock, Locked, Playing
  <2> QED
    BY <2>1, Alone
<1>5. /\ at[p] = "fetching" /\ tree'.head = tree.head
      /\ \A j \in Jobs : /\ at[j] # "copied" => result'[j] = result[j]
                         /\ result'[j].revision = result[j].revision /\ result'[j].roles = result[j].roles
      /\ UNCHANGED <<project, caches, staged, lock, gaveUp, intruded, unsure, interrupts>>
  BY <1>1, <1>6, <1>7
<1>9. gaveUp \subseteq gaveUp' /\ unsure \subseteq unsure' /\ (~intruded' => ~intruded) /\ (interrupts > 0 => interrupts' > 0)
  BY <1>0, <1>5, <1>2 DEF CheckoutTypes
<1>10. LockHeld'
  BY <1>0, <1>5, <1>3, <1>2 DEF OnlyMoves, LockHeld, HasLock, Locked, Playing
<1>11. InOrder'
  <2>1. Sequential'
    BY <1>0, <1>5, <1>3 DEF OnlyMoves, InOrder, Sequential
  <2>2. InPlace(p)'
    BY <1>0, <1>5, <1>3, <1>2 DEF InOrder, InPlace, Playing
  <2> QED
    BY <1>0, <1>3, <2>1, <2>2, PlacesKept
<1>12. HeadKnown'
  <2>1. ASSUME ~intruded' PROVE TornKnown'
    BY <1>0, <1>5, <1>3, <1>2, <1>9, <2>1 DEF OnlyMoves, HeadKnown, TornKnown
  <2>2. ASSUME ~intruded', p \notin gaveUp' PROVE HeadFor(p)'
    BY <1>0, <1>5, <1>3, <1>2, <1>9, <2>2 DEF HeadKnown, HeadFor
  <2>3. \A q \in Tasks \ {p} : ~intruded' /\ q \notin gaveUp /\ at[q] \in Locked =>
            tree'.head = tree.head /\ (q \in Jobs => result'[q].revision = result[q].revision)
    BY <1>0, <1>5, <1>3, <1>2, <1>9
  <2> QED
    BY <1>0, <1>3, <1>9, <2>1, <2>2, <2>3, HeadKept
<1>13. FilesRecorded'
  <2>1. \A q \in Jobs \ {p} : ~intruded' /\ Copied(q) => result'[q].files = result[q].files /\ result'[q].revision = result[q].revision
    BY <1>0, <1>4, <1>5, <1>9 DEF Copied, Locked, Tasks
  <2>2. p \in Jobs /\ ~intruded' /\ Copied(p)' =>
            result'[p].files = result'[p].revision \/ (interrupts' > 0 /\ result'[p].files = Torn)
    BY <1>0, <1>5, <1>3, <1>2 DEF Copied
  <2> QED
    BY <1>0, <1>3, <1>9, <2>1, <2>2, FilesKept
<1>20. ASSUME RolesInv, ~intruded', interrupts' = 0 PROVE RolesParts'
  <2>1. ~intruded /\ interrupts = 0 /\ RolesParts
    BY <1>5, <1>2, <1>20 DEF RolesInv
  <2>2. RowsAgree' /\ CachesAgree'
    <3>1. p \in Jobs /\ Sure(p)' => Sure(p) /\ work'[p].row = work[p].row
      BY <1>0, <1>5, <1>3, <1>2 DEF Sure
    <3> QED
      BY <1>0, <1>5, <1>3, <1>9, <2>1, <3>1, RowsKept DEF RolesParts
  <2>3. UpdatesSave'
    <3>1. p \in Jobs /\ at'[p] # "new" => Named(work'[p].row.last_job)
      BY <1>0, <1>5, <1>3, <1>2, <2>1 DEF RolesParts, UpdatesSave, Named
    <3>2. p \in Updates => SaveFor(p)'
      BY <1>0, <1>5, <1>3, <1>2, <2>1 DEF RolesParts, UpdatesSave, SaveFor
    <3>3. at[p] # "done" /\ \A v \in Updates : v \in unsure' => v \in unsure \/ at[v] = "done"
      BY <1>0, <1>5, <1>2
    <3>4. \A u \in Updates \ {p} : caches'[u] \in {0, caches[u]} \/ at[u] = "done"
      BY <1>5
    <3> QED
      BY <1>0, <1>5, <1>3, <1>2, <2>1, <3>1, <3>2, <3>3, <3>4, UpdatesKept DEF RolesParts
  <2>4. StageHeld'
    <3>1. \A q \in Tasks \ {p} : q \notin gaveUp /\ at[q] \in Locked => staged \subseteq staged'
      BY <1>5
    <3>2. at'[p] \in Playing => p \in staged'
      BY <1>0, <1>3, <1>5, <2>1 DEF LockHeld, RolesParts, StageHeld, Playing
    <3> QED
      BY <1>0, <1>3, <1>9, <2>1, <3>1, <3>2, StageKept DEF RolesParts
  <2>5. RowKept'
    <3>1. \A q \in Jobs \ {p} : q \notin gaveUp /\ at[q] \in Locked => result'[q].revision = result[q].revision /\ caches' = caches
      BY <1>0, <1>5, <1>3, <1>2
    <3>2. ASSUME p \in Jobs, p \notin gaveUp', p \notin unsure', p \notin Overriding PROVE RowFor(p)'
      BY <1>0, <1>5, <1>3, <1>2, <2>1, <1>9, <3>2 DEF RolesParts, RowKept, RowFor, Playing, Syncing
    <3> QED
      BY <1>0, <1>3, <1>9, <2>1, <3>1, <3>2, RowForKept DEF RolesParts
  <2>6. RolesFound'
    <3>1. \A q \in Jobs \ {p} : at[q] = "playing" \/ (q \notin gaveUp /\ at[q] \in Locked) =>
              result'[q].revision = result[q].revision /\ result'[q].roles = result[q].roles
      BY <1>0, <1>4, <1>5, <1>20 DEF Locked
    <3>2. p \in Jobs => RolesFor(p)'
      BY <1>0, <1>5, <1>3, <1>2, <2>1, <1>9 DEF RolesParts, RolesFound, RolesFor, Copied
    <3> QED
      BY <1>0, <1>3, <1>9, <2>1, <3>1, <3>2, RolesKept DEF RolesParts
  <2> QED
    BY <2>2, <2>3, <2>4, <2>5, <2>6 DEF RolesParts
<1> QED
  BY <1>3, <1>10, <1>11, <1>12, <1>13, <1>20 DEF RolesInv

LEMMA CheckOutHolds == ASSUME CheckoutAssumed, CheckoutInv, NEW p \in Tasks, CheckOut(p) PROVE CheckoutInv'
<1> USE DEF CheckoutInv, FilesInv
<1>0. Tasks = Jobs \union Updates /\ Jobs \intersect Updates = {} /\ Overriding \subseteq Jobs /\ 0 \notin Tasks
  BY DEF Tasks, CheckoutAssumed
<1>1. /\ at[p] = "checkout" /\ at' = [at EXCEPT ![p] = "installing"] /\ work' = work
      /\ tree' = [head |-> work[p].target, torn |-> \E q \in Tasks \ {p} : at[q] = "checkout"]
      /\ UNCHANGED <<remote, project, caches, staged, lock, gaveUp, intruded, unsure, interrupts>>
  BY DEF CheckOut, Move, row, ghosts
<1>2. work[p] \in WorkRow /\ work[p].target \in Nat
  BY <1>0 DEF CheckoutTypes, WorkRow
<1>6. /\ result' \in Results
      /\ \A j \in Jobs \ {p} : /\ at[j] # "copied" => result'[j] = result[j]
                               /\ result'[j].revision = result[j].revision /\ result'[j].roles = result[j].roles
      /\ p \in Jobs => result'[p].revision = work[p].target
  <2>1. result' = IF p \in Jobs THEN [Spoilt EXCEPT ![p].revision = work[p].target] ELSE Spoilt
    BY DEF CheckOut
  <2>2. \A j \in Jobs \ {p} : result'[j] = Spoilt[j]
    BY <2>1, SpoiltCopies DEF Results
  <2>3. result' \in Results /\ (p \in Jobs => result'[p].revision = work[p].target)
    BY <1>2, <2>1, SpoiltCopies DEF Results
  <2> QED
    BY <2>2, <2>3, SpoiltCopies
<1>7. tree' \in [head : Nat, torn : BOOLEAN] /\ tree'.head = work[p].target
  BY <1>1, <1>2
<1>3. CheckoutTypes' /\ OnlyMoves(p) /\ at'[p] = "installing" /\ work'[p] = work[p]
  BY <1>0, <1>1, <1>6, <1>7, MovesAfter DEF CheckoutTypes, UpdatePlaces, JobPlaces, Results
<1>4. ~intruded' => \A q \in Tasks \ {p} : q \in gaveUp \/ at[q] \notin Locked
  <2> SUFFICES ASSUME ~intruded' PROVE \A q \in Tasks \ {p} : q \in gaveUp \/ at[q] \notin Locked
    OBVIOUS
  <2>1. HasLock(p)
    BY <1>1 DEF LockHeld, HasLock, Locked, Playing
  <2> QED
    BY <2>1, Alone
<1>5. /\ at[p] = "checkout" /\ tree'.head = work[p].target /\ (p \in Jobs => result'[p].revision = work[p].target)
      /\ \A j \in Jobs \ {p} : /\ at[j] # "copied" => result'[j] = result[j]
                               /\ result'[j].revision = result[j].revision /\ result'[j].roles = result[j].roles
      /\ UNCHANGED <<project, caches, staged, lock, gaveUp, intruded, unsure, interrupts>>
  BY <1>1, <1>6, <1>7
<1>9. gaveUp \subseteq gaveUp' /\ unsure \subseteq unsure' /\ (~intruded' => ~intruded) /\ (interrupts > 0 => interrupts' > 0)
  BY <1>0, <1>5 DEF CheckoutTypes
<1>10. LockHeld'
  BY <1>0, <1>5, <1>3 DEF OnlyMoves, LockHeld, HasLock, Locked, Playing
<1>11. InOrder'
  <2>1. Sequential'
    BY <1>0, <1>5, <1>3 DEF OnlyMoves, InOrder, Sequential
  <2>2. InPlace(p)'
    BY <1>0, <1>5, <1>3 DEF InOrder, InPlace, Playing
  <2> QED
    BY <1>0, <1>3, <2>1, <2>2, PlacesKept
<1>12. HeadKnown'
  <2>1. ASSUME ~intruded' PROVE TornKnown'
    BY <1>1, <1>3 DEF OnlyMoves, TornKnown
  <2>2. ASSUME ~intruded', p \notin gaveUp' PROVE HeadFor(p)'
    BY <1>0, <1>5, <1>3, <1>9, <2>2 DEF HeadKnown, HeadFor
  <2>3. \A q \in Tasks \ {p} : ~intruded' /\ q \notin gaveUp /\ at[q] \in Locked =>
            tree'.head = tree.head /\ (q \in Jobs => result'[q].revision = result[q].revision)
    BY <1>4
  <2> QED
    BY <1>0, <1>3, <1>9, <2>1, <2>2, <2>3, HeadKept
<1>13. FilesRecorded'
  <2>1. \A q \in Jobs \ {p} : ~intruded' /\ Copied(q) => result'[q].files = result[q].files /\ result'[q].revision = result[q].revision
    BY <1>0, <1>4, <1>5, <1>9 DEF Copied, Locked, Tasks
  <2>2. p \in Jobs /\ ~intruded' /\ Copied(p)' =>
            result'[p].files = result'[p].revision \/ (interrupts' > 0 /\ result'[p].files = Torn)
    BY <1>0, <1>5, <1>3 DEF Copied
  <2> QED
    BY <1>0, <1>3, <1>9, <2>1, <2>2, FilesKept
<1>20. ASSUME RolesInv, ~intruded', interrupts' = 0 PROVE RolesParts'
  <2>1. ~intruded /\ interrupts = 0 /\ RolesParts
    BY <1>5, <1>20 DEF RolesInv
  <2>2. RowsAgree' /\ CachesAgree'
    <3>1. p \in Jobs /\ Sure(p)' => Sure(p) /\ work'[p].row = work[p].row
      BY <1>0, <1>5, <1>3 DEF Sure
    <3> QED
      BY <1>0, <1>5, <1>3, <1>9, <2>1, <3>1, RowsKept DEF RolesParts
  <2>3. UpdatesSave'
    <3>1. p \in Jobs /\ at'[p] # "new" => Named(work'[p].row.last_job)
      BY <1>0, <1>5, <1>3, <2>1 DEF RolesParts, UpdatesSave, Named
    <3>2. p \in Updates => SaveFor(p)'
      BY <1>0, <1>5, <1>3, <2>1 DEF RolesParts, UpdatesSave, SaveFor
    <3>3. at[p] # "done" /\ \A v \in Updates : v \in unsure' => v \in unsure \/ at[v] = "done"
      BY <1>0, <1>5
    <3>4. \A u \in Updates \ {p} : caches'[u] \in {0, caches[u]} \/ at[u] = "done"
      BY <1>5
    <3> QED
      BY <1>0, <1>5, <1>3, <2>1, <3>1, <3>2, <3>3, <3>4, UpdatesKept DEF RolesParts
  <2>4. StageHeld'
    <3>1. \A q \in Tasks \ {p} : q \notin gaveUp /\ at[q] \in Locked => staged \subseteq staged'
      BY <1>5
    <3>2. at'[p] \in Playing => p \in staged'
      BY <1>0, <1>3, <1>5, <2>1 DEF LockHeld, RolesParts, StageHeld, Playing
    <3> QED
      BY <1>0, <1>3, <1>9, <2>1, <3>1, <3>2, StageKept DEF RolesParts
  <2>5. RowKept'
    <3>1. \A q \in Jobs \ {p} : q \notin gaveUp /\ at[q] \in Locked => result'[q].revision = result[q].revision /\ caches' = caches
      BY <1>0, <1>5, <1>3
    <3>2. ASSUME p \in Jobs, p \notin gaveUp', p \notin unsure', p \notin Overriding PROVE RowFor(p)'
      BY <1>0, <1>5, <1>3, <2>1, <1>9, <3>2 DEF RolesParts, RowKept, RowFor, Playing, Syncing
    <3> QED
      BY <1>0, <1>3, <1>9, <2>1, <3>1, <3>2, RowForKept DEF RolesParts
  <2>6. RolesFound'
    <3>1. \A q \in Jobs \ {p} : at[q] = "playing" \/ (q \notin gaveUp /\ at[q] \in Locked) =>
              result'[q].revision = result[q].revision /\ result'[q].roles = result[q].roles
      BY <1>0, <1>4, <1>5, <1>20 DEF Locked
    <3>2. p \in Jobs => RolesFor(p)'
      BY <1>0, <1>5, <1>3, <2>1, <1>9 DEF RolesParts, RolesFound, RolesFor, Copied
    <3> QED
      BY <1>0, <1>3, <1>9, <2>1, <3>1, <3>2, RolesKept DEF RolesParts
  <2> QED
    BY <2>2, <2>3, <2>4, <2>5, <2>6 DEF RolesParts
<1> QED
  BY <1>3, <1>10, <1>11, <1>12, <1>13, <1>20 DEF RolesInv

LEMMA FailSyncHolds == ASSUME CheckoutAssumed, CheckoutInv, NEW p \in Tasks, FailSync(p) PROVE CheckoutInv'
<1> USE DEF CheckoutInv, FilesInv
<1>0. Tasks = Jobs \union Updates /\ Jobs \intersect Updates = {} /\ Overriding \subseteq Jobs /\ 0 \notin Tasks
  BY DEF Tasks, CheckoutAssumed
<1>8. PICK o \in {"failed", "canceled", "error"} : work' = [work EXCEPT ![p] = [work[p] EXCEPT !.outcome = o]]
  <2>1. PICK o \in {"failed", "canceled", "error"} : work' = [work EXCEPT ![p].outcome = o]
    BY DEF FailSync
  <2> QED
    BY <1>0, <2>1 DEF CheckoutTypes
<1>6. interrupts' \in Nat /\ (interrupts > 0 => interrupts' > 0)
      /\ (at[p] = "checkout" => interrupts' > 0) /\ (interrupts' = 0 => interrupts = 0 /\ at[p] \in {"fetching", "installing"})
  <2>1. interrupts \in Nat
    BY DEF CheckoutTypes
  <2>2. (at[p] \in {"fetching", "installing"} /\ interrupts' = interrupts) \/ (at[p] = "checkout" /\ interrupts' = interrupts + 1)
    BY DEF FailSync
  <2>3. CASE at[p] \in {"fetching", "installing"} /\ interrupts' = interrupts
    BY <2>1, <2>3
  <2>4. CASE at[p] = "checkout" /\ interrupts' = interrupts + 1
    BY <2>1, <2>4
  <2> QED
    BY <2>2, <2>3, <2>4
<1> DEFINE w == [work[p] EXCEPT !.outcome = o]
<1>1. /\ (at[p] \in {"fetching", "installing"} /\ interrupts' = interrupts) \/ (at[p] = "checkout" /\ interrupts' = interrupts + 1)
      /\ at' = [at EXCEPT ![p] = "leaving"] /\ work' = [work EXCEPT ![p] = w] /\ staged' = {}
      /\ UNCHANGED <<remote, project, tree, caches, lock, result, gaveUp, intruded, unsure>>
  BY <1>8 DEF FailSync, Move, row
<1>2. w \in WorkRow /\ w.row = work[p].row /\ w.outcome # "successful"
  <2>1. work[p] \in WorkRow
    BY <1>0 DEF CheckoutTypes
  <2>2. w \in WorkRow
    BY <2>1, NewFields
  <2> QED
    BY <2>1, <2>2 DEF WorkRow
<1> HIDE DEF w
<1>3. CheckoutTypes' /\ OnlyMoves(p) /\ at'[p] = "leaving" /\ work'[p] = w
  BY <1>0, <1>1, <1>2, <1>6, TypesAfter DEF CheckoutTypes, UpdatePlaces, JobPlaces
<1>4. ~intruded' => \A q \in Tasks \ {p} : q \in gaveUp \/ at[q] \notin Locked
  <2> SUFFICES ASSUME ~intruded' PROVE \A q \in Tasks \ {p} : q \in gaveUp \/ at[q] \notin Locked
    OBVIOUS
  <2>1. HasLock(p)
    BY <1>1 DEF LockHeld, HasLock, Locked, Playing
  <2> QED
    BY <2>1, Alone
<1>9. gaveUp \subseteq gaveUp' /\ unsure \subseteq unsure' /\ (~intruded' => ~intruded) /\ (interrupts > 0 => interrupts' > 0)
  BY <1>0, <1>1, <1>2, <1>6 DEF CheckoutTypes
<1>10. LockHeld'
  BY <1>0, <1>1, <1>3, <1>2, <1>6 DEF OnlyMoves, LockHeld, HasLock, Locked, Playing
<1>11. InOrder'
  <2>1. Sequential'
    BY <1>0, <1>1, <1>3 DEF OnlyMoves, InOrder, Sequential
  <2>2. InPlace(p)'
    BY <1>0, <1>1, <1>3, <1>2, <1>6 DEF InOrder, InPlace, Playing
  <2> QED
    BY <1>0, <1>3, <2>1, <2>2, PlacesKept
<1>12. HeadKnown'
  <2>1. ASSUME ~intruded' PROVE TornKnown'
    BY <1>0, <1>1, <1>3, <1>2, <1>6, <1>9, <2>1 DEF OnlyMoves, HeadKnown, TornKnown
  <2>2. ASSUME ~intruded', p \notin gaveUp' PROVE HeadFor(p)'
    BY <1>0, <1>1, <1>3, <1>2, <1>6, <1>9, <2>2 DEF HeadKnown, HeadFor
  <2>3. \A q \in Tasks \ {p} : ~intruded' /\ q \notin gaveUp /\ at[q] \in Locked =>
            tree'.head = tree.head /\ (q \in Jobs => result'[q].revision = result[q].revision)
    BY <1>0, <1>1, <1>3, <1>2, <1>6, <1>9
  <2> QED
    BY <1>0, <1>3, <1>9, <2>1, <2>2, <2>3, HeadKept
<1>13. FilesRecorded'
  <2>1. \A q \in Jobs \ {p} : ~intruded' /\ Copied(q) => result'[q].files = result[q].files /\ result'[q].revision = result[q].revision
    BY <1>0, <1>1, <1>3, <1>2, <1>6, <1>9
  <2>2. p \in Jobs /\ ~intruded' /\ Copied(p)' =>
            result'[p].files = result'[p].revision \/ (interrupts' > 0 /\ result'[p].files = Torn)
    BY <1>0, <1>1, <1>3, <1>2, <1>6 DEF Copied
  <2> QED
    BY <1>0, <1>3, <1>9, <2>1, <2>2, FilesKept
<1>20. ASSUME RolesInv, ~intruded', interrupts' = 0 PROVE RolesParts'
  <2>1. ~intruded /\ interrupts = 0 /\ RolesParts
    BY <1>1, <1>2, <1>6, <1>20 DEF RolesInv
  <2>2. RowsAgree' /\ CachesAgree'
    <3>1. p \in Jobs /\ Sure(p)' => Sure(p) /\ work'[p].row = work[p].row
      BY <1>0, <1>1, <1>3, <1>2, <1>6 DEF Sure
    <3> QED
      BY <1>0, <1>1, <1>3, <1>9, <2>1, <3>1, RowsKept DEF RolesParts
  <2>3. UpdatesSave'
    <3>1. p \in Jobs /\ at'[p] # "new" => Named(work'[p].row.last_job)
      BY <1>0, <1>1, <1>3, <1>2, <1>6, <2>1 DEF RolesParts, UpdatesSave, Named
    <3>2. p \in Updates => SaveFor(p)'
      BY <1>0, <1>1, <1>3, <1>2, <1>6, <2>1 DEF RolesParts, UpdatesSave, SaveFor
    <3>3. at[p] # "done" /\ \A v \in Updates : v \in unsure' => v \in unsure \/ at[v] = "done"
      BY <1>0, <1>1, <1>2, <1>6
    <3>4. \A u \in Updates \ {p} : caches'[u] \in {0, caches[u]} \/ at[u] = "done"
      BY <1>1
    <3> QED
      BY <1>0, <1>1, <1>3, <1>2, <1>6, <2>1, <3>1, <3>2, <3>3, <3>4, UpdatesKept DEF RolesParts
  <2>4. StageHeld'
    <3>1. \A q \in Tasks \ {p} : q \notin gaveUp /\ at[q] \in Locked => staged \subseteq staged'
      BY <1>4, <1>20
    <3>2. at'[p] \in Playing => p \in staged'
      BY <1>0, <1>1, <1>3, <1>2, <1>6, <2>1 DEF RolesParts, StageHeld, Playing
    <3> QED
      BY <1>0, <1>3, <1>9, <2>1, <3>1, <3>2, StageKept DEF RolesParts
  <2>5. RowKept'
    <3>1. \A q \in Jobs \ {p} : q \notin gaveUp /\ at[q] \in Locked => result'[q].revision = result[q].revision /\ caches' = caches
      BY <1>0, <1>1, <1>3, <1>2, <1>6
    <3>2. ASSUME p \in Jobs, p \notin gaveUp', p \notin unsure', p \notin Overriding PROVE RowFor(p)'
      BY <1>0, <1>1, <1>3, <1>2, <1>6, <2>1, <1>9, <3>2 DEF RolesParts, RowKept, RowFor, Playing, Syncing
    <3> QED
      BY <1>0, <1>3, <1>9, <2>1, <3>1, <3>2, RowForKept DEF RolesParts
  <2>6. RolesFound'
    <3>1. \A q \in Jobs \ {p} : at[q] = "playing" \/ (q \notin gaveUp /\ at[q] \in Locked) =>
              result'[q].revision = result[q].revision /\ result'[q].roles = result[q].roles
      BY <1>0, <1>1, <1>3, <1>2, <1>6
    <3>2. p \in Jobs => RolesFor(p)'
      BY <1>0, <1>1, <1>3, <1>2, <1>6, <2>1, <1>9 DEF RolesParts, RolesFound, RolesFor, Copied
    <3> QED
      BY <1>0, <1>3, <1>9, <2>1, <3>1, <3>2, RolesKept DEF RolesParts
  <2> QED
    BY <2>2, <2>3, <2>4, <2>5, <2>6 DEF RolesParts
<1> QED
  BY <1>3, <1>10, <1>11, <1>12, <1>13, <1>20 DEF RolesInv

LEMMA InstallHolds == ASSUME CheckoutAssumed, CheckoutInv, NEW p \in Tasks, Install(p) PROVE CheckoutInv'
<1> USE DEF CheckoutInv, FilesInv
<1>0. Tasks = Jobs \union Updates /\ Jobs \intersect Updates = {} /\ Overriding \subseteq Jobs /\ 0 \notin Tasks
  BY DEF Tasks, CheckoutAssumed
<1> DEFINE roles == IF p \in staged THEN tree.head ELSE Torn
           place == IF p \in Jobs THEN "copying" ELSE "leaving"
           kept(c) == IF c = work[p].row.last_job THEN caches[c] ELSE 0
           installed == [c \in Caches |-> IF c = CacheId(p) /\ p \notin Overriding THEN roles ELSE kept(c)]
<1>1. /\ at[p] = "installing" /\ at' = [at EXCEPT ![p] = place] /\ work' = work
      /\ caches' = IF "install" \notin work[p].tags THEN caches ELSE installed
      /\ result' = IF p \in Overriding THEN [result EXCEPT ![p].roles = roles] ELSE result
      /\ unsure' = IF "install" \in work[p].tags /\ p \notin Overriding /\ p \in unsure THEN unsure \union {CacheId(p)} ELSE unsure
      /\ staged' = {}
      /\ UNCHANGED <<remote, project, tree, lock, gaveUp, intruded, interrupts>>
  BY DEF Install, Move, row, Caches
<1>2. /\ work[p] \in WorkRow /\ tree.head \in Nat /\ Torn \in Nat /\ roles \in Nat
      /\ (p \in Jobs /\ place = "copying") \/ (p \in Updates /\ p \notin Jobs /\ place = "leaving")
      /\ p \in staged => roles = tree.head
  BY <1>0, SpoiltCopies DEF CheckoutTypes
<1> HIDE DEF roles, place
<1>6. /\ caches' \in [Caches -> Nat]
      /\ "install" \notin work[p].tags => caches' = caches
      /\ \A c \in Caches : caches'[c] \in {0, caches[c]} \/ (c = CacheId(p) /\ p \notin Overriding /\ "install" \in work[p].tags)
      /\ "install" \in work[p].tags /\ p \notin Overriding /\ CacheId(p) \in Caches => caches'[CacheId(p)] = roles
  <2>1. caches \in [Caches -> Nat]
    BY DEF CheckoutTypes
  <2>2. installed \in [Caches -> Nat]
    BY <1>2, <2>1
  <2>3. \A c \in Caches : installed[c] \in {0, caches[c]} \/ (c = CacheId(p) /\ p \notin Overriding)
    BY <2>1
  <2>4. p \notin Overriding /\ CacheId(p) \in Caches => installed[CacheId(p)] = roles
    OBVIOUS
  <2> HIDE DEF installed
  <2> QED
    BY <1>1, <2>1, <2>2, <2>3, <2>4
<1> HIDE DEF kept, installed
<1>7. /\ result' \in Results
      /\ \A q \in Jobs : /\ result'[q].files = result[q].files /\ result'[q].revision = result[q].revision
                         /\ q # p => result'[q].roles = result[q].roles
      /\ p \in Overriding => result'[p].roles = roles
  BY <1>0, <1>1, <1>2 DEF CheckoutTypes, Results
<1>3. CheckoutTypes' /\ OnlyMoves(p) /\ at'[p] = place /\ work'[p] = work[p]
  BY <1>0, <1>1, <1>2, <1>6, <1>7, MovesAfter DEF CheckoutTypes, UpdatePlaces, JobPlaces, Results
<1>4. ~intruded' => \A q \in Tasks \ {p} : q \in gaveUp \/ at[q] \notin Locked
  <2> SUFFICES ASSUME ~intruded' PROVE \A q \in Tasks \ {p} : q \in gaveUp \/ at[q] \notin Locked
    OBVIOUS
  <2>1. HasLock(p)
    BY <1>1 DEF LockHeld, HasLock, Locked, Playing
  <2> QED
    BY <2>1, Alone
<1>8. p \in Jobs => CacheId(p) = work[p].row.last_job
  BY <1>0 DEF CacheId
<1>5. /\ at[p] = "installing" /\ staged' = {}
      /\ \A q \in Jobs : /\ result'[q].files = result[q].files /\ result'[q].revision = result[q].revision
                         /\ q # p => result'[q].roles = result[q].roles
      /\ unsure \subseteq unsure' /\ unsure' \subseteq unsure \union {CacheId(p)} /\ (unsure' # unsure => p \in unsure /\ "install" \in work[p].tags)
      /\ "install" \in work[p].tags /\ p \notin Overriding /\ p \in unsure => CacheId(p) \in unsure'
      /\ UNCHANGED <<remote, project, tree, lock, gaveUp, intruded, interrupts>>
  BY <1>1, <1>7
<1>9. gaveUp \subseteq gaveUp' /\ unsure \subseteq unsure' /\ (~intruded' => ~intruded) /\ (interrupts > 0 => interrupts' > 0)
  BY <1>0, <1>5, <1>2 DEF CheckoutTypes
<1>10. LockHeld'
  BY <1>0, <1>5, <1>3, <1>2 DEF OnlyMoves, LockHeld, HasLock, Locked, Playing
<1>11. InOrder'
  <2>1. Sequential'
    BY <1>0, <1>5, <1>3 DEF OnlyMoves, InOrder, Sequential
  <2>2. InPlace(p)'
    BY <1>0, <1>5, <1>3, <1>2 DEF InOrder, InPlace, Playing
  <2> QED
    BY <1>0, <1>3, <2>1, <2>2, PlacesKept
<1>12. HeadKnown'
  <2>1. ASSUME ~intruded' PROVE TornKnown'
    BY <1>0, <1>5, <1>3, <1>2, <1>9, <2>1 DEF OnlyMoves, HeadKnown, TornKnown
  <2>2. ASSUME ~intruded', p \notin gaveUp' PROVE HeadFor(p)'
    BY <1>0, <1>5, <1>3, <1>2, <1>9, <2>2 DEF HeadKnown, HeadFor
  <2>3. \A q \in Tasks \ {p} : ~intruded' /\ q \notin gaveUp /\ at[q] \in Locked =>
            tree'.head = tree.head /\ (q \in Jobs => result'[q].revision = result[q].revision)
    BY <1>0, <1>5, <1>3, <1>2, <1>9
  <2> QED
    BY <1>0, <1>3, <1>9, <2>1, <2>2, <2>3, HeadKept
<1>13. FilesRecorded'
  <2>1. \A q \in Jobs \ {p} : ~intruded' /\ Copied(q) => result'[q].files = result[q].files /\ result'[q].revision = result[q].revision
    BY <1>0, <1>5, <1>3, <1>2, <1>9
  <2>2. p \in Jobs /\ ~intruded' /\ Copied(p)' =>
            result'[p].files = result'[p].revision \/ (interrupts' > 0 /\ result'[p].files = Torn)
    BY <1>0, <1>5, <1>3, <1>2 DEF Copied
  <2> QED
    BY <1>0, <1>3, <1>9, <2>1, <2>2, FilesKept
<1>20. ASSUME RolesInv, ~intruded', interrupts' = 0 PROVE RolesParts'
  <2>1. ~intruded /\ interrupts = 0 /\ RolesParts
    BY <1>5, <1>2, <1>20 DEF RolesInv
  <2>7. /\ HeadFor(p) /\ InPlace(p) /\ roles = tree.head /\ p \notin gaveUp
        /\ p \in Jobs => Named(CacheId(p)) /\ CacheId(p) \in Caches
    <3>1. p \notin gaveUp
      BY <1>0, <1>5, <2>1 DEF LockHeld, Playing
    <3>2. p \in staged
      BY <1>5, <2>1, <3>1 DEF RolesParts, StageHeld, Playing
    <3>3. HeadFor(p) /\ InPlace(p)
      BY <2>1, <3>1 DEF HeadKnown, InOrder
    <3>4. p \in Jobs => Named(CacheId(p)) /\ CacheId(p) \in Caches
      BY <1>2, <1>5, <1>8, <2>1 DEF RolesParts, UpdatesSave, WorkRow, ProjectRow
    <3> QED
      BY <1>2, <3>1, <3>2, <3>3, <3>4
  <2>2. RowsAgree' /\ CachesAgree'
    <3>1. \A q \in Jobs : Sure(q)' => Sure(q) /\ work'[q].row = work[q].row
      BY <1>0, <1>2, <1>3, <1>5 DEF Sure, OnlyMoves
    <3>2. RowsAgree'
      BY <1>5, <2>1, <3>1 DEF RolesParts, RowsAgree
    <3>3. ASSUME NEW r \in ProjectRow, CacheOf(r), Named(r.last_job), r.last_job \notin unsure', caches'[r.last_job] # 0,
                 p \in Jobs /\ Sure(p) /\ work[p].row.last_job = r.last_job => work[p].row.revision = r.revision
          PROVE  caches'[r.last_job] = r.revision
      <4>1. r.last_job \in Caches
        BY DEF ProjectRow
      <4>2. CASE caches'[r.last_job] = caches[r.last_job]
        BY <1>5, <3>3, <4>2 DEF CacheOf
      <4>3. CASE caches'[r.last_job] # caches[r.last_job]
        <5>1. r.last_job = CacheId(p) /\ p \notin Overriding /\ "install" \in work[p].tags
          BY <1>6, <3>3, <4>1, <4>3
        <5>2. p \in Jobs /\ p \notin unsure
          <6>1. p \in Updates => CacheId(p) = p
            BY DEF CacheId
          <6> QED
            BY <1>0, <1>5, <3>3, <5>1, <6>1 DEF Named
        <5>3. Sure(p) /\ RowFor(p)
          BY <1>5, <2>1, <2>7, <5>1, <5>2 DEF Sure, RolesParts, RowKept
        <5>4. caches'[r.last_job] = work[p].row.revision
          BY <1>5, <1>6, <2>7, <4>1, <5>1, <5>2, <5>3 DEF HeadFor, RowFor, Syncing, Playing
        <5> QED
          BY <1>8, <3>3, <5>1, <5>2, <5>3, <5>4
      <4> QED
        BY <4>2, <4>3
    <3>4. ~project.half => CacheOf(project)'
      BY <1>5, <2>1, <3>3 DEF RolesParts, RowsAgree, CachesAgree, UpdatesSave, CacheOf, CheckoutTypes
    <3>5. ASSUME NEW j \in Jobs, Sure(j)' PROVE CacheOf(work[j].row)'
      <4>1. Sure(j) /\ work'[j].row = work[j].row /\ work[j].row \in ProjectRow /\ at[j] # "new"
        BY <1>0, <3>1, <3>5 DEF CheckoutTypes, WorkRow, Sure
      <4>2. CacheOf(work[j].row) /\ Named(work[j].row.last_job)
        BY <2>1, <4>1 DEF RolesParts, CachesAgree, UpdatesSave
      <4>3. p \in Jobs /\ Sure(p) /\ work[p].row.last_job = work[j].row.last_job => work[p].row.revision = work[j].row.revision
        BY <2>1, <4>1 DEF RolesParts, RowsAgree
      <4> QED
        BY <3>3, <4>1, <4>2, <4>3 DEF CacheOf
    <3>6. CachesAgree'
      BY <1>5, <3>4, <3>5 DEF CachesAgree
    <3> QED
      BY <3>2, <3>6
  <2>3. UpdatesSave'
    <3>1. p \in Jobs /\ at'[p] # "new" => Named(work'[p].row.last_job)
      BY <1>0, <1>5, <1>3, <1>2, <2>1 DEF RolesParts, UpdatesSave, Named
    <3>2. p \in Updates => SaveFor(p)'
      <4> SUFFICES ASSUME p \in Updates PROVE SaveFor(p)'
        OBVIOUS
      <4>1. p \notin Overriding /\ CacheId(p) = p /\ p \in Caches /\ "install" \in work[p].tags
        BY <1>0, <1>5, <2>7 DEF CacheId, Caches, InPlace, Playing
      <4>2. caches'[p] = work[p].target /\ work[p].outcome = "successful"
        BY <1>5, <1>6, <2>7, <4>1 DEF HeadFor, InPlace, Playing
      <4>3. p \notin unsure'
        BY <1>5, <2>1 DEF RolesParts, UpdatesSave, SaveFor
      <4> QED
        BY <1>0, <1>2, <1>3, <4>2, <4>3 DEF SaveFor
    <3>3. at[p] # "done" /\ \A v \in Updates : v \in unsure' => v \in unsure \/ at[v] = "done"
      <4>1. \A u \in Updates : u \in unsure' /\ u \notin unsure => u = CacheId(p) /\ p \in unsure
        BY <1>5
      <4>2. p \in Updates => p \notin unsure
        BY <1>5, <2>1 DEF RolesParts, UpdatesSave, SaveFor
      <4> QED
        BY <1>0, <1>5, <2>7, <4>1, <4>2 DEF Named, CheckoutAssumed
    <3>4. \A u \in Updates \ {p} : caches'[u] \in {0, caches[u]} \/ at[u] = "done"
      <4>1. \A u \in Updates \ {p} : u = CacheId(p) => p \in Jobs
        BY <1>0 DEF CacheId
      <4> QED
        BY <1>6, <2>7, <4>1 DEF Named, Caches, CheckoutAssumed
    <3> QED
      BY <1>0, <1>5, <1>3, <1>2, <2>1, <3>1, <3>2, <3>3, <3>4, UpdatesKept DEF RolesParts
  <2>4. StageHeld'
    <3>1. \A q \in Tasks \ {p} : q \notin gaveUp /\ at[q] \in Locked => staged \subseteq staged'
      BY <1>4, <1>20
    <3>2. at'[p] \in Playing => p \in staged'
      BY <1>2, <1>3 DEF Playing
    <3> QED
      BY <1>0, <1>3, <1>9, <2>1, <3>1, <3>2, StageKept DEF RolesParts
  <2>5. RowKept'
    <3>1. \A q \in Jobs \ {p} : q \notin gaveUp /\ at[q] \in Locked => result'[q].revision = result[q].revision /\ caches' = caches
      BY <1>0, <1>4, <1>20
    <3>2. ASSUME p \in Jobs, p \notin gaveUp', p \notin unsure', p \notin Overriding PROVE RowFor(p)'
      <4>1. RowFor(p) /\ tree.head = work[p].row.revision /\ place = "copying"
        BY <1>0, <1>2, <1>5, <2>1, <2>7, <3>2 DEF RolesParts, RowKept, RowFor, HeadFor, Syncing, Playing
      <4>2. work[p].row.last_job \in unsure' \/ caches'[work[p].row.last_job] = work[p].row.revision
        <5>1. CASE "install" \in work[p].tags
          BY <1>6, <1>8, <2>7, <3>2, <4>1, <5>1
        <5>2. CASE "install" \notin work[p].tags
          <6>1. caches' = caches /\ caches[work[p].row.last_job] # 0 /\ Sure(p)
            BY <1>5, <1>6, <3>2, <4>1, <5>2 DEF RowFor, Syncing, Playing, Sure
          <6> QED
            BY <1>5, <2>1, <3>2, <6>1 DEF RolesParts, CachesAgree, CacheOf
        <5> QED
          BY <5>1, <5>2
      <4> QED
        BY <1>3, <1>5, <3>2, <4>1, <4>2 DEF RowFor, Syncing, Playing
    <3> QED
      BY <1>0, <1>3, <1>9, <2>1, <3>1, <3>2, RowForKept DEF RolesParts
  <2>6. RolesFound'
    <3>1. \A q \in Jobs \ {p} : at[q] = "playing" \/ (q \notin gaveUp /\ at[q] \in Locked) =>
              result'[q].revision = result[q].revision /\ result'[q].roles = result[q].roles
      BY <1>0, <1>5
    <3>2. p \in Jobs => RolesFor(p)'
      <4>1. p \in Overriding => result'[p].roles = result'[p].revision
        BY <1>0, <1>5, <1>7, <2>7 DEF HeadFor
      <4> QED
        BY <1>2, <1>3, <4>1 DEF RolesFor, Copied
    <3> QED
      BY <1>0, <1>3, <1>9, <2>1, <3>1, <3>2, RolesKept DEF RolesParts
  <2> QED
    BY <2>2, <2>3, <2>4, <2>5, <2>6 DEF RolesParts
<1> QED
  BY <1>3, <1>10, <1>11, <1>12, <1>13, <1>20 DEF RolesInv

LEMMA BeginCopyHolds == ASSUME CheckoutAssumed, CheckoutInv, NEW j \in Jobs, BeginCopy(j) PROVE CheckoutInv'
<1> USE DEF CheckoutInv, FilesInv
<1>0. Tasks = Jobs \union Updates /\ Jobs \intersect Updates = {} /\ Overriding \subseteq Jobs /\ 0 \notin Tasks
  BY DEF Tasks, CheckoutAssumed
<1> DEFINE files == IF tree.torn THEN Torn ELSE tree.head
           roles == IF j \in Overriding THEN result[j].roles ELSE caches[CacheId(j)]
<1>1. /\ at[j] = "copying" /\ at' = [at EXCEPT ![j] = "copied"] /\ work' = work
      /\ result' = [result EXCEPT ![j].files = files, ![j].roles = roles]
      /\ unsure' = IF j \notin Overriding /\ CacheId(j) \in unsure THEN unsure \union {j} ELSE unsure
      /\ UNCHANGED <<remote, project, tree, caches, staged, lock, gaveUp, intruded, interrupts>>
  <2>1. result \in Results
    BY DEF CheckoutTypes, Results
  <2>2. result' = [result EXCEPT ![j].files = files, ![j].roles = roles]
    BY <2>1 DEF BeginCopy, Results
  <2> QED
    BY <2>2 DEF BeginCopy, Move, row, local
<1>2. /\ files \in Nat /\ roles \in Nat /\ CacheId(j) = work[j].row.last_job /\ work[j] \in WorkRow
      /\ files = tree.head \/ (tree.torn /\ files = Torn)
      /\ j \notin Overriding => roles = caches[work[j].row.last_job]
      /\ j \in Overriding => roles = result[j].roles
  <2>1. CacheId(j) = work[j].row.last_job /\ work[j] \in WorkRow
    BY <1>0 DEF CheckoutTypes, CacheId
  <2>2. work[j].row.last_job \in Caches
    BY <2>1 DEF WorkRow, ProjectRow
  <2>3. caches[work[j].row.last_job] \in Nat /\ tree \in [head : Nat, torn : BOOLEAN] /\ result[j].roles \in Nat /\ Torn \in Nat
    BY <2>2, SpoiltCopies DEF CheckoutTypes
  <2> QED
    BY <2>1, <2>3
<1> HIDE DEF files, roles
<1>6. /\ result' \in Results /\ result'[j].files = files /\ result'[j].roles = roles /\ result'[j].revision = result[j].revision
      /\ \A q \in Jobs \ {j} : result'[q] = result[q]
  BY <1>1, <1>2 DEF CheckoutTypes, Results
<1>3. CheckoutTypes' /\ OnlyMoves(j) /\ at'[j] = "copied" /\ work'[j] = work[j]
  BY <1>0, <1>1, <1>6, MovesAfter DEF CheckoutTypes, UpdatePlaces, JobPlaces, Results
<1>5. /\ at[j] = "copying" /\ unsure \subseteq unsure' /\ unsure' \subseteq unsure \union {j}
      /\ j \notin unsure' => j \in Overriding \/ work[j].row.last_job \notin unsure
      /\ result'[j].files = files /\ result'[j].roles = roles /\ result'[j].revision = result[j].revision
      /\ \A q \in Jobs \ {j} : result'[q] = result[q]
      /\ UNCHANGED <<remote, project, tree, caches, staged, lock, gaveUp, intruded, interrupts>>
  BY <1>1, <1>2, <1>6
<1>9. gaveUp \subseteq gaveUp' /\ unsure \subseteq unsure' /\ (~intruded' => ~intruded) /\ (interrupts > 0 => interrupts' > 0)
  BY <1>0, <1>5 DEF CheckoutTypes
<1>10. LockHeld'
  BY <1>0, <1>5, <1>3 DEF OnlyMoves, LockHeld, HasLock, Locked, Playing
<1>11. InOrder'
  <2>1. Sequential'
    BY <1>0, <1>5, <1>3 DEF OnlyMoves, InOrder, Sequential
  <2>2. InPlace(j)'
    BY <1>0, <1>5, <1>3 DEF InOrder, InPlace, Playing
  <2> QED
    BY <1>0, <1>3, <2>1, <2>2, PlacesKept
<1>12. HeadKnown'
  <2>1. ASSUME ~intruded' PROVE TornKnown'
    BY <1>0, <1>5, <1>3, <1>9, <2>1 DEF OnlyMoves, HeadKnown, TornKnown
  <2>2. ASSUME ~intruded', j \notin gaveUp' PROVE HeadFor(j)'
    BY <1>0, <1>5, <1>3, <1>9, <2>2 DEF HeadKnown, HeadFor
  <2>3. \A q \in Tasks \ {j} : ~intruded' /\ q \notin gaveUp /\ at[q] \in Locked =>
            tree'.head = tree.head /\ (q \in Jobs => result'[q].revision = result[q].revision)
    BY <1>0, <1>5, <1>3, <1>9
  <2> QED
    BY <1>0, <1>3, <1>9, <2>1, <2>2, <2>3, HeadKept
<1>13. FilesRecorded'
  <2>1. \A q \in Jobs \ {j} : ~intruded' /\ Copied(q) => result'[q].files = result[q].files /\ result'[q].revision = result[q].revision
    BY <1>0, <1>5, <1>3, <1>9
  <2>2. j \in Jobs /\ ~intruded' /\ Copied(j)' =>
            result'[j].files = result'[j].revision \/ (interrupts' > 0 /\ result'[j].files = Torn)
    <3> SUFFICES ASSUME ~intruded, j \notin gaveUp
                 PROVE  result'[j].files = result'[j].revision \/ (interrupts' > 0 /\ result'[j].files = Torn)
      BY <1>3, <1>5 DEF Copied
    <3>1. tree.head = result[j].revision /\ TornKnown
      BY <1>0, <1>5 DEF HeadKnown, HeadFor
    <3>2. ASSUME NEW q \in Tasks, at[q] = "checkout" PROVE FALSE
      <4>1. HasLock(q) /\ HasLock(j)
        BY <1>0, <1>5, <3>2 DEF LockHeld, HasLock, Locked, Playing
      <4> QED
        BY <1>0, <1>5, <3>2, <4>1 DEF LockHeld
    <3> QED
      BY <1>2, <1>5, <3>1, <3>2 DEF TornKnown
  <2> QED
    BY <1>0, <1>3, <1>9, <2>1, <2>2, FilesKept
<1>20. ASSUME RolesInv, ~intruded', interrupts' = 0 PROVE RolesParts'
  <2>1. ~intruded /\ interrupts = 0 /\ RolesParts
    BY <1>5, <1>20 DEF RolesInv
  <2>2. RowsAgree' /\ CachesAgree'
    <3>1. j \in Jobs /\ Sure(j)' => Sure(j) /\ work'[j].row = work[j].row
      BY <1>0, <1>5, <1>3 DEF Sure
    <3> QED
      BY <1>0, <1>5, <1>3, <1>9, <2>1, <3>1, RowsKept DEF RolesParts
  <2>3. UpdatesSave'
    <3>1. j \in Jobs /\ at'[j] # "new" => Named(work'[j].row.last_job)
      BY <1>0, <1>5, <1>3, <2>1 DEF RolesParts, UpdatesSave, Named
    <3>2. j \in Updates => SaveFor(j)'
      BY <1>0, <1>5, <1>3, <2>1 DEF RolesParts, UpdatesSave, SaveFor
    <3>3. at[j] # "done" /\ \A v \in Updates : v \in unsure' => v \in unsure \/ at[v] = "done"
      BY <1>0, <1>5
    <3>4. \A u \in Updates \ {j} : caches'[u] \in {0, caches[u]} \/ at[u] = "done"
      BY <1>5
    <3> QED
      BY <1>0, <1>5, <1>3, <2>1, <3>1, <3>2, <3>3, <3>4, UpdatesKept DEF RolesParts
  <2>4. StageHeld'
    <3>1. \A q \in Tasks \ {j} : q \notin gaveUp /\ at[q] \in Locked => staged \subseteq staged'
      BY <1>5
    <3>2. at'[j] \in Playing => j \in staged'
      BY <1>0, <1>5, <1>3, <2>1 DEF RolesParts, StageHeld, Playing
    <3> QED
      BY <1>0, <1>3, <1>9, <2>1, <3>1, <3>2, StageKept DEF RolesParts
  <2>5. RowKept'
    <3>1. \A q \in Jobs \ {j} : q \notin gaveUp /\ at[q] \in Locked => result'[q].revision = result[q].revision /\ caches' = caches
      BY <1>0, <1>5, <1>3
    <3>2. ASSUME j \in Jobs, j \notin gaveUp', j \notin unsure', j \notin Overriding PROVE RowFor(j)'
      BY <1>0, <1>5, <1>3, <2>1, <1>9, <3>2 DEF RolesParts, RowKept, RowFor, Playing, Syncing
    <3> QED
      BY <1>0, <1>3, <1>9, <2>1, <3>1, <3>2, RowForKept DEF RolesParts
  <2>6. RolesFound'
    <3>1. \A q \in Jobs \ {j} : at[q] = "playing" \/ (q \notin gaveUp /\ at[q] \in Locked) =>
              result'[q].revision = result[q].revision /\ result'[q].roles = result[q].roles
      BY <1>0, <1>5, <1>3
    <3>2. j \in Jobs => RolesFor(j)'
      <4> SUFFICES ASSUME j \notin unsure', j \notin gaveUp PROVE result'[j].roles = result'[j].revision
        BY <1>3, <1>5 DEF RolesFor, Copied
      <4>1. CASE j \in Overriding
        BY <1>2, <1>5, <2>1, <4>1 DEF RolesParts, RolesFound, RolesFor
      <4>2. CASE j \notin Overriding
        <5>1. RowFor(j) /\ work[j].row.last_job \notin unsure
          BY <1>5, <2>1, <4>2 DEF RolesParts, RowKept
        <5> QED
          BY <1>2, <1>5, <4>2, <5>1 DEF RowFor
      <4> QED
        BY <4>1, <4>2
    <3> QED
      BY <1>0, <1>3, <1>9, <2>1, <3>1, <3>2, RolesKept DEF RolesParts
  <2> QED
    BY <2>2, <2>3, <2>4, <2>5, <2>6 DEF RolesParts
<1> QED
  BY <1>3, <1>10, <1>11, <1>12, <1>13, <1>20 DEF RolesInv

LEMMA LeaveJobHolds == ASSUME CheckoutAssumed, CheckoutInv, NEW j \in Jobs, LeaveJob(j), tree' = tree, intruded' = intruded, result' = [result EXCEPT ![j] = IF Plays(j) THEN @ ELSE Nothing] PROVE CheckoutInv'
<1> USE DEF CheckoutInv, FilesInv
<1>0. Tasks = Jobs \union Updates /\ Jobs \intersect Updates = {} /\ Overriding \subseteq Jobs /\ 0 \notin Tasks
  BY DEF Tasks, CheckoutAssumed
<1> DEFINE place == IF Plays(j) THEN "playing" ELSE "over"
<1>1. /\ at[j] \in {"copied", "leaving"} /\ at' = [at EXCEPT ![j] = place] /\ work' = [work EXCEPT ![j] = Blank]
      /\ lock' = Free(j)
      /\ UNCHANGED <<remote, project, tree, caches, staged, gaveUp, intruded, unsure, interrupts>>
  BY DEF LeaveJob, Move, row
<1>2. /\ Blank \in WorkRow /\ Blank.row.last_job = 0
      /\ (Plays(j) /\ place = "playing" /\ at[j] = "copied" /\ j \notin gaveUp) \/ (~Plays(j) /\ place = "over")
  <2>1. at[j] = "leaving" => ~Plays(j)
    BY <1>0 DEF InOrder, InPlace, Plays
  <2> QED
    BY <1>1, <2>1, NewFields DEF Plays, Blank
<1> HIDE DEF place
<1>6. /\ result' \in Results /\ (Plays(j) => result'[j] = result[j])
      /\ \A q \in Jobs \ {j} : result'[q] = result[q]
  BY DEF Nothing, CheckoutTypes, Results
<1>7. place \in JobPlaces /\ j \notin Updates
  BY <1>0, <1>2 DEF JobPlaces
<1>3. CheckoutTypes' /\ OnlyMoves(j) /\ at'[j] = place /\ work'[j] = Blank
  BY <1>0, <1>1, <1>2, <1>6, <1>7, TypesAfter DEF CheckoutTypes, Results
<1>5. /\ at[j] \in {"copied", "leaving"} /\ lock' = Free(j)
      /\ (Plays(j) => result'[j] = result[j]) /\ \A q \in Jobs \ {j} : result'[q] = result[q]
      /\ UNCHANGED <<remote, project, tree, caches, staged, gaveUp, intruded, unsure, interrupts>>
  BY <1>1, <1>6
<1>9. gaveUp \subseteq gaveUp' /\ unsure \subseteq unsure' /\ (~intruded' => ~intruded) /\ (interrupts > 0 => interrupts' > 0)
  BY <1>0, <1>5, <1>2 DEF CheckoutTypes
<1>10. LockHeld'
  BY <1>0, <1>2, <1>3, <1>5 DEF OnlyMoves, LockHeld, HasLock, Locked, Playing, Free, Unlocked
<1>11. InOrder'
  <2>1. Sequential'
    BY <1>0, <1>5, <1>3 DEF OnlyMoves, InOrder, Sequential
  <2>2. InPlace(j)'
    BY <1>0, <1>5, <1>3, <1>2 DEF InOrder, InPlace, Playing
  <2> QED
    BY <1>0, <1>3, <2>1, <2>2, PlacesKept
<1>12. HeadKnown'
  <2>1. ASSUME ~intruded' PROVE TornKnown'
    BY <1>0, <1>5, <1>3, <1>2, <1>9, <2>1 DEF OnlyMoves, HeadKnown, TornKnown
  <2>2. ASSUME ~intruded', j \notin gaveUp' PROVE HeadFor(j)'
    BY <1>0, <1>5, <1>3, <1>2, <1>9, <2>2 DEF HeadKnown, HeadFor
  <2>3. \A q \in Tasks \ {j} : ~intruded' /\ q \notin gaveUp /\ at[q] \in Locked =>
            tree'.head = tree.head /\ (q \in Jobs => result'[q].revision = result[q].revision)
    BY <1>0, <1>5, <1>3, <1>2, <1>9
  <2> QED
    BY <1>0, <1>3, <1>9, <2>1, <2>2, <2>3, HeadKept
<1>13. FilesRecorded'
  <2>1. \A q \in Jobs \ {j} : ~intruded' /\ Copied(q) => result'[q].files = result[q].files /\ result'[q].revision = result[q].revision
    BY <1>0, <1>5, <1>3, <1>2, <1>9
  <2>2. j \in Jobs /\ ~intruded' /\ Copied(j)' =>
            result'[j].files = result'[j].revision \/ (interrupts' > 0 /\ result'[j].files = Torn)
    BY <1>2, <1>3, <1>5, <1>9 DEF FilesRecorded, Copied
  <2> QED
    BY <1>0, <1>3, <1>9, <2>1, <2>2, FilesKept
<1>20. ASSUME RolesInv, ~intruded', interrupts' = 0 PROVE RolesParts'
  <2>1. ~intruded /\ interrupts = 0 /\ RolesParts
    BY <1>5, <1>2, <1>20 DEF RolesInv
  <2>2. RowsAgree' /\ CachesAgree'
    <3>1. j \in Jobs /\ Sure(j)' => Sure(j) /\ work'[j].row = work[j].row
      BY <1>0, <1>5, <1>3, <1>2 DEF Sure
    <3> QED
      BY <1>0, <1>5, <1>3, <1>9, <2>1, <3>1, RowsKept DEF RolesParts
  <2>3. UpdatesSave'
    <3>1. j \in Jobs /\ at'[j] # "new" => Named(work'[j].row.last_job)
      BY <1>2, <1>3 DEF Named
    <3>2. j \in Updates => SaveFor(j)'
      BY <1>0, <1>5, <1>3, <1>2, <2>1 DEF RolesParts, UpdatesSave, SaveFor
    <3>3. at[j] # "done" /\ \A v \in Updates : v \in unsure' => v \in unsure \/ at[v] = "done"
      BY <1>0, <1>5, <1>2
    <3>4. \A u \in Updates \ {j} : caches'[u] \in {0, caches[u]} \/ at[u] = "done"
      BY <1>5
    <3> QED
      BY <1>0, <1>5, <1>3, <1>2, <2>1, <3>1, <3>2, <3>3, <3>4, UpdatesKept DEF RolesParts
  <2>4. StageHeld'
    <3>1. \A q \in Tasks \ {j} : q \notin gaveUp /\ at[q] \in Locked => staged \subseteq staged'
      BY <1>5
    <3>2. at'[j] \in Playing => j \in staged'
      BY <1>0, <1>5, <1>3, <1>2, <2>1 DEF RolesParts, StageHeld, Playing
    <3> QED
      BY <1>0, <1>3, <1>9, <2>1, <3>1, <3>2, StageKept DEF RolesParts
  <2>5. RowKept'
    <3>1. \A q \in Jobs \ {j} : q \notin gaveUp /\ at[q] \in Locked => result'[q].revision = result[q].revision /\ caches' = caches
      BY <1>0, <1>5, <1>3, <1>2
    <3>2. ASSUME j \in Jobs, j \notin gaveUp', j \notin unsure', j \notin Overriding PROVE RowFor(j)'
      BY <1>0, <1>5, <1>3, <1>2, <2>1, <1>9, <3>2 DEF RolesParts, RowKept, RowFor, Playing, Syncing
    <3> QED
      BY <1>0, <1>3, <1>9, <2>1, <3>1, <3>2, RowForKept DEF RolesParts
  <2>6. RolesFound'
    <3>1. \A q \in Jobs \ {j} : at[q] = "playing" \/ (q \notin gaveUp /\ at[q] \in Locked) =>
              result'[q].revision = result[q].revision /\ result'[q].roles = result[q].roles
      BY <1>0, <1>5, <1>3, <1>2
    <3>2. j \in Jobs => RolesFor(j)'
      BY <1>2, <1>3, <1>5, <2>1 DEF RolesParts, RolesFound, RolesFor, Copied
    <3> QED
      BY <1>0, <1>3, <1>9, <2>1, <3>1, <3>2, RolesKept DEF RolesParts
  <2> QED
    BY <2>2, <2>3, <2>4, <2>5, <2>6 DEF RolesParts
<1> QED
  BY <1>3, <1>10, <1>11, <1>12, <1>13, <1>20 DEF RolesInv

LEMMA LeaveJobSetsBack == ASSUME CheckoutAssumed, CheckoutInv, NEW j \in Jobs, LeaveJob(j), tree' = [tree EXCEPT !.head = work[j].original], intruded' = (intruded \/ j \in gaveUp),
    result' = [Spoilt EXCEPT ![j] = IF Plays(j) THEN result[j] ELSE Nothing] PROVE CheckoutInv'
<1> USE DEF CheckoutInv, FilesInv
<1>0. Tasks = Jobs \union Updates /\ Jobs \intersect Updates = {} /\ Overriding \subseteq Jobs /\ 0 \notin Tasks
  BY DEF Tasks, CheckoutAssumed
<1> DEFINE place == IF Plays(j) THEN "playing" ELSE "over"
<1>1. /\ at[j] \in {"copied", "leaving"} /\ at' = [at EXCEPT ![j] = place] /\ work' = [work EXCEPT ![j] = Blank]
      /\ lock' = Free(j) /\ (~intruded' => ~intruded /\ j \notin gaveUp) /\ intruded' \in BOOLEAN
      /\ UNCHANGED <<remote, project, caches, staged, gaveUp, unsure, interrupts>>
  BY DEF LeaveJob, Move, row, CheckoutTypes
<1>2. /\ Blank \in WorkRow /\ Blank.row.last_job = 0
      /\ (Plays(j) /\ place = "playing" /\ at[j] = "copied" /\ j \notin gaveUp) \/ (~Plays(j) /\ place = "over")
  <2>1. at[j] = "leaving" => ~Plays(j)
    BY <1>0 DEF InOrder, InPlace, Plays
  <2> QED
    BY <1>1, <2>1, NewFields DEF Plays, Blank
<1> HIDE DEF place
<1>6. /\ result' \in Results /\ (Plays(j) => result'[j] = result[j])
      /\ \A q \in Jobs \ {j} : /\ at[q] # "copied" => result'[q] = result[q]
                               /\ result'[q].revision = result[q].revision /\ result'[q].roles = result[q].roles
  <2>1. Nothing \in [revision : Nat, files : Nat, roles : Nat] /\ result \in Results
    BY DEF Nothing, CheckoutTypes, Results
  <2>2. result' \in Results /\ (Plays(j) => result'[j] = result[j]) /\ \A q \in Jobs \ {j} : result'[q] = Spoilt[q]
    BY <2>1, SpoiltCopies DEF Results
  <2> QED
    BY <2>2, SpoiltCopies
<1>7. tree' \in [head : Nat, torn : BOOLEAN] /\ tree'.torn = tree.torn
  BY <1>0 DEF CheckoutTypes, WorkRow
<1>3. CheckoutTypes' /\ OnlyMoves(j) /\ at'[j] = place /\ work'[j] = Blank
  BY <1>0, <1>1, <1>2, <1>6, <1>7, TypesAfter DEF CheckoutTypes, UpdatePlaces, JobPlaces, Results
<1>4. ~intruded' => \A q \in Tasks \ {j} : q \in gaveUp \/ at[q] \notin Locked
  <2> SUFFICES ASSUME j \notin gaveUp PROVE \A q \in Tasks \ {j} : q \in gaveUp \/ at[q] \notin Locked
    BY <1>1
  <2>1. HasLock(j)
    BY <1>1 DEF HasLock, Locked
  <2> QED
    BY <1>0, <2>1, Alone
<1>5. /\ at[j] \in {"copied", "leaving"} /\ lock' = Free(j) /\ tree'.torn = tree.torn /\ (~intruded' => ~intruded)
      /\ Plays(j) => result'[j] = result[j]
      /\ \A q \in Jobs \ {j} : /\ at[q] # "copied" => result'[q] = result[q]
                               /\ result'[q].revision = result[q].revision /\ result'[q].roles = result[q].roles
      /\ UNCHANGED <<remote, project, caches, staged, gaveUp, unsure, interrupts>>
  BY <1>1, <1>6, <1>7
<1>9. gaveUp \subseteq gaveUp' /\ unsure \subseteq unsure' /\ (~intruded' => ~intruded) /\ (interrupts > 0 => interrupts' > 0)
  BY <1>0, <1>5, <1>2 DEF CheckoutTypes
<1>10. LockHeld'
  BY <1>0, <1>2, <1>3, <1>5 DEF OnlyMoves, LockHeld, HasLock, Locked, Playing, Free, Unlocked
<1>11. InOrder'
  <2>1. Sequential'
    BY <1>0, <1>5, <1>3 DEF OnlyMoves, InOrder, Sequential
  <2>2. InPlace(j)'
    BY <1>0, <1>5, <1>3, <1>2 DEF InOrder, InPlace, Playing
  <2> QED
    BY <1>0, <1>3, <2>1, <2>2, PlacesKept
<1>12. HeadKnown'
  <2>1. ASSUME ~intruded' PROVE TornKnown'
    BY <1>0, <1>5, <1>3, <1>2, <1>9, <2>1 DEF OnlyMoves, HeadKnown, TornKnown
  <2>2. ASSUME ~intruded', j \notin gaveUp' PROVE HeadFor(j)'
    BY <1>0, <1>5, <1>3, <1>2, <1>9, <2>2 DEF HeadKnown, HeadFor
  <2>3. \A q \in Tasks \ {j} : ~intruded' /\ q \notin gaveUp /\ at[q] \in Locked =>
            tree'.head = tree.head /\ (q \in Jobs => result'[q].revision = result[q].revision)
    BY <1>4
  <2> QED
    BY <1>0, <1>3, <1>9, <2>1, <2>2, <2>3, HeadKept
<1>13. FilesRecorded'
  <2>1. \A q \in Jobs \ {j} : ~intruded' /\ Copied(q) => result'[q].files = result[q].files /\ result'[q].revision = result[q].revision
    BY <1>0, <1>4, <1>5, <1>9 DEF Copied, Locked, Tasks
  <2>2. j \in Jobs /\ ~intruded' /\ Copied(j)' =>
            result'[j].files = result'[j].revision \/ (interrupts' > 0 /\ result'[j].files = Torn)
    BY <1>2, <1>3, <1>5, <1>9 DEF FilesRecorded, Copied
  <2> QED
    BY <1>0, <1>3, <1>9, <2>1, <2>2, FilesKept
<1>20. ASSUME RolesInv, ~intruded', interrupts' = 0 PROVE RolesParts'
  <2>1. ~intruded /\ interrupts = 0 /\ RolesParts
    BY <1>5, <1>2, <1>20 DEF RolesInv
  <2>2. RowsAgree' /\ CachesAgree'
    <3>1. j \in Jobs /\ Sure(j)' => Sure(j) /\ work'[j].row = work[j].row
      BY <1>0, <1>5, <1>3, <1>2 DEF Sure
    <3> QED
      BY <1>0, <1>5, <1>3, <1>9, <2>1, <3>1, RowsKept DEF RolesParts
  <2>3. UpdatesSave'
    <3>1. j \in Jobs /\ at'[j] # "new" => Named(work'[j].row.last_job)
      BY <1>2, <1>3 DEF Named
    <3>2. j \in Updates => SaveFor(j)'
      BY <1>0, <1>5, <1>3, <1>2, <2>1 DEF RolesParts, UpdatesSave, SaveFor
    <3>3. at[j] # "done" /\ \A v \in Updates : v \in unsure' => v \in unsure \/ at[v] = "done"
      BY <1>0, <1>5, <1>2
    <3>4. \A u \in Updates \ {j} : caches'[u] \in {0, caches[u]} \/ at[u] = "done"
      BY <1>5
    <3> QED
      BY <1>0, <1>5, <1>3, <1>2, <2>1, <3>1, <3>2, <3>3, <3>4, UpdatesKept DEF RolesParts
  <2>4. StageHeld'
    <3>1. \A q \in Tasks \ {j} : q \notin gaveUp /\ at[q] \in Locked => staged \subseteq staged'
      BY <1>5
    <3>2. at'[j] \in Playing => j \in staged'
      BY <1>0, <1>5, <1>3, <1>2, <2>1 DEF RolesParts, StageHeld, Playing
    <3> QED
      BY <1>0, <1>3, <1>9, <2>1, <3>1, <3>2, StageKept DEF RolesParts
  <2>5. RowKept'
    <3>1. \A q \in Jobs \ {j} : q \notin gaveUp /\ at[q] \in Locked => result'[q].revision = result[q].revision /\ caches' = caches
      BY <1>0, <1>5, <1>3, <1>2
    <3>2. ASSUME j \in Jobs, j \notin gaveUp', j \notin unsure', j \notin Overriding PROVE RowFor(j)'
      BY <1>0, <1>5, <1>3, <1>2, <2>1, <1>9, <3>2 DEF RolesParts, RowKept, RowFor, Playing, Syncing
    <3> QED
      BY <1>0, <1>3, <1>9, <2>1, <3>1, <3>2, RowForKept DEF RolesParts
  <2>6. RolesFound'
    <3>1. \A q \in Jobs \ {j} : at[q] = "playing" \/ (q \notin gaveUp /\ at[q] \in Locked) =>
              result'[q].revision = result[q].revision /\ result'[q].roles = result[q].roles
      BY <1>0, <1>4, <1>5, <1>20 DEF Locked
    <3>2. j \in Jobs => RolesFor(j)'
      BY <1>2, <1>3, <1>5, <2>1 DEF RolesParts, RolesFound, RolesFor, Copied
    <3> QED
      BY <1>0, <1>3, <1>9, <2>1, <3>1, <3>2, RolesKept DEF RolesParts
  <2> QED
    BY <2>2, <2>3, <2>4, <2>5, <2>6 DEF RolesParts
<1> QED
  BY <1>3, <1>10, <1>11, <1>12, <1>13, <1>20 DEF RolesInv

LEMMA LeaveUpdateHolds == ASSUME CheckoutAssumed, CheckoutInv, NEW u \in Updates, LeaveUpdate(u) PROVE CheckoutInv'
<1> USE DEF CheckoutInv, FilesInv
<1>0. Tasks = Jobs \union Updates /\ Jobs \intersect Updates = {} /\ Overriding \subseteq Jobs /\ 0 \notin Tasks
  BY DEF Tasks, CheckoutAssumed
<1> DEFINE place == IF work[u].outcome \in {"successful", "error"} THEN "saving" ELSE "ending"
<1>1. /\ at[u] = "leaving" /\ at' = [at EXCEPT ![u] = place] /\ work' = work /\ lock' = Free(u)
      /\ UNCHANGED <<remote, project, tree, caches, staged, result, gaveUp, intruded, unsure, interrupts>>
  BY DEF LeaveUpdate, Move, row, local, ghosts
<1>2. place = "saving" \/ (place = "ending" /\ work[u].outcome # "successful")
  OBVIOUS
<1> HIDE DEF place
<1>3. CheckoutTypes' /\ OnlyMoves(u) /\ at'[u] = place /\ work'[u] = work[u]
  BY <1>0, <1>1, <1>2, MovesAfter DEF CheckoutTypes, UpdatePlaces, JobPlaces
<1>9. gaveUp \subseteq gaveUp' /\ unsure \subseteq unsure' /\ (~intruded' => ~intruded) /\ (interrupts > 0 => interrupts' > 0)
  BY <1>0, <1>1, <1>2 DEF CheckoutTypes
<1>10. LockHeld'
  BY <1>0, <1>1, <1>2, <1>3 DEF OnlyMoves, LockHeld, HasLock, Locked, Playing, Free, Unlocked
<1>11. InOrder'
  <2>1. Sequential'
    BY <1>0, <1>1, <1>3 DEF OnlyMoves, InOrder, Sequential
  <2>2. InPlace(u)'
    BY <1>0, <1>1, <1>3, <1>2 DEF InOrder, InPlace, Playing
  <2> QED
    BY <1>0, <1>3, <2>1, <2>2, PlacesKept
<1>12. HeadKnown'
  <2>1. ASSUME ~intruded' PROVE TornKnown'
    BY <1>0, <1>1, <1>3, <1>2, <1>9, <2>1 DEF OnlyMoves, HeadKnown, TornKnown
  <2>2. ASSUME ~intruded', u \notin gaveUp' PROVE HeadFor(u)'
    BY <1>0, <1>1, <1>3, <1>2, <1>9, <2>2 DEF HeadKnown, HeadFor
  <2>3. \A q \in Tasks \ {u} : ~intruded' /\ q \notin gaveUp /\ at[q] \in Locked =>
            tree'.head = tree.head /\ (q \in Jobs => result'[q].revision = result[q].revision)
    BY <1>0, <1>1, <1>3, <1>2, <1>9
  <2> QED
    BY <1>0, <1>3, <1>9, <2>1, <2>2, <2>3, HeadKept
<1>13. FilesRecorded'
  <2>1. \A q \in Jobs \ {u} : ~intruded' /\ Copied(q) => result'[q].files = result[q].files /\ result'[q].revision = result[q].revision
    BY <1>0, <1>1, <1>3, <1>2, <1>9
  <2>2. u \in Jobs /\ ~intruded' /\ Copied(u)' =>
            result'[u].files = result'[u].revision \/ (interrupts' > 0 /\ result'[u].files = Torn)
    BY <1>0, <1>1, <1>3, <1>2 DEF Copied
  <2> QED
    BY <1>0, <1>3, <1>9, <2>1, <2>2, FilesKept
<1>20. ASSUME RolesInv, ~intruded', interrupts' = 0 PROVE RolesParts'
  <2>1. ~intruded /\ interrupts = 0 /\ RolesParts
    BY <1>1, <1>2, <1>20 DEF RolesInv
  <2>2. RowsAgree' /\ CachesAgree'
    <3>1. u \in Jobs /\ Sure(u)' => Sure(u) /\ work'[u].row = work[u].row
      BY <1>0, <1>1, <1>3, <1>2 DEF Sure
    <3> QED
      BY <1>0, <1>1, <1>3, <1>9, <2>1, <3>1, RowsKept DEF RolesParts
  <2>3. UpdatesSave'
    <3>1. u \in Jobs /\ at'[u] # "new" => Named(work'[u].row.last_job)
      BY <1>0, <1>1, <1>3, <1>2, <2>1 DEF RolesParts, UpdatesSave, Named
    <3>2. u \in Updates => SaveFor(u)'
      BY <1>0, <1>1, <1>3, <1>2, <2>1 DEF RolesParts, UpdatesSave, SaveFor
    <3>3. at[u] # "done" /\ \A v \in Updates : v \in unsure' => v \in unsure \/ at[v] = "done"
      BY <1>0, <1>1, <1>2
    <3>4. \A v \in Updates \ {u} : caches'[v] \in {0, caches[v]} \/ at[v] = "done"
      BY <1>1
    <3> QED
      BY <1>0, <1>1, <1>3, <1>2, <2>1, <3>1, <3>2, <3>3, <3>4, UpdatesKept DEF RolesParts
  <2>4. StageHeld'
    <3>1. \A q \in Tasks \ {u} : q \notin gaveUp /\ at[q] \in Locked => staged \subseteq staged'
      BY <1>1
    <3>2. at'[u] \in Playing => u \in staged'
      BY <1>0, <1>1, <1>3, <1>2, <2>1 DEF RolesParts, StageHeld, Playing
    <3> QED
      BY <1>0, <1>3, <1>9, <2>1, <3>1, <3>2, StageKept DEF RolesParts
  <2>5. RowKept'
    <3>1. \A q \in Jobs \ {u} : q \notin gaveUp /\ at[q] \in Locked => result'[q].revision = result[q].revision /\ caches' = caches
      BY <1>0, <1>1, <1>3, <1>2
    <3>2. ASSUME u \in Jobs, u \notin gaveUp', u \notin unsure', u \notin Overriding PROVE RowFor(u)'
      BY <1>0, <1>1, <1>3, <1>2, <2>1, <1>9, <3>2 DEF RolesParts, RowKept, RowFor, Playing, Syncing
    <3> QED
      BY <1>0, <1>3, <1>9, <2>1, <3>1, <3>2, RowForKept DEF RolesParts
  <2>6. RolesFound'
    <3>1. \A q \in Jobs \ {u} : at[q] = "playing" \/ (q \notin gaveUp /\ at[q] \in Locked) =>
              result'[q].revision = result[q].revision /\ result'[q].roles = result[q].roles
      BY <1>0, <1>1, <1>3, <1>2
    <3>2. u \in Jobs => RolesFor(u)'
      BY <1>0, <1>1, <1>3, <1>2, <2>1, <1>9 DEF RolesParts, RolesFound, RolesFor, Copied
    <3> QED
      BY <1>0, <1>3, <1>9, <2>1, <3>1, <3>2, RolesKept DEF RolesParts
  <2> QED
    BY <2>2, <2>3, <2>4, <2>5, <2>6 DEF RolesParts
<1> QED
  BY <1>3, <1>10, <1>11, <1>12, <1>13, <1>20 DEF RolesInv

LEMMA SaveRevisionHolds == ASSUME CheckoutAssumed, CheckoutInv, NEW u \in Updates, SaveRevision(u) PROVE CheckoutInv'
<1> USE DEF CheckoutInv, FilesInv
<1>0. Tasks = Jobs \union Updates /\ Jobs \intersect Updates = {} /\ Overriding \subseteq Jobs /\ 0 \notin Tasks
  BY DEF Tasks, CheckoutAssumed
<1>1. /\ at[u] = "saving" /\ at' = [at EXCEPT ![u] = "ending"] /\ work' = work
      /\ project' = [project EXCEPT !.revision = work[u].target, !.half = TRUE]
      /\ UNCHANGED <<remote, tree, caches, staged, lock, result, gaveUp, intruded, unsure, interrupts>>
  BY DEF SaveRevision, Move, local, ghosts
<1>2. /\ project' \in ProjectRow /\ project'.half /\ project'.revision = work[u].target /\ project'.last_job = project.last_job
  <2>1. project \in ProjectRow /\ work[u].target \in Nat
    BY <1>0 DEF CheckoutTypes, WorkRow
  <2> QED
    BY <1>1, <2>1 DEF ProjectRow
<1>3. CheckoutTypes' /\ OnlyMoves(u) /\ at'[u] = "ending" /\ work'[u] = work[u]
  BY <1>0, <1>1, <1>2, MovesAfter DEF CheckoutTypes, UpdatePlaces, JobPlaces
<1>4. \A v \in Updates \ {u} : at[v] # "ending"
  <2> SUFFICES ASSUME NEW v \in Updates \ {u}, at[v] = "ending" PROVE FALSE
    OBVIOUS
  <2>1. v < u \/ u < v
    BY DEF CheckoutAssumed
  <2> QED
    BY <1>1, <2>1 DEF InOrder, Sequential
<1>5. /\ at[u] = "saving"
      /\ UNCHANGED <<remote, tree, caches, staged, lock, result, gaveUp, intruded, unsure, interrupts>>
  BY <1>1
<1>9. gaveUp \subseteq gaveUp' /\ unsure \subseteq unsure' /\ (~intruded' => ~intruded) /\ (interrupts > 0 => interrupts' > 0)
  BY <1>0, <1>5, <1>2 DEF CheckoutTypes
<1>10. LockHeld'
  BY <1>0, <1>5, <1>3, <1>2 DEF OnlyMoves, LockHeld, HasLock, Locked, Playing
<1>11. InOrder'
  <2>1. Sequential'
    BY <1>0, <1>5, <1>3 DEF OnlyMoves, InOrder, Sequential
  <2>2. InPlace(u)'
    BY <1>0, <1>5, <1>3, <1>2 DEF InOrder, InPlace, Playing
  <2> QED
    BY <1>0, <1>3, <2>1, <2>2, PlacesKept
<1>12. HeadKnown'
  <2>1. ASSUME ~intruded' PROVE TornKnown'
    BY <1>0, <1>5, <1>3, <1>2, <1>9, <2>1 DEF OnlyMoves, HeadKnown, TornKnown
  <2>2. ASSUME ~intruded', u \notin gaveUp' PROVE HeadFor(u)'
    BY <1>0, <1>5, <1>3, <1>2, <1>9, <2>2 DEF HeadKnown, HeadFor
  <2>3. \A q \in Tasks \ {u} : ~intruded' /\ q \notin gaveUp /\ at[q] \in Locked =>
            tree'.head = tree.head /\ (q \in Jobs => result'[q].revision = result[q].revision)
    BY <1>0, <1>5, <1>3, <1>2, <1>9
  <2> QED
    BY <1>0, <1>3, <1>9, <2>1, <2>2, <2>3, HeadKept
<1>13. FilesRecorded'
  <2>1. \A q \in Jobs \ {u} : ~intruded' /\ Copied(q) => result'[q].files = result[q].files /\ result'[q].revision = result[q].revision
    BY <1>0, <1>5, <1>3, <1>2, <1>9
  <2>2. u \in Jobs /\ ~intruded' /\ Copied(u)' =>
            result'[u].files = result'[u].revision \/ (interrupts' > 0 /\ result'[u].files = Torn)
    BY <1>0, <1>5, <1>3, <1>2 DEF Copied
  <2> QED
    BY <1>0, <1>3, <1>9, <2>1, <2>2, FilesKept
<1>20. ASSUME RolesInv, ~intruded', interrupts' = 0 PROVE RolesParts'
  <2>1. ~intruded /\ interrupts = 0 /\ RolesParts
    BY <1>5, <1>2, <1>20 DEF RolesInv
  <2>2. RowsAgree' /\ CachesAgree'
    <3>1. \A q \in Jobs : Sure(q)' => Sure(q) /\ work'[q].row = work[q].row
      BY <1>0, <1>3, <1>5 DEF Sure, OnlyMoves
    <3> QED
      BY <1>2, <1>5, <2>1, <3>1 DEF RolesParts, RowsAgree, CachesAgree, CacheOf
  <2>3. UpdatesSave'
    <3>1. Named(project.last_job)'
      BY <1>0, <1>2, <1>3, <1>5, <2>1 DEF RolesParts, UpdatesSave, Named, OnlyMoves, CheckoutTypes, ProjectRow, Caches
    <3>2. ASSUME NEW q \in Jobs, at'[q] # "new" PROVE Named(work[q].row.last_job)'
      <4>1. at[q] # "new" /\ work'[q] = work[q] /\ work[q].row.last_job \in Caches
        BY <1>0, <1>3, <3>2 DEF OnlyMoves, CheckoutTypes, WorkRow, ProjectRow
      <4>2. Named(work[q].row.last_job)
        BY <2>1, <4>1 DEF RolesParts, UpdatesSave
      <4> QED
        BY <1>0, <1>3, <1>5, <4>1, <4>2 DEF Named, OnlyMoves, Caches
    <3>3. SaveFor(u)'
      BY <1>0, <1>2, <1>3, <1>5, <2>1 DEF RolesParts, UpdatesSave, SaveFor
    <3>4. \A v \in Updates \ {u} : SaveFor(v)'
      BY <1>0, <1>3, <1>4, <1>5, <2>1 DEF RolesParts, UpdatesSave, SaveFor, OnlyMoves
    <3> QED
      BY <3>1, <3>2, <3>3, <3>4 DEF UpdatesSave
  <2>4. StageHeld'
    <3>1. \A q \in Tasks \ {u} : q \notin gaveUp /\ at[q] \in Locked => staged \subseteq staged'
      BY <1>5
    <3>2. at'[u] \in Playing => u \in staged'
      BY <1>0, <1>5, <1>3, <1>2, <2>1 DEF RolesParts, StageHeld, Playing
    <3> QED
      BY <1>0, <1>3, <1>9, <2>1, <3>1, <3>2, StageKept DEF RolesParts
  <2>5. RowKept'
    <3>1. \A q \in Jobs \ {u} : q \notin gaveUp /\ at[q] \in Locked => result'[q].revision = result[q].revision /\ caches' = caches
      BY <1>0, <1>5, <1>3, <1>2
    <3>2. ASSUME u \in Jobs, u \notin gaveUp', u \notin unsure', u \notin Overriding PROVE RowFor(u)'
      BY <1>0, <1>5, <1>3, <1>2, <2>1, <1>9, <3>2 DEF RolesParts, RowKept, RowFor, Playing, Syncing
    <3> QED
      BY <1>0, <1>3, <1>9, <2>1, <3>1, <3>2, RowForKept DEF RolesParts
  <2>6. RolesFound'
    <3>1. \A q \in Jobs \ {u} : at[q] = "playing" \/ (q \notin gaveUp /\ at[q] \in Locked) =>
              result'[q].revision = result[q].revision /\ result'[q].roles = result[q].roles
      BY <1>0, <1>5, <1>3, <1>2
    <3>2. u \in Jobs => RolesFor(u)'
      BY <1>0, <1>5, <1>3, <1>2, <2>1, <1>9 DEF RolesParts, RolesFound, RolesFor, Copied
    <3> QED
      BY <1>0, <1>3, <1>9, <2>1, <3>1, <3>2, RolesKept DEF RolesParts
  <2> QED
    BY <2>2, <2>3, <2>4, <2>5, <2>6 DEF RolesParts
<1> QED
  BY <1>3, <1>10, <1>11, <1>12, <1>13, <1>20 DEF RolesInv

LEMMA SaveStatusHolds == ASSUME CheckoutAssumed, CheckoutInv, NEW u \in Updates, SaveStatus(u) PROVE CheckoutInv'
<1> USE DEF CheckoutInv, FilesInv
<1>0. Tasks = Jobs \union Updates /\ Jobs \intersect Updates = {} /\ Overriding \subseteq Jobs /\ 0 \notin Tasks
  BY DEF Tasks, CheckoutAssumed
<1>1. /\ at[u] = "ending" /\ at' = [at EXCEPT ![u] = "done"] /\ work' = [work EXCEPT ![u] = Blank]
      /\ project' = [project EXCEPT !.last_job = u, !.failed = work[u].outcome \in {"failed", "error"}, !.half = FALSE]
      /\ UNCHANGED <<remote, tree, caches, staged, lock, result, gaveUp, intruded, unsure, interrupts>>
  BY DEF SaveStatus, Move, local, ghosts
<1>2. /\ project' \in ProjectRow /\ ~project'.half /\ project'.revision = project.revision /\ project'.last_job = u
      /\ Blank \in WorkRow /\ Blank.row.last_job = 0 /\ u \in Caches /\ u # 0
  <2>1. project \in ProjectRow /\ u \in Caches /\ u # 0
    BY <1>0 DEF CheckoutTypes, Caches
  <2>2. Blank \in WorkRow /\ Blank.row.last_job = 0
    BY NewFields DEF Blank
  <2>3. \A failed \in BOOLEAN :
           LET saved == [project EXCEPT !.last_job = u, !.failed = failed, !.half = FALSE]
           IN  saved \in ProjectRow /\ ~saved.half /\ saved.revision = project.revision /\ saved.last_job = u
    BY <2>1 DEF ProjectRow
  <2>4. (work[u].outcome \in {"failed", "error"}) \in BOOLEAN
    OBVIOUS
  <2> QED
    BY <1>1, <2>1, <2>2, <2>3, <2>4, Zenon
<1>3. CheckoutTypes' /\ OnlyMoves(u) /\ at'[u] = "done" /\ work'[u] = Blank
  BY <1>0, <1>1, <1>2, TypesAfter DEF CheckoutTypes, UpdatePlaces, JobPlaces
<1>4. \A v \in Updates \ {u} : at[v] # "ending"
  <2> SUFFICES ASSUME NEW v \in Updates \ {u}, at[v] = "ending" PROVE FALSE
    OBVIOUS
  <2>1. v < u \/ u < v
    BY DEF CheckoutAssumed
  <2> QED
    BY <1>1, <2>1 DEF InOrder, Sequential
<1>5. /\ at[u] = "ending"
      /\ UNCHANGED <<remote, tree, caches, staged, lock, result, gaveUp, intruded, unsure, interrupts>>
  BY <1>1
<1>9. gaveUp \subseteq gaveUp' /\ unsure \subseteq unsure' /\ (~intruded' => ~intruded) /\ (interrupts > 0 => interrupts' > 0)
  BY <1>0, <1>5, <1>2 DEF CheckoutTypes
<1>10. LockHeld'
  BY <1>0, <1>5, <1>3, <1>2 DEF OnlyMoves, LockHeld, HasLock, Locked, Playing
<1>11. InOrder'
  <2>1. Sequential'
    BY <1>0, <1>5, <1>3 DEF OnlyMoves, InOrder, Sequential
  <2>2. InPlace(u)'
    BY <1>0, <1>5, <1>3, <1>2 DEF InOrder, InPlace, Playing
  <2> QED
    BY <1>0, <1>3, <2>1, <2>2, PlacesKept
<1>12. HeadKnown'
  <2>1. ASSUME ~intruded' PROVE TornKnown'
    BY <1>0, <1>5, <1>3, <1>2, <1>9, <2>1 DEF OnlyMoves, HeadKnown, TornKnown
  <2>2. ASSUME ~intruded', u \notin gaveUp' PROVE HeadFor(u)'
    BY <1>0, <1>5, <1>3, <1>2, <1>9, <2>2 DEF HeadKnown, HeadFor
  <2>3. \A q \in Tasks \ {u} : ~intruded' /\ q \notin gaveUp /\ at[q] \in Locked =>
            tree'.head = tree.head /\ (q \in Jobs => result'[q].revision = result[q].revision)
    BY <1>0, <1>5, <1>3, <1>2, <1>9
  <2> QED
    BY <1>0, <1>3, <1>9, <2>1, <2>2, <2>3, HeadKept
<1>13. FilesRecorded'
  <2>1. \A q \in Jobs \ {u} : ~intruded' /\ Copied(q) => result'[q].files = result[q].files /\ result'[q].revision = result[q].revision
    BY <1>0, <1>5, <1>3, <1>2, <1>9
  <2>2. u \in Jobs /\ ~intruded' /\ Copied(u)' =>
            result'[u].files = result'[u].revision \/ (interrupts' > 0 /\ result'[u].files = Torn)
    BY <1>0, <1>5, <1>3, <1>2 DEF Copied
  <2> QED
    BY <1>0, <1>3, <1>9, <2>1, <2>2, FilesKept
<1>20. ASSUME RolesInv, ~intruded', interrupts' = 0 PROVE RolesParts'
  <2>1. ~intruded /\ interrupts = 0 /\ RolesParts
    BY <1>5, <1>2, <1>20 DEF RolesInv
  <2>2. RowsAgree' /\ CachesAgree'
    <3>1. \A q \in Jobs : Sure(q)' => Sure(q) /\ work'[q].row = work[q].row
      BY <1>0, <1>3, <1>5 DEF Sure, OnlyMoves
    <3>2. \A q \in Jobs : Sure(q) => work[q].row.last_job # u
      BY <1>2, <1>5, <2>1 DEF RolesParts, UpdatesSave, Named, Sure
    <3>3. RowsAgree'
      BY <1>2, <2>1, <3>1, <3>2 DEF RolesParts, RowsAgree
    <3>4. caches[u] # 0 => caches[u] = project.revision
      BY <1>5, <2>1 DEF RolesParts, UpdatesSave, SaveFor
    <3>5. CachesAgree'
      BY <1>2, <1>5, <2>1, <3>1, <3>4 DEF RolesParts, CachesAgree, CacheOf
    <3> QED
      BY <3>3, <3>5
  <2>3. UpdatesSave'
    <3>1. Named(project.last_job)'
      BY <1>2, <1>3 DEF Named
    <3>2. ASSUME NEW q \in Jobs, at'[q] # "new" PROVE Named(work[q].row.last_job)'
      <4>1. at[q] # "new" /\ work'[q] = work[q] /\ work[q].row.last_job \in Caches
        BY <1>0, <1>3, <3>2 DEF OnlyMoves, CheckoutTypes, WorkRow, ProjectRow
      <4>2. Named(work[q].row.last_job)
        BY <2>1, <4>1 DEF RolesParts, UpdatesSave
      <4> QED
        BY <1>0, <1>3, <1>5, <4>1, <4>2 DEF Named, OnlyMoves, Caches
    <3>3. SaveFor(u)'
      BY <1>3 DEF SaveFor
    <3>4. \A v \in Updates \ {u} : SaveFor(v)'
      BY <1>0, <1>3, <1>4, <1>5, <2>1 DEF RolesParts, UpdatesSave, SaveFor, OnlyMoves
    <3> QED
      BY <3>1, <3>2, <3>3, <3>4 DEF UpdatesSave
  <2>4. StageHeld'
    <3>1. \A q \in Tasks \ {u} : q \notin gaveUp /\ at[q] \in Locked => staged \subseteq staged'
      BY <1>5
    <3>2. at'[u] \in Playing => u \in staged'
      BY <1>0, <1>5, <1>3, <1>2, <2>1 DEF RolesParts, StageHeld, Playing
    <3> QED
      BY <1>0, <1>3, <1>9, <2>1, <3>1, <3>2, StageKept DEF RolesParts
  <2>5. RowKept'
    <3>1. \A q \in Jobs \ {u} : q \notin gaveUp /\ at[q] \in Locked => result'[q].revision = result[q].revision /\ caches' = caches
      BY <1>0, <1>5, <1>3, <1>2
    <3>2. ASSUME u \in Jobs, u \notin gaveUp', u \notin unsure', u \notin Overriding PROVE RowFor(u)'
      BY <1>0, <1>5, <1>3, <1>2, <2>1, <1>9, <3>2 DEF RolesParts, RowKept, RowFor, Playing, Syncing
    <3> QED
      BY <1>0, <1>3, <1>9, <2>1, <3>1, <3>2, RowForKept DEF RolesParts
  <2>6. RolesFound'
    <3>1. \A q \in Jobs \ {u} : at[q] = "playing" \/ (q \notin gaveUp /\ at[q] \in Locked) =>
              result'[q].revision = result[q].revision /\ result'[q].roles = result[q].roles
      BY <1>0, <1>5, <1>3, <1>2
    <3>2. u \in Jobs => RolesFor(u)'
      BY <1>0, <1>5, <1>3, <1>2, <2>1, <1>9 DEF RolesParts, RolesFound, RolesFor, Copied
    <3> QED
      BY <1>0, <1>3, <1>9, <2>1, <3>1, <3>2, RolesKept DEF RolesParts
  <2> QED
    BY <2>2, <2>3, <2>4, <2>5, <2>6 DEF RolesParts
<1> QED
  BY <1>3, <1>10, <1>11, <1>12, <1>13, <1>20 DEF RolesInv

LEMMA StartUpdateHolds == ASSUME CheckoutAssumed, CheckoutInv, NEW u \in Updates, StartUpdate(u) PROVE CheckoutInv'
<1> USE DEF CheckoutInv, FilesInv
<1>0. Tasks = Jobs \union Updates /\ Jobs \intersect Updates = {} /\ Overriding \subseteq Jobs /\ 0 \notin Tasks
  BY DEF Tasks, CheckoutAssumed
<1> DEFINE waits == [work[u] EXCEPT !.row = project, !.tags = {"update", "install"}]
           elsewhere == [work[u] EXCEPT !.target = remote']
<1>6. /\ remote' \in Nat /\ at[u] = "new" /\ work[u] \in WorkRow /\ project \in ProjectRow
      /\ \A v \in Updates : IF v < u THEN at[v] = "done" ELSE at[v] = "new"
      /\ project' = [project EXCEPT !.failed = FALSE]
      /\ UNCHANGED <<tree, caches, staged, lock, result, gaveUp, intruded, unsure, interrupts>>
  <2>1. remote \in Nat /\ Commits \in Nat /\ u \in Nat
    BY DEF CheckoutTypes, CheckoutAssumed
  <2>2. remote' \in remote .. Commits \/ remote' = remote
    BY DEF StartUpdate, Newest
  <2>3. remote' \in Nat
    BY <2>1, <2>2
  <2>4. \A v \in Updates : IF v < u THEN at[v] = "done" ELSE at[v] = "new"
    BY DEF StartUpdate
  <2>5. at[u] = "new" /\ work[u] \in WorkRow /\ project \in ProjectRow
    BY <1>0, <2>1, <2>4 DEF CheckoutTypes
  <2>6. project' = [project EXCEPT !.failed = FALSE]
    BY DEF StartUpdate
  <2>7. UNCHANGED <<tree, caches, staged, lock, result, gaveUp, intruded, unsure, interrupts>>
    BY DEF StartUpdate, local, ghosts
  <2> QED
    BY <2>3, <2>4, <2>5, <2>6, <2>7
<1>1. PICK place \in {"waiting", "saving"}, w \in WorkRow :
         /\ at' = [at EXCEPT ![u] = place] /\ work' = [work EXCEPT ![u] = w]
         /\ w.outcome = work[u].outcome /\ (place = "waiting" => w.tags = {"update", "install"})
  <2>1. CASE at' = [at EXCEPT ![u] = "waiting"] /\ work' = [work EXCEPT ![u].row = project, ![u].tags = {"update", "install"}]
    <3>1. work' = [work EXCEPT ![u] = waits]
      BY <1>0, <1>6, <2>1 DEF CheckoutTypes, WorkRow
    <3>2. waits \in WorkRow
      BY <1>6, NewFields
    <3>3. waits.outcome = work[u].outcome /\ waits.tags = {"update", "install"}
      BY <1>6 DEF WorkRow
    <3> HIDE DEF waits
    <3> QED
      BY <2>1, <3>1, <3>2, <3>3
  <2>2. CASE at' = [at EXCEPT ![u] = "saving"] /\ work' = [work EXCEPT ![u].target = remote']
    <3>1. work' = [work EXCEPT ![u] = elsewhere]
      BY <1>0, <1>6, <2>2 DEF CheckoutTypes, WorkRow
    <3>2. elsewhere \in WorkRow
      BY <1>6, NewFields
    <3>3. elsewhere.outcome = work[u].outcome
      BY <1>6 DEF WorkRow
    <3> HIDE DEF elsewhere
    <3> QED
      BY <2>2, <3>1, <3>2, <3>3
  <2> QED
    BY <2>1, <2>2 DEF StartUpdate, Move
<1>2. /\ project' \in ProjectRow /\ project'.half = project.half /\ project'.revision = project.revision /\ project'.last_job = project.last_job
  BY <1>6 DEF ProjectRow
<1>3. CheckoutTypes' /\ OnlyMoves(u) /\ at'[u] = place /\ work'[u] = w
  BY <1>0, <1>1, <1>2, <1>6, TypesAfter DEF CheckoutTypes, UpdatePlaces, JobPlaces
<1>5. /\ at[u] = "new" /\ place \in {"waiting", "saving"}
      /\ w.outcome = work[u].outcome /\ (place = "waiting" => w.tags = {"update", "install"})
      /\ UNCHANGED <<tree, caches, staged, lock, result, gaveUp, intruded, unsure, interrupts>>
  BY <1>1, <1>6
<1>9. gaveUp \subseteq gaveUp' /\ unsure \subseteq unsure' /\ (~intruded' => ~intruded) /\ (interrupts > 0 => interrupts' > 0)
  BY <1>0, <1>5, <1>2 DEF CheckoutTypes
<1>10. LockHeld'
  BY <1>0, <1>5, <1>3, <1>2 DEF OnlyMoves, LockHeld, HasLock, Locked, Playing
<1>11. InOrder'
  <2>1. Sequential'
    <3> SUFFICES ASSUME NEW v \in Updates, NEW x \in Updates, v < x, at'[x] # "new" PROVE at'[v] = "done"
      BY DEF Sequential
    <3>1. x \in Nat /\ v \in Nat /\ u \in Nat
      BY DEF CheckoutAssumed
    <3>2. x < u \/ x = u
      BY <1>0, <1>3, <1>6, <3>1 DEF OnlyMoves
    <3>3. v < u /\ v # u
      BY <3>1, <3>2
    <3> QED
      BY <1>0, <1>3, <1>6, <3>3 DEF OnlyMoves
  <2>2. InPlace(u)'
    BY <1>0, <1>5, <1>3, <1>2 DEF InOrder, InPlace, Playing
  <2> QED
    BY <1>0, <1>3, <2>1, <2>2, PlacesKept
<1>12. HeadKnown'
  <2>1. ASSUME ~intruded' PROVE TornKnown'
    BY <1>0, <1>5, <1>3, <1>2, <1>9, <2>1 DEF OnlyMoves, HeadKnown, TornKnown
  <2>2. ASSUME ~intruded', u \notin gaveUp' PROVE HeadFor(u)'
    BY <1>0, <1>5, <1>3, <1>2, <1>9, <2>2 DEF HeadKnown, HeadFor
  <2>3. \A q \in Tasks \ {u} : ~intruded' /\ q \notin gaveUp /\ at[q] \in Locked =>
            tree'.head = tree.head /\ (q \in Jobs => result'[q].revision = result[q].revision)
    BY <1>0, <1>5, <1>3, <1>2, <1>9
  <2> QED
    BY <1>0, <1>3, <1>9, <2>1, <2>2, <2>3, HeadKept
<1>13. FilesRecorded'
  <2>1. \A q \in Jobs \ {u} : ~intruded' /\ Copied(q) => result'[q].files = result[q].files /\ result'[q].revision = result[q].revision
    BY <1>0, <1>5, <1>3, <1>2, <1>9
  <2>2. u \in Jobs /\ ~intruded' /\ Copied(u)' =>
            result'[u].files = result'[u].revision \/ (interrupts' > 0 /\ result'[u].files = Torn)
    BY <1>0, <1>5, <1>3, <1>2 DEF Copied
  <2> QED
    BY <1>0, <1>3, <1>9, <2>1, <2>2, FilesKept
<1>20. ASSUME RolesInv, ~intruded', interrupts' = 0 PROVE RolesParts'
  <2>1. ~intruded /\ interrupts = 0 /\ RolesParts
    BY <1>5, <1>2, <1>20 DEF RolesInv
  <2>2. RowsAgree' /\ CachesAgree'
    BY <1>0, <1>2, <1>3, <1>5, <1>9, <2>1, RowsKept DEF RolesParts
  <2>3. UpdatesSave'
    <3>1. u \in Jobs /\ at'[u] # "new" => Named(work'[u].row.last_job)
      BY <1>0, <1>5, <1>3, <1>2, <2>1 DEF RolesParts, UpdatesSave, Named
    <3>2. u \in Updates => SaveFor(u)'
      BY <1>0, <1>5, <1>3, <1>2, <2>1 DEF RolesParts, UpdatesSave, SaveFor
    <3>3. at[u] # "done" /\ \A v \in Updates : v \in unsure' => v \in unsure \/ at[v] = "done"
      BY <1>0, <1>5, <1>2
    <3>4. \A v \in Updates \ {u} : caches'[v] \in {0, caches[v]} \/ at[v] = "done"
      BY <1>5
    <3> QED
      BY <1>0, <1>5, <1>3, <1>2, <2>1, <3>1, <3>2, <3>3, <3>4, UpdatesKept DEF RolesParts
  <2>4. StageHeld'
    <3>1. \A q \in Tasks \ {u} : q \notin gaveUp /\ at[q] \in Locked => staged \subseteq staged'
      BY <1>5
    <3>2. at'[u] \in Playing => u \in staged'
      BY <1>0, <1>5, <1>3, <1>2, <2>1 DEF RolesParts, StageHeld, Playing
    <3> QED
      BY <1>0, <1>3, <1>9, <2>1, <3>1, <3>2, StageKept DEF RolesParts
  <2>5. RowKept'
    <3>1. \A q \in Jobs \ {u} : q \notin gaveUp /\ at[q] \in Locked => result'[q].revision = result[q].revision /\ caches' = caches
      BY <1>0, <1>5, <1>3, <1>2
    <3>2. ASSUME u \in Jobs, u \notin gaveUp', u \notin unsure', u \notin Overriding PROVE RowFor(u)'
      BY <1>0, <1>5, <1>3, <1>2, <2>1, <1>9, <3>2 DEF RolesParts, RowKept, RowFor, Playing, Syncing
    <3> QED
      BY <1>0, <1>3, <1>9, <2>1, <3>1, <3>2, RowForKept DEF RolesParts
  <2>6. RolesFound'
    <3>1. \A q \in Jobs \ {u} : at[q] = "playing" \/ (q \notin gaveUp /\ at[q] \in Locked) =>
              result'[q].revision = result[q].revision /\ result'[q].roles = result[q].roles
      BY <1>0, <1>5, <1>3, <1>2
    <3>2. u \in Jobs => RolesFor(u)'
      BY <1>0, <1>5, <1>3, <1>2, <2>1, <1>9 DEF RolesParts, RolesFound, RolesFor, Copied
    <3> QED
      BY <1>0, <1>3, <1>9, <2>1, <3>1, <3>2, RolesKept DEF RolesParts
  <2> QED
    BY <2>2, <2>3, <2>4, <2>5, <2>6 DEF RolesParts
<1> QED
  BY <1>3, <1>10, <1>11, <1>12, <1>13, <1>20 DEF RolesInv

LEMMA DieHolds == ASSUME CheckoutAssumed, CheckoutInv, NEW p \in Tasks, Die(p) PROVE CheckoutInv'
<1> USE DEF CheckoutInv, FilesInv
<1>0. Tasks = Jobs \union Updates /\ Jobs \intersect Updates = {} /\ Overriding \subseteq Jobs /\ 0 \notin Tasks
  BY DEF Tasks, CheckoutAssumed
<1> DEFINE place == IF p \in Jobs THEN "over" ELSE "ending"
           w == [Blank EXCEPT !.outcome = "failed"]
<1>1. /\ at[p] \notin Over /\ at' = [at EXCEPT ![p] = place] /\ work' = [work EXCEPT ![p] = w] /\ lock' = Free(p)
      /\ result' = IF p \in Jobs THEN [result EXCEPT ![p] = Nothing] ELSE result
      /\ UNCHANGED <<remote, project, tree, caches, staged, gaveUp, intruded, unsure>>
  BY DEF Die, Move, row, local
<1>2. /\ w \in WorkRow /\ ((p \in Jobs /\ place = "over") \/ (p \in Updates /\ p \notin Jobs /\ place = "ending"))
  BY <1>0, NewFields
<1>4. interrupts' \in Nat /\ interrupts' > 0
  <2>1. interrupts \in Nat
    BY DEF CheckoutTypes
  <2>2. interrupts' = interrupts + 1
    BY DEF Die
  <2> QED
    BY <2>1, <2>2
<1> HIDE DEF place, w
<1>6. result' \in Results /\ \A q \in Jobs \ {p} : result'[q] = result[q]
  BY <1>0, <1>1 DEF Nothing, CheckoutTypes, Results
<1>3. CheckoutTypes' /\ OnlyMoves(p) /\ at'[p] = place /\ work'[p] = w
  BY <1>0, <1>1, <1>2, <1>4, <1>6, TypesAfter DEF CheckoutTypes, UpdatePlaces, JobPlaces, Results
<1>5. /\ at[p] \notin Over /\ lock' = Free(p) /\ interrupts' > 0 /\ \A q \in Jobs \ {p} : result'[q] = result[q]
      /\ UNCHANGED <<remote, project, tree, caches, staged, gaveUp, intruded, unsure>>
  BY <1>1, <1>4, <1>6
<1>9. gaveUp \subseteq gaveUp' /\ unsure \subseteq unsure' /\ (~intruded' => ~intruded) /\ (interrupts > 0 => interrupts' > 0)
  BY <1>0, <1>5, <1>2 DEF CheckoutTypes
<1>10. LockHeld'
  BY <1>0, <1>2, <1>3, <1>5 DEF OnlyMoves, LockHeld, HasLock, Locked, Playing, Free, Unlocked
<1>11. InOrder'
  <2>1. Sequential'
    BY <1>0, <1>3, <1>5 DEF OnlyMoves, InOrder, Sequential, Over
  <2>2. InPlace(p)'
    BY <1>0, <1>5, <1>3, <1>2 DEF InOrder, InPlace, Playing
  <2> QED
    BY <1>0, <1>3, <2>1, <2>2, PlacesKept
<1>12. HeadKnown'
  <2>1. ASSUME ~intruded' PROVE TornKnown'
    BY <1>5, <2>1 DEF TornKnown
  <2>2. ASSUME ~intruded', p \notin gaveUp' PROVE HeadFor(p)'
    BY <1>0, <1>5, <1>3, <1>2, <1>9, <2>2 DEF HeadKnown, HeadFor
  <2>3. \A q \in Tasks \ {p} : ~intruded' /\ q \notin gaveUp /\ at[q] \in Locked =>
            tree'.head = tree.head /\ (q \in Jobs => result'[q].revision = result[q].revision)
    BY <1>0, <1>5, <1>3, <1>2, <1>9
  <2> QED
    BY <1>0, <1>3, <1>9, <2>1, <2>2, <2>3, HeadKept
<1>13. FilesRecorded'
  <2>1. \A q \in Jobs \ {p} : ~intruded' /\ Copied(q) => result'[q].files = result[q].files /\ result'[q].revision = result[q].revision
    BY <1>0, <1>5, <1>3, <1>2, <1>9
  <2>2. p \in Jobs /\ ~intruded' /\ Copied(p)' =>
            result'[p].files = result'[p].revision \/ (interrupts' > 0 /\ result'[p].files = Torn)
    BY <1>0, <1>5, <1>3, <1>2 DEF Copied
  <2> QED
    BY <1>0, <1>3, <1>9, <2>1, <2>2, FilesKept
<1> QED
  BY <1>5, <1>3, <1>10, <1>11, <1>12, <1>13, <1>2 DEF RolesInv

-----------------------------------------------------------------------------
(* All steps together. *)

(* A place says whether a process is a job or an update.                     *)
LEMMA WhoseStep ==
    ASSUME CheckoutTypes, NEW p \in Tasks
    PROVE  /\ at[p] \in {"locked", "copying", "copied"} => p \in Jobs
           /\ at[p] \in {"saving", "ending"} => p \in Updates
<1>1. p \in Jobs \/ p \in Updates
  BY DEF Tasks
<1>2. at[p] \in {"locked", "copying", "copied"} => at[p] \notin UpdatePlaces
  BY DEF UpdatePlaces
<1>3. at[p] \in {"saving", "ending"} => at[p] \notin JobPlaces
  BY DEF JobPlaces
<1> QED
  BY <1>1, <1>2, <1>3 DEF CheckoutTypes

LEMMA CheckoutStep == CheckoutAssumed /\ CheckoutInv /\ [Next]_pcvars => CheckoutInv'
<1> SUFFICES ASSUME CheckoutAssumed, CheckoutInv, [Next]_pcvars PROVE CheckoutInv'
  OBVIOUS
<1>0. CheckoutTypes
  BY DEF CheckoutInv, FilesInv
<1>1. CASE UNCHANGED pcvars
  <2>1. UNCHANGED <<remote, project, tree, caches, staged, lock, at, work, result, gaveUp, intruded, unsure, interrupts>>
    BY <1>1 DEF pcvars, row, local, ghosts
  <2>2. FilesInv'
    BY <2>1 DEF CheckoutInv, FilesInv, CheckoutTypes, LockHeld, HasLock, InOrder, Sequential, InPlace, HeadKnown, TornKnown,
                HeadFor, FilesRecorded, Copied
  <2>3. RolesInv'
    <3>1. RowsAgree' = RowsAgree /\ CachesAgree' = CachesAgree
      BY <2>1 DEF RowsAgree, CachesAgree, CacheOf, Sure
    <3>2. UpdatesSave' = UpdatesSave /\ StageHeld' = StageHeld
      BY <2>1 DEF UpdatesSave, Named, SaveFor, StageHeld
    <3>3. RowKept' = RowKept /\ RolesFound' = RolesFound
      BY <2>1 DEF RowKept, RowFor, RolesFound, RolesFor, Copied
    <3> QED
      BY <2>1, <3>1, <3>2, <3>3 DEF CheckoutInv, RolesInv, RolesParts
  <2> QED
    BY <2>2, <2>3 DEF CheckoutInv
<1>2. ASSUME NEW j \in Jobs, StartJob(j) PROVE CheckoutInv'
  BY <1>2, StartJobHolds
<1>3. ASSUME NEW u \in Updates, StartUpdate(u) PROVE CheckoutInv'
  BY <1>3, StartUpdateHolds
<1>4. ASSUME NEW p \in Tasks, GiveUp(p) \/ FailSync(p) \/ Die(p) PROVE CheckoutInv'
  BY <1>4, GiveUpHolds, FailSyncHolds, DieHolds
<1>5. ASSUME NEW p \in Tasks, Progress(p) PROVE CheckoutInv'
  <2>1. CASE Acquire(p) \/ Fetch(p) \/ CheckOut(p) \/ Install(p)
    BY <2>1, AcquireHolds, FetchHolds, CheckOutHolds, InstallHolds
  <2>2. CASE BeginSync(p)
    BY <2>2, BeginSyncHolds, BeginSyncIntrudes
  <2>3. CASE Decide(p)
    <3>1. p \in Jobs
      BY <1>0, <2>3, WhoseStep DEF Decide
    <3> QED
      BY <2>3, <3>1, DecideFails, DecideGoesOn
  <2>4. CASE BeginCopy(p)
    <3>1. p \in Jobs
      BY <1>0, <2>4, WhoseStep DEF BeginCopy
    <3> QED
      BY <2>4, <3>1, BeginCopyHolds
  <2>5. CASE LeaveJob(p)
    <3>1. p \in Jobs
      BY <2>5 DEF LeaveJob
    <3>2. CASE tree' = tree /\ intruded' = intruded /\ result' = [result EXCEPT ![p] = IF Plays(p) THEN @ ELSE Nothing]
      BY <2>5, <3>1, <3>2, LeaveJobHolds
    <3>3. CASE /\ tree' = [tree EXCEPT !.head = work[p].original] /\ intruded' = (intruded \/ p \in gaveUp)
               /\ result' = [Spoilt EXCEPT ![p] = IF Plays(p) THEN result[p] ELSE Nothing]
      BY <2>5, <3>1, <3>3, LeaveJobSetsBack
    <3> QED
      BY <2>5, <3>2, <3>3 DEF LeaveJob
  <2>6. CASE LeaveUpdate(p)
    <3>1. p \in Updates
      BY <2>6 DEF LeaveUpdate
    <3> QED
      BY <2>6, <3>1, LeaveUpdateHolds
  <2>7. CASE SaveRevision(p)
    <3>1. p \in Updates
      BY <1>0, <2>7, WhoseStep DEF SaveRevision
    <3> QED
      BY <2>7, <3>1, SaveRevisionHolds
  <2>8. CASE SaveStatus(p)
    <3>1. p \in Updates
      BY <1>0, <2>8, WhoseStep DEF SaveStatus
    <3> QED
      BY <2>8, <3>1, SaveStatusHolds
  <2> QED
    BY <1>5, <2>1, <2>2, <2>3, <2>4, <2>5, <2>6, <2>7, <2>8 DEF Progress
<1> QED
  BY <1>1, <1>2, <1>3, <1>4, <1>5 DEF Next

LEMMA CheckoutKept == CheckoutInv => PlaysWhatIsRecorded /\ PlaysWithItsRoles
BY DEF CheckoutInv, FilesInv, RolesInv, RolesParts, FilesRecorded, RolesFound, RolesFor, Copied, PlaysWhatIsRecorded, PlaysWithItsRoles

(* sync_and_copy and post_run_hook: whatever the number of jobs, branches,   *)
(* updates and commits, a job plays the files of the commit that its row     *)
(* records, or torn ones after a checkout was cut off, and the roles that    *)
(* were installed for that commit, but for the exceptions that the two       *)
(* properties name.                                                          *)
THEOREM CheckoutIsRight ==
    ASSUME CheckoutAssumed
    PROVE  Spec => [](PlaysWhatIsRecorded /\ PlaysWithItsRoles)
<1>1. Init => CheckoutInv
  BY CheckoutInitial
<1>2. CheckoutInv /\ [Next]_pcvars => CheckoutInv'
  BY CheckoutStep
<1> QED
  BY <1>1, <1>2, CheckoutKept, PTL DEF Spec

=============================================================================
