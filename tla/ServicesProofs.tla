--------------------------- MODULE ServicesProofs ---------------------------
(***************************************************************************)
(* The services, for any users, workers, limits and clocks: what a decided *)
(* approval keeps, that a request is decided once, that the actions of     *)
(* event and alert rules keep their distance, that a tenant keeps to its   *)
(* quota, that the events of a job are saved once and its notifications    *)
(* sent once, and that a workflow template has no cycle.  Each part has    *)
(* its inductive invariant; the theorems are about ServicesSpec, of which  *)
(* a behaviour stays in one part.                                          *)
(***************************************************************************)
EXTENDS MCServices, SequenceLemmas

-----------------------------------------------------------------------------

(* Workflow approvals. *)

(* Everybody has loaded the row for what they do, and as long as nobody has *)
(* saved it next to somebody else, who has loaded it finds it undecided.    *)
LoadedInv ==
    /\ loaded["task_manager"] \in {"no", "time_out"}
    /\ loaded["workflow_manager"] \in {"no", "cancel"}
    /\ \A u \in Approvers : loaded[u] \in {"no", "approve", "deny"}
    /\ ~clash => \A a \in Actors : loaded[a] # "no" => approval.status = "pending"

(* Both children leave "open" together, and not before the decision.        *)
BranchInv ==
    /\ branch["success"] = "open" <=> branch["failure"] = "open"
    /\ OneBranch
    /\ ~clash /\ approval.status = "pending" => branch["success"] = "open"

ApprovalInv == TypeOK /\ LoadedInv /\ BranchInv /\ ApprovedMeansApproved /\ BranchMatchesRow

LEMMA ApprovalInit == Init => ApprovalInv
<1> SUFFICES ASSUME Init PROVE ApprovalInv
  OBVIOUS
<1> USE ActorsAssumption
<1>1. TypeOK
  <2>1. branch \in [{"success", "failure"} -> {"open", "run", "do_not_run"}]
    BY DEF Init
  <2>2. loaded \in [Actors -> {"no", "approve", "deny", "time_out", "cancel"}]
    BY DEF Init
  <2>3. approval \in [status : {"pending", "successful", "failed", "canceled"}, timed_out : BOOLEAN,
                      approved_or_denied_by : Approvers \union {Nobody}]
    BY DEF Init
  <2> QED
    BY <2>1, <2>2, <2>3 DEF Init, TypeOK
<1>2. LoadedInv
  BY DEF Init, LoadedInv, Actors
<1>3. BranchInv /\ ApprovedMeansApproved /\ BranchMatchesRow
  BY DEF Init, BranchInv, OneBranch, ApprovedMeansApproved, BranchMatchesRow
<1> QED
  BY <1>1, <1>2, <1>3 DEF ApprovalInv

(* Loading the row disturbs nothing. *)
LEMMA ApprovalLoads ==
    ASSUME ApprovalInv, NEW a \in Actors, NEW i \in {"approve", "deny", "time_out", "cancel"},
           Load(a, i),
           a = "task_manager" => i = "time_out",
           a = "workflow_manager" => i = "cancel",
           a \in Approvers => i \in {"approve", "deny"}
    PROVE  ApprovalInv'
<1> USE ActorsAssumption DEF ApprovalInv
<1>1. loaded' = [loaded EXCEPT ![a] = i] /\ loaded \in [Actors -> {"no", "approve", "deny", "time_out", "cancel"}]
  BY DEF Load, TypeOK
<1>2. approval.status = "pending" /\ UNCHANGED <<approval, expired, branch, clash>>
  BY DEF Load
<1>3. TypeOK'
  BY <1>1, <1>2 DEF TypeOK
<1>4. \A b \in Actors : loaded'[b] = IF b = a THEN i ELSE loaded[b]
  BY <1>1
<1>5. LoadedInv'
  BY <1>2, <1>4 DEF LoadedInv, Actors
<1>6. BranchInv' /\ ApprovedMeansApproved' /\ BranchMatchesRow'
  BY <1>2 DEF BranchInv, OneBranch, ApprovedMeansApproved, BranchMatchesRow
<1> QED
  BY <1>3, <1>5, <1>6

(* Saving a decision: nothing has followed it if nobody else had the row.   *)
LEMMA ApprovalSaves ==
    ASSUME ApprovalInv, NEW a \in Actors, loaded[a] # "no", Saved(a),
           approval' \in [status : {"successful", "failed", "canceled"}, timed_out : BOOLEAN,
                          approved_or_denied_by : Approvers \union {Nobody}],
           ApprovedMeansApproved'
    PROVE  ApprovalInv'
<1> USE ActorsAssumption DEF ApprovalInv
<1>1. loaded' = [loaded EXCEPT ![a] = "no"] /\ loaded \in [Actors -> {"no", "approve", "deny", "time_out", "cancel"}]
  BY DEF Saved, TypeOK
<1>2. UNCHANGED <<expired, branch>> /\ clash' = (clash \/ \E b \in Actors \ {a} : loaded[b] # "no")
  BY DEF Saved
<1>3. TypeOK'
  BY <1>1, <1>2 DEF TypeOK
<1>4. \A b \in Actors : loaded'[b] = IF b = a THEN "no" ELSE loaded[b]
  BY <1>1
<1>5. ~clash' => ~clash /\ \A b \in Actors : loaded'[b] = "no"
  BY <1>2, <1>4
<1>6. LoadedInv'
  BY <1>4, <1>5 DEF LoadedInv, Actors
<1>7. ~clash' => branch["success"] = "open" /\ branch["failure"] = "open"
  BY <1>5 DEF LoadedInv, BranchInv
<1>8. BranchInv' /\ BranchMatchesRow'
  BY <1>2, <1>7 DEF BranchInv, OneBranch, BranchMatchesRow
<1> QED
  BY <1>3, <1>6, <1>8

LEMMA ApprovalFollowed == ASSUME ApprovalInv, Follow PROVE ApprovalInv'
<1> USE DEF ApprovalInv
<1> DEFINE way == IF approval.status = "successful" THEN "success" ELSE "failure"
<1>1. UNCHANGED <<approval, expired, loaded, clash>> /\ approval.status # "pending"
  BY DEF Follow
<1>2. \A b \in {"success", "failure"} :
          branch'[b] = IF branch[b] # "open" THEN branch[b]
                       ELSE IF b = way THEN "run" ELSE "do_not_run"
  BY DEF Follow
<1>3. branch' \in [{"success", "failure"} -> {"open", "run", "do_not_run"}]
  BY DEF Follow, TypeOK
<1>4. TypeOK' /\ LoadedInv' /\ ApprovedMeansApproved'
  BY <1>1, <1>3 DEF TypeOK, LoadedInv, ApprovedMeansApproved
<1>5. CASE branch["success"] = "open"
  BY <1>1, <1>2, <1>5, <1>4 DEF BranchInv, OneBranch, BranchMatchesRow, TypeOK
<1>6. CASE branch["success"] # "open"
  <2>1. branch["failure"] # "open"
    BY <1>6 DEF BranchInv
  <2>2. branch'["success"] = branch["success"] /\ branch'["failure"] = branch["failure"]
    BY <1>2, <1>6, <2>1
  <2>3. BranchInv' /\ BranchMatchesRow'
    BY <1>1, <2>2 DEF BranchInv, OneBranch, BranchMatchesRow
  <2> QED
    BY <1>4, <2>3
<1> QED
  BY <1>5, <1>6

LEMMA ApprovalStep == ASSUME ApprovalInv, [Next]_vars PROVE ApprovalInv'
<1> USE ActorsAssumption
<1>1. CASE Expire
  BY <1>1 DEF Expire, ApprovalInv, TypeOK, LoadedInv, BranchInv, OneBranch, ApprovedMeansApproved, BranchMatchesRow
<1>2. CASE \E u \in Approvers : LoadRequest(u)
  <2> PICK u \in Approvers : LoadRequest(u)
    BY <1>2
  <2>1. u \in Actors /\ u # "task_manager" /\ u # "workflow_manager"
    BY DEF Actors
  <2>2. PICK i \in {"approve", "deny"} : Load(u, i)
    BY DEF LoadRequest
  <2>3. /\ i \in {"approve", "deny", "time_out", "cancel"}
        /\ u = "task_manager" => i = "time_out"
        /\ u = "workflow_manager" => i = "cancel"
        /\ u \in Approvers => i \in {"approve", "deny"}
    BY <2>1, <2>2
  <2> QED
    BY <2>1, <2>2, <2>3, ApprovalLoads
<1>3. CASE \E u \in Approvers : Decide(u)
  <2> PICK u \in Approvers : Decide(u)
    BY <1>3
  <2>1. u \in Actors /\ loaded[u] # "no" /\ Saved(u)
    BY DEF Decide, Actors
  <2>2. approval' = [status |-> IF loaded[u] = "approve" THEN "successful" ELSE "failed",
                     timed_out |-> FALSE, approved_or_denied_by |-> u]
    BY DEF Decide
  <2>3. ApprovedMeansApproved'
    BY <2>2 DEF ApprovedMeansApproved
  <2> QED
    BY <2>1, <2>2, <2>3, ApprovalSaves
<1>4. CASE LoadExpired
  BY <1>4, ApprovalLoads DEF LoadExpired, Actors
<1>5. CASE TimeOut
  <2>1. "task_manager" \in Actors /\ loaded["task_manager"] # "no" /\ Saved("task_manager")
    BY <1>5 DEF TimeOut, Actors
  <2>2. approval' = [approval EXCEPT !.status = "failed", !.timed_out = TRUE]
    BY <1>5 DEF TimeOut
  <2>3. approval' \in [status : {"successful", "failed", "canceled"}, timed_out : BOOLEAN,
                       approved_or_denied_by : Approvers \union {Nobody}] /\ approval'.status = "failed"
    BY <2>2 DEF ApprovalInv, TypeOK
  <2> QED
    BY <2>1, <2>3, ApprovalSaves DEF ApprovedMeansApproved
<1>6. CASE PassLeaves
  <2>1. loaded' = [loaded EXCEPT !["task_manager"] = "no"] /\ UNCHANGED <<approval, expired, branch, clash>>
    BY <1>6 DEF PassLeaves
  <2>2. \A b \in Actors : loaded'[b] = IF b = "task_manager" THEN "no" ELSE loaded[b]
    BY <2>1 DEF ApprovalInv, TypeOK
  <2>3. TypeOK'
    BY <2>1 DEF ApprovalInv, TypeOK
  <2>4. LoadedInv'
    BY <2>1, <2>2 DEF ApprovalInv, LoadedInv, Actors
  <2> QED
    BY <2>1, <2>3, <2>4 DEF ApprovalInv, BranchInv, OneBranch, ApprovedMeansApproved, BranchMatchesRow
<1>7. CASE LoadToCancel
  BY <1>7, ApprovalLoads DEF LoadToCancel, Actors
<1>8. CASE Cancel
  <2>1. "workflow_manager" \in Actors /\ loaded["workflow_manager"] # "no" /\ Saved("workflow_manager")
    BY <1>8 DEF Cancel, Actors
  <2>2. approval' = [approval EXCEPT !.status = "canceled"]
    BY <1>8 DEF Cancel
  <2>3. approval' \in [status : {"successful", "failed", "canceled"}, timed_out : BOOLEAN,
                       approved_or_denied_by : Approvers \union {Nobody}] /\ approval'.status = "canceled"
    BY <2>2 DEF ApprovalInv, TypeOK
  <2> QED
    BY <2>1, <2>3, ApprovalSaves DEF ApprovedMeansApproved
<1>9. CASE Follow
  BY <1>9, ApprovalFollowed
<1>10. CASE UNCHANGED vars
  BY <1>10 DEF vars, ApprovalInv, TypeOK, LoadedInv, BranchInv, OneBranch, ApprovedMeansApproved, BranchMatchesRow
<1> QED
  BY <1>1, <1>2, <1>3, <1>4, <1>5, <1>6, <1>7, <1>8, <1>9, <1>10 DEF Next

-----------------------------------------------------------------------------

(* Event rules. *)

(* The part of the types that the arithmetic needs.                         *)
RuleTimes ==
    /\ clock \in Nat
    /\ rule.last_fired_at \in Int
    /\ DOMAIN rule = {"present", "enabled", "last_fired_at"}
    /\ fired \in [Deliveries -> Int]
    /\ stage \in [Deliveries -> ER!Evaluating \union {"idle", "receiving", "queued"}]
    /\ edit # ER!NoEdit => edit.last_fired_at \in Int
    /\ \A e \in Deliveries : fired[e] <= clock

(* Evaluations that run at one time know of each other.                     *)
TogetherKnown ==
    \A d, e \in Deliveries :
        d # e /\ stage[d] \in ER!Evaluating /\ stage[e] \in ER!Evaluating => {d, e} \in together

(* The rule shows the latest firing, and an evaluation that is under way    *)
(* has begun a whole period after every firing it did not overlap with.     *)
Recorded ==
    ~reverted => \A e \in Deliveries : fired[e] # ER!Never => fired[e] <= rule.last_fired_at /\ fired[e] >= 0
PeriodKept ==
    ~reverted => \A d, e \in Deliveries :
        /\ d # e /\ stage[d] \in ER!Evaluating
        /\ fired[e] # ER!Never /\ {d, e} \notin together
        => clock - fired[e] >= Throttle

FiringInv == RuleTimes /\ TogetherKnown /\ Recorded /\ PeriodKept /\ ER!FiringsSpaced

LEMMA FiringInit == ER!Init => FiringInv
BY DEF ER!Init, FiringInv, RuleTimes, TogetherKnown, Recorded, PeriodKept, ER!FiringsSpaced, ER!Never, ER!NoEdit, ER!Evaluating

(* Steps that fire nothing and begin no evaluation.                         *)
LEMMA QuietStep ==
    ASSUME Throttle \in Nat, FiringInv, RuleTimes',
           clock' >= clock,
           rule'.last_fired_at = rule.last_fired_at,
           UNCHANGED <<fired, together, reverted>>,
           \A d \in Deliveries : stage'[d] \in ER!Evaluating => stage[d] \in ER!Evaluating
    PROVE  FiringInv'
<1>1. TogetherKnown'
  BY DEF FiringInv, TogetherKnown
<1>2. Recorded'
  BY DEF FiringInv, Recorded
<1>3. PeriodKept'
  <2> SUFFICES ASSUME ~reverted, NEW d \in Deliveries, NEW e \in Deliveries, d # e, stage'[d] \in ER!Evaluating,
                      fired[e] # ER!Never, {d, e} \notin together
               PROVE  clock' - fired[e] >= Throttle
    BY DEF PeriodKept
  <2>1. clock - fired[e] >= Throttle
    BY DEF FiringInv, PeriodKept
  <2>2. clock \in Nat /\ clock' \in Nat /\ fired[e] \in Int
    BY DEF FiringInv, RuleTimes
  <2> QED
    BY <2>1, <2>2
<1>4. ER!FiringsSpaced'
  BY DEF FiringInv, ER!FiringsSpaced
<1> QED
  BY <1>1, <1>2, <1>3, <1>4 DEF FiringInv

(* evaluate_event_rule: what begins is not throttled.                       *)
LEMMA EvaluateHolds ==
    ASSUME Throttle \in Nat, FiringInv, NEW x \in Deliveries, ER!Evaluate(x)
    PROVE  FiringInv'
<1> DEFINE begins == rule.present /\ rule.enabled /\ ~ER!is_throttled
<1>1. /\ UNCHANGED <<clock, rule, fired, edit, reverted>>
      /\ stage[x] = "queued"
      /\ begins \in BOOLEAN
  BY DEF ER!Evaluate, ER!is_throttled
<1>2. stage' = [stage EXCEPT ![x] = IF begins THEN "conditions" ELSE "idle"]
  <2>1. CASE ~rule.present
    BY <2>1 DEF ER!Evaluate
  <2>2. CASE rule.present /\ ~rule.enabled
    BY <2>2 DEF ER!Evaluate
  <2>3. CASE rule.present /\ rule.enabled
    BY <2>3 DEF ER!Evaluate
  <2> QED
    BY <2>1, <2>2, <2>3
<1>3. together' = IF begins
                  THEN together \union {{x, e} : e \in {e \in Deliveries : stage[e] \in ER!Evaluating}}
                  ELSE together
  <2>1. CASE ~rule.present
    BY <2>1 DEF ER!Evaluate
  <2>2. CASE rule.present /\ ~rule.enabled
    BY <2>2 DEF ER!Evaluate
  <2>3. CASE rule.present /\ rule.enabled
    BY <2>3 DEF ER!Evaluate
  <2> QED
    BY <2>1, <2>2, <2>3
<1>4. RuleTimes'
  BY <1>1, <1>2 DEF FiringInv, RuleTimes, ER!Evaluating
<1>5. CASE ~begins
  <2> HIDE DEF begins
  <2>1. UNCHANGED together /\ stage' = [stage EXCEPT ![x] = "idle"]
    BY <1>2, <1>3, <1>5
  <2>2. \A d \in Deliveries : stage'[d] \in ER!Evaluating => stage[d] \in ER!Evaluating
    BY <2>1 DEF FiringInv, RuleTimes, ER!Evaluating
  <2> QED
    BY <1>1, <1>4, <2>1, <2>2, QuietStep DEF FiringInv, RuleTimes
<1>6. CASE begins
  <2>1. /\ stage' = [stage EXCEPT ![x] = "conditions"]
        /\ \A d \in Deliveries : d # x /\ stage[d] \in ER!Evaluating => {x, d} \in together' /\ {d, x} \in together'
        /\ \A s : s \in together => s \in together'
    <3> HIDE DEF begins
    <3>1. \A d : {x, d} = {d, x}
      OBVIOUS
    <3> QED
      BY <1>2, <1>3, <1>6, <3>1
  <2>2. \A e \in Deliveries : fired[e] # ER!Never /\ ~reverted => clock - fired[e] >= Throttle
    <3> SUFFICES ASSUME NEW e \in Deliveries, fired[e] # ER!Never, ~reverted
                 PROVE  clock - fired[e] >= Throttle
      OBVIOUS
    <3>1. fired[e] <= rule.last_fired_at /\ fired[e] >= 0
      BY DEF FiringInv, Recorded
    <3>2. fired[e] \in Int /\ rule.last_fired_at \in Int /\ clock \in Nat
      BY DEF FiringInv, RuleTimes
    <3>3. rule.last_fired_at # ER!Never
      BY <3>1, <3>2 DEF ER!Never
    <3>4. Throttle = 0 \/ clock - rule.last_fired_at >= Throttle
      BY <1>6, <3>2, <3>3 DEF ER!is_throttled
    <3>5. CASE Throttle = 0
      <4>1. fired[e] <= clock
        BY DEF FiringInv, RuleTimes
      <4> QED
        BY <3>2, <3>5, <4>1
    <3> QED
      BY <3>1, <3>2, <3>4, <3>5
  <2> QED
    BY <1>1, <1>4, <2>1, <2>2 DEF FiringInv, TogetherKnown, Recorded, PeriodKept, ER!FiringsSpaced, RuleTimes
<1> QED
  BY <1>5, <1>6

(* record_firing: the clock of the record is a period after all firings     *)
(* that the evaluation has not overlapped with.                             *)
LEMMA RecordHolds ==
    ASSUME Throttle \in Nat, FiringInv, NEW x \in Deliveries, ER!record_firing(x)
    PROVE  FiringInv'
<1>1. /\ UNCHANGED <<clock, together, edit, reverted>>
      /\ stage[x] = "record"
      /\ stage' = [stage EXCEPT ![x] = "idle"]
  BY DEF ER!record_firing
<1>2. \A d \in Deliveries : stage'[d] \in ER!Evaluating => stage[d] \in ER!Evaluating /\ d # x
  BY <1>1 DEF FiringInv, RuleTimes, ER!Evaluating
<1>3. CASE ~rule.present
  <2>1. UNCHANGED <<rule, fired>>
    BY <1>3 DEF ER!record_firing
  <2>2. RuleTimes'
    BY <1>1, <2>1 DEF FiringInv, RuleTimes, ER!Evaluating
  <2> QED
    BY <1>1, <1>2, <2>1, <2>2, QuietStep DEF FiringInv, RuleTimes
<1>4. CASE rule.present
  <2>1. /\ rule' = [rule EXCEPT !.last_fired_at = clock]
        /\ fired' = [fired EXCEPT ![x] = clock]
    BY <1>4 DEF ER!record_firing
  <2>2. /\ rule'.last_fired_at = clock
        /\ DOMAIN rule' = DOMAIN rule
        /\ fired'[x] = clock
        /\ \A e \in Deliveries \ {x} : fired'[e] = fired[e]
        /\ \A e \in Deliveries : fired[e] \in Int /\ fired[e] <= clock
        /\ clock \in Nat
    BY <2>1 DEF FiringInv, RuleTimes
  <2>3. RuleTimes'
    BY <1>1, <2>1, <2>2 DEF FiringInv, RuleTimes, ER!Evaluating
  <2>4. TogetherKnown'
    BY <1>1, <1>2 DEF FiringInv, TogetherKnown
  <2>5. Recorded'
    BY <1>1, <2>2 DEF FiringInv, Recorded
  <2>6. \A e \in Deliveries \ {x} : ~reverted /\ fired[e] # ER!Never /\ {x, e} \notin together => clock - fired[e] >= Throttle
    BY <1>1 DEF FiringInv, PeriodKept, ER!Evaluating
  <2>7. PeriodKept'
    (* A firing of x that an evaluation of d has not overlapped with: there *)
    (* is none, for both are under way and know of each other.              *)
    <3> SUFFICES ASSUME ~reverted, NEW d \in Deliveries, NEW e \in Deliveries, d # e, stage'[d] \in ER!Evaluating,
                        fired'[e] # ER!Never, {d, e} \notin together
                 PROVE  clock - fired'[e] >= Throttle
      BY <1>1 DEF PeriodKept
    <3>1. stage[d] \in ER!Evaluating /\ d # x
      BY <1>2
    <3>2. e # x
      BY <1>1, <3>1 DEF FiringInv, TogetherKnown, ER!Evaluating
    <3> QED
      BY <2>2, <3>1, <3>2 DEF FiringInv, PeriodKept
  <2>8. ER!FiringsSpaced'
    <3> SUFFICES ASSUME ~reverted, NEW d \in Deliveries, NEW e \in Deliveries, d # e,
                        fired'[d] # ER!Never, fired'[e] # ER!Never, {d, e} \notin together
                 PROVE  fired'[d] - fired'[e] >= Throttle \/ fired'[e] - fired'[d] >= Throttle
      BY <1>1 DEF ER!FiringsSpaced
    <3>1. {e, d} \notin together
      <4>1. {e, d} = {d, e}
        OBVIOUS
      <4> QED
        BY <4>1
    <3>2. CASE d = x
      BY <2>2, <2>6, <3>2
    <3>3. CASE e = x
      BY <2>2, <2>6, <3>1, <3>3
    <3>4. CASE d # x /\ e # x
      BY <2>2, <3>4 DEF FiringInv, ER!FiringsSpaced
    <3> QED
      BY <3>2, <3>3, <3>4
  <2> QED
    BY <2>3, <2>4, <2>5, <2>7, <2>8 DEF FiringInv
<1> QED
  BY <1>3, <1>4

(* An edit that writes back an older firing is remembered as such.          *)
LEMMA SaveEditHolds ==
    ASSUME Throttle \in Nat, FiringInv, NEW b \in BOOLEAN, ER!SaveEdit(b)
    PROVE  FiringInv'
<1>1. /\ UNCHANGED <<clock, stage, fired, together>>
      /\ edit # ER!NoEdit /\ edit' = ER!NoEdit
      /\ rule' = [rule EXCEPT !.enabled = b, !.last_fired_at = edit.last_fired_at]
      /\ reverted' = (reverted \/ edit.last_fired_at # rule.last_fired_at)
  BY DEF ER!SaveEdit
<1>2. rule'.last_fired_at = edit.last_fired_at /\ DOMAIN rule' = DOMAIN rule
  BY <1>1 DEF FiringInv, RuleTimes
<1>3. RuleTimes'
  BY <1>1, <1>2 DEF FiringInv, RuleTimes
<1>4. ~reverted' => ~reverted /\ rule'.last_fired_at = rule.last_fired_at
  BY <1>1, <1>2
<1> QED
  BY <1>1, <1>3, <1>4 DEF FiringInv, TogetherKnown, Recorded, PeriodKept, ER!FiringsSpaced

LEMMA FiringStep ==
    ASSUME Throttle \in Nat, FiringInv, [ER!Next]_ruleVars
    PROVE  FiringInv'
<1>1. CASE UNCHANGED ruleVars
  BY <1>1 DEF ruleVars, FiringInv, RuleTimes, TogetherKnown, Recorded, PeriodKept, ER!FiringsSpaced
<1>2. CASE ER!Tick
  BY <1>2, QuietStep DEF ER!Tick, FiringInv, RuleTimes
<1>3. ASSUME NEW d \in Deliveries, ER!Receive(d) PROVE FiringInv'
  BY <1>3, QuietStep DEF ER!Receive, FiringInv, RuleTimes, ER!Evaluating
<1>4. ASSUME NEW d \in Deliveries, ER!Accept(d) PROVE FiringInv'
  BY <1>4, QuietStep DEF ER!Accept, FiringInv, RuleTimes, ER!Evaluating
<1>5. ASSUME NEW d \in Deliveries, ER!Evaluate(d) PROVE FiringInv'
  BY <1>5, EvaluateHolds
<1>6. ASSUME NEW d \in Deliveries, ER!Judge(d) PROVE FiringInv'
  BY <1>6, QuietStep DEF ER!Judge, FiringInv, RuleTimes, ER!Evaluating
<1>7. ASSUME NEW d \in Deliveries, ER!Act(d) PROVE FiringInv'
  BY <1>7, QuietStep DEF ER!Act, FiringInv, RuleTimes, ER!Evaluating
<1>8. ASSUME NEW d \in Deliveries, ER!record_firing(d) PROVE FiringInv'
  BY <1>8, RecordHolds
<1>9. ASSUME NEW d \in Deliveries, ER!Die(d) PROVE FiringInv'
  BY <1>9, QuietStep DEF ER!Die, FiringInv, RuleTimes, ER!Evaluating
<1>10. CASE ER!BeginEdit
  BY <1>10, QuietStep DEF ER!BeginEdit, FiringInv, RuleTimes
<1>11. ASSUME NEW b \in BOOLEAN, ER!SaveEdit(b) PROVE FiringInv'
  BY <1>11, SaveEditHolds
<1>12. CASE ER!DeleteRule
  BY <1>12, QuietStep DEF ER!DeleteRule, FiringInv, RuleTimes
<1> QED
  BY <1>1, <1>2, <1>3, <1>4, <1>5, <1>6, <1>7, <1>8, <1>9, <1>10, <1>11, <1>12 DEF ER!Next

(* A log says matched or more only from the match on.                       *)
Matched == {"matched", "action_fired", "action_failed"}
LogFollowsStage ==
    /\ status \in [Deliveries -> Matched \union {"none", "refused", "received", "unmatched", "throttled", "error"}]
    /\ stage \in [Deliveries -> ER!Evaluating \union {"idle", "receiving", "queued"}]
    /\ \A d \in Deliveries :
        /\ stage[d] = "receiving" => status[d] = "none"
        /\ stage[d] \in {"queued", "conditions"} => status[d] = "received"
        /\ stage[d] = "actions" => status[d] = "matched"
RefusalInv == LogFollowsStage /\ ER!RefusedOnlyIfMatched

(* No step takes back a match, and only Receive refuses.                    *)
LEMMA MatchesStay ==
    ASSUME RefusalInv, LogFollowsStage',
           \A e \in Deliveries : status[e] \in Matched => status'[e] \in Matched,
           \A e \in Deliveries : status'[e] = "refused" => status[e] = "refused"
    PROVE  RefusalInv'
BY DEF RefusalInv, ER!RefusedOnlyIfMatched, Matched

LEMMA RefusalStep ==
    ASSUME RefusalInv, [ER!Next]_ruleVars
    PROVE  RefusalInv'
<1>1. CASE UNCHANGED <<status, stage>>
  BY <1>1 DEF RefusalInv, LogFollowsStage, ER!RefusedOnlyIfMatched
<1>2. ASSUME NEW d \in Deliveries, ER!Receive(d) PROVE RefusalInv'
  <2>1. CASE ~ER!Duplicate(d)
    <3>1. UNCHANGED status /\ stage' = [stage EXCEPT ![d] = "receiving"] /\ status[d] = "none"
      BY <1>2, <2>1 DEF ER!Receive
    <3>2. LogFollowsStage'
      BY <3>1 DEF RefusalInv, LogFollowsStage, ER!Evaluating
    <3> QED
      BY <3>1, <3>2, MatchesStay
  <2>2. CASE ER!Duplicate(d)
    <3>1. status' = [status EXCEPT ![d] = "refused"] /\ UNCHANGED stage /\ status[d] = "none" /\ stage[d] = "idle"
      BY <1>2, <2>2 DEF ER!Receive
    <3>2. LogFollowsStage'
      BY <3>1 DEF RefusalInv, LogFollowsStage, ER!Evaluating
    <3>3. PICK e \in Deliveries : Guid[e] = Guid[d] /\ status[e] \in {"matched", "action_fired"}
      BY <2>2 DEF ER!Duplicate
    <3>4. e # d /\ status'[e] = status[e]
      BY <3>1, <3>3 DEF RefusalInv, LogFollowsStage
    <3>5. ER!RefusedOnlyIfMatched'
      <4> SUFFICES ASSUME NEW x \in Deliveries, status'[x] = "refused"
                   PROVE  \E y \in Deliveries \ {x} : Guid[y] = Guid[x] /\ status'[y] \in Matched
        BY DEF ER!RefusedOnlyIfMatched, Matched
      <4>1. CASE x = d
        BY <3>3, <3>4, <4>1 DEF Matched
      <4>2. CASE x # d
        <5>1. status[x] = "refused"
          BY <3>1, <4>2 DEF RefusalInv, LogFollowsStage
        <5>2. PICK y \in Deliveries \ {x} : Guid[y] = Guid[x] /\ status[y] \in Matched
          BY <5>1 DEF RefusalInv, ER!RefusedOnlyIfMatched, Matched
        <5>3. status'[y] = status[y]
          BY <3>1, <5>2 DEF RefusalInv, LogFollowsStage, Matched
        <5> QED
          BY <5>2, <5>3
      <4> QED
        BY <4>1, <4>2
    <3> QED
      BY <3>2, <3>5 DEF RefusalInv
  <2> QED
    BY <2>1, <2>2
<1>3. ASSUME NEW d \in Deliveries, NEW from, NEW v \in Matched \union {"received", "unmatched", "throttled", "error"},
             status[d] = from, from \notin Matched \/ v \in Matched,
             status' = [status EXCEPT ![d] = v], LogFollowsStage'
      PROVE  RefusalInv'
  <2>1. \A e \in Deliveries : status[e] \in Matched => status'[e] \in Matched
    BY <1>3 DEF RefusalInv, LogFollowsStage
  <2>2. \A e \in Deliveries : status'[e] = "refused" => status[e] = "refused"
    BY <1>3 DEF RefusalInv, LogFollowsStage, Matched
  <2> QED
    BY <1>3, <2>1, <2>2, MatchesStay
<1>4. ASSUME NEW d \in Deliveries, ER!Accept(d) PROVE RefusalInv'
  <2>1. status' = [status EXCEPT ![d] = "received"] /\ stage[d] = "receiving"
    BY <1>4 DEF ER!Accept
  <2>3. status[d] = "none"
    BY <2>1 DEF RefusalInv, LogFollowsStage
  <2>2. LogFollowsStage'
    BY <1>4 DEF ER!Accept, RefusalInv, LogFollowsStage, ER!Evaluating
  <2> QED
    BY <1>3, <2>1, <2>2, <2>3 DEF Matched
<1>5. ASSUME NEW d \in Deliveries, ER!Evaluate(d) PROVE RefusalInv'
  <2>1. PICK v \in {"error", "unmatched", "throttled", "received"} :
          /\ status' = [status EXCEPT ![d] = v]
          /\ stage' = [stage EXCEPT ![d] = IF v = "received" THEN "conditions" ELSE "idle"]
    <3>1. CASE ~rule.present
      BY <1>5, <3>1 DEF ER!Evaluate
    <3>2. CASE rule.present /\ ~rule.enabled
      BY <1>5, <3>2 DEF ER!Evaluate
    <3>3. CASE rule.present /\ rule.enabled
      BY <1>5, <3>3 DEF ER!Evaluate
    <3> QED
      BY <3>1, <3>2, <3>3
  <2>2. status[d] = "received"
    <3>1. stage[d] = "queued"
      BY <1>5 DEF ER!Evaluate
    <3> QED
      BY <3>1 DEF RefusalInv, LogFollowsStage
  <2>3. LogFollowsStage'
    BY <2>1, <2>2 DEF RefusalInv, LogFollowsStage, ER!Evaluating
  <2> QED
    BY <1>3, <2>1, <2>2, <2>3 DEF Matched
<1>6. ASSUME NEW d \in Deliveries, ER!Judge(d) PROVE RefusalInv'
  <2>0. stage[d] = "conditions"
    BY <1>6 DEF ER!Judge
  <2>1. status[d] = "received"
    BY <2>0 DEF RefusalInv, LogFollowsStage
  <2>2. PICK v \in {"matched", "unmatched", "error"} :
          /\ status' = [status EXCEPT ![d] = v]
          /\ stage' = [stage EXCEPT ![d] = IF v = "matched" THEN "actions" ELSE "idle"]
    BY <1>6 DEF ER!Judge
  <2>3. LogFollowsStage'
    BY <2>0, <2>1, <2>2 DEF RefusalInv, LogFollowsStage, ER!Evaluating, Matched
  <2> QED
    BY <1>3, <2>1, <2>2, <2>3 DEF Matched
<1>7. ASSUME NEW d \in Deliveries, ER!Act(d) PROVE RefusalInv'
  <2>1. PICK v \in {"action_fired", "action_failed"} : status' = [status EXCEPT ![d] = v]
    BY <1>7 DEF ER!Act
  <2>2. LogFollowsStage'
    BY <1>7, <2>1 DEF ER!Act, RefusalInv, LogFollowsStage, ER!Evaluating, Matched
  <2> QED
    BY <1>3, <2>1, <2>2 DEF Matched
<1>8. ASSUME NEW d \in Deliveries, ER!record_firing(d) \/ ER!Die(d) PROVE RefusalInv'
  <2>1. UNCHANGED status /\ stage' = [stage EXCEPT ![d] = "idle"]
    BY <1>8 DEF ER!record_firing, ER!Die
  <2>2. LogFollowsStage'
    BY <2>1 DEF RefusalInv, LogFollowsStage, ER!Evaluating
  <2> QED
    BY <2>1, <2>2, MatchesStay
<1> QED
  BY <1>1, <1>2, <1>4, <1>5, <1>6, <1>7, <1>8 DEF ER!Next, ruleVars, ER!Tick, ER!BeginEdit, ER!SaveEdit, ER!DeleteRule

-----------------------------------------------------------------------------

(* Drift alert rules. *)

(* The part of the types that the arithmetic needs.                         *)
AlertTypes ==
    /\ now \in Nat
    /\ alertRule.last_triggered_at \in Int /\ alertRule.trigger_count \in Int
    /\ evaluation \in [Evaluations -> {"queued", "read", "alert", "record", "done"}]
    /\ lastRead \in [Evaluations -> Int]
    /\ alerts \in [Evaluations -> Int]
    /\ \A e \in Evaluations : alerts[e] <= now
    /\ recorded \subseteq Evaluations /\ IsFiniteSet(recorded)
    /\ form.last_triggered_at \in Int /\ form.trigger_count \in Int

(* Tasks that run at one time know of each other, and a task that has       *)
(* recorded is done.                                                        *)
AlertsTogether ==
    /\ \A d, e \in DA!Running : d # e => {d, e} \in concurrent
    /\ \A e \in recorded : evaluation[e] = "done" /\ alerts[e] >= 0
    /\ \A e \in Evaluations : evaluation[e] = "record" => alerts[e] >= 0

(* The row shows the latest trigger, and so does what a task has read of    *)
(* the tasks that it did not overlap with; once past its check, it is a     *)
(* cooldown later than their alerts, and so is its own.                     *)
ApartFrom(d, e) ==
    /\ evaluation[d] = "read" => alerts[e] <= lastRead[d]
    /\ evaluation[d] # "read" => now - alerts[e] >= Cooldown
    /\ evaluation[d] = "record" => alerts[d] - alerts[e] >= Cooldown

AlertsApart ==
    ~setBack =>
        /\ \A e \in recorded : alerts[e] <= alertRule.last_triggered_at
        /\ \A d \in DA!Running, e \in recorded : {d, e} \notin concurrent => ApartFrom(d, e)

AlertInv == AlertTypes /\ AlertsTogether /\ AlertsApart /\ DA!AlertsSpaced /\ DA!NoTriggerUncounted

(* The number that DriftAlert counts with is the number of the library.      *)
LEMMA AlertCardinality == \A S : DA!Cardinality(S) = Cardinality(S)
BY DEF DA!Cardinality, Cardinality

LEMMA AlertInit == DA!Init => AlertInv
BY FS_EmptySet, AlertCardinality DEF DA!Init, AlertInv, AlertTypes, AlertsTogether, AlertsApart, DA!AlertsSpaced, DA!NoTriggerUncounted, DA!Running, DA!Never,
       DA!NoForm

(* Steps that record nothing and begin nothing: the clock may go on.        *)
LEMMA QuietAlertStep ==
    ASSUME Cooldown \in Nat, AlertInv, now' \in Nat, now' >= now,
           evaluation' \in [Evaluations -> {"queued", "read", "alert", "record", "done"}],
           \A d \in Evaluations : d \in DA!Running' => d \in DA!Running /\ evaluation'[d] = evaluation[d],
           \A d \in recorded : evaluation'[d] = evaluation[d],
           UNCHANGED <<lastRead, alerts, recorded, concurrent>>,
           setBack \/ setBack' \/ alertRule' = alertRule,
           setBack => setBack',
           \A row \in {alertRule', form'} : row.last_triggered_at \in Int /\ row.trigger_count \in Int
    PROVE  AlertInv'
<1> USE DEF AlertInv
<1>1. AlertTypes'
  BY DEF AlertTypes
<1>2. AlertsTogether'
  BY DEF AlertsTogether, DA!Running, AlertTypes
<1>3. AlertsApart'
  <2> SUFFICES ASSUME ~setBack' PROVE AlertsApart'
    BY DEF AlertsApart
  <2>1. ~setBack /\ alertRule' = alertRule
    OBVIOUS
  <2>2. ASSUME NEW d \in DA!Running', NEW e \in recorded, {d, e} \notin concurrent
        PROVE  ApartFrom(d, e)'
    <3>1. d \in DA!Running /\ evaluation'[d] = evaluation[d]
      BY DEF DA!Running
    <3>2. ApartFrom(d, e)
      BY <2>1, <2>2, <3>1 DEF AlertsApart
    <3>3. alerts[e] \in Int /\ now \in Nat
      BY DEF AlertTypes
    <3> QED
      BY <3>1, <3>2, <3>3 DEF ApartFrom
  <2> QED
    BY <2>1, <2>2 DEF AlertsApart
<1>4. DA!AlertsSpaced'
  BY DEF DA!AlertsSpaced
<1>5. DA!NoTriggerUncounted'
  BY DEF DA!NoTriggerUncounted
<1> QED
  BY <1>1, <1>2, <1>3, <1>4, <1>5

(* evaluate_drift_alerts reads the rules.                                   *)
LEMMA ReadRulesHolds ==
    ASSUME Cooldown \in Nat, AlertInv, NEW x \in Evaluations, DA!ReadRules(x)
    PROVE  AlertInv'
<1> USE DEF AlertInv
<1>1. /\ evaluation[x] = "queued"
      /\ evaluation' = [evaluation EXCEPT ![x] = "read"]
      /\ lastRead' = [lastRead EXCEPT ![x] = alertRule.last_triggered_at]
      /\ concurrent' = concurrent \union {{x, f} : f \in DA!Running}
      /\ UNCHANGED <<now, alertRule, alerts, recorded, form, setBack>>
  BY DEF DA!ReadRules
<1>2. /\ x \notin recorded /\ x \notin DA!Running
      /\ evaluation'[x] = "read" /\ lastRead'[x] = alertRule.last_triggered_at
      /\ \A d \in Evaluations : d # x => evaluation'[d] = evaluation[d] /\ lastRead'[d] = lastRead[d]
  BY <1>1 DEF AlertTypes, AlertsTogether, DA!Running
<1>3. DA!Running' = DA!Running \union {x}
  BY <1>1 DEF DA!Running, AlertTypes
<1>4. AlertTypes'
  BY <1>1 DEF AlertTypes
<1>5. AlertsTogether'
  <2>1. \A d, e \in DA!Running' : d # e => {d, e} \in concurrent'
    <3> SUFFICES ASSUME NEW d \in DA!Running', NEW e \in DA!Running', d # e PROVE {d, e} \in concurrent'
      OBVIOUS
    <3>1. {d, e} = {e, d}
      OBVIOUS
    <3>2. CASE d = x
      BY <1>1, <1>3, <3>2
    <3>3. CASE e = x
      BY <1>1, <1>3, <3>1, <3>3
    <3>4. CASE d # x /\ e # x
      BY <1>1, <1>3, <3>4 DEF AlertsTogether
    <3> QED
      BY <3>2, <3>3, <3>4
  <2>2. \A e \in recorded : evaluation'[e] = "done" /\ alerts[e] >= 0
    BY <1>2 DEF AlertsTogether, AlertTypes
  <2>3. \A e \in Evaluations : evaluation'[e] = "record" => alerts[e] >= 0
    BY <1>2 DEF AlertsTogether
  <2> QED
    BY <1>1, <2>1, <2>2, <2>3 DEF AlertsTogether
<1>6. AlertsApart'
  <2> SUFFICES ASSUME ~setBack, NEW d \in DA!Running', NEW e \in recorded, {d, e} \notin concurrent'
               PROVE  ApartFrom(d, e)'
    BY <1>1 DEF AlertsApart
  <2>1. CASE d = x
    BY <1>1, <1>2, <2>1 DEF AlertsApart, ApartFrom
  <2>2. CASE d # x
    <3>1. d \in DA!Running /\ {d, e} \notin concurrent /\ d \in Evaluations
      BY <1>1, <1>3, <2>2 DEF DA!Running
    <3> QED
      BY <1>1, <1>2, <2>2, <3>1 DEF AlertsApart, ApartFrom
  <2> QED
    BY <2>1, <2>2
<1>7. DA!AlertsSpaced'
  BY <1>1 DEF DA!AlertsSpaced
<1>8. DA!NoTriggerUncounted'
  BY <1>1 DEF DA!NoTriggerUncounted
<1> QED
  BY <1>4, <1>5, <1>6, <1>7, <1>8

(* What goes on is not in cooldown, by what it has read.                    *)
LEMMA EvaluateAlertHolds ==
    ASSUME Cooldown \in Nat, AlertInv, NEW x \in Evaluations, DA!Evaluate(x)
    PROVE  AlertInv'
<1> USE DEF AlertInv
<1>1. PICK met \in BOOLEAN :
        evaluation' = [evaluation EXCEPT ![x] = IF met /\ ~DA!is_in_cooldown(lastRead[x]) THEN "alert" ELSE "done"]
  BY DEF DA!Evaluate
<1>2. evaluation[x] = "read" /\ UNCHANGED <<now, alertRule, lastRead, alerts, recorded, concurrent, form, setBack>>
  BY DEF DA!Evaluate
<1>3. x \notin recorded /\ x \in DA!Running
  BY <1>2 DEF AlertsTogether, DA!Running
<1>4. CASE ~(met /\ ~DA!is_in_cooldown(lastRead[x]))
  <2>1. evaluation' = [evaluation EXCEPT ![x] = "done"]
    BY <1>1, <1>4
  <2>2. \A d \in Evaluations : d \in DA!Running' => d \in DA!Running /\ evaluation'[d] = evaluation[d]
    BY <2>1 DEF DA!Running, AlertTypes
  <2>3. \A d \in recorded : evaluation'[d] = evaluation[d]
    BY <1>3, <2>1 DEF AlertTypes
  <2>4. evaluation' \in [Evaluations -> {"queued", "read", "alert", "record", "done"}]
    BY <2>1 DEF AlertTypes
  <2> QED
    BY <1>2, <2>2, <2>3, <2>4, QuietAlertStep DEF AlertTypes
<1>5. CASE met /\ ~DA!is_in_cooldown(lastRead[x])
  <2>1. evaluation' = [evaluation EXCEPT ![x] = "alert"]
    BY <1>1, <1>5
  <2>2. DA!Running' = DA!Running
    BY <1>2, <2>1 DEF DA!Running, AlertTypes
  <2>3. /\ \A d \in Evaluations : d # x => evaluation'[d] = evaluation[d]
        /\ evaluation'[x] = "alert"
        /\ evaluation' \in [Evaluations -> {"queued", "read", "alert", "record", "done"}]
    BY <2>1 DEF AlertTypes
  <2>4. AlertTypes'
    BY <1>2, <2>3 DEF AlertTypes
  <2>5. AlertsTogether'
    BY <1>2, <1>3, <2>2, <2>3 DEF AlertsTogether, AlertTypes
  <2>6. AlertsApart'
    <3> SUFFICES ASSUME ~setBack, NEW d \in DA!Running, NEW e \in recorded, {d, e} \notin concurrent
                 PROVE  ApartFrom(d, e)'
      BY <1>2, <2>2 DEF AlertsApart
    <3>1. ApartFrom(d, e)
      BY DEF AlertsApart
    <3>2. CASE d = x
      <4>1. /\ alerts[e] >= 0 /\ alerts[e] <= lastRead[x] /\ alerts[e] <= now
            /\ now \in Nat /\ alerts[e] \in Int /\ lastRead[x] \in Int
        BY <1>2, <3>1, <3>2 DEF AlertsTogether, AlertTypes, ApartFrom
      <4>2. Cooldown = 0 \/ now - lastRead[x] >= Cooldown
        BY <1>5, <4>1 DEF DA!is_in_cooldown, DA!Never
      <4> QED
        BY <1>2, <2>3, <3>2, <4>1, <4>2 DEF ApartFrom
    <3>3. CASE d # x
      BY <1>2, <2>3, <3>1, <3>3 DEF ApartFrom, DA!Running
    <3> QED
      BY <3>2, <3>3
  <2>7. DA!AlertsSpaced' /\ DA!NoTriggerUncounted'
    BY <1>2 DEF DA!AlertsSpaced, DA!NoTriggerUncounted
  <2> QED
    BY <2>4, <2>5, <2>6, <2>7
<1> QED
  BY <1>4, <1>5

(* The alert is as late as the evaluation.                                  *)
LEMMA CreateAlertHolds ==
    ASSUME Cooldown \in Nat, AlertInv, NEW x \in Evaluations, DA!CreateAlert(x)
    PROVE  AlertInv'
<1> USE DEF AlertInv
<1>1. /\ evaluation[x] = "alert"
      /\ alerts' = [alerts EXCEPT ![x] = now]
      /\ evaluation' = [evaluation EXCEPT ![x] = "record"]
      /\ UNCHANGED <<now, alertRule, lastRead, recorded, concurrent, form, setBack>>
  BY DEF DA!CreateAlert
<1>2. /\ \A e \in Evaluations : e # x => alerts'[e] = alerts[e] /\ evaluation'[e] = evaluation[e]
      /\ alerts'[x] = now
      /\ x \notin recorded /\ x \in DA!Running
      /\ now \in Nat
      /\ recorded \subseteq Evaluations
  BY <1>1 DEF AlertTypes, AlertsTogether, DA!Running
<1>3. DA!Running' = DA!Running
  BY <1>1 DEF DA!Running, AlertTypes
<1>4. AlertTypes'
  BY <1>1, <1>2 DEF AlertTypes
<1>5. AlertsTogether'
  BY <1>1, <1>2, <1>3 DEF AlertsTogether
<1>6. AlertsApart'
  <2> SUFFICES ASSUME ~setBack, NEW d \in DA!Running, NEW e \in recorded, {d, e} \notin concurrent
               PROVE  ApartFrom(d, e)'
    BY <1>1, <1>2, <1>3 DEF AlertsApart
  <2>1. alerts'[e] = alerts[e] /\ d \in Evaluations /\ evaluation'[x] = "record" /\ ApartFrom(d, e)
    BY <1>1, <1>2 DEF DA!Running, AlertsApart, AlertTypes
  <2>2. CASE d = x
    BY <1>1, <1>2, <2>1, <2>2 DEF ApartFrom
  <2>3. CASE d # x
    BY <1>1, <1>2, <2>1, <2>3 DEF ApartFrom
  <2> QED
    BY <2>2, <2>3
<1>7. DA!AlertsSpaced'
  BY <1>1, <1>2 DEF DA!AlertsSpaced
<1>8. DA!NoTriggerUncounted'
  BY <1>1 DEF DA!NoTriggerUncounted
<1> QED
  BY <1>4, <1>5, <1>6, <1>7, <1>8

(* record_trigger: counts one more, and shows the time of the record.       *)
LEMMA RecordTriggerHolds ==
    ASSUME Cooldown \in Nat, AlertInv, NEW x \in Evaluations, DA!record_trigger(x)
    PROVE  AlertInv'
<1> USE DEF AlertInv
<1>1. /\ evaluation[x] = "record"
      /\ alertRule' = [last_triggered_at |-> now, trigger_count |-> alertRule.trigger_count + 1]
      /\ recorded' = recorded \union {x}
      /\ evaluation' = [evaluation EXCEPT ![x] = "done"]
      /\ UNCHANGED <<now, lastRead, alerts, concurrent, form, setBack>>
  BY DEF DA!record_trigger
<1>2. /\ x \notin recorded /\ x \in DA!Running /\ recorded \subseteq Evaluations
      /\ evaluation'[x] = "done"
      /\ \A e \in Evaluations : e # x => evaluation'[e] = evaluation[e]
      /\ DA!Running' = DA!Running \ {x}
      /\ now \in Nat /\ \A e \in Evaluations : alerts[e] \in Int /\ alerts[e] <= now
  BY <1>1 DEF AlertTypes, AlertsTogether, DA!Running
<1>3. IsFiniteSet(recorded') /\ Cardinality(recorded') = Cardinality(recorded) + 1
  BY <1>1, <1>2, FS_AddElement DEF AlertTypes
<1>4. AlertTypes'
  BY <1>1, <1>2, <1>3 DEF AlertTypes
<1>5. AlertsTogether'
  BY <1>1, <1>2 DEF AlertsTogether
<1>6. AlertsApart'
  <2> SUFFICES ASSUME ~setBack PROVE AlertsApart'
    BY <1>1 DEF AlertsApart
  <2>1. \A e \in recorded' : alerts[e] <= now
    BY <1>1, <1>2
  <2>2. ASSUME NEW d \in DA!Running', NEW e \in recorded', {d, e} \notin concurrent
        PROVE  ApartFrom(d, e)'
    <3>1. d \in DA!Running /\ d # x /\ evaluation'[d] = evaluation[d]
      BY <1>2 DEF DA!Running
    <3>2. e # x
      BY <1>2, <2>2, <3>1 DEF AlertsTogether
    <3> QED
      BY <1>1, <2>2, <3>1, <3>2 DEF AlertsApart, ApartFrom
  <2> QED
    BY <1>1, <2>1, <2>2 DEF AlertsApart
<1>7. DA!AlertsSpaced'
  <2> SUFFICES ASSUME ~setBack, NEW d \in recorded', NEW e \in recorded', d # e, {d, e} \notin concurrent
               PROVE  alerts[d] - alerts[e] >= Cooldown \/ alerts[e] - alerts[d] >= Cooldown
    BY <1>1 DEF DA!AlertsSpaced
  <2>1. {e, d} \notin concurrent
    <3>1. {e, d} = {d, e}
      OBVIOUS
    <3> QED
      BY <3>1
  <2>2. CASE d = x
    BY <1>1, <1>2, <2>2 DEF AlertsApart, ApartFrom
  <2>3. CASE e = x
    BY <1>1, <1>2, <2>1, <2>3 DEF AlertsApart, ApartFrom
  <2>4. CASE d # x /\ e # x
    BY <1>1, <2>4 DEF DA!AlertsSpaced
  <2> QED
    BY <2>2, <2>3, <2>4
<1>8. DA!NoTriggerUncounted'
  BY <1>1, <1>3, AlertCardinality DEF DA!NoTriggerUncounted
<1> QED
  BY <1>4, <1>5, <1>6, <1>7, <1>8
(* An edit that writes back another row than there is now is remembered.    *)
LEMMA FormHolds ==
    ASSUME Cooldown \in Nat, AlertInv, DA!LoadForm \/ DA!SaveForm
    PROVE  AlertInv'
<1>1. UNCHANGED <<now, evaluation, lastRead, alerts, recorded, concurrent>>
  BY DEF DA!LoadForm, DA!SaveForm
<1>2. DA!Running' = DA!Running
  BY <1>1 DEF DA!Running
<1>3. \A row \in {alertRule', form'} : row.last_triggered_at \in Int /\ row.trigger_count \in Int
  BY DEF DA!LoadForm, DA!SaveForm, AlertInv, AlertTypes, DA!NoForm, DA!Never
<1>4. (setBack \/ setBack' \/ alertRule' = alertRule) /\ (setBack => setBack')
  <2>1. CASE DA!LoadForm
    BY <2>1, Zenon DEF DA!LoadForm
  <2>2. CASE DA!SaveForm
    <3>1. setBack' = (setBack \/ form # alertRule) /\ alertRule' = form
      BY <2>2 DEF DA!SaveForm
    <3> QED
      BY <3>1, Zenon
  <2> QED
    BY <2>1, <2>2
<1> QED
  BY <1>1, <1>2, <1>3, <1>4, QuietAlertStep DEF AlertInv, AlertTypes

LEMMA AlertStep ==
    ASSUME Cooldown \in Nat, AlertInv, [DA!Next]_alertVars
    PROVE  AlertInv'
<1>1. CASE DA!Minute
  <2>1. DA!Running' = DA!Running
    BY <1>1 DEF DA!Minute, DA!Running
  <2> QED
    BY <1>1, <2>1, QuietAlertStep DEF DA!Minute, AlertInv, AlertTypes
<1>2. ASSUME NEW e \in Evaluations, DA!ReadRules(e) \/ DA!Evaluate(e) PROVE AlertInv'
  BY <1>2, ReadRulesHolds, EvaluateAlertHolds
<1>3. ASSUME NEW e \in Evaluations, DA!CreateAlert(e) PROVE AlertInv'
  BY <1>3, CreateAlertHolds
<1>4. ASSUME NEW e \in Evaluations, DA!record_trigger(e) PROVE AlertInv'
  BY <1>4, RecordTriggerHolds
<1>5. ASSUME NEW e \in Evaluations, DA!Die(e) PROVE AlertInv'
  <2>1. /\ e \in DA!Running /\ evaluation' = [evaluation EXCEPT ![e] = "done"]
        /\ UNCHANGED <<now, alertRule, lastRead, alerts, recorded, concurrent, form, setBack>>
    BY <1>5 DEF DA!Die
  <2>2. evaluation' \in [Evaluations -> {"queued", "read", "alert", "record", "done"}]
    BY <2>1 DEF AlertInv, AlertTypes
  <2>3. \A d \in Evaluations : d \in DA!Running' => d \in DA!Running /\ evaluation'[d] = evaluation[d]
    BY <2>1 DEF AlertInv, AlertTypes, DA!Running
  <2>4. \A d \in recorded : evaluation'[d] = evaluation[d]
    BY <2>1 DEF AlertInv, AlertTypes, AlertsTogether, DA!Running
  <2> QED
    BY <2>1, <2>2, <2>3, <2>4, QuietAlertStep DEF AlertInv, AlertTypes
<1>6. CASE DA!LoadForm \/ DA!SaveForm
  BY <1>6, FormHolds
<1>7. CASE UNCHANGED alertVars
  <2>1. DA!Running' = DA!Running
    BY <1>7 DEF alertVars, DA!Running
  <2> QED
    BY <1>7, <2>1, QuietAlertStep DEF alertVars, AlertInv, AlertTypes
<1> QED
  BY <1>1, <1>2, <1>3, <1>4, <1>5, <1>6, <1>7 DEF DA!Next

-----------------------------------------------------------------------------

(* Service catalog requests. *)

Undecided == {"none", "pending_approval", "rejected"}

RequestTypes ==
    /\ request \in [present : BOOLEAN, job : JobIds \union {0},
                    status : SR!TERMINAL_STATUSES \union {"none", "pending_approval", "running"}]
    /\ jobStatus \in [JobIds -> SR!Final \union {"absent", "new", "pending", "running"}]
    /\ decision \in [Users -> {"none", "approve", "reject", "delete"}]
    /\ hook \in [JobIds -> {"idle", "due", "loaded"}]
    /\ lostHooks \in Nat
    /\ overlap \in BOOLEAN

\* Only a job that has ended has a hook to run.
HooksFollow == \A j \in JobIds : hook[j] # "idle" => jobStatus[j] \in SR!Final

\* A launched job is the one that the request links, and the request has been decided.
LaunchedIsLinked ==
    \A j \in JobIds : jobStatus[j] # "absent" =>
        /\ request.job = j
        /\ request.present
        /\ request.status \notin Undecided

\* What a user has found when the API request began still holds.
StillOpen ==
    \A u \in Users : decision[u] # "none" =>
        /\ request.present
        /\ request.status = "pending_approval" \/ (decision[u] = "delete" /\ request.status = "rejected")

DecidedInv == HooksFollow /\ (~overlap => LaunchedIsLinked /\ StillOpen)

\* The request runs until the hook of its job has saved.
Follows ==
    \A j \in JobIds :
        /\ jobStatus[j] \in {"new", "pending", "running"} => request.status = "running" /\ hook[j] = "idle"
        /\ hook[j] # "idle" => request.status = "running"
        /\ jobStatus[j] \in SR!Final /\ hook[j] = "idle" => request.status = SR!Mapping(jobStatus[j])

FollowsInv == ~overlap /\ lostHooks = 0 => Follows

JobsAssumed == JobIds \subseteq Nat \ {0}

\* A launch fails the request, or creates and links a job that was absent.
LEMMA LaunchCases ==
    ASSUME JobsAssumed, RequestTypes, SR!Launch
    PROVE  \/ /\ request' = [present |-> TRUE, status |-> "failed", job |-> request.job]
              /\ jobStatus' = jobStatus
           \/ \E j \in JobIds, s \in {"pending", "new"} :
                /\ jobStatus[j] = "absent"
                /\ request' = [present |-> TRUE, status |-> "running", job |-> j]
                /\ jobStatus' = [jobStatus EXCEPT ![j] = s]
<1>1. CASE /\ request' = [request EXCEPT !.present = TRUE, !.status = "failed"]
           /\ UNCHANGED jobStatus
  <2>1. request = [present |-> request.present, status |-> request.status, job |-> request.job]
    BY DEF RequestTypes
  <2> QED
    BY <1>1, <2>1
<1>2. ASSUME NEW j \in JobIds, NEW started \in BOOLEAN,
             \A i \in JobIds : jobStatus[i] = "absent" <=> i >= j,
             request' = [present |-> TRUE, status |-> "running", job |-> j],
             jobStatus' = [jobStatus EXCEPT ![j] = IF started THEN "pending" ELSE "new"]
      PROVE  \E s \in {"pending", "new"} :
                /\ jobStatus[j] = "absent"
                /\ request' = [present |-> TRUE, status |-> "running", job |-> j]
                /\ jobStatus' = [jobStatus EXCEPT ![j] = s]
  <2>1. jobStatus[j] = "absent"
    BY <1>2 DEF JobsAssumed
  <2> QED
    BY <1>2, <2>1
<1> QED
  BY <1>1, <1>2 DEF SR!Launch

LEMMA TypesAfterLaunch ==
    ASSUME JobsAssumed, RequestTypes, SR!Launch
    PROVE  /\ request' \in [present : BOOLEAN, job : JobIds \union {0},
                            status : SR!TERMINAL_STATUSES \union {"none", "pending_approval", "running"}]
           /\ jobStatus' \in [JobIds -> SR!Final \union {"absent", "new", "pending", "running"}]
<1>1. CASE /\ request' = [present |-> TRUE, status |-> "failed", job |-> request.job]
           /\ jobStatus' = jobStatus
  BY <1>1 DEF RequestTypes, SR!TERMINAL_STATUSES
<1>2. ASSUME NEW j \in JobIds, NEW s \in {"pending", "new"},
             request' = [present |-> TRUE, status |-> "running", job |-> j],
             jobStatus' = [jobStatus EXCEPT ![j] = s]
      PROVE  /\ request' \in [present : BOOLEAN, job : JobIds \union {0},
                              status : SR!TERMINAL_STATUSES \union {"none", "pending_approval", "running"}]
             /\ jobStatus' \in [JobIds -> SR!Final \union {"absent", "new", "pending", "running"}]
  BY <1>2 DEF RequestTypes
<1> QED
  BY <1>1, <1>2, LaunchCases

LEMMA RequestTypesStep ==
    ASSUME JobsAssumed, RequestTypes, HooksFollow, [SR!Next]_requestVars
    PROVE  RequestTypes'
<1>1. ASSUME NEW a \in BOOLEAN, SR!Submit(a) PROVE RequestTypes'
  <2>1. CASE a
    BY <1>1, <2>1 DEF SR!Submit, RequestTypes
  <2>2. CASE ~a
    BY <1>1, <2>2, TypesAfterLaunch DEF SR!Submit, RequestTypes
  <2> QED
    BY <2>1, <2>2
<1>2. ASSUME NEW u \in Users, NEW kind \in {"approve", "reject", "delete"}, SR!Begin(u, kind) PROVE RequestTypes'
  BY <1>2 DEF SR!Begin, RequestTypes
<1>3. ASSUME NEW u \in Users, SR!Decide(u) PROVE RequestTypes'
  <2>1. /\ request' \in [present : BOOLEAN, job : JobIds \union {0},
                         status : SR!TERMINAL_STATUSES \union {"none", "pending_approval", "running"}]
        /\ jobStatus' \in [JobIds -> SR!Final \union {"absent", "new", "pending", "running"}]
    <3>1. CASE SR!Launch
      BY <3>1, TypesAfterLaunch
    <3>2. CASE ~SR!Launch
      BY <1>3, <3>2 DEF SR!Decide, RequestTypes, SR!TERMINAL_STATUSES
    <3> QED
      BY <3>1, <3>2
  <2>2. overlap' \in BOOLEAN
    BY <1>3 DEF SR!Decide, RequestTypes
  <2> QED
    BY <1>3, <2>1, <2>2 DEF SR!Decide, RequestTypes
<1>4. ASSUME NEW j \in JobIds, SR!JobRuns(j) \/ SR!HookQuery(j) \/ SR!HookLost(j) PROVE RequestTypes'
  BY <1>4 DEF SR!JobRuns, SR!HookQuery, SR!HookLost, RequestTypes
<1>5. ASSUME NEW j \in JobIds, SR!HookSave(j) PROVE RequestTypes'
  BY <1>5 DEF SR!HookSave, RequestTypes, HooksFollow, SR!Mapping, SR!Final, SR!TERMINAL_STATUSES
<1>6. ASSUME NEW j \in JobIds, NEW s \in SR!Final, SR!JobEnds(j, s) PROVE RequestTypes'
  BY <1>6 DEF SR!JobEnds, RequestTypes
<1>7. CASE UNCHANGED requestVars
  BY <1>7 DEF requestVars, RequestTypes
<1> QED
  BY <1>1, <1>2, <1>3, <1>4, <1>5, <1>6, <1>7 DEF SR!Next, SR!Progress

LEMMA HooksFollowStep ==
    ASSUME JobsAssumed, RequestTypes, HooksFollow, [SR!Next]_requestVars
    PROVE  HooksFollow'
<1> USE DEF RequestTypes, HooksFollow, SR!Final
<1>1. ASSUME UNCHANGED hook, \A j \in JobIds : jobStatus[j] \in SR!Final => jobStatus'[j] = jobStatus[j]
      PROVE  HooksFollow'
  BY <1>1
<1>2. ASSUME SR!Launch PROVE \A j \in JobIds : jobStatus[j] \in SR!Final => jobStatus'[j] = jobStatus[j]
  <2>1. ASSUME NEW i \in JobIds, NEW s \in {"pending", "new"}, jobStatus[i] = "absent",
               jobStatus' = [jobStatus EXCEPT ![i] = s]
        PROVE  \A j \in JobIds : jobStatus[j] \in SR!Final => jobStatus'[j] = jobStatus[j]
    BY <2>1
  <2> QED
    BY <1>2, <2>1, LaunchCases
<1>3. ASSUME NEW a \in BOOLEAN, SR!Submit(a) PROVE HooksFollow'
  BY <1>1, <1>2, <1>3 DEF SR!Submit
<1>4. ASSUME NEW u \in Users, SR!Decide(u) PROVE HooksFollow'
  <2>1. CASE SR!Launch
    BY <1>1, <1>2, <1>4, <2>1 DEF SR!Decide
  <2>2. CASE ~SR!Launch
    BY <1>4, <2>2 DEF SR!Decide
  <2> QED
    BY <2>1, <2>2
<1>5. ASSUME NEW u \in Users, NEW kind \in {"approve", "reject", "delete"}, SR!Begin(u, kind) PROVE HooksFollow'
  BY <1>5 DEF SR!Begin
<1>6. ASSUME NEW j \in JobIds, SR!JobRuns(j) \/ SR!HookQuery(j) \/ SR!HookSave(j) \/ SR!HookLost(j) PROVE HooksFollow'
  BY <1>6 DEF SR!JobRuns, SR!HookQuery, SR!HookSave, SR!HookLost
<1>7. ASSUME NEW j \in JobIds, NEW s \in SR!Final, SR!JobEnds(j, s) PROVE HooksFollow'
  BY <1>7 DEF SR!JobEnds
<1>8. CASE UNCHANGED requestVars
  BY <1>8 DEF requestVars
<1> QED
  BY <1>3, <1>4, <1>5, <1>6, <1>7, <1>8 DEF SR!Next, SR!Progress

LEMMA DecidedStep ==
    ASSUME JobsAssumed, RequestTypes, DecidedInv, [SR!Next]_requestVars
    PROVE  DecidedInv'
<1>0. HooksFollow'
  BY HooksFollowStep DEF DecidedInv
<1> USE DEF RequestTypes, Undecided
<1> SUFFICES ASSUME ~overlap' PROVE (LaunchedIsLinked /\ StillOpen)'
  BY <1>0 DEF DecidedInv
<1>1. ~overlap
  <2>1. \A u \in Users : SR!Decide(u) => ~overlap
    BY DEF SR!Decide
  <2> QED
    BY <2>1 DEF SR!Next, SR!Progress, SR!Submit, SR!Begin, SR!HookLost, SR!JobRuns, SR!HookQuery, SR!HookSave, SR!JobEnds, requestVars
<1>2. LaunchedIsLinked /\ StillOpen /\ HooksFollow
  BY <1>1 DEF DecidedInv
\* A launch while no user decides about the request, or only the one whose decision it is.
<1>3. ASSUME SR!Launch, request.status \in {"none", "pending_approval"} PROVE LaunchedIsLinked'
  <2>1. \A j \in JobIds : jobStatus[j] = "absent"
    BY <1>2, <1>3 DEF LaunchedIsLinked
  <2>2. ASSUME jobStatus' = jobStatus PROVE LaunchedIsLinked'
    BY <2>1, <2>2 DEF LaunchedIsLinked
  <2>3. ASSUME NEW i \in JobIds, NEW s \in {"pending", "new"},
               request' = [present |-> TRUE, status |-> "running", job |-> i],
               jobStatus' = [jobStatus EXCEPT ![i] = s]
        PROVE  LaunchedIsLinked'
    BY <2>1, <2>3 DEF LaunchedIsLinked
  <2> QED
    BY <1>3, <2>2, <2>3, LaunchCases
<1>4. ASSUME NEW a \in BOOLEAN, SR!Submit(a) PROVE (LaunchedIsLinked /\ StillOpen)'
  <2>1. \A u \in Users : decision'[u] = "none"
    BY <1>2, <1>4 DEF SR!Submit, StillOpen
  <2>2. CASE a
    BY <1>2, <1>4, <2>1, <2>2 DEF SR!Submit, LaunchedIsLinked, StillOpen
  <2>3. CASE ~a
    BY <1>3, <1>4, <2>1, <2>3 DEF SR!Submit, StillOpen
  <2> QED
    BY <2>2, <2>3
<1>5. ASSUME NEW u \in Users, NEW kind \in {"approve", "reject", "delete"}, SR!Begin(u, kind)
      PROVE  (LaunchedIsLinked /\ StillOpen)'
  BY <1>2, <1>5 DEF SR!Begin, LaunchedIsLinked, StillOpen
<1>6. ASSUME NEW u \in Users, SR!Decide(u) PROVE (LaunchedIsLinked /\ StillOpen)'
  <2>1. \A v \in Users : decision'[v] = "none"
    BY <1>6 DEF SR!Decide, SR!Others
  <2>2. decision[u] # "none" /\ request.present
    BY <1>2, <1>6 DEF SR!Decide, StillOpen
  <2>3. CASE decision[u] = "approve" /\ SR!Launch
    BY <1>2, <1>3, <2>1, <2>3 DEF StillOpen
  <2>4. CASE decision[u] # "approve"
    BY <1>2, <1>6, <2>1, <2>2, <2>4 DEF SR!Decide, StillOpen, LaunchedIsLinked
  <2> QED
    BY <1>6, <2>2, <2>3, <2>4 DEF SR!Decide
<1>7. ASSUME NEW j \in JobIds, SR!JobRuns(j) \/ SR!HookQuery(j) \/ SR!HookLost(j)
      PROVE  (LaunchedIsLinked /\ StillOpen)'
  BY <1>2, <1>7 DEF SR!JobRuns, SR!HookQuery, SR!HookLost, LaunchedIsLinked, StillOpen
<1>8. ASSUME NEW j \in JobIds, SR!HookSave(j) PROVE (LaunchedIsLinked /\ StillOpen)'
  <2>1. jobStatus[j] \in SR!Final
    BY <1>2, <1>8 DEF SR!HookSave, HooksFollow
  <2>2. request.present /\ request.job = j /\ request.status \notin Undecided
    BY <1>2, <2>1 DEF LaunchedIsLinked, SR!Final
  <2>3. request' = [request EXCEPT !.status = SR!Mapping(jobStatus[j])]
    BY <1>8, <2>2 DEF SR!HookSave
  <2>4. SR!Mapping(jobStatus[j]) \in {"successful", "failed", "canceled"}
    BY <2>1 DEF SR!Mapping, SR!Final
  <2>5. UNCHANGED <<jobStatus, decision>>
    BY <1>8 DEF SR!HookSave
  <2> QED
    BY <1>2, <2>2, <2>3, <2>4, <2>5 DEF LaunchedIsLinked, StillOpen
<1>9. ASSUME NEW j \in JobIds, NEW s \in SR!Final, SR!JobEnds(j, s) PROVE (LaunchedIsLinked /\ StillOpen)'
  BY <1>2, <1>9 DEF SR!JobEnds, LaunchedIsLinked, StillOpen
<1>10. CASE UNCHANGED requestVars
  BY <1>2, <1>10 DEF requestVars, LaunchedIsLinked, StillOpen
<1> QED
  BY <1>4, <1>5, <1>6, <1>7, <1>8, <1>9, <1>10 DEF SR!Next, SR!Progress

LEMMA FollowsStep ==
    ASSUME JobsAssumed, RequestTypes, DecidedInv, FollowsInv, [SR!Next]_requestVars
    PROVE  FollowsInv'
<1> USE DEF RequestTypes, SR!Final
<1> SUFFICES ASSUME ~overlap', lostHooks' = 0 PROVE Follows'
  BY DEF FollowsInv
<1>1. ~overlap
  <2>1. \A u \in Users : SR!Decide(u) => ~overlap
    BY DEF SR!Decide
  <2> QED
    BY <2>1 DEF SR!Next, SR!Progress, SR!Submit, SR!Begin, SR!HookLost, SR!JobRuns, SR!HookQuery, SR!HookSave, SR!JobEnds, requestVars
<1>2. lostHooks = 0 /\ \A j \in JobIds : ~SR!HookLost(j)
  BY DEF SR!Next, SR!Progress, SR!Submit, SR!Begin, SR!Decide, SR!HookLost, SR!JobRuns, SR!HookQuery, SR!HookSave, SR!JobEnds, requestVars
<1>3. LaunchedIsLinked /\ StillOpen /\ HooksFollow /\ Follows
  BY <1>1, <1>2 DEF DecidedInv, FollowsInv
<1>4. ASSUME SR!Launch, request.status \in {"none", "pending_approval"}, UNCHANGED hook PROVE Follows'
  <2>1. \A j \in JobIds : jobStatus[j] = "absent" /\ hook[j] = "idle"
    BY <1>3, <1>4 DEF LaunchedIsLinked, Undecided, HooksFollow
  <2>2. ASSUME jobStatus' = jobStatus PROVE Follows'
    BY <1>4, <2>1, <2>2 DEF Follows
  <2>3. ASSUME NEW i \in JobIds, NEW s \in {"pending", "new"},
               request' = [present |-> TRUE, status |-> "running", job |-> i],
               jobStatus' = [jobStatus EXCEPT ![i] = s]
        PROVE  Follows'
    BY <1>4, <2>1, <2>3 DEF Follows
  <2> QED
    BY <1>4, <2>2, <2>3, LaunchCases
<1>5. ASSUME NEW a \in BOOLEAN, SR!Submit(a) PROVE Follows'
  <2>1. CASE a
    <3>1. \A j \in JobIds : jobStatus[j] = "absent" /\ hook[j] = "idle"
      BY <1>3, <1>5 DEF SR!Submit, LaunchedIsLinked, Undecided, HooksFollow
    <3> QED
      BY <1>5, <2>1, <3>1 DEF SR!Submit, Follows
  <2>2. CASE ~a
    BY <1>4, <1>5, <2>2 DEF SR!Submit
  <2> QED
    BY <2>1, <2>2
<1>6. ASSUME NEW u \in Users, NEW kind \in {"approve", "reject", "delete"}, SR!Begin(u, kind) PROVE Follows'
  BY <1>3, <1>6 DEF SR!Begin, Follows
<1>7. ASSUME NEW u \in Users, SR!Decide(u) PROVE Follows'
  <2>1. decision[u] # "none" /\ request.present
    BY <1>3, <1>7 DEF SR!Decide, StillOpen
  <2>2. CASE decision[u] = "approve" /\ SR!Launch
    BY <1>3, <1>4, <1>7, <2>1, <2>2 DEF SR!Decide, StillOpen
  <2>3. CASE decision[u] # "approve"
    <3>1. request.status \in Undecided
      BY <1>3, <2>1 DEF StillOpen, Undecided
    <3>2. \A j \in JobIds : jobStatus[j] = "absent" /\ hook[j] = "idle"
      BY <1>3, <3>1 DEF LaunchedIsLinked, HooksFollow
    <3> QED
      BY <1>7, <2>1, <2>3, <3>2 DEF SR!Decide, Follows
  <2> QED
    BY <1>7, <2>1, <2>2, <2>3 DEF SR!Decide
<1>8. ASSUME NEW j \in JobIds, SR!JobRuns(j) PROVE Follows'
  BY <1>3, <1>8 DEF SR!JobRuns, Follows
<1>9. ASSUME NEW j \in JobIds, SR!HookQuery(j) PROVE Follows'
  <2>1. request.present /\ request.job = j /\ request.status = "running"
    BY <1>3, <1>9 DEF SR!HookQuery, HooksFollow, LaunchedIsLinked, Follows
  <2>2. hook' = [hook EXCEPT ![j] = "loaded"]
    BY <1>9, <2>1 DEF SR!HookQuery, SR!TERMINAL_STATUSES
  <2> QED
    BY <1>3, <1>9, <2>2 DEF SR!HookQuery, Follows
<1>10. ASSUME NEW j \in JobIds, SR!HookSave(j) PROVE Follows'
  <2>1. jobStatus[j] \in SR!Final
    BY <1>3, <1>10 DEF SR!HookSave, HooksFollow
  <2>2. request.present /\ request.job = j
    BY <1>3, <2>1 DEF LaunchedIsLinked
  <2>3. request'.status = SR!Mapping(jobStatus[j])
    BY <1>10, <2>2 DEF SR!HookSave
  <2>4. \A i \in JobIds : i # j => jobStatus[i] = "absent" /\ hook[i] = "idle"
    BY <1>3, <2>2 DEF LaunchedIsLinked, HooksFollow
  <2> QED
    BY <1>10, <2>1, <2>3, <2>4 DEF SR!HookSave, Follows
<1>11. ASSUME NEW j \in JobIds, NEW s \in SR!Final, SR!JobEnds(j, s) PROVE Follows'
  BY <1>3, <1>11 DEF SR!JobEnds, Follows
<1>12. CASE UNCHANGED requestVars
  BY <1>3, <1>12 DEF requestVars, Follows
<1> QED
  BY <1>2, <1>5, <1>6, <1>7, <1>8, <1>9, <1>10, <1>11, <1>12 DEF SR!Next, SR!Progress

LEMMA InitialRequest ==
    ASSUME JobsAssumed, SR!Init
    PROVE  RequestTypes /\ DecidedInv /\ FollowsInv
BY DEF SR!Init, RequestTypes, DecidedInv, FollowsInv, HooksFollow, LaunchedIsLinked, StillOpen, Follows, SR!Final

-----------------------------------------------------------------------------

(* The quota of a tenant. *)

Held == {"blocked", "admitted"}

UsageRow == [running : Nat, launches : Nat, window : Int]

QuotaTypes ==
    /\ day \in Nat
    /\ usage \in UsageRow /\ usage.window <= day
    /\ launch \in [Launches -> {"none", "blocked", "admitted", "live", "gone", "unasked", "ended"}]
    /\ today \in [Launches -> Int] /\ \A l \in Launches : today[l] <= day
    /\ recalculation \in [at : {"idle", "read", "counted"}, row : UsageRow, counted : Nat]
    /\ recalculation.row.window <= day
    /\ overwritten \in BOOLEAN

\* The row lock has one holder, whose day is not before the row's window; a launch that did not ask has no day.
Locks ==
    /\ \A l, m \in Launches : launch[l] \in Held /\ launch[m] \in Held => l = m
    /\ \A l \in Launches : launch[l] \in Held => today[l] >= 0 /\ today[l] >= usage.window
    /\ \A l \in Launches : launch[l] \in {"none", "unasked"} => today[l] = TQ!NoDay

Playing == {l \in Launches : launch[l] = "live"}

\* While a launch is admitted there is still a place; the row, and the count about to be saved, cover the jobs.
LoadInv ==
    /\ \A l \in Launches : launch[l] = "admitted" => usage.running < MaxConcurrent
    /\ ~overwritten => /\ Cardinality(Playing) <= usage.running
                       /\ Cardinality(Playing) <= MaxConcurrent
                       /\ recalculation.at = "counted" => Cardinality(Playing) <= recalculation.counted

\* The launches of day d that have been counted in the row.
Counted(d) == {l \in Launches : today[l] = d /\ launch[l] \notin Held}

\* A row covers the counted launches of its window, and no launch has been counted on a later day.
Ledger(row) ==
    /\ row.window >= 0 => Cardinality(Counted(row.window)) <= row.launches
    /\ \A d \in Nat : d > row.window => Counted(d) = {}

LedgerInv ==
    ~overwritten => /\ Ledger(usage)
                    /\ recalculation.at # "idle" => Ledger(recalculation.row)

QuotaAssumed == IsFiniteSet(Launches) /\ MaxConcurrent \in Nat \ {0} /\ MaxDaily \in Nat \ {0} /\ LastDay \in Nat

\* The number that TenantQuota counts with is the number of the library.
LEMMA QuotaCardinality == \A S : TQ!Cardinality(S) = Cardinality(S)
BY DEF TQ!Cardinality, Cardinality

LEMMA FiniteParts ==
    ASSUME IsFiniteSet(Launches), NEW S, S \subseteq Launches
    PROVE  IsFiniteSet(S) /\ Cardinality(S) \in Nat
BY FS_Subset, FS_CardinalityType

\* A set of launches that gains at most one launch gains at most one in number.
LEMMA OneMore ==
    ASSUME IsFiniteSet(Launches), NEW S, NEW T, NEW l \in Launches, S \subseteq Launches, T \subseteq S \union {l}
    PROVE  Cardinality(T) \in Nat /\ Cardinality(S) \in Nat /\ Cardinality(T) <= Cardinality(S) + 1
<1>1. IsFiniteSet(S) /\ Cardinality(S) \in Nat
  BY FiniteParts
<1>2. /\ IsFiniteSet(S \union {l})
      /\ Cardinality(S \union {l}) <= Cardinality(S) + 1
  BY <1>1, FS_AddElement
<1>3. Cardinality(T) <= Cardinality(S \union {l})
  BY <1>2, FS_Subset
<1>4. Cardinality(S \union {l}) \in Nat /\ Cardinality(T) \in Nat
  BY <1>2, FS_Subset, FS_CardinalityType
<1> QED
  BY <1>1, <1>2, <1>3, <1>4

\* A part of a set of launches is not larger.
LEMMA NoMore ==
    ASSUME IsFiniteSet(Launches), NEW S, NEW T, S \subseteq Launches, T \subseteq S
    PROVE  Cardinality(T) \in Nat /\ Cardinality(S) \in Nat /\ Cardinality(T) <= Cardinality(S)
BY FS_Subset, FS_CardinalityType

LEMMA RolledOverType ==
    ASSUME QuotaTypes, NEW d \in Int
    PROVE  /\ TQ!RolledOver(d) \in UsageRow
           /\ TQ!RolledOver(d).window = d
           /\ TQ!RolledOver(d).running = usage.running
           /\ usage.window = d => TQ!RolledOver(d).launches = usage.launches
           /\ usage.window # d => TQ!RolledOver(d).launches = 0
BY DEF QuotaTypes, TQ!RolledOver, UsageRow

LEMMA TodayType ==
    ASSUME QuotaTypes, NEW l \in Launches
    PROVE  today[l] \in Int /\ today[l] <= day
BY DEF QuotaTypes

\* What an answer commits to the row.
LEMMA CommittedRow ==
    ASSUME QuotaTypes, NEW l \in Launches
    PROVE  /\ TQ!Refuse(l) => usage' = TQ!RolledOver(today[l])
           /\ TQ!Admit(l) => /\ usage' \in UsageRow
                          /\ usage'.window = today[l]
                          /\ usage'.running = usage.running + 1
                          /\ usage'.launches = TQ!RolledOver(today[l]).launches + 1
<1>1. PICK row \in UsageRow : /\ row = TQ!RolledOver(today[l])
                              /\ row.window = today[l]
                              /\ row.running = usage.running
  BY TodayType, RolledOverType
<1> DEFINE next == [row EXCEPT !.running = row.running + 1, !.launches = row.launches + 1]
<1>2. next.running = row.running + 1
  BY DEF UsageRow
<1>3. next.launches = row.launches + 1
  BY DEF UsageRow
<1>4. next.window = row.window /\ next \in UsageRow
  <2>1. row.running + 1 \in Nat /\ row.launches + 1 \in Nat
    BY DEF UsageRow
  <2>2. next.window = row.window
    BY DEF UsageRow
  <2>3. ASSUME NEW n \in Nat, NEW m \in Nat
        PROVE  [row EXCEPT !.running = n, !.launches = m] \in UsageRow
    BY DEF UsageRow
  <2> QED
    BY <2>1, <2>2, <2>3
<1>5. TQ!Refuse(l) => usage' = TQ!RolledOver(today[l])
  BY DEF TQ!Refuse
<1>6. ASSUME TQ!Admit(l)
      PROVE  /\ usage' \in UsageRow
             /\ usage'.window = today[l]
             /\ usage'.running = usage.running + 1
             /\ usage'.launches = TQ!RolledOver(today[l]).launches + 1
  BY <1>1, <1>2, <1>3, <1>4, <1>6 DEF TQ!Admit
<1> QED
  BY <1>5, <1>6

LEMMA QuotaTypesStep ==
    ASSUME QuotaAssumed, QuotaTypes, Locks, [TQ!Next]_quotaVars
    PROVE  QuotaTypes'
<1>1. CASE TQ!NextDay
  BY <1>1 DEF TQ!NextDay, QuotaTypes, UsageRow
<1>2. ASSUME NEW l \in Launches, TQ!CheckQuota(l) PROVE QuotaTypes'
  BY <1>2 DEF TQ!CheckQuota, QuotaTypes
<1>3. ASSUME NEW l \in Launches, TQ!StartUnasked(l) \/ TQ!JobEnds(l) PROVE QuotaTypes'
  BY <1>3 DEF TQ!StartUnasked, TQ!JobEnds, QuotaTypes
<1>4. ASSUME NEW l \in Launches, TQ!Refuse(l) PROVE QuotaTypes'
  <2>1. usage' \in UsageRow /\ usage'.window <= day
    BY <1>4, CommittedRow, TodayType, RolledOverType
  <2>2. today' \in [Launches -> Int] /\ \A m \in Launches : today'[m] <= day
    BY <1>4 DEF TQ!Refuse, QuotaTypes, TQ!NoDay
  <2> QED
    BY <1>4, <2>1, <2>2 DEF TQ!Refuse, QuotaTypes
<1>5. ASSUME NEW l \in Launches, TQ!Admit(l) PROVE QuotaTypes'
  <2>1. usage' \in UsageRow /\ usage'.window = today[l]
    BY <1>5, CommittedRow
  <2>2. launch' \in [Launches -> {"none", "blocked", "admitted", "live", "gone", "unasked", "ended"}]
    BY <1>5 DEF TQ!Admit, QuotaTypes
  <2> QED
    BY <1>5, <2>1, <2>2, TodayType DEF TQ!Admit, QuotaTypes
<1>6. CASE TQ!ReadUsage
  BY <1>6 DEF TQ!ReadUsage, QuotaTypes
<1>7. CASE TQ!CountJobs
  <2>1. Cardinality(TQ!Live) \in Nat
    BY FiniteParts DEF QuotaAssumed, TQ!Live
  <2> QED
    BY <1>7, <2>1, QuotaCardinality DEF TQ!CountJobs, QuotaTypes
<1>8. CASE TQ!SaveUsage
  BY <1>8 DEF TQ!SaveUsage, QuotaTypes, UsageRow, TQ!Idle, TQ!NoDay
<1>9. CASE UNCHANGED quotaVars
  BY <1>9 DEF quotaVars, QuotaTypes
<1> QED
  BY <1>1, <1>2, <1>3, <1>4, <1>5, <1>6, <1>7, <1>8, <1>9 DEF TQ!Next, TQ!Answer, TQ!Recalculate

LEMMA LocksStep ==
    ASSUME QuotaAssumed, QuotaTypes, Locks, [TQ!Next]_quotaVars
    PROVE  Locks'
<1> USE DEF Held, QuotaTypes
<1>1. CASE TQ!NextDay
  BY <1>1 DEF TQ!NextDay, Locks
<1>2. ASSUME NEW l \in Launches, TQ!CheckQuota(l) PROVE Locks'
  BY <1>2 DEF TQ!CheckQuota, Locks, TQ!Locked
<1>3. ASSUME NEW l \in Launches, TQ!StartUnasked(l) \/ TQ!JobEnds(l) PROVE Locks'
  BY <1>3 DEF TQ!StartUnasked, TQ!JobEnds, Locks
<1>4. ASSUME NEW l \in Launches, TQ!Refuse(l) PROVE Locks'
  BY <1>4 DEF TQ!Refuse, Locks, TQ!NoDay
<1>5. ASSUME NEW l \in Launches, TQ!Admit(l) PROVE Locks'
  BY <1>5 DEF TQ!Admit, Locks
<1>6. CASE TQ!ReadUsage
  BY <1>6 DEF TQ!ReadUsage, Locks
<1>7. CASE TQ!CountJobs
  BY <1>7 DEF TQ!CountJobs, Locks
<1>8. CASE TQ!SaveUsage
  BY <1>8 DEF TQ!SaveUsage, Locks, TQ!Locked
<1>9. CASE UNCHANGED quotaVars
  BY <1>9 DEF quotaVars, Locks
<1> QED
  BY <1>1, <1>2, <1>3, <1>4, <1>5, <1>6, <1>7, <1>8, <1>9 DEF TQ!Next, TQ!Answer, TQ!Recalculate

LEMMA LoadStep ==
    ASSUME QuotaAssumed, QuotaTypes, Locks, LoadInv, [TQ!Next]_quotaVars
    PROVE  LoadInv'
<1>0. /\ Cardinality(Playing) \in Nat
      /\ usage.running \in Nat /\ recalculation.counted \in Nat
      /\ MaxConcurrent \in Nat \ {0}
  BY FiniteParts DEF QuotaAssumed, Playing, QuotaTypes, UsageRow
\* Steps that start no job and save no row.
<1>1. ASSUME Playing' \subseteq Playing, UNCHANGED <<usage, recalculation, overwritten>>,
             \A l \in Launches : launch'[l] = "admitted" => usage.running < MaxConcurrent
      PROVE  LoadInv'
  <2>1. Cardinality(Playing') \in Nat /\ Cardinality(Playing') <= Cardinality(Playing)
    BY <1>1, NoMore DEF QuotaAssumed, Playing
  <2> QED
    BY <1>0, <1>1, <2>1 DEF LoadInv
<1>2. CASE TQ!NextDay
  BY <1>1, <1>2 DEF TQ!NextDay, LoadInv, Playing
<1>3. ASSUME NEW l \in Launches, TQ!CheckQuota(l) PROVE LoadInv'
  <2>1. \A m \in Launches : launch'[m] = "admitted" => usage.running < MaxConcurrent
    BY <1>0, <1>3 DEF TQ!CheckQuota, LoadInv, QuotaTypes, TQ!Below
  <2>2. Playing' \subseteq Playing
    BY <1>3 DEF TQ!CheckQuota, Playing, QuotaTypes
  <2> QED
    BY <1>1, <1>3, <2>1, <2>2 DEF TQ!CheckQuota
<1>4. ASSUME NEW l \in Launches, TQ!StartUnasked(l) \/ TQ!JobEnds(l) PROVE LoadInv'
  <2>1. Playing' \subseteq Playing
    BY <1>4 DEF TQ!StartUnasked, TQ!JobEnds, Playing, QuotaTypes
  <2>2. \A m \in Launches : launch'[m] = "admitted" => usage.running < MaxConcurrent
    BY <1>4 DEF TQ!StartUnasked, TQ!JobEnds, LoadInv, QuotaTypes
  <2> QED
    BY <1>1, <1>4, <2>1, <2>2 DEF TQ!StartUnasked, TQ!JobEnds
<1>5. ASSUME NEW l \in Launches, TQ!Refuse(l) PROVE LoadInv'
  <2>1. Playing' = Playing
    BY <1>5 DEF TQ!Refuse, Playing, QuotaTypes
  <2>2. usage'.running = usage.running
    BY <1>5, CommittedRow, TodayType, RolledOverType
  <2>3. \A m \in Launches : launch'[m] = "admitted" => launch[m] = "admitted"
    BY <1>5 DEF TQ!Refuse, QuotaTypes
  <2> QED
    BY <1>5, <2>1, <2>2, <2>3 DEF TQ!Refuse, LoadInv
<1>6. ASSUME NEW l \in Launches, TQ!Admit(l) PROVE LoadInv'
  <2>1. \A m \in Launches : launch'[m] # "admitted"
    BY <1>6 DEF TQ!Admit, Locks, Held, QuotaTypes
  <2>2. Playing \subseteq Launches /\ Playing' \subseteq Playing \union {l}
    BY <1>6 DEF TQ!Admit, Playing, QuotaTypes
  <2>3. Cardinality(Playing') \in Nat /\ Cardinality(Playing') <= Cardinality(Playing) + 1
    BY <2>2, OneMore DEF QuotaAssumed
  <2>4. usage'.running = usage.running + 1 /\ usage.running < MaxConcurrent
    BY <1>6, CommittedRow DEF TQ!Admit, LoadInv
  <2>5. ~overwritten' => ~overwritten /\ recalculation'.at = "idle"
    BY <1>6 DEF TQ!Admit, QuotaTypes
  <2> QED
    BY <1>0, <2>1, <2>3, <2>4, <2>5 DEF LoadInv
<1>7. CASE TQ!ReadUsage
  BY <1>7 DEF TQ!ReadUsage, LoadInv, Playing, QuotaTypes
<1>8. CASE TQ!CountJobs
  <2>1. Cardinality(Playing) <= Cardinality(TQ!Live)
    BY NoMore DEF QuotaAssumed, Playing, TQ!Live
  <2>2. recalculation'.counted = Cardinality(TQ!Live) /\ Playing' = Playing
    BY <1>8, QuotaCardinality DEF TQ!CountJobs, QuotaTypes, Playing
  <2> QED
    BY <1>8, <2>1, <2>2 DEF TQ!CountJobs, LoadInv
<1>9. CASE TQ!SaveUsage
  <2>1. usage'.running = recalculation.counted /\ recalculation.at = "counted" /\ recalculation'.at = "idle"
    BY <1>9 DEF TQ!SaveUsage, QuotaTypes, UsageRow, TQ!Idle
  <2>2. \A m \in Launches : launch'[m] # "admitted"
    BY <1>9 DEF TQ!SaveUsage, TQ!Locked
  <2>3. Playing' = Playing /\ overwritten' = overwritten
    BY <1>9 DEF TQ!SaveUsage, Playing
  <2> QED
    BY <2>1, <2>2, <2>3 DEF LoadInv
<1>10. CASE UNCHANGED quotaVars
  BY <1>10 DEF quotaVars, LoadInv, Playing
<1> QED
  BY <1>2, <1>3, <1>4, <1>5, <1>6, <1>7, <1>8, <1>9, <1>10 DEF TQ!Next, TQ!Answer, TQ!Recalculate

\* What a ledger says does not depend on a step that leaves the counted launches alone.
LEMMA LedgerKept ==
    ASSUME NEW row, row.window \in Int, Ledger(row), \A d \in Nat : Counted(d)' = Counted(d)
    PROVE  /\ row.window >= 0 => Cardinality(Counted(row.window)') <= row.launches
           /\ \A d \in Nat : d > row.window => Counted(d)' = {}
<1>1. row.window >= 0 => Counted(row.window)' = Counted(row.window)
  OBVIOUS
<1> QED
  BY <1>1 DEF Ledger

LEMMA LedgerStep ==
    ASSUME QuotaAssumed, QuotaTypes, Locks, LedgerInv, [TQ!Next]_quotaVars
    PROVE  LedgerInv'
<1>0. usage.window \in Int /\ recalculation.row.window \in Int
  BY DEF QuotaTypes, UsageRow
\* Steps that count no launch.
<1>1. ASSUME \A d \in Nat : Counted(d)' = Counted(d)
      PROVE  \A row : row.window \in Int /\ Ledger(row) =>
                          /\ row.window >= 0 => Cardinality(Counted(row.window)') <= row.launches
                          /\ \A d \in Nat : d > row.window => Counted(d)' = {}
  BY <1>1, LedgerKept
<1>2. ASSUME \A d \in Nat : Counted(d)' = Counted(d), UNCHANGED <<usage, overwritten>>,
             recalculation'.at = "idle" \/ recalculation'.row = usage
                \/ (recalculation.at # "idle" /\ recalculation'.row = recalculation.row)
      PROVE  LedgerInv'
  BY <1>0, <1>1, <1>2 DEF LedgerInv, Ledger
<1>3. CASE TQ!NextDay
  BY <1>2, <1>3 DEF TQ!NextDay, Counted
<1>4. ASSUME NEW l \in Launches, TQ!CheckQuota(l) PROVE LedgerInv'
  <2>1. \A d \in Nat : Counted(d)' = Counted(d)
    BY <1>4 DEF TQ!CheckQuota, Counted, Held, Locks, TQ!NoDay, QuotaTypes
  <2> QED
    BY <1>2, <1>4, <2>1 DEF TQ!CheckQuota
<1>5. ASSUME NEW l \in Launches, TQ!StartUnasked(l) \/ TQ!JobEnds(l) PROVE LedgerInv'
  <2>1. \A d \in Nat : Counted(d)' = Counted(d)
    BY <1>5 DEF TQ!StartUnasked, TQ!JobEnds, Counted, Held, QuotaTypes
  <2> QED
    BY <1>2, <1>5, <2>1 DEF TQ!StartUnasked, TQ!JobEnds
<1>6. ASSUME NEW l \in Launches, TQ!Refuse(l) PROVE LedgerInv'
  <2>1. \A d \in Nat : Counted(d)' = Counted(d)
    BY <1>6 DEF TQ!Refuse, Counted, Held, TQ!NoDay, QuotaTypes
  <2>2. PICK w \in Int : /\ w = today[l]
                         /\ usage' = TQ!RolledOver(w) /\ usage'.window = w
                         /\ w >= 0 /\ w >= usage.window
    BY <1>6, CommittedRow, TodayType, RolledOverType DEF TQ!Refuse, Locks, Held
  <2>3. ASSUME ~overwritten PROVE Ledger(usage)'
    <3>1. Ledger(usage)
      BY <2>3 DEF LedgerInv
    <3>2. \A d \in Nat : d > w => Counted(d)' = {}
      BY <1>0, <2>1, <2>2, <3>1 DEF Ledger
    <3>3. Counted(w)' = Counted(w)
      BY <2>1, <2>2
    <3>4. Cardinality(Counted(w)) <= usage'.launches
      <4>1. CASE usage.window = w
        BY <2>2, <3>1, <4>1, RolledOverType DEF Ledger
      <4>2. CASE usage.window # w
        <5>1. Counted(w) = {} /\ usage'.launches = 0
          BY <1>0, <2>2, <3>1, <4>2, RolledOverType DEF Ledger
        <5> QED
          BY <5>1, FS_EmptySet
      <4> QED
        BY <4>1, <4>2
    <3> QED
      BY <2>2, <3>2, <3>3, <3>4 DEF Ledger
  <2> QED
    BY <1>0, <1>1, <1>6, <2>1, <2>3 DEF TQ!Refuse, LedgerInv, Ledger
<1>7. ASSUME NEW l \in Launches, TQ!Admit(l) PROVE LedgerInv'
  <2> SUFFICES ASSUME ~overwritten' PROVE LedgerInv'
    BY DEF LedgerInv
  <2>1. ~overwritten /\ recalculation'.at = "idle" /\ Ledger(usage)
    BY <1>7 DEF TQ!Admit, QuotaTypes, LedgerInv
  <2>2. /\ usage'.window = today[l] /\ today[l] \in Int
        /\ today[l] >= 0 /\ today[l] >= usage.window
        /\ usage'.launches = TQ!RolledOver(today[l]).launches + 1
    BY <1>7, CommittedRow, TodayType DEF TQ!Admit, Locks, Held
  <2>3. \A d \in Nat : d # today[l] => Counted(d)' = Counted(d)
    BY <1>7 DEF TQ!Admit, Counted, Held, QuotaTypes
  <2>4. Counted(today[l]) \subseteq Launches /\ Counted(today[l])' \subseteq Counted(today[l]) \union {l}
    BY <1>7 DEF TQ!Admit, Counted, Held, QuotaTypes
  <2>5. /\ Cardinality(Counted(today[l])') \in Nat /\ Cardinality(Counted(today[l])) \in Nat
        /\ Cardinality(Counted(today[l])') <= Cardinality(Counted(today[l])) + 1
    BY <2>4, OneMore DEF QuotaAssumed
  <2>6. Cardinality(Counted(today[l])) <= TQ!RolledOver(today[l]).launches
    <3>1. CASE usage.window = today[l]
      BY <2>1, <2>2, <3>1, RolledOverType DEF Ledger
    <3>2. CASE usage.window # today[l]
      <4>1. Counted(today[l]) = {} /\ TQ!RolledOver(today[l]).launches = 0
        BY <1>0, <2>1, <2>2, <3>2, RolledOverType DEF Ledger
      <4> QED
        BY <4>1, FS_EmptySet
    <3> QED
      BY <3>1, <3>2
  <2>7. TQ!RolledOver(today[l]).launches \in Nat
    BY <2>2, RolledOverType DEF UsageRow
  <2>8. Ledger(usage)'
    <3>1. \A d \in Nat : d > today[l] => Counted(d)' = {}
      BY <1>0, <2>1, <2>2, <2>3 DEF Ledger
    <3>2. today' = today
      BY <1>7 DEF TQ!Admit
    <3> QED
      BY <2>2, <2>5, <2>6, <2>7, <3>1, <3>2 DEF Ledger
  <2> QED
    BY <2>1, <2>8 DEF LedgerInv
<1>8. CASE TQ!ReadUsage
  BY <1>2, <1>8 DEF TQ!ReadUsage, Counted, QuotaTypes
<1>9. CASE TQ!CountJobs
  BY <1>2, <1>9 DEF TQ!CountJobs, Counted, QuotaTypes
<1>10. CASE TQ!SaveUsage
  <2>1. \A d \in Nat : Counted(d)' = Counted(d)
    BY <1>10 DEF TQ!SaveUsage, Counted
  <2>2. usage'.window = recalculation.row.window /\ usage'.launches = recalculation.row.launches
    BY <1>10 DEF TQ!SaveUsage, QuotaTypes, UsageRow
  <2>3. recalculation.at # "idle" /\ recalculation'.at = "idle" /\ overwritten' = overwritten
    BY <1>10 DEF TQ!SaveUsage, TQ!Idle
  <2> QED
    BY <1>0, <1>1, <2>1, <2>2, <2>3 DEF LedgerInv, Ledger
<1>11. CASE UNCHANGED quotaVars
  BY <1>2, <1>11 DEF quotaVars, Counted, LedgerInv, Ledger
<1> QED
  BY <1>3, <1>4, <1>5, <1>6, <1>7, <1>8, <1>9, <1>10, <1>11 DEF TQ!Next, TQ!Answer, TQ!Recalculate

\* The launches that asked on day d and were not refused.
Asked(d) == {l \in Launches : today[l] = d /\ launch[l] # "blocked"}

LEMMA DailyStep ==
    ASSUME QuotaAssumed, QuotaTypes, Locks, LedgerInv, TQ!WithinDaily, [TQ!Next]_quotaVars
    PROVE  TQ!WithinDaily'
<1>0. TQ!WithinDaily <=> (overwritten \/ \A d \in 0 .. LastDay : Cardinality(Asked(d)) <= MaxDaily)
  BY QuotaCardinality DEF TQ!WithinDaily, Asked
<1>1. TQ!WithinDaily' <=> (overwritten' \/ \A d \in 0 .. LastDay : Cardinality(Asked(d)') <= MaxDaily)
  BY QuotaCardinality DEF TQ!WithinDaily, Asked
<1>2. ASSUME \A d \in Nat : Asked(d)' = Asked(d), overwritten => overwritten'
      PROVE  TQ!WithinDaily'
  BY <1>0, <1>1, <1>2 DEF QuotaAssumed
<1>3. CASE TQ!NextDay
  BY <1>2, <1>3 DEF TQ!NextDay, Asked
<1>4. ASSUME NEW l \in Launches, TQ!CheckQuota(l) PROVE TQ!WithinDaily'
  <2> SUFFICES ASSUME ~overwritten, NEW d \in 0 .. LastDay PROVE Cardinality(Asked(d)') <= MaxDaily
    BY <1>1, <1>4 DEF TQ!CheckQuota
  <2>1. Cardinality(Asked(d)) <= MaxDaily
    BY <1>0
  <2>2. CASE Asked(d)' = Asked(d)
    BY <2>1, <2>2
  <2>3. CASE Asked(d)' # Asked(d)
    <3>1. d = day /\ launch'[l] = "admitted" /\ Asked(d)' \subseteq Asked(d) \union {l}
      BY <1>4, <2>3 DEF TQ!CheckQuota, Asked, QuotaTypes, Locks, TQ!NoDay
    <3>2. TQ!Below(TQ!RolledOver(day).launches, MaxDaily)
      BY <1>4, <3>1 DEF TQ!CheckQuota, QuotaTypes
    <3>3. Asked(day) = Counted(day)
      BY <1>4 DEF TQ!CheckQuota, TQ!Locked, Asked, Counted, Held
    <3>4. Ledger(usage)
      BY DEF LedgerInv
    <3>5. Cardinality(Counted(day)) <= TQ!RolledOver(day).launches
      <4>1. CASE usage.window = day
        BY <3>4, <4>1, RolledOverType DEF Ledger, QuotaTypes
      <4>2. CASE usage.window # day
        <5>1. Counted(day) = {} /\ TQ!RolledOver(day).launches = 0
          BY <3>4, <4>2, RolledOverType DEF Ledger, QuotaTypes, UsageRow
        <5> QED
          BY <5>1, FS_EmptySet
      <4> QED
        BY <4>1, <4>2
    <3>6. TQ!RolledOver(day).launches \in Nat /\ MaxDaily \in Nat \ {0}
      BY RolledOverType DEF QuotaTypes, UsageRow, QuotaAssumed
    <3>7. Asked(d) \subseteq Launches
      BY DEF Asked
    <3>8. /\ Cardinality(Asked(d)') \in Nat /\ Cardinality(Asked(d)) \in Nat
          /\ Cardinality(Asked(d)') <= Cardinality(Asked(d)) + 1
      BY <3>1, <3>7, OneMore DEF QuotaAssumed
    <3> QED
      BY <3>1, <3>2, <3>3, <3>5, <3>6, <3>8 DEF TQ!Below
  <2> QED
    BY <2>2, <2>3
<1>5. ASSUME NEW l \in Launches, TQ!StartUnasked(l) \/ TQ!JobEnds(l) PROVE TQ!WithinDaily'
  <2>1. \A d \in Nat : Asked(d)' = Asked(d)
    BY <1>5 DEF TQ!StartUnasked, TQ!JobEnds, Asked, QuotaTypes
  <2> QED
    BY <1>2, <1>5, <2>1 DEF TQ!StartUnasked, TQ!JobEnds
<1>6. ASSUME NEW l \in Launches, TQ!Refuse(l) PROVE TQ!WithinDaily'
  <2>1. \A d \in Nat : Asked(d)' = Asked(d)
    BY <1>6 DEF TQ!Refuse, Asked, TQ!NoDay, QuotaTypes
  <2> QED
    BY <1>2, <1>6, <2>1 DEF TQ!Refuse
<1>7. ASSUME NEW l \in Launches, TQ!Admit(l) PROVE TQ!WithinDaily'
  <2>1. \A d \in Nat : Asked(d)' = Asked(d)
    BY <1>7 DEF TQ!Admit, Asked, QuotaTypes
  <2> QED
    BY <1>2, <1>7, <2>1 DEF TQ!Admit
<1>8. CASE TQ!Recalculate
  BY <1>2, <1>8 DEF TQ!Recalculate, TQ!ReadUsage, TQ!CountJobs, TQ!SaveUsage, Asked
<1>9. CASE UNCHANGED quotaVars
  BY <1>2, <1>9 DEF quotaVars, Asked
<1> QED
  BY <1>3, <1>4, <1>5, <1>6, <1>7, <1>8, <1>9 DEF TQ!Next, TQ!Answer

LEMMA InitialQuota ==
    ASSUME QuotaAssumed, TQ!Init
    PROVE  QuotaTypes /\ Locks /\ LoadInv /\ LedgerInv /\ TQ!WithinDaily
<1>1. QuotaTypes /\ Locks
  <2>1. [running |-> 0, launches |-> 0, window |-> TQ!NoDay] \in UsageRow
    BY DEF UsageRow, TQ!NoDay
  <2>2. TQ!Idle \in [at : {"idle", "read", "counted"}, row : UsageRow, counted : Nat] /\ TQ!Idle.row.window = TQ!NoDay
    BY <2>1 DEF TQ!Idle
  <2>3. usage.window <= day /\ recalculation.row.window <= day
    BY <2>2 DEF TQ!Init, TQ!NoDay
  <2>4. launch \in [Launches -> {"none", "blocked", "admitted", "live", "gone", "unasked", "ended"}]
        /\ today \in [Launches -> Int] /\ \A l \in Launches : today[l] <= day
    BY DEF TQ!Init, TQ!NoDay
  <2>5. QuotaTypes
    BY <2>1, <2>2, <2>3, <2>4 DEF TQ!Init, QuotaTypes
  <2> QED
    BY <2>5 DEF TQ!Init, Locks, Held
<1>2. LoadInv
  <2>1. Playing = {}
    BY DEF TQ!Init, Playing
  <2> QED
    BY <2>1, FS_EmptySet DEF TQ!Init, LoadInv, TQ!Idle, QuotaAssumed
<1>3. LedgerInv
  <2>1. \A d \in Nat : Counted(d) = {}
    BY DEF TQ!Init, Counted, TQ!NoDay
  <2> QED
    BY <2>1 DEF TQ!Init, LedgerInv, Ledger, TQ!Idle, TQ!NoDay
<1>4. TQ!WithinDaily
  <2>1. \A d \in 0 .. LastDay : {l \in Launches : today[l] = d /\ launch[l] # "blocked"} = {}
    BY DEF TQ!Init, TQ!NoDay
  <2> QED
    BY <2>1, FS_EmptySet, QuotaCardinality DEF TQ!WithinDaily, QuotaAssumed
<1> QED
  BY <1>1, <1>2, <1>3, <1>4
-----------------------------------------------------------------------------

(* The theorems about all services.  A behaviour stays in its part, and the *)
(* steps of ServicesNext are those of the part.                             *)

LEMMA ApprovalPart ==
    ASSUME part = "approval", [ServicesNext]_allvars
    PROVE  part' = part /\ [Next]_vars
BY DEF ServicesNext, allvars, serviceVars

LEMMA RequestPart ==
    ASSUME part = "request", [ServicesNext]_allvars
    PROVE  part' = part /\ [SR!Next]_requestVars
BY DEF ServicesNext, allvars, serviceVars

LEMMA RulePart ==
    ASSUME part = "rule", [ServicesNext]_allvars
    PROVE  part' = part /\ [ER!Next]_ruleVars
BY DEF ServicesNext, allvars, serviceVars

LEMMA AlertPart ==
    ASSUME part = "alert", [ServicesNext]_allvars
    PROVE  part' = part /\ [DA!Next]_alertVars
BY DEF ServicesNext, allvars, serviceVars

LEMMA QuotaPart ==
    ASSUME part = "quota", [ServicesNext]_allvars
    PROVE  part' = part /\ [TQ!Next]_quotaVars
BY DEF ServicesNext, allvars, serviceVars

LEMMA PartStays == [ServicesNext]_allvars => part' = part
BY DEF ServicesNext, allvars

(* approve, deny, timeout_approval_node and cancel_node_jobs each save a    *)
(* row read earlier: whoever is last, an approval that counts as approved   *)
(* names its approver, at most one branch runs, and without an overlap it   *)
(* is the branch that the row shows.                                        *)
THEOREM DecisionHolds == Spec => []ApprovalHolds
<1>1. ApprovalInv => ApprovalHolds
  BY DEF ApprovalInv, BranchInv, ApprovalHolds
<1> QED
  BY <1>1, ApprovalInit, ApprovalStep, PTL DEF Spec

(* ServiceRequest.approve, reject and delete save without a look at the     *)
(* status: unless two users decide at the same time, a request launches one *)
(* job at most, and none when it was rejected or deleted; and unless a hook *)
(* is lost too, it shows the outcome of its job once the job's hook is done.*)
THEOREM RequestsAreDecidedOnce ==
    ASSUME JobsAssumed
    PROVE  ServicesSpec => []RequestsDecidedOnce
<1> DEFINE I == part = "request" => RequestTypes /\ DecidedInv /\ FollowsInv
<1>1. ServicesInit => I
  BY InitialRequest DEF ServicesInit
<1>2. I /\ [ServicesNext]_allvars => I'
  BY PartStays, RequestPart, RequestTypesStep, DecidedStep, FollowsStep DEF DecidedInv
<1>3. I => RequestsDecidedOnce
  <2>1. DecidedInv => SR!DecidedOnce
    BY DEF DecidedInv, LaunchedIsLinked, SR!DecidedOnce, Undecided
  <2>2. FollowsInv => SR!MirrorsItsJob
    BY DEF FollowsInv, Follows, SR!MirrorsItsJob, SR!Mapping
  <2> QED
    BY <2>1, <2>2 DEF RequestsDecidedOnce
<1> QED
  BY <1>1, <1>2, <1>3, PTL DEF ServicesSpec

(* is_throttled and record_firing, is_in_cooldown and record_trigger: two   *)
(* firings, and two alerts, are a period apart whatever the number of       *)
(* workers, unless they ran at the same time or an edit wrote back an older *)
(* row; no trigger is lost from the count, and a delivery is refused only   *)
(* next to another one with its guid that has matched.                      *)
THEOREM PeriodsAreKept ==
    ASSUME Throttle \in Nat, Cooldown \in Nat
    PROVE  ServicesSpec => []CooldownsHold
<1> DEFINE I == /\ part = "rule" => FiringInv /\ RefusalInv
                /\ part = "alert" => AlertInv
<1>1. ServicesInit => I
  <2>1. ER!Init => RefusalInv
    BY DEF ER!Init, RefusalInv, LogFollowsStage, ER!RefusedOnlyIfMatched, ER!Evaluating
  <2> QED
    BY <2>1, FiringInit, AlertInit DEF ServicesInit
<1>2. I /\ [ServicesNext]_allvars => I'
  BY PartStays, RulePart, AlertPart, FiringStep, RefusalStep, AlertStep
<1>3. I => CooldownsHold
  BY DEF CooldownsHold, FiringInv, RefusalInv, AlertInv
<1> QED
  BY <1>1, <1>2, <1>3, PTL DEF ServicesSpec

(* check_tenant_quota compares and counts under the lock of the usage row,  *)
(* whose window rolls over once for a day and only forward: the jobs that   *)
(* run, and the launches of a day, stay within the limits of the tenant,    *)
(* unless a recalculation saved over a launch.                              *)
THEOREM QuotaIsKept ==
    ASSUME QuotaAssumed
    PROVE  ServicesSpec => []WithinQuota
<1> DEFINE I == part = "quota" => QuotaTypes /\ Locks /\ LoadInv /\ LedgerInv /\ TQ!WithinDaily
<1>1. ServicesInit => I
  BY InitialQuota DEF ServicesInit
<1>2. I /\ [ServicesNext]_allvars => I'
  BY PartStays, QuotaPart, QuotaTypesStep, LocksStep, LoadStep, LedgerStep, DailyStep
<1>3. I => WithinQuota
  <2>1. LoadInv => TQ!WithinConcurrent
    BY QuotaCardinality DEF LoadInv, TQ!WithinConcurrent, Playing
  <2> QED
    BY <2>1 DEF WithinQuota
<1> QED
  BY <1>1, <1>2, <1>3, PTL DEF ServicesSpec

-----------------------------------------------------------------------------

(* A complete run has its first event and playbook_on_stats.               *)
EventsAssumed == \E n \in Nat : n > 1 /\ Events = 1 .. n

(* The operators of the instance are those of the lemmas.                  *)
LEMMA EventsCardinality == \A S : EP!Cardinality(S) = Cardinality(S)
BY DEF EP!Cardinality, Cardinality

LEMMA EventsSum == \A f, n : EP!SumTo(f, n) = SumTo(f, n)
BY Zenon DEF EP!SumTo, SumTo

Message == Events \union {EP!EOF}
Positions == {"idle", "flush", "wrapup", "notify", "stopped"}

WorkerStates == [at : {"playing", "ended", "saving", "notify", "done"}, event : 1 .. EP!LastEvent + 1,
                 dispatched : BOOLEAN, counts : BOOLEAN]
JobStates == [final : BOOLEAN, counts : BOOLEAN, emitted : Nat]
ReceiverStates == [at : Positions, buff : SUBSET Events, tries : Nat]

RowsType ==
    /\ wrapup \in {"stats", "eof"}
    /\ unsaveable \subseteq {1}
    /\ worker \in WorkerStates
    /\ job \in JobStates
    /\ redis \in Seq(Message)
    /\ receiver \in [Receivers -> ReceiverStates]
    /\ saved \in [Events -> 0 .. 1]
    /\ notified \in Nat
    /\ faults \in Nat
    /\ reaped \in BOOLEAN

(* A message is in one place, after it was pushed.                          *)
Queued(e) == \E i \in DOMAIN redis : redis[i] = e
Buffered(e) == \E r \in Receivers : e \in receiver[r].buff
QueuedOnce == \A i, j \in DOMAIN redis : redis[i] = redis[j] => i = j

OnePlace ==
    /\ QueuedOnce
    /\ \A r, s \in Receivers : \A e \in receiver[r].buff : e \in receiver[s].buff => r = s
    /\ \A r \in Receivers : \A e \in receiver[r].buff : ~Queued(e) /\ saved[e] = 0 /\ e < worker.event
    /\ \A e \in Events : Queued(e) => saved[e] = 0 /\ e < worker.event
    /\ \A e \in Events : saved[e] = 1 => e < worker.event
    /\ Queued(EP!EOF) => worker.at # "playing"

LEMMA LastFacts ==
    ASSUME EventsAssumed
    PROVE  EP!LastEvent \in Nat /\ EP!LastEvent > 1 /\ Events = 1 .. EP!LastEvent
<1>1. PICK n \in Nat : n > 1 /\ Events = 1 .. n
  BY DEF EventsAssumed
<1>2. EP!LastEvent = n
  BY <1>1, FS_Interval, EventsCardinality DEF EP!LastEvent
<1> QED
  BY <1>1, <1>2

-----------------------------------------------------------------------------
(* The queue. *)

LEMMA Pushed ==
    ASSUME redis \in Seq(Message), NEW e \in Message, redis' = Append(redis, e)
    PROVE  /\ \A x : Queued(x)' <=> Queued(x) \/ x = e
           /\ QueuedOnce /\ ~Queued(e) => QueuedOnce'
<1>1. /\ DOMAIN redis' = DOMAIN redis \cup {Len(redis) + 1}
      /\ Len(redis) + 1 \notin DOMAIN redis
      /\ \A i \in DOMAIN redis : redis'[i] = redis[i]
      /\ redis'[Len(redis) + 1] = e
  BY AppendFacts
<1>2. \A x : Queued(x)' <=> Queued(x) \/ x = e
  BY <1>1 DEF Queued
<1>3. QueuedOnce /\ ~Queued(e) => QueuedOnce'
  BY <1>1 DEF Queued, QueuedOnce
<1> QED
  BY <1>2, <1>3

LEMMA Popped ==
    ASSUME redis \in Seq(Message), redis # <<>>, redis' = Tail(redis), QueuedOnce
    PROVE  /\ Head(redis) \in Message /\ Queued(Head(redis))
           /\ QueuedOnce'
           /\ \A x : Queued(x)' <=> Queued(x) /\ x # Head(redis)
<1>1. /\ 1 \in DOMAIN redis /\ Head(redis) = redis[1] /\ redis[1] \in Message
      /\ \A i \in DOMAIN redis' : i + 1 \in DOMAIN redis /\ i + 1 # 1 /\ redis'[i] = redis[i + 1]
      /\ \A i \in DOMAIN redis : i # 1 => i - 1 \in DOMAIN redis' /\ redis'[i - 1] = redis[i]
      /\ DOMAIN redis' \subseteq Nat
  BY TailFacts
<1>2. QueuedOnce'
  <2>1. SUFFICES ASSUME NEW i \in DOMAIN redis', NEW j \in DOMAIN redis', redis'[i] = redis'[j] PROVE i = j
    BY DEF QueuedOnce
  <2>2. i + 1 = j + 1 /\ i \in Nat /\ j \in Nat
    BY <1>1, <2>1 DEF QueuedOnce
  <2> QED
    BY <2>2
<1>3. ASSUME NEW x, Queued(x)' PROVE Queued(x) /\ x # Head(redis)
  <2>1. PICK i \in DOMAIN redis' : redis'[i] = x
    BY <1>3 DEF Queued
  <2>2. i + 1 \in DOMAIN redis /\ i + 1 # 1 /\ redis[i + 1] = x
    BY <1>1, <2>1
  <2> QED
    BY <1>1, <2>2 DEF Queued, QueuedOnce
<1>4. ASSUME NEW x, Queued(x), x # Head(redis) PROVE Queued(x)'
  <2>1. PICK i \in DOMAIN redis : redis[i] = x
    BY <1>4 DEF Queued
  <2>2. i - 1 \in DOMAIN redis' /\ redis'[i - 1] = x
    BY <1>1, <1>4, <2>1
  <2> QED
    BY <2>2 DEF Queued
<1> QED
  BY <1>1, <1>2, <1>3, <1>4 DEF Queued

LEMMA SameQueue ==
    ASSUME redis' = redis
    PROVE  (\A x : Queued(x)' <=> Queued(x)) /\ (QueuedOnce' <=> QueuedOnce)
BY DEF Queued, QueuedOnce

-----------------------------------------------------------------------------
(* Types. *)

LEMMA TypesInit == EventsAssumed /\ EP!Init => RowsType
<1> SUFFICES ASSUME EventsAssumed, EP!Init PROVE RowsType
  OBVIOUS
<1>1. worker \in WorkerStates
  BY LastFacts DEF EP!Init, WorkerStates
<1>2. job \in JobStates /\ redis \in Seq(Message)
  BY DEF EP!Init, JobStates
<1>3. receiver \in [Receivers -> ReceiverStates]
  BY DEF EP!Init, EP!Idle, ReceiverStates, Positions
<1>4. saved \in [Events -> 0 .. 1]
  BY DEF EP!Init
<1> QED
  BY <1>1, <1>2, <1>3, <1>4 DEF EP!Init, RowsType

WorkerActs ==
    \/ EP!event_handler \/ EP!DispatchFails \/ EP!finished_callback \/ EP!EndsEarly \/ EP!SaveStatus
    \/ EP!ReadUnlocked \/ EP!SaveUnlocked \/ EP!WorkerNotifies \/ EP!WorkerDies \/ EP!Reap

ReceiverActs(r) ==
    \/ EP!Buffer(r) \/ EP!HandleEOF(r) \/ EP!ReadTimesOut(r) \/ EP!BulkCreate(r) \/ EP!SaveEach(r) \/ EP!Wrapup(r)
    \/ EP!ReceiverNotifies(r) \/ EP!GiveUp(r) \/ EP!WrapupFails(r) \/ EP!ReceiverStops(r)

LEMMA WorkerTypes ==
    ASSUME EventsAssumed, RowsType, WorkerActs
    PROVE  RowsType'
<1> DEFINE Typed == /\ worker' \in WorkerStates /\ job' \in JobStates /\ redis' \in Seq(Message)
                    /\ notified' \in Nat /\ faults' \in Nat /\ reaped' \in BOOLEAN
<1>1. EP!LastEvent \in Nat /\ Events = 1 .. EP!LastEvent
  BY LastFacts
<1>2. EP!EOF \in Message /\ Events \subseteq Message
  BY DEF Message
<1>3. /\ worker \in WorkerStates /\ job \in JobStates /\ redis \in Seq(Message)
      /\ notified \in Nat /\ faults \in Nat /\ reaped \in BOOLEAN
  BY DEF RowsType
<1>4. worker.event \in Nat /\ worker.event - 1 \in Nat /\ job.counts \in BOOLEAN /\ worker.counts \in BOOLEAN
  BY <1>1, <1>3 DEF WorkerStates, JobStates
<1>5. \A e \in Message : Append(redis, e) \in Seq(Message)
  BY <1>3, AppendFacts
<1>6. worker.event \in Events =>
          [worker EXCEPT !.event = @ + 1, !.dispatched = @ \/ (wrapup = "stats" /\ worker.event = EP!LastEvent)] \in WorkerStates
  <2>1. worker.event \in Events => worker.event + 1 \in 1 .. EP!LastEvent + 1
    BY <1>1
  <2>2. (worker.dispatched \/ (wrapup = "stats" /\ worker.event = EP!LastEvent)) \in BOOLEAN
    BY Zenon
  <2>3. \A e \in 1 .. EP!LastEvent + 1, d \in BOOLEAN : [worker EXCEPT !.event = e, !.dispatched = d] \in WorkerStates
    BY <1>3 DEF WorkerStates
  <2> QED
    BY <2>1, <2>2, <2>3
<1>7. \A c : [worker EXCEPT !.at = EP!ToNotify(c)] \in WorkerStates
  BY <1>3 DEF WorkerStates, EP!ToNotify
<1>8. [job EXCEPT !.final = TRUE, !.emitted = worker.event - 1] \in JobStates
  BY <1>3, <1>4 DEF JobStates
<1>a. EP!event_handler => Typed
  BY <1>2, <1>3, <1>5, <1>6 DEF EP!event_handler
<1>b. EP!DispatchFails => Typed
  <2>1. [worker EXCEPT !.at = "ended", !.dispatched = @ \/ (wrapup = "stats" /\ worker.event = EP!LastEvent)] \in WorkerStates
    BY <1>3 DEF WorkerStates
  <2> QED
    BY <1>3, <2>1 DEF EP!DispatchFails, EP!Fault
<1>c. EP!finished_callback => Typed
  <2>1. [worker EXCEPT !.at = "ended", !.dispatched = @ \/ wrapup = "eof"] \in WorkerStates
    BY <1>3 DEF WorkerStates
  <2> QED
    BY <1>2, <1>3, <1>5, <2>1 DEF EP!finished_callback
<1>d. EP!EndsEarly => Typed
  BY <1>3 DEF EP!EndsEarly, WorkerStates
<1>e. EP!SaveStatus => Typed
  BY <1>3, <1>7, <1>8 DEF EP!SaveStatus
<1>f. EP!ReadUnlocked => Typed
  <2>1. [worker EXCEPT !.at = "saving", !.counts = job.counts] \in WorkerStates
    BY <1>3, <1>4 DEF WorkerStates
  <2> QED
    BY <1>3, <2>1 DEF EP!ReadUnlocked, EP!Fault
<1>g. EP!SaveUnlocked => Typed
  BY <1>3, <1>7, <1>8 DEF EP!SaveUnlocked
<1>h. EP!WorkerNotifies => Typed
  BY <1>3 DEF EP!WorkerNotifies, WorkerStates
<1>i. EP!WorkerDies => Typed
  BY <1>3 DEF EP!WorkerDies, WorkerStates, EP!Fault
<1>j. EP!Reap => Typed
  <2>1. [job EXCEPT !.final = TRUE] \in JobStates
    BY <1>3 DEF JobStates
  <2> QED
    BY <1>3, <2>1 DEF EP!Reap
<1>k. EP!WorkerOnly
  BY DEF WorkerActs, EP!event_handler, EP!DispatchFails, EP!finished_callback, EP!EndsEarly, EP!SaveStatus,
         EP!ReadUnlocked, EP!SaveUnlocked, EP!WorkerNotifies, EP!WorkerDies, EP!Reap
<1> QED
  BY <1>a, <1>b, <1>c, <1>d, <1>e, <1>f, <1>g, <1>h, <1>i, <1>j, <1>k DEF RowsType, EP!WorkerOnly, WorkerActs

(* A receiver's step changes its own position and buffer.                   *)
Becomes(r, place, buff) ==
    /\ receiver' \in [Receivers -> ReceiverStates]
    /\ receiver'[r].at = place /\ receiver'[r].buff = buff
    /\ \A s \in Receivers : s # r => receiver'[s] = receiver[s]

LEMMA ReceiverMoves ==
    ASSUME RowsType, NEW r \in Receivers
    PROVE  /\ EP!Buffer(r) => \E due \in BOOLEAN :
                  Becomes(r, IF due THEN "flush" ELSE "idle", receiver[r].buff \union {Head(redis)})
           /\ EP!HandleEOF(r) => Becomes(r, IF wrapup = "eof" THEN "wrapup" ELSE "idle", receiver[r].buff)
           /\ EP!ReadTimesOut(r) => Becomes(r, "flush", receiver[r].buff)
           /\ EP!BulkCreate(r) => Becomes(r, EP!AfterSave(receiver[r].buff), {})
           /\ EP!SaveEach(r) => \E rest \in {{}, receiver[r].buff \intersect unsaveable} :
                  Becomes(r, EP!AfterSave(receiver[r].buff \ unsaveable), rest)
           /\ EP!Wrapup(r) => Becomes(r, IF job.final THEN "notify" ELSE "idle", receiver[r].buff)
           /\ EP!ReceiverNotifies(r) \/ EP!WrapupFails(r) => Becomes(r, "idle", receiver[r].buff)
           /\ EP!GiveUp(r) => Becomes(r, "idle", {})
           /\ EP!ReceiverStops(r) => Becomes(r, "stopped", {})
<1>1. receiver \in [Receivers -> ReceiverStates] /\ receiver[r] \in ReceiverStates
  BY DEF RowsType
<1>2. redis # <<>> => Head(redis) \in Message /\ (Head(redis) # EP!EOF => Head(redis) \in Events)
  BY TailFacts DEF RowsType, Message
<1>3. \A batch : EP!AfterSave(batch) \in Positions
  BY DEF EP!AfterSave, Positions
<1>4. {"idle", "flush", "wrapup", "notify", "stopped"} \subseteq Positions
  BY DEF Positions
<1>5. /\ receiver[r] = [at |-> receiver[r].at, buff |-> receiver[r].buff, tries |-> receiver[r].tries]
      /\ receiver[r].at \in Positions /\ receiver[r].buff \in SUBSET Events /\ receiver[r].tries \in Nat
  BY <1>1 DEF ReceiverStates
<1>6. ASSUME NEW place \in Positions, NEW buff \in SUBSET Events, NEW tries \in Nat,
             receiver' = [receiver EXCEPT ![r] = [at |-> place, buff |-> buff, tries |-> tries]]
      PROVE  Becomes(r, place, buff)
  <2>1. [at |-> place, buff |-> buff, tries |-> tries] \in ReceiverStates
    BY DEF ReceiverStates
  <2>2. receiver' \in [Receivers -> ReceiverStates]
    BY <1>1, <1>6, <2>1
  <2> QED
    BY <1>1, <1>6, <2>2 DEF Becomes
<1>7. ASSUME NEW place \in Positions, receiver' = [receiver EXCEPT ![r].at = place]
      PROVE  Becomes(r, place, receiver[r].buff)
  <2> DEFINE v == [receiver[r] EXCEPT !.at = place]
  <2>1. v \in ReceiverStates /\ v.at = place /\ v.buff = receiver[r].buff
    BY <1>1 DEF ReceiverStates
  <2>2. receiver' = [receiver EXCEPT ![r] = v]
    BY <1>7
  <2> QED
    BY <1>1, <2>1, <2>2 DEF Becomes
<1>8. ASSUME NEW place \in Positions, NEW buff \in SUBSET Events, receiver' = [receiver EXCEPT ![r].buff = buff, ![r].at = place]
      PROVE  Becomes(r, place, buff)
  <2> DEFINE v == [receiver[r] EXCEPT !.buff = buff, !.at = place]
  <2>1. v \in ReceiverStates /\ v.at = place /\ v.buff = buff
    BY <1>1 DEF ReceiverStates
  <2>2. receiver' = [receiver EXCEPT ![r] = v]
    BY <1>8
  <2> QED
    BY <1>1, <2>1, <2>2 DEF Becomes
<1>a. ASSUME EP!Buffer(r)
      PROVE  \E due \in BOOLEAN : Becomes(r, IF due THEN "flush" ELSE "idle", receiver[r].buff \union {Head(redis)})
  <2>1. receiver[r].buff \union {Head(redis)} \in SUBSET Events
    BY <1>2, <1>5, <1>a DEF EP!Buffer
  <2>2. PICK due \in BOOLEAN :
             receiver' = [receiver EXCEPT ![r].buff = @ \union {Head(redis)}, ![r].at = IF due THEN "flush" ELSE "idle"]
    BY <1>a DEF EP!Buffer
  <2>3. (IF due THEN "flush" ELSE "idle") \in Positions
    BY <1>4
  <2>4. receiver' = [receiver EXCEPT ![r].buff = receiver[r].buff \union {Head(redis)}, ![r].at = IF due THEN "flush" ELSE "idle"]
    BY <2>2
  <2> QED
    BY <1>8, <2>1, <2>3, <2>4
<1>b. EP!HandleEOF(r) => Becomes(r, IF wrapup = "eof" THEN "wrapup" ELSE "idle", receiver[r].buff)
  BY <1>4, <1>7 DEF EP!HandleEOF
<1>c. EP!ReadTimesOut(r) => Becomes(r, "flush", receiver[r].buff)
  BY <1>4, <1>7 DEF EP!ReadTimesOut
<1>d. EP!BulkCreate(r) => Becomes(r, EP!AfterSave(receiver[r].buff), {})
  BY <1>3, <1>8 DEF EP!BulkCreate
<1>e. ASSUME EP!SaveEach(r)
      PROVE  \E rest \in {{}, receiver[r].buff \intersect unsaveable} :
                 Becomes(r, EP!AfterSave(receiver[r].buff \ unsaveable), rest)
  <2> DEFINE rest == IF receiver[r].tries + 1 >= EP!INDIVIDUAL_EVENT_RETRIES THEN {} ELSE receiver[r].buff \intersect unsaveable
             place == EP!AfterSave(receiver[r].buff \ unsaveable)
  <2>1. receiver' = [receiver EXCEPT ![r].buff = rest, ![r].tries = @ + 1, ![r].at = place]
    BY <1>e DEF EP!SaveEach
  <2>2. rest \in SUBSET Events /\ rest \in {{}, receiver[r].buff \intersect unsaveable} /\ place \in Positions
    BY <1>3, <1>5
  <2> HIDE DEF rest, place
  <2>3. receiver' = [receiver EXCEPT ![r] = [at |-> place, buff |-> rest, tries |-> receiver[r].tries + 1]]
    BY <1>1, <1>5, <2>1
  <2>t. receiver[r].tries + 1 \in Nat
    BY <1>5
  <2>4. Becomes(r, place, rest)
    BY <1>6, <2>2, <2>3, <2>t
  <2> QED
    BY <2>2, <2>4 DEF place
<1>f. EP!Wrapup(r) => Becomes(r, IF job.final THEN "notify" ELSE "idle", receiver[r].buff)
  BY <1>4, <1>7 DEF EP!Wrapup
<1>g. EP!ReceiverNotifies(r) \/ EP!WrapupFails(r) => Becomes(r, "idle", receiver[r].buff)
  BY <1>4, <1>7 DEF EP!ReceiverNotifies, EP!WrapupFails
<1>h. EP!GiveUp(r) => Becomes(r, "idle", {})
  BY <1>4, <1>8 DEF EP!GiveUp
<1>i. EP!ReceiverStops(r) => Becomes(r, "stopped", {})
  <2>1. [EP!Idle EXCEPT !.at = "stopped"] = [at |-> "stopped", buff |-> {}, tries |-> 0]
    BY DEF EP!Idle
  <2> QED
    BY <1>4, <1>6, <2>1 DEF EP!ReceiverStops
<1> QED
  BY <1>a, <1>b, <1>c, <1>d, <1>e, <1>f, <1>g, <1>h, <1>i
LEMMA ReceiverTypes ==
    ASSUME RowsType, OnePlace, NEW r \in Receivers, ReceiverActs(r)
    PROVE  RowsType'
<1> DEFINE Typed == /\ job' \in JobStates /\ redis' \in Seq(Message) /\ saved' \in [Events -> 0 .. 1]
                    /\ notified' \in Nat /\ faults' \in Nat
<1>1. /\ job \in JobStates /\ redis \in Seq(Message) /\ saved \in [Events -> 0 .. 1]
      /\ notified \in Nat /\ faults \in Nat
  BY DEF RowsType
<1>2. redis # <<>> => Tail(redis) \in Seq(Message)
  BY <1>1, TailFacts
<1>3. \A batch \in SUBSET receiver[r].buff : EP!SaveAll(batch) => saved' \in [Events -> 0 .. 1]
  BY <1>1 DEF EP!SaveAll, OnePlace
<1>4. receiver' \in [Receivers -> ReceiverStates]
  BY ReceiverMoves DEF Becomes, ReceiverActs
<1>5. Typed
  <2>1. EP!Buffer(r) \/ EP!HandleEOF(r) => Typed
    BY <1>1, <1>2 DEF EP!Buffer, EP!HandleEOF
  <2>2. EP!BulkCreate(r) => Typed
    BY <1>1, <1>3 DEF EP!BulkCreate
  <2>3. EP!SaveEach(r) => Typed
    <3>1. receiver[r].buff \ unsaveable \in SUBSET receiver[r].buff
      OBVIOUS
    <3> QED
      BY <1>1, <1>3, <3>1 DEF EP!SaveEach
  <2>4. EP!Wrapup(r) => Typed
    BY <1>1 DEF EP!Wrapup, JobStates
  <2>5. EP!ReadTimesOut(r) \/ EP!ReceiverNotifies(r) \/ EP!GiveUp(r) \/ EP!WrapupFails(r) \/ EP!ReceiverStops(r) => Typed
    BY <1>1 DEF EP!ReadTimesOut, EP!ReceiverNotifies, EP!GiveUp, EP!WrapupFails, EP!ReceiverStops, EP!Fault
  <2> QED
    BY <2>1, <2>2, <2>3, <2>4, <2>5 DEF ReceiverActs
<1>6. EP!ReceiverOnly
  BY DEF ReceiverActs, EP!Buffer, EP!HandleEOF, EP!ReadTimesOut, EP!BulkCreate, EP!SaveEach, EP!Wrapup, EP!ReceiverNotifies, EP!GiveUp, EP!WrapupFails, EP!ReceiverStops
<1> QED
  BY <1>4, <1>5, <1>6 DEF RowsType, EP!ReceiverOnly

-----------------------------------------------------------------------------
(* What the worker does. *)

Advances(place, event, dispatched, counts) ==
    /\ worker'.at = place /\ worker'.event = event
    /\ worker'.dispatched <=> dispatched
    /\ worker'.counts <=> counts
Finishes(final, emitted) ==
    /\ job'.final <=> final
    /\ job'.emitted = emitted
    /\ job'.counts <=> job.counts
SendsLast == wrapup = "stats" /\ worker.event = EP!LastEvent

LEMMA WorkerMoves ==
    ASSUME EventsAssumed, RowsType
    PROVE  /\ EP!event_handler => Advances("playing", worker.event + 1, worker.dispatched \/ SendsLast, worker.counts)
           /\ EP!DispatchFails => Advances("ended", worker.event, worker.dispatched \/ SendsLast, worker.counts)
           /\ EP!finished_callback => Advances("ended", worker.event, worker.dispatched \/ wrapup = "eof", worker.counts)
           /\ EP!EndsEarly => Advances("ended", worker.event, worker.dispatched, worker.counts)
           /\ EP!SaveStatus => /\ Advances(EP!ToNotify(job.counts), worker.event, worker.dispatched, worker.counts)
                            /\ Finishes(TRUE, worker.event - 1)
           /\ EP!ReadUnlocked => Advances("saving", worker.event, worker.dispatched, job.counts)
           /\ EP!SaveUnlocked => /\ Advances(EP!ToNotify(worker.counts), worker.event, worker.dispatched, worker.counts)
                              /\ Finishes(TRUE, worker.event - 1)
           /\ EP!WorkerNotifies \/ EP!WorkerDies => Advances("done", worker.event, worker.dispatched, worker.counts)
           /\ EP!Reap => Finishes(TRUE, job.emitted)
<1>1. worker \in WorkerStates /\ job \in JobStates
  BY DEF RowsType
<1>2. /\ worker.event \in Nat /\ worker.dispatched \in BOOLEAN /\ worker.counts \in BOOLEAN
      /\ job.counts \in BOOLEAN
  BY <1>1, LastFacts DEF WorkerStates, JobStates
<1>3. \A place : LET w == [worker EXCEPT !.at = place]
               IN  w.at = place /\ w.event = worker.event /\ w.dispatched = worker.dispatched /\ w.counts = worker.counts
  BY <1>1 DEF WorkerStates
<1>4. \A place, d : LET w == [worker EXCEPT !.at = place, !.dispatched = d]
                  IN  w.at = place /\ w.event = worker.event /\ w.dispatched = d /\ w.counts = worker.counts
  BY <1>1 DEF WorkerStates
<1>5. \A place, c : LET w == [worker EXCEPT !.at = place, !.counts = c]
                  IN  w.at = place /\ w.event = worker.event /\ w.dispatched = worker.dispatched /\ w.counts = c
  BY <1>1 DEF WorkerStates
<1>6. \A e, d : LET w == [worker EXCEPT !.event = e, !.dispatched = d]
                 IN  w.at = worker.at /\ w.event = e /\ w.dispatched = d /\ w.counts = worker.counts
  BY <1>1 DEF WorkerStates
<1>7. \A n : LET j == [job EXCEPT !.final = TRUE, !.emitted = n] IN j.final = TRUE /\ j.emitted = n /\ j.counts = job.counts
  BY <1>1 DEF JobStates
<1>8. LET j == [job EXCEPT !.final = TRUE] IN j.final = TRUE /\ j.emitted = job.emitted /\ j.counts = job.counts
  BY <1>1 DEF JobStates
<1>a. ASSUME EP!event_handler PROVE Advances("playing", worker.event + 1, worker.dispatched \/ SendsLast, worker.counts)
  <2> DEFINE d == worker.dispatched \/ (wrapup = "stats" /\ worker.event = EP!LastEvent)
  <2>1. worker' = [worker EXCEPT !.event = worker.event + 1, !.dispatched = d]
    BY <1>a DEF EP!event_handler
  <2> HIDE DEF d
  <2>2. worker'.at = "playing" /\ worker'.event = worker.event + 1 /\ worker'.dispatched = d /\ worker'.counts = worker.counts
    BY <1>6, <2>1, <1>a DEF EP!event_handler
  <2> QED
    BY <2>2, Zenon DEF d, Advances, SendsLast
<1>b. ASSUME EP!DispatchFails PROVE Advances("ended", worker.event, worker.dispatched \/ SendsLast, worker.counts)
  <2> DEFINE d == worker.dispatched \/ (wrapup = "stats" /\ worker.event = EP!LastEvent)
  <2>1. worker' = [worker EXCEPT !.at = "ended", !.dispatched = d]
    BY <1>b DEF EP!DispatchFails
  <2> HIDE DEF d
  <2>2. worker'.at = "ended" /\ worker'.event = worker.event /\ worker'.dispatched = d /\ worker'.counts = worker.counts
    BY <1>4, <2>1
  <2> QED
    BY <2>2, Zenon DEF d, Advances, SendsLast
<1>c. ASSUME EP!finished_callback PROVE Advances("ended", worker.event, worker.dispatched \/ wrapup = "eof", worker.counts)
  <2> DEFINE d == worker.dispatched \/ wrapup = "eof"
  <2>1. worker' = [worker EXCEPT !.at = "ended", !.dispatched = d]
    BY <1>c DEF EP!finished_callback
  <2> HIDE DEF d
  <2>2. worker'.at = "ended" /\ worker'.event = worker.event /\ worker'.dispatched = d /\ worker'.counts = worker.counts
    BY <1>4, <2>1
  <2> QED
    BY <2>2, Zenon DEF d, Advances, SendsLast
<1>d. EP!EndsEarly => Advances("ended", worker.event, worker.dispatched, worker.counts)
  BY <1>3 DEF EP!EndsEarly, Advances
<1>e. \A c : worker' = [worker EXCEPT !.at = EP!ToNotify(c)] => Advances(EP!ToNotify(c), worker.event, worker.dispatched, worker.counts)
  BY <1>3 DEF Advances
<1>f. job' = [job EXCEPT !.final = TRUE, !.emitted = worker.event - 1] => Finishes(TRUE, worker.event - 1)
  BY <1>7 DEF Finishes
<1>g. EP!SaveStatus \/ EP!SaveUnlocked => Finishes(TRUE, worker.event - 1)
  BY <1>f DEF EP!SaveStatus, EP!SaveUnlocked
<1>h. EP!SaveStatus => Advances(EP!ToNotify(job.counts), worker.event, worker.dispatched, worker.counts)
  BY <1>e DEF EP!SaveStatus
<1>i. EP!SaveUnlocked => Advances(EP!ToNotify(worker.counts), worker.event, worker.dispatched, worker.counts)
  BY <1>e DEF EP!SaveUnlocked
<1>j. EP!ReadUnlocked => Advances("saving", worker.event, worker.dispatched, job.counts)
  BY <1>5 DEF EP!ReadUnlocked, Advances
<1>k. EP!WorkerNotifies \/ EP!WorkerDies => Advances("done", worker.event, worker.dispatched, worker.counts)
  BY <1>3 DEF EP!WorkerNotifies, EP!WorkerDies, Advances
<1>l. EP!Reap => Finishes(TRUE, job.emitted)
  BY <1>8 DEF EP!Reap, Finishes
<1> QED
  BY <1>a, <1>b, <1>c, <1>d, <1>g, <1>h, <1>i, <1>j, <1>k, <1>l

-----------------------------------------------------------------------------
(* Places. *)

LEMMA PlacesInit == EP!Init => OnePlace
BY DEF EP!Init, OnePlace, Queued, QueuedOnce, EP!Idle

(* Nothing goes anywhere, but a buffer may be lost.                         *)
StaysPut ==
    /\ redis' = redis /\ saved' = saved /\ worker'.event = worker.event
    /\ worker'.at = "playing" => worker.at = "playing"
    /\ \A r \in Receivers : receiver'[r].buff \subseteq receiver[r].buff

LEMMA PlacesStay == OnePlace /\ StaysPut => OnePlace'
<1> SUFFICES ASSUME OnePlace, StaysPut PROVE OnePlace'
  OBVIOUS
<1>1. QueuedOnce' /\ \A x : Queued(x)' <=> Queued(x)
  BY SameQueue DEF OnePlace, StaysPut
<1> QED
  BY <1>1 DEF OnePlace, StaysPut

LEMMA WorkerStays ==
    ASSUME EventsAssumed, RowsType, WorkerActs \/ UNCHANGED eventsVars, ~EP!event_handler, ~EP!finished_callback
    PROVE  StaysPut
<1>1. redis' = redis /\ receiver' = receiver /\ saved' = saved
  BY DEF WorkerActs, EP!DispatchFails, EP!EndsEarly, EP!SaveStatus, EP!ReadUnlocked, EP!SaveUnlocked, EP!WorkerNotifies,
         EP!WorkerDies, EP!Reap, EP!WorkerOnly, eventsVars
<1>2. worker'.event = worker.event /\ (worker'.at = "playing" => worker.at = "playing")
  <2>1. CASE EP!Reap \/ UNCHANGED eventsVars
    BY <2>1 DEF EP!Reap, eventsVars
  <2>2. CASE ~EP!Reap /\ ~UNCHANGED eventsVars
    <3>1. \A c : EP!ToNotify(c) # "playing"
      BY DEF EP!ToNotify
    <3>2. \E place, d, c : place # "playing" /\ Advances(place, worker.event, d, c)
      BY <2>2, <3>1, WorkerMoves DEF WorkerActs
    <3> QED
      BY <3>2 DEF Advances
  <2> QED
    BY <2>1, <2>2
<1> QED
  BY <1>1, <1>2 DEF StaysPut

LEMMA ReceiverStays ==
    ASSUME RowsType, NEW r \in Receivers,
           EP!ReadTimesOut(r) \/ EP!Wrapup(r) \/ EP!ReceiverNotifies(r) \/ EP!GiveUp(r) \/ EP!WrapupFails(r) \/ EP!ReceiverStops(r)
    PROVE  StaysPut
<1>1. \A s \in Receivers : receiver'[s].buff \subseteq receiver[s].buff
  BY ReceiverMoves DEF Becomes
<1> QED
  BY <1>1 DEF EP!ReadTimesOut, EP!Wrapup, EP!ReceiverNotifies, EP!GiveUp, EP!WrapupFails, EP!ReceiverStops, StaysPut, EP!ReceiverOnly

LEMMA PlacesPushed ==
    ASSUME EventsAssumed, RowsType, OnePlace, EP!event_handler \/ EP!finished_callback
    PROVE  OnePlace'
<1>1. worker \in WorkerStates /\ redis \in Seq(Message) /\ worker.event \in Int
  BY LastFacts DEF RowsType, WorkerStates
<1>2. receiver' = receiver /\ saved' = saved
  BY DEF EP!event_handler, EP!finished_callback, EP!WorkerOnly
<1>3. CASE EP!event_handler
  <2> DEFINE e == worker.event
  <2>1. e \in Events /\ e \in Message /\ worker.at = "playing" /\ redis' = Append(redis, e)
    BY <1>3 DEF EP!event_handler, Message
  <2>2. worker'.event = e + 1 /\ worker'.at = worker.at
    BY <1>1, <1>3 DEF EP!event_handler, WorkerStates
  <2>3. ~Queued(e) /\ saved[e] # 1 /\ ~Buffered(e)
    BY <1>1, <2>1 DEF OnePlace, Buffered
  <2>4. QueuedOnce' /\ \A x : Queued(x)' <=> Queued(x) \/ x = e
    BY <1>1, <2>1, <2>3, Pushed DEF OnePlace
  <2>5. saved[e] = 0
    BY <2>1, <2>3 DEF RowsType
  <2>6. e # EP!EOF /\ Events \subseteq Int /\ \A r \in Receivers : receiver[r].buff \subseteq Events
    BY <2>1, LastFacts DEF EP!EOF, RowsType, ReceiverStates
  <2>7. \A x \in Events : x < e \/ x = e => x < worker'.event
    <3>1. \A x, y \in Int : x < y \/ x = y => x < y + 1
      OBVIOUS
    <3>2. e \in Int
      BY <1>1
    <3> HIDE DEF e
    <3>3. \A x \in Events : x < e \/ x = e => x < e + 1
      BY <2>6, <3>1, <3>2
    <3> QED
      BY <2>2, <3>3
  <2> HIDE DEF e
  <2>8. /\ \A x \in Events : Queued(x)' => saved'[x] = 0 /\ x < worker'.event
        /\ \A x \in Events : saved'[x] = 1 => x < worker'.event
        /\ ~Queued(EP!EOF)'
    BY <1>2, <2>1, <2>4, <2>5, <2>6, <2>7 DEF OnePlace, e
  <2>9. \A r \in Receivers : \A x \in receiver'[r].buff : ~Queued(x)' /\ saved'[x] = 0 /\ x < worker'.event
    <3>1. SUFFICES ASSUME NEW r \in Receivers, NEW x \in receiver[r].buff
                   PROVE  ~Queued(x)' /\ saved[x] = 0 /\ x < worker'.event
      BY <1>2
    <3>2. ~Queued(x) /\ saved[x] = 0 /\ x < e
      BY <3>1 DEF OnePlace, e
    <3>3. x # e
      BY <2>3 DEF Buffered
    <3> QED
      BY <2>4, <2>6, <2>7, <3>2, <3>3
  <2> QED
    BY <1>2, <2>4, <2>8, <2>9 DEF OnePlace
<1>4. CASE EP!finished_callback
  <2>1. EP!EOF \in Message /\ worker.at = "playing" /\ redis' = Append(redis, EP!EOF)
    BY <1>4 DEF EP!finished_callback, Message
  <2>2. worker'.event = worker.event /\ worker'.at = "ended"
    BY <1>1, <1>4 DEF EP!finished_callback, WorkerStates
  <2>3. QueuedOnce' /\ \A x : Queued(x)' <=> Queued(x) \/ x = EP!EOF
    BY <1>1, <2>1, Pushed DEF OnePlace
  <2>4. EP!EOF \notin Events
    BY LastFacts DEF EP!EOF
  <2>5. \A r \in Receivers : receiver[r].buff \subseteq Events
    BY DEF RowsType, ReceiverStates
  <2> QED
    BY <1>2, <2>1, <2>2, <2>3, <2>4, <2>5 DEF OnePlace
<1> QED
  BY <1>3, <1>4

LEMMA PlacesPopped ==
    ASSUME EventsAssumed, RowsType, OnePlace, NEW r \in Receivers, EP!Buffer(r) \/ EP!HandleEOF(r)
    PROVE  OnePlace'
<1> DEFINE e == Head(redis)
<1>1. redis \in Seq(Message) /\ redis # <<>> /\ redis' = Tail(redis) /\ QueuedOnce
  BY DEF EP!Buffer, EP!HandleEOF, RowsType, OnePlace
<1>2. e \in Message /\ Queued(e) /\ QueuedOnce' /\ \A x : Queued(x)' <=> Queued(x) /\ x # e
  BY <1>1, Popped
<1>3. saved' = saved /\ worker' = worker
  BY DEF EP!Buffer, EP!HandleEOF, EP!ReceiverOnly
<1>4. CASE EP!Buffer(r)
  <2>1. e \in Events
    BY <1>2, <1>4 DEF EP!Buffer, Message
  <2>2. receiver'[r].buff = receiver[r].buff \union {e} /\ \A s \in Receivers : s # r => receiver'[s] = receiver[s]
    BY <1>4, ReceiverMoves DEF Becomes
  <2>3. \A s \in Receivers : e \notin receiver[s].buff
    BY <1>2 DEF OnePlace
  <2> HIDE DEF e
  <2> QED
    BY <1>2, <1>3, <2>1, <2>2, <2>3 DEF OnePlace
<1>5. CASE EP!HandleEOF(r)
  <2>1. \A s \in Receivers : receiver'[s].buff = receiver[s].buff
    BY <1>5, ReceiverMoves DEF Becomes
  <2> HIDE DEF e
  <2> QED
    BY <1>2, <1>3, <2>1 DEF OnePlace
<1> QED
  BY <1>4, <1>5

LEMMA PlacesSaved ==
    ASSUME EventsAssumed, RowsType, OnePlace, NEW r \in Receivers, EP!BulkCreate(r) \/ EP!SaveEach(r)
    PROVE  OnePlace'
<1>1. redis' = redis /\ worker' = worker
  BY DEF EP!BulkCreate, EP!SaveEach, EP!ReceiverOnly
<1>2. QueuedOnce' /\ \A x : Queued(x)' <=> Queued(x)
  BY <1>1, SameQueue DEF OnePlace
<1>3. receiver[r].buff \subseteq Events /\ saved \in [Events -> 0 .. 1]
  BY DEF RowsType, ReceiverStates
<1>4. \E batch, rest \in SUBSET receiver[r].buff :
          /\ EP!SaveAll(batch) /\ batch \intersect rest = {}
          /\ receiver'[r].buff = rest /\ \A s \in Receivers : s # r => receiver'[s] = receiver[s]
  <2>1. CASE EP!BulkCreate(r)
    <3>1. Becomes(r, EP!AfterSave(receiver[r].buff), {}) /\ EP!SaveAll(receiver[r].buff)
      BY <2>1, ReceiverMoves DEF EP!BulkCreate
    <3> QED
      BY <3>1 DEF Becomes
  <2>2. CASE EP!SaveEach(r)
    <3>1. PICK rest \in {{}, receiver[r].buff \intersect unsaveable} :
              Becomes(r, EP!AfterSave(receiver[r].buff \ unsaveable), rest)
      BY <2>2, ReceiverMoves
    <3>2. EP!SaveAll(receiver[r].buff \ unsaveable)
      BY <2>2 DEF EP!SaveEach
    <3>3. rest \in SUBSET receiver[r].buff /\ (receiver[r].buff \ unsaveable) \intersect rest = {}
      OBVIOUS
    <3> QED
      BY <3>1, <3>2, <3>3 DEF Becomes
  <2> QED
    BY <2>1, <2>2
<1>5. PICK batch, rest \in SUBSET receiver[r].buff :
          /\ EP!SaveAll(batch) /\ batch \intersect rest = {}
          /\ receiver'[r].buff = rest /\ \A s \in Receivers : s # r => receiver'[s] = receiver[s]
  BY <1>4
<1>6. \A e \in Events : saved'[e] = (IF e \in batch THEN 1 ELSE saved[e])
  BY <1>3, <1>5 DEF EP!SaveAll, OnePlace
<1>7. \A s \in Receivers : receiver'[s].buff \subseteq receiver[s].buff
  BY <1>5
<1>8. \A s \in Receivers : \A e \in receiver'[s].buff : e \in Events /\ e \notin batch
  BY <1>3, <1>5 DEF OnePlace, RowsType, ReceiverStates
<1>9. \A e \in batch : e \in Events /\ ~Queued(e) /\ e < worker.event
  BY <1>3, <1>5 DEF OnePlace
<1> QED
  BY <1>1, <1>2, <1>6, <1>7, <1>8, <1>9 DEF OnePlace

LEMMA PlacesStep == ASSUME EventsAssumed, RowsType, OnePlace, [EP!Next]_eventsVars PROVE OnePlace'
<1>1. CASE \E r \in Receivers : EP!Receive(r) \/ EP!GiveUp(r) \/ EP!WrapupFails(r) \/ EP!ReceiverStops(r)
  <2>1. PICK r \in Receivers : EP!Receive(r) \/ EP!GiveUp(r) \/ EP!WrapupFails(r) \/ EP!ReceiverStops(r)
    BY <1>1
  <2>2. CASE EP!Buffer(r) \/ EP!HandleEOF(r)
    BY <2>2, PlacesPopped
  <2>3. CASE EP!BulkCreate(r) \/ EP!SaveEach(r)
    BY <2>3, PlacesSaved
  <2>4. CASE EP!ReadTimesOut(r) \/ EP!Wrapup(r) \/ EP!ReceiverNotifies(r) \/ EP!GiveUp(r) \/ EP!WrapupFails(r) \/ EP!ReceiverStops(r)
    BY <2>4, ReceiverStays, PlacesStay
  <2> QED
    BY <2>1, <2>2, <2>3, <2>4 DEF EP!Receive
<1>2. CASE EP!event_handler \/ EP!finished_callback
  BY <1>2, PlacesPushed
<1>3. CASE (WorkerActs \/ UNCHANGED eventsVars) /\ ~EP!event_handler /\ ~EP!finished_callback
  BY <1>3, WorkerStays, PlacesStay
<1> QED
  BY <1>1, <1>2, <1>3 DEF EP!Next, EP!Progress, EP!Work, EP!Finish, WorkerActs

LEMMA TypesStep == ASSUME EventsAssumed, RowsType, OnePlace, [EP!Next]_eventsVars PROVE RowsType'
<1>1. CASE UNCHANGED eventsVars
  BY <1>1 DEF eventsVars, RowsType
<1> QED
  BY <1>1, WorkerTypes, ReceiverTypes DEF EP!Next, EP!Progress, EP!Work, EP!Finish, EP!Receive, WorkerActs, ReceiverActs

-----------------------------------------------------------------------------
(* The wrapup comes once. *)

Handles(r) == receiver[r].at \in {"wrapup", "notify"}
Taken == job.counts \/ \E r \in Receivers : Handles(r)

(* It is taken after it was sent, and is nowhere else then.                 *)
TakenInv ==
    Taken => /\ worker.dispatched
             /\ wrapup = "stats" => saved[EP!LastEvent] = 1
             /\ wrapup = "eof" => ~Queued(EP!EOF) /\ worker.at # "playing"

(* One receiver takes it, and notifies if the job was final before.         *)
TakerInv ==
    /\ \A r, s \in Receivers : Handles(r) /\ Handles(s) => r = s
    /\ \A r \in Receivers : receiver[r].at = "wrapup" => ~job.counts
    /\ \A r \in Receivers : receiver[r].at = "notify" => job.counts /\ job.final

(* The worker knows whether it has sent it.                                 *)
SentInv ==
    /\ wrapup = "stats" /\ worker.event > EP!LastEvent => worker.dispatched
    /\ wrapup = "eof" /\ Queued(EP!EOF) => worker.dispatched
    /\ wrapup = "eof" /\ worker.at = "playing" => ~worker.dispatched

WrapupInv == TakenInv /\ TakerInv /\ SentInv

LEMMA WrapupInit == EventsAssumed /\ EP!Init => WrapupInv
<1> SUFFICES ASSUME EventsAssumed, EP!Init PROVE WrapupInv
  OBVIOUS
<1>1. \A r \in Receivers : receiver[r].at = "idle"
  BY DEF EP!Init, EP!Idle
<1>2. ~(1 > EP!LastEvent)
  BY LastFacts
<1> QED
  BY <1>1, <1>2 DEF EP!Init, WrapupInv, TakenInv, TakerInv, SentInv, Taken, Handles, Queued

LEMMA WorkerWrapup == ASSUME EventsAssumed, RowsType, WrapupInv, WorkerActs PROVE WrapupInv'
<1>1. wrapup' = wrapup /\ receiver' = receiver /\ saved' = saved
  BY DEF WorkerActs, EP!event_handler, EP!DispatchFails, EP!finished_callback, EP!EndsEarly, EP!SaveStatus,
         EP!ReadUnlocked, EP!SaveUnlocked, EP!WorkerNotifies, EP!WorkerDies, EP!Reap, EP!WorkerOnly
<1>2. (job'.counts <=> job.counts) /\ (job.final => job'.final)
  <2>1. EP!SaveStatus \/ EP!SaveUnlocked \/ EP!Reap => (job'.counts <=> job.counts) /\ (job.final => job'.final)
    BY WorkerMoves DEF Finishes
  <2>2. ~(EP!SaveStatus \/ EP!SaveUnlocked \/ EP!Reap) => job' = job
    BY DEF WorkerActs, EP!event_handler, EP!DispatchFails, EP!finished_callback, EP!EndsEarly, EP!ReadUnlocked, EP!WorkerNotifies, EP!WorkerDies
  <2> QED
    BY <2>1, <2>2
<1>3. redis \in Seq(Message) /\ worker.event \in Nat /\ EP!LastEvent \in Nat
  BY LastFacts DEF RowsType, WorkerStates
<1>4. TakerInv'
  BY <1>1, <1>2 DEF WrapupInv, TakerInv, Handles
<1>5. Taken' <=> Taken
  BY <1>1, <1>2 DEF Taken, Handles
<1>6. CASE EP!event_handler
  <2>1. Advances("playing", worker.event + 1, worker.dispatched \/ SendsLast, worker.counts) /\ worker.at = "playing"
    BY <1>6, WorkerMoves DEF EP!event_handler
  <2>2. Queued(EP!EOF)' <=> Queued(EP!EOF)
    <3>1. worker.event \in Message /\ worker.event # EP!EOF /\ redis' = Append(redis, worker.event)
      BY <1>6, LastFacts DEF EP!event_handler, Message, EP!EOF
    <3> QED
      BY <1>3, <3>1, Pushed
  <2>3. wrapup = "eof" => ~SendsLast
    BY DEF SendsLast
  <2>4. wrapup = "stats" /\ worker.event + 1 > EP!LastEvent => worker.event > EP!LastEvent \/ SendsLast
    BY <1>3 DEF SendsLast
  <2> QED
    BY <1>1, <1>4, <1>5, <2>1, <2>2, <2>3, <2>4 DEF Advances, WrapupInv, TakenInv, SentInv
<1>7. CASE EP!finished_callback
  <2>1. Advances("ended", worker.event, worker.dispatched \/ wrapup = "eof", worker.counts) /\ worker.at = "playing"
    BY <1>7, WorkerMoves DEF EP!finished_callback
  <2> QED
    BY <1>1, <1>4, <1>5, <2>1 DEF Advances, WrapupInv, TakenInv, SentInv
<1>8. CASE ~EP!event_handler /\ ~EP!finished_callback
  <2>1. \A x : Queued(x)' <=> Queued(x)
    <3>1. redis' = redis
      BY <1>8 DEF WorkerActs, EP!DispatchFails, EP!EndsEarly, EP!SaveStatus,
         EP!ReadUnlocked, EP!SaveUnlocked, EP!WorkerNotifies, EP!WorkerDies, EP!Reap
    <3> QED
      BY <3>1, SameQueue
  <2>2. /\ worker'.event = worker.event
        /\ worker'.at = "playing" => worker.at = "playing" /\ (worker'.dispatched <=> worker.dispatched)
        /\ worker.dispatched => worker'.dispatched
    <3>1. CASE EP!Reap
      BY <3>1 DEF EP!Reap
    <3>2. CASE ~EP!Reap
      <4>1. \A c : EP!ToNotify(c) # "playing"
        BY DEF EP!ToNotify
      <4>2. \E place, d, c : place # "playing" /\ (worker.dispatched => d) /\ Advances(place, worker.event, d, c)
        BY <1>8, <3>2, <4>1, WorkerMoves DEF WorkerActs
      <4> QED
        BY <4>2 DEF Advances
    <3> QED
      BY <3>1, <3>2
  <2> QED
    BY <1>1, <1>4, <1>5, <2>1, <2>2 DEF WrapupInv, TakenInv, SentInv
<1> QED
  BY <1>6, <1>7, <1>8

(* A receiver that does not come to handle the wrapup.                      *)
LEMMA OthersWrapup ==
    ASSUME EventsAssumed, RowsType, WrapupInv, NEW r \in Receivers,
           NEW place \in {"idle", "flush", "stopped"}, NEW buff, Becomes(r, place, buff),
           job' = job, EP!ReceiverOnly,
           \A x : Queued(x)' => Queued(x),
           saved[EP!LastEvent] = 1 => saved'[EP!LastEvent] = 1
    PROVE  WrapupInv'
<1>1. \A s \in Receivers : \/ receiver'[s].at = receiver[s].at
                            \/ receiver'[s].at \notin {"wrapup", "notify"}
  BY DEF Becomes
<1>2. Taken' => Taken
  BY <1>1 DEF Taken, Handles
<1>3. TakerInv'
  BY <1>1 DEF WrapupInv, TakerInv, Handles
<1> QED
  BY <1>2, <1>3 DEF WrapupInv, TakenInv, SentInv, EP!ReceiverOnly

(* A receiver that takes the wrapup.                                        *)
LEMMA TakesWrapup ==
    ASSUME EventsAssumed, RowsType, WrapupInv, NEW r \in Receivers, ~Taken,
           NEW buff, Becomes(r, "wrapup", buff),
           job' = job, EP!ReceiverOnly, worker.dispatched,
           \A x : Queued(x)' => Queued(x),
           wrapup = "stats" => saved'[EP!LastEvent] = 1,
           wrapup = "eof" => ~Queued(EP!EOF)' /\ worker.at # "playing"
    PROVE  WrapupInv'
<1>1. \A s \in Receivers : s # r => ~Handles(s)'
  BY DEF Becomes, Taken, Handles
<1>2. receiver'[r].at = "wrapup" /\ ~job.counts
  BY DEF Becomes, Taken
<1>3. TakerInv'
  BY <1>1, <1>2 DEF TakerInv, Handles
<1> QED
  BY <1>3 DEF WrapupInv, TakenInv, SentInv, EP!ReceiverOnly

LEMMA ReceiverWrapup ==
    ASSUME EventsAssumed, RowsType, OnePlace, WrapupInv, NEW r \in Receivers, ReceiverActs(r) PROVE WrapupInv'
<1>1. EP!ReceiverOnly
  BY DEF ReceiverActs, EP!Buffer, EP!HandleEOF, EP!ReadTimesOut, EP!BulkCreate, EP!SaveEach, EP!Wrapup, EP!ReceiverNotifies,
         EP!GiveUp, EP!WrapupFails, EP!ReceiverStops
<1>2. redis \in Seq(Message) /\ QueuedOnce
  BY DEF RowsType, OnePlace
<1>3. EP!Buffer(r) \/ EP!HandleEOF(r) => Queued(Head(redis)) /\ \A x : Queued(x)' <=> Queued(x) /\ x # Head(redis)
  BY <1>2, Popped DEF EP!Buffer, EP!HandleEOF
<1>4. ~EP!Buffer(r) /\ ~EP!HandleEOF(r) => \A x : Queued(x)' <=> Queued(x)
  BY SameQueue DEF ReceiverActs, EP!ReadTimesOut, EP!BulkCreate, EP!SaveEach, EP!Wrapup, EP!ReceiverNotifies,
         EP!GiveUp, EP!WrapupFails, EP!ReceiverStops
<1>5. EP!LastEvent \in Events /\ EP!LastEvent \notin unsaveable
  BY LastFacts DEF RowsType
<1>6. EP!ReadTimesOut(r) \/ EP!GiveUp(r) \/ EP!WrapupFails(r) \/ EP!ReceiverStops(r) => saved' = saved /\ job' = job
  BY DEF EP!ReadTimesOut, EP!GiveUp, EP!WrapupFails, EP!ReceiverStops
<1>7. CASE EP!ReadTimesOut(r) \/ EP!GiveUp(r) \/ EP!WrapupFails(r) \/ EP!ReceiverStops(r)
  <2>1. ~EP!Buffer(r) /\ ~EP!HandleEOF(r)
    BY <1>7, <1>2, TailFacts DEF EP!ReadTimesOut, EP!GiveUp, EP!WrapupFails, EP!ReceiverStops, EP!Buffer, EP!HandleEOF, EP!Fault
  <2>2. \E place \in {"idle", "flush", "stopped"} : \E buff : Becomes(r, place, buff)
    BY <1>7, ReceiverMoves
  <2> QED
    BY <1>1, <1>4, <1>6, <1>7, <2>1, <2>2, OthersWrapup
<1>8. CASE EP!Buffer(r)
  <2>1. \E place \in {"idle", "flush", "stopped"} : \E buff : Becomes(r, place, buff)
    BY <1>8, ReceiverMoves
  <2> QED
    BY <1>1, <1>3, <1>8, <2>1, OthersWrapup DEF EP!Buffer
<1>9. CASE EP!HandleEOF(r) /\ wrapup = "stats"
  <2>1. Becomes(r, "idle", receiver[r].buff)
    BY <1>9, ReceiverMoves
  <2>2. job' = job /\ saved' = saved
    BY <1>9 DEF EP!HandleEOF
  <2> QED
    BY <1>1, <1>3, <1>9, <2>1, <2>2, OthersWrapup
<1>10. CASE EP!HandleEOF(r) /\ wrapup = "eof"
  <2>1. Becomes(r, "wrapup", receiver[r].buff)
    BY <1>10, ReceiverMoves
  <2>2. job' = job /\ saved' = saved /\ Queued(EP!EOF) /\ ~Queued(EP!EOF)'
    BY <1>3, <1>10 DEF EP!HandleEOF
  <2>3. ~Taken /\ worker.dispatched /\ worker.at # "playing"
    BY <1>10, <2>2 DEF WrapupInv, TakenInv, SentInv, OnePlace
  <2> QED
    BY <1>1, <1>3, <1>10, <2>1, <2>2, <2>3, TakesWrapup
<1>11. CASE EP!BulkCreate(r) \/ EP!SaveEach(r)
  <2>0. ~EP!Buffer(r) /\ ~EP!HandleEOF(r) /\ job' = job
    BY <1>11 DEF EP!BulkCreate, EP!SaveEach, EP!Buffer, EP!HandleEOF
  <2>1. \E batch \in SUBSET receiver[r].buff : \E rest : EP!SaveAll(batch) /\ Becomes(r, EP!AfterSave(batch), rest)
    <3>1. EP!BulkCreate(r) => EP!SaveAll(receiver[r].buff)
      BY DEF EP!BulkCreate
    <3>2. EP!SaveEach(r) => EP!SaveAll(receiver[r].buff \ unsaveable)
      BY DEF EP!SaveEach
    <3>3. receiver[r].buff \in SUBSET receiver[r].buff /\ receiver[r].buff \ unsaveable \in SUBSET receiver[r].buff
      OBVIOUS
    <3> QED
      BY <1>11, <3>1, <3>2, <3>3, ReceiverMoves
  <2>2. PICK batch \in SUBSET receiver[r].buff, rest \in SUBSET Events : EP!SaveAll(batch) /\ Becomes(r, EP!AfterSave(batch), rest)
    BY <2>1 DEF Becomes, ReceiverStates
  <2>3. saved'[EP!LastEvent] = saved[EP!LastEvent] + IF EP!LastEvent \in batch THEN 1 ELSE 0
    BY <1>5, <2>2 DEF EP!SaveAll
  <2>4. EP!LastEvent \in batch => saved[EP!LastEvent] = 0 /\ EP!LastEvent < worker.event
    BY <2>2 DEF OnePlace
  <2>5. CASE wrapup = "stats" /\ EP!LastEvent \in batch
    <3>1. saved'[EP!LastEvent] = 1 /\ ~Taken
      BY <2>3, <2>4, <2>5 DEF WrapupInv, TakenInv
    <3>2. worker.dispatched
      BY <2>4, <2>5, LastFacts DEF WrapupInv, SentInv, RowsType, WorkerStates
    <3>3. EP!AfterSave(batch) = "wrapup"
      BY <2>5 DEF EP!AfterSave
    <3> QED
      BY <1>1, <1>4, <2>0, <2>2, <2>5, <3>1, <3>2, <3>3, TakesWrapup
  <2>6. CASE ~(wrapup = "stats" /\ EP!LastEvent \in batch)
    <3>1. EP!AfterSave(batch) = "idle"
      BY <2>6 DEF EP!AfterSave
    <3>2. saved[EP!LastEvent] = 1 => saved'[EP!LastEvent] = 1
      BY <2>3, <2>4
    <3> QED
      BY <1>1, <1>4, <2>0, <2>2, <3>1, <3>2, OthersWrapup
  <2> QED
    BY <2>5, <2>6
<1>12. CASE EP!Wrapup(r)
  <2>1. Becomes(r, IF job.final THEN "notify" ELSE "idle", receiver[r].buff) /\ Handles(r)
    BY <1>12, ReceiverMoves DEF EP!Wrapup, Handles
  <2>2. /\ job' = [job EXCEPT !.counts = TRUE] /\ saved' = saved /\ redis' = redis
        /\ job'.counts /\ (job'.final <=> job.final)
    BY <1>12 DEF EP!Wrapup, RowsType, JobStates
  <2>3. \A x : Queued(x)' <=> Queued(x)
    BY <2>2, SameQueue
  <2>4. \A s \in Receivers : s # r => ~Handles(s)'
    BY <2>1 DEF WrapupInv, TakerInv, Handles, Becomes
  <2>5. receiver'[r].at = (IF job.final THEN "notify" ELSE "idle")
    BY <2>1 DEF Becomes
  <2>6. TakerInv'
    BY <2>2, <2>4, <2>5 DEF TakerInv, Handles
  <2>7. Taken
    BY <2>1 DEF Taken
  <2> QED
    BY <1>1, <2>2, <2>3, <2>6, <2>7 DEF WrapupInv, TakenInv, SentInv, EP!ReceiverOnly
<1>13. CASE EP!ReceiverNotifies(r)
  <2>1. Becomes(r, "idle", receiver[r].buff) /\ job' = job /\ saved' = saved /\ redis' = redis
    BY <1>13, ReceiverMoves DEF EP!ReceiverNotifies
  <2>2. \A x : Queued(x)' <=> Queued(x)
    BY <2>1, SameQueue
  <2> QED
    BY <1>1, <2>1, <2>2, OthersWrapup
<1> QED
  BY <1>7, <1>8, <1>9, <1>10, <1>11, <1>12, <1>13 DEF ReceiverActs, RowsType

LEMMA WrapupStep == ASSUME EventsAssumed, RowsType, OnePlace, WrapupInv, [EP!Next]_eventsVars PROVE WrapupInv'
<1>1. CASE UNCHANGED eventsVars
  BY <1>1 DEF eventsVars, WrapupInv, TakenInv, TakerInv, SentInv, Taken, Handles, Queued
<1> QED
  BY <1>1, WorkerWrapup, ReceiverWrapup DEF EP!Next, EP!Progress, EP!Work, EP!Finish, EP!Receive, WorkerActs, ReceiverActs

-----------------------------------------------------------------------------
(* The notifications are sent once. *)

(* Whoever is about to send them is alone, and nobody will be asked again.  *)
NoticeInv ==
    /\ worker.counts => job.counts
    /\ reaped => job.final
    /\ ~reaped =>
         /\ job.final => worker.at \in {"notify", "done"} /\ job.emitted = worker.event - 1
         /\ worker.at = "notify" => job.final
         /\ notified \in {0, 1}
         /\ notified = 1 \/ worker.at = "notify" => job.final /\ (job.counts \/ ~worker.dispatched)
         /\ worker.at = "notify" => notified = 0 /\ \A r \in Receivers : receiver[r].at # "notify"
         /\ \A r \in Receivers : receiver[r].at = "notify" => notified = 0

LEMMA NoticeInit == EP!Init => NoticeInv
BY DEF EP!Init, NoticeInv, EP!Idle

LEMMA WorkerNotices == ASSUME EventsAssumed, RowsType, WrapupInv, NoticeInv, WorkerActs PROVE NoticeInv'
<1>1. receiver' = receiver
  BY DEF WorkerActs, EP!event_handler, EP!DispatchFails, EP!finished_callback, EP!EndsEarly, EP!SaveStatus,
         EP!ReadUnlocked, EP!SaveUnlocked, EP!WorkerNotifies, EP!WorkerDies, EP!Reap, EP!WorkerOnly
<1>2. /\ job.final \in BOOLEAN /\ job.counts \in BOOLEAN /\ worker.dispatched \in BOOLEAN
      /\ worker.counts \in BOOLEAN
  BY DEF RowsType, JobStates, WorkerStates
<1>3. CASE EP!event_handler \/ EP!DispatchFails \/ EP!finished_callback \/ EP!EndsEarly
  <2>1. job' = job /\ notified' = notified /\ reaped' = reaped /\ worker.at = "playing"
    BY <1>3 DEF EP!event_handler, EP!DispatchFails, EP!finished_callback, EP!EndsEarly
  <2>2. worker'.at \in {"playing", "ended"} /\ (worker'.counts <=> worker.counts)
    BY <1>3, WorkerMoves DEF Advances
  <2>3. ~reaped => ~job.final /\ notified # 1
    BY <2>1 DEF NoticeInv
  <2> QED
    BY <1>1, <2>1, <2>2, <2>3 DEF NoticeInv
<1>4. CASE EP!SaveStatus \/ EP!SaveUnlocked
  <2>1. PICK c \in {job.counts, worker.counts} :
             /\ Advances(EP!ToNotify(c), worker.event, worker.dispatched, worker.counts)
             /\ Finishes(TRUE, worker.event - 1)
    BY <1>4, WorkerMoves
  <2>2. notified' = notified /\ reaped' = reaped /\ worker.at \in {"ended", "saving"}
    BY <1>4 DEF EP!SaveStatus, EP!SaveUnlocked
  <2>3. ~reaped => ~job.final /\ notified = 0
    BY <2>2 DEF NoticeInv
  <2>4. ~reaped => \A r \in Receivers : receiver[r].at # "notify"
    BY <2>3 DEF WrapupInv, TakerInv
  <2>5. EP!ToNotify(c) \in {"notify", "done"} /\ (EP!ToNotify(c) = "notify" => job.counts \/ ~worker.dispatched)
    BY <2>1 DEF EP!ToNotify, NoticeInv
  <2> QED
    BY <1>1, <2>1, <2>2, <2>3, <2>4, <2>5 DEF NoticeInv, Advances, Finishes
<1>5. CASE EP!ReadUnlocked
  <2>1. Advances("saving", worker.event, worker.dispatched, job.counts) /\ job' = job
    BY <1>5, WorkerMoves DEF EP!ReadUnlocked
  <2>2. notified' = notified /\ reaped' = reaped /\ worker.at = "ended"
    BY <1>5 DEF EP!ReadUnlocked
  <2> QED
    BY <1>1, <2>1, <2>2 DEF NoticeInv, Advances
<1>6. CASE EP!WorkerNotifies
  <2>1. Advances("done", worker.event, worker.dispatched, worker.counts) /\ job' = job
    BY <1>6, WorkerMoves DEF EP!WorkerNotifies
  <2>2. notified' = notified + 1 /\ reaped' = reaped /\ worker.at = "notify"
    BY <1>6 DEF EP!WorkerNotifies
  <2> QED
    BY <1>1, <2>1, <2>2 DEF NoticeInv, Advances
<1>7. CASE EP!WorkerDies
  <2>1. Advances("done", worker.event, worker.dispatched, worker.counts) /\ job' = job
    BY <1>7, WorkerMoves DEF EP!WorkerDies
  <2>2. notified' = notified /\ reaped' = reaped
    BY <1>7 DEF EP!WorkerDies
  <2> QED
    BY <1>1, <2>1, <2>2 DEF NoticeInv, Advances
<1>8. CASE EP!Reap
  <2>1. Finishes(TRUE, job.emitted) /\ worker' = worker /\ reaped'
    BY <1>8, WorkerMoves DEF EP!Reap
  <2> QED
    BY <2>1 DEF NoticeInv, Finishes
<1> QED
  BY <1>3, <1>4, <1>5, <1>6, <1>7, <1>8 DEF WorkerActs

LEMMA ReceiverNotices ==
    ASSUME RowsType, WrapupInv, NoticeInv, NEW r \in Receivers, ReceiverActs(r) PROVE NoticeInv'
<1>1. worker' = worker /\ reaped' = reaped
  BY DEF ReceiverActs, EP!Buffer, EP!HandleEOF, EP!ReadTimesOut, EP!BulkCreate, EP!SaveEach, EP!Wrapup, EP!ReceiverNotifies,
         EP!GiveUp, EP!WrapupFails, EP!ReceiverStops, EP!ReceiverOnly
<1>2. CASE EP!Wrapup(r)
  <2>1. Becomes(r, IF job.final THEN "notify" ELSE "idle", receiver[r].buff) /\ receiver[r].at = "wrapup"
    BY <1>2, ReceiverMoves DEF EP!Wrapup
  <2>2. notified' = notified /\ job'.counts /\ (job'.final <=> job.final) /\ job'.emitted = job.emitted
    BY <1>2 DEF EP!Wrapup, RowsType, JobStates
  <2>3. ~job.counts /\ worker.dispatched
    BY <2>1 DEF WrapupInv, TakerInv, TakenInv, Taken, Handles
  <2>4. ~reaped => notified = 0 /\ worker.at # "notify"
    BY <2>3 DEF NoticeInv
  <2> QED
    BY <1>1, <2>1, <2>2, <2>3, <2>4 DEF NoticeInv, Becomes
<1>3. CASE EP!ReceiverNotifies(r)
  <2>1. Becomes(r, "idle", receiver[r].buff) /\ receiver[r].at = "notify"
    BY <1>3, ReceiverMoves DEF EP!ReceiverNotifies
  <2>2. notified' = notified + 1 /\ job' = job
    BY <1>3 DEF EP!ReceiverNotifies
  <2>3. job.counts /\ job.final
    BY <2>1 DEF WrapupInv, TakerInv
  <2>4. ~reaped => worker.at # "notify" /\ notified = 0
    BY <2>1 DEF NoticeInv
  <2>5. \A s \in Receivers : receiver'[s].at # "notify"
    BY <2>1 DEF Becomes, WrapupInv, TakerInv, Handles
  <2> QED
    BY <1>1, <2>1, <2>2, <2>3, <2>4, <2>5 DEF NoticeInv
<1>4. CASE ~EP!Wrapup(r) /\ ~EP!ReceiverNotifies(r)
  <2>1. job' = job /\ notified' = notified
    BY <1>4 DEF ReceiverActs, EP!Buffer, EP!HandleEOF, EP!ReadTimesOut, EP!BulkCreate, EP!SaveEach, EP!GiveUp, EP!WrapupFails, EP!ReceiverStops
  <2>2. \E place, buff : Becomes(r, place, buff) /\ place # "notify"
    <3>1. \A batch : EP!AfterSave(batch) # "notify"
      BY DEF EP!AfterSave
    <3>2. EP!BulkCreate(r) \/ EP!SaveEach(r) => \E batch, buff : Becomes(r, EP!AfterSave(batch), buff)
      BY ReceiverMoves
    <3>3. EP!Buffer(r) \/ EP!HandleEOF(r) \/ EP!ReadTimesOut(r) \/ EP!GiveUp(r) \/ EP!WrapupFails(r) \/ EP!ReceiverStops(r)
              => \E place \in {"idle", "flush", "wrapup", "stopped"} : \E buff : Becomes(r, place, buff)
      BY ReceiverMoves
    <3> QED
      BY <1>4, <3>1, <3>2, <3>3 DEF ReceiverActs
  <2>3. \A s \in Receivers : receiver'[s].at = "notify" => receiver[s].at = "notify"
    BY <2>2 DEF Becomes
  <2> QED
    BY <1>1, <2>1, <2>3 DEF NoticeInv
<1> QED
  BY <1>2, <1>3, <1>4

LEMMA NoticeStep == ASSUME EventsAssumed, RowsType, WrapupInv, NoticeInv, [EP!Next]_eventsVars PROVE NoticeInv'
<1>1. CASE UNCHANGED eventsVars
  BY <1>1 DEF eventsVars, NoticeInv
<1> QED
  BY <1>1, WorkerNotices, ReceiverNotices DEF EP!Next, EP!Progress, EP!Work, EP!Finish, EP!Receive, WorkerActs, ReceiverActs

-----------------------------------------------------------------------------
(* Without a fault nobody is missing. *)

(* Token carries the wrapup.                                                *)
Token == IF wrapup = "stats" THEN EP!LastEvent ELSE EP!EOF
OnItsWay == Queued(Token) \/ Buffered(Token) \/ \E r \in Receivers : receiver[r].at = "wrapup"
Expected == worker.dispatched /\ ~job.counts

CalmInv ==
    faults = 0 =>
        /\ ~reaped /\ worker.at # "saving"
        /\ worker.at \in {"notify", "done"} => job.final
        /\ Expected => OnItsWay
        /\ worker.at = "done" /\ notified = 0 => Expected \/ \E r \in Receivers : receiver[r].at = "notify"

LEMMA CalmInit == EP!Init => CalmInv
BY DEF EP!Init, CalmInv, Expected

LEMMA WorkerCalm == ASSUME EventsAssumed, RowsType, NoticeInv, CalmInv, WorkerActs PROVE CalmInv'
<1>1. receiver' = receiver /\ wrapup' = wrapup
  BY DEF WorkerActs, EP!event_handler, EP!DispatchFails, EP!finished_callback, EP!EndsEarly, EP!SaveStatus,
         EP!ReadUnlocked, EP!SaveUnlocked, EP!WorkerNotifies, EP!WorkerDies, EP!Reap, EP!WorkerOnly
<1>2. /\ job.final \in BOOLEAN /\ job.counts \in BOOLEAN /\ worker.dispatched \in BOOLEAN
      /\ faults \in Nat /\ notified \in Nat /\ redis \in Seq(Message)
  BY DEF RowsType, JobStates, WorkerStates
<1>3. SUFFICES ASSUME faults' = 0 PROVE CalmInv'
  BY DEF CalmInv
<1>4. ~EP!DispatchFails /\ ~EP!ReadUnlocked /\ ~EP!WorkerDies
  BY <1>2, <1>3 DEF EP!DispatchFails, EP!ReadUnlocked, EP!WorkerDies, EP!Fault
<1>5. faults = 0
  BY <1>3, <1>4 DEF WorkerActs, EP!event_handler, EP!finished_callback, EP!EndsEarly, EP!SaveStatus, EP!SaveUnlocked, EP!WorkerNotifies, EP!Reap
<1>6. /\ ~reaped /\ worker.at # "saving"
      /\ worker.at \in {"notify", "done"} => job.final
      /\ Expected => OnItsWay
      /\ worker.at = "done" /\ notified = 0 => Expected \/ \E r \in Receivers : receiver[r].at = "notify"
  BY <1>5 DEF CalmInv
<1>7. ~EP!Reap /\ ~EP!SaveUnlocked
  BY <1>6 DEF EP!Reap, EP!SaveUnlocked
<1>8. reaped' = reaped
  BY <1>4, <1>7 DEF WorkerActs, EP!event_handler, EP!finished_callback, EP!EndsEarly, EP!SaveStatus, EP!WorkerNotifies
<1>9. CASE EP!event_handler \/ EP!finished_callback
  <2>1. PICK e \in Message : redis' = Append(redis, e) /\ (EP!event_handler => e = worker.event) /\ (EP!finished_callback /\ ~EP!event_handler => e = EP!EOF)
    BY <1>9 DEF EP!event_handler, EP!finished_callback, Message
  <2>2. \A x : Queued(x)' <=> Queued(x) \/ x = e
    BY <1>2, <2>1, Pushed
  <2>3. OnItsWay => OnItsWay'
    BY <1>1, <2>2 DEF OnItsWay, Buffered, Token
  <2>4. job' = job /\ worker'.at \in {"playing", "ended"}
    BY <1>9, WorkerMoves DEF EP!event_handler, EP!finished_callback, Advances
  <2>5. Expected' => OnItsWay'
    <3>1. CASE EP!event_handler
      <4>1. worker'.dispatched <=> worker.dispatched \/ SendsLast
        BY <3>1, WorkerMoves DEF Advances
      <4>2. SendsLast => Queued(Token)'
        BY <1>1, <2>1, <2>2, <3>1 DEF SendsLast, Token
      <4> QED
        BY <1>6, <2>3, <2>4, <4>1, <4>2 DEF Expected, OnItsWay
    <3>2. CASE EP!finished_callback /\ ~EP!event_handler
      <4>1. worker'.dispatched <=> worker.dispatched \/ wrapup = "eof"
        BY <3>2, WorkerMoves DEF Advances
      <4>2. wrapup = "eof" => Queued(Token)'
        BY <1>1, <2>1, <2>2, <3>2 DEF Token
      <4> QED
        BY <1>6, <2>3, <2>4, <4>1, <4>2 DEF Expected, OnItsWay
    <3> QED
      BY <1>9, <3>1, <3>2
  <2> QED
    BY <1>6, <1>8, <2>4, <2>5 DEF CalmInv
<1>10. CASE EP!EndsEarly \/ EP!SaveStatus \/ EP!WorkerNotifies
  <2>1. redis' = redis /\ (worker'.dispatched <=> worker.dispatched) /\ (job'.counts <=> job.counts)
    BY <1>10, WorkerMoves DEF EP!EndsEarly, EP!SaveStatus, EP!WorkerNotifies, Advances, Finishes
  <2>2. \A x : Queued(x)' <=> Queued(x)
    BY <2>1, SameQueue
  <2>3. (Expected' <=> Expected) /\ (OnItsWay' <=> OnItsWay)
    BY <1>1, <2>1, <2>2 DEF Expected, OnItsWay, Buffered, Token
  <2>4. CASE EP!EndsEarly
    <3>1. worker'.at = "ended"
      BY <2>4, WorkerMoves DEF Advances
    <3> QED
      BY <1>6, <1>8, <2>3, <3>1 DEF CalmInv
  <2>5. CASE EP!SaveStatus
    <3>1. worker'.at = EP!ToNotify(job.counts) /\ job'.final
      BY <2>5, WorkerMoves DEF Advances, Finishes
    <3>2. worker'.at \in {"notify", "done"} /\ (worker'.at = "done" => Expected)
      BY <3>1 DEF EP!ToNotify, Expected
    <3> QED
      BY <1>6, <1>8, <2>3, <3>1, <3>2 DEF CalmInv
  <2>6. CASE EP!WorkerNotifies
    <3>1. notified' = notified + 1 /\ worker'.at = "done" /\ job' = job /\ worker.at = "notify"
      BY <2>6, WorkerMoves DEF EP!WorkerNotifies, Advances
    <3> QED
      BY <1>2, <1>6, <1>8, <2>3, <3>1 DEF CalmInv
  <2> QED
    BY <1>10, <2>4, <2>5, <2>6
<1> QED
  BY <1>4, <1>7, <1>9, <1>10 DEF WorkerActs

LEMMA ReceiverCalm ==
    ASSUME EventsAssumed, RowsType, OnePlace, WrapupInv, CalmInv, NEW r \in Receivers, ReceiverActs(r) PROVE CalmInv'
<1>1. /\ worker' = worker /\ reaped' = reaped /\ wrapup' = wrapup
      /\ (job'.final <=> job.final)
  <2>1. EP!Wrapup(r) => (job'.final <=> job.final)
    BY DEF EP!Wrapup, RowsType, JobStates
  <2> QED
    BY <2>1 DEF ReceiverActs, EP!Buffer, EP!HandleEOF, EP!ReadTimesOut, EP!BulkCreate, EP!SaveEach, EP!Wrapup, EP!ReceiverNotifies,
                EP!GiveUp, EP!WrapupFails, EP!ReceiverStops, EP!ReceiverOnly
<1>2. faults \in Nat /\ notified \in Nat /\ redis \in Seq(Message) /\ QueuedOnce /\ job.counts \in BOOLEAN
  BY DEF RowsType, JobStates, OnePlace
<1>3. SUFFICES ASSUME faults' = 0 PROVE CalmInv'
  BY DEF CalmInv
<1>4. ~EP!GiveUp(r) /\ ~EP!WrapupFails(r) /\ ~EP!ReceiverStops(r)
  BY <1>2, <1>3 DEF EP!GiveUp, EP!WrapupFails, EP!ReceiverStops, EP!Fault
<1>5. faults = 0
  BY <1>3, <1>4 DEF ReceiverActs, EP!Buffer, EP!HandleEOF, EP!ReadTimesOut, EP!BulkCreate, EP!SaveEach, EP!Wrapup, EP!ReceiverNotifies
<1>6. /\ ~reaped /\ worker.at # "saving"
      /\ worker.at \in {"notify", "done"} => job.final
      /\ Expected => OnItsWay
      /\ worker.at = "done" /\ notified = 0 => Expected \/ \E s \in Receivers : receiver[s].at = "notify"
  BY <1>5 DEF CalmInv
<1>7. ASSUME job' = job, notified' = notified, Expected => OnItsWay',
             \A s \in Receivers : receiver[s].at = "notify" => receiver'[s].at = "notify"
      PROVE  CalmInv'
  BY <1>1, <1>6, <1>7 DEF CalmInv, Expected
<1>8. CASE EP!Buffer(r)
  <2>1. PICK place \in {"idle", "flush"} : Becomes(r, place, receiver[r].buff \union {Head(redis)})
    BY <1>8, ReceiverMoves
  <2>2. receiver[r].at = "idle" /\ job' = job /\ notified' = notified
    BY <1>8 DEF EP!Buffer
  <2>0. PICK e : e = Head(redis)
    OBVIOUS
  <2>3. \A x : Queued(x)' <=> Queued(x) /\ x # e
    BY <1>2, <1>8, <2>0, Popped DEF EP!Buffer
  <2>4. Buffered(e)' /\ \A x : Buffered(x) => Buffered(x)'
    BY <2>0, <2>1 DEF Becomes, Buffered
  <2>5. \A s \in Receivers : receiver[s].at \in {"wrapup", "notify"} => receiver'[s].at = receiver[s].at
    BY <2>1, <2>2 DEF Becomes
  <2>6. OnItsWay => OnItsWay'
    BY <1>1, <2>3, <2>4, <2>5 DEF OnItsWay, Token
  <2> QED
    BY <1>6, <1>7, <2>2, <2>5, <2>6
<1>9. CASE EP!HandleEOF(r)
  <2>1. Becomes(r, IF wrapup = "eof" THEN "wrapup" ELSE "idle", receiver[r].buff)
    BY <1>9, ReceiverMoves
  <2>2. receiver[r].at = "idle" /\ job' = job /\ notified' = notified
    BY <1>9 DEF EP!HandleEOF
  <2>3. \A x : Queued(x)' <=> Queued(x) /\ x # EP!EOF
    BY <1>2, <1>9, Popped DEF EP!HandleEOF
  <2>4. \A x : Buffered(x) => Buffered(x)'
    BY <2>1 DEF Becomes, Buffered
  <2>5. \A s \in Receivers : receiver[s].at \in {"wrapup", "notify"} => receiver'[s].at = receiver[s].at
    BY <2>1, <2>2 DEF Becomes
  <2>6. wrapup = "eof" => receiver'[r].at = "wrapup"
    BY <2>1 DEF Becomes
  <2>7. wrapup = "stats" => EP!LastEvent # EP!EOF
    BY LastFacts DEF EP!EOF
  <2>8. wrapup \in {"stats", "eof"}
    BY DEF RowsType
  <2>9. OnItsWay => OnItsWay'
    BY <1>1, <2>3, <2>4, <2>5, <2>6, <2>7, <2>8 DEF OnItsWay, Token
  <2> QED
    BY <1>6, <1>7, <2>2, <2>5, <2>9
<1>10. CASE EP!ReadTimesOut(r)
  <2>1. Becomes(r, "flush", receiver[r].buff)
    BY <1>10, ReceiverMoves
  <2>2. receiver[r].at = "idle" /\ job' = job /\ notified' = notified /\ redis' = redis
    BY <1>10 DEF EP!ReadTimesOut
  <2>3. \A x : Queued(x)' <=> Queued(x)
    BY <2>2, SameQueue
  <2>4. \A x : Buffered(x) => Buffered(x)'
    BY <2>1 DEF Becomes, Buffered
  <2>5. \A s \in Receivers : receiver[s].at \in {"wrapup", "notify"} => receiver'[s].at = receiver[s].at
    BY <2>1, <2>2 DEF Becomes
  <2>6. OnItsWay => OnItsWay'
    BY <1>1, <2>3, <2>4, <2>5 DEF OnItsWay, Token
  <2> QED
    BY <1>6, <1>7, <2>2, <2>5, <2>6
<1>11. CASE EP!BulkCreate(r) \/ EP!SaveEach(r)
  <2>1. PICK batch \in SUBSET Events : /\ receiver[r].buff \ unsaveable \subseteq batch
                                     /\ \E rest : Becomes(r, EP!AfterSave(batch), rest)
    <3>1. receiver[r].buff \in SUBSET Events /\ receiver[r].buff \ unsaveable \in SUBSET Events
      BY DEF RowsType, ReceiverStates
    <3> QED
      BY <1>11, <3>1, ReceiverMoves
  <2>2. receiver[r].at = "flush" /\ job' = job /\ notified' = notified /\ redis' = redis
    BY <1>11 DEF EP!BulkCreate, EP!SaveEach
  <2>3. \A x : Queued(x)' <=> Queued(x)
    BY <2>2, SameQueue
  <2>4. \A s \in Receivers : receiver[s].at \in {"wrapup", "notify"} => receiver'[s].at = receiver[s].at
    BY <2>1, <2>2 DEF Becomes
  <2>5. ASSUME Buffered(Token) PROVE OnItsWay'
    <3>1. PICK s \in Receivers : Token \in receiver[s].buff
      BY <2>5 DEF Buffered
    <3>2. CASE s = r
      <4>1. Token \in Events
        BY <3>1 DEF RowsType, ReceiverStates
      <4>2. Token = EP!LastEvent /\ wrapup = "stats" /\ Token \notin unsaveable
        BY <4>1, LastFacts DEF Token, EP!EOF, RowsType
      <4>3. EP!AfterSave(batch) = "wrapup"
        BY <2>1, <3>1, <3>2, <4>2 DEF EP!AfterSave
      <4> QED
        BY <2>1, <4>3 DEF OnItsWay, Becomes
    <3>3. CASE s # r
      BY <1>1, <2>1, <3>1, <3>3 DEF OnItsWay, Becomes, Buffered, Token
    <3> QED
      BY <3>2, <3>3
  <2>6. OnItsWay => OnItsWay'
    BY <1>1, <2>3, <2>4, <2>5 DEF OnItsWay, Token
  <2> QED
    BY <1>6, <1>7, <2>2, <2>4, <2>6
<1>12. CASE EP!Wrapup(r)
  <2>1. Becomes(r, IF job.final THEN "notify" ELSE "idle", receiver[r].buff) /\ receiver[r].at = "wrapup"
    BY <1>12, ReceiverMoves DEF EP!Wrapup
  <2>2. notified' = notified /\ job'.counts
    BY <1>12 DEF EP!Wrapup, RowsType, JobStates
  <2>3. job.final => receiver'[r].at = "notify"
    BY <2>1 DEF Becomes
  <2> QED
    BY <1>1, <1>6, <2>2, <2>3 DEF CalmInv, Expected
<1>13. CASE EP!ReceiverNotifies(r)
  <2>1. receiver[r].at = "notify" /\ notified' = notified + 1 /\ job' = job
    BY <1>13 DEF EP!ReceiverNotifies
  <2>2. job.counts
    BY <2>1 DEF WrapupInv, TakerInv
  <2> QED
    BY <1>1, <1>2, <1>6, <2>1, <2>2 DEF CalmInv, Expected
<1> QED
  BY <1>4, <1>8, <1>9, <1>10, <1>11, <1>12, <1>13 DEF ReceiverActs

LEMMA CalmStep ==
    ASSUME EventsAssumed, RowsType, OnePlace, WrapupInv, NoticeInv, CalmInv, [EP!Next]_eventsVars PROVE CalmInv'
<1>1. CASE UNCHANGED eventsVars
  BY <1>1 DEF eventsVars, CalmInv, Expected, OnItsWay, Token, Queued, Buffered
<1> QED
  BY <1>1, WorkerCalm, ReceiverCalm DEF EP!Next, EP!Progress, EP!Work, EP!Finish, EP!Receive, WorkerActs, ReceiverActs

-----------------------------------------------------------------------------
(* What follows *)

EventsInv == RowsType /\ OnePlace /\ WrapupInv /\ NoticeInv /\ CalmInv

LEMMA EventsInit == EventsAssumed /\ EP!Init => EventsInv
BY TypesInit, PlacesInit, WrapupInit, NoticeInit, CalmInit DEF EventsInv

LEMMA EventsStep == ASSUME EventsAssumed, EventsInv, [EP!Next]_eventsVars PROVE EventsInv'
BY TypesStep, PlacesStep, WrapupStep, NoticeStep, CalmStep DEF EventsInv

LEMMA SentOnce == EventsInv => EP!NotifiedOnce
BY DEF EventsInv, NoticeInv, EP!NotifiedOnce

LEMMA SentAtAll == EventsAssumed /\ EventsInv => EP!SomeoneNotifies
<1> SUFFICES ASSUME EventsAssumed, EventsInv,
                    worker.at = "done", redis = <<>>,
                    \A r \in Receivers : receiver[r].at = "idle" /\ EP!LastEvent \notin receiver[r].buff,
                    faults = 0
             PROVE  notified = 1
  BY DEF EP!SomeoneNotifies
<1>1. ~reaped /\ (Expected => OnItsWay) /\ (notified = 0 => Expected)
  BY DEF EventsInv, CalmInv
<1>2. \A r \in Receivers : EP!EOF \notin receiver[r].buff
  BY LastFacts DEF EventsInv, RowsType, ReceiverStates, EP!EOF
<1>3. ~OnItsWay
  BY <1>2 DEF OnItsWay, Queued, Buffered, Token
<1>4. notified \in {0, 1}
  BY <1>1 DEF EventsInv, NoticeInv
<1> QED
  BY <1>1, <1>3, <1>4

(* At most one of a set whose members are equal.                            *)
LEMMA AtMostOne ==
    ASSUME NEW S, \A x, y \in S : x = y
    PROVE  IF S = {} THEN Cardinality(S) = 0 ELSE Cardinality(S) = 1
<1>1. CASE S = {}
  BY <1>1, FS_EmptySet
<1>2. CASE S # {}
  <2>1. PICK x : S = {x}
    BY <1>2
  <2> QED
    BY <1>2, <2>1, FS_Singleton
<1> QED
  BY <1>1, <1>2

LEMMA InOnePlace == EventsInv => EP!EventInOnePlace
<1> SUFFICES ASSUME EventsInv, NEW e \in Events
             PROVE  saved[e] + Cardinality({i \in DOMAIN redis : redis[i] = e})
                             + Cardinality({r \in Receivers : e \in receiver[r].buff}) <= 1
  BY EventsCardinality DEF EP!EventInOnePlace
<1> DEFINE Q == {i \in DOMAIN redis : redis[i] = e}
           B == {r \in Receivers : e \in receiver[r].buff}
<1>1. saved[e] \in 0 .. 1
  BY DEF EventsInv, RowsType
<1>2. \A i, j \in Q : i = j
  BY DEF EventsInv, OnePlace, QueuedOnce
<1>3. \A r, s \in B : r = s
  BY DEF EventsInv, OnePlace
<1>4. Q # {} => Queued(e)
  BY DEF Queued
<1>5. Q # {} => saved[e] = 0 /\ B = {}
  BY <1>4 DEF EventsInv, OnePlace
<1>6. B # {} => saved[e] = 0
  BY DEF EventsInv, OnePlace
<1> HIDE DEF Q, B
<1>7. /\ IF Q = {} THEN Cardinality(Q) = 0 ELSE Cardinality(Q) = 1
      /\ IF B = {} THEN Cardinality(B) = 0 ELSE Cardinality(B) = 1
  BY <1>2, <1>3, AtMostOne
<1>8. saved[e] + Cardinality(Q) + Cardinality(B) <= 1
  BY <1>1, <1>5, <1>6, <1>7
<1> QED
  BY <1>8 DEF Q, B

(* k flags among n that are as many as can be are all up.                   *)
LEMMA AllCounted ==
    ASSUME NEW n \in Nat, NEW k \in 0 .. n, NEW f \in [1 .. n -> 0 .. 1],
           \A i \in 1 .. n : f[i] = 1 => i <= k,
           SumTo(f, n) = k
    PROVE  \A i \in 1 .. k : f[i] = 1
<1>1. SUFFICES ASSUME NEW m \in 1 .. k, f[m] # 1 PROVE FALSE
  OBVIOUS
<1>2. PICK s : s[0] = 0 /\ (\A i \in 1 .. n : s[i] = s[i - 1] + f[i]) /\ SumTo(f, n) = s[n]
  BY SumFacts
<1> DEFINE P == {i \in Nat : /\ s[i] \in Nat /\ s[i] <= i /\ s[i] <= k
                             /\ i >= m => s[i] < i /\ s[i] < k}
<1>3. 0 \in P
  BY <1>2
<1>4. ASSUME NEW i \in Nat, i < n, i \in P PROVE i + 1 \in P
  <2>1. i + 1 \in 1 .. n /\ (i + 1) - 1 = i
    BY <1>4
  <2>2. s[i + 1] = s[i] + f[i + 1] /\ f[i + 1] \in 0 .. 1 /\ (f[i + 1] = 1 => i + 1 <= k /\ i + 1 # m)
    BY <1>1, <1>2, <2>1
  <2>3. s[i] \in Nat /\ s[i] <= i /\ s[i] <= k /\ (i >= m => s[i] < i /\ s[i] < k)
    BY <1>4
  <2> QED
    BY <1>1, <2>2, <2>3
<1>5. P \in SUBSET Nat
  OBVIOUS
<1> HIDE DEF P
<1>6. n \in P
  <2>1. \A i \in Nat : i < n /\ i \in P => i + 1 \in P
    BY <1>4
  <2>2. \A i \in 0 .. n : i \in P
    BY <1>3, <1>5, <2>1, UpTo
  <2> QED
    BY <2>2
<1> QED
  BY <1>1, <1>2, <1>6 DEF P

LEMMA AllSaved == EventsAssumed /\ EventsInv => EP!FinishedMeansSaved
<1> SUFFICES ASSUME EventsAssumed, EventsInv, job.final, job.emitted = EP!Rows, ~reaped
             PROVE  /\ \A i \in DOMAIN redis : redis[i] = EP!EOF
                    /\ \A r \in Receivers : receiver[r].buff = {}
  BY DEF EP!FinishedMeansSaved
<1> DEFINE k == worker.event - 1
<1>1. EP!LastEvent \in Nat /\ Events = 1 .. EP!LastEvent
  BY LastFacts
<1>2. worker.event \in 1 .. EP!LastEvent + 1 /\ saved \in [1 .. EP!LastEvent -> 0 .. 1]
  BY <1>1 DEF EventsInv, RowsType, WorkerStates
<1>3. k \in 0 .. EP!LastEvent /\ SumTo(saved, EP!LastEvent) = k
  BY <1>1, <1>2, EventsSum DEF EventsInv, NoticeInv, EP!Rows
<1>4. \A i \in 1 .. EP!LastEvent : saved[i] = 1 => i <= k
  BY <1>1, <1>2 DEF EventsInv, OnePlace
<1>5. \A i \in 1 .. k : saved[i] = 1
  <2> HIDE DEF k
  <2> QED
    BY <1>1, <1>2, <1>3, <1>4, AllCounted
<1>6. \A e \in Events : e < worker.event => saved[e] = 1
  BY <1>1, <1>2, <1>5
<1>7. \A e \in Events : ~Queued(e)
  BY <1>6 DEF EventsInv, OnePlace
<1>8. \A r \in Receivers : receiver[r].buff = {}
  BY <1>6 DEF EventsInv, OnePlace, RowsType, ReceiverStates
<1>9. \A i \in DOMAIN redis : redis[i] \in Message
  BY DEF EventsInv, RowsType
<1> QED
  BY <1>7, <1>8, <1>9 DEF Queued, Message

(* EventsMixin.dispatch, update_model, CallbackBrokerWorker and             *)
(* job_stats_wrapup: whatever the number of receivers, their batches, lost  *)
(* connections and deaths, no event is saved twice, the notifications are   *)
(* sent once, by the worker or by a receiver (but for a reaped job), and    *)
(* event_processing_finished does not hold while an event is on its way.    *)
THEOREM EventsAreProcessedOnce ==
    ASSUME EventsAssumed
    PROVE  ServicesSpec => []EventsProcessedOnce
<1> DEFINE I == part = "events" => EventsInv
<1>1. ServicesInit => I
  BY EventsInit DEF ServicesInit
<1>2. I /\ [ServicesNext]_allvars => I'
  <2>1. ASSUME part = "events", [ServicesNext]_allvars PROVE [EP!Next]_eventsVars
    BY <2>1 DEF ServicesNext, allvars, serviceVars
  <2>2. [ServicesNext]_allvars => part' = part
    BY DEF ServicesNext, allvars
  <2> QED
    BY <2>1, <2>2, EventsStep
<1>3. I => EventsProcessedOnce
  BY SentOnce, SentAtAll, InOnePlace, AllSaved DEF EventsProcessedOnce
<1> QED
  BY <1>1, <1>2, <1>3, PTL DEF ServicesSpec

-----------------------------------------------------------------------------
(* The graph of a workflow template: what links lead to. *)

NodesAssumed == IsFiniteSet(NodeIds)

(* The function that Below defines by recursion exists.                      *)
Reaching(L, n, k, f) ==
    f = [i \in 1 .. k |->
            IF i = 1 THEN TG!Children(L, n) ELSE f[i - 1] \union UNION {TG!Children(L, m) : m \in f[i - 1]}]

LEMMA ReachingExists ==
    ASSUME NEW L, NEW n, NEW k \in Nat
    PROVE  \E f : Reaching(L, n, k, f)
<1> DEFINE P == {j \in Nat : \E f : Reaching(L, n, j, f)}
<1>1. 0 \in P
  <2>1. Reaching(L, n, 0, <<>>)
    BY DEF Reaching
  <2> QED
    BY <2>1
<1>2. ASSUME NEW j \in Nat, j \in P PROVE j + 1 \in P
  <2>1. PICK f : Reaching(L, n, j, f)
    BY <1>2
  <2> DEFINE more(s) == s \union UNION {TG!Children(L, m) : m \in s}
             g == [i \in 1 .. j + 1 |-> IF i <= j THEN f[i] ELSE IF i = 1 THEN TG!Children(L, n) ELSE more(f[j])]
  <2>2. ASSUME NEW i \in 1 .. j + 1
        PROVE  g[i] = IF i = 1 THEN TG!Children(L, n) ELSE more(g[i - 1])
    <3>1. CASE i <= j
      <4>1. i \in 1 .. j /\ g[i] = f[i] /\ (i # 1 => g[i - 1] = f[i - 1])
        BY <3>1
      <4>2. f[i] = IF i = 1 THEN TG!Children(L, n) ELSE more(f[i - 1])
        BY <2>1, <4>1 DEF Reaching
      <4> QED
        BY <4>1, <4>2
    <3>2. CASE i = j + 1
      <4>1. g[i] = (IF i = 1 THEN TG!Children(L, n) ELSE more(f[j])) /\ (i # 1 => g[i - 1] = f[j])
        BY <3>2
      <4> HIDE DEF more, g
      <4> QED
        BY <4>1
    <3> QED
      BY <3>1, <3>2
  <2>3. g = [i \in 1 .. j + 1 |-> g[i]]
    OBVIOUS
  <2>4. Reaching(L, n, j + 1, g)
    <3> HIDE DEF g
    <3> QED
      BY <2>2, <2>3 DEF Reaching
  <2> QED
    BY <2>4
<1>3. P \in SUBSET Nat
  OBVIOUS
<1> HIDE DEF P
<1>4. k \in P
  BY <1>1, <1>2, <1>3, UpTo
<1> QED
  BY <1>4 DEF P

LEMMA BelowSteps ==
    ASSUME NodesAssumed, NEW L, NEW n
    PROVE  \E f : /\ Cardinality(NodeIds) >= 1 => f[1] = TG!Children(L, n)
                  /\ \A i \in 1 .. Cardinality(NodeIds) - 1 :
                        f[i + 1] = f[i] \union UNION {TG!Children(L, m) : m \in f[i]}
                  /\ TG!Below(L, n) = f[Cardinality(NodeIds)]
<1> DEFINE N == Cardinality(NodeIds)
           f == CHOOSE f : Reaching(L, n, N, f)
<1>1. N \in Nat
  BY FS_CardinalityType DEF NodesAssumed
<1>2. Reaching(L, n, N, f)
  BY <1>1, ReachingExists
<1>3. TG!Cardinality(NodeIds) = N
  BY DEF TG!Cardinality, Cardinality
<1>4. TG!Below(L, n) = f[N]
  BY <1>3, Zenon DEF TG!Below, Reaching
<1> HIDE DEF f
<1>5. f = [i \in 1 .. N |->
            IF i = 1 THEN TG!Children(L, n) ELSE f[i - 1] \union UNION {TG!Children(L, m) : m \in f[i - 1]}]
  BY <1>2 DEF Reaching
<1>6. ASSUME NEW i \in 1 .. N - 1 PROVE f[i + 1] = f[i] \union UNION {TG!Children(L, m) : m \in f[i]}
  <2>1. i + 1 \in 1 .. N /\ i + 1 # 1 /\ (i + 1) - 1 = i
    BY <1>1
  <2> QED
    BY <1>5, <2>1
<1>7. N >= 1 => f[1] = TG!Children(L, n)
  BY <1>1, <1>5
<1> QED
  BY <1>4, <1>6, <1>7

(* What is below n: its children, and theirs.                                *)
Closed(L, X) == \A m \in X : TG!Children(L, m) \subseteq X

LEMMA BelowLeast ==
    ASSUME NodesAssumed, NEW L, NEW n \in NodeIds, NEW X, TG!Children(L, n) \subseteq X, Closed(L, X)
    PROVE  TG!Below(L, n) \subseteq X
<1> DEFINE N == Cardinality(NodeIds)
<1>1. N \in Nat /\ N # 0
  BY FS_CardinalityType, FS_EmptySet DEF NodesAssumed
<1>2. PICK f : /\ f[1] = TG!Children(L, n)
               /\ \A i \in 1 .. N - 1 : f[i + 1] = f[i] \union UNION {TG!Children(L, m) : m \in f[i]}
               /\ TG!Below(L, n) = f[N]
  BY <1>1, BelowSteps
<1> DEFINE P == {k \in Nat : k + 1 \in 1 .. N => f[k + 1] \subseteq X}
<1>3. 0 \in P
  BY <1>1, <1>2
<1>4. ASSUME NEW k \in Nat, k \in P PROVE k + 1 \in P
  <2>1. SUFFICES ASSUME k + 2 \in 1 .. N PROVE f[k + 2] \subseteq X
    OBVIOUS
  <2>2. f[k + 1] \subseteq X
    BY <1>1, <1>4, <2>1
  <2>3. f[k + 2] = f[k + 1] \union UNION {TG!Children(L, m) : m \in f[k + 1]}
    <3>1. k + 1 \in 1 .. N - 1 /\ (k + 1) + 1 = k + 2
      BY <1>1, <2>1
    <3> QED
      BY <1>2, <3>1
  <2> QED
    BY <2>2, <2>3 DEF Closed
<1>5. P \in SUBSET Nat
  OBVIOUS
<1> HIDE DEF P
<1>6. N - 1 \in P
  BY <1>1, <1>3, <1>4, <1>5, UpTo
<1> QED
  BY <1>1, <1>2, <1>6 DEF P

LEMMA BelowClosed ==
    ASSUME NodesAssumed, NEW L, NEW n \in NodeIds
    PROVE  /\ TG!Below(L, n) \subseteq NodeIds
           /\ TG!Children(L, n) \subseteq TG!Below(L, n)
           /\ Closed(L, TG!Below(L, n))
<1> DEFINE N == Cardinality(NodeIds)
<1>1. N \in Nat /\ N # 0
  BY FS_CardinalityType, FS_EmptySet DEF NodesAssumed
<1>2. PICK f : /\ f[1] = TG!Children(L, n)
               /\ \A i \in 1 .. N - 1 : f[i + 1] = f[i] \union UNION {TG!Children(L, m) : m \in f[i]}
               /\ TG!Below(L, n) = f[N]
  BY <1>1, BelowSteps
<1> DEFINE Good(k) == /\ TG!Children(L, n) \subseteq f[k] /\ f[k] \subseteq NodeIds
                      /\ Closed(L, f[k]) \/ Cardinality(f[k]) >= k
           P == {k \in Nat : k + 1 \in 1 .. N => Good(k + 1)}
<1>3. 0 \in P
  <2>1. f[1] = TG!Children(L, n)
    BY <1>1, <1>2
  <2>2. f[1] \subseteq NodeIds
    BY <2>1 DEF TG!Children
  <2>3. IsFiniteSet(f[1])
    BY <2>2, FS_Subset DEF NodesAssumed
  <2>4. f[1] = {} => Closed(L, f[1])
    BY DEF Closed
  <2>5. f[1] # {} => Cardinality(f[1]) >= 1
    BY <2>3, FS_EmptySet, FS_CardinalityType
  <2> QED
    BY <2>1, <2>2, <2>4, <2>5
<1>4. ASSUME NEW k \in Nat, k \in P PROVE k + 1 \in P
  <2>1. SUFFICES ASSUME k + 2 \in 1 .. N PROVE Good(k + 2)
    OBVIOUS
  <2>2. Good(k + 1)
    BY <1>1, <1>4, <2>1
  <2>3. f[k + 2] = f[k + 1] \union UNION {TG!Children(L, m) : m \in f[k + 1]}
    <3>1. k + 1 \in 1 .. N - 1 /\ (k + 1) + 1 = k + 2
      BY <1>1, <2>1
    <3> QED
      BY <1>2, <3>1
  <2>4. f[k + 2] \subseteq NodeIds
    BY <2>2, <2>3 DEF TG!Children
  <2>5. Closed(L, f[k + 1]) => f[k + 2] = f[k + 1]
    BY <2>3 DEF Closed
  <2>6. ~Closed(L, f[k + 1]) => f[k + 2] # f[k + 1]
    BY <2>3 DEF Closed
  <2>7. ~Closed(L, f[k + 1]) => Cardinality(f[k + 2]) >= k + 2
    <3>1. IsFiniteSet(f[k + 2])
      BY <2>4, FS_Subset DEF NodesAssumed
    <3>2. IsFiniteSet(f[k + 1]) /\ Cardinality(f[k + 1]) \in Nat /\ Cardinality(f[k + 2]) \in Nat
      BY <3>1, <2>3, FS_Subset, FS_CardinalityType
    <3>3. f[k + 1] # f[k + 2] => Cardinality(f[k + 1]) < Cardinality(f[k + 2])
      BY <2>3, <3>1, <3>2, FS_Subset
    <3> QED
      BY <3>2, <3>3, <2>2, <2>6
  <2> QED
    BY <2>2, <2>3, <2>4, <2>5, <2>7
<1>5. P \in SUBSET Nat
  OBVIOUS
<1> HIDE DEF P
<1>6. N - 1 \in P
  BY <1>1, <1>3, <1>4, <1>5, UpTo
<1>7. Good(N)
  BY <1>1, <1>6 DEF P
<1>8. Cardinality(f[N]) >= N => f[N] = NodeIds
  <2>1. IsFiniteSet(f[N]) /\ Cardinality(f[N]) <= N /\ (N = Cardinality(f[N]) => NodeIds = f[N])
    BY <1>7, FS_Subset DEF NodesAssumed
  <2>2. Cardinality(f[N]) \in Nat
    BY <2>1, FS_CardinalityType
  <2> QED
    BY <2>1, <2>2, <1>1
<1>9. Closed(L, NodeIds)
  BY DEF Closed, TG!Children
<1> QED
  BY <1>2, <1>7, <1>8, <1>9

LEMMA BelowOfBelow ==
    ASSUME NodesAssumed, NEW L, NEW n \in NodeIds, NEW m \in TG!Below(L, n)
    PROVE  TG!Below(L, m) \subseteq TG!Below(L, n)
<1>1. m \in NodeIds /\ Closed(L, TG!Below(L, n))
  BY BelowClosed
<1>2. TG!Children(L, m) \subseteq TG!Below(L, n)
  BY <1>1 DEF Closed
<1> QED
  BY <1>1, <1>2, BelowLeast

LEMMA BelowMore ==
    ASSUME NodesAssumed, NEW L, NEW K, L \subseteq K, NEW n \in NodeIds
    PROVE  TG!Below(L, n) \subseteq TG!Below(K, n)
<1>1. \A m : TG!Children(L, m) \subseteq TG!Children(K, m)
  BY DEF TG!Children
<1>2. TG!Children(K, n) \subseteq TG!Below(K, n) /\ Closed(K, TG!Below(K, n))
  BY BelowClosed
<1>3. TG!Children(L, n) \subseteq TG!Below(K, n) /\ Closed(L, TG!Below(K, n))
  BY <1>1, <1>2 DEF Closed
<1> QED
  BY <1>3, BelowLeast

LEMMA BelowHasParent ==
    ASSUME NodesAssumed, NEW L, NEW n \in NodeIds, NEW m \in TG!Below(L, n)
    PROVE  \E p \in NodeIds : <<p, m>> \in L
<1> DEFINE X == {c \in NodeIds : \E p \in NodeIds : <<p, c>> \in L}
<1>1. TG!Children(L, n) \subseteq X /\ Closed(L, X)
  BY DEF TG!Children, Closed
<1>2. TG!Below(L, n) \subseteq X
  <2> HIDE DEF X
  <2> QED
    BY <1>1, BelowLeast
<1> QED
  BY <1>2

(* A link that closes a cycle is on one.                                     *)
LEMMA LastLinkCloses ==
    ASSUME NodesAssumed, NEW L, NEW p \in NodeIds, NEW c \in NodeIds,
           NEW n \in NodeIds, n \in TG!Below(L \union {<<p, c>>}, n), n \notin TG!Below(L, n)
    PROVE  p \in TG!Below(L \union {<<p, c>>}, p)
<1> DEFINE K == L \union {<<p, c>>}
           leading == {m \in NodeIds : n \in TG!Below(K, m)}
           X == TG!Below(L, n) \union (NodeIds \ leading)
<1> SUFFICES ASSUME p \notin TG!Below(K, p) PROVE FALSE
  OBVIOUS
<1>1. \A m \in NodeIds : /\ TG!Below(K, m) \subseteq NodeIds /\ TG!Children(K, m) \subseteq TG!Below(K, m)
                         /\ \A k \in TG!Below(K, m) : TG!Below(K, k) \subseteq TG!Below(K, m)
  <2> HIDE DEF K
  <2> QED
    BY BelowClosed, BelowOfBelow
<1>2. TG!Below(L, n) \subseteq NodeIds /\ TG!Children(L, n) \subseteq TG!Below(L, n) /\ Closed(L, TG!Below(L, n))
  BY BelowClosed
<1>3. \A m \in NodeIds \ leading : TG!Children(K, m) \intersect leading = {}
  <2> HIDE DEF K
  <2> QED
    BY <1>1
<1>4. \A m \in NodeIds : TG!Children(K, m) = TG!Children(L, m) \/ m = p
  BY DEF TG!Children
<1>5. \A m \in NodeIds : TG!Children(K, m) \subseteq NodeIds
  BY DEF TG!Children
<1> HIDE DEF K
<1>6. n \in leading
  BY DEF K
<1>7. CASE p \in leading
  <2>1. n \in TG!Below(K, p)
    BY <1>7
  <2>2. p \notin TG!Below(K, n)
    BY <2>1, <1>1
  <2>3. TG!Below(L, n) \subseteq TG!Below(K, n)
    BY BelowMore DEF K
  <2>4. p # n /\ p \notin TG!Below(L, n)
    BY <2>2, <2>3, <1>6
  <2>5. TG!Children(K, n) \subseteq TG!Below(L, n) /\ Closed(K, TG!Below(L, n))
    BY <1>2, <1>4, <2>4 DEF Closed
  <2> QED
    BY <2>5, <1>6, BelowLeast
<1>8. CASE p \notin leading
  <2>1. TG!Children(K, n) \subseteq X
    BY <1>2, <1>4, <1>6, <1>8
  <2>2. ASSUME NEW m \in X PROVE TG!Children(K, m) \subseteq X
    BY <1>2, <1>3, <1>4, <1>5, <1>8, <2>2 DEF Closed
  <2>3. TG!Below(K, n) \subseteq X
    <3> HIDE DEF X
    <3> QED
      BY <2>1, <2>2, BelowLeast DEF Closed
  <2> QED
    BY <2>3, <1>6
<1> QED
  BY <1>7, <1>8
-----------------------------------------------------------------------------
(* The search for a cycle.  The function that FindsCycle defines by          *)
(* recursion exists: it is true of the states that every set has which has,  *)
(* with the next state, the state itself.                                    *)
States == [stack : Seq(NodeIds), visited : SUBSET NodeIds, path : SUBSET NodeIds]
ToAdd(L, s) == TG!Children(L, TG!Last(s.stack)) \ s.visited
Visit(s) ==
    LET n == TG!Last(s.stack)
    IN  [stack |-> TG!Front(s.stack), visited |-> s.visited \union {n}, path |-> s.path \ {n}]
Push(L, s) ==
    [stack |-> s.stack \o TG!SetToSeq(ToAdd(L, s)), visited |-> s.visited, path |-> s.path \union {TG!Last(s.stack)}]
Following(L, s) == IF ToAdd(L, s) = {} THEN Visit(s) ELSE Push(L, s)
Found(L, s) == s.stack # <<>> /\ ToAdd(L, s) # {} /\ TG!Last(s.stack) \in s.path

Searches(L, finds) ==
    finds = [s \in [stack : Seq(NodeIds), visited : SUBSET NodeIds, path : SUBSET NodeIds] |->
            IF s.stack = <<>> THEN FALSE
            ELSE LET n == TG!Last(s.stack)
                     children_to_add == TG!Children(L, n) \ s.visited
                 IN  IF children_to_add = {}
                     THEN finds[[stack |-> TG!Front(s.stack), visited |-> s.visited \union {n}, path |-> s.path \ {n}]]
                     ELSE \/ n \in s.path
                          \/ finds[[stack |-> s.stack \o TG!SetToSeq(children_to_add), visited |-> s.visited,
                                    path |-> s.path \union {n}]]]

LEMMA OrderFacts ==
    ASSUME NEW S, IsFiniteSet(S)
    PROVE  /\ TG!SetToSeq(S) \in Seq(S)
           /\ \A e \in S : \E i \in DOMAIN TG!SetToSeq(S) : TG!SetToSeq(S)[i] = e
<1>1. TG!SetToSeq(S) = CHOOSE f \in [1 .. Cardinality(S) -> S] : IsInjective(f)
  <2>1. TG!Cardinality(S) = Cardinality(S)
    BY DEF TG!Cardinality, Cardinality
  <2>2. \A f : TG!IsInjective(f) <=> IsInjective(f)
    BY DEF TG!IsInjective, IsInjective
  <2> QED
    BY <2>1, <2>2, Zenon DEF TG!SetToSeq, TG!IsInjective, IsInjective
<1> DEFINE D == 1 .. Cardinality(S)
<1>2. \E f \in [D -> S] : IsInjective(f)
  <2>1. ExistsBijection(D, S)
    BY FS_CardinalityType
  <2> QED
    BY <2>1 DEF ExistsBijection, Bijection, Injection, IsInjective
<1> DEFINE order == CHOOSE f \in [D -> S] : IsInjective(f)
<1>3. order \in [D -> S] /\ IsInjective(order)
  BY <1>2
<1> HIDE DEF order
<1>4. Cardinality(S) \in Nat
  BY FS_CardinalityType
<1>5. order \in SetToSeqs(S)
  BY <1>3 DEF SetToSeqs, IsInjective
<1>6. order = TG!SetToSeq(S)
  BY <1>1 DEF order
<1>7. order \in Seq(S) /\ \A e \in S : \E i \in DOMAIN order : order[i] = e
  BY <1>5, SetToSeqsOrders
<1> QED
  BY <1>6, <1>7

(* The states that a set closed under the search backwards cannot leave out. *)
Backwards(L, X) == \A s \in States : Found(L, s) \/ (s.stack # <<>> /\ Following(L, s) \in X) => s \in X
Winning(L) == {s \in States : \A X \in SUBSET States : Backwards(L, X) => s \in X}

LEMMA FollowingFacts ==
    ASSUME NodesAssumed, NEW L, NEW s \in States, s.stack # <<>>
    PROVE  /\ TG!Last(s.stack) \in NodeIds
           /\ ToAdd(L, s) \subseteq NodeIds /\ IsFiniteSet(ToAdd(L, s))
           /\ Visit(s) \in States /\ Push(L, s) \in States /\ Following(L, s) \in States
<1> DEFINE n == TG!Last(s.stack)
<1>1. s.stack \in Seq(NodeIds) /\ s.visited \subseteq NodeIds /\ s.path \subseteq NodeIds
  BY DEF States
<1>2. n \in NodeIds /\ TG!Front(s.stack) \in Seq(NodeIds)
  BY <1>1 DEF TG!Last, TG!Front
<1>3. ToAdd(L, s) \subseteq NodeIds /\ IsFiniteSet(ToAdd(L, s))
  <2>1. ToAdd(L, s) \subseteq NodeIds
    BY DEF ToAdd, TG!Children
  <2> QED
    BY <2>1, FS_Subset DEF NodesAssumed
<1>4. s.stack \o TG!SetToSeq(ToAdd(L, s)) \in Seq(NodeIds)
  <2>1. TG!SetToSeq(ToAdd(L, s)) \in Seq(ToAdd(L, s))
    BY <1>3, OrderFacts
  <2>2. Seq(ToAdd(L, s)) \subseteq Seq(NodeIds)
    BY <1>3
  <2> QED
    BY <1>1, <2>1, <2>2
<1>5. Visit(s) \in States
  BY <1>1, <1>2 DEF Visit, States
<1>6. Push(L, s) \in States
  BY <1>1, <1>2, <1>4 DEF Push, States
<1> QED
  BY <1>2, <1>3, <1>5, <1>6 DEF Following

LEMMA WinningFacts ==
    ASSUME NodesAssumed, NEW L, NEW s \in States
    PROVE  s \in Winning(L) <=> s.stack # <<>> /\ (Found(L, s) \/ Following(L, s) \in Winning(L))
<1>1. Backwards(L, Winning(L))
  BY DEF Backwards, Winning
<1>2. ASSUME s.stack # <<>>, Found(L, s) \/ Following(L, s) \in Winning(L) PROVE s \in Winning(L)
  BY <1>1, <1>2 DEF Backwards
<1>3. ASSUME s \in Winning(L), ~(s.stack # <<>> /\ (Found(L, s) \/ Following(L, s) \in Winning(L))) PROVE FALSE
  <2> DEFINE X == Winning(L) \ {s}
  <2>1. X \in SUBSET States
    BY DEF Winning
  <2>2. ASSUME NEW t \in States, Found(L, t) \/ (t.stack # <<>> /\ Following(L, t) \in X) PROVE t \in X
    <3>1. t \in Winning(L)
      BY <1>1, <2>2 DEF Backwards
    <3>2. t # s
      BY <1>3, <2>2 DEF Found
    <3> QED
      BY <3>1, <3>2
  <2>3. Backwards(L, X)
    <3> HIDE DEF X
    <3> QED
      BY <2>2 DEF Backwards
  <2>4. s \in X
    <3> HIDE DEF X
    <3> QED
      BY <1>3, <2>1, <2>3 DEF Winning
  <2> QED
    BY <2>4
<1> QED
  BY <1>2, <1>3

LEMMA SearchExists ==
    ASSUME NodesAssumed, NEW L
    PROVE  \E finds : Searches(L, finds)
<1> DEFINE finds == [s \in [stack : Seq(NodeIds), visited : SUBSET NodeIds, path : SUBSET NodeIds] |-> s \in Winning(L)]
<1>1. ASSUME NEW s \in [stack : Seq(NodeIds), visited : SUBSET NodeIds, path : SUBSET NodeIds]
      PROVE  (s \in Winning(L)) =
            IF s.stack = <<>> THEN FALSE
            ELSE LET n == TG!Last(s.stack)
                     children_to_add == TG!Children(L, n) \ s.visited
                 IN  IF children_to_add = {}
                     THEN finds[[stack |-> TG!Front(s.stack), visited |-> s.visited \union {n}, path |-> s.path \ {n}]]
                     ELSE \/ n \in s.path
                          \/ finds[[stack |-> s.stack \o TG!SetToSeq(children_to_add), visited |-> s.visited,
                                    path |-> s.path \union {n}]]
  <2>1. s \in States
    BY DEF States
  <2>2. \A t \in States : finds[t] = (t \in Winning(L))
    BY DEF States
  <2> HIDE DEF finds
  <2>3. s \in Winning(L) <=> s.stack # <<>> /\ (Found(L, s) \/ Following(L, s) \in Winning(L))
    BY <2>1, WinningFacts
  <2>4. CASE s.stack = <<>>
    <3>1. ~(s \in Winning(L))
      BY <2>3, <2>4
    <3>2. (s \in Winning(L)) = FALSE
      BY <3>1
    <3> QED
      BY <2>4, <3>2, Zenon
  <2>5. CASE s.stack # <<>>
    <3>1. Visit(s) \in States /\ Push(L, s) \in States
      BY <2>1, <2>5, FollowingFacts
    <3>2. finds[Visit(s)] = (Visit(s) \in Winning(L)) /\ finds[Push(L, s)] = (Push(L, s) \in Winning(L))
      BY <2>2, <3>1
    <3>3. (s \in Winning(L)) = IF ToAdd(L, s) = {} THEN finds[Visit(s)] ELSE TG!Last(s.stack) \in s.path \/ finds[Push(L, s)]
      <4>1. CASE ToAdd(L, s) = {}
        <5>1. s \in Winning(L) <=> Visit(s) \in Winning(L)
          BY <2>3, <2>5, <4>1 DEF Found, Following
        <5>2. (s \in Winning(L)) = (Visit(s) \in Winning(L))
          BY <5>1
        <5> QED
          BY <3>2, <4>1, <5>2, Zenon
      <4>2. CASE ToAdd(L, s) # {}
        <5>1. s \in Winning(L) <=> TG!Last(s.stack) \in s.path \/ Push(L, s) \in Winning(L)
          BY <2>3, <2>5, <4>2 DEF Found, Following
        <5>2. (s \in Winning(L)) = (TG!Last(s.stack) \in s.path \/ Push(L, s) \in Winning(L))
          BY <5>1
        <5>3. (s \in Winning(L)) = (TG!Last(s.stack) \in s.path \/ finds[Push(L, s)])
          BY <3>2, <5>2, Zenon
        <5> QED
          BY <4>2, <5>3, Zenon
      <4> QED
        BY <4>1, <4>2
    <3> QED
      BY <2>5, <3>3, Zenon DEF Visit, Push, ToAdd
  <2> QED
    BY <2>4, <2>5
<1>2. Searches(L, finds)
  BY <1>1, Zenon DEF Searches
<1> QED
  BY <1>2

LEMMA SearchSteps ==
    ASSUME NodesAssumed, NEW L, NEW finds, Searches(L, finds), NEW s \in States
    PROVE  /\ s.stack = <<>> => ~finds[s]
           /\ s.stack # <<>> /\ ToAdd(L, s) = {} => (finds[s] <=> finds[Visit(s)])
           /\ s.stack # <<>> /\ ToAdd(L, s) # {} => (finds[s] <=> TG!Last(s.stack) \in s.path \/ finds[Push(L, s)])
<1>1. finds[s] = IF s.stack = <<>> THEN FALSE
                 ELSE IF ToAdd(L, s) = {} THEN finds[Visit(s)] ELSE TG!Last(s.stack) \in s.path \/ finds[Push(L, s)]
  <2>1. s \in [stack : Seq(NodeIds), visited : SUBSET NodeIds, path : SUBSET NodeIds]
    BY DEF States
  <2> QED
    BY <2>1, Zenon DEF Searches, Visit, Push, ToAdd
<1>2. CASE s.stack = <<>>
  BY <1>1, <1>2, Zenon
<1>3. CASE s.stack # <<>> /\ ToAdd(L, s) = {}
  <2>1. finds[s] = finds[Visit(s)]
    BY <1>1, <1>3, Zenon
  <2> QED
    BY <2>1, <1>3, Zenon
<1>4. CASE s.stack # <<>> /\ ToAdd(L, s) # {}
  <2>1. finds[s] = (TG!Last(s.stack) \in s.path \/ finds[Push(L, s)])
    BY <1>1, <1>4, Zenon
  <2> QED
    BY <2>1, <1>4, Zenon
<1> QED
  BY <1>2, <1>3, <1>4

(* What the search has visited leads to nothing else and is on no cycle; the *)
(* children of a node on the path are visited or above it on the stack,      *)
(* where everything is below the node.                                       *)
CycleBelow(L, S) == \E r \in S : \E m \in {r} \union TG!Below(L, r) : m \in TG!Below(L, m)
PathNode(L, s, p, i) ==
    /\ s.stack[i] = p
    /\ \A c \in TG!Children(L, p) \ s.visited : \E j \in DOMAIN s.stack : j > i /\ s.stack[j] = c
    /\ \A j \in DOMAIN s.stack : j > i => s.stack[j] \in TG!Below(L, p)
VisitedInv(L, s) == \A n \in s.visited : TG!Children(L, n) \subseteq s.visited /\ n \notin TG!Below(L, n)
PathInv(L, s) == s.path \intersect s.visited = {} /\ \A p \in s.path : \E i \in DOMAIN s.stack : PathNode(L, s, p, i)
StackInv(L, S, s) ==
    /\ \A j \in DOMAIN s.stack : \E r \in S : s.stack[j] \in {r} \union TG!Below(L, r)
    /\ \A r \in S : r \in s.visited \/ \E j \in DOMAIN s.stack : s.stack[j] = r
SearchInv(L, S, s) == VisitedInv(L, s) /\ PathInv(L, s) /\ StackInv(L, S, s)

LEMMA FrontFacts ==
    ASSUME NEW q \in Seq(NodeIds), q # <<>>
    PROVE  /\ TG!Front(q) \in Seq(NodeIds) /\ TG!Last(q) = q[Len(q)] /\ Len(q) \in DOMAIN q
           /\ Len(q) \in Nat /\ Len(TG!Front(q)) = Len(q) - 1
           /\ \A i \in DOMAIN TG!Front(q) : i \in DOMAIN q /\ i # Len(q) /\ TG!Front(q)[i] = q[i]
           /\ \A i \in DOMAIN q : i \in Nat /\ i <= Len(q) /\ (i # Len(q) => i \in DOMAIN TG!Front(q))
<1>1. Len(q) \in Nat /\ Len(q) # 0 /\ DOMAIN q = 1 .. Len(q)
  OBVIOUS
<1>2. TG!Front(q) = SubSeq(q, 1, Len(q) - 1) /\ TG!Last(q) = q[Len(q)]
  BY DEF TG!Front, TG!Last
<1>3. TG!Front(q) \in Seq(NodeIds) /\ Len(TG!Front(q)) = Len(q) - 1
  BY <1>1, <1>2
<1>4. \A i \in 1 .. Len(q) - 1 : TG!Front(q)[i] = q[i]
  BY <1>1, <1>2
<1>5. DOMAIN TG!Front(q) = 1 .. Len(q) - 1
  BY <1>3
<1> QED
  BY <1>1, <1>2, <1>3, <1>4, <1>5

LEMMA AppendedFacts ==
    ASSUME NEW q \in Seq(NodeIds), NEW r \in Seq(NodeIds)
    PROVE  /\ \A i \in DOMAIN q : i \in DOMAIN (q \o r) /\ (q \o r)[i] = q[i] /\ i <= Len(q) /\ i \in Nat
           /\ \A i \in DOMAIN r : Len(q) + i \in DOMAIN (q \o r) /\ (q \o r)[Len(q) + i] = r[i] /\ i >= 1 /\ i \in Nat
           /\ \A k \in DOMAIN (q \o r) : k \in DOMAIN q \/ (k - Len(q) \in DOMAIN r /\ (q \o r)[k] = r[k - Len(q)])
           /\ Len(q) \in Nat
OBVIOUS

LEMMA VisitKeeps ==
    ASSUME NodesAssumed, NEW L, NEW S \in SUBSET NodeIds, NEW s \in States, s.stack # <<>>, ToAdd(L, s) = {}, SearchInv(L, S, s)
    PROVE  SearchInv(L, S, Visit(s))
<1> DEFINE n == TG!Last(s.stack)
           t == Visit(s)
<1>1. s.stack \in Seq(NodeIds) /\ s.visited \subseteq NodeIds /\ s.path \subseteq NodeIds /\ n \in NodeIds /\ t \in States
  BY FollowingFacts DEF States
<1>2. t.stack = TG!Front(s.stack) /\ t.visited = s.visited \union {n} /\ t.path = s.path \ {n}
  BY DEF Visit
<1>3. /\ n = s.stack[Len(s.stack)] /\ Len(s.stack) \in DOMAIN s.stack /\ Len(s.stack) \in Nat
      /\ \A i \in DOMAIN t.stack : i \in DOMAIN s.stack /\ i # Len(s.stack) /\ t.stack[i] = s.stack[i]
      /\ \A i \in DOMAIN s.stack : i \in Nat /\ i <= Len(s.stack) /\ (i # Len(s.stack) => i \in DOMAIN t.stack)
  BY <1>1, <1>2, FrontFacts
<1>4. TG!Children(L, n) \subseteq s.visited
  BY DEF ToAdd
<1> HIDE DEF n, t
<1>5. VisitedInv(L, t)
  <2>1. \A m \in s.visited : TG!Children(L, m) \subseteq s.visited /\ m \notin TG!Below(L, m)
    BY DEF SearchInv, VisitedInv
  <2>2. TG!Below(L, n) \subseteq s.visited
    <3>1. Closed(L, s.visited)
      BY <2>1 DEF Closed
    <3> QED
      BY <1>1, <1>4, <3>1, BelowLeast
  <2>3. n \notin TG!Below(L, n)
    BY <2>1, <2>2
  <2> QED
    BY <1>2, <1>4, <2>1, <2>3 DEF VisitedInv
<1>6. PathInv(L, t)
  <2>1. ASSUME NEW p \in t.path PROVE \E i \in DOMAIN t.stack : PathNode(L, t, p, i)
    <3>1. p \in s.path /\ p # n
      BY <1>2
    <3>2. PICK i \in DOMAIN s.stack : PathNode(L, s, p, i)
      BY <3>1 DEF SearchInv, PathInv
    <3>3. i \in DOMAIN t.stack /\ t.stack[i] = p
      BY <1>3, <3>1, <3>2 DEF PathNode
    <3>4. ASSUME NEW c \in TG!Children(L, p) \ t.visited PROVE \E j \in DOMAIN t.stack : j > i /\ t.stack[j] = c
      <4>1. PICK j \in DOMAIN s.stack : j > i /\ s.stack[j] = c
        BY <1>2, <3>2 DEF PathNode
      <4>2. c # n
        BY <1>2
      <4> QED
        BY <1>3, <4>1, <4>2
    <3>5. ASSUME NEW j \in DOMAIN t.stack, j > i PROVE t.stack[j] \in TG!Below(L, p)
      BY <1>3, <3>2, <3>5 DEF PathNode
    <3> QED
      BY <3>3, <3>4, <3>5 DEF PathNode
  <2>2. t.path \intersect t.visited = {}
    BY <1>2 DEF SearchInv, PathInv
  <2> QED
    BY <2>1, <2>2 DEF PathInv
<1>7. StackInv(L, S, t)
  <2>1. ASSUME NEW j \in DOMAIN t.stack PROVE \E r \in S : t.stack[j] \in {r} \union TG!Below(L, r)
    BY <1>3 DEF SearchInv, StackInv
  <2>2. ASSUME NEW r \in S PROVE r \in t.visited \/ \E j \in DOMAIN t.stack : t.stack[j] = r
    BY <1>2, <1>3 DEF SearchInv, StackInv
  <2> QED
    BY <2>1, <2>2 DEF StackInv
<1> QED
  BY <1>5, <1>6, <1>7 DEF SearchInv, t

LEMMA PushKeeps ==
    ASSUME NodesAssumed, NEW L, NEW S \in SUBSET NodeIds, NEW s \in States, s.stack # <<>>, ToAdd(L, s) # {},
           TG!Last(s.stack) \notin s.path, SearchInv(L, S, s)
    PROVE  SearchInv(L, S, Push(L, s))
<1> DEFINE n == TG!Last(s.stack)
           t == Push(L, s)
           more == TG!SetToSeq(ToAdd(L, s))
<1>1. s.stack \in Seq(NodeIds) /\ s.visited \subseteq NodeIds /\ s.path \subseteq NodeIds /\ n \in NodeIds /\ t \in States
  BY FollowingFacts DEF States
<1>2. t.stack = s.stack \o more /\ t.visited = s.visited /\ t.path = s.path \union {n}
  BY DEF Push
<1>3. n = s.stack[Len(s.stack)] /\ Len(s.stack) \in DOMAIN s.stack /\ Len(s.stack) \in Nat
  BY <1>1, FrontFacts
<1>4. /\ more \in Seq(NodeIds)
      /\ \A i \in DOMAIN more : more[i] \in TG!Children(L, n)
      /\ \A c \in TG!Children(L, n) \ s.visited : \E i \in DOMAIN more : more[i] = c
  <2>1. ToAdd(L, s) \subseteq NodeIds /\ IsFiniteSet(ToAdd(L, s)) /\ ToAdd(L, s) = TG!Children(L, n) \ s.visited
    BY FollowingFacts DEF ToAdd
  <2>2. more \in Seq(ToAdd(L, s)) /\ \A c \in ToAdd(L, s) : \E i \in DOMAIN more : more[i] = c
    BY <2>1, OrderFacts
  <2> HIDE DEF n, more
  <2> QED
    BY <2>1, <2>2
<1>5. /\ \A i \in DOMAIN s.stack : i \in DOMAIN t.stack /\ t.stack[i] = s.stack[i] /\ i <= Len(s.stack) /\ i \in Nat
      /\ \A i \in DOMAIN more : Len(s.stack) + i \in DOMAIN t.stack /\ t.stack[Len(s.stack) + i] = more[i] /\ i >= 1 /\ i \in Nat
      /\ \A k \in DOMAIN t.stack : k \in DOMAIN s.stack \/ (k - Len(s.stack) \in DOMAIN more /\ t.stack[k] = more[k - Len(s.stack)])
  <2> HIDE DEF n, t, more
  <2>1. PICK q \in Seq(NodeIds) : q = s.stack
    BY <1>1
  <2>2. t.stack = q \o more
    BY <1>2, <2>1
  <2>3. /\ \A i \in DOMAIN q : i \in DOMAIN (q \o more) /\ (q \o more)[i] = q[i] /\ i <= Len(q) /\ i \in Nat
        /\ \A i \in DOMAIN more : Len(q) + i \in DOMAIN (q \o more) /\ (q \o more)[Len(q) + i] = more[i] /\ i >= 1 /\ i \in Nat
        /\ \A k \in DOMAIN (q \o more) : k \in DOMAIN q \/ (k - Len(q) \in DOMAIN more /\ (q \o more)[k] = more[k - Len(q)])
    BY <1>4, AppendedFacts
  <2> QED
    BY <2>1, <2>2, <2>3
<1>6. TG!Children(L, n) \subseteq TG!Below(L, n) /\ \A r \in NodeIds : n \in TG!Below(L, r) => TG!Below(L, n) \subseteq TG!Below(L, r)
  BY <1>1, BelowClosed, BelowOfBelow
<1>7. n \notin s.path /\ n \notin s.visited
  <2>1. n \in s.visited => TG!Children(L, n) \subseteq s.visited
    BY DEF SearchInv, VisitedInv
  <2> QED
    BY <2>1 DEF ToAdd
<1> HIDE DEF n, t, more
<1>8. VisitedInv(L, t)
  BY <1>2 DEF SearchInv, VisitedInv
<1>9. PathInv(L, t)
  <2>1. ASSUME NEW p \in s.path PROVE \E i \in DOMAIN t.stack : PathNode(L, t, p, i)
    <3>1. PICK i \in DOMAIN s.stack : PathNode(L, s, p, i)
      BY DEF SearchInv, PathInv
    <3>2. i \in DOMAIN t.stack /\ t.stack[i] = p
      BY <1>5, <3>1 DEF PathNode
    <3>3. n \in TG!Below(L, p) /\ p \in NodeIds
      <4>1. p # n
        BY <1>7
      <4>2. i # Len(s.stack)
        BY <1>3, <3>1, <4>1 DEF PathNode
      <4>3. Len(s.stack) > i
        BY <1>3, <1>5, <4>2
      <4> QED
        BY <1>1, <1>3, <3>1, <4>3 DEF PathNode
    <3>4. \A c \in TG!Children(L, p) \ t.visited : \E j \in DOMAIN t.stack : j > i /\ t.stack[j] = c
      BY <1>2, <1>5, <3>1 DEF PathNode
    <3>5. ASSUME NEW j \in DOMAIN t.stack, j > i PROVE t.stack[j] \in TG!Below(L, p)
      <4>1. CASE j \in DOMAIN s.stack
        BY <1>5, <3>1, <3>5, <4>1 DEF PathNode
      <4>2. CASE j - Len(s.stack) \in DOMAIN more /\ t.stack[j] = more[j - Len(s.stack)]
        BY <1>4, <1>6, <3>3, <4>2
      <4> QED
        BY <1>5, <4>1, <4>2
    <3> QED
      BY <3>2, <3>4, <3>5 DEF PathNode
  <2>2. PathNode(L, t, n, Len(s.stack))
    <3>1. ASSUME NEW c \in TG!Children(L, n) \ t.visited PROVE \E j \in DOMAIN t.stack : j > Len(s.stack) /\ t.stack[j] = c
      <4>1. PICK i \in DOMAIN more : more[i] = c
        BY <1>2, <1>4
      <4> QED
        BY <1>3, <1>5, <4>1
    <3>2. ASSUME NEW j \in DOMAIN t.stack, j > Len(s.stack) PROVE t.stack[j] \in TG!Below(L, n)
      BY <1>3, <1>4, <1>5, <1>6, <3>2
    <3> QED
      BY <1>3, <1>5, <3>1, <3>2 DEF PathNode
  <2>3. Len(s.stack) \in DOMAIN t.stack
    BY <1>3, <1>5
  <2>4. t.path \intersect t.visited = {}
    BY <1>2, <1>7 DEF SearchInv, PathInv
  <2> QED
    BY <1>2, <2>1, <2>2, <2>3, <2>4 DEF PathInv
<1>10. StackInv(L, S, t)
  <2>1. ASSUME NEW j \in DOMAIN t.stack PROVE \E r \in S : t.stack[j] \in {r} \union TG!Below(L, r)
    <3>1. CASE j \in DOMAIN s.stack
      BY <1>5, <3>1 DEF SearchInv, StackInv
    <3>2. CASE j - Len(s.stack) \in DOMAIN more /\ t.stack[j] = more[j - Len(s.stack)]
      <4>1. PICK r \in S : n \in {r} \union TG!Below(L, r)
        BY <1>3 DEF SearchInv, StackInv
      <4> QED
        BY <1>4, <1>6, <3>2, <4>1
    <3> QED
      BY <1>5, <3>1, <3>2
  <2>2. \A r \in S : r \in t.visited \/ \E j \in DOMAIN t.stack : t.stack[j] = r
    BY <1>2, <1>5 DEF SearchInv, StackInv
  <2> QED
    BY <2>1, <2>2 DEF StackInv
<1> QED
  BY <1>8, <1>9, <1>10 DEF SearchInv, t

(* The search goes on until a node closes a cycle or the stack is empty:     *)
(* there is always more on the path or visited, or less on the stack.        *)
Remaining(s) == 3 * Cardinality(NodeIds) - 2 * Cardinality(s.visited) - Cardinality(s.path)

LEMMA RemainingFacts ==
    ASSUME NodesAssumed, NEW L, NEW s \in States
    PROVE  /\ Remaining(s) \in Nat
           /\ s.stack # <<>> /\ s.path \intersect s.visited = {} =>
                 Remaining(Visit(s)) < Remaining(s) \/ (Remaining(Visit(s)) = Remaining(s) /\ Len(Visit(s).stack) < Len(s.stack))
           /\ s.stack # <<>> /\ TG!Last(s.stack) \notin s.path => Remaining(Push(L, s)) < Remaining(s)
<1> DEFINE N == Cardinality(NodeIds)
           n == TG!Last(s.stack)
<1>1. /\ s.stack \in Seq(NodeIds)
      /\ s.visited \subseteq NodeIds /\ s.path \subseteq NodeIds /\ IsFiniteSet(s.visited) /\ IsFiniteSet(s.path)
  BY FS_Subset DEF States, NodesAssumed
<1>2. N \in Nat /\ Cardinality(s.visited) \in 0 .. N /\ Cardinality(s.path) \in 0 .. N
  <2>1. Cardinality(s.visited) <= N /\ Cardinality(s.path) <= N
    BY <1>1, FS_Subset DEF NodesAssumed
  <2> QED
    BY <1>1, <2>1, FS_CardinalityType DEF NodesAssumed
<1>3. Remaining(s) \in Nat
  BY <1>2 DEF Remaining
<1>4. ASSUME s.stack # <<>>, s.path \intersect s.visited = {}
      PROVE  Remaining(Visit(s)) < Remaining(s) \/ (Remaining(Visit(s)) = Remaining(s) /\ Len(Visit(s).stack) < Len(s.stack))
  <2>1. Visit(s).stack = TG!Front(s.stack) /\ Visit(s).visited = s.visited \union {n} /\ Visit(s).path = s.path \ {n}
    BY DEF Visit
  <2>2. Len(Visit(s).stack) < Len(s.stack)
    BY <1>1, <1>4, <2>1, FrontFacts
  <2>3. CASE n \in s.visited
    <3>1. Visit(s).visited = s.visited /\ Visit(s).path = s.path
      BY <1>4, <2>1, <2>3
    <3> QED
      BY <2>2, <3>1 DEF Remaining
  <2>4. CASE n \notin s.visited
    <3>1. Cardinality(s.visited \union {n}) = Cardinality(s.visited) + 1
      BY <1>1, <2>4, FS_AddElement
    <3>2. Cardinality(s.path \ {n}) = Cardinality(s.path) \/ Cardinality(s.path \ {n}) = Cardinality(s.path) - 1
      BY <1>1, FS_RemoveElement
    <3> QED
      BY <1>2, <2>1, <3>1, <3>2 DEF Remaining
  <2> QED
    BY <2>3, <2>4
<1>5. ASSUME s.stack # <<>>, n \notin s.path PROVE Remaining(Push(L, s)) < Remaining(s)
  <2>1. Push(L, s).visited = s.visited /\ Push(L, s).path = s.path \union {n}
    BY DEF Push
  <2>2. Cardinality(s.path \union {n}) = Cardinality(s.path) + 1
    BY <1>1, <1>5, FS_AddElement
  <2> QED
    BY <1>2, <2>1, <2>2 DEF Remaining
<1> QED
  BY <1>3, <1>4, <1>5

LEMMA SearchEnds ==
    ASSUME NodesAssumed, NEW L, NEW S \in SUBSET NodeIds, NEW s \in States, SearchInv(L, S, s)
    PROVE  /\ s.stack = <<>> => ~CycleBelow(L, S)
           /\ Found(L, s) => CycleBelow(L, S)
<1>1. ASSUME s.stack = <<>> PROVE ~CycleBelow(L, S)
  <2>1. S \subseteq s.visited
    BY <1>1 DEF SearchInv, StackInv
  <2>2. \A n \in s.visited : TG!Children(L, n) \subseteq s.visited /\ n \notin TG!Below(L, n)
    BY DEF SearchInv, VisitedInv
  <2>3. Closed(L, s.visited) /\ s.visited \subseteq NodeIds
    BY <2>2 DEF Closed, States
  <2>4. \A r \in S : TG!Below(L, r) \subseteq s.visited
    BY <2>1, <2>2, <2>3, BelowLeast
  <2> QED
    BY <2>1, <2>2, <2>4 DEF CycleBelow
<1>2. ASSUME Found(L, s) PROVE CycleBelow(L, S)
  <2> DEFINE n == TG!Last(s.stack)
  <2>1. s.stack \in Seq(NodeIds) /\ s.stack # <<>> /\ n \in s.path /\ ToAdd(L, s) # {}
    BY <1>2 DEF States, Found
  <2>2. n = s.stack[Len(s.stack)] /\ Len(s.stack) \in DOMAIN s.stack /\ \A i \in DOMAIN s.stack : i <= Len(s.stack) /\ i \in Nat
    BY <2>1, FrontFacts
  <2>3. PICK i \in DOMAIN s.stack : PathNode(L, s, n, i)
    BY <2>1 DEF SearchInv, PathInv
  <2>4. PICK c \in TG!Children(L, n) : c \notin s.visited
    BY <2>1 DEF ToAdd
  <2> HIDE DEF n
  <2>5. i # Len(s.stack)
    BY <2>2, <2>3, <2>4 DEF PathNode
  <2>6. n \in TG!Below(L, n)
    <3>1. Len(s.stack) > i
      BY <2>2, <2>5
    <3> QED
      BY <2>2, <2>3, <3>1 DEF PathNode
  <2>7. PICK r \in S : n \in {r} \union TG!Below(L, r)
    BY <2>2 DEF SearchInv, StackInv
  <2> QED
    BY <2>6, <2>7 DEF CycleBelow
<1> QED
  BY <1>1, <1>2

LEMMA SearchDecides ==
    ASSUME NodesAssumed, NEW L, NEW S \in SUBSET NodeIds, NEW finds, Searches(L, finds),
           NEW s0 \in States, SearchInv(L, S, s0)
    PROVE  finds[s0] <=> CycleBelow(L, S)
<1> DEFINE Wrong(s) == SearchInv(L, S, s) /\ ~(finds[s] <=> CycleBelow(L, S))
           bad == {s \in States : Wrong(s)}
<1> SUFFICES ASSUME bad # {} PROVE FALSE
  BY Zenon
<1>9. \A t \in States : Len(t.stack) \in Nat
  <2>1. \A q \in Seq(NodeIds) : Len(q) \in Nat
    OBVIOUS
  <2> QED
    BY <2>1 DEF States
<1>1. PICK k : k \in Nat /\ (\E s \in bad : Remaining(s) = k) /\ \A s \in bad : k <= Remaining(s)
  <2> DEFINE T == {Remaining(s) : s \in bad}
  <2>1. T \in SUBSET Nat /\ T # {}
    BY RemainingFacts
  <2> HIDE DEF T
  <2>2. PICK k \in T : \A m \in T : k <= m
    BY <2>1, LeastNat
  <2> QED
    BY <2>1, <2>2 DEF T
<1>2. PICK s \in bad : Remaining(s) = k /\ \A t \in bad : Remaining(t) = k => Len(s.stack) <= Len(t.stack)
  <2> DEFINE T == {Len(s.stack) : s \in {u \in bad : Remaining(u) = k}}
  <2>1. T \in SUBSET Nat /\ T # {}
    BY <1>9, <1>1
  <2> HIDE DEF T
  <2>2. PICK m \in T : \A l \in T : m <= l
    BY <2>1, LeastNat
  <2> QED
    BY <2>2 DEF T
<1>3. s \in States /\ SearchInv(L, S, s) /\ ~(finds[s] <=> CycleBelow(L, S))
  BY <1>2
<1>4. \A t \in States : SearchInv(L, S, t) /\ (Remaining(t) < k \/ (Remaining(t) = k /\ Len(t.stack) < Len(s.stack)))
                        => (finds[t] <=> CycleBelow(L, S))
  <2> SUFFICES ASSUME NEW t \in States, SearchInv(L, S, t),
                      Remaining(t) < k \/ (Remaining(t) = k /\ Len(t.stack) < Len(s.stack)),
                      ~(finds[t] <=> CycleBelow(L, S))
               PROVE  FALSE
    BY Zenon
  <2>1. t \in bad
    OBVIOUS
  <2>2. Remaining(t) \in Nat /\ Len(t.stack) \in Nat /\ Len(s.stack) \in Nat
    BY <1>9, <1>3, RemainingFacts
  <2> HIDE DEF bad
  <2> QED
    BY <1>1, <1>2, <2>1, <2>2
<1> HIDE DEF bad, Wrong
<1>5. CASE s.stack = <<>>
  BY <1>3, <1>5, SearchSteps, SearchEnds
<1>6. CASE s.stack # <<>> /\ ToAdd(L, s) = {}
  <2>1. Visit(s) \in States /\ SearchInv(L, S, Visit(s))
    BY <1>3, <1>6, FollowingFacts, VisitKeeps
  <2>2. Remaining(Visit(s)) < k \/ (Remaining(Visit(s)) = k /\ Len(Visit(s).stack) < Len(s.stack))
    BY <1>2, <1>3, <1>6, RemainingFacts DEF SearchInv, PathInv
  <2>3. finds[Visit(s)] <=> CycleBelow(L, S)
    BY <1>4, <2>1, <2>2, Zenon
  <2>4. finds[s] <=> finds[Visit(s)]
    BY <1>3, <1>6, SearchSteps
  <2> QED
    BY <1>3, <2>3, <2>4
<1>7. CASE s.stack # <<>> /\ ToAdd(L, s) # {} /\ TG!Last(s.stack) \in s.path
  <2>1. CycleBelow(L, S)
    BY <1>3, <1>7, SearchEnds DEF Found
  <2>2. finds[s]
    BY <1>3, <1>7, SearchSteps
  <2> QED
    BY <1>3, <2>1, <2>2
<1>8. CASE s.stack # <<>> /\ ToAdd(L, s) # {} /\ TG!Last(s.stack) \notin s.path
  <2>1. Push(L, s) \in States /\ SearchInv(L, S, Push(L, s))
    BY <1>3, <1>8, FollowingFacts, PushKeeps
  <2>2. Remaining(Push(L, s)) < k
    BY <1>2, <1>3, <1>8, RemainingFacts
  <2>3. finds[Push(L, s)] <=> CycleBelow(L, S)
    BY <1>4, <2>1, <2>2, Zenon
  <2>4. finds[s] <=> finds[Push(L, s)]
    BY <1>3, <1>8, SearchSteps
  <2> QED
    BY <1>3, <2>3, <2>4
<1> QED
  BY <1>5, <1>6, <1>7, <1>8

(* The loop of has_cycle is exact, for every graph, whatever the order in    *)
(* which children are pushed.                                                *)
LEMMA FindsCycleIsExact ==
    ASSUME NodesAssumed, NEW L, NEW S \in SUBSET NodeIds
    PROVE  TG!FindsCycle(L, TG!SetToSeq(S)) <=> CycleBelow(L, S)
<1> DEFINE finds == CHOOSE finds : Searches(L, finds)
           s == [stack |-> TG!SetToSeq(S), visited |-> {}, path |-> {}]
<1>1. Searches(L, finds)
  BY SearchExists
<1>2. TG!FindsCycle(L, TG!SetToSeq(S)) = finds[s]
  BY Zenon DEF TG!FindsCycle, Searches
<1>3. /\ TG!SetToSeq(S) \in Seq(S)
      /\ \A e \in S : \E i \in DOMAIN TG!SetToSeq(S) : TG!SetToSeq(S)[i] = e
  BY OrderFacts, FS_Subset DEF NodesAssumed
<1> HIDE DEF finds
<1>4. s \in States
  <2>1. TG!SetToSeq(S) \in Seq(NodeIds)
    BY <1>3
  <2> QED
    BY <2>1 DEF States
<1>5. SearchInv(L, S, s)
  <2>1. VisitedInv(L, s) /\ PathInv(L, s)
    BY DEF VisitedInv, PathInv
  <2>2. StackInv(L, S, s)
    BY <1>3 DEF StackInv
  <2> QED
    BY <2>1, <2>2 DEF SearchInv
<1> HIDE DEF s
<1>6. finds[s] <=> CycleBelow(L, S)
  BY <1>1, <1>4, <1>5, SearchDecides
<1> QED
  BY <1>2, <1>6, Zenon

-----------------------------------------------------------------------------
(* The graph while users edit it. *)

(* As long as no two requests overlap and no cycle escapes, at most one link *)
(* is on its way, and with it there is still no cycle.                       *)
Cycleless(L) == \A n \in NodeIds : n \notin TG!Below(L, n)
TemplateInv ==
    /\ NodesAssumed
    /\ TG!TypeOK
    /\ ~overlapping /\ ~escaped => (\A k, l \in checked : k = l) /\ Cycleless(links \union checked)

LEMMA CyclelessLess ==
    ASSUME NodesAssumed, NEW L, NEW K, Cycleless(K), L \subseteq K
    PROVE  Cycleless(L)
BY BelowMore DEF Cycleless

LEMMA CyclelessLeaf ==
    ASSUME NodesAssumed, NEW L, NEW n \in NodeIds, Cycleless(L), TG!Children(L, n) = {},
           NEW P, n \notin P
    PROVE  Cycleless(L \union {<<p, n>> : p \in P})
<1> DEFINE K == L \union {<<p, n>> : p \in P}
<1>1. \A m \in NodeIds : TG!Children(K, m) \subseteq TG!Children(L, m) \union {n}
  BY DEF TG!Children
<1>2. TG!Children(K, n) = {}
  BY DEF TG!Children
<1> HIDE DEF K
<1>3. SUFFICES ASSUME NEW m \in NodeIds, m \in TG!Below(K, m) PROVE FALSE
  BY DEF Cycleless, K
<1>4. m # n
  <2>1. TG!Below(K, n) \subseteq {}
    BY <1>2, BelowLeast DEF Closed
  <2> QED
    BY <1>3, <2>1
<1>5. TG!Below(L, m) \subseteq NodeIds /\ TG!Children(L, m) \subseteq TG!Below(L, m) /\ Closed(L, TG!Below(L, m))
  BY BelowClosed
<1>6. TG!Children(K, m) \subseteq TG!Below(L, m) \union {n} /\ Closed(K, TG!Below(L, m) \union {n})
  BY <1>1, <1>2, <1>5 DEF Closed
<1>7. TG!Below(K, m) \subseteq TG!Below(L, m) \union {n}
  BY <1>6, BelowLeast
<1> QED
  BY <1>3, <1>4, <1>7 DEF Cycleless

LEMMA HasCycleFacts ==
    ASSUME NodesAssumed, NEW N \in SUBSET NodeIds, NEW L
    PROVE  TG!HasCycle(N, L) <=> (N # {} /\ TG!Roots(N, L) = {}) \/ CycleBelow(L, TG!Roots(N, L))
<1>1. TG!Roots(N, L) \in SUBSET NodeIds
  BY DEF TG!Roots
<1>2. TG!FindsCycle(L, TG!SetToSeq(TG!Roots(N, L))) <=> CycleBelow(L, TG!Roots(N, L))
  BY <1>1, FindsCycleIsExact
<1> QED
  BY <1>2, Zenon DEF TG!HasCycle

LEMMA TemplateExact == TemplateInv => TG!HasCycleIsExact
<1> SUFFICES ASSUME TemplateInv PROVE TG!HasCycleIsExact
  OBVIOUS
<1>1. NodesAssumed /\ nodes \in SUBSET NodeIds /\ links \subseteq nodes \X nodes
  BY DEF TemplateInv, TG!TypeOK
<1>2. TG!HasCycle(nodes, links) <=> (nodes # {} /\ TG!Roots(nodes, links) = {}) \/ CycleBelow(links, TG!Roots(nodes, links))
  BY <1>1, HasCycleFacts
<1>3. ASSUME NEW r \in TG!Roots(nodes, links) PROVE r \notin TG!Below(links, r)
  <2>1. r \in NodeIds /\ \A p \in nodes : <<p, r>> \notin links
    BY <1>1 DEF TG!Roots
  <2> QED
    BY <1>1, <2>1, BelowHasParent
<1>4. CycleBelow(links, TG!Roots(nodes, links)) <=>
          \E r \in TG!Roots(nodes, links) : \E m \in TG!Below(links, r) : m \in TG!Below(links, m)
  BY <1>3 DEF CycleBelow
<1> QED
  BY <1>2, <1>4 DEF TG!HasCycleIsExact, TG!Roots

LEMMA TemplateCheck ==
    ASSUME TemplateInv, NEW p \in nodes, NEW c \in nodes, TG!Check(p, c)
    PROVE  TemplateInv'
<1> DEFINE seen == links \union {<<p, c>>}
<1>1. NodesAssumed /\ nodes \in SUBSET NodeIds /\ links \subseteq nodes \X nodes /\ checked \subseteq NodeIds \X NodeIds
  BY DEF TemplateInv, TG!TypeOK
<1>2. /\ nodes' = nodes
      /\ overlapping' = (overlapping \/ checked # {})
      /\ IF TG!HasCycle(nodes, seen)
         THEN links' = links \ {<<p, c>>} /\ checked' = checked /\ escaped' = escaped
         ELSE checked' = checked \union {<<p, c>>} /\ escaped' = (escaped \/ TG!Hidden(seen, p)) /\ links' = links
  BY DEF TG!Check
<1>3. NodesAssumed'
  BY <1>1 DEF NodesAssumed
<1>4. TG!TypeOK'
  <2>1. nodes' \subseteq NodeIds /\ links' \subseteq nodes' \X nodes' /\ checked' \subseteq NodeIds \X NodeIds
    <3> HIDE DEF seen
    <3> QED
      BY <1>1, <1>2
  <2>2. overlapping' \in BOOLEAN
    BY <1>2
  <2>3. escaped' \in BOOLEAN
    <3>1. escaped \in BOOLEAN
      BY DEF TemplateInv, TG!TypeOK
    <3> QED
      BY <1>2, <3>1, Zenon
  <2> QED
    BY <2>1, <2>2, <2>3 DEF TG!TypeOK
<1>5. ASSUME ~overlapping', ~escaped' PROVE (\A k, l \in checked' : k = l) /\ Cycleless(links' \union checked')
  <2>1. ~overlapping /\ ~escaped /\ checked = {}
    BY <1>2, <1>5
  <2>2. Cycleless(links)
    <3>1. links \union checked = links
      BY <2>1
    <3> QED
      BY <2>1, <3>1 DEF TemplateInv
  <2>3. CASE TG!HasCycle(nodes, seen)
    <3>1. checked' = {} /\ links' \union checked' \subseteq links
      BY <1>2, <2>1, <2>3
    <3> QED
      BY <1>1, <2>2, <3>1, CyclelessLess
  <2>4. CASE ~TG!HasCycle(nodes, seen)
    <3>1. checked' = {<<p, c>>} /\ links' \union checked' = seen /\ ~TG!Hidden(seen, p)
      BY <1>2, <1>5, <2>1, <2>4
    <3>2. ~(nodes # {} /\ TG!Roots(nodes, seen) = {}) /\ ~CycleBelow(seen, TG!Roots(nodes, seen))
      <4> HIDE DEF seen
      <4> QED
        BY <1>1, <2>4, HasCycleFacts
    <3>3. p \notin TG!Below(seen, p)
      <4> SUFFICES ASSUME p \in TG!Below(seen, p) PROVE FALSE
        OBVIOUS
      <4>1. PICK r \in TG!Roots(nodes, seen) : p \in TG!Below(seen, r)
        BY <3>1, <3>2 DEF TG!Hidden
      <4> QED
        BY <3>2, <4>1 DEF CycleBelow
    <3>4. ASSUME NEW n \in NodeIds, n \in TG!Below(seen, n) PROVE FALSE
      <4>1. n \notin TG!Below(links, n)
        BY <2>2 DEF Cycleless
      <4>2. p \in NodeIds /\ c \in NodeIds
        BY <1>1
      <4> QED
        BY <1>1, <3>3, <3>4, <4>1, <4>2, LastLinkCloses
    <3>5. Cycleless(seen)
      BY <3>4 DEF Cycleless
    <3> QED
      BY <3>1, <3>5
  <2> QED
    BY <2>3, <2>4
<1>6. Cycleless(links \union checked)' <=> Cycleless(links' \union checked')
  BY DEF Cycleless, TG!Below, TG!Children, TG!Cardinality
<1> QED
  BY <1>3, <1>4, <1>5, <1>6 DEF TemplateInv

LEMMA TemplateStep == TemplateInv /\ [TG!Next]_templateVars => TemplateInv'
<1> SUFFICES ASSUME TemplateInv, [TG!Next]_templateVars PROVE TemplateInv'
  OBVIOUS
<1>1. NodesAssumed /\ nodes \in SUBSET NodeIds /\ links \subseteq nodes \X nodes /\ checked \subseteq NodeIds \X NodeIds
  BY DEF TemplateInv, TG!TypeOK
<1>2. NodesAssumed' /\ (Cycleless(links \union checked)' <=> Cycleless(links' \union checked'))
  BY <1>1 DEF NodesAssumed, Cycleless, TG!Below, TG!Children, TG!Cardinality
<1>3. CASE UNCHANGED templateVars
  BY <1>1, <1>2, <1>3 DEF templateVars, TemplateInv, TG!TypeOK
<1>4. ASSUME NEW n \in NodeIds, NEW parents \in SUBSET nodes, TG!Create(n, parents) PROVE TemplateInv'
  <2>1. /\ n \notin nodes /\ \A l \in checked : n \notin {l[1], l[2]}
        /\ nodes' = nodes \union {n} /\ links' = links \union {<<p, n>> : p \in parents}
        /\ checked' = checked /\ overlapping' = overlapping /\ escaped' = escaped
    BY <1>4 DEF TG!Create
  <2>2. TG!TypeOK'
    BY <1>1, <2>1 DEF TemplateInv, TG!TypeOK
  <2>3. TG!Children(links \union checked, n) = {}
    BY <1>1, <2>1 DEF TG!Children
  <2>4. n \notin parents
    BY <2>1
  <2>5. links' \union checked' = (links \union checked) \union {<<p, n>> : p \in parents}
    BY <2>1
  <2>6. Cycleless(links \union checked) => Cycleless(links' \union checked')
    BY <1>1, <2>3, <2>4, <2>5, CyclelessLeaf
  <2> QED
    BY <1>2, <2>1, <2>2, <2>6 DEF TemplateInv
<1>5. ASSUME links' \union checked' \subseteq links \union checked, checked' \subseteq checked,
             overlapping' = overlapping, escaped' = escaped, TG!TypeOK'
      PROVE  TemplateInv'
  <2>1. Cycleless(links \union checked) => Cycleless(links' \union checked')
    BY <1>1, <1>5, CyclelessLess
  <2> QED
    BY <1>2, <1>5, <2>1 DEF TemplateInv
<1>6. ASSUME NEW n \in NodeIds, TG!Delete(n) PROVE TemplateInv'
  <2>1. /\ nodes' = nodes \ {n} /\ links' = {l \in links : n \notin {l[1], l[2]}}
        /\ checked' = checked /\ overlapping' = overlapping /\ escaped' = escaped
    BY <1>6 DEF TG!Delete
  <2>2. TG!TypeOK'
    BY <1>1, <2>1 DEF TemplateInv, TG!TypeOK
  <2> QED
    BY <1>5, <2>1, <2>2
<1>7. ASSUME NEW l \in checked, TG!Attach(l) PROVE TemplateInv'
  <2>1. /\ nodes' = nodes /\ links' = (IF {l[1], l[2]} \subseteq nodes THEN links \union {l} ELSE links)
        /\ checked' = checked \ {l} /\ overlapping' = overlapping /\ escaped' = escaped
    BY <1>7 DEF TG!Attach
  <2>2. TG!TypeOK'
    BY <1>1, <2>1 DEF TemplateInv, TG!TypeOK
  <2> QED
    BY <1>5, <2>1, <2>2
<1>8. ASSUME NEW l \in links, TG!Detach(l) PROVE TemplateInv'
  <2>1. nodes' = nodes /\ links' = links \ {l} /\ checked' = checked /\ overlapping' = overlapping /\ escaped' = escaped
    BY <1>8 DEF TG!Detach
  <2>2. TG!TypeOK'
    BY <1>1, <2>1 DEF TemplateInv, TG!TypeOK
  <2> QED
    BY <1>5, <2>1, <2>2
<1> QED
  BY <1>3, <1>4, <1>6, <1>7, <1>8, TemplateCheck DEF TG!Next

LEMMA TemplateInit == NodesAssumed /\ TG!Init => TemplateInv
<1> SUFFICES ASSUME NodesAssumed, TG!Init PROVE TemplateInv
  OBVIOUS
<1>1. TG!TypeOK
  BY DEF TG!Init, TG!TypeOK
<1>2. links \union checked = {} /\ checked = {}
  BY DEF TG!Init
<1>3. Cycleless(links \union checked)
  <2> SUFFICES ASSUME NEW n \in NodeIds, n \in TG!Below(links \union checked, n) PROVE FALSE
    BY DEF Cycleless
  <2>1. \E p \in NodeIds : <<p, n>> \in links \union checked
    BY BelowHasParent
  <2> QED
    BY <1>2, <2>1
<1> QED
  BY <1>1, <1>2, <1>3 DEF TemplateInv

LEMMA TemplateKept == TemplateInv => TG!HasCycleIsExact /\ TG!Acyclic
<1> SUFFICES ASSUME TemplateInv PROVE TG!HasCycleIsExact /\ TG!Acyclic
  OBVIOUS
<1>1. ASSUME ~overlapping, ~escaped, NEW n \in nodes PROVE n \notin TG!Below(links, n)
  <2>1. NodesAssumed /\ Cycleless(links \union checked) /\ n \in NodeIds
    BY <1>1 DEF TemplateInv, TG!TypeOK
  <2>2. Cycleless(links)
    BY <2>1, CyclelessLess
  <2> QED
    BY <2>1, <2>2 DEF Cycleless
<1> QED
  BY <1>1, TemplateExact DEF TG!Acyclic

(* is_valid_relation, has_cycle and the requests that create, link, unlink   *)
(* and delete nodes: for every finite set of nodes and any number of         *)
(* requests, has_cycle finds a cycle if and only if there is one that a root *)
(* leads to, or no root; and a template has no cycle, unless requests that   *)
(* link nodes overlapped or a cycle was closed where no root leads           *)
(* (TemplatesAcyclic).                                                       *)
THEOREM TemplatesStayAcyclic ==
    ASSUME NodesAssumed
    PROVE  ServicesSpec => []TemplatesAcyclic
<1> DEFINE I == part = "template" => TemplateInv
<1>1. ServicesInit => I
  BY TemplateInit DEF ServicesInit
<1>2. I /\ [ServicesNext]_allvars => I'
  <2>1. ASSUME part = "template", [ServicesNext]_allvars PROVE [TG!Next]_templateVars
    BY <2>1 DEF ServicesNext, allvars, serviceVars
  <2>2. [ServicesNext]_allvars => part' = part
    BY DEF ServicesNext, allvars
  <2> QED
    BY <2>1, <2>2, TemplateStep
<1>3. I => TemplatesAcyclic
  BY TemplateKept DEF TemplatesAcyclic
<1> QED
  BY <1>1, <1>2, <1>3, PTL DEF ServicesSpec
=============================================================================
