----------------------------- MODULE EventRule -----------------------------
(***************************************************************************)
(* An event rule: webhook requests deliver events, equal guids are         *)
(* refused as duplicates, and dispatcher workers evaluate the accepted     *)
(* ones at the same time, each of them reading the rule at its beginning   *)
(* and recording the firing at its end.  A user may edit the rule, which   *)
(* saves the whole row as it was loaded.                                   *)
(***************************************************************************)
EXTENDS Integers

CONSTANTS
    Deliveries,         \* webhook requests
    Guid,               \* the guid of each delivery's event
    Throttle,           \* throttle_seconds, in ticks
    MaxTime             \* bound of the clock

VARIABLES
    clock,
    rule,               \* the row: enabled, last_fired_at; or deleted
    status,             \* the event log's status per delivery; refused and none have no log
    stage,              \* per delivery: the request's or the evaluation's position
    fired,              \* history: when each delivery's firing was recorded, Never
    together,           \* history: pairs of evaluations that ran at the same time
    edit,               \* the row as an edit has loaded it, or NoEdit
    reverted            \* history: an edit wrote an older last_fired_at

vars == <<clock, rule, status, stage, fired, together, edit, reverted>>

Never == -1
NoEdit == [loaded |-> FALSE]
Evaluating == {"conditions", "actions", "record"}

Init ==
    /\ clock = 0
    /\ rule = [present |-> TRUE, enabled |-> TRUE, last_fired_at |-> Never]
    /\ status = [d \in Deliveries |-> "none"]
    /\ stage = [d \in Deliveries |-> "idle"]
    /\ fired = [d \in Deliveries |-> Never]
    /\ together = {}
    /\ edit = NoEdit
    /\ reverted = FALSE

Tick ==
    /\ clock < MaxTime
    /\ clock' = clock + 1
    /\ UNCHANGED <<rule, status, stage, fired, together, edit, reverted>>

Duplicate(d) == \E e \in Deliveries : Guid[e] = Guid[d] /\ status[e] \in {"matched", "action_fired"}

\* EDAWebhookReceiver.post, until its transaction commits: an event that has matched before is refused.
Receive(d) ==
    /\ stage[d] = "idle" /\ status[d] = "none"
    /\ rule.present /\ rule.enabled
    /\ IF Duplicate(d)
       THEN status' = [status EXCEPT ![d] = "refused"] /\ UNCHANGED stage
       ELSE stage' = [stage EXCEPT ![d] = "receiving"] /\ UNCHANGED status
    /\ UNCHANGED <<clock, rule, fired, together, edit, reverted>>

\* The log is committed, and the NOTIFY for the evaluation goes out with it.
Accept(d) ==
    /\ stage[d] = "receiving"
    /\ status' = [status EXCEPT ![d] = "received"]
    /\ stage' = [stage EXCEPT ![d] = "queued"]
    /\ UNCHANGED <<clock, rule, fired, together, edit, reverted>>

FaultyThrottled == /\ Throttle > 0 /\ rule.last_fired_at # Never
                   /\ clock - rule.last_fired_at < Throttle - 1
is_throttled == /\ Throttle > 0 /\ rule.last_fired_at # Never
                /\ clock - rule.last_fired_at < Throttle

\* evaluate_event_rule reads log and rule: a deleted, disabled or throttled rule ends it.
Evaluate(d) ==
    /\ stage[d] = "queued"
    /\ LET verdict == CASE ~rule.present -> "error"
                        [] rule.present /\ ~rule.enabled -> "unmatched"
                        [] rule.present /\ rule.enabled -> IF is_throttled THEN "throttled" ELSE "received"
       IN  /\ status' = [status EXCEPT ![d] = verdict]
           /\ stage' = [stage EXCEPT ![d] = IF verdict = "received" THEN "conditions" ELSE "idle"]
           /\ together' = IF verdict = "received"
                          THEN together \union {{d, e} : e \in {e \in Deliveries : stage[e] \in Evaluating}}
                          ELSE together
    /\ UNCHANGED <<clock, rule, fired, edit, reverted>>

\* The conditions match, do not match, or cannot be evaluated.
Judge(d) ==
    /\ stage[d] = "conditions"
    /\ \E verdict \in {"matched", "unmatched", "error"} :
         /\ status' = [status EXCEPT ![d] = verdict]
         /\ stage' = [stage EXCEPT ![d] = IF verdict = "matched" THEN "actions" ELSE "idle"]
    /\ UNCHANGED <<clock, rule, fired, together, edit, reverted>>

\* All actions are tried; the log says whether one has failed.
Act(d) ==
    /\ stage[d] = "actions"
    /\ \E verdict \in {"action_fired", "action_failed"} : status' = [status EXCEPT ![d] = verdict]
    /\ stage' = [stage EXCEPT ![d] = "record"]
    /\ UNCHANGED <<clock, rule, fired, together, edit, reverted>>

\* record_firing; it fails when the rule is gone.
record_firing(d) ==
    /\ stage[d] = "record"
    /\ rule' = IF rule.present THEN [rule EXCEPT !.last_fired_at = clock] ELSE rule
    /\ fired' = IF rule.present THEN [fired EXCEPT ![d] = clock] ELSE fired
    /\ stage' = [stage EXCEPT ![d] = "idle"]
    /\ UNCHANGED <<clock, status, together, edit, reverted>>

\* The worker dies during an evaluation, which nobody resumes.
Die(d) ==
    /\ stage[d] \in Evaluating
    /\ stage' = [stage EXCEPT ![d] = "idle"]
    /\ UNCHANGED <<clock, rule, status, fired, together, edit, reverted>>

\* A user's edit loads the row ...
BeginEdit ==
    /\ rule.present /\ edit = NoEdit
    /\ edit' = [loaded |-> TRUE, last_fired_at |-> rule.last_fired_at]
    /\ UNCHANGED <<clock, rule, status, stage, fired, together, reverted>>

\* ... and saves all its columns: the edited ones, and last_fired_at as it was loaded.
SaveEdit(enabled) ==
    /\ edit # NoEdit
    /\ edit' = NoEdit
    /\ rule' = [rule EXCEPT !.enabled = enabled, !.last_fired_at = edit.last_fired_at]
    /\ reverted' = (reverted \/ edit.last_fired_at # rule.last_fired_at)
    /\ UNCHANGED <<clock, status, stage, fired, together>>

\* A rule is deleted; not during an edit, whose save would insert the row again.
DeleteRule ==
    /\ rule.present /\ edit = NoEdit
    /\ rule' = [rule EXCEPT !.present = FALSE]
    /\ UNCHANGED <<clock, status, stage, fired, together, edit, reverted>>

Next ==
    \/ Tick
    \/ \E d \in Deliveries :
         Receive(d) \/ Accept(d) \/ Evaluate(d) \/ Judge(d) \/ Act(d) \/ record_firing(d) \/ Die(d)
    \/ BeginEdit
    \/ \E e \in BOOLEAN : SaveEdit(e)
    \/ DeleteRule

Spec == Init /\ [][Next]_vars

-----------------------------------------------------------------------------

TypeOK ==
    /\ clock \in 0 .. MaxTime
    /\ rule \in [present : BOOLEAN, enabled : BOOLEAN, last_fired_at : {Never} \union 0 .. clock]
    /\ status \in [Deliveries -> {"none", "refused", "received", "unmatched", "throttled", "error", "matched",
                                  "action_fired", "action_failed"}]
    /\ stage \in [Deliveries -> Evaluating \union {"idle", "receiving", "queued"}]
    /\ fired \in [Deliveries -> {Never} \union 0 .. clock]
    /\ together \subseteq SUBSET Deliveries
    /\ edit = NoEdit \/ edit.last_fired_at \in {Never} \union 0 .. clock
    /\ reverted \in BOOLEAN

\* Two recorded firings are at least throttle_seconds apart, unless their evaluations ran at the same time,
\* or an edit of the rule wrote back an older last_fired_at.
FiringsSpaced ==
    \A d, e \in Deliveries :
        /\ d # e /\ fired[d] # Never /\ fired[e] # Never
        /\ {d, e} \notin together
        /\ ~reverted
        => fired[d] - fired[e] >= Throttle \/ fired[e] - fired[d] >= Throttle

\* A delivery is refused as a duplicate only when another one with its guid has matched the rule: an event
\* that was throttled, did not match, or has not been looked at may be sent again.
RefusedOnlyIfMatched ==
    \A d \in Deliveries : status[d] = "refused" =>
        \E e \in Deliveries \ {d} : Guid[e] = Guid[d] /\ status[e] \in {"matched", "action_fired", "action_failed"}
=============================================================================
