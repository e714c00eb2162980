----------------------------- MODULE DriftAlert -----------------------------
(***************************************************************************)
(* A drift alert rule, evaluated by the tasks that follow detected drifts. *)
(* A task reads the rule, checks its cooldown by what it has read, creates *)
(* and sends an alert, and records the trigger in the end; other tasks do  *)
(* the same for other hosts, and a user may edit the rule, which saves the *)
(* row as it was loaded.                                                   *)
(***************************************************************************)
EXTENDS Integers, FiniteSets

CONSTANTS
    Evaluations,        \* evaluate_drift_alerts tasks
    Cooldown,           \* cooldown_minutes, in ticks
    MaxClock            \* bound of the clock

VARIABLES
    now,
    alertRule,          \* the row: last_triggered_at, trigger_count
    evaluation,         \* per task: its position
    lastRead,           \* per task: the last_triggered_at that it has read
    alerts,             \* per task: when it created its alert
    recorded,           \* tasks that have recorded their trigger
    concurrent,         \* history: pairs of tasks that ran at the same time
    form,               \* the row as an edit has loaded it, or NoForm
    setBack             \* history: an edit wrote an older row

davars == <<now, alertRule, evaluation, lastRead, alerts, recorded, concurrent, form, setBack>>

Never == -1
NoForm == [last_triggered_at |-> Never, trigger_count |-> -1]
Running == {e \in Evaluations : evaluation[e] \in {"read", "alert", "record"}}

Init ==
    /\ now = 0
    /\ alertRule = [last_triggered_at |-> Never, trigger_count |-> 0]
    /\ evaluation = [e \in Evaluations |-> "queued"]
    /\ lastRead = [e \in Evaluations |-> Never]
    /\ alerts = [e \in Evaluations |-> Never]
    /\ recorded = {}
    /\ concurrent = {}
    /\ form = NoForm
    /\ setBack = FALSE

Minute ==
    /\ now < MaxClock
    /\ now' = now + 1
    /\ UNCHANGED <<alertRule, evaluation, lastRead, alerts, recorded, concurrent, form, setBack>>

is_in_cooldown(last) == last # Never /\ Cooldown > 0 /\ now - last < Cooldown

\* The list of the rules is read.
ReadRules(e) ==
    /\ evaluation[e] = "queued"
    /\ evaluation' = [evaluation EXCEPT ![e] = "read"]
    /\ lastRead' = [lastRead EXCEPT ![e] = alertRule.last_triggered_at]
    /\ concurrent' = concurrent \union {{e, f} : f \in Running}
    /\ UNCHANGED <<now, alertRule, alerts, recorded, form, setBack>>

\* The task goes on if the rule, as it was read, has no cooldown and its threshold of drifts is met.
Evaluate(e) ==
    /\ evaluation[e] = "read"
    /\ \E met \in BOOLEAN :
         evaluation' = [evaluation EXCEPT ![e] = IF met /\ ~is_in_cooldown(lastRead[e]) THEN "alert" ELSE "done"]
    /\ UNCHANGED <<now, alertRule, lastRead, alerts, recorded, concurrent, form, setBack>>

\* The alert is created, and sent; that it could not be sent is noted in the alert only.
CreateAlert(e) ==
    /\ evaluation[e] = "alert"
    /\ alerts' = [alerts EXCEPT ![e] = now]
    /\ evaluation' = [evaluation EXCEPT ![e] = "record"]
    /\ UNCHANGED <<now, alertRule, lastRead, recorded, concurrent, form, setBack>>

\* record_trigger: the database counts, not the task.
record_trigger(e) ==
    /\ evaluation[e] = "record"
    /\ alertRule' = [last_triggered_at |-> now, trigger_count |-> alertRule.trigger_count + 1]
    /\ recorded' = recorded \union {e}
    /\ evaluation' = [evaluation EXCEPT ![e] = "done"]
    /\ UNCHANGED <<now, lastRead, alerts, concurrent, form, setBack>>

\* The task's worker dies.
Die(e) ==
    /\ e \in Running
    /\ evaluation' = [evaluation EXCEPT ![e] = "done"]
    /\ UNCHANGED <<now, alertRule, lastRead, alerts, recorded, concurrent, form, setBack>>

\* A user's edit loads the row, and saves all its columns.
LoadForm ==
    /\ form = NoForm
    /\ form' = alertRule
    /\ UNCHANGED <<now, alertRule, evaluation, lastRead, alerts, recorded, concurrent, setBack>>

SaveForm ==
    /\ form # NoForm
    /\ setBack' = (setBack \/ form # alertRule)
    /\ alertRule' = form
    /\ form' = NoForm
    /\ UNCHANGED <<now, evaluation, lastRead, alerts, recorded, concurrent>>

Next ==
    \/ Minute
    \/ \E e \in Evaluations : ReadRules(e) \/ Evaluate(e) \/ CreateAlert(e) \/ record_trigger(e) \/ Die(e)
    \/ LoadForm \/ SaveForm

Spec == Init /\ [][Next]_davars

-----------------------------------------------------------------------------

Rows == [last_triggered_at : {Never} \union 0 .. now, trigger_count : 0 .. Cardinality(Evaluations)]

TypeOK ==
    /\ now \in 0 .. MaxClock
    /\ alertRule \in Rows
    /\ evaluation \in [Evaluations -> {"queued", "read", "alert", "record", "done"}]
    /\ lastRead \in [Evaluations -> {Never} \union 0 .. now]
    /\ alerts \in [Evaluations -> {Never} \union 0 .. now]
    /\ recorded \subseteq Evaluations
    /\ concurrent \subseteq SUBSET Evaluations
    /\ form \in Rows \union {NoForm}
    /\ setBack \in BOOLEAN

\* Two alerts of one rule are at least cooldown_minutes apart, unless their tasks ran at the same time, a task
\* died before it recorded its trigger, or an edit wrote back an older row.
AlertsSpaced ==
    \A e, f \in recorded :
        e # f /\ {e, f} \notin concurrent /\ ~setBack =>
            alerts[e] - alerts[f] >= Cooldown \/ alerts[f] - alerts[e] >= Cooldown

\* trigger_count is the number of recorded triggers, also of tasks that ran at the same time, unless an edit
\* wrote back an older row.
NoTriggerUncounted == setBack \/ alertRule.trigger_count = Cardinality(recorded)
=============================================================================
