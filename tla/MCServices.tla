----------------------------- MODULE MCServices -----------------------------
(* The services around the jobs, for TLC.  They share no state, so one run   *)
(* checks them side by side: the initial state picks one of them, and only   *)
(* that one moves.  WorkflowApproval is extended, the others instantiated.   *)
EXTENDS WorkflowApproval

CONSTANTS
    Users, JobIds, MaxLostHooks,
    Deliveries, Guid, Throttle, MaxTime,
    Receivers, Events, MaxFaults,
    NodeIds, MaxLinks, MaxRequests,
    Launches, MaxConcurrent, MaxDaily, LastDay,
    Jobs, Values,
    Evaluations, Cooldown, MaxClock,
    Processes, MaxEdits,
    Nodes, Occurrences, LastTick, MaxDeaths,
    Controllers, Grace, MaxHour, MaxStarts, MaxLosses,
    Instances, NodeType, Controlplane, Default, MaxPolicyEdits, MaxLostTasks,
    MaxSignals, MaxMishaps,
    Hosts, Addresses, Absent, MaxChanges, MaxBreaks,
    Browsers, MaxMessages, MaxBrowserRequests, MaxHitches,
    Sources, IdSources, Names, Ids, MaxRow, MaxImports, MaxHostEdits,
    ProjectJobs, Overriding, Updates, Commits

(* All deliveries carry the same event. *)
MCGuid == [d \in Deliveries |-> "guid"]

(* One instance of each type. *)
MCNodeType == [i \in Instances |-> IF i = 1 THEN "control" ELSE IF i = 2 THEN "execution" ELSE "hybrid"]

VARIABLES
    part,
    request, jobStatus, decision, hook, lostHooks, overlap,
    clock, rule, status, stage, fired, together, edit, reverted,
    wrapup, unsaveable, worker, job, redis, receiver, saved, notified, faults, reaped,
    nodes, links, checked, overlapping, escaped,
    day, usage, launch, today, recalculation, overwritten,
    host, run, capture, snapshots, undetected, drifts, gathered, newest, crossed,
    now, alertRule, evaluation, lastRead, alerts, recorded, concurrent, form, setBack,
    setting, change, cached, memo, reading, clearing, unclean,
    tick, next_run, schedule_last_run, pass, launches, lost, tied, deaths,
    hour, instance, advertised, heartbeat, check, nodeJob, tm, removal, stale,
    managed, policies, members, patch, tasks, task, changed, lostTasks, unnoticed, attached, raced,
    payload, main, transmitter, processor, signals, raising, unit, known, socket, over, mishaps, heeded,
    web, notes, relay, known_hosts, relay_connections, listener, loop, changes, breaks, crash,
    groups, connection, messages, producer, requests, hitches, missed,
    options, hosts, group, listing, update, imports, hostEdits, imported,
    remote, project, tree, caches, staged, lock, at, work, result, gaveUp, intruded, unsure, interrupts

SR == INSTANCE ServiceRequest
ER == INSTANCE EventRule
EP == INSTANCE EventProcessing
TG == INSTANCE TemplateGraph
TQ == INSTANCE TenantQuota
FC == INSTANCE FactCache
DA == INSTANCE DriftAlert
SC == INSTANCE SettingsCache
PS == INSTANCE PeriodicSchedule
EN == INSTANCE ExecutionNode
CP == INSTANCE ClusterPolicies WITH groups <- policies
RW == INSTANCE ReceptorWork
RC == INSTANCE RelayConnections
RS == INSTANCE RelaySubscriptions
II == INSTANCE InventoryImport WITH members <- listing
PC == INSTANCE ProjectCheckout WITH Jobs <- ProjectJobs

(* The variables of the parts. *)
requestVars == <<request, jobStatus, decision, hook, lostHooks, overlap>>
ruleVars == <<clock, rule, status, stage, fired, together, edit, reverted>>
eventsVars == <<wrapup, unsaveable, worker, job, redis, receiver, saved, notified, faults, reaped>>
templateVars == <<nodes, links, checked, overlapping, escaped>>
quotaVars == <<day, usage, launch, today, recalculation, overwritten>>
factsVars == <<host, run, capture, snapshots, undetected, drifts, gathered, newest, crossed>>
alertVars == <<now, alertRule, evaluation, lastRead, alerts, recorded, concurrent, form, setBack>>
settingVars == <<setting, change, cached, memo, reading, clearing, unclean>>
scheduleVars == <<tick, next_run, schedule_last_run, pass, launches, lost, tied, deaths>>
nodeVars == <<hour, instance, advertised, heartbeat, check, nodeJob, tm, removal, stale>>
policyVars == <<managed, policies, members, patch, tasks, task, changed, lostTasks, unnoticed, attached, raced>>
workVars == <<payload, main, transmitter, processor, signals, raising, unit, known, socket, over, mishaps, heeded>>
relayVars == <<web, notes, relay, known_hosts, relay_connections, listener, loop, changes, breaks, crash>>
subVars == <<groups, connection, messages, producer, requests, hitches, missed>>
importVars == <<options, hosts, group, listing, update, imports, hostEdits, imported>>
checkoutVars == <<remote, project, tree, caches, staged, lock, at, work, result, gaveUp, intruded, unsure, interrupts>>

(* What the parts of two neighbourhoods leave alone, the services of a job and those of the cluster. *)
serviceVars == <<vars, requestVars, ruleVars, eventsVars, templateVars, quotaVars, factsVars, alertVars, settingVars,
                 scheduleVars>>
clusterVars == <<nodeVars, policyVars, workVars, relayVars, subVars, importVars, checkoutVars>>

ServicesInit ==
    /\ part \in {"approval", "request", "rule", "events", "template", "quota", "facts", "alert", "setting", "schedule",
                "node", "policy", "work", "relay", "subscription", "import", "project"}
    /\ Init /\ SR!Init /\ ER!Init /\ EP!Init /\ TG!Init /\ TQ!Init /\ FC!Init /\ DA!Init /\ SC!Init /\ PS!Init
    /\ EN!Init /\ CP!Init /\ RW!Init /\ RC!Init /\ RS!Init /\ II!Init /\ PC!Init
    (* The choices that some modules make initially matter to nobody else; the project has been updated here. *)
    /\ part = "events" \/ (wrapup = "eof" /\ unsaveable = {})
    /\ part = "work" \/ payload = "small"
    /\ tree.head = 1
    /\ part = "import" \/ (options.overwrite /\ options.overwrite_vars)

ServicesNext ==
    \/ /\ part = "approval" /\ Next
       /\ UNCHANGED <<part, clusterVars, requestVars, ruleVars, eventsVars, templateVars, quotaVars,
                      factsVars, alertVars, settingVars, scheduleVars>>
    \/ /\ part = "request" /\ SR!Next
       /\ UNCHANGED <<part, clusterVars, vars, ruleVars, eventsVars, templateVars, quotaVars, factsVars,
                      alertVars, settingVars, scheduleVars>>
    \/ /\ part = "rule" /\ ER!Next
       /\ UNCHANGED <<part, clusterVars, vars, requestVars, eventsVars, templateVars, quotaVars, factsVars,
                      alertVars, settingVars, scheduleVars>>
    \/ /\ part = "events" /\ EP!Next
       /\ UNCHANGED <<part, clusterVars, vars, requestVars, ruleVars, templateVars, quotaVars, factsVars,
                      alertVars, settingVars, scheduleVars>>
    \/ /\ part = "template" /\ TG!Next
       /\ UNCHANGED <<part, clusterVars, vars, requestVars, ruleVars, eventsVars, quotaVars, factsVars,
                      alertVars, settingVars, scheduleVars>>
    \/ /\ part = "quota" /\ TQ!Next
       /\ UNCHANGED <<part, clusterVars, vars, requestVars, ruleVars, eventsVars, templateVars, factsVars,
                      alertVars, settingVars, scheduleVars>>
    \/ /\ part = "facts" /\ FC!Next
       /\ UNCHANGED <<part, clusterVars, vars, requestVars, ruleVars, eventsVars, templateVars, quotaVars,
                      alertVars, settingVars, scheduleVars>>
    \/ /\ part = "alert" /\ DA!Next
       /\ UNCHANGED <<part, clusterVars, vars, requestVars, ruleVars, eventsVars, templateVars, quotaVars,
                      factsVars, settingVars, scheduleVars>>
    \/ /\ part = "setting" /\ SC!Next
       /\ UNCHANGED <<part, clusterVars, vars, requestVars, ruleVars, eventsVars, templateVars, quotaVars,
                      factsVars, alertVars, scheduleVars>>
    \/ /\ part = "schedule" /\ PS!Next
       /\ UNCHANGED <<part, clusterVars, vars, requestVars, ruleVars, eventsVars, templateVars, quotaVars,
                      factsVars, alertVars, settingVars>>
    \/ /\ part = "node" /\ EN!Next
       /\ UNCHANGED <<part, serviceVars, policyVars, workVars, relayVars, subVars, importVars, checkoutVars>>
    \/ /\ part = "policy" /\ CP!Next
       /\ UNCHANGED <<part, serviceVars, nodeVars, workVars, relayVars, subVars, importVars, checkoutVars>>
    \/ /\ part = "work" /\ RW!Next
       /\ UNCHANGED <<part, serviceVars, nodeVars, policyVars, relayVars, subVars, importVars, checkoutVars>>
    \/ /\ part = "relay" /\ RC!Next
       /\ UNCHANGED <<part, serviceVars, nodeVars, policyVars, workVars, subVars, importVars, checkoutVars>>
    \/ /\ part = "subscription" /\ RS!Next
       /\ UNCHANGED <<part, serviceVars, nodeVars, policyVars, workVars, relayVars, importVars, checkoutVars>>
    \/ /\ part = "import" /\ II!Next
       /\ UNCHANGED <<part, serviceVars, nodeVars, policyVars, workVars, relayVars, subVars, checkoutVars>>
    \/ /\ part = "project" /\ PC!Next
       /\ UNCHANGED <<part, serviceVars, nodeVars, policyVars, workVars, relayVars, subVars, importVars>>

(* What moves, the variables of the part, those with the most states first. *)
moving == CASE part = "project" -> checkoutVars [] part = "node" -> nodeVars [] part = "import" -> importVars
            [] part = "quota" -> quotaVars [] part = "facts" -> factsVars [] part = "events" -> eventsVars
            [] part = "template" -> templateVars [] part = "rule" -> ruleVars [] part = "relay" -> relayVars
            [] part = "policy" -> policyVars [] part = "subscription" -> subVars [] part = "schedule" -> scheduleVars
            [] part = "setting" -> settingVars [] part = "work" -> workVars [] part = "alert" -> alertVars
            [] part = "approval" -> vars [] part = "request" -> requestVars

Goes(p, step) == part = p /\ step /\ UNCHANGED part

(* What the processes of each part go on doing: workers and receivers work,  *)
(* jobs end, passes and recalculations come again and again, caches expire.  *)
(* A pass that finds an approval expired may leave it to the next one, but   *)
(* not for ever.  A behaviour stays in one part, so that the fairness of a   *)
(* disjunction over parts is the fairness of the disjunct of each.           *)
Fairness ==
    /\ WF_moving(\/ Goes("project", \E p \in ProjectJobs \union Updates : PC!Progress(p))
                 \/ Goes("node", EN!Heartbeats)
                 \/ Goes("quota", TQ!Recalculate)
                 \/ Goes("events", EP!Progress)
                 \/ Goes("relay", RC!Listen \/ RC!ListenerCleans)
                 \/ Goes("policy", CP!PolicyTask)
                 \/ Goes("subscription", RS!Relay)
                 \/ Goes("schedule", PS!RunPass)
                 \/ Goes("setting", SC!Expire)
                 \/ Goes("work", RW!Threads)
                 \/ Goes("approval", LoadExpired)
                 \/ Goes("request", SR!Progress))
    /\ WF_moving(Goes("node", EN!JobEnds) \/ Goes("quota", TQ!Answer) \/ Goes("relay", RC!MainLoop))
    /\ WF_moving(Goes("node", EN!Removal) \/ Goes("relay", RC!Restart))
    /\ \A h \in Hosts : WF_moving(Goes("relay", RC!Heartbeat(h))) /\ WF_moving(Goes("relay", RC!TaskEnds(h)))
    /\ \A h \in Hosts : SF_moving(Goes("approval", TimeOut) \/ Goes("relay", RC!Connect(h)))

allvars == <<part, serviceVars, clusterVars>>

ServicesSpec == ServicesInit /\ [][ServicesNext]_allvars /\ Fairness

-----------------------------------------------------------------------------

(* Each property is about its part only, the others stay as they began. *)

(* The type invariants of all parts. *)
ServicesTypeOK ==
    /\ part = "approval" => TypeOK
    /\ part = "request" => SR!TypeOK
    /\ part = "rule" => ER!TypeOK
    /\ part = "events" => EP!TypeOK
    /\ part = "template" => TG!TypeOK
    /\ part = "quota" => TQ!TypeOK
    /\ part = "facts" => FC!TypeOK
    /\ part = "alert" => DA!TypeOK
    /\ part = "setting" => SC!TypeOK
    /\ part = "schedule" => PS!TypeOK
    /\ part = "node" => EN!TypeOK
    /\ part = "policy" => CP!TypeOK
    /\ part = "work" => RW!TypeOK
    /\ part = "relay" => RC!TypeOK
    /\ part = "subscription" => RS!TypeOK
    /\ part = "import" => II!TypeOK
    /\ part = "project" => PC!TypeOK

(* Service catalog: a request is decided once, and mirrors the job it has launched. *)
RequestsDecidedOnce == part = "request" => SR!DecidedOnce /\ SR!MirrorsItsJob

(* Event rules and drift alerts: their actions keep the distance that throttle_seconds and cooldown_minutes ask *)
(* for, no trigger is lost from the count, and only an event that has matched before is refused.               *)
CooldownsHold ==
    /\ part = "rule" => ER!FiringsSpaced /\ ER!RefusedOnlyIfMatched
    /\ part = "alert" => DA!AlertsSpaced /\ DA!NoTriggerUncounted

(* Callback receiver: no event is saved twice, and the notifications of a job are sent once, by its worker or by *)
(* the receiver that processes the wrapup.                                                                       *)
EventsProcessedOnce ==
    part = "events" => EP!NotifiedOnce /\ EP!SomeoneNotifies /\ EP!EventInOnePlace /\ EP!FinishedMeansSaved

(* Workflow templates: has_cycle is exact about what the roots lead to, and one request at a time closes no *)
(* cycle that a root leads to.                                                                              *)
TemplatesAcyclic == part = "template" => TG!HasCycleIsExact /\ TG!Acyclic

(* Tenancy: the quota gate admits no more jobs than the limits allow. *)
WithinQuota == part = "quota" => TQ!WithinConcurrent /\ TQ!WithinDaily

(* What is kept a second time: facts are not overwritten by older ones, the latest snapshot shows them, and every  *)
(* change from one snapshot to the next is reported; after the task that follows the edit of a setting the cache    *)
(* holds no older value; the memberships of the instance groups are what their policies ask for; an import leaves   *)
(* in the inventory what its source lists, and what others have put there.                                          *)
CopiesAreCurrent ==
    /\ part = "facts" => FC!NeverOlder /\ FC!LatestIsCurrent /\ FC!ChangesAreDetected
    /\ part = "setting" => SC!ClearedIsFresh
    /\ part = "policy" => CP!PoliciesHold
    /\ part = "import" => II!NamesUnique /\ II!ImportedAsListed /\ II!IdsFollowed /\ II!OthersLeftAlone
    /\ part = "project" => PC!PlaysWhatIsRecorded /\ PC!PlaysWithItsRoles

(* The connections: a run of receptor heeds its signals and leaves no work unit behind, the relay of websockets is *)
(* not taken down by lost connections, and forwards what the browsers have subscribed to.                          *)
ConnectionsHold ==
    /\ part = "work" => RW!UnitReleased /\ RW!SignalHeeded
    /\ part = "relay" => RC!RelayStaysUp
    /\ part = "subscription" => RS!Subscribed

(* The tasks that every control node runs from time to time: the scheduler launches an occurrence once and passes    *)
(* none over silently; the heartbeat leaves no capacity to a node that is offline, nor brings back one that is to be *)
(* removed.                                                                                                          *)
PeriodicTasksHold ==
    /\ part = "schedule" => PS!LaunchedOnce /\ PS!RunOrLost
    /\ part = "node" => EN!OfflineHasNoCapacity /\ EN!RemovedForGood /\ EN!NoJobOnRemovedNode

(* Every part comes to rest again and again: expired approvals are decided, requests settle, events are *)
(* processed, the tenant's count comes down, stale settings leave the cache, due schedules are run, lost *)
(* nodes go offline, policies are applied, runs end after a signal, web hosts are connected, producers   *)
(* without subscribers end.                                                                              *)
Settled ==
    /\ part = "approval" => ExpiredIsDecided
    /\ part = "request" => SR!SettlesOrStuck
    /\ part = "events" => EP!Processed
    /\ part = "quota" => TQ!CountComesDown
    /\ part = "setting" => SC!StaleValuesLeave
    /\ part = "schedule" => PS!NotStuck
    /\ part = "node" => EN!NodeSettles
    /\ part = "policy" => CP!PolicyTasksEnd
    /\ part = "work" => RW!WorkSettles
    /\ part = "relay" => RC!Relayed
    /\ part = "subscription" => RS!NoIdleProducer
    /\ part = "project" => PC!TreeIsFree
ServicesSettle == []<>Settled
=============================================================================
