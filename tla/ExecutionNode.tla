---------------------------- MODULE ExecutionNode ----------------------------
(***************************************************************************)
(* The row of one execution node: the heartbeats of the control nodes read *)
(* it, take over what receptor's mesh says of the node, ask for health     *)
(* checks and mark it offline when it is lost; health checks read and save *)
(* it; a user takes it out of service; and a task removes it when its jobs *)
(* are over.  Each of them saves what it has made of the row it has read.  *)
(***************************************************************************)
EXTENDS Integers, FiniteSets

CONSTANTS
    Controllers,        \* control nodes: each has its heartbeat and its health checks
    Grace,              \* how old last_seen may be, in ticks
    MaxHour,            \* bound of the clock
    MaxStarts,          \* bound of the jobs that start on the node
    MaxLosses           \* bound of the losses of remove_deprovisioned_node

VARIABLES
    hour,
    instance,           \* the row: node_state or gone, has capacity, last_seen
    advertised,         \* the time of the node's last advertisement on the mesh
    heartbeat,          \* per controller: position, the row as it was read
    check,              \* per controller: the position of a health check, the row as it was read
    nodeJob,            \* the job on the node: none, waiting or running; the jobs that may still start
    tm,                 \* the task manager has read the node as ready
    removal,            \* position of remove_deprovisioned_node, how often it was lost
    stale               \* history: a save was made of a row that had changed since it was read; a job was
                        \* started on a node that was no longer ready

envars == <<hour, instance, advertised, heartbeat, check, nodeJob, tm, removal, stale>>

Unseen == -1
NewRow == [node_state |-> "installed", capacity |-> TRUE, last_seen |-> Unseen]
\* What a heartbeat or a health check remembers of the row.
Copy(r) == [node_state |-> r.node_state, capacity |-> r.capacity]
Quiet == [at |-> "idle", row |-> Copy(NewRow)]

Init ==
    /\ hour = 0
    /\ instance = NewRow
    /\ advertised = Unseen
    /\ heartbeat = [c \in Controllers |-> Quiet]
    /\ check = [c \in Controllers |-> Quiet]
    /\ nodeJob = [status |-> "none", left |-> MaxStarts]
    /\ tm = FALSE
    /\ removal = [at |-> "idle", losses |-> 0]
    /\ stale = [row |-> FALSE, start |-> FALSE]

-----------------------------------------------------------------------------
\* The clock matters as long as the row is there.
Hour ==
    /\ hour < MaxHour /\ instance.node_state # "gone"
    /\ hour' = hour + 1
    /\ UNCHANGED <<instance, advertised, heartbeat, check, nodeJob, tm, removal, stale>>

\* A node that is up tells the mesh so from time to time.
Advertise ==
    /\ advertised < hour /\ instance.node_state # "gone"
    /\ advertised' = hour
    /\ UNCHANGED <<hour, instance, heartbeat, check, nodeJob, tm, removal, stale>>

-----------------------------------------------------------------------------
\* What is done to a row

is_lost(r) == r.last_seen = Unseen \/ r.last_seen < hour - Grace

\* What a save of these fields makes of the row; one that is gone stays so.
Save(node_state, capacity, read) ==
    IF instance.node_state = "gone" THEN UNCHANGED <<instance, stale>>
    ELSE /\ instance' = [instance EXCEPT !.node_state = node_state, !.capacity = capacity]
         /\ stale' = [stale EXCEPT !.row = @ \/ Copy(instance) # read]

-----------------------------------------------------------------------------
\* cluster_node_heartbeat

\* The row is read, and what the mesh says is saved in it: an advertisement newer than last_seen, and a node that was
\* lost or is new gets a health check; one without capacity only now and then.  Then it is lost, or it is not.
BeginHeartbeat(c) ==
    /\ heartbeat[c].at = "idle"
    /\ instance.node_state \in {"installed", "ready", "unavailable"}
    /\ LET seen == advertised > instance.last_seen
           row == IF seen THEN [instance EXCEPT !.last_seen = advertised] ELSE instance
       IN  /\ instance' = row
           /\ heartbeat' = [heartbeat EXCEPT ![c] = IF is_lost(row) THEN [at |-> "reap", row |-> Copy(row)] ELSE Quiet]
           /\ \E again \in BOOLEAN :
                LET wanted == seen /\ (row.node_state # "ready" \/ (~row.capacity /\ again))
                IN  check' = IF wanted /\ check[c].at = "idle" THEN [check EXCEPT ![c].at = "queued"] ELSE check
    /\ UNCHANGED <<hour, advertised, nodeJob, tm, removal, stale>>

\* reaper.reap fails what runs on a lost node.
Reap(c) ==
    /\ heartbeat[c].at = "reap"
    /\ nodeJob' = [nodeJob EXCEPT !.status = IF @ = "running" THEN "none" ELSE @]
    /\ heartbeat' = [heartbeat EXCEPT ![c].at = "offline"]
    /\ UNCHANGED <<hour, instance, advertised, check, tm, removal, stale>>

\* mark_offline of a lost node that was ready.
MarkOffline(c) ==
    /\ heartbeat[c].at = "offline"
    /\ heartbeat' = [heartbeat EXCEPT ![c] = Quiet]
    /\ IF heartbeat[c].row.node_state = "ready"
       THEN Save("unavailable", FALSE, heartbeat[c].row)
       ELSE UNCHANGED <<instance, stale>>
    /\ UNCHANGED <<hour, advertised, check, nodeJob, tm, removal>>

-----------------------------------------------------------------------------
\* execution_node_health_check

\* A user asks for one.
RequestCheck(c) ==
    /\ check[c].at = "idle" /\ instance.node_state # "gone"
    /\ check' = [check EXCEPT ![c].at = "queued"]
    /\ UNCHANGED <<hour, instance, advertised, heartbeat, nodeJob, tm, removal, stale>>

\* Only a node that is not being removed is checked.
BeginCheck(c) ==
    /\ check[c].at = "queued"
    /\ check' = [check EXCEPT ![c] = IF instance.node_state \in {"installed", "ready", "unavailable"}
                                     THEN [at |-> "checking", row |-> Copy(instance)] ELSE Quiet]
    /\ UNCHANGED <<hour, instance, advertised, heartbeat, nodeJob, tm, removal, stale>>

\* worker_info has answered, and save_health_data writes the capacity.  Without errors a node that was offline becomes
\* ready; with errors it goes offline, which is written unless it was offline with the same errors before.
EndCheck(c) ==
    /\ check[c].at = "checking"
    /\ LET row == check[c].row
       IN  \/ Save(IF row.node_state = "ready" THEN instance.node_state ELSE "ready", TRUE, row)
           \/ Save("unavailable", FALSE, row)
           \/ /\ row.node_state = "unavailable"
              /\ Save(instance.node_state, row.capacity, row)
    /\ check' = [check EXCEPT ![c] = Quiet]
    /\ UNCHANGED <<hour, advertised, heartbeat, nodeJob, tm, removal>>

-----------------------------------------------------------------------------
\* Jobs, and the end of the node

TMRead ==
    /\ ~tm /\ instance.node_state = "ready" /\ instance.capacity
    /\ tm' = TRUE
    /\ UNCHANGED <<hour, instance, advertised, heartbeat, check, nodeJob, removal, stale>>

\* The pass starts a job on the node.
TMStart ==
    /\ tm /\ nodeJob.status = "none" /\ nodeJob.left > 0
    /\ nodeJob' = [status |-> "waiting", left |-> nodeJob.left - 1]
    /\ tm' = FALSE
    /\ stale' = [stale EXCEPT !.start = @ \/ instance.node_state # "ready"]
    /\ UNCHANGED <<hour, instance, advertised, heartbeat, check, removal>>

TMLeave ==
    /\ tm /\ tm' = FALSE
    /\ UNCHANGED <<hour, instance, advertised, heartbeat, check, nodeJob, removal, stale>>

JobRuns ==
    /\ nodeJob.status = "waiting"
    /\ nodeJob' = [nodeJob EXCEPT !.status = "running"]
    /\ UNCHANGED <<hour, instance, advertised, heartbeat, check, tm, removal, stale>>

JobEnds ==
    /\ nodeJob.status # "none"
    /\ nodeJob' = [nodeJob EXCEPT !.status = "none"]
    /\ UNCHANGED <<hour, instance, advertised, heartbeat, check, tm, removal, stale>>

\* A user sets the state deprovisioning, which sends remove_deprovisioned_node; once more if that was lost.
Deprovision ==
    /\ instance.node_state # "gone" /\ removal.at \in {"idle", "lost"}
    /\ instance' = [instance EXCEPT !.node_state = "deprovisioning"]
    /\ removal' = [removal EXCEPT !.at = "waiting"]
    /\ UNCHANGED <<hour, advertised, heartbeat, check, nodeJob, tm, stale>>

\* No job waits or runs on the node any more ...
JobsAreOver ==
    /\ removal.at = "waiting" /\ nodeJob.status = "none"
    /\ removal' = [removal EXCEPT !.at = "delete"]
    /\ UNCHANGED <<hour, instance, advertised, heartbeat, check, nodeJob, tm, stale>>

\* ... and its row is deleted.
Remove ==
    /\ removal.at = "delete"
    /\ instance' = [instance EXCEPT !.node_state = "gone"]
    /\ removal' = [removal EXCEPT !.at = "done"]
    /\ UNCHANGED <<hour, advertised, heartbeat, check, nodeJob, tm, stale>>

\* The dispatcher that waits for the jobs is restarted; nobody takes the task up.
LoseRemoval ==
    /\ removal.at \in {"waiting", "delete"} /\ removal.losses < MaxLosses
    /\ removal' = [at |-> "lost", losses |-> removal.losses + 1]
    /\ UNCHANGED <<hour, instance, advertised, heartbeat, check, nodeJob, tm, stale>>

Heartbeats == \E c \in Controllers : BeginHeartbeat(c) \/ Reap(c) \/ MarkOffline(c)
Removal == JobsAreOver \/ Remove

Next ==
    \/ Hour \/ Advertise
    \/ Heartbeats
    \/ \E c \in Controllers : RequestCheck(c) \/ BeginCheck(c) \/ EndCheck(c)
    \/ TMRead \/ TMStart \/ TMLeave \/ JobRuns \/ JobEnds
    \/ Deprovision \/ LoseRemoval
    \/ Removal

Spec == Init /\ [][Next]_envars

-----------------------------------------------------------------------------

States == {"installed", "ready", "unavailable", "deprovisioning", "gone"}
CopyType == [node_state : States, capacity : BOOLEAN]

TypeOK ==
    /\ hour \in 0 .. MaxHour
    /\ instance \in [node_state : States, capacity : BOOLEAN, last_seen : {Unseen} \union 0 .. hour]
    /\ advertised \in {Unseen} \union 0 .. hour
    /\ heartbeat \in [Controllers -> [at : {"idle", "reap", "offline"}, row : CopyType]]
    /\ check \in [Controllers -> [at : {"idle", "queued", "checking"}, row : CopyType]]
    /\ nodeJob \in [status : {"none", "waiting", "running"}, left : 0 .. MaxStarts]
    /\ tm \in BOOLEAN
    /\ removal \in [at : {"idle", "waiting", "delete", "done", "lost"}, losses : 0 .. MaxLosses]
    /\ stale \in [row : BOOLEAN, start : BOOLEAN]

\* A node that is offline offers no capacity, whatever heartbeats and health checks made of it, unless one of them
\* saved what it had made of an older row.
OfflineHasNoCapacity == ~stale.row /\ instance.node_state = "unavailable" => ~instance.capacity

\* A node that is to be removed does not come back, unless a health check or a heartbeat was at work on it when the
\* user took it out of service.
RemovedForGood ==
    ~stale.row /\ removal.at # "idle" => instance.node_state \in {"deprovisioning", "gone"}

\* No job is left on a node that has been removed, unless a pass that had seen it ready started the job late, or the
\* node had come back.
NoJobOnRemovedNode ==
    instance.node_state = "gone" /\ stale = [row |-> FALSE, start |-> FALSE] => nodeJob.status = "none"

\* A node that nobody sees is not ready for ever, and one that is to be removed is removed.
NodeSettles ==
    /\ instance.node_state = "ready" => ~is_lost(instance)
    /\ removal.at \notin {"waiting", "delete"}
=============================================================================
