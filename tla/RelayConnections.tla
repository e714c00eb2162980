--------------------------- MODULE RelayConnections ---------------------------
(***************************************************************************)
(* The websocket relay of one node: one event loop in which the listener   *)
(* takes over the heartbeats of the web hosts, and the main loop connects  *)
(* to the hosts that are known and cleans up the connections that have     *)
(* ended or that lead to an old address.  Both clean up, and both wait in  *)
(* the middle of it.  An exception of the main loop ends the process; the  *)
(* supervisor starts it again.                                             *)
(***************************************************************************)
EXTENDS Naturals, Sequences, FiniteSets

CONSTANTS
    Hosts, Addresses,
    Absent,             \* no address, no connection; not in Addresses
    MaxChanges,         \* bound of the starts, stops and moves of the hosts
    MaxBreaks           \* bound of the losses of connections and of the listener

VARIABLES
    web,                \* where the web host is, if it is up
    notes,              \* the notifications on their way
    relay,              \* the process, and whether its listener is at work
    known_hosts,        \* host to address
    relay_connections,  \* host to its connection: address, state of its task
    listener,           \* the host whose cleanup the listener waits for
    loop,               \* the main loop: the hosts to clean up with their positions, the hosts to add
    changes, breaks,
    crash               \* history: why the main loop has raised; whether hosts have moved or said goodbye; where they were

relayvars == <<web, notes, relay, known_hosts, relay_connections, listener, loop, changes, breaks, crash>>

NoCleanup == "nobody"
Awake == [cleaning |-> <<>>, new |-> {}, at |-> "asleep"]
NoConnections == [h \in Hosts |-> Absent]

Init ==
    /\ web = [h \in Hosts |-> Absent]
    /\ notes = <<>>
    /\ relay = "up"
    /\ known_hosts = [h \in Hosts |-> Absent] /\ relay_connections = NoConnections
    /\ listener = NoCleanup /\ loop = Awake
    /\ changes = 0 /\ breaks = 0
    /\ crash = [reasons |-> {}, moved |-> FALSE, home |-> web]

\* Notifications reach only a listener that is there.
Notify(h, action) == notes' = IF relay = "up" THEN Append(notes, [host |-> h, action |-> action, ip |-> web[h]]) ELSE notes

-----------------------------------------------------------------------------
(* The web hosts *)

\* One starts, or gets another address, without a word.
Move(h, a) ==
    /\ changes < MaxChanges /\ web[h] # a
    /\ changes' = changes + 1
    /\ web' = [web EXCEPT ![h] = a]
    /\ crash' = [crash EXCEPT !.moved = @ \/ crash.home[h] \notin {Absent, a}, !.home[h] = a]
    /\ UNCHANGED <<notes, relay, known_hosts, relay_connections, listener, loop, breaks>>

\* One stops; its heartbeat process says goodbye unless it is killed.
Stop(h) ==
    /\ changes < MaxChanges /\ web[h] # Absent
    /\ changes' = changes + 1
    /\ web' = [web EXCEPT ![h] = Absent]
    /\ \/ Notify(h, "offline") /\ crash' = [crash EXCEPT !.moved = TRUE]
       \/ UNCHANGED <<notes, crash>>
    /\ UNCHANGED <<relay, known_hosts, relay_connections, listener, loop, breaks>>

\* do_heartbeat_loop; one heartbeat of a host is on its way at a time.
Heartbeat(h) ==
    /\ web[h] # Absent /\ relay = "up"
    /\ ~\E i \in 1 .. Len(notes) : notes[i].host = h
    /\ Notify(h, "online")
    /\ UNCHANGED <<web, relay, known_hosts, relay_connections, listener, loop, changes, breaks, crash>>

-----------------------------------------------------------------------------
(* The connections: the task of each *)

Connection(h) == relay_connections[h] # Absent
State(h, state) == relay_connections' = [relay_connections EXCEPT ![h].state = state]

Connect(h) ==
    /\ Connection(h) /\ relay_connections[h].state = "connecting"
    /\ web[h] = relay_connections[h].remote_host
    /\ State(h, "connected")
    /\ UNCHANGED <<web, notes, relay, known_hosts, listener, loop, changes, breaks, crash>>

\* Nobody is there, or no longer, or the task was canceled.
TaskEnds(h) ==
    /\ Connection(h)
    /\ \/ relay_connections[h].state = "canceled"
       \/ relay_connections[h].state # "ended" /\ web[h] # relay_connections[h].remote_host
    /\ State(h, "ended")
    /\ UNCHANGED <<web, notes, relay, known_hosts, listener, loop, changes, breaks, crash>>

Break(h) ==
    /\ breaks < MaxBreaks
    /\ Connection(h) /\ relay_connections[h].state \in {"connecting", "connected"}
    /\ breaks' = breaks + 1
    /\ State(h, "ended")
    /\ UNCHANGED <<web, notes, relay, known_hosts, listener, loop, changes, crash>>

-----------------------------------------------------------------------------
(* cleanup_offline_host, up to its await and after it *)

Cancel(hosts) ==
    relay_connections' = [h \in Hosts |->
        IF h \in hosts /\ Connection(h) /\ relay_connections[h].state # "ended"
        THEN [relay_connections[h] EXCEPT !.state = "canceled"] ELSE relay_connections[h]]
Forget(hosts) == known_hosts' = [h \in Hosts |-> IF h \in hosts THEN Absent ELSE known_hosts[h]]

\* The task has ended; so has one that somebody else has removed.
TaskEnded(h) == Connection(h) => relay_connections[h].state = "ended"
Remove(h) ==
    /\ relay_connections' = [relay_connections EXCEPT ![h] = Absent]
    /\ Forget({h})

-----------------------------------------------------------------------------
(* The listener *)

Listen ==
    /\ relay = "up" /\ listener = NoCleanup /\ notes # <<>>
    /\ LET note == Head(notes)
           h == note.host
       IN  /\ notes' = Tail(notes)
           /\ \/ /\ note.action = "online"
                 /\ known_hosts' = [known_hosts EXCEPT ![h] = note.ip]
                 /\ UNCHANGED <<relay_connections, listener>>
              \/ /\ note.action = "offline" /\ Connection(h)
                 /\ Cancel({h})
                 /\ listener' = h
                 /\ UNCHANGED known_hosts
              \/ /\ note.action = "offline" /\ ~Connection(h)
                 /\ Forget({h})
                 /\ UNCHANGED <<relay_connections, listener>>
    /\ UNCHANGED <<web, relay, loop, changes, breaks, crash>>

\* A connection that the main loop has removed in the meantime is a KeyError, which is logged.
ListenerCleans ==
    /\ listener # NoCleanup /\ TaskEnded(listener)
    /\ IF Connection(listener) THEN Remove(listener) ELSE UNCHANGED <<known_hosts, relay_connections>>
    /\ listener' = NoCleanup
    /\ UNCHANGED <<web, notes, relay, loop, changes, breaks, crash>>

\* Its database connection is lost.
ListenerEnds ==
    /\ relay = "up" /\ breaks < MaxBreaks
    /\ breaks' = breaks + 1
    /\ relay' = "deaf" /\ notes' = <<>> /\ listener' = NoCleanup
    /\ UNCHANGED <<web, known_hosts, relay_connections, loop, changes, crash>>

-----------------------------------------------------------------------------
(* The main loop *)

\* An exception ends the process, with all tasks.
Crash(reason) ==
    /\ crash' = [crash EXCEPT !.reasons = @ \union {reason}]
    /\ relay' = "down" /\ notes' = <<>>
    /\ known_hosts' = [h \in Hosts |-> Absent] /\ relay_connections' = NoConnections
    /\ listener' = NoCleanup /\ loop' = Awake

Known(h) == known_hosts[h] # Absent
Moved(h) == Known(h) /\ Connection(h) /\ known_hosts[h] # relay_connections[h].remote_host
RetryNew == {h \in Hosts : Known(h) /\ (~Connection(h) \/ relay_connections[h].state # "connected" \/ Moved(h))}

\* Hosts to add, then hosts to clean up.
New == {h \in Hosts : Known(h) /\ (~Connection(h) \/ Moved(h))}
Deleted == {h \in Hosts : Connection(h) /\ (~Known(h) \/ Moved(h) \/ relay_connections[h].state # "connected")}

\* One turn up to the gather, whose tasks then begin.
Wake ==
    /\ relay = "up" /\ loop.at = "asleep"
    /\ loop' = [at |-> "cleaning", new |-> New, cleaning |-> [h \in Deleted |-> "begin"]]
    /\ UNCHANGED <<web, notes, relay, known_hosts, relay_connections, listener, changes, breaks, crash>>

WakeDeaf ==
    /\ relay = "deaf" /\ loop.at = "asleep"
    /\ Crash("listener")
    /\ UNCHANGED <<web, changes, breaks>>

At(h, position) == h \in DOMAIN loop.cleaning /\ loop.cleaning[h] = position
Goto(h, position) == loop' = [loop EXCEPT !.cleaning[h] = position]

LoopCancels(h) ==
    /\ relay # "down" /\ At(h, "begin")
    /\ IF Connection(h)
       THEN Cancel({h}) /\ Goto(h, "await") /\ UNCHANGED known_hosts
       ELSE Forget({h}) /\ Goto(h, "done") /\ UNCHANGED relay_connections
    /\ UNCHANGED <<web, notes, relay, listener, changes, breaks, crash>>

LoopCleans(h) ==
    /\ relay # "down" /\ At(h, "await") /\ TaskEnded(h)
    /\ IF Connection(h)
       THEN Remove(h) /\ Goto(h, "done") /\ UNCHANGED <<notes, relay, listener, crash>>
       ELSE Crash("cleaned twice")
    /\ UNCHANGED <<web, changes, breaks>>

\* After the gather: the new connections start.  The address of a host that was forgotten by then is a KeyError.
Add ==
    /\ relay # "down" /\ loop.at = "cleaning"
    /\ \A h \in DOMAIN loop.cleaning : loop.cleaning[h] = "done"
    /\ IF \A h \in loop.new : Known(h)
       THEN /\ relay_connections' = [h \in Hosts |->
                 IF h \in loop.new THEN [remote_host |-> known_hosts[h], state |-> "connecting"] ELSE relay_connections[h]]
            /\ loop' = Awake
            /\ UNCHANGED <<notes, relay, known_hosts, listener, crash>>
       ELSE Crash("forgotten")
    /\ UNCHANGED <<web, changes, breaks>>

\* The supervisor.
Restart ==
    /\ relay = "down"
    /\ relay' = "up"
    /\ UNCHANGED <<web, notes, known_hosts, relay_connections, listener, loop, changes, breaks, crash>>

MainLoop == Wake \/ WakeDeaf \/ Add \/ \E h \in Hosts : LoopCancels(h) \/ LoopCleans(h)

Next ==
    \/ \E h \in Hosts, a \in Addresses : Move(h, a)
    \/ \E h \in Hosts : Stop(h) \/ Heartbeat(h) \/ Connect(h) \/ TaskEnds(h) \/ Break(h)
    \/ Listen \/ ListenerCleans \/ ListenerEnds
    \/ MainLoop \/ Restart

\* A connection is made or fails within ten seconds, the time that the main loop sleeps.
RelayFairness ==
    /\ WF_relayvars(Listen \/ ListenerCleans) /\ WF_relayvars(MainLoop) /\ WF_relayvars(Restart)
    /\ \A h \in Hosts : WF_relayvars(Heartbeat(h)) /\ SF_relayvars(Connect(h)) /\ WF_relayvars(TaskEnds(h))

Spec == Init /\ [][Next]_relayvars /\ RelayFairness

-----------------------------------------------------------------------------

AddressOrAbsent == Addresses \union {Absent}

TypeOK ==
    /\ web \in [Hosts -> AddressOrAbsent]
    /\ \A i \in 1 .. Len(notes) : notes[i] \in [host : Hosts, action : {"online", "offline"}, ip : AddressOrAbsent]
    /\ relay \in {"up", "deaf", "down"}
    /\ known_hosts \in [Hosts -> AddressOrAbsent]
    /\ relay_connections \in [Hosts -> {Absent} \union
            [remote_host : Addresses, state : {"connecting", "connected", "canceled", "ended"}]]
    /\ listener \in Hosts \union {NoCleanup}
    /\ loop.at \in {"asleep", "cleaning"} /\ loop.new \subseteq Hosts
    /\ DOMAIN loop.cleaning \subseteq Hosts
    /\ \A h \in DOMAIN loop.cleaning : loop.cleaning[h] \in {"begin", "await", "done"}
    /\ changes \in 0 .. MaxChanges /\ breaks \in 0 .. MaxBreaks
    /\ crash \in [reasons : SUBSET {"listener", "cleaned twice", "forgotten"}, moved : BOOLEAN, home : [Hosts -> AddressOrAbsent]]

\* Lost connections do not take the relay down: the main loop raises an exception of its own only after a host has
\* moved or said goodbye.
RelayStaysUp == ~crash.moved => crash.reasons \subseteq {"listener"}

\* Every host that stays is connected, at its address, and one that is gone is forgotten.
Relayed ==
    \A h \in Hosts :
        IF web[h] = Absent THEN ~Known(h) /\ ~Connection(h)
        ELSE Connection(h) /\ relay_connections[h] = [remote_host |-> web[h], state |-> "connected"]
=============================================================================
