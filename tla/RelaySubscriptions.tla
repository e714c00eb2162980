-------------------------- MODULE RelaySubscriptions --------------------------
(***************************************************************************)
(* One group of messages between browsers at a web host and the producer   *)
(* of the relay that forwards it: the subscriptions of the browsers go to  *)
(* the relay over its websocket connection, which may be lost and made     *)
(* again, and a producer without subscribers ends.                         *)
(***************************************************************************)
EXTENDS Naturals, Sequences

CONSTANTS
    Browsers,
    MaxMessages,        \* bound of the messages on their way to the relay
    MaxBrowserRequests, \* bound of the requests of the browsers
    MaxHitches          \* bound of the lost connections and the failures of redis

VARIABLES
    groups,             \* browser: whether it has the group in its session
    connection,         \* lost, accepted by the web host, or joined to its broadcast group
    messages,           \* subscriptions and unsubscriptions on their way
    producer,           \* the entry in producers: position of its task, subscriptions
    requests, hitches,
    missed              \* history: browsers whose last subscription the relay has not got, or has given up

subvars == <<groups, connection, messages, producer, requests, hitches, missed>>

NoProducer == [at |-> "none", subscriptions |-> {}]

Init ==
    /\ groups = [b \in Browsers |-> FALSE]
    /\ connection = "lost" /\ messages = <<>>
    /\ producer = NoProducer
    /\ requests = 0 /\ hitches = 0
    /\ missed = {}

-----------------------------------------------------------------------------
(* The browsers *)

\* A message to the broadcast group of the web host reaches the relay that has joined it.
Broadcast(type, b) ==
    IF connection = "joined" THEN messages' = Append(messages, [type |-> type, origin_channel |-> b]) ELSE UNCHANGED messages

Request == requests < MaxBrowserRequests /\ Len(messages) < MaxMessages /\ requests' = requests + 1

\* receive_json with the group: subscribes, also when the browser had subscribed before.
Subscribe(b) ==
    /\ Request
    /\ groups' = [groups EXCEPT ![b] = TRUE]
    /\ Broadcast("subscribe", b)
    /\ missed' = IF connection = "joined" THEN missed \ {b} ELSE missed \union {b}
    /\ UNCHANGED <<connection, producer, hitches>>

\* receive_json without it, or disconnect.
Unsubscribe(b) ==
    /\ Request
    /\ groups[b]
    /\ groups' = [groups EXCEPT ![b] = FALSE]
    /\ Broadcast("unsubscribe", b)
    /\ missed' = missed \ {b}
    /\ UNCHANGED <<connection, producer, hitches>>

-----------------------------------------------------------------------------
(* The connection.  Nobody subscribes again for the browsers that are there. *)

Accept ==
    /\ connection = "lost"
    /\ connection' = "accepted"
    /\ UNCHANGED <<groups, messages, producer, requests, hitches, missed>>

Join ==
    /\ connection = "accepted"
    /\ connection' = "joined"
    /\ UNCHANGED <<groups, messages, producer, requests, hitches, missed>>

Hitch == hitches < MaxHitches /\ hitches' = hitches + 1

\* A new connection begins without producers.
Lose ==
    /\ connection # "lost" /\ Hitch
    /\ connection' = "lost" /\ messages' = <<>>
    /\ producer' = NoProducer
    /\ missed' = {b \in Browsers : groups[b]}
    /\ UNCHANGED <<groups, requests>>

-----------------------------------------------------------------------------
(* The relay: run_connection and run_producer *)

\* A new producer, or one more subscription of the one that is listed, even when that one is about to end, or has ended
\* without being taken off the list.
OnSubscribe(b) ==
    /\ producer' = IF producer.at = "none" THEN [at |-> "starting", subscriptions |-> {b}]
                   ELSE [producer EXCEPT !.subscriptions = @ \union {b}]
    /\ missed' = IF producer.at = "dead" /\ groups[b] THEN missed \union {b} ELSE missed

\* Without a producer, or a subscription of this browser, it is a KeyError, which is logged.
ForgetfulUnsubscribe(b) == UNCHANGED <<producer, missed>>
OnUnsubscribe(b) ==
    /\ producer' = [producer EXCEPT !.subscriptions = @ \ {b}]
    /\ UNCHANGED missed

Receive ==
    /\ messages # <<>>
    /\ LET m == Head(messages)
       IN  IF m.type = "subscribe" THEN OnSubscribe(m.origin_channel) ELSE OnUnsubscribe(m.origin_channel)
    /\ messages' = Tail(messages)
    /\ UNCHANGED <<groups, connection, requests, hitches>>

\* The producer has joined the group.
Produce ==
    /\ producer.at = "starting"
    /\ producer' = [producer EXCEPT !.at = "receiving"]
    /\ UNCHANGED <<groups, connection, messages, requests, hitches, missed>>

\* Ten seconds without a message in the group, which is not busy for ever, and without subscribers.
Idle ==
    /\ producer.at = "receiving" /\ producer.subscriptions = {}
    /\ producer' = [producer EXCEPT !.at = "leaving"]
    /\ UNCHANGED <<groups, connection, messages, requests, hitches, missed>>

\* redis fails: the producer gives up; before it has a channel, it fails also to take itself off the list.
RedisFails ==
    /\ Hitch
    /\ \/ producer.at \in {"starting", "receiving"} /\ producer' = [producer EXCEPT !.at = "leaving"]
       \/ producer.at = "starting" /\ producer' = [producer EXCEPT !.at = "dead"]
    /\ missed' = missed \union {b \in producer.subscriptions : groups[b]}
    /\ UNCHANGED <<groups, connection, messages, requests>>

\* group_discard, then the producer is taken off the list with the subscriptions it has got meanwhile; when redis
\* fails, it stays on it.
Leave ==
    /\ producer.at = "leaving"
    /\ \/ producer' = NoProducer /\ UNCHANGED hitches
       \/ Hitch /\ producer' = [producer EXCEPT !.at = "dead"]
    /\ missed' = missed \union {b \in producer.subscriptions : groups[b]}
    /\ UNCHANGED <<groups, connection, messages, requests>>

Relay == Receive \/ Produce \/ Idle \/ Leave

Next ==
    \/ \E b \in Browsers : Subscribe(b) \/ Unsubscribe(b)
    \/ Accept \/ Join \/ Lose
    \/ Relay \/ RedisFails

Spec == Init /\ [][Next]_subvars /\ WF_subvars(Relay)

-----------------------------------------------------------------------------

TypeOK ==
    /\ groups \in [Browsers -> BOOLEAN]
    /\ connection \in {"lost", "accepted", "joined"}
    /\ Len(messages) \in 0 .. MaxMessages
    /\ \A i \in 1 .. Len(messages) :
          messages[i] \in [type : {"subscribe", "unsubscribe"}, origin_channel : Browsers]
    /\ producer \in [at : {"none", "starting", "receiving", "leaving", "dead"}, subscriptions : SUBSET Browsers]
    /\ requests \in 0 .. MaxBrowserRequests /\ hitches \in 0 .. MaxHitches
    /\ missed \subseteq Browsers

\* When everything has arrived, the producer serves the browsers that want the group, but for those whose subscription
\* was lost with the connection, or by a producer that was ending or had lost redis; and it serves no others.
Settled == connection = "joined" /\ messages = <<>> /\ producer.at # "leaving"
Wanted == {b \in Browsers : groups[b]}
Subscribed ==
    Settled => /\ producer.subscriptions \subseteq Wanted
               /\ Wanted \ missed \subseteq producer.subscriptions
               /\ Wanted \ missed # {} => producer.at \in {"starting", "receiving"}

\* A producer that nobody wants ends, unless redis took it down half-way.
NoIdleProducer == producer.at = "dead" \/ (messages = <<>> => Wanted # {} \/ producer.at = "none")
=============================================================================
