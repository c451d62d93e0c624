----------------------------- MODULE MqttBroker -----------------------------
(***************************************************************************)
(* The MQTT broker and the connection the bridge holds to it, as           *)
(* bridge/src/broker.js relies on them.  Neither the broker (aedes or a    *)
(* foreign one) nor mqtt.js is under src/: everything here is external and *)
(* says only what the bridge's code assumes of them.                       *)
(*                                                                         *)
(* All publishes are QoS 0: the two directions of the connection are FIFO, *)
(* and whatever is in flight when the connection drops is lost.            *)
(***************************************************************************)
EXTENDS Naturals, Sequences

CONSTANTS
  Topic,         \* topic names
  Value,         \* non-empty payloads
  Empty,         \* the zero-length payload
  None,          \* no message: neither a value nor the empty payload
  RetainFlags,   \* retain flags foreign publishers use, a subset of BOOLEAN
  PartialGrants, \* topics a broker refusing the subscription may still cover
  MaxInFlight    \* bound: packets in flight in each direction

Payload == Value \cup {Empty}

ASSUME BrokerAssumption ==
  /\ Empty \notin Value
  /\ None \notin Payload
  /\ RetainFlags \subseteq BOOLEAN
  /\ PartialGrants \subseteq SUBSET Topic
  /\ MaxInFlight \in Nat \ {0}

Message == [type : {"message"}, topic : Topic, payload : Payload, retain : BOOLEAN]
Suback  == [type : {"suback"}, granted : BOOLEAN]
Publish == [type : {"publish"}, topic : Topic, payload : Payload]
Subscribe == [type : {"subscribe"}]

VARIABLES
  link,      \* "up" from CONNACK until the connection is lost
  retained,  \* the broker's retained message per topic, Empty when there is none
  granted,   \* topics the bridge's subscription covers on this connection
  replay,    \* topics whose retained message is still to be replayed to it
  ackDue,    \* the SUBACK still to be sent: "no", "granted" or "refused"
  toBroker,  \* packets the bridge wrote, not yet read by the broker
  toBridge,  \* packets the broker wrote, not yet read by the bridge
  latest     \* history: the last payload sent per topic to this subscription

brokerVars == <<link, retained, granted, replay, ackDue, toBroker, toBridge, latest>>

BrokerTypeOK ==
  /\ link \in {"down", "up"}
  /\ retained \in [Topic -> Payload]
  /\ granted \in SUBSET Topic
  /\ replay \in SUBSET Topic
  /\ ackDue \in {"no", "granted", "refused"}
  /\ toBroker \in Seq(Publish \cup Subscribe)
  /\ toBridge \in Seq(Message \cup Suback)
  /\ latest \in [Topic -> Payload]

BrokerInit ==
  /\ link = "down"
  /\ retained \in [Topic -> Payload]
  /\ granted = {}
  /\ replay = {}
  /\ ackDue = "no"
  /\ toBroker = <<>>
  /\ toBridge = <<>>
  /\ latest = [t \in Topic |-> Empty]

HasRoom == Len(toBridge) < MaxInFlight

\* A message reaches the bridge only while its subscription covers the topic.
Send(t, p, flag) ==
  /\ toBridge' = Append(toBridge, [type |-> "message", topic |-> t, payload |-> p, retain |-> flag])
  /\ latest' = [latest EXCEPT ![t] = p]

\* A publish arriving at the broker: stored when retained, forwarded with the
\* retain flag cleared.  A zero-length retained publish deletes.
Accept(t, p, flag) ==
  /\ retained' = IF flag THEN [retained EXCEPT ![t] = p] ELSE retained
  /\ replay' = IF flag /\ p = Empty THEN replay \ {t} ELSE replay
  /\ IF t \in granted
     THEN HasRoom /\ Send(t, p, FALSE)
     ELSE UNCHANGED <<toBridge, latest>>

\* The retained messages the broker owes a subscription it has just made.
Covers(topics) ==
  /\ granted' = topics
  /\ replay' = {t \in topics : retained[t] # Empty}
  /\ latest' = [t \in Topic |-> IF t \in topics THEN retained[t] ELSE Empty]

BrokerSubscribes ==
  /\ toBroker # <<>> /\ Head(toBroker).type = "subscribe"
  /\ toBroker' = Tail(toBroker)
  /\ \/ Covers(Topic) /\ ackDue' = "granted"
     \/ \E topics \in PartialGrants : Covers(topics) /\ ackDue' = "refused"
  /\ UNCHANGED <<link, retained, toBridge>>

\* MQTT 3.1.1 orders the SUBACK neither before nor after the retained replay.
BrokerAcks ==
  /\ ackDue # "no" /\ HasRoom
  /\ toBridge' = Append(toBridge, [type |-> "suback", granted |-> (ackDue = "granted")])
  /\ ackDue' = "no"
  /\ UNCHANGED <<link, retained, granted, replay, toBroker, latest>>

BrokerReplays(t) ==
  /\ t \in replay /\ HasRoom
  /\ Send(t, retained[t], TRUE)
  /\ replay' = replay \ {t}
  /\ UNCHANGED <<link, retained, granted, ackDue, toBroker>>

\* The bridge's own publish, always retained.
BrokerTakes ==
  /\ toBroker # <<>> /\ Head(toBroker).type = "publish"
  /\ toBroker' = Tail(toBroker)
  /\ Accept(Head(toBroker).topic, Head(toBroker).payload, TRUE)
  /\ UNCHANGED <<link, granted, ackDue>>

\* Any other client of the broker.
ForeignPublish(t, p, flag) ==
  /\ Accept(t, p, flag)
  /\ UNCHANGED <<link, granted, ackDue, toBroker>>

BrokerNext ==
  \/ BrokerSubscribes
  \/ BrokerAcks
  \/ \E t \in Topic : BrokerReplays(t)
  \/ BrokerTakes
  \/ \E t \in Topic, p \in Payload, flag \in RetainFlags : ForeignPublish(t, p, flag)

\* What is lost with the connection.
Disconnected ==
  /\ link' = "down"
  /\ granted' = {}
  /\ replay' = {}
  /\ ackDue' = "no"
  /\ toBroker' = <<>>
  /\ toBridge' = <<>>
  /\ latest' = [t \in Topic |-> Empty]
  /\ UNCHANGED retained

=============================================================================
