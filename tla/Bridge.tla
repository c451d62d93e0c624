------------------------------- MODULE Bridge -------------------------------
(***************************************************************************)
(* The MQTT/HTTP bridge of bridge/src: the connection handlers and the     *)
(* echo waiters of broker.js, the cache of cache.js, and the POST and      *)
(* /events handlers of server.js with the streams of sse.js.               *)
(*                                                                         *)
(* Node runs one callback at a time, so each event handler is one action.  *)
(* The steps of the POST handler that an await separates are actions of    *)
(* their own, and the connection may change between them.                  *)
(***************************************************************************)
EXTENDS MqttBroker, FiniteSets

CONSTANTS
  Request,     \* HTTP requests
  Stream,      \* /events clients
  Filter,      \* what a stream may ask for: a set of topics its filters match
  MaxStreams,  \* MAX_SSE_CLIENTS
  QuietTicks   \* CACHE_SETTLE_MS in units of the clock's tick

ASSUME BridgeAssumption ==
  /\ Filter \subseteq SUBSET Topic
  /\ MaxStreams \in Nat
  /\ QuietTicks \in Nat \ {0}

VARIABLES
  ready,       \* the '#' subscription is in place (broker.js `ready`)
  cache,       \* [Topic -> payload]; None is "no entry"
  rebuilding,  \* `rebuild` is not null
  missing,     \* rebuild.missing
  settleTimer, \* rebuild.timer: the ticks left until it fires, Off when not armed
  queue,       \* publishes mqtt.js holds while it is offline
  waiting,     \* [Topic -> requests with an echo waiter]
  request,     \* the POST handlers
  stream,      \* the /events clients
  abandoned    \* history: departed topics whose announcement was given up

bridgeVars == <<ready, cache, rebuilding, missing, settleTimer, queue, waiting, request, stream, abandoned>>
vars == <<brokerVars, bridgeVars>>

-----------------------------------------------------------------------------
Off == 0   \* the settle timer is not armed

RequestRecord == [state : {"idle", "reading", "waiting", "ok", "failed", "lost"},
                  topic : Topic, payload : Payload]
StreamRecord == [status : {"closed", "open", "dropped"}, wants : SUBSET Topic,
                 view : [Topic -> Payload \cup {None}]]

\* The messages a client has put together from the frames it was sent.
Blank == [t \in Topic |-> None]
Closed == [status |-> "closed", wants |-> {}, view |-> Blank]

TypeOK ==
  /\ BrokerTypeOK
  /\ ready \in BOOLEAN
  /\ cache \in [Topic -> Payload \cup {None}]
  /\ rebuilding \in BOOLEAN
  /\ missing \in SUBSET Topic
  /\ settleTimer \in 0..QuietTicks
  /\ queue \in Seq(Publish)
  /\ waiting \in [Topic -> SUBSET Request]
  /\ request \in [Request -> RequestRecord]
  /\ stream \in [Stream -> StreamRecord]
  /\ abandoned \in SUBSET Topic

Init ==
  /\ BrokerInit
  /\ ready = FALSE
  /\ cache = Blank
  /\ rebuilding = FALSE
  /\ missing = {}
  /\ settleTimer = Off
  /\ queue = <<>>
  /\ waiting = [t \in Topic |-> {}]
  /\ request \in [Request -> [state : {"idle"}, topic : Topic, payload : Payload]]
  /\ stream = [s \in Stream |-> Closed]
  /\ abandoned = {}

-----------------------------------------------------------------------------
(* Broadcasting to streams *)

\* The open streams a frame for one of these topics goes to.
Readers(topics) == {s \in Stream : stream[s].status = "open" /\ stream[s].wants \cap topics # {}}

\* Send `shown[t]` for every topic in `topics`; None is a `deleted` frame.
\* A stream in `slow` is over its buffer limit after the write and is
\* destroyed; it stays a client until its 'close' event.
Broadcast(topics, shown, slow) ==
  stream' = [s \in Stream |->
    IF s \notin Readers(topics) THEN stream[s]
    ELSE [stream[s] EXCEPT
            !.status = IF s \in slow THEN "dropped" ELSE "open",
            !.view = [t \in Topic |-> IF t \in topics \cap stream[s].wants THEN shown[t] ELSE @[t]]]]

-----------------------------------------------------------------------------
(* The connection to the broker *)

\* Mutant of Held: the topics of the last connection are not remembered.
HeldNone == {}

\* The topics of the cache, deleted ones included.
Held == {t \in Topic : cache[t] # None}

\* Mutant of Cleared: the cache of the last connection is kept.
KeptCache == cache

Cleared == Blank

\* 'connect': forget what came from the last connection, but remember which
\* topics it held; subscribe.  mqtt.js sends what it queued while offline
\* first.
Connect ==
  /\ link = "down"
  /\ link' = "up"
  /\ toBroker' = Append(queue, [type |-> "subscribe"])
  /\ queue' = <<>>
  /\ rebuilding' = TRUE
  /\ missing' = Held
  /\ settleTimer' = Off
  /\ cache' = Cleared
  /\ UNCHANGED <<retained, granted, replay, ackDue, toBridge, latest>>
  /\ UNCHANGED <<ready, waiting, request, stream, abandoned>>

\* 'close': a rebuild still settling is given up.
Close ==
  /\ link = "up"
  /\ Disconnected
  /\ ready' = FALSE
  /\ rebuilding' = FALSE
  /\ missing' = {}
  /\ settleTimer' = Off
  /\ abandoned' = abandoned \cup missing
  /\ UNCHANGED <<cache, queue, waiting, request, stream>>

\* The process exits on an uncaught exception and is started again by its
\* supervisor: only the broker keeps anything.
Crash ==
  /\ Disconnected
  /\ ready' = FALSE
  /\ cache' = Blank
  /\ rebuilding' = FALSE
  /\ missing' = {}
  /\ settleTimer' = Off
  /\ queue' = <<>>
  /\ waiting' = [t \in Topic |-> {}]
  /\ request' = [r \in Request |->
       IF request[r].state \in {"reading", "waiting"} THEN [request[r] EXCEPT !.state = "lost"] ELSE request[r]]
  /\ stream' = [s \in Stream |-> Closed]
  /\ abandoned' = {}

NextIs(kind) == toBridge # <<>> /\ Head(toBridge).type = kind

\* Mutant of TimerOnSuback: only messages arm the settle timer.
TimerOnSubackUnarmed(ok) == settleTimer

TimerOnSuback(ok) == IF ok THEN QuietTicks ELSE settleTimer

\* The subscribe callback arms the settle timer of the current rebuild.
SubackArrives ==
  /\ NextIs("suback")
  /\ ready' = Head(toBridge).granted
  /\ Head(toBridge).granted => rebuilding
  /\ settleTimer' = TimerOnSuback(Head(toBridge).granted)
  /\ toBridge' = Tail(toBridge)
  /\ UNCHANGED <<link, retained, granted, replay, ackDue, toBroker, latest>>
  /\ UNCHANGED <<cache, rebuilding, missing, queue, waiting, request, stream, abandoned>>

\* armSettle(null) throws.
SubackAfterSettle ==
  /\ NextIs("suback")
  /\ Head(toBridge).granted /\ ~rebuilding
  /\ Crash

\* cacheMessage's 'deleted': the retain flag on an empty payload, or an empty
\* payload after a message.
IsDelete(t, p, flag) == p = Empty /\ (flag \/ cache[t] \in Value)

\* Mutant of CacheEntry: an empty payload without the retain flag is ignored.
CacheEntryKept(t, p, flag) == IF p # Empty THEN p ELSE IF flag THEN None ELSE cache[t]

CacheEntry(t, p, flag) == IF p = Empty /\ flag THEN None ELSE p

\* Mutant of Woken: the topic alone answers.
WokenByTopic(t, p) == waiting[t]

\* The waiters a message wakes: those that published these very bytes.
Woken(t, p) == {r \in waiting[t] : request[r].payload = p}

MessageArrives(slow) ==
  LET m == Head(toBridge)
      t == m.topic
      shown == IF IsDelete(t, m.payload, m.retain) THEN None ELSE m.payload
  IN
  /\ NextIs("message")
  /\ toBridge' = Tail(toBridge)
  /\ missing' = missing \ {t}
  /\ settleTimer' = IF rebuilding THEN QuietTicks ELSE settleTimer
  /\ cache' = [cache EXCEPT ![t] = CacheEntry(t, m.payload, m.retain)]
  /\ slow \subseteq Readers({t})
  /\ Broadcast({t}, [u \in {t} |-> shown], slow)
  /\ waiting' = [waiting EXCEPT ![t] = @ \ Woken(t, m.payload)]
  /\ request' = [r \in Request |->
       IF r \in Woken(t, m.payload) THEN [request[r] EXCEPT !.state = "ok"] ELSE request[r]]
  /\ abandoned' = abandoned \ {t}
  /\ UNCHANGED <<link, retained, granted, replay, ackDue, toBroker, latest>>
  /\ UNCHANGED <<ready, rebuilding, queue>>

\* Time passes without a message, and the settle timer does not fire yet.
Tick ==
  /\ settleTimer > 1
  /\ settleTimer' = settleTimer - 1
  /\ UNCHANGED brokerVars
  /\ UNCHANGED <<ready, cache, rebuilding, missing, queue, waiting, request, stream, abandoned>>

\* The last tick, on which the settle timer fires: announceDeparted.
Settle(slow) ==
  /\ settleTimer = 1
  /\ rebuilding' = FALSE
  /\ missing' = {}
  /\ settleTimer' = Off
  /\ slow \subseteq Readers(missing)
  /\ Broadcast(missing, [t \in missing |-> None], slow)
  /\ UNCHANGED brokerVars
  /\ UNCHANGED <<ready, cache, queue, waiting, request, abandoned>>

-----------------------------------------------------------------------------
(* POST *)

Answer(r, state) == request' = [request EXCEPT ![r].state = state]

Forget(r) == waiting' = [waiting EXCEPT ![request[r].topic] = @ \ {r}]

\* The ready gate, before the body is read.
PostArrives(r) ==
  /\ request[r].state = "idle"
  /\ Answer(r, IF ready THEN "reading" ELSE "failed")
  /\ UNCHANGED brokerVars
  /\ UNCHANGED <<ready, cache, rebuilding, missing, settleTimer, queue, waiting, stream, abandoned>>

\* readBody or parseJson rejects: too large, stalled, hung up, not JSON.
BodyFails(r) ==
  /\ request[r].state = "reading"
  /\ Answer(r, "failed")
  /\ UNCHANGED brokerVars
  /\ UNCHANGED <<ready, cache, rebuilding, missing, settleTimer, queue, waiting, stream, abandoned>>

\* broker.publish: register the echo, then hand the packet to mqtt.js, which
\* queues it when there is no connection.
BodyRead(r) ==
  LET packet == [type |-> "publish", topic |-> request[r].topic, payload |-> request[r].payload]
  IN
  /\ request[r].state = "reading"
  /\ Answer(r, "waiting")
  /\ waiting' = [waiting EXCEPT ![request[r].topic] = @ \cup {r}]
  /\ IF link = "up"
     THEN toBroker' = Append(toBroker, packet) /\ UNCHANGED queue
     ELSE queue' = Append(queue, packet) /\ UNCHANGED toBroker
  /\ UNCHANGED <<link, retained, granted, replay, ackDue, toBridge, latest>>
  /\ UNCHANGED <<ready, cache, rebuilding, missing, settleTimer, stream, abandoned>>

\* Mutant of EchoTimeout: the timer is not served while the bridge is not ready.
EchoTimeoutWhenReady(r) ==
  /\ ready
  /\ request[r].state = "waiting"
  /\ Answer(r, "failed")
  /\ Forget(r)
  /\ UNCHANGED brokerVars
  /\ UNCHANGED <<ready, cache, rebuilding, missing, settleTimer, queue, stream, abandoned>>

EchoTimeout(r) ==
  /\ request[r].state = "waiting"
  /\ Answer(r, "failed")
  /\ Forget(r)
  /\ UNCHANGED brokerVars
  /\ UNCHANGED <<ready, cache, rebuilding, missing, settleTimer, queue, stream, abandoned>>

-----------------------------------------------------------------------------
(* GET /events *)

Clients == {s \in Stream : stream[s].status # "closed"}

\* What a GET, a replay or a caught-up client reads of an entry.
Shown(entry) == IF entry \in Value THEN entry ELSE None

\* Mutant of Replayed: the filters are not asked.
ReplayedUnfiltered(wants) == [t \in Topic |-> Shown(cache[t])]

Replayed(wants) == [t \in Topic |-> IF t \in wants THEN Shown(cache[t]) ELSE None]

\* The client is registered and every non-empty entry it matches is replayed
\* in the same callback; it may already be over its buffer limit.
StreamOpens(s, wants, slow) ==
  /\ stream[s].status = "closed"
  /\ ready
  /\ Cardinality(Clients) < MaxStreams
  /\ stream' = [stream EXCEPT ![s] =
       [status |-> IF slow THEN "dropped" ELSE "open", wants |-> wants, view |-> Replayed(wants)]]
  /\ UNCHANGED brokerVars
  /\ UNCHANGED <<ready, cache, rebuilding, missing, settleTimer, queue, waiting, request, abandoned>>

\* The request's 'close' event.
StreamCloses(s) ==
  /\ stream[s].status # "closed"
  /\ stream' = [stream EXCEPT ![s] = Closed]
  /\ UNCHANGED brokerVars
  /\ UNCHANGED <<ready, cache, rebuilding, missing, settleTimer, queue, waiting, request, abandoned>>

-----------------------------------------------------------------------------
Next ==
  \/ BrokerNext /\ UNCHANGED bridgeVars
  \/ Connect
  \/ Close
  \/ SubackArrives
  \/ SubackAfterSettle
  \/ \E slow \in SUBSET Stream : MessageArrives(slow)
  \/ Tick
  \/ \E slow \in SUBSET Stream : Settle(slow)
  \/ \E r \in Request : PostArrives(r) \/ BodyFails(r) \/ BodyRead(r) \/ EchoTimeout(r)
  \/ \E s \in Stream, wants \in Filter, slow \in BOOLEAN : StreamOpens(s, wants, slow)
  \/ \E s \in Stream : StreamCloses(s)

Spec == Init /\ [][Next]_vars

-----------------------------------------------------------------------------
(* Safety *)

\* A stream shows exactly the messages the cache holds.  The only exceptions
\* are topics the cache lost on a reconnect: those whose deletion is still to
\* be announced, and those whose announcement a later disconnect gave up.
StreamsFollowCache ==
  \A s \in Stream : stream[s].status = "open" =>
    \A t \in stream[s].wants :
      \/ Shown(stream[s].view[t]) = Shown(cache[t])
      \/ t \in missing \cup abandoned

\* What the settle timer would announce deleted is never something the cache
\* holds a message for, however messages, reconnects and the timer interleave.
DepartedAreGone == \A t \in missing : cache[t] = None

InFlightOn(t) == \E i \in 1..Len(toBridge) : toBridge[i].type = "message" /\ toBridge[i].topic = t

\* The broker is the cache's only writer, and in its order: once nothing on a
\* topic is in flight or owed by the retained replay, the cache shows the last
\* thing the broker sent on it.  Nothing from an earlier connection survives.
CacheInBrokerOrder ==
  link = "up" => \A t \in Topic :
    InFlightOn(t) \/ t \in replay \/ Shown(cache[t]) = Shown(latest[t])

\* The 503 gates open only while the broker forwards every topic.
ReadyMeansSubscribed == ready => link = "up" /\ granted = Topic /\ ackDue = "no"

\* `waiting` holds exactly the POSTs that are waiting for an echo: shutdown
\* polls it, and a waiter left behind would hold shutdown for its whole limit.
WaitersTracked ==
  \A r \in Request, t \in Topic :
    r \in waiting[t] <=> request[r].state = "waiting" /\ request[r].topic = t

\* A destroyed stream still counts against the limit until its 'close' event.
StreamsWithinLimit == Cardinality({s \in Stream : stream[s].status # "closed"}) <= MaxStreams

\* A POST answered 204 is readable at that moment: the cache holds its bytes,
\* and every stream that asked for the topic was sent them.
AckedIsVisible ==
  [][\A r \in Request :
       request[r].state = "waiting" /\ request'[r].state = "ok" =>
         LET t == request[r].topic
             p == Shown(request[r].payload)
         IN /\ Shown(cache'[t]) = p
            /\ \A s \in Stream : stream'[s].status = "open" /\ t \in stream'[s].wants
                                  => Shown(stream'[s].view[t]) = p]_vars

-----------------------------------------------------------------------------
(* The bridge implements the board it promises its readers. *)

ShownAll(messages) == [t \in Topic |-> Shown(messages[t])]

Board == INSTANCE EventBoard WITH
  Reader <- Stream,
  board <- ShownAll(cache),
  reader <- [s \in Stream |->
    IF stream[s].status = "open"
    THEN [on |-> TRUE, wants |-> stream[s].wants, copy |-> ShownAll(stream[s].view)]
    ELSE [on |-> FALSE, wants |-> {}, copy |-> Blank]],
  stale <- missing \cup abandoned

\* Every step of the bridge is a step of the board, or none.
ImplementsBoard == Board!BoardSpec

-----------------------------------------------------------------------------
(* Liveness *)

Serves(r) == BodyFails(r) \/ BodyRead(r)
ForeignStep == \E t \in Topic, p \in Payload, flag \in RetainFlags : ForeignPublish(t, p, flag)

\* The broker works through its connection, the client reconnects for as long
\* as it takes, Node delivers what arrived, and timers fire.  A body is read or
\* its idle timer fires.  Nothing obliges a foreign publisher, a new request
\* or a stream to do anything, or the connection to be lost.
Fairness ==
  /\ WF_vars(BrokerSubscribes /\ UNCHANGED bridgeVars)
  /\ WF_vars(BrokerAcks /\ UNCHANGED bridgeVars)
  /\ \A t \in Topic : WF_vars(BrokerReplays(t) /\ UNCHANGED bridgeVars)
  /\ WF_vars(BrokerTakes /\ UNCHANGED bridgeVars)
  /\ WF_vars(Connect)
  /\ WF_vars(SubackArrives \/ SubackAfterSettle \/ \E slow \in SUBSET Stream : MessageArrives(slow))
  /\ WF_vars(Tick \/ \E slow \in SUBSET Stream : Settle(slow))
  /\ \A r \in Request : WF_vars(Serves(r)) /\ WF_vars(EchoTimeout(r))

FairSpec == Spec /\ Fairness

\* No request is held open forever, whatever the broker and the connection do.
EveryPostAnswered ==
  \A r \in Request :
    request[r].state \in {"reading", "waiting"} ~> request[r].state \in {"ok", "failed", "lost"}

\* A stream shows a message of a departed topic, to be announced deleted.
Misled(s, t) == stream[s].status = "open" /\ stream[s].view[t] \in Value /\ t \in missing

\* If the connection is lost only finitely often and other publishers fall
\* silent, a stream that shows a departed topic is eventually corrected, unless
\* the broker refused the subscription.
DeparturesResolved ==
  (<>[](link = "up") /\ <>[][~ForeignStep]_vars) =>
    \A s \in Stream, t \in Topic : (ready /\ Misled(s, t)) ~> ~Misled(s, t)

-----------------------------------------------------------------------------
(* What documents and comments say that the code does not do *)

\* The bridge is connected, its subscription granted, the retained replay
\* settled, and nothing is on its way to it.
Settled == ready /\ ~rebuilding /\ replay = {} /\ toBridge = <<>>

\* binding.md: once the retained replay after a reconnect has settled, the bridge
\* has announced every topic that was in its cache before and did not reappear.
\* So no stream is left with a message on a topic whose message is gone from the
\* broker and from the cache, with nothing more to come.
NoGhosts ==
  Settled => \A s \in Stream, t \in Topic :
    stream[s].status = "open" /\ stream[s].view[t] \in Value => retained[t] # Empty \/ cache[t] # None

\* broker.js: `rebuild` is set on 'connect' and consumed once; architecture.md:
\* a broker is free to send the retained replay before or after the SUBACK.  So
\* the subscribe callback always finds a rebuild to arm.
SubackFindsRebuild == NextIs("suback") /\ Head(toBridge).granted => rebuilding

=============================================================================
