---------------------------- MODULE BridgeProofs ----------------------------
(***************************************************************************)
(* Proofs about the bridge: its types, and the safety properties of        *)
(* Bridge.tla, for every number of topics, values, requests and streams;   *)
(* and that the bridge implements the board of EventBoard.tla.             *)
(***************************************************************************)
EXTENDS Bridge, SequenceTheorems, FiniteSetTheorems, TLAPS

-----------------------------------------------------------------------------
(* Packets *)

\* The first packet of either channel, by its type.
LEMMA HeadIsMessage ==
  ASSUME toBridge \in Seq(Message \cup Suback), NextIs("message")
  PROVE  /\ Head(toBridge) \in Message
         /\ Head(toBridge).topic \in Topic
         /\ Head(toBridge).payload \in Payload
         /\ Head(toBridge).retain \in BOOLEAN
         /\ toBridge # <<>>
         /\ Tail(toBridge) \in Seq(Message \cup Suback)
<1>1. toBridge # <<>> /\ Head(toBridge) \in Message \cup Suback /\ Tail(toBridge) \in Seq(Message \cup Suback)
  BY HeadTailProperties DEF NextIs
<1>2. Head(toBridge) \notin Suback
  BY DEF NextIs, Suback
<1> QED BY <1>1, <1>2 DEF Message

LEMMA HeadIsSuback ==
  ASSUME toBridge \in Seq(Message \cup Suback), NextIs("suback")
  PROVE  /\ Head(toBridge) \in Suback
         /\ Head(toBridge).granted \in BOOLEAN
         /\ toBridge # <<>>
         /\ Tail(toBridge) \in Seq(Message \cup Suback)
<1>1. toBridge # <<>> /\ Head(toBridge) \in Message \cup Suback /\ Tail(toBridge) \in Seq(Message \cup Suback)
  BY HeadTailProperties DEF NextIs
<1>2. Head(toBridge) \notin Message
  BY DEF NextIs, Message
<1> QED BY <1>1, <1>2 DEF Suback

LEMMA HeadIsPublish ==
  ASSUME toBroker \in Seq(Publish \cup Subscribe), toBroker # <<>>, Head(toBroker).type = "publish"
  PROVE  /\ Head(toBroker).topic \in Topic
         /\ Head(toBroker).payload \in Payload
         /\ Tail(toBroker) \in Seq(Publish \cup Subscribe)
<1>1. Head(toBroker) \in Publish \cup Subscribe /\ Tail(toBroker) \in Seq(Publish \cup Subscribe)
  BY HeadTailProperties
<1>2. Head(toBroker) \notin Subscribe
  BY DEF Subscribe
<1> QED BY <1>1, <1>2 DEF Publish

-----------------------------------------------------------------------------
(* Types *)

\* Sending a message, and accepting a publish, keep the types of what they
\* change.
LEMMA SendType ==
  ASSUME BrokerTypeOK, NEW t \in Topic, NEW p \in Payload, NEW flag \in BOOLEAN, Send(t, p, flag)
  PROVE  /\ toBridge' \in Seq(Message \cup Suback)
         /\ latest' \in [Topic -> Payload]
<1> DEFINE m == [type |-> "message", topic |-> t, payload |-> p, retain |-> flag]
<1>1. m \in Message \cup Suback
  BY DEF Message
<1>2. toBridge' = Append(toBridge, m)
  BY DEF Send
<1>3. Append(toBridge, m) \in Seq(Message \cup Suback)
  <2> HIDE DEF m
  <2> QED BY <1>1, AppendProperties DEF BrokerTypeOK
<1>4. latest' \in [Topic -> Payload]
  BY DEF Send, BrokerTypeOK
<1> QED BY <1>2, <1>3, <1>4

LEMMA AcceptType ==
  ASSUME BrokerTypeOK, NEW t \in Topic, NEW p \in Payload, NEW flag \in BOOLEAN, Accept(t, p, flag)
  PROVE  /\ retained' \in [Topic -> Payload]
         /\ replay' \in SUBSET Topic
         /\ toBridge' \in Seq(Message \cup Suback)
         /\ latest' \in [Topic -> Payload]
<1>1. retained' \in [Topic -> Payload] /\ replay' \in SUBSET Topic
  BY DEF Accept, BrokerTypeOK
<1>2. CASE t \in granted
  <2>1. Send(t, p, FALSE)
    BY <1>2 DEF Accept
  <2> QED BY <1>1, <2>1, SendType
<1>3. CASE t \notin granted
  BY <1>1, <1>3 DEF Accept, BrokerTypeOK
<1> QED BY <1>2, <1>3

LEMMA BrokerStepType == BrokerTypeOK /\ BrokerNext => BrokerTypeOK'
<1> SUFFICES ASSUME BrokerTypeOK, BrokerNext PROVE BrokerTypeOK'
  OBVIOUS
<1> USE BrokerAssumption
<1>1. CASE BrokerSubscribes
  <2>1. toBroker' \in Seq(Publish \cup Subscribe)
    BY <1>1, HeadTailProperties DEF BrokerSubscribes, BrokerTypeOK
  <2>2. PICK topics \in SUBSET Topic : Covers(topics)
    BY <1>1 DEF BrokerSubscribes
  <2>3. granted' \in SUBSET Topic /\ replay' \in SUBSET Topic /\ latest' \in [Topic -> Payload]
    BY <2>2 DEF Covers, BrokerTypeOK, Payload
  <2>4. ackDue' \in {"no", "granted", "refused"}
    BY <1>1 DEF BrokerSubscribes
  <2> QED BY <1>1, <2>1, <2>3, <2>4 DEF BrokerSubscribes, BrokerTypeOK
<1>2. CASE BrokerAcks
  <2> DEFINE m == [type |-> "suback", granted |-> (ackDue = "granted")]
  <2>1. m \in Message \cup Suback
    BY DEF Suback
  <2>2. toBridge' = Append(toBridge, m)
    BY <1>2 DEF BrokerAcks
  <2>3. toBridge' \in Seq(Message \cup Suback)
    <3> HIDE DEF m
    <3> QED BY <2>1, <2>2, AppendProperties DEF BrokerTypeOK
  <2> QED BY <1>2, <2>3 DEF BrokerAcks, BrokerTypeOK
<1>3. ASSUME NEW t \in Topic, BrokerReplays(t) PROVE BrokerTypeOK'
  <2>1. Send(t, retained[t], TRUE) /\ retained[t] \in Payload
    BY <1>3 DEF BrokerReplays, BrokerTypeOK
  <2>2. toBridge' \in Seq(Message \cup Suback) /\ latest' \in [Topic -> Payload]
    BY <2>1, SendType
  <2> QED BY <1>3, <2>2 DEF BrokerReplays, BrokerTypeOK
<1>4. CASE BrokerTakes
  <2>1. /\ Head(toBroker).topic \in Topic
        /\ Head(toBroker).payload \in Payload
        /\ toBroker' \in Seq(Publish \cup Subscribe)
    BY <1>4, HeadIsPublish DEF BrokerTakes, BrokerTypeOK
  <2>2. Accept(Head(toBroker).topic, Head(toBroker).payload, TRUE)
    BY <1>4 DEF BrokerTakes
  <2>3. /\ retained' \in [Topic -> Payload]
        /\ replay' \in SUBSET Topic
        /\ toBridge' \in Seq(Message \cup Suback)
        /\ latest' \in [Topic -> Payload]
    BY <2>1, <2>2, AcceptType
  <2> QED BY <1>4, <2>1, <2>3 DEF BrokerTakes, BrokerTypeOK
<1>5. ASSUME NEW t \in Topic, NEW p \in Payload, NEW flag \in RetainFlags, ForeignPublish(t, p, flag)
      PROVE  BrokerTypeOK'
  <2>1. flag \in BOOLEAN /\ Accept(t, p, flag)
    BY <1>5 DEF ForeignPublish
  <2>2. /\ retained' \in [Topic -> Payload]
        /\ replay' \in SUBSET Topic
        /\ toBridge' \in Seq(Message \cup Suback)
        /\ latest' \in [Topic -> Payload]
    BY <2>1, AcceptType
  <2> QED BY <1>5, <2>2 DEF ForeignPublish, BrokerTypeOK
<1> QED BY <1>1, <1>2, <1>3, <1>4, <1>5 DEF BrokerNext

LEMMA DisconnectType == BrokerTypeOK /\ Disconnected => BrokerTypeOK'
<1> SUFFICES ASSUME BrokerTypeOK, Disconnected PROVE BrokerTypeOK'
  OBVIOUS
<1>1. toBroker' \in Seq(Publish \cup Subscribe) /\ toBridge' \in Seq(Message \cup Suback)
  BY EmptySeq DEF Disconnected
<1> QED BY <1>1 DEF Disconnected, BrokerTypeOK, Payload

\* A broadcast drops a stream or changes what it has put together, nothing else.
LEMMA BroadcastType ==
  ASSUME stream \in [Stream -> StreamRecord], NEW topics \in SUBSET Topic,
         NEW shown \in [topics -> Payload \cup {None}], NEW slow, Broadcast(topics, shown, slow)
  PROVE  stream' \in [Stream -> StreamRecord]
<1> SUFFICES ASSUME NEW s \in Stream PROVE stream'[s] \in StreamRecord
  BY DEF Broadcast
<1>1. CASE s \notin Readers(topics)
  BY <1>1 DEF Broadcast
<1>2. CASE s \in Readers(topics)
  <2> DEFINE view == [t \in Topic |-> IF t \in topics \cap stream[s].wants THEN shown[t] ELSE stream[s].view[t]]
  <2>1. stream[s] \in StreamRecord
    OBVIOUS
  <2>2. stream'[s] = [stream[s] EXCEPT !.status = IF s \in slow THEN "dropped" ELSE "open", !.view = view]
    BY <1>2 DEF Broadcast
  <2>3. view \in [Topic -> Payload \cup {None}]
    BY <2>1 DEF StreamRecord
  <2> HIDE DEF view
  <2> QED BY <2>1, <2>2, <2>3 DEF StreamRecord
<1> QED BY <1>1, <1>2

LEMMA BlankType == Blank \in [Topic -> Payload \cup {None}] /\ Closed \in StreamRecord
BY DEF Blank, Closed, StreamRecord

LEMMA ShownType == ASSUME NEW entry PROVE Shown(entry) \in Payload \cup {None}
BY DEF Shown, Payload

LEMMA CrashType == TypeOK /\ Crash => TypeOK'
<1> SUFFICES ASSUME TypeOK, Crash PROVE TypeOK'
  OBVIOUS
<1> USE BridgeAssumption
<1>1. BrokerTypeOK'
  BY DisconnectType DEF TypeOK, Crash
<1>2. cache' \in [Topic -> Payload \cup {None}] /\ stream' \in [Stream -> StreamRecord]
  BY BlankType DEF Crash
<1>3. queue' \in Seq(Publish)
  BY EmptySeq DEF Crash
<1>4. request' \in [Request -> RequestRecord]
  BY DEF Crash, TypeOK, RequestRecord
<1>5. waiting' \in [Topic -> SUBSET Request]
  BY DEF Crash
<1>6. settleTimer' = 0 /\ 0 \in 0..QuietTicks
  BY DEF Crash, Off
<1>7. ready' = FALSE /\ rebuilding' = FALSE /\ missing' = {} /\ abandoned' = {}
  BY DEF Crash
<1> QED BY <1>1, <1>2, <1>3, <1>4, <1>5, <1>6, <1>7 DEF TypeOK

LEMMA AnswerType ==
  ASSUME request \in [Request -> RequestRecord], NEW r \in Request,
         NEW state \in {"idle", "reading", "waiting", "ok", "failed", "lost"}, Answer(r, state)
  PROVE  request' \in [Request -> RequestRecord]
BY DEF Answer, RequestRecord

\* Every state of the bridge has the types of TypeOK.
THEOREM TypeInit == Init => TypeOK
<1> SUFFICES ASSUME Init PROVE TypeOK
  OBVIOUS
<1> USE BridgeAssumption
<1>1. BrokerTypeOK
  BY EmptySeq DEF Init, BrokerInit, BrokerTypeOK, Payload
<1>2. cache \in [Topic -> Payload \cup {None}] /\ stream \in [Stream -> StreamRecord]
  BY BlankType DEF Init
<1>3. queue \in Seq(Publish)
  BY EmptySeq DEF Init
<1>4. request \in [Request -> RequestRecord]
  BY DEF Init, RequestRecord
<1>5. settleTimer = 0 /\ 0 \in 0..QuietTicks
  BY DEF Init, Off
<1>6. ready = FALSE /\ rebuilding = FALSE /\ missing = {} /\ abandoned = {}
      /\ waiting \in [Topic -> SUBSET Request]
  BY DEF Init
<1> QED BY <1>1, <1>2, <1>3, <1>4, <1>5, <1>6 DEF TypeOK

LEMMA TypeStep == TypeOK /\ [Next]_vars => TypeOK'
<1> SUFFICES ASSUME TypeOK, [Next]_vars PROVE TypeOK'
  OBVIOUS
<1> USE BridgeAssumption, BrokerAssumption
<1>1. CASE BrokerNext /\ UNCHANGED bridgeVars
  <2>1. BrokerTypeOK'
    BY <1>1, BrokerStepType DEF TypeOK
  <2> QED BY <1>1, <2>1 DEF TypeOK, bridgeVars
<1>2. CASE Connect
  <2>1. [type |-> "subscribe"] \in Publish \cup Subscribe
    BY DEF Subscribe
  <2>2. queue \in Seq(Publish \cup Subscribe)
    BY SeqMonotonic DEF TypeOK
  <2>3. toBroker' \in Seq(Publish \cup Subscribe)
    BY <1>2, <2>1, <2>2, AppendProperties DEF Connect
  <2>4. queue' \in Seq(Publish)
    BY <1>2, EmptySeq DEF Connect
  <2>5. cache' \in [Topic -> Payload \cup {None}]
    BY <1>2, BlankType DEF Connect, Cleared
  <2>6. missing' \in SUBSET Topic /\ settleTimer' \in 0..QuietTicks
    BY <1>2 DEF Connect, Held, Off
  <2> QED BY <1>2, <2>3, <2>4, <2>5, <2>6 DEF Connect, TypeOK, BrokerTypeOK
<1>3. CASE Close
  <2>1. BrokerTypeOK'
    BY <1>3, DisconnectType DEF Close, TypeOK
  <2>2. settleTimer' \in 0..QuietTicks
    BY <1>3 DEF Close, Off
  <2> QED BY <1>3, <2>1, <2>2 DEF Close, TypeOK
<1>4. CASE SubackArrives
  <2>1. toBridge' \in Seq(Message \cup Suback) /\ ready' \in BOOLEAN
    BY <1>4, HeadIsSuback DEF SubackArrives, TypeOK, BrokerTypeOK
  <2>2. settleTimer' \in 0..QuietTicks
    BY <1>4 DEF SubackArrives, TimerOnSuback, TypeOK
  <2> QED BY <1>4, <2>1, <2>2 DEF SubackArrives, TypeOK, BrokerTypeOK
<1>5. CASE SubackAfterSettle
  BY <1>5, CrashType DEF SubackAfterSettle
<1>6. ASSUME NEW slow \in SUBSET Stream, MessageArrives(slow) PROVE TypeOK'
  <2> DEFINE m == Head(toBridge)
             shown == [u \in {m.topic} |-> IF IsDelete(m.topic, m.payload, m.retain) THEN None ELSE m.payload]
  <2>1. /\ m.topic \in Topic
        /\ m.payload \in Payload
        /\ toBridge' \in Seq(Message \cup Suback)
    BY <1>6, HeadIsMessage DEF MessageArrives, TypeOK, BrokerTypeOK
  <2>2. Broadcast({m.topic}, shown, slow)
    BY <1>6 DEF MessageArrives
  <2>3. shown \in [{m.topic} -> Payload \cup {None}]
    BY <2>1
  <2>4. stream' \in [Stream -> StreamRecord]
    <3> HIDE DEF shown, m
    <3> QED BY <2>1, <2>2, <2>3, BroadcastType DEF TypeOK
  <2>5. cache' \in [Topic -> Payload \cup {None}]
    <3>1. CacheEntry(m.topic, m.payload, m.retain) \in Payload \cup {None}
      BY <2>1 DEF CacheEntry
    <3> QED BY <1>6, <3>1 DEF MessageArrives, TypeOK
  <2>6. waiting' \in [Topic -> SUBSET Request]
    BY <1>6 DEF MessageArrives, TypeOK
  <2>7. request' \in [Request -> RequestRecord]
    BY <1>6 DEF MessageArrives, TypeOK, RequestRecord
  <2>8. settleTimer' \in 0..QuietTicks /\ missing' \in SUBSET Topic /\ abandoned' \in SUBSET Topic
    BY <1>6 DEF MessageArrives, TypeOK
  <2> QED BY <1>6, <2>1, <2>4, <2>5, <2>6, <2>7, <2>8 DEF MessageArrives, TypeOK, BrokerTypeOK
<1>7. CASE Tick
  <2>1. settleTimer' \in 0..QuietTicks
    BY <1>7 DEF Tick, TypeOK
  <2> QED BY <1>7, <2>1 DEF Tick, TypeOK, BrokerTypeOK, brokerVars
<1>8. ASSUME NEW slow \in SUBSET Stream, Settle(slow) PROVE TypeOK'
  <2>1. missing \in SUBSET Topic
    BY DEF TypeOK
  <2>2. stream' \in [Stream -> StreamRecord]
    BY <1>8, <2>1, BroadcastType DEF Settle, TypeOK
  <2>3. settleTimer' \in 0..QuietTicks
    BY <1>8 DEF Settle, Off
  <2> QED BY <1>8, <2>2, <2>3 DEF Settle, TypeOK, BrokerTypeOK, brokerVars
<1>9. ASSUME NEW r \in Request, PostArrives(r) PROVE TypeOK'
  <2>1. request' \in [Request -> RequestRecord]
    BY <1>9, AnswerType DEF PostArrives, TypeOK
  <2> QED BY <1>9, <2>1 DEF PostArrives, TypeOK, BrokerTypeOK, brokerVars
<1>10. ASSUME NEW r \in Request, BodyFails(r) PROVE TypeOK'
  <2>1. request' \in [Request -> RequestRecord]
    BY <1>10, AnswerType DEF BodyFails, TypeOK
  <2> QED BY <1>10, <2>1 DEF BodyFails, TypeOK, BrokerTypeOK, brokerVars
<1>11. ASSUME NEW r \in Request, BodyRead(r) PROVE TypeOK'
  <2> DEFINE packet == [type |-> "publish", topic |-> request[r].topic, payload |-> request[r].payload]
  <2>1. request' \in [Request -> RequestRecord]
    BY <1>11, AnswerType DEF BodyRead, TypeOK
  <2>2. packet \in Publish
    BY DEF TypeOK, RequestRecord, Publish
  <2>3. toBroker' \in Seq(Publish \cup Subscribe) /\ queue' \in Seq(Publish)
    <3>1. \/ toBroker' = Append(toBroker, packet) /\ queue' = queue
          \/ queue' = Append(queue, packet) /\ toBroker' = toBroker
      BY <1>11 DEF BodyRead
    <3>2. packet \in Publish \cup Subscribe
      BY <2>2
    <3> HIDE DEF packet
    <3>3. Append(toBroker, packet) \in Seq(Publish \cup Subscribe)
      BY <3>2, AppendProperties DEF TypeOK, BrokerTypeOK
    <3>4. Append(queue, packet) \in Seq(Publish)
      BY <2>2, AppendProperties DEF TypeOK
    <3> QED BY <3>1, <3>3, <3>4 DEF TypeOK, BrokerTypeOK
  <2>4. waiting' \in [Topic -> SUBSET Request]
    BY <1>11 DEF BodyRead, TypeOK
  <2> QED BY <1>11, <2>1, <2>3, <2>4 DEF BodyRead, TypeOK, BrokerTypeOK
<1>12. ASSUME NEW r \in Request, EchoTimeout(r) PROVE TypeOK'
  <2>1. request' \in [Request -> RequestRecord]
    BY <1>12, AnswerType DEF EchoTimeout, TypeOK
  <2>2. waiting' \in [Topic -> SUBSET Request]
    BY <1>12 DEF EchoTimeout, Forget, TypeOK
  <2> QED BY <1>12, <2>1, <2>2 DEF EchoTimeout, TypeOK, BrokerTypeOK, brokerVars
<1>13. ASSUME NEW s \in Stream, NEW wants \in Filter, NEW slow \in BOOLEAN, StreamOpens(s, wants, slow) PROVE TypeOK'
  <2>1. Replayed(wants) \in [Topic -> Payload \cup {None}]
    BY ShownType DEF Replayed
  <2>2. stream' \in [Stream -> StreamRecord]
    BY <1>13, <2>1 DEF StreamOpens, TypeOK, StreamRecord
  <2> QED BY <1>13, <2>2 DEF StreamOpens, TypeOK, BrokerTypeOK, brokerVars
<1>14. ASSUME NEW s \in Stream, StreamCloses(s) PROVE TypeOK'
  <2>1. stream' \in [Stream -> StreamRecord]
    BY <1>14, BlankType DEF StreamCloses, TypeOK
  <2> QED BY <1>14, <2>1 DEF StreamCloses, TypeOK, BrokerTypeOK, brokerVars
<1>15. CASE UNCHANGED vars
  BY <1>15 DEF TypeOK, BrokerTypeOK, vars, brokerVars, bridgeVars
<1> QED
  BY <1>1, <1>2, <1>3, <1>4, <1>5, <1>6, <1>7, <1>8, <1>9, <1>10, <1>11, <1>12, <1>13, <1>14, <1>15 DEF Next

\* Type correctness: no handler of the bridge, in any order, leaves a state
\* outside the types of broker.js and server.js.
THEOREM TypeCorrect == Spec => []TypeOK
BY TypeInit, TypeStep, PTL DEF Spec

-----------------------------------------------------------------------------
(* Streams and the cache *)

\* A rebuild lasts no longer than its connection, and topics are missing only
\* during one.
RebuildsEnd ==
  /\ link = "down" => ~rebuilding
  /\ ~rebuilding => missing = {}

\* StreamsFollowCache is not inductive alone.  On 'connect' it takes RebuildsEnd
\* to know that no topic of an earlier rebuild is forgotten with the old
\* `missing`, and on the settle timer DepartedAreGone to know that a topic
\* announced deleted is not in the cache.
StreamsInv == StreamsFollowCache /\ DepartedAreGone /\ RebuildsEnd

LEMMA ShownFacts ==
  /\ Shown(None) = None
  /\ Shown(Empty) = None
  /\ \A p \in Value : Shown(p) = p
  /\ \A entry : Shown(Shown(entry)) = Shown(entry)
BY BrokerAssumption DEF Shown, Payload

\* What a stream is shown of a message reads like what the cache makes of it.
LEMMA ShownLikeCached ==
  ASSUME NEW t \in Topic, NEW p \in Payload, NEW flag \in BOOLEAN
  PROVE  /\ Shown(IF IsDelete(t, p, flag) THEN None ELSE p) = Shown(p)
         /\ Shown(CacheEntry(t, p, flag)) = Shown(p)
<1>1. CASE p \in Value
  BY <1>1, BrokerAssumption DEF IsDelete, CacheEntry
<1>2. CASE p = Empty
  BY <1>2, ShownFacts DEF IsDelete, CacheEntry
<1> QED BY <1>1, <1>2 DEF Payload

\* What an open stream has after a broadcast it had before, but for the topics
\* of the broadcast it asked for.
LEMMA AfterBroadcast ==
  ASSUME stream \in [Stream -> StreamRecord], NEW topics \in SUBSET Topic,
         NEW shown, NEW slow, Broadcast(topics, shown, slow),
         NEW s \in Stream, stream'[s].status = "open"
  PROVE  /\ stream[s].status = "open"
         /\ stream'[s].wants = stream[s].wants
         /\ \A t \in Topic : stream'[s].view[t] = IF t \in topics \cap stream[s].wants THEN shown[t] ELSE stream[s].view[t]
<1>0. stream[s] \in StreamRecord
  OBVIOUS
<1>1. CASE s \notin Readers(topics)
  <2>1. stream'[s] = stream[s]
    BY <1>1 DEF Broadcast
  <2>2. stream[s].wants \cap topics = {}
    BY <1>1, <2>1 DEF Readers
  <2> QED BY <2>1, <2>2
<1>2. CASE s \in Readers(topics)
  <2> DEFINE view == [t \in Topic |-> IF t \in topics \cap stream[s].wants THEN shown[t] ELSE stream[s].view[t]]
  <2>1. stream'[s] = [stream[s] EXCEPT !.status = IF s \in slow THEN "dropped" ELSE "open", !.view = view]
    BY <1>2 DEF Broadcast
  <2>2. stream'[s].wants = stream[s].wants /\ stream'[s].view = view
    <3> HIDE DEF view
    <3> QED BY <1>0, <2>1 DEF StreamRecord
  <2>3. stream[s].status = "open"
    BY <1>2 DEF Readers
  <2> QED BY <2>2, <2>3
<1> QED BY <1>1, <1>2

LEMMA StreamsInit == Init => StreamsInv
BY DEF Init, BrokerInit, StreamsInv, StreamsFollowCache, DepartedAreGone, RebuildsEnd, Closed

LEMMA StreamsStep == TypeOK /\ StreamsInv /\ [Next]_vars => StreamsInv'
<1> SUFFICES ASSUME TypeOK, StreamsInv, [Next]_vars PROVE StreamsInv'
  OBVIOUS
<1> USE DEF StreamsInv
<1>0. stream \in [Stream -> StreamRecord] /\ cache \in [Topic -> Payload \cup {None}]
      /\ missing \in SUBSET Topic /\ abandoned \in SUBSET Topic
  BY DEF TypeOK
<1>w. \A s \in Stream : stream[s].wants \in SUBSET Topic
  BY <1>0 DEF StreamRecord
<1>1. CASE BrokerNext /\ UNCHANGED bridgeVars
  <2>1. link' = link
    BY <1>1 DEF BrokerNext, BrokerSubscribes, BrokerAcks, BrokerReplays, BrokerTakes, ForeignPublish
  <2> QED BY <1>1, <2>1 DEF bridgeVars, StreamsFollowCache, DepartedAreGone, RebuildsEnd
<1>2. CASE Connect
  <2>1. missing = {}
    BY <1>2 DEF Connect, RebuildsEnd
  <2>2. cache' = Blank /\ missing' = Held /\ UNCHANGED <<stream, abandoned>> /\ rebuilding' /\ link' = "up"
    BY <1>2 DEF Connect, Cleared
  <2>3. StreamsFollowCache'
    <3> SUFFICES ASSUME NEW s \in Stream, stream[s].status = "open", NEW t \in stream[s].wants,
                        t \notin Held, t \notin abandoned
                 PROVE  Shown(stream[s].view[t]) = Shown(Blank[t])
      BY <2>2 DEF StreamsFollowCache
    <3>1. t \in Topic /\ cache[t] = None
      BY <1>w DEF Held
    <3>2. Shown(stream[s].view[t]) = Shown(cache[t])
      BY <2>1 DEF StreamsFollowCache
    <3> QED BY <3>1, <3>2 DEF Blank
  <2>4. DepartedAreGone'
    BY <2>2 DEF DepartedAreGone, Blank, Held
  <2>5. RebuildsEnd'
    BY <2>2 DEF RebuildsEnd
  <2> QED BY <2>3, <2>4, <2>5
<1>3. CASE Close
  <2>1. UNCHANGED <<cache, stream>> /\ missing' = {} /\ abandoned' = abandoned \cup missing /\ ~rebuilding'
    BY <1>3 DEF Close
  <2> QED BY <2>1 DEF StreamsFollowCache, DepartedAreGone, RebuildsEnd
<1>4. CASE SubackArrives
  BY <1>4 DEF SubackArrives, StreamsFollowCache, DepartedAreGone, RebuildsEnd
<1>5. CASE SubackAfterSettle
  BY <1>5 DEF SubackAfterSettle, Crash, StreamsFollowCache, DepartedAreGone, RebuildsEnd, Closed
<1>6. ASSUME NEW slow \in SUBSET Stream, MessageArrives(slow) PROVE StreamsInv'
  <2> DEFINE m == Head(toBridge)
             shown == [u \in {m.topic} |-> IF IsDelete(m.topic, m.payload, m.retain) THEN None ELSE m.payload]
  <2>1. m.topic \in Topic /\ m.payload \in Payload /\ m.retain \in BOOLEAN
    BY <1>6, HeadIsMessage DEF MessageArrives, TypeOK, BrokerTypeOK
  <2>2. Broadcast({m.topic}, shown, slow)
    BY <1>6 DEF MessageArrives
  <2>3. cache' = [cache EXCEPT ![m.topic] = CacheEntry(m.topic, m.payload, m.retain)]
        /\ missing' = missing \ {m.topic} /\ abandoned' = abandoned \ {m.topic}
        /\ UNCHANGED <<link, rebuilding>>
    BY <1>6 DEF MessageArrives
  <2>4. StreamsFollowCache'
    <3> SUFFICES ASSUME NEW s \in Stream, stream'[s].status = "open", NEW t \in stream'[s].wants
                 PROVE  Shown(stream'[s].view[t]) = Shown(cache'[t]) \/ t \in missing' \cup abandoned'
      BY DEF StreamsFollowCache
    <3>1. /\ stream[s].status = "open"
          /\ stream'[s].wants = stream[s].wants
          /\ \A u \in Topic : stream'[s].view[u] = IF u \in {m.topic} \cap stream[s].wants THEN shown[u] ELSE stream[s].view[u]
      <4> HIDE DEF shown, m
      <4>1. {m.topic} \in SUBSET Topic
        BY <2>1
      <4> QED BY <1>0, <2>2, <4>1, AfterBroadcast
    <3>2. t \in Topic
      BY <1>w, <3>1
    <3>3. CASE t = m.topic
      <4>1. stream'[s].view[t] = IF IsDelete(m.topic, m.payload, m.retain) THEN None ELSE m.payload
        BY <3>1, <3>2, <3>3
      <4>2. cache'[t] = CacheEntry(m.topic, m.payload, m.retain)
        BY <1>0, <2>3, <3>2, <3>3
      <4> QED BY <2>1, <4>1, <4>2, ShownLikeCached
    <3>4. CASE t # m.topic
      <4>1. stream'[s].view[t] = stream[s].view[t] /\ cache'[t] = cache[t]
        BY <1>0, <2>3, <3>1, <3>2, <3>4
      <4> HIDE DEF m
      <4> QED BY <2>3, <3>1, <3>4, <4>1 DEF StreamsFollowCache
    <3> QED BY <3>3, <3>4
  <2>5. DepartedAreGone'
    <3> HIDE DEF m
    <3> QED BY <1>0, <2>3 DEF DepartedAreGone
  <2>6. RebuildsEnd'
    BY <2>3 DEF RebuildsEnd
  <2> QED BY <2>4, <2>5, <2>6
<1>7. CASE Tick
  BY <1>7 DEF Tick, brokerVars, StreamsFollowCache, DepartedAreGone, RebuildsEnd
<1>8. ASSUME NEW slow \in SUBSET Stream, Settle(slow) PROVE StreamsInv'
  <2> DEFINE shown == [t \in missing |-> None]
  <2>1. Broadcast(missing, shown, slow) /\ missing' = {} /\ UNCHANGED <<link, cache, abandoned>> /\ ~rebuilding'
    BY <1>8 DEF Settle, brokerVars
  <2>2. StreamsFollowCache'
    <3> SUFFICES ASSUME NEW s \in Stream, stream'[s].status = "open", NEW t \in stream'[s].wants
                 PROVE  Shown(stream'[s].view[t]) = Shown(cache[t]) \/ t \in abandoned
      BY <2>1 DEF StreamsFollowCache
    <3>1. /\ stream[s].status = "open"
          /\ stream'[s].wants = stream[s].wants
          /\ \A u \in Topic : stream'[s].view[u] = IF u \in missing \cap stream[s].wants THEN shown[u] ELSE stream[s].view[u]
      <4> HIDE DEF shown
      <4> QED BY <1>0, <2>1, AfterBroadcast
    <3>2. t \in Topic
      BY <1>w, <3>1
    <3>3. CASE t \in missing
      BY <3>1, <3>2, <3>3 DEF DepartedAreGone
    <3>4. CASE t \notin missing
      BY <3>1, <3>2, <3>4 DEF StreamsFollowCache
    <3> QED BY <3>3, <3>4
  <2> QED BY <2>1, <2>2 DEF DepartedAreGone, RebuildsEnd
<1>9. ASSUME NEW r \in Request, PostArrives(r) \/ BodyFails(r) \/ BodyRead(r) \/ EchoTimeout(r) PROVE StreamsInv'
  <2>1. UNCHANGED <<link, rebuilding, missing, cache, stream, abandoned>>
    BY <1>9 DEF PostArrives, BodyFails, BodyRead, EchoTimeout, brokerVars
  <2> QED BY <2>1 DEF StreamsFollowCache, DepartedAreGone, RebuildsEnd
<1>10. ASSUME NEW s \in Stream, NEW wants \in Filter, NEW slow \in BOOLEAN, StreamOpens(s, wants, slow) PROVE StreamsInv'
  <2>1. UNCHANGED <<link, rebuilding, missing, cache, abandoned>>
        /\ stream' = [stream EXCEPT ![s] =
             [status |-> IF slow THEN "dropped" ELSE "open", wants |-> wants, view |-> Replayed(wants)]]
    BY <1>10 DEF StreamOpens, brokerVars
  <2>2. wants \in SUBSET Topic
    BY BridgeAssumption
  <2>3. \A t \in wants : Shown(Replayed(wants)[t]) = Shown(cache[t])
    BY <2>2, ShownFacts DEF Replayed
  <2>4. StreamsFollowCache'
    BY <1>0, <2>1, <2>3 DEF StreamsFollowCache
  <2> QED BY <2>1, <2>4 DEF DepartedAreGone, RebuildsEnd
<1>11. ASSUME NEW s \in Stream, StreamCloses(s) PROVE StreamsInv'
  <2>1. UNCHANGED <<link, rebuilding, missing, cache, abandoned>> /\ stream' = [stream EXCEPT ![s] = Closed]
    BY <1>11 DEF StreamCloses, brokerVars
  <2>2. StreamsFollowCache'
    BY <1>0, <2>1 DEF StreamsFollowCache, Closed
  <2> QED BY <2>1, <2>2 DEF DepartedAreGone, RebuildsEnd
<1>12. CASE UNCHANGED vars
  BY <1>12 DEF vars, brokerVars, bridgeVars, StreamsFollowCache, DepartedAreGone, RebuildsEnd
<1> QED BY <1>1, <1>2, <1>3, <1>4, <1>5, <1>6, <1>7, <1>8, <1>9, <1>10, <1>11, <1>12 DEF Next

\* An open stream shows what the cache holds of every topic it asked for, but
\* for the topics a reconnect took out of the cache: message, connection,
\* settle timer and stream events may come in any order.
THEOREM StreamsAgree == Spec => []StreamsFollowCache
<1>1. Init => TypeOK /\ StreamsInv
  BY TypeInit, StreamsInit
<1>2. TypeOK /\ StreamsInv /\ [Next]_vars => (TypeOK /\ StreamsInv)'
  BY TypeStep, StreamsStep
<1>3. StreamsInv => StreamsFollowCache
  BY DEF StreamsInv
<1> QED BY <1>1, <1>2, <1>3, PTL DEF Spec

\* The settle timer never announces deleted a topic the cache has a message on:
\* each message takes its topic out of `missing` before it enters the cache.
THEOREM DepartedGone == Spec => []DepartedAreGone
<1>1. Init => TypeOK /\ StreamsInv
  BY TypeInit, StreamsInit
<1>2. TypeOK /\ StreamsInv /\ [Next]_vars => (TypeOK /\ StreamsInv)'
  BY TypeStep, StreamsStep
<1>3. StreamsInv => DepartedAreGone
  BY DEF StreamsInv
<1> QED BY <1>1, <1>2, <1>3, PTL DEF Spec

-----------------------------------------------------------------------------
(* The subscription *)

\* A connection subscribes once: the SUBSCRIBE on its way, the SUBACK the
\* broker owes and the SUBACK on its way back exclude one another, and nothing
\* has come to the bridge, nor is owed to it, before the broker subscribed it.
Fresh == granted = {} /\ replay = {} /\ toBridge = <<>> /\ latest = [t \in Topic |-> Empty]

SubscriptionInv ==
  /\ link = "down" => ~ready /\ Fresh /\ ackDue = "no" /\ toBroker = <<>>
  /\ \A i \in 1..Len(toBroker) : toBroker[i].type = "subscribe" =>
       /\ ~ready /\ Fresh /\ ackDue = "no" /\ cache = Blank
       /\ \A j \in 1..Len(toBroker) : toBroker[j].type = "subscribe" => j = i
  /\ ackDue # "no" =>
       /\ ~ready
       /\ ackDue = "granted" => granted = Topic
       /\ \A i \in 1..Len(toBridge) : toBridge[i].type # "suback"
  /\ \A i \in 1..Len(toBridge) : toBridge[i].type = "suback" =>
       /\ ~ready
       /\ toBridge[i].granted => granted = Topic
       /\ \A j \in 1..Len(toBridge) : toBridge[j].type = "suback" => j = i
  /\ ready => granted = Topic
  /\ replay \subseteq granted

LEMMA TailFacts ==
  ASSUME NEW S, NEW s \in Seq(S), s # <<>>
  PROVE  /\ Len(s) \in Nat \ {0}
         /\ Head(s) = s[1]
         /\ Len(Tail(s)) = Len(s) - 1
         /\ \A i \in 1..Len(Tail(s)) : Tail(s)[i] = s[i + 1]
BY HeadTailProperties, EmptySeq

\* What a publish does to the packets and to what the broker sent last.
LEMMA AcceptEffect ==
  ASSUME TypeOK, NEW t \in Topic, NEW p \in Payload, NEW flag \in BOOLEAN, Accept(t, p, flag)
  PROVE  /\ replay' \subseteq replay
         /\ replay \ replay' \subseteq {t}
         /\ \/ t \notin granted /\ UNCHANGED <<toBridge, latest>>
            \/ t \in granted /\ Send(t, p, FALSE)
BY DEF Accept

\* A message sent is the last in flight, and `latest` of its topic.
LEMMA SendEffect ==
  ASSUME TypeOK, NEW t \in Topic, NEW p \in Payload, NEW flag \in BOOLEAN, Send(t, p, flag)
  PROVE  /\ Len(toBridge) \in Nat
         /\ Len(toBridge') = Len(toBridge) + 1
         /\ \A i \in 1..Len(toBridge) : toBridge'[i] = toBridge[i]
         /\ toBridge'[Len(toBridge) + 1].type = "message"
         /\ toBridge'[Len(toBridge) + 1].topic = t
         /\ toBridge'[Len(toBridge) + 1].payload = p
         /\ latest'[t] = p
         /\ \A u \in Topic : u # t => latest'[u] = latest[u]
<1> DEFINE m == [type |-> "message", topic |-> t, payload |-> p, retain |-> flag]
<1>1. m \in Message \cup Suback /\ m.type = "message" /\ m.topic = t /\ m.payload = p
  BY DEF Message
<1>2. toBridge' = Append(toBridge, m)
  BY DEF Send
<1>3. /\ Len(toBridge) \in Nat
      /\ Len(toBridge') = Len(toBridge) + 1
      /\ \A i \in 1..Len(toBridge) : toBridge'[i] = toBridge[i]
      /\ toBridge'[Len(toBridge) + 1] = m
  <2> HIDE DEF m
  <2> QED BY <1>1, <1>2, AppendProperties, LenProperties DEF TypeOK, BrokerTypeOK
<1>4. latest'[t] = p /\ \A u \in Topic : u # t => latest'[u] = latest[u]
  BY DEF Send, TypeOK, BrokerTypeOK
<1> QED BY <1>1, <1>3, <1>4

\* The broker taking a publish, or replaying a retained message, forwards at
\* most one message, and only under a subscription.
LEMMA ForwardKeepsSubscription ==
  ASSUME TypeOK, SubscriptionInv,
         UNCHANGED <<link, granted, ackDue, ready, cache>>, replay' \subseteq replay,
         \/ toBroker' = toBroker
         \/ toBroker # <<>> /\ toBroker' = Tail(toBroker),
         \/ UNCHANGED <<toBridge, latest>>
         \/ \E t \in granted, p \in Payload, flag \in BOOLEAN : Send(t, p, flag)
  PROVE  SubscriptionInv'
<1>1. \A i \in 1..Len(toBroker') : toBroker'[i].type = "subscribe" =>
        \E k \in 1..Len(toBroker) : /\ toBroker[k].type = "subscribe"
                                    /\ \A j \in 1..Len(toBroker') : toBroker'[j].type = "subscribe" => j = i
  <2>1. CASE toBroker' = toBroker
    BY <2>1 DEF SubscriptionInv
  <2>2. CASE toBroker # <<>> /\ toBroker' = Tail(toBroker)
    <3>1. /\ Len(toBroker) \in Nat \ {0} /\ Len(toBroker') = Len(toBroker) - 1
          /\ \A i \in 1..Len(toBroker') : toBroker'[i] = toBroker[i + 1]
      BY <2>2, TailFacts DEF TypeOK, BrokerTypeOK
    <3>2. \A i \in 1..Len(toBroker') : i \in Nat /\ i + 1 \in 1..Len(toBroker)
      BY <3>1
    <3>3. \A i, j \in 1..Len(toBroker') :
            toBroker'[i].type = "subscribe" /\ toBroker'[j].type = "subscribe" => j + 1 = i + 1
      BY <3>1, <3>2 DEF SubscriptionInv
    <3> QED BY <3>1, <3>2, <3>3
  <2> QED BY <2>1, <2>2
<1>2. CASE UNCHANGED <<toBridge, latest>>
  <2>1. \A i \in 1..Len(toBroker') : toBroker'[i].type = "subscribe" =>
          /\ ~ready' /\ Fresh' /\ ackDue' = "no" /\ cache' = Blank
          /\ \A j \in 1..Len(toBroker') : toBroker'[j].type = "subscribe" => j = i
    BY <1>1, <1>2 DEF SubscriptionInv, Fresh
  <2>2. link' = "down" => ~ready' /\ Fresh' /\ ackDue' = "no" /\ toBroker' = <<>>
    BY <1>2 DEF SubscriptionInv, Fresh
  <2> QED BY <1>2, <2>1, <2>2 DEF SubscriptionInv
<1>3. ASSUME NEW t \in granted, NEW p \in Payload, NEW flag \in BOOLEAN, Send(t, p, flag) PROVE SubscriptionInv'
  <2>0. t \in Topic
    BY DEF TypeOK, BrokerTypeOK
  <2>1. /\ Len(toBridge) \in Nat
        /\ Len(toBridge') = Len(toBridge) + 1
        /\ \A i \in 1..Len(toBridge) : toBridge'[i] = toBridge[i]
        /\ toBridge'[Len(toBridge) + 1].type = "message"
    BY <1>3, <2>0, SendEffect
  <2>2. link = "up"
    BY DEF SubscriptionInv, Fresh, TypeOK, BrokerTypeOK
  <2>3. \A i \in 1..Len(toBroker) : toBroker[i].type # "subscribe"
    BY DEF SubscriptionInv, Fresh
  <2>4. \A i \in 1..Len(toBroker') : toBroker'[i].type # "subscribe"
    BY <1>1, <2>3
  <2>5. \A i \in 1..Len(toBridge') : toBridge'[i].type = "suback" => i \in 1..Len(toBridge) /\ toBridge'[i] = toBridge[i]
    BY <2>1
  <2> QED BY <2>2, <2>4, <2>5 DEF SubscriptionInv
<1> QED BY <1>2, <1>3

LEMMA AcceptKeepsSubscription ==
  ASSUME TypeOK, SubscriptionInv, NEW t \in Topic, NEW p \in Payload, NEW flag \in BOOLEAN, Accept(t, p, flag),
         UNCHANGED <<link, granted, ackDue, ready, cache>>,
         \/ toBroker' = toBroker
         \/ toBroker # <<>> /\ toBroker' = Tail(toBroker)
  PROVE  SubscriptionInv'
<1>1. /\ replay' \subseteq replay
      /\ \/ UNCHANGED <<toBridge, latest>>
         \/ t \in granted /\ Send(t, p, FALSE)
  BY AcceptEffect
<1>2. \/ UNCHANGED <<toBridge, latest>>
      \/ \E u \in granted, q \in Payload, g \in BOOLEAN : Send(u, q, g)
  BY <1>1
<1> QED BY <1>1, <1>2, ForwardKeepsSubscription

LEMMA SubscriptionInit == Init => SubscriptionInv
<1> SUFFICES ASSUME Init PROVE SubscriptionInv
  OBVIOUS
<1>1. Len(<<>>) = 0
  BY EmptySeq
<1> QED BY <1>1 DEF Init, BrokerInit, SubscriptionInv, Fresh

LEMMA SubscriptionBroker == TypeOK /\ SubscriptionInv /\ BrokerNext /\ UNCHANGED bridgeVars => SubscriptionInv'
<1> SUFFICES ASSUME TypeOK, SubscriptionInv, BrokerNext, UNCHANGED <<ready, cache>> PROVE SubscriptionInv'
  BY DEF bridgeVars
<1> USE BrokerAssumption
<1>1. CASE BrokerSubscribes
  <2>1. /\ Len(toBroker) \in Nat \ {0} /\ toBroker[1].type = "subscribe"
        /\ Len(toBroker') = Len(toBroker) - 1
        /\ \A i \in 1..Len(toBroker') : toBroker'[i] = toBroker[i + 1]
    BY <1>1, TailFacts DEF BrokerSubscribes, TypeOK, BrokerTypeOK
  <2>2. \A i \in 1..Len(toBroker') : toBroker'[i].type # "subscribe"
    BY <2>1 DEF SubscriptionInv
  <2>3. ~ready /\ toBridge = <<>> /\ link = "up"
    BY <2>1, EmptySeq DEF SubscriptionInv, Fresh, TypeOK, BrokerTypeOK
  <2>4. UNCHANGED <<link, toBridge>> /\ (ackDue' = "granted" => granted' = Topic) /\ replay' \subseteq granted'
    BY <1>1 DEF BrokerSubscribes, Covers
  <2>5. Len(toBridge') = 0
    BY <2>3, <2>4, EmptySeq
  <2> QED BY <2>2, <2>3, <2>4, <2>5 DEF SubscriptionInv
<1>2. CASE BrokerAcks
  <2> DEFINE m == [type |-> "suback", granted |-> (ackDue = "granted")]
  <2>1. m \in Message \cup Suback /\ m.type = "suback" /\ m.granted = (ackDue = "granted")
    BY DEF Suback
  <2>2. toBridge' = Append(toBridge, m)
    BY <1>2 DEF BrokerAcks
  <2>3. /\ Len(toBridge) \in Nat
        /\ Len(toBridge') = Len(toBridge) + 1
        /\ \A i \in 1..Len(toBridge) : toBridge'[i] = toBridge[i]
        /\ toBridge'[Len(toBridge) + 1] = m
    <3> HIDE DEF m
    <3> QED BY <2>1, <2>2, AppendProperties, LenProperties DEF TypeOK, BrokerTypeOK
  <2>4. /\ ackDue # "no" /\ ackDue' = "no"
        /\ UNCHANGED <<link, granted, replay, toBroker, latest>>
    BY <1>2 DEF BrokerAcks
  <2>5. /\ link # "down" /\ ~ready /\ (ackDue = "granted" => granted = Topic)
        /\ \A i \in 1..Len(toBroker) : toBroker[i].type # "subscribe"
        /\ \A i \in 1..Len(toBridge) : toBridge[i].type # "suback"
    BY <2>4 DEF SubscriptionInv
  <2>6. \A i \in 1..Len(toBridge') : toBridge'[i].type = "suback" => i = Len(toBridge) + 1
    BY <2>3, <2>5
  <2>7. toBridge'[Len(toBridge) + 1].granted => granted = Topic
    BY <2>1, <2>3, <2>5
  <2> QED BY <2>4, <2>5, <2>6, <2>7 DEF SubscriptionInv
<1>3. ASSUME NEW t \in Topic, BrokerReplays(t) PROVE SubscriptionInv'
  <2>1. /\ Send(t, retained[t], TRUE) /\ retained[t] \in Payload
        /\ t \in replay /\ replay' \subseteq replay
        /\ UNCHANGED <<link, granted, ackDue, toBroker>>
    BY <1>3 DEF BrokerReplays, TypeOK, BrokerTypeOK
  <2>2. \E u \in granted, p \in Payload, flag \in BOOLEAN : Send(u, p, flag)
    BY <2>1 DEF SubscriptionInv
  <2> QED BY <2>1, <2>2, ForwardKeepsSubscription
<1>4. CASE BrokerTakes
  <2>1. Head(toBroker).topic \in Topic /\ Head(toBroker).payload \in Payload
    BY <1>4, HeadIsPublish DEF BrokerTakes, TypeOK, BrokerTypeOK
  <2>2. /\ Accept(Head(toBroker).topic, Head(toBroker).payload, TRUE)
        /\ toBroker # <<>> /\ toBroker' = Tail(toBroker)
        /\ UNCHANGED <<link, granted, ackDue>>
    BY <1>4 DEF BrokerTakes
  <2> QED BY <2>1, <2>2, AcceptKeepsSubscription
<1>5. ASSUME NEW t \in Topic, NEW p \in Payload, NEW flag \in RetainFlags, ForeignPublish(t, p, flag)
      PROVE  SubscriptionInv'
  <2>1. flag \in BOOLEAN /\ Accept(t, p, flag) /\ UNCHANGED <<link, granted, ackDue, toBroker>>
    BY <1>5 DEF ForeignPublish
  <2> QED BY <2>1, AcceptKeepsSubscription
<1> QED BY <1>1, <1>2, <1>3, <1>4, <1>5 DEF BrokerNext

LEMMA SubscriptionStep == TypeOK /\ SubscriptionInv /\ [Next]_vars => SubscriptionInv'
<1> SUFFICES ASSUME TypeOK, SubscriptionInv, [Next]_vars PROVE SubscriptionInv'
  OBVIOUS
<1>0. Len(<<>>) = 0
  BY EmptySeq
<1>1. CASE BrokerNext /\ UNCHANGED bridgeVars
  BY <1>1, SubscriptionBroker
<1>2. CASE Connect
  <2> DEFINE m == [type |-> "subscribe"]
  <2>1. /\ ~ready /\ Fresh /\ ackDue = "no"
        /\ link' = "up" /\ cache' = Blank
        /\ UNCHANGED <<granted, replay, ackDue, toBridge, latest, ready>>
    BY <1>2 DEF Connect, Cleared, SubscriptionInv
  <2>2. m \in Publish \cup Subscribe /\ m.type = "subscribe"
    BY DEF Subscribe
  <2>3. queue \in Seq(Publish \cup Subscribe) /\ \A i \in 1..Len(queue) : queue[i].type = "publish"
    <3>1. queue \in Seq(Publish)
      BY DEF TypeOK
    <3>2. \A i \in 1..Len(queue) : queue[i] \in Publish
      BY <3>1, ElementOfSeq
    <3> QED BY <3>1, <3>2, SeqMonotonic DEF Publish
  <2>4. /\ Len(queue) \in Nat /\ Len(toBroker') = Len(queue) + 1
        /\ \A i \in 1..Len(queue) : toBroker'[i] = queue[i]
        /\ toBroker'[Len(queue) + 1] = m
    <3>1. toBroker' = Append(queue, m)
      BY <1>2 DEF Connect
    <3> HIDE DEF m
    <3> QED BY <2>2, <2>3, <3>1, AppendProperties, LenProperties
  <2>5. \A i \in 1..Len(toBroker') : toBroker'[i].type = "subscribe" => i = Len(queue) + 1
    BY <2>3, <2>4
  <2> QED BY <1>0, <2>1, <2>5 DEF SubscriptionInv, Fresh
<1>3. CASE Close \/ SubackAfterSettle
  <2>1. Disconnected /\ ~ready'
    BY <1>3 DEF Close, SubackAfterSettle, Crash
  <2> QED BY <1>0, <2>1 DEF Disconnected, SubscriptionInv, Fresh
<1>4. CASE SubackArrives
  <2>1. /\ toBridge # <<>> /\ Head(toBridge).type = "suback" /\ toBridge' = Tail(toBridge)
        /\ ready' = Head(toBridge).granted
        /\ UNCHANGED <<link, granted, replay, ackDue, toBroker, latest, cache>>
    BY <1>4 DEF SubackArrives, NextIs
  <2>2. /\ Len(toBridge) \in Nat \ {0} /\ Head(toBridge) = toBridge[1]
        /\ Len(toBridge') = Len(toBridge) - 1
        /\ \A i \in 1..Len(toBridge') : toBridge'[i] = toBridge[i + 1]
    BY <2>1, TailFacts DEF TypeOK, BrokerTypeOK
  <2>0. 1 \in 1..Len(toBridge) /\ toBridge[1].type = "suback"
    BY <2>1, <2>2
  <2>3. ready' => granted' = Topic
    <3>1. toBridge[1].granted => granted = Topic
      BY <2>0 DEF SubscriptionInv
    <3>2. ready' = toBridge[1].granted
      BY <2>1, <2>2
    <3>3. ready' => toBridge[1].granted
      BY <3>2, Zenon
    <3> QED BY <2>1, <3>1, <3>3
  <2>4. \A i \in 1..Len(toBridge') : toBridge'[i].type # "suback"
    <3>1. \A j \in 1..Len(toBridge) : toBridge[j].type = "suback" => j = 1
      BY <2>0 DEF SubscriptionInv
    <3>2. \A i \in 1..Len(toBridge') : i \in Nat \ {0} /\ i + 1 \in 1..Len(toBridge)
      BY <2>2
    <3> QED BY <2>2, <3>1, <3>2
  <2>5. link = "up" /\ ackDue = "no" /\ \A i \in 1..Len(toBroker) : toBroker[i].type # "subscribe"
    BY <2>1, <2>2 DEF SubscriptionInv, Fresh, TypeOK, BrokerTypeOK
  <2> QED BY <2>1, <2>3, <2>4, <2>5 DEF SubscriptionInv
<1>5. ASSUME NEW slow \in SUBSET Stream, MessageArrives(slow) PROVE SubscriptionInv'
  <2>1. /\ toBridge # <<>> /\ toBridge' = Tail(toBridge)
        /\ UNCHANGED <<link, granted, replay, ackDue, toBroker, latest, ready>>
    BY <1>5 DEF MessageArrives, NextIs
  <2>2. /\ Len(toBridge) \in Nat \ {0}
        /\ Len(toBridge') = Len(toBridge) - 1
        /\ \A i \in 1..Len(toBridge') : toBridge'[i] = toBridge[i + 1]
    BY <2>1, TailFacts DEF TypeOK, BrokerTypeOK
  <2>3. link = "up" /\ \A i \in 1..Len(toBroker) : toBroker[i].type # "subscribe"
    BY <2>1 DEF SubscriptionInv, Fresh, TypeOK, BrokerTypeOK
  <2>4. \A i \in 1..Len(toBridge') : i \in Nat /\ i + 1 \in 1..Len(toBridge) /\ toBridge'[i] = toBridge[i + 1]
    BY <2>2
  <2>5. \A i \in 1..Len(toBridge') : toBridge'[i].type = "suback" =>
          /\ ~ready
          /\ toBridge'[i].granted => granted = Topic
          /\ \A j \in 1..Len(toBridge') : toBridge'[j].type = "suback" => j = i
    BY <2>4 DEF SubscriptionInv
  <2>6. ackDue # "no" => \A i \in 1..Len(toBridge') : toBridge'[i].type # "suback"
    BY <2>4 DEF SubscriptionInv
  <2> QED BY <2>1, <2>3, <2>5, <2>6 DEF SubscriptionInv
<1>6. ASSUME NEW r \in Request, BodyRead(r) PROVE SubscriptionInv'
  <2> DEFINE packet == [type |-> "publish", topic |-> request[r].topic, payload |-> request[r].payload]
  <2>1. UNCHANGED <<link, granted, replay, ackDue, toBridge, latest, ready, cache>>
    BY <1>6 DEF BodyRead
  <2>2. CASE toBroker' = toBroker
    BY <2>1, <2>2 DEF SubscriptionInv, Fresh
  <2>3. CASE link = "up" /\ toBroker' = Append(toBroker, packet)
    <3>1. packet \in Publish \cup Subscribe /\ packet.type = "publish"
      BY DEF TypeOK, RequestRecord, Publish
    <3>2. /\ Len(toBroker) \in Nat /\ Len(toBroker') = Len(toBroker) + 1
          /\ \A i \in 1..Len(toBroker) : toBroker'[i] = toBroker[i]
          /\ toBroker'[Len(toBroker) + 1].type = "publish"
      <4> HIDE DEF packet
      <4> QED BY <2>3, <3>1, AppendProperties, LenProperties DEF TypeOK, BrokerTypeOK
    <3>3. \A i \in 1..Len(toBroker') : toBroker'[i].type = "subscribe" =>
            i \in 1..Len(toBroker) /\ toBroker[i].type = "subscribe"
      BY <3>2
    <3> QED BY <2>1, <2>3, <3>3 DEF SubscriptionInv, Fresh
  <2> QED BY <1>6, <2>2, <2>3 DEF BodyRead
<1>7. ASSUME UNCHANGED <<link, granted, replay, ackDue, toBroker, toBridge, latest, ready, cache>> PROVE SubscriptionInv'
  BY <1>7 DEF SubscriptionInv, Fresh
<1>8. CASE UNCHANGED vars
  BY <1>7, <1>8 DEF vars, brokerVars, bridgeVars
<1>9. CASE \/ Tick
           \/ \E slow \in SUBSET Stream : Settle(slow)
           \/ \E r \in Request : PostArrives(r) \/ BodyFails(r) \/ EchoTimeout(r)
           \/ \E s \in Stream, wants \in Filter, slow \in BOOLEAN : StreamOpens(s, wants, slow)
           \/ \E s \in Stream : StreamCloses(s)
  BY <1>7, <1>9 DEF Tick, Settle, PostArrives, BodyFails, EchoTimeout, StreamOpens, StreamCloses, brokerVars
<1> QED BY <1>1, <1>2, <1>3, <1>4, <1>5, <1>6, <1>8, <1>9 DEF Next

\* While the bridge says it is ready, the connection is up, the broker has
\* granted the subscription to every topic, and no SUBACK is outstanding.
THEOREM ReadyIsSubscribed == Spec => []ReadyMeansSubscribed
<1>1. Init => TypeOK /\ SubscriptionInv
  BY TypeInit, SubscriptionInit
<1>2. TypeOK /\ SubscriptionInv /\ [Next]_vars => (TypeOK /\ SubscriptionInv)'
  BY TypeStep, SubscriptionStep
<1>3. TypeOK /\ SubscriptionInv => ReadyMeansSubscribed
  BY DEF TypeOK, BrokerTypeOK, SubscriptionInv, ReadyMeansSubscribed
<1> QED BY <1>1, <1>2, <1>3, PTL DEF Spec

-----------------------------------------------------------------------------
(* The cache follows the broker *)

MessageAt(i) == i \in 1..Len(toBridge) /\ toBridge[i].type = "message"

\* The last message in flight on a topic is the last the broker sent on it.
LastIsLatest ==
  \A i \in 1..Len(toBridge) :
    /\ toBridge[i].type = "message"
    /\ \A j \in 1..Len(toBridge) : toBridge[j].type = "message" /\ j > i => toBridge[j].topic # toBridge[i].topic
    => toBridge[i].payload = latest[toBridge[i].topic]

\* CacheInBrokerOrder is not inductive alone: the message that ends what is in
\* flight on a topic must be the latest.
OrderInv == LastIsLatest /\ CacheInBrokerOrder

\* A message the broker sends is the last in flight on its topic.
LEMMA SendKeepsOrder ==
  ASSUME TypeOK, OrderInv, NEW t \in Topic, NEW p \in Payload, NEW flag \in BOOLEAN, Send(t, p, flag),
         UNCHANGED <<link, cache>>, replay \ replay' \subseteq {t}
  PROVE  OrderInv'
<1> USE DEF OrderInv
<1>1. /\ Len(toBridge) \in Nat
      /\ Len(toBridge') = Len(toBridge) + 1
      /\ \A i \in 1..Len(toBridge) : toBridge'[i] = toBridge[i]
      /\ toBridge'[Len(toBridge) + 1].type = "message"
      /\ toBridge'[Len(toBridge) + 1].topic = t
      /\ toBridge'[Len(toBridge) + 1].payload = p
      /\ latest'[t] = p
      /\ \A u \in Topic : u # t => latest'[u] = latest[u]
  BY SendEffect
<1>2. \A i \in 1..Len(toBridge) : toBridge[i].type = "message" => toBridge[i].topic \in Topic
  <2>1. \A i \in 1..Len(toBridge) : toBridge[i] \in Message \cup Suback
    BY ElementOfSeq DEF TypeOK, BrokerTypeOK
  <2> QED BY <2>1 DEF Message, Suback
<1>3. LastIsLatest'
  <2> SUFFICES ASSUME NEW i \in 1..Len(toBridge'), toBridge'[i].type = "message",
                      \A j \in 1..Len(toBridge') :
                        toBridge'[j].type = "message" /\ j > i => toBridge'[j].topic # toBridge'[i].topic
               PROVE  toBridge'[i].payload = latest'[toBridge'[i].topic]
    BY DEF LastIsLatest
  <2>1. CASE i = Len(toBridge) + 1
    BY <1>1, <2>1
  <2>2. CASE i # Len(toBridge) + 1
    <3>1. i \in 1..Len(toBridge) /\ toBridge'[i] = toBridge[i] /\ Len(toBridge) + 1 > i
          /\ Len(toBridge) + 1 \in 1..Len(toBridge')
      BY <1>1, <2>2
    <3>2. toBridge[i].topic # t
      BY <1>1, <3>1
    <3>3. \A j \in 1..Len(toBridge) : toBridge[j].type = "message" /\ j > i => toBridge[j].topic # toBridge[i].topic
      BY <1>1, <3>1
    <3>4. toBridge[i].payload = latest[toBridge[i].topic]
      BY <3>1, <3>3 DEF LastIsLatest
    <3> QED BY <1>1, <1>2, <3>1, <3>2, <3>4
  <2> QED BY <2>1, <2>2
<1>4. CacheInBrokerOrder'
  <2> SUFFICES ASSUME link' = "up", NEW u \in Topic, u \notin replay'
               PROVE  InFlightOn(u)' \/ Shown(cache[u]) = Shown(latest'[u])
    BY DEF CacheInBrokerOrder
  <2>1. CASE u = t
    <3>1. Len(toBridge) + 1 \in 1..Len(toBridge')
      BY <1>1
    <3> QED BY <1>1, <2>1, <3>1 DEF InFlightOn
  <2>2. CASE u # t
    <3>1. InFlightOn(u) => InFlightOn(u)'
      <4> SUFFICES ASSUME NEW i \in 1..Len(toBridge), toBridge[i].type = "message", toBridge[i].topic = u
                   PROVE  InFlightOn(u)'
        BY DEF InFlightOn
      <4>1. i \in 1..Len(toBridge') /\ toBridge'[i] = toBridge[i]
        BY <1>1
      <4> QED BY <4>1 DEF InFlightOn
    <3>2. u \notin replay
      BY <2>2
    <3> QED BY <1>1, <2>2, <3>1, <3>2 DEF CacheInBrokerOrder
  <2> QED BY <2>1, <2>2
<1> QED BY <1>3, <1>4

\* A publish keeps the order, forwarded or not: what it takes out of the
\* retained replay is forwarded.
LEMMA AcceptKeepsOrder ==
  ASSUME TypeOK, SubscriptionInv, OrderInv, NEW t \in Topic, NEW p \in Payload, NEW flag \in BOOLEAN,
         Accept(t, p, flag), UNCHANGED <<link, cache>>
  PROVE  OrderInv'
<1>1. /\ replay' \subseteq replay
      /\ replay \ replay' \subseteq {t}
      /\ \/ t \notin granted /\ UNCHANGED <<toBridge, latest>>
         \/ t \in granted /\ Send(t, p, FALSE)
  BY AcceptEffect
<1>2. CASE t \notin granted /\ UNCHANGED <<toBridge, latest>>
  <2>1. replay' = replay
    <3>1. \A u : u \in replay <=> u \in replay'
      BY <1>1, <1>2 DEF SubscriptionInv
    <3> QED BY <3>1, Zenon
  <2> QED BY <1>2, <2>1 DEF OrderInv, LastIsLatest, CacheInBrokerOrder, InFlightOn
<1>3. CASE Send(t, p, FALSE)
  BY <1>1, <1>3, SendKeepsOrder
<1> QED BY <1>1, <1>2, <1>3

LEMMA OrderBroker == TypeOK /\ SubscriptionInv /\ OrderInv /\ BrokerNext /\ UNCHANGED bridgeVars => OrderInv'
<1> SUFFICES ASSUME TypeOK, SubscriptionInv, OrderInv, BrokerNext, UNCHANGED cache PROVE OrderInv'
  BY DEF bridgeVars
<1> USE BrokerAssumption
<1>1. CASE BrokerSubscribes
  <2>1. Len(toBroker) \in Nat \ {0} /\ toBroker[1].type = "subscribe"
    BY <1>1, TailFacts DEF BrokerSubscribes, TypeOK, BrokerTypeOK
  <2>2. toBridge = <<>> /\ cache = Blank /\ 1 \in 1..Len(toBroker)
    BY <2>1 DEF SubscriptionInv, Fresh
  <2>3. toBridge' = toBridge /\ Len(toBridge) = 0
    BY <1>1, <2>2, EmptySeq DEF BrokerSubscribes
  <2>4. PICK topics \in SUBSET Topic : Covers(topics)
    BY <1>1 DEF BrokerSubscribes
  <2>5. \A t \in Topic : t \in replay' \/ latest'[t] = Empty
    BY <2>4 DEF Covers
  <2>6. \A t \in Topic : t \in replay' \/ Shown(cache'[t]) = Shown(latest'[t])
    BY <2>2, <2>5, ShownFacts DEF Blank
  <2> QED BY <2>3, <2>6 DEF OrderInv, LastIsLatest, CacheInBrokerOrder
<1>2. CASE BrokerAcks
  <2> DEFINE m == [type |-> "suback", granted |-> (ackDue = "granted")]
  <2>1. m \in Message \cup Suback /\ m.type = "suback"
    BY DEF Suback
  <2>2. toBridge' = Append(toBridge, m) /\ UNCHANGED <<link, replay, latest>>
    BY <1>2 DEF BrokerAcks
  <2>3. /\ Len(toBridge) \in Nat
        /\ Len(toBridge') = Len(toBridge) + 1
        /\ \A i \in 1..Len(toBridge) : toBridge'[i] = toBridge[i]
        /\ toBridge'[Len(toBridge) + 1].type = "suback"
    <3> HIDE DEF m
    <3> QED BY <2>1, <2>2, AppendProperties, LenProperties DEF TypeOK, BrokerTypeOK
  <2>4. \A i \in 1..Len(toBridge') : toBridge'[i].type = "message" => i \in 1..Len(toBridge) /\ toBridge'[i] = toBridge[i]
    BY <2>3
  <2>5. \A i \in 1..Len(toBridge) : i \in 1..Len(toBridge') /\ toBridge'[i] = toBridge[i]
    BY <2>3
  <2>6. LastIsLatest'
    BY <2>2, <2>4, <2>5 DEF OrderInv, LastIsLatest
  <2>7. \A t \in Topic : InFlightOn(t) => InFlightOn(t)'
    BY <2>5 DEF InFlightOn
  <2> QED BY <2>2, <2>6, <2>7 DEF OrderInv, CacheInBrokerOrder
<1>3. ASSUME NEW t \in Topic, BrokerReplays(t) PROVE OrderInv'
  <2>1. /\ Send(t, retained[t], TRUE) /\ retained[t] \in Payload
        /\ replay \ replay' \subseteq {t}
        /\ UNCHANGED link
    BY <1>3 DEF BrokerReplays, TypeOK, BrokerTypeOK
  <2> QED BY <2>1, SendKeepsOrder
<1>4. CASE BrokerTakes
  <2>1. Head(toBroker).topic \in Topic /\ Head(toBroker).payload \in Payload
    BY <1>4, HeadIsPublish DEF BrokerTakes, TypeOK, BrokerTypeOK
  <2>2. Accept(Head(toBroker).topic, Head(toBroker).payload, TRUE) /\ UNCHANGED link
    BY <1>4 DEF BrokerTakes
  <2> QED BY <2>1, <2>2, AcceptKeepsOrder
<1>5. ASSUME NEW t \in Topic, NEW p \in Payload, NEW flag \in RetainFlags, ForeignPublish(t, p, flag)
      PROVE  OrderInv'
  <2>1. flag \in BOOLEAN /\ Accept(t, p, flag) /\ UNCHANGED link
    BY <1>5 DEF ForeignPublish
  <2> QED BY <2>1, AcceptKeepsOrder
<1> QED BY <1>1, <1>2, <1>3, <1>4, <1>5 DEF BrokerNext

\* Taking the first packet off leaves LastIsLatest, and everything in flight on
\* the topics it is not a message on.
LEMMA TailKeepsOrder ==
  ASSUME TypeOK, LastIsLatest, toBridge # <<>>, toBridge' = Tail(toBridge), UNCHANGED latest
  PROVE  /\ LastIsLatest'
         /\ \A t \in Topic : InFlightOn(t) => InFlightOn(t)' \/ (Head(toBridge).type = "message" /\ Head(toBridge).topic = t)
         /\ \A t \in Topic : Head(toBridge).type = "message" /\ Head(toBridge).topic = t /\ ~InFlightOn(t)'
              => Head(toBridge).payload = latest[t]
<1>1. /\ Len(toBridge) \in Nat \ {0} /\ Head(toBridge) = toBridge[1]
      /\ Len(toBridge') = Len(toBridge) - 1
      /\ \A i \in 1..Len(toBridge') : toBridge'[i] = toBridge[i + 1]
  BY TailFacts DEF TypeOK, BrokerTypeOK
<1>2. \A i \in 1..Len(toBridge') : i \in Nat /\ i + 1 \in 1..Len(toBridge) /\ toBridge'[i] = toBridge[i + 1]
  BY <1>1
<1>3. \A i \in 1..Len(toBridge) : i # 1 => i \in Nat /\ i - 1 \in 1..Len(toBridge') /\ toBridge'[i - 1] = toBridge[i]
  BY <1>1
<1>4. LastIsLatest'
  <2> SUFFICES ASSUME NEW i \in 1..Len(toBridge'), toBridge'[i].type = "message",
                      \A j \in 1..Len(toBridge') :
                        toBridge'[j].type = "message" /\ j > i => toBridge'[j].topic # toBridge'[i].topic
               PROVE  toBridge'[i].payload = latest[toBridge'[i].topic]
    BY DEF LastIsLatest
  <2>1. ASSUME NEW j \in 1..Len(toBridge), toBridge[j].type = "message", j > i + 1
        PROVE  toBridge[j].topic # toBridge[i + 1].topic
    <3>1. i \in Nat /\ i # 0
      BY <1>1
    <3>2. j # 1 /\ j - 1 > i
      BY <1>1, <2>1, <3>1
    <3>3. j - 1 \in 1..Len(toBridge') /\ toBridge'[j - 1] = toBridge[j]
      BY <1>3, <3>2
    <3> QED BY <1>2, <2>1, <3>2, <3>3
  <2> QED BY <1>2, <2>1 DEF LastIsLatest
<1>5. ASSUME NEW t \in Topic, InFlightOn(t), ~(Head(toBridge).type = "message" /\ Head(toBridge).topic = t)
      PROVE  InFlightOn(t)'
  <2>1. PICK i \in 1..Len(toBridge) : toBridge[i].type = "message" /\ toBridge[i].topic = t
    BY <1>5 DEF InFlightOn
  <2> QED BY <1>1, <1>3, <1>5, <2>1 DEF InFlightOn
<1>6. ASSUME NEW t \in Topic, Head(toBridge).type = "message", Head(toBridge).topic = t, ~InFlightOn(t)'
      PROVE  Head(toBridge).payload = latest[t]
  <2>1. \A j \in 1..Len(toBridge) : toBridge[j].type = "message" /\ j > 1 => toBridge[j].topic # t
    <3>1. \A k \in 1..Len(toBridge') : toBridge'[k].type = "message" => toBridge'[k].topic # t
      BY <1>6 DEF InFlightOn
    <3>2. \A j \in 1..Len(toBridge) : j > 1 => j - 1 \in 1..Len(toBridge') /\ toBridge'[j - 1] = toBridge[j]
      BY <1>3
    <3> QED BY <3>1, <3>2
  <2>2. 1 \in 1..Len(toBridge)
    BY <1>1
  <2> QED BY <1>1, <1>6, <2>1, <2>2 DEF LastIsLatest
<1> QED BY <1>4, <1>5, <1>6

LEMMA OrderInit == Init => OrderInv
<1> SUFFICES ASSUME Init PROVE OrderInv
  OBVIOUS
<1>1. Len(<<>>) = 0
  BY EmptySeq
<1> QED BY <1>1 DEF Init, BrokerInit, OrderInv, LastIsLatest, CacheInBrokerOrder

LEMMA OrderStep == TypeOK /\ SubscriptionInv /\ OrderInv /\ [Next]_vars => OrderInv'
<1> SUFFICES ASSUME TypeOK, SubscriptionInv, OrderInv, [Next]_vars PROVE OrderInv'
  OBVIOUS
<1>0. Len(<<>>) = 0
  BY EmptySeq
<1>1. CASE BrokerNext /\ UNCHANGED bridgeVars
  BY <1>1, OrderBroker
<1>2. CASE Connect
  <2>1. Fresh /\ cache' = Blank /\ UNCHANGED <<toBridge, latest, replay>>
    BY <1>2 DEF Connect, Cleared, SubscriptionInv
  <2>2. \A t \in Topic : Shown(cache'[t]) = Shown(latest'[t])
    BY <2>1, ShownFacts DEF Fresh, Blank
  <2> QED BY <1>0, <2>1, <2>2 DEF Fresh, OrderInv, LastIsLatest, CacheInBrokerOrder
<1>3. CASE Close \/ SubackAfterSettle
  <2>1. Disconnected
    BY <1>3 DEF Close, SubackAfterSettle, Crash
  <2> QED BY <1>0, <2>1 DEF Disconnected, OrderInv, LastIsLatest, CacheInBrokerOrder
<1>4. CASE SubackArrives
  <2>1. /\ toBridge # <<>> /\ Head(toBridge).type # "message" /\ toBridge' = Tail(toBridge)
        /\ UNCHANGED <<link, replay, latest, cache>>
    BY <1>4 DEF SubackArrives, NextIs
  <2>2. LastIsLatest' /\ \A t \in Topic : InFlightOn(t) => InFlightOn(t)'
    BY <2>1, TailKeepsOrder DEF OrderInv
  <2> QED BY <2>1, <2>2 DEF OrderInv, CacheInBrokerOrder
<1>5. ASSUME NEW slow \in SUBSET Stream, MessageArrives(slow) PROVE OrderInv'
  <2> DEFINE m == Head(toBridge)
  <2>1. /\ toBridge # <<>> /\ m.type = "message" /\ toBridge' = Tail(toBridge)
        /\ UNCHANGED <<link, replay, latest>>
        /\ cache' = [cache EXCEPT ![m.topic] = CacheEntry(m.topic, m.payload, m.retain)]
    BY <1>5 DEF MessageArrives, NextIs
  <2>2. m.topic \in Topic /\ m.payload \in Payload /\ m.retain \in BOOLEAN
    BY <1>5, HeadIsMessage DEF MessageArrives, TypeOK, BrokerTypeOK
  <2>3. /\ LastIsLatest'
        /\ \A t \in Topic : InFlightOn(t) => InFlightOn(t)' \/ m.topic = t
        /\ \A t \in Topic : m.topic = t /\ ~InFlightOn(t)' => m.payload = latest[t]
    <3>1. LastIsLatest
      BY DEF OrderInv
    <3>2. /\ LastIsLatest'
          /\ \A t \in Topic : InFlightOn(t) => InFlightOn(t)' \/ (m.type = "message" /\ m.topic = t)
          /\ \A t \in Topic : m.type = "message" /\ m.topic = t /\ ~InFlightOn(t)' => m.payload = latest[t]
      BY <2>1, <3>1, TailKeepsOrder
    <3> HIDE DEF m
    <3> QED BY <2>1, <2>2, <3>2
  <2>4. /\ Shown(cache'[m.topic]) = Shown(m.payload)
        /\ \A t \in Topic : t # m.topic => cache'[t] = cache[t]
    BY <2>1, <2>2, ShownLikeCached DEF TypeOK
  <2> HIDE DEF m
  <2>5. CacheInBrokerOrder'
    <3> SUFFICES ASSUME link' = "up", NEW t \in Topic, t \notin replay', ~InFlightOn(t)'
                 PROVE  Shown(cache'[t]) = Shown(latest'[t])
      BY DEF CacheInBrokerOrder
    <3>1. CASE t = m.topic
      BY <2>1, <2>3, <2>4, <3>1
    <3>2. CASE t # m.topic
      <4>1. ~InFlightOn(t)
        BY <2>3, <3>2
      <4>2. Shown(cache[t]) = Shown(latest[t])
        BY <2>1, <4>1 DEF OrderInv, CacheInBrokerOrder
      <4> QED BY <2>1, <2>4, <3>2, <4>2
    <3> QED BY <3>1, <3>2
  <2> QED BY <2>3, <2>5 DEF OrderInv
<1>6. ASSUME UNCHANGED <<link, replay, toBridge, latest, cache>> PROVE OrderInv'
  BY <1>6 DEF OrderInv, LastIsLatest, CacheInBrokerOrder, InFlightOn
<1>7. CASE UNCHANGED vars
  BY <1>6, <1>7 DEF vars, brokerVars, bridgeVars
<1>8. CASE \/ Tick
           \/ \E slow \in SUBSET Stream : Settle(slow)
           \/ \E r \in Request : PostArrives(r) \/ BodyFails(r) \/ BodyRead(r) \/ EchoTimeout(r)
           \/ \E s \in Stream, wants \in Filter, slow \in BOOLEAN : StreamOpens(s, wants, slow)
           \/ \E s \in Stream : StreamCloses(s)
  BY <1>6, <1>8 DEF Tick, Settle, PostArrives, BodyFails, BodyRead, EchoTimeout, StreamOpens, StreamCloses, brokerVars
<1> QED BY <1>1, <1>2, <1>3, <1>4, <1>5, <1>7, <1>8 DEF Next

\* Once nothing on a topic is in flight or owed by the retained replay, the
\* cache shows the last thing the broker sent on it over this connection.
THEOREM CacheFollowsBroker == Spec => []CacheInBrokerOrder
<1>1. Init => TypeOK /\ SubscriptionInv /\ OrderInv
  BY TypeInit, SubscriptionInit, OrderInit
<1>2. TypeOK /\ SubscriptionInv /\ OrderInv /\ [Next]_vars => (TypeOK /\ SubscriptionInv /\ OrderInv)'
  BY TypeStep, SubscriptionStep, OrderStep
<1>3. OrderInv => CacheInBrokerOrder
  BY DEF OrderInv
<1> QED BY <1>1, <1>2, <1>3, PTL DEF Spec

-----------------------------------------------------------------------------
(* Waiters *)

LEMMA WaitersInit == Init => WaitersTracked
BY DEF Init, WaitersTracked

LEMMA WaitersStep == TypeOK /\ WaitersTracked /\ [Next]_vars => WaitersTracked'
<1> SUFFICES ASSUME TypeOK, WaitersTracked, [Next]_vars PROVE WaitersTracked'
  OBVIOUS
<1>0. /\ request \in [Request -> RequestRecord] /\ waiting \in [Topic -> SUBSET Request]
      /\ \A r \in Request : request[r] \in RequestRecord /\ request[r].topic \in Topic
  BY DEF TypeOK, RequestRecord
<1>1. ASSUME NEW r \in Request, NEW state \in {"reading", "failed"}, Answer(r, state), UNCHANGED waiting,
             request[r].state # "waiting"
      PROVE  WaitersTracked'
  <2>1. request'[r].state # "waiting" /\ \A q \in Request : q # r => request'[q] = request[q]
    BY <1>0, <1>1 DEF Answer, RequestRecord
  <2>2. \A t \in Topic : r \notin waiting[t]
    BY <1>1 DEF WaitersTracked
  <2> QED BY <1>1, <2>1, <2>2 DEF WaitersTracked
<1>2. CASE SubackAfterSettle
  <2>1. /\ waiting' = [t \in Topic |-> {}]
        /\ request' = [r \in Request |->
             IF request[r].state \in {"reading", "waiting"} THEN [request[r] EXCEPT !.state = "lost"] ELSE request[r]]
    BY <1>2 DEF SubackAfterSettle, Crash
  <2>2. \A r \in Request : request'[r].state # "waiting"
    BY <1>0, <2>1 DEF RequestRecord
  <2> QED BY <2>1, <2>2 DEF WaitersTracked
<1>3. ASSUME NEW slow \in SUBSET Stream, MessageArrives(slow) PROVE WaitersTracked'
  <2> DEFINE m == Head(toBridge)
             woken == Woken(m.topic, m.payload)
  <2>1. /\ waiting' = [waiting EXCEPT ![m.topic] = @ \ woken]
        /\ request' = [r \in Request |-> IF r \in woken THEN [request[r] EXCEPT !.state = "ok"] ELSE request[r]]
    BY <1>3 DEF MessageArrives
  <2>2. m.topic \in Topic /\ woken \subseteq waiting[m.topic]
    BY <1>3, HeadIsMessage DEF MessageArrives, Woken, TypeOK, BrokerTypeOK
  <2>3. \A r \in woken : request[r].topic = m.topic
    BY <1>0, <2>2 DEF WaitersTracked
  <2> HIDE DEF m, woken
  <2> SUFFICES ASSUME NEW r \in Request, NEW t \in Topic
               PROVE  r \in waiting'[t] <=> request'[r].state = "waiting" /\ request'[r].topic = t
    BY DEF WaitersTracked
  <2>4. CASE r \in woken
    <3>1. request'[r].state = "ok"
      BY <1>0, <2>1, <2>4 DEF RequestRecord
    <3>2. r \in waiting[t] => t = m.topic
      BY <2>3, <2>4 DEF WaitersTracked
    <3> QED BY <1>0, <2>1, <2>4, <3>1, <3>2
  <2>5. CASE r \notin woken
    BY <1>0, <2>1, <2>2, <2>5 DEF WaitersTracked
  <2> QED BY <2>4, <2>5
<1>4. ASSUME NEW r \in Request, PostArrives(r) \/ BodyFails(r) PROVE WaitersTracked'
  <2>1. PICK state \in {"reading", "failed"} : Answer(r, state) /\ UNCHANGED waiting /\ request[r].state # "waiting"
    BY <1>4 DEF PostArrives, BodyFails
  <2> QED BY <1>1, <2>1
<1>5. ASSUME NEW r \in Request, BodyRead(r) PROVE WaitersTracked'
  <2>1. /\ waiting' = [waiting EXCEPT ![request[r].topic] = @ \cup {r}]
        /\ request' = [request EXCEPT ![r].state = "waiting"]
        /\ request[r].state = "reading"
    BY <1>5 DEF BodyRead, Answer
  <2>2. /\ request'[r].state = "waiting" /\ request'[r].topic = request[r].topic
        /\ \A q \in Request : q # r => request'[q] = request[q]
    BY <1>0, <2>1 DEF RequestRecord
  <2>3. \A t \in Topic : r \notin waiting[t]
    BY <2>1 DEF WaitersTracked
  <2> SUFFICES ASSUME NEW q \in Request, NEW t \in Topic
               PROVE  q \in waiting'[t] <=> request'[q].state = "waiting" /\ request'[q].topic = t
    BY DEF WaitersTracked
  <2>4. CASE q = r
    BY <1>0, <2>1, <2>2, <2>3, <2>4
  <2>5. CASE q # r
    BY <1>0, <2>1, <2>2, <2>5 DEF WaitersTracked
  <2> QED BY <2>4, <2>5
<1>6. ASSUME NEW r \in Request, EchoTimeout(r) PROVE WaitersTracked'
  <2>1. /\ waiting' = [waiting EXCEPT ![request[r].topic] = @ \ {r}]
        /\ request' = [request EXCEPT ![r].state = "failed"]
    BY <1>6 DEF EchoTimeout, Answer, Forget
  <2>2. /\ request'[r].state = "failed"
        /\ \A q \in Request : q # r => request'[q] = request[q]
    BY <1>0, <2>1 DEF RequestRecord
  <2> SUFFICES ASSUME NEW q \in Request, NEW t \in Topic
               PROVE  q \in waiting'[t] <=> request'[q].state = "waiting" /\ request'[q].topic = t
    BY DEF WaitersTracked
  <2>3. CASE q = r
    <3>1. r \in waiting[t] => t = request[r].topic
      BY DEF WaitersTracked
    <3> QED BY <1>0, <2>1, <2>2, <2>3, <3>1
  <2>4. CASE q # r
    BY <1>0, <2>1, <2>2, <2>4 DEF WaitersTracked
  <2> QED BY <2>3, <2>4
<1>7. ASSUME UNCHANGED <<waiting, request>> PROVE WaitersTracked'
  BY <1>7 DEF WaitersTracked
<1>8. CASE \/ BrokerNext /\ UNCHANGED bridgeVars
           \/ Connect
           \/ Close
           \/ SubackArrives
           \/ Tick
           \/ \E slow \in SUBSET Stream : Settle(slow)
           \/ \E s \in Stream, wants \in Filter, slow \in BOOLEAN : StreamOpens(s, wants, slow)
           \/ \E s \in Stream : StreamCloses(s)
           \/ UNCHANGED vars
  BY <1>7, <1>8 DEF bridgeVars, vars, Connect, Close, SubackArrives, Tick, Settle, StreamOpens, StreamCloses
<1> QED BY <1>2, <1>3, <1>4, <1>5, <1>6, <1>8 DEF Next

\* The map of echo waiters holds exactly the POSTs waiting for an echo, under
\* their own topics: an answer, a timeout or a reconnect leaves none behind.
THEOREM WaitersExact == Spec => []WaitersTracked
<1>1. Init => TypeOK /\ WaitersTracked
  BY TypeInit, WaitersInit
<1>2. TypeOK /\ WaitersTracked /\ [Next]_vars => (TypeOK /\ WaitersTracked)'
  BY TypeStep, WaitersStep
<1> QED BY <1>1, <1>2, PTL DEF Spec

\* The step of AckedIsVisible.
Acks ==
  \A r \in Request :
    request[r].state = "waiting" /\ request'[r].state = "ok" =>
      LET t == request[r].topic
          p == Shown(request[r].payload)
      IN /\ Shown(cache'[t]) = p
         /\ \A s \in Stream : stream'[s].status = "open" /\ t \in stream'[s].wants
                               => Shown(stream'[s].view[t]) = p

LEMMA AcksStep == TypeOK /\ WaitersTracked /\ [Next]_vars => Acks
<1> SUFFICES ASSUME TypeOK, WaitersTracked, [Next]_vars,
                    NEW r \in Request, request[r].state = "waiting", request'[r].state = "ok"
             PROVE  LET t == request[r].topic
                        p == Shown(request[r].payload)
                    IN /\ Shown(cache'[t]) = p
                       /\ \A s \in Stream : stream'[s].status = "open" /\ t \in stream'[s].wants
                                             => Shown(stream'[s].view[t]) = p
  BY DEF Acks
<1>0. /\ request \in [Request -> RequestRecord] /\ cache \in [Topic -> Payload \cup {None}]
      /\ stream \in [Stream -> StreamRecord]
  BY DEF TypeOK
<1>1. ASSUME NEW slow \in SUBSET Stream, MessageArrives(slow)
      PROVE  /\ Shown(cache'[request[r].topic]) = Shown(request[r].payload)
             /\ \A s \in Stream : stream'[s].status = "open" /\ request[r].topic \in stream'[s].wants
                                   => Shown(stream'[s].view[request[r].topic]) = Shown(request[r].payload)
  <2> DEFINE m == Head(toBridge)
             shown == [u \in {m.topic} |-> IF IsDelete(m.topic, m.payload, m.retain) THEN None ELSE m.payload]
  <2>1. m.topic \in Topic /\ m.payload \in Payload /\ m.retain \in BOOLEAN
    BY <1>1, HeadIsMessage DEF MessageArrives, TypeOK, BrokerTypeOK
  <2>2. /\ Broadcast({m.topic}, shown, slow)
        /\ cache' = [cache EXCEPT ![m.topic] = CacheEntry(m.topic, m.payload, m.retain)]
        /\ request' = [q \in Request |->
             IF q \in Woken(m.topic, m.payload) THEN [request[q] EXCEPT !.state = "ok"] ELSE request[q]]
    BY <1>1 DEF MessageArrives
  <2>3. r \in Woken(m.topic, m.payload)
    BY <2>2
  <2>4. request[r].topic = m.topic /\ request[r].payload = m.payload
    BY <2>1, <2>3 DEF Woken, WaitersTracked
  <2>5. Shown(cache'[m.topic]) = Shown(m.payload)
    BY <1>0, <2>1, <2>2, ShownLikeCached
  <2>6. Shown(shown[m.topic]) = Shown(m.payload)
    BY <2>1, ShownLikeCached
  <2>7. ASSUME NEW s \in Stream, stream'[s].status = "open", m.topic \in stream'[s].wants
        PROVE  stream'[s].view[m.topic] = shown[m.topic]
    <3> HIDE DEF shown, m
    <3>1. {m.topic} \in SUBSET Topic
      BY <2>1
    <3>2. /\ stream'[s].wants = stream[s].wants
          /\ \A t \in Topic : stream'[s].view[t] = IF t \in {m.topic} \cap stream[s].wants THEN shown[t] ELSE stream[s].view[t]
      BY <1>0, <2>2, <2>7, <3>1, AfterBroadcast
    <3> QED BY <2>1, <2>7, <3>2
  <2> HIDE DEF shown, m
  <2> QED BY <2>4, <2>5, <2>6, <2>7
<1>2. ASSUME NEW q \in Request, NEW state \in {"reading", "failed", "waiting"}, Answer(q, state)
      PROVE  FALSE
  BY <1>0, <1>2 DEF Answer, RequestRecord
<1>3. CASE \E q \in Request : PostArrives(q) \/ BodyFails(q) \/ BodyRead(q) \/ EchoTimeout(q)
  BY <1>2, <1>3 DEF PostArrives, BodyFails, BodyRead, EchoTimeout
<1>4. CASE SubackAfterSettle
  <2>1. request'[r] = [request[r] EXCEPT !.state = "lost"]
    BY <1>4 DEF SubackAfterSettle, Crash
  <2> QED BY <1>0, <2>1 DEF RequestRecord
<1>5. CASE \/ BrokerNext /\ UNCHANGED bridgeVars
           \/ Connect
           \/ Close
           \/ SubackArrives
           \/ Tick
           \/ \E slow \in SUBSET Stream : Settle(slow)
           \/ \E s \in Stream, wants \in Filter, slow \in BOOLEAN : StreamOpens(s, wants, slow)
           \/ \E s \in Stream : StreamCloses(s)
           \/ UNCHANGED vars
  <2>1. request' = request
    BY <1>5 DEF bridgeVars, vars, Connect, Close, SubackArrives, Tick, Settle, StreamOpens, StreamCloses
  <2> QED BY <2>1
<1> QED BY <1>1, <1>3, <1>4, <1>5 DEF Next

\* At the moment a POST is answered 204 its bytes are what the cache holds, and
\* what every stream that asked for the topic was sent last.
THEOREM AcksVisible == Spec => AckedIsVisible
<1>1. Init => TypeOK /\ WaitersTracked
  BY TypeInit, WaitersInit
<1>2. TypeOK /\ WaitersTracked /\ [Next]_vars => (TypeOK /\ WaitersTracked)'
  BY TypeStep, WaitersStep
<1>3. TypeOK /\ WaitersTracked /\ [Next]_vars => [Acks]_vars
  BY AcksStep
<1>4. Spec => [][Acks]_vars
  BY <1>1, <1>2, <1>3, PTL DEF Spec
<1> QED BY <1>4 DEF AckedIsVisible, Acks

-----------------------------------------------------------------------------
(* The stream limit *)

LimitInv == IsFiniteSet(Clients) /\ Cardinality(Clients) <= MaxStreams

LEMMA BroadcastKeepsClients ==
  ASSUME stream \in [Stream -> StreamRecord], NEW topics, NEW shown, NEW slow, Broadcast(topics, shown, slow)
  PROVE  Clients' = Clients
<1> SUFFICES ASSUME NEW s \in Stream PROVE (stream'[s].status # "closed") <=> (stream[s].status # "closed")
  BY DEF Clients
<1>1. CASE s \notin Readers(topics)
  BY <1>1 DEF Broadcast
<1>2. CASE s \in Readers(topics)
  BY <1>2 DEF Broadcast, Readers, StreamRecord
<1> QED BY <1>1, <1>2

LEMMA LimitInit == Init => LimitInv
<1> SUFFICES ASSUME Init PROVE LimitInv
  OBVIOUS
<1>1. Clients = {}
  BY DEF Init, Clients, Closed
<1> QED BY <1>1, FS_EmptySet, BridgeAssumption DEF LimitInv

LEMMA LimitStep == TypeOK /\ LimitInv /\ [Next]_vars => LimitInv'
<1> SUFFICES ASSUME TypeOK, LimitInv, [Next]_vars PROVE LimitInv'
  OBVIOUS
<1>0. stream \in [Stream -> StreamRecord] /\ IsFiniteSet(Clients) /\ Cardinality(Clients) \in Nat
  BY FS_CardinalityType DEF TypeOK, LimitInv
<1> USE BridgeAssumption
<1>1. ASSUME Clients' = Clients PROVE LimitInv'
  BY <1>1 DEF LimitInv
<1>2. CASE SubackAfterSettle
  <2>1. Clients' = {}
    BY <1>2 DEF SubackAfterSettle, Crash, Clients, Closed
  <2> QED BY <2>1, FS_EmptySet DEF LimitInv
<1>3. ASSUME NEW slow \in SUBSET Stream, MessageArrives(slow) \/ Settle(slow) PROVE LimitInv'
  <2>1. \E topics, shown : Broadcast(topics, shown, slow)
    BY <1>3 DEF MessageArrives, Settle
  <2> QED BY <1>0, <1>1, <2>1, BroadcastKeepsClients
<1>4. ASSUME NEW s \in Stream, NEW wants \in Filter, NEW slow \in BOOLEAN, StreamOpens(s, wants, slow) PROVE LimitInv'
  <2>1. Clients' = Clients \cup {s} /\ s \notin Clients
    BY <1>0, <1>4 DEF StreamOpens, Clients
  <2>2. Cardinality(Clients) < MaxStreams
    BY <1>4 DEF StreamOpens
  <2>3. IsFiniteSet(Clients \cup {s}) /\ Cardinality(Clients \cup {s}) = Cardinality(Clients) + 1
    BY <1>0, <2>1, FS_AddElement
  <2> QED BY <1>0, <2>1, <2>2, <2>3 DEF LimitInv
<1>5. ASSUME NEW s \in Stream, StreamCloses(s) PROVE LimitInv'
  <2>1. Clients' = Clients \ {s} /\ s \in Clients
    BY <1>0, <1>5 DEF StreamCloses, Clients, Closed
  <2>2. IsFiniteSet(Clients \ {s}) /\ Cardinality(Clients \ {s}) = Cardinality(Clients) - 1
    BY <1>0, <2>1, FS_RemoveElement
  <2> QED BY <1>0, <2>1, <2>2 DEF LimitInv
<1>6. CASE \/ BrokerNext /\ UNCHANGED bridgeVars
           \/ Connect
           \/ Close
           \/ SubackArrives
           \/ Tick
           \/ \E r \in Request : PostArrives(r) \/ BodyFails(r) \/ BodyRead(r) \/ EchoTimeout(r)
           \/ UNCHANGED vars
  <2>1. stream' = stream
    BY <1>6 DEF bridgeVars, vars, Connect, Close, SubackArrives, Tick, PostArrives, BodyFails, BodyRead, EchoTimeout
  <2> QED BY <1>1, <2>1 DEF Clients
<1> QED BY <1>2, <1>3, <1>4, <1>5, <1>6 DEF Next

\* There are never more streams than the limit, destroyed ones whose 'close'
\* event is still to come included.
THEOREM StreamsLimited == Spec => []StreamsWithinLimit
<1>1. Init => TypeOK /\ LimitInv
  BY TypeInit, LimitInit
<1>2. TypeOK /\ LimitInv /\ [Next]_vars => (TypeOK /\ LimitInv)'
  BY TypeStep, LimitStep
<1>3. LimitInv => StreamsWithinLimit
  BY DEF LimitInv, StreamsWithinLimit, Clients
<1> QED BY <1>1, <1>2, <1>3, PTL DEF Spec

-----------------------------------------------------------------------------
(* The board of EventBoard.tla: every step of the bridge is a step of it
   under the mapping of Bridge.tla, or leaves the board alone. *)

\* An abandoned topic has no cache entry, so that it is never departed again:
\* its next announcement would be of a topic the stale set no longer owes.
AbandonedInv ==
  /\ \A t \in abandoned : cache[t] = None
  /\ missing \cap abandoned = {}

LEMMA AbandonedStep == TypeOK /\ StreamsInv /\ AbandonedInv /\ [Next]_vars => AbandonedInv'
<1> SUFFICES ASSUME TypeOK, StreamsInv, AbandonedInv, [Next]_vars PROVE AbandonedInv'
  OBVIOUS
<1>0. cache \in [Topic -> Payload \cup {None}] /\ missing \in SUBSET Topic /\ abandoned \in SUBSET Topic
  BY DEF TypeOK
<1>1. CASE Connect
  BY <1>0, <1>1 DEF Connect, Cleared, Held, Blank, AbandonedInv
<1>2. CASE Close
  BY <1>2 DEF Close, AbandonedInv, StreamsInv, DepartedAreGone
<1>3. CASE SubackAfterSettle
  BY <1>3 DEF SubackAfterSettle, Crash, AbandonedInv
<1>4. ASSUME NEW slow \in SUBSET Stream, MessageArrives(slow) PROVE AbandonedInv'
  <2> DEFINE m == Head(toBridge)
  <2>1. /\ missing' = missing \ {m.topic} /\ abandoned' = abandoned \ {m.topic}
        /\ cache' = [cache EXCEPT ![m.topic] = CacheEntry(m.topic, m.payload, m.retain)]
    BY <1>4 DEF MessageArrives
  <2> HIDE DEF m
  <2> QED BY <1>0, <2>1 DEF AbandonedInv
<1>5. ASSUME NEW slow \in SUBSET Stream, Settle(slow) PROVE AbandonedInv'
  BY <1>5 DEF Settle, AbandonedInv
<1>6. ASSUME UNCHANGED <<cache, missing, abandoned>> PROVE AbandonedInv'
  BY <1>6 DEF AbandonedInv
<1>7. CASE \/ BrokerNext /\ UNCHANGED bridgeVars
           \/ SubackArrives
           \/ Tick
           \/ \E r \in Request : PostArrives(r) \/ BodyFails(r) \/ BodyRead(r) \/ EchoTimeout(r)
           \/ \E s \in Stream, wants \in Filter, slow \in BOOLEAN : StreamOpens(s, wants, slow)
           \/ \E s \in Stream : StreamCloses(s)
           \/ UNCHANGED vars
  BY <1>6, <1>7 DEF bridgeVars, vars, SubackArrives, Tick, PostArrives, BodyFails, BodyRead, EchoTimeout,
                    StreamOpens, StreamCloses
<1> QED BY <1>1, <1>2, <1>3, <1>4, <1>5, <1>7 DEF Next

-----------------------------------------------------------------------------
(* The mapping *)


ReaderOf(client) ==
  IF client.status = "open"
  THEN [on |-> TRUE, wants |-> client.wants, copy |-> ShownAll(client.view)]
  ELSE [on |-> FALSE, wants |-> {}, copy |-> Blank]

\* A frame to the streams is a frame to the readers, when each topic's content
\* reads the same.
LEMMA BroadcastIsFrames ==
  ASSUME TypeOK, NEW topics \in SUBSET Topic, NEW shown, NEW slow \in SUBSET Readers(topics),
         Broadcast(topics, shown, slow),
         NEW value, \A t \in topics : Shown(shown[t]) = value
  PROVE  Board!Frames(topics, value, slow)
<1> DEFINE framed(s) == [on |-> TRUE, wants |-> ReaderOf(stream[s]).wants, copy |->
             [t \in Topic |-> IF t \in topics \cap ReaderOf(stream[s]).wants THEN value ELSE ReaderOf(stream[s]).copy[t]]]
<1>0. /\ stream \in [Stream -> StreamRecord]
      /\ \A s \in Stream : stream[s] \in StreamRecord
  BY DEF TypeOK
<1>1. ASSUME NEW s \in Stream
      PROVE  ReaderOf(stream'[s]) =
               IF ~ReaderOf(stream[s]).on THEN ReaderOf(stream[s])
               ELSE IF s \in slow THEN Board!Absent
               ELSE framed(s)
  <2>1. CASE stream[s].status # "open"
    <3>1. stream'[s] = stream[s]
      BY <2>1 DEF Broadcast, Readers
    <3> QED BY <2>1, <3>1 DEF ReaderOf
  <2>2. CASE stream[s].status = "open" /\ s \in slow
    <3>1. s \in Readers(topics) /\ stream'[s].status = "dropped"
      BY <1>0, <2>2 DEF Broadcast, StreamRecord
    <3> QED BY <2>2, <3>1 DEF ReaderOf, Board!Absent, Board!Blank, Blank
  <2>3. CASE stream[s].status = "open" /\ s \notin slow
    <3>0. stream'[s].status = "open"
      BY <1>0, <2>3 DEF Broadcast, StreamRecord
    <3>1. /\ stream'[s].wants = stream[s].wants
          /\ \A t \in Topic : stream'[s].view[t] = IF t \in topics \cap stream[s].wants THEN shown[t] ELSE stream[s].view[t]
      BY <1>0, <3>0, AfterBroadcast
    <3>2. ReaderOf(stream'[s]) = [on |-> TRUE, wants |-> stream[s].wants, copy |-> ShownAll(stream'[s].view)]
      BY <3>0, <3>1 DEF ReaderOf
    <3>3. ReaderOf(stream[s]) = [on |-> TRUE, wants |-> stream[s].wants, copy |-> ShownAll(stream[s].view)]
      BY <2>3 DEF ReaderOf
    <3>4. ShownAll(stream'[s].view) =
            [t \in Topic |-> IF t \in topics \cap stream[s].wants THEN value ELSE ShownAll(stream[s].view)[t]]
      BY <3>1 DEF ShownAll
    <3>5. framed(s) = [on |-> TRUE, wants |-> stream[s].wants, copy |->
            [t \in Topic |-> IF t \in topics \cap stream[s].wants THEN value ELSE ShownAll(stream[s].view)[t]]]
      BY <3>3
    <3> QED BY <2>3, <3>2, <3>3, <3>4, <3>5
  <2> QED BY <2>1, <2>2, <2>3
<1> QED BY <1>1 DEF Board!Frames, ReaderOf

LEMMA ConnectIsTakeDown == TypeOK /\ StreamsInv /\ Connect => Board!BoardNext
<1> SUFFICES ASSUME TypeOK, StreamsInv, Connect PROVE Board!TakeDown(Held)
  BY DEF Board!BoardNext, Held
<1>1. missing = {} /\ missing' = Held /\ cache' = Blank /\ UNCHANGED <<stream, abandoned>>
  BY DEF Connect, Cleared, StreamsInv, RebuildsEnd
<1>2. {t \in Topic : ShownAll(cache)[t] # None} \subseteq Held
  BY ShownFacts DEF ShownAll, Held
<1>3. ShownAll(cache') = Board!Blank
  BY <1>1, ShownFacts DEF ShownAll, Blank, Board!Blank
<1> QED BY <1>1, <1>2, <1>3 DEF Board!TakeDown

LEMMA CrashIsRestart == Crash => Board!BoardNext
<1> SUFFICES ASSUME Crash PROVE Board!Restart
  BY DEF Board!BoardNext
<1>1. ShownAll(cache') = Board!Blank
  BY ShownFacts DEF Crash, ShownAll, Blank, Board!Blank
<1> QED BY <1>1 DEF Crash, Board!Restart, Board!Absent, Board!Blank, Closed, Blank

LEMMA MessageIsPut == ASSUME TypeOK, NEW slow \in SUBSET Stream, MessageArrives(slow) PROVE Board!BoardNext
<1>1. PICK t \in Topic, p \in Payload, flag \in BOOLEAN :
        t = Head(toBridge).topic /\ p = Head(toBridge).payload /\ flag = Head(toBridge).retain
  BY HeadIsMessage DEF MessageArrives, TypeOK, BrokerTypeOK
<1> DEFINE shown == [u \in {t} |-> IF IsDelete(t, p, flag) THEN None ELSE p]
<1>2. /\ Broadcast({t}, shown, slow) /\ slow \in SUBSET Readers({t})
      /\ cache' = [cache EXCEPT ![t] = CacheEntry(t, p, flag)]
      /\ missing' = missing \ {t} /\ abandoned' = abandoned \ {t}
  BY <1>1 DEF MessageArrives
<1>3. /\ \A u \in {t} : Shown(shown[u]) = Shown(p)
      /\ Shown(CacheEntry(t, p, flag)) = Shown(p)
  BY ShownLikeCached
<1>4. PICK value \in Value \cup {None} : value = Shown(p)
  BY DEF Shown
<1> HIDE DEF shown
<1>5. Board!Frames({t}, value, slow)
  BY <1>2, <1>3, <1>4, BroadcastIsFrames
<1>6. ShownAll(cache') = [ShownAll(cache) EXCEPT ![t] = value]
  BY <1>2, <1>3, <1>4 DEF ShownAll, TypeOK
<1>7. Board!Put(t, value, slow)
  BY <1>2, <1>5, <1>6 DEF Board!Put
<1> QED BY <1>7 DEF Board!BoardNext

LEMMA SettleIsAnnounce ==
  ASSUME TypeOK, AbandonedInv, NEW slow \in SUBSET Stream, Settle(slow) PROVE Board!BoardNext
<1>1. PICK topics \in SUBSET Topic : topics = missing
  BY DEF TypeOK
<1> DEFINE shown == [t \in topics |-> None]
<1>2. /\ Broadcast(topics, shown, slow) /\ slow \in SUBSET Readers(topics)
      /\ missing' = {} /\ UNCHANGED <<cache, abandoned>>
  BY <1>1 DEF Settle
<1>3. \A t \in topics : Shown(shown[t]) = None
  BY ShownFacts
<1> HIDE DEF shown
<1>4. Board!Frames(topics, None, slow)
  BY <1>2, <1>3, BroadcastIsFrames
<1>5. (missing \cup abandoned)' = (missing \cup abandoned) \ topics
  BY <1>1, <1>2 DEF AbandonedInv
<1>6. Board!Announce(topics, slow)
  BY <1>1, <1>2, <1>4, <1>5 DEF Board!Announce
<1> QED BY <1>6 DEF Board!BoardNext

LEMMA OpenIsJoin ==
  ASSUME TypeOK, NEW s \in Stream, NEW wants \in Filter, NEW slow \in BOOLEAN, StreamOpens(s, wants, slow)
  PROVE  Board!BoardNext \/ UNCHANGED Board!boardVars
<1>0. /\ stream \in [Stream -> StreamRecord] /\ stream[s].status = "closed"
      /\ stream' = [stream EXCEPT ![s] =
           [status |-> IF slow THEN "dropped" ELSE "open", wants |-> wants, view |-> Replayed(wants)]]
      /\ UNCHANGED <<cache, missing, abandoned>>
  BY DEF StreamOpens, TypeOK
<1>1. \A q \in Stream : q # s => ReaderOf(stream'[q]) = ReaderOf(stream[q])
  BY <1>0
<1>2. ReaderOf(stream[s]) = [on |-> FALSE, wants |-> {}, copy |-> Blank]
  BY <1>0 DEF ReaderOf
<1>3. CASE slow
  <2>1. ReaderOf(stream'[s]) = ReaderOf(stream[s])
    BY <1>0, <1>2, <1>3 DEF ReaderOf
  <2>2. [q \in Stream |-> ReaderOf(stream'[q])] = [q \in Stream |-> ReaderOf(stream[q])]
    BY <1>1, <2>1
  <2> QED BY <1>0, <2>2 DEF Board!boardVars, ReaderOf
<1>4. CASE ~slow
  <2>1. ShownAll(Replayed(wants)) = [t \in Topic |-> IF t \in wants THEN ShownAll(cache)[t] ELSE None]
    BY ShownFacts DEF ShownAll, Replayed
  <2>2. ReaderOf(stream'[s]) = [on |-> TRUE, wants |-> wants, copy |->
          [t \in Topic |-> IF t \in wants THEN ShownAll(cache)[t] ELSE None]]
    BY <1>0, <1>4, <2>1 DEF ReaderOf
  <2>3. [q \in Stream |-> ReaderOf(stream'[q])] = [[q \in Stream |-> ReaderOf(stream[q])] EXCEPT ![s] =
          [on |-> TRUE, wants |-> wants, copy |-> [t \in Topic |-> IF t \in wants THEN ShownAll(cache)[t] ELSE None]]]
    BY <1>1, <2>2
  <2>4. Board!Join(s, wants)
    BY <1>0, <1>2, <2>3 DEF Board!Join, ReaderOf
  <2> QED BY <2>4 DEF Board!BoardNext
<1> QED BY <1>3, <1>4

LEMMA CloseIsLeave == ASSUME TypeOK, NEW s \in Stream, StreamCloses(s) PROVE Board!BoardNext
<1>1. /\ stream \in [Stream -> StreamRecord]
      /\ stream' = [stream EXCEPT ![s] = Closed]
      /\ UNCHANGED <<cache, missing, abandoned>>
  BY DEF StreamCloses, TypeOK
<1>2. ReaderOf(stream'[s]) = Board!Absent
  BY <1>1 DEF ReaderOf, Closed, Board!Absent, Board!Blank, Blank
<1>3. [q \in Stream |-> ReaderOf(stream'[q])] = [[q \in Stream |-> ReaderOf(stream[q])] EXCEPT ![s] = Board!Absent]
  BY <1>1, <1>2
<1>4. Board!Leave(s)
  BY <1>1, <1>3 DEF Board!Leave, ReaderOf
<1> QED BY <1>4 DEF Board!BoardNext

LEMMA StepImplements == TypeOK /\ StreamsInv /\ AbandonedInv /\ [Next]_vars => [Board!BoardNext]_(Board!boardVars)
<1> SUFFICES ASSUME TypeOK, StreamsInv, AbandonedInv, [Next]_vars
             PROVE  Board!BoardNext \/ UNCHANGED Board!boardVars
  OBVIOUS
<1>1. CASE Connect
  BY <1>1, ConnectIsTakeDown
<1>2. CASE SubackAfterSettle
  BY <1>2, CrashIsRestart DEF SubackAfterSettle
<1>3. CASE \E slow \in SUBSET Stream : MessageArrives(slow)
  BY <1>3, MessageIsPut
<1>4. CASE \E slow \in SUBSET Stream : Settle(slow)
  BY <1>4, SettleIsAnnounce
<1>5. CASE \E s \in Stream, wants \in Filter, slow \in BOOLEAN : StreamOpens(s, wants, slow)
  BY <1>5, OpenIsJoin
<1>6. CASE \E s \in Stream : StreamCloses(s)
  BY <1>6, CloseIsLeave
<1>7. CASE Close
  <2>1. UNCHANGED <<cache, stream>> /\ (missing \cup abandoned)' = missing \cup abandoned
    BY <1>7 DEF Close
  <2> QED BY <2>1 DEF Board!boardVars
<1>8. CASE \/ BrokerNext /\ UNCHANGED bridgeVars
           \/ SubackArrives
           \/ Tick
           \/ \E r \in Request : PostArrives(r) \/ BodyFails(r) \/ BodyRead(r) \/ EchoTimeout(r)
           \/ UNCHANGED vars
  <2>1. UNCHANGED <<cache, stream, missing, abandoned>>
    BY <1>8 DEF bridgeVars, vars, SubackArrives, Tick, PostArrives, BodyFails, BodyRead, EchoTimeout
  <2> QED BY <2>1 DEF Board!boardVars
<1> QED BY <1>1, <1>2, <1>3, <1>4, <1>5, <1>6, <1>7, <1>8 DEF Next

LEMMA InitImplements == Init => Board!BoardInit /\ AbandonedInv
<1> SUFFICES ASSUME Init PROVE Board!BoardInit /\ AbandonedInv
  OBVIOUS
<1>1. ShownAll(cache) = Board!Blank
  BY ShownFacts DEF Init, ShownAll, Blank, Board!Blank
<1>2. AbandonedInv
  BY DEF Init, AbandonedInv
<1> QED BY <1>1, <1>2 DEF Init, Board!BoardInit, Board!Absent, Board!Blank, Closed, Blank

\* The readers of /events see a board: however the bridge's handlers interleave,
\* what they are shown could have come from a board that changes with its
\* readers in one step, and that a reconnect may take down whole.
THEOREM BridgeImplementsBoard == Spec => ImplementsBoard
<1>1. Init => TypeOK /\ StreamsInv /\ AbandonedInv /\ Board!BoardInit
  BY TypeInit, StreamsInit, InitImplements
<1>2. TypeOK /\ StreamsInv /\ AbandonedInv /\ [Next]_vars => (TypeOK /\ StreamsInv /\ AbandonedInv)'
  BY TypeStep, StreamsStep, AbandonedStep
<1>3. TypeOK /\ StreamsInv /\ AbandonedInv /\ [Next]_vars => [Board!BoardNext]_(Board!boardVars)
  BY StepImplements
<1>4. Spec => Board!BoardInit /\ [][Board!BoardNext]_(Board!boardVars)
  BY <1>1, <1>2, <1>3, PTL DEF Spec
<1> QED BY <1>4 DEF ImplementsBoard, Board!BoardSpec
=============================================================================
