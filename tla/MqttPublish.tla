----------------------------- MODULE MqttPublish -----------------------------
(***************************************************************************)
(* The receiver as a publisher: the table of brokers that POST /$mqtt      *)
(* edits (mqtt_routes.cpp, mqtt_publish_store.cpp), the connections that   *)
(* serve it, and what each broker comes to retain (mqtt_publish.cpp).      *)
(*                                                                         *)
(* All of it runs in the main loop, one call at a time; in between links   *)
(* die, and time passes.  An edit the flash refuses is undone and changes  *)
(* nothing, so what a restart loads is the table (FlashStores).            *)
(***************************************************************************)
EXTENDS Integers, Sequences, Subsequences

CONSTANTS
  Url, GoodUrl,   \* those the table takes, and those of them parseBrokerUrl does too
  Password, NoPassword,
  BuildFlagRows,  \* MQTT_BROKER_URL with MQTT_TOKEN: a sequence of one row, or of none
  TableSlots,     \* MQTT_PUBLISH_SLOTS
  Sensor, AliasTopic, SettingTopic, \* what is published, each under a topic of its own
  Word, Blank,    \* payloads; Blank is the empty one, and none
  Backoff,        \* MQTT_RECONNECT_BACKOFF_MS, in ticks
  MemoryMayRunOut,
  MaxTableEdits, MaxWrites, MaxBreaks \* bounds

Topic == Sensor \cup AliasTopic \cup SettingTopic
ConnSlot == 1..(TableSlots + 1)
FreeRow == [url |-> Blank, token |-> NoPassword]
Row == [url : Url, token : Password]

ASSUME PublishAssumption ==
  /\ TableSlots \in Nat \ {0} /\ Backoff \in Nat /\ GoodUrl \subseteq Url
  /\ NoPassword \in Password /\ Blank \notin Word /\ Blank \notin Url
  /\ Len(BuildFlagRows) <= 1 /\ BuildFlagRows \in Seq(Row)

VARIABLES
  brokerTable, \* _url, _token, _used of the store
  conns,       \* _conn
  slotOrder,   \* _slotOrder, up to _connCount
  holding,     \* topic -> what the receiver has for it: latestPayload, the alias, the setting
  retainedAt,  \* url -> topic -> what the broker retains
  untold,      \* history: url -> topics whose last change no publish told the broker of: the device
               \* forgotten or its name cleared meanwhile, or a record too large to publish
  tableEdits, writes, breaks

publishVars == <<brokerTable, conns, slotOrder, holding, retainedAt, untold, tableEdits, writes, breaks>>

Served == {slotOrder[i] : i \in DOMAIN slotOrder}
IdleConn == [url |-> Blank, token |-> NoPassword, mode |-> "idle", link |-> "down", since |-> Backoff]

-----------------------------------------------------------------------------
(* begin(): the connections follow the table *)

Wanted(rows) == Within(rows, Row) \o BuildFlagRows

\* Mutant of Serves: a connection is kept for its URL whatever the token.
ServesUrl(c, row) == c.mode = "enabled" /\ c.url = row.url

Serves(c, row) == c.mode = "enabled" /\ c.url = row.url /\ c.token = row.token

\* assignedSlot: a row keeps the connection that serves it; the others take
\* what is free, lowest first.
Assigned(rows, old, slot) ==
  LET keeps == {i \in DOMAIN rows : \E s \in ConnSlot : Serves(old[s], rows[i])}
      new == DOMAIN rows \ keeps
      free == ConnSlot \ {slot[i] : i \in keeps}
  IN /\ \A i, j \in DOMAIN rows : slot[i] = slot[j] => i = j
     /\ \A i \in keeps : Serves(old[slot[i]], rows[i])
     /\ \A i \in new, s \in free : s < slot[i] => \E j \in new : j < i /\ slot[j] = s

\* setupConnection: due at once
SetUp(row, room) ==
  IF row.url \notin GoodUrl THEN [IdleConn EXCEPT !.url = row.url, !.mode = "invalid url"]
  ELSE [url |-> row.url, token |-> row.token, mode |-> IF room THEN "enabled" ELSE "out of memory",
        link |-> "down", since |-> Backoff]

Begin(rows, old) ==
  \E slot \in [DOMAIN rows -> ConnSlot], room \in {TRUE, ~MemoryMayRunOut} :
    /\ Assigned(rows, old, slot)
    /\ slotOrder' = slot
    /\ conns' = [s \in ConnSlot |->
         IF \E i \in DOMAIN rows : slot[i] = s
         THEN LET row == rows[CHOOSE i \in DOMAIN rows : slot[i] = s]
              IN IF Serves(old[s], row) THEN old[s] ELSE SetUp(row, room)
         ELSE IdleConn]

PublishInit ==
  /\ brokerTable = [i \in 1..TableSlots |-> FreeRow]
  /\ slotOrder = [i \in DOMAIN BuildFlagRows |-> i]
  /\ conns = [s \in ConnSlot |-> IF s \in DOMAIN BuildFlagRows THEN SetUp(BuildFlagRows[s], TRUE) ELSE IdleConn]
  /\ holding \in [Topic -> Word \cup {Blank}] /\ \A t \in Sensor \cup AliasTopic : holding[t] = Blank
  /\ retainedAt = [u \in Url |-> [t \in Topic |-> Blank]] /\ untold = [u \in Url |-> {}]
  /\ tableEdits = 0 /\ writes = 0 /\ breaks = 0

-----------------------------------------------------------------------------
(* POST /$mqtt and /$mqtt/remove *)

Edited(rows) ==
  /\ tableEdits < MaxTableEdits /\ tableEdits' = tableEdits + 1
  /\ brokerTable' = rows /\ Begin(Wanted(rows), conns)
  /\ UNCHANGED <<holding, retainedAt, untold, writes, breaks>>

\* add: a new token for a URL that is there, else the first free row; never
\* the URL of the build flag.
AddBroker(row) ==
  /\ \A i \in DOMAIN BuildFlagRows : row.url # BuildFlagRows[i].url
  /\ \E i \in 1..TableSlots :
       /\ IF \E j \in 1..TableSlots : brokerTable[j].url = row.url THEN brokerTable[i].url = row.url
          ELSE brokerTable[i] = FreeRow /\ \A j \in 1..(i - 1) : brokerTable[j] # FreeRow
       /\ Edited([brokerTable EXCEPT ![i] = row])

RemoveBroker(url) ==
  \E i \in 1..TableSlots : brokerTable[i].url = url /\ Edited([brokerTable EXCEPT ![i] = FreeRow])

-----------------------------------------------------------------------------
(* loop(): connectOnce and replayAll *)

\* Mutant of Down: a connection that is not enabled ends the pass.
DownBeforeDisabled(s) ==
  \E i \in DOMAIN slotOrder : /\ slotOrder[i] = s /\ conns[s].link = "down"
                              /\ \A j \in 1..i : conns[slotOrder[j]].mode = "enabled"

Down(s) == s \in Served /\ conns[s].mode = "enabled" /\ conns[s].link = "down"
Due(s) == Down(s) /\ conns[s].since = Backoff

\* Mutant of Replayed: names are left to the next rename.
ReplayedButNames(old) == [t \in Topic |-> IF holding[t] # Blank /\ t \notin AliasTopic THEN holding[t] ELSE old[t]]

\* replayAll: everything there is; what there is not is not mentioned.
Replayed(old) == [t \in Topic |-> IF holding[t] # Blank THEN holding[t] ELSE old[t]]

\* A pass over all connections: those that are due are tried, and the time of
\* the try kept; `reached` are the attempts that succeed.
PublishLoop(reached) ==
  LET urls == {conns[s].url : s \in reached}
  IN /\ \E s \in ConnSlot : Down(s)
     /\ reached \subseteq {s \in ConnSlot : Due(s)}
     /\ conns' = [s \in ConnSlot |-> [conns[s] EXCEPT !.since = IF Due(s) THEN 0 ELSE @,
                                                     !.link = IF s \in reached THEN "up" ELSE @]]
     /\ retainedAt' = [u \in Url |-> IF u \in urls THEN Replayed(retainedAt[u]) ELSE retainedAt[u]]
     /\ untold' = [u \in Url |-> IF u \in urls THEN {t \in untold[u] : holding[t] = Blank} ELSE untold[u]]
     /\ UNCHANGED <<brokerTable, slotOrder, holding, tableEdits, writes, breaks>>

BackoffPasses ==
  /\ \E s \in ConnSlot : conns[s].since < Backoff
  /\ conns' = [s \in ConnSlot |-> [conns[s] EXCEPT !.since = IF @ < Backoff THEN @ + 1 ELSE @]]
  /\ UNCHANGED <<brokerTable, slotOrder, holding, retainedAt, untold, tableEdits, writes, breaks>>

\* A link dies; what is published into it is lost until mqtt.connected() tells.
LinkDies(s) ==
  /\ conns[s].link = "up" /\ breaks < MaxBreaks /\ breaks' = breaks + 1
  /\ conns' = [conns EXCEPT ![s].link = "dead"]
  /\ UNCHANGED <<brokerTable, slotOrder, holding, retainedAt, untold, tableEdits, writes>>

DeathSeen(s) ==
  /\ conns[s].link = "dead"
  /\ conns' = [conns EXCEPT ![s].link = "down"]
  /\ UNCHANGED <<brokerTable, slotOrder, holding, retainedAt, untold, tableEdits, writes, breaks>>

-----------------------------------------------------------------------------
(* onRecord, publishAlias, publishLayout and the others *)

\* The brokers a publish gets to.
ReachedUrls == {conns[s].url : s \in {s \in Served : conns[s].mode = "enabled" /\ conns[s].link = "up"}}

Published(t, w) ==
  /\ writes < MaxWrites /\ writes' = writes + 1
  /\ holding' = [holding EXCEPT ![t] = w]
  /\ retainedAt' = [u \in Url |-> IF u \in ReachedUrls THEN [retainedAt[u] EXCEPT ![t] = w] ELSE retainedAt[u]]
  /\ untold' = [u \in Url |-> IF u \in ReachedUrls THEN untold[u] \ {t}
                                ELSE IF w = Blank THEN untold[u] \cup {t} ELSE untold[u]]
  /\ UNCHANGED <<brokerTable, conns, slotOrder, tableEdits, breaks>>

\* onRecord with a document a hook grew past SIGNAL_PAYLOAD_MAX: no broker is
\* sent it, and the store keeps what the document was before the hooks.
RecordTooLarge(t, w) ==
  /\ t \in Sensor /\ writes < MaxWrites /\ writes' = writes + 1
  /\ holding' = [holding EXCEPT ![t] = w]
  /\ untold' = [u \in Url |-> untold[u] \cup {t}]
  /\ UNCHANGED <<brokerTable, conns, slotOrder, retainedAt, tableEdits, breaks>>

\* A message is stored, a name or a setting posted; and a name cleared, which
\* alone is published empty.
Update(t, w) == Published(t, w)
ClearName(t) == t \in AliasTopic /\ Published(t, Blank)

\* The store evicts or sweeps a device and tells no broker.
SensorForgotten(t) ==
  /\ t \in Sensor /\ holding[t] # Blank
  /\ holding' = [holding EXCEPT ![t] = Blank]
  /\ untold' = [u \in Url |-> untold[u] \cup {t}]
  /\ UNCHANGED <<brokerTable, conns, slotOrder, retainedAt, tableEdits, writes, breaks>>

\* Table, names and settings come back from flash, the table without its gaps.
ReceiverRestarts ==
  /\ breaks < MaxBreaks /\ breaks' = breaks + 1
  /\ LET rows == Within(brokerTable, Row)
     IN brokerTable' = [i \in 1..TableSlots |-> IF i <= Len(rows) THEN rows[i] ELSE FreeRow]
  /\ Begin(Wanted(brokerTable), [s \in ConnSlot |-> IdleConn])
  /\ holding' = [t \in Topic |-> IF t \in Sensor THEN Blank ELSE holding[t]]
  /\ untold' = [u \in Url |-> untold[u] \cup Sensor]
  /\ UNCHANGED <<retainedAt, tableEdits, writes>>

-----------------------------------------------------------------------------
PublishNext ==
  \/ \E row \in Row : AddBroker(row)
  \/ \E url \in Url : RemoveBroker(url)
  \/ \E reached \in SUBSET ConnSlot : PublishLoop(reached)
  \/ BackoffPasses \/ ReceiverRestarts
  \/ \E s \in ConnSlot : LinkDies(s) \/ DeathSeen(s)
  \/ \E t \in Topic : ClearName(t) \/ SensorForgotten(t) \/ \E w \in Word : Update(t, w) \/ RecordTooLarge(t, w)

\* loop() passes and its clock runs; a dead link is found out, by the socket
\* or by MQTT's own keepalive; a broker that is tried again and again answers
\* in the end.
PublishFairness ==
  /\ WF_publishVars(BackoffPasses)
  /\ \A s \in ConnSlot : /\ WF_publishVars(DeathSeen(s))
                         /\ SF_publishVars(\E reached \in SUBSET ConnSlot : s \in reached /\ PublishLoop(reached))

PublishSpec == PublishInit /\ [][PublishNext]_publishVars /\ PublishFairness

-----------------------------------------------------------------------------
PublishTypeOK ==
  /\ brokerTable \in [1..TableSlots -> Row \cup {FreeRow}]
  /\ conns \in [ConnSlot -> [url : Url \cup {Blank}, token : Password,
                             mode : {"idle", "enabled", "invalid url", "out of memory"},
                             link : {"down", "up", "dead"}, since : 0..Backoff]]
  /\ slotOrder \in Seq(ConnSlot)
  /\ holding \in [Topic -> Word \cup {Blank}] /\ retainedAt \in [Url -> [Topic -> Word \cup {Blank}]]
  /\ untold \in [Url -> SUBSET Topic]
  /\ tableEdits \in Nat /\ writes \in Nat /\ breaks \in Nat

\* However the table was edited while brokers were connected, each of its rows
\* and the build flag has a connection of its own, with its URL and its token,
\* in the order of the list GET /$mqtt answers, or a reason it has none that
\* works; and no other connection is left to publish to a broker the table no
\* longer names (begin of mqtt_publish.cpp).
ServesTable ==
  LET rows == Wanted(brokerTable)
  IN /\ Len(slotOrder) = Len(rows)
     /\ \A i \in DOMAIN rows :
          /\ conns[slotOrder[i]].url = rows[i].url
          /\ conns[slotOrder[i]].mode \in {"enabled", "out of memory"} => conns[slotOrder[i]].token = rows[i].token
     /\ \A i, j \in DOMAIN rows : slotOrder[i] = slotOrder[j] => i = j
     /\ \A s \in ConnSlot \ Served : conns[s] = IdleConn

\* Whatever was recorded, named, posted or cleared while a broker was away, or
\* into a link that was dead, and however its connection was moved or made
\* again: while a link is up its broker retains what the receiver holds, but for
\* what no publish told it: a device the receiver forgot, a name cleared while
\* it was away, and a record too large to publish, which stays unsent until the
\* device's next one or the broker's next replay (replayAll, onRecord and the
\* publish functions).
BrokersHold ==
  \A s \in ConnSlot : conns[s].link = "up" =>
    \A t \in Topic : retainedAt[conns[s].url][t] = holding[t] \/ t \in untold[conns[s].url]

\* A broker that was lost is reached again.
BrokersReached == \A s \in ConnSlot : []<>(conns[s].mode = "enabled" => conns[s].link = "up")
=============================================================================
