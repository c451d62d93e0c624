# Verification of rtl433-web-receiver

This directory holds TLA+ models of rtl433-web-receiver, TLC runs that check
them on small instances, and TLAPS proofs of the properties that matter most.
Everything is translated from the source (paths below are relative to the
repository root, which `PROJECT.json` calls `src/`).

## 1. The system

An ESP32 with a radio (`receiver/`) decodes sensor transmissions, keeps the
latest messages per device, serves them to web pages as a server-sent event
stream and republishes them to MQTT brokers. A Node process (`bridge/`) offers
the same HTTP and event-stream interface in front of an MQTT broker. A web page
(`dashboard/`) reads any number of such sources. `app/` wraps the page for
phones and has no logic of its own.

```
radio --> receiver: decoder queue -> signal_store -> web_ui (/events) --> dashboard
                                        |                                   ^
                                        +-> mqtt_publish --> MQTT broker -> bridge (/events)
```

### Components

| component | state | operations | hard part | what makes it correct |
|---|---|---|---|---|
| bridge: broker connection and cache (`broker.js`, `cache.js`) | ready flag, cache per topic, the rebuild of a reconnect with its settle timer, echo waiters | connect, close, subscribe callback, message, settle timer, publish, echo timer | handlers of different connections interleave; the broker orders SUBACK and retained replay as it likes | cache follows the broker; a topic that vanished during an outage is announced deleted, a live one never |
| bridge: POST, GET, /events (`server.js`, `sse.js`) | requests between awaits, open streams | gates, body, answer; open, replay, write, overflow, close | state read before an await and used after it; destroyed streams | 204 means visible; no request hangs; streams agree with the cache |
| bridge: token store and rotation (`token-store.js`, `auth.js`) | token in memory and on disk | rotate (write, rename, fsync) | failure and crash between the steps, two rotations around an awaited body | memory and disk agree after every answer |
| bridge: process start and shutdown (`bin/mqtt-http-bridge.js`) | drain state | stop on a signal, watchdog | kept-alive streams while the server closes | every POST in flight is answered, the process ends |
| bridge: embedded broker (`embedded-broker.js`) | certificate watchers | reload on change | two files change one after the other | the last good pair is served |
| bridge and receiver: topic names and filters (`topic.js`, `topic.cpp`) | none | match, decode | empty levels, `#` at the parent level | equal to the MQTT definition of matching |
| receiver: signal store (`signal_store.cpp`) | 24 device slots, 32 sub-message slots, 8 pending keys, sequence counter | record, sweepStale, sweepSubStale | tables at their limit, undo of a half-made claim, pending gate | every device has a message, counts agree with the tables, eviction takes the oldest |
| receiver: event stream (`web_ui.cpp`) | 6 client slots with replay cursors | accept, replay step, broadcast, drop | the cursor walks a store that changes under it | no client shows an older message after a newer one |
| receiver: MQTT publishing (`mqtt_publish*.cpp`, `mqtt_routes.cpp`) | broker slots, backoff, stored configuration | connect, replay, publish, reconfigure | reconfiguration while connected; aliases cleared while offline | a broker holds what the store holds |
| receiver: persistent stores (`alias_store.cpp`, `layout_store.cpp`, `location_store.cpp`, `units_store.cpp`, `tz_store.cpp`, `health_store.cpp`) | table in RAM, blob in flash | set, remove, load, migrate | failed or torn flash writes | RAM and flash agree or the caller is told |
| receiver: credentials and provisioning (`wifi_store.cpp`, `ota_token_store.cpp`, `provisioning.cpp`) | two flash keys, portal phase | save, load, time out | reset between the two writes | what was acknowledged is loaded, but for a torn pair |
| receiver: radio health and main loop (`radio_health.cpp`, `WebReceiver.ino`) | time of last decode, restart counts, decoder queue | evaluate, restart, enqueue | two FreeRTOS tasks | a radio counts as well only once it has decoded again |
| receiver: derived signals (`device_hooks.cpp`) | 8 rain-gauge slots | record hook | eviction loses the base count | never more rain than fell |
| dashboard: sources and streams (`stream.js`, `sources.js`, `bridges.js`) | sources, one EventSource each, status requests | add, remove, reopen, status replies | replies out of order | what is shown is the latest request's |
| dashboard: message store (`store.js`, `devices.js`, `reload.js`) | messages per topic | frame, prune | frames after a source was removed | none of a removed source's messages remain |
| dashboard: aliases (`alias.js`) | names, requests out | rename, reply, frame | optimistic update reverted over a newer value | the name shown converges to the source's |
| dashboard: settings and time zone (`settings.js`, `zone.js`) | zone, in-flight flag, throttle | choose, tick, reply | a choice made while a POST is out | what the visitor chose stays chosen; the receiver ends with the zone's offset |
| dashboard: feeds (`feeds/`) | per place cache, backoff | pump, fetch, reply, move | the place changes while a request is out | data shown belongs to the place shown |
| dashboard: layout (`layout_template.js`, `grid.js`) | layout per page, shared layouts | place, save, apply | devices appear one by one | order, cards and hidden cards agree; only the visitor moves an arranged card |

Components interact by messages and by shared state: MQTT packets between the
bridge and its broker (FIFO both ways, all QoS 0), HTTP requests and event
frames between pages and a bridge or a receiver, callbacks inside Node (one at
a time), and on the receiver direct calls from the main loop plus one queue
from the radio task.

`PROJECT.json` lists the hazards of this code at the lines where they bite,
with the properties that cover them, or the reason none does.

## 2. Plan

The order was that of how much depends on a part and how many orders its steps
may come in:

1. `MqttBroker`, `Bridge`, `EventBoard`: the interface every page depends on.
2. `SignalStore`, `SubFrames`: the receiver's tables, eviction, undo, merge, sweeps.
3. `EventReplay`: the receiver's replay cursor and client slots, over the frames
   the signal store promises.
4. The dashboard page: `PageSources` (streams, the probe, page loads),
   `CardLayout` (cards, gestures, shared layouts), `PageSettings` (units, place,
   the time zone POST), `PageNames`, `PageBridges`, `PageFeeds`.
5. The rest of the bridge's process: `TokenStore`, `Shutdown`, `CertWatch`.
6. The rest of the receiver: `MqttPublish`, `FlashStores`, `RainHooks`,
   `RadioHealth`, and `TopicMatch`, which it shares with the bridge.

All of it is done. Worth adding next: the provisioning portal with its retries
of the stored pair, the receiver's migration of a broker stored by older
firmware, the POSTs of units and place as far as their order matters, and the
composition of `MqttPublish` with `Bridge` over one `MqttBroker`.

The parts of steps 4 to 6 share no state with one another (a page's units do not
read its cards; the token store does not know the certificates), so a behaviour
of two of them is an interleaving of two behaviours. `MCParts` and `MCReceiver`
therefore check them side by side: a variable `focus` names the part a behaviour
is about, and the others rest. Parts that do meet are composed: the broker with
the bridge, the signal store with the event stream (through `SubFrames`), the
token store with the embedded broker's password check and the bridge's own
connection to it, the end of the process with streams, bodies and echoes, and
the two topic matchers over one topic and filter.

## 3. Modules and code

| module | what it models |
|---|---|
| `MqttBroker` | external: the broker and both directions of the connection, as far as `broker.js` relies on them |
| `Bridge` | `broker.js`, `cache.js`, the POST and `/events` handlers of `server.js`, `sse.js` |
| `EventBoard` | abstract: what `/events` promises its readers |
| `TokenStore` | `token-store.js`, `auth.js`, the rotate request, the embedded broker's password check |
| `Shutdown` | the end of the process: `bin/mqtt-http-bridge.js` with what `server.js`, `sse.js` and `broker.js` have out |
| `CertWatch` | `watchCertFiles` of `embedded-broker.js` |
| `SignalStore` | `signal_store.cpp` and the sweep of `loop()` |
| `SubFrames` | abstract: what the signal store promises the event stream |
| `EventReplay` | `/events` of `web_ui.cpp`, over `SubFrames`, the alias table and the settings |
| `MqttPublish` | `mqtt_publish.cpp`, `mqtt_publish_store.cpp`, `mqtt_routes.cpp` |
| `FlashStores` | the stores in flash: `alias_store`, `mqtt_publish_store`, `layout_store`, `blob_store.h`, `ota_token_store`, `tz_store`, `wifi_store` |
| `RainHooks` | `rain_today_mm` of `device_hooks.cpp` |
| `RadioHealth` | `radio_health.cpp` and the minute's work in the loop of `WebReceiver.ino` |
| `TopicMatch` | `matchSplit` of `topic.js` and `matchFilter` of `topic.cpp`, side by side |
| `PageSources` | `sources.js`, `stream.js`, `devices.js`, `reload.js`, the streams of `main.jsx`, and what `alias.js` stores |
| `CardLayout` | `store.js`, `layout_template.js`, the gestures of `grid.js` and `cards.jsx` |
| `PageSettings` | `settings.js`, `zone.js`, `location.jsx` |
| `PageNames`, `PageBridges`, `PageFeeds` | `alias.js`; `bridges.js`; `feeds/feed.js` and `feeds/cache.js` |
| `Subsequences` | `filter` on arrays, and the count that deals cards into positions, for `CardLayout` and `MqttPublish` |
| `BridgeProofs` | proofs about `Bridge`, and that it implements `EventBoard` |
| `SignalStoreProofs` | proofs about `SignalStore`, and that it implements `SubFrames` |
| `EventReplayProofs`, `ReceiverProofs`, `PageProofs`, `CardProofs` | proofs about the modules above |
| `ProcessProofs` | proofs about `TokenStore`, `Shutdown` and `CertWatch`, and about the parts `MCParts` runs together |
| `SubsequenceProofs` | lemmas about sequences, their subsequences and their length, for `CardProofs` and `ReceiverProofs` |
| `MCBridge`, `MCSignalStore`, `MCEventReplay`, `MCParts`, `MCReceiver` | values, symmetry and the composition by `focus` for the runs |
| `MCEventReplayLive` | `MCEventReplay` with the history that the user manual's order of frames is about |

An operator whose name is a definition's with a suffix and whose comment starts
"Mutant of" is that definition with a plausible bug; the specifications do not
use it. It shows that a property depends on the code it is about. Variables
commented "history" are not in the program: they remember what a property needs
to say what should be so. Variables commented "environment" are servers, seasons
and brokers outside the program.

### Bridge

Node runs one callback at a time, so a handler is one action; a handler that
awaits is one action per stretch between awaits.

| code | model |
|---|---|
| `ready`, the cache `Map`, `rebuild` (`missing`, `timer`), `waiting` | `ready`, `cache`, `rebuilding` / `missing` / `settleTimer`, `waiting` |
| 'connect', 'close' handlers | `Connect`, `Close` |
| the subscribe callback; its throw when `rebuild` is null | `SubackArrives`; `SubackAfterSettle` |
| 'message' handler, `cacheMessage`, echo matching, `broadcast` | `MessageArrives` |
| `armSettle`, `announceDeparted` | `Tick`, `Settle` |
| POST: ready gate, body, `publish`, echo, timeout | `PostArrives`, `BodyRead`, `BodyFails`, `MessageArrives`, `EchoTimeout` |
| GET `/events`: gates, registration and replay; 'close' | `StreamOpens`; `StreamCloses` |
| `sse.js` overflow: write, then destroy | `slow` in `Broadcast` and `StreamOpens` |

A stream carries `view`, the messages a page has put together from its frames.
A cached empty payload (a publish without the retain flag) and no entry read
the same to a GET and to a page: `Shown` says so and the properties compare
through it. The settle timer is counted in ticks; `abandoned` is history.
`Settled` says that nothing is left to come: the bridge is ready, no rebuild is
on, the broker owes no retained message and none is on its way.

### The bridge's process

| code | model |
|---|---|
| rotate request: `authorized()` before the body, `rotate` after it | `RotateArrives`, `RotateRefused`, `WriteFile` |
| `persist`: write and fsync, rename, fsync of the directory; a throw at each | `WriteFile`, `SyncFile`, `RenameFile`, `SyncDirectory`, `PersistThrows` |
| the file as it is read, and as a crash may leave it | `onDisk`, `lasting`; `Crash`, `Start` |
| the bridge's own MQTT client and the password it dials with | `inner`; `InnerDrops`, `InnerConnects` |
| signal handler: end the streams, `httpServer.close`, the loop over `waiting()` | `SignalArrives`, `HttpServerCloses`, `Drains` |
| `broker.end()`, `embedded.close()`, exit with 0; a rejection, exit with 1 | `BrokerEnds`, `Exits`; `TeardownFails` |
| the drain's deadline and the watchdog | `drain`, `watchdog`; `TimePasses`, `WatchdogFires` |
| requests, streams, chunks, idle timers, an echo whose client is gone | `PostArrives`, `StreamOpens`, `BodyChunk`, `BodyIdles`, `BodyEnds`, `Answered`, `HangsUp`, `OrphanEnds` |
| a renewal: files written, links repointed | `Write`, `Repoint` |
| the debounced reload: read one, read the other, swap, watch again | `ReloadReadsCert`, `ReloadReadsKey`, `Rewatch` |

A file is the renewal it belongs to, or 0 while it is cut short. What a crash
leaves of a file that is not synced is undecided: `lasting` is the set of what
it may be. `persist` passes over a directory that cannot be synced, so
`SyncDirectory` may leave `lasting` as it was and the token still be taken;
`superseded` (history) is what was acknowledged before such a rotation and may
come back after a crash. The two awaits at the end of the shutdown take any
time, which `teardown` counts, or are rejected, which `failed` remembers.

### Signal store

The store runs on the main loop's task only, so every call is one step.

| code | model |
|---|---|
| `_devices`, `_seq`, `_deviceCount`, `_subs`, `_pending`, `_seqCounter`, `_lastRecordedIdx` | `devices`, `deviceCount`, `subs`, `pending`, `seqCounter`, `lastRecorded` |
| `record()`: each early return and the success | `RecordInvalid`, `RecordPending`, `RecordTooLong`, `RecordRefused`, `RecordStored` |
| `claimSlot`, `claimSub`, `freeSlotSubs` and the undo | `ClaimSlot`, `ClaimSub`, `TableFor`, `Undone` |
| `mergeSiblingSubs` with the arena and the payload ceiling | `Donor`, `Offered`, `KeptBefore`, `MergeSiblingSubs` |
| `sweepStale`, `sweepSubStale`, called from `loop()` | `SweepStale` |
| `millis()` | `now`, modulo `Wrap`; `Tick` |

A payload is, per reading, the number of the record the reading was taken in.
`age` and `subAge` are history: ticks since a device or a message was recorded,
which do not wrap.

### Event stream

Everything runs in `loop()`, one call at a time; only the peers act in between.

| code | model |
|---|---|
| `_sse`, `_sseAttachedAt`, `_filters`, `_replay` per slot | `sse` |
| `_sseAttachCounter` | `attachCount` |
| `handleEvents` (reap, choose a slot, attach; or fail to) | `Attach`, `AttachFails` |
| `reapClosedClients`, the keepalive of `loop()` | `Reap`, `Keepalive` |
| `drainReplay`: quota, blocked socket, failed write, end | `DrainQuota`, `DrainBlocked`, `DrainFails`, `DrainEnds` |
| `broadcastFrame` behind `broadcast`, `broadcastAlias`, ... | `BroadcastFrame` in `Record`, `PostAlias`, `ClearAlias`, `PostSetting` |
| `sweepStale` under the cursor | `Sweep` |
| a FIN, a socket that drains | `PeerCloses`, `PeerReads` |

The device entries come from `SubFrames`, which `SignalStore` implements under
the mapping of `subAt`, `slotAt` and `subPayload`: a frame keeps its index, and
a device never loses its newest frame and keeps another. Nothing more of the
store is assumed. `sent` and `shown` are history: what went out on a stream and
the last of it per topic. A payload is the number of the write that made it.
Left out: a frame too long for its buffer (the layout sizes are checked when
they are stored), the text of filters (a filter is the set of topics it
matches), and posts the stores refuse, which change nothing.

### The receiver's other parts

| code | model |
|---|---|
| the table of brokers, `_conn`, `_slotOrder` | `brokerTable`, `conns`, `slotOrder` |
| POST `/$mqtt`, `/$mqtt/remove`, then `begin()` with `assignedSlot` and `setupConnection` | `AddBroker`, `RemoveBroker`; `Begin` with `Assigned` and `SetUp` |
| `loop()`: `connectOnce`, its backoff, `replayAll` | `PublishLoop`, `BackoffPasses`, `Replayed` |
| a link that dies, and that is found dead | `LinkDies`, `DeathSeen` |
| `onRecord`, `publishAlias`, `publishLayout`, ... | `Update`, `ClearName`; a device evicted or swept: `SensorForgotten` |
| `onRecord` of a document too large to publish | `RecordTooLarge` |
| `begin()` and `load()` of a store, the migration of its older key | `Begins`, `Migrate`, `ForgetLegacy` |
| `set()` and `clear()`, one key at a time | `Sets`, `Put`, `PutPass`, `PutSsid`, `RestorePass`, `Clears` |
| a reset between two of them, or after the last and before the answer | `PowerLost`, `LostBeforeAnswer` |
| `rainHook`, `findRain`, `claimRain` | the same |
| midnight, `setTzOffset`, a restart, a new battery | `DayTurns`, `setTzOffset`, `RainBegin`, `BatteryChanged` |
| a packet heard, and decoded by its task | `Heard`, `Decoded` |
| the minute's work: `evaluate`, the radio set up anew, its temperature, the record | `ReadNow`, `Evaluate`, `Reinit`, `TemperatureRead` / `NotBackInRx`, `Record` |
| one turn of the loop of `matchSplit`, of `matchFilter` | the actions of these names |

`untold` in `MqttPublish` remembers what a broker was not told: what the receiver
let go of while the broker was away, and a record too large to publish, which
`signal_store.cpp` stores as it was before the hooks. `begunAgain` in `RainHooks`
remembers the gauges whose count of the day a new battery or a restart of the
receiver began again, `rezoned` the days a change of time zone has touched. `FlashStores`
looks at one kind of store in each behaviour,
and an edit the flash refuses is undone, which is why `MqttPublish` may take the
table to be what a restart loads.

### The dashboard page

A handler or a timer's callback is one action; a handler that awaits a fetch is
one up to the await and one for each way it ends.

| code | model |
|---|---|
| `sources.value`, `sourceState`, `devices.value`, the map `open` with its `EventSource`s and retry timers | `configured`, `sourceState`, `heard`, `stream` |
| `aliases.value`, its copy in `localStorage`; frames of names, renames, their reverts | `named`, `savedNames`; `NameFrame`, `VisitorRenames`, `RenameTakenBack`, `RenameTaken` |
| `onopen`, `onerror`, the retry timer, frames and readings | `Connected`, `Errored`, `RetryFires`, `Frame`, `Reading` |
| adding, removing; the origin's probe; a reload for a new build | `AddSource`, `RemoveSource`; `ProbeTimesOut` with `Connected` and `Errored`; `ReloadForBuild` |
| `cardState`, its copy in `localStorage`, `dragging`, `resizing` | `layout`, `stored`, `drag`, `resize` |
| `ensureCard`, `pruneCardState`, `saveCardState` | part of each action that calls them (`Hear`, `Save`, `Prune`) |
| templates: derive, apply, a `$layout` frame, the latch that applies by itself | `DeriveTemplate`, `ApplyTemplate`, `LayoutFrame`, `auto` |
| pointer handlers | `PressCard`, `PressValue`, `PressHandle`, `DragMove`, `EndDrag`, `EndResize` |
| units and their frames; `pick`, `locate`, the queue of lookups | `SetUnits`, `UnitsFrame`; `PickPlace`, `Locate`, `LabelArrives`, `LookupFails` |
| a click on the map; the latitude or the longitude alone | `ClickMap`; `EditCoordinate` |
| `refreshTz`, `requestTz`, its throttle, in-flight guard and answers | `RefreshTz`, `TzConfirmed`, `TzFails`, `ThrottleEnds` |
| `postAlias`, its answers, `applyAliasFrame` | `PostAlias`, `SiteApplies`, `RenameAccepted`, `RenameFails`, `AliasFrame` |
| `loadBridges`, `addBridge`, `removeBridge` | `LoadBridges`, `TableRead`, `LoadSettles`; `ChangeBridges`, `ChangeApplied`, `ChangeAnswered` |
| `pump`, `runFeed`, `primeFeeds`, `cache.js` | `Pump` in `FeedTick` and `PlaceMoves`; `FeedDue`, `FeedReplies`, `FeedFails`; `PrimeFeeds`; `SaveCache` |

A card's size, value order and value modes are one `look`; units are one value;
a place is a pair of coordinates; a broker table is its version. `localStorage`
may refuse, and does so for good, as the code takes it. A page load brings back
every name that was stored, of sources dropped since too, because `dropSource`
does not save that it deleted them: `putBack` (history) is the sources whose
names a load or a failed rename put back. `edited` (history) is the places a
coordinate was edited to with the label each kept.

## 4. Runs

Every constant of a run is in its `.cfg`. Deadlock is checked in all runs but
`parts`, `hidden_cards` and `receiver_parts`: there a part rests when its bound
is reached, and a process that has exited stays so.

| run | bounds | what it shows |
|---|---|---|
| `bridge_streams` | 2 topics, 1 value and the empty payload, 2 streams of which 1 may be open, 2 packets in flight each way, a timer of 2 ticks, a broker that may grant all topics but one | `StreamsFollowCache`: an open stream shows what the cache holds; `DepartedAreGone`: nothing live is announced deleted; `CacheInBrokerOrder`: the cache ends with the broker's last message; `ImplementsBoard` |
| `bridge_live` | 1 topic, 1 value and the empty payload, 2 POSTs, 1 stream, 2 packets in flight, a timer of 1 tick, a broker that may refuse | `EveryPostAnswered` and `DeparturesResolved` under `Fairness`; `AckedIsVisible`: at a 204 the bytes are readable |
| `bridge_ghost`, `bridge_suback` | 1 topic, 1 value; 1 packet in flight and a timer of 1 tick, or 2 of each | findings, section 7 |
| `signal_tables` | 2 device slots, 3 subs, 1 pending entry, 3 keys of which one is the receiver's own, 3 message types, an arena that may run out, 6 records, a clock that wraps at 3 | `TablesAgree`, `OnlyTheOldestIsEvicted`, `RefusalsLeaveNoTrace`, `ImplementsSubFrames` |
| `signal_readings` | 1 device with 3 subs, 2 readings, a clock that wraps at 4, 4 records | `FreshestReadingWins`; `SilentDevicesGo` across the wrap |
| `replay_frames` | 1 stream, 2 device frames, 1 alias slot and 2 names, the time zone, 2 frames per pass, 4 writes | `NothingLost`, `SentOnce`, `NamesCurrent` |
| `replay_slots` | 2 slots, 3 streams attached one after the other, 3 entries, 1 frame per pass | `ReplayEnds` under `Fairness` |
| `replay_live` | 1 stream, 2 device frames that stay in the table, a name, the time zone, 1 frame per pass, 3 writes | finding, section 7 |
| `parts` | nine parts, one in each behaviour: | `PartsTypeOK`: types |
| - sources | 2 sources, 2 devices of which 1 is a receiver, a cap of 1 device each, names for the origin's device, 2 turns of the visitor, 1 of the servers, storage that may refuse | `StreamPerSource`, `NothingOfRemoved`; `SourcesGoLive` |
| - cards | 3 cards (the receiver's, a device's, a feed's) with a slot each, 1 finger, 1 edit and a page load, a cap of 1 device, storage that may refuse | `CardsAgree`, `ReloadRestores`, `SiteLayoutsLoad`, `EditsStand` |
| - settings | 2 sources, 2 units, 2 places, 2 zones that agree in summer only, 2 choices, 1 piece of news | `ChoicesStick`; `TzSettles` |
| - names, bridges, feeds | 3 renames; 3 loads and 2 changes; 2 feeds of which 1 is cached, 2 places, 3 moves | `NamesSettle`, `MirrorFresh`, `FeedsOfPlace` |
| - tokens, shutdown, certs | 3 tokens, 2 rotations, 2 crashes; 2 connections, timeouts of 2, 2 and a margin of 2; 2 target directories, 3 changes | `TokensAgree`, `ShutdownInTime`, `CertsCurrent` |
| `hidden_cards` | the cards of `parts`, 2 edits | finding, section 7 |
| `receiver_parts` | five parts, one in each behaviour: | |
| - mqtt | 2 rows and the build's own broker, 3 URLs of which 1 cannot be parsed, 2 tokens, 1 device and 1 name, 2 contents, 2 edits, 2 writes, 1 break (a lost link or a restart), memory that may run out | `ServesTable`, `BrokersHold`; `LinksComeBack` |
| - flash | each kind of store, 2 contents (2 names, 3 passwords with that of an open network), 2 saves, 2 resets | `AnsweredIsKept` |
| - rain | 3 gauges on 2 slots, 2 steps of rain, 2 nights, 1 mishap | `RainOfToday` |
| - radio | a clock that wraps after 6 minutes, silence after 2, a backoff of 1 | `RadioOkEarned` |
| - topics | topics of an ordinary and a `$` part, filters of these, `+`, `#` and a flawed part, up to 3 parts | `MatchersAgree` |

Why the bounds are enough:

- *Bridge.* Topics interact only through the shared queue, timer and `missing`
  set, and two reach every such case (one departs, one stays). Two packets in
  flight let a foreign publish, an echo and the SUBACK arrive in every order
  the broker allows. Two POSTs on one topic with equal or different bodies are
  the cases echo matching tells apart. Two streams with a limit of one reach the
  limit, a destroyed stream that still counts, and a place taken over. A timer
  of two ticks can be re-armed before it ends.
- *Signal store.* Two slots and three subs let a device hold one message or two
  while the sub table is full, so that both branches of `claimSub`, an eviction
  followed by a claim and a refusal all happen. Six records cover a gate passed
  twice, an eviction and a return. `Wrap` is just above the staleness limits
  plus a sweep interval, the tightest the assumption allows, so every difference
  is also taken across the wrap.
- *Event stream.* The cursor distinguishes behind, at and past; four entries and
  two frames per pass give a batch that ends by quota, by a blocked socket and
  by the end of the walk. Names that share one alias slot make an index change
  its topic under the cursor. Four writes allow an entry to be written, cleared
  and written by another name around one pass.
- *Sources.* Two sources let one be the origin and its probe. Two turns add and
  remove it around the probe, reload the page, or remove a source whose retry
  timer runs, or load the page after the name of a removed source was stored; an
  outage makes a stream refuse, be busy or drop. Names are those of the origin's
  device, whose renames alone are posted and may be reverted.
- *Cards.* Three kinds of cards are the three ways `ensureCard` treats one. One
  edit makes the arrangement the visitor's, and what follows (readings, frames,
  answers, prunes, page loads) is not bounded by it; a cap of one device makes
  every further reading push one out.
- *Settings, names, tables, feeds.* Two of each tell "the last" from "an
  earlier"; three renames or three moves allow away and back around a request.
- *Process.* Two rotations race around an awaited body; two crashes let one fall
  into the recovery of the other. Two connections keep each other from closing
  the server. A margin of two tells a teardown that takes time from one that
  takes all there is. Three changes of the disk write a pair and repoint a link.
- *Receiver.* Two rows and the build's own make connections change slots when
  one row goes; one break with two edits and writes reaches a write into a dead
  link, an edit while it is down and the replay after; two contents tell a stale
  value from the one held. Two saves and two resets
  let a reset fall into a save, and into the boot after it. Three gauges on two
  slots evict. Six minutes are the least in which a silence, a backoff and a
  wrap follow one another. A wildcard has a part before, at and after it.

Symmetry is used only in the runs without liveness properties, over topics,
values, requests, streams, keys of one class, types and readings, none of which
the specifications tell apart. The other runs choose by index, or use none.
Bounds in guards: `MaxInFlight` (packets in flight), `MaxSeq` (records,
sightings, writes), `MaxAttach` (streams since boot), `SweepWithin` (`loop()`
sweeps at least that often), and those named `Max...` in each module's
constants. The proofs hold for every value of them.

## 5. Fairness

`Bridge!Fairness`: the broker works through its connection; `mqtt.js`
reconnects; Node delivers what arrived and runs its timers; a body is read or
its idle timer fires. All of it is weak: the event loop serves every ready
callback and timer. No foreign publisher, page or operator is obliged to do
anything, and the connection may be lost at any time. `DeparturesResolved` says
what it needs in its own premise: the connection is eventually kept and other
publishers fall silent, because every message re-arms the settle timer.

`EventReplay!Fairness`: `Keepalive` weakly and `DrainReplay` of each slot
strongly. `loop()` calls `drainReplay` for every slot in each pass, some
milliseconds apart, and `Keepalive` every 15 s; a peer that reads has its
socket ready at some pass however often live frames fill it again, and a peer
that does not is given up by the keepalive. Peers, posts and the radio are
under no fairness.

`SourcesFairness` (`SourcesGoLive`): weakly, a source's server answers what asks
it (`Connected`), and a retry timer that runs fires. Both are the browser's.
Servers may fail at any time; the property's premise is that one source stays
configured and reachable from some point on.

`SettingsFairness` (`TzSettles`): weakly, the minute's `refreshTz` runs, the
throttle's timer fires, and a POST that is out ends, by an answer or a failure.
The premise is that zone and season settle and the receiver takes POSTs.

`PublishFairness` (`LinksComeBack`): weakly, `loop()`'s clock runs, and a dead
link is found out, by the socket or by MQTT's keepalive; strongly, of a
connection that is tried again and again some try succeeds. That the tries go on
is what is checked: nothing obliges the receiver to try but the loop itself.

The fairness of `MCParts` and `MCReceiver` is that of the specifications they
compose, each for the part in focus.

## 6. Proofs

`tlapm` checks every theorem for all values of the constants that satisfy

- `BrokerAssumption`, `BridgeAssumption`: the empty payload is not a value,
  filters and grants are sets of topics, the bounds are numbers;
- `SignalStoreAssumption`: the tables have entries, the staleness limits plus a
  sweep interval are less than the wrap of the clock (`millis()` wraps after
  49 days, the limits are hours); `FrameAssumption`: None is no frame;
- `EventReplayAssumption`: the tables are numbered one after the other, device
  keys, aliases and settings are different topics, each setting has one entry;
- `SourcesNamed`, `StorageMay`, `SourcesListed`, `ZonesKnown`, `UnitsKnown`,
  `UnsetNamed`, `UnknownNamed`, `TokensNamed`, `ShutdownTimes`, `ChangesBounded`:
  what names a thing is of its kind, what names none is not, the watchdog leaves
  a margin beyond the two timeouts it covers, and bounds are numbers;
- `CardsAssumption`: every card has a source and a slot, there are finitely many
  sources with the page's own among them, no card is `Nothing`, site layouts have
  the shape of a template;
- `PublishAssumption`, `FlashAssumption`, `RadioAssumption`, `RainAssumption`,
  `PartAssumption`: likewise, with the times of the radio's watch less than the clock's wrap and
  wildcards no parts of topics.

Every one of them is evaluated by TLC in the runs of its module.

| module | theorems | inductive invariant |
|---|---|---|
| `BridgeProofs` | `TypeCorrect`, `StreamsAgree`, `DepartedGone`, `ReadyIsSubscribed`, `CacheFollowsBroker`, `WaitersExact`, `AcksVisible`, `StreamsLimited`, `BridgeImplementsBoard` | `StreamsInv`: the streams property with `DepartedAreGone` and "no rebuild, nothing missing"; `SubscriptionInv`: at most one SUBSCRIBE or SUBACK is on its way and nothing is ready before it; `OrderInv`: the last message in flight on a topic is the broker's latest; `LimitInv`: the clients are a finite set; for the refinement `AbandonedInv`: an abandoned topic has no cache entry, so that it never departs again |
| `ProcessProofs` | `TokensTyped`, `TokensNeverLost`, `ShutdownTyped`, `ShutdownOrderly`, `CertsTyped`, `CertsServed`, `PartsAlwaysTyped` | `TokensInv`: what the disk is read as is one of what a crash would leave, and all of it was acknowledged last, or before with no directory synced since, or reached the disk and failed, and a renamed file is its rotation's own; for the shutdown, what each timer has left against the others, so that drain and echoes end a margin before the watchdog unless a client holds them, and what the two awaits take is at most what is left of it; for the certificates, what a reload under way has read against the changes since; `PartsInv`: the invariant of the part in focus, for each part of the page and of the process |
| `SignalStoreProofs` | `TypeCorrect`, `CountIsExact`, `TablesAlwaysAgree`, `NothingTwice`, `LatestAlways`, `LastRecordedAlways`, `RefusalsHarmless`, `EvictionTakesTheOldest`, `SilentDevicesLeave`, `SweepSpares`, `FreshestAlwaysWins`, `StoreGivesFrames` | `TablesInv`: the table properties together, with distinct sequence numbers (a claim finds room for its message because the device it evicted had one); `AgesMeasured`: an elapsed time taken modulo the wrap is the true age; `ReadingsInv`: no reading is newer than the message that carries it |
| `EventReplayProofs` | `TypeCorrect`, `NothingIsLost`, `NothingSentTwice`, `NamesStayCurrent`, `OldestGoesFirst` | `ReplayInv`: `TableInv` (entries have distinct numbers, a name has one entry), `StreamInv` per stream (an entry is passed exactly when it is sent, nothing sent is newer than the last write, names shown are names held), `SlotsInv` (streams attached at different times) |
| `PageProofs` | `SourcesTyped`, `StreamsPerSource`, `RemovedLeaveNothing`, `ReloadsBounded`, `SettingsTyped`, `ChoicesAlwaysStick`, `BridgesTyped`, `MirrorIsFresh`, `FeedsTyped`, `FeedsServePlace`, `NamesTyped`, `NamesAlwaysSettle` | `SourcesInv`: of a stream that is not open nothing is left, nor a name that was not put back (`Clean`), every configured source is open or was added during its probe (`Covered`), and reloads are counted by the builds seen; `SettingsInv`: the copy in storage, the place's label and the queue of lookups go with what was chosen, and a label that is not its place's was kept by an edit; `BridgesInv`: a load reads a table no older than there was when it was issued; `FeedsInv`: a run that is not aborted is for the page's place; `NamesInv`: with no frame on the way, the last rename that is out would be taken back to the receiver's name, or was made over one that may fail still, and with none out the page shows that name |
| `CardProofs` | `CardsTyped`, `CardsAlwaysAgree`, `LayoutsAlwaysLoad`, `EditsAlwaysStand`, `LayoutIsStored` | `CardsInv`: the page's arrangement and the stored one are layouts whose three collections agree (a load may bring back the stored one at any time), no device is listed twice, and the automatic layout is off once the arrangement is the visitor's; `LayoutIsStored` is inductive by itself |
| `ReceiverProofs` | `PublishTyped`, `TableAlwaysServed`, `BrokersAlwaysHold`, `AnsweredAlwaysKept`, `FlashTyped`, `RadioWellIsEarned`, `RadioTyped`, `MatchersAlwaysAgree`, `TopicsTyped`, `RainIsOfToday`, `RainTyped` | `ServesInv`: connections are typed and serve the rows of the table one for one; `PublishInv`: a link that is up serves a row, and what any broker retains that the receiver does not hold is something it was not told, its link up or not; `FlashInv`: between two saves a load would find what was answered for, in one key or the other, and within a save of a pair the name in flash is that in memory; `RadioInv`: while nothing is decoded since a recovery, the watch has seen the last decode and the recovery is stamped after it; `TopicInv`: what either loop has walked fits, part for part; `RainInv`: while no more gauges than slots are read on a day each keeps its own, because a slot of today is only taken when every slot is of today and of another gauge |

`StreamInv` is why the cursor protocol works: `NothingLost` and `SentOnce` are
the two halves of one equivalence, and a write keeps it because its number is
new to every stream. That also shows which half each bug would break: sending a
live frame to a stream whose cursor is at the entry breaks `SentOnce`,
withholding it from one whose cursor has passed breaks `NothingLost`.

`PublishInv` is why a reconnect needs no log: a broker that is away may hold
anything for what the receiver still has, because the replay overwrites it; only
what the receiver no longer has needs remembering, and the code does not
remember it, which is what `untold` shows, as it shows a record too large to
publish until the next replay or record.

`CardsInv` holds because every writer of `store.js` changes its three collections
alike: the prune keeps the same cards in each, `ensureCard` and `moveCard` leave
a card in the order once, and a template deals the cards it matched into the
positions those cards held. The last is a count: position `i` of the order, if
its card is named, takes the matched card numbered by how many named cards there
are up to `i`. As the matched cards are the named ones, each once, those
positions use them up from the first, and what is left over is the cards the
order did not have, so that nothing is lost or doubled (`DealtCards`). Of a layout saved from this page every
named card is dealt back to the position it came from (`DealtBack`), when no two
devices share a slot; when they share one, the last heard takes it, which is why
`SiteLayoutsLoad` has that premise.

`ServesInv` rests on the same lemmas: the rows that are wanted are the used ones
of the table and the build flag, at most as many as there are connections, so
that `begin` finds a connection for each of them after it has kept those that
still match.

`SubsequenceProofs` says of a filter what these proofs need: its elements, their
order, that it has none twice if the sequence has none, and how it goes through
`Append` and `\o`. A filter is a recursive function of the length; the induction
is over sets, by `EverySequence`: of a set of sequences with the empty one and,
with each, all that are one longer, nothing is left out, because a shortest
sequence left out would be one longer than one that is in.

Only model-checked, beside the violations: the liveness properties
`EveryPostAnswered`, `DeparturesResolved`, `ReplayEnds`, `SourcesGoLive`,
`TzSettles` and `LinksComeBack`, as liveness under fairness is beyond the prover.
Every other property of the passing runs is a theorem. `PublishTypeOK` and
`CardsTypeOK`, which the proofs state of their modules, are theorems without a
line of their own among the runs' invariants; `PartsTypeOK` includes the latter.

## 7. Findings

- `bridge_ghost`, `broker.js:126`: the 'close' handler drops a rebuild that is
  still settling, and the next 'connect' remembers only what the cache was
  refilled with. A topic deleted before the first reconnect is then never
  announced: when the second has settled and nothing is in flight any more
  (`Settled`), a stream still shows its message, of which neither the broker nor
  the cache has anything. `binding.md:113-116` promises the announcement.
  `StreamsFollowCache` states what does hold, with the history
  variable `abandoned` for these topics.
- `bridge_suback`, `broker.js:115`: a broker that replays retained messages
  before its SUBACK, and sends the SUBACK more than the settle time later, lets
  the timer consume the rebuild; the subscribe callback then dereferences null
  and the process exits (`SubackAfterSettle`). `architecture.md:129-130` allows
  a broker that order.
- `replay_live`, `web_ui.cpp:933`: a device with two frames retained as a stream
  connects is heard from when the cursor is past the first of them: its live
  frame goes out while the second retained frame is still to come.
  `user-manual.md:313-315` says retained frames come before any live frame.
  Nothing is lost or sent twice by it (`NothingLost`, `SentOnce`).
- `hidden_cards`, `store.js:98`: a save prunes a hidden card whose source has
  delivered another device but not yet its own; when it is heard, `ensureCard`
  shows a receiver's card again. The comment at `store.js:89-93` says the
  condition is there to prevent exactly that. `CardsAgree`, `ReloadRestores` and
  `EditsStand` state what holds.

Observations the models make plain, which no run states as a property.

Bridge:

- A POST may be answered 204 by a foreign publish of the same bytes on its topic
  (`broker.js:146`); a 503 after the echo timeout does not mean the broker will
  not take the publish later (`server.js:220`).
- On a topic stream that never falls silent the settle timer never fires and no
  departed topic is announced (`broker.js:138`).
- A topic deleted by its publisher right after a reconnect, before its retained
  message was replayed, reaches a stream as an empty message and not as
  `deleted` unless it carries the retain flag (`broker.js:261`).
- Two rotations may be authorised by the same old token, each before its body is
  read (`server.js:135`). A directory fsync that fails after the rename leaves
  the new token on disk and the old one in memory; both are in `loose`. One that
  the filesystem refuses is passed over (`token-store.js:61-63`), and a crash may
  then bring back a token a 204 had superseded.
- The bridge's own MQTT connection keeps the password it started with
  (`bin/mqtt-http-bridge.js:75`): after a rotation it cannot come back once it
  drops, contrary to `bridge/docs/user-manual.md:170-174` (`InnerConnects`).
- A body that goes on steadily, a reader that does not read, or a request on a
  connection kept past the close holds the shutdown until the watchdog. What
  `broker.end()` and `embedded.close()` take has only the margin of 5 s, which
  after a shutdown that used both timeouts is all that is left of the watchdog.
- A change of the certificate files that falls between a reload's reads and its
  new watchers is not seen, nor a file that comes to be where a dangling link
  leads (`unseen` in `CertWatch`; the comment at `embedded-broker.js:109-110`).

Receiver:

- A second sighting uses up its pending entry before the message may still be
  dropped for its size or for want of a message entry (`signal_store.cpp:408`);
  the device then needs two more.
- A reading merged into a sibling stays in circulation after the message it came
  in was swept.
- A stream that is replaying sees a device's messages in table order, so the
  last one it is sent of a device may be an older type's.
- A name cleared, a device swept or evicted, and devices lost to a restart stay
  retained at a broker that was away; clearing a name again while connected
  removes it. Brokers removed from the table keep everything (`untold`). A
  record that a hook grows past what may be published is stored as it was before
  the hooks, and reaches connected brokers with the device's next record or the
  next replay only (`mqtt_publish.cpp:386-388`).
- A connection that is out of memory is set up again only at the next edit of
  the table or restart.
- The WiFi pair is torn by a reset between its two writes, by a restore that
  fails, or when an open network is saved; the time zone's write is not checked,
  so a failed one is answered 204, and its offset is cast to 16 bits
  (`web_ui.cpp:453`).
- `radio_ok` may be 1 with nothing decoded since a recovery: when the clock has
  wrapped since the last decode (`WebReceiver.ino:477`), and when a decode heard
  before the recovery is seen after it (`radio_health.cpp:21-25`); compare
  `receiver/docs/architecture.md:185-186`. `RadioOkEarned` excepts both by name.
- A change of time zone back across midnight leaves a rain baseline of the other
  zone's day; with more gauges than slots in a day, baselines are evicted and
  rain is undercounted, never overcounted. A restart of the receiver begins the
  day's count again (`device_hooks.cpp:147-149`), and what fell before it is not
  in `rain_today_mm` any more (`begunAgain`).
- The bridge keeps wildcards from topics that begin with `$`, as a broker does;
  the receiver's matcher does not.

Dashboard:

- A source that is removed keeps its cards (`dropSource` does not touch
  `cardState`), where the user manual says it drops them; its aliases are
  deleted in memory only, so that a page load brings them back, unless another
  name is saved before (`alias.js:38-52`).
- The end of the origin's probe closes the stream of an origin that was added by
  hand meanwhile (`main.jsx:145-152`; `byHand`).
- A latitude or a longitude edited by hand keeps the label of the place it was
  (`location.jsx:116`, `location.jsx:122`, `settings.js:302`; `EditCoordinate`).
- A latitude and then a longitude typed from blank never make a place, because
  half of one is none (`settings.js:44-56`, `location.jsx:113-123`).
- A rename that fails while an earlier one is out goes back to a name that may
  fail too, and a frame that came meanwhile is undone (`Muddled`,
  `alias.js:63-111`).
- A POST of the time zone that took effect though it seemed to fail is not
  repeated, and the next different offset is (`slipped`).
- A second finger's press replaces the first's drag (`grid.js:363-369`), and a
  value may be pressed during a resize (`cards.jsx:228-275`).
- Beside "Nothing carries over" (`feed.js`), a card goes on showing the old
  place's fields until the new place's reply; `feedState` is honest about it
  (`FeedsOfPlace`).

## 8. Not modelled

- Text: formatting, parsing, JSON, escaping, device names, renderers and styles,
  broker URLs, the page's theme. Where a conversion decides something (a filter,
  a template, a slot) it is modelled by what it decides.
- `astro.js`, unit conversion and the derived values of `device_hooks.cpp` other
  than rain: arithmetic without state.
- Hardware and I/O: the radio driver beyond its health, the AHT20, TLS, the WiFi
  connection and the provisioning portal (a form, an access point and a
  restart), over-the-air updates beyond their token.
- In the modelled components: logging, statistics and drop counters, the body
  reader's own timers but at the end of the process, OPTIONS, GET and static
  pages (no state), keepalives of the bridge's streams, POSTs of units and place
  (nothing waits for them), what of a broker's or a page's state no property
  tells apart (which of a source's devices have names), and the time `loop()`
  spends without WiFi, when `/events` is not served (`web_ui.cpp:888`).
- Probes, build scripts and the mobile shell.
