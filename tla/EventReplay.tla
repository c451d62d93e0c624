----------------------------- MODULE EventReplay -----------------------------
(***************************************************************************)
(* The receiver's event stream, receiver/web_ui.cpp: the slots of /events, *)
(* the replay cursor of each, the live frames, and the POST handlers that  *)
(* write the alias table and the settings the cursor walks as well.        *)
(*                                                                         *)
(* Everything runs in loop(), one call at a time, so every call is one     *)
(* step; only the peers act in between.  Entries are numbered from 1       *)
(* through the three tables (web_ui.cpp counts from 0).  A payload is the  *)
(* number of the write that made it; `sent` and `shown` are history, what  *)
(* went out on a stream and the last of it per topic.  A write the stores  *)
(* refuse (403, 400, 503) changes nothing and is no step.                  *)
(***************************************************************************)
EXTENDS SubFrames, FiniteSets, Sequences

CONSTANTS
  AliasTopic,    \* topics ending in /$alias
  AliasSlots,    \* ALIAS_SLOTS
  Setting,       \* the topics of the single entries: $layout, $location, $tz, $units
  AlwaysSet,     \* those of them that always hold a value: $tz
  Wants,         \* what the filters of a request may match
  SseClients,    \* WEB_UI_SSE_CLIENTS
  ReplayPerLoop, \* REPLAY_PER_LOOP
  MaxAttach      \* bound: streams attached since boot

Client == 1..SseClients
AliasIndex == (SubTable + 1)..(SubTable + AliasSlots)
SettingIndex == (SubTable + AliasSlots + 1)..(SubTable + AliasSlots + Len(Setting))
Index == Sub \cup AliasIndex \cup SettingIndex
End == SubTable + AliasSlots + Len(Setting) + 1
Done == 0

SettingOf(j) == Setting[j - SubTable - AliasSlots]
SettingTopic == {SettingOf(j) : j \in SettingIndex}
Topic == Key \cup AliasTopic \cup SettingTopic

Frame == [topic : Topic, seq : 0..MaxSeq]
Stream == [attachedAt : 1..MaxAttach, wants : SUBSET Topic, replay : {Done} \cup 1..End,
           ready : BOOLEAN, closed : BOOLEAN,
           sent : SUBSET [topic : Topic, seq : 0..MaxSeq \cup {None}], shown : [Topic -> 0..MaxSeq \cup {None}]]

ASSUME EventReplayAssumption ==
  /\ SubTable \in Nat /\ AliasSlots \in Nat /\ MaxSeq \in Nat /\ MaxAttach \in Nat
  /\ SseClients \in Nat \ {0} /\ ReplayPerLoop \in Nat \ {0}
  /\ Setting \in Seq(AlwaysSet \cup SettingTopic)
  /\ \A i, j \in SettingIndex : SettingOf(i) = SettingOf(j) => i = j
  /\ Key \cap AliasTopic = {} /\ Key \cap SettingTopic = {} /\ AliasTopic \cap SettingTopic = {}
  /\ AlwaysSet \subseteq SettingTopic
  /\ Wants \subseteq SUBSET Topic
  /\ None \notin SubFrame \cup Frame \cup Stream \cup Nat

VARIABLES
  aliases,     \* alias_store's _topics, _names and _used, per index
  settings,    \* what layout_store, location_store, tz_store and units_store hold, per index
  sse,         \* _sse, _sseAttachedAt, _filters, _replay; None is a free slot
  attachCount, \* _sseAttachCounter
  writes       \* payloads written since boot

stores == <<subs, aliases, settings>>
vars == <<stores, sse, attachCount, writes>>

TypeOK ==
  /\ SubsTypeOK
  /\ aliases \in [AliasIndex -> [topic : AliasTopic, seq : 1..MaxSeq] \cup {None}]
  /\ settings \in [SettingIndex -> [topic : SettingTopic, seq : 0..MaxSeq] \cup {None}]
  /\ \A j \in SettingIndex : settings[j] # None => settings[j].topic = SettingOf(j)
  /\ sse \in [Client -> Stream \cup {None}]
  /\ attachCount \in 0..MaxAttach
  /\ writes \in 0..MaxSeq

Init ==
  /\ SubsInit
  /\ aliases = [j \in AliasIndex |-> None]
  /\ settings = [j \in SettingIndex |-> IF SettingOf(j) \in AlwaysSet THEN [topic |-> SettingOf(j), seq |-> 0] ELSE None]
  /\ sse = [i \in Client |-> None]
  /\ attachCount = 0
  /\ writes = 0

-----------------------------------------------------------------------------
(* The slots *)

Open(table) == {i \in Client : table[i] # None}

\* reapClosedClients: the slots of peers that sent a FIN are free.
Reaped == [i \in Client |-> IF sse[i] # None /\ sse[i].closed THEN None ELSE sse[i]]

\* A free slot, or that of the stream attached longest ago.
SlotFor(table) ==
  IF Open(table) # Client THEN CHOOSE i \in Client \ Open(table) : \A j \in Client \ Open(table) : i <= j
  ELSE CHOOSE i \in Client : \A j \in Client : table[i].attachedAt <= table[j].attachedAt

NothingShown == [t \in Topic |-> None]

\* handleEvents: the cursor of a new stream is at the first entry.
Attach(wants, ready) ==
  /\ attachCount < MaxAttach
  /\ attachCount' = attachCount + 1
  /\ sse' = [Reaped EXCEPT ![SlotFor(Reaped)] =
       [attachedAt |-> attachCount + 1, wants |-> wants, replay |-> 1, ready |-> ready, closed |-> FALSE,
        sent |-> {}, shown |-> NothingShown]]
  /\ UNCHANGED <<stores, writes>>

\* The response header could not be sent, after the slot was made free.
AttachFails ==
  /\ sse' = [Reaped EXCEPT ![SlotFor(Reaped)] = None]
  /\ UNCHANGED <<stores, attachCount, writes>>

Reap ==
  /\ sse' = Reaped
  /\ UNCHANGED <<stores, attachCount, writes>>

\* Mutant of Keepalive: a stream that is not ready is left for later.
KeepaliveWaits ==
  /\ \E kept \in SUBSET {i \in Open(Reaped) : sse[i].ready} : \E filled \in SUBSET kept :
       sse' = [i \in Client |-> IF i \in kept THEN [sse[i] EXCEPT !.ready = i \notin filled] ELSE Reaped[i]]
  /\ UNCHANGED <<stores, attachCount, writes>>

\* A stream that is not ready is given up; a ready one takes the comment, is
\* filled by it, or fails.
Keepalive ==
  /\ \E kept \in SUBSET {i \in Open(Reaped) : sse[i].ready} : \E filled \in SUBSET kept :
       sse' = [i \in Client |-> IF i \in kept THEN [sse[i] EXCEPT !.ready = i \notin filled] ELSE None]
  /\ UNCHANGED <<stores, attachCount, writes>>

PeerCloses(i) ==
  /\ sse[i] # None /\ ~sse[i].closed
  /\ sse' = [sse EXCEPT ![i].closed = TRUE]
  /\ UNCHANGED <<stores, attachCount, writes>>

PeerReads(i) ==
  /\ sse[i] # None /\ ~sse[i].ready
  /\ sse' = [sse EXCEPT ![i].ready = TRUE]
  /\ UNCHANGED <<stores, attachCount, writes>>

-----------------------------------------------------------------------------
(* Replay *)

\* The entry at an index of the cursor's walk.
Stored(j) == IF j \in Sub THEN subs[j] ELSE IF j \in AliasIndex THEN aliases[j] ELSE settings[j]

\* The entries a stream is to be sent, and those of them from its cursor up
\* to an index.
Visible(s) == {j \in Index : Stored(j) # None /\ Stored(j).topic \in s.wants}
Batch(s, upTo) == {j \in Visible(s) : s.replay <= j /\ j < upTo}

\* The frames of a batch go out in the order of their indices.
SentBatch(s, batch) ==
  [s EXCEPT !.sent = @ \cup {Stored(j) : j \in batch},
            !.shown = [t \in Topic |->
              LET ofTopic == {j \in batch : Stored(j).topic = t}
              IN IF ofTopic = {} THEN @[t] ELSE Stored(CHOOSE j \in ofTopic : \A i \in ofTopic : i <= j).seq]]

\* REPLAY_PER_LOOP frames went out: the cursor waits behind the last.
DrainQuota(i, upTo, ready) ==
  /\ sse[i].ready
  /\ Cardinality(Batch(sse[i], upTo)) = ReplayPerLoop
  /\ upTo - 1 \in Batch(sse[i], upTo)
  /\ sse' = [sse EXCEPT ![i] = [SentBatch(sse[i], Batch(sse[i], upTo)) EXCEPT !.replay = upTo, !.ready = ready]]

\* The socket is not ready for the frame at upTo: the cursor waits before it.
DrainBlocked(i, upTo) ==
  /\ Cardinality(Batch(sse[i], upTo)) < ReplayPerLoop
  /\ upTo \in Visible(sse[i])
  /\ sse[i].ready <=> Batch(sse[i], upTo) # {}
  /\ sse' = [sse EXCEPT ![i] = [SentBatch(sse[i], Batch(sse[i], upTo)) EXCEPT !.replay = upTo, !.ready = FALSE]]

\* The frame at upTo went out in part, or the socket filled up under it.
DrainFails(i, upTo) ==
  /\ sse[i].ready
  /\ Cardinality(Batch(sse[i], upTo)) < ReplayPerLoop
  /\ upTo \in Visible(sse[i])
  /\ sse' = [sse EXCEPT ![i] = None]

\* Every entry has been passed.
DrainEnds(i, ready) ==
  /\ Cardinality(Batch(sse[i], End)) < ReplayPerLoop
  /\ Batch(sse[i], End) # {} => sse[i].ready
  /\ Batch(sse[i], End) = {} => ready = sse[i].ready
  /\ sse' = [sse EXCEPT ![i] = [SentBatch(sse[i], Batch(sse[i], End)) EXCEPT !.replay = Done, !.ready = ready]]

DrainReplay(i) ==
  /\ sse[i] # None /\ sse[i].replay # Done
  /\ \/ \E upTo \in sse[i].replay..End, ready \in BOOLEAN : DrainQuota(i, upTo, ready)
     \/ \E upTo \in sse[i].replay..End : DrainBlocked(i, upTo) \/ DrainFails(i, upTo)
     \/ \E ready \in BOOLEAN : DrainEnds(i, ready)
  /\ UNCHANGED <<stores, attachCount, writes>>

-----------------------------------------------------------------------------
(* Live frames *)

\* Whether the cursor has left an index behind.
Passed(s, j) == s.replay = Done \/ j < s.replay

NoIndex == 0

\* Mutant of Recipients: a stream still replaying gets no live frames.
RecipientsDone(topic, index) ==
  {i \in Client : sse[i] # None /\ topic \in sse[i].wants /\ (index # NoIndex => sse[i].replay = Done)}

\* Mutant of Recipients: the entry at the cursor counts as passed.
RecipientsAtCursor(topic, index) ==
  {i \in Client : sse[i] # None /\ topic \in sse[i].wants /\
                  (index # NoIndex => sse[i].replay = Done \/ index <= sse[i].replay)}

\* A live frame is for the streams that want it and will not come to it.
Recipients(topic, index) ==
  {i \in Client : sse[i] # None /\ topic \in sse[i].wants /\ (index # NoIndex => Passed(sse[i], index))}

SentLive(s, frame, ready) ==
  [s EXCEPT !.sent = @ \cup {frame}, !.shown[frame.topic] = frame.seq, !.ready = ready]

\* broadcastFrame: a stream that cannot take the whole frame is given up.
BroadcastFrame(frame, index) ==
  \E took \in SUBSET {i \in Recipients(frame.topic, index) : sse[i].ready} : \E filled \in SUBSET took :
    sse' = [i \in Client |-> IF i \in took THEN SentLive(sse[i], frame, i \notin filled)
                             ELSE IF i \in Recipients(frame.topic, index) THEN None ELSE sse[i]]

\* record() and broadcast() of what was recorded.
Record(k, j) ==
  /\ writes < MaxSeq
  /\ writes' = writes + 1
  /\ StoreFrame(k, j, writes + 1)
  /\ BroadcastFrame(subs'[LatestSub(k, subs')], LatestSub(k, subs'))
  /\ UNCHANGED <<aliases, settings, attachCount>>

Sweep ==
  /\ SweepFrames
  /\ UNCHANGED <<aliases, settings, sse, attachCount, writes>>

AliasOf(t) == {j \in AliasIndex : aliases[j] # None /\ aliases[j].topic = t}
FreeAlias == {j \in AliasIndex : aliases[j] = None}

\* alias_store::set: the entry of the topic, or a free one.
AliasEntry(t) == IF AliasOf(t) # {} THEN AliasOf(t) ELSE {j \in FreeAlias : \A i \in FreeAlias : j <= i}

PostAlias(t) ==
  /\ writes < MaxSeq
  /\ writes' = writes + 1
  /\ \E j \in AliasEntry(t) :
       LET frame == [topic |-> t, seq |-> writes + 1]
       IN /\ aliases' = [aliases EXCEPT ![j] = frame]
          /\ BroadcastFrame(frame, j)
  /\ UNCHANGED <<subs, settings, attachCount>>

WithoutAlias(t) == [j \in AliasIndex |-> IF j \in AliasOf(t) THEN None ELSE aliases[j]]

\* Mutant of ClearAlias: an empty name is not broadcast.
ClearAliasQuiet(t) ==
  /\ aliases' = WithoutAlias(t)
  /\ UNCHANGED <<subs, settings, sse, attachCount, writes>>

\* alias_store::remove, when the topic has an entry; the empty name goes out
\* in any case.
ClearAlias(t) ==
  /\ aliases' = WithoutAlias(t)
  /\ BroadcastFrame([topic |-> t, seq |-> None], NoIndex)
  /\ UNCHANGED <<subs, settings, attachCount, writes>>

\* handleLayoutPost, handleLocationPost, handleUnitsPost, handleTzPost.
PostSetting(j) ==
  LET frame == [topic |-> SettingOf(j), seq |-> writes + 1]
  IN /\ writes < MaxSeq
     /\ writes' = writes + 1
     /\ settings' = [settings EXCEPT ![j] = frame]
     /\ BroadcastFrame(frame, j)
     /\ UNCHANGED <<subs, aliases, attachCount>>

-----------------------------------------------------------------------------
Next ==
  \/ \E wants \in Wants, ready \in BOOLEAN : Attach(wants, ready)
  \/ AttachFails
  \/ Reap
  \/ Keepalive
  \/ \E i \in Client : PeerCloses(i) \/ PeerReads(i) \/ DrainReplay(i)
  \/ \E k \in Key, j \in Sub : Record(k, j)
  \/ Sweep
  \/ \E t \in AliasTopic : PostAlias(t) \/ ClearAlias(t)
  \/ \E j \in SettingIndex : PostSetting(j)

\* loop() drains before it sends a keepalive, every few milliseconds against
\* every 15 seconds: a peer that keeps reading is drained, whatever fills its
\* socket in between.  Nothing obliges peers, posts or the radio.
Fairness == WF_vars(Keepalive) /\ \A i \in Client : SF_vars(DrainReplay(i))

Spec == Init /\ [][Next]_vars /\ Fairness

-----------------------------------------------------------------------------
(* Safety *)

\* Whatever is stored at an index the cursor of a stream has passed, before
\* or after the cursor came by, has been sent on it in its current version.
NothingLost ==
  \A i \in Open(sse) : \A j \in Visible(sse[i]) : Passed(sse[i], j) => Stored(j) \in sse[i].sent

\* What the cursor has yet to come to has not been sent: a device heard from
\* mid-replay is sent once, not twice.
SentOnce ==
  \A i \in Open(sse) : \A j \in Visible(sse[i]) : ~Passed(sse[i], j) => Stored(j) \notin sse[i].sent

\* The entries of a topic other than a device, at most one.
EntriesOf(t) == {j \in AliasIndex \cup SettingIndex : Stored(j) # None /\ Stored(j).topic = t}

\* The last that a stream was sent of an alias or a setting is what the
\* receiver holds of it, or nothing while the cursor has yet to come to it;
\* a cleared alias is not left on any page.
NamesCurrent ==
  \A i \in Open(sse) : \A t \in sse[i].wants \ Key :
    LET passed == {j \in EntriesOf(t) : Passed(sse[i], j)}
    IN IF passed = {} THEN sse[i].shown[t] = None ELSE \A j \in passed : sse[i].shown[t] = Stored(j).seq

\* A new viewer takes the slot of an open stream only when every slot is held
\* by one, and then of the one attached longest ago.
OnlyTheLongestAttachedGoes ==
  [][\A i \in Open(sse) :
       attachCount' # attachCount /\ ~sse[i].closed /\ sse'[i] # sse[i] =>
         \A other \in Client \ {i} :
           /\ sse[other] # None /\ ~sse[other].closed
           /\ sse[i].attachedAt < sse[other].attachedAt]_vars

(* Liveness *)

\* A replay comes to its end, or its stream is given up: no peer that reads
\* now and then, or never, keeps a cursor waiting for ever.
ReplayEnds ==
  \A i \in Client : sse[i] # None /\ sse[i].replay # Done ~> sse[i] = None \/ sse[i].replay = Done

=============================================================================
