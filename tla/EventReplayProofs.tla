-------------------------- MODULE EventReplayProofs --------------------------
(***************************************************************************)
(* Proofs about the event stream of EventReplay.tla: its types and its     *)
(* safety properties, for any number of devices, aliases, settings,        *)
(* streams and frames per pass of the main loop.                           *)
(***************************************************************************)
EXTENDS EventReplay, WellFoundedInduction, TLAPS

LEMMA MinExists ==
  ASSUME NEW S \in SUBSET Nat, S # {}
  PROVE  \E x \in S : \A y \in S : x <= y
<1> DEFINE R == {p \in Nat \X Nat : p[1] < p[2]}
<1>1. IsWellFoundedOn(R, Nat)
  BY NatLessThanWellFounded DEF OpToRel
<1>2. \A x, y \in Nat : <<y, x>> \in R <=> y < x
  OBVIOUS
<1> HIDE DEF R
<1>3. PICK x \in S : \A y \in S : ~ (<<y, x>> \in R)
  BY <1>1, WFMin
<1>4. ASSUME NEW y \in S PROVE x <= y
  <2>1. ~ (y < x) /\ x \in Nat /\ y \in Nat
    BY <1>2, <1>3
  <2> QED BY <2>1
<1> QED BY <1>4

-----------------------------------------------------------------------------
(* The walk of the cursor *)

\* Subs, aliases and settings follow one another, and End follows them.
LEMMA IndexParts ==
  /\ Len(Setting) \in Nat /\ End \in Nat
  /\ \A j \in Index : j \in Nat /\ 1 <= j /\ j < End
  /\ \A j \in Index : j \in Sub \/ j \in AliasIndex \/ j \in SettingIndex
  /\ \A j \in Sub : j \in Index /\ j \notin AliasIndex /\ j \notin SettingIndex
  /\ \A j \in AliasIndex : j \in Index /\ j \notin Sub /\ j \notin SettingIndex
  /\ \A j \in SettingIndex : j \in Index /\ j \notin Sub /\ j \notin AliasIndex
<1>1. Len(Setting) \in Nat /\ SubTable \in Nat /\ AliasSlots \in Nat
  BY EventReplayAssumption
<1> QED BY <1>1 DEF End, Index, Sub, AliasIndex, SettingIndex

\* What the cursor reads at each index: the three tables as one.
Table == [j \in Index |-> Stored(j)]

TableOf(T) == {j \in Index : T[j] # None}
Names == AliasIndex \cup SettingIndex

\* Writes are numbered, so no two entries are the same; a name has one entry.
TableInv(T, w) ==
  /\ \A j \in TableOf(T) : T[j] \in Frame /\ T[j].topic \in Topic /\ T[j].seq \in 0..w
  /\ \A j \in TableOf(T) : T[j].topic \in Key <=> j \in Sub
  /\ \A i, j \in TableOf(T) : T[i] = T[j] => i = j
  /\ \A i, j \in TableOf(T) \cap Names : T[i].topic = T[j].topic => i = j

\* The entries of a name that a stream's cursor has passed.
PassedNames(s, t, T) == {j \in TableOf(T) \cap Names : T[j].topic = t /\ Passed(s, j)}

\* NothingLost, SentOnce and NamesCurrent of one stream.  That nothing sent is
\* newer than the last write makes the next one new to every stream.
StreamInv(s, T, w) ==
  /\ \A j \in TableOf(T) : T[j].topic \in s.wants => (Passed(s, j) <=> T[j] \in s.sent)
  /\ \A frame \in s.sent : frame.seq = None \/ frame.seq \in 0..w
  /\ \A t \in s.wants \ Key :
       /\ PassedNames(s, t, T) = {} => s.shown[t] = None
       /\ \A j \in PassedNames(s, t, T) : s.shown[t] = T[j].seq

\* Streams are told apart by when they attached.
SlotsInv ==
  /\ \A i \in Open(sse) : sse[i].attachedAt <= attachCount
  /\ \A i, j \in Open(sse) : sse[i].attachedAt = sse[j].attachedAt => i = j

ReplayInv ==
  /\ TypeOK
  /\ TableInv(Table, writes)
  /\ \A i \in Open(sse) : StreamInv(sse[i], Table, writes)
  /\ SlotsInv

\* The fields of a stream.
LEMMA StreamFields ==
  ASSUME NEW s \in Stream
  PROVE  /\ s.attachedAt \in 1..MaxAttach /\ s.wants \in SUBSET Topic /\ s.replay \in {Done} \cup 1..End
         /\ s.ready \in BOOLEAN /\ s.closed \in BOOLEAN
         /\ s.sent \in SUBSET [topic : Topic, seq : 0..MaxSeq \cup {None}]
         /\ s.shown \in [Topic -> 0..MaxSeq \cup {None}]
         /\ s # None
         /\ s = [attachedAt |-> s.attachedAt, wants |-> s.wants, replay |-> s.replay, ready |-> s.ready,
                 closed |-> s.closed, sent |-> s.sent, shown |-> s.shown]
BY EventReplayAssumption DEF Stream

-----------------------------------------------------------------------------
(* One stream, one change *)

\* A frame written to an index, with or without other device frames lost.
LEMMA FrameWritten ==
  ASSUME NEW w \in Nat, NEW T, TableInv(T, w), NEW T1, NEW j \in Index, NEW frame \in Frame,
         T1[j] = frame, frame.seq = w + 1, frame.topic \in Key <=> j \in Sub,
         \A m \in Index \ {j} : T1[m] = T[m] \/ (m \in Sub /\ T1[m] = None),
         \A m \in TableOf(T) \cap Names : T[m].topic = frame.topic <=> m = j
  PROVE  TableInv(T1, w + 1)
<1>1. frame # None /\ frame.topic \in Topic /\ frame.seq \in 0..(w + 1)
  BY EventReplayAssumption DEF Frame
<1>2. TableOf(T1) \subseteq TableOf(T) \cup {j} /\ \A m \in TableOf(T1) \ {j} : T1[m] = T[m] /\ m \in TableOf(T)
  BY DEF TableOf
<1>3. \A m \in TableOf(T1) \ {j} : T1[m].seq \in 0..w
  BY <1>2 DEF TableInv
<1>4. \A m \in TableOf(T1) : T1[m] \in Frame /\ T1[m].topic \in Topic /\ T1[m].seq \in 0..(w + 1)
  BY <1>1, <1>2 DEF TableInv
<1>5. \A m \in TableOf(T1) : T1[m].topic \in Key <=> m \in Sub
  BY <1>2 DEF TableInv
<1>6. \A m, n \in TableOf(T1) : T1[m] = T1[n] => m = n
  BY <1>1, <1>2, <1>3 DEF TableInv
<1>7. \A m, n \in TableOf(T1) \cap Names : T1[m].topic = T1[n].topic => m = n
  BY <1>2 DEF TableInv
<1> QED BY <1>4, <1>5, <1>6, <1>7 DEF TableInv

\* The stream of a recipient is sent the frame, that of any other is as it was.
LEMMA FrameDelivered ==
  ASSUME NEW w \in Nat, NEW T, TableInv(T, w), NEW T1, NEW j \in Index, NEW frame \in Frame,
         T1[j] = frame, frame.seq = w + 1, frame.topic \in Key <=> j \in Sub,
         \A m \in Index \ {j} : T1[m] = T[m] \/ (m \in Sub /\ T1[m] = None),
         \A m \in TableOf(T) \cap Names : T[m].topic = frame.topic <=> m = j,
         NEW s \in Stream, StreamInv(s, T, w), NEW ready \in BOOLEAN,
         NEW s1, s1 = IF frame.topic \in s.wants /\ Passed(s, j) THEN SentLive(s, frame, ready) ELSE s
  PROVE  StreamInv(s1, T1, w + 1)
<1> DEFINE took == frame.topic \in s.wants /\ Passed(s, j)
<1>1. frame # None /\ frame.topic \in Topic /\ frame.seq \in Nat /\ w + 1 \in Nat /\ None \notin Nat
  BY EventReplayAssumption DEF Frame
<1>2. TableOf(T1) \subseteq TableOf(T) \cup {j} /\ \A m \in TableOf(T1) \ {j} : T1[m] = T[m] /\ m \in TableOf(T)
  BY DEF TableOf
<1>3. \A m \in TableOf(T) : T[m].seq \in 0..w
  BY DEF TableInv
<1>4. /\ s1.wants = s.wants /\ s1.replay = s.replay
      /\ s1.sent = IF took THEN s.sent \cup {frame} ELSE s.sent
      /\ s1.shown = IF took THEN [s.shown EXCEPT ![frame.topic] = frame.seq] ELSE s.shown
  BY StreamFields DEF SentLive
<1>5. \A m : Passed(s1, m) <=> Passed(s, m)
  BY <1>4 DEF Passed
<1>6. frame \notin s.sent
  BY <1>1 DEF StreamInv
<1>7. ASSUME NEW m \in TableOf(T1), T1[m].topic \in s.wants PROVE Passed(s1, m) <=> T1[m] \in s1.sent
  <2>1. CASE m = j
    BY <1>4, <1>5, <1>6, <1>7, <2>1
  <2>2. CASE m # j
    <3>1. T1[m] = T[m] /\ m \in TableOf(T) /\ T[m] # frame
      BY <1>1, <1>2, <1>3, <2>2
    <3>2. Passed(s, m) <=> T[m] \in s.sent
      BY <1>7, <3>1 DEF StreamInv
    <3> QED BY <1>4, <1>5, <3>1, <3>2
  <2> QED BY <2>1, <2>2
<1>8. \A sentFrame \in s1.sent : sentFrame.seq = None \/ sentFrame.seq \in 0..(w + 1)
  BY <1>1, <1>4 DEF StreamInv
<1>9. ASSUME NEW t \in s.wants \ Key
      PROVE  /\ PassedNames(s1, t, T1) = {} => s1.shown[t] = None
             /\ \A m \in PassedNames(s1, t, T1) : s1.shown[t] = T1[m].seq
  <2>1. t \in Topic /\ s.shown \in [Topic -> 0..MaxSeq \cup {None}]
    BY StreamFields
  <2>2. /\ PassedNames(s, t, T) = {} => s.shown[t] = None
        /\ \A m \in PassedNames(s, t, T) : s.shown[t] = T[m].seq
    BY DEF StreamInv
  <2>3. CASE t # frame.topic
    <3>1. s1.shown[t] = s.shown[t]
      BY <1>4, <2>1, <2>3
    <3>2. \A m \in TableOf(T) \cap Names : m # j => T1[m] = T[m] /\ m \in TableOf(T1)
      BY IndexParts DEF Names, TableOf
    <3>3. PassedNames(s1, t, T1) = PassedNames(s, t, T)
      BY <1>2, <1>5, <2>3, <3>2 DEF PassedNames
    <3>4. \A m \in PassedNames(s, t, T) : m # j
      BY <2>3 DEF PassedNames
    <3> QED BY <1>2, <2>2, <3>1, <3>2, <3>3, <3>4 DEF PassedNames
  <2>4. CASE t = frame.topic
    <3>1. j \in Names
      BY <1>9, <2>4, IndexParts DEF Names
    <3>2. \A m \in TableOf(T1) \cap Names : T1[m].topic = t => m = j
      BY <1>2, <2>4
    <3>3. PassedNames(s, t, T) \subseteq {j} /\ (PassedNames(s, t, T) # {} => Passed(s, j))
      BY <2>4 DEF PassedNames
    <3>4. PassedNames(s1, t, T1) = IF Passed(s, j) THEN {j} ELSE {}
      BY <1>1, <1>5, <2>4, <3>1, <3>2 DEF PassedNames, TableOf
    <3>5. Passed(s, j) => s1.shown[t] = frame.seq
      BY <1>4, <1>9, <2>1, <2>4
    <3>6. ~Passed(s, j) => s1.shown[t] = None
      BY <1>4, <2>2, <3>3
    <3> QED BY <3>4, <3>5, <3>6
  <2> QED BY <2>3, <2>4
<1> QED BY <1>4, <1>7, <1>8, <1>9 DEF StreamInv

\* Entries that go, with nothing sent: frames of devices.
LEMMA FramesLost ==
  ASSUME NEW w \in Nat, NEW T, TableInv(T, w), NEW T1,
         \A m \in Index : T1[m] = T[m] \/ (m \in Sub /\ T1[m] = None)
  PROVE  /\ TableInv(T1, w)
         /\ \A s \in Stream : StreamInv(s, T, w) => StreamInv(s, T1, w)
<1>1. \A m \in TableOf(T1) : T1[m] = T[m] /\ m \in TableOf(T)
  BY DEF TableOf
<1>2. TableInv(T1, w)
  BY <1>1 DEF TableInv
<1>3. \A m \in TableOf(T) \cap Names : T1[m] = T[m] /\ m \in TableOf(T1)
  BY IndexParts DEF Names, TableOf
<1>4. \A s, t : PassedNames(s, t, T1) = PassedNames(s, t, T)
  BY <1>1, <1>3 DEF PassedNames
<1>5. ASSUME NEW s \in Stream, StreamInv(s, T, w) PROVE StreamInv(s, T1, w)
  <2>1. \A m \in TableOf(T1) : T1[m].topic \in s.wants => (Passed(s, m) <=> T1[m] \in s.sent)
    BY <1>1, <1>5 DEF StreamInv
  <2>2. \A t, m : m \in PassedNames(s, t, T) => T1[m] = T[m]
    BY <1>3 DEF PassedNames
  <2> QED BY <1>4, <1>5, <2>1, <2>2 DEF StreamInv
<1> QED BY <1>2, <1>5

\* An alias that goes is cleared on every stream that wants it.
LEMMA NameCleared ==
  ASSUME NEW w \in Nat, NEW T, TableInv(T, w), NEW T1, NEW t \in Topic \ Key,
         \A m \in Index : T1[m] = IF m \in Names /\ m \in TableOf(T) /\ T[m].topic = t THEN None ELSE T[m]
  PROVE  /\ TableInv(T1, w)
         /\ \A s \in Stream, ready \in BOOLEAN : StreamInv(s, T, w) =>
              StreamInv(IF t \in s.wants THEN SentLive(s, [topic |-> t, seq |-> None], ready) ELSE s, T1, w)
<1> DEFINE frame == [topic |-> t, seq |-> None]
<1>1. \A m \in TableOf(T1) : T1[m] = T[m] /\ m \in TableOf(T)
  BY DEF TableOf
<1>2. TableInv(T1, w)
  BY <1>1 DEF TableInv
<1>3. \A s : PassedNames(s, t, T1) = {}
  <2>1. \A m \in TableOf(T1) \cap Names : T1[m].topic # t
    BY <1>1 DEF TableOf
  <2> QED BY <2>1 DEF PassedNames
<1>4. \A s, other : other # t => PassedNames(s, other, T1) = PassedNames(s, other, T)
  <2>1. \A m \in TableOf(T) \cap Names : T[m].topic # t => T1[m] = T[m] /\ m \in TableOf(T1)
    BY DEF TableOf
  <2> QED BY <1>1, <2>1 DEF PassedNames
<1>5. ASSUME NEW s \in Stream, NEW ready \in BOOLEAN, StreamInv(s, T, w),
             NEW s1, s1 = IF t \in s.wants THEN SentLive(s, frame, ready) ELSE s
      PROVE  StreamInv(s1, T1, w)
  <2>1. /\ s1.wants = s.wants /\ s1.replay = s.replay
        /\ s1.sent = IF t \in s.wants THEN s.sent \cup {frame} ELSE s.sent
        /\ s1.shown = IF t \in s.wants THEN [s.shown EXCEPT ![t] = None] ELSE s.shown
    BY <1>5, StreamFields DEF SentLive
  <2>2. \A m : Passed(s1, m) <=> Passed(s, m)
    BY <2>1 DEF Passed
  <2>3. \A m \in TableOf(T) : T[m] # frame
    BY EventReplayAssumption DEF TableInv
  <2>4. \A m \in TableOf(T1) : T1[m].topic \in s1.wants => (Passed(s1, m) <=> T1[m] \in s1.sent)
    BY <1>1, <1>5, <2>1, <2>2, <2>3 DEF StreamInv
  <2>5. \A sentFrame \in s1.sent : sentFrame.seq = None \/ sentFrame.seq \in 0..w
    BY <1>5, <2>1 DEF StreamInv
  <2>6. ASSUME NEW other \in s.wants \ Key
        PROVE  /\ PassedNames(s1, other, T1) = {} => s1.shown[other] = None
               /\ \A m \in PassedNames(s1, other, T1) : s1.shown[other] = T1[m].seq
    <3>1. other \in Topic /\ s.shown \in [Topic -> 0..MaxSeq \cup {None}]
      BY StreamFields
    <3>2. CASE other = t
      BY <1>3, <2>1, <3>1, <3>2
    <3>3. CASE other # t
      <4>1. s1.shown[other] = s.shown[other]
        BY <2>1, <3>1, <3>3
      <4>2. PassedNames(s1, other, T1) = PassedNames(s, other, T)
        BY <1>4, <2>2, <3>3 DEF PassedNames
      <4>3. \A m \in PassedNames(s1, other, T1) : T1[m] = T[m]
        BY <1>1 DEF PassedNames
      <4> QED BY <1>5, <4>1, <4>2, <4>3 DEF StreamInv
    <3> QED BY <3>2, <3>3
  <2> QED BY <2>1, <2>4, <2>5, <2>6 DEF StreamInv
<1> QED BY <1>2, <1>5

\* The entries a replay sends on its way to an index, and those of one topic.
BatchOf(s, T, upTo) == {j \in TableOf(T) : T[j].topic \in s.wants /\ s.replay <= j /\ j < upTo}
OfTopic(t, T, batch) == {j \in batch : T[j].topic = t}

\* The stream s1 is s with the batch sent.
HasSent(s1, s, T, batch) ==
  /\ s1.wants = s.wants
  /\ s1.sent = s.sent \cup {T[j] : j \in batch}
  /\ \A t \in Topic :
       /\ OfTopic(t, T, batch) = {} => s1.shown[t] = s.shown[t]
       /\ \A j \in batch : OfTopic(t, T, batch) = {j} => s1.shown[t] = T[j].seq

\* A batch of a replay: what the cursor passed has been sent, the rest not.
LEMMA BatchSent ==
  ASSUME NEW w \in Nat, NEW T, TableInv(T, w), NEW s \in Stream, s.replay # Done, StreamInv(s, T, w),
         NEW upTo \in s.replay..End, NEW s1, HasSent(s1, s, T, BatchOf(s, T, upTo)),
         s1.replay = upTo \/ (upTo = End /\ s1.replay = Done)
  PROVE  StreamInv(s1, T, w)
<1> DEFINE batch == BatchOf(s, T, upTo)
<1>0. /\ batch = {j \in TableOf(T) : T[j].topic \in s.wants /\ s.replay <= j /\ j < upTo}
      /\ s1.wants = s.wants
      /\ s1.sent = s.sent \cup {T[j] : j \in batch}
      /\ \A t \in Topic :
           /\ OfTopic(t, T, batch) = {} => s1.shown[t] = s.shown[t]
           /\ \A j \in batch : OfTopic(t, T, batch) = {j} => s1.shown[t] = T[j].seq
  BY DEF HasSent, BatchOf
<1> HIDE DEF batch
<1>1. /\ s.replay \in 1..End /\ End \in Nat /\ upTo \in Nat /\ s.replay <= upTo /\ Done = 0
      /\ \A j \in Index : j \in Nat /\ 1 <= j /\ j < End
  BY StreamFields, IndexParts DEF Done
<1>2. \A j \in Index : (Passed(s, j) <=> j < s.replay) /\ (Passed(s1, j) <=> j < upTo)
  BY <1>1 DEF Passed
<1>3. \A j \in TableOf(T) : j \in Index
  BY DEF TableOf
<1>4. \A j \in TableOf(T) : T[j].topic \in s.wants => (Passed(s1, j) <=> Passed(s, j) \/ j \in batch)
  BY <1>0, <1>1, <1>2, <1>3
<1>5. ASSUME NEW j \in TableOf(T), T[j].topic \in s.wants PROVE Passed(s1, j) <=> T[j] \in s1.sent
  <2>1. Passed(s, j) <=> T[j] \in s.sent
    BY <1>5 DEF StreamInv
  <2>2. j \in batch <=> T[j] \in {T[m] : m \in batch}
    BY <1>0, <1>5 DEF TableInv
  <2> QED BY <1>0, <1>4, <1>5, <2>1, <2>2
<1>6. \A frame \in s1.sent : frame.seq = None \/ frame.seq \in 0..w
  <2>1. \A j \in batch : T[j].seq \in 0..w
    BY <1>0 DEF TableInv
  <2> QED BY <1>0, <2>1 DEF StreamInv
<1>7. ASSUME NEW t \in s.wants \ Key
      PROVE  /\ PassedNames(s1, t, T) = {} => s1.shown[t] = None
             /\ \A j \in PassedNames(s1, t, T) : s1.shown[t] = T[j].seq
  <2> DEFINE ofTopic == OfTopic(t, T, batch)
  <2>1. t \in Topic
    BY StreamFields
  <2>2. ofTopic = {j \in batch : T[j].topic = t}
    BY DEF OfTopic
  <2> HIDE DEF ofTopic
  <2>3. ofTopic \subseteq Names
    BY <1>0, <1>3, <1>7, <2>2, IndexParts DEF TableInv, Names
  <2>4. PassedNames(s1, t, T) = PassedNames(s, t, T) \cup ofTopic
    BY <1>0, <1>4, <1>7, <2>3, <2>2 DEF PassedNames
  <2>5. \A i, j \in TableOf(T) \cap Names : T[i].topic = t /\ T[j].topic = t => i = j
    BY DEF TableInv
  <2>6. CASE ofTopic = {}
    <3>1. s1.shown[t] = s.shown[t]
      BY <1>0, <2>1, <2>6 DEF ofTopic
    <3> QED BY <1>7, <2>4, <2>6, <3>1 DEF StreamInv
  <2>7. CASE ofTopic # {}
    <3>1. PICK j \in ofTopic : TRUE
      BY <2>7
    <3>2. ofTopic = {j} /\ PassedNames(s1, t, T) = {j}
      BY <1>0, <2>3, <2>4, <2>5, <2>2, <3>1 DEF PassedNames
    <3>3. s1.shown[t] = T[j].seq
      BY <1>0, <2>1, <2>2, <3>1, <3>2 DEF ofTopic
    <3> QED BY <3>2, <3>3
  <2> QED BY <2>6, <2>7
<1> QED BY <1>0, <1>5, <1>6, <1>7 DEF StreamInv

\* The invariant is about what a stream wants, its cursor and its history.
LEMMA SameStream ==
  ASSUME NEW w, NEW T, NEW s, StreamInv(s, T, w),
         NEW s1, s1.wants = s.wants, s1.replay = s.replay, s1.sent = s.sent, s1.shown = s.shown
  PROVE  StreamInv(s1, T, w)
<1>1. \A m : Passed(s1, m) <=> Passed(s, m)
  BY DEF Passed
<1>2. \A t : PassedNames(s1, t, T) = PassedNames(s, t, T)
  BY <1>1 DEF PassedNames
<1> QED BY <1>1, <1>2 DEF StreamInv

\* A new stream has all of its replay before it.
LEMMA NewStream ==
  ASSUME NEW w, NEW T, NEW s1, s1.replay = 1, s1.sent = {}, s1.wants \subseteq Topic, s1.shown = NothingShown
  PROVE  StreamInv(s1, T, w)
<1>1. \A j \in Index : ~Passed(s1, j)
  BY IndexParts DEF Passed, Done
<1>2. \A t : PassedNames(s1, t, T) = {}
  BY <1>1 DEF PassedNames, TableOf
<1> QED BY <1>1, <1>2 DEF StreamInv, NothingShown, TableOf

-----------------------------------------------------------------------------
(* The tables *)

StoresTyped ==
  /\ SubsTypeOK
  /\ aliases \in [AliasIndex -> [topic : AliasTopic, seq : 1..MaxSeq] \cup {None}]
  /\ settings \in [SettingIndex -> [topic : SettingTopic, seq : 0..MaxSeq] \cup {None}]
  /\ \A j \in SettingIndex : settings[j] # None => settings[j].topic = SettingOf(j)

\* The one table, by parts.
LEMMA TableParts ==
  /\ \A j \in Sub : Table[j] = subs[j]
  /\ \A j \in AliasIndex : Table[j] = aliases[j]
  /\ \A j \in SettingIndex : Table[j] = settings[j]
  /\ \A j \in Index : Table[j] = Stored(j)
BY IndexParts DEF Table, Stored

LEMMA TablePartsPrimed ==
  /\ \A j \in Sub : Table'[j] = subs'[j]
  /\ \A j \in AliasIndex : Table'[j] = aliases'[j]
  /\ \A j \in SettingIndex : Table'[j] = settings'[j]
BY IndexParts DEF Table, Stored

\* The topic of an entry says which table it is in.
LEMMA NameEntries ==
  ASSUME StoresTyped
  PROVE  /\ \A j \in AliasIndex : aliases[j] # None => aliases[j].topic \in AliasTopic
         /\ \A j \in AliasIndex : \A t : j \in TableOf(Table) /\ Table[j].topic = t <=> j \in AliasOf(t)
         /\ \A j \in SettingIndex : j \in TableOf(Table) => Table[j].topic = SettingOf(j) /\ SettingOf(j) \in SettingTopic
<1>1. \A j \in AliasIndex : aliases[j] # None => aliases[j].topic \in AliasTopic
  BY DEF StoresTyped
<1>2. \A j \in AliasIndex : \A t : j \in TableOf(Table) /\ Table[j].topic = t <=> j \in AliasOf(t)
  BY TableParts, IndexParts DEF AliasOf, TableOf
<1>3. \A j \in SettingIndex : j \in TableOf(Table) => Table[j].topic = SettingOf(j) /\ SettingOf(j) \in SettingTopic
  BY TableParts DEF TableOf, StoresTyped, SettingTopic
<1> QED BY <1>1, <1>2, <1>3

\* What StoreFrame does to the table, and that the new frame is the newest.
LEMMA FrameStored ==
  ASSUME SubsTypeOK, NEW k \in Key, NEW j \in Sub, NEW seq \in 1..MaxSeq, StoreFrame(k, j, seq)
  PROVE  /\ SubsTypeOK'
         /\ subs'[j] = [topic |-> k, seq |-> seq]
         /\ \A m \in Sub \ {j} : subs'[m] = subs[m] \/ subs'[m] = None
         /\ LatestSub(k, subs') = j
<1> DEFINE new == [topic |-> k, seq |-> seq]
<1>1. PICK gone \in {{}} \cup {FramesOf(other, subs) : other \in Key \ {k}} : subs' = [Without(gone) EXCEPT ![j] = new]
  BY DEF StoreFrame
<1>2. subs' = [m \in Sub |-> IF m = j THEN new ELSE IF m \in gone THEN None ELSE subs[m]]
  BY <1>1 DEF Without
<1>3. new \in SubFrame /\ new.topic = k /\ new.seq = seq /\ new # None
  <2>1. new \in SubFrame
    BY DEF SubFrame
  <2> QED BY <2>1, EventReplayAssumption
<1> HIDE DEF new
<1>4. SubsTypeOK' /\ subs'[j] = new /\ \A m \in Sub \ {j} : subs'[m] = subs[m] \/ subs'[m] = None
  BY <1>2, <1>3 DEF SubsTypeOK
<1>5. Held(subs) = {m \in Sub : subs[m] # None} /\ Held(subs') = {m \in Sub : subs'[m] # None}
  BY <1>2 DEF Held, SubsTypeOK
<1>6. \A m \in Held(subs') \ {j} : subs'[m].seq < seq /\ subs'[m].seq \in Nat
  <2>1. \A m \in Held(subs') \ {j} : m \in Held(subs) /\ subs'[m] = subs[m]
    BY <1>4, <1>5
  <2>2. \A m \in Held(subs) : subs[m].seq < seq
    BY DEF StoreFrame
  <2>3. \A m \in Held(subs) : subs[m].seq \in 1..MaxSeq
    BY <1>5 DEF SubsTypeOK, SubFrame
  <2> QED BY <2>1, <2>2, <2>3, EventReplayAssumption
<1>7. j \in FramesOf(k, subs') /\ FramesOf(k, subs') \subseteq Held(subs')
  BY <1>3, <1>4, <1>5 DEF FramesOf
<1>8. \A m \in FramesOf(k, subs') : subs'[m].seq <= subs'[j].seq
  BY <1>3, <1>4, <1>6, <1>7
<1>9. \A m \in FramesOf(k, subs') : (\A i \in FramesOf(k, subs') : subs'[i].seq <= subs'[m].seq) => m = j
  <2> SUFFICES ASSUME NEW m \in FramesOf(k, subs'), m # j, subs'[j].seq <= subs'[m].seq PROVE FALSE
    BY <1>7
  <2>1. subs'[m].seq < seq /\ subs'[m].seq \in Nat /\ seq \in Nat
    BY <1>6, <1>7
  <2> QED BY <1>3, <1>4, <2>1
<1>10. LatestSub(k, subs') = j
  BY <1>7, <1>8, <1>9 DEF LatestSub
<1> QED BY <1>4, <1>10 DEF new

-----------------------------------------------------------------------------
(* Broadcasts *)

\* A stream that was sent something is a stream.
LEMMA StreamSent ==
  ASSUME NEW s \in Stream, NEW sent \in SUBSET [topic : Topic, seq : 0..MaxSeq \cup {None}],
         NEW shown \in [Topic -> 0..MaxSeq \cup {None}], NEW ready \in BOOLEAN
  PROVE  [s EXCEPT !.sent = sent, !.shown = shown, !.ready = ready] \in Stream
BY DEF Stream

\* What a broadcast makes of each slot.
LEMMA Broadcasts ==
  ASSUME sse \in [Client -> Stream \cup {None}], NEW frame, frame = [topic |-> frame.topic, seq |-> frame.seq],
         frame.topic \in Topic, frame.seq \in 0..MaxSeq \cup {None}, NEW index, BroadcastFrame(frame, index)
  PROVE  /\ sse' \in [Client -> Stream \cup {None}]
         /\ \A i \in Client : sse'[i] # None =>
              /\ sse[i] # None
              /\ sse'[i].attachedAt = sse[i].attachedAt
              /\ \E ready \in BOOLEAN :
                   sse'[i] = IF frame.topic \in sse[i].wants /\ (index # NoIndex => Passed(sse[i], index))
                             THEN SentLive(sse[i], frame, ready) ELSE sse[i]
<1> DEFINE to == Recipients(frame.topic, index)
<1>1. PICK took \in SUBSET {i \in to : sse[i].ready} : \E filled \in SUBSET took :
        sse' = [i \in Client |-> IF i \in took THEN SentLive(sse[i], frame, i \notin filled)
                                 ELSE IF i \in to THEN None ELSE sse[i]]
  BY DEF BroadcastFrame
<1>2. PICK filled \in SUBSET took :
        sse' = [i \in Client |-> IF i \in took THEN SentLive(sse[i], frame, i \notin filled)
                                 ELSE IF i \in to THEN None ELSE sse[i]]
  BY <1>1
<1>3. to = {i \in Client : sse[i] # None /\ frame.topic \in sse[i].wants /\ (index # NoIndex => Passed(sse[i], index))}
  BY DEF Recipients
<1>4. ASSUME NEW s \in Stream, NEW ready \in BOOLEAN
      PROVE  SentLive(s, frame, ready) \in Stream /\ SentLive(s, frame, ready).attachedAt = s.attachedAt
  <2> DEFINE sent == s.sent \cup {frame}
             shown == [s.shown EXCEPT ![frame.topic] = frame.seq]
  <2>1. frame \in [topic : Topic, seq : 0..MaxSeq \cup {None}]
    OBVIOUS
  <2>2. sent \in SUBSET [topic : Topic, seq : 0..MaxSeq \cup {None}]
    BY <2>1, StreamFields
  <2>3. shown \in [Topic -> 0..MaxSeq \cup {None}]
    BY StreamFields
  <2>4. SentLive(s, frame, ready) = [s EXCEPT !.sent = sent, !.shown = shown, !.ready = ready]
    BY DEF SentLive, Stream
  <2>5. SentLive(s, frame, ready).attachedAt = s.attachedAt
    BY DEF SentLive, Stream
  <2> HIDE DEF sent, shown
  <2>6. [s EXCEPT !.sent = sent, !.shown = shown, !.ready = ready] \in Stream
    BY <2>2, <2>3, StreamSent
  <2> QED BY <2>4, <2>5, <2>6
<1>5. \A i \in to : i \in Client /\ sse[i] \in Stream /\ sse[i] # None
  BY <1>3
<1> HIDE DEF to
<1>6. ASSUME NEW i \in Client
      PROVE  /\ sse'[i] \in Stream \cup {None}
             /\ sse'[i] # None =>
                  /\ sse[i] # None
                  /\ sse'[i].attachedAt = sse[i].attachedAt
                  /\ \E ready \in BOOLEAN :
                       sse'[i] = IF i \in to THEN SentLive(sse[i], frame, ready) ELSE sse[i]
  <2>1. CASE i \in took
    <3>1. sse'[i] = SentLive(sse[i], frame, i \notin filled) /\ i \in to
      BY <1>2, <2>1
    <3>2. (i \notin filled) \in BOOLEAN
      OBVIOUS
    <3> QED BY <1>4, <1>5, <3>1, <3>2
  <2>2. CASE i \notin took
    BY <1>2, <2>2
  <2> QED BY <2>1, <2>2
<1>7. sse' \in [Client -> Stream \cup {None}]
  BY <1>2, <1>6
<1>8. ASSUME NEW i \in Client, sse[i] # None
      PROVE  i \in to <=> frame.topic \in sse[i].wants /\ (index # NoIndex => Passed(sse[i], index))
  BY <1>3, <1>8
<1> QED BY <1>6, <1>7, <1>8

-----------------------------------------------------------------------------
(* Steps *)

LEMMA TypeParts ==
  TypeOK <=> /\ StoresTyped
             /\ sse \in [Client -> Stream \cup {None}]
             /\ attachCount \in 0..MaxAttach
             /\ writes \in 0..MaxSeq
BY DEF TypeOK, StoresTyped

\* Streams that stay keep the order they attached in.
LEMMA SlotsKept ==
  ASSUME SlotsInv, attachCount' = attachCount,
         \A i \in Client : sse'[i] # None => sse[i] # None /\ sse'[i].attachedAt = sse[i].attachedAt
  PROVE  SlotsInv'
BY DEF SlotsInv, Open

\* A step that writes nothing and sends nothing: slots are freed, sockets fill
\* up or are read.
LEMMA StreamsKept ==
  ASSUME ReplayInv, UNCHANGED <<stores, writes, attachCount>>, sse' \in [Client -> Stream \cup {None}],
         \A i \in Client : sse'[i] # None =>
           /\ sse[i] # None
           /\ sse'[i].attachedAt = sse[i].attachedAt /\ sse'[i].wants = sse[i].wants
           /\ sse'[i].replay = sse[i].replay /\ sse'[i].sent = sse[i].sent /\ sse'[i].shown = sse[i].shown
  PROVE  ReplayInv'
<1>1. Table' = Table
  BY DEF Table, Stored, stores
<1>2. TypeOK'
  BY DEF ReplayInv, TypeOK, SubsTypeOK, stores
<1>3. \A i \in Client : sse'[i] # None => StreamInv(sse'[i], Table, writes)
  BY SameStream DEF ReplayInv, Open
<1>4. SlotsInv'
  BY SlotsKept DEF ReplayInv
<1>5. TableInv(Table', writes') /\ \A i \in Open(sse') : StreamInv(sse'[i], Table', writes')
  BY <1>1, <1>3 DEF ReplayInv, Open
<1> QED BY <1>2, <1>4, <1>5 DEF ReplayInv

\* A step that writes an entry and broadcasts it.
LEMMA FrameSent ==
  ASSUME ReplayInv, StoresTyped', NEW j \in Index, NEW frame \in Frame, BroadcastFrame(frame, j),
         writes < MaxSeq, writes' = writes + 1, attachCount' = attachCount,
         frame.seq = writes + 1, frame.topic \in Key <=> j \in Sub, Table'[j] = frame,
         \A m \in Index \ {j} : Table'[m] = Table[m] \/ (m \in Sub /\ Table'[m] = None),
         \A m \in TableOf(Table) \cap Names : Table[m].topic = frame.topic <=> m = j
  PROVE  ReplayInv'
<1>1. /\ writes \in Nat /\ writes' \in 0..MaxSeq
      /\ sse \in [Client -> Stream \cup {None}] /\ attachCount' \in 0..MaxAttach
  BY EventReplayAssumption DEF ReplayInv, TypeOK
<1>2. frame = [topic |-> frame.topic, seq |-> frame.seq] /\ frame.topic \in Topic /\ frame.seq \in 0..MaxSeq \cup {None}
  BY DEF Frame
<1>3. j # NoIndex
  BY IndexParts DEF NoIndex
<1>4. /\ sse' \in [Client -> Stream \cup {None}]
      /\ \A i \in Client : sse'[i] # None =>
           /\ sse[i] # None
           /\ sse'[i].attachedAt = sse[i].attachedAt
           /\ \E ready \in BOOLEAN :
                sse'[i] = IF frame.topic \in sse[i].wants /\ Passed(sse[i], j) THEN SentLive(sse[i], frame, ready) ELSE sse[i]
  BY <1>1, <1>2, <1>3, Broadcasts
<1>5. TableInv(Table, writes)
  BY DEF ReplayInv
<1>6. TableInv(Table', writes + 1)
  BY <1>1, <1>5, FrameWritten
<1>7. ASSUME NEW i \in Client, sse'[i] # None PROVE StreamInv(sse'[i], Table', writes + 1)
  <2>1. PICK ready \in BOOLEAN :
          sse'[i] = IF frame.topic \in sse[i].wants /\ Passed(sse[i], j) THEN SentLive(sse[i], frame, ready) ELSE sse[i]
    BY <1>4, <1>7
  <2>2. sse[i] \in Stream /\ StreamInv(sse[i], Table, writes)
    BY <1>1, <1>4, <1>7 DEF ReplayInv, Open
  <2> QED BY <1>1, <1>5, <2>1, <2>2, FrameDelivered
<1>8. SlotsInv'
  BY <1>4, SlotsKept DEF ReplayInv
<1>9. TypeOK'
  BY <1>1, <1>4, TypeParts DEF TypeOK, StoresTyped
<1>10. TableInv(Table', writes') /\ \A i \in Open(sse') : StreamInv(sse'[i], Table', writes')
  BY <1>6, <1>7 DEF Open
<1> QED BY <1>8, <1>9, <1>10 DEF ReplayInv

\* A number that is the next to be written.
LEMMA NextWrite ==
  ASSUME ReplayInv, writes < MaxSeq
  PROVE  writes + 1 \in 1..MaxSeq /\ writes + 1 \in 0..MaxSeq
BY EventReplayAssumption DEF ReplayInv, TypeOK

LEMMA RecordKeeps ==
  ASSUME ReplayInv, NEW k \in Key, NEW j \in Sub, Record(k, j)
  PROVE  ReplayInv'
<1> DEFINE frame == [topic |-> k, seq |-> writes + 1]
<1>1. StoresTyped /\ SubsTypeOK /\ UNCHANGED <<aliases, settings>>
  BY TypeParts DEF ReplayInv, Record, StoresTyped
<1>2. writes + 1 \in 1..MaxSeq /\ writes + 1 \in 0..MaxSeq
  BY NextWrite DEF Record
<1>3. /\ SubsTypeOK'
      /\ subs'[j] = frame
      /\ \A m \in Sub \ {j} : subs'[m] = subs[m] \/ subs'[m] = None
      /\ LatestSub(k, subs') = j
  BY <1>1, <1>2, FrameStored DEF Record
<1>4. frame \in Frame /\ frame.topic \in Key /\ frame.seq = writes + 1
  BY <1>2 DEF Frame, Topic
<1>5. BroadcastFrame(frame, j)
  BY <1>3 DEF Record
<1>6. StoresTyped'
  BY <1>1, <1>3 DEF StoresTyped
<1>7. Table'[j] = frame /\ \A m \in Index \ {j} : Table'[m] = Table[m] \/ (m \in Sub /\ Table'[m] = None)
  BY <1>1, <1>3, IndexParts, TableParts, TablePartsPrimed
<1>8. \A m \in TableOf(Table) \cap Names : Table[m].topic # frame.topic /\ m # j
  BY <1>4, IndexParts DEF ReplayInv, TableInv, Names
<1>9. j \in Index
  BY IndexParts
<1>10. writes < MaxSeq /\ writes' = writes + 1 /\ attachCount' = attachCount
  BY DEF Record
<1> HIDE DEF frame
<1> QED BY <1>4, <1>5, <1>6, <1>7, <1>8, <1>9, <1>10, FrameSent

LEMMA SweepKeeps ==
  ASSUME ReplayInv, Sweep
  PROVE  ReplayInv'
<1>1. PICK gone \in SUBSET Held(subs) : subs' = Without(gone)
  BY DEF Sweep, SweepFrames
<1>2. StoresTyped /\ UNCHANGED <<aliases, settings, sse, attachCount, writes>>
  BY TypeParts DEF ReplayInv, Sweep
<1>3. /\ \A m \in Sub : subs'[m] = subs[m] \/ subs'[m] = None
      /\ SubsTypeOK'
  BY <1>1, <1>2 DEF Without, StoresTyped, SubsTypeOK
<1>4. \A m \in Index : Table'[m] = Table[m] \/ (m \in Sub /\ Table'[m] = None)
  BY <1>2, <1>3, IndexParts, TableParts, TablePartsPrimed
<1>5. TableInv(Table', writes) /\ \A s \in Stream : StreamInv(s, Table, writes) => StreamInv(s, Table', writes)
  <2>1. writes \in Nat /\ TableInv(Table, writes)
    BY DEF ReplayInv, TypeOK
  <2> QED BY <1>4, <2>1, FramesLost
<1>6. \A i \in Open(sse) : sse[i] \in Stream
  BY DEF ReplayInv, TypeOK, Open
<1>7. TableInv(Table', writes') /\ \A i \in Open(sse') : StreamInv(sse'[i], Table', writes')
  BY <1>2, <1>5, <1>6 DEF ReplayInv
<1>8. TypeOK' /\ SlotsInv'
  BY <1>2, <1>3 DEF ReplayInv, TypeOK, SlotsInv
<1> QED BY <1>7, <1>8 DEF ReplayInv

LEMMA PostAliasKeeps ==
  ASSUME ReplayInv, NEW t \in AliasTopic, PostAlias(t)
  PROVE  ReplayInv'
<1> DEFINE frame == [topic |-> t, seq |-> writes + 1]
<1>1. StoresTyped /\ UNCHANGED <<subs, settings>>
  BY TypeParts DEF ReplayInv, PostAlias
<1>2. writes + 1 \in 1..MaxSeq /\ writes + 1 \in 0..MaxSeq
  BY NextWrite DEF PostAlias
<1>3. PICK j \in AliasEntry(t) : aliases' = [aliases EXCEPT ![j] = frame] /\ BroadcastFrame(frame, j)
  BY DEF PostAlias
<1>4. j \in AliasIndex /\ (AliasOf(t) # {} => j \in AliasOf(t))
  BY <1>3 DEF AliasEntry, AliasOf, FreeAlias
<1>5. frame \in Frame /\ frame.topic = t /\ t \notin Key /\ t \notin SettingTopic /\ frame.seq = writes + 1
  BY <1>2, EventReplayAssumption DEF Frame, Topic
<1>6. frame \in [topic : AliasTopic, seq : 1..MaxSeq]
  BY <1>2
<1>7. StoresTyped'
  BY <1>1, <1>3, <1>4, <1>6 DEF StoresTyped, SubsTypeOK
<1> HIDE DEF frame
<1>8. Table'[j] = frame /\ \A m \in Index \ {j} : Table'[m] = Table[m]
  BY <1>1, <1>3, <1>4, IndexParts, TableParts, TablePartsPrimed DEF StoresTyped
<1>9. \A m \in TableOf(Table) \cap Names : Table[m].topic = frame.topic <=> m = j
  <2>1. ASSUME NEW m \in TableOf(Table) \cap Names, Table[m].topic = t PROVE m = j
    <3>1. m \in AliasIndex
      BY <1>1, <1>5, <2>1, NameEntries DEF Names
    <3>2. j \in AliasOf(t)
      BY <1>1, <1>4, <2>1, <3>1, NameEntries
    <3>3. j \in TableOf(Table) \cap Names /\ Table[j].topic = t
      BY <1>1, <1>4, <3>2, NameEntries DEF Names
    <3> QED BY <2>1, <3>3 DEF ReplayInv, TableInv
  <2>2. ASSUME j \in TableOf(Table) PROVE Table[j].topic = t
    <3>1. CASE AliasOf(t) # {}
      BY <1>1, <1>4, <3>1, NameEntries
    <3>2. CASE AliasOf(t) = {}
      <4>1. aliases[j] = None
        BY <1>3, <3>2 DEF AliasEntry, FreeAlias
      <4> QED BY <1>4, <2>2, <4>1, TableParts DEF TableOf
    <3> QED BY <3>1, <3>2
  <2> QED BY <1>5, <2>1, <2>2
<1>10. j \in Index /\ j \notin Sub
  BY <1>4, IndexParts
<1>11. writes < MaxSeq /\ writes' = writes + 1 /\ attachCount' = attachCount
  BY DEF PostAlias
<1> QED BY <1>3, <1>5, <1>7, <1>8, <1>9, <1>10, <1>11, FrameSent

LEMMA PostSettingKeeps ==
  ASSUME ReplayInv, NEW j \in SettingIndex, PostSetting(j)
  PROVE  ReplayInv'
<1> DEFINE frame == [topic |-> SettingOf(j), seq |-> writes + 1]
<1>1. StoresTyped /\ UNCHANGED <<subs, aliases>>
  BY TypeParts DEF ReplayInv, PostSetting
<1>2. writes + 1 \in 1..MaxSeq /\ writes + 1 \in 0..MaxSeq
  BY NextWrite DEF PostSetting
<1>3. settings' = [settings EXCEPT ![j] = frame] /\ BroadcastFrame(frame, j)
  BY DEF PostSetting
<1>4. SettingOf(j) \in SettingTopic
  BY DEF SettingTopic
<1>5. frame \in Frame /\ frame.topic = SettingOf(j) /\ SettingOf(j) \notin Key /\ SettingOf(j) \notin AliasTopic
      /\ frame.seq = writes + 1
  BY <1>2, <1>4, EventReplayAssumption DEF Frame, Topic
<1>6. frame \in [topic : SettingTopic, seq : 0..MaxSeq]
  BY <1>2, <1>4
<1>7. StoresTyped'
  BY <1>1, <1>3, <1>5, <1>6 DEF StoresTyped, SubsTypeOK
<1> HIDE DEF frame
<1>8. Table'[j] = frame /\ \A m \in Index \ {j} : Table'[m] = Table[m]
  BY <1>1, <1>3, IndexParts, TableParts, TablePartsPrimed DEF StoresTyped
<1>9. \A m \in TableOf(Table) \cap Names : Table[m].topic = frame.topic <=> m = j
  <2>1. ASSUME NEW m \in TableOf(Table) \cap Names PROVE Table[m].topic = SettingOf(j) <=> m = j
    <3>1. CASE m \in AliasIndex
      <4>1. Table[m].topic \in AliasTopic
        BY <1>1, <2>1, <3>1, NameEntries, TableParts DEF TableOf
      <4> QED BY <1>5, <3>1, <4>1, IndexParts
    <3>2. CASE m \in SettingIndex
      BY <1>1, <2>1, <3>2, NameEntries, EventReplayAssumption
    <3> QED BY <2>1, <3>1, <3>2 DEF Names
  <2> QED BY <1>5, <2>1
<1>10. j \in Index /\ j \notin Sub
  BY IndexParts
<1>11. writes < MaxSeq /\ writes' = writes + 1 /\ attachCount' = attachCount
  BY DEF PostSetting
<1> QED BY <1>3, <1>5, <1>7, <1>8, <1>9, <1>10, <1>11, FrameSent

LEMMA ClearAliasKeeps ==
  ASSUME ReplayInv, NEW t \in AliasTopic, ClearAlias(t)
  PROVE  ReplayInv'
<1> DEFINE frame == [topic |-> t, seq |-> None]
<1>1. StoresTyped /\ UNCHANGED <<subs, settings, attachCount, writes>> /\ aliases' = WithoutAlias(t)
  BY TypeParts DEF ReplayInv, ClearAlias
<1>2. t \in Topic \ Key /\ t \notin SettingTopic
  BY EventReplayAssumption DEF Topic
<1>3. StoresTyped'
  BY <1>1 DEF StoresTyped, SubsTypeOK, WithoutAlias
<1>4. \A m \in Index : Table'[m] = IF m \in Names /\ m \in TableOf(Table) /\ Table[m].topic = t THEN None ELSE Table[m]
  <2>1. ASSUME NEW m \in AliasIndex
        PROVE  Table'[m] = IF m \in TableOf(Table) /\ Table[m].topic = t THEN None ELSE Table[m]
    BY <1>1, NameEntries, TableParts, TablePartsPrimed DEF WithoutAlias
  <2>2. ASSUME NEW m \in SettingIndex PROVE Table'[m] = Table[m] /\ ~ (m \in TableOf(Table) /\ Table[m].topic = t)
    BY <1>1, <1>2, NameEntries, TableParts, TablePartsPrimed
  <2>3. ASSUME NEW m \in Sub PROVE Table'[m] = Table[m] /\ m \notin Names
    BY <1>1, IndexParts, TableParts, TablePartsPrimed DEF Names
  <2> QED BY <2>1, <2>2, <2>3, IndexParts DEF Names
<1>5. /\ writes \in Nat /\ TableInv(Table, writes)
      /\ sse \in [Client -> Stream \cup {None}]
  BY DEF ReplayInv, TypeOK
<1>6. /\ TableInv(Table', writes)
      /\ \A s \in Stream, ready \in BOOLEAN : StreamInv(s, Table, writes) =>
           StreamInv(IF t \in s.wants THEN SentLive(s, frame, ready) ELSE s, Table', writes)
  BY <1>2, <1>4, <1>5, NameCleared
<1>7. BroadcastFrame(frame, NoIndex) /\ frame.topic = t /\ frame = [topic |-> frame.topic, seq |-> frame.seq]
      /\ frame.seq \in 0..MaxSeq \cup {None} /\ frame.topic \in Topic
  BY <1>2 DEF ClearAlias
<1> HIDE DEF frame
<1>8. /\ sse' \in [Client -> Stream \cup {None}]
      /\ \A i \in Client : sse'[i] # None =>
           /\ sse[i] # None
           /\ sse'[i].attachedAt = sse[i].attachedAt
           /\ \E ready \in BOOLEAN : sse'[i] = IF t \in sse[i].wants THEN SentLive(sse[i], frame, ready) ELSE sse[i]
  BY <1>5, <1>7, Broadcasts
<1>9. ASSUME NEW i \in Client, sse'[i] # None PROVE StreamInv(sse'[i], Table', writes)
  <2>1. sse[i] \in Stream /\ StreamInv(sse[i], Table, writes)
    BY <1>5, <1>8, <1>9 DEF ReplayInv, Open
  <2> QED BY <1>6, <1>8, <1>9, <2>1
<1>10. TableInv(Table', writes') /\ \A i \in Open(sse') : StreamInv(sse'[i], Table', writes')
  BY <1>1, <1>6, <1>9 DEF Open
<1>11. TypeOK'
  BY <1>1, <1>3, <1>8 DEF ReplayInv, TypeOK, StoresTyped
<1>12. SlotsInv'
  BY <1>1, <1>8, SlotsKept DEF ReplayInv
<1> QED BY <1>10, <1>11, <1>12 DEF ReplayInv

\* Reaps, keepalives and peers: a stream is freed or keeps all but whether it
\* is ready or closed.
LEMMA SocketsKeep ==
  ASSUME ReplayInv, Reap \/ Keepalive \/ \E i \in Client : PeerCloses(i) \/ PeerReads(i)
  PROVE  ReplayInv'
<1>1. sse \in [Client -> Stream \cup {None}]
  BY DEF ReplayInv, TypeOK
<1>2. ASSUME NEW s \in Stream, NEW flag \in BOOLEAN, NEW s1, s1 = [s EXCEPT !.ready = flag] \/ s1 = [s EXCEPT !.closed = flag]
      PROVE  /\ s1 \in Stream /\ s1.attachedAt = s.attachedAt /\ s1.wants = s.wants
             /\ s1.replay = s.replay /\ s1.sent = s.sent /\ s1.shown = s.shown
  BY <1>2 DEF Stream
<1>3. ASSUME NEW i \in Client
      PROVE  \/ sse'[i] = None
             \/ sse[i] # None /\ sse'[i] = sse[i]
             \/ /\ sse[i] # None
                /\ \E flag \in BOOLEAN : sse'[i] = [sse[i] EXCEPT !.ready = flag] \/ sse'[i] = [sse[i] EXCEPT !.closed = flag]
  <2>1. CASE Reap
    BY <2>1 DEF Reap, Reaped
  <2>2. CASE Keepalive
    <3>1. PICK kept \in SUBSET {m \in Open(Reaped) : sse[m].ready} : \E filled \in SUBSET kept :
            sse' = [m \in Client |-> IF m \in kept THEN [sse[m] EXCEPT !.ready = m \notin filled] ELSE None]
      BY <2>2 DEF Keepalive
    <3>2. PICK filled \in SUBSET kept :
            sse' = [m \in Client |-> IF m \in kept THEN [sse[m] EXCEPT !.ready = m \notin filled] ELSE None]
      BY <3>1
    <3>3. i \in kept => sse[i] # None
      BY DEF Open, Reaped
    <3>4. (i \notin filled) \in BOOLEAN
      OBVIOUS
    <3> QED BY <3>2, <3>3, <3>4
  <2>3. ASSUME NEW m \in Client, PeerCloses(m) \/ PeerReads(m)
        PROVE  \/ sse'[i] = sse[i]
               \/ /\ sse[i] # None
                  /\ \E flag \in BOOLEAN : sse'[i] = [sse[i] EXCEPT !.ready = flag] \/ sse'[i] = [sse[i] EXCEPT !.closed = flag]
    BY <1>1, <2>3 DEF PeerCloses, PeerReads
  <2> QED BY <2>1, <2>2, <2>3
<1>4. ASSUME NEW i \in Client, sse'[i] # None
      PROVE  /\ sse[i] # None /\ sse'[i] \in Stream
             /\ sse'[i].attachedAt = sse[i].attachedAt /\ sse'[i].wants = sse[i].wants
             /\ sse'[i].replay = sse[i].replay /\ sse'[i].sent = sse[i].sent /\ sse'[i].shown = sse[i].shown
  <2>1. CASE sse[i] # None /\ sse'[i] = sse[i]
    BY <1>1, <2>1
  <2>2. CASE ~(sse[i] # None /\ sse'[i] = sse[i])
    <3>1. sse[i] \in Stream /\ sse[i] # None
      BY <1>1, <1>3, <1>4, <2>2
    <3>2. PICK flag \in BOOLEAN : sse'[i] = [sse[i] EXCEPT !.ready = flag] \/ sse'[i] = [sse[i] EXCEPT !.closed = flag]
      BY <1>3, <1>4, <2>2
    <3> QED BY <1>2, <3>1, <3>2
  <2> QED BY <2>1, <2>2
<1>5. sse' = [i \in Client |-> sse'[i]]
  BY <1>1 DEF Reap, Reaped, Keepalive, PeerCloses, PeerReads
<1>6. sse' \in [Client -> Stream \cup {None}]
  BY <1>4, <1>5
<1>7. UNCHANGED <<stores, writes, attachCount>>
  BY DEF Reap, Keepalive, PeerCloses, PeerReads
<1> QED BY <1>4, <1>6, <1>7, StreamsKept

\* What a pass of the replay makes of a stream.
Drained(s, batch, replay, ready) == [SentBatch(s, batch) EXCEPT !.replay = replay, !.ready = ready]

\* A stream after a batch, field by field.
LEMMA BatchFields ==
  ASSUME ReplayInv, NEW s \in Stream, NEW batch, batch \subseteq TableOf(Table),
         NEW replay \in {Done} \cup 1..End, NEW ready \in BOOLEAN,
         NEW s1, s1 = Drained(s, batch, replay, ready)
  PROVE  /\ s1 \in Stream /\ s1.attachedAt = s.attachedAt /\ s1.replay = replay
         /\ HasSent(s1, s, Table, batch)
<1> DEFINE last(t) == CHOOSE j \in {m \in batch : Stored(m).topic = t} : \A i \in {m \in batch : Stored(m).topic = t} : i <= j
           show(t) == IF {m \in batch : Stored(m).topic = t} = {} THEN s.shown[t] ELSE Stored(last(t)).seq
           sent == s.sent \cup {Stored(j) : j \in batch}
           shown == [t \in Topic |-> show(t)]
<1>1. \A j \in batch : j \in Index /\ j \in Nat /\ Stored(j) = Table[j] /\ Stored(j) \in Frame /\ Stored(j).topic \in Topic
  BY TableParts, IndexParts DEF TableOf, ReplayInv, TableInv
<1>2. \A j \in batch : Stored(j).seq \in 0..MaxSeq
  BY <1>1 DEF Frame
<1>3. s1.sent = sent /\ s1.shown = shown /\ s1.attachedAt = s.attachedAt /\ s1.wants = s.wants /\ s1.replay = replay
  BY DEF Drained, SentBatch, Stream
<1>4. s1 = [s EXCEPT !.sent = sent, !.shown = shown, !.replay = replay, !.ready = ready]
  BY DEF Drained, SentBatch, Stream
<1>5. ASSUME NEW t \in Topic, {m \in batch : Stored(m).topic = t} # {}
      PROVE  last(t) \in {m \in batch : Stored(m).topic = t}
  <2> DEFINE ofTopic == {m \in batch : Stored(m).topic = t}
             below == {End - m : m \in ofTopic}
  <2>1. below \in SUBSET Nat /\ below # {}
    BY <1>1, <1>5, IndexParts
  <2>2. PICK n \in below : \A m \in below : n <= m
    <3> HIDE DEF below
    <3> QED BY <2>1, MinExists
  <2>3. PICK j \in ofTopic : n = End - j
    BY <2>2
  <2>4. \A i \in ofTopic : i <= j
    <3>1. ASSUME NEW i \in ofTopic PROVE i <= j
      <4>1. End - j <= End - i /\ End \in Nat /\ i \in Nat /\ j \in Nat
        BY <1>1, <2>2, <2>3, IndexParts
      <4> QED BY <4>1
    <3> QED BY <3>1
  <2> HIDE DEF ofTopic
  <2>5. (CHOOSE m \in ofTopic : \A i \in ofTopic : i <= m) \in ofTopic
    BY <2>4
  <2> QED BY <2>5 DEF ofTopic
<1>6. s1 \in Stream
  <2>1. sent \in SUBSET [topic : Topic, seq : 0..MaxSeq \cup {None}]
    BY <1>1, <1>2, StreamFields DEF Frame
  <2>2. \A t \in Topic : show(t) \in 0..MaxSeq \cup {None}
    BY <1>2, <1>5, StreamFields
  <2>3. shown \in [Topic -> 0..MaxSeq \cup {None}]
    <3> HIDE DEF show
    <3> QED BY <2>2
  <2> HIDE DEF sent, shown
  <2> QED BY <1>4, <2>1, <2>3 DEF Stream
<1>7. ASSUME NEW t \in Topic
      PROVE  /\ {j \in batch : Table[j].topic = t} = {} => s1.shown[t] = s.shown[t]
             /\ \A j \in batch : {m \in batch : Table[m].topic = t} = {j} => s1.shown[t] = Table[j].seq
  <2>1. {m \in batch : Stored(m).topic = t} = {m \in batch : Table[m].topic = t}
    BY <1>1
  <2>2. s1.shown[t] = show(t)
    BY <1>3
  <2>3. ASSUME NEW j \in batch, {m \in batch : Table[m].topic = t} = {j} PROVE s1.shown[t] = Table[j].seq
    <3>1. {m \in batch : Stored(m).topic = t} = {j}
      BY <2>1, <2>3
    <3>2. last(t) = j
      BY <1>5, <3>1
    <3> QED BY <1>1, <2>2, <3>1, <3>2
  <2> QED BY <2>1, <2>2, <2>3
<1>8. s1.sent = s.sent \cup {Table[j] : j \in batch}
  BY <1>1, <1>3
<1>9. HasSent(s1, s, Table, batch)
  BY <1>3, <1>7, <1>8 DEF HasSent, OfTopic
<1> QED BY <1>3, <1>6, <1>9

LEMMA DrainKeeps ==
  ASSUME ReplayInv, NEW i \in Client, DrainReplay(i)
  PROVE  ReplayInv'
<1> DEFINE s == sse[i]
<1>1. sse \in [Client -> Stream \cup {None}] /\ s \in Stream /\ s # None /\ s.replay # Done
  BY DEF ReplayInv, TypeOK, DrainReplay
<1>2. UNCHANGED <<stores, attachCount, writes>> /\ writes \in Nat /\ TableInv(Table, writes) /\ StreamInv(s, Table, writes)
  BY <1>1 DEF ReplayInv, TypeOK, DrainReplay, Open
<1>3. s.replay \in 1..End /\ End \in Nat /\ End \in s.replay..End
  BY <1>1, StreamFields, IndexParts DEF Done
<1>4. \/ sse' = [sse EXCEPT ![i] = None]
      \/ \E upTo \in s.replay..End, replay \in {Done} \cup 1..End, ready \in BOOLEAN :
           /\ replay = upTo \/ (upTo = End /\ replay = Done)
           /\ sse' = [sse EXCEPT ![i] = [SentBatch(s, Batch(s, upTo)) EXCEPT !.replay = replay, !.ready = ready]]
  <2>1. \A upTo \in s.replay..End : upTo \in {Done} \cup 1..End
    BY <1>3
  <2>2. ASSUME NEW upTo \in s.replay..End, NEW ready \in BOOLEAN, DrainQuota(i, upTo, ready)
        PROVE  sse' = [sse EXCEPT ![i] = [SentBatch(s, Batch(s, upTo)) EXCEPT !.replay = upTo, !.ready = ready]]
    BY <2>2 DEF DrainQuota
  <2>3. ASSUME NEW upTo \in s.replay..End, DrainBlocked(i, upTo)
        PROVE  sse' = [sse EXCEPT ![i] = [SentBatch(s, Batch(s, upTo)) EXCEPT !.replay = upTo, !.ready = FALSE]]
    BY <2>3 DEF DrainBlocked
  <2>4. ASSUME NEW upTo \in s.replay..End, DrainFails(i, upTo)
        PROVE  sse' = [sse EXCEPT ![i] = None]
    BY <2>4 DEF DrainFails
  <2>5. ASSUME NEW ready \in BOOLEAN, DrainEnds(i, ready)
        PROVE  sse' = [sse EXCEPT ![i] = [SentBatch(s, Batch(s, End)) EXCEPT !.replay = Done, !.ready = ready]]
    BY <2>5 DEF DrainEnds
  <2> DEFINE to(upTo, replay, ready) ==
               sse' = [sse EXCEPT ![i] = [SentBatch(s, Batch(s, upTo)) EXCEPT !.replay = replay, !.ready = ready]]
  <2>6. CASE \E upTo \in s.replay..End, ready \in BOOLEAN : DrainQuota(i, upTo, ready)
    <3>1. PICK upTo \in s.replay..End, ready \in BOOLEAN : DrainQuota(i, upTo, ready)
      BY <2>6
    <3>2. to(upTo, upTo, ready)
      BY <2>2, <3>1
    <3> HIDE DEF to
    <3>3. \E u \in s.replay..End, r \in {Done} \cup 1..End, b \in BOOLEAN : (r = u \/ (u = End /\ r = Done)) /\ to(u, r, b)
      BY <2>1, <3>2
    <3> QED BY <3>3 DEF to
  <2>7. CASE \E upTo \in s.replay..End : DrainBlocked(i, upTo) \/ DrainFails(i, upTo)
    <3>1. PICK upTo \in s.replay..End : DrainBlocked(i, upTo) \/ DrainFails(i, upTo)
      BY <2>7
    <3>2. CASE DrainBlocked(i, upTo)
      <4>1. to(upTo, upTo, FALSE)
        BY <2>3, <3>2
      <4> HIDE DEF to
      <4>2. \E u \in s.replay..End, r \in {Done} \cup 1..End, b \in BOOLEAN : (r = u \/ (u = End /\ r = Done)) /\ to(u, r, b)
        BY <2>1, <4>1
      <4> QED BY <4>2 DEF to
    <3>3. CASE DrainFails(i, upTo)
      BY <2>4, <3>3
    <3> QED BY <3>1, <3>2, <3>3
  <2>8. CASE \E ready \in BOOLEAN : DrainEnds(i, ready)
    <3>1. PICK ready \in BOOLEAN : DrainEnds(i, ready)
      BY <2>8
    <3>2. to(End, Done, ready)
      BY <2>5, <3>1
    <3> HIDE DEF to
    <3>3. \E u \in s.replay..End, r \in {Done} \cup 1..End, b \in BOOLEAN : (r = u \/ (u = End /\ r = Done)) /\ to(u, r, b)
      BY <1>3, <3>2
    <3> QED BY <3>3 DEF to
  <2> QED BY <2>6, <2>7, <2>8 DEF DrainReplay
<1>5. CASE sse' = [sse EXCEPT ![i] = None]
  <2>1. sse' \in [Client -> Stream \cup {None}] /\ \A m \in Client : sse'[m] # None => sse'[m] = sse[m]
    BY <1>1, <1>5
  <2> QED BY <1>2, <2>1, StreamsKept
<1>6. ASSUME NEW upTo \in s.replay..End, NEW replay \in {Done} \cup 1..End, NEW ready \in BOOLEAN,
             replay = upTo \/ (upTo = End /\ replay = Done),
             sse' = [sse EXCEPT ![i] = [SentBatch(s, Batch(s, upTo)) EXCEPT !.replay = replay, !.ready = ready]]
      PROVE  ReplayInv'
  <2> DEFINE batch == Batch(s, upTo)
             s1 == Drained(s, batch, replay, ready)
  <2>1. batch = BatchOf(s, Table, upTo)
    BY TableParts DEF Batch, Visible, TableOf, BatchOf
  <2>2. sse' = [sse EXCEPT ![i] = s1]
    BY <1>6 DEF Drained
  <2>3. s1 = Drained(s, batch, replay, ready)
    OBVIOUS
  <2> HIDE DEF s, batch, s1
  <2>4. s1 \in Stream /\ s1.attachedAt = s.attachedAt /\ s1.replay = replay /\ HasSent(s1, s, Table, batch)
    <3>1. batch \subseteq TableOf(Table)
      BY <2>1 DEF BatchOf
    <3> QED BY <1>1, <1>6, <2>3, <3>1, BatchFields
  <2>5. StreamInv(s1, Table, writes)
    <3>1. s1.replay = upTo \/ (upTo = End /\ s1.replay = Done)
      BY <1>6, <2>4
    <3> QED BY <1>1, <1>2, <1>6, <2>1, <2>4, <3>1, BatchSent
  <2>6. Table' = Table
    BY <1>2 DEF Table, Stored, stores
  <2>7. /\ sse' \in [Client -> Stream \cup {None}]
        /\ \A m \in Client : sse'[m] # None => sse[m] # None /\ sse'[m].attachedAt = sse[m].attachedAt
        /\ sse'[i] = s1 /\ \A m \in Client \ {i} : sse'[m] = sse[m]
    BY <1>1, <2>2, <2>4 DEF s
  <2>8. \A m \in Client : sse'[m] # None => StreamInv(sse'[m], Table, writes)
    BY <2>5, <2>7 DEF ReplayInv, Open
  <2>9. TableInv(Table', writes') /\ \A m \in Open(sse') : StreamInv(sse'[m], Table', writes')
    BY <1>2, <2>6, <2>8 DEF Open
  <2>10. TypeOK'
    BY <1>2, <2>7 DEF ReplayInv, TypeOK, SubsTypeOK, stores
  <2>11. SlotsInv'
    BY <1>2, <2>7, SlotsKept DEF ReplayInv
  <2> QED BY <2>9, <2>10, <2>11 DEF ReplayInv
<1> QED BY <1>4, <1>5, <1>6

\* The slot for a new stream.
LEMMA SlotForFinds ==
  ASSUME NEW table \in [Client -> Stream \cup {None}]
  PROVE  /\ SlotFor(table) \in Client
         /\ Open(table) # Client => SlotFor(table) \notin Open(table)
         /\ Open(table) = Client => \A i \in Client : table[SlotFor(table)].attachedAt <= table[i].attachedAt
<1>1. Client # {} /\ Client \in SUBSET Nat
  BY EventReplayAssumption DEF Client
<1>2. Open(table) \subseteq Client
  BY DEF Open
<1>3. CASE Open(table) # Client
  <2> DEFINE free == Client \ Open(table)
  <2>1. free \in SUBSET Nat /\ free # {}
    BY <1>1, <1>2, <1>3
  <2>2. SlotFor(table) = CHOOSE i \in free : \A j \in free : i <= j
    BY <1>3 DEF SlotFor
  <2> HIDE DEF free
  <2>3. SlotFor(table) \in free
    BY <2>1, <2>2, MinExists
  <2> QED BY <1>3, <2>3 DEF free
<1>4. CASE Open(table) = Client
  <2> DEFINE ages == {table[i].attachedAt : i \in Client}
  <2>1. ages \in SUBSET Nat /\ ages # {}
    <3>1. \A i \in Client : table[i] \in Stream
      BY <1>4 DEF Open
    <3>2. \A i \in Client : table[i].attachedAt \in Nat
      BY <3>1, StreamFields, EventReplayAssumption
    <3> QED BY <1>1, <3>2
  <2>2. PICK n \in ages : \A m \in ages : n <= m
    <3> HIDE DEF ages
    <3> QED BY <2>1, MinExists
  <2>3. PICK i \in Client : table[i].attachedAt = n
    BY <2>2
  <2>4. \A j \in Client : table[i].attachedAt <= table[j].attachedAt
    BY <2>2, <2>3
  <2>5. SlotFor(table) = CHOOSE m \in Client : \A j \in Client : table[m].attachedAt <= table[j].attachedAt
    BY <1>4 DEF SlotFor
  <2> QED BY <1>4, <2>4, <2>5
<1> QED BY <1>3, <1>4

\* A slot freed for a new stream, whose replay is all before it.
LEMMA AttachKeeps ==
  ASSUME ReplayInv, NEW wants \in Wants, NEW ready \in BOOLEAN, Attach(wants, ready)
  PROVE  ReplayInv'
<1> DEFINE slot == SlotFor(Reaped)
           new == [attachedAt |-> attachCount + 1, wants |-> wants, replay |-> 1, ready |-> ready, closed |-> FALSE,
                   sent |-> {}, shown |-> NothingShown]
<1>1. /\ sse \in [Client -> Stream \cup {None}] /\ Reaped \in [Client -> Stream \cup {None}]
      /\ \A i \in Client : Reaped[i] # None => Reaped[i] = sse[i] /\ sse[i] # None
  BY DEF ReplayInv, TypeOK, Reaped
<1>2. slot \in Client
  BY <1>1, SlotForFinds
<1>3. attachCount' = attachCount + 1 /\ attachCount + 1 \in 1..MaxAttach /\ attachCount \in Nat
  BY EventReplayAssumption DEF Attach, ReplayInv, TypeOK
<1>4. new \in Stream /\ new # None
  <2>1. 1 \in 1..End
    BY IndexParts, EventReplayAssumption DEF End
  <2>2. NothingShown \in [Topic -> 0..MaxSeq \cup {None}] /\ wants \in SUBSET Topic
    BY EventReplayAssumption DEF NothingShown
  <2>3. new \in Stream
    BY <1>3, <2>1, <2>2 DEF Stream
  <2> QED BY <2>3, EventReplayAssumption
<1>5. sse' = [Reaped EXCEPT ![slot] = new]
  BY DEF Attach
<1>6. /\ new.replay = 1 /\ new.sent = {} /\ new.wants \subseteq Topic /\ new.shown = NothingShown
      /\ new.attachedAt = attachCount + 1
  BY EventReplayAssumption
<1> HIDE DEF new, slot
<1>7. /\ sse' \in [Client -> Stream \cup {None}] /\ sse'[slot] = new
      /\ \A i \in Client \ {slot} : sse'[i] # None => sse'[i] = sse[i] /\ sse[i] # None
  BY <1>1, <1>2, <1>4, <1>5
<1>8. UNCHANGED <<stores, writes>>
  BY DEF Attach
<1>9. Table' = Table
  BY <1>8 DEF Table, Stored, stores
<1>10. TableInv(Table', writes') /\ \A i \in Open(sse') : StreamInv(sse'[i], Table', writes')
  <2>1. StreamInv(new, Table, writes)
    BY <1>6, NewStream
  <2> QED BY <1>7, <1>8, <1>9, <2>1 DEF ReplayInv, Open
<1>11. SlotsInv'
  <2>1. \A i \in Open(sse) : sse[i].attachedAt \in Nat /\ sse[i].attachedAt <= attachCount
    BY <1>1, StreamFields, EventReplayAssumption DEF ReplayInv, SlotsInv, Open
  <2>2. \A i \in Open(sse') : i = slot \/ (i \in Open(sse) /\ sse'[i] = sse[i])
    BY <1>7 DEF Open
  <2>3. \A i \in Open(sse') : sse'[i].attachedAt <= attachCount'
    BY <1>3, <1>6, <1>7, <2>1, <2>2
  <2>4. \A i, j \in Open(sse') : sse'[i].attachedAt = sse'[j].attachedAt => i = j
    BY <1>3, <1>6, <1>7, <2>1, <2>2 DEF ReplayInv, SlotsInv
  <2> QED BY <2>3, <2>4 DEF SlotsInv
<1>12. TypeOK'
  BY <1>3, <1>7, <1>8 DEF ReplayInv, TypeOK, SubsTypeOK, stores
<1> QED BY <1>10, <1>11, <1>12 DEF ReplayInv

LEMMA AttachFailsKeeps ==
  ASSUME ReplayInv, AttachFails
  PROVE  ReplayInv'
<1>1. sse \in [Client -> Stream \cup {None}] /\ Reaped \in [Client -> Stream \cup {None}]
      /\ \A i \in Client : Reaped[i] # None => Reaped[i] = sse[i] /\ sse[i] # None
  BY DEF ReplayInv, TypeOK, Reaped
<1>2. sse' \in [Client -> Stream \cup {None}] /\ \A i \in Client : sse'[i] # None => sse'[i] = sse[i] /\ sse[i] # None
  BY <1>1 DEF AttachFails
<1> QED BY <1>2, StreamsKept DEF AttachFails

LEMMA InitReplay == Init => ReplayInv
<1> SUFFICES ASSUME Init PROVE ReplayInv
  OBVIOUS
<1>1. StoresTyped /\ TypeOK
  <2>1. SubsTypeOK
    BY DEF Init, SubsInit, SubsTypeOK
  <2>2. aliases \in [AliasIndex -> [topic : AliasTopic, seq : 1..MaxSeq] \cup {None}]
    BY DEF Init
  <2>3. 0 \in 0..MaxSeq /\ 0 \in 0..MaxAttach
    BY EventReplayAssumption
  <2>4. settings \in [SettingIndex -> [topic : SettingTopic, seq : 0..MaxSeq] \cup {None}]
        /\ \A j \in SettingIndex : settings[j] # None => settings[j].topic = SettingOf(j)
    <3>1. \A j \in SettingIndex : [topic |-> SettingOf(j), seq |-> 0] \in [topic : SettingTopic, seq : 0..MaxSeq]
      BY <2>3 DEF SettingTopic
    <3> QED BY <3>1 DEF Init
  <2>5. StoresTyped
    BY <2>1, <2>2, <2>4 DEF StoresTyped
  <2>6. sse \in [Client -> Stream \cup {None}] /\ attachCount \in 0..MaxAttach /\ writes \in 0..MaxSeq
    BY <2>3 DEF Init
  <2> QED BY <2>5, <2>6, TypeParts
<1>2. \A j \in TableOf(Table) : j \in SettingIndex /\ Table[j] = [topic |-> SettingOf(j), seq |-> 0]
  BY IndexParts, TableParts DEF Init, SubsInit, TableOf
<1>3. TableInv(Table, writes)
  <2>1. \A j \in TableOf(Table) : /\ Table[j] \in Frame /\ Table[j].topic \in Topic \ Key /\ Table[j].seq = 0
                                  /\ Table[j].topic = SettingOf(j)
    <3>1. \A j \in SettingIndex : SettingOf(j) \in SettingTopic /\ SettingOf(j) \in Topic \ Key
      BY EventReplayAssumption DEF SettingTopic, Topic
    <3>2. 0 \in 0..MaxSeq
      BY EventReplayAssumption
    <3>3. SUFFICES ASSUME NEW j \in TableOf(Table)
                   PROVE  /\ Table[j] \in Frame /\ Table[j].topic \in Topic \ Key /\ Table[j].seq = 0
                          /\ Table[j].topic = SettingOf(j)
      OBVIOUS
    <3>4. j \in SettingIndex /\ Table[j] = [topic |-> SettingOf(j), seq |-> 0]
      BY <1>2
    <3>5. Table[j].topic = SettingOf(j) /\ Table[j].seq = 0
      BY <3>4
    <3>6. SettingOf(j) \in Topic \ Key
      BY <3>1, <3>4
    <3>7. Table[j] \in Frame
      BY <3>2, <3>4, <3>6 DEF Frame
    <3> QED BY <3>5, <3>6, <3>7
  <2>2. \A i, j \in TableOf(Table) : Table[i].topic = Table[j].topic => i = j
    <3>1. \A i, j \in SettingIndex : SettingOf(i) = SettingOf(j) => i = j
      BY EventReplayAssumption
    <3>2. \A j \in TableOf(Table) : j \in SettingIndex /\ Table[j].topic = SettingOf(j)
      BY <1>2, <2>1
    <3> QED BY <3>1, <3>2
  <2>3. \A j \in TableOf(Table) : j \notin Sub
    BY <1>2, IndexParts
  <2>4. writes = 0
    BY DEF Init
  <2> QED BY <2>1, <2>2, <2>3, <2>4 DEF TableInv
<1>4. \A i \in Client : sse[i] = None
  BY DEF Init
<1> QED BY <1>1, <1>3, <1>4 DEF ReplayInv, SlotsInv, Open

LEMMA NextReplay == ReplayInv /\ [Next]_vars => ReplayInv'
<1> SUFFICES ASSUME ReplayInv, [Next]_vars PROVE ReplayInv'
  OBVIOUS
<1>1. ASSUME NEW wants \in Wants, NEW ready \in BOOLEAN, Attach(wants, ready) PROVE ReplayInv'
  BY <1>1, AttachKeeps
<1>2. CASE AttachFails
  BY <1>2, AttachFailsKeeps
<1>3. CASE Reap \/ Keepalive
  BY <1>3, SocketsKeep
<1>4. ASSUME NEW i \in Client, PeerCloses(i) \/ PeerReads(i) PROVE ReplayInv'
  BY <1>4, SocketsKeep
<1>5. ASSUME NEW i \in Client, DrainReplay(i) PROVE ReplayInv'
  BY <1>5, DrainKeeps
<1>6. ASSUME NEW k \in Key, NEW j \in Sub, Record(k, j) PROVE ReplayInv'
  BY <1>6, RecordKeeps
<1>7. CASE Sweep
  BY <1>7, SweepKeeps
<1>8. ASSUME NEW t \in AliasTopic, PostAlias(t) \/ ClearAlias(t) PROVE ReplayInv'
  BY <1>8, PostAliasKeeps, ClearAliasKeeps
<1>9. ASSUME NEW j \in SettingIndex, PostSetting(j) PROVE ReplayInv'
  BY <1>9, PostSettingKeeps
<1>10. CASE UNCHANGED vars
  <2>1. UNCHANGED <<stores, writes, attachCount>> /\ sse' = sse
    BY <1>10 DEF vars
  <2> QED BY <2>1, StreamsKept DEF ReplayInv, TypeOK
<1> QED BY <1>1, <1>2, <1>3, <1>4, <1>5, <1>6, <1>7, <1>8, <1>9, <1>10 DEF Next

LEMMA ReplayInvariant == Spec => []ReplayInv
BY InitReplay, NextReplay, PTL DEF Spec

-----------------------------------------------------------------------------
(* Theorems *)

\* No order of viewers, peers, records, sweeps and posts leaves the slots, the
\* cursors and the tables they walk outside their types.
THEOREM TypeCorrect == Spec => []TypeOK
<1>1. ReplayInv => TypeOK
  BY DEF ReplayInv
<1> QED BY <1>1, ReplayInvariant, PTL

\* What a stream is to be sent, as the invariant has it.
LEMMA VisibleEntries ==
  ASSUME ReplayInv, NEW i \in Open(sse)
  PROVE  /\ Visible(sse[i]) = {j \in TableOf(Table) : Table[j].topic \in sse[i].wants}
         /\ \A j \in Visible(sse[i]) : Stored(j) = Table[j] /\ (Passed(sse[i], j) <=> Stored(j) \in sse[i].sent)
<1>1. Visible(sse[i]) = {j \in TableOf(Table) : Table[j].topic \in sse[i].wants}
  BY TableParts DEF Visible, TableOf
<1>2. \A j \in TableOf(Table) : Stored(j) = Table[j]
  BY TableParts DEF TableOf
<1>3. \A j \in TableOf(Table) : Table[j].topic \in sse[i].wants => (Passed(sse[i], j) <=> Table[j] \in sse[i].sent)
  BY DEF ReplayInv, StreamInv
<1> QED BY <1>1, <1>2, <1>3

\* What the cursor has passed, live or in the replay, has been sent in its
\* current version: broadcastFrame and drainReplay leave no gap between them.
THEOREM NothingIsLost == Spec => []NothingLost
<1>1. ReplayInv => NothingLost
  BY VisibleEntries DEF NothingLost
<1> QED BY <1>1, ReplayInvariant, PTL

\* What the cursor has yet to come to has not been sent already.
THEOREM NothingSentTwice == Spec => []SentOnce
<1>1. ReplayInv => SentOnce
  BY VisibleEntries DEF SentOnce
<1> QED BY <1>1, ReplayInvariant, PTL

\* Every page that shows an alias or a setting shows the one the receiver
\* holds, and none that it does not.
THEOREM NamesStayCurrent == Spec => []NamesCurrent
<1>1. ReplayInv => NamesCurrent
  <2> SUFFICES ASSUME ReplayInv, NEW i \in Open(sse), NEW t \in sse[i].wants \ Key
               PROVE  LET passed == {j \in EntriesOf(t) : Passed(sse[i], j)}
                      IN IF passed = {} THEN sse[i].shown[t] = None ELSE \A j \in passed : sse[i].shown[t] = Stored(j).seq
    BY DEF NamesCurrent
  <2> DEFINE passed == {j \in EntriesOf(t) : Passed(sse[i], j)}
  <2>1. \A j \in Names : j \in Index /\ Table[j] = Stored(j)
    BY IndexParts, TableParts DEF Names
  <2>2. passed = PassedNames(sse[i], t, Table)
    BY <2>1 DEF EntriesOf, PassedNames, TableOf, Names
  <2>3. \A j \in passed : Table[j] = Stored(j)
    BY <2>1 DEF EntriesOf, Names
  <2>4. /\ PassedNames(sse[i], t, Table) = {} => sse[i].shown[t] = None
        /\ \A j \in PassedNames(sse[i], t, Table) : sse[i].shown[t] = Table[j].seq
    BY DEF ReplayInv, StreamInv
  <2> HIDE DEF passed
  <2> QED BY <2>2, <2>3, <2>4 DEF passed
<1> QED BY <1>1, ReplayInvariant, PTL

\* The step OnlyTheLongestAttachedGoes is about.
OldestGoes ==
  \A i \in Open(sse) :
    attachCount' # attachCount /\ ~sse[i].closed /\ sse'[i] # sse[i] =>
      \A other \in Client \ {i} :
        /\ sse[other] # None /\ ~sse[other].closed
        /\ sse[i].attachedAt < sse[other].attachedAt

LEMMA OldestGoesStep ==
  ASSUME ReplayInv, Next
  PROVE  OldestGoes
<1>1. attachCount' # attachCount => \E wants \in Wants, ready \in BOOLEAN : Attach(wants, ready)
  BY DEF Next, AttachFails, Reap, Keepalive, PeerCloses, PeerReads, DrainReplay, Record, Sweep, PostAlias,
         ClearAlias, PostSetting
<1> SUFFICES ASSUME NEW wants \in Wants, NEW ready \in BOOLEAN, Attach(wants, ready),
                    NEW i \in Open(sse), ~sse[i].closed, sse'[i] # sse[i], NEW other \in Client \ {i}
             PROVE  sse[other] # None /\ ~sse[other].closed /\ sse[i].attachedAt < sse[other].attachedAt
  BY <1>1 DEF OldestGoes
<1>2. /\ sse \in [Client -> Stream \cup {None}] /\ Reaped \in [Client -> Stream \cup {None}]
      /\ \A m \in Client : Reaped[m] = IF sse[m] # None /\ sse[m].closed THEN None ELSE sse[m]
  BY DEF ReplayInv, TypeOK, Reaped
<1>3. i \in Client /\ sse[i] # None /\ Reaped[i] = sse[i]
  BY <1>2 DEF Open
<1>4. i = SlotFor(Reaped)
  <2>1. i # SlotFor(Reaped) => sse'[i] = Reaped[i]
    BY <1>2, <1>3 DEF Attach
  <2> QED BY <1>3, <2>1
<1>5. i \in Open(Reaped)
  BY <1>3 DEF Open
<1>6. Open(Reaped) = Client /\ Reaped[i].attachedAt <= Reaped[other].attachedAt
  BY <1>2, <1>4, <1>5, SlotForFinds
<1>7. Reaped[other] = sse[other] /\ sse[other] # None /\ ~sse[other].closed
  <2>1. Reaped[other] # None
    BY <1>6 DEF Open
  <2> QED BY <1>2, <2>1
<1>8. sse[i].attachedAt # sse[other].attachedAt
  BY <1>3, <1>7 DEF ReplayInv, SlotsInv, Open
<1>9. sse[i].attachedAt \in Nat /\ sse[other].attachedAt \in Nat
  BY <1>2, <1>3, <1>7, StreamFields, EventReplayAssumption
<1> QED BY <1>3, <1>6, <1>7, <1>8, <1>9

\* A viewer who is still there loses the stream to a new one only when every
\* slot is taken, and only if attached longer ago than all the others.
THEOREM OldestGoesFirst == Spec => OnlyTheLongestAttachedGoes
<1>1. ReplayInv /\ Next => OldestGoes
  BY OldestGoesStep
<1>2. ReplayInv /\ [Next]_vars => [OldestGoes]_vars
  BY <1>1
<1>3. [][OldestGoes]_vars => OnlyTheLongestAttachedGoes
  BY DEF OldestGoes, OnlyTheLongestAttachedGoes
<1> QED BY <1>2, <1>3, ReplayInvariant, PTL DEF Spec

=============================================================================
