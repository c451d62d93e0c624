--------------------------- MODULE ReceiverProofs ---------------------------
(***************************************************************************)
(* Proofs about parts of the receiver: what brokers retain, what flash     *)
(* restores, the watch over the radio, the matching of topics, and the     *)
(* rain of a day.                                                          *)
(***************************************************************************)
EXTENDS MqttPublish, FlashStores, RadioHealth, TopicMatch, RainHooks, SubsequenceProofs

(***************************************************************************)
(* RadioHealth.  While nothing was decoded since a recovery, and nothing   *)
(* heard before it is to be seen yet, the watch has seen the last decode,  *)
(* and, unless the clock wrapped, the recovery is stamped after it.  What  *)
(* makes this hold at a recovery: the loop reads the clock and sets the    *)
(* radio up within a minute, and a decode within it is one to be seen.     *)
(***************************************************************************)
RadioInv ==
  /\ RadioTypeOK /\ RadioOkEarned
  /\ cycle \in {"evaluate", "reinit"} => seenNow = uptime
  /\ cycle = "reinit" => health.lastDecodeAt # uptime
  /\ ~wrapped => lastDecodeAt <= uptime
  /\ unconfirmed /\ ~late =>
       /\ lastDecodeAt = health.lastDecodeAt
       /\ ~wrapped => health.lastRecoveryAt # 0 /\ lastDecodeAt <= health.lastRecoveryAt

LEMMA RadioStarts == RadioInit => RadioInv
<1>1. {0, 1} \subseteq 0..(Wrap - 1)
  BY RadioAssumption
<1>2. RadioInit => RadioTypeOK
  <2> SUFFICES ASSUME RadioInit PROVE RadioTypeOK
    OBVIOUS
  <2>1. health \in [lastDecodeAt : 0..(Wrap - 1), lastRecoveryAt : 0..(Wrap - 1)]
    BY <1>1 DEF RadioInit
  <2>2. uptime \in 0..(Wrap - 1) /\ lastDecodeAt \in 0..(Wrap - 1) /\ seenNow \in 0..(Wrap - 1)
    BY <1>1 DEF RadioInit
  <2>3. inPipeline \in BOOLEAN /\ pinnedFloor \in BOOLEAN /\ radioOk \in BOOLEAN
        /\ unconfirmed \in BOOLEAN /\ late \in BOOLEAN /\ wrapped \in BOOLEAN
    BY DEF RadioInit
  <2> QED BY <2>1, <2>2, <2>3 DEF RadioInit, RadioTypeOK
<1>3. RadioInit => lastDecodeAt <= uptime
  BY DEF RadioInit
<1> QED BY <1>2, <1>3 DEF RadioInit, RadioInv, RadioOkEarned

\* No time has passed since a moment at that moment.
LEMMA SinceItself == ASSUME NEW t \in 0..(Wrap - 1) PROVE Since(t, t) = 0
  BY RadioAssumption DEF Since

\* The next minute of the clock.
LEMMA ClockStays ==
  ASSUME uptime \in 0..(Wrap - 1)
  PROVE /\ (uptime + 1) % Wrap \in 0..(Wrap - 1)
        /\ (uptime + 1) % Wrap = 0 \/ (uptime + 1) % Wrap = uptime + 1
<1>1. CASE uptime + 1 < Wrap
  BY <1>1, RadioAssumption
<1>2. CASE uptime + 1 = Wrap
  BY <1>2, RadioAssumption
<1> QED BY <1>1, <1>2, RadioAssumption

\* What happens beside the loop keeps the invariant.
LEMMA AirKeepsRadio == RadioInv /\ (Heard \/ Decoded \/ FloorMoves) => RadioInv'
<1>1. ASSUME RadioInv, Heard PROVE RadioInv'
  BY <1>1, RadioAssumption DEF Heard, RadioInv, RadioTypeOK, RadioOkEarned
<1>2. ASSUME RadioInv, Decoded PROVE RadioInv'
  <2>1. RadioTypeOK'
    BY <1>2 DEF Decoded, RadioInv, RadioTypeOK
  <2>2. lastDecodeAt' <= uptime'
    BY <1>2, RadioAssumption DEF Decoded, RadioInv, RadioTypeOK
  <2>3. ~(unconfirmed' /\ ~late')
    BY <1>2 DEF Decoded
  <2> QED BY <1>2, <2>1, <2>2, <2>3 DEF Decoded, RadioInv, RadioOkEarned
<1>3. ASSUME RadioInv, FloorMoves PROVE RadioInv'
  BY <1>3, RadioAssumption DEF FloorMoves, RadioInv, RadioTypeOK, RadioOkEarned
<1> QED BY <1>1, <1>2, <1>3

\* A recovery is stamped after the last decode the watch has seen.
LEMMA RecoveryKeepsRadio ==
  ASSUME RadioInv, Recovered, UNCHANGED <<uptime, lastDecodeAt, inPipeline, pinnedFloor, seenNow, radioOk, wrapped>>,
         cycle' \in {"temperature", "record"},
         lastDecodeAt = health.lastDecodeAt => lastDecodeAt # uptime
  PROVE RadioInv'
<1>1. health' = [lastDecodeAt |-> health.lastDecodeAt, lastRecoveryAt |-> uptime]
  BY DEF Recovered, RadioInv, RadioTypeOK
<1>2. RadioTypeOK'
  BY <1>1, RadioAssumption DEF Recovered, RadioInv, RadioTypeOK
<1>3. ~late' => lastDecodeAt = health.lastDecodeAt
  BY DEF Recovered
<1>4. lastDecodeAt = health.lastDecodeAt /\ ~wrapped => uptime # 0 /\ lastDecodeAt <= uptime
  BY RadioAssumption DEF RadioInv, RadioTypeOK
<1> QED BY <1>1, <1>2, <1>3, <1>4 DEF RadioInv, RadioOkEarned

\* Every step of the minute's work keeps the invariant.
LEMMA LoopKeepsRadio ==
  RadioInv /\ (MinutePasses \/ ReadNow \/ Evaluate \/ Reinit \/ TemperatureRead \/ NotBackInRx \/ Record) => RadioInv'
<1>1. ASSUME RadioInv, MinutePasses PROVE RadioInv'
  <2>1. uptime' \in 0..(Wrap - 1) /\ (uptime' = 0 \/ uptime' = uptime + 1)
    BY <1>1, ClockStays DEF MinutePasses, RadioInv, RadioTypeOK
  <2>2. RadioTypeOK'
    BY <1>1, <2>1 DEF MinutePasses, RadioInv, RadioTypeOK
  <2>3. ~wrapped' => ~wrapped /\ uptime' # 0
    BY <1>1 DEF MinutePasses
  <2>4. lastDecodeAt <= uptime => lastDecodeAt <= uptime + 1
    BY <1>1 DEF RadioInv, RadioTypeOK
  <2> QED BY <1>1, <2>1, <2>2, <2>3, <2>4 DEF MinutePasses, RadioInv, RadioOkEarned
<1>2. ASSUME RadioInv, ReadNow PROVE RadioInv'
  BY <1>2, RadioAssumption DEF ReadNow, RadioInv, RadioTypeOK, RadioOkEarned
<1>3. ASSUME RadioInv, Evaluate PROVE RadioInv'
  <2>1. SoftReinit => lastDecodeAt # uptime
    BY <1>3, SinceItself, RadioAssumption DEF Evaluate, SoftReinit, RadioInv, RadioTypeOK
  <2>2. Seen \in [lastDecodeAt : 0..(Wrap - 1), lastRecoveryAt : 0..(Wrap - 1)] /\ Seen.lastDecodeAt = lastDecodeAt
    BY <1>3, RadioAssumption DEF Seen, RadioInv, RadioTypeOK
  <2>3. unconfirmed /\ ~late => Seen = health
    BY <1>3 DEF Seen, RadioInv
  <2> QED BY <1>3, <2>1, <2>2, <2>3, RadioAssumption DEF Evaluate, RadioInv, RadioTypeOK, RadioOkEarned
<1>4. ASSUME RadioInv, Reinit PROVE RadioInv'
  BY <1>4, RecoveryKeepsRadio DEF Reinit, RadioInv
<1>5. ASSUME RadioInv, TemperatureRead PROVE RadioInv'
  BY <1>5, RadioAssumption DEF TemperatureRead, RadioInv, RadioTypeOK, RadioOkEarned
<1>6. ASSUME RadioInv, NotBackInRx PROVE RadioInv'
  BY <1>6, RecoveryKeepsRadio DEF NotBackInRx
<1>7. ASSUME RadioInv, Record PROVE RadioInv'
  BY <1>7, RadioAssumption DEF Record, RadioInv, RadioTypeOK, RadioOkEarned
<1> QED BY <1>1, <1>2, <1>3, <1>4, <1>5, <1>6, <1>7

LEMMA RadioInductive == RadioSpec => []RadioInv
<1>1. RadioInv /\ [RadioNext]_radioVars => RadioInv'
  <2>1. RadioInv /\ RadioNext => RadioInv'
    BY AirKeepsRadio, LoopKeepsRadio DEF RadioNext
  <2>2. RadioInv /\ UNCHANGED radioVars => RadioInv'
    BY DEF radioVars, RadioInv, RadioTypeOK, RadioOkEarned
  <2> QED BY <2>1, <2>2
<1> QED BY <1>1, RadioStarts, PTL DEF RadioSpec

\* The watch over the radio keeps to its types, its clocks to their width.
THEOREM RadioTyped == RadioSpec => []RadioTypeOK
<1>1. RadioInv => RadioTypeOK
  BY DEF RadioInv
<1> QED BY <1>1, RadioInductive, PTL

\* A receiver records that its radio is well only when something heard since
\* the radio was last set up anew was decoded, whatever the periods and
\* wherever the clock wraps, but for the two exceptions the property names.
THEOREM RadioWellIsEarned == RadioSpec => []RadioOkEarned
<1>1. RadioInv => RadioOkEarned
  BY DEF RadioInv
<1> QED BY <1>1, RadioInductive, PTL

(***************************************************************************)
(* TopicMatch.  What either loop has walked over fits, and holds no # ; so *)
(* where it stops, what is left of filter and topic decides.               *)
(***************************************************************************)
Walked(w) ==
  /\ at[w] <= Len(filter) + 1 /\ at[w] <= Len(topicParts) + 1
  /\ \A i \in 1..(at[w] - 1) : filter[i] # "#" /\ Fits(i)

TopicInv ==
  /\ TopicTypeOK /\ MatchersAgree
  /\ validFilter(filter) /\ topicParts # <<>>
  /\ \A w \in Walker : Walked(w)
  /\ at["bridge"] > 1 => ~FirstIsSpecial

LEMMA TopicStarts == TopicInit => TopicInv
<1> SUFFICES ASSUME TopicInit PROVE TopicInv
  OBVIOUS
<1>1. filter \in Seq(TopicPart \cup {"+", "#"} \cup Flawed) /\ validFilter(filter)
  BY PartAssumption DEF TopicInit, Upto
<1>2. topicParts \in Seq(TopicPart) /\ topicParts # <<>>
  BY PartAssumption DEF TopicInit, Upto
<1>3. filter \in Seq(TopicPart \cup {"+", "#"})
  BY <1>1, PartAssumption DEF validFilter
<1>4. TopicTypeOK
  BY <1>2, <1>3 DEF TopicInit, TopicTypeOK, Walker
<1>5. MatchersAgree
  BY DEF TopicInit, MatchersAgree, Walker
<1>6. \A w \in Walker : Walked(w)
  BY <1>2, <1>3 DEF TopicInit, Walked
<1>7. at["bridge"] = 1
  BY DEF TopicInit, Walker
<1> QED BY <1>1, <1>2, <1>4, <1>5, <1>6, <1>7 DEF TopicInv

\* At a # the rest matches.
LEMMA HashMatches ==
  ASSUME TopicInv, NEW w \in Walker, InFilter(w), filter[at[w]] = "#"
  PROVE MatchesTopic
<1>1. at[w] = Len(filter) /\ at[w] \in Nat \ {0} /\ Len(filter) \in Nat \ {0} /\ Len(topicParts) \in Nat
  BY DEF TopicInv, TopicTypeOK, validFilter, InFilter
<1>2. Len(filter) - 1 <= Len(topicParts) /\ \A i \in 1..(Len(filter) - 1) : Fits(i)
  BY <1>1 DEF TopicInv, Walked
<1> QED BY <1>1, <1>2 DEF MatchesTopic

\* Where the filter or the topic has ended, they match if both have.
LEMMA EndDecides ==
  ASSUME TopicInv, NEW w \in Walker, ~InFilter(w) \/ (~InTopic(w) /\ filter[at[w]] # "#")
  PROVE MatchesTopic <=> ~InFilter(w) /\ ~InTopic(w)
<1>1. at[w] \in Nat \ {0} /\ Len(filter) \in Nat \ {0} /\ Len(topicParts) \in Nat
  BY DEF TopicInv, TopicTypeOK, validFilter
<1>2. CASE ~InFilter(w)
  <2>1. at[w] = Len(filter) + 1 /\ filter[Len(filter)] # "#" /\ \A i \in 1..Len(filter) : Fits(i)
    BY <1>1, <1>2 DEF TopicInv, Walked, InFilter
  <2>2. Len(filter) <= Len(topicParts) /\ (InTopic(w) <=> Len(filter) # Len(topicParts))
    BY <1>1, <2>1 DEF TopicInv, Walked, InTopic
  <2> QED BY <1>1, <1>2, <2>1, <2>2 DEF MatchesTopic
<1>3. CASE InFilter(w)
  <2>1. at[w] = Len(topicParts) + 1 /\ at[w] <= Len(filter) /\ filter[at[w]] # "#"
    BY <1>1, <1>3 DEF TopicInv, Walked, InFilter, InTopic
  <2>2. at[w] \in 1..(IF filter[Len(filter)] = "#" THEN Len(filter) - 1 ELSE Len(filter)) /\ ~(at[w] <= Len(topicParts))
    BY <1>1, <2>1
  <2> QED BY <1>3, <2>2 DEF MatchesTopic
<1> QED BY <1>2, <1>3

\* A part that does not fit, and is no #, decides.
LEMMA MisfitDecides ==
  ASSUME TopicInv, NEW w \in Walker, InFilter(w), filter[at[w]] # "#", ~(InTopic(w) /\ Fits(at[w]))
  PROVE ~MatchesTopic
<1>1. at[w] \in Nat \ {0} /\ Len(filter) \in Nat \ {0} /\ Len(topicParts) \in Nat
  BY DEF TopicInv, TopicTypeOK, validFilter
<1>2. at[w] \in 1..(IF filter[Len(filter)] = "#" THEN Len(filter) - 1 ELSE Len(filter))
  BY <1>1 DEF InFilter
<1> QED BY <1>2 DEF MatchesTopic, InTopic

\* A part that fits is walked over.
LEMMA FitIsWalked ==
  ASSUME TopicInv, NEW w \in Walker, NextPart(w), InFilter(w), InTopic(w), filter[at[w]] # "#", Fits(at[w]),
         w = "bridge" => at[w] > 1 \/ ~FirstIsSpecial
  PROVE TopicInv'
<1>1. at[w] \in Nat \ {0} /\ Len(filter) \in Nat \ {0} /\ Len(topicParts) \in Nat
  BY DEF TopicInv, TopicTypeOK, validFilter
<1>2. at' = [v \in Walker |-> IF v = w THEN at[w] + 1 ELSE at[v]]
  BY DEF NextPart, TopicInv, TopicTypeOK
<1>3. UNCHANGED <<filter, topicParts, verdict>>
  BY DEF NextPart
<1>4. TopicTypeOK'
  BY <1>1, <1>2, <1>3 DEF TopicInv, TopicTypeOK
<1>5. MatchersAgree'
  BY <1>3 DEF TopicInv, MatchersAgree, MatchesTopic, Fits, FirstIsSpecial
<1>6. \A i \in 1..at[w] : filter[i] # "#" /\ Fits(i)
  BY <1>1 DEF TopicInv, Walked
<1>7. ASSUME NEW v \in Walker PROVE Walked(v)'
  <2>1. CASE v = w
    <3>1. at'[v] = at[w] + 1
      BY <1>2, <2>1
    <3> QED BY <1>1, <1>3, <1>6, <3>1 DEF Walked, InFilter, InTopic, Fits
  <2>2. CASE v # w
    <3>1. at'[v] = at[v]
      BY <1>2, <2>2
    <3> QED BY <1>3, <3>1 DEF TopicInv, Walked, Fits
  <2> QED BY <2>1, <2>2
<1>8. at'["bridge"] > 1 => ~FirstIsSpecial'
  BY <1>2, <1>3 DEF TopicInv, FirstIsSpecial, Walker
<1> QED BY <1>3, <1>4, <1>5, <1>7, <1>8 DEF TopicInv, validFilter

\* A verdict that agrees with MQTT keeps the invariant.
LEMMA VerdictKeeps ==
  ASSUME TopicInv, NEW w \in Walker, NEW yes \in BOOLEAN, ReturnsMatch(w, yes),
         w = "bridge" => (yes <=> MatchesTopic /\ ~FirstIsSpecial),
         w = "receiver" => (yes <=> MatchesTopic)
  PROVE TopicInv'
<1>1. verdict' = [v \in Walker |-> IF v = w THEN IF yes THEN "yes" ELSE "no" ELSE verdict[v]]
  BY DEF ReturnsMatch, TopicInv, TopicTypeOK
<1>2. UNCHANGED <<filter, topicParts, at>>
  BY DEF ReturnsMatch
<1>3. TopicTypeOK'
  BY <1>1, <1>2 DEF TopicInv, TopicTypeOK
<1>4. (MatchesTopic' <=> MatchesTopic) /\ (FirstIsSpecial' <=> FirstIsSpecial)
  BY <1>2 DEF MatchesTopic, FirstIsSpecial, Fits
<1>5. MatchersAgree'
  BY <1>1, <1>4 DEF TopicInv, MatchersAgree, Walker
<1>6. \A v \in Walker : Walked(v)'
  BY <1>2 DEF TopicInv, Walked, Fits
<1> QED BY <1>2, <1>3, <1>4, <1>5, <1>6 DEF TopicInv, validFilter

LEMMA BridgeKeepsTopics == TopicInv /\ matchSplit => TopicInv'
<1> SUFFICES ASSUME TopicInv, matchSplit PROVE TopicInv'
  OBVIOUS
<1> DEFINE w == "bridge"
<1>w. w \in Walker
  BY DEF Walker
<1>1. CASE at[w] = 1 /\ FirstIsSpecial
  <2>1. ReturnsMatch(w, FALSE)
    BY <1>1 DEF matchSplit
  <2> QED BY <1>1, <1>w, <2>1, VerdictKeeps
<1>2. CASE ~(at[w] = 1 /\ FirstIsSpecial)
  <2>1. ~FirstIsSpecial
    BY <1>2, <1>w DEF TopicInv, TopicTypeOK
  <2>2. CASE ~InFilter(w)
    <3>1. ReturnsMatch(w, Len(filter) = Len(topicParts))
      BY <1>2, <2>2 DEF matchSplit
    <3>2. InTopic(w) <=> Len(filter) # Len(topicParts)
      BY <1>w, <2>2 DEF TopicInv, TopicTypeOK, Walked, InFilter, InTopic
    <3>3. MatchesTopic <=> Len(filter) = Len(topicParts)
      BY <1>w, <2>2, <3>2, EndDecides
    <3> QED BY <1>w, <2>1, <3>1, <3>3, VerdictKeeps
  <2>3. CASE InFilter(w) /\ filter[at[w]] = "#"
    <3>1. ReturnsMatch(w, TRUE)
      BY <1>2, <2>3 DEF matchSplit
    <3> QED BY <1>w, <2>1, <2>3, <3>1, HashMatches, VerdictKeeps
  <2>4. CASE InFilter(w) /\ filter[at[w]] # "#" /\ InTopic(w) /\ Fits(at[w])
    <3>1. NextPart(w)
      BY <1>2, <2>4 DEF matchSplit
    <3> QED BY <1>w, <2>1, <2>4, <3>1, FitIsWalked
  <2>5. CASE InFilter(w) /\ filter[at[w]] # "#" /\ ~(InTopic(w) /\ Fits(at[w]))
    <3>1. ReturnsMatch(w, FALSE)
      BY <1>2, <2>5 DEF matchSplit
    <3> QED BY <1>w, <2>1, <2>5, <3>1, MisfitDecides, VerdictKeeps
  <2> QED BY <2>2, <2>3, <2>4, <2>5
<1> QED BY <1>1, <1>2

LEMMA ReceiverKeepsTopics == TopicInv /\ matchFilter => TopicInv'
<1> SUFFICES ASSUME TopicInv, matchFilter PROVE TopicInv'
  OBVIOUS
<1> DEFINE w == "receiver"
<1>w. w \in Walker
  BY DEF Walker
<1>1. CASE InFilter(w) /\ filter[at[w]] = "#"
  <2>1. ReturnsMatch(w, TRUE)
    BY <1>1 DEF matchFilter
  <2> QED BY <1>1, <1>w, <2>1, HashMatches, VerdictKeeps
<1>2. CASE ~(InFilter(w) /\ filter[at[w]] = "#") /\ (~InFilter(w) \/ ~InTopic(w))
  <2>1. ReturnsMatch(w, ~InFilter(w) /\ ~InTopic(w))
    BY <1>2 DEF matchFilter
  <2>2. MatchesTopic <=> ~InFilter(w) /\ ~InTopic(w)
    BY <1>2, <1>w, EndDecides
  <2> QED BY <1>w, <2>1, <2>2, VerdictKeeps
<1>3. CASE InFilter(w) /\ filter[at[w]] # "#" /\ InTopic(w) /\ Fits(at[w])
  <2>1. NextPart(w)
    BY <1>3 DEF matchFilter
  <2> QED BY <1>w, <1>3, <2>1, FitIsWalked
<1>4. CASE InFilter(w) /\ filter[at[w]] # "#" /\ InTopic(w) /\ ~Fits(at[w])
  <2>1. ReturnsMatch(w, FALSE)
    BY <1>4 DEF matchFilter
  <2> QED BY <1>w, <1>4, <2>1, MisfitDecides, VerdictKeeps
<1> QED BY <1>1, <1>2, <1>3, <1>4

LEMMA TopicsInductive == TopicSpec => []TopicInv
<1>1. TopicInv /\ [TopicNext]_topicVars => TopicInv'
  <2>1. TopicInv /\ TopicNext => TopicInv'
    BY BridgeKeepsTopics, ReceiverKeepsTopics DEF TopicNext
  <2>2. TopicInv /\ UNCHANGED topicVars => TopicInv'
    BY DEF topicVars, TopicInv, TopicTypeOK, MatchersAgree, MatchesTopic, validFilter, Walked, FirstIsSpecial, Fits
  <2> QED BY <2>1, <2>2
<1> QED BY <1>1, TopicStarts, PTL DEF TopicSpec

\* Filter, topic, where the loops stand and their verdicts keep to their types.
THEOREM TopicsTyped == TopicSpec => []TopicTypeOK
<1>1. TopicInv => TopicTypeOK
  BY DEF TopicInv
<1> QED BY <1>1, TopicsInductive, PTL

\* The loops of the bridge and of the receiver return what MQTT says of filter
\* and topic, however long they are and whatever their parts.
THEOREM MatchersAlwaysAgree == TopicSpec => []MatchersAgree
<1>1. TopicInv => MatchersAgree
  BY DEF TopicInv
<1> QED BY <1>1, TopicsInductive, PTL

(***************************************************************************)
(* MqttPublish.  A link that is up is one that serves a row; and what a    *)
(* broker retains beyond what the receiver has is let go of, whether its   *)
(* link is up or not: that is what a replay finds.                         *)
(***************************************************************************)
ConnsOK ==
  /\ DOMAIN conns = ConnSlot
  /\ \A s \in ConnSlot : DOMAIN conns[s] = {"url", "token", "mode", "link", "since"}
  /\ \A s \in ConnSlot : conns[s].mode = "enabled" => conns[s].url \in Url
  /\ \A s \in ConnSlot : conns[s].link = "up" => s \in Served /\ conns[s].mode = "enabled"

RetainedOK ==
  /\ DOMAIN holding = Topic
  /\ DOMAIN retainedAt = Url /\ \A u \in Url : DOMAIN retainedAt[u] = Topic
  /\ DOMAIN untold = Url
  /\ \A u \in Url, t \in Topic :
       holding[t] = Blank /\ retainedAt[u][t] # Blank => t \in untold[u]

PublishInv == ConnsOK /\ RetainedOK /\ BrokersHold

\* A connection that was just set up is down, and enabled only with a good URL.
LEMMA SetUpIsDown ==
  ASSUME NEW row, NEW room
  PROVE /\ DOMAIN SetUp(row, room) = {"url", "token", "mode", "link", "since"}
        /\ SetUp(row, room).link = "down"
        /\ SetUp(row, room).mode = "enabled" => SetUp(row, room).url \in Url
<1>1. CASE row.url \notin GoodUrl
  BY <1>1 DEF SetUp, IdleConn
<1>2. CASE row.url \in GoodUrl
  BY <1>2, PublishAssumption DEF SetUp
<1> QED BY <1>1, <1>2

\* However the connections are given to the rows, those that are up afterwards
\* were up before, serve a row, and have not been touched.
LEMMA BeginKeepsUp ==
  ASSUME NEW rows, NEW old, Begin(rows, old), DOMAIN old = ConnSlot,
         \A s \in ConnSlot : DOMAIN old[s] = {"url", "token", "mode", "link", "since"},
         \A s \in ConnSlot : old[s].mode = "enabled" => old[s].url \in Url
  PROVE /\ ConnsOK'
        /\ \A s \in ConnSlot : conns'[s].link = "up" => conns'[s] = old[s]
<1>1. PICK slot \in [DOMAIN rows -> ConnSlot], room \in {TRUE, ~MemoryMayRunOut} :
        /\ slotOrder' = slot
        /\ conns' = [s \in ConnSlot |->
             IF \E i \in DOMAIN rows : slot[i] = s
             THEN LET row == rows[CHOOSE i \in DOMAIN rows : slot[i] = s]
                  IN IF Serves(old[s], row) THEN old[s] ELSE SetUp(row, room)
             ELSE IdleConn]
  BY Zenon DEF Begin
<1>2. Served' = {slot[i] : i \in DOMAIN rows}
  BY <1>1 DEF Served
<1>3. ASSUME NEW s \in ConnSlot
      PROVE \/ conns'[s] = old[s] /\ old[s].mode = "enabled" /\ s \in Served'
            \/ \E row : conns'[s] = SetUp(row, room)
            \/ conns'[s] = IdleConn
  BY <1>1, <1>2 DEF Serves
<1>4. /\ DOMAIN IdleConn = {"url", "token", "mode", "link", "since"}
      /\ IdleConn.link = "down" /\ IdleConn.mode = "idle"
  BY DEF IdleConn
<1>5. ASSUME NEW s \in ConnSlot
      PROVE /\ DOMAIN conns'[s] = {"url", "token", "mode", "link", "since"}
            /\ conns'[s].mode = "enabled" => conns'[s].url \in Url
            /\ conns'[s].link = "up" => s \in Served' /\ conns'[s].mode = "enabled" /\ conns'[s] = old[s]
  <2>1. CASE conns'[s] = old[s] /\ old[s].mode = "enabled" /\ s \in Served'
    BY <2>1
  <2>2. CASE \E row : conns'[s] = SetUp(row, room)
    BY <2>2, SetUpIsDown
  <2>3. CASE conns'[s] = IdleConn
    BY <2>3, <1>4
  <2> QED BY <1>3, <2>1, <2>2, <2>3
<1> QED BY <1>1, <1>5 DEF ConnsOK

LEMMA PublishStarts == PublishInit => PublishInv
<1> SUFFICES ASSUME PublishInit PROVE PublishInv
  OBVIOUS
<1>1. ASSUME NEW s \in ConnSlot
      PROVE /\ DOMAIN conns[s] = {"url", "token", "mode", "link", "since"}
            /\ conns[s].mode = "enabled" => conns[s].url \in Url
            /\ conns[s].link = "down"
  <2>1. CASE s \in DOMAIN BuildFlagRows
    BY <2>1, SetUpIsDown DEF PublishInit
  <2>2. CASE s \notin DOMAIN BuildFlagRows
    BY <2>2 DEF PublishInit, IdleConn
  <2> QED BY <2>1, <2>2
<1>2. DOMAIN conns = ConnSlot
  BY DEF PublishInit
<1>3. RetainedOK
  BY DEF PublishInit, RetainedOK
<1> QED BY <1>1, <1>2, <1>3 DEF PublishInv, ConnsOK, BrokersHold

LEMMA EditKeepsBrokers ==
  ASSUME PublishInv, NEW rows, Edited(rows) PROVE PublishInv'
<1>1. ConnsOK' /\ \A s \in ConnSlot : conns'[s].link = "up" => conns'[s] = conns[s]
  BY BeginKeepsUp DEF PublishInv, ConnsOK, Edited
<1>2. UNCHANGED <<holding, retainedAt, untold>>
  BY DEF Edited
<1>3. RetainedOK'
  BY <1>2 DEF PublishInv, RetainedOK
<1>4. BrokersHold'
  BY <1>1, <1>2 DEF PublishInv, BrokersHold
<1> QED BY <1>1, <1>3, <1>4 DEF PublishInv

LEMMA RestartKeepsBrokers == PublishInv /\ ReceiverRestarts => PublishInv'
<1> SUFFICES ASSUME PublishInv, ReceiverRestarts PROVE PublishInv'
  OBVIOUS
<1> DEFINE none == [s \in ConnSlot |-> IdleConn]
<1>1. ConnsOK' /\ \A s \in ConnSlot : conns'[s].link = "up" => conns'[s] = none[s]
  <2>1. /\ DOMAIN none = ConnSlot
        /\ \A s \in ConnSlot : DOMAIN none[s] = {"url", "token", "mode", "link", "since"}
        /\ \A s \in ConnSlot : none[s].mode # "enabled"
    BY DEF IdleConn
  <2>2. Begin(Wanted(brokerTable), none)
    BY DEF ReceiverRestarts
  <2> HIDE DEF none
  <2> QED BY <2>1, <2>2, BeginKeepsUp
<1>2. \A s \in ConnSlot : conns'[s].link # "up"
  BY <1>1 DEF IdleConn
<1>3. RetainedOK'
  BY DEF PublishInv, RetainedOK, ReceiverRestarts
<1> QED BY <1>1, <1>2, <1>3 DEF PublishInv, BrokersHold

LEMMA LoopKeepsBrokers ==
  ASSUME PublishInv, NEW reached \in SUBSET ConnSlot, PublishLoop(reached) PROVE PublishInv'
<1>1. ASSUME NEW s \in ConnSlot
      PROVE /\ DOMAIN conns'[s] = {"url", "token", "mode", "link", "since"}
            /\ conns'[s].mode = conns[s].mode /\ conns'[s].url = conns[s].url
            /\ conns'[s].link = IF s \in reached THEN "up" ELSE conns[s].link
  BY DEF PublishInv, ConnsOK, PublishLoop
<1>2. \A s \in reached : s \in Served /\ conns[s].mode = "enabled"
  BY DEF PublishLoop, Due, Down
<1>3. Served' = Served
  BY DEF PublishLoop, Served
<1>4. ConnsOK'
  <2>1. DOMAIN conns' = ConnSlot
    BY DEF PublishLoop
  <2> QED BY <1>1, <1>2, <1>3, <2>1 DEF PublishInv, ConnsOK
<1> DEFINE urls == {conns[s].url : s \in reached}
<1>5. ASSUME NEW u \in Url, NEW t \in Topic
      PROVE /\ retainedAt'[u][t] = IF u \in urls /\ holding[t] # Blank THEN holding[t] ELSE retainedAt[u][t]
            /\ (holding[t] = Blank \/ u \notin urls) /\ t \in untold[u] => t \in untold'[u]
  BY DEF PublishLoop, Replayed, PublishInv, RetainedOK
<1>6. RetainedOK'
  <2>1. DOMAIN holding' = Topic /\ DOMAIN retainedAt' = Url /\ DOMAIN untold' = Url
        /\ holding' = holding
    BY DEF PublishLoop, PublishInv, RetainedOK
  <2>2. \A u \in Url : DOMAIN retainedAt'[u] = Topic
    BY DEF PublishLoop, Replayed, PublishInv, RetainedOK
  <2> QED BY <1>5, <2>1, <2>2 DEF PublishInv, RetainedOK
<1>7. BrokersHold'
  <2> SUFFICES ASSUME NEW s \in ConnSlot, conns'[s].link = "up", NEW t \in Topic
               PROVE retainedAt'[conns'[s].url][t] = holding'[t] \/ t \in untold'[conns'[s].url]
    BY DEF BrokersHold
  <2>1. conns'[s].url = conns[s].url /\ conns[s].url \in Url /\ holding' = holding
    BY <1>1, <1>2 DEF PublishInv, ConnsOK, PublishLoop
  <2>2. CASE s \in reached
    <3>1. conns[s].url \in urls
      BY <2>2
    <3> QED BY <1>5, <2>1, <3>1 DEF PublishInv, RetainedOK
  <2>3. CASE s \notin reached
    <3>1. conns[s].link = "up"
      BY <2>3, <1>1
    <3>2. retainedAt[conns[s].url][t] = holding[t] \/ t \in untold[conns[s].url]
      BY <3>1 DEF PublishInv, BrokersHold
    <3> QED BY <1>5, <2>1, <3>2
  <2> QED BY <2>2, <2>3
<1> QED BY <1>4, <1>6, <1>7 DEF PublishInv

\* Nothing comes up but in a pass of the loop.
LEMMA LinksKeepBrokers ==
  PublishInv /\ (BackoffPasses \/ \E s \in ConnSlot : LinkDies(s) \/ DeathSeen(s)) => PublishInv'
<1> SUFFICES ASSUME PublishInv, BackoffPasses \/ \E s \in ConnSlot : LinkDies(s) \/ DeathSeen(s)
             PROVE PublishInv'
  OBVIOUS
<1>1. UNCHANGED <<slotOrder, holding, retainedAt, untold>> /\ DOMAIN conns' = ConnSlot
  BY DEF BackoffPasses, LinkDies, DeathSeen, PublishInv, ConnsOK
<1>2. ASSUME NEW s \in ConnSlot
      PROVE /\ DOMAIN conns'[s] = {"url", "token", "mode", "link", "since"}
            /\ conns'[s].mode = conns[s].mode /\ conns'[s].url = conns[s].url
            /\ conns'[s].link = "up" => conns[s].link = "up"
  <2>1. CASE BackoffPasses
    BY <2>1 DEF BackoffPasses, PublishInv, ConnsOK
  <2>2. ASSUME NEW r \in ConnSlot, LinkDies(r) \/ DeathSeen(r)
        PROVE /\ DOMAIN conns'[s] = {"url", "token", "mode", "link", "since"}
              /\ conns'[s].mode = conns[s].mode /\ conns'[s].url = conns[s].url
              /\ conns'[s].link = "up" => conns[s].link = "up"
    BY <2>2 DEF LinkDies, DeathSeen, PublishInv, ConnsOK
  <2> QED BY <2>1, <2>2
<1>3. Served' = Served
  BY <1>1 DEF Served
<1>4. ConnsOK'
  BY <1>1, <1>2, <1>3 DEF PublishInv, ConnsOK
<1>5. RetainedOK'
  BY <1>1 DEF PublishInv, RetainedOK
<1>6. BrokersHold'
  BY <1>1, <1>2 DEF PublishInv, BrokersHold
<1> QED BY <1>4, <1>5, <1>6 DEF PublishInv

\* A broker that is reached has the word; from another it is let go of.
LEMMA PublishedKeepsBrokers ==
  ASSUME PublishInv, NEW t \in Topic, NEW w, Published(t, w) PROVE PublishInv'
<1>1. ConnsOK'
  BY DEF Published, PublishInv, ConnsOK, Served
<1>2. ASSUME NEW u \in Url, NEW v \in Topic
      PROVE /\ holding'[v] = IF v = t THEN w ELSE holding[v]
            /\ retainedAt'[u][v] = IF v = t /\ u \in ReachedUrls THEN w ELSE retainedAt[u][v]
            /\ v # t => (v \in untold'[u] <=> v \in untold[u])
            /\ v = t /\ u \notin ReachedUrls /\ w = Blank => v \in untold'[u]
  BY DEF Published, PublishInv, RetainedOK
<1>3. RetainedOK'
  <2>1. /\ DOMAIN holding' = Topic /\ DOMAIN retainedAt' = Url /\ DOMAIN untold' = Url
        /\ \A u \in Url : DOMAIN retainedAt'[u] = Topic
    BY DEF Published, PublishInv, RetainedOK
  <2> QED BY <1>2, <2>1 DEF PublishInv, RetainedOK
<1>4. BrokersHold'
  <2> SUFFICES ASSUME NEW s \in ConnSlot, conns'[s].link = "up", NEW v \in Topic
               PROVE retainedAt'[conns'[s].url][v] = holding'[v] \/ v \in untold'[conns'[s].url]
    BY DEF BrokersHold
  <2>1. conns'[s] = conns[s]
    BY DEF Published
  <2>2. conns[s].url \in ReachedUrls /\ conns[s].url \in Url
    BY <2>1 DEF ReachedUrls, PublishInv, ConnsOK
  <2>3. retainedAt[conns[s].url][v] = holding[v] \/ v \in untold[conns[s].url]
    BY <2>1 DEF PublishInv, BrokersHold
  <2> QED BY <1>2, <2>1, <2>2, <2>3
<1> QED BY <1>1, <1>3, <1>4 DEF PublishInv

\* No broker is told of either, and of both it is noted.
LEMMA UnsentKeepsBrokers ==
  ASSUME PublishInv, NEW t \in Topic, SensorForgotten(t) \/ \E w \in Word : RecordTooLarge(t, w)
  PROVE  PublishInv'
<1>0. PICK w : /\ holding' = [holding EXCEPT ![t] = w] /\ untold' = [u \in Url |-> untold[u] \cup {t}]
               /\ UNCHANGED <<conns, slotOrder, retainedAt>>
  BY DEF SensorForgotten, RecordTooLarge
<1>1. ConnsOK'
  BY <1>0 DEF PublishInv, ConnsOK, Served
<1>2. RetainedOK'
  BY <1>0 DEF PublishInv, RetainedOK
<1>3. BrokersHold'
  <2> SUFFICES ASSUME NEW s \in ConnSlot, conns'[s].link = "up", NEW v \in Topic
               PROVE retainedAt'[conns'[s].url][v] = holding'[v] \/ v \in untold'[conns'[s].url]
    BY DEF BrokersHold
  <2>1. conns' = conns /\ retainedAt' = retainedAt /\ conns[s].url \in Url
    BY <1>0 DEF PublishInv, ConnsOK
  <2>2. retainedAt[conns[s].url][v] = holding[v] \/ v \in untold[conns[s].url]
    BY <2>1 DEF PublishInv, BrokersHold
  <2>3. /\ holding'[v] = IF v = t THEN w ELSE holding[v]
        /\ untold'[conns[s].url] = untold[conns[s].url] \cup {t}
    BY <1>0, <2>1 DEF PublishInv, RetainedOK
  <2> QED BY <2>1, <2>2, <2>3
<1> QED BY <1>1, <1>2, <1>3 DEF PublishInv

LEMMA BrokersInductive == PublishSpec => []PublishInv
<1>1. PublishInv /\ [PublishNext]_publishVars => PublishInv'
  <2>1. ASSUME PublishInv, PublishNext PROVE PublishInv'
    <3>1. ASSUME NEW row \in Row, AddBroker(row) PROVE PublishInv'
      BY <2>1, <3>1, EditKeepsBrokers DEF AddBroker
    <3>2. ASSUME NEW url \in Url, RemoveBroker(url) PROVE PublishInv'
      BY <2>1, <3>2, EditKeepsBrokers DEF RemoveBroker
    <3>3. ASSUME NEW t \in Topic, ClearName(t) \/ \E w \in Word : Update(t, w) PROVE PublishInv'
      BY <2>1, <3>3, PublishedKeepsBrokers DEF ClearName, Update
    <3> QED BY <2>1, <3>1, <3>2, <3>3, LoopKeepsBrokers, RestartKeepsBrokers, LinksKeepBrokers,
               UnsentKeepsBrokers DEF PublishNext
  <2>2. ASSUME PublishInv, UNCHANGED publishVars PROVE PublishInv'
    BY <2>2 DEF publishVars, PublishInv, ConnsOK, RetainedOK, BrokersHold, Served
  <2> QED BY <2>1, <2>2
<1> QED BY <1>1, PublishStarts, PTL DEF PublishSpec

\* However the table is edited, links die and the receiver restarts: a broker
\* whose link is up retains what the receiver holds, but for a device forgotten,
\* a name cleared or a record too large to publish that it was never told of.
THEOREM BrokersAlwaysHold == PublishSpec => []BrokersHold
<1>1. PublishInv => BrokersHold
  BY DEF PublishInv
<1> QED BY <1>1, BrokersInductive, PTL

(***************************************************************************)
(* MqttPublish.  begin() gives every row of the table a connection of its  *)
(* own, whatever the connections were; between two calls of it the loop    *)
(* and the links leave url, token and mode alone, and an idle connection   *)
(* altogether.                                                             *)
(***************************************************************************)
Conn == [url : Url \cup {Blank}, token : Password, mode : {"idle", "enabled", "invalid url", "out of memory"},
         link : {"down", "up", "dead"}, since : 0..Backoff]

\* ServesTable, of any rows and connections.
ServesRows(rows, order, cs) ==
  /\ Len(order) = Len(rows)
  /\ \A i \in DOMAIN rows :
       /\ cs[order[i]].url = rows[i].url
       /\ cs[order[i]].mode \in {"enabled", "out of memory"} => cs[order[i]].token = rows[i].token
  /\ \A i, j \in DOMAIN rows : order[i] = order[j] => i = j
  /\ \A s \in ConnSlot \ {order[i] : i \in DOMAIN order} : cs[s] = IdleConn

ServesInv == PublishTypeOK /\ ServesTable

LEMMA ServesTableSays == ServesTable <=> ServesRows(Wanted(brokerTable), slotOrder, conns)
BY DEF ServesTable, ServesRows, Served

LEMMA ServedNext ==
  ASSUME NEW rows, rows = Wanted(brokerTable'), ServesRows(rows, slotOrder', conns') PROVE ServesTable'
BY DEF ServesTable, ServesRows, Served, Wanted

\* The parts of the type invariant after a step.
LEMMA TypedNext ==
  ASSUME brokerTable' \in [1..TableSlots -> Row \cup {FreeRow}], conns' \in [ConnSlot -> Conn], slotOrder' \in Seq(ConnSlot),
         holding' \in [Topic -> Word \cup {Blank}], retainedAt' \in [Url -> [Topic -> Word \cup {Blank}]],
         untold' \in [Url -> SUBSET Topic], tableEdits' \in Nat, writes' \in Nat, breaks' \in Nat
  PROVE  PublishTypeOK'
BY DEF PublishTypeOK, Conn

LEMMA TypedNow ==
  ASSUME PublishTypeOK
  PROVE  /\ brokerTable \in [1..TableSlots -> Row \cup {FreeRow}] /\ conns \in [ConnSlot -> Conn] /\ slotOrder \in Seq(ConnSlot)
         /\ holding \in [Topic -> Word \cup {Blank}] /\ retainedAt \in [Url -> [Topic -> Word \cup {Blank}]]
         /\ untold \in [Url -> SUBSET Topic]
         /\ tableEdits \in Nat /\ writes \in Nat /\ breaks \in Nat
         /\ tableEdits + 1 \in Nat /\ writes + 1 \in Nat /\ breaks + 1 \in Nat
<1>1. tableEdits \in Nat /\ writes \in Nat /\ breaks \in Nat
  BY DEF PublishTypeOK
<1>2. tableEdits + 1 \in Nat /\ writes + 1 \in Nat /\ breaks + 1 \in Nat
  BY <1>1
<1> QED BY <1>2 DEF PublishTypeOK, Conn

LEMMA BackoffDue == Backoff \in 0..Backoff
<1>1. Backoff \in Nat
  BY PublishAssumption
<1> QED BY <1>1

LEMMA ConnMade ==
  ASSUME NEW u \in Url \cup {Blank}, NEW p \in Password, NEW m \in {"idle", "enabled", "invalid url", "out of memory"}
  PROVE  [url |-> u, token |-> p, mode |-> m, link |-> "down", since |-> Backoff] \in Conn
<1>1. "down" \in {"down", "up", "dead"}
  OBVIOUS
<1> QED BY <1>1, BackoffDue DEF Conn

LEMMA IdleIsConn == IdleConn \in Conn
<1>1. NoPassword \in Password
  BY PublishAssumption, Zenon
<1> QED BY <1>1, ConnMade DEF IdleConn

\* setupConnection
LEMMA SetUpServes ==
  ASSUME NEW row \in Row, NEW room \in BOOLEAN
  PROVE  /\ SetUp(row, room) \in Conn /\ SetUp(row, room).url = row.url
         /\ SetUp(row, room).mode \in {"enabled", "out of memory"} => SetUp(row, room).token = row.token
<1>1. row.url \in Url /\ row.token \in Password
  BY DEF Row
<1>2. CASE row.url \notin GoodUrl
  <2>1. SetUp(row, room) = [url |-> row.url, token |-> NoPassword, mode |-> "invalid url", link |-> "down", since |-> Backoff]
    BY <1>2 DEF SetUp, IdleConn
  <2>2. NoPassword \in Password /\ "invalid url" \notin {"enabled", "out of memory"}
    BY PublishAssumption
  <2>3. [url |-> row.url, token |-> NoPassword, mode |-> "invalid url", link |-> "down", since |-> Backoff] \in Conn
    BY <1>1, <2>2, ConnMade
  <2>4. PICK c : c = SetUp(row, room)
    OBVIOUS
  <2>5. c = [url |-> row.url, token |-> NoPassword, mode |-> "invalid url", link |-> "down", since |-> Backoff]
    BY <2>1, <2>4
  <2>6. c.url = row.url /\ c.mode = "invalid url"
    BY <2>5
  <2> QED BY <2>1, <2>2, <2>3, <2>4, <2>6
<1>3. CASE row.url \in GoodUrl
  <2> DEFINE mode == IF room THEN "enabled" ELSE "out of memory"
  <2>1. SetUp(row, room) = [url |-> row.url, token |-> row.token, mode |-> mode, link |-> "down", since |-> Backoff]
    BY <1>3 DEF SetUp
  <2>2. mode \in {"enabled", "out of memory"}
    OBVIOUS
  <2>3. mode \in {"idle", "enabled", "invalid url", "out of memory"}
    BY <2>2
  <2> HIDE DEF mode
  <2>4. [url |-> row.url, token |-> row.token, mode |-> mode, link |-> "down", since |-> Backoff] \in Conn
    BY <1>1, <2>3, ConnMade
  <2> QED BY <2>1, <2>4
<1> QED BY <1>2, <1>3

\* The table's rows, without those that are free, and the build's own.
LEMMA TableIsSeq ==
  ASSUME NEW table \in [1..TableSlots -> Row \cup {FreeRow}]
  PROVE  table \in Seq(Row \cup {FreeRow}) /\ Len(table) = TableSlots
<1>1. TableSlots \in Nat
  BY PublishAssumption
<1>2. table \in Seq(Row \cup {FreeRow})
  BY <1>1, SeqDef
<1> QED BY <1>1, <1>2, LenProperties

LEMMA RowsInUse ==
  ASSUME NEW table \in [1..TableSlots -> Row \cup {FreeRow}]
  PROVE  Within(table, Row) \in Seq(Row) /\ Len(Within(table, Row)) <= TableSlots
<1> DEFINE w == Within(table, Row)
<1>1. table \in Seq(Row \cup {FreeRow}) /\ Len(table) = TableSlots
  BY TableIsSeq
<1>2. w \in Seq(Row \cup {FreeRow}) /\ Len(w) <= Len(table)
  BY <1>1, WithinType
<1>3. ToSet(w) = ToSet(table) \cap Row
  BY <1>1, ToSetWithin
<1> HIDE DEF w
<1>4. ToSet(w) = {w[i] : i \in 1..Len(w)}
  BY <1>2, ToSetOf
<1>5. \A i \in 1..Len(w) : w[i] \in Row
  BY <1>3, <1>4
<1>6. w \in Seq(Row)
  BY <1>2, <1>5, SeqDef, LenProperties
<1> QED BY <1>1, <1>2, <1>6 DEF w

LEMMA WantedRows ==
  ASSUME NEW table \in [1..TableSlots -> Row \cup {FreeRow}] PROVE Wanted(table) \in Seq(Row)
BY RowsInUse, ConcatProperties, PublishAssumption DEF Wanted

LEMMA FreeIsNoRow == FreeRow \notin Row
BY PublishAssumption DEF FreeRow, Row

\* A table that is loaded without its gaps asks for the same connections.
LEMMA LoadedTable ==
  ASSUME NEW table \in [1..TableSlots -> Row \cup {FreeRow}], NEW w, w = Within(table, Row),
         NEW padded, padded = [i \in 1..TableSlots |-> IF i <= Len(w) THEN w[i] ELSE FreeRow]
  PROVE  padded \in [1..TableSlots -> Row \cup {FreeRow}] /\ Within(padded, Row) = w
<1> DEFINE S == Row \cup {FreeRow}
           n == Len(w)
           fill == [i \in 1..(TableSlots - n) |-> FreeRow]
<1>1. w \in Seq(Row) /\ n \in Nat /\ n <= TableSlots /\ TableSlots \in Nat /\ w \in Seq(S)
  <2>1. w \in Seq(Row) /\ n <= TableSlots
    BY RowsInUse
  <2> QED BY <2>1, LenProperties, PublishAssumption, SeqDef
<1>2. \A i \in 1..n : w[i] \in Row
  BY <1>1, ElementOfSeq
<1>3. padded \in [1..TableSlots -> S]
  BY <1>1, <1>2
<1>4. fill \in Seq(S) /\ Len(fill) = TableSlots - n /\ TableSlots - n \in Nat
  <2>1. TableSlots - n \in Nat
    BY <1>1
  <2>2. fill \in [1..(TableSlots - n) -> S]
    OBVIOUS
  <2>3. fill \in Seq(S)
    BY <2>1, <2>2, SeqDef
  <2> HIDE DEF n
  <2> QED BY <2>1, <2>2, <2>3, LenProperties
<1>5. padded = w \o fill
  <2>1. padded \in Seq(S) /\ Len(padded) = TableSlots
    BY <1>3, TableIsSeq
  <2>2. /\ w \o fill \in Seq(S) /\ Len(w \o fill) = n + (TableSlots - n)
        /\ \A i \in 1..(n + (TableSlots - n)) : (w \o fill)[i] = IF i <= n THEN w[i] ELSE fill[i - n]
    BY <1>1, <1>4, ConcatProperties
  <2>3. n + (TableSlots - n) = TableSlots
    BY <1>1
  <2>4. ASSUME NEW i \in 1..TableSlots PROVE padded[i] = (w \o fill)[i]
    <3>1. CASE i <= n
      BY <2>2, <2>3, <3>1
    <3>2. CASE ~(i <= n)
      <4>1. i - n \in 1..(TableSlots - n)
        BY <1>1, <3>2
      <4> QED BY <2>2, <2>3, <3>2, <4>1
    <3> QED BY <3>1, <3>2
  <2> HIDE DEF fill, n
  <2> QED BY <2>1, <2>2, <2>3, <2>4, SeqEqual
<1>6. ToSet(w) \subseteq Row
  BY <1>1, ToSetOf
<1>7. ToSet(fill) \cap Row = {}
  <2>1. ToSet(fill) = {fill[i] : i \in 1..(TableSlots - n)}
    BY <1>4, ToSetOf
  <2> QED BY <2>1, FreeIsNoRow
<1> HIDE DEF fill, S, n
<1>8. Within(w \o fill, Row) = w
  BY <1>1, <1>4, <1>6, <1>7, WithinPadded
<1> QED BY <1>3, <1>5, <1>8 DEF S

\* However the connections were before, begin() gives each row one.
LEMMA BeginServes ==
  ASSUME NEW rows \in Seq(Row), NEW old \in [ConnSlot -> Conn], Begin(rows, old)
  PROVE  conns' \in [ConnSlot -> Conn] /\ slotOrder' \in Seq(ConnSlot) /\ ServesRows(rows, slotOrder', conns')
<1>1. PICK slot \in [DOMAIN rows -> ConnSlot], room \in {TRUE, ~MemoryMayRunOut} :
        /\ Assigned(rows, old, slot)
        /\ slotOrder' = slot
        /\ conns' = [s \in ConnSlot |->
             IF \E i \in DOMAIN rows : slot[i] = s
             THEN LET row == rows[CHOOSE i \in DOMAIN rows : slot[i] = s]
                  IN IF Serves(old[s], row) THEN old[s] ELSE SetUp(row, room)
             ELSE IdleConn]
  BY Zenon DEF Begin
<1>2. \A i, j \in DOMAIN rows : slot[i] = slot[j] => i = j
  BY <1>1 DEF Assigned
<1>3. room \in BOOLEAN
  BY <1>1
<1>4. DOMAIN rows = 1..Len(rows) /\ Len(rows) \in Nat /\ \A i \in DOMAIN rows : rows[i] \in Row
  BY LenProperties, ElementOfSeq
<1>5. slot \in Seq(ConnSlot) /\ Len(slot) = Len(rows)
  <2>1. slot \in [1..Len(rows) -> ConnSlot]
    BY <1>4
  <2>2. slot \in Seq(ConnSlot)
    BY <1>4, <2>1, SeqDef
  <2> QED BY <1>4, <2>1, <2>2, LenProperties
<1>6. ASSUME NEW i \in DOMAIN rows
      PROVE  /\ conns'[slot[i]] \in Conn /\ conns'[slot[i]].url = rows[i].url
             /\ conns'[slot[i]].mode \in {"enabled", "out of memory"} => conns'[slot[i]].token = rows[i].token
  <2>1. (CHOOSE j \in DOMAIN rows : slot[j] = slot[i]) = i
    BY <1>2
  <2>2. slot[i] \in ConnSlot
    BY <1>1
  <2>3. conns'[slot[i]] = IF Serves(old[slot[i]], rows[i]) THEN old[slot[i]] ELSE SetUp(rows[i], room)
    BY <1>1, <2>1, <2>2
  <2>4. rows[i] \in Row
    BY <1>4
  <2>5. CASE Serves(old[slot[i]], rows[i])
    BY <2>2, <2>3, <2>5 DEF Serves
  <2>6. CASE ~Serves(old[slot[i]], rows[i])
    <3>1. conns'[slot[i]] = SetUp(rows[i], room)
      BY <2>3, <2>6
    <3>2. /\ SetUp(rows[i], room) \in Conn /\ SetUp(rows[i], room).url = rows[i].url
          /\ SetUp(rows[i], room).mode \in {"enabled", "out of memory"} => SetUp(rows[i], room).token = rows[i].token
      BY <1>3, <2>4, SetUpServes
    <3> QED BY <3>1, <3>2
  <2> QED BY <2>5, <2>6
<1>7. ASSUME NEW s \in ConnSlot, ~\E i \in DOMAIN rows : slot[i] = s PROVE conns'[s] = IdleConn
  BY <1>1, <1>7
<1>8. conns' \in [ConnSlot -> Conn]
  <2>1. ASSUME NEW s \in ConnSlot PROVE conns'[s] \in Conn
    BY <1>6, <1>7, IdleIsConn
  <2>2. \E f : conns' = [s \in ConnSlot |-> f[s]]
    <3>1. conns' = [s \in ConnSlot |-> conns'[s]]
      BY <1>1
    <3> QED BY <3>1
  <2> QED BY <2>1, <2>2
<1>9. DOMAIN slotOrder' = DOMAIN rows
  BY <1>1
<1>10. ServesRows(rows, slot, conns')
  <2>1. ASSUME NEW s \in ConnSlot \ {slot[i] : i \in DOMAIN slot} PROVE conns'[s] = IdleConn
    <3>1. ~\E i \in DOMAIN rows : slot[i] = s
      BY <2>1
    <3> QED BY <1>7, <3>1
  <2> QED BY <1>2, <1>5, <1>6, <2>1 DEF ServesRows
<1> QED BY <1>1, <1>5, <1>8, <1>10

LEMMA TableStarts == PublishInit => ServesInv
<1> SUFFICES ASSUME PublishInit PROVE ServesInv
  OBVIOUS
<1> DEFINE rows == BuildFlagRows
<1>1. rows \in Seq(Row) /\ Len(rows) <= 1 /\ TableSlots \in Nat \ {0}
  BY PublishAssumption
<1>2. Len(rows) \in Nat /\ DOMAIN rows = 1..Len(rows) /\ \A i \in DOMAIN rows : rows[i] \in Row
  BY <1>1, LenProperties, ElementOfSeq
<1>3. \A i \in DOMAIN rows : i \in ConnSlot
  BY <1>1, <1>2 DEF ConnSlot
<1> HIDE DEF rows
<1>4. /\ brokerTable = [i \in 1..TableSlots |-> FreeRow]
      /\ slotOrder = [i \in DOMAIN rows |-> i]
      /\ conns = [s \in ConnSlot |-> IF s \in DOMAIN rows THEN SetUp(rows[s], TRUE) ELSE IdleConn]
  BY DEF PublishInit, rows
<1>5. brokerTable \in [1..TableSlots -> Row \cup {FreeRow}]
  BY <1>4
<1>6. Wanted(brokerTable) = rows
  <2> DEFINE w == Within(brokerTable, Row)
  <2>1. brokerTable \in Seq(Row \cup {FreeRow}) /\ Len(brokerTable) = TableSlots
    BY <1>5, TableIsSeq
  <2>2. ToSet(brokerTable) = {brokerTable[i] : i \in 1..TableSlots}
    BY <2>1, ToSetOf
  <2>3. ToSet(brokerTable) \cap Row = {}
    BY <1>4, <2>2, FreeIsNoRow
  <2>4. Within(brokerTable, Row) = <<>>
    BY <2>1, <2>3, WithinNone
  <2>5. <<>> \o rows = rows
    BY <1>1, ConcatEmptySeq DEF rows
  <2> QED BY <2>4, <2>5 DEF Wanted, rows
<1>7. slotOrder \in Seq(ConnSlot) /\ Len(slotOrder) = Len(rows) /\ DOMAIN slotOrder = DOMAIN rows
  <2>1. slotOrder \in [1..Len(rows) -> ConnSlot]
    BY <1>2, <1>3, <1>4
  <2>2. slotOrder \in Seq(ConnSlot)
    BY <1>2, <2>1, SeqDef
  <2>3. DOMAIN slotOrder = 1..Len(slotOrder) /\ Len(slotOrder) \in Nat
    BY <2>2, LenProperties
  <2> QED BY <1>2, <2>1, <2>2, <2>3, LenProperties
<1>8. ASSUME NEW s \in ConnSlot, s \in DOMAIN rows
      PROVE  /\ conns[s] \in Conn /\ conns[s].url = rows[s].url
             /\ conns[s].mode \in {"enabled", "out of memory"} => conns[s].token = rows[s].token
  <2>1. conns[s] = SetUp(rows[s], TRUE) /\ rows[s] \in Row
    BY <1>2, <1>4, <1>8
  <2>2. /\ SetUp(rows[s], TRUE) \in Conn /\ SetUp(rows[s], TRUE).url = rows[s].url
        /\ SetUp(rows[s], TRUE).mode \in {"enabled", "out of memory"} => SetUp(rows[s], TRUE).token = rows[s].token
    BY <2>1, SetUpServes
  <2> QED BY <2>1, <2>2
<1>9. ASSUME NEW s \in ConnSlot, s \notin DOMAIN rows PROVE conns[s] = IdleConn
  BY <1>4, <1>9
<1>10. conns \in [ConnSlot -> Conn]
  <2>1. \A s \in ConnSlot : conns[s] \in Conn
    BY <1>8, <1>9, IdleIsConn
  <2>2. conns = [s \in ConnSlot |-> conns[s]]
    BY <1>4
  <2> QED BY <2>1, <2>2
<1>11. ServesRows(rows, slotOrder, conns)
  <2>1. \A i \in DOMAIN rows : slotOrder[i] = i
    BY <1>4
  <2>2. \A s \in ConnSlot \ {slotOrder[i] : i \in DOMAIN slotOrder} : conns[s] = IdleConn
    BY <1>7, <1>9, <2>1
  <2> QED BY <1>3, <1>7, <1>8, <2>1, <2>2 DEF ServesRows
<1>12. ServesTable
  BY <1>6, <1>11, ServesTableSays
<1>13. PublishTypeOK
  <2>1. /\ holding \in [Topic -> Word \cup {Blank}] /\ retainedAt \in [Url -> [Topic -> Word \cup {Blank}]]
        /\ untold \in [Url -> SUBSET Topic] /\ tableEdits \in Nat /\ writes \in Nat /\ breaks \in Nat
    BY DEF PublishInit
  <2> QED BY <1>5, <1>7, <1>10, <2>1 DEF PublishTypeOK, Conn
<1> QED BY <1>12, <1>13 DEF ServesInv

\* POST /$mqtt and /$mqtt/remove.
LEMMA EditServes ==
  ASSUME ServesInv, NEW rows \in [1..TableSlots -> Row \cup {FreeRow}], Edited(rows) PROVE ServesInv'
<1>1. brokerTable' = rows /\ Begin(Wanted(rows), conns) /\ UNCHANGED <<holding, retainedAt, untold, writes, breaks>>
      /\ tableEdits' = tableEdits + 1
  BY DEF Edited
<1>2. Wanted(rows) \in Seq(Row)
  BY WantedRows
<1>3. conns \in [ConnSlot -> Conn]
  BY DEF ServesInv, PublishTypeOK, Conn
<1>4. conns' \in [ConnSlot -> Conn] /\ slotOrder' \in Seq(ConnSlot) /\ ServesRows(Wanted(rows), slotOrder', conns')
  BY <1>1, <1>2, <1>3, BeginServes
<1>5. ServesTable'
  BY <1>1, <1>4, ServedNext
<1>6. PublishTypeOK'
  BY <1>1, <1>4, TypedNow, TypedNext DEF ServesInv
<1> QED BY <1>5, <1>6 DEF ServesInv

LEMMA AddServes == ASSUME ServesInv, NEW row \in Row, AddBroker(row) PROVE ServesInv'
<1>1. PICK i \in 1..TableSlots : Edited([brokerTable EXCEPT ![i] = row])
  BY DEF AddBroker
<1>2. [brokerTable EXCEPT ![i] = row] \in [1..TableSlots -> Row \cup {FreeRow}]
  BY DEF ServesInv, PublishTypeOK
<1> QED BY <1>1, <1>2, EditServes

LEMMA RemoveServes == ASSUME ServesInv, NEW url \in Url, RemoveBroker(url) PROVE ServesInv'
<1>1. PICK i \in 1..TableSlots : Edited([brokerTable EXCEPT ![i] = FreeRow])
  BY DEF RemoveBroker
<1>2. [brokerTable EXCEPT ![i] = FreeRow] \in [1..TableSlots -> Row \cup {FreeRow}]
  BY DEF ServesInv, PublishTypeOK
<1> QED BY <1>1, <1>2, EditServes

\* A restart begins from a table without gaps and from no connection.
LEMMA RestartServes == ASSUME ServesInv, ReceiverRestarts PROVE ServesInv'
<1> DEFINE w == Within(brokerTable, Row)
           padded == [i \in 1..TableSlots |-> IF i <= Len(w) THEN w[i] ELSE FreeRow]
           none == [s \in ConnSlot |-> IdleConn]
<1>1. /\ brokerTable' = padded /\ Begin(Wanted(brokerTable), none) /\ breaks' = breaks + 1
      /\ holding' = [t \in Topic |-> IF t \in Sensor THEN Blank ELSE holding[t]]
      /\ untold' = [u \in Url |-> untold[u] \cup Sensor] /\ UNCHANGED <<retainedAt, tableEdits, writes>>
  BY DEF ReceiverRestarts
<1>2. brokerTable \in [1..TableSlots -> Row \cup {FreeRow}]
  BY DEF ServesInv, PublishTypeOK
<1>3. padded \in [1..TableSlots -> Row \cup {FreeRow}] /\ Within(padded, Row) = w
  BY <1>2, LoadedTable
<1>4. Wanted(padded) = Wanted(brokerTable)
  BY <1>3 DEF Wanted
<1> HIDE DEF padded
<1>5. Wanted(brokerTable) \in Seq(Row)
  BY <1>2, WantedRows
<1>6. none \in [ConnSlot -> Conn]
  BY IdleIsConn
<1> HIDE DEF none
<1>7. conns' \in [ConnSlot -> Conn] /\ slotOrder' \in Seq(ConnSlot) /\ ServesRows(Wanted(brokerTable), slotOrder', conns')
  BY <1>1, <1>5, <1>6, BeginServes
<1>8. ServesTable'
  BY <1>1, <1>4, <1>7, ServedNext
<1>9. holding' \in [Topic -> Word \cup {Blank}] /\ untold' \in [Url -> SUBSET Topic]
  <2>1. holding \in [Topic -> Word \cup {Blank}] /\ untold \in [Url -> SUBSET Topic] /\ Sensor \subseteq Topic
    BY DEF ServesInv, PublishTypeOK, Topic
  <2> QED BY <1>1, <2>1
<1>10. PublishTypeOK'
  BY <1>1, <1>3, <1>7, <1>9, TypedNow, TypedNext DEF ServesInv
<1> QED BY <1>8, <1>10 DEF ServesInv

\* What changes no more of a connection than its link and its clock, and of an
\* idle one nothing, keeps the rows served.
LEMMA SameServes ==
  ASSUME ServesInv, UNCHANGED <<brokerTable, slotOrder>>,
         \A s \in ConnSlot : conns'[s].url = conns[s].url /\ conns'[s].token = conns[s].token /\ conns'[s].mode = conns[s].mode,
         \A s \in ConnSlot : conns[s] = IdleConn => conns'[s] = IdleConn
  PROVE  ServesTable'
<1>1. PICK rows : rows = Wanted(brokerTable)
  OBVIOUS
<1>2. ServesRows(rows, slotOrder, conns)
  BY <1>1, ServesTableSays DEF ServesInv
<1>3. rows \in Seq(Row)
  BY <1>1, WantedRows DEF ServesInv, PublishTypeOK
<1>4. DOMAIN rows = 1..Len(rows) /\ DOMAIN slotOrder = 1..Len(slotOrder) /\ \A i \in DOMAIN slotOrder : slotOrder[i] \in ConnSlot
  BY <1>3, LenProperties, ElementOfSeq DEF ServesInv, PublishTypeOK
<1>5. \A i \in DOMAIN rows : slotOrder[i] \in ConnSlot
  BY <1>2, <1>4 DEF ServesRows
<1>6. rows = Wanted(brokerTable')
  BY <1>1
<1>7. ServesRows(rows, slotOrder, conns')
  BY <1>2, <1>5 DEF ServesRows
<1> QED BY <1>6, <1>7, ServedNext

Changed(c, x, y) == [c EXCEPT !.since = x, !.link = y]

LEMMA ConnChanged ==
  ASSUME NEW c \in Conn, NEW x \in 0..Backoff, NEW y \in {"down", "up", "dead"}
  PROVE  /\ Changed(c, x, y) \in Conn /\ Changed(c, x, y).url = c.url
         /\ Changed(c, x, y).token = c.token /\ Changed(c, x, y).mode = c.mode
         /\ x = c.since /\ y = c.link => Changed(c, x, y) = c
<1>1. c = [url |-> c.url, token |-> c.token, mode |-> c.mode, link |-> c.link, since |-> c.since]
  BY DEF Conn
<1>2. Changed(c, x, y) = [url |-> c.url, token |-> c.token, mode |-> c.mode, link |-> y, since |-> x]
  <2>1. PICK d : d = [c EXCEPT !.since = x]
    OBVIOUS
  <2>2. d = [url |-> c.url, token |-> c.token, mode |-> c.mode, link |-> c.link, since |-> x]
    BY <2>1 DEF Conn
  <2>3. Changed(c, x, y) = [[c EXCEPT !.since = x] EXCEPT !.link = y]
    BY DEF Changed
  <2> QED BY <2>1, <2>2, <2>3
<1>3. c.url \in Url \cup {Blank} /\ c.token \in Password
  BY DEF Conn
<1>4. c.mode \in {"idle", "enabled", "invalid url", "out of memory"}
  BY DEF Conn
<1>5. [url |-> c.url, token |-> c.token, mode |-> c.mode, link |-> y, since |-> x] \in Conn
  BY <1>3, <1>4 DEF Conn
<1> QED BY <1>1, <1>2, <1>5

\* loop(), the links and the clock.
LEMMA LoopServes == ASSUME ServesInv, NEW reached \in SUBSET ConnSlot, PublishLoop(reached) PROVE ServesInv'
<1> DEFINE urls == {conns[s].url : s \in reached}
<1>1. /\ reached \subseteq {s \in ConnSlot : Due(s)}
      /\ conns' = [s \in ConnSlot |-> [conns[s] EXCEPT !.since = IF Due(s) THEN 0 ELSE @,
                                                      !.link = IF s \in reached THEN "up" ELSE @]]
      /\ retainedAt' = [u \in Url |-> IF u \in urls THEN Replayed(retainedAt[u]) ELSE retainedAt[u]]
      /\ untold' = [u \in Url |-> IF u \in urls THEN {t \in untold[u] : holding[t] = Blank} ELSE untold[u]]
      /\ UNCHANGED <<brokerTable, slotOrder, holding, tableEdits, writes, breaks>>
  BY DEF PublishLoop
<1>2. conns \in [ConnSlot -> Conn] /\ holding \in [Topic -> Word \cup {Blank}]
      /\ retainedAt \in [Url -> [Topic -> Word \cup {Blank}]] /\ untold \in [Url -> SUBSET Topic]
  BY DEF ServesInv, PublishTypeOK, Conn
<1>3. ASSUME NEW s \in ConnSlot
      PROVE  /\ conns'[s] \in Conn /\ conns'[s].url = conns[s].url /\ conns'[s].token = conns[s].token
             /\ conns'[s].mode = conns[s].mode /\ (conns[s] = IdleConn => conns'[s] = IdleConn)
  <2>1. PICK x, y : x = (IF Due(s) THEN 0 ELSE conns[s].since) /\ y = (IF s \in reached THEN "up" ELSE conns[s].link)
    OBVIOUS
  <2>2. conns'[s] = [conns[s] EXCEPT !.since = x, !.link = y]
    BY <1>1, <2>1
  <2>3. conns[s] \in Conn /\ conns[s].since \in 0..Backoff /\ conns[s].link \in {"down", "up", "dead"}
    BY <1>2 DEF Conn
  <2>4. x \in 0..Backoff
    BY <2>1, <2>3, BackoffDue
  <2>5. y \in {"down", "up", "dead"}
    BY <2>1, <2>3
  <2>6. conns[s] = IdleConn => x = conns[s].since /\ y = conns[s].link
    <3>1. ASSUME conns[s] = IdleConn PROVE ~Due(s)
      BY <3>1 DEF Due, Down, IdleConn
    <3> QED BY <1>1, <2>1, <3>1
  <2>7. PICK c : c = conns[s]
    OBVIOUS
  <2>8. conns'[s] = Changed(c, x, y) /\ c \in Conn
    BY <2>2, <2>3, <2>7 DEF Changed
  <2>9. /\ Changed(c, x, y) \in Conn /\ Changed(c, x, y).url = c.url
        /\ Changed(c, x, y).token = c.token /\ Changed(c, x, y).mode = c.mode
        /\ x = c.since /\ y = c.link => Changed(c, x, y) = c
    BY <2>4, <2>5, <2>8, ConnChanged
  <2> QED BY <2>6, <2>7, <2>8, <2>9
<1>4. ServesTable'
  BY <1>1, <1>3, SameServes
<1>5. conns' \in [ConnSlot -> Conn]
  BY <1>1, <1>3
<1>6. retainedAt' \in [Url -> [Topic -> Word \cup {Blank}]]
  BY <1>1, <1>2 DEF Replayed
<1>7. untold' \in [Url -> SUBSET Topic]
  BY <1>1, <1>2
<1> QED BY <1>1, <1>4, <1>5, <1>6, <1>7 DEF ServesInv, PublishTypeOK, Conn

LEMMA BackoffServes == ASSUME ServesInv, BackoffPasses PROVE ServesInv'
<1>1. /\ conns' = [s \in ConnSlot |-> [conns[s] EXCEPT !.since = IF @ < Backoff THEN @ + 1 ELSE @]]
      /\ UNCHANGED <<brokerTable, slotOrder, holding, retainedAt, untold, tableEdits, writes, breaks>>
  BY DEF BackoffPasses
<1>2. conns \in [ConnSlot -> Conn] /\ Backoff \in Nat
  BY PublishAssumption DEF ServesInv, PublishTypeOK, Conn
<1>3. ASSUME NEW s \in ConnSlot
      PROVE  /\ conns'[s] \in Conn /\ conns'[s].url = conns[s].url /\ conns'[s].token = conns[s].token
             /\ conns'[s].mode = conns[s].mode /\ (conns[s] = IdleConn => conns'[s] = IdleConn)
  <2>1. PICK x, y : x = (IF conns[s].since < Backoff THEN conns[s].since + 1 ELSE conns[s].since) /\ y = conns[s].link
    OBVIOUS
  <2>2. conns[s] \in Conn /\ conns[s].since \in 0..Backoff /\ conns[s].link \in {"down", "up", "dead"}
    BY <1>2 DEF Conn
  <2>3. conns'[s] = [conns[s] EXCEPT !.since = x, !.link = y]
    <3>1. conns'[s] = [conns[s] EXCEPT !.since = x]
      BY <1>1, <2>1
    <3> QED BY <2>1, <2>2, <3>1 DEF Conn
  <2>4. x \in 0..Backoff
    BY <1>2, <2>1, <2>2
  <2>5. conns[s] = IdleConn => x = conns[s].since
    BY <1>2, <2>1 DEF IdleConn
  <2>6. PICK c : c = conns[s]
    OBVIOUS
  <2>7. conns'[s] = Changed(c, x, y) /\ c \in Conn /\ y \in {"down", "up", "dead"} /\ y = c.link
    BY <2>1, <2>2, <2>3, <2>6 DEF Changed
  <2>8. /\ Changed(c, x, y) \in Conn /\ Changed(c, x, y).url = c.url
        /\ Changed(c, x, y).token = c.token /\ Changed(c, x, y).mode = c.mode
        /\ x = c.since /\ y = c.link => Changed(c, x, y) = c
    BY <2>4, <2>7, ConnChanged
  <2> QED BY <2>5, <2>6, <2>7, <2>8
<1>4. ServesTable'
  BY <1>1, <1>3, SameServes
<1>5. conns' \in [ConnSlot -> Conn]
  BY <1>1, <1>3
<1> QED BY <1>1, <1>4, <1>5 DEF ServesInv, PublishTypeOK, Conn

LEMMA LinkServes == ASSUME ServesInv, NEW s \in ConnSlot, LinkDies(s) \/ DeathSeen(s) PROVE ServesInv'
<1>1. PICK y \in {"down", "dead"} : conns' = [conns EXCEPT ![s].link = y]
  BY DEF LinkDies, DeathSeen
<1>2. /\ UNCHANGED <<brokerTable, slotOrder, holding, retainedAt, untold, tableEdits, writes>>
      /\ (breaks' = breaks + 1 \/ breaks' = breaks) /\ conns[s].link # "down"
  BY DEF LinkDies, DeathSeen
<1>3. conns \in [ConnSlot -> Conn]
  BY DEF ServesInv, PublishTypeOK, Conn
<1>4. conns[s] # IdleConn
  BY <1>2 DEF IdleConn
<1>5. conns'[s] \in Conn /\ conns'[s].url = conns[s].url /\ conns'[s].token = conns[s].token /\ conns'[s].mode = conns[s].mode
  <2>1. conns'[s] = [conns[s] EXCEPT !.link = y] /\ conns[s] \in Conn
    BY <1>1, <1>3
  <2>2. PICK c, d : c = conns[s] /\ d = conns'[s]
    OBVIOUS
  <2>3. d = [url |-> c.url, token |-> c.token, mode |-> c.mode, link |-> y, since |-> c.since]
    BY <2>1, <2>2 DEF Conn
  <2> QED BY <2>1, <2>2, <2>3 DEF Conn
<1>6. \A r \in ConnSlot : r # s => conns'[r] = conns[r]
  BY <1>1, <1>3
<1>7. ServesTable'
  BY <1>2, <1>4, <1>5, <1>6, SameServes
<1>8. conns' \in [ConnSlot -> Conn]
  BY <1>1, <1>3, <1>5, <1>6
<1>9. PublishTypeOK'
  BY <1>2, <1>8, TypedNow, TypedNext DEF ServesInv
<1> QED BY <1>7, <1>9 DEF ServesInv

\* A message, a name or a setting, and what is cleared or forgotten.
LEMMA WriteServes == ASSUME ServesInv, NEW t \in Topic, NEW w \in Word \cup {Blank}, Published(t, w) PROVE ServesInv'
<1>1. /\ holding' = [holding EXCEPT ![t] = w] /\ writes' = writes + 1
      /\ retainedAt' = [u \in Url |-> IF u \in ReachedUrls THEN [retainedAt[u] EXCEPT ![t] = w] ELSE retainedAt[u]]
      /\ untold' = [u \in Url |-> IF u \in ReachedUrls THEN untold[u] \ {t}
                                    ELSE IF w = Blank THEN untold[u] \cup {t} ELSE untold[u]]
      /\ UNCHANGED <<brokerTable, conns, slotOrder, tableEdits, breaks>>
  BY DEF Published
<1>2. /\ holding \in [Topic -> Word \cup {Blank}] /\ retainedAt \in [Url -> [Topic -> Word \cup {Blank}]]
      /\ untold \in [Url -> SUBSET Topic]
  BY DEF ServesInv, PublishTypeOK
<1>3. holding' \in [Topic -> Word \cup {Blank}]
  BY <1>1, <1>2
<1>4. retainedAt' \in [Url -> [Topic -> Word \cup {Blank}]]
  BY <1>1, <1>2
<1>5. untold' \in [Url -> SUBSET Topic]
  BY <1>1, <1>2
<1>6. ServesTable'
  BY <1>1 DEF ServesInv, ServesTable, Served, Wanted
<1>7. PublishTypeOK'
  BY <1>1, <1>3, <1>4, <1>5, TypedNow, TypedNext DEF ServesInv
<1> QED BY <1>6, <1>7 DEF ServesInv

LEMMA UnsentServes ==
  ASSUME ServesInv, NEW t \in Topic, SensorForgotten(t) \/ \E w \in Word : RecordTooLarge(t, w)
  PROVE  ServesInv'
<1>1. PICK w \in Word \cup {Blank} :
        /\ holding' = [holding EXCEPT ![t] = w] /\ untold' = [u \in Url |-> untold[u] \cup {t}]
        /\ UNCHANGED <<brokerTable, conns, slotOrder, retainedAt, tableEdits, breaks>>
        /\ writes' \in {writes, writes + 1}
  BY DEF SensorForgotten, RecordTooLarge
<1>2. holding \in [Topic -> Word \cup {Blank}] /\ untold \in [Url -> SUBSET Topic] /\ writes \in Nat
  BY DEF ServesInv, PublishTypeOK
<1>3. holding' \in [Topic -> Word \cup {Blank}]
  BY <1>1, <1>2
<1>4. untold' \in [Url -> SUBSET Topic]
  BY <1>1, <1>2
<1>5. writes' \in Nat
  BY <1>1, <1>2
<1>6. ServesTable'
  BY <1>1 DEF ServesInv, ServesTable, Served, Wanted
<1>7. PublishTypeOK'
  BY <1>1, <1>3, <1>4, <1>5, TypedNow, TypedNext DEF ServesInv
<1> QED BY <1>6, <1>7 DEF ServesInv

LEMMA ServesStep == ServesInv /\ [PublishNext]_publishVars => ServesInv'
<1>1. ASSUME ServesInv, PublishNext PROVE ServesInv'
  <2>1. ASSUME NEW t \in Topic, ClearName(t) \/ SensorForgotten(t) \/ \E w \in Word : Update(t, w) \/ RecordTooLarge(t, w)
        PROVE ServesInv'
    BY <1>1, <2>1, WriteServes, UnsentServes DEF ClearName, Update
  <2>2. ASSUME NEW s \in ConnSlot, LinkDies(s) \/ DeathSeen(s) PROVE ServesInv'
    BY <1>1, <2>2, LinkServes
  <2> QED BY <1>1, <2>1, <2>2, AddServes, RemoveServes, LoopServes, BackoffServes, RestartServes DEF PublishNext
<1>2. ASSUME ServesInv, UNCHANGED publishVars PROVE ServesInv'
  BY <1>2 DEF publishVars, ServesInv, PublishTypeOK, ServesTable, Served, Wanted
<1> QED BY <1>1, <1>2

LEMMA ServesHolds == PublishSpec => []ServesInv
<1> QED BY TableStarts, ServesStep, PTL DEF PublishSpec

\* The table, the connections and what brokers retain are always of their types.
THEOREM PublishTyped == PublishSpec => []PublishTypeOK
<1>1. ServesInv => PublishTypeOK
  BY DEF ServesInv
<1> QED BY <1>1, ServesHolds, PTL

\* For any table, build flag, tokens, edits, lost links and restarts: each row
\* has a connection of its own with its URL and token, in the table's order,
\* and no other connection is in use (begin of mqtt_publish.cpp).
THEOREM TableAlwaysServed == PublishSpec => []ServesTable
<1>1. ServesInv => ServesTable
  BY DEF ServesInv
<1> QED BY <1>1, ServesHolds, PTL

(***************************************************************************)
(* FlashStores.  Between two saves what a load would find is what was      *)
(* answered for, in one key or the other; within a save of a WiFi pair the *)
(* name in flash is still that in memory, so a password can be taken back. *)
(***************************************************************************)
PairSteps == {"put pass", "drop pass", "put ssid", "put open", "restore"}

StepsOK ==
  /\ opened => step # "off" /\ unanswered = Vacant
  /\ step \in PairSteps \cup {"put", "migrate", "forget"} => opened
  /\ step \in PairSteps \cup {"put"} => target \in Held /\ (storeKind = "wifi" <=> step \in PairSteps)
  /\ flash.legacy # Nil => Migrates
  /\ step = "migrate" => flash.legacy # Nil /\ flash.main = Vacant
  /\ step = "forget" => flash.legacy # Nil /\ flash.main # Vacant

AnsweredOK ==
  /\ opened => ram = answered
  /\ ~opened => Loads = answered \/ (unanswered # Vacant /\ Loads = unanswered)
  /\ opened /\ step \in {"idle", "migrate", "forget", "put", "put pass", "drop pass"} => Loads = answered
  /\ step \in {"put ssid", "restore"} => flash.main.ssid = ram.ssid

FlashInv == FlashTypeOK /\ StepsOK /\ (~torn => AnsweredOK)

\* FlashTypeOK in parts, the truth values apart.
Values ==
  /\ storeKind \in Store /\ flash \in [main : Holdable, legacy : Content \cup {Nil}]
  /\ ram \in Holdable /\ target \in Holdable /\ answered \in Holdable /\ unanswered \in Holdable
  /\ saves \in Nat /\ resets \in Nat
Flags == opened \in BOOLEAN /\ torn \in BOOLEAN
StepNamed ==
  step \in {"off", "idle", "migrate", "forget", "put", "put pass", "drop pass", "put ssid", "put open", "restore"}

LEMMA TypeParts == FlashInv => FlashTypeOK /\ Values /\ Flags /\ StepNamed /\ StepsOK
  BY Zenon DEF FlashInv, FlashTypeOK, Values, Flags, StepNamed

LEMMA TypeWhole == ASSUME Values', Flags', StepNamed' PROVE FlashTypeOK'
  BY Zenon DEF FlashTypeOK, Values, Flags, StepNamed

Pair == [ssid : Ssid \cup {Nil}, pass : Pass]

\* A pair is its name and its password.
LEMMA PairParts == ASSUME NEW p \in Pair, NEW q \in Pair, p.ssid = q.ssid, p.pass = q.pass PROVE p = q
  BY DEF Pair

LEMMA HeldIsHeld ==
  /\ Vacant \notin Held /\ Held \cup {Vacant} \subseteq Holdable
  /\ storeKind = "wifi" => Vacant \in Pair /\ Held \subseteq Pair /\ Holdable = Pair /\ ~Migrates
  /\ storeKind # "wifi" => Vacant = Nil /\ Held = Content /\ Holdable = Content \cup {Nil}
<1>1. CASE storeKind = "wifi"
  BY <1>1, FlashAssumption DEF Vacant, Held, Holdable, Pair, Migrates
<1>2. CASE storeKind # "wifi"
  BY <1>2, FlashAssumption DEF Vacant, Held, Holdable
<1> QED BY <1>1, <1>2

\* What a store holds is named by its kind alone.
LEMMA SameKind ==
  ASSUME storeKind' = storeKind
  PROVE Vacant' = Vacant /\ Held' = Held /\ Holdable' = Holdable /\ Migrates' = Migrates
  BY DEF Vacant, Held, Holdable, Migrates

LEMMA FlashStarts == FlashInit => FlashInv
<1> SUFFICES ASSUME FlashInit PROVE FlashInv
  OBVIOUS
<1>1. PICK old \in Held \cup {Vacant}, before \in IF Migrates THEN Content \cup {Nil} ELSE {Nil} :
        /\ flash = [main |-> old, legacy |-> before]
        /\ answered = IF old # Vacant THEN old ELSE IF before = Nil THEN Vacant ELSE before
  BY DEF FlashInit
<1>2. FlashTypeOK
  <2>1. old \in Holdable /\ Vacant \in Holdable /\ before \in Content \cup {Nil}
    BY HeldIsHeld
  <2>2. answered \in Holdable
    BY <1>1, <2>1, HeldIsHeld
  <2>3. opened \in BOOLEAN /\ torn \in BOOLEAN
    BY DEF FlashInit
  <2>4. flash \in [main : Holdable, legacy : Content \cup {Nil}]
    BY <1>1, <2>1
  <2> QED BY <2>1, <2>2, <2>3, <2>4 DEF FlashInit, FlashTypeOK
<1>3. StepsOK
  BY <1>1 DEF FlashInit, StepsOK, PairSteps
<1>4. AnsweredOK
  BY <1>1, HeldIsHeld DEF FlashInit, AnsweredOK, Loads
<1> QED BY <1>2, <1>3, <1>4 DEF FlashInv

LEMMA BeginKeepsFlash == ASSUME FlashInv, NEW works \in BOOLEAN, Begins(works) PROVE FlashInv'
<1>1. UNCHANGED <<storeKind, flash, target, torn, saves, resets>> /\ ~opened
  BY DEF Begins, History, FlashInv, StepsOK
<1>2. Vacant' = Vacant /\ Held' = Held /\ Holdable' = Holdable /\ Migrates' = Migrates /\ Loads' = Loads
  BY <1>1, SameKind DEF Loads
<1>3. FlashTypeOK'
  <2>1. Loads \in Holdable /\ Vacant \in Holdable
    BY TypeParts, HeldIsHeld DEF Values, Loads
  <2>2. Values'
    BY <1>1, <1>2, <2>1, TypeParts DEF Begins, Values
  <2>3. Flags'
    BY <1>1, TypeParts DEF Begins, Flags
  <2>4. StepNamed'
    BY DEF Begins, StepNamed
  <2> QED BY <2>2, <2>3, <2>4, TypeWhole
<1>4. StepsOK'
  BY <1>1, <1>2 DEF Begins, FlashInv, StepsOK, PairSteps
<1>5. ~torn => AnsweredOK'
  BY <1>1, <1>2 DEF Begins, FlashInv, AnsweredOK
<1> QED BY <1>1, <1>3, <1>4, <1>5 DEF FlashInv

LEMMA MigrationKeepsFlash ==
  ASSUME FlashInv, NEW ok \in BOOLEAN, Migrate(ok) \/ ForgetLegacy(ok) PROVE FlashInv'
<1>1. /\ UNCHANGED <<storeKind, ram, opened, target, answered, unanswered, torn, saves, resets>>
      /\ opened /\ Migrates /\ storeKind # "wifi" /\ step' \in {"idle", "forget"}
  BY HeldIsHeld DEF Migrate, ForgetLegacy, History, FlashInv, StepsOK
<1>2. Vacant' = Vacant /\ Vacant = Nil /\ Held' = Held /\ Holdable' = Holdable /\ Migrates' = Migrates
      /\ Holdable = Content \cup {Nil}
  BY <1>1, SameKind, HeldIsHeld
<1>3. /\ flash' \in [main : Holdable, legacy : Content \cup {Nil}]
      /\ step' = "forget" => flash'.legacy # Nil /\ flash'.main # Vacant
      /\ Loads' = Loads
  <2>1. flash \in [main : Content \cup {Nil}, legacy : Content \cup {Nil}]
    BY <1>2, TypeParts DEF Values
  <2>2. CASE Migrate(ok)
    <3>1. flash.legacy # Nil
      BY <2>2 DEF Migrate, FlashInv, StepsOK
    <3>2. CASE ok
      <4>1. flash' = [main |-> flash.legacy, legacy |-> flash.legacy]
        BY <2>1, <2>2, <3>2 DEF Migrate
      <4>2. Loads' = flash.legacy
        BY <1>1, <1>2, <3>1, <4>1 DEF Loads
      <4>3. Loads = flash.legacy
        BY <1>1, <2>2 DEF Migrate, FlashInv, StepsOK, Loads
      <4> QED BY <1>2, <2>1, <3>1, <4>1, <4>2, <4>3
    <3>3. CASE ~ok
      <4>1. flash' = flash /\ step' = "idle"
        BY <2>2, <3>3 DEF Migrate
      <4> QED BY <1>2, <2>1, <4>1 DEF Loads
    <3> QED BY <3>2, <3>3
  <2>3. CASE ForgetLegacy(ok)
    <3>1. step' = "idle" /\ flash.main # Vacant
      BY <2>3 DEF ForgetLegacy, FlashInv, StepsOK
    <3>2. flash' \in [main : Content \cup {Nil}, legacy : Content \cup {Nil}] /\ flash'.main = flash.main
      BY <2>1, <2>3 DEF ForgetLegacy
    <3> QED BY <1>2, <3>1, <3>2 DEF Loads
  <2> QED BY <2>2, <2>3
<1>4. FlashTypeOK'
  <2>1. Values'
    BY <1>1, <1>2, <1>3, TypeParts DEF Values
  <2>2. Flags'
    BY <1>1, TypeParts DEF Flags
  <2>3. StepNamed'
    BY <1>1 DEF StepNamed
  <2> QED BY <2>1, <2>2, <2>3, TypeWhole
<1>5. StepsOK'
  BY <1>1, <1>2, <1>3 DEF FlashInv, StepsOK, PairSteps
<1>6. ASSUME ~torn PROVE AnsweredOK'
  <2>1. ram = answered /\ Loads = answered
    BY <1>1, <1>6 DEF Migrate, ForgetLegacy, FlashInv, AnsweredOK
  <2> QED BY <1>1, <1>3, <2>1 DEF AnsweredOK
<1> QED BY <1>1, <1>4, <1>5, <1>6 DEF FlashInv

LEMMA SetKeepsFlash == ASSUME FlashInv, NEW v \in Held, Sets(v) PROVE FlashInv'
<1>1. UNCHANGED <<storeKind, flash, opened, resets, answered, unanswered, torn>> /\ step = "idle" /\ saves' = saves + 1
  BY DEF Sets
<1>2. Vacant' = Vacant /\ Held' = Held /\ Holdable' = Holdable /\ Migrates' = Migrates /\ Loads' = Loads
  BY <1>1, SameKind DEF Loads
<1>3. \/ /\ opened /\ target' = v /\ ram' = ram
         /\ step' = IF storeKind # "wifi" THEN "put" ELSE IF v.pass = Open THEN "drop pass" ELSE "put pass"
      \/ ~opened /\ ram' = v /\ step' = step /\ target' = target
  BY Zenon DEF Sets
<1>4. FlashTypeOK'
  <2>1. Values'
    <3>1. v \in Holdable
      BY HeldIsHeld
    <3>2. (ram' = ram \/ ram' = v) /\ (target' = target \/ target' = v)
      BY <1>3
    <3> QED BY <1>1, <1>2, <3>1, <3>2, TypeParts DEF Values
  <2>2. Flags'
    BY <1>1, TypeParts DEF Flags
  <2>3. StepNamed'
    BY <1>1, <1>3 DEF StepNamed
  <2> QED BY <2>1, <2>2, <2>3, TypeWhole
<1>5. StepsOK'
  <2>1. CASE opened
    <3>1. unanswered = Vacant /\ (flash.legacy # Nil => Migrates)
      BY <2>1 DEF FlashInv, StepsOK
    <3>2. step' \in PairSteps \cup {"put"} /\ target' \in Held /\ (storeKind = "wifi" <=> step' \in PairSteps)
          /\ step' \notin {"off", "migrate", "forget"}
      BY <1>3, <2>1 DEF PairSteps
    <3> QED BY <1>1, <1>2, <2>1, <3>1, <3>2 DEF StepsOK
  <2>2. CASE ~opened
    BY <1>1, <1>2, <1>3, <2>2 DEF FlashInv, StepsOK
  <2> QED BY <2>1, <2>2
<1>6. ASSUME ~torn PROVE AnsweredOK'
  <2>1. CASE opened
    <3>1. ram = answered /\ Loads = answered
      BY <1>1, <1>6, <2>1 DEF FlashInv, AnsweredOK
    <3>2. step' \notin {"put ssid", "restore"}
      BY <1>3, <2>1
    <3> QED BY <1>1, <1>2, <1>3, <2>1, <3>1, <3>2 DEF AnsweredOK
  <2>2. CASE ~opened
    <3>1. Loads = answered \/ (unanswered # Vacant /\ Loads = unanswered)
      BY <1>6, <2>2 DEF FlashInv, AnsweredOK
    <3> QED BY <1>1, <1>2, <1>3, <2>2, <3>1 DEF AnsweredOK
  <2> QED BY <2>1, <2>2
<1> QED BY <1>1, <1>4, <1>5, <1>6 DEF FlashInv

LEMMA PutKeepsFlash == ASSUME FlashInv, NEW ok \in BOOLEAN, Put(ok) PROVE FlashInv'
<1>1. UNCHANGED <<storeKind, opened, unanswered, saves, resets>> /\ opened /\ step = "put" /\ step' = "idle"
  BY DEF Put, Puts, Returns, History, FlashInv, StepsOK
<1>2. storeKind # "wifi" /\ target \in Content /\ target # Nil
  BY <1>1, FlashAssumption DEF FlashInv, StepsOK, PairSteps, Held
<1>3. Vacant' = Vacant /\ Vacant = Nil /\ Held' = Held /\ Holdable' = Holdable /\ Migrates' = Migrates
      /\ Holdable = Content \cup {Nil}
  BY <1>1, <1>2, SameKind, HeldIsHeld
<1>4. flash' = IF ok THEN [flash EXCEPT !.main = target] ELSE flash
  BY <1>1 DEF Put, Puts, Written
<1>5. FlashTypeOK'
  <2>1. ram' \in {ram, target} /\ answered' \in {answered, target} /\ target' = Vacant
    BY DEF Put, Returns, Undone
  <2>2. Values'
    BY <1>1, <1>2, <1>3, <1>4, <2>1, TypeParts DEF Values
  <2>3. Flags'
    <3>1. torn' \in BOOLEAN
      BY DEF Put
    <3> QED BY <1>1, <3>1, TypeParts DEF Flags
  <2>4. StepNamed'
    BY <1>1 DEF StepNamed
  <2> QED BY <2>2, <2>3, <2>4, TypeWhole
<1>6. flash'.legacy = flash.legacy
  BY <1>4 DEF FlashInv, FlashTypeOK
<1>7. StepsOK'
  BY <1>1, <1>3, <1>6 DEF FlashInv, StepsOK, PairSteps
<1>8. ~torn' => AnsweredOK'
  <2>1. CASE ok
    <3>1. Loads' = target
      BY <1>2, <1>3, <1>4, <2>1 DEF FlashInv, FlashTypeOK, Loads
    <3> QED BY <1>1, <2>1, <3>1 DEF Put, Returns, AnsweredOK
  <2>2. CASE ~ok /\ ~torn /\ storeKind # "zone"
    <3>1. Loads' = Loads
      BY <1>3, <1>4, <2>2 DEF Loads
    <3> QED BY <1>1, <2>2, <3>1 DEF Put, Returns, Undone, FlashInv, AnsweredOK
  <2> QED BY <2>1, <2>2 DEF Put
<1> QED BY <1>5, <1>7, <1>8 DEF FlashInv

\* The pair in flash once one of its keys is written.
LEMMA PairWritten ==
  ASSUME FlashInv, step \in PairSteps
  PROVE /\ storeKind = "wifi" /\ opened /\ target \in Pair /\ ram \in Pair /\ flash.main \in Pair
        /\ ~Migrates /\ Loads = flash.main
        /\ Written \in [main : Pair, legacy : Content \cup {Nil}] /\ Written.legacy = flash.legacy
        /\ step \in {"put pass", "drop pass"} =>
             Written.main.pass = target.pass /\ Written.main.ssid = flash.main.ssid
        /\ step \in {"put ssid", "put open"} =>
             Written.main.pass = flash.main.pass /\ Written.main.ssid = target.ssid
        /\ step = "restore" =>
             Written.main.pass = ram.pass /\ Written.main.ssid = flash.main.ssid
<1>1. storeKind = "wifi" /\ opened /\ target \in Pair /\ ram \in Pair /\ flash.main \in Pair /\ ~Migrates
  <2>1. storeKind = "wifi" /\ opened /\ target \in Held
    BY Zenon DEF FlashInv, StepsOK, PairSteps
  <2> QED BY <2>1, TypeParts, HeldIsHeld DEF Values
<1>2. Loads = flash.main
  BY <1>1 DEF Loads
<1>3. flash \in [main : Pair, legacy : Content \cup {Nil}]
  BY <1>1, TypeParts, HeldIsHeld DEF Values
<1>4. CASE step \in {"put pass", "drop pass"}
  <2>1. Written = [flash EXCEPT !.main = [@ EXCEPT !.pass = target.pass]]
    BY <1>4 DEF Written
  <2> QED BY <1>1, <1>2, <1>3, <1>4, <2>1 DEF Pair
<1>5. CASE step \in {"put ssid", "put open"}
  <2>1. Written = [flash EXCEPT !.main = [@ EXCEPT !.ssid = target.ssid]]
    BY <1>5 DEF Written
  <2> QED BY <1>1, <1>2, <1>3, <1>5, <2>1 DEF Pair
<1>6. CASE step = "restore"
  <2>1. Written = [flash EXCEPT !.main = [@ EXCEPT !.pass = ram.pass]]
    BY <1>6 DEF Written
  <2> QED BY <1>1, <1>2, <1>3, <1>6, <2>1 DEF Pair
<1> QED BY <1>4, <1>5, <1>6 DEF PairSteps

\* What a step of a WiFi save leaves as it should be, whatever it is.
LEMMA PairKeepsTypes ==
  ASSUME FlashInv, step \in PairSteps, NEW ok \in BOOLEAN,
         flash' = IF ok THEN Written ELSE flash, UNCHANGED <<opened, unanswered, storeKind, saves, resets>>,
         ram' \in {ram, target}, answered' \in {answered, target}, torn' \in BOOLEAN,
         \/ step' \in PairSteps /\ target' = target
         \/ step' = "idle" /\ target' = Vacant
  PROVE FlashTypeOK' /\ StepsOK'
<1>1. Vacant' = Vacant /\ Held' = Held /\ Holdable' = Holdable /\ Migrates' = Migrates
  BY SameKind
<1>2. Holdable = Pair /\ Vacant \in Pair
  BY PairWritten, HeldIsHeld
<1>3. flash' \in [main : Pair, legacy : Content \cup {Nil}] /\ flash'.legacy = flash.legacy
  BY <1>2, PairWritten, TypeParts DEF Values
<1>4. FlashTypeOK'
  <2>1. ram' \in Pair /\ answered' \in Pair /\ target' \in Pair
    BY <1>2, PairWritten, TypeParts DEF Values
  <2>2. Values'
    BY <1>1, <1>2, <1>3, <2>1, TypeParts DEF Values
  <2>3. Flags'
    BY TypeParts DEF Flags
  <2>4. StepNamed'
    BY DEF StepNamed, PairSteps
  <2> QED BY <2>2, <2>3, <2>4, TypeWhole
<1>5. StepsOK'
  BY <1>1, <1>3, PairWritten DEF FlashInv, StepsOK, PairSteps
<1> QED BY <1>4, <1>5

LEMMA PutPassKeepsFlash == ASSUME FlashInv, NEW ok \in BOOLEAN, PutPass(ok) PROVE FlashInv'
<1>1. step \in PairSteps /\ step \in {"put pass", "drop pass"}
  BY DEF PutPass, Puts, PairSteps
<1>2. FlashTypeOK' /\ StepsOK'
  <2>1. /\ flash' = IF ok THEN Written ELSE flash
        /\ UNCHANGED <<opened, unanswered, storeKind, saves, resets, ram, torn>>
    BY DEF PutPass, Puts, History
  <2>2. \/ step' \in PairSteps /\ target' = target
        \/ step' = "idle" /\ target' = Vacant
    BY DEF PutPass, GoesOn, Returns, PairSteps
  <2>3. answered' \in {answered, target} /\ torn' \in BOOLEAN
    BY <2>1 DEF PutPass, GoesOn, Returns, FlashInv, FlashTypeOK
  <2> QED BY <1>1, <2>1, <2>2, <2>3, PairKeepsTypes
<1>3. ASSUME ~torn' PROVE AnsweredOK'
  <2>1. ~torn /\ ram' = ram /\ answered' = answered /\ opened' /\ ram = answered /\ flash.main = answered
    BY <1>1, <1>3, PairWritten DEF PutPass, Puts, GoesOn, Returns, FlashInv, AnsweredOK
  <2>2. CASE step' = "idle"
    <3>1. flash' = flash /\ storeKind' = storeKind
      BY <2>2 DEF PutPass, Puts, GoesOn, History
    <3>2. Loads' = Loads
      BY <3>1 DEF Loads, Vacant, Migrates
    <3> QED BY <1>1, <2>1, <2>2, <3>2, PairWritten DEF AnsweredOK
  <2>3. CASE step' = "put ssid"
    <3>1. flash'.main.ssid = flash.main.ssid
      BY <1>1, <2>3, PairWritten DEF PutPass, Puts
    <3> QED BY <2>1, <2>3, <3>1 DEF AnsweredOK
  <2>4. CASE step' = "put open"
    BY <2>1, <2>4 DEF AnsweredOK
  <2> QED BY <2>2, <2>3, <2>4 DEF PutPass, GoesOn, Returns
<1> QED BY <1>2, <1>3 DEF FlashInv

LEMMA PutSsidKeepsFlash == ASSUME FlashInv, NEW ok \in BOOLEAN, PutSsid(ok) PROVE FlashInv'
<1>1. step \in PairSteps /\ step \in {"put ssid", "put open"}
  BY DEF PutSsid, Puts, PairSteps
<1>2. FlashTypeOK' /\ StepsOK'
  <2>1. /\ flash' = IF ok THEN Written ELSE flash
        /\ UNCHANGED <<opened, unanswered, storeKind, saves, resets>>
        /\ ram' \in {ram, target}
    BY DEF PutSsid, Puts, History
  <2>2. \/ step' \in PairSteps /\ target' = target
        \/ step' = "idle" /\ target' = Vacant
    BY DEF PutSsid, GoesOn, Returns, PairSteps
  <2>3. answered' \in {answered, target}
    BY DEF PutSsid, GoesOn, Returns
  <2>4. torn' \in BOOLEAN
    BY DEF PutSsid, FlashInv, FlashTypeOK
  <2> QED BY <1>1, <2>1, <2>2, <2>3, <2>4, PairKeepsTypes
<1>3. ASSUME ~torn' PROVE AnsweredOK'
  <2>1. CASE ok
    <3>1. flash' = Written /\ ram' = target /\ answered' = target /\ step' = "idle" /\ storeKind' = storeKind
          /\ opened' = opened /\ flash.main.pass = target.pass
      BY <1>3, <2>1 DEF PutSsid, Puts, Returns, History
    <3>2. Written.main = target
      BY <1>1, <3>1, PairWritten, PairParts
    <3>3. Loads' = target
      BY <1>1, <3>1, <3>2, PairWritten DEF Loads, Migrates
    <3> QED BY <1>1, <3>1, <3>3, PairWritten DEF AnsweredOK
  <2>2. CASE ~ok /\ step = "put ssid" /\ ~torn
    <3>1. flash' = flash /\ ram' = ram /\ answered' = answered /\ step' = "restore" /\ opened' = opened
      BY <2>2 DEF PutSsid, Puts, GoesOn
    <3> QED BY <1>1, <2>2, <3>1, PairWritten DEF AnsweredOK, FlashInv
  <2> QED BY <1>3, <2>1, <2>2 DEF PutSsid, Puts
<1> QED BY <1>2, <1>3 DEF FlashInv

LEMMA RestoreKeepsFlash == ASSUME FlashInv, NEW ok \in BOOLEAN, RestorePass(ok) PROVE FlashInv'
<1>1. step \in PairSteps /\ step = "restore"
  BY DEF RestorePass, Puts, PairSteps
<1>2. /\ flash' = IF ok THEN Written ELSE flash
      /\ UNCHANGED <<opened, unanswered, storeKind, saves, resets, ram, answered>>
      /\ step' = "idle" /\ target' = Vacant
  BY DEF RestorePass, Puts, History, Returns
<1>3. torn' \in BOOLEAN
  BY DEF RestorePass, FlashInv, FlashTypeOK
<1>4. FlashTypeOK' /\ StepsOK'
  BY <1>1, <1>2, <1>3, PairKeepsTypes
<1>5. ASSUME ~torn' PROVE AnsweredOK'
  <2>1. ~torn /\ ok
    BY <1>5 DEF RestorePass
  <2>2. ram = answered /\ flash.main.ssid = ram.ssid
    BY <1>1, <2>1, PairWritten DEF FlashInv, AnsweredOK
  <2>3. Written.main = ram
    BY <1>1, <2>2, PairWritten, PairParts
  <2>4. Loads' = ram
    BY <1>1, <1>2, <2>1, <2>3, PairWritten DEF Loads, Migrates
  <2> QED BY <1>1, <1>2, <2>2, <2>4, PairWritten DEF AnsweredOK
<1> QED BY <1>4, <1>5 DEF FlashInv

LEMMA ClearKeepsFlash ==
  ASSUME FlashInv, NEW ok \in BOOLEAN, NEW passToo \in BOOLEAN, Clears(ok, passToo) PROVE FlashInv'
<1>1. UNCHANGED <<storeKind, opened, step, target, resets, unanswered>> /\ step = "idle" /\ ~Migrates
  BY DEF Clears, Secret, Migrates
<1>2. Vacant' = Vacant /\ Held' = Held /\ Holdable' = Holdable /\ Migrates' = Migrates
  BY <1>1, SameKind
<1>3. ram' = Vacant /\ answered' = IF opened THEN Vacant ELSE answered
  BY DEF Clears
<1>4. CASE storeKind = "wifi"
  <2>1. flash \in [main : Pair, legacy : Content \cup {Nil}] /\ Vacant \in Pair /\ Vacant = [ssid |-> Nil, pass |-> Open]
        /\ Holdable = Pair
    BY <1>4, TypeParts, HeldIsHeld DEF Values, Vacant
  <2>2. flash' = IF ~opened THEN flash
                 ELSE [flash EXCEPT !.main = [ssid |-> IF ok THEN Nil ELSE @.ssid,
                                              pass |-> IF passToo THEN Open ELSE @.pass]]
    BY <1>4 DEF Clears
  <2>3. flash' \in [main : Pair, legacy : Content \cup {Nil}] /\ flash'.legacy = flash.legacy
    BY <2>1, <2>2, FlashAssumption DEF Pair
  <2>4. FlashTypeOK'
    <3>1. Values'
      BY <1>1, <1>2, <1>3, <2>1, <2>3, TypeParts DEF Clears, Values
    <3>2. torn' \in BOOLEAN
      <4>1. CASE opened
        BY <4>1, Zenon DEF Clears
      <4>2. CASE ~opened
        BY <4>2, TypeParts DEF Clears, Flags
      <4> QED BY <4>1, <4>2
    <3>3. Flags'
      BY <1>1, <3>2, TypeParts DEF Flags
    <3>4. StepNamed'
      BY <1>1 DEF StepNamed
    <3> QED BY <3>1, <3>3, <3>4, TypeWhole
  <2>5. StepsOK'
    BY <1>1, <1>2, <2>3 DEF FlashInv, StepsOK, PairSteps
  <2>6. ~torn' => AnsweredOK'
    <3>1. CASE opened
      <4>1. ASSUME ~torn' PROVE ok /\ passToo
        BY <1>4, <3>1, <4>1 DEF Clears
      <4>2. ASSUME ~torn' PROVE flash'.main = Vacant
        BY <2>1, <2>2, <3>1, <4>1, <4>2
      <4> QED BY <1>1, <1>2, <1>3, <3>1, <4>2 DEF AnsweredOK, Loads
    <3>2. CASE ~opened
      <4>1. flash' = flash /\ torn' = torn /\ Loads' = Loads
        BY <1>2, <2>2, <3>2 DEF Clears, Loads
      <4> QED BY <1>1, <1>2, <1>3, <3>2, <4>1 DEF FlashInv, AnsweredOK
    <3> QED BY <3>1, <3>2
  <2> QED BY <2>4, <2>5, <2>6 DEF FlashInv
<1>5. CASE storeKind = "token"
  <2>1. flash \in [main : Content \cup {Nil}, legacy : Content \cup {Nil}] /\ Vacant = Nil
        /\ Holdable = Content \cup {Nil}
    BY <1>5, TypeParts, HeldIsHeld DEF Values
  <2>2. flash' = IF opened /\ ok THEN [flash EXCEPT !.main = Nil] ELSE flash
    BY <1>5, <2>1 DEF Clears
  <2>3. flash' \in [main : Content \cup {Nil}, legacy : Content \cup {Nil}] /\ flash'.legacy = flash.legacy
    BY <2>1, <2>2
  <2>4. FlashTypeOK'
    <3>1. Values'
      BY <1>1, <1>2, <1>3, <2>1, <2>3, TypeParts DEF Clears, Values
    <3>2. torn' \in BOOLEAN
      <4>1. CASE opened
        BY <4>1, Zenon DEF Clears
      <4>2. CASE ~opened
        BY <4>2, TypeParts DEF Clears, Flags
      <4> QED BY <4>1, <4>2
    <3>3. Flags'
      BY <1>1, <3>2, TypeParts DEF Flags
    <3>4. StepNamed'
      BY <1>1 DEF StepNamed
    <3> QED BY <3>1, <3>3, <3>4, TypeWhole
  <2>5. StepsOK'
    BY <1>1, <1>2, <2>3 DEF FlashInv, StepsOK, PairSteps
  <2>6. ~torn' => AnsweredOK'
    <3>1. CASE opened
      <4>1. ASSUME ~torn' PROVE flash'.main = Vacant
        BY <2>1, <2>2, <3>1, <4>1 DEF Clears
      <4> QED BY <1>1, <1>2, <1>3, <3>1, <4>1 DEF AnsweredOK, Loads
    <3>2. CASE ~opened
      <4>1. flash' = flash /\ torn' = torn /\ Loads' = Loads
        BY <1>2, <2>2, <3>2 DEF Clears, Loads
      <4> QED BY <1>1, <1>2, <1>3, <3>2, <4>1 DEF FlashInv, AnsweredOK
    <3> QED BY <3>1, <3>2
  <2> QED BY <2>4, <2>5, <2>6 DEF FlashInv
<1> QED BY <1>4, <1>5 DEF Clears, Secret

LEMMA ResetKeepsFlash == FlashInv /\ (PowerLost \/ LostBeforeAnswer) => FlashInv'
<1> SUFFICES ASSUME FlashInv, PowerLost \/ LostBeforeAnswer PROVE FlashInv'
  OBVIOUS
<1>1. /\ UNCHANGED <<storeKind, saves, answered>>
      /\ step' = "off" /\ ram' = Vacant /\ opened' = FALSE /\ target' = Vacant /\ resets' = resets + 1
  BY DEF PowerLost, LostBeforeAnswer, Reset
<1>2. Vacant' = Vacant /\ Held' = Held /\ Holdable' = Holdable /\ Migrates' = Migrates
      /\ Vacant \in Holdable /\ resets' \in Nat /\ opened' \in BOOLEAN /\ StepNamed'
  <2>1. resets' \in Nat
    BY <1>1, TypeParts DEF Values
  <2>2. opened' \in BOOLEAN /\ StepNamed'
    BY <1>1 DEF StepNamed
  <2> QED BY <1>1, <2>1, <2>2, SameKind, HeldIsHeld
<1>3. CASE PowerLost
  <2>1. flash' = flash /\ unanswered' = unanswered /\ Loads' = Loads
        /\ torn' = (torn \/ step \in {"put ssid", "put open", "restore"})
    BY <1>2, <1>3 DEF PowerLost, Loads
  <2>2. FlashTypeOK'
    <3>1. Values'
      BY <1>1, <1>2, <2>1, TypeParts DEF Values
    <3>2. Flags'
      BY <1>2, <2>1, TypeParts DEF Flags
    <3> QED BY <1>2, <3>1, <3>2, TypeWhole
  <2>3. StepsOK'
    BY <1>1, <1>2, <2>1 DEF FlashInv, StepsOK, PairSteps
  <2>4. ASSUME ~torn' PROVE AnsweredOK'
    <3>1. ~torn /\ step \notin {"put ssid", "put open", "restore"}
      BY <2>1, <2>4
    <3>2. CASE opened
      <4>1. Loads = answered
        BY <3>1, <3>2, TypeParts DEF FlashInv, AnsweredOK, StepNamed, StepsOK
      <4> QED BY <1>1, <2>1, <4>1 DEF AnsweredOK
    <3>3. CASE ~opened
      <4>1. Loads = answered \/ (unanswered # Vacant /\ Loads = unanswered)
        BY <3>1, <3>3 DEF FlashInv, AnsweredOK
      <4> QED BY <1>1, <1>2, <2>1, <4>1 DEF AnsweredOK
    <3> QED BY <3>2, <3>3
  <2> QED BY <2>2, <2>3, <2>4 DEF FlashInv
<1>4. CASE LostBeforeAnswer
  <2>1. flash' = Written /\ unanswered' = target /\ torn' = (step # "put" /\ flash.main.pass # target.pass)
    BY <1>4 DEF LostBeforeAnswer
  <2>2. CASE step = "put"
    <3>1. storeKind # "wifi" /\ target \in Held /\ target # Nil /\ target \in Content /\ Vacant = Nil
          /\ Holdable = Content \cup {Nil}
      BY <2>2, FlashAssumption, HeldIsHeld DEF FlashInv, StepsOK, PairSteps
    <3>2. flash' = [flash EXCEPT !.main = target]
      BY <2>1, <2>2 DEF Written
    <3>3. FlashTypeOK'
      <4>1. Values'
        BY <1>1, <1>2, <2>1, <3>1, <3>2, TypeParts DEF Values
      <4>2. Flags'
        BY <1>2, <2>1 DEF Flags
      <4> QED BY <1>2, <4>1, <4>2, TypeWhole
    <3>4. flash'.legacy = flash.legacy /\ flash'.main = target
      BY <3>2 DEF FlashInv, FlashTypeOK
    <3>5. StepsOK'
      BY <1>1, <1>2, <3>4 DEF FlashInv, StepsOK, PairSteps
    <3>6. AnsweredOK'
      BY <1>1, <1>2, <2>1, <3>1, <3>4 DEF AnsweredOK, Loads
    <3> QED BY <3>3, <3>5, <3>6 DEF FlashInv
  <2>3. CASE step \in {"put ssid", "put open"}
    <3>1. step \in PairSteps
      BY <2>3 DEF PairSteps
    <3>2. target \in Held /\ Vacant \in Pair /\ target # Vacant
      BY <3>1, PairWritten, HeldIsHeld DEF FlashInv, StepsOK
    <3>3. flash' \in [main : Pair, legacy : Content \cup {Nil}]
      BY <2>1, <3>1, PairWritten
    <3>4. FlashTypeOK'
      <4>1. Holdable = Pair
        BY <3>1, PairWritten, HeldIsHeld
      <4>2. Values'
        BY <1>1, <1>2, <2>1, <3>3, <4>1, TypeParts DEF Values
      <4>3. Flags'
        BY <1>2, <2>1 DEF Flags
      <4> QED BY <1>2, <4>2, <4>3, TypeWhole
    <3>5. StepsOK'
      BY <1>1, <1>2, <2>1, <3>1, PairWritten DEF FlashInv, StepsOK, PairSteps
    <3>6. ASSUME ~torn' PROVE AnsweredOK'
      <4>1. Written.main.pass = target.pass /\ Written.main.ssid = target.ssid
        BY <2>1, <2>3, <3>1, <3>6, PairWritten
      <4>2. Written.main = target
        BY <3>1, <4>1, PairWritten, PairParts
      <4>3. Loads' = target
        BY <1>1, <1>2, <2>1, <3>1, <4>2, PairWritten DEF Loads
      <4> QED BY <1>1, <1>2, <2>1, <3>2, <4>3 DEF AnsweredOK
    <3> QED BY <3>4, <3>5, <3>6 DEF FlashInv
  <2> QED BY <1>4, <2>2, <2>3 DEF LostBeforeAnswer
<1> QED BY <1>3, <1>4

LEMMA FlashInductive == FlashSpec => []FlashInv
<1>1. FlashInv /\ [FlashNext]_flashVars => FlashInv'
  <2>1. FlashInv /\ FlashNext => FlashInv'
    BY BeginKeepsFlash, MigrationKeepsFlash, SetKeepsFlash, PutKeepsFlash, PutPassKeepsFlash,
       PutSsidKeepsFlash, RestoreKeepsFlash, ClearKeepsFlash, ResetKeepsFlash DEF FlashNext
  <2>2. ASSUME FlashInv, UNCHANGED flashVars PROVE FlashInv'
    <3>1. Vacant' = Vacant /\ Held' = Held /\ Holdable' = Holdable /\ Migrates' = Migrates /\ Loads' = Loads
      BY <2>2, SameKind DEF flashVars, Loads
    <3> QED BY <2>2, <3>1, Zenon DEF flashVars, FlashInv, FlashTypeOK, StepsOK, AnsweredOK
  <2> QED BY <2>1, <2>2
<1> QED BY <1>1, FlashStarts, PTL DEF FlashSpec

\* What a store and its flash hold is always one of what they may hold.
THEOREM FlashTyped == FlashSpec => []FlashTypeOK
<1>1. FlashInv => FlashTypeOK
  BY DEF FlashInv
<1> QED BY <1>1, FlashInductive, PTL

\* However writes fail and wherever resets fall: a store that has its flash
\* holds what its last save was answered for.
THEOREM AnsweredAlwaysKept == FlashSpec => []AnsweredIsKept
<1>1. FlashInv => AnsweredIsKept
  BY DEF FlashInv, AnsweredOK, AnsweredIsKept
<1> QED BY <1>1, FlashInductive, PTL

(***************************************************************************)
(* RainHooks.  A slot is never of a day to come, nor two of one gauge; one *)
(* of today counts from no earlier than the gauge's first reading of today *)
(* (TodaysSlots), and as long as no more gauges than slots are read on the *)
(* day, each keeps its own until a restart or a new battery (AllKept): to  *)
(* take a slot of today, all must be of today and of other gauges, which   *)
(* with this one are too many.                                             *)
(***************************************************************************)
OfToday(i) == rain[i] # NoRain /\ rain[i].day = today

SlotsKnown ==
  /\ \A i \in RainSlot : rain[i] # NoRain => rain[i].day <= today \/ rain[i].day <= rezoned
  /\ \A i, j \in RainSlot : rain[i] # NoRain /\ rain[j] # NoRain /\ rain[i].key = rain[j].key => i = j

Unread == \A g \in Gauge : g \notin readToday => fallen[g] = 0

TodaysSlots ==
  today > rezoned => \A i \in RainSlot : OfToday(i) =>
    rain[i].key \in readToday /\ counter[rain[i].key] - rain[i].baseline <= fallen[rain[i].key]

KeptFor(g, i) ==
  OfToday(i) /\ rain[i].key = g /\ counter[g] = rain[i].baseline + fallen[g]

AllKept ==
  today > rezoned /\ Cardinality(readToday) <= RainSlots =>
    \A g \in readToday \ begunAgain : \E i \in RainSlot : KeptFor(g, i)

RainInv == RainTypeOK /\ RainOfToday /\ SlotsKnown /\ Unread /\ TodaysSlots /\ AllKept

\* A gauge read again leaves the others' slots; one that is new to the day can
\* only be given a slot of today when there are more gauges than slots.
LEMMA ReadSetsGrow ==
  ASSUME NEW R \in SUBSET Gauge, NEW g \in Gauge
  PROVE  /\ IsFiniteSet(R) /\ Cardinality(R) \in Nat
         /\ Cardinality(R) <= Cardinality(R \cup {g})
         /\ g \notin R => Cardinality(R \cup {g}) = Cardinality(R) + 1
<1>1. IsFiniteSet(R)
  BY RainAssumption, FS_Subset
<1>2. Cardinality(R) \in Nat
  BY <1>1, FS_CardinalityType
<1>3. Cardinality(R \cup {g}) = IF g \in R THEN Cardinality(R) ELSE Cardinality(R) + 1
  BY <1>1, FS_AddElement
<1> QED BY <1>1, <1>2, <1>3

LEMMA ClaimedIsFreeOrOldest ==
  ASSUME RainInv, NEW i \in claimRain
  PROVE  /\ i \in RainSlot
         /\ rain[i] = NoRain \/ \A j \in RainSlot : rain[j] # NoRain /\ rain[i].day <= rain[j].day
BY DEF claimRain

LEMMA FullOfToday ==
  ASSUME RainInv, today > rezoned, NEW i \in claimRain, OfToday(i), NEW g \in Gauge, findRain(g) = {}
  PROVE  Cardinality(readToday \ {g}) >= RainSlots
<1>1. \A j \in RainSlot : OfToday(j)
  <2> SUFFICES ASSUME NEW j \in RainSlot PROVE OfToday(j)
    OBVIOUS
  <2>1. rain[j] # NoRain /\ rain[i].day <= rain[j].day
    BY ClaimedIsFreeOrOldest DEF OfToday
  <2>2. rain[j].day \in Nat
    BY <2>1 DEF RainInv, RainTypeOK
  <2> QED BY <2>1, <2>2 DEF RainInv, RainTypeOK, SlotsKnown, OfToday
<1> DEFINE keyOf == [j \in RainSlot |-> rain[j].key]
<1>2. keyOf \in Injection(RainSlot, readToday \ {g})
  BY <1>1 DEF findRain, RainInv, SlotsKnown, TodaysSlots, OfToday, Injection, IsInjective
<1>3. IsFiniteSet(readToday \ {g})
  BY RainAssumption, FS_Subset DEF RainInv, RainTypeOK
<1>4. Cardinality(RainSlot) = RainSlots
  BY FS_Interval, RainAssumption DEF RainSlot
<1>5. Cardinality(RainSlot) <= Cardinality(readToday \ {g})
  BY <1>2, <1>3, FS_Injection
<1> QED BY <1>3, <1>4, <1>5, RainAssumption, FS_CardinalityType

LEMMA RainStarts == RainInit => RainInv
<1> SUFFICES ASSUME RainInit PROVE RainInv
  OBVIOUS
<1>1. RainTypeOK
  <2>1. rain \in [RainSlot -> [key : Gauge, baseline : Nat, day : Nat \ {0}] \cup {NoRain}]
    BY DEF RainInit
  <2>2. today \in Nat \ {0} /\ rezoned \in Nat /\ rains \in Nat /\ nights \in Nat /\ mishaps \in Nat
    BY DEF RainInit
  <2>3. counter \in [Gauge -> Nat] /\ fallen \in [Gauge -> Nat]
    BY DEF RainInit
  <2>4. synced \in BOOLEAN /\ readToday \subseteq Gauge /\ begunAgain \subseteq Gauge /\ said = NoRain
    BY Zenon DEF RainInit
  <2> QED BY <2>1, <2>2, <2>3, <2>4 DEF RainTypeOK
<1>2. \A i \in RainSlot : rain[i] = NoRain
  BY DEF RainInit
<1> QED BY <1>1, <1>2 DEF RainInit, RainInv, RainOfToday, SlotsKnown, Unread, TodaysSlots, AllKept, OfToday

\* What a reading does where the gauge starts from here: in a slot of its own,
\* or else in one that was claimed.
LEMMA StartKeepsRain ==
  ASSUME RainInv, NEW g \in Gauge, NEW i \in RainSlot, today # 0,
         rain' = [rain EXCEPT ![i] = [key |-> g, baseline |-> counter[g], day |-> today]],
         Says(g, 0),
         UNCHANGED <<today, synced, counter, fallen, begunAgain, rezoned, rains, nights, mishaps>>,
         \/ findRain(g) = {} /\ i \in claimRain
         \/ i \in findRain(g) /\ (today # rain[i].day \/ counter[g] < rain[i].baseline)
  PROVE  RainInv'
<1> DEFINE new == [key |-> g, baseline |-> counter[g], day |-> today]
<1>t. /\ rain \in [RainSlot -> [key : Gauge, baseline : Nat, day : Nat \ {0}] \cup {NoRain}]
      /\ counter \in [Gauge -> Nat] /\ fallen \in [Gauge -> Nat] /\ today \in Nat \ {0} /\ rezoned \in Nat
      /\ readToday \in SUBSET Gauge
  BY DEF RainInv, RainTypeOK
<1>n. new \in [key : Gauge, baseline : Nat, day : Nat \ {0}] /\ new # NoRain
  BY <1>t, RainAssumption
<1>r. rain'[i] = new /\ \A j \in RainSlot : j # i => rain'[j] = rain[j]
  BY <1>t
<1>e. readToday' = readToday \cup {g}
  BY DEF Says
<1>o. \A j \in RainSlot : j # i /\ rain[j] # NoRain => rain[j].key # g
  BY DEF RainInv, SlotsKnown, findRain
<1>c. /\ Cardinality(readToday) \in Nat /\ Cardinality(readToday') \in Nat /\ Cardinality(readToday \ {g}) \in Nat
      /\ Cardinality(readToday) <= Cardinality(readToday')
      /\ Cardinality(readToday') = Cardinality(readToday \ {g}) + 1
  <2>1. readToday' \in SUBSET Gauge /\ readToday \ {g} \in SUBSET Gauge
    BY <1>e, <1>t
  <2>2. Cardinality((readToday \ {g}) \cup {g}) = Cardinality(readToday \ {g}) + 1
    BY <2>1, ReadSetsGrow
  <2>3. (readToday \ {g}) \cup {g} = readToday'
    BY <1>e
  <2> QED BY <2>1, <2>2, <2>3, <1>e, <1>t, ReadSetsGrow
<1>1. \* nobody else loses a slot
      ASSUME today > rezoned, Cardinality(readToday') <= RainSlots
      PROVE  /\ g \in readToday => g \in begunAgain
             /\ \A h \in readToday \ begunAgain : h # g => \E j \in RainSlot : j # i /\ KeptFor(h, j)
  <2>1. Cardinality(readToday) <= RainSlots
    BY <1>1, <1>c, RainAssumption
  <2>2. \A h \in readToday \ begunAgain : \E j \in RainSlot : KeptFor(h, j)
    BY <1>1, <2>1 DEF RainInv, AllKept
  <2>3. g \in readToday => g \in begunAgain
    <3> SUFFICES ASSUME g \in readToday, g \notin begunAgain PROVE FALSE
      OBVIOUS
    <3>1. PICK j \in RainSlot : KeptFor(g, j)
      BY <2>2
    <3>2. j = i
      BY <3>1, <1>o DEF KeptFor, OfToday
    <3>3. i \in findRain(g)
      BY <3>1, <3>2 DEF KeptFor, OfToday, findRain
    <3> QED BY <3>1, <3>2, <3>3, <1>t DEF KeptFor, OfToday
  <2>4. ASSUME NEW h \in readToday \ begunAgain, h # g PROVE \E j \in RainSlot : j # i /\ KeptFor(h, j)
    <3>1. PICK j \in RainSlot : KeptFor(h, j)
      BY <2>2
    <3>2. j # i
      <4> SUFFICES ASSUME j = i PROVE FALSE
        OBVIOUS
      <4>1. rain[i] # NoRain /\ rain[i].key = h /\ OfToday(i)
        BY <3>1 DEF KeptFor, OfToday
      <4>2. i \notin findRain(g)
        BY <4>1, <2>4 DEF findRain
      <4>3. i \in claimRain /\ findRain(g) = {}
        BY <4>2
      <4>4. Cardinality(readToday \ {g}) >= RainSlots
        BY <4>1, <4>3, <1>1, FullOfToday
      <4> QED BY <4>4, <1>c, <1>1, RainAssumption
    <3> QED BY <3>1, <3>2
  <2> QED BY <2>3, <2>4
<1>2. RainTypeOK'
  <2>1. rain' \in [RainSlot -> [key : Gauge, baseline : Nat, day : Nat \ {0}] \cup {NoRain}]
    BY <1>t, <1>n
  <2>2. readToday' \subseteq Gauge
    BY <1>t, <1>e
  <2>3. said' \in [says : Nat, is : Nat, exact : BOOLEAN] \cup {NoRain}
    BY <1>t DEF Says
  <2> QED BY <2>1, <2>2, <2>3 DEF RainInv, RainTypeOK
<1>3. RainOfToday'
  <2> SUFFICES ASSUME said' # NoRain PROVE said'.says <= said'.is /\ (said'.exact => said'.says = said'.is)
    BY DEF RainOfToday
  <2>1. ~(today <= rezoned) /\ said' = [says |-> 0, is |-> fallen[g], exact |-> g \notin begunAgain /\ Cardinality(readToday') <= RainSlots]
    BY DEF Says
  <2>2. said'.says = 0 /\ said'.is = fallen[g] /\ fallen[g] \in Nat
    BY <2>1, <1>t
  <2>3. said'.exact => g \notin begunAgain /\ Cardinality(readToday') <= RainSlots
    BY <2>1
  <2>4. said'.exact => g \notin readToday
    BY <2>1, <2>3, <1>1, <1>t
  <2>5. said'.exact => fallen[g] = 0
    BY <2>4 DEF RainInv, Unread
  <2> QED BY <2>2, <2>5
<1>4. SlotsKnown'
  <2>1. \A j \in RainSlot : rain'[j] # NoRain => rain'[j].day <= today' \/ rain'[j].day <= rezoned'
    BY <1>r, <1>t DEF RainInv, SlotsKnown
  <2>2. \A j, k \in RainSlot : rain'[j] # NoRain /\ rain'[k] # NoRain /\ rain'[j].key = rain'[k].key => j = k
    BY <1>r, <1>o DEF RainInv, SlotsKnown
  <2> QED BY <2>1, <2>2 DEF SlotsKnown
<1>5. Unread'
  BY <1>e DEF RainInv, Unread
<1>6. TodaysSlots'
  <2> SUFFICES ASSUME today' > rezoned', NEW j \in RainSlot, OfToday(j)'
      PROVE rain'[j].key \in readToday' /\ counter'[rain'[j].key] - rain'[j].baseline <= fallen'[rain'[j].key]
    BY DEF TodaysSlots
  <2>1. CASE j = i
    BY <2>1, <1>r, <1>e, <1>t
  <2>2. CASE j # i
    BY <2>2, <1>r, <1>e DEF RainInv, TodaysSlots, OfToday
  <2> QED BY <2>1, <2>2
<1>7. AllKept'
  <2> SUFFICES ASSUME today > rezoned, Cardinality(readToday') <= RainSlots, NEW h \in readToday' \ begunAgain
      PROVE \E j \in RainSlot : KeptFor(h, j)'
    BY DEF AllKept
  <2>1. CASE h = g
    <3>1. g \notin readToday => fallen[g] = 0
      BY DEF RainInv, Unread
    <3>2. g \notin begunAgain => fallen[g] = 0
      BY <3>1, <1>1
    <3> QED BY <2>1, <3>2, <1>r, <1>n, <1>t DEF KeptFor, OfToday
  <2>2. CASE h # g
    <3>1. PICK j \in RainSlot : j # i /\ KeptFor(h, j)
      BY <2>2, <1>1, <1>e
    <3> QED BY <3>1, <1>r DEF KeptFor, OfToday
  <2> QED BY <2>1, <2>2
<1> QED BY <1>2, <1>3, <1>4, <1>5, <1>6, <1>7 DEF RainInv

LEMMA GoesOnKeepsRain ==
  ASSUME RainInv, NEW g \in Gauge, NEW i \in findRain(g),
         today = rain[i].day, ~(counter[g] < rain[i].baseline),
         UNCHANGED rain, Says(g, counter[g] - rain[i].baseline),
         UNCHANGED <<today, synced, counter, fallen, begunAgain, rezoned, rains, nights, mishaps>>
  PROVE  RainInv'
<1>t. /\ rain \in [RainSlot -> [key : Gauge, baseline : Nat, day : Nat \ {0}] \cup {NoRain}]
      /\ counter \in [Gauge -> Nat] /\ fallen \in [Gauge -> Nat] /\ today \in Nat \ {0} /\ rezoned \in Nat
      /\ readToday \in SUBSET Gauge
  BY DEF RainInv, RainTypeOK
<1>i. i \in RainSlot /\ rain[i] # NoRain /\ rain[i].key = g /\ OfToday(i) /\ rain[i].baseline \in Nat
  BY <1>t DEF findRain, OfToday
<1>e. readToday' = readToday \cup {g}
  BY DEF Says
<1>1. ASSUME today > rezoned
      PROVE readToday' = readToday /\ counter[g] - rain[i].baseline <= fallen[g]
  BY <1>1, <1>i, <1>e DEF RainInv, TodaysSlots
<1>2. ASSUME today > rezoned, Cardinality(readToday') <= RainSlots, g \notin begunAgain
      PROVE counter[g] - rain[i].baseline = fallen[g]
  <2>1. g \in readToday \ begunAgain /\ Cardinality(readToday) <= RainSlots
    BY <1>1, <1>2, <1>e
  <2>2. PICK j \in RainSlot : KeptFor(g, j)
    BY <2>1, <1>2 DEF RainInv, AllKept
  <2>3. j = i
    BY <2>2, <1>i DEF KeptFor, OfToday, RainInv, SlotsKnown
  <2> QED BY <2>2, <2>3, <1>2, <1>i, <1>t DEF KeptFor
<1>3. RainTypeOK'
  <2>1. readToday' \subseteq Gauge
    BY <1>t, <1>e
  <2>2. counter[g] - rain[i].baseline \in Nat
    BY <1>i, <1>t
  <2>3. said' \in [says : Nat, is : Nat, exact : BOOLEAN] \cup {NoRain}
    BY <1>t, <2>2 DEF Says
  <2> QED BY <2>1, <2>3 DEF RainInv, RainTypeOK
<1>4. RainOfToday'
  <2> SUFFICES ASSUME said' # NoRain PROVE said'.says <= said'.is /\ (said'.exact => said'.says = said'.is)
    BY DEF RainOfToday
  <2>1. /\ ~(today <= rezoned)
        /\ said' = [says |-> counter[g] - rain[i].baseline, is |-> fallen[g],
                    exact |-> g \notin begunAgain /\ Cardinality(readToday') <= RainSlots]
    BY DEF Says
  <2>2. said'.exact => g \notin begunAgain /\ Cardinality(readToday') <= RainSlots
    BY <2>1
  <2>3. said'.says = counter[g] - rain[i].baseline /\ said'.is = fallen[g]
    BY <2>1
  <2>4. today > rezoned
    BY <2>1, <1>t
  <2> QED BY <2>2, <2>3, <2>4, <1>1, <1>2
<1>5. SlotsKnown' /\ Unread'
  BY <1>e DEF RainInv, SlotsKnown, Unread
<1>6. TodaysSlots' /\ AllKept'
  BY <1>1, <1>e DEF RainInv, TodaysSlots, AllKept, OfToday, KeptFor
<1> QED BY <1>3, <1>4, <1>5, <1>6 DEF RainInv

LEMMA HookKeepsRain == ASSUME RainInv, NEW g \in Gauge, rainHook(g) PROVE RainInv'
<1>1. synced /\ localDay = today /\ today # 0
  BY DEF rainHook, localDay, RainInv, RainTypeOK
<1> DEFINE starts(i) == /\ rain' = [rain EXCEPT ![i] = [key |-> g, baseline |-> counter[g], day |-> today]]
                        /\ Says(g, 0)
<1>2. CASE findRain(g) = {} /\ \E i \in claimRain : starts(i)
  BY <1>1, <1>2, StartKeepsRain, ClaimedIsFreeOrOldest DEF rainHook
<1>3. ASSUME NEW i \in findRain(g), today # rain[i].day \/ counter[g] < rain[i].baseline, starts(i) PROVE RainInv'
  <2>1. i \in RainSlot
    BY DEF findRain
  <2> QED BY <1>1, <1>3, <2>1, StartKeepsRain DEF rainHook
<1>4. ASSUME NEW i \in findRain(g), ~(today # rain[i].day \/ counter[g] < rain[i].baseline),
             UNCHANGED rain, Says(g, counter[g] - rain[i].baseline) PROVE RainInv'
  BY <1>1, <1>4, GoesOnKeepsRain DEF rainHook
<1> QED BY <1>1, <1>2, <1>3, <1>4 DEF rainHook

LEMMA WeatherKeepsRain ==
  ASSUME RainInv, (\E g \in Gauge : Rains(g) \/ BatteryChanged(g)) \/ ClockSet PROVE RainInv'
<1>t. /\ rain \in [RainSlot -> [key : Gauge, baseline : Nat, day : Nat \ {0}] \cup {NoRain}]
      /\ counter \in [Gauge -> Nat] /\ fallen \in [Gauge -> Nat] /\ today \in Nat \ {0} /\ rezoned \in Nat
      /\ readToday \in SUBSET Gauge /\ begunAgain \in SUBSET Gauge
  BY DEF RainInv, RainTypeOK
<1>1. ASSUME NEW g \in Gauge, Rains(g) PROVE RainInv'
  <2>1. /\ counter' = [counter EXCEPT ![g] = @ + 1]
        /\ fallen' = [fallen EXCEPT ![g] = IF g \in readToday THEN @ + 1 ELSE @]
        /\ UNCHANGED <<rain, today, synced, readToday, begunAgain, rezoned, said, nights, mishaps>> /\ rains' = rains + 1
    BY <1>1 DEF Rains
  <2>2. /\ counter'[g] = counter[g] + 1 /\ fallen'[g] = IF g \in readToday THEN fallen[g] + 1 ELSE fallen[g]
        /\ \A h \in Gauge : h # g => counter'[h] = counter[h] /\ fallen'[h] = fallen[h]
    BY <2>1, <1>t
  <2>3. RainTypeOK'
    BY <2>1, <1>t DEF RainInv, RainTypeOK
  <2>4. RainOfToday' /\ SlotsKnown' /\ Unread'
    BY <2>1, <2>2 DEF RainInv, RainOfToday, SlotsKnown, Unread
  <2>5. TodaysSlots'
    <3> SUFFICES ASSUME today > rezoned, NEW i \in RainSlot, OfToday(i)
        PROVE rain[i].key \in readToday /\ counter'[rain[i].key] - rain[i].baseline <= fallen'[rain[i].key]
      BY <2>1 DEF TodaysSlots, OfToday
    <3>1. rain[i].key \in readToday /\ counter[rain[i].key] - rain[i].baseline <= fallen[rain[i].key]
      BY DEF RainInv, TodaysSlots
    <3>2. rain[i].key \in Gauge /\ rain[i].baseline \in Nat
      BY <1>t DEF OfToday
    <3> QED BY <3>1, <3>2, <2>2, <1>t
  <2>6. AllKept'
    <3> SUFFICES ASSUME today > rezoned, Cardinality(readToday) <= RainSlots, NEW h \in readToday \ begunAgain
        PROVE \E i \in RainSlot : KeptFor(h, i)'
      BY <2>1 DEF AllKept
    <3>1. PICK i \in RainSlot : KeptFor(h, i)
      BY DEF RainInv, AllKept
    <3>2. rain[i].baseline \in Nat /\ h \in Gauge
      BY <3>1, <1>t DEF KeptFor, OfToday
    <3> QED BY <3>1, <3>2, <2>1, <2>2, <1>t DEF KeptFor, OfToday
  <2> QED BY <2>3, <2>4, <2>5, <2>6 DEF RainInv
<1>2. ASSUME NEW g \in Gauge, BatteryChanged(g) PROVE RainInv'
  <2>1. /\ counter' = [counter EXCEPT ![g] = 0] /\ begunAgain' = begunAgain \cup {g}
        /\ UNCHANGED <<rain, today, synced, fallen, readToday, rezoned, said, rains, nights>> /\ mishaps' = mishaps + 1
    BY <1>2 DEF BatteryChanged, Mishap
  <2>2. counter'[g] = 0 /\ \A h \in Gauge : h # g => counter'[h] = counter[h]
    BY <2>1, <1>t
  <2>3. RainTypeOK'
    BY <2>1, <1>t DEF RainInv, RainTypeOK
  <2>4. RainOfToday' /\ SlotsKnown' /\ Unread'
    BY <2>1 DEF RainInv, RainOfToday, SlotsKnown, Unread
  <2>5. TodaysSlots'
    <3> SUFFICES ASSUME today > rezoned, NEW i \in RainSlot, OfToday(i)
        PROVE rain[i].key \in readToday /\ counter'[rain[i].key] - rain[i].baseline <= fallen[rain[i].key]
      BY <2>1 DEF TodaysSlots, OfToday
    <3>1. rain[i].key \in readToday /\ counter[rain[i].key] - rain[i].baseline <= fallen[rain[i].key]
      BY DEF RainInv, TodaysSlots
    <3>2. rain[i].key \in Gauge /\ rain[i].baseline \in Nat
      BY <1>t DEF OfToday
    <3> QED BY <3>1, <3>2, <2>2, <1>t
  <2>6. AllKept'
    BY <2>1, <2>2, <1>t DEF RainInv, AllKept, KeptFor, OfToday
  <2> QED BY <2>3, <2>4, <2>5, <2>6 DEF RainInv
<1>3. ASSUME ClockSet PROVE RainInv'
  <2>1. UNCHANGED <<rain, today, counter, fallen, readToday, begunAgain, rezoned, said, rains, nights, mishaps>> /\ synced' = TRUE
    BY <1>3 DEF ClockSet
  <2>2. RainTypeOK'
    BY <2>1 DEF RainInv, RainTypeOK
  <2> QED BY <2>1, <2>2 DEF RainInv, RainOfToday, SlotsKnown, Unread, TodaysSlots, AllKept, KeptFor, OfToday
<1> QED BY <1>1, <1>2, <1>3

\* Nothing of a day that begins has been read, and no slot is of it.
LEMMA ForgottenKeepsRain ==
  ASSUME RainInv, Forgotten, RainTypeOK', SlotsKnown',
         today' > rezoned' => \A i \in RainSlot : rain'[i] # NoRain => rain'[i].day # today'
  PROVE  RainInv'
BY DEF Forgotten, RainInv, RainOfToday, Unread, TodaysSlots, AllKept, OfToday

LEMMA CalendarKeepsRain ==
  ASSUME RainInv, DayTurns \/ RainBegin \/ \E day \in {today - 1, today + 1} : setTzOffset(day) PROVE RainInv'
<1>t. /\ rain \in [RainSlot -> [key : Gauge, baseline : Nat, day : Nat \ {0}] \cup {NoRain}]
      /\ today \in Nat \ {0} /\ rezoned \in Nat
  BY DEF RainInv, RainTypeOK
<1>d. \A i \in RainSlot : rain[i] # NoRain => rain[i].day \in Nat
  BY <1>t
<1>1. CASE DayTurns
  <2>1. RainTypeOK'
    BY <1>1 DEF DayTurns, Forgotten, RainInv, RainTypeOK
  <2>2. SlotsKnown' /\ (today' > rezoned' => \A i \in RainSlot : rain'[i] # NoRain => rain'[i].day # today')
    BY <1>1, <1>t, <1>d DEF DayTurns, RainInv, SlotsKnown
  <2> QED BY <1>1, <2>1, <2>2, ForgottenKeepsRain DEF DayTurns
<1>2. CASE RainBegin
  <2>1. /\ rain' = [i \in RainSlot |-> NoRain] /\ synced' = FALSE /\ begunAgain' = begunAgain \cup readToday
        /\ UNCHANGED <<today, counter, fallen, readToday, rezoned, said, rains, nights>> /\ mishaps' = mishaps + 1
    BY <1>2 DEF RainBegin, Mishap
  <2>2. rain' \in [RainSlot -> [key : Gauge, baseline : Nat, day : Nat \ {0}] \cup {NoRain}]
    BY <2>1
  <2>3. begunAgain' \subseteq Gauge /\ mishaps' \in Nat
    BY <2>1 DEF RainInv, RainTypeOK
  <2>4. RainTypeOK'
    BY <2>1, <2>2, <2>3 DEF RainInv, RainTypeOK
  <2>5. \A i \in RainSlot : rain'[i] = NoRain
    BY <2>1
  <2>6. AllKept'
    BY <2>1 DEF AllKept
  <2> QED BY <2>1, <2>4, <2>5, <2>6 DEF RainInv, RainOfToday, SlotsKnown, Unread, TodaysSlots, OfToday
<1>3. ASSUME NEW day \in {today - 1, today + 1}, setTzOffset(day) PROVE RainInv'
  <2>1. /\ day # 0 /\ today' = day /\ UNCHANGED <<rain, synced, nights>> /\ Forgotten /\ mishaps' = mishaps + 1
        /\ rezoned' = IF rezoned > today THEN rezoned ELSE IF day > today THEN day ELSE today
    BY <1>3 DEF setTzOffset, Mishap
  <2>2. day \in Nat \ {0} /\ rezoned' \in Nat /\ rezoned' >= rezoned /\ rezoned' >= today /\ rezoned' >= today'
    BY <2>1, <1>t
  <2>3. RainTypeOK'
    BY <2>1, <2>2 DEF Forgotten, RainInv, RainTypeOK
  <2>4. SlotsKnown'
    BY <2>1, <2>2, <1>t, <1>d DEF RainInv, SlotsKnown
  <2> QED BY <2>1, <2>2, <2>3, <2>4, ForgottenKeepsRain
<1> QED BY <1>1, <1>2, <1>3

LEMMA RainInductive == RainSpec => []RainInv
<1>1. RainInv /\ [RainNext]_rainVars => RainInv'
  <2>1. RainInv /\ RainNext => RainInv'
    BY HookKeepsRain, WeatherKeepsRain, CalendarKeepsRain DEF RainNext
  <2>2. RainInv /\ UNCHANGED rainVars => RainInv'
    BY DEF rainVars, RainInv, RainTypeOK, RainOfToday, SlotsKnown, Unread, TodaysSlots, AllKept, KeptFor, OfToday
  <2> QED BY <2>1, <2>2
<1> QED BY <1>1, RainStarts, PTL DEF RainSpec

\* Slots, counters and the last record keep to their types.
THEOREM RainTyped == RainSpec => []RainTypeOK
<1>1. RainInv => RainTypeOK
  BY DEF RainInv
<1> QED BY <1>1, RainInductive, PTL

\* However many gauges share however many slots, and whatever batteries are
\* changed, midnights pass and restarts happen: no record says that more has
\* fallen today than has since the gauge's first reading, and one says exactly
\* that unless a new battery or a restart began the day's count again or too many
\* gauges were read; days that a change of time zone has touched are excepted.
THEOREM RainIsOfToday == RainSpec => []RainOfToday
<1>1. RainInv => RainOfToday
  BY DEF RainInv
<1> QED BY <1>1, RainInductive, PTL
=============================================================================
