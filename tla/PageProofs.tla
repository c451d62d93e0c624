----------------------------- MODULE PageProofs -----------------------------
(***************************************************************************)
(* Proofs about the parts of the dashboard page: the brokers, the feeds,   *)
(* the sources and their streams, the units, the place and the time zone,  *)
(* and the names of devices.                                               *)
(***************************************************************************)
EXTENDS PageNames, PageBridges, PageFeeds, PageSources, PageSettings, WellFoundedInduction, TLAPS

(***************************************************************************)
(* PageBridges.  A load that is the newest reads a table no older than the *)
(* one there was when it was issued; until it ends there is one out.       *)
(***************************************************************************)
BridgesInv ==
  /\ BridgesTypeOK /\ owed <= table
  /\ \A l \in asked : l.id <= seq /\ (l.id = seq => l.read = Unknown \/ l.read >= owed)
  /\ (\E l \in asked : l.id = seq) \/ mirror = Unknown \/ mirror >= owed

LEMMA BridgesStart == BridgesInit => BridgesInv
  BY UnknownNamed DEF BridgesInit, BridgesInv, BridgesTypeOK

\* A load that is issued is the newest, and has read nothing yet.
LEMMA IssuedIsNewest ==
  ASSUME BridgesInv, LoadIssued(table), mirror' = mirror, table' = table, changing' \in {"none", "posted", "applied"}
  PROVE  BridgesInv'
<1>1. [id |-> seq + 1, read |-> Unknown] \in [id : Nat, read : Nat \cup {Unknown}]
  BY DEF BridgesInv, BridgesTypeOK
<1>2. BridgesTypeOK'
  BY <1>1 DEF LoadIssued, BridgesInv, BridgesTypeOK
<1>3. asked' = asked \cup {[id |-> seq + 1, read |-> Unknown]} /\ seq' = seq + 1 /\ owed' = table
  BY DEF LoadIssued
<1>4. \A l \in asked' : l.id <= seq' /\ (l.id = seq' => l.read = Unknown)
  BY <1>3 DEF BridgesInv, BridgesTypeOK
<1>5. \E l \in asked' : l.id = seq'
  <2> DEFINE new == [id |-> seq + 1, read |-> Unknown]
  <2>1. new \in asked' /\ new.id = seq'
    BY <1>3
  <2> QED BY <2>1
<1> QED BY <1>2, <1>3, <1>4, <1>5 DEF BridgesInv, BridgesTypeOK

LEMMA ReadIsFresh ==
  ASSUME BridgesInv, NEW l \in asked, TableRead(l)
  PROVE  BridgesInv'
<1> DEFINE answer == [l EXCEPT !.read = table]
<1>1. answer \in [id : Nat, read : Nat \cup {Unknown}] /\ answer.id = l.id /\ answer.read = table
  BY DEF BridgesInv, BridgesTypeOK
<1>2. /\ asked' = (asked \ {l}) \cup {answer} /\ mirror' = mirror /\ seq' = seq
      /\ table' = table /\ changing' = changing /\ owed' = owed
  BY DEF TableRead
<1> HIDE DEF answer
<1>3. BridgesTypeOK'
  BY <1>1, <1>2 DEF BridgesInv, BridgesTypeOK
<1>4. \A a \in asked' : a.id <= seq /\ (a.id = seq => a.read = Unknown \/ a.read >= owed)
  BY <1>1, <1>2 DEF BridgesInv, BridgesTypeOK
<1>5. (\E a \in asked : a.id = seq) => \E a \in asked' : a.id = seq
  BY <1>1, <1>2
<1> QED BY <1>2, <1>3, <1>4, <1>5 DEF BridgesInv

LEMMA SettledIsFresh ==
  ASSUME BridgesInv, NEW l \in asked, NEW ok \in BOOLEAN, LoadSettles(l, ok)
  PROVE  BridgesInv'
<1>1. l.id \in Nat /\ l.read \in Nat \cup {Unknown}
  BY DEF BridgesInv, BridgesTypeOK
<1>2. BridgesTypeOK'
  BY <1>1 DEF LoadSettles, BridgesInv, BridgesTypeOK
<1>3. CASE l.id = seq
  BY <1>1, <1>2, <1>3 DEF LoadSettles, BridgesInv
<1>4. CASE l.id # seq
  BY <1>2, <1>4 DEF LoadSettles, BridgesInv
<1> QED BY <1>3, <1>4

LEMMA ChangesAreRead ==
  BridgesInv /\ (LoadBridges \/ ChangeBridges \/ ChangeApplied \/ \E ok \in BOOLEAN : ChangeAnswered(ok)) => BridgesInv'
<1>1. ASSUME BridgesInv, LoadBridges PROVE BridgesInv'
  BY <1>1, IssuedIsNewest DEF LoadBridges, BridgesInv, BridgesTypeOK
<1>2. ASSUME BridgesInv, ChangeBridges PROVE BridgesInv'
  BY <1>2 DEF ChangeBridges, BridgesInv, BridgesTypeOK
<1>3. ASSUME BridgesInv, ChangeApplied PROVE BridgesInv'
  BY <1>3 DEF ChangeApplied, BridgesInv, BridgesTypeOK
<1>4. ASSUME BridgesInv, NEW ok \in BOOLEAN, ChangeAnswered(ok) PROVE BridgesInv'
  <2>1. CASE ok
    BY <1>4, <2>1, IssuedIsNewest DEF ChangeAnswered
  <2>2. CASE ~ok
    BY <1>4, <2>2 DEF ChangeAnswered, BridgesInv, BridgesTypeOK
  <2> QED BY <2>1, <2>2
<1> QED BY <1>1, <1>2, <1>3, <1>4

LEMMA BridgesStutter == BridgesInv /\ UNCHANGED tableVars => BridgesInv'
  BY DEF tableVars, BridgesInv, BridgesTypeOK

LEMMA BridgesStep == BridgesInv /\ [BridgesNext]_tableVars => BridgesInv'
BY ReadIsFresh, SettledIsFresh, ChangesAreRead, BridgesStutter DEF BridgesNext

LEMMA BridgesAlways == BridgesSpec => []BridgesInv
<1> QED BY BridgesStep, BridgesStart, PTL DEF BridgesSpec

\* Types of the brokers page's state.
THEOREM BridgesTyped == BridgesSpec => []BridgesTypeOK
<1>1. BridgesInv => BridgesTypeOK BY DEF BridgesInv
<1> QED BY <1>1, BridgesAlways, PTL

\* For any number of loads and changes, answered in any order: with none out, the
\* brokers shown are no older than the last load was to find (seq of bridges.js).
THEOREM MirrorIsFresh == BridgesSpec => []MirrorFresh
<1>1. BridgesInv => MirrorFresh BY DEF BridgesInv, MirrorFresh
<1> QED BY <1>1, BridgesAlways, PTL

-----------------------------------------------------------------------------
(***************************************************************************)
(* PageFeeds.  Before there is a place no feed claims anything.            *)
(***************************************************************************)
FeedsInv ==
  /\ FeedsTypeOK /\ FeedsOfPlace
  /\ place = NoSite => \A f \in Feed : feedState[f].status \notin {"ok", "unsupported"}

LEMMA FeedsStart == FeedsInit => FeedsInv
<1> SUFFICES ASSUME FeedsInit PROVE FeedsInv
  OBVIOUS
<1>1. FeedsTypeOK
  <2>1. NoSite \in MaySite /\ place = NoSite /\ wanted = NoSite /\ uncached = FALSE /\ moves = 0
    BY DEF FeedsInit, MaySite
  <2>2. feedState \in [Feed -> [status : {"idle", "ok", "error", "unsupported"}, due : BOOLEAN]]
    BY DEF FeedsInit, Idle
  <2>3. run \in [Feed -> [place : MaySite, meta : MaySite, aborted : BOOLEAN]]
    BY <2>1 DEF FeedsInit, NoRun
  <2>4. entries \in [CachedFeed -> MaySite] /\ cached = entries /\ shown \in [Feed -> MaySite]
    BY <2>1 DEF FeedsInit
  <2> QED BY <2>1, <2>2, <2>3, <2>4 DEF FeedsTypeOK
<1>2. \A f \in Feed : feedState[f].status = "idle" /\ run[f].place = NoSite /\ run[f].meta = NoSite
  BY DEF FeedsInit, Idle, NoRun
<1> QED BY <1>1, <1>2 DEF FeedsInv, FeedsOfPlace, Running

LEMMA SavedCache ==
  ASSUME NEW e \in [CachedFeed -> MaySite], SaveCache(e), FeedsTypeOK
  PROVE  entries' = e /\ cached' \in [CachedFeed -> MaySite] /\ uncached' \in BOOLEAN
<1>1. CASE ~uncached /\ cached' = e /\ UNCHANGED uncached
  BY <1>1 DEF SaveCache, FeedsTypeOK
<1>2. CASE uncached' = TRUE /\ UNCHANGED cached
  BY <1>2 DEF SaveCache, FeedsTypeOK
<1> QED BY <1>1, <1>2 DEF SaveCache

State == [status : {"idle", "ok", "error", "unsupported"}, due : BOOLEAN]
Run == [place : MaySite, meta : MaySite, aborted : BOOLEAN]

LEMMA AbortedRun ==
  ASSUME NEW r \in Run, NEW b \in BOOLEAN, NEW x, x = [r EXCEPT !.aborted = b]
  PROVE  x \in Run /\ x.place = r.place /\ x.meta = r.meta /\ x.aborted = b
  BY DEF Run

LEMMA StartedRun ==
  ASSUME NEW f \in Feed, NEW next \in MaySite, NEW x, x = Started(f, next)
  PROVE  x \in Run /\ x.place = next /\ x.meta \in {NoSite, next}
<1> DEFINE meta == IF f \in CachedFeed /\ entries'[f] = next THEN next ELSE NoSite
<1>1. Started(f, next) = [place |-> next, aborted |-> FALSE, meta |-> meta]
  BY DEF Started
<1>2. meta \in {NoSite, next} /\ meta \in MaySite
  BY DEF MaySite
<1> HIDE DEF meta
<1> QED BY <1>1, <1>2 DEF Run

\* What a pump does to the states of the feeds and to their runs.
LEMMA PumpEffects ==
  ASSUME FeedsInv, NEW next \in MaySite, next # NoSite, Pump(next)
  PROVE  /\ place' = next
         /\ entries' \in [CachedFeed -> MaySite] /\ cached' \in [CachedFeed -> MaySite] /\ uncached' \in BOOLEAN
         /\ feedState' \in [Feed -> State]
         /\ (feedState' = feedState /\ place \in {NoSite, next}) \/ \A f \in Feed : feedState'[f].status = "idle"
         /\ run' \in [Feed -> Run]
         /\ \A f \in Feed : /\ run'[f].meta \in {NoSite, run'[f].place}
                            /\ run'[f].place # NoSite /\ ~run'[f].aborted => run'[f].place = next
<1> DEFINE moved == place # NoSite /\ next # place
           states == IF moved THEN [f \in Feed |-> Idle] ELSE feedState
           runs == IF moved THEN [f \in Feed |-> [run[f] EXCEPT !.aborted = Running(f)]] ELSE run
           starts(f) == ~Running(f) /\ states[f].status # "unsupported" /\ states[f].due
<1>1. /\ place' = next
      /\ IF moved THEN SaveCache([f \in CachedFeed |-> NoSite]) ELSE UNCHANGED <<entries, cached, uncached>>
      /\ feedState' = states
      /\ run' = [f \in Feed |-> IF starts(f) THEN Started(f, next) ELSE runs[f]]
  BY DEF Pump
<1>2. entries' \in [CachedFeed -> MaySite] /\ cached' \in [CachedFeed -> MaySite] /\ uncached' \in BOOLEAN
  <2>1. CASE moved
    <3>1. [f \in CachedFeed |-> NoSite] \in [CachedFeed -> MaySite]
      BY DEF MaySite
    <3> QED BY <1>1, <2>1, <3>1, SavedCache DEF FeedsInv
  <2>2. CASE ~moved
    BY <1>1, <2>2 DEF FeedsInv, FeedsTypeOK
  <2> QED BY <2>1, <2>2
<1>3. Idle \in State /\ Idle.status = "idle"
  BY DEF Idle, State
<1>4. /\ feedState' \in [Feed -> State]
      /\ (feedState' = feedState /\ place \in {NoSite, next}) \/ \A f \in Feed : feedState'[f].status = "idle"
  BY <1>1, <1>3 DEF FeedsInv, FeedsTypeOK, State
<1>5. ASSUME NEW f \in Feed
      PROVE  /\ run[f] \in Run /\ run[f].meta \in {NoSite, run[f].place}
             /\ run[f].place # NoSite /\ ~run[f].aborted => run[f].place = place
             /\ Running(f) <=> run[f].place # NoSite
  BY <1>5 DEF FeedsInv, FeedsTypeOK, FeedsOfPlace, Running, Run
<1>6. ASSUME NEW f \in Feed
      PROVE  /\ runs[f] \in Run /\ runs[f].meta \in {NoSite, runs[f].place}
             /\ runs[f].place # NoSite /\ ~runs[f].aborted => runs[f].place = next
  <2>1. CASE moved
    <3>1. Running(f) \in BOOLEAN
      BY DEF Running
    <3>2. runs[f] = [run[f] EXCEPT !.aborted = Running(f)]
      BY <2>1
    <3>3. /\ runs[f] \in Run /\ runs[f].place = run[f].place /\ runs[f].meta = run[f].meta
          /\ runs[f].aborted = Running(f)
      BY <1>5, <3>1, <3>2, AbortedRun
    <3> QED BY <1>5, <3>3
  <2>2. CASE ~moved
    BY <1>5, <2>2 DEF MaySite
  <2> QED BY <2>1, <2>2
<1>7. ASSUME NEW f \in Feed
      PROVE  /\ run'[f] \in Run /\ run'[f].meta \in {NoSite, run'[f].place}
             /\ run'[f].place # NoSite /\ ~run'[f].aborted => run'[f].place = next
  <2>1. run'[f] = Started(f, next) \/ run'[f] = runs[f]
    BY <1>1
  <2>2. CASE run'[f] = Started(f, next)
    BY <2>2, StartedRun
  <2>3. CASE run'[f] = runs[f]
    <3> DEFINE x == runs[f]
    <3>1. /\ x \in Run /\ x.meta \in {NoSite, x.place}
          /\ x.place # NoSite /\ ~x.aborted => x.place = next
      BY <1>6
    <3>2. run'[f] = x
      BY <2>3
    <3> HIDE DEF x
    <3> QED BY <3>1, <3>2
  <2> QED BY <2>1, <2>2, <2>3
<1>8. run' \in [Feed -> Run]
  BY <1>1, <1>7
<1> QED BY <1>1, <1>2, <1>4, <1>7, <1>8

LEMMA PumpsKeepPlace ==
  ASSUME FeedsInv, NEW next \in MaySite, Pump(next), UNCHANGED shown, wanted' \in MaySite, moves' \in Nat
  PROVE  FeedsInv'
<1>1. CASE next = NoSite
  BY <1>1 DEF Pump, FeedsInv, FeedsTypeOK, FeedsOfPlace, Running
<1>2. CASE next # NoSite
  <2>1. FeedsTypeOK'
    BY <1>2, PumpEffects DEF FeedsInv, FeedsTypeOK, State, Run
  <2>2. ASSUME NEW f \in Feed PROVE feedState'[f].status \in {"ok", "unsupported"} => shown'[f] = place'
    BY <1>2, PumpEffects DEF FeedsInv, FeedsOfPlace
  <2>3. FeedsOfPlace'
    BY <1>2, <2>2, PumpEffects DEF FeedsOfPlace, Running
  <2>4. place' # NoSite
    BY <1>2, PumpEffects
  <2> QED BY <2>1, <2>3, <2>4 DEF FeedsInv
<1> QED BY <1>1, <1>2

LEMMA TicksKeepPlace == FeedsInv /\ (FeedTick \/ \E p \in Site \cup {NoSite} : PlaceMoves(p)) => FeedsInv'
<1>1. ASSUME FeedsInv, FeedTick PROVE FeedsInv'
  BY <1>1, PumpsKeepPlace DEF FeedTick, FeedsInv, FeedsTypeOK
<1>2. ASSUME FeedsInv, NEW p \in Site \cup {NoSite}, PlaceMoves(p) PROVE FeedsInv'
  BY <1>2, PumpsKeepPlace DEF PlaceMoves, FeedsInv, FeedsTypeOK, MaySite
<1> QED BY <1>1, <1>2

LEMMA DueKeepsPlace == ASSUME FeedsInv, NEW f \in Feed, FeedDue(f) PROVE FeedsInv'
<1>1. feedState[f] \in State /\ feedState' = [feedState EXCEPT ![f] = [feedState[f] EXCEPT !.due = TRUE]]
  BY DEF FeedDue, FeedsInv, FeedsTypeOK, State
<1> DEFINE due == [feedState[f] EXCEPT !.due = TRUE]
<1>2. due \in State /\ due.status = feedState[f].status
  BY <1>1 DEF State
<1> HIDE DEF due
<1>3. feedState' \in [Feed -> State] /\ \A g \in Feed : feedState'[g].status = feedState[g].status
  BY <1>1, <1>2 DEF FeedsInv, FeedsTypeOK, State, due
<1>4. FeedsTypeOK'
  BY <1>3 DEF FeedDue, FeedsInv, FeedsTypeOK, State
<1> QED BY <1>3, <1>4 DEF FeedDue, FeedsInv, FeedsOfPlace, Running

\* A run that ends leaves the others, and a discarded one leaves all else.
LEMMA EndsKeepPlace ==
  ASSUME FeedsInv, NEW f \in Feed, Ends(f),
         feedState' \in [Feed -> State], shown' \in [Feed -> MaySite],
         entries' \in [CachedFeed -> MaySite], cached' \in [CachedFeed -> MaySite], uncached' \in BOOLEAN,
         \A g \in Feed \ {f} : feedState'[g] = feedState[g] /\ shown'[g] = shown[g],
         (feedState'[f] = feedState[f] /\ shown'[f] = shown[f])
         \/ (run[f].place = place /\ (feedState'[f].status \in {"ok", "unsupported"} => shown'[f] = place))
  PROVE  FeedsInv'
<1>1. NoRun \in Run /\ NoRun.place = NoSite /\ NoRun.meta = NoSite
  BY DEF NoRun, Run, MaySite
<1>2. /\ run' = [run EXCEPT ![f] = NoRun] /\ run[f].place # NoSite
      /\ place' = place /\ wanted' = wanted /\ moves' = moves
  BY DEF Ends, Running
<1>3. run' \in [Feed -> Run] /\ \A g \in Feed : run'[g] = run[g] \/ run'[g] = NoRun
  BY <1>1, <1>2 DEF FeedsInv, FeedsTypeOK, Run
<1>4. FeedsTypeOK'
  BY <1>2, <1>3 DEF FeedsInv, FeedsTypeOK, Run, State
<1>5. \A g \in Feed : feedState'[g].status \in {"ok", "unsupported"} => shown'[g] = place
  BY DEF FeedsInv, FeedsOfPlace
<1>6. FeedsOfPlace'
  BY <1>1, <1>2, <1>3, <1>5 DEF FeedsInv, FeedsOfPlace, Running
<1>7. place = NoSite => \A g \in Feed : feedState'[g].status \notin {"ok", "unsupported"}
  BY <1>2 DEF FeedsInv
<1> QED BY <1>2, <1>4, <1>6, <1>7 DEF FeedsInv

LEMMA RepliesKeepPlace == ASSUME FeedsInv, NEW f \in Feed, FeedReplies(f) PROVE FeedsInv'
<1>1. CASE Discarded(f)
  BY <1>1, EndsKeepPlace DEF FeedReplies, Discard, FeedsInv, FeedsTypeOK, State
<1>2. CASE ~Discarded(f)
  <2>1. run[f].place = place /\ place \in MaySite
    BY <1>2 DEF Discarded, FeedsInv, FeedsTypeOK
  <2>2. shown' = [shown EXCEPT ![f] = place] /\ feedState' = [feedState EXCEPT ![f] = [status |-> "ok", due |-> FALSE]]
    BY <1>2, <2>1 DEF FeedReplies, Publish
  <2>3. entries' \in [CachedFeed -> MaySite] /\ cached' \in [CachedFeed -> MaySite] /\ uncached' \in BOOLEAN
    <3>1. CASE f \in CachedFeed
      <4> DEFINE e == [entries EXCEPT ![f] = run[f].place]
      <4>1. e \in [CachedFeed -> MaySite] /\ SaveCache(e)
        BY <1>2, <2>1, <3>1 DEF FeedReplies, FeedsInv, FeedsTypeOK
      <4> HIDE DEF e
      <4> QED BY <4>1, SavedCache DEF FeedsInv
    <3>2. CASE f \notin CachedFeed
      BY <1>2, <3>2 DEF FeedReplies, FeedsInv, FeedsTypeOK
    <3> QED BY <3>1, <3>2
  <2>4. [status |-> "ok", due |-> FALSE] \in State
    BY DEF State
  <2>5. feedState' \in [Feed -> State] /\ shown' \in [Feed -> MaySite]
    BY <2>1, <2>2, <2>4 DEF FeedsInv, FeedsTypeOK, State
  <2>6. \A g \in Feed \ {f} : feedState'[g] = feedState[g] /\ shown'[g] = shown[g]
    BY <2>2 DEF FeedsInv, FeedsTypeOK
  <2>7. shown'[f] = place
    BY <2>2 DEF FeedsInv, FeedsTypeOK
  <2> QED BY <2>1, <2>3, <2>5, <2>6, <2>7, EndsKeepPlace DEF FeedReplies
<1> QED BY <1>1, <1>2

LEMMA FailuresKeepPlace == ASSUME FeedsInv, NEW f \in Feed, NEW unsupported \in BOOLEAN, FeedFails(f, unsupported) PROVE FeedsInv'
<1>1. CASE Discarded(f)
  BY <1>1, EndsKeepPlace DEF FeedFails, Discard, FeedsInv, FeedsTypeOK, State
<1>2. CASE ~Discarded(f)
  <2> DEFINE failed == [status |-> IF unsupported THEN "unsupported" ELSE "error", due |-> FALSE]
  <2>1. run[f].place = place /\ place \in MaySite
    BY <1>2 DEF Discarded, FeedsInv, FeedsTypeOK
  <2>2. /\ feedState' = [feedState EXCEPT ![f] = failed] /\ UNCHANGED <<entries, cached, uncached>>
        /\ shown' = IF unsupported THEN [shown EXCEPT ![f] = place] ELSE shown
    BY <1>2, <2>1 DEF FeedFails, Publish
  <2>3. failed \in State /\ (failed.status = IF unsupported THEN "unsupported" ELSE "error")
    BY DEF State
  <2> HIDE DEF failed
  <2>4. feedState' \in [Feed -> State] /\ shown' \in [Feed -> MaySite] /\ feedState'[f] = failed
    BY <2>1, <2>2, <2>3 DEF FeedsInv, FeedsTypeOK, State
  <2>5. \A g \in Feed \ {f} : feedState'[g] = feedState[g] /\ shown'[g] = shown[g]
    BY <2>2 DEF FeedsInv, FeedsTypeOK
  <2>6. feedState'[f].status \in {"ok", "unsupported"} => shown'[f] = place
    BY <2>2, <2>3, <2>4 DEF FeedsInv, FeedsTypeOK
  <2>7. entries' \in [CachedFeed -> MaySite] /\ cached' \in [CachedFeed -> MaySite] /\ uncached' \in BOOLEAN
    BY <2>2 DEF FeedsInv, FeedsTypeOK
  <2> QED BY <2>1, <2>4, <2>5, <2>6, <2>7, EndsKeepPlace DEF FeedFails
<1> QED BY <1>1, <1>2

LEMMA PrimingKeepsPlace == ASSUME FeedsInv, NEW p \in MaySite, PrimeFeeds(p) PROVE FeedsInv'
<1> DEFINE primed == {f \in CachedFeed : entries'[f] # NoSite /\ entries'[f] = p}
<1>1. /\ wanted' = p /\ place' = p /\ cached' = cached /\ moves' \in Nat
      /\ shown' = [f \in Feed |-> IF f \in primed THEN entries'[f] ELSE NoSite]
      /\ feedState' \in [Feed -> {Idle} \cup [status : {"ok"}, due : BOOLEAN]]
      /\ \A f \in Feed : feedState'[f].status = "ok" <=> f \in primed
      /\ run' = [f \in Feed |-> NoRun]
  BY DEF PrimeFeeds, FeedsInv, FeedsTypeOK
<1>2. entries' \in [CachedFeed -> MaySite] /\ uncached' \in BOOLEAN
  <2>1. entries' = cached \/ entries' = [f \in CachedFeed |-> NoSite]
    BY DEF PrimeFeeds
  <2>2. uncached' = FALSE \/ uncached' = TRUE
    BY DEF PrimeFeeds
  <2> QED BY <2>1, <2>2 DEF FeedsInv, FeedsTypeOK, MaySite
<1>3. NoRun \in Run /\ NoRun.place = NoSite /\ NoRun.meta = NoSite
  BY DEF NoRun, Run, MaySite
<1>4. Idle \in State /\ Idle.status = "idle"
  BY DEF Idle, State
<1>5. feedState' \in [Feed -> State] /\ \A f \in Feed : feedState'[f].status \in {"idle", "ok"}
  <2>1. \A x \in [status : {"ok"}, due : BOOLEAN] : x \in State /\ x.status = "ok"
    BY DEF State
  <2> QED BY <1>1, <1>4, <2>1
<1>6. NoSite \in MaySite /\ \A f \in Feed : f \in primed => shown'[f] = p /\ p # NoSite
  BY <1>1 DEF MaySite
<1>7. shown' \in [Feed -> MaySite]
  BY <1>1, <1>2, <1>6
<1> HIDE DEF primed
<1>8. FeedsTypeOK'
  BY <1>1, <1>2, <1>3, <1>5, <1>7 DEF FeedsInv, FeedsTypeOK, State, Run
<1>9. FeedsOfPlace'
  BY <1>1, <1>3, <1>5, <1>6 DEF FeedsOfPlace, Running
<1> QED BY <1>1, <1>5, <1>6, <1>8, <1>9 DEF FeedsInv

LEMMA FeedsStutter == FeedsInv /\ UNCHANGED feedVars => FeedsInv'
  BY DEF feedVars, FeedsInv, FeedsTypeOK, FeedsOfPlace, Running

LEMMA FeedsStep == FeedsInv /\ [FeedsNext]_feedVars => FeedsInv'
BY TicksKeepPlace, DueKeepsPlace, RepliesKeepPlace, FailuresKeepPlace, PrimingKeepsPlace, FeedsStutter
   DEF FeedsNext, MaySite

LEMMA FeedsAlways == FeedsSpec => []FeedsInv
<1> QED BY FeedsStep, FeedsStart, PTL DEF FeedsSpec

\* Types of the feeds' state.
THEOREM FeedsTyped == FeedsSpec => []FeedsTypeOK
<1>1. FeedsInv => FeedsTypeOK BY DEF FeedsInv
<1> QED BY <1>1, FeedsAlways, PTL

\* For any feeds, places and moves, with requests in flight: what a feed shows and
\* starts from is of the place it serves (runFeed, pump and primeFeeds).
THEOREM FeedsServePlace == FeedsSpec => []FeedsOfPlace
<1>1. FeedsInv => FeedsOfPlace BY DEF FeedsInv
<1> QED BY <1>1, FeedsAlways, PTL


-----------------------------------------------------------------------------
(***************************************************************************)
(* PageSources.  What holds of a page: of its streams no other than those  *)
(* wanted, and nothing left of one that is not open.                       *)
(***************************************************************************)
Socket == [Source -> Stream]
StatusShown == {"none", "connecting", "live", "reconnecting"}
PageType == [configured : SUBSET Source, saved : (SUBSET Source) \cup {NoneStored}, unsaved : BOOLEAN,
             stream : Socket, sourceState : [Source -> StatusShown], probing : BOOLEAN,
             heard : SUBSET Device, told : [Source -> SUBSET Told],
             named : SUBSET Source, putBack : SUBSET Source]

OpenIn(p) == {b \in Source : p.stream[b].open}

Clean(p) ==
  \A b \in Source \ OpenIn(p) : /\ p.stream[b].socket = "closed" /\ p.sourceState[b] = "none" /\ p.told[b] = {}
                                /\ b \in p.named => b \in p.putBack
                                /\ \A d \in p.heard : DeviceSource[d] # b

Covered(p, hand) ==
  /\ OpenIn(p) \subseteq p.configured \cup (IF p.probing THEN {HomeSource} ELSE {})
  /\ p.configured \subseteq OpenIn(p) \cup (IF hand THEN {HomeSource} ELSE {})
  /\ p.probing => HomeSource \in OpenIn(p)
  /\ p.probing /\ HomeSource \in p.configured => hand

\* The streams of a page that drops some are closed, the others as they were.
LEMMA DropFields ==
  ASSUME NEW p \in PageType, NEW gone \in SUBSET Source, NEW inError \in BOOLEAN, NEW r, r = Drop(p, gone, inError)
  PROVE  /\ r \in PageType
         /\ r.configured = p.configured /\ r.saved = p.saved /\ r.unsaved = p.unsaved /\ r.probing = p.probing
         /\ OpenIn(r) = OpenIn(p) \ gone
         /\ Clean(p) => Clean(r)
<1>1. r = [p EXCEPT !.stream = [b \in Source |-> IF b \in gone THEN Closed(p.stream[b], inError) ELSE p.stream[b]],
                    !.sourceState = [b \in Source |-> IF b \in gone THEN "none" ELSE p.sourceState[b]],
                    !.heard = DevicesLeft(p.heard, gone),
                    !.told = [b \in Source |-> IF b \in gone THEN {} ELSE p.told[b]],
                    !.named = p.named \ gone, !.putBack = p.putBack \ gone]
  BY DEF Drop
<1> DEFINE s == [b \in Source |-> IF b \in gone THEN Closed(p.stream[b], inError) ELSE p.stream[b]]
           t == [b \in Source |-> IF b \in gone THEN "none" ELSE p.sourceState[b]]
           h == DevicesLeft(p.heard, gone)
           w == [b \in Source |-> IF b \in gone THEN {} ELSE p.told[b]]
           n == p.named \ gone
           k == p.putBack \ gone
<1>2. p.stream \in Socket /\ p.sourceState \in [Source -> StatusShown] /\ p.heard \in SUBSET Device /\ p.told \in [Source -> SUBSET Told]
      /\ p.named \in SUBSET Source /\ p.putBack \in SUBSET Source
  BY DEF PageType
<1>3. s \in Socket
  BY <1>2 DEF Socket, Stream, Closed
<1>4. t \in [Source -> StatusShown] /\ h \in SUBSET Device /\ w \in [Source -> SUBSET Told]
      /\ n \in SUBSET Source /\ k \in SUBSET Source
  BY <1>2 DEF StatusShown, DevicesLeft
<1>5. \A b \in Source : /\ b \in gone => ~s[b].open /\ s[b].socket = "closed" /\ t[b] = "none" /\ w[b] = {}
                        /\ b \notin gone => s[b] = p.stream[b] /\ t[b] = p.sourceState[b] /\ w[b] = p.told[b]
  BY DEF Closed
<1>6. /\ h \subseteq p.heard /\ \A d \in h : DeviceSource[d] \notin gone
      /\ \A b \in Source : (b \in n <=> b \in p.named /\ b \notin gone) /\ (b \in k <=> b \in p.putBack /\ b \notin gone)
  BY DEF DevicesLeft
<1> HIDE DEF s, t, h, w, n, k
<1>7. r = [p EXCEPT !.stream = s, !.sourceState = t, !.heard = h, !.told = w, !.named = n, !.putBack = k]
  BY <1>1 DEF s, t, h, w, n, k
<1>8. /\ r \in PageType
      /\ r.configured = p.configured /\ r.saved = p.saved /\ r.unsaved = p.unsaved /\ r.probing = p.probing
      /\ r.stream = s /\ r.sourceState = t /\ r.heard = h /\ r.told = w /\ r.named = n /\ r.putBack = k
  BY <1>3, <1>4, <1>7 DEF PageType
<1>9. OpenIn(r) = OpenIn(p) \ gone
  BY <1>5, <1>8 DEF OpenIn
<1>10. Clean(p) => Clean(r)
  BY <1>5, <1>6, <1>8, <1>9 DEF Clean
<1> QED BY <1>8, <1>9, <1>10

\* Streams are opened for all that is configured, and dropped but for the probe's.
LEMMA SyncedFields ==
  ASSUME NEW p \in PageType, NEW r, r = Synced(p)
  PROVE  /\ r \in PageType
         /\ r.configured = p.configured /\ r.saved = p.saved /\ r.unsaved = p.unsaved /\ r.probing = p.probing
         /\ OpenIn(r) = p.configured \cup (IF p.probing THEN OpenIn(p) \cap {HomeSource} ELSE {})
         /\ Clean(p) => Clean(r)
<1> DEFINE missing == {b \in p.configured : ~p.stream[b].open}
           wantedBases == p.configured \cup (IF p.probing THEN {HomeSource} ELSE {})
           s == [b \in Source |-> IF b \in missing THEN NewStream ELSE p.stream[b]]
           t == [b \in Source |-> IF b \in missing THEN "connecting" ELSE p.sourceState[b]]
           grown == [p EXCEPT !.stream = s, !.sourceState = t]
           gone == {b \in Source : grown.stream[b].open} \ wantedBases
<1>1. r = Drop(grown, gone, FALSE) /\ FALSE \in BOOLEAN
  BY DEF Synced
<1>2. p.stream \in Socket /\ p.sourceState \in [Source -> StatusShown] /\ p.configured \subseteq Source
  BY DEF PageType
<1>3. NewStream \in Stream /\ NewStream.open
  BY DEF NewStream, Stream
<1>4. s \in Socket /\ t \in [Source -> StatusShown]
  BY <1>2, <1>3 DEF Socket, StatusShown
<1>5. \A b \in Source : /\ b \in p.configured => s[b].open
                        /\ b \notin p.configured => s[b] = p.stream[b] /\ t[b] = p.sourceState[b]
                        /\ p.stream[b].open => s[b].open
                        /\ ~s[b].open => s[b] = p.stream[b] /\ t[b] = p.sourceState[b]
  BY <1>3
<1>6. missing \subseteq p.configured
  OBVIOUS
<1> HIDE DEF s, t, missing
<1>7. /\ grown \in PageType
      /\ grown.configured = p.configured /\ grown.saved = p.saved /\ grown.unsaved = p.unsaved /\ grown.probing = p.probing
      /\ grown.stream = s /\ grown.sourceState = t /\ grown.heard = p.heard /\ grown.told = p.told
      /\ grown.named = p.named /\ grown.putBack = p.putBack
  BY <1>4 DEF PageType
<1> HIDE DEF grown
<1>8. OpenIn(grown) = OpenIn(p) \cup p.configured
  BY <1>2, <1>5, <1>7 DEF OpenIn
<1>9. Clean(p) => Clean(grown)
  BY <1>5, <1>7, <1>8 DEF Clean
<1>10. gone \in SUBSET Source /\ gone = OpenIn(grown) \ wantedBases
  BY DEF OpenIn
<1> HIDE DEF gone
<1>11. /\ r \in PageType
       /\ r.configured = grown.configured /\ r.saved = grown.saved /\ r.unsaved = grown.unsaved /\ r.probing = grown.probing
       /\ OpenIn(r) = OpenIn(grown) \ gone
       /\ Clean(grown) => Clean(r)
  <2>1. grown \in PageType /\ gone \in SUBSET Source /\ FALSE \in BOOLEAN /\ r = Drop(grown, gone, FALSE)
    BY <1>1, <1>7, <1>10
  <2> QED BY <2>1, DropFields
<1> QED BY <1>7, <1>8, <1>9, <1>10, <1>11

LEMMA ConfiguredPage ==
  ASSUME NEW p \in PageType, NEW bases \in SUBSET Source, NEW refused \in BOOLEAN, NEW r, r = Configure(p, bases, refused)
  PROVE  /\ r \in PageType /\ r.configured = bases /\ r.probing = p.probing
         /\ OpenIn(r) = bases \cup (IF p.probing THEN OpenIn(p) \cap {HomeSource} ELSE {})
         /\ Clean(p) => Clean(r)
<1> DEFINE fails == p.unsaved \/ refused
           inStore == IF fails THEN p.saved ELSE bases
           q == [p EXCEPT !.configured = bases, !.unsaved = fails, !.saved = inStore]
<1>1. r = Synced(q)
  BY DEF Configure
<1>2. fails \in BOOLEAN
  OBVIOUS
<1>3. inStore \in (SUBSET Source) \cup {NoneStored}
  BY DEF PageType
<1> HIDE DEF fails, inStore
<1>4. /\ q \in PageType /\ q.configured = bases /\ q.probing = p.probing
      /\ q.stream = p.stream /\ q.sourceState = p.sourceState /\ q.heard = p.heard /\ q.told = p.told
      /\ q.named = p.named /\ q.putBack = p.putBack
  BY <1>2, <1>3 DEF PageType
<1> HIDE DEF q
<1>5. OpenIn(q) = OpenIn(p) /\ (Clean(p) => Clean(q))
  BY <1>4 DEF OpenIn, Clean
<1> QED BY <1>1, <1>4, <1>5, SyncedFields

LEMMA AbortedPage ==
  ASSUME NEW p \in PageType, NEW inError \in BOOLEAN, NEW r, r = AbortProbe(p, inError)
  PROVE  /\ r \in PageType /\ r.configured = p.configured /\ ~r.probing
         /\ OpenIn(r) = OpenIn(p) \ {HomeSource}
         /\ Clean(p) => Clean(r)
<1> DEFINE q == [p EXCEPT !.probing = FALSE]
<1>1. r = Drop(q, {HomeSource}, inError)
  BY DEF AbortProbe
<1>2. /\ q \in PageType /\ q.configured = p.configured /\ q.probing = FALSE
      /\ q.stream = p.stream /\ q.sourceState = p.sourceState /\ q.heard = p.heard /\ q.told = p.told
      /\ q.named = p.named /\ q.putBack = p.putBack
  BY DEF PageType
<1> HIDE DEF q
<1>3. OpenIn(q) = OpenIn(p) /\ (Clean(p) => Clean(q))
  BY <1>2 DEF OpenIn, Clean
<1>4. {HomeSource} \in SUBSET Source
  BY SourcesNamed
<1>5. /\ r \in PageType /\ r.configured = q.configured /\ r.probing = q.probing
      /\ OpenIn(r) = OpenIn(q) \ {HomeSource} /\ (Clean(q) => Clean(r))
  BY <1>1, <1>2, <1>4, DropFields
<1> QED BY <1>2, <1>3, <1>5

-----------------------------------------------------------------------------
SourcesInv ==
  /\ SourcesTypeOK /\ Clean(Page) /\ Covered(Page, byHand)
  /\ loads <= updates
  /\ (\E r \in Receiver : seen[r] \notin {0, build[r]}) => loads < updates

LEMMA PageTyped ==
  ASSUME SourcesTypeOK
  PROVE  /\ Page \in PageType
         /\ Page.configured = configured /\ Page.probing = probing /\ Page.stream = stream
         /\ Page.sourceState = sourceState /\ Page.heard = heard /\ Page.told = told
         /\ Page.named = named /\ Page.putBack = putBack
         /\ OpenIn(Page) = OpenSources
  BY DEF Page, PageType, Socket, StatusShown, SourcesTypeOK, OpenIn, OpenSources

\* A handler that leaves a good page leaves a good state.
LEMMA GoodPageStays ==
  ASSUME SourcesInv, NEW p \in PageType, Becomes(p), Clean(p), Covered(p, byHand'),
         byHand' \in BOOLEAN, seen' = seen, UNCHANGED <<nameStore, envVars>>, turns' \in Nat, loads' = loads
  PROVE  SourcesInv'
<1>1. /\ configured' = p.configured /\ saved' = p.saved /\ unsaved' = p.unsaved /\ stream' = p.stream
      /\ sourceState' = p.sourceState /\ probing' = p.probing /\ heard' = p.heard /\ told' = p.told
      /\ named' = p.named /\ putBack' = p.putBack
  BY DEF Becomes
<1>2. SourcesTypeOK'
  BY <1>1 DEF PageType, Socket, StatusShown, nameStore, envVars, SourcesInv, SourcesTypeOK
<1>3. Clean(Page)' /\ Covered(Page, byHand)'
  BY <1>1 DEF Clean, Covered, OpenIn, Page
<1> QED BY <1>2, <1>3 DEF envVars, SourcesInv

\* What a handler may start from.
LEMMA PageGood ==
  ASSUME SourcesInv
  PROVE  /\ Page \in PageType /\ Clean(Page) /\ Covered(Page, byHand) /\ byHand \in BOOLEAN
         /\ Page.configured = configured /\ Page.probing = probing /\ Page.stream = stream
         /\ turns \in Nat /\ probing \in BOOLEAN /\ configured \subseteq Source
  BY PageTyped DEF SourcesInv, SourcesTypeOK

LEMMA SourcesStart == SourcesInit => SourcesInv
<1> SUFFICES ASSUME SourcesInit PROVE SourcesInv
  OBVIOUS
<1>1. NewStream \in Stream /\ NoStream \in Stream /\ NewStream.open /\ ~NoStream.open /\ NoStream.socket = "closed"
  BY DEF NewStream, NoStream, Stream
<1>2. stream \in [Source -> Stream] /\ sourceState \in [Source -> {"none", "connecting", "live", "reconnecting"}]
  BY <1>1 DEF SourcesInit
<1>3. SourcesTypeOK
  <2>1. /\ configured = {} /\ saved = NoneStored /\ unsaved = FALSE /\ probing = TRUE /\ heard = {} /\ byHand = FALSE
        /\ turns = 0 /\ outages = 0 /\ loads = 0 /\ updates = 0
    BY DEF SourcesInit
  <2>2. told \in [Source -> SUBSET Told] /\ seen \in [Receiver -> Nat] /\ build \in [Receiver -> Nat \ {0}]
    BY DEF SourcesInit
  <2>3. server \in [Source -> {"up", "busy", "down"}]
    BY DEF SourcesInit
  <2>4. configured \subseteq Source /\ heard \subseteq Device
    BY <2>1
  <2>7. saved \in (SUBSET Source) \cup {NoneStored}
    BY <2>1
  <2>5. unsaved \in BOOLEAN /\ probing \in BOOLEAN /\ byHand \in BOOLEAN
    BY <2>1
  <2>6. turns \in Nat /\ outages \in Nat /\ loads \in Nat /\ updates \in Nat
    BY <2>1
  <2>8. /\ named \subseteq Source /\ putBack \subseteq Source /\ savedNames \subseteq Source /\ namesUnsaved \in BOOLEAN
        /\ takesBack \in {"none", "name", "clear"}
    BY DEF SourcesInit
  <2> QED BY <1>2, <2>2, <2>3, <2>4, <2>5, <2>6, <2>7, <2>8 DEF SourcesTypeOK
<1>4. \A b \in Source : IF b = HomeSource THEN stream[b].open
                        ELSE ~stream[b].open /\ stream[b].socket = "closed" /\ sourceState[b] = "none"
  BY <1>1 DEF SourcesInit
<1>5. OpenIn(Page) = {HomeSource}
  BY <1>3, <1>4, PageTyped, SourcesNamed DEF OpenIn
<1>6. Clean(Page)
  BY <1>3, <1>4, <1>5, PageTyped DEF SourcesInit, Clean
<1>7. Covered(Page, byHand)
  BY <1>3, <1>5, PageTyped DEF SourcesInit, Covered
<1> QED BY <1>3, <1>6, <1>7 DEF SourcesInit, SourcesInv

\* A stream that is open takes another socket and another state.
LEMMA OpenStreamTurns ==
  ASSUME SourcesInv, NEW b \in Source, stream[b].open, NEW socket \in {"closed", "connecting", "live"}, NEW retry \in BOOLEAN,
         NEW state \in StatusShown, NEW p,
         p = Turned(b, socket, retry, state)
  PROVE  /\ p \in PageType /\ Clean(p) /\ OpenIn(p) = OpenIn(Page)
         /\ p.configured = configured /\ p.probing = probing
<1> DEFINE s == [stream EXCEPT ![b] = [open |-> stream[b].open, socket |-> socket, retry |-> retry]]
           t == [sourceState EXCEPT ![b] = state]
<1>1. stream \in Socket /\ sourceState \in [Source -> StatusShown]
  BY DEF SourcesInv, SourcesTypeOK, Socket, StatusShown
<1>2. /\ s \in Socket /\ t \in [Source -> StatusShown] /\ s[b].open
      /\ \A c \in Source \ {b} : s[c] = stream[c] /\ t[c] = sourceState[c]
  BY <1>1 DEF Socket, Stream
<1>3. p = [Page EXCEPT !.stream = s, !.sourceState = t]
  BY DEF Turned
<1> HIDE DEF s, t
<1>4. /\ p \in PageType /\ p.stream = s /\ p.sourceState = t /\ p.heard = Page.heard /\ p.told = Page.told
      /\ p.named = Page.named /\ p.putBack = Page.putBack
      /\ p.configured = Page.configured /\ p.probing = Page.probing
  BY <1>2, <1>3, PageGood DEF PageType
<1>5. OpenIn(p) = OpenIn(Page)
  BY <1>2, <1>4, PageGood DEF OpenIn
<1>6. Page.stream = stream /\ Page.sourceState = sourceState /\ Clean(Page)
  BY PageTyped DEF SourcesInv
<1>7. Clean(p)
  <2>1. b \in OpenIn(p)
    BY <1>2, <1>4 DEF OpenIn
  <2> QED BY <1>2, <1>4, <1>5, <1>6, <2>1 DEF Clean
<1> QED BY <1>4, <1>5, <1>7, PageGood

\* What Clean says of a socket that is not closed.
LEMMA SocketIsOpen ==
  ASSUME SourcesInv, NEW b \in Source, stream[b].socket # "closed"
  PROVE  stream[b].open
  BY PageTyped DEF SourcesInv, Clean, OpenIn

LEMMA ConnectionsStayGood == ASSUME SourcesInv, NEW b \in Source, Connected(b) PROVE SourcesInv'
<1> DEFINE live == Turned(b, "live", stream[b].retry, "live")
<1>1. stream[b].socket = "connecting" /\ Keep
  BY DEF Connected
<1>2. stream[b].open
  BY <1>1, SocketIsOpen
<1>3. stream[b].retry \in BOOLEAN
  BY DEF SourcesInv, SourcesTypeOK, Stream
<1>5. PICK refused \in {FALSE, StorageFails} :
        Becomes(IF probing /\ b = HomeSource THEN AdoptProbe(live, refused) ELSE live)
  BY DEF Connected
<1> HIDE DEF live
<1>6. live \in PageType /\ Clean(live) /\ OpenIn(live) = OpenIn(Page) /\ live.configured = configured /\ live.probing = probing
  BY <1>2, <1>3, OpenStreamTurns DEF StatusShown, live
<1>7. refused \in BOOLEAN
  BY <1>5, StorageMay
<1>8. byHand' = byHand /\ seen' = seen /\ UNCHANGED <<nameStore, envVars>> /\ turns' = turns /\ loads' = loads
  BY <1>1 DEF Keep
<1>9. CASE ~(probing /\ b = HomeSource)
  <2>1. Covered(live, byHand)
    BY <1>6, PageGood DEF Covered
  <2> QED BY <1>5, <1>6, <1>8, <1>9, <2>1, PageGood, GoodPageStays
<1>10. CASE probing /\ b = HomeSource
  <2> DEFINE adopted == [live EXCEPT !.probing = FALSE]
             r == AdoptProbe(live, refused)
  <2>1. /\ adopted \in PageType /\ adopted.probing = FALSE /\ adopted.configured = configured
        /\ OpenIn(adopted) = OpenIn(live) /\ Clean(adopted)
    BY <1>6 DEF PageType, OpenIn, Clean
  <2>2. r = IF HomeSource \in live.configured THEN adopted ELSE Configure(adopted, live.configured \cup {HomeSource}, refused)
    BY DEF AdoptProbe
  <2>3. Becomes(r)
    BY <1>5, <1>10
  <2> HIDE DEF adopted, r
  <2>4. CASE HomeSource \in configured
    <3>1. r = adopted
      BY <1>6, <2>2, <2>4
    <3>2. Covered(r, byHand)
      BY <1>6, <2>1, <2>4, <3>1, PageGood DEF Covered
    <3> QED BY <1>8, <2>1, <2>3, <3>1, <3>2, PageGood, GoodPageStays
  <2>5. CASE HomeSource \notin configured
    <3> DEFINE bases == configured \cup {HomeSource}
    <3>1. r = Configure(adopted, bases, refused) /\ bases \in SUBSET Source
      BY <1>6, <2>2, <2>5, PageGood, SourcesNamed
    <3>2. r \in PageType /\ r.configured = bases /\ r.probing = FALSE /\ OpenIn(r) = bases /\ Clean(r)
      BY <1>7, <2>1, <3>1, ConfiguredPage
    <3>3. Covered(r, byHand)
      BY <3>2 DEF Covered
    <3> QED BY <1>8, <2>3, <3>2, <3>3, PageGood, GoodPageStays
  <2> QED BY <2>4, <2>5
<1> QED BY <1>9, <1>10

\* A probe that ends takes the origin's stream along, which was all it had open.
LEMMA AbortedStaysGood ==
  ASSUME SourcesInv, probing, NEW p \in PageType, Clean(p), OpenIn(p) = OpenIn(Page), p.configured = configured,
         NEW inError \in BOOLEAN, Becomes(AbortProbe(p, inError)), Keep
  PROVE  SourcesInv'
<1> DEFINE r == AbortProbe(p, inError)
<1>1. r \in PageType /\ r.configured = configured /\ ~r.probing /\ OpenIn(r) = OpenIn(Page) \ {HomeSource} /\ Clean(r)
  BY AbortedPage
<1>2. Becomes(r)
  OBVIOUS
<1> HIDE DEF r
<1>3. Covered(r, byHand)
  BY <1>1, PageGood DEF Covered
<1>4. byHand' = byHand /\ seen' = seen /\ UNCHANGED <<nameStore, envVars>> /\ turns' = turns /\ loads' = loads
  BY DEF Keep
<1> QED BY <1>1, <1>2, <1>3, <1>4, PageGood, GoodPageStays

LEMMA ErrorsStayGood == ASSUME SourcesInv, NEW b \in Source, Errored(b) PROVE SourcesInv'
<1> DEFINE refused == stream[b].socket = "connecting" /\ server[b] = "busy"
           socket == IF refused THEN "closed" ELSE "connecting"
           waiting == Turned(b, socket, refused, "reconnecting")
<1>1. stream[b].socket # "closed" /\ Keep
  BY DEF Errored
<1>2. stream[b].open
  BY <1>1, SocketIsOpen
<1>3. refused \in BOOLEAN /\ socket \in {"closed", "connecting", "live"}
  OBVIOUS
<1>4. Becomes(IF probing /\ b = HomeSource THEN AbortProbe(waiting, TRUE) ELSE waiting)
  BY DEF Errored
<1> HIDE DEF refused, socket
<1> HIDE DEF waiting
<1>6. waiting \in PageType /\ Clean(waiting) /\ OpenIn(waiting) = OpenIn(Page) /\ waiting.configured = configured /\ waiting.probing = probing
  BY <1>2, <1>3, OpenStreamTurns DEF StatusShown, waiting
<1>7. CASE probing /\ b = HomeSource
  BY <1>1, <1>4, <1>6, <1>7, AbortedStaysGood
<1>8. CASE ~(probing /\ b = HomeSource)
  <2>1. Covered(waiting, byHand)
    BY <1>6, PageGood DEF Covered
  <2>2. byHand' = byHand /\ seen' = seen /\ UNCHANGED <<nameStore, envVars>> /\ turns' = turns /\ loads' = loads
    BY <1>1 DEF Keep
  <2> QED BY <1>4, <1>6, <1>8, <2>1, <2>2, PageGood, GoodPageStays
<1> QED BY <1>7, <1>8

LEMMA TimeoutStaysGood == ASSUME SourcesInv, ProbeTimesOut PROVE SourcesInv'
  BY PageGood, AbortedStaysGood DEF ProbeTimesOut

\* A page on its own: the frames and the timers that touch no source's being open.
LEMMA FramesStayGood ==
  ASSUME SourcesInv, NEW b \in Source, NEW kind \in Told, NEW set \in BOOLEAN, Frame(b, kind, set)
  PROVE  SourcesInv'
<1>1. stream[b].open
  BY SocketIsOpen DEF Frame
<1>2. told' \in [Source -> SUBSET Told] /\ \A c \in Source \ {b} : told'[c] = told[c]
  BY DEF Frame, SourcesInv, SourcesTypeOK
<1>3. UNCHANGED <<configured, saved, unsaved, stream, sourceState, probing, heard, named, putBack>> /\ Keep
  BY DEF Frame
<1>4. SourcesTypeOK'
  BY <1>2, <1>3 DEF Keep, nameStore, envVars, SourcesInv, SourcesTypeOK
<1>5. Clean(Page)' /\ Covered(Page, byHand)'
  BY <1>1, <1>2, <1>3 DEF Keep, Clean, Covered, OpenIn, Page, SourcesInv
<1> QED BY <1>3, <1>4, <1>5 DEF Keep, envVars, SourcesInv

LEMMA RetriesStayGood == ASSUME SourcesInv, NEW b \in Source, RetryFires(b) PROVE SourcesInv'
<1> DEFINE s == [stream EXCEPT ![b] = [open |-> stream[b].open, retry |-> FALSE,
                                       socket |-> IF stream[b].open THEN "connecting" ELSE stream[b].socket]]
<1>1. stream[b] \in Stream /\ stream \in [Source -> Stream]
  BY DEF SourcesInv, SourcesTypeOK
<1>2. stream' = s
  BY DEF RetryFires
<1>3. s \in [Source -> Stream] /\ \A c \in Source : s[c].open = stream[c].open /\ (s[c].socket = stream[c].socket \/ stream[c].open)
  BY <1>1 DEF Stream
<1> HIDE DEF s
<1>4. UNCHANGED <<configured, saved, unsaved, sourceState, probing, heard, told, named, putBack>> /\ Keep
  BY DEF RetryFires
<1>5. SourcesTypeOK'
  BY <1>2, <1>3, <1>4 DEF Keep, nameStore, envVars, SourcesInv, SourcesTypeOK
<1>6. OpenIn(Page)' = OpenIn(Page)
  BY <1>2, <1>3 DEF OpenIn, Page
<1>7. Clean(Page)' /\ Covered(Page, byHand)'
  BY <1>2, <1>3, <1>4, <1>6 DEF Keep, Clean, Covered, OpenIn, Page, SourcesInv
<1> QED BY <1>4, <1>5, <1>7 DEF Keep, envVars, SourcesInv

LEMMA ReadingsStayGood ==
  ASSUME SourcesInv, NEW d \in Device, NEW stale \in SUBSET Device, Reading(d, stale)
  PROVE  SourcesInv'
<1>1. DeviceSource[d] \in Source
  BY SourcesNamed
<1>2. stream[DeviceSource[d]].open
  BY <1>1, SocketIsOpen DEF Reading
<1>3. heard' \subseteq heard \cup {d}
  BY DEF Reading
<1>4. UNCHANGED <<configured, saved, unsaved, stream, sourceState, probing, told, named, putBack, nameStore, envVars, turns, loads, byHand>>
  BY DEF Reading
<1>5. seen' = seen \/ (d \in Receiver /\ seen' = [seen EXCEPT ![d] = build[d]])
  BY DEF Reading
<1>6. seen' \in [Receiver -> Nat] /\ \A r \in Receiver : seen'[r] \in {seen[r], build[r]}
  BY <1>5 DEF SourcesInv, SourcesTypeOK
<1>7. SourcesTypeOK'
  BY <1>3, <1>4, <1>6 DEF nameStore, envVars, SourcesInv, SourcesTypeOK
<1>8. Clean(Page)' /\ Covered(Page, byHand)'
  BY <1>1, <1>2, <1>3, <1>4 DEF Clean, Covered, OpenIn, Page, SourcesInv
<1> QED BY <1>4, <1>6, <1>7, <1>8 DEF envVars, SourcesInv

\* Names: set and cleared of a source that is open, or put back by a rename that failed.
LEMMA NamesSaved ==
  ASSUME SourcesInv, NEW names \in SUBSET Source, SaveNames(names), turns' \in Nat, putBack' \in SUBSET Source,
         takesBack' \in {"none", "name", "clear"},
         \A b \in Source \ OpenSources : b \in names => b \in putBack'
  PROVE  SourcesInv'
<1>1. /\ UNCHANGED <<configured, saved, unsaved, stream, sourceState, probing, heard, told, seen, envVars, loads, byHand>>
      /\ named' = names
  BY DEF SaveNames
<1>2. savedNames' \in SUBSET Source /\ namesUnsaved' \in BOOLEAN
  BY DEF SaveNames, SourcesInv, SourcesTypeOK
<1>3. SourcesTypeOK'
  BY <1>1, <1>2 DEF envVars, SourcesInv, SourcesTypeOK
<1>4. Clean(Page)' /\ Covered(Page, byHand)'
  BY <1>1 DEF Clean, Covered, OpenIn, OpenSources, Page, SourcesInv
<1> QED BY <1>1, <1>3, <1>4 DEF envVars, SourcesInv

LEMMA NamesStayGood ==
  ASSUME SourcesInv,
         \/ \E b \in Source, set \in BOOLEAN : NameFrame(b, set) \/ VisitorRenames(b, set)
         \/ RenameTakenBack \/ RenameTaken
  PROVE  SourcesInv'
<1>0. \A b \in Source \ OpenSources : b \in named => b \in putBack
  BY PageTyped DEF SourcesInv, Clean
<1>1. /\ turns \in Nat /\ putBack \in SUBSET Source /\ named \in SUBSET Source /\ takesBack \in {"none", "name", "clear"}
      /\ HomeSource \in Source
  BY SourcesNamed DEF SourcesInv, SourcesTypeOK
<1>2. ASSUME NEW b \in Source, NEW set \in BOOLEAN, NameFrame(b, set) PROVE SourcesInv'
  <2>1. b \in OpenSources
    BY <1>2, SocketIsOpen DEF NameFrame, OpenSources
  <2> QED BY <1>0, <1>1, <1>2, <2>1, NamesSaved DEF NameFrame, WithName
<1>3. ASSUME NEW b \in Source, NEW set \in BOOLEAN, VisitorRenames(b, set) PROVE SourcesInv'
  <2>1. b \in OpenSources
    BY <1>3, PageTyped DEF VisitorRenames, SourcesInv, Clean
  <2> QED BY <1>0, <1>1, <1>3, <2>1, NamesSaved DEF VisitorRenames, WithName, Turn
<1>4. ASSUME RenameTakenBack PROVE SourcesInv'
  BY <1>0, <1>1, <1>4, NamesSaved DEF RenameTakenBack, WithName
<1>5. ASSUME RenameTaken PROVE SourcesInv'
  <2>1. /\ takesBack' = "none"
        /\ UNCHANGED <<configured, saved, unsaved, stream, sourceState, probing, heard, told, named, putBack,
                       savedNames, namesUnsaved, seen, envVars, turns, loads, byHand>>
    BY <1>5 DEF RenameTaken
  <2>2. SourcesTypeOK'
    BY <2>1 DEF envVars, SourcesInv, SourcesTypeOK
  <2>3. Clean(Page)' /\ Covered(Page, byHand)'
    BY <2>1 DEF Clean, Covered, OpenIn, Page, SourcesInv
  <2> QED BY <2>1, <2>2, <2>3 DEF envVars, SourcesInv
<1> QED BY <1>2, <1>3, <1>4, <1>5

LEMMA VisitorStaysGood ==
  ASSUME SourcesInv, NEW b \in Source, AddSource(b) \/ RemoveSource(b)
  PROVE  SourcesInv'
<1>1. /\ Page \in PageType /\ Clean(Page) /\ Covered(Page, byHand) /\ byHand \in BOOLEAN
      /\ Page.configured = configured /\ Page.probing = probing /\ turns \in Nat /\ probing \in BOOLEAN /\ configured \subseteq Source
  BY PageGood
<1>2. PICK bases \in SUBSET Source, refused \in BOOLEAN :
        /\ Becomes(Configure(Page, bases, refused))
        /\ \/ bases = configured \cup {b} /\ byHand' = (byHand \/ (probing /\ b = HomeSource))
           \/ bases = configured \ {b} /\ byHand' = (byHand /\ b # HomeSource)
  BY <1>1, StorageMay DEF AddSource, RemoveSource
<1>3. turns' \in Nat /\ seen' = seen /\ UNCHANGED <<nameStore, envVars>> /\ loads' = loads
  <2>1. Turn /\ UNCHANGED <<nameStore, seen, envVars, loads>>
    BY DEF AddSource, RemoveSource
  <2> QED BY <1>1, <2>1 DEF Turn
<1> DEFINE r == Configure(Page, bases, refused)
<1>4. /\ r \in PageType /\ r.configured = bases /\ r.probing = probing /\ Clean(r)
      /\ OpenIn(r) = bases \cup (IF probing THEN OpenIn(Page) \cap {HomeSource} ELSE {})
  BY <1>1, ConfiguredPage
<1>5. Becomes(r)
  BY <1>2
<1> HIDE DEF r
<1>6. byHand' \in BOOLEAN /\ (probing /\ HomeSource \in bases => byHand')
  BY <1>1, <1>2 DEF Covered
<1>7. Covered(r, byHand')
  BY <1>1, <1>4, <1>6 DEF Covered
<1> QED BY <1>3, <1>4, <1>5, <1>6, <1>7, GoodPageStays

\* A page that is loaded: a probe and nothing else, or what was saved.
LEMMA LoadedPage ==
  ASSUME SourcesTypeOK, NEW unreadable \in BOOLEAN, NEW r, r = Loaded(unreadable)
  PROVE  r \in PageType /\ Clean(r) /\ Covered(r, FALSE)
<1> DEFINE restored == IF unreadable \/ saved = NoneStored THEN {} ELSE saved
           probes == unreadable \/ saved = NoneStored
           s == [b \in Source |-> IF probes /\ b = HomeSource THEN NewStream ELSE NoStream]
           t == [b \in Source |-> IF probes /\ b = HomeSource THEN "connecting" ELSE "none"]
           w == [b \in Source |-> {}]
           n == IF unreadable THEN {} ELSE savedNames
           blank == [configured |-> restored, saved |-> saved, unsaved |-> unreadable, probing |-> probes,
                     stream |-> s, sourceState |-> t, heard |-> {}, told |-> w, named |-> n, putBack |-> n]
<1>1. r = Synced(blank)
  BY DEF Loaded
<1>2. NewStream \in Stream /\ NoStream \in Stream /\ NewStream.open /\ ~NoStream.open /\ NoStream.socket = "closed"
  BY DEF NewStream, NoStream, Stream
<1>3. s \in Socket /\ t \in [Source -> StatusShown] /\ w \in [Source -> SUBSET Told] /\ n \in SUBSET Source
  BY <1>2 DEF Socket, StatusShown, SourcesTypeOK
<1>4. restored \in SUBSET Source /\ probes \in BOOLEAN /\ (probes => restored = {}) /\ saved \in (SUBSET Source) \cup {NoneStored}
  <2>1. saved \in (SUBSET Source) \cup {NoneStored}
    BY DEF SourcesTypeOK
  <2>2. probes => restored = {}
    OBVIOUS
  <2>4. restored \in SUBSET Source
    <3>1. CASE unreadable \/ saved = NoneStored
      BY <3>1
    <3>2. CASE ~(unreadable \/ saved = NoneStored)
      <4>1. restored = saved /\ saved # NoneStored
        BY <3>2
      <4> QED BY <2>1, <4>1
    <3> QED BY <3>1, <3>2
  <2>3. probes \in BOOLEAN
    OBVIOUS
  <2> QED BY <2>1, <2>2, <2>3, <2>4
<1>5. \A b \in Source : /\ s[b].open <=> probes /\ b = HomeSource
                        /\ ~s[b].open => s[b].socket = "closed" /\ t[b] = "none"
                        /\ w[b] = {}
  BY <1>2
<1> HIDE DEF s, t, w, n, restored, probes
<1>6. /\ blank \in PageType /\ blank.configured = restored /\ blank.probing = probes
      /\ blank.stream = s /\ blank.sourceState = t /\ blank.heard = {} /\ blank.told = w
      /\ blank.named = n /\ blank.putBack = n
  BY <1>3, <1>4 DEF PageType
<1> HIDE DEF blank
<1>7. OpenIn(blank) = IF probes THEN {HomeSource} ELSE {}
  BY <1>4, <1>5, <1>6, SourcesNamed DEF OpenIn
<1>8. Clean(blank)
  BY <1>5, <1>6 DEF Clean, OpenIn
<1>9. /\ r \in PageType /\ r.configured = restored /\ r.probing = probes /\ Clean(r)
      /\ OpenIn(r) = restored \cup (IF probes THEN OpenIn(blank) \cap {HomeSource} ELSE {})
  BY <1>1, <1>6, <1>8, SyncedFields
<1>10. Covered(r, FALSE)
  BY <1>4, <1>7, <1>9 DEF Covered
<1> QED BY <1>9, <1>10

LEMMA LoadsStayGood ==
  ASSUME SourcesInv, VisitorReloads \/ \E d \in Receiver : ReloadForBuild(d)
  PROVE  SourcesInv'
<1>1. Load /\ UNCHANGED envVars
  BY DEF VisitorReloads, ReloadForBuild
<1>2. PICK unreadable \in {FALSE, StorageFails} : Becomes(Loaded(unreadable))
  BY <1>1 DEF Load
<1> DEFINE r == Loaded(unreadable)
<1>3. unreadable \in BOOLEAN
  BY <1>2, StorageMay
<1>4. r \in PageType /\ Clean(r) /\ Covered(r, FALSE) /\ Becomes(r)
  BY <1>2, <1>3, LoadedPage DEF SourcesInv
<1> HIDE DEF r
<1>5. /\ seen' = [d \in Receiver |-> 0] /\ byHand' = FALSE
      /\ savedNames' = savedNames /\ namesUnsaved' \in BOOLEAN /\ takesBack' = "none"
  BY <1>1, StorageMay DEF Load
<1>6. /\ turns' \in Nat
      /\ loads' = loads \/ (loads' = loads + 1 /\ \E d \in Receiver : seen[d] \notin {0, build[d]})
  BY DEF VisitorReloads, ReloadForBuild, BuildChanged, Turn, SourcesInv, SourcesTypeOK
<1>7. /\ configured' = r.configured /\ saved' = r.saved /\ unsaved' = r.unsaved /\ stream' = r.stream
      /\ sourceState' = r.sourceState /\ probing' = r.probing /\ heard' = r.heard /\ told' = r.told
      /\ named' = r.named /\ putBack' = r.putBack
  BY <1>4 DEF Becomes
<1>8. loads' \in Nat /\ loads' <= updates
  BY <1>6 DEF SourcesInv, SourcesTypeOK
<1>9. seen' \in [Receiver -> Nat] /\ \A d \in Receiver : seen'[d] = 0
  BY <1>5
<1>10. SourcesTypeOK'
  BY <1>1, <1>4, <1>5, <1>6, <1>7, <1>8, <1>9 DEF PageType, Socket, StatusShown, envVars, SourcesInv, SourcesTypeOK
<1>11. Clean(Page)' /\ Covered(Page, byHand)'
  BY <1>4, <1>5, <1>7 DEF Clean, Covered, OpenIn, Page
<1> QED BY <1>1, <1>8, <1>9, <1>10, <1>11 DEF envVars, SourcesInv

LEMMA ServersStayGood ==
  ASSUME SourcesInv,
         (\E b \in Source, s \in {"up", "busy", "down"} : ServerTurns(b, s)) \/ \E r \in Receiver : FirmwareUpdated(r)
  PROVE  SourcesInv'
<1>1. UNCHANGED clientVars /\ turns' = turns /\ loads' = loads /\ byHand' = byHand
  BY DEF ServerTurns, FirmwareUpdated
<1>2. Clean(Page)' /\ Covered(Page, byHand)'
  BY <1>1 DEF clientVars, Clean, Covered, OpenIn, Page, SourcesInv
<1>3. ASSUME NEW b \in Source, NEW s \in {"up", "busy", "down"}, ServerTurns(b, s) PROVE SourcesInv'
  <2>1. SourcesTypeOK'
    BY <1>1, <1>3 DEF ServerTurns, clientVars, nameStore, SourcesInv, SourcesTypeOK
  <2> QED BY <1>1, <1>2, <1>3, <2>1 DEF ServerTurns, clientVars, SourcesInv
<1>4. ASSUME NEW r \in Receiver, FirmwareUpdated(r) PROVE SourcesInv'
  <2>1. SourcesTypeOK'
    BY <1>1, <1>4 DEF FirmwareUpdated, clientVars, nameStore, SourcesInv, SourcesTypeOK
  <2>2. updates' = updates + 1 /\ updates \in Nat /\ loads \in Nat
    BY <1>4 DEF FirmwareUpdated, SourcesInv, SourcesTypeOK
  <2>3. loads' < updates'
    BY <1>1, <2>2 DEF SourcesInv
  <2>4. loads' <= updates'
    BY <1>1, <2>2 DEF SourcesInv
  <2> QED BY <1>2, <2>1, <2>3, <2>4 DEF SourcesInv
<1> QED BY <1>3, <1>4

LEMMA SourcesStutter == ASSUME SourcesInv, UNCHANGED sourceVars PROVE SourcesInv'
<1>1. UNCHANGED <<clientVars, envVars, turns, loads, byHand>>
  BY DEF sourceVars
<1>2. Clean(Page)' /\ Covered(Page, byHand)'
  BY <1>1 DEF clientVars, Clean, Covered, OpenIn, Page, SourcesInv
<1>3. SourcesTypeOK'
  BY <1>1 DEF clientVars, nameStore, envVars, SourcesInv, SourcesTypeOK
<1> QED BY <1>1, <1>2, <1>3 DEF clientVars, envVars, SourcesInv

LEMMA SourcesStep == SourcesInv /\ [SourcesNext]_sourceVars => SourcesInv'
BY ConnectionsStayGood, ErrorsStayGood, TimeoutStaysGood, FramesStayGood, RetriesStayGood, ReadingsStayGood,
   NamesStayGood, VisitorStaysGood, LoadsStayGood, ServersStayGood, SourcesStutter DEF SourcesNext

LEMMA SourcesAlways == SourcesSpec => []SourcesInv
<1> QED BY SourcesStep, SourcesStart, PTL DEF SourcesSpec

\* Types of the sources' state.
THEOREM SourcesTyped == SourcesSpec => []SourcesTypeOK
<1>1. SourcesInv => SourcesTypeOK BY DEF SourcesInv
<1> QED BY <1>1, SourcesAlways, PTL

\* For any sources and servers: the streams open are those of the sources and of
\* a probe (syncSources, adoptProbe and abortProbe of main.jsx).
THEOREM StreamsPerSource == SourcesSpec => []StreamPerSource
<1>1. SourcesInv => StreamPerSource
  BY PageTyped DEF SourcesInv, Covered, StreamPerSource
<1> QED BY <1>1, SourcesAlways, PTL

\* For any sources, devices, frames and names: of a source that is not open
\* nothing is left on the page, but for names a page load or a failed rename put
\* back (dropSource of main.jsx, loadAliases and revert of alias.js).
THEOREM RemovedLeaveNothing == SourcesSpec => []NothingOfRemoved
<1>1. SourcesInv => NothingOfRemoved
  BY PageTyped DEF SourcesInv, Clean, NothingOfRemoved
<1> QED BY <1>1, SourcesAlways, PTL

\* For any number of receivers and updates: the page reloads itself no more often
\* than firmware was updated (buildChanged of reload.js).
THEOREM ReloadsBounded == SourcesSpec => []NoReloadLoop
<1>1. SourcesInv => NoReloadLoop BY DEF SourcesInv, NoReloadLoop
<1> QED BY <1>1, SourcesAlways, PTL

-----------------------------------------------------------------------------
(***************************************************************************)
(* PageSettings.  Beside what ChoicesStick says, the induction needs that  *)
(* unitsAuto is down exactly when units have been chosen, and that what is *)
(* kept has no name of another place.                                      *)
(***************************************************************************)
LEMMA IndexExists ==
  ASSUME NEW S \in SUBSET Nat, S # {}
  PROVE  Min(S) \in S
<1> DEFINE R == {p \in Nat \X Nat : p[1] < p[2]}
<1>1. IsWellFoundedOn(R, Nat)
  BY NatLessThanWellFounded DEF OpToRel
<1>2. \A x, y \in Nat : <<y, x>> \in R <=> y < x
  OBVIOUS
<1> HIDE DEF R
<1>3. PICK x \in S : \A y \in S : ~ (<<y, x>> \in R)
  BY <1>1, WFMin
<1>4. ASSUME NEW y \in S PROVE x <= y
  <2>1. x \in Nat /\ y \in Nat
    OBVIOUS
  <2>2. ~ (y < x)
    BY <1>2, <1>3, <2>1
  <2> QED BY <2>1, <2>2
<1> QED BY <1>4 DEF Min

\* What is found among the sources' frames is one of them, or none.
LEMMA FirstOfThem ==
  ASSUME NEW S, NEW published \in [ToSet(SourceList) -> S \cup {Unset}]
  PROVE  /\ FirstOf(published) \in S \cup {Unset}
         /\ (\A b \in ToSet(SourceList) : published[b] = Unset) => FirstOf(published) = Unset
<1> DEFINE found == {i \in 1..Len(SourceList) : published[SourceList[i]] # Unset}
           at == IF found # {} THEN Min(found) ELSE 0
<1>1. FirstOf(published) = IF at = 0 THEN Unset ELSE published[SourceList[at]]
  BY DEF FirstOf, SelectInSeq
<1>2. found # {} => at \in 1..Len(SourceList)
  <2>1. found \in SUBSET Nat
    OBVIOUS
  <2>2. found # {} => Min(found) \in found
    BY <2>1, IndexExists
  <2> QED BY <2>2
<1>3. found = {} => at = 0
  OBVIOUS
<1> HIDE DEF at, found
<1>4. \A i \in 1..Len(SourceList) : SourceList[i] \in ToSet(SourceList)
  BY SourcesListed DEF ToSet
<1> QED BY <1>1, <1>2, <1>3, <1>4

LEMMA OffsetsKnown == ASSUME SettingsTypeOK PROVE ActiveZone \in Zone /\ \A z \in Zone : OffsetOf(z) \in Offset
<1>1. settings.zone \in Zone \cup {Unset}
  BY DEF SettingsTypeOK, Setting
<1>2. FirstOf(sitePlaces) \in [place : Place, zone : Zone] \cup {Unset}
  BY FirstOfThem DEF SettingsTypeOK
<1>3. ActiveZone \in Zone
  BY <1>1, <1>2, ZonesKnown DEF ActiveZone
<1>4. \A z \in Zone : OffsetOf(z) \in Offset
  BY DEF OffsetOf, Offset, SettingsTypeOK
<1> QED BY <1>3, <1>4

SettingsInv ==
  /\ SettingsTypeOK /\ ChoicesStick
  /\ unitsAuto => chosen.units = Unset
  /\ ~unitsAuto => chosen.units # Unset
  /\ kept # Unset => LabelFits(kept.settings)

Labels == (Place \cup {Unset}) \X (Place \cup {Unset})

LEMMA SettingsStart == SettingsInit => SettingsInv
<1> SUFFICES ASSUME SettingsInit PROVE SettingsInv
  OBVIOUS
<1>1. settings \in Setting /\ settings.label = Unset /\ settings.place = Unset
  BY UnitsKnown DEF SettingsInit, Fresh, Setting
<1>2. chosen \in [units : Units \cup {Unset}, place : Place \cup {Unset}] /\ chosen.units = Unset /\ chosen.place = Unset
  BY DEF SettingsInit
<1>3. FirstOf(siteUnits) = Unset
  BY FirstOfThem DEF SettingsInit
<1>4. lookups \in Seq(Place)
  BY DEF SettingsInit
<1>5. SettingsTypeOK
  BY <1>1, <1>2, <1>4 DEF SettingsInit, SettingsTypeOK
<1> QED BY <1>1, <1>2, <1>3, <1>5 DEF SettingsInit, SettingsInv, ChoicesStick, LabelOfPlace, LabelFits

-----------------------------------------------------------------------------
\* What a save leaves in localStorage.
LEMMA SavedSettings ==
  ASSUME SettingsInv, settings' \in Setting, unitsAuto' \in BOOLEAN, SaveSettings,
         edited \subseteq edited', LabelOfPlace'
  PROVE  /\ kept' \in KeptSettings \cup {Unset} /\ unkept' \in BOOLEAN
         /\ kept' # Unset => LabelFits(kept.settings)'
         /\ ~unkept' => kept' # Unset /\ (kept'.unitsChosen <=> ~unitsAuto')
<1> DEFINE entry == [settings |-> settings', unitsChosen |-> ~unitsAuto']
<1>1. entry \in KeptSettings /\ entry.settings = settings' /\ (entry.unitsChosen <=> ~unitsAuto')
  BY DEF KeptSettings
<1>2. entry # Unset
  BY <1>1, UnsetNamed
<1>3. (kept' = entry /\ unkept' = unkept) \/ (unkept' = TRUE /\ kept' = kept)
  BY DEF SaveSettings
<1> HIDE DEF entry
<1>4. CASE kept' = entry /\ unkept' = unkept
  BY <1>1, <1>2, <1>4 DEF SettingsInv, SettingsTypeOK, LabelOfPlace, LabelFits
<1>5. CASE unkept' = TRUE /\ kept' = kept
  BY <1>5 DEF SettingsInv, SettingsTypeOK, LabelFits
<1> QED BY <1>3, <1>4, <1>5

\* The types of what concerns the receiver's time zone.
TzTypes ==
  /\ {lastPostedTzOffset, tzPost, stray, siteTz} \subseteq Offset \cup {Unset}
  /\ tzThrottled \in BOOLEAN

Chosen == [units : Units \cup {Unset}, place : Place \cup {Unset}]

LEMMA TzRequested ==
  ASSUME SettingsTypeOK, NEW offset \in Offset, NEW user \in BOOLEAN, RequestTz(offset, user), siteTz' = siteTz
  PROVE  TzTypes'
<1>1. CASE UNCHANGED tzVars
  BY <1>1 DEF tzVars, SettingsTypeOK, TzTypes
<1>2. CASE tzPost' = offset /\ UNCHANGED <<lastPostedTzOffset, tzThrottled, stray>>
  BY <1>2 DEF SettingsTypeOK, TzTypes
<1> QED BY <1>1, <1>2 DEF RequestTz

\* A save of new settings whose units and place are those last chosen.
LEMMA ChoicesKeptBySave ==
  ASSUME SettingsInv, settings' \in Setting, unitsAuto' \in BOOLEAN, SaveSettings,
         chosen' \in Chosen, settings'.place = chosen'.place, LabelOfPlace',
         edited \subseteq edited', edited' \subseteq Labels,
         unitsAuto' => chosen'.units = Unset /\ unitsAuto /\ settings'.units = settings.units,
         ~unitsAuto' => chosen'.units = settings'.units,
         siteUnits' = siteUnits,
         sitePlaces' = sitePlaces, siteTakes' = siteTakes, season' = season, slipped' = slipped,
         lookups' \in Seq(Place), choices' \in Nat, news' = news, TzTypes'
  PROVE  SettingsInv'
<1>1. /\ kept' \in KeptSettings \cup {Unset} /\ unkept' \in BOOLEAN
      /\ kept' # Unset => LabelFits(kept.settings)'
      /\ ~unkept' => kept' # Unset /\ (kept'.unitsChosen <=> ~unitsAuto')
  BY SavedSettings
<1>2. SettingsTypeOK'
  BY <1>1 DEF SettingsInv, SettingsTypeOK, TzTypes, Chosen, Labels
<1>3. settings'.units \in Units /\ Unset \notin Units
  BY UnsetNamed DEF Setting
<1>4. FirstOf(siteUnits') = FirstOf(siteUnits)
  OBVIOUS
<1>5. chosen'.units # Unset => settings'.units = chosen'.units /\ (~unkept' => kept' # Unset /\ kept'.unitsChosen)
  BY <1>1
<1>6. chosen'.units = Unset /\ FirstOf(siteUnits') # Unset => settings'.units = FirstOf(siteUnits')
  BY <1>3, <1>4 DEF SettingsInv, ChoicesStick
<1>7. ChoicesStick'
  BY <1>5, <1>6 DEF ChoicesStick
<1> QED BY <1>1, <1>2, <1>3, <1>7 DEF SettingsInv

LEMMA UnitsKeepChoices == ASSUME SettingsInv, NEW u \in Units, SetUnits(u) PROVE SettingsInv'
<1>1. settings \in Setting /\ settings' = [settings EXCEPT !.units = u] /\ chosen \in Chosen /\ chosen' = [chosen EXCEPT !.units = u]
  BY DEF SetUnits, SettingsInv, SettingsTypeOK, Chosen
<1>2. settings' \in Setting /\ settings'.units = u /\ settings'.place = settings.place /\ settings'.label = settings.label
  BY <1>1 DEF Setting
<1>3. chosen' \in Chosen /\ chosen'.units = u /\ chosen'.place = chosen.place
  BY <1>1 DEF Chosen
<1>4. settings'.place = chosen'.place /\ LabelOfPlace' /\ edited \subseteq edited' /\ edited' \subseteq Labels
  <2>1. settings.place = chosen.place /\ LabelOfPlace /\ edited' = edited
    BY DEF SetUnits, SettingsInv, ChoicesStick
  <2>2. edited \subseteq Labels
    BY DEF SettingsInv, SettingsTypeOK, Labels
  <2> QED BY <1>2, <1>3, <2>1, <2>2 DEF LabelOfPlace, LabelFits
<1>5. unitsAuto' = FALSE /\ SaveSettings
  BY DEF SetUnits
<1>6. /\ siteUnits' = siteUnits /\ sitePlaces' = sitePlaces /\ siteTakes' = siteTakes /\ season' = season
      /\ slipped' = slipped /\ news' = news /\ siteTz' = siteTz
  BY DEF SetUnits, frameVars, siteVars
<1>7. lookups' \in Seq(Place) /\ choices' \in Nat
  BY DEF SetUnits, Choice, SettingsInv, SettingsTypeOK
<1>8. TzTypes'
  BY <1>6 DEF SetUnits, tzVars, SettingsInv, SettingsTypeOK, TzTypes
<1> QED BY <1>2, <1>3, <1>4, <1>5, <1>6, <1>7, <1>8, ChoicesKeptBySave

LEMMA LocationKeepsChoices ==
  ASSUME SettingsInv, NEW new \in Setting, SetLocation(new), new.units = settings.units,
         chosen' \in Chosen, chosen'.units = chosen.units, chosen'.place = new.place,
         LabelOfPlace', edited \subseteq edited', edited' \subseteq Labels, lookups' \in Seq(Place), choices' \in Nat
  PROVE  SettingsInv'
<1>1. settings' = new /\ unitsAuto' = unitsAuto /\ SaveSettings
  BY DEF SetLocation
<1>2. /\ siteUnits' = siteUnits /\ sitePlaces' = sitePlaces /\ siteTakes' = siteTakes /\ season' = season
      /\ slipped' = slipped /\ news' = news /\ siteTz' = siteTz
  BY DEF SetLocation, frameVars, siteVars
<1>3. TzTypes'
  <2> DEFINE z == IF new.zone # Unset THEN new.zone ELSE LocalZone
  <2>1. z \in Zone
    BY ZonesKnown DEF Setting
  <2>2. OffsetOf(z) \in Offset
    BY <2>1, OffsetsKnown DEF SettingsInv
  <2>3. CASE RequestTz(OffsetOf(z), TRUE)
    BY <1>2, <2>2, <2>3, TzRequested DEF SettingsInv
  <2>4. CASE UNCHANGED tzVars
    BY <1>2, <2>4 DEF tzVars, SettingsInv, SettingsTypeOK, TzTypes
  <2> QED BY <2>3, <2>4 DEF SetLocation
<1>4. unitsAuto \in BOOLEAN /\ (unitsAuto => chosen.units = Unset) /\ (~unitsAuto => chosen.units = settings.units)
  BY DEF SettingsInv, SettingsTypeOK, ChoicesStick
<1> QED BY <1>1, <1>2, <1>3, <1>4, ChoicesKeptBySave

LEMMA PlacesKeepChoices ==
  ASSUME SettingsInv, NEW p \in Place, PickPlace(p) \/ Locate(p) \/ ClickMap(p)
  PROVE  SettingsInv'
<1> DEFINE called == [settings EXCEPT !.place = p, !.label = p]
           bare == [settings EXCEPT !.place = p, !.label = Unset]
<1>1. settings \in Setting /\ chosen \in Chosen /\ chosen' = [chosen EXCEPT !.place = p]
  BY DEF PickPlace, Locate, ClickMap, SettingsInv, SettingsTypeOK, Chosen
<1>2. called \in Setting /\ called.units = settings.units /\ called.place = p /\ called.label = p
  BY <1>1 DEF Setting
<1>3. bare \in Setting /\ bare.units = settings.units /\ bare.place = p /\ bare.label = Unset
  BY <1>1 DEF Setting
<1>4. chosen' \in Chosen /\ chosen'.units = chosen.units /\ chosen'.place = p
  BY <1>1 DEF Chosen
<1>5. edited \subseteq edited' /\ edited' \subseteq Labels
  BY DEF PickPlace, Locate, ClickMap, SettingsInv, SettingsTypeOK, Labels
<1>6. lookups' \in Seq(Place) /\ choices' \in Nat
  <2>1. lookups' = lookups \/ lookups' = Append(lookups, p)
    BY DEF PickPlace, Locate, ClickMap
  <2>2. lookups' \in Seq(Place)
    BY <2>1 DEF SettingsInv, SettingsTypeOK
  <2>3. choices' \in Nat
    BY DEF PickPlace, Locate, ClickMap, Choice, SettingsInv, SettingsTypeOK
  <2> QED BY <2>2, <2>3
<1>7. CASE PickPlace(p)
  <2>1. SetLocation(called)
    BY <1>7 DEF PickPlace
  <2> HIDE DEF called
  <2>2. LabelOfPlace'
    BY <1>2, <2>1 DEF SetLocation, LabelOfPlace, LabelFits
  <2> QED BY <1>2, <1>4, <1>5, <1>6, <2>1, <2>2, LocationKeepsChoices
<1>8. CASE Locate(p) \/ ClickMap(p)
  <2>1. SetLocation(bare)
    BY <1>8 DEF Locate, ClickMap
  <2> HIDE DEF bare
  <2>2. LabelOfPlace'
    BY <1>3, <2>1 DEF SetLocation, LabelOfPlace, LabelFits
  <2> QED BY <1>3, <1>4, <1>5, <1>6, <2>1, <2>2, LocationKeepsChoices
<1> QED BY <1>7, <1>8

LEMMA EditsKeepChoices ==
  ASSUME SettingsInv, NEW p \in Place \cup {Unset}, EditCoordinate(p)
  PROVE  SettingsInv'
<1> DEFINE new == [settings EXCEPT !.place = p]
<1>1. /\ settings \in Setting /\ chosen \in Chosen /\ chosen' = [chosen EXCEPT !.place = p]
      /\ edited' = edited \cup {<<p, settings.label>>} /\ lookups' = lookups /\ choices' = choices + 1
  BY DEF EditCoordinate, Choice, SettingsInv, SettingsTypeOK, Chosen
<1>2. new \in Setting /\ new.units = settings.units /\ new.place = p /\ new.label = settings.label
  BY <1>1 DEF Setting
<1>3. chosen' \in Chosen /\ chosen'.units = chosen.units /\ chosen'.place = p
  BY <1>1 DEF Chosen
<1>4. SetLocation(new)
  BY DEF EditCoordinate
<1> HIDE DEF new
<1>5. LabelOfPlace'
  BY <1>1, <1>2, <1>4 DEF SetLocation, LabelOfPlace, LabelFits
<1>6. edited \subseteq edited' /\ edited' \subseteq Labels
  BY <1>1 DEF SettingsInv, SettingsTypeOK, Setting, Labels
<1>7. lookups' \in Seq(Place) /\ choices' \in Nat
  BY <1>1 DEF SettingsInv, SettingsTypeOK
<1> QED BY <1>2, <1>3, <1>4, <1>5, <1>6, <1>7, LocationKeepsChoices

LEMMA ZonesKeepChoices == ASSUME SettingsInv, NEW z \in Zone \cup {Unset}, SetZone(z) PROVE SettingsInv'
<1> DEFINE new == [settings EXCEPT !.zone = z]
<1>1. settings \in Setting /\ chosen \in Chosen
  BY DEF SettingsInv, SettingsTypeOK, Chosen
<1>2. new \in Setting /\ new.units = settings.units /\ new.place = settings.place /\ new.label = settings.label
  BY <1>1 DEF Setting
<1>3. SetLocation(new) /\ chosen' = chosen /\ lookups' = lookups /\ choices' = choices + 1
  BY DEF SetZone, Choice
<1> HIDE DEF new
<1>4. chosen.place = new.place /\ edited' = edited /\ edited' \subseteq Labels
  BY <1>2 DEF SetZone, SettingsInv, SettingsTypeOK, Labels, ChoicesStick
<1>5. LabelOfPlace'
  BY <1>2, <1>3, <1>4 DEF SetLocation, SettingsInv, ChoicesStick, LabelOfPlace, LabelFits
<1>6. lookups' \in Seq(Place) /\ choices' \in Nat
  BY <1>3 DEF SettingsInv, SettingsTypeOK
<1> QED BY <1>1, <1>2, <1>3, <1>4, <1>5, <1>6, LocationKeepsChoices

\* Steps that leave the choices, and what is known of the sources, alone.
LEMMA ChoicesUntouched ==
  ASSUME SettingsInv, UNCHANGED choiceVars, siteUnits' = siteUnits, SettingsTypeOK'
  PROVE  SettingsInv'
<1>1. FirstOf(siteUnits') = FirstOf(siteUnits)
  OBVIOUS
<1> QED BY <1>1 DEF choiceVars, SettingsInv, ChoicesStick, LabelOfPlace, LabelFits

LEMMA LookupsKeepChoices ==
  ASSUME SettingsInv, LookupFails \/ \E label \in Place \cup {Unset} : LabelArrives(label)
  PROVE  SettingsInv'
<1>1. lookups # <<>> /\ lookups' = Tail(lookups) /\ lookups \in Seq(Place)
  BY DEF LookupFails, LabelArrives, LookupEnds, SettingsInv, SettingsTypeOK
<1>2. lookups' \in Seq(Place) /\ Head(lookups) \in Place
  BY <1>1
<1>3. choices' \in Nat /\ chosen' = chosen
  BY DEF LookupFails, LabelArrives, choiceVars, SettingsInv, SettingsTypeOK
<1>4. CASE LookupFails
  <2>1. SettingsTypeOK'
    BY <1>2, <1>4 DEF LookupFails, choiceVars, frameVars, tzVars, siteVars, SettingsInv, SettingsTypeOK
  <2> QED BY <1>4, <2>1, ChoicesUntouched DEF LookupFails, frameVars
<1>5. ASSUME NEW label \in Place \cup {Unset}, LabelArrives(label) PROVE SettingsInv'
  <2>1. CASE settings.place = Head(lookups)
    <3> DEFINE new == [settings EXCEPT !.label = label]
    <3>1. settings \in Setting /\ chosen \in Chosen
      BY DEF SettingsInv, SettingsTypeOK, Chosen
    <3>2. new \in Setting /\ new.units = settings.units /\ new.place = settings.place /\ new.label = label
      BY <3>1 DEF Setting
    <3>3. SetLocation(new) /\ label \in {Head(lookups), Unset}
      BY <1>5, <2>1 DEF LabelArrives
    <3> HIDE DEF new
    <3>4. chosen.place = new.place /\ edited' = edited /\ edited' \subseteq Labels
      BY <1>5, <3>2 DEF LabelArrives, SettingsInv, SettingsTypeOK, Labels, ChoicesStick
    <3>5. LabelOfPlace'
      BY <2>1, <3>2, <3>3 DEF SetLocation, LabelOfPlace, LabelFits
    <3> QED BY <1>2, <1>3, <3>1, <3>2, <3>3, <3>4, <3>5, LocationKeepsChoices
  <2>2. CASE settings.place # Head(lookups)
    <3>1. SettingsTypeOK'
      BY <1>2, <1>3, <1>5, <2>2 DEF LabelArrives, frameVars, tzVars, siteVars, SettingsInv, SettingsTypeOK
    <3>2. UNCHANGED choiceVars /\ siteUnits' = siteUnits
      BY <1>5, <2>2 DEF LabelArrives, choiceVars, frameVars
    <3> QED BY <3>1, <3>2, ChoicesUntouched
  <2> QED BY <2>1, <2>2
<1> QED BY <1>4, <1>5

LEMMA ClearKeepsChoices == ASSUME SettingsInv, ClearLocation PROVE SettingsInv'
<1>1. /\ settings \in Setting /\ settings' = [settings EXCEPT !.place = Unset, !.label = Unset, !.zone = Unset]
      /\ chosen \in Chosen /\ chosen' = [chosen EXCEPT !.place = Unset] /\ unitsAuto' = unitsAuto /\ SaveSettings
  BY DEF ClearLocation, SettingsInv, SettingsTypeOK, Chosen
<1>2. settings' \in Setting /\ settings'.units = settings.units /\ settings'.place = Unset /\ settings'.label = Unset
  BY <1>1 DEF Setting
<1>3. chosen' \in Chosen /\ chosen'.units = chosen.units /\ chosen'.place = Unset
  BY <1>1 DEF Chosen
<1>4. /\ siteUnits' = siteUnits /\ sitePlaces' = sitePlaces /\ siteTakes' = siteTakes /\ season' = season
      /\ slipped' = slipped /\ news' = news /\ siteTz' = siteTz
  BY DEF ClearLocation, frameVars, siteVars
<1>5. lookups' \in Seq(Place) /\ choices' \in Nat
  BY DEF ClearLocation, Choice, SettingsInv, SettingsTypeOK
<1>6. TzTypes'
  BY <1>4 DEF ClearLocation, tzVars, SettingsInv, SettingsTypeOK, TzTypes
<1>7. unitsAuto \in BOOLEAN /\ (unitsAuto => chosen.units = Unset) /\ (~unitsAuto => chosen.units = settings.units)
  BY DEF SettingsInv, SettingsTypeOK, ChoicesStick
<1>8. LabelOfPlace' /\ edited \subseteq edited' /\ edited' \subseteq Labels
  BY <1>2 DEF ClearLocation, SettingsInv, SettingsTypeOK, Labels, LabelOfPlace, LabelFits
<1> QED BY <1>1, <1>2, <1>3, <1>4, <1>5, <1>6, <1>7, <1>8, ChoicesKeptBySave

LEMMA LoadKeepsChoices == ASSUME SettingsInv, LoadPage PROVE SettingsInv'
<1>1. Fresh \in Setting /\ Fresh.label = Unset
  BY UnitsKnown DEF Fresh, Setting
<1>2. kept # Unset => kept \in KeptSettings /\ kept.settings \in Setting /\ kept.unitsChosen \in BOOLEAN
  BY DEF SettingsInv, SettingsTypeOK, KeptSettings
<1>3. /\ settings' \in Setting /\ LabelOfPlace' /\ unitsAuto' \in BOOLEAN /\ unkept' \in BOOLEAN
      /\ ~unitsAuto' => unkept' = FALSE /\ kept # Unset /\ kept.unitsChosen
  <2>1. CASE /\ settings' = (IF kept = Unset THEN Fresh ELSE kept.settings)
             /\ unitsAuto' = (kept = Unset \/ ~kept.unitsChosen) /\ unkept' = FALSE
    BY <1>1, <1>2, <2>1 DEF LoadPage, SettingsInv, LabelOfPlace, LabelFits
  <2>2. CASE settings' = Fresh /\ unitsAuto' = TRUE /\ unkept' = TRUE
    BY <1>1, <2>2 DEF LabelOfPlace, LabelFits
  <2> QED BY <2>1, <2>2 DEF LoadPage
<1>4. chosen' = [units |-> IF unitsAuto' THEN Unset ELSE settings'.units, place |-> settings'.place] /\ kept' = kept
  BY DEF LoadPage
<1>5. settings'.units \in Units /\ settings'.place \in Place \cup {Unset} /\ Unset \notin Units
  BY <1>3, UnsetNamed DEF Setting
<1>6. /\ chosen' \in Chosen /\ chosen'.place = settings'.place
      /\ unitsAuto' => chosen'.units = Unset
      /\ ~unitsAuto' => chosen'.units = settings'.units
  BY <1>4, <1>5 DEF Chosen
<1>7. siteUnits' = [b \in ToSet(SourceList) |-> Unset] /\ sitePlaces' = siteUnits'
  BY DEF LoadPage
<1>8. FirstOf(siteUnits') = Unset
  BY <1>7, FirstOfThem
<1>9. lookups' \in Seq(Place) /\ choices' \in Nat
  BY DEF LoadPage, Choice, SettingsInv, SettingsTypeOK
<1>10. TzTypes' /\ edited' = edited /\ siteTakes' = siteTakes /\ season' = season /\ slipped' = slipped /\ news' = news
  BY DEF LoadPage, siteVars, SettingsInv, SettingsTypeOK, TzTypes
<1>11. SettingsTypeOK'
  BY <1>3, <1>4, <1>6, <1>7, <1>9, <1>10 DEF SettingsInv, SettingsTypeOK, TzTypes, Chosen
<1>12. ChoicesStick'
  BY <1>3, <1>4, <1>6, <1>8 DEF ChoicesStick
<1> QED BY <1>3, <1>4, <1>5, <1>6, <1>10, <1>11, <1>12 DEF SettingsInv, LabelFits

LEMMA UnitsFramesKeepChoices ==
  ASSUME SettingsInv, NEW b \in ToSet(SourceList), NEW u \in Units \cup {Unset}, UnitsFrame(b, u)
  PROVE  SettingsInv'
<1> DEFINE first == FirstOf(siteUnits')
<1>1. siteUnits' \in [ToSet(SourceList) -> Units \cup {Unset}] /\ news' \in Nat
  BY DEF UnitsFrame, News, SettingsInv, SettingsTypeOK
<1>2. first \in Units \cup {Unset}
  BY <1>1, FirstOfThem
<1>3. settings' = IF unitsAuto /\ first # Unset THEN [settings EXCEPT !.units = first] ELSE settings
  BY DEF UnitsFrame
<1>4. settings \in Setting
  BY DEF SettingsInv, SettingsTypeOK
<1> HIDE DEF first
<1>5. /\ settings' \in Setting /\ settings'.place = settings.place /\ settings'.label = settings.label
      /\ unitsAuto /\ first # Unset => settings'.units = first
      /\ ~unitsAuto => settings'.units = settings.units
  BY <1>2, <1>3, <1>4 DEF Setting
<1>6. UNCHANGED <<unitsAuto, kept, unkept, chosen, edited, sitePlaces, lookups, tzVars, siteTz, siteTakes, season, choices, slipped>>
  BY DEF UnitsFrame
<1>7. SettingsTypeOK'
  BY <1>1, <1>5, <1>6 DEF tzVars, SettingsInv, SettingsTypeOK
<1>8. ChoicesStick'
  BY <1>5, <1>6 DEF SettingsInv, ChoicesStick, LabelOfPlace, LabelFits, first
<1> QED BY <1>6, <1>7, <1>8 DEF SettingsInv, LabelFits

LEMMA PlaceFramesKeepChoices ==
  ASSUME SettingsInv, NEW b \in ToSet(SourceList), NEW where \in [place : Place, zone : Zone] \cup {Unset}, LocationFrame(b, where)
  PROVE  SettingsInv'
<1>1. SettingsTypeOK'
  BY DEF LocationFrame, News, choiceVars, tzVars, SettingsInv, SettingsTypeOK
<1> QED BY <1>1, ChoicesUntouched DEF LocationFrame

\* The time zone's steps, and the environment's.
LEMMA TzKeepsChoices ==
  ASSUME SettingsInv,
         RefreshTz \/ TzConfirmed \/ ThrottleEnds \/ SeasonTurns \/ SiteTurns
         \/ \E applied \in BOOLEAN : TzFails(applied) \/ StrayEnds(applied)
  PROVE  SettingsInv'
<1>1. UNCHANGED choiceVars /\ siteUnits' = siteUnits /\ sitePlaces' = sitePlaces /\ lookups' = lookups /\ choices' = choices
  BY DEF RefreshTz, TzConfirmed, ThrottleEnds, SeasonTurns, SiteTurns, TzFails, StrayEnds, frameVars
<1>2. news' \in Nat /\ siteTakes' \in BOOLEAN /\ season' \in BOOLEAN
  <2>1. news' = news \/ news' = news + 1
    BY DEF RefreshTz, TzConfirmed, ThrottleEnds, SeasonTurns, SiteTurns, TzFails, StrayEnds, News, siteVars
  <2>2. siteTakes' = siteTakes \/ siteTakes' = ~siteTakes
    BY DEF RefreshTz, TzConfirmed, ThrottleEnds, SeasonTurns, SiteTurns, TzFails, StrayEnds, siteVars
  <2>3. season' = season \/ season' = ~season
    BY DEF RefreshTz, TzConfirmed, ThrottleEnds, SeasonTurns, SiteTurns, TzFails, StrayEnds, siteVars
  <2>4. news \in Nat /\ siteTakes \in BOOLEAN /\ season \in BOOLEAN
    BY DEF SettingsInv, SettingsTypeOK
  <2>5. siteTakes' \in BOOLEAN
    BY <2>2, <2>4
  <2>6. season' \in BOOLEAN
    BY <2>3, <2>4
  <2> QED BY <2>1, <2>4, <2>5, <2>6
<1>3. slipped' \in BOOLEAN
  BY DEF RefreshTz, TzConfirmed, ThrottleEnds, SeasonTurns, SiteTurns, TzFails, StrayEnds, SettingsInv, SettingsTypeOK
<1>4. TzTypes'
  <2>1. CASE RefreshTz
    <3>1. OffsetOf(ActiveZone) \in Offset
      BY OffsetsKnown DEF SettingsInv
    <3> QED BY <2>1, <3>1, TzRequested DEF RefreshTz, siteVars, SettingsInv
  <2>2. CASE TzConfirmed
    BY <2>2 DEF TzConfirmed, SettingsInv, SettingsTypeOK, TzTypes
  <2>3. CASE ThrottleEnds
    BY <2>3 DEF ThrottleEnds, siteVars, SettingsInv, SettingsTypeOK, TzTypes
  <2>4. CASE SeasonTurns \/ SiteTurns
    BY <2>4 DEF SeasonTurns, SiteTurns, tzVars, SettingsInv, SettingsTypeOK, TzTypes
  <2>5. ASSUME NEW applied \in BOOLEAN, TzFails(applied) PROVE TzTypes'
    BY <2>5 DEF TzFails, SettingsInv, SettingsTypeOK, TzTypes
  <2>6. ASSUME NEW applied \in BOOLEAN, StrayEnds(applied) PROVE TzTypes'
    BY <2>6 DEF StrayEnds, SettingsInv, SettingsTypeOK, TzTypes
  <2> QED BY <2>1, <2>2, <2>3, <2>4, <2>5, <2>6
<1>5. SettingsTypeOK'
  BY <1>1, <1>2, <1>3, <1>4 DEF choiceVars, SettingsInv, SettingsTypeOK, TzTypes
<1> QED BY <1>1, <1>5, ChoicesUntouched

LEMMA SettingsStutter == ASSUME SettingsInv, UNCHANGED settingVars PROVE SettingsInv'
<1>1. UNCHANGED choiceVars /\ siteUnits' = siteUnits /\ SettingsTypeOK'
  BY DEF settingVars, choiceVars, frameVars, tzVars, siteVars, SettingsInv, SettingsTypeOK
<1> QED BY <1>1, ChoicesUntouched

LEMMA SettingsStep == SettingsInv /\ [SettingsNext]_settingVars => SettingsInv'
BY UnitsKeepChoices, PlacesKeepChoices, EditsKeepChoices, ZonesKeepChoices, LookupsKeepChoices, ClearKeepsChoices, LoadKeepsChoices,
   UnitsFramesKeepChoices, PlaceFramesKeepChoices, TzKeepsChoices, SettingsStutter DEF SettingsNext

LEMMA SettingsAlways == SettingsSpec => []SettingsInv
<1> QED BY SettingsStep, SettingsStart, PTL DEF SettingsSpec

\* Types of the settings' state.
THEOREM SettingsTyped == SettingsSpec => []SettingsTypeOK
<1>1. SettingsInv => SettingsTypeOK BY DEF SettingsInv
<1> QED BY <1>1, SettingsAlways, PTL

\* For any sources, units, places and zones: units have one owner, a place is the
\* visitor's, and the name beside it is that place's own or one kept through an
\* edited coordinate (unitsAuto, onUnitsFrame, locate and setLocation).
THEOREM ChoicesAlwaysStick == SettingsSpec => []ChoicesStick
<1>1. SettingsInv => ChoicesStick BY DEF SettingsInv
<1> QED BY <1>1, SettingsAlways, PTL

(***************************************************************************)
(* PageNames.  With no frame on the way, a rename that is the last attempt *)
(* and that no frame crossed would be taken back to the receiver's name,   *)
(* unless it was made over another that may fail still or did (TakenBack); *)
(* and where there is no such rename, the page shows the receiver's name,  *)
(* unless the last one failed over one that may fail still (Shows).        *)
(***************************************************************************)
IsLast(r) == r.attempt = attempts /\ ~r.crossed

TakenBack(r) ==
  \/ r.previous = siteName
  \/ \E o \in renames : ~o.applied /\ o.attempt \in r.over
  \/ \E f \in failures : f.rename.attempt \in r.over

Shows ==
  \/ alias = siteName
  \/ \E o \in renames, f \in failures : ~o.applied /\ f.last /\ o.attempt \in f.rename.over

NamesSet ==
  frames = <<>> /\ ~Muddled =>
    /\ \A r \in renames : IsLast(r) => TakenBack(r)
    /\ (\A r \in renames : ~IsLast(r)) => Shows

Numbered ==
  /\ \A r \in renames : r.attempt <= attempts /\ \A n \in r.over : n < r.attempt
  /\ \A r, o \in renames : r.attempt = o.attempt => r = o

FramesTell ==
  /\ frames # <<>> => frames[Len(frames)] = siteName
  /\ \A r \in renames : r.applied /\ ~r.crossed => frames # <<>>

NamesInv == NamesTypeOK /\ NamesSet /\ Numbered /\ FramesTell

LEMMA NamesStart == NamesInit => NamesInv
BY DEF NamesInit, NamesInv, NamesTypeOK, AnyName, NamesSet, Shows, Numbered, FramesTell

LEMMA PostKeepsNames == ASSUME NamesInv, NEW name \in AnyName, PostAlias(name) PROVE NamesInv'
<1>t. /\ attempts \in Nat /\ renames \subseteq Rename /\ alias \in AnyName
      /\ \A r \in renames : r.attempt \in Nat /\ r.attempt <= attempts
  BY DEF NamesInv, NamesTypeOK, Numbered, Rename
<1>1. PICK new \in Rename :
        /\ attempts' = attempts + 1 /\ alias' = name /\ renames' = renames \cup {new}
        /\ UNCHANGED <<others, siteName, frames, failures>>
        /\ new.attempt = attempts + 1 /\ new.previous = alias /\ ~new.applied /\ ~new.crossed
        /\ new.over = {r.attempt : r \in renames}
  <2> DEFINE posted == [attempt |-> attempts + 1, name |-> name, previous |-> alias, applied |-> FALSE,
                        crossed |-> FALSE, over |-> {r.attempt : r \in renames}]
  <2>1. posted \in Rename
    BY <1>t DEF Rename
  <2> QED BY <2>1 DEF PostAlias
<1>2. /\ \A n \in new.over : n <= attempts
      /\ \A o \in renames : o.attempt \in new.over
  BY <1>1, <1>t
<1>4. NamesTypeOK'
  BY <1>1, <1>t DEF NamesInv, NamesTypeOK
<1>5. Numbered'
  <2>1. \A r \in renames' : r.attempt <= attempts' /\ \A n \in r.over : n < r.attempt
    <3>1. new.attempt <= attempts' /\ \A n \in new.over : n < new.attempt
      <4>1. \A n \in new.over : n \in Nat
        BY <1>1, <1>t
      <4> QED BY <4>1, <1>1, <1>2, <1>t
    <3>2. \A r \in renames : r.attempt <= attempts' /\ \A n \in r.over : n < r.attempt
      BY <1>1, <1>t DEF NamesInv, Numbered
    <3> QED BY <3>1, <3>2, <1>1
  <2>2. \A r, o \in renames' : r.attempt = o.attempt => r = o
    BY <1>1, <1>t DEF NamesInv, Numbered
  <2> QED BY <2>1, <2>2 DEF Numbered
<1>6. FramesTell'
  BY <1>1 DEF NamesInv, FramesTell
<1>7. NamesSet'
  <2> SUFFICES ASSUME frames = <<>>, ~Muddled
      PROVE /\ \A r \in renames' : IsLast(r)' => TakenBack(r)'
            /\ (\A r \in renames' : ~IsLast(r)') => Shows'
    BY <1>1 DEF NamesSet, Muddled
  <2>1. \A r \in renames' : IsLast(r)' => r = new
    BY <1>1, <1>t DEF IsLast
  <2>2. IsLast(new)'
    BY <1>1 DEF IsLast
  <2>3. CASE \E o \in renames : IsLast(o)
    <3>1. PICK o \in renames : IsLast(o)
      BY <2>3
    <3>2. ~o.applied
      BY <3>1 DEF IsLast, NamesInv, FramesTell
    <3>3. TakenBack(new)'
      BY <3>1, <3>2, <1>1, <1>2 DEF TakenBack
    <3> QED BY <2>1, <2>2, <3>3, <1>1
  <2>4. CASE \A r \in renames : ~IsLast(r)
    <3>1. Shows
      BY <2>4 DEF NamesInv, NamesSet
    <3>2. CASE alias = siteName
      BY <3>2, <1>1, <2>1, <2>2 DEF TakenBack
    <3>3. CASE \E o \in renames, f \in failures : ~o.applied /\ f.last /\ o.attempt \in f.rename.over
      <4>1. TakenBack(new)'
        BY <3>3, <1>1, <1>2 DEF TakenBack
      <4> QED BY <4>1, <1>1, <2>1, <2>2
    <3> QED BY <3>1, <3>2, <3>3 DEF Shows
  <2> QED BY <2>3, <2>4
<1> QED BY <1>4, <1>5, <1>6, <1>7 DEF NamesInv

\* A name the receiver takes is on its way to this page.
LEMMA TakenKeepsNames ==
  ASSUME NamesInv, \/ \E r \in renames : SiteApplies(r)
                   \/ \E name \in AnyName : OtherRenames(name)
  PROVE  NamesInv'
<1>t. /\ frames \in Seq(AnyName) /\ renames \subseteq Rename /\ others \in Nat
  BY DEF NamesInv, NamesTypeOK
<1>s. \A n \in AnyName : /\ Append(frames, n) \in Seq(AnyName) /\ Append(frames, n) # <<>>
                         /\ Append(frames, n)[Len(Append(frames, n))] = n
  BY <1>t
<1>1. ASSUME NEW r \in renames, SiteApplies(r) PROVE NamesInv'
  <2> DEFINE done == [r EXCEPT !.applied = TRUE]
  <2>1. /\ renames' = (renames \ {r}) \cup {done} /\ siteName' = r.name /\ frames' = Append(frames, r.name)
        /\ UNCHANGED <<alias, attempts, others, failures>>
    BY <1>1 DEF SiteApplies
  <2>2. /\ done \in Rename /\ r.name \in AnyName
        /\ done.attempt = r.attempt /\ done.over = r.over
    BY <1>t DEF Rename
  <2>3. NamesTypeOK'
    BY <2>1, <2>2, <1>s DEF NamesInv, NamesTypeOK
  <2>4. Numbered'
    BY <2>1, <2>2 DEF NamesInv, Numbered
  <2>5. FramesTell' /\ NamesSet'
    BY <2>1, <2>2, <1>s DEF FramesTell, NamesSet
  <2> QED BY <2>3, <2>4, <2>5 DEF NamesInv
<1>2. ASSUME NEW name \in AnyName, OtherRenames(name) PROVE NamesInv'
  <2>1. /\ siteName' = name /\ frames' = Append(frames, name) /\ others' = others + 1
        /\ UNCHANGED <<alias, renames, attempts, failures>>
    BY <1>2 DEF OtherRenames
  <2>2. NamesTypeOK'
    BY <2>1, <1>s, <1>t DEF NamesInv, NamesTypeOK
  <2>3. Numbered' /\ FramesTell' /\ NamesSet'
    BY <2>1, <1>s DEF NamesInv, Numbered, FramesTell, NamesSet
  <2> QED BY <2>2, <2>3 DEF NamesInv
<1> QED BY <1>1, <1>2

LEMMA AcceptedKeepsNames == ASSUME NamesInv, NEW r \in renames, RenameAccepted(r) PROVE NamesInv'
<1>1. r.applied /\ renames' = renames \ {r} /\ UNCHANGED <<alias, attempts, others, siteName, frames, failures>>
  BY DEF RenameAccepted
<1>2. NamesTypeOK' /\ Numbered' /\ FramesTell'
  BY <1>1 DEF NamesInv, NamesTypeOK, Numbered, FramesTell
<1>3. NamesSet'
  <2> SUFFICES ASSUME frames = <<>>, ~Muddled
      PROVE /\ \A o \in renames' : IsLast(o) => TakenBack(o)'
            /\ (\A o \in renames' : ~IsLast(o)) => Shows'
    BY <1>1 DEF NamesSet, Muddled, IsLast
  <2>1. ~IsLast(r)
    BY <1>1 DEF NamesInv, FramesTell, IsLast
  <2>2. ASSUME NEW o \in renames', IsLast(o) PROVE TakenBack(o)'
    BY <1>1, <2>2 DEF NamesInv, NamesSet, TakenBack
  <2>3. ASSUME \A o \in renames' : ~IsLast(o) PROVE Shows'
    BY <1>1, <2>1, <2>3 DEF NamesInv, NamesSet, Shows
  <2> QED BY <2>2, <2>3
<1> QED BY <1>2, <1>3 DEF NamesInv

LEMMA FailedKeepsNames == ASSUME NamesInv, NEW r \in renames, RenameFails(r) PROVE NamesInv'
<1> DEFINE failure == [rename |-> r, last |-> r.attempt = attempts]
<1>1. /\ alias' = IF r.attempt = attempts THEN r.previous ELSE alias
      /\ renames' = renames \ {r} /\ failures' = failures \cup {failure}
      /\ UNCHANGED <<attempts, others, siteName, frames>>
  BY DEF RenameFails, LastAttempt
<1>t. r \in Rename /\ r.previous \in AnyName /\ failure \in [rename : Rename, last : BOOLEAN]
  BY DEF NamesInv, NamesTypeOK, Rename
<1>2. NamesTypeOK' /\ Numbered' /\ FramesTell'
  BY <1>1, <1>t DEF NamesInv, NamesTypeOK, Numbered, FramesTell
<1>3. NamesSet'
  <2> SUFFICES ASSUME frames = <<>>, ~Muddled'
      PROVE /\ \A o \in renames' : IsLast(o) => TakenBack(o)'
            /\ (\A o \in renames' : ~IsLast(o)) => Shows'
    BY <1>1 DEF NamesSet, IsLast
  <2>1. ~Muddled /\ failure \in failures' /\ failure.rename = r
    BY <1>1 DEF Muddled
  <2>s. /\ \A o \in renames : IsLast(o) => TakenBack(o)
        /\ (\A o \in renames : ~IsLast(o)) => Shows
    BY <2>1 DEF NamesInv, NamesSet
  <2>2. ASSUME NEW o \in renames', IsLast(o) PROVE TakenBack(o)'
    <3>1. o \in renames /\ TakenBack(o)
      BY <1>1, <2>2, <2>s
    <3> QED BY <3>1, <2>1, <1>1 DEF TakenBack
  <2>3. ASSUME \A o \in renames' : ~IsLast(o) PROVE Shows'
    <3>1. CASE r.attempt = attempts
      <4>1. failure.last
        BY <3>1
      <4>2. ~r.crossed
        BY <4>1, <2>1 DEF Muddled
      <4>3. TakenBack(r)
        BY <4>2, <3>1, <2>s DEF IsLast
      <4>4. ASSUME NEW f \in failures, f.rename.attempt \in r.over PROVE FALSE
        BY <4>1, <4>4, <2>1, <1>1 DEF Muddled
      <4>5. ASSUME NEW o \in renames, ~o.applied, o.attempt \in r.over PROVE Shows'
        <5>1. o # r
          BY <4>5 DEF NamesInv, NamesTypeOK, Rename, Numbered
        <5> QED BY <5>1, <4>1, <4>5, <2>1, <1>1 DEF Shows
      <4>6. CASE r.previous = siteName
        BY <4>6, <3>1, <1>1 DEF Shows
      <4> QED BY <4>3, <4>4, <4>5, <4>6 DEF TakenBack
    <3>2. CASE r.attempt # attempts
      <4>1. Shows
        BY <3>2, <2>3, <2>s, <1>1 DEF IsLast
      <4>2. ASSUME NEW o \in renames, NEW f \in failures, ~o.applied, f.last, o.attempt \in f.rename.over PROVE Shows'
        <5>1. o # r
          BY <4>2, <2>1, <1>1 DEF Muddled
        <5> QED BY <5>1, <4>2, <1>1 DEF Shows
      <4> QED BY <4>1, <4>2, <3>2, <1>1 DEF Shows
    <3> QED BY <3>1, <3>2
  <2> QED BY <2>2, <2>3
<1> QED BY <1>2, <1>3 DEF NamesInv

LEMMA FrameKeepsNames == ASSUME NamesInv, AliasFrame PROVE NamesInv'
<1>1. /\ frames # <<>> /\ frames' = Tail(frames) /\ alias' = Head(frames)
      /\ renames' = {[o EXCEPT !.crossed = TRUE] : o \in renames}
      /\ UNCHANGED <<attempts, others, siteName, failures>>
  BY DEF AliasFrame
<1>t. /\ frames \in Seq(AnyName) /\ renames \subseteq Rename
  BY DEF NamesInv, NamesTypeOK
<1>f. /\ Head(frames) \in AnyName /\ Tail(frames) \in Seq(AnyName)
      /\ Tail(frames) = <<>> => Head(frames) = frames[Len(frames)]
      /\ Tail(frames) # <<>> => Tail(frames)[Len(Tail(frames))] = frames[Len(frames)]
  BY <1>1, <1>t
<1>r. ASSUME NEW r \in renames'
      PROVE \E o \in renames : /\ r = [o EXCEPT !.crossed = TRUE] /\ r \in Rename /\ r.crossed
                               /\ r.attempt = o.attempt /\ r.over = o.over
  BY <1>1, <1>t, <1>r DEF Rename
<1>2. NamesTypeOK'
  BY <1>1, <1>f, <1>r DEF NamesInv, NamesTypeOK
<1>3. Numbered'
  <2>1. \A r \in renames' : r.attempt <= attempts' /\ \A n \in r.over : n < r.attempt
    BY <1>1, <1>r DEF NamesInv, Numbered
  <2>2. ASSUME NEW r \in renames', NEW o \in renames', r.attempt = o.attempt PROVE r = o
    <3>1. PICK a \in renames : r = [a EXCEPT !.crossed = TRUE] /\ r.attempt = a.attempt
      BY <1>r
    <3>2. PICK b \in renames : o = [b EXCEPT !.crossed = TRUE] /\ o.attempt = b.attempt
      BY <1>r
    <3>3. a = b
      BY <3>1, <3>2, <2>2 DEF NamesInv, Numbered
    <3> QED BY <3>1, <3>2, <3>3
  <2> QED BY <2>1, <2>2 DEF Numbered
<1>4. FramesTell'
  BY <1>1, <1>f, <1>r DEF NamesInv, FramesTell
<1>5. NamesSet'
  <2>1. \A r \in renames' : ~IsLast(r)'
    BY <1>r DEF IsLast
  <2>2. frames' = <<>> => alias' = siteName'
    BY <1>1, <1>f DEF NamesInv, FramesTell
  <2> QED BY <2>1, <2>2 DEF NamesSet, Shows
<1> QED BY <1>2, <1>3, <1>4, <1>5 DEF NamesInv

LEMMA NamesStep == NamesInv /\ [NamesNext]_nameVars => NamesInv'
<1>1. NamesInv /\ NamesNext => NamesInv'
  BY PostKeepsNames, TakenKeepsNames, AcceptedKeepsNames, FailedKeepsNames, FrameKeepsNames DEF NamesNext, AnyName
<1>2. NamesInv /\ UNCHANGED nameVars => NamesInv'
  BY DEF nameVars, NamesInv, NamesTypeOK, NamesSet, IsLast, TakenBack, Shows, Muddled, Numbered, FramesTell
<1> QED BY <1>1, <1>2

LEMMA NamesInductive == NamesSpec => []NamesInv
<1> QED BY NamesStep, NamesStart, PTL DEF NamesSpec

\* Names, renames and frames keep to their types.
THEOREM NamesTyped == NamesSpec => []NamesTypeOK
<1>1. NamesInv => NamesTypeOK
  BY DEF NamesInv
<1> QED BY <1>1, NamesInductive, PTL

\* However many pages rename the device, and in whatever order POSTs, answers
\* and frames come, the page comes to show the receiver's name, but for the two
\* cases the property names.
THEOREM NamesAlwaysSettle == NamesSpec => []NamesSettle
<1>1. NamesInv => NamesSettle
  BY DEF NamesInv, NamesSet, NamesSettle, Shows
<1> QED BY <1>1, NamesInductive, PTL
==============================================================================
