------------------------------ MODULE PageFeeds ------------------------------
(***************************************************************************)
(* The dashboard's own cards, of weather, sun, moon and clock: feeds/      *)
(* feed.js and cache.js, and of the feeds themselves how they end.         *)
(*                                                                         *)
(* pump runs in one effect with what it reads: on every tick, and at once  *)
(* when the place it is to serve moves.  What a feed has is told apart by  *)
(* the place it is of; time by whether a feed's nextAt has come.           *)
(***************************************************************************)
EXTENDS Naturals

CONSTANTS
  Feed, CachedFeed, \* registered feeds, and those whose last result is stored
  Site,             \* places, as `lat,lon`
  NoSite,           \* none: '' and null
  CacheRefuses,     \* whether localStorage may refuse
  MaxMoves          \* bound: moves and page loads

VARIABLES
  place,     \* the module variable of feed.js
  wanted,    \* resolvedLocation()
  feedState, \* status, and whether the next run is due
  run,       \* running and inFlight: place, meta, aborted; place is NoSite for none
  entries,   \* feed -> the place of its cache entry
  cached,    \* localStorage
  uncached,  \* cache.js's broken
  shown,     \* feed -> the place its card tells of
  moves

feedVars == <<place, wanted, feedState, run, entries, cached, uncached, shown, moves>>

Idle == [status |-> "idle", due |-> TRUE]
NoRun == [place |-> NoSite, meta |-> NoSite, aborted |-> FALSE]
Running(f) == run[f].place # NoSite

FeedsInit ==
  /\ place = NoSite /\ wanted = NoSite
  /\ feedState = [f \in Feed |-> Idle] /\ run = [f \in Feed |-> NoRun]
  /\ entries = [f \in CachedFeed |-> NoSite] /\ cached = entries /\ uncached = FALSE
  /\ shown = [f \in Feed |-> NoSite] /\ moves = 0

\* save of cache.js
SaveCache(e) ==
  /\ entries' = e
  /\ \/ ~uncached /\ cached' = e /\ UNCHANGED uncached
     \/ (uncached \/ CacheRefuses) /\ uncached' = TRUE /\ UNCHANGED cached

\* runFeed, up to its await; what is cached of another place is no use to it.
Started(f, at) ==
  [place |-> at, aborted |-> FALSE,
   meta |-> IF f \in CachedFeed /\ entries'[f] = at THEN at ELSE NoSite]

\* pump: nothing carries over to a new place.  An aborted run ends only after
\* this, so its feed waits for the next tick.
Pump(next) ==
  LET moved == place # NoSite /\ next # place
      states == IF moved THEN [f \in Feed |-> Idle] ELSE feedState
      runs == IF moved THEN [f \in Feed |-> [run[f] EXCEPT !.aborted = Running(f)]] ELSE run
      starts(f) == ~Running(f) /\ states[f].status # "unsupported" /\ states[f].due
  IN IF next = NoSite THEN UNCHANGED <<place, feedState, run, entries, cached, uncached>>
     ELSE /\ place' = next
          /\ IF moved THEN SaveCache([f \in CachedFeed |-> NoSite]) ELSE UNCHANGED <<entries, cached, uncached>>
          /\ feedState' = states
          /\ run' = [f \in Feed |-> IF starts(f) THEN Started(f, next) ELSE runs[f]]

FeedTick == Pump(wanted) /\ UNCHANGED <<wanted, shown, moves>>

\* The visitor, or the receiver's $location, moves the place, or takes it away.
PlaceMoves(p) ==
  /\ moves < MaxMoves /\ moves' = moves + 1
  /\ p # wanted /\ wanted' = p
  /\ Pump(p) /\ UNCHANGED shown

FeedDue(f) ==
  /\ ~feedState[f].due /\ feedState[f].status # "unsupported"
  /\ feedState' = [feedState EXCEPT ![f].due = TRUE]
  /\ UNCHANGED <<place, wanted, run, entries, cached, uncached, shown, moves>>

-----------------------------------------------------------------------------
(* The end of runFeed *)

Ends(f) == Running(f) /\ run' = [run EXCEPT ![f] = NoRun] /\ UNCHANGED <<place, wanted, moves>>

\* Mutant of Discarded: no reply is compared with the place.
DiscardedNever(f) == ~Running(f)

\* A reply or a failure for a place nobody asks for any more goes nowhere.
Discarded(f) == run[f].place # place
Discard == UNCHANGED <<feedState, entries, cached, uncached, shown>>
Publish(f) == shown' = [shown EXCEPT ![f] = run[f].place]

\* The abort of a fetch is an error of the run, but that of the last fetch of
\* nws.js, whose catch makes a reply of it; a computed feed's run knows none.
FeedReplies(f) ==
  /\ Ends(f)
  /\ IF Discarded(f) THEN Discard
     ELSE /\ Publish(f)
          /\ IF f \in CachedFeed THEN SaveCache([entries EXCEPT ![f] = run[f].place])
             ELSE UNCHANGED <<entries, cached, uncached>>
          /\ feedState' = [feedState EXCEPT ![f] = [status |-> "ok", due |-> FALSE]]

\* Unsupported is final for the place, and noted on the card; any other
\* failure leaves the card and is retried after a wait.
FeedFails(f, unsupported) ==
  /\ Ends(f)
  /\ IF Discarded(f) THEN Discard
     ELSE /\ feedState' = [feedState EXCEPT ![f] = [status |-> IF unsupported THEN "unsupported" ELSE "error", due |-> FALSE]]
          /\ IF unsupported THEN Publish(f) ELSE UNCHANGED shown
          /\ UNCHANGED <<entries, cached, uncached>>

\* loadFeedCache and primeFeeds on a new page, which knows a place by then only
\* if the visitor had set one; only a result of that place is painted.
PrimeFeeds(p) ==
  /\ moves < MaxMoves /\ moves' = moves + 1
  /\ wanted' = p /\ place' = p /\ UNCHANGED cached
  /\ \/ entries' = cached /\ uncached' = FALSE
     \/ CacheRefuses /\ entries' = [f \in CachedFeed |-> NoSite] /\ uncached' = TRUE
  /\ LET primed == {f \in CachedFeed : entries'[f] # NoSite /\ entries'[f] = p}
     IN /\ shown' = [f \in Feed |-> IF f \in primed THEN entries'[f] ELSE NoSite]
        /\ feedState' \in [Feed -> {Idle} \cup [status : {"ok"}, due : BOOLEAN]]
        /\ \A f \in Feed : feedState'[f].status = "ok" <=> f \in primed
  /\ run' = [f \in Feed |-> NoRun]

-----------------------------------------------------------------------------
FeedsNext ==
  \/ FeedTick
  \/ \E p \in Site \cup {NoSite} : PlaceMoves(p) \/ PrimeFeeds(p)
  \/ \E f \in Feed : FeedDue(f) \/ FeedReplies(f) \/ \E unsupported \in BOOLEAN : FeedFails(f, unsupported)

FeedsSpec == FeedsInit /\ [][FeedsNext]_feedVars

-----------------------------------------------------------------------------
MaySite == Site \cup {NoSite}

FeedsTypeOK ==
  /\ place \in MaySite /\ wanted \in MaySite
  /\ feedState \in [Feed -> [status : {"idle", "ok", "error", "unsupported"}, due : BOOLEAN]]
  /\ run \in [Feed -> [place : MaySite, meta : MaySite, aborted : BOOLEAN]]
  /\ entries \in [CachedFeed -> MaySite] /\ cached \in [CachedFeed -> MaySite]
  /\ uncached \in BOOLEAN /\ shown \in [Feed -> MaySite] /\ moves \in Nat

\* A feed that claims a result, or that there is none to be had, has it of the
\* place it serves, and shows that one; and no run is given another place's
\* grid and station: moves with requests in flight, reloads and a cache that
\* was written for elsewhere included (runFeed, pump, primeFeeds).
FeedsOfPlace ==
  \A f \in Feed : /\ feedState[f].status \in {"ok", "unsupported"} => shown[f] = place
                  /\ run[f].meta \in {NoSite, run[f].place}
                  /\ Running(f) /\ ~run[f].aborted => run[f].place = place
=============================================================================
