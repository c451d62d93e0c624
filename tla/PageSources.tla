----------------------------- MODULE PageSources -----------------------------
(***************************************************************************)
(* The dashboard's sources and their streams: sources.js, stream.js,       *)
(* devices.js, reload.js, the part of main.jsx that opens, probes and      *)
(* drops sources, and what alias.js keeps of the names of their devices.   *)
(*                                                                         *)
(* A stream is an EventSource with the closure openSource keeps beside it: *)
(* a socket, a retry timer and the `closed` flag, which is raised exactly  *)
(* when the stream leaves the map `open` of main.jsx.  A receiver's frames *)
(* ($layout, $location, $tz, $units) are what a source has told.  Of the   *)
(* names, which localStorage keeps too, there is one device's per source.  *)
(***************************************************************************)
EXTENDS Naturals, FiniteSets

CONSTANTS
  Source,        \* bases a visitor may configure, HomeSource among them
  HomeSource,    \* location.origin
  RemoteSource,  \* those the mobile shell refuses: plain http, not local
  Device,        \* radio devices and receivers
  DeviceSource,  \* [Device -> Source]
  Receiver,      \* devices that report their firmware's build
  Told,          \* kinds of frame kept per source
  NamedSource,   \* sources with a device that is given names
  NoneStored,    \* an absent localStorage entry
  DevicesKept,   \* DEVICE_MAX
  StorageFails,  \* whether localStorage may refuse
  MaxTurns,      \* bound: what the visitor does
  MaxOutages     \* bound: changes of the servers, firmware updates included

ASSUME SourcesNamed == HomeSource \in Source /\ DeviceSource \in [Device -> Source] /\ Receiver \subseteq Device
ASSUME StorageMay == StorageFails \in BOOLEAN

VARIABLES
  configured, \* sources.value
  saved,      \* localStorage, or NoneStored
  unsaved,    \* storageBroken
  stream,     \* base -> open, socket, retry
  sourceState,\* sourceState.value, "none" for no entry
  probing,    \* the origin's stream is a probe
  heard,      \* the keys of devices.value
  told,       \* base -> the frames it has sent
  named,      \* aliases.value: the sources of which a device has a name
  savedNames, \* localStorage: likewise
  namesUnsaved, \* alias.js: storageBroken
  takesBack,  \* what the last rename's failure would do: "none", "name", "clear"
  seen,       \* reload.js: receiver -> build, 0 for none
  server,     \* environment: base -> "up", "busy" (every slot taken), "down"
  build,      \* environment: receiver -> the build it runs
  turns, outages,
  loads,      \* history: times the page reloaded itself
  updates,    \* history: firmware updates
  byHand,     \* history: the origin was added while its probe was out
  putBack     \* history: sources whose names localStorage or a failed rename put back

nameStore == <<savedNames, namesUnsaved, takesBack>>
clientVars == <<configured, saved, unsaved, stream, sourceState, probing, heard, told, named, putBack, nameStore, seen>>
envVars == <<server, build, outages, updates>>
sourceVars == <<clientVars, envVars, turns, loads, byHand>>

NoStream == [open |-> FALSE, socket |-> "closed", retry |-> FALSE]
NewStream == [open |-> TRUE, socket |-> "connecting", retry |-> FALSE]
OpenSources == {b \in Source : stream[b].open}

-----------------------------------------------------------------------------
(* What the handlers are made of.  A page is the client's part of a state. *)

Page == [configured |-> configured, saved |-> saved, unsaved |-> unsaved, stream |-> stream,
         sourceState |-> sourceState, probing |-> probing, heard |-> heard, told |-> told,
         named |-> named, putBack |-> putBack]

Becomes(p) ==
  /\ configured' = p.configured /\ saved' = p.saved /\ unsaved' = p.unsaved /\ stream' = p.stream
  /\ sourceState' = p.sourceState /\ probing' = p.probing /\ heard' = p.heard /\ told' = p.told
  /\ named' = p.named /\ putBack' = p.putBack

\* onerror leaves the retry timer of a stream it has itself made close.
Closed(s, inError) == [open |-> FALSE, socket |-> "closed", retry |-> inError]

\* clearSource
DevicesLeft(devs, gone) == {d \in devs : DeviceSource[d] \notin gone}

\* dropSource: the stream's last word is taken back with the rest of the source;
\* that the names are gone is not saved.
Drop(p, gone, inError) ==
  [p EXCEPT !.stream = [b \in Source |-> IF b \in gone THEN Closed(@[b], inError) ELSE @[b]],
            !.sourceState = [b \in Source |-> IF b \in gone THEN "none" ELSE @[b]],
            !.heard = DevicesLeft(@, gone),
            !.told = [b \in Source |-> IF b \in gone THEN {} ELSE @[b]],
            !.named = @ \ gone, !.putBack = @ \ gone]

\* Mutant of Synced: a probe is dropped like any source not configured.
SyncedStrictly(p) ==
  LET missing == {b \in p.configured : ~p.stream[b].open}
      grown == [p EXCEPT !.stream = [b \in Source |-> IF b \in missing THEN NewStream ELSE @[b]],
                         !.sourceState = [b \in Source |-> IF b \in missing THEN "connecting" ELSE @[b]]]
  IN Drop(grown, {b \in Source : grown.stream[b].open} \ p.configured, FALSE)

\* syncSources: open what is wanted, drop what is not, sparing the probe.
Synced(p) ==
  LET missing == {b \in p.configured : ~p.stream[b].open}
      wantedBases == p.configured \cup (IF p.probing THEN {HomeSource} ELSE {})
      grown == [p EXCEPT !.stream = [b \in Source |-> IF b \in missing THEN NewStream ELSE @[b]],
                         !.sourceState = [b \in Source |-> IF b \in missing THEN "connecting" ELSE @[b]]]
  IN Drop(grown, {b \in Source : grown.stream[b].open} \ wantedBases, FALSE)

\* addSource and removeSource save and sync; localStorage may refuse.
Configure(p, bases, refused) ==
  LET fails == p.unsaved \/ refused
  IN Synced([p EXCEPT !.configured = bases, !.unsaved = fails, !.saved = IF fails THEN @ ELSE bases])

\* rejectionReason, for a well-formed URL
Accepted(b) == b \notin configured /\ (b = HomeSource \/ b \notin RemoteSource)

AdoptProbe(p, refused) == LET adopted == [p EXCEPT !.probing = FALSE]
                          IN IF HomeSource \in p.configured THEN adopted
                             ELSE Configure(adopted, p.configured \cup {HomeSource}, refused)
AbortProbe(p, inError) == Drop([p EXCEPT !.probing = FALSE], {HomeSource}, inError)

\* What loading the page comes to: every name that was stored (loadAliases), and
\* with no entry, or a storage that throws, a probe of the origin.
Loaded(unreadable) ==
  LET restored == IF unreadable \/ saved = NoneStored THEN {} ELSE saved
      probes == unreadable \/ saved = NoneStored
      names == IF unreadable THEN {} ELSE savedNames
      blank == [configured |-> restored, saved |-> saved, unsaved |-> unreadable, probing |-> probes,
                stream |-> [b \in Source |-> IF probes /\ b = HomeSource THEN NewStream ELSE NoStream],
                sourceState |-> [b \in Source |-> IF probes /\ b = HomeSource THEN "connecting" ELSE "none"],
                heard |-> {}, told |-> [b \in Source |-> {}], named |-> names, putBack |-> names]
  IN Synced(blank)

Load == /\ \E unreadable \in {FALSE, StorageFails} : Becomes(Loaded(unreadable)) /\ namesUnsaved' = unreadable
        /\ takesBack' = "none" /\ UNCHANGED savedNames
        /\ seen' = [r \in Receiver |-> 0] /\ byHand' = FALSE

-----------------------------------------------------------------------------
SourcesInit ==
  /\ configured = {} /\ saved = NoneStored /\ unsaved = FALSE /\ probing = TRUE
  /\ stream = [b \in Source |-> IF b = HomeSource THEN NewStream ELSE NoStream]
  /\ sourceState = [b \in Source |-> IF b = HomeSource THEN "connecting" ELSE "none"]
  /\ heard = {} /\ told = [b \in Source |-> {}] /\ seen = [r \in Receiver |-> 0]
  /\ named = {} /\ putBack = {} /\ savedNames = {} /\ namesUnsaved = FALSE /\ takesBack = "none"
  /\ server \in [Source -> {"up", "busy", "down"}] /\ build = [r \in Receiver |-> 1]
  /\ turns = 0 /\ outages = 0 /\ loads = 0 /\ updates = 0 /\ byHand = FALSE

Keep == UNCHANGED <<nameStore, seen, envVars, turns, loads, byHand>>

\* What onopen and onerror make of a stream.
Turned(b, socket, retry, state) ==
  [Page EXCEPT !.stream = [stream EXCEPT ![b] = [open |-> stream[b].open, socket |-> socket, retry |-> retry]],
               !.sourceState = [sourceState EXCEPT ![b] = state]]

\* onopen: live, and a probe that gets this far is adopted.
Connected(b) ==
  /\ stream[b].socket = "connecting" /\ server[b] = "up"
  /\ LET live == Turned(b, "live", stream[b].retry, "live")
     IN \E refused \in {FALSE, StorageFails} :
          Becomes(IF probing /\ b = HomeSource THEN AdoptProbe(live, refused) ELSE live)
  /\ Keep

\* Mutant of Errored: a stream refused with a status is left to the browser.
ErroredNoRetry(b) ==
  LET refused == stream[b].socket = "connecting" /\ server[b] = "busy"
      waiting == Turned(b, IF refused THEN "closed" ELSE "connecting", stream[b].retry, "reconnecting")
  IN /\ stream[b].socket # "closed" /\ server[b] # "up"
     /\ sourceState[b] # "reconnecting" \/ refused
     /\ Becomes(IF probing /\ b = HomeSource THEN AbortProbe(waiting, FALSE) ELSE waiting)
     /\ Keep

\* onerror.  A dropped or unreachable stream is the browser's to reconnect;
\* one refused with a status is closed for good and retried by a timer.
Errored(b) ==
  LET refused == stream[b].socket = "connecting" /\ server[b] = "busy"
      waiting == Turned(b, IF refused THEN "closed" ELSE "connecting", refused, "reconnecting")
  IN /\ stream[b].socket # "closed" /\ server[b] # "up"
     /\ sourceState[b] # "reconnecting" \/ refused
     /\ Becomes(IF probing /\ b = HomeSource THEN AbortProbe(waiting, TRUE) ELSE waiting)
     /\ Keep

\* Mutant of RetryFires: the timer of a closed stream connects it.
RetryRevives(b) ==
  /\ stream[b].retry
  /\ stream' = [stream EXCEPT ![b] = [open |-> stream[b].open, retry |-> FALSE, socket |-> "connecting"]]
  /\ UNCHANGED <<configured, saved, unsaved, sourceState, probing, heard, told, named, putBack>> /\ Keep

\* connect, from the timer: a closed stream stays closed.
RetryFires(b) ==
  /\ stream[b].retry
  /\ stream' = [stream EXCEPT ![b] = [open |-> stream[b].open, retry |-> FALSE,
                                      socket |-> IF stream[b].open THEN "connecting" ELSE stream[b].socket]]
  /\ UNCHANGED <<configured, saved, unsaved, sourceState, probing, heard, told, named, putBack>> /\ Keep

ProbeTimesOut == probing /\ Becomes(AbortProbe(Page, FALSE)) /\ Keep

\* A frame that is kept per source, or cleared by an empty one.
Frame(b, kind, set) ==
  /\ stream[b].socket = "live" /\ server[b] = "up"
  /\ told' = [told EXCEPT ![b] = IF set THEN @ \cup {kind} ELSE @ \ {kind}]
  /\ UNCHANGED <<configured, saved, unsaved, stream, sourceState, probing, heard, named, putBack>> /\ Keep

\* buildChanged, for the receivers of the origin this page came from
BuildChanged(d) == d \in Receiver /\ DeviceSource[d] = HomeSource /\ seen[d] \notin {0, build[d]}

\* onMessage: a new build reloads the page; else upsert, which trims to the cap.
Reading(d, stale) ==
  LET now == heard \cup {d}
      over == Cardinality(now) - DevicesKept * Cardinality(configured)
  IN /\ stream[DeviceSource[d]].socket = "live" /\ server[DeviceSource[d]] = "up" /\ ~BuildChanged(d)
     /\ stale \subseteq now /\ Cardinality(stale) = IF d \in heard \/ over < 0 THEN 0 ELSE over
     /\ heard' = now \ stale
     /\ seen' = IF d \in Receiver /\ DeviceSource[d] = HomeSource THEN [seen EXCEPT ![d] = build[d]] ELSE seen
     /\ UNCHANGED <<configured, saved, unsaved, stream, sourceState, probing, told, named, putBack, nameStore,
                   envVars, turns, loads, byHand>>

ReloadForBuild(d) ==
  /\ stream[DeviceSource[d]].socket = "live" /\ server[DeviceSource[d]] = "up" /\ BuildChanged(d)
  /\ Load /\ loads' = loads + 1
  /\ UNCHANGED <<envVars, turns>>

-----------------------------------------------------------------------------
(* Names *)

\* saveAliases: all the names there are, of sources dropped before too.
SaveNames(names) ==
  /\ named' = names
  /\ \/ ~namesUnsaved /\ savedNames' = names /\ UNCHANGED namesUnsaved
     \/ (namesUnsaved \/ StorageFails) /\ namesUnsaved' = TRUE /\ UNCHANGED savedNames
  /\ UNCHANGED <<configured, saved, unsaved, stream, sourceState, probing, heard, told, seen, envVars, loads, byHand>>

WithName(b, set) == IF set THEN named \cup {b} ELSE named \ {b}

\* applyAliasFrame
NameFrame(b, set) ==
  /\ b \in NamedSource /\ stream[b].socket = "live" /\ server[b] = "up"
  /\ SaveNames(WithName(b, set)) /\ UNCHANGED <<putBack, takesBack, turns>>

\* revert: of the origin's device, whether its source is still there or not.
RenameTakenBack ==
  /\ takesBack # "none" /\ takesBack' = "none"
  /\ SaveNames(WithName(HomeSource, takesBack = "name"))
  /\ putBack' = IF takesBack = "name" THEN putBack \cup {HomeSource} ELSE putBack
  /\ UNCHANGED turns

RenameTaken ==
  /\ takesBack # "none" /\ takesBack' = "none"
  /\ UNCHANGED <<configured, saved, unsaved, stream, sourceState, probing, heard, told, named, putBack,
                 savedNames, namesUnsaved, seen, envVars, turns, loads, byHand>>

-----------------------------------------------------------------------------
Turn == turns < MaxTurns /\ turns' = turns + 1

AddSource(b) ==
  /\ Turn /\ Accepted(b)
  /\ \E refused \in {FALSE, StorageFails} : Becomes(Configure(Page, configured \cup {b}, refused))
  /\ byHand' = (byHand \/ (probing /\ b = HomeSource))
  /\ UNCHANGED <<nameStore, seen, envVars, loads>>

RemoveSource(b) ==
  /\ Turn /\ b \in configured
  /\ \E refused \in {FALSE, StorageFails} : Becomes(Configure(Page, configured \ {b}, refused))
  /\ byHand' = (byHand /\ b # HomeSource)
  /\ UNCHANGED <<nameStore, seen, envVars, loads>>

\* postAlias: shown and saved at once; only the origin's is posted.
VisitorRenames(b, set) ==
  /\ Turn /\ b \in NamedSource /\ \E d \in heard : DeviceSource[d] = b
  /\ SaveNames(WithName(b, set)) /\ UNCHANGED putBack
  /\ takesBack' = IF b # HomeSource THEN takesBack ELSE IF b \in named THEN "name" ELSE "clear"

VisitorReloads == Turn /\ Load /\ UNCHANGED <<envVars, loads>>

\* The servers and their firmware
ServerTurns(b, s) ==
  /\ outages < MaxOutages /\ outages' = outages + 1
  /\ s # server[b] /\ server' = [server EXCEPT ![b] = s]
  /\ UNCHANGED <<clientVars, build, updates, turns, loads, byHand>>

FirmwareUpdated(r) ==
  /\ outages < MaxOutages /\ outages' = outages + 1 /\ updates' = updates + 1
  /\ build' = [build EXCEPT ![r] = @ + 1]
  /\ UNCHANGED <<clientVars, server, turns, loads, byHand>>

-----------------------------------------------------------------------------
SourcesNext ==
  \/ \E b \in Source : \/ Connected(b) \/ Errored(b) \/ RetryFires(b)
                       \/ \E kind \in Told, set \in BOOLEAN : Frame(b, kind, set)
                       \/ \E set \in BOOLEAN : NameFrame(b, set) \/ VisitorRenames(b, set)
                       \/ AddSource(b) \/ RemoveSource(b)
                       \/ \E s \in {"up", "busy", "down"} : ServerTurns(b, s)
  \/ \E d \in Device, stale \in SUBSET Device : Reading(d, stale)
  \/ \E d \in Receiver : ReloadForBuild(d) \/ FirmwareUpdated(d)
  \/ ProbeTimesOut \/ VisitorReloads \/ RenameTakenBack \/ RenameTaken

\* The browser's connections and timers run on by themselves.
SourcesFairness == \A b \in Source : WF_sourceVars(Connected(b)) /\ WF_sourceVars(RetryFires(b))

SourcesSpec == SourcesInit /\ [][SourcesNext]_sourceVars /\ SourcesFairness

-----------------------------------------------------------------------------
Stream == [open : BOOLEAN, socket : {"closed", "connecting", "live"}, retry : BOOLEAN]

SourcesTypeOK ==
  /\ configured \subseteq Source /\ saved \in (SUBSET Source) \cup {NoneStored} /\ unsaved \in BOOLEAN
  /\ stream \in [Source -> Stream] /\ probing \in BOOLEAN
  /\ sourceState \in [Source -> {"none", "connecting", "live", "reconnecting"}]
  /\ heard \subseteq Device /\ told \in [Source -> SUBSET Told]
  /\ named \subseteq Source /\ putBack \subseteq Source /\ savedNames \subseteq Source /\ namesUnsaved \in BOOLEAN
  /\ takesBack \in {"none", "name", "clear"} /\ seen \in [Receiver -> Nat]
  /\ server \in [Source -> {"up", "busy", "down"}] /\ build \in [Receiver -> Nat \ {0}]
  /\ turns \in Nat /\ outages \in Nat /\ loads \in Nat /\ updates \in Nat /\ byHand \in BOOLEAN

\* One stream for every configured source and for a probe, and no other
\* (syncSources, adoptProbe, abortProbe).  A source added by hand while its
\* probe is out is the exception: the probe's end takes its stream along.
StreamPerSource ==
  /\ OpenSources \subseteq configured \cup (IF probing THEN {HomeSource} ELSE {})
  /\ configured \subseteq OpenSources \cup (IF byHand THEN {HomeSource} ELSE {})
  /\ probing => HomeSource \in OpenSources

\* Of a source that is not open nothing is left: no socket, no state in the
\* header, no device, no frame (dropSource, and the timer of an aborted probe);
\* and no name, unless a page load brought it back, which loads the names that
\* were stored of sources dropped since (loadAliases), or a rename that failed
\* after its source was gone (revert).
NothingOfRemoved ==
  \A b \in Source \ OpenSources : /\ stream[b].socket = "closed" /\ sourceState[b] = "none" /\ told[b] = {}
                                  /\ b \in named => b \in putBack
                                  /\ \A d \in heard : DeviceSource[d] # b

\* The page reloads itself once for an update at most, however many receivers
\* of different builds one origin relays (reload.js).
NoReloadLoop == loads <= updates

\* A source that stays configured and reachable comes to be live (stream.js).
SourcesGoLive ==
  \A b \in Source : <>[](b \in configured /\ server[b] = "up" /\ ~byHand) => <>[](sourceState[b] = "live")
=============================================================================
