----------------------------- MODULE PageSettings -----------------------------
(***************************************************************************)
(* The visitor's settings and what the receiver publishes in their stead:  *)
(* settings.js with zone.js and location.jsx.  Units are one value,        *)
(* decimals and custom fields included; a place is a pair of coordinates,  *)
(* never half of one (cleanLocation), and its label is the place a lookup  *)
(* found that name for: a coordinate edited by hand keeps the label.  The  *)
(* page also keeps the receiver's time zone offset ($tz): at most one POST *)
(* at a time, thirty attempts a minute at most.                            *)
(***************************************************************************)
EXTENDS Integers, SequencesExt

CONSTANTS
  SourceList,     \* sources.value
  OwnSource,      \* location.origin
  Units, Metric,  \* values of units, and the default
  Place, Zone,
  LocalZone,      \* localZone()
  ZoneOffset,     \* [Zone -> [BOOLEAN -> Int]]: offsetMinutes, by season
  Unset,          \* null, or no zone of one's own
  MayRefuse,      \* whether localStorage may refuse
  MaxChoices,     \* bound: what the visitor does, page loads included
  MaxNews         \* bound: frames, seasons and outages

ASSUME SourcesListed == SourceList \in Seq(ToSet(SourceList))
ASSUME ZonesKnown == LocalZone \in Zone /\ ZoneOffset \in [Zone -> [BOOLEAN -> Int]]
ASSUME UnitsKnown == Metric \in Units

VARIABLES
  settings,    \* units, place, label, zone
  unitsAuto,   \* the receiver's units are still welcome
  kept,        \* localStorage: settings and unitsChosen, or Unset
  unkept,      \* storageBroken
  siteUnits,   \* unitsBySource
  sitePlaces,  \* locations: a place and its zone
  lookups,     \* the queue of geocode.js: reverseGeocode calls, one at a time
  lastPostedTzOffset,
  tzPost,      \* tzPostInFlight: the offset, or Unset
  tzThrottled,
  stray,       \* a POST $tz of a page since reloaded, or Unset
  siteTz,      \* the receiver's $tz
  siteTakes,   \* environment: the receiver accepts POSTs
  season,      \* environment: whether daylight time is on
  choices, news,
  chosen,      \* history: the units and the place the visitor chose last, Unset for none
  edited,      \* history: each place a coordinate was edited to, with the label it kept
  slipped      \* history: a POST took effect that the page took for failed or had left

siteVars == <<siteTz, siteTakes, season, news>>
tzVars == <<lastPostedTzOffset, tzPost, tzThrottled, stray>>
choiceVars == <<settings, unitsAuto, kept, unkept, chosen, edited>>
frameVars == <<siteUnits, sitePlaces>>
settingVars == <<choiceVars, frameVars, lookups, tzVars, siteVars, choices, slipped>>

Fresh == [units |-> Metric, place |-> Unset, label |-> Unset, zone |-> Unset]

\* unitsForSources and locationForSources: the first configured source that has one
FirstOf(published) ==
  LET at == SelectInSeq(SourceList, LAMBDA b : published[b] # Unset)
  IN IF at = 0 THEN Unset ELSE published[SourceList[at]]

\* resolvedLocation and activeZone
ActiveZone ==
  IF settings.zone # Unset THEN settings.zone
  ELSE IF settings.place # Unset \/ FirstOf(sitePlaces) = Unset THEN LocalZone ELSE FirstOf(sitePlaces).zone

OffsetOf(zone) == ZoneOffset[zone][season]

-----------------------------------------------------------------------------
SettingsInit ==
  /\ settings = Fresh /\ unitsAuto = TRUE /\ kept = Unset /\ unkept = FALSE
  /\ siteUnits = [b \in ToSet(SourceList) |-> Unset] /\ sitePlaces = [b \in ToSet(SourceList) |-> Unset]
  /\ lookups = <<>>
  /\ lastPostedTzOffset = Unset /\ tzPost = Unset /\ tzThrottled = FALSE /\ stray = Unset
  /\ siteTz = Unset /\ siteTakes \in BOOLEAN /\ season = FALSE
  /\ choices = 0 /\ news = 0 /\ slipped = FALSE
  /\ chosen = [units |-> Unset, place |-> Unset] /\ edited = {}

Choice == choices < MaxChoices /\ choices' = choices + 1
News == news < MaxNews /\ news' = news + 1

\* saveSettings: the units are marked chosen once unitsAuto is down.
SaveSettings ==
  \/ ~unkept /\ kept' = [settings |-> settings', unitsChosen |-> ~unitsAuto'] /\ UNCHANGED unkept
  \/ (unkept \/ MayRefuse) /\ unkept' = TRUE /\ UNCHANGED kept

\* Mutant of RequestTz: an offset is remembered as posted before it is confirmed.
RequestTzEarly(offset, userInitiated) ==
  IF tzPost # Unset \/ (tzThrottled /\ ~userInitiated) THEN UNCHANGED tzVars
  ELSE tzPost' = offset /\ lastPostedTzOffset' = offset /\ UNCHANGED <<tzThrottled, stray>>

\* requestTz: one POST at a time, and only a visitor's goes before the throttle ends.
RequestTz(offset, userInitiated) ==
  IF tzPost # Unset \/ (tzThrottled /\ ~userInitiated) THEN UNCHANGED tzVars
  ELSE tzPost' = offset /\ UNCHANGED <<lastPostedTzOffset, tzThrottled, stray>>

\* setUnits, setDecimals, setCustomField; publishing them is not waited for.
SetUnits(u) ==
  /\ Choice
  /\ settings' = [settings EXCEPT !.units = u]
  /\ unitsAuto' = FALSE
  /\ SaveSettings
  /\ chosen' = [chosen EXCEPT !.units = u]
  /\ UNCHANGED <<edited, frameVars, lookups, tzVars, siteVars, slipped>>

\* setLocation: a place, wherever it comes from, is published with its offset.
SetLocation(new) ==
  /\ settings' = new /\ UNCHANGED unitsAuto /\ SaveSettings
  /\ IF new.place # Unset /\ OwnSource \in ToSet(SourceList)
     THEN RequestTz(OffsetOf(IF new.zone # Unset THEN new.zone ELSE LocalZone), TRUE)
     ELSE UNCHANGED tzVars
  /\ UNCHANGED <<frameVars, siteVars, slipped>>

PickPlace(p) ==
  /\ Choice
  /\ SetLocation([settings EXCEPT !.place = p, !.label = p])
  /\ chosen' = [chosen EXCEPT !.place = p]
  /\ UNCHANGED <<edited, lookups>>

\* A click on the map: a place no name is looked up for.
ClickMap(p) ==
  /\ Choice
  /\ SetLocation([settings EXCEPT !.place = p, !.label = Unset])
  /\ chosen' = [chosen EXCEPT !.place = p]
  /\ UNCHANGED <<edited, lookups>>

\* The latitude or the longitude alone: the label stays, and a coordinate
\* emptied, or entered beside an empty one, leaves no place.
EditCoordinate(p) ==
  /\ Choice /\ (settings.place = Unset => p = Unset)
  /\ SetLocation([settings EXCEPT !.place = p])
  /\ chosen' = [chosen EXCEPT !.place = p]
  /\ edited' = edited \cup {<<p, settings.label>>}
  /\ UNCHANGED lookups

\* locate: the place at once, its name when the lookup answers.
Locate(p) ==
  /\ Choice
  /\ SetLocation([settings EXCEPT !.place = p, !.label = Unset])
  /\ chosen' = [chosen EXCEPT !.place = p] /\ UNCHANGED edited
  /\ lookups' = Append(lookups, p)

\* queue of geocode.js: a lookup starts when the one before it has ended, however it did.
LookupEnds == lookups # <<>> /\ lookups' = Tail(lookups)

\* Mutant of LabelArrives: the name is given to whatever place there is by then.
LabelArrivesLate(label) ==
  /\ LookupEnds /\ label \in {Head(lookups), Unset}
  /\ SetLocation([settings EXCEPT !.label = label])
  /\ UNCHANGED <<choices, chosen, edited>>

\* The rest of locate: a place that was nowhere to be found has no name.
LabelArrives(label) ==
  /\ LookupEnds /\ label \in {Head(lookups), Unset}
  /\ IF settings.place = Head(lookups) THEN SetLocation([settings EXCEPT !.label = label])
     ELSE UNCHANGED <<settings, unitsAuto, kept, unkept, frameVars, tzVars, siteVars, slipped>>
  /\ UNCHANGED <<choices, chosen, edited>>

LookupFails ==
  /\ LookupEnds
  /\ UNCHANGED <<choiceVars, frameVars, tzVars, siteVars, choices, slipped>>

SetZone(z) ==
  /\ Choice /\ SetLocation([settings EXCEPT !.zone = z])
  /\ UNCHANGED <<chosen, edited, lookups>>

ClearLocation ==
  /\ Choice
  /\ settings' = [settings EXCEPT !.place = Unset, !.label = Unset, !.zone = Unset]
  /\ UNCHANGED unitsAuto /\ SaveSettings
  /\ chosen' = [chosen EXCEPT !.place = Unset]
  /\ UNCHANGED <<edited, frameVars, lookups, tzVars, siteVars, slipped>>

\* loadSettings on a new page; an answer to the old one's POST has no one to read it.
LoadPage ==
  /\ Choice
  /\ \/ /\ settings' = (IF kept = Unset THEN Fresh ELSE kept.settings)
        /\ unitsAuto' = (kept = Unset \/ ~kept.unitsChosen) /\ unkept' = FALSE
     \/ MayRefuse /\ settings' = Fresh /\ unitsAuto' = TRUE /\ unkept' = TRUE
  /\ chosen' = [units |-> IF unitsAuto' THEN Unset ELSE settings'.units, place |-> settings'.place]
  /\ siteUnits' = [b \in ToSet(SourceList) |-> Unset] /\ sitePlaces' = [b \in ToSet(SourceList) |-> Unset]
  /\ lookups' = <<>> /\ lastPostedTzOffset' = Unset /\ tzPost' = Unset /\ tzThrottled' = FALSE
  /\ stray' = IF tzPost # Unset THEN tzPost ELSE stray
  /\ UNCHANGED <<kept, edited, siteVars, slipped>>

-----------------------------------------------------------------------------
\* onUnitsFrame: followed as long as nobody has chosen, and never saved.
UnitsFrame(b, u) ==
  /\ News
  /\ siteUnits' = [siteUnits EXCEPT ![b] = u]
  /\ LET first == FirstOf(siteUnits')
     IN settings' = IF unitsAuto /\ first # Unset THEN [settings EXCEPT !.units = first] ELSE settings
  /\ UNCHANGED <<unitsAuto, kept, unkept, chosen, edited, sitePlaces, lookups, tzVars, siteTz, siteTakes, season, choices, slipped>>

\* onLocationFrame
LocationFrame(b, where) ==
  /\ News
  /\ sitePlaces' = [sitePlaces EXCEPT ![b] = where]
  /\ UNCHANGED <<choiceVars, siteUnits, lookups, tzVars, siteTz, siteTakes, season, choices, slipped>>

\* refreshTz, on every tick
RefreshTz ==
  /\ OwnSource \in ToSet(SourceList) /\ OffsetOf(ActiveZone) # lastPostedTzOffset
  /\ RequestTz(OffsetOf(ActiveZone), FALSE)
  /\ UNCHANGED <<choiceVars, frameVars, lookups, siteVars, choices, slipped>>

\* postTz: only a confirmed POST is remembered; the next tick's wait is over with it.
TzConfirmed ==
  /\ tzPost # Unset /\ siteTakes
  /\ siteTz' = tzPost /\ lastPostedTzOffset' = tzPost
  /\ tzPost' = Unset /\ tzThrottled' = FALSE
  /\ UNCHANGED <<choiceVars, frameVars, lookups, stray, siteTakes, season, news, choices, slipped>>

TzFails(applied) ==
  /\ tzPost # Unset /\ ~siteTakes
  /\ siteTz' = IF applied THEN tzPost ELSE siteTz
  /\ slipped' = (slipped \/ applied)
  /\ tzPost' = Unset /\ tzThrottled' = TRUE
  /\ UNCHANGED <<choiceVars, frameVars, lookups, lastPostedTzOffset, stray, siteTakes, season, news, choices>>

ThrottleEnds ==
  /\ tzThrottled /\ tzThrottled' = FALSE
  /\ UNCHANGED <<choiceVars, frameVars, lookups, lastPostedTzOffset, tzPost, stray, siteVars, choices, slipped>>

StrayEnds(applied) ==
  /\ stray # Unset /\ stray' = Unset
  /\ siteTz' = IF applied THEN stray ELSE siteTz
  /\ slipped' = (slipped \/ applied)
  /\ UNCHANGED <<choiceVars, frameVars, lookups, lastPostedTzOffset, tzPost, tzThrottled, siteTakes, season, news, choices>>

SeasonTurns ==
  /\ News /\ season' = ~season
  /\ UNCHANGED <<choiceVars, frameVars, lookups, tzVars, siteTz, siteTakes, choices, slipped>>

SiteTurns ==
  /\ News /\ siteTakes' = ~siteTakes
  /\ UNCHANGED <<choiceVars, frameVars, lookups, tzVars, siteTz, season, choices, slipped>>

-----------------------------------------------------------------------------
SettingsNext ==
  \/ \E u \in Units : SetUnits(u)
  \/ \E p \in Place : PickPlace(p) \/ Locate(p) \/ ClickMap(p)
  \/ \E p \in Place \cup {Unset} : EditCoordinate(p)
  \/ \E label \in Place \cup {Unset} : LabelArrives(label)
  \/ LookupFails
  \/ \E z \in Zone \cup {Unset} : SetZone(z)
  \/ ClearLocation \/ LoadPage
  \/ \E b \in ToSet(SourceList), u \in Units \cup {Unset} : UnitsFrame(b, u)
  \/ \E b \in ToSet(SourceList), where \in [place : Place, zone : Zone] \cup {Unset} : LocationFrame(b, where)
  \/ RefreshTz \/ TzConfirmed \/ ThrottleEnds \/ SeasonTurns \/ SiteTurns
  \/ \E applied \in BOOLEAN : TzFails(applied) \/ StrayEnds(applied)

\* The tick, the fetch and its timeouts run on by themselves.
SettingsFairness ==
  /\ WF_settingVars(RefreshTz) /\ WF_settingVars(TzConfirmed)
  /\ WF_settingVars(\E applied \in BOOLEAN : TzFails(applied)) /\ WF_settingVars(ThrottleEnds)

SettingsSpec == SettingsInit /\ [][SettingsNext]_settingVars /\ SettingsFairness

-----------------------------------------------------------------------------
Offset == {ZoneOffset[z][s] : z \in Zone, s \in BOOLEAN}
Setting == [units : Units, place : Place \cup {Unset}, label : Place \cup {Unset}, zone : Zone \cup {Unset}]
KeptSettings == [settings : Setting, unitsChosen : BOOLEAN]

ASSUME UnsetNamed == Unset \notin Units \cup Place \cup Zone \cup [place : Place, zone : Zone] \cup KeptSettings

SettingsTypeOK ==
  /\ settings \in Setting /\ unitsAuto \in BOOLEAN /\ unkept \in BOOLEAN
  /\ kept \in KeptSettings \cup {Unset}
  /\ siteUnits \in [ToSet(SourceList) -> Units \cup {Unset}]
  /\ sitePlaces \in [ToSet(SourceList) -> [place : Place, zone : Zone] \cup {Unset}]
  /\ lookups \in Seq(Place)
  /\ {lastPostedTzOffset, tzPost, stray, siteTz} \subseteq Offset \cup {Unset}
  /\ tzThrottled \in BOOLEAN /\ siteTakes \in BOOLEAN /\ season \in BOOLEAN /\ slipped \in BOOLEAN
  /\ choices \in Nat /\ news \in Nat
  /\ chosen \in [units : Units \cup {Unset}, place : Place \cup {Unset}]
  /\ edited \subseteq (Place \cup {Unset}) \X (Place \cup {Unset})

\* The name beside a place is that place's own, whichever lookup answers first
\* and whatever was picked meanwhile (locate of location.jsx), or one the visitor
\* kept by editing a coordinate of another place (setLocation).
LabelFits(s) == s.label \in {Unset, s.place} \/ <<s.place, s.label>> \in edited
LabelOfPlace == LabelFits(settings)

\* Units have one owner: the visitor from the first choice on, frames and page
\* loads notwithstanding, and until then the first source that publishes some.
\* A place the visitor set is theirs alone, and no lookup gives it the name of
\* another: only a coordinate edited by hand leaves it with the name of the place
\* before (unitsAuto, unitsChosen, onUnitsFrame, locate, setLocation).
ChoicesStick ==
  /\ chosen.units # Unset => settings.units = chosen.units /\ (~unkept => kept # Unset /\ kept.unitsChosen)
  /\ chosen.units = Unset /\ FirstOf(siteUnits) # Unset => settings.units = FirstOf(siteUnits)
  /\ settings.place = chosen.place /\ LabelOfPlace

\* The receiver is to hold this offset, and takes it.
TzWanted(offset) == siteTakes /\ ~slipped /\ stray = Unset /\ OffsetOf(ActiveZone) = offset

\* When the zone and its season settle and the receiver takes POSTs, the
\* receiver comes to hold the zone's offset: no lost POST, throttle or POST in
\* flight for an earlier place keeps it from being sent (requestTz, refreshTz).
\* A POST that took effect though it seemed to fail is outside this.
TzConverges == \A offset \in Offset : <>[]TzWanted(offset) => <>[](siteTz = offset)
=============================================================================
