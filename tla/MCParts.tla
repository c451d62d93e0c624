------------------------------- MODULE MCParts -------------------------------
(***************************************************************************)
(* The parts of the dashboard page and of the bridge's process, in one     *)
(* run: `focus` is the part a behaviour is about, the others rest.         *)
(***************************************************************************)
EXTENDS CardLayout, PageSources, PageSettings, PageNames, PageBridges, PageFeeds,
        TokenStore, Shutdown, CertWatch, TLC

CONSTANTS
  Focus,                              \* the parts to look at
  self, dev, feed,                    \* cards
  A, B, own,                          \* sources, and the page's own feeds
  r1, r2, d1,                         \* receivers, a device
  z1, z2                              \* time zones

VARIABLE focus

parts == <<cardVars, sourceVars, settingVars, nameVars, tableVars, feedVars, tokenVars, shutdownVars, certVars>>

-----------------------------------------------------------------------------
(* Values of the constants *)

\* The receiver's own card and a device are A's; a device has a slot of its own.
CardSources == self :> A @@ dev :> A @@ feed :> own
CardSlots == self :> "receiver" @@ dev :> "device" @@ feed :> "feed"
SiteDefault ==
  {[grid |-> "site", order |-> <<"feed", "device">>, look |-> [s \in {"feed", "device"} |-> "site"], hides |-> {"feed"}]}

\* Receivers are of the page's origin, and another source has a device.
DeviceSources == [d \in Device |-> IF d = d1 THEN B ELSE A]

\* One zone has daylight time and one has not; in summer they agree.
Sources == <<A, B>>
ZoneOffsets == z1 :> (FALSE :> 0 @@ TRUE :> 1) @@ z2 :> (FALSE :> 1 @@ TRUE :> 1)

-----------------------------------------------------------------------------
Init ==
  /\ focus \in Focus
  /\ CardsInit /\ SourcesInit /\ SettingsInit /\ NamesInit /\ BridgesInit /\ FeedsInit
  /\ TokensInit /\ ShutdownInit /\ CertsInit
  /\ sources = <<Origin>>
  /\ focus # "settings" => siteTakes
  /\ focus # "sources" => \A b \in Source : server[b] = "up"
  /\ focus # "certs" => link["cert"] = CHOOSE dir \in TargetDir : TRUE

Next ==
  \/ /\ focus = "cards" /\ CardsNext
     /\ UNCHANGED <<sourceVars, settingVars, nameVars, tableVars, feedVars, tokenVars, shutdownVars, certVars, focus>>
  \/ /\ focus = "sources" /\ SourcesNext
     /\ UNCHANGED <<cardVars, settingVars, nameVars, tableVars, feedVars, tokenVars, shutdownVars, certVars, focus>>
  \/ /\ focus = "settings" /\ SettingsNext
     /\ UNCHANGED <<cardVars, sourceVars, nameVars, tableVars, feedVars, tokenVars, shutdownVars, certVars, focus>>
  \/ /\ focus = "names" /\ NamesNext
     /\ UNCHANGED <<cardVars, sourceVars, settingVars, tableVars, feedVars, tokenVars, shutdownVars, certVars, focus>>
  \/ /\ focus = "bridges" /\ BridgesNext
     /\ UNCHANGED <<cardVars, sourceVars, settingVars, nameVars, feedVars, tokenVars, shutdownVars, certVars, focus>>
  \/ /\ focus = "feeds" /\ FeedsNext
     /\ UNCHANGED <<cardVars, sourceVars, settingVars, nameVars, tableVars, tokenVars, shutdownVars, certVars, focus>>
  \/ /\ focus = "tokens" /\ TokensNext
     /\ UNCHANGED <<cardVars, sourceVars, settingVars, nameVars, tableVars, feedVars, shutdownVars, certVars, focus>>
  \/ /\ focus = "shutdown" /\ ShutdownNext
     /\ UNCHANGED <<cardVars, sourceVars, settingVars, nameVars, tableVars, feedVars, tokenVars, certVars, focus>>
  \/ /\ focus = "certs" /\ CertsNext
     /\ UNCHANGED <<cardVars, sourceVars, settingVars, nameVars, tableVars, feedVars, tokenVars, shutdownVars, focus>>

\* The fairness of each part's specification, for the part in focus.
Fairness ==
  /\ \A b \in Source : /\ WF_sourceVars(focus = "sources" /\ Connected(b))
                       /\ WF_sourceVars(focus = "sources" /\ RetryFires(b))
  /\ WF_settingVars(focus = "settings" /\ RefreshTz) /\ WF_settingVars(focus = "settings" /\ TzConfirmed)
  /\ WF_settingVars(focus = "settings" /\ \E applied \in BOOLEAN : TzFails(applied))
  /\ WF_settingVars(focus = "settings" /\ ThrottleEnds)

Spec == Init /\ [][Next]_<<parts, focus>> /\ Fairness

-----------------------------------------------------------------------------
\* Every variable of the part in focus holds a value of its type; the others rest.
PartsTypeOK ==
  /\ focus = "cards" => CardsTypeOK
  /\ focus = "sources" => SourcesTypeOK
  /\ focus = "settings" => SettingsTypeOK
  /\ focus = "names" => NamesTypeOK
  /\ focus = "bridges" => BridgesTypeOK
  /\ focus = "feeds" => FeedsTypeOK
  /\ focus = "tokens" => TokensTypeOK
  /\ focus = "shutdown" => ShutdownTypeOK
  /\ focus = "certs" => CertsTypeOK

\* TzConverges of PageSettings, where that part runs: once the zone and its season
\* settle and the receiver takes POSTs, it comes to hold the zone's offset.
TzSettles == \A offset \in Offset : <>[](focus = "settings" /\ TzWanted(offset)) => <>[](siteTz = offset)
=============================================================================
