----------------------------- MODULE FlashStores -----------------------------
(***************************************************************************)
(* What the receiver keeps in flash: the tables (alias_store.cpp,          *)
(* mqtt_publish_store.cpp), the layout (layout_store.cpp), the blobs       *)
(* (blob_store.h: location and units), the update token                    *)
(* (ota_token_store.cpp), the time zone (tz_store.cpp) and the WiFi pair   *)
(* (wifi_store.cpp).  One of them in each behaviour.                       *)
(*                                                                         *)
(* One write of one key is atomic, and may fail; a reset may come between  *)
(* any two steps.                                                          *)
(***************************************************************************)
EXTENDS Naturals

CONSTANTS
  Store,            \* those of {"table", "layout", "blob", "token", "zone", "wifi"} to look at
  Content,          \* what a store may hold, but for the WiFi pair
  Ssid, Pass, Open, \* the pair; Open is the password of an open network, and no key
  Nil,              \* no key, and nothing held
  MaxSaves, MaxResets \* bounds

ASSUME FlashAssumption ==
  Nil \notin Content /\ Nil \notin Ssid /\ Nil \notin Pass /\ Open \in Pass

VARIABLES
  storeKind,
  ram,        \* the store's static variables
  flash,      \* main: the key written today (WiFi: both keys); legacy: that of older firmware
  opened,     \* _open
  step,       \* of a load or of set(): where the next key is written
  target,     \* what set() is to store
  saves, resets,
  answered,   \* history: what the last set() with flash returned true for
  unanswered, \* history: what a reset cut short after it was written
  torn        \* history: a pair was written by half, an offset not at all, or a key not removed

flashVars == <<storeKind, ram, flash, opened, step, target, saves, resets, answered, unanswered, torn>>

Held == IF storeKind = "wifi" THEN [ssid : Ssid, pass : Pass] ELSE Content
Vacant == IF storeKind = "wifi" THEN [ssid |-> Nil, pass |-> Open] ELSE Nil
Migrates == storeKind \in {"table", "layout"}

FlashInit ==
  /\ storeKind \in Store
  /\ \E old \in Held \cup {Vacant}, before \in IF Migrates THEN Content \cup {Nil} ELSE {Nil} :
       /\ flash = [main |-> old, legacy |-> before]
       /\ answered = IF old # Vacant THEN old ELSE IF before = Nil THEN Vacant ELSE before
  /\ ram = Vacant /\ opened = FALSE /\ step = "off" /\ target = Vacant
  /\ saves = 0 /\ resets = 0 /\ unanswered = Vacant /\ torn = FALSE

History == UNCHANGED <<storeKind, saves, resets>>

-----------------------------------------------------------------------------
(* begin() and load() *)

\* Mutant of Loads: the old key is believed while it is there.
LoadsLegacyFirst == IF flash.legacy # Nil THEN flash.legacy ELSE flash.main

Loads == IF flash.main = Vacant /\ Migrates THEN flash.legacy ELSE flash.main

\* The key of today, and then whatever is left of the old one; or the old
\* one, to be written as today's.  Without flash the store starts empty.
Begins(works) ==
  /\ step = "off" /\ opened' = works
  /\ ram' = IF works THEN Loads ELSE Vacant
  /\ step' = IF ~works \/ flash.legacy = Nil THEN "idle"
             ELSE IF flash.main # Vacant THEN "forget" ELSE "migrate"
  /\ answered' = IF works /\ unanswered # Vacant /\ Loads = unanswered THEN unanswered ELSE answered
  /\ unanswered' = IF works THEN Vacant ELSE unanswered
  /\ UNCHANGED <<flash, target, torn>> /\ History

Migrate(ok) ==
  /\ step = "migrate"
  /\ flash' = IF ok THEN [flash EXCEPT !.main = flash.legacy] ELSE flash
  /\ step' = IF ok THEN "forget" ELSE "idle"
  /\ UNCHANGED <<ram, opened, target, answered, unanswered, torn>> /\ History

ForgetLegacy(ok) ==
  /\ step = "forget" /\ step' = "idle"
  /\ flash' = IF ok THEN [flash EXCEPT !.legacy = Nil] ELSE flash
  /\ UNCHANGED <<ram, opened, target, answered, unanswered, torn>> /\ History

-----------------------------------------------------------------------------
(* set() and clear() *)

\* What is there already is not written again, but for the secrets.  Without
\* flash a value is good for the session, but a secret is refused.  A WiFi
\* password is written before its name, that of an open network removed.
Secret == storeKind \in {"wifi", "token"}

Sets(v) ==
  /\ step = "idle" /\ saves < MaxSaves /\ saves' = saves + 1
  /\ v \in Held /\ (Secret \/ v # ram)
  /\ \/ /\ opened /\ target' = v
        /\ step' = IF storeKind # "wifi" THEN "put" ELSE IF v.pass = Open THEN "drop pass" ELSE "put pass"
        /\ UNCHANGED ram
     \/ /\ ~opened /\ ~Secret
        /\ ram' = v /\ UNCHANGED <<step, target>>
  /\ UNCHANGED <<storeKind, flash, opened, resets, answered, unanswered, torn>>

\* The flash once the next key is written.
Written ==
  [flash EXCEPT !.main = CASE step = "put" -> target
                           [] step \in {"put pass", "drop pass"} -> [@ EXCEPT !.pass = target.pass]
                           [] step \in {"put ssid", "put open"} -> [@ EXCEPT !.ssid = target.ssid]
                           [] step = "restore" -> [@ EXCEPT !.pass = ram.pass]]

Puts(steps, ok) ==
  /\ step \in steps /\ flash' = IF ok THEN Written ELSE flash
  /\ UNCHANGED <<opened, unanswered>> /\ History

Returns(true) ==
  /\ step' = "idle" /\ target' = Vacant
  /\ answered' = IF true THEN target ELSE answered

GoesOn(to) == step' = to /\ UNCHANGED <<target, answered>>

\* What is in memory once the flash has refused: of an offset nobody asks.
Undone == IF storeKind = "zone" THEN target ELSE ram

Put(ok) ==
  /\ Puts({"put"}, ok)
  /\ ram' = IF ok THEN target ELSE Undone
  /\ Returns(ok \/ storeKind = "zone")
  /\ torn' = (~ok /\ (torn \/ storeKind = "zone"))

PutPass(ok) ==
  /\ Puts({"put pass", "drop pass"}, ok)
  /\ \/ step = "put pass" /\ ok /\ GoesOn("put ssid")
     \/ step = "put pass" /\ ~ok /\ Returns(FALSE)
     \/ step = "drop pass" /\ GoesOn("put open")
  /\ UNCHANGED <<ram, torn>>

\* A name that is refused takes its password back with it, but not that of an
\* open network.
PutSsid(ok) ==
  /\ Puts({"put ssid", "put open"}, ok)
  /\ ram' = IF ok THEN target ELSE ram
  /\ IF ~ok /\ step = "put ssid" THEN GoesOn("restore") ELSE Returns(ok)
  /\ torn' = IF ok THEN flash.main.pass # target.pass ELSE torn \/ step = "put open"

RestorePass(ok) ==
  /\ Puts({"restore"}, ok)
  /\ Returns(FALSE) /\ torn' = (torn \/ ~ok)
  /\ UNCHANGED ram

\* clear(): memory first.  A reset between the two keys of a pair leaves what
\* a second removal that fails leaves.
Clears(ok, passToo) ==
  /\ step = "idle" /\ Secret /\ saves < MaxSaves /\ saves' = saves + 1
  /\ ram' = Vacant
  /\ flash' = IF ~opened THEN flash
              ELSE [flash EXCEPT !.main =
                     IF storeKind = "token" THEN IF ok THEN Nil ELSE @
                     ELSE [ssid |-> IF ok THEN Nil ELSE @.ssid, pass |-> IF passToo THEN Open ELSE @.pass]]
  /\ answered' = IF opened THEN Vacant ELSE answered
  /\ torn' = IF opened THEN ~(ok /\ (passToo \/ storeKind = "token")) ELSE torn
  /\ UNCHANGED <<storeKind, opened, step, target, resets, unanswered>>

-----------------------------------------------------------------------------
(* A reset, at any time *)

Reset ==
  /\ step # "off" /\ resets < MaxResets /\ resets' = resets + 1
  /\ step' = "off" /\ ram' = Vacant /\ opened' = FALSE /\ target' = Vacant
  /\ UNCHANGED <<storeKind, saves, answered>>

PowerLost ==
  /\ Reset /\ torn' = (torn \/ step \in {"put ssid", "put open", "restore"})
  /\ UNCHANGED <<flash, unanswered>>

\* It may come after the last key was written and before set() returns.
LostBeforeAnswer ==
  /\ Reset /\ step \in {"put", "put ssid", "put open"}
  /\ flash' = Written /\ unanswered' = target
  /\ torn' = (step # "put" /\ flash.main.pass # target.pass)

FlashNext ==
  \/ \E ok \in BOOLEAN : \/ Begins(ok) \/ Migrate(ok) \/ ForgetLegacy(ok)
                         \/ Put(ok) \/ PutPass(ok) \/ PutSsid(ok) \/ RestorePass(ok)
  \/ \E v \in Held : Sets(v)
  \/ \E ok, passToo \in BOOLEAN : Clears(ok, passToo)
  \/ PowerLost \/ LostBeforeAnswer

FlashSpec == FlashInit /\ [][FlashNext]_flashVars

-----------------------------------------------------------------------------
\* A pair that was torn may have no name.
Holdable == IF storeKind = "wifi" THEN [ssid : Ssid \cup {Nil}, pass : Pass] ELSE Content \cup {Nil}

FlashTypeOK ==
  /\ storeKind \in Store /\ flash \in [main : Holdable, legacy : Content \cup {Nil}]
  /\ ram \in Holdable /\ target \in Holdable /\ answered \in Holdable /\ unanswered \in Holdable
  /\ step \in {"off", "idle", "migrate", "forget", "put", "put pass", "drop pass", "put ssid", "put open", "restore"}
  /\ opened \in BOOLEAN /\ torn \in BOOLEAN /\ saves \in Nat /\ resets \in Nat

\* However writes fail and wherever resets fall, in a save or in the migration
\* of an old key: a receiver with flash has what its last save was answered
\* for, or one that had been written when a reset cut it off; a save that was
\* refused leaves no trace (set, persist and load of the stores).  Not so
\* once a WiFi pair was cut or could not be taken back, an offset was refused,
\* or the key of a token was not removed.
AnsweredIsKept == opened /\ ~torn => ram = answered
=============================================================================
