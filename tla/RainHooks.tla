------------------------------ MODULE RainHooks ------------------------------
(***************************************************************************)
(* rain_today_mm of the receiver (device_hooks.cpp): a rain gauge reports  *)
(* what has fallen since its battery was put in; the hook subtracts what   *)
(* it reported first on this local day, which it keeps for a few gauges.   *)
(*                                                                         *)
(* Amounts are whole; the rounding to tenths is left out.                  *)
(***************************************************************************)
EXTENDS Integers, FiniteSets

CONSTANTS
  Gauge,      \* the keys of the gauges
  RainSlots,  \* RAIN_HOOK_SLOTS
  NoRain,     \* a slot not in use, and a record without rain_today_mm
  MaxRain, MaxNights, MaxMishaps \* bounds

RainSlot == 1..RainSlots
ASSUME RainAssumption == RainSlots \in Nat \ {0} /\ IsFiniteSet(Gauge) /\ NoRain \notin [key : Gauge, baseline : Nat, day : Nat]

VARIABLES
  rain,     \* _rain
  today,    \* the local day of the clock, once it is set
  synced,   \* time() is past 1700000000
  counter,  \* gauge -> what it reports
  fallen,   \* history: gauge -> what has fallen since its first reading of this day
  readToday,     \* history: the gauges read on this day
  begunAgain, \* history: the gauges whose count of this day a new battery or a restart began again
  rezoned,  \* history: the latest day it was before or after a change of time zone
  said,     \* history: what the last record said, and what it should have
  rains, nights, mishaps

rainVars == <<rain, today, synced, counter, fallen, readToday, begunAgain, rezoned, said, rains, nights, mishaps>>

RainInit ==
  /\ rain = [i \in RainSlot |-> NoRain]
  /\ today = 1 /\ synced = FALSE
  /\ counter = [g \in Gauge |-> 0] /\ fallen = [g \in Gauge |-> 0]
  /\ readToday = {} /\ begunAgain = {} /\ rezoned = 0 /\ said = NoRain
  /\ rains = 0 /\ nights = 0 /\ mishaps = 0

-----------------------------------------------------------------------------
(* The hook *)

localDay == IF synced THEN today ELSE 0

\* Mutant of claimRain: the first slot, whatever is in it.
claimFirst == {i \in RainSlot : IF \E j \in RainSlot : rain[j] = NoRain THEN rain[i] = NoRain ELSE i = 1}

\* A slot that is free, or else the first of the oldest day.
claimRain ==
  LET free == {i \in RainSlot : rain[i] = NoRain}
      oldest == {i \in RainSlot : \A j \in RainSlot : rain[i].day <= rain[j].day}
      given == IF free # {} THEN free ELSE oldest
  IN {i \in given : \A j \in given : i <= j}

findRain(g) == {i \in RainSlot : rain[i] # NoRain /\ rain[i].key = g}

Says(g, mm) ==
  /\ readToday' = readToday \cup {g}
  /\ said' = IF today <= rezoned THEN NoRain
             ELSE [says |-> mm, is |-> fallen[g], exact |-> g \notin begunAgain /\ Cardinality(readToday') <= RainSlots]

\* A first reading, of the day or since its slot was taken, and one below the
\* baseline start from here.
rainHook(g) ==
  LET mm == counter[g]
      starts(i) == /\ rain' = [rain EXCEPT ![i] = [key |-> g, baseline |-> mm, day |-> localDay]]
                   /\ Says(g, 0)
  IN /\ localDay # 0 \* else the record goes without
     /\ \/ findRain(g) = {} /\ \E i \in claimRain : starts(i)
        \/ \E i \in findRain(g) :
             IF localDay # rain[i].day \/ mm < rain[i].baseline THEN starts(i)
             ELSE UNCHANGED rain /\ Says(g, mm - rain[i].baseline)
     /\ UNCHANGED <<today, synced, counter, fallen, begunAgain, rezoned, rains, nights, mishaps>>

-----------------------------------------------------------------------------
(* The weather, the calendar, the time zone and the power *)

\* A battery changed, a time zone chosen or a restart.
Mishap == mishaps < MaxMishaps /\ mishaps' = mishaps + 1

Rains(g) ==
  /\ rains < MaxRain /\ rains' = rains + 1
  /\ counter' = [counter EXCEPT ![g] = @ + 1]
  /\ fallen' = [fallen EXCEPT ![g] = IF g \in readToday THEN @ + 1 ELSE @]
  /\ UNCHANGED <<rain, today, synced, readToday, begunAgain, rezoned, said, nights, mishaps>>

BatteryChanged(g) ==
  /\ Mishap
  /\ counter' = [counter EXCEPT ![g] = 0] /\ begunAgain' = begunAgain \cup {g}
  /\ UNCHANGED <<rain, today, synced, fallen, readToday, rezoned, said, rains, nights>>

ClockSet ==
  /\ ~synced /\ synced' = TRUE
  /\ UNCHANGED <<rain, today, counter, fallen, readToday, begunAgain, rezoned, said, rains, nights, mishaps>>

\* Nothing has been read of the day that begins.
Forgotten ==
  /\ readToday' = {} /\ begunAgain' = {} /\ fallen' = [g \in Gauge |-> 0] /\ said' = NoRain
  /\ UNCHANGED <<counter, rains>>

DayTurns ==
  /\ nights < MaxNights /\ nights' = nights + 1
  /\ today' = today + 1 /\ Forgotten
  /\ UNCHANGED <<rain, synced, rezoned, mishaps>>

\* setTzOffset: the same moment may be of the next day, or of the one before.
setTzOffset(day) ==
  /\ Mishap
  /\ day \in {today - 1, today + 1} \ {0}
  /\ today' = day /\ rezoned' = IF rezoned > today THEN rezoned ELSE IF day > today THEN day ELSE today
  /\ Forgotten
  /\ UNCHANGED <<rain, synced, nights>>

\* begin(): the baselines are not kept, and the clock is not set again yet; the
\* day, and what has fallen on it, go on.
RainBegin ==
  /\ Mishap
  /\ rain' = [i \in RainSlot |-> NoRain] /\ synced' = FALSE
  /\ begunAgain' = begunAgain \cup readToday
  /\ UNCHANGED <<today, counter, fallen, readToday, rezoned, said, rains, nights>>

RainNext ==
  \/ \E g \in Gauge : rainHook(g) \/ Rains(g) \/ BatteryChanged(g)
  \/ ClockSet \/ DayTurns \/ RainBegin
  \/ \E day \in {today - 1, today + 1} : setTzOffset(day)

RainSpec == RainInit /\ [][RainNext]_rainVars

-----------------------------------------------------------------------------
RainTypeOK ==
  /\ rain \in [RainSlot -> [key : Gauge, baseline : Nat, day : Nat \ {0}] \cup {NoRain}]
  /\ today \in Nat \ {0} /\ synced \in BOOLEAN /\ rezoned \in Nat
  /\ counter \in [Gauge -> Nat] /\ fallen \in [Gauge -> Nat]
  /\ readToday \subseteq Gauge /\ begunAgain \subseteq Gauge
  /\ said \in [says : Nat, is : Nat, exact : BOOLEAN] \cup {NoRain}
  /\ rains \in Nat /\ nights \in Nat /\ mishaps \in Nat

\* No record says that more has fallen today than has since the gauge's first
\* reading of the day, whatever gauges share the slots, batteries, midnights
\* and restarts.  It says exactly that unless, since that reading, the gauge's
\* battery was changed or the receiver restarted, which begins the day's count
\* again at 0, or more gauges than slots were read on the day (rainHook,
\* claimRain, begin).  Both are promised of days no change of time zone has
\* moved the clock to or from, and of none before them.
RainOfToday ==
  said # NoRain => said.says <= said.is /\ (said.exact => said.says = said.is)
=============================================================================
