----------------------------- MODULE RadioHealth -----------------------------
(***************************************************************************)
(* The receiver's watch over its radio (radio_health.cpp, and the loop of  *)
(* WebReceiver.ino): once a minute a radio that has decoded nothing for    *)
(* long, and whose noise floor is pinned, is set up anew; so is one that   *)
(* does not come back from a reading of its temperature.  The receiver's   *)
(* record then says radio_ok.                                              *)
(*                                                                         *)
(* Decodes come from a task of their own, between any two steps of the     *)
(* loop, and some time after the packet; the clock wraps.                  *)
(***************************************************************************)
EXTENDS Integers

CONSTANTS Wrap,            \* of millis(), in minutes
          SilentFor,       \* SILENT_MS
          RecoveryBackoff  \* RECOVERY_BACKOFF_MS

ASSUME RadioAssumption ==
  /\ Wrap \in Nat \ {0} /\ SilentFor \in Nat \ {0} /\ RecoveryBackoff \in Nat \ {0}
  /\ SilentFor < Wrap /\ RecoveryBackoff < Wrap

VARIABLES
  uptime,        \* millis()
  lastDecodeAt,
  health,        \* healthState
  inPipeline,    \* a packet was heard and is not decoded yet
  pinnedFloor,   \* averageRssi has been sampled, and is at the noise floor
  cycle,         \* the next step of the minute's work, or "done"
  seenNow,       \* millis(), read before the call of evaluate()
  radioOk,       \* of the last record
  unconfirmed,   \* history: nothing heard since the radio was last set up anew has been decoded
  late,          \* history: what was heard before that, the watch had yet to see
  wrapped        \* history: the clock has wrapped since the last decode

radioVars == <<uptime, lastDecodeAt, health, inPipeline, pinnedFloor, cycle, seenNow, radioOk, unconfirmed, late, wrapped>>

RadioInit ==
  /\ uptime = 1 /\ lastDecodeAt = 0 /\ health = [lastDecodeAt |-> 0, lastRecoveryAt |-> 0]
  /\ inPipeline = FALSE /\ pinnedFloor = FALSE /\ cycle = "temperature" /\ seenNow = 0
  /\ radioOk = TRUE /\ unconfirmed = FALSE /\ late = FALSE /\ wrapped = FALSE

Since(now, before) == (now - before) % Wrap

-----------------------------------------------------------------------------
(* The radio and the decoder task *)

Heard ==
  /\ ~inPipeline /\ inPipeline' = TRUE
  /\ UNCHANGED <<uptime, lastDecodeAt, health, pinnedFloor, cycle, seenNow, radioOk, unconfirmed, late, wrapped>>

\* rtl_433_Callback
Decoded ==
  /\ inPipeline /\ inPipeline' = FALSE
  /\ lastDecodeAt' = uptime /\ wrapped' = FALSE
  /\ unconfirmed' = (unconfirmed /\ late)
  /\ UNCHANGED <<uptime, health, pinnedFloor, cycle, seenNow, radioOk, late>>

FloorMoves ==
  /\ pinnedFloor' = ~pinnedFloor
  /\ UNCHANGED <<uptime, lastDecodeAt, health, inPipeline, cycle, seenNow, radioOk, unconfirmed, late, wrapped>>

\* A minute passes, and the next cycle is due.
MinutePasses ==
  /\ cycle = "done" /\ cycle' = "read"
  /\ uptime' = (uptime + 1) % Wrap /\ wrapped' = (wrapped \/ uptime' = 0)
  /\ UNCHANGED <<lastDecodeAt, health, inPipeline, pinnedFloor, seenNow, radioOk, unconfirmed, late>>

-----------------------------------------------------------------------------
(* monitorRadioHealth *)

ReadNow ==
  /\ cycle = "read" /\ cycle' = "evaluate" /\ seenNow' = uptime
  /\ UNCHANGED <<uptime, lastDecodeAt, health, inPipeline, pinnedFloor, radioOk, unconfirmed, late, wrapped>>

\* Mutant of Seen: the decode is not kept, and ends the wait again and again.
SeenNotKept == IF lastDecodeAt # health.lastDecodeAt THEN [health EXCEPT !.lastRecoveryAt = 0] ELSE health

\* A decode since the last cycle ends the wait after a recovery.
Seen == IF lastDecodeAt # health.lastDecodeAt THEN [lastDecodeAt |-> lastDecodeAt, lastRecoveryAt |-> 0] ELSE health

\* evaluate and decide: 0 stands for no recovery yet.
SoftReinit ==
  /\ Since(seenNow, lastDecodeAt) > SilentFor /\ pinnedFloor
  /\ Seen.lastRecoveryAt = 0 \/ Since(seenNow, Seen.lastRecoveryAt) >= RecoveryBackoff

Evaluate ==
  /\ cycle = "evaluate" /\ health' = Seen
  /\ cycle' = IF SoftReinit THEN "reinit" ELSE "temperature"
  /\ UNCHANGED <<uptime, lastDecodeAt, inPipeline, pinnedFloor, seenNow, radioOk, unconfirmed, late, wrapped>>

\* recordRecoveryEvent, once the radio is set up
Recovered ==
  /\ health' = [health EXCEPT !.lastRecoveryAt = uptime]
  /\ unconfirmed' = TRUE /\ late' = (inPipeline \/ lastDecodeAt # health.lastDecodeAt)

Reinit ==
  /\ cycle = "reinit" /\ cycle' = "temperature" /\ Recovered
  /\ UNCHANGED <<uptime, lastDecodeAt, inPipeline, pinnedFloor, seenNow, radioOk, wrapped>>

-----------------------------------------------------------------------------
(* recordReceiver, and radioTemperature before it *)

TemperatureRead ==
  /\ cycle = "temperature" /\ cycle' = "record"
  /\ UNCHANGED <<uptime, lastDecodeAt, health, inPipeline, pinnedFloor, seenNow, radioOk, unconfirmed, late, wrapped>>

\* A radio that decoded a moment ago is left alone.
NotBackInRx ==
  /\ cycle = "temperature" /\ cycle' = "record"
  /\ uptime # lastDecodeAt /\ Recovered
  /\ UNCHANGED <<uptime, lastDecodeAt, inPipeline, pinnedFloor, seenNow, radioOk, wrapped>>

Record ==
  /\ cycle = "record" /\ cycle' = "done"
  /\ radioOk' = (health.lastRecoveryAt = 0 \/ lastDecodeAt > health.lastRecoveryAt)
  /\ UNCHANGED <<uptime, lastDecodeAt, health, inPipeline, pinnedFloor, seenNow, unconfirmed, late, wrapped>>

RadioNext ==
  \/ Heard \/ Decoded \/ FloorMoves \/ MinutePasses
  \/ ReadNow \/ Evaluate \/ Reinit \/ TemperatureRead \/ NotBackInRx \/ Record

RadioSpec == RadioInit /\ [][RadioNext]_radioVars

-----------------------------------------------------------------------------
RadioTypeOK ==
  /\ uptime \in 0..(Wrap - 1) /\ lastDecodeAt \in 0..(Wrap - 1) /\ seenNow \in 0..(Wrap - 1)
  /\ health \in [lastDecodeAt : 0..(Wrap - 1), lastRecoveryAt : 0..(Wrap - 1)]
  /\ cycle \in {"done", "read", "evaluate", "reinit", "temperature", "record"}
  /\ inPipeline \in BOOLEAN /\ pinnedFloor \in BOOLEAN /\ radioOk \in BOOLEAN
  /\ unconfirmed \in BOOLEAN /\ late \in BOOLEAN /\ wrapped \in BOOLEAN

\* A receiver does not record that its radio is well when, since the radio was
\* last set up anew, nothing it heard has been decoded (evaluate, recordReceiver):
\* unless the clock has wrapped since the last decode, or something heard
\* before came to be seen as if heard after.
RadioOkEarned == cycle = "done" /\ radioOk => ~unconfirmed \/ late \/ wrapped
=============================================================================
