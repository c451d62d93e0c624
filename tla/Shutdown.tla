------------------------------- MODULE Shutdown -------------------------------
(***************************************************************************)
(* The end of the bridge's process: the signal handler of bin/mqtt-http-   *)
(* bridge.js, with what server.js, sse.js and broker.js have out by then.  *)
(*                                                                         *)
(* Time is counted in steps, and a timer holds what it has left; one whose *)
(* time has come fires before the next step.                               *)
(***************************************************************************)
EXTENDS Naturals, FiniteSets

CONSTANTS
  Conn,     \* connections of clients
  EchoTimeout, BodyIdleTimeout,
  Margin,   \* what SHUTDOWN_TIMEOUT_MS adds to the two
  Off       \* of a timer: not running

ASSUME ShutdownTimes == EchoTimeout \in Nat /\ BodyIdleTimeout \in Nat /\ Margin \in Nat \ {0} /\ Off \notin Nat

VARIABLES
  on,       \* what is on a connection
  left,     \* what its timer has left
  orphans,  \* connections whose client hung up while its POST waited for the echo: time left, or Off
  phase,    \* of the handler: "serving", "closing", "draining", "parting", "unplugging", "exit0", "exit1"
  drain,    \* what the deadline has left
  watchdog, \* likewise
  teardown, \* history: the time broker.end() and embedded.close() have taken
  failed,   \* history: one of them was rejected
  held      \* history: a client has held the end up

shutdownVars == <<on, left, orphans, phase, drain, watchdog, teardown, failed, held>>

Timer(t) == 0..t
On(c, what, time) == on' = [on EXCEPT ![c] = what] /\ left' = [left EXCEPT ![c] = time]
TearingDown == phase \in {"parting", "unplugging"}
Up == phase \in {"serving", "closing", "draining"} \/ TearingDown

ShutdownInit ==
  /\ on = [c \in Conn |-> "none"] /\ left = [c \in Conn |-> 0] /\ orphans = [c \in Conn |-> Off]
  /\ phase = "serving" /\ drain = 0 /\ watchdog = 0
  /\ teardown = 0 /\ failed = FALSE /\ held = FALSE

Handler == UNCHANGED <<phase, drain, watchdog, teardown, failed>>
HoldsUp(late) == held' = IF late THEN TRUE ELSE held

-----------------------------------------------------------------------------
(* Connections *)

Connects(c) ==
  /\ phase = "serving" /\ on[c] = "none"
  /\ On(c, "idle", 0) /\ UNCHANGED <<orphans, held>> /\ Handler

\* A request on a connection that is kept alive, even one kept past close().
PostArrives(c) ==
  /\ Up /\ on[c] = "idle"
  /\ On(c, "body", BodyIdleTimeout) /\ HoldsUp(phase # "serving")
  /\ UNCHANGED orphans /\ Handler

StreamOpens(c) ==
  /\ Up /\ on[c] = "idle"
  /\ On(c, "stream", 0) /\ HoldsUp(phase # "serving")
  /\ UNCHANGED orphans /\ Handler

\* readBody: every chunk arms the timer anew.
BodyChunk(c) ==
  /\ Up /\ on[c] = "body"
  /\ On(c, "body", BodyIdleTimeout) /\ HoldsUp(phase # "serving")
  /\ UNCHANGED orphans /\ Handler

BodyIdles(c) ==
  /\ Up /\ on[c] = "body" /\ left[c] = 0
  /\ On(c, "none", 0) /\ UNCHANGED <<orphans, held>> /\ Handler

\* publish and echo of broker.js
BodyEnds(c) ==
  /\ Up /\ on[c] = "body"
  /\ On(c, "echo", EchoTimeout) /\ UNCHANGED <<orphans, held>> /\ Handler

\* The echo, with 204, or at the end of its time 503; the connection is kept or not.
Answered(c, alive) ==
  /\ Up /\ on[c] = "echo"
  /\ On(c, IF alive THEN "idle" ELSE "none", 0)
  /\ UNCHANGED <<orphans, held>> /\ Handler

\* The client closes: a stream goes with it, an echo is still waited for (of
\* one connection after another in its place, one at a time).
HangsUp(c) ==
  /\ Up /\ on[c] # "none" /\ (on[c] = "echo" => orphans[c] = Off)
  /\ On(c, "none", 0)
  /\ orphans' = IF on[c] = "echo" THEN [orphans EXCEPT ![c] = left[c]] ELSE orphans
  /\ UNCHANGED held /\ Handler

OrphanEnds(c) ==
  /\ Up /\ orphans[c] # Off
  /\ orphans' = [orphans EXCEPT ![c] = Off] /\ UNCHANGED <<on, left, held>> /\ Handler

-----------------------------------------------------------------------------
(* The handler *)

\* close() of every stream, an end() its client has still to read, and
\* httpServer.close(), which drops what is idle; all in one go.
SignalArrives ==
  /\ phase = "serving" /\ phase' = "closing"
  /\ watchdog' = BodyIdleTimeout + EchoTimeout + Margin
  /\ on' = [c \in Conn |-> IF on[c] = "stream" THEN "ending" ELSE IF on[c] = "idle" THEN "none" ELSE on[c]]
  /\ UNCHANGED <<left, orphans, drain, teardown, failed, held>>

\* A client that does not read its stream keeps it open for as long.
StreamEnds(c) ==
  /\ Up /\ on[c] = "ending"
  /\ On(c, "none", 0) /\ UNCHANGED <<orphans, held>> /\ Handler

HttpClosed == phase = "closing" /\ \A c \in Conn : on[c] = "none"
HttpServerCloses ==
  /\ HttpClosed /\ phase' = "draining" /\ drain' = EchoTimeout
  /\ UNCHANGED <<on, left, orphans, watchdog, teardown, failed, held>>

\* Mutant of Drained: the waiters are not waited for.
DrainedAtOnce == phase = "draining"

\* The loop over waiting() ...
Drained == phase = "draining" /\ (drain = 0 \/ \A c \in Conn : orphans[c] = Off)
Drains ==
  /\ Drained /\ phase' = "parting"
  /\ UNCHANGED <<on, left, orphans, drain, watchdog, teardown, failed, held>>

\* ... then broker.end(), embedded.close() and exit; either may take any time,
\* or be rejected.
BrokerEnds ==
  /\ phase = "parting" /\ phase' = "unplugging"
  /\ UNCHANGED <<on, left, orphans, drain, watchdog, teardown, failed, held>>

Exits ==
  /\ phase = "unplugging" /\ phase' = "exit0"
  /\ UNCHANGED <<on, left, orphans, drain, watchdog, teardown, failed, held>>

TeardownFails ==
  /\ TearingDown /\ phase' = "exit1" /\ failed' = TRUE
  /\ UNCHANGED <<on, left, orphans, drain, watchdog, teardown, held>>

Overdue == (phase \in {"closing", "draining"} \/ TearingDown) /\ watchdog = 0
WatchdogFires ==
  /\ Overdue /\ phase' = "exit1"
  /\ UNCHANGED <<on, left, orphans, drain, watchdog, teardown, failed, held>>

\* A step of time, when no timer has come and the handler has nothing to do.
Less(t) == IF t = 0 THEN 0 ELSE t - 1
TimePasses ==
  /\ Up /\ ~HttpClosed /\ ~Drained /\ ~Overdue
  /\ \A c \in Conn : (on[c] \in {"body", "echo"} => left[c] > 0) /\ orphans[c] # 0
  /\ left' = [c \in Conn |-> Less(left[c])]
  /\ orphans' = [c \in Conn |-> IF orphans[c] = Off THEN Off ELSE Less(orphans[c])]
  /\ drain' = Less(drain) /\ watchdog' = Less(watchdog)
  /\ HoldsUp(phase # "serving" /\ \E c \in Conn : on[c] \in {"ending", "idle"})
  /\ teardown' = IF TearingDown THEN teardown + 1 ELSE teardown
  /\ UNCHANGED <<on, phase, failed>>

-----------------------------------------------------------------------------
ShutdownNext ==
  \/ \E c \in Conn : \/ Connects(c) \/ PostArrives(c) \/ StreamOpens(c) \/ BodyChunk(c) \/ BodyIdles(c)
                     \/ BodyEnds(c) \/ HangsUp(c) \/ OrphanEnds(c) \/ StreamEnds(c)
                     \/ \E alive \in BOOLEAN : Answered(c, alive)
  \/ SignalArrives \/ HttpServerCloses \/ Drains \/ BrokerEnds \/ Exits \/ TeardownFails
  \/ WatchdogFires \/ TimePasses

ShutdownSpec == ShutdownInit /\ [][ShutdownNext]_shutdownVars

-----------------------------------------------------------------------------
Longest == BodyIdleTimeout + EchoTimeout + Margin

ShutdownTypeOK ==
  /\ on \in [Conn -> {"none", "idle", "body", "echo", "stream", "ending"}] /\ left \in [Conn -> Timer(Longest)]
  /\ orphans \in [Conn -> Timer(EchoTimeout) \cup {Off}]
  /\ phase \in {"serving", "closing", "draining", "parting", "unplugging", "exit0", "exit1"}
  /\ drain \in Timer(EchoTimeout) /\ watchdog \in Timer(Longest)
  /\ teardown \in Timer(Longest) /\ failed \in BOOLEAN /\ held \in BOOLEAN

\* The process does not leave a POST behind that was still to be echoed, its
\* client gone or not; and it leaves with 1, which leaves it all behind, only
\* for one of three reasons: a client has held the end up, with a body that
\* goes on, a stream it does not read, or a request on a connection kept past
\* close(); broker.end() or embedded.close() was rejected; or the two took the
\* whole margin (waiting(), the deadline and SHUTDOWN_TIMEOUT_MS).
ShutdownInTime ==
  /\ phase = "exit0" => \A c \in Conn : on[c] = "none" /\ orphans[c] \in {Off, 0}
  /\ phase = "exit1" => held \/ failed \/ teardown >= Margin
=============================================================================
