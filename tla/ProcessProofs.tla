---------------------------- MODULE ProcessProofs ----------------------------
(***************************************************************************)
(* Proofs about the parts of the bridge's process: the token store, the    *)
(* shutdown and the certificate watcher; and, with what PageProofs and     *)
(* CardProofs show of the page, about the parts run together.              *)
(***************************************************************************)
EXTENDS MCParts, PageProofs, CardProofs

(***************************************************************************)
(* TokenStore.  Beside TokensAgree the induction needs that what the disk  *)
(* is read as is one of the things a crash would leave, and that a renamed *)
(* file is the rotation's own.                                             *)
(***************************************************************************)
TokensInv ==
  /\ TokensTypeOK /\ TokensAgree
  /\ onDisk \in lasting
  /\ rotation # Empty /\ rotation.step = "renamed" => onDisk = rotation.token /\ rotation.token \in loose
  /\ current = Empty => crashes > 0

LEMMA TokensStart == TokensInit => TokensInv
  BY TokensNamed DEF TokensInit, TokensInv, TokensTypeOK, TokensAgree, Survives, Stored

\* A rotate request, refused or not, touches no token.
LEMMA RequestsKeepTokens ==
  TokensInv /\ ((\E presented \in Token, token \in Token : RotateArrives(presented, token))
                \/ \E r \in requests : RotateRefused(r)) => TokensInv'
<1>1. ASSUME TokensInv, NEW presented \in Token, NEW token \in Token, RotateArrives(presented, token) PROVE TokensInv'
  BY <1>1, TokensNamed DEF RotateArrives, TokensInv, TokensTypeOK, TokensAgree, Survives, Stored
<1>2. ASSUME TokensInv, NEW r \in requests, RotateRefused(r) PROVE TokensInv'
  BY <1>2, TokensNamed DEF RotateRefused, TokensInv, TokensTypeOK, TokensAgree, Survives, Stored
<1> QED BY <1>1, <1>2

\* Every step of persist keeps the token, what is on disk and what is acknowledged agreed.
LEMMA PersistKeepsTokens ==
  TokensInv /\ ((\E r \in requests : WriteFile(r)) \/ SyncFile \/ RenameFile \/ SyncDirectory \/ PersistThrows)
    => TokensInv'
<1>1. ASSUME TokensInv, NEW r \in requests, WriteFile(r) PROVE TokensInv'
  BY <1>1, TokensNamed DEF WriteFile, TokensInv, TokensTypeOK, TokensAgree, Survives, Stored
<1>2. ASSUME TokensInv, SyncFile PROVE TokensInv'
  BY <1>2, TokensNamed DEF SyncFile, TokensInv, TokensTypeOK, TokensAgree, Survives, Stored
<1>3. ASSUME TokensInv, RenameFile PROVE TokensInv'
  BY <1>3, TokensNamed DEF RenameFile, TokensInv, TokensTypeOK, TokensAgree, Survives, Stored
<1>4. ASSUME TokensInv, SyncDirectory PROVE TokensInv'
  BY <1>4, TokensNamed DEF SyncDirectory, TokensInv, TokensTypeOK, TokensAgree, Survives, Stored
<1>5. ASSUME TokensInv, PersistThrows PROVE TokensInv'
  BY <1>5, TokensNamed DEF PersistThrows, TokensInv, TokensTypeOK, TokensAgree, Survives, Stored
<1> QED BY <1>1, <1>2, <1>3, <1>4, <1>5

\* What a crash leaves is a token acknowledged or loose, and the next start takes it.
LEMMA RestartsKeepTokens ==
  TokensInv /\ (Crash \/ Start \/ InnerDrops \/ InnerConnects) => TokensInv'
<1>1. ASSUME TokensInv, Crash PROVE TokensInv'
  <2>1. PICK file \in lasting : onDisk' = file /\ lasting' = {file}
    BY <1>1 DEF Crash
  <2>2. onDisk' \in lasting' /\ lasting' \subseteq lasting
    BY <2>1
  <2> DEFINE Client == [password : Token, up : BOOLEAN]
  <2>6. inner \in Client /\ inner' = [inner EXCEPT !.up = FALSE]
    BY <1>1 DEF Crash, TokensInv, TokensTypeOK
  <2>3. inner' \in Client /\ crashes' \in Nat
    <3>1. inner' \in Client
      BY <2>6
    <3>2. crashes' \in Nat
      BY <1>1 DEF Crash, TokensInv, TokensTypeOK
    <3> QED BY <3>1, <3>2
  <2>4. /\ current' = Empty /\ rotation' = Empty /\ requests' = {}
        /\ rotations' = rotations /\ acked' = acked /\ loose' = loose /\ superseded' = superseded
        /\ crashes' > 0
    BY <1>1 DEF Crash, TokensInv, TokensTypeOK
  <2>5. TokensTypeOK'
    BY <1>1, <2>2, <2>3, <2>4 DEF TokensInv, TokensTypeOK
  <2> QED BY <1>1, <2>2, <2>4, <2>5, TokensNamed DEF TokensInv, TokensAgree, Survives, Stored
<1>2. ASSUME TokensInv, Start PROVE TokensInv'
  <2>1. Stored(onDisk) \in Token /\ Survives(Stored(onDisk)) /\ crashes # 0
    BY <1>2, TokensNamed DEF Start, TokensInv, TokensTypeOK, TokensAgree, Survives, Stored
  <2> QED BY <1>2, <2>1, TokensNamed DEF Start, TokensInv, TokensTypeOK, TokensAgree, Survives
<1>3. ASSUME TokensInv, InnerDrops PROVE TokensInv'
  BY <1>3, TokensNamed DEF InnerDrops, TokensInv, TokensTypeOK, TokensAgree, Survives, Stored
<1>4. ASSUME TokensInv, InnerConnects PROVE TokensInv'
  BY <1>4, TokensNamed DEF InnerConnects, TokensInv, TokensTypeOK, TokensAgree, Survives, Stored
<1> QED BY <1>1, <1>2, <1>3, <1>4

LEMMA TokensStutter == TokensInv /\ UNCHANGED tokenVars => TokensInv'
  BY DEF tokenVars, TokensInv, TokensTypeOK, TokensAgree, Survives, Stored

LEMMA TokensStep == TokensInv /\ [TokensNext]_tokenVars => TokensInv'
BY RequestsKeepTokens, PersistKeepsTokens, RestartsKeepTokens, TokensStutter DEF TokensNext

LEMMA TokensAlways == TokensSpec => []TokensInv
<1> QED BY TokensStep, TokensStart, PTL DEF TokensSpec

\* Types of the token store's state.
THEOREM TokensTyped == TokensSpec => []TokensTypeOK
<1>1. TokensInv => TokensTypeOK BY DEF TokensInv
<1> QED BY <1>1, TokensAlways, PTL

\* For any tokens and any number of crashes: the last acknowledged rotation is
\* the token until a crash, and outlives it where the directory was synced; a
\* filesystem that refuses that may bring back one acknowledged before, and
\* nothing else (persist and rotate of token-store.js).
THEOREM TokensNeverLost == TokensSpec => []TokensAgree
<1>1. TokensInv => TokensAgree BY DEF TokensInv
<1> QED BY <1>1, TokensAlways, PTL

-----------------------------------------------------------------------------
(***************************************************************************)
(* Shutdown.  The watchdog is ahead of every timer the server still waits  *)
(* for, as long as no client holds the end up; the deadline of the drain   *)
(* is ahead of every waiter's; and what the watchdog has lost of its       *)
(* margin, once the drain is over, the teardown has taken.                 *)
(***************************************************************************)
TimersInTime ==
  \A c \in Conn : /\ on[c] = "body" => left[c] <= BodyIdleTimeout
                  /\ on[c] = "echo" => left[c] <= EchoTimeout

DrainInTime ==
  /\ phase = "draining" \/ TearingDown \/ phase = "exit0" => \A c \in Conn : on[c] = "none"
  /\ phase = "draining" => \A c \in Conn : orphans[c] = Off \/ orphans[c] <= drain
  /\ TearingDown \/ phase = "exit0" => \A c \in Conn : orphans[c] \in {Off, 0}

MarginSpent ==
  /\ phase \in {"serving", "closing", "draining"} => teardown = 0
  /\ TearingDown => teardown + watchdog <= Longest
  /\ TearingDown /\ ~held => teardown + watchdog >= Margin

WatchdogAhead ==
  ~held /\ phase \in {"closing", "draining"} =>
    /\ watchdog >= Margin
    /\ \A c \in Conn : /\ on[c] # "stream"
                       /\ on[c] = "body" => watchdog >= Margin + left[c] + EchoTimeout
                       /\ on[c] = "echo" => watchdog >= Margin + left[c]
                       /\ orphans[c] # Off => watchdog >= Margin + orphans[c]

ShutdownInv ==
  /\ ShutdownTypeOK /\ TimersInTime /\ DrainInTime /\ WatchdogAhead /\ MarginSpent
  /\ phase = "exit1" => held \/ failed \/ teardown >= Margin

LEMMA ShutdownStart == ShutdownInit => ShutdownInv
<1> SUFFICES ASSUME ShutdownInit PROVE ShutdownInv
  OBVIOUS
<1>1. 0 \in Timer(Longest) /\ 0 \in Timer(EchoTimeout)
  BY ShutdownTimes DEF Timer, Longest
<1>2. ShutdownTypeOK
  BY <1>1 DEF ShutdownInit, ShutdownTypeOK
<1>3. TimersInTime /\ DrainInTime /\ WatchdogAhead /\ MarginSpent
  BY DEF ShutdownInit, TimersInTime, DrainInTime, WatchdogAhead, MarginSpent, TearingDown
<1> QED BY <1>2, <1>3 DEF ShutdownInit, ShutdownInv

\* A client's steps.
ClientStep ==
  \E c \in Conn : \/ Connects(c) \/ PostArrives(c) \/ StreamOpens(c) \/ BodyChunk(c) \/ BodyIdles(c)
                  \/ BodyEnds(c) \/ HangsUp(c) \/ OrphanEnds(c) \/ StreamEnds(c)
                  \/ \E alive \in BOOLEAN : Answered(c, alive)

LEMMA ClientsKeepTypes == ShutdownInv /\ ClientStep => ShutdownTypeOK'
<1> USE ShutdownTimes DEF ShutdownInv, ShutdownTypeOK, TimersInTime, Timer, Longest, Handler, HoldsUp, On
<1>0. ASSUME ShutdownInv, NEW c \in Conn, Connects(c) \/ BodyIdles(c) PROVE ShutdownTypeOK'
  BY <1>0 DEF Connects, BodyIdles
<1>1. ASSUME ShutdownInv, NEW c \in Conn, PostArrives(c) \/ StreamOpens(c) \/ BodyChunk(c) PROVE ShutdownTypeOK'
  <2>1. held' \in BOOLEAN
    BY <1>1 DEF PostArrives, StreamOpens, BodyChunk
  <2>2. on' \in [Conn -> {"none", "idle", "body", "echo", "stream", "ending"}]
    BY <1>1 DEF PostArrives, StreamOpens, BodyChunk
  <2>3. left' = [left EXCEPT ![c] = BodyIdleTimeout] \/ left' = [left EXCEPT ![c] = 0]
    BY <1>1 DEF PostArrives, StreamOpens, BodyChunk
  <2>4. left' \in [Conn -> Timer(Longest)]
    BY <1>1, <2>3
  <2> QED BY <1>1, <2>1, <2>2, <2>4 DEF PostArrives, StreamOpens, BodyChunk
<1>2. ASSUME ShutdownInv, NEW c \in Conn, BodyEnds(c) \/ OrphanEnds(c) \/ StreamEnds(c) PROVE ShutdownTypeOK'
  BY <1>2 DEF BodyEnds, OrphanEnds, StreamEnds
<1>3. ASSUME ShutdownInv, NEW c \in Conn, HangsUp(c) PROVE ShutdownTypeOK'
  BY <1>3 DEF HangsUp
<1>4. ASSUME ShutdownInv, NEW c \in Conn, NEW alive \in BOOLEAN, Answered(c, alive) PROVE ShutdownTypeOK'
  BY <1>4 DEF Answered
<1> QED BY <1>0, <1>1, <1>2, <1>3, <1>4 DEF ClientStep

LEMMA ClientsKeepTime == ShutdownInv /\ ClientStep => ShutdownInv'
<1> SUFFICES ASSUME ShutdownInv, ClientStep PROVE ShutdownInv'
  OBVIOUS
<1>0. ShutdownTypeOK'
  BY ClientsKeepTypes
<1>1. /\ phase' = phase /\ watchdog' = watchdog /\ drain' = drain /\ (held => held')
      /\ teardown' = teardown /\ failed' = failed
  <2>1. ASSUME NEW c \in Conn, Connects(c) \/ BodyIdles(c) \/ BodyEnds(c) \/ HangsUp(c) \/ OrphanEnds(c) \/ StreamEnds(c)
        PROVE phase' = phase /\ watchdog' = watchdog /\ drain' = drain /\ held' = held /\ teardown' = teardown /\ failed' = failed
    BY <2>1 DEF Connects, BodyIdles, BodyEnds, HangsUp, OrphanEnds, StreamEnds, Handler
  <2>2. ASSUME NEW c \in Conn, PostArrives(c) \/ StreamOpens(c) \/ BodyChunk(c)
        PROVE phase' = phase /\ watchdog' = watchdog /\ drain' = drain /\ (held => held') /\ teardown' = teardown /\ failed' = failed
    BY <2>2 DEF PostArrives, StreamOpens, BodyChunk, Handler, HoldsUp
  <2>3. ASSUME NEW c \in Conn, NEW alive \in BOOLEAN, Answered(c, alive)
        PROVE phase' = phase /\ watchdog' = watchdog /\ drain' = drain /\ held' = held /\ teardown' = teardown /\ failed' = failed
    BY <2>3 DEF Answered, Handler
  <2> QED BY <2>1, <2>2, <2>3 DEF ClientStep
<1> USE ShutdownTimes DEF ShutdownInv, ShutdownTypeOK, TimersInTime, DrainInTime, WatchdogAhead, TearingDown, Timer, Longest, On, Handler, HoldsUp
<1>2. ASSUME NEW c \in Conn, Connects(c) \/ PostArrives(c) \/ StreamOpens(c) \/ BodyChunk(c)
      PROVE TimersInTime' /\ DrainInTime' /\ WatchdogAhead'
  <2>1. CASE Connects(c)
    BY <2>1 DEF Connects
  <2>2. CASE PostArrives(c) \/ StreamOpens(c) \/ BodyChunk(c)
    <3>0. /\ on[c] # "none"
          /\ \A d \in Conn \ {c} : on'[d] = on[d] /\ left'[d] = left[d]
          /\ on'[c] = "stream" \/ (on'[c] = "body" /\ left'[c] = BodyIdleTimeout)
          /\ orphans' = orphans /\ Up
      BY <2>2 DEF PostArrives, StreamOpens, BodyChunk
    <3>1. TimersInTime' /\ DrainInTime'
      BY <1>1, <3>0 DEF Up
    <3>2. phase # "serving" => held'
      BY <2>2 DEF PostArrives, StreamOpens, BodyChunk
    <3> QED BY <1>1, <3>1, <3>2
  <2> QED BY <1>2, <2>1, <2>2
<1>3. ASSUME NEW c \in Conn, BodyIdles(c) \/ BodyEnds(c) \/ StreamEnds(c) PROVE TimersInTime' /\ DrainInTime' /\ WatchdogAhead'
  BY <1>3 DEF BodyIdles, BodyEnds, StreamEnds, Up
<1>4. ASSUME NEW c \in Conn, HangsUp(c) \/ OrphanEnds(c) PROVE TimersInTime' /\ DrainInTime' /\ WatchdogAhead'
  BY <1>4 DEF HangsUp, OrphanEnds, Up
<1>5. ASSUME NEW c \in Conn, NEW alive \in BOOLEAN, Answered(c, alive) PROVE TimersInTime' /\ DrainInTime' /\ WatchdogAhead'
  BY <1>5 DEF Answered, Up
<1>6. TimersInTime' /\ DrainInTime' /\ WatchdogAhead'
  BY <1>2, <1>3, <1>4, <1>5 DEF ClientStep
<1>7. MarginSpent' /\ (phase' = "exit1" => held' \/ failed' \/ teardown' >= Margin)
  BY <1>1 DEF MarginSpent, TearingDown
<1> QED BY <1>0, <1>6, <1>7

\* The handler starts the watchdog above all timers, and ends when it may.
LEMMA HandlerKeepsTime ==
  ShutdownInv /\ (SignalArrives \/ HttpServerCloses \/ Drains \/ BrokerEnds \/ Exits \/ TeardownFails \/ WatchdogFires)
    => ShutdownInv'
<1> USE ShutdownTimes DEF ShutdownInv, ShutdownTypeOK, TimersInTime, DrainInTime, WatchdogAhead, MarginSpent, TearingDown, Timer, Longest
<1>1. ASSUME ShutdownInv, SignalArrives PROVE ShutdownInv'
  BY <1>1 DEF SignalArrives
<1>2. ASSUME ShutdownInv, HttpServerCloses PROVE ShutdownInv'
  BY <1>2 DEF HttpServerCloses, HttpClosed
<1>3. ASSUME ShutdownInv, Drains PROVE ShutdownInv'
  BY <1>3 DEF Drains, Drained
<1>4. ASSUME ShutdownInv, BrokerEnds \/ Exits PROVE ShutdownInv'
  BY <1>4 DEF BrokerEnds, Exits
<1>5. ASSUME ShutdownInv, TeardownFails PROVE ShutdownInv'
  BY <1>5 DEF TeardownFails
<1>6. ASSUME ShutdownInv, WatchdogFires PROVE ShutdownInv'
  BY <1>6 DEF WatchdogFires, Overdue
<1> QED BY <1>1, <1>2, <1>3, <1>4, <1>5, <1>6

\* A step of time takes as much from the watchdog as from what it is ahead of,
\* and takes nothing from it unless something it is ahead of is there.
LEMMA TimeKeepsTime == ShutdownInv /\ TimePasses => ShutdownInv'
<1> SUFFICES ASSUME ShutdownInv, TimePasses PROVE ShutdownInv'
  OBVIOUS
<1> USE ShutdownTimes DEF ShutdownInv, ShutdownTypeOK, Timer, Longest, HoldsUp
<1>1. \A t \in Nat : /\ Less(t) \in Nat /\ Less(t) <= t
                     /\ t > 0 => Less(t) = t - 1
  BY DEF Less
<1>2. \A c \in Conn : /\ left[c] \in Nat
                      /\ on'[c] = on[c] /\ left'[c] = Less(left[c])
                      /\ orphans'[c] = IF orphans[c] = Off THEN Off ELSE Less(orphans[c])
                      /\ orphans[c] # Off => orphans[c] \in Nat
  BY DEF TimePasses
<1>3. phase' = phase /\ drain' = Less(drain) /\ watchdog' = Less(watchdog)
  BY DEF TimePasses
<1>4. ShutdownTypeOK'
  <2>1. left' \in [Conn -> Timer(Longest)]
    BY <1>1 DEF TimePasses
  <2>2. orphans' \in [Conn -> Timer(EchoTimeout) \cup {Off}]
    BY <1>1 DEF TimePasses
  <2>3. drain' \in Timer(EchoTimeout) /\ watchdog' \in Timer(Longest)
    BY <1>1 DEF TimePasses
  <2>4. held' \in BOOLEAN /\ on' = on /\ phase' = phase /\ failed' = failed
    BY DEF TimePasses
  <2>5. teardown' \in Timer(Longest)
    <3>1. TearingDown => watchdog > 0
      BY DEF TimePasses, Overdue
    <3> QED BY <3>1 DEF TimePasses, MarginSpent
  <2> QED BY <2>1, <2>2, <2>3, <2>4, <2>5
<1>5. TimersInTime'
  BY <1>1, <1>2 DEF TimersInTime
<1>6. DrainInTime'
  <2>1. phase = "draining" => drain > 0
    BY DEF TimePasses, Drained
  <2>2. phase \notin {"exit0", "exit1"}
    BY DEF TimePasses, Up, TearingDown
  <2>3. \A c \in Conn : orphans[c] # 0
    BY DEF TimePasses
  <2> QED BY <1>1, <1>2, <1>3, <2>1, <2>2, <2>3 DEF DrainInTime, TearingDown
<1>7. WatchdogAhead'
  <2> SUFFICES ASSUME ~held', phase \in {"closing", "draining"} PROVE WatchdogAhead'
    BY <1>3 DEF WatchdogAhead
  <2>1. ~held /\ \A c \in Conn : on[c] \notin {"ending", "idle", "stream"}
    BY DEF TimePasses, WatchdogAhead
  <2>2. \A c \in Conn : (on[c] \in {"body", "echo"} => left[c] > 0) /\ orphans[c] # 0
    BY DEF TimePasses
  <2>3. \E c \in Conn : on[c] \in {"body", "echo"} \/ orphans[c] # Off
    <3>1. CASE phase = "closing"
      BY <3>1, <2>1 DEF TimePasses, HttpClosed
    <3>2. CASE phase = "draining"
      BY <3>2 DEF TimePasses, Drained
    <3> QED BY <3>1, <3>2
  <2>4. watchdog \in Nat /\ watchdog >= Margin + 1
    BY <1>2, <2>1, <2>2, <2>3 DEF WatchdogAhead
  <2>5. watchdog' = watchdog - 1
    BY <1>1, <1>3, <2>4
  <2>6. \A c \in Conn : /\ on[c] = "body" => watchdog' >= Margin + left'[c] + EchoTimeout
                        /\ on[c] = "echo" => watchdog' >= Margin + left'[c]
    BY <1>1, <1>2, <2>1, <2>2, <2>4, <2>5 DEF WatchdogAhead
  <2>7. \A c \in Conn : orphans'[c] # Off => watchdog' >= Margin + orphans'[c]
    BY <1>1, <1>2, <2>1, <2>2, <2>4, <2>5 DEF WatchdogAhead
  <2> QED BY <1>2, <2>1, <2>4, <2>5, <2>6, <2>7 DEF WatchdogAhead
<1>8. phase' # "exit1"
  BY <1>3 DEF TimePasses, Up, TearingDown
<1>9. MarginSpent'
  <2>1. TearingDown => watchdog > 0 /\ teardown' = teardown + 1
    BY DEF TimePasses, Overdue
  <2>2. ~TearingDown => teardown' = teardown
    BY DEF TimePasses
  <2>3. held => held'
    BY DEF TimePasses
  <2> QED BY <1>1, <1>3, <2>1, <2>2, <2>3 DEF MarginSpent, TearingDown
<1> QED BY <1>4, <1>5, <1>6, <1>7, <1>8, <1>9

LEMMA ShutdownStutter == ShutdownInv /\ UNCHANGED shutdownVars => ShutdownInv'
  BY DEF shutdownVars, ShutdownInv, ShutdownTypeOK, TimersInTime, DrainInTime, WatchdogAhead, MarginSpent, TearingDown

LEMMA ShutdownStep == ShutdownInv /\ [ShutdownNext]_shutdownVars => ShutdownInv'
BY ClientsKeepTime, HandlerKeepsTime, TimeKeepsTime, ShutdownStutter DEF ShutdownNext, ClientStep

LEMMA ShutdownAlways == ShutdownSpec => []ShutdownInv
<1> QED BY ShutdownStep, ShutdownStart, PTL DEF ShutdownSpec

\* Types of the shutdown's state; no timer exceeds what it was started with.
THEOREM ShutdownTyped == ShutdownSpec => []ShutdownTypeOK
<1>1. ShutdownInv => ShutdownTypeOK BY DEF ShutdownInv
<1> QED BY <1>1, ShutdownAlways, PTL

\* For any number of connections and any three timeouts: an orderly exit leaves
\* no POST to be echoed behind, and the process leaves with 1 only when a client
\* held the end up, or the teardown after the drain failed or took the margin.
THEOREM ShutdownOrderly == ShutdownSpec => []ShutdownInTime
<1>1. ShutdownInv => ShutdownInTime BY DEF ShutdownInv, DrainInTime, ShutdownInTime
<1> QED BY <1>1, ShutdownAlways, PTL

-----------------------------------------------------------------------------
(***************************************************************************)
(* CertWatch.  A change that is not seen is recorded in unseen; with none, *)
(* the watchers cover all that counts and what was read is what is there.  *)
(***************************************************************************)
CertsInv ==
  /\ CertsTypeOK /\ LinkDir \in watched
  /\ reading # "idle" => ~armed
  /\ reading = "idle" /\ ~armed /\ ~unseen => WatchDirs \subseteq watched
  /\ CertsCurrent
  /\ reading = "cert" /\ ~unseen => read = Now("cert")
  /\ reading = "context" /\ ~unseen /\ Now("cert") \notin {0, Gone} /\ Now("cert") = Now("key") => served = Now("cert")

LEMMA CertsStart == CertsInit => CertsInv
<1> SUFFICES ASSUME CertsInit PROVE CertsInv
  OBVIOUS
<1>1. \A p \in Part : Now(p) = 1
  BY DEF CertsInit, Now
<1>2. WatchDirs \subseteq {LinkDir} \cup TargetDir /\ LinkDir \in WatchDirs
  BY DEF CertsInit, WatchDirs
<1>3. content \in [Part -> [TargetDir -> Nat \cup {Gone}]]
  BY DEF CertsInit
<1>4. link \in [Part -> TargetDir] /\ watched = WatchDirs /\ reading = "idle" /\ ~armed /\ ~unseen
  BY DEF CertsInit
<1>5. armed \in BOOLEAN /\ unseen \in BOOLEAN /\ served = 1 /\ read = 0 /\ changes = 0
  BY DEF CertsInit
<1>6. CertsTypeOK
  BY <1>2, <1>3, <1>4, <1>5 DEF CertsTypeOK
<1> QED BY <1>1, <1>2, <1>4, <1>5, <1>6 DEF CertsInv, CertsCurrent, Part

LEMMA WritesAreSeen ==
  ASSUME CertsInv, NEW part \in Part, NEW dir \in TargetDir, NEW version \in 0..MaxChanges \cup {Gone}, Write(part, dir, version)
  PROVE  CertsInv'
<1> USE CertsNamed, ChangesBounded DEF Part
<1>1. CertsTypeOK'
  <2>1. content' \in [Part -> [TargetDir -> Nat \cup {Gone}]]
    BY DEF Write, CertsInv, CertsTypeOK
  <2>2. armed' \in BOOLEAN
    BY DEF Write, Notice, CertsInv, CertsTypeOK
  <2>3. unseen' \in BOOLEAN
    BY DEF Write, CertsInv, CertsTypeOK
  <2>4. changes' \in Nat
    BY DEF Write, Changes, CertsInv, CertsTypeOK
  <2>5. link' = link /\ served' = served /\ watched' = watched /\ reading' = reading /\ read' = read
    BY DEF Write, KeepWatch
  <2> QED BY <2>1, <2>2, <2>3, <2>4, <2>5 DEF CertsInv, CertsTypeOK
<1>2. LinkDir \in watched' /\ (reading' # "idle" => ~armed')
  BY DEF Write, KeepWatch, Notice, CertsInv, CertsTypeOK
<1>3. CASE reading # "idle" \/ unseen'
  BY <1>1, <1>2, <1>3 DEF Write, KeepWatch, Notice, CertsInv, CertsCurrent
<1>4. CASE reading = "idle" /\ ~unseen' /\ dir \in watched
  BY <1>1, <1>2, <1>4 DEF Write, KeepWatch, Notice, CertsInv, CertsCurrent
<1>5. CASE reading = "idle" /\ ~unseen' /\ dir \notin watched
  <2>1. ~unseen /\ content[part][dir] # Gone /\ armed' = armed
    BY <1>5 DEF Write, Notice, CertsInv, CertsTypeOK
  <2>2. armed \/ ((\A p \in Part : Now(p)' = Now(p)) /\ WatchDirs' \subseteq WatchDirs)
    <3>1. ASSUME ~armed PROVE link[part] # dir
      BY <1>5, <2>1, <3>1 DEF CertsInv, WatchDirs, Now
    <3>2. ASSUME ~armed, NEW p \in Part PROVE Now(p)' = Now(p)
      BY <3>1, <3>2 DEF Write, Now, CertsInv, CertsTypeOK
    <3>3. ASSUME ~armed PROVE WatchDirs' \subseteq WatchDirs
      BY <3>2, <3>3 DEF Write, WatchDirs
    <3>4. ASSUME ~armed PROVE (\A p \in Part : Now(p)' = Now(p)) /\ WatchDirs' \subseteq WatchDirs
      BY <3>2, <3>3, <3>4
    <3>5. CASE armed
      BY <3>5
    <3>6. CASE ~armed
      BY <3>4, <3>6
    <3> QED BY <3>5, <3>6
  <2> QED BY <1>1, <1>2, <1>5, <2>1, <2>2 DEF Write, KeepWatch, CertsInv, CertsCurrent
<1> QED BY <1>3, <1>4, <1>5

LEMMA RepointsAreSeen ==
  ASSUME CertsInv, NEW part \in Part, NEW dir \in TargetDir, Repoint(part, dir)
  PROVE  CertsInv'
<1> USE CertsNamed DEF Part
<1>1. CertsTypeOK'
  <2>1. link' \in [Part -> TargetDir]
    BY DEF Repoint, CertsInv, CertsTypeOK
  <2>2. armed' \in BOOLEAN /\ unseen' \in BOOLEAN
    BY DEF Repoint, Notice, CertsInv, CertsTypeOK
  <2> QED BY <2>1, <2>2 DEF Repoint, Changes, KeepWatch, CertsInv, CertsTypeOK
<1>2. armed' \/ reading' # "idle"
  BY DEF Repoint, KeepWatch, Notice, CertsInv
<1>3. reading' # "idle" => unseen' /\ ~armed'
  BY DEF Repoint, KeepWatch, Notice, CertsInv
<1>4. LinkDir \in watched'
  BY DEF Repoint, KeepWatch, CertsInv
<1> QED BY <1>1, <1>2, <1>3, <1>4 DEF CertsInv, CertsCurrent

LEMMA ReloadsAreCurrent == CertsInv /\ (ReloadReadsCert \/ ReloadReadsKey \/ Rewatch) => CertsInv'
<1> USE CertsNamed, ChangesBounded DEF Part
<1>1. ASSUME CertsInv, ReloadReadsCert PROVE CertsInv'
  BY <1>1 DEF ReloadReadsCert, CertsInv, CertsTypeOK, CertsCurrent, Now
<1>2. ASSUME CertsInv, ReloadReadsKey PROVE CertsInv'
  BY <1>2 DEF ReloadReadsKey, CertsInv, CertsTypeOK, CertsCurrent, Now
<1>3. ASSUME CertsInv, Rewatch PROVE CertsInv'
  BY <1>3 DEF Rewatch, CertsInv, CertsTypeOK, CertsCurrent, WatchDirs, Now
<1> QED BY <1>1, <1>2, <1>3

LEMMA CertsStutter == CertsInv /\ UNCHANGED certVars => CertsInv'
  BY DEF certVars, CertsInv, CertsTypeOK, CertsCurrent, WatchDirs, Now

LEMMA CertsStep == CertsInv /\ [CertsNext]_certVars => CertsInv'
BY WritesAreSeen, RepointsAreSeen, ReloadsAreCurrent, CertsStutter DEF CertsNext

LEMMA CertsAlways == CertsSpec => []CertsInv
<1> QED BY CertsStep, CertsStart, PTL DEF CertsSpec

\* Types of the certificate watcher's state.
THEOREM CertsTyped == CertsSpec => []CertsTypeOK
<1>1. CertsInv => CertsTypeOK BY DEF CertsInv
<1> QED BY <1>1, CertsAlways, PTL

\* For any directories and any number of renewals: with no reload to come and
\* no change unseen, the pair that is there is the one served (reload and
\* rewatch of embedded-broker.js).
THEOREM CertsServed == CertsSpec => []CertsCurrent
<1>1. CertsInv => CertsCurrent BY DEF CertsInv
<1> QED BY <1>1, CertsAlways, PTL

(***************************************************************************)
(* The parts together (MCParts).  Each part's invariant holds of a         *)
(* behaviour that is about that part: a step of the part in focus keeps    *)
(* it, and no step changes the focus.                                      *)
(***************************************************************************)
PartsInv ==
  /\ focus = "cards" => CardsInv
  /\ focus = "sources" => SourcesInv
  /\ focus = "settings" => SettingsInv
  /\ focus = "names" => NamesInv
  /\ focus = "bridges" => BridgesInv
  /\ focus = "feeds" => FeedsInv
  /\ focus = "tokens" => TokensInv
  /\ focus = "shutdown" => ShutdownInv
  /\ focus = "certs" => CertsInv

LEMMA PartsBegin == Init => PartsInv
  BY CardsBegin, SourcesStart, SettingsStart, NamesStart, BridgesStart, FeedsStart, TokensStart, ShutdownStart, CertsStart DEF Init, PartsInv

LEMMA PartsStep == PartsInv /\ [Next]_<<parts, focus>> => PartsInv'
<1>1. PartsInv /\ focus = "cards" /\ [CardsNext]_cardVars /\ UNCHANGED focus => PartsInv'
  BY CardsStep DEF PartsInv
<1>2. PartsInv /\ focus = "sources" /\ [SourcesNext]_sourceVars /\ UNCHANGED focus => PartsInv'
  BY SourcesStep DEF PartsInv
<1>3. PartsInv /\ focus = "settings" /\ [SettingsNext]_settingVars /\ UNCHANGED focus => PartsInv'
  BY SettingsStep DEF PartsInv
<1>4. PartsInv /\ focus = "names" /\ [NamesNext]_nameVars /\ UNCHANGED focus => PartsInv'
  BY NamesStep DEF PartsInv
<1>5. PartsInv /\ focus = "bridges" /\ [BridgesNext]_tableVars /\ UNCHANGED focus => PartsInv'
  BY BridgesStep DEF PartsInv
<1>6. PartsInv /\ focus = "feeds" /\ [FeedsNext]_feedVars /\ UNCHANGED focus => PartsInv'
  BY FeedsStep DEF PartsInv
<1>7. PartsInv /\ focus = "tokens" /\ [TokensNext]_tokenVars /\ UNCHANGED focus => PartsInv'
  BY TokensStep DEF PartsInv
<1>8. PartsInv /\ focus = "shutdown" /\ [ShutdownNext]_shutdownVars /\ UNCHANGED focus => PartsInv'
  BY ShutdownStep DEF PartsInv
<1>9. PartsInv /\ focus = "certs" /\ [CertsNext]_certVars /\ UNCHANGED focus => PartsInv'
  BY CertsStep DEF PartsInv
<1>10. ASSUME PartsInv, UNCHANGED <<parts, focus>> PROVE PartsInv'
  <2>1. UNCHANGED focus /\ UNCHANGED cardVars /\ UNCHANGED sourceVars /\ UNCHANGED settingVars /\ UNCHANGED nameVars /\ UNCHANGED tableVars
        /\ UNCHANGED feedVars /\ UNCHANGED tokenVars /\ UNCHANGED shutdownVars /\ UNCHANGED certVars
    BY <1>10 DEF parts
  <2> QED BY <1>10, <2>1, CardsStep, SourcesStep, SettingsStep, NamesStep, BridgesStep, FeedsStep, TokensStep, ShutdownStep, CertsStep DEF PartsInv
<1> QED BY <1>1, <1>2, <1>3, <1>4, <1>5, <1>6, <1>7, <1>8, <1>9, <1>10 DEF Next

LEMMA PartsHold == Spec => []PartsInv
<1> QED BY PartsBegin, PartsStep, PTL DEF Spec

\* However the parts of the page and of the bridge's process run, each holds
\* what its code keeps: a layout over known cards, streams with their timers,
\* settings that localStorage can hold, names, brokers read, feeds, tokens,
\* connections and certificates of their types.
THEOREM PartsAlwaysTyped == Spec => []PartsTypeOK
<1>1. PartsInv => PartsTypeOK
  BY DEF PartsInv, PartsTypeOK, CardsInv, SourcesInv, SettingsInv, NamesInv, BridgesInv, FeedsInv, TokensInv, ShutdownInv, CertsInv, ArrangementOK, DevicesOK, SitesOK, HandsOK, CardsTypeOK
<1> QED BY <1>1, PartsHold, PTL
=============================================================================
