----------------------------- MODULE PageBridges -----------------------------
(***************************************************************************)
(* The receiver's brokers on the settings page: bridges.js and             *)
(* bridges.jsx.  The page mirrors the receiver's table, read again         *)
(* whenever the settings are opened and after each change, and answers may *)
(* overtake one another.  The table is told apart by its version.          *)
(***************************************************************************)
EXTENDS Naturals

CONSTANTS
  MaxTableLoads, MaxTableChanges, \* bounds: reads and changes of the table
  Unknown        \* a mirror of null: not loaded, or not served

ASSUME UnknownNamed == Unknown \notin Nat

VARIABLES
  mirror,   \* bridges.value, as the version of the table it shows
  seq,      \* loadBridges calls so far
  asked,    \* loads that are out: id -> the version read, or Unknown while on the way
  table,    \* the receiver's version
  changing, \* the POST of addBridge or removeBridge
  owed      \* history: the version the page's last load had to find at least

tableVars == <<mirror, seq, asked, table, changing, owed>>

BridgesInit == mirror = Unknown /\ seq = 0 /\ asked = {} /\ table = 1 /\ changing = "none" /\ owed = 0

\* loadBridges: what comes of it must be no older than what is there now.
LoadIssued(atLeast) ==
  /\ seq < MaxTableLoads /\ seq' = seq + 1
  /\ asked' = asked \cup {[id |-> seq', read |-> Unknown]}
  /\ owed' = atLeast

LoadBridges ==
  /\ LoadIssued(table)
  /\ UNCHANGED <<mirror, table, changing>>

TableRead(l) ==
  /\ l \in asked /\ l.read = Unknown
  /\ asked' = (asked \ {l}) \cup {[l EXCEPT !.read = table]}
  /\ UNCHANGED <<mirror, seq, table, changing, owed>>

\* Mutant of LoadSettles: whichever answer comes is shown.
LoadSettlesAnyhow(l, ok) ==
  /\ l \in asked /\ (ok => l.read # Unknown)
  /\ asked' = asked \ {l}
  /\ mirror' = IF ok THEN l.read ELSE Unknown
  /\ UNCHANGED <<seq, table, changing, owed>>

\* An answer, or none, of any load; only the newest is shown.
LoadSettles(l, ok) ==
  /\ l \in asked /\ (ok => l.read # Unknown)
  /\ asked' = asked \ {l}
  /\ mirror' = IF l.id = seq THEN (IF ok THEN l.read ELSE Unknown) ELSE mirror
  /\ UNCHANGED <<seq, table, changing, owed>>

\* addBridge, removeBridge: the table is read again once the receiver agrees.
ChangeBridges ==
  /\ mirror # Unknown /\ table <= MaxTableChanges
  /\ changing = "none" /\ changing' = "posted"
  /\ UNCHANGED <<mirror, seq, asked, table, owed>>

ChangeApplied ==
  /\ changing = "posted" /\ changing' = "applied"
  /\ table' = table + 1
  /\ UNCHANGED <<mirror, seq, asked, owed>>

ChangeAnswered(ok) ==
  /\ changing # "none" /\ (ok => changing = "applied")
  /\ changing' = "none"
  /\ IF ok THEN LoadIssued(table) ELSE UNCHANGED <<seq, asked, owed>>
  /\ UNCHANGED <<mirror, table>>

-----------------------------------------------------------------------------
BridgesNext ==
  \/ LoadBridges \/ ChangeBridges \/ ChangeApplied
  \/ \E l \in asked, ok \in BOOLEAN : TableRead(l) \/ LoadSettles(l, ok)
  \/ \E ok \in BOOLEAN : ChangeAnswered(ok)

BridgesSpec == BridgesInit /\ [][BridgesNext]_tableVars

-----------------------------------------------------------------------------
BridgesTypeOK ==
  /\ mirror \in Nat \cup {Unknown} /\ seq \in Nat /\ table \in Nat /\ owed \in Nat
  /\ changing \in {"none", "posted", "applied"}
  /\ asked \subseteq [id : Nat, read : Nat \cup {Unknown}]

\* With no load out the brokers shown are no older than the last load found
\* them when it was issued: a page sees its own change, and no answer that
\* was overtaken puts an older table back (seq).
MirrorFresh == asked = {} /\ mirror # Unknown => mirror >= owed
=============================================================================
