----------------------------- MODULE EventBoard -----------------------------
(***************************************************************************)
(* What the bridge promises the readers of /events: a board of current     *)
(* messages, one per topic, and readers that hold a copy of the part they  *)
(* asked for.  A change to the board reaches every reader in the same      *)
(* step.  When the bridge loses its broker it may take the whole board     *)
(* down; the topics it took down are stale until they are put up again or  *)
(* announced gone, and a reader may differ from the board on them only.    *)
(***************************************************************************)
CONSTANTS Topic, Value, None, Reader, Filter

VARIABLES
  board,   \* [Topic -> message]; None is "no message"
  reader,  \* [Reader -> its filter and copy, or Absent]
  stale    \* topics taken down and not yet put up again or announced

boardVars == <<board, reader, stale>>

Blank == [t \in Topic |-> None]
Absent == [on |-> FALSE, wants |-> {}, copy |-> Blank]

BoardTypeOK ==
  /\ board \in [Topic -> Value \cup {None}]
  /\ reader \in [Reader -> [on : BOOLEAN, wants : SUBSET Topic, copy : [Topic -> Value \cup {None}]]]
  /\ stale \in SUBSET Topic

BoardInit ==
  /\ board = Blank
  /\ reader = [s \in Reader |-> Absent]
  /\ stale = {}

\* What a frame per topic in `topics` does to the readers; those in `gone`
\* are dropped for being too slow.
Frames(topics, value, gone) ==
  reader' = [s \in Reader |->
    IF ~reader[s].on THEN reader[s]
    ELSE IF s \in gone THEN Absent
    ELSE [on |-> TRUE, wants |-> reader[s].wants, copy |->
            [t \in Topic |-> IF t \in topics \cap reader[s].wants THEN value ELSE reader[s].copy[t]]]]

Put(t, value, gone) ==
  /\ board' = [board EXCEPT ![t] = value]
  /\ Frames({t}, value, gone)
  /\ stale' = stale \ {t}

\* The topics taken down include every one that held a message.
TakeDown(topics) ==
  /\ {t \in Topic : board[t] # None} \subseteq topics
  /\ board' = Blank
  /\ stale' = stale \cup topics
  /\ UNCHANGED reader

Announce(topics, gone) ==
  /\ topics \subseteq stale
  /\ Frames(topics, None, gone)
  /\ stale' = stale \ topics
  /\ UNCHANGED board

Join(s, wants) ==
  /\ ~reader[s].on
  /\ reader' = [reader EXCEPT ![s] =
       [on |-> TRUE, wants |-> wants, copy |-> [t \in Topic |-> IF t \in wants THEN board[t] ELSE None]]]
  /\ UNCHANGED <<board, stale>>

Leave(s) ==
  /\ reader' = [reader EXCEPT ![s] = Absent]
  /\ UNCHANGED <<board, stale>>

\* The bridge starts over, and with it every reader.
Restart ==
  /\ board' = Blank
  /\ reader' = [s \in Reader |-> Absent]
  /\ stale' = {}

BoardNext ==
  \/ \E t \in Topic, value \in Value \cup {None}, gone \in SUBSET Reader : Put(t, value, gone)
  \/ \E topics \in SUBSET Topic : TakeDown(topics)
  \/ \E topics \in SUBSET Topic, gone \in SUBSET Reader : Announce(topics, gone)
  \/ \E s \in Reader, wants \in Filter : Join(s, wants)
  \/ \E s \in Reader : Leave(s)
  \/ Restart

BoardSpec == BoardInit /\ [][BoardNext]_boardVars

=============================================================================
