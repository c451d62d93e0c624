------------------------------ MODULE SubFrames ------------------------------
(***************************************************************************)
(* What the signal store promises the event stream: a table whose entries  *)
(* keep their index.  A frame takes a free entry or one of its own         *)
(* device's; other devices lose all of their frames or none, except in a   *)
(* sweep, which may take any but a device's newest.                        *)
(***************************************************************************)
EXTENDS Naturals

CONSTANTS
  Key,      \* device keys, which are topics
  None,     \* an unused entry
  SubTable, \* SIGNAL_SUB_TABLE
  MaxSeq    \* bound: the highest sequence number

Sub == 1..SubTable
SubFrame == [topic : Key, seq : 1..MaxSeq]

VARIABLE subs \* [Sub -> frame or None]

SubsTypeOK == subs \in [Sub -> SubFrame \cup {None}]

SubsInit == subs = [j \in Sub |-> None]

Held(table) == {j \in DOMAIN table : table[j] # None}
FramesOf(k, table) == {j \in Held(table) : table[j].topic = k}

\* latestSubIndex: the entry of a device with the highest sequence number.
LatestSub(k, table) ==
  CHOOSE j \in FramesOf(k, table) : \A i \in FramesOf(k, table) : table[i].seq <= table[j].seq

Without(gone) == [j \in Sub |-> IF j \in gone THEN None ELSE subs[j]]

\* record(): a new newest frame; a full device table gives up one device.
StoreFrame(k, j, seq) ==
  /\ \A i \in Held(subs) : subs[i].seq < seq
  /\ \E gone \in {{}} \cup {FramesOf(other, subs) : other \in Key \ {k}} :
       /\ j \in Held(Without(gone)) => subs[j].topic = k
       /\ subs' = [Without(gone) EXCEPT ![j] = [topic |-> k, seq |-> seq]]

\* sweepStale(): whole devices, and frames that are not their device's newest.
SweepFrames ==
  \E gone \in SUBSET Held(subs) :
    /\ subs' = Without(gone)
    /\ \A k \in Key : FramesOf(k, subs) # {} => FramesOf(k, subs) \subseteq gone \/ LatestSub(k, subs) \notin gone

SubsNext ==
  \/ \E j \in Sub : subs'[j] \in SubFrame /\ StoreFrame(subs'[j].topic, j, subs'[j].seq)
  \/ SweepFrames

SubsSpec == SubsInit /\ [][SubsNext]_subs

=============================================================================
