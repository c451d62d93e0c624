----------------------------- MODULE SignalStore -----------------------------
(***************************************************************************)
(* The receiver's signal store, receiver/signal_store.cpp: a table of      *)
(* devices, a shared table of their latest message per message type        *)
(* ("subs"), the gate that holds a device back until it is heard twice,    *)
(* and the periodic sweep of loop() in WebReceiver.ino.                    *)
(*                                                                         *)
(* Everything runs on the main loop's task, so every call is one step.  An *)
(* unused table entry is None.  A payload is, per reading, the number of   *)
(* the record the reading was taken in, 0 when it is not carried.  The     *)
(* statistics (counts, drops, hook overflows) and what hooks add to a      *)
(* payload are left out.                                                   *)
(***************************************************************************)
EXTENDS Naturals, FiniteSets

CONSTANTS
  Key,            \* device keys, source/model/id
  Telemetry,      \* the keys the receiver records for itself, isDecode = false
  Type,           \* message types
  Field,          \* readings a payload may carry
  None,           \* an unused table entry
  DeviceSlots,    \* SIGNAL_DEVICE_SLOTS
  SubTable,       \* SIGNAL_SUB_TABLE
  PendingSlots,   \* SIGNAL_PENDING_SLOTS
  DeviceStale,    \* DEVICE_STALE_HOURS in ticks of the clock, 0 to disable
  SubStale,       \* SUB_STALE_MS in ticks
  SweepWithin,    \* bound: the main loop sweeps at least this often, in ticks
  Wrap,           \* millis() returns to 0 after this many ticks
  ArenaMayRunOut, \* whether parsing siblings may exhaust the arena
  MaxSeq          \* bound: records and sightings numbered since boot

Slot == 1..DeviceSlots
Sub == 1..SubTable
PendingSlot == 1..PendingSlots

DeviceSlot == [key : Key, lastSeen : 0..(Wrap - 1), seq : 1..MaxSeq]
DeviceSub == [slot : Slot, type : Type, payload : [Field -> 0..MaxSeq], lastSeen : 0..(Wrap - 1), seq : 1..MaxSeq]
PendingKey == [key : Key, seq : 1..MaxSeq]

ASSUME SignalStoreAssumption ==
  /\ Telemetry \subseteq Key
  /\ DeviceSlots \in Nat \ {0} /\ SubTable \in Nat \ {0} /\ PendingSlots \in Nat \ {0}
  /\ DeviceStale \in Nat /\ SubStale \in Nat \ {0} /\ SweepWithin \in Nat \ {0} /\ Wrap \in Nat \ {0}
  /\ DeviceStale + SweepWithin < Wrap /\ SubStale + SweepWithin < Wrap
  /\ ArenaMayRunOut \in BOOLEAN /\ MaxSeq \in Nat
  /\ None \notin DeviceSlot \cup DeviceSub \cup PendingKey

VARIABLES
  devices,      \* _devices and _seq
  deviceCount,  \* _deviceCount
  subs,         \* _subs
  pending,      \* _pending
  seqCounter,   \* _seqCounter
  lastRecorded, \* _lastRecordedIdx, 0 for none
  now,          \* millis()
  sinceSweep,   \* ticks since the last sweep
  age,          \* history: ticks since each device was recorded, not wrapping
  subAge        \* history: the same per sub

tables == <<devices, deviceCount, subs>>
clock == <<now, sinceSweep>>
vars == <<tables, pending, seqCounter, lastRecorded, clock, age, subAge>>

TypeOK ==
  /\ devices \in [Slot -> DeviceSlot \cup {None}]
  /\ deviceCount \in 0..DeviceSlots
  /\ subs \in [Sub -> DeviceSub \cup {None}]
  /\ pending \in [PendingSlot -> PendingKey \cup {None}]
  /\ seqCounter \in 0..MaxSeq
  /\ lastRecorded \in Slot \cup {0}
  /\ now \in 0..(Wrap - 1)
  /\ sinceSweep \in 0..SweepWithin
  /\ age \in [Slot -> Nat]
  /\ subAge \in [Sub -> Nat]

\* reset
Init ==
  /\ devices = [i \in Slot |-> None]
  /\ deviceCount = 0
  /\ subs = [j \in Sub |-> None]
  /\ pending = [p \in PendingSlot |-> None]
  /\ seqCounter = 0
  /\ lastRecorded = 0
  /\ now = 0
  /\ sinceSweep = 0
  /\ age = [i \in Slot |-> 0]
  /\ subAge = [j \in Sub |-> 0]

Lowest(S) == CHOOSE i \in S : \A j \in S : i <= j
Oldest(S, table) == CHOOSE i \in S : \A j \in S : table[i].seq <= table[j].seq
Used(table) == {i \in DOMAIN table : table[i] # None}
Unused(table) == {i \in DOMAIN table : table[i] = None}

-----------------------------------------------------------------------------
(* Device slots *)

\* The slot of a key, at most one.
FindSlot(k) == {i \in Used(devices) : devices[i].key = k}

\* Mutant of ClaimSlot: a full table gives up its first slot.
ClaimFirst == IF Unused(devices) # {} THEN Lowest(Unused(devices)) ELSE Lowest(Slot)

\* A free slot, or that of the device recorded longest ago.
ClaimSlot == IF Unused(devices) # {} THEN Lowest(Unused(devices)) ELSE Oldest(Slot, devices)

\* Whether recording a key takes a slot, and takes it from another device.
IsNew(k) == FindSlot(k) = {}
Evicts(k) == IsNew(k) /\ Unused(devices) = {}
SlotFor(k) == IF IsNew(k) THEN ClaimSlot ELSE Lowest(FindSlot(k))

Count(k) == IF IsNew(k) /\ ~Evicts(k) THEN deviceCount + 1 ELSE deviceCount

-----------------------------------------------------------------------------
(* Subs *)

SubsOf(i, table) == {j \in Used(table) : table[j].slot = i}

\* Mutant of FreeSlotSubs: the subs of a freed slot stay.
FreeNoSubs(i) == subs

FreeSlotSubs(i) == [j \in Sub |-> IF j \in SubsOf(i, subs) THEN None ELSE subs[j]]

\* The sub table once the slot for this key is claimed.
TableFor(k) == IF Evicts(k) THEN FreeSlotSubs(SlotFor(k)) ELSE subs

FindSub(i, type, table) == {j \in SubsOf(i, table) : table[j].type = type}

\* Mutant of ClaimSub: a full table gives up its oldest sub, whose ever it is.
ClaimSubOfAny(i, table) ==
  IF Unused(table) # {} THEN {Lowest(Unused(table))} ELSE {Oldest(Sub, table)}

\* A free sub, or the device's oldest when it has more than one, or none.
ClaimSub(i, table) ==
  IF Unused(table) # {} THEN {Lowest(Unused(table))}
  ELSE IF \E j1, j2 \in SubsOf(i, table) : j1 # j2 THEN {Oldest(SubsOf(i, table), table)}
  ELSE {}

SubFor(k, type) ==
  LET found == FindSub(SlotFor(k), type, TableFor(k))
  IN IF found # {} THEN {Lowest(found)} ELSE ClaimSub(SlotFor(k), TableFor(k))

-----------------------------------------------------------------------------
(* Merging what the message does not carry from its siblings, newest first *)

\* Mutant of Donor: oldest first.
DonorOldest(f, parsed, table) ==
  LET carriers == {j \in parsed : table[j].payload[f] # 0}
  IN CHOOSE j \in carriers : \A i \in carriers : table[j].seq <= table[i].seq

\* The newest of the parsed siblings that carries a reading.
Donor(f, parsed, table) ==
  LET carriers == {j \in parsed : table[j].payload[f] # 0}
  IN CHOOSE j \in carriers : \A i \in carriers : table[i].seq <= table[j].seq

\* The readings the siblings offer to a message that carries `reads`.
Offered(reads, parsed, table) == {f \in Field \ reads : \E j \in parsed : table[j].payload[f] # 0}

\* The merge stops at the payload's ceiling: what is kept comes from donors no
\* older than the donors of what is not.
KeptBefore(kept, offered, parsed, table) ==
  \A f \in kept, g \in offered \ kept :
    table[Donor(g, parsed, table)].seq <= table[Donor(f, parsed, table)].seq

MergeSiblingSubs(reads, kept, parsed, table, seq) ==
  [f \in Field |-> IF f \in reads THEN seq
                   ELSE IF f \in kept THEN table[Donor(f, parsed, table)].payload[f] ELSE 0]

-----------------------------------------------------------------------------
(* The pending gate *)

FindPending(k) == {p \in Used(pending) : pending[p].key = k}

ClaimPending == IF Unused(pending) # {} THEN Lowest(Unused(pending)) ELSE Oldest(PendingSlot, pending)

\* A decode of an unknown device passes on its second sighting only.
Gated(k) == k \notin Telemetry /\ IsNew(k)
Passes(k) == Gated(k) => FindPending(k) # {}

\* Passing uses the entry up, whatever becomes of the message.
PendingAfter(k) ==
  IF Gated(k) THEN [p \in PendingSlot |-> IF p \in FindPending(k) THEN None ELSE pending[p]] ELSE pending

-----------------------------------------------------------------------------
(* record() *)

\* Not JSON, without a key, or out of range: dropped before the store looks.
RecordInvalid ==
  /\ lastRecorded' = 0
  /\ UNCHANGED <<tables, pending, seqCounter, clock, age, subAge>>

\* The first sighting of a decode.
RecordPending(k) ==
  /\ ~Passes(k)
  /\ seqCounter < MaxSeq
  /\ pending' = [pending EXCEPT ![ClaimPending] = [key |-> k, seq |-> seqCounter + 1]]
  /\ seqCounter' = seqCounter + 1
  /\ lastRecorded' = 0
  /\ UNCHANGED <<tables, clock, age, subAge>>

\* The stamped message is over SIGNAL_PAYLOAD_MAX.
RecordTooLong(k) ==
  /\ Passes(k)
  /\ pending' = PendingAfter(k)
  /\ lastRecorded' = 0
  /\ UNCHANGED <<tables, seqCounter, clock, age, subAge>>

\* Mutant of Undone: a claim without a sub is not undone.
UndoneNot(k) ==
  /\ devices' = [devices EXCEPT ![SlotFor(k)] = [key |-> k, lastSeen |-> now, seq |-> seqCounter]]
  /\ deviceCount' = Count(k)

\* The slot claimed for a new key is given back; an evicted device's count is
\* not.
Undone(k) ==
  /\ devices' = IF IsNew(k) THEN [devices EXCEPT ![SlotFor(k)] = None] ELSE devices
  /\ deviceCount' = IF IsNew(k) /\ ~Evicts(k) THEN Count(k) - 1 ELSE Count(k)

\* No sub to be had: the claim is undone and the message dropped.
RecordRefused(k, type) ==
  /\ Passes(k)
  /\ SubFor(k, type) = {}
  /\ pending' = PendingAfter(k)
  /\ Undone(k)
  /\ subs' = TableFor(k)
  /\ lastRecorded' = 0
  /\ UNCHANGED <<seqCounter, clock, age, subAge>>

\* The siblings that parse: all of them while the arena holds them.
MayParse(siblings) == IF ArenaMayRunOut THEN SUBSET siblings ELSE {siblings}

RecordStored(k, type, reads) ==
  /\ Passes(k)
  /\ seqCounter < MaxSeq
  /\ \E j \in SubFor(k, type) :
       LET table == TableFor(k)
           seq == seqCounter + 1
       IN \E parsed \in MayParse(SubsOf(SlotFor(k), table) \ {j}) :
          \E kept \in SUBSET Offered(reads, parsed, table) :
            /\ KeptBefore(kept, Offered(reads, parsed, table), parsed, table)
            /\ subs' = [table EXCEPT ![j] =
                 [slot |-> SlotFor(k), type |-> type, lastSeen |-> now, seq |-> seq,
                  payload |-> MergeSiblingSubs(reads, kept, parsed, table, seq)]]
            /\ subAge' = [subAge EXCEPT ![j] = 0]
  /\ devices' = [devices EXCEPT ![SlotFor(k)] = [key |-> k, lastSeen |-> now, seq |-> seqCounter + 1]]
  /\ age' = [age EXCEPT ![SlotFor(k)] = 0]
  /\ deviceCount' = Count(k)
  /\ seqCounter' = seqCounter + 1
  /\ lastRecorded' = SlotFor(k)
  /\ pending' = PendingAfter(k)
  /\ UNCHANGED clock

Record(k, type, reads) ==
  \/ RecordPending(k)
  \/ RecordTooLong(k)
  \/ RecordRefused(k, type)
  \/ RecordStored(k, type, reads)

-----------------------------------------------------------------------------
(* Time and the sweep *)

\* Mutant of Elapsed: the clock is taken not to wrap.
ElapsedNoWrap(since) == IF now >= since THEN now - since ELSE 0

\* (unsigned long)(now - since)
Elapsed(since) == IF now >= since THEN now - since ELSE now + Wrap - since

Tick ==
  /\ sinceSweep < SweepWithin
  /\ sinceSweep' = sinceSweep + 1
  /\ now' = IF now = Wrap - 1 THEN 0 ELSE now + 1
  /\ age' = [i \in Slot |-> IF devices[i] # None THEN age[i] + 1 ELSE 0]
  /\ subAge' = [j \in Sub |-> IF subs[j] # None THEN subAge[j] + 1 ELSE 0]
  /\ UNCHANGED <<tables, pending, seqCounter, lastRecorded>>

StaleDevices == {i \in Used(devices) : Elapsed(devices[i].lastSeen) > DeviceStale}

HasNewer(j, table) == \E i \in SubsOf(table[j].slot, table) : table[i].seq > table[j].seq

\* sweepSubStale: each device keeps its newest sub.
SweepSubStale(table) ==
  [j \in Sub |-> IF table[j] # None /\ Elapsed(table[j].lastSeen) > SubStale /\ HasNewer(j, table)
                 THEN None ELSE table[j]]

LastAfter(stale) == IF lastRecorded \in stale THEN 0 ELSE lastRecorded

\* sweepStale, which loop() calls at most once a tick.
SweepStale ==
  /\ sinceSweep > 0
  /\ sinceSweep' = 0
  /\ IF DeviceStale = 0
     THEN UNCHANGED <<tables, lastRecorded>>
     ELSE /\ devices' = [i \in Slot |-> IF i \in StaleDevices THEN None ELSE devices[i]]
          /\ deviceCount' = deviceCount - Cardinality(StaleDevices)
          /\ subs' = SweepSubStale([j \in Sub |->
               IF subs[j] # None /\ subs[j].slot \in StaleDevices THEN None ELSE subs[j]])
          /\ lastRecorded' = LastAfter(StaleDevices)
  /\ UNCHANGED <<now, pending, seqCounter, age, subAge>>

-----------------------------------------------------------------------------
Next ==
  \/ RecordInvalid
  \/ \E k \in Key, type \in Type, reads \in SUBSET Field : Record(k, type, reads)
  \/ Tick
  \/ SweepStale

Spec == Init /\ [][Next]_vars

-----------------------------------------------------------------------------
(* Safety *)

\* `_deviceCount` is the number of devices, however claims, evictions, undone
\* claims and sweeps follow one another.
CountExact == deviceCount = Cardinality(Used(devices))

\* No device without a message, and no message of a slot without a device: a
\* replay would send it under the key of the slot's next owner.
TablesAgree ==
  /\ \A i \in Used(devices) : SubsOf(i, subs) # {}
  /\ \A j \in Used(subs) : devices[subs[j].slot] # None

\* One slot per key, one sub per device and message type, one pending entry per
\* key.
NoDuplicates ==
  /\ \A i1, i2 \in Used(devices) : devices[i1].key = devices[i2].key => i1 = i2
  /\ \A j1, j2 \in Used(subs) : subs[j1].slot = subs[j2].slot /\ subs[j1].type = subs[j2].type => j1 = j2
  /\ \A p1, p2 \in Used(pending) : pending[p1].key = pending[p2].key => p1 = p2

\* A device's newest sub, which latestPayload returns, is the message recorded
\* last, and no sub is newer than its device.
LatestIsLastRecord ==
  /\ \A j \in Used(subs) : subs[j].seq <= devices[subs[j].slot].seq
  /\ \A i \in Used(devices) :
       \E j \in SubsOf(i, subs) : subs[j].seq = devices[i].seq /\ subs[j].lastSeen = devices[i].lastSeen

\* lastRecorded() is a device in the table, and device(0): the one recorded
\* last, also after a sweep.
LastRecordedIsNewest ==
  lastRecorded # 0 =>
    /\ devices[lastRecorded] # None
    /\ \A i \in Used(devices) : devices[i].seq <= devices[lastRecorded].seq

\* While the arena holds a device's siblings, its newest message carries the
\* latest reading it has of every field it carries at all, whatever the payload
\* ceiling cut from the merges before.
FreshestReadingWins ==
  ~ArenaMayRunOut =>
    \A j1, j2 \in Used(subs) : subs[j1].slot = subs[j2].slot /\ subs[j1].seq < subs[j2].seq =>
      \A f \in Field : subs[j2].payload[f] # 0 => subs[j1].payload[f] <= subs[j2].payload[f]

\* A device leaves the table, other than in a sweep, only when the table is
\* full, and only the one recorded longest ago.
OnlyTheOldestIsEvicted ==
  [][\A i \in Used(devices) :
       sinceSweep' >= sinceSweep /\ (devices'[i] = None \/ devices'[i].key # devices[i].key) =>
         /\ Unused(devices) = {}
         /\ \A other \in Slot \ {i} : devices[i].seq < devices[other].seq]_vars

\* A message the store does not accept leaves both tables as they were.
RefusalsLeaveNoTrace ==
  [][sinceSweep' >= sinceSweep /\ lastRecorded' = 0 => UNCHANGED tables]_vars

\* No device outlives its silence by more than a sweep, across any number of
\* wraps of millis().
SilentDevicesGo == DeviceStale # 0 => \A i \in Used(devices) : age[i] <= DeviceStale + SweepWithin

\* A sweep takes no device heard from within DEVICE_STALE_HOURS, nor a message
\* of a device it keeps that came within SUB_STALE_MS.
SweepSparesTheHeard ==
  [][sinceSweep' < sinceSweep =>
       /\ \A i \in Used(devices) : devices'[i] = None => age[i] > DeviceStale
       /\ \A j \in Used(subs) : subs'[j] = None /\ devices'[subs[j].slot] # None => subAge[j] > SubStale]_vars

-----------------------------------------------------------------------------
(* What the event stream reads: subAt, slotAt and subPayload *)

ReadSubs == [j \in Sub |-> IF subs[j] = None THEN None ELSE [topic |-> devices[subs[j].slot].key, seq |-> subs[j].seq]]

Frames == INSTANCE SubFrames WITH subs <- ReadSubs

ASSUME FrameAssumption == None \notin Frames!SubFrame

\* The store is the table of frames EventReplay.tla takes it for: a frame
\* keeps its index, and no device loses its newest but with all the others.
ImplementsSubFrames == Frames!SubsSpec

=============================================================================
