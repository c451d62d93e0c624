-------------------------- MODULE SignalStoreProofs --------------------------
(***************************************************************************)
(* Proofs about the receiver's signal store: its types and the safety      *)
(* properties of SignalStore.tla, for tables of any size, any number of    *)
(* keys, message types and readings, and any windows that the clock can    *)
(* tell apart; and that the store implements SubFrames, which is all the   *)
(* event stream knows of it.                                               *)
(***************************************************************************)
EXTENDS SignalStore, FiniteSetTheorems, WellFoundedInduction, TLAPS

-----------------------------------------------------------------------------
(* Least elements *)

LEMMA MinExists ==
  ASSUME NEW S \in SUBSET Nat, S # {}
  PROVE  \E x \in S : \A y \in S : x <= y
<1> DEFINE R == {p \in Nat \X Nat : p[1] < p[2]}
<1>1. IsWellFoundedOn(R, Nat)
  BY NatLessThanWellFounded DEF OpToRel
<1>2. \A x, y \in Nat : <<y, x>> \in R <=> y < x
  OBVIOUS
<1> HIDE DEF R
<1>3. PICK x \in S : \A y \in S : ~ (<<y, x>> \in R)
  BY <1>1, WFMin
<1>4. ASSUME NEW y \in S PROVE x <= y
  <2>1. x \in Nat /\ y \in Nat
    OBVIOUS
  <2>2. ~ (y < x)
    BY <1>2, <1>3, <2>1
  <2> QED BY <2>1, <2>2
<1> QED BY <1>4

\* The table index a search returns is one of those searched.
LEMMA LowestIn ==
  ASSUME NEW S \in SUBSET Nat, S # {}
  PROVE  Lowest(S) \in S
BY MinExists DEF Lowest

\* The entry with the lowest number is one of those compared, and none of them
\* has a lower one.
LEMMA OldestIn ==
  ASSUME NEW S, S # {}, NEW table, \A i \in S : table[i].seq \in Nat
  PROVE  /\ Oldest(S, table) \in S
         /\ \A j \in S : table[Oldest(S, table)].seq <= table[j].seq
<1> DEFINE numbers == {table[i].seq : i \in S}
<1>1. numbers \in SUBSET Nat /\ numbers # {}
  OBVIOUS
<1>2. PICK n \in numbers : \A m \in numbers : n <= m
  BY <1>1, MinExists
<1>3. PICK i \in S : table[i].seq = n
  BY <1>2
<1>4. \A j \in S : table[i].seq <= table[j].seq
  BY <1>2, <1>3
<1> QED BY <1>3, <1>4 DEF Oldest

-----------------------------------------------------------------------------
(* Claims *)

\* The types of the tables alone, which the lemmas on claims rest on.
TablesTyped ==
  /\ devices \in [Slot -> DeviceSlot \cup {None}]
  /\ subs \in [Sub -> DeviceSub \cup {None}]
  /\ pending \in [PendingSlot -> PendingKey \cup {None}]
  /\ seqCounter \in 0..MaxSeq
  /\ now \in 0..(Wrap - 1)

\* What the entries of a table of devices, of subs and of pending keys are.
LEMMA DeviceEntries ==
  ASSUME NEW D \in [Slot -> DeviceSlot \cup {None}]
  PROVE  /\ Used(D) = {i \in Slot : D[i] # None} /\ Unused(D) = {i \in Slot : D[i] = None}
         /\ \A i \in Used(D) : /\ D[i] \in DeviceSlot
                               /\ D[i].key \in Key
                               /\ D[i].lastSeen \in 0..(Wrap - 1)
                               /\ D[i].seq \in 1..MaxSeq
<1>1. DOMAIN D = Slot
  OBVIOUS
<1>2. Used(D) = {i \in Slot : D[i] # None} /\ Unused(D) = {i \in Slot : D[i] = None}
  BY <1>1 DEF Used, Unused
<1>3. \A i \in Used(D) : D[i] \in DeviceSlot
  BY <1>2
<1>4. \A i \in Used(D) : D[i].key \in Key /\ D[i].lastSeen \in 0..(Wrap - 1) /\ D[i].seq \in 1..MaxSeq
  BY <1>3 DEF DeviceSlot
<1> QED BY <1>2, <1>3, <1>4

LEMMA SubEntries ==
  ASSUME NEW T \in [Sub -> DeviceSub \cup {None}]
  PROVE  /\ Used(T) = {j \in Sub : T[j] # None} /\ Unused(T) = {j \in Sub : T[j] = None}
         /\ \A i : SubsOf(i, T) = {j \in Sub : T[j] # None /\ T[j].slot = i}
         /\ \A j \in Used(T) : /\ T[j] \in DeviceSub
                               /\ T[j].slot \in Slot
                               /\ T[j].type \in Type
                               /\ T[j].payload \in [Field -> 0..MaxSeq]
                               /\ T[j].lastSeen \in 0..(Wrap - 1)
                               /\ T[j].seq \in 1..MaxSeq
<1>1. DOMAIN T = Sub
  OBVIOUS
<1>2. Used(T) = {j \in Sub : T[j] # None} /\ Unused(T) = {j \in Sub : T[j] = None}
  BY <1>1 DEF Used, Unused
<1>3. \A i : SubsOf(i, T) = {j \in Sub : T[j] # None /\ T[j].slot = i}
  BY <1>2 DEF SubsOf
<1>4. \A j \in Used(T) : T[j] \in DeviceSub
  BY <1>2
<1>5. \A j \in Used(T) : /\ T[j].slot \in Slot
                         /\ T[j].type \in Type
                         /\ T[j].payload \in [Field -> 0..MaxSeq]
                         /\ T[j].lastSeen \in 0..(Wrap - 1)
                         /\ T[j].seq \in 1..MaxSeq
  BY <1>4 DEF DeviceSub
<1> QED BY <1>2, <1>3, <1>4, <1>5

LEMMA PendingEntries ==
  ASSUME NEW P \in [PendingSlot -> PendingKey \cup {None}]
  PROVE  /\ Used(P) = {p \in PendingSlot : P[p] # None} /\ Unused(P) = {p \in PendingSlot : P[p] = None}
         /\ \A p \in Used(P) : P[p].key \in Key /\ P[p].seq \in 1..MaxSeq
<1>1. DOMAIN P = PendingSlot
  OBVIOUS
<1>2. Used(P) = {p \in PendingSlot : P[p] # None} /\ Unused(P) = {p \in PendingSlot : P[p] = None}
  BY <1>1 DEF Used, Unused
<1>3. \A p \in Used(P) : P[p] \in PendingKey
  BY <1>2
<1>4. \A p \in Used(P) : P[p].key \in Key /\ P[p].seq \in 1..MaxSeq
  BY <1>3 DEF PendingKey
<1> QED BY <1>2, <1>4

\* SlotFor: the slot of a known key, a free one, or the oldest.
LEMMA SlotForClaims ==
  ASSUME TablesTyped, NEW k \in Key
  PROVE  /\ SlotFor(k) \in Slot
         /\ ~IsNew(k) => SlotFor(k) \in Used(devices) /\ devices[SlotFor(k)].key = k
         /\ IsNew(k) => \A i \in Used(devices) : devices[i].key # k
         /\ IsNew(k) /\ ~Evicts(k) => devices[SlotFor(k)] = None
         /\ Evicts(k) => /\ Used(devices) = Slot
                         /\ \A i \in Slot : devices[SlotFor(k)].seq <= devices[i].seq
<1> USE SignalStoreAssumption
<1>0. /\ Used(devices) = {i \in Slot : devices[i] # None} /\ Unused(devices) = {i \in Slot : devices[i] = None}
      /\ \A i \in Used(devices) : devices[i].key \in Key /\ devices[i].seq \in 1..MaxSeq
  BY DeviceEntries DEF TablesTyped
<1>1. CASE ~IsNew(k)
  <2>1. FindSlot(k) \in SUBSET Nat /\ FindSlot(k) # {}
    BY <1>1, <1>0 DEF FindSlot, IsNew, Slot
  <2>2. SlotFor(k) \in FindSlot(k)
    BY <1>1, <2>1, LowestIn DEF SlotFor
  <2> QED BY <1>1, <2>2, <1>0 DEF FindSlot, Evicts
<1>2. CASE IsNew(k) /\ Unused(devices) # {}
  <2>1. Unused(devices) \in SUBSET Nat
    BY <1>0 DEF Slot
  <2>2. SlotFor(k) \in Unused(devices)
    BY <1>2, <2>1, LowestIn DEF SlotFor, ClaimSlot
  <2> QED BY <1>2, <2>2, <1>0 DEF FindSlot, IsNew, Evicts, Unused
<1>3. CASE Evicts(k)
  <2>1. Used(devices) = Slot /\ Slot # {}
    BY <1>3, <1>0 DEF Evicts, Slot
  <2>2. \A i \in Slot : devices[i].seq \in Nat
    BY <2>1, <1>0
  <2>3. SlotFor(k) = Oldest(Slot, devices)
    BY <1>3 DEF Evicts, SlotFor, ClaimSlot
  <2>4. SlotFor(k) \in Slot /\ \A i \in Slot : devices[SlotFor(k)].seq <= devices[i].seq
    BY <2>1, <2>2, <2>3, OldestIn
  <2> QED BY <1>3, <2>1, <2>4, <1>0 DEF FindSlot, IsNew, Evicts
<1> QED BY <1>1, <1>2, <1>3 DEF Evicts

\* TableFor: the sub table without the subs of an evicted device.
LEMMA TableForFrees ==
  ASSUME TablesTyped, NEW k \in Key
  PROVE  /\ TableFor(k) \in [Sub -> DeviceSub \cup {None}]
         /\ \A j \in Sub : TableFor(k)[j] =
              IF Evicts(k) /\ subs[j] # None /\ subs[j].slot = SlotFor(k) THEN None ELSE subs[j]
<1>1. subs \in [Sub -> DeviceSub \cup {None}]
  BY DEF TablesTyped
<1>2. SubsOf(SlotFor(k), subs) = {j \in Sub : subs[j] # None /\ subs[j].slot = SlotFor(k)}
  BY <1>1, SubEntries
<1>3. CASE Evicts(k)
  <2>1. TableFor(k) = [j \in Sub |-> IF j \in SubsOf(SlotFor(k), subs) THEN None ELSE subs[j]]
    BY <1>3 DEF TableFor, FreeSlotSubs
  <2> QED BY <1>1, <1>2, <1>3, <2>1
<1>4. CASE ~Evicts(k)
  BY <1>1, <1>4 DEF TableFor
<1> QED BY <1>3, <1>4

-----------------------------------------------------------------------------
(* The invariant of the tables *)

\* Records are numbered in their order, and none has two entries.
SeqsOrdered ==
  /\ \A i \in Used(devices) : devices[i].seq <= seqCounter
  /\ \A i1, i2 \in Used(devices) : devices[i1].seq = devices[i2].seq => i1 = i2
  /\ \A j1, j2 \in Used(subs) : subs[j1].seq = subs[j2].seq => j1 = j2

\* CountExact, TablesAgree, NoDuplicates and LatestIsLastRecord need one another
\* (a claim finds room for its sub because the evicted device had one), and
\* LastRecordedIsNewest needs the numbering.
TablesInv ==
  /\ TypeOK
  /\ CountExact
  /\ TablesAgree
  /\ NoDuplicates
  /\ LatestIsLastRecord
  /\ LastRecordedIsNewest
  /\ SeqsOrdered

LEMMA Typed ==
  ASSUME TypeOK
  PROVE  TablesTyped
BY DEF TypeOK, TablesTyped

\* SubFor: a free sub or one of the slot's own, the only one of its type; an
\* eviction always leaves one free, and a newly claimed slot has no subs.
LEMMA SubForFinds ==
  ASSUME TablesInv, NEW k \in Key, NEW type \in Type
  PROVE  /\ \A j \in SubFor(k, type) :
              /\ j \in Sub
              /\ TableFor(k)[j] = None \/ TableFor(k)[j].slot = SlotFor(k)
              /\ \A m \in Sub \ {j} :
                   TableFor(k)[m] # None /\ TableFor(k)[m].slot = SlotFor(k) => TableFor(k)[m].type # type
         /\ Evicts(k) => SubFor(k, type) # {}
         /\ IsNew(k) => \A m \in Sub : TableFor(k)[m] # None => TableFor(k)[m].slot # SlotFor(k)
<1> DEFINE T == TableFor(k)
           i == SlotFor(k)
           found == FindSub(i, type, T)
<1>1. TablesTyped
  BY Typed DEF TablesInv
<1>2. /\ subs \in [Sub -> DeviceSub \cup {None}] /\ T \in [Sub -> DeviceSub \cup {None}]
      /\ \A j \in Sub : T[j] = IF Evicts(k) /\ subs[j] # None /\ subs[j].slot = i THEN None ELSE subs[j]
  BY <1>1, TableForFrees DEF TablesTyped
<1>3. /\ Unused(T) = {j \in Sub : T[j] = None}
      /\ SubsOf(i, T) = {j \in Sub : T[j] # None /\ T[j].slot = i}
      /\ \A j \in Used(T) : T[j].seq \in 1..MaxSeq
      /\ Used(T) = {j \in Sub : T[j] # None}
      /\ Used(subs) = {j \in Sub : subs[j] # None}
      /\ SubsOf(i, subs) = {j \in Sub : subs[j] # None /\ subs[j].slot = i}
  BY <1>2, SubEntries
<1>4. SubFor(k, type) = IF found # {} THEN {Lowest(found)} ELSE ClaimSub(i, T)
  BY DEF SubFor
<1>5. Used(devices) = {d \in Slot : devices[d] # None}
  BY <1>1, DeviceEntries DEF TablesTyped
<1>6. found = {j \in Sub : T[j] # None /\ T[j].slot = i /\ T[j].type = type}
  BY <1>3 DEF FindSub
<1>7. \A j \in found, m \in Sub : T[m] # None /\ T[m].slot = i /\ T[m].type = type => m = j
  <2>1. \A j1, j2 \in Used(subs) : subs[j1].slot = subs[j2].slot /\ subs[j1].type = subs[j2].type => j1 = j2
    BY DEF TablesInv, NoDuplicates
  <2> QED BY <1>2, <1>3, <1>6, <2>1
<1>8. ASSUME NEW j \in SubFor(k, type)
      PROVE  /\ j \in Sub
             /\ T[j] = None \/ T[j].slot = i
             /\ \A m \in Sub \ {j} : T[m] # None /\ T[m].slot = i => T[m].type # type
  <2>1. CASE found # {}
    <3>1. found \in SUBSET Nat
      BY <1>6, SignalStoreAssumption DEF Sub
    <3>2. j \in found
      BY <1>4, <1>8, <2>1, <3>1, LowestIn
    <3> QED BY <1>6, <1>7, <3>2
  <2>2. CASE found = {} /\ Unused(T) # {}
    <3>1. Unused(T) \in SUBSET Nat
      BY <1>3, SignalStoreAssumption DEF Sub
    <3>2. j \in Unused(T)
      BY <1>4, <1>8, <2>2, <3>1, LowestIn DEF ClaimSub
    <3> QED BY <1>3, <1>6, <2>2, <3>2
  <2>3. CASE found = {} /\ Unused(T) = {}
    <3>1. j \in {Oldest(SubsOf(i, T), T)} /\ SubsOf(i, T) # {}
      BY <1>4, <1>8, <2>3 DEF ClaimSub
    <3>2. \A m \in SubsOf(i, T) : T[m].seq \in Nat
      BY <1>3, SignalStoreAssumption
    <3>3. Oldest(SubsOf(i, T), T) \in SubsOf(i, T)
      BY <3>1, <3>2, OldestIn
    <3> QED BY <1>3, <1>6, <2>3, <3>1, <3>3
  <2> QED BY <2>1, <2>2, <2>3
<1>9. ASSUME Evicts(k) PROVE SubFor(k, type) # {}
  <2>1. i \in Used(devices)
    BY <1>1, <1>9, SlotForClaims
  <2>2. PICK j \in SubsOf(i, subs) : TRUE
    BY <2>1 DEF TablesInv, TablesAgree
  <2>3. Unused(T) # {}
    BY <1>2, <1>3, <1>9, <2>2
  <2> QED BY <1>4, <2>3 DEF ClaimSub
<1>10. ASSUME IsNew(k), NEW m \in Sub, T[m] # None PROVE T[m].slot # i
  <2>1. CASE Evicts(k)
    BY <1>2, <1>10, <2>1
  <2>2. CASE ~Evicts(k)
    <3>1. devices[i] = None
      BY <1>1, <1>10, <2>2, SlotForClaims
    <3>2. T[m] = subs[m]
      BY <1>2, <2>2
    <3>3. devices[subs[m].slot] # None
      BY <1>3, <1>10, <3>2 DEF TablesInv, TablesAgree
    <3> QED BY <3>1, <3>2, <3>3
  <2> QED BY <2>1, <2>2
<1> HIDE DEF T, i, found
<1> QED BY <1>8, <1>9, <1>10 DEF T, i

\* Donor: of the siblings that carry a reading, one that no other is newer than.
LEMMA DonorIn ==
  ASSUME NEW T \in [Sub -> DeviceSub \cup {None}], NEW parsed \in SUBSET Used(T),
         NEW f \in Field, \E j \in parsed : T[j].payload[f] # 0
  PROVE  /\ Donor(f, parsed, T) \in parsed
         /\ T[Donor(f, parsed, T)].payload[f] # 0
         /\ \A j \in parsed : T[j].payload[f] # 0 => T[j].seq <= T[Donor(f, parsed, T)].seq
<1> DEFINE carriers == {j \in parsed : T[j].payload[f] # 0}
           ages == {MaxSeq - T[j].seq : j \in carriers}
<1>1. \A j \in carriers : T[j].seq \in 1..MaxSeq
  BY SubEntries
<1>2. ages \in SUBSET Nat /\ ages # {}
  <2>1. carriers # {}
    OBVIOUS
  <2>2. \A j \in carriers : MaxSeq - T[j].seq \in Nat
    BY <1>1, SignalStoreAssumption
  <2> HIDE DEF carriers
  <2> QED BY <2>1, <2>2
<1>3. PICK n \in ages : \A m \in ages : n <= m
  <2> HIDE DEF ages
  <2> QED BY <1>2, MinExists
<1>4. PICK j \in carriers : n = MaxSeq - T[j].seq
  BY <1>3
<1>5. \A i \in carriers : T[i].seq <= T[j].seq
  <2>1. ASSUME NEW i \in carriers PROVE T[i].seq <= T[j].seq
    <3>1. n <= MaxSeq - T[i].seq
      BY <1>3
    <3>2. T[i].seq \in 1..MaxSeq /\ T[j].seq \in 1..MaxSeq
      BY <1>1
    <3> HIDE DEF ages, carriers
    <3> QED BY <1>4, <3>1, <3>2, SignalStoreAssumption
  <2> QED BY <2>1
<1>6. Donor(f, parsed, T) = CHOOSE d \in carriers : \A i \in carriers : T[i].seq <= T[d].seq
  BY DEF Donor
<1>7. Donor(f, parsed, T) \in carriers /\ \A i \in carriers : T[i].seq <= T[Donor(f, parsed, T)].seq
  <2> HIDE DEF carriers
  <2> QED BY <1>5, <1>6
<1> QED BY <1>7

LEMMA MergedTyped ==
  ASSUME NEW T \in [Sub -> DeviceSub \cup {None}], NEW parsed \in SUBSET Used(T),
         NEW reads \in SUBSET Field, NEW kept \in SUBSET Offered(reads, parsed, T), NEW seq \in 1..MaxSeq
  PROVE  MergeSiblingSubs(reads, kept, parsed, T, seq) \in [Field -> 0..MaxSeq]
<1>1. ASSUME NEW f \in kept PROVE T[Donor(f, parsed, T)].payload[f] \in 0..MaxSeq
  <2>1. f \in Field /\ \E j \in parsed : T[j].payload[f] # 0
    BY DEF Offered
  <2>2. Donor(f, parsed, T) \in Used(T)
    BY <2>1, DonorIn
  <2>3. T[Donor(f, parsed, T)].payload \in [Field -> 0..MaxSeq]
    BY <2>2, SubEntries
  <2> QED BY <2>1, <2>3
<1>2. seq \in 0..MaxSeq /\ 0 \in 0..MaxSeq
  BY SignalStoreAssumption
<1> QED BY <1>1, <1>2 DEF MergeSiblingSubs

\* What RecordStored does to the subs: one is written, those of an evicted
\* device go, every other stays.
LEMMA Stored ==
  ASSUME TablesInv, NEW k \in Key, NEW type \in Type, NEW reads \in SUBSET Field, RecordStored(k, type, reads)
  PROVE  \E j \in SubFor(k, type), payload \in [Field -> 0..MaxSeq] :
           /\ subs' = [TableFor(k) EXCEPT ![j] =
                [slot |-> SlotFor(k), type |-> type, lastSeen |-> now, seq |-> seqCounter + 1, payload |-> payload]]
           /\ subAge' = [subAge EXCEPT ![j] = 0]
<1> DEFINE T == TableFor(k)
           i == SlotFor(k)
           seq == seqCounter + 1
<1>1. PICK j \in SubFor(k, type) :
        \E parsed \in MayParse(SubsOf(i, T) \ {j}) : \E kept \in SUBSET Offered(reads, parsed, T) :
          /\ subs' = [T EXCEPT ![j] = [slot |-> i, type |-> type, lastSeen |-> now, seq |-> seq,
                        payload |-> MergeSiblingSubs(reads, kept, parsed, T, seq)]]
          /\ subAge' = [subAge EXCEPT ![j] = 0]
  BY DEF RecordStored
<1>2. PICK parsed \in MayParse(SubsOf(i, T) \ {j}) : \E kept \in SUBSET Offered(reads, parsed, T) :
          /\ subs' = [T EXCEPT ![j] = [slot |-> i, type |-> type, lastSeen |-> now, seq |-> seq,
                        payload |-> MergeSiblingSubs(reads, kept, parsed, T, seq)]]
          /\ subAge' = [subAge EXCEPT ![j] = 0]
  BY <1>1
<1>3. PICK kept \in SUBSET Offered(reads, parsed, T) :
          /\ subs' = [T EXCEPT ![j] = [slot |-> i, type |-> type, lastSeen |-> now, seq |-> seq,
                        payload |-> MergeSiblingSubs(reads, kept, parsed, T, seq)]]
          /\ subAge' = [subAge EXCEPT ![j] = 0]
  BY <1>2
<1>4. T \in [Sub -> DeviceSub \cup {None}]
  BY Typed, TableForFrees DEF TablesInv
<1>5. parsed \in SUBSET Used(T)
  BY <1>2 DEF MayParse, SubsOf
<1>6. seq \in 1..MaxSeq
  BY SignalStoreAssumption DEF RecordStored, TablesInv, TypeOK
<1>7. MergeSiblingSubs(reads, kept, parsed, T, seq) \in [Field -> 0..MaxSeq]
  <2> HIDE DEF T, seq
  <2> QED BY <1>4, <1>5, <1>6, MergedTyped
<1> QED BY <1>1, <1>3, <1>7

\* The same, entry by entry.
LEMMA StoredEffect ==
  ASSUME TablesInv, NEW k \in Key, NEW type \in Type, NEW reads \in SUBSET Field, RecordStored(k, type, reads)
  PROVE  \E j \in Sub :
           /\ subs' \in [Sub -> DeviceSub \cup {None}]
           /\ subs'[j] # None
           /\ subs'[j].slot = SlotFor(k) /\ subs'[j].type = type
           /\ subs'[j].lastSeen = now /\ subs'[j].seq = seqCounter + 1
           /\ \A m \in Sub \ {j} :
                \/ subs'[m] = None
                \/ /\ subs'[m] = subs[m]
                   /\ subs[m].slot = SlotFor(k) => ~IsNew(k) /\ subs[m].type # type
           /\ \A m \in Sub : subs[m] # None /\ subs[m].slot # SlotFor(k) => m # j /\ subs'[m] = subs[m]
           /\ subAge' = [subAge EXCEPT ![j] = 0]
<1> DEFINE T == TableFor(k)
           i == SlotFor(k)
<1>1. PICK j \in SubFor(k, type), payload \in [Field -> 0..MaxSeq] :
        /\ subs' = [T EXCEPT ![j] =
             [slot |-> i, type |-> type, lastSeen |-> now, seq |-> seqCounter + 1, payload |-> payload]]
        /\ subAge' = [subAge EXCEPT ![j] = 0]
  BY Stored
<1>2. TablesTyped
  BY Typed DEF TablesInv
<1>3. /\ T \in [Sub -> DeviceSub \cup {None}]
      /\ \A m \in Sub : T[m] = IF Evicts(k) /\ subs[m] # None /\ subs[m].slot = i THEN None ELSE subs[m]
  BY <1>2, TableForFrees
<1>4. /\ j \in Sub
      /\ T[j] = None \/ T[j].slot = i
      /\ \A m \in Sub \ {j} : T[m] # None /\ T[m].slot = i => T[m].type # type
      /\ IsNew(k) => \A m \in Sub : T[m] # None => T[m].slot # i
  BY SubForFinds
<1> DEFINE new == [slot |-> i, type |-> type, lastSeen |-> now, seq |-> seqCounter + 1, payload |-> payload]
<1>5. i \in Slot /\ now \in 0..(Wrap - 1) /\ seqCounter + 1 \in 1..MaxSeq
  BY <1>2, SlotForClaims, SignalStoreAssumption DEF RecordStored, TablesTyped
<1>6. new \in DeviceSub
  BY <1>5 DEF DeviceSub
<1>7. new # None
  BY <1>6, SignalStoreAssumption
<1>8. new.slot = i /\ new.type = type /\ new.lastSeen = now /\ new.seq = seqCounter + 1
  OBVIOUS
<1> HIDE DEF new, T, i
<1>9. subs' = [m \in Sub |-> IF m = j THEN new ELSE T[m]]
  BY <1>1, <1>3, <1>4 DEF new
<1>10. subs' \in [Sub -> DeviceSub \cup {None}]
  BY <1>3, <1>6, <1>9
<1>11. subs'[j] = new
  BY <1>4, <1>9
<1>12. ASSUME NEW m \in Sub \ {j}, subs'[m] # None
       PROVE  subs'[m] = subs[m] /\ (subs[m].slot = i => ~IsNew(k) /\ subs[m].type # type)
  <2>1. subs'[m] = T[m] /\ T[m] = subs[m] /\ T[m] # None
    BY <1>3, <1>9, <1>12
  <2> QED BY <1>4, <2>1
<1>13. ASSUME NEW m \in Sub, subs[m] # None, subs[m].slot # i
       PROVE  m # j /\ subs'[m] = subs[m]
  <2>1. T[m] = subs[m]
    BY <1>3, <1>13
  <2>2. m # j
    BY <1>4, <1>13, <2>1
  <2> QED BY <1>9, <2>1, <2>2
<1> QED BY <1>1, <1>4, <1>7, <1>8, <1>10, <1>11, <1>12, <1>13 DEF i

-----------------------------------------------------------------------------
(* Steps that leave the tables alone *)

PendingOK ==
  /\ pending \in [PendingSlot -> PendingKey \cup {None}]
  /\ \A p1, p2 \in Used(pending) : pending[p1].key = pending[p2].key => p1 = p2

LEMMA InitTables == Init => TablesInv
<1> SUFFICES ASSUME Init PROVE TablesInv
  OBVIOUS
<1> USE SignalStoreAssumption
<1>1. TypeOK
  BY DEF Init, TypeOK
<1>2. Used(devices) = {} /\ Used(subs) = {} /\ Used(pending) = {}
  BY DEF Init, Used
<1>3. CountExact
  BY <1>2, FS_EmptySet DEF Init, CountExact
<1>4. SubsOf(0, subs) = {} /\ TablesAgree /\ NoDuplicates /\ LatestIsLastRecord
  BY <1>2 DEF SubsOf, TablesAgree, NoDuplicates, LatestIsLastRecord
<1>5. LastRecordedIsNewest /\ SeqsOrdered
  BY <1>2 DEF Init, LastRecordedIsNewest, SeqsOrdered
<1> QED BY <1>1, <1>3, <1>4, <1>5 DEF TablesInv

LEMMA TablesKept ==
  ASSUME TablesInv, UNCHANGED tables, PendingOK',
         seqCounter' \in 0..MaxSeq, seqCounter <= seqCounter', lastRecorded' \in {0, lastRecorded},
         now' \in 0..(Wrap - 1), sinceSweep' \in 0..SweepWithin, age' \in [Slot -> Nat], subAge' \in [Sub -> Nat]
  PROVE  TablesInv'
<1>1. devices' = devices /\ deviceCount' = deviceCount /\ subs' = subs
  BY DEF tables
<1>2. TypeOK'
  BY <1>1 DEF TablesInv, TypeOK, PendingOK
<1>3. CountExact' /\ TablesAgree'
  BY <1>1 DEF TablesInv, CountExact, TablesAgree
<1>4. NoDuplicates'
  BY <1>1 DEF TablesInv, NoDuplicates, PendingOK
<1>5. LatestIsLastRecord'
  BY <1>1 DEF TablesInv, LatestIsLastRecord
<1>6. LastRecordedIsNewest'
  BY <1>1 DEF TablesInv, LastRecordedIsNewest
<1>7. SeqsOrdered'
  <2>1. \A i \in Used(devices) : devices[i].seq <= seqCounter'
    <3>1. \A i \in Used(devices) : devices[i].seq \in 1..MaxSeq
      BY DeviceEntries DEF TablesInv, TypeOK
    <3>2. seqCounter \in Nat /\ seqCounter' \in Nat
      BY SignalStoreAssumption DEF TablesInv, TypeOK
    <3> QED BY <3>1, <3>2, SignalStoreAssumption DEF TablesInv, SeqsOrdered
  <2> QED BY <1>1, <2>1 DEF TablesInv, SeqsOrdered
<1> QED BY <1>2, <1>3, <1>4, <1>5, <1>6, <1>7 DEF TablesInv

\* A first sighting takes a pending entry; nothing was pending under its key.
LEMMA PendingClaimed ==
  ASSUME TablesInv, NEW k \in Key, RecordPending(k)
  PROVE  PendingOK'
<1> USE SignalStoreAssumption
<1>1. /\ pending \in [PendingSlot -> PendingKey \cup {None}]
      /\ Used(pending) = {p \in PendingSlot : pending[p] # None}
      /\ Unused(pending) = {p \in PendingSlot : pending[p] = None}
      /\ \A p \in Used(pending) : pending[p].seq \in 1..MaxSeq
  BY PendingEntries DEF TablesInv, TypeOK
<1>2. ClaimPending \in PendingSlot
  <2>1. CASE Unused(pending) # {}
    <3>1. Unused(pending) \in SUBSET Nat
      BY <1>1 DEF PendingSlot
    <3> QED BY <1>1, <2>1, <3>1, LowestIn DEF ClaimPending
  <2>2. CASE Unused(pending) = {}
    <3>1. PendingSlot # {} /\ \A p \in PendingSlot : pending[p].seq \in Nat
      BY <1>1, <2>2 DEF PendingSlot
    <3>2. Oldest(PendingSlot, pending) \in PendingSlot
      BY <3>1, OldestIn
    <3> QED BY <2>2, <3>2 DEF ClaimPending
  <2> QED BY <2>1, <2>2
<1> DEFINE new == [key |-> k, seq |-> seqCounter + 1]
<1>3. new \in PendingKey /\ new.key = k /\ new # None
  BY DEF RecordPending, TablesInv, TypeOK, PendingKey
<1>4. FindPending(k) = {}
  BY DEF RecordPending, Passes
<1>5. \A p \in Used(pending) : pending[p].key # k
  BY <1>4 DEF FindPending
<1>6. pending' = [p \in PendingSlot |-> IF p = ClaimPending THEN new ELSE pending[p]]
  BY <1>1, <1>2 DEF RecordPending
<1> HIDE DEF new
<1>7. pending' \in [PendingSlot -> PendingKey \cup {None}]
  BY <1>1, <1>3, <1>6
<1>8. Used(pending') = {p \in PendingSlot : pending'[p] # None}
  BY <1>7, PendingEntries
<1>9. ASSUME NEW p1 \in Used(pending'), NEW p2 \in Used(pending'), pending'[p1].key = pending'[p2].key
      PROVE  p1 = p2
  <2>1. \A p \in Used(pending') : p # ClaimPending => p \in Used(pending) /\ pending'[p] = pending[p]
    BY <1>1, <1>6, <1>8
  <2>2. pending'[ClaimPending].key = k
    BY <1>2, <1>3, <1>6
  <2>3. CASE p1 # ClaimPending /\ p2 # ClaimPending
    BY <1>9, <2>1, <2>3 DEF TablesInv, NoDuplicates
  <2>4. CASE p1 = ClaimPending \/ p2 = ClaimPending
    BY <1>5, <1>9, <2>1, <2>2, <2>4
  <2> QED BY <2>3, <2>4
<1> QED BY <1>7, <1>9 DEF PendingOK

\* A second sighting uses its entry up.
LEMMA PendingUsed ==
  ASSUME TablesInv, NEW k \in Key, pending' = PendingAfter(k) \/ pending' = pending
  PROVE  PendingOK'
<1>1. /\ pending \in [PendingSlot -> PendingKey \cup {None}]
      /\ Used(pending) = {p \in PendingSlot : pending[p] # None}
  BY PendingEntries DEF TablesInv, TypeOK
<1>2. /\ pending' \in [PendingSlot -> PendingKey \cup {None}]
      /\ \A p \in PendingSlot : pending'[p] \in {None, pending[p]}
  BY <1>1 DEF PendingAfter
<1>3. Used(pending') = {p \in PendingSlot : pending'[p] # None}
  BY <1>2, PendingEntries
<1>4. \A p \in Used(pending') : p \in Used(pending) /\ pending'[p] = pending[p]
  BY <1>1, <1>2, <1>3
<1> QED BY <1>2, <1>4 DEF PendingOK, TablesInv, NoDuplicates

\* An eviction always finds a sub, so a refused message evicted nobody, and
\* giving the claimed slot back restores the tables.
LEMMA RefusedUndoes ==
  ASSUME TablesInv, NEW k \in Key, NEW type \in Type, RecordRefused(k, type)
  PROVE  UNCHANGED tables
<1>1. ~Evicts(k)
  BY SubForFinds DEF RecordRefused
<1>2. subs' = subs
  BY <1>1 DEF RecordRefused, TableFor
<1>3. devices \in [Slot -> DeviceSlot \cup {None}] /\ deviceCount \in Int
  BY SignalStoreAssumption DEF TablesInv, TypeOK
<1>4. CASE IsNew(k)
  <2>1. SlotFor(k) \in Slot /\ devices[SlotFor(k)] = None
    BY <1>1, <1>4, Typed, SlotForClaims DEF TablesInv
  <2>2. devices' = devices
    BY <1>3, <1>4, <2>1 DEF RecordRefused, Undone
  <2>3. deviceCount' = deviceCount
    BY <1>1, <1>3, <1>4 DEF RecordRefused, Undone, Count
  <2> QED BY <1>2, <2>2, <2>3 DEF tables
<1>5. CASE ~IsNew(k)
  BY <1>2, <1>5 DEF RecordRefused, Undone, Count, tables
<1> QED BY <1>4, <1>5

-----------------------------------------------------------------------------
(* A stored message *)

\* What RecordStored does to the devices.
LEMMA StoredDevice ==
  ASSUME TablesInv, NEW k \in Key, NEW type \in Type, NEW reads \in SUBSET Field, RecordStored(k, type, reads)
  PROVE  /\ devices' \in [Slot -> DeviceSlot \cup {None}]
         /\ Used(devices') = Used(devices) \cup {SlotFor(k)}
         /\ devices'[SlotFor(k)] # None /\ devices'[SlotFor(k)].key = k
         /\ devices'[SlotFor(k)].lastSeen = now /\ devices'[SlotFor(k)].seq = seqCounter + 1
         /\ \A d \in Slot \ {SlotFor(k)} : devices'[d] = devices[d]
<1> DEFINE i == SlotFor(k)
           new == [key |-> k, lastSeen |-> now, seq |-> seqCounter + 1]
<1>1. devices \in [Slot -> DeviceSlot \cup {None}] /\ now \in 0..(Wrap - 1) /\ seqCounter + 1 \in 1..MaxSeq
  BY SignalStoreAssumption DEF RecordStored, TablesInv, TypeOK
<1>2. i \in Slot
  BY Typed, SlotForClaims DEF TablesInv
<1>3. new \in DeviceSlot /\ new # None
  BY <1>1, SignalStoreAssumption DEF DeviceSlot
<1>4. new.key = k /\ new.lastSeen = now /\ new.seq = seqCounter + 1
  OBVIOUS
<1>5. devices' = [devices EXCEPT ![i] = new]
  BY DEF RecordStored
<1> HIDE DEF i, new
<1>6. devices' \in [Slot -> DeviceSlot \cup {None}] /\ devices'[i] = new
      /\ \A d \in Slot \ {i} : devices'[d] = devices[d]
  BY <1>1, <1>2, <1>3, <1>5
<1>7. Used(devices') = {d \in Slot : devices'[d] # None} /\ Used(devices) = {d \in Slot : devices[d] # None}
  BY <1>1, <1>6, DeviceEntries
<1>8. Used(devices') = Used(devices) \cup {i}
  BY <1>2, <1>3, <1>6, <1>7
<1> QED BY <1>3, <1>4, <1>6, <1>8 DEF i

LEMMA StoredCounts ==
  ASSUME TablesInv, NEW k \in Key, NEW type \in Type, NEW reads \in SUBSET Field, RecordStored(k, type, reads)
  PROVE  CountExact' /\ deviceCount' \in 0..DeviceSlots
<1> DEFINE i == SlotFor(k)
<1>1. Used(devices') = Used(devices) \cup {i} /\ devices' \in [Slot -> DeviceSlot \cup {None}]
  BY StoredDevice
<1>2. /\ Used(devices) = {d \in Slot : devices[d] # None}
      /\ Used(devices') = {d \in Slot : devices'[d] # None}
  BY <1>1, DeviceEntries DEF TablesInv, TypeOK
<1>3. IsFiniteSet(Slot) /\ Cardinality(Slot) = DeviceSlots
  BY FS_Interval, SignalStoreAssumption DEF Slot
<1>4. IsFiniteSet(Used(devices))
  BY <1>2, <1>3, FS_Subset
<1>5. i \in Slot /\ (~IsNew(k) => i \in Used(devices)) /\ (IsNew(k) /\ ~Evicts(k) => devices[i] = None)
      /\ (Evicts(k) => Used(devices) = Slot)
  BY Typed, SlotForClaims DEF TablesInv
<1>6. Cardinality(Used(devices')) = IF i \in Used(devices) THEN Cardinality(Used(devices)) ELSE Cardinality(Used(devices)) + 1
  <2> HIDE DEF i
  <2> QED BY <1>1, <1>4, FS_AddElement
<1>7. deviceCount' = IF IsNew(k) /\ ~Evicts(k) THEN deviceCount + 1 ELSE deviceCount
  BY DEF RecordStored, Count
<1>8. deviceCount = Cardinality(Used(devices))
  BY DEF TablesInv, CountExact
<1>9. IsNew(k) /\ ~Evicts(k) <=> i \notin Used(devices)
  <2>1. Evicts(k) => IsNew(k)
    BY DEF Evicts
  <2> HIDE DEF i
  <2> QED BY <1>2, <1>5, <2>1
<1>10. CountExact'
  BY <1>6, <1>7, <1>8, <1>9 DEF CountExact
<1>11. Cardinality(Used(devices')) <= DeviceSlots
  BY <1>2, <1>3, FS_Subset
<1>12. deviceCount' \in Nat
  BY <1>7, SignalStoreAssumption DEF TablesInv, TypeOK
<1> QED BY <1>10, <1>11, <1>12, SignalStoreAssumption DEF CountExact

LEMMA StoredKeeps ==
  ASSUME TablesInv, NEW k \in Key, NEW type \in Type, NEW reads \in SUBSET Field, RecordStored(k, type, reads)
  PROVE  TablesInv'
<1> USE SignalStoreAssumption
<1> DEFINE i == SlotFor(k)
<1>1. PICK j \in Sub :
        /\ subs' \in [Sub -> DeviceSub \cup {None}]
        /\ subs'[j] # None
        /\ subs'[j].slot = i /\ subs'[j].type = type
        /\ subs'[j].lastSeen = now /\ subs'[j].seq = seqCounter + 1
        /\ \A m \in Sub \ {j} :
             \/ subs'[m] = None
             \/ /\ subs'[m] = subs[m]
                /\ subs[m].slot = i => ~IsNew(k) /\ subs[m].type # type
        /\ \A m \in Sub : subs[m] # None /\ subs[m].slot # i => m # j /\ subs'[m] = subs[m]
        /\ subAge' = [subAge EXCEPT ![j] = 0]
  BY StoredEffect
<1>2. /\ devices' \in [Slot -> DeviceSlot \cup {None}]
      /\ Used(devices') = Used(devices) \cup {i}
      /\ devices'[i] # None /\ devices'[i].key = k
      /\ devices'[i].lastSeen = now /\ devices'[i].seq = seqCounter + 1
      /\ \A d \in Slot \ {i} : devices'[d] = devices[d]
  BY StoredDevice
<1>3. /\ Used(devices) = {d \in Slot : devices[d] # None}
      /\ \A d \in Used(devices) : devices[d].seq \in 1..MaxSeq /\ devices[d].seq <= seqCounter
  BY DeviceEntries DEF TablesInv, TypeOK, SeqsOrdered
<1>4. /\ Used(subs) = {m \in Sub : subs[m] # None}
      /\ \A d : SubsOf(d, subs) = {m \in Sub : subs[m] # None /\ subs[m].slot = d}
      /\ \A m \in Used(subs) : subs[m].slot \in Slot /\ subs[m].seq \in 1..MaxSeq
  BY SubEntries DEF TablesInv, TypeOK
<1>5. /\ Used(subs') = {m \in Sub : subs'[m] # None}
      /\ \A d : SubsOf(d, subs') = {m \in Sub : subs'[m] # None /\ subs'[m].slot = d}
  BY <1>1, SubEntries
<1>6. /\ i \in Slot
      /\ ~IsNew(k) => i \in Used(devices) /\ devices[i].key = k
      /\ IsNew(k) => \A d \in Used(devices) : devices[d].key # k
  BY Typed, SlotForClaims DEF TablesInv
<1>7. seqCounter \in Nat /\ seqCounter' = seqCounter + 1 /\ seqCounter' \in 0..MaxSeq /\ lastRecorded' = i
  BY DEF RecordStored, TablesInv, TypeOK
<1> HIDE DEF i
<1>8. \A m \in Used(subs) : devices[subs[m].slot] # None /\ subs[m].seq <= devices[subs[m].slot].seq
  BY DEF TablesInv, TablesAgree, LatestIsLastRecord
<1>9. \A m \in Used(subs) : subs[m].seq <= seqCounter
  BY <1>3, <1>4, <1>7, <1>8
<1>10. \A m \in Used(subs') : m # j => m \in Used(subs) /\ subs'[m] = subs[m]
  BY <1>1, <1>4, <1>5
<1>11. PendingOK'
  BY PendingUsed DEF RecordStored
<1>12. TypeOK'
  <2>1. deviceCount' \in 0..DeviceSlots
    BY StoredCounts
  <2>2. age' \in [Slot -> Nat] /\ subAge' \in [Sub -> Nat]
    BY <1>1 DEF RecordStored, TablesInv, TypeOK
  <2>3. now' \in 0..(Wrap - 1) /\ sinceSweep' \in 0..SweepWithin
    BY DEF RecordStored, clock, TablesInv, TypeOK
  <2> QED BY <1>1, <1>2, <1>6, <1>7, <1>11, <2>1, <2>2, <2>3 DEF TypeOK, PendingOK
<1>13. CountExact'
  BY StoredCounts
<1>14. TablesAgree'
  <2>1. ASSUME NEW d \in Used(devices') PROVE SubsOf(d, subs') # {}
    <3>1. CASE d = i
      BY <1>1, <1>5, <3>1
    <3>2. CASE d # i
      <4>1. PICK m \in SubsOf(d, subs) : TRUE
        BY <1>2, <2>1, <3>2 DEF TablesInv, TablesAgree
      <4>2. m \in Sub /\ subs[m] # None /\ subs[m].slot = d
        BY <1>4, <4>1
      <4>3. subs'[m] = subs[m]
        BY <1>1, <3>2, <4>2
      <4> QED BY <1>5, <4>2, <4>3
    <3> QED BY <3>1, <3>2
  <2>2. ASSUME NEW m \in Used(subs') PROVE devices'[subs'[m].slot] # None
    <3>1. CASE m = j
      BY <1>1, <1>2, <3>1
    <3>2. CASE m # j
      BY <1>2, <1>4, <1>8, <1>10, <3>2
    <3> QED BY <3>1, <3>2
  <2> QED BY <2>1, <2>2 DEF TablesAgree
<1>15. NoDuplicates'
  <2>1. ASSUME NEW d1 \in Used(devices'), NEW d2 \in Used(devices'), devices'[d1].key = devices'[d2].key
        PROVE  d1 = d2
    <3>1. \A c1, c2 \in Used(devices) : devices[c1].key = devices[c2].key => c1 = c2
      BY DEF TablesInv, NoDuplicates
    <3>2. \A d \in Used(devices') : d # i => d \in Used(devices) /\ devices'[d] = devices[d]
      BY <1>2, <1>3
    <3>3. CASE d1 # i /\ d2 # i
      BY <2>1, <3>1, <3>2, <3>3
    <3>4. CASE d1 = i \/ d2 = i
      BY <1>2, <1>6, <2>1, <3>1, <3>2, <3>4
    <3> QED BY <3>3, <3>4
  <2>2. ASSUME NEW m1 \in Used(subs'), NEW m2 \in Used(subs'),
               subs'[m1].slot = subs'[m2].slot, subs'[m1].type = subs'[m2].type
        PROVE  m1 = m2
    <3>1. \A n1, n2 \in Used(subs) : subs[n1].slot = subs[n2].slot /\ subs[n1].type = subs[n2].type => n1 = n2
      BY DEF TablesInv, NoDuplicates
    <3>2. CASE m1 # j /\ m2 # j
      BY <1>10, <2>2, <3>1, <3>2
    <3>3. CASE m1 = j \/ m2 = j
      BY <1>1, <1>5, <1>10, <2>2, <3>3
    <3> QED BY <3>2, <3>3
  <2> QED BY <1>11, <2>1, <2>2 DEF NoDuplicates, PendingOK
<1>16. LatestIsLastRecord'
  <2>1. ASSUME NEW m \in Used(subs') PROVE subs'[m].seq <= devices'[subs'[m].slot].seq
    <3>1. CASE m = j
      BY <1>1, <1>2, <1>7, <3>1
    <3>2. CASE m # j /\ subs[m].slot = i
      BY <1>2, <1>4, <1>7, <1>9, <1>10, <3>2
    <3>3. CASE m # j /\ subs[m].slot # i
      BY <1>2, <1>4, <1>8, <1>10, <3>3
    <3> QED BY <3>1, <3>2, <3>3
  <2>2. ASSUME NEW d \in Used(devices')
        PROVE  \E m \in SubsOf(d, subs') : subs'[m].seq = devices'[d].seq /\ subs'[m].lastSeen = devices'[d].lastSeen
    <3>1. CASE d = i
      BY <1>1, <1>2, <1>5, <3>1
    <3>2. CASE d # i
      <4>1. d \in Used(devices) /\ devices'[d] = devices[d]
        BY <1>2, <1>3, <3>2
      <4>2. PICK m \in SubsOf(d, subs) : subs[m].seq = devices[d].seq /\ subs[m].lastSeen = devices[d].lastSeen
        BY <4>1 DEF TablesInv, LatestIsLastRecord
      <4>3. m \in Sub /\ subs[m] # None /\ subs[m].slot = d
        BY <1>4, <4>2
      <4>4. subs'[m] = subs[m]
        BY <1>1, <3>2, <4>3
      <4> QED BY <1>5, <4>1, <4>2, <4>3, <4>4
    <3> QED BY <3>1, <3>2
  <2> QED BY <2>1, <2>2 DEF LatestIsLastRecord
<1>17. LastRecordedIsNewest'
  <2>1. \A d \in Used(devices') : devices'[d].seq <= seqCounter + 1
    BY <1>2, <1>3, <1>7
  <2> QED BY <1>2, <1>7, <2>1 DEF LastRecordedIsNewest
<1>18. SeqsOrdered'
  <2>1. \A d \in Used(devices') : d # i => d \in Used(devices) /\ devices'[d] = devices[d]
    BY <1>2, <1>3
  <2>2. \A d \in Used(devices') : devices'[d].seq <= seqCounter'
    BY <1>2, <1>3, <1>7, <2>1
  <2>3. ASSUME NEW d1 \in Used(devices'), NEW d2 \in Used(devices'), devices'[d1].seq = devices'[d2].seq
        PROVE  d1 = d2
    <3>1. \A d \in Used(devices') : d # i => devices'[d].seq # seqCounter + 1
      BY <1>3, <1>7, <2>1
    <3> QED BY <1>2, <2>1, <2>3, <3>1 DEF TablesInv, SeqsOrdered
  <2>4. ASSUME NEW m1 \in Used(subs'), NEW m2 \in Used(subs'), subs'[m1].seq = subs'[m2].seq
        PROVE  m1 = m2
    <3>1. \A m \in Used(subs') : m # j => subs'[m].seq # seqCounter + 1
      BY <1>4, <1>7, <1>9, <1>10
    <3> QED BY <1>1, <1>10, <2>4, <3>1 DEF TablesInv, SeqsOrdered
  <2> QED BY <2>2, <2>3, <2>4 DEF SeqsOrdered
<1> QED BY <1>12, <1>13, <1>14, <1>15, <1>16, <1>17, <1>18 DEF TablesInv

-----------------------------------------------------------------------------
(* The sweep *)

\* What a sweep does: the stale devices go with their subs, and of every other
\* device the stale subs that have a newer one.
LEMMA SweepEffect ==
  ASSUME TablesInv, SweepStale, DeviceStale # 0
  PROVE  /\ devices' \in [Slot -> DeviceSlot \cup {None}]
         /\ \A d \in Slot : devices'[d] = IF d \in StaleDevices THEN None ELSE devices[d]
         /\ subs' \in [Sub -> DeviceSub \cup {None}]
         /\ \A m \in Sub : \/ subs'[m] = None
                           \/ subs'[m] = subs[m] /\ subs[m].slot \notin StaleDevices
         /\ \A m \in Used(subs) : subs[m].slot \notin StaleDevices =>
              /\ subs'[m] = None => /\ Elapsed(subs[m].lastSeen) > SubStale
                                    /\ \E n \in Used(subs) : subs[n].slot = subs[m].slot /\ subs[n].seq > subs[m].seq
              /\ subs'[m] # None => \/ ~ (Elapsed(subs[m].lastSeen) > SubStale)
                                    \/ \A n \in Used(subs) : subs[n].slot = subs[m].slot => ~ (subs[n].seq > subs[m].seq)
<1> DEFINE S == StaleDevices
           T == [j \in Sub |-> IF subs[j] # None /\ subs[j].slot \in S THEN None ELSE subs[j]]
<1>1. devices \in [Slot -> DeviceSlot \cup {None}] /\ subs \in [Sub -> DeviceSub \cup {None}]
  BY DEF TablesInv, TypeOK
<1>2. devices' = [d \in Slot |-> IF d \in S THEN None ELSE devices[d]] /\ subs' = SweepSubStale(T)
  BY DEF SweepStale
<1> HIDE DEF S
<1>3. T \in [Sub -> DeviceSub \cup {None}]
  BY <1>1
<1>4. \A d : SubsOf(d, T) = {m \in Sub : T[m] # None /\ T[m].slot = d}
  <2> HIDE DEF T
  <2> QED BY <1>3, SubEntries
<1>5. subs' = [j \in Sub |-> IF T[j] # None /\ Elapsed(T[j].lastSeen) > SubStale /\ HasNewer(j, T) THEN None ELSE T[j]]
  BY <1>2 DEF SweepSubStale
<1>6. subs' \in [Sub -> DeviceSub \cup {None}] /\ \A m \in Sub : subs'[m] \in {None, T[m]}
  <2> HIDE DEF T
  <2> QED BY <1>3, <1>5
<1>7. ASSUME NEW m \in Sub, subs'[m] # None PROVE subs'[m] = subs[m] /\ subs[m].slot \notin S
  BY <1>6, <1>7
<1>8. Used(subs) = {m \in Sub : subs[m] # None}
  BY <1>1, SubEntries
<1>9. ASSUME NEW m \in Used(subs), subs[m].slot \notin S
      PROVE  HasNewer(m, T) <=> \E n \in Used(subs) : subs[n].slot = subs[m].slot /\ subs[n].seq > subs[m].seq
  <2>1. T[m] = subs[m]
    BY <1>8, <1>9
  <2>2. SubsOf(subs[m].slot, T) = {n \in Used(subs) : subs[n].slot = subs[m].slot}
    BY <1>4, <1>8, <1>9
  <2>3. \A n \in Used(subs) : subs[n].slot = subs[m].slot => T[n] = subs[n]
    BY <1>8, <1>9
  <2> HIDE DEF T
  <2> QED BY <2>1, <2>2, <2>3 DEF HasNewer
<1>10. ASSUME NEW m \in Used(subs), subs[m].slot \notin S
       PROVE  subs'[m] = None <=> Elapsed(subs[m].lastSeen) > SubStale /\ HasNewer(m, T)
  <2>1. T[m] = subs[m] /\ T[m] # None /\ m \in Sub
    BY <1>8, <1>10
  <2> HIDE DEF T
  <2> QED BY <1>5, <2>1
<1> HIDE DEF T
<1>11. \A m \in Sub : subs'[m] = None \/ (subs'[m] = subs[m] /\ subs[m].slot \notin S)
  BY <1>7
<1>12. ASSUME NEW m \in Used(subs), subs[m].slot \notin S
       PROVE  /\ subs'[m] = None => /\ Elapsed(subs[m].lastSeen) > SubStale
                                    /\ \E n \in Used(subs) : subs[n].slot = subs[m].slot /\ subs[n].seq > subs[m].seq
              /\ subs'[m] # None => \/ ~ (Elapsed(subs[m].lastSeen) > SubStale)
                                    \/ \A n \in Used(subs) : subs[n].slot = subs[m].slot => ~ (subs[n].seq > subs[m].seq)
  BY <1>9, <1>10, <1>12
<1>13. devices' \in [Slot -> DeviceSlot \cup {None}]
  BY <1>1, <1>2
<1> QED BY <1>2, <1>6, <1>11, <1>12, <1>13 DEF S

LEMMA SweepKeeps ==
  ASSUME TablesInv, SweepStale
  PROVE  TablesInv'
<1> USE SignalStoreAssumption
<1>1. CASE DeviceStale = 0
  <2>1. UNCHANGED tables /\ lastRecorded' = lastRecorded
    BY <1>1 DEF SweepStale
  <2>2. UNCHANGED <<now, pending, seqCounter, age, subAge>> /\ sinceSweep' = 0
    BY DEF SweepStale
  <2>3. PendingOK'
    BY <2>2, PendingUsed DEF TablesInv, TypeOK, NoDuplicates, PendingOK
  <2>4. /\ seqCounter' \in 0..MaxSeq /\ seqCounter <= seqCounter'
        /\ now' \in 0..(Wrap - 1) /\ sinceSweep' \in 0..SweepWithin /\ age' \in [Slot -> Nat] /\ subAge' \in [Sub -> Nat]
    BY <2>2 DEF TablesInv, TypeOK
  <2> QED BY <2>1, <2>3, <2>4, TablesKept
<1>2. CASE DeviceStale # 0
  <2> DEFINE S == StaleDevices
  <2>1. /\ devices' \in [Slot -> DeviceSlot \cup {None}]
        /\ \A d \in Slot : devices'[d] = IF d \in S THEN None ELSE devices[d]
        /\ subs' \in [Sub -> DeviceSub \cup {None}]
        /\ \A m \in Sub : subs'[m] = None \/ (subs'[m] = subs[m] /\ subs[m].slot \notin S)
        /\ \A m \in Used(subs) : subs[m].slot \notin S /\ subs'[m] = None =>
             \E n \in Used(subs) : subs[n].slot = subs[m].slot /\ subs[n].seq > subs[m].seq
    BY <1>2, SweepEffect
  <2>2. /\ Used(devices) = {d \in Slot : devices[d] # None}
        /\ \A d \in Used(devices) : devices[d].seq \in 1..MaxSeq
        /\ Used(devices') = {d \in Slot : devices'[d] # None}
    BY <2>1, DeviceEntries DEF TablesInv, TypeOK
  <2>3. /\ Used(subs) = {m \in Sub : subs[m] # None}
        /\ \A d : SubsOf(d, subs) = {m \in Sub : subs[m] # None /\ subs[m].slot = d}
        /\ \A m \in Used(subs) : subs[m].slot \in Slot /\ subs[m].seq \in 1..MaxSeq
        /\ Used(subs') = {m \in Sub : subs'[m] # None}
        /\ \A d : SubsOf(d, subs') = {m \in Sub : subs'[m] # None /\ subs'[m].slot = d}
    BY <2>1, SubEntries DEF TablesInv, TypeOK
  <2>4. /\ UNCHANGED <<now, pending, seqCounter, age, subAge>> /\ sinceSweep' = 0
        /\ deviceCount' = deviceCount - Cardinality(S)
        /\ lastRecorded' = IF lastRecorded \in S THEN 0 ELSE lastRecorded
    BY <1>2 DEF SweepStale, LastAfter
  <2>5. S \in SUBSET Used(devices)
    BY DEF StaleDevices
  <2> HIDE DEF S
  <2>6. \A d \in Used(devices') : d \in Used(devices) /\ d \notin S /\ devices'[d] = devices[d]
    BY <2>1, <2>2
  <2>7. \A m \in Used(subs') : m \in Used(subs) /\ subs'[m] = subs[m] /\ subs[m].slot \notin S
    BY <2>1, <2>3
  <2>8. Used(devices') = Used(devices) \ S
    BY <2>1, <2>2
  <2>9. /\ IsFiniteSet(Used(devices)) /\ IsFiniteSet(S)
        /\ Cardinality(S) <= Cardinality(Used(devices))
        /\ Cardinality(Used(devices')) = Cardinality(Used(devices)) - Cardinality(S)
    <3>1. IsFiniteSet(Slot)
      BY FS_Interval DEF Slot
    <3>2. IsFiniteSet(Used(devices))
      BY <2>2, <3>1, FS_Subset
    <3>3. Used(devices) \cap S = S
      BY <2>5
    <3>4. Cardinality(Used(devices) \ S) = Cardinality(Used(devices)) - Cardinality(Used(devices) \cap S)
      BY <3>2, FS_Difference
    <3>5. IsFiniteSet(S) /\ Cardinality(S) <= Cardinality(Used(devices))
      BY <2>5, <3>2, FS_Subset
    <3> QED BY <2>8, <3>2, <3>3, <3>4, <3>5
  <2>10. deviceCount = Cardinality(Used(devices)) /\ deviceCount \in 0..DeviceSlots
    BY DEF TablesInv, CountExact, TypeOK
  <2>11. CountExact' /\ deviceCount' \in 0..DeviceSlots
    <3>1. Cardinality(S) \in Nat
      BY <2>9, FS_CardinalityType
    <3> QED BY <2>4, <2>9, <2>10, <3>1 DEF CountExact
  <2>12. TypeOK'
    BY <2>1, <2>4, <2>11 DEF TablesInv, TypeOK
  <2>13. \A d \in Used(devices') : \E m \in SubsOf(d, subs') :
           subs'[m].seq = devices'[d].seq /\ subs'[m].lastSeen = devices'[d].lastSeen
    <3> SUFFICES ASSUME NEW d \in Used(devices')
                 PROVE \E m \in SubsOf(d, subs') :
                         subs'[m].seq = devices'[d].seq /\ subs'[m].lastSeen = devices'[d].lastSeen
      OBVIOUS
    <3>1. d \in Used(devices) /\ d \notin S /\ devices'[d] = devices[d]
      BY <2>6
    <3>2. PICK m \in SubsOf(d, subs) : subs[m].seq = devices[d].seq /\ subs[m].lastSeen = devices[d].lastSeen
      BY <3>1 DEF TablesInv, LatestIsLastRecord
    <3>3. m \in Used(subs) /\ m \in Sub /\ subs[m].slot = d
      BY <2>3, <3>2
    <3>4. \A n \in Used(subs) : subs[n].slot = d => subs[n].seq <= devices[d].seq
      BY DEF TablesInv, LatestIsLastRecord
    <3>5. \A n \in Used(subs) : subs[n].slot = d => ~ (subs[n].seq > subs[m].seq)
      BY <2>2, <2>3, <3>1, <3>2, <3>4
    <3>6. subs'[m] # None
      BY <2>1, <3>1, <3>3, <3>5
    <3>7. subs'[m] = subs[m]
      BY <2>1, <3>3, <3>6
    <3> QED BY <2>3, <3>1, <3>2, <3>3, <3>6, <3>7
  <2>14. \A m \in Used(subs') : devices'[subs'[m].slot] = devices[subs[m].slot] /\ devices'[subs'[m].slot] # None
    <3>1. \A m \in Used(subs) : devices[subs[m].slot] # None
      BY DEF TablesInv, TablesAgree
    <3> QED BY <2>1, <2>3, <2>7, <3>1
  <2>15. TablesAgree'
    BY <2>13, <2>14 DEF TablesAgree
  <2>16. NoDuplicates'
    BY <2>4, <2>6, <2>7 DEF TablesInv, NoDuplicates
  <2>17. LatestIsLastRecord'
    <3>1. \A m \in Used(subs) : subs[m].seq <= devices[subs[m].slot].seq
      BY DEF TablesInv, LatestIsLastRecord
    <3>2. \A m \in Used(subs') : subs'[m].seq <= devices'[subs'[m].slot].seq
      BY <2>7, <2>14, <3>1
    <3> QED BY <2>13, <3>2 DEF LatestIsLastRecord
  <2>18. LastRecordedIsNewest'
    <3> SUFFICES ASSUME lastRecorded' # 0
                 PROVE  /\ devices'[lastRecorded'] # None
                        /\ \A d \in Used(devices') : devices'[d].seq <= devices'[lastRecorded'].seq
      BY DEF LastRecordedIsNewest
    <3>1. lastRecorded' = lastRecorded /\ lastRecorded \notin S /\ lastRecorded \in Slot
      BY <2>4 DEF TablesInv, TypeOK
    <3>2. /\ devices[lastRecorded] # None
          /\ \A d \in Used(devices) : devices[d].seq <= devices[lastRecorded].seq
      BY <3>1 DEF TablesInv, LastRecordedIsNewest
    <3>3. devices'[lastRecorded'] = devices[lastRecorded]
      BY <2>1, <3>1
    <3> QED BY <2>6, <3>2, <3>3
  <2>19. SeqsOrdered'
    BY <2>4, <2>6, <2>7 DEF TablesInv, SeqsOrdered
  <2> QED BY <2>11, <2>12, <2>15, <2>16, <2>17, <2>18, <2>19 DEF TablesInv
<1> QED BY <1>1, <1>2

-----------------------------------------------------------------------------
(* The tables agree *)

LEMMA TickKeeps ==
  ASSUME TablesInv, Tick
  PROVE  TablesInv'
<1> USE SignalStoreAssumption
<1>1. UNCHANGED tables /\ UNCHANGED <<pending, seqCounter, lastRecorded>>
  BY DEF Tick, tables
<1>2. /\ now' \in 0..(Wrap - 1) /\ sinceSweep' \in 0..SweepWithin
      /\ age' \in [Slot -> Nat] /\ subAge' \in [Sub -> Nat]
  BY DEF Tick, TablesInv, TypeOK
<1>3. PendingOK'
  BY <1>1 DEF TablesInv, TypeOK, NoDuplicates, PendingOK
<1>4. seqCounter' \in 0..MaxSeq /\ seqCounter <= seqCounter'
  BY <1>1 DEF TablesInv, TypeOK
<1> QED BY <1>1, <1>2, <1>3, <1>4, TablesKept

\* The drops of record().
LEMMA DropKeeps ==
  ASSUME TablesInv, UNCHANGED <<tables, clock, age, subAge>>, lastRecorded' = 0, PendingOK',
         seqCounter' \in 0..MaxSeq, seqCounter <= seqCounter'
  PROVE  TablesInv'
<1>1. /\ now' \in 0..(Wrap - 1) /\ sinceSweep' \in 0..SweepWithin
      /\ age' \in [Slot -> Nat] /\ subAge' \in [Sub -> Nat]
  BY DEF TablesInv, TypeOK, clock
<1> QED BY <1>1, TablesKept

LEMMA NextTables == TablesInv /\ [Next]_vars => TablesInv'
<1> SUFFICES ASSUME TablesInv, [Next]_vars PROVE TablesInv'
  OBVIOUS
<1> USE SignalStoreAssumption
<1>1. seqCounter \in 0..MaxSeq /\ seqCounter <= seqCounter
  BY DEF TablesInv, TypeOK
<1>2. CASE RecordInvalid
  <2>1. UNCHANGED <<tables, clock, age, subAge>> /\ lastRecorded' = 0 /\ seqCounter' = seqCounter /\ pending' = pending
    BY <1>2 DEF RecordInvalid
  <2>2. PendingOK'
    BY <2>1 DEF TablesInv, TypeOK, NoDuplicates, PendingOK
  <2> QED BY <1>1, <2>1, <2>2, DropKeeps
<1>3. ASSUME NEW k \in Key, NEW type \in Type, NEW reads \in SUBSET Field, Record(k, type, reads)
      PROVE  TablesInv'
  <2>1. CASE RecordPending(k)
    <3>1. /\ UNCHANGED <<tables, clock, age, subAge>> /\ lastRecorded' = 0
          /\ seqCounter' \in 0..MaxSeq /\ seqCounter <= seqCounter'
      BY <1>1, <2>1 DEF RecordPending
    <3>2. PendingOK'
      BY <2>1, PendingClaimed
    <3> QED BY <3>1, <3>2, DropKeeps
  <2>2. CASE RecordTooLong(k)
    <3>1. /\ UNCHANGED <<tables, clock, age, subAge>> /\ lastRecorded' = 0
          /\ seqCounter' = seqCounter /\ pending' = PendingAfter(k)
      BY <2>2 DEF RecordTooLong
    <3>2. PendingOK'
      BY <3>1, PendingUsed
    <3> QED BY <1>1, <3>1, <3>2, DropKeeps
  <2>3. CASE RecordRefused(k, type)
    <3>1. /\ UNCHANGED <<clock, age, subAge>> /\ lastRecorded' = 0
          /\ seqCounter' = seqCounter /\ pending' = PendingAfter(k)
      BY <2>3 DEF RecordRefused
    <3>2. UNCHANGED tables
      BY <2>3, RefusedUndoes
    <3>3. PendingOK'
      BY <3>1, PendingUsed
    <3> QED BY <1>1, <3>1, <3>2, <3>3, DropKeeps
  <2>4. CASE RecordStored(k, type, reads)
    BY <2>4, StoredKeeps
  <2> QED BY <1>3, <2>1, <2>2, <2>3, <2>4 DEF Record
<1>4. CASE Tick
  BY <1>4, TickKeeps
<1>5. CASE SweepStale
  BY <1>5, SweepKeeps
<1>6. CASE UNCHANGED vars
  <2>1. UNCHANGED tables /\ UNCHANGED <<pending, seqCounter, lastRecorded, clock, age, subAge>>
    BY <1>6 DEF vars
  <2>2. /\ now' \in 0..(Wrap - 1) /\ sinceSweep' \in 0..SweepWithin
        /\ age' \in [Slot -> Nat] /\ subAge' \in [Sub -> Nat]
    BY <2>1 DEF TablesInv, TypeOK, clock
  <2>3. PendingOK'
    BY <2>1 DEF TablesInv, TypeOK, NoDuplicates, PendingOK
  <2> QED BY <1>1, <2>1, <2>2, <2>3, TablesKept
<1> QED BY <1>2, <1>3, <1>4, <1>5, <1>6 DEF Next

\* What holds of the tables in every reachable state.
LEMMA TablesInvariant == Spec => []TablesInv
BY InitTables, NextTables, PTL DEF Spec

\* No order of messages, drops, evictions and sweeps leaves the tables of
\* signal_store.cpp outside their types.
THEOREM TypeCorrect == Spec => []TypeOK
<1>1. TablesInv => TypeOK
  BY DEF TablesInv
<1> QED BY <1>1, TablesInvariant, PTL

\* `_deviceCount`, kept by hand in claimSlot, record and sweepStale, is the
\* number of devices in the table.
THEOREM CountIsExact == Spec => []CountExact
<1>1. TablesInv => CountExact
  BY DEF TablesInv
<1> QED BY <1>1, TablesInvariant, PTL

\* No device without a message, no message of a slot without a device.
THEOREM TablesAlwaysAgree == Spec => []TablesAgree
<1>1. TablesInv => TablesAgree
  BY DEF TablesInv
<1> QED BY <1>1, TablesInvariant, PTL

\* A key has one slot, a message type of a device one sub.
THEOREM NothingTwice == Spec => []NoDuplicates
<1>1. TablesInv => NoDuplicates
  BY DEF TablesInv
<1> QED BY <1>1, TablesInvariant, PTL

\* latestPayload() is the message recorded last.
THEOREM LatestAlways == Spec => []LatestIsLastRecord
<1>1. TablesInv => LatestIsLastRecord
  BY DEF TablesInv
<1> QED BY <1>1, TablesInvariant, PTL

\* lastRecorded() and device(0) are the same device.
THEOREM LastRecordedAlways == Spec => []LastRecordedIsNewest
<1>1. TablesInv => LastRecordedIsNewest
  BY DEF TablesInv
<1> QED BY <1>1, TablesInvariant, PTL

-----------------------------------------------------------------------------
(* What a step may do to the tables *)

\* The same as TablesInvariant, with the steps of Spec.
LEMMA StepsFromInv == Spec => [][TablesInv /\ Next]_vars
<1>1. TablesInv /\ [Next]_vars => [TablesInv /\ Next]_vars
  OBVIOUS
<1> QED BY <1>1, TablesInvariant, PTL DEF Spec

LEMMA NoTraceStep ==
  ASSUME TablesInv, Next
  PROVE  sinceSweep' >= sinceSweep /\ lastRecorded' = 0 => UNCHANGED tables
<1> USE SignalStoreAssumption
<1>1. CASE RecordInvalid
  BY <1>1 DEF RecordInvalid
<1>2. ASSUME NEW k \in Key, NEW type \in Type, NEW reads \in SUBSET Field, Record(k, type, reads), lastRecorded' = 0
      PROVE  UNCHANGED tables
  <2>1. CASE RecordPending(k)
    BY <2>1 DEF RecordPending
  <2>2. CASE RecordTooLong(k)
    BY <2>2 DEF RecordTooLong
  <2>3. CASE RecordRefused(k, type)
    BY <2>3, RefusedUndoes
  <2>4. CASE RecordStored(k, type, reads)
    <3>1. SlotFor(k) \in Slot
      BY Typed, SlotForClaims DEF TablesInv
    <3>2. lastRecorded' \in 1..DeviceSlots
      BY <2>4, <3>1 DEF RecordStored, Slot
    <3> QED BY <1>2, <3>2
  <2> QED BY <1>2, <2>1, <2>2, <2>3, <2>4 DEF Record
<1>3. CASE Tick
  BY <1>3 DEF Tick, tables
<1>4. ASSUME SweepStale PROVE ~ (sinceSweep' >= sinceSweep)
  BY <1>4 DEF SweepStale, TablesInv, TypeOK
<1> QED BY <1>1, <1>2, <1>3, <1>4 DEF Next

\* A message record() drops, wherever it drops it, leaves both tables and the
\* count as they were.
THEOREM RefusalsHarmless == Spec => RefusalsLeaveNoTrace
<1>1. TablesInv /\ Next => (sinceSweep' >= sinceSweep /\ lastRecorded' = 0 => UNCHANGED tables)
  BY NoTraceStep
<1>2. [TablesInv /\ Next]_vars => [sinceSweep' >= sinceSweep /\ lastRecorded' = 0 => UNCHANGED tables]_vars
  BY <1>1
<1> QED BY <1>2, StepsFromInv, PTL DEF RefusalsLeaveNoTrace

EvictsOldest ==
  \A i \in Used(devices) :
    sinceSweep' >= sinceSweep /\ (devices'[i] = None \/ devices'[i].key # devices[i].key) =>
      /\ Unused(devices) = {}
      /\ \A other \in Slot \ {i} : devices[i].seq < devices[other].seq

LEMMA EvictsOldestStep ==
  ASSUME TablesInv, Next
  PROVE  EvictsOldest
<1> USE SignalStoreAssumption
<1>1. /\ Used(devices) = {d \in Slot : devices[d] # None} /\ Unused(devices) = {d \in Slot : devices[d] = None}
      /\ \A d \in Used(devices) : devices[d].seq \in 1..MaxSeq
  BY DeviceEntries DEF TablesInv, TypeOK
<1>2. ASSUME UNCHANGED tables PROVE EvictsOldest
  BY <1>1, <1>2 DEF tables, EvictsOldest
<1>3. ASSUME NEW k \in Key, NEW type \in Type, NEW reads \in SUBSET Field, Record(k, type, reads)
      PROVE  EvictsOldest
  <2>1. CASE RecordPending(k)
    BY <1>2, <2>1 DEF RecordPending
  <2>2. CASE RecordTooLong(k)
    BY <1>2, <2>2 DEF RecordTooLong
  <2>3. CASE RecordRefused(k, type)
    BY <1>2, <2>3, RefusedUndoes
  <2>4. CASE RecordStored(k, type, reads)
    <3> SUFFICES ASSUME NEW i \in Used(devices), devices'[i] = None \/ devices'[i].key # devices[i].key
                 PROVE  /\ Unused(devices) = {}
                        /\ \A other \in Slot \ {i} : devices[i].seq < devices[other].seq
      BY DEF EvictsOldest
    <3>1. /\ devices'[SlotFor(k)] # None /\ devices'[SlotFor(k)].key = k
          /\ \A d \in Slot \ {SlotFor(k)} : devices'[d] = devices[d]
      BY <2>4, StoredDevice
    <3>2. i = SlotFor(k)
      BY <1>1, <3>1
    <3>3. Evicts(k)
      BY <1>1, <3>1, <3>2, Typed, SlotForClaims DEF TablesInv
    <3>4. Used(devices) = Slot /\ \A d \in Slot : devices[i].seq <= devices[d].seq
      BY <3>2, <3>3, Typed, SlotForClaims DEF TablesInv
    <3>5. \A d \in Slot \ {i} : devices[i].seq # devices[d].seq
      BY <3>4 DEF TablesInv, SeqsOrdered
    <3> QED BY <1>1, <3>4, <3>5
  <2> QED BY <1>3, <2>1, <2>2, <2>3, <2>4 DEF Record
<1>4. CASE RecordInvalid
  BY <1>2, <1>4 DEF RecordInvalid
<1>5. CASE Tick
  BY <1>2, <1>5 DEF Tick
<1>6. CASE SweepStale
  <2>1. ~ (sinceSweep' >= sinceSweep)
    BY <1>6 DEF SweepStale, TablesInv, TypeOK
  <2> QED BY <2>1 DEF EvictsOldest
<1> QED BY <1>3, <1>4, <1>5, <1>6 DEF Next

\* Only a full table evicts, and only the device recorded longest ago.
THEOREM EvictionTakesTheOldest == Spec => OnlyTheOldestIsEvicted
<1>1. TablesInv /\ Next => EvictsOldest
  BY EvictsOldestStep
<1>2. [TablesInv /\ Next]_vars => [EvictsOldest]_vars
  BY <1>1
<1>3. [][EvictsOldest]_vars => OnlyTheOldestIsEvicted
  BY DEF EvictsOldest, OnlyTheOldestIsEvicted
<1> QED BY <1>2, <1>3, StepsFromInv, PTL

-----------------------------------------------------------------------------
(* The clock *)

ElapsedAt(n, since) == IF n >= since THEN n - since ELSE n + Wrap - since

\* The difference of two readings of a wrapping clock counts on, as long as it
\* has not itself wrapped.
LEMMA ElapsedTick ==
  ASSUME NEW n \in 0..(Wrap - 1), NEW since \in 0..(Wrap - 1), ElapsedAt(n, since) + 1 < Wrap
  PROVE  ElapsedAt(IF n = Wrap - 1 THEN 0 ELSE n + 1, since) = ElapsedAt(n, since) + 1
BY SignalStoreAssumption DEF ElapsedAt

\* The store measures silence right: no entry gets so old that millis() comes
\* round to the same reading again.
AgesMeasured ==
  DeviceStale # 0 =>
    /\ \A i \in Used(devices) : /\ age[i] <= DeviceStale + sinceSweep
                                /\ ElapsedAt(now, devices[i].lastSeen) = age[i]
    /\ \A j \in Used(subs) : /\ \/ subAge[j] <= DeviceStale + sinceSweep
                                \/ subAge[j] <= SubStale + sinceSweep
                             /\ ElapsedAt(now, subs[j].lastSeen) = subAge[j]

LEMMA AgesKept ==
  ASSUME TablesInv, AgesMeasured, UNCHANGED <<tables, clock, age, subAge>>
  PROVE  AgesMeasured'
BY DEF AgesMeasured, tables, clock

LEMMA AgesStored ==
  ASSUME TablesInv, AgesMeasured, NEW k \in Key, NEW type \in Type, NEW reads \in SUBSET Field,
         RecordStored(k, type, reads)
  PROVE  AgesMeasured'
<1> USE SignalStoreAssumption
<1> SUFFICES ASSUME DeviceStale # 0
             PROVE  /\ \A d \in Used(devices') : /\ age'[d] <= DeviceStale + sinceSweep'
                                                 /\ ElapsedAt(now', devices'[d].lastSeen) = age'[d]
                    /\ \A m \in Used(subs') : /\ \/ subAge'[m] <= DeviceStale + sinceSweep'
                                                 \/ subAge'[m] <= SubStale + sinceSweep'
                                              /\ ElapsedAt(now', subs'[m].lastSeen) = subAge'[m]
  BY DEF AgesMeasured
<1> DEFINE i == SlotFor(k)
<1>1. PICK j \in Sub :
        /\ subs' \in [Sub -> DeviceSub \cup {None}]
        /\ subs'[j].lastSeen = now
        /\ \A m \in Sub \ {j} : subs'[m] = None \/ subs'[m] = subs[m]
        /\ subAge' = [subAge EXCEPT ![j] = 0]
  BY StoredEffect
<1>2. /\ devices' \in [Slot -> DeviceSlot \cup {None}]
      /\ Used(devices') = Used(devices) \cup {i}
      /\ devices'[i].lastSeen = now
      /\ \A d \in Slot \ {i} : devices'[d] = devices[d]
  BY StoredDevice
<1>3. Used(devices) = {d \in Slot : devices[d] # None} /\ Used(subs) = {m \in Sub : subs[m] # None}
      /\ Used(subs') = {m \in Sub : subs'[m] # None}
  BY <1>1, DeviceEntries, SubEntries DEF TablesInv, TypeOK
<1>4. /\ now' = now /\ sinceSweep' = sinceSweep /\ age' = [age EXCEPT ![i] = 0]
      /\ now \in 0..(Wrap - 1) /\ sinceSweep \in 0..SweepWithin /\ i \in Slot
      /\ age \in [Slot -> Nat] /\ subAge \in [Sub -> Nat]
  BY Typed, SlotForClaims DEF RecordStored, clock, TablesInv, TypeOK
<1>5. ElapsedAt(now, now) = 0
  BY <1>4 DEF ElapsedAt
<1> HIDE DEF i
<1>6. \A d \in Used(devices) : age[d] <= DeviceStale + sinceSweep /\ ElapsedAt(now, devices[d].lastSeen) = age[d]
  BY DEF AgesMeasured
<1>7. \A m \in Used(subs) : /\ subAge[m] <= DeviceStale + sinceSweep \/ subAge[m] <= SubStale + sinceSweep
                            /\ ElapsedAt(now, subs[m].lastSeen) = subAge[m]
  BY DEF AgesMeasured
<1>8. ASSUME NEW d \in Used(devices')
      PROVE  age'[d] <= DeviceStale + sinceSweep' /\ ElapsedAt(now', devices'[d].lastSeen) = age'[d]
  <2>1. CASE d = i
    BY <1>2, <1>4, <1>5, <2>1
  <2>2. CASE d # i
    <3>1. d \in Used(devices) /\ d \in Slot /\ devices'[d] = devices[d] /\ age'[d] = age[d]
      BY <1>2, <1>3, <1>4, <2>2
    <3> QED BY <1>4, <1>6, <3>1
  <2> QED BY <2>1, <2>2
<1>9. ASSUME NEW m \in Used(subs')
      PROVE  /\ subAge'[m] <= DeviceStale + sinceSweep' \/ subAge'[m] <= SubStale + sinceSweep'
             /\ ElapsedAt(now', subs'[m].lastSeen) = subAge'[m]
  <2>1. CASE m = j
    BY <1>1, <1>4, <1>5, <2>1
  <2>2. CASE m # j
    <3>1. m \in Used(subs) /\ m \in Sub /\ subs'[m] = subs[m] /\ subAge'[m] = subAge[m]
      BY <1>1, <1>3, <1>4, <2>2
    <3> QED BY <1>4, <1>7, <3>1
  <2> QED BY <2>1, <2>2
<1> QED BY <1>8, <1>9

LEMMA AgesTick ==
  ASSUME TablesInv, AgesMeasured, Tick
  PROVE  AgesMeasured'
<1> USE SignalStoreAssumption
<1> SUFFICES ASSUME DeviceStale # 0
             PROVE  /\ \A d \in Used(devices') : /\ age'[d] <= DeviceStale + sinceSweep'
                                                 /\ ElapsedAt(now', devices'[d].lastSeen) = age'[d]
                    /\ \A m \in Used(subs') : /\ \/ subAge'[m] <= DeviceStale + sinceSweep'
                                                 \/ subAge'[m] <= SubStale + sinceSweep'
                                              /\ ElapsedAt(now', subs'[m].lastSeen) = subAge'[m]
  BY DEF AgesMeasured
<1>1. /\ devices' = devices /\ subs' = subs /\ sinceSweep' = sinceSweep + 1 /\ sinceSweep < SweepWithin
      /\ now' = IF now = Wrap - 1 THEN 0 ELSE now + 1
      /\ age' = [i \in Slot |-> IF devices[i] # None THEN age[i] + 1 ELSE 0]
      /\ subAge' = [j \in Sub |-> IF subs[j] # None THEN subAge[j] + 1 ELSE 0]
  BY DEF Tick, tables
<1>2. /\ now \in 0..(Wrap - 1) /\ sinceSweep \in 0..SweepWithin /\ age \in [Slot -> Nat] /\ subAge \in [Sub -> Nat]
  BY DEF TablesInv, TypeOK
<1>3. /\ Used(devices) = {d \in Slot : devices[d] # None} /\ Used(subs) = {m \in Sub : subs[m] # None}
      /\ \A d \in Used(devices) : devices[d].lastSeen \in 0..(Wrap - 1)
      /\ \A m \in Used(subs) : subs[m].lastSeen \in 0..(Wrap - 1)
  BY DeviceEntries, SubEntries DEF TablesInv, TypeOK
<1>4. ASSUME NEW d \in Used(devices')
      PROVE  age'[d] <= DeviceStale + sinceSweep' /\ ElapsedAt(now', devices'[d].lastSeen) = age'[d]
  <2>1. d \in Used(devices) /\ d \in Slot /\ devices[d] # None
    BY <1>1, <1>3
  <2>2. age[d] <= DeviceStale + sinceSweep /\ ElapsedAt(now, devices[d].lastSeen) = age[d] /\ age[d] \in Nat
    BY <1>2, <2>1 DEF AgesMeasured
  <2>3. age'[d] = age[d] + 1
    BY <1>1, <2>1
  <2>4. age[d] + 1 < Wrap /\ age'[d] <= DeviceStale + sinceSweep'
    BY <1>1, <1>2, <2>2, <2>3
  <2>5. ElapsedAt(now', devices[d].lastSeen) = age[d] + 1
    BY <1>1, <1>2, <1>3, <2>1, <2>2, <2>4, ElapsedTick
  <2> QED BY <1>1, <2>3, <2>4, <2>5
<1>5. ASSUME NEW m \in Used(subs')
      PROVE  /\ subAge'[m] <= DeviceStale + sinceSweep' \/ subAge'[m] <= SubStale + sinceSweep'
             /\ ElapsedAt(now', subs'[m].lastSeen) = subAge'[m]
  <2>1. m \in Used(subs) /\ m \in Sub /\ subs[m] # None
    BY <1>1, <1>3
  <2>2. /\ subAge[m] <= DeviceStale + sinceSweep \/ subAge[m] <= SubStale + sinceSweep
        /\ ElapsedAt(now, subs[m].lastSeen) = subAge[m] /\ subAge[m] \in Nat
    BY <1>2, <2>1 DEF AgesMeasured
  <2>3. subAge'[m] = subAge[m] + 1
    BY <1>1, <2>1
  <2>4. /\ subAge[m] + 1 < Wrap
        /\ subAge'[m] <= DeviceStale + sinceSweep' \/ subAge'[m] <= SubStale + sinceSweep'
    BY <1>1, <1>2, <2>2, <2>3
  <2>5. ElapsedAt(now', subs[m].lastSeen) = subAge[m] + 1
    BY <1>1, <1>2, <1>3, <2>1, <2>2, <2>4, ElapsedTick
  <2> QED BY <1>1, <2>3, <2>4, <2>5
<1> QED BY <1>4, <1>5

\* A sweep keeps of a device only subs heard within SUB_STALE_MS and its newest
\* one, which is as old as the device.
LEMMA AgesSwept ==
  ASSUME TablesInv, AgesMeasured, SweepStale
  PROVE  AgesMeasured'
<1> USE SignalStoreAssumption
<1> SUFFICES ASSUME DeviceStale # 0
             PROVE  /\ \A d \in Used(devices') : /\ age'[d] <= DeviceStale + sinceSweep'
                                                 /\ ElapsedAt(now', devices'[d].lastSeen) = age'[d]
                    /\ \A m \in Used(subs') : /\ \/ subAge'[m] <= DeviceStale + sinceSweep'
                                                 \/ subAge'[m] <= SubStale + sinceSweep'
                                              /\ ElapsedAt(now', subs'[m].lastSeen) = subAge'[m]
  BY DEF AgesMeasured
<1>1. /\ devices' \in [Slot -> DeviceSlot \cup {None}]
      /\ \A d \in Slot : devices'[d] = IF d \in StaleDevices THEN None ELSE devices[d]
      /\ subs' \in [Sub -> DeviceSub \cup {None}]
      /\ \A m \in Sub : subs'[m] = None \/ (subs'[m] = subs[m] /\ subs[m].slot \notin StaleDevices)
      /\ \A m \in Used(subs) : subs[m].slot \notin StaleDevices /\ subs'[m] # None =>
             \/ ~ (Elapsed(subs[m].lastSeen) > SubStale)
             \/ \A n \in Used(subs) : subs[n].slot = subs[m].slot => ~ (subs[n].seq > subs[m].seq)
  BY SweepEffect
<1>2. /\ now' = now /\ sinceSweep' = 0 /\ age' = age /\ subAge' = subAge
      /\ age \in [Slot -> Nat] /\ subAge \in [Sub -> Nat]
  BY DEF SweepStale, TablesInv, TypeOK
<1>3. /\ Used(devices) = {d \in Slot : devices[d] # None}
      /\ Used(devices') = {d \in Slot : devices'[d] # None}
      /\ \A d \in Used(devices) : devices[d].seq \in 1..MaxSeq
  BY <1>1, DeviceEntries DEF TablesInv, TypeOK
<1>4. /\ Used(subs) = {m \in Sub : subs[m] # None}
      /\ Used(subs') = {m \in Sub : subs'[m] # None}
      /\ \A d : SubsOf(d, subs) = {m \in Sub : subs[m] # None /\ subs[m].slot = d}
      /\ \A m \in Used(subs) : subs[m].seq \in 1..MaxSeq /\ subs[m].slot \in Slot
  BY <1>1, SubEntries DEF TablesInv, TypeOK
<1>5. \A since : Elapsed(since) = ElapsedAt(now, since)
  BY DEF Elapsed, ElapsedAt
<1>6. /\ \A d \in Used(devices) : ElapsedAt(now, devices[d].lastSeen) = age[d]
      /\ \A m \in Used(subs) : ElapsedAt(now, subs[m].lastSeen) = subAge[m]
  BY DEF AgesMeasured
<1>7. \A d \in Used(devices) : d \notin StaleDevices => age[d] <= DeviceStale
  <2>1. ASSUME NEW d \in Used(devices), d \notin StaleDevices PROVE age[d] <= DeviceStale
    <3>1. ~ (Elapsed(devices[d].lastSeen) > DeviceStale)
      BY <2>1 DEF StaleDevices
    <3>2. Elapsed(devices[d].lastSeen) = age[d] /\ age[d] \in Nat
      BY <1>2, <1>3, <1>5, <1>6
    <3> QED BY <3>1, <3>2
  <2> QED BY <2>1
<1>8. ASSUME NEW d \in Used(devices')
      PROVE  age'[d] <= DeviceStale + sinceSweep' /\ ElapsedAt(now', devices'[d].lastSeen) = age'[d]
  <2>1. d \in Used(devices) /\ d \notin StaleDevices /\ devices'[d] = devices[d]
    BY <1>1, <1>3
  <2> QED BY <1>2, <1>3, <1>6, <1>7, <2>1
<1>9. ASSUME NEW m \in Used(subs')
      PROVE  /\ subAge'[m] <= DeviceStale + sinceSweep' \/ subAge'[m] <= SubStale + sinceSweep'
             /\ ElapsedAt(now', subs'[m].lastSeen) = subAge'[m]
  <2>1. m \in Used(subs) /\ m \in Sub /\ subs'[m] = subs[m] /\ subs[m].slot \notin StaleDevices /\ subs'[m] # None
    BY <1>1, <1>4
  <2>2. ElapsedAt(now, subs[m].lastSeen) = subAge[m] /\ subAge[m] \in Nat
    BY <1>2, <1>6, <2>1
  <2>3. CASE ~ (Elapsed(subs[m].lastSeen) > SubStale)
    <3>1. Elapsed(subs[m].lastSeen) = subAge[m]
      BY <1>5, <2>2
    <3>2. subAge[m] <= SubStale
      BY <2>2, <2>3, <3>1
    <3> QED BY <1>2, <2>1, <2>2, <3>2
  <2>4. CASE \A n \in Used(subs) : subs[n].slot = subs[m].slot => ~ (subs[n].seq > subs[m].seq)
    <3> DEFINE d == subs[m].slot
    <3>1. d \in Used(devices) /\ d \in Slot
      BY <1>3, <1>4, <2>1 DEF TablesInv, TablesAgree
    <3>2. PICK n \in SubsOf(d, subs) : subs[n].seq = devices[d].seq /\ subs[n].lastSeen = devices[d].lastSeen
      BY <3>1 DEF TablesInv, LatestIsLastRecord
    <3>3. n \in Used(subs) /\ subs[n].slot = d
      BY <1>4, <3>2
    <3>4. subs[m].seq <= devices[d].seq
      BY <2>1 DEF TablesInv, LatestIsLastRecord
    <3>5. subs[m].seq = subs[n].seq
      BY <1>3, <1>4, <2>1, <2>4, <3>1, <3>2, <3>3, <3>4
    <3>6. m = n
      BY <2>1, <3>3, <3>5 DEF TablesInv, SeqsOrdered
    <3>7. subAge[m] = age[d]
      BY <1>6, <2>2, <3>1, <3>2, <3>6
    <3>8. age[d] <= DeviceStale
      BY <1>7, <2>1, <3>1
    <3> QED BY <1>2, <2>1, <2>2, <3>7, <3>8
  <2> QED BY <1>1, <2>1, <2>3, <2>4
<1> QED BY <1>8, <1>9

LEMMA NextAges == TablesInv /\ AgesMeasured /\ [Next]_vars => AgesMeasured'
<1> SUFFICES ASSUME TablesInv, AgesMeasured, [Next]_vars PROVE AgesMeasured'
  OBVIOUS
<1>1. CASE RecordInvalid
  BY <1>1, AgesKept DEF RecordInvalid
<1>2. ASSUME NEW k \in Key, NEW type \in Type, NEW reads \in SUBSET Field, Record(k, type, reads)
      PROVE  AgesMeasured'
  <2>1. CASE RecordPending(k)
    BY <2>1, AgesKept DEF RecordPending
  <2>2. CASE RecordTooLong(k)
    BY <2>2, AgesKept DEF RecordTooLong
  <2>3. CASE RecordRefused(k, type)
    <3>1. UNCHANGED tables /\ UNCHANGED <<clock, age, subAge>>
      BY <2>3, RefusedUndoes DEF RecordRefused
    <3> QED BY <3>1, AgesKept
  <2>4. CASE RecordStored(k, type, reads)
    BY <2>4, AgesStored
  <2> QED BY <1>2, <2>1, <2>2, <2>3, <2>4 DEF Record
<1>3. CASE Tick
  BY <1>3, AgesTick
<1>4. CASE SweepStale
  BY <1>4, AgesSwept
<1>5. CASE UNCHANGED vars
  BY <1>5, AgesKept DEF vars
<1> QED BY <1>1, <1>2, <1>3, <1>4, <1>5 DEF Next

LEMMA InitAges == Init => AgesMeasured
BY DEF Init, AgesMeasured, Used

LEMMA AgesInvariant == Spec => [](TablesInv /\ AgesMeasured)
<1>1. Init => TablesInv /\ AgesMeasured
  BY InitTables, InitAges
<1>2. TablesInv /\ AgesMeasured /\ [Next]_vars => (TablesInv /\ AgesMeasured)'
  BY NextTables, NextAges
<1> QED BY <1>1, <1>2, PTL DEF Spec

\* No device stays in the table longer than DEVICE_STALE_HOURS and one sweep
\* interval after it was last heard, however often millis() wraps, as long as
\* the two together are less than one turn of it.
THEOREM SilentDevicesLeave == Spec => []SilentDevicesGo
<1>1. TablesInv /\ AgesMeasured => SilentDevicesGo
  <2> SUFFICES ASSUME TablesInv, AgesMeasured, DeviceStale # 0, NEW i \in Used(devices)
               PROVE  age[i] <= DeviceStale + SweepWithin
    BY DEF SilentDevicesGo
  <2>1. i \in Slot
    BY DeviceEntries DEF TablesInv, TypeOK
  <2>2. age[i] \in Nat /\ sinceSweep \in 0..SweepWithin
    BY <2>1 DEF TablesInv, TypeOK
  <2>3. age[i] <= DeviceStale + sinceSweep
    BY DEF AgesMeasured
  <2> QED BY <2>2, <2>3, SignalStoreAssumption
<1> QED BY <1>1, AgesInvariant, PTL

SparesTheHeard ==
  sinceSweep' < sinceSweep =>
    /\ \A i \in Used(devices) : devices'[i] = None => age[i] > DeviceStale
    /\ \A j \in Used(subs) : subs'[j] = None /\ devices'[subs[j].slot] # None => subAge[j] > SubStale

LEMMA SparesStep ==
  ASSUME TablesInv, AgesMeasured, Next
  PROVE  SparesTheHeard
<1> USE SignalStoreAssumption
<1>1. sinceSweep \in 0..SweepWithin
  BY DEF TablesInv, TypeOK
<1>2. ASSUME NEW k \in Key, NEW type \in Type, NEW reads \in SUBSET Field, Record(k, type, reads)
      PROVE  ~ (sinceSweep' < sinceSweep)
  <2>1. UNCHANGED clock
    BY <1>2 DEF Record, RecordPending, RecordTooLong, RecordRefused, RecordStored
  <2> QED BY <1>1, <2>1 DEF clock
<1>3. RecordInvalid \/ Tick => ~ (sinceSweep' < sinceSweep)
  BY <1>1 DEF RecordInvalid, Tick, clock
<1>4. /\ Used(devices) = {d \in Slot : devices[d] # None} /\ Used(subs) = {m \in Sub : subs[m] # None}
      /\ \A m \in Used(subs) : subs[m].slot \in Slot
  BY DeviceEntries, SubEntries DEF TablesInv, TypeOK
<1>5. CASE SweepStale /\ DeviceStale = 0
  <2>1. devices' = devices /\ subs' = subs
    BY <1>5 DEF SweepStale, tables
  <2> QED BY <1>4, <2>1 DEF SparesTheHeard
<1>6. CASE SweepStale /\ DeviceStale # 0
  <2>1. /\ \A d \in Slot : devices'[d] = IF d \in StaleDevices THEN None ELSE devices[d]
        /\ \A m \in Used(subs) : subs[m].slot \notin StaleDevices /\ subs'[m] = None =>
             Elapsed(subs[m].lastSeen) > SubStale
    BY <1>6, SweepEffect
  <2>2. /\ \A d \in Used(devices) : Elapsed(devices[d].lastSeen) = age[d]
        /\ \A m \in Used(subs) : Elapsed(subs[m].lastSeen) = subAge[m]
    BY <1>6 DEF AgesMeasured, Elapsed, ElapsedAt
  <2>3. \A i \in Used(devices) : devices'[i] = None => age[i] > DeviceStale
    BY <1>4, <2>1, <2>2 DEF StaleDevices
  <2>4. ASSUME NEW j \in Used(subs), subs'[j] = None, devices'[subs[j].slot] # None PROVE subAge[j] > SubStale
    BY <1>4, <2>1, <2>2, <2>4
  <2> QED BY <2>3, <2>4 DEF SparesTheHeard
<1> QED BY <1>2, <1>3, <1>5, <1>6 DEF Next, SparesTheHeard

\* A sweep takes nothing that was heard in time, across any number of wraps of
\* millis().
THEOREM SweepSpares == Spec => SweepSparesTheHeard
<1>1. TablesInv /\ AgesMeasured /\ Next => SparesTheHeard
  BY SparesStep
<1>2. TablesInv /\ AgesMeasured /\ [Next]_vars => [SparesTheHeard]_vars
  BY <1>1
<1>3. [][SparesTheHeard]_vars => SweepSparesTheHeard
  BY DEF SparesTheHeard, SweepSparesTheHeard
<1> QED BY <1>2, <1>3, AgesInvariant, PTL DEF Spec

-----------------------------------------------------------------------------
(* Merged readings *)

\* No reading is from a later record than the message that carries it.
ReadingsInOrder ==
  \A j \in Used(subs), f \in Field : subs[j].payload[f] <= subs[j].seq

\* FreshestReadingWins for the whole sub table, deletions included: what a sub
\* carries must stay comparable after any of its siblings is gone.
ReadingsInv == ReadingsInOrder /\ FreshestReadingWins

\* A step that writes no sub keeps it.
LEMMA ReadingsKept ==
  ASSUME TablesInv, ReadingsInv, subs' \in [Sub -> DeviceSub \cup {None}],
         \A m \in Sub : subs'[m] \in {None, subs[m]}
  PROVE  ReadingsInv'
<1>1. Used(subs) = {m \in Sub : subs[m] # None} /\ Used(subs') = {m \in Sub : subs'[m] # None}
  BY SubEntries DEF TablesInv, TypeOK
<1>2. \A m \in Used(subs') : m \in Used(subs) /\ subs'[m] = subs[m]
  BY <1>1
<1>3. ReadingsInOrder'
  BY <1>2 DEF ReadingsInv, ReadingsInOrder
<1>4. FreshestReadingWins'
  BY <1>2 DEF ReadingsInv, FreshestReadingWins
<1> QED BY <1>3, <1>4 DEF ReadingsInv

\* A merged reading is the latest any sibling carries: the donor is the newest
\* carrier, and no older sub carries a later reading than it.
LEMMA ReadingsStored ==
  ASSUME TablesInv, ReadingsInv, NEW k \in Key, NEW type \in Type, NEW reads \in SUBSET Field,
         RecordStored(k, type, reads)
  PROVE  ReadingsInv'
<1> USE SignalStoreAssumption
<1> DEFINE T == TableFor(k)
           i == SlotFor(k)
           seq == seqCounter + 1
<1>1. PICK j \in SubFor(k, type) :
        \E parsed \in MayParse(SubsOf(i, T) \ {j}) : \E kept \in SUBSET Offered(reads, parsed, T) :
          subs' = [T EXCEPT ![j] = [slot |-> i, type |-> type, lastSeen |-> now, seq |-> seq,
                     payload |-> MergeSiblingSubs(reads, kept, parsed, T, seq)]]
  BY DEF RecordStored
<1>21. PICK parsed \in MayParse(SubsOf(i, T) \ {j}) : \E kept \in SUBSET Offered(reads, parsed, T) :
          subs' = [T EXCEPT ![j] = [slot |-> i, type |-> type, lastSeen |-> now, seq |-> seq,
                     payload |-> MergeSiblingSubs(reads, kept, parsed, T, seq)]]
  BY <1>1
<1>2. PICK kept \in SUBSET Offered(reads, parsed, T) :
          subs' = [T EXCEPT ![j] = [slot |-> i, type |-> type, lastSeen |-> now, seq |-> seq,
                     payload |-> MergeSiblingSubs(reads, kept, parsed, T, seq)]]
  BY <1>21
<1> DEFINE payload == MergeSiblingSubs(reads, kept, parsed, T, seq)
           new == [slot |-> i, type |-> type, lastSeen |-> now, seq |-> seq, payload |-> payload]
<1>3. /\ T \in [Sub -> DeviceSub \cup {None}]
      /\ \A m \in Sub : T[m] = IF Evicts(k) /\ subs[m] # None /\ subs[m].slot = i THEN None ELSE subs[m]
  BY Typed, TableForFrees DEF TablesInv
<1>4. j \in Sub
  BY SubForFinds
<1>5. seq \in 1..MaxSeq /\ seqCounter \in Nat /\ i \in Slot /\ now \in 0..(Wrap - 1)
  BY Typed, SlotForClaims DEF RecordStored, TablesInv, TypeOK
<1>6. parsed \in SUBSET Used(T) /\ j \notin parsed /\ (~ArenaMayRunOut => parsed = SubsOf(i, T) \ {j})
  BY <1>21 DEF MayParse, SubsOf
<1>7. payload \in [Field -> 0..MaxSeq]
  <2> HIDE DEF T, seq
  <2> QED BY <1>3, <1>5, <1>6, MergedTyped
<1>8. new \in DeviceSub /\ new # None
  <2>1. new \in DeviceSub
    <3> HIDE DEF payload, T, i, seq
    <3> QED BY <1>5, <1>7 DEF DeviceSub
  <2> QED BY <2>1
<1>9. new.slot = i /\ new.seq = seq /\ new.payload = payload
  OBVIOUS
<1>10. payload = [f \in Field |-> IF f \in reads THEN seq
                                 ELSE IF f \in kept THEN T[Donor(f, parsed, T)].payload[f] ELSE 0]
  BY DEF MergeSiblingSubs
<1>11. subs' = [T EXCEPT ![j] = new]
  BY <1>2
<1> HIDE DEF new, payload, T, i, seq
<1>12. subs' \in [Sub -> DeviceSub \cup {None}] /\ subs'[j] = new /\ \A m \in Sub \ {j} : subs'[m] = T[m]
  BY <1>3, <1>4, <1>8, <1>11
<1>13. /\ Used(subs) = {m \in Sub : subs[m] # None} /\ Used(T) = {m \in Sub : T[m] # None}
       /\ SubsOf(i, T) = {m \in Sub : T[m] # None /\ T[m].slot = i}
       /\ Used(subs') = {m \in Sub : subs'[m] # None}
       /\ \A m \in Used(subs) : subs[m].seq \in 1..MaxSeq /\ subs[m].payload \in [Field -> 0..MaxSeq]
  BY <1>3, <1>12, SubEntries DEF TablesInv, TypeOK
<1>14. \A m \in Used(T) : m \in Used(subs) /\ T[m] = subs[m]
  BY <1>3, <1>13
<1>15. \A m \in Used(subs') : m # j => m \in Used(T) /\ m \in Used(subs) /\ subs'[m] = subs[m]
  BY <1>12, <1>13, <1>14
<1>16. \A m \in Used(subs) : subs[m].seq < seq
  <2>1. \A m \in Used(subs) : subs[m].seq <= devices[subs[m].slot].seq /\ devices[subs[m].slot] # None
                              /\ subs[m].slot \in Slot
    BY SubEntries DEF TablesInv, LatestIsLastRecord, TablesAgree, TypeOK
  <2>2. \A d \in Slot : devices[d] # None => devices[d].seq \in 1..MaxSeq /\ devices[d].seq <= seqCounter
    BY DeviceEntries DEF TablesInv, TypeOK, SeqsOrdered
  <2> QED BY <1>5, <1>13, <2>1, <2>2 DEF seq
<1>17. ASSUME NEW f \in kept
       PROVE  /\ f \in Field /\ f \notin reads
              /\ Donor(f, parsed, T) \in parsed /\ Donor(f, parsed, T) \in Used(subs)
              /\ T[Donor(f, parsed, T)] = subs[Donor(f, parsed, T)]
              /\ payload[f] = subs[Donor(f, parsed, T)].payload[f]
              /\ \A m \in parsed : subs[m].payload[f] # 0 => subs[m].seq <= subs[Donor(f, parsed, T)].seq
  <2>1. f \in Field \ reads /\ \E m \in parsed : T[m].payload[f] # 0
    BY <1>2 DEF Offered
  <2>2. /\ Donor(f, parsed, T) \in parsed
        /\ \A m \in parsed : T[m].payload[f] # 0 => T[m].seq <= T[Donor(f, parsed, T)].seq
    BY <1>3, <1>6, <2>1, DonorIn
  <2>3. \A m \in parsed : m \in Used(subs) /\ T[m] = subs[m]
    BY <1>6, <1>14
  <2> QED BY <1>10, <2>1, <2>2, <2>3
<1>18. ASSUME NEW f \in Field PROVE payload[f] <= seq
  <2>1. CASE f \in kept
    <3> DEFINE d == Donor(f, parsed, T)
    <3>1. d \in Used(subs) /\ payload[f] = subs[d].payload[f]
      BY <1>17, <2>1
    <3> HIDE DEF d
    <3>2. subs[d].payload[f] <= subs[d].seq /\ subs[d].seq < seq
      BY <1>16, <3>1 DEF ReadingsInv, ReadingsInOrder
    <3>3. subs[d].payload[f] \in 0..MaxSeq /\ subs[d].seq \in 1..MaxSeq
      BY <1>13, <3>1
    <3> QED BY <1>5, <3>1, <3>2, <3>3
  <2>2. CASE f \notin kept
    <3>1. payload[f] = seq \/ payload[f] = 0
      BY <1>10, <2>2
    <3> QED BY <1>5, <3>1
  <2> QED BY <2>1, <2>2
<1>19. ReadingsInOrder'
  <2>1. ASSUME NEW m \in Used(subs'), NEW f \in Field PROVE subs'[m].payload[f] <= subs'[m].seq
    <3>1. CASE m = j
      BY <1>9, <1>12, <1>18, <3>1
    <3>2. CASE m # j
      BY <1>15, <3>2 DEF ReadingsInv, ReadingsInOrder
    <3> QED BY <3>1, <3>2
  <2> QED BY <2>1 DEF ReadingsInOrder
<1>20. FreshestReadingWins'
  <2> SUFFICES ASSUME ~ArenaMayRunOut, NEW j1 \in Used(subs'), NEW j2 \in Used(subs'),
                      subs'[j1].slot = subs'[j2].slot, subs'[j1].seq < subs'[j2].seq,
                      NEW f \in Field, subs'[j2].payload[f] # 0
               PROVE  subs'[j1].payload[f] <= subs'[j2].payload[f]
    BY DEF FreshestReadingWins
  <2>1. CASE j1 # j /\ j2 # j
    BY <1>15, <2>1 DEF ReadingsInv, FreshestReadingWins
  <2>2. CASE j1 = j
    <3>1. j2 # j
      BY <1>5, <1>9, <1>12, <2>2
    <3>2. subs[j2].seq < seq /\ subs'[j2] = subs[j2] /\ subs[j2].seq \in Nat
      BY <1>13, <1>15, <1>16, <3>1
    <3> QED BY <1>5, <1>9, <1>12, <2>2, <3>2
  <2>3. CASE j1 # j /\ j2 = j
    <3>1. j1 \in Used(subs) /\ j1 \in Used(T) /\ subs'[j1] = subs[j1] /\ T[j1] = subs[j1]
      BY <1>14, <1>15, <2>3
    <3>2. payload[f] # 0 /\ subs'[j2].payload[f] = payload[f]
      BY <1>9, <1>12, <2>3
    <3>3. j1 \in parsed
      BY <1>6, <1>9, <1>12, <1>13, <2>3, <3>1
    <3>4. subs[j1].payload[f] \in 0..MaxSeq /\ subs[j1].seq \in 1..MaxSeq /\ payload[f] \in 0..MaxSeq
      BY <1>7, <1>13, <3>1
    <3>5. CASE f \in reads
      <4>1. payload[f] = seq
        BY <1>10, <3>5
      <4>2. subs[j1].payload[f] <= subs[j1].seq /\ subs[j1].seq < seq
        BY <1>16, <3>1 DEF ReadingsInv, ReadingsInOrder
      <4> QED BY <1>5, <3>1, <3>2, <3>4, <4>1, <4>2
    <3>6. CASE f \notin reads
      <4>1. f \in kept
        BY <1>10, <3>2, <3>6
      <4> DEFINE d == Donor(f, parsed, T)
      <4>2. /\ d \in parsed /\ d \in Used(subs) /\ T[d] = subs[d] /\ payload[f] = subs[d].payload[f]
            /\ \A m \in parsed : subs[m].payload[f] # 0 => subs[m].seq <= subs[d].seq
        BY <1>17, <4>1
      <4> HIDE DEF d
      <4>3. CASE subs[j1].payload[f] = 0
        BY <3>1, <3>2, <3>4, <4>3
      <4>4. CASE j1 = d
        BY <3>1, <3>2, <3>4, <4>2, <4>4
      <4>5. CASE subs[j1].payload[f] # 0 /\ j1 # d
        <5>1. subs[d].seq \in 1..MaxSeq /\ subs[j1].seq <= subs[d].seq
          BY <1>13, <3>3, <4>2, <4>5
        <5>2. subs[j1].seq # subs[d].seq
          BY <3>1, <4>2, <4>5 DEF TablesInv, SeqsOrdered
        <5>3. subs[j1].seq < subs[d].seq
          BY <3>4, <5>1, <5>2
        <5>4. subs[j1].slot = subs[d].slot
          BY <1>6, <1>13, <3>1, <3>3, <4>2
        <5>5. subs[j1].payload[f] <= subs[d].payload[f]
          BY <3>1, <3>2, <4>2, <5>3, <5>4 DEF ReadingsInv, FreshestReadingWins
        <5> QED BY <3>1, <3>2, <4>2, <5>5
      <4> QED BY <4>3, <4>4, <4>5
    <3> QED BY <3>5, <3>6
  <2> QED BY <2>1, <2>2, <2>3
<1> QED BY <1>19, <1>20 DEF ReadingsInv

LEMMA NextReadings == TablesInv /\ ReadingsInv /\ [Next]_vars => ReadingsInv'
<1> SUFFICES ASSUME TablesInv, ReadingsInv, [Next]_vars PROVE ReadingsInv'
  OBVIOUS
<1>1. ASSUME subs' = subs PROVE ReadingsInv'
  BY <1>1, ReadingsKept DEF TablesInv, TypeOK
<1>2. CASE RecordInvalid
  BY <1>1, <1>2 DEF RecordInvalid, tables
<1>3. ASSUME NEW k \in Key, NEW type \in Type, NEW reads \in SUBSET Field, Record(k, type, reads)
      PROVE  ReadingsInv'
  <2>1. CASE RecordPending(k)
    BY <1>1, <2>1 DEF RecordPending, tables
  <2>2. CASE RecordTooLong(k)
    BY <1>1, <2>2 DEF RecordTooLong, tables
  <2>3. CASE RecordRefused(k, type)
    BY <1>1, <2>3, RefusedUndoes DEF tables
  <2>4. CASE RecordStored(k, type, reads)
    BY <2>4, ReadingsStored
  <2> QED BY <1>3, <2>1, <2>2, <2>3, <2>4 DEF Record
<1>4. CASE Tick
  BY <1>1, <1>4 DEF Tick, tables
<1>5. CASE SweepStale /\ DeviceStale = 0
  BY <1>1, <1>5 DEF SweepStale, tables
<1>6. CASE SweepStale /\ DeviceStale # 0
  BY <1>6, SweepEffect, ReadingsKept
<1>7. CASE UNCHANGED vars
  BY <1>1, <1>7 DEF vars, tables
<1> QED BY <1>2, <1>3, <1>4, <1>5, <1>6, <1>7 DEF Next

LEMMA InitReadings == Init => ReadingsInv
BY DEF Init, ReadingsInv, ReadingsInOrder, FreshestReadingWins, Used

\* The merge of sibling messages never puts an older reading in the place of a
\* newer one, whatever was cut, swept or evicted before, as long as every
\* sibling can be parsed.
THEOREM FreshestAlwaysWins == Spec => []FreshestReadingWins
<1>1. Init => TablesInv /\ ReadingsInv
  BY InitTables, InitReadings
<1>2. TablesInv /\ ReadingsInv /\ [Next]_vars => (TablesInv /\ ReadingsInv)'
  BY NextTables, NextReadings
<1>3. TablesInv /\ ReadingsInv => FreshestReadingWins
  BY DEF ReadingsInv
<1> QED BY <1>1, <1>2, <1>3, PTL DEF Spec

-----------------------------------------------------------------------------
(* The table of frames of SubFrames.tla, which is all the event stream knows
   of the store: every record and every sweep is a step of that table, and
   nothing else changes what is read from it. *)

\* What subAt, slotAt and subPayload give for an entry, in one state.
ReadOf(D, T) == [j \in Sub |-> IF T[j] = None THEN None ELSE [topic |-> D[T[j].slot].key, seq |-> T[j].seq]]

\* The entries that are read are those that are used.
LEMMA ReadEntries ==
  ASSUME NEW D \in [Slot -> DeviceSlot \cup {None}], NEW T \in [Sub -> DeviceSub \cup {None}],
         \A j \in Used(T) : D[T[j].slot] # None
  PROVE  /\ ReadOf(D, T) \in [Sub -> Frames!SubFrame \cup {None}]
         /\ \A j \in Sub : ReadOf(D, T)[j] = None <=> T[j] = None
         /\ Frames!Held(ReadOf(D, T)) = Used(T)
         /\ \A j \in Used(T) : /\ ReadOf(D, T)[j].topic = D[T[j].slot].key
                               /\ ReadOf(D, T)[j].seq = T[j].seq
         /\ \A key : Frames!FramesOf(key, ReadOf(D, T)) = {j \in Used(T) : D[T[j].slot].key = key}
<1> DEFINE R == ReadOf(D, T)
           read(j) == [topic |-> D[T[j].slot].key, seq |-> T[j].seq]
<1>1. /\ Used(T) = {j \in Sub : T[j] # None}
      /\ \A j \in Used(T) : T[j].slot \in Slot /\ T[j].seq \in 1..MaxSeq
  BY SubEntries
<1>2. \A i \in Slot : D[i] # None => D[i].key \in Key
  BY DeviceEntries
<1>3. \A j \in Used(T) : read(j) \in Frames!SubFrame
  BY <1>1, <1>2 DEF Frames!SubFrame
<1>4. \A j \in Used(T) : read(j) # None
  BY <1>3, FrameAssumption
<1>5. \A j \in Used(T) : read(j).topic = D[T[j].slot].key /\ read(j).seq = T[j].seq
  OBVIOUS
<1>6. R = [j \in Sub |-> IF j \in Used(T) THEN read(j) ELSE None]
  BY <1>1 DEF ReadOf
<1> HIDE DEF R, read
<1>7. R \in [Sub -> Frames!SubFrame \cup {None}] /\ DOMAIN R = Sub
  BY <1>3, <1>6
<1>8. \A j \in Sub : (R[j] = None <=> T[j] = None) /\ (j \in Used(T) => R[j] = read(j))
  BY <1>1, <1>4, <1>6
<1>9. Frames!Held(R) = Used(T)
  BY <1>1, <1>7, <1>8 DEF Frames!Held
<1>10. \A j \in Used(T) : R[j].topic = D[T[j].slot].key /\ R[j].seq = T[j].seq
  BY <1>1, <1>5, <1>8
<1>11. \A key : Frames!FramesOf(key, R) = {j \in Used(T) : D[T[j].slot].key = key}
  BY <1>9, <1>10 DEF Frames!FramesOf
<1> QED BY <1>7, <1>8, <1>9, <1>10, <1>11 DEF R

LEMMA ReadSubsIs == ReadSubs = ReadOf(devices, subs)
BY DEF ReadSubs, ReadOf

\* What the lemma says of the tables of a state of the store.
LEMMA ReadNow ==
  ASSUME TablesInv
  PROVE  /\ ReadSubs \in [Sub -> Frames!SubFrame \cup {None}]
         /\ \A j \in Sub : ReadSubs[j] = None <=> subs[j] = None
         /\ Frames!Held(ReadSubs) = Used(subs)
         /\ \A j \in Used(subs) : /\ ReadSubs[j].topic = devices[subs[j].slot].key
                                  /\ ReadSubs[j].seq = subs[j].seq
         /\ \A key : Frames!FramesOf(key, ReadSubs) = {j \in Used(subs) : devices[subs[j].slot].key = key}
         /\ Used(subs) = {j \in Sub : subs[j] # None}
         /\ \A j \in Used(subs) : subs[j].slot \in Used(devices) /\ subs[j].slot \in Slot /\ subs[j].seq \in 1..MaxSeq
         /\ \A d \in Used(devices) : devices[d].key \in Key /\ devices[d].seq \in 1..MaxSeq
         /\ \A d1, d2 \in Used(devices) : devices[d1].key = devices[d2].key => d1 = d2
<1>1. devices \in [Slot -> DeviceSlot \cup {None}] /\ subs \in [Sub -> DeviceSub \cup {None}]
  BY DEF TablesInv, TypeOK
<1>2. \A j \in Used(subs) : devices[subs[j].slot] # None
  BY DEF TablesInv, TablesAgree
<1>3. Used(devices) = {d \in Slot : devices[d] # None} /\ \A d \in Used(devices) : devices[d].key \in Key /\ devices[d].seq \in 1..MaxSeq
  BY <1>1, DeviceEntries
<1>4. Used(subs) = {j \in Sub : subs[j] # None} /\ \A j \in Used(subs) : subs[j].slot \in Slot /\ subs[j].seq \in 1..MaxSeq
  BY <1>1, SubEntries
<1>5. \A d1, d2 \in Used(devices) : devices[d1].key = devices[d2].key => d1 = d2
  BY DEF TablesInv, NoDuplicates
<1> QED BY <1>1, <1>2, <1>3, <1>4, <1>5, ReadEntries, ReadSubsIs

-----------------------------------------------------------------------------
(* The steps *)

LEMMA InitIsInit == Init => Frames!SubsInit
BY DEF Init, Frames!SubsInit, Frames!Sub, Sub, ReadSubs

LEMMA SameTablesSameFrames == UNCHANGED tables => UNCHANGED ReadSubs
BY DEF tables, ReadSubs

\* A stored message is a new frame of its device; the device evicted for it
\* loses all of its own.
LEMMA StoredIsStore ==
  ASSUME TablesInv, NEW k \in Key, NEW type \in Type, NEW reads \in SUBSET Field, RecordStored(k, type, reads)
  PROVE  Frames!SubsNext
<1> DEFINE i == SlotFor(k)
           T == TableFor(k)
           seq == seqCounter + 1
           gone == IF Evicts(k) THEN Frames!FramesOf(devices[i].key, ReadSubs) ELSE {}
<1>1. PICK j \in SubFor(k, type), payload \in [Field -> 0..MaxSeq] :
        subs' = [T EXCEPT ![j] = [slot |-> i, type |-> type, lastSeen |-> now, seq |-> seq, payload |-> payload]]
  BY Stored
<1> DEFINE new == [slot |-> i, type |-> type, lastSeen |-> now, seq |-> seq, payload |-> payload]
<1>2. /\ T \in [Sub -> DeviceSub \cup {None}]
      /\ \A m \in Sub : T[m] = IF Evicts(k) /\ subs[m] # None /\ subs[m].slot = i THEN None ELSE subs[m]
  BY Typed, TableForFrees DEF TablesInv
<1>3. j \in Sub /\ (T[j] = None \/ T[j].slot = i)
  BY SubForFinds
<1>4. /\ i \in Slot
      /\ ~IsNew(k) => i \in Used(devices) /\ devices[i].key = k
      /\ IsNew(k) => \A d \in Used(devices) : devices[d].key # k
      /\ IsNew(k) /\ ~Evicts(k) => devices[i] = None
      /\ Evicts(k) => IsNew(k) /\ Used(devices) = Slot
  BY Typed, SlotForClaims DEF TablesInv, Evicts
<1>5. /\ devices'[i].key = k
      /\ \A d \in Slot \ {i} : devices'[d] = devices[d]
  BY StoredDevice
<1>6. seq \in 1..MaxSeq /\ seqCounter \in Nat
  BY SignalStoreAssumption DEF RecordStored, TablesInv, TypeOK
<1>7. new.slot = i /\ new.seq = seq
  OBVIOUS
<1>8. new # None
  <2>1. now \in 0..(Wrap - 1)
    BY DEF TablesInv, TypeOK
  <2>2. new \in DeviceSub
    <3> HIDE DEF i, T, seq
    <3> QED BY <1>4, <1>6, <2>1 DEF DeviceSub
  <2> HIDE DEF new
  <2> QED BY <2>2, SignalStoreAssumption
<1>9. subs'[j] = new /\ \A m \in Sub \ {j} : subs'[m] = T[m]
  BY <1>1, <1>2, <1>3
<1>10. subs'[j] # None
  BY <1>3, <1>9, <1>8
<1> HIDE DEF i, T, new
<1>11. gone = {m \in Sub : Evicts(k) /\ subs[m] # None /\ subs[m].slot = i}
  BY <1>4, ReadNow
<1>12. gone \in {{}} \cup {Frames!FramesOf(other, ReadSubs) : other \in Key \ {k}}
  <2>1. Evicts(k) => devices[i].key \in Key \ {k}
    BY <1>4, ReadNow
  <2> QED BY <2>1
<1> HIDE DEF gone
<1> DEFINE W == Frames!Without(gone)
<1>13. /\ W = [m \in Sub |-> IF m \in gone THEN None ELSE ReadSubs[m]]
       /\ DOMAIN W = Sub
  BY DEF Frames!Without, Frames!Sub, Sub
<1>14. \A m \in Sub : T[m] = IF m \in gone THEN None ELSE subs[m]
  BY <1>2, <1>11
<1> HIDE DEF W
<1>15. \A m \in Sub : W[m] = None <=> T[m] = None
  BY <1>13, <1>14, ReadNow
<1>16. j \in Frames!Held(W) => ReadSubs[j].topic = k
  <2> SUFFICES ASSUME j \in Frames!Held(W) PROVE ReadSubs[j].topic = k
    OBVIOUS
  <2>1. W[j] # None
    BY DEF Frames!Held
  <2>2. T[j] # None /\ T[j] = subs[j] /\ j \notin gone
    BY <1>3, <1>13, <1>14, <1>15, <2>1
  <2>3. j \in Used(subs) /\ subs[j].slot = i /\ i \in Used(devices)
    BY <1>3, <2>2, ReadNow
  <2>4. ~Evicts(k)
    BY <1>3, <1>11, <2>2, <2>3
  <2>5. i \in Slot /\ devices[i] # None
    BY <1>4, <2>3 DEF Used
  <2>6. ~IsNew(k)
    BY <1>4, <2>4, <2>5
  <2> QED BY <1>4, <2>3, <2>6, ReadNow
<1>17. ReadSubs' = [W EXCEPT ![j] = [topic |-> k, seq |-> seq]]
  <2>1. ReadSubs' = [m \in Sub |-> IF subs'[m] = None THEN None
                                   ELSE [topic |-> devices'[subs'[m].slot].key, seq |-> subs'[m].seq]]
    BY DEF ReadSubs
  <2>2. ReadSubs'[j] = [topic |-> k, seq |-> seq]
    BY <1>3, <1>5, <1>7, <1>9, <1>10, <2>1
  <2>3. ASSUME NEW m \in Sub \ {j} PROVE ReadSubs'[m] = W[m]
    <3>1. CASE T[m] = None
      BY <1>9, <1>15, <2>1, <3>1
    <3>2. CASE T[m] # None
      <4>1. subs'[m] = subs[m] /\ m \notin gone /\ m \in Used(subs) /\ W[m] = ReadSubs[m]
        BY <1>9, <1>13, <1>14, <3>2, ReadNow
      <4>2. ReadSubs[m] = [topic |-> devices[subs[m].slot].key, seq |-> subs[m].seq]
        BY <4>1, ReadNow DEF ReadSubs
      <4>3. ReadSubs'[m] = [topic |-> devices'[subs[m].slot].key, seq |-> subs[m].seq]
        BY <1>9, <2>1, <3>2, <4>1
      <4>4. subs[m].slot \in Used(devices) /\ subs[m].slot \in Slot
        BY <4>1, ReadNow
      <4>5. devices'[subs[m].slot].key = devices[subs[m].slot].key
        <5>1. CASE subs[m].slot # i
          BY <1>5, <4>4, <5>1
        <5>2. CASE subs[m].slot = i
          <6>1. ~Evicts(k) /\ devices[i] # None
            BY <1>11, <4>1, <4>4, <5>2, ReadNow DEF Used
          <6>2. ~IsNew(k)
            BY <1>4, <6>1
          <6> QED BY <1>4, <1>5, <5>2, <6>2
        <5> QED BY <5>1, <5>2
      <4> QED BY <4>1, <4>2, <4>3, <4>5
    <3> QED BY <3>1, <3>2
  <2> QED BY <1>3, <1>13, <2>1, <2>2, <2>3
<1>18. \A m \in Frames!Held(ReadSubs) : ReadSubs[m].seq < seq
  <2> SUFFICES ASSUME NEW m \in Used(subs) PROVE subs[m].seq < seq
    BY ReadNow
  <2>1. subs[m].seq <= devices[subs[m].slot].seq /\ devices[subs[m].slot].seq <= seqCounter
    BY ReadNow DEF TablesInv, LatestIsLastRecord, SeqsOrdered
  <2>2. subs[m].seq \in 1..MaxSeq /\ devices[subs[m].slot].seq \in 1..MaxSeq
    BY ReadNow
  <2> QED BY <1>6, <2>1, <2>2, SignalStoreAssumption DEF seq
<1>19. ReadSubs'[j].topic = k /\ ReadSubs'[j].seq = seq /\ ReadSubs'[j] \in Frames!SubFrame
  <2>1. ReadSubs'[j] = [topic |-> k, seq |-> seq]
    BY <1>3, <1>13, <1>17
  <2> HIDE DEF seq
  <2> QED BY <1>6, <2>1 DEF Frames!SubFrame
<1>20. Frames!StoreFrame(k, j, seq)
  BY <1>12, <1>16, <1>17, <1>18 DEF Frames!StoreFrame, W
<1> QED BY <1>3, <1>19, <1>20 DEF Frames!SubsNext, Frames!Sub, Sub

\* A sweep keeps the newest frame of every device it keeps.
LEMMA SweepIsSweep ==
  ASSUME TablesInv, SweepStale, DeviceStale # 0
  PROVE  Frames!SubsNext
<1> DEFINE gone == {m \in Used(subs) : subs'[m] = None}
<1>1. /\ \A d \in Slot : devices'[d] = IF d \in StaleDevices THEN None ELSE devices[d]
      /\ \A m \in Sub : \/ subs'[m] = None
                        \/ subs'[m] = subs[m] /\ subs[m].slot \notin StaleDevices
      /\ \A m \in Used(subs) : subs[m].slot \notin StaleDevices /\ subs'[m] = None =>
           \E n \in Used(subs) : subs[n].slot = subs[m].slot /\ subs[n].seq > subs[m].seq
  BY SweepEffect
<1>2. Frames!Without(gone) = [m \in Sub |-> IF m \in gone THEN None ELSE ReadSubs[m]]
  BY DEF Frames!Without, Frames!Sub, Sub
<1>3. ReadSubs' = Frames!Without(gone)
  <2>1. ReadSubs' = [m \in Sub |-> IF subs'[m] = None THEN None
                                   ELSE [topic |-> devices'[subs'[m].slot].key, seq |-> subs'[m].seq]]
    BY DEF ReadSubs
  <2>2. ASSUME NEW m \in Sub PROVE ReadSubs'[m] = IF m \in gone THEN None ELSE ReadSubs[m]
    <3>1. CASE subs'[m] = None
      BY <2>1, <3>1, ReadNow
    <3>2. CASE subs'[m] # None
      <4>1. subs'[m] = subs[m] /\ m \in Used(subs) /\ m \notin gone /\ subs[m].slot \notin StaleDevices
        BY <1>1, <3>2, ReadNow
      <4>2. devices'[subs[m].slot] = devices[subs[m].slot]
        BY <1>1, <4>1, ReadNow
      <4> QED BY <2>1, <3>2, <4>1, <4>2 DEF ReadSubs
    <3> QED BY <3>1, <3>2
  <2> QED BY <1>2, <2>1, <2>2
<1>4. ASSUME NEW k \in Key, Frames!FramesOf(k, ReadSubs) # {}
      PROVE  \/ Frames!FramesOf(k, ReadSubs) \subseteq gone
             \/ Frames!LatestSub(k, ReadSubs) \notin gone
  <2> DEFINE F == Frames!FramesOf(k, ReadSubs)
             L == Frames!LatestSub(k, ReadSubs)
  <2>1. PICK m \in F : TRUE
    BY <1>4
  <2> DEFINE d == subs[m].slot
  <2>2. m \in Used(subs) /\ devices[d].key = k /\ d \in Used(devices)
    BY <2>1, ReadNow
  <2>3. F = {j \in Used(subs) : subs[j].slot = d}
    BY <2>2, ReadNow
  <2> HIDE DEF d
  <2>4. CASE d \in StaleDevices
    <3>1. \A j \in F : j \in Used(subs) /\ j \in Sub /\ subs[j].slot \in StaleDevices
      BY <2>3, <2>4, ReadNow
    <3>2. \A j \in F : subs'[j] = None
      BY <1>1, <2>3, <3>1
    <3> QED BY <3>1, <3>2
  <2>5. CASE d \notin StaleDevices
    <3>1. PICK j \in Used(subs) : subs[j].slot = d /\ subs[j].seq = devices[d].seq
      BY <2>2 DEF TablesInv, LatestIsLastRecord, SubsOf
    <3>2. \A n \in F : subs[n].seq <= subs[j].seq
      BY <2>3, <3>1 DEF TablesInv, LatestIsLastRecord
    <3>3. j \in F /\ \A n \in F : ReadSubs[n].seq <= ReadSubs[j].seq
      BY <2>3, <3>1, <3>2, ReadNow
    <3>4. L \in F /\ \A n \in F : ReadSubs[n].seq <= ReadSubs[L].seq
      BY <3>3 DEF Frames!LatestSub
    <3> HIDE DEF F, L
    <3>5. L \in Used(subs) /\ subs[L].slot = d /\ \A n \in Used(subs) : subs[n].slot = d => subs[n].seq <= subs[L].seq
      BY <2>3, <3>4, ReadNow
    <3>6. ASSUME L \in gone PROVE FALSE
      <4>1. PICK n \in Used(subs) : subs[n].slot = d /\ subs[n].seq > subs[L].seq
        BY <1>1, <2>5, <3>5, <3>6
      <4>2. subs[n].seq \in 1..MaxSeq /\ subs[L].seq \in 1..MaxSeq /\ subs[n].seq <= subs[L].seq
        BY <3>5, <4>1, ReadNow
      <4> QED BY <4>1, <4>2, SignalStoreAssumption
    <3> QED BY <3>6 DEF L
  <2> QED BY <2>4, <2>5
<1>5. gone \in SUBSET Frames!Held(ReadSubs)
  BY ReadNow
<1> HIDE DEF gone
<1> QED BY <1>3, <1>4, <1>5 DEF Frames!SubsNext, Frames!SweepFrames

LEMMA NextIsNext ==
  ASSUME TablesInv, Next
  PROVE  Frames!SubsNext \/ UNCHANGED ReadSubs
<1>1. CASE RecordInvalid
  BY <1>1, SameTablesSameFrames DEF RecordInvalid
<1>2. ASSUME NEW k \in Key, NEW type \in Type, NEW reads \in SUBSET Field, Record(k, type, reads)
      PROVE  Frames!SubsNext \/ UNCHANGED ReadSubs
  <2>1. CASE RecordPending(k)
    BY <2>1, SameTablesSameFrames DEF RecordPending
  <2>2. CASE RecordTooLong(k)
    BY <2>2, SameTablesSameFrames DEF RecordTooLong
  <2>3. CASE RecordRefused(k, type)
    BY <2>3, RefusedUndoes, SameTablesSameFrames
  <2>4. CASE RecordStored(k, type, reads)
    BY <2>4, StoredIsStore
  <2> QED BY <1>2, <2>1, <2>2, <2>3, <2>4 DEF Record
<1>3. CASE Tick
  BY <1>3, SameTablesSameFrames DEF Tick
<1>4. CASE SweepStale /\ DeviceStale = 0
  BY <1>4, SameTablesSameFrames DEF SweepStale, tables
<1>5. CASE SweepStale /\ DeviceStale # 0
  BY <1>5, SweepIsSweep
<1> QED BY <1>1, <1>2, <1>3, <1>4, <1>5 DEF Next

\* All that the event stream relies on of the store: the index of a frame is
\* its own for as long as it is kept, a new frame displaces another of its own
\* device or every frame of one other device, and a sweep leaves no kept
\* device without its newest.  EventReplay.tla is checked against this table.
THEOREM StoreGivesFrames == Spec => ImplementsSubFrames
<1>1. TablesInv /\ [Next]_vars => [Frames!SubsNext]_ReadSubs
  <2> SUFFICES ASSUME TablesInv, [Next]_vars PROVE [Frames!SubsNext]_ReadSubs
    OBVIOUS
  <2>1. CASE Next
    BY <2>1, NextIsNext
  <2>2. CASE UNCHANGED vars
    BY <2>2, SameTablesSameFrames DEF vars
  <2> QED BY <2>1, <2>2
<1> QED BY <1>1, InitIsInit, TablesInvariant, PTL DEF Spec, ImplementsSubFrames, Frames!SubsSpec
=============================================================================
