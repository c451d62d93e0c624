----------------------------- MODULE CardProofs -----------------------------
(***************************************************************************)
(* Proofs about the arrangement of the dashboard's cards, for any cards,   *)
(* sources, slots, templates and gestures.                                 *)
(***************************************************************************)
EXTENDS CardLayout, SubsequenceProofs

\* What store.js keeps in three collections says the same thing.
Agrees(l) == IsInjective(l.order) /\ ToSet(l.order) = CardsOf(l) /\ l.hidden \subseteq CardsOf(l)

ArrangementOK ==
  /\ layout \in Layout /\ Agrees(layout)
  /\ stored \in Layout \cup {Nothing} /\ (stored # Nothing => Agrees(stored))
  /\ broken \in BOOLEAN

\* trim and ensureCard: each device once, and with a card.
DevicesOK == devices \in Seq(Card) /\ IsInjective(devices) /\ ToSet(devices) \subseteq CardsOf(layout)

\* The auto-apply latch is never on again once the arrangement is the visitor's.
SitesOK ==
  /\ sources \in Seq(Base)
  /\ auto \in [on : BOOLEAN, template : Template \cup {Nothing}, matched : Nat]
  /\ layouts \in [Base -> Template \cup {Nothing}] /\ posting \in Template \cup {Nothing}
  /\ mine \in BOOLEAN /\ (mine => ~auto.on)

HandsOK ==
  /\ drag \in [key : Card, field : BOOLEAN, finger : Finger, before : Card \cup {EndOfGrid, Nothing}] \cup {Nothing}
  /\ resize \in [key : Card, finger : Finger] \cup {Nothing}
  /\ edits \in 0..MaxEdits + 1 /\ dismissed \subseteq Card

\* The type and the agreement of the collections, with what keeps them: the
\* stored copy agrees as well, and no device is listed twice.
CardsInv == ArrangementOK /\ DevicesOK /\ SitesOK /\ HandsOK

-----------------------------------------------------------------------------
(* Records *)

LEMMA LayoutParts ==
  ASSUME NEW l \in Layout
  PROVE  /\ l.grid \in Look /\ l.order \in Seq(Card) /\ l.hidden \subseteq Card
         /\ CardsOf(l) \subseteq Card /\ l.look \in [CardsOf(l) -> Look]
         /\ l = [grid |-> l.grid, order |-> l.order, hidden |-> l.hidden, look |-> l.look]
         /\ \A o : [l EXCEPT !.order = o] = [grid |-> l.grid, order |-> o, hidden |-> l.hidden, look |-> l.look]
<1>1. l \in [grid : Look, order : Seq(Card), hidden : SUBSET Card, look : UNION {[S -> Look] : S \in SUBSET Card}]
  BY DEF Layout
<1> HIDE DEF Look
<1>2. PICK S \in SUBSET Card : l.look \in [S -> Look]
  BY <1>1
<1>3. /\ l = [grid |-> l.grid, order |-> l.order, hidden |-> l.hidden, look |-> l.look]
      /\ \A o : [l EXCEPT !.order = o] = [grid |-> l.grid, order |-> o, hidden |-> l.hidden, look |-> l.look]
  BY <1>1
<1>4. /\ l.grid \in Look /\ l.order \in Seq(Card) /\ l.hidden \subseteq Card
      /\ CardsOf(l) \subseteq Card /\ l.look \in [CardsOf(l) -> Look]
  BY <1>1, <1>2 DEF CardsOf
<1> QED BY <1>3, <1>4

LEMMA LayoutMade ==
  ASSUME NEW g \in Look, NEW o \in Seq(Card), NEW h \in SUBSET Card, NEW S \in SUBSET Card, NEW f \in [S -> Look]
  PROVE  [grid |-> g, order |-> o, hidden |-> h, look |-> f] \in Layout
<1>1. f \in UNION {[U -> Look] : U \in SUBSET Card}
  OBVIOUS
<1> HIDE DEF Look
<1> QED BY <1>1 DEF Layout

LEMMA TemplateParts ==
  ASSUME NEW t \in Template
  PROVE  /\ t.grid \in Look /\ t.order \in Seq(Slot) /\ t.hides \subseteq Slot
         /\ t.look \in [DOMAIN t.look -> Look]
<1>1. t \in [grid : Look, order : Seq(Slot), look : UNION {[S -> Look] : S \in SUBSET Slot}, hides : SUBSET Slot]
  BY DEF Template
<1> HIDE DEF Look
<1>2. PICK S \in SUBSET Slot : t.look \in [S -> Look]
  BY <1>1
<1> QED BY <1>1, <1>2

LEMMA BlankIsLayout == BlankLayout \in Layout /\ Agrees(BlankLayout) /\ CardsOf(BlankLayout) = {}
<1>1. [k \in {} |-> "first"] \in [{} -> Look] /\ "first" \in Look /\ {} \in SUBSET Card
  BY DEF Look
<1>2. <<>> \in Seq(Card)
  BY EmptySeq
<1>3. BlankLayout \in Layout
  BY <1>1, <1>2, LayoutMade DEF BlankLayout
<1>4. /\ CardsOf(BlankLayout) = {} /\ BlankLayout.order = <<>> /\ BlankLayout.hidden = {}
  BY DEF BlankLayout, CardsOf
<1>5. ToSet(<<>>) = {} /\ IsInjective(<<>>)
  BY DEF ToSet, IsInjective
<1> QED BY <1>3, <1>4, <1>5 DEF Agrees

-----------------------------------------------------------------------------
(* store.js *)

\* A prune drops nothing of a device that is known, and leaves the three
\* collections agreed even when a card or a visibility had no place in the order.
LEMMA PrunedAgrees ==
  ASSUME NEW l \in Layout, NEW devs, IsInjective(l.order), ToSet(l.order) \subseteq CardsOf(l)
  PROVE  /\ Pruned(l, devs) \in Layout /\ Agrees(Pruned(l, devs))
         /\ CardsOf(Pruned(l, devs)) = Kept(l, devs)
         /\ ToSet(devs) \cap ToSet(l.order) \subseteq CardsOf(Pruned(l, devs))
<1> DEFINE keep == Kept(l, devs)
           p == Pruned(l, devs)
<1>1. keep \subseteq ToSet(l.order) /\ ToSet(devs) \cap ToSet(l.order) \subseteq keep
  BY DEF Kept
<1>2. /\ l.grid \in Look /\ l.order \in Seq(Card) /\ l.hidden \subseteq Card /\ CardsOf(l) \subseteq Card
      /\ l.look \in [CardsOf(l) -> Look]
      /\ l = [grid |-> l.grid, order |-> l.order, hidden |-> l.hidden, look |-> l.look]
  BY LayoutParts
<1> HIDE DEF keep
<1>3. CardsOf(l) \cap keep = keep
  BY <1>1
<1>4. p = [grid |-> l.grid, order |-> Within(l.order, keep), hidden |-> l.hidden \cap keep,
           look |-> [k \in keep |-> l.look[k]]]
  <2>1. p = [grid |-> l.grid, order |-> Within(l.order, keep), hidden |-> l.hidden \cap keep,
             look |-> [k \in CardsOf(l) \cap keep |-> l.look[k]]]
    BY DEF Pruned, keep
  <2> HIDE DEF p
  <2> QED BY <1>3, <2>1
<1>5. [k \in keep |-> l.look[k]] \in [keep -> Look] /\ keep \in SUBSET Card /\ l.hidden \cap keep \in SUBSET Card
  BY <1>1, <1>2
<1>6. Within(l.order, keep) \in Seq(Card) /\ IsInjective(Within(l.order, keep)) /\ ToSet(Within(l.order, keep)) = keep
  <2>1. Within(l.order, keep) \in Seq(Card)
    BY <1>2, WithinType
  <2>2. IsInjective(Within(l.order, keep))
    BY <1>2, InjectiveWithin
  <2>3. ToSet(Within(l.order, keep)) = ToSet(l.order) \cap keep
    BY <1>2, ToSetWithin
  <2> QED BY <1>1, <2>1, <2>2, <2>3
<1> HIDE DEF p
<1>7. p \in Layout
  BY <1>2, <1>4, <1>5, <1>6, LayoutMade
<1>8. CardsOf(p) = keep /\ p.order = Within(l.order, keep) /\ p.hidden = l.hidden \cap keep
  BY <1>4 DEF CardsOf
<1> QED BY <1>1, <1>6, <1>7, <1>8 DEF Agrees, p, keep

LEMMA EnsureAgrees ==
  ASSUME NEW l \in Layout, Agrees(l), NEW k \in Card, NEW hideNew
  PROVE  /\ EnsureCard(k, hideNew, l) \in Layout /\ Agrees(EnsureCard(k, hideNew, l))
         /\ CardsOf(EnsureCard(k, hideNew, l)) = CardsOf(l) \cup {k}
         /\ k \in CardsOf(l) => EnsureCard(k, hideNew, l) = l
<1> SUFFICES ASSUME k \notin CardsOf(l)
             PROVE  /\ EnsureCard(k, hideNew, l) \in Layout /\ Agrees(EnsureCard(k, hideNew, l))
                    /\ CardsOf(EnsureCard(k, hideNew, l)) = CardsOf(l) \cup {k}
  BY DEF EnsureCard
<1> DEFINE e == EnsureCard(k, hideNew, l)
           S == CardsOf(l) \cup {k}
           look == [c \in S |-> IF c = k THEN "first" ELSE l.look[c]]
           hidden == IF hideNew /\ k \notin SelfCard THEN l.hidden \cup {k} ELSE l.hidden
<1>1. /\ l.grid \in Look /\ l.order \in Seq(Card) /\ l.hidden \subseteq Card /\ CardsOf(l) \subseteq Card
      /\ l.look \in [CardsOf(l) -> Look]
      /\ l = [grid |-> l.grid, order |-> l.order, hidden |-> l.hidden, look |-> l.look]
  BY LayoutParts
<1>2. e = [grid |-> l.grid, order |-> Append(l.order, k), hidden |-> hidden, look |-> look]
  BY <1>1 DEF EnsureCard
<1>3. "first" \in Look /\ look \in [S -> Look] /\ S \in SUBSET Card /\ hidden \in SUBSET Card /\ hidden \subseteq S
  BY <1>1 DEF Look, Agrees
<1>4. Append(l.order, k) \in Seq(Card) /\ IsInjective(Append(l.order, k)) /\ ToSet(Append(l.order, k)) = S
  BY <1>1, AppendProperties, InjectiveAppend, ToSetAppend DEF Agrees
<1> HIDE DEF hidden, look, S, e
<1>5. e \in Layout
  BY <1>1, <1>2, <1>3, <1>4, LayoutMade
<1>6. CardsOf(e) = S /\ e.order = Append(l.order, k) /\ e.hidden = hidden
  BY <1>2, <1>3 DEF CardsOf
<1> QED BY <1>3, <1>4, <1>5, <1>6 DEF Agrees, e, S

LEMMA MovedAgrees ==
  ASSUME NEW l \in Layout, Agrees(l), NEW k \in ToSet(l.order), NEW before
  PROVE  MoveCard(l, k, before) \in Layout /\ Agrees(MoveCard(l, k, before)) /\ CardsOf(MoveCard(l, k, before)) = CardsOf(l)
<1> DEFINE rest == Within(l.order, Card \ {k})
           I == {i \in 1..Len(rest) : rest[i] = before}
           at == IF I # {} THEN Min(I) ELSE 0
           where == IF at = 0 THEN Len(rest) + 1 ELSE at
           order == InsertAt(rest, where, k)
<1>1. /\ l.grid \in Look /\ l.order \in Seq(Card) /\ l.hidden \subseteq Card /\ CardsOf(l) \subseteq Card
      /\ l.look \in [CardsOf(l) -> Look]
      /\ l = [grid |-> l.grid, order |-> l.order, hidden |-> l.hidden, look |-> l.look]
  BY LayoutParts
<1>2. k \in Card /\ ToSet(l.order) \subseteq Card
  BY <1>1, ToSetOf
<1>3. rest \in Seq(Card) /\ IsInjective(rest) /\ ToSet(rest) = ToSet(l.order) \ {k}
  <2>1. /\ rest \in Seq(Card) /\ IsInjective(rest) /\ ToSet(rest) = ToSet(l.order) \cap (Card \ {k})
    BY <1>1, WithinType, InjectiveWithin, ToSetWithin DEF Agrees
  <2> HIDE DEF rest
  <2> QED BY <1>2, <2>1
<1>4. MoveCard(l, k, before) = [grid |-> l.grid, order |-> order, hidden |-> l.hidden, look |-> l.look]
  <2>1. MoveCard(l, k, before) = [l EXCEPT !.order = order]
    BY DEF MoveCard, SelectInSeq
  <2> HIDE DEF order
  <2> QED BY <2>1, LayoutParts
<1> HIDE DEF rest
<1>5. where \in 1..(Len(rest) + 1)
  <2>1. Len(rest) \in Nat
    BY <1>3, LenProperties
  <2>2. CASE I = {}
    BY <2>1, <2>2
  <2>3. CASE I # {}
    <3>1. I \in SUBSET Nat
      OBVIOUS
    <3> HIDE DEF I
    <3>2. \E i \in I : \A j \in I : i <= j
      BY <2>3, <3>1, LeastNumber
    <3>3. Min(I) \in I
      BY <3>2 DEF Min
    <3>4. Min(I) \in 1..Len(rest)
      BY <3>3 DEF I
    <3> QED BY <2>1, <2>3, <3>4
  <2> QED BY <2>2, <2>3
<1> HIDE DEF where
<1>6. order \in Seq(Card) /\ IsInjective(order) /\ ToSet(order) = ToSet(l.order)
  <2>1. /\ order \in Seq(Card) /\ ToSet(order) = ToSet(rest) \cup {k}
        /\ IsInjective(rest) /\ k \notin ToSet(rest) => IsInjective(order)
    BY <1>2, <1>3, <1>5, Inserted
  <2> QED BY <1>3, <2>1
<1> HIDE DEF order
<1>7. MoveCard(l, k, before) \in Layout
  BY <1>1, <1>4, <1>6, LayoutMade
<1> QED BY <1>4, <1>6, <1>7 DEF Agrees, CardsOf

-----------------------------------------------------------------------------
(* layout_template.js *)

LEMMA LastIsThere ==
  ASSUME NEW slot, NEW keys \in Seq(Card)
  PROVE  /\ LastOf(slot, keys) = 0 \/ (LastOf(slot, keys) \in 1..Len(keys) /\ SlotOf[keys[LastOf(slot, keys)]] = slot)
         /\ (\E i \in 1..Len(keys) : SlotOf[keys[i]] = slot) => LastOf(slot, keys) # 0
<1> DEFINE I == {i \in 1..Len(keys) : SlotOf[keys[i]] = slot}
<1>1. LastOf(slot, keys) = IF I # {} THEN Max(I) ELSE 0
  BY DEF LastOf, SelectLastInSeq
<1>2. Len(keys) \in Nat
  BY LenProperties
<1>3. CASE I = {}
  BY <1>1, <1>3
<1>4. CASE I # {}
  <2>1. I \in SUBSET (0..Len(keys))
    BY <1>2
  <2> HIDE DEF I
  <2>2. \E i \in I : \A j \in I : i >= j
    BY <1>2, <1>4, <2>1, GreatestNumber
  <2>3. Max(I) \in I
    BY <2>2 DEF Max
  <2>4. LastOf(slot, keys) \in I
    BY <1>1, <1>4, <2>3
  <2> QED BY <1>2, <2>4 DEF I
<1> QED BY <1>3, <1>4

\* keyForSlot finds a device of the slot, when there is one.
LEMMA LastOfSlot ==
  ASSUME NEW slot, NEW devs \in Seq(Card)
  PROVE  /\ KeyFor(slot, devs) = Nothing \/ (KeyFor(slot, devs) \in ToSet(devs) /\ SlotOf[KeyFor(slot, devs)] = slot)
         /\ (\E i \in 1..Len(devs) : SlotOf[devs[i]] = slot) => KeyFor(slot, devs) # Nothing
<1>1. ToSet(devs) = {devs[i] : i \in 1..Len(devs)} /\ ToSet(devs) \subseteq Card
  BY ToSetOf
<1>2. CASE LastOf(slot, devs) = 0
  BY <1>2, LastIsThere DEF KeyFor
<1>3. CASE LastOf(slot, devs) # 0
  <2>1. LastOf(slot, devs) \in 1..Len(devs) /\ SlotOf[devs[LastOf(slot, devs)]] = slot
    BY <1>3, LastIsThere
  <2>2. KeyFor(slot, devs) = devs[LastOf(slot, devs)] /\ devs[LastOf(slot, devs)] \in ToSet(devs)
    BY <1>1, <1>3, <2>1 DEF KeyFor
  <2> QED BY <1>1, <2>1, <2>2, CardsAssumption
<1> QED BY <1>2, <1>3

\* What a template names among the devices: each once, and with a look for it.
LEMMA MatchedCards ==
  ASSUME NEW t \in Template, NEW devs \in Seq(Card)
  PROVE  /\ Matched(t, devs) \in Seq(Card) /\ IsInjective(Matched(t, devs))
         /\ ToSet(Matched(t, devs)) \subseteq ToSet(devs)
         /\ \A k \in ToSet(Matched(t, devs)) : SlotOf[k] \in DOMAIN t.look
<1> DEFINE keys == [i \in DOMAIN t.order |-> IF t.order[i] \in DOMAIN t.look THEN KeyFor(t.order[i], devs) ELSE Nothing]
           first == {i \in DOMAIN keys : keys[i] # Nothing /\ \A j \in 1..(i - 1) : keys[j] # keys[i]}
           n == Len(t.order)
           all == [i \in DOMAIN keys |-> i]
           at == Within(all, first)
           m == [x \in DOMAIN at |-> keys[at[x]]]
<1>1. n \in Nat /\ DOMAIN t.order = 1..n
  BY TemplateParts, LenProperties
<1>2. /\ DOMAIN keys = 1..n /\ first \subseteq 1..n
      /\ \A i \in 1..n : keys[i] = IF t.order[i] \in DOMAIN t.look THEN KeyFor(t.order[i], devs) ELSE Nothing
  BY <1>1
<1>3. \A i \in first, j \in first : keys[i] = keys[j] => i = j
  <2>1. ASSUME NEW i \in first, NEW j \in first, i < j PROVE keys[i] # keys[j]
    <3>1. i \in 1..n /\ j \in 1..n
      BY <1>2
    <3>2. i \in 1..(j - 1)
      BY <1>1, <2>1, <3>1
    <3>3. \A h \in 1..(j - 1) : keys[h] # keys[j]
      OBVIOUS
    <3> QED BY <3>2, <3>3
  <2>2. \A i \in first, j \in first : i < j \/ j < i \/ i = j
    BY <1>1, <1>2
  <2> HIDE DEF first, keys
  <2> QED BY <2>1, <2>2
<1>4. \A i \in first : keys[i] \in ToSet(devs) /\ SlotOf[keys[i]] \in DOMAIN t.look
  <2>1. \A i \in first : keys[i] # Nothing /\ i \in 1..n
    BY <1>2
  <2> HIDE DEF first, keys
  <2> QED BY <1>2, <2>1, LastOfSlot
<1>5. ToSet(devs) \subseteq Card
  BY ToSetOf
<1>6. Matched(t, devs) = m
  BY DEF Matched
<1> HIDE DEF keys, first
<1>7. all \in Seq(1..n) /\ Len(all) = n /\ IsInjective(all) /\ ToSet(all) = 1..n
  <2>1. all = [i \in 1..n |-> i]
    BY <1>2
  <2> HIDE DEF all
  <2>2. all \in [1..n -> 1..n] /\ DOMAIN all = 1..n
    BY <2>1
  <2>3. all \in Seq(1..n) /\ Len(all) = n
    BY <1>1, <2>2
  <2>4. \A i \in 1..n : all[i] = i
    BY <2>1
  <2> QED BY <2>2, <2>3, <2>4 DEF IsInjective, ToSet
<1> HIDE DEF all
<1>8. at \in Seq(1..n)
  BY <1>7, WithinType
<1>9. IsInjective(at)
  BY <1>7, InjectiveWithin
<1>10. ToSet(at) = first
  <2>1. ToSet(at) = ToSet(all) \cap first
    BY <1>7, ToSetWithin
  <2> QED BY <1>2, <1>7, <2>1
<1> HIDE DEF at
<1>11. Len(at) \in Nat /\ DOMAIN at = 1..Len(at) /\ ToSet(at) = {at[x] : x \in 1..Len(at)}
  BY <1>8, LenProperties, ToSetOf
<1>12. \A x \in 1..Len(at) : at[x] \in first
  BY <1>10, <1>11
<1>13. /\ \A x \in 1..Len(at) : m[x] = keys[at[x]] /\ m[x] \in ToSet(devs) /\ m[x] \in Card /\ SlotOf[m[x]] \in DOMAIN t.look
       /\ DOMAIN m = 1..Len(at)
  BY <1>4, <1>5, <1>11, <1>12
<1>14. m \in Seq(Card)
  <2>1. m \in [1..Len(at) -> Card]
    BY <1>11, <1>13
  <2> QED BY <1>11, <2>1
<1>15. IsInjective(m)
  <2>1. ASSUME NEW x \in 1..Len(at), NEW y \in 1..Len(at), m[x] = m[y] PROVE x = y
    <3>1. at[x] = at[y]
      BY <1>3, <1>12, <1>13, <2>1
    <3> QED BY <1>9, <1>11, <3>1 DEF IsInjective
  <2> QED BY <1>13, <2>1 DEF IsInjective
<1> HIDE DEF m
<1>16. ToSet(m) = {m[x] : x \in 1..Len(at)}
  BY <1>13 DEF ToSet
<1> QED BY <1>6, <1>13, <1>14, <1>15, <1>16

\* The cards named are dealt into the places they held, and those without a
\* place follow; a card that is not named keeps its own.
LEMMA DealtCards ==
  ASSUME NEW order \in Seq(Card), NEW matched \in Seq(Card), IsInjective(order), IsInjective(matched)
  PROVE  /\ Dealt(order, matched) \in Seq(Card) /\ IsInjective(Dealt(order, matched))
         /\ ToSet(Dealt(order, matched)) = ToSet(order) \cup ToSet(matched)
         /\ \A i \in 1..Len(order) : order[i] \notin ToSet(matched) => Dealt(order, matched)[i] = order[i]
<1> DEFINE named == ToSet(matched)
           w == Within(order, named)
           c(i) == CountUpTo(order, named, i)
           n == Len(order)
           m == Len(matched)
           kept == Len(w)
           inplace == [i \in DOMAIN order |-> IF order[i] \in named THEN matched[c(i)] ELSE order[i]]
           rest == SubSeq(matched, kept + 1, m)
<1>1. /\ n \in Nat /\ DOMAIN order = 1..n /\ ToSet(order) = {order[i] : i \in 1..n} /\ ToSet(order) \subseteq Card
      /\ \A i, j \in 1..n : order[i] = order[j] => i = j
  BY LenProperties, ToSetOf DEF IsInjective
<1>2. /\ m \in Nat /\ DOMAIN matched = 1..m /\ named = {matched[i] : i \in 1..m} /\ named \subseteq Card
      /\ \A i, j \in 1..m : matched[i] = matched[j] => i = j
  BY LenProperties, ToSetOf DEF IsInjective
<1>3. w \in Seq(Card)
  BY WithinType
<1>4. IsInjective(w)
  BY InjectiveWithin
<1>5. ToSet(w) = ToSet(order) \cap named
  BY ToSetWithin
<1>6. /\ kept = c(n)
      /\ \A i \in 1..n : order[i] \in named => c(i) \in 1..kept /\ w[c(i)] = order[i]
  BY WithinCounts
<1>7. Dealt(order, matched) = inplace \o rest
  BY <1>6 DEF Dealt
<1> HIDE DEF named, w, c
<1>8. kept \in Nat /\ kept <= m /\ ToSet(w) = {w[i] : i \in 1..kept} /\ \A i, j \in 1..kept : w[i] = w[j] => i = j
  <2>1. kept \in Nat /\ ToSet(w) = {w[i] : i \in 1..kept} /\ DOMAIN w = 1..kept
    BY <1>3, LenProperties, ToSetOf
  <2>2. ToSet(w) \subseteq ToSet(matched)
    BY <1>5 DEF named
  <2>3. kept <= m
    BY <1>3, <1>4, <2>2, NoLonger
  <2> QED BY <1>4, <2>1, <2>3 DEF IsInjective
<1> HIDE DEF n, m, kept
<1>9. \A i \in 1..n : order[i] \in named => c(i) \in 1..m
  BY <1>2, <1>6, <1>8
<1>10. /\ DOMAIN inplace = 1..n
       /\ \A i \in 1..n : inplace[i] = IF order[i] \in named THEN matched[c(i)] ELSE order[i]
  BY <1>1
<1>11. \A i \in 1..n : inplace[i] \in Card
  BY <1>1, <1>2, <1>9, <1>10
<1>12. inplace \in Seq(Card) /\ Len(inplace) = n
  <2>1. inplace \in [1..n -> Card]
    BY <1>1, <1>11
  <2> HIDE DEF inplace
  <2> QED BY <1>1, <2>1
<1> HIDE DEF inplace
<1>13. /\ rest \in Seq(Card) /\ Len(rest) = m - kept
       /\ \A i \in 1..(m - kept) : rest[i] = matched[kept + i]
  <2>1. \A i \in (kept + 1)..m : matched[i] \in Card
    BY <1>2, <1>8
  <2>2. /\ rest \in Seq(Card) /\ Len(rest) = IF kept + 1 <= m THEN m - (kept + 1) + 1 ELSE 0
        /\ \A i \in 1..(m - (kept + 1) + 1) : rest[i] = matched[(kept + 1) + i - 1]
    BY <1>2, <1>8, <2>1, SubSeqProperties
  <2>3. /\ m - (kept + 1) + 1 = m - kept
        /\ \A i \in 1..(m - kept) : (kept + 1) + i - 1 = kept + i
        /\ ~(kept + 1 <= m) => m - kept = 0
    BY <1>2, <1>8
  <2> HIDE DEF rest
  <2> QED BY <2>2, <2>3
<1> HIDE DEF rest
<1>14. /\ ToSet(inplace) = {inplace[i] : i \in 1..n} /\ ToSet(rest) = {rest[i] : i \in 1..(m - kept)}
       /\ DOMAIN rest = 1..(m - kept)
  <2>1. ToSet(inplace) = {inplace[i] : i \in 1..n}
    BY <1>12, ToSetOf
  <2>2. ToSet(rest) = {rest[i] : i \in 1..(m - kept)}
    BY <1>13, ToSetOf
  <2>3. DOMAIN rest = 1..(m - kept)
    BY <1>13, LenProperties
  <2> QED BY <2>1, <2>2, <2>3
<1>15. IsInjective(inplace)
  <2>1. ASSUME NEW i \in 1..n, NEW j \in 1..n, inplace[i] = inplace[j] PROVE i = j
    <3>1. CASE order[i] \in named /\ order[j] \in named
      <4>1. c(i) = c(j)
        BY <1>2, <1>9, <1>10, <2>1, <3>1
      <4> QED BY <1>1, <1>6, <3>1, <4>1
    <3>2. CASE order[i] \notin named /\ order[j] \notin named
      BY <1>1, <1>10, <2>1, <3>2
    <3>3. CASE order[i] \in named <=> order[j] \notin named
      BY <1>2, <1>9, <1>10, <2>1, <3>3
    <3> QED BY <3>1, <3>2, <3>3
  <2> QED BY <1>10, <2>1 DEF IsInjective
<1>16. IsInjective(rest)
  <2>1. ASSUME NEW i \in 1..(m - kept), NEW j \in 1..(m - kept), rest[i] = rest[j] PROVE i = j
    <3>1. kept + i \in 1..m /\ kept + j \in 1..m
      BY <1>2, <1>8
    <3>2. kept + i = kept + j
      BY <1>2, <1>13, <2>1, <3>1
    <3> QED BY <1>8, <3>2
  <2> QED BY <1>14, <2>1 DEF IsInjective
<1>17. ToSet(inplace) \cap ToSet(rest) = {}
  <2>1. ASSUME NEW i \in 1..n, NEW j \in 1..(m - kept), inplace[i] = rest[j] PROVE FALSE
    <3>1. kept + j \in 1..m /\ kept + j > kept /\ rest[j] = matched[kept + j] /\ rest[j] \in named
      BY <1>2, <1>8, <1>13
    <3>2. order[i] \in named /\ inplace[i] = matched[c(i)]
      BY <1>10, <2>1, <3>1
    <3>3. c(i) \in 1..m /\ c(i) \in 1..kept
      BY <1>6, <1>9, <3>2
    <3>4. c(i) = kept + j
      BY <1>2, <2>1, <3>1, <3>2, <3>3
    <3> QED BY <1>8, <3>1, <3>3, <3>4
  <2> QED BY <1>14, <2>1
<1>18. ToSet(inplace) \cup ToSet(rest) = ToSet(order) \cup named
  <2>1. ASSUME NEW k \in ToSet(inplace) \cup ToSet(rest) PROVE k \in ToSet(order) \cup named
    <3>1. CASE k \in ToSet(inplace)
      BY <1>1, <1>2, <1>9, <1>10, <1>14, <3>1
    <3>2. CASE k \in ToSet(rest)
      <4>1. PICK i \in 1..(m - kept) : k = rest[i]
        BY <1>14, <3>2
      <4>2. kept + i \in 1..m
        BY <1>2, <1>8
      <4> QED BY <1>2, <1>13, <4>1, <4>2
    <3> QED BY <2>1, <3>1, <3>2
  <2>2. ASSUME NEW k \in ToSet(order), k \notin named PROVE k \in ToSet(inplace)
    BY <1>1, <1>10, <1>14, <2>2
  <2>3. ASSUME NEW k \in named PROVE k \in ToSet(inplace) \cup ToSet(rest)
    <3>1. PICK x \in 1..m : k = matched[x]
      BY <1>2
    <3>2. CASE x <= kept
      <4>0. x \in 1..kept
        BY <1>2, <1>8, <3>2
      <4>1. x \in 1..kept /\ w[x] \in ToSet(order) \cap named
        <5>1. w[x] \in ToSet(w)
          BY <1>8, <4>0
        <5> QED BY <1>5, <4>0, <5>1
      <4>2. PICK i \in 1..n : order[i] = w[x] /\ order[i] \in named
        BY <1>1, <4>1
      <4>3. c(i) = x
        BY <1>6, <1>8, <4>1, <4>2
      <4> QED BY <1>10, <1>14, <3>1, <4>2, <4>3
    <3>3. CASE ~(x <= kept)
      <4>1. x - kept \in 1..(m - kept) /\ kept + (x - kept) = x
        BY <1>2, <1>8, <3>3
      <4> QED BY <1>13, <1>14, <3>1, <4>1
    <3> QED BY <3>2, <3>3
  <2> QED BY <2>1, <2>2, <2>3
<1>19. inplace \o rest \in Seq(Card) /\ ToSet(inplace \o rest) = ToSet(inplace) \cup ToSet(rest)
  BY <1>12, <1>13, ConcatProperties, ToSetConcat
<1>20. IsInjective(inplace \o rest)
  BY <1>12, <1>13, <1>15, <1>16, <1>17, InjectiveConcat
<1>21. \A i \in 1..n : (inplace \o rest)[i] = inplace[i]
  <2>1. /\ Len(rest) \in Nat
        /\ \A i \in 1..(Len(inplace) + Len(rest)) : (inplace \o rest)[i] = IF i <= Len(inplace) THEN inplace[i] ELSE rest[i - Len(inplace)]
    BY <1>12, <1>13, ConcatProperties, LenProperties
  <2> QED BY <1>1, <1>12, <2>1
<1> QED BY <1>7, <1>10, <1>18, <1>19, <1>20, <1>21 DEF named, n

\* A template laid over an arrangement leaves it agreed, with a card for all
\* it names and for all there were.
LEMMA AppliedAgrees ==
  ASSUME NEW t \in Template, NEW l \in Layout, NEW devs \in Seq(Card), Agrees(l)
  PROVE  /\ ApplyTemplate(t, l, devs) \in Layout /\ Agrees(ApplyTemplate(t, l, devs))
         /\ CardsOf(ApplyTemplate(t, l, devs)) = CardsOf(l) \cup ToSet(Matched(t, devs))
         /\ \A i \in 1..Len(l.order) : l.order[i] \notin ToSet(Matched(t, devs)) =>
              ApplyTemplate(t, l, devs).order[i] = l.order[i]
<1> DEFINE matched == Matched(t, devs)
           named == ToSet(matched)
           S == CardsOf(l) \cup named
           hidden == (l.hidden \ named) \cup {k \in named : SlotOf[k] \in t.hides}
           look == [k \in S |-> IF k \in named THEN t.look[SlotOf[k]] ELSE l.look[k]]
           order == Dealt(l.order, matched)
           r == ApplyTemplate(t, l, devs)
<1>1. /\ l.order \in Seq(Card) /\ l.hidden \subseteq Card /\ CardsOf(l) \subseteq Card /\ l.look \in [CardsOf(l) -> Look]
  BY LayoutParts
<1>2. t.grid \in Look /\ t.look \in [DOMAIN t.look -> Look]
  BY TemplateParts
<1>3. matched \in Seq(Card) /\ IsInjective(matched) /\ named \subseteq Card /\ \A k \in named : SlotOf[k] \in DOMAIN t.look
  <2>1. ToSet(devs) \subseteq Card
    BY ToSetOf
  <2> QED BY <2>1, MatchedCards
<1>4. r = [grid |-> t.grid, order |-> order, hidden |-> hidden, look |-> look]
  BY DEF ApplyTemplate
<1>5. /\ order \in Seq(Card) /\ IsInjective(order) /\ ToSet(order) = ToSet(l.order) \cup named
      /\ \A i \in 1..Len(l.order) : l.order[i] \notin named => order[i] = l.order[i]
  BY <1>1, <1>3, DealtCards DEF Agrees
<1> HIDE DEF matched, named, order
<1>6. hidden \in SUBSET Card /\ hidden \subseteq S /\ S \in SUBSET Card
  BY <1>1, <1>3 DEF Agrees
<1>7. look \in [S -> Look]
  <2>1. ASSUME NEW k \in S PROVE look[k] \in Look
    <3>1. CASE k \in named
      BY <1>2, <1>3, <3>1
    <3>2. CASE k \notin named
      BY <1>1, <3>2
    <3> QED BY <3>1, <3>2
  <2> HIDE DEF Look
  <2> QED BY <2>1
<1> HIDE DEF hidden, look, r, S
<1>8. r \in Layout
  BY <1>2, <1>4, <1>5, <1>6, <1>7, LayoutMade
<1>9. CardsOf(r) = S /\ r.order = order /\ r.hidden = hidden
  BY <1>4, <1>7 DEF CardsOf
<1>10. Agrees(r)
  BY <1>5, <1>6, <1>9 DEF Agrees, S
<1> QED BY <1>5, <1>8, <1>9, <1>10 DEF r, S, named, matched

\* What is derived of an arrangement: the cards of the devices, by their slots.
Drawn(l, devs) == Within(l.order, ToSet(devs))
LastDrawn(slot, l, devs) == Drawn(l, devs)[LastOf(slot, Drawn(l, devs))]
SlotsDrawn(l, devs) == {SlotOf[k] : k \in ToSet(Drawn(l, devs))}

LEMMA DrawnCards ==
  ASSUME NEW l \in Layout, Agrees(l), NEW devs \in Seq(Card)
  PROVE  /\ Drawn(l, devs) \in Seq(Card) /\ IsInjective(Drawn(l, devs))
         /\ ToSet(Drawn(l, devs)) = CardsOf(l) \cap ToSet(devs)
         /\ \A slot \in SlotsDrawn(l, devs) : /\ LastDrawn(slot, l, devs) \in CardsOf(l) \cap ToSet(devs)
                                             /\ SlotOf[LastDrawn(slot, l, devs)] = slot
<1>1. l.order \in Seq(Card)
  BY LayoutParts
<1>2. Drawn(l, devs) \in Seq(Card)
  BY <1>1, WithinType DEF Drawn
<1>3. IsInjective(Drawn(l, devs))
  BY <1>1, InjectiveWithin DEF Agrees, Drawn
<1>4. ToSet(Drawn(l, devs)) = ToSet(l.order) \cap ToSet(devs)
  BY <1>1, ToSetWithin DEF Drawn
<1>5. ASSUME NEW slot \in SlotsDrawn(l, devs)
      PROVE  LastDrawn(slot, l, devs) \in ToSet(Drawn(l, devs)) /\ SlotOf[LastDrawn(slot, l, devs)] = slot
  <2>1. ToSet(Drawn(l, devs)) = {Drawn(l, devs)[i] : i \in 1..Len(Drawn(l, devs))}
    BY <1>2, ToSetOf
  <2>2. PICK k \in ToSet(Drawn(l, devs)) : slot = SlotOf[k]
    BY DEF SlotsDrawn
  <2>3. PICK i \in 1..Len(Drawn(l, devs)) : SlotOf[Drawn(l, devs)[i]] = slot
    BY <2>1, <2>2
  <2>4. LastOf(slot, Drawn(l, devs)) \in 1..Len(Drawn(l, devs)) /\ SlotOf[Drawn(l, devs)[LastOf(slot, Drawn(l, devs))]] = slot
    BY <1>2, <2>3, LastIsThere
  <2> QED BY <2>1, <2>4 DEF LastDrawn
<1> QED BY <1>2, <1>3, <1>4, <1>5 DEF Agrees

LEMMA DerivedParts ==
  ASSUME NEW l, NEW devs
  PROVE  DeriveTemplate(l, devs) =
           [grid |-> l.grid, order |-> [i \in DOMAIN Drawn(l, devs) |-> SlotOf[Drawn(l, devs)[i]]],
            look |-> [slot \in SlotsDrawn(l, devs) |-> l.look[LastDrawn(slot, l, devs)]],
            hides |-> {slot \in SlotsDrawn(l, devs) : LastDrawn(slot, l, devs) \in l.hidden}]
BY DEF DeriveTemplate, Drawn, SlotsDrawn, LastDrawn

LEMMA DerivedTemplate ==
  ASSUME NEW l \in Layout, Agrees(l), NEW devs \in Seq(Card)
  PROVE  DeriveTemplate(l, devs) \in Template
<1> DEFINE d == Drawn(l, devs)
           slots == SlotsDrawn(l, devs)
           order == [i \in DOMAIN d |-> SlotOf[d[i]]]
           look == [slot \in slots |-> l.look[LastDrawn(slot, l, devs)]]
           hides == {slot \in slots : LastDrawn(slot, l, devs) \in l.hidden}
<1>1. l.grid \in Look /\ CardsOf(l) \subseteq Card /\ l.look \in [CardsOf(l) -> Look]
  BY LayoutParts
<1>2. /\ d \in Seq(Card) /\ ToSet(d) = CardsOf(l) \cap ToSet(devs)
      /\ \A slot \in slots : LastDrawn(slot, l, devs) \in CardsOf(l)
  BY DrawnCards
<1>3. SlotOf \in [Card -> Slot]
  BY CardsAssumption
<1>4. slots \in SUBSET Slot
  BY <1>1, <1>2, <1>3 DEF SlotsDrawn
<1>5. DeriveTemplate(l, devs) = [grid |-> l.grid, order |-> order, look |-> look, hides |-> hides]
  BY DerivedParts
<1> HIDE DEF d, slots
<1>6. order \in Seq(Slot)
  <2>1. Len(d) \in Nat /\ DOMAIN d = 1..Len(d) /\ \A i \in 1..Len(d) : d[i] \in Card
    BY <1>2, LenProperties, ElementOfSeq
  <2>2. order \in [1..Len(d) -> Slot]
    BY <1>3, <2>1
  <2> QED BY <2>1, <2>2
<1>7. look \in [slots -> Look]
  <2> HIDE DEF Look
  <2> QED BY <1>1, <1>2
<1>8. look \in UNION {[S -> Look] : S \in SUBSET Slot} /\ hides \in SUBSET Slot
  <2> HIDE DEF look, Look
  <2> QED BY <1>4, <1>7
<1> HIDE DEF order, look, hides
<1> QED BY <1>1, <1>5, <1>6, <1>8 DEF Template

\* Of devices no two of which share a slot, a slot gives back its device.
LEMMA SlotsApart ==
  ASSUME NEW devs \in Seq(Card), IsInjective([i \in DOMAIN devs |-> SlotOf[devs[i]]])
  PROVE  /\ \A j, k \in ToSet(devs) : SlotOf[j] = SlotOf[k] => j = k
         /\ \A k \in ToSet(devs) : KeyFor(SlotOf[k], devs) = k
<1>1. ToSet(devs) = {devs[i] : i \in 1..Len(devs)} /\ DOMAIN devs = 1..Len(devs)
  BY ToSetOf, LenProperties
<1>2. \A i, j \in 1..Len(devs) : SlotOf[devs[i]] = SlotOf[devs[j]] => i = j
  BY <1>1 DEF IsInjective
<1>3. \A j, k \in ToSet(devs) : SlotOf[j] = SlotOf[k] => j = k
  BY <1>1, <1>2
<1>4. ASSUME NEW k \in ToSet(devs) PROVE KeyFor(SlotOf[k], devs) = k
  <2>1. \E i \in 1..Len(devs) : SlotOf[devs[i]] = SlotOf[k]
    BY <1>1
  <2>2. KeyFor(SlotOf[k], devs) \in ToSet(devs) /\ SlotOf[KeyFor(SlotOf[k], devs)] = SlotOf[k]
    BY <2>1, LastOfSlot
  <2> QED BY <1>3, <2>2
<1> QED BY <1>3, <1>4

LEMMA DerivedMatches ==
  ASSUME NEW l \in Layout, Agrees(l), NEW devs \in Seq(Card), IsInjective([i \in DOMAIN devs |-> SlotOf[devs[i]]])
  PROVE  Matched(DeriveTemplate(l, devs), devs) = Drawn(l, devs)
<1> DEFINE t == DeriveTemplate(l, devs)
           d == Drawn(l, devs)
           n == Len(d)
           keys == [i \in DOMAIN t.order |-> IF t.order[i] \in DOMAIN t.look THEN KeyFor(t.order[i], devs) ELSE Nothing]
           first == {i \in DOMAIN keys : keys[i] # Nothing /\ \A j \in 1..(i - 1) : keys[j] # keys[i]}
           all == [i \in DOMAIN keys |-> i]
           at == Within(all, first)
<1>1. d \in Seq(Card) /\ IsInjective(d) /\ ToSet(d) = CardsOf(l) \cap ToSet(devs)
  BY DrawnCards
<1>2. n \in Nat /\ DOMAIN d = 1..n /\ ToSet(d) = {d[i] : i \in 1..n} /\ \A i, j \in 1..n : d[i] = d[j] => i = j
  BY <1>1, LenProperties, ToSetOf DEF IsInjective
<1>3. t.order = [i \in DOMAIN d |-> SlotOf[d[i]]] /\ DOMAIN t.look = SlotsDrawn(l, devs)
  BY DerivedParts
<1>4. Matched(t, devs) = [x \in DOMAIN at |-> keys[at[x]]]
  BY DEF Matched
<1>5. \A i \in 1..n : d[i] \in ToSet(devs) /\ SlotOf[d[i]] \in SlotsDrawn(l, devs) /\ d[i] \in Card
  BY <1>1, <1>2, ToSetOf DEF SlotsDrawn
<1> HIDE DEF t, d, n
<1>6. DOMAIN keys = 1..n /\ \A i \in 1..n : keys[i] = d[i]
  <2>1. DOMAIN t.order = 1..n /\ \A i \in 1..n : t.order[i] = SlotOf[d[i]]
    BY <1>2, <1>3
  <2>2. \A i \in 1..n : keys[i] = KeyFor(SlotOf[d[i]], devs)
    BY <1>3, <1>5, <2>1
  <2>3. \A i \in 1..n : KeyFor(SlotOf[d[i]], devs) = d[i]
    BY <1>5, SlotsApart
  <2> HIDE DEF keys
  <2>4. \A i \in 1..n : keys[i] = d[i]
    BY <2>2, <2>3
  <2> QED BY <2>1, <2>4 DEF keys
<1> HIDE DEF keys
<1>7. first = 1..n
  <2>1. ASSUME NEW i \in 1..n PROVE i \in first
    <3>1. keys[i] # Nothing
      BY <1>5, <1>6, CardsAssumption
    <3>2. \A j \in 1..(i - 1) : j \in 1..n /\ j # i
      BY <1>2
    <3>3. \A j \in 1..(i - 1) : keys[j] # keys[i]
      BY <1>2, <1>6, <3>2
    <3> QED BY <1>6, <3>1, <3>3
  <2> QED BY <1>6, <2>1
<1> HIDE DEF first
<1>8. all \in Seq(1..n) /\ Len(all) = n /\ DOMAIN all = 1..n /\ ToSet(all) = 1..n /\ \A i \in 1..n : all[i] = i
  <2>1. all = [i \in 1..n |-> i]
    BY <1>6
  <2> HIDE DEF all
  <2>2. all \in [1..n -> 1..n] /\ DOMAIN all = 1..n
    BY <2>1
  <2>3. all \in Seq(1..n) /\ Len(all) = n
    BY <1>2, <2>2
  <2>4. \A i \in 1..n : all[i] = i
    BY <2>1
  <2> QED BY <2>2, <2>3, <2>4 DEF ToSet
<1> HIDE DEF all
<1>9. at = all
  BY <1>7, <1>8, WithinAll
<1> HIDE DEF at
<1>10. d = [i \in 1..n |-> d[i]]
  BY <1>1, LenProperties DEF n
<1>11. [x \in DOMAIN at |-> keys[at[x]]] = [i \in 1..n |-> d[i]]
  BY <1>6, <1>8, <1>9
<1> QED BY <1>4, <1>10, <1>11 DEF t, d

LEMMA DealtBack ==
  ASSUME NEW order \in Seq(Card), NEW devs
  PROVE  Dealt(order, Within(order, devs)) = order
<1> DEFINE d == Within(order, devs)
           named == ToSet(d)
           n == Len(order)
           inplace == [i \in DOMAIN order |-> IF order[i] \in named THEN d[CountUpTo(order, named, i)] ELSE order[i]]
           held == CountUpTo(order, named, n)
<1>1. d \in Seq(Card)
  BY WithinType
<1>2. named = ToSet(order) \cap devs
  BY ToSetWithin
<1>3. Within(order, named) = d
  <2>1. ToSet(order) \cap named = ToSet(order) \cap devs
    BY <1>2
  <2> HIDE DEF named
  <2> QED BY <2>1, WithinSame
<1>4. n \in Nat /\ DOMAIN order = 1..n
  BY LenProperties
<1>5. Dealt(order, d) = inplace \o SubSeq(d, held + 1, Len(d))
  BY DEF Dealt
<1> HIDE DEF d, named
<1>6. /\ Len(d) = held
      /\ \A i \in 1..n : order[i] \in named => d[CountUpTo(order, named, i)] = order[i]
  BY <1>3, WithinCounts
<1> HIDE DEF n
<1>7. inplace = [i \in 1..n |-> order[i]]
  BY <1>4, <1>6
<1>8. order = [i \in 1..n |-> order[i]]
  BY <1>4, LenProperties DEF n
<1> HIDE DEF held, inplace
<1>9. SubSeq(d, held + 1, Len(d)) = <<>>
  <2>1. Len(d) \in Nat
    BY <1>1, LenProperties
  <2>2. held + 1 \in Int /\ Len(d) \in Int /\ Len(d) < held + 1
    BY <1>6, <2>1
  <2> QED BY <2>2, SubSeqEmpty
<1>10. inplace = order
  BY <1>7, <1>8
<1>11. Dealt(order, d) = order \o <<>>
  BY <1>5, <1>9, <1>10
<1> QED BY <1>11, ConcatEmptySeq DEF d

\* What is saved as the site default loads as itself.
LEMMA DerivedLoads ==
  ASSUME NEW l \in Layout, Agrees(l), NEW devs \in Seq(Card), IsInjective([i \in DOMAIN devs |-> SlotOf[devs[i]]])
  PROVE  ApplyTemplate(DeriveTemplate(l, devs), l, devs) = l
<1> DEFINE t == DeriveTemplate(l, devs)
           d == Drawn(l, devs)
           named == ToSet(d)
           S == CardsOf(l) \cup named
           look == [k \in S |-> IF k \in named THEN t.look[SlotOf[k]] ELSE l.look[k]]
           hidden == (l.hidden \ named) \cup {k \in named : SlotOf[k] \in t.hides}
<1>1. /\ l.order \in Seq(Card) /\ l.look \in [CardsOf(l) -> Look]
      /\ l = [grid |-> l.grid, order |-> l.order, hidden |-> l.hidden, look |-> l.look]
  BY LayoutParts
<1>2. /\ named = CardsOf(l) \cap ToSet(devs)
      /\ \A slot \in SlotsDrawn(l, devs) : /\ LastDrawn(slot, l, devs) \in CardsOf(l) \cap ToSet(devs)
                                          /\ SlotOf[LastDrawn(slot, l, devs)] = slot
  BY DrawnCards
<1>3. \A k \in named : SlotOf[k] \in SlotsDrawn(l, devs)
  BY DEF SlotsDrawn
<1>4. \A k \in named : LastDrawn(SlotOf[k], l, devs) = k
  <2> HIDE DEF named
  <2> QED BY <1>2, <1>3, SlotsApart
<1>5. /\ t.grid = l.grid /\ t.look = [slot \in SlotsDrawn(l, devs) |-> l.look[LastDrawn(slot, l, devs)]]
      /\ t.hides = {slot \in SlotsDrawn(l, devs) : LastDrawn(slot, l, devs) \in l.hidden}
  BY DerivedParts
<1>6. Matched(t, devs) = d
  BY DerivedMatches
<1>7. Dealt(l.order, d) = l.order
  BY <1>1, DealtBack DEF Drawn
<1>8. ApplyTemplate(t, l, devs) = [grid |-> t.grid, order |-> Dealt(l.order, d), hidden |-> hidden, look |-> look]
  BY <1>6 DEF ApplyTemplate
<1> HIDE DEF t, d, named
<1>9. S = CardsOf(l)
  BY <1>2
<1>10. hidden = l.hidden
  <2>1. \A k \in named : SlotOf[k] \in t.hides <=> k \in l.hidden
    BY <1>3, <1>4, <1>5
  <2> QED BY <2>1
<1>11. look = l.look
  <2>1. \A k \in named : t.look[SlotOf[k]] = l.look[k]
    BY <1>3, <1>4, <1>5
  <2>2. look = [k \in S |-> l.look[k]]
    BY <2>1
  <2>3. look = [k \in CardsOf(l) |-> l.look[k]]
    BY <1>9, <2>2
  <2>4. l.look = [k \in CardsOf(l) |-> l.look[k]]
    <3> HIDE DEF look
    <3> QED BY <1>1
  <2> HIDE DEF look
  <2> QED BY <2>3, <2>4
<1> HIDE DEF hidden, look
<1>12. ApplyTemplate(t, l, devs) = [grid |-> l.grid, order |-> l.order, hidden |-> l.hidden, look |-> l.look]
  BY <1>5, <1>7, <1>8, <1>10, <1>11
<1> QED BY <1>1, <1>12 DEF t

-----------------------------------------------------------------------------
(* Every handler keeps the invariant *)

\* The invariant is the type invariant, the agreement and what keeps them.
LEMMA CardsInvSays ==
  CardsInv <=> /\ CardsTypeOK /\ CardsAgree /\ (stored # Nothing => Agrees(stored))
               /\ IsInjective(devices) /\ (mine => ~auto.on)
BY DEF CardsInv, ArrangementOK, DevicesOK, SitesOK, HandsOK, CardsTypeOK, CardsAgree, Agrees

\* saveCardState prunes an arrangement that agrees, or one with looks to spare, to one that agrees.
LEMMA SavedCards ==
  ASSUME ArrangementOK, NEW l \in Layout, IsInjective(l.order), ToSet(l.order) \subseteq CardsOf(l), NEW devs, Save(l, devs)
  PROVE  /\ ArrangementOK' /\ layout' = Pruned(l, devs) /\ CardsOf(layout') = Kept(l, devs)
         /\ ToSet(devs) \cap ToSet(l.order) \subseteq CardsOf(layout')
<1> DEFINE p == Pruned(l, devs)
<1>1. p \in Layout /\ Agrees(p) /\ CardsOf(p) = Kept(l, devs) /\ ToSet(devs) \cap ToSet(l.order) \subseteq CardsOf(p)
  BY PrunedAgrees
<1>2. layout' = p /\ (stored' = p \/ stored' = stored) /\ (broken' = broken \/ broken' = TRUE)
  BY DEF Save
<1> HIDE DEF p
<1>3. layout' \in Layout /\ Agrees(layout')
  BY <1>1, <1>2
<1>4. stored' \in Layout \cup {Nothing} /\ (stored' # Nothing => Agrees(stored')) /\ broken' \in BOOLEAN
  BY <1>1, <1>2 DEF ArrangementOK
<1>5. ArrangementOK'
  BY <1>3, <1>4 DEF ArrangementOK
<1> QED BY <1>1, <1>2, <1>5 DEF p

LEMMA KeptCards ==
  ASSUME ArrangementOK, KeepCards
  PROVE  ArrangementOK' /\ layout' = layout
BY DEF ArrangementOK, KeepCards

\* setEditHook: an edit saves the arrangement and switches the latch off.
LEMMA EditedCards ==
  ASSUME CardsInv, NEW l \in Layout, IsInjective(l.order), ToSet(l.order) \subseteq CardsOf(l),
         CardsOf(layout) \subseteq ToSet(l.order), Edit(l), UNCHANGED <<devices, pageParts>>
  PROVE  ArrangementOK' /\ DevicesOK' /\ SitesOK'
<1>1. ArrangementOK' /\ ToSet(devices) \cap ToSet(l.order) \subseteq CardsOf(layout')
  BY SavedCards DEF CardsInv, Edit
<1>2. DevicesOK'
  BY <1>1 DEF CardsInv, DevicesOK
<1>3. SitesOK'
  BY DEF CardsInv, SitesOK, Edit, DisableAutoApply, pageParts
<1> QED BY <1>1, <1>2, <1>3

LEMMA NamedSlotsCounted ==
  ASSUME NEW t, NEW devs \in Seq(Card) PROVE NamedSlotsPresent(t, devs) \in Nat
<1>1. Len(devs) \in Nat /\ DOMAIN devs = 1..Len(devs)
  BY LenProperties
<1>2. IsFiniteSet(1..Len(devs))
  BY <1>1, FS_Interval
<1>3. {i \in DOMAIN devs : SlotOf[devs[i]] \in ToSet(t.order)} \subseteq 1..Len(devs)
  BY <1>1
<1>4. IsFiniteSet({i \in DOMAIN devs : SlotOf[devs[i]] \in ToSet(t.order)})
  BY <1>2, <1>3, FS_Subset
<1> QED BY <1>4, FS_CardinalityType DEF NamedSlotsPresent

\* runAutoApply raises the count the latch compares with, and nothing else of it.
LEMMA LatchCounts ==
  ASSUME NEW a \in [on : BOOLEAN, template : Template \cup {Nothing}, matched : Nat], NEW devs \in Seq(Card)
  PROVE  /\ AutoAfter(a, devs) \in [on : BOOLEAN, template : Template \cup {Nothing}, matched : Nat]
         /\ AutoAfter(a, devs).on = a.on
         /\ AutoFires(a, devs) => a.template \in Template /\ a.on
<1>1. NamedSlotsPresent(a.template, devs) \in Nat
  BY NamedSlotsCounted
<1> QED BY <1>1 DEF AutoAfter, AutoFires

\* The list of devices after one is upserted and others are trimmed.
LEMMA UpsertedDevices ==
  ASSUME DevicesOK, NEW k \in Card, NEW stale, NEW now, now = (IF k \in ToSet(devices) THEN devices ELSE Append(devices, k))
  PROVE  /\ now \in Seq(Card) /\ IsInjective(now) /\ ToSet(now) = ToSet(devices) \cup {k}
         /\ Within(now, Card \ stale) \in Seq(Card) /\ IsInjective(Within(now, Card \ stale))
         /\ ToSet(Within(now, Card \ stale)) \subseteq ToSet(now)
<1>1. devices \in Seq(Card) /\ IsInjective(devices)
  BY DEF DevicesOK
<1>2. now \in Seq(Card) /\ IsInjective(now) /\ ToSet(now) = ToSet(devices) \cup {k}
  <2>1. CASE k \in ToSet(devices)
    BY <1>1, <2>1
  <2>2. CASE k \notin ToSet(devices)
    BY <1>1, <2>2, AppendProperties, InjectiveAppend, ToSetAppend
  <2> QED BY <2>1, <2>2
<1>3. Within(now, Card \ stale) \in Seq(Card)
  BY <1>2, WithinType
<1>4. IsInjective(Within(now, Card \ stale))
  BY <1>2, InjectiveWithin
<1>5. ToSet(Within(now, Card \ stale)) = ToSet(now) \cap (Card \ stale)
  BY <1>2, ToSetWithin
<1> QED BY <1>2, <1>3, <1>4, <1>5

\* A reading or a feed's card: the template, the prune, the trim and the new card.
LEMMA ArrivalKeeps ==
  ASSUME CardsInv, NEW k \in Card, NEW stale, NEW hideNew, NEW newField \in BOOLEAN, Arrives(k, stale, hideNew, newField)
  PROVE  CardsInv'
<1> DEFINE known == k \in ToSet(devices)
           now == IF known THEN devices ELSE Append(devices, k)
           fired == ~known /\ AutoFires(auto, now)
           applied == ApplyTemplate(auto.template, layout, now)
           arranged == IF fired THEN Pruned(applied, now) ELSE layout
           carded == EnsureCard(k, hideNew, arranged)
           left == Within(now, Card \ stale)
<1>1. /\ devices' = left
      /\ IF carded # arranged \/ newField THEN Save(carded, left) ELSE IF fired THEN Save(arranged, now) ELSE KeepCards
      /\ auto' = IF fired THEN AutoAfter(auto, now) ELSE auto
      /\ dismissed' = IF fired THEN dismissed \ ShownBy(auto.template, now) ELSE dismissed
      /\ UNCHANGED <<edits, mine, pageParts, gestures>>
  BY DEF Arrives
<1>2. /\ now \in Seq(Card) /\ IsInjective(now) /\ ToSet(now) = ToSet(devices) \cup {k}
      /\ left \in Seq(Card) /\ IsInjective(left) /\ ToSet(left) \subseteq ToSet(now)
  BY UpsertedDevices DEF CardsInv
<1> HIDE DEF now, left
<1>3. /\ layout \in Layout /\ Agrees(layout) /\ ToSet(devices) \subseteq CardsOf(layout)
      /\ auto \in [on : BOOLEAN, template : Template \cup {Nothing}, matched : Nat]
  BY DEF CardsInv, ArrangementOK, DevicesOK, SitesOK
<1>4. arranged \in Layout /\ Agrees(arranged) /\ ToSet(devices) \subseteq CardsOf(arranged)
  <2>1. CASE fired
    <3>1. auto.template \in Template
      BY <1>2, <1>3, <2>1, LatchCounts
    <3>2. applied \in Layout /\ Agrees(applied) /\ CardsOf(layout) \subseteq CardsOf(applied)
      BY <1>2, <1>3, <3>1, AppliedAgrees
    <3> HIDE DEF applied
    <3>3. /\ Pruned(applied, now) \in Layout /\ Agrees(Pruned(applied, now))
          /\ ToSet(now) \cap ToSet(applied.order) \subseteq CardsOf(Pruned(applied, now))
      BY <3>2, PrunedAgrees DEF Agrees
    <3> QED BY <1>2, <1>3, <2>1, <3>2, <3>3 DEF Agrees
  <2>2. CASE ~fired
    BY <1>3, <2>2
  <2> QED BY <2>1, <2>2
<1> HIDE DEF arranged
<1>5. carded \in Layout /\ Agrees(carded) /\ CardsOf(carded) = CardsOf(arranged) \cup {k}
  BY <1>4, EnsureAgrees
<1> HIDE DEF carded
<1>6. ArrangementOK' /\ ToSet(left) \subseteq CardsOf(layout')
  <2>1. CASE carded # arranged \/ newField
    <3>1. ArrangementOK' /\ ToSet(left) \cap ToSet(carded.order) \subseteq CardsOf(layout')
      BY <1>1, <1>5, <2>1, SavedCards DEF CardsInv, Agrees
    <3> QED BY <1>2, <1>4, <1>5, <3>1 DEF Agrees
  <2>2. CASE ~(carded # arranged \/ newField) /\ fired
    <3>1. ArrangementOK' /\ ToSet(now) \cap ToSet(arranged.order) \subseteq CardsOf(layout')
      BY <1>1, <1>4, <2>2, SavedCards DEF CardsInv, Agrees
    <3> QED BY <1>2, <1>4, <1>5, <2>2, <3>1 DEF Agrees
  <2>3. CASE ~(carded # arranged \/ newField) /\ ~fired
    <3>1. ArrangementOK' /\ layout' = layout /\ arranged = layout
      BY <1>1, <2>3, KeptCards DEF CardsInv, arranged
    <3> QED BY <1>2, <1>4, <1>5, <2>3, <3>1
  <2> QED BY <2>1, <2>2, <2>3
<1>7. DevicesOK'
  BY <1>1, <1>2, <1>6 DEF DevicesOK
<1>8. SitesOK'
  <2>1. /\ auto' \in [on : BOOLEAN, template : Template \cup {Nothing}, matched : Nat]
        /\ auto'.on = auto.on
    BY <1>1, <1>2, <1>3, LatchCounts
  <2> QED BY <1>1, <2>1 DEF CardsInv, SitesOK, pageParts
<1>9. HandsOK'
  BY <1>1 DEF CardsInv, HandsOK, gestures
<1> QED BY <1>6, <1>7, <1>8, <1>9 DEF CardsInv

LEMMA HearKeeps == ASSUME CardsInv, NEW k \in Card, NEW newField \in BOOLEAN, Hear(k, newField) PROVE CardsInv'
BY ArrivalKeeps DEF Hear

LEMMA FeedKeeps == ASSUME CardsInv, NEW k \in Card, FeedPublishes(k) PROVE CardsInv'
BY ArrivalKeeps DEF FeedPublishes

\* A $layout frame.
LEMMA LayoutFrameKeeps ==
  ASSUME CardsInv, NEW b \in Base, NEW t \in SiteTemplate \cup {Nothing}, LayoutFrame(b, t)
  PROVE  CardsInv'
<1> DEFINE claimed == IF t # Nothing /\ auto.on THEN [auto EXCEPT !.template = t] ELSE auto
           fires == t # Nothing /\ AutoFires(claimed, devices)
           applied == ApplyTemplate(t, layout, devices)
<1>1. /\ layouts' = [layouts EXCEPT ![b] = t]
      /\ IF fires THEN Save(applied, devices) ELSE KeepCards
      /\ auto' = IF fires THEN AutoAfter(claimed, devices) ELSE claimed
      /\ dismissed' = IF fires THEN dismissed \ ShownBy(t, devices) ELSE dismissed
      /\ UNCHANGED <<devices, edits, mine, sources, posting, gestures>>
  BY DEF LayoutFrame
<1>2. /\ layout \in Layout /\ Agrees(layout) /\ ToSet(devices) \subseteq CardsOf(layout) /\ devices \in Seq(Card)
      /\ auto \in [on : BOOLEAN, template : Template \cup {Nothing}, matched : Nat]
  BY DEF CardsInv, ArrangementOK, DevicesOK, SitesOK
<1>3. t \in Template \cup {Nothing}
  BY CardsAssumption
<1>4. claimed \in [on : BOOLEAN, template : Template \cup {Nothing}, matched : Nat] /\ claimed.on = auto.on
  BY <1>2, <1>3
<1> HIDE DEF claimed
<1>5. ArrangementOK' /\ ToSet(devices) \subseteq CardsOf(layout')
  <2>1. CASE fires
    <3>1. t \in Template
      BY <1>3, <2>1
    <3>2. applied \in Layout /\ Agrees(applied) /\ CardsOf(layout) \subseteq CardsOf(applied)
      BY <1>2, <3>1, AppliedAgrees
    <3> HIDE DEF applied
    <3>3. ArrangementOK' /\ ToSet(devices) \cap ToSet(applied.order) \subseteq CardsOf(layout')
      BY <1>1, <2>1, <3>2, SavedCards DEF CardsInv, Agrees
    <3> QED BY <1>2, <3>2, <3>3 DEF Agrees
  <2>2. CASE ~fires
    BY <1>1, <1>2, <2>2, KeptCards DEF CardsInv
  <2> QED BY <2>1, <2>2
<1>6. DevicesOK'
  BY <1>1, <1>5 DEF CardsInv, DevicesOK
<1>7. SitesOK'
  <2>1. /\ auto' \in [on : BOOLEAN, template : Template \cup {Nothing}, matched : Nat]
        /\ auto'.on = auto.on
    BY <1>1, <1>2, <1>4, LatchCounts
  <2>2. layouts' \in [Base -> Template \cup {Nothing}]
    BY <1>1, <1>3 DEF CardsInv, SitesOK
  <2> QED BY <1>1, <2>1, <2>2 DEF CardsInv, SitesOK
<1>8. HandsOK'
  BY <1>1 DEF CardsInv, HandsOK, gestures
<1> QED BY <1>5, <1>6, <1>7, <1>8 DEF CardsInv

-----------------------------------------------------------------------------
(* What the visitor does *)

LEMMA VisitorCounts == ASSUME CardsInv, VisitorMay PROVE edits' \in 0..MaxEdits + 1
BY CardsAssumption DEF CardsInv, HandsOK, VisitorMay

LEMMA HiddenKeeps ==
  ASSUME CardsInv, NEW k \in Card, NEW hide \in BOOLEAN, k \in ToSet(devices), SetCardHidden(k, hide)
  PROVE  CardsInv'
<1> DEFINE hidden == IF hide THEN layout.hidden \cup {k} ELSE layout.hidden \ {k}
           l == [grid |-> layout.grid, order |-> layout.order, hidden |-> hidden, look |-> layout.look]
<1>1. /\ layout.grid \in Look /\ layout.order \in Seq(Card) /\ layout.hidden \subseteq Card /\ CardsOf(layout) \subseteq Card
      /\ layout.look \in [CardsOf(layout) -> Look]
      /\ layout = [grid |-> layout.grid, order |-> layout.order, hidden |-> layout.hidden, look |-> layout.look]
  BY LayoutParts DEF CardsInv, ArrangementOK
<1>2. l \in Layout /\ l.order = layout.order /\ CardsOf(l) = CardsOf(layout)
  BY <1>1, LayoutMade DEF CardsOf
<1>3. [layout EXCEPT !.hidden = IF hide THEN @ \cup {k} ELSE @ \ {k}] = l
  <2>1. [layout EXCEPT !.hidden = IF hide THEN @ \cup {k} ELSE @ \ {k}] = [layout EXCEPT !.hidden = hidden]
    OBVIOUS
  <2> HIDE DEF hidden
  <2> QED BY <1>1, <2>1
<1>4. Edit(l) /\ UNCHANGED <<devices, pageParts, gestures>> /\ VisitorMay
      /\ dismissed' = IF hide THEN dismissed \cup {k} ELSE dismissed \ {k}
  BY <1>3 DEF SetCardHidden
<1> HIDE DEF l
<1>5. ArrangementOK' /\ DevicesOK' /\ SitesOK'
  BY <1>2, <1>4, EditedCards DEF CardsInv, ArrangementOK, Agrees
<1>6. HandsOK'
  BY <1>4, VisitorCounts DEF CardsInv, HandsOK, gestures
<1> QED BY <1>5, <1>6 DEF CardsInv

LEMMA CloseKeeps == ASSUME CardsInv, NEW k \in Card, CloseCard(k) PROVE CardsInv'
BY HiddenKeeps DEF CloseCard, Shown

LEMMA TickKeeps == ASSUME CardsInv, NEW k \in Card, TickDevice(k) PROVE CardsInv'
BY HiddenKeeps DEF TickDevice

\* What a card's buttons and a drag of one of its values write.
LEMMA LookedAt ==
  ASSUME NEW l \in Layout, Agrees(l), NEW k \in CardsOf(l)
  PROVE  /\ [l EXCEPT !.look[k] = "mine"] \in Layout /\ Agrees([l EXCEPT !.look[k] = "mine"])
         /\ CardsOf([l EXCEPT !.look[k] = "mine"]) = CardsOf(l)
<1> DEFINE look == [l.look EXCEPT ![k] = "mine"]
           e == [grid |-> l.grid, order |-> l.order, hidden |-> l.hidden, look |-> look]
<1>1. /\ l.grid \in Look /\ l.order \in Seq(Card) /\ l.hidden \subseteq Card /\ CardsOf(l) \subseteq Card
      /\ l.look \in [CardsOf(l) -> Look]
      /\ l = [grid |-> l.grid, order |-> l.order, hidden |-> l.hidden, look |-> l.look]
  BY LayoutParts
<1>2. "mine" \in Look
  BY DEF Look
<1>3. look \in [CardsOf(l) -> Look]
  BY <1>1, <1>2
<1>4. e \in Layout /\ Agrees(e) /\ CardsOf(e) = CardsOf(l)
  BY <1>1, <1>3, LayoutMade DEF Agrees, CardsOf
<1>5. [l EXCEPT !.look[k] = "mine"] = e
  BY <1>1
<1> QED BY <1>4, <1>5

LEMMA ValueModeKeeps == ASSUME CardsInv, NEW k \in Card, SetValueMode(k) PROVE CardsInv'
<1> DEFINE l == [layout EXCEPT !.look[k] = "mine"]
<1>1. Edit(l) /\ UNCHANGED <<devices, dismissed, pageParts, gestures>> /\ VisitorMay /\ k \in CardsOf(layout)
  BY DEF SetValueMode
<1>2. l \in Layout /\ Agrees(l) /\ CardsOf(l) = CardsOf(layout)
  BY <1>1, LookedAt DEF CardsInv, ArrangementOK
<1> HIDE DEF l
<1>3. ArrangementOK' /\ DevicesOK' /\ SitesOK'
  BY <1>1, <1>2, EditedCards DEF Agrees
<1>4. HandsOK'
  BY <1>1, VisitorCounts DEF CardsInv, HandsOK, gestures
<1> QED BY <1>3, <1>4 DEF CardsInv

LEMMA GridKeeps == ASSUME CardsInv, SetGrid PROVE CardsInv'
<1> DEFINE l == [grid |-> "mine", order |-> layout.order, hidden |-> layout.hidden, look |-> layout.look]
<1>1. /\ layout.order \in Seq(Card) /\ layout.hidden \subseteq Card /\ CardsOf(layout) \subseteq Card
      /\ layout.look \in [CardsOf(layout) -> Look]
      /\ layout = [grid |-> layout.grid, order |-> layout.order, hidden |-> layout.hidden, look |-> layout.look]
  BY LayoutParts DEF CardsInv, ArrangementOK
<1>2. "mine" \in Look
  BY DEF Look
<1>3. l \in Layout /\ l.order = layout.order /\ CardsOf(l) = CardsOf(layout)
  BY <1>1, <1>2, LayoutMade DEF CardsOf
<1>4. [layout EXCEPT !.grid = "mine"] = l
  BY <1>1
<1>5. Edit(l) /\ UNCHANGED <<devices, dismissed, pageParts, gestures>> /\ VisitorMay
  BY <1>4 DEF SetGrid
<1> HIDE DEF l
<1>6. ArrangementOK' /\ DevicesOK' /\ SitesOK'
  BY <1>3, <1>5, EditedCards DEF CardsInv, ArrangementOK, Agrees
<1>7. HandsOK'
  BY <1>5, VisitorCounts DEF CardsInv, HandsOK, gestures
<1> QED BY <1>6, <1>7 DEF CardsInv

LEMMA ForgetKeeps == ASSUME CardsInv, ForgetLayouts PROVE CardsInv'
<1> DEFINE look == [k \in ToSet(devices) |-> "first"]
           l == [grid |-> "first", order |-> devices, hidden |-> {}, look |-> look]
<1>1. devices \in Seq(Card) /\ IsInjective(devices) /\ ToSet(devices) \subseteq Card
  BY ToSetOf DEF CardsInv, DevicesOK
<1>2. "first" \in Look
  BY DEF Look
<1>3. look \in [ToSet(devices) -> Look] /\ ToSet(devices) \in SUBSET Card /\ {} \in SUBSET Card
  BY <1>1, <1>2
<1>4. l \in Layout /\ Agrees(l) /\ CardsOf(l) = ToSet(devices)
  BY <1>1, <1>2, <1>3, LayoutMade DEF Agrees, CardsOf
<1>5. layout' = l /\ (stored' = Nothing \/ stored' = stored) /\ broken' \in BOOLEAN
  BY DEF ForgetLayouts, BlankLayout, CardsInv, ArrangementOK
<1> HIDE DEF l
<1>6. ArrangementOK' /\ DevicesOK'
  BY <1>1, <1>4, <1>5 DEF CardsInv, ArrangementOK, DevicesOK, ForgetLayouts
<1>7. SitesOK'
  BY DEF CardsInv, SitesOK, ForgetLayouts, DisableAutoApply, pageParts
<1>8. HandsOK'
  BY VisitorCounts DEF CardsInv, HandsOK, gestures, ForgetLayouts
<1> QED BY <1>6, <1>7, <1>8 DEF CardsInv

\* layoutForSources finds a template or none.
LEMMA LayoutFound == ASSUME SitesOK PROVE LayoutForSources \in Template \cup {Nothing}
<1> DEFINE I == {i \in 1..Len(sources) : layouts[sources[i]] # Nothing}
           at == IF I # {} THEN Min(I) ELSE 0
<1>1. LayoutForSources = IF at = 0 THEN Nothing ELSE layouts[sources[at]]
  BY DEF LayoutForSources, SelectInSeq
<1>2. sources \in Seq(Base) /\ layouts \in [Base -> Template \cup {Nothing}] /\ Len(sources) \in Nat
  BY LenProperties DEF SitesOK
<1>3. CASE I = {}
  BY <1>1, <1>3
<1>4. CASE I # {}
  <2>1. I \in SUBSET Nat
    OBVIOUS
  <2> HIDE DEF I
  <2>2. \E i \in I : \A j \in I : i <= j
    BY <1>4, <2>1, LeastNumber
  <2>3. Min(I) \in I
    BY <2>2 DEF Min
  <2>4. Min(I) \in 1..Len(sources)
    BY <2>3 DEF I
  <2>5. sources[Min(I)] \in Base
    BY <1>2, <2>4, ElementOfSeq
  <2> QED BY <1>1, <1>2, <1>4, <2>4, <2>5
<1> QED BY <1>3, <1>4

LEMMA LoadKeeps == ASSUME CardsInv, LoadLayout PROVE CardsInv'
<1> DEFINE l == ApplyTemplate(LayoutForSources, layout, devices)
<1>1. /\ VisitorMay /\ LayoutForSources # Nothing /\ Save(l, devices)
      /\ dismissed' = dismissed \ ShownBy(LayoutForSources, devices)
      /\ UNCHANGED <<devices, auto, mine, pageParts, gestures>>
  BY DEF LoadLayout
<1>2. LayoutForSources \in Template
  BY <1>1, LayoutFound DEF CardsInv
<1>3. l \in Layout /\ Agrees(l) /\ CardsOf(layout) \subseteq CardsOf(l)
  BY <1>2, AppliedAgrees DEF CardsInv, ArrangementOK, DevicesOK
<1> HIDE DEF l
<1>4. ArrangementOK' /\ ToSet(devices) \cap ToSet(l.order) \subseteq CardsOf(layout')
  BY <1>1, <1>3, SavedCards DEF CardsInv, Agrees
<1>5. DevicesOK'
  BY <1>1, <1>3, <1>4 DEF CardsInv, DevicesOK, Agrees
<1>6. SitesOK'
  BY <1>1 DEF CardsInv, SitesOK, pageParts
<1>7. HandsOK'
  BY <1>1, VisitorCounts DEF CardsInv, HandsOK, gestures
<1> QED BY <1>4, <1>5, <1>6, <1>7 DEF CardsInv

LEMMA PostKeeps == ASSUME CardsInv, PostLayout PROVE CardsInv'
<1>1. DeriveTemplate(layout, devices) \in Template
  BY DerivedTemplate DEF CardsInv, ArrangementOK, DevicesOK
<1>2. posting' = DeriveTemplate(layout, devices) /\ VisitorMay /\ KeepCards
      /\ UNCHANGED <<devices, auto, mine, dismissed, sources, layouts, gestures>>
  BY DEF PostLayout
<1>3. ArrangementOK' /\ DevicesOK'
  BY <1>2, KeptCards DEF CardsInv, DevicesOK
<1>4. SitesOK'
  BY <1>1, <1>2 DEF CardsInv, SitesOK
<1>5. HandsOK'
  BY <1>2, VisitorCounts DEF CardsInv, HandsOK, gestures
<1> QED BY <1>3, <1>4, <1>5 DEF CardsInv

LEMMA AnswerKeeps == ASSUME CardsInv, NEW ok \in BOOLEAN, PostAnswered(ok) PROVE CardsInv'
<1>1. /\ posting' = Nothing /\ posting # Nothing /\ KeepCards
      /\ layouts' = IF ok THEN [layouts EXCEPT ![Origin] = posting] ELSE layouts
      /\ UNCHANGED <<devices, auto, edits, mine, dismissed, sources, gestures>>
  BY DEF PostAnswered
<1>2. ArrangementOK' /\ DevicesOK'
  BY <1>1, KeptCards DEF CardsInv, DevicesOK
<1>3. SitesOK'
  BY <1>1 DEF CardsInv, SitesOK
<1>4. HandsOK'
  BY <1>1 DEF CardsInv, HandsOK, gestures
<1> QED BY <1>2, <1>3, <1>4 DEF CardsInv

LEMMA RemovedKeeps == ASSUME CardsInv, NEW b \in Base, SourceRemoved(b) PROVE CardsInv'
<1> DEFINE rest == Within(sources, Base \ {b})
           left == Within(devices, {k \in Card : SourceOf[k] # b})
<1>1. /\ VisitorMay /\ sources' = rest /\ devices' = left /\ layouts' = [layouts EXCEPT ![b] = Nothing]
      /\ dismissed' = {k \in dismissed : SourceOf[k] # b} /\ KeepCards
      /\ UNCHANGED <<auto, mine, posting, gestures>>
  BY DEF SourceRemoved
<1>2. sources \in Seq(Base) /\ devices \in Seq(Card) /\ IsInjective(devices) /\ ToSet(devices) \subseteq CardsOf(layout)
  BY DEF CardsInv, SitesOK, DevicesOK
<1>3. rest \in Seq(Base)
  BY <1>2, WithinType
<1>4. left \in Seq(Card) /\ IsInjective(left) /\ ToSet(left) \subseteq ToSet(devices)
  <2>1. left \in Seq(Card)
    BY <1>2, WithinType
  <2>2. IsInjective(left)
    BY <1>2, InjectiveWithin
  <2>3. ToSet(left) = ToSet(devices) \cap {k \in Card : SourceOf[k] # b}
    BY <1>2, ToSetWithin
  <2> QED BY <2>1, <2>2, <2>3
<1> HIDE DEF rest, left
<1>5. ArrangementOK' /\ layout' = layout
  BY <1>1, KeptCards DEF CardsInv
<1>6. DevicesOK'
  BY <1>1, <1>2, <1>4, <1>5 DEF DevicesOK
<1>7. SitesOK'
  BY <1>1, <1>3 DEF CardsInv, SitesOK
<1>8. HandsOK'
  BY <1>1, VisitorCounts DEF CardsInv, HandsOK, gestures
<1> QED BY <1>5, <1>6, <1>7, <1>8 DEF CardsInv

LEMMA AddedKeeps == ASSUME CardsInv, NEW b \in Base, SourceAdded(b) PROVE CardsInv'
<1>1. /\ VisitorMay /\ sources' = Append(sources, b) /\ KeepCards
      /\ UNCHANGED <<devices, auto, mine, dismissed, layouts, posting, gestures>>
  BY DEF SourceAdded
<1>2. ArrangementOK' /\ DevicesOK'
  BY <1>1, KeptCards DEF CardsInv, DevicesOK
<1>3. SitesOK'
  BY <1>1, AppendProperties DEF CardsInv, SitesOK
<1>4. HandsOK'
  BY <1>1, VisitorCounts DEF CardsInv, HandsOK, gestures
<1> QED BY <1>2, <1>3, <1>4 DEF CardsInv

\* loadCardState, and what the page starts with.
LEMMA ReloadKeeps == ASSUME CardsInv, Reload PROVE CardsInv'
<1>1. layout' = BlankLayout \/ (stored # Nothing /\ layout' = stored)
  BY DEF Reload
<1>2. stored' = stored /\ broken' \in BOOLEAN /\ devices' = <<>> /\ sources' = sources
  BY DEF Reload
<1>3. ArrangementOK'
  BY <1>1, <1>2, BlankIsLayout DEF CardsInv, ArrangementOK
<1>4. <<>> \in Seq(Card) /\ IsInjective(<<>>) /\ ToSet(<<>>) = {}
  BY EmptySeq DEF IsInjective, ToSet
<1>5. DevicesOK'
  BY <1>2, <1>4 DEF DevicesOK
<1>6. SitesOK'
  BY DEF CardsInv, SitesOK, Reload
<1>7. HandsOK'
  BY CardsAssumption DEF CardsInv, HandsOK, Reload
<1> QED BY <1>3, <1>5, <1>6, <1>7 DEF CardsInv

-----------------------------------------------------------------------------
(* Gestures *)

LEMMA DragBegins ==
  ASSUME CardsInv, NEW k \in Card, NEW field \in BOOLEAN, NEW finger \in Finger, BeginDrag(k, field, finger)
  PROVE  CardsInv'
<1>1. /\ VisitorMay /\ drag' = [key |-> k, field |-> field, finger |-> finger, before |-> Nothing]
      /\ KeepCards /\ UNCHANGED <<devices, auto, mine, dismissed, pageParts, resize>>
  BY DEF BeginDrag
<1>2. ArrangementOK' /\ DevicesOK'
  BY <1>1, KeptCards DEF CardsInv, DevicesOK
<1>3. SitesOK'
  BY <1>1 DEF CardsInv, SitesOK, pageParts
<1>4. HandsOK'
  BY <1>1, VisitorCounts DEF CardsInv, HandsOK
<1> QED BY <1>2, <1>3, <1>4 DEF CardsInv

LEMMA ResizeBegins ==
  ASSUME CardsInv, NEW k \in Card, NEW finger \in Finger, BeginResize(k, finger)
  PROVE  CardsInv'
<1>1. /\ VisitorMay /\ resize' = [key |-> k, finger |-> finger]
      /\ KeepCards /\ UNCHANGED <<devices, auto, mine, dismissed, pageParts, drag>>
  BY DEF BeginResize
<1>2. ArrangementOK' /\ DevicesOK'
  BY <1>1, KeptCards DEF CardsInv, DevicesOK
<1>3. SitesOK'
  BY <1>1 DEF CardsInv, SitesOK, pageParts
<1>4. HandsOK'
  BY <1>1, VisitorCounts DEF CardsInv, HandsOK
<1> QED BY <1>2, <1>3, <1>4 DEF CardsInv

LEMMA DragMoves ==
  ASSUME CardsInv, NEW finger \in Finger, NEW before \in Card \cup {EndOfGrid}, DragMove(finger, before)
  PROVE  CardsInv'
<1>1. /\ drag # Nothing /\ drag' = [drag EXCEPT !.before = before]
      /\ KeepCards /\ KeepPage /\ UNCHANGED <<auto, mine, resize>>
  BY DEF DragMove
<1>2. ArrangementOK' /\ DevicesOK'
  BY <1>1, KeptCards DEF CardsInv, DevicesOK, KeepPage
<1>3. SitesOK'
  BY <1>1 DEF CardsInv, SitesOK, KeepPage, pageParts
<1>4. HandsOK'
  BY <1>1 DEF CardsInv, HandsOK, KeepPage
<1> QED BY <1>2, <1>3, <1>4 DEF CardsInv

\* A gesture that ends without landing on anything leaves the arrangement alone.
LEMMA NothingLands ==
  ASSUME CardsInv, KeepCards, UNCHANGED <<auto, mine>>, KeepPage
  PROVE  ArrangementOK' /\ DevicesOK' /\ SitesOK'
<1>1. ArrangementOK' /\ DevicesOK'
  BY KeptCards DEF CardsInv, DevicesOK, KeepPage
<1>2. SitesOK'
  BY DEF CardsInv, SitesOK, KeepPage, pageParts
<1> QED BY <1>1, <1>2

LEMMA DragEnds == ASSUME CardsInv, NEW finger \in Finger, EndDrag(finger) PROVE CardsInv'
<1> DEFINE k == drag.key
           moved == MoveCard(layout, k, drag.before)
           valued == [layout EXCEPT !.look[k] = "mine"]
<1>1. /\ drag # Nothing /\ drag' = Nothing /\ KeepPage /\ UNCHANGED resize
      /\ \/ KeepCards /\ UNCHANGED <<auto, mine>>
         \/ drag.field /\ k \in CardsOf(layout) /\ Edit(valued)
         \/ ~drag.field /\ k \in ToSet(layout.order) /\ Edit(moved)
  BY DEF EndDrag, MoveValue
<1>2. layout \in Layout /\ Agrees(layout)
  BY DEF CardsInv, ArrangementOK
<1>3. UNCHANGED <<devices, pageParts>>
  BY <1>1 DEF KeepPage
<1>4. ArrangementOK' /\ DevicesOK' /\ SitesOK'
  <2>1. CASE KeepCards /\ UNCHANGED <<auto, mine>>
    BY <1>1, <2>1, NothingLands
  <2>2. CASE drag.field /\ k \in CardsOf(layout) /\ Edit(valued)
    <3>1. valued \in Layout /\ Agrees(valued) /\ CardsOf(valued) = CardsOf(layout)
      BY <1>2, <2>2, LookedAt
    <3> HIDE DEF valued
    <3> QED BY <1>3, <2>2, <3>1, EditedCards DEF Agrees
  <2>3. CASE ~drag.field /\ k \in ToSet(layout.order) /\ Edit(moved)
    <3>1. moved \in Layout /\ Agrees(moved) /\ CardsOf(moved) = CardsOf(layout)
      BY <1>2, <2>3, MovedAgrees
    <3> HIDE DEF moved
    <3> QED BY <1>3, <2>3, <3>1, EditedCards DEF Agrees
  <2> QED BY <1>1, <2>1, <2>2, <2>3
<1>5. HandsOK'
  BY <1>1 DEF CardsInv, HandsOK, KeepPage
<1> QED BY <1>4, <1>5 DEF CardsInv

\* A resize of a card that has gone makes a look without a place, which the save drops.
LEMMA ResizeEnds == ASSUME CardsInv, NEW finger \in Finger, NEW changed \in BOOLEAN, EndResize(finger, changed) PROVE CardsInv'
<1> DEFINE k == resize.key
           S == CardsOf(layout) \cup {k}
           look == [c \in S |-> IF c = k THEN "mine" ELSE layout.look[c]]
           l == [grid |-> layout.grid, order |-> layout.order, hidden |-> layout.hidden, look |-> look]
<1>1. /\ resize # Nothing /\ resize' = Nothing /\ KeepPage /\ UNCHANGED drag
      /\ \/ KeepCards /\ UNCHANGED <<auto, mine>>
         \/ Edit(SetCardSize(layout, k))
  BY DEF EndResize
<1>2. /\ layout.grid \in Look /\ layout.order \in Seq(Card) /\ layout.hidden \subseteq Card /\ CardsOf(layout) \subseteq Card
      /\ layout.look \in [CardsOf(layout) -> Look]
      /\ layout = [grid |-> layout.grid, order |-> layout.order, hidden |-> layout.hidden, look |-> layout.look]
  BY LayoutParts DEF CardsInv, ArrangementOK
<1>3. k \in Card
  BY <1>1 DEF CardsInv, HandsOK
<1>4. "mine" \in Look
  BY DEF Look
<1>5. S \in SUBSET Card /\ look \in [S -> Look]
  BY <1>2, <1>3, <1>4
<1>6. l \in Layout /\ l.order = layout.order /\ CardsOf(layout) \subseteq CardsOf(l)
  BY <1>2, <1>5, LayoutMade DEF CardsOf
<1>7. SetCardSize(layout, k) = l
  <2>1. SetCardSize(layout, k) = [layout EXCEPT !.look = look]
    BY DEF SetCardSize
  <2> HIDE DEF look
  <2> QED BY <1>2, <2>1
<1> HIDE DEF l
<1>8. UNCHANGED <<devices, pageParts>>
  BY <1>1 DEF KeepPage
<1>9. ArrangementOK' /\ DevicesOK' /\ SitesOK'
  <2>1. CASE KeepCards /\ UNCHANGED <<auto, mine>>
    BY <1>1, <2>1, NothingLands
  <2>2. CASE Edit(SetCardSize(layout, k))
    BY <1>6, <1>7, <1>8, <2>2, EditedCards DEF CardsInv, ArrangementOK, Agrees
  <2> QED BY <1>1, <2>1, <2>2
<1>10. HandsOK'
  BY <1>1 DEF CardsInv, HandsOK, KeepPage
<1> QED BY <1>9, <1>10 DEF CardsInv

-----------------------------------------------------------------------------
(* The invariant, and what follows from it *)

\* SetToSeq of a finite set is a sequence of it.
LEMMA ListedSet == ASSUME NEW S, IsFiniteSet(S) PROVE SetToSeq(S) \in Seq(S)
<1>1. Cardinality(S) \in Nat /\ ExistsBijection(1..Cardinality(S), S)
  BY FS_CardinalityType
<1>2. PICK f \in [1..Cardinality(S) -> S] : \A x, y \in 1..Cardinality(S) : x # y => f[x] # f[y]
  BY <1>1 DEF ExistsBijection, Bijection, Injection, Surjection, IsInjective
<1>3. IsInjective(f)
  BY <1>2 DEF IsInjective
<1>4. SetToSeq(S) \in [1..Cardinality(S) -> S]
  BY <1>2, <1>3 DEF SetToSeq
<1> QED BY <1>1, <1>4, SeqDef

LEMMA CardsBegin == CardsInit => CardsInv
<1> SUFFICES ASSUME CardsInit PROVE CardsInv
  OBVIOUS
<1>1. ArrangementOK
  BY BlankIsLayout DEF CardsInit, ArrangementOK
<1>2. <<>> \in Seq(Card) /\ IsInjective(<<>>) /\ ToSet(<<>>) = {}
  BY EmptySeq DEF IsInjective, ToSet
<1>3. DevicesOK
  BY <1>2 DEF CardsInit, DevicesOK
<1>4. SetToSeq(Base) \in Seq(Base) /\ <<Origin>> \in Seq(Base)
  BY ListedSet, CardsAssumption
<1>5. SitesOK
  BY <1>4 DEF CardsInit, SitesOK
<1>6. HandsOK
  BY CardsAssumption DEF CardsInit, HandsOK
<1> QED BY <1>1, <1>3, <1>5, <1>6 DEF CardsInv

LEMMA CardsStep == CardsInv /\ [CardsNext]_cardVars => CardsInv'
<1> SUFFICES ASSUME CardsInv, [CardsNext]_cardVars PROVE CardsInv'
  OBVIOUS
<1>1. CASE \E k \in Card, newField \in BOOLEAN : Hear(k, newField)
  BY <1>1, HearKeeps
<1>2. CASE \E k \in Card : FeedPublishes(k) \/ CloseCard(k) \/ TickDevice(k) \/ SetValueMode(k)
  BY <1>2, FeedKeeps, CloseKeeps, TickKeeps, ValueModeKeeps
<1>3. CASE \E b \in Base, t \in SiteTemplate \cup {Nothing} : LayoutFrame(b, t)
  BY <1>3, LayoutFrameKeeps
<1>4. CASE SetGrid \/ ForgetLayouts \/ LoadLayout \/ PostLayout \/ Reload
  BY <1>4, GridKeeps, ForgetKeeps, LoadKeeps, PostKeeps, ReloadKeeps
<1>5. CASE \E ok \in BOOLEAN : PostAnswered(ok)
  BY <1>5, AnswerKeeps
<1>6. CASE \E b \in Base : SourceRemoved(b) \/ SourceAdded(b)
  BY <1>6, RemovedKeeps, AddedKeeps
<1>7. CASE \E k \in Card, finger \in Finger : PressCard(k, finger) \/ PressValue(k, finger) \/ PressHandle(k, finger)
  BY <1>7, DragBegins, ResizeBegins DEF PressCard, PressValue, PressHandle
<1>8. CASE \E finger \in Finger, before \in Card \cup {EndOfGrid} : DragMove(finger, before)
  BY <1>8, DragMoves
<1>9. CASE \E finger \in Finger, changed \in BOOLEAN : EndDrag(finger) \/ EndResize(finger, changed)
  BY <1>9, DragEnds, ResizeEnds
<1>10. CASE UNCHANGED cardVars
  BY <1>10 DEF cardVars, pageParts, gestures, CardsInv, ArrangementOK, DevicesOK, SitesOK, HandsOK
<1> QED BY <1>1, <1>2, <1>3, <1>4, <1>5, <1>6, <1>7, <1>8, <1>9, <1>10 DEF CardsNext

LEMMA CardsHold == CardsSpec => []CardsInv
<1>1. CardsInit => CardsInv
  BY CardsBegin
<1>2. CardsInv /\ [CardsNext]_cardVars => CardsInv'
  BY CardsStep
<1> QED BY <1>1, <1>2, PTL DEF CardsSpec

\* The arrangement, its stored copy, the list of devices, the latch and the
\* gestures in flight are always of their types, whatever readings, templates
\* and fingers come, and whatever localStorage refuses.
THEOREM CardsTyped == CardsSpec => []CardsTypeOK
<1>1. CardsInv => CardsTypeOK
  BY CardsInvSays
<1> QED BY <1>1, CardsHold, PTL

\* order, hidden and cards of store.js say the same at every step: no card is
\* in the order twice, none has a place without a look or a look without a
\* place, none is hidden that does not exist, and every device has its card.
THEOREM CardsAlwaysAgree == CardsSpec => []CardsAgree
<1>1. CardsInv => CardsAgree
  BY CardsInvSays
<1> QED BY <1>1, CardsHold, PTL

\* Loading a site's arrangement leaves the cards it does not name in their
\* places, and one saved from this page loads as itself (applyTemplate,
\* deriveTemplate).
THEOREM LayoutsAlwaysLoad == CardsSpec => []SiteLayoutsLoad
<1>1. CardsInv => SiteLayoutsLoad
  <2> SUFFICES ASSUME CardsInv PROVE SiteLayoutsLoad
    OBVIOUS
  <2>1. layout \in Layout /\ Agrees(layout) /\ devices \in Seq(Card) /\ DOMAIN layout.order = 1..Len(layout.order)
    BY LayoutParts, LenProperties DEF CardsInv, ArrangementOK, DevicesOK
  <2>2. ASSUME NEW t \in SiteTemplate, NEW i \in DOMAIN layout.order, layout.order[i] \notin ToSet(Matched(t, devices))
        PROVE  ApplyTemplate(t, layout, devices).order[i] = layout.order[i]
    <3>1. t \in Template
      BY CardsAssumption
    <3> QED BY <2>1, <2>2, <3>1, AppliedAgrees
  <2>3. ASSUME IsInjective([i \in DOMAIN devices |-> SlotOf[devices[i]]])
        PROVE  ApplyTemplate(DeriveTemplate(layout, devices), layout, devices) = layout
    BY <2>1, <2>3, DerivedLoads
  <2> QED BY <2>2, <2>3 DEF SiteLayoutsLoad
<1> QED BY <1>1, CardsHold, PTL

\* A new card and a prune leave every card they keep its place among the
\* others, its look and its visibility.
LEMMA NewCardStands ==
  ASSUME NEW l \in Layout, Agrees(l), NEW k \in Card, NEW hideNew, NEW devs,
         NEW p, p = Pruned(EnsureCard(k, hideNew, l), devs), NEW both, both = CardsOf(l) \cap CardsOf(p)
  PROVE  /\ Within(l.order, both) = Within(p.order, both)
         /\ \A c \in both : p.look[c] = l.look[c] /\ (c \in p.hidden <=> c \in l.hidden)
         /\ p.grid = l.grid
<1> DEFINE e == EnsureCard(k, hideNew, l)
           keep == Kept(e, devs)
<1>1. e \in Layout /\ Agrees(e) /\ CardsOf(e) = CardsOf(l) \cup {k} /\ (k \in CardsOf(l) => e = l)
  BY EnsureAgrees
<1>2. /\ l.grid \in Look /\ l.order \in Seq(Card) /\ l.hidden \subseteq Card /\ l.look \in [CardsOf(l) -> Look]
      /\ l = [grid |-> l.grid, order |-> l.order, hidden |-> l.hidden, look |-> l.look]
  BY LayoutParts
<1>3. /\ e.order = l.order \/ (k \notin CardsOf(l) /\ e.order = Append(l.order, k))
      /\ \A c \in CardsOf(l) : e.look[c] = l.look[c] /\ (c \in e.hidden <=> c \in l.hidden)
      /\ e.grid = l.grid
  <2>1. CASE k \in CardsOf(l)
    BY <1>1, <2>1
  <2>2. CASE k \notin CardsOf(l)
    <3> DEFINE look == [c \in CardsOf(l) \cup {k} |-> IF c = k THEN "first" ELSE l.look[c]]
               hidden == IF hideNew /\ k \notin SelfCard THEN l.hidden \cup {k} ELSE l.hidden
    <3>1. e = [grid |-> l.grid, order |-> Append(l.order, k), hidden |-> hidden, look |-> look]
      BY <1>2, <2>2 DEF EnsureCard
    <3>2. \A c \in CardsOf(l) : look[c] = l.look[c] /\ (c \in hidden <=> c \in l.hidden)
      BY <2>2
    <3> HIDE DEF look, hidden
    <3> QED BY <2>2, <3>1, <3>2
  <2> QED BY <2>1, <2>2
<1>4. /\ p = [grid |-> e.grid, order |-> Within(e.order, keep), hidden |-> e.hidden \cap keep,
              look |-> [c \in CardsOf(e) \cap keep |-> e.look[c]]]
      /\ CardsOf(p) = keep
  BY <1>1, PrunedAgrees DEF Pruned, Agrees
<1> HIDE DEF keep, e
<1>5. e.order \in Seq(Card)
  BY <1>1, LayoutParts
<1>6. Within(p.order, both) = Within(e.order, both)
  <2>1. Within(Within(e.order, keep), both) = Within(e.order, keep \cap both)
    BY <1>5, WithinWithin
  <2>2. keep \cap both = both /\ p.order = Within(e.order, keep)
    BY <1>4
  <2> QED BY <2>1, <2>2
<1>7. Within(e.order, both) = Within(l.order, both)
  <2>1. CASE e.order = l.order
    BY <2>1
  <2>2. CASE k \notin CardsOf(l) /\ e.order = Append(l.order, k)
    <3>1. Within(Append(l.order, k), both) = IF k \in both THEN Append(Within(l.order, both), k) ELSE Within(l.order, both)
      BY <1>2, WithinAppend
    <3> QED BY <2>2, <3>1
  <2> QED BY <1>3, <2>1, <2>2
<1>8. ASSUME NEW c \in both PROVE p.look[c] = l.look[c] /\ (c \in p.hidden <=> c \in l.hidden)
  <2>1. c \in CardsOf(l) /\ c \in keep /\ c \in CardsOf(e)
    BY <1>1, <1>4
  <2> QED BY <1>3, <1>4, <2>1
<1>9. p.grid = l.grid
  BY <1>3, <1>4
<1> QED BY <1>6, <1>7, <1>8, <1>9

\* Once the arrangement is the visitor's, an arrival adds and prunes, and no more.
LEMMA ArrivalStands ==
  ASSUME CardsInv, mine, NEW k \in Card, NEW stale, NEW hideNew, NEW newField, Arrives(k, stale, hideNew, newField)
  PROVE  layout' = layout \/ \E devs : layout' = Pruned(EnsureCard(k, hideNew, layout), devs)
<1>1. ~auto.on
  BY DEF CardsInv, SitesOK
<1> QED BY <1>1 DEF Arrives, AutoFires, Save, KeepCards

\* Whatever is not the visitor's doing keeps the visitor's arrangement.
LEMMA OthersStand ==
  ASSUME CardsInv, [CardsNext]_cardVars, mine, edits' = edits, drag' = drag, resize' = resize
  PROVE  layout' = layout \/ \E k \in Card : \E hideNew, devs : layout' = Pruned(EnsureCard(k, hideNew, layout), devs)
<1>1. edits # edits + 1 /\ ~auto.on
  BY CardsAssumption DEF CardsInv, HandsOK, SitesOK
<1>2. ~VisitorMay
  BY <1>1 DEF VisitorMay
<1>3. ASSUME NEW k \in Card, NEW newField \in BOOLEAN, Hear(k, newField) \/ FeedPublishes(k)
      PROVE  layout' = layout \/ \E c \in Card : \E hideNew, devs : layout' = Pruned(EnsureCard(c, hideNew, layout), devs)
  BY <1>3, ArrivalStands DEF Hear, FeedPublishes
<1>4. ASSUME NEW k \in Card, CloseCard(k) \/ TickDevice(k) \/ SetValueMode(k) PROVE FALSE
  BY <1>2, <1>4 DEF CloseCard, TickDevice, SetCardHidden, SetValueMode
<1>5. ASSUME NEW b \in Base, NEW t \in SiteTemplate \cup {Nothing}, LayoutFrame(b, t) PROVE layout' = layout
  BY <1>1, <1>5 DEF LayoutFrame, AutoFires, KeepCards
<1>6. ASSUME SetGrid \/ ForgetLayouts \/ LoadLayout \/ PostLayout \/ Reload PROVE FALSE
  BY <1>1, <1>2, <1>6 DEF SetGrid, ForgetLayouts, LoadLayout, PostLayout, Reload
<1>7. ASSUME NEW ok \in BOOLEAN, PostAnswered(ok) PROVE layout' = layout
  BY <1>7 DEF PostAnswered, KeepCards
<1>8. ASSUME NEW b \in Base, SourceRemoved(b) \/ SourceAdded(b) PROVE FALSE
  BY <1>2, <1>8 DEF SourceRemoved, SourceAdded
<1>9. ASSUME NEW k \in Card, NEW finger \in Finger, PressCard(k, finger) \/ PressValue(k, finger) \/ PressHandle(k, finger) PROVE FALSE
  BY <1>2, <1>9 DEF PressCard, PressValue, PressHandle, BeginDrag, BeginResize
<1>10. ASSUME NEW finger \in Finger, NEW before \in Card \cup {EndOfGrid}, DragMove(finger, before) PROVE layout' = layout
  BY <1>10 DEF DragMove, KeepCards
<1>11. ASSUME NEW finger \in Finger, NEW changed \in BOOLEAN, EndDrag(finger) \/ EndResize(finger, changed) PROVE FALSE
  BY <1>11 DEF EndDrag, EndResize
<1>12. ASSUME UNCHANGED cardVars PROVE layout' = layout
  BY <1>12 DEF cardVars
<1> QED BY <1>3, <1>4, <1>5, <1>6, <1>7, <1>8, <1>9, <1>10, <1>11, <1>12 DEF CardsNext

\* Once an arrangement is the visitor's, a reading, a feed, a late $layout frame
\* or an answer leaves every card that stays its place, look and visibility.
THEOREM EditsAlwaysStand == CardsSpec => EditsStand
<1>1. CardsInv /\ [CardsNext]_cardVars =>
        [mine /\ edits' = edits /\ drag' = drag /\ resize' = resize =>
           LET both == CardsOf(layout) \cap CardsOf(layout')
           IN /\ Within(layout.order, both) = Within(layout'.order, both)
              /\ \A k \in both : layout'.look[k] = layout.look[k] /\ (k \in layout'.hidden <=> k \in layout.hidden)
              /\ layout'.grid = layout.grid]_cardVars
  <2> SUFFICES ASSUME CardsInv, [CardsNext]_cardVars, mine, edits' = edits, drag' = drag, resize' = resize
               PROVE  LET both == CardsOf(layout) \cap CardsOf(layout')
                      IN /\ Within(layout.order, both) = Within(layout'.order, both)
                         /\ \A k \in both : layout'.look[k] = layout.look[k] /\ (k \in layout'.hidden <=> k \in layout.hidden)
                         /\ layout'.grid = layout.grid
    OBVIOUS
  <2>1. CASE layout' = layout
    BY <2>1
  <2>2. ASSUME NEW k \in Card, NEW hideNew, NEW devs, layout' = Pruned(EnsureCard(k, hideNew, layout), devs)
        PROVE  LET both == CardsOf(layout) \cap CardsOf(layout')
               IN /\ Within(layout.order, both) = Within(layout'.order, both)
                  /\ \A c \in both : layout'.look[c] = layout.look[c] /\ (c \in layout'.hidden <=> c \in layout.hidden)
                  /\ layout'.grid = layout.grid
    <3>1. PICK p, l : p = layout' /\ l = layout
      OBVIOUS
    <3>2. l \in Layout /\ Agrees(l)
      BY <3>1 DEF CardsInv, ArrangementOK
    <3> QED BY <2>2, <3>1, <3>2, NewCardStands
  <2> QED BY <2>1, <2>2, OthersStand
<1> QED BY <1>1, CardsHold, PTL DEF CardsSpec, EditsStand

-----------------------------------------------------------------------------
(***************************************************************************)
(* CardLayout.  A step that changes the arrangement saves it, or gives up  *)
(* on storing it, or forgets what is stored.                               *)
(***************************************************************************)
LEMMA SavesRestore == ASSUME ReloadRestores, NEW l, NEW devs, Save(l, devs) PROVE ReloadRestores'
  BY DEF Save, ReloadRestores

LEMMA KeptRestores == ReloadRestores /\ KeepCards => ReloadRestores'
  BY DEF KeepCards, ReloadRestores

LEMMA EditsRestore == ASSUME ReloadRestores, NEW l, Edit(l) PROVE ReloadRestores'
  BY SavesRestore DEF Edit

\* A device that is heard and a feed that publishes.
LEMMA ArrivalsRestore ==
  ASSUME ReloadRestores, NEW k, NEW stale, NEW hideNew, NEW newField, Arrives(k, stale, hideNew, newField)
  PROVE  ReloadRestores'
  BY SavesRestore, KeptRestores DEF Arrives

\* Frames, answers and what a page does with them.
LEMMA PageRestores ==
  ReloadRestores /\ (\/ \E b \in Base, t \in SiteTemplate \cup {Nothing} : LayoutFrame(b, t)
                     \/ PostLayout \/ Reload \/ \E ok \in BOOLEAN : PostAnswered(ok)
                     \/ \E b \in Base : SourceRemoved(b) \/ SourceAdded(b)) => ReloadRestores'
<1>1. ASSUME ReloadRestores, NEW b \in Base, NEW t \in SiteTemplate \cup {Nothing}, LayoutFrame(b, t) PROVE ReloadRestores'
  BY <1>1, SavesRestore, KeptRestores DEF LayoutFrame
<1>2. ASSUME ReloadRestores, PostLayout \/ \E ok \in BOOLEAN : PostAnswered(ok) PROVE ReloadRestores'
  BY <1>2, KeptRestores DEF PostLayout, PostAnswered
<1>3. ASSUME ReloadRestores, NEW b \in Base, SourceRemoved(b) \/ SourceAdded(b) PROVE ReloadRestores'
  BY <1>3, KeptRestores DEF SourceRemoved, SourceAdded
<1>4. ASSUME ReloadRestores, Reload PROVE ReloadRestores'
  BY <1>4 DEF Reload, ReloadRestores
<1> QED BY <1>1, <1>2, <1>3, <1>4

\* What the visitor does.
LEMMA VisitorRestores ==
  ReloadRestores /\ (\/ \E k \in Card : CloseCard(k) \/ TickDevice(k) \/ SetValueMode(k)
                     \/ SetGrid \/ ForgetLayouts \/ LoadLayout) => ReloadRestores'
<1>1. ASSUME ReloadRestores, NEW k \in Card, CloseCard(k) \/ TickDevice(k) PROVE ReloadRestores'
  BY <1>1, EditsRestore DEF CloseCard, TickDevice, SetCardHidden
<1>2. ASSUME ReloadRestores, (\E k \in Card : SetValueMode(k)) \/ SetGrid PROVE ReloadRestores'
  BY <1>2, EditsRestore DEF SetValueMode, SetGrid
<1>3. ASSUME ReloadRestores, LoadLayout PROVE ReloadRestores'
  BY <1>3, SavesRestore DEF LoadLayout
<1>4. ASSUME ReloadRestores, ForgetLayouts PROVE ReloadRestores'
  BY <1>4 DEF ForgetLayouts, ReloadRestores
<1> QED BY <1>1, <1>2, <1>3, <1>4

LEMMA GesturesRestore ==
  ReloadRestores /\ (\/ \E k \in Card, finger \in Finger : PressCard(k, finger) \/ PressValue(k, finger) \/ PressHandle(k, finger)
                     \/ \E finger \in Finger, before \in Card \cup {EndOfGrid} : DragMove(finger, before)
                     \/ \E finger \in Finger, changed \in BOOLEAN : EndDrag(finger) \/ EndResize(finger, changed))
    => ReloadRestores'
<1>1. ASSUME ReloadRestores, NEW k \in Card, NEW finger \in Finger,
             PressCard(k, finger) \/ PressValue(k, finger) \/ PressHandle(k, finger) PROVE ReloadRestores'
  BY <1>1, KeptRestores DEF PressCard, PressValue, PressHandle, BeginDrag, BeginResize
<1>2. ASSUME ReloadRestores, NEW finger \in Finger, NEW before, DragMove(finger, before) PROVE ReloadRestores'
  BY <1>2, KeptRestores DEF DragMove
<1>3. ASSUME ReloadRestores, NEW finger \in Finger, EndDrag(finger) PROVE ReloadRestores'
  BY <1>3, KeptRestores, EditsRestore DEF EndDrag
<1>4. ASSUME ReloadRestores, NEW finger \in Finger, NEW changed \in BOOLEAN, EndResize(finger, changed) PROVE ReloadRestores'
  BY <1>4, KeptRestores, EditsRestore DEF EndResize
<1> QED BY <1>1, <1>2, <1>3, <1>4

\* For any cards, templates and gestures: what the page shows is what a reload
\* restores, unless localStorage refused (saveCardState and loadCardState).
THEOREM LayoutIsStored == CardsSpec => []ReloadRestores
<1>1. CardsInit => ReloadRestores
  BY DEF CardsInit, ReloadRestores
<1>2. ReloadRestores /\ UNCHANGED cardVars => ReloadRestores'
  BY DEF cardVars, ReloadRestores
<1>3. ReloadRestores /\ [CardsNext]_cardVars => ReloadRestores'
  BY <1>2, ArrivalsRestore, PageRestores, VisitorRestores, GesturesRestore DEF CardsNext, Hear, FeedPublishes
<1> QED BY <1>1, <1>3, PTL DEF CardsSpec
=============================================================================
