------------------------- MODULE SubsequenceProofs -------------------------
(***************************************************************************)
(* Lemmas about the subsequences of Subsequences.tla, and about sequences  *)
(* at large, which the proofs of the card layout and of the receiver's     *)
(* table of brokers share.                                                 *)
(***************************************************************************)
EXTENDS Subsequences, SequencesExt, Integers, SequenceTheorems, FiniteSetTheorems, WellFoundedInduction, TLAPS

-----------------------------------------------------------------------------
(* Induction, over sets of numbers and of sequences *)

LEMMA LeastNumber ==
  ASSUME NEW S \in SUBSET Nat, S # {}
  PROVE  \E n \in S : \A m \in S : n <= m
<1> DEFINE R == {p \in Nat \X Nat : p[1] < p[2]}
<1>1. IsWellFoundedOn(R, Nat)
  BY NatLessThanWellFounded DEF OpToRel
<1>2. \A x, y \in Nat : <<y, x>> \in R <=> y < x
  OBVIOUS
<1> HIDE DEF R
<1>3. PICK n \in S : \A m \in S : ~ (<<m, n>> \in R)
  BY <1>1, WFMin
<1>4. ASSUME NEW m \in S PROVE n <= m
  <2>1. ~ (m < n) /\ n \in Nat /\ m \in Nat
    BY <1>2, <1>3
  <2> QED BY <2>1
<1> QED BY <1>4

LEMMA GreatestNumber ==
  ASSUME NEW n \in Nat, NEW S \in SUBSET (0..n), S # {}
  PROVE  \E m \in S : \A k \in S : m >= k
<1> DEFINE R == {r \in Nat : n - r \in S}
<1>1. R \in SUBSET Nat
  OBVIOUS
<1>2. PICK x \in S : TRUE
  OBVIOUS
<1>3. n - x \in R
  BY <1>2
<1>4. PICK r \in R : \A q \in R : r <= q
  BY <1>1, <1>3, LeastNumber
<1>5. r \in Nat /\ n - r \in S
  BY <1>4
<1>6. ASSUME NEW k \in S PROVE n - r >= k
  <2>1. n - k \in R /\ k \in Int
    OBVIOUS
  <2> HIDE DEF R
  <2>2. r <= n - k
    BY <1>4, <2>1
  <2> QED BY <1>5, <2>1, <2>2
<1> QED BY <1>5, <1>6

LEMMA EveryNumber ==
  ASSUME NEW T, 0 \in T, \A n \in Nat : n \in T => n + 1 \in T
  PROVE  \A n \in Nat : n \in T
<1> SUFFICES ASSUME {n \in Nat : n \notin T} # {} PROVE FALSE
  OBVIOUS
<1>1. PICK n \in Nat : n \notin T /\ \A m \in Nat : m \notin T => n <= m
  <2> DEFINE S == {n \in Nat : n \notin T}
  <2>1. PICK n \in S : \A m \in S : n <= m
    BY LeastNumber
  <2> QED BY <2>1
<1>2. n # 0 /\ n - 1 \in Nat /\ ~(n <= n - 1)
  BY <1>1
<1>3. n - 1 \in T
  BY <1>1, <1>2
<1> QED BY <1>1, <1>2, <1>3

LEMMA EverySequence ==
  ASSUME NEW S, NEW T, <<>> \in T,
         \A s \in Seq(S), x \in S : s \in T => Append(s, x) \in T
  PROVE  \A s \in Seq(S) : s \in T
<1> DEFINE N == {n \in Nat : \A s \in Seq(S) : Len(s) = n => s \in T}
<1>1. 0 \in N
  BY EmptySeq
<1>2. ASSUME NEW n \in Nat, n \in N PROVE n + 1 \in N
  <2> SUFFICES ASSUME NEW s \in Seq(S), Len(s) = n + 1 PROVE s \in T
    OBVIOUS
  <2>1. s # <<>>
    BY EmptySeq
  <2>2. PICK r \in Seq(S), x \in S : s = Append(r, x)
    BY <2>1, SequenceEmptyOrAppend
  <2>3. Len(r) = n
    BY <2>2, AppendProperties, LenProperties
  <2>4. r \in T
    BY <1>2, <2>3
  <2> QED BY <2>2, <2>4
<1> HIDE DEF N
<1>3. \A n \in Nat : n \in N
  BY <1>1, <1>2, EveryNumber
<1> QED BY <1>3, LenProperties DEF N

-----------------------------------------------------------------------------
(* What Within computes *)

Step(s, keep, f, n) ==
  IF n = 0 THEN <<>> ELSE IF s[n] \in keep THEN Append(f[n - 1], s[n]) ELSE f[n - 1]

Steps(s, keep) == CHOOSE f : f = [n \in Nat |-> Step(s, keep, f, n)]

Follows(g, n, s, keep) == \A m \in 0..n : g[m] = Step(s, keep, g, m)

LEMMA FollowsAgree ==
  ASSUME NEW s, NEW keep, NEW n \in Nat, NEW g, NEW h, Follows(g, n, s, keep), Follows(h, n, s, keep)
  PROVE  \A m \in 0..n : g[m] = h[m]
<1> DEFINE T == {m \in Nat : m <= n => g[m] = h[m]}
<1>1. 0 \in T
  BY DEF Follows, Step
<1>2. ASSUME NEW m \in Nat, m \in T PROVE m + 1 \in T
  <2> SUFFICES ASSUME m + 1 <= n PROVE g[m + 1] = h[m + 1]
    OBVIOUS
  <2>1. g[m] = h[m] /\ (m + 1) - 1 = m /\ m + 1 # 0 /\ m + 1 \in 0..n
    BY <1>2
  <2>2. g[m + 1] = Step(s, keep, g, m + 1) /\ h[m + 1] = Step(s, keep, h, m + 1)
    BY <2>1 DEF Follows
  <2> QED BY <2>1, <2>2 DEF Step
<1> HIDE DEF T
<1>3. \A m \in Nat : m \in T
  BY <1>1, <1>2, EveryNumber
<1> QED BY <1>3 DEF T

LEMMA SomeFollows ==
  ASSUME NEW s, NEW keep
  PROVE  \A n \in Nat : \E g : Follows(g, n, s, keep)
<1> DEFINE T == {n \in Nat : \E g : Follows(g, n, s, keep)}
<1>1. 0 \in T
  <2>1. Follows([m \in 0..0 |-> <<>>], 0, s, keep)
    BY DEF Follows, Step
  <2> QED BY <2>1
<1>2. ASSUME NEW n \in Nat, n \in T PROVE n + 1 \in T
  <2>1. PICK g : Follows(g, n, s, keep)
    BY <1>2
  <2> DEFINE h == [m \in 0..(n + 1) |-> IF m = n + 1 THEN Step(s, keep, g, m) ELSE g[m]]
  <2>2. ASSUME NEW m \in 0..(n + 1) PROVE h[m] = Step(s, keep, h, m)
    <3>1. CASE m = n + 1
      <4>1. h[m] = Step(s, keep, g, m) /\ m # 0 /\ h[m - 1] = g[m - 1]
        BY <3>1
      <4> QED BY <4>1 DEF Step
    <3>2. CASE m # n + 1
      <4>1. h[m] = g[m] /\ m \in 0..n /\ (m # 0 => h[m - 1] = g[m - 1])
        BY <3>2
      <4>2. g[m] = Step(s, keep, g, m)
        BY <4>1, <2>1 DEF Follows
      <4> HIDE DEF h
      <4> QED BY <4>1, <4>2 DEF Step
    <3> QED BY <3>1, <3>2
  <2> HIDE DEF h
  <2>3. Follows(h, n + 1, s, keep)
    BY <2>2 DEF Follows
  <2> QED BY <2>3
<1> HIDE DEF T
<1>3. \A n \in Nat : n \in T
  BY <1>1, <1>2, EveryNumber
<1> QED BY <1>3 DEF T

LEMMA StepsFollow ==
  ASSUME NEW s, NEW keep
  PROVE  \A n \in Nat : Steps(s, keep)[n] = Step(s, keep, Steps(s, keep), n)
<1> DEFINE G(n) == CHOOSE g : Follows(g, n, s, keep)
           f == [n \in Nat |-> G(n)[n]]
<1>1. \A n \in Nat : Follows(G(n), n, s, keep)
  BY SomeFollows
<1> HIDE DEF G
<1>2. ASSUME NEW n \in Nat PROVE f[n] = Step(s, keep, f, n)
  <2>1. G(n)[n] = Step(s, keep, G(n), n)
    BY <1>1 DEF Follows
  <2>2. CASE n = 0
    BY <2>1, <2>2 DEF Step
  <2>3. CASE n # 0
    <3>1. n - 1 \in Nat /\ n - 1 \in 0..(n - 1) /\ 0..(n - 1) \subseteq 0..n
      BY <2>3
    <3>2. Follows(G(n - 1), n - 1, s, keep) /\ Follows(G(n), n - 1, s, keep)
      BY <1>1, <3>1 DEF Follows
    <3>3. G(n - 1)[n - 1] = G(n)[n - 1]
      BY <3>1, <3>2, FollowsAgree
    <3>4. f[n] = G(n)[n] /\ f[n - 1] = G(n)[n - 1]
      BY <3>1, <3>3
    <3> HIDE DEF f
    <3> QED BY <2>1, <3>4, <2>3 DEF Step
  <2> QED BY <2>2, <2>3
<1>3. f = [n \in Nat |-> Step(s, keep, f, n)]
  <2> DEFINE e == [n \in Nat |-> Step(s, keep, f, n)]
  <2>1. \A n \in Nat : f[n] = e[n]
    BY <1>2
  <2> QED BY <2>1
<1> HIDE DEF f
<1>4. Steps(s, keep) = [n \in Nat |-> Step(s, keep, Steps(s, keep), n)]
  BY <1>3 DEF Steps
<1> HIDE DEF Steps
<1> QED BY <1>4

LEMMA WithinIsSteps ==
  ASSUME NEW s, NEW keep PROVE Within(s, keep) = Steps(s, keep)[Len(s)]
BY DEF Within, Steps, Step

\* A filter of the empty sequence, and of one that is a shorter one appended to.
LEMMA WithinEmpty == ASSUME NEW keep PROVE Within(<<>>, keep) = <<>>
<1>1. Within(<<>>, keep) = Steps(<<>>, keep)[0]
  BY WithinIsSteps
<1> QED BY <1>1, StepsFollow DEF Step

LEMMA WithinAppend ==
  ASSUME NEW S, NEW s \in Seq(S), NEW x \in S, NEW keep
  PROVE  Within(Append(s, x), keep) = IF x \in keep THEN Append(Within(s, keep), x) ELSE Within(s, keep)
<1> DEFINE t == Append(s, x)
           n == Len(s)
           f == Steps(s, keep)
           g == Steps(t, keep)
<1>1. /\ n \in Nat /\ Len(t) = n + 1 /\ t[n + 1] = x
      /\ \A m \in 1..n : t[m] = s[m]
  BY AppendProperties, LenProperties
<1>2. (\A m \in Nat : f[m] = Step(s, keep, f, m)) /\ (\A m \in Nat : g[m] = Step(t, keep, g, m))
  BY StepsFollow
<1>3. Within(s, keep) = f[n] /\ Within(t, keep) = g[n + 1]
  BY <1>1, WithinIsSteps
<1> HIDE DEF t, n, f, g
<1>4. Follows(f, n, s, keep) /\ Follows(g, n, s, keep)
  <2>1. ASSUME NEW m \in 0..n PROVE g[m] = Step(s, keep, g, m)
    BY <1>1, <1>2 DEF Step
  <2> QED BY <1>1, <1>2, <2>1 DEF Follows
<1>5. f[n] = g[n]
  BY <1>1, <1>4, FollowsAgree
<1>6. g[n + 1] = IF x \in keep THEN Append(g[n], x) ELSE g[n]
  BY <1>1, <1>2 DEF Step
<1> QED BY <1>3, <1>5, <1>6 DEF t

LEMMA WithinType ==
  ASSUME NEW S, NEW s \in Seq(S), NEW keep
  PROVE  Within(s, keep) \in Seq(S) /\ Len(Within(s, keep)) <= Len(s)
<1> DEFINE T == {r \in Seq(S) : Within(r, keep) \in Seq(S) /\ Len(Within(r, keep)) <= Len(r)}
<1>1. <<>> \in T
  <2>1. <<>> \in Seq(S) /\ Within(<<>>, keep) = <<>> /\ Len(<<>>) = 0
    BY WithinEmpty, EmptySeq
  <2>2. Within(<<>>, keep) \in Seq(S) /\ Len(Within(<<>>, keep)) <= Len(<<>>)
    <3>1. \A f : f = <<>> => f \in Seq(S) /\ Len(f) <= Len(<<>>)
      OBVIOUS
    <3> QED BY <2>1, <3>1
  <2> QED BY <2>1, <2>2
<1>2. ASSUME NEW r \in Seq(S), NEW x \in S, r \in T PROVE Append(r, x) \in T
  <2>1. /\ Within(r, keep) \in Seq(S) /\ Len(Within(r, keep)) <= Len(r)
        /\ Len(r) \in Nat /\ Len(Within(r, keep)) \in Nat
    BY <1>2, LenProperties
  <2>2. Append(r, x) \in Seq(S) /\ Len(Append(r, x)) = Len(r) + 1
    BY AppendProperties
  <2>3. Append(Within(r, keep), x) \in Seq(S) /\ Len(Append(Within(r, keep), x)) = Len(Within(r, keep)) + 1
    BY <2>1, AppendProperties
  <2>w. Within(Append(r, x), keep) = IF x \in keep THEN Append(Within(r, keep), x) ELSE Within(r, keep)
    BY WithinAppend
  <2> HIDE DEF T
  <2>4. Within(Append(r, x), keep) \in Seq(S) /\ Len(Within(Append(r, x), keep)) <= Len(Append(r, x))
    <3>1. CASE x \in keep
      BY <2>1, <2>2, <2>3, <2>w, <3>1
    <3>2. CASE x \notin keep
      BY <2>1, <2>2, <2>w, <3>2
    <3> QED BY <3>1, <3>2
  <2> QED BY <2>2, <2>4 DEF T
<1> HIDE DEF T
<1>3. \A r \in Seq(S) : r \in T
  BY <1>1, <1>2, EverySequence
<1> QED BY <1>3 DEF T

-----------------------------------------------------------------------------
(* What a sequence holds *)

LEMMA ToSetOf ==
  ASSUME NEW S, NEW s \in Seq(S)
  PROVE  ToSet(s) = {s[i] : i \in 1..Len(s)} /\ ToSet(s) \subseteq S
BY LenProperties DEF ToSet

LEMMA ToSetAppend ==
  ASSUME NEW S, NEW s \in Seq(S), NEW x \in S
  PROVE  ToSet(Append(s, x)) = ToSet(s) \cup {x}
<1>1. Append(s, x) \in Seq(S) /\ Len(Append(s, x)) = Len(s) + 1 /\ Len(s) \in Nat
  BY AppendProperties, LenProperties
<1>2. \A i \in 1..(Len(s) + 1) : Append(s, x)[i] = IF i = Len(s) + 1 THEN x ELSE s[i]
  BY AppendProperties, <1>1
<1>3. ToSet(s) = {s[i] : i \in 1..Len(s)} /\ ToSet(Append(s, x)) = {Append(s, x)[i] : i \in 1..(Len(s) + 1)}
  BY ToSetOf, <1>1
<1> QED BY <1>1, <1>2, <1>3

LEMMA ToSetConcat ==
  ASSUME NEW S, NEW s \in Seq(S), NEW t \in Seq(S)
  PROVE  ToSet(s \o t) = ToSet(s) \cup ToSet(t)
<1>1. /\ s \o t \in Seq(S) /\ Len(s \o t) = Len(s) + Len(t) /\ Len(s) \in Nat /\ Len(t) \in Nat
      /\ \A i \in 1..(Len(s) + Len(t)) : (s \o t)[i] = IF i <= Len(s) THEN s[i] ELSE t[i - Len(s)]
  BY ConcatProperties, LenProperties
<1>2. /\ ToSet(s) = {s[i] : i \in 1..Len(s)} /\ ToSet(t) = {t[i] : i \in 1..Len(t)}
      /\ ToSet(s \o t) = {(s \o t)[i] : i \in 1..(Len(s) + Len(t))}
  BY <1>1, ToSetOf
<1>3. ASSUME NEW x \in ToSet(s) \cup ToSet(t) PROVE x \in ToSet(s \o t)
  <2>1. CASE x \in ToSet(s)
    BY <1>1, <1>2, <2>1
  <2>2. CASE x \in ToSet(t)
    <3>1. PICK i \in 1..Len(t) : x = t[i]
      BY <1>2, <2>2
    <3>2. i + Len(s) \in 1..(Len(s) + Len(t)) /\ ~(i + Len(s) <= Len(s)) /\ (i + Len(s)) - Len(s) = i
      BY <1>1
    <3>3. x = (s \o t)[i + Len(s)]
      BY <1>1, <3>1, <3>2
    <3> QED BY <1>2, <3>2, <3>3
  <2> QED BY <2>1, <2>2
<1>4. ASSUME NEW x \in ToSet(s \o t) PROVE x \in ToSet(s) \cup ToSet(t)
  <2>1. PICK i \in 1..(Len(s) + Len(t)) : x = (s \o t)[i]
    BY <1>2
  <2> QED BY <1>1, <1>2, <2>1
<1> QED BY <1>3, <1>4

LEMMA InjectiveAppend ==
  ASSUME NEW S, NEW s \in Seq(S), NEW x \in S
  PROVE  IsInjective(Append(s, x)) <=> IsInjective(s) /\ x \notin ToSet(s)
<1>1. /\ Append(s, x) \in Seq(S) /\ Len(Append(s, x)) = Len(s) + 1 /\ Len(s) \in Nat
      /\ DOMAIN Append(s, x) = 1..(Len(s) + 1) /\ DOMAIN s = 1..Len(s)
  BY AppendProperties, LenProperties
<1>2. \A i \in 1..(Len(s) + 1) : Append(s, x)[i] = IF i = Len(s) + 1 THEN x ELSE s[i]
  BY AppendProperties, <1>1
<1>3. ToSet(s) = {s[i] : i \in 1..Len(s)}
  BY ToSetOf
<1>4. ASSUME IsInjective(Append(s, x)) PROVE IsInjective(s) /\ x \notin ToSet(s)
  <2>1. \A i, j \in 1..(Len(s) + 1) : Append(s, x)[i] = Append(s, x)[j] => i = j
    BY <1>1, <1>4 DEF IsInjective
  <2> QED BY <1>1, <1>2, <1>3, <2>1 DEF IsInjective
<1>5. ASSUME IsInjective(s), x \notin ToSet(s) PROVE IsInjective(Append(s, x))
  BY <1>1, <1>2, <1>3, <1>5 DEF IsInjective
<1> QED BY <1>4, <1>5

LEMMA ToSetWithin ==
  ASSUME NEW S, NEW s \in Seq(S), NEW keep
  PROVE  ToSet(Within(s, keep)) = ToSet(s) \cap keep
<1> DEFINE T == {r \in Seq(S) : ToSet(Within(r, keep)) = ToSet(r) \cap keep}
<1>1. <<>> \in T
  BY WithinEmpty DEF ToSet
<1>2. ASSUME NEW r \in Seq(S), NEW x \in S, r \in T PROVE Append(r, x) \in T
  <2>1. Append(r, x) \in Seq(S) /\ Within(r, keep) \in Seq(S)
    BY AppendProperties, WithinType
  <2>2. /\ ToSet(Append(r, x)) = ToSet(r) \cup {x}
        /\ ToSet(Append(Within(r, keep), x)) = ToSet(Within(r, keep)) \cup {x}
    BY <2>1, ToSetAppend
  <2>w. Within(Append(r, x), keep) = IF x \in keep THEN Append(Within(r, keep), x) ELSE Within(r, keep)
    BY WithinAppend
  <2> QED BY <1>2, <2>1, <2>2, <2>w
<1> HIDE DEF T
<1>3. \A r \in Seq(S) : r \in T
  BY <1>1, <1>2, EverySequence
<1> QED BY <1>3 DEF T

LEMMA InjectiveWithin ==
  ASSUME NEW S, NEW s \in Seq(S), NEW keep, IsInjective(s)
  PROVE  IsInjective(Within(s, keep))
<1> DEFINE T == {r \in Seq(S) : IsInjective(r) => IsInjective(Within(r, keep))}
<1>1. <<>> \in T
  BY WithinEmpty
<1>2. ASSUME NEW r \in Seq(S), NEW x \in S, r \in T PROVE Append(r, x) \in T
  <2>1. Append(r, x) \in Seq(S) /\ Within(r, keep) \in Seq(S)
    BY AppendProperties, WithinType
  <2>2. SUFFICES ASSUME IsInjective(Append(r, x)) PROVE IsInjective(Within(Append(r, x), keep))
    BY <2>1
  <2>3. IsInjective(r) /\ x \notin ToSet(r)
    BY <2>2, InjectiveAppend
  <2>4. IsInjective(Within(r, keep)) /\ x \notin ToSet(Within(r, keep))
    BY <1>2, <2>3, ToSetWithin
  <2>5. IsInjective(Append(Within(r, keep), x))
    BY <2>1, <2>4, InjectiveAppend
  <2> QED BY <2>4, <2>5, WithinAppend
<1> HIDE DEF T
<1>3. \A r \in Seq(S) : r \in T
  BY <1>1, <1>2, EverySequence
<1> QED BY <1>3 DEF T

-----------------------------------------------------------------------------
(* Filters of filters, and filters of the same elements *)

LEMMA WithinWithin ==
  ASSUME NEW S, NEW s \in Seq(S), NEW keep, NEW both
  PROVE  Within(Within(s, keep), both) = Within(s, keep \cap both)
<1> DEFINE T == {r \in Seq(S) : Within(Within(r, keep), both) = Within(r, keep \cap both)}
<1>1. <<>> \in T
  BY WithinEmpty
<1>2. ASSUME NEW r \in Seq(S), NEW x \in S, r \in T PROVE Append(r, x) \in T
  <2>1. Append(r, x) \in Seq(S) /\ Within(r, keep) \in Seq(S)
    BY AppendProperties, WithinType
  <2>2. Within(Append(r, x), keep) = IF x \in keep THEN Append(Within(r, keep), x) ELSE Within(r, keep)
    BY WithinAppend
  <2>3. Within(Append(Within(r, keep), x), both) = IF x \in both THEN Append(Within(Within(r, keep), both), x)
                                                   ELSE Within(Within(r, keep), both)
    BY <2>1, WithinAppend
  <2>4. Within(Append(r, x), keep \cap both) = IF x \in keep \cap both THEN Append(Within(r, keep \cap both), x)
                                               ELSE Within(r, keep \cap both)
    BY WithinAppend
  <2>5. Within(Within(r, keep), both) = Within(r, keep \cap both)
    BY <1>2
  <2>6. CASE x \in keep
    <3>1. Within(Append(r, x), keep) = Append(Within(r, keep), x)
      BY <2>2, <2>6
    <3>2. Within(Within(Append(r, x), keep), both) = Within(Append(r, x), keep \cap both)
      BY <2>3, <2>4, <2>5, <2>6, <3>1
    <3> QED BY <2>1, <3>2
  <2>7. CASE x \notin keep
    <3>1. Within(Append(r, x), keep) = Within(r, keep)
      BY <2>2, <2>7
    <3>2. Within(Within(Append(r, x), keep), both) = Within(Append(r, x), keep \cap both)
      BY <2>4, <2>5, <2>7, <3>1
    <3> QED BY <2>1, <3>2
  <2> QED BY <2>6, <2>7
<1> HIDE DEF T
<1>3. \A r \in Seq(S) : r \in T
  BY <1>1, <1>2, EverySequence
<1> QED BY <1>3 DEF T

LEMMA WithinSame ==
  ASSUME NEW S, NEW s \in Seq(S), NEW keep, NEW other, ToSet(s) \cap keep = ToSet(s) \cap other
  PROVE  Within(s, keep) = Within(s, other)
<1> DEFINE T == {r \in Seq(S) : ToSet(r) \cap keep = ToSet(r) \cap other => Within(r, keep) = Within(r, other)}
<1>1. <<>> \in T
  BY WithinEmpty
<1>2. ASSUME NEW r \in Seq(S), NEW x \in S, r \in T PROVE Append(r, x) \in T
  <2>1. Append(r, x) \in Seq(S) /\ ToSet(Append(r, x)) = ToSet(r) \cup {x}
    BY AppendProperties, ToSetAppend
  <2>2. SUFFICES ASSUME (ToSet(r) \cup {x}) \cap keep = (ToSet(r) \cup {x}) \cap other
                 PROVE  Within(Append(r, x), keep) = Within(Append(r, x), other)
    BY <2>1
  <2>3. ToSet(r) \cap keep = ToSet(r) \cap other /\ (x \in keep <=> x \in other)
    BY <2>2
  <2>4. Within(r, keep) = Within(r, other)
    BY <1>2, <2>3
  <2>w. Within(Append(r, x), keep) = IF x \in keep THEN Append(Within(r, keep), x) ELSE Within(r, keep)
    BY WithinAppend
  <2>v. Within(Append(r, x), other) = IF x \in other THEN Append(Within(r, other), x) ELSE Within(r, other)
    BY WithinAppend
  <2> QED BY <2>3, <2>4, <2>v, <2>w
<1> HIDE DEF T
<1>3. \A r \in Seq(S) : r \in T
  BY <1>1, <1>2, EverySequence
<1> QED BY <1>3 DEF T

LEMMA WithinAll ==
  ASSUME NEW S, NEW s \in Seq(S), NEW keep, ToSet(s) \subseteq keep
  PROVE  Within(s, keep) = s
<1> DEFINE T == {r \in Seq(S) : ToSet(r) \subseteq keep => Within(r, keep) = r}
<1>1. <<>> \in T
  BY WithinEmpty
<1>2. ASSUME NEW r \in Seq(S), NEW x \in S, r \in T PROVE Append(r, x) \in T
  <2>1. Append(r, x) \in Seq(S) /\ ToSet(Append(r, x)) = ToSet(r) \cup {x}
    BY AppendProperties, ToSetAppend
  <2> QED BY <1>2, <2>1, WithinAppend
<1> HIDE DEF T
<1>3. \A r \in Seq(S) : r \in T
  BY <1>1, <1>2, EverySequence
<1> QED BY <1>3 DEF T

LEMMA WithinConcat ==
  ASSUME NEW S, NEW s \in Seq(S), NEW t \in Seq(S), NEW keep
  PROVE  Within(s \o t, keep) = Within(s, keep) \o Within(t, keep)
<1> DEFINE T == {r \in Seq(S) : Within(s \o r, keep) = Within(s, keep) \o Within(r, keep)}
<1>1. <<>> \in T
  BY WithinEmpty, WithinType, ConcatEmptySeq, EmptySeq
<1>2. ASSUME NEW r \in Seq(S), NEW x \in S, r \in T PROVE Append(r, x) \in T
  <2>1. Append(r, x) \in Seq(S) /\ s \o r \in Seq(S) /\ <<x>> \in Seq(S)
        /\ Within(r, keep) \in Seq(S) /\ Within(s, keep) \in Seq(S)
    BY AppendProperties, ConcatProperties, WithinType
  <2>2. s \o Append(r, x) = Append(s \o r, x)
    <3>1. Append(r, x) = r \o <<x>> /\ Append(s \o r, x) = (s \o r) \o <<x>>
      BY <2>1, AppendIsConcat
    <3>2. (s \o r) \o <<x>> = s \o (r \o <<x>>)
      BY <2>1, ConcatAssociative
    <3> QED BY <3>1, <3>2
  <2>3. Within(s, keep) \o Append(Within(r, keep), x) = Append(Within(s, keep) \o Within(r, keep), x)
    <3>1. /\ Append(Within(r, keep), x) = Within(r, keep) \o <<x>>
          /\ Append(Within(s, keep) \o Within(r, keep), x) = (Within(s, keep) \o Within(r, keep)) \o <<x>>
      BY <2>1, AppendIsConcat, ConcatProperties
    <3>2. ASSUME NEW p \in Seq(S), NEW q \in Seq(S), NEW u \in Seq(S) PROVE (p \o q) \o u = p \o (q \o u)
      OBVIOUS
    <3> QED BY <2>1, <3>1, <3>2
  <2>4. Within(Append(s \o r, x), keep) = IF x \in keep THEN Append(Within(s \o r, keep), x) ELSE Within(s \o r, keep)
    BY <2>1, WithinAppend
  <2>5. Within(Append(r, x), keep) = IF x \in keep THEN Append(Within(r, keep), x) ELSE Within(r, keep)
    BY WithinAppend
  <2> QED BY <1>2, <2>1, <2>2, <2>3, <2>4, <2>5
<1> HIDE DEF T
<1>3. \A r \in Seq(S) : r \in T
  BY <1>1, <1>2, EverySequence
<1> QED BY <1>3 DEF T

\* What a filter leaves nothing of is empty, and can be left off.
LEMMA NoElements == ASSUME NEW S, NEW s \in Seq(S), ToSet(s) = {} PROVE s = <<>>
<1>1. ToSet(s) = {s[i] : i \in 1..Len(s)}
  BY ToSetOf
<1>2. Len(s) \in Nat
  BY LenProperties
<1>3. 1 \notin 1..Len(s)
  BY <1>1
<1>4. Len(s) = 0
  BY <1>2, <1>3
<1> QED BY <1>4, EmptySeq

LEMMA WithinNone ==
  ASSUME NEW S, NEW s \in Seq(S), NEW keep, ToSet(s) \cap keep = {}
  PROVE  Within(s, keep) = <<>>
<1>1. Within(s, keep) \in Seq(S)
  BY WithinType
<1>2. ToSet(Within(s, keep)) = ToSet(s) \cap keep
  BY ToSetWithin
<1> QED BY <1>1, <1>2, NoElements

LEMMA WithinPadded ==
  ASSUME NEW S, NEW s \in Seq(S), NEW t \in Seq(S), NEW keep, ToSet(s) \subseteq keep, ToSet(t) \cap keep = {}
  PROVE  Within(s \o t, keep) = s
<1>1. Within(s \o t, keep) = Within(s, keep) \o Within(t, keep)
  BY WithinConcat
<1>2. Within(s, keep) = s
  BY WithinAll
<1>3. Within(t, keep) = <<>>
  BY WithinNone
<1>4. s \o <<>> = s
  BY ConcatEmptySeq
<1> QED BY <1>1, <1>2, <1>3, <1>4

-----------------------------------------------------------------------------
(* Where a filter puts what it keeps *)

LEMMA CountNone == ASSUME NEW s, NEW keep PROVE CountUpTo(s, keep, 0) = 0
<1>1. {h \in 1..0 : s[h] \in keep} = {}
  OBVIOUS
<1> QED BY <1>1, FS_EmptySet DEF CountUpTo

LEMMA CountSteps ==
  ASSUME NEW s, NEW keep, NEW n \in Nat
  PROVE  /\ CountUpTo(s, keep, n) \in Nat
         /\ s[n + 1] \in keep => CountUpTo(s, keep, n + 1) = CountUpTo(s, keep, n) + 1
         /\ s[n + 1] \notin keep => CountUpTo(s, keep, n + 1) = CountUpTo(s, keep, n)
<1> DEFINE held(i) == {h \in 1..i : s[h] \in keep}
<1>1. n + 1 \notin held(n)
  OBVIOUS
<1>2. IsFiniteSet(held(n))
  <2>1. IsFiniteSet(1..n)
    BY FS_Interval
  <2>2. held(n) \in SUBSET (1..n)
    OBVIOUS
  <2> HIDE DEF held
  <2> QED BY <2>1, <2>2, FS_Subset
<1>3. held(n + 1) = IF s[n + 1] \in keep THEN held(n) \cup {n + 1} ELSE held(n)
  <2>1. 1..(n + 1) = (1..n) \cup {n + 1}
    OBVIOUS
  <2> QED BY <2>1
<1>c. /\ CountUpTo(s, keep, n) = Cardinality(held(n))
      /\ CountUpTo(s, keep, n + 1) = Cardinality(held(n + 1))
  BY DEF CountUpTo
<1> HIDE DEF held
<1>4. /\ Cardinality(held(n)) \in Nat
      /\ Cardinality(held(n) \cup {n + 1}) = Cardinality(held(n)) + 1
  BY <1>1, <1>2, FS_CardinalityType, FS_AddElement
<1> QED BY <1>3, <1>4, <1>c

LEMMA CountAppend ==
  ASSUME NEW S, NEW s \in Seq(S), NEW x \in S, NEW keep
  PROVE  /\ \A i \in 0..Len(s) : CountUpTo(Append(s, x), keep, i) = CountUpTo(s, keep, i)
         /\ x \in keep => CountUpTo(Append(s, x), keep, Len(s) + 1) = CountUpTo(s, keep, Len(s)) + 1
         /\ x \notin keep => CountUpTo(Append(s, x), keep, Len(s) + 1) = CountUpTo(s, keep, Len(s))
<1>1. Len(s) \in Nat /\ Append(s, x)[Len(s) + 1] = x
  BY AppendProperties, LenProperties
<1>2. ASSUME NEW i \in 0..Len(s) PROVE CountUpTo(Append(s, x), keep, i) = CountUpTo(s, keep, i)
  <2>1. \A h \in 1..i : Append(s, x)[h] = s[h]
    BY AppendProperties, LenProperties
  <2> QED BY <2>1 DEF CountUpTo
<1>3. CountUpTo(Append(s, x), keep, Len(s)) = CountUpTo(s, keep, Len(s))
  BY <1>1, <1>2
<1>4. ASSUME NEW t, NEW n \in Nat
      PROVE  /\ t[n + 1] \in keep => CountUpTo(t, keep, n + 1) = CountUpTo(t, keep, n) + 1
             /\ t[n + 1] \notin keep => CountUpTo(t, keep, n + 1) = CountUpTo(t, keep, n)
  BY CountSteps
<1>5. PICK t : t = Append(s, x)
  OBVIOUS
<1>6. PICK n \in Nat : n = Len(s)
  BY <1>1
<1>7. /\ x \in keep => CountUpTo(t, keep, n + 1) = CountUpTo(t, keep, n) + 1
      /\ x \notin keep => CountUpTo(t, keep, n + 1) = CountUpTo(t, keep, n)
  BY <1>1, <1>4, <1>5, <1>6
<1> QED BY <1>2, <1>3, <1>5, <1>6, <1>7

\* The filter keeps as many as it counts, and an element it keeps comes where
\* the count has got to.
LEMMA WithinCounts ==
  ASSUME NEW S, NEW s \in Seq(S), NEW keep
  PROVE  /\ Len(Within(s, keep)) = CountUpTo(s, keep, Len(s))
         /\ \A i \in 1..Len(s) : s[i] \in keep => /\ CountUpTo(s, keep, i) \in 1..Len(Within(s, keep))
                                                 /\ Within(s, keep)[CountUpTo(s, keep, i)] = s[i]
<1> DEFINE Fits(r) == /\ Len(Within(r, keep)) = CountUpTo(r, keep, Len(r))
                      /\ \A i \in 1..Len(r) : r[i] \in keep => /\ CountUpTo(r, keep, i) \in 1..Len(Within(r, keep))
                                                              /\ Within(r, keep)[CountUpTo(r, keep, i)] = r[i]
           T == {r \in Seq(S) : Fits(r)}
<1>1. <<>> \in T
  <2>1. <<>> \in Seq(S) /\ Len(<<>>) = 0 /\ Within(<<>>, keep) = <<>> /\ CountUpTo(<<>>, keep, 0) = 0
    BY EmptySeq, WithinEmpty, CountNone
  <2> QED BY <2>1
<1>2. ASSUME NEW r \in Seq(S), NEW x \in S, r \in T PROVE Append(r, x) \in T
  <2> DEFINE t == Append(r, x)
             n == Len(r)
             w == Within(r, keep)
             v == Within(t, keep)
  <2>1. /\ t \in Seq(S) /\ n \in Nat /\ Len(t) = n + 1 /\ w \in Seq(S) /\ Len(w) \in Nat
        /\ \A i \in 1..n : t[i] = r[i]
        /\ t[n + 1] = x
    BY AppendProperties, LenProperties, WithinType
  <2>2. v = IF x \in keep THEN Append(w, x) ELSE w
    BY WithinAppend
  <2>3. \A i \in 0..n : CountUpTo(t, keep, i) = CountUpTo(r, keep, i)
    BY CountAppend
  <2>4. /\ x \in keep => CountUpTo(t, keep, n + 1) = CountUpTo(r, keep, n) + 1
        /\ x \notin keep => CountUpTo(t, keep, n + 1) = CountUpTo(r, keep, n)
    BY CountAppend
  <2>5. /\ Len(Append(w, x)) = Len(w) + 1 /\ Append(w, x)[Len(w) + 1] = x
        /\ \A i \in 1..Len(w) : Append(w, x)[i] = w[i]
    BY <2>1, AppendProperties
  <2>6. /\ Len(w) = CountUpTo(r, keep, n)
        /\ \A i \in 1..n : r[i] \in keep => CountUpTo(r, keep, i) \in 1..Len(w) /\ w[CountUpTo(r, keep, i)] = r[i]
    BY <1>2
  <2> HIDE DEF t, n, w, v
  <2>7. Len(v) = CountUpTo(t, keep, n + 1)
    BY <2>2, <2>4, <2>5, <2>6
  <2>8. ASSUME NEW i \in 1..(n + 1), t[i] \in keep
        PROVE  CountUpTo(t, keep, i) \in 1..Len(v) /\ v[CountUpTo(t, keep, i)] = t[i]
    <3>1. CASE i = n + 1
      BY <2>1, <2>2, <2>4, <2>5, <2>6, <2>8, <3>1
    <3>2. CASE i \in 1..n
      <4>1. CountUpTo(t, keep, i) = CountUpTo(r, keep, i) /\ t[i] = r[i] /\ r[i] \in keep
        BY <2>1, <2>3, <2>8, <3>2
      <4>2. CountUpTo(r, keep, i) \in 1..Len(w) /\ w[CountUpTo(r, keep, i)] = r[i]
        BY <2>6, <3>2, <4>1
      <4> QED BY <2>1, <2>2, <2>5, <4>1, <4>2
    <3> QED BY <2>1, <3>1, <3>2
  <2>9. Fits(t)
    BY <2>1, <2>7, <2>8 DEF v
  <2> QED BY <2>1, <2>9 DEF t
<1> HIDE DEF T
<1>3. \A r \in Seq(S) : r \in T
  BY <1>1, <1>2, EverySequence
<1> QED BY <1>3 DEF T

-----------------------------------------------------------------------------
(* Sequences without repetition *)

LEMMA InjectiveConcat ==
  ASSUME NEW S, NEW s \in Seq(S), NEW t \in Seq(S), IsInjective(s), IsInjective(t), ToSet(s) \cap ToSet(t) = {}
  PROVE  IsInjective(s \o t)
<1>1. /\ s \o t \in Seq(S) /\ Len(s \o t) = Len(s) + Len(t) /\ Len(s) \in Nat /\ Len(t) \in Nat
      /\ \A i \in 1..(Len(s) + Len(t)) : (s \o t)[i] = IF i <= Len(s) THEN s[i] ELSE t[i - Len(s)]
  BY ConcatProperties, LenProperties
<1>2. /\ \A i, j \in 1..Len(s) : s[i] = s[j] => i = j
      /\ \A i, j \in 1..Len(t) : t[i] = t[j] => i = j
  BY LenProperties DEF IsInjective
<1>3. ToSet(s) = {s[i] : i \in 1..Len(s)} /\ ToSet(t) = {t[i] : i \in 1..Len(t)}
  BY ToSetOf
<1>4. \A i \in 1..Len(s), j \in 1..Len(t) : s[i] # t[j]
  BY <1>3
<1>5. ASSUME NEW i \in 1..(Len(s) + Len(t)), NEW j \in 1..(Len(s) + Len(t)), (s \o t)[i] = (s \o t)[j]
      PROVE  i = j
  <2>1. CASE i <= Len(s) /\ j <= Len(s)
    BY <1>1, <1>2, <1>5, <2>1
  <2>2. CASE i <= Len(s) /\ ~(j <= Len(s))
    <3>1. i \in 1..Len(s) /\ j - Len(s) \in 1..Len(t)
      BY <1>1, <2>2
    <3> QED BY <1>1, <1>4, <1>5, <2>2, <3>1
  <2>3. CASE ~(i <= Len(s)) /\ j <= Len(s)
    <3>1. j \in 1..Len(s) /\ i - Len(s) \in 1..Len(t)
      BY <1>1, <2>3
    <3> QED BY <1>1, <1>4, <1>5, <2>3, <3>1
  <2>4. CASE ~(i <= Len(s)) /\ ~(j <= Len(s))
    <3>1. i - Len(s) \in 1..Len(t) /\ j - Len(s) \in 1..Len(t) /\ t[i - Len(s)] = t[j - Len(s)]
      BY <1>1, <1>5, <2>4
    <3>2. i - Len(s) = j - Len(s)
      BY <1>2, <3>1
    <3> QED BY <1>1, <3>2
  <2> QED BY <2>1, <2>2, <2>3, <2>4
<1> QED BY <1>1, <1>5, LenProperties DEF IsInjective

\* One that repeats nothing is no longer than another that has all it has.
LEMMA NoLonger ==
  ASSUME NEW S, NEW s \in Seq(S), NEW t \in Seq(S), IsInjective(s), ToSet(s) \subseteq ToSet(t)
  PROVE  Len(s) <= Len(t)
<1> DEFINE at == [i \in 1..Len(s) |-> CHOOSE j \in 1..Len(t) : t[j] = s[i]]
<1>1. ToSet(s) = {s[i] : i \in 1..Len(s)} /\ ToSet(t) = {t[i] : i \in 1..Len(t)} /\ Len(s) \in Nat /\ Len(t) \in Nat
  BY ToSetOf, LenProperties
<1>2. \A i \in 1..Len(s) : at[i] \in 1..Len(t) /\ t[at[i]] = s[i]
  BY <1>1
<1>3. \A i, j \in 1..Len(s) : s[i] = s[j] => i = j
  BY LenProperties DEF IsInjective
<1>4. at \in [1..Len(s) -> 1..Len(t)]
  BY <1>2
<1> HIDE DEF at
<1>5. at \in Injection(1..Len(s), 1..Len(t))
  BY <1>2, <1>3, <1>4 DEF Injection, IsInjective
<1>6. IsFiniteSet(1..Len(t)) /\ Cardinality(1..Len(s)) = Len(s) /\ Cardinality(1..Len(t)) = Len(t)
  <2>1. \A m \in Nat : IsFiniteSet(1..m) /\ Cardinality(1..m) = IF 1 > m THEN 0 ELSE m - 1 + 1
    BY FS_Interval
  <2>2. \A m \in Nat : (IF 1 > m THEN 0 ELSE m - 1 + 1) = m
    OBVIOUS
  <2> QED BY <1>1, <2>1, <2>2
<1> QED BY <1>5, <1>6, FS_Injection

\* What is put between.
LEMMA Inserted ==
  ASSUME NEW S, NEW s \in Seq(S), NEW x \in S, NEW i \in 1..(Len(s) + 1)
  PROVE  /\ InsertAt(s, i, x) \in Seq(S) /\ ToSet(InsertAt(s, i, x)) = ToSet(s) \cup {x}
         /\ IsInjective(s) /\ x \notin ToSet(s) => IsInjective(InsertAt(s, i, x))
<1> DEFINE r == InsertAt(s, i, x)
           n == Len(s)
           a == SubSeq(s, 1, i - 1)
           b == SubSeq(s, i, n)
<1>1. n \in Nat /\ i \in Int /\ (\A j \in 1..n : s[j] \in S) /\ ToSet(s) = {s[j] : j \in 1..n}
  BY LenProperties, ElementOfSeq, ToSetOf
<1>2. a \in Seq(S) /\ Len(a) = i - 1 /\ \A j \in 1..(i - 1) : a[j] = s[j]
  <2>1. i - 1 \in Int /\ \A j \in 1..(i - 1) : j \in 1..n
    BY <1>1
  <2>2. /\ a \in Seq(S) /\ Len(a) = IF 1 <= i - 1 THEN (i - 1) - 1 + 1 ELSE 0
        /\ \A j \in 1..((i - 1) - 1 + 1) : a[j] = s[1 + j - 1]
    BY <1>1, <2>1, SubSeqProperties
  <2> QED BY <1>1, <2>1, <2>2
<1>3. b \in Seq(S) /\ Len(b) = n - i + 1 /\ \A j \in 1..(n - i + 1) : b[j] = s[i + j - 1]
  <2>1. n \in Int /\ \A j \in i..n : j \in 1..n
    BY <1>1
  <2>2. /\ b \in Seq(S) /\ Len(b) = IF i <= n THEN n - i + 1 ELSE 0
        /\ \A j \in 1..(n - i + 1) : b[j] = s[i + j - 1]
    BY <1>1, <2>1, SubSeqProperties
  <2> QED BY <1>1, <2>2
<1>4. <<x>> \in Seq(S) /\ Len(<<x>>) = 1 /\ <<x>>[1] = x
  OBVIOUS
<1>5. /\ a \o <<x>> \in Seq(S) /\ Len(a \o <<x>>) = i
      /\ \A j \in 1..i : (a \o <<x>>)[j] = IF j < i THEN s[j] ELSE x
  <2> HIDE DEF a
  <2>1. /\ a \o <<x>> \in Seq(S) /\ Len(a \o <<x>>) = Len(a) + 1
        /\ \A j \in 1..(Len(a) + 1) : (a \o <<x>>)[j] = IF j <= Len(a) THEN a[j] ELSE <<x>>[j - Len(a)]
    BY <1>2, <1>4, ConcatProperties
  <2>2. /\ Len(a) + 1 = i
        /\ \A j \in 1..i : j <= Len(a) <=> j < i
        /\ \A j \in 1..i : ~(j < i) => j - Len(a) = 1
        /\ \A j \in 1..i : j < i => j \in 1..(i - 1)
    BY <1>1, <1>2
  <2>3. ASSUME NEW j \in 1..i PROVE (a \o <<x>>)[j] = IF j < i THEN s[j] ELSE x
    BY <1>2, <1>4, <2>1, <2>2
  <2> QED BY <2>1, <2>2, <2>3
<1>6. /\ r \in Seq(S) /\ Len(r) = n + 1
      /\ \A j \in 1..(n + 1) : r[j] = IF j < i THEN s[j] ELSE IF j = i THEN x ELSE s[j - 1]
  <2> HIDE DEF b, a, n
  <2> DEFINE c == a \o <<x>>
  <2>1. r = c \o b
    BY DEF InsertAt, a, b, n
  <2>0. c \in Seq(S) /\ Len(c) = i /\ \A j \in 1..i : c[j] = IF j < i THEN s[j] ELSE x
    BY <1>5
  <2> HIDE DEF c, r
  <2>2. /\ c \o b \in Seq(S) /\ Len(c \o b) = Len(c) + Len(b)
        /\ \A j \in 1..(Len(c) + Len(b)) : (c \o b)[j] = IF j <= Len(c) THEN c[j] ELSE b[j - Len(c)]
    BY <1>3, <2>0, ConcatProperties
  <2>3. ASSUME NEW j \in 1..(n + 1) PROVE r[j] = IF j < i THEN s[j] ELSE IF j = i THEN x ELSE s[j - 1]
    <3>1. CASE j <= i
      BY <1>1, <1>3, <2>0, <2>1, <2>2, <3>1
    <3>2. CASE ~(j <= i)
      <4>1. j - i \in 1..(n - i + 1) /\ i + (j - i) - 1 = j - 1
        BY <1>1, <3>2
      <4> QED BY <1>1, <1>3, <2>0, <2>1, <2>2, <3>2, <4>1
    <3> QED BY <3>1, <3>2
  <2> QED BY <1>1, <1>3, <2>0, <2>1, <2>2, <2>3
<1> HIDE DEF r, n, a, b
<1>7. ToSet(r) = {r[j] : j \in 1..(n + 1)} /\ DOMAIN r = 1..(n + 1) /\ DOMAIN s = 1..n
  BY <1>6, ToSetOf, LenProperties DEF n
<1>8. ToSet(r) = ToSet(s) \cup {x}
  <2>1. ASSUME NEW j \in 1..n PROVE s[j] \in ToSet(r)
    <3>1. CASE j < i
      BY <1>1, <1>6, <1>7, <3>1
    <3>2. CASE ~(j < i)
      <4>1. j + 1 \in 1..(n + 1) /\ ~(j + 1 < i) /\ j + 1 # i /\ (j + 1) - 1 = j
        BY <1>1, <3>2
      <4> QED BY <1>6, <1>7, <4>1
    <3> QED BY <3>1, <3>2
  <2>2. i \in 1..(n + 1) /\ r[i] = x
    BY <1>1, <1>6 DEF n
  <2>3. ASSUME NEW j \in 1..(n + 1) PROVE r[j] \in ToSet(s) \cup {x}
    <3>1. i \in 1..(n + 1)
      BY DEF n
    <3>2. CASE j < i
      BY <1>1, <1>6, <3>1, <3>2
    <3>3. CASE j > i
      <4>1. j - 1 \in 1..n
        BY <1>1, <3>1, <3>3
      <4> QED BY <1>1, <1>6, <3>1, <3>3, <4>1
    <3>4. CASE j = i
      BY <1>6, <3>1, <3>4
    <3> QED BY <1>1, <3>1, <3>2, <3>3, <3>4
  <2> QED BY <1>1, <1>7, <2>1, <2>2, <2>3
<1>9. ASSUME IsInjective(s), x \notin ToSet(s) PROVE IsInjective(r)
  <2>1. (\A j, m \in 1..n : s[j] = s[m] => j = m) /\ \A j \in 1..n : s[j] # x
    BY <1>1, <1>7, <1>9 DEF IsInjective
  <2>2. i \in 1..(n + 1)
    BY DEF n
  <2>3. ASSUME NEW j \in 1..(n + 1), NEW m \in 1..(n + 1), r[j] = r[m], j < m PROVE FALSE
    <3>1. /\ m > i => m - 1 \in 1..n
          /\ j > i => j - 1 \in 1..n
          /\ m < i => m \in 1..n
          /\ j < i => j \in 1..n
      BY <1>1, <2>2
    <3>2. CASE m <= i
      BY <1>1, <1>6, <2>1, <2>2, <2>3, <3>1, <3>2
    <3>3. CASE m > i /\ j < i
      BY <1>1, <1>6, <2>1, <2>2, <2>3, <3>1, <3>3
    <3>4. CASE m > i /\ j = i
      BY <1>1, <1>6, <2>1, <2>2, <2>3, <3>1, <3>4
    <3>5. CASE m > i /\ j > i
      <4>1. r[j] = s[j - 1] /\ r[m] = s[m - 1] /\ j - 1 \in 1..n /\ m - 1 \in 1..n
        BY <1>1, <1>6, <2>2, <3>1, <3>5
      <4>2. j - 1 = m - 1
        BY <2>1, <2>3, <4>1
      <4> QED BY <1>1, <2>3, <4>2
    <3> QED BY <1>1, <2>2, <3>2, <3>3, <3>4, <3>5
  <2>4. \A j, m \in 1..(n + 1) : r[j] = r[m] => j = m
    <3>1. \A j, m \in 1..(n + 1) : j < m \/ m < j \/ j = m
      BY <1>1
    <3> QED BY <2>3, <3>1
  <2> QED BY <1>7, <2>4 DEF IsInjective
<1> QED BY <1>6, <1>8, <1>9 DEF r
=============================================================================
