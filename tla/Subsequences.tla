---------------------------- MODULE Subsequences ----------------------------
(***************************************************************************)
(* What is left of a sequence by a filter: SelectSeq for a set, as a       *)
(* recursive function, which the proofs can reason about.                  *)
(***************************************************************************)
EXTENDS Naturals, Sequences, FiniteSets

\* The elements of s that are in keep, in their order.
Within(s, keep) ==
  LET upTo[n \in Nat] == IF n = 0 THEN <<>>
                         ELSE IF s[n] \in keep THEN Append(upTo[n - 1], s[n])
                         ELSE upTo[n - 1]
  IN upTo[Len(s)]

\* Of the first i elements of s, how many are in keep.
CountUpTo(s, keep, i) == Cardinality({h \in 1..i : s[h] \in keep})
=============================================================================
