----------------------------- MODULE TopicMatch -----------------------------
(***************************************************************************)
(* Does a filter match a topic?  The bridge (matchSplit of topic.js) and   *)
(* the receiver (matchFilter of topic.cpp) walk the two side by side, each *)
(* with a loop of its own; what MQTT says of the whole is MatchesTopic.    *)
(*                                                                         *)
(* A topic is the sequence of what is between its slashes.                 *)
(***************************************************************************)
EXTENDS Integers, Sequences

CONSTANTS
  TopicPart,         \* what topics are made of
  DollarPart,   \* those that begin with a dollar sign
  Flawed,       \* parts a filter may not have: empty, with a space, or a wildcard among other letters
  MaxParts      \* bound

ASSUME PartAssumption ==
  TopicPart \cap {"+", "#"} = {} /\ Flawed \cap (TopicPart \cup {"+", "#"}) = {} /\ DollarPart \subseteq TopicPart /\ MaxParts \in Nat

VARIABLES
  filter, topicParts,
  at,       \* where the bridge and the receiver have got to
  verdict   \* "none" until they return

topicVars == <<filter, topicParts, at, verdict>>

Walker == {"bridge", "receiver"}

\* The two validFilter()s agree: nothing flawed, and # only at the end.
validFilter(f) ==
  f # <<>> /\ \A i \in DOMAIN f : f[i] \notin Flawed /\ (f[i] = "#" => i = Len(f))

Upto(S) == UNION {[1..n -> S] : n \in 1..MaxParts}

TopicInit ==
  /\ filter \in {f \in Upto(TopicPart \cup {"+", "#"} \cup Flawed) : validFilter(f)}
  /\ topicParts \in Upto(TopicPart)
  /\ at = [w \in Walker |-> 1]
  /\ verdict = [w \in Walker |-> "none"]

ReturnsMatch(w, yes) ==
  /\ verdict' = [verdict EXCEPT ![w] = IF yes THEN "yes" ELSE "no"]
  /\ UNCHANGED <<filter, topicParts, at>>

NextPart(w) == at' = [at EXCEPT ![w] = @ + 1] /\ UNCHANGED <<filter, topicParts, verdict>>

Fits(i) == filter[i] \in {"+", topicParts[i]}

-----------------------------------------------------------------------------
(* The bridge *)

FirstIsSpecial == filter[1] \in {"#", "+"} /\ topicParts[1] \in DollarPart

InFilter(w) == at[w] <= Len(filter)
InTopic(w) == at[w] <= Len(topicParts)

\* Mutant of matchSplit: a # needs something to stand for.
matchSplitShort ==
  LET w == "bridge"
  IN /\ verdict[w] = "none"
     /\ IF at[w] = 1 /\ FirstIsSpecial THEN ReturnsMatch(w, FALSE)
        ELSE IF ~InFilter(w) THEN ReturnsMatch(w, Len(filter) = Len(topicParts))
        ELSE IF filter[at[w]] = "#" THEN ReturnsMatch(w, InTopic(w))
        ELSE IF InTopic(w) /\ Fits(at[w]) THEN NextPart(w)
        ELSE ReturnsMatch(w, FALSE)

matchSplit ==
  LET w == "bridge"
  IN /\ verdict[w] = "none"
     /\ IF at[w] = 1 /\ FirstIsSpecial THEN ReturnsMatch(w, FALSE)
        ELSE IF ~InFilter(w) THEN ReturnsMatch(w, Len(filter) = Len(topicParts))
        ELSE IF filter[at[w]] = "#" THEN ReturnsMatch(w, TRUE)
        ELSE IF InTopic(w) /\ Fits(at[w]) THEN NextPart(w)
        ELSE ReturnsMatch(w, FALSE)

(* The receiver *)

matchFilter ==
  LET w == "receiver"
  IN /\ verdict[w] = "none"
     /\ IF InFilter(w) /\ filter[at[w]] = "#" THEN ReturnsMatch(w, TRUE)
        ELSE IF ~InFilter(w) \/ ~InTopic(w) THEN ReturnsMatch(w, ~InFilter(w) /\ ~InTopic(w))
        ELSE IF Fits(at[w]) THEN NextPart(w)
        ELSE ReturnsMatch(w, FALSE)

TopicNext == matchSplit \/ matchFilter

TopicSpec == TopicInit /\ [][TopicNext]_topicVars

-----------------------------------------------------------------------------
TopicTypeOK ==
  /\ filter \in Seq(TopicPart \cup {"+", "#"}) /\ topicParts \in Seq(TopicPart)
  /\ at \in [Walker -> Nat \ {0}] /\ verdict \in [Walker -> {"none", "yes", "no"}]

\* MQTT's rule: + stands for one part, a final # for what is left, be it nothing.
MatchesTopic ==
  LET n == Len(filter)
      fixed == IF filter[n] = "#" THEN n - 1 ELSE n
  IN /\ \A i \in 1..fixed : i <= Len(topicParts) /\ Fits(i)
     /\ fixed = Len(topicParts) \/ (filter[n] = "#" /\ fixed < Len(topicParts))

\* Both loops return what MQTT says of the filter and the topic, where they
\* end together and where either ends first; the bridge alone keeps wildcards
\* from topics that begin with a dollar sign, as a broker must (matchSplit and
\* matchFilter).
MatchersAgree ==
  /\ verdict["bridge"] # "none" => (verdict["bridge"] = "yes" <=> MatchesTopic /\ ~FirstIsSpecial)
  /\ verdict["receiver"] # "none" => (verdict["receiver"] = "yes" <=> MatchesTopic)
=============================================================================
