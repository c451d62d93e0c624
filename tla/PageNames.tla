------------------------------ MODULE PageNames ------------------------------
(***************************************************************************)
(* A device's name on the dashboard: alias.js.  A rename is shown at once  *)
(* and taken back if its POST fails, while $alias frames, those of other   *)
(* pages' renames too, come over the stream.                               *)
(***************************************************************************)
EXTENDS Naturals, Sequences, FiniteSets

CONSTANTS
  Name,       \* aliases
  Unnamed,    \* no alias
  MaxRenames  \* bound: renames of the device

VARIABLES
  alias,    \* aliases.value, of one device of this page's own origin
  renames,  \* the POSTs that are out
  attempts, \* renameAttempts
  others,   \* renames by other pages so far
  siteName, \* the receiver's retained $alias
  frames,   \* $alias frames on their way, in order
  failures  \* history: the renames that failed, and whether each was the last attempt then

nameVars == <<alias, renames, attempts, others, siteName, frames, failures>>

NamesInit ==
  /\ alias = Unnamed /\ renames = {} /\ attempts = 0 /\ others = 0
  /\ siteName = Unnamed /\ frames = <<>> /\ failures = {}

\* postAlias: shown at once; what it was is kept to be taken back.  `over` are
\* the renames still out then, `crossed` tells that a frame came meanwhile.
PostAlias(name) ==
  /\ attempts + others < MaxRenames /\ attempts' = attempts + 1
  /\ alias' = name
  /\ renames' = renames \cup {[attempt |-> attempts', name |-> name, previous |-> alias, applied |-> FALSE,
                               crossed |-> FALSE, over |-> {r.attempt : r \in renames}]}
  /\ UNCHANGED <<others, siteName, frames, failures>>

\* The receiver takes a name and tells every stream of it.
SiteApplies(r) ==
  /\ r \in renames /\ ~r.applied
  /\ renames' = (renames \ {r}) \cup {[r EXCEPT !.applied = TRUE]}
  /\ siteName' = r.name /\ frames' = Append(frames, r.name)
  /\ UNCHANGED <<alias, attempts, others, failures>>

\* Another page renames it.
OtherRenames(name) ==
  /\ attempts + others < MaxRenames /\ others' = others + 1
  /\ siteName' = name /\ frames' = Append(frames, name)
  /\ UNCHANGED <<alias, renames, attempts, failures>>

RenameAccepted(r) ==
  /\ r \in renames /\ r.applied
  /\ renames' = renames \ {r}
  /\ UNCHANGED <<alias, attempts, others, siteName, frames, failures>>

\* Mutant of LastAttempt: every failure is taken back.
AnyAttempt(r) == r.attempt <= attempts

\* revert: only of the last attempt.  The answer may be lost of a rename that was applied.
LastAttempt(r) == r.attempt = attempts
RenameFails(r) ==
  /\ r \in renames
  /\ alias' = IF LastAttempt(r) THEN r.previous ELSE alias
  /\ renames' = renames \ {r} /\ failures' = failures \cup {[rename |-> r, last |-> r.attempt = attempts]}
  /\ UNCHANGED <<attempts, others, siteName, frames>>

\* applyAliasFrame
AliasFrame ==
  /\ frames # <<>> /\ frames' = Tail(frames)
  /\ alias' = Head(frames)
  /\ renames' = {[o EXCEPT !.crossed = TRUE] : o \in renames}
  /\ UNCHANGED <<attempts, others, siteName, failures>>

-----------------------------------------------------------------------------
NamesNext ==
  \/ \E name \in Name \cup {Unnamed} : PostAlias(name) \/ OtherRenames(name)
  \/ \E r \in renames : SiteApplies(r) \/ RenameAccepted(r) \/ RenameFails(r)
  \/ AliasFrame

NamesSpec == NamesInit /\ [][NamesNext]_nameVars

-----------------------------------------------------------------------------
AnyName == Name \cup {Unnamed}
Rename == [attempt : Nat, name : AnyName, previous : AnyName, applied : BOOLEAN,
           crossed : BOOLEAN, over : SUBSET Nat]

NamesTypeOK ==
  /\ alias \in AnyName /\ siteName \in AnyName /\ frames \in Seq(AnyName)
  /\ renames \subseteq Rename /\ failures \subseteq [rename : Rename, last : BOOLEAN] /\ attempts \in Nat /\ others \in Nat

\* The last rename failed, and what it was taken back to was a name that failed
\* itself, or one that a frame had replaced meanwhile.
Muddled ==
  \E f \in failures : f.last /\ (f.rename.crossed \/ \E o \in failures : o.rename.attempt \in f.rename.over)

\* With no rename out and no frame on the way the page shows the receiver's
\* name, in whatever order POSTs, answers and frames came: a late failure of an
\* earlier rename undoes nothing (renameAttempts).  Not when the last rename
\* failed over another failing one, or after a frame came during it.
NamesSettle == renames = {} /\ frames = <<>> /\ ~Muddled => alias = siteName
=============================================================================
