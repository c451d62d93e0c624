------------------------------ MODULE MCBridge ------------------------------
EXTENDS Bridge, TLC

\* A stream asks for everything, or for one topic only.
AllOrOne == {Topic} \cup {{t} : t \in Topic}
Everything == {Topic}
Nothing == {}
RefusedOutright == {{}}
AllButOne == {Topic \ {t} : t \in Topic}
Symmetry == Permutations(Topic) \cup Permutations(Value) \cup Permutations(Request) \cup Permutations(Stream)
=============================================================================
