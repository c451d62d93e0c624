---------------------------- MODULE MCSignalStore ----------------------------
EXTENDS SignalStore, TLC

Symmetry == Permutations(Key \ Telemetry) \cup Permutations(Telemetry) \cup Permutations(Type) \cup Permutations(Field)
=============================================================================
