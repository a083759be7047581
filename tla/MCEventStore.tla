---------------------------- MODULE MCEventStore ----------------------------
EXTENDS EventStore, TLC

Symmetry == Permutations(Proc) \cup Permutations(Archiver) \cup Permutations(Instance)
=============================================================================
