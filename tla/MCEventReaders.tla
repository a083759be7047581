--------------------------- MODULE MCEventReaders ---------------------------
EXTENDS EventReaders, TLC

Symmetry == Permutations(Proc)
=============================================================================
