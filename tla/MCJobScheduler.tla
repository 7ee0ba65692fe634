--------------------------- MODULE MCJobScheduler ---------------------------
EXTENDS JobScheduler, TLC
Symmetry == Permutations(Inst)
=============================================================================
