---------------------------- MODULE MC_GRWLock ------------------------------
EXTENDS GRWLock, TLC

CONSTANTS t1, t2, t3, t4

MCThreads == {t1, t2, t3, t4}

Symmetry == Permutations(MCThreads)
=============================================================================
