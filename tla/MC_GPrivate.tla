---------------------------- MODULE MC_GPrivate -----------------------------
EXTENDS GPrivate, TLC

CONSTANTS t1, t2, v1, v2

MCThreads == {t1, t2}
MCValues == {v1, v2}

Symmetry == Permutations(MCThreads) \cup Permutations(MCValues)
=============================================================================
