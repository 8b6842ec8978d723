---------------------------- MODULE MC_GRecMutex ----------------------------
(* Model-checking instance of GRecMutex: three client threads, enough     *)
(* addresses for an explicit init plus one candidate per thread.          *)
EXTENDS GRecMutex, TLC

CONSTANTS t1, t2, t3, a1, a2, a3, a4

MCThreads == {t1, t2, t3}
MCAddrs == {a1, a2, a3, a4}

Symmetry == Permutations(MCThreads) \cup Permutations(MCAddrs)
=============================================================================
