------------------------------ MODULE MC_GCond ------------------------------
(* Model-checking instance of GCond: two producers, a consumer using      *)
(* g_cond_wait and one using g_cond_timed_wait.                            *)
EXTENDS GCond

CONSTANTS p1, p2, c1, c2

MCProducers == {p1, p2}
MCConsumers == {c1, c2}
MCTimedWaiters == {c2}
=============================================================================
