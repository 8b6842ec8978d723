----------------------------- MODULE MC_GThread -----------------------------
EXTENDS GThread

CONSTANTS h1, h2

MCHandles == {h1, h2}

(* sysconf reports a minimum of 16, or -1 (no minimum).                    *)
MCSysconfVals == {-1, 16}
=============================================================================
