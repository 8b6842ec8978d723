------------------------------- MODULE RWLock -------------------------------
(***************************************************************************)
(* What a GRWLock promises its clients (spec 3 and 4.3), independent of  *)
(* pthreads: any number of threads hold read locks, each possibly several *)
(* times, or one thread holds the write lock, never both.                  *)
(***************************************************************************)
EXTENDS Naturals

CONSTANTS Threads, NULL

VARIABLES
    readers,   \* readers[t]: how many read locks t holds
    writer     \* the thread holding the write lock, or NULL

vars == <<readers, writer>>

Init ==
    /\ readers = [t \in Threads |-> 0]
    /\ writer = NULL

NoReaders == \A t \in Threads : readers[t] = 0

AcquireRead(t) ==
    /\ writer = NULL
    /\ readers' = [readers EXCEPT ![t] = @ + 1]
    /\ UNCHANGED writer

ReleaseRead(t) ==
    /\ readers[t] > 0
    /\ readers' = [readers EXCEPT ![t] = @ - 1]
    /\ UNCHANGED writer

AcquireWrite(t) ==
    /\ writer = NULL /\ NoReaders
    /\ writer' = t
    /\ UNCHANGED readers

ReleaseWrite(t) ==
    /\ writer = t
    /\ writer' = NULL
    /\ UNCHANGED readers

Next ==
    \E t \in Threads :
        AcquireRead(t) \/ ReleaseRead(t) \/ AcquireWrite(t) \/ ReleaseWrite(t)

Spec == Init /\ [][Next]_vars

(* Readers and a writer never hold the lock together.                     *)
Exclusion == writer # NULL => NoReaders
=============================================================================
