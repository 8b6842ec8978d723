-------------------------------- MODULE GCond --------------------------------
(***************************************************************************)
(* GCond of gthread-posix.c composed with the GMutex it is waited on, and *)
(* the producer/consumer clients the spec's usage rule (4.4) describes:   *)
(*                                                                         *)
(*   consumer: g_mutex_lock (m);                                           *)
(*             while (items == 0)                                          *)
(*               if (!g_cond_timed_wait (c, m, deadline)) break;           *)
(*             if (items > 0) items--;                                     *)
(*             g_mutex_unlock (m);                                         *)
(*   producer: g_mutex_lock (m) or spin on g_mutex_trylock (m);            *)
(*             items++;                                                    *)
(*             g_cond_signal (c) or g_cond_broadcast (c), before or after *)
(*             g_mutex_unlock (m);                                         *)
(*                                                                         *)
(* A consumer of TimedWaiters waits with a deadline (g_cond_timed_wait /  *)
(* g_cond_timedwait); the others with g_cond_wait.  items-- and items++   *)
(* are read-modify-writes of two steps, so that a thread touching items   *)
(* without the mutex loses an update.  Time is abstract: a timed waiter's *)
(* deadline may pass at any moment while it is parked.                     *)
(*                                                                         *)
(* pthread_cond_wait/timedwait release the mutex and park in one step, and*)
(* reacquire the mutex before returning whatever woke them: a signal (at  *)
(* least one waiter), a broadcast (all), the deadline, or nothing at all  *)
(* (a spurious wakeup, which POSIX allows).                                *)
(***************************************************************************)
EXTENDS Integers

CONSTANTS
    Producers,     \* threads that each add one item
    Consumers,     \* threads that each take at most one item
    TimedWaiters,  \* the consumers that wait with a deadline
    NULL,
    MaxSpurious    \* bound on spurious wakeups in a run

ASSUME CondAssumption ==
    /\ Producers \cap Consumers = {}
    /\ TimedWaiters \subseteq Consumers
    /\ NULL \notin Producers \cup Consumers
    /\ MaxSpurious \in Nat

VARIABLES
    holder,    \* GMutex: the thread holding the mutex, or NULL
    parked,    \* GCond: the threads blocked in pthread_cond_(timed)wait
    ret,       \* ret[c]: what c's last wait returned (FALSE: timed out)
    pc,        \* where each thread is in its client program
    tmp,       \* tmp[t]: the value of items t read
    items,     \* the shared counter protected by the mutex
    produced,  \* items added so far (history)
    consumed,  \* items taken so far (history)
    spurious   \* spurious wakeups so far

vars == <<holder, parked, ret, pc, tmp, items, produced, consumed, spurious>>

Threads == Producers \cup Consumers

M == INSTANCE GMutex

PPcs == {"p_lock", "p_read", "p_write", "p_signal", "p_unlock", "p_release",
         "done"}
CPcs == {"c_lock", "c_check", "c_read", "c_write", "c_parked", "c_relock",
         "c_unlock", "done"}

-----------------------------------------------------------------------------
Init ==
    /\ M!MutexInit
    /\ parked = {}                      \* g_cond_init
    /\ ret = [c \in Consumers |-> TRUE]
    /\ pc = [t \in Threads |-> IF t \in Producers THEN "p_lock" ELSE "c_lock"]
    /\ tmp = [t \in Threads |-> 0]
    /\ items = 0
    /\ produced = 0
    /\ consumed = 0
    /\ spurious = 0

(* g_mutex_lock by a client about to enter its critical section.          *)
Lock(t) ==
    /\ pc[t] \in {"p_lock", "c_lock"}
    /\ M!MutexLock(t)
    /\ pc' = [pc EXCEPT ![t] = IF t \in Producers THEN "p_read" ELSE "c_check"]
    /\ UNCHANGED <<parked, ret, tmp, items, produced, consumed, spurious>>

(* A producer spinning on g_mutex_trylock.                                 *)
Trylock(p) ==
    /\ pc[p] = "p_lock"
    /\ \/ M!MutexTrylockOk(p) /\ pc' = [pc EXCEPT ![p] = "p_read"]
       \/ M!MutexTrylockBusy(p) /\ UNCHANGED pc
    /\ UNCHANGED <<parked, ret, tmp, items, produced, consumed, spurious>>

ProducerRead(p) ==
    /\ pc[p] = "p_read"
    /\ tmp' = [tmp EXCEPT ![p] = items]
    /\ pc' = [pc EXCEPT ![p] = "p_write"]
    /\ UNCHANGED <<holder, parked, ret, items, produced, consumed, spurious>>

(* items = tmp + 1, then notify before or after unlocking.                 *)
ProducerWrite(p) ==
    /\ pc[p] = "p_write"
    /\ items' = tmp[p] + 1
    /\ produced' = produced + 1
    /\ \E next \in {"p_signal", "p_release"} : pc' = [pc EXCEPT ![p] = next]
    /\ UNCHANGED <<holder, parked, ret, tmp, consumed, spurious>>

(* After notifying, a producer that still holds the mutex unlocks it.      *)
AfterNotify(p) == IF holder = p THEN "p_unlock" ELSE "done"

(* g_cond_signal: wakes one parked thread if there is one (further        *)
(* wakeups POSIX allows are the spurious ones below).                      *)
g_cond_signal(p) ==
    /\ pc[p] = "p_signal"
    /\ \/ /\ parked = {}
          /\ UNCHANGED <<parked, ret, spurious>>
       \/ \E c \in parked :
          /\ parked' = parked \ {c}
          /\ ret' = [ret EXCEPT ![c] = TRUE]
    /\ pc' = [x \in Threads |->
                IF x = p THEN AfterNotify(p)
                ELSE IF x \in parked \ parked' THEN "c_relock" ELSE pc[x]]
    /\ UNCHANGED <<holder, tmp, items, produced, consumed, spurious>>

(* g_cond_broadcast: wakes every parked thread.                            *)
g_cond_broadcast(p) ==
    /\ pc[p] = "p_signal"
    /\ parked' = {}
    /\ ret' = [c \in Consumers |-> IF c \in parked THEN TRUE ELSE ret[c]]
    /\ pc' = [x \in Threads |->
                IF x = p THEN AfterNotify(p)
                ELSE IF x \in parked THEN "c_relock" ELSE pc[x]]
    /\ UNCHANGED <<holder, tmp, items, produced, consumed, spurious>>

(* g_mutex_unlock: after notifying ("p_unlock"), or before ("p_release").*)
ProducerUnlock(p) ==
    /\ pc[p] \in {"p_unlock", "p_release"}
    /\ M!MutexUnlock(p)
    /\ pc' = [pc EXCEPT ![p] = IF pc[p] = "p_unlock" THEN "done" ELSE "p_signal"]
    /\ UNCHANGED <<parked, ret, tmp, items, produced, consumed, spurious>>

-----------------------------------------------------------------------------
(* The consumer's loop test, under the mutex: take an item if there is    *)
(* one, give up after a timed-out wait, wait otherwise.                    *)
ConsumerCheck(c) ==
    /\ pc[c] = "c_check"
    /\ \/ items > 0 /\ pc' = [pc EXCEPT ![c] = "c_read"]
       \/ items = 0 /\ ~ret[c] /\ pc' = [pc EXCEPT ![c] = "c_unlock"]
    /\ UNCHANGED <<holder, parked, ret, tmp, items, produced, consumed, spurious>>

(* Mutant: the wait parks its caller without releasing the mutex (as if *)
(* waited on with another mutex than the one held).                       *)
g_cond_waitKeepsMutex(c) ==
    /\ pc[c] = "c_check"
    /\ items = 0 /\ ret[c]
    /\ holder = c
    /\ parked' = parked \cup {c}
    /\ pc' = [pc EXCEPT ![c] = "c_parked"]
    /\ UNCHANGED <<holder, ret, tmp, items, produced, consumed, spurious>>

(* g_cond_wait / g_cond_timed_wait: pthread_cond_(timed)wait releases the *)
(* caller's mutex and parks it in one atomic step.                         *)
g_cond_wait(c) ==
    /\ pc[c] = "c_check"
    /\ items = 0 /\ ret[c]
    /\ holder = c
    /\ holder' = NULL
    /\ parked' = parked \cup {c}
    /\ pc' = [pc EXCEPT ![c] = "c_parked"]
    /\ UNCHANGED <<ret, tmp, items, produced, consumed, spurious>>

(* pthread_cond_timedwait's deadline passes: ETIMEDOUT, FALSE.             *)
Timeout(c) ==
    /\ c \in TimedWaiters
    /\ c \in parked
    /\ parked' = parked \ {c}
    /\ ret' = [ret EXCEPT ![c] = FALSE]
    /\ pc' = [pc EXCEPT ![c] = "c_relock"]
    /\ UNCHANGED <<holder, tmp, items, produced, consumed, spurious>>

(* A spurious wakeup: pthread_cond_wait returns 0 with nobody signalling. *)
(* POSIX allows them; a run is given at most MaxSpurious, since endless  *)
(* ones could starve every other thread of the mutex.                     *)
Spurious(c) ==
    /\ c \in parked
    /\ spurious < MaxSpurious
    /\ spurious' = spurious + 1
    /\ parked' = parked \ {c}
    /\ ret' = [ret EXCEPT ![c] = TRUE]
    /\ pc' = [pc EXCEPT ![c] = "c_relock"]
    /\ UNCHANGED <<holder, tmp, items, produced, consumed>>

(* Mutant: the wait returns without reacquiring the mutex.               *)
WaitReturnNoRelock(c) ==
    /\ pc[c] = "c_relock"
    /\ pc' = [pc EXCEPT ![c] = "c_check"]
    /\ UNCHANGED <<holder, parked, ret, tmp, items, produced, consumed, spurious>>

(* Before returning, pthread_cond_(timed)wait reacquires the mutex.        *)
WaitReturn(c) ==
    /\ pc[c] = "c_relock"
    /\ M!MutexLock(c)
    /\ pc' = [pc EXCEPT ![c] = "c_check"]
    /\ UNCHANGED <<parked, ret, tmp, items, produced, consumed, spurious>>

ConsumerRead(c) ==
    /\ pc[c] = "c_read"
    /\ tmp' = [tmp EXCEPT ![c] = items]
    /\ pc' = [pc EXCEPT ![c] = "c_write"]
    /\ UNCHANGED <<holder, parked, ret, items, produced, consumed, spurious>>

ConsumerWrite(c) ==
    /\ pc[c] = "c_write"
    /\ items' = tmp[c] - 1
    /\ consumed' = consumed + 1
    /\ pc' = [pc EXCEPT ![c] = "c_unlock"]
    /\ UNCHANGED <<holder, parked, ret, tmp, produced, spurious>>

ConsumerUnlock(c) ==
    /\ pc[c] = "c_unlock"
    /\ M!MutexUnlock(c)
    /\ pc' = [pc EXCEPT ![c] = "done"]
    /\ UNCHANGED <<parked, ret, tmp, items, produced, consumed, spurious>>

Terminating ==
    /\ \A t \in Threads : pc[t] = "done"
    /\ UNCHANGED vars

(* What a thread does by itself, as the scheduler runs it.                 *)
Step(t) ==
    \/ Lock(t)
    \/ t \in Producers /\ (Trylock(t) \/ ProducerRead(t) \/ ProducerWrite(t)
                           \/ g_cond_signal(t) \/ g_cond_broadcast(t)
                           \/ ProducerUnlock(t))
    \/ t \in Consumers /\ (ConsumerCheck(t) \/ g_cond_wait(t) \/ Timeout(t)
                           \/ WaitReturn(t) \/ ConsumerRead(t)
                           \/ ConsumerWrite(t) \/ ConsumerUnlock(t))

Next ==
    \/ \E t \in Threads : Step(t)
    \/ \E c \in Consumers : Spurious(c)
    \/ Terminating

(* The OS scheduler eventually runs every runnable thread, and a          *)
(* deadline eventually passes; spurious wakeups are never promised.        *)
Spec == Init /\ [][Next]_vars /\ \A t \in Threads : WF_vars(Step(t))

-----------------------------------------------------------------------------
(* Every variable stays within its type.                                   *)
TypeOK ==
    /\ holder \in Threads \cup {NULL}
    /\ parked \subseteq Consumers
    /\ ret \in [Consumers -> BOOLEAN]
    /\ pc \in [Threads -> PPcs \cup CPcs]
    /\ tmp \in [Threads -> Int]
    /\ items \in Int /\ produced \in Nat /\ consumed \in Nat
    /\ spurious \in 0..MaxSpurious

(* A thread inside its critical section holds the mutex, including a     *)
(* consumer that has just returned from g_cond_wait or g_cond_timed_wait, *)
(* whatever woke it (spec 4.4: the mutex is held again before the wait   *)
(* returns).                                                               *)
HoldsMutexInCS ==
    \A t \in Threads :
        pc[t] \in {"p_read", "p_write", "c_check", "c_read", "c_write"} => holder = t

(* No lost update of the mutex-protected counter (spec 8, mutual          *)
(* exclusion): items is what the producers added less what the consumers *)
(* took, across every interleaving of locks, waits and wakeups.           *)
ItemsConserved ==
    items = produced - consumed

(* Every thread finishes: no consumer stays parked with nobody left to    *)
(* wake it, no thread waits forever on the mutex (spec 8: no waiter left  *)
(* permanently parked).                                                    *)
Termination ==
    <>(\A t \in Threads : pc[t] = "done")
=============================================================================
