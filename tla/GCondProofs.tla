----------------------------- MODULE GCondProofs -----------------------------
(***************************************************************************)
(* Proofs about GCond composed with its GMutex, for every set of          *)
(* producers, consumers and timed waiters and every bound on spurious     *)
(* wakeups.                                                                *)
(***************************************************************************)
EXTENDS GCond, TLAPS

(* The critical sections: where a client reads or writes items.            *)
CS == {"p_read", "p_write", "c_check", "c_read", "c_write"}

(* A thread between reading items into tmp and writing tmp +/- 1 back     *)
(* still has the current value: no other thread wrote items meanwhile.   *)
ReadIsCurrent ==
    \A t \in Threads : pc[t] \in {"p_write", "c_write"} => tmp[t] = items

(* ItemsConserved is not inductive: a step of ProducerWrite or            *)
(* ConsumerWrite keeps it only if the value read before is still current, *)
(* which holds because both the read and the write happen under the mutex.*)
(* HoldsMutexInCS is inductive by itself once types are known: a lock     *)
(* succeeds only when the mutex is free, so no other thread is in its     *)
(* critical section, and an unlock or a wait releases the mutex only from *)
(* outside one.                                                            *)
IInv ==
    /\ TypeOK
    /\ HoldsMutexInCS
    /\ ReadIsCurrent
    /\ ItemsConserved

LEMMA IInvInit == Init => IInv
<1> SUFFICES ASSUME Init PROVE IInv
  OBVIOUS
<1>1. ret \in [Consumers -> BOOLEAN]
  BY Zenon DEF Init
<1>2. /\ holder = NULL /\ parked = {}
      /\ pc = [t \in Threads |-> IF t \in Producers THEN "p_lock" ELSE "c_lock"]
      /\ tmp = [t \in Threads |-> 0]
      /\ items = 0 /\ produced = 0 /\ consumed = 0 /\ spurious = 0
  BY Zenon DEF Init, M!MutexInit
<1>3. TypeOK
  BY <1>1, <1>2, CondAssumption DEF TypeOK, PPcs, CPcs
<1>4. HoldsMutexInCS /\ ReadIsCurrent /\ ItemsConserved
  BY <1>2 DEF HoldsMutexInCS, ReadIsCurrent, ItemsConserved
<1> QED
  BY <1>3, <1>4 DEF IInv

(* Each step of a thread keeps the invariant; one step per action.         *)
LEMMA IInvStep == IInv /\ [Next]_vars => IInv'
<1> SUFFICES ASSUME IInv, [Next]_vars PROVE IInv'
  OBVIOUS
<1> USE CondAssumption DEF IInv, TypeOK, HoldsMutexInCS, ReadIsCurrent,
                           ItemsConserved, Threads, PPcs, CPcs
<1>1. ASSUME NEW t \in Threads, Lock(t) PROVE IInv'
  BY <1>1 DEF Lock, M!MutexLock
<1>2. ASSUME NEW t \in Producers, Trylock(t) PROVE IInv'
  BY <1>2 DEF Trylock, M!MutexTrylockOk, M!MutexTrylockBusy
<1>3. ASSUME NEW t \in Producers, ProducerRead(t) PROVE IInv'
  BY <1>3 DEF ProducerRead
<1>4. ASSUME NEW t \in Producers, ProducerWrite(t) PROVE IInv'
  BY <1>4 DEF ProducerWrite
<1>0. ASSUME NEW t \in Producers, NEW W \in SUBSET Consumers,
             pc[t] = "p_signal",
             pc' = [x \in Threads |->
                      IF x = t THEN AfterNotify(t)
                      ELSE IF x \in W THEN "c_relock" ELSE pc[x]],
             parked' \subseteq Consumers, ret' \in [Consumers -> BOOLEAN],
             UNCHANGED <<holder, tmp, items, produced, consumed, spurious>>
      PROVE  IInv'
  \* A notification moves the notifier and the woken threads out of any
  \* critical section and touches neither the mutex nor the counter.
  <2>1. AfterNotify(t) \in {"p_unlock", "done"}
    BY DEF AfterNotify
  <2>2. TypeOK'
    BY <1>0, <2>1
  <2>3. \A x \in Threads : pc'[x] \in CS \/ pc'[x] \in {"p_write", "c_write"}
                           => pc'[x] = pc[x]
    BY <1>0, <2>1 DEF CS
  <2>4. HoldsMutexInCS'
    <3> SUFFICES ASSUME NEW x \in Threads, pc'[x] \in CS PROVE holder' = x
      BY DEF CS
    <3>1. pc[x] \in CS
      BY <2>3
    <3> QED
      BY <3>1, <1>0 DEF CS
  <2>5. ReadIsCurrent'
    <3> SUFFICES ASSUME NEW x \in Threads, pc'[x] \in {"p_write", "c_write"}
                 PROVE tmp'[x] = items'
      OBVIOUS
    <3>1. pc[x] \in {"p_write", "c_write"}
      BY <2>3
    <3> QED
      BY <3>1, <1>0
  <2>6. ItemsConserved'
    BY <1>0
  <2> QED
    BY <2>2, <2>4, <2>5, <2>6
<1>5. ASSUME NEW t \in Producers, g_cond_signal(t) PROVE IInv'
  <2>1. /\ pc[t] = "p_signal"
        /\ pc' = [x \in Threads |->
                    IF x = t THEN AfterNotify(t)
                    ELSE IF x \in parked \ parked' THEN "c_relock" ELSE pc[x]]
        /\ UNCHANGED <<holder, tmp, items, produced, consumed, spurious>>
    BY <1>5, Zenon DEF g_cond_signal
  <2>2. parked' \subseteq Consumers /\ ret' \in [Consumers -> BOOLEAN]
    <3>1. CASE parked = {} /\ UNCHANGED <<parked, ret, spurious>>
      BY <3>1, Zenon
    <3>2. CASE \E c \in parked : /\ parked' = parked \ {c}
                                 /\ ret' = [ret EXCEPT ![c] = TRUE]
      BY <3>2, Zenon
    <3> QED
      BY <1>5, <3>1, <3>2, Zenon DEF g_cond_signal
  <2>3. parked \ parked' \in SUBSET Consumers
    BY Zenon
  <2> QED
    BY <2>1, <2>2, <2>3, <1>0, Zenon
<1>6. ASSUME NEW t \in Producers, g_cond_broadcast(t) PROVE IInv'
  <2>1. /\ pc[t] = "p_signal"
        /\ pc' = [x \in Threads |->
                    IF x = t THEN AfterNotify(t)
                    ELSE IF x \in parked THEN "c_relock" ELSE pc[x]]
        /\ UNCHANGED <<holder, tmp, items, produced, consumed, spurious>>
        /\ parked' = {}
    BY <1>6, Zenon DEF g_cond_broadcast
  <2>2. ret' \in [Consumers -> BOOLEAN]
    BY <1>6, Zenon DEF g_cond_broadcast
  <2> QED
    BY <2>1, <2>2, <1>0, Zenon
<1>7. ASSUME NEW t \in Producers, ProducerUnlock(t) PROVE IInv'
  BY <1>7 DEF ProducerUnlock, M!MutexUnlock
<1>8. ASSUME NEW t \in Consumers, ConsumerCheck(t) PROVE IInv'
  BY <1>8 DEF ConsumerCheck
<1>9. ASSUME NEW t \in Consumers, g_cond_wait(t) PROVE IInv'
  BY <1>9 DEF g_cond_wait
<1>10. ASSUME NEW t \in Consumers, Timeout(t) PROVE IInv'
  BY <1>10 DEF Timeout
<1>11. ASSUME NEW t \in Consumers, WaitReturn(t) PROVE IInv'
  BY <1>11 DEF WaitReturn, M!MutexLock
<1>12. ASSUME NEW t \in Consumers, ConsumerRead(t) PROVE IInv'
  BY <1>12 DEF ConsumerRead
<1>13. ASSUME NEW t \in Consumers, ConsumerWrite(t) PROVE IInv'
  BY <1>13 DEF ConsumerWrite
<1>14. ASSUME NEW t \in Consumers, ConsumerUnlock(t) PROVE IInv'
  BY <1>14 DEF ConsumerUnlock, M!MutexUnlock
<1>15. ASSUME NEW c \in Consumers, Spurious(c) PROVE IInv'
  BY <1>15 DEF Spurious
<1>16. CASE Terminating
  BY <1>16 DEF Terminating, vars
<1>17. CASE UNCHANGED vars
  BY <1>17 DEF vars
<1> QED
  BY <1>1, <1>2, <1>3, <1>4, <1>5, <1>6, <1>7, <1>8, <1>9, <1>10, <1>11,
     <1>12, <1>13, <1>14, <1>15, <1>16, <1>17 DEF Next, Step

(* Whatever interleaving of locks, trylocks, waits, signals, broadcasts,  *)
(* timeouts and spurious wakeups, every thread inside its critical        *)
(* section, a consumer back from g_cond_wait or g_cond_timed_wait         *)
(* included, holds the mutex.                                              *)
THEOREM HoldsMutexInCSThm == Spec => []HoldsMutexInCS
<1>1. IInv => HoldsMutexInCS
  BY DEF IInv
<1> QED
  BY <1>1, IInvInit, IInvStep, PTL DEF Spec

(* The counter the mutex protects loses no update: items is always what   *)
(* the producers added less what the consumers took.                       *)
THEOREM ItemsConservedThm == Spec => []ItemsConserved
<1>1. IInv => ItemsConserved
  BY DEF IInv
<1> QED
  BY <1>1, IInvInit, IInvStep, PTL DEF Spec
=============================================================================
