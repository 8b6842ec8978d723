--------------------------- MODULE GRecMutexProofs ---------------------------
(***************************************************************************)
(* Proofs about GRecMutex, for every set of threads and addresses and     *)
(* every MaxDepth and NativeMax.                                           *)
(***************************************************************************)
EXTENDS GRecMutex, TLAPS

USE ConstAssumption

(* TypeOK is not inductive alone: acquiring a free native mutex raises its*)
(* count to 1 only if a free mutex has count 0, and unlocking lowers it   *)
(* only if an owned one has count above 0.                                 *)
TypeInv ==
    /\ TypeOK
    /\ \A a \in Addrs : owner[a] = NULL <=> count[a] = 0
    /\ \A t \in Threads : pc[t] = "cas" => loc[t] \in Addrs
    /\ \A t \in Threads : pc[t] \notin {"idle", "segv"} => depth[t] < MaxDepth

LEMMA TypeInvInit == Init => TypeInv
<1> SUFFICES ASSUME Init PROVE TypeInv
  OBVIOUS
<1>1. impl \in Ptr /\ used \subseteq Addrs
  BY DEF Init, Ptr
<1>2. owner \in [Addrs -> Threads \cup {NULL}] /\ count \in [Addrs -> 0..NativeMax]
  BY DEF Init
<1>3. \A a \in Addrs : owner[a] = NULL <=> count[a] = 0
  BY DEF Init
<1>4. pc \in [Threads -> Pcs] /\ op \in [Threads -> {"lock", "trylock"}]
  BY DEF Init, Pcs
<1>6. loc \in [Threads -> Ptr] /\ depth \in [Threads -> 0..MaxDepth]
  BY DEF Init, Ptr
<1>7. freed \subseteq Addrs /\ cleared \in BOOLEAN
  BY DEF Init
<1>5. /\ \A t \in Threads : pc[t] = "cas" => loc[t] \in Addrs
      /\ \A t \in Threads : pc[t] \notin {"idle", "segv"} => depth[t] < MaxDepth
  BY DEF Init
<1> QED
  BY <1>1, <1>2, <1>3, <1>4, <1>5, <1>6, <1>7 DEF TypeInv, TypeOK

(* Acquiring a native mutex that is free, or owned by the caller below the*)
(* ceiling, keeps owner and count typed and in step.                       *)
LEMMA AcquireTyped ==
    ASSUME TypeInv, NEW t \in Threads, NEW a \in Addrs,
           Free(a) \/ Below(t, a), Acquire(t, a)
    PROVE  /\ owner' \in [Addrs -> Threads \cup {NULL}]
           /\ count' \in [Addrs -> 0..NativeMax]
           /\ \A b \in Addrs : owner'[b] = NULL <=> count'[b] = 0
<1>1. count[a] + 1 \in 0..NativeMax
  BY DEF TypeInv, TypeOK, Free, Below
<1> QED
  BY <1>1 DEF TypeInv, TypeOK, Acquire

LEMMA TypeInvStep == TypeInv /\ [Next]_vars => TypeInv'
<1> SUFFICES ASSUME TypeInv, [Next]_vars PROVE TypeInv'
  OBVIOUS
<1> USE DEF TypeInv, TypeOK, Ptr, Pcs
<1>1. ASSUME NEW t \in Threads, NEW o \in {"lock", "trylock"}, Call(t, o)
      PROVE TypeInv'
  BY <1>1 DEF Call
<1>2. ASSUME NEW t \in Threads, ReadImpl(t) PROVE TypeInv'
  BY <1>2 DEF ReadImpl
<1>3. ASSUME NEW t \in Threads, CheckImpl(t) PROVE TypeInv'
  BY <1>3 DEF CheckImpl
<1>4. ASSUME NEW t \in Threads, ImplNew(t) PROVE TypeInv'
  BY <1>4 DEF ImplNew
<1>5. ASSUME NEW t \in Threads, PublishImpl(t) PROVE TypeInv'
  BY <1>5 DEF PublishImpl
<1>6. ASSUME NEW t \in Threads, RereadImpl(t) PROVE TypeInv'
  BY <1>6 DEF RereadImpl
<1>8. ASSUME NEW t \in Threads, PthreadLock(t) PROVE TypeInv'
  <2>1. CASE loc[t] = NULL
    BY <1>8, <2>1 DEF PthreadLock
  <2>2. CASE loc[t] # NULL /\ (Free(loc[t]) \/ Below(t, loc[t]))
    BY <1>8, <2>2, AcquireTyped DEF PthreadLock
  <2>3. CASE loc[t] # NULL /\ ~(Free(loc[t]) \/ Below(t, loc[t]))
    BY <1>8, <2>3 DEF PthreadLock
  <2> QED
    BY <2>1, <2>2, <2>3
<1>9. ASSUME NEW t \in Threads, PthreadTrylock(t) PROVE TypeInv'
  <2>1. CASE loc[t] = NULL
    BY <1>9, <2>1 DEF PthreadTrylock
  <2>2. CASE loc[t] # NULL /\ (Free(loc[t]) \/ Below(t, loc[t]))
    BY <1>9, <2>2, AcquireTyped DEF PthreadTrylock
  <2>3. CASE loc[t] # NULL /\ ~(Free(loc[t]) \/ Below(t, loc[t]))
    BY <1>9, <2>3 DEF PthreadTrylock
  <2> QED
    BY <2>1, <2>2, <2>3
<1>10. ASSUME NEW t \in Threads, g_rec_mutex_unlock(t) PROVE TypeInv'
  BY <1>10 DEF g_rec_mutex_unlock
<1>11. CASE g_rec_mutex_clear
  BY <1>11 DEF g_rec_mutex_clear
<1>12. CASE Terminating \/ UNCHANGED vars
  BY <1>12 DEF Terminating, vars
<1> QED
  BY <1>1, <1>2, <1>3, <1>4, <1>5, <1>6, <1>8, <1>9, <1>10, <1>11, <1>12
     DEF Next, g_rec_mutex_lock, g_rec_mutex_trylock

(* Every variable of GRecMutex stays within its type in every reachable   *)
(* state of the lazily allocated recursive mutex.                          *)
THEOREM TypeCorrect == Spec => []TypeOK
<1>1. Spec => []TypeInv
  BY TypeInvInit, TypeInvStep, PTL DEF Spec
<1> QED
  BY <1>1, PTL DEF TypeInv
-----------------------------------------------------------------------------
(* The inductive invariant behind MutualExclusion.  A thread about to    *)
(* lock holds the published address or NULL (the lost-race NULL crashes   *)
(* before it locks anything); only the published native mutex is ever    *)
(* owned; and each client's depth is the native count of the mutex it    *)
(* owns.  The ceiling case of pthread_mutex_lock, where the native count  *)
(* stays but the client's depth grows, is excluded by depth < MaxDepth <= *)
(* NativeMax.                                                              *)
LocalImpl ==
    \A t \in Threads : pc[t] \in {"check_impl", "native"} => loc[t] \in {NULL, impl}

OwnedIsPublished ==
    \A a \in Addrs : owner[a] # NULL => a = impl

HeldMatchesNative ==
    \A t \in Threads :
        depth[t] > 0 => impl \in Addrs /\ owner[impl] = t /\ count[impl] = depth[t]

OwnerDepth ==
    \A a \in Addrs : owner[a] # NULL => count[a] = depth[owner[a]]

IInv == TypeInv /\ LocalImpl /\ OwnedIsPublished /\ HeldMatchesNative /\ OwnerDepth

LEMMA IInvInit == Init => IInv
  BY TypeInvInit DEF Init, IInv, LocalImpl, OwnedIsPublished, HeldMatchesNative, OwnerDepth

LEMMA IInvStep ==
    ASSUME MaxDepth <= NativeMax
    PROVE  IInv /\ [Next]_vars => IInv'
<1> SUFFICES ASSUME IInv, [Next]_vars PROVE IInv'
  OBVIOUS
<1>0. TypeInv'
  BY TypeInvStep DEF IInv
<1> USE <1>0 DEF IInv, TypeInv, TypeOK, Ptr, Pcs, LocalImpl, OwnedIsPublished,
               HeldMatchesNative, OwnerDepth
<1>1. ASSUME NEW t \in Threads, NEW o \in {"lock", "trylock"}, Call(t, o)
      PROVE IInv'
  BY <1>1 DEF Call
<1>2. ASSUME NEW t \in Threads, ReadImpl(t) PROVE IInv'
  BY <1>2 DEF ReadImpl
<1>3. ASSUME NEW t \in Threads, CheckImpl(t) PROVE IInv'
  BY <1>3 DEF CheckImpl
<1>4. ASSUME NEW t \in Threads, ImplNew(t) PROVE IInv'
  BY <1>4 DEF ImplNew
<1>5. ASSUME NEW t \in Threads, PublishImpl(t) PROVE IInv'
  BY <1>5 DEF PublishImpl
<1>6. ASSUME NEW t \in Threads, RereadImpl(t) PROVE IInv'
  BY <1>6 DEF RereadImpl
<1>7. ASSUME NEW t \in Threads, PthreadLock(t) PROVE IInv'
  <2>1. CASE loc[t] = NULL
    BY <1>7, <2>1 DEF PthreadLock
  <2>2. CASE loc[t] # NULL /\ Free(loc[t])
    BY <1>7, <2>2 DEF PthreadLock, Free, Below, Acquire
  <2>3. CASE loc[t] # NULL /\ Below(t, loc[t])
    BY <1>7, <2>3 DEF PthreadLock, Free, Below, Acquire
  <2>4. CASE loc[t] # NULL /\ ~Free(loc[t]) /\ ~Below(t, loc[t])
    BY <1>7, <2>4 DEF PthreadLock, Free, Below
  <2> QED
    BY <2>1, <2>2, <2>3, <2>4
<1>8. ASSUME NEW t \in Threads, PthreadTrylock(t) PROVE IInv'
  <2>1. CASE loc[t] = NULL
    BY <1>8, <2>1 DEF PthreadTrylock
  <2>2. CASE loc[t] # NULL /\ Free(loc[t])
    BY <1>8, <2>2 DEF PthreadTrylock, Free, Below, Acquire
  <2>3. CASE loc[t] # NULL /\ Below(t, loc[t])
    BY <1>8, <2>3 DEF PthreadTrylock, Free, Below, Acquire
  <2>4. CASE loc[t] # NULL /\ ~Free(loc[t]) /\ ~Below(t, loc[t])
    BY <1>8, <2>4 DEF PthreadTrylock, Free, Below
  <2> QED
    BY <2>1, <2>2, <2>3, <2>4
<1>9. ASSUME NEW t \in Threads, g_rec_mutex_unlock(t) PROVE IInv'
  BY <1>9 DEF g_rec_mutex_unlock
<1>10. CASE g_rec_mutex_clear
  BY <1>10 DEF g_rec_mutex_clear
<1>11. CASE Terminating \/ UNCHANGED vars
  BY <1>11 DEF Terminating, vars
<1> QED
  BY <1>1, <1>2, <1>3, <1>4, <1>5, <1>6, <1>7, <1>8, <1>9, <1>10, <1>11
     DEF Next, g_rec_mutex_lock, g_rec_mutex_trylock

(* Mutual exclusion of g_rec_mutex_lock/trylock/unlock for any number of *)
(* threads racing through the lazy allocation, provided a client never   *)
(* nests deeper than the native recursion ceiling (MC_GRecMutex_ceiling   *)
(* shows the property fails beyond it).                                    *)
THEOREM MutualExclusionThm ==
    ASSUME MaxDepth <= NativeMax
    PROVE  Spec => []MutualExclusion
<1>1. IInv => MutualExclusion
  BY DEF IInv, HeldMatchesNative, MutualExclusion
<1> QED
  BY <1>1, IInvInit, IInvStep, PTL DEF Spec
-----------------------------------------------------------------------------
(* The inductive invariant behind NoLeak and NoUseAfterFree, for any      *)
(* depth bounds.  Each candidate a thread offers to the compare-and-      *)
(* exchange is its own: allocated, never freed, distinct from the         *)
(* published mutex and from every other thread's candidate (g_slice_new   *)
(* hands out an unused address).  So the winner publishes a live mutex    *)
(* and a loser frees only its private one.  A thread about to lock holds  *)
(* the published address or NULL, and clear happens only while every     *)
(* thread is idle, after which none starts again.                          *)
Candidates ==
    /\ \A t \in Threads : pc[t] = "cas" => loc[t] \in used \ freed /\ loc[t] # impl
    /\ \A t, u \in Threads :
          t # u /\ pc[t] = "cas" /\ pc[u] = "cas" => loc[t] # loc[u]

MemInv ==
    /\ TypeInv
    /\ freed \subseteq used
    /\ impl # NULL => impl \in used
    /\ Candidates
    /\ LocalImpl
    /\ cleared => \A t \in Threads : pc[t] = "idle"
    /\ NoLeak
    /\ ~cleared => impl \notin freed

LEMMA MemInvInit == Init => MemInv
  BY TypeInvInit DEF Init, MemInv, Candidates, LocalImpl, NoLeak

LEMMA MemInvStep == MemInv /\ [Next]_vars => MemInv'
<1> SUFFICES ASSUME MemInv, [Next]_vars PROVE MemInv'
  OBVIOUS
<1>0. TypeInv'
  BY TypeInvStep DEF MemInv
<1> USE <1>0 DEF MemInv, TypeInv, TypeOK, Ptr, Pcs, Candidates, LocalImpl, NoLeak
<1>1. ASSUME NEW t \in Threads, NEW o \in {"lock", "trylock"}, Call(t, o)
      PROVE MemInv'
  BY <1>1 DEF Call
<1>2. ASSUME NEW t \in Threads, ReadImpl(t) PROVE MemInv'
  BY <1>2 DEF ReadImpl
<1>3. ASSUME NEW t \in Threads, CheckImpl(t) PROVE MemInv'
  BY <1>3 DEF CheckImpl
<1>4. ASSUME NEW t \in Threads, ImplNew(t) PROVE MemInv'
  <2>1. PICK a \in Addrs \ used : used' = used \cup {a} /\ loc' = [loc EXCEPT ![t] = a]
    BY <1>4, Zenon DEF ImplNew
  <2>2. /\ a \notin freed /\ a # impl
        /\ \A u \in Threads : pc[u] = "cas" => loc[u] # a
    BY <2>1
  <2>3. pc' = [pc EXCEPT ![t] = "cas"] /\ pc[t] = "impl_new"
        /\ UNCHANGED <<impl, freed, cleared>>
    BY <1>4 DEF ImplNew
  <2>4. Candidates'
    BY <2>1, <2>2, <2>3
  <2>5. NoLeak'
    BY <2>1, <2>3
  <2> QED
    BY <2>1, <2>3, <2>4, <2>5
<1>5. ASSUME NEW t \in Threads, PublishImpl(t) PROVE MemInv'
  <2>1. CASE impl = NULL
    BY <1>5, <2>1 DEF PublishImpl
  <2>2. CASE impl # NULL
    BY <1>5, <2>2 DEF PublishImpl
  <2> QED
    BY <2>1, <2>2
<1>6. ASSUME NEW t \in Threads, RereadImpl(t) PROVE MemInv'
  BY <1>6 DEF RereadImpl
<1>7. ASSUME NEW t \in Threads, PthreadLock(t) PROVE MemInv'
  BY <1>7 DEF PthreadLock, Acquire
<1>8. ASSUME NEW t \in Threads, PthreadTrylock(t) PROVE MemInv'
  BY <1>8 DEF PthreadTrylock, Acquire
<1>9. ASSUME NEW t \in Threads, g_rec_mutex_unlock(t) PROVE MemInv'
  BY <1>9 DEF g_rec_mutex_unlock
<1>10. CASE g_rec_mutex_clear
  BY <1>10 DEF g_rec_mutex_clear
<1>11. CASE Terminating \/ UNCHANGED vars
  BY <1>11 DEF Terminating, vars
<1> QED
  BY <1>1, <1>2, <1>3, <1>4, <1>5, <1>6, <1>7, <1>8, <1>9, <1>10, <1>11
     DEF Next, g_rec_mutex_lock, g_rec_mutex_trylock

(* The lazy allocation of g_rec_mutex_get_impl leaks nothing: for any     *)
(* number of threads racing to allocate, every allocated native mutex not *)
(* yet freed is the published one or a candidate still in flight.         *)
THEOREM NoLeakThm == Spec => []NoLeak
<1>1. MemInv => NoLeak
  BY DEF MemInv
<1> QED
  BY <1>1, MemInvInit, MemInvStep, PTL DEF Spec

(* No freed native mutex is used: until g_rec_mutex_clear the published   *)
(* mutex is live, and no thread calls pthread_mutex_lock/trylock on a     *)
(* freed one (a compare-and-exchange loser frees only its own candidate). *)
THEOREM NoUseAfterFreeThm == Spec => []NoUseAfterFree
<1>1. MemInv => NoUseAfterFree
  BY DEF MemInv, LocalImpl, TypeInv, TypeOK, Ptr, NoUseAfterFree
<1> QED
  BY <1>1, MemInvInit, MemInvStep, PTL DEF Spec
-----------------------------------------------------------------------------
(* A trylock the native mutex refuses, by a thread that does not own it,  *)
(* is a trylock of a mutex someone else holds: the calling thread's own   *)
(* recursion never reaches the native ceiling, since its depth is below   *)
(* MaxDepth and the native count equals its depth.                         *)
LEMMA TrylockRefusedStep ==
    ASSUME MaxDepth <= NativeMax, IInv, NEW t \in Threads, PthreadTrylock(t),
           pc'[t] = "idle", depth'[t] = depth[t]
    PROVE  owner[loc[t]] \notin {NULL, t}
<1> DEFINE a == loc[t]
<1>1. a \in Addrs /\ pc[t] = "native"
  BY DEF PthreadTrylock, IInv, TypeInv, TypeOK, Ptr
<1>2. ~(Free(a) \/ Below(t, a))
  <2>1. depth[t] \in Nat /\ depth \in [Threads -> Nat]
    BY DEF IInv, TypeInv, TypeOK
  <2>2. IF Free(a) \/ Below(t, a)
           THEN depth' = [depth EXCEPT ![t] = @ + 1]
           ELSE UNCHANGED <<owner, count, depth>>
    BY <1>1, Zenon DEF PthreadTrylock, Ptr
  <2>3. [depth EXCEPT ![t] = @ + 1][t] # depth[t]
    BY <2>1
  <2> QED
    BY <2>2, <2>3
<1>3. owner[a] = t => count[a] = depth[t] /\ depth[t] < MaxDepth
  BY <1>1 DEF IInv, OwnerDepth, TypeInv
<1>4. count[a] \in Nat /\ depth[t] \in Nat
  BY <1>1 DEF IInv, TypeInv, TypeOK
<1> QED
  BY <1>2, <1>3, <1>4 DEF Free, Below

(* Whenever MaxDepth <= NativeMax, g_rec_mutex_trylock returns FALSE     *)
(* (pthread_mutex_trylock's EBUSY) only when another thread holds the     *)
(* native mutex: never on a free one, never to the thread that owns it.  *)
THEOREM TrylockFailsOnlyIfHeldThm ==
    ASSUME MaxDepth <= NativeMax
    PROVE  Spec => TrylockFailsOnlyIfHeld
<1>1. IInv /\ [Next]_vars =>
        [\A t \in Threads :
            (PthreadTrylock(t) /\ pc'[t] = "idle" /\ depth'[t] = depth[t])
               => owner[loc[t]] \notin {NULL, t}]_vars
  BY TrylockRefusedStep
<1>2. Spec => []IInv
  BY IInvInit, IInvStep, PTL DEF Spec
<1> QED
  BY <1>1, <1>2, PTL DEF Spec, TrylockFailsOnlyIfHeld
=============================================================================
