------------------------------ MODULE GRecMutex ------------------------------
(***************************************************************************)
(* GRecMutex of gthread-posix.c: a recursive mutex whose native           *)
(* pthread_mutex_t is allocated lazily on first use and published with an *)
(* atomic compare-and-exchange (g_rec_mutex_get_impl), plus lock, trylock, *)
(* unlock, init and clear.                                                 *)
(*                                                                         *)
(* Each thread of Threads is a client that locks and unlocks the one      *)
(* GRecMutex in any order a correct client may (it never unlocks what it  *)
(* does not hold).  depth[t] is the number of times the client believes   *)
(* it holds the lock: g_rec_mutex_lock returned (or trylock returned TRUE)*)
(* that many more times than it called g_rec_mutex_unlock.  The native    *)
(* recursive mutex at address a is owner[a] and count[a], as glibc keeps  *)
(* them; NativeMax is its recursion ceiling, beyond which                 *)
(* pthread_mutex_lock/trylock return EAGAIN.                              *)
(***************************************************************************)
EXTENDS Naturals

CONSTANTS
    Threads,    \* the client threads
    Addrs,      \* addresses g_slice_new may hand out for a pthread_mutex_t
    NULL,       \* the null pointer
    MaxDepth,   \* bound on a client's recursion depth
    NativeMax   \* the native recursive mutex's lock-count ceiling

ASSUME ConstAssumption ==
    /\ NULL \notin Addrs
    /\ NULL \notin Threads
    /\ MaxDepth \in Nat \ {0}
    /\ NativeMax \in Nat \ {0}

VARIABLES
    impl,     \* rec_mutex->impl: NULL or the published address
    used,     \* addresses allocated so far (g_slice_new)
    freed,    \* addresses released again (g_slice_free)
    owner,    \* owner[a]: the thread holding the native mutex at a, or NULL
    count,    \* count[a]: its recursion count
    pc,       \* where each thread is in the operation it is executing
    op,       \* the operation ("lock" or "trylock") that called get_impl
    loc,      \* the local variable impl of g_rec_mutex_get_impl
    depth,    \* the client's belief of how often it holds the lock
    cleared   \* g_rec_mutex_clear has been called

vars == <<impl, used, freed, owner, count, pc, op, loc, depth, cleared>>

Ptr == Addrs \cup {NULL}

Pcs == {"idle", "read_impl", "check_impl", "impl_new", "cas", "reread",
        "native", "segv"}

(* A null dereference in pthread_mutex_lock/unlock kills the process.      *)
Crashed == \E t \in Threads : pc[t] = "segv"

-----------------------------------------------------------------------------
(* g_rec_mutex_init, or the zero G_REC_MUTEX_INIT of a static GRecMutex.  *)
Init ==
    /\ \/ impl = NULL /\ used = {}
       \/ \E a \in Addrs : impl = a /\ used = {a}
    /\ freed = {}
    /\ owner = [a \in Addrs |-> NULL]
    /\ count = [a \in Addrs |-> 0]
    /\ pc = [t \in Threads |-> "idle"]
    /\ op = [t \in Threads |-> "lock"]
    /\ loc = [t \in Threads |-> NULL]
    /\ depth = [t \in Threads |-> 0]
    /\ cleared = FALSE

(* A client calls g_rec_mutex_lock or g_rec_mutex_trylock; both start by  *)
(* calling g_rec_mutex_get_impl.                                           *)
Call(t, o) ==
    /\ pc[t] = "idle"
    /\ ~cleared /\ ~Crashed
    /\ depth[t] < MaxDepth
    /\ pc' = [pc EXCEPT ![t] = "read_impl"]
    /\ op' = [op EXCEPT ![t] = o]
    /\ UNCHANGED <<impl, used, freed, owner, count, loc, depth, cleared>>

g_rec_mutex_lock(t) == Call(t, "lock")

g_rec_mutex_trylock(t) == Call(t, "trylock")

(* pthread_mutex_t *impl = mutex->impl;                                    *)
ReadImpl(t) ==
    /\ pc[t] = "read_impl" /\ ~Crashed
    /\ loc' = [loc EXCEPT ![t] = impl]
    /\ pc' = [pc EXCEPT ![t] = "check_impl"]
    /\ UNCHANGED <<impl, used, freed, owner, count, op, depth, cleared>>

(* if (mutex->impl == NULL): the field is read again, a data race with a  *)
(* concurrent publication.  The compiler may load it anew or reuse the    *)
(* first load; either way, when the test fails the function returns the   *)
(* local impl, which is NULL if only the second load saw the publication. *)
CheckImpl(t) ==
    /\ pc[t] = "check_impl" /\ ~Crashed
    /\ \E seen \in {impl, loc[t]} :
          pc' = [pc EXCEPT ![t] = IF seen = NULL THEN "impl_new" ELSE "native"]
    /\ UNCHANGED <<impl, used, freed, owner, count, op, loc, depth, cleared>>

(* impl = g_rec_mutex_impl_new (): a fresh, unlocked native mutex.         *)
ImplNew(t) ==
    /\ pc[t] = "impl_new" /\ ~Crashed
    /\ \E a \in Addrs \ used :
          /\ used' = used \cup {a}
          /\ loc' = [loc EXCEPT ![t] = a]
    /\ pc' = [pc EXCEPT ![t] = "cas"]
    /\ UNCHANGED <<impl, freed, owner, count, op, depth, cleared>>

(* Mutants of PublishImpl: a plain store in place of the compare-and-     *)
(* exchange, a loser that keeps its candidate, and the test inverted.     *)
PublishImplNoCas(t) ==
    /\ pc[t] = "cas" /\ ~Crashed
    /\ impl' = loc[t]
    /\ pc' = [pc EXCEPT ![t] = "reread"]
    /\ UNCHANGED <<used, freed, owner, count, op, loc, depth, cleared>>

PublishImplNoFree(t) ==
    /\ pc[t] = "cas" /\ ~Crashed
    /\ impl' = IF impl = NULL THEN loc[t] ELSE impl
    /\ pc' = [pc EXCEPT ![t] = "reread"]
    /\ UNCHANGED <<used, freed, owner, count, op, loc, depth, cleared>>

PublishImplFreeWinner(t) ==
    /\ pc[t] = "cas" /\ ~Crashed
    /\ impl' = IF impl = NULL THEN loc[t] ELSE impl
    /\ freed' = IF impl = NULL THEN freed \cup {loc[t]} ELSE freed
    /\ pc' = [pc EXCEPT ![t] = "reread"]
    /\ UNCHANGED <<used, owner, count, op, loc, depth, cleared>>

(* if (!g_atomic_pointer_compare_and_exchange (&mutex->impl, NULL, impl)) *)
(*   g_rec_mutex_impl_free (impl);                                         *)
(* The free touches only the loser's private candidate, so it is part of  *)
(* the same step.                                                          *)
PublishImpl(t) ==
    /\ pc[t] = "cas" /\ ~Crashed
    /\ IF impl = NULL
          THEN /\ impl' = loc[t]
               /\ UNCHANGED freed
          ELSE /\ freed' = freed \cup {loc[t]}
               /\ UNCHANGED impl
    /\ pc' = [pc EXCEPT ![t] = "reread"]
    /\ UNCHANGED <<used, owner, count, op, loc, depth, cleared>>

(* impl = mutex->impl;                                                     *)
RereadImpl(t) ==
    /\ pc[t] = "reread" /\ ~Crashed
    /\ loc' = [loc EXCEPT ![t] = impl]
    /\ pc' = [pc EXCEPT ![t] = "native"]
    /\ UNCHANGED <<impl, used, freed, owner, count, op, depth, cleared>>

(* The native recursive mutex at a can be locked by t, and by how much.   *)
Free(a) == owner[a] = NULL
Below(t, a) == owner[a] = t /\ count[a] < NativeMax

Acquire(t, a) ==
    /\ owner' = [owner EXCEPT ![a] = t]
    /\ count' = [count EXCEPT ![a] = @ + 1]

(* pthread_mutex_lock (g_rec_mutex_get_impl (mutex)): blocks while another*)
(* thread owns the mutex; its EAGAIN at the recursion ceiling is ignored, *)
(* so g_rec_mutex_lock returns as if it had locked.                        *)
PthreadLock(t) ==
    /\ pc[t] = "native" /\ op[t] = "lock" /\ ~Crashed
    /\ \/ /\ loc[t] = NULL
          /\ pc' = [pc EXCEPT ![t] = "segv"]
          /\ UNCHANGED <<owner, count, depth>>
       \/ /\ loc[t] # NULL
          /\ owner[loc[t]] \in {NULL, t}
          /\ IF Free(loc[t]) \/ Below(t, loc[t])
                THEN Acquire(t, loc[t])
                ELSE UNCHANGED <<owner, count>>
          /\ depth' = [depth EXCEPT ![t] = @ + 1]
          /\ pc' = [pc EXCEPT ![t] = "idle"]
    /\ UNCHANGED <<impl, used, freed, op, loc, cleared>>

(* Mutant of PthreadTrylock: a native mutex created without              *)
(* PTHREAD_MUTEX_RECURSIVE, whose trylock fails for its own owner.         *)
PthreadTrylockNonRecursive(t) ==
    /\ pc[t] = "native" /\ op[t] = "trylock" /\ ~Crashed
    /\ loc[t] # NULL
    /\ IF Free(loc[t])
          THEN /\ Acquire(t, loc[t])
               /\ depth' = [depth EXCEPT ![t] = @ + 1]
          ELSE UNCHANGED <<owner, count, depth>>
    /\ pc' = [pc EXCEPT ![t] = "idle"]
    /\ UNCHANGED <<impl, used, freed, op, loc, cleared>>

(* if (pthread_mutex_trylock (g_rec_mutex_get_impl (rec_mutex)) != 0)      *)
(*   return FALSE;   -- EBUSY and EAGAIN alike.                            *)
PthreadTrylock(t) ==
    /\ pc[t] = "native" /\ op[t] = "trylock" /\ ~Crashed
    /\ \/ /\ loc[t] = NULL
          /\ pc' = [pc EXCEPT ![t] = "segv"]
          /\ UNCHANGED <<owner, count, depth>>
       \/ /\ loc[t] # NULL
          /\ IF Free(loc[t]) \/ Below(t, loc[t])
                THEN /\ Acquire(t, loc[t])
                     /\ depth' = [depth EXCEPT ![t] = @ + 1]
                ELSE UNCHANGED <<owner, count, depth>>
          /\ pc' = [pc EXCEPT ![t] = "idle"]
    /\ UNCHANGED <<impl, used, freed, op, loc, cleared>>

(* g_rec_mutex_unlock: pthread_mutex_unlock (rec_mutex->impl), reading the*)
(* field directly; EPERM from a non-owner is ignored.  A client holding  *)
(* the lock has made impl non-NULL (HeldMatchesNative in GRecMutexProofs), *)
(* so impl is a native mutex here.                                         *)
g_rec_mutex_unlock(t) ==
    /\ pc[t] = "idle"
    /\ ~cleared /\ ~Crashed
    /\ depth[t] > 0
    /\ IF owner[impl] = t
          THEN /\ count' = [count EXCEPT ![impl] = @ - 1]
               /\ owner' = [owner EXCEPT ![impl] =
                              IF count[impl] = 1 THEN NULL ELSE t]
          ELSE UNCHANGED <<owner, count>>
    /\ depth' = [depth EXCEPT ![t] = @ - 1]
    /\ UNCHANGED <<impl, used, freed, pc, op, loc, cleared>>

(* g_rec_mutex_clear, once no thread uses or holds the mutex: frees the   *)
(* native mutex if one was allocated, and leaves impl pointing at it.     *)
g_rec_mutex_clear ==
    /\ ~cleared /\ ~Crashed
    /\ \A t \in Threads : pc[t] = "idle" /\ depth[t] = 0
    /\ freed' = IF impl # NULL THEN freed \cup {impl} ELSE freed
    /\ cleared' = TRUE
    /\ UNCHANGED <<impl, used, owner, count, pc, op, loc, depth>>

(* After clear, or after a crash, nothing more happens.                    *)
Terminating ==
    /\ cleared \/ Crashed
    /\ UNCHANGED vars

Next ==
    \/ \E t \in Threads :
          \/ g_rec_mutex_lock(t) \/ g_rec_mutex_trylock(t)
          \/ ReadImpl(t) \/ CheckImpl(t) \/ ImplNew(t) \/ PublishImpl(t)
          \/ RereadImpl(t) \/ PthreadLock(t) \/ PthreadTrylock(t)
          \/ g_rec_mutex_unlock(t)
    \/ g_rec_mutex_clear
    \/ Terminating

Spec == Init /\ [][Next]_vars

-----------------------------------------------------------------------------
(* Every variable stays within its type.                                   *)
TypeOK ==
    /\ impl \in Ptr
    /\ used \subseteq Addrs
    /\ freed \subseteq Addrs
    /\ owner \in [Addrs -> Threads \cup {NULL}]
    /\ count \in [Addrs -> 0..NativeMax]
    /\ pc \in [Threads -> Pcs]
    /\ op \in [Threads -> {"lock", "trylock"}]
    /\ loc \in [Threads -> Ptr]
    /\ depth \in [Threads -> 0..MaxDepth]
    /\ cleared \in BOOLEAN

(* Mutual exclusion as the clients see it: no two threads are both between*)
(* a successful g_rec_mutex_lock/trylock and their matching unlock.  It   *)
(* rests on the compare-and-exchange publishing one native mutex for all  *)
(* racing first users and on every lock reaching the native mutex.        *)
MutualExclusion ==
    \A t, u \in Threads : t # u => ~(depth[t] > 0 /\ depth[u] > 0)

(* No leak in the lazy allocation: every allocated, not yet freed native  *)
(* mutex is the published one or a candidate about to be offered to the  *)
(* compare-and-exchange; a loser frees its candidate.                     *)
NoLeak ==
    \A a \in used \ freed :
        a = impl \/ \E t \in Threads : pc[t] = "cas" /\ loc[t] = a

(* No use after free: while the mutex is not cleared, the published native*)
(* mutex is live, and no thread is about to lock a freed one.             *)
NoUseAfterFree ==
    /\ ~cleared => impl \notin freed
    /\ \A t \in Threads : pc[t] = "native" => loc[t] \notin freed

(* g_rec_mutex_trylock returns FALSE only when another thread holds the   *)
(* mutex (spec 4.2): a step in which a trylock returns without raising    *)
(* the caller's depth happens only while someone else owns the mutex.     *)
TrylockFailsOnlyIfHeld ==
    [][\A t \in Threads :
         (PthreadTrylock(t) /\ pc'[t] = "idle" /\ depth'[t] = depth[t])
            => owner[loc[t]] \notin {NULL, t}]_vars

(* Every caller of g_rec_mutex_get_impl gets the published native mutex   *)
(* (spec 9: first caller wins, the others use the winner's handle).       *)
GetImplReturnsPublished ==
    \A t \in Threads : pc[t] = "native" => loc[t] = impl /\ impl # NULL
=============================================================================
