------------------------------- MODULE GMutex -------------------------------
(***************************************************************************)
(* GMutex of gthread-posix.c: a non-recursive pthread mutex (adaptive     *)
(* where available).  Its state is the thread holding it.  The operations *)
(* are written as actions of a thread t, for modules that compose GMutex  *)
(* with the threads that use it (GCond).                                   *)
(*                                                                         *)
(* The wrappers abort on any status but 0 (and EBUSY for trylock); a      *)
(* correct caller on an initialised mutex gets 0 from glibc, so the abort *)
(* paths are not reachable here.  Relocking by the holder blocks: an      *)
(* adaptive or normal mutex deadlocks its own holder.                      *)
(***************************************************************************)
CONSTANTS NULL

VARIABLE holder   \* the thread that holds the mutex, or NULL

(* g_mutex_init, or G_MUTEX_INIT: an unlocked mutex.                       *)
MutexInit == holder = NULL

(* g_mutex_lock: pthread_mutex_lock blocks until the mutex is free.        *)
MutexLock(t) ==
    /\ holder = NULL
    /\ holder' = t

(* Mutant: g_mutex_trylock taking EBUSY for success.                     *)
MutexTrylockNoCheck(t) ==
    holder' = t

(* g_mutex_trylock: TRUE and the mutex when it is free ...                 *)
MutexTrylockOk(t) ==
    /\ holder = NULL
    /\ holder' = t

(* ... and FALSE on EBUSY, whoever holds it, t itself included.            *)
MutexTrylockBusy(t) ==
    /\ holder # NULL
    /\ UNCHANGED holder

(* g_mutex_unlock, by the holder (anything else is undefined behaviour).   *)
MutexUnlock(t) ==
    /\ holder = t
    /\ holder' = NULL
=============================================================================
