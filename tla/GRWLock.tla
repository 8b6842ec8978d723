------------------------------- MODULE GRWLock -------------------------------
(***************************************************************************)
(* GRWLock of gthread-posix.c: each operation is one call of the matching *)
(* pthread_rwlock_* function on a lock made by pthread_rwlock_init (&impl,*)
(* NULL), whose status is ignored except by the trylocks, which map every *)
(* non-zero status to FALSE.                                               *)
(*                                                                         *)
(* The native lock is glibc's default kind (PTHREAD_RWLOCK_PREFER_READER_ *)
(* NP): a reader is admitted whenever no thread holds the write lock, even*)
(* while writers wait; a writer waits until no thread holds it at all.    *)
(* It counts its readers in nr, up to a ceiling ReaderMax past which      *)
(* rdlock and tryrdlock return EAGAIN.                                     *)
(*                                                                         *)
(* Each thread is a correct client: it unlocks only what it holds, never  *)
(* read-locks while it holds the write lock, and write-locks only while   *)
(* it holds nothing.  rdepth and wheld are what it believes it holds.     *)
(***************************************************************************)
EXTENDS Naturals

CONSTANTS
    Threads,
    NULL,
    MaxDepth,    \* bound on a client's read-lock recursion
    ReaderMax    \* the native lock's reader-count ceiling

ASSUME RWAssumption ==
    /\ NULL \notin Threads
    /\ MaxDepth \in Nat \ {0}
    /\ ReaderMax \in Nat \ {0}

VARIABLES
    nr,       \* native: number of read locks held
    wr,       \* native: the write-lock owner, or NULL
    pc,       \* "idle", or blocked in "rdlock" / "wrlock"
    rdepth,   \* the client's belief: read locks it holds
    wheld     \* the client's belief: it holds the write lock

vars == <<nr, wr, pc, rdepth, wheld>>

-----------------------------------------------------------------------------
(* g_rw_lock_init, or the zeroed G_RW_LOCK_INIT: an unlocked lock.        *)
Init ==
    /\ nr = 0
    /\ wr = NULL
    /\ pc = [t \in Threads |-> "idle"]
    /\ rdepth = [t \in Threads |-> 0]
    /\ wheld = [t \in Threads |-> FALSE]

Holds(t) == rdepth[t] > 0 \/ wheld[t]

(* A read lock for t, if the native count is below its ceiling; at the  *)
(* ceiling rdlock returns EAGAIN, which g_rw_lock_reader_lock drops, and  *)
(* the client goes on as a reader without a read lock.                    *)
Admit(t) ==
    /\ nr' = IF nr < ReaderMax THEN nr + 1 ELSE nr
    /\ rdepth' = [rdepth EXCEPT ![t] = @ + 1]

(* g_rw_lock_reader_lock: pthread_rwlock_rdlock returns at once unless a  *)
(* thread holds the write lock; then the caller blocks.                   *)
ReaderLock(t) ==
    /\ pc[t] = "idle" /\ ~wheld[t] /\ rdepth[t] < MaxDepth
    /\ \/ wr = NULL /\ Admit(t) /\ UNCHANGED pc
       \/ wr # NULL /\ pc' = [pc EXCEPT ![t] = "rdlock"] /\ UNCHANGED <<nr, rdepth>>
    /\ UNCHANGED <<wr, wheld>>

(* Mutant of ReaderLockWake: a blocked reader admitted while a writer     *)
(* holds the lock.                                                         *)
ReaderLockWakeIgnoringWriter(t) ==
    /\ pc[t] = "rdlock"
    /\ Admit(t)
    /\ pc' = [pc EXCEPT ![t] = "idle"]
    /\ UNCHANGED <<wr, wheld>>

(* A blocked pthread_rwlock_rdlock returns once no writer holds the lock. *)
ReaderLockWake(t) ==
    /\ pc[t] = "rdlock"
    /\ wr = NULL
    /\ Admit(t)
    /\ pc' = [pc EXCEPT ![t] = "idle"]
    /\ UNCHANGED <<wr, wheld>>

(* g_rw_lock_reader_trylock: TRUE on 0; FALSE on EBUSY (a writer holds)  *)
(* and on EAGAIN (the ceiling).                                            *)
ReaderTrylock(t) ==
    /\ pc[t] = "idle" /\ ~wheld[t] /\ rdepth[t] < MaxDepth
    /\ IF wr = NULL /\ nr < ReaderMax
          THEN /\ nr' = nr + 1
               /\ rdepth' = [rdepth EXCEPT ![t] = @ + 1]
          ELSE UNCHANGED <<nr, rdepth>>
    /\ UNCHANGED <<wr, pc, wheld>>

Free == wr = NULL /\ nr = 0

TakeWrite(t) ==
    /\ wr' = t
    /\ wheld' = [wheld EXCEPT ![t] = TRUE]

(* g_rw_lock_writer_lock: pthread_rwlock_wrlock returns at once if nobody *)
(* holds the lock, and blocks otherwise.                                   *)
WriterLock(t) ==
    /\ pc[t] = "idle" /\ ~Holds(t)
    /\ \/ Free /\ TakeWrite(t) /\ UNCHANGED pc
       \/ ~Free /\ pc' = [pc EXCEPT ![t] = "wrlock"] /\ UNCHANGED <<wr, wheld>>
    /\ UNCHANGED <<nr, rdepth>>

(* A blocked pthread_rwlock_wrlock returns once nobody holds the lock.    *)
WriterLockWake(t) ==
    /\ pc[t] = "wrlock"
    /\ Free
    /\ TakeWrite(t)
    /\ pc' = [pc EXCEPT ![t] = "idle"]
    /\ UNCHANGED <<nr, rdepth>>

(* g_rw_lock_writer_trylock: TRUE on 0, FALSE on EBUSY.                    *)
WriterTrylock(t) ==
    /\ pc[t] = "idle" /\ ~Holds(t)
    /\ IF Free THEN TakeWrite(t) ELSE UNCHANGED <<wr, wheld>>
    /\ UNCHANGED <<nr, pc, rdepth>>

(* g_rw_lock_writer_unlock: pthread_rwlock_unlock by the write owner.     *)
WriterUnlock(t) ==
    /\ pc[t] = "idle" /\ wheld[t]
    /\ wr' = NULL
    /\ wheld' = [wheld EXCEPT ![t] = FALSE]
    /\ UNCHANGED <<nr, pc, rdepth>>

(* g_rw_lock_reader_unlock: pthread_rwlock_unlock by a reader releases   *)
(* one read lock; the status (EPERM with no read lock left) is dropped.   *)
ReaderUnlock(t) ==
    /\ pc[t] = "idle" /\ rdepth[t] > 0
    /\ nr' = IF nr > 0 THEN nr - 1 ELSE nr
    /\ rdepth' = [rdepth EXCEPT ![t] = @ - 1]
    /\ UNCHANGED <<wr, pc, wheld>>

Next ==
    \E t \in Threads :
        \/ ReaderLock(t) \/ ReaderLockWake(t) \/ ReaderTrylock(t)
        \/ WriterLock(t) \/ WriterLockWake(t) \/ WriterTrylock(t)
        \/ WriterUnlock(t) \/ ReaderUnlock(t)

Spec == Init /\ [][Next]_vars

-----------------------------------------------------------------------------
(* The lock as its clients see it: the threads' beliefs.                   *)
WriterOf == IF \E t \in Threads : wheld[t]
               THEN CHOOSE t \in Threads : wheld[t]
               ELSE NULL

RW == INSTANCE RWLock WITH readers <- rdepth, writer <- WriterOf

(* Every interleaving of GRWLock's operations, as the clients see them, is*)
(* a behaviour of the abstract reader/writer lock: a client never believes*)
(* it reads while another believes it writes, nor two writers at once.    *)
Refines == RW!Spec

(* The doc comment of g_rw_lock_reader_lock: a reader blocks while another*)
(* thread holds the write lock or blocks waiting for it.  No first       *)
(* (non-recursive) g_rw_lock_reader_lock returns while a writer waits in *)
(* pthread_rwlock_wrlock; a thread that already reads may lock again, as *)
(* the same comment allows recursive read locks.                           *)
ReaderYieldsToWaitingWriter ==
    [][\A t \in Threads :
         (ReaderLock(t) \/ ReaderLockWake(t)) /\ rdepth[t] = 0 /\ pc'[t] = "idle"
            => \A u \in Threads : pc[u] # "wrlock"]_vars
=============================================================================
