------------------------------ MODULE GPrivate ------------------------------
(***************************************************************************)
(* GPrivate of gthread-posix.c: a thread-local slot that works before     *)
(* g_private_init has made it ready, by keeping one value for all threads *)
(* in key->single_value, and afterwards stores per thread with             *)
(* pthread_setspecific.  g_private_init (pthread_key_create, then         *)
(* ready = TRUE) runs in one thread while client threads get and set.     *)
(*                                                                         *)
(* g_private_get and g_private_set each read key->ready and then act on   *)
(* what they read; the two are separate steps, so init can complete       *)
(* between them.  Memory is taken as sequentially consistent.              *)
(***************************************************************************)
CONSTANTS
    Threads,   \* client threads
    Values,    \* pointers a client stores (not NULL)
    NULL

ASSUME PrivateAssumption == NULL \notin Values

VARIABLES
    initpc,   \* the initialising thread: "create", "ready" or "done"
    ready,    \* key->ready
    single,   \* key->single_value
    tls,      \* tls[t]: pthread_getspecific (key->key) in thread t
    pc,       \* "idle", or "set" / "get" after reading key->ready
    saw,      \* saw[t]: the value of key->ready t read
    val,      \* val[t]: the value t is setting
    got,      \* got[t]: what t's last g_private_get returned
    mine      \* mine[t]: the value of t's last g_private_set call that read
              \* key->ready as TRUE (a history variable of the client)

vars == <<initpc, ready, single, tls, pc, saw, val, got, mine>>

Ptrs == Values \cup {NULL}

-----------------------------------------------------------------------------
(* A zeroed GPrivate (G_PRIVATE_INIT): not ready, single_value NULL.       *)
Init ==
    /\ initpc = "create"
    /\ ready = FALSE
    /\ single = NULL
    /\ tls = [t \in Threads |-> NULL]
    /\ pc = [t \in Threads |-> "idle"]
    /\ saw = [t \in Threads |-> FALSE]
    /\ val = [t \in Threads |-> NULL]
    /\ got = [t \in Threads |-> NULL]
    /\ mine = [t \in Threads |-> NULL]

(* g_private_init: pthread_key_create (&key->key, notify); the key starts *)
(* with NULL in every thread.                                              *)
KeyCreate ==
    /\ initpc = "create"
    /\ initpc' = "ready"
    /\ tls' = [t \in Threads |-> NULL]
    /\ UNCHANGED <<ready, single, pc, saw, val, got, mine>>

(* key->ready = TRUE;                                                      *)
SetReady ==
    /\ initpc = "ready"
    /\ initpc' = "done"
    /\ ready' = TRUE
    /\ UNCHANGED <<single, tls, pc, saw, val, got, mine>>

(* g_private_set (key, value): if (!key->ready) ...  The client's record *)
(* mine is kept here, where the call reads ready, not where it stores.   *)
SetCall(t) ==
    /\ pc[t] = "idle"
    /\ \E v \in Ptrs : /\ val' = [val EXCEPT ![t] = v]
                       /\ mine' = IF ready THEN [mine EXCEPT ![t] = v] ELSE mine
    /\ saw' = [saw EXCEPT ![t] = ready]
    /\ pc' = [pc EXCEPT ![t] = "set"]
    /\ UNCHANGED <<initpc, ready, single, tls, got>>

(* Mutant of SetWrite: the value always goes to single_value.              *)
SetWriteFallbackOnly(t) ==
    /\ pc[t] = "set"
    /\ single' = val[t]
    /\ pc' = [pc EXCEPT ![t] = "idle"]
    /\ UNCHANGED <<initpc, ready, tls, saw, val, got, mine>>

(* ... key->single_value = value, or pthread_setspecific (key->key, value)*)
(* (0 on a created key).                                                   *)
SetWrite(t) ==
    /\ pc[t] = "set"
    /\ \/ ~saw[t] /\ single' = val[t] /\ UNCHANGED tls
       \/ saw[t] /\ tls' = [tls EXCEPT ![t] = val[t]] /\ UNCHANGED single
    /\ pc' = [pc EXCEPT ![t] = "idle"]
    /\ UNCHANGED <<initpc, ready, saw, val, got, mine>>

(* g_private_get (key): if (!key->ready) ...                               *)
GetCall(t) ==
    /\ pc[t] = "idle"
    /\ saw' = [saw EXCEPT ![t] = ready]
    /\ pc' = [pc EXCEPT ![t] = "get"]
    /\ UNCHANGED <<initpc, ready, single, tls, val, got, mine>>

(* ... return key->single_value, or pthread_getspecific (key->key).        *)
GetRead(t) ==
    /\ pc[t] = "get"
    /\ got' = [got EXCEPT ![t] = IF saw[t] THEN tls[t] ELSE single]
    /\ pc' = [pc EXCEPT ![t] = "idle"]
    /\ UNCHANGED <<initpc, ready, single, tls, saw, val, mine>>

Next ==
    \/ KeyCreate \/ SetReady
    \/ \E t \in Threads : SetCall(t) \/ SetWrite(t) \/ GetCall(t) \/ GetRead(t)

Spec == Init /\ [][Next]_vars

-----------------------------------------------------------------------------
(* Every variable stays within its type.                                   *)
TypeOK ==
    /\ initpc \in {"create", "ready", "done"}
    /\ ready \in BOOLEAN
    /\ single \in Ptrs
    /\ tls \in [Threads -> Ptrs]
    /\ pc \in [Threads -> {"idle", "set", "get"}]
    /\ saw \in [Threads -> BOOLEAN] /\ val \in [Threads -> Ptrs]
    /\ got \in [Threads -> Ptrs] /\ mine \in [Threads -> Ptrs]

(* Spec 4.5: once the slot is ready, g_private_get returns the calling   *)
(* thread's stored value.  A g_private_get that read key->ready as TRUE   *)
(* returns the value of the same thread's last g_private_set that also   *)
(* read it TRUE (NULL if none), whatever any thread set before or during *)
(* g_private_init and whatever the other threads set since.               *)
ReadyGetSeesOwnSet ==
    [][\A t \in Threads : GetRead(t) /\ saw[t] => got'[t] = mine[t]]_vars
=============================================================================
