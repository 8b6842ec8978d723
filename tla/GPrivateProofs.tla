---------------------------- MODULE GPrivateProofs ----------------------------
(***************************************************************************)
(* Proofs about GPrivate, for every set of threads and of values.          *)
(***************************************************************************)
EXTENDS GPrivate, TLAPS

(* What makes a ready get return the thread's own value.  pthread's slot *)
(* of a thread agrees with the client's record except while a set that   *)
(* read ready is between its read and its store, and then the value it   *)
(* is storing is the record.  A thread reads ready only after init stored *)
(* it, which is after pthread_key_create emptied every slot; before that, *)
(* no set has read ready, so every record is NULL.                        *)
IInv ==
    /\ TypeOK
    /\ ready <=> initpc = "done"
    /\ \A t \in Threads : saw[t] => ready
    /\ \A t \in Threads : pc[t] = "set" /\ saw[t] => mine[t] = val[t]
    /\ \A t \in Threads : ~(pc[t] = "set" /\ saw[t]) => tls[t] = mine[t]
    /\ ~ready => \A t \in Threads : mine[t] = NULL

LEMMA IInvInit == Init => IInv
  BY DEF Init, IInv, TypeOK, Ptrs

LEMMA IInvStep == IInv /\ [Next]_vars => IInv'
<1> SUFFICES ASSUME IInv, [Next]_vars PROVE IInv'
  OBVIOUS
<1> USE DEF IInv, TypeOK, Ptrs
<1>1. CASE KeyCreate
  BY <1>1 DEF KeyCreate
<1>2. CASE SetReady
  BY <1>2 DEF SetReady
<1>3. ASSUME NEW t \in Threads, SetCall(t) PROVE IInv'
  <2>1. PICK v \in Ptrs : /\ val' = [val EXCEPT ![t] = v]
                         /\ mine' = IF ready THEN [mine EXCEPT ![t] = v] ELSE mine
    BY <1>3 DEF SetCall
  <2>2. CASE ready
    BY <1>3, <2>1, <2>2 DEF SetCall
  <2>3. CASE ~ready
    BY <1>3, <2>1, <2>3 DEF SetCall
  <2> QED
    BY <2>2, <2>3
<1>4. ASSUME NEW t \in Threads, SetWrite(t) PROVE IInv'
  <2>1. CASE ~saw[t]
    BY <1>4, <2>1 DEF SetWrite
  <2>2. CASE saw[t]
    BY <1>4, <2>2 DEF SetWrite
  <2> QED
    BY <2>1, <2>2
<1>5. ASSUME NEW t \in Threads, GetCall(t) PROVE IInv'
  BY <1>5 DEF GetCall
<1>6. ASSUME NEW t \in Threads, GetRead(t) PROVE IInv'
  BY <1>6 DEF GetRead
<1>7. CASE UNCHANGED vars
  BY <1>7 DEF vars
<1> QED
  BY <1>1, <1>2, <1>3, <1>4, <1>5, <1>6, <1>7 DEF Next

(* A get in progress is not a set, so its thread's slot holds the value  *)
(* of its last set that read ready.                                        *)
LEMMA GetReadStep ==
    ASSUME IInv, NEW t \in Threads, GetRead(t), saw[t]
    PROVE  got'[t] = mine[t]
<1>1. pc[t] = "get" /\ got' = [got EXCEPT ![t] = tls[t]]
  BY DEF GetRead
<1>2. tls[t] = mine[t]
  BY <1>1 DEF IInv
<1> QED
  BY <1>1, <1>2 DEF IInv, TypeOK

(* Whatever the threads set before, during or after g_private_init, a     *)
(* g_private_get that read key->ready as TRUE returns the value of the    *)
(* calling thread's own last g_private_set that read it TRUE.              *)
THEOREM ReadyGetSeesOwnSetThm == Spec => ReadyGetSeesOwnSet
<1>1. IInv /\ [Next]_vars
        => [\A t \in Threads : GetRead(t) /\ saw[t] => got'[t] = mine[t]]_vars
  BY GetReadStep
<1> QED
  BY <1>1, IInvInit, IInvStep, PTL DEF Spec, ReadyGetSeesOwnSet
=============================================================================
