---------------------------- MODULE GRWLockProofs ----------------------------
(***************************************************************************)
(* Proof that GRWLock implements the abstract RWLock under the refinement *)
(* mapping readers <- rdepth, writer <- WriterOf, for every finite set of *)
(* threads whose read locks all fit under the native reader ceiling.      *)
(***************************************************************************)
EXTENDS GRWLock, FiniteSets, FiniteSetTheorems, TLAPS

(* The read locks the clients hold, one token <<t, i>> for the i-th       *)
(* recursive read lock of t.  Their number is the sum of the rdepth's,    *)
(* written as a cardinality so that no recursive operator is needed.      *)
Slots == Threads \X (1..MaxDepth)

Tokens(d) == {p \in Slots : p[2] <= d[p[1]]}

ReadTokens == Tokens(rdepth)

(* Every variable stays within its type.                                   *)
TypeOK ==
    /\ nr \in Nat
    /\ wr \in Threads \cup {NULL}
    /\ pc \in [Threads -> {"idle", "rdlock", "wrlock"}]
    /\ rdepth \in [Threads -> 0..MaxDepth]
    /\ wheld \in [Threads -> BOOLEAN]

(* The native lock agrees with its clients: its reader count is the       *)
(* number of read locks they hold, its write owner is the one client that *)
(* believes it writes, and a written lock has no readers.                 *)
IInv ==
    /\ TypeOK
    /\ nr = Cardinality(ReadTokens)
    /\ \A t \in Threads : wheld[t] <=> wr = t
    /\ wr # NULL => nr = 0
    /\ \A t \in Threads : pc[t] = "rdlock" => rdepth[t] < MaxDepth

-----------------------------------------------------------------------------
(* The read locks fit under the native ceiling: with finitely many        *)
(* threads, each at most MaxDepth read locks deep, the native count never *)
(* needs to pass ReaderMax.                                                *)
CeilingAssumption ==
    IsFiniteSet(Threads) /\ MaxDepth * Cardinality(Threads) <= ReaderMax

Depths == [Threads -> 0..MaxDepth]

LEMMA SlotsFinite ==
    ASSUME IsFiniteSet(Threads)
    PROVE  /\ IsFiniteSet(Slots)
           /\ Cardinality(Slots) = Cardinality(Threads) * MaxDepth
<1>1. IsFiniteSet(1..MaxDepth) /\ Cardinality(1..MaxDepth) = MaxDepth
  BY FS_Interval, RWAssumption
<1>2. IsFiniteSet(Slots)
      /\ Cardinality(Slots) = Cardinality(Threads) * Cardinality(1..MaxDepth)
  BY <1>1, FS_Product, Zenon DEF Slots
<1> QED
  BY <1>1, <1>2

LEMMA TokensFinite ==
    ASSUME IsFiniteSet(Threads), NEW d
    PROVE  IsFiniteSet(Tokens(d))
  BY SlotsFinite, FS_Subset DEF Tokens

(* One more read lock of t adds the token <<t, d[t] + 1>>.                 *)
LEMMA TokensInc ==
    ASSUME IsFiniteSet(Threads), NEW d \in Depths, NEW t \in Threads,
           d[t] < MaxDepth
    PROVE  Cardinality(Tokens([d EXCEPT ![t] = @ + 1]))
             = Cardinality(Tokens(d)) + 1
<1> DEFINE x == <<t, d[t] + 1>>
<1>1. Tokens([d EXCEPT ![t] = @ + 1]) = Tokens(d) \cup {x}
  BY RWAssumption DEF Tokens, Slots, Depths
<1>2. x \notin Tokens(d)
  BY DEF Tokens, Depths
<1>3. IsFiniteSet(Tokens(d))
  BY TokensFinite
<1>4. Cardinality(Tokens(d) \cup {x}) = Cardinality(Tokens(d)) + 1
  BY <1>2, <1>3, FS_AddElement, Zenon
<1> QED
  BY <1>1, <1>4, Zenon

(* One read lock fewer removes the token <<t, d[t]>>.                      *)
LEMMA TokensDec ==
    ASSUME IsFiniteSet(Threads), NEW d \in Depths, NEW t \in Threads,
           d[t] > 0
    PROVE  Cardinality(Tokens([d EXCEPT ![t] = @ - 1]))
             = Cardinality(Tokens(d)) - 1
<1> DEFINE x == <<t, d[t]>>
<1>1. Tokens([d EXCEPT ![t] = @ - 1]) = Tokens(d) \ {x}
  BY DEF Tokens, Slots, Depths
<1>2. x \in Tokens(d)
  BY DEF Tokens, Slots, Depths
<1>3. IsFiniteSet(Tokens(d))
  BY TokensFinite
<1>4. Cardinality(Tokens(d) \ {x}) = Cardinality(Tokens(d)) - 1
  BY <1>2, <1>3, FS_RemoveElement, Zenon
<1> QED
  BY <1>1, <1>4, Zenon

(* A thread below MaxDepth leaves its slot <<t, MaxDepth>> free, so fewer *)
(* read locks are held than there are slots.                              *)
LEMMA TokensBelowSlots ==
    ASSUME IsFiniteSet(Threads), NEW d \in Depths, NEW t \in Threads,
           d[t] < MaxDepth
    PROVE  Cardinality(Tokens(d)) < Cardinality(Threads) * MaxDepth
<1> DEFINE x == <<t, MaxDepth>>
<1>1. x \in Slots /\ Tokens(d) \subseteq Slots \ {x}
  BY RWAssumption DEF Tokens, Slots, Depths
<1>2. IsFiniteSet(Slots \ {x})
      /\ Cardinality(Slots \ {x}) = Cardinality(Threads) * MaxDepth - 1
  BY <1>1, SlotsFinite, FS_RemoveElement
<1>3. Cardinality(Tokens(d)) <= Cardinality(Slots \ {x})
  BY <1>1, <1>2, FS_Subset
<1>4. Cardinality(Tokens(d)) \in Nat /\ Cardinality(Threads) \in Nat
  BY TokensFinite, FS_CardinalityType
<1> QED
  BY <1>2, <1>3, <1>4, RWAssumption

(* No token, no reader.                                                    *)
LEMMA TokensEmpty ==
    ASSUME IsFiniteSet(Threads), NEW d \in Depths,
           Cardinality(Tokens(d)) = 0
    PROVE  \A t \in Threads : d[t] = 0
<1>1. Tokens(d) = {}
  BY TokensFinite, FS_EmptySet
<1> SUFFICES ASSUME NEW t \in Threads, d[t] # 0 PROVE FALSE
  BY Zenon
<1>2. <<t, 1>> \in Tokens(d)
  BY RWAssumption DEF Tokens, Slots, Depths
<1> QED
  BY <1>1, <1>2
-----------------------------------------------------------------------------
LEMMA IInvInit == Init => IInv
<1> SUFFICES ASSUME Init PROVE IInv
  OBVIOUS
<1>1. wheld \in [Threads -> BOOLEAN]
  BY Zenon DEF Init
<1>2. ReadTokens = {}
  BY RWAssumption DEF Init, ReadTokens, Tokens, Slots
<1>3. nr = Cardinality(ReadTokens)
  BY <1>2, FS_EmptySet DEF Init
<1>4. \A t \in Threads : wheld[t] <=> wr = t
  BY RWAssumption, Zenon DEF Init
<1>5. \A t \in Threads : pc[t] = "rdlock" => rdepth[t] < MaxDepth
  BY DEF Init
<1> QED
  BY <1>1, <1>3, <1>4, <1>5, RWAssumption DEF Init, IInv, TypeOK

(* A reader admitted while no writer holds the lock: one token and one    *)
(* native read lock more, since the count is still below the ceiling.     *)
LEMMA AdmitStep ==
    ASSUME CeilingAssumption, IInv, NEW t \in Threads,
           rdepth[t] < MaxDepth, wr = NULL, Admit(t), UNCHANGED <<wr, wheld>>,
           pc' = [pc EXCEPT ![t] = "idle"]
    PROVE  IInv'
<1>1. rdepth \in Depths /\ nr = Cardinality(Tokens(rdepth)) /\ nr \in Nat
  BY DEF IInv, TypeOK, Depths, ReadTokens
<1>2. Cardinality(Tokens(rdepth)) < Cardinality(Threads) * MaxDepth
  BY <1>1, TokensBelowSlots DEF CeilingAssumption
<1>3. Cardinality(Threads) \in Nat
  BY FS_CardinalityType DEF CeilingAssumption
<1>4. nr < ReaderMax
  BY <1>1, <1>2, <1>3, RWAssumption DEF CeilingAssumption
<1>5. nr' = nr + 1 /\ rdepth' = [rdepth EXCEPT ![t] = @ + 1]
  BY <1>4 DEF Admit
<1>6. nr' = Cardinality(ReadTokens')
  <2>1. Cardinality(Tokens([rdepth EXCEPT ![t] = @ + 1])) = nr + 1
    <3>1. Cardinality(Tokens([rdepth EXCEPT ![t] = @ + 1]))
            = Cardinality(Tokens(rdepth)) + 1
      BY <1>1, TokensInc, Zenon DEF CeilingAssumption
    <3> QED
      BY <1>1, <3>1
  <2>2. ReadTokens' = Tokens([rdepth EXCEPT ![t] = @ + 1])
    BY <1>5 DEF ReadTokens
  <2> QED
    BY <1>5, <2>1, <2>2
<1>7. TypeOK'
  <2>1. wheld' \in [Threads -> BOOLEAN]
    BY Zenon DEF IInv, TypeOK
  <2>2. rdepth' \in [Threads -> 0..MaxDepth]
    <3>1. rdepth[t] + 1 \in 0..MaxDepth
      BY <1>1, RWAssumption DEF Depths
    <3> QED
      BY <1>1, <1>5, <3>1 DEF Depths
  <2>3. nr' \in Nat /\ wr' \in Threads \cup {NULL}
    BY <1>1, <1>5 DEF IInv, TypeOK
  <2>4. pc' \in [Threads -> {"idle", "rdlock", "wrlock"}]
    BY DEF IInv, TypeOK
  <2> QED
    BY <2>1, <2>2, <2>3, <2>4 DEF TypeOK
<1>8. \A u \in Threads : wheld'[u] <=> wr' = u
  BY Zenon DEF IInv
<1>9. \A u \in Threads : pc'[u] = "rdlock" => rdepth'[u] < MaxDepth
  <2> SUFFICES ASSUME NEW u \in Threads, pc'[u] = "rdlock"
               PROVE  rdepth'[u] < MaxDepth
    OBVIOUS
  <2>1. u # t /\ pc[u] = "rdlock"
    BY DEF IInv, TypeOK
  <2> QED
    BY <1>5, <2>1 DEF IInv, TypeOK
<1> QED
  BY <1>6, <1>7, <1>8, <1>9 DEF IInv

(* A writer takes a free lock: it alone believes it writes.               *)
LEMMA TakeWriteStep ==
    ASSUME IInv, NEW t \in Threads, Free, TakeWrite(t),
           UNCHANGED <<nr, rdepth>>, pc[t] # "rdlock",
           pc' = [pc EXCEPT ![t] = "idle"]
    PROVE  IInv'
<1>1. TypeOK'
  <2>1. wheld' \in [Threads -> BOOLEAN]
    BY Zenon DEF IInv, TypeOK, TakeWrite
  <2> QED
    BY <2>1 DEF IInv, TypeOK, TakeWrite
<1>2. \A u \in Threads : wheld'[u] <=> wr' = u
  BY RWAssumption, Zenon DEF IInv, TypeOK, TakeWrite, Free
<1>3. ReadTokens' = ReadTokens
  BY Zenon DEF ReadTokens
<1>4. nr' = Cardinality(ReadTokens')
  BY <1>3, Zenon DEF IInv
<1>5. wr' # NULL => nr' = 0
  BY DEF Free
<1>6. \A u \in Threads : pc'[u] = "rdlock" => rdepth'[u] < MaxDepth
  BY DEF IInv
<1> QED
  BY <1>1, <1>2, <1>4, <1>5, <1>6 DEF IInv

(* A thread blocks in rdlock or wrlock: only its pc changes.              *)
LEMMA BlockStep ==
    ASSUME IInv, NEW t \in Threads, NEW where \in {"rdlock", "wrlock"},
           where = "rdlock" => rdepth[t] < MaxDepth,
           pc' = [pc EXCEPT ![t] = where], UNCHANGED <<nr, wr, rdepth, wheld>>
    PROVE  IInv'
<1>1. ReadTokens' = ReadTokens
  BY Zenon DEF ReadTokens
<1>2. TypeOK'
  BY DEF IInv, TypeOK
<1>3. \A u \in Threads : pc'[u] = "rdlock" => rdepth'[u] < MaxDepth
  BY DEF IInv, TypeOK
<1>4. \A u \in Threads : wheld'[u] <=> wr' = u
  BY Zenon DEF IInv
<1> QED
  BY <1>1, <1>2, <1>3, <1>4 DEF IInv

(* Each operation of GRWLock keeps the invariant, as long as the read    *)
(* locks fit under the native ceiling.                                     *)
LEMMA IInvStep ==
    ASSUME CeilingAssumption
    PROVE  IInv /\ [Next]_vars => IInv'
<1> SUFFICES ASSUME IInv, [Next]_vars PROVE IInv'
  OBVIOUS
<1>0. TypeOK
  BY DEF IInv
<1>1. ASSUME NEW t \in Threads, ReaderLock(t) PROVE IInv'
  <2>1. CASE wr = NULL /\ Admit(t) /\ UNCHANGED pc
    <3>1. pc' = [pc EXCEPT ![t] = "idle"]
      BY <1>0, <1>1, <2>1 DEF ReaderLock, TypeOK
    <3>2. rdepth[t] < MaxDepth /\ UNCHANGED <<wr, wheld>>
      BY <1>1 DEF ReaderLock
    <3> QED
      BY <2>1, <3>1, <3>2, AdmitStep, Zenon
  <2>2. CASE wr # NULL /\ pc' = [pc EXCEPT ![t] = "rdlock"]
             /\ UNCHANGED <<nr, rdepth>>
    <3>1. rdepth[t] < MaxDepth /\ UNCHANGED <<wr, wheld>>
      BY <1>1 DEF ReaderLock
    <3> QED
      BY <2>2, <3>1, BlockStep, Zenon
  <2> QED
    BY <1>1, <2>1, <2>2 DEF ReaderLock
<1>2. ASSUME NEW t \in Threads, ReaderLockWake(t) PROVE IInv'
  <2>1. /\ rdepth[t] < MaxDepth /\ wr = NULL /\ Admit(t)
        /\ UNCHANGED <<wr, wheld>> /\ pc' = [pc EXCEPT ![t] = "idle"]
    BY <1>2 DEF ReaderLockWake, IInv
  <2> QED
    BY <2>1, AdmitStep, Zenon
<1>3. ASSUME NEW t \in Threads, ReaderTrylock(t) PROVE IInv'
  <2>1. CASE wr = NULL /\ nr < ReaderMax
    <3>1. Admit(t)
      BY <1>3, <2>1 DEF ReaderTrylock, Admit
    <3>2. pc' = [pc EXCEPT ![t] = "idle"]
      BY <1>0, <1>3 DEF ReaderTrylock, TypeOK
    <3>3. rdepth[t] < MaxDepth /\ UNCHANGED <<wr, wheld>>
      BY <1>3 DEF ReaderTrylock
    <3> QED
      BY <2>1, <3>1, <3>2, <3>3, AdmitStep, Zenon
  <2>2. CASE ~(wr = NULL /\ nr < ReaderMax)
    <3>1. UNCHANGED vars
      BY <1>3, <2>2 DEF ReaderTrylock, vars
    <3>2. ReadTokens' = ReadTokens
      BY <3>1, Zenon DEF ReadTokens, vars
    <3> QED
      BY <3>1, <3>2, Zenon DEF vars, IInv, TypeOK
  <2> QED
    BY <2>1, <2>2
<1>4. ASSUME NEW t \in Threads, WriterLock(t) PROVE IInv'
  <2>1. CASE Free /\ TakeWrite(t) /\ UNCHANGED pc
    <3>1. pc' = [pc EXCEPT ![t] = "idle"]
      BY <1>0, <1>4, <2>1 DEF WriterLock, TypeOK
    <3>2. UNCHANGED <<nr, rdepth>> /\ pc[t] # "rdlock"
      BY <1>4 DEF WriterLock
    <3> QED
      BY <2>1, <3>1, <3>2, TakeWriteStep, Zenon
  <2>2. CASE ~Free /\ pc' = [pc EXCEPT ![t] = "wrlock"] /\ UNCHANGED <<wr, wheld>>
    <3>1. UNCHANGED <<nr, rdepth>>
      BY <1>4 DEF WriterLock
    <3> QED
      BY <2>2, <3>1, BlockStep, Zenon
  <2> QED
    BY <1>4, <2>1, <2>2 DEF WriterLock
<1>5. ASSUME NEW t \in Threads, WriterLockWake(t) PROVE IInv'
  <2>1. /\ Free /\ TakeWrite(t) /\ UNCHANGED <<nr, rdepth>> /\ pc[t] # "rdlock"
        /\ pc' = [pc EXCEPT ![t] = "idle"]
    BY <1>5 DEF WriterLockWake
  <2> QED
    BY <2>1, TakeWriteStep, Zenon
<1>6. ASSUME NEW t \in Threads, WriterTrylock(t) PROVE IInv'
  <2>1. CASE Free
    <3>1. pc' = [pc EXCEPT ![t] = "idle"]
      BY <1>0, <1>6 DEF WriterTrylock, TypeOK
    <3>2. TakeWrite(t) /\ UNCHANGED <<nr, rdepth>> /\ pc[t] # "rdlock"
      BY <1>6, <2>1 DEF WriterTrylock
    <3> QED
      BY <2>1, <3>1, <3>2, TakeWriteStep, Zenon
  <2>2. CASE ~Free
    <3>1. UNCHANGED vars
      BY <1>6, <2>2 DEF WriterTrylock, vars
    <3>2. ReadTokens' = ReadTokens
      BY <3>1, Zenon DEF ReadTokens, vars
    <3> QED
      BY <3>1, <3>2, Zenon DEF vars, IInv, TypeOK
  <2> QED
    BY <2>1, <2>2
<1>7. ASSUME NEW t \in Threads, WriterUnlock(t) PROVE IInv'
  <2>1. ReadTokens' = ReadTokens
    BY <1>7, Zenon DEF WriterUnlock, ReadTokens
  <2>2. wheld' \in [Threads -> BOOLEAN]
    BY <1>0, <1>7, Zenon DEF WriterUnlock, TypeOK
  <2>3. \A u \in Threads : wheld'[u] <=> wr' = u
    BY <1>7, RWAssumption, Zenon DEF WriterUnlock, IInv, TypeOK
  <2> QED
    BY <1>7, <2>1, <2>2, <2>3 DEF WriterUnlock, IInv, TypeOK
<1>8. ASSUME NEW t \in Threads, ReaderUnlock(t) PROVE IInv'
  <2>1. rdepth \in Depths /\ rdepth[t] > 0
    BY <1>8 DEF ReaderUnlock, IInv, TypeOK, Depths
  <2>2. Cardinality(Tokens([rdepth EXCEPT ![t] = @ - 1])) = nr - 1
    <3>1. Cardinality(Tokens([rdepth EXCEPT ![t] = @ - 1]))
            = Cardinality(Tokens(rdepth)) - 1
      BY <2>1, TokensDec, Zenon DEF CeilingAssumption
    <3> QED
      BY <3>1 DEF IInv, ReadTokens
  <2>3. Cardinality(Tokens([rdepth EXCEPT ![t] = @ - 1])) \in Nat
    BY TokensFinite, FS_CardinalityType DEF CeilingAssumption
  <2>4. nr > 0 /\ nr' = nr - 1 /\ wr = NULL
    BY <1>8, <2>2, <2>3 DEF ReaderUnlock, IInv, TypeOK
  <2>5. nr' = Cardinality(ReadTokens')
    <3>1. ReadTokens' = Tokens([rdepth EXCEPT ![t] = @ - 1])
      BY <1>8 DEF ReaderUnlock, ReadTokens
    <3> QED
      BY <2>2, <2>4, <3>1
  <2>6. rdepth' \in [Threads -> 0..MaxDepth]
    <3>1. rdepth' = [rdepth EXCEPT ![t] = @ - 1]
      BY <1>8 DEF ReaderUnlock
    <3>2. rdepth[t] - 1 \in 0..MaxDepth
      BY <2>1, RWAssumption DEF Depths
    <3> QED
      BY <2>1, <3>1, <3>2 DEF Depths
  <2>7. \A u \in Threads : pc'[u] = "rdlock" => rdepth'[u] < MaxDepth
    BY <1>8, <2>1 DEF ReaderUnlock, IInv, TypeOK, Depths
  <2>8. wheld' \in [Threads -> BOOLEAN] /\ \A u \in Threads : wheld'[u] <=> wr' = u
    BY <1>8, Zenon DEF ReaderUnlock, IInv, TypeOK
  <2> QED
    BY <1>8, <2>4, <2>5, <2>6, <2>7, <2>8 DEF ReaderUnlock, IInv, TypeOK
<1>9. CASE UNCHANGED vars
  <2>1. ReadTokens' = ReadTokens
    BY <1>9, Zenon DEF ReadTokens, vars
  <2> QED
    BY <1>9, <2>1, Zenon DEF vars, IInv, TypeOK
<1> QED
  BY <1>1, <1>2, <1>3, <1>4, <1>5, <1>6, <1>7, <1>8, <1>9 DEF Next
-----------------------------------------------------------------------------
(* The refinement mapping's writer is the native write owner, once every  *)
(* client's belief matches it.                                             *)
LEMMA WriterOfIsOwner ==
    ASSUME NEW w \in Threads \cup {NULL}, NEW h \in [Threads -> BOOLEAN],
           \A t \in Threads : h[t] <=> w = t
    PROVE  (IF \E t \in Threads : h[t] THEN CHOOSE t \in Threads : h[t] ELSE NULL)
             = w
  BY RWAssumption, Zenon

LEMMA WriterOfNow ==
    ASSUME IInv, IInv' PROVE WriterOf = wr /\ WriterOf' = wr'
<1>1. WriterOf = wr
  BY WriterOfIsOwner, Zenon DEF IInv, TypeOK, WriterOf
<1>2. WriterOf' = wr'
  BY WriterOfIsOwner, Zenon DEF IInv, TypeOK, WriterOf
<1> QED
  BY <1>1, <1>2

(* Each step of GRWLock is, as the clients see it, a step of the abstract *)
(* lock or no step at all: an admitted reader is an AcquireRead, a taken  *)
(* write lock an AcquireWrite (the native count is zero, so no client     *)
(* reads), the unlocks the matching releases, and a blocked call or a     *)
(* refused trylock leaves rdepth and the writer as they were.             *)
LEMMA RefineStep ==
    ASSUME CeilingAssumption, IInv, IInv', [Next]_vars
    PROVE  [RW!Next]_RW!vars
<1>0. WriterOf = wr /\ WriterOf' = wr' /\ TypeOK
  BY WriterOfNow DEF IInv
<1> DEFINE Stutter == UNCHANGED <<rdepth, wr>>
<1>1. Stutter => UNCHANGED RW!vars
  BY <1>0 DEF RW!vars
<1>2. ASSUME NEW t \in Threads, wr = NULL, rdepth' = [rdepth EXCEPT ![t] = @ + 1],
             UNCHANGED wr
      PROVE  RW!Next
  <2>1. RW!AcquireRead(t)
    BY <1>0, <1>2 DEF RW!AcquireRead
  <2> QED
    BY <2>1 DEF RW!Next
<1>3. ASSUME NEW t \in Threads, Free, wr' = t, UNCHANGED rdepth
      PROVE  RW!Next
  <2>1. \A u \in Threads : rdepth[u] = 0
    <3>1. rdepth \in Depths /\ Cardinality(Tokens(rdepth)) = 0
      BY <1>3 DEF IInv, TypeOK, Depths, Free, ReadTokens
    <3> QED
      BY <3>1, TokensEmpty DEF CeilingAssumption
  <2> QED
    <3>1. RW!AcquireWrite(t)
      BY <1>0, <1>3, <2>1 DEF RW!AcquireWrite, RW!NoReaders, Free
    <3> QED
      BY <3>1 DEF RW!Next
<1>4. CASE \E t \in Threads : ReaderLock(t) \/ ReaderLockWake(t) \/ ReaderTrylock(t)
  <2> PICK t \in Threads : ReaderLock(t) \/ ReaderLockWake(t) \/ ReaderTrylock(t)
    BY <1>4
  <2>1. CASE wr = NULL /\ rdepth' = [rdepth EXCEPT ![t] = @ + 1] /\ UNCHANGED wr
    BY <2>1, <1>2, Zenon
  <2>2. CASE Stutter
    BY <2>2, <1>1
  <2> QED
    BY <2>1, <2>2 DEF ReaderLock, ReaderLockWake, ReaderTrylock, Admit
<1>5. CASE \E t \in Threads : WriterLock(t) \/ WriterLockWake(t) \/ WriterTrylock(t)
  <2> PICK t \in Threads : WriterLock(t) \/ WriterLockWake(t) \/ WriterTrylock(t)
    BY <1>5
  <2>1. CASE Free /\ wr' = t /\ UNCHANGED rdepth
    BY <2>1, <1>3, Zenon
  <2>2. CASE Stutter
    BY <2>2, <1>1
  <2> QED
    BY <2>1, <2>2 DEF WriterLock, WriterLockWake, WriterTrylock, TakeWrite
<1>6. ASSUME NEW t \in Threads, WriterUnlock(t) PROVE RW!Next
  <2>1. wr = t
    BY <1>6 DEF WriterUnlock, IInv
  <2> QED
    <3>1. RW!ReleaseWrite(t)
      BY <1>0, <1>6, <2>1 DEF WriterUnlock, RW!ReleaseWrite
    <3> QED
      BY <3>1 DEF RW!Next
<1>7. ASSUME NEW t \in Threads, ReaderUnlock(t) PROVE RW!Next
  <2>1. RW!ReleaseRead(t)
    BY <1>0, <1>7 DEF ReaderUnlock, RW!ReleaseRead
  <2> QED
    BY <2>1 DEF RW!Next
<1>8. CASE UNCHANGED vars
  BY <1>1, <1>8 DEF vars
<1> QED
  BY <1>4, <1>5, <1>6, <1>7, <1>8 DEF Next

(* Whenever every thread's read locks fit under the native reader         *)
(* ceiling (MaxDepth read locks for each of finitely many threads, at    *)
(* most ReaderMax in all), every behaviour of g_rw_lock_* over glibc's    *)
(* pthread_rwlock, as the clients see it, is one of the abstract         *)
(* reader/writer lock: no client reads while another writes, and no two  *)
(* write at once.                                                          *)
THEOREM RefinesThm ==
    ASSUME CeilingAssumption
    PROVE  Spec => Refines
<1>1. Init => RW!Init
  <2> SUFFICES ASSUME Init PROVE RW!Init
    OBVIOUS
  <2>1. WriterOf = NULL
    BY Zenon DEF Init, WriterOf
  <2> QED
    BY <2>1 DEF Init, RW!Init
<1>2. IInv /\ IInv' /\ [Next]_vars => [RW!Next]_RW!vars
  BY RefineStep
<1>3. Spec => []IInv
  BY IInvInit, IInvStep, PTL DEF Spec
<1> QED
  BY <1>1, <1>2, <1>3, PTL DEF Spec, Refines, RW!Spec

(* What the refinement gives the clients directly: whenever a client      *)
(* returns from g_rw_lock_writer_lock or a successful writer_trylock, no *)
(* client holds a read lock, as long as the read locks fit under the      *)
(* native ceiling.                                                         *)
THEOREM ClientExclusionThm ==
    ASSUME CeilingAssumption
    PROVE  Spec => [](WriterOf # NULL => \A t \in Threads : rdepth[t] = 0)
<1>1. IInv => (WriterOf # NULL => \A t \in Threads : rdepth[t] = 0)
  <2> SUFFICES ASSUME IInv, WriterOf # NULL PROVE \A t \in Threads : rdepth[t] = 0
    OBVIOUS
  <2>1. WriterOf = wr
    BY WriterOfIsOwner, Zenon DEF IInv, TypeOK, WriterOf
  <2>2. rdepth \in Depths /\ Cardinality(Tokens(rdepth)) = 0
    BY <2>1 DEF IInv, TypeOK, Depths, ReadTokens
  <2> QED
    BY <2>2, TokensEmpty DEF CeilingAssumption
<1> QED
  BY <1>1, IInvInit, IInvStep, PTL DEF Spec
=============================================================================
