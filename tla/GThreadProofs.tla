---------------------------- MODULE GThreadProofs ----------------------------
(***************************************************************************)
(* Proofs about GThread, for every width of long and every set of hints, *)
(* sysconf results and pthread stack limits.                               *)
(***************************************************************************)
EXTENDS GThread, FiniteSets, FiniteSetTheorems, TLAPS

(* 2^n is monotone in n: the subsets of 1..n-1 are among those of 1..n,  *)
(* and there are 2^k subsets of a k-element set.                          *)
LEMMA TwoExpMonotone ==
    ASSUME NEW n \in Nat \ {0}
    PROVE  2^(n - 1) <= 2^n
<1>1. /\ IsFiniteSet(1..(n - 1)) /\ Cardinality(1..(n - 1)) = n - 1
      /\ IsFiniteSet(1..n) /\ Cardinality(1..n) = n
  BY FS_Interval
<1>2. Cardinality(SUBSET (1..(n - 1))) = 2^(n - 1)
  <2>1. Cardinality(SUBSET (1..(n - 1))) = 2^Cardinality(1..(n - 1))
    BY <1>1, FS_SUBSET, Zenon
  <2> QED
    BY <1>1, <2>1
<1>4. IsFiniteSet(SUBSET (1..n)) /\ Cardinality(SUBSET (1..n)) = 2^n
  <2>1. IsFiniteSet(SUBSET (1..n))
        /\ Cardinality(SUBSET (1..n)) = 2^Cardinality(1..n)
    BY <1>1, FS_SUBSET, Zenon
  <2> QED
    BY <1>1, <2>1
<1>3. SUBSET (1..(n - 1)) \in SUBSET SUBSET (1..n)
  OBVIOUS
<1> QED
  BY <1>2, <1>3, <1>4, FS_Subset

(* A non-negative long converts to unsigned long unchanged: sysconf's     *)
(* values fit in a long, whose range is half that of an unsigned long.    *)
LEMMA ULongOfNonNegative ==
    ASSUME NEW sc \in SysconfVals, sc >= 0
    PROVE  ULong(sc) = sc
<1>1. 2^(LongBits - 1) <= 2^LongBits
  BY ThreadAssumption, TwoExpMonotone
<1>2. sc \in Int /\ sc < 2^(LongBits - 1) /\ 2^(LongBits - 1) \in Int
  BY ThreadAssumption
<1>3. 2^LongBits \in Int
  BY ThreadAssumption
<1> QED
  BY <1>1, <1>2, <1>3 DEF ULong

(* Hints are unsigned longs and sysconf results longs: integers.          *)
LEMMA ArgTypes ==
    /\ \A size \in Hints : size \in Nat
    /\ \A sc \in SysconfVals : sc \in Int
<1>1. 2^LongBits \in Int /\ 2^(LongBits - 1) \in Int
  BY ThreadAssumption
<1> QED
  BY <1>1, ThreadAssumption

(* The inductive invariant: every created thread got the stack StackOf    *)
(* computes from the hint and the sysconf value of its create, and those *)
(* are values a caller and sysconf can produce.                           *)
IInv ==
    /\ TypeOK
    /\ \A h \in Handles :
          st[h] # "none" =>
              /\ hint[h] \in Hints /\ sysmin[h] \in SysconfVals
              /\ stack[h] = StackOf(hint[h], sysmin[h])

LEMMA IInvInit == Init => IInv
<1> SUFFICES ASSUME Init PROVE IInv
  OBVIOUS
<1>1. joinable \in [Handles -> BOOLEAN] /\ gerror \in [Handles -> BOOLEAN]
      /\ fatal \in BOOLEAN
  BY Zenon DEF Init
<1>2. /\ st \in [Handles -> {"none", "running", "exited", "joined"}]
      /\ hint \in [Handles -> Hints \cup {0}]
      /\ sysmin \in [Handles -> SysconfVals \cup {0}]
      /\ stack \in [Handles -> Nat]
      /\ \A h \in Handles : st[h] = "none"
  BY ThreadAssumption DEF Init
<1> QED
  BY <1>1, <1>2 DEF IInv, TypeOK

(* A successful create gives the thread a stack of a size pthread accepts *)
(* or the default, so stack stays a natural number.                       *)
LEMMA StackOfType ==
    ASSUME NEW size \in Hints, NEW sc \in SysconfVals
    PROVE  StackOf(size, sc) \in Nat
  BY ThreadAssumption DEF StackOf

LEMMA IInvStep == IInv /\ [Next]_vars => IInv'
<1> SUFFICES ASSUME IInv, [Next]_vars PROVE IInv'
  OBVIOUS
<1>1. ASSUME NEW h \in Handles, g_system_thread_create(h) PROVE IInv'
  <2> PICK size \in Hints, sc \in SysconfVals, j \in BOOLEAN :
          /\ hint' = [hint EXCEPT ![h] = size]
          /\ sysmin' = [sysmin EXCEPT ![h] = sc]
          /\ joinable' = [joinable EXCEPT ![h] = j]
          /\ \/ /\ st' = [st EXCEPT ![h] = "running"]
                /\ stack' = [stack EXCEPT ![h] = StackOf(size, sc)]
                /\ gerror' = [gerror EXCEPT ![h] = FALSE]
                /\ UNCHANGED fatal
             \/ /\ gerror' = [gerror EXCEPT ![h] = TRUE]
                /\ UNCHANGED <<st, stack, fatal>>
             \/ posix_check_err
    BY <1>1, Zenon DEF g_system_thread_create
  <2>1. st[h] = "none"
    BY <1>1 DEF g_system_thread_create
  <2>2. joinable' \in [Handles -> BOOLEAN]
    BY Zenon DEF IInv, TypeOK
  <2>3. /\ hint' \in [Handles -> Hints \cup {0}]
        /\ sysmin' \in [Handles -> SysconfVals \cup {0}]
    BY DEF IInv, TypeOK
  <2>4. CASE /\ st' = [st EXCEPT ![h] = "running"]
             /\ stack' = [stack EXCEPT ![h] = StackOf(size, sc)]
             /\ gerror' = [gerror EXCEPT ![h] = FALSE]
             /\ UNCHANGED fatal
    <3>1. gerror' \in [Handles -> BOOLEAN] /\ fatal' \in BOOLEAN
      BY <2>4, Zenon DEF IInv, TypeOK
    <3>2. StackOf(size, sc) \in Nat
      BY StackOfType
    <3> QED
      BY <2>2, <2>3, <2>4, <3>1, <3>2 DEF IInv, TypeOK
  <2>5. CASE /\ gerror' = [gerror EXCEPT ![h] = TRUE]
             /\ UNCHANGED <<st, stack, fatal>>
    <3>1. gerror' \in [Handles -> BOOLEAN] /\ fatal' \in BOOLEAN
      BY <2>5, Zenon DEF IInv, TypeOK
    <3> QED
      BY <2>1, <2>2, <2>3, <2>5, <3>1 DEF IInv, TypeOK
  <2>6. CASE posix_check_err
    <3>1. gerror' \in [Handles -> BOOLEAN] /\ fatal' \in BOOLEAN
      BY <2>6, Zenon DEF IInv, TypeOK, posix_check_err
    <3> QED
      BY <2>1, <2>2, <2>3, <2>6, <3>1 DEF IInv, TypeOK, posix_check_err
  <2> QED
    BY <2>4, <2>5, <2>6
<1>2. ASSUME NEW h \in Handles, g_system_thread_exit(h) PROVE IInv'
  <2>1. joinable' \in [Handles -> BOOLEAN] /\ gerror' \in [Handles -> BOOLEAN]
        /\ fatal' \in BOOLEAN
    BY <1>2, Zenon DEF g_system_thread_exit, IInv, TypeOK
  <2> QED
    BY <1>2, <2>1 DEF g_system_thread_exit, IInv, TypeOK
<1>3. ASSUME NEW h \in Handles, g_system_thread_join(h) PROVE IInv'
  <2>1. joinable' \in [Handles -> BOOLEAN] /\ gerror' \in [Handles -> BOOLEAN]
        /\ fatal' \in BOOLEAN
    BY <1>3, Zenon DEF g_system_thread_join, IInv, TypeOK
  <2> QED
    BY <1>3, <2>1 DEF g_system_thread_join, IInv, TypeOK
<1>4. CASE UNCHANGED vars
  BY <1>4, Zenon DEF vars, IInv, TypeOK
<1>5. CASE Terminating
  BY <1>5, Zenon DEF Terminating, vars, IInv, TypeOK
<1> QED
  BY <1>1, <1>2, <1>3, <1>4, <1>5 DEF Next

(* The platform fact the hint relies on: a minimum that sysconf          *)
(* (_SC_THREAD_STACK_MIN) reports is itself a size pthread_attr_          *)
(* setstacksize accepts (glibc reports PTHREAD_STACK_MIN, or the larger  *)
(* minimum the running kernel needs, far below any maximum).              *)
SysconfMinAccepted == \A sc \in SysconfVals : sc >= 0 => sc <= StackMax

(* With a reported minimum, the stack of a hint pthread accepts is the   *)
(* hint raised to that minimum, which pthread accepts too.                 *)
LEMMA StackOfWithMin ==
    ASSUME SysconfMinAccepted, NEW size \in Hints, NEW sc \in SysconfVals,
           size \in StackMin..StackMax, sc >= 0
    PROVE  StackOf(size, sc) >= size
<1>1. ULong(sc) = sc
  BY ULongOfNonNegative
<1>2. sc <= StackMax /\ sc \in Int /\ size \in Nat
  BY ArgTypes, Zenon DEF SysconfMinAccepted
<1>3. CMax(sc, size) \in StackMin..StackMax /\ CMax(sc, size) >= size
  BY <1>2, ThreadAssumption, SMT DEF CMax
<1>4. size # 0
  BY ThreadAssumption, SMT
<1> QED
  BY <1>1, <1>3, <1>4 DEF StackOf

(* Under that platform fact, for every width of long, every hint and     *)
(* every pthread stack limit: whenever sysconf reports a minimum, a       *)
(* thread g_system_thread_create made with a stack_size pthread accepts   *)
(* gets a stack at least that large; the hint is raised, never dropped.  *)
THEOREM StackHintAppliedWithMinThm ==
    ASSUME SysconfMinAccepted
    PROVE  Spec => []StackHintAppliedWithMin
<1>1. IInv => StackHintAppliedWithMin
  <2> SUFFICES ASSUME IInv, NEW h \in Handles, st[h] # "none",
                      hint[h] \in StackMin..StackMax, sysmin[h] >= 0
               PROVE  stack[h] >= hint[h]
    BY DEF StackHintAppliedWithMin
  <2>1. hint[h] \in Hints /\ sysmin[h] \in SysconfVals
        /\ stack[h] = StackOf(hint[h], sysmin[h])
    BY DEF IInv
  <2> QED
    BY <2>1, StackOfWithMin
<1> QED
  BY <1>1, IInvInit, IInvStep, PTL DEF Spec
=============================================================================
