-------------------------- MODULE GCondDeadlineProofs --------------------------
(***************************************************************************)
(* Proofs about the deadline conversions of g_cond_timed_wait and          *)
(* g_cond_timedwait, for every argument, of either sign, and every Now.   *)
(*                                                                         *)
(* The time units are left unexpanded wherever no arithmetic is done, so  *)
(* that Zenon never meets their literals; the arithmetic steps expand     *)
(* them for SMT.                                                           *)
(***************************************************************************)
EXTENDS GCondDeadline, TLAPS

(* The timespec t denotes the instant a, in microseconds, exactly.         *)
Denotes(t, a) ==
    /\ t.sec * G_USEC_PER_SEC + t.nsec \div NSEC_PER_USEC = a
    /\ t.nsec % NSEC_PER_USEC = 0

(* C's truncating division by G_USEC_PER_SEC, split as Euclid's: a        *)
(* quotient and a remainder of the sign of the dividend.                   *)
LEMMA CDivRem ==
    ASSUME NEW a \in Int
    PROVE  /\ CDiv(a, G_USEC_PER_SEC) \in Int
           /\ CRem(a, G_USEC_PER_SEC) \in Int
           /\ CDiv(a, G_USEC_PER_SEC) * G_USEC_PER_SEC + CRem(a, G_USEC_PER_SEC) = a
           /\ a >= 0 => /\ 0 <= CRem(a, G_USEC_PER_SEC)
                        /\ CRem(a, G_USEC_PER_SEC) < G_USEC_PER_SEC
<1>1. CASE a >= 0
  <2> DEFINE q == a \div 1000000
             r == a % 1000000
  <2>1. q \in Int /\ r \in Int /\ a = q * 1000000 + r /\ 0 <= r /\ r < 1000000
    BY <1>1, SMT
  <2>2. CDiv(a, 1000000) = q /\ CRem(a, 1000000) = r
    BY <1>1, <2>1, SMT DEF CDiv, CRem
  <2> QED
    BY <1>1, <2>1, <2>2, SMT DEF G_USEC_PER_SEC
<1>2. CASE a < 0
  <2> DEFINE b == -a
             q == b \div 1000000
             r == b % 1000000
  <2>1. q \in Int /\ r \in Int /\ b = q * 1000000 + r
    BY <1>2, SMT
  <2>2. CDiv(a, 1000000) = -q
    BY <1>2 DEF CDiv
  <2>3. CRem(a, 1000000) = -r
    BY <2>1, <2>2, SMT DEF CRem
  <2> QED
    BY <1>2, <2>1, <2>2, <2>3, SMT DEF G_USEC_PER_SEC
<1> QED
  BY <1>1, <1>2

(* Microseconds scaled to nanoseconds: the scaling is undone exactly by  *)
(* \div and leaves no remainder, and a microsecond count below a second   *)
(* gives a nanosecond count below a second.                               *)
LEMMA ScaleUsec ==
    ASSUME NEW x \in Int
    PROVE  /\ x * NSEC_PER_USEC \in Int
           /\ (x * NSEC_PER_USEC) \div NSEC_PER_USEC = x
           /\ (x * NSEC_PER_USEC) % NSEC_PER_USEC = 0
           /\ 0 <= x /\ x < G_USEC_PER_SEC
                => 0 <= x * NSEC_PER_USEC /\ x * NSEC_PER_USEC < NSEC_PER_SEC
  BY SMT DEF NSEC_PER_USEC, G_USEC_PER_SEC, NSEC_PER_SEC

(* g_cond_timedwait's conversion (lines 746-747) denotes its argument     *)
(* exactly, and gives a tv_nsec pthread accepts when the argument is not  *)
(* before the epoch.                                                       *)
LEMMA Int64ToTimespecExact ==
    ASSUME NEW a \in Int
    PROVE  /\ Int64ToTimespec(a) \in [sec : Int, nsec : Int]
           /\ Denotes(Int64ToTimespec(a), a)
           /\ a >= 0 => ValidTimespec(Int64ToTimespec(a))
<1> DEFINE q == CDiv(a, G_USEC_PER_SEC)
           r == CRem(a, G_USEC_PER_SEC)
<1>1. /\ q \in Int /\ r \in Int /\ q * G_USEC_PER_SEC + r = a
      /\ a >= 0 => 0 <= r /\ r < G_USEC_PER_SEC
  BY CDivRem
<1>2. /\ r * NSEC_PER_USEC \in Int
      /\ (r * NSEC_PER_USEC) \div NSEC_PER_USEC = r
      /\ (r * NSEC_PER_USEC) % NSEC_PER_USEC = 0
      /\ 0 <= r /\ r < G_USEC_PER_SEC
           => 0 <= r * NSEC_PER_USEC /\ r * NSEC_PER_USEC < NSEC_PER_SEC
  BY <1>1, ScaleUsec
<1>3. Int64ToTimespec(a) = [sec |-> q, nsec |-> r * NSEC_PER_USEC]
  BY DEF Int64ToTimespec
<1> QED
  BY <1>1, <1>2, <1>3 DEF Denotes, ValidTimespec

(* g_cond_timed_wait's conversion (lines 712-713) denotes the GTimeVal    *)
(* exactly, and gives a tv_nsec pthread accepts when tv_usec is below a   *)
(* second.                                                                 *)
LEMMA TimevalToTimespecExact ==
    ASSUME NEW tv \in [sec : Int, usec : Int]
    PROVE  /\ TimevalToTimespec(tv) \in [sec : Int, nsec : Int]
           /\ Denotes(TimevalToTimespec(tv), tv.sec * G_USEC_PER_SEC + tv.usec)
           /\ 0 <= tv.usec /\ tv.usec < G_USEC_PER_SEC
                => ValidTimespec(TimevalToTimespec(tv))
<1>1. tv.usec \in Int
  OBVIOUS
<1>2. /\ tv.usec * NSEC_PER_USEC \in Int
      /\ (tv.usec * NSEC_PER_USEC) \div NSEC_PER_USEC = tv.usec
      /\ (tv.usec * NSEC_PER_USEC) % NSEC_PER_USEC = 0
      /\ 0 <= tv.usec /\ tv.usec < G_USEC_PER_SEC
           => 0 <= tv.usec * NSEC_PER_USEC /\ tv.usec * NSEC_PER_USEC < NSEC_PER_SEC
  BY <1>1, ScaleUsec
<1> QED
  BY <1>2 DEF TimevalToTimespec, Denotes, ValidTimespec

(* A valid timespec that denotes a and that pthread finds later than the *)
(* clock us denotes a deadline still ahead: a > us.                         *)
LEMMA LaterThanClock ==
    ASSUME NEW t \in [sec : Int, nsec : Int], NEW a \in Int, NEW us \in Int,
           Denotes(t, a), ValidTimespec(t), ~NotAfter(t, us)
    PROVE  a > us
<1> DEFINE s == us \div 1000000
           r == us % 1000000
<1>1. s \in Int /\ r \in Int /\ us = s * 1000000 + r /\ 0 <= r /\ r < 1000000
  BY SMT
<1>2. t.sec > s \/ (t.sec = s /\ t.nsec > r * 1000)
  BY <1>1, SMT DEF NotAfter, G_USEC_PER_SEC, NSEC_PER_USEC
<1>3. /\ a = t.sec * 1000000 + t.nsec \div 1000
      /\ t.nsec % 1000 = 0
      /\ 0 <= t.nsec /\ t.nsec < 1000000000
  BY DEF Denotes, ValidTimespec, G_USEC_PER_SEC, NSEC_PER_USEC, NSEC_PER_SEC
<1> QED
  BY <1>1, <1>2, <1>3, SMT

-----------------------------------------------------------------------------
(* Neither property is inductive by itself.  SignalledOnlyBeforeDeadline  *)
(* needs, when pthread_cond_timedwait is reached, that the timespec       *)
(* denotes the caller's deadline and that the untimed branch is the NULL  *)
(* one; CanonicalNeverAborts needs that a canonical argument reaches      *)
(* pthread as a valid timespec.                                            *)
IInv ==
    /\ TypeOK
    /\ pc = "timedwait" => /\ Denotes(ts, arg) /\ arg \in Int
                           /\ canon => ValidTimespec(ts)
    /\ pc = "wait" => form = "null"
    /\ CanonicalNeverAborts
    /\ SignalledOnlyBeforeDeadline

LEMMA IInvInit == Init => IInv
<1> SUFFICES ASSUME Init PROVE IInv
  OBVIOUS
<1>1. /\ pc \in {"idle", "timedwait", "wait", "returned", "aborted"}
      /\ form \in {"none", "null", "timeval", "int64"}
      /\ arg \in Int \cup {NULL}
      /\ ts \in [sec : Int, nsec : Int]
      /\ pc = "idle"
  BY SMT DEF Init
<1>2. canon \in BOOLEAN /\ ret \in BOOLEAN /\ canon
  BY Zenon DEF Init
<1> QED
  BY <1>1, <1>2, Zenon DEF IInv, TypeOK, CanonicalNeverAborts,
                           SignalledOnlyBeforeDeadline

LEMMA IInvStep == IInv /\ [Next]_vars => IInv'
<1> SUFFICES ASSUME IInv, [Next]_vars PROVE IInv'
  OBVIOUS
<1> USE DEF IInv, TypeOK, CanonicalNeverAborts, SignalledOnlyBeforeDeadline
<1>1. CASE g_cond_timed_wait
  <2>1. CASE pc' = "wait" /\ form' = "null" /\ UNCHANGED <<canon, arg, ts, ret>>
    BY <2>1, Zenon
  <2>2. ASSUME NEW tv \in TimeVals,
               form' = "timeval",
               canon' = (0 <= tv.usec /\ tv.usec < G_USEC_PER_SEC),
               arg' = tv.sec * G_USEC_PER_SEC + tv.usec,
               ts' = TimevalToTimespec(tv), pc' = "timedwait",
               UNCHANGED ret
        PROVE IInv'
    <3>1. tv \in [sec : Int, usec : Int]
      BY DeadlineAssumption
    <3>2. tv.sec * G_USEC_PER_SEC + tv.usec \in Int
      BY <3>1, SMT DEF G_USEC_PER_SEC
    <3>3. /\ ts' \in [sec : Int, nsec : Int]
          /\ Denotes(ts', arg')
          /\ 0 <= tv.usec /\ tv.usec < G_USEC_PER_SEC => ValidTimespec(ts')
      BY <2>2, <3>1, TimevalToTimespecExact
    <3>4. canon' \in BOOLEAN /\ (canon' => ValidTimespec(ts'))
      BY <2>2, <3>3, Zenon
    <3>5. /\ pc' \in {"idle", "timedwait", "wait", "returned", "aborted"}
          /\ form' \in {"none", "null", "timeval", "int64"}
          /\ arg' \in Int \cup {NULL} /\ arg' \in Int
          /\ pc' # "aborted" /\ pc' # "wait" /\ pc' # "returned"
      BY <2>2, <3>2
    <3> QED
      BY <2>2, <3>3, <3>4, <3>5, Zenon
  <2> QED
    BY <1>1, <2>1, <2>2 DEF g_cond_timed_wait
<1>2. CASE g_cond_timedwait
  <2>0. PICK a \in AbsTimes : /\ form' = "int64" /\ canon' = (a >= 0)
                            /\ arg' = a /\ ts' = Int64ToTimespec(a)
    BY <1>2 DEF g_cond_timedwait
  <2>1. a \in Int
    BY DeadlineAssumption
  <2>2. /\ ts' \in [sec : Int, nsec : Int]
        /\ Denotes(ts', arg')
        /\ a >= 0 => ValidTimespec(ts')
    BY <2>0, <2>1, Int64ToTimespecExact
  <2>3. canon' \in BOOLEAN /\ (canon' => ValidTimespec(ts'))
    <3>1. canon' <=> a >= 0
      BY <2>0, Zenon
    <3>0. (a >= 0) \in BOOLEAN
      BY <2>1, SMT
    <3>2. canon' \in BOOLEAN
      BY <2>0, <3>0, Zenon
    <3> QED
      BY <2>2, <3>1, <3>2, Zenon
  <2>4. /\ pc' = "timedwait"
        /\ form' \in {"none", "null", "timeval", "int64"}
        /\ arg' \in Int \cup {NULL} /\ arg' \in Int
        /\ ret' \in BOOLEAN
    BY <1>2, <2>0, <2>1 DEF g_cond_timedwait
  <2> QED
    BY <2>2, <2>3, <2>4, Zenon
<1>3. CASE WaitReturn
  BY <1>3, Zenon DEF WaitReturn
<1>4. CASE PthreadTimedwait
  <2>1. CASE ~ValidTimespec(ts) /\ g_thread_abort
    <3>1. ~canon
      BY <2>1, <1>4, Zenon DEF PthreadTimedwait
    <3> QED
      BY <1>4, <2>1, <3>1, Zenon DEF PthreadTimedwait, g_thread_abort
  <2>2. ASSUME ValidTimespec(ts), pc' = "returned",
               NEW sig \in IF NotAfter(ts, Now) THEN {FALSE} ELSE {TRUE, FALSE},
               ret' = sig
        PROVE  IInv'
    <3>1. sig => ~NotAfter(ts, Now)
      BY <2>2, Zenon
    <3>2. ret' => arg > Now
      <4>1. Now \in Int
        BY DeadlineAssumption
      <4>2. pc = "timedwait"
        BY <1>4 DEF PthreadTimedwait
      <4> QED
        BY <2>2, <3>1, <4>1, <4>2, LaterThanClock, Zenon
    <3>3. ret' \in BOOLEAN
      BY <2>2, Zenon
    <3>4. UNCHANGED <<form, canon, arg, ts>>
      BY <1>4 DEF PthreadTimedwait
    <3> QED
      BY <2>2, <3>2, <3>3, <3>4, Zenon
  <2> QED
    BY <1>4, <2>1, <2>2, Zenon DEF PthreadTimedwait
<1>5. CASE Terminating
  BY <1>5, Zenon DEF Terminating, vars
<1>6. CASE UNCHANGED vars
  BY <1>6, Zenon DEF vars
<1> QED
  BY <1>1, <1>2, <1>3, <1>4, <1>5, <1>6 DEF Next

(* g_cond_timed_wait and g_cond_timedwait report a signal (TRUE) only     *)
(* while the caller's deadline is still ahead of the clock, for every     *)
(* argument of either sign and every clock: the timespec each builds      *)
(* denotes the deadline it was given.                                      *)
THEOREM SignalledOnlyBeforeDeadlineThm == Spec => []SignalledOnlyBeforeDeadline
<1>1. IInv => SignalledOnlyBeforeDeadline
  BY DEF IInv
<1> QED
  BY <1>1, IInvInit, IInvStep, PTL DEF Spec

(* A canonical deadline (a tv_usec below a second, or a gint64 at or     *)
(* after the epoch) never makes g_cond_timed_wait or g_cond_timedwait     *)
(* abort.                                                                  *)
THEOREM CanonicalNeverAbortsThm == Spec => []CanonicalNeverAborts
<1>1. IInv => CanonicalNeverAborts
  BY DEF IInv
<1> QED
  BY <1>1, IInvInit, IInvStep, PTL DEF Spec
=============================================================================
