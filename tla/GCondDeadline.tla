---------------------------- MODULE GCondDeadline ----------------------------
(***************************************************************************)
(* The timed waits of GCond in gthread-posix.c: g_cond_timed_wait, which  *)
(* takes a GTimeVal (or NULL), and g_cond_timedwait, which takes a gint64 *)
(* count of microseconds.  Each converts its absolute deadline into a     *)
(* struct timespec with C integer arithmetic and passes it to             *)
(* pthread_cond_timedwait, whose status decides the result: 0 is TRUE,    *)
(* ETIMEDOUT is FALSE, anything else (EINVAL for a tv_nsec outside        *)
(* 0..999999999) is g_thread_abort.                                        *)
(*                                                                         *)
(* tv_usec * 1000 is a glong product; on an LP64 build it cannot overflow *)
(* for any tv_usec below 9.2 * 10^15, and the model takes it as exact.    *)
(* One call is modelled, from its argument to its outcome.  The wall      *)
(* clock stands at Now (microseconds): a deadline at or before Now has    *)
(* passed, and pthread_cond_timedwait times out at once; a later one may *)
(* be signalled first or time out.                                         *)
(***************************************************************************)
EXTENDS Integers

CONSTANTS
    TimeVals,   \* GTimeVal arguments [sec, usec] of g_cond_timed_wait
    AbsTimes,   \* gint64 arguments of g_cond_timedwait
    Now,        \* the current time, in microseconds since the epoch
    NULL

ASSUME DeadlineAssumption ==
    /\ TimeVals \subseteq [sec : Int, usec : Int]
    /\ AbsTimes \subseteq Int
    /\ Now \in Int
    /\ NULL \notin TimeVals

VARIABLES
    pc,     \* "idle", "timedwait" (in pthread_cond_timedwait), "wait",
            \* "returned" or "aborted"
    form,   \* which call was made: "none", "null", "timeval" or "int64"
    canon,  \* its argument was canonical: tv_usec in 0..999999, gint64 >= 0
    arg,    \* the deadline argument, in microseconds, or NULL
    ts,     \* end_time: the struct timespec passed to pthread
    ret     \* the gboolean returned

vars == <<pc, form, canon, arg, ts, ret>>

(* The time units: glib's G_USEC_PER_SEC, and the nanosecond units of a *)
(* struct timespec.                                                        *)
G_USEC_PER_SEC == 1000000
NSEC_PER_USEC == 1000
NSEC_PER_SEC == 1000000000

(* C's / and % on integers truncate toward zero; TLA+'s \div and % floor. *)
CDiv(a, b) == IF a >= 0 THEN a \div b ELSE -((-a) \div b)
CRem(a, b) == a - CDiv(a, b) * b

(* A valid timespec denotes an instant at or before the microsecond us:  *)
(* pthread compares the clock with it field by field, seconds first.      *)
NotAfter(t, us) ==
    LET sec  == us \div G_USEC_PER_SEC
        nsec == (us % G_USEC_PER_SEC) * NSEC_PER_USEC
    IN  t.sec < sec \/ (t.sec = sec /\ t.nsec <= nsec)

(* pthread_cond_timedwait rejects a tv_nsec outside 0..999999999.          *)
ValidTimespec(t) == 0 <= t.nsec /\ t.nsec < NSEC_PER_SEC

(* g_thread_abort: reports the status on stderr and calls abort ().       *)
g_thread_abort ==
    /\ pc' = "aborted"
    /\ UNCHANGED ret

-----------------------------------------------------------------------------
Init ==
    /\ pc = "idle"
    /\ form = "none"
    /\ canon = TRUE
    /\ arg = NULL
    /\ ts = [sec |-> 0, nsec |-> 0]
    /\ ret = FALSE

(* end_time.tv_sec = abs_time->tv_sec;                                     *)
(* end_time.tv_nsec = abs_time->tv_usec * 1000;                            *)
TimevalToTimespec(tv) == [sec |-> tv.sec, nsec |-> tv.usec * NSEC_PER_USEC]

(* Mutant of Int64ToTimespec: / and % swapped between the two fields.     *)
Int64ToTimespecSwapped(a) ==
    [sec |-> CRem(a, G_USEC_PER_SEC), nsec |-> CDiv(a, G_USEC_PER_SEC) * NSEC_PER_USEC]

(* end_time.tv_sec = abs_time / 1000000;                                   *)
(* end_time.tv_nsec = (abs_time % 1000000) * 1000;                         *)
Int64ToTimespec(a) ==
    [sec |-> CDiv(a, G_USEC_PER_SEC), nsec |-> CRem(a, G_USEC_PER_SEC) * NSEC_PER_USEC]

(* g_cond_timed_wait (cond, mutex, abs_time): a NULL abs_time waits with  *)
(* g_cond_wait and returns TRUE; otherwise the GTimeVal is converted.     *)
g_cond_timed_wait ==
    /\ pc = "idle"
    /\ \/ /\ pc' = "wait"
          /\ form' = "null"
          /\ UNCHANGED <<canon, arg, ts>>
       \/ \E tv \in TimeVals :
             /\ form' = "timeval"
             /\ canon' = (0 <= tv.usec /\ tv.usec < G_USEC_PER_SEC)
             /\ arg' = tv.sec * G_USEC_PER_SEC + tv.usec
             /\ ts' = TimevalToTimespec(tv)
             /\ pc' = "timedwait"
    /\ UNCHANGED ret

(* g_cond_timedwait (cond, mutex, abs_time).                               *)
g_cond_timedwait ==
    /\ pc = "idle"
    /\ \E a \in AbsTimes :
          /\ form' = "int64"
          /\ canon' = (a >= 0)
          /\ arg' = a
          /\ ts' = Int64ToTimespec(a)
    /\ pc' = "timedwait"
    /\ UNCHANGED ret

(* g_cond_wait returns once woken; g_cond_timed_wait then returns TRUE.    *)
WaitReturn ==
    /\ pc = "wait"
    /\ pc' = "returned"
    /\ ret' = TRUE
    /\ UNCHANGED <<form, canon, arg, ts>>

(* Mutant of PthreadTimedwait: the ETIMEDOUT test dropped, so that every *)
(* status but 0 aborts.                                                    *)
PthreadTimedwaitAbortOnTimeout ==
    /\ pc = "timedwait"
    /\ \/ /\ ValidTimespec(ts) /\ ~NotAfter(ts, Now)
          /\ ret' = TRUE
          /\ pc' = "returned"
       \/ /\ ~ValidTimespec(ts) \/ NotAfter(ts, Now)
          /\ g_thread_abort
    /\ UNCHANGED <<form, canon, arg, ts>>

(* status = pthread_cond_timedwait (...): 0 gives TRUE, ETIMEDOUT FALSE,  *)
(* any other status g_thread_abort.                                        *)
PthreadTimedwait ==
    /\ pc = "timedwait"
    /\ \/ /\ ~ValidTimespec(ts)
          /\ g_thread_abort
       \/ /\ ValidTimespec(ts)
          /\ \E signalled \in IF NotAfter(ts, Now) THEN {FALSE}
                                                           ELSE {TRUE, FALSE} :
                ret' = signalled
          /\ pc' = "returned"
    /\ UNCHANGED <<form, canon, arg, ts>>

Terminating ==
    /\ pc \in {"returned", "aborted"}
    /\ UNCHANGED vars

Next ==
    \/ g_cond_timed_wait \/ g_cond_timedwait
    \/ WaitReturn \/ PthreadTimedwait
    \/ Terminating

Spec == Init /\ [][Next]_vars

-----------------------------------------------------------------------------
(* Every variable stays within its type.                                   *)
TypeOK ==
    /\ pc \in {"idle", "timedwait", "wait", "returned", "aborted"}
    /\ form \in {"none", "null", "timeval", "int64"}
    /\ canon \in BOOLEAN
    /\ arg \in Int \cup {NULL}
    /\ ts \in [sec : Int, nsec : Int]
    /\ ret \in BOOLEAN

(* A timed wait reports that it was signalled (TRUE) only if the caller's*)
(* deadline was still ahead of the clock: the struct timespec built at    *)
(* lines 712-713 or 746-747 is never later than the deadline it stands    *)
(* for, so pthread_cond_timedwait cannot wait past an elapsed deadline.   *)
SignalledOnlyBeforeDeadline ==
    pc = "returned" /\ form \in {"timeval", "int64"} /\ ret => arg > Now

(* A deadline given in the canonical form (a GTimeVal with tv_usec in     *)
(* 0..999999, or a gint64 at or after the epoch) never makes the wait     *)
(* abort: g_thread_abort is reached only through EINVAL.                  *)
CanonicalNeverAborts ==
    pc = "aborted" => ~canon

(* Spec 4.4: a timed wait returns FALSE if its deadline elapsed first.   *)
(* A deadline already in the past must make the call return FALSE, never *)
(* abort the process.                                                      *)
PastDeadlineReturnsFalse ==
    /\ pc = "aborted" => arg > Now
    /\ pc = "returned" /\ arg # NULL /\ arg <= Now => ~ret
=============================================================================
