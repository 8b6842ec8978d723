------------------------------- MODULE GThread -------------------------------
(***************************************************************************)
(* System threads of gthread-posix.c: g_system_thread_create, join and   *)
(* exit.  g_thread_yield, g_system_thread_self and g_system_thread_equal *)
(* touch no shared state.                                                  *)
(*                                                                         *)
(* g_system_thread_create runs in the creating thread with no lock held, *)
(* and only pthread_create has an effect others see, so one call is one   *)
(* step.  Its stack-size arithmetic is done as C does it: MAX compares   *)
(* the long sysconf (_SC_THREAD_STACK_MIN) with the gulong stack_size,    *)
(* which converts the long to unsigned long (modulo 2^LongBits).  The     *)
(* sizes are scaled down with LongBits so that TLC can enumerate them.   *)
(***************************************************************************)
EXTENDS Integers

CONSTANTS
    Handles,      \* GRealThread structures a caller may create a thread in
    Hints,        \* stack_size arguments (0: no hint)
    SysconfVals,  \* what sysconf (_SC_THREAD_STACK_MIN) may return
    LongBits,     \* the width of long and gulong
    StackMin,     \* PTHREAD_STACK_MIN: setstacksize refuses less
    StackMax,     \* setstacksize refuses more (EINVAL)
    DefaultStack  \* the stack of a thread whose size was not set

ASSUME ThreadAssumption ==
    /\ Hints \subseteq 0..(2^LongBits - 1)
    /\ SysconfVals \subseteq -1..(2^(LongBits - 1) - 1)
    /\ LongBits \in Nat \ {0}
    /\ StackMin \in Nat \ {0} /\ StackMax \in Nat /\ DefaultStack \in Nat

VARIABLES
    st,       \* st[h]: "none", "running", "exited" or "joined"
    joinable, \* joinable[h]: created with PTHREAD_CREATE_JOINABLE
    hint,     \* hint[h]: the stack_size passed to create
    sysmin,   \* sysmin[h]: what sysconf returned in that create
    stack,    \* stack[h]: the stack size the new thread got
    gerror,   \* gerror[h]: create set G_THREAD_ERROR_AGAIN
    fatal     \* g_error was called: the process is gone

vars == <<st, joinable, hint, sysmin, stack, gerror, fatal>>

(* The value of a long as an unsigned long.                                *)
ULong(x) == x % 2^LongBits

(* Mutant of CMax: MIN written for MAX.                                     *)
CMaxIsMin(a, b) == IF a > b THEN b ELSE a

(* glib's MAX (a, b): ((a) > (b) ? (a) : (b)).                             *)
CMax(a, b) == IF a > b THEN a ELSE b

-----------------------------------------------------------------------------
Init ==
    /\ st = [h \in Handles |-> "none"]
    /\ joinable = [h \in Handles |-> FALSE]
    /\ hint = [h \in Handles |-> 0]
    /\ sysmin = [h \in Handles |-> 0]
    /\ stack = [h \in Handles |-> DefaultStack]
    /\ gerror = [h \in Handles |-> FALSE]
    /\ fatal = FALSE

(* if (stack_size) { stack_size = MAX (sysconf (...), stack_size);         *)
(*   pthread_attr_setstacksize (&attr, stack_size); }  -- whose EINVAL,   *)
(* for a size below PTHREAD_STACK_MIN or too large, leaves the default.  *)
StackOf(size, sc) ==
    IF size = 0 THEN DefaultStack
    ELSE LET s == CMax(ULong(sc), size)
         IN  IF s \in StackMin..StackMax THEN s ELSE DefaultStack

(* posix_check_err (err, name): a non-zero status is passed to g_error,  *)
(* which logs it and aborts the process.                                   *)
posix_check_err ==
    /\ fatal' = TRUE
    /\ UNCHANGED <<st, stack, gerror>>

(* g_system_thread_create (func, arg, stack_size, joinable, thread, error):*)
(* pthread_create returns 0, EAGAIN (G_THREAD_ERROR_AGAIN set in error)   *)
(* or another error (posix_check_err: g_error, which aborts); so can the  *)
(* pthread_attr_* calls checked with posix_check_cmd.  The attr is         *)
(* destroyed before the status is looked at.  After G_THREAD_ERROR_AGAIN   *)
(* the caller may try again.                                               *)
g_system_thread_create(h) ==
    /\ ~fatal /\ st[h] = "none"
    /\ \E size \in Hints, sc \in SysconfVals, j \in BOOLEAN :
          /\ hint' = [hint EXCEPT ![h] = size]
          /\ sysmin' = [sysmin EXCEPT ![h] = sc]
          /\ joinable' = [joinable EXCEPT ![h] = j]
          /\ \/ /\ st' = [st EXCEPT ![h] = "running"]
                /\ stack' = [stack EXCEPT ![h] = StackOf(size, sc)]
                /\ gerror' = [gerror EXCEPT ![h] = FALSE]
                /\ UNCHANGED fatal
             \/ /\ gerror' = [gerror EXCEPT ![h] = TRUE]
                /\ UNCHANGED <<st, stack, fatal>>
             \/ posix_check_err

(* g_system_thread_exit, or the thread function returning.                 *)
g_system_thread_exit(h) ==
    /\ ~fatal /\ st[h] = "running"
    /\ st' = [st EXCEPT ![h] = "exited"]
    /\ UNCHANGED <<joinable, hint, sysmin, stack, gerror, fatal>>

(* g_system_thread_join: pthread_join blocks until the joinable thread    *)
(* exits.  A correct caller joins each joinable thread once.               *)
g_system_thread_join(h) ==
    /\ ~fatal /\ joinable[h] /\ st[h] = "exited"
    /\ st' = [st EXCEPT ![h] = "joined"]
    /\ UNCHANGED <<joinable, hint, sysmin, stack, gerror, fatal>>

(* Every create has been tried and every joinable thread joined, or the   *)
(* process is gone.                                                        *)
Terminating ==
    /\ \/ fatal
       \/ \A h \in Handles : \/ gerror[h]
                            \/ st[h] = "joined"
                            \/ (st[h] = "exited" /\ ~joinable[h])
    /\ UNCHANGED vars

Next ==
    \/ \E h \in Handles :
          \/ g_system_thread_create(h)
          \/ g_system_thread_exit(h)
          \/ g_system_thread_join(h)
    \/ Terminating

Spec == Init /\ [][Next]_vars

-----------------------------------------------------------------------------
(* Every variable stays within its type.                                   *)
TypeOK ==
    /\ st \in [Handles -> {"none", "running", "exited", "joined"}]
    /\ joinable \in [Handles -> BOOLEAN]
    /\ hint \in [Handles -> Hints \cup {0}]
    /\ sysmin \in [Handles -> SysconfVals \cup {0}]
    /\ stack \in [Handles -> Nat]
    /\ gerror \in [Handles -> BOOLEAN]
    /\ fatal \in BOOLEAN

(* Spec 4.6 where sysconf (_SC_THREAD_STACK_MIN) reports a minimum: a    *)
(* stack-size hint pthread accepts is applied, possibly raised, never     *)
(* lowered: the thread created in that call gets a stack at least as      *)
(* large as the hint.                                                      *)
StackHintAppliedWithMin ==
    \A h \in Handles :
        st[h] # "none" /\ hint[h] \in StackMin..StackMax /\ sysmin[h] >= 0 =>
            stack[h] >= hint[h]

(* Spec 4.6: create applies a stack-size hint when one is provided,       *)
(* clamped upward to the platform's minimum if the platform reports one, *)
(* the absence of a minimum being tolerated.  A hint pthread accepts is   *)
(* applied, whether or not sysconf reports a minimum.                     *)
StackHintApplied ==
    \A h \in Handles :
        st[h] # "none" /\ hint[h] \in StackMin..StackMax =>
            stack[h] >= hint[h]
=============================================================================
