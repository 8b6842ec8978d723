# TLA+ models of glib's POSIX threading layer

These modules model `src/glib/gthread-posix.c`. That file maps GLib's
threading API onto pthreads: GMutex, GRecMutex, GRWLock, GCond, GPrivate and
system threads. `src/gio/gnotification.h` holds declarations only, so there is
nothing in it to model.

## Inventory

| Part (spec name) | Code | State | Operations | What is hard |
|---|---|---|---|---|
| Mutex | `g_mutex_*`, 111-231 | the holder of a pthread mutex | init, clear, lock, trylock, unlock | abort on any unexpected status; EBUSY is the only error trylock reports |
| RecursiveMutex | `g_rec_mutex_*`, 235-392 | `impl` pointer (lazy); the native recursive mutex (owner, count) | get_impl (allocate, CAS, free loser), init, clear, lock, trylock, unlock | racy first use; double read of `impl`; EAGAIN at the recursion ceiling is ignored; clear leaves `impl` dangling |
| ReaderWriterLock | `g_rw_lock_*`, 427-562 | readers and writer of a pthread rwlock | init, clear, rd/wr lock, trylock, unlock | the statuses are all ignored |
| ConditionVariable | `g_cond_*`, 583-756 | the set of parked waiters; the paired GMutex | init, clear, wait, timed_wait, timedwait, signal, broadcast | atomic release-and-park; reacquire before return; timeouts; spurious wakeups; deadline conversion |
| ThreadLocalSlot | `g_private_*`, 760-820 | `ready`, `single_value`, the pthread key | init, get, set | an unsynchronised `ready` flag; values set before init are lost |
| ThreadLifecycle | `g_system_thread_*`, 837-918 | threads, joinable flag | create, join, exit, self, equal, yield | stack-size clamp with a signed/unsigned `MAX`; EAGAIN versus the fatal errors |
| FailureReporting | `g_thread_abort`, `posix_check_err` | none | print and abort | I/O only |

How the parts interact: ConditionVariable takes a locked Mutex. The other
primitives are independent of each other. Every part reports an unexpected
pthread status through FailureReporting, which ends the process.

## Modules

* **`GMutex`**: the holder of one mutex. It defines `MutexInit`,
  `MutexLock` (blocks while the mutex is held), `MutexTrylockOk`,
  `MutexTrylockBusy` (EBUSY, also for the holder itself) and `MutexUnlock`.
  The module is used through `INSTANCE` by `GCond`.
  * The abort paths are not reachable for a correct caller, so they are not
    modelled.

* **`GRecMutex`**: threads that lock, trylock and unlock one GRecMutex, which
  starts either with `impl = NULL` (G_REC_MUTEX_INIT) or allocated
  (`g_rec_mutex_init`).
  * `g_rec_mutex_get_impl` is split at each access to shared memory:
    * `ReadImpl` is the first load.
    * `CheckImpl` is the racy second load. Under the data race the compiler may
      reload the field or reuse the first load, so the model chooses between
      the two values nondeterministically.
    * `ImplNew` is the allocation; `PublishImpl` is the CAS and, on the losing
      side, the free.
    * `RereadImpl` is the final load.
  * The native recursive mutex is `owner`/`count` with ceiling `NativeMax`.
    * `PthreadLock` ignores EAGAIN, as line 351 does.
    * `PthreadTrylock` maps EBUSY and EAGAIN alike to FALSE.
  * A NULL impl passed to pthread is modelled as a crash (`pc = "segv"`).
  * `depth[t]` is what a client believes it holds.
  * Clear happens once no one uses the mutex. Nothing happens after clear or a
    crash.

* **`GCond`**: GCond composed with a `GMutex` and the client loop of spec 4.4.
  * Producers lock the mutex, or spin on trylock. They then increment `items`
    in two steps and signal or broadcast, either before or after unlocking.
  * Consumers lock and wait while `items = 0`. The timed consumers give up
    when a wait returns FALSE. A consumer that finds an item decrements
    `items`.
  * `g_cond_wait` releases the mutex and parks in one step.
    * A parked thread is woken by `g_cond_signal` (one waiter),
      `g_cond_broadcast` (all), `Timeout` (timed waiters only) or `Spurious`.
    * It then reacquires the mutex in `WaitReturn`.
  * `signal` wakes exactly one waiter. The extra wakeups POSIX allows are
    among the spurious ones.

* **`GCondDeadline`**: one call of `g_cond_timed_wait` (a `GTimeVal` or
  NULL) or `g_cond_timedwait` (a `gint64`), from its argument to its outcome.
  * `TimevalToTimespec` and `Int64ToTimespec` are the conversions of lines
    712-713 and 746-747. C's truncating `/` and `%` are `CDiv`/`CRem`, not
    TLA+'s flooring `\div` and `%`.
  * `PthreadTimedwait` is the status handling. A `tv_nsec` outside
    `0..999999999` gives EINVAL and `g_thread_abort`. A deadline at or before
    the clock `Now` times out at once. A later one may be signalled first.
  * `canon` records whether the argument was canonical: `tv_usec` below a
    second, or a `gint64` at or after the epoch.
  * `NotAfter` is pthread's comparison of a valid timespec with the clock,
    field by field, seconds first. `tv_usec * 1000` cannot overflow a 64-bit
    `glong` for any real `tv_usec`, so the product is exact.
* **`RWLock`**: the abstract reader/writer lock the spec promises
  (`readers[t]` counts, one `writer`), with no pthreads in it.
* **`GRWLock`**: each `g_rw_lock_*` call is one `pthread_rwlock_*` call on
  glibc's default lock.
  * The native lock is a reader count `nr` and a write owner `wr`.
    * Its kind is prefer-reader: `ReaderLock` admits while no thread *holds*
      the write lock, even while writers wait.
    * `WriterLock` waits until nobody holds the lock.
    * Past `ReaderMax` readers, `rdlock` and `tryrdlock` return EAGAIN.
      `Admit` models `g_rw_lock_reader_lock` dropping that status.
  * `rdepth`/`wheld` are what the client believes it holds.
  * `Refines` instantiates `RWLock` with `readers <- rdepth` and
    `writer <- WriterOf`. It is checked as a temporal property: every
    behaviour, as the clients see it, is one of the abstract lock.
  * `g_rw_lock_clear` is not modelled. Its precondition is that nobody holds
    the lock, and nothing may use the lock afterwards.
* **`GPrivate`**: one initialising thread (`KeyCreate`, then `SetReady`)
  and client threads.
  * Each `g_private_get`/`g_private_set` first reads `key->ready` (`GetCall`,
    `SetCall`). It then acts on what it read (`GetRead`, `SetWrite`), so init
    can complete in between.
  * `tls[t]` is the pthread key's value in thread t.
  * `mine[t]` is a history variable of the client: the value of t's last
    `g_private_set` that read `ready` as TRUE. It is recorded in `SetCall`,
    where the call reads `ready`, not in `SetWrite`, where it stores.
* **`GThread`**: `g_system_thread_create`, `join` and `exit` over handles.
  * `StackOf` is the stack clamp of lines 851-861. `MAX` compares the `long`
    from `sysconf` with the `gulong` hint, so -1 becomes `2^LongBits - 1`
    (`ULong`). `pthread_attr_setstacksize` refuses a size outside
    `StackMin..StackMax` and leaves the default.
  * Create ends in one of three ways: a running thread, `G_THREAD_ERROR_AGAIN`
    (the caller may retry), or `posix_check_err` (g_error: `fatal`).
  * `self`, `equal` and `yield` change no state.
  * The `g_return_if_fail` on a NULL function is left out, because every
    caller passes one.
* **`GRecMutexProofs`**, **`GCondDeadlineProofs`**, **`GPrivateProofs`**,
  **`GCondProofs`**, **`GThreadProofs`**, **`GRWLockProofs`**: the TLAPS
  proofs.
* **`MC_*`**: the constants that TLC uses.

## Runs

| Run | Checks | Result |
|---|---|---|
| `grecmutex` (`MC_GRecMutex.cfg`) | `MutualExclusion`, `NoLeak`, `NoUseAfterFree`, `TrylockFailsOnlyIfHeld` | pass, about 9k states |
| `grecmutex_null` (`MC_GRecMutex_null.cfg`) | `GetImplReturnsPublished` | **violation**: code bug |
| `grecmutex_ceiling` (`MC_GRecMutex_ceiling.cfg`) | `MutualExclusion` with `NativeMax = 1` | **violation**: code bug |
| `gcond` (`MC_GCond.cfg`) | `HoldsMutexInCS`, `ItemsConserved`, `Termination` | pass, about 3k states |
| `gcond_deadline` (`MC_GCondDeadline.cfg`) | `SignalledOnlyBeforeDeadline`, `CanonicalNeverAborts` | pass, 152 states |
| `gcond_deadline_past` (`MC_GCondDeadline_past.cfg`) | `PastDeadlineReturnsFalse` | **violation**: divergence from spec 4.4 |
| `grwlock` (`MC_GRWLock.cfg`) | `Refines` | pass, 131 states (with symmetry) |
| `grwlock_ceiling` (`MC_GRWLock_ceiling.cfg`) | `Refines` with `ReaderMax = 1` | **violation**: code bug |
| `grwlock_prefer` (`MC_GRWLock_prefer.cfg`) | `ReaderYieldsToWaitingWriter` | **violation**: divergence from the doc comment |
| `gprivate` (`MC_GPrivate.cfg`) | `ReadyGetSeesOwnSet` | pass, about 5.5k states |
| `gthread` (`MC_GThread.cfg`) | `StackHintAppliedWithMin` | pass, about 6.6k states |
| `gthread_nomin` (`MC_GThread_nomin.cfg`) | `StackHintApplied` | **violation**: divergence from spec 4.6 |

Every property of a passing run has a mutant in `PROJECT.json`. The mutant
is a plausible bug in the mapped code that TLC finds violating the property.

### Bounds

* **GRecMutex**: 3 threads, 4 addresses and depth 2, with symmetry over
  threads and over addresses.
  * Three threads let two lose the CAS race while a third already holds the
    lock.
  * Four addresses are enough for every thread's candidate plus a
    pre-allocated one.
  * Depth 2 exercises recursion.
* **GCond**: 2 producers and 2 consumers (one of them timed), with one
  spurious wakeup.
  * This covers both parked at once, signal versus broadcast, a timeout racing
    a produce, and notifying before and after unlock.
* **GCondDeadline**: inputs chosen around every boundary of the arithmetic.
  * `tv_sec` runs over -3..5 and `tv_usec` over {-1, 0, 1, 500000, 999999,
    1000000}.
  * The `gint64` deadlines lie on both sides of 0 and of whole seconds, and
    one whole second before and after `Now` = 1 s.
  * The theorems cover every integer.
* **GRWLock**: 4 threads, read depth 3 and `ReaderMax` 12, which is at least
  4 × 3 so that the ceiling is not reached. Four threads let two readers hold
  the lock while a writer waits and a fourth arrives. The ceiling run sets
  `ReaderMax = 1`.
* **GPrivate**: 2 threads and 2 values, enough for one thread to set before
  init and the other after, and for values to be told apart.
* **GThread**: 2 handles, hints {0, 8, 32, 128} and sysconf results {-1, 16},
  with `LongBits = 8`, `StackMin = 16`, `StackMax = 200` and
  `DefaultStack = 64`. This is the 64-bit arithmetic scaled down, so that a
  hint can fall below, between and above the limits. The conversion of -1 to
  `2^LongBits - 1` keeps its meaning: that value is above `StackMax`.

Every action, and every disjunct of each next-state relation, fires in the
passing runs.

### Fairness

`GCond` assumes weak fairness of each thread's own steps: the OS scheduler
eventually runs a runnable thread, and a parked timed waiter's deadline
eventually passes.

* Spurious wakeups get no fairness. They are also bounded by `MaxSpurious`,
  because without a bound an endless run of them starves a producer of the
  mutex. Weak fairness does not help there, since the lock is only
  intermittently enabled.
* The other modules check only safety (`Refines` is a safety property), so
  they need no fairness.

## Findings

1. **`g_rec_mutex_get_impl` can return NULL (line 262).** The function loads
   `mutex->impl` into a local, then tests the field again.
   * If another thread publishes between the two loads, the test skips the
     allocation and the function returns the stale NULL.
   * `g_rec_mutex_lock` then calls `pthread_mutex_lock(NULL)`.
2. **The recursion ceiling breaks mutual exclusion (line 351).**
   `g_rec_mutex_lock` ignores `pthread_mutex_lock`'s status. At the native
   ceiling the EAGAIN lock is counted by the client but not by the mutex, so
   one unlock too many frees it early.
   * `g_rec_mutex_trylock` (line 388) likewise returns FALSE to the mutex's own
     owner at the ceiling, against spec 4.2. `TrylockFailsOnlyIfHeld` fails
     there once `MaxDepth > NativeMax`. That instance is not kept as a run.
3. **A pre-epoch `gint64` deadline aborts (line 747).** `(abs_time % 1000000)
   * 1000` is negative for a negative `abs_time`.
   `pthread_cond_timedwait` then returns EINVAL, and `g_cond_timedwait` calls
   `g_thread_abort` instead of returning FALSE (spec 4.4). A `GTimeVal` with
   `tv_usec` outside `0..999999` aborts the same way (line 713).
4. **The reader ceiling breaks the rwlock (line 520).**
   `g_rw_lock_reader_lock` drops `pthread_rwlock_rdlock`'s EAGAIN. The caller
   reads without a lock, and a writer enters. TLC shows `Refines` violated.
5. **Readers do not yield to a waiting writer (line 520).** The doc comment
   (lines 508-509) says a reader blocks while a writer waits. The lock is
   created with default attributes, and glibc's default kind prefers readers.
   In TLC's trace t1 reads, t2 blocks in `pthread_rwlock_wrlock`, and t3,
   which holds no read lock, is admitted at once. A recursive read lock is
   not counted against the code: the same comment allows it, and refusing it
   would deadlock. A stream of such readers can starve the writer; that
   liveness consequence is not checked.
6. **A missing stack minimum drops the hint (line 855).** `sysconf` returns -1,
   and `MAX` with the unsigned hint makes it `ULONG_MAX`.
   `pthread_attr_setstacksize` then fails unchecked, and the thread gets the
   default stack whatever it asked for (spec 4.6 says the hint is applied).

Observations that are not modelled:
* `g_mutex_unlock` aborts naming "pthread_mutex_lock" (line 198).
* `g_thread_abort` passes `strerror (status)` and `function` in swapped order
  to its format (lines 72-73). The message text is left out of the model.
* `g_rec_mutex_clear` leaves `impl` pointing at freed memory (line 331). The
  contract forbids using a cleared mutex, so this is not a hazard of a
  correct caller.
* The spec says signal wakes "at most one" waiter. The code comment and POSIX
  say "at least one".

## Proofs (TLAPS)

Each theorem holds for every value of the constants that satisfies the
module's `ASSUME`.

* **`GRecMutexProofs`**
  * `TypeCorrect` proves `Spec => []TypeOK`, through `TypeInv`, which adds
    `owner[a] = NULL <=> count[a] = 0`, a real address at the CAS, and
    depth below `MaxDepth` inside an operation.
  * `MutualExclusionThm` proves `MaxDepth <= NativeMax => (Spec =>
    []MutualExclusion)`, through `IInv`:
    * `LocalImpl`: a thread about to lock holds NULL or the published impl;
    * `OwnedIsPublished`: only the published mutex is owned;
    * `HeldMatchesNative`/`OwnerDepth`: a client's depth is the native count
      of the mutex it owns.

    The hypothesis is the boundary that `grecmutex_ceiling` crosses.
  * `NoLeakThm` and `NoUseAfterFreeThm` prove `Spec => []NoLeak` and
    `Spec => []NoUseAfterFree` for any depth bounds. They rest on `MemInv`,
    which adds to `TypeInv` and `LocalImpl`:
    * `Candidates`: every CAS candidate is allocated, not freed, not the
      published mutex, and no other thread's candidate;
    * `freed ⊆ used`, and `impl` is allocated;
    * clear happens only with every thread idle.

    The winner therefore publishes a live mutex, and a loser frees only its
    own candidate.
* **`GCondDeadlineProofs`**
  * `SignalledOnlyBeforeDeadlineThm` and `CanonicalNeverAbortsThm` prove
    the two properties of run `gcond_deadline` for every integer argument
    and every `Now`.
  * They rest on these lemmas:
    * `CDivRem`: C's truncating division is Euclid's, with a remainder of the
      dividend's sign;
    * `ScaleUsec`: the scaling to nanoseconds is exact;
    * `Int64ToTimespecExact` and `TimevalToTimespecExact`: the timespec
      denotes the argument exactly;
    * `LaterThanClock`: a valid timespec that pthread finds later than the
      clock denotes an instant after it.
  * The invariant `IInv` adds that at `pthread_cond_timedwait` the timespec
    denotes the argument, and is valid if the argument was canonical, and
    that the untimed branch is the NULL one.
* **`GPrivateProofs`**
  * `ReadyGetSeesOwnSetThm` proves the action property `Spec =>
    ReadyGetSeesOwnSet` for any threads and values: what `GetRead` returns.
  * The invariant says that pthread's slot of a thread equals the client's
    record, except while a set that read ready is between its read and its
    store, and then the value being stored is the record. A thread reads
    `ready` only after init stored it, which is after `pthread_key_create`
    emptied every slot; before that every record is NULL.

* **`GRecMutexProofs`** (continued)
  * `TrylockFailsOnlyIfHeldThm` proves the action property
    `TrylockFailsOnlyIfHeld` under the same hypothesis `MaxDepth <=
    NativeMax`. It reuses `IInv`. A thread's own recursion cannot make
    `pthread_mutex_trylock` refuse: the native count equals its depth
    (`OwnerDepth`), and inside an operation the depth is below `MaxDepth`.
    So a refused trylock is of a mutex another thread owns.
* **`GCondProofs`**
  * `HoldsMutexInCSThm` and `ItemsConservedThm` prove both safety invariants
    of run `gcond` for any producers, consumers, timed waiters and
    `MaxSpurious`.
  * `HoldsMutexInCS` is inductive once types are known. A lock succeeds only
    on a free mutex, so no thread is in its critical section at that moment.
    An unlock or a wait releases the mutex only from outside one.
  * `ItemsConserved` is not inductive. `IInv` adds `ReadIsCurrent`: a thread
    between reading `items` and writing it back still has the current value.
    Both steps happen under the mutex, and only the holder writes.
  * Signal and broadcast share one step, `<1>0` of `IInvStep`. A
    notification moves the notifier and the woken threads out of any
    critical section, and touches neither the mutex nor the counter.
* **`GThreadProofs`**
  * `StackHintAppliedWithMinThm` proves `StackHintAppliedWithMin` for every
    width of long and every hint, sysconf result and pthread limit.
  * It assumes one platform fact, `SysconfMinAccepted`: a minimum that
    sysconf reports is a size `pthread_attr_setstacksize` accepts. glibc
    reports `PTHREAD_STACK_MIN` itself, or a larger kernel-dependent value
    far below any maximum. Without it the property is false: the raised
    size would be refused and the thread would get the default stack.
  * `StackOfWithMin` is the step: with a reported minimum, `MAX` raises an
    accepted hint to a size that is still accepted.
  * `ULongOfNonNegative` shows that a non-negative long converts to unsigned
    long unchanged. It needs `2^(LongBits-1) <= 2^LongBits`, which
    `TwoExpMonotone` derives from `FS_SUBSET` (there are `2^n` subsets of an
    `n`-element set) and `FS_Subset`. The SMT backend has no facts about
    `^`.
  * The invariant `IInv` says that each created thread's stack is `StackOf`
    of the hint and sysconf value of its create.
* **`GRWLockProofs`**
  * `RefinesThm` proves `Spec => Refines`, that GRWLock implements `RWLock`.
    It holds under `CeilingAssumption`: finitely many threads, and
    `MaxDepth * Cardinality(Threads) <= ReaderMax`. Run `grwlock_ceiling`
    shows what happens past it.
  * The inductive invariant `IInv` says:
    * the native count `nr` is the number of read-lock tokens `<<t, i>>`
      with `i <= rdepth[t]`;
    * `wheld[t] <=> wr = t`;
    * a written lock has no readers;
    * a thread blocked in rdlock is below `MaxDepth`.
  * The token set stands for the sum of the depths. Its cardinality is
    reasoned about with `FS_AddElement` and `FS_RemoveElement`, so no
    recursive fold is needed.
  * `TokensBelowSlots` shows that an admitted reader is still under the
    ceiling. `TokensEmpty` shows that a zero count means no reader.
  * `RefineStep` maps each step of the implementation to an abstract step.
    An admitted reader is `AcquireRead`; a taken write lock is
    `AcquireWrite`; the unlocks are the matching releases. A blocked call or
    a refused trylock leaves `rdepth` and the writer unchanged, so it maps
    to a stutter.
  * `ClientExclusionThm` states the exclusion the clients see directly.

Each strengthened invariant (`IInv` of GCond, GThread and GRWLock) was first
checked by TLC, as an invariant of the instance of its run, before it was
proved.

The following are only model-checked:
* the liveness property `Termination` of GCond. TLAPS cannot reason about
  `ENABLED` and fairness.
* the violations of runs `grecmutex_null`, `grwlock_ceiling`,
  `grwlock_prefer`, `gcond_deadline_past` and `gthread_nomin`. They are
  counterexamples, not theorems.

## Plan for later sittings

1. `g_rw_lock_clear`, `g_cond_clear` and `g_mutex_clear` as actions with their
   preconditions.
2. A refinement of `GMutex` to an abstract lock, and of `GRecMutex` to a
   recursive one, with their proofs.
