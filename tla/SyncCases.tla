------------------------------ MODULE SyncCases ------------------------------
(***************************************************************************)
(* The mutex and semaphore cases of the FreeRTOS integration firmware,     *)
(* mutex.rs and semaphore.rs.                                              *)
(***************************************************************************)
EXTENDS Statements

(* One helper from its context's box to the reclaimed memory.              *)
run_helper(o, t) ==
    Spawned(o, <<t>>) \o Exited(<<t>>) \o Validated(<<t>>) \o Reclaimed(<<t>>)
-----------------------------------------------------------------------------
(* run_mutex_operation: a lock that must not be had, one whose wait is     *)
(* timed, and one that must be had.                                        *)
Fails(w, r) == Helper(<<Lock("m", w, r)>>)
TimesOut(t, d) == Helper(<<Stamp("start"), Lock("m", After(d), "any"), Stamp("end"),
                           Outcome(t, "Timeout")>>)
Locks(w) == Helper(<<Lock("m", w, "Ok"), Stamp("completed"), Increment("m"), Unlock("m")>>)

Held(value) == <<New("m", Mutex(value), "Ok"), Lock("m", NoWait, "Ok")>>
Reads(value) == <<Lock("m", NoWait, "Ok"), Query("m", "value", value), Unlock("m")>>

mutex_basic_clone == Only(
    <<Baseline("before"), New("m", Mutex(42), "Ok"), Baseline("one"), Clone("m"),
      SameHeap("one"), Drop("m")>>
    \o Reads(42) \o <<Lock("m", NoWait, "Ok"), Store("m", 99), Unlock("m")>> \o Reads(99)
    \o <<Drop("m"), SameHeap("before")>>)

mutex_non_recursive == Only(
    Held(1) \o <<Lock("m", NoWait, "LockFailed"), Unlock("m"), Lock("m", NoWait, "Ok"),
                 Unlock("m"), Drop("m")>>)

mutex_nowait_zero ==
    [main |-> Held(1) \o run_helper("m", "a") \o run_helper("m", "b")
              \o <<Unlock("m"), Drop("m")>>,
     a |-> Fails(NoWait, "LockFailed"), b |-> Fails(After(0), "Timeout")]

mutex_finite_timeout ==
    [main |-> Held(1) \o run_helper("m", "a")
              \o <<Unlock("m"), Elapsed(<<"a", "start">>, <<"a", "end">>, 5), Drop("m")>>,
     a |-> TimesOut("a", 5)]

mutex_blocking_wake ==
    [main |-> Held(0) \o Woken("m", Unlock("m")) \o Reads(1) \o <<Drop("m")>>,
     a |-> Locks(After(100))]

mutex_forever_wake ==
    [main |-> Held(0) \o Woken("m", Unlock("m")) \o Reads(1) \o <<Drop("m")>>,
     a |-> Locks(Forever)]

mutex_scheduler_suspended ==
    LET Relock(w, r) == Lock("m", w, r) IN
    Only(Held(1) \o <<Suspend>> \o RefusedWaits(Relock, "LockFailed")
         \o <<Resume, Unlock("m"), Lock("m", NoWait, "Ok"), Unlock("m"), Drop("m")>>)

mutex_runtime_lease == Only(<<New("m", Mutex(99), "Ok")>> \o RuntimeLease("m"))

run_mutex_cases ==
    [mutex_basic_clone |-> mutex_basic_clone, mutex_non_recursive |-> mutex_non_recursive,
     mutex_nowait_zero |-> mutex_nowait_zero, mutex_finite_timeout |-> mutex_finite_timeout,
     mutex_blocking_wake |-> mutex_blocking_wake, mutex_forever_wake |-> mutex_forever_wake,
     mutex_scheduler_suspended |-> mutex_scheduler_suspended,
     mutex_runtime_lease |-> mutex_runtime_lease]
-----------------------------------------------------------------------------
(* run_counting_operation and run_binary_operation.                        *)
Empties(t, d) == Helper(<<Stamp("start"), Acquire("s", After(d), "any"), Stamp("end"),
                          Outcome(t, "Timeout")>>)
Acquires(w) == Helper(<<Acquire("s", w, "Ok"), Stamp("completed")>>)

Created(semaphore) == <<New("s", semaphore, "Ok")>>

counting_core == Only(
    <<New("s", Counting(0, 0), "InvalidParameter"), New("s", Counting(3, 4), "InvalidParameter")>>
    \o Created(Counting(3, 2))
    \o <<Query("s", "max_count", 3), Query("s", "count", 2), Acquire("s", NoWait, "Ok"),
         Query("s", "count", 1), Release("s", "Ok"), Query("s", "count", 2), Drop("s")>>)

counting_overflow == Only(
    Created(Counting(2, 2)) \o <<Release("s", "Overflow"), Query("s", "count", 2), Drop("s")>>)

counting_nowait_zero == Only(
    Created(Counting(2, 0))
    \o <<Acquire("s", NoWait, "Timeout"), Acquire("s", After(0), "Timeout"),
         New("s2", Counting(2, 2), "Ok"), Acquire("s2", NoWait, "Ok"),
         Acquire("s2", After(0), "Ok"), Query("s2", "count", 0), Drop("s2"), Drop("s")>>)

counting_finite_timeout ==
    [main |-> Created(Counting(1, 0)) \o run_helper("s", "a")
              \o <<Elapsed(<<"a", "start">>, <<"a", "end">>, 5), Query("s", "count", 0), Drop("s")>>,
     a |-> Empties("a", 5)]

counting_clone == Only(
    <<Baseline("before")>> \o Created(Counting(2, 2))
    \o <<Baseline("one"), Clone("s"), SameHeap("one"), Drop("s"), Acquire("s", NoWait, "Ok"),
         Query("s", "count", 1), Drop("s"), SameHeap("before")>>)

counting_blocking_wake ==
    [main |-> Created(Counting(1, 0)) \o Woken("s", Release("s", "Ok"))
              \o <<Query("s", "count", 0), Drop("s")>>,
     a |-> Acquires(After(100))]

counting_forever_wake ==
    [main |-> Created(Counting(1, 0)) \o Woken("s", Release("s", "Ok")) \o <<Drop("s")>>,
     a |-> Acquires(Forever)]

Finished == Exited(Both) \o Validated(Both) \o Reclaimed(Both)

counting_one_release_one_waiter ==
    [main |-> Created(Counting(2, 0)) \o Spawned("s", Both) \o AtOperation(Both)
              \o <<Release("s", "Ok")>> \o OneOfTwo
              \o <<Query("s", "count", 0), Release("s", "Ok")>> \o Finished \o <<Drop("s")>>,
     a |-> Acquires(Forever), b |-> Acquires(Forever)]

counting_permit_accounting ==
    [main |-> Created(Counting(3, 0)) \o Spawned("s", Both) \o AtOperation(Both)
              \o <<Release("s", "Ok"), Release("s", "Ok"), Release("s", "Ok")>> \o Finished
              \o <<Query("s", "count", 1), Drop("s")>>,
     a |-> Acquires(Forever), b |-> Acquires(Forever)]
-----------------------------------------------------------------------------
binary_core == Only(
    Created(Binary)
    \o <<Query("s", "is_signaled", FALSE), Release("s", "Ok"), Query("s", "is_signaled", TRUE),
         Acquire("s", NoWait, "Ok"), Query("s", "is_signaled", FALSE), Drop("s")>>)

binary_overflow == Only(
    Created(Binary)
    \o <<Release("s", "Ok"), Release("s", "Overflow"), Query("s", "is_signaled", TRUE), Drop("s")>>)

binary_nowait_zero == Only(
    Created(Binary)
    \o <<Acquire("s", NoWait, "Timeout"), Acquire("s", After(0), "Timeout"), Release("s", "Ok"),
         Acquire("s", NoWait, "Ok"), Release("s", "Ok"), Acquire("s", After(0), "Ok"), Drop("s")>>)

binary_blocking_wake ==
    [main |-> Created(Binary) \o Woken("s", Release("s", "Ok"))
              \o <<Query("s", "is_signaled", FALSE), Drop("s")>>,
     a |-> Acquires(After(100))]

binary_forever_wake ==
    [main |-> Created(Binary) \o Woken("s", Release("s", "Ok")) \o <<Drop("s")>>,
     a |-> Acquires(Forever)]

binary_two_waiters ==
    [main |-> Created(Binary) \o Spawned("s", Both) \o AtOperation(Both) \o <<Release("s", "Ok")>>
              \o OneOfTwo \o <<Release("s", "Ok")>> \o Finished \o <<Drop("s")>>,
     a |-> Acquires(Forever), b |-> Acquires(Forever)]

binary_clone == Only(
    <<Baseline("before")>> \o Created(Binary)
    \o <<Baseline("one"), Clone("s"), SameHeap("one"), Drop("s"), Release("s", "Ok"),
         Acquire("s", NoWait, "Ok"), Drop("s"), SameHeap("before")>>)

semaphore_scheduler_suspended ==
    LET Waits(o) == LET Take(w, r) == Acquire(o, w, r) IN RefusedWaits(Take, "Timeout")
        Works(o) == <<Release(o, "Ok"), Acquire(o, NoWait, "Ok")>>
    IN Only(<<New("cs", Counting(1, 0), "Ok"), New("bs", Binary, "Ok"), Suspend>>
            \o Waits("cs") \o Waits("bs") \o <<Resume>> \o Works("cs") \o Works("bs")
            \o <<Drop("bs"), Drop("cs")>>)

semaphore_runtime_lease == Only(Created(Counting(1, 1)) \o RuntimeLease("s"))

run_semaphore_cases ==
    [counting_core |-> counting_core, counting_overflow |-> counting_overflow,
     counting_nowait_zero |-> counting_nowait_zero,
     counting_finite_timeout |-> counting_finite_timeout, counting_clone |-> counting_clone,
     counting_blocking_wake |-> counting_blocking_wake,
     counting_forever_wake |-> counting_forever_wake,
     counting_one_release_one_waiter |-> counting_one_release_one_waiter,
     counting_permit_accounting |-> counting_permit_accounting, binary_core |-> binary_core,
     binary_overflow |-> binary_overflow, binary_nowait_zero |-> binary_nowait_zero,
     binary_blocking_wake |-> binary_blocking_wake,
     binary_forever_wake |-> binary_forever_wake, binary_two_waiters |-> binary_two_waiters,
     binary_clone |-> binary_clone,
     semaphore_scheduler_suspended |-> semaphore_scheduler_suspended,
     semaphore_runtime_lease |-> semaphore_runtime_lease]
=============================================================================
