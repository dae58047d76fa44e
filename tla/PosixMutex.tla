----------------------------- MODULE PosixMutex -----------------------------
(***************************************************************************)
(* Mutex<T> of osal-backend-posix/src/mutex.rs over the error-checking     *)
(* pthread mutex of sys/mutex.rs.  A guard belongs to the thread that got  *)
(* it (it is !Send) and unlocks when it is dropped.  A thread may call     *)
(* lock while it holds a guard.                                            *)
(***************************************************************************)
EXTENDS Naturals, FiniteSets

CONSTANTS Thread, NoThread

VARIABLES owner,    (* the native owner                                    *)
          guards,   (* guards that a thread has                            *)
          pc,       (* where a thread is in lock                           *)
          late,     (* its deadline has passed                             *)
          result   (* what a call that ended in the last step returned   *)

vars == <<owner, guards, pc, late, result>>

(* timed_lock: "try" is trylock, "clock" reads the clock after EBUSY and   *)
(* "backoff" is nanosleep.  "blocked" is pthread_mutex_lock.               *)
Points == {"idle", "try", "clock", "backoff", "blocked"}

(* Everything has its type, and no thread has two guards.                  *)
TypeOK ==
    /\ owner \in Thread \cup {NoThread}
    /\ guards \in [Thread -> 0 .. 1]
    /\ pc \in [Thread -> Points]
    /\ late \subseteq Thread
    /\ result \in {"none", "Ok", "LockFailed", "Timeout", "Overflow"}

Init ==
    /\ owner = NoThread
    /\ guards = [t \in Thread |-> 0]
    /\ pc = [t \in Thread |-> "idle"]
    /\ late = {}
    /\ result = "none"

Goto(t, point) == pc' = [pc EXCEPT ![t] = point]

Acquire(t) ==
    /\ owner' = t
    /\ guards' = [guards EXCEPT ![t] = @ + 1]
    /\ Goto(t, "idle")
    /\ late' = late \ {t}
    /\ result' = "Ok"

Fail(t, r) ==
    /\ Goto(t, "idle")
    /\ late' = late \ {t}
    /\ result' = r
    /\ UNCHANGED <<owner, guards>>

(* The conditions below are preceded by faulty variants of themselves,     *)
(* which the specification never uses.                                     *)

(* pthread_mutex_trylock, and a lock that does not wait.  The owner fails  *)
(* like anybody else.                                                      *)
Free(t) == owner = NoThread

(* PTHREAD_MUTEX_ERRORCHECK: EDEADLK for the owner.                        *)
DetectsSelf(t) == owner = t

(* timespec_ge(now, deadline), after a failed try only.                    *)
NeverExpired(t) == FALSE
DeadlinePassed(t) == t \in late
-----------------------------------------------------------------------------
(* NoWait, and After(0): one trylock.                                      *)
lock_nowait(t, failure) ==
    /\ pc[t] = "idle"
    /\ IF Free(t) THEN Acquire(t) ELSE Fail(t, failure)

lock_after(t) ==
    /\ pc[t] = "idle"
    /\ \/ Fail(t, "Overflow")
       \/ Goto(t, "try") /\ UNCHANGED <<owner, guards, late>> /\ result' = "none"

timed_lock_try(t) ==
    /\ pc[t] = "try"
    /\ IF Free(t) THEN Acquire(t)
       ELSE Goto(t, "clock") /\ UNCHANGED <<owner, guards, late>> /\ result' = "none"

timed_lock_clock(t) ==
    /\ pc[t] = "clock"
    /\ IF DeadlinePassed(t) THEN Fail(t, "Timeout")
       ELSE Goto(t, "backoff") /\ UNCHANGED <<owner, guards, late>> /\ result' = "none"

timed_lock_backoff(t) ==
    /\ pc[t] = "backoff"
    /\ Goto(t, "try")
    /\ UNCHANGED <<owner, guards, late>> /\ result' = "none"

lock_forever(t) ==
    /\ pc[t] = "idle"
    /\ IF DetectsSelf(t) THEN Fail(t, "LockFailed")
       ELSE Goto(t, "blocked") /\ UNCHANGED <<owner, guards, late>> /\ result' = "none"

(* pthread_mutex_lock gets the mutex; nothing orders those who wait.       *)
lock_granted(t) ==
    /\ pc[t] = "blocked"
    /\ Free(t)
    /\ Acquire(t)

(* PosixMutexGuardImpl::drop.                                              *)
guard_drop(t) ==
    /\ pc[t] = "idle" /\ guards[t] > 0
    /\ guards' = [guards EXCEPT ![t] = @ - 1]
    /\ owner' = NoThread
    /\ UNCHANGED <<pc, late>> /\ result' = "none"

deadline_passes(t) ==
    /\ pc[t] \in {"try", "clock", "backoff"} /\ t \notin late
    /\ late' = late \cup {t}
    /\ UNCHANGED <<owner, guards, pc>> /\ result' = "none"

TimedStep(t) ==
    timed_lock_try(t) \/ timed_lock_clock(t) \/ timed_lock_backoff(t)

Step(t) ==
    \/ lock_nowait(t, "LockFailed") \/ lock_nowait(t, "Timeout")
    \/ lock_after(t) \/ TimedStep(t) \/ deadline_passes(t)
    \/ lock_forever(t) \/ lock_granted(t)
    \/ guard_drop(t)

Next == \E t \in Thread : Step(t)

Spec == Init /\ [][Next]_vars
=============================================================================
