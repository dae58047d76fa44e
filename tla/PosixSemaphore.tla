--------------------------- MODULE PosixSemaphore ---------------------------
(***************************************************************************)
(* osal-backend-posix/src/semaphore.rs: the CountingSemaphoreState of      *)
(* osal-portable under a pthread mutex and one condition variable.  The    *)
(* binary semaphore is this one with MaxCount = 1 and InitialCount = 0.    *)
(* A section under the mutex is one step.                                  *)
(***************************************************************************)
EXTENDS Naturals, FiniteSets

CONSTANTS Caller,            (* threads that use the semaphore             *)
          MaxCount, InitialCount,
          TimeoutConsumes    (* see PosixCondvar                           *)

VARIABLES count,     (* CountingSemaphoreState::count                      *)
          timeout,   (* the timeout argument of a caller in acquire        *)
          point,     (* where it is, see PosixCondvar                      *)
          result   (* what a call that ended in the last step returned   *)

vars == <<count, timeout, point, result>>

Condvar == INSTANCE PosixCondvar

(* NoWait stands for After(0) as well, which acquire treats alike.         *)
Timeouts == {"NoWait", "After", "Forever"}

(* Everything has its type, and the count stays within the maximum.        *)
TypeOK ==
    /\ count \in 0 .. MaxCount
    /\ timeout \in [Caller -> Timeouts]
    /\ point \in [Caller -> Condvar!Points]
    /\ result \in {"none", "Ok", "Timeout", "Overflow"}

Init ==
    /\ count = InitialCount
    /\ timeout = [c \in Caller |-> "NoWait"]
    /\ point = [c \in Caller |-> "idle"]
    /\ result = "none"

At(p) == {c \in Caller : point[c] = p}

Return(c, r, p) ==
    /\ point' = [p EXCEPT ![c] = "idle"]
    /\ timeout' = [timeout EXCEPT ![c] = "NoWait"]
    /\ result' = r

(* The conditions and updates below are preceded by faulty variants of     *)
(* themselves, which the specification never uses.                         *)

(* CountingSemaphoreState::release.                                        *)
Overflows == count >= MaxCount

(* release wakes one waiter once the permit is in the count.               *)
WakeOneFromZero == IF count = 0 THEN Condvar!signal(point, Caller) ELSE {point}
WakeOne == Condvar!signal(point, Caller)

(* acquire gets the mutex, first or back from a wait, and finds the count  *)
(* at zero.                                                                *)
Blocks(c) == point[c] \in {"entry", "woken"} /\ count = 0

(* Only a wait with a non-zero duration has a deadline.                    *)
TimedWait(c) == timeout[c] = "After"
-----------------------------------------------------------------------------
call_acquire(c, t) ==
    /\ point[c] = "idle"
    /\ timeout' = [timeout EXCEPT ![c] = t]
    /\ point' = [point EXCEPT ![c] = "entry"]
    /\ UNCHANGED count /\ result' = "none"

(* try_acquire, on the way in or at the top of the loop.                   *)
acquire_ok(c) ==
    /\ point[c] \in {"entry", "woken"}
    /\ count > 0
    /\ count' = count - 1
    /\ Return(c, "Ok", point)

(* NoWait and After(0) do not wait.                                        *)
acquire_fails(c) ==
    /\ Blocks(c)
    /\ timeout[c] = "NoWait"
    /\ Return(c, "Timeout", point)
    /\ UNCHANGED count

(* The deadline of the first wait does not fit a timespec.                 *)
deadline_overflow(c) ==
    /\ Blocks(c) /\ point[c] = "entry" /\ timeout[c] = "After"
    /\ Return(c, "Overflow", point)
    /\ UNCHANGED count

acquire_wait(c) ==
    /\ Blocks(c)
    /\ timeout[c] \in {"After", "Forever"}
    /\ point' = [point EXCEPT ![c] = "asleep"]
    /\ UNCHANGED <<count, timeout>> /\ result' = "none"

spurious_wakeup(c) ==
    /\ point[c] = "asleep"
    /\ point' = Condvar!Unblock(point, c)
    /\ UNCHANGED <<count, timeout>> /\ result' = "none"

expire(c) ==
    /\ point[c] = "asleep" /\ TimedWait(c)
    /\ point' = [point EXCEPT ![c] = "expired"]
    /\ UNCHANGED <<count, timeout>> /\ result' = "none"

(* Back from an expired wait the call returns at once.                     *)
timed_out(c) ==
    /\ point[c] = "expired"
    /\ Return(c, "Timeout", point)
    /\ UNCHANGED count

(* release does not wait: one step of a caller that is not in acquire.     *)
release(c) ==
    /\ point[c] = "idle"
    /\ ~Overflows
    /\ count' = count + 1
    /\ \E p \in WakeOne : Return(c, "Ok", p)

release_overflows(c) ==
    /\ point[c] = "idle"
    /\ Overflows
    /\ Return(c, "Overflow", point)
    /\ UNCHANGED count

Proceed(c) == acquire_ok(c) \/ acquire_fails(c) \/ acquire_wait(c)

Step(c) ==
    \/ \E t \in Timeouts : call_acquire(c, t)
    \/ Proceed(c)
    \/ deadline_overflow(c)
    \/ spurious_wakeup(c) \/ expire(c) \/ timed_out(c)
    \/ release(c) \/ release_overflows(c)

Next == \E c \in Caller : Step(c)

Spec == Init /\ [][Next]_vars

-----------------------------------------------------------------------------
(* While anybody sleeps, at least as many callers are on their way back    *)
(* from the condvar as there are permits: N releases wake N waiters, even  *)
(* though each release signals only one and a caller from outside may take *)
(* the permit first.                                                       *)
NoLostPermit == At("asleep") # {} => count <= Cardinality(At("woken"))
=============================================================================
