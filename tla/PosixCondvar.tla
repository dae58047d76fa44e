---------------------------- MODULE PosixCondvar ----------------------------
(***************************************************************************)
(* A pthread condition variable as osal-backend-posix/src/sys/condvar.rs   *)
(* wraps it, seen from a caller that waits on it under the object's mutex. *)
(*                                                                         *)
(* A caller of the object is "idle" outside it, at "entry" when it has     *)
(* called and not yet locked the mutex, "asleep" in pthread_cond_wait,     *)
(* "woken" when a signal, a broadcast or a spurious wakeup ended the wait, *)
(* and "expired" when its deadline ended it.  A woken or an expired caller *)
(* still has to get the mutex back.                                        *)
(***************************************************************************)
CONSTANT TimeoutConsumes
    (* TRUE: a signal may go to a waiter that is just timing out, which    *)
    (* POSIX allows pthread_cond_timedwait.  FALSE: it goes to a waiter    *)
    (* that returns as signalled.                                          *)

Points == {"idle", "entry", "asleep", "woken", "expired"}

(* Those of the callers S that a signal may reach.                         *)
Reachable(point, S) ==
    {c \in S : point[c] = "asleep" \/ (TimeoutConsumes /\ point[c] = "expired")}

Unblock(point, c) == [point EXCEPT ![c] = IF @ = "asleep" THEN "woken" ELSE @]

(* signal: one of the callers that wait is unblocked, if any does.  The    *)
(* value is the set of what point may become.                              *)
signal(point, S) ==
    IF Reachable(point, S) = {}
    THEN {point}
    ELSE {Unblock(point, c) : c \in Reachable(point, S)}

(* broadcast: every caller that waits is unblocked.                        *)
broadcast(point, S) ==
    [c \in DOMAIN point |-> IF c \in S /\ point[c] = "asleep"
                            THEN "woken" ELSE point[c]]
=============================================================================
