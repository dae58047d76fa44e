--------------------------- MODULE TimerContract ---------------------------
(***************************************************************************)
(* What a timer service promises to the owners of its timers, whatever it  *)
(* does about locks, worker threads and clocks: a callback runs only for a *)
(* timer that was armed when it was chosen, one callback at a time, and a  *)
(* timer that was destroyed is never chosen again.  The POSIX and the      *)
(* FreeRTOS timer services implement this.                                 *)
(***************************************************************************)
CONSTANT Id          (* identities of timers; a restarted service uses     *)
                     (* them again                                         *)

VARIABLES live,      (* timers that exist                                  *)
          armed,     (* timers that are counting down                      *)
          firing     (* the timer whose callback was chosen to run         *)

vars == <<live, armed, firing>>

Init == live = {} /\ armed = {} /\ firing = {}

(* An identity is not given out while a callback of its last owner runs.   *)
Create(t) ==
    /\ t \notin live \cup firing
    /\ live' = live \cup {t}
    /\ UNCHANGED <<armed, firing>>

Arm(t) ==
    /\ t \in live
    /\ armed' = armed \cup {t}
    /\ UNCHANGED <<live, firing>>

Disarm(t) ==
    /\ t \in live
    /\ armed' = armed \ {t}
    /\ UNCHANGED <<live, firing>>

(* The timer is rearmed or stopped before its callback runs, so that what  *)
(* the callback does to it is not overwritten.                             *)
Fire(t) ==
    /\ t \in armed
    /\ firing = {}
    /\ firing' = {t}
    /\ armed' \in {armed, armed \ {t}}
    /\ UNCHANGED live

Done(t) ==
    /\ firing = {t}
    /\ firing' = {}
    /\ UNCHANGED <<live, armed>>

Destroy(t) ==
    /\ t \in live
    /\ live' = live \ {t}
    /\ armed' = armed \ {t}
    /\ UNCHANGED firing

Next ==
    \E t \in Id :
        \/ Create(t) \/ Arm(t) \/ Disarm(t) \/ Fire(t) \/ Done(t) \/ Destroy(t)

Spec == Init /\ [][Next]_vars
=============================================================================
