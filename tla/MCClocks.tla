------------------------------ MODULE MCClocks ------------------------------
(***************************************************************************)
(* The time of a backend: the mock backend's virtual clock with its timers *)
(* (MockTimer), or the FreeRTOS tick counter with the waits on it          *)
(* (FreeRtosWait).  A program has one of the two.                          *)
(***************************************************************************)
EXTENDS MockTimer, TLC

CONSTANTS NanosPerSec, Rate, TickBits, MaxSeconds, Durations, LastCall, MaxTime

VARIABLES backend,
          time, free, pc, started, duration, deadline, native, wake_tick,
          remaining, result

mock == <<phase, leases, now, epoch, next_id, timers, created, key, held, captured,
          stack, at, drops, releases, lock>>
freertos == <<time, free, pc, started, duration, deadline, native, wake_tick,
              remaining, result>>

Ticks == INSTANCE FreeRtosWait

ASSUME ClockAssumption == Ticks!WaitAssumption

MCInit == backend \in {"mock", "freertos"} /\ Init /\ Ticks!Init

MCNext ==
    \/ backend = "mock" /\ Next /\ UNCHANGED <<backend, freertos>>
    \/ backend = "freertos" /\ Ticks!Next /\ UNCHANGED <<backend, mock>>

MCSpec == MCInit /\ [][MCNext]_<<backend, mock, freertos>>

(* The FreeRTOS clock never runs backwards, not when the counter wraps and *)
(* not when the duration saturates.                                        *)
ClockIsMonotonic == Ticks!ClockIsMonotonic

(* On FreeRTOS a delay does not return early, a wait gives up no earlier   *)
(* than a tick before its deadline and is given no more time than it asked *)
(* for, and the kernel is never asked to block for ever.                   *)
WaitsAreOnTime == Ticks!WaitsAreOnTime

Symmetry == Permutations(Thread)
=============================================================================
