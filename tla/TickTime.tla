------------------------------ MODULE TickTime ------------------------------
(***************************************************************************)
(* osal-portable/src/tick_time.rs: conversions between a tick counter of   *)
(* finite width and durations.  A Duration is a natural number of          *)
(* nanoseconds; NanosPerSec is 10^9 in the code and the widths are 16, 32  *)
(* or 64, and both are parameters here so that wrapping and rounding show  *)
(* up at small values.  The code computes in u128, which holds the largest *)
(* product it forms (2^64 * 10^9 * 2^32), so naturals are exact.           *)
(***************************************************************************)
EXTENDS Naturals

CONSTANTS NanosPerSec,   (* nanoseconds in a second                        *)
          Rate,          (* TickConfig::rate_hz                            *)
          TickBits,      (* TickConfig::bits                               *)
          MaxSeconds     (* Duration::MAX, in whole seconds                *)

(* validate_config, and a counter wide enough for the guard tick.  The     *)
(* provers know nothing of powers: what they need of 2^TickBits is said.   *)
TickAssumption ==
    /\ NanosPerSec \in Nat \ {0}
    /\ Rate \in Nat \ {0}
    /\ TickBits \in Nat \ {0, 1}
    /\ 2^TickBits \in Nat /\ 2^TickBits >= 4
    /\ MaxSeconds \in Nat

(* Duration::MAX.                                                          *)
LastDuration == MaxSeconds * NanosPerSec + (NanosPerSec - 1)

(* The conversions are preceded by faulty variants of themselves, which    *)
(* nothing uses.                                                           *)

(* The number of ticks since the counter started, over all its wraps.      *)
expand_ticks_unwrapped(snapshot) == snapshot.tick_count
expand_ticks(snapshot) ==
    snapshot.overflow_count * 2^TickBits + snapshot.tick_count

(* Rounded down to a nanosecond, and saturated.                            *)
ticks_to_duration(ticks) ==
    LET seconds == ticks \div Rate
        nanos == ((ticks % Rate) * NanosPerSec) \div Rate
    IN IF seconds > MaxSeconds THEN LastDuration ELSE seconds * NanosPerSec + nanos

snapshot_to_duration(snapshot) == ticks_to_duration(expand_ticks(snapshot))

(* Rounded up to a tick.                                                   *)
duration_to_ticks_ceil(duration) ==
    IF duration = 0 THEN 0
    ELSE (duration * Rate + (NanosPerSec - 1)) \div NanosPerSec

(* The all-ones value is the kernel's "for ever" (portMAX_DELAY).          *)
Sentinel == 2^TickBits - 1
max_finite_ticks == 2^TickBits - 2
=============================================================================
