---------------------------- MODULE FreeRtosWait ----------------------------
(***************************************************************************)
(* The blocking engine of osal-backend-freertos/src/wait.rs and the delay  *)
(* and the clock of clock.rs: a task that waits for a native object with a *)
(* deadline, for ever or not at all, or that sleeps, on a kernel whose     *)
(* tick counter wraps and whose ticks are coarser than the durations.      *)
(*                                                                         *)
(* Real time is counted in units of which a tick has NanosPerSec and a     *)
(* nanosecond has Rate, so that both are whole.  It passes between any two *)
(* steps of the task.                                                      *)
(***************************************************************************)
EXTENDS TickTime

CONSTANTS Durations,   (* arguments of After and delay, not zero           *)
          LastCall,    (* no call starts after this time                   *)
          MaxTime      (* bound: time stops here                           *)

WaitAssumption ==
    /\ TickAssumption
    /\ Durations \subseteq Nat \ {0}
    /\ LastCall \in Nat
    /\ MaxTime \in Nat

VARIABLES time,        (* real time                                        *)
          free,        (* the native object can be taken                   *)
          pc,          (* where the task is                                *)
          started,     (* real time when its call started                  *)
          duration,    (* argument of its call                             *)
          deadline,    (* WaitBudget::Finite::deadline                     *)
          native,      (* ticks passed to the kernel                       *)
          wake_tick,   (* tick at which the kernel ends the block          *)
          remaining,   (* remaining_payload of delay                       *)
          result       (* what the last call returned                      *)

vars == <<time, free, pc, started, duration, deadline, native, wake_tick,
          remaining, result>>

(* Finite: "try" is take(0), "check" reads the clock, "take" calls the     *)
(* kernel and "blocked" is in it.  Forever: "take_forever",                *)
(* "blocked_forever".  delay: "chunk" and "delayed".                       *)
Points == {"idle", "try", "check", "take", "blocked", "take_forever",
           "blocked_forever", "chunk", "delayed"}

Tick == time \div NanosPerSec

(* sys::tick_snapshot: the wraps and the counter, read together.           *)
tick_snapshot == [overflow_count |-> Tick \div 2^TickBits,
                  tick_count |-> Tick % 2^TickBits]

(* FreeRtosClock::now.                                                     *)
now == snapshot_to_duration(tick_snapshot)

(* Everything has its type, and no block is asked of the kernel that does  *)
(* not fit its tick type or that is the value for "for ever".              *)
TypeOK ==
    /\ time \in 0 .. MaxTime
    /\ free \in BOOLEAN
    /\ pc \in Points
    /\ started \in 0 .. MaxTime
    /\ duration \in {0} \cup Durations
    /\ deadline \in 0 .. LastDuration
    /\ native \in 0 .. max_finite_ticks
    /\ wake_tick \in Nat
    /\ remaining \in Nat
    /\ result \in {"none", "Acquired", "Unavailable", "Overflow", "Refused", "Ok"}

Init ==
    /\ time = 0
    /\ free \in BOOLEAN
    /\ pc = "idle"
    /\ started = 0 /\ duration = 0 /\ deadline = 0
    /\ native = 0 /\ wake_tick = 0 /\ remaining = 0
    /\ result = "none"

Goto(point) == pc' = point /\ UNCHANGED <<started, duration, deadline, result>>

(* The call is over; what it needed is forgotten.                          *)
Forget ==
    /\ pc' = "idle"
    /\ started' = 0 /\ duration' = 0 /\ deadline' = 0
    /\ native' = 0 /\ wake_tick' = 0 /\ remaining' = 0
Return(r) == Forget /\ result' = r

(* Some conditions and updates below are preceded by faulty variants of    *)
(* themselves, which the specification never uses.                         *)

(* checked_add of the deadline.                                            *)
DeadlineOverflows(d) == now + d > LastDuration

(* A chunk leaves room for its guard tick.                                 *)
max_payload == max_finite_ticks - 1
Payload(ticks) == IF ticks < max_payload THEN ticks ELSE max_payload

NoGuard(payload) == payload
Guard(payload) == payload + 1

(* The loop ends only when the clock says so, not after a chunk.           *)
Expired == now >= deadline

(* prepare_blocking and wait_once keep the deadline they once computed.    *)
KeptDeadline == deadline

(* wait_once has the native object.  A queue that finds nothing to send or *)
(* receive for the token it got waits again, with the same budget.         *)
Acquire ==
    \/ Return("Acquired")
    \/ /\ pc' = IF deadline = 0 THEN "take_forever" ELSE "try"
       /\ deadline' = IF deadline = 0 THEN 0 ELSE KeptDeadline
       /\ native' = IF deadline = 0 THEN max_finite_ticks ELSE 0
       /\ wake_tick' = 0
       /\ UNCHANGED <<started, duration, remaining, result>>
-----------------------------------------------------------------------------
MayCall == pc = "idle" /\ time <= LastCall

(* NoWait and After(0): one take(0).                                       *)
wait_nowait ==
    /\ MayCall
    /\ free' = FALSE
    /\ Return(IF free THEN "Acquired" ELSE "Unavailable")
    /\ UNCHANGED time

(* ensure_blocking_allowed finds that the scheduler is not running.        *)
blocking_refused ==
    /\ MayCall
    /\ Return("Refused")
    /\ UNCHANGED <<time, free>>

(* WaitBudget::Finite: the absolute deadline is computed once.             *)
wait_finite(d) ==
    /\ MayCall
    /\ IF DeadlineOverflows(d)
       THEN Return("Overflow")
       ELSE /\ pc' = "try"
            /\ started' = time /\ duration' = d /\ deadline' = now + d
            /\ UNCHANGED <<native, wake_tick, remaining, result>>
    /\ UNCHANGED <<time, free>>

take_at_once ==
    /\ pc = "try"
    /\ IF free THEN Acquire
       ELSE Goto("check") /\ UNCHANGED <<native, wake_tick, remaining>>
    /\ free' = FALSE
    /\ UNCHANGED time

(* Give up, or ask for the remaining ticks, as many as one call may have.  *)
check_deadline ==
    /\ pc = "check"
    /\ IF Expired
       THEN Return("Unavailable")
       ELSE /\ native' = Guard(Payload(duration_to_ticks_ceil(deadline - now)))
            /\ Goto("take")
            /\ UNCHANGED <<wake_tick, remaining>>
    /\ UNCHANGED <<time, free>>

wait_forever ==
    /\ MayCall
    /\ pc' = "take_forever"
    /\ native' = max_finite_ticks
    /\ UNCHANGED <<time, free, started, duration, deadline, wake_tick, remaining,
                   result>>

(* take(native): the kernel counts from the tick it is called in.          *)
take(from, blocked) ==
    /\ pc = from
    /\ IF free THEN Acquire
       ELSE /\ wake_tick' = Tick + native
            /\ Goto(blocked)
            /\ UNCHANGED <<native, remaining>>
    /\ free' = FALSE
    /\ UNCHANGED time

(* The block ends for its ticks; the sentinel never does.                  *)
TicksOver == native # Sentinel /\ Tick >= wake_tick

take_times_out(blocked, next) ==
    /\ pc = blocked
    /\ TicksOver
    /\ Goto(next)
    /\ UNCHANGED <<time, free, native, wake_tick, remaining>>

(* FreeRtosClock::delay: the ticks are counted down chunk by chunk.        *)
delay(d) ==
    /\ MayCall
    /\ pc' = "chunk"
    /\ started' = time /\ duration' = d
    /\ remaining' = duration_to_ticks_ceil(d)
    /\ UNCHANGED <<time, free, deadline, native, wake_tick, result>>

delay_chunk ==
    /\ pc = "chunk" /\ remaining > 0
    /\ native' = Guard(Payload(remaining))
    /\ wake_tick' = Tick + native'
    /\ remaining' = remaining - Payload(remaining)
    /\ Goto("delayed")
    /\ UNCHANGED <<time, free>>

delay_wakes ==
    /\ pc = "delayed"
    /\ TicksOver
    /\ Goto("chunk")
    /\ UNCHANGED <<time, free, native, wake_tick, remaining>>

delay_returns ==
    /\ pc = "chunk" /\ remaining = 0
    /\ Return("Ok")
    /\ UNCHANGED <<time, free>>

(* Another task gives the object: to the task blocked on it, if it is.     *)
other_gives ==
    /\ ~free
    /\ IF pc \in {"blocked", "blocked_forever"}
       THEN Acquire /\ UNCHANGED free
       ELSE /\ free' = TRUE
            /\ UNCHANGED <<pc, started, duration, deadline, native, wake_tick,
                           remaining, result>>
    /\ UNCHANGED time

other_takes ==
    /\ free
    /\ free' = FALSE
    /\ UNCHANGED <<time, pc, started, duration, deadline, native, wake_tick,
                   remaining, result>>

time_passes ==
    /\ time < MaxTime
    /\ time' = time + 1
    /\ UNCHANGED <<free, pc, started, duration, deadline, native, wake_tick,
                   remaining, result>>

Step ==
    \/ take_at_once \/ check_deadline
    \/ take("take", "blocked") \/ take_times_out("blocked", "try")
    \/ take("take_forever", "blocked_forever")
    \/ take_times_out("blocked_forever", "take_forever")
    \/ delay_chunk \/ delay_wakes \/ delay_returns

Next ==
    \/ wait_nowait \/ blocking_refused \/ wait_forever
    \/ \E d \in Durations : wait_finite(d) \/ delay(d)
    \/ Step
    \/ other_gives \/ other_takes
    \/ time_passes

Spec == Init /\ [][Next]_vars
-----------------------------------------------------------------------------
Elapsed == time - started

(* Slack of a clock read rounded down to a tick, and to a nanosecond when  *)
(* ticks are not whole nanoseconds.                                        *)
ClockSlack == NanosPerSec + (IF NanosPerSec % Rate = 0 THEN 0 ELSE Rate)

(* The clock never runs backwards, not when the counter wraps and not      *)
(* when the duration saturates.                                            *)
ClockIsMonotonic == [][now' >= now]_vars

(* delay(d) returns only when d has really passed, in however many chunks  *)
(* and wherever in a tick each of them starts.  A wait with a deadline     *)
(* gives up less than one tick before its duration has really passed,      *)
(* however often it had to block again; a queue that waits again for the   *)
(* same call does not get more time for it; and the kernel is never asked  *)
(* to block a task for ever, or for more than a guard tick longer than the *)
(* duration in ticks.                                                      *)
WaitsAreOnTime ==
    /\ [][delay_returns => Elapsed >= duration * Rate]_vars
    /\ [][(check_deadline /\ result' = "Unavailable" /\ pc' = "idle")
          => Elapsed + ClockSlack > duration * Rate]_vars
    /\ [](deadline # 0 => deadline * Rate <= started + duration * Rate)
    /\ [](pc \in {"blocked", "delayed"}
          => native # Sentinel /\ native <= duration_to_ticks_ceil(duration) + 1)
=============================================================================
