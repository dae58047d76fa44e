----------------------------- MODULE TimerState -----------------------------
(***************************************************************************)
(* The timer state machine every backend shares, osal-portable's           *)
(* timer_state.rs, and the deadline arithmetic of time_convert.rs under    *)
(* it, as operators on values: the timer services apply them under their   *)
(* registry lock.  A Duration is a number of nanoseconds up to             *)
(* MaxDuration; Overflow stands for Err(Error::Overflow) and NoDeadline    *)
(* for a stopped timer's None.                                             *)
(***************************************************************************)
EXTENDS Naturals

CONSTANTS MaxDuration,   (* Duration::MAX                                  *)
          NoDeadline,    (* None                                           *)
          Overflow       (* Err(Error::Overflow)                           *)

Duration == 0 .. MaxDuration
Period == 1 .. MaxDuration
TimerStates == [mode : {"OneShot", "Periodic"}, period : Period,
                deadline : Duration \cup {NoDeadline}]
-----------------------------------------------------------------------------
(* Operators below are preceded by faulty variants of themselves, which    *)
(* the specification never uses.                                           *)
checked_add(d, e) == IF d + e <= MaxDuration THEN d + e ELSE Overflow

checked_deadline(now, after) == checked_add(now, after)

(* How many periods to go forward from an expired deadline, and the first  *)
(* deadline of its grid after now.                                         *)
missed_periods_short(previous, period, now) == (now - previous) \div period
missed_periods(previous, period, now) == (now - previous) \div period + 1

next_periodic_deadline(previous, period, now) ==
    IF previous > now THEN previous
    ELSE checked_add(previous, period * missed_periods(previous, period, now))
-----------------------------------------------------------------------------
(* TimerState::new, start and reset, stop, change_period.  A start whose   *)
(* deadline overflows leaves the timer as it was.                          *)
new(period, mode) == [mode |-> mode, period |-> period, deadline |-> NoDeadline]

start(t, now) ==
    LET deadline == checked_deadline(now, t.period)
    IN IF deadline = Overflow THEN t ELSE [t EXCEPT !.deadline = deadline]

stop(t) == [t EXCEPT !.deadline = NoDeadline]

change_period(t, period) == [t EXCEPT !.period = period]

(* advance_on_expiry: whether the timer has expired, and the state it is   *)
(* in before its callback runs.                                            *)
has_expired(t, now) == t.deadline # NoDeadline /\ t.deadline <= now

after_expiry(t, next) == IF t.mode = "OneShot" \/ next = Overflow THEN NoDeadline ELSE next

advance_on_expiry(t, now) ==
    IF has_expired(t, now)
    THEN [t EXCEPT !.deadline =
             after_expiry(t, next_periodic_deadline(t.deadline, t.period, now))]
    ELSE t
=============================================================================
