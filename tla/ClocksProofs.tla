---------------------------- MODULE ClocksProofs ----------------------------
(***************************************************************************)
(* Proofs about MCClocks: the FreeRTOS tick arithmetic and the waits on    *)
(* it, for every rate, width and duration; the arithmetic of periodic      *)
(* timers; and the timers of the mock.                                     *)
(***************************************************************************)
EXTENDS MCClocks, Integers, TLAPS

N == NanosPerSec
R == Rate
Slack == IF N % R = 0 THEN 0 ELSE R

LEMMA Constants ==
    /\ N \in Nat \ {0} /\ R \in Nat \ {0} /\ MaxSeconds \in Nat
    /\ 2^TickBits \in Nat /\ 2^TickBits >= 4
    /\ Durations \subseteq Nat \ {0}
    /\ LastCall \in Nat /\ MaxTime \in Nat
    /\ Slack \in Nat
    /\ Ticks!LastDuration \in Nat /\ Ticks!LastDuration = MaxSeconds * N + (N - 1)
  <1>1. /\ N \in Nat \ {0} /\ R \in Nat \ {0} /\ MaxSeconds \in Nat
        /\ 2^TickBits \in Nat /\ 2^TickBits >= 4
        /\ Durations \subseteq Nat \ {0}
        /\ LastCall \in Nat /\ MaxTime \in Nat
    BY ClockAssumption, Zenon DEF Ticks!WaitAssumption, Ticks!TickAssumption, N, R
  <1>2. Ticks!LastDuration = MaxSeconds * N + (N - 1) BY Zenon DEF Ticks!LastDuration, N
  <1>3. MaxSeconds * N \in Nat BY <1>1
  <1> QED BY <1>1, <1>2, <1>3 DEF Slack

(* Division by a divisor, told by its quotient and remainder.              *)
LEMMA Division ==
    ASSUME NEW n \in Nat, NEW d \in Nat \ {0}
    PROVE  /\ n \div d \in Nat /\ n % d \in Nat /\ n % d < d
           /\ n = d * (n \div d) + (n % d)
           /\ d * (n \div d) <= n /\ n < d * (n \div d) + d
  OBVIOUS

LEMMA MultiplyLess ==
    ASSUME NEW i \in Nat, NEW j \in Nat, NEW d \in Nat, i <= j
    PROVE  i * d <= j * d
  OBVIOUS

(* What is left of a second, in nanoseconds: less than a second, and less  *)
(* than a nanosecond off.                                                  *)
LEMMA Fraction ==
    ASSUME NEW r \in Nat, r < R
    PROVE  LET f == (r * N) \div R
           IN f \in Nat /\ f < N /\ f * R <= r * N /\ r * N < f * R + R
              /\ (N % R = 0 => f * R = r * N)
  <1> DEFINE f == (r * N) \div R
  <1>0. N \in Nat \ {0} /\ R \in Nat \ {0} BY Constants, Zenon
  <1> HIDE DEF N, R
  <1>1. r * N \in Nat BY <1>0
  <1>2. f \in Nat /\ R * f <= r * N /\ r * N < R * f + R BY <1>0, <1>1, Division, Zenon
  <1>3. R * f = f * R BY <1>0, <1>2
  <1>4. f < N BY <1>0
  <1>5. ASSUME N % R = 0 PROVE f * R = r * N
    <2> DEFINE q == N \div R
    <2>1. q \in Nat /\ N = R * q BY <1>0, <1>5, Division
    <2> HIDE DEF q
    <2>2. r * N = (r * q) * R BY <1>0, <2>1
    <2>3. r * q \in Nat BY <2>1
    <2> DEFINE x == r * q
    <2> HIDE DEF x, f
    <2>4. x \in Nat BY <2>3, Zenon DEF x
    <2>5. r * N = x * R BY <2>2, Zenon DEF x
    <2>6. f = x
      <3>1. ~(f < x)
        <4>1. ASSUME f < x PROVE FALSE
          <5>1. (f + 1) * R <= x * R BY <1>0, <1>2, <2>4, <4>1, MultiplyLess
          <5>2. (f + 1) * R = f * R + R BY <1>0, <1>2
          <5> QED BY <1>0, <1>1, <1>2, <1>3, <2>5, <5>1, <5>2
        <4> QED BY <4>1, Zenon
      <3>2. ~(x < f)
        <4>1. ASSUME x < f PROVE FALSE
          <5>1. (x + 1) * R <= f * R BY <1>0, <1>2, <2>4, <4>1, MultiplyLess
          <5>2. (x + 1) * R = x * R + R BY <1>0, <2>4
          <5> QED BY <1>0, <1>1, <1>2, <1>3, <2>5, <5>1, <5>2
        <4> QED BY <4>1, Zenon
      <3> QED BY <1>2, <2>4, <3>1, <3>2
    <2> QED BY <2>5, <2>6, Zenon
  <1> HIDE DEF f
  <1>6. f \in Nat /\ f < N /\ f * R <= r * N /\ r * N < f * R + R /\ (N % R = 0 => f * R = r * N)
    BY <1>2, <1>3, <1>4, <1>5, Zenon
  <1> QED BY <1>6, Zenon DEF f

(* ticks_to_duration rounds down, by less than a nanosecond, or saturates. *)
LEMMA DurationBounds ==
    ASSUME NEW T \in Nat
    PROVE  LET D == Ticks!ticks_to_duration(T)
           IN /\ D \in Nat /\ D <= Ticks!LastDuration
              /\ D * R <= T * N
              /\ D < Ticks!LastDuration => T * N <= D * R + Slack
  <1> DEFINE D == Ticks!ticks_to_duration(T)
             q == T \div R
             r == T % R
             f == (r * N) \div R
  <1>0. N \in Nat \ {0} /\ R \in Nat \ {0} /\ MaxSeconds \in Nat /\ Slack \in Nat
    BY Constants, Zenon
  <1>1. q \in Nat /\ r \in Nat /\ r < R /\ T = R * q + r BY <1>0, Division, Zenon
  <1>2. /\ f \in Nat /\ f < N /\ f * R <= r * N /\ r * N < f * R + R
        /\ N % R = 0 => f * R = r * N
    BY <1>1, Fraction, Zenon
  <1>3. D = IF q > MaxSeconds THEN Ticks!LastDuration ELSE q * N + f
    BY Zenon DEF Ticks!ticks_to_duration, N, R
  <1>4. Ticks!LastDuration \in Nat /\ Ticks!LastDuration = MaxSeconds * N + (N - 1)
    BY Constants, Zenon
  <1> HIDE DEF D, q, r, f, N, R
  <1>5. T * N = (q * N) * R + r * N /\ q * N \in Nat /\ r * N \in Nat /\ T * N \in Nat
        /\ f * R \in Nat
    BY <1>0, <1>1, <1>2
  <1>6. CASE q > MaxSeconds
    <2>1. (MaxSeconds + 1) * N <= q * N BY <1>0, <1>1, <1>6, MultiplyLess
    <2>2. (MaxSeconds + 1) * N = MaxSeconds * N + N BY <1>0
    <2>3. D \in Nat /\ D = Ticks!LastDuration /\ D <= q * N
      BY <1>0, <1>3, <1>4, <1>5, <1>6, <2>1, <2>2
    <2>4. D * R <= (q * N) * R BY <1>0, <1>5, <2>3, MultiplyLess, Zenon
    <2>5. (q * N) * R \in Nat /\ D * R \in Nat BY <1>0, <1>5, <2>3
    <2>6. D * R <= T * N BY <1>5, <2>4, <2>5
    <2>7. D <= Ticks!LastDuration /\ ~(D < Ticks!LastDuration) BY <1>4, <2>3
    <2>8. D \in Nat /\ D <= Ticks!LastDuration /\ D * R <= T * N
          /\ (D < Ticks!LastDuration => T * N <= D * R + Slack)
      BY <2>3, <2>6, <2>7, Zenon
    <2> QED BY <2>8, Zenon DEF D
  <1>7. CASE ~(q > MaxSeconds)
    <2>1. q * N <= MaxSeconds * N BY <1>0, <1>1, <1>7, MultiplyLess
    <2>2. D = q * N + f /\ D \in Nat BY <1>2, <1>3, <1>5, <1>7
    <2>3. D <= Ticks!LastDuration
      <3>1. MaxSeconds * N \in Nat BY <1>0
      <3> QED BY <1>0, <1>2, <1>4, <1>5, <2>1, <2>2, <3>1
    <2>4. D * R = (q * N) * R + f * R BY <1>0, <1>2, <1>5, <2>2
    <2>5. (q * N) * R \in Nat BY <1>0, <1>5
    <2>6. D * R <= T * N BY <1>2, <1>5, <2>4, <2>5
    <2>7. T * N <= D * R + Slack BY <1>0, <1>2, <1>5, <2>4, <2>5 DEF Slack
    <2>8. D \in Nat /\ D <= Ticks!LastDuration /\ D * R <= T * N
          /\ (D < Ticks!LastDuration => T * N <= D * R + Slack)
      BY <2>2, <2>3, <2>6, <2>7, Zenon
    <2> QED BY <2>8, Zenon DEF D
  <1> QED BY <1>6, <1>7, Zenon

(* A later tick is a later duration, or the same.                          *)
LEMMA DurationIsMonotonic ==
    ASSUME NEW T \in Nat, NEW U \in Nat, T <= U
    PROVE  Ticks!ticks_to_duration(T) <= Ticks!ticks_to_duration(U)
  <1> DEFINE D == Ticks!ticks_to_duration(T)
             E == Ticks!ticks_to_duration(U)
             q == T \div R
             r == T % R
             f == (r * N) \div R
             p == U \div R
             s == U % R
             g == (s * N) \div R
  <1>0. N \in Nat \ {0} /\ R \in Nat \ {0} /\ MaxSeconds \in Nat BY Constants, Zenon
  <1>1. /\ q \in Nat /\ r \in Nat /\ r < R /\ T = R * q + r
        /\ p \in Nat /\ s \in Nat /\ s < R /\ U = R * p + s
    BY <1>0, Division, Zenon
  <1>2. q <= p BY <1>0
  <1>3. /\ f \in Nat /\ f < N /\ g \in Nat BY <1>1, Fraction, Zenon
  <1>4. /\ D = IF q > MaxSeconds THEN Ticks!LastDuration ELSE q * N + f
        /\ E = IF p > MaxSeconds THEN Ticks!LastDuration ELSE p * N + g
    BY Zenon DEF Ticks!ticks_to_duration, N, R
  <1>5. D \in Nat /\ E \in Nat /\ D <= Ticks!LastDuration /\ Ticks!LastDuration \in Nat
    BY DurationBounds, Constants, Zenon
  <1>6. q * N \in Nat /\ p * N \in Nat BY <1>0, <1>1
  <1>7. CASE p > MaxSeconds BY <1>4, <1>5, <1>7, Zenon
  <1>8. CASE ~(p > MaxSeconds) /\ q < p
    <2> HIDE DEF q, r, f, p, s, g, N, R
    <2>1. (q + 1) * N <= p * N BY <1>0, <1>1, <1>8, MultiplyLess
    <2>2. (q + 1) * N = q * N + N BY <1>0, <1>1
    <2>3. ~(q > MaxSeconds) BY <1>0, <1>1, <1>8
    <2>4. D = q * N + f /\ E = p * N + g BY <1>4, <1>8, <2>3, Zenon
    <2> QED BY <1>0, <1>3, <1>6, <2>1, <2>2, <2>4
  <1>9. CASE ~(p > MaxSeconds) /\ q = p
    <2>1. r <= s
      <3> HIDE DEF q, r, p, s
      <3>1. R * q = R * p /\ R * q \in Nat BY <1>0, <1>1, <1>9
      <3> QED BY <1>1, <3>1
    <2>2. f <= g
      <3>1. r * N <= s * N /\ r * N \in Nat /\ s * N \in Nat
        <4> HIDE DEF r, s, N
        <4> QED BY <1>0, <1>1, <2>1, MultiplyLess
      <3> DEFINE x == r * N
                 y == s * N
      <3> HIDE DEF x, y
      <3>2. x \in Nat /\ y \in Nat /\ x <= y BY <3>1, Zenon DEF x, y
      <3>3. x \div R <= y \div R
        <4> HIDE DEF R
        <4> QED BY <1>0, <3>2
      <3> QED BY <3>3, Zenon DEF x, y
    <2> HIDE DEF q, r, f, p, s, g, N, R
    <2>3. D = q * N + f /\ E = q * N + g BY <1>4, <1>9, Zenon
    <2> QED BY <1>3, <1>6, <2>2, <2>3
  <1> QED BY <1>1, <1>2, <1>7, <1>8, <1>9

(* The snapshot of the counter and its wraps loses no tick.                *)
LEMMA ClockReadsTheTick ==
    ASSUME time \in Nat
    PROVE  /\ Ticks!Tick \in Nat
           /\ Ticks!Tick * N <= time /\ time < Ticks!Tick * N + N
           /\ Ticks!now = Ticks!ticks_to_duration(Ticks!Tick)
  <1> DEFINE B == 2^TickBits
  <1>0. N \in Nat \ {0} /\ B \in Nat \ {0} BY Constants
  <1> DEFINE T == Ticks!Tick
  <1>1. T = time \div N BY Zenon DEF Ticks!Tick, N
  <1> HIDE DEF T, N, B
  <1>2. T \in Nat /\ N * T <= time /\ time < N * T + N BY <1>0, <1>1, Division, Zenon
  <1>3. N * T = T * N BY <1>0, <1>2
  <1>4. /\ T = B * (T \div B) + (T % B)
        /\ T \div B \in Nat /\ T % B \in Nat
    BY <1>0, <1>2, Division, Zenon
  <1>5. (T \div B) * B + (T % B) = T BY <1>0, <1>4
  <1>6. Ticks!now = Ticks!ticks_to_duration((T \div B) * B + (T % B))
    BY Zenon
    DEF Ticks!now, Ticks!snapshot_to_duration, Ticks!expand_ticks, Ticks!tick_snapshot, T, B
  <1> QED BY <1>2, <1>3, <1>5, <1>6, Zenon DEF T

(* duration_to_ticks_ceil rounds up, and keeps the order.                  *)
Ceil(d) == Ticks!duration_to_ticks_ceil(d)

LEMMA CeilBounds ==
    ASSUME NEW d \in Nat
    PROVE  Ceil(d) \in Nat /\ d * R <= Ceil(d) * N
  <1>0. N \in Nat \ {0} /\ R \in Nat \ {0} BY Constants, Zenon
  <1>1. Ceil(d) = IF d = 0 THEN 0 ELSE (d * R + (N - 1)) \div N
    BY Zenon DEF Ceil, Ticks!duration_to_ticks_ceil, N, R
  <1> HIDE DEF N, R, Ceil
  <1>2. CASE d = 0 BY <1>0, <1>1, <1>2
  <1>3. CASE d # 0
    <2> DEFINE n == d * R + (N - 1)
    <2>1. n \in Nat /\ d * R \in Nat BY <1>0
    <2> HIDE DEF n
    <2>2. Ceil(d) = n \div N BY <1>1, <1>3, Zenon DEF n
    <2>3. Ceil(d) \in Nat /\ n < N * Ceil(d) + N BY <1>0, <2>1, <2>2, Division, Zenon
    <2>4. N * Ceil(d) = Ceil(d) * N /\ Ceil(d) * N \in Nat BY <1>0, <2>3
    <2> QED BY <1>0, <2>1, <2>3, <2>4 DEF n
  <1> QED BY <1>2, <1>3, Zenon

LEMMA CeilIsMonotonic ==
    ASSUME NEW d \in Nat, NEW e \in Nat, d <= e
    PROVE  Ceil(d) <= Ceil(e)
  <1>0. N \in Nat \ {0} /\ R \in Nat \ {0} /\ Ceil(e) \in Nat BY Constants, CeilBounds, Zenon
  <1>1. /\ Ceil(d) = IF d = 0 THEN 0 ELSE (d * R + (N - 1)) \div N
        /\ Ceil(e) = IF e = 0 THEN 0 ELSE (e * R + (N - 1)) \div N
    BY Zenon DEF Ceil, Ticks!duration_to_ticks_ceil, N, R
  <1> HIDE DEF N, R, Ceil
  <1>2. CASE d = 0 BY <1>0, <1>1, <1>2
  <1>3. CASE d # 0
    <2> DEFINE n == d * R + (N - 1)
               m == e * R + (N - 1)
    <2>1. n \in Nat /\ m \in Nat /\ n <= m
      <3>1. d * R <= e * R /\ d * R \in Nat /\ e * R \in Nat BY <1>0, MultiplyLess
      <3> QED BY <1>0, <3>1
    <2>2. Ceil(d) = n \div N /\ Ceil(e) = m \div N BY <1>1, <1>3
    <2> HIDE DEF n, m
    <2>3. n \div N <= m \div N BY <1>0, <2>1
    <2> QED BY <2>2, <2>3, Zenon
  <1> QED BY <1>2, <1>3, Zenon

(* A chunk fits the kernel's tick type, and is never its "for ever".       *)
LEMMA ChunkBounds ==
    ASSUME NEW n \in Nat
    PROVE  LET p == Ticks!Payload(n)
           IN /\ p \in Nat /\ p <= n
              /\ Ticks!Guard(p) = p + 1 /\ Ticks!Guard(p) # Ticks!Sentinel
  BY Constants DEF Ticks!Payload, Ticks!max_payload, Ticks!max_finite_ticks, Ticks!Guard,
                   Ticks!Sentinel
-----------------------------------------------------------------------------
Waiting == {"try", "check", "take", "blocked"}
Sleeping == {"chunk", "delayed"}

(* A wait keeps the deadline it computed from a clock that is behind real  *)
(* time by less than Slack + N.  A delay has slept for the ticks it no     *)
(* longer has to, and when it wakes, for those of its chunk.               *)
TicksInv ==
    /\ time \in Nat /\ started \in Nat /\ duration \in Nat /\ deadline \in Nat
    /\ native \in Nat /\ wake_tick \in Nat /\ remaining \in Nat
    /\ pc \in Ticks!Points /\ started <= time
    /\ pc \notin Waiting => deadline = 0
    /\ pc \in Waiting =>
          /\ deadline > 0 /\ deadline <= Ticks!now + duration
          /\ deadline * R <= started + duration * R
          /\ started + duration * R < deadline * R + (Slack + N)
    /\ pc \in Sleeping => remaining <= Ceil(duration)
    /\ pc = "chunk" => started + (Ceil(duration) - remaining) * N <= time
    /\ pc = "delayed" => started + (Ceil(duration) - remaining) * N <= wake_tick * N
    /\ pc \in {"take", "blocked", "delayed"} =>
          native # Ticks!Sentinel /\ native <= Ceil(duration) + 1

USE DEF Waiting, Sleeping, Ticks!Points

LEMMA TicksInit == Ticks!Init => TicksInv
  BY DEF Ticks!Init, TicksInv

LEMMA SameTimeSameClock ==
    ASSUME UNCHANGED time
    PROVE  UNCHANGED Ticks!now
  BY Zenon DEF Ticks!now, Ticks!tick_snapshot, Ticks!Tick, Ticks!snapshot_to_duration,
         Ticks!expand_ticks, Ticks!ticks_to_duration

LEMMA ForgetKeeps ==
    ASSUME TicksInv, Ticks!Forget, UNCHANGED time
    PROVE  TicksInv'
  BY DEF TicksInv, Ticks!Forget

LEMMA AcquireKeeps ==
    ASSUME TicksInv, Ticks!Acquire, UNCHANGED time,
           pc \in Waiting \cup {"take_forever", "blocked_forever"}
    PROVE  TicksInv'
  <1>1. CASE Ticks!Return("Acquired") BY <1>1, ForgetKeeps, Zenon DEF Ticks!Return
  <1>2. CASE deadline = 0 /\ ~Ticks!Return("Acquired")
    <2>1. /\ pc' = "take_forever" /\ deadline' = 0 /\ native' = Ticks!max_finite_ticks
          /\ wake_tick' = 0 /\ UNCHANGED <<started, duration, remaining, result>>
      BY <1>2, Zenon DEF Ticks!Acquire
    <2>2. native' \in Nat BY <2>1, Constants DEF Ticks!max_finite_ticks
    <2> QED BY <2>1, <2>2, Zenon DEF TicksInv
  <1>3. CASE deadline # 0 /\ ~Ticks!Return("Acquired")
    <2>1. /\ pc' = "try" /\ deadline' = deadline /\ native' = 0
          /\ wake_tick' = 0 /\ UNCHANGED <<started, duration, remaining, result>>
      BY <1>3, Zenon DEF Ticks!Acquire, Ticks!KeptDeadline
    <2>2. UNCHANGED Ticks!now BY SameTimeSameClock, Zenon
    <2> QED BY <1>3, <2>1, <2>2, Zenon DEF TicksInv
  <1> QED BY <1>1, <1>2, <1>3, Zenon

(* The deadline of a wait, from a clock that rounds down.                  *)
LEMMA WaitFiniteKeeps ==
    ASSUME TicksInv, NEW d \in Durations, Ticks!wait_finite(d)
    PROVE  TicksInv'
  <1>0. d \in Nat \ {0} /\ N \in Nat \ {0} /\ R \in Nat \ {0} /\ Slack \in Nat /\ time \in Nat
    BY Constants, Zenon DEF TicksInv
  <1>1. CASE Ticks!DeadlineOverflows(d)
    BY <1>1, ForgetKeeps, Zenon DEF Ticks!wait_finite, Ticks!Return
  <1>2. CASE ~Ticks!DeadlineOverflows(d)
    <2> DEFINE T == Ticks!Tick
               D == Ticks!now
    <2>1. /\ T \in Nat /\ T * N <= time /\ time < T * N + N
          /\ D = Ticks!ticks_to_duration(T)
      BY <1>0, ClockReadsTheTick, Zenon
    <2>2. /\ D \in Nat /\ D * R <= T * N
          /\ D < Ticks!LastDuration => T * N <= D * R + Slack
      BY <2>1, DurationBounds, Zenon
    <2>3. D < Ticks!LastDuration
      BY <1>0, <1>2, <2>2, Constants DEF Ticks!DeadlineOverflows
    <2>4. /\ pc' = "try" /\ started' = time /\ duration' = d /\ deadline' = D + d
          /\ UNCHANGED <<time, native, wake_tick, remaining>>
      BY <1>2, Zenon DEF Ticks!wait_finite
    <2>5. UNCHANGED Ticks!now BY <2>4, SameTimeSameClock, Zenon
    <2> HIDE DEF D, T, N, R, Slack
    <2>6. (D + d) * R = D * R + d * R /\ D * R \in Nat /\ d * R \in Nat /\ T * N \in Nat
      BY <1>0, <2>1, <2>2
    <2>7. /\ (D + d) * R <= time + d * R
          /\ time + d * R < (D + d) * R + (Slack + N)
      BY <1>0, <2>1, <2>2, <2>3, <2>6
    <2>8. Ticks!now' = D BY <2>5, Zenon DEF D
    <2> QED BY <1>0, <2>2, <2>4, <2>7, <2>8 DEF TicksInv
  <1> QED BY <1>1, <1>2, Zenon

LEMMA CheckKeeps ==
    ASSUME TicksInv, Ticks!check_deadline
    PROVE  TicksInv'
  <1>1. CASE Ticks!Expired BY <1>1, ForgetKeeps, Zenon DEF Ticks!check_deadline, Ticks!Return
  <1>2. CASE ~Ticks!Expired
    <2> DEFINE left == deadline - Ticks!now
               n == Ceil(left)
    <2>0. Ticks!now \in Nat
      BY ClockReadsTheTick, DurationBounds, Zenon DEF TicksInv
    <2>1. pc = "check" /\ deadline \in Nat /\ duration \in Nat /\ deadline <= Ticks!now + duration
      BY Zenon DEF TicksInv, Ticks!check_deadline
    <2>2. left \in Nat /\ left <= duration BY <1>2, <2>0, <2>1 DEF Ticks!Expired
    <2>3. n \in Nat /\ Ceil(duration) \in Nat /\ n <= Ceil(duration)
      BY <2>1, <2>2, CeilBounds, CeilIsMonotonic, Zenon
    <2>4. /\ pc' = "take" /\ native' = Ticks!Guard(Ticks!Payload(n))
          /\ UNCHANGED <<time, started, duration, deadline, wake_tick, remaining>>
      BY <1>2, Zenon DEF Ticks!check_deadline, Ticks!Goto, Ceil
    <2> HIDE DEF n
    <2>5. native' \in Nat /\ native' # Ticks!Sentinel /\ native' <= Ceil(duration) + 1
      BY <2>3, <2>4, ChunkBounds
    <2>6. UNCHANGED Ticks!now BY <2>4, SameTimeSameClock, Zenon
    <2> QED BY <2>1, <2>4, <2>5, <2>6, Zenon DEF TicksInv
  <1> QED BY <1>1, <1>2, Zenon

LEMMA DelayKeeps ==
    ASSUME TicksInv, NEW d \in Durations, Ticks!delay(d)
    PROVE  TicksInv'
  <1>0. d \in Nat /\ Ceil(d) \in Nat /\ N \in Nat BY Constants, CeilBounds, Zenon
  <1>1. /\ pc = "idle" /\ pc' = "chunk" /\ started' = time /\ duration' = d
        /\ remaining' = Ceil(d)
        /\ UNCHANGED <<time, deadline, native, wake_tick>>
    BY Zenon DEF Ticks!delay, Ticks!MayCall, Ceil
  <1>2. (Ceil(d) - remaining') * N = 0 BY <1>0, <1>1
  <1> QED BY <1>0, <1>1, <1>2 DEF TicksInv

(* A chunk is over a tick later than its length, counted from the tick in  *)
(* which it started, so that its length has really passed.                 *)
LEMMA DelayChunkKeeps ==
    ASSUME TicksInv, Ticks!delay_chunk
    PROVE  TicksInv'
  <1> DEFINE p == Ticks!Payload(remaining)
             C == Ceil(duration)
             T == Ticks!Tick
             s == C - remaining
  <1>0. /\ remaining \in Nat /\ C \in Nat /\ N \in Nat /\ remaining <= C
        /\ started \in Nat /\ time \in Nat /\ pc = "chunk"
        /\ started + s * N <= time
    BY Constants, CeilBounds, Zenon DEF TicksInv, Ticks!delay_chunk
  <1>1. p \in Nat /\ p <= remaining /\ Ticks!Guard(p) = p + 1 /\ Ticks!Guard(p) # Ticks!Sentinel
    BY <1>0, ChunkBounds, Zenon
  <1>2. T \in Nat /\ time < T * N + N BY <1>0, ClockReadsTheTick, Zenon
  <1>3. /\ pc' = "delayed" /\ native' = p + 1 /\ wake_tick' = T + native'
        /\ remaining' = remaining - p /\ UNCHANGED <<time, started, duration, deadline>>
    BY <1>1, Zenon DEF Ticks!delay_chunk, Ticks!Goto
  <1> HIDE DEF p, C, T
  <1>4. started + (C - remaining') * N <= wake_tick' * N
    <2>1. s \in Nat /\ C - remaining' = s + p BY <1>0, <1>1, <1>3
    <2>2. wake_tick' = T + p + 1 BY <1>1, <1>2, <1>3
    <2> HIDE DEF s
    <2>3. /\ (s + p) * N = s * N + p * N /\ (T + p + 1) * N = T * N + p * N + N
          /\ s * N \in Nat /\ p * N \in Nat /\ T * N \in Nat
      BY <1>0, <1>1, <1>2, <2>1
    <2> QED BY <1>0, <1>1, <1>2, <2>1, <2>2, <2>3
  <1>5. /\ remaining' \in Nat /\ remaining' <= C /\ native' \in Nat /\ native' <= C + 1
        /\ native' # Ticks!Sentinel /\ wake_tick' \in Nat
    BY <1>0, <1>1, <1>2, <1>3
  <1>6. Ceil(duration)' = C BY <1>3, Zenon DEF C, Ceil, Ticks!duration_to_ticks_ceil
  <1> HIDE DEF s
  <1> QED BY <1>0, <1>3, <1>4, <1>5, <1>6, Zenon DEF TicksInv

LEMMA DelayWakesKeeps ==
    ASSUME TicksInv, Ticks!delay_wakes
    PROVE  TicksInv'
  <1> DEFINE T == Ticks!Tick
  <1>0. wake_tick \in Nat /\ time \in Nat /\ N \in Nat BY Constants, Zenon DEF TicksInv
  <1>1. T \in Nat /\ T * N <= time BY <1>0, ClockReadsTheTick, Zenon
  <1>2. /\ pc = "delayed" /\ pc' = "chunk" /\ T >= wake_tick
        /\ UNCHANGED <<time, started, duration, deadline, native, wake_tick, remaining>>
    BY Zenon DEF Ticks!delay_wakes, Ticks!Goto, Ticks!TicksOver
  <1> HIDE DEF T
  <1>3. wake_tick * N <= T * N /\ wake_tick * N \in Nat BY <1>0, <1>1, <1>2, MultiplyLess
  <1> DEFINE a == (Ceil(duration) - remaining) * N
  <1>4. /\ Ceil(duration) \in Nat /\ remaining \in Nat /\ started \in Nat
        /\ started + a <= wake_tick * N
    BY <1>2, CeilBounds, Zenon DEF TicksInv
  <1>5. a \in Int BY <1>0, <1>4
  <1>6. Ceil(duration)' = Ceil(duration) BY <1>2, Zenon DEF Ceil, Ticks!duration_to_ticks_ceil
  <1>7. a' = a BY <1>2, <1>6, Zenon DEF N
  <1> HIDE DEF a
  <1>8. started + a <= time
    <2>1. T * N \in Nat BY <1>0, <1>1
    <2> QED BY <1>0, <1>1, <1>3, <1>4, <1>5, <2>1
  <1>9. (started + a <= time)' BY <1>2, <1>7, <1>8, Zenon
  <1> QED BY <1>2, <1>6, <1>9, Zenon DEF TicksInv, a

LEMMA TimePassesKeeps ==
    ASSUME TicksInv, Ticks!time_passes
    PROVE  TicksInv' /\ Ticks!now <= Ticks!now'
  <1> DEFINE T == Ticks!Tick
  <1>0. /\ time \in Nat /\ time' = time + 1 /\ N \in Nat \ {0}
        /\ UNCHANGED <<pc, started, duration, deadline, native, wake_tick, remaining>>
    BY Constants, Zenon DEF TicksInv, Ticks!time_passes
  <1>1. T \in Nat /\ Ticks!now = Ticks!ticks_to_duration(T) BY <1>0, ClockReadsTheTick, Zenon
  <1>2. T' \in Nat /\ Ticks!now' = Ticks!ticks_to_duration(T')
    <2>1. (time \in Nat)' BY <1>0
    <2>2. (time \in Nat => T \in Nat /\ Ticks!now = Ticks!ticks_to_duration(T))
      BY ClockReadsTheTick, Zenon
    <2>3. (time \in Nat => T \in Nat /\ Ticks!now = Ticks!ticks_to_duration(T))'
      BY ClockReadsTheTick, PTL
    <2> QED BY <2>1, <2>3, Zenon DEF Ticks!ticks_to_duration
  <1>3. T <= T'
    <2>1. time \div N <= (time + 1) \div N BY <1>0
    <2> QED BY <1>0, <2>1, Zenon DEF Ticks!Tick, N
  <1>4. Ticks!now <= Ticks!now' /\ Ticks!now \in Nat /\ Ticks!now' \in Nat
    BY <1>1, <1>2, <1>3, DurationIsMonotonic, DurationBounds, Zenon
  <1>5. Ceil(duration)' = Ceil(duration) BY <1>0, Zenon DEF Ceil, Ticks!duration_to_ticks_ceil
  <1> HIDE DEF T
  <1>6. /\ started \in Nat /\ duration \in Nat /\ deadline \in Nat /\ remaining \in Nat
        /\ Ceil(duration) \in Nat /\ time' \in Nat /\ time <= time'
    BY <1>0, CeilBounds DEF TicksInv
  <1>7. pc \in Waiting => deadline <= Ticks!now' + duration
    <2>1. pc \in Waiting => deadline <= Ticks!now + duration BY Zenon DEF TicksInv
    <2>2. \A x, y, d, e \in Nat : x <= y /\ e <= x + d => e <= y + d OBVIOUS
    <2> QED BY <1>4, <1>6, <2>1, <2>2, Zenon
  <1>8. pc = "chunk" => started + (Ceil(duration) - remaining) * N <= time'
    <2> DEFINE a == (Ceil(duration) - remaining) * N
    <2>1. a \in Int BY <1>0, <1>6
    <2>2. pc = "chunk" => started + a <= time BY Zenon DEF TicksInv
    <2> HIDE DEF a
    <2>3. pc = "chunk" => started + a <= time' BY <1>0, <1>6, <2>1, <2>2
    <2> QED BY <2>3, Zenon DEF a
  <1>9. started <= time' BY <1>0, <1>6 DEF TicksInv
  <1> QED BY <1>0, <1>4, <1>5, <1>6, <1>7, <1>8, <1>9, Zenon DEF TicksInv, N, R, Slack


LEMMA OtherTickStepsKeep ==
    ASSUME TicksInv,
           \/ Ticks!wait_nowait \/ Ticks!blocking_refused \/ Ticks!wait_forever
           \/ Ticks!take_at_once \/ Ticks!delay_returns
           \/ Ticks!take("take", "blocked") \/ Ticks!take_times_out("blocked", "try")
           \/ Ticks!take("take_forever", "blocked_forever")
           \/ Ticks!take_times_out("blocked_forever", "take_forever")
           \/ Ticks!other_gives \/ Ticks!other_takes
    PROVE  TicksInv'
  <1>0. UNCHANGED time
    BY Zenon DEF Ticks!wait_nowait, Ticks!blocking_refused, Ticks!wait_forever, Ticks!take_at_once,
           Ticks!delay_returns, Ticks!take, Ticks!take_times_out, Ticks!other_gives,
           Ticks!other_takes
  <1>1. UNCHANGED Ticks!now BY <1>0, SameTimeSameClock, Zenon
  <1>2. Ticks!max_finite_ticks \in Nat BY Constants DEF Ticks!max_finite_ticks
  <1>3. Ticks!Tick \in Nat BY ClockReadsTheTick, Zenon DEF TicksInv
  <1>4. CASE Ticks!wait_nowait \/ Ticks!blocking_refused \/ Ticks!delay_returns
    BY <1>0, <1>4, ForgetKeeps, Zenon
    DEF Ticks!wait_nowait, Ticks!blocking_refused, Ticks!delay_returns, Ticks!Return
  <1>5. CASE Ticks!wait_forever
    BY <1>0, <1>2, <1>5, Zenon DEF Ticks!wait_forever, Ticks!MayCall, TicksInv
  <1>6. CASE Ticks!Acquire /\ pc \in Waiting \cup {"take_forever", "blocked_forever"}
    BY <1>0, <1>6, AcquireKeeps, Zenon
  <1>7. CASE Ticks!take_at_once
    <2>1. CASE free BY <1>6, <1>7, <2>1, Zenon DEF Ticks!take_at_once
    <2>2. CASE ~free
      BY <1>0, <1>1, <1>7, <2>2, Zenon DEF Ticks!take_at_once, Ticks!Goto, TicksInv
    <2> QED BY <2>1, <2>2, Zenon
  <1>8. ASSUME NEW from \in {"take", "take_forever"}, NEW to,
               to = IF from = "take" THEN "blocked" ELSE "blocked_forever",
               Ticks!take(from, to)
        PROVE  TicksInv'
    <2>1. CASE free BY <1>6, <1>8, <2>1, Zenon DEF Ticks!take
    <2>2. CASE ~free
      <3>1. /\ pc = from /\ pc' = to /\ wake_tick' = Ticks!Tick + native
            /\ UNCHANGED <<started, duration, deadline, native, remaining>>
        BY <1>8, <2>2, Zenon DEF Ticks!take, Ticks!Goto
      <3>2. wake_tick' \in Nat BY <1>3, <3>1 DEF TicksInv
      <3> QED BY <1>0, <1>1, <1>8, <3>1, <3>2, Zenon DEF TicksInv
    <2> QED BY <2>1, <2>2, Zenon
  <1>9. CASE Ticks!take_times_out("blocked", "try")
             \/ Ticks!take_times_out("blocked_forever", "take_forever")
    BY <1>0, <1>1, <1>9, Zenon DEF Ticks!take_times_out, Ticks!Goto, TicksInv
  <1>10. CASE Ticks!other_gives
    <2>1. CASE pc \in {"blocked", "blocked_forever"}
      BY <1>6, <1>10, <2>1, Zenon DEF Ticks!other_gives
    <2>2. CASE pc \notin {"blocked", "blocked_forever"}
      BY <1>0, <1>1, <1>10, <2>2, Zenon DEF Ticks!other_gives, TicksInv
    <2> QED BY <2>1, <2>2, Zenon
  <1>11. CASE Ticks!other_takes BY <1>0, <1>1, <1>11, Zenon DEF Ticks!other_takes, TicksInv
  <1> QED BY <1>4, <1>5, <1>7, <1>8, <1>9, <1>10, <1>11, Zenon

LEMMA TicksStep == TicksInv /\ [Ticks!Next]_freertos => TicksInv'
  <1> SUFFICES ASSUME TicksInv, [Ticks!Next]_freertos PROVE TicksInv'
    BY Zenon
  <1>1. CASE UNCHANGED freertos
    <2>1. /\ UNCHANGED <<time, pc, started, duration, deadline, native, wake_tick, remaining>>
          /\ UNCHANGED Ticks!now
      BY <1>1, SameTimeSameClock, Zenon DEF freertos
    <2> QED BY <2>1, Zenon DEF TicksInv
  <1>2. CASE Ticks!Next
    BY <1>2, OtherTickStepsKeep, WaitFiniteKeeps, CheckKeeps, DelayKeeps, DelayChunkKeeps,
       DelayWakesKeeps, TimePassesKeeps, Zenon DEF Ticks!Next, Ticks!Step
  <1> QED BY <1>1, <1>2, Zenon

(* A program with either backend steps its tick clock, or leaves it alone. *)
LEMMA MCStep ==
    ASSUME [MCNext]_<<backend, mock, freertos>>
    PROVE  [Ticks!Next]_freertos /\ [Next]_mock
  BY Zenon DEF MCNext

(* What a wait and a delay know of the time that has passed, for every     *)
(* rate, counter width and set of durations.                               *)
THEOREM TicksInvariant == MCSpec => []TicksInv
  <1>1. MCInit => TicksInv BY TicksInit, Zenon DEF MCInit
  <1>2. TicksInv /\ [MCNext]_<<backend, mock, freertos>> => TicksInv' BY MCStep, TicksStep, Zenon
  <1> QED BY <1>1, <1>2, PTL DEF MCSpec

(* FreeRtosClock::now never runs backwards: not when the counter wraps, not *)
(* when the duration saturates, and not where ticks are no whole number of *)
(* nanoseconds.                                                            *)
THEOREM TickClockIsMonotonic == MCSpec => ClockIsMonotonic
  <1>1. TicksInv /\ [Ticks!Next]_freertos => [Ticks!now' >= Ticks!now]_(Ticks!vars)
    <2> SUFFICES ASSUME TicksInv, Ticks!Next PROVE Ticks!now' >= Ticks!now
      BY Zenon DEF freertos, Ticks!vars
    <2>1. Ticks!now \in Nat BY ClockReadsTheTick, DurationBounds, Zenon DEF TicksInv
    <2>2. CASE UNCHANGED time BY <2>1, <2>2, SameTimeSameClock
    <2>3. CASE Ticks!time_passes BY <2>3, TimePassesKeeps, Zenon
    <2>4. UNCHANGED time \/ Ticks!time_passes
      BY Zenon DEF Ticks!Next, Ticks!Step, Ticks!wait_nowait, Ticks!blocking_refused,
             Ticks!wait_forever, Ticks!wait_finite, Ticks!delay, Ticks!take_at_once,
             Ticks!check_deadline, Ticks!take, Ticks!take_times_out, Ticks!delay_chunk,
             Ticks!delay_wakes, Ticks!delay_returns, Ticks!other_gives, Ticks!other_takes
    <2> QED BY <2>2, <2>3, <2>4, Zenon
  <1>2. TicksInv /\ [MCNext]_<<backend, mock, freertos>>
          => [Ticks!now' >= Ticks!now]_(Ticks!vars)
    BY <1>1, MCStep, Zenon
  <1> QED BY <1>2, TicksInvariant, PTL DEF MCSpec, ClockIsMonotonic, Ticks!ClockIsMonotonic

(* FreeRtosClock::delay never returns early, wait_once gives up less than  *)
(* one clock reading before its deadline and keeps that deadline when it   *)
(* waits again, and sys:: never gets the tick count that means "for ever". *)
THEOREM WaitsKeepTime == MCSpec => WaitsAreOnTime
  <1> DEFINE Early == Ticks!delay_returns => Ticks!Elapsed >= duration * Rate
             GivesUp == (Ticks!check_deadline /\ result' = "Unavailable" /\ pc' = "idle")
                        => Ticks!Elapsed + Ticks!ClockSlack > duration * Rate
             Budget == deadline # 0 => deadline * Rate <= started + duration * Rate
             Kernel == pc \in {"blocked", "delayed"}
                       => native # Ticks!Sentinel
                          /\ native <= Ticks!duration_to_ticks_ceil(duration) + 1
  <1>1. TicksInv => Budget /\ Kernel BY Zenon DEF TicksInv, R, Ceil
  <1>2. TicksInv => Early
    <2> SUFFICES ASSUME TicksInv, pc = "chunk", remaining = 0
                 PROVE  time - started >= duration * Rate
      BY Zenon DEF Ticks!delay_returns, Ticks!Elapsed
    <2>1. /\ duration \in Nat /\ time \in Nat /\ started \in Nat /\ N \in Nat /\ R \in Nat
          /\ Ceil(duration) \in Nat /\ duration * R <= Ceil(duration) * N
          /\ started + (Ceil(duration) - 0) * N <= time
      BY Constants, CeilBounds, Zenon DEF TicksInv
    <2>2. duration * R \in Nat /\ Ceil(duration) * N \in Nat /\ Ceil(duration) - 0 = Ceil(duration)
      BY <2>1
    <2>3. time - started >= duration * R BY <2>1, <2>2
    <2> QED BY <2>3, Zenon DEF R
  <1>3. TicksInv => GivesUp
    <2> SUFFICES ASSUME TicksInv, pc = "check", Ticks!Expired
                 PROVE  (time - started) + Ticks!ClockSlack > duration * Rate
      BY Zenon DEF Ticks!check_deadline, Ticks!Elapsed, Ticks!Goto
    <2> DEFINE D == Ticks!now
               T == Ticks!Tick
    <2>1. /\ duration \in Nat /\ time \in Nat /\ started \in Nat /\ deadline \in Nat
          /\ N \in Nat /\ R \in Nat /\ Slack \in Nat /\ D >= deadline
          /\ started + duration * R < deadline * R + (Slack + N)
      BY Constants, Zenon DEF TicksInv, Ticks!Expired
    <2>2. T \in Nat /\ D \in Nat /\ T * N <= time /\ D * R <= T * N
      BY <2>1, ClockReadsTheTick, DurationBounds, Zenon
    <2>3. Ticks!ClockSlack = N + Slack BY Zenon DEF Ticks!ClockSlack, Slack, N, R
    <2> HIDE DEF D, T, N, R, Slack
    <2>4. deadline * R <= D * R BY <2>1, <2>2, MultiplyLess, Zenon
    <2>5. /\ deadline * R \in Nat /\ D * R \in Nat /\ T * N \in Nat /\ duration * R \in Nat
      BY <2>1, <2>2
    <2>6. (time - started) + (N + Slack) > duration * R BY <2>1, <2>2, <2>4, <2>5
    <2> QED BY <2>3, <2>6, Zenon DEF R
  <1> HIDE DEF Early, GivesUp, Budget, Kernel
  <1>4. MCSpec => [][Early]_(Ticks!vars) /\ [][GivesUp]_(Ticks!vars) /\ []Budget /\ []Kernel
    BY <1>1, <1>2, <1>3, TicksInvariant, PTL
  <1> QED BY <1>4, Zenon DEF WaitsAreOnTime, Ticks!WaitsAreOnTime, Early, GivesUp, Budget, Kernel
-----------------------------------------------------------------------------
(* The timers of the mock backend.                                         *)
(*                                                                         *)
(* The keys handed out so far are all different, though ids start again    *)
(* with each epoch.                                                        *)
KeysAreFresh ==
    /\ \A s \in 1 .. created :
           /\ key[s][1] \in 1 .. epoch
           /\ key[s][1] = epoch => key[s][2] < next_id
    /\ \A r, s \in 1 .. created : key[r] = key[s] => r = s

Frame == [key : Nat \X Nat, callback : Nat]
Entry == [key : Nat \X Nat, state : TS!TimerStates, callback : Nat]

MockTypes ==
    /\ now \in TS!Duration /\ epoch \in Nat \ {0} /\ next_id \in Nat \ {0}
    /\ created \in 0 .. MaxTimer /\ held \subseteq 1 .. created
    /\ key \in [Serial -> Nat \X Nat]
    /\ DOMAIN timers \subseteq 1 .. created
    /\ \A s \in DOMAIN timers : timers[s] \in Entry
    /\ stack \in [Thread -> Seq(Frame)]

(* The callback of timer s is out: some call of advance_and_dispatch has   *)
(* it.                                                                     *)
Out(s) == \E t \in Thread : \E i \in 1 .. Len(stack[t]) : stack[t][i].callback = s

EntriesAreOwn ==
    \A s \in DOMAIN timers :
        /\ timers[s].key = key[s]
        /\ timers[s].callback \in {None, s}
        /\ timers[s].callback = None <=> Out(s)

FramesAreOwn ==
    \A t \in Thread :
        /\ Len(stack[t]) <= MaxDepth
        /\ \A i \in 1 .. Len(stack[t]) :
               \/ stack[t][i] = Looking
               \/ /\ stack[t][i].callback \in 1 .. created
                  /\ stack[t][i].key = key[stack[t][i].callback]

OneFrameEach ==
    \A t, u \in Thread : \A i \in 1 .. Len(stack[t]), j \in 1 .. Len(stack[u]) :
        stack[t][i].callback = stack[u][j].callback /\ stack[t][i].callback # None
            => t = u /\ i = j

MockInv ==
    MockTypes /\ KeysAreFresh /\ EntriesAreOwn /\ FramesAreOwn /\ OneFrameEach
        /\ QuietMeansCaughtUp

(* A larger multiple is larger by at least one period.                     *)
LEMMA NextMultiple ==
    ASSUME NEW p \in Nat \ {0}, NEW j \in Nat, NEW k \in Nat, p * j < p * k
    PROVE  p * (j + 1) <= p * k
  BY SMT

(* The deadlines of a periodic timer's grid that lie ahead.                *)
GridAhead(previous, period, moment) ==
    {d \in Nat : moment < d /\ \E k \in Nat : d = previous + period * k}

(* next_periodic_deadline is the first deadline of the grid after now,     *)
(* however many periods were missed, and Overflow exactly when that is not *)
(* a Duration: the division of the code against a minimum.                 *)
THEOREM NextDeadlineIsFirstAhead ==
    ASSUME NEW previous \in TS!Duration, NEW period \in TS!Period, NEW moment \in TS!Duration
    PROVE  \E first \in GridAhead(previous, period, moment) :
               /\ \A d \in GridAhead(previous, period, moment) : first <= d
               /\ TS!next_periodic_deadline(previous, period, moment) =
                      IF first <= MaxDuration THEN first ELSE Overflow
  <1>0. previous \in Nat /\ period \in Nat \ {0} /\ moment \in Nat /\ previous <= MaxDuration
    BY MockAssumption DEF TS!Duration, TS!Period
  <1>1. CASE previous > moment
    <2>1. previous = previous + period * 0 BY <1>0
    <2>2. previous \in GridAhead(previous, period, moment) BY <1>0, <1>1, <2>1, Zenon DEF GridAhead
    <2>3. \A d \in GridAhead(previous, period, moment) : previous <= d
      BY <1>0, SMT DEF GridAhead
    <2> QED BY <1>0, <1>1, <2>2, <2>3, Zenon DEF TS!next_periodic_deadline
  <1>2. CASE ~(previous > moment)
    <2> DEFINE missed == (moment - previous) \div period
               first == previous + period * (missed + 1)
    <2>1. moment - previous \in Nat BY <1>0, <1>2
    <2>2. /\ missed \in Nat /\ period * missed <= moment - previous
          /\ moment - previous < period * missed + period
      BY <1>0, <2>1, Division, Zenon
    <2>3. TS!next_periodic_deadline(previous, period, moment) =
              IF first <= MaxDuration THEN first ELSE Overflow
      BY <1>2, Zenon DEF TS!next_periodic_deadline, TS!checked_add, TS!missed_periods
    <2> HIDE DEF missed
    <2>4. period * (missed + 1) = period * missed + period /\ period * missed \in Nat
      BY <1>0, <2>2
    <2>5. first \in Nat /\ moment < first /\ previous + period * missed <= moment
      BY <1>0, <2>1, <2>2, <2>4
    <2>6. first \in GridAhead(previous, period, moment)
      BY <2>2, <2>5 DEF GridAhead
    <2>7. ASSUME NEW d \in GridAhead(previous, period, moment)
          PROVE  first <= d
      <3>1. PICK k \in Nat : d = previous + period * k BY Zenon DEF GridAhead
      <3>2. period * missed < period * k
        <4>1. period * k \in Nat /\ moment < d BY <1>0, <3>1 DEF GridAhead
        <4> QED BY <1>0, <2>4, <2>5, <3>1, <4>1
      <3>3. period * (missed + 1) <= period * k BY <1>0, <2>2, <3>2, NextMultiple, Zenon
      <3>4. period * k \in Nat BY <1>0, <3>1
      <3> QED BY <1>0, <2>4, <3>1, <3>3, <3>4
    <2> QED BY <2>3, <2>6, <2>7, Zenon
  <1> QED BY <1>1, <1>2, Zenon

(* An expiry leaves a well-formed timer that is not due again at once:     *)
(* advance_on_expiry merges the periods that were missed into one          *)
(* callback, and a one-shot timer is stopped by it.                        *)
THEOREM ExpiryDisarmsOrMovesAhead ==
    ASSUME NEW state \in TS!TimerStates, NEW moment \in TS!Duration, TS!has_expired(state, moment)
    PROVE  LET after == TS!advance_on_expiry(state, moment)
           IN /\ after \in TS!TimerStates
              /\ ~TS!has_expired(after, moment)
              /\ state.mode = "OneShot" => after.deadline = NoDeadline
  <1> DEFINE next == TS!next_periodic_deadline(state.deadline, state.period, moment)
             deadline1 == TS!after_expiry(state, next)
  <1>1. /\ state.deadline \in TS!Duration /\ state.period \in TS!Period
        /\ state.mode \in {"OneShot", "Periodic"}
    BY Zenon DEF TS!has_expired, TS!TimerStates
  <1>2. next = Overflow \/ (next \in TS!Duration /\ moment < next)
    BY <1>1, NextDeadlineIsFirstAhead DEF GridAhead, TS!Duration
  <1> HIDE DEF next
  <1>3. /\ deadline1 = NoDeadline \/ (deadline1 \in TS!Duration /\ moment < deadline1)
        /\ state.mode = "OneShot" => deadline1 = NoDeadline
    BY <1>1, <1>2, Zenon DEF TS!after_expiry
  <1>4. TS!advance_on_expiry(state, moment) = [state EXCEPT !.deadline = deadline1]
    BY Zenon DEF TS!advance_on_expiry, next
  <1> HIDE DEF deadline1
  <1>5. /\ [state EXCEPT !.deadline = deadline1] \in TS!TimerStates
        /\ [state EXCEPT !.deadline = deadline1].deadline = deadline1
    BY <1>3, Zenon DEF TS!TimerStates
  <1> QED BY <1>3, <1>4, <1>5, MockAssumption DEF TS!has_expired, TS!Duration

(* The operations of a handle keep a well-formed timer, and none of them   *)
(* makes it overdue.                                                       *)
Overdue(state, moment) == state.deadline # NoDeadline /\ ~(state.deadline > moment)

LEMMA StartKeeps ==
    ASSUME NEW state \in TS!TimerStates, NEW moment \in TS!Duration
    PROVE  LET f == TS!start(state, moment)
           IN f \in TS!TimerStates /\ (Overdue(f, moment) => Overdue(state, moment))
  <1> USE MockAssumption DEF TS!TimerStates, TS!Duration, TS!Period, Overdue
  <1> DEFINE f == TS!start(state, moment)
  <1>1. CASE f = state BY <1>1, Zenon
  <1>2. CASE f # state
    <2>1. /\ moment + state.period <= MaxDuration
          /\ f = [state EXCEPT !.deadline = moment + state.period]
      BY <1>2, Zenon DEF TS!start, TS!checked_deadline, TS!checked_add
    <2>2. moment \in Nat /\ state.period \in Nat \ {0} OBVIOUS
    <2> QED BY <2>1, <2>2
  <1> QED BY <1>1, <1>2, Zenon

LEMMA StopKeeps ==
    ASSUME NEW state \in TS!TimerStates, NEW moment
    PROVE  TS!stop(state) \in TS!TimerStates /\ ~Overdue(TS!stop(state), moment)
  BY Zenon DEF TS!TimerStates, TS!stop, Overdue

LEMMA ChangePeriodKeeps ==
    ASSUME NEW state \in TS!TimerStates, NEW moment, NEW period \in Periods
    PROVE  LET f == TS!change_period(state, period)
           IN f \in TS!TimerStates /\ (Overdue(f, moment) => Overdue(state, moment))
  BY MockAssumption, Zenon DEF TS!TimerStates, TS!Period, TS!change_period, Overdue

LEMMA NewIsStopped ==
    ASSUME NEW period \in Periods, NEW mode \in {"OneShot", "Periodic"}
    PROVE  LET f == TS!new(period, mode)
           IN f \in TS!TimerStates /\ f.deadline = NoDeadline
  BY MockAssumption, Zenon DEF TS!TimerStates, TS!Period, TS!new


LEMMA MockInit == Init => MockInv
  <1> SUFFICES ASSUME Init PROVE MockInv
    BY Zenon
  <1>1. MockTypes
    <2>1. DOMAIN timers = {} BY Zenon DEF Init
    <2>2. <<>> \in Seq(Frame) OBVIOUS
    <2>3. <<0, 0>> \in Nat \X Nat BY Zenon
    <2> QED BY <2>1, <2>2, <2>3, MockAssumption DEF MockTypes, Init, NoKey, TS!Duration
  <1>2. KeysAreFresh BY DEF KeysAreFresh, Init
  <1>3. DOMAIN timers = {} /\ \A t \in Thread : stack[t] = <<>> BY Zenon DEF Init
  <1>4. EntriesAreOwn /\ QuietMeansCaughtUp BY <1>3, Zenon DEF EntriesAreOwn, QuietMeansCaughtUp
  <1>5. FramesAreOwn /\ OneFrameEach BY <1>3, MockAssumption DEF FramesAreOwn, OneFrameEach
  <1> QED BY <1>1, <1>2, <1>4, <1>5, Zenon DEF MockInv

(* Steps that create no timer and move no callback: entries may go, and    *)
(* the states of those that stay may change.                               *)
LEMMA EntriesChangeKeeps ==
    ASSUME MockInv, UNCHANGED <<now, created, key, stack>>,
           epoch' \in Nat \ {0}, next_id' \in Nat \ {0},
           \/ UNCHANGED <<epoch, next_id>>
           \/ epoch' > epoch,
           held' \subseteq held,
           DOMAIN timers' \subseteq DOMAIN timers,
           \A s \in DOMAIN timers' :
               /\ timers'[s] \in Entry
               /\ timers'[s].key = timers[s].key
               /\ timers'[s].callback = timers[s].callback
               /\ Overdue(timers'[s].state, now) => Overdue(timers[s].state, now)
    PROVE  MockInv'
  <1>1. MockTypes' BY Zenon DEF MockInv, MockTypes
  <1>2. KeysAreFresh' BY DEF MockInv, KeysAreFresh, MockTypes
  <1>3. \A s : Out(s)' <=> Out(s) BY Zenon DEF Out
  <1>4. EntriesAreOwn' BY <1>3, Zenon DEF MockInv, EntriesAreOwn
  <1>5. FramesAreOwn' BY Zenon DEF MockInv, FramesAreOwn
  <1>6. OneFrameEach' BY DEF MockInv, OneFrameEach
  <1>7. QuietMeansCaughtUp' BY Zenon DEF MockInv, QuietMeansCaughtUp, Overdue
  <1> QED BY <1>1, <1>2, <1>4, <1>5, <1>6, <1>7, Zenon DEF MockInv

LEMMA ResetKeeps ==
    ASSUME MockInv, NEW t \in Thread, reset_and_detach(t)
    PROVE  MockInv'
  <1>0. /\ now' = 0 /\ epoch' = epoch + 1 /\ next_id' = 1 /\ DOMAIN timers' = {}
        /\ UNCHANGED <<created, key, held, stack>>
    BY Zenon DEF reset_and_detach, Restrict, owners, NextEpoch
  <1>1. MockTypes' BY <1>0, MockAssumption DEF MockInv, MockTypes, TS!Duration
  <1>2. KeysAreFresh'
    <2>1. epoch \in Nat /\ \A s \in 1 .. created : key[s][1] \in 1 .. epoch
      BY Zenon DEF MockInv, MockTypes, KeysAreFresh
    <2>2. \A s \in 1 .. created : key[s][1] \in 1 .. epoch + 1 /\ key[s][1] # epoch + 1
      BY <2>1
    <2> QED BY <1>0, <2>2, Zenon DEF MockInv, KeysAreFresh
  <1>3. EntriesAreOwn' /\ QuietMeansCaughtUp' BY <1>0, Zenon DEF EntriesAreOwn, QuietMeansCaughtUp
  <1>4. FramesAreOwn' BY <1>0, Zenon DEF MockInv, FramesAreOwn
  <1>5. OneFrameEach' BY <1>0 DEF MockInv, OneFrameEach
  <1> QED BY <1>1, <1>2, <1>3, <1>4, <1>5, Zenon DEF MockInv

LEMMA RegisterKeeps ==
    ASSUME MockInv, NEW t \in Thread, NEW period \in Periods,
           NEW mode \in {"OneShot", "Periodic"}, NEW handle, register_timer(t, period, mode, handle)
    PROVE  MockInv'
  <1> DEFINE c == created + 1
             st == TS!new(period, mode)
             e == [key |-> <<epoch, next_id>>, state |-> st, callback |-> c]
  <1>0. /\ created < MaxTimer /\ created' = c /\ next_id' = next_id + 1
        /\ key' = [key EXCEPT ![c] = <<epoch, next_id>>]
        /\ timers' = [s \in DOMAIN timers \cup {c} |-> IF s = c THEN e ELSE timers[s]]
        /\ held' \subseteq held \cup {c} /\ UNCHANGED <<now, epoch, stack>>
    BY Zenon DEF register_timer
  <1>1. /\ created \in Nat /\ MaxTimer \in Nat /\ c \in Serial /\ created < c
        /\ epoch \in Nat \ {0} /\ next_id \in Nat \ {0}
        /\ 1 .. c = (1 .. created) \cup {c} /\ c \notin 1 .. created /\ 1 .. c \subseteq Serial
    <2>1. /\ created \in Nat /\ MaxTimer \in Nat /\ epoch \in Nat \ {0} /\ next_id \in Nat \ {0}
      BY MockAssumption DEF MockInv, MockTypes
    <2>2. created < MaxTimer BY <1>0, Zenon
    <2> QED BY <2>1, <2>2 DEF Serial
  <1>2. st \in TS!TimerStates /\ st.deadline = NoDeadline
    BY NewIsStopped, Zenon
  <1> HIDE DEF c, st
  <1>3. e \in Entry /\ e.callback = c /\ e.key = <<epoch, next_id>> /\ e.state = st
    BY <1>1, <1>2 DEF Entry, Serial
  <1> HIDE DEF e
  <1>4. /\ DOMAIN timers' = DOMAIN timers \cup {c} /\ timers'[c] = e
        /\ DOMAIN timers \subseteq 1 .. created
        /\ \A s \in DOMAIN timers : timers'[s] = timers[s] /\ s # c
    BY <1>0, <1>1, Zenon DEF MockInv, MockTypes
  <1>5. /\ key \in [Serial -> Nat \X Nat] /\ key' \in [Serial -> Nat \X Nat]
        /\ key'[c] = <<epoch, next_id>>
        /\ \A s \in 1 .. created : key'[s] = key[s] /\ s # c
    BY <1>0, <1>1, Zenon DEF MockInv, MockTypes
  <1>6. MockTypes'
    <2>1. created' \in 0 .. MaxTimer /\ held' \subseteq 1 .. created' /\ next_id' \in Nat \ {0}
      BY <1>0, <1>1 DEF MockInv, MockTypes, Serial
    <2>2. DOMAIN timers' \subseteq 1 .. created' BY <1>0, <1>1, <1>4, Zenon
    <2>3. \A s \in DOMAIN timers' : timers'[s] \in Entry
      BY <1>3, <1>4, Zenon DEF MockInv, MockTypes
    <2> QED BY <1>0, <1>5, <2>1, <2>2, <2>3, Zenon DEF MockInv, MockTypes
  <1>7. KeysAreFresh'
    <2>1. \A s \in 1 .. created : key[s][1] \in 1 .. epoch /\ key[s][2] \in Nat
                                  /\ (key[s][1] = epoch => key[s][2] < next_id)
      BY <1>1, <1>5, Zenon DEF MockInv, KeysAreFresh
    <2>2. key'[c][1] = epoch /\ key'[c][2] = next_id BY <1>5
    <2>3. \A s \in 1 .. c : key'[s][1] \in 1 .. epoch
                            /\ (key'[s][1] = epoch => key'[s][2] < next_id + 1)
      BY <1>1, <1>5, <2>1, <2>2
    <2>4. \A s \in 1 .. created : key[s] # key'[c]
      BY <1>1, <2>1, <2>2
    <2>5. \A r, s \in 1 .. c : key'[r] = key'[s] => r = s
      BY <1>1, <1>5, <2>4, Zenon DEF MockInv, KeysAreFresh
    <2> QED BY <1>0, <2>3, <2>5, Zenon DEF KeysAreFresh
  <1>8. (\A s : Out(s)' <=> Out(s)) /\ ~Out(c)
    <2>1. c # None BY <1>1 DEF None, Serial
    <2> QED BY <1>0, <1>1, <2>1 DEF Out, MockInv, FramesAreOwn, Looking, None
  <1>9. EntriesAreOwn'
    <2>1. c # None BY <1>1 DEF None, Serial
    <2>2. ASSUME NEW s \in DOMAIN timers
          PROVE  /\ timers'[s].key = key'[s]
                 /\ timers'[s].callback \in {None, s}
                 /\ timers'[s].callback = None <=> Out(s)'
      BY <1>4, <1>5, <1>8 DEF MockInv, EntriesAreOwn
    <2>3. ASSUME NEW s, s = c
          PROVE  timers'[s].key = key'[s] /\ timers'[s].callback = s /\ s # None /\ ~Out(s)'
      <3>1. ~Out(s) BY <1>8, <2>3, Zenon
      <3> QED BY <1>3, <1>4, <1>5, <1>8, <2>1, <2>3, <3>1, Zenon
    <2>4. ASSUME NEW s \in DOMAIN timers'
          PROVE  /\ timers'[s].key = key'[s]
                 /\ timers'[s].callback \in {None, s}
                 /\ timers'[s].callback = None <=> Out(s)'
      <3>1. CASE s = c BY <2>3, <3>1, Zenon
      <3>2. CASE s \in DOMAIN timers BY <2>2, <3>2, Zenon
      <3> QED BY <1>4, <3>1, <3>2, Zenon
    <2> QED BY <2>4, Zenon DEF EntriesAreOwn, None
  <1>10. FramesAreOwn' BY <1>0, <1>1, <1>5, Zenon DEF MockInv, FramesAreOwn
  <1>11. OneFrameEach' BY <1>0, SMTT(120) DEF MockInv, OneFrameEach
  <1>12. QuietMeansCaughtUp' BY <1>0, <1>2, <1>3, <1>4, Zenon DEF MockInv, QuietMeansCaughtUp
  <1> QED BY <1>6, <1>7, <1>9, <1>10, <1>11, <1>12, Zenon DEF MockInv

LEMMA UpdateKeeps ==
    ASSUME MockInv, NEW t \in Thread, NEW s \in DOMAIN timers, NEW state \in TS!TimerStates,
           Overdue(state, now) => Overdue(timers[s].state, now),
           Update(t, s, state)
    PROVE  MockInv'
  <1>0. /\ timers' = [timers EXCEPT ![s].state = state]
        /\ UNCHANGED <<now, epoch, next_id, created, key, held, stack>>
    BY Zenon DEF Update, clock, owners
  <1>1. epoch \in Nat \ {0} /\ next_id \in Nat \ {0} /\ \A r \in DOMAIN timers : timers[r] \in Entry
    BY Zenon DEF MockInv, MockTypes
  <1> DEFINE e == [timers[s] EXCEPT !.state = state]
  <1>2. /\ e \in Entry /\ e.key = timers[s].key /\ e.callback = timers[s].callback
        /\ e.state = state
    BY <1>1, Zenon DEF Entry
  <1>3. /\ DOMAIN timers' = DOMAIN timers /\ timers'[s] = e
        /\ \A r \in DOMAIN timers \ {s} : timers'[r] = timers[r]
    BY <1>0, Zenon
  <1> HIDE DEF e
  <1> QED BY <1>0, <1>1, <1>2, <1>3, EntriesChangeKeeps, Zenon

LEMMA HandleStepsKeep ==
    ASSUME MockInv, NEW t \in Thread,
           \/ start_timer(t) \/ stop_timer(t)
           \/ \E period \in Periods : change_period(t, period)
    PROVE  MockInv'
  <1>1. now \in TS!Duration /\ \A s \in DOMAIN timers : timers[s].state \in TS!TimerStates
    BY Zenon DEF MockInv, MockTypes, Entry
  <1>2. \A k : Found(k) \subseteq DOMAIN timers BY Zenon DEF Found
  <1>3. CASE start_timer(t)
    <2>1. PICK s \in DOMAIN timers : Update(t, s, TS!start(timers[s].state, now))
      BY <1>2, <1>3, Zenon DEF start_timer
    <2>2. /\ TS!start(timers[s].state, now) \in TS!TimerStates
          /\ Overdue(TS!start(timers[s].state, now), now) => Overdue(timers[s].state, now)
      BY <1>1, StartKeeps, Zenon
    <2> QED BY <2>1, <2>2, UpdateKeeps, Zenon
  <1>4. CASE stop_timer(t)
    <2>1. PICK s \in DOMAIN timers : Update(t, s, TS!stop(timers[s].state))
      BY <1>2, <1>4, Zenon DEF stop_timer
    <2>2. /\ TS!stop(timers[s].state) \in TS!TimerStates
          /\ ~Overdue(TS!stop(timers[s].state), now)
      BY <1>1, StopKeeps, Zenon
    <2> QED BY <2>1, <2>2, UpdateKeeps, Zenon
  <1>5. CASE \E period \in Periods : change_period(t, period)
    <2>1. PICK period \in Periods, s \in DOMAIN timers :
              Update(t, s, TS!change_period(timers[s].state, period))
      BY <1>2, <1>5, Zenon DEF change_period
    <2>2. /\ TS!change_period(timers[s].state, period) \in TS!TimerStates
          /\ Overdue(TS!change_period(timers[s].state, period), now)
                => Overdue(timers[s].state, now)
      BY <1>1, ChangePeriodKeeps, Zenon
    <2> QED BY <2>1, <2>2, UpdateKeeps, Zenon
  <1> QED BY <1>3, <1>4, <1>5, Zenon

LEMMA DeregisterKeeps ==
    ASSUME MockInv, NEW t \in Thread, deregister_timer(t)
    PROVE  MockInv'
  <1>1. PICK S : timers' = Restrict(timers, DOMAIN timers \ S) BY Zenon DEF deregister_timer
  <1>2. UNCHANGED <<now, epoch, next_id, created, key, held, stack>>
    BY Zenon DEF deregister_timer, clock, owners
  <1>3. /\ DOMAIN timers' \subseteq DOMAIN timers
        /\ \A s \in DOMAIN timers' : timers'[s] = timers[s]
    BY <1>1, Zenon DEF Restrict
  <1>4. epoch \in Nat \ {0} /\ next_id \in Nat \ {0} /\ \A s \in DOMAIN timers : timers[s] \in Entry
    BY Zenon DEF MockInv, MockTypes
  <1> QED BY <1>2, <1>3, <1>4, EntriesChangeKeeps, Zenon

LEMMA OtherMockStepsKeep ==
    ASSUME MockInv, UNCHANGED <<now, epoch, next_id, timers, created, key, stack>>,
           held' \subseteq held
    PROVE  MockInv'
  <1>1. epoch \in Nat \ {0} /\ next_id \in Nat \ {0} /\ \A s \in DOMAIN timers : timers[s] \in Entry
    BY Zenon DEF MockInv, MockTypes
  <1> QED BY <1>1, EntriesChangeKeeps, Zenon

LEMMA LookingIsAFrame == Looking \in Frame /\ Looking.callback = None
  <1>1. <<0, 0>> \in Nat \X Nat BY Zenon
  <1> QED BY <1>1, Zenon DEF Looking, Frame, NoKey, None

LEMMA TopFrame ==
    ASSUME MockInv, NEW t \in Thread, stack[t] # <<>>
    PROVE  Len(stack[t]) \in 1 .. Len(stack[t]) /\ Top(t) \in Frame
  <1>1. stack[t] \in Seq(Frame) BY Zenon DEF MockInv, MockTypes
  <1>2. Len(stack[t]) \in 1 .. Len(stack[t]) BY <1>1
  <1> QED BY <1>1, <1>2 DEF Top

LEMMA SetTopIs ==
    ASSUME MockInv, NEW t \in Thread, stack[t] # <<>>, NEW f \in Frame, SetTop(t, f)
    PROVE  /\ stack' \in [Thread -> Seq(Frame)]
           /\ \A u \in Thread : Len(stack'[u]) = Len(stack[u])
           /\ \A u \in Thread : \A i \in 1 .. Len(stack[u]) :
                  stack'[u][i] = IF u = t /\ i = Len(stack[t]) THEN f ELSE stack[u][i]
  <1>1. stack \in [Thread -> Seq(Frame)] /\ stack[t] \in Seq(Frame) BY Zenon DEF MockInv, MockTypes
  <1> DEFINE n == Len(stack[t])
             q == [stack[t] EXCEPT ![n] = f]
  <1>2. n \in 1 .. Len(stack[t]) BY TopFrame, Zenon
  <1>3. q \in Seq(Frame) /\ Len(q) = Len(stack[t])
        /\ \A i \in 1 .. Len(stack[t]) : q[i] = IF i = n THEN f ELSE stack[t][i]
    BY <1>1, <1>2
  <1>4. stack' = [stack EXCEPT ![t] = q] BY <1>1, Zenon DEF SetTop
  <1> HIDE DEF q
  <1> QED BY <1>1, <1>3, <1>4, Zenon

LEMMA PushIs ==
    ASSUME MockInv, NEW t \in Thread, stack' = [stack EXCEPT ![t] = Append(@, Looking)]
    PROVE  /\ stack' \in [Thread -> Seq(Frame)]
           /\ \A u \in Thread : Len(stack'[u]) = IF u = t THEN Len(stack[u]) + 1 ELSE Len(stack[u])
           /\ \A u \in Thread : \A i \in 1 .. Len(stack'[u]) :
                  stack'[u][i] = IF i \in 1 .. Len(stack[u]) THEN stack[u][i] ELSE Looking
  <1>1. stack \in [Thread -> Seq(Frame)] /\ stack[t] \in Seq(Frame) BY Zenon DEF MockInv, MockTypes
  <1> DEFINE q == Append(stack[t], Looking)
  <1>2. q \in Seq(Frame) /\ Len(q) = Len(stack[t]) + 1
        /\ \A i \in 1 .. Len(q) : q[i] = IF i \in 1 .. Len(stack[t]) THEN stack[t][i] ELSE Looking
    BY <1>1, LookingIsAFrame
  <1>3. stack' = [stack EXCEPT ![t] = q] BY <1>1, Zenon
  <1> HIDE DEF q
  <1>4. \A u \in Thread \ {t} : stack'[u] = stack[u] BY <1>1, <1>3, Zenon
  <1>5. stack'[t] = q BY <1>1, <1>3, Zenon
  <1>6. \A u \in Thread : stack[u] \in Seq(Frame) BY <1>1, Zenon
  <1> QED BY <1>1, <1>2, <1>3, <1>4, <1>5, <1>6, Zenon

LEMMA Prefix ==
    ASSUME NEW S, NEW z \in Seq(S), NEW m \in Nat, m <= Len(z)
    PROVE  /\ SubSeq(z, 1, m) \in Seq(S) /\ Len(SubSeq(z, 1, m)) = m
           /\ \A i \in 1 .. m : SubSeq(z, 1, m)[i] = z[i]
  <1>1. Len(SubSeq(z, 1, m)) = m OBVIOUS
  <1>2. \A i \in 1 .. m : SubSeq(z, 1, m)[i] = z[i] OBVIOUS
  <1>3. SubSeq(z, 1, m) \in Seq(S) OBVIOUS
  <1> QED BY <1>1, <1>2, <1>3, Zenon

LEMMA PopIs ==
    ASSUME MockInv, NEW t \in Thread, stack[t] # <<>>,
           stack' = [stack EXCEPT ![t] = SubSeq(@, 1, Len(@) - 1)]
    PROVE  /\ stack' \in [Thread -> Seq(Frame)]
           /\ \A u \in Thread : Len(stack'[u]) = IF u = t THEN Len(stack[u]) - 1 ELSE Len(stack[u])
           /\ \A u \in Thread : \A i \in 1 .. Len(stack'[u]) : stack'[u][i] = stack[u][i]
  <1>1. stack \in [Thread -> Seq(Frame)] /\ stack[t] \in Seq(Frame) BY Zenon DEF MockInv, MockTypes
  <1> DEFINE q == SubSeq(stack[t], 1, Len(stack[t]) - 1)
  <1>2. Len(stack[t]) \in Nat \ {0} BY <1>1, TopFrame
  <1>3. q \in Seq(Frame) /\ Len(q) = Len(stack[t]) - 1
        /\ \A i \in 1 .. Len(q) : q[i] = stack[t][i]
    <2> DEFINE m == Len(stack[t]) - 1
    <2>1. m \in Nat /\ m <= Len(stack[t]) BY <1>2
    <2> HIDE DEF m
    <2>2. SubSeq(stack[t], 1, m) \in Seq(Frame) /\ Len(SubSeq(stack[t], 1, m)) = m
          /\ \A i \in 1 .. m : SubSeq(stack[t], 1, m)[i] = stack[t][i]
      BY <1>1, <2>1, Prefix, Zenon
    <2> QED BY <2>2, Zenon DEF m
  <1>4. stack' = [stack EXCEPT ![t] = q] BY <1>1, Zenon
  <1> HIDE DEF q
  <1> QED BY <1>1, <1>3, <1>4, Zenon

(* No callback goes out.                                                   *)
LEMMA SameCallbacksOut ==
    ASSUME MockInv,
           \A u \in Thread : \A i \in 1 .. Len(stack'[u]) :
               stack'[u][i].callback # None
                   => i \in 1 .. Len(stack[u]) /\ stack'[u][i].callback = stack[u][i].callback
    PROVE  OneFrameEach'
  <1> SUFFICES ASSUME NEW u \in Thread, NEW v \in Thread,
                      NEW i \in 1 .. Len(stack'[u]), NEW j \in 1 .. Len(stack'[v]),
                      stack'[u][i].callback = stack'[v][j].callback, stack'[u][i].callback # None
               PROVE  u = v /\ i = j
    BY Zenon DEF OneFrameEach
  <1>1. /\ i \in 1 .. Len(stack[u]) /\ stack'[u][i].callback = stack[u][i].callback
        /\ j \in 1 .. Len(stack[v]) /\ stack'[v][j].callback = stack[v][j].callback
    BY Zenon
  <1>2. stack[u][i].callback = stack[v][j].callback /\ stack[u][i].callback # None BY <1>1, Zenon
  <1>3. OneFrameEach BY Zenon DEF MockInv
  <1>4. \A k \in 1 .. Len(stack[u]), l \in 1 .. Len(stack[v]) :
            stack[u][k].callback = stack[v][l].callback /\ stack[u][k].callback # None
                => u = v /\ k = l
    BY <1>3, Zenon DEF OneFrameEach
  <1> QED BY <1>1, <1>2, <1>4, Zenon

LEMMA AdvanceKeeps ==
    ASSUME MockInv, NEW t \in Thread, NEW d \in Periods, advance_time(t, d)
    PROVE  MockInv'
  <1>0. /\ Len(stack[t]) < MaxDepth /\ now' = saturating_add(now, d)
        /\ stack' = [stack EXCEPT ![t] = Append(@, Looking)]
        /\ UNCHANGED <<epoch, next_id, timers, created, key, held>>
    BY Zenon DEF advance_time, owners
  <1>1. /\ stack' \in [Thread -> Seq(Frame)]
        /\ \A u \in Thread : Len(stack'[u]) = IF u = t THEN Len(stack[u]) + 1 ELSE Len(stack[u])
        /\ \A u \in Thread : \A i \in 1 .. Len(stack'[u]) :
               stack'[u][i] = IF i \in 1 .. Len(stack[u]) THEN stack[u][i] ELSE Looking
    BY <1>0, PushIs, Zenon
  <1>2. \A u \in Thread : Len(stack[u]) \in Nat /\ Len(stack'[u]) \in Nat
    <2>1. stack \in [Thread -> Seq(Frame)] BY Zenon DEF MockInv, MockTypes
    <2>2. stack' \in [Thread -> Seq(Frame)] BY <1>1, Zenon
    <2> QED BY <2>1, <2>2
  <1>3. \A u \in Thread : \A i \in 1 .. Len(stack[u]) :
            i \in 1 .. Len(stack'[u]) /\ stack'[u][i] = stack[u][i]
    <2> SUFFICES ASSUME NEW u \in Thread, NEW i \in 1 .. Len(stack[u])
                 PROVE  i \in 1 .. Len(stack'[u]) /\ stack'[u][i] = stack[u][i]
      BY Zenon
    <2>1. Len(stack'[u]) = Len(stack[u]) \/ Len(stack'[u]) = Len(stack[u]) + 1 BY <1>1, Zenon
    <2>2. i \in 1 .. Len(stack'[u]) BY <1>2, <2>1
    <2> QED BY <1>1, <2>2, Zenon
  <1>4. now' \in TS!Duration
    BY <1>0, MockAssumption DEF MockInv, MockTypes, TS!Duration, saturating_add
  <1>5. MockTypes' BY <1>0, <1>1, <1>4, Zenon DEF MockInv, MockTypes
  <1>6. KeysAreFresh' BY <1>0, Zenon DEF MockInv, KeysAreFresh
  <1>7. ASSUME NEW s \in Nat \ {0} PROVE Out(s)' <=> Out(s)
    <2>1. ASSUME NEW u \in Thread, NEW i \in 1 .. Len(stack'[u]), stack'[u][i].callback = s
          PROVE  i \in 1 .. Len(stack[u]) /\ stack[u][i].callback = s
      BY <1>1, <2>1, LookingIsAFrame, Zenon DEF None
    <2> QED BY <1>3, <2>1, ZenonT(60) DEF Out
  <1>8. EntriesAreOwn'
    <2> SUFFICES ASSUME NEW s \in DOMAIN timers
                 PROVE  /\ timers[s].key = key[s] /\ timers[s].callback \in {None, s}
                        /\ timers[s].callback = None <=> Out(s)'
      BY <1>0, Zenon DEF EntriesAreOwn
    <2>1. s \in Nat \ {0} BY DEF MockInv, MockTypes
    <2> QED BY <1>7, <2>1, Zenon DEF MockInv, EntriesAreOwn
  <1>9. FramesAreOwn'
    <2>0. UNCHANGED <<created, key>> BY <1>0, Zenon
    <2> SUFFICES ASSUME NEW u \in Thread
                 PROVE  /\ Len(stack'[u]) <= MaxDepth
                        /\ \A i \in 1 .. Len(stack'[u]) :
                               \/ stack'[u][i] = Looking
                               \/ /\ stack'[u][i].callback \in 1 .. created
                                  /\ stack'[u][i].key = key[stack'[u][i].callback]
      BY <2>0, Zenon DEF FramesAreOwn
    <2>1. /\ Len(stack[u]) <= MaxDepth
          /\ \A i \in 1 .. Len(stack[u]) :
                 \/ stack[u][i] = Looking
                 \/ /\ stack[u][i].callback \in 1 .. created
                    /\ stack[u][i].key = key[stack[u][i].callback]
      BY Zenon DEF MockInv, FramesAreOwn
    <2>2. MaxDepth \in Nat BY MockAssumption, Zenon
    <2>3. Len(stack'[u]) <= MaxDepth
      <3>1. CASE u = t
        <4>1. Len(stack'[u]) = Len(stack[u]) + 1 /\ Len(stack[u]) < MaxDepth
          BY <1>0, <1>1, <3>1, Zenon
        <4>2. Len(stack[u]) \in Nat BY <1>2, Zenon
        <4> QED BY <2>2, <4>1, <4>2
      <3>2. CASE u # t BY <1>1, <2>1, <3>2, Zenon
      <3> QED BY <3>1, <3>2, Zenon
    <2>4. ASSUME NEW i \in 1 .. Len(stack'[u])
          PROVE  \/ stack'[u][i] = Looking
                 \/ /\ stack'[u][i].callback \in 1 .. created
                    /\ stack'[u][i].key = key[stack'[u][i].callback]
      <3>1. CASE i \in 1 .. Len(stack[u]) BY <1>1, <2>1, <3>1, Zenon
      <3>2. CASE i \notin 1 .. Len(stack[u]) BY <1>1, <3>2, Zenon
      <3> QED BY <3>1, <3>2, Zenon
    <2> QED BY <2>3, <2>4, Zenon
  <1>10. OneFrameEach'
    <2>1. \A u \in Thread : \A i \in 1 .. Len(stack'[u]) :
              stack'[u][i].callback # None
                  => i \in 1 .. Len(stack[u]) /\ stack'[u][i].callback = stack[u][i].callback
      BY <1>1, LookingIsAFrame, Zenon
    <2> QED BY <2>1, SameCallbacksOut, Zenon
  <1>11. QuietMeansCaughtUp'
    <2>1. Len(stack'[t]) # 0 BY <1>1, <1>2, SMTT(30)
    <2>2. stack'[t] # <<>> BY <2>1, SMTT(30)
    <2> QED BY <2>2, Zenon DEF QuietMeansCaughtUp
  <1> QED BY <1>5, <1>6, <1>8, <1>9, <1>10, <1>11, Zenon DEF MockInv

(* A nested dispatch that ends leaves no overdue timer behind, but for     *)
(* those whose callback another call still has.                            *)
LEMMA DispatchEndsKeeps ==
    ASSUME MockInv, NEW t \in Thread, dispatch_ends(t)
    PROVE  MockInv'
  <1>0. /\ stack[t] # <<>> /\ Top(t) = Looking /\ Expired = {}
        /\ stack' = [stack EXCEPT ![t] = SubSeq(@, 1, Len(@) - 1)]
        /\ UNCHANGED <<now, epoch, next_id, timers, created, key, held>>
    BY Zenon DEF dispatch_ends, owners, clock
  <1>1. /\ stack' \in [Thread -> Seq(Frame)]
        /\ \A u \in Thread : Len(stack'[u]) = IF u = t THEN Len(stack[u]) - 1 ELSE Len(stack[u])
        /\ \A u \in Thread : \A i \in 1 .. Len(stack'[u]) : stack'[u][i] = stack[u][i]
    BY <1>0, PopIs, Zenon
  <1>2. \A u \in Thread : /\ Len(stack[u]) \in Nat /\ Len(stack'[u]) \in Nat
                          /\ Len(stack'[u]) <= Len(stack[u])
    BY <1>1, SMTT(30) DEF MockInv, MockTypes
  <1>3. \A u \in Thread : \A i \in 1 .. Len(stack[u]) :
            stack[u][i].callback # None => i \in 1 .. Len(stack'[u])
    <2> SUFFICES ASSUME NEW u \in Thread, NEW i \in 1 .. Len(stack[u]),
                        stack[u][i].callback # None
                 PROVE  i \in 1 .. Len(stack'[u])
      BY Zenon
    <2>1. CASE u # t BY <1>1, <2>1, Zenon
    <2>2. CASE u = t
      <3>1. stack[t][Len(stack[t])].callback = None BY <1>0, LookingIsAFrame, Zenon DEF Top
      <3> QED BY <1>1, <1>2, <2>2, <3>1, SMTT(30)
    <2> QED BY <2>1, <2>2, Zenon
  <1>4. MockTypes' BY <1>0, <1>1, Zenon DEF MockInv, MockTypes
  <1>5. KeysAreFresh' BY <1>0, Zenon DEF MockInv, KeysAreFresh
  <1>6. ASSUME NEW s \in Nat \ {0} PROVE Out(s)' <=> Out(s)
    <2>1. ASSUME NEW u \in Thread, NEW i \in 1 .. Len(stack[u]), stack[u][i].callback = s
          PROVE  i \in 1 .. Len(stack'[u]) /\ stack'[u][i].callback = s
      BY <1>1, <1>3, <2>1, Zenon DEF None
    <2>2. ASSUME NEW u \in Thread, NEW i \in 1 .. Len(stack'[u]), stack'[u][i].callback = s
          PROVE  i \in 1 .. Len(stack[u]) /\ stack[u][i].callback = s
      BY <1>1, <1>2, <2>2, SMTT(30)
    <2> QED BY <2>1, <2>2, Zenon DEF Out
  <1>7. ASSUME NEW s \in DOMAIN timers
        PROVE  /\ timers[s].key = key[s] /\ timers[s].callback \in {None, s}
               /\ timers[s].callback = None <=> Out(s)'
    <2>1. s \in Nat \ {0} BY DEF MockInv, MockTypes
    <2> QED BY <1>6, <2>1, Zenon DEF MockInv, EntriesAreOwn
  <1>8. EntriesAreOwn' BY <1>0, <1>7, Zenon DEF EntriesAreOwn
  <1>9. FramesAreOwn'
    <2>0. UNCHANGED <<created, key>> BY <1>0, Zenon
    <2> SUFFICES ASSUME NEW u \in Thread
                 PROVE  /\ Len(stack'[u]) <= MaxDepth
                        /\ \A i \in 1 .. Len(stack'[u]) :
                               \/ stack'[u][i] = Looking
                               \/ /\ stack'[u][i].callback \in 1 .. created
                                  /\ stack'[u][i].key = key[stack'[u][i].callback]
      BY <2>0, Zenon DEF FramesAreOwn
    <2>1. /\ Len(stack[u]) <= MaxDepth
          /\ \A i \in 1 .. Len(stack[u]) :
                 \/ stack[u][i] = Looking
                 \/ /\ stack[u][i].callback \in 1 .. created
                    /\ stack[u][i].key = key[stack[u][i].callback]
      BY Zenon DEF MockInv, FramesAreOwn
    <2>2. MaxDepth \in Nat BY MockAssumption, Zenon
    <2>3. /\ Len(stack[u]) \in Nat /\ Len(stack'[u]) \in Nat
          /\ Len(stack'[u]) <= Len(stack[u])
      BY <1>2, Zenon
    <2>4. Len(stack'[u]) <= MaxDepth BY <2>1, <2>2, <2>3
    <2>5. \A i \in 1 .. Len(stack'[u]) : i \in 1 .. Len(stack[u]) BY <2>3
    <2> QED BY <1>1, <2>1, <2>4, <2>5, Zenon
  <1>10. OneFrameEach'
    <2>1. \A u \in Thread : \A i \in 1 .. Len(stack'[u]) :
              i \in 1 .. Len(stack[u]) /\ stack'[u][i] = stack[u][i]
      BY <1>1, <1>2
    <2> QED BY <2>1, SameCallbacksOut, Zenon
  <1>11. QuietMeansCaughtUp'
    <2> SUFFICES ASSUME \A u \in Thread : stack'[u] = <<>>, NEW s \in DOMAIN timers,
                        ~(timers[s].state.deadline = NoDeadline \/ timers[s].state.deadline > now)
                 PROVE  FALSE
      BY <1>0, Zenon DEF QuietMeansCaughtUp
    <2>1. ~Out(s)' BY DEF Out
    <2>2. timers[s].callback # None BY <1>7, <2>1, Zenon
    <2>3. timers[s].state.deadline \in Nat /\ now \in Nat
      BY MockAssumption DEF MockInv, MockTypes, Entry, TS!TimerStates, TS!Duration
    <2>4. s \in Expired BY <2>2, <2>3 DEF Expired, Callable, Due
    <2> QED BY <1>0, <2>4, Zenon
  <1> QED BY <1>4, <1>5, <1>8, <1>9, <1>10, <1>11, Zenon DEF MockInv

(* A callback goes out of its entry into a call that had none.             *)
LEMMA TakeKeeps ==
    ASSUME MockInv, NEW t \in Thread, take_next_expired(t)
    PROVE  MockInv'
  <1>1. PICK s \in Expired :
            /\ timers' = [timers EXCEPT ![s].state = TS!advance_on_expiry(@, now),
                                        ![s].callback = None]
            /\ SetTop(t, [key |-> timers[s].key, callback |-> s])
    BY Zenon DEF take_next_expired
  <1>2. /\ stack[t] # <<>> /\ Top(t) = Looking
        /\ UNCHANGED <<now, epoch, next_id, created, key, held>>
    BY Zenon DEF take_next_expired, clock, owners
  <1> DEFINE st == TS!advance_on_expiry(timers[s].state, now)
             e == [timers[s] EXCEPT !.state = st, !.callback = None]
             f == [key |-> timers[s].key, callback |-> s]
             n == Len(stack[t])
  <1>3. /\ s \in DOMAIN timers /\ timers[s] \in Entry /\ now \in TS!Duration
        /\ s \in 1 .. created /\ created \in Nat
        /\ timers[s].key = key[s] /\ timers[s].callback = s
    BY DEF Expired, Callable, MockInv, MockTypes, EntriesAreOwn
  <1>4. s \in Nat \ {0} /\ s # None /\ ~Out(s)
    BY <1>3 DEF MockInv, EntriesAreOwn, None
  <1>5. st \in TS!TimerStates
    BY <1>3, ExpiryDisarmsOrMovesAhead, Zenon DEF Entry, TS!advance_on_expiry
  <1>6. e \in Entry /\ e.key = timers[s].key /\ e.callback = None
    BY <1>3, <1>5, Zenon DEF Entry, None
  <1>7. f \in Frame /\ f.key = key[s] /\ f.callback = s
    BY <1>3, <1>4, Zenon DEF Frame, Entry
  <1>8. /\ DOMAIN timers' = DOMAIN timers /\ timers'[s] = e
        /\ \A r \in DOMAIN timers \ {s} : timers'[r] = timers[r]
    BY <1>1, <1>3, Zenon
  <1> HIDE DEF e, st, f
  <1>9. /\ stack' \in [Thread -> Seq(Frame)]
        /\ \A u \in Thread : Len(stack'[u]) = Len(stack[u])
        /\ \A u \in Thread : \A i \in 1 .. Len(stack[u]) :
               stack'[u][i] = IF u = t /\ i = n THEN f ELSE stack[u][i]
    <2>1. SetTop(t, f) BY <1>1, Zenon DEF f
    <2> QED BY <1>2, <1>7, <2>1, SetTopIs, SMTT(30)
  <1>10. n \in 1 .. Len(stack[t]) /\ stack[t][n] = Looking /\ stack[t][n].callback = None
    BY <1>2, TopFrame, LookingIsAFrame, Zenon DEF Top
  <1>11. MockTypes' BY <1>2, <1>6, <1>8, <1>9, Zenon DEF MockInv, MockTypes
  <1>12. KeysAreFresh' BY <1>2, Zenon DEF MockInv, KeysAreFresh
  <1>13. ASSUME NEW r \in Nat \ {0} PROVE Out(r)' <=> (Out(r) \/ r = s)
    <2>1. ASSUME NEW u \in Thread, NEW i \in 1 .. Len(stack'[u]), stack'[u][i].callback = r
          PROVE  i \in 1 .. Len(stack[u]) /\ (stack[u][i].callback = r \/ r = s)
      BY <1>7, <1>9, <2>1, Zenon
    <2>2. ASSUME NEW u \in Thread, NEW i \in 1 .. Len(stack[u]), stack[u][i].callback = r
          PROVE  i \in 1 .. Len(stack'[u]) /\ stack'[u][i].callback = r
      <3>1. ~(u = t /\ i = n) BY <1>10, <2>2, Zenon DEF None
      <3> QED BY <1>9, <2>2, <3>1, Zenon
    <2>3. n \in 1 .. Len(stack'[t]) /\ stack'[t][n].callback = s BY <1>7, <1>9, <1>10, Zenon
    <2> QED BY <2>1, <2>2, <2>3, Zenon DEF Out
  <1>14. EntriesAreOwn'
    <2>1. ASSUME NEW r \in DOMAIN timers
          PROVE  /\ timers'[r].key = key[r] /\ timers'[r].callback \in {None, r}
                 /\ timers'[r].callback = None <=> Out(r)'
      <3>1. r \in Nat \ {0} /\ timers[r].key = key[r] /\ timers[r].callback \in {None, r}
            /\ (timers[r].callback = None <=> Out(r))
        BY SMTT(30) DEF MockInv, MockTypes, EntriesAreOwn
      <3>2. CASE r = s BY <1>3, <1>6, <1>8, <1>13, <3>1, <3>2, Zenon
      <3>3. CASE r # s BY <1>8, <1>13, <3>1, <3>3, Zenon
      <3> QED BY <3>2, <3>3, Zenon
    <2> QED BY <1>2, <1>8, <2>1, Zenon DEF EntriesAreOwn
  <1>15. FramesAreOwn'
    <2> SUFFICES ASSUME NEW u \in Thread
                 PROVE  /\ Len(stack'[u]) <= MaxDepth
                        /\ \A i \in 1 .. Len(stack'[u]) :
                               \/ stack'[u][i] = Looking
                               \/ /\ stack'[u][i].callback \in 1 .. created
                                  /\ stack'[u][i].key = key[stack'[u][i].callback]
      BY <1>2, Zenon DEF FramesAreOwn
    <2>1. FramesAreOwn BY Zenon DEF MockInv
    <2>2. ASSUME NEW i \in 1 .. Len(stack[u])
          PROVE  \/ stack'[u][i] = Looking
                 \/ /\ stack'[u][i].callback \in 1 .. created
                    /\ stack'[u][i].key = key[stack'[u][i].callback]
      <3>1. stack'[u][i] = f \/ stack'[u][i] = stack[u][i] BY <1>9, Zenon
      <3>2. CASE stack'[u][i] = f BY <1>3, <1>7, <3>2, Zenon
      <3>3. CASE stack'[u][i] = stack[u][i] BY <2>1, <3>3, Zenon DEF FramesAreOwn
      <3> QED BY <3>1, <3>2, <3>3, Zenon
    <2> QED BY <1>9, <2>1, <2>2, Zenon DEF FramesAreOwn
  <1>16. OneFrameEach'
    <2> SUFFICES ASSUME NEW u \in Thread, NEW v \in Thread,
                        NEW i \in 1 .. Len(stack'[u]), NEW j \in 1 .. Len(stack'[v]),
                        stack'[u][i].callback = stack'[v][j].callback, stack'[u][i].callback # None
                 PROVE  u = v /\ i = j
      BY DEF OneFrameEach
    <2>1. i \in 1 .. Len(stack[u]) /\ j \in 1 .. Len(stack[v]) BY <1>9, Zenon
    <2>2. stack[u][i].callback # s /\ stack[v][j].callback # s BY <1>4, <2>1, Zenon DEF Out
    <2>3. CASE u = t /\ i = n BY <1>7, <1>9, <2>1, <2>2, <2>3, Zenon
    <2>4. CASE v = t /\ j = n BY <1>7, <1>9, <2>1, <2>2, <2>4, Zenon
    <2>5. CASE ~(u = t /\ i = n) /\ ~(v = t /\ j = n)
      BY <1>9, <2>1, <2>5 DEF MockInv, OneFrameEach
    <2> QED BY <2>3, <2>4, <2>5, Zenon
  <1>17. QuietMeansCaughtUp'
    <2>1. stack'[t] # <<>> BY <1>9, <1>10
    <2> QED BY <2>1, Zenon DEF QuietMeansCaughtUp
  <1> QED BY <1>11, <1>12, <1>14, <1>15, <1>16, <1>17, Zenon DEF MockInv

(* A callback comes back to its own entry, if there still is one: no other *)
(* entry has its key, and no other call has it.                            *)
LEMMA RestoreKeeps ==
    ASSUME MockInv, NEW t \in Thread, restore_callback(t)
    PROVE  MockInv'
  <1> DEFINE frame == Top(t)
             c == frame.callback
             home == Restored(frame.key)
             n == Len(stack[t])
  <1>1. /\ stack[t] # <<>> /\ frame # Looking /\ SetTop(t, Looking)
        /\ timers' = [s \in DOMAIN timers |->
                         IF s \in home THEN [timers[s] EXCEPT !.callback = frame.callback]
                         ELSE timers[s]]
        /\ UNCHANGED <<now, epoch, next_id, created, key, held>>
    BY Zenon DEF restore_callback, Client, clock, owners
  <1>2. n \in 1 .. Len(stack[t]) /\ frame = stack[t][n] /\ frame \in Frame
    BY <1>1, TopFrame, Zenon DEF Top
  <1>3. c \in 1 .. created /\ frame.key = key[c] BY <1>1, <1>2, Zenon DEF MockInv, FramesAreOwn
  <1>4. created \in Nat /\ DOMAIN timers \subseteq 1 .. created
        /\ \A s \in DOMAIN timers : timers[s] \in Entry
    BY DEF MockInv, MockTypes
  <1>5. c \in Nat \ {0} /\ c # None BY <1>3, <1>4 DEF None
  <1>6. Out(c) BY <1>2, Zenon DEF Out
  <1>7. home = {c} \cap DOMAIN timers
    <2>1. \A s \in DOMAIN timers : timers[s].key = frame.key => s = c
      BY <1>3, <1>4 DEF MockInv, EntriesAreOwn, KeysAreFresh
    <2>2. c \in DOMAIN timers => timers[c].key = frame.key /\ timers[c].callback = None
      BY <1>3, <1>6, Zenon DEF MockInv, EntriesAreOwn
    <2> QED BY <2>1, <2>2, Zenon DEF Restored, Found
  <1> HIDE DEF home
  <1>8. /\ DOMAIN timers' = DOMAIN timers
        /\ \A s \in DOMAIN timers : s # c => timers'[s] = timers[s]
        /\ c \in DOMAIN timers => timers'[c] = [timers[c] EXCEPT !.callback = c]
    BY <1>1, <1>7, Zenon
  <1>9. \A s \in DOMAIN timers : /\ timers'[s] \in Entry /\ timers'[s].key = timers[s].key
                                 /\ timers'[s].state = timers[s].state
                                 /\ timers'[s].callback = IF s = c THEN c ELSE timers[s].callback
    <2> SUFFICES ASSUME NEW s \in DOMAIN timers
                 PROVE  /\ timers'[s] \in Entry /\ timers'[s].key = timers[s].key
                        /\ timers'[s].state = timers[s].state
                        /\ timers'[s].callback = IF s = c THEN c ELSE timers[s].callback
      BY Zenon
    <2>1. timers[s] \in Entry BY <1>4, Zenon
    <2>2. CASE s # c BY <1>8, <2>1, <2>2, Zenon
    <2>3. CASE s = c
      <3>1. timers'[s] = [timers[s] EXCEPT !.callback = c] BY <1>8, <2>3, Zenon
      <3> HIDE DEF c
      <3> QED BY <1>5, <2>1, <2>3, <3>1, Zenon DEF Entry
    <2> QED BY <2>2, <2>3, Zenon
  <1>10. /\ stack' \in [Thread -> Seq(Frame)]
         /\ \A u \in Thread : Len(stack'[u]) = Len(stack[u])
         /\ \A u \in Thread : \A i \in 1 .. Len(stack[u]) :
                stack'[u][i] = IF u = t /\ i = n THEN Looking ELSE stack[u][i]
    BY <1>1, LookingIsAFrame, SetTopIs
  <1>11. MockTypes' BY <1>1, <1>8, <1>9, <1>10, Zenon DEF MockInv, MockTypes
  <1>12. KeysAreFresh' BY <1>1, Zenon DEF MockInv, KeysAreFresh
  <1>13. \A u \in Thread : \A i \in 1 .. Len(stack[u]) :
             stack[u][i].callback = c => u = t /\ i = n
    BY <1>2, <1>5 DEF MockInv, OneFrameEach
  <1>14. ASSUME NEW r \in Nat \ {0} PROVE Out(r)' <=> (Out(r) /\ r # c)
    <2>1. ASSUME NEW u \in Thread, NEW i \in 1 .. Len(stack'[u]), stack'[u][i].callback = r
          PROVE  i \in 1 .. Len(stack[u]) /\ stack[u][i].callback = r /\ r # c
      BY <1>10, <1>13, <2>1, LookingIsAFrame DEF None
    <2>2. ASSUME NEW u \in Thread, NEW i \in 1 .. Len(stack[u]), stack[u][i].callback = r, r # c
          PROVE  i \in 1 .. Len(stack'[u]) /\ stack'[u][i].callback = r
      BY <1>2, <1>10, <2>2, Zenon
    <2> HIDE DEF c
    <2> QED BY <2>1, <2>2, Zenon DEF Out
  <1>15. EntriesAreOwn'
    <2>1. ASSUME NEW r \in DOMAIN timers
          PROVE  /\ timers'[r].key = key[r] /\ timers'[r].callback \in {None, r}
                 /\ timers'[r].callback = None <=> Out(r)'
      <3>1. r \in Nat \ {0} /\ timers[r].key = key[r] /\ timers[r].callback \in {None, r}
            /\ (timers[r].callback = None <=> Out(r))
        BY DEF MockInv, MockTypes, EntriesAreOwn
      <3>2. Out(r)' <=> (Out(r) /\ r # c) BY <1>14, <3>1, Zenon
      <3>3. timers'[r].key = key[r] /\ timers'[r].callback = IF r = c THEN c ELSE timers[r].callback
        BY <1>9, <3>1, Zenon
      <3> HIDE DEF c
      <3> QED BY <1>5, <3>1, <3>2, <3>3, Zenon
    <2> QED BY <1>1, <1>8, <2>1, Zenon DEF EntriesAreOwn
  <1>16. FramesAreOwn' BY <1>1, <1>10 DEF MockInv, FramesAreOwn
  <1>17. OneFrameEach'
    <2>1. \A u \in Thread : \A i \in 1 .. Len(stack'[u]) :
              stack'[u][i].callback # None
                  => i \in 1 .. Len(stack[u]) /\ stack'[u][i].callback = stack[u][i].callback
      BY <1>10, LookingIsAFrame, Zenon
    <2> QED BY <2>1, SameCallbacksOut, Zenon
  <1>18. QuietMeansCaughtUp'
    <2>1. stack'[t] # <<>> BY <1>2, <1>10
    <2> QED BY <2>1, Zenon DEF QuietMeansCaughtUp
  <1> QED BY <1>11, <1>12, <1>15, <1>16, <1>17, <1>18, Zenon DEF MockInv

LEMMA MockStep == MockInv /\ [Next]_mock => MockInv'
  <1> SUFFICES ASSUME MockInv, [Next]_mock PROVE MockInv'
    BY Zenon
  <1>1. CASE UNCHANGED mock BY <1>1, OtherMockStepsKeep, Zenon DEF mock
  <1>2. CASE Next
    <2>1. PICK t \in Thread : Step(t) BY <1>2, Zenon DEF Next
    <2>2. CASE begin_initialize(t) \/ begin_shutdown(t) \/ commit(t) \/ acquire_object(t)
               \/ release_lease(t)
      <3>1. UNCHANGED <<now, epoch, next_id, timers, created, key, held, stack>>
        BY <2>2, Zenon DEF begin_initialize, begin_shutdown, commit, acquire_object, release_lease,
                    clock, owners
      <3> QED BY <3>1, OtherMockStepsKeep, Zenon
    <2>3. CASE drop_handle(t)
      <3>1. UNCHANGED <<now, epoch, next_id, timers, created, key, stack>> /\ held' \subseteq held
        BY <2>3, Zenon DEF drop_handle, clock
      <3> QED BY <3>1, OtherMockStepsKeep, Zenon
    <2>4. CASE reset_runtime(t) BY <2>4, ResetKeeps, Zenon DEF reset_runtime
    <2>5. CASE \E period \in Periods, mode \in {"OneShot", "Periodic"},
                  handle \in {None} \cup (IF Captures THEN held ELSE {}) :
                   register_timer(t, period, mode, handle)
      BY <2>5, RegisterKeeps, Zenon
    <2>6. CASE \/ start_timer(t) \/ stop_timer(t)
               \/ \E period \in Periods : change_period(t, period)
      BY <2>6, HandleStepsKeep, Zenon
    <2>7. CASE deregister_timer(t) BY <2>7, DeregisterKeeps, Zenon
    <2>8. CASE \E d \in Periods : advance_time(t, d) BY <2>8, AdvanceKeeps, Zenon
    <2>9. CASE take_next_expired(t) BY <2>9, TakeKeeps, Zenon
    <2>10. CASE restore_callback(t) BY <2>10, RestoreKeeps, Zenon
    <2>11. CASE dispatch_ends(t) BY <2>11, DispatchEndsKeeps, Zenon
    <2> QED
      BY <2>1, <2>2, <2>3, <2>4, <2>5, <2>6, <2>7, <2>8, <2>9, <2>10, <2>11, Zenon DEF Step
  <1> QED BY <1>1, <1>2, Zenon

(* The invariant of the virtual clock and its timers, for any number of    *)
(* threads, timers, resets and nested dispatches.                          *)
THEOREM MockInvariant == MCSpec => []MockInv
  <1>1. MCInit => MockInv BY MockInit, Zenon DEF MCInit
  <1>2. MockInv /\ [MCNext]_<<backend, mock, freertos>> => MockInv' BY MCStep, MockStep, Zenon
  <1> QED BY <1>1, <1>2, PTL DEF MCSpec

(* A handle from before a reset finds its own timer or nothing, though     *)
(* reset_and_detach starts the ids again from 1.                           *)
THEOREM StaleHandlesFindNothing == MCSpec => []StaleHandlesAreInert
  <1>1. MockInv => StaleHandlesAreInert
    <2>1. ASSUME MockInv, NEW h \in held, NEW s \in DOMAIN timers, timers[s].key = key[h]
          PROVE  s = h
      <3>1. h \in 1 .. created /\ s \in 1 .. created /\ timers[s].key = key[s]
        BY <2>1, Zenon DEF MockInv, MockTypes, EntriesAreOwn
      <3> QED BY <2>1, <3>1, Zenon DEF MockInv, KeysAreFresh
    <2> QED BY <2>1, Zenon DEF StaleHandlesAreInert
  <1> QED BY <1>1, MockInvariant, PTL

(* take_next_expired and restore_callback move a callback between its      *)
(* entry and one dispatch call, and never lose or exchange it.             *)
THEOREM CallbacksComeBack == MCSpec => []NoCallbackIsLost
  <1>1. MockInv => NoCallbackIsLost
    <2> SUFFICES ASSUME MockInv, NEW s \in DOMAIN timers
                 PROVE  /\ timers[s].callback \in {None, s}
                        /\ timers[s].callback = None <=> InFlight(s) # {}
      BY Zenon DEF NoCallbackIsLost
    <2>1. \A u \in Thread : /\ stack[u] \in Seq(Frame) /\ Len(stack[u]) \in Nat
                            /\ DOMAIN stack[u] = 1 .. Len(stack[u]) /\ Len(stack[u]) <= MaxDepth
      BY DEF MockInv, MockTypes, FramesAreOwn
    <2>2. ASSUME NEW u \in Thread, NEW i \in 1 .. Len(stack[u]), stack[u][i].callback = s
          PROVE  <<u, i>> \in InFlight(s)
      <3>1. i \in 1 .. MaxDepth BY <2>1, MockAssumption
      <3> QED BY <2>1, <2>2, <3>1, Zenon DEF InFlight, Frames
    <2>3. ASSUME NEW f \in InFlight(s)
          PROVE  f[1] \in Thread /\ f[2] \in 1 .. Len(stack[f[1]]) /\ stack[f[1]][f[2]].callback = s
      BY <2>1, Zenon DEF InFlight, Frames
    <2>4. Out(s) <=> InFlight(s) # {} BY <2>2, <2>3, Zenon DEF Out
    <2> QED BY <2>4, Zenon DEF MockInv, EntriesAreOwn
  <1> QED BY <1>1, MockInvariant, PTL

(* When every advance_and_dispatch has returned, no timer is overdue.      *)
THEOREM QuietIsCaughtUp == MCSpec => []QuietMeansCaughtUp
  <1>1. MockInv => QuietMeansCaughtUp BY Zenon DEF MockInv
  <1> QED BY <1>1, MockInvariant, PTL

(* An expiry reloads a periodic timer for the first deadline of its own    *)
(* grid that lies ahead, however far the clock has jumped.                 *)
THEOREM RateIsFixed == MCSpec => FixedRate
  <1> DEFINE Reload ==
               (\E t \in Thread : take_next_expired(t)) =>
                   \E s \in Expired : /\ timers'[s].callback = None
                                     /\ Reloaded(timers[s].state, timers'[s].state.deadline)
  <1>1. MockInv => Reload
    <2> SUFFICES ASSUME MockInv, NEW t \in Thread, take_next_expired(t)
                 PROVE  \E s \in Expired :
                            /\ timers'[s].callback = None
                            /\ Reloaded(timers[s].state, timers'[s].state.deadline)
      BY Zenon
    <2>1. PICK s \in Expired :
              timers' = [timers EXCEPT ![s].state = TS!advance_on_expiry(@, now),
                                       ![s].callback = None]
      BY Zenon DEF take_next_expired
    <2> DEFINE st == timers[s].state
               next == TS!next_periodic_deadline(st.deadline, st.period, now)
               e == [timers[s] EXCEPT !.state = TS!advance_on_expiry(st, now), !.callback = None]
    <2>2. s \in DOMAIN timers /\ timers[s] \in Entry /\ now \in TS!Duration
          /\ st.deadline # NoDeadline /\ st.deadline <= now
      BY Zenon DEF Expired, Due, MockInv, MockTypes
    <2>3. st \in TS!TimerStates /\ st.deadline \in TS!Duration /\ st.period \in TS!Period
      BY <2>2, Zenon DEF Entry, TS!TimerStates
    <2>4. timers'[s] = e BY <2>1, <2>2, Zenon
    <2>5. e.callback = None /\ e.state = TS!advance_on_expiry(st, now) BY <2>2, Zenon DEF Entry
    <2>6. TS!advance_on_expiry(st, now).deadline = TS!after_expiry(st, next)
      BY <2>2, <2>3, Zenon DEF TS!advance_on_expiry, TS!has_expired, TS!TimerStates
    <2>7. PICK first \in GridAhead(st.deadline, st.period, now) :
              /\ \A d \in GridAhead(st.deadline, st.period, now) : first <= d
              /\ next = IF first <= MaxDuration THEN first ELSE Overflow
      BY <2>2, <2>3, NextDeadlineIsFirstAhead, Zenon
    <2> HIDE DEF st, next, e
    <2>8. Ahead(st) = {d \in GridAhead(st.deadline, st.period, now) : d <= MaxDuration}
      <3>0. st.deadline \in Nat /\ st.period \in Nat \ {0} /\ now \in Nat /\ MaxDuration \in Nat
        BY <2>2, <2>3, MockAssumption DEF TS!Duration, TS!Period
      <3>1. ASSUME NEW d \in Ahead(st)
            PROVE  d \in GridAhead(st.deadline, st.period, now) /\ d <= MaxDuration
        <4>1. PICK k \in 0 .. MaxDuration : d = st.deadline + k * st.period
          BY Zenon DEF Ahead
        <4>2. now < d /\ d <= MaxDuration BY Zenon DEF Ahead
        <4>3. k \in Nat /\ d \in Nat /\ d = st.deadline + st.period * k BY <3>0, <4>1
        <4> QED BY <4>2, <4>3, Zenon DEF GridAhead
      <3>2. ASSUME NEW d \in GridAhead(st.deadline, st.period, now), d <= MaxDuration
            PROVE  d \in Ahead(st)
        <4>1. PICK k \in Nat : d = st.deadline + st.period * k BY Zenon DEF GridAhead
        <4>2. now < d BY Zenon DEF GridAhead
        <4>3. k * st.period = st.period * k /\ k <= st.period * k /\ st.period * k \in Nat
          BY <3>0, <4>1
        <4>4. k \in 0 .. MaxDuration BY <3>0, <3>2, <4>1, <4>3
        <4> QED BY <3>2, <4>1, <4>2, <4>3, <4>4, Zenon DEF Ahead
      <3> QED BY <3>1, <3>2, Zenon
    <2>9. first \in Nat /\ \A d \in GridAhead(st.deadline, st.period, now) : d \in Nat
      BY Zenon DEF GridAhead
    <2>10. Reloaded(st, TS!after_expiry(st, next))
      <3>1. CASE st.mode = "OneShot" BY <3>1, Zenon DEF Reloaded, TS!after_expiry
      <3>2. CASE st.mode # "OneShot" /\ first <= MaxDuration
        <4>1. TS!after_expiry(st, next) = first
          BY <2>7, <2>9, <3>2, MockAssumption, Zenon DEF TS!after_expiry
        <4>2. first \in Ahead(st) /\ \A d \in Ahead(st) : first <= d BY <2>7, <2>8, <3>2, Zenon
        <4> QED BY <3>2, <4>1, <4>2, Zenon DEF Reloaded
      <3>3. CASE st.mode # "OneShot" /\ ~(first <= MaxDuration)
        <4>1. TS!after_expiry(st, next) = NoDeadline BY <2>7, <3>3, Zenon DEF TS!after_expiry
        <4>2. ASSUME NEW d \in Ahead(st) PROVE FALSE
          <5>1. d \in Nat /\ d <= MaxDuration /\ first <= d BY <2>7, <2>8, <2>9, Zenon
          <5> QED BY <2>9, <3>3, <5>1, MockAssumption
        <4> QED BY <4>1, <4>2, Zenon DEF Reloaded
      <3> QED BY <3>1, <3>2, <3>3, Zenon
    <2>11. timers'[s].callback = None /\ Reloaded(timers[s].state, timers'[s].state.deadline)
      BY <2>4, <2>5, <2>6, <2>10, Zenon DEF st
    <2> QED BY <2>11, Zenon
  <1> HIDE DEF Reload
  <1>2. MCSpec => [][Reload]_vars BY <1>1, MockInvariant, PTL
  <1> QED BY <1>2, Zenon DEF FixedRate, Reload
=============================================================================
