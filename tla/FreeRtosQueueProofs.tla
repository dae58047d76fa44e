------------------------ MODULE FreeRtosQueueProofs ------------------------
(***************************************************************************)
(* Machine-checked proofs about FreeRtosQueue, for any finite set of tasks *)
(* and any capacity: the wake-credit protocol neither loses nor invents a  *)
(* wakeup.                                                                 *)
(***************************************************************************)
EXTENDS FreeRtosQueue, FiniteSetTheorems, TLAPS

(* The shared conditions and updates are always expanded.                  *)
USE DEF HasRoom, NeedsSignal, PostCredit, ConfirmCredit, Unregister, Missing

(* The inductive invariant of the wake-credit protocol.                    *)
IInv ==
    /\ TypeOK
    /\ WaitersAreRegistered
    /\ CreditsAccountForTokens
    /\ NoLostWakeup
    /\ ClosedWakesEveryone
    /\ NoPanic

-----------------------------------------------------------------------------
(* Counting tasks: one task moves at a time, so each set of tasks at some  *)
(* points grows or shrinks by that task at most.                           *)
Elsewhere(t) == \A u \in Task : u # t => dir'[u] = dir[u] /\ pc'[u] = pc[u]

(* The callers at given points of the code are finitely many.              *)
LEMMA AtIsFinite ==
    ASSUME NEW d, NEW P
    PROVE  /\ IsFiniteSet(At(d, P))
           /\ Cardinality(At(d, P)) \in Nat
           /\ Cardinality(At(d, P)) <= Cardinality(Task)
<1>1. At(d, P) \in SUBSET Task
  BY DEF At
<1>2. IsFiniteSet(At(d, P)) /\ Cardinality(At(d, P)) <= Cardinality(Task)
  BY <1>1, FS_Subset, QueueAssumption
<1> QED BY <1>2, FS_CardinalityType

(* How the callers at some points change when one of them moves.           *)
LEMMA AtMoves ==
    ASSUME NEW t \in Task, NEW d, NEW P, Elsewhere(t)
    PROVE  Cardinality(At(d, P)') =
             (Cardinality(At(d, P)) - (IF dir[t] = d /\ pc[t] \in P THEN 1 ELSE 0))
                                    + (IF dir'[t] = d /\ pc'[t] \in P THEN 1 ELSE 0)
<1> DEFINE S == At(d, P)
           Others == S \ {t}
<1>1. IsFiniteSet(S) /\ Cardinality(S) \in Nat
  BY AtIsFinite
<1>2. /\ IsFiniteSet(Others)
      /\ Cardinality(Others) = Cardinality(S) - (IF dir[t] = d /\ pc[t] \in P THEN 1 ELSE 0)
  <2>1. t \in S <=> dir[t] = d /\ pc[t] \in P
    BY DEF At
  <2> QED BY <1>1, <2>1, FS_RemoveElement
<1>3. At(d, P)' = IF dir'[t] = d /\ pc'[t] \in P THEN Others \cup {t} ELSE Others
  BY DEF At, Elsewhere
<1>4. Cardinality(Others \cup {t}) = Cardinality(Others) + 1
  BY <1>2, FS_AddElement
<1>5. Cardinality(Others) \in Nat
  BY <1>2, FS_CardinalityType
<1> QED BY <1>1, <1>2, <1>3, <1>4, <1>5

(* The three counts the protocol depends on, and how a step changes them.  *)
R(d) == Cardinality(Registered(d))
A(d) == Cardinality(At(d, {"acquired"}))
Y(d) == Cardinality(Retrying(d))

One(b) == IF b THEN 1 ELSE 0

(* The same for their number.                                              *)
LEMMA StepCounts ==
    ASSUME NEW t \in Task, NEW d \in Dirs, Elsewhere(t)
    PROVE  /\ R(d)' = (R(d) - One(dir[t] = d /\ pc[t] \in {"wait", "acquired", "timed_out"}))
                            + One(dir'[t] = d /\ pc'[t] \in {"wait", "acquired", "timed_out"})
           /\ A(d)' = (A(d) - One(dir[t] = d /\ pc[t] \in {"acquired"}))
                            + One(dir'[t] = d /\ pc'[t] \in {"acquired"})
           /\ Y(d)' = (Y(d) - One(dir[t] = d /\ pc[t] \in {"retry"}))
                            + One(dir'[t] = d /\ pc'[t] \in {"retry"})
BY AtMoves DEF R, A, Y, Registered, Retrying, One

(* Disjoint groups of callers together are at most all callers.            *)
LEMMA CountBounds ==
    ASSUME NEW t \in Task, NEW d \in Dirs
    PROVE  /\ R(d) \in Nat /\ A(d) \in Nat /\ Y(d) \in Nat
           /\ Cardinality(Task) \in Nat
           /\ A(d) <= R(d) /\ R(d) <= Cardinality(Task)
           /\ dir[t] = d /\ pc[t] = "acquired" => A(d) >= 1
           /\ dir[t] = d /\ pc[t] \in {"wait", "timed_out"} => A(d) < R(d)
           /\ dir[t] = d /\ pc[t] = "retry" => Y(d) >= 1
<1>1. R(d) \in Nat /\ A(d) \in Nat /\ Y(d) \in Nat /\ R(d) <= Cardinality(Task)
  BY AtIsFinite DEF R, A, Y, Registered, Retrying
<1>2. Cardinality(Task) \in Nat
  BY QueueAssumption, FS_CardinalityType
<1>3. IsFiniteSet(Registered(d)) /\ At(d, {"acquired"}) \in SUBSET Registered(d)
  BY AtIsFinite, ZenonT(60) DEF Registered, At
<1>4. /\ A(d) <= R(d)
      /\ A(d) = R(d) => Registered(d) = At(d, {"acquired"})
  BY <1>3, FS_Subset DEF A, R
<1>5. ASSUME dir[t] = d, pc[t] \in {"wait", "timed_out"}
      PROVE  A(d) < R(d)
  <2>1. t \in Registered(d) /\ t \notin At(d, {"acquired"})
    BY <1>5 DEF Registered, At
  <2> QED BY <1>1, <1>4, <2>1
<1>6. ASSUME dir[t] = d, pc[t] = "acquired" PROVE A(d) >= 1
  <2>1. t \in At(d, {"acquired"})
    BY <1>6 DEF At
  <2>2. A(d) # 0
    BY <2>1, AtIsFinite, FS_EmptySet DEF A
  <2> QED BY <1>1, <2>2
<1>7. ASSUME dir[t] = d, pc[t] = "retry" PROVE Y(d) >= 1
  <2>1. t \in At(d, {"retry"})
    BY <1>7 DEF At
  <2>2. Y(d) # 0
    BY <2>1, AtIsFinite, FS_EmptySet DEF Y, Retrying
  <2> QED BY <1>1, <2>2
<1> QED BY <1>1, <1>2, <1>4, <1>5, <1>6, <1>7

(* The invariant of one direction, in numbers.                             *)
DirInv(d) ==
    /\ waiters[d] = R(d)
    /\ credits[d] = wake[d] + A(d)
    /\ credits[d] <= waiters[d]
    /\ waiters[d] > credits[d] /\ ~closed => Available(d) <= credits[d] + Y(d)
    /\ closed => credits[d] = waiters[d]

(* The invariant speaks of each direction separately.                      *)
LEMMA IInvByDirection ==
    TypeOK => (IInv <=> NoPanic /\ \A d \in Dirs : DirInv(d))
<1> SUFFICES ASSUME TypeOK PROVE IInv <=> NoPanic /\ \A d \in Dirs : DirInv(d)
  OBVIOUS
<1>1. credits = waiters <=> \A d \in Dirs : credits[d] = waiters[d]
  BY DEF TypeOK
<1> QED BY <1>1 DEF IInv, DirInv, WaitersAreRegistered, CreditsAccountForTokens,
                   NoLostWakeup, ClosedWakesEveryone, R, A, Y

(* The same after a step.                                                  *)
LEMMA IInvByDirectionPrimed ==
    ASSUME TypeOK', NoPanic', \A d \in Dirs : DirInv(d)'
    PROVE  IInv'
<1>1. (credits = waiters)' <=> \A d \in Dirs : credits'[d] = waiters'[d]
  BY DEF TypeOK
<1> QED BY <1>1 DEF IInv, DirInv, WaitersAreRegistered, CreditsAccountForTokens,
                   NoLostWakeup, ClosedWakesEveryone, R, A, Y

(* FreeRtosQueue::new starts without waiters, credits and tokens.          *)
LEMMA InitEstablishesIInv == Init => IInv
<1> SUFFICES ASSUME Init PROVE IInv
  OBVIOUS
<1>1. TypeOK /\ NoPanic
  <2>1. len \in 0 .. Capacity /\ wake \in [Dirs -> 0 .. WakeMax]
    BY QueueAssumption DEF Init
  <2>2. waiters \in [Dirs -> Nat] /\ credits \in [Dirs -> Nat]
    BY DEF Init
  <2>3. closed \in BOOLEAN
    BY DEF Init
  <2>4. /\ pc \in [Task -> Points] /\ dir \in [Task -> Dirs]
        /\ budget \in [Task -> Budgets \cup {"NoWait"}]
        /\ result \in Results /\ NoPanic
    BY DEF Init, Points, Dirs, Results, NoPanic
  <2> QED BY <2>1, <2>2, <2>3, <2>4 DEF TypeOK
<1>2. ASSUME NEW d \in Dirs PROVE DirInv(d)
  <2>1. Registered(d) = {} /\ At(d, {"acquired"}) = {} /\ Retrying(d) = {}
    BY DEF Init, Registered, Retrying, At
  <2>2. R(d) = 0 /\ A(d) = 0 /\ Y(d) = 0
    BY <2>1, FS_EmptySet DEF R, A, Y
  <2> QED BY <1>2, <2>2 DEF Init, DirInv
<1> QED BY <1>1, <1>2, IInvByDirection

-----------------------------------------------------------------------------
(* One lemma per action.                                                   *)
LEMMA CallPreserves ==
    ASSUME IInv, NEW t \in Task, NEW e \in Dirs, NEW b \in Budgets, Call(t, e, b)
    PROVE  IInv'
<1>1. TypeOK' /\ NoPanic'
  BY DEF IInv, Call, queueVars, TypeOK, NoPanic, Points
<1>2. /\ Elsewhere(t) /\ pc'[t] = "try" /\ dir'[t] = e /\ pc[t] = "idle"
      /\ UNCHANGED queueVars
  BY DEF IInv, Call, TypeOK, Elsewhere
<1>3. ASSUME NEW d \in Dirs PROVE DirInv(d)'
  <2>1. R(d)' = R(d) /\ A(d)' = A(d) /\ Y(d)' = Y(d)
    BY <1>2, StepCounts, CountBounds DEF One
  <2> QED BY <1>2, <2>1, IInvByDirection DEF IInv, DirInv, queueVars, Available
<1> QED BY <1>1, <1>3, IInvByDirectionPrimed

(* A call that returns without touching the queue, from a point where it   *)
(* is not registered; a woken task does so only when it finds the queue    *)
(* closed or nothing available.                                            *)
LEMMA ReturnPreserves ==
    ASSUME IInv, NEW t \in Task, NEW r \in Results, Return(t, r), UNCHANGED queueVars,
           \/ pc[t] \in {"idle", "try"}
           \/ pc[t] = "retry" /\ (closed \/ Available(dir[t]) = 0)
    PROVE  IInv'
<1>1. TypeOK' /\ NoPanic'
  BY DEF IInv, Return, queueVars, TypeOK, NoPanic, Points, Dirs
<1>2. Elsewhere(t) /\ pc'[t] = "idle" /\ dir'[t] = "sender"
  BY DEF IInv, Return, TypeOK, Elsewhere
<1>3. ASSUME NEW d \in Dirs PROVE DirInv(d)'
  <2>1. /\ R(d)' = R(d) /\ A(d)' = A(d)
        /\ Y(d)' = Y(d) \/ (dir[t] = d /\ pc[t] = "retry" /\ Y(d)' = Y(d) - 1)
    BY <1>2, StepCounts, CountBounds DEF One
  <2>2. Y(d)' \in Nat /\ credits[d] \in Nat
    <3>1. Y(d)' = Y(d) - 1 => Y(d) >= 1 \/ Y(d)' = Y(d)
      BY <2>1, CountBounds
    <3> QED BY <2>1, <3>1, CountBounds DEF IInv, TypeOK
  <2>3. DirInv(d)
    BY IInvByDirection DEF IInv
  <2> QED BY <2>1, <2>2, <2>3 DEF DirInv, queueVars, Available
<1> QED BY <1>1, <1>3, IInvByDirectionPrimed

(* A caller registers only when it would block, under the lock.            *)
LEMMA RegisterPreserves ==
    ASSUME IInv, NEW t \in Task, NEW e \in Dirs, register(t, e)
    PROVE  IInv'
<1> USE DEF register, WouldBlock, AtTop, Goto
<1>1. TypeOK' /\ NoPanic'
  BY DEF IInv, TypeOK, NoPanic, Points
<1>2. Elsewhere(t) /\ pc'[t] = "wait" /\ dir'[t] = e /\ dir[t] = e /\ pc[t] \in {"try", "retry"}
  BY DEF IInv, TypeOK, Elsewhere
<1>3. ASSUME NEW d \in Dirs PROVE DirInv(d)'
  <2>1. /\ A(d)' = A(d)
        /\ d = e => R(d)' = R(d) + 1 /\ Y(d)' = Y(d) - One(pc[t] \in {"retry"})
        /\ d # e => R(d)' = R(d) /\ Y(d)' = Y(d)
    BY <1>2, StepCounts, CountBounds DEF One
  <2>2. DirInv(d) /\ credits[d] \in Nat /\ waiters[d] \in Nat /\ wake[d] \in Nat
    BY IInvByDirection, QueueAssumption DEF IInv, TypeOK
  <2>3. CASE d = e
    <3>1. Y(d)' \in Nat /\ R(d) \in Nat /\ A(d) \in Nat
      BY <1>2, <2>1, <2>3, CountBounds DEF One
    <3>2. Available(d)' = 0
      BY <2>3 DEF Available
    <3>3. waiters'[d] = waiters[d] + 1 /\ UNCHANGED <<credits, wake, closed>> /\ ~closed
      BY <2>3 DEF IInv, TypeOK
    <3> QED BY <2>1, <2>2, <2>3, <3>1, <3>2, <3>3 DEF DirInv
  <2>4. CASE d # e
    <3>1. waiters'[d] = waiters[d] /\ UNCHANGED <<credits, wake, closed, len>>
      BY <2>4 DEF IInv, TypeOK
    <3> QED BY <2>1, <2>2, <2>4, <3>1 DEF DirInv, Available
  <2> QED BY <2>3, <2>4
<1> QED BY <1>1, <1>3, IInvByDirectionPrimed

(* A taken token keeps its credit until it is confirmed.                   *)
LEMMA TakeTokenPreserves ==
    ASSUME IInv, NEW t \in Task, take_token(t)
    PROVE  IInv'
<1> USE DEF take_token, Goto
<1>1. TypeOK' /\ NoPanic'
  BY QueueAssumption DEF IInv, TypeOK, NoPanic, Points
<1>2. Elsewhere(t) /\ pc'[t] = "acquired" /\ dir'[t] = dir[t] /\ pc[t] = "wait" /\ dir[t] \in Dirs
  BY DEF IInv, TypeOK, Elsewhere
<1>3. ASSUME NEW d \in Dirs PROVE DirInv(d)'
  <2>1. R(d)' = R(d) /\ Y(d)' = Y(d) /\ A(d)' = A(d) + One(d = dir[t])
    BY <1>2, StepCounts, CountBounds DEF One
  <2>2. DirInv(d) /\ credits[d] \in Nat /\ waiters[d] \in Nat /\ wake[d] \in Nat
    BY IInvByDirection, QueueAssumption DEF IInv, TypeOK
  <2>3. wake'[d] = wake[d] - One(d = dir[t]) /\ UNCHANGED <<credits, waiters, closed, len>>
    BY <1>2, <2>2 DEF IInv, TypeOK, One
  <2> QED BY <2>1, <2>2, <2>3, CountBounds DEF DirInv, Available, One
<1> QED BY <1>1, <1>3, IInvByDirectionPrimed

(* An expired wait stays registered until it is reconciled.                *)
LEMMA ExpirePreserves ==
    ASSUME IInv, NEW t \in Task, expire(t)
    PROVE  IInv'
<1> USE DEF expire, Goto, queueVars
<1>1. TypeOK' /\ NoPanic'
  BY DEF IInv, TypeOK, NoPanic, Points
<1>2. Elsewhere(t) /\ pc'[t] = "timed_out" /\ dir'[t] = dir[t] /\ pc[t] = "wait"
  BY DEF IInv, TypeOK, Elsewhere
<1>3. ASSUME NEW d \in Dirs PROVE DirInv(d)'
  <2>1. R(d)' = R(d) /\ Y(d)' = Y(d) /\ A(d)' = A(d)
    BY <1>2, StepCounts, CountBounds DEF One
  <2> QED BY <2>1, IInvByDirection DEF IInv, DirInv, Available
<1> QED BY <1>1, <1>3, IInvByDirectionPrimed

(* A taken token always has its credit, and its taker is registered.       *)
LEMMA ConfirmPreserves ==
    ASSUME IInv, NEW t \in Task, NEW e \in Dirs, confirm(t, e)
    PROVE  IInv'
<1>1. DirInv(e) /\ credits[e] \in Nat /\ waiters[e] \in Nat /\ wake[e] \in Nat
  BY IInvByDirection, QueueAssumption DEF IInv, TypeOK
<1>2. credits[e] >= 1 /\ waiters[e] >= 1
  BY <1>1, CountBounds DEF confirm, DirInv
<1>3. /\ credits' = [credits EXCEPT ![e] = @ - 1] /\ waiters' = [waiters EXCEPT ![e] = @ - 1]
      /\ pc' = [pc EXCEPT ![t] = "retry"]
      /\ UNCHANGED <<len, closed, wake, dir, budget, result>>
      /\ pc[t] = "acquired" /\ dir[t] = e
  BY <1>2 DEF confirm, Goto
<1>4. TypeOK' /\ NoPanic'
  BY <1>1, <1>2, <1>3 DEF IInv, TypeOK, NoPanic, Points
<1>5. Elsewhere(t) /\ pc'[t] = "retry" /\ dir'[t] = e
  BY <1>3 DEF IInv, TypeOK, Elsewhere
<1>6. ASSUME NEW d \in Dirs PROVE DirInv(d)'
  <2>1. R(d)' = R(d) - One(d = e) /\ Y(d)' = Y(d) + One(d = e) /\ A(d)' = A(d) - One(d = e)
    BY <1>3, <1>5, StepCounts, CountBounds DEF One
  <2>2. DirInv(d) /\ credits[d] \in Nat /\ waiters[d] \in Nat /\ wake[d] \in Nat
    BY IInvByDirection, QueueAssumption DEF IInv, TypeOK
  <2>3. credits'[d] = credits[d] - One(d = e) /\ waiters'[d] = waiters[d] - One(d = e)
    BY <1>3, <2>2 DEF IInv, TypeOK, One
  <2>4. Available(d) \in Int
    BY QueueAssumption DEF IInv, TypeOK, Available
  <2> QED BY <1>3, <2>1, <2>2, <2>3, <2>4, CountBounds DEF DirInv, Available, One
<1> QED BY <1>4, <1>6, IInvByDirectionPrimed

(* A token found after the timeout is confirmed like any other.            *)
LEMMA RaceTokenPreserves ==
    ASSUME IInv, NEW t \in Task, NEW e \in Dirs, race_token(t, e)
    PROVE  IInv'
<1>1. DirInv(e) /\ credits[e] \in Nat /\ waiters[e] \in Nat /\ wake[e] \in Nat
  BY IInvByDirection, QueueAssumption DEF IInv, TypeOK
<1>2. credits[e] >= 1 /\ waiters[e] >= 1 /\ wake[e] >= 1
  BY <1>1, CountBounds DEF race_token, DirInv
<1>3. /\ credits' = [credits EXCEPT ![e] = @ - 1] /\ waiters' = [waiters EXCEPT ![e] = @ - 1]
      /\ wake' = [wake EXCEPT ![e] = @ - 1]
      /\ pc' = [pc EXCEPT ![t] = "retry"]
      /\ UNCHANGED <<len, closed, dir, budget, result>>
      /\ pc[t] = "timed_out" /\ dir[t] = e
  BY <1>2 DEF race_token, Goto
<1>4. TypeOK' /\ NoPanic'
  BY <1>1, <1>2, <1>3, QueueAssumption DEF IInv, TypeOK, NoPanic, Points
<1>5. Elsewhere(t) /\ pc'[t] = "retry" /\ dir'[t] = e
  BY <1>3 DEF IInv, TypeOK, Elsewhere
<1>6. ASSUME NEW d \in Dirs PROVE DirInv(d)'
  <2>1. R(d)' = R(d) - One(d = e) /\ Y(d)' = Y(d) + One(d = e) /\ A(d)' = A(d)
    BY <1>3, <1>5, StepCounts, CountBounds DEF One
  <2>2. DirInv(d) /\ credits[d] \in Nat /\ waiters[d] \in Nat /\ wake[d] \in Nat
    BY IInvByDirection, QueueAssumption DEF IInv, TypeOK
  <2>3. /\ credits'[d] = credits[d] - One(d = e) /\ waiters'[d] = waiters[d] - One(d = e)
        /\ wake'[d] = wake[d] - One(d = e)
    BY <1>3, <2>2 DEF IInv, TypeOK, One
  <2>4. Available(d) \in Int
    BY QueueAssumption DEF IInv, TypeOK, Available
  <2> QED BY <1>3, <2>1, <2>2, <2>3, <2>4, CountBounds DEF DirInv, Available, One
<1> QED BY <1>4, <1>6, IInvByDirectionPrimed

(* A timeout without a token leaves a waiter without a credit behind it,   *)
(* so the credits still fit; after close this cannot happen at all.        *)
LEMMA GenuineTimeoutPreserves ==
    ASSUME IInv, NEW t \in Task, NEW e \in Dirs, genuine_timeout(t, e)
    PROVE  IInv'
<1>1. DirInv(e) /\ credits[e] \in Nat /\ waiters[e] \in Nat /\ wake[e] = 0
  BY IInvByDirection DEF IInv, TypeOK, genuine_timeout
<1>2. waiters[e] > credits[e]
  BY <1>1, CountBounds DEF genuine_timeout, DirInv
<1>3. PICK r \in Results : Return(t, r)
  BY <1>1, <1>2 DEF genuine_timeout, Results
<1>4. /\ waiters' = [waiters EXCEPT ![e] = @ - 1]
      /\ UNCHANGED <<len, closed, credits, wake>>
      /\ pc[t] = "timed_out" /\ dir[t] = e
  BY <1>1, <1>2 DEF genuine_timeout
<1>5. TypeOK' /\ NoPanic'
  BY <1>1, <1>2, <1>3, <1>4 DEF Return, IInv, TypeOK, NoPanic, Points, Dirs
<1>6. Elsewhere(t) /\ pc'[t] = "idle"
  BY <1>3 DEF Return, IInv, TypeOK, Elsewhere
<1>7. ASSUME NEW d \in Dirs PROVE DirInv(d)'
  <2>1. R(d)' = R(d) - One(d = e) /\ Y(d)' = Y(d) /\ A(d)' = A(d)
    BY <1>4, <1>6, StepCounts, CountBounds DEF One
  <2>2. DirInv(d) /\ credits[d] \in Nat /\ waiters[d] \in Nat
    BY IInvByDirection DEF IInv, TypeOK
  <2>3. waiters'[d] = waiters[d] - One(d = e)
    BY <1>4, <2>2 DEF IInv, TypeOK, One
  <2> QED BY <1>2, <1>4, <2>1, <2>2, <2>3, CountBounds DEF DirInv, Available, One
<1> QED BY <1>5, <1>7, IInvByDirectionPrimed

(* Neither a signal nor the close broadcast can overfill a semaphore.      *)
LEMMA GivesFit ==
    ASSUME IInv, NEW t \in Task, NEW d \in Dirs
    PROVE  ~SignalFails(d) /\ ~BroadcastFails(d)
<1>1. DirInv(d) /\ credits[d] \in Nat /\ waiters[d] \in Nat /\ wake[d] \in Nat
  BY IInvByDirection, QueueAssumption DEF IInv, TypeOK
<1> QED BY <1>1, CountBounds, QueueAssumption DEF SignalFails, BroadcastFails, DirInv

(* A successful send or recv by a task going in direction e: one unit      *)
(* less for e, one more for the opposite direction o, which is signalled.  *)
LEMMA TransferPreserves ==
    ASSUME IInv, NEW t \in Task, NEW e \in Dirs, NEW o \in Dirs, o # e,
           AtTop(t, e), len' \in 0 .. Capacity,
           Available(e)' = Available(e) - 1, Available(o)' = Available(o) + 1,
           signal_one(o), Return(t, "Ok"), UNCHANGED <<closed, waiters>>
    PROVE  IInv'
<1>1. \A d \in Dirs : /\ DirInv(d) /\ credits[d] \in Nat /\ waiters[d] \in Nat
                      /\ wake[d] \in Nat /\ Available(d) \in Int
  BY IInvByDirection, QueueAssumption DEF IInv, TypeOK, Available
<1>2. ~SignalFails(o)
  BY GivesFit
<1>3. /\ credits' = [credits EXCEPT ![o] = @ + One(waiters[o] > credits[o])]
      /\ wake' = [wake EXCEPT ![o] = @ + One(waiters[o] > credits[o])]
  BY <1>1 DEF IInv, TypeOK, signal_one, One
<1>4. TypeOK' /\ NoPanic'
  <2>1. wake' \in [Dirs -> 0 .. WakeMax] /\ credits' \in [Dirs -> Nat]
    BY <1>1, <1>2, <1>3, QueueAssumption DEF IInv, TypeOK, SignalFails, One
  <2> QED BY <2>1 DEF Return, IInv, TypeOK, NoPanic, Points, Dirs, Results
<1>5. Elsewhere(t) /\ pc'[t] = "idle" /\ pc[t] \in {"try", "retry"} /\ dir[t] = e
  BY DEF Return, AtTop, IInv, TypeOK, Elsewhere
<1>6. ASSUME NEW d \in Dirs PROVE DirInv(d)'
  <2>1. R(d)' = R(d) /\ A(d)' = A(d) /\ Y(d)' = Y(d) - One(d = e /\ pc[t] = "retry")
    BY <1>5, StepCounts, CountBounds DEF One
  <2>2. DirInv(d) /\ Available(d) \in Int
    BY <1>1
  <2>3. CASE d = o
    <3>1. /\ credits'[d] = credits[d] + One(waiters[d] > credits[d])
          /\ wake'[d] = wake[d] + One(waiters[d] > credits[d])
      BY <1>1, <1>3, <2>3 DEF IInv, TypeOK
    <3> QED BY <1>1, <2>1, <2>2, <2>3, <3>1, CountBounds DEF DirInv, One
  <2>4. CASE d = e
    <3>1. credits'[d] = credits[d] /\ wake'[d] = wake[d]
      BY <1>3, <2>4 DEF IInv, TypeOK
    <3> QED BY <1>1, <2>1, <2>2, <2>4, <3>1, CountBounds, SMTT(30) DEF DirInv, One
  <2> QED BY <2>3, <2>4 DEF Dirs
<1> QED BY <1>4, <1>6, IInvByDirectionPrimed

(* A message sent signals one receiver that has no credit.                 *)
LEMMA SendOkPreserves ==
    ASSUME IInv, NEW t \in Task, send_ok(t)
    PROVE  IInv'
<1>1. "receiver" \in Dirs /\ "sender" \in Dirs /\ "receiver" # "sender"
  BY DEF Dirs
<1>2. /\ AtTop(t, "sender") /\ signal_one("receiver") /\ Return(t, "Ok")
      /\ UNCHANGED <<closed, waiters>> /\ len' = len + 1 /\ len < Capacity
  BY <1>1, GivesFit DEF send_ok
<1>3. /\ len' \in 0 .. Capacity
      /\ Available("sender")' = Available("sender") - 1
      /\ Available("receiver")' = Available("receiver") + 1
  BY <1>2, QueueAssumption DEF IInv, TypeOK, Available
<1> QED BY <1>1, <1>2, <1>3, TransferPreserves

(* A message received signals one sender that has no credit.               *)
LEMMA RecvOkPreserves ==
    ASSUME IInv, NEW t \in Task, recv_ok(t)
    PROVE  IInv'
<1>1. "receiver" \in Dirs /\ "sender" \in Dirs /\ "receiver" # "sender"
  BY DEF Dirs
<1>2. /\ AtTop(t, "receiver") /\ signal_one("sender") /\ Return(t, "Ok")
      /\ UNCHANGED <<closed, waiters>> /\ len' = len - 1 /\ len > 0
  BY <1>1, GivesFit DEF recv_ok
<1>3. /\ len' \in 0 .. Capacity
      /\ Available("sender")' = Available("sender") + 1
      /\ Available("receiver")' = Available("receiver") - 1
  BY <1>2, QueueAssumption DEF IInv, TypeOK, Available
<1> QED BY <1>1, <1>2, <1>3, TransferPreserves

(* close posts the credits that are missing in both directions.            *)
LEMMA ClosePreserves ==
    ASSUME IInv, NEW t \in Task, close(t)
    PROVE  IInv'
<1>1. CASE closed
  BY <1>1, ReturnPreserves DEF close, Results
<1>2. CASE ~closed
  <2>1. \A d \in Dirs : /\ DirInv(d) /\ credits[d] \in Nat /\ waiters[d] \in Nat
                        /\ wake[d] \in Nat /\ ~BroadcastFails(d)
    BY GivesFit, IInvByDirection, QueueAssumption DEF IInv, TypeOK
  <2>2. /\ pc[t] = "idle" /\ closed' = TRUE
        /\ wake' = [d \in Dirs |-> wake[d] + (waiters[d] - credits[d])]
        /\ credits' = waiters /\ Return(t, "Ok") /\ UNCHANGED <<len, waiters>>
    BY <1>2, <2>1 DEF close
  <2>3. wake' \in [Dirs -> 0 .. WakeMax]
    BY <2>1, <2>2, QueueAssumption, SMTT(30) DEF BroadcastFails, DirInv
  <2>4. TypeOK' /\ NoPanic'
    BY <2>2, <2>3 DEF Return, IInv, TypeOK, NoPanic, Points, Dirs, Results
  <2>5. Elsewhere(t) /\ pc'[t] = "idle"
    BY <2>2 DEF Return, IInv, TypeOK, Elsewhere
  <2>6. ASSUME NEW d \in Dirs PROVE DirInv(d)'
    <3>1. R(d)' = R(d) /\ A(d)' = A(d)
      BY <2>2, <2>5, StepCounts, CountBounds, SMTT(120) DEF One
    <3>2. credits'[d] = waiters[d] /\ wake'[d] = wake[d] + (waiters[d] - credits[d])
      BY <2>2
    <3> QED BY <2>1, <2>2, <3>1, <3>2, CountBounds, SMTT(120) DEF DirInv
  <2> QED BY <2>4, <2>6, IInvByDirectionPrimed
<1> QED BY <1>1, <1>2

(* Every step of every task preserves the invariant.                       *)
LEMMA NextPreservesIInv == IInv /\ [Next]_vars => IInv'
<1> SUFFICES ASSUME IInv, [Next]_vars PROVE IInv'
  OBVIOUS
<1>0. "sender" \in Dirs /\ "receiver" \in Dirs
  BY DEF Dirs
<1>1. ASSUME NEW t \in Task,
             send_closed(t) \/ recv_closed(t) \/ Fail(t) \/ \E d \in Dirs : give_up(t, d)
      PROVE  IInv'
  BY <1>1, ReturnPreserves
     DEF send_closed, recv_closed, Fail, lock_state_fails, prepare_blocking_fails, give_up,
         WouldBlock, AtTop, Results
<1>2. ASSUME NEW t \in Task, NEW d \in Dirs,
             register(t, d) \/ confirm(t, d) \/ race_token(t, d) \/ genuine_timeout(t, d)
      PROVE  IInv'
  BY <1>2, RegisterPreserves, ConfirmPreserves, RaceTokenPreserves, GenuineTimeoutPreserves
<1>3. ASSUME NEW t \in Task, Send(t) \/ Recv(t) PROVE IInv'
  BY <1>0, <1>1, <1>2, <1>3, SendOkPreserves, RecvOkPreserves DEF Send, Recv
<1>4. ASSUME NEW t \in Task, take_token(t) \/ expire(t) \/ close(t) PROVE IInv'
  BY <1>4, TakeTokenPreserves, ExpirePreserves, ClosePreserves
<1>5. ASSUME NEW t \in Task, NEW d \in Dirs, NEW b \in Budgets, Call(t, d, b) PROVE IInv'
  BY <1>5, CallPreserves
<1>6. CASE UNCHANGED vars
  BY <1>6 DEF vars, IInv, TypeOK, WaitersAreRegistered, CreditsAccountForTokens, NoLostWakeup,
              ClosedWakesEveryone, NoPanic, Registered, Retrying, At, Available
<1> QED BY <1>1, <1>3, <1>4, <1>5, <1>6 DEF Next, Progress

(* The wake-credit protocol holds together in every behaviour.             *)
THEOREM QueueInvariant == Spec => []IInv
BY InitEstablishesIInv, NextPreservesIInv, PTL DEF Spec

(* Every posted token is accounted for by a credit, and no more tokens are *)
(* posted than there are waiters (ADR 0027).                               *)
THEOREM TokensAreAccountedFor == Spec => [](WaitersAreRegistered /\ CreditsAccountForTokens)
BY QueueInvariant, PTL DEF IInv

(* send and recv never leave a waiter asleep beside work it could do.      *)
THEOREM NoWakeupIsLost == Spec => []NoLostWakeup
BY QueueInvariant, PTL DEF IInv

(* close reaches every registered waiter.                                  *)
THEOREM CloseReachesEveryWaiter == Spec => []ClosedWakesEveryone
BY QueueInvariant, PTL DEF IInv

(* No expect and no fatal give failure of queue.rs is reachable.           *)
THEOREM QueueNeverPanics == Spec => []NoPanic
BY QueueInvariant, PTL DEF IInv

(* On a closed queue a call that returns reports Ok, QueueClosed, or that  *)
(* it could not lock: the Timeout of the reconciliation path is dead.      *)
LEMMA ClosedStepResult ==
    ASSUME IInv, NEW t \in Task, closed, pc[t] # "idle", pc'[t] = "idle", [Next]_vars
    PROVE  result' \in {"Ok", "QueueClosed", "Busy"}
<1>0. pc \in [Task -> Points] /\ "sender" \in Dirs /\ "receiver" \in Dirs
  BY DEF IInv, TypeOK, Dirs
<1>1. ASSUME NEW u \in Task, NEW r, Return(u, r) PROVE result' = r /\ (u # t => pc'[t] = pc[t])
  BY <1>0, <1>1 DEF Return
<1>2. ASSUME NEW u \in Task, NEW p, Goto(u, p), p # "idle" PROVE FALSE
  BY <1>0, <1>2 DEF Goto
<1>3. ASSUME NEW u \in Task, NEW d \in Dirs, genuine_timeout(u, d) PROVE FALSE
  <2>1. credits[d] = waiters[d] /\ DirInv(d) /\ wake[d] = 0 /\ dir[u] = d /\ pc[u] = "timed_out"
    BY <1>3, IInvByDirection DEF IInv, DirInv, genuine_timeout
  <2>2. A(d) < R(d)
    BY <2>1, CountBounds
  <2> QED BY <2>1, <2>2, CountBounds DEF DirInv
<1>4. ASSUME NEW u \in Task, NEW d \in Dirs,
             register(u, d) \/ give_up(u, d) \/ prepare_blocking_fails(u, d)
      PROVE  FALSE
  BY <1>4 DEF register, give_up, prepare_blocking_fails, WouldBlock
<1>5. ASSUME NEW u \in Task, NEW d \in Dirs, confirm(u, d) \/ race_token(u, d) PROVE FALSE
  BY <1>2, <1>5 DEF confirm, race_token, Panic
<1>6. ASSUME NEW u \in Task, send_closed(u) \/ recv_closed(u) \/ send_ok(u) \/ recv_ok(u)
      PROVE  result' \in {"Ok", "QueueClosed", "Busy"}
  BY <1>1, <1>2, <1>6 DEF send_closed, recv_closed, send_ok, recv_ok, Panic
<1>7. ASSUME NEW u \in Task, take_token(u) \/ expire(u) PROVE FALSE
  BY <1>2, <1>7 DEF take_token, expire
<1>8. ASSUME NEW u \in Task, close(u) \/ lock_state_fails(u)
      PROVE  result' \in {"Ok", "QueueClosed", "Busy"}
  BY <1>1, <1>2, <1>8 DEF close, lock_state_fails, Panic
<1>9. ASSUME NEW u \in Task, NEW d \in Dirs, NEW b \in Budgets, Call(u, d, b) PROVE FALSE
  BY <1>0, <1>9 DEF Call
<1>10. ~UNCHANGED vars
  BY DEF vars
<1> QED BY <1>0, <1>3, <1>4, <1>5, <1>6, <1>7, <1>8, <1>9, <1>10
        DEF Next, Progress, Send, Recv, Fail

(* When close and a timeout race, close wins (ADR 0027, section 6).        *)
THEOREM CloseBeatsTimeout == Spec => ClosedBeatsTimeout
<1>1. IInv /\ [Next]_vars
        => [\A t \in Task : closed /\ pc[t] # "idle" /\ pc'[t] = "idle"
                                => result' \in {"Ok", "QueueClosed", "Busy"}]_vars
  BY ClosedStepResult
<1> QED BY <1>1, QueueInvariant, PTL DEF Spec, ClosedBeatsTimeout
=============================================================================
