----------------------------- MODULE DemoProofs -----------------------------
(***************************************************************************)
(* Proofs about the pipeline demo, for any number of producers, consumers, *)
(* slots and packets, and about the two objects of a POSIX build through   *)
(* which its tasks meet: a mutex (around the stats) and a semaphore (that  *)
(* counts the tasks that are ready), for every maximum and initial count   *)
(* and every finite set of threads.                                        *)
(***************************************************************************)
EXTENDS PosixSync, PipelineDemo, FiniteSetTheorems, TLAPS

(* A guard belongs to the native owner, which has exactly one.             *)
MutexIInv ==
    /\ owner \in Thread \cup {NoThread}
    /\ guards \in [Thread -> 0 .. 1]
    /\ pc \in [Thread -> Mutex!Points]
    /\ \A t \in Thread : guards[t] = 1 <=> owner = t

LEMMA MutexInit == Mutex!Init => MutexIInv
  BY SyncAssumption DEF Mutex!Init, MutexIInv, Mutex!Points

LEMMA MutexStep == ASSUME MutexIInv, NEW t \in Thread, Mutex!Step(t) PROVE MutexIInv'
  <1> USE SyncAssumption DEF MutexIInv, Mutex!Points, Mutex!Free, Mutex!Goto
  <1>1. ASSUME owner = NoThread, Mutex!Acquire(t) PROVE MutexIInv'
    <2>1. guards[t] = 0 BY <1>1
    <2>2. guards' = [guards EXCEPT ![t] = 1] BY <1>1, <2>1 DEF Mutex!Acquire
    <2> QED BY <1>1, <2>2 DEF Mutex!Acquire
  <1>2. ASSUME NEW r, Mutex!Fail(t, r) PROVE MutexIInv' BY <1>2 DEF Mutex!Fail
  <1>3. ASSUME NEW p \in Mutex!Points, Mutex!Goto(t, p), UNCHANGED <<owner, guards>>
        PROVE  MutexIInv'
    BY <1>3
  <1>4. CASE Mutex!lock_nowait(t, "LockFailed") \/ Mutex!lock_nowait(t, "Timeout")
    BY <1>4, <1>1, <1>2 DEF Mutex!lock_nowait
  <1>5. CASE Mutex!lock_after(t) \/ Mutex!lock_forever(t)
    BY <1>5, <1>2, <1>3 DEF Mutex!lock_after, Mutex!lock_forever
  <1>6. CASE Mutex!TimedStep(t)
    BY <1>6, <1>1, <1>2, <1>3
       DEF Mutex!TimedStep, Mutex!timed_lock_try, Mutex!timed_lock_clock, Mutex!timed_lock_backoff
  <1>7. CASE Mutex!lock_granted(t) BY <1>7, <1>1 DEF Mutex!lock_granted
  <1>8. CASE Mutex!guard_drop(t)
    <2>1. guards[t] = 1 /\ owner = t BY <1>8 DEF Mutex!guard_drop
    <2>2. guards' = [guards EXCEPT ![t] = 0] BY <1>8, <2>1 DEF Mutex!guard_drop
    <2> QED BY <1>8, <2>1, <2>2 DEF Mutex!guard_drop
  <1>9. CASE Mutex!deadline_passes(t) BY <1>9 DEF Mutex!deadline_passes
  <1> QED BY <1>4, <1>5, <1>6, <1>7, <1>8, <1>9 DEF Mutex!Step
-----------------------------------------------------------------------------
(* A bound on the callers on their way back, kept when the bounded number  *)
(* and the callers change together by one.                                 *)
LEMMA CountKeepsUp ==
    ASSUME NEW W, NEW V, IsFiniteSet(W), IsFiniteSet(V), NEW a \in Int, NEW b \in Int,
           a <= Cardinality(W),
           \/ b <= a /\ W \subseteq V
           \/ b <= a - 1 /\ \E x : W \ {x} \subseteq V
           \/ b <= a + 1 /\ \E x \in V \ W : W \subseteq V
    PROVE  b <= Cardinality(V)
  <1>0. Cardinality(W) \in Nat /\ Cardinality(V) \in Nat BY FS_CardinalityType
  <1>1. CASE b <= a /\ W \subseteq V
    <2>1. Cardinality(W) <= Cardinality(V) BY <1>1, FS_Subset
    <2> QED BY <1>0, <1>1, <2>1
  <1>2. CASE b <= a - 1 /\ \E x : W \ {x} \subseteq V
    <2>1. PICK x : W \ {x} \subseteq V BY <1>2
    <2>2. Cardinality(W \ {x}) <= Cardinality(V) BY <2>1, FS_Subset
    <2>3. Cardinality(W \ {x}) = IF x \in W THEN Cardinality(W) - 1 ELSE Cardinality(W)
      BY FS_RemoveElement
    <2> QED BY <1>0, <1>2, <2>2, <2>3
  <1>3. CASE b <= a + 1 /\ \E x \in V \ W : W \subseteq V
    <2>1. PICK x \in V \ W : W \subseteq V BY <1>3
    <2>2. Cardinality(W \cup {x}) <= Cardinality(V) BY <2>1, FS_Subset
    <2>3. Cardinality(W \cup {x}) = Cardinality(W) + 1 BY <2>1, FS_AddElement
    <2> QED BY <1>0, <1>3, <2>2, <2>3
  <1> QED BY <1>1, <1>2, <1>3

SemaphoreTypes ==
    /\ count \in 0 .. MaxCount
    /\ timeout \in [Thread -> Semaphore!Timeouts]
    /\ point \in [Thread -> Semaphore!Condvar!Points]

SemaphoreIInv == SemaphoreTypes /\ Semaphore!NoLostPermit

Asleep == Semaphore!At("asleep")
Woken == Semaphore!At("woken")

USE DEF Semaphore!Timeouts, Semaphore!Condvar!Points

LEMMA SameCardinality == ASSUME NEW S PROVE Semaphore!Cardinality(S) = Cardinality(S)
  BY Zenon DEF Semaphore!Cardinality, Cardinality

LEMMA WokenIsFinite == IsFiniteSet(Woken) /\ IsFiniteSet(Woken')
  BY FS_Subset, SyncAssumption DEF Woken, Semaphore!At

LEMMA SignalWakesOne ==
    ASSUME SemaphoreTypes, NEW p \in Semaphore!WakeOne
    PROVE  \/ p = point /\ Asleep = {}
           \/ \E d \in Asleep : p = [point EXCEPT ![d] = "woken"]
  BY DEF SemaphoreTypes, Semaphore!WakeOne, Semaphore!Condvar!signal,
         Semaphore!Condvar!Reachable, Semaphore!Condvar!Unblock, Asleep, Semaphore!At

LEMMA SemaphoreInit == Semaphore!Init => SemaphoreIInv
  BY SyncAssumption
     DEF Semaphore!Init, SemaphoreIInv, SemaphoreTypes, Semaphore!NoLostPermit, Semaphore!At

(* A step puts nobody to sleep while there are permits, and the callers    *)
(* on their way back follow the count.                                     *)
KeepsUp ==
    \/ count' = 0
    \/ /\ Asleep' \subseteq Asleep
       /\ \/ Asleep' = {}
          \/ count' <= count /\ Woken \subseteq Woken'
          \/ count' <= count - 1 /\ \E x : Woken \ {x} \subseteq Woken'
          \/ count' <= count + 1 /\ \E x \in Woken' \ Woken : Woken \subseteq Woken'

LEMMA KeepsUpIsEnough ==
    ASSUME SemaphoreIInv, SemaphoreTypes', KeepsUp
    PROVE  SemaphoreIInv'
  <1> SUFFICES ASSUME Asleep' # {} PROVE count' <= Cardinality(Woken')
    <2>1. \A S : Semaphore!Cardinality(S) = Cardinality(S) BY SameCardinality
    <2> QED BY <2>1 DEF SemaphoreIInv, Semaphore!NoLostPermit, Asleep, Woken
  <1>1. count \in Int /\ count' \in Int BY SyncAssumption DEF SemaphoreIInv, SemaphoreTypes
  <1>2. IsFiniteSet(Woken) /\ IsFiniteSet(Woken') BY WokenIsFinite
  <1>3. CASE count' = 0 BY <1>2, <1>3, FS_CardinalityType
  <1>4. CASE count' # 0
    <2>1. Asleep # {} BY <1>4 DEF KeepsUp
    <2>2. count <= Cardinality(Woken)
      BY <2>1, SameCardinality DEF SemaphoreIInv, Semaphore!NoLostPermit, Asleep, Woken
    <2> QED BY <1>1, <1>2, <1>4, <2>2, CountKeepsUp DEF KeepsUp
  <1> QED BY <1>3, <1>4

LEMMA SemaphoreStep ==
    ASSUME SemaphoreIInv, NEW c \in Thread, Semaphore!Step(c)
    PROVE  SemaphoreIInv'
  <1>0. SemaphoreTypes BY DEF SemaphoreIInv
  <1> SUFFICES SemaphoreTypes' /\ KeepsUp
    BY KeepsUpIsEnough
  <1> USE SyncAssumption, <1>0 DEF SemaphoreTypes, Semaphore!Return, Semaphore!Blocks
  <1>1. ASSUME Asleep' = Asleep, Woken' = Woken, UNCHANGED count PROVE KeepsUp
    BY <1>1 DEF KeepsUp
  <1>2. ASSUME NEW t \in Semaphore!Timeouts, Semaphore!call_acquire(c, t)
        PROVE  SemaphoreTypes' /\ KeepsUp
    <2>1. Asleep' = Asleep /\ Woken' = Woken
      BY <1>2 DEF Semaphore!call_acquire, Asleep, Woken, Semaphore!At
    <2> QED BY <1>1, <1>2, <2>1 DEF Semaphore!call_acquire
  <1>3. CASE Semaphore!acquire_ok(c)
    <2>1. Asleep' \subseteq Asleep /\ Woken \ {c} \subseteq Woken'
      BY <1>3 DEF Semaphore!acquire_ok, Asleep, Woken, Semaphore!At
    <2> QED BY <1>3, <2>1 DEF Semaphore!acquire_ok, KeepsUp
  <1>4. CASE \/ Semaphore!acquire_fails(c) \/ Semaphore!acquire_wait(c)
             \/ Semaphore!deadline_overflow(c)
    BY <1>4
      DEF Semaphore!acquire_fails, Semaphore!acquire_wait, Semaphore!deadline_overflow, KeepsUp
  <1>5. CASE Semaphore!spurious_wakeup(c) \/ Semaphore!expire(c)
    <2>1. Asleep' \subseteq Asleep /\ Woken \subseteq Woken'
      BY <1>5 DEF Semaphore!spurious_wakeup, Semaphore!expire, Semaphore!Condvar!Unblock, Asleep,
                  Woken, Semaphore!At
    <2> QED BY <1>5, <2>1
               DEF Semaphore!spurious_wakeup, Semaphore!expire, Semaphore!Condvar!Unblock, KeepsUp
  <1>6. CASE Semaphore!timed_out(c) \/ Semaphore!release_overflows(c)
    <2>1. Asleep' = Asleep /\ Woken' = Woken
      BY <1>6 DEF Semaphore!timed_out, Semaphore!release_overflows, Asleep, Woken, Semaphore!At
    <2> QED BY <1>1, <1>6, <2>1 DEF Semaphore!timed_out, Semaphore!release_overflows
  <1>7. CASE Semaphore!release(c)
    <2>1. PICK p \in Semaphore!WakeOne : Semaphore!Return(c, "Ok", p) BY <1>7 DEF Semaphore!release
    <2>2. p \in [Thread -> Semaphore!Condvar!Points] BY SignalWakesOne
    <2>3. count' = count + 1 /\ count' \in 0 .. MaxCount
      BY <1>7 DEF Semaphore!release, Semaphore!Overflows
    <2>4. CASE p = point /\ Asleep = {}
      <3>1. Asleep' = {} BY <2>1, <2>4 DEF Asleep, Semaphore!At
      <3> QED BY <2>1, <2>2, <2>3, <3>1 DEF KeepsUp
    <2>5. ASSUME NEW d \in Asleep, p = [point EXCEPT ![d] = "woken"]
          PROVE  SemaphoreTypes' /\ KeepsUp
      <3>1. Asleep' \subseteq Asleep /\ Woken \subseteq Woken' /\ d \in Woken' \ Woken
        BY <1>7, <2>1, <2>5 DEF Semaphore!release, Asleep, Woken, Semaphore!At
      <3> QED BY <2>1, <2>2, <2>3, <3>1 DEF KeepsUp
    <2> QED BY <2>4, <2>5, SignalWakesOne
  <1> QED
    BY <1>2, <1>3, <1>4, <1>5, <1>6, <1>7 DEF Semaphore!Step, Semaphore!Proceed
-----------------------------------------------------------------------------
SyncIInv == MutexIInv /\ SemaphoreIInv

LEMMA SyncStep == SyncIInv /\ [SyncNext]_sync => SyncIInv'
  <1> SUFFICES ASSUME SyncIInv, [SyncNext]_sync PROVE SyncIInv'
    OBVIOUS
  <1>1. ASSUME UNCHANGED mutex PROVE MutexIInv' BY <1>1 DEF mutex, SyncIInv, MutexIInv
  <1>2. ASSUME UNCHANGED semaphore PROVE SemaphoreIInv'
    BY <1>2 DEF semaphore, SyncIInv, SemaphoreIInv, SemaphoreTypes, Semaphore!NoLostPermit,
                Semaphore!At
  <1> QED BY <1>1, <1>2, MutexStep, SemaphoreStep DEF SyncNext, OnMutex, OnSemaphore, sync, SyncIInv

(* The inductive invariant holds: guards and native owner agree, the count *)
(* keeps its bounds and every permit that came while somebody slept has    *)
(* its woken caller.                                                       *)
THEOREM SyncInvariant == SyncSpec => []SyncIInv
  <1>1. SyncInit => SyncIInv BY MutexInit, SemaphoreInit DEF SyncInit, SyncIInv
  <1> QED BY <1>1, SyncStep, PTL DEF SyncSpec

(* N releases wake N waiters: a permit never lies in the count with only   *)
(* sleepers to take it, although release signals one waiter and a caller   *)
(* from outside may take the permit first (release and acquire of the      *)
(* POSIX semaphore).                                                       *)
THEOREM SemaphoreLosesNoPermit == SyncSpec => []NoLostPermit
  <1>1. SyncIInv => NoLostPermit BY DEF SyncIInv, SemaphoreIInv, NoLostPermit
  <1> QED BY <1>1, SyncInvariant, PTL

(* Two threads never have guards of the mutex at once, and a thread never  *)
(* has two: whether a guard came from lock, a poll of timed_lock or a try  *)
(* (Mutex::lock and PosixMutexGuardImpl::drop).                            *)
THEOREM MutualExclusion ==
    SyncSpec => [](\A t, u \in Thread : /\ guards[t] <= 1
                                    /\ guards[t] > 0 /\ guards[u] > 0 => t = u)
  <1>1. SyncIInv => \A t, u \in Thread : /\ guards[t] <= 1
                                     /\ guards[t] > 0 /\ guards[u] > 0 => t = u
    BY DEF SyncIInv, MutexIInv
  <1> QED BY <1>1, SyncInvariant, PTL

(* The count of the semaphore stays within its maximum, through any        *)
(* interleaving of release and acquire.                                    *)
THEOREM CountIsBounded == SyncSpec => [](count \in 0 .. MaxCount)
  <1>1. SyncIInv => count \in 0 .. MaxCount BY DEF SyncIInv, SemaphoreIInv, SemaphoreTypes
  <1> QED BY <1>1, SyncInvariant, PTL
-----------------------------------------------------------------------------
(* The pipeline demo.                                                      *)

(* The workers at a point.                                                 *)
Here(q) == {w \in Worker : at[w] = q}

Back(w) == at[w] = "unborn" \/ Returned(w)

(* STOP is set before the queue is closed, and a consumer is refused only  *)
(* by a closed queue.                                                      *)
StopComesFirst ==
    /\ closed \/ stage = "close" => Stopped
    /\ \A w \in Worker : at[w] = "refused" => closed

(* What was put into the queue is counted, or about to be; and so is what  *)
(* was taken out.                                                          *)
BooksBalance ==
    stats.produced + Cardinality(Here("sent"))
        = stats.consumed + Cardinality(Here("received")) + len

PacketsAreCounted ==
    /\ stats.produced + stats.dropped = Cardinality(Packets)
    /\ \A p \in Producer : at[p] \in {"send", "sent"} => seq[p] < MaxSeq

(* The workers are spawned in their order, and joined in it: as long as    *)
(* nothing has failed, those joined so far are back.                       *)
JoinsInOrder ==
    /\ stage = "spawn" => tasks < TOTAL_READY_TASKS
    /\ \A w \in Worker : w > tasks => at[w] = "unborn"
    /\ stage \notin {"ready", "join", "report", "settle", "done"} => awaited = 0
    /\ stage = "join" => awaited <= tasks
    /\ stage = "join" /\ error = "none" => \A w \in 1 .. awaited : Returned(w)
    /\ stage = "report" => \A w \in Worker : Back(w)

(* The timer is stopped before the joins, and a runtime that was shut down *)
(* has nobody left.                                                        *)
EndsQuiet ==
    /\ stage \in {"join", "report", "settle", "done"} => ~armed
    /\ ~runtime => stage = "done" /\ Quiet

DemoIInv == /\ TypeOK /\ StopComesFirst /\ BooksBalance /\ PacketsAreCounted
            /\ JoinsInOrder /\ EndsQuiet /\ worker_error # "QueueRecv"

USE DEF WorkerPoints, Returned, Stopped, Goto

LEMMA DemoConstants ==
    /\ TOTAL_READY_TASKS \in Nat \ {0} /\ Monitor = TOTAL_READY_TASKS
    /\ Producer \subseteq Worker /\ Consumer \subseteq Worker /\ Monitor \in Worker
    /\ Producer \cap Consumer = {}
    /\ QUEUE_CAPACITY \in Nat \ {0} /\ MaxSeq \in Nat
    /\ IsFiniteSet(Worker) /\ IsFiniteSet(Producer) /\ IsFiniteSet(1 .. MaxSeq)
  <1>1. IsFiniteSet(Worker) /\ IsFiniteSet(Producer) /\ IsFiniteSet(1 .. MaxSeq)
    BY PipelineAssumption, FS_Interval DEF Worker, Producer, TOTAL_READY_TASKS
  <1> QED
    BY <1>1, PipelineAssumption DEF TOTAL_READY_TASKS, Worker, Producer, Consumer, Monitor

LEMMA DemoInit == Init => DemoIInv
  <1> SUFFICES ASSUME Init PROVE DemoIInv
    OBVIOUS
  <1>1. TypeOK
    <2>1. closed \in BOOLEAN /\ armed \in BOOLEAN /\ calling \in BOOLEAN /\ runtime \in BOOLEAN
      BY Zenon DEF Init
    <2>2. stats \in [{"produced", "consumed", "dropped"} -> Nat] BY DEF Init
    <2> QED BY <2>1, <2>2, DemoConstants DEF Init, TypeOK
  <1>2. Here("sent") = {} /\ Here("received") = {} BY DEF Init, Here
  <1>3. Packets = {} BY DEF Init, Packets
  <1>4. Cardinality({}) = 0 BY FS_EmptySet
  <1>5. BooksBalance BY <1>2, <1>4 DEF Init, BooksBalance
  <1>6. PacketsAreCounted BY <1>3, <1>4, DemoConstants DEF Init, PacketsAreCounted
  <1>7. StopComesFirst /\ JoinsInOrder /\ EndsQuiet
    BY DemoConstants DEF Init, StopComesFirst, JoinsInOrder, EndsQuiet, Worker
  <1> QED BY <1>1, <1>5, <1>6, <1>7 DEF Init, DemoIInv
-----------------------------------------------------------------------------
(* What every step of a worker leaves alone, and where it goes.            *)
WorkerMoves(w, b) ==
    /\ Goto(w, b)
    /\ at[w] \notin {"unborn", "gone"} /\ b # "unborn"
    /\ at[w] = "returned" => b = "gone"
    /\ b = "refused" => closed
    /\ w \in Producer /\ b \in {"send", "sent"} => seq[w] < MaxSeq
    /\ events \subseteq events' /\ UNCHANGED <<closed, heartbeat, supervisor>>

LEMMA WorkersMove ==
    ASSUME DemoIInv, NEW w \in Worker, works(w)
    PROVE  \E b \in WorkerPoints : WorkerMoves(w, b)
  <1> USE DEF WorkerMoves, signals, heartbeat, queue, DemoIInv
  <1>1. CASE signal_ready(w) BY <1>1 DEF signal_ready
  <1>2. CASE wait_for_start(w) BY <1>2 DEF wait_for_start
  <1>3. CASE stop_seen(w) BY <1>3 DEF stop_seen
  <1>4. CASE go_on(w, "send") BY <1>4 DEF go_on
  <1>5. CASE go_on(w, "recv") BY <1>5 DEF go_on
  <1>6. CASE head_start_over(w)
    <2>1. Goto(w, at[w]) BY <1>6 DEF head_start_over, TypeOK
    <2>2. WorkerMoves(w, at[w]) BY <1>6, <2>1 DEF head_start_over
    <2> QED BY <1>6, <2>2 DEF head_start_over
  <1>7. CASE send(w) BY <1>7 DEF send, PacketsAreCounted
  <1>8. CASE send_counted(w) \/ send_timeout(w)
    BY <1>8 DEF send_counted, send_timeout, Count
  <1>9. CASE send_closed(w) BY <1>9 DEF send_closed
  <1>10. CASE recv(w) \/ recv_counted(w) \/ recv_fails(w)
    BY <1>10 DEF recv, recv_counted, recv_fails
  <1>11. CASE recv_closed(w) BY <1>11 DEF recv_closed
  <1>12. CASE trampoline_exit(w) BY <1>12 DEF trampoline_exit
  <1> QED
    BY <1>1, <1>2, <1>3, <1>4, <1>5, <1>6, <1>7, <1>8, <1>9, <1>10, <1>11, <1>12
       DEF works, producer_task, consumer_task, monitor_task

(* A worker that moves is counted where it goes, and no more where it was. *)
LEMMA MovesCount ==
    ASSUME TypeOK, NEW w \in Worker, NEW b \in WorkerPoints, Goto(w, b), NEW q
    PROVE  /\ Cardinality(Here(q)) \in Nat
           /\ Cardinality(Here(q)') = Cardinality(Here(q)) + (IF b = q THEN 1 ELSE 0)
                                                       - (IF at[w] = q THEN 1 ELSE 0)
  <1>1. IsFiniteSet(Here(q)) /\ IsFiniteSet(Here(q) \ {w})
    BY DemoConstants, FS_Subset DEF Here
  <1>2. Cardinality(Here(q)) \in Nat /\ Cardinality(Here(q) \ {w}) \in Nat
    BY <1>1, FS_CardinalityType
  <1>3. Cardinality(Here(q) \ {w}) = Cardinality(Here(q)) - (IF at[w] = q THEN 1 ELSE 0)
    BY <1>1, <1>2, FS_RemoveElement DEF Here
  <1>4. CASE b = q
    <2>1. Here(q)' = (Here(q) \ {w}) \cup {w} BY <1>4 DEF Here, TypeOK
    <2>2. Cardinality((Here(q) \ {w}) \cup {w}) = Cardinality(Here(q) \ {w}) + 1
      BY <1>1, FS_AddElement
    <2> QED BY <1>2, <1>3, <1>4, <2>1, <2>2
  <1>5. CASE b # q
    <2>1. Here(q)' = Here(q) \ {w} BY <1>5 DEF Here, TypeOK
    <2> QED BY <1>2, <1>3, <1>5, <2>1
  <1> QED BY <1>4, <1>5

(* One more packet of a producer is one more packet.                       *)
LEMMA OneMorePacket ==
    ASSUME TypeOK, NEW p \in Producer, seq' = [seq EXCEPT ![p] = @ + 1]
    PROVE  Cardinality(Packets) \in Nat /\ Cardinality(Packets') = Cardinality(Packets) + 1
  <1> DEFINE x == <<p, seq[p] + 1>>
  <1>1. IsFiniteSet(Packets)
    <2>1. IsFiniteSet(Producer \X (1 .. MaxSeq)) BY DemoConstants, FS_Product
    <2>2. Packets \subseteq Producer \X (1 .. MaxSeq)
      <3> SUFFICES ASSUME NEW q \in Producer, NEW n \in 1 .. seq[q]
                   PROVE  <<q, n>> \in Producer \X (1 .. MaxSeq)
        BY DEF Packets
      <3>1. seq[q] \in 0 .. MaxSeq BY DEF TypeOK
      <3> QED BY <3>1, DemoConstants
    <2> QED BY <2>1, <2>2, FS_Subset
  <1>2. x \notin Packets
    <2>1. seq[p] \in Nat BY DemoConstants DEF TypeOK
    <2> QED BY <2>1 DEF Packets
  <1>3. Packets' = Packets \cup {x}
    <2>1. \A q \in Producer : seq[q] \in Nat BY DemoConstants DEF TypeOK
    <2>2. \A q \in Producer : seq'[q] = IF q = p THEN seq[p] + 1 ELSE seq[q] BY DEF TypeOK
    <2>3. ASSUME NEW y \in Packets' PROVE y \in Packets \cup {x}
      <3>1. PICK q \in Producer : y \in {q} \X (1 .. seq'[q]) BY <2>3 DEF Packets
      <3>2. PICK n \in 1 .. seq'[q] : y = <<q, n>> BY <3>1
      <3>3. CASE n \in 1 .. seq[q] BY <3>2, <3>3 DEF Packets
      <3>4. CASE n \notin 1 .. seq[q]
        <4>1. q = p /\ n = seq[p] + 1 BY <2>1, <2>2, <3>2, <3>4
        <4> QED BY <3>2, <4>1
      <3> QED BY <3>3, <3>4
    <2>4. ASSUME NEW q \in Producer, NEW n \in 1 .. seq[q] PROVE <<q, n>> \in Packets'
      <3>1. n \in 1 .. seq'[q] BY <2>1, <2>2
      <3> QED BY <3>1 DEF Packets
    <2>5. x \in Packets'
      <3>1. seq[p] + 1 \in 1 .. seq'[p] BY <2>1, <2>2
      <3> QED BY <3>1 DEF Packets
    <2> QED BY <2>3, <2>4, <2>5 DEF Packets
  <1>4. Cardinality(Packets) \in Nat BY <1>1, FS_CardinalityType
  <1>5. Cardinality(Packets \cup {x}) = Cardinality(Packets) + 1 BY <1>1, <1>2, FS_AddElement
  <1> QED BY <1>3, <1>4, <1>5
-----------------------------------------------------------------------------
LEMMA StatsType ==
    ASSUME TypeOK, NEW f \in {"produced", "consumed", "dropped"},
           stats' = [stats EXCEPT ![f] = @ + 1]
    PROVE  stats' \in [{"produced", "consumed", "dropped"} -> Nat]
  BY DEF TypeOK

LEMMA WorkerTypes ==
    ASSUME DemoIInv, NEW w \in Worker, works(w)
    PROVE  TypeOK'
  <1> USE DEF TypeOK
  <1>0. PICK b \in WorkerPoints : WorkerMoves(w, b) BY WorkersMove
  <1>1. at' \in [Worker -> WorkerPoints] BY <1>0 DEF WorkerMoves, DemoIInv
  <1>2. /\ closed' \in BOOLEAN /\ armed' \in BOOLEAN /\ calling' \in BOOLEAN /\ runtime' \in BOOLEAN
        /\ UNCHANGED <<tasks, stage, awaited, error>>
    BY <1>0, Zenon DEF WorkerMoves, DemoIInv, heartbeat, supervisor
  <1>3. /\ ready_sem' \in 0 .. TOTAL_READY_TASKS /\ events' \subseteq {"START", "GO", "STOP"}
        /\ worker_error' \in {"none", "ReadyRelease", "QueueSend", "QueueRecv"}
    <2>1. \/ signal_ready(w) \/ send_closed(w) \/ recv_closed(w) \/ head_start_over(w)
          \/ UNCHANGED signals
      BY Zenon
         DEF works, producer_task, consumer_task, monitor_task, signal_ready,
             wait_for_start, stop_seen, go_on, head_start_over, send, send_counted, send_timeout,
             send_closed, recv, recv_counted, recv_fails, recv_closed, trampoline_exit
    <2>2. CASE signal_ready(w)
      BY <2>2, DemoConstants DEF DemoIInv, signal_ready, record_worker_error
    <2>3. CASE send_closed(w) BY <2>3 DEF DemoIInv, send_closed, record_worker_error
    <2>4. CASE recv_closed(w) BY <2>4 DEF DemoIInv, recv_closed, record_worker_error
    <2>5. CASE head_start_over(w) BY <2>5 DEF DemoIInv, head_start_over
    <2>6. CASE UNCHANGED signals BY <2>6, Zenon DEF DemoIInv, signals
    <2> QED BY <2>1, <2>2, <2>3, <2>4, <2>5, <2>6, Zenon
  <1>4. len' \in 0 .. QUEUE_CAPACITY
    <2>1. send(w) \/ recv(w) \/ UNCHANGED len
      BY Zenon
         DEF works, producer_task, consumer_task, monitor_task, signal_ready,
             wait_for_start, stop_seen, go_on, head_start_over, send, send_counted, send_timeout,
             send_closed, recv, recv_counted, recv_fails, recv_closed, trampoline_exit, queue
    <2>2. CASE send(w) BY <2>2, DemoConstants DEF DemoIInv, send
    <2>3. CASE recv(w) BY <2>3, DemoConstants DEF DemoIInv, recv
    <2> QED BY <2>1, <2>2, <2>3, Zenon DEF DemoIInv
  <1>5. seq' \in [Producer -> 0 .. MaxSeq] /\ head' \subseteq Producer
    <2>1. \/ w \in Producer /\ (send_counted(w) \/ send_timeout(w) \/ head_start_over(w))
          \/ UNCHANGED producing
      BY Zenon
         DEF works, producer_task, consumer_task, monitor_task, signal_ready,
             wait_for_start, stop_seen, go_on, head_start_over, send, send_counted, send_timeout,
             send_closed, recv, recv_counted, recv_fails, recv_closed, trampoline_exit
    <2>2. CASE w \in Producer /\ send_counted(w)
      BY <2>2, DemoConstants DEF DemoIInv, send_counted, Count, PacketsAreCounted
    <2>3. CASE w \in Producer /\ send_timeout(w)
      BY <2>3, DemoConstants DEF DemoIInv, send_timeout, Count, PacketsAreCounted
    <2>4. CASE head_start_over(w) BY <2>4 DEF DemoIInv, head_start_over
    <2>5. CASE UNCHANGED producing BY <2>5, Zenon DEF DemoIInv, producing
    <2> QED BY <2>1, <2>2, <2>3, <2>4, <2>5, Zenon
  <1>6. stats' \in [{"produced", "consumed", "dropped"} -> Nat]
    BY StatsType
       DEF DemoIInv, works, producer_task, consumer_task, monitor_task, signal_ready,
           wait_for_start, stop_seen, go_on, head_start_over, send, send_counted, send_timeout,
           send_closed, recv, recv_counted, recv_fails, recv_closed, trampoline_exit, Count, Dropped
  <1> QED BY <1>1, <1>2, <1>3, <1>4, <1>5, <1>6 DEF DemoIInv

(* Only send, recv and their counts touch the balance.                     *)
LEMMA WorkerBooks ==
    ASSUME DemoIInv, NEW w \in Worker, works(w)
    PROVE  BooksBalance'
  <1>0. PICK b \in WorkerPoints : WorkerMoves(w, b) BY WorkersMove
  <1> DEFINE S == Cardinality(Here("sent"))
             R == Cardinality(Here("received"))
  <1>1. /\ S \in Nat /\ R \in Nat
        /\ S' = S + (IF b = "sent" THEN 1 ELSE 0) - (IF at[w] = "sent" THEN 1 ELSE 0)
        /\ R' = R + (IF b = "received" THEN 1 ELSE 0) - (IF at[w] = "received" THEN 1 ELSE 0)
    <2>1. TypeOK /\ Goto(w, b) BY <1>0 DEF DemoIInv, WorkerMoves
    <2> HIDE DEF WorkerPoints, Goto
    <2> QED BY <2>1, MovesCount
  <1>2. /\ at \in [Worker -> WorkerPoints] /\ at'[w] = b /\ len \in Nat
        /\ stats \in [{"produced", "consumed", "dropped"} -> Nat]
    <2>1. at \in [Worker -> WorkerPoints] /\ stats \in [{"produced", "consumed", "dropped"} -> Nat]
      BY DEF DemoIInv, TypeOK
    <2>2. at'[w] = b BY <1>0, <2>1 DEF WorkerMoves
    <2>3. len \in Nat BY DemoConstants DEF DemoIInv, TypeOK
    <2> QED BY <2>1, <2>2, <2>3
  <1>3. stats.produced + S = stats.consumed + R + len BY DEF DemoIInv, BooksBalance
  <1> HIDE DEF S, R
  <1>4. stats'.produced + S' = stats'.consumed + R' + len'
    <2>1. CASE send(w) BY <1>1, <1>2, <1>3, <2>1, SMTT(30) DEF send
    <2>2. CASE send_counted(w) BY <1>1, <1>2, <1>3, <2>2, SMTT(30) DEF send_counted, Count, queue
    <2>3. CASE recv(w) BY <1>1, <1>2, <1>3, <2>3 DEF recv
    <2>4. CASE recv_counted(w) BY <1>1, <1>2, <1>3, <2>4 DEF recv_counted, queue
    <2>5. CASE send_timeout(w) BY <1>1, <1>2, <1>3, <2>5 DEF send_timeout, Count, queue, Dropped
    <2>6. CASE \/ signal_ready(w) \/ wait_for_start(w) \/ stop_seen(w) \/ send_closed(w)
               \/ recv_fails(w) \/ recv_closed(w) \/ trampoline_exit(w)
      <3>1. UNCHANGED <<len, stats>>
        BY <2>6, Zenon DEF signal_ready, wait_for_start, stop_seen, send_closed, recv_fails,
                           recv_closed, trampoline_exit, queue
      <3>2. at[w] \notin {"sent", "received"}
        BY <2>6 DEF signal_ready, wait_for_start, stop_seen, send_closed, recv_fails,
                    recv_closed, trampoline_exit
      <3>3. b \notin {"sent", "received"}
        BY <2>6, <1>0 DEF WorkerMoves, signal_ready, wait_for_start, stop_seen, send_closed,
                          recv_fails, recv_closed, trampoline_exit, Goto, DemoIInv, TypeOK
      <3> QED BY <1>1, <1>2, <1>3, <3>1, <3>2, <3>3
    <2>7. CASE head_start_over(w)
      <3>1. at[w] = "check" /\ at'[w] = "check" /\ UNCHANGED <<len, stats>>
        BY <2>7 DEF head_start_over, queue
      <3> QED BY <1>1, <1>2, <1>3, <3>1
    <2>8. CASE go_on(w, "send") \/ go_on(w, "recv")
      BY <1>1, <1>2, <1>3, <2>8, SMTT(30) DEF go_on, queue
    <2> QED
      BY <2>1, <2>2, <2>3, <2>4, <2>5, <2>6, <2>7, <2>8
         DEF works, producer_task, consumer_task, monitor_task
  <1> QED BY <1>4 DEF BooksBalance, S, R

LEMMA WorkerPackets ==
    ASSUME DemoIInv, NEW w \in Worker, works(w)
    PROVE  PacketsAreCounted'
  <1>0. PICK b \in WorkerPoints : WorkerMoves(w, b) BY WorkersMove
  <1>1. /\ \A v \in Worker : at'[v] = IF v = w THEN b ELSE at[v]
        /\ \A p \in Producer : seq[p] \in Nat
        /\ stats \in [{"produced", "consumed", "dropped"} -> Nat]
    BY <1>0, DemoConstants DEF WorkerMoves, DemoIInv, TypeOK
  <1>2. CASE UNCHANGED seq /\ UNCHANGED <<stats.produced, stats.dropped>>
    <2>1. UNCHANGED Packets BY <1>2 DEF Packets
    <2>2. ASSUME NEW p \in Producer, at'[p] \in {"send", "sent"} PROVE seq'[p] < MaxSeq
      BY <1>0, <1>1, <1>2, <2>2, DemoConstants DEF WorkerMoves, DemoIInv, PacketsAreCounted
    <2> QED BY <1>2, <2>1, <2>2 DEF DemoIInv, PacketsAreCounted
  <1>3. ASSUME NEW f \in {"produced", "dropped"}, w \in Producer, Count(w, f)
        PROVE  PacketsAreCounted'
    <2>1. Cardinality(Packets) \in Nat /\ Cardinality(Packets') = Cardinality(Packets) + 1
      BY <1>3, OneMorePacket DEF Count, DemoIInv
    <2>2. stats'.produced + stats'.dropped = stats.produced + stats.dropped + 1
      BY <1>1, <1>3 DEF Count
    <2>3. stats'.produced + stats'.dropped = Cardinality(Packets')
      BY <2>1, <2>2 DEF DemoIInv, PacketsAreCounted
    <2>4. ASSUME NEW p \in Producer, at'[p] \in {"send", "sent"} PROVE seq'[p] < MaxSeq
      BY <1>1, <1>3, <2>4, DemoConstants DEF Count, DemoIInv, TypeOK, PacketsAreCounted
    <2> QED BY <2>3, <2>4 DEF PacketsAreCounted
  <1>4. CASE w \in Producer /\ (send_counted(w) \/ send_timeout(w))
    BY <1>3, <1>4 DEF send_counted, send_timeout, Dropped
  <1>5. CASE recv_counted(w) BY <1>1, <1>2, <1>5 DEF recv_counted, producing
  <1>6. CASE UNCHANGED <<stats, seq>> BY <1>2, <1>6
  <1> QED
    BY <1>4, <1>5, <1>6
       DEF works, producer_task, consumer_task, monitor_task, signal_ready, wait_for_start,
           stop_seen, go_on, head_start_over, send, send_closed, recv, recv_fails,
           recv_closed, trampoline_exit, producing

LEMMA WorkerStep ==
    ASSUME DemoIInv, NEW w \in Worker, works(w)
    PROVE  DemoIInv'
  <1>0. PICK b \in WorkerPoints : WorkerMoves(w, b) BY WorkersMove
  <1>1. \A v \in Worker : at'[v] = IF v = w THEN b ELSE at[v]
    BY <1>0 DEF WorkerMoves, DemoIInv, TypeOK
  <1>2. StopComesFirst'
    BY <1>0, <1>1 DEF StopComesFirst, DemoIInv, WorkerMoves, supervisor
  <1>3. \A v \in Worker : (Returned(v) => Returned(v)') /\ (Back(v) => Back(v)')
    BY <1>0, <1>1 DEF WorkerMoves, Back
  <1>4. JoinsInOrder'
    <2>1. 1 .. awaited \subseteq Worker BY DemoConstants DEF DemoIInv, TypeOK, Worker
    <2> QED BY <1>0, <1>1, <1>3, <2>1 DEF JoinsInOrder, DemoIInv, WorkerMoves, supervisor
  <1>5. EndsQuiet'
    BY <1>0, <1>1 DEF EndsQuiet, Quiet, DemoIInv, WorkerMoves, heartbeat, supervisor
  <1>6. worker_error' # "QueueRecv"
    BY DEF DemoIInv, StopComesFirst, works, producer_task, consumer_task, monitor_task,
           signal_ready, wait_for_start, stop_seen, go_on, head_start_over, send,
           send_counted, send_timeout, send_closed, recv, recv_counted, recv_fails,
           recv_closed, trampoline_exit, signals, record_worker_error
  <1> QED BY <1>2, <1>4, <1>5, <1>6, WorkerTypes, WorkerBooks, WorkerPackets DEF DemoIInv
-----------------------------------------------------------------------------
(* A step that touches no worker keeps the books.                          *)
LEMMA BooksFrame ==
    ASSUME DemoIInv, UNCHANGED <<len, stats, seq, at>>
    PROVE  BooksBalance' /\ PacketsAreCounted'
  <1>1. UNCHANGED <<Here("sent"), Here("received"), Packets>> BY DEF Here, Packets
  <1> QED BY <1>1 DEF DemoIInv, BooksBalance, PacketsAreCounted

LEMMA SpawnStep == ASSUME DemoIInv, spawn PROVE DemoIInv'
  <1>0. tasks + 1 \in Worker /\ tasks \in Nat
    BY DemoConstants DEF spawn, DemoIInv, JoinsInOrder, TypeOK, Worker
  <1>1. /\ tasks' = tasks + 1 /\ stage = "spawn"
        /\ stage' = IF tasks + 1 = Monitor THEN "ready" ELSE "spawn"
        /\ UNCHANGED <<queue, stats, signals, heartbeat, producing, awaited, error, runtime>>
    BY DEF spawn
  <1>2. Goto(tasks + 1, "new") BY DEF spawn
  <1>3. at[tasks + 1] = "unborn" BY <1>0 DEF DemoIInv, JoinsInOrder
  <1>4. \A v \in Worker : at'[v] = IF v = tasks + 1 THEN "new" ELSE at[v]
    BY <1>2 DEF DemoIInv, TypeOK
  <1>5. TypeOK'
    <2>1. closed' \in BOOLEAN /\ armed' \in BOOLEAN /\ calling' \in BOOLEAN /\ runtime' \in BOOLEAN
      BY <1>1, Zenon DEF DemoIInv, TypeOK, queue, heartbeat
    <2>2. at' \in [Worker -> WorkerPoints] BY <1>2 DEF DemoIInv, TypeOK
    <2>3. tasks' \in 0 .. TOTAL_READY_TASKS BY <1>0, <1>1 DEF Worker
    <2> QED BY <1>1, <2>1, <2>2, <2>3 DEF DemoIInv, TypeOK, queue, signals, producing
  <1>6. StopComesFirst' BY <1>1, <1>4 DEF StopComesFirst, DemoIInv, queue, signals
  <1>7. BooksBalance' /\ PacketsAreCounted'
    <2>1. Here("sent")' = Here("sent") /\ Here("received")' = Here("received")
      BY <1>3, <1>4 DEF Here
    <2>2. UNCHANGED Packets BY <1>1 DEF Packets, producing
    <2>3. \A p \in Producer : at'[p] \in {"send", "sent"} => at[p] \in {"send", "sent"}
      BY <1>4, DemoConstants
    <2> QED
      BY <1>1, <2>1, <2>2, <2>3 DEF DemoIInv, BooksBalance, PacketsAreCounted, queue, producing
  <1>8. JoinsInOrder'
    <2>1. tasks' < TOTAL_READY_TASKS \/ stage' # "spawn"
      BY <1>0, <1>1, DemoConstants DEF Worker
    <2>2. \A v \in Worker : v > tasks' => at'[v] = "unborn"
      BY <1>0, <1>1, <1>4 DEF DemoIInv, JoinsInOrder, Worker
    <2> QED BY <1>1, <2>1, <2>2 DEF DemoIInv, JoinsInOrder
  <1>9. EndsQuiet' BY <1>1 DEF EndsQuiet, DemoIInv, heartbeat
  <1> QED BY <1>1, <1>5, <1>6, <1>7, <1>8, <1>9 DEF DemoIInv, signals

LEMMA SupervisorTypes ==
    ASSUME DemoIInv,
           \/ acquire_ready \/ start \/ start_timer \/ request_stop \/ stop_timer
           \/ close_queue \/ join \/ joined \/ report \/ shutdown_settled \/ fail
           \/ timer_expires \/ callback
    PROVE  TypeOK'
  <1> USE DEF DemoIInv, TypeOK, queue, signals, heartbeat, producing, supervisor
  <1>1. closed' \in BOOLEAN /\ armed' \in BOOLEAN /\ calling' \in BOOLEAN /\ runtime' \in BOOLEAN
    BY Zenon DEF acquire_ready, start, start_timer, request_stop, stop_timer, close_queue,
                 join, joined, report, shutdown_settled, fail, timer_expires, callback
  <1>2. UNCHANGED <<len, stats, seq, head, at, tasks>>
    BY Zenon DEF acquire_ready, start, start_timer, request_stop, stop_timer, close_queue,
                 join, joined, report, shutdown_settled, fail, timer_expires, callback
  <1>3. awaited' \in 0 .. TOTAL_READY_TASKS /\ ready_sem' \in 0 .. TOTAL_READY_TASKS
    <2>1. acquire_ready \/ (join /\ UNCHANGED ready_sem) \/ (fail /\ UNCHANGED ready_sem)
          \/ UNCHANGED <<awaited, ready_sem>>
      BY Zenon
         DEF acquire_ready, start, start_timer, request_stop, stop_timer, close_queue, join,
             joined, report, shutdown_settled, fail, timer_expires, callback
    <2>2. CASE acquire_ready BY <2>2, DemoConstants, SMTT(30) DEF acquire_ready
    <2>3. CASE join /\ UNCHANGED ready_sem BY <2>3, DemoConstants, SMTT(30) DEF join
    <2>4. CASE fail /\ UNCHANGED ready_sem BY <2>4, DemoConstants, SMTT(30) DEF fail
    <2> QED BY <2>1, <2>2, <2>3, <2>4, Zenon
  <1>5. /\ events' \subseteq {"START", "GO", "STOP"} /\ UNCHANGED worker_error
        /\ stage' \in {"spawn", "ready", "start", "start_timer", "phases", "stop_timer",
                       "stop", "close", "join", "report", "settle", "done"}
        /\ error' \in {"none", "Osal", "Check", "Worker"}
    BY DEF acquire_ready, start, start_timer, request_stop, stop_timer, close_queue, join,
           joined, report, shutdown_settled, fail, timer_expires, callback,
           pipeline_invariant_failure
  <1> QED BY <1>1, <1>2, <1>3, <1>5, Zenon

(* The supervisor and the timer: what they do to the workers' books is     *)
(* nothing, so that the order of the stages is what remains.               *)
LEMMA SupervisorStep ==
    ASSUME DemoIInv,
           \/ acquire_ready \/ start \/ start_timer \/ request_stop \/ stop_timer
           \/ close_queue \/ join \/ joined \/ report \/ shutdown_settled
           \/ spawn_fails \/ supervisor_fails \/ timer_expires \/ callback
    PROVE  DemoIInv'
  <1> USE DEF queue, signals, heartbeat, producing, supervisor
  <1>1. TypeOK' BY SupervisorTypes, Zenon DEF spawn_fails, supervisor_fails
  <1>2. UNCHANGED <<len, stats, seq, at, tasks, worker_error>>
    BY Zenon DEF acquire_ready, start, start_timer, request_stop, stop_timer, close_queue,
                 join, joined, report, shutdown_settled, spawn_fails, supervisor_fails, fail,
                 timer_expires, callback
  <1>3. BooksBalance' /\ PacketsAreCounted' BY <1>2, BooksFrame
  <1> HIDE DEF queue, signals, heartbeat, producing, supervisor
  <1>4. StopComesFirst'
    <2>1. UNCHANGED <<events, closed>> \/ start \/ request_stop \/ close_queue
      BY Zenon
         DEF acquire_ready, start_timer, stop_timer, join, joined, report, shutdown_settled,
             spawn_fails, supervisor_fails, fail, timer_expires, callback,
             queue, signals, heartbeat, producing, supervisor
    <2>2. events \subseteq events'
      <3>1. CASE start \/ request_stop BY <3>1 DEF start, request_stop
      <3>2. CASE close_queue BY <3>2, Zenon DEF close_queue, signals
      <3> QED BY <2>1, <3>1, <3>2
    <2>3. closed' => closed \/ stage = "close"
      <3>1. CASE start \/ request_stop BY <3>1, Zenon DEF start, request_stop, queue
      <3>2. CASE close_queue BY <3>2 DEF close_queue
      <3> QED BY <2>1, <3>1, <3>2
    <2>4. closed => closed'
      <3>1. CASE start \/ request_stop BY <3>1, Zenon DEF start, request_stop, queue
      <3>2. CASE close_queue BY <3>2 DEF close_queue
      <3> QED BY <2>1, <3>1, <3>2
    <2>5. stage' = "close" => request_stop \/ stage = "close"
      BY DEF acquire_ready, start, start_timer, stop_timer, close_queue, join, joined, report,
             shutdown_settled, spawn_fails, supervisor_fails, fail, timer_expires, callback,
             supervisor
    <2>6. request_stop => Stopped' BY DEF request_stop
    <2> QED BY <1>2, <2>2, <2>3, <2>4, <2>5, <2>6 DEF DemoIInv, StopComesFirst
  <1>5. EndsQuiet'
    <2> USE DEF DemoIInv, EndsQuiet
    <2>1. CASE timer_expires \/ callback
      <3>1. UNCHANGED <<stage, armed, runtime>> /\ (armed \/ calling)
        BY <2>1, Zenon DEF timer_expires, callback, supervisor
      <3> QED BY <3>1 DEF Quiet
    <2>2. CASE shutdown_settled
      <3>1. /\ stage = "settle" /\ stage' = "done" /\ UNCHANGED <<armed, calling, at>>
            /\ runtime' \/ ~runtime \/ Quiet
        BY <2>2, Zenon DEF shutdown_settled, heartbeat
      <3> QED BY <3>1 DEF Quiet
    <2>3. CASE start_timer
      <3>1. stage = "start_timer" /\ stage' = "phases" /\ UNCHANGED runtime
        BY <2>3, Zenon DEF start_timer
      <3> QED BY <3>1
    <2>4. CASE stop_timer \/ close_queue
      <3>1. stage \in {"stop_timer", "close"} /\ ~armed' /\ UNCHANGED runtime
        BY <2>4, Zenon DEF stop_timer, close_queue
      <3> QED BY <3>1
    <2>5. CASE \/ acquire_ready \/ start \/ request_stop \/ join \/ joined \/ report
               \/ spawn_fails \/ supervisor_fails
      <3>1. UNCHANGED <<armed, runtime>>
        BY <2>5, Zenon DEF acquire_ready, start, request_stop, join, joined, report, spawn_fails,
                           supervisor_fails, fail, heartbeat
      <3>2. /\ stage # "done"
            /\ stage' \in {"join", "report", "settle", "done"}
                 => stage \in {"join", "report", "settle", "done"}
        BY <2>5 DEF acquire_ready, start, request_stop, join, joined, report, spawn_fails,
                    supervisor_fails, fail
      <3> QED BY <3>1, <3>2
    <2> QED BY <2>1, <2>2, <2>3, <2>4, <2>5, Zenon
  <1> USE DEF queue, signals, heartbeat, producing, supervisor
  <1>6. JoinsInOrder'
    <2>1. CASE join
      <3>0. awaited \in Nat /\ tasks \in Nat BY DemoConstants DEF DemoIInv, TypeOK
      <3>1. /\ stage = "join" /\ stage' = "join" /\ awaited < tasks /\ awaited' = awaited + 1
            /\ awaited \in Nat /\ tasks \in Nat
            /\ error' = "none" => error = "none" /\ Returned(awaited + 1)
        BY <2>1, <3>0 DEF join, DemoIInv, TypeOK
      <3>2. \A v \in 1 .. awaited' : v \in 1 .. awaited \/ v = awaited + 1 BY <3>1
      <3> QED BY <1>2, <3>1, <3>2 DEF DemoIInv, JoinsInOrder
    <2>2. CASE joined
      <3>1. stage = "join" /\ awaited = tasks /\ (stage' = "report" => error = "none")
            /\ stage' \in {"report", "settle"} /\ UNCHANGED <<awaited, error>>
        BY <2>2 DEF joined
      <3>2. ASSUME stage' = "report", NEW v \in Worker PROVE Back(v)
        <4>1. v \in 1 .. awaited \/ v > tasks
          BY <3>1, DemoConstants DEF DemoIInv, TypeOK, Worker
        <4> QED BY <3>1, <3>2, <4>1 DEF DemoIInv, JoinsInOrder, Back
      <3>3. stage' = "report" => \A v \in Worker : Back(v)' BY <1>2, <3>2 DEF Back
      <3> QED BY <1>2, <3>1, <3>3 DEF DemoIInv, JoinsInOrder
    <2>3. CASE acquire_ready
      BY <1>2, <2>3, DemoConstants DEF acquire_ready, DemoIInv, JoinsInOrder, TypeOK
    <2>4. CASE close_queue
      <3>1. stage = "close" /\ stage' = "join" /\ awaited = 0 /\ awaited' = 0
        BY <2>4 DEF close_queue, DemoIInv, JoinsInOrder
      <3>2. tasks \in Nat BY DemoConstants DEF DemoIInv, TypeOK
      <3> QED BY <1>2, <3>1, <3>2 DEF DemoIInv, JoinsInOrder
    <2>5. CASE \/ start \/ start_timer \/ request_stop \/ stop_timer \/ report
               \/ shutdown_settled \/ spawn_fails \/ supervisor_fails
      BY <1>2, <2>5 DEF start, start_timer, request_stop, stop_timer, report, shutdown_settled,
                        spawn_fails, supervisor_fails, fail, DemoIInv, JoinsInOrder
    <2>6. CASE timer_expires \/ callback
      BY <1>2, <2>6 DEF timer_expires, callback, DemoIInv, JoinsInOrder, Back
    <2> QED BY <2>1, <2>2, <2>3, <2>4, <2>5, <2>6
  <1> QED BY <1>1, <1>2, <1>3, <1>4, <1>5, <1>6 DEF DemoIInv

LEMMA DemoStutter == DemoIInv /\ UNCHANGED vars => DemoIInv'
  <1> SUFFICES ASSUME DemoIInv, UNCHANGED vars PROVE DemoIInv'
    OBVIOUS
  <1> USE DEF vars, queue, signals, heartbeat, producing, supervisor
  <1>1. BooksBalance' /\ PacketsAreCounted' BY BooksFrame
  <1>2. TypeOK' BY ZenonT(60) DEF DemoIInv, TypeOK
  <1>3. StopComesFirst' /\ JoinsInOrder' /\ EndsQuiet'
    BY DEF DemoIInv, StopComesFirst, JoinsInOrder, EndsQuiet, Quiet, Back
  <1> QED BY <1>1, <1>2, <1>3 DEF DemoIInv

(* The inductive invariant of the pipeline holds: STOP comes before the    *)
(* close, the queue and the counters of AppState agree with where the      *)
(* workers are, and the supervisor's joins follow the order of its spawns. *)
THEOREM DemoInvariant == Spec => []DemoIInv
  <1>1. DemoIInv /\ [Next]_vars => DemoIInv'
    BY WorkerStep, SpawnStep, SupervisorStep, DemoStutter DEF Next, supervise
  <1> QED BY <1>1, DemoInit, PTL DEF Spec

(* For any number of producers, consumers, slots and packets: when         *)
(* stop_and_join has joined every worker without an error, each packet of  *)
(* a producer was counted once, as produced or as dropped, and what was    *)
(* produced was consumed or is still in the queue; and no consumer ever    *)
(* reports the orderly close of the queue as its failure.                  *)
THEOREM ReportIsComplete == Spec => []ReportAddsUp
  <1>1. DemoIInv => ReportAddsUp
    <2> SUFFICES ASSUME DemoIInv PROVE ReportAddsUp
      OBVIOUS
    <2>1. ASSUME stage = "report" PROVE stats.produced = stats.consumed + len
      <3>1. Here("sent") = {} /\ Here("received") = {}
        BY <2>1 DEF DemoIInv, JoinsInOrder, Back, Here
      <3>2. stats.produced \in Nat /\ stats.consumed \in Nat /\ len \in Nat
        BY DemoConstants DEF DemoIInv, TypeOK
      <3>3. Cardinality({}) = 0 BY FS_EmptySet
      <3>4. stats.produced + Cardinality(Here("sent"))
                = stats.consumed + Cardinality(Here("received")) + len
        BY Zenon DEF DemoIInv, BooksBalance
      <3>5. stats.produced + 0 = stats.consumed + 0 + len BY <3>1, <3>3, <3>4, Zenon
      <3> QED BY <3>2, <3>5
    <2> QED BY <2>1 DEF DemoIInv, ReportAddsUp, PacketsAreCounted
  <1> QED BY <1>1, DemoInvariant, PTL

(* with_runtime shuts the runtime down only when every worker is gone and  *)
(* the heartbeat's callback is over, and nothing starts again after it: a  *)
(* shutdown that would leave somebody behind is reported as an error.      *)
THEOREM ShutdownIsQuiet == Spec => [](~runtime => Quiet)
  <1>1. DemoIInv => (~runtime => Quiet) BY DEF DemoIInv, EndsQuiet
  <1> QED BY <1>1, DemoInvariant, PTL
=============================================================================
