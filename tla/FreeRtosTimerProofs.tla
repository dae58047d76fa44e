------------------------ MODULE FreeRtosTimerProofs ------------------------
(***************************************************************************)
(* Proofs about FreeRtosTimer, for every finite set of tasks, every set of *)
(* periods and any number of timers and services.                          *)
(*                                                                         *)
(* A task that panics has suspended the scheduler: from then on only time  *)
(* passes.  What a panic does not disturb (Safe) is therefore kept apart   *)
(* from what holds until there is one (Good).                              *)
(***************************************************************************)
EXTENDS FreeRtosTimer, Integers, TLAPS

Calm == \A a \in Actor : at[a] # "panicked"

Entry == [status : {"absent", "live", "deleted"}, callback : BOOLEAN, state : TS!TimerStates]

Types ==
    /\ leases \in Nat
    /\ timers \in [Id -> Entry]
    /\ next_id \in 1 .. MaxTimer + 1
    /\ mutex \in Actor \cup {Nobody}
    /\ run \in RunPoints /\ dispatching \in 0 .. MaxTimer
    /\ at \in [Actor -> CallPoints] /\ arg \in [Actor -> 0 .. MaxTimer]
    /\ drops \in [Actor -> Seq(Id)]
    /\ handle \in [Id -> {"none", "app", "callback", "dropping"}]
    /\ captor \in [Id -> 0 .. MaxTimer]
    /\ suspended \in Task \cup {Nobody} /\ now \in TS!Duration

(* Handles are for live timers of a service that is not asked to stop.     *)
HandlesAreLive ==
    \A i \in Id : handle[i] \in {"app", "callback"}
                      => Live(i) /\ slot = "Running" /\ ~stop_requested

Safe == /\ OnlySuspendedCallsPanic /\ NoLostWake /\ RolledBackServiceRuns /\ HandlesAreLive

Transition == {"init", "inited", "preflight", "stop", "await", "cleanup", "commit"}
DropPoints == {"drop", "nested", "last", "unwind"}
Sections == {"held", "registered", "refused", "nested", "last"}
WorkerSections == {"sleeping", "dispatching", "stopping", "restored", "discarding"}

(* One actor at a time takes the runtime up or down, and the slot, the     *)
(* stop flag and the capabilities follow it.                               *)
OneTransition ==
    /\ \A a, b \in Actor : at[a] \in Transition /\ at[b] \in Transition => a = b
    /\ \A a \in Actor :
          /\ at[a] \in {"init", "inited"} => phase = "Initializing"
          /\ at[a] \in {"preflight", "stop", "await", "cleanup", "commit"}
                => phase = "ShuttingDown" /\ caps
          /\ at[a] \in {"init", "commit"} => slot = "Stopped"
          /\ at[a] \in {"inited", "preflight", "stop"} => slot = "Running"
          /\ at[a] \in {"inited", "cleanup"} => run = "none"
          /\ at[a] \in {"await", "cleanup"} => slot = "Stopping"
    /\ phase = "Uninitialized" => slot = "Stopped"
    /\ slot = "Running" => ~stop_requested

(* The worker is there from the first start to its completion bit.         *)
WorkerLives ==
    /\ run # "none" => worker /\ ~bit /\ slot # "Stopped" /\ caps
    /\ bit => stop_requested
    /\ run \in {"stopping", "complete"} => stop_requested
    /\ dispatching # 0 <=> run \in {"dispatching", "chosen", "callback", "restore",
                                    "restored", "discarding"}
    /\ dispatching < next_id
    /\ at[Worker] # "idle" => run \in {"callback", "scan"}

MutexOwner ==
    /\ \A a \in Actor : at[a] \in Sections => mutex = a
    /\ run \in WorkerSections => mutex = Worker
    /\ \A a \in Actor : mutex = a => \/ at[a] \in Sections \cup {"drop"}
                                     \/ a = Worker /\ run \in WorkerSections

Registry ==
    /\ \A i \in Id : i >= next_id => handle[i] = "none" /\ ~Live(i)
    /\ slot # "Running" => \A i \in Id : ~Live(i)
    /\ \A a \in Actor : at[a] = "registered" =>
          arg[a] \in Id /\ Live(arg[a]) /\ handle[arg[a]] = "none"

(* A call uses a handle that nobody takes away meanwhile.  A callback's    *)
(* handles go only when the callback does not run.                         *)
CallsKeepHandles ==
    /\ \A a \in Actor : at[a] \in {"ensured", "held"} =>
          /\ arg[a] \in Id
          /\ \/ handle[arg[a]] = "app"
             \/ a = Worker /\ handle[arg[a]] = "callback" /\ captor[arg[a]] = dispatching
    /\ \A a \in Actor : at[a] = "nested" => dispatching # Head(drops[a])
    /\ dispatching # 0 /\ run # "restored" /\ Live(dispatching) => ~timers[dispatching].callback

Held == {i \in Id : handle[i] # "none"}
Leased == {a \in Actor : at[a] = "leased"}
InNew == {a \in Actor : Creating(a)}

LeaseCount ==
    /\ leases = Cardinality(Held) + Cardinality(InNew)
    /\ next_id + Cardinality(Leased) <= MaxTimer + 1
    /\ phase # "Running" => leases = 0

(* The handles an actor drops are its own, each of them once.              *)
DropStack ==
    /\ \A a \in Actor : at[a] \in DropPoints <=> drops[a] # <<>>
    /\ \A a \in Actor : at[a] = "drop" => Live(Head(drops[a]))
    /\ \A a \in Actor : \A j \in 1 .. Len(drops[a]) : handle[drops[a][j]] = "dropping"

DropsDisjoint ==
    \A a, b \in Actor : \A j \in 1 .. Len(drops[a]), k \in 1 .. Len(drops[b]) :
        drops[a][j] = drops[b][k] => a = b /\ j = k

Good == /\ OneTransition /\ WorkerLives /\ MutexOwner /\ Registry /\ CallsKeepHandles
        /\ LeaseCount /\ DropStack /\ DropsDisjoint

IInv == Types /\ Safe /\ (Calm => Good)

(* What the proofs take from the library's theorems: facts about finite    *)
(* sets and the least element of a set of naturals.  The lemmas assume     *)
(* them, which keeps the library out of their way; FactsHold proves them.  *)
Facts ==
    /\ \A m, n \in Int : IsFiniteSet(m .. n)
    /\ \A S : IsFiniteSet(S) => /\ Cardinality(S) \in Nat
                                /\ Cardinality(S) = 0 <=> S = {}
                                /\ \A T \in SUBSET S : IsFiniteSet(T)
    /\ IsFiniteSet({}) /\ Cardinality({}) = 0
    /\ \A S, x : IsFiniteSet(S) =>
          /\ IsFiniteSet(S \cup {x})
          /\ Cardinality(S \cup {x}) = IF x \in S THEN Cardinality(S) ELSE Cardinality(S) + 1
          /\ Cardinality(S \ {x}) = IF x \in S THEN Cardinality(S) - 1 ELSE Cardinality(S)
    /\ \A T \in SUBSET Nat : T # {} => \E d \in T : \A e \in T : d <= e

USE DEF CallPoints, RunPoints, Transition, DropPoints, Sections, WorkerSections, Actor

LEMMA Finite ==
    ASSUME Facts
    PROVE  /\ IsFiniteSet(Id) /\ IsFiniteSet(Actor)
           /\ IsFiniteSet(Held) /\ Cardinality(Held) \in Nat
           /\ IsFiniteSet(Leased) /\ Cardinality(Leased) \in Nat
           /\ IsFiniteSet(InNew) /\ Cardinality(InNew) \in Nat
  <1>1. IsFiniteSet(Id) BY TimerAssumption DEF Facts, Id
  <1>2. IsFiniteSet(Actor) BY TimerAssumption, Zenon DEF Facts
  <1>3. IsFiniteSet(Held) /\ IsFiniteSet(Leased) /\ IsFiniteSet(InNew)
    <2>1. Held \in SUBSET Id /\ Leased \in SUBSET Actor /\ InNew \in SUBSET Actor
      BY Zenon DEF Held, Leased, InNew
    <2> QED BY <1>1, <1>2, <2>1, ZenonT(60) DEF Facts
  <1> QED BY <1>1, <1>2, <1>3, Zenon DEF Facts

LEMMA EmptySets ==
    ASSUME Facts
    PROVE  /\ Cardinality({}) = 0
           /\ \A S : IsFiniteSet(S) /\ Cardinality(S) = 0 => S = {}
  BY Zenon DEF Facts

(* A lease, of a handle or of a call of new, keeps the runtime running.    *)
LEMMA LeaseMeansRunning ==
    ASSUME Facts, IInv, Calm, Held # {} \/ InNew # {}
    PROVE  phase = "Running" /\ slot = "Running" /\ caps /\ ~stop_requested /\ leases > 0
  <1>1. Cardinality(Held) > 0 \/ Cardinality(InNew) > 0
    BY Finite, EmptySets
  <1>2. leases > 0 BY <1>1, Finite DEF IInv, Good, LeaseCount
  <1> QED BY <1>2 DEF IInv, Good, Safe, LeaseCount, RolledBackServiceRuns

(* An actor inside a call on a timer holds a lease.                        *)
LEMMA CallMeansRunning ==
    ASSUME Facts, IInv, Calm, NEW a \in Actor, at[a] \notin Transition \cup {"idle"}
    PROVE  phase = "Running" /\ slot = "Running" /\ caps /\ ~stop_requested /\ leases > 0
  <1> USE DEF IInv, Good
  <1>1. CASE at[a] \in {"leased", "registered", "refused"}
    <2>1. a \in InNew BY <1>1, Zenon DEF InNew, Creating
    <2> QED BY <2>1, LeaseMeansRunning, Zenon
  <1>2. CASE at[a] \in {"ensured", "held"}
    <2>1. arg[a] \in Held BY <1>2, Zenon DEF Held, CallsKeepHandles
    <2> QED BY <2>1, LeaseMeansRunning, Zenon
  <1>3. CASE at[a] \in DropPoints
    <2>1. drops[a] \in Seq(Id) /\ drops[a] # <<>> BY <1>3, Zenon DEF DropStack, Types
    <2>2. 1 \in 1 .. Len(drops[a]) /\ drops[a][1] \in Id BY <2>1
    <2>3. drops[a][1] \in Held BY <2>2, Zenon DEF Held, DropStack
    <2> QED BY <2>3, LeaseMeansRunning, Zenon
  <1> QED BY <1>1, <1>2, <1>3, Zenon DEF Types, Calm

LEMMA InitIInv ==
    ASSUME Facts
    PROVE  Init => IInv
  <1> SUFFICES ASSUME Init PROVE IInv
    BY Zenon
  <1> USE TimerAssumption DEF Init
  <1>1. timers \in [Id -> Entry]
    BY DEF Absent, Entry, TS!TimerStates, TS!Period
  <1>2. Types BY <1>1 DEF Types, TS!Duration, Id
  <1>3. Safe
    BY Zenon DEF Safe, OnlySuspendedCallsPanic, NoLostWake, RolledBackServiceRuns, HandlesAreLive
  <1>4. OneTransition /\ WorkerLives /\ MutexOwner
    BY DEF OneTransition, WorkerLives, MutexOwner
  <1>5. Registry /\ CallsKeepHandles BY Zenon DEF Registry, CallsKeepHandles, Live, Absent
  <1>6. LeaseCount
    <2>1. Held = {} /\ Leased = {} /\ InNew = {} BY Zenon DEF Held, Leased, InNew, Creating
    <2> QED BY <2>1, EmptySets DEF LeaseCount
  <1>7. DropStack /\ DropsDisjoint BY DEF DropStack, DropsDisjoint
  <1> QED BY <1>2, <1>3, <1>4, <1>5, <1>6, <1>7, Zenon DEF IInv, Good
-----------------------------------------------------------------------------
(* What a step leaves alone, one lemma per part of the invariant.          *)
LEMMA DropFrame ==
    ASSUME DropStack, DropsDisjoint, Types, UNCHANGED drops,
           \A b \in Actor : at'[b] = at[b] \/ (at[b] \notin DropPoints /\ at'[b] \notin DropPoints),
           \A i \in Id : handle[i] = "dropping" => handle'[i] = "dropping" /\ (Live(i) => Live(i)')
    PROVE  DropStack' /\ DropsDisjoint'
  <1>1. ASSUME NEW b \in Actor, at'[b] = "drop"
        PROVE  Live(Head(drops[b]))'
    <2>1. at[b] = "drop" /\ drops[b] # <<>> /\ drops[b] \in Seq(Id)
      BY <1>1, Zenon DEF DropStack, Types
    <2>2. 1 \in 1 .. Len(drops[b]) /\ Head(drops[b]) = drops[b][1] /\ drops[b][1] \in Id BY <2>1
    <2>3. handle[Head(drops[b])] = "dropping" /\ Live(Head(drops[b])) /\ Head(drops[b]) \in Id
      BY <2>1, <2>2 DEF DropStack
    <2> QED BY <2>3, Zenon
  <1>2. ASSUME NEW b \in Actor, NEW j \in 1 .. Len(drops[b])
        PROVE  handle'[drops[b][j]] = "dropping"
    <2>1. drops[b][j] \in Id BY DEF Types
    <2> QED BY <1>2, <2>1, Zenon DEF DropStack
  <1>3. \A b \in Actor : at'[b] \in DropPoints <=> drops'[b] # <<>> BY Zenon DEF DropStack
  <1> QED BY <1>1, <1>2, <1>3 DEF DropStack, DropsDisjoint

LEMMA LeaseFrame ==
    ASSUME LeaseCount, Held' = Held, InNew' = InNew, Leased' = Leased,
           UNCHANGED <<leases, next_id>>, phase' = phase \/ phase' = "Running" \/ leases = 0
    PROVE  LeaseCount'
  BY Zenon DEF LeaseCount

LEMMA WakeFrame ==
    ASSUME NoLostWake, UNCHANGED <<wake, stop_requested, alarm>>,
           run' = run \/ run' \notin {"sleeping", "wait"},
           \A i \in Id : (Live(i)' <=> Live(i))
                         /\ (Live(i) => timers'[i].state.deadline = timers[i].state.deadline)
    PROVE  NoLostWake'
  <1>1. Deadlines' \subseteq Deadlines BY Zenon DEF Deadlines
  <1> QED BY <1>1, Zenon DEF NoLostWake

(* A step of the lifecycle, between two of its points.                     *)
LEMMA LifecycleFrame ==
    ASSUME IInv, Calm, NEW a \in Actor, NEW p \in Transition \cup {"idle"},
           at[a] \in Transition \cup {"idle"}, at[a] = "idle" => Calls(a),
           at' = [at EXCEPT ![a] = p],
           UNCHANGED <<registry, mutex, wake, bit, service, arg, drops, owners, suspended, now,
                       leases>>
    PROVE  /\ Types' /\ MutexOwner' /\ CallsKeepHandles' /\ DropStack' /\ DropsDisjoint'
           /\ OnlySuspendedCallsPanic' /\ NoLostWake'
           /\ Held' = Held /\ InNew' = InNew /\ Leased' = Leased
           /\ \A i \in Id : Live(i)' <=> Live(i)
           /\ \A b \in Actor : b # a => at'[b] = at[b]
           /\ at'[a] = p
           /\ at'[Worker] # "idle" => run \in {"callback", "scan"}
  <1> USE DEF IInv, Good, Safe, registry, service, owners
  <1>1. /\ \A b \in Actor : b # a => at'[b] = at[b]
        /\ at'[a] = p
        /\ UNCHANGED <<timers, next_id, run, dispatching, handle, captor, alarm, stop_requested>>
    BY Zenon DEF Types
  <1>2. Types' BY DEF Types
  <1>3. MutexOwner' BY <1>1, Zenon DEF MutexOwner, Calls
  <1>4. \A i \in Id : Live(i)' <=> Live(i) BY <1>1, Zenon DEF Live
  <1>5. CallsKeepHandles' BY <1>1, Zenon DEF CallsKeepHandles, Live
  <1>6. DropStack' /\ DropsDisjoint' BY <1>1, <1>4, DropFrame, Zenon
  <1>7. OnlySuspendedCallsPanic' BY <1>1, Zenon DEF OnlySuspendedCallsPanic, Calm
  <1>8. NoLostWake' BY <1>1, <1>4, WakeFrame, Zenon
  <1>9. Held' = Held /\ InNew' = InNew /\ Leased' = Leased
    BY <1>1, Zenon DEF Held, InNew, Leased, Creating
  <1>10. at'[Worker] # "idle" => run \in {"callback", "scan"}
    BY <1>1, Zenon DEF WorkerLives, Calls
  <1> QED BY <1>1, <1>2, <1>3, <1>4, <1>5, <1>6, <1>7, <1>8, <1>9, <1>10, Zenon

LEMMA LifecycleKeeps ==
    ASSUME IInv, Calm, NEW a \in Actor,
           \/ begin_initialize(a) \/ initialize_fails(a) \/ commit_initialize(a)
           \/ begin_shutdown(a) \/ shutdown_preflight(a) \/ shutdown_wait(a)
           \/ shutdown_cleanup(a) \/ commit_shutdown(a)
    PROVE  IInv'
  <1> DEFINE p == at'[a]
  <1> USE DEF IInv, Good, Safe
  <1>0. OneTransition /\ at \in [Actor -> CallPoints] /\ WorkerLives BY Zenon DEF Types
  <1> HIDE DEF IInv, Good, Safe
  <1>1. ASSUME p \in Transition \cup {"idle"}, at' = [at EXCEPT ![a] = p],
               at[a] \in Transition \/ (Calls(a) /\ phase \in {"Uninitialized", "Running"}),
               UNCHANGED <<registry, mutex, wake, bit, service, arg, drops, owners, suspended,
                           now, leases>>,
               UNCHANGED <<slot, worker>>
               \/ (slot = "Stopping" /\ slot' = "Stopped" /\ run = "none"),
               phase' = phase \/ phase' = "Running" \/ leases = 0 \/ phase # "Running",
               caps' = caps \/ caps' \/ run = "none",
               RolledBackServiceRuns',
               phase' = "Uninitialized" => slot' = "Stopped",
               p \in {"init", "inited"} => phase' = "Initializing",
               p \in {"preflight", "stop", "await", "cleanup", "commit"}
                 => phase' = "ShuttingDown" /\ caps',
               p \in {"init", "commit"} => slot' = "Stopped",
               p \in {"inited", "preflight", "stop"} => slot' = "Running",
               p \in {"inited", "cleanup"} => run = "none",
               p \in {"await", "cleanup"} => slot' = "Stopping"
        PROVE  IInv'
    <2> HIDE DEF p
    <2>1. /\ Types' /\ MutexOwner' /\ CallsKeepHandles' /\ DropStack' /\ DropsDisjoint'
          /\ OnlySuspendedCallsPanic' /\ NoLostWake'
          /\ Held' = Held /\ InNew' = InNew /\ Leased' = Leased
          /\ \A i \in Id : Live(i)' <=> Live(i)
          /\ \A b \in Actor : b # a => at'[b] = at[b]
          /\ at'[a] = p
          /\ at'[Worker] # "idle" => run \in {"callback", "scan"}
      BY <1>1, LifecycleFrame, Zenon DEF Calls
    <2>2. UNCHANGED <<next_id, stop_requested, bit, run, dispatching, handle, arg, leases>>
      BY <1>1, Zenon DEF registry, service, owners
    <2>3. \A b \in Actor : b # a => at'[b] \notin Transition
      BY <1>0, <1>1, <2>1, Zenon DEF OneTransition
    <2>4. OneTransition' BY <1>0, <1>1, <2>1, <2>2, <2>3 DEF OneTransition
    <2>5. WorkerLives' BY <1>0, <1>1, <2>1, <2>2 DEF WorkerLives
    <2>6. Registry' BY <1>1, <2>1, <2>2, Zenon DEF Registry, IInv, Good
    <2>7. HandlesAreLive'
      BY <1>1, <2>1, <2>2, Zenon DEF HandlesAreLive, IInv, Safe
    <2>8. LeaseCount' BY <1>1, <2>1, <2>2, LeaseFrame, Zenon DEF LeaseCount, IInv, Good
    <2> QED BY <1>1, <2>1, <2>4, <2>5, <2>6, <2>7, <2>8, Zenon DEF IInv, Good, Safe
  <1>2. RolledBackServiceRuns BY Zenon DEF IInv, Safe
  <1> USE <1>0, <1>2 DEF Goto, runtime, control, registry, signals, service, OneTransition,
                         RolledBackServiceRuns
  <1>4. CASE begin_initialize(a) BY <1>1, <1>4, Zenon DEF begin_initialize
  <1>5. CASE initialize_fails(a) BY <1>1, <1>5, Zenon DEF initialize_fails
  <1>6. CASE commit_initialize(a) BY <1>1, <1>6, Zenon DEF commit_initialize
  <1>7. CASE begin_shutdown(a) BY <1>1, <1>7, Zenon DEF begin_shutdown
  <1>8. CASE shutdown_preflight(a) BY <1>1, <1>8, Zenon DEF shutdown_preflight, RollBack
  <1>9. CASE shutdown_wait(a)
    <2>0. run = "none" BY <1>9, Zenon DEF shutdown_wait, worker_completed, WorkerLives
    <2> QED BY <1>1, <1>9, <2>0, Zenon DEF shutdown_wait
  <1>10. CASE shutdown_cleanup(a) BY <1>1, <1>10, Zenon DEF shutdown_cleanup
  <1>11. CASE commit_shutdown(a)
    <2>0. run = "none" BY <1>11, Zenon DEF commit_shutdown, WorkerLives
    <2> QED BY <1>1, <1>11, <2>0, Zenon DEF commit_shutdown
  <1> QED BY <1>4, <1>5, <1>6, <1>7, <1>8, <1>9, <1>10, <1>11, Zenon

(* Time, and the scheduler's suspension by a task outside the calls.       *)
LEMMA TimeKeeps ==
    ASSUME IInv, now' \in TS!Duration, suspended' \in Task \cup {Nobody},
           Calm \/ UNCHANGED suspended,
           UNCHANGED <<runtime, control, registry, mutex, signals, service, calls, owners>>
    PROVE  IInv'
  <1>0. UNCHANGED <<phase, leases, caps, slot, worker, timers, next_id, stop_requested, mutex,
                    wake, bit, run, dispatching, alarm, at, arg, drops, handle, captor>>
    BY Zenon DEF runtime, control, registry, signals, service, calls, owners
  <1>1. Types' BY <1>0, Zenon DEF IInv, Types
  <1>2. \A i \in Id : Live(i)' <=> Live(i) BY <1>0, Zenon DEF Live
  <1>3. Safe'
    <2>1. NoLostWake' BY <1>0, <1>2, WakeFrame, Zenon DEF IInv, Safe
    <2>2. OnlySuspendedCallsPanic' BY <1>0, Zenon DEF OnlySuspendedCallsPanic, IInv, Safe, Calm
    <2>3. RolledBackServiceRuns' /\ HandlesAreLive'
      BY <1>0, <1>2, Zenon DEF RolledBackServiceRuns, HandlesAreLive, IInv, Safe
    <2> QED BY <2>1, <2>2, <2>3, Zenon DEF Safe
  <1>4. ASSUME Good PROVE Good'
    <2> USE <1>0, <1>2, <1>4 DEF Good
    <2>1. OneTransition' BY Zenon DEF OneTransition
    <2>2. WorkerLives' BY Zenon DEF WorkerLives
    <2>3. MutexOwner' BY Zenon DEF MutexOwner
    <2>4. Registry' BY Zenon DEF Registry
    <2>5. CallsKeepHandles' BY Zenon DEF CallsKeepHandles, Live
    <2>6. LeaseCount'
      <3>1. Held' = Held /\ InNew' = InNew /\ Leased' = Leased
        BY Zenon DEF Held, InNew, Leased, Creating
      <3> QED BY <3>1, LeaseFrame, Zenon
    <2>7. DropStack' /\ DropsDisjoint' BY DropFrame, Zenon DEF IInv
    <2> QED BY <2>1, <2>2, <2>3, <2>4, <2>5, <2>6, <2>7, Zenon
  <1>5. Calm' <=> Calm BY <1>0, Zenon DEF Calm
  <1> QED BY <1>1, <1>3, <1>4, <1>5, Zenon DEF IInv

(* The panic of a suspended caller disturbs nobody else's state.           *)
LEMMA PanicKeeps ==
    ASSUME IInv, NEW a \in Actor, suspended = a, at' = [at EXCEPT ![a] = "panicked"],
           UNCHANGED <<runtime, control, registry, mutex, signals, service, arg, drops, owners,
                       suspended, now>>
    PROVE  IInv'
  <1>0. UNCHANGED <<phase, leases, caps, slot, worker, timers, next_id, stop_requested, mutex,
                    wake, bit, run, dispatching, alarm, arg, drops, handle, captor, suspended,
                    now>>
    BY Zenon DEF runtime, control, registry, signals, service, owners
  <1>1. Types' BY <1>0, Zenon DEF IInv, Types
  <1>2. \A i \in Id : Live(i)' <=> Live(i) BY <1>0, Zenon DEF Live
  <1>3. NoLostWake' BY <1>0, <1>2, WakeFrame, Zenon DEF IInv, Safe
  <1>4. OnlySuspendedCallsPanic' BY <1>0, Zenon DEF OnlySuspendedCallsPanic, IInv, Safe, Types
  <1>5. RolledBackServiceRuns' /\ HandlesAreLive'
    BY <1>0, <1>2, Zenon DEF RolledBackServiceRuns, HandlesAreLive, IInv, Safe
  <1>6. ~Calm' BY Zenon DEF Calm, IInv, Types
  <1> QED BY <1>1, <1>3, <1>4, <1>5, <1>6, Zenon DEF IInv, Safe

(* After a panic nobody runs, since the scheduler stays suspended.         *)
LEMMA NobodyRuns ==
    ASSUME IInv, ~Calm, Next
    PROVE  tick
  <1>0. PICK b \in Actor : at[b] = "panicked" /\ suspended = b
    BY Zenon DEF IInv, Safe, OnlySuspendedCallsPanic, Calm
  <1>1. ~Runs(Worker) /\ b # Nobody
    BY <1>0, TimerAssumption, Zenon DEF Runs, IInv, Types
  <1>2. \A a \in Actor : Runs(a) => at[a] = "panicked"
    BY <1>0, <1>1, Zenon DEF Runs
  <1>3. ~timer_worker /\ ~callback_returns
    BY <1>1, Zenon
    DEF timer_worker, scan, worker_unlock, wait_until_deadline, dispatch_one, restore,
                complete, worker_leaves, callback_returns, Calls
  <1>4. ASSUME NEW a \in Actor PROVE ~Continue(a)
    BY <1>2, Zenon
    DEF Continue, unlock, new_returns, start, deregister, deregister_returns, drop_lease,
                initialize, commit_initialize, shutdown_preflight, shutdown_request,
                shutdown_wait, shutdown_cleanup, commit_shutdown, register, with_lock
  <1>5. ASSUME NEW a \in Actor PROVE ~Begin(a)
    BY <1>0, <1>1, <1>2, Zenon
    DEF Begin, begin_initialize, initialize_fails, begin_shutdown, new_lease,
                suspend, register_fails, ensure_worker, stop, drop_handle, change_period,
                with_lock, Calls
  <1> QED BY <1>3, <1>4, <1>5, Zenon DEF Next
-----------------------------------------------------------------------------
(* A purge takes deleted entries out, which nobody can see.                *)
LEMMA PurgeIsInvisible ==
    ASSUME timers \in [Id -> Entry]
    PROVE  /\ Purged \in [Id -> Entry]
           /\ \A i \in Id : /\ (Purged[i].status = "live") <=> Live(i)
                            /\ Live(i) => Purged[i] = timers[i]
  <1>1. Absent \in Entry /\ Absent.status = "absent"
    BY TimerAssumption DEF Absent, Entry, TS!TimerStates, TS!Period
  <1> QED BY <1>1, Zenon DEF Purged, Live

LEMMA ShutdownRequestKeeps ==
    ASSUME Facts, IInv, Calm, NEW a \in Actor, shutdown_request(a)
    PROVE  IInv'
  <1> USE DEF IInv, Good, Safe
  <1>0. /\ at[a] = "stop" /\ slot = "Running" /\ phase = "ShuttingDown" /\ caps /\ leases = 0
        /\ at \in [Actor -> CallPoints] /\ timers \in [Id -> Entry]
        /\ UNCHANGED <<leases, caps, next_id, mutex, bit, worker, run, dispatching, alarm, arg,
                       drops, handle, captor, suspended, now>>
    BY Zenon DEF shutdown_request, OneTransition, LeaseCount, Types, RollBack, runtime, signals,
           service, owners
  <1>1. timers' \in [Id -> Entry]
        /\ \A i \in Id : (Live(i)' <=> Live(i)) /\ (Live(i) => timers'[i] = timers[i])
    <2>1. timers' = timers \/ timers' = Purged BY Zenon DEF shutdown_request
    <2> QED BY <1>0, <2>1, PurgeIsInvisible, Zenon DEF Live
  <1>2. \/ /\ at' = [at EXCEPT ![a] = "idle"] /\ phase' = "Running"
           /\ UNCHANGED <<slot, stop_requested, wake>>
        \/ /\ at' = [at EXCEPT ![a] = "await"] /\ wake' = TRUE /\ stop_requested' = TRUE
           /\ slot' = "Stopping" /\ phase' = phase
           /\ \A i \in Id : ~Live(i)
    BY Zenon
    DEF shutdown_request, RollBack, Goto, is_self, runtime, signals, signal_wake, WorkerLives
  <1>3. Held = {} /\ InNew = {}
    <2>1. Cardinality(Held) = 0 /\ Cardinality(InNew) = 0 BY <1>0, Finite DEF LeaseCount
    <2> QED BY <2>1, Finite, EmptySets, Zenon
  <1>4. \A b \in Actor : /\ b # a => at'[b] = at[b] /\ at'[b] \notin Transition
                         /\ at'[a] \in {"idle", "await"}
                         /\ at[b] \in Transition \cup {"idle"}
    <2>1. \A b \in Actor : at[b] \in Transition \cup {"idle"} BY <1>0, CallMeansRunning, Zenon
    <2> QED BY <1>0, <1>2, <2>1, Zenon DEF OneTransition
  <1> HIDE DEF IInv, Good, Safe
  <1>5. Types'
    <2>1. at' \in [Actor -> CallPoints] BY <1>0, <1>2, Zenon
    <2> QED BY <1>0, <1>1, <2>1, Zenon DEF Types, IInv
  <1>6. OneTransition' BY <1>0, <1>2, <1>4 DEF OneTransition, IInv, Good
  <1>7. WorkerLives' BY <1>0, <1>2, <1>4, Zenon DEF WorkerLives, IInv, Good
  <1>8. MutexOwner' BY <1>0, <1>4, Zenon DEF MutexOwner, IInv, Good
  <1>9. Registry' BY <1>0, <1>1, <1>2, <1>4, Zenon DEF Registry, IInv, Good
  <1>10. CallsKeepHandles'
    <2>1. dispatching # 0 => dispatching \in Id
      BY TimerAssumption DEF IInv, Types, Id
    <2> QED BY <1>0, <1>1, <1>4, <2>1, Zenon DEF CallsKeepHandles, IInv, Good
  <1>11. LeaseCount'
    <2>1. Held' = {} /\ InNew' = {} /\ Leased = {} /\ Leased' = {}
      BY <1>0, <1>3, <1>4, Zenon DEF Held, InNew, Leased, Creating
    <2> QED BY <1>0, <1>3, <2>1, Zenon DEF LeaseCount, IInv, Good
  <1>12. DropStack' /\ DropsDisjoint' BY <1>0, <1>1, <1>4, DropFrame, Zenon DEF IInv, Good
  <1>13. NoLostWake'
    <2>1. CASE wake' BY <2>1, Zenon DEF NoLostWake
    <2> QED BY <1>0, <1>1, <1>2, <2>1, WakeFrame, Zenon DEF IInv, Safe
  <1>14. OnlySuspendedCallsPanic' BY <1>4, Zenon DEF OnlySuspendedCallsPanic, Calm
  <1>15. RolledBackServiceRuns' /\ HandlesAreLive'
    <2>1. ~stop_requested BY <1>0, Zenon DEF IInv, Good, OneTransition
    <2>2. RolledBackServiceRuns' BY <1>0, <1>2, <2>1, Zenon DEF RolledBackServiceRuns
    <2>3. \A i \in Id : handle'[i] = "none" BY <1>0, <1>3, Zenon DEF Held
    <2> QED BY <2>2, <2>3, Zenon DEF HandlesAreLive
  <1> QED BY <1>5, <1>6, <1>7, <1>8, <1>9, <1>10, <1>11, <1>12, <1>13, <1>14, <1>15, Zenon
          DEF IInv, Good, Safe

LEMMA InitializeKeeps ==
    ASSUME Facts, IInv, Calm, NEW a \in Actor, initialize(a)
    PROVE  IInv'
  <1> USE DEF IInv, Good, Safe
  <1>0. /\ at[a] = "init" /\ slot = "Stopped" /\ phase = "Initializing" /\ leases = 0
        /\ run = "none" /\ dispatching = 0
        /\ at \in [Actor -> CallPoints]
        /\ UNCHANGED <<phase, leases, caps, run, dispatching, alarm, arg, drops, handle, captor,
                       suspended, now>>
        /\ slot' = "Running" /\ worker' = FALSE /\ timers' = [i \in Id |-> Absent]
        /\ next_id' = 1 /\ stop_requested' = FALSE /\ mutex' = Nobody
        /\ wake' = FALSE /\ bit' = FALSE /\ at' = [at EXCEPT ![a] = "inited"]
    BY Zenon DEF initialize, OneTransition, LeaseCount, Types, WorkerLives, Goto, service, owners
  <1>1. timers' \in [Id -> Entry] /\ \A i \in Id : ~Live(i)'
    <2>1. Absent \in Entry /\ Absent.status = "absent"
      BY TimerAssumption DEF Absent, Entry, TS!TimerStates, TS!Period
    <2> QED BY <1>0, <2>1, Zenon DEF Live
  <1>2. Held = {} /\ InNew = {}
    <2>1. Cardinality(Held) = 0 /\ Cardinality(InNew) = 0 BY <1>0, Finite DEF LeaseCount
    <2> QED BY <2>1, Finite, EmptySets, Zenon
  <1>3. \A b \in Actor : /\ b # a => at'[b] = at[b] /\ at'[b] = "idle"
                         /\ at'[a] = "inited" /\ at[b] \in Transition \cup {"idle"}
    <2>1. \A b \in Actor : at[b] \in Transition \cup {"idle"} BY <1>0, CallMeansRunning, Zenon
    <2> QED BY <1>0, <2>1, Zenon DEF OneTransition
  <1> HIDE DEF IInv, Good, Safe
  <1>4. Types' BY <1>0, <1>1, TimerAssumption DEF Types, IInv
  <1>5. OneTransition' BY <1>0, <1>3 DEF OneTransition
  <1>6. WorkerLives' BY <1>0, <1>3 DEF WorkerLives, IInv, Good
  <1>7. MutexOwner' BY <1>0, <1>3, TimerAssumption, Zenon DEF MutexOwner
  <1>8. \A i \in Id : handle'[i] = "none" BY <1>0, <1>2, Zenon DEF Held
  <1>9. Registry' BY <1>0, <1>1, <1>3, <1>8, Zenon DEF Registry
  <1>10. CallsKeepHandles' BY <1>0, <1>3, Zenon DEF CallsKeepHandles
  <1>11. LeaseCount'
    <2>1. Held' = {} /\ InNew' = {} /\ Leased' = {}
      BY <1>3, <1>8, Zenon DEF Held, InNew, Leased, Creating
    <2> QED BY <1>0, <2>1, EmptySets, TimerAssumption DEF LeaseCount
  <1>12. DropStack' /\ DropsDisjoint'
    <2>1. \A b \in Actor : drops[b] = <<>> BY <1>3, Zenon DEF DropStack, IInv, Good
    <2> QED BY <1>0, <1>3, <2>1 DEF DropStack, DropsDisjoint
  <1>13. Safe'
    BY <1>0, <1>3, <1>8, Zenon DEF Safe, OnlySuspendedCallsPanic, NoLostWake, RolledBackServiceRuns,
                            HandlesAreLive
  <1> QED BY <1>4, <1>5, <1>6, <1>7, <1>9, <1>10, <1>11, <1>12, <1>13, Zenon DEF IInv, Good
-----------------------------------------------------------------------------
(* An operation on a timer's state, under the registry mutex.              *)
LEMMA EditKeeps ==
    ASSUME IInv, Calm, NEW a \in Actor, NEW i \in Id, NEW st \in TS!TimerStates,
           Usable(a, i), Calls(a) \/ at[a] = "ensured", mutex = Nobody, mutex' = a,
           timers' = [timers EXCEPT ![i].state = st],
           arg' = [arg EXCEPT ![a] = i], at' = [at EXCEPT ![a] = "held"],
           wake' \/ (wake' = wake /\ st.deadline = timers[i].state.deadline),
           UNCHANGED <<runtime, control, next_id, stop_requested, bit, service, drops, owners,
                       suspended, now>>
    PROVE  IInv'
  <1>0. UNCHANGED <<phase, leases, caps, slot, worker, next_id, stop_requested, bit, run,
                    dispatching, alarm, drops, handle, captor, suspended, now>>
    BY Zenon DEF runtime, control, service, owners
  <1>1. /\ at \in [Actor -> CallPoints] /\ timers \in [Id -> Entry]
        /\ arg \in [Actor -> 0 .. MaxTimer]
        /\ \A b \in Actor : b # a => at'[b] = at[b] /\ arg'[b] = arg[b]
        /\ at'[a] = "held" /\ arg'[a] = i /\ at[a] \in {"idle", "ensured"}
    BY TimerAssumption, Zenon DEF IInv, Types, Calls, Id
  <1>2. /\ timers' \in [Id -> Entry]
        /\ \A j \in Id : /\ Live(j)' <=> Live(j)
                         /\ timers'[j].callback = timers[j].callback
                         /\ j # i => timers'[j] = timers[j]
                         /\ timers'[i].state = st
    <2> DEFINE e == timers[i]
    <2>1. e \in Entry /\ timers'[i] = [e EXCEPT !.state = st] BY <1>1, Zenon
    <2> HIDE DEF e
    <2>2. timers'[i] = [status |-> e.status, callback |-> e.callback, state |-> st]
      BY <2>1 DEF Entry
    <2>3. /\ timers'[i] \in Entry /\ timers'[i].status = timers[i].status
          /\ timers'[i].callback = timers[i].callback /\ timers'[i].state = st
      BY <2>1, <2>2 DEF Entry, e
    <2> QED BY <1>1, <2>3, Zenon DEF Live
  <1>3. \A b \in Actor : mutex # b BY TimerAssumption, Zenon
  <1>4. at[a] = "idle" /\ a = Worker => run = "callback" BY Zenon DEF Calls, IInv, Good
  <1>5. Types' BY <1>0, <1>1, <1>2, TimerAssumption DEF Types, IInv, Id
  <1>6. OneTransition' BY <1>0, <1>1 DEF OneTransition, IInv, Good
  <1>7. WorkerLives' BY <1>0, <1>1, <1>4 DEF WorkerLives, IInv, Good
  <1>8. MutexOwner' BY <1>0, <1>1, <1>3, Zenon DEF MutexOwner, IInv, Good
  <1>9. Registry' BY <1>0, <1>1, <1>2 DEF Registry, IInv, Good
  <1>10. CallsKeepHandles'
    <2>1. dispatching # 0 => dispatching \in Id
      BY TimerAssumption DEF IInv, Types, Id
    <2> QED BY <1>0, <1>1, <1>2, <2>1 DEF CallsKeepHandles, IInv, Good, Usable
  <1>11. LeaseCount'
    <2>1. Held' = Held /\ Leased' = Leased BY <1>0, <1>1, Zenon DEF Held, Leased
    <2>2. InNew' = InNew BY <1>1, <1>3, Zenon DEF InNew, Creating
    <2> QED BY <1>0, <2>1, <2>2, LeaseFrame, Zenon DEF IInv, Good
  <1>12. DropStack' /\ DropsDisjoint' BY <1>0, <1>1, <1>2, DropFrame, Zenon DEF IInv, Good
  <1>13. NoLostWake'
    <2>1. CASE wake' BY <2>1, Zenon DEF NoLostWake
    <2> QED BY <1>0, <1>2, <2>1, WakeFrame, Zenon DEF IInv, Safe
  <1>14. OnlySuspendedCallsPanic' BY <1>1, Zenon DEF OnlySuspendedCallsPanic, Calm
  <1>15. RolledBackServiceRuns' /\ HandlesAreLive'
    BY <1>0, <1>2 DEF RolledBackServiceRuns, HandlesAreLive, IInv, Safe
  <1> QED BY <1>5, <1>6, <1>7, <1>8, <1>9, <1>10, <1>11, <1>12, <1>13, <1>14, <1>15, Zenon
          DEF IInv, Good, Safe

LEMMA OperationKeeps ==
    ASSUME IInv, Calm, NEW a \in Actor,
           \/ start(a)
           \/ \E i \in Id : stop(a, i) \/ \E period \in Periods : change_period(a, i, period)
    PROVE  IInv'
  <1>0. timers \in [Id -> Entry] /\ now \in Nat /\ arg \in [Actor -> 0 .. MaxTimer]
    BY TimerAssumption DEF IInv, Types, TS!Duration
  <1>1. ASSUME start(a) PROVE IInv'
    <2> DEFINE i == arg[a]
               t == timers[i].state
               deadline == TS!checked_deadline(now, t.period)
    <2>1. at[a] = "ensured" /\ i \in Id /\ Usable(a, i)
      BY <1>1, Zenon DEF start, IInv, Good, CallsKeepHandles, Usable
    <2>2. t \in TS!TimerStates BY <1>0, <2>1, Zenon DEF Entry
    <2>3. deadline = Overflow \/ deadline \in TS!Duration
      BY <1>0, <2>2, TimerAssumption DEF TS!checked_deadline, TS!checked_add, TS!TimerStates,
                                         TS!Duration, TS!Period
    <2>4. TS!start(t, now) \in TS!TimerStates /\ (deadline = Overflow => TS!start(t, now) = t)
      <3>1. CASE deadline = Overflow BY <2>2, <3>1, Zenon DEF TS!start
      <3>2. CASE deadline # Overflow
        <4>1. TS!start(t, now) = [t EXCEPT !.deadline = deadline] BY <3>2, Zenon DEF TS!start
        <4> HIDE DEF t, deadline
        <4> QED BY <2>2, <2>3, <3>2, <4>1, Zenon DEF TS!TimerStates
      <3> QED BY <3>1, <3>2, Zenon
    <2>5. CASE mutex = Nobody
      <3>1. /\ timers' = [timers EXCEPT ![i].state = TS!start(t, now)]
            /\ wake' = start_signal(i) /\ mutex' = a /\ at' = [at EXCEPT ![a] = "held"]
            /\ UNCHANGED <<next_id, stop_requested, arg, owners>> /\ Edits
        BY <1>1, <2>5, Zenon DEF start, with_lock, Goto
      <3>2. wake' \/ (wake' = wake /\ TS!start(t, now).deadline = t.deadline)
        BY <2>4, <3>1, Zenon DEF start_signal, signal_wake
      <3>3. arg' = [arg EXCEPT ![a] = i] BY <1>0, <3>1, Zenon
      <3> HIDE DEF i, t, deadline
      <3> QED BY <2>1, <2>4, <2>5, <3>1, <3>2, <3>3, EditKeeps, Zenon DEF Edits, t
    <2>6. CASE mutex # Nobody
      BY <1>1, <2>6, PanicKeeps, Zenon DEF start, with_lock, Goto
    <2> QED BY <2>5, <2>6, Zenon
  <1>2. ASSUME NEW i \in Id, stop(a, i) PROVE IInv'
    <2> DEFINE t == timers[i].state
    <2>1. t \in TS!TimerStates BY <1>0, Zenon DEF Entry
    <2>2. TS!stop(t) \in TS!TimerStates
      <3> HIDE DEF t
      <3> QED BY <2>1, Zenon DEF TS!stop, TS!TimerStates
    <2>3. CASE mutex = Nobody
      <3>1. /\ timers' = [timers EXCEPT ![i].state = TS!stop(t)]
            /\ wake' /\ mutex' = a /\ at' = [at EXCEPT ![a] = "held"]
            /\ arg' = [arg EXCEPT ![a] = i] /\ Calls(a) /\ Usable(a, i)
            /\ UNCHANGED <<next_id, stop_requested, owners>> /\ Edits
        BY <1>2, <2>3, Zenon DEF stop, with_lock, Goto, signal_wake
      <3> HIDE DEF t
      <3> QED BY <2>2, <2>3, <3>1, EditKeeps, Zenon DEF Edits
    <2>4. CASE mutex # Nobody
      BY <1>2, <2>4, PanicKeeps, Zenon DEF stop, with_lock, Goto
    <2> QED BY <2>3, <2>4, Zenon
  <1>3. ASSUME NEW i \in Id, NEW period \in Periods, change_period(a, i, period) PROVE IInv'
    <2> DEFINE t == timers[i].state
    <2>1. t \in TS!TimerStates BY <1>0, Zenon DEF Entry
    <2>2. TS!change_period(t, period) \in TS!TimerStates
          /\ TS!change_period(t, period).deadline = t.deadline
      <3> HIDE DEF t
      <3> QED BY <2>1, TimerAssumption, Zenon DEF TS!change_period, TS!TimerStates, TS!Period
    <2>3. CASE mutex = Nobody
      <3>1. /\ timers' = [timers EXCEPT ![i].state = TS!change_period(t, period)]
            /\ wake' = wake /\ mutex' = a /\ at' = [at EXCEPT ![a] = "held"]
            /\ arg' = [arg EXCEPT ![a] = i] /\ Calls(a) /\ Usable(a, i)
            /\ UNCHANGED <<next_id, stop_requested, owners>> /\ Edits
        BY <1>3, <2>3, Zenon DEF change_period, with_lock, Goto
      <3>2. TS!change_period(t, period).deadline = timers[i].state.deadline BY <2>2, Zenon
      <3> HIDE DEF t
      <3> QED BY <2>2, <2>3, <3>1, <3>2, EditKeeps, Zenon DEF Edits
    <2>4. CASE mutex # Nobody
      BY <1>3, <2>4, PanicKeeps, Zenon DEF change_period, with_lock, Goto
    <2> QED BY <2>3, <2>4, Zenon
  <1> QED BY <1>1, <1>2, <1>3, Zenon

(* The worker is created, or the mutex is given back.                      *)
LEMMA EnsureWorkerKeeps ==
    ASSUME Facts, IInv, Calm, NEW a \in Actor, NEW i \in Id, ensure_worker(a, i)
    PROVE  IInv'
  <1>0. /\ UNCHANGED <<phase, leases, caps, slot, timers, next_id, stop_requested, mutex, wake,
                       bit, dispatching, alarm, drops, handle, captor, suspended, now>>
        /\ worker' = TRUE /\ (run' = run \/ (run = "none" /\ run' = "scan"))
        /\ Usable(a, i) /\ at[a] = "idle" /\ (a = Worker => run = "callback")
    <2>1. ~worker => run = "none" BY Zenon DEF IInv, Good, WorkerLives
    <2> QED BY <2>1, Zenon DEF ensure_worker, runtime, registry, signals, owners, Calls
  <1>1. /\ at \in [Actor -> CallPoints] /\ arg \in [Actor -> 0 .. MaxTimer]
        /\ \A b \in Actor : b # a => at'[b] = at[b] /\ arg'[b] = arg[b]
        /\ at'[a] = "ensured" /\ arg'[a] = i /\ at' = [at EXCEPT ![a] = "ensured"]
        /\ arg' = [arg EXCEPT ![a] = i]
    BY Zenon DEF IInv, Types, ensure_worker, Goto
  <1>2. phase = "Running" /\ slot = "Running" /\ caps /\ ~stop_requested /\ ~bit
    <2>1. i \in Held BY <1>0, Zenon DEF Held, Usable
    <2>2. phase = "Running" /\ slot = "Running" /\ caps /\ ~stop_requested
      BY <2>1, LeaseMeansRunning, Zenon
    <2> QED BY <2>2, Zenon DEF IInv, Good, WorkerLives
  <1>3. \A j \in Id : Live(j)' <=> Live(j) BY <1>0, Zenon DEF Live
  <1>4. Types'
    <2>1. at' \in [Actor -> CallPoints] /\ arg' \in [Actor -> 0 .. MaxTimer]
      BY <1>1, TimerAssumption DEF Id
    <2>2. run' \in RunPoints BY <1>0, Zenon DEF Types, IInv
    <2> QED BY <1>0, <2>1, <2>2, Zenon DEF Types, IInv
  <1>5. OneTransition' BY <1>0, <1>1, <1>2, Zenon DEF OneTransition, IInv, Good
  <1>6. WorkerLives' BY <1>0, <1>1, <1>2, Zenon DEF WorkerLives, IInv, Good
  <1>7. MutexOwner' BY <1>0, <1>1, Zenon DEF MutexOwner, IInv, Good
  <1>8. Registry' BY <1>0, <1>1, <1>3 DEF Registry, IInv, Good
  <1>9. CallsKeepHandles'
    BY <1>0, <1>1 DEF CallsKeepHandles, WorkerLives, IInv, Good, Usable, Live
  <1>10. LeaseCount'
    <2>1. Held' = Held /\ Leased' = Leased /\ InNew' = InNew
      BY <1>0, <1>1, Zenon DEF Held, Leased, InNew, Creating
    <2> QED BY <1>0, <2>1, LeaseFrame, Zenon DEF IInv, Good
  <1>11. DropStack' /\ DropsDisjoint' BY <1>0, <1>1, <1>3, DropFrame, Zenon DEF IInv, Good
  <1>12. NoLostWake' BY <1>0, <1>3, WakeFrame, Zenon DEF IInv, Safe
  <1>13. OnlySuspendedCallsPanic' BY <1>1, Zenon DEF OnlySuspendedCallsPanic, Calm
  <1>14. RolledBackServiceRuns' /\ HandlesAreLive'
    BY <1>0, <1>3, Zenon DEF RolledBackServiceRuns, HandlesAreLive, IInv, Safe
  <1> QED BY <1>4, <1>5, <1>6, <1>7, <1>8, <1>9, <1>10, <1>11, <1>12, <1>13, <1>14, Zenon
          DEF IInv, Good, Safe

LEMMA UnlockKeeps ==
    ASSUME IInv, Calm, NEW a \in Actor, unlock(a)
    PROVE  IInv'
  <1>0. /\ UNCHANGED <<phase, leases, caps, slot, worker, timers, next_id, stop_requested, wake,
                       bit, run, dispatching, alarm, drops, handle, captor, suspended, now>>
        /\ at[a] = "held" /\ mutex' = Nobody
    BY Zenon DEF unlock, runtime, control, registry, signals, service, owners
  <1>1. /\ at \in [Actor -> CallPoints] /\ arg \in [Actor -> 0 .. MaxTimer]
        /\ \A b \in Actor : b # a => at'[b] = at[b] /\ arg'[b] = arg[b]
        /\ at'[a] = "idle" /\ at' = [at EXCEPT ![a] = "idle"] /\ arg' = [arg EXCEPT ![a] = 0]
    BY Zenon DEF IInv, Types, unlock, Return, Goto
  <1>2. mutex = a /\ \A b \in Actor : mutex' # b
    BY <1>0, TimerAssumption, Zenon DEF IInv, Good, MutexOwner
  <1>3. \A j \in Id : Live(j)' <=> Live(j) BY <1>0, Zenon DEF Live
  <1>4. Types' BY <1>0, <1>1, TimerAssumption DEF Types, IInv
  <1>5. OneTransition' BY <1>0, <1>1, Zenon DEF OneTransition, IInv, Good
  <1>6. WorkerLives' BY <1>0, <1>1, Zenon DEF WorkerLives, IInv, Good
  <1>7. MutexOwner' BY <1>0, <1>1, <1>2, Zenon DEF MutexOwner, WorkerLives, IInv, Good
  <1>8. Registry' BY <1>0, <1>1, <1>3, Zenon DEF Registry, IInv, Good
  <1>9. CallsKeepHandles' BY <1>0, <1>1, Zenon DEF CallsKeepHandles, IInv, Good, Live
  <1>10. LeaseCount'
    <2>1. Held' = Held /\ Leased' = Leased BY <1>0, <1>1, Zenon DEF Held, Leased
    <2>2. InNew' = InNew BY <1>0, <1>1, <1>2, Zenon DEF InNew, Creating
    <2> QED BY <1>0, <2>1, <2>2, LeaseFrame, Zenon DEF IInv, Good
  <1>11. DropStack' /\ DropsDisjoint' BY <1>0, <1>1, <1>3, DropFrame, Zenon DEF IInv, Good
  <1>12. NoLostWake' BY <1>0, <1>3, WakeFrame, Zenon DEF IInv, Safe
  <1>13. OnlySuspendedCallsPanic' BY <1>1, Zenon DEF OnlySuspendedCallsPanic, Calm
  <1>14. RolledBackServiceRuns' /\ HandlesAreLive'
    BY <1>0, <1>3, Zenon DEF RolledBackServiceRuns, HandlesAreLive, IInv, Safe
  <1> QED BY <1>4, <1>5, <1>6, <1>7, <1>8, <1>9, <1>10, <1>11, <1>12, <1>13, <1>14, Zenon
          DEF IInv, Good, Safe
-----------------------------------------------------------------------------
LEMMA NewLeaseKeeps ==
    ASSUME Facts, IInv, Calm, NEW a \in Actor, new_lease(a)
    PROVE  IInv'
  <1>0. /\ UNCHANGED <<phase, caps, slot, worker, timers, next_id, stop_requested, mutex, wake,
                       bit, run, dispatching, alarm, arg, drops, handle, captor, suspended, now>>
        /\ at[a] = "idle" /\ (a = Worker => run = "callback") /\ leases' = leases + 1
        /\ phase = "Running" /\ next_id + Cardinality(Leased) <= MaxTimer
    BY Zenon DEF new_lease, control, registry, signals, service, owners, Calls, Leased
  <1>1. /\ at \in [Actor -> CallPoints]
        /\ \A b \in Actor : b # a => at'[b] = at[b]
        /\ at'[a] = "leased" /\ at' = [at EXCEPT ![a] = "leased"]
    BY Zenon DEF IInv, Types, new_lease, Goto
  <1>3. \A j \in Id : Live(j)' <=> Live(j) BY <1>0, Zenon DEF Live
  <1>4. Types' BY <1>0, <1>1 DEF Types, IInv
  <1>5. OneTransition' BY <1>0, <1>1, Zenon DEF OneTransition, IInv, Good
  <1>6. WorkerLives' BY <1>0, <1>1, Zenon DEF WorkerLives, IInv, Good
  <1>7. MutexOwner' BY <1>0, <1>1, Zenon DEF MutexOwner, IInv, Good
  <1>8. Registry' BY <1>0, <1>1, <1>3, Zenon DEF Registry, IInv, Good
  <1>9. CallsKeepHandles' BY <1>0, <1>1, Zenon DEF CallsKeepHandles, IInv, Good, Live
  <1>10. LeaseCount'
    <2>1. Held' = Held BY <1>0, Zenon DEF Held
    <2>2. Leased' = Leased \cup {a} /\ a \notin Leased BY <1>0, <1>1, Zenon DEF Leased
    <2>3. InNew' = InNew \cup {a} /\ a \notin InNew BY <1>0, <1>1, Zenon DEF InNew, Creating
    <2>4. /\ Cardinality(Leased') = Cardinality(Leased) + 1
          /\ Cardinality(InNew') = Cardinality(InNew) + 1
      BY <2>2, <2>3, Finite, Zenon DEF Facts
    <2>5. leases = Cardinality(Held) + Cardinality(InNew) /\ next_id \in Nat
      BY DEF IInv, Good, LeaseCount, Types
    <2> QED BY <1>0, <2>1, <2>4, <2>5, Finite, TimerAssumption DEF LeaseCount
  <1>11. DropStack' /\ DropsDisjoint' BY <1>0, <1>1, <1>3, DropFrame, Zenon DEF IInv, Good
  <1>12. NoLostWake' BY <1>0, <1>3, WakeFrame, Zenon DEF IInv, Safe
  <1>13. OnlySuspendedCallsPanic' BY <1>1, Zenon DEF OnlySuspendedCallsPanic, Calm
  <1>14. RolledBackServiceRuns' /\ HandlesAreLive'
    BY <1>0, <1>3, Zenon DEF RolledBackServiceRuns, HandlesAreLive, IInv, Safe
  <1> QED BY <1>4, <1>5, <1>6, <1>7, <1>8, <1>9, <1>10, <1>11, <1>12, <1>13, <1>14, Zenon
          DEF IInv, Good, Safe

(* The next identity is free, and a captured handle is in no call.         *)
LEMMA RegisterFinds ==
    ASSUME Facts, IInv, Calm, NEW a \in Actor, at[a] = "leased", NEW k \in Capturable
    PROVE  /\ next_id \in Id /\ handle[next_id] = "none" /\ ~Live(next_id) /\ k # next_id
           /\ k = 0 \/ (k \in Id /\ Unused(k))
           /\ Cardinality(Leased) > 0 /\ a \in Leased
  <1>1. a \in Leased BY Zenon DEF Leased
  <1>2. Cardinality(Leased) > 0
    <2>1. Cardinality(Leased) # 0 BY <1>1, Finite, EmptySets, Zenon
    <2> QED BY <2>1, Finite
  <1>3. next_id \in Id
    <2>1. next_id \in 1 .. MaxTimer + 1 /\ next_id + Cardinality(Leased) <= MaxTimer + 1
      BY Zenon DEF IInv, Good, LeaseCount, Types
    <2> QED BY <1>2, <2>1, Finite, TimerAssumption DEF Id
  <1>4. handle[next_id] = "none" /\ ~Live(next_id)
    BY <1>3 DEF IInv, Good, Registry, Id
  <1>5. k = 0 \/ (k \in Id /\ Unused(k)) BY Zenon DEF Capturable
  <1> QED BY <1>1, <1>2, <1>3, <1>4, <1>5 DEF Unused, Id

LEMMA RegisterKeeps ==
    ASSUME Facts, IInv, Calm, NEW a \in Actor,
           NEW period \in Periods, NEW mode \in {"OneShot", "Periodic"},
           NEW k \in 0 .. MaxTimer, register(a, period, mode, k), mutex = Nobody
    PROVE  IInv'
  <1> DEFINE entry == [status |-> "live", callback |-> TRUE, state |-> TS!new(period, mode)]
  <1>0. /\ UNCHANGED <<phase, leases, caps, slot, worker, stop_requested, bit, run, dispatching,
                       alarm, drops, suspended, now>>
        /\ at[a] = "leased" /\ mutex' = a /\ wake' /\ next_id' = next_id + 1
        /\ timers' = [timers EXCEPT ![next_id] = entry]
        /\ at' = [at EXCEPT ![a] = "registered"] /\ arg' = [arg EXCEPT ![a] = next_id]
        /\ handle' = [i \in Id |-> IF i = k THEN "callback" ELSE handle[i]]
        /\ captor' = [i \in Id |-> IF i = k THEN next_id ELSE captor[i]]
        /\ k \in Capturable
    BY Zenon DEF register, with_lock, Goto, Edits, signal_wake, runtime, control, service
  <1>1. /\ next_id \in Id /\ handle[next_id] = "none" /\ ~Live(next_id) /\ k # next_id
        /\ k = 0 \/ (k \in Id /\ Unused(k))
        /\ Cardinality(Leased) > 0 /\ a \in Leased
    BY <1>0, RegisterFinds, Zenon
  <1>2. entry \in Entry
    <2>1. TS!new(period, mode) \in TS!TimerStates
      BY TimerAssumption, Zenon DEF TS!new, TS!TimerStates, TS!Period
    <2> QED BY <2>1, Zenon DEF Entry
  <1>3. /\ timers \in [Id -> Entry] /\ timers' \in [Id -> Entry]
        /\ \A i \in Id : /\ Live(i)' <=> Live(i) \/ i = next_id
                         /\ i # next_id => timers'[i] = timers[i]
    <2>1. timers \in [Id -> Entry] /\ entry.status = "live" BY Zenon DEF IInv, Types
    <2> HIDE DEF entry
    <2> QED BY <1>0, <1>1, <1>2, <2>1, Zenon DEF Live
  <1> HIDE DEF entry
  <1>4. /\ at \in [Actor -> CallPoints] /\ arg \in [Actor -> 0 .. MaxTimer]
        /\ \A b \in Actor : b # a => at'[b] = at[b] /\ arg'[b] = arg[b]
        /\ at'[a] = "registered" /\ arg'[a] = next_id
    BY <1>0, Zenon DEF IInv, Types
  <1>5. /\ handle \in [Id -> {"none", "app", "callback", "dropping"}]
        /\ captor \in [Id -> 0 .. MaxTimer]
        /\ \A i \in Id : i # k => handle'[i] = handle[i] /\ captor'[i] = captor[i]
        /\ k \in Id => /\ handle[k] = "app" /\ handle'[k] = "callback"
                       /\ \A b \in Actor : arg[b] # k
    BY <1>0, <1>1 DEF IInv, Types, Unused, Id
  <1>6. next_id \in 0 .. MaxTimer /\ next_id' \in 1 .. MaxTimer + 1 /\ \A b \in Actor : mutex # b
    BY <1>0, <1>1, TimerAssumption DEF Id
  <1>7. Types'
    <2>1. /\ handle' \in [Id -> {"none", "app", "callback", "dropping"}]
          /\ captor' \in [Id -> 0 .. MaxTimer]
      BY <1>0, <1>5, <1>6, Zenon
    <2>2. at' \in [Actor -> CallPoints] /\ arg' \in [Actor -> 0 .. MaxTimer]
      BY <1>0, <1>4, <1>6, Zenon
    <2> QED BY <1>0, <1>3, <1>6, <2>1, <2>2, Zenon DEF Types, IInv
  <1>8. OneTransition' BY <1>0, <1>4, Zenon DEF OneTransition, IInv, Good
  <1>9. WorkerLives'
    <2>1. dispatching < next_id' BY <1>0, <1>6 DEF WorkerLives, IInv, Good, Types
    <2> QED BY <1>0, <1>4, <2>1, Zenon DEF WorkerLives, IInv, Good
  <1>10. MutexOwner' BY <1>0, <1>4, <1>6, Zenon DEF MutexOwner, IInv, Good
  <1>11. Registry'
    <2>1. \A i \in Id : i >= next_id' => handle'[i] = "none" /\ ~Live(i)'
      BY <1>0, <1>1, <1>3, <1>5, <1>6 DEF Registry, IInv, Good, Id
    <2>2. slot = "Running" BY Zenon DEF register
    <2>3. ASSUME NEW b \in Actor, at'[b] = "registered"
          PROVE  arg'[b] \in Id /\ Live(arg[b])' /\ handle'[arg'[b]] = "none"
      <3>1. CASE b = a BY <1>1, <1>3, <1>4, <1>5, <3>1, Zenon
      <3>2. CASE b # a BY <1>3, <1>4, <1>5, <2>3, <3>2 DEF Registry, IInv, Good
      <3> QED BY <3>1, <3>2, Zenon
    <2> QED BY <1>0, <2>1, <2>2, <2>3, Zenon DEF Registry
  <1>12. CallsKeepHandles'
    <2>1. dispatching # 0 => dispatching \in Id /\ dispatching # next_id
      BY <1>6, TimerAssumption DEF IInv, Good, WorkerLives, Types, Id
    <2>2. \A b \in Actor : at'[b] \in {"ensured", "held"} =>
             /\ arg'[b] \in Id
             /\ handle'[arg'[b]] = handle[arg[b]] /\ captor'[arg'[b]] = captor[arg[b]]
             /\ at[b] = at'[b] /\ arg'[b] = arg[b]
      BY <1>4, <1>5 DEF CallsKeepHandles, IInv, Good
    <2>3. \A b \in Actor : at'[b] = "nested" => at[b] = "nested" BY <1>4, Zenon
    <2> QED BY <1>0, <1>3, <2>1, <2>2, <2>3, SMTT(30) DEF CallsKeepHandles, IInv, Good
  <1>13. LeaseCount'
    <2>1. Held' = Held BY <1>5, Zenon DEF Held
    <2>2. InNew' = InNew BY <1>0, <1>4, <1>6, Zenon DEF InNew, Creating
    <2>3. Leased' = Leased \ {a} BY <1>4, Zenon DEF Leased
    <2>4. Cardinality(Leased') = Cardinality(Leased) - 1
      BY <1>1, <2>3, Finite, Zenon DEF Facts
    <2>5. next_id \in Nat /\ next_id + Cardinality(Leased) <= MaxTimer + 1
      BY <1>6 DEF LeaseCount, IInv, Good
    <2> QED BY <1>0, <2>1, <2>2, <2>4, <2>5, Finite, TimerAssumption DEF LeaseCount, IInv, Good
  <1>14. DropStack' /\ DropsDisjoint' BY <1>0, <1>3, <1>4, <1>5, DropFrame, Zenon DEF IInv, Good
  <1>15. OnlySuspendedCallsPanic' /\ NoLostWake' /\ RolledBackServiceRuns'
    BY <1>0, <1>4, Zenon
    DEF OnlySuspendedCallsPanic, NoLostWake, RolledBackServiceRuns, Calm, IInv, Safe
  <1>16. HandlesAreLive' BY <1>0, <1>3, <1>5, Zenon DEF HandlesAreLive, IInv, Safe
  <1> QED BY <1>7, <1>8, <1>9, <1>10, <1>11, <1>12, <1>13, <1>14, <1>15, <1>16, Zenon
          DEF IInv, Good, Safe

(* A stack of handles: one of them, one more, one less.                    *)
LEMMA Single ==
    ASSUME NEW k \in Id
    PROVE  /\ <<k>> \in Seq(Id) /\ <<k>> # <<>> /\ Head(<<k>>) = k
           /\ \A j \in 1 .. Len(<<k>>) : j = 1 /\ <<k>>[j] = k
  OBVIOUS

LEMMA Push ==
    ASSUME NEW s \in Seq(Id), NEW k \in Id, NEW t, t = <<k>> \o s
    PROVE  /\ t \in Seq(Id) /\ t # <<>> /\ Head(t) = k
           /\ \A j \in 1 .. Len(t) : \/ j = 1 /\ t[j] = k
                                     \/ j - 1 \in 1 .. Len(s) /\ t[j] = s[j - 1]
  <1>1. t \in Seq(Id) /\ Len(t) = Len(s) + 1 OBVIOUS
  <1>2. t[1] = k OBVIOUS
  <1>3. ASSUME NEW j \in 1 .. Len(t), j # 1 PROVE j - 1 \in 1 .. Len(s) /\ t[j] = s[j - 1]
    BY <1>1, <1>3
  <1> QED BY <1>1, <1>2, <1>3

LEMMA Pop ==
    ASSUME NEW s \in Seq(Id), s # <<>>, NEW t, t = Tail(s)
    PROVE  /\ t \in Seq(Id) /\ Head(s) = s[1] /\ s[1] \in Id /\ 1 \in 1 .. Len(s)
           /\ t = <<>> <=> Len(s) = 1
           /\ \A j \in 1 .. Len(t) : j + 1 \in 1 .. Len(s) /\ t[j] = s[j + 1]
  <1>1. t \in Seq(Id) /\ Len(t) = Len(s) - 1 /\ Len(s) \in Nat /\ Len(s) >= 1 OBVIOUS
  <1>2. \A j \in 1 .. Len(t) : j + 1 \in 1 .. Len(s) /\ t[j] = s[j + 1] BY <1>1
  <1>3. t = <<>> <=> Len(s) = 1
    <2>0. Len(<<>>) = 0 BY Zenon
    <2>1. CASE t = <<>>
      <3>1. Len(t) = 0 BY <2>0, <2>1, Zenon
      <3> QED BY <1>1, <2>1, <3>1
    <2>2. CASE Len(s) = 1 BY <1>1, <2>2
    <2> QED BY <2>1, <2>2, Zenon
  <1> QED BY <1>1, <1>2, <1>3

(* What is on a stack is being dropped.                                    *)
LEMMA OnStack ==
    ASSUME IInv, Calm, NEW b \in Actor, NEW j \in 1 .. Len(drops[b])
    PROVE  drops[b][j] \in Id /\ handle[drops[b][j]] = "dropping"
  BY DEF IInv, Types, Good, DropStack

LEMMA TopOfStack ==
    ASSUME IInv, Calm, NEW b \in Actor, at[b] \in DropPoints
    PROVE  /\ drops[b] \in Seq(Id) /\ drops[b] # <<>> /\ 1 \in 1 .. Len(drops[b])
           /\ Head(drops[b]) = drops[b][1] /\ Head(drops[b]) \in Id
           /\ handle[Head(drops[b])] = "dropping"
  <1>1. drops[b] \in Seq(Id) /\ drops[b] # <<>> BY Zenon DEF IInv, Types, Good, DropStack
  <1>2. 1 \in 1 .. Len(drops[b]) /\ Head(drops[b]) = drops[b][1] BY <1>1
  <1> QED BY <1>1, <1>2, OnStack, Zenon

LEMMA PushKeeps ==
    ASSUME IInv, Calm, NEW a \in Actor, NEW k \in Id, handle[k] # "dropping",
           NEW t, t = <<k>> \/ t = <<k>> \o drops[a],
           drops' = [drops EXCEPT ![a] = t], at' = [at EXCEPT ![a] = "drop"],
           handle'[k] = "dropping", \A i \in Id : i # k => handle'[i] = handle[i],
           \A i \in Id : Live(i)' <=> Live(i), Live(k)
    PROVE  drops' \in [Actor -> Seq(Id)] /\ DropStack' /\ DropsDisjoint'
  <1>0. drops \in [Actor -> Seq(Id)] /\ at \in [Actor -> CallPoints] BY Zenon DEF IInv, Types
  <1>1. /\ t \in Seq(Id) /\ t # <<>> /\ Head(t) = k
        /\ \A j \in 1 .. Len(t) : \/ j = 1 /\ t[j] = k
                                  \/ j - 1 \in 1 .. Len(drops[a]) /\ t[j] = drops[a][j - 1]
    <2>1. CASE t = <<k>> BY <2>1, Single, Zenon
    <2>2. CASE t = <<k>> \o drops[a] BY <1>0, <2>2, Push
    <2> QED BY <2>1, <2>2, Zenon
  <1>2. /\ drops' \in [Actor -> Seq(Id)] /\ drops'[a] = t /\ at'[a] = "drop"
        /\ \A b \in Actor : b # a => drops'[b] = drops[b] /\ at'[b] = at[b]
    BY <1>0, <1>1, Zenon
  <1>3. \A b \in Actor : \A j \in 1 .. Len(drops[b]) : drops[b][j] \in Id /\ drops[b][j] # k
                                                       /\ handle[drops[b][j]] = "dropping"
    BY OnStack, Zenon
  <1>4. DropStack'
    <2>1. \A b \in Actor : at'[b] \in DropPoints <=> drops'[b] # <<>>
      BY <1>1, <1>2, Zenon DEF IInv, Good, DropStack
    <2>2. ASSUME NEW b \in Actor, at'[b] = "drop" PROVE Live(Head(drops[b]))'
      <3>1. CASE b = a BY <1>1, <1>2, <3>1, Zenon
      <3>2. CASE b # a
        <4>1. at[b] = "drop" /\ drops'[b] = drops[b] BY <1>2, <2>2, <3>2, Zenon
        <4>2. Live(Head(drops[b])) BY <4>1, Zenon DEF IInv, Good, DropStack
        <4>3. Head(drops[b]) \in Id BY <4>1, TopOfStack, Zenon
        <4> QED BY <4>1, <4>2, <4>3, Zenon
      <3> QED BY <3>1, <3>2, Zenon
    <2>3. ASSUME NEW b \in Actor, NEW j \in 1 .. Len(drops'[b])
          PROVE  handle'[drops'[b][j]] = "dropping"
      <3>1. CASE b = a
        <4>1. \/ t[j] = k
              \/ j - 1 \in 1 .. Len(drops[a]) /\ t[j] = drops[a][j - 1]
          BY <1>1, <1>2, <3>1, Zenon
        <4>2. t[j] \in Id /\ (t[j] # k => handle[t[j]] = "dropping") BY <1>3, <4>1
        <4> QED BY <1>2, <3>1, <4>2, Zenon
      <3>2. CASE b # a BY <1>2, <1>3, <3>2
      <3> QED BY <3>1, <3>2, Zenon
    <2> QED BY <2>1, <2>2, <2>3, Zenon DEF DropStack
  <1>5. ASSUME NEW b \in Actor, NEW c \in Actor, NEW j \in 1 .. Len(drops'[b]),
               NEW m \in 1 .. Len(drops'[c]), drops'[b][j] = drops'[c][m]
        PROVE  b = c /\ j = m
    <2>0. DropsDisjoint BY Zenon DEF IInv, Good
    <2> USE DEF DropsDisjoint
    <2>1. CASE b # a /\ c # a BY <1>2, <1>5, <2>0, <2>1
    <2>2. CASE b = a /\ c # a BY <1>1, <1>2, <1>3, <1>5, <2>0, <2>2
    <2>3. CASE b # a /\ c = a BY <1>1, <1>2, <1>3, <1>5, <2>0, <2>3
    <2>4. CASE b = a /\ c = a
      <3>1. \/ j = 1 /\ t[j] = k
            \/ j - 1 \in 1 .. Len(drops[a]) /\ t[j] = drops[a][j - 1]
        BY <1>1, <1>2, <2>4, Zenon
      <3>2. \/ m = 1 /\ t[m] = k
            \/ m - 1 \in 1 .. Len(drops[a]) /\ t[m] = drops[a][m - 1]
        BY <1>1, <1>2, <2>4, Zenon
      <3>3. t[j] = t[m] BY <1>2, <1>5, <2>4, Zenon
      <3>4. j \in Int /\ m \in Int BY <1>1, <1>2, <2>4
      <3> QED BY <1>3, <2>0, <2>4, <3>1, <3>2, <3>3, <3>4
    <2> QED BY <2>1, <2>2, <2>3, <2>4, Zenon
  <1> QED BY <1>2, <1>4, <1>5, Zenon DEF DropsDisjoint

LEMMA RegisterFailsKeeps ==
    ASSUME Facts, IInv, Calm, NEW a \in Actor, NEW k \in 0 .. MaxTimer, register_fails(a, k),
           mutex = Nobody
    PROVE  IInv'
  <1>0. /\ UNCHANGED <<phase, leases, caps, slot, worker, timers, next_id, stop_requested, wake,
                       bit, run, dispatching, alarm, arg, captor, suspended, now>>
        /\ at[a] = "leased" /\ mutex' = a /\ k \in Capturable
        /\ handle' = [i \in Id |-> IF i = k THEN "dropping" ELSE handle[i]]
        /\ drops' = [drops EXCEPT ![a] = IF k = 0 THEN <<>> ELSE <<k>>]
        /\ at' = [at EXCEPT ![a] = IF k = 0 THEN "refused" ELSE "drop"]
    BY Zenon DEF register_fails, with_lock, Goto, runtime, control, registry, signals, service
  <1>1. k = 0 \/ (k \in Id /\ Unused(k)) BY <1>0, RegisterFinds, Zenon
  <1>2. /\ at \in [Actor -> CallPoints] /\ drops \in [Actor -> Seq(Id)]
        /\ \A b \in Actor : b # a => at'[b] = at[b]
        /\ at'[a] = IF k = 0 THEN "refused" ELSE "drop"
    BY <1>0, Zenon DEF IInv, Types
  <1>3. /\ handle \in [Id -> {"none", "app", "callback", "dropping"}]
        /\ \A i \in Id : i # k => handle'[i] = handle[i]
        /\ k \in Id => /\ handle[k] = "app" /\ handle'[k] = "dropping"
                       /\ \A b \in Actor : arg[b] # k
    BY <1>0, <1>1 DEF IInv, Types, Unused, Id
  <1>4. \A i \in Id : Live(i)' <=> Live(i) BY <1>0, Zenon DEF Live
  <1>5. \A b \in Actor : mutex # b BY TimerAssumption, Zenon
  <1>6. drops' \in [Actor -> Seq(Id)] /\ DropStack' /\ DropsDisjoint'
    <2>1. CASE k = 0
      <3>1. drops[a] = <<>> BY <1>0, Zenon DEF IInv, Good, DropStack
      <3>2. drops' = drops BY <1>0, <1>2, <2>1, <3>1, Zenon
      <3>3. k \notin Id BY <2>1 DEF Id
      <3> QED BY <1>0, <1>2, <1>3, <1>4, <2>1, <3>2, <3>3, DropFrame, Zenon DEF IInv, Good
    <2>2. CASE k \in Id
      <3>1. k # 0 /\ Live(k) BY <1>3, <2>2 DEF IInv, Safe, HandlesAreLive, Id
      <3>2. drops' = [drops EXCEPT ![a] = <<k>>] /\ at' = [at EXCEPT ![a] = "drop"]
        BY <1>0, <3>1, Zenon
      <3>3. handle[k] # "dropping" BY <1>3, <2>2, Zenon
      <3> QED BY <1>3, <1>4, <2>2, <3>1, <3>2, <3>3, PushKeeps, Zenon
    <2> QED BY <1>1, <2>1, <2>2, Zenon
  <1>7. Types'
    <2>1. handle' \in [Id -> {"none", "app", "callback", "dropping"}] BY <1>0, <1>3, Zenon
    <2> QED BY <1>0, <1>2, <1>6, <2>1, Zenon DEF Types, IInv
  <1>8. OneTransition' BY <1>0, <1>2, Zenon DEF OneTransition, IInv, Good
  <1>9. WorkerLives' BY <1>0, <1>2, Zenon DEF WorkerLives, IInv, Good
  <1>10. MutexOwner' BY <1>0, <1>2, <1>5, Zenon DEF MutexOwner, IInv, Good
  <1>11. Registry'
    <2>1. \A i \in Id : i >= next_id => handle'[i] = "none" /\ ~Live(i)'
      BY <1>3, <1>4, Zenon DEF Registry, IInv, Good
    <2> QED BY <1>0, <1>2, <1>3, <1>4, <2>1 DEF Registry, IInv, Good
  <1>12. CallsKeepHandles'
    <2>1. \A b \in Actor : at'[b] = "nested" => mutex = b
      BY <1>2, Zenon DEF MutexOwner, IInv, Good
    <2> QED BY <1>0, <1>2, <1>3, <1>5, <2>1, Zenon DEF CallsKeepHandles, IInv, Good, Live
  <1>13. LeaseCount'
    <2>1. Held' = Held BY <1>3, Zenon DEF Held
    <2>2. InNew' = InNew BY <1>0, <1>2, <1>5, Zenon DEF InNew, Creating
    <2>3. Leased' = Leased \ {a} /\ a \in Leased BY <1>0, <1>2, Zenon DEF Leased
    <2>4. Cardinality(Leased') = Cardinality(Leased) - 1
      BY <2>3, Finite, Zenon DEF Facts
    <2>5. next_id \in Nat BY DEF IInv, Types
    <2> QED BY <1>0, <2>1, <2>2, <2>4, <2>5, Finite, TimerAssumption DEF LeaseCount, IInv, Good
  <1>14. NoLostWake' BY <1>0, <1>4, WakeFrame, Zenon DEF IInv, Safe
  <1>15. OnlySuspendedCallsPanic' /\ RolledBackServiceRuns'
    BY <1>0, <1>2, Zenon DEF OnlySuspendedCallsPanic, RolledBackServiceRuns, Calm, IInv, Safe
  <1>16. HandlesAreLive' BY <1>0, <1>3, <1>4, Zenon DEF HandlesAreLive, IInv, Safe
  <1> QED BY <1>6, <1>7, <1>8, <1>9, <1>10, <1>11, <1>12, <1>13, <1>14, <1>15, <1>16, Zenon
          DEF IInv, Good, Safe

LEMMA NewReturnsKeeps ==
    ASSUME Facts, IInv, Calm, NEW a \in Actor, new_returns(a)
    PROVE  IInv'
  <1>0. /\ UNCHANGED <<phase, caps, slot, worker, timers, next_id, stop_requested, wake, bit,
                       run, dispatching, alarm, drops, captor, suspended, now>>
        /\ at[a] \in {"registered", "refused"} /\ mutex' = Nobody
        /\ at' = [at EXCEPT ![a] = "idle"] /\ arg' = [arg EXCEPT ![a] = 0]
    BY Zenon DEF new_returns, Return, Goto, control, registry, signals, service
  <1>1. /\ at \in [Actor -> CallPoints] /\ arg \in [Actor -> 0 .. MaxTimer]
        /\ \A b \in Actor : b # a => at'[b] = at[b] /\ arg'[b] = arg[b]
        /\ at'[a] = "idle"
    BY <1>0, Zenon DEF IInv, Types
  <1>2. mutex = a /\ \A b \in Actor : mutex' # b
    BY <1>0, TimerAssumption, Zenon DEF IInv, Good, MutexOwner
  <1>3. \A j \in Id : Live(j)' <=> Live(j) BY <1>0, Zenon DEF Live
  <1>4. leases > 0 /\ phase = "Running" /\ slot = "Running" /\ ~stop_requested
    BY <1>0, CallMeansRunning, Zenon
  <1>5. \/ /\ at[a] = "registered" /\ arg[a] \in Id /\ Live(arg[a]) /\ handle[arg[a]] = "none"
           /\ handle' = [handle EXCEPT ![arg[a]] = "app"] /\ leases' = leases
        \/ at[a] = "refused" /\ handle' = handle /\ leases' = leases - 1
    BY <1>0, Zenon DEF new_returns, release_lease, IInv, Good, Registry
  <1>6. handle \in [Id -> {"none", "app", "callback", "dropping"}]
        /\ \A i \in Id : handle[i] # "none" => handle'[i] = handle[i]
    BY <1>5, Zenon DEF IInv, Types
  <1>7. Types'
    <2>1. leases' \in Nat BY <1>4, <1>5 DEF IInv, Types
    <2>2. handle' \in [Id -> {"none", "app", "callback", "dropping"}] BY <1>5, <1>6, Zenon
    <2> QED BY <1>0, <1>1, <2>1, <2>2, TimerAssumption, SMTT(30) DEF Types, IInv
  <1>8. OneTransition' BY <1>0, <1>1, Zenon DEF OneTransition, IInv, Good
  <1>9. WorkerLives' BY <1>0, <1>1, Zenon DEF WorkerLives, IInv, Good
  <1>10. MutexOwner' BY <1>0, <1>1, <1>2, Zenon DEF MutexOwner, WorkerLives, IInv, Good
  <1>11. Registry'
    <2>1. \A i \in Id : i >= next_id => handle'[i] = "none" /\ ~Live(i)'
      BY <1>3, <1>5, <1>6 DEF Registry, IInv, Good
    <2>2. \A b \in Actor : at'[b] # "registered"
      BY <1>0, <1>1, <1>2, Zenon DEF MutexOwner, IInv, Good
    <2> QED BY <1>0, <1>3, <1>4, <2>1, <2>2, Zenon DEF Registry
  <1>12. CallsKeepHandles'
    <2>1. \A b \in Actor : at'[b] \in {"ensured", "held"} =>
             /\ at[b] = at'[b] /\ arg'[b] = arg[b] /\ arg[b] \in Id
             /\ handle'[arg[b]] = handle[arg[b]]
      BY <1>1, <1>6, Zenon DEF CallsKeepHandles, IInv, Good
    <2>2. \A b \in Actor : at'[b] = "nested" => at[b] = "nested" BY <1>1, Zenon
    <2> QED BY <1>0, <2>1, <2>2, SMTT(120) DEF CallsKeepHandles, IInv, Good, Live
  <1>13. LeaseCount'
    <2>1. InNew' = InNew \ {a} /\ a \in InNew BY <1>0, <1>1, <1>2, Zenon DEF InNew, Creating
    <2>2. Leased' = Leased BY <1>0, <1>1, Zenon DEF Leased
    <2>3. Cardinality(InNew') = Cardinality(InNew) - 1
      BY <2>1, Finite, Zenon DEF Facts
    <2>4. leases = Cardinality(Held) + Cardinality(InNew) /\ leases \in Nat
      BY Zenon DEF LeaseCount, IInv, Good, Types
    <2>5. CASE leases' = leases - 1 /\ handle' = handle
      <3>1. Held' = Held BY <2>5, Zenon DEF Held
      <3> QED BY <1>0, <1>4, <2>2, <2>3, <2>4, <2>5, <3>1, Finite DEF LeaseCount, IInv, Good
    <2>6. CASE arg[a] \in Id /\ handle[arg[a]] = "none" /\ leases' = leases
               /\ handle' = [handle EXCEPT ![arg[a]] = "app"]
      <3>1. Held' = Held \cup {arg[a]} /\ arg[a] \notin Held BY <1>6, <2>6, Zenon DEF Held
      <3>2. Cardinality(Held') = Cardinality(Held) + 1 BY <3>1, Finite, Zenon DEF Facts
      <3> QED BY <1>0, <2>2, <2>3, <2>4, <2>6, <3>2, Finite DEF LeaseCount, IInv, Good
    <2> QED BY <1>5, <2>5, <2>6, Zenon
  <1>14. DropStack' /\ DropsDisjoint' BY <1>0, <1>1, <1>3, <1>6, DropFrame, Zenon DEF IInv, Good
  <1>15. NoLostWake' BY <1>0, <1>3, WakeFrame, Zenon DEF IInv, Safe
  <1>16. OnlySuspendedCallsPanic' /\ RolledBackServiceRuns'
    BY <1>0, <1>1, Zenon DEF OnlySuspendedCallsPanic, RolledBackServiceRuns, Calm, IInv, Safe
  <1>17. HandlesAreLive' BY <1>0, <1>3, <1>4, <1>5, <1>6, Zenon DEF HandlesAreLive, IInv, Safe
  <1> QED BY <1>7, <1>8, <1>9, <1>10, <1>11, <1>12, <1>13, <1>14, <1>15, <1>16, <1>17, Zenon
          DEF IInv, Good, Safe
-----------------------------------------------------------------------------
LEMMA DropHandleKeeps ==
    ASSUME IInv, Calm, NEW a \in Actor, NEW i \in Id, drop_handle(a, i)
    PROVE  IInv'
  <1>0. /\ UNCHANGED <<phase, leases, caps, slot, worker, timers, next_id, stop_requested, mutex,
                       wake, bit, run, dispatching, alarm, arg, captor, suspended, now>>
        /\ at[a] = "idle" /\ (a = Worker => run = "callback") /\ Unused(i)
        /\ handle' = [handle EXCEPT ![i] = "dropping"]
        /\ drops' = [drops EXCEPT ![a] = <<i>>]
        /\ at' = [at EXCEPT ![a] = "drop"]
    BY Zenon DEF drop_handle, Goto, Calls, runtime, control, registry, signals, service
  <1>1. /\ at \in [Actor -> CallPoints]
        /\ handle \in [Id -> {"none", "app", "callback", "dropping"}]
        /\ \A b \in Actor : (b # a => at'[b] = at[b]) /\ arg[b] # i
        /\ at'[a] = "drop" /\ handle[i] = "app" /\ handle'[i] = "dropping"
        /\ \A j \in Id : j # i => handle'[j] = handle[j]
    BY <1>0, Zenon DEF IInv, Types, Unused
  <1>2. mutex # a BY <1>0, Zenon DEF IInv, Good, MutexOwner
  <1>3. \A j \in Id : Live(j)' <=> Live(j) BY <1>0, Zenon DEF Live
  <1>4. drops' \in [Actor -> Seq(Id)] /\ DropStack' /\ DropsDisjoint'
    <2>1. Live(i) BY <1>1, Zenon DEF IInv, Safe, HandlesAreLive
    <2>2. handle[i] # "dropping" BY <1>1, Zenon
    <2> QED BY <1>0, <1>1, <1>3, <2>1, <2>2, PushKeeps, Zenon
  <1>5. Types' BY <1>0, <1>1, <1>4, Zenon DEF Types, IInv
  <1>6. OneTransition' BY <1>0, <1>1, ZenonT(60) DEF OneTransition, IInv, Good
  <1>7. WorkerLives' BY <1>0, <1>1, Zenon DEF WorkerLives, IInv, Good
  <1>8. MutexOwner' BY <1>0, <1>1, <1>2, Zenon DEF MutexOwner, IInv, Good
  <1>9. Registry'
    <2>1. \A j \in Id : j >= next_id => handle'[j] = "none" /\ ~Live(j)'
      BY <1>1, <1>3, Zenon DEF Registry, IInv, Good
    <2> QED BY <1>0, <1>1, <1>3, <2>1, Zenon DEF Registry, IInv, Good
  <1>10. CallsKeepHandles'
    <2>1. \A b \in Actor : at'[b] = "nested" => at[b] = "nested" /\ drops'[b] = drops[b]
      BY <1>0, <1>1, Zenon DEF IInv, Types
    <2> QED BY <1>0, <1>1, <2>1, SMTT(120) DEF CallsKeepHandles, IInv, Good, Live
  <1>11. LeaseCount'
    <2>1. Held' = Held BY <1>1, Zenon DEF Held
    <2>2. InNew' = InNew /\ Leased' = Leased BY <1>0, <1>1, <1>2 DEF InNew, Creating, Leased
    <2> QED BY <1>0, <2>1, <2>2, LeaseFrame, Zenon DEF IInv, Good
  <1>12. NoLostWake' BY <1>0, <1>3, WakeFrame, Zenon DEF IInv, Safe
  <1>13. OnlySuspendedCallsPanic' /\ RolledBackServiceRuns'
    BY <1>0, <1>1, Zenon DEF OnlySuspendedCallsPanic, RolledBackServiceRuns, Calm, IInv, Safe
  <1>14. HandlesAreLive' BY <1>0, <1>1, <1>3, Zenon DEF HandlesAreLive, IInv, Safe
  <1> QED BY <1>4, <1>5, <1>6, <1>7, <1>8, <1>9, <1>10, <1>11, <1>12, <1>13, <1>14, Zenon
          DEF IInv, Good, Safe

(* A drop finds its timer registered, in a running service.                *)
LEMMA DropFindsItsTimer ==
    ASSUME Facts, IInv, Calm, NEW a \in Actor, deregister(a), mutex = Nobody
    PROVE  \E i \in Id :
             /\ Head(drops[a]) = i /\ Live(i) /\ handle[i] = "dropping"
             /\ at[a] = "drop" /\ slot = "Running" /\ mutex' = a /\ wake'
             /\ timers' = [timers EXCEPT ![i] = [status |-> "deleted", callback |-> FALSE,
                                                 state |-> TS!stop(timers[i].state)]]
             /\ \/ at' = [at EXCEPT ![a] = "last"]
                \/ at' = [at EXCEPT ![a] = "nested"] /\ timers[i].callback
             /\ UNCHANGED <<phase, leases, caps, slot, worker, next_id, stop_requested, bit, run,
                            dispatching, alarm, arg, drops, handle, captor, suspended, now>>
  <1>1. at[a] = "drop" BY Zenon DEF deregister
  <1>2. slot = "Running" BY <1>1, CallMeansRunning, Zenon
  <1>3. PICK i \in Id : Head(drops[a]) = i /\ handle[i] = "dropping" BY <1>1, TopOfStack, Zenon
  <1>4. Live(i) BY <1>1, <1>3, Zenon DEF IInv, Good, DropStack
  <1>5. /\ mutex' = a /\ wake'
        /\ timers' = [timers EXCEPT ![i] = [status |-> "deleted", callback |-> take_callback(@),
                                            state |-> TS!stop(@.state)]]
        /\ at' = [at EXCEPT ![a] = IF timers[i].callback /\ Captured(i) # {}
                                   THEN "nested" ELSE "last"]
        /\ UNCHANGED <<next_id, stop_requested, arg, owners>> /\ Edits
    BY <1>1, <1>2, <1>3, <1>4, Zenon DEF deregister, with_lock, Goto, signal_wake
  <1>6. UNCHANGED <<phase, leases, caps, slot, worker, next_id, stop_requested, bit, run,
                    dispatching, alarm, arg, drops, handle, captor, suspended, now>>
    BY <1>5, Zenon DEF Edits, runtime, control, service, owners
  <1>7. \/ at' = [at EXCEPT ![a] = "last"]
        \/ at' = [at EXCEPT ![a] = "nested"] /\ timers[i].callback
    BY <1>5, Zenon
  <1>8. timers' = [timers EXCEPT ![i] = [status |-> "deleted", callback |-> FALSE,
                                         state |-> TS!stop(timers[i].state)]]
    BY <1>5, Zenon DEF take_callback
  <1> QED BY <1>1, <1>2, <1>3, <1>4, <1>5, <1>6, <1>7, <1>8, Zenon

LEMMA DeregisterKeeps ==
    ASSUME Facts, IInv, Calm, NEW a \in Actor, deregister(a), mutex = Nobody
    PROVE  IInv'
  <1>0. PICK i \in Id :
             /\ Head(drops[a]) = i /\ Live(i) /\ handle[i] = "dropping"
             /\ at[a] = "drop" /\ slot = "Running" /\ mutex' = a /\ wake'
             /\ timers' = [timers EXCEPT ![i] = [status |-> "deleted", callback |-> FALSE,
                                                 state |-> TS!stop(timers[i].state)]]
             /\ \/ at' = [at EXCEPT ![a] = "last"]
                \/ at' = [at EXCEPT ![a] = "nested"] /\ timers[i].callback
             /\ UNCHANGED <<phase, leases, caps, slot, worker, next_id, stop_requested, bit, run,
                            dispatching, alarm, arg, drops, handle, captor, suspended, now>>
    BY DropFindsItsTimer, Zenon
  <1>1. /\ at \in [Actor -> CallPoints] /\ timers \in [Id -> Entry]
        /\ \A b \in Actor : (b # a => at'[b] = at[b]) /\ mutex # b
        /\ at'[a] \in {"last", "nested"}
        /\ at'[a] = "nested" => timers[i].callback
    BY <1>0, TimerAssumption, Zenon DEF IInv, Types
  <1>2. /\ timers' \in [Id -> Entry]
        /\ \A j \in Id : /\ Live(j)' <=> Live(j) /\ j # i
                         /\ j # i => timers'[j] = timers[j]
    <2> DEFINE t == timers[i].state
    <2>1. t \in TS!TimerStates BY <1>1, Zenon DEF Entry
    <2>2. TS!stop(t) \in TS!TimerStates
      <3> HIDE DEF t
      <3> QED BY <2>1, Zenon DEF TS!stop, TS!TimerStates
    <2> DEFINE e == [status |-> "deleted", callback |-> FALSE, state |-> TS!stop(t)]
    <2>3. e \in Entry /\ e.status = "deleted" BY <2>2, Zenon DEF Entry
    <2>4. timers' = [timers EXCEPT ![i] = e] BY <1>0, Zenon
    <2> HIDE DEF e
    <2> QED BY <1>1, <2>3, <2>4, Zenon DEF Live
  <1>3. Types'
    <2>1. at' \in [Actor -> CallPoints] BY <1>0, <1>1
    <2>2. mutex' \in Actor \cup {Nobody} BY <1>0, Zenon
    <2> QED BY <1>0, <1>2, <2>1, <2>2, Zenon DEF Types, IInv
  <1>4. OneTransition' BY <1>0, <1>1, Zenon DEF OneTransition, IInv, Good
  <1>5. WorkerLives' BY <1>0, <1>1, Zenon DEF WorkerLives, IInv, Good
  <1>6. MutexOwner' BY <1>0, <1>1, Zenon DEF MutexOwner, IInv, Good
  <1>7. Registry' BY <1>0, <1>1, <1>2, SMTT(120) DEF Registry, MutexOwner, IInv, Good
  <1>8. CallsKeepHandles'
    <2>1. dispatching # 0 => dispatching \in Id
      BY TimerAssumption DEF IInv, Types, Id
    <2>2. at'[a] = "nested" => dispatching # i
      <3>1. run # "restored" BY <1>1, Zenon DEF IInv, Good, MutexOwner
      <3>2. i # 0 BY DEF Id
      <3> QED BY <1>0, <1>1, <3>1, <3>2, Zenon DEF IInv, Good, CallsKeepHandles
    <2>3. \A b \in Actor : at'[b] = "nested" => b = a
      BY <1>1, Zenon DEF MutexOwner, IInv, Good
    <2>4. dispatching # 0 /\ run # "restored" /\ Live(dispatching)'
             => ~timers'[dispatching].callback
      BY <1>0, <1>2, <2>1, Zenon DEF CallsKeepHandles, IInv, Good
    <2> QED BY <1>0, <1>1, <2>2, <2>3, <2>4, Zenon DEF CallsKeepHandles, IInv, Good
  <1>9. LeaseCount'
    <2>1. Held' = Held BY <1>0, Zenon DEF Held
    <2>2. InNew' = InNew /\ Leased' = Leased BY <1>0, <1>1, Zenon DEF InNew, Creating, Leased
    <2> QED BY <1>0, <2>1, <2>2, LeaseFrame, Zenon DEF IInv, Good
  <1>10. DropStack' /\ DropsDisjoint'
    <2>1. ASSUME NEW b \in Actor, at'[b] = "drop" PROVE Live(Head(drops[b]))'
      <3>1. b # a /\ at[b] = "drop" BY <1>1, <2>1, Zenon
      <3>2. Live(Head(drops[b])) BY <3>1, Zenon DEF IInv, Good, DropStack
      <3>3. /\ Head(drops[b]) \in Id /\ Head(drops[b]) = drops[b][1] /\ 1 \in 1 .. Len(drops[b])
            /\ Head(drops[a]) = drops[a][1] /\ 1 \in 1 .. Len(drops[a])
        BY <1>0, <3>1, TopOfStack, Zenon
      <3>4. Head(drops[b]) # i BY <1>0, <3>1, <3>3, SMTT(120) DEF IInv, Good, DropsDisjoint
      <3> QED BY <1>0, <1>2, <3>2, <3>3, <3>4, Zenon
    <2>2. \A b \in Actor : at'[b] \in DropPoints <=> at[b] \in DropPoints BY <1>0, <1>1, Zenon
    <2> QED BY <1>0, <2>1, <2>2, SMTT(120) DEF DropStack, DropsDisjoint, IInv, Good
  <1>11. OnlySuspendedCallsPanic' /\ NoLostWake' /\ RolledBackServiceRuns'
    BY <1>0, <1>1, Zenon
    DEF OnlySuspendedCallsPanic, NoLostWake, RolledBackServiceRuns, Calm, IInv, Safe
  <1>12. HandlesAreLive' BY <1>0, <1>2, Zenon DEF HandlesAreLive, IInv, Safe
  <1> QED BY <1>3, <1>4, <1>5, <1>6, <1>7, <1>8, <1>9, <1>10, <1>11, <1>12, Zenon
          DEF IInv, Good, Safe

(* The callback's own drop begins where its timer's drop leaves the mutex. *)
LEMMA DeregisterReturnsKeeps ==
    ASSUME IInv, Calm, NEW a \in Actor, deregister_returns(a)
    PROVE  IInv'
  <1>0. /\ UNCHANGED <<phase, leases, caps, slot, worker, timers, next_id, stop_requested, wake,
                       bit, run, dispatching, alarm, arg, captor, suspended, now>>
        /\ at[a] \in {"nested", "last"} /\ mutex' = Nobody
        /\ \/ /\ at' = [at EXCEPT ![a] = "unwind"] /\ UNCHANGED <<drops, handle>>
           \/ /\ at[a] = "nested" /\ at' = [at EXCEPT ![a] = "drop"]
              /\ \E k \in Captured(Head(drops[a])) :
                    /\ drops' = [drops EXCEPT ![a] = <<k>> \o drops[a]]
                    /\ handle' = [handle EXCEPT ![k] = "dropping"]
    BY Zenon DEF deregister_returns, Goto, runtime, control, registry, signals, service
  <1>1. /\ at \in [Actor -> CallPoints] /\ drops \in [Actor -> Seq(Id)]
        /\ handle \in [Id -> {"none", "app", "callback", "dropping"}]
        /\ \A b \in Actor : (b # a => at'[b] = at[b]) /\ mutex' # b
        /\ at'[a] \in {"unwind", "drop"}
    BY <1>0, TimerAssumption, Zenon DEF IInv, Types
  <1>2. mutex = a /\ \A b \in Actor : at'[b] \notin Sections
    BY <1>0, <1>1, Zenon DEF IInv, Good, MutexOwner
  <1>3. run \notin WorkerSections
    BY <1>0, <1>2, Zenon DEF IInv, Good, MutexOwner, WorkerLives
  <1>4. \A i \in Id : Live(i)' <=> Live(i) BY <1>0, Zenon DEF Live
  <1>5. CASE at' = [at EXCEPT ![a] = "unwind"] /\ UNCHANGED <<drops, handle>>
    <2>1. at'[a] = "unwind" BY <1>1, <1>5, Zenon
    <2>2. Types' BY <1>0, <1>5, Zenon DEF Types, IInv
    <2>3. OneTransition' BY <1>0, <1>1, Zenon DEF OneTransition, IInv, Good
    <2>4. WorkerLives' BY <1>0, <1>1, Zenon DEF WorkerLives, IInv, Good
    <2>5. MutexOwner' BY <1>0, <1>1, <1>2, <1>3, Zenon DEF MutexOwner
    <2>6. Registry' BY <1>0, <1>1, <1>4, <1>5, Zenon DEF Registry, IInv, Good
    <2>7. CallsKeepHandles' BY <1>0, <1>1, <1>2, <1>5, Zenon DEF CallsKeepHandles, IInv, Good, Live
    <2>8. LeaseCount'
      <3>1. Held' = Held /\ Leased' = Leased BY <1>0, <1>1, <1>5, Zenon DEF Held, Leased
      <3>2. InNew' = InNew BY <1>0, <1>1, <1>2, <2>1, Zenon DEF InNew, Creating
      <3> QED BY <1>0, <3>1, <3>2, LeaseFrame, Zenon DEF IInv, Good
    <2>9. DropStack' /\ DropsDisjoint'
      <3>1. \A b \in Actor : at'[b] \in DropPoints <=> at[b] \in DropPoints
        BY <1>0, <1>1, <2>1, Zenon
      <3>2. \A b \in Actor : at'[b] = "drop" => at[b] = "drop" BY <1>1, <2>1, Zenon
      <3> QED BY <1>0, <1>5, <3>1, <3>2, SMTT(120) DEF DropStack, DropsDisjoint, IInv, Good, Live
    <2>10. NoLostWake' BY <1>0, <1>4, WakeFrame, Zenon DEF IInv, Safe
    <2>11. OnlySuspendedCallsPanic' /\ RolledBackServiceRuns'
      BY <1>0, <1>1, Zenon DEF OnlySuspendedCallsPanic, RolledBackServiceRuns, Calm, IInv, Safe
    <2>12. HandlesAreLive' BY <1>0, <1>4, <1>5, Zenon DEF HandlesAreLive, IInv, Safe
    <2> QED BY <2>2, <2>3, <2>4, <2>5, <2>6, <2>7, <2>8, <2>9, <2>10, <2>11, <2>12, Zenon
            DEF IInv, Good, Safe
  <1>6. CASE /\ at[a] = "nested" /\ at' = [at EXCEPT ![a] = "drop"]
             /\ \E k \in Captured(Head(drops[a])) :
                   /\ drops' = [drops EXCEPT ![a] = <<k>> \o drops[a]]
                   /\ handle' = [handle EXCEPT ![k] = "dropping"]
    <2>0. PICK k \in Captured(Head(drops[a])) :
                   /\ drops' = [drops EXCEPT ![a] = <<k>> \o drops[a]]
                   /\ handle' = [handle EXCEPT ![k] = "dropping"]
      BY <1>6, Zenon
    <2>1. /\ at'[a] = "drop" /\ k \in Id /\ handle[k] = "callback" /\ captor[k] = Head(drops[a])
          /\ handle'[k] = "dropping" /\ \A i \in Id : i # k => handle'[i] = handle[i]
      BY <1>1, <1>6, <2>0, Zenon DEF Captured
    <2>2. drops' \in [Actor -> Seq(Id)] /\ DropStack' /\ DropsDisjoint'
      <3>1. Live(k) BY <2>1, Zenon DEF IInv, Safe, HandlesAreLive
      <3>2. handle[k] # "dropping" BY <2>1, Zenon
      <3> QED BY <1>4, <1>6, <2>0, <2>1, <3>1, <3>2, PushKeeps, Zenon
    <2>3. dispatching # Head(drops[a]) BY <1>6, Zenon DEF IInv, Good, CallsKeepHandles
    <2>4. Types'
      <3>1. handle' \in [Id -> {"none", "app", "callback", "dropping"}] BY <1>1, <2>0, <2>1, Zenon
      <3> QED BY <1>0, <1>6, <2>2, <3>1, Zenon DEF Types, IInv
    <2>5. OneTransition' BY <1>0, <1>1, Zenon DEF OneTransition, IInv, Good
    <2>6. WorkerLives' BY <1>0, <1>1, Zenon DEF WorkerLives, IInv, Good
    <2>7. MutexOwner' BY <1>0, <1>1, <1>2, <1>3, Zenon DEF MutexOwner
    <2>8. Registry'
      <3>1. \A i \in Id : i >= next_id => handle'[i] = "none" /\ ~Live(i)'
        BY <1>4, <2>1, Zenon DEF Registry, IInv, Good
      <3> QED BY <1>0, <1>1, <1>2, <1>4, <3>1, Zenon DEF Registry, IInv, Good
    <2>9. CallsKeepHandles'
      <3>1. \A b \in Actor : at'[b] \in {"ensured", "held"} => at[b] = at'[b] /\ arg[b] # k
        BY <1>1, <2>1, <2>3, SMTT(120) DEF CallsKeepHandles, IInv, Good
      <3> QED BY <1>0, <1>1, <1>2, <2>1, <3>1, SMTT(120) DEF CallsKeepHandles, IInv, Good, Live
    <2>10. LeaseCount'
      <3>1. Held' = Held BY <2>1 DEF Held
      <3>2. InNew' = InNew /\ Leased' = Leased
        BY <1>0, <1>1, <1>2, <1>6, <2>1, Zenon DEF InNew, Creating, Leased
      <3> QED BY <1>0, <3>1, <3>2, LeaseFrame, Zenon DEF IInv, Good
    <2>11. NoLostWake' BY <1>0, <1>4, WakeFrame, Zenon DEF IInv, Safe
    <2>12. OnlySuspendedCallsPanic' /\ RolledBackServiceRuns'
      BY <1>0, <1>1, Zenon DEF OnlySuspendedCallsPanic, RolledBackServiceRuns, Calm, IInv, Safe
    <2>13. HandlesAreLive' BY <1>0, <1>4, <2>1, Zenon DEF HandlesAreLive, IInv, Safe
    <2> QED BY <2>2, <2>4, <2>5, <2>6, <2>7, <2>8, <2>9, <2>10, <2>11, <2>12, <2>13, Zenon
            DEF IInv, Good, Safe
  <1> QED BY <1>0, <1>5, <1>6, Zenon

LEMMA DropLeaseKeeps ==
    ASSUME Facts, IInv, Calm, NEW a \in Actor, drop_lease(a)
    PROVE  IInv'
  <1>0. /\ UNCHANGED <<phase, caps, slot, worker, timers, next_id, stop_requested, mutex, wake,
                       bit, run, dispatching, alarm, arg, suspended, now>>
        /\ at[a] = "unwind" /\ leases' = leases - 1
        /\ handle' = [handle EXCEPT ![Head(drops[a])] = "none"]
        /\ captor' = [captor EXCEPT ![Head(drops[a])] = 0]
        /\ drops' = [drops EXCEPT ![a] = Tail(drops[a])]
        /\ at' = [at EXCEPT ![a] = IF Len(drops[a]) = 1 THEN "idle" ELSE "unwind"]
    BY Zenon DEF drop_lease, Goto, release_lease, runtime, control, registry, signals, service
  <1> DEFINE h == Head(drops[a])
             t == Tail(drops[a])
  <1>1. /\ at \in [Actor -> CallPoints] /\ drops \in [Actor -> Seq(Id)]
        /\ handle \in [Id -> {"none", "app", "callback", "dropping"}]
        /\ captor \in [Id -> 0 .. MaxTimer]
        /\ \A b \in Actor : b # a => at'[b] = at[b] /\ drops'[b] = drops[b]
        /\ drops'[a] = t
        /\ at'[a] = IF Len(drops[a]) = 1 THEN "idle" ELSE "unwind"
    BY <1>0, Zenon DEF IInv, Types
  <1>2. /\ h \in Id /\ handle[h] = "dropping" /\ h = drops[a][1] /\ 1 \in 1 .. Len(drops[a])
        /\ drops[a] \in Seq(Id) /\ drops[a] # <<>>
    BY <1>0, TopOfStack, Zenon
  <1>3. /\ t \in Seq(Id)
        /\ t = <<>> <=> Len(drops[a]) = 1
        /\ \A j \in 1 .. Len(t) : j + 1 \in 1 .. Len(drops[a]) /\ t[j] = drops[a][j + 1]
    BY <1>2, Pop, Zenon
  <1>4. mutex # a BY <1>0, Zenon DEF IInv, Good, MutexOwner, WorkerLives
  <1>5. \A i \in Id : Live(i)' <=> Live(i) BY <1>0, Zenon DEF Live
  <1> HIDE DEF h, t
  <1>6. /\ handle'[h] = "none"
        /\ \A i \in Id : i # h => handle'[i] = handle[i] /\ captor'[i] = captor[i]
        /\ handle' \in [Id -> {"none", "app", "callback", "dropping"}]
        /\ captor' \in [Id -> 0 .. MaxTimer]
    BY <1>0, <1>1, <1>2, TimerAssumption DEF h
  <1>7. phase = "Running" /\ leases > 0 BY <1>0, CallMeansRunning, Zenon
  <1>8. Types'
    <2>1. at' \in [Actor -> CallPoints] /\ drops' \in [Actor -> Seq(Id)]
      BY <1>0, <1>1, <1>3, Zenon DEF t
    <2>2. leases' \in Nat BY <1>0, <1>7 DEF Types, IInv
    <2> QED BY <1>0, <1>6, <2>1, <2>2, Zenon DEF Types, IInv
  <1>9. OneTransition' BY <1>0, <1>1, Zenon DEF OneTransition, IInv, Good
  <1>10. WorkerLives' BY <1>0, <1>1, Zenon DEF WorkerLives, IInv, Good
  <1>11. MutexOwner' BY <1>0, <1>1, <1>4, Zenon DEF MutexOwner, IInv, Good
  <1>12. Registry'
    <2>1. \A i \in Id : i >= next_id => handle'[i] = "none" /\ ~Live(i)'
      BY <1>5, <1>6, Zenon DEF Registry, IInv, Good
    <2>2. \A b \in Actor : at'[b] = "registered" => at[b] = "registered" BY <1>1, Zenon
    <2> QED BY <1>0, <1>5, <1>6, <2>1, <2>2, Zenon DEF Registry, IInv, Good
  <1>13. CallsKeepHandles'
    <2>1. \A b \in Actor : at'[b] \in {"ensured", "held"} => at[b] = at'[b] /\ arg[b] # h
      BY <1>1, <1>2, Zenon DEF CallsKeepHandles, IInv, Good
    <2>2. \A b \in Actor : at'[b] = "nested" => at[b] = "nested" /\ drops'[b] = drops[b]
      BY <1>1, Zenon
    <2> QED BY <1>0, <1>6, <2>1, <2>2, SMTT(120) DEF CallsKeepHandles, IInv, Good, Live
  <1>14. LeaseCount'
    <2>1. Held' = Held \ {h} /\ h \in Held BY <1>2, <1>6, Zenon DEF Held
    <2>2. InNew' = InNew /\ Leased' = Leased BY <1>0, <1>1, Zenon DEF InNew, Creating, Leased
    <2>3. Cardinality(Held') = Cardinality(Held) - 1 BY <2>1, Finite, Zenon DEF Facts
    <2> QED BY <1>0, <1>7, <2>2, <2>3, Finite DEF LeaseCount, IInv, Good
  <1>15. DropStack' /\ DropsDisjoint'
    <2>0. DropsDisjoint BY Zenon DEF IInv, Good
    <2> DEFINE P(b, j) == IF b = a THEN j + 1 ELSE j
    <2>1. ASSUME NEW b \in Actor, NEW j \in 1 .. Len(drops'[b])
          PROVE  /\ drops'[b][j] \in Id /\ drops'[b][j] # h /\ handle[drops'[b][j]] = "dropping"
                 /\ P(b, j) \in 1 .. Len(drops[b]) /\ drops'[b][j] = drops[b][P(b, j)]
                 /\ j \in Nat
      <3>1. CASE b # a
        <4>1. j \in 1 .. Len(drops[b]) /\ drops'[b][j] = drops[b][j] BY <1>1, <3>1, Zenon
        <4>2. drops[b][j] # h BY <1>2, <2>0, <3>1, <4>1, Zenon DEF DropsDisjoint
        <4>3. j \in Nat BY <1>1, <4>1, SMTT(120)
        <4> QED BY <3>1, <4>1, <4>2, <4>3, OnStack, Zenon
      <3>2. CASE b = a
        <4>1. /\ j + 1 \in 1 .. Len(drops[b]) /\ drops'[b][j] = drops[b][j + 1] /\ j + 1 # 1
          BY <1>1, <1>3, <3>2
        <4>2. drops[b][j + 1] # drops[a][1]
          BY <1>2, <2>0, <3>2, <4>1 DEF DropsDisjoint
        <4>3. j \in Nat BY <1>1, <1>3, <3>2
        <4> QED BY <1>2, <3>2, <4>1, <4>2, <4>3, OnStack, Zenon
      <3> QED BY <3>1, <3>2, Zenon
    <2>2. \A b \in Actor : at'[b] \in DropPoints <=> drops'[b] # <<>>
      BY <1>1, <1>3, ZenonT(60) DEF IInv, Good, DropStack
    <2>3. ASSUME NEW b \in Actor, at'[b] = "drop" PROVE Live(Head(drops[b]))'
      <3>1. at[b] = "drop" /\ drops'[b] = drops[b] BY <1>1, <2>3, Zenon
      <3>2. Live(Head(drops[b])) /\ Head(drops[b]) \in Id
        BY <3>1, TopOfStack, Zenon DEF IInv, Good, DropStack
      <3> QED BY <1>5, <3>1, <3>2, Zenon
    <2>4. DropStack'
      <3>1. \A b \in Actor : \A j \in 1 .. Len(drops'[b]) : handle'[drops'[b][j]] = "dropping"
        BY <1>6, <2>1, Zenon
      <3> QED BY <2>2, <2>3, <3>1, Zenon DEF DropStack
    <2>5. ASSUME NEW b \in Actor, NEW c \in Actor, NEW j \in 1 .. Len(drops'[b]),
                 NEW m \in 1 .. Len(drops'[c]), drops'[b][j] = drops'[c][m]
          PROVE  b = c /\ j = m
      <3> HIDE DEF P
      <3>1. /\ P(b, j) \in 1 .. Len(drops[b]) /\ P(c, m) \in 1 .. Len(drops[c])
            /\ drops[b][P(b, j)] = drops[c][P(c, m)]
        BY <2>1, <2>5, Zenon
      <3>2. b = c /\ P(b, j) = P(c, m) BY <2>0, <3>1, Zenon DEF DropsDisjoint
      <3>3. j \in Nat /\ m \in Nat BY <2>1, Zenon
      <3> QED BY <3>2, <3>3 DEF P
    <2> QED BY <2>4, <2>5, Zenon DEF DropsDisjoint
  <1>16. NoLostWake' BY <1>0, <1>5, WakeFrame, Zenon DEF IInv, Safe
  <1>17. OnlySuspendedCallsPanic' /\ RolledBackServiceRuns'
    BY <1>0, <1>1, Zenon DEF OnlySuspendedCallsPanic, RolledBackServiceRuns, Calm, IInv, Safe
  <1>18. HandlesAreLive' BY <1>0, <1>5, <1>6, Zenon DEF HandlesAreLive, IInv, Safe
  <1> QED BY <1>8, <1>9, <1>10, <1>11, <1>12, <1>13, <1>14, <1>15, <1>16, <1>17, <1>18, Zenon
          DEF IInv, Good, Safe
-----------------------------------------------------------------------------
(* The worker's own steps leave the calls and the handles alone.           *)
LEMMA WorkerFrame ==
    ASSUME IInv, Calm,
           UNCHANGED <<runtime, control, next_id, stop_requested, calls, owners, suspended, now>>,
           timers' \in [Id -> Entry], \A i \in Id : Live(i)' <=> Live(i),
           run' \in RunPoints, dispatching' \in 0 .. MaxTimer,
           \/ UNCHANGED <<mutex, dispatching>>
              /\ (run' = run \/ (run \notin WorkerSections /\ run' \notin WorkerSections))
           \/ /\ at[Worker] = "idle" /\ mutex \in {Nobody, Worker} /\ mutex' \in {Nobody, Worker}
              /\ mutex' = Worker <=> run' \in WorkerSections,
           run' = run \/ run # "none",
           WorkerLives', NoLostWake',
           (dispatching # 0 /\ run # "restored" /\ Live(dispatching)
              => ~timers[dispatching].callback)'
    PROVE  IInv'
  <1>0. UNCHANGED <<phase, leases, caps, slot, worker, next_id, stop_requested, at, arg, drops,
                    handle, captor, suspended, now>>
    BY Zenon DEF runtime, control, calls, owners
  <1>1. Nobody # Worker /\ \A b \in Actor : b # Nobody BY TimerAssumption, Zenon
  <1>2. Types' BY <1>0, <1>1, Zenon DEF Types, IInv
  <1>3. OneTransition' BY <1>0 DEF OneTransition, IInv, Good
  <1>4. MutexOwner' BY <1>0, <1>1, Zenon DEF MutexOwner, IInv, Good
  <1>5. Registry' BY <1>0, Zenon DEF Registry, IInv, Good
  <1>6. CallsKeepHandles'
    <2>1. \A b \in Actor : at[b] = "nested" => UNCHANGED dispatching
      BY <1>1, Zenon DEF MutexOwner, IInv, Good
    <2>2. at[Worker] \in {"ensured", "held"} => UNCHANGED dispatching BY Zenon
    <2> QED BY <1>0, <2>1, <2>2, Zenon DEF CallsKeepHandles, IInv, Good
  <1>7. LeaseCount'
    <2>1. Held' = Held /\ Leased' = Leased BY <1>0, Zenon DEF Held, Leased
    <2>2. InNew' = InNew BY <1>0, <1>1, Zenon DEF InNew, Creating
    <2> QED BY <1>0, <2>1, <2>2, LeaseFrame, Zenon DEF IInv, Good
  <1>8. DropStack' /\ DropsDisjoint' BY <1>0, DropFrame, Zenon DEF IInv, Good
  <1>9. OnlySuspendedCallsPanic' /\ RolledBackServiceRuns' /\ HandlesAreLive'
    BY <1>0, SMTT(30) DEF OnlySuspendedCallsPanic, RolledBackServiceRuns, HandlesAreLive, IInv, Safe
  <1> QED BY <1>2, <1>3, <1>4, <1>5, <1>6, <1>7, <1>8, <1>9, Zenon DEF IInv, Good, Safe

LEMMA ExpiryKeepsType ==
    ASSUME NEW t \in TS!TimerStates, NEW time \in TS!Duration
    PROVE  TS!advance_on_expiry(t, time) \in TS!TimerStates
  <1> DEFINE next == TS!next_periodic_deadline(t.deadline, t.period, time)
             deadline == TS!after_expiry(t, next)
  <1>1. CASE ~TS!has_expired(t, time) BY <1>1, Zenon DEF TS!advance_on_expiry
  <1>2. CASE TS!has_expired(t, time)
    <2>1. /\ t.deadline \in Nat /\ time - t.deadline \in Nat /\ t.period \in Nat \ {0}
          /\ MaxDuration \in Nat
      BY <1>2, TimerAssumption
         DEF TS!has_expired, TS!TimerStates, TS!Duration, TS!Period
    <2> DEFINE missed == (time - t.deadline) \div t.period
    <2>2. missed \in Nat BY <2>1, SMT
    <2>3. next \in TS!Duration \cup {Overflow}
      <3>1. time \in Nat /\ t.deadline <= time BY <1>2, <2>1 DEF TS!has_expired, TS!Duration
      <3>2. next = TS!checked_add(t.deadline, t.period * (missed + 1))
        BY <2>1, <3>1 DEF TS!next_periodic_deadline, TS!missed_periods
      <3> HIDE DEF missed
      <3>3. t.period * (missed + 1) \in Nat BY <2>1, <2>2
      <3> QED BY <2>1, <3>2, <3>3 DEF TS!checked_add, TS!Duration
    <2>4. TS!advance_on_expiry(t, time) = [t EXCEPT !.deadline = deadline]
      BY <1>2, Zenon DEF TS!advance_on_expiry
    <2> HIDE DEF next
    <2>5. deadline \in TS!Duration \cup {NoDeadline} BY <2>3, Zenon DEF TS!after_expiry
    <2> HIDE DEF deadline
    <2> QED BY <2>4, <2>5, Zenon DEF TS!TimerStates
  <1> QED BY <1>1, <1>2, Zenon

LEMMA DispatchEntry ==
    ASSUME timers \in [Id -> Entry], NEW i \in Id, Live(i), NEW s \in TS!TimerStates,
           timers' = [Purged EXCEPT ![i].state = s, ![i].callback = FALSE]
    PROVE  /\ timers' \in [Id -> Entry] /\ ~timers'[i].callback /\ timers'[i].state = s
           /\ \A j \in Id : Live(j)' <=> Live(j)
           /\ \A j \in Id : j # i /\ Live(j) => timers'[j] = timers[j]
  <1> DEFINE e == timers[i]
  <1>0. /\ Purged \in [Id -> Entry]
        /\ \A j \in Id : /\ (Purged[j].status = "live") <=> Live(j)
                         /\ Live(j) => Purged[j] = timers[j]
    BY PurgeIsInvisible, Zenon
  <1>1. e \in Entry /\ timers'[i] = [e EXCEPT !.state = s, !.callback = FALSE] BY <1>0, Zenon
  <1> HIDE DEF e
  <1> DEFINE f == [status |-> e.status, callback |-> FALSE, state |-> s]
  <1>2. timers'[i] = f BY <1>1, ZenonT(60) DEF Entry
  <1>3. f \in Entry /\ f.status = e.status /\ ~f.callback /\ f.state = s BY <1>1, Zenon DEF Entry
  <1> HIDE DEF f
  <1>4. timers' \in [Id -> Entry] /\ \A j \in Id : j # i => timers'[j] = Purged[j]
    BY <1>0, <1>2, <1>3, Zenon
  <1>5. timers'[i].status = timers[i].status BY <1>2, <1>3, Zenon DEF e
  <1> QED BY <1>0, <1>2, <1>3, <1>4, <1>5, Zenon DEF Live

(* The deadlines are numbers, and the scan finds the earliest.             *)
LEMMA EarliestIsFirst ==
    ASSUME Facts, timers \in [Id -> Entry]
    PROVE  \A d \in Deadlines : EarliestDeadline # NoDeadline /\ EarliestDeadline <= d
  <1>1. Deadlines \subseteq Nat
    BY TimerAssumption DEF Deadlines, Entry, TS!TimerStates, TS!Duration
  <1>2. CASE Deadlines = {} BY <1>2, Zenon
  <1>3. CASE Deadlines # {}
    <2> HIDE DEF Deadlines
    <2>1. \E d \in Deadlines : \A e \in Deadlines : d <= e BY <1>1, <1>3, Zenon DEF Facts
    <2>2. EarliestDeadline = CHOOSE d \in Deadlines : \A e \in Deadlines : d <= e
      BY <1>3, Zenon DEF EarliestDeadline
    <2>3. EarliestDeadline \in Deadlines /\ \A e \in Deadlines : EarliestDeadline <= e
      BY <2>1, <2>2, Zenon
    <2> QED BY <1>1, <2>3, TimerAssumption, Zenon
  <1> QED BY <1>2, <1>3, Zenon

LEMMA ScanKeeps ==
    ASSUME Facts, IInv, Calm, scan
    PROVE  IInv'
  <1>0. /\ UNCHANGED <<runtime, control, next_id, stop_requested, calls, owners, suspended, now>>
        /\ UNCHANGED <<caps, slot, worker, bit, wake, at>>
        /\ run = "scan" /\ at[Worker] = "idle" /\ mutex = Nobody /\ mutex' = Worker
        /\ timers \in [Id -> Entry] /\ dispatching = 0 /\ dispatching \in 0 .. MaxTimer
    BY Zenon DEF scan, runtime, control, signals, calls, IInv, Types, Good, WorkerLives
  <1>1. CASE stop_requested /\ timers' = Purged /\ run' = "stopping" /\ UNCHANGED dispatching
    <2>1. timers' \in [Id -> Entry] /\ \A i \in Id : Live(i)' <=> Live(i)
      BY <1>0, <1>1, PurgeIsInvisible, Zenon DEF Live
    <2>2. WorkerLives' BY <1>0, <1>1, Zenon DEF WorkerLives, IInv, Good
    <2>3. NoLostWake' BY <1>1, Zenon DEF NoLostWake
    <2> QED BY <1>0, <1>1, <2>1, <2>2, <2>3, WorkerFrame, Zenon
  <1>2. ASSUME NEW i \in Id, Dispatch(i) PROVE IInv'
    <2> DEFINE s == TS!advance_on_expiry(timers[i].state, now)
    <2>1. Live(i) /\ dispatching' = i /\ run' = "dispatching"
      BY <1>2, Zenon DEF Dispatch, Expired
    <2>2. s \in TS!TimerStates
      <3>1. timers[i].state \in TS!TimerStates BY <1>0, Zenon DEF Entry
      <3> QED BY <3>1, ExpiryKeepsType, Zenon DEF IInv, Types
    <2>3. timers' = [Purged EXCEPT ![i].state = s, ![i].callback = FALSE]
      <3>1. Purged[i] = timers[i] /\ Purged \in [Id -> Entry] BY <1>0, <2>1, PurgeIsInvisible, Zenon
      <3> QED BY <1>2, <3>1, Zenon DEF Dispatch, take_callback
    <2> HIDE DEF s
    <2>4. /\ timers' \in [Id -> Entry] /\ ~timers'[i].callback
          /\ \A j \in Id : Live(j)' <=> Live(j)
      BY <1>0, <2>1, <2>2, <2>3, DispatchEntry, Zenon
    <2>5. i \in 0 .. MaxTimer /\ i # 0 /\ i < next_id
      BY <2>1 DEF Id, Registry, IInv, Good, Types
    <2>6. WorkerLives' BY <1>0, <2>1, <2>5, Zenon DEF WorkerLives, IInv, Good
    <2>7. NoLostWake' BY <2>1, Zenon DEF NoLostWake
    <2> QED BY <1>0, <2>1, <2>4, <2>5, <2>6, <2>7, WorkerFrame, Zenon
  <1>3. CASE /\ ~stop_requested /\ timers' = Purged /\ alarm' = EarliestDeadline
             /\ run' = "sleeping" /\ UNCHANGED dispatching
    <2>1. /\ timers' \in [Id -> Entry] /\ \A i \in Id : Live(i)' <=> Live(i)
          /\ \A i \in Id : Live(i) => timers'[i] = timers[i]
      BY <1>0, <1>3, PurgeIsInvisible, Zenon DEF Live
    <2>2. WorkerLives' BY <1>0, <1>3, Zenon DEF WorkerLives, IInv, Good
    <2>3. Deadlines' \subseteq Deadlines BY <2>1, Zenon DEF Deadlines
    <2>4. NoLostWake' BY <1>0, <1>3, <2>3, EarliestIsFirst, Zenon DEF NoLostWake
    <2> QED BY <1>0, <1>3, <2>1, <2>2, <2>4, WorkerFrame, Zenon
  <1> QED BY <1>1, <1>2, <1>3, Zenon DEF scan

LEMMA RestoreKeeps ==
    ASSUME IInv, Calm, restore
    PROVE  IInv'
  <1>0. /\ UNCHANGED <<runtime, control, next_id, stop_requested, calls, owners, suspended, now>>
        /\ UNCHANGED <<caps, slot, worker, bit, wake, at, dispatching>>
        /\ run = "restore" /\ at[Worker] = "idle" /\ mutex = Nobody /\ mutex' = Worker
        /\ timers \in [Id -> Entry] /\ dispatching \in Id /\ dispatching \in 0 .. MaxTimer
        /\ \/ /\ timers' = [timers EXCEPT ![dispatching].callback = TRUE] /\ run' = "restored"
           \/ run' = "discarding" /\ UNCHANGED timers
    BY DEF restore, runtime, control, signals, calls, IInv, Types, Good, WorkerLives, Id
  <1>1. timers' \in [Id -> Entry] /\ \A i \in Id : Live(i)' <=> Live(i)
    <2>1. CASE UNCHANGED timers BY <1>0, <2>1, Zenon DEF Live
    <2>2. CASE timers' = [timers EXCEPT ![dispatching].callback = TRUE]
      <3> DEFINE e == timers[dispatching]
                 f == [e EXCEPT !.callback = TRUE]
      <3>1. e \in Entry /\ timers' = [timers EXCEPT ![dispatching] = f] BY <1>0, <2>2, Zenon
      <3>2. f \in Entry /\ f.status = e.status
        <4> HIDE DEF e
        <4> QED BY <3>1, Zenon DEF Entry
      <3> HIDE DEF f
      <3> QED BY <1>0, <3>1, <3>2, Zenon DEF Live
    <2> QED BY <1>0, <2>1, <2>2, Zenon
  <1>2. WorkerLives' BY <1>0, Zenon DEF WorkerLives, IInv, Good
  <1>3. NoLostWake' BY <1>0, Zenon DEF NoLostWake
  <1>4. (dispatching # 0 /\ run # "restored" /\ Live(dispatching)
           => ~timers[dispatching].callback)'
    BY <1>0, <1>1, Zenon DEF CallsKeepHandles, IInv, Good
  <1> QED BY <1>0, <1>1, <1>2, <1>3, <1>4, WorkerFrame, Zenon

(* The worker wakes up, begins and ends a callback, and leaves.            *)
LEMMA WorkerMovesKeep ==
    ASSUME IInv, Calm,
           \/ wait_until_deadline \/ dispatch_one \/ callback_returns \/ complete \/ worker_leaves
    PROVE  IInv'
  <1>0. /\ UNCHANGED <<runtime, control, timers, next_id, stop_requested, mutex, dispatching,
                       alarm, arg, drops, owners, suspended, now>>
        /\ \/ run = "wait" /\ run' = "scan" /\ at[Worker] = "idle" /\ UNCHANGED <<at, bit>>
           \/ run = "chosen" /\ run' = "callback" /\ UNCHANGED <<at, wake, bit>>
           \/ /\ run = "callback" /\ run' = "restore" /\ at[Worker] = "idle"
              /\ UNCHANGED <<at, wake, bit>>
           \/ run = "complete" /\ run' = "none" /\ UNCHANGED <<at, wake>>
           \/ run' = run /\ UNCHANGED <<at, wake, bit>>
    <2>1. CASE wait_until_deadline
      <3>1. caps BY <2>1, Zenon DEF wait_until_deadline, IInv, Good, WorkerLives
      <3> QED BY <2>1, <3>1, Zenon DEF wait_until_deadline, registry
    <2>2. CASE dispatch_one BY <2>2, Zenon DEF dispatch_one, registry, signals, calls
    <2>3. CASE callback_returns BY <2>3, Zenon DEF callback_returns, Calls, registry, signals, calls
    <2>4. CASE complete BY <2>4, Zenon DEF complete, registry, calls
    <2>5. CASE worker_leaves BY <2>5, Zenon DEF worker_leaves, registry, signals, calls
    <2> QED BY <2>1, <2>2, <2>3, <2>4, <2>5, Zenon
  <1>1. UNCHANGED calls /\ UNCHANGED <<caps, slot, worker>>
    BY <1>0, Zenon DEF calls, runtime, control
  <1>2. /\ timers \in [Id -> Entry] /\ dispatching \in 0 .. MaxTimer /\ run \in RunPoints
        /\ \A i \in Id : Live(i)' <=> Live(i)
    BY <1>0, Zenon DEF IInv, Types, Live
  <1>3. WorkerLives' BY <1>0, <1>1 DEF WorkerLives, IInv, Good
  <1>4. NoLostWake'
    <2>1. run' \in {"sleeping", "wait"} => run' = run /\ wake' = wake BY <1>0, Zenon
    <2>2. CASE run' \notin {"sleeping", "wait"} BY <2>2, Zenon DEF NoLostWake
    <2>3. CASE run' = run /\ wake' = wake BY <1>0, <1>2, <2>3, WakeFrame, Zenon DEF IInv, Safe
    <2> QED BY <2>1, <2>2, <2>3, Zenon
  <1>5. (dispatching # 0 /\ run # "restored" /\ Live(dispatching)
           => ~timers[dispatching].callback)'
    BY <1>0, <1>2, Zenon DEF CallsKeepHandles, IInv, Good, Live
  <1>6. run' \in RunPoints /\ (run' = run \/ (run \notin WorkerSections
                                              /\ run' \notin WorkerSections /\ run # "none"))
    BY <1>0, <1>2, Zenon
  <1> QED BY <1>0, <1>1, <1>2, <1>3, <1>4, <1>5, <1>6, WorkerFrame, Zenon

LEMMA WorkerUnlockKeeps ==
    ASSUME IInv, Calm, worker_unlock
    PROVE  IInv'
  <1>0. /\ UNCHANGED <<phase, leases, caps, slot, worker, timers, next_id, stop_requested, wake,
                       bit, alarm, arg, captor, suspended, now>>
        /\ UNCHANGED <<runtime, control, registry, signals>>
        /\ mutex = Worker /\ at[Worker] = "idle" /\ mutex' = Nobody
        /\ run' = Then(run) /\ dispatching' = IF run' = "scan" THEN 0 ELSE dispatching
        /\ \/ UNCHANGED <<at, drops, handle>>
           \/ /\ run = "discarding" /\ at' = [at EXCEPT ![Worker] = "drop"]
              /\ \E k \in Captured(dispatching) :
                    /\ drops' = [drops EXCEPT ![Worker] = <<k>>]
                    /\ handle' = [handle EXCEPT ![k] = "dropping"]
    BY Zenon DEF worker_unlock, Goto, runtime, control, registry, signals
  <1>1. run \in WorkerSections BY <1>0, Zenon DEF IInv, Good, MutexOwner
  <1>2. /\ run = "sleeping" => run' = "wait"
        /\ run = "dispatching" => run' = "chosen"
        /\ run = "stopping" => run' = "complete"
        /\ run \in {"restored", "discarding"} => run' = "scan"
    BY <1>0, <1>1, Zenon DEF Then
  <1>3. /\ run' \in RunPoints /\ run' \notin WorkerSections /\ run # "none"
        /\ run' = "scan" => dispatching' = 0
        /\ run' # "scan" => dispatching' = dispatching
        /\ dispatching' \in 0 .. MaxTimer
    BY <1>0, <1>1, <1>2, TimerAssumption DEF IInv, Types
  <1>4. \A i \in Id : Live(i)' <=> Live(i) BY <1>0, Zenon DEF Live
  <1>5. NoLostWake'
    <2>1. Deadlines' = Deadlines BY <1>0, Zenon DEF Deadlines, Live
    <2>2. run' = "wait" => run = "sleeping" BY <1>1, <1>2, Zenon
    <2> QED BY <1>0, <1>3, <2>1, <2>2, Zenon DEF NoLostWake, IInv, Safe
  <1>6. (dispatching # 0 /\ run # "restored" /\ Live(dispatching)
           => ~timers[dispatching].callback)'
    <2>1. dispatching' # 0 => run # "restored" /\ dispatching' = dispatching BY <1>2, <1>3, Zenon
    <2> QED BY <1>0, <2>1, Zenon DEF CallsKeepHandles, IInv, Good, Live
  <1>7. ASSUME at'[Worker] # "idle" => run' = "scan" PROVE WorkerLives'
    <2>1. dispatching' # 0 <=> run' \in {"dispatching", "chosen", "callback", "restore",
                                         "restored", "discarding"}
      BY <1>1, <1>2, <1>3, Zenon DEF WorkerLives, IInv, Good
    <2>2. dispatching' < next_id' BY <1>0, <1>3 DEF WorkerLives, IInv, Good, Types
    <2>3. run' \in {"stopping", "complete"} => stop_requested
      BY <1>1, <1>2, Zenon DEF WorkerLives, IInv, Good
    <2> QED BY <1>0, <1>1, <1>7, <2>1, <2>2, <2>3, Zenon DEF WorkerLives, IInv, Good
  <1>8. CASE UNCHANGED <<at, drops, handle>>
    <2>1. /\ UNCHANGED <<runtime, control, next_id, stop_requested, calls, owners, suspended, now>>
          /\ timers' \in [Id -> Entry]
      BY <1>0, <1>8, Zenon DEF calls, owners, IInv, Types
    <2>2. WorkerLives' BY <1>0, <1>7, <1>8, Zenon
    <2>3. mutex' = Worker <=> run' \in WorkerSections BY <1>0, <1>3, TimerAssumption, Zenon
    <2> QED BY <1>0, <1>3, <1>4, <1>5, <1>6, <2>1, <2>2, <2>3, WorkerFrame, Zenon
  <1>9. CASE /\ run = "discarding" /\ at' = [at EXCEPT ![Worker] = "drop"]
             /\ \E k \in Captured(dispatching) :
                   /\ drops' = [drops EXCEPT ![Worker] = <<k>>]
                   /\ handle' = [handle EXCEPT ![k] = "dropping"]
    <2>0. PICK k \in Captured(dispatching) :
                   /\ drops' = [drops EXCEPT ![Worker] = <<k>>]
                   /\ handle' = [handle EXCEPT ![k] = "dropping"]
      BY <1>9, Zenon
    <2>1. /\ at \in [Actor -> CallPoints] /\ at'[Worker] = "drop"
          /\ k \in Id /\ handle[k] = "callback"
          /\ handle \in [Id -> {"none", "app", "callback", "dropping"}]
          /\ handle'[k] = "dropping" /\ \A i \in Id : i # k => handle'[i] = handle[i]
          /\ \A b \in Actor : (b # Worker => at'[b] = at[b]) /\ mutex' # b
      BY <1>0, <1>9, <2>0, TimerAssumption, Zenon DEF Captured, IInv, Types
    <2>2. drops' \in [Actor -> Seq(Id)] /\ DropStack' /\ DropsDisjoint'
      <3>1. Live(k) BY <2>1, Zenon DEF IInv, Safe, HandlesAreLive
      <3>2. handle[k] # "dropping" BY <2>1, Zenon
      <3> QED BY <1>4, <1>9, <2>0, <2>1, <3>1, <3>2, PushKeeps, Zenon
    <2>3. \A b \in Actor : at'[b] \notin Sections
      BY <1>0, <2>1, Zenon DEF IInv, Good, MutexOwner
    <2>4. Types'
      <3>1. handle' \in [Id -> {"none", "app", "callback", "dropping"}] BY <2>0, <2>1, Zenon
      <3>2. at' \in [Actor -> CallPoints] BY <1>9, <2>1, Zenon
      <3> QED BY <1>0, <1>3, <2>2, <3>1, <3>2, Zenon DEF Types, IInv
    <2>5. OneTransition' BY <1>0, <1>3, <2>1, Zenon DEF OneTransition, IInv, Good
    <2>6. WorkerLives' BY <1>2, <1>7, <1>9, Zenon
    <2>7. MutexOwner' BY <1>0, <1>3, <2>1, <2>3, Zenon DEF MutexOwner
    <2>8. Registry'
      <3>1. \A i \in Id : i >= next_id => handle'[i] = "none" /\ ~Live(i)'
        BY <1>4, <2>1, Zenon DEF Registry, IInv, Good
      <3> QED BY <1>0, <1>4, <2>1, <2>3, <3>1, Zenon DEF Registry, IInv, Good
    <2>9. CallsKeepHandles'
      <3>1. \A b \in Actor : at'[b] \in {"ensured", "held"}
                => b # Worker /\ at[b] = at'[b] /\ arg[b] # k
        BY <2>1, Zenon DEF CallsKeepHandles, IInv, Good
      <3> QED BY <1>0, <1>6, <2>1, <2>3, <3>1, SMTT(120) DEF CallsKeepHandles, IInv, Good
    <2>10. LeaseCount'
      <3>1. Held' = Held /\ Leased' = Leased BY <1>0, <2>1 DEF Held, Leased
      <3>2. InNew' = InNew BY <1>0, <2>1, Zenon DEF InNew, Creating
      <3> QED BY <1>0, <3>1, <3>2, LeaseFrame, Zenon DEF IInv, Good
    <2>11. OnlySuspendedCallsPanic' /\ RolledBackServiceRuns'
      BY <1>0, <2>1, Zenon DEF OnlySuspendedCallsPanic, RolledBackServiceRuns, Calm, IInv, Safe
    <2>12. HandlesAreLive' BY <1>0, <1>4, <2>1, Zenon DEF HandlesAreLive, IInv, Safe
    <2> QED BY <1>5, <2>2, <2>4, <2>5, <2>6, <2>7, <2>8, <2>9, <2>10, <2>11, <2>12, Zenon
            DEF IInv, Good, Safe
  <1> QED BY <1>0, <1>8, <1>9, Zenon
-----------------------------------------------------------------------------
LEMMA NextIInv ==
    ASSUME Facts, IInv, [Next]_vars
    PROVE  IInv'
  <1>1. ASSUME UNCHANGED <<runtime, control, registry, mutex, signals, service, calls, owners>>,
               UNCHANGED suspended, now' = now \/ tick
        PROVE  IInv'
    <2>1. now' \in TS!Duration
      BY <1>1, TimerAssumption DEF tick, TS!Duration, IInv, Types
    <2> QED BY <1>1, <2>1, TimeKeeps, Zenon DEF IInv, Types
  <1>2. CASE UNCHANGED vars BY <1>1, <1>2, Zenon DEF vars
  <1>3. CASE tick BY <1>1, <1>3, Zenon DEF tick
  <1>4. CASE Calm /\ timer_worker
    BY <1>4, ScanKeeps, WorkerUnlockKeeps, WorkerMovesKeep, RestoreKeeps, Zenon DEF timer_worker
  <1>5. CASE Calm /\ callback_returns BY <1>5, WorkerMovesKeep, Zenon
  <1>6. ASSUME Calm, NEW a \in Actor, Continue(a) PROVE IInv'
    <2>1. CASE deregister(a)
      <3>1. CASE mutex = Nobody BY <1>6, <2>1, <3>1, DeregisterKeeps, Zenon
      <3>2. CASE mutex # Nobody
        BY <1>6, <2>1, <3>2, PanicKeeps, Zenon DEF deregister, with_lock, Goto
      <3> QED BY <3>1, <3>2, Zenon
    <2>2. ASSUME NEW period \in Periods, NEW mode \in {"OneShot", "Periodic"},
                 NEW k \in 0 .. MaxTimer, register(a, period, mode, k)
          PROVE  IInv'
      <3>1. CASE mutex = Nobody BY <1>6, <2>2, <3>1, RegisterKeeps, Zenon
      <3>2. CASE mutex # Nobody BY <1>6, <2>2, <3>2, PanicKeeps, Zenon DEF register, with_lock, Goto
      <3> QED BY <3>1, <3>2, Zenon
    <2> QED
      BY <1>6, <2>1, <2>2, UnlockKeeps, NewReturnsKeeps, OperationKeeps, DeregisterReturnsKeeps,
         DropLeaseKeeps, InitializeKeeps, ShutdownRequestKeeps, LifecycleKeeps, Zenon
      DEF Continue
  <1>7. ASSUME Calm, NEW a \in Actor, Begin(a) PROVE IInv'
    <2>1. CASE suspend(a)
      <3>1. now' \in TS!Duration /\ suspended' \in Task \cup {Nobody}
        BY <2>1, TimerAssumption, Zenon DEF suspend, IInv, Types
      <3> QED BY <1>7, <2>1, <3>1, TimeKeeps, Zenon DEF suspend
    <2>2. ASSUME NEW k \in 0 .. MaxTimer, register_fails(a, k) PROVE IInv'
      <3>1. CASE mutex = Nobody BY <1>7, <2>2, <3>1, RegisterFailsKeeps, Zenon
      <3>2. CASE mutex # Nobody
        BY <1>7, <2>2, <3>2, PanicKeeps, Zenon DEF register_fails, with_lock, Goto
      <3> QED BY <3>1, <3>2, Zenon
    <2> QED
      BY <1>7, <2>1, <2>2, EnsureWorkerKeeps, OperationKeeps, DropHandleKeeps, NewLeaseKeeps,
         LifecycleKeeps, Zenon
      DEF Begin
  <1>8. CASE ~Calm /\ Next BY <1>3, <1>8, NobodyRuns, Zenon
  <1> QED BY <1>2, <1>3, <1>4, <1>5, <1>6, <1>7, <1>8, Zenon DEF Next
-----------------------------------------------------------------------------
(* The steps of the contract, told timer by timer.                         *)
Armed(i) == Live(i) /\ timers[i].state.deadline # NoDeadline

LEMMA ContractStutter ==
    ASSUME UNCHANGED dispatching, \A i \in Id : (Live(i)' <=> Live(i)) /\ (Armed(i)' <=> Armed(i))
    PROVE  UNCHANGED Contract!vars
  BY Zenon DEF Contract!vars, Armed

LEMMA ContractCreate ==
    ASSUME NEW t \in Id, ~Live(t), dispatching # t, UNCHANGED dispatching,
           \A i \in Id : (Live(i)' <=> Live(i) \/ i = t) /\ (Armed(i)' <=> Armed(i))
    PROVE  Contract!Create(t)
  BY Zenon DEF Contract!Create, Armed

LEMMA ContractArm ==
    ASSUME NEW t \in Id, Live(t), UNCHANGED dispatching,
           \A i \in Id : (Live(i)' <=> Live(i)) /\ (Armed(i)' <=> Armed(i) \/ i = t)
    PROVE  Contract!Arm(t)
  BY Zenon DEF Contract!Arm, Armed

LEMMA ContractDisarm ==
    ASSUME NEW t \in Id, Live(t), UNCHANGED dispatching,
           \A i \in Id : (Live(i)' <=> Live(i)) /\ (Armed(i)' <=> Armed(i) /\ i # t)
    PROVE  Contract!Disarm(t)
  BY Zenon DEF Contract!Disarm, Armed

LEMMA ContractFire ==
    ASSUME NEW t \in Id, Armed(t), dispatching = 0, dispatching' = t,
           \A i \in Id : (Live(i)' <=> Live(i)) /\ (i # t => (Armed(i)' <=> Armed(i)))
    PROVE  Contract!Fire(t)
  BY DEF Contract!Fire, Armed, Id

LEMMA ContractDone ==
    ASSUME NEW t \in Id, dispatching = t, dispatching' = 0,
           \A i \in Id : (Live(i)' <=> Live(i)) /\ (Armed(i)' <=> Armed(i))
    PROVE  Contract!Done(t)
  <1>1. dispatching # 0 BY DEF Id
  <1> QED BY <1>1, Zenon DEF Contract!Done, Armed

LEMMA ContractDestroy ==
    ASSUME NEW t \in Id, Live(t), UNCHANGED dispatching,
           \A i \in Id : /\ Live(i)' <=> Live(i) /\ i # t
                         /\ Armed(i)' <=> Armed(i) /\ i # t
    PROVE  Contract!Destroy(t)
  BY Zenon DEF Contract!Destroy, Armed

LEMMA PurgeStutters ==
    ASSUME timers \in [Id -> Entry], timers' = timers \/ timers' = Purged, UNCHANGED dispatching
    PROVE  UNCHANGED Contract!vars
  <1>1. \A j \in Id : (Live(j)' <=> Live(j)) /\ (Live(j) => timers'[j] = timers[j])
    BY PurgeIsInvisible, Zenon DEF Live
  <1>2. \A j \in Id : (Live(j)' <=> Live(j)) /\ (Armed(j)' <=> Armed(j)) BY <1>1, Zenon DEF Armed
  <1> QED BY <1>2, ContractStutter, Zenon

LEMMA EntryEdited ==
    ASSUME timers \in [Id -> Entry], NEW i \in Id, NEW s \in TS!TimerStates,
           timers' = [timers EXCEPT ![i].state = s]
    PROVE  /\ timers'[i].state = s
           /\ \A j \in Id : Live(j)' <=> Live(j)
           /\ \A j \in Id : j # i => timers'[j] = timers[j]
  <1> DEFINE e == timers[i]
             f == [e EXCEPT !.state = s]
  <1>1. e \in Entry /\ timers' = [timers EXCEPT ![i] = f] BY Zenon
  <1>2. f.state = s /\ f.status = e.status
    <2> HIDE DEF e
    <2> QED BY <1>1, Zenon DEF Entry
  <1> HIDE DEF f
  <1> QED BY <1>1, <1>2, Zenon DEF Live

LEMMA OperationImplements ==
    ASSUME IInv, Calm, NEW a \in Actor, mutex = Nobody,
           \/ start(a)
           \/ \E i \in Id : stop(a, i) \/ \E period \in Periods : change_period(a, i, period)
    PROVE  Contract!Next \/ UNCHANGED Contract!vars
  <1>0. timers \in [Id -> Entry] /\ now \in Nat /\ MaxDuration \in Nat
    BY TimerAssumption DEF IInv, Types, TS!Duration
  <1>1. ASSUME NEW i \in Id, Usable(a, i)
        PROVE  Live(i) /\ timers[i].state \in TS!TimerStates
    BY <1>0, <1>1, Zenon DEF IInv, Safe, HandlesAreLive, Usable, Entry
  <1>2. CASE start(a)
    <2> DEFINE i == arg[a]
               t == timers[i].state
               deadline == TS!checked_deadline(now, t.period)
    <2>1. i \in Id /\ Usable(a, i)
      BY <1>2, Zenon DEF start, IInv, Good, CallsKeepHandles, Usable
    <2>2. t \in TS!TimerStates /\ Live(i) BY <1>1, <2>1, Zenon
    <2>3. timers' = [timers EXCEPT ![i].state = TS!start(t, now)] /\ UNCHANGED dispatching
      BY <1>2, Zenon DEF start, with_lock, Edits, service
    <2>4. CASE deadline = Overflow
      <3>1. TS!start(t, now) = t BY <2>4, Zenon DEF TS!start
      <3>2. timers' = timers BY <1>0, <2>1, <2>3, <3>1, Zenon DEF Entry
      <3> QED BY <1>0, <2>3, <3>2, PurgeStutters, Zenon
    <2>5. CASE deadline # Overflow
      <3>1. deadline \in TS!Duration /\ deadline # NoDeadline
        BY <1>0, <2>2, <2>5, TimerAssumption, SMTT(120)
           DEF TS!checked_deadline, TS!checked_add, TS!TimerStates, TS!Duration, TS!Period
      <3>2. TS!start(t, now) = [t EXCEPT !.deadline = deadline] BY <2>5, Zenon DEF TS!start
      <3>3. TS!start(t, now) \in TS!TimerStates /\ TS!start(t, now).deadline = deadline
        <4> HIDE DEF t, deadline
        <4> QED BY <2>2, <3>1, <3>2, Zenon DEF TS!TimerStates
      <3> DEFINE s == TS!start(t, now)
      <3> HIDE DEF deadline, s
      <3>4. s \in TS!TimerStates /\ s.deadline # NoDeadline
            /\ timers' = [timers EXCEPT ![i].state = s]
        BY <2>3, <3>1, <3>3, Zenon DEF s
      <3> HIDE DEF i
      <3>5. /\ timers'[i].state = s
            /\ \A j \in Id : Live(j)' <=> Live(j)
            /\ \A j \in Id : j # i => timers'[j] = timers[j]
        BY <1>0, <2>1, <3>4, EntryEdited, Zenon
      <3>6. \A j \in Id : (Live(j)' <=> Live(j)) /\ (Armed(j)' <=> Armed(j) \/ j = i)
        BY <2>2, <3>4, <3>5, Zenon DEF Armed
      <3> QED BY <2>1, <2>2, <2>3, <3>6, ContractArm, Zenon DEF Contract!Next
    <2> QED BY <2>4, <2>5, Zenon
  <1>3. ASSUME NEW i \in Id, stop(a, i) PROVE Contract!Next
    <2> DEFINE t == timers[i].state
               s == TS!stop(t)
    <2>1. t \in TS!TimerStates /\ Live(i) BY <1>1, <1>3, Zenon DEF stop
    <2>2. s \in TS!TimerStates /\ s.deadline = NoDeadline
      <3> HIDE DEF t
      <3> QED BY <2>1, Zenon DEF TS!stop, TS!TimerStates
    <2>3. timers' = [timers EXCEPT ![i].state = s] /\ UNCHANGED dispatching
      BY <1>3, Zenon DEF stop, with_lock, Edits, service
    <2> HIDE DEF s
    <2>4. /\ timers'[i].state = s
          /\ \A j \in Id : Live(j)' <=> Live(j)
          /\ \A j \in Id : j # i => timers'[j] = timers[j]
      BY <1>0, <2>2, <2>3, EntryEdited, Zenon
    <2>5. \A j \in Id : (Live(j)' <=> Live(j)) /\ (Armed(j)' <=> Armed(j) /\ j # i)
      BY <2>2, <2>4, Zenon DEF Armed
    <2> QED BY <2>1, <2>3, <2>5, ContractDisarm, Zenon DEF Contract!Next
  <1>4. ASSUME NEW i \in Id, NEW period \in Periods, change_period(a, i, period)
        PROVE  UNCHANGED Contract!vars
    <2> DEFINE t == timers[i].state
               s == TS!change_period(t, period)
    <2>1. t \in TS!TimerStates /\ Live(i) BY <1>1, <1>4, Zenon DEF change_period
    <2>2. s \in TS!TimerStates /\ s.deadline = t.deadline
      <3> HIDE DEF t
      <3> QED BY <2>1, TimerAssumption, Zenon DEF TS!change_period, TS!TimerStates, TS!Period
    <2>3. timers' = [timers EXCEPT ![i].state = s] /\ UNCHANGED dispatching
      BY <1>4, Zenon DEF change_period, with_lock, Edits, service
    <2> HIDE DEF s
    <2>4. /\ timers'[i].state = s
          /\ \A j \in Id : Live(j)' <=> Live(j)
          /\ \A j \in Id : j # i => timers'[j] = timers[j]
      BY <1>0, <2>2, <2>3, EntryEdited, Zenon
    <2>5. \A j \in Id : (Live(j)' <=> Live(j)) /\ (Armed(j)' <=> Armed(j))
      BY <2>2, <2>4, Zenon DEF Armed
    <2> QED BY <2>3, <2>5, ContractStutter, Zenon
  <1> QED BY <1>2, <1>3, <1>4, Zenon

LEMMA RegistryImplements ==
    ASSUME Facts, IInv, Calm, NEW a \in Actor,
           \/ mutex = Nobody /\ deregister(a)
           \/ initialize(a) \/ shutdown_request(a)
           \/ /\ mutex = Nobody
              /\ \E period \in Periods, mode \in {"OneShot", "Periodic"}, k \in 0 .. MaxTimer :
                     register(a, period, mode, k)
    PROVE  Contract!Next \/ UNCHANGED Contract!vars
  <1>0. timers \in [Id -> Entry] BY Zenon DEF IInv, Types
  <1>1. CASE mutex = Nobody /\ deregister(a)
    <2>1. PICK i \in Id :
             /\ Live(i) /\ UNCHANGED dispatching
             /\ timers' = [timers EXCEPT ![i] = [status |-> "deleted", callback |-> FALSE,
                                                 state |-> TS!stop(timers[i].state)]]
      BY <1>1, DropFindsItsTimer, Zenon
    <2>2. \A j \in Id : /\ Live(j)' <=> Live(j) /\ j # i
                        /\ Armed(j)' <=> Armed(j) /\ j # i
      BY <1>0, <2>1, Zenon DEF Live, Armed
    <2> QED BY <2>1, <2>2, ContractDestroy, Zenon DEF Contract!Next
  <1>2. CASE initialize(a)
    <2>1. UNCHANGED dispatching /\ \A j \in Id : ~Live(j)
      BY <1>2, Zenon DEF initialize, service, IInv, Good, Registry
    <2>2. \A j \in Id : ~Live(j)' BY <1>2, Zenon DEF initialize, Live, Absent
    <2> QED BY <2>1, <2>2, ContractStutter, Zenon DEF Armed
  <1>3. CASE shutdown_request(a)
    <2>1. (timers' = timers \/ timers' = Purged) /\ UNCHANGED dispatching
      BY <1>3, Zenon DEF shutdown_request, service
    <2> QED BY <1>0, <2>1, PurgeStutters, Zenon
  <1>4. ASSUME mutex = Nobody, NEW period \in Periods, NEW mode \in {"OneShot", "Periodic"},
               NEW k \in 0 .. MaxTimer, register(a, period, mode, k)
        PROVE  Contract!Next
    <2>1. next_id \in Id /\ ~Live(next_id) BY <1>4, RegisterFinds, Zenon DEF register
    <2>2. dispatching # next_id BY <2>1 DEF IInv, Good, WorkerLives, Types
    <2>3. /\ UNCHANGED dispatching
          /\ timers' = [timers EXCEPT ![next_id] = [status |-> "live", callback |-> TRUE,
                                                    state |-> TS!new(period, mode)]]
      BY <1>4, Zenon DEF register, with_lock, Edits, service
    <2>4. \A j \in Id : (Live(j)' <=> Live(j) \/ j = next_id) /\ (Armed(j)' <=> Armed(j))
      BY <1>0, <2>1, <2>2, <2>3, Zenon DEF Live, Armed, TS!new
    <2> QED BY <2>1, <2>2, <2>3, <2>4, ContractCreate, Zenon DEF Contract!Next
  <1> QED BY <1>1, <1>2, <1>3, <1>4, Zenon

LEMMA WorkerImplements ==
    ASSUME IInv, Calm, scan \/ worker_unlock \/ restore
    PROVE  Contract!Next \/ UNCHANGED Contract!vars
  <1>0. timers \in [Id -> Entry] /\ dispatching \in 0 .. MaxTimer /\ MaxTimer \in Nat
    BY TimerAssumption, Zenon DEF IInv, Types
  <1>1. CASE scan
    <2>1. dispatching = 0 BY <1>1, Zenon DEF scan, IInv, Good, WorkerLives
    <2>2. ASSUME NEW i \in Id, Dispatch(i) PROVE Contract!Next
      <3> DEFINE s == TS!advance_on_expiry(timers[i].state, now)
      <3>1. Live(i) /\ dispatching' = i /\ Armed(i)
        BY <2>2, Zenon DEF Dispatch, Expired, Armed, TS!has_expired
      <3>2. s \in TS!TimerStates
        <4>1. timers[i].state \in TS!TimerStates BY <1>0, Zenon DEF Entry
        <4> QED BY <4>1, ExpiryKeepsType, Zenon DEF IInv, Types
      <3>3. timers' = [Purged EXCEPT ![i].state = s, ![i].callback = FALSE]
        <4>1. Purged[i] = timers[i] /\ Purged \in [Id -> Entry]
          BY <1>0, <3>1, PurgeIsInvisible, Zenon
        <4> QED BY <2>2, <4>1, Zenon DEF Dispatch, take_callback
      <3> HIDE DEF s
      <3>4. /\ \A j \in Id : Live(j)' <=> Live(j)
            /\ \A j \in Id : j # i /\ Live(j) => timers'[j] = timers[j]
        BY <1>0, <3>1, <3>2, <3>3, DispatchEntry, Zenon
      <3>5. \A j \in Id : (Live(j)' <=> Live(j)) /\ (j # i => (Armed(j)' <=> Armed(j)))
        BY <3>4, Zenon DEF Armed
      <3> QED BY <2>1, <3>1, <3>5, ContractFire, Zenon DEF Contract!Next
    <2>3. CASE timers' = Purged /\ UNCHANGED dispatching BY <1>0, <2>3, PurgeStutters, Zenon
    <2> QED BY <1>1, <2>2, <2>3, Zenon DEF scan
  <1>2. CASE restore
    <2>1. dispatching \in Id BY <1>0, <1>2 DEF restore, IInv, Good, WorkerLives, Id
    <2>2. UNCHANGED dispatching
          /\ (timers' = timers \/ timers' = [timers EXCEPT ![dispatching].callback = TRUE])
      BY <1>2, Zenon DEF restore
    <2>3. \A j \in Id : (Live(j)' <=> Live(j)) /\ (Armed(j)' <=> Armed(j))
      BY <1>0, <2>1, <2>2 DEF Live, Armed, Entry
    <2> QED BY <2>2, <2>3, ContractStutter, Zenon
  <1>3. CASE worker_unlock
    <2>1. timers' = timers /\ dispatching' \in {0, dispatching}
      BY <1>3, Zenon DEF worker_unlock, registry
    <2>2. \A j \in Id : (Live(j)' <=> Live(j)) /\ (Armed(j)' <=> Armed(j))
      BY <2>1, Zenon DEF Live, Armed
    <2>3. CASE dispatching' = dispatching BY <2>2, <2>3, ContractStutter, Zenon
    <2>4. CASE dispatching' # dispatching
      <3>1. dispatching \in Id /\ dispatching' = 0 BY <1>0, <2>1, <2>4 DEF Id
      <3> QED BY <2>2, <3>1, ContractDone, Zenon DEF Contract!Next
    <2> QED BY <2>3, <2>4, Zenon
  <1> QED BY <1>1, <1>2, <1>3, Zenon

LEMMA NextImplements ==
    ASSUME Facts
    PROVE  IInv /\ [Next]_vars => [Contract!Next]_(Contract!vars)
  <1> SUFFICES ASSUME IInv, [Next]_vars PROVE Contract!Next \/ UNCHANGED Contract!vars
    BY Zenon
  <1> USE DEF registry, service
  <1>1. CASE UNCHANGED <<timers, dispatching>>
    <2>1. \A j \in Id : (Live(j)' <=> Live(j)) /\ (Armed(j)' <=> Armed(j))
      BY <1>1, Zenon DEF Live, Armed
    <2> QED BY <1>1, <2>1, ContractStutter, Zenon
  <1>2. CASE UNCHANGED vars BY <1>1, <1>2, Zenon DEF vars
  <1>3. CASE tick \/ callback_returns BY <1>1, <1>3, Zenon DEF tick, callback_returns
  <1>4. CASE Calm /\ timer_worker
    <2>1. CASE wait_until_deadline \/ dispatch_one \/ complete \/ worker_leaves
      BY <1>1, <2>1, Zenon DEF wait_until_deadline, dispatch_one, complete, worker_leaves
    <2> QED BY <1>4, <2>1, WorkerImplements, Zenon DEF timer_worker
  <1>5. ASSUME Calm, NEW a \in Actor, Continue(a)
        PROVE  Contract!Next \/ UNCHANGED Contract!vars
    <2>1. CASE \/ unlock(a) \/ new_returns(a) \/ deregister_returns(a) \/ drop_lease(a)
               \/ commit_initialize(a) \/ shutdown_preflight(a) \/ shutdown_wait(a)
               \/ shutdown_cleanup(a) \/ commit_shutdown(a)
      BY <1>1, <2>1, Zenon
      DEF unlock, new_returns, deregister_returns, drop_lease, commit_initialize,
                        shutdown_preflight, shutdown_wait, shutdown_cleanup, commit_shutdown
    <2>2. CASE initialize(a) \/ shutdown_request(a) BY <1>5, <2>2, RegistryImplements, Zenon
    <2>3. ASSUME mutex # Nobody,
                 start(a) \/ deregister(a)
                 \/ \E period \in Periods, mode \in {"OneShot", "Periodic"},
                       k \in 0 .. MaxTimer : register(a, period, mode, k)
          PROVE  Contract!Next \/ UNCHANGED Contract!vars
      BY <1>1, <2>3, Zenon DEF start, deregister, register, with_lock
    <2>4. CASE mutex = Nobody
      BY <1>5, <2>1, <2>2, <2>4, OperationImplements, RegistryImplements, Zenon DEF Continue
    <2>5. CASE mutex # Nobody BY <1>5, <2>1, <2>2, <2>3, <2>5, Zenon DEF Continue
    <2> QED BY <2>4, <2>5, Zenon
  <1>6. ASSUME Calm, NEW a \in Actor, Begin(a)
        PROVE  Contract!Next \/ UNCHANGED Contract!vars
    <2>1. CASE \/ begin_initialize(a) \/ initialize_fails(a) \/ begin_shutdown(a)
               \/ new_lease(a) \/ suspend(a)
               \/ \E i \in Id : ensure_worker(a, i) \/ drop_handle(a, i)
      BY <1>1, <2>1, Zenon
      DEF begin_initialize, initialize_fails, begin_shutdown, new_lease, suspend,
                        ensure_worker, drop_handle
    <2>2. ASSUME NEW k \in 0 .. MaxTimer, register_fails(a, k)
          PROVE  Contract!Next \/ UNCHANGED Contract!vars
      BY <1>1, <2>2, Zenon DEF register_fails, with_lock
    <2>3. ASSUME mutex # Nobody,
                 \/ \E i \in Id : stop(a, i)
                 \/ \E i \in Id, period \in Periods : change_period(a, i, period)
          PROVE  Contract!Next \/ UNCHANGED Contract!vars
      BY <1>1, <2>3, Zenon DEF stop, change_period, with_lock
    <2>4. CASE mutex = Nobody BY <1>6, <2>1, <2>2, <2>4, OperationImplements, Zenon DEF Begin
    <2>5. CASE mutex # Nobody BY <1>6, <2>1, <2>2, <2>3, <2>5, Zenon DEF Begin
    <2> QED BY <2>4, <2>5, Zenon
  <1>7. CASE ~Calm /\ Next BY <1>3, <1>7, NobodyRuns, Zenon
  <1> QED BY <1>2, <1>3, <1>4, <1>5, <1>6, <1>7, Zenon DEF Next
-----------------------------------------------------------------------------
INSTANCE FiniteSetTheorems
INSTANCE WellFoundedInduction

LEMMA FactsHold == Facts
  <1>1. ASSUME NEW T \in SUBSET Nat, T # {} PROVE \E d \in T : \A e \in T : d <= e
    <2> DEFINE R == OpToRel(<, Nat)
    <2>1. IsWellFoundedOn(R, Nat) BY NatLessThanWellFounded, Zenon
    <2>2. ASSUME NEW x \in Nat, NEW y \in Nat, y < x PROVE <<y, x>> \in R
      BY <2>2, Zenon DEF OpToRel
    <2> HIDE DEF R
    <2>3. PICK x \in T : \A y \in T : <<y, x>> \notin R BY <1>1, <2>1, WFMin, Zenon
    <2>4. ASSUME NEW y \in T PROVE x <= y
      <3>1. x \in Nat /\ y \in Nat BY Zenon
      <3>2. ~(y < x) BY <2>2, <2>3, <3>1, Zenon
      <3> QED BY <3>1, <3>2
    <2> QED BY <2>4, Zenon
  <1> QED
    BY <1>1, FS_Interval, FS_CardinalityType, FS_EmptySet, FS_Subset, FS_AddElement,
       FS_RemoveElement, Zenon
    DEF Facts

(* The inductive invariant holds: leases, handles, the registry mutex and  *)
(* the worker agree until a suspended caller panics, and nothing moves     *)
(* after that.                                                             *)
THEOREM TimerInvariant == Spec => []IInv
  BY FactsHold, InitIInv, NextIInv, PTL DEF Spec

(* The worker never sleeps past a stop request or a deadline: whoever      *)
(* changes one between the scan and the semaphore has signalled            *)
(* (wait_until_deadline, start, deregister, shutdown).                     *)
THEOREM NoWakeIsLost == Spec => []NoLostWake
  <1>1. IInv => NoLostWake BY Zenon DEF IInv, Safe
  <1> QED BY <1>1, TimerInvariant, PTL

(* The expects and assertions of drop, with_lock, shutdown and of the      *)
(* worker's wait hold, except in a task that calls with the scheduler      *)
(* suspended while another one owns the registry mutex.                    *)
THEOREM OthersNeverPanic == Spec => []OnlySuspendedCallsPanic
  <1>1. IInv => OnlySuspendedCallsPanic BY Zenon DEF IInv, Safe
  <1> QED BY <1>1, TimerInvariant, PTL

(* A shutdown that is refused, at whichever step, leaves a service that    *)
(* runs and was not asked to stop (runtime.rs rolls back to Running).      *)
THEOREM RollBackIsClean == Spec => []RolledBackServiceRuns
  <1>1. IInv => RolledBackServiceRuns BY Zenon DEF IInv, Safe
  <1> QED BY <1>1, TimerInvariant, PTL

(* A handle, in the application or inside a callback, refers to a live     *)
(* timer of a running service, and one lease is held for it and for each   *)
(* call of new under way (FreeRtosTimer and its lease, deregister).        *)
THEOREM HandlesPin == Spec => []HandlesPinTheService
  <1>1. IInv => HandlesPinTheService
    BY Zenon
    DEF IInv, Safe, Good, HandlesAreLive, Calm, LeaseCount, Held, InNew, HandlesPinTheService
  <1> QED BY <1>1, TimerInvariant, PTL

(* The FreeRTOS timer service implements TimerContract: through worker     *)
(* creation, concurrent operations, dispatch, nested drops, panics and     *)
(* restarts, a callback runs only for a timer that was armed when the scan *)
(* chose it, one at a time, and never again for one deregistered.          *)
THEOREM FreeRtosTimersKeepTheContract == Spec => ImplementsContract
  <1>1. Init => Contract!Init
    BY DEF Init, Contract!Init, Live, Absent
  <1>2. QED BY <1>1, FactsHold, TimerInvariant, NextImplements, PTL
            DEF Spec, ImplementsContract, Contract!Spec
=============================================================================
