-------------------------- MODULE PosixTimerProofs --------------------------
(***************************************************************************)
(* Proofs about PosixTimer, for every finite set of threads, every set of  *)
(* periods and any number of timers and services.                          *)
(***************************************************************************)
EXTENDS PosixTimer, Integers, TLAPS

(* TypeOK but for the alarm, and nobody has panicked.                      *)
Entry == [status : {"absent", "live", "deleted"}, callback : BOOLEAN, state : TS!TimerStates]

Types ==
    /\ leases \in Nat
    /\ timers \in [Id -> Entry]
    /\ next_id \in 1 .. MaxTimer + 1
    /\ run \in RunPoints /\ dispatching \in 0 .. MaxTimer
    /\ at \in [Actor -> CallPoints \ {"panicked"}]
    /\ drops \in [Actor -> Seq(Id)]
    /\ handle \in [Id -> {"none", "app", "callback", "dropping"}]
    /\ now \in TS!Duration

(* The service is there for its callers.                                   *)
Healthy == slot = "Running" /\ ~stop_requested /\ run \notin {"none", "exited"}

Transition == {"init", "inited", "stop", "join", "cleanup", "commit"}

(* One actor at a time takes the runtime up or down, and the slot, the     *)
(* flag and the worker follow it.                                          *)
OneTransition ==
    /\ \A a, b \in Actor : at[a] \in Transition /\ at[b] \in Transition => a = b
    /\ \A a \in Actor :
          /\ at[a] \in {"init", "inited"} => phase = "Initializing"
          /\ at[a] \in {"stop", "join", "cleanup", "commit"} => phase = "ShuttingDown"
          /\ at[a] \in {"init", "commit"} => slot = "Stopped"
          /\ at[a] \in {"inited", "stop"} => Healthy
          /\ at[a] \in {"join", "cleanup"} => slot = "Stopping"
          /\ at[a] = "cleanup" => run = "none"
    /\ phase = "Running" => Healthy
    /\ phase = "Uninitialized" => slot = "Stopped"
    /\ slot = "Stopped" => run = "none"

(* What the worker dispatches, and that it is in no other call meanwhile.  *)
WorkerInside ==
    /\ dispatching # 0 <=> run \in {"chosen", "callback", "restore"}
    /\ run \notin {"callback", "scan"} => at[Worker] = "idle"
    /\ dispatching < next_id

(* The registry: what is not yet given out, or belongs to no running       *)
(* service, is not live.                                                   *)
Registry ==
    /\ \A i \in Id : i >= next_id => handle[i] = "none" /\ ~Live(i)
    /\ \A i \in Id : handle[i] \in {"app", "callback"} => Live(i)
    /\ slot # "Running" => \A i \in Id : ~Live(i)

Held == {i \in Id : handle[i] # "none"}
Leased == {a \in Actor : at[a] = "leased"}

LeaseCount ==
    /\ leases = Cardinality(Held) + Cardinality(Leased)
    /\ next_id + Cardinality(Leased) <= MaxTimer + 1
    /\ phase # "Running" => leases = 0

(* The handles an actor drops are its own; a drop inside another one waits *)
(* for the mutexes its own thread holds.                                   *)
DropStack ==
    \A a \in Actor :
        \/ at[a] \notin {"drop", "unwind"} /\ drops[a] = <<>>
        \/ /\ at[a] \in {"drop", "unwind"}
           /\ \E i \in Id : /\ drops[a] = <<i>> /\ handle[i] = "dropping"
                            /\ at[a] = "drop" => Live(i)
        \/ /\ at[a] = "drop" /\ locked = a
           /\ \E i, k \in Id : /\ drops[a] = <<k, i>> /\ i # k
                               /\ handle[i] = "dropping" /\ handle[k] = "dropping"

DropsDisjoint ==
    \A a, b \in Actor : \A j \in 1 .. Len(drops[a]), k \in 1 .. Len(drops[b]) :
        drops[a][j] = drops[b][k] => a = b

IInv == /\ Types /\ OneTransition /\ WorkerInside /\ Registry /\ LeaseCount
        /\ DropStack /\ DropsDisjoint

(* What the proofs take from the library's theorems: facts about finite    *)
(* sets and when two sequences are equal.  The lemmas assume them, which   *)
(* keeps the library out of their way; FactsHold proves them.              *)
Facts ==
    /\ \A m, n \in Int : IsFiniteSet(m .. n)
    /\ \A S : IsFiniteSet(S) => /\ Cardinality(S) \in Nat
                                /\ Cardinality(S) = 0 <=> S = {}
                                /\ \A T \in SUBSET S : IsFiniteSet(T)
    /\ IsFiniteSet({}) /\ Cardinality({}) = 0
    /\ \A S, x : IsFiniteSet(S) =>
          /\ IsFiniteSet(S \cup {x})
          /\ Cardinality(S \cup {x}) = IF x \in S THEN Cardinality(S) ELSE Cardinality(S) + 1
          /\ Cardinality(S \ {x}) = IF x \in S THEN Cardinality(S) - 1 ELSE Cardinality(S)
    /\ \A s, t \in Seq(Id) :
          Len(s) = Len(t) /\ (\A j \in 1 .. Len(s) : s[j] = t[j]) => s = t

USE DEF CallPoints, RunPoints, Transition, Actor

LEMMA HeldIsFinite ==
    ASSUME Facts
    PROVE  /\ IsFiniteSet(Id) /\ IsFiniteSet(Actor)
           /\ IsFiniteSet(Held) /\ Cardinality(Held) \in Nat
           /\ IsFiniteSet(Leased) /\ Cardinality(Leased) \in Nat
  <1>1. IsFiniteSet(Id) BY TimerAssumption DEF Facts, Id
  <1>2. IsFiniteSet(Actor) BY TimerAssumption, Zenon DEF Facts
  <1>3. IsFiniteSet(Held) /\ IsFiniteSet(Leased)
    <2>1. Held \in SUBSET Id /\ Leased \in SUBSET Actor BY Zenon DEF Held, Leased
    <2> QED BY <1>1, <1>2, <2>1, Zenon DEF Facts
  <1> QED BY <1>1, <1>2, <1>3, Zenon DEF Facts

LEMMA EmptySets ==
    ASSUME Facts
    PROVE  /\ Cardinality({}) = 0
           /\ \A S : IsFiniteSet(S) /\ Cardinality(S) = 0 => S = {}
  BY Zenon DEF Facts

(* A lease, of a handle or of a call of new, keeps the runtime running.    *)
LEMMA LeaseMeansRunning ==
    ASSUME Facts, IInv, Held # {} \/ Leased # {}
    PROVE  phase = "Running" /\ Healthy /\ leases > 0
  <1>1. Cardinality(Held) > 0 \/ Cardinality(Leased) > 0
    BY HeldIsFinite, EmptySets
  <1>2. leases > 0 BY <1>1, HeldIsFinite DEF IInv, LeaseCount
  <1> QED BY <1>2 DEF IInv, LeaseCount, OneTransition

LEMMA InitIInv ==
    ASSUME Facts
    PROVE  Init => IInv
  <1> SUFFICES ASSUME Init PROVE IInv
    BY Zenon
  <1> USE TimerAssumption DEF Init
  <1>1. timers \in [Id -> Entry]
    BY DEF Absent, Entry, TS!TimerStates, TS!Period
  <1>2. Types BY <1>1 DEF Types, TS!Duration, Id
  <1>3. OneTransition BY Zenon DEF OneTransition, Healthy
  <1>4. WorkerInside BY DEF WorkerInside
  <1>5. Registry BY Zenon DEF Registry, Live, Absent
  <1>6. LeaseCount
    <2>1. Held = {} /\ Leased = {} BY Zenon DEF Held, Leased
    <2> QED BY <2>1, EmptySets DEF LeaseCount
  <1>7. DropStack /\ DropsDisjoint BY DEF DropStack, DropsDisjoint
  <1> QED BY <1>2, <1>3, <1>4, <1>5, <1>6, <1>7, Zenon DEF IInv
-----------------------------------------------------------------------------
(* Frames: what a step leaves alone keeps its part of the invariant.       *)
LEMMA RegistryFrame ==
    ASSUME Registry, UNCHANGED <<handle, next_id, slot>>,
           \A i \in Id : Live(i)' => Live(i), 
           \A i \in Id : handle[i] \in {"app", "callback"} /\ Live(i) => Live(i)'
    PROVE  Registry'
  BY Zenon DEF Registry

LEMMA LeaseFrame ==
    ASSUME LeaseCount, Leased' = Leased, UNCHANGED <<handle, leases, next_id>>,
           phase' # "Running" => leases = 0
    PROVE  LeaseCount'
  <1>1. Held' = Held BY Zenon DEF Held
  <1> QED BY <1>1, Zenon DEF LeaseCount

LEMMA DropFrame ==
    ASSUME DropStack, DropsDisjoint, UNCHANGED <<drops, handle, locked>>,
           \A a \in Actor : /\ at'[a] \in {"drop", "unwind"} <=> at[a] \in {"drop", "unwind"}
                            /\ at'[a] = "drop" <=> at[a] = "drop",
           \A i \in Id : handle[i] = "dropping" /\ Live(i) => Live(i)'
    PROVE  DropStack' /\ DropsDisjoint'
  <1>1. DropsDisjoint' BY Zenon DEF DropsDisjoint
  <1>2. DropStack' BY DEF DropStack
  <1> QED BY <1>1, <1>2, Zenon
-----------------------------------------------------------------------------
LEMMA InitializeKeeps ==
    ASSUME IInv, NEW a \in Actor,
           begin_initialize(a) \/ initialize_fails(a) \/ commit_initialize(a)
    PROVE  IInv'
  <1> USE DEF IInv, begin_initialize, initialize_fails, commit_initialize, Calls, Goto, control,
              registry, worker, owners, runtime
  <1>1. Types' BY Zenon DEF Types
  <1>2. OneTransition' BY DEF OneTransition, Healthy, Types
  <1>3. WorkerInside' BY Zenon DEF WorkerInside, Types
  <1>4. Registry' BY Zenon DEF Registry, Live
  <1>5. LeaseCount'
    <2>1. Leased' = Leased BY Zenon DEF Leased, Types
    <2> QED BY <2>1, LeaseFrame, Zenon DEF LeaseCount, OneTransition
  <1>6. DropStack' /\ DropsDisjoint' BY DropFrame, Zenon DEF Types, Live
  <1> QED BY <1>1, <1>2, <1>3, <1>4, <1>5, <1>6, Zenon

LEMMA NewServiceKeeps ==
    ASSUME Facts, IInv, NEW a \in Actor, initialize(a)
    PROVE  IInv'
  <1> USE DEF IInv, initialize, Goto, owners, runtime
  <1>0. Held = {} /\ Leased = {} BY LeaseMeansRunning, Zenon DEF OneTransition
  <1>1. Types'
    <2>1. timers' \in [Id -> Entry]
      BY TimerAssumption DEF Absent, Entry, TS!TimerStates, TS!Period
    <2> QED BY <2>1, TimerAssumption DEF Types
  <1>2. OneTransition' BY Zenon DEF OneTransition, Healthy, Types
  <1>3. WorkerInside' BY DEF WorkerInside, Types
  <1>4. Registry' BY <1>0, Zenon DEF Registry, Live, Absent, Held
  <1>5. LeaseCount'
    <2>1. Leased' = Leased /\ Held' = Held BY Zenon DEF Leased, Held, Types, OneTransition
    <2> QED BY <1>0, <2>1, EmptySets, TimerAssumption DEF LeaseCount, Types
  <1>6. DropStack' /\ DropsDisjoint'
    <2>1. \A i \in Id : handle[i] # "dropping" BY <1>0, Zenon DEF Held
    <2> QED BY <2>1, DropFrame, Zenon DEF Types
  <1> QED BY <1>1, <1>2, <1>3, <1>4, <1>5, <1>6, Zenon

LEMMA ShutdownKeeps ==
    ASSUME IInv, NEW a \in Actor,
           begin_shutdown(a) \/ shutdown_join(a) \/ shutdown_cleanup(a) \/ commit_shutdown(a)
    PROVE  IInv'
  <1> USE DEF IInv, begin_shutdown, shutdown_join, shutdown_cleanup, commit_shutdown,
              worker_exited, Calls, Goto, control, registry, worker, owners, runtime
  <1>1. Types' BY Zenon DEF Types, OneTransition
  <1>2. OneTransition' BY DEF OneTransition, Healthy, Types
  <1>3. WorkerInside' BY Zenon DEF WorkerInside, Types
  <1>4. Registry' BY Zenon DEF Registry, Live, OneTransition
  <1>5. LeaseCount'
    <2>1. Leased' = Leased BY Zenon DEF Leased, Types
    <2> QED BY <2>1, LeaseFrame, Zenon DEF LeaseCount, OneTransition
  <1>6. DropStack' /\ DropsDisjoint' BY DropFrame, Zenon DEF Types, Live
  <1> QED BY <1>1, <1>2, <1>3, <1>4, <1>5, <1>6, Zenon

(* A shutdown that is refused gives the runtime back as it was.            *)
LEMMA ShutdownRequestKeeps ==
    ASSUME IInv, NEW a \in Actor, shutdown_request(a)
    PROVE  IInv'
  <1> USE DEF IInv, shutdown_request, refused, with_service, signal, Goto, owners
  <1>0. slot = "Running" /\ phase = "ShuttingDown" BY Zenon DEF OneTransition, Healthy
  <1>1. \A i \in Id : Live(i)' <=> Live(i)
    BY Zenon DEF Live, Purged, Absent, Types, Entry
  <1>2. Types'
    <2>1. timers' \in [Id -> Entry]
      BY TimerAssumption DEF Purged, Absent, Entry, TS!TimerStates, TS!Period, Types
    <2> QED BY <2>1, Zenon DEF Types
  <1>3. OneTransition' BY DEF OneTransition, Healthy, Types
  <1>4. WorkerInside' BY Zenon DEF WorkerInside, Types
  <1>5. Registry' BY <1>0, <1>1, Zenon DEF Registry
  <1>6. LeaseCount'
    <2>1. Leased' = Leased BY Zenon DEF Leased, Types
    <2> QED BY <1>0, <2>1, LeaseFrame, Zenon DEF LeaseCount
  <1>7. DropStack' /\ DropsDisjoint' BY <1>1, DropFrame, Zenon DEF Types
  <1> QED BY <1>2, <1>3, <1>4, <1>5, <1>6, <1>7, Zenon

LEMMA EditKeeps ==
    ASSUME IInv, NEW i \in Id, NEW state \in TS!TimerStates, Edit(i, state)
    PROVE  IInv'
  <1> USE DEF IInv, Edit, with_service, signal, runtime, control, calls, owners
  <1>1. \A j \in Id : Live(j)' <=> Live(j)
    BY Zenon DEF Live, Types, Entry
  <1>2. Types' BY Zenon DEF Types, Entry
  <1>3. OneTransition' BY Zenon DEF OneTransition, Healthy
  <1>4. WorkerInside' BY Zenon DEF WorkerInside, Types
  <1>5. Registry' BY <1>1, Zenon DEF Registry
  <1>6. LeaseCount'
    <2>1. Leased' = Leased BY Zenon DEF Leased
    <2> QED BY <2>1, LeaseFrame, Zenon DEF LeaseCount
  <1>7. DropStack' /\ DropsDisjoint' BY <1>1, DropFrame, Zenon
  <1> QED BY <1>2, <1>3, <1>4, <1>5, <1>6, <1>7, Zenon

LEMMA OperationKeeps ==
    ASSUME IInv, NEW a \in Actor, NEW i \in Id,
           start(a, i) \/ stop(a, i) \/ \E period \in Periods : change_period(a, i, period)
    PROVE  IInv'
  <1>1. timers[i].state \in TS!TimerStates BY Zenon DEF IInv, Types, Entry
  <1>2. TS!stop(timers[i].state) \in TS!TimerStates
    BY <1>1, Zenon DEF TS!stop, TS!TimerStates
  <1>3. TS!start(timers[i].state, now) \in TS!TimerStates
    <2> DEFINE t == timers[i].state
               deadline == TS!checked_deadline(now, t.period)
    <2>1. deadline = Overflow \/ deadline \in TS!Duration
      BY <1>1, TimerAssumption
         DEF TS!checked_deadline, TS!checked_add, TS!TimerStates, TS!Duration, TS!Period, IInv,
             Types
    <2>2. TS!start(t, now) = IF deadline = Overflow THEN t ELSE [t EXCEPT !.deadline = deadline]
      BY Zenon DEF TS!start
    <2> HIDE DEF deadline, t
    <2>3. t \in TS!TimerStates BY <1>1, Zenon DEF t
    <2>4. TS!start(t, now) \in TS!TimerStates BY <2>1, <2>2, <2>3, Zenon DEF TS!TimerStates
    <2> QED BY <2>4, Zenon DEF t
  <1>4. ASSUME NEW period \in Periods
        PROVE  TS!change_period(timers[i].state, period) \in TS!TimerStates
    BY <1>1, TimerAssumption, Zenon DEF TS!change_period, TS!TimerStates, TS!Period
  <1> QED BY <1>2, <1>3, <1>4, EditKeeps, Zenon DEF start, stop, change_period
-----------------------------------------------------------------------------
LEMMA NewLeaseKeeps ==
    ASSUME Facts, IInv, NEW a \in Actor, new_lease(a)
    PROVE  IInv'
  <1> USE DEF IInv, new_lease, Calls, Goto, control, registry, worker, owners
  <1>1. Types' BY DEF Types
  <1>2. OneTransition' BY Zenon DEF OneTransition, Healthy, Types
  <1>3. WorkerInside' BY Zenon DEF WorkerInside, Types
  <1>4. Registry' BY Zenon DEF Registry, Live
  <1>5. LeaseCount'
    <2>1. Leased' = Leased \cup {a} /\ a \notin Leased /\ Held' = Held
      BY Zenon DEF Leased, Held, Types
    <2>2. Cardinality(Leased') = Cardinality(Leased) + 1
      BY <2>1, HeldIsFinite, Zenon DEF Facts
    <2>3. next_id + Cardinality(Leased) <= MaxTimer BY Zenon DEF Leased
    <2>4. phase' = "Running" /\ leases' = leases + 1 /\ next_id' = next_id BY Zenon
    <2> QED BY <2>1, <2>2, <2>3, <2>4, HeldIsFinite, TimerAssumption DEF LeaseCount, Types
  <1>6. DropStack' /\ DropsDisjoint' BY DropFrame, Zenon DEF Types, Live
  <1> QED BY <1>1, <1>2, <1>3, <1>4, <1>5, <1>6, Zenon

LEMMA RegisterKeeps ==
    ASSUME Facts, IInv, NEW a \in Actor,
           NEW period \in Periods, NEW mode \in {"OneShot", "Periodic"},
           NEW k \in 0 .. MaxTimer, register(a, period, mode, k)
    PROVE  IInv'
  <1> USE DEF IInv, register, with_service, Goto, signal, runtime, control
  <1>0. /\ Leased' = Leased \ {a} /\ a \in Leased
        /\ Cardinality(Leased') = Cardinality(Leased) - 1 /\ Cardinality(Leased) > 0
    <2>1. Leased' = Leased \ {a} /\ a \in Leased BY Zenon DEF Leased, Types
    <2>2. Cardinality(Leased') = Cardinality(Leased) - 1
      BY <2>1, HeldIsFinite, Zenon DEF Facts
    <2>3. Cardinality(Leased) # 0 BY <2>1, HeldIsFinite, EmptySets, Zenon
    <2> QED BY <2>1, <2>2, <2>3, HeldIsFinite
  <1>1. next_id \in Id /\ handle[next_id] = "none" /\ k # next_id
    <2>1. next_id \in Id BY <1>0, HeldIsFinite, TimerAssumption DEF LeaseCount, Types, Id
    <2>2. handle[next_id] = "none" BY <2>1 DEF Registry, Types
    <2>3. k = 0 \/ (k \in Id /\ handle[k] = "app") BY Zenon DEF Capturable
    <2> QED BY <2>1, <2>2, <2>3 DEF Id
  <1>2. timers' = [timers EXCEPT ![next_id] = [status |-> "live", callback |-> TRUE,
                                               state |-> TS!new(period, mode)]]
    BY Zenon
  <1>3. TS!new(period, mode) \in TS!TimerStates
    BY TimerAssumption, Zenon DEF TS!new, TS!TimerStates, TS!Period
  <1>4. \A i \in Id : Live(i)' <=> Live(i) \/ i = next_id
    BY <1>1, Zenon DEF Live, Types, Entry
  <1>5. \A i \in Id : handle'[i] = IF i = k THEN "callback"
                                   ELSE IF i = next_id THEN "app" ELSE handle[i]
    BY <1>1, Zenon
  <1>6. k \in Id => handle[k] = "app" BY DEF Capturable, Id
  <1>7. Types'
    <2>1. timers' \in [Id -> Entry] BY <1>1, <1>3, Zenon DEF Types, Entry
    <2>2. handle' \in [Id -> {"none", "app", "callback", "dropping"}]
      BY <1>5, Zenon DEF Types
    <2>3. next_id' \in 1 .. MaxTimer + 1 BY <1>1, TimerAssumption DEF Id
    <2> QED BY <2>1, <2>2, <2>3, Zenon DEF Types
  <1>8. OneTransition' BY Zenon DEF OneTransition, Healthy, Types
  <1>9. WorkerInside' BY DEF WorkerInside, Types
  <1>10. Registry' BY <1>1, <1>4, <1>5, <1>6, TimerAssumption DEF Registry, Types, Id
  <1>11. LeaseCount'
    <2>1. Held' = Held \cup {next_id} /\ next_id \notin Held
      BY <1>1, <1>5, <1>6, Zenon DEF Held
    <2>2. Cardinality(Held') = Cardinality(Held) + 1 BY <2>1, HeldIsFinite, Zenon DEF Facts
    <2>3. /\ leases = Cardinality(Held) + Cardinality(Leased)
          /\ next_id + Cardinality(Leased) <= MaxTimer + 1 /\ next_id \in Nat
      BY DEF LeaseCount, Types
    <2> QED BY <1>0, <2>2, <2>3, HeldIsFinite, TimerAssumption DEF LeaseCount
  <1>12. DropsDisjoint' BY DEF DropsDisjoint
  <1>13. DropStack'
    <2>1. \A i \in Id : handle[i] = "dropping" => handle'[i] = "dropping" BY <1>1, <1>5, <1>6, Zenon
    <2>2. \A b \in Actor : at'[b] = IF b = a THEN "idle" ELSE at[b] BY Zenon DEF Types
    <2> QED BY <1>4, <2>1, <2>2 DEF DropStack
  <1> QED BY <1>7, <1>8, <1>9, <1>10, <1>11, <1>12, <1>13, Zenon
-----------------------------------------------------------------------------
(* What is on a stack is being dropped, and by one actor.                  *)
LEMMA StackEntry ==
    ASSUME IInv, NEW a \in Actor, NEW j \in 1 .. Len(drops[a])
    PROVE  drops[a][j] \in Id /\ handle[drops[a][j]] = "dropping"
  <1>1. CASE drops[a] = <<>> BY <1>1
  <1>2. ASSUME NEW i \in Id, drops[a] = <<i>>, handle[i] = "dropping"
        PROVE  drops[a][j] \in Id /\ handle[drops[a][j]] = "dropping"
    BY <1>2
  <1>3. ASSUME NEW i \in Id, NEW k \in Id, drops[a] = <<k, i>>,
               handle[i] = "dropping", handle[k] = "dropping"
        PROVE  drops[a][j] \in Id /\ handle[drops[a][j]] = "dropping"
    <2>1. j \in {1, 2} BY <1>3
    <2> QED BY <1>3, <2>1
  <1> QED BY <1>1, <1>2, <1>3, Zenon DEF IInv, DropStack

LEMMA Pair ==
    ASSUME Facts, NEW k \in Id, NEW i \in Id
    PROVE  <<k>> \o <<i>> = <<k, i>> /\ \A j \in 1 .. Len(<<k, i>>) : <<k, i>>[j] \in {k, i}
  <1>1. <<k>> \in Seq(Id) /\ <<i>> \in Seq(Id) /\ <<k, i>> \in Seq(Id) OBVIOUS
  <1>2. Len(<<k>> \o <<i>>) = 2 /\ <<k>> \o <<i>> \in Seq(Id) BY <1>1
  <1>3. \A j \in 1 .. 2 : (<<k>> \o <<i>>)[j] = <<k, i>>[j] BY <1>1
  <1>4. <<k>> \o <<i>> = <<k, i>> BY <1>1, <1>2, <1>3, ZenonT(60) DEF Facts
  <1>5. Len(<<k, i>>) = 2 /\ 1 .. 2 = {1, 2} OBVIOUS
  <1> QED BY <1>4, <1>5

LEMMA DropHandleKeeps ==
    ASSUME IInv, NEW a \in Actor, NEW i \in Id, drop_handle(a, i)
    PROVE  IInv'
  <1> USE DEF IInv, drop_handle, Calls, Goto, runtime, control, registry, worker
  <1>1. Types' BY DEF Types
  <1>2. OneTransition' BY Zenon DEF OneTransition, Healthy, Types
  <1>3. WorkerInside' BY Zenon DEF WorkerInside, Types
  <1>4. Registry' BY Zenon DEF Registry, Live, Types
  <1>5. LeaseCount'
    <2>1. Leased' = Leased /\ Held' = Held BY Zenon DEF Leased, Held, Types
    <2> QED BY <2>1, Zenon DEF LeaseCount
  <1>6. DropStack'
    <2>1. Live(i) BY Zenon DEF Registry
    <2>2. \A j \in Id : handle'[j] = IF j = i THEN "dropping" ELSE handle[j] BY Zenon DEF Types
    <2>3. \A b \in Actor : b # a => at'[b] = at[b] /\ drops'[b] = drops[b] BY Zenon DEF Types
    <2>4. at'[a] = "drop" /\ drops'[a] = <<i>> BY Zenon DEF Types
    <2> QED BY <2>1, <2>2, <2>3, <2>4 DEF DropStack, Live
  <1>7. DropsDisjoint'
    <2>1. ASSUME NEW b \in Actor, NEW j \in 1 .. Len(drops[b]) PROVE drops[b][j] # i
      BY <2>1, StackEntry, Zenon
    <2>2. \A b \in Actor : b # a => drops'[b] = drops[b] BY Zenon DEF Types
    <2>3. drops'[a] = <<i>> BY Zenon DEF Types
    <2> QED BY <2>1, <2>2, <2>3 DEF DropsDisjoint
  <1> QED BY <1>1, <1>2, <1>3, <1>4, <1>5, <1>6, <1>7, Zenon

(* A drop finds its timer live and the service running: it never panics.   *)
LEMMA DropFindsItsTimer ==
    ASSUME Facts, IInv, NEW a \in Actor, at[a] = "drop", locked = Nobody
    PROVE  /\ \E i \in Id : drops[a] = <<i>> /\ handle[i] = "dropping" /\ Live(i)
           /\ slot = "Running"
  <1>1. PICK i \in Id : drops[a] = <<i>> /\ handle[i] = "dropping" /\ Live(i)
    BY TimerAssumption, Zenon DEF IInv, DropStack
  <1>2. Held # {} BY <1>1, Zenon DEF Held
  <1>3. slot = "Running" BY <1>2, LeaseMeansRunning, Zenon DEF Healthy
  <1> QED BY <1>1, <1>3, Zenon

LEMMA DeregisterKeeps ==
    ASSUME Facts, IInv, NEW a \in Actor, deregister(a)
    PROVE  IInv'
  <1> USE DEF IInv, Goto, runtime, control, take_callback
  <1>0. PICK i \in Id : drops[a] = <<i>> /\ handle[i] = "dropping" /\ Live(i)
    BY DropFindsItsTimer, Zenon DEF deregister
  <1>1. slot = "Running" BY DropFindsItsTimer, Zenon DEF deregister
  <1>2. Head(drops[a]) = i BY <1>0
  <1>3. /\ at[a] = "drop" /\ locked = Nobody
        /\ timers' = [timers EXCEPT ![i] = [status |-> "deleted", callback |-> FALSE,
                                            state |-> TS!stop(timers[i].state)]]
        /\ UNCHANGED <<runtime, control, next_id, stop_requested, dispatching, alarm, captor, now>>
    BY <1>0, <1>1, <1>2, Zenon DEF deregister
  <1>4. \/ /\ run' = signal /\ at' = [at EXCEPT ![a] = "unwind"]
           /\ UNCHANGED <<locked, drops, handle>>
        \/ \E k \in Captured(i) :
              /\ locked' = a
              /\ drops' = [drops EXCEPT ![a] = <<k>> \o @]
              /\ handle' = [handle EXCEPT ![k] = "dropping"]
              /\ UNCHANGED <<run, at>>
    BY <1>0, <1>1, <1>2, Zenon DEF deregister
  <1>5. timers' \in [Id -> Entry] /\ \A j \in Id : Live(j)' <=> Live(j) /\ j # i
    <2>1. timers[i].state \in TS!TimerStates BY Zenon DEF Types, Entry
    <2>2. TS!stop(timers[i].state) \in TS!TimerStates BY <2>1, Zenon DEF TS!stop, TS!TimerStates
    <2> QED BY <1>3, <2>2, Zenon DEF Types, Entry, Live
  <1>6. CASE /\ run' = signal /\ at' = [at EXCEPT ![a] = "unwind"]
             /\ UNCHANGED <<locked, drops, handle>>
    <2> USE <1>3, <1>6
    <2>1. Types' BY <1>5, Zenon DEF Types, signal
    <2>2. OneTransition' BY Zenon DEF OneTransition, Healthy, Types, signal
    <2>3. WorkerInside' BY Zenon DEF WorkerInside, Types, signal
    <2>4. Registry' BY <1>0, <1>1, <1>5, Zenon DEF Registry
    <2>5. LeaseCount'
      <3>1. Leased' = Leased /\ Held' = Held BY Zenon DEF Leased, Held, Types
      <3> QED BY <3>1, Zenon DEF LeaseCount
    <2>6. DropsDisjoint' BY DEF DropsDisjoint
    <2>7. DropStack'
      <3>1. \A b \in Actor, j \in Id : b # a /\ drops[b] = <<j>> => j # i
        <4> SUFFICES ASSUME NEW b \in Actor, b # a, drops[b] = <<i>> PROVE FALSE
          BY Zenon
        <4>1. drops[a][1] = drops[b][1] /\ 1 \in 1 .. Len(drops[a]) /\ 1 \in 1 .. Len(drops[b])
          BY <1>0
        <4> QED BY <4>1, Zenon DEF DropsDisjoint
      <3>2. \A b \in Actor : b # a => at'[b] = at[b] BY Zenon DEF Types
      <3>3. at'[a] = "unwind" BY Zenon DEF Types
      <3> QED BY <1>0, <1>5, <3>1, <3>2, <3>3 DEF DropStack
    <2> QED BY <2>1, <2>2, <2>3, <2>4, <2>5, <2>6, <2>7, Zenon
  <1>7. ASSUME NEW k \in Captured(i), locked' = a, drops' = [drops EXCEPT ![a] = <<k>> \o @],
               handle' = [handle EXCEPT ![k] = "dropping"], UNCHANGED <<run, at>>
        PROVE  IInv'
    <2> USE <1>3, <1>7
    <2>0. k \in Id /\ handle[k] = "callback" /\ k # i BY <1>0, Zenon DEF Captured
    <2>1. drops'[a] = <<k, i>> /\ \A b \in Actor : b # a => drops'[b] = drops[b]
      BY <1>0, <2>0, Pair DEF Types
    <2>2. \A j \in Id : handle'[j] = IF j = k THEN "dropping" ELSE handle[j]
      BY <2>0, Zenon DEF Types
    <2>3. Types'
      <3>1. drops' \in [Actor -> Seq(Id)]
        <4>1. <<k, i>> \in Seq(Id) BY <2>0
        <4> QED BY <1>0, <2>0, <2>1, <4>1, Zenon DEF Types
      <3> QED BY <1>5, <3>1, Zenon DEF Types
    <2>4. OneTransition' BY Zenon DEF OneTransition, Healthy
    <2>5. WorkerInside' BY Zenon DEF WorkerInside
    <2>6. Registry' BY <1>0, <1>1, <1>5, <2>0, <2>2, Zenon DEF Registry
    <2>7. LeaseCount'
      <3>1. Leased' = Leased /\ Held' = Held BY <2>0, <2>2 DEF Leased, Held
      <3> QED BY <3>1, Zenon DEF LeaseCount
    <2>8. DropStack'
      <3>1. \A b \in Actor, j \in Id : b # a /\ drops[b] = <<j>> => j # i
        <4> SUFFICES ASSUME NEW b \in Actor, b # a, drops[b] = <<i>> PROVE FALSE
          BY Zenon
        <4>1. drops[a][1] = drops[b][1] /\ 1 \in 1 .. Len(drops[a]) /\ 1 \in 1 .. Len(drops[b])
          BY <1>0
        <4> QED BY <4>1, Zenon DEF DropsDisjoint
      <3>2. \A b \in Actor : locked # b BY TimerAssumption, Zenon
      <3> QED BY <1>0, <1>5, <2>0, <2>1, <2>2, <3>1, <3>2 DEF DropStack
    <2>9. DropsDisjoint'
      <3>1. ASSUME NEW b \in Actor, NEW j \in 1 .. Len(drops[b]) PROVE drops[b][j] # k
        BY <2>0, <3>1, StackEntry, Zenon
      <3>2. ASSUME NEW b \in Actor, b # a, NEW j \in 1 .. Len(drops[b]) PROVE drops[b][j] # i
        <4>1. drops[a][1] = i /\ 1 \in 1 .. Len(drops[a]) BY <1>0
        <4> QED BY <3>2, <4>1, Zenon DEF DropsDisjoint
      <3>3. \A j \in 1 .. Len(drops'[a]) : drops'[a][j] \in {i, k}
        <4>1. \A j \in 1 .. Len(<<k, i>>) : <<k, i>>[j] \in {k, i} BY <2>0, Pair, Zenon
        <4> QED BY <2>1, <4>1, Zenon
      <3>4. \A b \in Actor : b # a => drops'[b] = drops[b] BY <2>1, Zenon DEF Types
      <3>5. ASSUME NEW b \in Actor, b # a, NEW j \in 1 .. Len(drops'[a]),
                   NEW m \in 1 .. Len(drops'[b])
            PROVE  drops'[a][j] # drops'[b][m]
        BY <3>1, <3>2, <3>3, <3>4, <3>5
      <3> QED BY <3>4, <3>5 DEF DropsDisjoint
    <2> QED BY <2>3, <2>4, <2>5, <2>6, <2>7, <2>8, <2>9, Zenon
  <1> QED BY <1>4, <1>6, <1>7, Zenon

LEMMA DropLeaseKeeps ==
    ASSUME Facts, IInv, NEW a \in Actor, drop_lease(a)
    PROVE  IInv'
  <1> USE DEF IInv, drop_lease, Goto, control, registry, worker, release_lease
  <1>0. PICK i \in Id : drops[a] = <<i>> /\ handle[i] = "dropping" BY Zenon DEF DropStack
  <1>1. /\ Head(drops[a]) = i /\ at' = [at EXCEPT ![a] = "idle"]
        /\ drops' = [drops EXCEPT ![a] = <<>>]
        /\ handle' = [handle EXCEPT ![i] = "none"]
    BY <1>0
  <1>2. phase = "Running" /\ leases > 0
    <2>1. Held # {} BY <1>0, Zenon DEF Held
    <2> QED BY <2>1, LeaseMeansRunning, Zenon
  <1>3. Types'
    <2>1. drops' \in [Actor -> Seq(Id)] BY <1>1 DEF Types
    <2> QED BY <1>1, <1>2, <2>1 DEF Types
  <1>4. OneTransition' BY <1>1 DEF OneTransition, Healthy, Types
  <1>5. WorkerInside' BY <1>1, Zenon DEF WorkerInside, Types
  <1>6. Registry' BY <1>0, <1>1 DEF Registry, Live, Types
  <1>7. LeaseCount'
    <2>1. Leased' = Leased BY <1>1, Zenon DEF Leased, Types
    <2>2. Held' = Held \ {i} /\ i \in Held BY <1>0, <1>1 DEF Held, Types
    <2>3. Cardinality(Held') = Cardinality(Held) - 1 BY <2>2, HeldIsFinite, Zenon DEF Facts
    <2> QED BY <1>2, <2>1, <2>3, HeldIsFinite DEF LeaseCount, Types
  <1>8. \A b \in Actor : b # a => at'[b] = at[b] /\ drops'[b] = drops[b] BY <1>1, Zenon DEF Types
  <1>9. at'[a] = "idle" /\ drops'[a] = <<>> BY <1>1, Zenon DEF Types
  <1>10. ASSUME NEW b \in Actor, b # a, NEW j \in 1 .. Len(drops[b]) PROVE drops[b][j] # i
    <2>1. drops[a][1] = i /\ 1 \in 1 .. Len(drops[a]) BY <1>0
    <2> QED BY <1>10, <2>1, Zenon DEF DropsDisjoint
  <1>11. DropStack'
    <2>1. ASSUME NEW k \in Id, k # i PROVE handle'[k] = handle[k] BY <1>1, <2>1, Zenon DEF Types
    <2>2. ASSUME NEW b \in Actor, b # a, NEW k \in Id, drops[b] = <<k>>
          PROVE  k # i
      <3>1. drops[b][1] = k /\ 1 \in 1 .. Len(drops[b]) BY <2>2
      <3> QED BY <1>10, <2>2, <3>1, Zenon
    <2>3. ASSUME NEW b \in Actor, b # a, NEW k \in Id, NEW m \in Id, drops[b] = <<k, m>>
          PROVE  k # i /\ m # i
      <3>1. /\ drops[b][1] = k /\ drops[b][2] = m
            /\ 1 \in 1 .. Len(drops[b]) /\ 2 \in 1 .. Len(drops[b])
        BY <2>3
      <3> QED BY <1>10, <2>3, <3>1, Zenon
    <2>4. UNCHANGED <<timers, locked>> BY Zenon
    <2> HIDE DEF drop_lease, IInv
    <2>5. DropStack BY Zenon DEF IInv
    <2> QED BY <1>8, <1>9, <2>1, <2>2, <2>3, <2>4, <2>5 DEF DropStack, Live
  <1>12. DropsDisjoint' BY <1>8, <1>9 DEF DropsDisjoint
  <1> QED BY <1>3, <1>4, <1>5, <1>6, <1>7, <1>11, <1>12, Zenon
-----------------------------------------------------------------------------
LEMMA ExpiryKeepsType ==
    ASSUME NEW t \in TS!TimerStates, NEW time \in TS!Duration
    PROVE  TS!advance_on_expiry(t, time) \in TS!TimerStates
  <1> DEFINE next == TS!next_periodic_deadline(t.deadline, t.period, time)
             deadline == TS!after_expiry(t, next)
  <1>1. CASE ~TS!has_expired(t, time) BY <1>1, Zenon DEF TS!advance_on_expiry
  <1>2. CASE TS!has_expired(t, time)
    <2>1. /\ t.deadline \in Nat /\ time - t.deadline \in Nat /\ t.period \in Nat \ {0}
          /\ MaxDuration \in Nat
      BY <1>2, TimerAssumption
         DEF TS!has_expired, TS!TimerStates, TS!Duration, TS!Period
    <2> DEFINE missed == (time - t.deadline) \div t.period
    <2>2. missed \in Nat BY <2>1, SMT
    <2>3. next \in TS!Duration \cup {Overflow}
      <3>1. time \in Nat /\ t.deadline <= time BY <1>2, <2>1 DEF TS!has_expired, TS!Duration
      <3>2. next = TS!checked_add(t.deadline, t.period * (missed + 1))
        BY <2>1, <3>1 DEF TS!next_periodic_deadline, TS!missed_periods
      <3> HIDE DEF missed
      <3>3. t.period * (missed + 1) \in Nat BY <2>1, <2>2
      <3> QED BY <2>1, <3>2, <3>3 DEF TS!checked_add, TS!Duration
    <2>4. TS!advance_on_expiry(t, time) = [t EXCEPT !.deadline = deadline]
      BY <1>2, Zenon DEF TS!advance_on_expiry
    <2> HIDE DEF next
    <2>5. deadline \in TS!Duration \cup {NoDeadline} BY <2>3, Zenon DEF TS!after_expiry
    <2> HIDE DEF deadline
    <2> QED BY <2>4, <2>5, Zenon DEF TS!TimerStates
  <1> QED BY <1>1, <1>2, Zenon

LEMMA AdvanceEntry ==
    ASSUME timers \in [Id -> Entry], NEW i \in Id, NEW s \in TS!TimerStates,
           timers' = [timers EXCEPT ![i].state = s, ![i].callback = FALSE]
    PROVE  timers' \in [Id -> Entry] /\ \A j \in Id : Live(j)' <=> Live(j)
  <1> DEFINE e == timers[i]
  <1>0. e \in Entry /\ timers'[i] = [e EXCEPT !.state = s, !.callback = FALSE] BY Zenon
  <1> HIDE DEF e
  <1>1. timers'[i] = [status |-> e.status, callback |-> FALSE, state |-> s]
    BY <1>0, Zenon DEF Entry
  <1>2. timers'[i] \in Entry /\ timers'[i].status = timers[i].status
    BY <1>0, <1>1, Zenon DEF Entry, e
  <1> QED BY <1>2, Zenon DEF Live

LEMMA WorkerKeeps ==
    ASSUME IInv, scan \/ woken \/ callback_begins \/ callback_returns \/ choose_expired
    PROVE  IInv'
  <1> USE DEF IInv, scan, woken, callback_begins, callback_returns, choose_expired, runtime,
              control, registry, calls, owners
  <1>1. timers' \in [Id -> Entry] /\ \A j \in Id : Live(j)' <=> Live(j)
    <2>1. CASE UNCHANGED timers BY <2>1, Zenon DEF Types, Live
    <2>2. CASE timers' = Purged
      BY <2>2, TimerAssumption
         DEF Purged, Absent, Entry, Live, TS!TimerStates, TS!Period, Types
    <2>3. ASSUME NEW i \in Id,
                 timers' = [timers EXCEPT ![i].state = TS!advance_on_expiry(@, now),
                                          ![i].callback = take_callback(timers[i])]
          PROVE  timers' \in [Id -> Entry] /\ \A j \in Id : Live(j)' <=> Live(j)
      <3>1. timers[i].state \in TS!TimerStates BY Zenon DEF Types, Entry
      <3>2. TS!advance_on_expiry(timers[i].state, now) \in TS!TimerStates
        BY <3>1, ExpiryKeepsType, Zenon DEF Types
      <3> QED BY <2>3, <3>2, AdvanceEntry, Zenon DEF Types, take_callback
    <2> QED BY <2>1, <2>2, <2>3, Zenon
  <1>0. /\ run \notin {"none", "exited"}
        /\ run' \in RunPoints \ {"none"} /\ (run' = "exited" => stop_requested)
        /\ UNCHANGED <<at, phase, slot, stop_requested>>
    BY Zenon DEF Calls
  <1>2. Types'
    <2>1. dispatching' = dispatching \/ dispatching' \in Id BY Zenon
    <2>2. dispatching' \in 0 .. MaxTimer BY <2>1, TimerAssumption DEF Types, Id
    <2> QED BY <1>0, <1>1, <2>2, Zenon DEF Types
  <1>3. OneTransition' BY <1>0, Zenon DEF OneTransition, Healthy
  <1>4. WorkerInside'
    <2>1. \A i \in Id : choice(i) => i # 0 /\ i < next_id
      BY DEF choice, Expired, Registry, Id, Types
    <2> QED BY <2>1, ZenonT(60) DEF WorkerInside, Types, Calls, Id
  <1>5. Registry' BY <1>1, Zenon DEF Registry
  <1>6. LeaseCount'
    <2>1. Leased' = Leased BY Zenon DEF Leased
    <2> QED BY <2>1, LeaseFrame, Zenon DEF LeaseCount
  <1>7. DropStack' /\ DropsDisjoint' BY <1>1, DropFrame, Zenon
  <1> QED BY <1>2, <1>3, <1>4, <1>5, <1>6, <1>7, Zenon

LEMMA RestoreKeeps == ASSUME IInv, restore PROVE IInv'
  <1> DEFINE restored == Live(dispatching) /\ ~timers[dispatching].callback
             i == dispatching
  <1> USE DEF IInv, Goto, runtime, control
  <1>0. /\ run = "restore" /\ run' = "scan" /\ dispatching' = 0 /\ locked = Nobody
        /\ UNCHANGED <<runtime, control, next_id, stop_requested, locked, alarm, captor, now>>
        /\ timers' = IF restored THEN [timers EXCEPT ![i].callback = TRUE] ELSE timers
    BY Zenon DEF restore
  <1>1. at[Worker] = "idle" /\ i \in Id /\ drops[Worker] = <<>>
    <2>1. at[Worker] = "idle" /\ i \in Id BY <1>0 DEF WorkerInside, Types, Id
    <2> QED BY <2>1, Zenon DEF DropStack
  <1>2. \/ UNCHANGED <<at, drops, handle>>
        \/ \E k \in Captured(i) : /\ drops' = [drops EXCEPT ![Worker] = <<k>>]
                                  /\ handle' = [handle EXCEPT ![k] = "dropping"]
                                  /\ at' = [at EXCEPT ![Worker] = "drop"]
    BY Zenon DEF restore
  <1>3. timers' \in [Id -> Entry] /\ \A j \in Id : Live(j)' <=> Live(j)
    BY <1>0, <1>1, Zenon DEF Types, Entry, Live
  <1> HIDE DEF restored, i
  <1>4. CASE UNCHANGED <<at, drops, handle>>
    <2> USE <1>0, <1>4
    <2>1. Types' BY <1>3, TimerAssumption DEF Types
    <2>2. OneTransition' BY Zenon DEF OneTransition, Healthy
    <2>3. WorkerInside' BY DEF WorkerInside, Types
    <2>4. Registry' BY <1>3, Zenon DEF Registry
    <2>5. LeaseCount'
      <3>1. Leased' = Leased BY Zenon DEF Leased
      <3> QED BY <3>1, LeaseFrame, Zenon DEF LeaseCount
    <2>6. DropStack' /\ DropsDisjoint' BY <1>3, DropFrame, Zenon
    <2> QED BY <2>1, <2>2, <2>3, <2>4, <2>5, <2>6, Zenon
  <1>5. ASSUME NEW k \in Captured(i), drops' = [drops EXCEPT ![Worker] = <<k>>],
               handle' = [handle EXCEPT ![k] = "dropping"], at' = [at EXCEPT ![Worker] = "drop"]
        PROVE  IInv'
    <2> USE <1>0, <1>5
    <2>0. k \in Id /\ handle[k] = "callback" BY Zenon DEF Captured
    <2>1. /\ drops'[Worker] = <<k>> /\ at'[Worker] = "drop"
          /\ \A b \in Actor : b # Worker => drops'[b] = drops[b] /\ at'[b] = at[b]
      BY Zenon DEF Types
    <2>2. \A j \in Id : handle'[j] = IF j = k THEN "dropping" ELSE handle[j]
      BY <2>0, Zenon DEF Types
    <2>3. Types' BY <1>3, <2>0, TimerAssumption DEF Types
    <2>4. OneTransition' BY <1>1, <2>1, Zenon DEF OneTransition, Healthy
    <2>5. WorkerInside' BY DEF WorkerInside, Types
    <2>6. Registry' BY <1>3, <2>0, <2>2, Zenon DEF Registry
    <2>7. LeaseCount'
      <3>1. Leased' = Leased /\ Held' = Held BY <1>1, <2>0, <2>1, <2>2 DEF Leased, Held
      <3> QED BY <3>1, Zenon DEF LeaseCount
    <2>8. DropStack'
      <3>1. Live(k) BY <2>0, Zenon DEF Registry
      <3> QED BY <1>3, <2>0, <2>1, <2>2, <3>1 DEF DropStack
    <2>9. DropsDisjoint'
      <3>1. ASSUME NEW b \in Actor, NEW j \in 1 .. Len(drops[b]) PROVE drops[b][j] # k
        BY <2>0, <3>1, StackEntry, Zenon
      <3> QED BY <2>1, <3>1 DEF DropsDisjoint
    <2> QED BY <2>3, <2>4, <2>5, <2>6, <2>7, <2>8, <2>9, Zenon
  <1> QED BY <1>2, <1>4, <1>5, Zenon

LEMMA NextIInv ==
    ASSUME Facts
    PROVE  IInv /\ [Next]_vars => IInv'
  <1> SUFFICES ASSUME IInv, [Next]_vars PROVE IInv'
    BY Zenon
  <1>1. CASE UNCHANGED <<runtime, control, registry, locked, worker, calls,
     owners>> /\ now' \in TS!Duration
    <2> USE <1>1 DEF IInv, runtime, control, registry, worker, calls, owners
    <2>1. Types' BY Zenon DEF Types
    <2>2. OneTransition' BY Zenon DEF OneTransition, Healthy
    <2>3. WorkerInside' BY Zenon DEF WorkerInside
    <2>4. Registry' BY Zenon DEF Registry, Live
    <2>5. LeaseCount'
      <3>1. Leased' = Leased BY Zenon DEF Leased
      <3> QED BY <3>1, LeaseFrame, Zenon DEF LeaseCount
    <2>6. DropStack' /\ DropsDisjoint' BY DropFrame, Zenon DEF Live
    <2> QED BY <2>1, <2>2, <2>3, <2>4, <2>5, <2>6, Zenon
  <1>2. CASE tick
    BY <1>1, <1>2, TimerAssumption DEF tick, IInv, Types, TS!Duration
  <1>3. CASE UNCHANGED vars BY <1>1, <1>3, Zenon DEF vars, IInv, Types
  <1>4. CASE timer_worker \/ woken \/ callback_returns
    BY <1>4, WorkerKeeps, RestoreKeeps, Zenon DEF timer_worker, deadline_passes
  <1>5. ASSUME NEW a \in Actor, Continue(a) PROVE IInv'
    BY <1>5, InitializeKeeps, NewServiceKeeps, ShutdownKeeps, ShutdownRequestKeeps, RegisterKeeps,
       DeregisterKeeps, DropLeaseKeeps, Zenon DEF Continue
  <1>6. ASSUME NEW a \in Actor, Begin(a) PROVE IInv'
    BY <1>6, InitializeKeeps, ShutdownKeeps, NewLeaseKeeps, OperationKeeps,
    DropHandleKeeps, Zenon DEF Begin
  <1> QED BY <1>2, <1>3, <1>4, <1>5, <1>6, Zenon DEF Next
-----------------------------------------------------------------------------
(* The steps of the contract, told timer by timer.                         *)
Armed(i) == Live(i) /\ timers[i].state.deadline # NoDeadline

LEMMA ContractStutter ==
    ASSUME UNCHANGED dispatching, \A i \in Id : (Live(i)' <=> Live(i)) /\ (Armed(i)' <=> Armed(i))
    PROVE  UNCHANGED Contract!vars
  BY Zenon DEF Contract!vars, Armed

LEMMA ContractCreate ==
    ASSUME NEW t \in Id, ~Live(t), dispatching # t, UNCHANGED dispatching,
           \A i \in Id : (Live(i)' <=> Live(i) \/ i = t) /\ (Armed(i)' <=> Armed(i))
    PROVE  Contract!Create(t)
  BY Zenon DEF Contract!Create, Armed

LEMMA ContractArm ==
    ASSUME NEW t \in Id, Live(t), UNCHANGED dispatching,
           \A i \in Id : (Live(i)' <=> Live(i)) /\ (Armed(i)' <=> Armed(i) \/ i = t)
    PROVE  Contract!Arm(t)
  BY Zenon DEF Contract!Arm, Armed

LEMMA ContractDisarm ==
    ASSUME NEW t \in Id, Live(t), UNCHANGED dispatching,
           \A i \in Id : (Live(i)' <=> Live(i)) /\ (Armed(i)' <=> Armed(i) /\ i # t)
    PROVE  Contract!Disarm(t)
  BY Zenon DEF Contract!Disarm, Armed

LEMMA ContractFire ==
    ASSUME NEW t \in Id, Armed(t), dispatching = 0, dispatching' = t,
           \A i \in Id : (Live(i)' <=> Live(i)) /\ (i # t => (Armed(i)' <=> Armed(i)))
    PROVE  Contract!Fire(t)
  BY DEF Contract!Fire, Armed, Id

LEMMA ContractDone ==
    ASSUME NEW t \in Id, dispatching = t, dispatching' = 0,
           \A i \in Id : (Live(i)' <=> Live(i)) /\ (Armed(i)' <=> Armed(i))
    PROVE  Contract!Done(t)
  <1>1. dispatching # 0 BY DEF Id
  <1> QED BY <1>1, Zenon DEF Contract!Done, Armed

LEMMA ContractDestroy ==
    ASSUME NEW t \in Id, Live(t), UNCHANGED dispatching,
           \A i \in Id : /\ Live(i)' <=> Live(i) /\ i # t
                         /\ Armed(i)' <=> Armed(i) /\ i # t
    PROVE  Contract!Destroy(t)
  BY Zenon DEF Contract!Destroy, Armed

(* A purge takes deleted entries out, which no owner can see.              *)
LEMMA PurgeIsInvisible ==
    ASSUME timers' = Purged
    PROVE  \A j \in Id : (Live(j)' <=> Live(j)) /\ (Armed(j)' <=> Armed(j))
  <1> SUFFICES ASSUME NEW j \in Id PROVE (Live(j)' <=> Live(j)) /\ (Armed(j)' <=> Armed(j))
    BY Zenon
  <1>1. timers'[j] = IF Live(j) THEN timers[j] ELSE Absent BY Zenon DEF Purged
  <1>2. CASE Live(j) BY <1>1, <1>2, Zenon DEF Live, Armed
  <1>3. CASE ~Live(j)
    <2>1. timers'[j].status = "absent" BY <1>1, <1>3 DEF Absent
    <2> QED BY <1>3, <2>1, Zenon DEF Live, Armed
  <1> QED BY <1>2, <1>3, Zenon

LEMMA OperationImplements ==
    ASSUME IInv, NEW a \in Actor, NEW i \in Id,
           start(a, i) \/ stop(a, i) \/ \E period \in Periods : change_period(a, i, period)
    PROVE  Contract!Next \/ UNCHANGED Contract!vars
  <1> USE DEF Edit
  <1>0. Usable(a, i) /\ UNCHANGED dispatching BY Zenon DEF start, stop, change_period
  <1>1. /\ Live(i) /\ timers \in [Id -> Entry]
        /\ now \in Nat /\ timers[i].state \in TS!TimerStates /\ MaxDuration \in Nat
    BY <1>0, TimerAssumption DEF IInv, Types, Registry, Usable, Entry, TS!Duration
  <1>2. CASE start(a, i)
    <2> DEFINE t == timers[i].state
               deadline == TS!checked_deadline(now, t.period)
    <2>1. deadline # NoDeadline
      BY <1>1, <1>2, TimerAssumption
         DEF start, TS!checked_deadline, TS!checked_add, TS!TimerStates, TS!Period
    <2>2. timers' = [timers EXCEPT ![i].state = [t EXCEPT !.deadline = deadline]]
      BY <1>2, Zenon DEF start, TS!start
    <2> HIDE DEF deadline
    <2>3. \A j \in Id : (Live(j)' <=> Live(j)) /\ (Armed(j)' <=> Armed(j) \/ j = i)
      BY <1>1, <2>1, <2>2, Zenon DEF Live, Armed, Entry, TS!TimerStates
    <2> QED BY <1>0, <1>1, <2>3, ContractArm, Zenon DEF Contract!Next
  <1>3. CASE stop(a, i)
    <2>1. \A j \in Id : (Live(j)' <=> Live(j)) /\ (Armed(j)' <=> Armed(j) /\ j # i)
      BY <1>1, <1>3, Zenon DEF stop, TS!stop, Live, Armed, Entry, TS!TimerStates
    <2> QED BY <1>0, <1>1, <2>1, ContractDisarm, Zenon DEF Contract!Next
  <1>4. ASSUME NEW period \in Periods, change_period(a, i, period)
        PROVE  UNCHANGED Contract!vars
    <2>1. \A j \in Id : (Live(j)' <=> Live(j)) /\ (Armed(j)' <=> Armed(j))
      BY <1>1, <1>4, Zenon DEF change_period, TS!change_period, Live, Armed, Entry, TS!TimerStates
    <2> QED BY <1>0, <2>1, ContractStutter, Zenon
  <1> QED BY <1>2, <1>3, <1>4, Zenon

LEMMA RegistryImplements ==
    ASSUME Facts, IInv, NEW a \in Actor,
           \/ deregister(a) \/ initialize(a) \/ shutdown_request(a)
           \/ \E period \in Periods, mode \in {"OneShot", "Periodic"}, k \in 0 .. MaxTimer :
                  register(a, period, mode, k)
    PROVE  Contract!Next \/ UNCHANGED Contract!vars
  <1>0. timers \in [Id -> Entry] BY Zenon DEF IInv, Types
  <1>1. CASE deregister(a)
    <2>1. PICK i \in Id : drops[a] = <<i>> /\ handle[i] = "dropping" /\ Live(i)
      BY <1>1, DropFindsItsTimer, Zenon DEF deregister
    <2>2. slot = "Running" BY <1>1, DropFindsItsTimer, Zenon DEF deregister
    <2>5. Head(drops[a]) = i BY <2>1
    <2>3. /\ UNCHANGED dispatching
          /\ timers' = [timers EXCEPT ![i] = [status |-> "deleted", callback |-> take_callback(@),
                                              state |-> TS!stop(@.state)]]
      BY <1>1, <2>1, <2>2, <2>5, Zenon DEF deregister
    <2>4. \A j \in Id : /\ Live(j)' <=> Live(j) /\ j # i
                        /\ Armed(j)' <=> Armed(j) /\ j # i
      BY <1>0, <2>3, Zenon DEF Live, Armed
    <2> QED BY <2>1, <2>3, <2>4, ContractDestroy, Zenon DEF Contract!Next
  <1>2. CASE initialize(a)
    <2>1. dispatching = 0 /\ \A j \in Id : ~Live(j)
      BY <1>2, Zenon DEF initialize, IInv, OneTransition, WorkerInside, Registry
    <2>2. dispatching' = 0 /\ \A j \in Id : ~Live(j)' BY <1>2, Zenon DEF initialize, Live, Absent
    <2> QED BY <2>1, <2>2, ContractStutter, Zenon DEF Armed
  <1>3. CASE shutdown_request(a)
    <2>1. timers' = timers \/ timers' = Purged BY <1>3, Zenon DEF shutdown_request
    <2>2. \A j \in Id : (Live(j)' <=> Live(j)) /\ (Armed(j)' <=> Armed(j))
      BY <2>1, PurgeIsInvisible, Zenon DEF Live, Armed
    <2> QED BY <1>3, <2>2, ContractStutter, Zenon DEF shutdown_request
  <1>4. ASSUME NEW period \in Periods, NEW mode \in {"OneShot", "Periodic"},
               NEW k \in 0 .. MaxTimer, register(a, period, mode, k)
        PROVE  Contract!Next
    <2>0. Cardinality(Leased) > 0
      <3>1. a \in Leased BY <1>4, Zenon DEF register, Leased
      <3>2. Cardinality(Leased) # 0 BY <3>1, HeldIsFinite, EmptySets, Zenon
      <3> QED BY <3>2, HeldIsFinite
    <2>1. next_id \in Id
      <3>1. next_id \in 1 .. MaxTimer + 1 /\ next_id + Cardinality(Leased) <= MaxTimer + 1
        BY Zenon DEF IInv, LeaseCount, Types
      <3> QED BY <2>0, <3>1, HeldIsFinite, TimerAssumption DEF Id
    <2>2. ~Live(next_id) /\ dispatching # next_id
      BY <2>1 DEF IInv, Registry, WorkerInside, Types
    <2>3. /\ UNCHANGED dispatching
          /\ timers' = [timers EXCEPT ![next_id] = [status |-> "live", callback |-> TRUE,
                                                    state |-> TS!new(period, mode)]]
      BY <1>4, Zenon DEF register
    <2>4. \A j \in Id : (Live(j)' <=> Live(j) \/ j = next_id) /\ (Armed(j)' <=> Armed(j))
      BY <1>0, <2>1, <2>2, <2>3, Zenon DEF Live, Armed, TS!new
    <2> QED BY <2>1, <2>2, <2>3, <2>4, ContractCreate, Zenon DEF Contract!Next
  <1> QED BY <1>1, <1>2, <1>3, <1>4, Zenon

LEMMA WorkerImplements ==
    ASSUME IInv, scan \/ choose_expired \/ restore
    PROVE  Contract!Next \/ UNCHANGED Contract!vars
  <1>0. timers \in [Id -> Entry] /\ now \in Nat /\ dispatching \in 0 .. MaxTimer /\ MaxTimer \in Nat
    BY TimerAssumption DEF IInv, Types, TS!Duration
  <1>1. CASE scan
    <2>1. UNCHANGED dispatching /\ (timers' = timers \/ timers' = Purged) BY <1>1, Zenon DEF scan
    <2>2. \A j \in Id : (Live(j)' <=> Live(j)) /\ (Armed(j)' <=> Armed(j))
      BY <2>1, PurgeIsInvisible, Zenon DEF Live, Armed
    <2> QED BY <2>1, <2>2, ContractStutter, Zenon
  <1>2. CASE restore
    <2>1. dispatching \in Id BY <1>0, <1>2 DEF restore, IInv, WorkerInside, Id
    <2>2. dispatching' = 0 /\ (timers' = timers
                               \/ timers' = [timers EXCEPT ![dispatching].callback = TRUE])
      BY <1>2, Zenon DEF restore
    <2>3. \A j \in Id : (Live(j)' <=> Live(j)) /\ (Armed(j)' <=> Armed(j))
      BY <1>0, <2>1, <2>2 DEF Live, Armed, Entry
    <2> QED BY <2>1, <2>2, <2>3, ContractDone, Zenon DEF Contract!Next
  <1>3. ASSUME NEW i \in Id, choose_expired, choice(i), dispatching' = i,
               timers' = [timers EXCEPT ![i].state = TS!advance_on_expiry(@, now),
                                        ![i].callback = take_callback(timers[i])]
        PROVE  Contract!Next
    <2>1. dispatching = 0 BY <1>3, Zenon DEF choose_expired, IInv, WorkerInside
    <2>2. Armed(i) BY <1>3, Zenon DEF choice, Expired, TS!has_expired, Armed
    <2>3. \A j \in Id : (Live(j)' <=> Live(j)) /\ (j # i => (Armed(j)' <=> Armed(j)))
      BY <1>0, <1>3, Zenon DEF Live, Armed, Entry
    <2> QED BY <1>3, <2>1, <2>2, <2>3, ContractFire, Zenon DEF Contract!Next
  <1>4. CASE UNCHANGED <<timers, dispatching>>
    <2>1. \A j \in Id : (Live(j)' <=> Live(j)) /\ (Armed(j)' <=> Armed(j))
      BY <1>4, Zenon DEF Live, Armed
    <2> QED BY <1>4, <2>1, ContractStutter, Zenon
  <1> QED BY <1>1, <1>2, <1>3, <1>4, Zenon DEF choose_expired

LEMMA NextImplements ==
    ASSUME Facts
    PROVE  IInv /\ [Next]_vars => [Contract!Next]_(Contract!vars)
  <1> SUFFICES ASSUME IInv, [Next]_vars PROVE Contract!Next \/ UNCHANGED Contract!vars
    BY Zenon
  <1>1. CASE UNCHANGED <<timers, dispatching>>
    <2>1. \A j \in Id : (Live(j)' <=> Live(j)) /\ (Armed(j)' <=> Armed(j))
      BY <1>1, Zenon DEF Live, Armed
    <2> QED BY <1>1, <2>1, ContractStutter, Zenon
  <1>2. CASE UNCHANGED vars \/ tick \/ woken \/ callback_returns
    BY <1>1, <1>2, Zenon DEF vars, registry, worker, tick, woken, callback_returns
  <1>3. CASE timer_worker
    <2>1. CASE deadline_passes \/ callback_begins
      BY <1>1, <2>1, Zenon DEF deadline_passes, woken, callback_begins, registry
    <2> QED BY <1>3, <2>1, WorkerImplements, Zenon DEF timer_worker
  <1>4. ASSUME NEW a \in Actor, Continue(a) PROVE Contract!Next \/ UNCHANGED Contract!vars
    <2>1. CASE drop_lease(a) \/ commit_initialize(a) \/ shutdown_join(a) \/ shutdown_cleanup(a)
               \/ commit_shutdown(a)
      BY <1>1, <2>1, Zenon DEF drop_lease, commit_initialize, shutdown_join, shutdown_cleanup,
                        commit_shutdown, registry, worker
    <2> QED BY <1>4, <2>1, RegistryImplements, Zenon DEF Continue
  <1>5. ASSUME NEW a \in Actor, Begin(a) PROVE Contract!Next \/ UNCHANGED Contract!vars
    <2>1. CASE begin_initialize(a) \/ initialize_fails(a) \/ begin_shutdown(a) \/ new_lease(a)
               \/ \E i \in Id : drop_handle(a, i)
      BY <1>1, <2>1, Zenon DEF begin_initialize, initialize_fails, begin_shutdown, new_lease,
                        drop_handle, registry, worker
    <2> QED BY <1>5, <2>1, OperationImplements, Zenon DEF Begin
  <1> QED BY <1>2, <1>3, <1>4, <1>5, Zenon DEF Next
-----------------------------------------------------------------------------
INSTANCE FiniteSetTheorems
INSTANCE SequenceTheorems

LEMMA FactsHold == Facts
  BY FS_Interval, FS_CardinalityType, FS_EmptySet, FS_Subset, FS_AddElement, FS_RemoveElement,
     SeqEqual, Zenon
  DEF Facts

(* The inductive invariant holds: one actor at a time takes the runtime up *)
(* or down, leases and handles agree, and the handles an actor drops are   *)
(* its own.                                                                *)
THEOREM TimerInvariant == Spec => []IInv
  BY FactsHold, InitIInv, NextIInv, PTL DEF Spec

(* A handle, in the application or inside a callback, refers to a live     *)
(* timer of a running service, and one lease is held for it (PosixTimer    *)
(* and its lease, deregister, shutdown).                                   *)
THEOREM HandlesPin == Spec => []HandlesPinTheService
  <1>1. IInv => HandlesPinTheService
    <2> SUFFICES ASSUME IInv PROVE HandlesPinTheService
      BY Zenon
    <2>1. ASSUME NEW i \in Id, handle[i] \in {"app", "callback"}
          PROVE  Live(i) /\ slot = "Running" /\ ~stop_requested
      <3>1. Held # {} BY <2>1, Zenon DEF Held
      <3> QED BY <2>1, <3>1, FactsHold, LeaseMeansRunning, Zenon DEF IInv, Registry, Healthy
    <2>2. leases = Cardinality({i \in Id : handle[i] # "none"})
                     + Cardinality({a \in Actor : at[a] = "leased"})
      BY Zenon DEF IInv, LeaseCount, Held, Leased
    <2> QED BY <2>1, <2>2, Zenon DEF HandlesPinTheService
  <1> QED BY <1>1, TimerInvariant, PTL

(* A running runtime has a running service with a worker, whatever         *)
(* shutdowns were refused before; a stopped one has none (initialize and   *)
(* shutdown of timer_service.rs within those of runtime.rs).               *)
THEOREM ServiceFollows == Spec => []ServiceFollowsTheRuntime
  <1>1. IInv => ServiceFollowsTheRuntime
    BY Zenon DEF IInv, OneTransition, Healthy, WorkerInside, ServiceFollowsTheRuntime
  <1> QED BY <1>1, TimerInvariant, PTL

(* No drop and no shutdown reaches a panic: a drop finds its timer         *)
(* registered in a running service, and cleanup finds the slot Stopping.   *)
THEOREM TimersNeverPanic == Spec => [](\A a \in Actor : at[a] # "panicked")
  <1>1. IInv => \A a \in Actor : at[a] # "panicked" BY Zenon DEF IInv, Types
  <1> QED BY <1>1, TimerInvariant, PTL

(* The POSIX timer service implements TimerContract: through registration, *)
(* concurrent operations, dispatch, drops and restarts, a callback runs    *)
(* only for a timer that was armed when dispatch_one chose it, one at a    *)
(* time, and never again for a timer that was deregistered.                *)
THEOREM PosixTimersKeepTheContract == Spec => ImplementsContract
  <1>1. Init => Contract!Init
    BY DEF Init, Contract!Init, Live, Absent
  <1>2. QED BY <1>1, FactsHold, TimerInvariant, NextImplements, PTL
            DEF Spec, ImplementsContract, Contract!Spec
=============================================================================
