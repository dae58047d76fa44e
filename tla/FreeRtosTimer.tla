--------------------------- MODULE FreeRtosTimer ---------------------------
(***************************************************************************)
(* The timers of osal-backend-freertos: timer_service.rs with the control  *)
(* slot of timer_control.rs, the handles of timer.rs, and the initialize   *)
(* and shutdown of runtime.rs around them.                                 *)
(*                                                                         *)
(* Tasks create, use and drop timers.  A worker task, created by the first *)
(* start, scans the registry, runs one callback at a time outside the      *)
(* registry mutex and sleeps on a binary semaphore.  A callback may call   *)
(* everything a task may, and may own the handle of another timer, which   *)
(* then goes with it.  Each section under the registry mutex is two steps, *)
(* its body and the unlock; the slot's spin lock is never held across a    *)
(* step.  A call that is refused before it changes anything is a stutter   *)
(* and left out (a start before the scheduler runs is one).                *)
(***************************************************************************)
EXTENDS Naturals, Sequences, FiniteSets

CONSTANTS Task, Worker, Nobody,
          MaxTimer,                          (* bound on timers per service *)
          MaxStart,                          (* bound on services created  *)
          Periods,
          MaxDuration, NoDeadline, Overflow, (* as in TimerState           *)
          Captures,    (* callbacks may own timer handles                  *)
          AllocFails,  (* the registry's try_reserve may fail              *)
          Suspends     (* tasks that call timers with the scheduler        *)
                       (* suspended                                        *)

ASSUME TimerAssumption ==
    /\ Worker \notin Task /\ Nobody \notin Task \cup {Worker}
    /\ IsFiniteSet(Task)
    /\ MaxTimer \in Nat /\ MaxStart \in Nat
    /\ MaxDuration \in Nat \ {0} /\ Periods \subseteq 1 .. MaxDuration
    /\ NoDeadline \notin Nat /\ Overflow \notin Nat /\ NoDeadline # Overflow
    /\ Captures \in BOOLEAN /\ AllocFails \in BOOLEAN
    /\ Suspends \subseteq Task

VARIABLES phase, leases, caps,    (* the runtime: lifecycle, leases held,  *)
                                  (* capabilities cached                   *)
          starts,                 (* services created so far               *)
          slot, worker,           (* control slot; its worker is_some      *)
          timers, next_id, stop_requested,          (* TimerServiceState   *)
          mutex, wake, bit,       (* registry mutex's owner, wake          *)
                                  (* semaphore, completion event bit       *)
          run, dispatching, alarm,(* the worker: where it is, the timer it *)
                                  (* dispatches, until when it sleeps      *)
          leaving,                (* workers that signalled completion and *)
                                  (* still hold their service              *)
          at, arg, drops,         (* each actor's call: where it is, its   *)
                                  (* timer, the handles it is dropping     *)
          handle, captor,         (* who owns a timer's handle             *)
          suspended,              (* the task that suspended the scheduler *)
          now

runtime == <<phase, leases, caps, starts>>
control == <<slot, worker>>
registry == <<timers, next_id, stop_requested>>
signals == <<wake, bit>>
service == <<run, dispatching, alarm, leaving>>
calls == <<at, arg, drops>>
owners == <<handle, captor>>
vars == <<runtime, control, registry, mutex, signals, service, calls, owners,
          suspended, now>>

Id == 1 .. MaxTimer
Actor == Task \cup {Worker}
TS == INSTANCE TimerState

Absent == [status |-> "absent", callback |-> FALSE,
           state |-> [mode |-> "OneShot", period |-> 1, deadline |-> NoDeadline]]

CallPoints == {"idle", "init", "inited", "preflight", "stop", "await", "cleanup",
               "commit", "leased", "registered", "refused", "ensured", "held",
               "drop", "nested", "last", "unwind", "panicked"}
RunPoints == {"none", "scan", "sleeping", "wait", "dispatching", "chosen", "callback",
              "restore", "restored", "discarding", "stopping", "complete"}

TypeOK ==
    /\ phase \in {"Uninitialized", "Initializing", "Running", "ShuttingDown"}
    /\ leases \in Nat /\ caps \in BOOLEAN /\ starts \in 0 .. MaxStart
    /\ slot \in {"Stopped", "Running", "Stopping"} /\ worker \in BOOLEAN
    /\ timers \in [Id -> [status : {"absent", "live", "deleted"}, callback : BOOLEAN,
                          state : TS!TimerStates]]
    /\ next_id \in 1 .. MaxTimer + 1 /\ stop_requested \in BOOLEAN
    /\ mutex \in Actor \cup {Nobody} /\ wake \in BOOLEAN /\ bit \in BOOLEAN
    /\ run \in RunPoints /\ dispatching \in 0 .. MaxTimer
    /\ alarm \in TS!Duration \cup {NoDeadline} /\ leaving \in 0 .. MaxStart
    /\ at \in [Actor -> CallPoints] /\ arg \in [Actor -> 0 .. MaxTimer]
    /\ drops \in [Actor -> Seq(Id)]
    /\ handle \in [Id -> {"none", "app", "callback", "dropping"}]
    /\ captor \in [Id -> 0 .. MaxTimer]
    /\ suspended \in Task \cup {Nobody} /\ now \in TS!Duration

Init ==
    /\ phase = "Uninitialized" /\ leases = 0 /\ caps = FALSE /\ starts = 0
    /\ slot = "Stopped" /\ worker = FALSE
    /\ timers = [i \in Id |-> Absent] /\ next_id = 1 /\ stop_requested = FALSE
    /\ mutex = Nobody /\ wake = FALSE /\ bit = FALSE
    /\ run = "none" /\ dispatching = 0 /\ alarm = NoDeadline /\ leaving = 0
    /\ at = [a \in Actor |-> "idle"] /\ arg = [a \in Actor |-> 0]
    /\ drops = [a \in Actor |-> <<>>]
    /\ handle = [i \in Id |-> "none"] /\ captor = [i \in Id |-> 0]
    /\ suspended = Nobody /\ now = 0
-----------------------------------------------------------------------------
Runs(a) == suspended \in {Nobody, a}
Calls(a) == Runs(a) /\ at[a] = "idle" /\ (a = Worker => run = "callback")
Goto(a, point) == at' = [at EXCEPT ![a] = point]
Return(a) == Goto(a, "idle") /\ arg' = [arg EXCEPT ![a] = 0]

(* with_lock: the body runs once the mutex is free; with the scheduler     *)
(* suspended the attempt does not wait, and its failure is a panic.        *)
with_lock(a, body) ==
    /\ Runs(a)
    /\ IF mutex = Nobody THEN mutex' = a /\ body
       ELSE /\ suspended = a
            /\ Goto(a, "panicked")
            /\ UNCHANGED <<runtime, control, registry, mutex, signals, service, arg,
                           drops, owners, suspended, now>>

(* A body that touches the registry and the wake semaphore only.           *)
Edits == UNCHANGED <<runtime, control, bit, service, drops, suspended, now>>

(* The end of a section that has nothing more to do.                       *)
unlock(a) ==
    /\ Runs(a) /\ at[a] = "held"
    /\ mutex' = Nobody
    /\ Return(a)
    /\ UNCHANGED <<runtime, control, registry, signals, service, drops, owners, suspended, now>>

Live(i) == timers[i].status = "live"

(* Who may use a timer: everybody, if the application holds its handle;    *)
(* a handle in a callback is for that callback.                            *)
Usable(a, i) ==
    \/ handle[i] = "app"
    \/ handle[i] = "callback" /\ a = Worker /\ captor[i] = dispatching

Unused(i) == handle[i] = "app" /\ \A b \in Actor : arg[b] # i
Captured(i) == {k \in Id : handle[k] = "callback" /\ captor[k] = i}

(* Conditions and updates below are preceded by faulty variants of         *)
(* themselves, which the specification never uses.                         *)
no_signal == wake
signal_wake == TRUE

take_callback(e) == FALSE

release_lease == leases - 1
-----------------------------------------------------------------------------
(* FreeRtosTimer::new: a runtime lease, then register.  The callback may   *)
(* take the handle k of another timer with it (0: none).                   *)
new_lease(a) ==
    /\ Calls(a) /\ phase = "Running"
    /\ next_id + Cardinality({b \in Actor : at[b] = "leased"}) <= MaxTimer
    /\ leases' = leases + 1
    /\ Goto(a, "leased")
    /\ UNCHANGED <<phase, caps, starts, control, registry, mutex, signals, service, arg,
                   drops, owners, suspended, now>>

Capturable == {0} \cup (IF Captures THEN {k \in Id : Unused(k)} ELSE {})

register(a, period, mode, k) ==
    /\ at[a] = "leased" /\ slot = "Running"
    /\ k \in Capturable
    /\ with_lock(a, LET id == next_id IN
         /\ timers' = [timers EXCEPT ![id] = [status |-> "live", callback |-> TRUE,
                                              state |-> TS!new(period, mode)]]
         /\ next_id' = id + 1
         /\ handle' = [i \in Id |-> IF i = k THEN "callback" ELSE handle[i]]
         /\ captor' = [i \in Id |-> IF i = k THEN id ELSE captor[i]]
         /\ arg' = [arg EXCEPT ![a] = id]
         /\ wake' = signal_wake
         /\ Goto(a, "registered")
         /\ UNCHANGED stop_requested /\ Edits)

(* try_reserve fails: the closure returns early and drops the callback     *)
(* while the registry mutex is held.                                       *)
register_fails(a, k) ==
    /\ AllocFails /\ at[a] = "leased" /\ slot = "Running"
    /\ k \in Capturable
    /\ with_lock(a,
         /\ handle' = [i \in Id |-> IF i = k THEN "dropping" ELSE handle[i]]
         /\ drops' = [drops EXCEPT ![a] = IF k = 0 THEN <<>> ELSE <<k>>]
         /\ Goto(a, IF k = 0 THEN "refused" ELSE "drop")
         /\ UNCHANGED <<runtime, control, registry, signals, service, arg, captor,
                        suspended, now>>)

(* new returns: a usable handle, or the lease given back.                  *)
new_returns(a) ==
    /\ Runs(a) /\ at[a] \in {"registered", "refused"}
    /\ mutex' = Nobody
    /\ IF at[a] = "registered"
       THEN handle' = [handle EXCEPT ![arg[a]] = "app"] /\ UNCHANGED leases
       ELSE leases' = release_lease /\ UNCHANGED handle
    /\ Return(a)
    /\ UNCHANGED <<phase, caps, starts, control, registry, signals, service, drops, captor,
                   suspended, now>>
-----------------------------------------------------------------------------
(* start and reset: the worker is created on first use, refused while the  *)
(* scheduler is suspended, and then the same registry section for both.    *)
ensure_worker(a, i) ==
    /\ Calls(a) /\ Usable(a, i)
    /\ slot = "Running" /\ suspended # a
    /\ worker' = TRUE
    /\ run' = IF worker THEN run ELSE "scan"
    /\ arg' = [arg EXCEPT ![a] = i]
    /\ Goto(a, "ensured")
    /\ UNCHANGED <<runtime, slot, registry, mutex, signals, dispatching, alarm, leaving,
                   drops, owners, suspended, now>>

start_without_signal(i) == wake
start_signal(i) ==
    IF TS!checked_deadline(now, timers[i].state.period) = Overflow THEN wake ELSE signal_wake

start(a) ==
    /\ at[a] = "ensured"
    /\ with_lock(a, LET i == arg[a] IN
         /\ timers' = [timers EXCEPT ![i].state = TS!start(@, now)]
         /\ wake' = start_signal(i)
         /\ Goto(a, "held")
         /\ UNCHANGED <<next_id, stop_requested, arg, owners>> /\ Edits)

stop(a, i) ==
    /\ Calls(a) /\ Usable(a, i)
    /\ with_lock(a,
         /\ timers' = [timers EXCEPT ![i].state = TS!stop(@)]
         /\ wake' = signal_wake
         /\ arg' = [arg EXCEPT ![a] = i]
         /\ Goto(a, "held")
         /\ UNCHANGED <<next_id, stop_requested, owners>> /\ Edits)

(* The only operation that does not wake the worker: the deadline stays.   *)
change_period(a, i, period) ==
    /\ Calls(a) /\ Usable(a, i)
    /\ with_lock(a,
         /\ timers' = [timers EXCEPT ![i].state = TS!change_period(@, period)]
         /\ arg' = [arg EXCEPT ![a] = i]
         /\ Goto(a, "held")
         /\ UNCHANGED <<next_id, stop_requested, wake, owners>> /\ Edits)
-----------------------------------------------------------------------------
(* The drop of a last handle: deregister under the mutex, the callback and *)
(* what it owns outside it, then the lease.  A callback's handle is        *)
(* dropped in the same way, inside the drop of the callback.               *)
drop_handle(a, i) ==
    /\ Calls(a) /\ Unused(i)
    /\ handle' = [handle EXCEPT ![i] = "dropping"]
    /\ drops' = [drops EXCEPT ![a] = <<i>>]
    /\ Goto(a, "drop")
    /\ UNCHANGED <<runtime, control, registry, mutex, signals, service, arg, captor,
                   suspended, now>>

deregister(a) ==
    /\ at[a] = "drop"
    /\ with_lock(a, LET i == Head(drops[a]) IN
         IF slot = "Running" /\ Live(i)
         THEN /\ timers' = [timers EXCEPT ![i] =
                    [status |-> "deleted", callback |-> take_callback(@),
                     state |-> TS!stop(@.state)]]
              /\ wake' = signal_wake
              /\ Goto(a, IF timers[i].callback /\ Captured(i) # {} THEN "nested" ELSE "last")
              /\ UNCHANGED <<next_id, stop_requested, arg, owners>> /\ Edits
         ELSE /\ Goto(a, "panicked")
              /\ UNCHANGED <<registry, wake, arg, owners>> /\ Edits)

deregister_returns(a) ==
    /\ Runs(a) /\ at[a] \in {"nested", "last"}
    /\ mutex' = Nobody
    /\ LET owned == Captured(Head(drops[a])) IN
       IF at[a] = "last" THEN Goto(a, "unwind") /\ UNCHANGED <<drops, handle>>
       ELSE \E k \in owned :
              /\ drops' = [drops EXCEPT ![a] = <<k>> \o @]
              /\ handle' = [handle EXCEPT ![k] = "dropping"]
              /\ Goto(a, "drop")
    /\ UNCHANGED <<runtime, control, registry, signals, service, arg, captor, suspended, now>>

drop_lease(a) ==
    /\ Runs(a) /\ at[a] = "unwind"
    /\ handle' = [handle EXCEPT ![Head(drops[a])] = "none"]
    /\ captor' = [captor EXCEPT ![Head(drops[a])] = 0]
    /\ leases' = release_lease
    /\ drops' = [drops EXCEPT ![a] = Tail(@)]
    /\ Goto(a, IF Len(drops[a]) = 1 THEN "idle" ELSE "unwind")
    /\ UNCHANGED <<phase, caps, starts, control, registry, mutex, signals, service, arg,
                   suspended, now>>
-----------------------------------------------------------------------------
(* TimerService::run, one scan under the mutex: purge deleted entries,     *)
(* then stop, dispatch the expired timer with the least (deadline, id), or *)
(* sleep until the earliest deadline.  advance_on_expiry never refuses     *)
(* here, as both look at the same now.                                     *)
Purged == [i \in Id |-> IF Live(i) THEN timers[i] ELSE Absent]
Expired(i) == Live(i) /\ timers[i].callback /\ TS!has_expired(timers[i].state, now)

Precedes(i, j) ==
    \/ timers[i].state.deadline < timers[j].state.deadline
    \/ timers[i].state.deadline = timers[j].state.deadline /\ i <= j

Deadlines == {timers[i].state.deadline : i \in {j \in Id : Live(j)}} \ {NoDeadline}
EarliestDeadline ==
    IF Deadlines = {} THEN NoDeadline
    ELSE CHOOSE d \in Deadlines : \A e \in Deadlines : d <= e

DispatchStopped(i) ==
    /\ Live(i) /\ timers[i].callback /\ \A j \in Id : ~Expired(j)
    /\ timers' = [Purged EXCEPT ![i].callback = FALSE]
    /\ dispatching' = i
    /\ run' = "dispatching"
    /\ UNCHANGED alarm
Dispatch(i) ==
    /\ Expired(i)
    /\ timers' = [Purged EXCEPT ![i].state = TS!advance_on_expiry(@, now),
                                ![i].callback = take_callback(timers[i])]
    /\ dispatching' = i
    /\ run' = "dispatching"
    /\ UNCHANGED alarm

scan ==
    /\ Runs(Worker) /\ run = "scan" /\ at[Worker] = "idle"
    /\ mutex = Nobody /\ mutex' = Worker
    /\ \/ /\ stop_requested
          /\ timers' = Purged
          /\ run' = "stopping"
          /\ UNCHANGED <<dispatching, alarm>>
       \/ /\ ~stop_requested
          /\ \E i \in Id : /\ Dispatch(i)
                           /\ \A j \in Id : Expired(j) => Precedes(i, j)
       \/ /\ ~stop_requested /\ \A i \in Id : ~Expired(i)
          /\ timers' = Purged
          /\ alarm' = EarliestDeadline
          /\ run' = "sleeping"
          /\ UNCHANGED dispatching
    /\ UNCHANGED <<runtime, control, next_id, stop_requested, signals, leaving, calls,
                   owners, suspended, now>>

(* The worker unlocks and goes on to what the section decided.  A callback *)
(* that was not restored is dropped now, with the handle it owns.          *)
Then(point) == CASE point = "sleeping" -> "wait"
                 [] point = "dispatching" -> "chosen"
                 [] point = "stopping" -> "complete"
                 [] point \in {"restored", "discarding"} -> "scan"

worker_unlock ==
    /\ Runs(Worker) /\ mutex = Worker /\ at[Worker] = "idle"
    /\ mutex' = Nobody
    /\ run' = Then(run)
    /\ dispatching' = IF run' = "scan" THEN 0 ELSE dispatching
    /\ LET owned == IF run = "discarding" THEN Captured(dispatching) ELSE {} IN
       \/ owned = {} /\ UNCHANGED <<at, drops, handle>>
       \/ \E k \in owned :
            /\ drops' = [drops EXCEPT ![Worker] = <<k>>]
            /\ handle' = [handle EXCEPT ![k] = "dropping"]
            /\ Goto(Worker, "drop")
    /\ UNCHANGED <<runtime, control, registry, signals, alarm, leaving, arg, captor,
                   suspended, now>>

(* wait_until_deadline and wait_forever: the semaphore, or the deadline,   *)
(* whose computation reads the cached capabilities.                        *)
wait_until_deadline ==
    /\ Runs(Worker) /\ run = "wait" /\ at[Worker] = "idle"
    /\ IF alarm # NoDeadline /\ alarm > now /\ ~caps
       THEN Goto(Worker, "panicked") /\ UNCHANGED <<run, wake>>
       ELSE /\ \/ wake /\ wake' = FALSE
               \/ alarm # NoDeadline /\ alarm <= now /\ UNCHANGED wake
            /\ run' = "scan"
            /\ UNCHANGED at
    /\ UNCHANGED <<runtime, control, registry, mutex, bit, dispatching, alarm, leaving, arg,
                   drops, owners, suspended, now>>

(* dispatch_one: the callback begins, some time after the mutex was given  *)
(* back, and returns; it is restored unless its timer went away meanwhile. *)
dispatch_one ==
    /\ Runs(Worker) /\ run = "chosen"
    /\ run' = "callback"
    /\ UNCHANGED <<runtime, control, registry, mutex, signals, dispatching, alarm, leaving,
                   calls, owners, suspended, now>>

callback_returns ==
    /\ Calls(Worker)
    /\ run' = "restore"
    /\ UNCHANGED <<runtime, control, registry, mutex, signals, dispatching, alarm, leaving,
                   calls, owners, suspended, now>>

restore ==
    /\ Runs(Worker) /\ run = "restore" /\ mutex = Nobody
    /\ mutex' = Worker
    /\ IF Live(dispatching) /\ ~timers[dispatching].callback
       THEN timers' = [timers EXCEPT ![dispatching].callback = TRUE] /\ run' = "restored"
       ELSE run' = "discarding" /\ UNCHANGED timers
    /\ UNCHANGED <<runtime, control, next_id, stop_requested, signals, dispatching, alarm,
                   leaving, calls, owners, suspended, now>>

(* The completion bit; the worker's Arc of the service goes a step later.  *)
complete ==
    /\ Runs(Worker) /\ run = "complete"
    /\ bit' = TRUE
    /\ run' = "none"
    /\ leaving' = leaving + 1
    /\ UNCHANGED <<runtime, control, registry, mutex, wake, dispatching, alarm, calls,
                   owners, suspended, now>>

worker_leaves ==
    /\ Runs(Worker) /\ leaving > 0
    /\ leaving' = leaving - 1
    /\ UNCHANGED <<runtime, control, registry, mutex, signals, run, dispatching, alarm,
                   calls, owners, suspended, now>>
-----------------------------------------------------------------------------
(* runtime::initialize around timer_service::initialize.                   *)
begin_initialize(a) ==
    /\ Calls(a) /\ phase = "Uninitialized"
    /\ phase' = "Initializing"
    /\ Goto(a, "init")
    /\ UNCHANGED <<leases, caps, starts, control, registry, mutex, signals, service, arg, drops,
                   owners, suspended, now>>

initialize(a) ==
    /\ Runs(a) /\ at[a] = "init" /\ slot = "Stopped" /\ starts < MaxStart
    /\ starts' = starts + 1
    /\ slot' = "Running" /\ worker' = FALSE
    /\ timers' = [i \in Id |-> Absent] /\ next_id' = 1 /\ stop_requested' = FALSE
    /\ mutex' = Nobody /\ wake' = FALSE /\ bit' = FALSE
    /\ Goto(a, "inited")
    /\ UNCHANGED <<phase, leases, caps, service, arg, drops, owners, suspended, now>>

(* A native object cannot be created: the transition rolls back.           *)
initialize_fails(a) ==
    /\ Runs(a) /\ at[a] = "init"
    /\ phase' = "Uninitialized"
    /\ Goto(a, "idle")
    /\ UNCHANGED <<leases, caps, starts, control, registry, mutex, signals, service, arg,
                   drops, owners, suspended, now>>

commit_initialize(a) ==
    /\ Runs(a) /\ at[a] = "inited"
    /\ caps' = TRUE /\ phase' = "Running"
    /\ Goto(a, "idle")
    /\ UNCHANGED <<leases, starts, control, registry, mutex, signals, service, arg, drops,
                   owners, suspended, now>>
-----------------------------------------------------------------------------
(* runtime::shutdown around timer_service::shutdown.  Any error before the *)
(* stop is requested rolls the runtime back to Running.                    *)
begin_shutdown(a) ==
    /\ Calls(a) /\ phase = "Running" /\ leases = 0
    /\ phase' = "ShuttingDown"
    /\ Goto(a, "preflight")
    /\ UNCHANGED <<leases, caps, starts, control, registry, mutex, signals, service, arg,
                   drops, owners, suspended, now>>

RollBackStopping(a) ==
    /\ phase' = "Running" /\ slot' = "Stopping"
    /\ Goto(a, "idle")
    /\ UNCHANGED <<leases, caps, starts, next_id, stop_requested, mutex, signals>>
RollBack(a) ==
    /\ phase' = "Running"
    /\ Goto(a, "idle")
    /\ UNCHANGED <<leases, caps, starts, slot, next_id, stop_requested, mutex, signals>>

shutdown_preflight(a) ==
    /\ Runs(a) /\ at[a] = "preflight" /\ slot = "Running"
    /\ IF worker /\ suspended = a THEN RollBack(a)
       ELSE Goto(a, "stop") /\ UNCHANGED <<runtime, slot, next_id, stop_requested, mutex, signals>>
    /\ UNCHANGED <<timers, worker, service, arg, drops, owners, suspended, now>>

is_self(a) == a = Worker /\ worker

(* Nobody but the worker can hold the registry mutex here, since a task    *)
(* that does has a lease: no panic of with_lock is possible.               *)
shutdown_request(a) ==
    /\ Runs(a) /\ at[a] = "stop" /\ slot = "Running"
    /\ is_self(a) \/ mutex = Nobody
    /\ timers' = IF is_self(a) THEN timers ELSE Purged
    /\ IF is_self(a) \/ \E i \in Id : Live(i) THEN RollBack(a)
       ELSE /\ stop_requested' = TRUE /\ wake' = signal_wake
            /\ slot' = "Stopping"
            /\ Goto(a, "await")
            /\ UNCHANGED <<runtime, next_id, mutex, bit>>
    /\ UNCHANGED <<worker, service, arg, drops, owners, suspended, now>>

no_wait == TRUE
worker_completed == worker => bit

shutdown_wait(a) ==
    /\ Runs(a) /\ at[a] = "await"
    /\ worker_completed
    /\ Goto(a, "cleanup")
    /\ UNCHANGED <<runtime, control, registry, mutex, signals, service, arg, drops, owners,
                   suspended, now>>

shutdown_cleanup(a) ==
    /\ Runs(a) /\ at[a] = "cleanup"
    /\ slot' = "Stopped" /\ worker' = FALSE
    /\ Goto(a, IF slot = "Stopping" THEN "commit" ELSE "panicked")
    /\ UNCHANGED <<runtime, registry, mutex, signals, service, arg, drops, owners,
                   suspended, now>>

commit_shutdown(a) ==
    /\ Runs(a) /\ at[a] = "commit"
    /\ caps' = FALSE /\ phase' = "Uninitialized"
    /\ Goto(a, "idle")
    /\ UNCHANGED <<leases, starts, control, registry, mutex, signals, service, arg, drops,
                   owners, suspended, now>>
-----------------------------------------------------------------------------
(* Time passes, and a task suspends and resumes the scheduler around its   *)
(* calls.                                                                  *)
tick ==
    /\ now < MaxDuration
    /\ now' = now + 1
    /\ UNCHANGED <<runtime, control, registry, mutex, signals, service, calls, owners,
                   suspended>>

suspend(a) ==
    /\ a \in Suspends /\ at[a] = "idle" /\ suspended \in {Nobody, a}
    /\ suspended' = IF suspended = Nobody THEN a ELSE Nobody
    /\ UNCHANGED <<runtime, control, registry, mutex, signals, service, calls, owners, now>>
-----------------------------------------------------------------------------
timer_worker ==
    \/ scan \/ worker_unlock \/ wait_until_deadline \/ dispatch_one \/ restore
    \/ complete \/ worker_leaves

(* What an actor does inside a call it has begun.                          *)
Continue(a) ==
    \/ unlock(a) \/ new_returns(a) \/ start(a) \/ deregister(a)
    \/ deregister_returns(a) \/ drop_lease(a) \/ initialize(a) \/ commit_initialize(a)
    \/ shutdown_preflight(a) \/ shutdown_request(a) \/ shutdown_wait(a)
    \/ shutdown_cleanup(a) \/ commit_shutdown(a)
    \/ \E period \in Periods, mode \in {"OneShot", "Periodic"}, k \in 0 .. MaxTimer :
         register(a, period, mode, k)

Begin(a) ==
    \/ begin_initialize(a) \/ initialize_fails(a) \/ begin_shutdown(a)
    \/ new_lease(a) \/ suspend(a)
    \/ \E k \in 0 .. MaxTimer : register_fails(a, k)
    \/ \E i \in Id : ensure_worker(a, i) \/ stop(a, i) \/ drop_handle(a, i)
    \/ \E i \in Id, period \in Periods : change_period(a, i, period)

Next ==
    \/ timer_worker \/ callback_returns \/ tick
    \/ \E a \in Actor : Continue(a) \/ Begin(a)

Spec == Init /\ [][Next]_vars

(* The worker and every call that was begun make progress, time passes,    *)
(* and callbacks return.  The worker has the highest priority, by which    *)
(* the kernel hands over a contended mutex.  Nobody has to make a call.    *)
Fairness ==
    /\ SF_vars(timer_worker) /\ SF_vars(callback_returns) /\ WF_vars(tick)
    /\ SF_vars(Continue(Worker)) /\ \A a \in Task : WF_vars(Continue(a))
FairSpec == Spec /\ Fairness
-----------------------------------------------------------------------------
(* Before the worker sleeps, and while it does without a token in the      *)
(* semaphore, there is nothing it should be up for: no stop request, and   *)
(* no deadline before the one it sleeps to.  change_period, which does not *)
(* signal, does not need to.                                               *)
NoLostWake ==
    run \in {"sleeping", "wait"} /\ ~wake
        => /\ ~stop_requested
           /\ \A d \in Deadlines : alarm # NoDeadline /\ alarm <= d

(* A call of new is under way, be it that it never returns because it      *)
(* drops a handle with the registry mutex held.                            *)
Creating(a) == at[a] \in {"leased", "registered", "refused"} \/ (at[a] = "drop" /\ mutex = a)

(* A handle, wherever it is kept, refers to a live entry of the running    *)
(* service, and pins it: exactly one lease is held for each handle and for *)
(* each call of new that is under way.                                     *)
HandlesPinTheService ==
    /\ \A i \in Id : handle[i] \in {"app", "callback"}
                         => Live(i) /\ slot = "Running" /\ ~stop_requested
    /\ (\A a \in Actor : at[a] # "panicked") =>
         leases = Cardinality({i \in Id : handle[i] # "none"})
                    + Cardinality({a \in Actor : Creating(a)})

(* No assertion or expect on these paths fails (the registry mutex, the    *)
(* deregistration of a dropped handle, the slot at the end of a shutdown,  *)
(* the capabilities in the worker's wait), except in a task that suspended *)
(* the scheduler while another one, preempted, owns the registry mutex.    *)
OnlySuspendedCallsPanic == \A a \in Actor : at[a] = "panicked" => suspended = a

(* A shutdown that does not go through leaves a running service behind.    *)
RolledBackServiceRuns == phase = "Running" => slot = "Running" /\ caps /\ ~stop_requested

(* The service does what timers promise.                                   *)
Contract == INSTANCE TimerContract WITH
    live <- {i \in Id : Live(i)},
    armed <- {i \in Id : Live(i) /\ timers[i].state.deadline # NoDeadline},
    firing <- IF dispatching = 0 THEN {} ELSE {dispatching}
ImplementsContract == Contract!Spec

(* A timer that is due is dispatched, or stopped, reset or dropped, unless *)
(* somebody has suspended the scheduler or blocks itself in a failed new.  *)
Obstructed == suspended # Nobody \/ \E a \in Actor : at[a] = "drop" /\ mutex = a
Due(i) == Live(i) /\ TS!has_expired(timers[i].state, now)
DueTimersFire == \A i \in Id : Due(i) /\ worker ~> ~Due(i) \/ Obstructed
=============================================================================
