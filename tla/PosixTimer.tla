----------------------------- MODULE PosixTimer -----------------------------
(***************************************************************************)
(* The timers of osal-backend-posix: timer_service.rs with the control     *)
(* block of timer_control.rs, the handles of timer.rs, and the initialize  *)
(* and shutdown of runtime.rs around them.                                 *)
(*                                                                         *)
(* Every operation holds the control mutex and the service mutex together  *)
(* and is one step.  The worker thread, which exists from initialize to    *)
(* shutdown, sleeps on a condvar that keeps no memory of a signal.  A      *)
(* callback may own the handle of another timer, which then goes with it.  *)
(* A call that is refused before it changes anything is a stutter and left *)
(* out.                                                                    *)
(***************************************************************************)
EXTENDS Naturals, Sequences, FiniteSets

CONSTANTS Thread, Worker, Nobody,
          MaxTimer,                          (* bound on timers per service *)
          MaxStart,                          (* bound on services created  *)
          Periods,
          MaxDuration, NoDeadline, Overflow, (* as in TimerState           *)
          Captures     (* callbacks may own timer handles                  *)

ASSUME TimerAssumption ==
    /\ Worker \notin Thread /\ Nobody \notin Thread \cup {Worker}
    /\ IsFiniteSet(Thread)
    /\ MaxTimer \in Nat /\ MaxStart \in Nat
    /\ MaxDuration \in Nat \ {0} /\ Periods \subseteq 1 .. MaxDuration
    /\ NoDeadline \notin Nat /\ Overflow \notin Nat /\ NoDeadline # Overflow
    /\ Captures \in BOOLEAN

VARIABLES phase, leases,          (* the runtime: lifecycle, leases held   *)
          next_generation,        (* services created so far               *)
          slot,                   (* the control block's service slot      *)
          timers, next_id, stop_requested,          (* TimerServiceState   *)
          locked,                 (* who entered a drop under both mutexes *)
          run, dispatching, alarm,(* the worker: where it is, the timer it *)
                                  (* dispatches, until when it sleeps      *)
          at, drops,              (* each actor's call: where it is, the   *)
                                  (* handles it is dropping                *)
          handle, captor,         (* who owns a timer's handle             *)
          now

runtime == <<phase, leases>>
control == <<slot, next_generation>>
registry == <<timers, next_id, stop_requested>>
worker == <<run, dispatching, alarm>>
calls == <<at, drops>>
owners == <<handle, captor>>
vars == <<runtime, control, registry, locked, worker, calls, owners, now>>

Id == 1 .. MaxTimer
Actor == Thread \cup {Worker}
TS == INSTANCE TimerState

Absent == [status |-> "absent", callback |-> FALSE,
           state |-> [mode |-> "OneShot", period |-> 1, deadline |-> NoDeadline]]

CallPoints == {"idle", "init", "inited", "stop", "join", "cleanup", "commit", "leased",
               "drop", "unwind", "panicked"}
RunPoints == {"none", "scan", "waiting", "due", "chosen", "callback", "restore", "exited"}

TypeOK ==
    /\ phase \in {"Uninitialized", "Initializing", "Running", "ShuttingDown"}
    /\ leases \in Nat /\ next_generation \in 1 .. MaxStart + 1
    /\ slot \in {"Stopped", "Running", "Stopping"}
    /\ timers \in [Id -> [status : {"absent", "live", "deleted"}, callback : BOOLEAN,
                          state : TS!TimerStates]]
    /\ next_id \in 1 .. MaxTimer + 1 /\ stop_requested \in BOOLEAN
    /\ locked \in Actor \cup {Nobody}
    /\ run \in RunPoints /\ dispatching \in 0 .. MaxTimer
    /\ alarm \in TS!Duration \cup {NoDeadline}
    /\ at \in [Actor -> CallPoints] /\ drops \in [Actor -> Seq(Id)]
    /\ handle \in [Id -> {"none", "app", "callback", "dropping"}]
    /\ captor \in [Id -> 0 .. MaxTimer]
    /\ now \in TS!Duration

Init ==
    /\ phase = "Uninitialized" /\ leases = 0
    /\ slot = "Stopped" /\ next_generation = 1
    /\ timers = [i \in Id |-> Absent] /\ next_id = 1 /\ stop_requested = FALSE
    /\ locked = Nobody
    /\ run = "none" /\ dispatching = 0 /\ alarm = NoDeadline
    /\ at = [a \in Actor |-> "idle"] /\ drops = [a \in Actor |-> <<>>]
    /\ handle = [i \in Id |-> "none"] /\ captor = [i \in Id |-> 0]
    /\ now = 0
-----------------------------------------------------------------------------
Calls(a) == at[a] = "idle" /\ (a = Worker => run = "callback")
Goto(a, point) == at' = [at EXCEPT ![a] = point]
Live(i) == timers[i].status = "live"

(* Who may use a timer: everybody, if the application holds its handle;    *)
(* a handle in a callback is for that callback.                            *)
Usable(a, i) ==
    \/ handle[i] = "app"
    \/ handle[i] = "callback" /\ a = Worker /\ captor[i] = dispatching

Captured(i) == {k \in Id : handle[k] = "callback" /\ captor[k] = i}

(* Conditions and updates below are preceded by faulty variants of         *)
(* themselves, which the specification never uses.                         *)

(* condvar.signal or broadcast: the worker is the only one who waits, and  *)
(* nothing is remembered when it does not.                                 *)
no_signal == run
signal == IF run = "waiting" THEN "scan" ELSE run

take_callback(e) == FALSE

keep_lease == leases
release_lease == leases - 1

(* with_service: control mutex, service mutex, a running service.          *)
with_service == locked = Nobody /\ slot = "Running"

(* An operation on the timer's state under both mutexes, and the signal.   *)
Edit(i, state) ==
    /\ with_service
    /\ timers' = [timers EXCEPT ![i].state = state]
    /\ run' = signal
    /\ UNCHANGED <<runtime, control, next_id, stop_requested, locked, dispatching, alarm,
                   calls, owners, now>>
-----------------------------------------------------------------------------
(* PosixTimer::new: a runtime lease, then register.  The callback may take *)
(* the handle k of another timer with it (0: none).                        *)
new_lease(a) ==
    /\ Calls(a) /\ phase = "Running"
    /\ next_id + Cardinality({b \in Actor : at[b] = "leased"}) <= MaxTimer
    /\ leases' = leases + 1
    /\ Goto(a, "leased")
    /\ UNCHANGED <<phase, control, registry, locked, worker, drops, owners, now>>

Capturable == {0} \cup (IF Captures THEN {k \in Id : handle[k] = "app"} ELSE {})

register(a, period, mode, k) ==
    /\ at[a] = "leased" /\ with_service
    /\ k \in Capturable
    /\ timers' = [timers EXCEPT ![next_id] = [status |-> "live", callback |-> TRUE,
                                              state |-> TS!new(period, mode)]]
    /\ next_id' = next_id + 1
    /\ handle' = [i \in Id |-> CASE i = k -> "callback" [] i = next_id -> "app"
                                 [] OTHER -> handle[i]]
    /\ captor' = [i \in Id |-> IF i = k THEN next_id ELSE captor[i]]
    /\ run' = signal
    /\ Goto(a, "idle")
    /\ UNCHANGED <<runtime, control, stop_requested, locked, dispatching, alarm, drops, now>>

(* start and reset; one whose deadline overflows returns without a signal. *)
start(a, i) ==
    /\ Calls(a) /\ Usable(a, i)
    /\ TS!checked_deadline(now, timers[i].state.period) # Overflow
    /\ Edit(i, TS!start(timers[i].state, now))

stop(a, i) ==
    /\ Calls(a) /\ Usable(a, i)
    /\ Edit(i, TS!stop(timers[i].state))

change_period(a, i, period) ==
    /\ Calls(a) /\ Usable(a, i)
    /\ Edit(i, TS!change_period(timers[i].state, period))
-----------------------------------------------------------------------------
(* The drop of a last handle: deregister, then the lease.                  *)
drop_handle(a, i) ==
    /\ Calls(a) /\ handle[i] = "app"
    /\ handle' = [handle EXCEPT ![i] = "dropping"]
    /\ drops' = [drops EXCEPT ![a] = <<i>>]
    /\ Goto(a, "drop")
    /\ UNCHANGED <<runtime, control, registry, locked, worker, captor, now>>

(* deregister drops the callback under both mutexes; a handle the callback *)
(* owns is dropped there and then.                                         *)
deregister(a) ==
    /\ at[a] = "drop" /\ locked = Nobody
    /\ LET i == Head(drops[a]) IN
       IF slot = "Running" /\ Live(i)
       THEN /\ timers' = [timers EXCEPT ![i] =
                  [status |-> "deleted", callback |-> take_callback(@),
                   state |-> TS!stop(@.state)]]
            /\ LET owned == IF timers[i].callback THEN Captured(i) ELSE {} IN
               \/ /\ owned = {}
                  /\ run' = signal
                  /\ Goto(a, "unwind")
                  /\ UNCHANGED <<locked, drops, handle>>
               \/ \E k \in owned :
                  /\ locked' = a
                  /\ drops' = [drops EXCEPT ![a] = <<k>> \o @]
                  /\ handle' = [handle EXCEPT ![k] = "dropping"]
                  /\ UNCHANGED <<run, at>>
       ELSE /\ Goto(a, "panicked")
            /\ UNCHANGED <<timers, run, locked, drops, handle>>
    /\ UNCHANGED <<runtime, control, next_id, stop_requested, dispatching, alarm, captor, now>>

drop_lease(a) ==
    /\ at[a] = "unwind"
    /\ handle' = [handle EXCEPT ![Head(drops[a])] = "none"]
    /\ captor' = [captor EXCEPT ![Head(drops[a])] = 0]
    /\ leases' = release_lease
    /\ drops' = [drops EXCEPT ![a] = Tail(@)]
    /\ Goto(a, IF Len(drops[a]) = 1 THEN "idle" ELSE "unwind")
    /\ UNCHANGED <<phase, control, registry, locked, worker, now>>
-----------------------------------------------------------------------------
(* TimerService::run, one pass under the service mutex: stop, purge, then  *)
(* sleep until the earliest deadline (the wait gives up the mutex), or     *)
(* unlock and dispatch.  A timed wait may be cut short, at most an hour    *)
(* long, and any wait may end early: woken says so.                        *)
Purged == [i \in Id |-> IF Live(i) THEN timers[i] ELSE Absent]
Deadlines == {timers[i].state.deadline : i \in {j \in Id : Live(j)}} \ {NoDeadline}
EarliestDeadline ==
    IF Deadlines = {} THEN NoDeadline
    ELSE CHOOSE d \in Deadlines : \A e \in Deadlines : d <= e

scan ==
    /\ run = "scan" /\ at[Worker] = "idle" /\ locked = Nobody
    /\ IF stop_requested
       THEN run' = "exited" /\ UNCHANGED <<timers, alarm>>
       ELSE /\ timers' = Purged
            /\ alarm' = EarliestDeadline
            /\ run' = IF alarm' # NoDeadline /\ alarm' <= now THEN "due" ELSE "waiting"
    /\ UNCHANGED <<runtime, control, next_id, stop_requested, locked, dispatching, calls,
                   owners, now>>

woken ==
    /\ run = "waiting"
    /\ run' = "scan"
    /\ UNCHANGED <<runtime, control, registry, locked, dispatching, alarm, calls, owners, now>>

deadline_passes ==
    /\ run = "waiting" /\ alarm # NoDeadline /\ alarm <= now
    /\ woken

(* dispatch_one: locks again and chooses afresh, by (deadline, id).        *)
Expired(i) == Live(i) /\ timers[i].callback /\ TS!has_expired(timers[i].state, now)

Precedes(i, j) ==
    \/ timers[i].state.deadline < timers[j].state.deadline
    \/ timers[i].state.deadline = timers[j].state.deadline /\ i <= j

stale_choice(i) == Live(i) /\ \A j \in Id : ~Expired(j)
choice(i) == Expired(i) /\ \A j \in Id : Expired(j) => Precedes(i, j)

choose_expired ==
    /\ run = "due" /\ locked = Nobody
    /\ \/ \E i \in Id :
            /\ choice(i)
            /\ timers' = [timers EXCEPT ![i].state = TS!advance_on_expiry(@, now),
                                        ![i].callback = take_callback(timers[i])]
            /\ dispatching' = i
            /\ run' = "chosen"
       \/ /\ \A i \in Id : ~choice(i)
          /\ run' = "scan"
          /\ UNCHANGED <<timers, dispatching>>
    /\ UNCHANGED <<runtime, control, next_id, stop_requested, locked, alarm, calls, owners, now>>

callback_begins ==
    /\ run = "chosen"
    /\ run' = "callback"
    /\ UNCHANGED <<runtime, control, registry, locked, dispatching, alarm, calls, owners, now>>

callback_returns ==
    /\ Calls(Worker)
    /\ run' = "restore"
    /\ UNCHANGED <<runtime, control, registry, locked, dispatching, alarm, calls, owners, now>>

(* The callback is restored unless its timer went away; then it is dropped *)
(* after the guard, with the handle it owns.                               *)
restore ==
    /\ run = "restore" /\ locked = Nobody
    /\ LET restored == Live(dispatching) /\ ~timers[dispatching].callback
           owned == IF restored THEN {} ELSE Captured(dispatching)
       IN /\ timers' = IF restored THEN [timers EXCEPT ![dispatching].callback = TRUE] ELSE timers
          /\ \/ owned = {} /\ UNCHANGED <<at, drops, handle>>
             \/ \E k \in owned :
                  /\ drops' = [drops EXCEPT ![Worker] = <<k>>]
                  /\ handle' = [handle EXCEPT ![k] = "dropping"]
                  /\ Goto(Worker, "drop")
    /\ dispatching' = 0
    /\ run' = "scan"
    /\ UNCHANGED <<runtime, control, next_id, stop_requested, locked, alarm, captor, now>>
-----------------------------------------------------------------------------
(* runtime::initialize around timer_service::initialize, which creates the *)
(* service and spawns its worker.                                          *)
begin_initialize(a) ==
    /\ Calls(a) /\ phase = "Uninitialized"
    /\ phase' = "Initializing"
    /\ Goto(a, "init")
    /\ UNCHANGED <<leases, control, registry, locked, worker, drops, owners, now>>

initialize(a) ==
    /\ at[a] = "init" /\ slot = "Stopped" /\ next_generation <= MaxStart
    /\ next_generation' = next_generation + 1
    /\ slot' = "Running"
    /\ timers' = [i \in Id |-> Absent] /\ next_id' = 1 /\ stop_requested' = FALSE
    /\ run' = "scan" /\ dispatching' = 0 /\ alarm' = NoDeadline
    /\ Goto(a, "inited")
    /\ UNCHANGED <<runtime, locked, drops, owners, now>>

(* The generation overflows, or mutex, condvar or thread cannot be had.    *)
initialize_fails(a) ==
    /\ at[a] = "init"
    /\ phase' = "Uninitialized"
    /\ Goto(a, "idle")
    /\ UNCHANGED <<leases, control, registry, locked, worker, drops, owners, now>>

commit_initialize(a) ==
    /\ at[a] = "inited"
    /\ phase' = "Running"
    /\ Goto(a, "idle")
    /\ UNCHANGED <<leases, control, registry, locked, worker, drops, owners, now>>
-----------------------------------------------------------------------------
(* runtime::shutdown around timer_service::shutdown.                       *)
begin_shutdown(a) ==
    /\ Calls(a) /\ phase = "Running" /\ leases = 0
    /\ phase' = "ShuttingDown"
    /\ Goto(a, "stop")
    /\ UNCHANGED <<leases, control, registry, locked, worker, drops, owners, now>>

refused_too_late(a) ==
    /\ phase' = "Running" /\ slot' = "Stopping"
    /\ Goto(a, "idle")
    /\ UNCHANGED <<next_id, stop_requested, run>>
refused(a) ==
    /\ phase' = "Running"
    /\ Goto(a, "idle")
    /\ UNCHANGED <<slot, next_id, stop_requested, run>>

shutdown_request(a) ==
    /\ at[a] = "stop" /\ locked = Nobody
    /\ timers' = IF a = Worker \/ ~with_service THEN timers ELSE Purged
    /\ IF a = Worker \/ ~with_service \/ \E i \in Id : Live(i) THEN refused(a)
       ELSE /\ stop_requested' = TRUE
            /\ run' = signal
            /\ slot' = "Stopping"
            /\ Goto(a, "join")
            /\ UNCHANGED <<phase, next_id>>
    /\ UNCHANGED <<leases, next_generation, locked, dispatching, alarm, drops, owners, now>>

worker_exited == run = "exited"

shutdown_join(a) ==
    /\ at[a] = "join"
    /\ worker_exited
    /\ run' = IF run = "exited" THEN "none" ELSE run
    /\ Goto(a, "cleanup")
    /\ UNCHANGED <<runtime, control, registry, locked, dispatching, alarm, drops, owners, now>>

shutdown_cleanup(a) ==
    /\ at[a] = "cleanup"
    /\ slot' = "Stopped"
    /\ Goto(a, IF slot = "Stopping" THEN "commit" ELSE "panicked")
    /\ UNCHANGED <<runtime, next_generation, registry, locked, worker, drops, owners, now>>

commit_shutdown(a) ==
    /\ at[a] = "commit"
    /\ phase' = "Uninitialized"
    /\ Goto(a, "idle")
    /\ UNCHANGED <<leases, control, registry, locked, worker, drops, owners, now>>

tick ==
    /\ now < MaxDuration
    /\ now' = now + 1
    /\ UNCHANGED <<runtime, control, registry, locked, worker, calls, owners>>
-----------------------------------------------------------------------------
timer_worker == scan \/ deadline_passes \/ choose_expired \/ callback_begins \/ restore

(* What an actor does inside a call it has begun.                          *)
Continue(a) ==
    \/ deregister(a) \/ drop_lease(a) \/ initialize(a) \/ commit_initialize(a)
    \/ shutdown_request(a) \/ shutdown_join(a) \/ shutdown_cleanup(a) \/ commit_shutdown(a)
    \/ \E period \in Periods, mode \in {"OneShot", "Periodic"}, k \in 0 .. MaxTimer :
         register(a, period, mode, k)

Begin(a) ==
    \/ begin_initialize(a) \/ initialize_fails(a) \/ begin_shutdown(a) \/ new_lease(a)
    \/ \E i \in Id : start(a, i) \/ stop(a, i) \/ drop_handle(a, i)
    \/ \E i \in Id, period \in Periods : change_period(a, i, period)

Next ==
    \/ timer_worker \/ woken \/ callback_returns \/ tick
    \/ \E a \in Actor : Continue(a) \/ Begin(a)

Spec == Init /\ [][Next]_vars

(* The worker and every call that was begun make progress, time passes,    *)
(* and callbacks return.  Nobody has to make a call, and no wait has to    *)
(* end early.                                                              *)
Fairness ==
    /\ WF_vars(timer_worker) /\ SF_vars(callback_returns) /\ WF_vars(tick)
    /\ \A a \in Actor : WF_vars(Continue(a))
FairSpec == Spec /\ Fairness
-----------------------------------------------------------------------------
(* A handle, wherever it is kept, refers to a live entry of the running    *)
(* service, and pins it: exactly one lease is held for each handle and for *)
(* each call of new that is under way.                                     *)
HandlesPinTheService ==
    /\ \A i \in Id : handle[i] \in {"app", "callback"}
                         => Live(i) /\ slot = "Running" /\ ~stop_requested
    /\ leases = Cardinality({i \in Id : handle[i] # "none"})
                  + Cardinality({a \in Actor : at[a] = "leased"})

(* A running runtime has a running service with a worker, also after a     *)
(* shutdown that was refused; a stopped service has none.                  *)
ServiceFollowsTheRuntime ==
    /\ phase = "Running" => slot = "Running" /\ ~stop_requested /\ run \notin {"none", "exited"}
    /\ slot = "Stopped" => run = "none" /\ dispatching = 0

(* The service does what timers promise.                                   *)
Contract == INSTANCE TimerContract WITH
    live <- {i \in Id : Live(i)},
    armed <- {i \in Id : Live(i) /\ timers[i].state.deadline # NoDeadline},
    firing <- IF dispatching = 0 THEN {} ELSE {dispatching}
ImplementsContract == Contract!Spec

(* A timer that is due is dispatched, or stopped, reset or dropped, unless *)
(* a thread blocks itself: a callback that is dropped under the mutexes    *)
(* may own a handle whose drop waits for them.                             *)
Due(i) == Live(i) /\ TS!has_expired(timers[i].state, now)
DueTimersFire == \A i \in Id : Due(i) ~> ~Due(i) \/ locked # Nobody

(* What behavior-contract.md says of Drop: it must not block indefinitely. *)
(* A drop that has begun goes on to give its lease back.                   *)
DropsReturn == \A a \in Actor : at[a] = "drop" ~> at[a] # "drop"
=============================================================================
