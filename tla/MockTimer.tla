----------------------------- MODULE MockTimer -----------------------------
(***************************************************************************)
(* The virtual clock and the timers of osal-backend-mock: time_runtime.rs, *)
(* the dispatch of clock.rs, the handles of timer.rs and the lifecycle of  *)
(* runtime.rs around them.                                                 *)
(*                                                                         *)
(* Time moves only when a thread asks, with advance_and_dispatch, which    *)
(* then takes expired callbacks one at a time and runs each of them with   *)
(* the lock of the registry released.  A callback may call everything a    *)
(* thread may, advance_and_dispatch included, so a thread has a stack of   *)
(* these calls.  A callback may own the handle of another timer.  Timers   *)
(* have serial numbers, which the code does not have, to tell them apart   *)
(* when their keys are reused.  A call that changes nothing is a stutter   *)
(* and left out.                                                           *)
(***************************************************************************)
EXTENDS Naturals, Sequences, FiniteSets

CONSTANTS Thread, Nobody,
          MaxTimer,                          (* bound on timers created    *)
          MaxEpoch,                          (* bound on resets            *)
          MaxDepth,                          (* bound on nested dispatches *)
          Periods,
          MaxDuration, NoDeadline, Overflow, (* as in TimerState           *)
          Captures     (* callbacks may own timer handles                  *)

ASSUME MockAssumption ==
    /\ Nobody \notin Thread
    /\ MaxTimer \in Nat /\ MaxEpoch \in Nat /\ MaxDepth \in Nat
    /\ MaxDuration \in Nat /\ Periods \subseteq 1 .. MaxDuration
    /\ NoDeadline \notin Nat /\ Overflow \notin Nat /\ NoDeadline # Overflow
    /\ Captures \in BOOLEAN

VARIABLES phase, leases,        (* the runtime: lifecycle, leases held     *)
          now, epoch, next_id,  (* MockTimeRuntime                         *)
          timers,               (* its entries, by serial number           *)
          created, key,         (* timers created so far, the handles' keys *)
          held, captured,       (* the handles the threads own, and the    *)
                                (* handle the callback of a timer owns     *)
          stack,                (* a thread's calls of advance_and_dispatch *)
          at,                   (* where a thread is in another call       *)
          drops, releases,      (* the handles it is dropping              *)
          lock                  (* who entered a drop with RUNTIME locked  *)

runtime == <<phase, leases>>
clock == <<now, epoch, next_id>>
owners == <<created, key, held, captured>>
calls == <<at, drops, releases>>
vars == <<runtime, clock, timers, owners, stack, calls, lock>>

Serial == 1 .. MaxTimer
None == 0
NoKey == <<0, 0>>
Key == (1 .. MaxEpoch) \X Serial
TS == INSTANCE TimerState

TypeOK ==
    /\ phase \in {"Uninitialized", "Initializing", "Running", "ShuttingDown"}
    /\ leases \in 0 .. MaxTimer + Cardinality(Thread)
    /\ now \in 0 .. MaxDuration /\ epoch \in 1 .. MaxEpoch /\ next_id \in 1 .. MaxTimer + 1
    /\ \A s \in DOMAIN timers :
           timers[s] \in [key : Key, state : TS!TimerStates, callback : Serial \cup {None}]
    /\ created \in 0 .. MaxTimer /\ DOMAIN timers \subseteq 1 .. created
    /\ key \in [Serial -> Key \cup {NoKey}]
    /\ held \subseteq 1 .. created /\ captured \in [Serial -> Serial \cup {None}]
    /\ \A t \in Thread : \A i \in DOMAIN stack[t] : stack[t][i] \in [key : Key \cup {NoKey}, callback : Serial \cup {None}]
    /\ at \in [Thread -> {"free", "leased", "reset", "commit"}]
    /\ drops \in [Thread -> SUBSET Serial] /\ releases \in [Thread -> SUBSET Serial]
    /\ lock \in Thread \cup {Nobody}

(* RUNTIME is None until with_runtime fills it with this.                  *)
Init ==
    /\ phase = "Uninitialized" /\ leases = 0
    /\ now = 0 /\ epoch = 1 /\ next_id = 1
    /\ timers = [s \in {} |-> None]
    /\ created = 0 /\ key = [s \in Serial |-> NoKey]
    /\ held = {} /\ captured = [s \in Serial |-> None]
    /\ stack = [t \in Thread |-> <<>>]
    /\ at = [t \in Thread |-> "free"]
    /\ drops = [t \in Thread |-> {}] /\ releases = [t \in Thread |-> {}]
    /\ lock = Nobody
-----------------------------------------------------------------------------
Looking == [key |-> NoKey, callback |-> None]
Top(t) == stack[t][Len(stack[t])]
SetTop(t, frame) == stack' = [stack EXCEPT ![t][Len(stack[t])] = frame]
Goto(t, point) == at' = [at EXCEPT ![t] = point]

(* The thread is between two statements of its own code or of a callback,  *)
(* with no handle half dropped.                                            *)
Settled(t) == at[t] = "free" /\ drops[t] = {} /\ releases[t] = {}
Client(t) == Settled(t) /\ (stack[t] # <<>> => Top(t) # Looking)
Unlocked == lock = Nobody

Restrict(f, S) == [s \in S |-> f[s]]
Found(k) == {s \in DOMAIN timers : timers[s].key = k}

(* The handles that go with the callbacks of these entries, as far as the  *)
(* callbacks are in their entries.                                         *)
CapturedBy(S) == {captured[timers[s].callback] : s \in {r \in S : timers[r].callback # None}} \ {None}
-----------------------------------------------------------------------------
(* Operators below are preceded by faulty variants of themselves, which    *)
(* the specification never uses.                                           *)
MayShutDown == phase = "Running" /\ leases = 0

begin_initialize(t) ==
    /\ Client(t) /\ phase = "Uninitialized"
    /\ phase' = "Initializing" /\ Goto(t, "reset")
    /\ UNCHANGED <<leases, clock, timers, owners, stack, drops, releases, lock>>

begin_shutdown(t) ==
    /\ Client(t) /\ MayShutDown
    /\ phase' = "ShuttingDown" /\ Goto(t, "reset")
    /\ UNCHANGED <<leases, clock, timers, owners, stack, drops, releases, lock>>

commit(t) ==
    /\ at[t] = "commit" /\ drops[t] = {} /\ releases[t] = {}
    /\ phase' = IF phase = "Initializing" THEN "Running" ELSE "Uninitialized"
    /\ Goto(t, "free")
    /\ UNCHANGED <<leases, clock, timers, owners, stack, drops, releases, lock>>

(* reset_runtime, which a test may also call through MockClockControl.     *)
SameEpoch == epoch
NextEpoch == epoch + 1

reset_and_detach(t) ==
    /\ Unlocked /\ NextEpoch <= MaxEpoch
    /\ now' = 0 /\ epoch' = NextEpoch /\ next_id' = 1
    /\ timers' = Restrict(timers, {})
    /\ drops' = [drops EXCEPT ![t] = @ \cup CapturedBy(DOMAIN timers)]
    /\ UNCHANGED <<runtime, owners, stack, releases, lock>>

reset_runtime(t) ==
    /\ \/ at[t] = "reset" /\ Goto(t, "commit")
       \/ Client(t) /\ UNCHANGED at
    /\ reset_and_detach(t)
-----------------------------------------------------------------------------
(* MockTimer::new: the lease, then the entry.  The callback may take a     *)
(* handle the threads own.                                                 *)
acquire_object(t) ==
    /\ Client(t) /\ phase = "Running" /\ created < MaxTimer
    /\ leases' = leases + 1 /\ Goto(t, "leased")
    /\ UNCHANGED <<phase, clock, timers, owners, stack, drops, releases, lock>>

register_timer(t, period, mode, handle) ==
    /\ at[t] = "leased" /\ Unlocked
    /\ created < MaxTimer /\ next_id <= MaxTimer
    /\ created' = created + 1 /\ next_id' = next_id + 1
    /\ key' = [key EXCEPT ![created'] = <<epoch, next_id>>]
    /\ timers' = [s \in DOMAIN timers \cup {created'} |->
                     IF s = created'
                     THEN [key |-> <<epoch, next_id>>, state |-> TS!new(period, mode),
                           callback |-> s]
                     ELSE timers[s]]
    /\ captured' = [captured EXCEPT ![created'] = handle]
    /\ held' = (held \ {handle}) \cup {created'}
    /\ Goto(t, "free")
    /\ UNCHANGED <<runtime, now, epoch, stack, drops, releases, lock>>

(* start_timer and reset_timer, stop_timer, change_period through a handle *)
(* whose entry may be gone.                                                *)
Update(t, s, state) ==
    /\ timers' = [timers EXCEPT ![s].state = state]
    /\ UNCHANGED <<runtime, clock, owners, stack, calls, lock>>

start_timer(t) ==
    /\ Client(t) /\ Unlocked
    /\ \E h \in held : \E s \in Found(key[h]) : Update(t, s, TS!start(timers[s].state, now))

stop_timer(t) ==
    /\ Client(t) /\ Unlocked
    /\ \E h \in held : \E s \in Found(key[h]) : Update(t, s, TS!stop(timers[s].state))

change_period(t, period) ==
    /\ Client(t) /\ Unlocked
    /\ \E h \in held : \E s \in Found(key[h]) :
           Update(t, s, TS!change_period(timers[s].state, period))

(* MockTimerHandleInner::drop: deregister_timer, whose removed entry goes  *)
(* with its callback once the lock is released, and then the lease.        *)
drop_handle(t) ==
    /\ Client(t)
    /\ \E h \in held : /\ held' = held \ {h}
                       /\ drops' = [drops EXCEPT ![t] = {h}]
    /\ UNCHANGED <<runtime, clock, timers, created, key, captured, stack, at, releases, lock>>

deregister_timer(t) ==
    /\ Unlocked
    /\ \E h \in drops[t] :
           LET gone == Found(key[h])
           IN /\ timers' = Restrict(timers, DOMAIN timers \ gone)
              /\ drops' = [drops EXCEPT ![t] = (@ \ {h}) \cup CapturedBy(gone)]
              /\ releases' = [releases EXCEPT ![t] = @ \cup {h}]
    /\ UNCHANGED <<runtime, clock, owners, stack, at, lock>>

release_lease(t) ==
    /\ \E h \in releases[t] : releases' = [releases EXCEPT ![t] = @ \ {h}]
    /\ leases' = leases - 1
    /\ UNCHANGED <<phase, clock, timers, owners, stack, at, drops, lock>>
-----------------------------------------------------------------------------
(* advance_and_dispatch.                                                   *)
saturating_add(d, e) == IF d + e <= MaxDuration THEN d + e ELSE MaxDuration

advance_time(t, d) ==
    /\ Client(t) /\ Unlocked /\ Len(stack[t]) < MaxDepth
    /\ now' = saturating_add(now, d)
    /\ stack' = [stack EXCEPT ![t] = Append(@, Looking)]
    /\ UNCHANGED <<runtime, epoch, next_id, timers, owners, calls, lock>>

DueStrictly(s) == timers[s].state.deadline < now
Due(s) == timers[s].state.deadline <= now

Callable(s) == timers[s].callback # None

Expired == {s \in DOMAIN timers : Callable(s) /\ timers[s].state.deadline # NoDeadline /\ Due(s)}

(* Earliest deadline first, and then the timer that was created first.     *)
Before(s, r) ==
    LET d == timers[s].state.deadline
        e == timers[r].state.deadline
    IN d < e \/ (d = e /\ s <= r)

take_next_expired(t) ==
    /\ stack[t] # <<>> /\ Top(t) = Looking /\ Settled(t) /\ Unlocked
    /\ \E s \in Expired :
           /\ \A r \in Expired : Before(s, r)
           /\ timers' = [timers EXCEPT ![s].state = TS!advance_on_expiry(@, now),
                                       ![s].callback = None]
           /\ SetTop(t, [key |-> timers[s].key, callback |-> s])
    /\ UNCHANGED <<runtime, clock, owners, calls, lock>>

dispatch_ends(t) ==
    /\ stack[t] # <<>> /\ Top(t) = Looking /\ Settled(t) /\ Unlocked
    /\ Expired = {}
    /\ stack' = [stack EXCEPT ![t] = SubSeq(@, 1, Len(@) - 1)]
    /\ UNCHANGED <<runtime, clock, timers, owners, calls, lock>>

(* The callback returns and goes back to its entry.  Without an entry it   *)
(* is dropped where it is, inside the lock, and its captured handle's drop *)
(* begins there.                                                           *)
RestoredIfArmed(k) == {s \in Found(k) : timers[s].callback = None /\ timers[s].state.deadline # NoDeadline}
Restored(k) == {s \in Found(k) : timers[s].callback = None}

restore_callback(t) ==
    /\ Client(t) /\ stack[t] # <<>> /\ Unlocked
    /\ LET frame == Top(t)
           home == Restored(frame.key)
           handle == captured[frame.callback]
       IN /\ timers' = [s \in DOMAIN timers |->
                            IF s \in home THEN [timers[s] EXCEPT !.callback = frame.callback]
                            ELSE timers[s]]
          /\ IF home = {} /\ handle # None
             THEN drops' = [drops EXCEPT ![t] = {handle}] /\ lock' = t
             ELSE UNCHANGED <<drops, lock>>
    /\ SetTop(t, Looking)
    /\ UNCHANGED <<runtime, clock, owners, at, releases>>
-----------------------------------------------------------------------------
Step(t) ==
    \/ begin_initialize(t) \/ begin_shutdown(t) \/ reset_runtime(t) \/ commit(t)
    \/ acquire_object(t)
    \/ \E period \in Periods, mode \in {"OneShot", "Periodic"},
          handle \in {None} \cup (IF Captures THEN held ELSE {}) :
           register_timer(t, period, mode, handle)
    \/ start_timer(t) \/ stop_timer(t) \/ \E period \in Periods : change_period(t, period)
    \/ drop_handle(t) \/ deregister_timer(t) \/ release_lease(t)
    \/ \E d \in Periods : advance_time(t, d)
    \/ take_next_expired(t) \/ restore_callback(t) \/ dispatch_ends(t)

Next == \E t \in Thread : Step(t)

Spec == Init /\ [][Next]_vars
-----------------------------------------------------------------------------
Frames == {f \in Thread \X (1 .. MaxDepth) : f[2] \in DOMAIN stack[f[1]]}
InFlight(s) == {f \in Frames : stack[f[1]][f[2]].callback = s}

(* After a reset the ids start again from 1, and handles of the old epoch  *)
(* may still be alive: what such a handle finds is its own timer or        *)
(* nothing, never a timer created since.                                   *)
StaleHandlesAreInert ==
    \A h \in held, s \in DOMAIN timers : timers[s].key = key[h] => s = h

(* The callback of a registered timer is either in its entry or in exactly *)
(* one dispatch call, whatever the callback itself does to its timer, to   *)
(* others or to the clock: no timer goes silent and none gets the callback *)
(* of another.                                                             *)
NoCallbackIsLost ==
    \A s \in DOMAIN timers :
        /\ timers[s].callback \in {None, s}
        /\ timers[s].callback = None <=> InFlight(s) # {}

(* When every advance_and_dispatch has returned, no timer is overdue: also *)
(* not one whose callback was out when a nested or a concurrent call went  *)
(* past its deadline.                                                      *)
QuietMeansCaughtUp ==
    (\A t \in Thread : stack[t] = <<>>) =>
        \A s \in DOMAIN timers :
            timers[s].state.deadline = NoDeadline \/ timers[s].state.deadline > now

(* Fixed rate: an expiry moves a periodic timer to the first deadline of   *)
(* its own grid that lies ahead, however many periods the clock jumped     *)
(* over, and stops it when there is no such Duration; a one-shot timer is  *)
(* stopped.  The reference is a minimum, not the division of the code.     *)
Ahead(state) == {d \in {state.deadline + k * state.period : k \in 0 .. MaxDuration} :
                    now < d /\ d <= MaxDuration}
Reloaded(state, deadline) ==
    IF state.mode = "OneShot" \/ Ahead(state) = {} THEN deadline = NoDeadline
    ELSE deadline \in Ahead(state) /\ \A d \in Ahead(state) : deadline <= d

FixedRate ==
    [][(\E t \in Thread : take_next_expired(t)) =>
          \E s \in Expired : /\ timers'[s].callback = None
                            /\ Reloaded(timers[s].state, timers'[s].state.deadline)]_vars
=============================================================================
