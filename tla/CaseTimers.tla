----------------------------- MODULE CaseTimers -----------------------------
(***************************************************************************)
(* Statements about timers and the runtime, and the worker task of the     *)
(* timer service, which executes the callbacks' programs.  Every section   *)
(* under the registry mutex is one step.                                   *)
(***************************************************************************)
EXTENDS CaseObjects

Live(o) == o \in Timers /\ ~service.timers[o].deleted
Entry(id, period, mode, handles) ==
    [id |-> id, state |-> TS!new(period, mode), owns |-> handles, deleted |-> FALSE]

new_timer(t, s) ==
    /\ s.op = "new_timer"
    /\ LET r == CASE s.period = 0 -> "InvalidParameter"
                  [] runtime # "Running" -> "NotInitialized"
                  [] OTHER -> "Ok"
       IN /\ IF r = "Ok"
             THEN /\ With(s.obj, [kind |-> "timer", refs |-> 1])
                  /\ service' = [service EXCEPT
                        !.timers = (s.obj :> Entry(service.next, s.period, s.mode, s.owns)) @@ @,
                        !.next = @ + 1, !.wake = TRUE]
             ELSE obj' = Dropped(s.owns) /\ UNCHANGED service
          /\ Return(t, r, s, <<>>)
    /\ UNCHANGED <<case, clock, world>>

Updated(o, state, wake) ==
    service' = [service EXCEPT !.timers[o].state = state, !.wake = @ \/ wake]
TimerState(o) == service.timers[o].state

(* ensure_worker, and then start or reset.                                 *)
ensure_worker(t, s) ==
    /\ s.op = "start" /\ suspended = Nobody /\ ~service.worker
    /\ service' = [service EXCEPT !.worker = TRUE]
    /\ task' = [task EXCEPT ![Worker] = Started(Worker, "worker", MAX_PRIORITIES - 1)]
    /\ mem' = Counted(<<"workers">>)
    /\ UNCHANGED <<case, obj, clock, world, verdict>>

start(t, s) ==
    /\ s.op = "start"
    /\ IF suspended # Nobody THEN Return(t, "Busy", s, <<>>) /\ UNCHANGED service
       ELSE /\ service.worker
            /\ Updated(s.obj, TS!start(TimerState(s.obj), now), TRUE)
            /\ Return(t, "Ok", s, <<>>)
    /\ UNCHANGED <<case, obj, clock, world>>

stop(t, s) ==
    /\ s.op = "stop"
    /\ Updated(s.obj, TS!stop(TimerState(s.obj)), TRUE)
    /\ Return(t, "Ok", s, <<>>)
    /\ UNCHANGED <<case, obj, clock, world>>

change_period(t, s) ==
    /\ s.op = "change_period"
    /\ IF s.period = 0 THEN Return(t, "InvalidParameter", s, <<>>) /\ UNCHANGED service
       ELSE /\ Updated(s.obj, TS!change_period(TimerState(s.obj), s.period), FALSE)
            /\ Return(t, "Ok", s, <<>>)
    /\ UNCHANGED <<case, obj, clock, world>>
-----------------------------------------------------------------------------
(* The worker: one scan, the wait for a signal or the next deadline, and   *)
(* the callback.  The wait is one tick longer than the time to go.         *)
Expired(o) == Live(o) /\ TS!has_expired(TimerState(o), now)
Precedes(o, p) ==
    \/ TimerState(o).deadline < TimerState(p).deadline
    \/ /\ TimerState(o).deadline = TimerState(p).deadline
       /\ service.timers[o].id <= service.timers[p].id
Deadlines == {TimerState(o).deadline : o \in {x \in Timers : Live(x)}} \ {-1}

Scans == task[Worker].prog = Worker /\ task[Worker].st = "ready"

worker_dispatches ==
    /\ Scans /\ ~service.stop
    /\ \E o \in Timers :
        /\ Expired(o) /\ \A p \in Timers : Expired(p) => Precedes(o, p)
        /\ service' = [service EXCEPT !.timers[o].state = TS!advance_on_expiry(@, now)]
        /\ task' = [task EXCEPT ![Worker].prog = o, ![Worker].pc = 1]
    /\ UNCHANGED <<case, obj, mem, clock, world, verdict>>

NextDeadline == CHOOSE d \in Deadlines : \A e \in Deadlines : d <= e
worker_sleeps ==
    /\ Scans /\ ~service.stop /\ \A o \in Timers : ~Expired(o)
    /\ Block(Worker, IF Deadlines = {} THEN Never ELSE NextDeadline + 1)
    /\ UNCHANGED <<case, heap, mem, clock, world>>

worker_wakes ==
    /\ task[Worker].prog = Worker /\ task[Worker].st = "blocked"
    /\ task' = [task EXCEPT ![Worker] = Ready(Worker, 1)]
    /\ service' = [service EXCEPT !.wake = FALSE]
    /\ UNCHANGED <<case, obj, mem, clock, world, verdict>>

(* dispatch_one after the callback: restored, or dropped if its timer went *)
(* away meanwhile.                                                         *)
callback_returns(s) ==
    LET o == task[Worker].prog IN
    /\ o \in Timers /\ s.op = "returned"
    /\ task' = [task EXCEPT ![Worker] = [Ready(Worker, 1) EXCEPT !.prog = Worker]]
    /\ IF ~service.timers[o].deleted THEN UNCHANGED heap
       ELSE LET owned == service.timers[o].owns
                rest == Deregistered(Freed(owned)) IN
            /\ obj' = Dropped(owned)
            /\ service' = [rest EXCEPT !.timers = [p \in DOMAIN @ \ {o} |-> @[p]]]
    /\ UNCHANGED <<case, mem, clock, world, verdict>>

(* Stop: the completion bit, then the worker's Arc, then the task.         *)
(* ForgottenCompletion is a faulty variant, which the machine never uses.  *)
ForgottenCompletion == service
Completion == [service EXCEPT !.done = TRUE]
worker_completes ==
    /\ Scans /\ service.stop
    /\ service' = Completion
    /\ task' = [task EXCEPT ![Worker].prog = "leaving"]
    /\ UNCHANGED <<case, obj, mem, clock, world, verdict>>
worker_leaves ==
    /\ task[Worker].prog = "leaving"
    /\ task' = [task EXCEPT ![Worker].st = "deleted"]
    /\ UNCHANGED <<case, heap, mem, clock, world, verdict>>

timer_worker(s) ==
    \/ worker_dispatches \/ worker_sleeps \/ worker_wakes \/ callback_returns(s)
    \/ worker_completes \/ worker_leaves
-----------------------------------------------------------------------------
(* The runtime.  A shutdown waits for the worker to complete.              *)
Leases == {o \in DOMAIN obj : obj[o].kind # "box"}

initialize(t, s) ==
    /\ s.op = "initialize"
    /\ LET r == IF runtime = "Uninitialized" THEN "Ok" ELSE "AlreadyInitialized" IN
       /\ runtime' = IF r = "Ok" THEN "Running" ELSE runtime
       /\ service' = IF r = "Ok" THEN NoService ELSE service
       /\ Return(t, r, s, <<>>)
    /\ UNCHANGED <<case, obj, clock, suspended, hooks>>

CannotShutDown(t) ==
    Leases # {} \/ t = Worker \/ (service.worker /\ suspended # Nobody)
shutdown(t, s) ==
    /\ s.op = "shutdown"
    /\ LET refused == IF runtime # "Running" THEN "NotInitialized" ELSE "Busy" IN
       CASE FirstTry(t) /\ (runtime # "Running" \/ CannotShutDown(t)) ->
              Return(t, refused, s, <<>>) /\ UNCHANGED <<runtime, service>>
         [] FirstTry(t) /\ runtime = "Running" /\ ~CannotShutDown(t) /\ service.worker ->
              /\ runtime' = "ShuttingDown"
              /\ service' = [service EXCEPT !.stop = TRUE, !.wake = TRUE]
              /\ Block(t, Never) /\ UNCHANGED mem
         [] OTHER ->
              /\ runtime' = "Uninitialized" /\ service' = NoService
              /\ Return(t, "Ok", s, <<>>)
    /\ UNCHANGED <<case, obj, clock, suspended, hooks>>
=============================================================================
