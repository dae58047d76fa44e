----------------------------- MODULE CaseState -----------------------------
(***************************************************************************)
(* The state of the machine that executes programs over the OSAL on a      *)
(* FreeRTOS kernel, and the kernel: which task runs, and how time passes.  *)
(* Objects behave as the FreeRTOS backend's do between two statements;     *)
(* what happens inside an operation is the subject of FreeRtosQueue,       *)
(* FreeRtosTask, FreeRtosTimer and FreeRtosWait.                           *)
(*                                                                         *)
(* The kernel (external) runs a ready task of the highest priority; among  *)
(* equals the running one goes on until it waits, is preempted or a tick   *)
(* arrives.  Idle reclaims deleted tasks when nothing else can run, and    *)
(* then time passes to the next wake-up.  While tasks are running at most  *)
(* BusyTicks ticks arrive, at any point: the programs rely on a delay of   *)
(* two ticks being longer than the few statements of a helper.             *)
(***************************************************************************)
EXTENDS CaseSuites, FiniteSets, TLC

CONSTANT BusyTicks      (* ticks that arrive while tasks are running       *)

ASSUME MachineAssumption == BusyTicks \in Nat

VARIABLES case,         (* the name of the case                            *)
          task,         (* the kernel's tasks                              *)
          obj,          (* live objects by name                            *)
          mem,          (* variables                                       *)
          service,      (* the timer service                               *)
          now, budget,  (* ticks elapsed, busy ticks left                  *)
          running,      (* the task that ran last                          *)
          suspended,    (* the task that suspended the scheduler           *)
          hooks,        (* queue_hooks.rs's GATE_ARMED and AT_BOUNDARY,    *)
                        (* and the kernel's allocation and creation faults *)
          runtime,      (* RuntimeState                                    *)
          verdict

clock == <<now, budget>>
world == <<suspended, hooks, runtime>>
heap == <<obj, service>>
vars == <<case, task, heap, mem, clock, running, world, verdict>>

Nobody == "nobody"
Worker == "worker"
Never == Forever
NotWaiting == -1
TS == INSTANCE TimerState WITH MaxDuration <- Forever, NoDeadline <- -1, Overflow <- -2

Task == DOMAIN task
Absent == [st |-> "absent", role |-> "none", prog |-> Nobody, pc |-> 1, wake |-> Never,
           since |-> NotWaiting, held |-> FALSE, prio |-> 0, live |-> FALSE,
           phase |-> CREATED, visited |-> {}, result |-> 0, last |-> 0]
Started(t, role, priority) ==
    [Absent EXCEPT !.st = "ready", !.role = role, !.prog = t, !.prio = priority]
NoService == [timers |-> <<>>, next |-> 1, worker |-> FALSE, wake |-> FALSE, stop |-> FALSE,
              done |-> FALSE]

Init ==
    /\ case \in DOMAIN Cases
    /\ task = [t \in DOMAIN Cases[case] \cup {Worker} |->
                  IF t = "main" THEN Started(t, "boot", BootPriority) ELSE Absent]
    /\ obj = <<>> /\ mem = <<>> /\ service = NoService
    /\ now = 0 /\ budget = IF case \in Prompt THEN 0 ELSE BusyTicks
    /\ running = "main" /\ suspended = Nobody
    /\ hooks = [armed |-> FALSE, at_boundary |-> FALSE, fault |-> FALSE, create |-> 0]
    /\ runtime = "Uninitialized"
    /\ verdict = "running"
-----------------------------------------------------------------------------
(* The statement a task is at.  A program counter outside the program: the *)
(* program has returned.  The worker outside callbacks has no program.     *)
Program(t) == IF task[t].prog \in Task \ {Worker} THEN Cases[case][task[t].prog] ELSE <<>>
Statement(t) ==
    IF task[t].pc \in DOMAIN Program(t) THEN Program(t)[task[t].pc] ELSE [op |-> "returned"]

(* What an operation does if it is attempted now: a result, or "wait".     *)
(* RecvClosedFirst is a faulty variant, which the machine never uses.      *)
TrySend(q, s) ==
    CASE s.len # q.size -> "InvalidMessageSize"
      [] q.closed -> "QueueClosed"
      [] Len(q.messages) = q.capacity -> "wait"
      [] OTHER -> "Ok"
RecvClosedFirst(q, s) ==
    CASE s.len # q.size -> "InvalidMessageSize"
      [] q.closed -> "QueueClosed"
      [] q.messages # <<>> -> "Ok"
      [] OTHER -> "wait"
TryRecv(q, s) ==
    CASE s.len # q.size -> "InvalidMessageSize"
      [] q.messages # <<>> -> "Ok"
      [] q.closed -> "QueueClosed"
      [] OTHER -> "wait"
TryAcquire(x) == IF x.count > 0 THEN "Ok" ELSE "wait"
TryLock(m) == IF m.owner = Nobody THEN "Ok" ELSE "wait"
TryJoin(x) == IF x.finished THEN "Ok" ELSE "wait"

Attempt(s) ==
    LET o == obj[s.obj] IN
    CASE s.op = "send" -> TrySend(o, s)
      [] s.op = "recv" -> TryRecv(o, s)
      [] s.op = "acquire" -> TryAcquire(o)
      [] s.op = "lock" -> TryLock(o)
      [] s.op = "join" -> TryJoin(o)

Blocking == {"send", "recv", "acquire", "lock", "join"}

(* What a blocked task waits for, besides its wake-up time.                *)
CanGo(t) ==
    \/ \E s \in {Statement(t)} :
        \/ s.op \in Blocking /\ ~task[t].held /\ Attempt(s) # "wait"
        \/ s.op = "shutdown" /\ service.done
    \/ task[t].prog = Worker /\ service.wake

(* The kernel's choice of the next task.                                   *)
Eligible(t) ==
    \/ task[t].st = "ready"
    \/ task[t].st = "blocked" /\ (now >= task[t].wake \/ CanGo(t))
Yields(u, t) ==
    \/ task[u].prio < task[t].prio
    \/ task[u].prio = task[t].prio /\ (u = t \/ u # running)
Runs(t) ==
    /\ verdict = "running" /\ Eligible(t)
    /\ IF suspended = Nobody THEN \A u \in Task : Eligible(u) => Yields(u, t)
       ELSE t = suspended
-----------------------------------------------------------------------------
(* How a statement ends: the task goes on, waits, or the program fails.    *)
Ready(t, pc) == [task[t] EXCEPT !.st = "ready", !.pc = pc, !.wake = Never,
                                !.since = NotWaiting, !.held = FALSE]
Proceed(t) == task' = [task EXCEPT ![t] = Ready(t, @.pc + 1)] /\ UNCHANGED verdict

FirstTry(t) == task[t].since = NotWaiting
Since(t) == IF FirstTry(t) THEN now ELSE task[t].since
Block(t, wake) ==
    /\ task' = [task EXCEPT ![t].st = "blocked", ![t].wake = wake, ![t].since = Since(t)]
    /\ UNCHANGED verdict

(* A requirement that does not hold ends the case; in a native helper it   *)
(* is recorded as the helper's result, and the helper goes on to its last  *)
(* statements.                                                             *)
Fail(t) ==
    IF task[t].role # "helper" THEN verdict' = "failed" /\ UNCHANGED task
    ELSE /\ task' = [task EXCEPT ![t] =
                        [Ready(t, task[t].last) EXCEPT !.result = -1]]
         /\ UNCHANGED verdict
Require(t, p) == IF p THEN Proceed(t) ELSE Fail(t)

(* Variables; counters start at 0.                                         *)
Value(v) == IF v \in DOMAIN mem THEN mem[v] ELSE 0
Set(v, x) == mem' = (v :> x) @@ mem
Counter(c) == <<"counter", c>>
Counted(events) ==
    [v \in {Counter(c) : c \in Range(events)} |->
        Value(v) + Cardinality({i \in DOMAIN events : events[i] = v[2]})] @@ mem

(* A call returns: its result is what the program requires, or is stored.  *)
(* events are those of the kernel's calls made meanwhile.                  *)
Return(t, r, s, events) ==
    IF s.is = "any"
    THEN Proceed(t) /\ mem' = (<<task[t].prog, "outcome">> :> r) @@ Counted(events)
    ELSE Require(t, r = s.is) /\ mem' = Counted(events)
-----------------------------------------------------------------------------
(* The kernel: idle, ticks.                                                *)
Quiet == verdict = "running" /\ \A t \in Task : ~Eligible(t)
Deleted == {t \in Task : task[t].st = "deleted"}

idle ==
    /\ Quiet /\ Deleted # {}
    /\ task' = [t \in Task |-> IF t \in Deleted THEN [task[t] EXCEPT !.st = "absent"]
                               ELSE task[t]]
    /\ UNCHANGED <<case, heap, mem, clock, running, world, verdict>>

Alarms == {task[t].wake : t \in {u \in Task : task[u].st = "blocked"}} \ {Never}
tick ==
    /\ Quiet /\ Deleted = {} /\ Alarms # {}
    /\ now' = CHOOSE d \in Alarms : \A e \in Alarms : d <= e
    /\ running' = Nobody
    /\ UNCHANGED <<case, task, heap, mem, budget, world, verdict>>

busy_tick ==
    /\ verdict = "running" /\ ~Quiet /\ suspended = Nobody
    /\ budget > 0
    /\ budget' = budget - 1 /\ now' = now + 1
    /\ running' = Nobody
    /\ UNCHANGED <<case, task, heap, mem, world, verdict>>
=============================================================================
