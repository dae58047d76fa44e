---------------------------- MODULE CaseMachine ----------------------------
(***************************************************************************)
(* The machine: the harness's statements and conditions, variables, and    *)
(* all steps.                                                              *)
(***************************************************************************)
EXTENDS CaseTimers

(* The kernel's calls.                                                     *)
spawn(t, s) ==
    /\ s.op = "spawn"
    /\ LET last == Len(Cases[case][s.task]) - 2
           helper == [Started(s.task, "helper", HelperPriority) EXCEPT !.last = last]
       IN task' = [task EXCEPT ![t] = Ready(t, @.pc + 1), ![s.task] = helper]
    /\ UNCHANGED <<case, heap, mem, clock, world, verdict>>

exit(t, s) ==
    /\ s.op = "exit"
    /\ task' = [task EXCEPT ![t] = [Ready(t, @.pc) EXCEPT !.st = "deleted"]]
    /\ UNCHANGED <<case, heap, mem, clock, world, verdict>>

delay(t, s) ==
    /\ s.op = "delay"
    /\ IF FirstTry(t) THEN Block(t, now + s.ticks) ELSE Proceed(t)
    /\ UNCHANGED <<case, heap, mem, clock, world>>

suspend(t, s) ==
    /\ s.op = "suspend"
    /\ suspended' = t
    /\ Proceed(t)
    /\ UNCHANGED <<case, heap, mem, clock, hooks, runtime>>

resume(t, s) ==
    /\ s.op = "resume"
    /\ suspended' = Nobody
    /\ Proceed(t)
    /\ UNCHANGED <<case, heap, mem, clock, hooks, runtime>>

(* TimeoutHookGuard: arming it resets it, and release or drop.             *)
arm(t, s) ==
    /\ s.op = "arm"
    /\ hooks' = [hooks EXCEPT !.armed = s.on, !.at_boundary = @ /\ ~s.on]
    /\ Proceed(t)
    /\ UNCHANGED <<case, heap, mem, clock, suspended, runtime>>

fault(t, s) ==
    /\ \/ s.op = "fault" /\ hooks' = [hooks EXCEPT !.fault = s.on]
       \/ s.op = "fail_create" /\ hooks' = [hooks EXCEPT !.create = s.nth]
    /\ Proceed(t)
    /\ UNCHANGED <<case, heap, mem, clock, suspended, runtime>>
-----------------------------------------------------------------------------
(* CaseState::record_phase: an invalid transition is a result, and ignored *)
(* otherwise.                                                              *)
Recorded(h, p) ==
    IF p = h.phase + 1 THEN [h EXCEPT !.phase = p, !.visited = @ \cup {p}]
    ELSE [h EXCEPT !.result = IF @ = 0 THEN -2 ELSE @]

record_phase(t, s) ==
    /\ s.op = "phase"
    /\ LET u == IF s.of = "self" THEN t ELSE s.of
           on == [task EXCEPT ![t] = Ready(t, @.pc + 1)]
       IN task' = [on EXCEPT ![u] = Recorded(@, s.phase)]
    /\ UNCHANGED <<case, heap, mem, clock, world, verdict>>

(* A loop that polls once a tick.                                          *)
Poll(t, p, d) ==
    CASE p -> Proceed(t)
      [] ~p /\ now - Since(t) >= d -> Fail(t)
      [] OTHER -> Block(t, now + 1)

wait_until_phase(t, s) ==
    /\ s.op = "wait_phase"
    /\ LET h == task[s.task]
       IN IF h.result # 0 THEN Fail(t) ELSE Poll(t, h.phase >= s.phase, s.ticks)
    /\ UNCHANGED <<case, heap, mem, clock, world>>

REQUIRED_HELPER_PHASES == {STARTED, BEFORE_OPERATION, OPERATION_COMPLETED, EXITING}
validate_helper(h) == REQUIRED_HELPER_PHASES \subseteq h.visited /\ h.result = 0

(* heap_free: two snapshots are equal if the same objects, timers and      *)
(* tasks are allocated, and the runtime's service.                         *)
Heap == [objects |-> DOMAIN obj, timers |-> Timers,
         tasks |-> {u \in Task : task[u].st # "absent"}, runtime |-> runtime]

baseline(t, s) ==
    /\ s.op = "baseline"
    /\ Set(<<"heap", s.heap>>, Heap)
    /\ Proceed(t)
    /\ UNCHANGED <<case, heap, clock, world>>
-----------------------------------------------------------------------------
(* Variables.                                                              *)
put(t, s) == s.op = "put" /\ Set(s.var, s.val)
bump(t, s) == s.op = "bump" /\ Set(s.var, Value(s.var) + 1)
keep(t, s) == s.op = "keep" /\ Set(s.to, mem[s.from])
tick_snapshot(t, s) == s.op = "stamp" /\ Set(<<task[t].prog, s.var>>, now)

stamp_nth(t, s) ==
    /\ s.op = "stamp_nth"
    /\ LET n == Value(s.var) + 1
       IN IF n \in DOMAIN s.names THEN Set(<<task[t].prog, s.names[n]>>, now) ELSE UNCHANGED mem
shift(t, s) == s.op = "shift" /\ Set(s.var, 10 * Value(s.var) + s.digit)

(* Task::current, into the program's variable "current".                   *)
Identity(t) == IF task[t].live THEN t ELSE Nobody
identify(t, s) == s.op = "identify" /\ Set(<<task[t].prog, "current">>, Identity(t))

Counters == {"create_attempts", "creates", "groups_created", "groups_deleted", "join_waits",
             "join_returns", "workers", "mutex_attempts", "mutexes_created", "mutexes_deleted",
             "semaphore_attempts", "semaphores_created", "semaphores_deleted"}
mark(t, s) ==
    /\ s.op = "mark"
    /\ mem' = [v \in {<<"mark", c>> : c \in Counters} |-> Value(Counter(v[2]))] @@ mem

assign(t, s) ==
    /\ \/ put(t, s) \/ bump(t, s) \/ shift(t, s) \/ keep(t, s)
       \/ tick_snapshot(t, s) \/ stamp_nth(t, s) \/ identify(t, s) \/ mark(t, s)
    /\ Proceed(t)
    /\ UNCHANGED <<case, heap, clock, world>>

(* Conditions.                                                             *)
Holds(t, c) ==
    CASE c.op = "among" -> /\ \A i \in DOMAIN c.vars : c.vars[i] \in DOMAIN mem
                           /\ [i \in DOMAIN c.vars |-> mem[c.vars[i]]] \in c.values
      [] c.op = "counts" -> Value(c.var) \in c.low .. c.high
      [] c.op = "all" -> \A v \in c.vars : v \in DOMAIN mem /\ mem[v]
      [] c.op = "elapsed" -> mem[c.to] - mem[c.from] >= c.ticks
      [] c.op = "within" -> mem[c.to] - mem[c.from] <= c.ticks
      [] c.op = "query" -> Answer(obj[c.obj], c.what) = c.val
      [] c.op = "validate" -> validate_helper(task[c.task])
      [] c.op = "visited" -> c.phase \in task[c.task].visited
      [] c.op = "exiting" -> Cardinality({h \in c.tasks : task[h].phase >= EXITING}) = c.val
      [] c.op = "at_boundary" -> hooks.at_boundary
      [] c.op = "same_heap" -> Heap = mem[<<"heap", c.heap>>]
      [] c.op = "runtime" -> runtime = c.is
      [] c.op = "objects" -> Cardinality(Leases) = c.val
      [] c.op = "count" -> Cardinality({u \in Task : task[u].live}) = c.val
      [] c.op = "current" -> c.task = Identity(t)
      [] c.op = "gone" -> c.obj \notin DOMAIN obj
      [] c.op = "increased" -> Value(Counter(c.counter)) - mem[<<"mark", c.counter>>] = c.val

check(t, s) ==
    /\ s.op \in Conditions
    /\ Require(t, Holds(t, s))
    /\ UNCHANGED <<case, heap, mem, clock, world>>

await(t, s) ==
    /\ s.op = "await"
    /\ Poll(t, Holds(t, s.for), s.ticks)
    /\ UNCHANGED <<case, heap, mem, clock, world>>

branch(t, s) ==
    /\ s.op = "unless"
    /\ task' = [task EXCEPT ![t] =
                   Ready(t, @.pc + 1 + IF Holds(t, s.if) THEN s.skip ELSE 0)]
    /\ UNCHANGED <<case, heap, mem, clock, world, verdict>>
-----------------------------------------------------------------------------
(* The boot task's program returns.                                        *)
pass(t, s) ==
    /\ t = "main" /\ s.op = "returned"
    /\ verdict' = "passed"
    /\ UNCHANGED <<case, task, heap, mem, clock, world>>

Step(t, s) ==
    \/ new(t, s) \/ clone(t, s) \/ box(t, s) \/ drop(t, s)
    \/ call_refused(t, s) \/ call_succeeds(t, s) \/ call_fails(t, s) \/ call_blocks(t, s)
    \/ call_gives_up(t, s) \/ call_pauses(t, s) \/ call_stays(t, s)
    \/ close(t, s) \/ release(t, s) \/ unlock(t, s) \/ store(t, s) \/ increment(t, s)
    \/ spawn_task(t, s) \/ enter(t, s) \/ leave(t, s) \/ publish(t, s)
    \/ new_timer(t, s) \/ ensure_worker(t, s) \/ start(t, s) \/ stop(t, s) \/ change_period(t, s)
    \/ initialize(t, s) \/ shutdown(t, s)
    \/ spawn(t, s) \/ exit(t, s) \/ delay(t, s) \/ suspend(t, s) \/ resume(t, s)
    \/ arm(t, s) \/ fault(t, s)
    \/ record_phase(t, s) \/ wait_until_phase(t, s) \/ baseline(t, s)
    \/ assign(t, s) \/ check(t, s) \/ await(t, s) \/ branch(t, s) \/ pass(t, s)

Next ==
    \/ \E t \in Task :
        /\ Runs(t) /\ running' = t
        /\ \E s \in {Statement(t)} : Step(t, s) \/ (t = Worker /\ timer_worker(s))
    \/ idle \/ tick \/ busy_tick

Spec == Init /\ [][Next]_vars /\ WF_vars(Next)
-----------------------------------------------------------------------------
(* No schedule makes an assertion of a case fail.                          *)
CasesPass == verdict # "failed"

(* Every case comes to its end.                                            *)
CasesFinish == <>(verdict # "running")
=============================================================================
