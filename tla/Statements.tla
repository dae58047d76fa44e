----------------------------- MODULE Statements -----------------------------
(***************************************************************************)
(* The statements that the programs in this repository which use the OSAL  *)
(* are made of, as data: the cases of the FreeRTOS integration firmware    *)
(* and the demo.  CaseMachine executes them.                               *)
(*                                                                         *)
(* A case has a program for the boot task, "main", one for each task it    *)
(* spawns and one for the callback of each of its timers, by name.  A      *)
(* statement that calls the OSAL says which result the program requires;   *)
(* the result "any" is stored in the program's variable "outcome" instead. *)
(* A variable is a pair of the program it belongs to and its name.  Time   *)
(* is in ticks, which are milliseconds (configTICK_RATE_HZ is 1000).       *)
(***************************************************************************)
EXTENDS Integers, SequencesExt

NoWait == -1
After(d) == d
Forever == 100000

Timed(wait) == wait > 0

(* The phases of a helper task, CaseState in harness.rs.                   *)
CREATED == 0
STARTED == 1
BEFORE_OPERATION == 2
OPERATION_COMPLETED == 3
EXITING == 4
DONE == 5

MAX_PRIORITIES == 8
MaxStack == 1000000
BootPriority == MAX_PRIORITIES - 1
HelperPriority == 2
-----------------------------------------------------------------------------
(* Objects.  A box is memory that owns handles.                            *)
Queue(capacity, size) ==
    [kind |-> "queue", capacity |-> capacity, size |-> size,
     messages |-> <<>>, closed |-> FALSE, refs |-> 1]
Counting(max, initial) ==
    [kind |-> "semaphore", max |-> max, count |-> initial, refs |-> 1]
Binary == Counting(1, 0)
Mutex(value) == [kind |-> "mutex", owner |-> "nobody", value |-> value, refs |-> 1]

New(o, object, r) == [op |-> "new", obj |-> o, object |-> object, is |-> r]
Box(b, handles) == [op |-> "box", obj |-> b, owns |-> handles]
Clone(o) == [op |-> "clone", obj |-> o]
Drop(o) == [op |-> "drop", obj |-> o]

Send(q, m, w, r) == [op |-> "send", obj |-> q, msg |-> m, len |-> 4, wait |-> w, is |-> r]
Recv(q, w, r) == [op |-> "recv", obj |-> q, len |-> 4, wait |-> w, is |-> r]
Sized(statement, n) == [statement EXCEPT !.len = n]
Close(q) == [op |-> "close", obj |-> q]
Acquire(s, w, r) == [op |-> "acquire", obj |-> s, wait |-> w, is |-> r]
Release(s, r) == [op |-> "release", obj |-> s, is |-> r]
Lock(m, w, r) == [op |-> "lock", obj |-> m, wait |-> w, is |-> r]
Unlock(m) == [op |-> "unlock", obj |-> m]
Store(m, v) == [op |-> "store", obj |-> m, val |-> v]
Increment(m) == [op |-> "increment", obj |-> m]

(* Tasks of the OSAL: the builder's settings, the handles that the entry   *)
(* closure takes with it; and join.                                        *)
Builder == [name |-> "valid", stack |-> 4096, priority |-> 1]
SpawnTask(t, builder, handles, r) ==
    [op |-> "spawn_task", obj |-> t, builder |-> builder, owns |-> handles, is |-> r]
Join(t, w, r) == [op |-> "join", obj |-> t, wait |-> w, is |-> r]

(* Timers, whose callback has the timer's name.                            *)
NewTimer(o, period, mode, handles, r) ==
    [op |-> "new_timer", obj |-> o, period |-> period, mode |-> mode, owns |-> handles, is |-> r]
Start(o, r) == [op |-> "start", obj |-> o, is |-> r]
Stop(o, r) == [op |-> "stop", obj |-> o, is |-> r]
ChangePeriod(o, d, r) == [op |-> "change_period", obj |-> o, period |-> d, is |-> r]
Reset(o, r) == [op |-> "start", obj |-> o, is |-> r]
-----------------------------------------------------------------------------
(* The kernel and the runtime.                                             *)
Spawn(t) == [op |-> "spawn", task |-> t]
Exit == [op |-> "exit"]
Delay(d) == [op |-> "delay", ticks |-> d]
Suspend == [op |-> "suspend"]
Resume == [op |-> "resume"]
Initialize(r) == [op |-> "initialize", is |-> r]
Shutdown(r) == [op |-> "shutdown", is |-> r]

(* The trampoline of a task of the OSAL, around its entry.                 *)
Enter == [op |-> "enter"]
Leave == [op |-> "leave"]
Publish(t) == [op |-> "publish", obj |-> t]
task_trampoline(t, entry) == <<Enter>> \o entry \o <<Leave, Publish(t), Drop(t), Exit>>

(* The test hooks of the backend and the kernel: the queue's timeout gate, *)
(* the failure of the next allocations, and of the nth native mutex or     *)
(* semaphore that a constructor creates (0: of none).                      *)
Arm == [op |-> "arm", on |-> TRUE]
Disarm == [op |-> "arm", on |-> FALSE]
FailAllocation(on) == [op |-> "fault", on |-> on]
FailCreate(n) == [op |-> "fail_create", nth |-> n]

(* Variables, the clock, and counters of the kernel.                       *)
Put(v, x) == [op |-> "put", var |-> v, val |-> x]
Bump(v) == [op |-> "bump", var |-> v]
Keep(v, w) == [op |-> "keep", from |-> v, to |-> w]
Stamp(v) == [op |-> "stamp", var |-> v]
StampNth(v, names) == [op |-> "stamp_nth", var |-> v, names |-> names]
Shift(v, digit) == [op |-> "shift", var |-> v, digit |-> digit]
Baseline(h) == [op |-> "baseline", heap |-> h]
Mark == [op |-> "mark"]
Identify == [op |-> "identify"]

Phase(p) == [op |-> "phase", of |-> "self", phase |-> p]
PhaseOf(t, p) == [op |-> "phase", of |-> t, phase |-> p]
WaitPhase(t, p) == [op |-> "wait_phase", task |-> t, phase |-> p, ticks |-> 100]
-----------------------------------------------------------------------------
(* Conditions.  As a statement, a condition is an assertion; Await polls   *)
(* for it, and Unless skips the next n statements if it holds.             *)
Among(vs, values) == [op |-> "among", vars |-> vs, values |-> values]
Is(v, x) == Among(<<v>>, {<<x>>})
Counts(v, n) == [op |-> "counts", var |-> v, low |-> n, high |-> n]
AtLeast(v, n) == [op |-> "counts", var |-> v, low |-> n, high |-> 1000]
All(vs) == [op |-> "all", vars |-> vs]
Elapsed(v, w, d) == [op |-> "elapsed", from |-> v, to |-> w, ticks |-> d]
Within(v, w, d) == [op |-> "within", from |-> v, to |-> w, ticks |-> d]
Query(o, what, v) == [op |-> "query", obj |-> o, what |-> what, val |-> v]
Validate(t) == [op |-> "validate", task |-> t]
Visited(t, p) == [op |-> "visited", task |-> t, phase |-> p]
Exiting(ts, n) == [op |-> "exiting", tasks |-> ts, val |-> n]
AtBoundary == [op |-> "at_boundary"]
SameHeap(h) == [op |-> "same_heap", heap |-> h]
RuntimeIs(s) == [op |-> "runtime", is |-> s]
Objects(n) == [op |-> "objects", val |-> n]
Count(n) == [op |-> "count", val |-> n]
Current(t) == [op |-> "current", task |-> t]
Gone(o) == [op |-> "gone", obj |-> o]
Increased(counter, n) == [op |-> "increased", counter |-> counter, val |-> n]

Conditions == {"among", "counts", "all", "elapsed", "within", "query", "validate", "visited",
               "exiting", "at_boundary", "same_heap", "runtime", "objects", "count", "current",
               "gone", "increased"}

Await(c, d) == [op |-> "await", for |-> c, ticks |-> d]
Unless(c, n) == [op |-> "unless", if |-> c, skip |-> n]
HeapRecovered(h, d) == Await(SameHeap(h), d)
-----------------------------------------------------------------------------
Each(F(_), ts) == [i \in DOMAIN ts |-> F(ts[i])]

Outcome(t, r) == Is(<<t, "outcome">>, r)
Word(t, m) == Is(<<t, "word">>, m)
RecvIs(q, w, m) == <<Recv(q, w, "Ok"), Word("main", m)>>

(* A statement of the boot task that must take at least d ticks.           *)
Lasting(d, statement) ==
    <<Stamp("start"), statement, Stamp("end"), Elapsed(<<"main", "start">>, <<"main", "end">>, d)>>

(* The life of a native helper: harness phases around its operation.       *)
Helper(operation) ==
    <<Phase(STARTED), Phase(BEFORE_OPERATION)>> \o operation
        \o <<Phase(OPERATION_COMPLETED), Phase(EXITING), Exit>>

(* The controller's side: the contexts of some helpers are boxed and the   *)
(* helpers spawned; they reach their operation; they exit, are validated,  *)
(* and the kernel gives their memory back.                                 *)
Contexts(o, ts) == Each(LAMBDA t : Box(t, {o}), ts) \o <<Baseline("task")>>
Spawned(o, ts) == Contexts(o, ts) \o Each(Spawn, ts)
AtOperation(ts) == Each(LAMBDA t : WaitPhase(t, BEFORE_OPERATION), ts) \o <<Delay(2)>>
Exited(ts) == Each(LAMBDA t : WaitPhase(t, EXITING), ts)
Validated(ts) == Each(Validate, ts)
Reclaimed(ts) == <<HeapRecovered("task", 100)>> \o Each(Drop, ts)

Both == <<"a", "b">>
Three == <<"a", "b", "c">>
OneOfTwo == <<Delay(2), Exiting({"a", "b"}, 1)>>

(* One helper blocks on o until the controller's trigger; its stamp        *)
(* "completed" is not before the trigger.                                  *)
Woken(o, trigger) ==
    Spawned(o, <<"a">>) \o AtOperation(<<"a">>) \o <<Stamp("trigger"), trigger>>
        \o Exited(<<"a">>) \o Validated(<<"a">>) \o Reclaimed(<<"a">>)
        \o <<Elapsed(<<"main", "trigger">>, <<"a", "completed">>, 0)>>

(* The last handle of o is what keeps the runtime from shutting down.      *)
RuntimeLease(o) ==
    <<Baseline("busy"), Shutdown("Busy"), RuntimeIs("Running"), SameHeap("busy"), Drop(o),
      Shutdown("Ok"), RuntimeIs("Uninitialized"), SameHeap("suite"), Initialize("Ok")>>

(* Waits on an object that is not available, with the scheduler suspended. *)
RefusedWaits(F(_, _), r) ==
    <<F(NoWait, r), F(After(0), "Timeout"), F(After(1), "Busy"), F(Forever, "Busy")>>

(* Bounds on the repetitions of the stress cases: Rounds stands for 32 or  *)
(* 16, Waves for 8 or 4.                                                   *)
Rounds == 2
Waves == 2

Only(program) == [main |-> program]
=============================================================================
