----------------------------- MODULE MixedCases -----------------------------
(***************************************************************************)
(* The mixed cases of the FreeRTOS integration firmware, mixed.rs: objects *)
(* of all kinds together, failures of native creations and of memory.  The *)
(* hook that counts failed allocations is left out, and the payload of a   *)
(* pipeline does not vary with the round.                                  *)
(***************************************************************************)
EXTENDS Statements, TLC

Builder2 == [Builder EXCEPT !.priority = 2]
Recovered(h) == HeapRecovered(h, 50)
Tells(t, name) == Put(<<t, name>>, TRUE)
Told(t, name) == All({<<t, name>>})

(* The deltas of SyncDiag, by kind: attempts, successes, deletes.          *)
SyncDiag(mutex, semaphore) ==
    <<Increased("mutex_attempts", mutex[1]), Increased("mutexes_created", mutex[2]),
      Increased("mutexes_deleted", mutex[3]), Increased("semaphore_attempts", semaphore[1]),
      Increased("semaphores_created", semaphore[2]), Increased("semaphores_deleted", semaphore[3])>>

(* The nth native creation fails: nothing is left, and the next one works. *)
RollsBack(object, nth, mutex, semaphore) ==
    <<FailCreate(nth), Baseline("heap"), Mark, New("x", object, "OutOfMemory")>>
    \o SyncDiag(mutex, semaphore)
    \o <<Objects(0), Recovered("heap"), FailCreate(0),
         Baseline("heap"), New("x", object, "Ok"), Drop("x"), Recovered("heap")>>

mixed_native_create_rollback ==
    LET none == <<0, 0, 0>>
        failed == <<1, 0, 0>>
        undone == <<1, 1, 1>>
    IN RollsBack(Mutex(0), 1, failed, none)
       \o RollsBack(Counting(1, 0), 1, none, failed)
       \o RollsBack(Binary, 1, none, failed)
       \o RollsBack(Queue(1, 4), 1, failed, none)
       \o RollsBack(Queue(1, 4), 2, undone, failed)
       \o RollsBack(Queue(1, 4), 3, undone, <<2, 1, 1>>)

(* A pressure block takes the memory that a task or a mutex needs.         *)
UnderPressure(statements) ==
    <<Box("pressure", {}), Baseline("pressured"), FailAllocation(TRUE)>> \o statements
    \o <<Objects(0), Count(0), Recovered("pressured"), FailAllocation(FALSE), Drop("pressure"),
         HeapRecovered("heap", 100)>>
Uses(object, statements) ==
    <<New("x", object, "Ok")>> \o statements \o <<Drop("x"), Recovered("heap")>>

mixed_resource_pressure_recovery ==
    <<Baseline("heap"), Mark>>
    \o UnderPressure(<<SpawnTask("probe", Builder2, {}, "OutOfMemory"),
                       Increased("create_attempts", 1), Increased("creates", 0)>>)
    \o <<SpawnTask("probe", Builder2, {}, "Ok"), Join("probe", After(100), "Ok"), Drop("probe"),
         Recovered("heap")>>
    \o Uses(Mutex(0), <<>>)
    \o UnderPressure(<<New("x", Mutex(0), "OutOfMemory")>>)
    \o Uses(Mutex(0), <<>>)
    \o Uses(Mutex(0), <<Lock("x", After(100), "Ok"), Unlock("x")>>)
    \o Uses(Binary, <<Release("x", "Ok"), Acquire("x", After(100), "Ok")>>)
    \o Uses(Counting(1, 0), <<Release("x", "Ok"), Acquire("x", After(100), "Ok")>>)
    \o Uses(Queue(1, 4), <<Send("x", "M0", NoWait, "Ok")>> \o RecvIs("x", NoWait, "M0"))
    \o <<Objects(0), Count(0)>>
-----------------------------------------------------------------------------
(* PipelineBundle.  The timer releases the binary semaphore, task a sends  *)
(* the payload, task b receives it, increments the mutex's counter and     *)
(* releases the counting semaphore.  p names the objects of a pipeline.    *)
Pipeline1 == [mtx |-> "mtx", binary |-> "binary", counting |-> "counting", q |-> "q",
              a |-> "a", b |-> "b", timer |-> "timer", payload |-> "M0"]
Pipeline2 == [mtx |-> "mtx2", binary |-> "binary2", counting |-> "counting2", q |-> "q2",
              a |-> "a2", b |-> "b2", timer |-> "timer2", payload |-> "M1"]

task_b(p) ==
    <<Tells(p.b, "started"), Recv(p.q, After(100), "Ok"), Lock(p.mtx, After(100), "Ok"),
      Increment(p.mtx), Query(p.mtx, "value", 1), Unlock(p.mtx), Release(p.counting, "Ok"),
      Tells(p.b, "done"), Drop(p.q), Drop(p.mtx), Drop(p.counting)>>
task_a(p) ==
    <<Tells(p.a, "started"), Acquire(p.binary, After(100), "Ok"),
      Send(p.q, p.payload, After(100), "Ok"), Tells(p.a, "done"), Drop(p.binary), Drop(p.q)>>
timer_callback(p) == <<Release(p.binary, "Ok"), Bump(<<p.timer, "fired">>)>>

construct(p) ==
    <<Put(<<p.a, "started">>, FALSE), Put(<<p.a, "done">>, FALSE),
      Put(<<p.b, "started">>, FALSE), Put(<<p.b, "done">>, FALSE), Put(<<p.timer, "fired">>, 0),
      New(p.mtx, Mutex(0), "Ok"), New(p.binary, Binary, "Ok"),
      New(p.counting, Counting(1, 0), "Ok"), New(p.q, Queue(1, 4), "Ok"),
      Clone(p.q), Clone(p.mtx), Clone(p.counting),
      SpawnTask(p.b, Builder2, {p.q, p.mtx, p.counting}, "Ok"),
      Clone(p.binary), Clone(p.q), SpawnTask(p.a, Builder2, {p.binary, p.q}, "Ok"),
      Clone(p.binary), NewTimer(p.timer, 5, "OneShot", {p.binary}, "Ok")>>
wait_started(p) == <<Await(Told(p.a, "started"), 80), Await(Told(p.b, "started"), 80)>>
start_timer(p) == <<Start(p.timer, "Ok")>>
wait_complete(p) ==
    <<Acquire(p.counting, After(200), "Ok"), Join(p.a, After(100), "Ok"),
      Join(p.b, After(100), "Ok"), Counts(<<p.timer, "fired">>, 1), Told(p.a, "done"),
      Told(p.b, "done"), Word(p.b, p.payload), Query(p.q, "len", 0)>>
BundleDrop(p) ==
    Each(Drop, <<p.mtx, p.binary, p.counting, p.q, p.a, p.b, p.timer>>)

run_pipeline_once(p) ==
    construct(p) \o wait_started(p) \o start_timer(p) \o wait_complete(p) \o BundleDrop(p)

mixed_object_pipeline == <<Count(0)>> \o run_pipeline_once(Pipeline1) \o <<Count(0)>>

warm_up ==
    <<NewTimer("warm", 2, "OneShot", {}, "Ok"), Start("warm", "Ok"),
      Await(Told("warm", "fired"), 50), Drop("warm")>>
mixed_lifecycle_stress ==
    LET settled == <<Await(Count(0), 100), Await(Objects(0), 100), HeapRecovered("worker", 100)>>
        Two(F(_)) == F(Pipeline1) \o F(Pipeline2)
        wave == Two(construct) \o Two(wait_started) \o Two(start_timer) \o Two(wait_complete)
                \o Two(BundleDrop)
    IN warm_up \o <<Objects(0), Count(0), Baseline("worker"), Mark>>
       \o FlattenSeq([i \in 1..Rounds |-> run_pipeline_once(Pipeline1) \o settled])
       \o FlattenSeq([i \in 1..Waves |-> wave \o settled])
       \o <<Increased("workers", 0)>>
-----------------------------------------------------------------------------
expect_shutdown_busy_atomic(n) ==
    <<Baseline("busy"), Shutdown("Busy"), RuntimeIs("Running"), Objects(n), Recovered("busy")>>

(* Six objects lease the runtime; each drop gives one lease back, and the  *)
(* finished task's handle is the last.                                     *)
mixed_shutdown_accounting ==
    <<RuntimeIs("Running"), Objects(0), Count(0), Put(<<"main", "gate">>, FALSE),
      New("mtx", Mutex(0), "Ok"), Objects(1), New("binary", Binary, "Ok"), Objects(2),
      New("counting", Counting(1, 0), "Ok"), Objects(3), New("q", Queue(1, 4), "Ok"), Objects(4),
      SpawnTask("gated", Builder2, {}, "Ok"), Objects(5),
      NewTimer("shut", 2, "OneShot", {}, "Ok"), Objects(6)>>
    \o expect_shutdown_busy_atomic(6)
    \o <<Lock("mtx", After(50), "Ok"), Release("binary", "Ok"), Acquire("binary", After(50), "Ok"),
         Release("counting", "Ok"), Acquire("counting", After(50), "Ok"),
         Send("q", "M0", NoWait, "Ok")>> \o RecvIs("q", NoWait, "M0")
    \o <<Start("shut", "Ok"), Await(AtLeast(<<"shut", "fired">>, 1), 50),
         Await(Told("gated", "started"), 50), Await(Count(1), 50), Unlock("mtx")>>
    \o <<Drop("mtx")>> \o expect_shutdown_busy_atomic(5)
    \o <<Drop("binary")>> \o expect_shutdown_busy_atomic(4)
    \o <<Drop("counting")>> \o expect_shutdown_busy_atomic(3)
    \o <<Drop("q")>> \o expect_shutdown_busy_atomic(2)
    \o <<Drop("shut")>> \o expect_shutdown_busy_atomic(1)
    \o <<Tells("main", "gate"), Join("gated", After(100), "Ok"), Await(Count(0), 50)>>
    \o expect_shutdown_busy_atomic(1)
    \o <<Drop("gated"), Await(Objects(0), 50), Shutdown("Ok"), RuntimeIs("Uninitialized"),
         HeapRecovered("suite", 200), Initialize("Ok"), RuntimeIs("Running"), Objects(0), Count(0),
         Baseline("heap")>>
    \o Uses(Mutex(42), <<Lock("x", After(50), "Ok"), Unlock("x")>>)
    \o <<Await(Objects(0), 50)>>

(* The tasks of the pipeline may still be leaving when the next case       *)
(* begins, with its warm-up.                                               *)
run_mixed_cases ==
    LET Tasks(p) == (p.a :> task_trampoline(p.a, task_a(p)))
                    @@ (p.b :> task_trampoline(p.b, task_b(p)))
                    @@ (p.timer :> timer_callback(p))
        warmed == <<Tells("warm", "fired")>>
        gated_entry == <<Tells("gated", "started"), Await(Told("main", "gate"), Forever)>>
    IN [mixed_native_create_rollback |-> Only(mixed_native_create_rollback),
        mixed_resource_pressure_recovery |->
            [main |-> mixed_resource_pressure_recovery, probe |-> task_trampoline("probe", <<>>)],
        mixed_object_pipeline |->
            [main |-> mixed_object_pipeline \o warm_up, warm |-> warmed] @@ Tasks(Pipeline1),
        mixed_lifecycle_stress |->
            [main |-> mixed_lifecycle_stress, warm |-> warmed]
            @@ Tasks(Pipeline1) @@ Tasks(Pipeline2),
        mixed_shutdown_accounting |->
            [main |-> mixed_shutdown_accounting, shut |-> <<Bump(<<"shut", "fired">>)>>,
             gated |-> task_trampoline("gated", gated_entry)]]
=============================================================================
