------------------------------ MODULE TaskCases ------------------------------
(***************************************************************************)
(* The task cases of the FreeRTOS integration firmware, task_contracts.rs. *)
(* Names and stack depths of native tasks, and the memory of the cases'    *)
(* own counters, are left out.                                             *)
(***************************************************************************)
EXTENDS Statements

WAIT_DEADLINE_TICKS == 5000
HEAP_RECOVERY_TICKS == 500

(* TaskCaseState: what a task tells the controller, and its gate.          *)
StartFlag(t) == <<t, "started">>
Gate(t) == <<t, "gate">>
Entries(t) == <<t, "entries">>
Fresh(t) == <<Put(StartFlag(t), FALSE), Put(Gate(t), FALSE), Put(Entries(t), 0)>>

wait_gate(t) == Await(All({Gate(t)}), Forever)
GateRelease(ts) == Each(LAMBDA t : Put(Gate(t), TRUE), ts)
wait_all_started(ts) == Await(All({StartFlag(ts[i]) : i \in DOMAIN ts}), WAIT_DEADLINE_TICKS)
wait_count(n) == Await(Count(n), WAIT_DEADLINE_TICKS)

(* Entries of tasks.                                                       *)
Empty(t) == task_trampoline(t, <<>>)
Once(t) == task_trampoline(t, <<Bump(Entries(t))>>)
Gated(t) == task_trampoline(t, <<Put(StartFlag(t), TRUE), wait_gate(t)>>)
GatedOnce(t) == task_trampoline(t, <<Put(StartFlag(t), TRUE), wait_gate(t), Bump(Entries(t))>>)

Spawns(ts) == Each(LAMBDA t : SpawnTask(t, Builder, {}, "Ok"), ts)
Joins(ts, w, r) == Each(LAMBDA t : Join(t, w, r), ts)
Drops(ts, h) == Each(Drop, ts) \o <<HeapRecovered(h, HEAP_RECOVERY_TICKS)>>
spawn_join_drop(t, builder) ==
    <<Baseline("sub"), SpawnTask(t, builder, {}, "Ok"), Join(t, Forever, "Ok")>>
        \o Drops(<<t>>, "sub")

(* A builder that is rejected leaves no trace.                             *)
NoTrace == <<Increased("create_attempts", 0), Increased("creates", 0),
             Increased("groups_created", 0), Increased("groups_deleted", 0)>>
Rejected(builder, r) ==
    <<Baseline("sub"), Mark, SpawnTask("a", builder, {}, r)>> \o NoTrace
        \o <<SameHeap("sub"), Count(0)>>
Huge == [Builder EXCEPT !.stack = 2 * MaxStack]

Alone(program) == <<Baseline("global")>> \o program \o <<SameHeap("global")>>
-----------------------------------------------------------------------------
(* The task's closure owns a probe, gone with it after the rollback.       *)
task_spawn_rollback ==
    [main |-> Alone(
        Rejected(Huge, "Overflow")
        \o <<Baseline("sub"), Mark, Box("probe", {}), FailAllocation(TRUE),
             SpawnTask("a", Builder, {"probe"}, "OutOfMemory"), FailAllocation(FALSE),
             Gone("probe"), Increased("create_attempts", 1), Increased("creates", 0),
             Increased("groups_created", 1), Increased("groups_deleted", 1),
             SameHeap("sub"), Count(0)>>
        \o spawn_join_drop("a", Builder)),
     a |-> Empty("a")]

task_builder_core ==
    [main |-> Alone(
        <<Baseline("sub"), SpawnTask("a", Builder, {}, "Ok"), Join("a", Forever, "Ok"),
          Counts(Entries("a"), 1), Is(<<"a", "current">>, "a")>>
        \o Drops(<<"a">>, "sub")
        \o spawn_join_drop("b", Builder) \o spawn_join_drop("b", Builder)
        \o Rejected([Builder EXCEPT !.name = "embedded NUL"], "InvalidParameter")
        \o Rejected([Builder EXCEPT !.name = "32 bytes"], "InvalidParameter")
        \o Rejected([Builder EXCEPT !.stack = 0], "InvalidParameter")) \o <<Count(0)>>,
     a |-> task_trampoline("a", <<Put(StartFlag("a"), TRUE), Bump(Entries("a")), Identify>>),
     b |-> Empty("b")]

task_entry_once ==
    [main |-> Alone(
        <<Baseline("sub"), SpawnTask("a", Builder, {}, "Ok"), Join("a", Forever, "Ok"),
          Counts(Entries("a"), 1), Join("a", NoWait, "Ok"), Join("a", NoWait, "Ok"),
          Join("a", NoWait, "Ok"), Join("a", Forever, "Ok"), Counts(Entries("a"), 1)>>
        \o Drops(<<"a">>, "sub")),
     a |-> Once("a")]

Identified(t) == task_trampoline(t, <<Put(StartFlag(t), TRUE), Identify, wait_gate(t)>>)
task_handle_unique ==
    [main |-> Alone(
        <<Baseline("sub")>> \o Spawns(Three) \o <<wait_all_started(Three)>>
        \o Each(LAMBDA t : Is(<<t, "current">>, t), Three) \o GateRelease(Three)
        \o Joins(Three, Forever, "Ok") \o Drops(Three, "sub")),
     a |-> Identified("a"), b |-> Identified("b"), c |-> Identified("c")]

task_stack_mapping ==
    [main |-> Alone(
        <<Baseline("sub"), SpawnTask("a", [Builder EXCEPT !.stack = 4097], {}, "Ok"),
          Counts(<<"counter", "words">>, 1025), Join("a", Forever, "Ok")>>
        \o Drops(<<"a">>, "sub") \o Rejected(Huge, "Overflow")),
     a |-> Empty("a")]

task_priority_mapping ==
    LET top == 1000 IN
    [main |-> Alone(
        <<Baseline("sub"), SpawnTask("a", [Builder EXCEPT !.priority = top], {}, "Ok"),
          Query("a", "priority", top), Join("a", Forever, "Ok"), Counts(<<"a", "native">>, 7),
          Counts(Entries("a"), 1)>>
        \o Drops(<<"a">>, "sub")),
     a |-> task_trampoline("a", <<Keep(<<"counter", "priority">>, <<"a", "native">>),
                                  Bump(Entries("a"))>>)]

task_current_identity ==
    [main |-> Alone(
        <<Current("nobody"), Baseline("sub"), SpawnTask("a", Builder, {}, "Ok"),
          Join("a", Forever, "Ok"), Is(<<"a", "current">>, "a"), Current("nobody")>>
        \o Drops(<<"a">>, "sub")),
     a |-> task_trampoline("a", <<Identify, Bump(Entries("a"))>>)]

(* osal_test_record_non_osal_identity, from a native helper.               *)
task_non_osal_context ==
    [main |-> <<Baseline("sub"), Spawn("a"), WaitPhase("a", EXITING),
                HeapRecovered("sub", HEAP_RECOVERY_TICKS), PhaseOf("a", DONE), Validate("a"),
                Is(<<"a", "current">>, "nobody")>>,
     a |-> Helper(<<Identify, Count(0)>>)]

task_live_count ==
    [main |-> Alone(
        <<Baseline("sub")>> \o Spawns(Three) \o <<wait_all_started(Three), Count(3)>>
        \o GateRelease(<<"a">>) \o <<Join("a", Forever, "Ok"), Count(2)>>
        \o GateRelease(<<"b", "c">>) \o Joins(<<"b", "c">>, Forever, "Ok") \o <<Count(0)>>
        \o Drops(Three, "sub")),
     a |-> Gated("a"), b |-> Gated("b"), c |-> Gated("c")]
-----------------------------------------------------------------------------
(* Joins of a task that waits at its gate, and then of the finished task.  *)
Running(entry, joins, after) ==
    [main |-> Alone(
        <<Baseline("sub")>> \o Spawns(<<"a">>) \o <<wait_all_started(<<"a">>)>> \o joins
        \o GateRelease(<<"a">>) \o <<Join("a", Forever, "Ok")>> \o after
        \o Drops(<<"a">>, "sub")),
     a |-> entry]

task_join_nowait_zero ==
    Running(Gated("a"), <<Join("a", NoWait, "Timeout"), Join("a", After(0), "Timeout")>>, <<>>)

task_join_finite_timeout ==
    Running(GatedOnce("a"),
            Lasting(5, Join("a", After(5), "Timeout")) \o <<Counts(Entries("a"), 0)>>,
            <<Counts(Entries("a"), 1)>>)

task_join_forever_cached ==
    [main |-> <<Baseline("global"), SpawnTask("a", Builder, {}, "Ok")>>
              \o Lasting(2, Join("a", Forever, "Ok"))
              \o <<Join("a", NoWait, "Ok"), Join("a", NoWait, "Ok"), Join("a", NoWait, "Ok"),
                   Join("a", After(0), "Ok"), Join("a", Forever, "Ok")>>
              \o Drops(<<"a">>, "global"),
     a |-> task_trampoline("a", <<Delay(2)>>)]

(* The controller publishes a clone in a slot, from which the task takes   *)
(* it.                                                                     *)
task_self_join ==
    [main |-> Alone(
        <<Baseline("sub"), SpawnTask("a", Builder, {}, "Ok"), Clone("a"),
          Put(<<"main", "ready">>, TRUE), wait_all_started(<<"a">>), Join("a", Forever, "Ok")>>
        \o Drops(<<"a">>, "sub")),
     a |-> task_trampoline("a",
        <<Put(StartFlag("a"), TRUE), Await(All({<<"main", "ready">>}), WAIT_DEADLINE_TICKS),
          Join("a", NoWait, "Busy"), Join("a", After(5), "Busy"), Join("a", Forever, "Busy"),
          Bump(Entries("a")), Drop("a")>>)]

Joiner(t) ==
    task_trampoline(t, <<Put(StartFlag(t), TRUE), Join("target", Forever, "Ok"), Drop("target")>>)
task_concurrent_joiners ==
    [main |->
        <<Baseline("global"), SpawnTask("target", Builder, {}, "Ok"), Clone("target"),
          Clone("target"), Clone("target"), Mark>>
        \o Each(LAMBDA t : SpawnTask(t, Builder, {"target"}, "Ok"), Three)
        \o <<wait_all_started(Three), Increased("join_waits", 3), Increased("join_returns", 0)>>
        \o GateRelease(<<"target">>) \o Joins(Three, Forever, "Ok")
        \o <<Join("target", NoWait, "Ok"), Counts(Entries("target"), 1)>>
        \o Drops(Three \o <<"target">>, "global"),
     target |-> GatedOnce("target"),
     a |-> Joiner("a"), b |-> Joiner("b"), c |-> Joiner("c")]

task_late_join_cached ==
    [main |-> <<Baseline("global"), SpawnTask("a", Builder, {}, "Ok"), Join("a", Forever, "Ok"),
                Suspend, Join("a", NoWait, "Ok"), Join("a", After(0), "Ok"),
                Join("a", Forever, "Ok"), Resume>>
              \o Drops(<<"a">>, "global"),
     a |-> Empty("a")]

task_scheduler_suspended ==
    Running(Gated("a"),
            <<Suspend, Join("a", NoWait, "Timeout"), Join("a", After(0), "Timeout"),
              Join("a", After(5), "Busy"), Join("a", Forever, "Busy"), Resume>>, <<>>)
-----------------------------------------------------------------------------
(* The runtime is leased by tasks and by handles of finished tasks.        *)
task_drop_without_join ==
    [main |-> <<Baseline("global")>> \o Spawns(<<"a">>)
              \o <<wait_all_started(<<"a">>), Drop("a"), Shutdown("Busy"), RuntimeIs("Running")>>
              \o GateRelease(<<"a">>)
              \o <<wait_count(0), HeapRecovered("global", HEAP_RECOVERY_TICKS), Shutdown("Ok"),
                   Initialize("Ok")>>,
     a |-> GatedOnce("a")]

task_finished_handle_lease ==
    [main |-> <<Baseline("global"), SpawnTask("a", Builder, {}, "Ok"), Join("a", Forever, "Ok"),
                Count(0), Shutdown("Busy"), RuntimeIs("Running")>>
              \o Drops(<<"a">>, "global") \o <<Shutdown("Ok"), Initialize("Ok")>>,
     a |-> Empty("a")]

task_lifecycle_stress ==
    LET round ==
            Fresh("d")
            \o <<Baseline("sub"), SpawnTask("d", Builder, {}, "Ok"), Join("d", Forever, "Ok"),
                 Counts(Entries("d"), 1), Join("d", NoWait, "Ok"), Join("d", After(0), "Ok")>>
            \o Drops(<<"d">>, "sub")
        wave ==
            FlattenSeq(Each(Fresh, Three)) \o <<Baseline("sub")>> \o Spawns(Three)
            \o <<wait_all_started(Three), Count(3)>> \o GateRelease(Three)
            \o Joins(Three, Forever, "Ok") \o Each(LAMBDA t : Counts(Entries(t), 1), Three)
            \o Drops(Three, "sub") \o <<Count(0)>>
    IN [main |-> Alone(FlattenSeq([i \in 1..Rounds |-> round])
                       \o FlattenSeq([i \in 1..Waves |-> wave])),
        a |-> GatedOnce("a"), b |-> GatedOnce("b"), c |-> GatedOnce("c"), d |-> Once("d")]

run_task_cases ==
    [task_spawn_rollback |-> task_spawn_rollback, task_builder_core |-> task_builder_core,
     task_entry_once |-> task_entry_once, task_handle_unique |-> task_handle_unique,
     task_stack_mapping |-> task_stack_mapping,
     task_priority_mapping |-> task_priority_mapping,
     task_current_identity |-> task_current_identity,
     task_non_osal_context |-> task_non_osal_context, task_live_count |-> task_live_count,
     task_join_nowait_zero |-> task_join_nowait_zero,
     task_join_finite_timeout |-> task_join_finite_timeout,
     task_join_forever_cached |-> task_join_forever_cached,
     task_self_join |-> task_self_join, task_concurrent_joiners |-> task_concurrent_joiners,
     task_late_join_cached |-> task_late_join_cached,
     task_scheduler_suspended |-> task_scheduler_suspended,
     task_lifecycle_stress |-> task_lifecycle_stress,
     task_drop_without_join |-> task_drop_without_join,
     task_finished_handle_lease |-> task_finished_handle_lease]
=============================================================================
