----------------------------- MODULE CaseSuites -----------------------------
(***************************************************************************)
(* The suites of the FreeRTOS integration firmware, suite.rs: the harness  *)
(* case, then the runtime is initialized, the cases run, and the runtime   *)
(* is shut down with nothing left on the heap.  Here every case is in a    *)
(* suite of its own.                                                       *)
(***************************************************************************)
EXTENDS QueueCases, SyncCases, TaskCases, TimerCases, MixedCases, DemoCases, TLC

(* The smoke helper of main.c, and run_harness_case.                       *)
harness_smoke_helper ==
    <<Phase(STARTED), Stamp("start"), Phase(BEFORE_OPERATION), Delay(1), Stamp("end"),
      Phase(OPERATION_COMPLETED), Phase(EXITING), Exit>>

run_harness_case ==
    LET Ticked(t) == Elapsed(<<t, "start">>, <<t, "end">>, 1)
        DoneOf(t) == PhaseOf(t, DONE)
        SawDone(t) == Visited(t, DONE)
    IN [main |-> <<Baseline("task")>> \o Each(Spawn, Both) \o Exited(Both)
                 \o <<HeapRecovered("task", 100)>> \o Each(DoneOf, Both) \o Validated(Both)
                 \o Each(Ticked, Both) \o Each(SawDone, Both),
        a |-> harness_smoke_helper, b |-> harness_smoke_helper]

InSuite(cases, first, last) ==
    [c \in DOMAIN cases |->
        [cases[c] EXCEPT !.main = <<Baseline("suite"), Initialize("Ok")>> \o first \o @
                                  \o <<Shutdown("Ok"), last>>]]

aggregate_suite ==
    InSuite(run_mutex_cases @@ run_semaphore_cases @@ run_queue_cases, <<>>, SameHeap("suite"))
task_suite == InSuite(run_task_cases, <<>>, SameHeap("suite"))
timer_suite ==
    InSuite(run_first_timer_case @@ run_timer_cases, <<>>, HeapRecovered("suite", 100))
mixed_suite == InSuite(run_mixed_cases, <<>>, HeapRecovered("suite", 100))
queue_blocking_suite == InSuite(run_queue_blocking_cases, <<>>, SameHeap("suite"))

(* The programs the machine executes, by name.                             *)
Cases ==
    [harness |-> run_harness_case] @@ aggregate_suite @@ queue_blocking_suite
        @@ task_suite @@ timer_suite @@ mixed_suite @@ run_demos

(* Cases that hold only while the kernel is prompt: no tick arrives while  *)
(* a task of theirs runs.                                                  *)
Prompt == {"task_handle_unique", "task_concurrent_joiners",
           "timer_change_period_running", "mixed_lifecycle_stress"}
=============================================================================
