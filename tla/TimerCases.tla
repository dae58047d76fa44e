----------------------------- MODULE TimerCases -----------------------------
(***************************************************************************)
(* The timer cases of the FreeRTOS integration firmware,                   *)
(* timer_contracts.rs.  A timer's callback is the program of its name.     *)
(* Names and stack depths of tasks, and the memory of the cases' own       *)
(* counters, are left out.                                                 *)
(***************************************************************************)
EXTENDS Statements

OneShot(o, period) == NewTimer(o, period, "OneShot", {}, "Ok")
Periodic(o, period) == NewTimer(o, period, "Periodic", {}, "Ok")

(* TimerCaseState::record: the callback's identity, the tick of each of    *)
(* the first three calls, and last the count.                              *)
CallCount(o) == <<o, "count">>
record(o) ==
    <<Identify, StampNth(CallCount(o), <<"tick0", "tick1", "tick2">>), Bump(CallCount(o))>>
wait_for_callback_count(o, n, d) == Await(AtLeast(CallCount(o), n), d)
assert_worker_identity(o) == Is(<<o, "current">>, "nobody")
assert_heap_recovery(h) == HeapRecovered(h, 100)

(* From the controller's stamp v to a tick of o's callback.                *)
AfterStamp(v, o, tick, d) == Elapsed(<<"main", v>>, <<o, tick>>, d)
Ended(o) == <<Stop(o, "Ok"), Drop(o)>>

Flag(o, name) == Put(<<o, name>>, TRUE)
Flagged(o, name, d) == Await(All({<<o, name>>}), d)
NoWorkers == Increased("workers", 0)
-----------------------------------------------------------------------------
(* Only the first start makes the worker, which is not a task of the OSAL. *)
timer_worker_lazy_identity ==
    [main |-> <<Mark, OneShot("a", 50), Stop("a", "Ok"), ChangePeriod("a", 100, "Ok"), NoWorkers,
                Count(0), Start("a", "Ok"), Increased("workers", 1), Reset("a", "Ok"),
                Increased("workers", 1), wait_for_callback_count("a", 1, 200),
                assert_worker_identity("a")>>
              \o Ended("a") \o <<Delay(10)>>,
     a |-> <<Identify, Count(0), Bump(CallCount("a"))>>]

timer_builder_core ==
    Only(<<Baseline("heap"), Mark, NewTimer("a", 0, "OneShot", {}, "InvalidParameter"), NoWorkers,
           Count(0), SameHeap("heap"), OneShot("a", 10), NoWorkers, Periodic("b", 10),
           Drop("a"), Drop("b")>>)

timer_one_shot ==
    [main |-> <<OneShot("a", 5), Stamp("start"), Start("a", "Ok"),
                wait_for_callback_count("a", 1, 100), AfterStamp("start", "a", "tick0", 5),
                Delay(10), Counts(CallCount("a"), 1), assert_worker_identity("a")>> \o Ended("a"),
     a |-> record("a")]

timer_periodic ==
    [main |-> <<Periodic("a", 4), Stamp("start"), Start("a", "Ok"),
                wait_for_callback_count("a", 3, 200), Stop("a", "Ok"), AtLeast(CallCount("a"), 3),
                AfterStamp("start", "a", "tick0", 4), Elapsed(<<"a", "tick0">>, <<"a", "tick1">>, 1),
                Elapsed(<<"a", "tick1">>, <<"a", "tick2">>, 1), assert_worker_identity("a"),
                Drop("a")>>,
     a |-> record("a")]

timer_start_reset ==
    LET Again(o, again) ==
            <<OneShot(o, 10), Start(o, "Ok"), Delay(2), Stamp("again"), again,
              wait_for_callback_count(o, 1, 100), AfterStamp("again", o, "tick0", 10),
              assert_worker_identity(o)>> \o Ended(o)
    IN [main |-> <<OneShot("a", 5), Stamp("start"), Reset("a", "Ok"),
                   wait_for_callback_count("a", 1, 100), AfterStamp("start", "a", "tick0", 5)>>
                 \o Ended("a")
                 \o Again("b", Reset("b", "Ok")) \o Again("c", Start("c", "Ok")),
        a |-> record("a"), b |-> record("b"), c |-> record("c")]

timer_stop ==
    [main |-> <<OneShot("a", 10), Start("a", "Ok"), Delay(3), Stop("a", "Ok"), Delay(20),
                Counts(CallCount("a"), 0)>> \o Ended("a"),
     a |-> record("a")]

timer_change_period_stopped ==
    [main |-> <<OneShot("a", 50), ChangePeriod("a", 0, "InvalidParameter"), Mark,
                ChangePeriod("a", 5, "Ok"), NoWorkers, Delay(7), Counts(CallCount("a"), 0),
                Stamp("start"), Start("a", "Ok"), wait_for_callback_count("a", 1, 50),
                AfterStamp("start", "a", "tick0", 5), assert_worker_identity("a")>> \o Ended("a"),
     a |-> record("a")]

(* The deadline that is running stays, the next one has the new period.    *)
timer_change_period_running ==
    [main |-> <<Periodic("a", 40), Stamp("start"), Start("a", "Ok"), Delay(2),
                ChangePeriod("a", 5, "Ok"), wait_for_callback_count("a", 1, 80),
                AfterStamp("start", "a", "tick0", 40), wait_for_callback_count("a", 2, 20),
                Elapsed(<<"a", "tick0">>, <<"a", "tick1">>, 5), Stop("a", "Ok"),
                assert_worker_identity("a"), Drop("a")>>,
     a |-> record("a")]

(* The first callback outlasts three periods; they become one callback.    *)
timer_periodic_coalescing ==
    LET entered == <<"a", "entered">> IN
    [main |-> <<Periodic("a", 5), Start("a", "Ok"), wait_for_callback_count("a", 2, 80),
                Stop("a", "Ok"), Counts(CallCount("a"), 2), Stop("a", "Ok"),
                assert_worker_identity("a"), Drop("a")>>,
     a |-> <<Bump(entered)>> \o record("a") \o <<Unless(AtLeast(entered, 2), 1), Delay(16)>>]
-----------------------------------------------------------------------------
(* Callbacks that use timers, their own included.                          *)
timer_callback_self_control ==
    [main |-> <<Periodic("a", 4), Start("a", "Ok"), wait_for_callback_count("a", 1, 80),
                Flagged("a", "control", 50), Delay(20), Counts(CallCount("a"), 1)>>
              \o Ended("a")
              \o <<OneShot("b", 4), Start("b", "Ok"), wait_for_callback_count("b", 2, 80),
                   All({<<"b", "control">>}), Elapsed(<<"b", "reset">>, <<"b", "tick1">>, 4),
                   assert_worker_identity("b")>>
              \o Ended("b"),
     a |-> record("a") \o <<Stop("a", "Ok"), Flag("a", "control")>>,
     b |-> record("b") \o <<Unless(AtLeast(CallCount("b"), 2), 3), Stamp("reset"), Reset("b", "Ok"),
                            Flag("b", "control")>>]

timer_callback_cross_timer ==
    [main |-> <<OneShot("b", 4), OneShot("a", 3), Start("a", "Ok"),
                wait_for_callback_count("a", 1, 50), wait_for_callback_count("b", 1, 80),
                Drop("a"), Drop("b")>>,
     a |-> <<Stamp("tick"), Start("b", "Ok"), Bump(CallCount("a"))>>,
     b |-> <<Stamp("tick"), Bump(CallCount("b"))>>]

timer_clone_last_drop ==
    [main |-> <<OneShot("a", 4), Clone("a"), Start("a", "Ok"), Drop("a"),
                wait_for_callback_count("a", 1, 50), Reset("a", "Ok"), Counts(CallCount("a"), 1),
                Drop("a"), Delay(20), Counts(CallCount("a"), 1), assert_worker_identity("a")>>,
     a |-> record("a")]

(* A callback is running when the last handle goes; its closure owns a     *)
(* probe, dropped once the callback has returned.                          *)
timer_inflight_last_drop ==
    [main |-> <<Put(<<"a", "completed">>, FALSE), Box("probe", {}),
                NewTimer("a", 3, "Periodic", {"probe"}, "Ok"), Start("a", "Ok"),
                Flagged("a", "started", 100), Drop("a"), Is(<<"a", "completed">>, FALSE),
                Flag("main", "release"), Flagged("a", "completed", 100), Await(Gone("probe"), 50),
                Counts(CallCount("a"), 1), Delay(20), Counts(CallCount("a"), 1)>>,
     a |-> <<Flag("a", "started"), Flagged("main", "release", Forever), Bump(CallCount("a")),
             Flag("a", "completed")>>]

(* What a's callback owns calls b.stop when it is dropped, and then drops  *)
(* its handle of b.                                                        *)
timer_callback_drop_outside_lock ==
    LET probe_drop == <<Stop("b", "Ok"), Drop("b")>> IN
    Only(<<OneShot("b", 5), Clone("b"), OneShot("a", 10), Drop("a")>> \o probe_drop \o Ended("b"))
-----------------------------------------------------------------------------
timer_scheduler_suspended ==
    [main |-> <<OneShot("a", 4), Start("a", "Ok"), wait_for_callback_count("a", 1, 80),
                Stop("a", "Ok"), Baseline("heap"),
                Suspend, Start("a", "Busy"), Reset("a", "Busy"), Resume,
                Delay(10), Counts(CallCount("a"), 1), SameHeap("heap"), RuntimeIs("Running"),
                Suspend, Stop("a", "Ok"), ChangePeriod("a", 10, "Ok"), Resume,
                Delay(15), Counts(CallCount("a"), 1), Start("a", "Ok"),
                wait_for_callback_count("a", 2, 80), Stop("a", "Ok"), assert_worker_identity("a"),
                Drop("a")>>,
     a |-> record("a")]

timer_shutdown_lease ==
    [main |-> <<OneShot("a", 4), Baseline("heap"), Shutdown("Busy"), RuntimeIs("Running"),
                SameHeap("heap"), Start("a", "Ok"), wait_for_callback_count("a", 1, 80),
                Stop("a", "Ok"), Clone("a"), Drop("a"), Shutdown("Busy"), RuntimeIs("Running"),
                Drop("a"), assert_worker_identity("a")>>,
     a |-> record("a")]

(* With no handle left, the worker still cannot wait for itself.           *)
timer_self_shutdown_busy ==
    [main |-> <<OneShot("a", 3), Start("a", "Ok"), Flagged("a", "entered", 80), Drop("a"),
                Flag("main", "gate"), Flagged("a", "completed", 80), Outcome("a", "Busy"),
                RuntimeIs("Running")>>,
     a |-> <<Flag("a", "entered"), Flagged("main", "gate", Forever), Shutdown("any"),
             Flag("a", "completed")>>]

(* Timers started within one tick expire in the order of their making.     *)
(* Tries stands for 5: more ticks than BusyTicks never come in between.    *)
Tries == 2
timer_same_deadline_order ==
    LET order == <<"main", "order">>
        count == <<"main", "count">>
        same_tick == Within(<<"main", "before">>, <<"main", "after">>, 0)
        arm == Each(LAMBDA o : Stop(o, "Ok"), Three) \o <<Stamp("before")>>
               \o Each(LAMBDA o : Start(o, "Ok"), Three) \o <<Stamp("after")>>
        Retry(n) == <<Unless(same_tick, Len(arm) + (Len(arm) + 1) * (n - 1))>> \o arm
        Callback(label) == <<Shift(order, label), Bump(count)>>
    IN [main |-> Each(LAMBDA o : OneShot(o, 40), Three) \o arm
                 \o FlattenSeq([i \in 1..(Tries - 1) |-> Retry(Tries - i)])
                 \o <<same_tick, Await(AtLeast(count, 3), 100)>>
                 \o Each(LAMBDA o : Stop(o, "Ok"), Three)
                 \o <<Counts(count, 3), Counts(order, 123), assert_worker_identity("a")>>
                 \o Each(Drop, Three),
        a |-> <<Shift(order, 1), Identify, Bump(count)>>, b |-> Callback(2), c |-> Callback(3)]

timer_lifecycle_stress ==
    LET Fires(os, period) ==
            <<Baseline("round")>> \o Each(LAMBDA o : Put(CallCount(o), 0), os)
            \o Each(LAMBDA o : OneShot(o, period), os) \o Each(LAMBDA o : Start(o, "Ok"), os)
            \o Each(LAMBDA o : wait_for_callback_count(o, 1, 80), os)
            \o Each(LAMBDA o : Counts(CallCount(o), 1), os) \o Each(Drop, os)
            \o <<Delay(3), assert_heap_recovery("round")>>
    IN [main |-> <<Mark>> \o FlattenSeq([i \in 1..Rounds |-> Fires(<<"d">>, 2)]) \o <<Count(0)>>
                 \o FlattenSeq([i \in 1..Waves |-> Fires(Three, 3)]) \o <<Count(0), NoWorkers>>,
        a |-> record("a"), b |-> record("b"), c |-> record("c"), d |-> record("d")]
-----------------------------------------------------------------------------
(* After the first case the worker exists.                                 *)
TheWorkerExists == <<OneShot("first", 50), Start("first", "Ok")>> \o Ended("first") \o <<Delay(10)>>
AfterTheFirst(cases) ==
    [c \in DOMAIN cases |->
        [cases[c] EXCEPT !.main = TheWorkerExists \o <<Baseline("worker")>> \o @
                                  \o <<assert_heap_recovery("worker")>>]]

run_first_timer_case == [timer_worker_lazy_identity |-> timer_worker_lazy_identity]
run_timer_cases == AfterTheFirst(
    [timer_builder_core |-> timer_builder_core, timer_one_shot |-> timer_one_shot,
     timer_periodic |-> timer_periodic, timer_start_reset |-> timer_start_reset,
     timer_stop |-> timer_stop, timer_change_period_stopped |-> timer_change_period_stopped,
     timer_change_period_running |-> timer_change_period_running,
     timer_periodic_coalescing |-> timer_periodic_coalescing,
     timer_callback_self_control |-> timer_callback_self_control,
     timer_callback_cross_timer |-> timer_callback_cross_timer,
     timer_clone_last_drop |-> timer_clone_last_drop,
     timer_inflight_last_drop |-> timer_inflight_last_drop,
     timer_callback_drop_outside_lock |-> timer_callback_drop_outside_lock,
     timer_scheduler_suspended |-> timer_scheduler_suspended,
     timer_shutdown_lease |-> timer_shutdown_lease,
     timer_self_shutdown_busy |-> timer_self_shutdown_busy,
     timer_same_deadline_order |-> timer_same_deadline_order,
     timer_lifecycle_stress |-> timer_lifecycle_stress])
=============================================================================
