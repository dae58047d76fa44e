------------------------------ MODULE DemoCases ------------------------------
(***************************************************************************)
(* The demos of examples/osal-demo that use one kind of object each, as    *)
(* the boot task of the demo firmware runs them: the checks of a demo, and *)
(* the calls that must succeed for its report, between initialize and a    *)
(* shutdown that tolerates Busy for a while.                               *)
(***************************************************************************)
EXTENDS Statements

SETTLE_TIMEOUT == 1000
ClockDelay(d) == Delay(d + 1)

(* The loop goes on while shutdown is Busy, from its second statement.     *)
shutdown_settled ==
    <<Stamp("settling"), Shutdown("any"), Unless(Outcome("main", "Ok"), 5),
      Outcome("main", "Busy"), Stamp("polled"),
      Within(<<"main", "settling">>, <<"main", "polled">>, SETTLE_TIMEOUT - 1),
      ClockDelay(2), Unless(RuntimeIs("Running"), -7)>>

with_runtime(body) == <<Initialize("Ok")>> \o body \o shutdown_settled
-----------------------------------------------------------------------------
mutex_run == Only(with_runtime(
    <<New("m", Mutex(0), "Ok"), Lock("m", Forever, "Ok"), Increment("m"), Unlock("m"),
      Clone("m"), Lock("m", Forever, "Ok"), Query("m", "value", 1), Unlock("m"),
      Drop("m"), Drop("m")>>))

queue_run == Only(with_runtime(
    <<New("q", Queue(4, 4), "Ok"), Send("q", 1, NoWait, "Ok")>> \o RecvIs("q", NoWait, 1)
    \o <<Query("q", "len", 0), Drop("q")>>))

semaphore_run == Only(with_runtime(
    <<New("pool", Counting(2, 1), "Ok"), Query("pool", "count", 1),
      Acquire("pool", NoWait, "Ok"), Query("pool", "count", 0),
      Release("pool", "Ok"), Query("pool", "count", 1),
      New("ready", Binary, "Ok"), Query("ready", "is_signaled", FALSE),
      Release("ready", "Ok"), Query("ready", "is_signaled", TRUE),
      Acquire("ready", NoWait, "Ok"), Query("ready", "is_signaled", FALSE),
      Drop("pool"), Drop("ready")>>))

task_run ==
    [main |-> with_runtime(
        <<SpawnTask("a", Builder, {}, "Ok"), Join("a", Forever, "Ok"),
          All({<<"a", "worker_ran">>}), Is(<<"a", "current">>, "a"), Drop("a")>>),
     a |-> task_trampoline("a", <<Identify, Put(<<"a", "worker_ran">>, TRUE)>>)]

TIMER_PERIOD_MS == 10
TIMER_WAIT_MS == 30

timer_run ==
    [main |-> with_runtime(
        <<NewTimer("a", TIMER_PERIOD_MS, "OneShot", {}, "Ok"), Start("a", "Ok"),
          ClockDelay(TIMER_WAIT_MS), Counts(<<"a", "fired">>, 1), Stop("a", "Ok"), Drop("a")>>),
     a |-> <<Bump(<<"a", "fired">>)>>]

run_demos ==
    [mutex_demo |-> mutex_run, queue_demo |-> queue_run, semaphore_demo |-> semaphore_run,
     task_demo |-> task_run, timer_demo |-> timer_run]
=============================================================================
