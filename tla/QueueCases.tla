----------------------------- MODULE QueueCases -----------------------------
(***************************************************************************)
(* The queue cases of the FreeRTOS integration firmware: queue.rs, whose   *)
(* boot task works alone, and queue_blocking.rs, with helper tasks that    *)
(* block.  The queue is dropped at the end of every case.                  *)
(***************************************************************************)
EXTENDS Statements

M0 == "m0"
M1 == "m1"
M2 == "m2"

Made(capacity) == <<New("q", Queue(capacity, 4), "Ok")>>

queue_core_fifo == Only(
    <<New("q", Queue(0, 4), "InvalidParameter"), New("q", Queue(4, 0), "InvalidParameter")>>
    \o Made(3)
    \o <<Query("q", "capacity", 3), Query("q", "msg_size", 4), Query("q", "len", 0),
         Query("q", "is_empty", TRUE), Query("q", "is_full", FALSE),
         Send("q", M0, NoWait, "Ok"), Send("q", M1, NoWait, "Ok"), Send("q", M2, NoWait, "Ok"),
         Query("q", "len", 3), Query("q", "is_full", TRUE)>>
    \o RecvIs("q", NoWait, M0) \o RecvIs("q", NoWait, M1) \o RecvIs("q", NoWait, M2)
    \o <<Query("q", "is_empty", TRUE), Drop("q")>>)

queue_wrong_size_precedence ==
    LET wrong == <<Sized(Send("q", M0, NoWait, "InvalidMessageSize"), 3),
                   Sized(Recv("q", NoWait, "InvalidMessageSize"), 8)>>
    IN Only(Made(2) \o wrong \o <<Close("q")>> \o wrong \o <<Drop("q")>>)

queue_nowait_zero == Only(
    Made(1)
    \o <<Recv("q", NoWait, "QueueEmpty"), Send("q", M0, NoWait, "Ok"),
         Send("q", M1, NoWait, "QueueFull"), Send("q", M1, After(0), "Timeout"),
         Recv("q", NoWait, "Ok"), Send("q", M1, NoWait, "Ok"), Recv("q", NoWait, "Ok"),
         Recv("q", After(0), "Timeout"), Drop("q")>>)

queue_clone_lifecycle == Only(
    <<Baseline("before")>> \o Made(2)
    \o <<Baseline("one"), Clone("q"), SameHeap("one"), Send("q", M0, NoWait, "Ok"), Drop("q")>>
    \o RecvIs("q", NoWait, M0)
    \o <<Drop("q"), SameHeap("before")>>)

queue_recv_finite_timeout == Only(
    Made(1) \o Lasting(5, Recv("q", After(5), "Timeout"))
    \o <<Query("q", "len", 0), Send("q", M0, NoWait, "Ok")>>
    \o RecvIs("q", NoWait, M0) \o <<Drop("q")>>)

queue_send_finite_timeout == Only(
    Made(1) \o <<Send("q", M0, NoWait, "Ok")>> \o Lasting(5, Send("q", M1, After(5), "Timeout"))
    \o <<Query("q", "len", 1)>>
    \o RecvIs("q", NoWait, M0) \o <<Send("q", M1, NoWait, "Ok")>> \o RecvIs("q", NoWait, M1)
    \o <<Drop("q")>>)

queue_close_drain == Only(
    Made(2)
    \o <<Send("q", M0, NoWait, "Ok"), Send("q", M1, NoWait, "Ok"), Close("q"),
         Send("q", M2, NoWait, "QueueClosed")>>
    \o RecvIs("q", NoWait, M0) \o RecvIs("q", NoWait, M1)
    \o <<Recv("q", NoWait, "QueueClosed"), Query("q", "len", 0), Close("q"), Close("q"),
         Query("q", "capacity", 2), Query("q", "msg_size", 4), Drop("q")>>)

queue_scheduler_suspended ==
    LET Full(w, r) == Send("q", M1, w, r)
        Empty(w, r) == Recv("q", w, r)
    IN Only(Made(1) \o <<Send("q", M0, NoWait, "Ok"), Suspend>> \o RefusedWaits(Full, "QueueFull")
            \o <<Recv("q", NoWait, "Ok")>> \o RefusedWaits(Empty, "QueueEmpty")
            \o <<Resume, Send("q", M1, NoWait, "Ok"), Recv("q", NoWait, "Ok"), Drop("q")>>)

queue_runtime_lease == Only(
    Made(1) \o RuntimeLease("q"))
-----------------------------------------------------------------------------
(* The helpers store what the call returns; a Forever call must not time   *)
(* out.                                                                    *)
Outcomes(w) == {<<"Ok">>, <<"QueueClosed">>} \cup (IF w = Forever THEN {} ELSE {<<"Timeout">>})
queue_send_blocking_helper(t, m, w) ==
    Helper(<<Send("q", m, w, "any"), Stamp("completed"), Among(<<<<t, "outcome">>>>, Outcomes(w))>>)
queue_recv_blocking_helper(t, w) ==
    Helper(<<Recv("q", w, "any"), Stamp("completed"), Among(<<<<t, "outcome">>>>, Outcomes(w))>>)

queue_helper_resource_probe ==
    [main |-> Made(1) \o Spawned("q", <<"a">>) \o Exited(<<"a">>) \o Validated(<<"a">>)
              \o Reclaimed(<<"a">>) \o <<Outcome("a", "Timeout"), Drop("q")>>,
     a |-> queue_recv_blocking_helper("a", After(5))]

queue_recv_blocking_wake ==
    [main |-> Made(1) \o Woken("q", Send("q", M0, NoWait, "Ok"))
              \o <<Outcome("a", "Ok"), Word("a", M0), Query("q", "len", 0), Drop("q")>>,
     a |-> queue_recv_blocking_helper("a", After(100))]

queue_send_blocking_wake ==
    [main |-> Made(1) \o <<Send("q", M0, NoWait, "Ok")>> \o Woken("q", Recv("q", NoWait, "Ok"))
              \o <<Outcome("a", "Ok")>> \o RecvIs("q", NoWait, M1) \o <<Drop("q")>>,
     a |-> queue_send_blocking_helper("a", M1, After(100))]

queue_recv_forever_wake ==
    [main |-> Made(1) \o Woken("q", Send("q", M0, NoWait, "Ok"))
              \o <<Outcome("a", "Ok"), Drop("q")>>,
     a |-> queue_recv_blocking_helper("a", Forever)]

queue_send_forever_wake ==
    [main |-> Made(1) \o <<Send("q", M0, NoWait, "Ok")>> \o Woken("q", Recv("q", NoWait, "Ok"))
              \o <<Outcome("a", "Ok"), Drop("q")>>,
     a |-> queue_send_blocking_helper("a", M1, Forever)]

queue_one_send_one_receiver ==
    [main |-> Made(2) \o Spawned("q", Both) \o AtOperation(Both)
              \o <<Send("q", M0, NoWait, "Ok")>> \o OneOfTwo \o <<Send("q", M1, NoWait, "Ok")>>
              \o Exited(Both) \o Validated(Both)
              \o <<Among(<<<<"a", "word">>, <<"b", "word">>>>, {<<M0, M1>>, <<M1, M0>>}),
                   Query("q", "len", 0)>>
              \o Reclaimed(Both) \o <<Drop("q")>>,
     a |-> queue_recv_blocking_helper("a", Forever),
     b |-> queue_recv_blocking_helper("b", Forever)]

queue_one_recv_one_sender ==
    [main |-> Made(1) \o <<Send("q", M0, NoWait, "Ok")>> \o Spawned("q", Both) \o AtOperation(Both)
              \o <<Recv("q", NoWait, "Ok")>> \o OneOfTwo
              \o <<Recv("q", NoWait, "Ok"), Keep(<<"main", "word">>, <<"main", "first">>)>>
              \o Exited(Both) \o Validated(Both)
              \o <<Recv("q", NoWait, "Ok"), Query("q", "len", 0),
                   Outcome("a", "Ok"), Outcome("b", "Ok"),
                   Among(<<<<"main", "first">>, <<"main", "word">>>>, {<<M1, M2>>, <<M2, M1>>})>>
              \o Reclaimed(Both) \o <<Drop("q")>>,
     a |-> queue_send_blocking_helper("a", M1, Forever),
     b |-> queue_send_blocking_helper("b", M2, Forever)]

AllClosed == Each(LAMBDA t : Outcome(t, "QueueClosed"), Three)

queue_close_broadcast_receivers ==
    [main |-> Made(1) \o Spawned("q", Three) \o AtOperation(Three) \o <<Close("q")>>
              \o Exited(Three) \o AllClosed \o Validated(Three) \o Reclaimed(Three)
              \o <<Drop("q")>>,
     a |-> queue_recv_blocking_helper("a", Forever),
     b |-> queue_recv_blocking_helper("b", Forever),
     c |-> queue_recv_blocking_helper("c", Forever)]

queue_close_broadcast_senders ==
    [main |-> Made(1) \o <<Send("q", M0, NoWait, "Ok")>> \o Spawned("q", Three)
              \o AtOperation(Three) \o <<Close("q")>> \o Exited(Three) \o AllClosed
              \o RecvIs("q", NoWait, M0) \o <<Recv("q", NoWait, "QueueClosed")>>
              \o Validated(Three) \o Reclaimed(Three) \o <<Close("q"), Close("q"), Drop("q")>>,
     a |-> queue_send_blocking_helper("a", M1, Forever),
     b |-> queue_send_blocking_helper("b", M1, Forever),
     c |-> queue_send_blocking_helper("c", M1, Forever)]

queue_throughput_cycle ==
    LET Batch(k) == [i \in 1..4 |-> Send("q", 4 * k + i, NoWait, "Ok")]
                    \o FlattenSeq([i \in 1..4 |-> RecvIs("q", NoWait, 4 * k + i)])
    IN Only(<<Baseline("before")>> \o Made(4) \o FlattenSeq([k \in 1..16 |-> Batch(k)])
            \o <<Drop("q"), SameHeap("before")>>)

(* A helper whose wait has expired is paused before its last look at the   *)
(* queue while the controller changes the queue.                           *)
Raced(first, injected, outcome, after) ==
    Made(1) \o first \o Contexts("q", <<"a">>) \o <<Arm, Spawn("a"), Await(AtBoundary, 80)>>
    \o injected \o <<Disarm>>
    \o Exited(<<"a">>) \o Validated(<<"a">>) \o Reclaimed(<<"a">>)
    \o <<Outcome("a", outcome)>> \o after \o <<Drop("q")>>

queue_recv_timeout_wake_race ==
    [main |-> Raced(<<>>, <<Send("q", M0, After(20), "Ok")>>, "Ok",
                    <<Word("a", M0), Query("q", "len", 0)>>),
     a |-> queue_recv_blocking_helper("a", After(40))]

queue_send_timeout_wake_race ==
    [main |-> Raced(<<Send("q", M0, NoWait, "Ok")>>, RecvIs("q", After(20), M0), "Ok",
                    RecvIs("q", NoWait, M1)),
     a |-> queue_send_blocking_helper("a", M1, After(40))]

queue_recv_close_timeout_priority ==
    [main |-> Raced(<<>>, <<Close("q")>>, "QueueClosed", <<>>),
     a |-> queue_recv_blocking_helper("a", After(40))]

queue_send_close_timeout_priority ==
    [main |-> Raced(<<Send("q", M0, NoWait, "Ok")>>, <<Close("q")>>, "QueueClosed",
                    RecvIs("q", NoWait, M0)),
     a |-> queue_send_blocking_helper("a", M1, After(40))]
-----------------------------------------------------------------------------
run_queue_cases ==
    [queue_core_fifo |-> queue_core_fifo,
     queue_wrong_size_precedence |-> queue_wrong_size_precedence,
     queue_nowait_zero |-> queue_nowait_zero,
     queue_clone_lifecycle |-> queue_clone_lifecycle,
     queue_recv_finite_timeout |-> queue_recv_finite_timeout,
     queue_send_finite_timeout |-> queue_send_finite_timeout,
     queue_close_drain |-> queue_close_drain,
     queue_scheduler_suspended |-> queue_scheduler_suspended,
     queue_runtime_lease |-> queue_runtime_lease]

run_queue_blocking_cases ==
    [queue_helper_resource_probe |-> queue_helper_resource_probe,
     queue_recv_blocking_wake |-> queue_recv_blocking_wake,
     queue_send_blocking_wake |-> queue_send_blocking_wake,
     queue_recv_forever_wake |-> queue_recv_forever_wake,
     queue_send_forever_wake |-> queue_send_forever_wake,
     queue_one_send_one_receiver |-> queue_one_send_one_receiver,
     queue_one_recv_one_sender |-> queue_one_recv_one_sender,
     queue_close_broadcast_receivers |-> queue_close_broadcast_receivers,
     queue_close_broadcast_senders |-> queue_close_broadcast_senders,
     queue_throughput_cycle |-> queue_throughput_cycle,
     queue_recv_timeout_wake_race |-> queue_recv_timeout_wake_race,
     queue_send_timeout_wake_race |-> queue_send_timeout_wake_race,
     queue_recv_close_timeout_priority |-> queue_recv_close_timeout_priority,
     queue_send_close_timeout_priority |-> queue_send_close_timeout_priority]
=============================================================================
