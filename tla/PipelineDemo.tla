---------------------------- MODULE PipelineDemo ----------------------------
(***************************************************************************)
(* The pipeline of examples/osal-demo/src/pipeline_demo.rs: producers and  *)
(* consumers around a queue, a monitor, a heartbeat timer and the          *)
(* supervisor that spawns, starts, stops and joins them, inside the        *)
(* runtime of runtime.rs.  The demo has no code for a backend, so that     *)
(* every interleaving is taken, and a delay, a phase or a timeout may end  *)
(* at any time.                                                            *)
(*                                                                         *)
(* The objects of the OSAL do what they promise (the other modules): a     *)
(* closed queue refuses to send and is drained before it refuses to        *)
(* receive, join sees a task that has returned, and shutdown is Busy while *)
(* a task or the timer is alive.  The stats mutex is held by nobody for    *)
(* long, so that lock(Forever) never fails.                                *)
(***************************************************************************)
EXTENDS Naturals, FiniteSets

CONSTANTS PRODUCER_COUNT, CONSUMER_COUNT, QUEUE_CAPACITY,
          MaxSeq      (* bound: packets of a producer                      *)

ASSUME PipelineAssumption ==
    /\ PRODUCER_COUNT \in Nat /\ CONSUMER_COUNT \in Nat
    /\ QUEUE_CAPACITY \in Nat \ {0} /\ MaxSeq \in Nat

(* The workers, in the order in which they are spawned and joined.         *)
TOTAL_READY_TASKS == PRODUCER_COUNT + CONSUMER_COUNT + 1
Worker == 1 .. TOTAL_READY_TASKS
Producer == 1 .. PRODUCER_COUNT
Consumer == (PRODUCER_COUNT + 1) .. (TOTAL_READY_TASKS - 1)
Monitor == TOTAL_READY_TASKS

VARIABLES events,       (* AppState::events, the set of bits               *)
          len, closed,  (* AppState::queue                                 *)
          stats,        (* AppState::stats                                 *)
          ready_sem,    (* AppState::ready_sem, its count                  *)
          worker_error, (* AppState::worker_error                          *)
          armed,        (* the heartbeat timer is running                  *)
          calling,      (* its callback is running                         *)
          seq,          (* packets a producer has sent or given up         *)
          head,         (* producers in their head start                   *)
          at,           (* where a worker is                               *)
          tasks,        (* number of workers that have been spawned        *)
          stage,        (* where the supervisor is                         *)
          awaited,      (* its loop: ready tasks, or joins, so far         *)
          error,        (* the error the demo will return                  *)
          runtime       (* the runtime is initialized                      *)

queue == <<len, closed>>
signals == <<events, ready_sem, worker_error>>
heartbeat == <<armed, calling>>
producing == <<seq, head>>
supervisor == <<tasks, stage, awaited, error, runtime>>
vars == <<queue, stats, signals, heartbeat, producing, at, supervisor>>

(* "check" is the top of a loop, and the delay before it.                   *)
WorkerPoints == {"unborn", "new", "gate", "check", "send", "sent", "recv", "received",
                 "refused", "returned", "gone"}

TypeOK ==
    /\ events \subseteq {"START", "GO", "STOP"}
    /\ len \in 0 .. QUEUE_CAPACITY /\ closed \in BOOLEAN
    /\ stats \in [{"produced", "consumed", "dropped"} -> Nat]
    /\ ready_sem \in 0 .. TOTAL_READY_TASKS
    /\ worker_error \in {"none", "ReadyRelease", "QueueSend", "QueueRecv"}
    /\ armed \in BOOLEAN /\ calling \in BOOLEAN
    /\ seq \in [Producer -> 0 .. MaxSeq] /\ head \subseteq Producer
    /\ at \in [Worker -> WorkerPoints]
    /\ tasks \in 0 .. TOTAL_READY_TASKS
    /\ stage \in {"spawn", "ready", "start", "start_timer", "phases", "stop_timer",
                  "stop", "close", "join", "report", "settle", "done"}
    /\ awaited \in 0 .. TOTAL_READY_TASKS
    /\ error \in {"none", "Osal", "Check", "Worker"}
    /\ runtime \in BOOLEAN

(* run_with_reporter has initialized the runtime and created the objects.  *)
Init ==
    /\ events = {} /\ ready_sem = 0 /\ worker_error = "none"
    /\ len = 0 /\ closed = FALSE
    /\ stats = [produced |-> 0, consumed |-> 0, dropped |-> 0]
    /\ armed = FALSE /\ calling = FALSE
    /\ seq = [p \in Producer |-> 0] /\ head = Producer
    /\ at = [w \in Worker |-> "unborn"]
    /\ tasks = 0 /\ stage = "spawn" /\ awaited = 0 /\ error = "none"
    /\ runtime = TRUE

Goto(w, next) == at' = [at EXCEPT ![w] = next]
Stopped == "STOP" \in events

(* record_worker_error: the first failure wins.                            *)
record_worker_error(e) == worker_error' = IF worker_error = "none" THEN e ELSE worker_error
-----------------------------------------------------------------------------
(* Some conditions and updates below are preceded by faulty variants of    *)
(* themselves, which the specification never uses.                         *)

signal_ready(w) ==
    /\ at[w] = "new"
    /\ IF ready_sem < TOTAL_READY_TASKS
       THEN Goto(w, "gate") /\ ready_sem' = ready_sem + 1 /\ UNCHANGED worker_error
       ELSE Goto(w, "returned") /\ record_worker_error("ReadyRelease") /\ UNCHANGED ready_sem
    /\ UNCHANGED <<events, queue, stats, heartbeat, producing, supervisor>>

(* wait_for_start, and the loop of a consumer: STOP is looked at first.    *)
Bits(w) == IF w \in Consumer THEN {"START", "GO"} ELSE {"START"}
StopIgnored == FALSE
StopAtGate == Stopped

wait_for_start(w) ==
    /\ at[w] = "gate"
    /\ IF StopAtGate THEN Goto(w, "returned")
       ELSE Bits(w) \subseteq events /\ Goto(w, "check")
    /\ UNCHANGED <<queue, stats, signals, heartbeat, producing, supervisor>>

stop_seen(w) ==
    /\ at[w] = "check" /\ Stopped
    /\ Goto(w, "returned")
    /\ UNCHANGED <<queue, stats, signals, heartbeat, producing, supervisor>>

(* The loops of a producer and of a consumer go on.  A producer at its     *)
(* bound sleeps until the demo stops.                                      *)
go_on(w, call) ==
    /\ at[w] = "check" /\ ~Stopped
    /\ w \in Producer => seq[w] < MaxSeq
    /\ Goto(w, call)
    /\ UNCHANGED <<queue, stats, signals, heartbeat, producing, supervisor>>

head_start_over(p) ==
    /\ at[p] = "check" /\ p \in head
    /\ head' = head \ {p}
    /\ events' = events \cup {"GO"}
    /\ UNCHANGED <<queue, stats, ready_sem, worker_error, heartbeat, seq, at, supervisor>>

(* produce_once: the send, and what is counted of it.                      *)
DroppedAsProduced == "produced"
Dropped == "dropped"

Count(p, what) ==
    /\ stats' = [stats EXCEPT ![what] = @ + 1]
    /\ seq' = [seq EXCEPT ![p] = @ + 1]
    /\ Goto(p, "check")

send(p) ==
    /\ at[p] = "send" /\ ~closed /\ len < QUEUE_CAPACITY
    /\ len' = len + 1
    /\ Goto(p, "sent")
    /\ UNCHANGED <<closed, stats, signals, heartbeat, producing, supervisor>>

send_counted(p) ==
    /\ at[p] = "sent"
    /\ Count(p, "produced")
    /\ UNCHANGED <<queue, signals, heartbeat, head, supervisor>>

send_timeout(p) ==
    /\ at[p] = "send" /\ ~closed /\ len = QUEUE_CAPACITY
    /\ Count(p, Dropped)
    /\ UNCHANGED <<queue, signals, heartbeat, head, supervisor>>

send_closed(p) ==
    /\ at[p] = "send" /\ closed
    /\ record_worker_error("QueueSend")
    /\ Goto(p, "returned")
    /\ UNCHANGED <<queue, stats, events, ready_sem, heartbeat, producing, supervisor>>

producer_task(p) ==
    \/ signal_ready(p) \/ wait_for_start(p) \/ stop_seen(p) \/ head_start_over(p)
    \/ go_on(p, "send") \/ send(p) \/ send_counted(p) \/ send_timeout(p) \/ send_closed(p)
-----------------------------------------------------------------------------
recv(c) ==
    /\ at[c] = "recv" /\ len > 0
    /\ len' = len - 1
    /\ Goto(c, "received")
    /\ UNCHANGED <<closed, stats, signals, heartbeat, producing, supervisor>>

recv_counted(c) ==
    /\ at[c] = "received"
    /\ stats' = [stats EXCEPT !.consumed = @ + 1]
    /\ Goto(c, "check")
    /\ UNCHANGED <<queue, signals, heartbeat, producing, supervisor>>

recv_fails(c) ==
    /\ at[c] = "recv" /\ len = 0
    /\ Goto(c, IF closed THEN "refused" ELSE "check")
    /\ UNCHANGED <<queue, stats, signals, heartbeat, producing, supervisor>>

(* QueueClosed is an error unless the demo was told to stop.               *)
recv_closed(c) ==
    /\ at[c] = "refused"
    /\ IF Stopped THEN UNCHANGED worker_error ELSE record_worker_error("QueueRecv")
    /\ Goto(c, "returned")
    /\ UNCHANGED <<queue, stats, events, ready_sem, heartbeat, producing, supervisor>>

consumer_task(c) ==
    \/ signal_ready(c) \/ wait_for_start(c) \/ stop_seen(c)
    \/ go_on(c, "recv") \/ recv(c) \/ recv_counted(c) \/ recv_fails(c) \/ recv_closed(c)

(* The monitor looks at the stats until it sees STOP.                      *)
monitor_task == signal_ready(Monitor) \/ wait_for_start(Monitor) \/ stop_seen(Monitor)
-----------------------------------------------------------------------------
(* A trampoline has published its task's completion, and lets go of it.    *)
trampoline_exit(w) ==
    /\ at[w] = "returned"
    /\ Goto(w, "gone")
    /\ UNCHANGED <<queue, stats, signals, heartbeat, producing, supervisor>>

(* The heartbeat's callback, which a stop or a drop does not wait for.     *)
timer_expires ==
    /\ armed /\ ~calling
    /\ calling' = TRUE
    /\ UNCHANGED <<queue, stats, signals, armed, producing, at, supervisor>>

callback ==
    /\ calling
    /\ calling' = FALSE
    /\ UNCHANGED <<queue, stats, signals, armed, producing, at, supervisor>>
-----------------------------------------------------------------------------
(* spawn_workers: the producers, the consumers, then the monitor.          *)
spawn ==
    /\ stage = "spawn"
    /\ tasks' = tasks + 1
    /\ Goto(tasks', "new")
    /\ stage' = IF tasks' = Monitor THEN "ready" ELSE "spawn"
    /\ UNCHANGED <<queue, stats, signals, heartbeat, producing, awaited, error, runtime>>

(* The first error is the demo's, and rolls back with stop_and_join.       *)
fail ==
    /\ error' = "Osal" /\ stage' = "stop" /\ awaited' = 0
    /\ UNCHANGED <<queue, stats, signals, heartbeat, producing, at, tasks, runtime>>

spawn_fails == stage = "spawn" /\ fail

(* supervisor_main.                                                        *)
acquire_ready ==
    /\ stage = "ready" /\ ready_sem > 0
    /\ ready_sem' = ready_sem - 1
    /\ awaited' = (awaited + 1) % TOTAL_READY_TASKS
    /\ stage' = IF awaited' = 0 THEN "start" ELSE "ready"
    /\ UNCHANGED <<queue, stats, events, worker_error, heartbeat, producing, at, tasks,
                   error, runtime>>

start ==
    /\ stage = "start"
    /\ events' = events \cup {"START"}
    /\ stage' = "start_timer"
    /\ UNCHANGED <<queue, stats, ready_sem, worker_error, heartbeat, producing, at,
                   tasks, awaited, error, runtime>>

start_timer ==
    /\ stage = "start_timer"
    /\ armed' = TRUE
    /\ stage' = "phases"
    /\ UNCHANGED <<queue, stats, signals, calling, producing, at,
                   tasks, awaited, error, runtime>>

(* The phases are over: STOP, also at the start of stop_and_join.          *)
request_stop ==
    /\ stage \in {"phases", "stop"}
    /\ events' = events \cup {"STOP"}
    /\ stage' = IF stage = "phases" THEN "stop_timer" ELSE "close"
    /\ UNCHANGED <<queue, stats, ready_sem, worker_error, heartbeat, producing, at,
                   tasks, awaited, error, runtime>>

stop_timer ==
    /\ stage = "stop_timer"
    /\ armed' = FALSE
    /\ stage' = "stop"
    /\ UNCHANGED <<queue, stats, signals, calling, producing, at,
                   tasks, awaited, error, runtime>>

(* The wait for the workers, the timer's calls and the reading of the      *)
(* stats may fail, and a caller of "?" returns.                            *)
supervisor_fails ==
    stage \in {"ready", "start_timer", "phases", "stop_timer"} /\ fail
-----------------------------------------------------------------------------
(* stop_and_join: close, timer.stop, and the joins.                        *)
close_queue ==
    /\ stage = "close"
    /\ closed' = TRUE /\ armed' = FALSE
    /\ stage' = "join"
    /\ UNCHANGED <<len, stats, signals, calling, producing, at,
                   tasks, awaited, error, runtime>>

Returned(w) == at[w] \in {"returned", "gone"}

(* A join may time out while the worker has not returned.                  *)
join ==
    /\ stage = "join" /\ awaited < tasks
    /\ \/ Returned(awaited + 1) /\ UNCHANGED error
       \/ /\ ~Returned(awaited + 1)
          /\ error' = IF error = "none" THEN "Osal" ELSE error
    /\ awaited' = awaited + 1
    /\ UNCHANGED <<queue, stats, signals, heartbeat, producing, at, tasks, stage, runtime>>

joined ==
    /\ stage = "join" /\ awaited = tasks
    /\ stage' = IF error = "none" THEN "report" ELSE "settle"
    /\ UNCHANGED <<queue, stats, signals, heartbeat, producing, at, tasks, awaited,
                   error, runtime>>

(* The timer may not have fired and the monitor may not have looked at the *)
(* stats, if the phases were short; otherwise the counters decide.         *)
CountersFail == stats.produced = 0 \/ stats.consumed = 0 \/ stats.consumed > stats.produced
pipeline_invariant_failure ==
    {"Check"} \cup (IF CountersFail THEN {}
                   ELSE IF worker_error # "none" THEN {"Worker"} ELSE {"none"})

report ==
    /\ stage = "report"
    /\ error' \in pipeline_invariant_failure
    /\ stage' = "settle"
    /\ UNCHANGED <<queue, stats, signals, heartbeat, producing, at, tasks, awaited,
                   runtime>>

(* with_runtime and shutdown_settled: polled while somebody holds a lease, *)
(* until it is too late; the error of the body wins.                       *)
Quiet == ~calling /\ \A w \in Worker : at[w] \in {"unborn", "gone"}

shutdown_settled ==
    /\ stage = "settle"
    /\ \/ Quiet /\ runtime' = FALSE /\ UNCHANGED error
       \/ ~Quiet /\ error' = (IF error = "none" THEN "Osal" ELSE error) /\ UNCHANGED runtime
    /\ stage' = "done"
    /\ UNCHANGED <<queue, stats, signals, heartbeat, producing, at, tasks, awaited>>

supervise ==
    \/ spawn \/ acquire_ready \/ start \/ start_timer \/ request_stop \/ stop_timer
    \/ close_queue \/ join \/ joined \/ report \/ shutdown_settled

works(w) ==
    \/ w \in Producer /\ producer_task(w)
    \/ w \in Consumer /\ consumer_task(w)
    \/ w = Monitor /\ monitor_task
    \/ trampoline_exit(w)

Next ==
    \/ supervise \/ spawn_fails \/ supervisor_fails
    \/ \E w \in Worker : works(w)
    \/ timer_expires \/ callback

Spec == Init /\ [][Next]_vars

(* Tasks that can run do run, and delays and timeouts end.                 *)
Fairness == WF_vars(supervise) /\ WF_vars(callback) /\ \A w \in Worker : WF_vars(works(w))
FairSpec == Spec /\ Fairness
-----------------------------------------------------------------------------
(* The packets that the producers have sent or given up: the seq of each.  *)
Packets == UNION {{p} \X (1 .. seq[p]) : p \in Producer}

(* When every worker has been joined, each packet of a producer has been   *)
(* counted once, as produced or as dropped, and what was produced was      *)
(* consumed or is still in the queue; and no consumer took the closing of  *)
(* the queue for a failure: STOP is set before the queue is closed.        *)
ReportAddsUp ==
    /\ worker_error # "QueueRecv"
    /\ stage = "report" =>
          /\ stats.produced = stats.consumed + len
          /\ stats.produced + stats.dropped = Cardinality(Packets)

(* The demo ends, and so do its workers: also those that wait at the gate  *)
(* for a START that never comes because a later spawn failed, and those    *)
(* that a join gave up.                                                    *)
DemoEnds == <>[](stage = "done" /\ Quiet)

(* worker_error == 0, which README.md of the demo lists among the          *)
(* invariants that hold whatever the timing: a demo whose objects and      *)
(* calls all work does not end with the error of a worker.                 *)
WorkersReportNothing == error # "Worker"
=============================================================================
