--------------------------- MODULE FreeRtosQueue ---------------------------
(***************************************************************************)
(* The blocking queue of osal-backend-freertos/src/queue.rs: a byte queue  *)
(* guarded by a state mutex, two counting semaphores on which senders and  *)
(* receivers block, and the waiter and wake-credit counters that tie the   *)
(* tokens in the semaphores to the tasks that must consume them.           *)
(*                                                                         *)
(* A section of send, recv or close that holds the state mutex is one      *)
(* step; taking a token and timing out happen outside the mutex and are    *)
(* steps of their own.  Only semaphore takes of waiting tasks can happen   *)
(* inside a section, and they commute with everything it does.  Message    *)
(* contents are the concern of ByteQueue; here only the length matters.    *)
(***************************************************************************)
EXTENDS Integers, FiniteSets

CONSTANTS Task,        (* the tasks that use the queue                     *)
          Capacity,    (* number of messages the queue holds               *)
          Budgets,     (* the WaitBudgets callers use                      *)
          WakeMax      (* max_count of the wake semaphores, the native     *)
                       (* maximum in the code                              *)

ASSUME QueueAssumption ==
    /\ IsFiniteSet(Task)
    /\ Capacity \in Nat \ {0}
    /\ Budgets \subseteq {"NoWait", "Zero", "Finite", "Forever"}
    /\ WakeMax \in Nat
    /\ Cardinality(Task) <= WakeMax

VARIABLES len,         (* messages in the byte queue                       *)
          closed,      (* the byte queue's closed flag                     *)
          waiters,     (* sender_waiters, receiver_waiters                 *)
          credits,     (* sender_wake_credits, receiver_wake_credits       *)
          wake,        (* tokens in sender_wake, receiver_wake             *)
          pc,          (* where a task is in the call it is making         *)
          dir,         (* "sender" in send, "receiver" in recv             *)
          budget,      (* the WaitBudget of the call                       *)
          result       (* what the last call to return returned            *)

queueVars == <<len, closed, waiters, credits, wake>>
vars == <<len, closed, waiters, credits, wake, pc, dir, budget, result>>

Dirs == {"sender", "receiver"}
Results == {"none", "Ok", "QueueClosed", "QueueFull", "QueueEmpty", "Timeout",
            "CannotBlock", "Busy"}

(* "try": top of the loop, first time; "wait": registered, mutex released; *)
(* "acquired": took a token, not yet confirmed; "timed_out": gave up, not  *)
(* yet reconciled; "retry": top of the loop after a confirmed token.       *)
Points == {"idle", "try", "wait", "acquired", "timed_out", "retry", "panicked"}

TypeOK ==
    /\ len \in 0 .. Capacity
    /\ closed \in BOOLEAN
    /\ waiters \in [Dirs -> Nat]
    /\ credits \in [Dirs -> Nat]
    /\ wake \in [Dirs -> 0 .. WakeMax]
    /\ pc \in [Task -> Points]
    /\ dir \in [Task -> Dirs]
    /\ budget \in [Task -> Budgets \cup {"NoWait"}]
    /\ result \in Results

Init ==
    /\ len = 0
    /\ closed = FALSE
    /\ waiters = [d \in Dirs |-> 0]
    /\ credits = [d \in Dirs |-> 0]
    /\ wake = [d \in Dirs |-> 0]
    /\ pc = [t \in Task |-> "idle"]
    /\ dir = [t \in Task |-> "sender"]
    /\ budget = [t \in Task |-> "NoWait"]
    /\ result = "none"

(* Messages a receiver can take, slots a sender can fill.                  *)
Available(d) == IF d = "sender" THEN Capacity - len ELSE len

(* A task moves on inside its call, or its call returns and the call's     *)
(* locals are gone.                                                        *)
Goto(t, point) ==
    /\ pc' = [pc EXCEPT ![t] = point]
    /\ UNCHANGED <<dir, budget, result>>

Return(t, r) ==
    /\ pc' = [pc EXCEPT ![t] = "idle"]
    /\ dir' = [dir EXCEPT ![t] = "sender"]
    /\ budget' = [budget EXCEPT ![t] = "NoWait"]
    /\ result' = r

(* A failed expect or a failed give.  The firmware halts, so what a panic  *)
(* leaves half done is not looked at.                                      *)
Panic(t) == Goto(t, "panicked") /\ UNCHANGED queueVars
-----------------------------------------------------------------------------
(* The conditions and updates the handlers share.  Each is preceded by     *)
(* faulty variants of itself, which the specification never uses.          *)
HasRoom == len < Capacity

NeedsFirstSignal(d) == waiters[d] > 0 /\ credits[d] = 0
NeedsSignalReceiverOnly(d) == d = "receiver" /\ waiters[d] > credits[d]
NeedsSignal(d) == waiters[d] > credits[d]

PostCreditForgotten(d) == UNCHANGED credits
PostCredit(d) == credits' = [credits EXCEPT ![d] = @ + 1]

ConfirmCreditForgotten(d) == UNCHANGED credits
ConfirmCredit(d) == credits' = [credits EXCEPT ![d] = @ - 1]

Unregister(d) == waiters' = [waiters EXCEPT ![d] = @ - 1]

MissingIgnored(d) == 0
Missing(d) == waiters[d] - credits[d]
-----------------------------------------------------------------------------
(* signal_one_receiver and signal_one_sender, under the state mutex: post  *)
(* one token unless every registered waiter already has one.               *)
signal_one(d) ==
    IF NeedsSignal(d)
    THEN wake' = [wake EXCEPT ![d] = @ + 1] /\ PostCredit(d)
    ELSE UNCHANGED <<wake, credits>>

SignalFails(d) == NeedsSignal(d) /\ wake[d] = WakeMax

(* A task calls send or recv with some timeout.                            *)
Call(t, d, b) ==
    /\ pc[t] = "idle"
    /\ pc' = [pc EXCEPT ![t] = "try"]
    /\ dir' = [dir EXCEPT ![t] = d]
    /\ budget' = [budget EXCEPT ![t] = b]
    /\ UNCHANGED <<queueVars, result>>

AtTop(t, d) == pc[t] \in {"try", "retry"} /\ dir[t] = d

(* The first mutex section of send.                                        *)
send_closed(t) ==
    /\ AtTop(t, "sender")
    /\ closed
    /\ Return(t, "QueueClosed")
    /\ UNCHANGED queueVars

send_ok(t) ==
    /\ AtTop(t, "sender")
    /\ ~closed
    /\ HasRoom
    /\ IF SignalFails("receiver") THEN Panic(t)
       ELSE /\ len' = len + 1
            /\ signal_one("receiver")
            /\ Return(t, "Ok")
            /\ UNCHANGED <<closed, waiters>>

(* The first mutex section of recv: messages are drained before closed is  *)
(* looked at.                                                              *)
recv_ok(t) ==
    /\ AtTop(t, "receiver")
    /\ len > 0
    /\ IF SignalFails("sender") THEN Panic(t)
       ELSE /\ len' = len - 1
            /\ signal_one("sender")
            /\ Return(t, "Ok")
            /\ UNCHANGED <<closed, waiters>>

recv_closed(t) ==
    /\ AtTop(t, "receiver")
    /\ len = 0
    /\ closed
    /\ Return(t, "QueueClosed")
    /\ UNCHANGED queueVars

(* Full or empty and open: NoWait and Zero return, Finite and Forever      *)
(* register as waiters after prepare_blocking.                             *)
WouldBlock(t, d) == AtTop(t, d) /\ ~closed /\ Available(d) = 0

give_up(t, d) ==
    /\ WouldBlock(t, d)
    /\ budget[t] \in {"NoWait", "Zero"}
    /\ Return(t, IF budget[t] = "Zero" THEN "Timeout"
                 ELSE IF d = "sender" THEN "QueueFull" ELSE "QueueEmpty")
    /\ UNCHANGED queueVars

register(t, d) ==
    /\ WouldBlock(t, d)
    /\ budget[t] \in {"Finite", "Forever"}
    /\ waiters' = [waiters EXCEPT ![d] = @ + 1]
    /\ Goto(t, "wait")
    /\ UNCHANGED <<len, closed, credits, wake>>

(* prepare_blocking fails: the scheduler does not run or the deadline      *)
(* overflows.  Only the first time round: a task that has blocked once     *)
(* runs under a running scheduler and has its deadline.                    *)
prepare_blocking_fails(t, d) ==
    /\ WouldBlock(t, d)
    /\ pc[t] = "try"
    /\ budget[t] \in {"Finite", "Forever"}
    /\ Return(t, "CannotBlock")
    /\ UNCHANGED queueVars

(* lock_state fails: the mutex is contended while this task has suspended  *)
(* the scheduler.  Again only before the task has blocked: at the top of   *)
(* send or recv, or (from "idle") in close or len.                         *)
lock_state_fails(t) ==
    /\ pc[t] \in {"idle", "try"}
    /\ Return(t, "Busy")
    /\ UNCHANGED queueVars
-----------------------------------------------------------------------------
(* wait_once, outside the mutex: take a token, or find none after the      *)
(* deadline (Finite only).                                                 *)
take_token(t) ==
    /\ pc[t] = "wait"
    /\ wake[dir[t]] > 0
    /\ wake' = [wake EXCEPT ![dir[t]] = @ - 1]
    /\ Goto(t, "acquired")
    /\ UNCHANGED <<len, closed, waiters, credits>>

expire(t) ==
    /\ pc[t] = "wait"
    /\ budget[t] = "Finite"
    /\ wake[dir[t]] = 0
    /\ Goto(t, "timed_out")
    /\ UNCHANGED queueVars

(* The second mutex section, after a token: confirm the credit, leave the  *)
(* waiters, go round the loop.                                             *)
confirm(t, d) ==
    /\ pc[t] = "acquired"
    /\ dir[t] = d
    /\ IF credits[d] = 0 \/ waiters[d] = 0 THEN Panic(t)
       ELSE /\ ConfirmCredit(d)
            /\ Unregister(d)
            /\ Goto(t, "retry")
            /\ UNCHANGED <<len, closed, wake>>

(* The second mutex section, after a timeout: a token that arrived in the  *)
(* meantime is consumed and the loop goes on; otherwise the call fails.    *)
race_token(t, d) ==
    /\ pc[t] = "timed_out"
    /\ dir[t] = d
    /\ wake[d] > 0
    /\ IF credits[d] = 0 \/ waiters[d] = 0 THEN Panic(t)
       ELSE /\ wake' = [wake EXCEPT ![d] = @ - 1]
            /\ ConfirmCredit(d)
            /\ Unregister(d)
            /\ Goto(t, "retry")
            /\ UNCHANGED <<len, closed>>

genuine_timeout(t, d) ==
    /\ pc[t] = "timed_out"
    /\ dir[t] = d
    /\ wake[d] = 0
    /\ IF waiters[d] = 0 THEN Panic(t)
       ELSE /\ Unregister(d)
            /\ Return(t, IF closed /\ (d = "sender" \/ len = 0)
                         THEN "QueueClosed" ELSE "Timeout")
            /\ UNCHANGED <<len, closed, credits, wake>>
-----------------------------------------------------------------------------
(* broadcast_wake posts the missing tokens of both directions.             *)
BroadcastFails(d) ==
    \/ credits[d] > waiters[d]
    \/ wake[d] + Missing(d) > WakeMax

close(t) ==
    /\ pc[t] = "idle"
    /\ IF closed THEN Return(t, "Ok") /\ UNCHANGED queueVars
       ELSE IF \E d \in Dirs : BroadcastFails(d) THEN Panic(t)
       ELSE /\ closed' = TRUE
            /\ wake' = [d \in Dirs |-> wake[d] + Missing(d)]
            /\ credits' = waiters
            /\ Return(t, "Ok")
            /\ UNCHANGED <<len, waiters>>
-----------------------------------------------------------------------------
Send(t) ==
    \/ send_closed(t) \/ send_ok(t)
    \/ give_up(t, "sender") \/ register(t, "sender")
    \/ confirm(t, "sender") \/ race_token(t, "sender") \/ genuine_timeout(t, "sender")

Recv(t) ==
    \/ recv_closed(t) \/ recv_ok(t)
    \/ give_up(t, "receiver") \/ register(t, "receiver")
    \/ confirm(t, "receiver") \/ race_token(t, "receiver") \/ genuine_timeout(t, "receiver")

Fail(t) == lock_state_fails(t) \/ \E d \in Dirs : prepare_blocking_fails(t, d)

(* What a task does inside a call, as opposed to deciding to make one.     *)
Progress(t) == Send(t) \/ Recv(t) \/ take_token(t)

Next ==
    \E t \in Task :
        \/ \E d \in Dirs, b \in Budgets : Call(t, d, b)
        \/ Progress(t) \/ expire(t) \/ Fail(t) \/ close(t)

Spec == Init /\ [][Next]_vars

(* Every ready task is eventually scheduled and deadlines pass.            *)
Fairness == \A t \in Task : WF_vars(Progress(t)) /\ WF_vars(expire(t))
FairSpec == Spec /\ Fairness
-----------------------------------------------------------------------------
(* Tasks at some points of a call in one direction.                        *)
At(d, points) == {t \in Task : dir[t] = d /\ pc[t] \in points}
Registered(d) == At(d, {"wait", "acquired", "timed_out"})
Retrying(d) == At(d, {"retry"})

(* The waiter counter is the number of tasks between registering and       *)
(* unregistering, on every path through send and recv (so a queue with no  *)
(* call in flight is dropped with both counters at zero).                  *)
WaitersAreRegistered ==
    \A d \in Dirs : waiters[d] = Cardinality(Registered(d))

(* A credit stands for one token: still in the semaphore, or taken by a    *)
(* task that has not confirmed it yet.  And tokens are only posted for     *)
(* tasks that are there to consume them (credits <= waiters, ADR 0027).    *)
CreditsAccountForTokens ==
    \A d \in Dirs :
        /\ credits[d] = wake[d] + Cardinality(At(d, {"acquired"}))
        /\ credits[d] <= waiters[d]

(* No lost wakeup: if some waiter has no token coming, then every message  *)
(* (or free slot) already has a token or a woken task on its way to it.    *)
NoLostWakeup ==
    \A d \in Dirs :
        waiters[d] > credits[d] /\ ~closed
            => Available(d) <= credits[d] + Cardinality(Retrying(d))

(* close leaves no waiter behind: once the queue is closed every           *)
(* registered waiter has a token.                                          *)
ClosedWakesEveryone == closed => credits = waiters

(* None of the expects and none of the fatal give failures is reachable.   *)
NoPanic == \A t \in Task : pc[t] # "panicked"

(* A call never reports Timeout, QueueFull or QueueEmpty on a queue that   *)
(* is closed when it decides: when a timeout and close race, QueueClosed   *)
(* (or a drained message) wins (ADR 0027, section 6).                      *)
ClosedBeatsTimeout ==
    [][\A t \in Task :
          closed /\ pc[t] # "idle" /\ pc'[t] = "idle"
              => result' \in {"Ok", "QueueClosed", "Busy"}]_vars

(* A receiver that waits while messages are queued is not left waiting:    *)
(* the messages run out or no unwoken receiver remains.  The same for      *)
(* senders and free slots.                                                 *)
WaitersGetTheirTurn ==
    \A d \in Dirs :
        waiters[d] > 0 /\ Available(d) > 0 ~> waiters[d] = 0 \/ Available(d) = 0
=============================================================================
