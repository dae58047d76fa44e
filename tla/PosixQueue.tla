----------------------------- MODULE PosixQueue -----------------------------
(***************************************************************************)
(* osal-backend-posix/src/queue.rs: a ByteQueue under a pthread mutex with *)
(* one condition variable for its receivers and one for its senders.       *)
(*                                                                         *)
(* Of the buffer only its length and its closed flag are kept; that the    *)
(* messages come out in order is ByteQueue's concern.  A section under the *)
(* mutex is one step; pthread_cond_wait ends one and its return starts     *)
(* another.                                                                *)
(***************************************************************************)
EXTENDS Naturals, FiniteSets

CONSTANTS Caller,           (* threads that use the queue                  *)
          Capacity,         (* messages the buffer holds                   *)
          TimeoutConsumes   (* see PosixCondvar                            *)

VARIABLES len,      (* messages in the buffer                              *)
          closed,   (* ByteQueue::closed                                   *)
          op,       (* the operation a caller is in                        *)
          timeout,  (* its timeout argument                                *)
          point,    (* where it is, see PosixCondvar                       *)
          result    (* what the last call to return returned               *)

vars == <<len, closed, op, timeout, point, result>>

Condvar == INSTANCE PosixCondvar

Ops == {"send", "recv"}
Timeouts == {"NoWait", "After", "Forever"}
Results == {"none", "Ok", "QueueFull", "QueueEmpty", "QueueClosed", "Timeout",
            "Overflow"}

(* Everything has its type, and the buffer never exceeds its capacity.     *)
TypeOK ==
    /\ len \in 0 .. Capacity
    /\ closed \in BOOLEAN
    /\ op \in [Caller -> Ops]
    /\ timeout \in [Caller -> Timeouts]
    /\ point \in [Caller -> Condvar!Points]
    /\ result \in Results

Init ==
    /\ len = 0
    /\ closed = FALSE
    /\ op = [c \in Caller |-> "send"]
    /\ timeout = [c \in Caller |-> "NoWait"]
    /\ point = [c \in Caller |-> "idle"]
    /\ result = "none"

Using(o) == {c \in Caller : op[c] = o}
At(o, p) == {c \in Using(o) : point[c] = p}
Other(o) == IF o = "send" THEN "recv" ELSE "send"

(* What an operation of this kind finds: messages to take, or free slots.  *)
Available(o) == IF o = "send" THEN Capacity - len ELSE len

(* The conditions and updates below are preceded by faulty variants of     *)
(* themselves, which the specification never uses.                         *)

(* wake_one_after_commit on the condvar of the other side.                 *)
WakeOneOnEdge(o) ==
    IF Available(Other(o)) = 0 THEN Condvar!signal(point, Using(Other(o))) ELSE {point}
WakeOne(o) == Condvar!signal(point, Using(Other(o)))

(* close broadcasts not_empty, then not_full.                              *)
BroadcastReceivers == Condvar!broadcast(point, Using("recv"))
BroadcastBoth ==
    [c \in Caller |-> IF point[c] = "asleep" THEN "woken" ELSE point[c]]

(* A caller outside the queue has the op and timeout of Init.              *)
Return(c, r, p) ==
    /\ point' = [p EXCEPT ![c] = "idle"]
    /\ op' = [op EXCEPT ![c] = "send"]
    /\ timeout' = [timeout EXCEPT ![c] = "NoWait"]
    /\ result' = r

(* The caller gets the mutex, first or back from a wait, and goes on to    *)
(* the checks at the top of its loop.                                      *)
Enters(c, o) == op[c] = o /\ point[c] \in {"entry", "woken"}

HasRoom == len < Capacity

SendRefused(c) == closed

(* recv finds a closed queue only when nothing is left in it.              *)
RecvRefused == closed /\ len = 0

(* A wait with a deadline: timed_wait rather than wait.                    *)
TimedWait(c) == timeout[c] = "After"

(* A call with no room, or with nothing to take.                           *)
Blocks(c, o) ==
    /\ Enters(c, o)
    /\ ~closed
    /\ IF o = "send" THEN ~HasRoom ELSE len = 0
-----------------------------------------------------------------------------
(* A caller starts an operation: the message size is validated against a   *)
(* constant before the mutex.                                              *)
call(c, o, t) ==
    /\ point[c] = "idle"
    /\ op' = [op EXCEPT ![c] = o]
    /\ timeout' = [timeout EXCEPT ![c] = t]
    /\ point' = [point EXCEPT ![c] = "entry"]
    /\ UNCHANGED <<len, closed, result>>

send_closed(c) ==
    /\ Enters(c, "send")
    /\ SendRefused(c)
    /\ Return(c, "QueueClosed", point)
    /\ UNCHANGED <<len, closed>>

(* abs_deadline does not fit a timespec: checked once, before the loop.    *)
deadline_overflow(c) ==
    /\ point[c] = "entry" /\ timeout[c] = "After"
    /\ op[c] = "send" => ~SendRefused(c)
    /\ Return(c, "Overflow", point)
    /\ UNCHANGED <<len, closed>>

send_ok(c) ==
    /\ Enters(c, "send")
    /\ ~SendRefused(c)
    /\ HasRoom
    /\ len' = len + 1
    /\ \E p \in WakeOne("send") : Return(c, "Ok", p)
    /\ UNCHANGED closed

recv_ok(c) ==
    /\ Enters(c, "recv")
    /\ ~RecvRefused
    /\ len > 0
    /\ len' = len - 1
    /\ \E p \in WakeOne("recv") : Return(c, "Ok", p)
    /\ UNCHANGED closed

recv_closed(c) ==
    /\ Enters(c, "recv")
    /\ RecvRefused
    /\ Return(c, "QueueClosed", point)
    /\ UNCHANGED <<len, closed>>

would_block(c, o) ==
    /\ Blocks(c, o)
    /\ timeout[c] = "NoWait"
    /\ Return(c, IF o = "send" THEN "QueueFull" ELSE "QueueEmpty", point)
    /\ UNCHANGED <<len, closed>>

(* not_full.wait, not_empty.timed_wait and so on: the caller sleeps and    *)
(* the mutex is free, in one step.                                         *)
wait(c, o) ==
    /\ Blocks(c, o)
    /\ timeout[c] # "NoWait"
    /\ point' = [point EXCEPT ![c] = "asleep"]
    /\ UNCHANGED <<len, closed, op, timeout, result>>

(* pthread_cond_wait may return for no reason.                             *)
spurious_wakeup(c) ==
    /\ point[c] = "asleep"
    /\ point' = Condvar!Unblock(point, c)
    /\ UNCHANGED <<len, closed, op, timeout, result>>

(* The absolute deadline of a timed wait passes.                           *)
expire(c) ==
    /\ point[c] = "asleep" /\ TimedWait(c)
    /\ point' = [point EXCEPT ![c] = "expired"]
    /\ UNCHANGED <<len, closed, op, timeout, result>>

(* Back from an expired wait the call returns at once.                     *)
timed_out(c) ==
    /\ point[c] = "expired"
    /\ Return(c, "Timeout", point)
    /\ UNCHANGED <<len, closed>>

(* close: the first call wakes both sides under the mutex, any later one   *)
(* returns Ok and does nothing.                                            *)
close ==
    /\ ~closed
    /\ closed' = TRUE
    /\ point' = BroadcastBoth
    /\ UNCHANGED <<len, op, timeout, result>>

Proceed(c) ==
    \/ send_closed(c) \/ send_ok(c)
    \/ recv_closed(c) \/ recv_ok(c)
    \/ \E o \in Ops : would_block(c, o) \/ wait(c, o)

Next ==
    \/ \E c \in Caller : \E o \in Ops, t \in Timeouts : call(c, o, t)
    \/ \E c \in Caller : deadline_overflow(c)
    \/ \E c \in Caller : Proceed(c)
    \/ \E c \in Caller : spurious_wakeup(c) \/ expire(c) \/ timed_out(c)
    \/ close

Spec == Init /\ [][Next]_vars

(* The mutex is free infinitely often and a thread that wants it gets it;  *)
(* a deadline is absolute, so that a wait repeated after it has passed     *)
(* returns at once.  Nothing makes anybody call, close or wake up without  *)
(* a reason.                                                               *)
Fairness ==
    \A c \in Caller : /\ WF_vars(Proceed(c))
                      /\ WF_vars(timed_out(c))
                      /\ SF_vars(expire(c))
FairSpec == Spec /\ Fairness
-----------------------------------------------------------------------------
(* While anybody sleeps on one side, there are at least as many callers    *)
(* on their way back from that side's condvar as there are messages (or    *)
(* slots) for them: no message waits in the buffer with only sleepers to   *)
(* take it, although each operation signals one waiter only and a caller   *)
(* from outside may take what the signal was for.                          *)
NoLostWakeup ==
    \A o \in Ops :
        At(o, "asleep") # {} => Available(o) <= Cardinality(At(o, "woken"))

(* Messages and sleeping receivers, or free slots and sleeping senders,    *)
(* do not stay side by side for ever, and nobody sleeps on a closed queue  *)
(* for ever: close wakes both sides, and whoever it wakes is refused.      *)
ServiceGoesOn ==
    \A o \in Ops : []<>(At(o, "asleep") = {} \/ (Available(o) = 0 /\ ~closed))
=============================================================================
