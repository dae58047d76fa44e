---------------------------- MODULE MessageQueue ----------------------------
(***************************************************************************)
(* What every OSAL queue promises of its messages: a bounded FIFO that can *)
(* be closed once, refuses sends from then on, and is drained before it    *)
(* reports that it is closed.  ByteQueue implements it with a ring.        *)
(***************************************************************************)
EXTENDS Naturals, Sequences

CONSTANTS Msg,         (* the messages of the queue's message size         *)
          NoMsg,       (* what a caller has in hand when it gets no message *)
          Capacity     (* number of messages the queue holds               *)

VARIABLES queue,       (* the messages, oldest first                       *)
          closed,
          reply        (* the last call, its outcome and its message       *)

vars == <<queue, closed, reply>>

Init == queue = <<>> /\ closed = FALSE /\ reply = <<"none", "none", NoMsg>>

Send(m) ==
    /\ ~closed /\ Len(queue) < Capacity
    /\ queue' = Append(queue, m)
    /\ reply' = <<"send", "Ok", NoMsg>>
    /\ UNCHANGED closed

Recv ==
    /\ queue # <<>>
    /\ reply' = <<"recv", "Ok", Head(queue)>>
    /\ queue' = Tail(queue)
    /\ UNCHANGED closed

Close == closed' = TRUE /\ reply' = <<"close", "Ok", NoMsg>> /\ UNCHANGED queue

(* A call that fails leaves the queue alone and says why: a sender may     *)
(* meet a closed or a full queue, a receiver only an empty one.            *)
Refuse(call, error) ==
    reply' = <<call, error, NoMsg>> /\ UNCHANGED <<queue, closed>>

Refused ==
    \/ \E call \in {"send", "recv"} : Refuse(call, "InvalidMessageSize")
    \/ closed /\ Refuse("send", "QueueClosed")
    \/ ~closed /\ Len(queue) = Capacity /\ Refuse("send", "QueueFull")
    \/ closed /\ queue = <<>> /\ Refuse("recv", "QueueClosed")
    \/ ~closed /\ queue = <<>> /\ Refuse("recv", "QueueEmpty")

Next == (\E m \in Msg : Send(m)) \/ Recv \/ Close \/ Refused

Spec == Init /\ [][Next]_vars
=============================================================================
