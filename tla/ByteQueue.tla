----------------------------- MODULE ByteQueue -----------------------------
(***************************************************************************)
(* The ring buffer of osal-portable/src/byte_queue.rs, which stores the    *)
(* messages of the mock, POSIX and FreeRTOS queues.  A slot of             *)
(* message_size bytes is one cell of storage, and a message is the content *)
(* of a slot.  The queue is used by one caller at a time: the backends     *)
(* guard it with their mutex.                                              *)
(***************************************************************************)
EXTENDS Integers, Sequences

CONSTANTS Msg,         (* the contents of a slot                           *)
          Zero,        (* what new fills the storage with                  *)
          WrongSize,   (* a message or buffer of another size              *)
          NoMsg,       (* no message was read                              *)
          Capacity

ASSUME ByteQueueAssumption ==
    /\ Capacity \in Nat \ {0}
    /\ WrongSize \notin Msg
    /\ Zero \in Msg

VARIABLES storage, head, tail, len, closed,
          reply        (* the last call, its outcome and its message       *)

vars == <<storage, head, tail, len, closed, reply>>

Slots == 0 .. (Capacity - 1)
Calls == {"none", "send", "recv", "close"}
Outcomes == {"none", "Ok", "InvalidMessageSize", "QueueClosed", "QueueFull",
             "QueueEmpty"}

TypeOK ==
    /\ storage \in [Slots -> Msg]
    /\ head \in Slots
    /\ tail \in Slots
    /\ len \in 0 .. Capacity
    /\ closed \in BOOLEAN
    /\ reply \in Calls \X Outcomes \X (Msg \cup {NoMsg})

Init ==
    /\ storage = [i \in Slots |-> Zero]
    /\ head = 0
    /\ tail = 0
    /\ len = 0
    /\ closed = FALSE
    /\ reply = <<"none", "none", NoMsg>>

(* Faulty variants, which the specification never uses, then the real.     *)
FullTooLate == len > Capacity
is_full == len = Capacity

Advance(i) == (i + 1) % Capacity

Refuse(call, error) ==
    /\ reply' = <<call, error, NoMsg>>
    /\ UNCHANGED <<storage, head, tail, len, closed>>
-----------------------------------------------------------------------------
try_send(m) ==
    IF m = WrongSize THEN Refuse("send", "InvalidMessageSize")
    ELSE IF closed THEN Refuse("send", "QueueClosed")
    ELSE IF is_full THEN Refuse("send", "QueueFull")
    ELSE /\ storage' = [storage EXCEPT ![tail] = m]
         /\ tail' = Advance(tail)
         /\ len' = len + 1
         /\ reply' = <<"send", "Ok", NoMsg>>
         /\ UNCHANGED <<head, closed>>

(* The buffer a receiver offers has the right size or it has not.          *)
try_recv(fits) ==
    IF ~fits THEN Refuse("recv", "InvalidMessageSize")
    ELSE IF len = 0 THEN Refuse("recv", IF closed THEN "QueueClosed" ELSE "QueueEmpty")
    ELSE /\ reply' = <<"recv", "Ok", storage[head]>>
         /\ head' = Advance(head)
         /\ len' = len - 1
         /\ UNCHANGED <<storage, tail, closed>>

close ==
    /\ closed' = TRUE
    /\ reply' = <<"close", "Ok", NoMsg>>
    /\ UNCHANGED <<storage, head, tail, len>>

Next ==
    \/ \E m \in Msg \cup {WrongSize} : try_send(m)
    \/ \E fits \in BOOLEAN : try_recv(fits)
    \/ close

Spec == Init /\ [][Next]_vars
-----------------------------------------------------------------------------
(* The write index is always len slots ahead of the read index, round the  *)
(* ring, so the slots between them are the ones that hold messages.        *)
TailFollowsHead ==
    tail = IF head + len < Capacity THEN head + len ELSE head + len - Capacity

IInv == TypeOK /\ TailFollowsHead

(* The messages in the ring, oldest first.                                 *)
Cell(i) == IF head + i < Capacity THEN head + i ELSE head + i - Capacity
Messages == [i \in 1 .. len |-> storage[Cell(i - 1)]]

Fifo == INSTANCE MessageQueue WITH queue <- Messages

(* The ring implements the bounded FIFO: messages come out once each, in   *)
(* the order they went in, across any number of wraps and a close, and     *)
(* every refusal names a condition that holds.                             *)
ImplementsFifo == Fifo!Spec
=============================================================================
