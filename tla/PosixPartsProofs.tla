-------------------------- MODULE PosixPartsProofs --------------------------
(***************************************************************************)
(* Proofs about the parts of MCPosixParts, for every capacity, every set   *)
(* of messages and every finite set of threads: the ring implements the    *)
(* bounded FIFO of MessageQueue, the blocking queue loses no wakeup, and   *)
(* the lazily created statics are created once.                            *)
(***************************************************************************)
EXTENDS MCPosixParts, SequenceTheorems, FiniteSetTheorems, TLAPS

(* Advance, without the remainder.                                         *)
LEMMA AdvanceWraps ==
    ASSUME NEW i \in Slots
    PROVE  Advance(i) = IF i + 1 < Capacity THEN i + 1 ELSE 0
<1>1. CASE i + 1 < Capacity
  BY <1>1, ByteQueueAssumption DEF Advance, Slots
<1>2. CASE i + 1 = Capacity
  BY <1>2, ByteQueueAssumption DEF Advance, Slots
<1>. QED BY <1>1, <1>2, ByteQueueAssumption DEF Slots

(* The outcome of a call has its type.                                     *)
LEMMA ReplyType ==
    ASSUME NEW c \in Calls, NEW o \in Outcomes, NEW m \in Msg \cup {NoMsg},
           reply' = <<c, o, m>>
    PROVE  reply' \in Calls \X Outcomes \X (Msg \cup {NoMsg})
  OBVIOUS

(* The empty ring is consistent.                                           *)
LEMMA InitEstablishesIInv == Init => IInv
<1>. SUFFICES ASSUME Init PROVE IInv
  OBVIOUS
<1>1. reply \in Calls \X Outcomes \X (Msg \cup {NoMsg})
  BY DEF Init, Calls, Outcomes
<1>2. closed \in BOOLEAN
  BY DEF Init
<1>3. /\ storage \in [Slots -> Msg] /\ head \in Slots /\ tail \in Slots
      /\ len \in 0 .. Capacity /\ TailFollowsHead
  BY ByteQueueAssumption DEF Init, TailFollowsHead, Slots
<1>. QED BY <1>1, <1>2, <1>3 DEF IInv, TypeOK

(* Both indices advance by one slot, so the distance between them follows  *)
(* len.                                                                    *)
LEMMA NextPreservesIInv == IInv /\ [Next]_vars => IInv'
<1>. SUFFICES ASSUME IInv, [Next]_vars PROVE IInv'
  OBVIOUS
<1>. USE ByteQueueAssumption
<1>. DEFINE Ring == /\ storage \in [Slots -> Msg] /\ head \in Slots /\ tail \in Slots
                    /\ len \in 0 .. Capacity /\ TailFollowsHead
<1>0. /\ Ring
      /\ closed \in BOOLEAN
      /\ reply \in Calls \X Outcomes \X (Msg \cup {NoMsg})
  BY DEF IInv, TypeOK
<1>1. ASSUME NEW c \in {"send", "recv"}, NEW e \in Outcomes, Refuse(c, e) PROVE IInv'
  <2>1. reply' \in Calls \X Outcomes \X (Msg \cup {NoMsg})
    BY <1>1, ReplyType DEF Refuse, Calls
  <2>. QED BY <1>0, <1>1, <2>1 DEF Refuse, IInv, TypeOK, TailFollowsHead
<1>2. ASSUME NEW m \in Msg \cup {WrongSize}, try_send(m) PROVE IInv'
  <2>1. CASE m = WrongSize \/ closed \/ is_full
    BY <1>1, <1>2, <2>1 DEF try_send, Outcomes
  <2>2. CASE ~(m = WrongSize \/ closed \/ is_full)
    <3>1. /\ m \in Msg /\ reply' = <<"send", "Ok", NoMsg>> /\ closed' = closed
          /\ storage' = [storage EXCEPT ![tail] = m] /\ head' = head
          /\ tail' = Advance(tail) /\ len' = len + 1 /\ len # Capacity
      BY <1>2, <2>2 DEF try_send, is_full
    <3>2. reply' \in Calls \X Outcomes \X (Msg \cup {NoMsg})
      BY <3>1, ReplyType DEF Calls, Outcomes
    <3>3. tail' = IF tail + 1 < Capacity THEN tail + 1 ELSE 0
      BY <1>0, <3>1, AdvanceWraps
    <3>4. Ring'
      BY <1>0, <3>1, <3>3 DEF TailFollowsHead, Slots
    <3>. QED BY <1>0, <3>1, <3>2, <3>4 DEF IInv, TypeOK
  <2>. QED BY <2>1, <2>2
<1>3. ASSUME NEW fits \in BOOLEAN, try_recv(fits) PROVE IInv'
  <2>1. CASE ~fits \/ len = 0
    BY <1>1, <1>3, <2>1 DEF try_recv, Outcomes
  <2>2. CASE ~(~fits \/ len = 0)
    <3>1. /\ reply' = <<"recv", "Ok", storage[head]>> /\ closed' = closed
          /\ storage' = storage /\ tail' = tail
          /\ head' = Advance(head) /\ len' = len - 1 /\ len # 0
      BY <1>3, <2>2 DEF try_recv
    <3>2. storage[head] \in Msg
      BY <1>0
    <3>3. reply' \in Calls \X Outcomes \X (Msg \cup {NoMsg})
      BY <3>1, <3>2, ReplyType DEF Calls, Outcomes
    <3>4. head' = IF head + 1 < Capacity THEN head + 1 ELSE 0
      BY <1>0, <3>1, AdvanceWraps
    <3>5. Ring'
      BY <1>0, <3>1, <3>4 DEF TailFollowsHead, Slots
    <3>. QED BY <1>0, <3>1, <3>3, <3>5 DEF IInv, TypeOK
  <2>. QED BY <2>1, <2>2
<1>4. CASE close
  <2>1. reply' \in Calls \X Outcomes \X (Msg \cup {NoMsg})
    BY <1>4, ReplyType DEF close, Calls, Outcomes
  <2>2. Ring' /\ closed' \in BOOLEAN
    BY <1>0, <1>4 DEF close, TailFollowsHead
  <2>. QED BY <2>1, <2>2 DEF IInv, TypeOK
<1>5. CASE UNCHANGED vars
  BY <1>0, <1>5 DEF vars, IInv, TypeOK, TailFollowsHead
<1>. QED BY <1>2, <1>3, <1>4, <1>5 DEF Next

(* The ring invariant holds in every behaviour: len never exceeds the      *)
(* capacity, both indices stay inside the storage, and the debug           *)
(* assertions of try_send and try_recv never fail.                         *)
THEOREM RingInvariant == Spec => []IInv
  BY InitEstablishesIInv, NextPreservesIInv, PTL DEF Spec
-----------------------------------------------------------------------------
(* The messages of the ring form a sequence of length len.                 *)
LEMMA MessagesType ==
    ASSUME IInv
    PROVE  Messages \in Seq(Msg) /\ Len(Messages) = len
<1>1. len \in Nat /\ \A i \in 1 .. len : storage[Cell(i - 1)] \in Msg
  BY ByteQueueAssumption DEF IInv, TypeOK, Slots, Cell
<1>2. Messages \in [1 .. len -> Msg]
  BY <1>1 DEF Messages
<1>. QED BY <1>1, <1>2

(* Writing at the tail appends: the slot written is the one after the last *)
(* message, and no message is in it.                                       *)
LEMMA SendAppends ==
    ASSUME IInv, IInv', NEW m \in Msg, ~is_full,
           storage' = [storage EXCEPT ![tail] = m], len' = len + 1, head' = head
    PROVE  Messages' = Append(Messages, m)
<1>. USE ByteQueueAssumption
<1>1. Messages \in Seq(Msg) /\ Len(Messages) = len
  BY MessagesType
<1>2. /\ storage \in [Slots -> Msg] /\ head \in Slots /\ len \in 0 .. Capacity
      /\ len < Capacity /\ tail = Cell(len) /\ tail \in Slots
  BY DEF IInv, TypeOK, TailFollowsHead, Cell, is_full
<1>3. \A i \in 1 .. len : Cell(i - 1) \in Slots /\ Cell(i - 1) # tail
  BY <1>2 DEF Cell, Slots
<1>4. \A i \in 1 .. len + 1 : storage'[Cell(i - 1)] = IF i = len + 1 THEN m ELSE storage[Cell(i - 1)]
  BY <1>2, <1>3
<1>5. Messages' = [i \in 1 .. len + 1 |-> storage'[Cell(i - 1)]]
  BY DEF Messages, Cell
<1>6. Append(Messages, m) = [i \in 1 .. len + 1 |-> IF i = len + 1 THEN m ELSE storage[Cell(i - 1)]]
  BY <1>1, <1>2 DEF Messages
<1>. QED BY <1>4, <1>5, <1>6

(* Reading at the head takes the oldest message.                           *)
LEMMA RecvTakesHead ==
    ASSUME IInv, IInv', len # 0,
           storage' = storage, len' = len - 1, head' = Advance(head)
    PROVE  /\ Messages # <<>>
           /\ Head(Messages) = storage[head]
           /\ Messages' = Tail(Messages)
<1>. USE ByteQueueAssumption
<1>1. Messages \in Seq(Msg) /\ Len(Messages) = len
  BY MessagesType
<1>2. storage \in [Slots -> Msg] /\ head \in Slots /\ len \in 1 .. Capacity
  BY DEF IInv, TypeOK
<1>3. head' = IF head + 1 < Capacity THEN head + 1 ELSE 0
  BY <1>2, AdvanceWraps
<1>4. \A i \in 1 .. len - 1 : Cell(i - 1)' = Cell(i)
  BY <1>2, <1>3 DEF Cell, Slots
<1>5. Messages' = [i \in 1 .. len - 1 |-> storage[Cell(i - 1)']]
  BY DEF Messages
<1>6. Messages' = [i \in 1 .. len - 1 |-> storage[Cell(i)]]
  BY <1>4, <1>5
<1>7. Cell(0) = head
  BY <1>2 DEF Cell, Slots
<1>8. Messages # <<>> /\ Head(Messages) = storage[head]
  BY <1>1, <1>2, <1>7 DEF Messages
<1>9. /\ Tail(Messages) \in Seq(Msg)
      /\ Len(Tail(Messages)) = len - 1
      /\ \A i \in 1 .. len - 1 : Tail(Messages)[i] = Messages[i + 1]
  BY <1>1, <1>8, HeadTailProperties
<1>10. \A i \in 1 .. len - 1 : Messages[i + 1] = storage[Cell(i)] /\ storage[Cell(i)] \in Msg
  BY <1>2 DEF Messages, Cell, Slots
<1>11. /\ Messages' \in Seq(Msg)
       /\ Len(Messages') = len - 1
       /\ \A i \in 1 .. len - 1 : Messages'[i] = storage[Cell(i)]
  <2>1. len - 1 \in Nat /\ Messages' \in [1 .. len - 1 -> Msg]
    BY <1>2, <1>6, <1>10
  <2>. QED BY <1>6, <2>1
<1>12. Messages' = Tail(Messages)
  BY <1>9, <1>10, <1>11, SeqEqual
<1>. QED BY <1>8, <1>12

(* Every step of the ring is a step of the FIFO or leaves it alone.        *)
LEMMA StepImplements ==
    ASSUME IInv, IInv', [Next]_vars
    PROVE  [Fifo!Next]_(Fifo!vars)
<1>. USE ByteQueueAssumption
<1>0. Messages \in Seq(Msg) /\ Len(Messages) = len /\ len \in Nat
  BY MessagesType DEF IInv, TypeOK
<1>1. ASSUME NEW c, NEW e, Refuse(c, e) PROVE Fifo!Refuse(c, e)
  BY <1>1 DEF Refuse, Fifo!Refuse, Messages, Cell
<1>2. ASSUME NEW m \in Msg \cup {WrongSize}, try_send(m) PROVE Fifo!Next
  <2>1. CASE m = WrongSize
    BY <1>1, <1>2, <2>1 DEF try_send, Fifo!Next, Fifo!Refused
  <2>2. CASE m # WrongSize /\ closed
    BY <1>1, <1>2, <2>2 DEF try_send, Fifo!Next, Fifo!Refused
  <2>3. CASE m # WrongSize /\ ~closed /\ is_full
    BY <1>0, <1>1, <1>2, <2>3 DEF try_send, is_full, Fifo!Next, Fifo!Refused
  <2>4. CASE m # WrongSize /\ ~closed /\ ~is_full
    <3>1. m \in Msg /\ Messages' = Append(Messages, m)
      BY <1>2, <2>4, SendAppends DEF try_send
    <3>2. Len(Messages) < Capacity
      BY <1>0, <2>4 DEF is_full, IInv, TypeOK
    <3>3. reply' = <<"send", "Ok", NoMsg>> /\ closed' = closed
      BY <1>2, <2>4 DEF try_send
    <3>4. Fifo!Send(m)
      BY <2>4, <3>1, <3>2, <3>3 DEF Fifo!Send
    <3>. QED BY <3>1, <3>4 DEF Fifo!Next
  <2>. QED BY <2>1, <2>2, <2>3, <2>4
<1>3. ASSUME NEW fits \in BOOLEAN, try_recv(fits) PROVE Fifo!Next
  <2>1. CASE ~fits
    BY <1>1, <1>3, <2>1 DEF try_recv, Fifo!Next, Fifo!Refused
  <2>2. CASE fits /\ len = 0
    <3>1. Messages = <<>>
      BY <1>0, <2>2
    <3>2. CASE closed
      BY <1>1, <1>3, <2>2, <3>1, <3>2 DEF try_recv, Fifo!Next, Fifo!Refused
    <3>3. CASE ~closed
      BY <1>1, <1>3, <2>2, <3>1, <3>3 DEF try_recv, Fifo!Next, Fifo!Refused
    <3>. QED BY <3>2, <3>3
  <2>3. CASE fits /\ len # 0
    <3>1. /\ Messages # <<>> /\ Head(Messages) = storage[head]
          /\ Messages' = Tail(Messages)
      BY <1>3, <2>3, RecvTakesHead DEF try_recv
    <3>2. reply' = <<"recv", "Ok", storage[head]>> /\ closed' = closed
      BY <1>3, <2>3 DEF try_recv
    <3>3. Fifo!Recv
      BY <3>1, <3>2 DEF Fifo!Recv
    <3>. QED BY <3>3 DEF Fifo!Next
  <2>. QED BY <2>1, <2>2, <2>3
<1>4. CASE close
  BY <1>4 DEF close, Fifo!Next, Fifo!Close, Messages, Cell
<1>5. CASE UNCHANGED vars
  BY <1>5 DEF vars, Fifo!vars, Messages, Cell
<1>. QED BY <1>2, <1>3, <1>4, <1>5 DEF Next

(* The ring implements the bounded FIFO, for every capacity.               *)
THEOREM RingImplementsFifo == Spec => ImplementsFifo
<1>1. Init => Fifo!Init
  BY DEF Init, Fifo!Init, Messages
<1>2. IInv /\ IInv' /\ [Next]_vars => [Fifo!Next]_(Fifo!vars)
  BY StepImplements
<1>. QED BY <1>1, <1>2, RingInvariant, PTL DEF Spec, ImplementsFifo, Fifo!Spec
-----------------------------------------------------------------------------
(* A bound on the callers on their way back, kept when the bounded number  *)
(* and the callers change together by one.                                 *)
LEMMA CountKeepsUp ==
    ASSUME NEW W, NEW V, IsFiniteSet(W), IsFiniteSet(V), NEW a \in Int, NEW b \in Int,
           a <= Cardinality(W),
           \/ b <= a /\ W \subseteq V
           \/ b <= a - 1 /\ \E x : W \ {x} \subseteq V
           \/ b <= a + 1 /\ \E x \in V \ W : W \subseteq V
    PROVE  b <= Cardinality(V)
  <1>0. Cardinality(W) \in Nat /\ Cardinality(V) \in Nat BY FS_CardinalityType
  <1>1. CASE b <= a /\ W \subseteq V
    <2>1. Cardinality(W) <= Cardinality(V) BY <1>1, FS_Subset
    <2> QED BY <1>0, <1>1, <2>1
  <1>2. CASE b <= a - 1 /\ \E x : W \ {x} \subseteq V
    <2>1. PICK x : W \ {x} \subseteq V BY <1>2
    <2>2. Cardinality(W \ {x}) <= Cardinality(V) BY <2>1, FS_Subset
    <2>3. Cardinality(W \ {x}) = IF x \in W THEN Cardinality(W) - 1 ELSE Cardinality(W)
      BY FS_RemoveElement
    <2> QED BY <1>0, <1>2, <2>2, <2>3
  <1>3. CASE b <= a + 1 /\ \E x \in V \ W : W \subseteq V
    <2>1. PICK x \in V \ W : W \subseteq V BY <1>3
    <2>2. Cardinality(W \cup {x}) <= Cardinality(V) BY <2>1, FS_Subset
    <2>3. Cardinality(W \cup {x}) = Cardinality(W) + 1 BY <2>1, FS_AddElement
    <2> QED BY <1>0, <1>3, <2>2, <2>3
  <1> QED BY <1>1, <1>2, <1>3

QueueTypes ==
    /\ length \in 0 .. QueueCapacity
    /\ op \in [Thread -> Queue!Ops]
    /\ timeout \in [Thread -> Queue!Timeouts]
    /\ point \in [Thread -> Queue!Condvar!Points]

(* close leaves nobody asleep, and nobody goes to sleep after it.          *)
NobodySleepsOnClosed == shut => \A c \in Thread : point[c] # "asleep"

QueueIInv == QueueTypes /\ NobodySleepsOnClosed /\ Queue!NoLostWakeup

Asleep(o) == Queue!At(o, "asleep")
Woken(o) == Queue!At(o, "woken")

USE DEF Queue!Ops, Queue!Timeouts, Queue!Condvar!Points

LEMMA WokenIsFinite ==
    ASSUME NEW o
    PROVE  IsFiniteSet(Woken(o)) /\ IsFiniteSet(Woken(o)')
  BY FS_Subset, QueueAssumption DEF Woken, Queue!At, Queue!Using

LEMMA SameCardinality == ASSUME NEW S PROVE Queue!Cardinality(S) = Cardinality(S)
  BY Zenon DEF Queue!Cardinality, Cardinality

LEMMA SignalWakesOne ==
    ASSUME QueueTypes, NEW o \in Queue!Ops, NEW p \in Queue!WakeOne(o)
    PROVE  \/ p = point /\ Asleep(Queue!Other(o)) = {}
           \/ \E d \in Asleep(Queue!Other(o)) : p = [point EXCEPT ![d] = "woken"]
  BY DEF QueueTypes, Queue!WakeOne, Queue!Condvar!signal, Queue!Condvar!Reachable,
         Queue!Condvar!Unblock, Asleep, Queue!At, Queue!Using

LEMMA QueueInit == Queue!Init => QueueIInv
  BY QueueAssumption
     DEF Queue!Init, QueueIInv, QueueTypes, NobodySleepsOnClosed, Queue!NoLostWakeup,
         Queue!At, Queue!Using

(* A step that returns keeps the types.                                    *)
LEMMA QueueStepTypes == QueueTypes /\ Queue!Next => QueueTypes'
  <1> SUFFICES ASSUME QueueTypes, Queue!Next PROVE QueueTypes'
    OBVIOUS
  <1> USE DEF QueueTypes
  <1>1. ASSUME NEW c \in Thread, NEW o \in Queue!Ops, NEW t \in Queue!Timeouts, Queue!call(c, o, t)
        PROVE  QueueTypes'
    BY <1>1 DEF Queue!call
  <1>2. ASSUME NEW c \in Thread,
               \/ Queue!deadline_overflow(c) \/ Queue!send_closed(c) \/ Queue!recv_closed(c)
               \/ Queue!timed_out(c) \/ \E o \in Queue!Ops : Queue!would_block(c, o)
        PROVE  QueueTypes'
    BY <1>2 DEF Queue!deadline_overflow, Queue!send_closed, Queue!recv_closed, Queue!timed_out,
                Queue!would_block, Queue!Return
  <1>3. ASSUME NEW c \in Thread, Queue!send_ok(c)
        PROVE  QueueTypes'
    <2>1. PICK p \in Queue!WakeOne("send") : Queue!Return(c, "Ok", p) BY <1>3 DEF Queue!send_ok
    <2>2. p \in [Thread -> Queue!Condvar!Points] BY <2>1, SignalWakesOne
    <2>3. length' \in 0 .. QueueCapacity BY <1>3, QueueAssumption DEF Queue!send_ok, Queue!HasRoom
    <2> QED BY <2>1, <2>2, <2>3 DEF Queue!Return
  <1>4. ASSUME NEW c \in Thread, Queue!recv_ok(c)
        PROVE  QueueTypes'
    <2>1. PICK p \in Queue!WakeOne("recv") : Queue!Return(c, "Ok", p) BY <1>4 DEF Queue!recv_ok
    <2>2. p \in [Thread -> Queue!Condvar!Points] BY <2>1, SignalWakesOne
    <2>3. length' \in 0 .. QueueCapacity BY <1>4, QueueAssumption DEF Queue!recv_ok
    <2> QED BY <2>1, <2>2, <2>3 DEF Queue!Return
  <1>5. ASSUME NEW c \in Thread,
               \/ Queue!spurious_wakeup(c) \/ Queue!expire(c)
               \/ \E o \in Queue!Ops : Queue!wait(c, o)
        PROVE  QueueTypes'
    BY <1>5 DEF Queue!spurious_wakeup, Queue!expire, Queue!wait, Queue!Condvar!Unblock
  <1>6. CASE Queue!close BY <1>6 DEF Queue!close, Queue!BroadcastBoth
  <1> QED BY <1>1, <1>2, <1>3, <1>4, <1>5, <1>6 DEF Queue!Next, Queue!Proceed

(* What a step must not do to one side of the queue.                       *)
KeepsUp(o) ==
    /\ Asleep(o)' \subseteq Asleep(o)
    /\ \/ Asleep(o)' = {}
       \/ Queue!Available(o)' <= Queue!Available(o) /\ Woken(o) \subseteq Woken(o)'
       \/ /\ Queue!Available(o)' <= Queue!Available(o) - 1
          /\ \E x : Woken(o) \ {x} \subseteq Woken(o)'
       \/ /\ Queue!Available(o)' <= Queue!Available(o) + 1
          /\ \E x \in Woken(o)' \ Woken(o) : Woken(o) \subseteq Woken(o)'

StepKeepsUp ==
    /\ NobodySleepsOnClosed'
    /\ \A o \in Queue!Ops : KeepsUp(o) \/ Queue!Available(o)' = 0

LEMMA SideKeepsUp ==
    ASSUME QueueIInv, QueueTypes', NEW o \in Queue!Ops, KeepsUp(o)
    PROVE  Asleep(o)' # {} => Queue!Available(o)' <= Cardinality(Woken(o)')
  <1> SUFFICES ASSUME Asleep(o)' # {} PROVE Queue!Available(o)' <= Cardinality(Woken(o)')
    OBVIOUS
  <1>1. Queue!Available(o) \in Int /\ Queue!Available(o)' \in Int
    BY QueueAssumption DEF Queue!Available, QueueIInv, QueueTypes
  <1>2. Asleep(o) # {} BY DEF KeepsUp
  <1>3. Queue!Available(o) <= Cardinality(Woken(o))
    BY <1>2, SameCardinality DEF QueueIInv, Queue!NoLostWakeup, Asleep, Woken
  <1>4. IsFiniteSet(Woken(o)) /\ IsFiniteSet(Woken(o)') BY WokenIsFinite
  <1> QED BY <1>1, <1>3, <1>4, CountKeepsUp DEF KeepsUp

LEMMA BothSidesKeepUp ==
    ASSUME QueueIInv, QueueTypes', StepKeepsUp
    PROVE  QueueIInv'
  <1> SUFFICES ASSUME NEW o \in Queue!Ops, Asleep(o)' # {}
               PROVE  Queue!Available(o)' <= Cardinality(Woken(o)')
    <2>1. \A S : Queue!Cardinality(S) = Cardinality(S) BY SameCardinality
    <2> QED BY <2>1 DEF QueueIInv, StepKeepsUp, Queue!NoLostWakeup, Asleep, Woken
  <1>1. Cardinality(Woken(o)') \in Nat BY WokenIsFinite, FS_CardinalityType
  <1> QED BY <1>1, SideKeepsUp DEF StepKeepsUp

(* Nobody on this side falls asleep or wakes up.                           *)
Untouched(o) == Asleep(o)' = Asleep(o) /\ Woken(o)' = Woken(o) /\ UNCHANGED length

LEMMA UntouchedKeepsUp ==
    ASSUME QueueTypes, NEW o \in Queue!Ops, Untouched(o)
    PROVE  KeepsUp(o)
  <1>1. Queue!Available(o) \in Int /\ Queue!Available(o)' = Queue!Available(o)
    BY QueueAssumption DEF Queue!Available, QueueTypes, Untouched
  <1> QED BY <1>1 DEF Untouched, KeepsUp

LEMMA CallKeepsUp ==
    ASSUME QueueIInv, NEW c \in Thread,
           \/ \E o \in Queue!Ops, t \in Queue!Timeouts : Queue!call(c, o, t)
           \/ Queue!deadline_overflow(c) \/ Queue!timed_out(c)
    PROVE  StepKeepsUp
  <1> USE DEF QueueIInv, QueueTypes, Queue!call, Queue!deadline_overflow, Queue!timed_out,
              Queue!Return
  <1>1. NobodySleepsOnClosed' BY DEF NobodySleepsOnClosed
  <1>2. ASSUME NEW o \in Queue!Ops PROVE Untouched(o)
    BY DEF Untouched, Asleep, Woken, Queue!At, Queue!Using
  <1> QED BY <1>1, <1>2, UntouchedKeepsUp DEF StepKeepsUp

LEMMA RefusalKeepsUp ==
    ASSUME QueueIInv, NEW c \in Thread, Queue!send_closed(c) \/ Queue!recv_closed(c)
    PROVE  StepKeepsUp
  <1> USE DEF QueueIInv, QueueTypes, Queue!send_closed, Queue!recv_closed, Queue!Return,
              Queue!SendRefused, Queue!RecvRefused, NobodySleepsOnClosed
  <1>1. NobodySleepsOnClosed' OBVIOUS
  <1>2. ASSUME NEW o \in Queue!Ops PROVE Asleep(o)' = {}
    BY DEF Asleep, Queue!At, Queue!Using
  <1> QED BY <1>1, <1>2 DEF StepKeepsUp, KeepsUp

(* A caller that blocks finds nothing for its side.                        *)
LEMMA BlockingKeepsUp ==
    ASSUME QueueIInv, NEW c \in Thread, NEW o \in Queue!Ops,
           Queue!would_block(c, o) \/ Queue!wait(c, o)
    PROVE  StepKeepsUp
  <1> USE DEF QueueIInv, QueueTypes, Queue!would_block, Queue!wait, Queue!Return, Queue!Blocks,
              Queue!Enters
  <1>1. NobodySleepsOnClosed' BY DEF NobodySleepsOnClosed
  <1>2. Queue!Available(o)' = 0 BY QueueAssumption DEF Queue!Available, Queue!HasRoom
  <1>3. ASSUME NEW e \in Queue!Ops, e # o PROVE Untouched(e)
    BY <1>3 DEF Untouched, Asleep, Woken, Queue!At, Queue!Using
  <1> QED BY <1>1, <1>2, <1>3, UntouchedKeepsUp DEF StepKeepsUp

(* A caller that gets what it came for leaves one less for its own side,   *)
(* and one more for the other, which it signals.                           *)
LEMMA TransferKeepsUp ==
    ASSUME QueueIInv, NEW c \in Thread, NEW o \in Queue!Ops, NEW p \in Queue!WakeOne(o),
           Queue!Enters(c, o), Queue!Return(c, "Ok", p), UNCHANGED shut,
           length' = IF o = "send" THEN length + 1 ELSE length - 1
    PROVE  StepKeepsUp
  <1> USE DEF QueueIInv, QueueTypes, Queue!Return, Queue!Enters, Queue!Other
  <1> DEFINE e == Queue!Other(o)
  <1>1. /\ Queue!Available(o) \in Int /\ Queue!Available(o)' = Queue!Available(o) - 1
        /\ Queue!Available(e) \in Int /\ Queue!Available(e)' = Queue!Available(e) + 1
    BY QueueAssumption DEF Queue!Available
  <1>2. \/ p = point /\ Asleep(e) = {}
        \/ \E d \in Asleep(e) : p = [point EXCEPT ![d] = "woken"]
    BY SignalWakesOne
  <1>3. NobodySleepsOnClosed' BY <1>2 DEF NobodySleepsOnClosed, Asleep, Queue!At, Queue!Using
  <1>4. Asleep(o)' \subseteq Asleep(o) /\ Woken(o) \ {c} \subseteq Woken(o)'
    BY <1>2 DEF Asleep, Woken, Queue!At, Queue!Using
  <1>5. KeepsUp(o) BY <1>1, <1>4 DEF KeepsUp
  <1>6. ASSUME p = point, Asleep(e) = {}
        PROVE  KeepsUp(e)
    <2>1. Asleep(e)' = {} BY <1>6 DEF Asleep, Queue!At, Queue!Using
    <2> QED BY <2>1 DEF KeepsUp
  <1>7. ASSUME NEW d \in Asleep(e), p = [point EXCEPT ![d] = "woken"]
        PROVE  KeepsUp(e)
    <2>1. /\ Asleep(e)' \subseteq Asleep(e) /\ Woken(e) \subseteq Woken(e)'
          /\ d \in Woken(e)' \ Woken(e)
      BY <1>7 DEF Asleep, Woken, Queue!At, Queue!Using
    <2> QED BY <1>1, <2>1 DEF KeepsUp
  <1>8. Queue!Ops = {o, e} OBVIOUS
  <1> QED BY <1>2, <1>3, <1>5, <1>6, <1>7, <1>8 DEF StepKeepsUp

LEMMA WakingKeepsUp ==
    ASSUME QueueIInv, NEW c \in Thread, Queue!spurious_wakeup(c) \/ Queue!expire(c)
    PROVE  StepKeepsUp
  <1> USE DEF QueueIInv, QueueTypes, Queue!spurious_wakeup, Queue!expire, Queue!Condvar!Unblock
  <1>1. NobodySleepsOnClosed' BY DEF NobodySleepsOnClosed
  <1>2. ASSUME NEW o \in Queue!Ops
        PROVE  Asleep(o)' \subseteq Asleep(o) /\ Woken(o) \subseteq Woken(o)'
    BY DEF Asleep, Woken, Queue!At, Queue!Using
  <1>3. ASSUME NEW o \in Queue!Ops
        PROVE  Queue!Available(o) \in Int /\ Queue!Available(o)' = Queue!Available(o)
    BY QueueAssumption DEF Queue!Available
  <1> QED BY <1>1, <1>2, <1>3 DEF StepKeepsUp, KeepsUp

LEMMA CloseKeepsUp == ASSUME QueueIInv, Queue!close PROVE StepKeepsUp
  <1> USE DEF QueueIInv, QueueTypes, Queue!close, Queue!BroadcastBoth
  <1>1. NobodySleepsOnClosed' BY DEF NobodySleepsOnClosed
  <1>2. ASSUME NEW o \in Queue!Ops PROVE Asleep(o)' = {}
    BY DEF Asleep, Queue!At, Queue!Using
  <1> QED BY <1>1, <1>2 DEF StepKeepsUp, KeepsUp

LEMMA QueueStep == QueueIInv /\ Queue!Next => QueueIInv'
  <1> SUFFICES ASSUME QueueIInv, Queue!Next PROVE QueueIInv'
    OBVIOUS
  <1>1. QueueTypes' BY QueueStepTypes DEF QueueIInv
  <1>2. ASSUME NEW c \in Thread, Queue!send_ok(c) \/ Queue!recv_ok(c) PROVE StepKeepsUp
    BY <1>2, TransferKeepsUp DEF Queue!send_ok, Queue!recv_ok
  <1>3. StepKeepsUp
    BY <1>2, CallKeepsUp, RefusalKeepsUp, BlockingKeepsUp, WakingKeepsUp, CloseKeepsUp
       DEF Queue!Next, Queue!Proceed
  <1> QED BY <1>1, <1>3, BothSidesKeepUp
-----------------------------------------------------------------------------
StaticPoints == {"idle", "load", "cas", "spin"} \cup Static!Owning

(* Initializing is a token: one thread owns it, nobody without it does.    *)
StaticOneOwner ==
    /\ \A t \in Thread : pc[t] \in Static!Owning => state = "Initializing"
    /\ \A t, u \in Thread : pc[t] \in Static!Owning /\ pc[u] \in Static!Owning => t = u

(* The owner creates the value, then writes it, then says so.              *)
StaticValueFollowsOwner ==
    /\ state = "Uninitialized" => created = 0
    /\ state = "Ready" => created = 1 /\ value = 1
    /\ \A t \in Thread :
          /\ pc[t] \in {"create", "rollback"} => created = 0
          /\ pc[t] \in {"write", "publish"} => created = 1
          /\ pc[t] = "publish" => value = 1

StaticIInv ==
    /\ pc \in [Thread -> StaticPoints]
    /\ result \in [Thread -> {"none", "Value", "Garbage", "Error"}]
    /\ created \in 0 .. 1
    /\ value \in 0 .. 1
    /\ StaticOneOwner /\ StaticValueFollowsOwner /\ Static!SuccessReturnsTheValue

LEMMA StaticInit == Static!Init => StaticIInv
  BY DEF Static!Init, StaticIInv, StaticPoints, Static!Owning, StaticOneOwner,
         StaticValueFollowsOwner, Static!SuccessReturnsTheValue

LEMMA StaticStep ==
    ASSUME StaticIInv, NEW t \in Thread, Static!call(t) \/ Static!Step(t) \/ Static!spin(t)
    PROVE  StaticIInv'
  <1> USE DEF StaticIInv, StaticPoints, Static!Owning, StaticOneOwner, StaticValueFollowsOwner,
              Static!SuccessReturnsTheValue,
              Static!Goto, Static!Return
  <1>1. CASE Static!call(t) BY <1>1 DEF Static!call
  <1>2. CASE Static!load_ready(t) BY <1>2 DEF Static!load_ready, Static!Contents
  <1>3. CASE Static!load_not_ready(t) BY <1>3 DEF Static!load_not_ready
  <1>4. CASE Static!cas_claims(t) BY <1>4 DEF Static!cas_claims, Static!Claims
  <1>5. CASE Static!cas_fails(t) BY <1>5 DEF Static!cas_fails
  <1>6. CASE Static!create_succeeds(t) BY <1>6 DEF Static!create_succeeds, Static!StateWhileWriting
  <1>7. CASE Static!create_fails(t) BY <1>7 DEF Static!create_fails
  <1>8. CASE Static!write_value(t) BY <1>8 DEF Static!write_value
  <1>9. CASE Static!publish(t) BY <1>9 DEF Static!publish, Static!Contents
  <1>10. CASE Static!rollback(t) BY <1>10 DEF Static!rollback, Static!RolledBack
  <1>11. CASE Static!spin_gives_up(t) BY <1>11 DEF Static!spin_gives_up
  <1>12. CASE Static!spin(t) BY <1>12 DEF Static!spin
  <1> QED
    BY <1>1, <1>2, <1>3, <1>4, <1>5, <1>6, <1>7, <1>8, <1>9, <1>10, <1>11, <1>12 DEF Static!Step

-----------------------------------------------------------------------------
(* A step of the parts is a step of each of them or leaves it alone.       *)
LEMMA PartsStep ==
    ASSUME [PartsNext]_<<used, ring, queue, static>>
    PROVE  /\ [Next]_vars
           /\ Queue!Next \/ UNCHANGED queue
           /\ Static!Next \/ UNCHANGED static
  BY DEF PartsNext, ring

(* The queue's inductive invariant holds: every message or slot that came  *)
(* while somebody slept has its woken caller, and nobody sleeps on a       *)
(* closed queue.                                                           *)
THEOREM QueueInvariant == PartsSpec => []QueueIInv
  <1>1. PartsInit => QueueIInv BY QueueInit DEF PartsInit
  <1>2. QueueIInv /\ [PartsNext]_<<used, ring, queue, static>> => QueueIInv'
    <2> SUFFICES ASSUME QueueIInv, UNCHANGED queue PROVE QueueIInv'
      BY PartsStep, QueueStep
    <2> QED BY DEF queue, QueueIInv, QueueTypes, NobodySleepsOnClosed, Queue!NoLostWakeup,
                   Queue!At, Queue!Using, Queue!Available
  <1> QED BY <1>1, <1>2, PTL DEF PartsSpec

(* However many callers send and receive at once, a message never lies in  *)
(* the buffer with only sleepers to take it, nor a free slot with only     *)
(* sleeping senders: signalling one waiter after each commit is enough     *)
(* (wake_one_after_commit of the POSIX queue).                             *)
THEOREM QueueLosesNoWakeup == PartsSpec => []NoLostWakeup
  <1>1. QueueIInv => NoLostWakeup BY DEF QueueIInv, NoLostWakeup
  <1> QED BY <1>1, QueueInvariant, PTL

(* Nobody is left asleep on a closed queue, and nobody goes to sleep on    *)
(* one: close broadcasts both condvars under the mutex.                    *)
THEOREM CloseWakesEverybody == PartsSpec => []NobodySleepsOnClosed
  <1>1. QueueIInv => NobodySleepsOnClosed BY DEF QueueIInv
  <1> QED BY <1>1, QueueInvariant, PTL

(* The inductive invariant of the statics holds: one thread owns the       *)
(* creation, and the flag says Ready only when the value is there.         *)
THEOREM StaticInvariant == PartsSpec => []StaticIInv
  <1>1. PartsInit => StaticIInv BY StaticInit DEF PartsInit
  <1>2. StaticIInv /\ [PartsNext]_<<used, ring, queue, static>> => StaticIInv'
    <2> SUFFICES ASSUME StaticIInv, UNCHANGED static PROVE StaticIInv'
      BY PartsStep, StaticStep DEF Static!Next
    <2> QED BY DEF static, StaticIInv, StaticOneOwner, StaticValueFollowsOwner,
                   Static!SuccessReturnsTheValue
  <1> QED BY <1>1, <1>2, PTL DEF PartsSpec

(* A call of get_or_init or ensure_init that succeeds returns the value    *)
(* that was created, never an unwritten cell.                              *)
THEOREM NobodyReadsGarbage == PartsSpec => []SuccessReturnsTheValue
  <1>1. StaticIInv => SuccessReturnsTheValue BY DEF StaticIInv, SuccessReturnsTheValue
  <1> QED BY <1>1, StaticInvariant, PTL

(* No more than one key or mutex is ever created, however many threads     *)
(* race and however often a creation fails.                                *)
THEOREM CreatedOnce == PartsSpec => [](created <= 1)
  <1>1. StaticIInv => created <= 1 BY DEF StaticIInv
  <1> QED BY <1>1, StaticInvariant, PTL
=============================================================================
