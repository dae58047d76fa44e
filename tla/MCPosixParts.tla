---------------------------- MODULE MCPosixParts ----------------------------
(***************************************************************************)
(* Three parts of a POSIX build, one of them used in each behaviour: the   *)
(* ring buffer of a queue (ByteQueue, extended), the blocking queue around *)
(* it (PosixQueue), and the lazily created statics of the backend          *)
(* (LazyInit).  The other two stay as they were created.                   *)
(***************************************************************************)
EXTENDS ByteQueue, FiniteSets

CONSTANTS Thread, QueueCapacity

ASSUME QueueAssumption == QueueCapacity \in Nat \ {0} /\ IsFiniteSet(Thread)

VARIABLES used,                                        (* which part       *)
          length, shut, op, timeout, point, outcome,   (* PosixQueue       *)
          starts_over, state, value, created, pc, result    (* LazyInit    *)

Queue == INSTANCE PosixQueue WITH Caller <- Thread, Capacity <- QueueCapacity,
             TimeoutConsumes <- FALSE, len <- length, closed <- shut, result <- outcome
Static == INSTANCE LazyInit

ring == vars
queue == <<length, shut, op, timeout, point, outcome>>
static == <<starts_over, state, value, created, pc, result>>

PartsInit ==
    /\ used \in {"ring", "queue", "static"}
    /\ Init /\ Queue!Init /\ Static!Init
    /\ starts_over => used = "static"

PartsNext ==
    /\ UNCHANGED used
    /\ \/ used = "ring" /\ Next /\ UNCHANGED <<queue, static>>
       \/ used = "queue" /\ Queue!Next /\ UNCHANGED <<ring, static>>
       \/ used = "static" /\ Static!Next /\ UNCHANGED <<ring, queue>>

PartsSpec ==
    /\ PartsInit /\ [][PartsNext]_<<used, ring, queue, static>>
    /\ Queue!Fairness /\ Static!Fairness
-----------------------------------------------------------------------------
(* While anybody sleeps on one side of the queue, there are at least as    *)
(* many callers on their way back from that side's condvar as there are    *)
(* messages (or slots) for them: PosixQueue, where each send and each recv *)
(* signals one waiter only and a caller from outside may take what the     *)
(* signal was for.                                                         *)
NoLostWakeup == Queue!NoLostWakeup

(* Messages and sleeping receivers, or free slots and sleeping senders, do *)
(* not stay side by side for ever, and nobody sleeps on a closed queue for *)
(* ever: PosixQueue, whose close wakes both sides.                         *)
ServiceGoesOn == Queue!ServiceGoesOn

(* A call of get_or_init or ensure_init that succeeds returns the one      *)
(* value that was created, never what was in the cell before it was        *)
(* written: LazyInit.                                                      *)
SuccessReturnsTheValue == Static!SuccessReturnsTheValue

(* Every call of get_or_init or ensure_init returns, unless creations fail *)
(* over and over: LazyInit.                                                *)
CallsReturn == Static!CallsReturn
=============================================================================
