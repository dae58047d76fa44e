---------------------------- MODULE CaseObjects ----------------------------
(***************************************************************************)
(* Statements about handles, queues, semaphores, mutexes, tasks and the    *)
(* runtime.                                                                *)
(***************************************************************************)
EXTENDS CaseState

(* What goes away with some handles: an object with its last handle, and   *)
(* with a box or a timer the handles it owns.  A timer whose callback is   *)
(* running keeps them until the callback returns.                          *)
Timers == DOMAIN service.timers
InFlight(o) == task[Worker].prog = o
Owns(o) == CASE obj[o].kind = "box" -> obj[o].owns
             [] obj[o].kind = "timer" /\ ~InFlight(o) -> service.timers[o].owns
             [] OTHER -> {}
Grow(handles) == handles \cup UNION {Owns(o) : o \in {x \in handles : obj[x].refs = 1}}
Released(handles) == Grow(Grow(handles))
Freed(handles) == {o \in Released(handles) : obj[o].refs = 1}

(* deregister: the entry goes, or is marked for the worker to remove.      *)
Deregistered(freed) ==
    [service EXCEPT
        !.timers = [o \in {x \in Timers : x \in freed => InFlight(x)} |->
                       [service.timers[o] EXCEPT !.deleted = @ \/ o \in freed]],
        !.wake = @ \/ freed \cap Timers # {}]

Dropped(handles) ==
    LET gone == Freed(handles) IN
    [o \in DOMAIN obj \ gone |->
        IF o \in Released(handles) THEN [obj[o] EXCEPT !.refs = @ - 1] ELSE obj[o]]
Cloned(handles) ==
    [o \in DOMAIN obj |-> IF o \in handles THEN [obj[o] EXCEPT !.refs = @ + 1] ELSE obj[o]]

(* The kernel's objects that an object is made of, which go with it.       *)
Natives(kind) ==
    CASE kind = "queue" -> <<"mutex", "semaphore", "semaphore">>
      [] kind \in {"mutex", "semaphore"} -> <<kind>>
      [] kind = "task" -> <<"group">>
      [] OTHER -> <<>>
CreateAttempt(k) == [mutex |-> "mutex_attempts", semaphore |-> "semaphore_attempts"][k]
Creation(k) == [mutex |-> "mutexes_created", semaphore |-> "semaphores_created"][k]
Deletion(k) == [mutex |-> "mutexes_deleted", semaphore |-> "semaphores_deleted",
                group |-> "groups_deleted"][k]
Deletions(freed) ==
    Each(Deletion, FlattenSeq(Each(LAMBDA o : Natives(obj[o].kind), SetToSeq(freed))))

clone(t, s) ==
    /\ s.op = "clone"
    /\ obj' = Cloned({s.obj})
    /\ Proceed(t)
    /\ UNCHANGED <<case, service, mem, clock, world>>

box(t, s) ==
    /\ s.op = "box"
    /\ obj' = (s.obj :> [kind |-> "box", owns |-> s.owns, refs |-> 1]) @@ Cloned(s.owns)
    /\ Proceed(t)
    /\ UNCHANGED <<case, service, mem, clock, world>>

drop(t, s) ==
    /\ s.op = "drop"
    /\ LET handles == {s.obj} IN
       /\ obj' = Dropped(handles)
       /\ service' = Deregistered(Freed(handles))
       /\ mem' = Counted(Deletions(Freed(handles)))
    /\ Proceed(t)
    /\ UNCHANGED <<case, clock, world>>
-----------------------------------------------------------------------------
(* Constructors: parameters are looked at before the runtime.              *)
With(o, object) == obj' = (o :> object) @@ obj

Valid(x) ==
    CASE x.kind = "queue" -> x.capacity > 0 /\ x.size > 0
      [] x.kind = "semaphore" -> x.max > 0 /\ x.count <= x.max
      [] OTHER -> TRUE

(* The native creations, up to the first that fails; what was made before  *)
(* it is deleted.                                                          *)
FailsAt(natives) == IF hooks.fault THEN 1 ELSE hooks.create
Creations(natives) ==
    LET failing == FailsAt(natives) \in DOMAIN natives
        made == IF failing THEN FailsAt(natives) - 1 ELSE Len(natives)
        ok == SubSeq(natives, 1, made)
    IN [failed |-> failing,
        events |-> Each(CreateAttempt, SubSeq(natives, 1, IF failing THEN made + 1 ELSE made))
                   \o Each(Creation, ok) \o IF failing THEN Each(Deletion, ok) ELSE <<>>]

new(t, s) ==
    /\ s.op = "new"
    /\ LET native == Creations(Natives(s.object.kind))
           r == CASE ~Valid(s.object) -> "InvalidParameter"
                  [] runtime # "Running" -> "NotInitialized"
                  [] native.failed -> "OutOfMemory"
                  [] OTHER -> "Ok"
       IN /\ IF r = "Ok" THEN With(s.obj, s.object) ELSE UNCHANGED obj
          /\ Return(t, r, s, IF r \in {"Ok", "OutOfMemory"} THEN native.events ELSE <<>>)
    /\ UNCHANGED <<case, service, clock, world>>
-----------------------------------------------------------------------------
(* Calls that may block.                                                   *)
Unavailable(s) ==
    CASE s.wait = NoWait /\ s.op = "send" -> "QueueFull"
      [] s.wait = NoWait /\ s.op = "recv" -> "QueueEmpty"
      [] s.wait = NoWait /\ s.op = "lock" -> "LockFailed"
      [] OTHER -> "Timeout"

Taken(t, s) ==
    LET o == obj[s.obj] IN
    CASE s.op = "send" -> [o EXCEPT !.messages = Append(@, s.msg)]
      [] s.op = "recv" -> [o EXCEPT !.messages = Tail(@)]
      [] s.op = "acquire" -> [o EXCEPT !.count = @ - 1]
      [] s.op = "lock" -> [o EXCEPT !.owner = t]
      [] s.op = "join" -> o

(* The kernel counts the waits of joiners.                                 *)
Waits(s) == IF s.op = "join" THEN <<"join_waits">> ELSE <<>>
Returns(t, s) == IF s.op = "join" /\ ~FirstTry(t) THEN <<"join_returns">> ELSE <<>>

Succeed(t, s) ==
    /\ With(s.obj, Taken(t, s))
    /\ IF s.op = "recv" /\ s.is \in {"Ok", "any"}
       THEN /\ Proceed(t)
            /\ mem' = (<<task[t].prog, "word">> :> Head(obj[s.obj].messages))
                      @@ (IF s.is = "any" THEN <<task[t].prog, "outcome">> :> "Ok" ELSE <<>>)
                      @@ mem
       ELSE Return(t, "Ok", s, Returns(t, s))

(* A wait is refused while the scheduler is suspended, by a semaphore or a *)
(* mutex even if the object is available; and a task cannot join itself.   *)
SelfJoin(t, s) == s.op = "join" /\ task[t].live /\ s.obj = t
Refused(t, s) ==
    \/ SelfJoin(t, s)
    \/ /\ suspended # Nobody /\ Timed(s.wait)
       /\ s.op \in {"send", "recv", "join"} => Attempt(s) = "wait"

Paused(t) == task[t].held /\ hooks.armed
Calls(s) ==
    /\ s.op \in Blocking
    /\ UNCHANGED <<case, service, clock, suspended, runtime>>
Goes(t, s, r) == Calls(s) /\ ~Refused(t, s) /\ ~Paused(t) /\ Attempt(s) = r
LeaveBoundary(t) == hooks' = [hooks EXCEPT !.at_boundary = @ /\ ~task[t].held]

call_refused(t, s) ==
    /\ Calls(s) /\ Refused(t, s)
    /\ Return(t, "Busy", s, <<>>)
    /\ UNCHANGED <<obj, hooks>>

call_succeeds(t, s) ==
    /\ Goes(t, s, "Ok")
    /\ Succeed(t, s)
    /\ LeaveBoundary(t)

call_fails(t, s) ==
    \E r \in {"InvalidMessageSize", "QueueClosed"} :
        /\ Goes(t, s, r)
        /\ Return(t, r, s, <<>>)
        /\ LeaveBoundary(t)
        /\ UNCHANGED obj

(* A finite wait blocks for one tick more than it was asked for, the guard *)
(* tick of the wait engine.                                                *)
WaitUntil(w) == IF w = Forever THEN Never ELSE now + w + 1

call_blocks(t, s) ==
    /\ Goes(t, s, "wait")
    /\ FirstTry(t) /\ Timed(s.wait)
    /\ Block(t, WaitUntil(s.wait))
    /\ mem' = Counted(Waits(s))
    /\ UNCHANGED <<obj, hooks>>

AtGate(t, s) == ~FirstTry(t) /\ hooks.armed /\ s.op \in {"send", "recv"}
call_gives_up(t, s) ==
    /\ Goes(t, s, "wait")
    /\ FirstTry(t) => ~Timed(s.wait)
    /\ ~AtGate(t, s)
    /\ Return(t, Unavailable(s), s, Returns(t, s))
    /\ LeaveBoundary(t)
    /\ UNCHANGED obj

(* on_timeout_boundary: a queue operation whose wait expired with the gate *)
(* armed stays, polling, until the gate is released; then it looks at the  *)
(* queue once more.                                                        *)
call_pauses(t, s) ==
    /\ Goes(t, s, "wait") /\ AtGate(t, s)
    /\ task' = [task EXCEPT ![t].held = TRUE, ![t].wake = now + 1]
    /\ hooks' = [hooks EXCEPT !.at_boundary = TRUE]
    /\ UNCHANGED <<obj, mem, verdict>>

call_stays(t, s) ==
    /\ Calls(s) /\ Paused(t)
    /\ Block(t, now + 1)
    /\ UNCHANGED <<obj, mem, hooks>>
-----------------------------------------------------------------------------
(* Calls that do not block.                                                *)
Edit(s, op, object) ==
    /\ s.op = op
    /\ With(s.obj, object)
    /\ UNCHANGED <<case, service, clock, world>>
Object(s) == obj[s.obj]

close(t, s) == Edit(s, "close", [Object(s) EXCEPT !.closed = TRUE]) /\ Proceed(t) /\ UNCHANGED mem

release(t, s) ==
    LET full == Object(s).count = Object(s).max IN
    /\ Edit(s, "release", [Object(s) EXCEPT !.count = IF full THEN @ ELSE @ + 1])
    /\ Return(t, IF full THEN "Overflow" ELSE "Ok", s, <<>>)

(* The drop of a guard, and writes through it.                             *)
unlock(t, s) ==
    /\ Edit(s, "unlock", [Object(s) EXCEPT !.owner = Nobody])
    /\ Require(t, Object(s).owner = t)
    /\ UNCHANGED mem
store(t, s) ==
    /\ Edit(s, "store", [Object(s) EXCEPT !.value = s.val])
    /\ Require(t, Object(s).owner = t)
    /\ UNCHANGED mem
increment(t, s) ==
    /\ Edit(s, "increment", [Object(s) EXCEPT !.value = @ + 1])
    /\ Require(t, Object(s).owner = t)
    /\ UNCHANGED mem

Answer(o, what) ==
    CASE what = "len" -> Len(o.messages)
      [] what = "is_empty" -> o.messages = <<>>
      [] what = "is_full" -> Len(o.messages) = o.capacity
      [] what = "capacity" -> o.capacity
      [] what = "msg_size" -> o.size
      [] what = "count" -> o.count
      [] what = "max_count" -> o.max
      [] what = "is_signaled" -> o.count = 1
      [] what = "value" -> o.value
      [] what = "priority" -> o.priority
-----------------------------------------------------------------------------
(* Tasks of the OSAL.  The event group is created before the native task   *)
(* and goes with the handles; the native task's creation is what an        *)
(* allocation fault makes fail.                                            *)
stack_bytes_to_words(bytes) == IF bytes <= 512 THEN 128 ELSE (bytes + 3) \div 4
map_native_priority(p) == IF p < MAX_PRIORITIES THEN p ELSE MAX_PRIORITIES - 1
NativeTask(t, b) == Started(t, "osal", map_native_priority(b.priority))

SpawnResult(b) ==
    CASE b.name # "valid" \/ b.stack = 0 -> "InvalidParameter"
      [] runtime # "Running" -> "NotInitialized"
      [] b.stack > MaxStack -> "Overflow"
      [] hooks.fault -> "OutOfMemory"
      [] OTHER -> "Ok"
SpawnEvents(r) ==
    CASE r = "Ok" -> <<"create_attempts", "creates", "groups_created">>
      [] r = "OutOfMemory" -> <<"create_attempts", "groups_created", "groups_deleted">>
      [] OTHER -> <<>>

spawn_task(t, s) ==
    /\ s.op = "spawn_task"
    /\ LET r == SpawnResult(s.builder)
           told == IF s.is = "any" THEN <<task[t].prog, "outcome">> :> r ELSE <<>>
           last == IF r # "Ok" THEN <<>>
                   ELSE (Counter("words") :> stack_bytes_to_words(s.builder.stack))
                        @@ (Counter("priority") :> map_native_priority(s.builder.priority))
       IN /\ IF s.is \notin {"any", r} THEN Fail(t)
             ELSE /\ task' = [u \in Task |->
                         CASE u = t -> Ready(t, task[t].pc + 1)
                           [] u = s.obj /\ r = "Ok" -> NativeTask(u, s.builder)
                           [] OTHER -> task[u]]
                  /\ UNCHANGED verdict
          /\ mem' = told @@ last @@ Counted(SpawnEvents(r))
          /\ IF r = "Ok"
             THEN With(s.obj, [kind |-> "task", refs |-> 2, finished |-> FALSE,
                               priority |-> s.builder.priority])
             ELSE obj' = Dropped(s.owns)
    /\ UNCHANGED <<case, service, clock, world>>

(* The trampoline: identity and live count, then the completion.           *)
enter(t, s) ==
    /\ s.op = "enter"
    /\ task' = [task EXCEPT ![t] = [Ready(t, @.pc + 1) EXCEPT !.live = TRUE]]
    /\ UNCHANGED <<case, heap, mem, clock, world, verdict>>
leave(t, s) ==
    /\ s.op = "leave"
    /\ task' = [task EXCEPT ![t] = [Ready(t, @.pc + 1) EXCEPT !.live = FALSE]]
    /\ UNCHANGED <<case, heap, mem, clock, world, verdict>>
publish(t, s) == Edit(s, "publish", [Object(s) EXCEPT !.finished = TRUE]) /\ Proceed(t) /\ UNCHANGED mem
=============================================================================
