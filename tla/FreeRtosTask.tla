---------------------------- MODULE FreeRtosTask ----------------------------
(***************************************************************************)
(* A task of osal-backend-freertos/src/task.rs: spawn with its rollback,   *)
(* the trampoline and its publication order, join on the sticky bit of an  *)
(* event group, and the release of event group and runtime lease with the  *)
(* last reference.  Completion is published by three separate writes (exit *)
(* code, state, event bit), each a step of its own, and join reads them    *)
(* without a lock.                                                         *)
(***************************************************************************)
EXTENDS Naturals

CONSTANTS Caller,      (* tasks that hold and join the task handle         *)
          Spawner      (* the caller that spawns the task                  *)

VARIABLES state,       (* completion.state                                 *)
          exit_code,   (* completion.exit_code has been written            *)
          event_group, (* the native event group                           *)
          bit,         (* TASK_COMPLETED_BIT                               *)
          leaked,      (* an event group nobody can delete any more        *)
          tls,         (* the native task's identity slot is set           *)
          child,       (* where the trampoline is                          *)
          live,        (* LIVE_COUNT                                       *)
          lease,       (* identity's runtime lease is held                 *)
          handles,     (* callers that hold a handle                       *)
          pc,          (* where a caller is in spawn or join               *)
          timed,       (* the caller's join has a deadline                 *)
          result       (* what the last call to return returned            *)

completion == <<state, exit_code, event_group, bit>>
task == <<state, exit_code, event_group, bit, leaked, tls, child, live, lease, handles>>
calls == <<pc, timed, result>>
vars == <<state, exit_code, event_group, bit, leaked, tls, child, live, lease,
          handles, pc, timed, result>>

(* "created": xTaskCreate returned, the handle is not yet handed out.      *)
(* "waiting": in wait_once; "acquired" saw the bit, "expired" did not.     *)
CallPoints == {"idle", "created", "waiting", "acquired", "expired", "panicked"}

(* The trampoline, after each of its steps.                                *)
ChildPoints == {"none", "start", "identified", "entry", "uncounted", "anonymous",
                "coded", "finished", "signalled", "released", "panicked"}

TypeOK ==
    /\ state \in {"Running", "Finished"}
    /\ exit_code \in BOOLEAN /\ bit \in BOOLEAN /\ leaked \in BOOLEAN
    /\ tls \in BOOLEAN /\ lease \in BOOLEAN
    /\ event_group \in {"none", "valid", "deleted"}
    /\ child \in ChildPoints
    /\ live \in 0 .. 1
    /\ handles \subseteq Caller
    /\ pc \in [Caller -> CallPoints]
    /\ timed \in [Caller -> BOOLEAN]
    /\ result \in {"none", "Ok", "Timeout", "Error"}

Init ==
    /\ state = "Running"
    /\ exit_code = FALSE /\ bit = FALSE /\ leaked = FALSE
    /\ tls = FALSE /\ lease = FALSE
    /\ event_group = "none"
    /\ child = "none"
    /\ live = 0
    /\ handles = {}
    /\ pc = [c \in Caller |-> "idle"]
    /\ timed = [c \in Caller |-> FALSE]
    /\ result = "none"

Goto(c, point) == pc' = [pc EXCEPT ![c] = point] /\ UNCHANGED <<timed, result>>

Return(c, r) ==
    /\ pc' = [pc EXCEPT ![c] = "idle"]
    /\ timed' = [timed EXCEPT ![c] = FALSE]
    /\ result' = r

(* The drops of TaskIdentity and TaskCompletion with their last Arcs.      *)
(* Conditions below are preceded by faulty variants of themselves, which   *)
(* the specification never uses.                                           *)
DeleteGroup(g) == "deleted"

ReleaseEveryDrop(last) == lease' = FALSE /\ event_group' = DeleteGroup(event_group)
Release(last) ==
    IF last THEN lease' = FALSE /\ event_group' = DeleteGroup(event_group)
    ELSE UNCHANGED <<lease, event_group>>

ChildHolds == child \notin {"none", "released"}
-----------------------------------------------------------------------------
Fresh == handles = {} /\ ~lease /\ ~ChildHolds

(* spawn up to the event group: parameters, lease, stack conversion or the *)
(* group itself may refuse, and nothing stays behind.                      *)
spawn_refused(c) ==
    /\ c = Spawner /\ pc[c] = "idle" /\ Fresh
    /\ Return(c, "Error")
    /\ UNCHANGED task

(* allocate_task_handle overflows after the event group was created: the   *)
(* lease is dropped, but EventGroupHandle has no Drop.                     *)
spawn_overflow(c) ==
    /\ c = Spawner /\ pc[c] = "idle" /\ Fresh
    /\ leaked' = TRUE
    /\ Return(c, "Error")
    /\ UNCHANGED <<completion, tls, child, live, lease, handles>>

(* xTaskCreate fails: the payload is reclaimed, and the identity and       *)
(* completion Arcs go with lease and event group.                          *)
task_create_fails(c) ==
    /\ c = Spawner /\ pc[c] = "idle" /\ Fresh
    /\ event_group' = "deleted"
    /\ Return(c, "Error")
    /\ UNCHANGED <<state, exit_code, bit, leaked, tls, child, live, lease, handles>>

(* xTaskCreate succeeds: the new task may run, and even be gone, before    *)
(* spawn returns.                                                          *)
task_create(c) ==
    /\ c = Spawner /\ pc[c] = "idle" /\ Fresh
    /\ state' = "Running" /\ exit_code' = FALSE
    /\ event_group' = "valid" /\ bit' = FALSE
    /\ child' = "start" /\ lease' = TRUE
    /\ Goto(c, "created")
    /\ UNCHANGED <<leaked, tls, live, handles>>

spawn_returns(c) ==
    /\ pc[c] = "created"
    /\ handles' = {c}
    /\ Return(c, "Ok")
    /\ UNCHANGED <<completion, leaked, tls, child, live, lease>>
-----------------------------------------------------------------------------
(* task_trampoline, one step per statement.                                *)
Advance(from, to) == child = from /\ child' = to

set_context ==
    /\ Advance("start", "identified")
    /\ tls' = TRUE
    /\ UNCHANGED <<completion, leaked, live, lease, handles, calls>>

acquire_live_token ==
    /\ Advance("identified", "entry")
    /\ live' = live + 1
    /\ UNCHANGED <<completion, leaked, tls, lease, handles, calls>>

KeepToken == live
DropToken == live - 1

entry_returns ==
    /\ Advance("entry", "uncounted")
    /\ live' = DropToken
    /\ UNCHANGED <<completion, leaked, tls, lease, handles, calls>>

clear_context ==
    /\ Advance("uncounted", "anonymous")
    /\ tls' = FALSE
    /\ UNCHANGED <<completion, leaked, live, lease, handles, calls>>

(* TaskCompletion::publish.                                                *)
publish_code ==
    /\ Advance("anonymous", "coded")
    /\ exit_code' = TRUE
    /\ UNCHANGED <<state, event_group, bit, leaked, tls, live, lease, handles, calls>>

FinishedState == "Finished"

publish_state ==
    /\ Advance("coded", "finished")
    /\ state' = FinishedState
    /\ UNCHANGED <<exit_code, event_group, bit, leaked, tls, live, lease, handles, calls>>

publish_bit ==
    /\ child = "finished"
    /\ IF event_group = "valid"
       THEN bit' = TRUE /\ child' = "signalled"
       ELSE child' = "panicked" /\ UNCHANGED bit
    /\ UNCHANGED <<state, exit_code, event_group, leaked, tls, live, lease, handles, calls>>

(* The task's own Arcs go, and with them lease and event group if nobody   *)
(* else holds them.                                                        *)
release_arcs ==
    /\ Advance("signalled", "released")
    /\ Release(handles = {} /\ pc[Spawner] # "created")
    /\ UNCHANGED <<state, exit_code, bit, leaked, tls, live, handles, calls>>
-----------------------------------------------------------------------------
clone_handle(c, d) ==
    /\ c \in handles /\ d \notin handles
    /\ pc[c] = "idle" /\ pc[d] = "idle"
    /\ handles' = handles \cup {d}
    /\ UNCHANGED <<completion, leaked, tls, child, live, lease, calls>>

drop_handle(c) ==
    /\ c \in handles /\ pc[c] = "idle"
    /\ handles' = handles \ {c}
    /\ Release(handles = {c} /\ ~ChildHolds)
    /\ UNCHANGED <<state, exit_code, bit, leaked, tls, child, live, calls>>
-----------------------------------------------------------------------------
(* join: a task that joins itself is refused.                              *)
join_self ==
    /\ child = "entry" /\ tls /\ handles # {}
    /\ result' = "Error"
    /\ UNCHANGED <<task, pc, timed>>

(* The fast path, and the variants that do not block.                      *)
finished_code == state = "Finished"

join_nowait(c) ==
    /\ c \in handles /\ pc[c] = "idle"
    /\ Return(c, IF finished_code THEN "Ok" ELSE "Timeout")
    /\ UNCHANGED task

(* A blocking join: the fast path, prepare_blocking, then one wait.        *)
join_call(c, b) ==
    /\ c \in handles /\ pc[c] = "idle"
    /\ \/ finished_code /\ Return(c, "Ok")
       \/ ~finished_code /\ Return(c, "Error")
       \/ /\ ~finished_code
          /\ pc' = [pc EXCEPT ![c] = "waiting"]
          /\ timed' = [timed EXCEPT ![c] = b]
          /\ UNCHANGED result
    /\ UNCHANGED task

wait_once(c) ==
    /\ pc[c] = "waiting"
    /\ IF event_group # "valid" THEN Goto(c, "panicked")
       ELSE bit /\ Goto(c, "acquired")
    /\ UNCHANGED task

deadline_passes(c) ==
    /\ pc[c] = "waiting" /\ timed[c] /\ ~bit /\ event_group = "valid"
    /\ Goto(c, "expired")
    /\ UNCHANGED task

join_acquired(c) ==
    /\ pc[c] = "acquired"
    /\ IF finished_code THEN Return(c, "Ok") ELSE Goto(c, "panicked")
    /\ UNCHANGED task

NoLastLook == FALSE
LastLook == finished_code

join_expired(c) ==
    /\ pc[c] = "expired"
    /\ Return(c, IF LastLook THEN "Ok" ELSE "Timeout")
    /\ UNCHANGED task
-----------------------------------------------------------------------------
join(c) == wait_once(c) \/ join_acquired(c) \/ join_expired(c)

task_trampoline ==
    \/ set_context \/ acquire_live_token \/ clear_context
    \/ publish_code \/ publish_state \/ publish_bit \/ release_arcs

Next ==
    \/ task_trampoline \/ entry_returns \/ join_self
    \/ \E c \in Caller :
        \/ spawn_refused(c) \/ spawn_overflow(c) \/ task_create(c)
        \/ task_create_fails(c) \/ spawn_returns(c) \/ drop_handle(c)
        \/ join_nowait(c) \/ join(c) \/ deadline_passes(c)
        \/ \E b \in BOOLEAN : join_call(c, b)
        \/ \E d \in Caller : clone_handle(c, d)

Spec == Init /\ [][Next]_vars
-----------------------------------------------------------------------------
(* A joiner that observes Finished also observes the count decremented,    *)
(* the identity cleared and the exit code written (the publication order   *)
(* of ADR 0028, section 6); and the bit is never set before the state.     *)
FinishedTellsAll ==
    /\ state = "Finished" => live = 0 /\ ~tls /\ exit_code
    /\ bit => state = "Finished"

(* The event group is there for as long as a joiner waits on it or the     *)
(* trampoline may still set its bit.                                       *)
EventGroupOutlivesItsUsers ==
    ChildHolds \/ (\E c \in Caller : pc[c] \in {"waiting", "acquired", "expired"})
        => event_group = "valid"

(* A join reports Timeout only while the task is still running, also when  *)
(* the task finishes as the deadline passes (a condition on a step).       *)
TimeoutOnlyWhileRunning ==
    \A c \in Caller :
        pc[c] # "idle" /\ pc'[c] = "idle" /\ result' = "Timeout" => state = "Running"
=============================================================================
