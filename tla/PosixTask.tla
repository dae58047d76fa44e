----------------------------- MODULE PosixTask -----------------------------
(***************************************************************************)
(* A task of osal-backend-posix/src/task.rs: spawning a pthread and        *)
(* waiting for its startup handshake, the trampoline the pthread runs, the *)
(* completion state machine that lets any number of callers join although  *)
(* pthread_join may be called once, and the release of the thread and of   *)
(* the runtime lease with the last reference.                              *)
(*                                                                         *)
(* One task is followed from its spawn to its release (a failed spawn may  *)
(* be tried again).  A section under the task's mutex is one step.         *)
(***************************************************************************)
EXTENDS Naturals, FiniteSets

CONSTANTS Caller,     (* threads that hold and join the task handle        *)
          Spawner     (* the caller that spawns the task                   *)

VARIABLES join_state, (* the completion state machine                      *)
          startup,    (* the startup handshake                             *)
          slot,       (* inner.thread holds a PosixThread                  *)
          pthread,    (* what became of the native thread                  *)
          child,      (* where the trampoline is                           *)
          live,       (* LIVE_COUNT                                        *)
          lease,      (* the task's runtime lease is held                  *)
          handles,    (* callers that hold a handle (a clone of the Arc)   *)
          pc,         (* where a caller is in spawn or join                *)
          timed,      (* the caller's join has a deadline                  *)
          result      (* what the last call to return returned             *)

task == <<join_state, startup, slot, pthread, child, live, lease, handles>>
vars == <<join_state, startup, slot, pthread, child, live, lease, handles,
          pc, timed, result>>

(* spawn: "create" has built the inner state, "store" has a running        *)
(* pthread, "startup" waits for the handshake (asleep in "asleep"),        *)
(* "abort" joins a child that failed to start.  join: "check" is the top   *)
(* of the loop, "waiting" sleeps on the condvar, "expired" woke at the     *)
(* deadline, "reaping" is in pthread_join, "reaped" and "unreaped" are     *)
(* back from it.                                                           *)
SpawnPoints == {"create", "store", "startup", "asleep", "abort"}
JoinPoints == {"check", "waiting", "expired", "reaping", "reaped", "unreaped"}

(* "start": before the TLS guard; "refused": published Failed; "entry":    *)
(* in the user's entry; "uncounted": live token dropped; "finished":       *)
(* Finished set, condvar not yet broadcast; "leaving": about to release    *)
(* its references and exit.                                                *)
ChildPoints == {"none", "start", "refused", "entry", "uncounted", "finished",
                "leaving", "exited"}

TypeOK ==
    /\ join_state \in {"Running", "Finished", "Joining", "Joined"}
    /\ startup \in {"Pending", "Ready", "Failed"}
    /\ slot \in BOOLEAN
    /\ pthread \in {"none", "joinable", "joined", "detached"}
    /\ child \in ChildPoints
    /\ live \in 0 .. 1
    /\ lease \in BOOLEAN
    /\ handles \subseteq Caller
    /\ pc \in [Caller -> {"idle"} \cup SpawnPoints \cup JoinPoints]
    /\ timed \in [Caller -> BOOLEAN]
    /\ result \in {"none", "Ok", "Timeout", "Error"}

Init ==
    /\ join_state = "Running"
    /\ startup = "Pending"
    /\ slot = FALSE
    /\ pthread = "none"
    /\ child = "none"
    /\ live = 0
    /\ lease = FALSE
    /\ handles = {}
    /\ pc = [c \in Caller |-> "idle"]
    /\ timed = [c \in Caller |-> FALSE]
    /\ result = "none"

Goto(c, point) == pc' = [pc EXCEPT ![c] = point] /\ UNCHANGED <<timed, result>>

(* The conditions and updates below are preceded by faulty variants of     *)
(* themselves, which the specification never uses.                         *)

(* condvar.broadcast: everybody asleep on the task's condvar goes back to  *)
(* the top of its loop.                                                    *)
Awake(point) == CASE point = "waiting" -> "check"
                  [] point = "asleep" -> "startup"
                  [] OTHER -> point
SignalOne(p) ==
    IF \E c \in Caller : p[c] \in {"waiting", "asleep"}
    THEN LET first == CHOOSE c \in Caller : p[c] \in {"waiting", "asleep"}
         IN [p EXCEPT ![first] = Awake(@)]
    ELSE p
Broadcast(p) == [c \in Caller |-> Awake(p[c])]

Return(c, r, p) ==
    /\ pc' = [p EXCEPT ![c] = "idle"]
    /\ timed' = [timed EXCEPT ![c] = FALSE]
    /\ result' = r

(* PosixTaskInner::drop, when the last Arc goes: a thread still in the     *)
(* slot is detached, the lease is given back.                              *)
KeepThread(p) == p
detach(p) == IF slot THEN "detached" ELSE p

Release(last) ==
    IF last
    THEN pthread' = detach(pthread) /\ slot' = FALSE /\ lease' = FALSE
    ELSE UNCHANGED <<pthread, slot, lease>>

(* LiveTaskToken::drop.                                                    *)
DropToken == live - 1

ChildHolds == child \notin {"none", "exited"}
-----------------------------------------------------------------------------
(* spawn: validation, the lease, the TLS key, the mutex, the condvar and   *)
(* the handle may each refuse, and nothing stays behind.                   *)
Fresh == handles = {} /\ ~lease /\ ~ChildHolds

spawn_refused(c) ==
    /\ c = Spawner /\ pc[c] = "idle" /\ Fresh
    /\ Return(c, "Error", pc)
    /\ UNCHANGED task

(* The inner state and the live token exist before the thread does.        *)
spawn_prepare(c) ==
    /\ c = Spawner /\ pc[c] = "idle" /\ Fresh
    /\ join_state' = "Running" /\ startup' = "Pending"
    /\ slot' = FALSE /\ pthread' = "none" /\ child' = "none"
    /\ live' = 1
    /\ lease' = TRUE
    /\ Goto(c, "create")
    /\ UNCHANGED handles

pthread_create_fails(c) ==
    /\ pc[c] = "create"
    /\ live' = DropToken
    /\ lease' = FALSE
    /\ Return(c, "Error", pc)
    /\ UNCHANGED <<join_state, startup, slot, pthread, child, handles>>

pthread_create(c) ==
    /\ pc[c] = "create"
    /\ pthread' = "joinable" /\ child' = "start"
    /\ Goto(c, "store")
    /\ UNCHANGED <<join_state, startup, slot, live, lease, handles>>

store_thread(c) ==
    /\ pc[c] = "store"
    /\ slot' = TRUE
    /\ Goto(c, "startup")
    /\ UNCHANGED <<join_state, startup, pthread, child, live, lease, handles>>

wait_startup(c) ==
    /\ pc[c] = "startup"
    /\ \/ startup = "Pending" /\ Goto(c, "asleep") /\ UNCHANGED handles
       \/ startup = "Ready" /\ Return(c, "Ok", pc) /\ handles' = {c}
       \/ startup = "Failed" /\ Goto(c, "abort") /\ UNCHANGED handles
    /\ UNCHANGED <<join_state, startup, slot, pthread, child, live, lease>>

(* A child that failed to start is joined, and the spawner's Arc is the    *)
(* last one.                                                               *)
abort_spawn(c) ==
    /\ pc[c] = "abort"
    /\ child = "exited"
    /\ pthread' = "joined" /\ slot' = FALSE /\ lease' = FALSE
    /\ Return(c, "Error", pc)
    /\ UNCHANGED <<join_state, startup, child, live, handles>>
-----------------------------------------------------------------------------
(* task_trampoline.  CurrentGuard::enter succeeds or fails, and the        *)
(* handshake is published with a broadcast under the mutex.                *)
publish_startup ==
    /\ child = "start"
    /\ \/ startup' = "Ready" /\ child' = "entry"
       \/ startup' = "Failed" /\ child' = "refused"
    /\ pc' = Broadcast(pc)
    /\ UNCHANGED <<join_state, slot, pthread, live, lease, handles, timed, result>>

entry_returns ==
    /\ child = "entry"
    /\ live' = DropToken
    /\ child' = "uncounted"
    /\ UNCHANGED <<join_state, startup, slot, pthread, lease, handles, pc, timed, result>>

set_finished ==
    /\ child = "uncounted"
    /\ join_state' = "Finished"
    /\ child' = "finished"
    /\ UNCHANGED <<startup, slot, pthread, live, lease, handles, pc, timed, result>>

broadcast_finished ==
    /\ child = "finished"
    /\ pc' = Broadcast(pc)
    /\ child' = "leaving"
    /\ UNCHANGED <<join_state, startup, slot, pthread, live, lease, handles, timed, result>>

(* The trampoline's Arcs go, and with them the inner state if no handle    *)
(* and no spawner holds it any more.                                       *)
trampoline_exit ==
    /\ \/ child = "leaving" /\ UNCHANGED live
       \/ child = "refused" /\ live' = DropToken
    /\ child' = "exited"
    /\ Release(handles = {} /\ pc[Spawner] \notin SpawnPoints)
    /\ UNCHANGED <<join_state, startup, handles, pc, timed, result>>
-----------------------------------------------------------------------------
(* Handles are cloned to other callers and dropped, between calls.         *)
clone_handle(c, d) ==
    /\ c \in handles /\ d \notin handles
    /\ pc[c] = "idle" /\ pc[d] = "idle"
    /\ handles' = handles \cup {d}
    /\ UNCHANGED <<join_state, startup, slot, pthread, child, live, lease, pc, timed, result>>

drop_handle(c) ==
    /\ c \in handles /\ pc[c] = "idle"
    /\ handles' = handles \ {c}
    /\ Release(handles = {c} /\ ~ChildHolds)
    /\ UNCHANGED <<join_state, startup, child, live, pc, timed, result>>
-----------------------------------------------------------------------------
(* join_inner with NoWait: one look at the state.                          *)
AnswersNoWait == join_state \in {"Finished", "Joined"}

join_nowait(c) ==
    /\ c \in handles /\ pc[c] = "idle"
    /\ Return(c, IF AnswersNoWait THEN "Ok" ELSE "Timeout", pc)
    /\ UNCHANGED task

(* The entry joins its own task (through a handle some caller shared with  *)
(* it): the TLS identity refuses that before any state is looked at.       *)
join_self ==
    /\ child = "entry" /\ handles # {}
    /\ result' = "Error"
    /\ UNCHANGED <<task, pc, timed>>

(* join_inner with After (timed) and Forever.                              *)
join_call(c, b) ==
    /\ c \in handles /\ pc[c] = "idle"
    /\ pc' = [pc EXCEPT ![c] = "check"]
    /\ timed' = [timed EXCEPT ![c] = b]
    /\ UNCHANGED <<task, result>>

(* The first caller to see Finished becomes the one that reaps.            *)
ReapWithoutClaim == join_state
ClaimReap == "Joining"

join_check(c) ==
    /\ pc[c] = "check"
    /\ \/ join_state = "Joined" /\ Return(c, "Ok", pc) /\ UNCHANGED join_state
       \/ join_state = "Finished" /\ join_state' = ClaimReap /\ Goto(c, "reaping")
       \/ join_state \in {"Running", "Joining"} /\ Goto(c, "waiting") /\ UNCHANGED join_state
    /\ UNCHANGED <<startup, slot, pthread, child, live, lease, handles>>

(* A condvar may wake without cause.                                       *)
spurious_wakeup(c) ==
    /\ Awake(pc[c]) # pc[c]
    /\ Goto(c, Awake(pc[c]))
    /\ UNCHANGED task

(* timed_wait past its deadline: Timeout, without another look at the      *)
(* state.                                                                  *)
deadline_passes(c) ==
    /\ pc[c] = "waiting" /\ timed[c]
    /\ Goto(c, "expired")
    /\ UNCHANGED task

join_timeout(c) ==
    /\ pc[c] = "expired"
    /\ Return(c, "Timeout", pc)
    /\ UNCHANGED task

(* do_pthread_join: outside the mutex, then its outcome under it.          *)
JoinAfterExit == child = "exited"

pthread_join(c) ==
    /\ pc[c] = "reaping"
    /\ JoinAfterExit
    /\ pthread' = "joined"
    /\ Goto(c, "reaped")
    /\ UNCHANGED <<join_state, startup, slot, child, live, lease, handles>>

pthread_join_fails(c) ==
    /\ pc[c] = "reaping"
    /\ Goto(c, "unreaped")
    /\ UNCHANGED task

finish_join(c) ==
    /\ pc[c] = "reaped"
    /\ slot' = FALSE
    /\ join_state' = "Joined"
    /\ Return(c, "Ok", Broadcast(pc))
    /\ UNCHANGED <<startup, pthread, child, live, lease, handles>>

restore_finished(c) ==
    /\ pc[c] = "unreaped"
    /\ join_state' = "Finished"
    /\ Return(c, "Error", Broadcast(pc))
    /\ UNCHANGED <<startup, slot, pthread, child, live, lease, handles>>
-----------------------------------------------------------------------------
spawn(c) ==
    \/ pthread_create(c) \/ pthread_create_fails(c) \/ store_thread(c)
    \/ wait_startup(c) \/ abort_spawn(c)

join(c) ==
    \/ join_check(c) \/ join_timeout(c) \/ pthread_join(c)
    \/ finish_join(c) \/ restore_finished(c)

(* A caller in a call goes on, or its deadline passes.                     *)
Moves(c) == spawn(c) \/ join(c) \/ deadline_passes(c)

task_trampoline ==
    publish_startup \/ set_finished \/ broadcast_finished \/ trampoline_exit

Next ==
    \/ task_trampoline \/ entry_returns \/ join_self
    \/ \E c \in Caller :
        \/ spawn_refused(c) \/ spawn_prepare(c) \/ spawn(c) \/ drop_handle(c)
        \/ join_nowait(c) \/ join(c) \/ pthread_join_fails(c)
        \/ spurious_wakeup(c) \/ deadline_passes(c)
        \/ \E b \in BOOLEAN : join_call(c, b)
        \/ \E d \in Caller : clone_handle(c, d)

Spec == Init /\ [][Next]_vars

(* Threads that can run do run, deadlines pass, and pthread_join on a      *)
(* thread that is there does not fail for ever.  Nothing is assumed of the *)
(* entry, which may run forever.                                           *)
Fairness ==
    /\ WF_vars(task_trampoline)
    /\ \A c \in Caller : WF_vars(Moves(c)) /\ SF_vars(pthread_join(c))
FairSpec == Spec /\ Fairness
-----------------------------------------------------------------------------
Reapers == {c \in Caller : pc[c] \in {"reaping", "reaped", "unreaped"}}

(* inner.thread is an UnsafeCell that do_pthread_join uses without the     *)
(* mutex: the Joining state hands it to exactly one caller at a time, and  *)
(* that caller finds a thread in it that is neither joined nor detached.   *)
OneReaper ==
    /\ \A c, d \in Reapers : c = d
    /\ join_state = "Joining" <=> Reapers # {}
    /\ \A c \in Caller : pc[c] \in {"reaping", "unreaped"} => slot /\ pthread = "joinable"

NothingIsHeld == ~lease /\ live = 0 /\ ~slot /\ pthread # "joinable"

SpawnFails(c) == pc[c] \in SpawnPoints /\ pc'[c] = "idle" /\ result' = "Error"

(* When nobody refers to the task any more, its thread has been joined or  *)
(* detached, exactly one of the two, and lease and live count are given    *)
(* back: on every path through a join, and a drop by the last handle or by *)
(* the task's own thread.                                                  *)
UnreferencedIsFreed ==
    handles = {} /\ ~ChildHolds /\ pc[Spawner] \notin SpawnPoints => NothingIsHeld

(* A spawn that fails leaves no thread running and no lease, count or      *)
(* native thread behind when it returns.                                   *)
FailedSpawnLeavesNothing ==
    \A c \in Caller :
        SpawnFails(c) => /\ NothingIsHeld'
                         /\ child' \in {"none", "exited"}
                         /\ pthread' \in {"none", "joined"}

(* Once the task has finished every join returns, timed or not.            *)
JoinersReturn ==
    \A c \in Caller :
        join_state # "Running" /\ pc[c] \in JoinPoints ~> pc[c] = "idle"
=============================================================================
