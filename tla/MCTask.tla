------------------------------- MODULE MCTask -------------------------------
(***************************************************************************)
(* A task of one of the two backends that have tasks: PosixTask or         *)
(* FreeRtosTask.  What only the other backend has stays as it was created. *)
(***************************************************************************)
EXTENDS Naturals

CONSTANTS Caller, Spawner

ASSUME TaskAssumption == Spawner \in Caller

VARIABLES backend,
          join_state, startup, slot, pthread,               (* POSIX only  *)
          state, exit_code, event_group, bit, leaked, tls,  (* FreeRTOS    *)
          child, live, lease, handles, pc, timed, result    (* in both     *)

posix == <<join_state, startup, slot, pthread>>
freertos == <<state, exit_code, event_group, bit, leaked, tls>>
vars == <<backend, posix, freertos, child, live, lease, handles, pc, timed, result>>

Posix == INSTANCE PosixTask
FreeRtos == INSTANCE FreeRtosTask

Init == backend \in {"posix", "freertos"} /\ Posix!Init /\ FreeRtos!Init

OnPosix(step) == backend = "posix" /\ step /\ UNCHANGED <<backend, freertos>>
OnFreeRtos(step) == backend = "freertos" /\ step /\ UNCHANGED <<backend, posix>>

Next == OnPosix(Posix!Next) \/ OnFreeRtos(FreeRtos!Next)

(* The fairness of PosixTask; nothing is assumed of FreeRTOS.              *)
Fairness ==
    /\ WF_vars(OnPosix(Posix!task_trampoline))
    /\ \A c \in Caller : /\ WF_vars(OnPosix(Posix!Moves(c)))
                         /\ SF_vars(OnPosix(Posix!pthread_join(c)))

Spec == Init /\ [][Next]_vars /\ Fairness
-----------------------------------------------------------------------------
(* inner.thread is an UnsafeCell that do_pthread_join uses without the     *)
(* mutex: the Joining state hands it to exactly one caller at a time, and  *)
(* that caller finds a thread in it that is neither joined nor detached    *)
(* (POSIX).                                                                *)
OneReaper == backend = "posix" => Posix!OneReaper

(* When nobody refers to the task any more, its thread has been joined or  *)
(* detached, exactly one of the two, and lease and live count are given    *)
(* back; and a spawn that fails leaves nothing behind (POSIX).             *)
NothingLeaks ==
    /\ [](backend = "posix" => Posix!UnreferencedIsFreed)
    /\ [][backend = "posix" => Posix!FailedSpawnLeavesNothing]_vars

(* Once the task has finished every join returns, timed or not (POSIX).    *)
JoinersReturn == backend = "posix" => Posix!JoinersReturn

(* A joiner that observes Finished also observes the count decremented,    *)
(* the identity cleared and the exit code written, and the bit is never    *)
(* set before the state (FreeRTOS, the publication order of ADR 0028,      *)
(* section 6).                                                             *)
FinishedTellsAll == backend = "freertos" => FreeRtos!FinishedTellsAll

(* The event group is there for as long as a joiner waits on it or the     *)
(* trampoline may still set its bit (FreeRTOS).                            *)
EventGroupOutlivesItsUsers == backend = "freertos" => FreeRtos!EventGroupOutlivesItsUsers

(* A join reports Timeout only while the task is still running, also when  *)
(* the task finishes as the deadline passes (FreeRTOS).                    *)
TimeoutOnlyWhileRunning == [][backend = "freertos" => FreeRtos!TimeoutOnlyWhileRunning]_vars
=============================================================================
