----------------------------- MODULE PosixSync -----------------------------
(***************************************************************************)
(* Threads that use a mutex and a semaphore of osal-backend-posix side by  *)
(* side.  A thread is in one call at a time, and it may hold a guard of    *)
(* the mutex while it acquires or releases permits: the usual way to hand  *)
(* work over, and the way to get everybody to wait for everybody.          *)
(***************************************************************************)
EXTENDS Naturals, FiniteSets

CONSTANTS Thread, NoThread,       (* as in PosixMutex                      *)
          MaxCount, InitialCount  (* as in PosixSemaphore                  *)

(* CountingSemaphoreState::new refuses anything else.                      *)
ASSUME SyncAssumption ==
    /\ NoThread \notin Thread
    /\ IsFiniteSet(Thread)
    /\ MaxCount \in Nat \ {0}
    /\ InitialCount \in 0 .. MaxCount

VARIABLES owner, guards, pc, late,  (* the mutex                           *)
          count, timeout, point,    (* the semaphore                       *)
          result                    (* as in both                          *)

mutex == <<owner, guards, pc, late>>
semaphore == <<count, timeout, point>>
sync == <<mutex, semaphore, result>>

Mutex == INSTANCE PosixMutex
Semaphore == INSTANCE PosixSemaphore WITH Caller <- Thread, TimeoutConsumes <- FALSE

SyncInit == Mutex!Init /\ Semaphore!Init

OnMutex(t, step) == point[t] = "idle" /\ step /\ UNCHANGED semaphore
OnSemaphore(t, step) == pc[t] = "idle" /\ step /\ UNCHANGED mutex

SyncNext == \E t \in Thread :
    \/ OnMutex(t, Mutex!Step(t))
    \/ OnSemaphore(t, Semaphore!Step(t))

SyncSpec == SyncInit /\ [][SyncNext]_sync

(* Threads run and time passes: a polled lock goes on, a thread that wants *)
(* the semaphore's own mutex gets it, and an absolute deadline that has    *)
(* passed ends the next wait.  Nobody has to drop a guard or to release a  *)
(* permit, and who gets a free mutex is not fair.                          *)
SyncFairness ==
    \A t \in Thread :
        /\ WF_sync(OnMutex(t, Mutex!TimedStep(t)))
        /\ WF_sync(OnMutex(t, Mutex!deadline_passes(t)))
        /\ WF_sync(OnSemaphore(t, Semaphore!Proceed(t) \/ Semaphore!timed_out(t)))
        /\ SF_sync(OnSemaphore(t, Semaphore!expire(t)))
SyncFairSpec == SyncSpec /\ SyncFairness
-----------------------------------------------------------------------------
(* While anybody sleeps, at least as many callers are on their way back    *)
(* from the condvar as there are permits: N releases wake N waiters, even  *)
(* though each release signals only one and a caller from outside may take *)
(* the permit first.                                                       *)
NoLostPermit == Semaphore!NoLostPermit

(* A lock or an acquire with a deadline returns, whatever the others hold, *)
(* wait for or take first, and also when the caller itself is the owner of *)
(* the mutex it asks for.                                                  *)
TimedCallsReturn ==
    \A t \in Thread :
        /\ pc[t] \in {"try", "clock", "backoff"} ~> pc[t] = "idle"
        /\ (point[t] # "idle" /\ timeout[t] = "After") ~> point[t] = "idle"
=============================================================================
