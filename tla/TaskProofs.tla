----------------------------- MODULE TaskProofs -----------------------------
(***************************************************************************)
(* Proofs about the tasks of both backends, for any set of callers.        *)
(***************************************************************************)
EXTENDS MCTask, TLAPS

PosixTypes ==
    /\ join_state \in {"Running", "Finished", "Joining", "Joined"}
    /\ slot \in BOOLEAN
    /\ child \in Posix!ChildPoints
    /\ live \in Nat
    /\ handles \subseteq Caller
    /\ pc \in [Caller -> {"idle"} \cup Posix!SpawnPoints \cup Posix!JoinPoints]

(* A caller in join borrows its handle; a handle is handed out when spawn  *)
(* returns, and the child does not start before it was created.            *)
PosixCallersHold ==
    \A c \in Caller :
        /\ pc[c] \in Posix!JoinPoints => c \in handles
        /\ pc[c] \in Posix!SpawnPoints => c = Spawner /\ handles = {} /\ join_state # "Joined"
        /\ pc[c] = "create" => child = "none" /\ ~slot /\ pthread = "none"
        /\ pc[c] = "store" => ~slot /\ pthread = "joinable"
        /\ pc[c] \in {"startup", "asleep", "abort"} => slot /\ pthread = "joinable"
        /\ pc[c] = "reaped" => pthread = "joined"

(* The completion follows the trampoline, and so does the live count; a    *)
(* child exists only if the spawner is one of the callers.                 *)
PosixChildTells ==
    /\ child # "none" => Spawner \in Caller
    /\ child \in {"none", "start", "refused", "entry", "uncounted"} => join_state = "Running"
    /\ child \in {"start", "refused", "entry"} => live = 1
    /\ child \in {"uncounted", "finished", "leaving", "exited"} => live = 0
    /\ child = "none" => live = IF \E c \in Caller : pc[c] = "create" THEN 1 ELSE 0

(* The thread is in the slot until somebody has joined it.                 *)
PosixSlotHolds ==
    /\ handles # {} /\ join_state # "Joined" /\ (\A c \in Caller : pc[c] # "reaped")
           => slot /\ pthread = "joinable"
    /\ join_state = "Joined" => pthread # "joinable"
    /\ pthread = "joinable" => slot \/ \E c \in Caller : pc[c] = "store"

(* UnreferencedIsFreed, told by where every caller is.                     *)
PosixFreed ==
    handles = {} /\ ~Posix!ChildHolds /\ (\A c \in Caller : pc[c] \notin Posix!SpawnPoints)
        => Posix!NothingIsHeld

PosixIInv == PosixTypes /\ PosixCallersHold /\ PosixChildTells /\ PosixSlotHolds /\ Posix!OneReaper /\ PosixFreed

USE DEF Posix!SpawnPoints, Posix!JoinPoints, Posix!ChildPoints

LEMMA PosixInitIInv == Posix!Init => PosixIInv
  <1> SUFFICES ASSUME Posix!Init PROVE PosixIInv
    OBVIOUS
  <1>1. slot \in BOOLEAN BY Zenon DEF Posix!Init
  <1>2. PosixTypes BY <1>1 DEF Posix!Init, PosixTypes
  <1>3. PosixCallersHold /\ PosixChildTells /\ PosixSlotHolds
    BY DEF Posix!Init, PosixCallersHold, PosixChildTells, PosixSlotHolds
  <1>4. Posix!OneReaper /\ PosixFreed
    BY DEF Posix!Init, Posix!OneReaper, Posix!Reapers, PosixFreed, Posix!NothingIsHeld
  <1> QED BY <1>2, <1>3, <1>4 DEF PosixIInv

(* A broadcast moves sleepers to the top of their loop and nobody else.    *)
LEMMA PosixBroadcastMoves ==
    ASSUME PosixTypes
    PROVE  /\ Posix!Broadcast(pc) \in [Caller -> {"idle"} \cup Posix!SpawnPoints \cup Posix!JoinPoints]
           /\ \A c \in Caller :
                 \/ pc[c] = "waiting" /\ Posix!Broadcast(pc)[c] = "check"
                 \/ pc[c] = "asleep" /\ Posix!Broadcast(pc)[c] = "startup"
                 \/ pc[c] \notin {"waiting", "asleep"} /\ Posix!Broadcast(pc)[c] = pc[c]
  BY DEF PosixTypes, Posix!Broadcast, Posix!Awake

LEMMA PosixTrampolineStep == PosixIInv /\ (Posix!task_trampoline \/ Posix!entry_returns) => PosixIInv'
  <1> SUFFICES ASSUME PosixIInv, Posix!task_trampoline \/ Posix!entry_returns PROVE PosixIInv'
    OBVIOUS
  <1> USE DEF PosixIInv, PosixTypes, PosixCallersHold, PosixChildTells, PosixSlotHolds,
              Posix!OneReaper, Posix!Reapers, PosixFreed,
              Posix!NothingIsHeld, Posix!ChildHolds
  <1>1. CASE Posix!publish_startup BY <1>1, PosixBroadcastMoves DEF Posix!publish_startup
  <1>2. CASE Posix!entry_returns BY <1>2 DEF Posix!entry_returns, Posix!DropToken
  <1>3. CASE Posix!set_finished BY <1>3 DEF Posix!set_finished
  <1>4. CASE Posix!broadcast_finished BY <1>4, PosixBroadcastMoves DEF Posix!broadcast_finished
  <1>5. CASE Posix!trampoline_exit
    <2> live' \in Nat BY <1>5 DEF Posix!trampoline_exit, Posix!DropToken
    <2> slot' \in BOOLEAN
      <3>1. CASE handles = {} /\ pc[Spawner] \notin Posix!SpawnPoints
        BY <1>5, <3>1, Zenon DEF Posix!trampoline_exit, Posix!Release
      <3>2. CASE ~(handles = {} /\ pc[Spawner] \notin Posix!SpawnPoints)
        BY <1>5, <3>2, Zenon DEF Posix!trampoline_exit, Posix!Release
      <3> QED BY <3>1, <3>2
    <2>1. PosixTypes' BY <1>5 DEF Posix!trampoline_exit
    <2>2. PosixCallersHold' BY <1>5 DEF Posix!trampoline_exit, Posix!Release
    <2>3. PosixChildTells' BY <1>5 DEF Posix!trampoline_exit, Posix!DropToken
    <2>4. PosixSlotHolds' BY <1>5 DEF Posix!trampoline_exit, Posix!Release, Posix!detach
    <2>5. Posix!OneReaper' BY <1>5 DEF Posix!trampoline_exit, Posix!Release
    <2>6. PosixFreed' BY <1>5 DEF Posix!trampoline_exit, Posix!Release, Posix!detach,
                                  Posix!DropToken
    <2> QED BY <2>1, <2>2, <2>3, <2>4, <2>5, <2>6
  <1> QED BY <1>1, <1>2, <1>3, <1>4, <1>5 DEF Posix!task_trampoline

LEMMA PosixSpawnStep ==
    ASSUME PosixIInv, NEW c \in Caller, Posix!spawn_refused(c) \/ Posix!spawn_prepare(c) \/ Posix!spawn(c)
    PROVE  PosixIInv'
  <1> USE DEF PosixIInv, PosixTypes, PosixCallersHold, PosixChildTells, PosixSlotHolds,
              Posix!OneReaper, Posix!Reapers, PosixFreed,
              Posix!NothingIsHeld, Posix!ChildHolds, Posix!Goto, Posix!Return
  <1>1. CASE Posix!spawn_refused(c) BY <1>1 DEF Posix!spawn_refused, Posix!task
  <1>2. CASE Posix!spawn_prepare(c)
    <2>1. PosixTypes' BY <1>2 DEF Posix!spawn_prepare
    <2>2. \A d \in Caller : pc'[d] \in {"idle", "create"}
      BY <1>2 DEF Posix!spawn_prepare, Posix!Fresh
    <2>3. PosixCallersHold' BY <1>2, <2>2 DEF Posix!spawn_prepare, Posix!Fresh
    <2>4. PosixChildTells' BY <1>2 DEF Posix!spawn_prepare
    <2>5. PosixSlotHolds' BY <1>2 DEF Posix!spawn_prepare, Posix!Fresh
    <2>6. Posix!OneReaper' BY <1>2, <2>2 DEF Posix!spawn_prepare
    <2>7. PosixFreed' BY <1>2 DEF Posix!spawn_prepare
    <2> QED BY <2>1, <2>3, <2>4, <2>5, <2>6, <2>7
  <1>3. CASE Posix!pthread_create_fails(c) BY <1>3 DEF Posix!pthread_create_fails, Posix!DropToken
  <1>4. CASE Posix!pthread_create(c) BY <1>4 DEF Posix!pthread_create
  <1>5. CASE Posix!store_thread(c) BY <1>5 DEF Posix!store_thread
  <1>6. CASE Posix!wait_startup(c) BY <1>6 DEF Posix!wait_startup
  <1>7. CASE Posix!abort_spawn(c)
    <2>1. PosixTypes' BY <1>7 DEF Posix!abort_spawn
    <2>2. PosixCallersHold' BY <1>7 DEF Posix!abort_spawn
    <2>3. PosixChildTells' BY <1>7 DEF Posix!abort_spawn
    <2>4. PosixSlotHolds' BY <1>7 DEF Posix!abort_spawn
    <2>5. Posix!OneReaper' BY <1>7 DEF Posix!abort_spawn
    <2>6. PosixFreed' BY <1>7 DEF Posix!abort_spawn
    <2> QED BY <2>1, <2>2, <2>3, <2>4, <2>5, <2>6
  <1> QED BY <1>1, <1>2, <1>3, <1>4, <1>5, <1>6, <1>7 DEF Posix!spawn

LEMMA PosixHandleStep ==
    ASSUME PosixIInv, NEW c \in Caller,
           Posix!drop_handle(c) \/ \E d \in Caller : Posix!clone_handle(c, d)
    PROVE  PosixIInv'
  <1> USE DEF PosixIInv, PosixTypes, PosixCallersHold, PosixChildTells, PosixSlotHolds,
              Posix!OneReaper, Posix!Reapers, PosixFreed,
              Posix!NothingIsHeld, Posix!ChildHolds
  <1>1. CASE Posix!drop_handle(c)
    <2>1. PosixTypes' BY <1>1 DEF Posix!drop_handle, Posix!Release
    <2>2. PosixCallersHold' BY <1>1 DEF Posix!drop_handle, Posix!Release
    <2>3. PosixChildTells' BY <1>1 DEF Posix!drop_handle
    <2>4. PosixSlotHolds' BY <1>1 DEF Posix!drop_handle, Posix!Release, Posix!detach
    <2>5. Posix!OneReaper' BY <1>1 DEF Posix!drop_handle, Posix!Release
    <2>6. PosixFreed' BY <1>1 DEF Posix!drop_handle, Posix!Release, Posix!detach
    <2> QED BY <2>1, <2>2, <2>3, <2>4, <2>5, <2>6
  <1>2. CASE \E d \in Caller : Posix!clone_handle(c, d) BY <1>2 DEF Posix!clone_handle
  <1> QED BY <1>1, <1>2

LEMMA PosixJoinStep ==
    ASSUME PosixIInv, NEW c \in Caller,
           \/ Posix!join_nowait(c) \/ Posix!join(c) \/ Posix!pthread_join_fails(c) \/ Posix!spurious_wakeup(c)
           \/ Posix!deadline_passes(c) \/ \E b \in BOOLEAN : Posix!join_call(c, b)
    PROVE  PosixIInv'
  <1> USE DEF PosixIInv, PosixTypes, PosixCallersHold, PosixChildTells, PosixSlotHolds,
              Posix!OneReaper, Posix!Reapers, PosixFreed,
              Posix!NothingIsHeld, Posix!ChildHolds, Posix!Goto, Posix!Return
  <1>1. CASE Posix!join_nowait(c) BY <1>1 DEF Posix!join_nowait, Posix!task
  <1>2. CASE Posix!join_check(c) BY <1>2 DEF Posix!join_check, Posix!ClaimReap
  <1>3. CASE Posix!join_timeout(c) BY <1>3 DEF Posix!join_timeout, Posix!task
  <1>4. CASE Posix!pthread_join(c) BY <1>4 DEF Posix!pthread_join, Posix!JoinAfterExit
  <1>5. CASE Posix!finish_join(c)
    <2>1. PosixTypes' BY <1>5, PosixBroadcastMoves DEF Posix!finish_join
    <2>2. PosixCallersHold' BY <1>5, PosixBroadcastMoves DEF Posix!finish_join
    <2>3. PosixChildTells' BY <1>5 DEF Posix!finish_join
    <2>4. PosixSlotHolds' BY <1>5 DEF Posix!finish_join
    <2>5. Posix!OneReaper' BY <1>5, PosixBroadcastMoves DEF Posix!finish_join
    <2>6. PosixFreed' BY <1>5 DEF Posix!finish_join
    <2> QED BY <2>1, <2>2, <2>3, <2>4, <2>5, <2>6
  <1>6. CASE Posix!restore_finished(c) BY <1>6, PosixBroadcastMoves DEF Posix!restore_finished
  <1>7. CASE Posix!pthread_join_fails(c) BY <1>7 DEF Posix!pthread_join_fails, Posix!task
  <1>8. CASE Posix!spurious_wakeup(c) BY <1>8 DEF Posix!spurious_wakeup, Posix!Awake, Posix!task
  <1>9. CASE Posix!deadline_passes(c) BY <1>9, SMTT(30) DEF Posix!deadline_passes, Posix!task
  <1>10. CASE \E b \in BOOLEAN : Posix!join_call(c, b) BY <1>10 DEF Posix!join_call, Posix!task
  <1> QED BY <1>1, <1>2, <1>3, <1>4, <1>5, <1>6, <1>7, <1>8, <1>9, <1>10 DEF Posix!join

LEMMA PosixNextIInv == PosixIInv /\ Posix!Next => PosixIInv'
  <1> SUFFICES ASSUME PosixIInv, Posix!Next PROVE PosixIInv'
    OBVIOUS
  <1>1. CASE Posix!task_trampoline \/ Posix!entry_returns BY <1>1, PosixTrampolineStep
  <1>2. CASE Posix!join_self
    BY <1>2 DEF Posix!join_self, Posix!task, PosixIInv, PosixTypes, PosixCallersHold,
                PosixChildTells, PosixSlotHolds, Posix!OneReaper,
                Posix!Reapers, PosixFreed, Posix!NothingIsHeld, Posix!ChildHolds
  <1>3. ASSUME NEW c \in Caller, Posix!spawn_refused(c) \/ Posix!spawn_prepare(c) \/ Posix!spawn(c)
        PROVE  PosixIInv'
    BY <1>3, PosixSpawnStep
  <1>4. ASSUME NEW c \in Caller, Posix!drop_handle(c) \/ \E d \in Caller : Posix!clone_handle(c, d)
        PROVE  PosixIInv'
    BY <1>4, PosixHandleStep
  <1>5. ASSUME NEW c \in Caller,
               \/ Posix!join_nowait(c) \/ Posix!join(c) \/ Posix!pthread_join_fails(c) \/ Posix!spurious_wakeup(c)
               \/ Posix!deadline_passes(c) \/ \E b \in BOOLEAN : Posix!join_call(c, b)
        PROVE  PosixIInv'
    BY <1>5, PosixJoinStep
  <1> QED BY <1>1, <1>2, <1>3, <1>4, <1>5 DEF Posix!Next
LEMMA PosixIInvFrees == PosixIInv => Posix!UnreferencedIsFreed
  BY DEF PosixIInv, PosixCallersHold, PosixFreed, Posix!UnreferencedIsFreed

LEMMA PosixFailedSpawn == PosixIInv /\ Posix!Next => Posix!FailedSpawnLeavesNothing
  <1> SUFFICES ASSUME PosixIInv, Posix!Next, NEW c \in Caller, Posix!SpawnFails(c)
               PROVE  /\ Posix!NothingIsHeld'
                      /\ child' \in {"none", "exited"}
                      /\ pthread' \in {"none", "joined"}
    BY DEF Posix!FailedSpawnLeavesNothing
  <1> USE DEF PosixIInv, PosixTypes, Posix!SpawnFails
  <1>1. CASE Posix!task_trampoline \/ Posix!entry_returns \/ Posix!join_self
    BY <1>1, PosixBroadcastMoves
       DEF Posix!task_trampoline, Posix!publish_startup, Posix!set_finished,
           Posix!broadcast_finished,
           Posix!trampoline_exit, Posix!entry_returns, Posix!join_self
  <1>2. ASSUME NEW d \in Caller,
               \/ Posix!spawn_refused(d) \/ Posix!spawn_prepare(d) \/ Posix!pthread_create(d)
               \/ Posix!store_thread(d) \/ Posix!wait_startup(d) \/ Posix!drop_handle(d)
               \/ Posix!join_nowait(d) \/ Posix!pthread_join_fails(d) \/ Posix!deadline_passes(d)
               \/ (\E b \in BOOLEAN : Posix!join_call(d, b))
               \/ (\E e \in Caller : Posix!clone_handle(d, e))
        PROVE  FALSE
    BY <1>2 DEF Posix!spawn_refused, Posix!spawn_prepare, Posix!pthread_create, Posix!store_thread,
                Posix!wait_startup,
                Posix!drop_handle, Posix!join_nowait, Posix!pthread_join_fails,
                Posix!deadline_passes, Posix!join_call,
                Posix!clone_handle, Posix!Goto, Posix!Return
  <1>3. ASSUME NEW d \in Caller, Posix!join(d) \/ Posix!spurious_wakeup(d)
        PROVE  FALSE
    <2>1. CASE Posix!join_check(d) \/ Posix!join_timeout(d) \/ Posix!pthread_join(d)
      BY <2>1 DEF Posix!join_check, Posix!join_timeout, Posix!pthread_join, Posix!Goto, Posix!Return
    <2>2. CASE Posix!finish_join(d) \/ Posix!restore_finished(d)
      BY <2>2, PosixBroadcastMoves DEF Posix!finish_join, Posix!restore_finished, Posix!Return
    <2>3. CASE Posix!spurious_wakeup(d) BY <2>3 DEF Posix!spurious_wakeup, Posix!Awake, Posix!Goto
    <2> QED BY <1>3, <2>1, <2>2, <2>3 DEF Posix!join
  <1>4. ASSUME NEW d \in Caller, Posix!pthread_create_fails(d)
        PROVE  /\ Posix!NothingIsHeld'
               /\ child' \in {"none", "exited"}
               /\ pthread' \in {"none", "joined"}
    BY <1>4 DEF Posix!pthread_create_fails, PosixCallersHold, PosixChildTells, Posix!NothingIsHeld,
                Posix!DropToken
  <1>5. ASSUME NEW d \in Caller, Posix!abort_spawn(d)
        PROVE  /\ Posix!NothingIsHeld'
               /\ child' \in {"none", "exited"}
               /\ pthread' \in {"none", "joined"}
    BY <1>5 DEF Posix!abort_spawn, PosixChildTells, Posix!NothingIsHeld
  <1> QED BY <1>1, <1>2, <1>3, <1>4, <1>5 DEF Posix!Next, Posix!spawn

-----------------------------------------------------------------------------
(* What the trampoline has published, told from where it is: the steps     *)
(* that other tasks can see come in the order of the code.                 *)
FreeRtosChildTells ==
    /\ child # "panicked"
    /\ state = "Finished" <=> child \in {"finished", "signalled", "released"}
    /\ bit <=> child \in {"signalled", "released"}
    /\ child \in {"coded", "finished", "signalled", "released"} => exit_code
    /\ live = IF child = "entry" THEN 1 ELSE 0
    /\ tls <=> child \in {"identified", "entry", "uncounted"}

(* Somebody has an Arc of the identity and of the completion.              *)
FreeRtosHeld == FreeRtos!ChildHolds \/ handles # {} \/ \E c \in Caller : pc[c] = "created"

(* A caller that waits borrows its handle; spawn has not handed one out.   *)
FreeRtosCallersHold ==
    \A c \in Caller :
        /\ pc[c] # "panicked"
        /\ pc[c] \in {"waiting", "acquired", "expired"} => c \in handles
        /\ pc[c] = "acquired" => bit
        /\ pc[c] = "created" => handles = {} /\ c = Spawner

FreeRtosHeldIsValid == FreeRtosHeld => event_group = "valid"

FreeRtosIInv == FreeRtos!TypeOK /\ FreeRtosChildTells /\ FreeRtosCallersHold /\ FreeRtosHeldIsValid

USE DEF FreeRtos!ChildPoints, FreeRtos!CallPoints

LEMMA FreeRtosInitIInv == FreeRtos!Init => FreeRtosIInv
  <1> SUFFICES ASSUME FreeRtos!Init PROVE FreeRtosIInv
    OBVIOUS
  <1>1. FreeRtos!TypeOK
    <2>1. timed \in [Caller -> BOOLEAN] /\ pc \in [Caller -> FreeRtos!CallPoints]
      BY Zenon DEF FreeRtos!Init
    <2>2. exit_code \in BOOLEAN /\ bit \in BOOLEAN /\ leaked \in BOOLEAN
          /\ tls \in BOOLEAN /\ lease \in BOOLEAN
      BY Zenon DEF FreeRtos!Init
    <2>3. state \in {"Running", "Finished"} /\ event_group \in {"none", "valid", "deleted"}
          /\ child \in FreeRtos!ChildPoints /\ live \in 0 .. 1 /\ handles \subseteq Caller
          /\ result \in {"none", "Ok", "Timeout", "Error"}
      BY DEF FreeRtos!Init
    <2> QED BY <2>1, <2>2, <2>3, Zenon DEF FreeRtos!TypeOK
  <1>2. FreeRtosChildTells BY DEF FreeRtos!Init, FreeRtosChildTells
  <1>3. FreeRtosCallersHold /\ FreeRtosHeldIsValid BY DEF FreeRtos!Init, FreeRtosCallersHold,
      FreeRtosHeldIsValid, FreeRtosHeld, FreeRtos!ChildHolds
  <1> QED BY <1>1, <1>2, <1>3 DEF FreeRtosIInv

(* A step of the trampoline changes no call, and releases the Arcs last.   *)
LEMMA FreeRtosTrampolineStep == FreeRtosIInv /\ (FreeRtos!task_trampoline \/ FreeRtos!entry_returns) => FreeRtosIInv'
  <1> SUFFICES ASSUME FreeRtosIInv,
  FreeRtos!task_trampoline \/ FreeRtos!entry_returns PROVE FreeRtosIInv'
    OBVIOUS
  <1> USE DEF FreeRtosIInv, FreeRtos!TypeOK, FreeRtosChildTells, FreeRtosCallersHold,
              FreeRtosHeldIsValid, FreeRtosHeld, FreeRtos!ChildHolds,
              FreeRtos!Advance, FreeRtos!completion, FreeRtos!calls
  <1>1. CASE FreeRtos!set_context BY <1>1 DEF FreeRtos!set_context
  <1>2. CASE FreeRtos!acquire_live_token BY <1>2 DEF FreeRtos!acquire_live_token
  <1>3. CASE FreeRtos!entry_returns BY <1>3 DEF FreeRtos!entry_returns, FreeRtos!DropToken
  <1>4. CASE FreeRtos!clear_context BY <1>4 DEF FreeRtos!clear_context
  <1>5. CASE FreeRtos!publish_code BY <1>5 DEF FreeRtos!publish_code
  <1>6. CASE FreeRtos!publish_state BY <1>6 DEF FreeRtos!publish_state, FreeRtos!FinishedState
  <1>7. CASE FreeRtos!publish_bit BY <1>7 DEF FreeRtos!publish_bit
  <1>8. CASE FreeRtos!release_arcs
    <2>1. FreeRtos!TypeOK' BY <1>8 DEF FreeRtos!release_arcs, FreeRtos!Release, FreeRtos!DeleteGroup
    <2>2. FreeRtosChildTells' /\ FreeRtosCallersHold' BY <1>8 DEF FreeRtos!release_arcs
    <2>3. FreeRtosHeldIsValid' BY <1>8 DEF FreeRtos!release_arcs, FreeRtos!Release,
        FreeRtos!DeleteGroup
    <2> QED BY <2>1, <2>2, <2>3
  <1> QED
    BY <1>1, <1>2, <1>3, <1>4, <1>5, <1>6, <1>7, <1>8 DEF FreeRtos!task_trampoline

(* A spawn starts only when nobody refers to an earlier task.              *)
LEMMA FreeRtosSpawnStep ==
    ASSUME FreeRtosIInv, NEW c \in Caller,
           \/ FreeRtos!spawn_refused(c) \/ FreeRtos!spawn_overflow(c) \/ FreeRtos!task_create(c)
           \/ FreeRtos!task_create_fails(c) \/ FreeRtos!spawn_returns(c)
    PROVE  FreeRtosIInv'
  <1> USE DEF FreeRtosIInv, FreeRtos!TypeOK, FreeRtosChildTells, FreeRtosCallersHold,
              FreeRtosHeldIsValid, FreeRtosHeld, FreeRtos!ChildHolds,
              FreeRtos!Fresh, FreeRtos!Goto, FreeRtos!Return, FreeRtos!completion, FreeRtos!task
  <1>1. CASE FreeRtos!spawn_refused(c) BY <1>1 DEF FreeRtos!spawn_refused
  <1>2. CASE FreeRtos!spawn_overflow(c) BY <1>2 DEF FreeRtos!spawn_overflow
  <1>3. CASE FreeRtos!task_create(c) BY <1>3 DEF FreeRtos!task_create
  <1>4. CASE FreeRtos!task_create_fails(c) BY <1>4 DEF FreeRtos!task_create_fails
  <1>5. CASE FreeRtos!spawn_returns(c) BY <1>5 DEF FreeRtos!spawn_returns
  <1> QED BY <1>1, <1>2, <1>3, <1>4, <1>5

LEMMA FreeRtosHandleStep ==
    ASSUME FreeRtosIInv, NEW c \in Caller,
           FreeRtos!drop_handle(c) \/ \E d \in Caller : FreeRtos!clone_handle(c, d)
    PROVE  FreeRtosIInv'
  <1> USE DEF FreeRtosIInv, FreeRtos!TypeOK, FreeRtosChildTells, FreeRtosCallersHold,
              FreeRtosHeldIsValid, FreeRtosHeld, FreeRtos!ChildHolds,
              FreeRtos!completion, FreeRtos!calls
  <1>1. CASE FreeRtos!drop_handle(c)
    <2>1. FreeRtos!TypeOK' BY <1>1 DEF FreeRtos!drop_handle, FreeRtos!Release, FreeRtos!DeleteGroup
    <2>2. FreeRtosChildTells' /\ FreeRtosCallersHold' BY <1>1 DEF FreeRtos!drop_handle
    <2>3. FreeRtosHeldIsValid' BY <1>1 DEF FreeRtos!drop_handle, FreeRtos!Release,
        FreeRtos!DeleteGroup
    <2> QED BY <2>1, <2>2, <2>3
  <1>2. CASE \E d \in Caller : FreeRtos!clone_handle(c, d) BY <1>2 DEF FreeRtos!clone_handle
  <1> QED BY <1>1, <1>2

LEMMA FreeRtosJoinStep ==
    ASSUME FreeRtosIInv, NEW c \in Caller,
           \/ FreeRtos!join_nowait(c) \/ FreeRtos!join(c) \/ FreeRtos!deadline_passes(c)
           \/ \E b \in BOOLEAN : FreeRtos!join_call(c, b)
    PROVE  FreeRtosIInv'
  <1> USE DEF FreeRtosIInv, FreeRtos!TypeOK, FreeRtosChildTells, FreeRtosCallersHold,
              FreeRtosHeldIsValid, FreeRtosHeld, FreeRtos!ChildHolds,
              FreeRtos!Goto, FreeRtos!Return, FreeRtos!task, FreeRtos!finished_code
  <1>1. CASE FreeRtos!join_nowait(c) BY <1>1 DEF FreeRtos!join_nowait
  <1>2. CASE FreeRtos!wait_once(c) BY <1>2 DEF FreeRtos!wait_once
  <1>3. CASE FreeRtos!join_acquired(c) BY <1>3 DEF FreeRtos!join_acquired
  <1>4. CASE FreeRtos!join_expired(c) BY <1>4 DEF FreeRtos!join_expired, FreeRtos!LastLook
  <1>5. CASE FreeRtos!deadline_passes(c) BY <1>5 DEF FreeRtos!deadline_passes
  <1>6. CASE \E b \in BOOLEAN : FreeRtos!join_call(c, b)
    <2> PICK b \in BOOLEAN : FreeRtos!join_call(c, b) BY <1>6
    <2>1. CASE FreeRtos!finished_code /\ FreeRtos!Return(c, "Ok") BY <2>1 DEF FreeRtos!join_call
    <2>2. CASE ~FreeRtos!finished_code /\ FreeRtos!Return(c, "Error") BY <2>2 DEF FreeRtos!join_call
    <2>3. CASE /\ pc' = [pc EXCEPT ![c] = "waiting"]
               /\ timed' = [timed EXCEPT ![c] = b]
               /\ UNCHANGED result
      <3>1. timed' \in [Caller -> BOOLEAN] BY <2>3, Zenon
      <3>2. FreeRtos!TypeOK' BY <2>3, <3>1 DEF FreeRtos!join_call
      <3>3. FreeRtosChildTells' /\ FreeRtosCallersHold' /\ FreeRtosHeldIsValid' BY <2>3 DEF FreeRtos!join_call
      <3> QED BY <3>2, <3>3
    <2> QED BY <2>1, <2>2, <2>3 DEF FreeRtos!join_call
  <1> QED BY <1>1, <1>2, <1>3, <1>4, <1>5, <1>6 DEF FreeRtos!join

LEMMA FreeRtosNextIInv == FreeRtosIInv /\ FreeRtos!Next => FreeRtosIInv'
  <1> SUFFICES ASSUME FreeRtosIInv, FreeRtos!Next PROVE FreeRtosIInv'
    OBVIOUS
  <1>1. CASE FreeRtos!task_trampoline \/ FreeRtos!entry_returns BY <1>1, FreeRtosTrampolineStep
  <1>2. CASE FreeRtos!join_self
    BY <1>2 DEF FreeRtos!join_self, FreeRtosIInv, FreeRtos!TypeOK, FreeRtosChildTells,
                FreeRtosCallersHold, FreeRtosHeldIsValid, FreeRtosHeld,
                FreeRtos!ChildHolds, FreeRtos!task
  <1>3. ASSUME NEW c \in Caller,
               \/ FreeRtos!spawn_refused(c) \/ FreeRtos!spawn_overflow(c) \/ FreeRtos!task_create(c)
               \/ FreeRtos!task_create_fails(c) \/ FreeRtos!spawn_returns(c)
        PROVE  FreeRtosIInv'
    BY <1>3, FreeRtosSpawnStep
  <1>4. ASSUME NEW c \in Caller, FreeRtos!drop_handle(c) \/ \E d \in Caller : FreeRtos!clone_handle(c, d)
        PROVE  FreeRtosIInv'
    BY <1>4, FreeRtosHandleStep
  <1>5. ASSUME NEW c \in Caller,
               \/ FreeRtos!join_nowait(c) \/ FreeRtos!join(c) \/ FreeRtos!deadline_passes(c)
               \/ \E b \in BOOLEAN : FreeRtos!join_call(c, b)
        PROVE  FreeRtosIInv'
    BY <1>5, FreeRtosJoinStep
  <1> QED BY <1>1, <1>2, <1>3, <1>4, <1>5 DEF FreeRtos!Next
LEMMA FreeRtosTimeout == FreeRtosIInv /\ FreeRtos!Next => FreeRtos!TimeoutOnlyWhileRunning
  <1> SUFFICES ASSUME FreeRtosIInv, FreeRtos!Next, NEW c \in Caller,
                      pc[c] # "idle", pc'[c] = "idle", result' = "Timeout"
               PROVE  state = "Running"
    BY DEF FreeRtos!TimeoutOnlyWhileRunning
  <1> USE DEF FreeRtosIInv, FreeRtos!TypeOK
  <1>1. CASE FreeRtos!task_trampoline \/ FreeRtos!entry_returns \/ FreeRtos!join_self
    BY <1>1 DEF FreeRtos!task_trampoline, FreeRtos!set_context, FreeRtos!acquire_live_token,
                FreeRtos!clear_context,
                FreeRtos!publish_code, FreeRtos!publish_state, FreeRtos!publish_bit,
                FreeRtos!release_arcs, FreeRtos!entry_returns,
                FreeRtos!join_self, FreeRtos!calls
  <1>2. ASSUME NEW d \in Caller,
               \/ FreeRtos!spawn_refused(d) \/ FreeRtos!spawn_overflow(d) \/ FreeRtos!task_create(d)
               \/ FreeRtos!task_create_fails(d) \/ FreeRtos!spawn_returns(d) \/ FreeRtos!drop_handle(d)
               \/ FreeRtos!join_nowait(d) \/ FreeRtos!deadline_passes(d)
               \/ (\E b \in BOOLEAN : FreeRtos!join_call(d, b))
               \/ (\E e \in Caller : FreeRtos!clone_handle(d, e))
        PROVE  FALSE
    BY <1>2 DEF FreeRtos!spawn_refused, FreeRtos!spawn_overflow, FreeRtos!task_create,
                FreeRtos!task_create_fails,
                FreeRtos!spawn_returns, FreeRtos!drop_handle, FreeRtos!join_nowait,
                FreeRtos!deadline_passes, FreeRtos!join_call,
                FreeRtos!clone_handle, FreeRtos!Goto, FreeRtos!Return, FreeRtos!calls
  <1>3. ASSUME NEW d \in Caller, FreeRtos!join(d)
        PROVE  state = "Running"
    BY <1>3 DEF FreeRtos!join, FreeRtos!wait_once, FreeRtos!join_acquired, FreeRtos!join_expired,
                FreeRtos!LastLook, FreeRtos!finished_code,
                FreeRtos!Goto, FreeRtos!Return
  <1> QED BY <1>1, <1>2, <1>3 DEF FreeRtos!Next
-----------------------------------------------------------------------------
(* A task is of one backend, and keeps the invariant of that one.          *)
IInv ==
    /\ backend \in {"posix", "freertos"}
    /\ backend = "posix" => PosixIInv
    /\ backend = "freertos" => FreeRtosIInv

LEMMA InitIInv == Init => IInv
  BY PosixInitIInv, FreeRtosInitIInv DEF Init, IInv

LEMMA NextIInv == IInv /\ [Next]_vars => IInv'
  <1> SUFFICES ASSUME IInv, [Next]_vars PROVE IInv'
    OBVIOUS
  <1>1. CASE OnPosix(Posix!Next)
    BY <1>1, PosixNextIInv DEF OnPosix, IInv
  <1>2. CASE OnFreeRtos(FreeRtos!Next)
    BY <1>2, FreeRtosNextIInv DEF OnFreeRtos, IInv
  <1>3. CASE UNCHANGED vars
    <2>1. PosixIInv => PosixIInv'
      BY <1>3, SMTT(120) DEF vars, posix, PosixIInv, PosixTypes, PosixCallersHold, PosixChildTells,
                  PosixSlotHolds, PosixFreed, Posix!OneReaper, Posix!Reapers,
                  Posix!NothingIsHeld, Posix!ChildHolds
    <2>2. FreeRtosIInv => FreeRtosIInv'
      <3> USE DEF vars, freertos
      <3>1. FreeRtos!TypeOK => FreeRtos!TypeOK' BY <1>3 DEF FreeRtos!TypeOK
      <3>2. FreeRtosChildTells => FreeRtosChildTells' BY <1>3 DEF FreeRtosChildTells
      <3>3. FreeRtosCallersHold => FreeRtosCallersHold' BY <1>3 DEF FreeRtosCallersHold
      <3>4. FreeRtosHeldIsValid => FreeRtosHeldIsValid'
        BY <1>3 DEF FreeRtosHeldIsValid, FreeRtosHeld, FreeRtos!ChildHolds
      <3> QED BY <3>1, <3>2, <3>3, <3>4 DEF FreeRtosIInv
    <2> QED BY <1>3, <2>1, <2>2 DEF vars, IInv
  <1> QED BY <1>1, <1>2, <1>3 DEF Next

(* The inductive invariant holds: what is visible of the completion        *)
(* follows the trampoline, and the thread slot and the event group follow  *)
(* whoever reaps or waits.                                                 *)
THEOREM TaskInvariant == Spec => []IInv
  BY InitIInv, NextIInv, PTL DEF Spec

(* The Joining state hands the thread slot to one caller at a time, which  *)
(* finds a thread in it that is neither joined nor detached                *)
(* (do_pthread_join of POSIX, outside the mutex).                          *)
THEOREM ReaperIsAlone == Spec => []OneReaper
  <1>1. IInv => OneReaper BY DEF IInv, PosixIInv, OneReaper
  <1> QED BY <1>1, TaskInvariant, PTL

(* Whoever lets the task go last, and a spawn that fails, leaves no        *)
(* joinable thread, lease or live count behind (PosixTaskInner::drop, the  *)
(* error paths of spawn of POSIX).                                         *)
THEOREM TaskLeaksNothing == Spec => NothingLeaks
  <1>1. IInv => (backend = "posix" => Posix!UnreferencedIsFreed)
    BY PosixIInvFrees DEF IInv
  <1>2. IInv /\ [Next]_vars => [backend = "posix" => Posix!FailedSpawnLeavesNothing]_vars
    BY PosixFailedSpawn DEF IInv, Next, OnPosix, OnFreeRtos
  <1> QED BY <1>1, <1>2, TaskInvariant, PTL DEF Spec, NothingLeaks

(* Whoever sees Finished sees the count decremented, the identity cleared  *)
(* and the exit code, and the bit comes after the state (publish of        *)
(* FreeRTOS).                                                              *)
THEOREM FinishedIsComplete == Spec => []FinishedTellsAll
  <1>1. IInv => FinishedTellsAll
    BY DEF IInv, FreeRtosIInv, FreeRtos!TypeOK, FreeRtosChildTells, FreeRtos!FinishedTellsAll,
           FinishedTellsAll
  <1> QED BY <1>1, TaskInvariant, PTL

(* The event group is not deleted under a joiner or the trampoline (the    *)
(* drop of TaskCompletion with its last Arc, FreeRTOS).                    *)
THEOREM EventGroupIsPinned == Spec => []EventGroupOutlivesItsUsers
  <1>1. IInv => EventGroupOutlivesItsUsers
    BY DEF IInv, FreeRtosIInv, FreeRtosCallersHold, FreeRtosHeldIsValid, FreeRtosHeld,
           FreeRtos!EventGroupOutlivesItsUsers, EventGroupOutlivesItsUsers
  <1> QED BY <1>1, TaskInvariant, PTL

(* No expect of join and no fatal set of the bit is reached (FreeRTOS).    *)
THEOREM TaskNeverPanics ==
    Spec => [](backend = "freertos" =>
                   child # "panicked" /\ \A c \in Caller : pc[c] # "panicked")
  <1>1. IInv => (backend = "freertos" =>
                     child # "panicked" /\ \A c \in Caller : pc[c] # "panicked")
    BY DEF IInv, FreeRtosIInv, FreeRtosChildTells, FreeRtosCallersHold
  <1> QED BY <1>1, TaskInvariant, PTL

(* A join that had to wait reports Timeout only while the task runs (the   *)
(* last look of join after the wait, FreeRTOS).                            *)
THEOREM TimeoutIsTruthful == Spec => TimeoutOnlyWhileRunning
  <1>1. IInv /\ [Next]_vars => [backend = "freertos" => FreeRtos!TimeoutOnlyWhileRunning]_vars
    BY FreeRtosTimeout DEF IInv, Next, OnPosix, OnFreeRtos
  <1> QED BY <1>1, TaskInvariant, PTL DEF Spec, TimeoutOnlyWhileRunning
=============================================================================
