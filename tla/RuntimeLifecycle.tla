-------------------------- MODULE RuntimeLifecycle --------------------------
(***************************************************************************)
(* The runtime lifecycle of osal-shared/src/runtime.rs: one atomic word    *)
(* packs a two-bit state and the number of live leases.  Threads           *)
(* initialize, shut down, acquire leases and drop them; every atomic       *)
(* access (a load, a compare-and-swap) is a step of its own, so a value    *)
(* loaded may be stale when the compare-and-swap that uses it runs.        *)
(***************************************************************************)
EXTENDS Integers, FiniteSets

CONSTANTS Thread,     (* the threads that use the runtime                  *)
          Lease,      (* identities of leases; the code has none, an       *)
                      (* identity says whose drop gives back which lease   *)
          NoLease,    (* "this thread drops no lease"                      *)
          MaxCount    (* MAX_COUNT, usize::MAX >> 2 in the code            *)

ASSUME LifecycleAssumption ==
    /\ MaxCount \in Nat \ {0}
    /\ NoLease \notin Lease

VARIABLES word,       (* the packed AtomicUsize                            *)
          live,       (* leases acquired and not yet given back            *)
          pc,         (* where a thread is in the call it is making        *)
          seen,       (* the word a thread loaded last in its loop         *)
          dropping,   (* the lease a thread is dropping                    *)
          result      (* what a thread's last call returned                *)

vars == <<word, live, pc, seen, dropping, result>>
-----------------------------------------------------------------------------
(* The word: state in the low two bits, count above them, machine width.   *)

Uninitialized == 0
Initializing == 1
Running == 2
ShuttingDown == 3

States == {Uninitialized, Initializing, Running, ShuttingDown}
WordSize == 4 * (MaxCount + 1)
Words == 0 .. (WordSize - 1)

encode(state, count) == (state + 4 * count) % WordSize
decode_state(w) == w % 4
decode_count(w) == w \div 4

Results == {"none", "Ok", "AlreadyInitialized", "NotInitialized", "Busy", "Overflow"}

(* "acquire", "shutdown" and "drop" are the tops of the three retry loops, *)
(* the *_cas points sit between a load and its compare-and-swap, and the   *)
(* *_transition points are inside the body that owns a transition token.   *)
Points == {"idle", "acquire", "acquire_cas", "shutdown", "shutdown_cas",
           "drop", "drop_cas", "initialize_transition", "shutdown_transition",
           "panicked"}

TypeOK ==
    /\ word \in Words
    /\ live \in SUBSET Lease
    /\ pc \in [Thread -> Points]
    /\ seen \in [Thread -> Words]
    /\ dropping \in [Thread -> Lease \cup {NoLease}]
    /\ result \in [Thread -> Results]

Init ==
    /\ word = encode(Uninitialized, 0)
    /\ live = {}
    /\ pc = [t \in Thread |-> "idle"]
    /\ seen = [t \in Thread |-> encode(Uninitialized, 0)]
    /\ dropping = [t \in Thread |-> NoLease]
    /\ result = [t \in Thread |-> "none"]

Goto(t, point) == pc' = [pc EXCEPT ![t] = point]
Return(t, r) == Goto(t, "idle") /\ result' = [result EXCEPT ![t] = r]
-----------------------------------------------------------------------------
(* The conditions the loops decide by, on the word they loaded.  Each is   *)
(* preceded by a faulty variant of itself, which the specification never   *)
(* uses.                                                                   *)
MayInitialize(w) == w = encode(Uninitialized, 0)

InitializeRefusalAlways(w) == "AlreadyInitialized"
InitializeRefusal(w) ==
    IF decode_state(w) \in {Uninitialized, Running} THEN "AlreadyInitialized" ELSE "Busy"

Pinned(w) == decode_count(w) # 0

NeverRefuseAcquire(w) == FALSE
RefuseAcquire(w) == decode_state(w) # Running

StoreInsteadOfSwap(t) == TRUE
SwapSucceeds(t) == word = seen[t]
-----------------------------------------------------------------------------
(* begin_initialize: one strong compare-and-swap.  Its failure arm reads   *)
(* the state out of the word that made it fail.                            *)
begin_initialize(t) ==
    /\ pc[t] = "idle"
    /\ IF MayInitialize(word)
       THEN /\ word' = encode(Initializing, 0)
            /\ Goto(t, "initialize_transition")
            /\ UNCHANGED result
       ELSE /\ Return(t, InitializeRefusal(word))
            /\ UNCHANGED word
    /\ UNCHANGED <<live, seen, dropping>>

(* Leaving a transition is a compare-and-swap that must succeed.           *)
FinishTransition(t, from, to, r) ==
    /\ IF word = encode(from, 0)
       THEN word' = encode(to, 0) /\ Return(t, r)
       ELSE Goto(t, "panicked") /\ UNCHANGED <<word, result>>
    /\ UNCHANGED <<live, seen, dropping>>

(* InitializeTransition::commit, and its Drop when the body between begin  *)
(* and commit fails (the backend's error is abstracted to Busy).           *)
commit_initialize(t) ==
    /\ pc[t] = "initialize_transition"
    /\ FinishTransition(t, Initializing, Running, "Ok")

drop_initialize(t) ==
    /\ pc[t] = "initialize_transition"
    /\ FinishTransition(t, Initializing, Uninitialized, "Busy")
-----------------------------------------------------------------------------
(* begin_shutdown: the load and its checks, then a weak compare-and-swap,  *)
(* which may also fail spuriously; either failure restarts the loop.       *)
begin_shutdown_load(t) ==
    /\ pc[t] \in {"idle", "shutdown"}
    /\ IF decode_state(word) = Uninitialized
       THEN Return(t, "NotInitialized") /\ UNCHANGED seen
       ELSE IF decode_state(word) # Running \/ Pinned(word)
       THEN Return(t, "Busy") /\ UNCHANGED seen
       ELSE /\ seen' = [seen EXCEPT ![t] = word]
            /\ Goto(t, "shutdown_cas")
            /\ UNCHANGED result
    /\ UNCHANGED <<word, live, dropping>>

begin_shutdown_cas(t) ==
    /\ pc[t] = "shutdown_cas"
    /\ \/ /\ SwapSucceeds(t)
          /\ word' = encode(ShuttingDown, 0)
          /\ Goto(t, "shutdown_transition")
       \/ /\ UNCHANGED word
          /\ Goto(t, "shutdown")
    /\ UNCHANGED <<live, seen, dropping, result>>

commit_shutdown(t) ==
    /\ pc[t] = "shutdown_transition"
    /\ FinishTransition(t, ShuttingDown, Uninitialized, "Ok")

drop_shutdown(t) ==
    /\ pc[t] = "shutdown_transition"
    /\ FinishTransition(t, ShuttingDown, Running, "Busy")
-----------------------------------------------------------------------------
(* acquire: load, checks, weak compare-and-swap to count + 1.              *)
acquire_load(t) ==
    /\ pc[t] \in {"idle", "acquire"}
    /\ IF RefuseAcquire(word)
       THEN Return(t, "NotInitialized") /\ UNCHANGED seen
       ELSE IF decode_count(word) >= MaxCount
       THEN Return(t, "Overflow") /\ UNCHANGED seen
       ELSE /\ seen' = [seen EXCEPT ![t] = word]
            /\ Goto(t, "acquire_cas")
            /\ UNCHANGED result
    /\ UNCHANGED <<word, live, dropping>>

acquire_cas(t, l) ==
    /\ pc[t] = "acquire_cas"
    /\ l \notin live
    /\ \/ /\ SwapSucceeds(t)
          /\ word' = encode(Running, decode_count(seen[t]) + 1)
          /\ live' = live \cup {l}
          /\ Return(t, "Ok")
       \/ /\ Goto(t, "acquire")
          /\ UNCHANGED <<word, live, result>>
    /\ UNCHANGED <<seen, dropping>>
-----------------------------------------------------------------------------
(* RuntimeLease::drop: a lease has one owner, so one thread drops it, and  *)
(* it counts as live until the compare-and-swap that gives it back.        *)
lease_drop_load(t, l) ==
    /\ \/ pc[t] = "idle" /\ l \in live /\ \A u \in Thread : dropping[u] # l
       \/ pc[t] = "drop" /\ dropping[t] = l
    /\ dropping' = [dropping EXCEPT ![t] = l]
    /\ IF decode_state(word) # Running \/ decode_count(word) = 0
       THEN Goto(t, "panicked") /\ UNCHANGED seen
       ELSE Goto(t, "drop_cas") /\ seen' = [seen EXCEPT ![t] = word]
    /\ UNCHANGED <<word, live, result>>

lease_drop_cas(t) ==
    /\ pc[t] = "drop_cas"
    /\ \/ /\ SwapSucceeds(t)
          /\ word' = encode(Running, decode_count(seen[t]) - 1)
          /\ live' = live \ {dropping[t]}
          /\ dropping' = [dropping EXCEPT ![t] = NoLease]
          /\ Return(t, "Ok")
       \/ /\ Goto(t, "drop")
          /\ UNCHANGED <<word, live, dropping, result>>
    /\ UNCHANGED seen
-----------------------------------------------------------------------------
Step(t) ==
    \/ begin_initialize(t) \/ commit_initialize(t) \/ drop_initialize(t)
    \/ begin_shutdown_load(t) \/ begin_shutdown_cas(t)
    \/ commit_shutdown(t) \/ drop_shutdown(t)
    \/ acquire_load(t) \/ lease_drop_cas(t)
    \/ \E l \in Lease : acquire_cas(t, l) \/ lease_drop_load(t, l)

Next == \E t \in Thread : Step(t)

Spec == Init /\ [][Next]_vars
-----------------------------------------------------------------------------
(* The word tells the truth about the leases: its count is the number of   *)
(* leases acquired and not yet given back, whatever the threads loaded     *)
(* before their compare-and-swaps (RuntimeLifecycle::acquire and           *)
(* RuntimeLease::drop never lose or double an update).                     *)
CountIsNumberOfLeases ==
    IsFiniteSet(live) /\ decode_count(word) = Cardinality(live)

(* While any lease is live the runtime is Running: shutdown cannot begin   *)
(* under a live object, and no lease is granted in another state.          *)
LeasePinsRunning == live # {} => decode_state(word) = Running

(* Between begin_* and commit or rollback exactly one thread owns the      *)
(* transition: two threads are never inside initialize or shutdown bodies  *)
(* at once, and the state says Initializing or ShuttingDown exactly while  *)
(* one is.                                                                 *)
InTransition(t) == pc[t] \in {"initialize_transition", "shutdown_transition"}

TransitionIsExclusive ==
    /\ \A t, u \in Thread : InTransition(t) /\ InTransition(u) => t = u
    /\ decode_state(word) = Initializing
          <=> \E t \in Thread : pc[t] = "initialize_transition"
    /\ decode_state(word) = ShuttingDown
          <=> \E t \in Thread : pc[t] = "shutdown_transition"

(* No assertion of runtime.rs ever fails: commits and rollbacks find the   *)
(* word their transition wrote, and a lease dropped on any thread finds    *)
(* Running and a count to subtract from.                                   *)
NoAssertionFails == \A t \in Thread : pc[t] # "panicked"

(* What a loop may rely on about the word it loaded: a compare-and-swap    *)
(* that succeeds has the checks of its load behind it.                     *)
LoadedWordPassedItsChecks ==
    \A t \in Thread :
        /\ pc[t] = "shutdown_cas" => seen[t] = encode(Running, 0)
        /\ pc[t] = "acquire_cas" => /\ decode_state(seen[t]) = Running
                                   /\ decode_count(seen[t]) < MaxCount
        /\ pc[t] = "drop_cas" => /\ decode_state(seen[t]) = Running
                                /\ decode_count(seen[t]) > 0

(* A lease being dropped is live and is dropped by one thread only.        *)
DropOwnsItsLease ==
    \A t \in Thread :
        /\ pc[t] \in {"drop", "drop_cas"} => dropping[t] \in live
        /\ dropping[t] # NoLease =>
              /\ pc[t] \in {"drop", "drop_cas"}
              /\ \A u \in Thread : dropping[u] = dropping[t] => u = t

(* The inductive invariant of the lifecycle.                               *)
IInv ==
    /\ TypeOK
    /\ CountIsNumberOfLeases
    /\ LeasePinsRunning
    /\ TransitionIsExclusive
    /\ NoAssertionFails
    /\ LoadedWordPassedItsChecks
    /\ DropOwnsItsLease

(* An error tells the caller something true at the moment it is returned:  *)
(* Busy means a live lease or another thread's transition (or the caller's *)
(* own body failed), AlreadyInitialized that nobody is between states,     *)
(* NotInitialized that no lease is live, Overflow that MAX_COUNT leases    *)
(* are.                                                                    *)
ErrorIsTruthful(t, r) ==
    CASE r = "Busy" -> live # {} \/ \E u \in Thread : InTransition(u)
      [] r = "AlreadyInitialized" -> \A u \in Thread : ~InTransition(u)
      [] r = "NotInitialized" -> live = {}
      [] r = "Overflow" -> Cardinality(live) = MaxCount
      [] OTHER -> TRUE

ErrorsAreTruthful ==
    [][\A t \in Thread : pc'[t] = "idle" => ErrorIsTruthful(t, result'[t])
                                            \/ UNCHANGED <<pc[t], result[t]>>]_vars

(* The packed word and its compare-and-swap loops implement the atomic     *)
(* lifecycle of RuntimeContract.                                           *)
PhaseName == <<"Uninitialized", "Initializing", "Running", "ShuttingDown">>

Contract == INSTANCE RuntimeContract
            WITH phase <- PhaseName[decode_state(word) + 1], objects <- live

ImplementsContract == Contract!Spec
=============================================================================
