---------------------- MODULE RuntimeLifecycleProofs ----------------------
(***************************************************************************)
(* Machine-checked proofs about RuntimeLifecycle, for any set of threads,  *)
(* any set of leases and any MaxCount.                                     *)
(***************************************************************************)
EXTENDS RuntimeLifecycle, FiniteSetTheorems, TLAPS

(* The conditions of the loops are always expanded.                        *)
USE DEF MayInitialize, InitializeRefusal, Pinned, RefuseAcquire, SwapSucceeds

(* The packed word loses nothing: a state and a count that fits come back  *)
(* out of the word they were packed into (encode, decode_state,            *)
(* decode_count of runtime.rs).                                            *)
LEMMA CodecRoundTrip ==
    ASSUME NEW s \in States, NEW c \in 0 .. MaxCount
    PROVE  /\ encode(s, c) \in Words
           /\ encode(s, c) = s + 4 * c
           /\ decode_state(encode(s, c)) = s
           /\ decode_count(encode(s, c)) = c
<1> USE LifecycleAssumption DEF States, Uninitialized, Initializing, Running, ShuttingDown
<1>1. s + 4 * c \in 0 .. (WordSize - 1) /\ WordSize \in Nat /\ WordSize > 0
  BY DEF WordSize
<1>2. encode(s, c) = s + 4 * c
  BY <1>1 DEF encode
<1>3. (s + 4 * c) % 4 = s /\ (s + 4 * c) \div 4 = c
  OBVIOUS
<1> QED BY <1>1, <1>2, <1>3 DEF Words, decode_state, decode_count

(* What decode_state and decode_count return has its type.                 *)
LEMMA DecodedParts ==
    ASSUME NEW w \in Words
    PROVE  /\ decode_state(w) \in States
           /\ decode_count(w) \in 0 .. MaxCount
           /\ w = encode(decode_state(w), decode_count(w))
<1> USE LifecycleAssumption DEF States, Uninitialized, Initializing, Running, ShuttingDown
<1>1. decode_state(w) \in States
  BY DEF decode_state, Words, WordSize
<1>2. decode_count(w) \in 0 .. MaxCount
  BY DEF decode_count, Words, WordSize
<1>3. w = decode_state(w) + 4 * decode_count(w)
  BY DEF decode_count, decode_state, Words, WordSize
<1> QED BY <1>1, <1>2, <1>3, CodecRoundTrip

(* The four encoded states are different numbers that fit the word.        *)
LEMMA StateConstants ==
    /\ States = {Uninitialized, Initializing, Running, ShuttingDown}
    /\ Uninitialized # Initializing /\ Uninitialized # Running
    /\ Uninitialized # ShuttingDown /\ Initializing # Running
    /\ Initializing # ShuttingDown /\ Running # ShuttingDown
    /\ 0 \in 0 .. MaxCount
BY LifecycleAssumption DEF States, Uninitialized, Initializing, Running, ShuttingDown

(* A lease that is live makes the count positive.                          *)
LEMMA LiveLeaseCounts ==
    ASSUME IInv, live # {}
    PROVE  decode_state(word) = Running /\ decode_count(word) > 0
<1>1. decode_state(word) = Running
  BY DEF IInv, LeasePinsRunning
<1>2. decode_count(word) # 0
  BY FS_EmptySet DEF IInv, CountIsNumberOfLeases
<1> QED BY <1>1, <1>2, DecodedParts DEF IInv, TypeOK

(* Outside Running there is no live lease.                                 *)
LEMMA NoLeaseWithoutRunning ==
    ASSUME IInv, decode_state(word) # Running
    PROVE  live = {} /\ decode_count(word) = 0
BY FS_EmptySet DEF IInv, LeasePinsRunning, CountIsNumberOfLeases

(* RuntimeLifecycle::new starts with no lease and no transition.           *)
LEMMA InitEstablishesIInv == Init => IInv
<1> SUFFICES ASSUME Init PROVE IInv
  OBVIOUS
<1>1. word \in Words /\ decode_state(word) = Uninitialized /\ decode_count(word) = 0
  BY CodecRoundTrip, StateConstants DEF Init
<1>2. IsFiniteSet({}) /\ Cardinality({}) = 0
  BY FS_EmptySet
<1> QED BY <1>1, <1>2, StateConstants
        DEF Init, IInv, TypeOK, CountIsNumberOfLeases, LeasePinsRunning,
            TransitionIsExclusive, InTransition, NoAssertionFails,
            LoadedWordPassedItsChecks, DropOwnsItsLease, Points, Results

(* A step that leaves the word and the leases alone and moves one thread   *)
(* between points outside the transitions preserves the invariant if the   *)
(* thread's new point agrees with what it loaded and what it drops.        *)
LEMMA LocalStepPreserves ==
    ASSUME IInv, NEW t \in Thread, NEW p \in Points,
           p \notin {"initialize_transition", "shutdown_transition", "panicked"},
           ~InTransition(t),
           pc' = [pc EXCEPT ![t] = p],
           UNCHANGED <<word, live>>,
           seen' \in [Thread -> Words], result' \in [Thread -> Results],
           \A u \in Thread : u # t => seen'[u] = seen[u],
           p = "shutdown_cas" => seen'[t] = encode(Running, 0),
           p = "acquire_cas" => decode_state(seen'[t]) = Running /\ decode_count(seen'[t]) < MaxCount,
           p = "drop_cas" => decode_state(seen'[t]) = Running /\ decode_count(seen'[t]) > 0,
           UNCHANGED dropping,
           p \in {"drop", "drop_cas"} <=> pc[t] \in {"drop", "drop_cas"}
    PROVE  IInv'
<1>1. TypeOK'
  BY DEF IInv, TypeOK
<1>2. CountIsNumberOfLeases' /\ LeasePinsRunning'
  BY DEF IInv, CountIsNumberOfLeases, LeasePinsRunning
<1>3. TransitionIsExclusive' /\ NoAssertionFails'
  BY DEF IInv, TypeOK, TransitionIsExclusive, InTransition, NoAssertionFails
<1>4. LoadedWordPassedItsChecks'
  BY DEF IInv, TypeOK, LoadedWordPassedItsChecks
<1>5. DropOwnsItsLease'
  BY DEF IInv, TypeOK, DropOwnsItsLease
<1> QED BY <1>1, <1>2, <1>3, <1>4, <1>5 DEF IInv

(* A step that changes the state in the word without leases: it enters or  *)
(* leaves a transition.                                                    *)
LEMMA StateChangePreserves ==
    ASSUME IInv, live = {}, NEW t \in Thread, NEW s \in States, NEW p \in Points,
           word' = encode(s, 0),
           pc' = [pc EXCEPT ![t] = p],
           pc[t] \notin {"drop", "drop_cas"},
           \A u \in Thread : u # t => ~InTransition(u),
           \/ p = "idle" /\ s \in {Uninitialized, Running}
           \/ p = "initialize_transition" /\ s = Initializing
           \/ p = "shutdown_transition" /\ s = ShuttingDown,
           result' \in [Thread -> Results],
           UNCHANGED <<live, seen, dropping>>
    PROVE  IInv'
<1> USE StateConstants
<1>1. word' \in Words /\ decode_state(word') = s /\ decode_count(word') = 0
  BY CodecRoundTrip
<1>2. TypeOK'
  BY <1>1 DEF IInv, TypeOK
<1>3. CountIsNumberOfLeases' /\ LeasePinsRunning'
  BY <1>1, FS_EmptySet DEF CountIsNumberOfLeases, LeasePinsRunning
<1>4. TransitionIsExclusive'
  BY <1>1 DEF IInv, TypeOK, TransitionIsExclusive, InTransition
<1>5. NoAssertionFails' /\ LoadedWordPassedItsChecks'
  BY DEF IInv, TypeOK, NoAssertionFails, LoadedWordPassedItsChecks
<1>6. DropOwnsItsLease'
  BY DEF IInv, TypeOK, DropOwnsItsLease
<1> QED BY <1>2, <1>3, <1>4, <1>5, <1>6 DEF IInv

(* begin_initialize opens the only transition.                             *)
LEMMA BeginInitializePreserves ==
    ASSUME IInv, NEW t \in Thread, begin_initialize(t)
    PROVE  IInv'
<1> USE StateConstants
<1>1. CASE word = encode(Uninitialized, 0)
  <2>1. decode_state(word) = Uninitialized /\ live = {}
    BY <1>1, CodecRoundTrip, NoLeaseWithoutRunning
  <2>2. \A u \in Thread : ~InTransition(u)
    BY <2>1 DEF IInv, TransitionIsExclusive, InTransition
  <2> QED BY <1>1, <2>1, <2>2, StateChangePreserves
          DEF begin_initialize, Goto, IInv, TypeOK, Points
<1>2. CASE word # encode(Uninitialized, 0)
  BY <1>2, LocalStepPreserves
     DEF begin_initialize, Return, Goto, InTransition, IInv, TypeOK, Points, Results
<1> QED BY <1>1, <1>2

(* Commits and rollbacks always find the word their transition wrote.      *)
LEMMA FinishTransitionPreserves ==
    ASSUME IInv, NEW t \in Thread, NEW from, NEW to \in {Uninitialized, Running},
           NEW r \in Results,
           \/ pc[t] = "initialize_transition" /\ from = Initializing
           \/ pc[t] = "shutdown_transition" /\ from = ShuttingDown,
           FinishTransition(t, from, to, r)
    PROVE  IInv'
<1> USE StateConstants
<1>1. decode_state(word) = from
  BY DEF IInv, TransitionIsExclusive
<1>2. live = {} /\ word = encode(from, 0)
  BY <1>1, NoLeaseWithoutRunning, DecodedParts DEF IInv, TypeOK
<1>3. \A u \in Thread : u # t => ~InTransition(u)
  BY DEF IInv, TransitionIsExclusive, InTransition
<1> QED BY <1>2, <1>3, StateChangePreserves
        DEF FinishTransition, Return, Goto, IInv, TypeOK, Points

(* begin_shutdown swaps only the word it loaded with a count of zero.      *)
LEMMA BeginShutdownPreserves ==
    ASSUME IInv, NEW t \in Thread, begin_shutdown_load(t) \/ begin_shutdown_cas(t)
    PROVE  IInv'
<1> USE StateConstants
<1>1. CASE begin_shutdown_load(t)
  <2>1. decode_state(word) = Running /\ decode_count(word) = 0 => word = encode(Running, 0)
    BY DecodedParts DEF IInv, TypeOK
  <2> QED BY <1>1, <2>1, LocalStepPreserves
          DEF begin_shutdown_load, Return, Goto, InTransition, IInv, TypeOK, Points, Results
<1>2. CASE begin_shutdown_cas(t) /\ word' = word /\ pc' = [pc EXCEPT ![t] = "shutdown"]
  BY <1>2, LocalStepPreserves
     DEF begin_shutdown_cas, InTransition, IInv, TypeOK, Points
<1>3. CASE /\ begin_shutdown_cas(t)
           /\ word = seen[t] /\ word' = encode(ShuttingDown, 0)
           /\ pc' = [pc EXCEPT ![t] = "shutdown_transition"]
  <2>1. word = encode(Running, 0)
    BY <1>3 DEF begin_shutdown_cas, IInv, LoadedWordPassedItsChecks
  <2>2. decode_state(word) = Running /\ decode_count(word) = 0
    BY <2>1, CodecRoundTrip
  <2>3. live = {}
    BY <2>2, FS_EmptySet DEF IInv, CountIsNumberOfLeases
  <2>4. \A u \in Thread : ~InTransition(u)
    BY <2>2 DEF IInv, TransitionIsExclusive, InTransition
  <2> QED BY <1>3, <2>3, <2>4, StateChangePreserves
          DEF begin_shutdown_cas, IInv, TypeOK, Points
<1> QED BY <1>1, <1>2, <1>3 DEF begin_shutdown_cas, Goto

(* acquire adds a lease to a word that still is Running.                   *)
LEMMA AcquirePreserves ==
    ASSUME IInv, NEW t \in Thread,
           acquire_load(t) \/ \E l \in Lease : acquire_cas(t, l)
    PROVE  IInv'
<1> USE StateConstants
<1>1. CASE acquire_load(t)
  <2>1. decode_count(word) \in 0 .. MaxCount
    BY DecodedParts DEF IInv, TypeOK
  <2> QED BY <1>1, <2>1, LifecycleAssumption, LocalStepPreserves
          DEF acquire_load, Return, Goto, InTransition, IInv, TypeOK, Points, Results
<1>2. ASSUME NEW l \in Lease, acquire_cas(t, l),
             word' = word, pc' = [pc EXCEPT ![t] = "acquire"],
             UNCHANGED <<live, result>>
      PROVE  IInv'
  BY <1>2, LocalStepPreserves
     DEF acquire_cas, InTransition, IInv, TypeOK, Points
<1>3. ASSUME NEW l \in Lease, acquire_cas(t, l), word = seen[t],
             word' = encode(Running, decode_count(seen[t]) + 1),
             live' = live \cup {l},
             pc' = [pc EXCEPT ![t] = "idle"],
             result' = [result EXCEPT ![t] = "Ok"]
      PROVE  IInv'
  <2>1. /\ pc[t] = "acquire_cas" /\ l \notin live /\ UNCHANGED <<seen, dropping>>
    BY <1>3 DEF acquire_cas
  <2>2. decode_state(word) = Running /\ decode_count(word) + 1 \in 0 .. MaxCount
    BY <1>3, <2>1, DecodedParts, LifecycleAssumption
       DEF IInv, TypeOK, LoadedWordPassedItsChecks
  <2>3. /\ word' \in Words
        /\ decode_state(word') = Running
        /\ decode_count(word') = decode_count(word) + 1
    BY <1>3, <2>2, CodecRoundTrip
  <2>4. TypeOK'
    BY <1>3, <2>1, <2>3 DEF IInv, TypeOK, Points, Results
  <2>5. CountIsNumberOfLeases'
    BY <1>3, <2>1, <2>3, FS_AddElement DEF IInv, CountIsNumberOfLeases
  <2>6. LeasePinsRunning' /\ NoAssertionFails' /\ LoadedWordPassedItsChecks'
    BY <1>3, <2>1, <2>3 DEF IInv, TypeOK, LeasePinsRunning, NoAssertionFails,
                           LoadedWordPassedItsChecks
  <2>7. TransitionIsExclusive'
    BY <1>3, <2>1, <2>2, <2>3 DEF IInv, TypeOK, TransitionIsExclusive, InTransition
  <2>8. DropOwnsItsLease'
    BY <1>3, <2>1 DEF IInv, TypeOK, DropOwnsItsLease
  <2> QED BY <2>4, <2>5, <2>6, <2>7, <2>8 DEF IInv
<1> QED BY <1>1, <1>2, <1>3 DEF acquire_cas, Return, Goto

(* The load of a lease drop finds Running and a positive count.            *)
LEMMA LeaseDropLoadPreserves ==
    ASSUME IInv, NEW t \in Thread, NEW l \in Lease, lease_drop_load(t, l)
    PROVE  IInv'
<1> USE StateConstants
<1>1. l \in live
  BY DEF lease_drop_load, IInv, DropOwnsItsLease
<1>2. decode_state(word) = Running /\ decode_count(word) > 0
  BY <1>1, LiveLeaseCounts
<1>3. /\ pc' = [pc EXCEPT ![t] = "drop_cas"]
      /\ seen' = [seen EXCEPT ![t] = word]
      /\ dropping' = [dropping EXCEPT ![t] = l]
      /\ UNCHANGED <<word, live, result>>
  BY <1>2, DecodedParts DEF lease_drop_load, Goto, IInv, TypeOK
<1>4. TypeOK'
  BY <1>3 DEF IInv, TypeOK, Points
<1>5. CountIsNumberOfLeases' /\ LeasePinsRunning'
  BY <1>3 DEF IInv, CountIsNumberOfLeases, LeasePinsRunning
<1>6. TransitionIsExclusive' /\ NoAssertionFails'
  BY <1>3 DEF lease_drop_load, IInv, TypeOK, TransitionIsExclusive, InTransition, NoAssertionFails
<1>7. LoadedWordPassedItsChecks'
  BY <1>2, <1>3 DEF IInv, TypeOK, LoadedWordPassedItsChecks
<1>8. DropOwnsItsLease'
  BY <1>1, <1>3 DEF lease_drop_load, IInv, TypeOK, DropOwnsItsLease
<1> QED BY <1>4, <1>5, <1>6, <1>7, <1>8 DEF IInv

(* The swap of a lease drop takes off exactly one lease.                   *)
LEMMA LeaseDropCasPreserves ==
    ASSUME IInv, NEW t \in Thread, lease_drop_cas(t)
    PROVE  IInv'
<1> USE StateConstants
<1>1. CASE /\ word' = word /\ pc' = [pc EXCEPT ![t] = "drop"]
           /\ UNCHANGED <<live, dropping, result>>
  BY <1>1, LocalStepPreserves
     DEF lease_drop_cas, InTransition, IInv, TypeOK, Points
<1>2. CASE /\ word = seen[t]
           /\ word' = encode(Running, decode_count(seen[t]) - 1)
           /\ live' = live \ {dropping[t]}
           /\ dropping' = [dropping EXCEPT ![t] = NoLease]
           /\ pc' = [pc EXCEPT ![t] = "idle"]
           /\ result' = [result EXCEPT ![t] = "Ok"]
  <2>1. pc[t] = "drop_cas" /\ UNCHANGED seen
    BY DEF lease_drop_cas
  <2>2. decode_state(word) = Running /\ decode_count(word) - 1 \in 0 .. MaxCount
    BY <1>2, <2>1, DecodedParts, LifecycleAssumption
       DEF IInv, TypeOK, LoadedWordPassedItsChecks
  <2>3. /\ word' \in Words
        /\ decode_state(word') = Running
        /\ decode_count(word') = decode_count(word) - 1
    BY <1>2, <2>2, CodecRoundTrip
  <2>4. dropping[t] \in live
    BY <2>1 DEF IInv, DropOwnsItsLease
  <2>5. TypeOK'
    BY <1>2, <2>1, <2>3 DEF IInv, TypeOK, Points, Results
  <2>6. CountIsNumberOfLeases'
    BY <1>2, <2>3, <2>4, FS_RemoveElement DEF IInv, CountIsNumberOfLeases
  <2>7. LeasePinsRunning' /\ NoAssertionFails' /\ LoadedWordPassedItsChecks'
    BY <1>2, <2>1, <2>3 DEF IInv, TypeOK, LeasePinsRunning, NoAssertionFails,
                           LoadedWordPassedItsChecks
  <2>8. TransitionIsExclusive'
    BY <1>2, <2>1, <2>2, <2>3 DEF IInv, TypeOK, TransitionIsExclusive, InTransition
  <2>9. DropOwnsItsLease'
    BY <1>2, <2>1, <2>4, LifecycleAssumption DEF IInv, TypeOK, DropOwnsItsLease
  <2> QED BY <2>5, <2>6, <2>7, <2>8, <2>9 DEF IInv
<1> QED BY <1>1, <1>2 DEF lease_drop_cas, Return, Goto

(* Every step of every thread preserves the invariant.                     *)
LEMMA NextPreservesIInv == IInv /\ [Next]_vars => IInv'
<1> SUFFICES ASSUME IInv, [Next]_vars PROVE IInv'
  OBVIOUS
<1>1. ASSUME NEW t \in Thread, Step(t) PROVE IInv'
  <2>1. CASE begin_initialize(t)
    BY <2>1, BeginInitializePreserves
  <2>2. CASE commit_initialize(t) \/ drop_initialize(t)
    BY <2>2, FinishTransitionPreserves DEF commit_initialize, drop_initialize, Results
  <2>3. CASE begin_shutdown_load(t) \/ begin_shutdown_cas(t)
    BY <2>3, BeginShutdownPreserves
  <2>4. CASE commit_shutdown(t) \/ drop_shutdown(t)
    BY <2>4, FinishTransitionPreserves DEF commit_shutdown, drop_shutdown, Results
  <2>5. CASE acquire_load(t) \/ \E l \in Lease : acquire_cas(t, l)
    BY <2>5, AcquirePreserves
  <2>6. CASE lease_drop_cas(t) \/ \E l \in Lease : lease_drop_load(t, l)
    BY <2>6, LeaseDropLoadPreserves, LeaseDropCasPreserves
  <2> QED BY <1>1, <2>1, <2>2, <2>3, <2>4, <2>5, <2>6 DEF Step
<1>2. CASE UNCHANGED vars
  BY <1>2 DEF vars, IInv, TypeOK, CountIsNumberOfLeases, LeasePinsRunning,
              TransitionIsExclusive, InTransition, NoAssertionFails,
              LoadedWordPassedItsChecks, DropOwnsItsLease
<1> QED BY <1>1, <1>2 DEF Next

(* In every behaviour of the lifecycle the count is the number of live     *)
(* leases, a live lease pins Running, transitions are exclusive and no     *)
(* assertion of runtime.rs fails.                                          *)
THEOREM LifecycleInvariant == Spec => []IInv
BY InitEstablishesIInv, NextPreservesIInv, PTL DEF Spec

(* The count in the word is the number of live leases.                     *)
THEOREM CountIsExact == Spec => []CountIsNumberOfLeases
BY LifecycleInvariant, PTL DEF IInv

(* No lease is ever live outside Running.                                  *)
THEOREM LeasesPinTheRuntime == Spec => []LeasePinsRunning
BY LifecycleInvariant, PTL DEF IInv

(* At most one thread is inside an initialize or shutdown body.            *)
THEOREM TransitionsAreExclusive == Spec => []TransitionIsExclusive
BY LifecycleInvariant, PTL DEF IInv

(* The assertions in commit, rollback and lease drop never fail.           *)
THEOREM AssertionsHold == Spec => []NoAssertionFails
BY LifecycleInvariant, PTL DEF IInv

-----------------------------------------------------------------------------
(* Refinement: every step of the compare-and-swap loops is a step of the   *)
(* contract or leaves the contract's variables alone.                      *)
LEMMA PhaseNames ==
    /\ PhaseName[Uninitialized + 1] = "Uninitialized"
    /\ PhaseName[Initializing + 1] = "Initializing"
    /\ PhaseName[Running + 1] = "Running"
    /\ PhaseName[ShuttingDown + 1] = "ShuttingDown"
BY DEF PhaseName, Uninitialized, Initializing, Running, ShuttingDown

(* A change of state without leases is a step of the contract.             *)
LEMMA StateChangeImplements ==
    ASSUME NEW from \in States, NEW to \in States,
           live = {}, word = encode(from, 0), word' = encode(to, 0), live' = live,
           \/ from = Uninitialized /\ to = Initializing
           \/ from = Initializing /\ to \in {Running, Uninitialized}
           \/ from = Running /\ to = ShuttingDown
           \/ from = ShuttingDown /\ to \in {Uninitialized, Running}
    PROVE  Contract!Next
<1>1. decode_state(word) = from /\ decode_state(word') = to
  BY CodecRoundTrip, StateConstants
<1> QED BY <1>1, PhaseNames
        DEF Contract!Next, Contract!StartInitialize, Contract!FinishInitialize,
            Contract!AbandonInitialize, Contract!StartShutdown, Contract!FinishShutdown,
            Contract!AbandonShutdown, Contract!Move

(* Every step is a step of the contract or leaves its variables alone.     *)
LEMMA StepImplements ==
    ASSUME IInv, NEW t \in Thread, Step(t)
    PROVE  Contract!Next \/ UNCHANGED <<word, live>>
<1> USE StateConstants
<1>1. CASE begin_initialize(t)
  <2>1. word = encode(Uninitialized, 0) => live = {}
    BY CodecRoundTrip, NoLeaseWithoutRunning
  <2> QED BY <1>1, <2>1, StateChangeImplements DEF begin_initialize
<1>2. CASE commit_initialize(t) \/ drop_initialize(t)
  <2>1. live = {}
    BY <1>2, NoLeaseWithoutRunning
       DEF commit_initialize, drop_initialize, IInv, TransitionIsExclusive
  <2> QED BY <1>2, <2>1, StateChangeImplements
          DEF commit_initialize, drop_initialize, FinishTransition
<1>3. CASE begin_shutdown_cas(t)
  <2>1. word = seen[t] => word = encode(Running, 0)
    BY <1>3 DEF begin_shutdown_cas, IInv, LoadedWordPassedItsChecks
  <2>2. word = encode(Running, 0) => live = {}
    BY CodecRoundTrip, LiveLeaseCounts, LifecycleAssumption
  <2> QED BY <1>3, <2>1, <2>2, StateChangeImplements DEF begin_shutdown_cas
<1>4. CASE commit_shutdown(t) \/ drop_shutdown(t)
  <2>1. live = {}
    BY <1>4, NoLeaseWithoutRunning
       DEF commit_shutdown, drop_shutdown, IInv, TransitionIsExclusive
  <2> QED BY <1>4, <2>1, StateChangeImplements
          DEF commit_shutdown, drop_shutdown, FinishTransition
<1>5. ASSUME NEW l \in Lease, acquire_cas(t, l), word' # word \/ live' # live
      PROVE  Contract!Next
  <2>1. /\ l \notin live /\ live' = live \cup {l} /\ word = seen[t] /\ pc[t] = "acquire_cas"
        /\ word' = encode(Running, decode_count(word) + 1)
    BY <1>5 DEF acquire_cas
  <2>2. decode_state(word) = Running /\ decode_count(word) + 1 \in 0 .. MaxCount
    BY <2>1, DecodedParts, LifecycleAssumption DEF IInv, TypeOK, LoadedWordPassedItsChecks
  <2>3. decode_state(word') = Running
    BY <2>1, <2>2, CodecRoundTrip
  <2>4. Contract!Pin(l)
    BY <2>1, <2>2, <2>3, PhaseNames DEF Contract!Pin
  <2> QED BY <2>4 DEF Contract!Next
<1>6. ASSUME lease_drop_cas(t), word' # word \/ live' # live
      PROVE  Contract!Next
  <2>1. /\ live' = live \ {dropping[t]} /\ word = seen[t] /\ pc[t] = "drop_cas"
        /\ word' = encode(Running, decode_count(word) - 1)
    BY <1>6 DEF lease_drop_cas
  <2>2. decode_state(word) = Running /\ decode_count(word) - 1 \in 0 .. MaxCount
    BY <2>1, DecodedParts, LifecycleAssumption DEF IInv, TypeOK, LoadedWordPassedItsChecks
  <2>3. decode_state(word') = Running
    BY <2>1, <2>2, CodecRoundTrip
  <2>4. dropping[t] \in live /\ dropping[t] \in Lease
    BY <2>1 DEF IInv, TypeOK, DropOwnsItsLease
  <2>5. Contract!Unpin(dropping[t])
    BY <2>1, <2>2, <2>3, <2>4, PhaseNames DEF Contract!Unpin
  <2> QED BY <2>4, <2>5 DEF Contract!Next
<1>7. CASE \/ begin_shutdown_load(t) \/ acquire_load(t)
           \/ \E l \in Lease : lease_drop_load(t, l)
  BY <1>7 DEF begin_shutdown_load, acquire_load, lease_drop_load
<1> QED BY <1>1, <1>2, <1>3, <1>4, <1>5, <1>6, <1>7 DEF Step

(* The lifecycle word implements the atomic lifecycle of RuntimeContract.  *)
THEOREM LifecycleImplementsContract == Spec => ImplementsContract
<1>1. Init => Contract!Init
  <2> SUFFICES ASSUME Init PROVE Contract!Init
    OBVIOUS
  <2>1. decode_state(word) = Uninitialized /\ live = {}
    BY CodecRoundTrip, StateConstants DEF Init
  <2> QED BY <2>1, PhaseNames DEF Contract!Init
<1>2. IInv /\ [Next]_vars => [Contract!Next]_(Contract!vars)
  <2> SUFFICES ASSUME IInv, [Next]_vars
               PROVE  Contract!Next \/ UNCHANGED <<word, live>>
    BY DEF Contract!vars
  <2> QED BY StepImplements DEF Next, vars
<1> QED BY <1>1, <1>2, LifecycleInvariant, PTL DEF Spec, ImplementsContract, Contract!Spec

-----------------------------------------------------------------------------
(* An error code is decided by the step that loads or swaps the word, and  *)
(* by the invariant that word speaks for the leases and the transitions.   *)
LEMMA StepErrorsAreTruthful ==
    ASSUME IInv, NEW t \in Thread, Step(t), pc'[t] = "idle"
    PROVE  ErrorIsTruthful(t, result'[t])
<1> USE StateConstants DEF ErrorIsTruthful
<1>0. pc \in [Thread -> Points] /\ result \in [Thread -> Results]
  BY DEF IInv, TypeOK
<1>1. CASE begin_initialize(t)
  <2>1. decode_state(word) \in {Uninitialized, Running} => \A u \in Thread : ~InTransition(u)
    BY DEF IInv, TransitionIsExclusive, InTransition
  <2>2. decode_state(word) \in {Initializing, ShuttingDown} => \E u \in Thread : InTransition(u)
    BY DEF IInv, TransitionIsExclusive, InTransition
  <2>3. decode_state(word) \in States
    BY DecodedParts DEF IInv, TypeOK
  <2>4. CASE decode_state(word) \in {Uninitialized, Running} /\ result'[t] = "AlreadyInitialized"
    BY <2>1, <2>4
  <2>5. CASE decode_state(word) \notin {Uninitialized, Running} /\ result'[t] = "Busy"
    BY <2>2, <2>3, <2>5
  <2> QED BY <1>0, <1>1, <2>4, <2>5 DEF begin_initialize, Return, Goto
<1>2. CASE commit_initialize(t) \/ drop_initialize(t) \/ commit_shutdown(t) \/ drop_shutdown(t)
  <2>1. InTransition(t)
    BY <1>2 DEF commit_initialize, drop_initialize, commit_shutdown, drop_shutdown, InTransition
  <2>2. result'[t] \in {"Ok", "Busy"}
    BY <1>0, <1>2 DEF commit_initialize, drop_initialize, commit_shutdown, drop_shutdown,
                      FinishTransition, Return, Goto
  <2> QED BY <2>1, <2>2
<1>3. CASE begin_shutdown_load(t)
  <2>1. decode_state(word) = Uninitialized => live = {}
    BY NoLeaseWithoutRunning
  <2>2. decode_state(word) \in {Initializing, ShuttingDown} => \E u \in Thread : InTransition(u)
    BY DEF IInv, TransitionIsExclusive, InTransition
  <2>3. decode_count(word) # 0 => live # {}
    BY FS_EmptySet DEF IInv, CountIsNumberOfLeases
  <2>4. decode_state(word) \in States
    BY DecodedParts DEF IInv, TypeOK
  <2>5. CASE decode_state(word) = Uninitialized /\ result'[t] = "NotInitialized"
    BY <2>1, <2>5
  <2>6. CASE /\ decode_state(word) # Uninitialized
             /\ decode_state(word) # Running \/ decode_count(word) # 0
             /\ result'[t] = "Busy"
    BY <2>2, <2>3, <2>4, <2>6
  <2> QED BY <1>0, <1>3, <2>5, <2>6 DEF begin_shutdown_load, Return, Goto
<1>4. CASE acquire_load(t)
  <2>1. decode_state(word) # Running => live = {}
    BY NoLeaseWithoutRunning
  <2>2. decode_count(word) >= MaxCount => Cardinality(live) = MaxCount
    BY DecodedParts, LifecycleAssumption DEF IInv, TypeOK, CountIsNumberOfLeases
  <2>3. CASE decode_state(word) # Running /\ result'[t] = "NotInitialized"
    BY <2>1, <2>3
  <2>4. CASE decode_count(word) >= MaxCount /\ result'[t] = "Overflow"
    BY <2>2, <2>4
  <2> QED BY <1>0, <1>4, <2>3, <2>4 DEF acquire_load, Return, Goto
<1>5. CASE lease_drop_cas(t) \/ \E l \in Lease : acquire_cas(t, l)
  <2>1. result'[t] = "Ok"
    BY <1>0, <1>5 DEF lease_drop_cas, acquire_cas, Return, Goto
  <2> QED BY <2>1
<1>6. CASE begin_shutdown_cas(t) \/ \E l \in Lease : lease_drop_load(t, l)
  BY <1>0, <1>6 DEF begin_shutdown_cas, lease_drop_load, Goto
<1> QED BY <1>1, <1>2, <1>3, <1>4, <1>5, <1>6 DEF Step

(* A step of one thread leaves the results of the others alone.            *)
LEMMA StepIsLocal ==
    ASSUME NEW t \in Thread, NEW u \in Thread, u # t, Step(t), TypeOK
    PROVE  UNCHANGED <<pc[u], result[u]>>
BY DEF Step, begin_initialize, commit_initialize, drop_initialize, begin_shutdown_load,
       begin_shutdown_cas, commit_shutdown, drop_shutdown, acquire_load, acquire_cas,
       lease_drop_load, lease_drop_cas, FinishTransition, Return, Goto, TypeOK

(* Every error returned by begin_initialize, begin_shutdown and acquire is *)
(* true of the leases and transitions at the moment it is decided.         *)
THEOREM LifecycleErrorsAreTruthful == Spec => ErrorsAreTruthful
<1>1. ASSUME IInv, [Next]_vars
      PROVE  [\A t \in Thread : pc'[t] = "idle" => ErrorIsTruthful(t, result'[t])
                                                   \/ UNCHANGED <<pc[t], result[t]>>]_vars
  <2>1. TypeOK
    BY <1>1 DEF IInv
  <2>2. ASSUME NEW u \in Thread, Step(u), NEW t \in Thread, pc'[t] = "idle"
        PROVE  ErrorIsTruthful(t, result'[t]) \/ UNCHANGED <<pc[t], result[t]>>
    <3>1. CASE t = u
      BY <1>1, <2>2, <3>1, StepErrorsAreTruthful
    <3>2. CASE t # u
      BY <2>1, <2>2, <3>2, StepIsLocal
    <3> QED BY <3>1, <3>2
  <2> QED BY <1>1, <2>2 DEF Next
<1> QED BY <1>1, LifecycleInvariant, PTL DEF Spec, ErrorsAreTruthful
=============================================================================
