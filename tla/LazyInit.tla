------------------------------ MODULE LazyInit ------------------------------
(***************************************************************************)
(* The lazily created statics of osal-backend-posix, a tri-state flag with *)
(* a value next to it: the thread-specific key of sys/tls.rs               *)
(* (get_or_init) and the control mutex of timer_control.rs (ensure_init).  *)
(* They differ in what a thread does that finds another one creating the   *)
(* value: get_or_init spins and reports a rollback, ensure_init starts     *)
(* over.                                                                   *)
(*                                                                         *)
(* A load, a compare-exchange or a store of the flag is one step, and so   *)
(* is the write of the value; the orderings of the code (release stores,   *)
(* acquire loads) make their order the one the other threads see.          *)
(***************************************************************************)
EXTENDS Naturals, FiniteSets

CONSTANT Thread

VARIABLES starts_over, (* which one: ensure_init, or else get_or_init      *)
          state,    (* the flag                                            *)
          value,    (* what is in the cell: 0 is uninitialized             *)
          created,  (* values created so far                               *)
          pc,       (* where a thread is                                   *)
          result    (* what its last call returned                         *)

vars == <<starts_over, state, value, created, pc, result>>

(* "create" owns the token; "write" and "publish" follow a creation that   *)
(* succeeded, "rollback" one that failed; "spin" waits for the owner.      *)
Owning == {"create", "write", "publish", "rollback"}

(* Everything has its type, and no more than one value is ever created.    *)
TypeOK ==
    /\ starts_over \in BOOLEAN
    /\ state \in {"Uninitialized", "Initializing", "Ready"}
    /\ value \in 0 .. 1
    /\ created \in 0 .. 1
    /\ pc \in [Thread -> {"idle", "load", "cas", "spin"} \cup Owning]
    /\ result \in [Thread -> {"none", "Value", "Garbage", "Error"}]

Init ==
    /\ starts_over \in BOOLEAN
    /\ state = "Uninitialized"
    /\ value = 0
    /\ created = 0
    /\ pc = [t \in Thread |-> "idle"]
    /\ result = [t \in Thread |-> "none"]

Goto(t, point) == pc' = [pc EXCEPT ![t] = point] /\ UNCHANGED result
Return(t, r) ==
    /\ pc' = [pc EXCEPT ![t] = "idle"]
    /\ result' = [result EXCEPT ![t] = r]

(* assume_init on the cell.                                                *)
Contents == IF value = 0 THEN "Garbage" ELSE "Value"

(* The conditions and updates below are preceded by faulty variants of     *)
(* themselves, which the specification never uses.                         *)

(* The compare-exchange takes the token only from Uninitialized.           *)
Claims == state = "Uninitialized"

(* The value is written before the flag says so.                           *)
PublishFirst == "Ready"
StateWhileWriting == state

(* A creation that failed gives the token back.                            *)
RollbackForgotten == state
RolledBack == "Uninitialized"

(* What a thread that waits reads as the owner's failure.                  *)
GivesUp == ~starts_over /\ state = "Uninitialized"
-----------------------------------------------------------------------------
call(t) ==
    /\ pc[t] = "idle"
    /\ Goto(t, "load")
    /\ UNCHANGED <<starts_over, state, value, created>>

(* Ready: the value is read and returned.                                  *)
load_ready(t) ==
    /\ pc[t] \in {"load", "spin"}
    /\ state = "Ready"
    /\ Return(t, Contents)
    /\ UNCHANGED <<state, value, created>>

(* get_or_init goes on to the exchange whatever it loaded; ensure_init     *)
(* loads again while another thread creates.                               *)
load_not_ready(t) ==
    /\ pc[t] = "load"
    /\ state # "Ready"
    /\ starts_over => state = "Uninitialized"
    /\ Goto(t, "cas")
    /\ UNCHANGED <<state, value, created>>

cas_claims(t) ==
    /\ pc[t] = "cas"
    /\ Claims
    /\ state' = "Initializing"
    /\ Goto(t, "create")
    /\ UNCHANGED <<value, created>>

cas_fails(t) ==
    /\ pc[t] = "cas"
    /\ ~Claims
    /\ Goto(t, IF starts_over THEN "load" ELSE "spin")
    /\ UNCHANGED <<state, value, created>>

(* pthread_key_create, pthread_mutex_init.                                 *)
create_succeeds(t) ==
    /\ pc[t] = "create"
    /\ created' = created + 1
    /\ state' = StateWhileWriting
    /\ Goto(t, "write")
    /\ UNCHANGED value

create_fails(t) ==
    /\ pc[t] = "create"
    /\ Goto(t, "rollback")
    /\ UNCHANGED <<state, value, created>>

write_value(t) ==
    /\ pc[t] = "write"
    /\ value' = created
    /\ Goto(t, "publish")
    /\ UNCHANGED <<state, created>>

publish(t) ==
    /\ pc[t] = "publish"
    /\ state' = "Ready"
    /\ Return(t, Contents)
    /\ UNCHANGED <<value, created>>

rollback(t) ==
    /\ pc[t] = "rollback"
    /\ state' = RolledBack
    /\ Return(t, "Error")
    /\ UNCHANGED <<value, created>>

spin_gives_up(t) ==
    /\ pc[t] = "spin"
    /\ GivesUp
    /\ Return(t, "Error")
    /\ UNCHANGED <<state, value, created>>

(* spin_loop, sched_yield: nothing changes.                                *)
spin(t) ==
    /\ pc[t] = IF starts_over THEN "load" ELSE "spin"
    /\ state = "Initializing"
    /\ UNCHANGED <<starts_over, state, value, created, pc, result>>

Step(t) ==
    /\ UNCHANGED starts_over
    /\ \/ load_ready(t) \/ load_not_ready(t)
       \/ cas_claims(t) \/ cas_fails(t)
       \/ create_succeeds(t) \/ create_fails(t)
       \/ write_value(t) \/ publish(t) \/ rollback(t)
       \/ spin_gives_up(t)

Next == \E t \in Thread : call(t) \/ Step(t) \/ spin(t)

Spec == Init /\ [][Next]_vars

(* Every thread keeps running.                                             *)
Fairness == \A t \in Thread : WF_vars(Step(t))
FairSpec == Spec /\ Fairness
-----------------------------------------------------------------------------
(* A call that succeeds returns the one value that was created, never what *)
(* was in the cell before it was written.                                  *)
SuccessReturnsTheValue ==
    \A t \in Thread : result[t] # "Garbage"

(* Every call returns, unless creations fail over and over.                *)
CallsReturn ==
    <>[](\A t \in Thread : pc[t] # "rollback")
    => \A t \in Thread : (pc[t] # "idle") ~> (pc[t] = "idle")
=============================================================================
