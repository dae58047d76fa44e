-------------------------- MODULE RuntimeContract --------------------------
(***************************************************************************)
(* What the runtime lifecycle promises to the objects built on it: the     *)
(* four lifecycle states, the set of objects that pin the runtime, and the *)
(* only ways in which they may change.  RuntimeLifecycle implements this   *)
(* with one packed atomic word and compare-and-swap loops.                 *)
(***************************************************************************)
CONSTANT Lease       (* identities of runtime leases                       *)

VARIABLES phase,     (* the lifecycle state every thread agrees on         *)
          objects    (* the leases that pin the runtime                    *)

vars == <<phase, objects>>

Init == phase = "Uninitialized" /\ objects = {}

Move(from, to) ==
    /\ phase = from
    /\ objects = {}
    /\ phase' = to
    /\ UNCHANGED objects

StartInitialize == Move("Uninitialized", "Initializing")
FinishInitialize == Move("Initializing", "Running")
AbandonInitialize == Move("Initializing", "Uninitialized")
StartShutdown == Move("Running", "ShuttingDown")
FinishShutdown == Move("ShuttingDown", "Uninitialized")
AbandonShutdown == Move("ShuttingDown", "Running")

Pin(l) ==
    /\ phase = "Running"
    /\ l \notin objects
    /\ objects' = objects \cup {l}
    /\ UNCHANGED phase

Unpin(l) ==
    /\ phase = "Running"
    /\ l \in objects
    /\ objects' = objects \ {l}
    /\ UNCHANGED phase

Next ==
    \/ StartInitialize \/ FinishInitialize \/ AbandonInitialize
    \/ StartShutdown \/ FinishShutdown \/ AbandonShutdown
    \/ \E l \in Lease : Pin(l) \/ Unpin(l)

Spec == Init /\ [][Next]_vars
=============================================================================
