------------------------- MODULE PassthroughHandover -------------------------
(***************************************************************************)
(* What the migration agents promise about a guest with a pass-through     *)
(* NIC: the traffic leaves the NIC before the NIC leaves the guest, the    *)
(* guest moves only without it, and the traffic returns only to a NIC the  *)
(* guest has.  ens3 is the paravirtual interface, ens4 the NIC.            *)
(***************************************************************************)
CONSTANTS HostA, HostB

VARIABLES
    place,     \* the host the guest runs on, or "lost"
    attached,  \* the guest has the NIC
    path       \* the active slave of bond0

vars == <<place, attached, path>>

Init == place \in {HostA, HostB} /\ attached = TRUE /\ path = "ens4"

\* The guest moves its traffic to the paravirtual interface.
Release == path' = "ens3" /\ UNCHANGED <<place, attached>>

Detach == attached /\ path = "ens3" /\ attached' = FALSE /\ UNCHANGED <<place, path>>

Move == /\ ~attached
        /\ place' \in {HostA, HostB} \ {place} /\ place # "lost"
        /\ UNCHANGED <<attached, path>>

Attach == ~attached /\ attached' = TRUE /\ UNCHANGED <<place, path>>

\* The guest moves its traffic to the NIC.
Return == attached /\ path' = "ens4" /\ UNCHANGED <<place, attached>>

\* The destination's QEMU crashes under the guest.
Lose == place' = "lost" /\ attached' = FALSE /\ UNCHANGED path

Next == Release \/ Detach \/ Move \/ Attach \/ Return \/ Lose

Spec == Init /\ [][Next]_vars
=============================================================================
