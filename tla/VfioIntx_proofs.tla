---------------------------- MODULE VfioIntx_proofs ----------------------------
(***************************************************************************)
(* INTx is safe for every set of GSIs, any number of moves of the guest    *)
(* and any settings of the user.  IntxInv says who has the eventfd and the *)
(* interrupt at each system call of a handler; each of its parts is named  *)
(* for the question it answers.                                            *)
(***************************************************************************)
EXTENDS VfioIntx, TLAPS

\* The calls between which the eventfd changes hands from QEMU to KVM.
Handing == op \in {"assign", "unmask"}

\* The calls that start from a line QEMU has masked.
Quiet == op \in {"assign", "unmask", "deassign", "detach"}

\* KVM has the eventfd from the assignment to the deassignment, and QEMU listens
\* in the rest of INTx mode.
Listeners ==
    /\ (irqfd # "none") <=> accel \/ op = "unmask"
    /\ handler <=> on /\ ~accel /\ ~Handing
    /\ irqfd # "none" => irqfd = route /\ ~ev
    /\ asserted => irqfd # "none"

\* What each call finds.
Places ==
    /\ ~on => op = "idle" /\ ~masked /\ ~ev
    /\ op \in {"deassign", "detach"} => accel
    /\ op \in {"enable", "rerouted", "assign", "unmask", "close"} => ~accel
    /\ Handing => route # "off"

\* The stored route is the guest's, but for the time of an update.
RouteIsStored ==
    accel \/ op \in {"enable", "rerouted", "assign", "unmask"} =>
        route = pirq \/ op \in {"update", "deassign"}

\* Only QEMU's path has interrupts pending.
PendingIsQemus == pending => on /\ ~accel /\ ~Handing /\ ~mmaps

\* MaskHasOwner in the midst of handlers.
Owner == on /\ masked /\ ~Quiet => ev \/ pending \/ asserted

\* TrapsEnd in the midst of handlers, and outside of INTx mode.
Traps ==
    /\ on /\ ~mmaps /\ user.timeout => timer \/ op \in {"detach", "close"}
    /\ ~on \/ op \in {"detach", "close"} => ~timer
    /\ ~on => mmaps /\ ~accel

IntxInv ==
    /\ TypeOK
    /\ Listeners /\ Places /\ RouteIsStored /\ PendingIsQemus /\ Owner /\ Traps

LEMMA InitInv == Init => IntxInv
<1> SUFFICES ASSUME Init PROVE IntxInv
  OBVIOUS
<1>1. TypeOK
  <2>1. op \in Ops /\ route \in Route /\ pirq \in Route
    BY DEF Init, Route, Ops
  <2>2. moves \in 0..MaxMoves
    BY FailsAssumption DEF Init
  <2> QED
    BY <2>1, <2>2, Zenon DEF Init, TypeOK
<1>2. Listeners /\ Places /\ RouteIsStored /\ PendingIsQemus /\ Owner /\ Traps
  BY DEF Init, Listeners, Places, RouteIsStored, PendingIsQemus, Owner, Traps, Handing, Quiet
<1> QED
  BY <1>1, <1>2 DEF IntxInv

\* The counter of the guest's moves stays within its bound.
LEMMA MovesBound == ASSUME moves \in 0..MaxMoves, Moves PROVE moves' \in 0..MaxMoves
  BY FailsAssumption DEF Moves

LEMMA StepInv == IntxInv /\ [Next]_vars => IntxInv'
<1> SUFFICES ASSUME IntxInv, [Next]_vars PROVE IntxInv'
  OBVIOUS
<1> USE GsiAssumption
    DEF IntxInv, Listeners, Places, RouteIsStored, PendingIsQemus, Owner, Traps, Handing, Quiet,
        host, qemu, kvm, Idle
<1>1. CASE DeviceRaises
  <2> USE <1>1 DEF DeviceRaises
  <2>1. TypeOK'
    BY DEF TypeOK, Route, Ops
  <2>2. Listeners' /\ Places'
    BY DEF TypeOK
  <2>3. RouteIsStored' /\ PendingIsQemus'
    BY DEF TypeOK
  <2>4. Owner' /\ Traps'
    BY DEF TypeOK
  <2> QED
    BY <2>1, <2>2, <2>3, <2>4
<1>2. CASE Fire
  <2> USE <1>2 DEF Fire
  <2>1. TypeOK'
    BY DEF TypeOK, Route, Ops
  <2>2. Listeners' /\ Places'
    BY DEF TypeOK
  <2>3. RouteIsStored' /\ PendingIsQemus'
    BY DEF TypeOK
  <2>4. Owner' /\ Traps'
    BY DEF TypeOK
  <2> QED
    BY <2>1, <2>2, <2>3, <2>4
<1>3. CASE IntxInterrupt
  <2> USE <1>3 DEF IntxInterrupt
  <2>1. TypeOK'
    BY DEF TypeOK, Route, Ops
  <2>2. Listeners' /\ Places'
    BY DEF TypeOK
  <2>3. RouteIsStored' /\ PendingIsQemus'
    BY DEF TypeOK
  <2>4. Owner' /\ Traps'
    BY DEF TypeOK
  <2> QED
    BY <2>1, <2>2, <2>3, <2>4
<1>4. CASE MmapEnable
  <2> USE <1>4 DEF MmapEnable
  <2>1. TypeOK'
    BY DEF TypeOK, Route, Ops
  <2>2. Listeners' /\ Places'
    BY DEF TypeOK
  <2>3. RouteIsStored' /\ PendingIsQemus'
    BY DEF TypeOK
  <2>4. Owner' /\ Traps'
    BY DEF TypeOK
  <2> QED
    BY <2>1, <2>2, <2>3, <2>4
<1>5. CASE IntxEnable
  <2> USE <1>5 DEF IntxEnable
  <2>1. TypeOK'
    BY MovesBound DEF TypeOK, Route, Ops
  <2>2. Listeners' /\ Places'
    BY DEF TypeOK
  <2>3. RouteIsStored' /\ PendingIsQemus'
    BY DEF TypeOK
  <2>4. Owner' /\ Traps'
    BY DEF TypeOK
  <2> QED
    BY <2>1, <2>2, <2>3, <2>4
<1>6. CASE IntxDisable
  <2> USE <1>6 DEF IntxDisable, Quiesce
  <2>1. TypeOK'
    BY MovesBound DEF TypeOK, Route, Ops
  <2>2. Listeners' /\ Places'
    BY DEF TypeOK
  <2>3. RouteIsStored' /\ PendingIsQemus'
    BY DEF TypeOK
  <2>4. Owner' /\ Traps'
    BY DEF TypeOK
  <2> QED
    BY <2>1, <2>2, <2>3, <2>4
<1>7. CASE \E r \in Route : IntxReroute(r)
  <2> USE <1>7 DEF IntxReroute
  <2>1. TypeOK'
    BY MovesBound DEF TypeOK, Route, Ops
  <2>2. Listeners' /\ Places'
    BY DEF TypeOK
  <2>3. RouteIsStored' /\ PendingIsQemus'
    BY DEF TypeOK
  <2>4. Owner' /\ Traps'
    BY DEF TypeOK
  <2> QED
    BY <2>1, <2>2, <2>3, <2>4
<1>8. CASE IntxEnableKvm
  <2> USE <1>8 DEF IntxEnableKvm, Quiesce
  <2>1. TypeOK'
    BY DEF TypeOK, Route, Ops
  <2>2. Listeners' /\ Places'
    BY DEF TypeOK
  <2>3. RouteIsStored' /\ PendingIsQemus'
    BY DEF TypeOK
  <2>4. Owner' /\ Traps'
    BY DEF TypeOK
  <2> QED
    BY <2>1, <2>2, <2>3, <2>4
<1>9. CASE IntxEnableQemu
  <2> USE <1>9 DEF IntxEnableQemu, Eoi
  <2>1. TypeOK'
    BY DEF TypeOK, Route, Ops
  <2>2. Listeners' /\ Places'
    BY DEF TypeOK
  <2>3. RouteIsStored' /\ PendingIsQemus'
    BY DEF TypeOK
  <2>4. Owner' /\ Traps'
    BY DEF TypeOK
  <2> QED
    BY <2>1, <2>2, <2>3, <2>4
<1>10. CASE AssignIrqfd
  <2> USE <1>10 DEF AssignIrqfd
  <2>1. TypeOK'
    BY DEF TypeOK, Route, Ops
  <2>2. Listeners' /\ Places'
    <3>1. ~accel /\ route \in Gsi /\ irqfd' = route
      BY DEF TypeOK, Route
    <3> QED
      BY <3>1 DEF TypeOK
  <2>3. RouteIsStored' /\ PendingIsQemus'
    BY DEF TypeOK
  <2>4. Owner' /\ Traps'
    BY DEF TypeOK
  <2> QED
    BY <2>1, <2>2, <2>3, <2>4
<1>11. CASE AssignFails
  <2> USE <1>11 DEF AssignFails
  <2>1. TypeOK'
    BY DEF TypeOK, Route, Ops
  <2>2. Listeners' /\ Places'
    BY DEF TypeOK
  <2>3. RouteIsStored' /\ PendingIsQemus'
    BY DEF TypeOK
  <2>4. Owner' /\ Traps'
    BY DEF TypeOK
  <2> QED
    BY <2>1, <2>2, <2>3, <2>4
<1>12. CASE LetThemRip
  <2> USE <1>12 DEF LetThemRip
  <2>1. TypeOK'
    BY DEF TypeOK, Route, Ops
  <2>2. Listeners' /\ Places'
    BY DEF TypeOK
  <2>3. RouteIsStored' /\ PendingIsQemus'
    BY DEF TypeOK
  <2>4. Owner' /\ Traps'
    BY DEF TypeOK
  <2> QED
    BY <2>1, <2>2, <2>3, <2>4
<1>13. CASE IntxUpdate
  <2> USE <1>13 DEF IntxUpdate, Quiesce
  <2>1. TypeOK'
    BY DEF TypeOK, Route, Ops
  <2>2. Listeners' /\ Places'
    BY DEF TypeOK
  <2>3. RouteIsStored' /\ PendingIsQemus'
    BY DEF TypeOK
  <2>4. Owner' /\ Traps'
    BY DEF TypeOK
  <2> QED
    BY <2>1, <2>2, <2>3, <2>4
<1>14. CASE UpdateDeassigns
  <2> USE <1>14 DEF UpdateDeassigns, DeassignIrqfd
  <2>1. TypeOK'
    BY DEF TypeOK, Route, Ops
  <2>2. Listeners' /\ Places'
    BY DEF TypeOK
  <2>3. RouteIsStored' /\ PendingIsQemus'
    BY DEF TypeOK
  <2>4. Owner' /\ Traps'
    BY DEF TypeOK
  <2> QED
    BY <2>1, <2>2, <2>3, <2>4
<1>15. CASE DisableDeassigns
  <2> USE <1>15 DEF DisableDeassigns, DeassignIrqfd
  <2>1. TypeOK'
    BY DEF TypeOK, Route, Ops
  <2>2. Listeners' /\ Places'
    BY DEF TypeOK
  <2>3. RouteIsStored' /\ PendingIsQemus'
    BY DEF TypeOK
  <2>4. Owner' /\ Traps'
    BY DEF TypeOK
  <2> QED
    BY <2>1, <2>2, <2>3, <2>4
<1>16. CASE IntxClose
  <2> USE <1>16 DEF IntxClose
  <2>1. TypeOK'
    BY DEF TypeOK, Route, Ops
  <2>2. Listeners' /\ Places'
    BY DEF TypeOK
  <2>3. RouteIsStored' /\ PendingIsQemus'
    BY DEF TypeOK
  <2>4. Owner' /\ Traps'
    BY DEF TypeOK
  <2> QED
    BY <2>1, <2>2, <2>3, <2>4
<1>17. CASE \E g \in Gsi : GuestServes(g)
  <2> USE <1>17 DEF GuestServes, BarAccess, Eoi
  <2>1. TypeOK'
    BY DEF TypeOK, Route, Ops
  <2>2. Listeners' /\ Places'
    BY DEF TypeOK
  <2>3. RouteIsStored' /\ PendingIsQemus'
    BY DEF TypeOK
  <2>4. Owner' /\ Traps'
    BY DEF TypeOK
  <2> QED
    BY <2>1, <2>2, <2>3, <2>4
<1>18. CASE GuestAccesses
  <2> USE <1>18 DEF GuestAccesses, BarAccess, Eoi
  <2>1. TypeOK'
    <3>1. line' \in BOOLEAN /\ pending' \in BOOLEAN /\ masked' \in BOOLEAN
      BY DEF TypeOK
    <3> QED
      BY <3>1 DEF TypeOK, Route, Ops
  <2>2. Listeners' /\ Places'
    BY DEF TypeOK
  <2>3. RouteIsStored' /\ PendingIsQemus'
    BY DEF TypeOK
  <2>4. Owner' /\ Traps'
    BY DEF TypeOK
  <2> QED
    BY <2>1, <2>2, <2>3, <2>4
<1>19. CASE GuestEoi
  <2> USE <1>19 DEF GuestEoi
  <2>1. TypeOK'
    <3>1. asserted' \in BOOLEAN /\ masked' \in BOOLEAN
      BY DEF TypeOK
    <3>2. isr' \in Gsi \cup {"idle"}
      OBVIOUS
    <3> QED
      BY <3>1, <3>2, Zenon DEF TypeOK
  <2>2. Listeners' /\ Places'
    BY DEF TypeOK
  <2>3. RouteIsStored' /\ PendingIsQemus'
    BY DEF TypeOK
  <2>4. Owner' /\ Traps'
    BY DEF TypeOK
  <2> QED
    BY <2>1, <2>2, <2>3, <2>4
<1>20. CASE UNCHANGED vars
  <2> USE <1>20 DEF vars
  <2>1. TypeOK'
    BY DEF TypeOK, Route, Ops
  <2>2. Listeners' /\ Places'
    BY DEF TypeOK
  <2>3. RouteIsStored' /\ PendingIsQemus'
    BY DEF TypeOK
  <2>4. Owner' /\ Traps'
    BY DEF TypeOK
  <2> QED
    BY <2>1, <2>2, <2>3, <2>4
<1> QED
  BY <1>1, <1>2, <1>3, <1>4, <1>5, <1>6, <1>7, <1>8, <1>9, <1>10, <1>11, <1>12, <1>13, <1>14, <1>15, <1>16, <1>17, <1>18, <1>19, <1>20 DEF Next, Handler

\* The invariant that the theorems below rest on.
THEOREM IntxInvariant == Spec => []IntxInv
<1> QED
  BY InitInv, StepInv, PTL DEF Spec

\* Type correctness, with KVM's irqfd on a GSI the guest has.
THEOREM IntxTypeCorrect == Spec => []TypeOK
<1>1. IntxInv => TypeOK
  BY DEF IntxInv
<1> QED
  BY <1>1, IntxInvariant, PTL

\* The guest's access that ends a pending interrupt is never direct.
THEOREM PendingSafe == Spec => []PendingIsTrapped
<1>1. IntxInv => PendingIsTrapped
  BY DEF IntxInv, PendingIsQemus, PendingIsTrapped
<1> QED
  BY <1>1, IntxInvariant, PTL

\* Trapped BARs have a timer that ends the trapping.
THEOREM TrapsAreTimed == Spec => []TrapsEnd
<1>1. IntxInv => TrapsEnd
  BY DEF IntxInv, Traps, TrapsEnd, Idle
<1> QED
  BY <1>1, IntxInvariant, PTL

\* Whenever no handler runs, KVM's irqfd and the guest's route agree, and exactly
\* one of KVM and QEMU listens to the eventfd.
THEOREM OneListener == Spec => []IrqfdFollowsRoute
<1>1. IntxInv => IrqfdFollowsRoute
  <2> SUFFICES ASSUME IntxInv, on, Idle PROVE
        /\ irqfd = IF accel THEN pirq ELSE "none"
        /\ accel = ~handler
    BY DEF IrqfdFollowsRoute
  <2>1. accel => irqfd = pirq
    BY DEF IntxInv, Listeners, RouteIsStored, Idle
  <2>2. ~accel => irqfd = "none"
    BY DEF IntxInv, Listeners, Idle
  <2>3. handler <=> ~accel
    BY DEF IntxInv, Listeners, Handing, Idle
  <2>4. accel \in BOOLEAN /\ handler \in BOOLEAN
    BY DEF IntxInv, TypeOK
  <2>5. accel = ~handler
    BY <2>3, <2>4, Zenon
  <2> QED
    BY <2>1, <2>2, <2>5
<1> QED
  BY <1>1, IntxInvariant, PTL

\* Whenever no handler runs, a masked line has somebody who will unmask it.
THEOREM MaskIsOwned == Spec => []MaskHasOwner
<1>1. IntxInv => MaskHasOwner
  BY DEF IntxInv, Owner, MaskHasOwner, Quiet, Idle
<1> QED
  BY <1>1, IntxInvariant, PTL

\* Nothing of INTx is left when the device is in another mode.
THEOREM IntxLeaves == Spec => []IntxLeavesNothing
<1>1. IntxInv => IntxLeavesNothing
  BY DEF IntxInv, Listeners, Places, PendingIsQemus, Traps, IntxLeavesNothing
<1> QED
  BY <1>1, IntxInvariant, PTL
=============================================================================
