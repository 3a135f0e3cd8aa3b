------------------------------- MODULE VfioIntx -------------------------------
(***************************************************************************)
(* INTx of a vfio-pci device.  The host masks the level-triggered line     *)
(* when it fires and signals an eventfd.  QEMU's handler of that eventfd   *)
(* asserts the guest's interrupt and traps the BARs, and the first trapped *)
(* access counts as the guest's EOI: it unmasks the line.  With            *)
(* acceleration KVM listens to the eventfd instead, and the EOI of the     *)
(* guest's interrupt controller unmasks through a second eventfd.          *)
(* The big lock orders QEMU's handlers; the host, KVM and the guest go on  *)
(* between the system calls of one handler.                                *)
(***************************************************************************)
EXTENDS Naturals

CONSTANTS
    Gsi,        \* the interrupts of the guest a PCI interrupt can be routed to
    KvmFails,   \* whether the set-up of the acceleration may fail
    MaxMoves    \* bound: how often the guest changes its route or the mode

ASSUME GsiAssumption   == "off" \notin Gsi /\ "none" \notin Gsi /\ "idle" \notin Gsi
ASSUME FailsAssumption == KvmFails \in BOOLEAN /\ MaxMoves \in Nat

VARIABLES
    user,       \* x-no-kvm-intx is not set, x-intx-mmap-timeout-ms is not zero
    on,         \* the device is in INTx mode
    op,         \* what the handler that holds the big lock does next
    line,       \* the device asserts its interrupt
    masked,     \* the host's kernel has the line masked
    ev,         \* intx.interrupt is signalled and nobody has read it
    handler,    \* vfio_intx_interrupt is the handler of intx.interrupt
    pending,    \* intx.pending; the guest's interrupt is asserted exactly then
    mmaps,      \* the guest accesses the BARs directly
    timer,      \* intx.mmap_timer runs
    route,      \* intx.route
    accel,      \* intx.kvm_accel
    pirq,       \* where the guest's chipset routes the interrupt
    irqfd,      \* the GSI of KVM's irqfd for intx.interrupt
    asserted,   \* KVM asserts that GSI
    isr,        \* the GSI whose interrupt the guest serves and has not ended
    moves

host == <<line, masked, ev>>
qemu == <<handler, pending, mmaps, timer, route, accel>>
kvm  == <<irqfd, asserted>>
vars == <<user, on, op, host, qemu, kvm, pirq, isr, moves>>

Route == Gsi \cup {"off"}
Idle == op = "idle"

Init ==
    /\ user \in [kvm : BOOLEAN, timeout : BOOLEAN]
    /\ on = FALSE /\ op = "idle" /\ line = FALSE /\ masked = FALSE /\ ev = FALSE
    /\ handler = FALSE /\ pending = FALSE /\ mmaps = TRUE /\ timer = FALSE
    /\ route = "off" /\ accel = FALSE /\ pirq \in Route
    /\ irqfd = "none" /\ asserted = FALSE /\ isr = "idle" /\ moves = 0

Moves == moves < MaxMoves /\ moves' = moves + 1

-----------------------------------------------------------------------------
(* The device and the host's kernel *)

DeviceRaises ==
    /\ ~line /\ line' = TRUE
    /\ UNCHANGED <<user, on, op, masked, ev, qemu, kvm, pirq, isr, moves>>

\* The line fires: it is masked, and whoever listens to the eventfd is told.
Fire ==
    /\ on /\ line /\ ~masked
    /\ masked' = TRUE
    /\ IF irqfd = "none" THEN ev' = TRUE /\ UNCHANGED asserted
                         ELSE asserted' = TRUE /\ UNCHANGED ev
    /\ UNCHANGED <<user, on, op, line, qemu, irqfd, pirq, isr, moves>>

-----------------------------------------------------------------------------
(* QEMU's handlers *)

IntxInterrupt ==
    /\ Idle /\ handler /\ ev
    /\ ev' = FALSE /\ pending' = TRUE /\ mmaps' = FALSE /\ timer' = user.timeout
    /\ UNCHANGED <<user, on, op, line, masked, handler, route, accel, kvm, pirq, isr, moves>>

\* Mutant of MmapEnable: the timer does not look at pending.
BugMmapEnable ==
    /\ Idle /\ timer
    /\ timer' = FALSE /\ mmaps' = TRUE
    /\ UNCHANGED <<user, on, op, host, handler, pending, route, accel, kvm, pirq, isr, moves>>

\* The timer has run out: it starts again while an interrupt is pending.
MmapEnable ==
    /\ Idle /\ timer
    /\ timer' = pending /\ mmaps' = (mmaps \/ ~pending)
    /\ UNCHANGED <<user, on, op, host, handler, pending, route, accel, kvm, pirq, isr, moves>>

\* A trapped access ends a pending interrupt.
Eoi == pending' = FALSE /\ masked' = (masked /\ ~pending)

\* Both directions of the acceleration start from a masked line.
Quiesce == masked' = TRUE /\ pending' = FALSE

\* vfio_intx_enable up to the acceleration.
IntxEnable ==
    /\ Idle /\ ~on /\ Moves
    /\ on' = TRUE /\ op' = "enable" /\ handler' = TRUE /\ route' = pirq
    /\ UNCHANGED <<user, host, pending, mmaps, timer, accel, kvm, pirq, isr>>

IntxEnableKvm ==
    /\ op \in {"enable", "rerouted"} /\ user.kvm /\ route # "off"
    /\ handler' = FALSE /\ Quiesce /\ op' = "assign"
    /\ UNCHANGED <<user, on, line, ev, mmaps, timer, route, accel, kvm, pirq, isr, moves>>

\* No acceleration.  vfio_intx_update ends a pending interrupt, lest its EOI was
\* missed; after the other ways out of it nothing is pending, and after a move to
\* a disabled route it returns before that.
IntxEnableQemu ==
    /\ op \in {"enable", "rerouted"} /\ (~user.kvm \/ route = "off")
    /\ op' = "idle"
    /\ IF op = "rerouted" /\ route # "off" THEN Eoi ELSE UNCHANGED <<pending, masked>>
    /\ UNCHANGED <<user, on, line, ev, handler, mmaps, timer, route, accel, kvm, pirq, isr, moves>>

\* KVM gets the eventfd, with what is signalled on it, and the host the other one.
AssignIrqfd ==
    /\ op = "assign"
    /\ irqfd' = route /\ asserted' = ev /\ ev' = FALSE /\ op' = "unmask"
    /\ UNCHANGED <<user, on, line, masked, qemu, pirq, isr, moves>>

\* Mutant of AssignFails: QEMU does not listen again.
BugAssignFails ==
    /\ KvmFails /\ op = "assign"
    /\ masked' = FALSE /\ op' = "idle"
    /\ ev' \in {ev, FALSE}
    /\ UNCHANGED <<user, on, line, handler, pending, mmaps, timer, route, accel, kvm, pirq,
                   isr, moves>>

\* One of the two cannot be had; a signal is lost if KVM had the eventfd already.
AssignFails ==
    /\ KvmFails /\ op = "assign"
    /\ handler' = TRUE /\ masked' = FALSE /\ op' = "idle"
    /\ ev' \in {ev, FALSE}
    /\ UNCHANGED <<user, on, line, pending, mmaps, timer, route, accel, kvm, pirq, isr, moves>>

LetThemRip ==
    /\ op = "unmask"
    /\ masked' = FALSE /\ accel' = TRUE /\ op' = "idle"
    /\ UNCHANGED <<user, on, line, ev, handler, pending, mmaps, timer, route, kvm, pirq,
                   isr, moves>>

\* The guest moves its interrupt; the chipset tells vfio_intx_update.
IntxReroute(r) ==
    /\ Idle /\ r # pirq /\ Moves
    /\ pirq' = r
    /\ op' = IF on /\ route # r THEN "update" ELSE "idle"
    /\ UNCHANGED <<user, on, host, qemu, kvm, isr>>

IntxUpdate ==
    /\ op = "update"
    /\ IF accel THEN Quiesce /\ op' = "deassign" /\ UNCHANGED route
                ELSE route' = pirq /\ op' = "rerouted" /\ UNCHANGED <<pending, masked>>
    /\ UNCHANGED <<user, on, line, ev, handler, mmaps, timer, accel, kvm, pirq, isr, moves>>

\* Mutant of DeassignIrqfd: the line is not unmasked.
BugDeassignIrqfd ==
    /\ irqfd' = "none" /\ asserted' = FALSE
    /\ handler' = TRUE /\ accel' = FALSE /\ masked' = masked

\* vfio_intx_disable_kvm after the masking: KVM lets go of the eventfd and of the
\* guest's interrupt, QEMU listens, and the line may fire once more.
DeassignIrqfd ==
    /\ irqfd' = "none" /\ asserted' = FALSE
    /\ handler' = TRUE /\ accel' = FALSE /\ masked' = FALSE

UpdateDeassigns ==
    /\ op = "deassign" /\ route' = pirq /\ op' = "rerouted"
    /\ DeassignIrqfd
    /\ UNCHANGED <<user, on, line, ev, pending, mmaps, timer, pirq, isr, moves>>

\* vfio_intx_disable: for MSI or MSI-X, for a reset or for the end of the device.
IntxDisable ==
    /\ Idle /\ on /\ Moves
    /\ timer' = FALSE
    /\ IF accel THEN Quiesce /\ op' = "detach"
                ELSE op' = "close" /\ UNCHANGED <<pending, masked>>
    /\ UNCHANGED <<user, on, line, ev, handler, mmaps, route, accel, kvm, pirq, isr>>

DisableDeassigns ==
    /\ op = "detach" /\ op' = "close"
    /\ DeassignIrqfd
    /\ UNCHANGED <<user, on, line, ev, pending, mmaps, timer, route, pirq, isr, moves>>

IntxClose ==
    /\ op = "close" /\ op' = "idle"
    /\ on' = FALSE /\ masked' = FALSE /\ ev' = FALSE
    /\ pending' = FALSE /\ mmaps' = TRUE /\ handler' = FALSE
    /\ UNCHANGED <<user, line, timer, route, accel, kvm, pirq, isr, moves>>

-----------------------------------------------------------------------------
(* The guest *)

\* An access to a BAR is direct, or a trap that takes the big lock.
BarAccess ==
    IF mmaps THEN UNCHANGED <<pending, masked>> ELSE Idle /\ Eoi

\* The GSIs that are asserted to the guest.
Level == {g \in Gsi : (pending /\ g = pirq) \/ (asserted /\ g = irqfd)}

\* The driver's handler of the interrupt tells the device to take its line back.
GuestServes(g) ==
    /\ isr = "idle" /\ g \in Level
    /\ isr' = g /\ line' = FALSE /\ BarAccess
    /\ UNCHANGED <<user, on, op, ev, handler, mmaps, timer, route, accel, kvm, pirq, moves>>

\* The driver looks at the device at another time, and may serve it by that.
GuestAccesses ==
    /\ line' \in {line, FALSE} /\ BarAccess
    /\ UNCHANGED <<user, on, op, ev, handler, mmaps, timer, route, accel, kvm, pirq, isr, moves>>

\* The guest ends the interrupt at its interrupt controller: KVM takes the GSI of
\* its irqfd back and signals the host to unmask the line.
GuestEoi ==
    /\ isr # "idle" /\ isr' = "idle"
    /\ IF isr = irqfd THEN asserted' = FALSE /\ masked' = FALSE
                      ELSE UNCHANGED <<asserted, masked>>
    /\ UNCHANGED <<user, on, op, line, ev, qemu, irqfd, pirq, moves>>

-----------------------------------------------------------------------------
\* What the holder of the big lock does next.
Handler ==
    \/ IntxEnableKvm \/ IntxEnableQemu \/ AssignIrqfd \/ AssignFails \/ LetThemRip
    \/ IntxUpdate \/ UpdateDeassigns \/ DisableDeassigns \/ IntxClose

Next ==
    \/ DeviceRaises \/ Fire
    \/ IntxInterrupt \/ MmapEnable
    \/ Handler
    \/ IntxEnable \/ IntxDisable
    \/ \E r \in Route : IntxReroute(r)
    \/ \E g \in Gsi : GuestServes(g)
    \/ GuestAccesses \/ GuestEoi

Spec == Init /\ [][Next]_vars

\* The host and QEMU go on, and so does the guest: an interrupt that is asserted
\* again and again is taken in the end.
Fairness ==
    /\ WF_vars(Fire) /\ WF_vars(IntxInterrupt) /\ WF_vars(Handler) /\ WF_vars(GuestEoi)
    /\ SF_vars(\E g \in Gsi : GuestServes(g))

FairSpec == Spec /\ Fairness

-----------------------------------------------------------------------------
(* Properties *)

Ops == {"idle", "enable", "assign", "unmask", "update", "deassign", "rerouted",
        "detach", "close"}

\* Types.  KVM has the eventfd for a GSI the guest's controller has.
TypeOK ==
    /\ user \in [kvm : BOOLEAN, timeout : BOOLEAN]
    /\ on \in BOOLEAN /\ op \in Ops
    /\ line \in BOOLEAN /\ masked \in BOOLEAN /\ ev \in BOOLEAN
    /\ handler \in BOOLEAN /\ pending \in BOOLEAN /\ mmaps \in BOOLEAN
    /\ timer \in BOOLEAN /\ route \in Route /\ accel \in BOOLEAN
    /\ pirq \in Route /\ irqfd \in Gsi \cup {"none"} /\ asserted \in BOOLEAN
    /\ isr \in Gsi \cup {"idle"} /\ moves \in 0..MaxMoves

\* While an interrupt waits for the guest's access, the access cannot be missed.
PendingIsTrapped == pending => ~mmaps

\* BARs that are trapped have a timer that gives them back, unless the user
\* disabled it.
TrapsEnd == on /\ Idle /\ ~mmaps /\ user.timeout => timer

\* KVM delivers to the GSI the guest's chipset routes to, and nobody else reads
\* the eventfd.
IrqfdFollowsRoute ==
    on /\ Idle => /\ irqfd = IF accel THEN pirq ELSE "none"
                  /\ accel = ~handler

\* A masked line is unmasked again by somebody: by QEMU after it read the eventfd,
\* by the guest's access or by the guest's EOI.
MaskHasOwner == on /\ Idle /\ masked => ev \/ pending \/ asserted

\* Nothing of INTx is left in the other modes: no trap, no timer, no handler, no
\* interrupt that stays asserted.
IntxLeavesNothing ==
    ~on => /\ mmaps /\ ~timer /\ ~handler /\ ~pending
           /\ irqfd = "none" /\ ~asserted /\ ~accel

\* A device that asserts its line is served, unless the guest has no interrupt
\* for it or INTx ends.
LineIsServed == line /\ on ~> ~line \/ ~on \/ pirq = "off"

=============================================================================
