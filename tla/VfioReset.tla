------------------------------- MODULE VfioReset -------------------------------
(***************************************************************************)
(* Resets of vfio-pci devices that share a bus.  The core's ->reset() of   *)
(* one device tries the device's own resets and then a bus reset, if no    *)
(* other device of QEMU is affected; the handler for resets of the machine *)
(* does the bus resets that affect several.  A machine reset runs both, in *)
(* the order they were registered in, under the big lock.  Before a reset  *)
(* a device is switched off, afterwards its INTx is enabled.               *)
(***************************************************************************)
EXTENDS Naturals, SequencesExt

CONSTANTS
    Fn,         \* the names of a bus's functions
    Machines,   \* the hosts' buses, records of
                \*   bus    the functions in the kernel's order
                \*   group  the IOMMU group of each function
                \*   info   whether the kernel tells what a bus reset affects
                \*   kind   for each function reset_works, has_flr, has_pm_reset
                \*          and whether it has a resetfn of its own
    Refuses     \* the ioctls the kernel may refuse, of {"function", "bus"}

ASSUME MachinesAssumption ==
    /\ Refuses \subseteq {"function", "bus"}
    /\ \A m \in Machines :
         /\ m.bus \in Seq(Fn) /\ IsInjective(m.bus)
         /\ DOMAIN m.group = Fn /\ m.info \in BOOLEAN
         /\ m.kind \in [Fn -> [works : BOOLEAN, flr : BOOLEAN, pm : BOOLEAN, own : BOOLEAN]]

VARIABLES
    hw,         \* the machine
    dev,        \* QEMU's device for each function and what the function does:
                \*   st     "absent", "live", or "gone": unrealized or never realized,
                \*          but not finalized, so that its group still lists it
                \*   irq    vdev->interrupt
                \*   act    "quiet", "busy" (does DMA) or "asleep" (D3)
                \*   needs  vbasedev.needs_reset
                \*   dirty  whether the guest's state is in it
    parts,      \* what the reset of the machine has yet to do
    todo,       \* the devices the present part of it has yet to do
    first,      \* whether the handler is registered before the devices' bus
    seen        \* history of the machine's reset: its bus resets (hits), whether the
                \* kernel refused one (refused), whether it met a removed device (late);
                \* and whether any bus reset met a device not switched off (torn)

vars == <<hw, dev, parts, todo, first, seen>>

Absent == [st |-> "absent", irq |-> "none", act |-> "quiet", needs |-> FALSE, dirty |-> FALSE]
Nothing == [hits |-> 0, torn |-> FALSE, refused |-> FALSE, late |-> FALSE]

Init ==
    /\ hw \in Machines /\ dev = [f \in Fn |-> Absent]
    /\ parts = <<>> /\ todo = {} /\ first \in BOOLEAN /\ seen = Nothing

Idle == parts = <<>>
On == ToSet(hw.bus)
Listed(d) == {f \in Fn : d[f].st # "absent"}     \* in the device_list of a group
Live(d) == {f \in Fn : d[f].st = "live"}

Answers(ioctl) == IF ioctl \in Refuses THEN BOOLEAN ELSE {TRUE}

-----------------------------------------------------------------------------
(* One reset: every operator returns what became of [dev, seen] *)

\* Mutant of PreReset: the device goes on with its DMA.
BugPreReset(d, S) == [f \in Fn |-> IF f \in S THEN [d[f] EXCEPT !.irq = "none"] ELSE d[f]]

\* vfio_pci_pre_reset: no interrupts, awake, no DMA.
PreReset(d, S) ==
    [f \in Fn |-> IF f \in S THEN [d[f] EXCEPT !.irq = "none", !.act = "quiet"] ELSE d[f]]

\* vfio_pci_post_reset
PostReset(d, S) == [f \in Fn |-> IF f \in S THEN [d[f] EXCEPT !.irq = "intx"] ELSE d[f]]

\* Mutant of Unmark: the marker stays.
BugUnmark(d, S) == d

\* needs_reset is cleared, so that the handler does not reset the bus again.
Unmark(d, S) == [f \in Fn |-> IF f \in S THEN [d[f] EXCEPT !.needs = FALSE] ELSE d[f]]

\* A reset cleans functions and leaves them with their power-on state.
Cleans(d, S) ==
    [f \in Fn |-> IF f \in S THEN [d[f] EXCEPT !.act = "quiet", !.dirty = FALSE] ELSE d[f]]

Owned(d, f) == \E g \in Listed(d) : hw.group[g] = hw.group[f]

\* The functions in front of the first one whose group QEMU does not own.
Checked(d, f) ==
    LET n == SelectInSeq(hw.bus, LAMBDA g : g # f /\ ~Owned(d, g))
    IN  ToSet(IF n = 0 THEN hw.bus ELSE SubSeq(hw.bus, 1, n - 1)) \ {f}

\* VFIO_DEVICE_PCI_HOT_RESET
BusReset(d, s, ok) ==
    IF ok THEN [dev |-> Cleans(d, Fn),
                seen |-> [s EXCEPT !.hits = @ + 1,
                            !.torn = @ \/ \E f \in Listed(d) : d[f].irq # "none"
                                                               \/ d[f].act # "quiet"]]
          ELSE [dev |-> d, seen |-> [s EXCEPT !.refused = TRUE]]

\* Mutant of HotReset: one device may reset the others with it.
BugHotReset(d, s, f, single, ok) ==
    LET users == Checked(d, f) \cap Listed(d)
        self  == IF single THEN {} ELSE {f}
        start == Unmark(PreReset(d, self), {f})
        reset == BusReset(Unmark(PreReset(start, users), users), s, ok)
    IN  IF ~hw.info \/ Checked(d, f) # On \ {f} \/ (~single /\ users = {})
          THEN [dev |-> PostReset(start, self), seen |-> s, done |-> FALSE]
        ELSE [dev |-> PostReset(reset.dev, users \cup self), seen |-> reset.seen, done |-> ok]

\* vfio_pci_hot_reset.  done says whether it returned 0.
HotReset(d, s, f, single, ok) ==
    LET users   == Checked(d, f) \cap Listed(d)
        foreign == Checked(d, f) # On \ {f}
        self    == IF single THEN {} ELSE {f}
        start   == Unmark(PreReset(d, self), {f})
        ready   == Unmark(PreReset(start, users), users)
        reset   == BusReset(ready, s, ok)
        FailedAs(e, S) == [dev |-> PostReset(e, S), seen |-> s, done |-> FALSE]
    IN  CASE ~hw.info               -> FailedAs(start, self)
          [] hw.info /\ single /\ users # {}           -> FailedAs(start, {})
          [] hw.info /\ ~(single /\ users # {}) /\ foreign -> FailedAs(ready, users \cup self)
          [] hw.info /\ ~foreign /\ ~single /\ users = {}  -> FailedAs(start, self)
          [] OTHER -> [dev |-> PostReset(reset.dev, users \cup self),
                       seen |-> reset.seen, done |-> ok]

\* Mutant of ComputeNeedsReset: a device that cannot be reset is not marked.
BugComputeNeedsReset(d) ==
    [f \in Fn |-> LET k == hw.kind[f] IN
       IF f \in Listed(d) /\ ~k.flr /\ k.pm THEN [d[f] EXCEPT !.needs = TRUE] ELSE d[f]]

\* vfio_pci_compute_needs_reset, for every device the groups list.
ComputeNeedsReset(d) ==
    [f \in Fn |-> LET k == hw.kind[f] IN
       IF f \in Listed(d) /\ (~k.works \/ (~k.flr /\ k.pm))
         THEN [d[f] EXCEPT !.needs = TRUE] ELSE d[f]]

\* vfio_pci_reset; fn and bus are the kernel's answers to its ioctls.
PciReset(d, s, f, fn, bus) ==
    LET k     == hw.kind[f]
        pre   == PreReset(d, {f})
        tries == k.own \/ (k.works /\ (k.flr \/ ~k.pm))
        s1    == IF tries /\ ~fn THEN [s EXCEPT !.refused = TRUE] ELSE s
        hot   == HotReset(pre, s1, f, TRUE, bus)
        pm    == k.works /\ k.pm
        Ends(e, t) == [dev |-> PostReset(e, {f}), seen |-> t]
    IN  IF tries /\ fn THEN Ends(Cleans(pre, {f}), s)
        ELSE IF hot.done \/ ~pm THEN Ends(hot.dev, hot.seen)
        ELSE IF fn THEN Ends(Cleans(hot.dev, {f}), hot.seen)
        ELSE Ends(hot.dev, [hot.seen EXCEPT !.refused = TRUE])

ResetsOne(d, f) ==
    \E fn \in Answers("function"), bus \in Answers("bus") :
       LET r == PciReset(d, seen, f, fn, bus)
       IN  /\ dev' = r.dev
           /\ seen' = IF Idle THEN [seen EXCEPT !.torn = r.seen.torn] ELSE r.seen

-----------------------------------------------------------------------------
(* Devices come, work and go *)

\* device_add resets the device it has realized, the bottom half does not.
Realize(f) ==
    /\ Idle /\ f \in On /\ dev[f].st = "absent"
    /\ \E dirty \in BOOLEAN :
         LET d == [dev EXCEPT ![f] = [Absent EXCEPT !.st = "live", !.irq = "intx",
                                                    !.dirty = dirty]]
         IN  \/ dev' = d /\ UNCHANGED seen
             \/ ResetsOne(d, f)
    /\ UNCHANGED <<hw, parts, todo, first>>

\* The realization fails after the device has joined its group.
RealizeFails(f) ==
    /\ Idle /\ f \in On /\ dev[f].st = "absent"
    /\ dev' = [dev EXCEPT ![f].st = "gone"]
    /\ UNCHANGED <<hw, parts, todo, first, seen>>

\* Mutant of Exit: the interrupts stay.
BugExit(f) ==
    /\ dev[f].st = "live"
    /\ dev' = [dev EXCEPT ![f].st = "gone"] /\ todo' = todo \ {f}
    /\ UNCHANGED <<hw, parts, first, seen>>

\* vfio_exitfn.  A reset of the machine may carry out a removal too.
Exit(f) ==
    /\ dev[f].st = "live"
    /\ dev' = [dev EXCEPT ![f].st = "gone", ![f].irq = "none"]
    /\ todo' = IF parts # <<>> /\ Head(parts) = "devices" THEN todo \ {f} ELSE todo
    /\ seen' = [seen EXCEPT !.late = @ \/ ~Idle]
    /\ UNCHANGED <<hw, parts, first>>

\* The device leaves its group, and nobody's state is left behind.
Finalize(f) ==
    /\ Idle /\ dev[f].st = "gone"
    /\ dev' = [dev EXCEPT ![f] = Absent]
    /\ UNCHANGED <<hw, parts, todo, first, seen>>

GuestUses(f) ==
    /\ Idle /\ dev[f].st = "live"
    /\ \E act \in {"busy", "asleep"} :
         dev' = [dev EXCEPT ![f].irq = "msi", ![f].act = act, ![f].dirty = TRUE]
    /\ UNCHANGED <<hw, parts, todo, first, seen>>

\* osnet-vfio-nic-reset
NicReset(f) ==
    /\ Idle /\ dev[f].st = "live" /\ ResetsOne(dev, f)
    /\ UNCHANGED <<hw, parts, todo, first>>

-----------------------------------------------------------------------------
(* The reset of the machine *)

\* The devices a part of the reset goes through, and what it does at its start.
Enters(d, rest) ==
    /\ parts' = rest
    /\ IF rest = <<>> THEN todo' = {} /\ dev' = d
       ELSE IF Head(rest) = "handler" THEN todo' = Listed(d) /\ dev' = ComputeNeedsReset(d)
       ELSE todo' = Live(d) /\ dev' = d

StartReset ==
    /\ Idle /\ Live(dev) # {}
    /\ seen' = [seen EXCEPT !.late = Listed(dev) # Live(dev)]
    /\ Enters(dev, IF first THEN <<"handler", "devices">> ELSE <<"devices", "handler">>)
    /\ UNCHANGED <<hw, first>>

\* vfio_reset_handler: a device that was reset with another is not marked any more.
HandlerResets(f) ==
    /\ parts # <<>> /\ Head(parts) = "handler" /\ f \in todo
    /\ IF dev[f].needs
         THEN \E ok \in Answers("bus") :
                LET r == HotReset(dev, seen, f, FALSE, ok) IN dev' = r.dev /\ seen' = r.seen
         ELSE UNCHANGED <<dev, seen>>
    /\ todo' = todo \ {f}
    /\ UNCHANGED <<hw, parts, first>>

\* qbus_reset_all comes to a device.
DeviceResets(f) ==
    /\ parts # <<>> /\ Head(parts) = "devices" /\ f \in todo
    /\ ResetsOne(dev, f) /\ todo' = todo \ {f}
    /\ UNCHANGED <<hw, parts, first>>

PartEnds ==
    /\ parts # <<>> /\ todo = {}
    /\ Enters(dev, Tail(parts))
    /\ seen' = IF parts' = <<>> THEN [seen EXCEPT !.hits = 0, !.refused = FALSE] ELSE seen
    /\ UNCHANGED <<hw, first>>

Next ==
    \/ \E f \in Fn : \/ Realize(f) \/ RealizeFails(f) \/ Exit(f) \/ Finalize(f)
                     \/ GuestUses(f) \/ NicReset(f)
                     \/ HandlerResets(f) \/ DeviceResets(f)
    \/ StartReset \/ PartEnds

Spec == Init /\ [][Next]_vars

-----------------------------------------------------------------------------
(* Properties *)

\* "So that we don't overlap and do a double reset on the system reset path": the
\* handler and the devices' own resets together reset the bus at most once.
NoDoubleReset == ~Idle => seen.hits <= 1

\* A bus reset never meets a device of QEMU that has not been switched off.
BusResetIsPrepared == ~seen.torn

\* A device that is removed has no interrupts, unless a reset of the machine finds it
\* not yet finalized.
GoneIsQuiet == ~seen.late => \A f \in Fn : dev[f].st # "live" => dev[f].irq = "none"

CanReset(f) ==
    \/ hw.kind[f].own \/ hw.kind[f].works
    \/ hw.info /\ \A g \in On : Owned(dev, g)

\* At the end of a machine reset every device has INTx and does nothing, and the
\* guest's state is gone if there is a way to reset the device and the kernel did not refuse.
ResetIsComplete ==
    [][~Idle /\ parts' = <<>> =>
         \A f \in Live(dev) : /\ dev'[f].irq = "intx" /\ dev'[f].act = "quiet"
                              /\ dev'[f].dirty => seen.refused \/ ~CanReset(f)]_vars

\* Outside of machine resets no command, plugging or removal for one device touches
\* another that the guest may be using.
OthersUndisturbed ==
    [][Idle /\ parts' = <<>> =>
         \A f, g \in Fn : dev'[f] # dev[f] /\ dev'[g] # dev[g] => f = g]_vars

=============================================================================
