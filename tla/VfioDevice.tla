------------------------------ MODULE VfioDevice ------------------------------
(***************************************************************************)
(* A vfio-pci device from its realization to the end of its object: the    *)
(* steps of vfio_realize, each of which may fail, and what they take and   *)
(* give back; the MSI-X table that must stay out of the mapped part of its *)
(* BAR; the notifiers by which the kernel reports an error and asks for    *)
(* the device back.  A unit of a BAR is half a page.                       *)
(***************************************************************************)
EXTENDS Naturals, Sequences

CONSTANTS
    Cards,      \* the physical devices, records of
                \*   bar     the size of the BAR with the MSI-X table, in units
                \*   table, entries  where the table is, and its size (0: no MSI-X)
                \*   pba     whether the PBA is inside its BAR
                \*   known   whether QEMU knows where it is otherwise
                \*   pin     whether it has INTx, which a virtual function has not
                \*   aer     whether the kernel reports errors of the device
    Fails       \* what may fail, of {"open", "setup", "caps", "intx", "err", "req"}

VARIABLES
    card,       \* the device
    stage,      \* the next step of vfio_realize, then "live", "failed", "exited", "freed"
    held,       \* what is taken and not given back
    mmaps,      \* region->mmaps of the BAR, pairs of offset and size
    handlers,   \* the notifiers with a handler in QEMU's main loop, of {"err", "req"}
    events,     \* the notifiers that are signalled
    stopped,    \* the VM is stopped for an error
    asked       \* qdev_unplug was called

vars == <<card, stage, held, mmaps, handlers, events, stopped, asked>>
live == <<handlers, events, stopped, asked>>

Page == 2

\* Every device starts like this.
Starts ==
    /\ stage = "open" /\ held = {} /\ mmaps = <<<<0, card.bar>>>>
    /\ handlers = {} /\ events = {} /\ stopped = FALSE /\ asked = FALSE

Init == card \in Cards /\ Starts

-----------------------------------------------------------------------------
(* vfio_realize *)

Does(from, to) == stage = from /\ stage' = to /\ UNCHANGED <<card, live>>
MayFail(what) == what \in Fails

\* vfio_get_group, vfio_get_device
Open ==
    \/ /\ Does("open", "populate") /\ held' = {"device"} /\ UNCHANGED mmaps
    \/ /\ MayFail("open") /\ Does("open", "failed") /\ UNCHANGED <<held, mmaps>>

\* vfio_populate_device, and the copy of the config space
Populate ==
    \/ /\ Does("populate", "ids") /\ held' = held \cup {"regions", "bits"}
       /\ UNCHANGED mmaps
    \/ /\ MayFail("setup") /\ Does("populate", "failed")
       /\ held' \in {held, held \cup {"regions"}} /\ UNCHANGED mmaps

\* The ids a user has set.
SetIds ==
    \/ Does("ids", "msix") /\ UNCHANGED <<held, mmaps>>
    \/ MayFail("setup") /\ Does("ids", "failed") /\ UNCHANGED <<held, mmaps>>

RoundDown(n) == (n \div Page) * Page
RoundUp(n) == RoundDown(n + Page - 1)

\* Mutant of FixupMmaps: the end of the table is rounded down.
BugFixupMmaps ==
    LET size  == card.bar
        start == RoundDown(card.table)
        end   == RoundDown(card.table + card.entries)
    IN  IF mmaps # <<<<0, size>>>> THEN mmaps
        ELSE IF start = 0 THEN IF end >= size THEN <<>> ELSE <<<<end, size - end>>>>
        ELSE IF end >= size THEN <<<<0, start>>>>
        ELSE <<<<0, start>>, <<end, size - end>>>>

\* vfio_pci_fixup_msix_region
FixupMmaps ==
    LET size  == card.bar
        start == RoundDown(card.table)
        end   == RoundUp(card.table + card.entries)
    IN  IF mmaps # <<<<0, size>>>> THEN mmaps
        ELSE IF start = 0 THEN IF end >= size THEN <<>> ELSE <<<<end, size - end>>>>
        ELSE IF end >= size THEN <<<<0, start>>>>
        ELSE <<<<0, start>>, <<end, size - end>>>>

\* vfio_msix_early_setup: only the place of the PBA is looked at.
EarlySetup ==
    \/ /\ card.entries = 0 /\ Does("msix", "bars") /\ UNCHANGED <<held, mmaps>>
    \/ /\ card.entries > 0 /\ (card.pba \/ card.known)
       /\ Does("msix", "bars") /\ held' = held \cup {"msix"} /\ mmaps' = FixupMmaps
    \/ /\ card.entries > 0 /\ ((~card.pba /\ ~card.known) \/ MayFail("setup"))
       /\ Does("msix", "failed") /\ UNCHANGED <<held, mmaps>>

\* vfio_bars_setup
BarsSetup ==
    /\ Does("bars", "caps") /\ held' = held \cup {"bars"} /\ UNCHANGED mmaps

\* vfio_teardown_msi, vfio_bars_exit
Teardown == held \ {"bars", "msi"}

\* vfio_add_capabilities: the core refuses an MSI-X table outside of its BAR.
AddCapabilities ==
    \/ /\ card.entries = 0 \/ card.table + card.entries <= card.bar
       /\ Does("caps", "intx") /\ held' = held \cup {"msi"} /\ UNCHANGED mmaps
    \/ /\ (card.entries > 0 /\ card.table + card.entries > card.bar) \/ MayFail("caps")
       /\ Does("caps", "failed") /\ held' = Teardown /\ UNCHANGED mmaps

\* Mutant of EnableIntx: the teardown is forgotten.
BugEnableIntx ==
    \/ /\ Does("intx", "err") /\ held' = held \cup {"timer", "intx"} /\ UNCHANGED mmaps
    \/ /\ card.pin /\ MayFail("intx") /\ Does("intx", "failed")
       /\ held' = held \cup {"timer"} /\ UNCHANGED mmaps

\* The timer of INTx, vfio_intx_enable.  When it fails the timer stays.
EnableIntx ==
    \/ /\ Does("intx", "err")
       /\ held' = IF card.pin THEN held \cup {"timer", "intx"} ELSE held
       /\ UNCHANGED mmaps
    \/ /\ card.pin /\ MayFail("intx") /\ Does("intx", "failed")
       /\ held' = Teardown \cup {"timer"} /\ UNCHANGED mmaps

\* A notifier that cannot be set up is done without.
Registers(from, to, n, possible) ==
    /\ stage = from /\ stage' = to
    /\ \/ possible /\ handlers' = handlers \cup {n}
       \/ (~possible \/ MayFail(n)) /\ UNCHANGED handlers
    /\ UNCHANGED <<card, held, mmaps, events, stopped, asked>>

RegisterErr == Registers("err", "req", "err", card.aer)
RegisterReq == Registers("req", "live", "req", TRUE)

Realize == \/ Open \/ Populate \/ SetIds \/ EarlySetup \/ BarsSetup \/ AddCapabilities
           \/ EnableIntx \/ RegisterErr \/ RegisterReq

-----------------------------------------------------------------------------
(* The end *)

Rest == <<card, mmaps, stopped, asked>>

\* Both notifiers are closed, what they were signalled is gone.
ExitHandlers == handlers' = {} /\ events' = {}

\* vfio_exitfn
Exit ==
    /\ stage = "live" /\ stage' = "exited"
    /\ ExitHandlers /\ held' = Teardown \ {"intx", "timer"}
    /\ UNCHANGED Rest

\* vfio_instance_finalize
Finalize ==
    /\ stage \in {"exited", "failed"} /\ stage' = "freed"
    /\ held' = held \ {"device", "regions", "bits", "msix"}
    /\ UNCHANGED <<card, mmaps, handlers, events, stopped, asked>>

-----------------------------------------------------------------------------
(* The kernel's notifications *)

Signals(n) ==
    /\ n \in handlers /\ stage \in {"req", "live"}
    /\ events' = events \cup {n}
    /\ UNCHANGED <<card, stage, held, mmaps, handlers, stopped, asked>>

\* vfio_err_notifier_handler: vm_stop
ErrHandler ==
    /\ stage = "live" /\ "err" \in events \cap handlers
    /\ events' = events \ {"err"} /\ stopped' = TRUE
    /\ UNCHANGED <<card, stage, held, mmaps, handlers, asked>>

\* Mutant of ReqHandler: it looks whether the VM runs before it reads the event.
BugReqHandler ==
    /\ stage = "live" /\ "req" \in events \cap handlers /\ ~stopped
    /\ events' = events \ {"req"} /\ asked' = TRUE
    /\ UNCHANGED <<card, stage, held, mmaps, handlers, stopped>>

\* vfio_req_notifier_handler: qdev_unplug
ReqHandler ==
    /\ stage = "live" /\ "req" \in events \cap handlers
    /\ events' = events \ {"req"} /\ asked' = TRUE
    /\ UNCHANGED <<card, stage, held, mmaps, handlers, stopped>>

Next ==
    \/ Realize \/ Exit \/ Finalize
    \/ \E n \in {"err", "req"} : Signals(n)
    \/ ErrHandler \/ ReqHandler

Spec == Init /\ [][Next]_vars

\* A realization goes on to its end, and QEMU's main loop comes to its handlers.
Fairness == WF_vars(Realize) /\ WF_vars(ErrHandler) /\ WF_vars(ReqHandler)
FairSpec == Spec /\ Fairness

-----------------------------------------------------------------------------
(* Properties *)

Mapped(u) == \E i \in DOMAIN mmaps : mmaps[i][1] <= u /\ u < mmaps[i][1] + mmaps[i][2]
InTable(u) == card.table <= u /\ u < card.table + card.entries

\* The guest reaches exactly the pages without an entry of the MSI-X table behind
\* QEMU's back, as soon as its device is realized.
TableIsTrapped ==
    stage = "live" =>
        \A u \in 0..(card.bar - 1) :
           Mapped(u) <=> ~\E t \in 0..(card.bar - 1) : InTable(t) /\ t \div Page = u \div Page

\* When the object is gone the host's device is free, and the main loop has no handler
\* of it, from whatever step the realization was undone.  (The timer is not freed when
\* INTx could not be enabled.)
FreedHoldsNothing ==
    /\ stage \in {"failed", "exited", "freed"} => handlers = {} /\ events = {}
                                                 /\ "bars" \notin held /\ "intx" \notin held
    /\ stage = "freed" => held \subseteq {"timer"}

\* What the kernel signals is acted on, also when the VM has stopped: the VM stops for
\* an error, the guest is asked for the device, or the device goes.
SignalsAreServed ==
    /\ "err" \in events ~> stopped \/ stage \in {"exited", "freed"}
    /\ "req" \in events ~> asked \/ stage \in {"exited", "freed"}

=============================================================================
