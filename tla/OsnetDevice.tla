----------------------------- MODULE OsnetDevice -----------------------------
(***************************************************************************)
(* The life of a vfio-pci device in the modified QEMU: device_add creates, *)
(* realizes and plugs it in one go; osnet-vfio-nic-create only creates it, *)
(* the top half of its realization opens the host's NIC, the bottom half   *)
(* tells the guest and registers the device's state, which is not          *)
(* migratable.  device_del asks the guest, whose ejection (or a reset of   *)
(* the machine) removes the device.  The object is finalized later, when   *)
(* the last view of its memory regions is gone, and gives the NIC back     *)
(* only then.  Monitor commands run under the big lock, each is a step.    *)
(***************************************************************************)
EXTENDS FiniteSets

CONSTANTS
    Obj,        \* bound: the device objects in memory at a time
    Id,         \* the ids commands name
    Nic,        \* the host's NICs
    Fails,      \* what may fail, of {"add", "top", "bottom"}
    Careless    \* what an operator may do and the agents do not, of
                \*   "missing"  a command for an id nobody has
                \*   "order"    a bottom half that does not follow a top half
                \*   "busy"     a top half for a NIC that QEMU still holds
                \*   "early"    a reset while a device is merely created

ASSUME FailsAssumption == /\ Fails \subseteq {"add", "top", "bottom"}
                          /\ Careless \subseteq {"missing", "order", "busy", "early"}
ASSUME ObjAssumption   == "none" \notin Obj /\ Nic # {}

VARIABLES
    alive,      \* the objects that are not finalized
    named,      \* what find_device_state finds under an id
    opts,       \* the ids with QemuOpts of their own
    host,       \* the "host" property of an object: its NIC
    vfio,       \* how far vfio_realize got: "open" has the group and the device's
                \*   file, "config" the copy of the config space too
    realized,   \* DeviceState.realized
    built,      \* realized by its class and not unrealized since: handlers, timers
                \*   and notifiers of QEMU point to the object
    plugged,    \* the guest was told of the device
    vmsd,       \* the device's state is registered
    deleted,    \* DeviceState.pending_deleted_event
    asked,      \* the guest was asked to eject the device
    fault,      \* how QEMU crashed
    careful     \* history: no careless command so far, and no half that failed

objVars == <<alive, named, opts, host>>
vars == <<objVars, vfio, realized, built, plugged, vmsd, deleted, asked, fault, careful>>

None == "none"
Devices == {named[i] : i \in Id} \ {None}     \* the objects with a parent
Holds(o) == vfio[o] # "none"

\* Mutant of Busy: a device leaves the list of its group when it is unrealized.
BugBusy(n) == \E p \in alive : p \in built /\ host[p] = n

\* "device is already attached": the group's list has a device of that name.
Busy(n) == \E p \in alive : Holds(p) /\ host[p] = n

Init ==
    /\ alive = {} /\ named = [i \in Id |-> None] /\ opts = {}
    /\ host = [o \in Obj |-> CHOOSE n \in Nic : TRUE] /\ vfio = [o \in Obj |-> "none"]
    /\ realized = {} /\ built = {} /\ plugged = {} /\ vmsd = {}
    /\ deleted = {} /\ asked = {} /\ fault = {} /\ careful = TRUE

-----------------------------------------------------------------------------
(* Realization *)

\* How the part of vfio_realize after the opening of the device may fail: before
\* the copy of the config space and after it.  What was opened stays open.
SetupFails == {"open", "config"}

\* How vfio_realize may fail.
VfioFails(n) == IF Busy(n) THEN {"none"} ELSE {"none"} \cup SetupFails

\* A new object for the NIC n under the id i.  A second device with the id of
\* another is refused ("Duplicate ID") before anything is created.
Creates(o, i, n) ==
    /\ o \notin alive /\ i \notin opts
    /\ alive' = alive \cup {o} /\ host' = [host EXCEPT ![o] = n]
    /\ named' = [named EXCEPT ![i] = o] /\ opts' = opts \cup {i}

\* Mutant of OsnetCreate: the device is taken for realized when it is created.
BugOsnetCreate(o, i, n) ==
    /\ Creates(o, i, n) /\ realized' = realized \cup {o}
    /\ UNCHANGED <<vfio, built, plugged, vmsd, deleted, asked, fault, careful>>

OsnetCreate(o, i, n) ==
    /\ Creates(o, i, n)
    /\ UNCHANGED <<vfio, realized, built, plugged, vmsd, deleted, asked, fault, careful>>

DeviceAdd(o, i, n) ==
    /\ Creates(o, i, n) /\ ~Busy(n)
    /\ vfio' = [vfio EXCEPT ![o] = "config"]
    /\ realized' = realized \cup {o} /\ built' = built \cup {o}
    /\ plugged' = plugged \cup {o} /\ vmsd' = vmsd \cup {o}
    /\ deleted' = deleted \ {o}
    /\ UNCHANGED <<asked, fault, careful>>

\* The NIC cannot be opened, or a later part of the realization fails and is
\* undone: the object loses its parent and the id is free again.
DeviceAddFails(o, i, n) ==
    /\ o \notin alive /\ i \notin opts
    /\ "add" \in Fails \/ Busy(n)
    /\ alive' = alive \cup {o} /\ host' = [host EXCEPT ![o] = n]
    /\ \E r \in VfioFails(n) : vfio' = [vfio EXCEPT ![o] = r]
    /\ UNCHANGED <<named, opts, realized, built, plugged, vmsd, deleted, asked, fault, careful>>

\* A command for an id without a device follows a null pointer.
NoDevice(i) ==
    /\ "missing" \in Careless /\ named[i] = None
    /\ fault' = fault \cup {"null"} /\ careful' = FALSE
    /\ UNCHANGED <<objVars, vfio, realized, built, plugged, vmsd, deleted, asked>>

\* Mutant of TopHalf: the registration of the state comes before the return.
BugTopHalf(i) ==
    /\ named[i] # None /\ named[i] \notin realized
    /\ realized' = realized \cup {named[i]}
    /\ ~Busy(host[named[i]]) /\ vmsd' = vmsd \cup {named[i]}
    /\ vfio' = [vfio EXCEPT ![named[i]] = "config"] /\ built' = built \cup {named[i]}
    /\ UNCHANGED <<objVars, plugged, deleted, asked, fault, careful>>

\* The command takes the device for realized whatever became of the realization.
TopHalf(i) ==
    /\ named[i] # None /\ named[i] \notin realized
    /\ realized' = realized \cup {named[i]}
    /\ LET o == named[i] IN
       \/ /\ ~Busy(host[o])
          /\ vfio' = [vfio EXCEPT ![o] = "config"] /\ built' = built \cup {o}
          /\ UNCHANGED careful
       \/ /\ IF Busy(host[o]) THEN "busy" \in Careless ELSE "top" \in Fails
          /\ \E r \in VfioFails(host[o]) : vfio' = [vfio EXCEPT ![o] = r]
          /\ careful' = FALSE /\ UNCHANGED built
    /\ UNCHANGED <<objVars, plugged, vmsd, deleted, asked, fault>>

\* A bottom half that follows a top half; nothing in the command looks at that.
InOrder(o) == o \in realized \ plugged
MayBottomHalf(o) == InOrder(o) \/ "order" \in Careless

BottomHalf(i) ==
    /\ named[i] # None /\ MayBottomHalf(named[i])
    /\ plugged' = plugged \cup {named[i]} /\ vmsd' = vmsd \cup {named[i]}
    /\ deleted' = deleted \ {named[i]} /\ careful' = (careful /\ InOrder(named[i]))
    /\ UNCHANGED <<objVars, vfio, realized, built, asked, fault>>

\* Mutant of Unrealizes: the class is not asked to unrealize.
BugUnrealizes(S) == UNCHANGED <<built, fault>>

\* Undoing the realization of objects their class has not realized crashes.
Unrealizes(S) ==
    /\ built' = built \ S
    /\ fault' = IF S \subseteq built THEN fault ELSE fault \cup {"unrealize"}

\* The hot plug handler or the registration fails; the device stays "realized".
BottomHalfFails(i) ==
    /\ "bottom" \in Fails /\ named[i] # None /\ MayBottomHalf(named[i])
    /\ plugged' \in {plugged, plugged \cup {named[i]}} /\ careful' = FALSE
    /\ Unrealizes({named[i]})
    /\ UNCHANGED <<objVars, vfio, realized, vmsd, deleted, asked>>

-----------------------------------------------------------------------------
(* Removal *)

DeviceDel(i) ==
    /\ named[i] # None /\ asked' = asked \cup {named[i]}
    /\ UNCHANGED <<objVars, vfio, realized, built, plugged, vmsd, deleted, fault, careful>>

\* Mutant of Unparents: the event is decided on before the device is unrealized,
\* which is what asks for it.
BugUnparents(S) ==
    LET R == S \cap realized IN
    /\ named' = [i \in Id |-> IF named[i] \in S THEN None ELSE named[i]]
    /\ opts' = opts \ {i \in Id : named[i] \in S}
    /\ realized' = realized \ R /\ vmsd' = vmsd \ R /\ Unrealizes(R)
    /\ plugged' = plugged \ S /\ asked' = asked \ S
    /\ UNCHANGED <<alive, host, vfio, deleted, careful>>

\* Objects lose their parent: what is realized is unrealized, and DEVICE_DELETED
\* is sent for it; their QemuOpts go.
Unparents(S) ==
    LET R == S \cap realized IN
    /\ named' = [i \in Id |-> IF named[i] \in S THEN None ELSE named[i]]
    /\ opts' = opts \ {i \in Id : named[i] \in S}
    /\ realized' = realized \ R /\ vmsd' = vmsd \ R /\ Unrealizes(R)
    /\ deleted' = deleted \cup R
    /\ plugged' = plugged \ S /\ asked' = asked \ S
    /\ UNCHANGED <<alive, host, vfio, careful>>

\* The guest answers the request.
GuestEjects(o) == o \in asked \cap plugged /\ Unparents({o})

\* Resetting a device reads its config space through the emulated bits.
Resettable(o) == vfio[o] = "config"

\* osnet-vfio-nic-reset
NicReset(i) ==
    /\ named[i] # None /\ "early" \in Careless /\ ~Resettable(named[i])
    /\ fault' = fault \cup {"reset"} /\ careful' = FALSE
    /\ UNCHANGED <<objVars, vfio, realized, built, plugged, vmsd, deleted, asked>>

\* A reset of the machine resets every child of the bus, realized or not, and
\* carries out the removals that were asked for.
SystemReset ==
    /\ \A o \in Devices : Resettable(o)
    /\ asked # {} /\ Unparents(asked)

EarlyReset ==
    /\ "early" \in Careless /\ \E o \in Devices : ~Resettable(o)
    /\ fault' = fault \cup {"reset"} /\ careful' = FALSE
    /\ UNCHANGED <<objVars, vfio, realized, built, plugged, vmsd, deleted, asked>>

\* The last reference to the object is dropped.
Finalize(o) ==
    /\ o \in alive \ Devices
    /\ alive' = alive \ {o} /\ vfio' = [vfio EXCEPT ![o] = "none"]
    /\ realized' = realized \ {o} /\ deleted' = deleted \ {o}
    /\ UNCHANGED <<named, opts, host, built, plugged, vmsd, asked, fault, careful>>

Command(i) ==
    \/ \E o \in Obj, n \in Nic : \/ OsnetCreate(o, i, n)
                                 \/ DeviceAdd(o, i, n) \/ DeviceAddFails(o, i, n)
    \/ TopHalf(i) \/ BottomHalf(i) \/ BottomHalfFails(i)
    \/ DeviceDel(i) \/ NicReset(i) \/ NoDevice(i)

Next == /\ fault = {}
        /\ \/ \E i \in Id : Command(i)
           \/ \E o \in Obj : GuestEjects(o) \/ Finalize(o)
           \/ SystemReset \/ EarlyReset

Spec == Init /\ [][Next]_vars

-----------------------------------------------------------------------------
(* Properties *)

\* Types: the sets of objects and what ids, NICs and objects map to.
TypeOK ==
    /\ alive \subseteq Obj /\ named \in [Id -> Obj \cup {None}] /\ opts \subseteq Id
    /\ host \in [Obj -> Nic] /\ vfio \in [Obj -> {"none", "open", "config"}]
    /\ realized \subseteq Obj /\ built \subseteq Obj /\ plugged \subseteq Obj
    /\ vmsd \subseteq Obj /\ deleted \subseteq Obj /\ asked \subseteq Obj
    /\ fault \subseteq {"null", "unrealize", "reset"} /\ careful \in BOOLEAN

\* A NIC is open in one device only, although devices give their NIC back long
\* after the guest and the monitor have seen the last of them.
NicHeldOnce == \A o, p \in alive : Holds(o) /\ Holds(p) /\ host[o] = host[p] => o = p

\* With commands in the agents' order no handler, notifier, slot or registered state
\* points to an object that has left its parent and may be freed at any time.
NothingDangles == careful => built \cup plugged \cup vmsd \subseteq Devices

\* With commands in the agents' order a NIC keeps its QEMU from migrating exactly as
\* long as the guest has it: a device between its halves does not.
BlocksMigrationWhilePlugged == careful => vmsd = plugged

\* An id is refused as a duplicate only while a device has it, after failures too.
IdsComeBack == opts = {i \in Id : named[i] # None}

\* No order of the agents' commands, answers of the guest, resets and finalizations
\* undoes a realization twice.
NoCrash == careful => fault = {}

\* Who waits for DEVICE_DELETED of a NIC the guest had is not left waiting, as long as
\* the commands come in the agents' order.
DeletionIsTold ==
    [][careful' => \A o \in plugged \ plugged' : o \in deleted' \ deleted]_vars

\* "realized: Indicates whether the device has been fully constructed."
RealizedIsConstructed == realized \subseteq built
=============================================================================
