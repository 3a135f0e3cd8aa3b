# A verification project for pci-passthrough

The repository makes network traffic of a KVM guest fast, by giving the guest a
physical NIC through VFIO, and keeps such a guest migratable. It holds

* agents (C daemons and shell scripts) that migrate a guest with a pass-through NIC,
* a modified QEMU 2.9.1 that splits the hot plug of the NIC into two halves,
* a guest kernel module, did.ko, that lets the guest take timer interrupts and IPIs
  without VM exits,
* modules and scripts for reading VMX configuration and for experiments.

`src/code/` has the program's own code. The large `qemu-2.9.1-modified-files`
directory holds the QEMU files the project changed, each in full.

Run a model with `tlc -config <run>.cfg <Module>.tla` (section 4 names the module of
each run), a proof with `tlapm <Module>_proofs.tla`. `PROJECT.json` lists the
components, runs, mutants and hazards, and the source lines of every definition.

## 1. The system's parts

Every part keeps state, offers operations and meets the others as follows.

### Source migration agent
`src/code/live-migration-automation/source_migration_agent.c` and its scripts. One run of the
program is one migration.
* State: the socket to the guest agent, the socket to the destination agent, its own
  server socket on port 3535, the place in `main`.
* Operations: tell the guest agent "prepare" and wait for its answer; tell the
  destination "prepare"; listen, accept and read "prepared"; unplug the NIC and bind
  it back to the host's driver; `migrate`; send "hotplug" and "Done" to the
  destination; poll the state of the migration.
* Hard: it listens only after it has asked, it polls with no bound, and the
  operator may end it between any two steps.
* Correct if: the NIC leaves the guest before the guest migrates and after its
  traffic left the NIC; a migration that is asked for ends with the guest at the
  destination.

`source_migration_agent_alb.c`, the agent of the adaptive load balancer, does the same
once for all and then serves one migration after another: after "prepared" it runs the
migration and goes back to `accept`. It sends no "hotplug", only the "Done" of
`migration_status.sh`.

### Destination migration agent
`destination_migration_agent.c` and its scripts: a server loop for all migrations to
its host.
* State: the server socket on port 9797, a second socket to the guest agent that is
  created once for the whole life of the agent, QEMU with its NIC.
* Operations: "prepare" (set the NIC up for VFIO, start QEMU waiting for a guest,
  tell the source "prepared"), "hotplug" (create the device, run the top half of its
  realization), "Done" (connect to the guest agent, run the bottom half).
* Hard: three messages of one migration are three connections with an accept queue
  between; a message of another migration may come next.
* Correct if: a device is plugged only into a QEMU that has the guest; a failed
  migration leaves an agent that serves again.

### Guest migration agent
`guest_migration_agent.c` and the bonding scripts, inside the guest: it migrates
with the guest, with its sockets.
* State: server sockets on 7777 and 1818, the bonding driver's slaves and active slave.
* Operations: on "prepare" take the NIC out of the bond and answer; on the connection
  from the destination, wait for the NIC and put it back into the bond.
* Correct if: the guest's traffic uses only an interface that exists and is up.

### QEMU device life cycle
`hw/core/qdev.c`, `qdev-monitor.c` and `hw/vfio/pci.c` of the modified QEMU: the NIC is
created (`osnet-vfio-nic-create`), realized in a top half that opens the VFIO
device, and plugged by a bottom half that tells the guest.
* State: per device whether it exists, has its parent bus, is realized, holds its
  VFIO group and file descriptor, has been plugged, has its unmigratable VMState
  registered, and is to be unplugged.
* Hard: commands of the monitor in any order, and at any time the guest's answer to
  the request to unplug.

### vfio-pci interrupts
INTx and its mmap timer, MSI and MSI-X vectors with their KVM routes, in `hw/vfio/pci.c`.
* Hard: eventfds that are signalled while their route changes, partial failure of one
  of many ioctls.
* Correct if: a line that is asserted is served, no masked line is forgotten, an event of
  an open vector arrives, a vector that bypasses QEMU carries the guest's current message.

### vfio-pci resets
* State: the groups with their devices, what the kernel says of the bus, each device's
  `needs_reset` and ways to be reset.
* Operations: the reset of one device (its own, the bus's, through D3), the handler of
  machine resets, which resets buses with several devices.
* Hard: two paths of one machine reset reach the same bus, in an order that depends on
  which was registered first; devices that are removed but not finalized are still listed.
* Correct if: a bus is reset once, all its devices are switched off before and have INTx
  after, and other devices are left alone outside of machine resets.

### vfio-pci set-up
* State: the copy of the config space, the mmaps of a BAR, what `vfio_realize` has taken,
  the notifiers for errors and for the request to give the device back.
* Operations: the steps of realization, each with its failure, `vfio_exitfn`, finalization,
  the rebuilding of the capability chains, the cutting of the MSI-X table out of its BAR,
  the two notifiers' handlers.
* Correct if: the guest sees the device's capabilities without the dropped ones and in the
  same order, no entry of the MSI-X table is reached behind QEMU's back, what was taken is
  given back from whatever step, and the kernel's notifications are acted on.

### QEMU monitor
`monitor.c`, and the part of `hmp.c` that suspends a monitor.
* State: of each limited event the timer and the event that waits; of a human monitor its
  focus, `suspend_cnt`, output buffer and watch; the descriptors by name and in sets.
* Operations: raising events, their timers, negotiation; the multiplexer's focus, opening and
  closing of the device, commands that wait for a migration, output; `getfd`, `closefd`,
  `add-fd`, `remove-fd`, opening and closing of copies, clients that come and go.
* Hard: events come from threads and clients at any time, numbers of descriptors are used
  again at once, two reasons to suspend share one counter.
* Correct if: no event comes too early and the latest is not lost, input is read exactly
  when it may be, output is not forgotten, every open descriptor has one owner.

### Direct interrupt delivery module
`src/code/guest-share-pid/did.c`, driven by `did.sh` through `run_did.c`.
* State: for each CPU its posted-interrupt descriptor, the saved timer handler and
  clock factor, whether it is set up; the saved send functions of the APIC driver.
* Operations: set a CPU's timer up and restore it, take the IPI functions over and
  give them back, set and restore the physical APIC id, stop and start the host's
  intercept of the ICR; the timer interrupt handler; the four functions that send IPIs.
* Hard: a word in memory that the module, the devices and the host all write, the
  first with a plain read and write; interrupts between any two instructions; a
  script that does one CPU after another while all CPUs run.
* Correct if: no interrupt is lost, nothing of the module is left when it is
  disabled, no pointer is used before it is set.

### VMCS and VMX configuration, experiments
`vmcs-configuration`, `vmx-configuration`: one register read and printed or one field
written per call. `run_vm_vfio_nic.sh`, `setup_vfio_pci_nic.sh` and the `misc` and
plotting scripts are command lines an operator enters.

## 2. Plan

The modules, in the order of their weight for the system. What is written is marked.

| # | module | what | composes | state |
|---|---|---|---|---|
| 1 | `PassthroughHandover` | what the agents promise: the traffic leaves the NIC, the NIC leaves the guest, the guest moves, and all comes back | | written |
| 2 | `MigrationAgents` | the three agents, their sockets, scripts and machines | implements 1 | written |
| 3 | `Did` | did.ko and did.sh | | written |
| 4 | `OsnetDevice` | the device life cycle with the hot plug in halves | | written |
| 5 | `VfioIntx` | INTx, its acceleration and its mmap timer | | written |
| 6 | `VfioMsi` | interrupt modes, MSI and MSI-X vectors | | written |
| 7 | `VfioReset` | resets of one device and of a bus of devices in groups | | written |
| 8 | `VfioCaps` | the capability chains, rebuilt in place, against the physical chains | | written |
| 9 | `VfioDevice` | the steps of realization and what they hold, the MSI-X table in its BAR, the notifiers | | written |
| 10 | `VfioPci` | 7, 8 and 9 side by side, which have no state in common | 7, 8, 9 | written |
| 11 | `MonitorEvents`, `MonitorHmp`, `MonitorFds` | limited events, the human monitor, descriptors; `Monitor` has them side by side | | written |
| 12 | a composition of 2 and 4 | the agents' commands meet the device life cycle, and the `Careless` habits of 4 are shown not to occur | 2, 4 | left |

Of the properties that the runs check, every safety invariant, every action property and the
refinement of 1 by 2 is proved (section 5); liveness is left to TLC. Worth proving with 12, once
it is written: that the agents' commands come in the order that `OsnetDevice` calls careful.

## 3. How the modules correspond to the code

### MigrationAgents
A program counter per agent (`spc`, `dpc`, `gpc`) names the blocking call it is in;
every call of `connect`, `write`, `read`, `listen`, `accept` and `bind` and every
script is an action. `queue` is the accept queue of a port, `conn` a connection with
what is in flight each way; a connection belongs to a run of the source agent, so
that messages of an earlier run can arrive late. The machines are `qemu[h]`
(`run_destination_vm.sh` starts one, the migration moves the guest), `nic[h]`, `gnic`
(what the guest has) and `bond`. `shost` is the host the source agent runs on: the
hosts change roles from run to run. The runs in `alb` are those of the load balancer's
agent, which goes from `migrate` to `status` and back to its `accept`. Faults: `migrate` (the migration fails), `create`
(`osnet-vfio-nic-create` fails, and the top half then crashes QEMU), `kill` (the
operator ends the source agent between two calls), `reboot` (of the guest; the
operator does it when no agent works for the guest).

### Did
`phase`, `todo` and `cur` are the place in did.sh: it does one ioctl per CPU, one CPU
after another, while every CPU goes on. Each CPU has a thread (`pc`) that runs the
script's ioctl or sends an IPI, and the timer's handler (`isr`) that interrupts it.
`pir`, `notified`, `irr` are the posted-interrupt descriptor and what the CPU has
taken from it. `__set_bit` is two steps: the word is read into `word` and written
back. `fault` collects the uses of NULL or of the module's own saved pointers.

### OsnetDevice
An object of QEMU is in `alive` until it is finalized; `named` is the search for an id,
`vfio` how far `vfio_realize` got, `realized` the property, `built` what the class has
really set up, `plugged` whether the guest was told, `vmsd` the registered state that
makes QEMU unmigratable. The monitor's commands run under the big lock, so each is one
action; what the guest does (`GuestEjects`), resets and `Finalize` come at any
time. `Careless` names what QEMU allows an operator and the agents never do; the history
variable `careful` says that nothing of the kind, and no half that failed, has come so far.

### VfioIntx
A handler that takes several system calls during which the host, KVM and the guest go
on is a sequence of actions: `op` is the next one. So `vfio_intx_update` is
`IntxReroute`, `IntxUpdate`, `UpdateDeassigns`, `IntxEnableKvm`, `AssignIrqfd`, `LetThemRip`,
or one of the ways out. While `op` is not "idle" the big lock is held, and QEMU's
other handlers and the guest's trapped accesses wait. `masked` and `ev` are the host's
mask and the eventfd, `irqfd` and `asserted` KVM's side, `pending` intx.pending and
the level QEMU asserts, which are always equal. Reassigning KVM's two eventfds is one action: an EOI
between the two calls stays in the second eventfd until the host gets it.

### VfioMsi
`dev` is what QEMU keeps (`nr`, `vec`, `vpend`, `pba`) and which eventfd the host signals
for each vector (`trig`); operators such as `DoUse` and `Release` are the functions of the
code and map a `dev` to a `dev`. `cap`, `fmask`, `tmask`, `tmsg` are what the guest programmed. The MSI-X core
(`hw/pci/msix.c`, not in the repository) is modelled from the way the code uses it:
it calls the notifiers for vectors that open or close, in ascending order, and keeps
the pending bits `cpend`. The opening of all vectors, of which one may grow the array for the next
(`UseAll`), is a recursive function of the number of vectors done; the closing is a set. `vfio_pci_write_config` runs under the big lock, so each
write of the guest is one action; the device fires between any two.

### VfioReset
`dev` is what QEMU keeps of each function of the bus, also of a device that is "gone" (unrealized,
or never realized) and waits for its finalization, and whether the function does DMA or sleeps.
A reset is an operator on the devices, named as in the code (`PreReset`, `HotReset`, `PciReset`),
because a handler runs under the big lock; a reset of the machine is a sequence of such
steps, with removals between them. `parts` are its two parts, the handler and the devices, in
either order; `seen` records what it met. The kernel refuses by function, by bus or not at all.

### VfioCaps
The walk of `vfio_add_std_cap` is one action per frame on the way down (`Descend`) and up
(`Ascend`), as the copy of the config space (`cfg`) that is read is the one that is rebuilt;
the extended chain is read from `cache`. Positions stand for offsets in their order, sizes for the space up
to the next capability. `Chain` is the set of positions that pointers lead to: what every set has that
has the head and with a position its next one. The core's functions (`pci_add_capability`, `pcie_add_capability`)
are modelled by where they link a capability in: at the head, at the tail.

### VfioDevice
`stage` is the next step of `vfio_realize`, `held` what is taken. A step that fails goes to the
label the code goes to (`Teardown` for `out_teardown`). `mmaps` is the list of the BAR's mapped parts
as pairs of offset and size, in units of half a page, so that the rounding matters. The eventfds
of the two notifiers are `events`, their handlers in the main loop `handlers`.

### MonitorEvents, MonitorHmp, MonitorFds
* `MonitorEvents`: a key of `monitor_qapi_event_state` is in the table while its timer is not `Off`,
  or while it is `firing`: taken off the timer list, its handler not yet called. `unlocked` says whether
  threads without the big lock raise events; if so `RaiseAborts` is the assertion that fails.
  `gap`, `rushed` and `owed` are histories of what a client saw.
* `MonitorHmp`: one flag for "something is in `outbuf`", because the code only asks whether it
  is empty. A device takes all, a part or nothing of what is written. Every command of the
  monitor returns before the next is read; only `migrate` without `-d` leaves it suspended, until
  `hmp_migrate_status_cb` sees the end.
* `MonitorFds`: `mon_fdsets` is the list, with the walks over it that find the place of an id. The
  kernel gives the lowest free number. `monitor_fdset_cleanup` is `Cleaned`, and `NotEmpty` what stays
  of the list when all its sets are cleaned.

## 4. What the runs check

| run | module | result |
|---|---|---|
| `agents` | `MigrationAgents` | three runs of either source agent with all faults: the NIC, the migration and the traffic stay in step, `PassthroughHandover` is implemented, the first migration finishes unless it fails or is killed, the destination agent serves again |
| `agents_lost_prepared` | `MigrationAgents` | violation: "prepared" may be lost |
| `agents_second_migration` | `MigrationAgents` | violation: the second "Done" hangs |
| `did_timer` | `MCDid` | enable_dtid and disable_dtid: handlers, factors and the timer's request stay consistent, due events are served |
| `did_ipi` | `MCDid` | enable_did and disable_did with IPIs: no NULL pointer, everything put back, IPIs arrive |
| `did_lost_request` | `MCDid` | violation: a request is overwritten |
| `device` | `MCOsnetDevice` | any commands in any order with any failure: a NIC is open once; as long as the commands come in the agents' order nothing dangles, migration is blocked exactly while the guest has the NIC, nothing crashes |
| `device_realized` | `MCOsnetDevice` | violation: "realized" without having been constructed |
| `intx_lines` | `VfioIntx` | no masked line is forgotten, no EOI missed, every asserted line served |
| `msi_vectors` | `VfioMsi` | bypassed vectors carry the current message, a mode that is left leaves nothing, no event of an open vector is lost |
| `vfio_pci` | `MCVfioPci` | resets: the bus is reset once, prepared and completely, others are undisturbed; capabilities: the chains match; set-up: the table is trapped, what was taken is given back, notifications are served |
| `monitor` | `MCMonitor` | events keep their rate and the latest arrives, the human monitor reads in turn and its output flows, descriptors have one owner |

Every property has a mutant: a `Bug...` operator in front of the definition it changes,
which is a plausible mistake in that code and breaks the property.

`VfioPci` and `Monitor` choose one of three components at the start (`world`) and keep the
others still: the components share no state, so a behaviour of one is a behaviour of the whole.
`MCVfioPci` and `MCMonitor` only give the constants their values.

### Bounds, and why they are enough
* `agents`: `MaxRuns = 3` is a migration forth and back and one more, so that each
  host is twice the source or twice the destination with what earlier runs left behind;
  `MaxBoots = 2` is a guest agent of the first boot and one of a reboot, which is what a later
  run needs to find a fresh one. `Backlog = 1`, the smallest accept queue: a second connection of
  another run is refused, the case the retries are for. `MigrationFinishes` speaks of the first
  run: a second meets the finding of `agents_second_migration`.
* `did_timer`: two CPUs, because every interaction is between two of them (the CPU the
  script is at and another, sender and target), with the timer firing on one; set-up and
  restoring repeat without bound. `did_ipi` adds one IPI at a time (`MaxPosts = 1`).
* `device`: three objects, two ids, two NICs: an id or a NIC can be taken by one device
  while the last holder waits for finalization and a third has another. Objects and
  ids are interchangeable (`Symmetry`, used with safety properties and with `DeletionIsTold`, which
  names no object). No counter bounds the commands.
* `intx_lines`: two GSIs and "off", five moves: enable, reroute away and back, disable and
  enable again. With and without `x-no-kvm-intx` and a timer, from `Init`.
* `msi_vectors`: three vectors: the growth of the vectors has one in front of and one behind
  the vector that grows them; two messages, an old one and a new one; six writes of the guest:
  enabling, opening, masking, changing, opening again and leaving.
* `vfio_pci`: pairs of functions of all combinations of four kinds, in one group or two, and
  triples where a function in the middle decides: with three a bus has a device before and
  behind the one that is reset, and a group QEMU does not own. Chains of three capabilities in
  any order of places, so that a chain runs forwards and backwards; extended chains that lose
  the first, the middle, the last or all. Tables at every half page of BARs of one, two and four
  pages, shorter and longer than a page. Nothing bounds the number of resets, removals or signals.
* `monitor`: two ports (limited one by one) and a watchdog (limited as a type), two values, `Rate = 2`
  ticks: one tick more than the shortest delay; three descriptors for two clients, two ids that a
  client may choose with a free one between them. Suspensions are bounded by the two causes.

### Assumptions of the runs
* `device`: four properties speak of behaviours in which `careful` still holds; after a careless command
  or a half that failed `NoCrash` or `NothingDangles` may fail, and `hazards` says at which line.
  `NicHeldOnce` holds without.
* `did_ipi` has `Delayed = FALSE`: a sender ends before the next line of the script. With TRUE a
  sender writes through a NULL descriptor.
* `did_timer` has `HcFail = {"setup"}`; with "factor" the old factor is lost. Without IPIs:
  with them the timer's request can be overwritten.
* `msi_vectors` lets the host grant at least one MSI vector; with `"msi"` in `Fails` the array of
  vectors is freed twice. Resets are those of the machine.
* `vfio_pci`: `GoneIsQuiet` excepts devices that a machine reset finds removed but not finalized (their
  INTx is enabled again), `FreedHoldsNothing` the mmap timer of a device whose INTx could not be enabled.
* `monitor`: `LatestIsSent` excepts the failed assertion of `RaiseAborts`; which threads raise limited
  events without the big lock is not in the repository.
* `CHECK_DEADLOCK FALSE` stands where the system may rest: the agents wait in `accept`, the bounded
  guests of `VfioMsi` have made their last write, QEMU may crash in `device` and `monitor`, a
  device is gone and a chain is built in `vfio_pci`.

### Fairness, and why the code justifies it
* Agents: weak fairness of the agents' steps and of the machines' work. They are processes that a
  kernel schedules, blocked only in the calls whose guard the action has. Failures, kills and the
  operator's start are not fair.
* `Did`: weak fairness of each CPU's script line, timer, notification, handler and sender.
* `VfioIntx`: weak fairness of the host's handler, of QEMU's main loop, of the running handler's
  next call and of the guest's EOI; strong fairness of the guest taking an asserted interrupt,
  because its own accesses may end the interrupt again and again before it is taken and
  a CPU with interrupts enabled takes one that keeps coming. Neither the device nor the
  user's changes nor the timer are fair.
* `VfioMsi`: weak fairness of QEMU's handler of each eventfd.
* `VfioDevice`: weak fairness of the realization, which is one function, and of the main loop's two handlers.
* `MonitorEvents`: weak fairness of the clock and of a handler whose timer was taken off the list;
  strong fairness of each timer being taken: while one fires the others cannot, but the list is
  sorted by the time of expiry, so one that is armed anew comes behind those that have run out.

## 5. What is proved

`tlapm` proves the following for every value of the constants that the named assumptions
allow, hence for any number of runs, objects, ids, NICs, vectors, functions, capabilities or descriptors.

* `MigrationAgents_proofs`
  * `TypeCorrect` (`[]TypeOK`, where an agent at work has the connection it works for), `OneGuest`
    (`[]OneGuestRuns`) and `TrafficSafe` (`[]TrafficHasInterface`), with runs of either source agent.
    `TypeOK` is inductive by itself, part by part, with a lemma for what each actor leaves alone.
    `OneGuestRuns` is not: a completing migration makes a second QEMU run. `GuestInv` adds that a QEMU that
    runs is the one at `vmhost`.
  * `PluggedSafe` (`[]PluggedWhereGuestRuns`). A message of an earlier run that comes late could plug a NIC
    where no guest is, so `HandoverInv` says what waits at each place: nothing behind a "Done" in a
    destination agent's queue (`LastInv`), which agents have nothing to do while the guest moves or leaves the
    NIC (`MovingInv`, `SourceInv`, `DestInv`), what a guest agent's connections are for (`KindInv`), and where
    the guest and its NIC are in each of these (`VmInv`, `NicInv`).
  * `LostSafe` (`LostOnlyWithoutDevice`): accept queues are first in, first out, and "hotplug" is sent before
    "Done", so the bottom half finds a device. `DeviceInv` says so for a "Done" that is due, `SentInv` for one not
    yet sent; `StartInv`, `TopInv` and `UnplugInv` say why the device does not go again.
  * `AgentsRefineHandover` (`Spec => HandoverSpec`): each action is a step of `PassthroughHandover` under
    the mapping, or leaves its variables alone; the guards of the abstract steps come from `HandoverInv`.
* `OsnetDevice_proofs`: `DeviceTypeCorrect`, `OneDevicePerNic`, `IdsAreReusable` whatever the commands
  and failures; and, as long as `careful` holds, `CarefulLeavesNothing`, `CarefulBlocks`,
  `CarefulDoesNotCrash`, `RemovalsAreTold`, which need no assumption on the constants because the history
  variable is in the properties. `DeviceInv` adds to the properties that finalized objects hold nothing and
  that named objects are alive, or else `Finalize` and `Creates` could make a second holder. The careful part
  adds `realized = built`: what unparenting undoes is found by the flag, so the flag has to be right; and
  for the events that no device that is plugged was told to be deleted (`Untold`).
* `VfioIntx_proofs`: `IntxTypeCorrect`, `PendingSafe`, `TrapsAreTimed`, `OneListener`, `MaskIsOwned`,
  `IntxLeaves`. The invariant `IntxInv` holds in the midst of handlers, where the properties say
  nothing: `Listeners` (who has the eventfd), `Places` (what each call finds), `RouteIsStored`,
  `PendingIsQemus`, `Owner` and `Traps`. `Owner` excepts the calls of `Quiet`, which start from a line
  QEMU has masked itself and end by unmasking it.
* `VfioMsi_proofs`: `BypassCurrent`, `OpenFire`, `LeaveNothing`, `NeverAborts`, and `NoFaultWithVectors` for
  hosts that grant at least one MSI vector, for any number of vectors and any refusals of KVM. `MsiInv` is what
  the guest programmed (`GuestType`), that QEMU's mode follows it (`ModeInv`), that each vector is served with its
  message (`Serves`, a predicate on a `dev`, so that it can be said of the one between two vectors) and `FaultInv`.
  What holds after the n-th vector is proved by induction: a set of counterexamples would have a least number
  (`LeastNumber`, from the well-foundedness of < on the naturals).
* `VfioPci_proofs`
  * Resets: `BusResetsArePrepared`, `GoneStaysQuiet`, `ResetsOnce`, `ResetsAll`, `NeighboursUndisturbed`. Lemmas on
    each operator say what one reset leaves alone (`Kept`) and what it does (`Gives`). That a bus reset is prepared
    rests on `Checked`: when every function of the bus has an owner in QEMU, the users that are prepared are all of
    QEMU's. `ResetInv` adds that devices are on the bus, and that a part of a machine reset has only listed (the
    handler) or live devices (the devices' part) left to do. `PlanInv` follows a machine's reset through its two
    parts: after a bus reset the other part finds no mark, or no bus that it may reset (`OnlyOnce`), and a device
    that is not clean is due in a part to come (`DueOrDone`).
  * The life of a device: `NothingIsKept`, whose invariant says of each thing at which steps it may be held;
    `TableStaysTrapped` for cards whose BARs are whole pages (`CardsAssumption`: a smaller one is not mapped
    at all), from the arithmetic of rounding (`PagesOfTable`) and from an invariant that says the BAR is whole
    until the table is cut out of it, once, and that only a table inside of it gets to the end.
  * Capabilities: `ChainsStayWhole`, for chains of any length without a loop (`ChipsAssumption`). `ChainsInv` says that
    the stack has a frame for each capability met on the way down, with the room that the whole chain leaves it;
    that on the way up the pointers lead to what is kept behind the frame (`GoingUp`), and over the extended chain to
    what is kept in front of the next one (`Ext`). `ChainIs` (pointers that lead to some capabilities reach their
    positions and no other) and `AppendLeads` (only the last one has no next) are the facts on lists, by induction as above.
  * `VfioPciIsSafe`: all of it for `PciSpec`, as a behaviour of the whole is one of each part.
* `Monitor_proofs`: `RateIsKept`, whose invariant relates the time since an emission to the time the key's timer
  has left, and a key that is firing to its full gap; `ReadsWhenFree`, by counting the causes of a suspension before
  and after the device's first opening, and `NothingIsForgotten`; all three for `MonitorSpec` in `MonitorIsSafe`.
* `MonitorFds_proofs`: `FdsOwned`, and `MonitorOwnsFds` for `MonitorSpec`. In `FdsInv` the list of the sets is ordered
  by id, or else a walk would miss a set and make its id a second time, and no open descriptor is without an
  owner (`NoneLost`), no owner has a closed one (`NoneClosed`), and none is another's too (`NoneShared`). There is a lemma
  for what an insertion, a replacement and a removal make of the list, and one for a descriptor that comes, moves
  or goes. Descriptors and ids are natural numbers (`FdsAssumption`).
* `Did_proofs`: `NothingIsLeft` (when the host refuses no hypercall for the factor), `NothingFaults` (with
  IPIs: when it sets up every CPU and no sender is delayed over a step of the script), `TheRequestStays`
  (without IPIs) and `IpisArrive`. The invariant `DidInv` says by the script's phase and its list how far each CPU has
  come (`Place`), which interrupts cannot disturb (`InterruptsKeep`); `IdsPlaced` that the host translates ids
  exactly while the CPUs have virtual ones. The hypotheses are needed: a
  sender's write of an old word takes the timer's request away; one that goes on while the operator disables
  the module meets a NULL descriptor, and so does one that asks a CPU the host refused to set up.

`TrapsEnd`, `IrqfdFollowsRoute`, `IntxLeavesNothing`, `IdsComeBack` and `NeverAborts` are proved and not checked by
a run of their own.

Only model-checked is liveness, as fairness and `ENABLED` are out of the prover's reach: `MigrationFinishes`,
`DestinationServesAgain`, `DueIsServed`, `LineIsServed`, `EventsArrive`, `SignalsAreServed`, `LatestIsSent`.

## 6. Findings

* `agents_lost_prepared`: the source agent listens on port 3535 only after it has sent "prepare",
  and the destination sends its answer once. An answer that comes first is lost; the migration
  the comment promises is never entered.
* `agents_second_migration`: the destination agent makes one `socket_fd2` for its whole life. After
  the first migration it is connected, later `connect` calls fail for ever, and the NIC is not plugged.
* `did_lost_request`: the comment in did.c calls the non-atomic set of the timer's bit safe. A request
  that a device posts between its read and its write is overwritten.
* `device_realized`: the command for the top half sets `realized` whatever the top half returned.

## 7. What is not modelled

* The page walk, the single-purpose ioctls and the host's kernel behind did.ko; the host of the model
  answers its hypercalls at once.
* Of `hw/vfio/pci.c`: the option ROM, BARs smaller than a page, VGA and quirks, the emulation of config
  space bits, error injection. What a device does with an event while its MSI-X is switched off is
  not in the code.
* Of `hw/core/qdev.c` and `qdev-monitor.c`: property tables, GPIO lines, the tree of buses and its printing,
  the parsing of options. They keep no state that the life cycle depends on.
* Of `monitor.c`: parsing, completion and dispatch of commands, expressions, the info commands, tracing.
* Of `hmp.c`: all but `migrate` and the commands for the pass-through NIC; the other commands parse
  arguments, call a QMP command and format its result.
* The VMCS and VMX modules read or write one register per call; the experiment scripts are
  an operator's command lines.
