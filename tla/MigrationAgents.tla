--------------------------- MODULE MigrationAgents ---------------------------
(***************************************************************************)
(* The live migration of a guest that owns a pass-through NIC, as it is    *)
(* carried out by three daemons: the source migration agent (one run per   *)
(* migration, on the host the guest leaves), the destination migration     *)
(* agent (one per host, started at boot, serves for ever) and the guest    *)
(* migration agent (one per boot of the guest, moves with the guest).      *)
(* They talk over TCP and drive QEMU, the host's vfio-pci driver and the   *)
(* guest's bonding driver through shell scripts.  Every blocking call and  *)
(* every script that changes state is a step of its own.                   *)
(*                                                                         *)
(* A TCP connection carries at most one message in each direction.  The    *)
(* shell scripts name the peer by a fixed address; a host's copy of a      *)
(* script names the other host, so Peer(h) stands for that address.        *)
(***************************************************************************)
EXTENDS Naturals, Sequences, FiniteSets

CONSTANTS
    HostA, HostB,   \* the two machines a guest can run on
    MaxRuns,        \* bound: runs of the source agent
    MaxBoots,       \* bound: boots of the guest
    Backlog,        \* the listen() backlog of the agents
    Balanced,       \* may a run be one of the load balancer's source agent?
    Faults          \* which of AllFaults may happen

AllFaults == {"migrate", "create", "kill", "reboot"}

ASSUME HostsAssumption  == HostA # HostB /\ "lost" \notin {HostA, HostB}
ASSUME BoundsAssumption == /\ MaxRuns \in Nat /\ MaxBoots \in Nat \ {0}
                           /\ Backlog \in Nat /\ Balanced \subseteq BOOLEAN
ASSUME FaultsAssumption == Faults \subseteq AllFaults

VARIABLES
    spc, shost, run,     \* the source agent: program counter, host, run number
    alb,                 \* the runs of the load balancer's source agent
    dpc, dcur, upUsed,   \* per host the destination agent: pc, accepted
                         \*   connection, socket_fd2 already connected
    gpc, gcur, bound,    \* the guest agent: pc, accepted connection,
                         \*   socket_fd2 already bound
    listening, queue,    \* per port: is it open, and its accept queue
    conn,                \* the connections
    qemu, nic, mig,      \* per host: QEMU, its assigned NIC, query-migrate
    vmhost, gnic, bond,  \* the guest: where it runs, its ens4, bond0
    boots                \* boots of the guest so far

srcVars   == <<spc, shost, run, alb>>
dstVars   == <<dpc, dcur, upUsed>>
guestVars == <<gpc, gcur, bound>>
netVars   == <<listening, queue, conn>>
vmVars    == <<qemu, nic, mig, vmhost, gnic, bond, boots>>
vars      == <<srcVars, dstVars, guestVars, netVars, vmVars>>

Host    == {HostA, HostB}
Peer(h) == IF h = HostA THEN HostB ELSE HostA

Kind == {"guest", "dest", "prepared", "hotplug", "done", "up"}
Conn == Kind \X (1..MaxRuns)
Msg  == {"prepare", "prepared", "hotplug", "Done", "connected"}
NoConn == <<>>

\* The ports: the guest's 7777 and 1818, a host's 9797 and 3535.
P7777    == <<"guest", 7777>>
P1818    == <<"guest", 1818>>
P9797(h) == <<h, 9797>>
P3535(h) == <<h, 3535>>
Port == {P7777, P1818} \cup {P9797(h) : h \in Host} \cup {P3535(h) : h \in Host}

SrcPc == {"off", "connGuest", "sendGuest", "readGuest", "connDest", "sendDest",
          "listen", "accept", "read", "unplug", "unbind", "migrate", "hotplug",
          "status"}
DstPc == {"accept", "read", "setup", "poll", "create", "top", "connGuest",
          "sendGuest", "readGuest", "bottom"}
GstPc == {"accept", "read", "remove", "reply", "bind", "accept2", "read2",
          "reply2", "waitUp", "enslave", "exited"}

-----------------------------------------------------------------------------
(* Sockets *)

Unused == [up |-> "", down |-> "", cli |-> FALSE, srv |-> FALSE]

\* connect() succeeds when the port is open and the accept queue has room.
CanConnect(p) == listening[p] /\ Len(queue[p]) <= Backlog

\* What connecting c to p, having sent m at once, does ("" for nothing yet).
Connected(c, p, m) ==
    /\ queue' = [queue EXCEPT ![p] = Append(@, c)]
    /\ conn'  = [conn EXCEPT ![c] = [up |-> m, down |-> "", cli |-> TRUE, srv |-> TRUE]]

\* The same for a connection the sending script closes after one message.
OneShot(c, p, m) ==
    /\ queue' = [queue EXCEPT ![p] = Append(@, c)]
    /\ conn'  = [conn EXCEPT ![c] = [up |-> m, down |-> "", cli |-> FALSE, srv |-> TRUE]]

\* read() returns: a message is there, or the other side closed (0 bytes, "").
ServerCanRead(c) == conn[c].up # "" \/ ~conn[c].cli
ClientCanRead(c) == conn[c].down # "" \/ ~conn[c].srv

ServerReads(c) == conn' = [conn EXCEPT ![c].up = ""]
ClientReads(c) == conn' = [conn EXCEPT ![c].down = ""]

Accepts(p) == queue' = [queue EXCEPT ![p] = Tail(@)]

-----------------------------------------------------------------------------
(* The source agent *)

SrcConn(k) == <<k, run>>

\* Closing the sockets of the source agent: its port 3535 and what waits there,
\* and its ends of the connections it opened.
SrcCloses ==
    /\ spc' = "off"
    /\ listening' = [listening EXCEPT ![P3535(shost)] = FALSE]
    /\ queue' = [queue EXCEPT ![P3535(shost)] = <<>>]
    /\ conn' = [c \in Conn |->
                  IF c \in {SrcConn("guest"), SrcConn("dest")}
                  THEN [conn[c] EXCEPT !.cli = FALSE] ELSE conn[c]]

\* The operator runs source_migration_agent on the host of the guest, or the load
\* balancer's source_migration_agent_alb, once the QEMU a previous migration left on
\* the other host is gone.
SrcStart ==
    /\ spc = "off" /\ run < MaxRuns
    /\ vmhost \in Host /\ qemu[Peer(vmhost)] = "down"
    /\ run' = run + 1 /\ shost' = vmhost /\ spc' = "connGuest"
    /\ \E b \in Balanced : alb' = IF b THEN alb \cup {run + 1} ELSE alb
    /\ UNCHANGED <<dstVars, guestVars, netVars, vmVars>>

SrcConnectGuest ==
    /\ spc = "connGuest" /\ CanConnect(P7777)
    /\ Connected(SrcConn("guest"), P7777, "")
    /\ spc' = "sendGuest"
    /\ UNCHANGED <<shost, run, alb, listening, dstVars, guestVars, vmVars>>

SrcSendGuest ==
    /\ spc = "sendGuest"
    /\ conn' = [conn EXCEPT ![SrcConn("guest")].up = "prepare"]
    /\ spc' = "readGuest"
    /\ UNCHANGED <<shost, run, alb, listening, queue, dstVars, guestVars, vmVars>>

\* strcmp("prepared", buffer) decides between going on and closing everything.
SrcReadGuest ==
    /\ spc = "readGuest" /\ ClientCanRead(SrcConn("guest"))
    /\ \/ /\ conn[SrcConn("guest")].down = "prepared"
          /\ ClientReads(SrcConn("guest"))
          /\ spc' = "connDest"
          /\ UNCHANGED <<listening, queue>>
       \/ conn[SrcConn("guest")].down # "prepared" /\ SrcCloses
    /\ UNCHANGED <<shost, run, alb, dstVars, guestVars, vmVars>>

SrcConnectDest ==
    /\ spc = "connDest" /\ CanConnect(P9797(Peer(shost)))
    /\ Connected(SrcConn("dest"), P9797(Peer(shost)), "")
    /\ spc' = "sendDest"
    /\ UNCHANGED <<shost, run, alb, listening, dstVars, guestVars, vmVars>>

SrcSendDest ==
    /\ spc = "sendDest"
    /\ conn' = [conn EXCEPT ![SrcConn("dest")].up = "prepare"]
    /\ spc' = "listen"
    /\ UNCHANGED <<shost, run, alb, listening, queue, dstVars, guestVars, vmVars>>

\* bind() and listen() on 3535 come only after "prepare" has been sent.
SrcListen ==
    /\ spc = "listen"
    /\ listening' = [listening EXCEPT ![P3535(shost)] = TRUE]
    /\ spc' = "accept"
    /\ UNCHANGED <<shost, run, alb, queue, conn, dstVars, guestVars, vmVars>>

\* Bound: the load balancer's agent, which loops, migrates the guest once in a run.
MayLoop == conn[SrcConn("done")] = Unused

SrcAccept ==
    /\ spc = "accept" /\ queue[P3535(shost)] # <<>> /\ MayLoop
    /\ Accepts(P3535(shost))
    /\ spc' = "read"
    /\ UNCHANGED <<shost, run, alb, listening, conn, dstVars, guestVars, vmVars>>

\* What the destination sent is read and not looked at.
SrcRead ==
    /\ spc = "read" /\ spc' = "unplug"
    /\ UNCHANGED <<shost, run, alb, dstVars, guestVars, netVars, vmVars>>

\* device_del: QEMU asks the guest to release the device, if there is one.
SrcUnplug ==
    /\ spc = "unplug" /\ spc' = "unbind"
    /\ nic' = IF nic[shost] = "absent" THEN nic
              ELSE [nic EXCEPT ![shost] = "unplugging"]
    /\ UNCHANGED <<shost, run, alb, dstVars, guestVars, netVars,
                   qemu, mig, vmhost, gnic, bond, boots>>

\* Unbinding vfio-pci blocks until no process holds the device.
SrcUnbind ==
    /\ spc = "unbind" /\ nic[shost] = "absent"
    /\ spc' = "migrate"
    /\ UNCHANGED <<shost, run, alb, dstVars, guestVars, netVars, vmVars>>

\* Mutant of SrcMigrate: "hotplug" is sent by no agent.
BugSrcMigrate ==
    /\ spc = "migrate" /\ spc' = "status"
    /\ mig' = IF qemu[shost] # "running" \/ nic[shost] # "absent" THEN mig
              ELSE [mig EXCEPT ![shost] =
                      IF qemu[Peer(shost)] = "incoming" THEN "active" ELSE "failed"]
    /\ UNCHANGED <<shost, run, alb, dstVars, guestVars, netVars,
                   qemu, nic, vmhost, gnic, bond, boots>>

\* The migrate command gets no answer from a QEMU that is gone, is refused while an
\* unmigratable device is there, and fails when nothing listens for the guest.
SrcMigrate ==
    /\ spc = "migrate" /\ spc' = IF run \in alb THEN "status" ELSE "hotplug"
    /\ mig' = IF qemu[shost] # "running" \/ nic[shost] # "absent" THEN mig
              ELSE [mig EXCEPT ![shost] =
                      IF qemu[Peer(shost)] = "incoming" THEN "active" ELSE "failed"]
    /\ UNCHANGED <<shost, run, alb, dstVars, guestVars, netVars,
                   qemu, nic, vmhost, gnic, bond, boots>>

SrcHotplug ==
    /\ spc = "hotplug" /\ CanConnect(P9797(Peer(shost)))
    /\ OneShot(SrcConn("hotplug"), P9797(Peer(shost)), "hotplug")
    /\ spc' = "status"
    /\ UNCHANGED <<shost, run, alb, listening, dstVars, guestVars, vmVars>>

\* migration_status.sh polls until the migration completed, which it tells the
\* destination, or failed, which it tells nobody; then the agent ends.
SrcCompleted ==
    /\ spc = "status" /\ run \notin alb
    /\ mig[shost] = "completed" /\ CanConnect(P9797(Peer(shost)))
    /\ spc' = "off"
    /\ listening' = [listening EXCEPT ![P3535(shost)] = FALSE]
    /\ queue' = [queue EXCEPT ![P3535(shost)] = <<>>,
                              ![P9797(Peer(shost))] = Append(@, SrcConn("done"))]
    /\ conn' = [c \in Conn |->
                  IF c \in {SrcConn("guest"), SrcConn("dest")}
                  THEN [conn[c] EXCEPT !.cli = FALSE]
                  ELSE IF c = SrcConn("done")
                  THEN [up |-> "Done", down |-> "", cli |-> FALSE, srv |-> TRUE]
                  ELSE conn[c]]
    /\ UNCHANGED <<shost, run, alb, dstVars, guestVars, vmVars>>

SrcFailed ==
    /\ spc = "status" /\ run \notin alb /\ mig[shost] = "failed"
    /\ SrcCloses
    /\ UNCHANGED <<shost, run, alb, dstVars, guestVars, vmVars>>

\* The load balancer's agent has no line for "hotplug", and after the status goes
\* back to its accept() with all sockets open.
AlbCompleted ==
    /\ spc = "status" /\ run \in alb
    /\ mig[shost] = "completed" /\ CanConnect(P9797(Peer(shost)))
    /\ OneShot(SrcConn("done"), P9797(Peer(shost)), "Done")
    /\ spc' = "accept"
    /\ UNCHANGED <<shost, run, alb, listening, dstVars, guestVars, vmVars>>

AlbFailed ==
    /\ spc = "status" /\ run \in alb /\ mig[shost] = "failed"
    /\ spc' = "accept"
    /\ UNCHANGED <<shost, run, alb, dstVars, guestVars, netVars, vmVars>>

\* The operator kills the agent between two of its steps.
SrcKilled ==
    /\ "kill" \in Faults /\ spc # "off"
    /\ SrcCloses
    /\ UNCHANGED <<shost, run, alb, dstVars, guestVars, vmVars>>

Source == \/ SrcConnectGuest \/ SrcSendGuest \/ SrcReadGuest \/ SrcConnectDest
          \/ SrcSendDest \/ SrcListen \/ SrcAccept \/ SrcRead \/ SrcUnplug
          \/ SrcUnbind \/ SrcMigrate \/ SrcHotplug \/ SrcCompleted \/ SrcFailed
          \/ AlbCompleted \/ AlbFailed

-----------------------------------------------------------------------------
(* The destination agent of host h *)

QmpAnswers(h) == qemu[h] \in {"incoming", "running", "postmigrate"}

\* QEMU dereferences the NULL that find_device_state returned: the process is
\* gone, with the guest if it runs here, else with the incoming migration.
QemuCrashes(h) ==
    /\ qemu' = [qemu EXCEPT ![h] = "down"]
    /\ nic' = [nic EXCEPT ![h] = "absent"]
    /\ mig' = [mig EXCEPT ![h] = "none",
                          ![Peer(h)] = IF @ = "active" THEN "failed" ELSE @]
    /\ vmhost' = IF vmhost = h THEN "lost" ELSE vmhost
    /\ gnic' = IF vmhost = h THEN "absent" ELSE gnic

DstAccept(h) ==
    /\ dpc[h] = "accept" /\ queue[P9797(h)] # <<>>
    /\ Accepts(P9797(h))
    /\ dcur' = [dcur EXCEPT ![h] = Head(queue[P9797(h)])]
    /\ dpc' = [dpc EXCEPT ![h] = "read"]
    /\ UNCHANGED <<upUsed, listening, conn, srcVars, guestVars, vmVars>>

DstRead(h) ==
    /\ dpc[h] = "read" /\ ServerCanRead(dcur[h])
    /\ ServerReads(dcur[h])
    /\ dpc' = [dpc EXCEPT ![h] = CASE conn[dcur[h]].up = "prepare" -> "setup"
                                   [] conn[dcur[h]].up = "hotplug" -> "create"
                                   [] conn[dcur[h]].up = "Done"    -> "connGuest"
                                   [] OTHER -> "accept"]
    /\ UNCHANGED <<dcur, upUsed, listening, queue, srcVars, guestVars, vmVars>>

\* The NIC is bound to vfio-pci and QEMU is started in the background.
DstSetup(h) ==
    /\ dpc[h] = "setup" /\ dpc' = [dpc EXCEPT ![h] = "poll"]
    /\ qemu' = [qemu EXCEPT ![h] = IF @ = "down" THEN "starting" ELSE @]
    /\ UNCHANGED <<dcur, upUsed, nic, mig, vmhost, gnic, bond, boots,
                   srcVars, guestVars, netVars>>

\* Mutant of DstNotify: the loop is left only once the source took the message.
BugDstNotify(h) ==
    /\ dpc[h] = "poll" /\ QmpAnswers(h) /\ CanConnect(P3535(Peer(h)))
    /\ OneShot(<<"prepared", dcur[h][2]>>, P3535(Peer(h)), "prepared")
    /\ dpc' = [dpc EXCEPT ![h] = "accept"]
    /\ UNCHANGED <<dcur, upUsed, listening, srcVars, guestVars, vmVars>>

\* Once QMP answers, "prepared" is sent to the source, once: when the source
\* does not listen yet, it is lost and the loop is left all the same.
DstNotify(h) ==
    /\ dpc[h] = "poll" /\ QmpAnswers(h)
    /\ IF CanConnect(P3535(Peer(h)))
       THEN OneShot(<<"prepared", dcur[h][2]>>, P3535(Peer(h)), "prepared")
       ELSE UNCHANGED <<queue, conn>>
    /\ dpc' = [dpc EXCEPT ![h] = "accept"]
    /\ UNCHANGED <<dcur, upUsed, listening, srcVars, guestVars, vmVars>>

\* osnet-vfio-nic-create; without a QEMU the script's nc fails and nothing happens.
DstCreate(h) ==
    /\ dpc[h] = "create" /\ dpc' = [dpc EXCEPT ![h] = "top"]
    /\ \/ /\ QmpAnswers(h) /\ nic[h] = "absent"
          /\ nic' = [nic EXCEPT ![h] = "created"]
       \/ /\ ~QmpAnswers(h) \/ nic[h] # "absent" \/ "create" \in Faults
          /\ UNCHANGED nic
    /\ UNCHANGED <<dcur, upUsed, qemu, mig, vmhost, gnic, bond, boots,
                   srcVars, guestVars, netVars>>

\* Mutant of DstTopHalf: the "hotplug" message realizes the whole device.
BugDstTopHalf(h) ==
    /\ dpc[h] = "top" /\ dpc' = [dpc EXCEPT ![h] = "accept"]
    /\ nic' = [nic EXCEPT ![h] = IF QmpAnswers(h) /\ @ = "created" THEN "plugged" ELSE @]
    /\ UNCHANGED <<dcur, upUsed, qemu, mig, vmhost, gnic, bond, boots,
                   srcVars, guestVars, netVars>>

\* osnet-vfio-nic-realize-top-half, whether or not the device was created.
DstTopHalf(h) ==
    /\ dpc[h] = "top" /\ dpc' = [dpc EXCEPT ![h] = "accept"]
    /\ \/ /\ QmpAnswers(h) /\ nic[h] = "absent"
          /\ QemuCrashes(h)
       \/ /\ QmpAnswers(h) /\ nic[h] = "created"
          /\ nic' = [nic EXCEPT ![h] = "half"]
          /\ UNCHANGED <<qemu, mig, vmhost, gnic>>
       \/ /\ ~QmpAnswers(h) \/ nic[h] \notin {"absent", "created"}
          /\ UNCHANGED <<qemu, nic, mig, vmhost, gnic>>
    /\ UNCHANGED <<dcur, upUsed, bond, boots, srcVars, guestVars, netVars>>

\* connect() on the one socket_fd2 of the process: once it is connected every
\* later connect() fails with EISCONN and the loop never ends.
DstConnectGuest(h) ==
    /\ dpc[h] = "connGuest" /\ ~upUsed[h] /\ vmhost \in Host /\ CanConnect(P1818)
    /\ Connected(<<"up", dcur[h][2]>>, P1818, "")
    /\ upUsed' = [upUsed EXCEPT ![h] = TRUE]
    /\ dpc' = [dpc EXCEPT ![h] = "sendGuest"]
    /\ UNCHANGED <<dcur, listening, srcVars, guestVars, vmVars>>

DstSendGuest(h) ==
    /\ dpc[h] = "sendGuest" /\ dpc' = [dpc EXCEPT ![h] = "readGuest"]
    /\ conn' = [conn EXCEPT ![<<"up", dcur[h][2]>>].up = "connected"]
    /\ UNCHANGED <<dcur, upUsed, listening, queue, srcVars, guestVars, vmVars>>

DstReadGuest(h) ==
    /\ dpc[h] = "readGuest" /\ ClientCanRead(<<"up", dcur[h][2]>>)
    /\ ClientReads(<<"up", dcur[h][2]>>)
    /\ dpc' = [dpc EXCEPT ![h] = "bottom"]
    /\ UNCHANGED <<dcur, upUsed, listening, queue, srcVars, guestVars, vmVars>>

\* osnet-vfio-nic-realize-bottom-half plugs the device into the guest.
DstBottomHalf(h) ==
    /\ dpc[h] = "bottom" /\ dpc' = [dpc EXCEPT ![h] = "accept"]
    /\ CASE QmpAnswers(h) /\ nic[h] = "absent" -> QemuCrashes(h)
         [] QmpAnswers(h) /\ nic[h] = "half" ->
              /\ nic' = [nic EXCEPT ![h] = "plugged"]
              /\ gnic' = IF vmhost = h THEN "up" ELSE gnic
              /\ UNCHANGED <<qemu, mig, vmhost>>
         [] OTHER -> UNCHANGED <<qemu, nic, mig, vmhost, gnic>>
    /\ UNCHANGED <<dcur, upUsed, bond, boots, srcVars, guestVars, netVars>>

Destination(h) == \/ DstAccept(h) \/ DstRead(h) \/ DstSetup(h) \/ DstNotify(h)
                  \/ DstCreate(h) \/ DstTopHalf(h) \/ DstConnectGuest(h)
                  \/ DstSendGuest(h) \/ DstReadGuest(h) \/ DstBottomHalf(h)

-----------------------------------------------------------------------------
(* The guest agent; it runs where the guest runs *)

GuestRuns == vmhost \in Host

GstAccept ==
    /\ GuestRuns /\ gpc = "accept" /\ queue[P7777] # <<>>
    /\ Accepts(P7777)
    /\ gcur' = Head(queue[P7777]) /\ gpc' = "read"
    /\ UNCHANGED <<bound, listening, conn, srcVars, dstVars, vmVars>>

\* Mutant of GstRead: the guest answers without removing the interface.
BugGstRead ==
    /\ GuestRuns /\ gpc = "read" /\ ServerCanRead(gcur)
    /\ ServerReads(gcur)
    /\ gpc' = IF conn[gcur].up = "prepare" THEN "reply" ELSE "accept"
    /\ UNCHANGED <<gcur, bound, listening, queue, srcVars, dstVars, vmVars>>

GstRead ==
    /\ GuestRuns /\ gpc = "read" /\ ServerCanRead(gcur)
    /\ ServerReads(gcur)
    /\ gpc' = IF conn[gcur].up = "prepare" THEN "remove" ELSE "accept"
    /\ UNCHANGED <<gcur, bound, listening, queue, srcVars, dstVars, vmVars>>

\* Mutant of GstRemove: ens3 is not made the active slave first.
BugGstRemove ==
    /\ GuestRuns /\ gpc = "remove" /\ gpc' = "reply"
    /\ bond' = [bond EXCEPT !.slaves = @ \ {"ens4"}]
    /\ gnic' = IF gnic = "absent" THEN gnic ELSE "down"
    /\ UNCHANGED <<gcur, bound, qemu, nic, mig, vmhost, boots,
                   srcVars, dstVars, netVars>>

\* remove_vfio_interface.sh: traffic moves to ens3, ens4 leaves bond0 and goes down.
GstRemove ==
    /\ GuestRuns /\ gpc = "remove" /\ gpc' = "reply"
    /\ bond' = [slaves |-> bond.slaves \ {"ens4"}, active |-> "ens3"]
    /\ gnic' = IF gnic = "absent" THEN gnic ELSE "down"
    /\ UNCHANGED <<gcur, bound, qemu, nic, mig, vmhost, boots,
                   srcVars, dstVars, netVars>>

GstReply ==
    /\ GuestRuns /\ gpc = "reply" /\ gpc' = "bind"
    /\ conn' = [conn EXCEPT ![gcur].down = "prepared"]
    /\ UNCHANGED <<gcur, bound, listening, queue, srcVars, dstVars, vmVars>>

\* bind() and listen() on 1818; the socket is never closed, so the bind() of a
\* second migration fails and the agent exits, which closes all it has open.
GstBind ==
    /\ GuestRuns /\ gpc = "bind"
    /\ \/ /\ ~bound
          /\ bound' = TRUE /\ gpc' = "accept2"
          /\ listening' = [listening EXCEPT ![P1818] = TRUE]
          /\ UNCHANGED <<queue, conn>>
       \/ /\ bound
          /\ bound' = FALSE /\ gpc' = "exited"
          /\ listening' = [listening EXCEPT ![P7777] = FALSE, ![P1818] = FALSE]
          /\ queue' = [queue EXCEPT ![P7777] = <<>>, ![P1818] = <<>>]
          /\ conn' = [c \in Conn |-> IF c[1] \in {"guest", "up"}
                                     THEN [conn[c] EXCEPT !.srv = FALSE] ELSE conn[c]]
    /\ UNCHANGED <<gcur, srcVars, dstVars, vmVars>>

GstAccept2 ==
    /\ GuestRuns /\ gpc = "accept2" /\ queue[P1818] # <<>>
    /\ Accepts(P1818)
    /\ gcur' = Head(queue[P1818]) /\ gpc' = "read2"
    /\ UNCHANGED <<bound, listening, conn, srcVars, dstVars, vmVars>>

\* What the destination sent is read and not looked at.
GstRead2 ==
    /\ GuestRuns /\ gpc = "read2" /\ ServerCanRead(gcur)
    /\ ServerReads(gcur)
    /\ gpc' = "reply2"
    /\ UNCHANGED <<gcur, bound, listening, queue, srcVars, dstVars, vmVars>>

GstReply2 ==
    /\ GuestRuns /\ gpc = "reply2" /\ gpc' = "waitUp"
    /\ conn' = [conn EXCEPT ![gcur].down = "prepared"]
    /\ UNCHANGED <<gcur, bound, listening, queue, srcVars, dstVars, vmVars>>

GstWaitUp ==
    /\ GuestRuns /\ gpc = "waitUp" /\ gnic = "up"
    /\ gpc' = "enslave"
    /\ UNCHANGED <<gcur, bound, srcVars, dstVars, netVars, vmVars>>

\* Mutant of GstEnslave: the inner loop is not left.
BugGstEnslave ==
    /\ GuestRuns /\ gpc = "enslave" /\ gnic = "up"
    /\ bond' = [slaves |-> bond.slaves \cup {"ens4"}, active |-> "ens4"]
    /\ gpc' = "accept2"
    /\ UNCHANGED <<gcur, bound, qemu, nic, mig, vmhost, gnic, boots,
                   srcVars, dstVars, netVars>>

\* setup_dest_bonding_driver.sh waits until ens4 is a slave and makes it active.
GstEnslave ==
    /\ GuestRuns /\ gpc = "enslave" /\ gnic = "up"
    /\ bond' = [slaves |-> bond.slaves \cup {"ens4"}, active |-> "ens4"]
    /\ gpc' = "accept"
    /\ UNCHANGED <<gcur, bound, qemu, nic, mig, vmhost, gnic, boots,
                   srcVars, dstVars, netVars>>

Guest == \/ GstAccept \/ GstRead \/ GstRemove \/ GstReply \/ GstBind \/ GstAccept2
         \/ GstRead2 \/ GstReply2 \/ GstWaitUp \/ GstEnslave

-----------------------------------------------------------------------------
(* QEMU, the guest's kernel and the operator *)

\* Mutant of QemuUp: QEMU is started without "-incoming".
BugQemuUp(h) ==
    /\ qemu[h] = "starting"
    /\ qemu' = [qemu EXCEPT ![h] = "running"]
    /\ UNCHANGED <<nic, mig, vmhost, gnic, bond, boots,
                   srcVars, dstVars, guestVars, netVars>>

\* run_destination_vm.sh: the QEMU of h is up and waits for an incoming guest.
QemuUp(h) ==
    /\ qemu[h] = "starting"
    /\ qemu' = [qemu EXCEPT ![h] = "incoming"]
    /\ UNCHANGED <<nic, mig, vmhost, gnic, bond, boots,
                   srcVars, dstVars, guestVars, netVars>>

\* The device is gone; a guest that had it loses the interface and, when it was
\* a slave of bond0, the bonding driver falls back to ens3.
NicReleased(h) ==
    /\ nic[h] = "unplugging"
    /\ nic' = [nic EXCEPT ![h] = "absent"]
    /\ IF vmhost = h
       THEN /\ gnic' = "absent"
            /\ bond' = [slaves |-> bond.slaves \ {"ens4"}, active |-> "ens3"]
       ELSE UNCHANGED <<gnic, bond>>
    /\ UNCHANGED <<qemu, mig, vmhost, boots, srcVars, dstVars, guestVars, netVars>>

\* The guest stops on h and goes on at the peer, agent and sockets included.
MigrationCompletes(h) ==
    /\ mig[h] = "active"
    /\ mig' = [mig EXCEPT ![h] = "completed"]
    /\ qemu' = [qemu EXCEPT ![h] = "postmigrate", ![Peer(h)] = "running"]
    /\ vmhost' = Peer(h)
    /\ UNCHANGED <<nic, gnic, bond, boots, srcVars, dstVars, guestVars, netVars>>

\* The guest stays on h; the QEMU that waited for it ends.
MigrationFails(h) ==
    /\ "migrate" \in Faults /\ mig[h] = "active"
    /\ mig' = [mig EXCEPT ![h] = "failed"]
    /\ qemu' = [qemu EXCEPT ![Peer(h)] = "down"]
    /\ nic' = [nic EXCEPT ![Peer(h)] = "absent"]
    /\ UNCHANGED <<vmhost, gnic, bond, boots, srcVars, dstVars, guestVars, netVars>>

\* The operator ends the QEMU a completed migration left behind.
QemuQuit(h) ==
    /\ qemu[h] = "postmigrate" /\ spc = "off"
    /\ qemu' = [qemu EXCEPT ![h] = "down"]
    /\ nic' = [nic EXCEPT ![h] = "absent"]
    /\ mig' = [mig EXCEPT ![h] = "none"]
    /\ UNCHANGED <<vmhost, gnic, bond, boots, srcVars, dstVars, guestVars, netVars>>

\* A destination agent has nothing left to do, or hangs in connect() for ever.
Quiet(h) == \/ dpc[h] = "accept" /\ queue[P9797(h)] = <<>>
            \/ dpc[h] = "connGuest" /\ upUsed[h]

\* The operator reboots the guest, which starts a new guest agent (rc.local runs
\* setup_bonding_driver.sh first); not while an agent still works for the guest.
\* The reset of the machine carries out a removal that was asked for.
GuestReboots ==
    /\ "reboot" \in Faults /\ boots < MaxBoots /\ GuestRuns
    /\ spc = "off" /\ \A h \in Host : Quiet(h)
    /\ boots' = boots + 1
    /\ gpc' = "accept" /\ gcur' = NoConn /\ bound' = FALSE
    /\ listening' = [listening EXCEPT ![P7777] = TRUE, ![P1818] = FALSE]
    /\ queue' = [queue EXCEPT ![P7777] = <<>>, ![P1818] = <<>>]
    /\ conn' = [c \in Conn |-> IF c[1] \in {"guest", "up"}
                               THEN [conn[c] EXCEPT !.srv = FALSE] ELSE conn[c]]
    /\ nic' = [nic EXCEPT ![vmhost] = IF @ = "unplugging" THEN "absent" ELSE @]
    /\ IF gnic = "absent" \/ nic[vmhost] = "unplugging"
       THEN gnic' = "absent" /\ bond' = [slaves |-> {"ens3"}, active |-> "ens3"]
       ELSE gnic' = "up" /\ bond' = [slaves |-> {"ens3", "ens4"}, active |-> "ens4"]
    /\ UNCHANGED <<qemu, mig, vmhost, srcVars, dstVars>>

Machine(h) == QemuUp(h) \/ NicReleased(h) \/ MigrationCompletes(h)

Init ==
    /\ vmhost \in Host
    /\ spc = "off" /\ shost = vmhost /\ run = 0 /\ alb = {}
    /\ dpc = [h \in Host |-> "accept"] /\ dcur = [h \in Host |-> NoConn]
    /\ upUsed = [h \in Host |-> FALSE]
    /\ gpc = "accept" /\ gcur = NoConn /\ bound = FALSE
    /\ listening = [p \in Port |-> p = P7777 \/ \E h \in Host : p = P9797(h)]
    /\ queue = [p \in Port |-> <<>>] /\ conn = [c \in Conn |-> Unused]
    /\ qemu = [h \in Host |-> IF h = vmhost THEN "running" ELSE "down"]
    /\ nic  = [h \in Host |-> IF h = vmhost THEN "plugged" ELSE "absent"]
    /\ mig  = [h \in Host |-> "none"]
    /\ gnic = "up" /\ bond = [slaves |-> {"ens3", "ens4"}, active |-> "ens4"]
    /\ boots = 1

Next == \/ SrcStart \/ Source \/ SrcKilled
        \/ Guest \/ GuestReboots
        \/ \E h \in Host : \/ Destination(h) \/ Machine(h)
                           \/ MigrationFails(h) \/ QemuQuit(h)

Spec == Init /\ [][Next]_vars

\* Every agent is a process the kernel schedules, and QEMU gets its work done
\* unless a fault stops it.
Fairness == /\ WF_vars(Source) /\ WF_vars(Guest)
            /\ \A h \in Host : WF_vars(Destination(h))
            /\ \A h \in Host : WF_vars(Machine(h))

FairSpec == Spec /\ Fairness

-----------------------------------------------------------------------------
(* Properties *)

TypeSrc ==
    /\ spc \in SrcPc /\ shost \in Host /\ run \in 0..MaxRuns
    /\ spc # "off" => run # 0
    /\ alb \subseteq 1..run

TypeDst ==
    /\ dpc \in [Host -> DstPc] /\ dcur \in [Host -> Conn \cup {NoConn}]
    /\ \A h \in Host : dpc[h] # "accept" => dcur[h] \in Conn
    /\ upUsed \in [Host -> BOOLEAN]

TypeGst ==
    /\ gpc \in GstPc /\ gcur \in Conn \cup {NoConn} /\ bound \in BOOLEAN
    /\ gpc \in {"read", "remove", "reply", "read2", "reply2"} => gcur \in Conn

Channel == [up : Msg \cup {""}, down : {"", "prepared"}, cli : BOOLEAN, srv : BOOLEAN]

TypeNet ==
    /\ listening \in [Port -> BOOLEAN]
    /\ queue \in [Port -> Seq(Conn)]
    /\ conn \in [Conn -> Channel]

TypeVm ==
    /\ qemu \in [Host -> {"down", "starting", "incoming", "running", "postmigrate"}]
    /\ nic  \in [Host -> {"absent", "created", "half", "plugged", "unplugging"}]
    /\ mig  \in [Host -> {"none", "active", "completed", "failed"}]
    /\ vmhost \in Host \cup {"lost"}
    /\ gnic \in {"absent", "up", "down"}
    /\ bond \in [slaves : SUBSET {"ens3", "ens4"}, active : {"ens3", "ens4"}]
    /\ boots \in 1..MaxBoots

\* Every variable has its type, and an agent that works for a connection or a
\* run has one.
TypeOK == TypeSrc /\ TypeDst /\ TypeGst /\ TypeNet /\ TypeVm

\* A device is plugged into a QEMU only where the guest is: a QEMU that waits
\* for an incoming guest has no plugged NIC, so the stream it gets and the
\* devices it has agree (the reason for the top and the bottom half).
PluggedWhereGuestRuns ==
    \A h \in Host : nic[h] \in {"plugged", "unplugging"} => vmhost = h

\* The guest, while it runs, sends over ens4 only while ens4 is there and up.
TrafficHasInterface == GuestRuns /\ bond.active = "ens4" => gnic = "up"

\* The guest runs in one QEMU only, whatever fails on the way: the two would
\* write to the same disk and answer to the same address.
OneGuestRuns == ~ (qemu[HostA] = "running" /\ qemu[HostB] = "running")

\* The guest is lost only where osnet-vfio-nic-create has just failed and the top
\* half follows all the same, or after a migration of the load balancer's agent, whose
\* "Done" brings the bottom half to a device that "hotplug" has not created: no order
\* of the messages of the other agents does that.
LostOnlyWithoutDevice ==
    [][GuestRuns /\ vmhost' = "lost"
         => \/ "create" \in Faults /\ dpc[vmhost] = "top"
            \/ dpc[vmhost] = "bottom" /\ dcur[vmhost][2] \in alb]_vars

\* Why OneGuestRuns and TrafficHasInterface hold: what runs or moves a guest is
\* the QEMU that has it, so that a guest that is lost stays lost.
GuestInItsQemu ==
    \A h \in Host : qemu[h] = "running" \/ mig[h] = "active" => vmhost = h

\* Once the source has heard that the destination is prepared, the guest ends
\* at the destination with its traffic on the new NIC, and its agent is ready,
\* unless the migration or the NIC's creation fails or the source is killed before it
\* sent "Done".  Of the first migration only: what the agents leave open stops the next.
MigrationFinishes ==
    \A h \in Host : spc = "read" /\ shost = h /\ run = 1 /\ run \notin alb
        ~> \/ vmhost = Peer(h) /\ bond.active = "ens4" /\ gpc = "accept"
           \/ mig[h] = "failed"
           \/ "create" \in Faults /\ vmhost = "lost"
           \/ spc = "off" /\ run # 0 /\ conn[<<"done", run>>] = Unused

\* A destination agent always gets back to its accept() from what the first run of a
\* source agent sends, whatever happens to that agent, the migration and the guest.
DestinationServesAgain ==
    \A h \in Host : dpc[h] # "accept" /\ dcur[h][2] = 1
        ~> \/ dpc[h] = "accept"
           \/ dpc[h] = "connGuest" /\ vmhost = "lost"

-----------------------------------------------------------------------------
(* What comments and the README say, and the agents do not do *)

\* "After "prepared" message is sent by destination host machine, enter the
\* migrate command": a source that waits for the message migrates.
PreparedStartsMigration == spc = "accept" ~> spc = "migrate"

\* "On migration completion message, plug vfio nic": a destination that has read
\* "Done" ends with the NIC plugged.
DonePlugsNic == \A h \in Host : dpc[h] = "connGuest" ~> nic[h] = "plugged"

-----------------------------------------------------------------------------
(* The abstract specification the agents implement *)

Handover == INSTANCE PassthroughHandover
            WITH place <- vmhost, attached <- gnic # "absent", path <- bond.active

\* Every step of the agents, their scripts and QEMU is a step of the handover
\* or leaves what it speaks of alone.
HandoverSpec == Handover!Spec
=============================================================================
