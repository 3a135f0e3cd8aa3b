----------------------- MODULE MigrationAgents_proofs -----------------------
(***************************************************************************)
(* Proofs about MigrationAgents, for any two hosts, any number of runs and *)
(* boots, any backlog and any faults: type correctness, the inductive      *)
(* invariants behind the safety properties (which QEMU has the guest, who  *)
(* may speak to whom while the NIC is handed over, and what the order of   *)
(* the messages brings about), and that the agents implement the handover. *)
(***************************************************************************)
EXTENDS MigrationAgents, TLAPS, SequenceTheorems

-----------------------------------------------------------------------------
(* Ports, hosts and connections *)

LEMMA PortTypes ==
    /\ P7777 \in Port /\ P1818 \in Port
    /\ \A h \in Host : P9797(h) \in Port /\ P3535(h) \in Port
  BY DEF Port

LEMMA PeerType == \A h \in Host : Peer(h) \in Host /\ Peer(h) # h /\ h # "lost"
  BY HostsAssumption DEF Host, Peer

\* A running source agent has a run number, hence connections of its own.
LEMMA SrcConnType ==
    ASSUME TypeSrc, spc # "off"
    PROVE  \A k \in Kind : SrcConn(k) \in Conn
  <1>1. run \in 1..MaxRuns BY BoundsAssumption DEF TypeSrc
  <1> QED BY <1>1 DEF SrcConn, Conn

\* What a destination agent connects itself carries its run's number.
LEMMA DstConnType ==
    ASSUME TypeDst, NEW h \in Host, dpc[h] # "accept", NEW k \in Kind
    PROVE  dcur[h] \in Conn /\ <<k, dcur[h][2]>> \in Conn
  <1>1. dcur[h] \in Conn BY DEF TypeDst
  <1>2. dcur[h][2] \in 1..MaxRuns BY <1>1 DEF Conn
  <1> QED BY <1>1, <1>2 DEF Conn

-----------------------------------------------------------------------------
(* The socket operations keep the type of the network *)

LEMMA ConnectedType ==
    ASSUME TypeNet, NEW c \in Conn, NEW p \in Port, NEW m \in Msg \cup {""},
           Connected(c, p, m), UNCHANGED listening
    PROVE  TypeNet'
  <1>1. queue \in [Port -> Seq(Conn)] /\ conn \in [Conn -> Channel]
    BY DEF TypeNet
  <1>2. Append(queue[p], c) \in Seq(Conn) BY <1>1, AppendProperties
  <1>3. queue' \in [Port -> Seq(Conn)] BY <1>1, <1>2 DEF Connected
  <1>4. [up |-> m, down |-> "", cli |-> TRUE, srv |-> TRUE] \in Channel
    BY DEF Channel
  <1>5. conn' \in [Conn -> Channel] BY <1>1, <1>4 DEF Connected
  <1> QED BY <1>3, <1>5 DEF TypeNet

LEMMA OneShotType ==
    ASSUME TypeNet, NEW c \in Conn, NEW p \in Port, NEW m \in Msg \cup {""},
           OneShot(c, p, m), UNCHANGED listening
    PROVE  TypeNet'
  <1>1. queue \in [Port -> Seq(Conn)] /\ conn \in [Conn -> Channel]
    BY DEF TypeNet
  <1>2. Append(queue[p], c) \in Seq(Conn) BY <1>1, AppendProperties
  <1>3. queue' \in [Port -> Seq(Conn)] BY <1>1, <1>2 DEF OneShot
  <1>4. [up |-> m, down |-> "", cli |-> FALSE, srv |-> TRUE] \in Channel
    BY DEF Channel
  <1>5. conn' \in [Conn -> Channel] BY <1>1, <1>4 DEF OneShot
  <1> QED BY <1>3, <1>5 DEF TypeNet

LEMMA AcceptsType ==
    ASSUME TypeNet, NEW p \in Port, queue[p] # <<>>, Accepts(p),
           UNCHANGED <<listening, conn>>
    PROVE  TypeNet' /\ Head(queue[p]) \in Conn
  <1>1. queue[p] \in Seq(Conn) BY DEF TypeNet
  <1>2. Tail(queue[p]) \in Seq(Conn) /\ Head(queue[p]) \in Conn
    BY <1>1, HeadTailProperties
  <1> QED BY <1>2 DEF TypeNet, Accepts

LEMMA ServerReadsType ==
    ASSUME TypeNet, NEW c \in Conn, ServerReads(c), UNCHANGED <<listening, queue>>
    PROVE  TypeNet'
  BY DEF TypeNet, Channel, ServerReads

LEMMA ClientReadsType ==
    ASSUME TypeNet, NEW c \in Conn, ClientReads(c), UNCHANGED <<listening, queue>>
    PROVE  TypeNet'
  BY DEF TypeNet, Channel, ClientReads

\* An end of a connection is closed.
LEMMA ClosedChannel ==
    ASSUME NEW r \in Channel
    PROVE  [r EXCEPT !.cli = FALSE] \in Channel /\ [r EXCEPT !.srv = FALSE] \in Channel
  BY DEF Channel

LEMMA SrcClosesType ==
    ASSUME TypeSrc, TypeNet, SrcCloses, UNCHANGED <<shost, run, alb, alb>>
    PROVE  TypeSrc' /\ TypeNet'
  <1>1. P3535(shost) \in Port BY PortTypes DEF TypeSrc
  <1>2. listening' \in [Port -> BOOLEAN] /\ queue' \in [Port -> Seq(Conn)]
    BY <1>1 DEF TypeNet, SrcCloses
  <1>3. \A c \in Conn : conn[c] \in Channel BY DEF TypeNet
  <1>4. conn' \in [Conn -> Channel] BY <1>3, ClosedChannel DEF SrcCloses
  <1>5. TypeSrc' BY DEF TypeSrc, SrcPc, SrcCloses
  <1> QED BY <1>2, <1>4, <1>5 DEF TypeNet

LEMMA QemuCrashesType ==
    ASSUME TypeVm, NEW h \in Host, QemuCrashes(h), UNCHANGED <<bond, boots>>
    PROVE  TypeVm'
  BY PeerType DEF TypeVm, QemuCrashes

\* A step that leaves a component alone keeps its type.
LEMMA UnchangedTypes ==
    /\ TypeSrc /\ UNCHANGED srcVars => TypeSrc'
    /\ TypeDst /\ UNCHANGED dstVars => TypeDst'
    /\ TypeGst /\ UNCHANGED guestVars => TypeGst'
    /\ TypeNet /\ UNCHANGED netVars => TypeNet'
    /\ TypeVm /\ UNCHANGED vmVars => TypeVm'
  BY DEF TypeSrc, TypeDst, TypeGst, TypeNet, TypeVm,
         srcVars, dstVars, guestVars, netVars, vmVars

-----------------------------------------------------------------------------
(* Every action keeps the types *)

LEMMA SrcStartType ==
    ASSUME TypeOK, SrcStart
    PROVE  TypeOK'
  <1>0. /\ TypeSrc /\ TypeDst /\ TypeGst /\ TypeNet /\ TypeVm
      /\ SrcStart /\ UNCHANGED <<dstVars, guestVars, netVars, vmVars>>
    BY DEF TypeOK, SrcStart
  <1>1. TypeSrc'
    BY <1>0, BoundsAssumption DEF SrcStart, TypeSrc, TypeVm, SrcPc, Host
  <1> QED BY <1>0, <1>1, UnchangedTypes DEF TypeOK

LEMMA SrcConnectGuestType ==
    ASSUME TypeOK, SrcConnectGuest
    PROVE  TypeOK'
  <1>0. /\ TypeSrc /\ TypeDst /\ TypeGst /\ TypeNet /\ TypeVm
      /\ SrcConnectGuest /\ UNCHANGED <<dstVars, guestVars, vmVars>>
    BY DEF TypeOK, SrcConnectGuest
  <1>1. TypeSrc'
    BY <1>0 DEF SrcConnectGuest, TypeSrc, SrcPc
  <1>2. TypeNet'
    BY <1>0, SrcConnType, PortTypes, PeerType, ConnectedType
    DEF SrcConnectGuest, TypeSrc, Kind, Msg
  <1> QED BY <1>0, <1>1, <1>2, UnchangedTypes DEF TypeOK

LEMMA SrcSendGuestType ==
    ASSUME TypeOK, SrcSendGuest
    PROVE  TypeOK'
  <1>0. /\ TypeSrc /\ TypeDst /\ TypeGst /\ TypeNet /\ TypeVm
      /\ SrcSendGuest /\ UNCHANGED <<dstVars, guestVars, vmVars>>
    BY DEF TypeOK, SrcSendGuest
  <1>1. TypeSrc'
    BY <1>0 DEF SrcSendGuest, TypeSrc, SrcPc
  <1>2. TypeNet'
    BY <1>0, SrcConnType DEF SrcSendGuest, TypeNet, Channel, Kind, Msg
  <1> QED BY <1>0, <1>1, <1>2, UnchangedTypes DEF TypeOK

LEMMA SrcReadGuestType ==
    ASSUME TypeOK, SrcReadGuest
    PROVE  TypeOK'
  <1>0. /\ TypeSrc /\ TypeDst /\ TypeGst /\ TypeNet /\ TypeVm
      /\ SrcReadGuest /\ UNCHANGED <<dstVars, guestVars, vmVars>>
    BY DEF TypeOK, SrcReadGuest
  <1>1. TypeSrc' /\ TypeNet'
    <2>0. SrcConn("guest") \in Conn BY <1>0, SrcConnType DEF SrcReadGuest, Kind
    <2>1. CASE SrcCloses BY <1>0, <2>1, SrcClosesType DEF SrcReadGuest
    <2>2. CASE ClientReads(SrcConn("guest")) /\ spc' = "connDest" /\ UNCHANGED <<listening, queue>>
    <3>1. TypeSrc' BY <1>0, <2>2 DEF SrcReadGuest, TypeSrc, SrcPc
    <3>2. TypeNet' BY <1>0, <2>0, <2>2, ClientReadsType
    <3> QED BY <3>1, <3>2
    <2> QED BY <1>0, <2>1, <2>2 DEF SrcReadGuest
  <1> QED BY <1>0, <1>1, UnchangedTypes DEF TypeOK

LEMMA SrcConnectDestType ==
    ASSUME TypeOK, SrcConnectDest
    PROVE  TypeOK'
  <1>0. /\ TypeSrc /\ TypeDst /\ TypeGst /\ TypeNet /\ TypeVm
      /\ SrcConnectDest /\ UNCHANGED <<dstVars, guestVars, vmVars>>
    BY DEF TypeOK, SrcConnectDest
  <1>1. TypeSrc'
    BY <1>0 DEF SrcConnectDest, TypeSrc, SrcPc
  <1>2. TypeNet'
    BY <1>0, SrcConnType, PortTypes, PeerType, ConnectedType
    DEF SrcConnectDest, TypeSrc, Kind, Msg
  <1> QED BY <1>0, <1>1, <1>2, UnchangedTypes DEF TypeOK

LEMMA SrcSendDestType ==
    ASSUME TypeOK, SrcSendDest
    PROVE  TypeOK'
  <1>0. /\ TypeSrc /\ TypeDst /\ TypeGst /\ TypeNet /\ TypeVm
      /\ SrcSendDest /\ UNCHANGED <<dstVars, guestVars, vmVars>>
    BY DEF TypeOK, SrcSendDest
  <1>1. TypeSrc'
    BY <1>0 DEF SrcSendDest, TypeSrc, SrcPc
  <1>2. TypeNet'
    BY <1>0, SrcConnType DEF SrcSendDest, TypeNet, Channel, Kind, Msg
  <1> QED BY <1>0, <1>1, <1>2, UnchangedTypes DEF TypeOK

LEMMA SrcListenType ==
    ASSUME TypeOK, SrcListen
    PROVE  TypeOK'
  <1>0. /\ TypeSrc /\ TypeDst /\ TypeGst /\ TypeNet /\ TypeVm
      /\ SrcListen /\ UNCHANGED <<dstVars, guestVars, vmVars>>
    BY DEF TypeOK, SrcListen
  <1>1. TypeSrc'
    BY <1>0 DEF SrcListen, TypeSrc, SrcPc
  <1>2. TypeNet'
    BY <1>0, PortTypes DEF SrcListen, TypeNet, TypeSrc
  <1> QED BY <1>0, <1>1, <1>2, UnchangedTypes DEF TypeOK

LEMMA SrcAcceptType ==
    ASSUME TypeOK, SrcAccept
    PROVE  TypeOK'
  <1>0. /\ TypeSrc /\ TypeDst /\ TypeGst /\ TypeNet /\ TypeVm
      /\ SrcAccept /\ UNCHANGED <<dstVars, guestVars, vmVars>>
    BY DEF TypeOK, SrcAccept
  <1>1. TypeSrc'
    BY <1>0 DEF SrcAccept, TypeSrc, SrcPc
  <1>2. TypeNet'
    BY <1>0, PortTypes, AcceptsType DEF SrcAccept, TypeSrc
  <1> QED BY <1>0, <1>1, <1>2, UnchangedTypes DEF TypeOK

LEMMA SrcReadType ==
    ASSUME TypeOK, SrcRead
    PROVE  TypeOK'
  <1>0. /\ TypeSrc /\ TypeDst /\ TypeGst /\ TypeNet /\ TypeVm
      /\ SrcRead /\ UNCHANGED <<dstVars, guestVars, netVars, vmVars>>
    BY DEF TypeOK, SrcRead
  <1>1. TypeSrc'
    BY <1>0 DEF SrcRead, TypeSrc, SrcPc
  <1> QED BY <1>0, <1>1, UnchangedTypes DEF TypeOK

LEMMA SrcUnplugType ==
    ASSUME TypeOK, SrcUnplug
    PROVE  TypeOK'
  <1>0. /\ TypeSrc /\ TypeDst /\ TypeGst /\ TypeNet /\ TypeVm
      /\ SrcUnplug /\ UNCHANGED <<dstVars, guestVars, netVars>>
    BY DEF TypeOK, SrcUnplug
  <1>1. TypeSrc'
    BY <1>0 DEF SrcUnplug, TypeSrc, SrcPc
  <1>2. TypeVm'
    BY <1>0 DEF SrcUnplug, TypeVm
  <1> QED BY <1>0, <1>1, <1>2, UnchangedTypes DEF TypeOK

LEMMA SrcUnbindType ==
    ASSUME TypeOK, SrcUnbind
    PROVE  TypeOK'
  <1>0. /\ TypeSrc /\ TypeDst /\ TypeGst /\ TypeNet /\ TypeVm
      /\ SrcUnbind /\ UNCHANGED <<dstVars, guestVars, netVars, vmVars>>
    BY DEF TypeOK, SrcUnbind
  <1>1. TypeSrc'
    BY <1>0 DEF SrcUnbind, TypeSrc, SrcPc
  <1> QED BY <1>0, <1>1, UnchangedTypes DEF TypeOK

LEMMA SrcMigrateType ==
    ASSUME TypeOK, SrcMigrate
    PROVE  TypeOK'
  <1>0. /\ TypeSrc /\ TypeDst /\ TypeGst /\ TypeNet /\ TypeVm
      /\ SrcMigrate /\ UNCHANGED <<dstVars, guestVars, netVars>>
    BY DEF TypeOK, SrcMigrate
  <1>1. TypeSrc'
    BY <1>0 DEF SrcMigrate, TypeSrc, SrcPc
  <1>2. TypeVm'
    BY <1>0 DEF SrcMigrate, TypeVm
  <1> QED BY <1>0, <1>1, <1>2, UnchangedTypes DEF TypeOK

LEMMA SrcHotplugType ==
    ASSUME TypeOK, SrcHotplug
    PROVE  TypeOK'
  <1>0. /\ TypeSrc /\ TypeDst /\ TypeGst /\ TypeNet /\ TypeVm
      /\ SrcHotplug /\ UNCHANGED <<dstVars, guestVars, vmVars>>
    BY DEF TypeOK, SrcHotplug
  <1>1. TypeSrc'
    BY <1>0 DEF SrcHotplug, TypeSrc, SrcPc
  <1>2. TypeNet'
    BY <1>0, SrcConnType, PortTypes, PeerType, OneShotType
    DEF SrcHotplug, TypeSrc, Kind, Msg
  <1> QED BY <1>0, <1>1, <1>2, UnchangedTypes DEF TypeOK

LEMMA SrcCompletedType ==
    ASSUME TypeOK, SrcCompleted
    PROVE  TypeOK'
  <1>0. /\ TypeSrc /\ TypeDst /\ TypeGst /\ TypeNet /\ TypeVm
      /\ SrcCompleted /\ UNCHANGED <<dstVars, guestVars, vmVars>>
    BY DEF TypeOK, SrcCompleted
  <1>1. TypeSrc'
    BY <1>0 DEF SrcCompleted, TypeSrc, SrcPc
  <1>2. TypeNet'
    <2>1. /\ P3535(shost) \in Port /\ P9797(Peer(shost)) \in Port /\ SrcConn("done") \in Conn
    BY <1>0, PortTypes, PeerType, SrcConnType DEF SrcCompleted, TypeSrc, Kind
    <2>2. /\ listening \in [Port -> BOOLEAN] /\ queue \in [Port -> Seq(Conn)]
        /\ conn \in [Conn -> Channel]
    BY <1>0 DEF TypeNet
    <2>3. Append(queue[P9797(Peer(shost))], SrcConn("done")) \in Seq(Conn)
    BY <2>1, <2>2, AppendProperties
    <2>4. P9797(Peer(shost)) # P3535(shost) BY DEF P9797, P3535
    <2>5. queue' = [queue EXCEPT ![P3535(shost)] = <<>>,
                               ![P9797(Peer(shost))] = Append(@, SrcConn("done"))]
    BY <1>0 DEF SrcCompleted
    <2>6. queue' \in [Port -> Seq(Conn)]
    <3>1. queue'[P3535(shost)] = <<>> /\ <<>> \in Seq(Conn)
      BY <2>1, <2>2, <2>4, <2>5
    <3>2. queue'[P9797(Peer(shost))] \in Seq(Conn) BY <2>1, <2>2, <2>3, <2>4, <2>5
    <3>3. \A p \in Port : p # P3535(shost) /\ p # P9797(Peer(shost))
            => queue'[p] = queue[p]
      BY <2>2, <2>5
    <3> QED BY <2>2, <2>5, <3>1, <3>2, <3>3
    <2>7. listening' \in [Port -> BOOLEAN] BY <1>0, <2>1, <2>2 DEF SrcCompleted
    <2>8. [up |-> "Done", down |-> "", cli |-> FALSE, srv |-> TRUE] \in Channel
    BY DEF Channel, Msg
    <2>9. \A c \in Conn : conn[c] \in Channel BY <2>2
    <2>10. conn' \in [Conn -> Channel] BY <1>0, <2>8, <2>9, ClosedChannel DEF SrcCompleted
    <2> QED BY <2>6, <2>7, <2>10 DEF TypeNet
  <1> QED BY <1>0, <1>1, <1>2, UnchangedTypes DEF TypeOK

LEMMA SrcFailedType ==
    ASSUME TypeOK, SrcFailed
    PROVE  TypeOK'
  <1>0. /\ TypeSrc /\ TypeDst /\ TypeGst /\ TypeNet /\ TypeVm
      /\ SrcFailed /\ UNCHANGED <<dstVars, guestVars, vmVars>>
    BY DEF TypeOK, SrcFailed
  <1>1. TypeSrc' /\ TypeNet'
    BY <1>0, SrcClosesType DEF SrcFailed
  <1> QED BY <1>0, <1>1, UnchangedTypes DEF TypeOK

LEMMA AlbCompletedType ==
    ASSUME TypeOK, AlbCompleted
    PROVE  TypeOK'
  <1>0. /\ TypeSrc /\ TypeDst /\ TypeGst /\ TypeNet /\ TypeVm
      /\ AlbCompleted /\ UNCHANGED <<dstVars, guestVars, vmVars>>
    BY DEF TypeOK, AlbCompleted
  <1>1. TypeSrc'
    BY <1>0 DEF AlbCompleted, TypeSrc, SrcPc
  <1>2. TypeNet'
    BY <1>0, SrcConnType, PortTypes, PeerType, OneShotType
    DEF AlbCompleted, TypeSrc, Kind, Msg
  <1> QED BY <1>0, <1>1, <1>2, UnchangedTypes DEF TypeOK

LEMMA AlbFailedType ==
    ASSUME TypeOK, AlbFailed
    PROVE  TypeOK'
  <1>0. /\ TypeSrc /\ TypeDst /\ TypeGst /\ TypeNet /\ TypeVm
      /\ AlbFailed /\ UNCHANGED <<dstVars, guestVars, netVars, vmVars>>
    BY DEF TypeOK, AlbFailed
  <1>1. TypeSrc'
    BY <1>0 DEF AlbFailed, TypeSrc, SrcPc
  <1> QED BY <1>0, <1>1, UnchangedTypes DEF TypeOK

LEMMA SrcKilledType ==
    ASSUME TypeOK, SrcKilled
    PROVE  TypeOK'
  <1>0. /\ TypeSrc /\ TypeDst /\ TypeGst /\ TypeNet /\ TypeVm
      /\ SrcKilled /\ UNCHANGED <<dstVars, guestVars, vmVars>>
    BY DEF TypeOK, SrcKilled
  <1>1. TypeSrc' /\ TypeNet'
    BY <1>0, SrcClosesType DEF SrcKilled
  <1> QED BY <1>0, <1>1, UnchangedTypes DEF TypeOK

LEMMA GstAcceptType ==
    ASSUME TypeOK, GstAccept
    PROVE  TypeOK'
  <1>0. /\ TypeSrc /\ TypeDst /\ TypeGst /\ TypeNet /\ TypeVm
      /\ GstAccept /\ UNCHANGED <<srcVars, dstVars, vmVars>>
    BY DEF TypeOK, GstAccept
  <1>1. TypeGst'
    BY <1>0, PortTypes, AcceptsType DEF GstAccept, TypeGst, GstPc
  <1>2. TypeNet'
    BY <1>0, PortTypes, AcceptsType DEF GstAccept
  <1> QED BY <1>0, <1>1, <1>2, UnchangedTypes DEF TypeOK

LEMMA GstReadType ==
    ASSUME TypeOK, GstRead
    PROVE  TypeOK'
  <1>0. /\ TypeSrc /\ TypeDst /\ TypeGst /\ TypeNet /\ TypeVm
      /\ GstRead /\ UNCHANGED <<srcVars, dstVars, vmVars>>
    BY DEF TypeOK, GstRead
  <1>1. TypeGst'
    BY <1>0 DEF GstRead, TypeGst, GstPc
  <1>2. TypeNet'
    BY <1>0, ServerReadsType DEF GstRead, TypeGst
  <1> QED BY <1>0, <1>1, <1>2, UnchangedTypes DEF TypeOK

LEMMA GstRemoveType ==
    ASSUME TypeOK, GstRemove
    PROVE  TypeOK'
  <1>0. /\ TypeSrc /\ TypeDst /\ TypeGst /\ TypeNet /\ TypeVm
      /\ GstRemove /\ UNCHANGED <<srcVars, dstVars, netVars>>
    BY DEF TypeOK, GstRemove
  <1>1. TypeGst'
    BY <1>0 DEF GstRemove, TypeGst, GstPc
  <1>2. TypeVm'
    BY <1>0 DEF GstRemove, TypeVm
  <1> QED BY <1>0, <1>1, <1>2, UnchangedTypes DEF TypeOK

LEMMA GstReplyType ==
    ASSUME TypeOK, GstReply
    PROVE  TypeOK'
  <1>0. /\ TypeSrc /\ TypeDst /\ TypeGst /\ TypeNet /\ TypeVm
      /\ GstReply /\ UNCHANGED <<srcVars, dstVars, vmVars>>
    BY DEF TypeOK, GstReply
  <1>1. TypeGst'
    BY <1>0 DEF GstReply, TypeGst, GstPc
  <1>2. TypeNet'
    BY <1>0 DEF GstReply, TypeGst, TypeNet, Channel
  <1> QED BY <1>0, <1>1, <1>2, UnchangedTypes DEF TypeOK

LEMMA GstBindType ==
    ASSUME TypeOK, GstBind
    PROVE  TypeOK'
  <1>0. /\ TypeSrc /\ TypeDst /\ TypeGst /\ TypeNet /\ TypeVm
      /\ GstBind /\ UNCHANGED <<srcVars, dstVars, vmVars>>
    BY DEF TypeOK, GstBind
  <1>1. TypeGst'
    BY <1>0 DEF GstBind, TypeGst, GstPc
  <1>2. TypeNet'
    <2>1. \A c \in Conn : conn[c] \in Channel BY <1>0 DEF TypeNet
    <2>2. /\ listening \in [Port -> BOOLEAN] /\ queue \in [Port -> Seq(Conn)]
        /\ <<>> \in Seq(Conn)
    BY <1>0 DEF TypeNet
    <2>4. listening' \in [Port -> BOOLEAN] BY <1>0, <2>2 DEF GstBind
    <2>5. queue' \in [Port -> Seq(Conn)] BY <1>0, <2>2 DEF GstBind
    <2>3. conn' \in [Conn -> Channel] BY <1>0, <2>1, ClosedChannel DEF GstBind, TypeNet
    <2> QED BY <2>3, <2>4, <2>5 DEF TypeNet
  <1> QED BY <1>0, <1>1, <1>2, UnchangedTypes DEF TypeOK

LEMMA GstAccept2Type ==
    ASSUME TypeOK, GstAccept2
    PROVE  TypeOK'
  <1>0. /\ TypeSrc /\ TypeDst /\ TypeGst /\ TypeNet /\ TypeVm
      /\ GstAccept2 /\ UNCHANGED <<srcVars, dstVars, vmVars>>
    BY DEF TypeOK, GstAccept2
  <1>1. TypeGst'
    BY <1>0, PortTypes, AcceptsType DEF GstAccept2, TypeGst, GstPc
  <1>2. TypeNet'
    BY <1>0, PortTypes, AcceptsType DEF GstAccept2
  <1> QED BY <1>0, <1>1, <1>2, UnchangedTypes DEF TypeOK

LEMMA GstRead2Type ==
    ASSUME TypeOK, GstRead2
    PROVE  TypeOK'
  <1>0. /\ TypeSrc /\ TypeDst /\ TypeGst /\ TypeNet /\ TypeVm
      /\ GstRead2 /\ UNCHANGED <<srcVars, dstVars, vmVars>>
    BY DEF TypeOK, GstRead2
  <1>1. TypeGst'
    BY <1>0 DEF GstRead2, TypeGst, GstPc
  <1>2. TypeNet'
    BY <1>0, ServerReadsType DEF GstRead2, TypeGst
  <1> QED BY <1>0, <1>1, <1>2, UnchangedTypes DEF TypeOK

LEMMA GstReply2Type ==
    ASSUME TypeOK, GstReply2
    PROVE  TypeOK'
  <1>0. /\ TypeSrc /\ TypeDst /\ TypeGst /\ TypeNet /\ TypeVm
      /\ GstReply2 /\ UNCHANGED <<srcVars, dstVars, vmVars>>
    BY DEF TypeOK, GstReply2
  <1>1. TypeGst'
    BY <1>0 DEF GstReply2, TypeGst, GstPc
  <1>2. TypeNet'
    BY <1>0 DEF GstReply2, TypeGst, TypeNet, Channel
  <1> QED BY <1>0, <1>1, <1>2, UnchangedTypes DEF TypeOK

LEMMA GstWaitUpType ==
    ASSUME TypeOK, GstWaitUp
    PROVE  TypeOK'
  <1>0. /\ TypeSrc /\ TypeDst /\ TypeGst /\ TypeNet /\ TypeVm
      /\ GstWaitUp /\ UNCHANGED <<srcVars, dstVars, netVars, vmVars>>
    BY DEF TypeOK, GstWaitUp
  <1>1. TypeGst'
    BY <1>0 DEF GstWaitUp, TypeGst, GstPc
  <1> QED BY <1>0, <1>1, UnchangedTypes DEF TypeOK

LEMMA GstEnslaveType ==
    ASSUME TypeOK, GstEnslave
    PROVE  TypeOK'
  <1>0. /\ TypeSrc /\ TypeDst /\ TypeGst /\ TypeNet /\ TypeVm
      /\ GstEnslave /\ UNCHANGED <<srcVars, dstVars, netVars>>
    BY DEF TypeOK, GstEnslave
  <1>1. TypeGst'
    BY <1>0 DEF GstEnslave, TypeGst, GstPc
  <1>2. TypeVm'
    BY <1>0 DEF GstEnslave, TypeVm
  <1> QED BY <1>0, <1>1, <1>2, UnchangedTypes DEF TypeOK

LEMMA GuestRebootsType ==
    ASSUME TypeOK, GuestReboots
    PROVE  TypeOK'
  <1>0. /\ TypeSrc /\ TypeDst /\ TypeGst /\ TypeNet /\ TypeVm
      /\ GuestReboots /\ UNCHANGED <<srcVars, dstVars>>
    BY DEF TypeOK, GuestReboots
  <1>1. TypeGst'
    BY <1>0 DEF GuestReboots, TypeGst, GstPc
  <1>2. TypeNet'
    <2>1. \A c \in Conn : conn[c] \in Channel BY <1>0 DEF TypeNet
    <2>2. /\ listening \in [Port -> BOOLEAN] /\ queue \in [Port -> Seq(Conn)]
        /\ <<>> \in Seq(Conn)
    BY <1>0 DEF TypeNet
    <2>4. listening' \in [Port -> BOOLEAN] BY <1>0, <2>2 DEF GuestReboots
    <2>5. queue' \in [Port -> Seq(Conn)] BY <1>0, <2>2 DEF GuestReboots
    <2>6. conn' = [c \in Conn |-> IF c[1] \in {"guest", "up"}
                                  THEN [conn[c] EXCEPT !.srv = FALSE] ELSE conn[c]]
      BY <1>0 DEF GuestReboots
    <2>7. \A c \in Conn : [conn[c] EXCEPT !.srv = FALSE] \in Channel
      BY <2>1, ClosedChannel
    <2>3. conn' \in [Conn -> Channel] BY <2>1, <2>6, <2>7
    <2> QED BY <2>3, <2>4, <2>5 DEF TypeNet
  <1>3. TypeVm'
    <2>1. boots' \in 1..MaxBoots BY <1>0, BoundsAssumption DEF GuestReboots, TypeVm
    <2>2. nic' \in [Host -> {"absent", "created", "half", "plugged", "unplugging"}]
      BY <1>0 DEF GuestReboots, TypeVm
    <2>3. gnic' \in {"absent", "up", "down"} BY <1>0 DEF GuestReboots
    <2>4. bond' \in [slaves : SUBSET {"ens3", "ens4"}, active : {"ens3", "ens4"}]
      <3>1. CASE gnic = "absent" \/ nic[vmhost] = "unplugging"
        BY <1>0, <3>1 DEF GuestReboots
      <3>2. CASE ~(gnic = "absent" \/ nic[vmhost] = "unplugging")
        BY <1>0, <3>2 DEF GuestReboots
      <3> QED BY <3>1, <3>2
    <2>5. UNCHANGED <<qemu, mig, vmhost>> BY <1>0 DEF GuestReboots
    <2> QED BY <1>0, <2>1, <2>2, <2>3, <2>4, <2>5 DEF TypeVm
  <1> QED BY <1>0, <1>1, <1>2, <1>3, UnchangedTypes DEF TypeOK

LEMMA DstAcceptType ==
    ASSUME TypeOK, NEW h \in Host, DstAccept(h)
    PROVE  TypeOK'
  <1>0. /\ TypeSrc /\ TypeDst /\ TypeGst /\ TypeNet /\ TypeVm
      /\ DstAccept(h) /\ UNCHANGED <<srcVars, guestVars, vmVars>>
    BY DEF TypeOK, DstAccept
  <1>1. TypeDst'
    BY <1>0, PortTypes, AcceptsType DEF DstAccept, TypeDst, DstPc
  <1>2. TypeNet'
    BY <1>0, PortTypes, AcceptsType DEF DstAccept
  <1> QED BY <1>0, <1>1, <1>2, UnchangedTypes DEF TypeOK

LEMMA DstReadType ==
    ASSUME TypeOK, NEW h \in Host, DstRead(h)
    PROVE  TypeOK'
  <1>0. /\ TypeSrc /\ TypeDst /\ TypeGst /\ TypeNet /\ TypeVm
      /\ DstRead(h) /\ UNCHANGED <<srcVars, guestVars, vmVars>>
    BY DEF TypeOK, DstRead
  <1>1. TypeDst'
    BY <1>0 DEF DstRead, TypeDst, DstPc
  <1>2. TypeNet'
    BY <1>0, DstConnType, ServerReadsType DEF DstRead, Kind
  <1> QED BY <1>0, <1>1, <1>2, UnchangedTypes DEF TypeOK

LEMMA DstSetupType ==
    ASSUME TypeOK, NEW h \in Host, DstSetup(h)
    PROVE  TypeOK'
  <1>0. /\ TypeSrc /\ TypeDst /\ TypeGst /\ TypeNet /\ TypeVm
      /\ DstSetup(h) /\ UNCHANGED <<srcVars, guestVars, netVars>>
    BY DEF TypeOK, DstSetup
  <1>1. TypeDst'
    BY <1>0 DEF DstSetup, TypeDst, DstPc
  <1>2. TypeVm'
    BY <1>0 DEF DstSetup, TypeVm
  <1> QED BY <1>0, <1>1, <1>2, UnchangedTypes DEF TypeOK

LEMMA DstNotifyType ==
    ASSUME TypeOK, NEW h \in Host, DstNotify(h)
    PROVE  TypeOK'
  <1>0. /\ TypeSrc /\ TypeDst /\ TypeGst /\ TypeNet /\ TypeVm
      /\ DstNotify(h) /\ UNCHANGED <<srcVars, guestVars, vmVars>>
    BY DEF TypeOK, DstNotify
  <1>1. TypeDst'
    BY <1>0 DEF DstNotify, TypeDst, DstPc
  <1>2. TypeNet'
    <2>1. CASE CanConnect(P3535(Peer(h)))
    <3>1. P3535(Peer(h)) \in Port BY PortTypes, PeerType
    <3>2. <<"prepared", dcur[h][2]>> \in Conn BY <1>0, DstConnType DEF DstNotify, Kind
    <3> QED BY <1>0, <2>1, <3>1, <3>2, OneShotType DEF DstNotify, Msg
    <2>2. CASE ~CanConnect(P3535(Peer(h))) BY <1>0, <2>2 DEF DstNotify, TypeNet
    <2> QED BY <2>1, <2>2
  <1> QED BY <1>0, <1>1, <1>2, UnchangedTypes DEF TypeOK

LEMMA DstCreateType ==
    ASSUME TypeOK, NEW h \in Host, DstCreate(h)
    PROVE  TypeOK'
  <1>0. /\ TypeSrc /\ TypeDst /\ TypeGst /\ TypeNet /\ TypeVm
      /\ DstCreate(h) /\ UNCHANGED <<srcVars, guestVars, netVars>>
    BY DEF TypeOK, DstCreate
  <1>1. TypeDst'
    BY <1>0 DEF DstCreate, TypeDst, DstPc
  <1>2. TypeVm'
    BY <1>0 DEF DstCreate, TypeVm
  <1> QED BY <1>0, <1>1, <1>2, UnchangedTypes DEF TypeOK

LEMMA DstTopHalfType ==
    ASSUME TypeOK, NEW h \in Host, DstTopHalf(h)
    PROVE  TypeOK'
  <1>0. /\ TypeSrc /\ TypeDst /\ TypeGst /\ TypeNet /\ TypeVm
      /\ DstTopHalf(h) /\ UNCHANGED <<srcVars, guestVars, netVars>>
    BY DEF TypeOK, DstTopHalf
  <1>1. TypeDst'
    BY <1>0 DEF DstTopHalf, TypeDst, DstPc
  <1>2. TypeVm'
    <2>1. CASE QemuCrashes(h) BY <1>0, <2>1, QemuCrashesType DEF DstTopHalf
    <2>2. CASE ~QemuCrashes(h) BY <1>0, <2>2 DEF DstTopHalf, TypeVm
    <2> QED BY <2>1, <2>2
  <1> QED BY <1>0, <1>1, <1>2, UnchangedTypes DEF TypeOK

LEMMA DstConnectGuestType ==
    ASSUME TypeOK, NEW h \in Host, DstConnectGuest(h)
    PROVE  TypeOK'
  <1>0. /\ TypeSrc /\ TypeDst /\ TypeGst /\ TypeNet /\ TypeVm
      /\ DstConnectGuest(h) /\ UNCHANGED <<srcVars, guestVars, vmVars>>
    BY DEF TypeOK, DstConnectGuest
  <1>1. TypeDst'
    BY <1>0 DEF DstConnectGuest, TypeDst, DstPc
  <1>2. TypeNet'
    <2>1. <<"up", dcur[h][2]>> \in Conn BY <1>0, DstConnType DEF DstConnectGuest, Kind
    <2> QED BY <1>0, <2>1, PortTypes, ConnectedType DEF DstConnectGuest
  <1> QED BY <1>0, <1>1, <1>2, UnchangedTypes DEF TypeOK

LEMMA DstSendGuestType ==
    ASSUME TypeOK, NEW h \in Host, DstSendGuest(h)
    PROVE  TypeOK'
  <1>0. /\ TypeSrc /\ TypeDst /\ TypeGst /\ TypeNet /\ TypeVm
      /\ DstSendGuest(h) /\ UNCHANGED <<srcVars, guestVars, vmVars>>
    BY DEF TypeOK, DstSendGuest
  <1>1. TypeDst'
    BY <1>0 DEF DstSendGuest, TypeDst, DstPc
  <1>2. TypeNet'
    <2>1. <<"up", dcur[h][2]>> \in Conn BY <1>0, DstConnType DEF DstSendGuest, Kind
    <2> QED BY <1>0, <2>1 DEF DstSendGuest, TypeNet, Channel, Msg
  <1> QED BY <1>0, <1>1, <1>2, UnchangedTypes DEF TypeOK

LEMMA DstReadGuestType ==
    ASSUME TypeOK, NEW h \in Host, DstReadGuest(h)
    PROVE  TypeOK'
  <1>0. /\ TypeSrc /\ TypeDst /\ TypeGst /\ TypeNet /\ TypeVm
      /\ DstReadGuest(h) /\ UNCHANGED <<srcVars, guestVars, vmVars>>
    BY DEF TypeOK, DstReadGuest
  <1>1. TypeDst'
    BY <1>0 DEF DstReadGuest, TypeDst, DstPc
  <1>2. TypeNet'
    <2>1. <<"up", dcur[h][2]>> \in Conn BY <1>0, DstConnType DEF DstReadGuest, Kind
    <2> QED BY <1>0, <2>1, ClientReadsType DEF DstReadGuest
  <1> QED BY <1>0, <1>1, <1>2, UnchangedTypes DEF TypeOK

LEMMA DstBottomHalfType ==
    ASSUME TypeOK, NEW h \in Host, DstBottomHalf(h)
    PROVE  TypeOK'
  <1>0. /\ TypeSrc /\ TypeDst /\ TypeGst /\ TypeNet /\ TypeVm
      /\ DstBottomHalf(h) /\ UNCHANGED <<srcVars, guestVars, netVars>>
    BY DEF TypeOK, DstBottomHalf
  <1>1. TypeDst'
    BY <1>0 DEF DstBottomHalf, TypeDst, DstPc
  <1>2. TypeVm'
    <2>1. CASE QemuCrashes(h) BY <1>0, <2>1, QemuCrashesType DEF DstBottomHalf
    <2>2. CASE ~QemuCrashes(h) BY <1>0, <2>2 DEF DstBottomHalf, TypeVm
    <2> QED BY <2>1, <2>2
  <1> QED BY <1>0, <1>1, <1>2, UnchangedTypes DEF TypeOK

LEMMA QemuUpType ==
    ASSUME TypeOK, NEW h \in Host, QemuUp(h)
    PROVE  TypeOK'
  <1>0. /\ TypeSrc /\ TypeDst /\ TypeGst /\ TypeNet /\ TypeVm
      /\ QemuUp(h) /\ UNCHANGED <<srcVars, dstVars, guestVars, netVars>>
    BY DEF TypeOK, QemuUp
  <1>1. TypeVm'
    BY <1>0, PeerType DEF QemuUp, TypeVm
  <1> QED BY <1>0, <1>1, UnchangedTypes DEF TypeOK

LEMMA NicReleasedType ==
    ASSUME TypeOK, NEW h \in Host, NicReleased(h)
    PROVE  TypeOK'
  <1>0. /\ TypeSrc /\ TypeDst /\ TypeGst /\ TypeNet /\ TypeVm
      /\ NicReleased(h) /\ UNCHANGED <<srcVars, dstVars, guestVars, netVars>>
    BY DEF TypeOK, NicReleased
  <1>1. TypeVm'
    BY <1>0, PeerType DEF NicReleased, TypeVm
  <1> QED BY <1>0, <1>1, UnchangedTypes DEF TypeOK

LEMMA MigrationCompletesType ==
    ASSUME TypeOK, NEW h \in Host, MigrationCompletes(h)
    PROVE  TypeOK'
  <1>0. /\ TypeSrc /\ TypeDst /\ TypeGst /\ TypeNet /\ TypeVm
      /\ MigrationCompletes(h) /\ UNCHANGED <<srcVars, dstVars, guestVars, netVars>>
    BY DEF TypeOK, MigrationCompletes
  <1>1. TypeVm'
    BY <1>0, PeerType DEF MigrationCompletes, TypeVm
  <1> QED BY <1>0, <1>1, UnchangedTypes DEF TypeOK

LEMMA MigrationFailsType ==
    ASSUME TypeOK, NEW h \in Host, MigrationFails(h)
    PROVE  TypeOK'
  <1>0. /\ TypeSrc /\ TypeDst /\ TypeGst /\ TypeNet /\ TypeVm
      /\ MigrationFails(h) /\ UNCHANGED <<srcVars, dstVars, guestVars, netVars>>
    BY DEF TypeOK, MigrationFails
  <1>1. TypeVm'
    BY <1>0, PeerType DEF MigrationFails, TypeVm
  <1> QED BY <1>0, <1>1, UnchangedTypes DEF TypeOK

LEMMA QemuQuitType ==
    ASSUME TypeOK, NEW h \in Host, QemuQuit(h)
    PROVE  TypeOK'
  <1>0. /\ TypeSrc /\ TypeDst /\ TypeGst /\ TypeNet /\ TypeVm
      /\ QemuQuit(h) /\ UNCHANGED <<srcVars, dstVars, guestVars, netVars>>
    BY DEF TypeOK, QemuQuit
  <1>1. TypeVm'
    BY <1>0, PeerType DEF QemuQuit, TypeVm
  <1> QED BY <1>0, <1>1, UnchangedTypes DEF TypeOK

-----------------------------------------------------------------------------
(* Type correctness *)

LEMMA InitType == Init => TypeOK
  <1> SUFFICES ASSUME Init PROVE TypeOK
    OBVIOUS
  <1>1. TypeSrc BY BoundsAssumption DEF Init, TypeSrc, SrcPc
  <1>2. TypeDst BY DEF Init, TypeDst, DstPc
  <1>3. TypeGst BY DEF Init, TypeGst, GstPc
  <1>4. TypeNet
    <2>1. Unused \in Channel BY DEF Unused, Channel
    <2>2. <<>> \in Seq(Conn) OBVIOUS
    <2>3. queue \in [Port -> Seq(Conn)] BY <2>2 DEF Init
    <2>4. conn \in [Conn -> Channel] BY <2>1 DEF Init
    <2>5. listening \in [Port -> BOOLEAN] BY DEF Init
    <2> QED BY <2>3, <2>4, <2>5 DEF TypeNet
  <1>5. TypeVm BY BoundsAssumption DEF Init, TypeVm, Host
  <1> QED BY <1>1, <1>2, <1>3, <1>4, <1>5 DEF TypeOK

LEMMA StepType == TypeOK /\ [Next]_vars => TypeOK'
  <1> SUFFICES ASSUME TypeOK, [Next]_vars PROVE TypeOK'
    OBVIOUS
  <1>1. CASE SrcStart \/ Source \/ SrcKilled
    BY <1>1, SrcStartType, SrcConnectGuestType, SrcSendGuestType,
       SrcReadGuestType, SrcConnectDestType, SrcSendDestType,
       SrcListenType, SrcAcceptType, SrcReadType, SrcUnplugType,
       SrcUnbindType, SrcMigrateType, SrcHotplugType, SrcCompletedType,
       SrcFailedType, AlbCompletedType, AlbFailedType, SrcKilledType DEF Source
  <1>2. CASE Guest \/ GuestReboots
    BY <1>2, GstAcceptType, GstReadType, GstRemoveType, GstReplyType,
       GstBindType, GstAccept2Type, GstRead2Type, GstReply2Type,
       GstWaitUpType, GstEnslaveType, GuestRebootsType DEF Guest
  <1>3. ASSUME NEW h \in Host, Destination(h)
        PROVE  TypeOK'
    BY <1>3, DstAcceptType, DstReadType, DstSetupType, DstNotifyType,
       DstCreateType, DstTopHalfType, DstConnectGuestType,
       DstSendGuestType, DstReadGuestType, DstBottomHalfType DEF Destination
  <1>4. ASSUME NEW h \in Host, Machine(h) \/ MigrationFails(h) \/ QemuQuit(h)
        PROVE  TypeOK'
    BY <1>4, QemuUpType, NicReleasedType, MigrationCompletesType,
       MigrationFailsType, QemuQuitType DEF Machine
  <1>5. CASE UNCHANGED vars
    BY <1>5, UnchangedTypes DEF TypeOK, vars
  <1> QED BY <1>1, <1>2, <1>3, <1>4, <1>5 DEF Next

\* Every variable of the agents has its type, and an agent that works for a
\* connection or a run has one: no step of any agent, script or fault leaves it
\* with an index into nothing.
THEOREM TypeCorrect == Spec => []TypeOK
  <1> QED BY InitType, StepType, PTL DEF Spec

-----------------------------------------------------------------------------
(* One guest, and its traffic *)

GuestInv == GuestInItsQemu /\ TrafficHasInterface

LEMMA InitGuest == Init => GuestInv
  BY PeerType DEF Init, GuestInv, GuestInItsQemu, TrafficHasInterface

\* A step that leaves the machines alone.
LEMMA UnchangedGuest ==
    ASSUME GuestInv, UNCHANGED vmVars
    PROVE  GuestInv'
  BY DEF GuestInv, GuestInItsQemu, TrafficHasInterface, GuestRuns, vmVars

\* A QEMU that crashes takes its guest with it, and no other QEMU has it.
LEMMA CrashGuest ==
    ASSUME TypeVm, GuestInv, NEW h \in Host, QemuCrashes(h), UNCHANGED bond
    PROVE  GuestInv'
  <1>1. GuestInItsQemu'
    BY PeerType DEF TypeVm, GuestInv, GuestInItsQemu, QemuCrashes
  <1>2. TrafficHasInterface'
    BY PeerType DEF GuestInv, TrafficHasInterface, GuestRuns, QemuCrashes
  <1> QED BY <1>1, <1>2 DEF GuestInv

LEMMA StepGuest == TypeOK /\ GuestInv /\ [Next]_vars => GuestInv'
  <1> SUFFICES ASSUME TypeOK, GuestInv, [Next]_vars PROVE GuestInv'
    OBVIOUS
  <1>0. TypeVm /\ TypeSrc BY DEF TypeOK
  <1> USE DEF GuestInv
  <1>1. CASE SrcUnplug
    BY <1>0, <1>1 DEF SrcUnplug, GuestInItsQemu, TrafficHasInterface, GuestRuns
  <1>2. CASE SrcMigrate
    BY <1>0, <1>2 DEF SrcMigrate, TypeVm, TypeSrc, GuestInItsQemu,
                      TrafficHasInterface, GuestRuns
  <1>3. CASE \/ SrcStart \/ SrcConnectGuest \/ SrcSendGuest \/ SrcReadGuest
             \/ SrcConnectDest \/ SrcSendDest \/ SrcListen \/ SrcAccept \/ SrcRead
             \/ SrcUnbind \/ SrcHotplug \/ SrcCompleted \/ SrcFailed \/ SrcKilled
             \/ AlbCompleted \/ AlbFailed
    <2>1. UNCHANGED vmVars
      BY <1>3 DEF SrcStart, SrcConnectGuest, SrcSendGuest, SrcReadGuest,
                  SrcConnectDest, SrcSendDest, SrcListen, SrcAccept, SrcRead,
                  SrcUnbind, SrcHotplug, SrcCompleted, SrcFailed, SrcKilled,
                  AlbCompleted, AlbFailed
    <2> QED BY <2>1, UnchangedGuest
  <1>4. CASE GstRemove
    BY <1>0, <1>4 DEF GstRemove, TypeVm, GuestInItsQemu, TrafficHasInterface, GuestRuns
  <1>5. CASE GstEnslave
    BY <1>0, <1>5 DEF GstEnslave, TypeVm, GuestInItsQemu, TrafficHasInterface, GuestRuns
  <1>6. CASE GuestReboots
    BY <1>0, <1>6 DEF GuestReboots, TypeVm, GuestInItsQemu, TrafficHasInterface, GuestRuns
  <1>7. CASE \/ GstAccept \/ GstRead \/ GstReply \/ GstBind \/ GstAccept2
             \/ GstRead2 \/ GstReply2 \/ GstWaitUp
    <2>1. UNCHANGED vmVars
      BY <1>7 DEF GstAccept, GstRead, GstReply, GstBind, GstAccept2, GstRead2,
                  GstReply2, GstWaitUp
    <2> QED BY <2>1, UnchangedGuest
  <1>8. ASSUME NEW h \in Host, Destination(h)
        PROVE  GuestInv'
    <2>1. CASE DstSetup(h)
      BY <1>0, <2>1 DEF DstSetup, TypeVm, GuestInItsQemu, TrafficHasInterface, GuestRuns
    <2>2. CASE DstCreate(h)
      BY <1>0, <2>2 DEF DstCreate, GuestInItsQemu, TrafficHasInterface, GuestRuns
    <2>3. CASE DstTopHalf(h)
      <3>1. CASE QemuCrashes(h) BY <1>0, <2>3, <3>1, CrashGuest DEF DstTopHalf
      <3>2. CASE UNCHANGED <<qemu, mig, vmhost, gnic, bond>>
        BY <3>2 DEF GuestInItsQemu, TrafficHasInterface, GuestRuns
      <3> QED BY <2>3, <3>1, <3>2 DEF DstTopHalf
    <2>4. CASE DstBottomHalf(h)
      <3>1. CASE QemuCrashes(h) BY <1>0, <2>4, <3>1, CrashGuest DEF DstBottomHalf
      <3>2. CASE UNCHANGED <<qemu, mig, vmhost, bond>> /\ gnic' \in {gnic, "up"}
        BY <3>2 DEF GuestInItsQemu, TrafficHasInterface, GuestRuns
      <3> QED BY <2>4, <3>1, <3>2 DEF DstBottomHalf
    <2>5. CASE \/ DstAccept(h) \/ DstRead(h) \/ DstNotify(h) \/ DstConnectGuest(h)
               \/ DstSendGuest(h) \/ DstReadGuest(h)
      <3>1. UNCHANGED vmVars
        BY <2>5 DEF DstAccept, DstRead, DstNotify, DstConnectGuest, DstSendGuest,
                    DstReadGuest
      <3> QED BY <3>1, UnchangedGuest
    <2> QED BY <1>8, <2>1, <2>2, <2>3, <2>4, <2>5 DEF Destination
  <1>9. ASSUME NEW h \in Host, Machine(h) \/ MigrationFails(h) \/ QemuQuit(h)
        PROVE  GuestInv'
    <2>1. CASE QemuUp(h)
      BY <1>0, <2>1 DEF QemuUp, TypeVm, GuestInItsQemu, TrafficHasInterface, GuestRuns
    <2>2. CASE NicReleased(h)
      BY <1>0, <2>2 DEF NicReleased, TypeVm, GuestInItsQemu, TrafficHasInterface, GuestRuns
    <2>3. CASE MigrationCompletes(h)
      <3>1. vmhost = h /\ \A k \in Host : k # h => k = Peer(h)
        BY <2>3 DEF MigrationCompletes, GuestInItsQemu, Host, Peer
      <3>2. GuestInItsQemu'
        BY <1>0, <2>3, <3>1, PeerType DEF MigrationCompletes, TypeVm, GuestInItsQemu
      <3>3. TrafficHasInterface'
        BY <2>3, <3>1 DEF MigrationCompletes, TrafficHasInterface, GuestRuns
      <3> QED BY <3>2, <3>3
    <2>4. CASE MigrationFails(h)
      BY <1>0, <2>4, PeerType DEF MigrationFails, TypeVm, GuestInItsQemu,
                                  TrafficHasInterface, GuestRuns
    <2>5. CASE QemuQuit(h)
      BY <1>0, <2>5 DEF QemuQuit, TypeVm, GuestInItsQemu, TrafficHasInterface, GuestRuns
    <2> QED BY <1>9, <2>1, <2>2, <2>3, <2>4, <2>5 DEF Machine
  <1>10. CASE UNCHANGED vars BY <1>10, UnchangedGuest DEF vars
  <1> QED BY <1>1, <1>2, <1>3, <1>4, <1>5, <1>6, <1>7, <1>8, <1>9, <1>10
          DEF Next, Source, Guest

LEMMA GuestInvariant == Spec => []GuestInv
  <1> QED BY InitGuest, StepGuest, TypeCorrect, PTL DEF Spec

\* The guest never sends over an interface that is not there or not up.
THEOREM TrafficSafe == Spec => []TrafficHasInterface
  <1>1. GuestInv => TrafficHasInterface BY DEF GuestInv
  <1> QED BY <1>1, GuestInvariant, PTL

\* Whatever is killed, fails or is lost, the guest never runs in two QEMUs.
THEOREM OneGuest == Spec => []OneGuestRuns
  <1>1. GuestInv => OneGuestRuns
    BY HostsAssumption DEF GuestInv, GuestInItsQemu, OneGuestRuns, Host
  <1> QED BY <1>1, GuestInvariant, PTL

-----------------------------------------------------------------------------
(* The handover of the NIC.  The guest answers a source agent once in a    *)
(* cycle of its own: from then on its agent stays in the cycle until a NIC *)
(* comes up, only the source it answered may go on, and at most one        *)
(* destination agent has work.                                             *)

\* The guest agent has given the NIC away and waits for another.
Cycle == {"bind", "accept2", "read2", "reply2", "waitUp", "exited"}

\* The load balancer's agent is back in accept() after a "Done" of its run.
Ended == spc = "accept" /\ conn[SrcConn("done")].srv

\* The source has the guest's answer, or has it in its socket.
Prepared ==
    \/ spc \in {"sendGuest", "readGuest"} /\ conn[SrcConn("guest")].down = "prepared"
    \/ /\ spc \in {"connDest", "sendDest", "listen", "accept", "read", "unplug",
                   "unbind", "migrate", "hotplug", "status"}
       /\ ~Ended

\* The destination agent of h works on a "Done", or never will again.
Serving(h) == \/ dpc[h] \in {"sendGuest", "readGuest", "bottom"}
              \/ dpc[h] = "connGuest" /\ ~upUsed[h]
Stuck(h) == dpc[h] = "connGuest" /\ upUsed[h]

\* A "Done" waits for the destination agent of h or is being worked on.
Reading(h) == dpc[h] = "read" /\ dcur[h][1] = "done"
Waiting(h) == \E i \in 1..Len(queue[P9797(h)]) : queue[P9797(h)][i][1] = "done"
DoneDue(h) == (~Stuck(h) /\ Waiting(h)) \/ Reading(h) \/ Serving(h)

\* The "Done" on connection c waits for the agent of h or is being worked on.
DueOn(h, c) ==
    \/ ~Stuck(h) /\ c[1] = "done" /\ \E i \in 1..Len(queue[P9797(h)]) : queue[P9797(h)][i] = c
    \/ (Reading(h) \/ Serving(h)) /\ dcur[h] = c

\* What the connections of each port are for.
KindInv ==
    /\ \A i \in 1..Len(queue[P1818]) : queue[P1818][i][1] = "up"
    /\ gpc \in {"read2", "reply2"} => gcur[1] = "up"
    /\ \A c \in Conn : conn[c].up = "Done" => c[1] = "done"

\* "Done" is the last message a destination agent gets.
LastInv == \A h \in Host : ~Stuck(h) =>
    /\ \A i \in 1..(Len(queue[P9797(h)]) - 1) : queue[P9797(h)][i][1] # "done"
    /\ Serving(h) \/ Reading(h) => queue[P9797(h)] = <<>>

\* Which QEMU has the guest, and what a migration needs of both.
VmInv == \A h \in Host :
    /\ vmhost = h <=> qemu[h] = "running"
    /\ mig[h] = "active" => /\ vmhost = h /\ qemu[Peer(h)] = "incoming"
                            /\ nic[h] = "absent" /\ gnic = "absent"
    /\ mig[h] = "completed" => qemu[h] = "postmigrate"

\* While the guest moves, the agent of the host it leaves has nothing to do.
MovingInv == \A h \in Host :
    mig[h] = "active" => Quiet(h) /\ spc \in {"off", "hotplug", "status"}

\* How the guest's view of the NIC follows QEMU's.
NicInv ==
    /\ gnic # "absent" => vmhost \in Host /\ nic[vmhost] \in {"plugged", "unplugging"}
    /\ \A h \in Host : nic[h] = "unplugging"
                         => bond.active = "ens3" /\ gnic # "up" /\ gpc \in Cycle
    /\ gpc \in Cycle \cup {"reply"} => bond.active = "ens3"
    /\ gpc = "reply" => gnic # "up"

SourceInv ==
    /\ spc \in {"connGuest", "sendGuest", "readGuest"} => vmhost \in {shost, "lost"}
    /\ Prepared => /\ gpc \in Cycle /\ gnic # "up" /\ Quiet(shost)
                   /\ \/ vmhost = shost
                      \/ spc \in {"hotplug", "status"} /\ mig[shost] = "completed"

DestInv == \A h \in Host :
    /\ ~Quiet(h) => gpc \in Cycle /\ gnic # "up" /\ Quiet(Peer(h))
    /\ DoneDue(h) => /\ ~Prepared /\ vmhost \in {h, "lost"}
                     /\ \A k \in Host : mig[k] # "active"
    /\ dpc[h] \in {"sendGuest", "readGuest", "bottom"} => vmhost = h

HandoverInv == /\ KindInv /\ LastInv /\ VmInv /\ MovingInv /\ NicInv
               /\ SourceInv /\ DestInv /\ PluggedWhereGuestRuns

-----------------------------------------------------------------------------
(* What a step changes *)

\* The actions, one by one.
SourceStep ==
    \/ SrcStart \/ SrcConnectGuest \/ SrcSendGuest \/ SrcReadGuest \/ SrcConnectDest
    \/ SrcSendDest \/ SrcListen \/ SrcAccept \/ SrcRead \/ SrcUnplug \/ SrcUnbind
    \/ SrcMigrate \/ SrcHotplug \/ SrcCompleted \/ SrcFailed \/ AlbCompleted
    \/ AlbFailed \/ SrcKilled
GuestStep == Guest \/ GuestReboots
QemuStep(h) == \/ QemuUp(h) \/ NicReleased(h) \/ MigrationCompletes(h)
               \/ MigrationFails(h) \/ QemuQuit(h)

LEMMA NextCases ==
    [Next]_vars => \/ SourceStep \/ GuestStep \/ UNCHANGED vars
                   \/ \E h \in Host : Destination(h) \/ QemuStep(h)
  BY DEF Next, Source, SourceStep, GuestStep, QemuStep, Machine

LEMMA PortsDiffer ==
    /\ P7777 # P1818
    /\ \A h, k \in Host : /\ P9797(h) \notin {P7777, P1818, P3535(k)}
                          /\ P3535(h) \notin {P7777, P1818}
                          /\ h # k => P9797(h) # P9797(k)
  BY DEF P7777, P1818, P9797, P3535

\* What each operation on a connection leaves alone.
LEMMA ChannelUpdates ==
    ASSUME NEW r \in Channel
    PROVE  /\ [r EXCEPT !.cli = FALSE].up = r.up
           /\ [r EXCEPT !.cli = FALSE].down = r.down
           /\ [r EXCEPT !.cli = FALSE].srv = r.srv
           /\ [r EXCEPT !.srv = FALSE].up = r.up
           /\ [r EXCEPT !.srv = FALSE].down = r.down
           /\ \A m : /\ [r EXCEPT !.up = m].up = m
                     /\ [r EXCEPT !.up = m].down = r.down
                     /\ [r EXCEPT !.up = m].srv = r.srv
                     /\ [r EXCEPT !.down = m].up = r.up
                     /\ [r EXCEPT !.down = m].srv = r.srv
  BY DEF Channel

LEMMA OpenChannel ==
    ASSUME NEW r, NEW m, NEW b, r = [up |-> m, down |-> "", cli |-> b, srv |-> TRUE]
    PROVE  r.up = m /\ r.down = "" /\ r.srv = TRUE
  <1>1. r.up = m /\ r.down = "" OBVIOUS
  <1>2. r.srv = TRUE OBVIOUS
  <1> QED BY <1>1, <1>2

LEMMA Connects ==
    ASSUME conn \in [Conn -> Channel], NEW c \in Conn, NEW x \in Conn, NEW p, NEW m,
           Connected(x, p, m) \/ OneShot(x, p, m)
    PROVE  /\ c # x => conn'[c] = conn[c]
           /\ c = x => conn'[c].up = m /\ conn'[c].down = "" /\ conn'[c].srv = TRUE
  <1>1. CASE c # x BY <1>1 DEF Connected, OneShot
  <1>2. CASE c = x
    <2>1. \E b : conn'[c] = [up |-> m, down |-> "", cli |-> b, srv |-> TRUE]
      BY <1>2 DEF Connected, OneShot
    <2> QED BY <1>2, <2>1, OpenChannel
  <1> QED BY <1>1, <1>2

LEMMA Writes ==
    ASSUME conn \in [Conn -> Channel], NEW c \in Conn, NEW x \in Conn, NEW m
    PROVE  /\ conn' = [conn EXCEPT ![x].up = m]
                => /\ conn'[c].up = (IF c = x THEN m ELSE conn[c].up)
                   /\ conn'[c].down = conn[c].down /\ conn'[c].srv = conn[c].srv
           /\ conn' = [conn EXCEPT ![x].down = m]
                => /\ c # x => conn'[c].down = conn[c].down
                   /\ conn'[c].up = conn[c].up /\ conn'[c].srv = conn[c].srv
  <1>0. conn[c] \in Channel OBVIOUS
  <1>1. ASSUME conn' = [conn EXCEPT ![x].up = m]
        PROVE  conn'[c] = IF c = x THEN [conn[c] EXCEPT !.up = m] ELSE conn[c]
    BY <1>1
  <1>2. ASSUME conn' = [conn EXCEPT ![x].down = m]
        PROVE  conn'[c] = IF c = x THEN [conn[c] EXCEPT !.down = m] ELSE conn[c]
    BY <1>2
  <1>3. ASSUME conn' = [conn EXCEPT ![x].up = m]
        PROVE  /\ conn'[c].up = (IF c = x THEN m ELSE conn[c].up)
               /\ conn'[c].down = conn[c].down /\ conn'[c].srv = conn[c].srv
    <2>1. CASE c = x
      <3>1. conn'[c] = [conn[c] EXCEPT !.up = m] BY <1>1, <1>3, <2>1, Zenon
      <3>2. [conn[c] EXCEPT !.up = m].up = m BY <1>0, ChannelUpdates, Zenon
      <3>3. /\ [conn[c] EXCEPT !.up = m].down = conn[c].down
            /\ [conn[c] EXCEPT !.up = m].srv = conn[c].srv
        BY <1>0, ChannelUpdates, Zenon
      <3> QED BY <2>1, <3>1, <3>2, <3>3, Zenon
    <2>2. CASE c # x BY <1>0, <1>1, <1>3, <2>2, Zenon
    <2> QED BY <2>1, <2>2
  <1>4. ASSUME conn' = [conn EXCEPT ![x].down = m]
        PROVE  /\ c # x => conn'[c].down = conn[c].down
               /\ conn'[c].up = conn[c].up /\ conn'[c].srv = conn[c].srv
    <2>1. CASE c = x BY <1>0, <1>2, <1>4, <2>1, ChannelUpdates, Zenon
    <2>2. CASE c # x BY <1>0, <1>2, <1>4, <2>2, Zenon
    <2> QED BY <2>1, <2>2
  <1> QED BY <1>3, <1>4

LEMMA UnusedSrv == Unused.srv = FALSE
  BY DEF Unused

LEMMA PeerPeer == \A h \in Host : Peer(Peer(h)) = h /\ \A k \in Host : k # h => k = Peer(h)
  BY HostsAssumption DEF Host, Peer

\* With its "Done" a source is done with the guest's answer.
LEMMA DoneEnds ==
    ASSUME TypeOK, SrcCompleted \/ AlbCompleted
    PROVE  ~Prepared'
  <1>0. TypeSrc /\ conn \in [Conn -> Channel] BY DEF TypeOK, TypeNet
  <1>1. CASE SrcCompleted BY <1>1 DEF SrcCompleted, Prepared
  <1>2. CASE AlbCompleted
    <2>1. spc' = "accept" /\ SrcConn("done")' = SrcConn("done") /\ SrcConn("done") \in Conn
      BY <1>0, <1>2, SrcConnType DEF AlbCompleted, SrcConn, Kind
    <2>2. conn'[SrcConn("done")].srv
      BY <1>0, <1>2, <2>1 DEF AlbCompleted, OneShot
    <2> QED BY <2>1, <2>2 DEF Prepared, Ended
  <1> QED BY <1>1, <1>2

\* Only a source that has the guest's answer sends to a destination agent, to
\* the one of the other host, and a "Done" ends what it may do.
LEMMA DestQueue ==
    ASSUME TypeOK, [Next]_vars, NEW h \in Host
    PROVE  \/ queue'[P9797(h)] = queue[P9797(h)]
           \/ DstAccept(h) /\ queue'[P9797(h)] = Tail(queue[P9797(h)])
           \/ /\ Prepared /\ h = Peer(shost) /\ UNCHANGED dstVars
              /\ \E c \in Conn :
                    /\ queue'[P9797(h)] = Append(queue[P9797(h)], c)
                    /\ c[1] = "done" => /\ c[2] = run /\ spc = "status" /\ mig[shost] = "completed"
                                        /\ UNCHANGED vmVars /\ ~Prepared'
  <1> DEFINE Goal == \/ queue'[P9797(h)] = queue[P9797(h)]
                     \/ DstAccept(h) /\ queue'[P9797(h)] = Tail(queue[P9797(h)])
                     \/ /\ Prepared /\ h = Peer(shost) /\ UNCHANGED dstVars
                        /\ \E c \in Conn :
                              /\ queue'[P9797(h)] = Append(queue[P9797(h)], c)
                              /\ c[1] = "done" => /\ c[2] = run /\ spc = "status"
                                                  /\ mig[shost] = "completed"
                                                  /\ UNCHANGED vmVars /\ ~Prepared'
  <1>0. /\ TypeSrc /\ queue \in [Port -> Seq(Conn)] /\ shost \in Host /\ Peer(shost) \in Host
        /\ P9797(h) \in Port /\ conn \in [Conn -> Channel]
    BY PortTypes, PeerType DEF TypeOK, TypeNet, TypeSrc
  <1>1. ASSUME SrcConnectDest \/ SrcHotplug PROVE Goal
    <2> DEFINE c == IF spc = "connDest" THEN SrcConn("dest") ELSE SrcConn("hotplug")
    <2>1. c \in Conn /\ c[1] # "done"
      BY <1>0, <1>1, SrcConnType DEF SrcConnectDest, SrcHotplug, Kind, SrcConn
    <2>2. queue' = [queue EXCEPT ![P9797(Peer(shost))] = Append(@, c)]
      BY <1>1 DEF SrcConnectDest, SrcHotplug, Connected, OneShot
    <2>3. Prepared /\ UNCHANGED dstVars
      BY <1>1 DEF SrcConnectDest, SrcHotplug, Prepared, Ended
    <2>4. CASE h = Peer(shost) BY <1>0, <2>1, <2>2, <2>3, <2>4
    <2>5. CASE h # Peer(shost) BY <1>0, <2>2, <2>5, PortsDiffer
    <2> QED BY <2>4, <2>5
  <1>2. ASSUME SrcCompleted \/ AlbCompleted PROVE Goal
    <2> DEFINE c == SrcConn("done")
    <2>1. c \in Conn /\ spc = "status" /\ mig[shost] = "completed"
          /\ UNCHANGED <<vmVars, dstVars>>
      BY <1>0, <1>2, SrcConnType DEF SrcCompleted, AlbCompleted, Kind
    <2>5. c[2] = run BY DEF SrcConn
    <2>2. queue'[P9797(Peer(shost))] = Append(queue[P9797(Peer(shost))], c)
          /\ (h # Peer(shost) => queue'[P9797(h)] = queue[P9797(h)])
      BY <1>0, <1>2, PortsDiffer, PortTypes DEF SrcCompleted, AlbCompleted, OneShot
    <2>3. Prepared BY <2>1 DEF Prepared, Ended
    <2>4. ~Prepared' BY <1>2, DoneEnds
    <2> QED BY <2>1, <2>2, <2>3, <2>4, <2>5
  <1>3. ASSUME \/ SrcConnectGuest \/ SrcReadGuest \/ SrcAccept \/ SrcFailed \/ SrcKilled
               \/ GstAccept \/ GstBind \/ GstAccept2 \/ GuestReboots
        PROVE  Goal
    BY <1>0, <1>3, PortsDiffer, PortTypes
    DEF SrcConnectGuest, SrcReadGuest, SrcAccept, SrcFailed, SrcKilled, SrcCloses,
        GstAccept, GstBind, GstAccept2, GuestReboots, Connected, Accepts
  <1>4. ASSUME NEW k \in Host, DstNotify(k) \/ DstConnectGuest(k)
        PROVE  Goal
    BY <1>0, <1>4, PortsDiffer, PortTypes, PeerType
    DEF DstNotify, DstConnectGuest, Connected, OneShot
  <1>5. ASSUME NEW k \in Host, DstAccept(k)
        PROVE  Goal
    BY <1>0, <1>5, PortsDiffer DEF DstAccept, Accepts
  <1>6. ASSUME \/ SrcStart \/ SrcSendGuest \/ SrcSendDest \/ SrcListen \/ SrcRead
               \/ SrcUnplug \/ SrcUnbind \/ SrcMigrate \/ AlbFailed
               \/ GstRead \/ GstRemove \/ GstReply \/ GstRead2 \/ GstReply2
               \/ GstWaitUp \/ GstEnslave \/ UNCHANGED vars
        PROVE  Goal
    BY <1>6 DEF SrcStart, SrcSendGuest, SrcSendDest, SrcListen, SrcRead, SrcUnplug,
                SrcUnbind, SrcMigrate, AlbFailed, GstRead, GstRemove, GstReply, GstRead2,
                GstReply2, GstWaitUp, GstEnslave, vars, netVars
  <1>7. ASSUME NEW k \in Host, \/ DstRead(k) \/ DstSetup(k) \/ DstCreate(k) \/ DstTopHalf(k)
                               \/ DstSendGuest(k) \/ DstReadGuest(k) \/ DstBottomHalf(k)
                               \/ QemuStep(k)
        PROVE  Goal
    BY <1>7 DEF DstRead, DstSetup, DstCreate, DstTopHalf, DstSendGuest, DstReadGuest,
                DstBottomHalf, QemuStep, QemuUp, NicReleased, MigrationCompletes,
                MigrationFails, QemuQuit, netVars
  <1> QED BY <1>1, <1>2, <1>3, <1>4, <1>5, <1>6, <1>7, NextCases
          DEF SourceStep, GuestStep, Guest, Destination

\* The destination agent of a host changes only by a step of its own.
LEMMA DestSteps ==
    ASSUME TypeOK, [Next]_vars, NEW h \in Host, ~Destination(h)
    PROVE  dpc'[h] = dpc[h] /\ dcur'[h] = dcur[h] /\ upUsed'[h] = upUsed[h]
  <1>0. TypeDst BY DEF TypeOK
  <1>1. ASSUME NEW k \in Host, Destination(k), k # h
        PROVE  dpc'[h] = dpc[h] /\ dcur'[h] = dcur[h] /\ upUsed'[h] = upUsed[h]
    BY <1>0, <1>1 DEF TypeDst, Destination, DstAccept, DstRead, DstSetup, DstNotify, DstCreate,
       DstTopHalf, DstConnectGuest, DstSendGuest, DstReadGuest, DstBottomHalf
  <1>2. ASSUME NEW k \in Host, QemuStep(k)
        PROVE  UNCHANGED dstVars
    BY <1>2 DEF QemuStep, QemuUp, NicReleased, MigrationCompletes, MigrationFails, QemuQuit
  <1>3. ASSUME SourceStep \/ GuestStep \/ UNCHANGED vars
        PROVE  UNCHANGED dstVars
    BY <1>3 DEF SourceStep, GuestStep, Guest, vars, 
       SrcStart, SrcConnectGuest, SrcSendGuest, SrcReadGuest, SrcConnectDest,
       SrcSendDest, SrcListen, SrcAccept, SrcRead, SrcUnplug, SrcUnbind,
       SrcMigrate, SrcHotplug, SrcCompleted, SrcFailed, AlbCompleted,
       AlbFailed, SrcKilled,
       GstAccept, GstRead, GstRemove, GstReply, GstBind, GstAccept2, GstRead2,
       GstReply2, GstWaitUp, GstEnslave, GuestReboots
  <1> QED BY <1>1, <1>2, <1>3, NextCases DEF dstVars

\* An agent with nothing to do gets work only from a source on the other host
\* that has the guest's answer.
LEMMA QuietKept ==
    ASSUME TypeOK, [Next]_vars, NEW h \in Host, Quiet(h), ~Prepared \/ h = shost
    PROVE  Quiet(h)'
  <1>1. ~Destination(h)
    BY DEF Quiet, Destination, DstAccept, DstRead, DstSetup, DstNotify, DstCreate,
           DstTopHalf, DstConnectGuest, DstSendGuest, DstReadGuest, DstBottomHalf
  <1>2. dpc'[h] = dpc[h] /\ upUsed'[h] = upUsed[h] BY <1>1, DestSteps
  <1>3. shost # Peer(shost) BY PeerType DEF TypeOK, TypeSrc
  <1>4. queue'[P9797(h)] = queue[P9797(h)] BY <1>1, <1>3, DestQueue DEF Destination
  <1> QED BY <1>2, <1>4 DEF Quiet

\* An agent that hangs in connect() does so for ever.
LEMMA StuckKept ==
    ASSUME TypeOK, [Next]_vars, NEW h \in Host, Stuck(h)
    PROVE  Stuck(h)' /\ ~Destination(h)
  <1>1. ~Destination(h)
    BY DEF Stuck, Destination, DstAccept, DstRead, DstSetup, DstNotify, DstCreate,
           DstTopHalf, DstConnectGuest, DstSendGuest, DstReadGuest, DstBottomHalf
  <1> QED BY <1>1, DestSteps DEF Stuck

\* The source agent's state, and the answer it waits for.
LEMMA SourceSteps ==
    ASSUME TypeOK, [Next]_vars
    PROVE  SourceStep \/ UNCHANGED srcVars
  <1>1. ASSUME NEW k \in Host, Destination(k) \/ QemuStep(k)
        PROVE  UNCHANGED srcVars
    BY <1>1 DEF Destination, DstAccept, DstRead, DstSetup, DstNotify, DstCreate,
       DstTopHalf, DstConnectGuest, DstSendGuest, DstReadGuest, DstBottomHalf,
       QemuStep, QemuUp, NicReleased, MigrationCompletes, MigrationFails, QemuQuit
  <1>2. ASSUME GuestStep \/ UNCHANGED vars
        PROVE  UNCHANGED srcVars
    BY <1>2 DEF GuestStep, Guest, vars, GstAccept, GstRead, GstRemove, GstReply, GstBind,
       GstAccept2, GstRead2, GstReply2, GstWaitUp, GstEnslave, GuestReboots
  <1> QED BY <1>1, <1>2, NextCases

LEMMA ShostKept ==
    ASSUME TypeOK, [Next]_vars
    PROVE  \/ UNCHANGED <<shost, run>>
           \/ SrcStart /\ spc = "off" /\ spc' = "connGuest"
  BY SourceSteps DEF SourceStep, srcVars,
       SrcStart, SrcConnectGuest, SrcSendGuest, SrcReadGuest, SrcConnectDest,
       SrcSendDest, SrcListen, SrcAccept, SrcRead, SrcUnplug, SrcUnbind,
       SrcMigrate, SrcHotplug, SrcCompleted, SrcFailed, AlbCompleted,
       AlbFailed, SrcKilled, SrcCloses

\* The guest agent's state.
LEMMA GuestSteps ==
    ASSUME TypeOK, [Next]_vars
    PROVE  GuestStep \/ UNCHANGED guestVars
  <1>1. ASSUME NEW k \in Host, Destination(k) \/ QemuStep(k)
        PROVE  UNCHANGED guestVars
    BY <1>1 DEF Destination, DstAccept, DstRead, DstSetup, DstNotify, DstCreate,
       DstTopHalf, DstConnectGuest, DstSendGuest, DstReadGuest, DstBottomHalf,
       QemuStep, QemuUp, NicReleased, MigrationCompletes, MigrationFails, QemuQuit
  <1>2. ASSUME SourceStep \/ UNCHANGED vars
        PROVE  UNCHANGED guestVars
    BY <1>2 DEF SourceStep, vars,
       SrcStart, SrcConnectGuest, SrcSendGuest, SrcReadGuest, SrcConnectDest,
       SrcSendDest, SrcListen, SrcAccept, SrcRead, SrcUnplug, SrcUnbind,
       SrcMigrate, SrcHotplug, SrcCompleted, SrcFailed, AlbCompleted,
       AlbFailed, SrcKilled
  <1> QED BY <1>1, <1>2, NextCases

\* The guest agent leaves the cycle only when a NIC came up or the guest reboots.
LEMMA CycleKept ==
    ASSUME TypeOK, [Next]_vars, gpc \in Cycle, gnic # "up", ~GuestReboots
    PROVE  gpc' \in Cycle
  BY GuestSteps DEF GuestStep, Guest, guestVars, Cycle, GstAccept, GstRead, GstRemove,
     GstReply, GstBind, GstAccept2, GstRead2, GstReply2, GstWaitUp, GstEnslave

\* The NIC comes up by a bottom half where the guest runs, or by a reboot.
LEMMA GnicUp ==
    ASSUME TypeOK, [Next]_vars, gnic # "up", gnic' = "up", ~GuestReboots
    PROVE  \E h \in Host : DstBottomHalf(h) /\ vmhost = h /\ nic[h] = "half"
  <1>1. ASSUME NEW h \in Host, DstBottomHalf(h)
        PROVE  vmhost = h /\ nic[h] = "half"
    BY <1>1 DEF DstBottomHalf, QemuCrashes
  <1>2. ASSUME SourceStep \/ Guest \/ UNCHANGED vars PROVE FALSE
    BY <1>2 DEF SourceStep, Guest, vars, vmVars,
       SrcStart, SrcConnectGuest, SrcSendGuest, SrcReadGuest, SrcConnectDest,
       SrcSendDest, SrcListen, SrcAccept, SrcRead, SrcUnplug, SrcUnbind,
       SrcMigrate, SrcHotplug, SrcCompleted, SrcFailed, AlbCompleted,
       AlbFailed, SrcKilled,
       GstAccept, GstRead, GstRemove, GstReply, GstBind, GstAccept2, GstRead2,
       GstReply2, GstWaitUp, GstEnslave
  <1>3. ASSUME NEW h \in Host, \/ DstAccept(h) \/ DstRead(h) \/ DstSetup(h) \/ DstNotify(h)
                               \/ DstCreate(h) \/ DstTopHalf(h) \/ DstConnectGuest(h)
                               \/ DstSendGuest(h) \/ DstReadGuest(h) \/ QemuStep(h)
        PROVE  FALSE
    BY <1>3 DEF DstAccept, DstRead, DstSetup, DstNotify, DstCreate,
       DstTopHalf, DstConnectGuest, DstSendGuest, DstReadGuest, vmVars, QemuCrashes,
       QemuStep, QemuUp, NicReleased, MigrationCompletes, MigrationFails, QemuQuit
  <1> QED BY <1>1, <1>2, <1>3, NextCases DEF Destination, GuestStep

\* The guest leaves a host with a migration or with its QEMU.
LEMMA VmMoves ==
    ASSUME TypeOK, [Next]_vars, vmhost' # vmhost
    PROVE  \E h \in Host : \/ MigrationCompletes(h)
                           \/ /\ DstTopHalf(h) \/ DstBottomHalf(h)
                              /\ vmhost = h /\ vmhost' = "lost"
  <1>1. ASSUME NEW h \in Host, DstTopHalf(h) \/ DstBottomHalf(h)
        PROVE  vmhost = h /\ vmhost' = "lost"
    BY <1>1 DEF DstTopHalf, DstBottomHalf, QemuCrashes
  <1>2. ASSUME SourceStep \/ GuestStep \/ UNCHANGED vars PROVE FALSE
    BY <1>2 DEF SourceStep, GuestStep, Guest, vars, vmVars,
       SrcStart, SrcConnectGuest, SrcSendGuest, SrcReadGuest, SrcConnectDest,
       SrcSendDest, SrcListen, SrcAccept, SrcRead, SrcUnplug, SrcUnbind,
       SrcMigrate, SrcHotplug, SrcCompleted, SrcFailed, AlbCompleted,
       AlbFailed, SrcKilled,
       GstAccept, GstRead, GstRemove, GstReply, GstBind, GstAccept2, GstRead2,
       GstReply2, GstWaitUp, GstEnslave, GuestReboots
  <1>3. ASSUME NEW h \in Host, \/ DstAccept(h) \/ DstRead(h) \/ DstSetup(h) \/ DstNotify(h)
                               \/ DstCreate(h) \/ DstConnectGuest(h)
                               \/ DstSendGuest(h) \/ DstReadGuest(h)
                               \/ QemuUp(h) \/ NicReleased(h)
                               \/ MigrationFails(h) \/ QemuQuit(h)
        PROVE  FALSE
    BY <1>3 DEF DstAccept, DstRead, DstSetup, DstNotify, DstCreate,
       DstConnectGuest, DstSendGuest, DstReadGuest, vmVars,
       QemuUp, NicReleased, MigrationFails, QemuQuit
  <1> QED BY <1>1, <1>2, <1>3, NextCases DEF Destination, QemuStep

\* A migration starts by the source agent's migrate command.
LEMMA MigrationStarts ==
    ASSUME TypeOK, [Next]_vars, NEW h \in Host, mig[h] # "active", mig'[h] = "active"
    PROVE  SrcMigrate /\ h = shost /\ qemu[h] = "running" /\ nic[h] = "absent"
             /\ qemu[Peer(h)] = "incoming"
  <1>0. TypeVm /\ shost \in Host BY DEF TypeOK, TypeSrc
  <1>1. ASSUME SrcMigrate PROVE h = shost /\ qemu[h] = "running" /\ nic[h] = "absent"
             /\ qemu[Peer(h)] = "incoming"
    BY <1>0, <1>1 DEF SrcMigrate, TypeVm
  <1>2. ASSUME SourceStep \/ GuestStep \/ UNCHANGED vars, ~SrcMigrate PROVE FALSE
    BY <1>2 DEF SourceStep, GuestStep, Guest, vars, vmVars,
       SrcStart, SrcConnectGuest, SrcSendGuest, SrcReadGuest, SrcConnectDest,
       SrcSendDest, SrcListen, SrcAccept, SrcRead, SrcUnplug, SrcUnbind,
       SrcHotplug, SrcCompleted, SrcFailed, AlbCompleted,
       AlbFailed, SrcKilled,
       GstAccept, GstRead, GstRemove, GstReply, GstBind, GstAccept2, GstRead2,
       GstReply2, GstWaitUp, GstEnslave, GuestReboots
  <1>3. ASSUME NEW k \in Host, Destination(k) \/ QemuStep(k) PROVE FALSE
    BY <1>0, <1>3, PeerType DEF Destination, DstAccept, DstRead, DstSetup, DstNotify, DstCreate,
       DstTopHalf, DstConnectGuest, DstSendGuest, DstReadGuest, DstBottomHalf, QemuCrashes,
       QemuStep, QemuUp, NicReleased, MigrationCompletes, MigrationFails, QemuQuit,
       TypeVm, vmVars
  <1> QED BY <1>1, <1>2, <1>3, NextCases

\* What "info migrate" says of a completed migration, QEMU says until it ends.
LEMMA CompletedKept ==
    ASSUME TypeOK, [Next]_vars, NEW h \in Host, mig[h] = "completed"
    PROVE  \/ mig'[h] = "completed"
           \/ QemuQuit(h) \/ DstTopHalf(h) \/ DstBottomHalf(h) \/ SrcMigrate
  <1>0. TypeVm /\ shost \in Host BY DEF TypeOK, TypeSrc
  <1>2. ASSUME SourceStep \/ GuestStep \/ UNCHANGED vars, ~SrcMigrate PROVE mig' = mig
    BY <1>2 DEF SourceStep, GuestStep, Guest, vars, vmVars,
       SrcStart, SrcConnectGuest, SrcSendGuest, SrcReadGuest, SrcConnectDest,
       SrcSendDest, SrcListen, SrcAccept, SrcRead, SrcUnplug, SrcUnbind,
       SrcHotplug, SrcCompleted, SrcFailed, AlbCompleted,
       AlbFailed, SrcKilled,
       GstAccept, GstRead, GstRemove, GstReply, GstBind, GstAccept2, GstRead2,
       GstReply2, GstWaitUp, GstEnslave, GuestReboots
  <1>3. ASSUME NEW k \in Host, DstTopHalf(k) \/ DstBottomHalf(k), k # h
        PROVE  mig'[h] = "completed"
    BY <1>0, <1>3, PeerType DEF DstTopHalf, DstBottomHalf, QemuCrashes, TypeVm
  <1>4. ASSUME NEW k \in Host, MigrationFails(k) \/ (QemuQuit(k) /\ k # h)
        PROVE  mig'[h] = "completed"
    BY <1>0, <1>4 DEF MigrationFails, QemuQuit, TypeVm
  <1>5. ASSUME NEW k \in Host, MigrationCompletes(k)
        PROVE  mig'[h] = "completed"
    BY <1>0, <1>5 DEF MigrationCompletes, TypeVm
  <1>6. ASSUME NEW k \in Host, \/ DstAccept(k) \/ DstRead(k) \/ DstSetup(k) \/ DstNotify(k)
                               \/ DstCreate(k) \/ DstConnectGuest(k) \/ DstSendGuest(k)
                               \/ DstReadGuest(k) \/ QemuUp(k) \/ NicReleased(k)
        PROVE  mig' = mig
    BY <1>6 DEF DstAccept, DstRead, DstSetup, DstNotify, DstCreate, DstConnectGuest,
       DstSendGuest, DstReadGuest, QemuUp, NicReleased, vmVars
  <1> QED BY <1>2, <1>3, <1>4, <1>5, <1>6, NextCases DEF Destination, QemuStep

-----------------------------------------------------------------------------
(* The parts of the invariant *)

\* A connection for "Done", once used, stays so.
LEMMA UsedKept ==
    ASSUME TypeOK, [Next]_vars, NEW c \in Conn, c[1] = "done", conn[c].srv = TRUE
    PROVE  conn'[c].srv = TRUE
  <1>0. TypeSrc /\ TypeDst /\ TypeGst /\ conn \in [Conn -> Channel] BY DEF TypeOK, TypeNet
  <1>1. conn[c].srv = TRUE OBVIOUS
  <1>2. ASSUME SourceStep PROVE conn'[c].srv = TRUE
    <2>1. ASSUME SrcSendGuest \/ SrcSendDest PROVE conn'[c].srv = TRUE
      BY <1>0, <1>1, <2>1 DEF SrcSendGuest, SrcSendDest, Channel
    <2>2. ASSUME SrcConnectGuest \/ SrcConnectDest \/ SrcHotplug \/ AlbCompleted
          PROVE  conn'[c].srv = TRUE
      <3>1. PICK x \in Conn, p \in Port, m \in Msg \cup {""} :
              Connected(x, p, m) \/ OneShot(x, p, m)
        BY <1>0, <2>2, SrcConnType, PortTypes, PeerType
        DEF SrcConnectGuest, SrcConnectDest, SrcHotplug, AlbCompleted, Kind, Msg, TypeSrc
      <3> QED BY <1>0, <1>1, <3>1, Connects
    <2>3. ASSUME SrcReadGuest \/ SrcFailed \/ SrcKilled \/ SrcCompleted
          PROVE  conn'[c].srv = TRUE
      <3>1. CASE SrcReadGuest /\ ClientReads(SrcConn("guest"))
        <4>1. SrcConn("guest") \in Conn BY <1>0, <3>1, SrcConnType DEF SrcReadGuest, Kind
        <4> QED BY <1>0, <1>1, <3>1, <4>1, Writes DEF ClientReads
      <3>2. CASE SrcCloses \/ SrcCompleted
        <4>1. conn'[c] \in {conn[c], [conn[c] EXCEPT !.cli = FALSE],
                             [up |-> "Done", down |-> "", cli |-> FALSE, srv |-> TRUE]}
          BY <3>2 DEF SrcCloses, SrcCompleted
        <4>2. CASE conn'[c] \in {conn[c], [conn[c] EXCEPT !.cli = FALSE]}
          <5>1. conn[c] \in Channel BY <1>0
          <5>2. [conn[c] EXCEPT !.cli = FALSE].srv = conn[c].srv BY <5>1, ChannelUpdates
          <5> QED BY <1>1, <4>2, <5>2
        <4>3. CASE conn'[c] = [up |-> "Done", down |-> "", cli |-> FALSE, srv |-> TRUE]
          BY <4>3, OpenChannel
        <4> QED BY <4>1, <4>2, <4>3
      <3> QED BY <2>3, <3>1, <3>2 DEF SrcReadGuest, SrcFailed, SrcKilled
    <2>4. ASSUME \/ SrcStart \/ SrcListen \/ SrcAccept \/ SrcRead \/ SrcUnplug \/ SrcUnbind
                 \/ SrcMigrate \/ AlbFailed
          PROVE  conn'[c].srv = TRUE
      BY <1>1, <2>4 DEF SrcStart, SrcListen, SrcAccept, SrcRead, SrcUnplug, SrcUnbind,
                        SrcMigrate, AlbFailed, netVars
    <2> QED BY <1>2, <2>1, <2>2, <2>3, <2>4 DEF SourceStep
  <1>3. ASSUME GuestStep PROVE conn'[c].srv = TRUE
    BY <1>0, <1>1, <1>3 DEF GuestStep, Guest, GstAccept, GstRead, GstRemove, GstReply, GstBind,
       GstAccept2, GstRead2, GstReply2, GstWaitUp, GstEnslave, GuestReboots,
       ServerReads, Channel, netVars
  <1>4. ASSUME NEW h \in Host, Destination(h) PROVE conn'[c].srv = TRUE
    <2>1. ASSUME DstRead(h) \/ DstSendGuest(h) \/ DstReadGuest(h)
          PROVE  conn'[c].srv = TRUE
      BY <1>0, <1>1, <2>1 DEF DstRead, DstSendGuest, DstReadGuest, ServerReads, ClientReads,
                              Channel
    <2>2. ASSUME DstNotify(h) \/ DstConnectGuest(h) PROVE conn'[c].srv = TRUE
      <3>1. CASE conn' = conn BY <1>1, <3>1
      <3>2. CASE conn' # conn
        <4>1. PICK x \in Conn, p \in Port, m \in Msg \cup {""} :
                Connected(x, p, m) \/ OneShot(x, p, m)
          BY <1>0, <2>2, <3>2, DstConnType, PortTypes, PeerType
          DEF DstNotify, DstConnectGuest, Kind, Msg
        <4> QED BY <1>0, <1>1, <4>1, Connects
      <3> QED BY <3>1, <3>2
    <2>3. ASSUME \/ DstAccept(h) \/ DstSetup(h) \/ DstCreate(h) \/ DstTopHalf(h)
                 \/ DstBottomHalf(h)
          PROVE  conn'[c].srv = TRUE
      BY <1>1, <2>3 DEF DstAccept, DstSetup, DstCreate, DstTopHalf, DstBottomHalf, netVars
    <2> QED BY <1>4, <2>1, <2>2, <2>3 DEF Destination
  <1>5. ASSUME UNCHANGED vars \/ \E h \in Host : QemuStep(h) PROVE conn'[c].srv = TRUE
    BY <1>1, <1>5 DEF vars, netVars, QemuStep, QemuUp, NicReleased, MigrationCompletes,
                      MigrationFails, QemuQuit
  <1> QED BY <1>2, <1>3, <1>4, <1>5, NextCases

\* The source has the guest's answer only once the guest agent sent it.
LEMMA PreparedBegins ==
    ASSUME TypeOK, KindInv, [Next]_vars, ~Prepared, Prepared'
    PROVE  GstReply /\ spc \in {"sendGuest", "readGuest"}
  <1>0. TypeSrc /\ TypeDst /\ TypeGst /\ conn \in [Conn -> Channel] BY DEF TypeOK, TypeNet
  <1>1. ~SourceStep
    <2>1. \A k \in Kind : spc # "off" => SrcConn(k) \in Conn BY <1>0, SrcConnType
    <2>2. ~(SrcStart \/ SrcKilled \/ SrcFailed \/ SrcCompleted)
      BY DEF SrcStart, SrcKilled, SrcFailed, SrcCompleted, SrcCloses, Prepared
    <2>3. ~SrcConnectGuest
      <3> SUFFICES ASSUME SrcConnectGuest PROVE FALSE OBVIOUS
      <3>1. SrcConn("guest") \in Conn /\ SrcConn("guest")' = SrcConn("guest")
        BY <2>1 DEF SrcConnectGuest, Kind, SrcConn
      <3>2. conn'[SrcConn("guest")].down = ""
        BY <1>0, <3>1 DEF SrcConnectGuest, Connected
      <3> QED BY <3>1, <3>2 DEF Prepared, SrcConnectGuest
    <2>4. ~(SrcSendGuest \/ SrcReadGuest)
      <3> SUFFICES ASSUME SrcSendGuest \/ SrcReadGuest PROVE FALSE OBVIOUS
      <3>1. SrcConn("guest") \in Conn /\ SrcConn("guest")' = SrcConn("guest")
        BY <2>1 DEF SrcSendGuest, SrcReadGuest, Kind, SrcConn
      <3>2. SrcSendGuest
        BY DEF SrcReadGuest, SrcCloses, Prepared
      <3>3. conn'[SrcConn("guest")].down = conn[SrcConn("guest")].down
        BY <1>0, <3>1, <3>2 DEF SrcSendGuest, Channel
      <3> QED BY <3>1, <3>2, <3>3 DEF Prepared, SrcSendGuest
    <2>5. ~(\/ SrcConnectDest \/ SrcSendDest \/ SrcListen \/ SrcRead \/ SrcUnplug \/ SrcUnbind
            \/ SrcMigrate \/ SrcHotplug \/ AlbCompleted \/ AlbFailed)
      BY DEF SrcConnectDest, SrcSendDest, SrcListen, SrcRead, SrcUnplug, SrcUnbind,
             SrcMigrate, SrcHotplug, AlbCompleted, AlbFailed, Prepared, Ended
    <2>6. ~SrcAccept BY UnusedSrv DEF SrcAccept, MayLoop, Prepared, Ended
    <2> QED BY <2>2, <2>3, <2>4, <2>5, <2>6 DEF SourceStep
  <1>2. UNCHANGED srcVars BY <1>1, SourceSteps
  <1>3. spc \in {"sendGuest", "readGuest"} /\ conn'[SrcConn("guest")].down = "prepared"
        /\ conn[SrcConn("guest")].down # "prepared"
    <2>1. ASSUME Ended PROVE Ended'
      <3>1. SrcConn("done") \in Conn /\ SrcConn("done")[1] = "done"
        BY <1>0, <2>1, SrcConnType DEF Ended, Kind, SrcConn
      <3>2. conn'[SrcConn("done")].srv = TRUE
        <4>1. conn[SrcConn("done")].srv = TRUE BY <1>0, <2>1, <3>1 DEF Ended, Channel
        <4> QED BY <3>1, <4>1, UsedKept
      <3>3. SrcConn("done")' = SrcConn("done") BY <1>2 DEF srcVars, SrcConn
      <3> QED BY <1>2, <2>1, <3>2, <3>3 DEF Ended, srcVars
    <2> QED BY <1>2, <2>1 DEF Prepared, srcVars, SrcConn
  <1>4. SrcConn("guest") \in Conn /\ SrcConn("guest")[1] = "guest"
    BY <1>0, <1>3, SrcConnType DEF Kind, SrcConn
  <1>5. ASSUME Guest \/ GuestReboots, ~GstReply PROVE FALSE
    <2> DEFINE c == SrcConn("guest")
    <2>0. c \in Conn /\ c[1] = "guest" BY <1>4
    <2> HIDE DEF c
    <2>1. ASSUME GstBind \/ GuestReboots \/ GstRead \/ GstRead2
          PROVE  conn'[c].down = conn[c].down
      <3>1. CASE GstRead \/ GstRead2
        <4>1. gcur \in Conn BY <1>0, <3>1 DEF GstRead, GstRead2, TypeGst
        <4>2. conn' = [conn EXCEPT ![gcur].up = ""]
          BY <3>1 DEF GstRead, GstRead2, ServerReads
        <4> QED BY <1>0, <2>0, <4>1, <4>2, Writes, Zenon
      <3>2. CASE GstBind \/ GuestReboots
        <4>1. conn'[c] \in {conn[c], [conn[c] EXCEPT !.srv = FALSE]}
          BY <2>0, <3>2 DEF GstBind, GuestReboots
        <4> QED BY <1>0, <2>0, <4>1, ChannelUpdates
      <3> QED BY <2>1, <3>1, <3>2
    <2>2. ASSUME GstReply2 PROVE conn'[c].down = conn[c].down
      BY <1>0, <2>0, <2>2 DEF GstReply2, KindInv, TypeGst
    <2>3. ASSUME GstAccept \/ GstRemove \/ GstAccept2 \/ GstWaitUp \/ GstEnslave
          PROVE  conn' = conn
      BY <2>3 DEF GstAccept, GstRemove, GstAccept2, GstWaitUp, GstEnslave, netVars
    <2> QED BY <1>3, <1>5, <2>1, <2>2, <2>3 DEF Guest, c
  <1>6. ASSUME NEW h \in Host, Destination(h) PROVE FALSE
    <2> DEFINE c == SrcConn("guest")
    <2>0. c \in Conn /\ c[1] = "guest" BY <1>4
    <2> HIDE DEF c
    <2>1. ASSUME DstRead(h) \/ DstSendGuest(h) PROVE conn'[c].down = conn[c].down
      <3>1. dcur[h] \in Conn /\ <<"up", dcur[h][2]>> \in Conn
        BY <1>0, <2>1, DstConnType DEF DstRead, DstSendGuest, Kind
      <3>2. PICK x \in Conn, m \in Msg \cup {""} : conn' = [conn EXCEPT ![x].up = m]
        BY <2>1, <3>1 DEF DstRead, DstSendGuest, ServerReads, Msg
      <3> QED BY <1>0, <2>0, <3>2, Writes, Zenon
    <2>2. ASSUME DstReadGuest(h) \/ DstNotify(h) \/ DstConnectGuest(h)
          PROVE  conn'[c].down = conn[c].down
      <3>0. \A k : <<"up", k>> # c /\ <<"prepared", k>> # c
        BY <2>0
      <3>1. /\ <<"up", dcur[h][2]>> \in Conn /\ <<"up", dcur[h][2]>> # c
            /\ <<"prepared", dcur[h][2]>> \in Conn /\ <<"prepared", dcur[h][2]>> # c
        BY <1>0, <2>2, <3>0, DstConnType DEF DstReadGuest, DstNotify, DstConnectGuest, Kind
      <3>2. CASE DstReadGuest(h)
        BY <1>0, <2>0, <3>1, <3>2, Writes DEF DstReadGuest, ClientReads
      <3>3. CASE DstNotify(h) \/ DstConnectGuest(h)
        BY <1>0, <2>0, <3>1, <3>3, Connects DEF DstNotify, DstConnectGuest
      <3> QED BY <2>2, <3>2, <3>3
    <2>3. ASSUME \/ DstAccept(h) \/ DstSetup(h) \/ DstCreate(h) \/ DstTopHalf(h)
                 \/ DstBottomHalf(h)
          PROVE  conn' = conn
      BY <2>3 DEF DstAccept, DstSetup, DstCreate, DstTopHalf, DstBottomHalf, netVars
    <2> QED BY <1>3, <1>6, <2>1, <2>2, <2>3 DEF Destination, c
  <1>7. ASSUME UNCHANGED vars \/ \E h \in Host : QemuStep(h) PROVE FALSE
    BY <1>3, <1>7 DEF vars, netVars, QemuStep, QemuUp, NicReleased, MigrationCompletes,
                      MigrationFails, QemuQuit
  <1> QED BY <1>1, <1>3, <1>5, <1>6, <1>7, NextCases DEF GuestStep

\* A destination agent gets the "Done" of a run from that run only.
LEMMA DueComes ==
    ASSUME TypeOK, KindInv, [Next]_vars, NEW h \in Host, NEW c \in Conn,
           ~DueOn(h, c), DueOn(h, c)'
    PROVE  /\ Prepared /\ h = Peer(shost) /\ spc = "status" /\ mig[shost] = "completed"
           /\ c[2] = run /\ UNCHANGED <<vmVars, dstVars>> /\ ~Prepared'
  <1>0. /\ TypeDst /\ queue[P9797(h)] \in Seq(Conn) /\ queue'[P9797(h)] \in Seq(Conn)
    BY StepType, PortTypes DEF TypeOK, TypeNet
  <1>1. ~(Serving(h)' /\ dcur'[h] = c)
    <2> SUFFICES ASSUME Serving(h)', dcur'[h] = c PROVE FALSE OBVIOUS
    <2>1. ~(Serving(h) /\ dcur[h] = c) BY DEF DueOn
    <2>2. Destination(h) BY <2>1, DestSteps DEF Serving
    <2>3. DstRead(h) /\ dpc'[h] = "connGuest" /\ dcur' = dcur
      BY <1>0, <2>1, <2>2 DEF TypeDst, Serving, Destination, DstAccept, DstRead, DstSetup,
         DstNotify, DstCreate, DstTopHalf, DstConnectGuest, DstSendGuest, DstReadGuest,
         DstBottomHalf
    <2>4. dpc[h] = "read" /\ dcur[h] = c /\ conn[dcur[h]].up = "Done"
      BY <1>0, <2>3 DEF DstRead, TypeDst
    <2> QED BY <2>4 DEF DueOn, Reading, KindInv
  <1>2. ~(Reading(h)' /\ dcur'[h] = c)
    <2> SUFFICES ASSUME Reading(h)', dcur'[h] = c PROVE FALSE OBVIOUS
    <2>1. ~(Reading(h) /\ dcur[h] = c) BY DEF DueOn
    <2>2. Destination(h) BY <2>1, DestSteps DEF Reading
    <2>3. DstAccept(h)
      BY <1>0, <2>2 DEF TypeDst, Reading, Destination, DstAccept, DstRead, DstSetup,
         DstNotify, DstCreate, DstTopHalf, DstConnectGuest, DstSendGuest, DstReadGuest,
         DstBottomHalf
    <2>4. /\ dpc[h] = "accept" /\ queue[P9797(h)] # <<>> /\ Head(queue[P9797(h)]) = c
          /\ c[1] = "done"
      BY <1>0, <2>3 DEF DstAccept, Reading, TypeDst
    <2>5. 1 \in 1..Len(queue[P9797(h)]) /\ queue[P9797(h)][1] = c
      BY <1>0, <2>4
    <2> QED BY <2>4, <2>5 DEF DueOn, Stuck
  <1>3. /\ ~Stuck(h)' /\ c[1] = "done"
        /\ \E i \in 1..Len(queue'[P9797(h)]) : queue'[P9797(h)][i] = c
    BY <1>1, <1>2 DEF DueOn
  <1>4. \A i \in 1..Len(queue[P9797(h)]) : queue[P9797(h)][i] # c
    BY <1>3, StuckKept DEF DueOn
  <1>5. queue'[P9797(h)] # queue[P9797(h)] BY <1>3, <1>4
  <1>6. queue'[P9797(h)] # Tail(queue[P9797(h)]) \/ queue[P9797(h)] = <<>>
    <2> SUFFICES ASSUME queue'[P9797(h)] = Tail(queue[P9797(h)]), queue[P9797(h)] # <<>>
                 PROVE  FALSE
      OBVIOUS
    <2>1. PICK i \in 1..Len(queue'[P9797(h)]) : queue'[P9797(h)][i] = c
      BY <1>3
    <2>2. i + 1 \in 1..Len(queue[P9797(h)]) /\ queue[P9797(h)][i + 1] = queue'[P9797(h)][i]
      BY <1>0, <2>1
    <2> QED BY <1>4, <2>1, <2>2
  <1>7. PICK d \in Conn :
          /\ Prepared /\ h = Peer(shost) /\ UNCHANGED dstVars
          /\ queue'[P9797(h)] = Append(queue[P9797(h)], d)
          /\ d[1] = "done" => /\ d[2] = run /\ spc = "status" /\ mig[shost] = "completed"
                              /\ UNCHANGED vmVars /\ ~Prepared'
    BY <1>5, <1>6, DestQueue DEF DstAccept
  <1>8. c = d BY <1>0, <1>3, <1>4, <1>7
  <1> QED BY <1>3, <1>7, <1>8

LEMMA DoneComes ==
    ASSUME TypeOK, KindInv, [Next]_vars, NEW h \in Host, ~DoneDue(h), DoneDue(h)'
    PROVE  /\ Prepared /\ ~Prepared' /\ h = Peer(shost) /\ mig[shost] = "completed"
           /\ UNCHANGED vmVars
  <1>0. TypeDst' /\ queue'[P9797(h)] \in Seq(Conn)
    BY StepType, PortTypes DEF TypeOK, TypeNet
  <1>1. \A c \in Conn : ~DueOn(h, c) BY DEF DueOn, DoneDue, Waiting
  <1>2. PICK c \in Conn : DueOn(h, c)'
    <2>1. CASE Reading(h)' \/ Serving(h)'
      <3>1. dcur'[h] \in Conn BY <1>0, <2>1 DEF TypeDst, Reading, Serving
      <3> QED BY <2>1, <3>1 DEF DueOn
    <2>2. CASE ~Stuck(h)' /\ Waiting(h)'
      <3>1. PICK i \in 1..Len(queue'[P9797(h)]) : queue'[P9797(h)][i][1] = "done"
        BY <2>2 DEF Waiting
      <3>2. queue'[P9797(h)][i] \in Conn BY <1>0, <3>1
      <3> QED BY <2>2, <3>1, <3>2 DEF DueOn
    <2> QED BY <2>1, <2>2 DEF DoneDue
  <1> QED BY <1>1, <1>2, DueComes

\* Port 1818 gets connections from destination agents only.
LEMMA GuestQueue ==
    ASSUME TypeOK, [Next]_vars
    PROVE  \/ queue'[P1818] \in {queue[P1818], <<>>}
           \/ queue[P1818] # <<>> /\ queue'[P1818] = Tail(queue[P1818])
           \/ \E k : <<"up", k>> \in Conn /\ queue'[P1818] = Append(queue[P1818], <<"up", k>>)
  <1>0. /\ TypeSrc /\ TypeDst /\ queue \in [Port -> Seq(Conn)] /\ shost \in Host
        /\ Peer(shost) \in Host
    BY PeerType DEF TypeOK, TypeNet, TypeSrc
  <1>1. ASSUME \/ SrcConnectGuest \/ SrcReadGuest \/ SrcConnectDest \/ SrcAccept
               \/ SrcHotplug \/ SrcCompleted \/ SrcFailed \/ AlbCompleted \/ SrcKilled
        PROVE  queue'[P1818] = queue[P1818]
    BY <1>0, <1>1, PortsDiffer, PortTypes
    DEF SrcConnectGuest, SrcReadGuest, SrcConnectDest, SrcAccept, SrcHotplug, SrcCompleted,
        SrcFailed, AlbCompleted, SrcKilled, SrcCloses, Connected, OneShot, Accepts
  <1>2. ASSUME NEW h \in Host, DstAccept(h) \/ DstNotify(h)
        PROVE  queue'[P1818] = queue[P1818]
    BY <1>0, <1>2, PortsDiffer, PortTypes, PeerType DEF DstAccept, DstNotify, Accepts, OneShot
  <1>3. ASSUME NEW h \in Host, DstConnectGuest(h)
        PROVE  \E k : /\ <<"up", k>> \in Conn
                      /\ queue'[P1818] = Append(queue[P1818], <<"up", k>>)
    BY <1>0, <1>3, DstConnType, PortTypes DEF DstConnectGuest, Connected, Kind
  <1>4. ASSUME GstAccept \/ GstBind \/ GstAccept2 \/ GuestReboots
        PROVE  \/ queue'[P1818] \in {queue[P1818], <<>>}
               \/ queue[P1818] # <<>> /\ queue'[P1818] = Tail(queue[P1818])
    BY <1>0, <1>4, PortsDiffer, PortTypes
    DEF GstAccept, GstBind, GstAccept2, GuestReboots, Accepts
  <1>5. ASSUME \/ SrcStart \/ SrcSendGuest \/ SrcSendDest \/ SrcListen \/ SrcRead
               \/ SrcUnplug \/ SrcUnbind \/ SrcMigrate \/ AlbFailed
               \/ GstRead \/ GstRemove \/ GstReply \/ GstRead2 \/ GstReply2
               \/ GstWaitUp \/ GstEnslave \/ UNCHANGED vars
        PROVE  queue' = queue
    BY <1>5 DEF SrcStart, SrcSendGuest, SrcSendDest, SrcListen, SrcRead, SrcUnplug,
                SrcUnbind, SrcMigrate, AlbFailed, GstRead, GstRemove, GstReply, GstRead2,
                GstReply2, GstWaitUp, GstEnslave, vars, netVars
  <1>6. ASSUME NEW h \in Host, \/ DstRead(h) \/ DstSetup(h) \/ DstCreate(h) \/ DstTopHalf(h)
                               \/ DstSendGuest(h) \/ DstReadGuest(h) \/ DstBottomHalf(h)
                               \/ QemuStep(h)
        PROVE  queue' = queue
    BY <1>6 DEF DstRead, DstSetup, DstCreate, DstTopHalf, DstSendGuest, DstReadGuest,
                DstBottomHalf, QemuStep, QemuUp, NicReleased, MigrationCompletes,
                MigrationFails, QemuQuit, netVars
  <1> QED BY <1>1, <1>2, <1>3, <1>4, <1>5, <1>6, NextCases
          DEF SourceStep, GuestStep, Guest, Destination

\* The same for what the server reads.
LEMMA WritesUp ==
    ASSUME conn \in [Conn -> Channel], NEW c \in Conn, NEW x \in Conn, NEW m,
           \/ \E p : Connected(x, p, m) \/ OneShot(x, p, m)
           \/ conn' = [conn EXCEPT ![x].up = m]
    PROVE  (c = x /\ conn'[c].up = m) \/ (c # x /\ conn'[c].up = conn[c].up)
  <1>1. CASE \E p : Connected(x, p, m) \/ OneShot(x, p, m)
    <2>1. c # x => conn'[c] = conn[c] BY <1>1, Connects, Zenon
    <2>2. c = x => conn'[c].up = m BY <1>1, Connects, Zenon
    <2> QED BY <2>1, <2>2
  <1>2. CASE conn' = [conn EXCEPT ![x].up = m]
    <2>1. conn'[c].up = IF c = x THEN m ELSE conn[c].up BY <1>2, Writes, Zenon
    <2> QED BY <2>1
  <1> QED BY <1>1, <1>2

\* What a step writes on a connection fits its kind; else the server has read it.
LEMMA UpWritten ==
    ASSUME TypeOK, [Next]_vars, NEW c \in Conn, conn'[c].up # conn[c].up
    PROVE  \/ /\ conn'[c].up = "Done" => c[1] = "done"
              /\ c[1] = "hotplug" => conn'[c].up = "hotplug"
           \/ /\ conn'[c].up = ""
              /\ \/ (GstRead \/ GstRead2) /\ gcur = c
                 \/ \E h \in Host : DstRead(h) /\ dcur[h] = c
  <1> DEFINE Fits(x, m) == (m = "Done" => x[1] = "done") /\ (x[1] = "hotplug" => m = "hotplug")
             Goal == \/ Fits(c, conn'[c].up)
                     \/ /\ conn'[c].up = ""
                        /\ \/ (GstRead \/ GstRead2) /\ gcur = c
                           \/ \E h \in Host : DstRead(h) /\ dcur[h] = c
  <1> SUFFICES Goal OBVIOUS
  <1>0. TypeSrc /\ TypeDst /\ TypeGst /\ conn \in [Conn -> Channel] BY DEF TypeOK, TypeNet
  <1>1. \A k \in Kind : spc # "off" => SrcConn(k) \in Conn /\ SrcConn(k)[1] = k
    BY <1>0, SrcConnType DEF SrcConn
  <1>2. ASSUME NEW x \in Conn, NEW m \in Msg \cup {""},
               \/ \E p : Connected(x, p, m) \/ OneShot(x, p, m)
               \/ conn' = [conn EXCEPT ![x].up = m]
        PROVE  c = x /\ conn'[c].up = m
    BY <1>0, <1>2, WritesUp
  <1>11. ASSUME NEW x \in Conn, NEW m, conn' = [conn EXCEPT ![x].down = m] PROVE FALSE
    <2>0. conn \in [Conn -> Channel] BY <1>0
    <2>1. conn'[c].up = conn[c].up BY <2>0, <1>11, Writes, Zenon
    <2> QED BY <2>1
  <1>3. ASSUME \/ SrcConnectGuest \/ SrcSendGuest \/ SrcConnectDest \/ SrcSendDest
               \/ SrcHotplug \/ AlbCompleted \/ (SrcReadGuest /\ ~SrcCloses)
        PROVE  Goal
    <2>1. PICK x \in Conn, m \in Msg \cup {""} :
            \/ Fits(x, m) /\ \/ \E p : Connected(x, p, m) \/ OneShot(x, p, m)
                             \/ conn' = [conn EXCEPT ![x].up = m]
            \/ conn' = [conn EXCEPT ![x].down = m]
      BY <1>1, <1>3 DEF SrcConnectGuest, SrcSendGuest, SrcConnectDest,
         SrcSendDest, SrcHotplug, AlbCompleted, SrcReadGuest, ClientReads, Kind, Msg
    <2> QED BY <1>2, <1>11, <2>1
  <1>4. ASSUME SrcCloses \/ SrcCompleted
        PROVE  Goal
    <2>1. conn'[c] # conn[c] OBVIOUS
    <2>2. CASE conn'[c] = [conn[c] EXCEPT !.cli = FALSE]
      <3>1. conn[c] \in Channel BY <1>0
      <3> QED BY <2>2, <3>1, ChannelUpdates
    <2>3. CASE c = SrcConn("done")
      <3>1. c[1] = "done" /\ c[1] # "hotplug" BY <2>3 DEF SrcConn
      <3> QED BY <3>1
    <2> QED BY <1>4, <2>1, <2>2, <2>3 DEF SrcCloses, SrcCompleted
  <1>5. ASSUME GstRead \/ GstReply \/ GstRead2 \/ GstReply2
        PROVE  Goal
    <2>1. gcur \in Conn BY <1>0, <1>5 DEF GstRead, GstReply, GstRead2, GstReply2, TypeGst
    <2>2. \/ conn' = [conn EXCEPT ![gcur].down = "prepared"]
          \/ (GstRead \/ GstRead2) /\ conn' = [conn EXCEPT ![gcur].up = ""]
      BY <1>5 DEF GstRead, GstReply, GstRead2, GstReply2, ServerReads
    <2>3. "" \in Msg \cup {""} /\ "prepared" \in Msg \cup {""} BY DEF Msg
    <2> QED BY <1>2, <1>11, <2>1, <2>2, <2>3
  <1>6. ASSUME GstBind \/ GuestReboots
        PROVE  Goal
    <2>1. conn'[c] \in {conn[c], [conn[c] EXCEPT !.srv = FALSE]}
      BY <1>6 DEF GstBind, GuestReboots
    <2>2. conn[c] \in Channel BY <1>0
    <2> QED BY <2>1, <2>2, ChannelUpdates
  <1>7. ASSUME NEW h \in Host, DstRead(h) PROVE Goal
    <2>1. dcur[h] \in Conn /\ "" \in Msg \cup {""} BY <1>0, <1>7 DEF DstRead, TypeDst
    <2>2. conn' = [conn EXCEPT ![dcur[h]].up = ""] BY <1>7 DEF DstRead, ServerReads
    <2> QED BY <1>2, <1>7, <2>1, <2>2
  <1>8. ASSUME NEW h \in Host, \/ DstNotify(h) \/ DstConnectGuest(h) \/ DstSendGuest(h)
                               \/ DstReadGuest(h)
        PROVE  Goal
    <2>1. <<"up", dcur[h][2]>> \in Conn /\ <<"prepared", dcur[h][2]>> \in Conn
      BY <1>0, <1>8, DstConnType
      DEF DstNotify, DstConnectGuest, DstSendGuest, DstReadGuest, Kind
    <2>2. <<"up", dcur[h][2]>>[1] = "up" /\ <<"prepared", dcur[h][2]>>[1] = "prepared" OBVIOUS
    <2>3. PICK x \in Conn, m \in Msg \cup {""} :
            \/ Fits(x, m) /\ \/ \E p : Connected(x, p, m) \/ OneShot(x, p, m)
                             \/ conn' = [conn EXCEPT ![x].up = m]
            \/ conn' = [conn EXCEPT ![x].down = m]
      BY <1>8, <2>1, <2>2 DEF DstNotify, DstConnectGuest, DstSendGuest, DstReadGuest,
         ClientReads, Msg
    <2> QED BY <1>2, <1>11, <2>3
  <1>9. ASSUME \/ SrcStart \/ SrcListen \/ SrcAccept \/ SrcRead \/ SrcUnplug \/ SrcUnbind
               \/ SrcMigrate \/ AlbFailed \/ GstAccept \/ GstRemove \/ GstAccept2
               \/ GstWaitUp \/ GstEnslave \/ UNCHANGED vars
        PROVE  conn' = conn
    BY <1>9 DEF SrcStart, SrcListen, SrcAccept, SrcRead, SrcUnplug, SrcUnbind, SrcMigrate,
                AlbFailed, GstAccept, GstRemove, GstAccept2, GstWaitUp, GstEnslave,
                vars, netVars
  <1>10. ASSUME NEW h \in Host, \/ DstAccept(h) \/ DstSetup(h) \/ DstCreate(h) \/ DstTopHalf(h)
                                \/ DstBottomHalf(h) \/ QemuStep(h)
        PROVE  conn' = conn
    BY <1>10 DEF DstAccept, DstSetup, DstCreate, DstTopHalf, DstBottomHalf, QemuStep, QemuUp,
                NicReleased, MigrationCompletes, MigrationFails, QemuQuit, netVars
  <1> HIDE DEF Goal
  <1> QED BY <1>3, <1>4, <1>5, <1>6, <1>7, <1>8, <1>9, <1>10, NextCases
          DEF SourceStep, GuestStep, Guest, Destination, SrcFailed, SrcKilled

\* "Done" is written to the connections for it only.
LEMMA DoneWritten ==
    ASSUME TypeOK, [Next]_vars, NEW c \in Conn, conn'[c].up = "Done"
    PROVE  conn[c].up = "Done" \/ c[1] = "done"
  BY UpWritten

LEMMA StepKind ==
    ASSUME TypeOK, KindInv, [Next]_vars
    PROVE  KindInv'
  <1>0. TypeGst /\ queue[P1818] \in Seq(Conn) BY PortTypes DEF TypeOK, TypeNet
  <1>1. \A i \in 1..Len(queue'[P1818]) : queue'[P1818][i][1] = "up"
    <2>1. CASE queue'[P1818] \in {queue[P1818], <<>>} BY <2>1 DEF KindInv
    <2>2. CASE queue[P1818] # <<>> /\ queue'[P1818] = Tail(queue[P1818])
      <3>1. \A i \in 1..Len(queue'[P1818]) :
              i + 1 \in 1..Len(queue[P1818]) /\ queue'[P1818][i] = queue[P1818][i + 1]
        BY <1>0, <2>2
      <3> QED BY <3>1 DEF KindInv
    <2>3. ASSUME NEW k, <<"up", k>> \in Conn, queue'[P1818] = Append(queue[P1818], <<"up", k>>)
          PROVE  \A i \in 1..Len(queue'[P1818]) : queue'[P1818][i][1] = "up"
      <3>1. \A i \in 1..Len(queue'[P1818]) : \/ queue'[P1818][i] = <<"up", k>>
                                             \/ /\ i \in 1..Len(queue[P1818])
                                                /\ queue'[P1818][i] = queue[P1818][i]
        BY <1>0, <2>3, AppendProperties
      <3>2. <<"up", k>>[1] = "up" OBVIOUS
      <3> QED BY <3>1, <3>2 DEF KindInv
    <2> QED BY <2>1, <2>2, <2>3, GuestQueue
  <1>2. gpc' \in {"read2", "reply2"} => gcur'[1] = "up"
    <2>1. ASSUME GstAccept2 PROVE gcur'[1] = "up"
      <3>1. 1 \in 1..Len(queue[P1818]) /\ gcur' = queue[P1818][1]
        BY <1>0, <2>1 DEF GstAccept2
      <3> QED BY <3>1 DEF KindInv
    <2>2. ASSUME GuestStep, ~GstAccept2, gpc' \in {"read2", "reply2"}
          PROVE  gpc \in {"read2", "reply2"} /\ gcur' = gcur
      BY <2>2 DEF GuestStep, Guest, GstAccept, GstRead, GstRemove, GstReply, GstBind,
                  GstRead2, GstReply2, GstWaitUp, GstEnslave, GuestReboots
    <2> QED BY <2>1, <2>2, GuestSteps DEF KindInv, guestVars
  <1>3. \A c \in Conn : conn'[c].up = "Done" => c[1] = "done"
    BY DoneWritten DEF KindInv
  <1> QED BY <1>1, <1>2, <1>3 DEF KindInv

LEMMA StepLast ==
    ASSUME TypeOK, KindInv, LastInv, DestInv, [Next]_vars
    PROVE  LastInv'
  <1> SUFFICES ASSUME NEW h \in Host, ~Stuck(h)'
               PROVE  /\ \A i \in 1..(Len(queue'[P9797(h)]) - 1) :
                           queue'[P9797(h)][i][1] # "done"
                      /\ (Serving(h) \/ Reading(h))' => queue'[P9797(h)] = <<>>
    BY DEF LastInv
  <1> DEFINE q == queue[P9797(h)]
  <1>0. TypeDst /\ q \in Seq(Conn) BY PortTypes DEF TypeOK, TypeNet
  <1>1. ~Stuck(h) BY StuckKept
  <1>2. /\ \A i \in 1..(Len(q) - 1) : q[i][1] # "done"
        /\ Serving(h) \/ Reading(h) => q = <<>>
    BY <1>1 DEF LastInv
  \* Who starts to read or serve a "Done" took it from the queue, or read it.
  <1>3. ASSUME Serving(h)', ~Serving(h) PROVE Reading(h)
    <2>1. Destination(h) BY <1>3, DestSteps DEF Serving
    <2>2. DstRead(h) /\ dpc'[h] = "connGuest"
      BY <1>0, <1>3, <2>1 DEF TypeDst, Serving, Destination, DstAccept, DstRead, DstSetup,
         DstNotify, DstCreate, DstTopHalf, DstConnectGuest, DstSendGuest, DstReadGuest,
         DstBottomHalf
    <2>3. dpc[h] = "read" /\ dcur[h] \in Conn /\ conn[dcur[h]].up = "Done"
      BY <1>0, <2>2 DEF DstRead, TypeDst
    <2> QED BY <2>3 DEF Reading, KindInv
  <1>4. ASSUME Reading(h)', ~Reading(h)
        PROVE  DstAccept(h) /\ q # <<>> /\ Head(q)[1] = "done"
    <2>1. Destination(h) BY <1>4, DestSteps DEF Reading
    <2>2. DstAccept(h)
      BY <1>0, <1>4, <2>1 DEF TypeDst, Reading, Destination, DstAccept, DstRead, DstSetup,
         DstNotify, DstCreate, DstTopHalf, DstConnectGuest, DstSendGuest, DstReadGuest,
         DstBottomHalf
    <2> QED BY <1>0, <1>4, <2>2 DEF DstAccept, Reading, TypeDst
  <1>5. CASE queue'[P9797(h)] = q /\ ~DstAccept(h)
    BY <1>2, <1>3, <1>4, <1>5
  <1>6. CASE DstAccept(h) /\ queue'[P9797(h)] = Tail(q)
    <2>1. q # <<>> /\ ~Serving(h)' BY <1>0, <1>6 DEF DstAccept, Serving, TypeDst
    <2>2. \A i \in 1..(Len(Tail(q)) - 1) : i + 1 \in 1..(Len(q) - 1) /\ Tail(q)[i] = q[i + 1]
      BY <1>0, <2>1
    <2>3. ASSUME Reading(h)' PROVE Tail(q) = <<>>
      <3>1. Head(q)[1] = "done" BY <1>4, <1>6, <2>3 DEF Reading, DstAccept
      <3>2. 1 \notin 1..(Len(q) - 1) BY <1>0, <1>2, <2>1, <3>1
      <3> QED BY <1>0, <2>1, <3>2
    <2> HIDE DEF q
    <2> QED BY <1>2, <1>6, <2>1, <2>2, <2>3
  <1>7. ASSUME NEW c \in Conn, Prepared, UNCHANGED dstVars,
               queue'[P9797(h)] = Append(q, c)
        PROVE  /\ \A i \in 1..(Len(queue'[P9797(h)]) - 1) : queue'[P9797(h)][i][1] # "done"
               /\ (Serving(h) \/ Reading(h))' => queue'[P9797(h)] = <<>>
    <2>1. ~DoneDue(h) BY <1>7 DEF DestInv
    <2>2. ~(Serving(h) \/ Reading(h))'
      BY <1>7, <2>1 DEF DoneDue, Serving, Reading, dstVars
    <2>3. \A i \in 1..(Len(Append(q, c)) - 1) : i \in 1..Len(q) /\ Append(q, c)[i] = q[i]
      BY <1>0, AppendProperties
    <2>4. \A i \in 1..Len(q) : q[i][1] # "done" BY <1>1, <2>1 DEF DoneDue, Waiting
    <2> HIDE DEF q
    <2> QED BY <1>7, <2>2, <2>3, <2>4
  <1>8. ASSUME DstAccept(h), queue'[P9797(h)] # Tail(q) PROVE FALSE
    BY <1>0, <1>8, PortTypes DEF DstAccept, Accepts, TypeOK, TypeNet
  <1> QED BY <1>5, <1>6, <1>7, <1>8, DestQueue

\* A source agent that goes on has an agent with nothing to do on its own host.
LEMMA NoServer ==
    ASSUME DestInv, NEW h \in Host, Serving(h)
    PROVE  ~Prepared /\ ~Quiet(h)
  BY DEF DestInv, DoneDue, Serving, Quiet

\* Where a bottom half follows the NIC comes up, nothing waits.
LEMMA BottomLast ==
    ASSUME TypeOK, LastInv, [Next]_vars, NEW h \in Host, DstBottomHalf(h)
    PROVE  Quiet(h)'
  <1>1. dpc[h] = "bottom" /\ dpc'[h] = "accept" /\ queue' = queue
    BY DEF DstBottomHalf, TypeOK, TypeDst, netVars
  <1>2. queue[P9797(h)] = <<>> BY <1>1 DEF LastInv, Stuck, Serving
  <1> QED BY <1>1, <1>2 DEF Quiet

\* While a source has the answer the guest agent stays in its cycle.
LEMMA CycleHeld ==
    ASSUME TypeOK, DestInv, [Next]_vars, gpc \in Cycle, gnic # "up",
           Prepared \/ \E h \in Host : ~Quiet(h) /\ ~DstBottomHalf(h) /\ Quiet(Peer(h))
    PROVE  gpc' \in Cycle /\ gnic' # "up"
  <1>1. ~GuestReboots
    BY DEF GuestReboots, Prepared
  <1>2. ASSUME NEW k \in Host, DstBottomHalf(k) PROVE FALSE
    <2>1. Serving(k) BY <1>2 DEF DstBottomHalf, Serving
    <2>2. ~Prepared /\ ~Quiet(k) BY <2>1, NoServer
    <2> QED BY <1>2, <2>2, PeerPeer
  <1> QED BY <1>1, <1>2, CycleKept, GnicUp

LEMMA StepSource ==
    ASSUME TypeOK, KindInv, MovingInv, NicInv, SourceInv, DestInv, VmInv, [Next]_vars
    PROVE  SourceInv'
  <1>0. TypeSrc /\ TypeVm BY DEF TypeOK
  <1>1. ASSUME NEW h \in Host, DstTopHalf(h) \/ DstBottomHalf(h)
        PROVE  ~Quiet(h)
    BY <1>1 DEF DstTopHalf, DstBottomHalf, Quiet
  <1>2. ASSUME spc' \in {"connGuest", "sendGuest", "readGuest"}
        PROVE  vmhost' \in {shost', "lost"}
    <2>1. CASE SrcStart BY <2>1 DEF SrcStart, vmVars
    <2>2. CASE ~SrcStart
      <3>1. spc \in {"connGuest", "sendGuest", "readGuest"}
        BY <1>2, <2>2, SourceSteps DEF SourceStep, srcVars,
           SrcConnectGuest, SrcSendGuest, SrcReadGuest, SrcConnectDest,
           SrcSendDest, SrcListen, SrcAccept, SrcRead, SrcUnplug, SrcUnbind,
           SrcMigrate, SrcHotplug, SrcCompleted, SrcFailed, AlbCompleted,
           AlbFailed, SrcKilled, SrcCloses
      <3>2. shost' = shost BY <3>1, ShostKept
      <3>3. \A h \in Host : ~MigrationCompletes(h)
        BY <3>1 DEF MigrationCompletes, MovingInv
      <3> QED BY <3>1, <3>2, <3>3, VmMoves DEF SourceInv
    <2> QED BY <2>1, <2>2
  <1>3. ASSUME Prepared', ~Prepared
        PROVE  /\ gpc' \in Cycle /\ gnic' # "up" /\ Quiet(shost)' /\ vmhost' = shost'
    <2>1. GstReply /\ spc \in {"sendGuest", "readGuest"} BY <1>3, PreparedBegins
    <2>2. gpc = "reply" /\ gpc' = "bind" /\ vmhost \in Host /\ UNCHANGED <<vmVars, srcVars>>
      BY <2>1 DEF GstReply, GuestRuns
    <2>3. gnic # "up" BY <2>2 DEF NicInv
    <2>4. Quiet(shost) BY <1>0, <2>2 DEF DestInv, Cycle, TypeSrc
    <2>5. Quiet(shost)' 
      <3>1. \A h \in Host : h = shost => Quiet(h)' BY <2>4, QuietKept
      <3> QED BY <1>0, <2>2, <3>1 DEF TypeSrc, srcVars
    <2>6. vmhost = shost BY <2>1, <2>2, PeerType DEF SourceInv
    <2> QED BY <2>2, <2>3, <2>5, <2>6 DEF Cycle, vmVars, srcVars
  <1>4. ASSUME Prepared', Prepared
        PROVE  /\ gpc' \in Cycle /\ gnic' # "up" /\ Quiet(shost)'
               /\ \/ vmhost' = shost'
                  \/ spc' \in {"hotplug", "status"} /\ mig'[shost'] = "completed"
    <2>1. gpc \in Cycle /\ gnic # "up" /\ Quiet(shost) BY <1>4 DEF SourceInv
    <2>2. gpc' \in Cycle /\ gnic' # "up" BY <1>4, <2>1, CycleHeld
    <2>3. spc # "off" /\ shost' = shost BY <1>4, ShostKept DEF Prepared
    <2>4. Quiet(shost)'
      <3>1. \A h \in Host : h = shost => Quiet(h)' BY <2>1, QuietKept
      <3> QED BY <1>0, <2>3, <3>1 DEF TypeSrc
    <2>5. ASSUME vmhost = shost
          PROVE  \/ vmhost' = shost'
                 \/ spc' \in {"hotplug", "status"} /\ mig'[shost'] = "completed"
      <3>1. CASE vmhost' = vmhost BY <2>3, <2>5, <3>1
      <3>2. CASE vmhost' # vmhost
        <4>1. MigrationCompletes(shost)
          BY <1>0, <1>1, <2>1, <2>5, <3>2, VmMoves DEF MigrationCompletes, VmInv
        <4>2. mig'[shost] = "completed" /\ spc' = spc
          BY <1>0, <4>1 DEF MigrationCompletes, TypeVm, TypeSrc, srcVars
        <4>3. spc \in {"hotplug", "status"}
          BY <1>0, <2>3, <4>1 DEF MigrationCompletes, MovingInv, TypeSrc
        <4> QED BY <2>3, <4>2, <4>3
      <3> QED BY <3>1, <3>2
    <2>6. ASSUME spc \in {"hotplug", "status"}, mig[shost] = "completed"
          PROVE  spc' \in {"hotplug", "status"} /\ mig'[shost'] = "completed"
      <3>1. mig'[shost] = "completed"
        BY <1>0, <1>1, <2>1, <2>6, CompletedKept DEF QemuQuit, SrcMigrate, TypeSrc
      <3>2. ~(AlbCompleted \/ SrcCompleted) BY <1>4, DoneEnds
      <3>3. ~(AlbFailed \/ SrcFailed \/ SrcKilled)
        BY <1>4, <2>6 DEF AlbFailed, SrcFailed, SrcKilled, SrcCloses, Prepared
      <3>4. spc' \in {"hotplug", "status"}
        BY <2>6, <3>2, <3>3, SourceSteps DEF SourceStep, srcVars,
           SrcStart, SrcConnectGuest, SrcSendGuest, SrcReadGuest, SrcConnectDest,
           SrcSendDest, SrcListen, SrcAccept, SrcRead, SrcUnplug, SrcUnbind,
           SrcMigrate, SrcHotplug
      <3> QED BY <2>3, <3>1, <3>4
    <2>7. vmhost = shost \/ (spc \in {"hotplug", "status"} /\ mig[shost] = "completed")
      BY <1>4 DEF SourceInv
    <2> QED BY <2>2, <2>4, <2>5, <2>6, <2>7
  <1> QED BY <1>2, <1>3, <1>4 DEF SourceInv

LEMMA StepDest ==
    ASSUME TypeOK, KindInv, LastInv, VmInv, MovingInv, SourceInv, DestInv, [Next]_vars
    PROVE  DestInv'
  <1>0. TypeSrc /\ TypeDst BY DEF TypeOK
  <1>1. ASSUME NEW h \in Host, ~Quiet(h)'
        PROVE  gpc' \in Cycle /\ gnic' # "up" /\ Quiet(Peer(h))'
    <2>0. Peer(h) \in Host /\ Peer(h) # h BY PeerType
    <2>1. CASE ~Quiet(h)
      <3>1. gpc \in Cycle /\ gnic # "up" /\ Quiet(Peer(h)) BY <2>1 DEF DestInv
      <3>2. gpc' \in Cycle /\ gnic' # "up"
        BY <1>1, <2>1, <3>1, BottomLast, CycleHeld
      <3>3. ~Prepared \/ Peer(h) = shost
        BY <1>0, <2>1, PeerPeer DEF SourceInv, TypeSrc
      <3>4. Quiet(Peer(h))' BY <2>0, <3>1, <3>3, QuietKept
      <3> QED BY <3>2, <3>4
    <2>2. CASE Quiet(h)
      <3>1. Prepared /\ Peer(h) = shost
        BY <1>0, <1>1, <2>2, QuietKept, PeerPeer DEF TypeSrc
      <3>2. gpc \in Cycle /\ gnic # "up" /\ Quiet(Peer(h)) BY <3>1 DEF SourceInv
      <3>3. gpc' \in Cycle /\ gnic' # "up" BY <3>1, <3>2, CycleHeld
      <3>4. Quiet(Peer(h))' BY <2>0, <3>1, <3>2, QuietKept
      <3> QED BY <3>3, <3>4
    <2> QED BY <2>1, <2>2
  <1>2. ASSUME NEW h \in Host, DoneDue(h)'
        PROVE  ~Prepared' /\ vmhost' \in {h, "lost"} /\ \A k \in Host : mig'[k] # "active"
    <2>1. CASE DoneDue(h)
      <3>1. ~Prepared /\ vmhost \in {h, "lost"} /\ \A k \in Host : mig[k] # "active"
        BY <2>1 DEF DestInv
      <3>2. ~Quiet(h)
        <4>1. queue[P9797(h)] = <<>> => ~Waiting(h) BY DEF Waiting
        <4> QED BY <2>1, <4>1 DEF DoneDue, Reading, Serving, Stuck, Quiet
      <3>3. gpc \in Cycle BY <3>2 DEF DestInv
      <3>4. ~Prepared' BY <3>1, <3>3, PreparedBegins DEF GstReply, Cycle
      <3>5. vmhost' \in {h, "lost"} BY <3>1, VmMoves DEF MigrationCompletes
      <3>6. \A k \in Host : mig'[k] # "active"
        BY <3>1, MigrationStarts DEF SrcMigrate, Prepared, Ended
      <3> QED BY <3>4, <3>5, <3>6
    <2>2. CASE ~DoneDue(h)
      <3>1. /\ Prepared /\ ~Prepared' /\ h = Peer(shost) /\ mig[shost] = "completed"
            /\ UNCHANGED vmVars
        BY <1>2, <2>2, DoneComes
      <3>2. qemu[shost] = "postmigrate" /\ shost = Peer(h) /\ shost \in Host
        BY <1>0, <3>1, PeerPeer DEF VmInv, TypeSrc
      <3>3. vmhost # shost BY <3>2 DEF VmInv
      <3>4. vmhost \in {h, "lost"} BY <3>2, <3>3, PeerPeer DEF TypeOK, TypeVm
      <3>5. \A k \in Host : mig[k] # "active"
        <4>1. mig[shost] # "active" BY <3>1
        <4>2. mig[h] # "active" BY <3>2 DEF VmInv
        <4> QED BY <3>2, <4>1, <4>2, PeerPeer
      <3> QED BY <3>1, <3>4, <3>5 DEF vmVars
    <2> QED BY <2>1, <2>2
  <1>3. ASSUME NEW h \in Host, dpc'[h] \in {"sendGuest", "readGuest", "bottom"}
        PROVE  vmhost' = h
    <2>1. CASE dpc[h] \in {"sendGuest", "readGuest", "bottom"}
      <3>1. vmhost = h /\ \A k \in Host : mig[k] # "active"
        BY <2>1 DEF DestInv, DoneDue, Serving
      <3>2. ~DstTopHalf(h) /\ ~DstBottomHalf(h)
        BY <1>0, <1>3, <2>1 DEF DstTopHalf, DstBottomHalf, TypeDst
      <3> QED BY <3>1, <3>2, VmMoves DEF MigrationCompletes
    <2>2. CASE dpc[h] \notin {"sendGuest", "readGuest", "bottom"}
      <3>1. Destination(h) BY <1>3, <2>2, DestSteps
      <3>2. DstConnectGuest(h)
        BY <1>0, <1>3, <2>2, <3>1 DEF TypeDst, Destination, DstAccept, DstRead, DstSetup,
           DstNotify, DstCreate, DstTopHalf, DstConnectGuest, DstSendGuest, DstReadGuest,
           DstBottomHalf
      <3>3. Serving(h) /\ vmhost \in Host /\ vmhost' = vmhost
        BY <3>2 DEF DstConnectGuest, Serving, vmVars
      <3> QED BY <3>3, PeerType DEF DestInv, DoneDue
    <2> QED BY <2>1, <2>2
  <1> QED BY <1>1, <1>2, <1>3 DEF DestInv

LEMMA StepMoving ==
    ASSUME TypeOK, KindInv, VmInv, MovingInv, SourceInv, [Next]_vars
    PROVE  MovingInv'
  <1> SUFFICES ASSUME NEW h \in Host, mig'[h] = "active"
               PROVE  Quiet(h)' /\ spc' \in {"off", "hotplug", "status"}
    BY DEF MovingInv
  <1>0. TypeSrc BY DEF TypeOK
  <1>1. CASE mig[h] # "active"
    <2>1. SrcMigrate /\ h = shost /\ qemu[h] = "running"
      BY <1>1, MigrationStarts
    <2>2. Prepared BY <2>1 DEF SrcMigrate, Prepared, Ended
    <2>3. Quiet(h) BY <2>1, <2>2 DEF SourceInv
    <2> QED BY <2>1, <2>3, QuietKept DEF SrcMigrate
  <1>2. CASE mig[h] = "active"
    <2>1. /\ Quiet(h) /\ spc \in {"off", "hotplug", "status"} /\ vmhost = h
          /\ qemu[Peer(h)] = "incoming" /\ mig[Peer(h)] \notin {"active", "completed"}
      BY <1>2, PeerType DEF MovingInv, VmInv
    <2>2. Prepared => shost = h
      BY <1>0, <2>1, PeerPeer DEF SourceInv, TypeSrc
    <2>3. Quiet(h)' BY <2>1, <2>2, QuietKept
    <2>4. ~SrcStart BY <2>1 DEF SrcStart
    <2>5. ~AlbCompleted /\ ~AlbFailed
      BY <1>2, <2>2 DEF AlbCompleted, AlbFailed, Prepared, Ended
    <2>6. spc' \in {"off", "hotplug", "status"}
      BY <2>1, <2>4, <2>5, SourceSteps DEF SourceStep, srcVars,
         SrcConnectGuest, SrcSendGuest, SrcReadGuest, SrcConnectDest,
         SrcSendDest, SrcListen, SrcAccept, SrcRead, SrcUnplug, SrcUnbind,
         SrcMigrate, SrcHotplug, SrcCompleted, SrcFailed, SrcKilled, SrcCloses
    <2> QED BY <2>3, <2>6
  <1> QED BY <1>1, <1>2

\* Only QEMU, its monitor commands and the guest's kernel change the machines.
LEMMA MachineSteps ==
    ASSUME [Next]_vars
    PROVE  \/ UNCHANGED vmVars
           \/ SrcUnplug \/ SrcMigrate \/ GstRemove \/ GstEnslave \/ GuestReboots
           \/ \E h \in Host : \/ DstSetup(h) \/ DstCreate(h) \/ DstTopHalf(h)
                              \/ DstBottomHalf(h) \/ QemuStep(h)
  <1>1. ASSUME \/ SrcStart \/ SrcConnectGuest \/ SrcSendGuest \/ SrcReadGuest
               \/ SrcConnectDest \/ SrcSendDest \/ SrcListen \/ SrcAccept \/ SrcRead
               \/ SrcUnbind \/ SrcHotplug \/ SrcCompleted \/ SrcFailed \/ SrcKilled
               \/ AlbCompleted \/ AlbFailed
               \/ GstAccept \/ GstRead \/ GstReply \/ GstBind \/ GstAccept2
               \/ GstRead2 \/ GstReply2 \/ GstWaitUp \/ UNCHANGED vars
        PROVE  UNCHANGED vmVars
    BY <1>1 DEF SrcStart, SrcConnectGuest, SrcSendGuest, SrcReadGuest,
                SrcConnectDest, SrcSendDest, SrcListen, SrcAccept, SrcRead,
                SrcUnbind, SrcHotplug, SrcCompleted, SrcFailed, SrcKilled,
                AlbCompleted, AlbFailed, GstAccept, GstRead, GstReply, GstBind,
                GstAccept2, GstRead2, GstReply2, GstWaitUp, vars
  <1>2. ASSUME NEW h \in Host, \/ DstAccept(h) \/ DstRead(h) \/ DstNotify(h)
                               \/ DstConnectGuest(h) \/ DstSendGuest(h) \/ DstReadGuest(h)
        PROVE  UNCHANGED vmVars
    BY <1>2 DEF DstAccept, DstRead, DstNotify, DstConnectGuest, DstSendGuest, DstReadGuest
  <1> QED BY <1>1, <1>2, NextCases DEF SourceStep, GuestStep, Guest, Destination

\* The bottom half finds the device where the guest is, and no migration runs;
\* a host its guest leaves has no device to create or realize.
LEMMA DestBusy ==
    ASSUME TypeOK, DestInv, MovingInv, NEW h \in Host, dpc[h] \notin {"accept", "connGuest"}
    PROVE  mig[h] # "active" /\ (dpc[h] = "bottom" => vmhost = h)
  BY DEF DestInv, MovingInv, Quiet

LEMMA StepVm ==
    ASSUME TypeOK, VmInv, MovingInv, NicInv, SourceInv, DestInv, [Next]_vars
    PROVE  VmInv'
  <1> DEFINE V(h) == /\ vmhost = h <=> qemu[h] = "running"
                     /\ mig[h] = "active" => /\ vmhost = h /\ qemu[Peer(h)] = "incoming"
                                             /\ nic[h] = "absent" /\ gnic = "absent"
                     /\ mig[h] = "completed" => qemu[h] = "postmigrate"
  <1>0. TypeVm /\ TypeSrc /\ TypeDst BY DEF TypeOK
  <1> SUFFICES ASSUME NEW h \in Host PROVE V(h)' BY DEF VmInv
  <1>1. V(h) /\ V(Peer(h)) /\ Peer(h) \in Host /\ Peer(h) # h /\ Peer(Peer(h)) = h
    BY PeerType, PeerPeer DEF VmInv
  <1>2. \A k \in Host : k = h \/ k = Peer(h) BY PeerPeer
  <1>3. CASE UNCHANGED vmVars BY <1>1, <1>3 DEF vmVars
  <1>4. CASE SrcUnplug
    <2>1. \A k \in Host : mig[k] # "active" BY <1>4 DEF SrcUnplug, MovingInv
    <2> QED BY <1>1, <1>4, <2>1 DEF SrcUnplug
  <1>5. CASE SrcMigrate
    <2>1. mig'[h] = "active" => \/ mig[h] = "active"
                                \/ /\ qemu[h] = "running" /\ nic[h] = "absent"
                                   /\ qemu[Peer(h)] = "incoming"
      BY MigrationStarts
    <2>2. qemu[h] = "running" /\ nic[h] = "absent" => gnic = "absent"
      BY <1>1 DEF NicInv
    <2>3. mig'[h] = "completed" => mig[h] = "completed"
      BY <1>0, <1>5 DEF SrcMigrate, TypeVm, TypeSrc
    <2>4. UNCHANGED <<qemu, nic, vmhost, gnic>> BY <1>5 DEF SrcMigrate
    <2> QED BY <1>1, <2>1, <2>2, <2>3, <2>4
  <1>6. CASE GstRemove \/ GstEnslave
    <2>1. UNCHANGED <<qemu, nic, mig, vmhost>> /\ (gnic = "absent" => gnic' = "absent")
      BY <1>6 DEF GstRemove, GstEnslave
    <2> QED BY <1>1, <2>1
  <1>7. CASE GuestReboots
    <2>1. UNCHANGED <<qemu, mig, vmhost>> /\ (gnic = "absent" => gnic' = "absent")
          /\ (nic[h] = "absent" => nic'[h] = "absent")
      BY <1>0, <1>7 DEF GuestReboots, GuestRuns, TypeVm
    <2> QED BY <1>1, <2>1
  <1>8. ASSUME NEW k \in Host, DstSetup(k) \/ DstCreate(k) PROVE V(h)'
    <2>1. mig[k] # "active" BY <1>8, DestBusy DEF DstSetup, DstCreate
    <2>2. CASE DstSetup(k)
      BY <1>0, <1>1, <1>2, <2>2 DEF DstSetup, TypeVm
    <2>3. CASE DstCreate(k)
      BY <1>0, <1>1, <1>2, <2>1, <2>3 DEF DstCreate, TypeVm
    <2> QED BY <1>8, <2>2, <2>3
  <1>9. ASSUME NEW k \in Host, QemuCrashes(k) PROVE V(h)'
    BY <1>0, <1>1, <1>2, <1>9, PeerType DEF QemuCrashes, TypeVm
  <1>10. ASSUME NEW k \in Host, DstTopHalf(k) \/ DstBottomHalf(k), ~QemuCrashes(k) PROVE V(h)'
    <2>1. mig[k] # "active" /\ (DstBottomHalf(k) => vmhost = k)
      BY <1>10, DestBusy DEF DstTopHalf, DstBottomHalf
    <2>2. UNCHANGED <<qemu, mig, vmhost>> /\ (h # k => nic'[h] = nic[h])
          /\ (gnic' = gnic \/ vmhost = k)
      BY <1>0, <1>10, <2>1 DEF DstTopHalf, DstBottomHalf, TypeVm
    <2> QED BY <1>1, <1>2, <2>1, <2>2
  <1>11. ASSUME NEW k \in Host, QemuUp(k) \/ QemuQuit(k) PROVE V(h)'
    BY <1>0, <1>1, <1>2, <1>11, PeerType DEF QemuUp, QemuQuit, TypeVm
  <1>12. ASSUME NEW k \in Host, NicReleased(k) PROVE V(h)'
    BY <1>0, <1>1, <1>12 DEF NicReleased, TypeVm
  <1>13. ASSUME NEW k \in Host, MigrationCompletes(k) PROVE V(h)'
    BY <1>0, <1>1, <1>2, <1>13, PeerType DEF MigrationCompletes, TypeVm
  <1>14. ASSUME NEW k \in Host, MigrationFails(k) PROVE V(h)'
    BY <1>0, <1>1, <1>2, <1>14, PeerType DEF MigrationFails, TypeVm
  <1> HIDE DEF V
  <1> QED BY <1>3, <1>4, <1>5, <1>6, <1>7, <1>8, <1>9, <1>10, <1>11, <1>12, <1>13, <1>14,
             MachineSteps DEF QemuStep

LEMMA StepPlugged ==
    ASSUME TypeOK, VmInv, MovingInv, NicInv, SourceInv, DestInv, PluggedWhereGuestRuns,
           [Next]_vars
    PROVE  PluggedWhereGuestRuns'
  <1>0. TypeVm /\ TypeSrc /\ TypeDst BY DEF TypeOK
  <1> SUFFICES ASSUME NEW h \in Host, nic'[h] \in {"plugged", "unplugging"} PROVE vmhost' = h
    BY DEF PluggedWhereGuestRuns
  <1>1. nic[h] \in {"plugged", "unplugging"} => vmhost = h BY DEF PluggedWhereGuestRuns
  <1>2. CASE UNCHANGED vmVars BY <1>1, <1>2 DEF vmVars
  <1>3. CASE SrcUnplug
    <2>1. Prepared /\ spc = "unplug" BY <1>3 DEF SrcUnplug, Prepared, Ended
    <2>2. vmhost = shost BY <2>1 DEF SourceInv
    <2> QED BY <1>0, <1>1, <1>3, <2>2 DEF SrcUnplug, TypeVm
  <1>4. CASE SrcMigrate \/ GstRemove \/ GstEnslave \/ GuestReboots
    BY <1>0, <1>1, <1>4 DEF SrcMigrate, GstRemove, GstEnslave, GuestReboots, TypeVm
  <1>5. ASSUME NEW k \in Host, DstSetup(k) \/ DstCreate(k) PROVE vmhost' = h
    BY <1>0, <1>1, <1>5 DEF DstSetup, DstCreate, TypeVm
  <1>6. ASSUME NEW k \in Host, QemuCrashes(k) PROVE vmhost' = h
    BY <1>0, <1>1, <1>6, PeerType DEF QemuCrashes, TypeVm
  <1>7. ASSUME NEW k \in Host, DstTopHalf(k) \/ DstBottomHalf(k), ~QemuCrashes(k)
        PROVE  vmhost' = h
    <2>1. DstBottomHalf(k) => vmhost = k BY <1>7, DestBusy DEF DstBottomHalf
    <2> QED BY <1>0, <1>1, <1>7, <2>1 DEF DstTopHalf, DstBottomHalf, TypeVm
  <1>8. ASSUME NEW k \in Host, QemuUp(k) \/ QemuQuit(k) \/ NicReleased(k) \/ MigrationFails(k)
        PROVE  vmhost' = h
    BY <1>0, <1>1, <1>8, PeerType DEF QemuUp, QemuQuit, NicReleased, MigrationFails, TypeVm
  <1>9. ASSUME NEW k \in Host, MigrationCompletes(k) PROVE vmhost' = h
    <2>1. vmhost = k /\ nic[k] = "absent" BY <1>9 DEF MigrationCompletes, VmInv
    <2> QED BY <1>1, <1>9, <2>1 DEF MigrationCompletes
  <1> QED BY <1>2, <1>3, <1>4, <1>5, <1>6, <1>7, <1>8, <1>9, MachineSteps DEF QemuStep

LEMMA StepNic ==
    ASSUME TypeOK, VmInv, MovingInv, NicInv, SourceInv, DestInv, PluggedWhereGuestRuns,
           [Next]_vars
    PROVE  NicInv'
  <1>0. TypeVm /\ TypeSrc /\ TypeDst /\ TypeGst BY DEF TypeOK
  <1>1. ASSUME gnic' # "absent"
        PROVE  vmhost' \in Host /\ nic'[vmhost'] \in {"plugged", "unplugging"}
    <2>1. gnic # "absent" => vmhost \in Host /\ nic[vmhost] \in {"plugged", "unplugging"}
      BY DEF NicInv
    <2>2. CASE UNCHANGED vmVars BY <1>1, <2>1, <2>2 DEF vmVars
    <2>3. CASE SrcUnplug \/ SrcMigrate \/ GstRemove \/ GstEnslave \/ GuestReboots
      BY <1>0, <1>1, <2>1, <2>3 DEF SrcUnplug, SrcMigrate, GstRemove, GstEnslave,
         GuestReboots, GuestRuns, TypeVm
    <2>4. ASSUME NEW k \in Host, DstSetup(k) \/ DstCreate(k)
          PROVE  vmhost' \in Host /\ nic'[vmhost'] \in {"plugged", "unplugging"}
      BY <1>0, <1>1, <2>1, <2>4 DEF DstSetup, DstCreate, TypeVm
    <2>5. ASSUME NEW k \in Host, QemuCrashes(k)
          PROVE  vmhost' \in Host /\ nic'[vmhost'] \in {"plugged", "unplugging"}
      BY <1>0, <1>1, <2>1, <2>5 DEF QemuCrashes, TypeVm
    <2>6. ASSUME NEW k \in Host, DstTopHalf(k) \/ DstBottomHalf(k), ~QemuCrashes(k)
          PROVE  vmhost' \in Host /\ nic'[vmhost'] \in {"plugged", "unplugging"}
      BY <1>0, <1>1, <2>1, <2>6 DEF DstTopHalf, DstBottomHalf, TypeVm
    <2>7. ASSUME NEW k \in Host, QemuUp(k) \/ QemuQuit(k) \/ NicReleased(k)
          PROVE  vmhost' \in Host /\ nic'[vmhost'] \in {"plugged", "unplugging"}
      BY <1>0, <1>1, <2>1, <2>7 DEF QemuUp, QemuQuit, NicReleased, VmInv, TypeVm
    <2>8. ASSUME NEW k \in Host, MigrationCompletes(k) \/ MigrationFails(k)
          PROVE  FALSE
      BY <1>1, <2>8 DEF MigrationCompletes, MigrationFails, VmInv
    <2> QED BY <2>2, <2>3, <2>4, <2>5, <2>6, <2>7, <2>8, MachineSteps DEF QemuStep
  <1>2. ASSUME gpc' \in Cycle \cup {"reply"} PROVE bond'.active = "ens3"
    <2>1. CASE GstRemove BY <2>1 DEF GstRemove
    <2>2. CASE ~GstRemove
      <3>1. gpc \in Cycle \cup {"reply"} /\ ~GstEnslave /\ ~GuestReboots
        BY <1>2, <2>2, GuestSteps DEF GuestStep, Guest, guestVars, Cycle, GstAccept, GstRead,
           GstReply, GstBind, GstAccept2, GstRead2, GstReply2, GstWaitUp, GstEnslave,
           GuestReboots
      <3>2. bond.active = "ens3" BY <3>1 DEF NicInv
      <3>3. bond' = bond \/ bond'.active = "ens3"
        BY <2>2, <3>1, MachineSteps DEF vmVars, SrcUnplug, SrcMigrate, DstSetup, DstCreate,
           DstTopHalf, DstBottomHalf, QemuStep, QemuUp, NicReleased, MigrationCompletes,
           MigrationFails, QemuQuit
      <3> QED BY <3>2, <3>3
    <2> QED BY <2>1, <2>2
  <1>3. ASSUME gpc' = "reply" PROVE gnic' # "up"
    <2>1. CASE GstRemove BY <2>1 DEF GstRemove
    <2>2. CASE ~GstRemove
      <3>1. gpc = "reply" /\ ~GuestReboots
        BY <1>3, <2>2, GuestSteps DEF GuestStep, Guest, guestVars, GstAccept, GstRead,
           GstReply, GstBind, GstAccept2, GstRead2, GstReply2, GstWaitUp, GstEnslave,
           GuestReboots
      <3>2. \A h \in Host : ~DstBottomHalf(h)
        BY <3>1 DEF DstBottomHalf, DestInv, Quiet, Cycle
      <3> QED BY <3>1, <3>2, GnicUp DEF NicInv
    <2> QED BY <2>1, <2>2
  <1>4. ASSUME NEW h \in Host, nic'[h] = "unplugging"
        PROVE  bond'.active = "ens3" /\ gnic' # "up" /\ gpc' \in Cycle
    <2>1. CASE nic[h] # "unplugging"
      <3>1. SrcUnplug
        <4>1. ~(UNCHANGED vmVars \/ SrcMigrate \/ GstRemove \/ GstEnslave \/ GuestReboots)
          BY <1>0, <1>4, <2>1 DEF vmVars, SrcMigrate, GstRemove, GstEnslave, GuestReboots, TypeVm
        <4>2. \A k \in Host : ~(DstSetup(k) \/ DstCreate(k) \/ DstTopHalf(k) \/ DstBottomHalf(k))
          BY <1>0, <1>4, <2>1, PeerType DEF DstSetup, DstCreate, DstTopHalf, DstBottomHalf,
             QemuCrashes, TypeVm
        <4>3. \A k \in Host : ~QemuStep(k)
          BY <1>0, <1>4, <2>1, PeerType DEF QemuStep, QemuUp, NicReleased, MigrationCompletes,
             MigrationFails, QemuQuit, TypeVm
        <4> QED BY <4>1, <4>2, <4>3, MachineSteps
      <3>2. Prepared /\ UNCHANGED <<gnic, bond, guestVars>>
        BY <3>1 DEF SrcUnplug, Prepared, Ended
      <3>3. gnic # "up" /\ gpc \in Cycle /\ bond.active = "ens3"
        BY <3>2 DEF SourceInv, NicInv
      <3> QED BY <3>2, <3>3 DEF guestVars
    <2>2. CASE nic[h] = "unplugging"
      <3>1. gnic # "up" /\ gpc \in Cycle /\ vmhost = h
        BY <2>2 DEF NicInv, PluggedWhereGuestRuns
      <3>2. ~GuestReboots BY <1>0, <1>4, <2>2, <3>1 DEF GuestReboots, TypeVm
      <3>3. gpc' \in Cycle BY <3>1, <3>2, CycleKept
      <3>4. gnic' # "up" BY <2>2, <3>1, <3>2, GnicUp
      <3> QED BY <1>2, <3>3, <3>4
    <2> QED BY <2>1, <2>2
  <1> QED BY <1>1, <1>2, <1>3, <1>4 DEF NicInv

LEMMA InitHandover == Init => HandoverInv
  <1> SUFFICES ASSUME Init PROVE HandoverInv OBVIOUS
  <1>1. /\ P1818 \in Port /\ \A h \in Host : P9797(h) \in Port
        /\ \A p \in Port : queue[p] = <<>>
    BY PortTypes DEF Init
  <1>2. KindInv
    <2>1. \A i \in 1..Len(queue[P1818]) : queue[P1818][i][1] = "up" BY <1>1
    <2>2. gpc = "accept" /\ conn = [c \in Conn |-> Unused] BY DEF Init
    <2>3. \A c \in Conn : conn[c] = Unused BY <2>2
    <2>4. Unused.up = "" BY DEF Unused
    <2>5. \A c \in Conn : conn[c].up # "Done" BY <2>3, <2>4
    <2> QED BY <2>1, <2>2, <2>5 DEF KindInv
  <1>3. LastInv BY <1>1 DEF Init, LastInv, Serving, Reading
  <1>4. VmInv /\ MovingInv /\ PluggedWhereGuestRuns
    BY PeerType DEF Init, VmInv, MovingInv, PluggedWhereGuestRuns
  <1>5. NicInv BY DEF Init, NicInv, Cycle
  <1>6. SourceInv BY DEF Init, SourceInv, Prepared
  <1>7. \A h \in Host : Quiet(h) /\ ~DoneDue(h)
    BY <1>1 DEF Init, Quiet, DoneDue, Waiting, Reading, Serving
  <1>8. DestInv BY <1>7 DEF Init, DestInv
  <1> QED BY <1>2, <1>3, <1>4, <1>5, <1>6, <1>8 DEF HandoverInv

LEMMA StepHandover == TypeOK /\ HandoverInv /\ [Next]_vars => HandoverInv'
  BY StepKind, StepLast, StepVm, StepMoving, StepNic, StepSource, StepDest, StepPlugged
  DEF HandoverInv

LEMMA HandoverInvariant == Spec => []HandoverInv
  <1> QED BY InitHandover, StepHandover, TypeCorrect, PTL DEF Spec

\* A device is plugged into a QEMU only where the guest is.
THEOREM PluggedSafe == Spec => []PluggedWhereGuestRuns
  <1>1. HandoverInv => PluggedWhereGuestRuns BY DEF HandoverInv
  <1> QED BY <1>1, HandoverInvariant, PTL

-----------------------------------------------------------------------------
(* The guest is lost only without a device.  The "hotplug" of a run that   *)
(* is not the load balancer's goes ahead of its "Done", so that the bottom *)
(* half finds the device the top half left.                                *)

\* A QEMU answers its monitor before the agent that started it goes on.
StartInv == \A h \in Host : qemu[h] = "starting" => dpc[h] = "poll"

\* Only a failed osnet-vfio-nic-create leaves the top half without a device.
TopInv == \A h \in Host :
    dpc[h] = "top" /\ QmpAnswers(h) /\ nic[h] = "absent" => "create" \in Faults

\* A NIC is unplugged where the destination agent has nothing to do, and never on
\* the side a migration goes to.
UnplugInv ==
    /\ \A h \in Host : nic[h] = "unplugging" => Quiet(h)
    /\ Prepared => nic[Peer(shost)] \notin {"plugged", "unplugging"}

\* h has a device, or will create one before it reads anything else.
Sent(c) == c[1] = "hotplug" /\ conn[c].up = "hotplug"
HotplugDue(h) == \/ \E i \in 1..Len(queue[P9797(h)]) : Sent(queue[P9797(h)][i])
                 \/ dpc[h] = "read" /\ Sent(dcur[h])
                 \/ dpc[h] \in {"create", "top"}
HasDevice(h) == nic[h] # "absent" \/ HotplugDue(h)

\* Where a run's guest goes, or is when its "Done" is due, there is a device.
SentInv == spc = "status" /\ run \notin alb /\ (mig[shost] = "active" \/ vmhost = Peer(shost))
             => HasDevice(Peer(shost))
DeviceInv == \A h \in Host, c \in Conn :
    DueOn(h, c) /\ c[2] \notin alb /\ vmhost = h => HasDevice(h)

LostInv == StartInv /\ TopInv /\ UnplugInv /\ SentInv /\ DeviceInv

LEMMA StepStart ==
    ASSUME TypeOK, StartInv, [Next]_vars
    PROVE  StartInv'
  <1>0. TypeVm /\ TypeDst BY DEF TypeOK
  <1> SUFFICES ASSUME NEW h \in Host, qemu'[h] = "starting" PROVE dpc'[h] = "poll"
    BY DEF StartInv
  <1>1. CASE qemu[h] = "starting"
    <2>1. dpc[h] = "poll" BY <1>1 DEF StartInv
    <2>2. ~Destination(h)
      BY <1>1, <2>1 DEF Destination, DstAccept, DstRead, DstSetup, DstNotify, DstCreate,
         DstTopHalf, DstConnectGuest, DstSendGuest, DstReadGuest, DstBottomHalf, QmpAnswers
    <2> QED BY <2>1, <2>2, DestSteps
  <1>2. CASE qemu[h] # "starting"
    <2>1. ~UNCHANGED vmVars BY <1>2 DEF vmVars
    <2>2. ASSUME NEW k \in Host, DstSetup(k) PROVE dpc'[h] = "poll"
      BY <1>0, <1>2, <2>2 DEF DstSetup, TypeVm, TypeDst
    <2>3. ASSUME NEW k \in Host, DstCreate(k) \/ DstTopHalf(k) \/ DstBottomHalf(k)
          PROVE FALSE
      BY <1>0, <1>2, <2>3 DEF DstCreate, DstTopHalf, DstBottomHalf, QemuCrashes, TypeVm
    <2>4. ASSUME NEW k \in Host, QemuStep(k) PROVE FALSE
      BY <1>0, <1>2, <2>4, PeerType
      DEF QemuStep, QemuUp, NicReleased, MigrationCompletes, MigrationFails, QemuQuit, TypeVm
    <2>5. ~(SrcUnplug \/ SrcMigrate \/ GstRemove \/ GstEnslave \/ GuestReboots)
      BY <1>2 DEF SrcUnplug, SrcMigrate, GstRemove, GstEnslave, GuestReboots
    <2> QED BY <2>1, <2>2, <2>3, <2>4, <2>5, MachineSteps
  <1> QED BY <1>1, <1>2

\* What takes a device from QEMU.
LEMMA NicGone ==
    ASSUME TypeOK, [Next]_vars, NEW h \in Host, nic[h] # "absent", nic'[h] = "absent"
    PROVE  \/ nic[h] = "unplugging" /\ (NicReleased(h) \/ GuestReboots)
           \/ qemu'[h] = "down" /\ MigrationFails(Peer(h))
           \/ qemu[h] = "postmigrate" /\ qemu'[h] = "down" /\ spc = "off"
  <1>0. TypeVm BY DEF TypeOK
  <1>1. ~UNCHANGED vmVars BY DEF vmVars
  <1>2. ASSUME NEW k \in Host, DstSetup(k) \/ DstCreate(k) \/ DstTopHalf(k) \/ DstBottomHalf(k)
        PROVE  FALSE
    BY <1>0, <1>2 DEF DstSetup, DstCreate, DstTopHalf, DstBottomHalf, QemuCrashes, TypeVm
  <1>3. ~(SrcUnplug \/ SrcMigrate \/ GstRemove \/ GstEnslave)
    BY <1>0 DEF SrcUnplug, SrcMigrate, GstRemove, GstEnslave, TypeVm
  <1>4. CASE GuestReboots BY <1>0, <1>4 DEF GuestReboots, GuestRuns, TypeVm
  <1>5. ASSUME NEW k \in Host, QemuUp(k) \/ MigrationCompletes(k) PROVE FALSE
    BY <1>5 DEF QemuUp, MigrationCompletes
  <1>6. ASSUME NEW k \in Host, NicReleased(k) PROVE NicReleased(h) /\ nic[h] = "unplugging"
    BY <1>0, <1>6 DEF NicReleased, TypeVm
  <1>7. ASSUME NEW k \in Host, MigrationFails(k)
        PROVE  qemu'[h] = "down" /\ MigrationFails(Peer(h))
    <2>1. h = Peer(k) BY <1>0, <1>7 DEF MigrationFails, TypeVm
    <2>2. k = Peer(h) BY <2>1, PeerPeer
    <2> QED BY <1>0, <1>7, <2>1, <2>2 DEF MigrationFails, TypeVm
  <1>8. ASSUME NEW k \in Host, QemuQuit(k)
        PROVE  qemu[h] = "postmigrate" /\ qemu'[h] = "down" /\ spc = "off"
    BY <1>0, <1>8 DEF QemuQuit, TypeVm
  <1> QED BY <1>1, <1>2, <1>3, <1>4, <1>5, <1>6, <1>7, <1>8, MachineSteps DEF QemuStep

LEMMA StepTop ==
    ASSUME TypeOK, HandoverInv, StartInv, TopInv, UnplugInv, [Next]_vars
    PROVE  TopInv'
  <1>0. /\ TypeVm /\ TypeDst /\ VmInv /\ MovingInv BY DEF TypeOK, HandoverInv
  <1> SUFFICES ASSUME NEW h \in Host, dpc'[h] = "top", QmpAnswers(h)', nic'[h] = "absent",
                      "create" \notin Faults
               PROVE  FALSE
    BY DEF TopInv
  <1>1. CASE dpc[h] # "top"
    <2>1. Destination(h) BY <1>1, DestSteps
    <2>2. DstCreate(h)
      BY <1>0, <1>1, <2>1 DEF TypeDst, Destination, DstAccept, DstRead, DstSetup, DstNotify,
         DstCreate, DstTopHalf, DstConnectGuest, DstSendGuest, DstReadGuest, DstBottomHalf
    <2> QED BY <1>0, <2>2 DEF DstCreate, QmpAnswers, TypeVm
  <1>2. CASE dpc[h] = "top"
    <2>1. ~Quiet(h) BY <1>2 DEF Quiet
    <2>2. ~Destination(h)
      BY <1>0, <1>2 DEF TypeDst, Destination, DstAccept, DstRead, DstSetup, DstNotify,
         DstCreate, DstTopHalf, DstConnectGuest, DstSendGuest, DstReadGuest, DstBottomHalf
    <2>3. nic[h] # "absent" => FALSE
      <3> SUFFICES ASSUME nic[h] # "absent" PROVE FALSE OBVIOUS
      <3>1. nic[h] # "unplugging" BY <2>1 DEF UnplugInv
      <3>2. qemu'[h] # "down" BY DEF QmpAnswers
      <3> QED BY <3>1, <3>2, NicGone
    <2>4. ~QmpAnswers(h) BY <1>2, <2>3 DEF TopInv
    <2>5. qemu'[h] # qemu[h] BY <2>4 DEF QmpAnswers
    <2>6. ~UNCHANGED vmVars BY <2>5 DEF vmVars
    <2>7. ~(SrcUnplug \/ SrcMigrate \/ GstRemove \/ GstEnslave \/ GuestReboots)
      BY <2>5 DEF SrcUnplug, SrcMigrate, GstRemove, GstEnslave, GuestReboots
    <2>8. ASSUME NEW k \in Host, k # h,
                 DstSetup(k) \/ DstCreate(k) \/ DstTopHalf(k) \/ DstBottomHalf(k)
          PROVE  FALSE
      BY <1>0, <2>5, <2>8 DEF DstSetup, DstCreate, DstTopHalf, DstBottomHalf, QemuCrashes, TypeVm
    <2>9. ASSUME NEW k \in Host, QemuUp(k) PROVE FALSE
      BY <1>0, <1>2, <2>5, <2>9 DEF QemuUp, StartInv, TypeVm
    <2>10. ASSUME NEW k \in Host, MigrationCompletes(k) PROVE FALSE
      <3>1. mig[k] = "active" /\ qemu[k] = "running" /\ qemu[Peer(k)] = "incoming"
        BY <1>0, <2>10 DEF MigrationCompletes, VmInv
      <3>2. h = k \/ h = Peer(k) BY <2>10, PeerPeer
      <3> QED BY <2>4, <3>1, <3>2 DEF QmpAnswers
    <2>11. ASSUME NEW k \in Host, NicReleased(k) \/ MigrationFails(k) \/ QemuQuit(k) PROVE FALSE
      <3>1. qemu'[h] # "down" BY DEF QmpAnswers
      <3> QED BY <1>0, <2>5, <2>11, <3>1 DEF NicReleased, MigrationFails, QemuQuit, TypeVm
    <2> QED BY <2>2, <2>6, <2>7, <2>8, <2>9, <2>10, <2>11, MachineSteps DEF QemuStep, Destination
  <1> QED BY <1>1, <1>2

\* A device is plugged in by the bottom half, and unplugged by the source agent.
LEMMA NicUnplugs ==
    ASSUME TypeOK, [Next]_vars, NEW h \in Host
    PROVE  /\ nic'[h] = "unplugging" /\ nic[h] # "unplugging" => SrcUnplug /\ h = shost
           /\ nic'[h] = "plugged" /\ nic[h] # "plugged" => DstBottomHalf(h)
  <1>0. TypeVm BY DEF TypeOK
  <1>1. CASE UNCHANGED vmVars BY <1>1 DEF vmVars
  <1>2. ASSUME NEW k \in Host, \/ DstSetup(k) \/ DstCreate(k) \/ DstTopHalf(k)
                               \/ DstBottomHalf(k)
        PROVE  /\ nic'[h] = "unplugging" => nic[h] = "unplugging"
               /\ nic'[h] = "plugged" /\ nic[h] # "plugged" => DstBottomHalf(k) /\ k = h
    BY <1>0, <1>2 DEF DstSetup, DstCreate, DstTopHalf, DstBottomHalf, QemuCrashes, TypeVm
  <1>3. CASE SrcUnplug \/ SrcMigrate \/ GstRemove \/ GstEnslave \/ GuestReboots
    BY <1>0, <1>3 DEF SrcUnplug, SrcMigrate, GstRemove, GstEnslave, GuestReboots, GuestRuns, TypeVm
  <1>4. ASSUME NEW k \in Host, QemuStep(k)
        PROVE  nic'[h] \in {nic[h], "absent"}
    BY <1>0, <1>4, PeerType
    DEF QemuStep, QemuUp, NicReleased, MigrationCompletes, MigrationFails, QemuQuit, TypeVm
  <1> QED BY <1>1, <1>2, <1>3, <1>4, MachineSteps

LEMMA StepUnplug ==
    ASSUME TypeOK, HandoverInv, HandoverInv', UnplugInv, [Next]_vars
    PROVE  UnplugInv'
  <1>0. /\ TypeVm /\ TypeSrc /\ KindInv /\ SourceInv /\ DestInv /\ PluggedWhereGuestRuns
    BY DEF TypeOK, HandoverInv
  <1>1. ASSUME NEW h \in Host, nic'[h] = "unplugging" PROVE Quiet(h)'
    <2>1. CASE nic[h] = "unplugging"
      <3>1. Quiet(h) BY <2>1 DEF UnplugInv
      <3>2. ~Prepared \/ h = shost BY <1>0, <2>1, PeerPeer DEF UnplugInv, TypeSrc
      <3> QED BY <3>1, <3>2, QuietKept
    <2>2. CASE nic[h] # "unplugging"
      <3>1. SrcUnplug /\ h = shost BY <1>0, <1>1, <2>2, NicUnplugs
      <3>2. Prepared BY <3>1 DEF SrcUnplug, Prepared, Ended
      <3>3. Quiet(h) BY <1>0, <3>1, <3>2 DEF SourceInv
      <3> QED BY <3>1, <3>3, QuietKept
    <2> QED BY <2>1, <2>2
  <1>2. ASSUME Prepared', nic'[Peer(shost')] \in {"plugged", "unplugging"} PROVE FALSE
    <2>1. CASE Prepared
      <3>1. shost' = shost BY <2>1, ShostKept DEF Prepared
      <3>2. Peer(shost) \in Host /\ Peer(shost) # shost BY <1>0, PeerType DEF TypeSrc
      <3>3. nic[Peer(shost)] \notin {"plugged", "unplugging"} BY <2>1 DEF UnplugInv
      <3>4. DstBottomHalf(Peer(shost)) BY <1>2, <3>1, <3>2, <3>3, NicUnplugs
      <3>5. Serving(Peer(shost)) BY <3>4 DEF DstBottomHalf, Serving
      <3> QED BY <1>0, <2>1, <3>2, <3>5, NoServer
    <2>2. CASE ~Prepared
      <3>1. GstReply /\ spc \in {"sendGuest", "readGuest"} BY <1>0, <1>2, <2>2, PreparedBegins
      <3>2. shost' = shost /\ spc' = spc /\ UNCHANGED vmVars BY <3>1 DEF GstReply, srcVars
      <3>3. vmhost \in {shost, "lost"} BY <1>0, <3>1 DEF SourceInv
      <3>4. Peer(shost) \in Host /\ Peer(shost) # shost /\ Peer(shost) # "lost"
        BY <1>0, PeerType DEF TypeSrc
      <3>5. nic[Peer(shost)] \in {"plugged", "unplugging"} BY <1>2, <3>2 DEF vmVars
      <3> QED BY <1>0, <3>3, <3>4, <3>5 DEF PluggedWhereGuestRuns
    <2> QED BY <2>1, <2>2
  <1> QED BY <1>1, <1>2 DEF UnplugInv

\* A "hotplug" is lost from its connection only by the agent that reads it.
LEMMA SentKept ==
    ASSUME TypeOK, KindInv, [Next]_vars, NEW c \in Conn, Sent(c), gpc \in Cycle
    PROVE  Sent(c)' \/ \E h \in Host : DstRead(h) /\ dcur[h] = c
  <1>1. ~GstRead /\ (GstRead2 => gcur[1] = "up") BY DEF GstRead, GstRead2, Cycle, KindInv
  <1> QED BY <1>1, UpWritten DEF Sent

\* Where the guest is or goes to, a device that is not being unplugged stays, and
\* a "hotplug" in the queue becomes one.
LEMMA DeviceKept ==
    ASSUME TypeOK, HandoverInv, [Next]_vars, NEW h \in Host, HasDevice(h),
           gpc \in Cycle, Quiet(Peer(h)), nic[h] # "unplugging",
           mig[Peer(h)] = "active" \/ vmhost = h, mig'[Peer(h)] = "active" \/ vmhost' = h
    PROVE  HasDevice(h)'
  <1>0. /\ TypeVm /\ TypeDst /\ VmInv /\ KindInv /\ queue[P9797(h)] \in Seq(Conn)
        /\ Peer(h) \in Host /\ Peer(h) # h /\ h # "lost"
    BY PortTypes, PeerType DEF TypeOK, TypeNet, HandoverInv
  <1>1. qemu[h] \in {"incoming", "running"}
    <2>1. mig[Peer(h)] = "active" => qemu[Peer(Peer(h))] = "incoming" BY <1>0 DEF VmInv
    <2>2. vmhost = h => qemu[h] = "running" BY <1>0 DEF VmInv
    <2> QED BY <2>1, <2>2, PeerPeer
  <1>2. CASE nic[h] # "absent"
    <2>1. ASSUME MigrationFails(Peer(h)) PROVE FALSE
      <3>1. mig[Peer(h)] = "active" /\ mig'[Peer(h)] = "failed" /\ vmhost' = vmhost
        BY <1>0, <2>1 DEF MigrationFails, TypeVm
      <3>2. vmhost = Peer(h) BY <1>0, <3>1 DEF VmInv
      <3> QED BY <1>0, <3>1, <3>2
    <2>2. nic'[h] # "absent" BY <1>1, <1>2, <2>1, NicGone
    <2> QED BY <2>2 DEF HasDevice
  <1>3. \A c \in Conn : Sent(c) => Sent(c)' \/ (DstRead(h) /\ dcur[h] = c)
    <2>1. ~DstRead(Peer(h)) BY DEF DstRead, Quiet
    <2> QED BY <1>0, <2>1, SentKept, PeerPeer
  <1>4. ASSUME DstRead(h), Sent(dcur[h]) PROVE HasDevice(h)'
    <2>1. dpc'[h] = "create" BY <1>0, <1>4 DEF DstRead, Sent, TypeDst
    <2> QED BY <2>1 DEF HasDevice, HotplugDue
  <1>5. CASE dpc[h] = "create"
    <2>1. Destination(h) => DstCreate(h)
      BY <1>5 DEF Destination, DstAccept, DstRead, DstSetup,
         DstNotify, DstCreate, DstTopHalf, DstConnectGuest, DstSendGuest, DstReadGuest,
         DstBottomHalf
    <2>2. dpc'[h] \in {"create", "top"} BY <1>0, <1>5, <2>1, DestSteps DEF DstCreate, TypeDst
    <2> QED BY <2>2 DEF HasDevice, HotplugDue
  <1>6. CASE dpc[h] = "top" /\ nic[h] = "absent"
    <2>1. Destination(h) => DstTopHalf(h)
      BY <1>6 DEF Destination, DstAccept, DstRead, DstSetup,
         DstNotify, DstCreate, DstTopHalf, DstConnectGuest, DstSendGuest, DstReadGuest,
         DstBottomHalf
    <2>2. CASE ~Destination(h)
      <3>1. dpc'[h] = "top" BY <1>6, <2>2, DestSteps
      <3> QED BY <3>1 DEF HasDevice, HotplugDue
    <2>3. CASE DstTopHalf(h)
      <3>1. QemuCrashes(h) BY <1>1, <1>6, <2>3 DEF DstTopHalf, QmpAnswers
      <3>2. mig'[Peer(h)] # "active" /\ vmhost' # h
        BY <1>0, <3>1 DEF QemuCrashes, TypeVm
      <3> QED BY <3>2
    <2> QED BY <2>1, <2>2, <2>3
  <1>7. CASE dpc[h] = "read" /\ Sent(dcur[h])
    <2>1. dcur[h] \in Conn BY <1>0, <1>7 DEF TypeDst
    <2>2. CASE DstRead(h) BY <1>4, <1>7, <2>2
    <2>3. CASE ~DstRead(h)
      <3>1. ~Destination(h)
        BY <1>7, <2>3 DEF Destination, DstAccept, DstSetup, DstNotify, DstCreate,
           DstTopHalf, DstConnectGuest, DstSendGuest, DstReadGuest, DstBottomHalf
      <3>2. dpc'[h] = "read" /\ dcur'[h] = dcur[h] BY <1>7, <3>1, DestSteps
      <3>3. conn'[dcur[h]].up = "hotplug" /\ dcur[h][1] = "hotplug"
        BY <1>3, <1>7, <2>1, <2>3 DEF Sent
      <3>4. conn'[dcur'[h]].up = "hotplug" /\ dcur'[h][1] = "hotplug" BY <3>2, <3>3
      <3> QED BY <3>2, <3>4 DEF HasDevice, HotplugDue, Sent
    <2> QED BY <2>2, <2>3
  <1>8. ASSUME NEW i \in 1..Len(queue[P9797(h)]), Sent(queue[P9797(h)][i])
        PROVE  HasDevice(h)'
    <2> DEFINE c == queue[P9797(h)][i]
    <2>0. c \in Conn BY <1>0
    <2>1. CASE DstRead(h) /\ dcur[h] = c BY <1>4, <1>8, <2>1
    <2>2. CASE ~(DstRead(h) /\ dcur[h] = c)
      <3>1. c[1] = "hotplug" /\ conn'[c].up = "hotplug" BY <1>3, <1>8, <2>0, <2>2 DEF Sent
      <3>2. ASSUME NEW j \in 1..Len(queue'[P9797(h)]), queue'[P9797(h)][j] = c
            PROVE  HasDevice(h)'
        BY <3>1, <3>2 DEF HasDevice, HotplugDue, Sent
      <3>3. CASE queue'[P9797(h)] = queue[P9797(h)] BY <3>2, <3>3
      <3>4. ASSUME NEW d \in Conn, queue'[P9797(h)] = Append(queue[P9797(h)], d)
            PROVE  HasDevice(h)'
        <4>1. i \in 1..Len(queue'[P9797(h)]) /\ queue'[P9797(h)][i] = c
          BY <1>0, <3>4, AppendProperties
        <4> QED BY <3>2, <4>1
      <3>5. CASE DstAccept(h) /\ queue'[P9797(h)] = Tail(queue[P9797(h)])
        <4>1. CASE i = 1
          <5>1. dpc'[h] = "read" /\ dcur'[h] = c
            BY <1>0, <3>5, <4>1 DEF DstAccept, TypeDst
          <5> QED BY <3>1, <5>1 DEF HasDevice, HotplugDue, Sent
        <4>2. CASE i # 1
          <5>1. i - 1 \in 1..Len(queue'[P9797(h)]) /\ queue'[P9797(h)][i - 1] = c
            BY <1>0, <3>5, <4>2
          <5> QED BY <3>2, <5>1
        <4> QED BY <4>1, <4>2
      <3> QED BY <3>3, <3>4, <3>5, DestQueue
    <2> QED BY <2>1, <2>2
  <1> QED BY <1>2, <1>5, <1>6, <1>7, <1>8 DEF HasDevice, HotplugDue

LEMMA StepSent ==
    ASSUME TypeOK, HandoverInv, UnplugInv, SentInv, [Next]_vars
    PROVE  SentInv'
  <1>0. /\ TypeSrc /\ TypeVm /\ VmInv /\ SourceInv /\ Peer(shost) \in Host /\ Peer(shost) # shost
        /\ Peer(shost) # "lost" /\ Peer(Peer(shost)) = shost
    BY PeerType, PeerPeer DEF TypeOK, HandoverInv, TypeSrc
  <1> SUFFICES ASSUME spc' = "status", run' \notin alb',
                      mig'[shost'] = "active" \/ vmhost' = Peer(shost')
               PROVE  HasDevice(Peer(shost))'
    BY DEF SentInv, HasDevice, HotplugDue, Sent
  <1>1. CASE spc = "status"
    <2>1. UNCHANGED srcVars
      BY <1>1, SourceSteps DEF SourceStep, SrcStart, SrcConnectGuest, SrcSendGuest,
         SrcReadGuest, SrcConnectDest, SrcSendDest, SrcListen, SrcAccept, SrcRead, SrcUnplug,
         SrcUnbind, SrcMigrate, SrcHotplug, SrcCompleted, SrcFailed, AlbCompleted, AlbFailed,
         SrcKilled, SrcCloses
    <2>2. Prepared BY <1>1 DEF Prepared, Ended
    <2>3. gpc \in Cycle /\ Quiet(shost) BY <1>0, <2>2 DEF SourceInv
    <2>4. nic[Peer(shost)] # "unplugging" BY <2>2 DEF UnplugInv
    <2>5. mig[shost] = "active" \/ vmhost = Peer(shost)
      <3>1. CASE mig'[shost] = "active"
        BY <1>0, <1>1, <3>1, MigrationStarts DEF SrcMigrate, TypeSrc
      <3>2. ASSUME vmhost' = Peer(shost), vmhost' # vmhost PROVE mig[shost] = "active"
        <4>1. PICK k \in Host : MigrationCompletes(k)
          BY <1>0, <3>2, VmMoves
        <4>2. k = shost BY <1>0, <3>2, <4>1, PeerPeer DEF MigrationCompletes
        <4> QED BY <4>1, <4>2 DEF MigrationCompletes
      <3> QED BY <2>1, <3>1, <3>2 DEF srcVars
    <2>6. HasDevice(Peer(shost)) BY <1>1, <2>1, <2>5 DEF SentInv, srcVars
    <2>7. mig'[shost] = "active" \/ vmhost' = Peer(shost) BY <2>1 DEF srcVars
    <2>8. ASSUME NEW h \in Host, h = Peer(shost) PROVE HasDevice(h)'
      BY <1>0, <2>3, <2>4, <2>5, <2>6, <2>7, <2>8, DeviceKept
    <2>9. shost' = shost BY <2>1 DEF srcVars
    <2> QED BY <1>0, <2>8, <2>9 DEF HasDevice, HotplugDue, Sent
  <1>2. CASE spc # "status"
    <2>1. SrcHotplug
      BY <1>2, SourceSteps DEF SourceStep, SrcStart, SrcConnectGuest, SrcSendGuest,
         SrcReadGuest, SrcConnectDest, SrcSendDest, SrcListen, SrcAccept, SrcRead, SrcUnplug,
         SrcUnbind, SrcMigrate, SrcHotplug, SrcCompleted, SrcFailed, AlbCompleted, AlbFailed,
         SrcKilled, SrcCloses, srcVars
    <2> DEFINE c == SrcConn("hotplug")
               p == P9797(Peer(shost))
    <2>2. c \in Conn /\ c[1] = "hotplug"
      BY <1>0, <2>1, SrcConnType DEF SrcHotplug, Kind, SrcConn
    <2>3. p \in Port /\ queue[p] \in Seq(Conn) /\ conn \in [Conn -> Channel]
      BY <1>0, PortTypes DEF TypeOK, TypeNet
    <2>4. OneShot(c, p, "hotplug") /\ shost' = shost BY <2>1 DEF SrcHotplug
    <2>5. conn'[c].up = "hotplug" BY <2>2, <2>3, <2>4, WritesUp
    <2>6. queue'[p] = Append(queue[p], c)
      BY <2>3, <2>4 DEF OneShot, TypeOK, TypeNet
    <2>7. Len(queue'[p]) \in 1..Len(queue'[p]) /\ queue'[p][Len(queue'[p])] = c
      BY <2>2, <2>3, <2>6, AppendProperties
    <2> HIDE DEF c
    <2>8. \E i \in 1..Len(queue'[P9797(Peer(shost'))]) :
            LET d == queue'[P9797(Peer(shost'))][i] IN d[1] = "hotplug" /\ conn'[d].up = "hotplug"
      BY <2>2, <2>4, <2>5, <2>7
    <2> QED BY <2>8 DEF HasDevice, HotplugDue, Sent
  <1> QED BY <1>1, <1>2

LEMMA StepDevice ==
    ASSUME TypeOK, HandoverInv, UnplugInv, SentInv, DeviceInv, [Next]_vars
    PROVE  DeviceInv'
  <1>0. /\ TypeSrc /\ TypeDst /\ TypeVm /\ VmInv /\ KindInv /\ SourceInv /\ DestInv
    BY DEF TypeOK, HandoverInv
  <1> SUFFICES ASSUME NEW h \in Host, NEW c \in Conn, DueOn(h, c)', c[2] \notin alb', vmhost' = h
               PROVE  HasDevice(h)'
    BY DEF DeviceInv
  <1>1. c[2] \notin alb
    BY SourceSteps DEF SourceStep, SrcStart, SrcConnectGuest, SrcSendGuest,
       SrcReadGuest, SrcConnectDest, SrcSendDest, SrcListen, SrcAccept, SrcRead, SrcUnplug,
       SrcUnbind, SrcMigrate, SrcHotplug, SrcCompleted, SrcFailed, AlbCompleted, AlbFailed,
       SrcKilled, srcVars
  <1>2. CASE DueOn(h, c)
    <2>1. DoneDue(h) BY <1>2 DEF DueOn, DoneDue, Waiting
    <2>2. ~Quiet(h)
      <3>1. queue[P9797(h)] = <<>> => ~Waiting(h) BY DEF Waiting
      <3> QED BY <2>1, <3>1 DEF DoneDue, Reading, Serving, Stuck, Quiet
    <2>3. gpc \in Cycle /\ Quiet(Peer(h)) /\ nic[h] # "unplugging"
      BY <1>0, <2>2 DEF DestInv, UnplugInv
    <2>4. \A k \in Host : mig[k] # "active" BY <1>0, <2>1 DEF DestInv
    <2>5. vmhost = h BY <2>4, VmMoves, PeerType DEF MigrationCompletes
    <2>6. HasDevice(h) BY <1>1, <1>2, <2>5 DEF DeviceInv
    <2> QED BY <2>3, <2>5, <2>6, DeviceKept
  <1>3. CASE ~DueOn(h, c)
    <2>1. /\ Prepared /\ h = Peer(shost) /\ spc = "status" /\ mig[shost] = "completed"
          /\ c[2] = run /\ UNCHANGED <<vmVars, dstVars>>
      BY <1>0, <1>3, DueComes
    <2>2. vmhost = h BY <2>1 DEF vmVars
    <2>3. HasDevice(h) BY <1>1, <2>1, <2>2 DEF SentInv
    <2>4. gpc \in Cycle /\ Quiet(Peer(h)) /\ nic[h] # "unplugging"
      BY <1>0, <2>1, PeerPeer DEF SourceInv, UnplugInv, TypeSrc
    <2> QED BY <2>2, <2>3, <2>4, DeviceKept
  <1> QED BY <1>2, <1>3

LEMMA InitLost == Init => LostInv
  <1> SUFFICES ASSUME Init PROVE LostInv OBVIOUS
  <1>1. /\ \A h \in Host : P9797(h) \in Port /\ dpc[h] = "accept" /\ queue[P9797(h)] = <<>>
        /\ spc = "off" /\ \A h \in Host : qemu[h] # "starting" /\ nic[h] # "unplugging"
    BY PortTypes DEF Init
  <1>2. StartInv /\ TopInv /\ SentInv BY <1>1 DEF StartInv, TopInv, SentInv
  <1>3. UnplugInv BY <1>1 DEF UnplugInv, Prepared
  <1>4. DeviceInv
    <2>1. \A h \in Host, c \in Conn : ~DueOn(h, c) BY <1>1 DEF DueOn, Reading, Serving
    <2> QED BY <2>1 DEF DeviceInv
  <1> QED BY <1>2, <1>3, <1>4 DEF LostInv

LEMMA StepLost == TypeOK /\ HandoverInv /\ HandoverInv' /\ LostInv /\ [Next]_vars => LostInv'
  BY StepStart, StepTop, StepUnplug, StepSent, StepDevice DEF LostInv

\* The step that loses the guest.
LEMMA LosesGuest ==
    ASSUME TypeOK, HandoverInv, LostInv, [Next]_vars, GuestRuns, vmhost' = "lost"
    PROVE  \/ "create" \in Faults /\ dpc[vmhost] = "top"
           \/ dpc[vmhost] = "bottom" /\ dcur[vmhost][2] \in alb
  <1>0. /\ TypeDst /\ LastInv BY DEF TypeOK, HandoverInv
  <1>1. PICK h \in Host : (DstTopHalf(h) \/ DstBottomHalf(h)) /\ vmhost = h
    <2>1. vmhost' # vmhost BY PeerType DEF GuestRuns
    <2> QED BY <2>1, VmMoves, PeerType DEF MigrationCompletes
  <1>2. nic[h] = "absent" /\ QmpAnswers(h)
    BY <1>1, PeerType DEF DstTopHalf, DstBottomHalf
  <1>3. CASE DstTopHalf(h)
    <2>1. dpc[h] = "top" BY <1>3 DEF DstTopHalf
    <2> QED BY <1>1, <1>2, <2>1 DEF LostInv, TopInv
  <1>4. CASE DstBottomHalf(h)
    <2>1. dpc[h] = "bottom" BY <1>4 DEF DstBottomHalf
    <2>2. dcur[h] \in Conn /\ queue[P9797(h)] = <<>>
      BY <1>0, <2>1 DEF TypeDst, LastInv, Stuck, Serving
    <2>3. DueOn(h, dcur[h]) BY <2>1 DEF DueOn, Serving
    <2>4. ~HasDevice(h) BY <1>2, <2>1, <2>2 DEF HasDevice, HotplugDue
    <2>5. dcur[h][2] \in alb BY <1>1, <2>2, <2>3, <2>4 DEF LostInv, DeviceInv
    <2> QED BY <1>1, <2>1, <2>5
  <1> QED BY <1>1, <1>3, <1>4

\* The guest is lost only after a device that could not be created, or by a load
\* balancer's run: for the other runs the order of the messages rules it out.
THEOREM LostSafe == Spec => LostOnlyWithoutDevice
  <1>1. TypeOK /\ HandoverInv /\ LostInv /\ [Next]_vars
          => [GuestRuns /\ vmhost' = "lost"
                => \/ "create" \in Faults /\ dpc[vmhost] = "top"
                   \/ dpc[vmhost] = "bottom" /\ dcur[vmhost][2] \in alb]_vars
    BY LosesGuest
  <1> QED BY <1>1, InitLost, StepLost, TypeCorrect, HandoverInvariant, PTL
          DEF Spec, LostOnlyWithoutDevice

-----------------------------------------------------------------------------
(* The agents implement the handover *)

LEMMA InitRefines == Init => Handover!Init
  BY DEF Init, Handover!Init, Host

LEMMA StepRefines ==
    ASSUME TypeOK, GuestInv, HandoverInv, [Next]_vars
    PROVE  [Handover!Next]_(Handover!vars)
  <1> DEFINE Refined == [Handover!Next]_(Handover!vars)
  <1> SUFFICES Refined OBVIOUS
  <1> USE DEF Handover!Next, Handover!vars
  <1>0. /\ TypeVm /\ TypeSrc /\ TypeDst /\ VmInv /\ MovingInv /\ NicInv /\ SourceInv /\ DestInv
        /\ PluggedWhereGuestRuns
    BY DEF TypeOK, HandoverInv
  <1>1. CASE UNCHANGED vmVars BY <1>1 DEF vmVars
  <1>2. CASE SrcUnplug \/ SrcMigrate BY <1>2 DEF SrcUnplug, SrcMigrate
  <1>3. CASE GstRemove
    <2>1. Handover!Release BY <1>3 DEF GstRemove, Handover!Release
    <2> QED BY <2>1
  <1>4. CASE GstEnslave
    <2>1. Handover!Return BY <1>4 DEF GstEnslave, Handover!Return
    <2> QED BY <2>1
  <1>5. CASE GuestReboots
    <2>1. nic[vmhost] = "unplugging" => bond.active = "ens3"
      BY <1>5 DEF GuestReboots, GuestRuns, NicInv, HandoverInv
    <2>2. CASE gnic' = "absent"
      <3>1. Handover!Release \/ Handover!Detach
        BY <1>5, <2>1, <2>2 DEF GuestReboots, Handover!Release, Handover!Detach
      <3> QED BY <3>1
    <2>3. CASE gnic' # "absent"
      <3>1. Handover!Return BY <1>5, <2>3 DEF GuestReboots, Handover!Return
      <3> QED BY <3>1
    <2> QED BY <2>2, <2>3
  <1>6. ASSUME NEW k \in Host, DstSetup(k) \/ DstCreate(k) PROVE Refined
    BY <1>6 DEF DstSetup, DstCreate
  <1>7. ASSUME NEW k \in Host, QemuCrashes(k), UNCHANGED bond PROVE Refined
    <2>1. CASE vmhost = k
      <3>1. Handover!Lose BY <1>7, <2>1 DEF QemuCrashes, Handover!Lose
      <3> QED BY <3>1
    <2>2. CASE vmhost # k BY <1>7, <2>2 DEF QemuCrashes
    <2> QED BY <2>1, <2>2
  <1>8. ASSUME NEW k \in Host, DstTopHalf(k) \/ DstBottomHalf(k), ~QemuCrashes(k)
        PROVE  Refined
    <2>1. CASE UNCHANGED <<vmhost, gnic, bond>> BY <2>1
    <2>2. CASE ~UNCHANGED <<vmhost, gnic, bond>>
      <3>1. /\ nic[k] = "half" /\ vmhost = k /\ gnic' = "up"
            /\ UNCHANGED <<vmhost, bond>>
        BY <1>8, <2>2 DEF DstTopHalf, DstBottomHalf
      <3>2. gnic = "absent" BY <1>0, <3>1 DEF NicInv
      <3>3. Handover!Attach BY <3>1, <3>2 DEF Handover!Attach
      <3> QED BY <3>3
    <2> QED BY <2>1, <2>2
  <1>9. ASSUME NEW k \in Host, NicReleased(k) PROVE Refined
    <2>1. CASE vmhost = k
      <3>1. bond.active = "ens3" BY <1>0, <1>9 DEF NicReleased, NicInv
      <3>2. Handover!Release \/ Handover!Detach
        BY <1>9, <2>1, <3>1 DEF NicReleased, Handover!Release, Handover!Detach
      <3> QED BY <3>2
    <2>2. CASE vmhost # k BY <1>9, <2>2 DEF NicReleased
    <2> QED BY <2>1, <2>2
  <1>10. ASSUME NEW k \in Host, MigrationCompletes(k) PROVE Refined
    <2>1. vmhost = k /\ gnic = "absent" BY <1>0, <1>10 DEF MigrationCompletes, VmInv
    <2>2. Handover!Move
      BY <1>10, <2>1, PeerType DEF MigrationCompletes, Handover!Move, Host
    <2> QED BY <2>2
  <1>11. ASSUME NEW k \in Host, QemuUp(k) \/ QemuQuit(k) \/ MigrationFails(k) PROVE Refined
    BY <1>11 DEF QemuUp, QemuQuit, MigrationFails
  <1>12. ASSUME NEW k \in Host, DstTopHalf(k) \/ DstBottomHalf(k) PROVE Refined
    BY <1>7, <1>8, <1>12 DEF DstTopHalf, DstBottomHalf
  <1> HIDE DEF Refined, Handover!Next, Handover!vars
  <1> QED BY <1>2, <1>3, <1>4, <1>5, <1>6, <1>9, <1>10, <1>11, <1>12, <1>1, MachineSteps
          DEF QemuStep

\* Every step of the agents, their scripts, the guest and QEMU, faults and all,
\* is a step of the handover or leaves what it speaks of alone: the traffic
\* leaves the NIC before the NIC leaves the guest, the guest moves only without
\* it, and the traffic returns only to a NIC the guest has.
THEOREM AgentsRefineHandover == Spec => HandoverSpec
  <1>1. TypeOK /\ GuestInv /\ HandoverInv /\ [Next]_vars => [Handover!Next]_(Handover!vars)
    BY StepRefines
  <1> QED BY <1>1, InitRefines, TypeCorrect, GuestInvariant, HandoverInvariant, PTL
          DEF Spec, HandoverSpec, Handover!Spec
=============================================================================
