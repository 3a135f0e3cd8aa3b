------------------------- MODULE OsnetDevice_proofs -------------------------
(***************************************************************************)
(* Theorems about the life of a vfio-pci device.  What holds for commands  *)
(* in any order and with any failure comes first (DeviceInv); what holds   *)
(* for the commands in the order of the agents builds on it (CarefulInv).  *)
(***************************************************************************)
EXTENDS OsnetDevice, TLAPS

-----------------------------------------------------------------------------
(* Any commands, any failures *)

\* Why NicHeldOnce is inductive: an object that is in use is not taken for a new
\* device, and an object that is not in use holds nothing.
DeviceInv ==
    /\ TypeOK /\ NicHeldOnce /\ IdsComeBack
    /\ \A o \in Obj \ alive : ~Holds(o)
    /\ Devices \subseteq alive

LEMMA DeviceInit == Init => DeviceInv
  <1> SUFFICES ASSUME Init PROVE DeviceInv
    OBVIOUS
  <1>1. TypeOK
    BY ObjAssumption DEF Init, TypeOK, None
  <1>2. Devices = {}
    BY DEF Init, Devices
  <1> QED BY <1>1, <1>2 DEF Init, DeviceInv, NicHeldOnce, IdsComeBack, Holds

\* A new object has its id alone, and no other device loses its own.
LEMMA CreatedDevices ==
    ASSUME DeviceInv, NEW o \in Obj, NEW i \in Id, NEW n \in Nic, Creates(o, i, n)
    PROVE  Devices' = Devices \cup {o} /\ o \notin Devices /\ o # None
  <1>1. named[i] = None
    BY DEF DeviceInv, IdsComeBack, Creates
  <1>2. named' = [named EXCEPT ![i] = o] /\ named \in [Id -> Obj \cup {None}]
    BY DEF DeviceInv, TypeOK, Creates
  <1>3. o # None
    BY ObjAssumption DEF None
  <1> QED BY <1>1, <1>2, <1>3 DEF Devices, DeviceInv, Creates

LEMMA CreatesKeeps ==
    ASSUME DeviceInv, NEW o \in Obj, NEW i \in Id, NEW n \in Nic, Creates(o, i, n)
    PROVE  /\ alive' \subseteq Obj /\ named' \in [Id -> Obj \cup {None}]
           /\ opts' \subseteq Id /\ host' \in [Obj -> Nic]
           /\ IdsComeBack' /\ Devices' \subseteq alive'
  <1>1. Devices' = Devices \cup {o} /\ o # None
    BY CreatedDevices
  <1>2. alive' \subseteq Obj /\ opts' \subseteq Id /\ host' \in [Obj -> Nic]
        /\ named' \in [Id -> Obj \cup {None}]
    BY DEF DeviceInv, TypeOK, Creates
  <1>3. IdsComeBack'
    BY <1>1 DEF IdsComeBack, DeviceInv, TypeOK, Creates
  <1> QED BY <1>1, <1>2, <1>3 DEF DeviceInv, Creates

\* One object opens its NIC, which nobody held, or does not.
LEMMA Opens ==
    ASSUME DeviceInv, NEW o \in Obj, NEW r \in {"none", "open", "config"},
           host' \in [Obj -> Nic], \A p \in alive : p # o => host'[p] = host[p],
           alive' \in {alive, alive \cup {o}}, o \in alive',
           vfio' = [vfio EXCEPT ![o] = r],
           r = "none" \/ ~Busy(host'[o])
    PROVE  /\ NicHeldOnce' /\ \A p \in Obj \ alive' : ~Holds(p)'
           /\ vfio' \in [Obj -> {"none", "open", "config"}]
  <1>1. vfio' \in [Obj -> {"none", "open", "config"}]
    BY DEF DeviceInv, TypeOK
  <1>2. \A p \in Obj \ {o} : vfio'[p] = vfio[p]
    BY DEF DeviceInv, TypeOK
  <1>3. vfio'[o] = r
    BY DEF DeviceInv, TypeOK
  <1>4. \A p \in Obj \ alive' : ~Holds(p)'
    BY <1>2 DEF DeviceInv, Holds
  <1>5. ASSUME NEW p \in alive', NEW q \in alive', p # q,
               vfio'[p] # "none", vfio'[q] # "none", host'[p] = host'[q]
        PROVE  FALSE
    <2>1. p \in Obj /\ q \in Obj BY DEF DeviceInv, TypeOK
    <2>2. CASE p = o
      BY <1>2, <1>3, <1>5, <2>1, <2>2 DEF Busy, Holds
    <2>3. CASE q = o
      BY <1>2, <1>3, <1>5, <2>1, <2>3 DEF Busy, Holds
    <2>4. CASE p # o /\ q # o
      BY <1>2, <1>5, <2>1, <2>4 DEF DeviceInv, NicHeldOnce, Holds
    <2> QED BY <2>2, <2>3, <2>4
  <1> QED BY <1>1, <1>4, <1>5 DEF NicHeldOnce, Holds

\* Losing the parent takes exactly the objects S from the monitor.
LEMMA UnparentedDevices ==
    ASSUME named \in [Id -> Obj \cup {None}], NEW S, S \subseteq Obj, Unparents(S)
    PROVE  Devices' = Devices \ S
  <1>1. named' = [i \in Id |-> IF named[i] \in S THEN None ELSE named[i]]
    BY DEF Unparents
  <1>2. \A i \in Id : named'[i] = IF named[i] \in S THEN None ELSE named[i]
    BY <1>1
  <1>3. None \notin S
    BY ObjAssumption DEF None
  <1> QED BY <1>2, <1>3 DEF Devices

LEMMA UnparentsKeeps ==
    ASSUME DeviceInv, NEW S, S \subseteq Obj, Unparents(S)
    PROVE  DeviceInv'
  <1>1. Devices' \subseteq alive'
    BY UnparentedDevices DEF DeviceInv, TypeOK, Unparents
  <1>2. named' \in [Id -> Obj \cup {None}]
    BY DEF DeviceInv, TypeOK, Unparents
  <1>3. TypeOK'
    BY <1>2 DEF DeviceInv, TypeOK, Unparents, Unrealizes
  <1>4. IdsComeBack'
    <2>1. \A i \in Id : named'[i] = IF named[i] \in S THEN None ELSE named[i]
      BY DEF Unparents
    <2>2. opts' = opts \ {i \in Id : named[i] \in S}
      BY DEF Unparents
    <2>3. None \notin S
      BY ObjAssumption DEF None
    <2> QED BY <2>1, <2>2, <2>3 DEF IdsComeBack, DeviceInv
  <1>5. UNCHANGED <<alive, host, vfio>>
    BY DEF Unparents
  <1> QED BY <1>1, <1>3, <1>4, <1>5 DEF DeviceInv, NicHeldOnce, Holds

LEMMA DeviceStep == DeviceInv /\ [Next]_vars => DeviceInv'
  <1> SUFFICES ASSUME DeviceInv, [Next]_vars PROVE DeviceInv'
    OBVIOUS
  <1> USE DEF objVars
  <1>1. ASSUME NEW i \in Id, NEW o \in Obj, NEW n \in Nic, OsnetCreate(o, i, n)
        PROVE  DeviceInv'
    <2>0. Creates(o, i, n)
      BY <1>1 DEF OsnetCreate
    <2>1. /\ alive' \subseteq Obj /\ named' \in [Id -> Obj \cup {None}]
          /\ opts' \subseteq Id /\ host' \in [Obj -> Nic]
          /\ IdsComeBack' /\ Devices' \subseteq alive'
      BY <2>0, CreatesKeeps
    <2>2. vfio' = vfio /\ vfio[o] = "none"
      BY <1>1 DEF OsnetCreate, Creates, DeviceInv, TypeOK, Holds
    <2>3. TypeOK'
      BY <1>1, <2>1 DEF OsnetCreate, DeviceInv, TypeOK
    <2>4. NicHeldOnce'
      BY <2>0, <2>2 DEF DeviceInv, TypeOK, NicHeldOnce, Holds, Creates
    <2> QED BY <2>0, <2>1, <2>2, <2>3, <2>4 DEF DeviceInv, Creates, Holds
  <1>2. ASSUME NEW i \in Id, NEW o \in Obj, NEW n \in Nic, DeviceAdd(o, i, n)
        PROVE  DeviceInv'
    <2>0. Creates(o, i, n)
      BY <1>2 DEF DeviceAdd
    <2>1. /\ alive' \subseteq Obj /\ named' \in [Id -> Obj \cup {None}]
          /\ opts' \subseteq Id /\ host' \in [Obj -> Nic]
          /\ IdsComeBack' /\ Devices' \subseteq alive'
      BY <2>0, CreatesKeeps
    <2>2. /\ \A p \in alive : p # o => host'[p] = host[p]
          /\ host'[o] = n /\ o \in alive' /\ alive' = alive \cup {o}
      BY <2>0 DEF DeviceInv, TypeOK, Creates
    <2>3. /\ NicHeldOnce' /\ \A p \in Obj \ alive' : ~Holds(p)'
          /\ vfio' \in [Obj -> {"none", "open", "config"}]
      BY <1>2, <2>1, <2>2, Opens DEF DeviceAdd
    <2>4. TypeOK'
      BY <1>2, <2>1, <2>3 DEF DeviceAdd, DeviceInv, TypeOK
    <2> QED BY <2>1, <2>3, <2>4 DEF DeviceInv
  <1>3. ASSUME NEW i \in Id, NEW o \in Obj, NEW n \in Nic, DeviceAddFails(o, i, n)
        PROVE  DeviceInv'
    <2>1. PICK r \in VfioFails(n) : vfio' = [vfio EXCEPT ![o] = r]
      BY <1>3 DEF DeviceAddFails
    <2>2. r \in {"none", "open", "config"} /\ (r = "none" \/ ~Busy(n))
      BY <2>1 DEF VfioFails, SetupFails
    <2>3. /\ host' \in [Obj -> Nic] /\ \A p \in alive : p # o => host'[p] = host[p]
          /\ host'[o] = n /\ alive' = alive \cup {o}
      BY <1>3 DEF DeviceAddFails, DeviceInv, TypeOK
    <2>4. /\ NicHeldOnce' /\ \A p \in Obj \ alive' : ~Holds(p)'
          /\ vfio' \in [Obj -> {"none", "open", "config"}]
      BY <2>1, <2>2, <2>3, Opens
    <2>5. TypeOK' /\ IdsComeBack'
      BY <1>3, <2>3, <2>4 DEF DeviceAddFails, DeviceInv, TypeOK, IdsComeBack
    <2>6. Devices' \subseteq alive'
      BY <1>3 DEF DeviceAddFails, DeviceInv, Devices
    <2> QED BY <2>4, <2>5, <2>6 DEF DeviceInv
  <1>4. ASSUME NEW i \in Id, TopHalf(i) PROVE DeviceInv'
    <2> DEFINE o == named[i]
    <2>1. o \in Obj /\ o \in alive
      BY <1>4 DEF TopHalf, DeviceInv, TypeOK, Devices
    <2>2. UNCHANGED objVars
      BY <1>4 DEF TopHalf
    <2>3. PICK r \in {"none", "open", "config"} :
             vfio' = [vfio EXCEPT ![o] = r] /\ (r = "none" \/ ~Busy(host[o]))
      BY <1>4 DEF TopHalf, VfioFails, SetupFails
    <2>4. host' \in [Obj -> Nic]
      BY <2>2 DEF DeviceInv, TypeOK
    <2> HIDE DEF o
    <2>5. /\ NicHeldOnce' /\ \A p \in Obj \ alive' : ~Holds(p)'
          /\ vfio' \in [Obj -> {"none", "open", "config"}]
      BY <2>1, <2>2, <2>3, <2>4, Opens
    <2>6. built' \subseteq Obj /\ realized' \subseteq Obj
      BY <1>4, <2>1 DEF TopHalf, DeviceInv, TypeOK, o
    <2>7. TypeOK'
      BY <1>4, <2>2, <2>5, <2>6 DEF TopHalf, DeviceInv, TypeOK
    <2> QED BY <2>2, <2>5, <2>7 DEF DeviceInv, IdsComeBack, Devices
  <1>5. ASSUME NEW i \in Id, BottomHalf(i) \/ BottomHalfFails(i) PROVE DeviceInv'
    <2>1. named[i] \in Obj
      BY <1>5 DEF BottomHalf, BottomHalfFails, DeviceInv, TypeOK
    <2>2. UNCHANGED <<objVars, vfio>>
      BY <1>5 DEF BottomHalf, BottomHalfFails
    <2>3. TypeOK'
      BY <1>5, <2>1, <2>2
         DEF BottomHalf, BottomHalfFails, Unrealizes, DeviceInv, TypeOK
    <2> QED BY <2>2, <2>3 DEF DeviceInv, IdsComeBack, Devices, NicHeldOnce, Holds
  <1>6. ASSUME NEW i \in Id, DeviceDel(i) \/ NicReset(i) \/ NoDevice(i)
        PROVE  DeviceInv'
    <2>1. UNCHANGED <<objVars, vfio>>
      BY <1>6 DEF DeviceDel, NicReset, NoDevice
    <2>2. TypeOK'
      BY <1>6, <2>1 DEF DeviceDel, NicReset, NoDevice, DeviceInv, TypeOK
    <2> QED BY <2>1, <2>2 DEF DeviceInv, IdsComeBack, Devices, NicHeldOnce, Holds
  <1>7. ASSUME NEW o \in Obj, GuestEjects(o) PROVE DeviceInv'
    BY <1>7, UnparentsKeeps DEF GuestEjects
  <1>8. ASSUME SystemReset PROVE DeviceInv'
    <2>1. asked \subseteq Obj BY DEF DeviceInv, TypeOK
    <2> QED BY <1>8, <2>1, UnparentsKeeps DEF SystemReset
  <1>9. ASSUME EarlyReset PROVE DeviceInv'
    <2>1. UNCHANGED <<objVars, vfio>>
      BY <1>9 DEF EarlyReset
    <2>2. TypeOK'
      BY <1>9, <2>1 DEF EarlyReset, DeviceInv, TypeOK
    <2> QED BY <2>1, <2>2 DEF DeviceInv, IdsComeBack, Devices, NicHeldOnce, Holds
  <1>10. ASSUME NEW o \in Obj, Finalize(o) PROVE DeviceInv'
    <2>1. TypeOK'
      BY <1>10 DEF Finalize, DeviceInv, TypeOK
    <2>2. vfio' = [vfio EXCEPT ![o] = "none"] /\ alive' = alive \ {o}
          /\ UNCHANGED <<named, opts, host>> /\ o \notin Devices
      BY <1>10 DEF Finalize
    <2>3. NicHeldOnce'
      BY <2>2 DEF DeviceInv, TypeOK, NicHeldOnce, Holds
    <2>4. \A p \in Obj \ alive' : ~Holds(p)'
      BY <2>2 DEF DeviceInv, TypeOK, Holds
    <2> QED BY <2>1, <2>2, <2>3, <2>4 DEF DeviceInv, IdsComeBack, Devices
  <1>11. CASE UNCHANGED vars
    BY <1>11 DEF vars, DeviceInv, TypeOK, NicHeldOnce, IdsComeBack, Devices, Holds
  <1>12. CASE Next
    BY <1>1, <1>2, <1>3, <1>4, <1>5, <1>6, <1>7, <1>8, <1>9, <1>10, <1>12
       DEF Next, Command
  <1> QED BY <1>11, <1>12

THEOREM DeviceInvariant == Spec => []DeviceInv
  <1>1. Init => DeviceInv BY DeviceInit
  <1>2. DeviceInv /\ [Next]_vars => DeviceInv' BY DeviceStep
  <1> QED BY <1>1, <1>2, PTL DEF Spec

\* Type correctness, for every set of objects, ids, NICs, failures and habits.
THEOREM DeviceTypeCorrect == Spec => []TypeOK
  <1>1. DeviceInv => TypeOK BY DEF DeviceInv
  <1> QED BY <1>1, DeviceInvariant, PTL

\* vfio_realize's "device is already attached" and the late finalization keep a
\* NIC in one device, whatever commands come in whatever order.
THEOREM OneDevicePerNic == Spec => []NicHeldOnce
  <1>1. DeviceInv => NicHeldOnce BY DEF DeviceInv
  <1> QED BY <1>1, DeviceInvariant, PTL

\* An id is free again after every failure and every removal.
THEOREM IdsAreReusable == Spec => []IdsComeBack
  <1>1. DeviceInv => IdsComeBack BY DEF DeviceInv
  <1> QED BY <1>1, DeviceInvariant, PTL

-----------------------------------------------------------------------------
(* The commands in the order of the agents *)

\* With careful commands the flag "realized" says what it promises, and the guest
\* has, and migration minds, only devices that are realized.
InOrderInv ==
    /\ realized = built /\ vmsd = plugged
    /\ plugged \subseteq built /\ built \subseteq Devices
    /\ fault = {}

CarefulInv == careful => InOrderInv

LEMMA UnparentsCareful ==
    ASSUME DeviceInv, InOrderInv, NEW S, S \subseteq Obj, Unparents(S)
    PROVE  InOrderInv'
  <1>1. Devices' = Devices \ S
    BY UnparentedDevices DEF DeviceInv, TypeOK
  <1>2. realized' = realized \ S /\ built' = built \ S /\ vmsd' = vmsd \ S
    BY DEF Unparents, Unrealizes, InOrderInv
  <1>3. plugged' = plugged \ S /\ fault' = {}
    BY DEF Unparents, Unrealizes, InOrderInv
  <1> QED BY <1>1, <1>2, <1>3 DEF InOrderInv

LEMMA InOrderStep ==
    ASSUME DeviceInv, InOrderInv, careful', [Next]_vars
    PROVE  InOrderInv'
  <1> USE DEF objVars
  <1>1. ASSUME NEW i \in Id, NEW o \in Obj, NEW n \in Nic, OsnetCreate(o, i, n)
        PROVE  InOrderInv'
    <2>1. Devices' = Devices \cup {o}
      BY <1>1, CreatedDevices DEF OsnetCreate
    <2> QED BY <1>1, <2>1 DEF OsnetCreate, InOrderInv
  <1>2. ASSUME NEW i \in Id, NEW o \in Obj, NEW n \in Nic, DeviceAdd(o, i, n)
        PROVE  InOrderInv'
    <2>1. Devices' = Devices \cup {o}
      BY <1>2, CreatedDevices DEF DeviceAdd
    <2> QED BY <1>2, <2>1 DEF DeviceAdd, InOrderInv
  <1>3. ASSUME NEW i \in Id, NEW o \in Obj, NEW n \in Nic, DeviceAddFails(o, i, n)
        PROVE  InOrderInv'
    <2>1. Devices' = Devices BY <1>3 DEF DeviceAddFails, Devices
    <2> QED BY <1>3, <2>1 DEF DeviceAddFails, InOrderInv
  <1>4. ASSUME NEW i \in Id, TopHalf(i) PROVE InOrderInv'
    <2>1. built' = built \cup {named[i]} /\ named[i] \in Devices
      BY <1>4 DEF TopHalf, Devices
    <2>2. Devices' = Devices BY <1>4 DEF TopHalf, Devices
    <2> QED BY <1>4, <2>1, <2>2 DEF TopHalf, InOrderInv
  <1>5. ASSUME NEW i \in Id, BottomHalf(i) PROVE InOrderInv'
    <2>1. named[i] \in built BY <1>5 DEF BottomHalf, InOrder, InOrderInv
    <2>2. Devices' = Devices BY <1>5 DEF BottomHalf, Devices
    <2> QED BY <1>5, <2>1, <2>2 DEF BottomHalf, InOrderInv
  <1>6. ASSUME NEW i \in Id, DeviceDel(i) PROVE InOrderInv'
    <2>1. Devices' = Devices BY <1>6 DEF DeviceDel, Devices
    <2> QED BY <1>6, <2>1 DEF DeviceDel, InOrderInv
  <1>7. ASSUME NEW o \in Obj, GuestEjects(o) PROVE InOrderInv'
    BY <1>7, UnparentsCareful DEF GuestEjects
  <1>8. ASSUME SystemReset PROVE InOrderInv'
    <2>1. asked \subseteq Obj BY DEF DeviceInv, TypeOK
    <2> QED BY <1>8, <2>1, UnparentsCareful DEF SystemReset
  <1>9. ASSUME NEW o \in Obj, Finalize(o) PROVE InOrderInv'
    <2>1. Devices' = Devices BY <1>9 DEF Finalize, Devices
    <2>2. o \notin realized BY <1>9 DEF Finalize, InOrderInv
    <2> QED BY <1>9, <2>1, <2>2 DEF Finalize, InOrderInv
  <1>10. ASSUME NEW i \in Id, BottomHalfFails(i) \/ NicReset(i) \/ NoDevice(i) \/ EarlyReset
         PROVE  FALSE
    BY <1>10 DEF BottomHalfFails, NicReset, NoDevice, EarlyReset
  <1>11. CASE UNCHANGED vars
    BY <1>11 DEF vars, InOrderInv, Devices
  <1>12. CASE Next
    <2>1. ~EarlyReset BY DEF EarlyReset
    <2> QED BY <1>1, <1>2, <1>3, <1>4, <1>5, <1>6, <1>7, <1>8, <1>9, <1>10, <1>12, <2>1
         DEF Next, Command
  <1> QED BY <1>11, <1>12

\* A careless step ends being careful for good.
LEMMA StaysCareless ==
    ASSUME [Next]_vars, careful'
    PROVE  careful
  <1>1. CASE UNCHANGED vars BY <1>1 DEF vars
  <1>2. CASE Next
    BY <1>2 DEF Next, Command, OsnetCreate, DeviceAdd, DeviceAddFails, TopHalf, BottomHalf,
                BottomHalfFails, DeviceDel, NicReset, NoDevice, GuestEjects, Finalize,
                SystemReset, EarlyReset, Unparents
  <1> QED BY <1>1, <1>2

LEMMA CarefulInvariant == Spec => []CarefulInv
  <1>1. Init => CarefulInv BY DEF Init, CarefulInv, InOrderInv
  <1>2. DeviceInv /\ CarefulInv /\ [Next]_vars => CarefulInv'
    BY InOrderStep, StaysCareless DEF CarefulInv
  <1> QED BY <1>1, <1>2, DeviceInvariant, PTL DEF Spec

\* With commands in the order of the agents nothing of QEMU points to an object
\* that may be freed.
THEOREM CarefulLeavesNothing == Spec => []NothingDangles
  <1>1. CarefulInv => NothingDangles BY DEF CarefulInv, InOrderInv, NothingDangles
  <1> QED BY <1>1, CarefulInvariant, PTL

\* With commands in the order of the agents a NIC blocks the migration exactly
\* while the guest has it.
THEOREM CarefulBlocks == Spec => []BlocksMigrationWhilePlugged
  <1>1. CarefulInv => BlocksMigrationWhilePlugged
    BY DEF CarefulInv, InOrderInv, BlocksMigrationWhilePlugged
  <1> QED BY <1>1, CarefulInvariant, PTL

\* With commands in the order of the agents no realization is undone twice, and
\* no command, reset or answer of the guest crashes QEMU.
THEOREM CarefulDoesNotCrash == Spec => []NoCrash
  <1>1. CarefulInv => NoCrash BY DEF CarefulInv, InOrderInv, NoCrash
  <1> QED BY <1>1, CarefulInvariant, PTL

\* A device the guest has been told of has a DEVICE_DELETED still to come.
Untold == plugged \cap deleted = {}

LEMMA UntoldStep ==
    ASSUME InOrderInv, Untold, careful', [Next]_vars
    PROVE  Untold' /\ \A o \in plugged \ plugged' : o \in deleted' \ deleted
  <1> DEFINE Goal == Untold' /\ \A o \in plugged \ plugged' : o \in deleted' \ deleted
  <1>1. ASSUME NEW S, Unparents(S) PROVE Goal
    <2>1. plugged' = plugged \ S /\ deleted' = deleted \cup (S \cap realized)
      BY <1>1 DEF Unparents
    <2>2. plugged \subseteq realized
      BY DEF InOrderInv
    <2> QED BY <2>1, <2>2 DEF Untold
  <1>2. ASSUME NEW S, plugged' = plugged \cup S, deleted' = deleted \ S PROVE Goal
    BY <1>2 DEF Untold
  <1>3. ASSUME NEW S, plugged' = plugged, deleted' = deleted \ S PROVE Goal
    BY <1>3 DEF Untold
  <1> SUFFICES Goal
    OBVIOUS
  <1> HIDE DEF Goal
  <1>4. CASE UNCHANGED <<plugged, deleted>>
    BY <1>3, <1>4
  <1>5. ASSUME NEW i \in Id, Command(i) PROVE Goal
    <2>1. CASE \E o \in Obj, n \in Nic : DeviceAdd(o, i, n)
      <3>1. PICK o \in Obj : plugged' = plugged \cup {o} /\ deleted' = deleted \ {o}
        BY <2>1 DEF DeviceAdd
      <3> QED BY <1>2, <3>1
    <2>2. CASE BottomHalf(i)
      <3>1. plugged' = plugged \cup {named[i]} /\ deleted' = deleted \ {named[i]}
        BY <2>2 DEF BottomHalf
      <3> QED BY <1>2, <3>1
    <2>3. ~BottomHalfFails(i)
      BY DEF BottomHalfFails
    <2> QED BY <1>4, <1>5, <2>1, <2>2, <2>3
         DEF Command, OsnetCreate, DeviceAddFails, TopHalf, DeviceDel, NicReset, NoDevice
  <1>6. ASSUME NEW o \in Obj, GuestEjects(o) \/ Finalize(o) PROVE Goal
    <2>1. CASE GuestEjects(o)
      BY <1>1, <2>1 DEF GuestEjects
    <2>2. CASE Finalize(o)
      <3>1. plugged' = plugged /\ deleted' = deleted \ {o}
        BY <2>2 DEF Finalize
      <3> QED BY <1>3, <3>1
    <2> QED BY <1>6, <2>1, <2>2
  <1>7. CASE SystemReset \/ EarlyReset
    BY <1>1, <1>4, <1>7 DEF SystemReset, EarlyReset
  <1>8. CASE UNCHANGED vars
    BY <1>4, <1>8 DEF vars
  <1> QED BY <1>5, <1>6, <1>7, <1>8 DEF Next

\* With commands in the order of the agents every removal of a device that the guest had
\* is told with DEVICE_DELETED, which is decided on by what unrealizing left behind.
THEOREM RemovalsAreTold == Spec => DeletionIsTold
  <1>1. Init => (careful => Untold) BY DEF Init, Untold
  <1>2. CarefulInv /\ (careful => Untold) /\ [Next]_vars => (careful => Untold)'
    BY UntoldStep, StaysCareless DEF CarefulInv
  <1>3. CarefulInv /\ (careful => Untold) /\ [Next]_vars
          => [careful' => \A o \in plugged \ plugged' : o \in deleted' \ deleted]_vars
    BY UntoldStep, StaysCareless DEF CarefulInv
  <1> QED BY <1>1, <1>2, <1>3, CarefulInvariant, PTL DEF Spec, DeletionIsTold

=============================================================================
