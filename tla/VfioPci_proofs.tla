----------------------------- MODULE VfioPci_proofs -----------------------------
(***************************************************************************)
(* What holds of vfio-pci around its interrupts on every bus, for every    *)
(* card and whatever the kernel refuses.                                   *)
(*                                                                         *)
(* Resets: each is an operator on the devices; the lemmas say what one     *)
(* leaves alone and what it does.  The reset of a machine needs to know    *)
(* which parts of it are over and who is still marked.                     *)
(*                                                                         *)
(* The life of a device: what it takes it gives back, and its MSI-X table  *)
(* stays trapped.  The first needs for each thing that is taken the steps  *)
(* at which it may be held; the second that the BAR is mapped as a whole   *)
(* until the table is cut out of it, once.                                 *)
(*                                                                         *)
(* The capabilities: how much of a chain is rebuilt at each frame of the   *)
(* recursion on its way up, and at each step over the extended chain.      *)
(***************************************************************************)
EXTENDS VfioPci, WellFoundedInduction, TLAPS

Device == [st : {"absent", "live", "gone"}, irq : {"none", "intx", "msi"},
           act : {"quiet", "busy", "asleep"}, needs : BOOLEAN, dirty : BOOLEAN]
Devices == [Fn -> Device]
History == [hits : Nat, torn : BOOLEAN, refused : BOOLEAN, late : BOOLEAN]

Off(d, f) == d[f].irq = "none" /\ d[f].act = "quiet"

-----------------------------------------------------------------------------
(* The operators *)

LEMMA PreResetOff ==
    ASSUME NEW d \in Devices, NEW S
    PROVE  /\ PreReset(d, S) \in Devices
           /\ \A f \in Fn : /\ PreReset(d, S)[f].st = d[f].st
                            /\ f \in S => Off(PreReset(d, S), f)
                            /\ f \notin S => PreReset(d, S)[f] = d[f]
                            /\ Off(d, f) => Off(PreReset(d, S), f)
  BY DEF PreReset, Devices, Device, Off

LEMMA UnmarkKeeps ==
    ASSUME NEW d \in Devices, NEW S
    PROVE  /\ Unmark(d, S) \in Devices
           /\ \A f \in Fn : /\ Unmark(d, S)[f].st = d[f].st
                            /\ Unmark(d, S)[f].irq = d[f].irq
                            /\ Unmark(d, S)[f].act = d[f].act
  BY DEF Unmark, Devices, Device

LEMMA PostResetKeeps ==
    ASSUME NEW d \in Devices, NEW S
    PROVE  /\ PostReset(d, S) \in Devices
           /\ \A f \in Fn : /\ PostReset(d, S)[f].st = d[f].st
                            /\ f \notin S => PostReset(d, S)[f] = d[f]
  BY DEF PostReset, Devices, Device

LEMMA CleansKeeps ==
    ASSUME NEW d \in Devices, NEW S
    PROVE  /\ Cleans(d, S) \in Devices
           /\ \A f \in Fn : /\ Cleans(d, S)[f].st = d[f].st
                            /\ Cleans(d, S)[f].irq = d[f].irq
  BY DEF Cleans, Devices, Device

LEMMA CountsOn ==
    ASSUME NEW s \in History
    PROVE  LET t == [s EXCEPT !.hits = @ + 1, !.torn = FALSE]
           IN  t \in History /\ ~t.torn /\ t.late = s.late
<1> DEFINE n == s.hits + 1
           t == [s EXCEPT !.hits = n, !.torn = FALSE]
<1>1. n \in Nat
  BY DEF History
<1> HIDE DEF n
<1>2. t \in History
  BY <1>1, Zenon DEF History
<1>3. ~t.torn /\ t.late = s.late
  BY <1>1, Zenon DEF History
<1> QED BY <1>2, <1>3 DEF n

LEMMA ForgetsHits ==
    ASSUME NEW s \in History
    PROVE  LET t == [s EXCEPT !.hits = 0, !.refused = FALSE]
           IN  t \in History /\ t.torn = s.torn /\ t.late = s.late
<1> DEFINE n == 0
           t == [s EXCEPT !.hits = n, !.refused = FALSE]
<1>1. n \in Nat
  OBVIOUS
<1> HIDE DEF n
<1>2. t \in History
  BY <1>1, Zenon DEF History
<1>3. t.torn = s.torn /\ t.late = s.late
  BY <1>1, Zenon DEF History
<1> QED BY <1>2, <1>3 DEF n

\* A bus reset of devices that are all switched off tears none.
LEMMA BusResetKeeps ==
    ASSUME NEW d \in Devices, NEW s \in History, NEW ok \in BOOLEAN, ~s.torn,
           \A f \in Listed(d) : Off(d, f)
    PROVE  LET r == BusReset(d, s, ok)
           IN  /\ r.dev \in Devices /\ r.seen \in History
               /\ ~r.seen.torn /\ r.seen.late = s.late
               /\ \A f \in Fn : r.dev[f].st = d[f].st /\ r.dev[f].irq = d[f].irq
<1> DEFINE bad == \E f \in Listed(d) : d[f].irq # "none" \/ d[f].act # "quiet"
<1>1. ~bad
  BY DEF Off
<1>2. CASE ok
  <2>1. BusReset(d, s, ok) = [dev |-> Cleans(d, Fn),
                              seen |-> [s EXCEPT !.hits = @ + 1, !.torn = @ \/ bad]]
    BY <1>2 DEF BusReset
  <2>2. [s EXCEPT !.hits = @ + 1, !.torn = @ \/ bad]
          = [s EXCEPT !.hits = @ + 1, !.torn = FALSE]
    <3> HIDE DEF bad
    <3> QED BY <1>1 DEF History
  <2>3. [s EXCEPT !.hits = @ + 1, !.torn = FALSE] \in History
    BY CountsOn
  <2>4. /\ ~[s EXCEPT !.hits = @ + 1, !.torn = FALSE].torn
        /\ [s EXCEPT !.hits = @ + 1, !.torn = FALSE].late = s.late
    BY CountsOn
  <2>5. BusReset(d, s, ok).dev = Cleans(d, Fn)
    BY <2>1
  <2>6. BusReset(d, s, ok).seen = [s EXCEPT !.hits = @ + 1, !.torn = FALSE]
    BY <2>1, <2>2
  <2>7. /\ BusReset(d, s, ok).dev \in Devices
        /\ \A f \in Fn : /\ BusReset(d, s, ok).dev[f].st = d[f].st
                         /\ BusReset(d, s, ok).dev[f].irq = d[f].irq
    BY <2>5, CleansKeeps
  <2> QED BY <2>3, <2>4, <2>6, <2>7
<1>3. CASE ~ok
  <2>1. BusReset(d, s, ok) = [dev |-> d, seen |-> [s EXCEPT !.refused = TRUE]]
    BY <1>3 DEF BusReset
  <2>2. /\ [s EXCEPT !.refused = TRUE] \in History /\ ~[s EXCEPT !.refused = TRUE].torn
        /\ [s EXCEPT !.refused = TRUE].late = s.late
    BY DEF History
  <2>3. BusReset(d, s, ok).dev = d
    BY <2>1
  <2>4. BusReset(d, s, ok).seen = [s EXCEPT !.refused = TRUE]
    BY <2>1
  <2> QED BY <2>2, <2>3, <2>4
<1> QED BY <1>2, <1>3

\* What vfio_pci_hot_reset leaves alone; a single device is switched off by its caller.
Kept(d, s, r, f, single) ==
    /\ r.dev \in Devices /\ r.seen \in History
    /\ ~r.seen.torn /\ r.seen.late = s.late
    /\ \A g \in Fn : /\ r.dev[g].st = d[g].st
                     /\ g \notin Listed(d) \cup {f} => r.dev[g].irq = d[g].irq
                     /\ single /\ g # f => r.dev[g].irq = d[g].irq

\* The devices of QEMU are on the bus.
OnBus(d) == Listed(d) \subseteq On

LEMMA StaysListed ==
    ASSUME NEW d, NEW e, \A g \in Fn : e[g].st = d[g].st
    PROVE  Listed(e) = Listed(d)
  BY DEF Listed

LEMMA HotResetKeeps ==
    ASSUME NEW d \in Devices, NEW s \in History, NEW f \in Fn, NEW single \in BOOLEAN,
           NEW ok \in BOOLEAN, ~s.torn, OnBus(d), f \in On,
           single => Off(d, f)
    PROVE  Kept(d, s, HotReset(d, s, f, single, ok), f, single)
<1> DEFINE users   == Checked(d, f) \cap Listed(d)
           foreign == Checked(d, f) # On \ {f}
           self    == IF single THEN {} ELSE {f}
           start   == Unmark(PreReset(d, self), {f})
           ready   == Unmark(PreReset(start, users), users)
           reset   == BusReset(ready, s, ok)
           GivesUp(e, S) == [dev |-> PostReset(e, S), seen |-> s, done |-> FALSE]
           hot     == HotReset(d, s, f, single, ok)
<1>1. users \subseteq Listed(d) /\ self \subseteq {f} /\ (single => self = {})
  OBVIOUS
<1>2. /\ start \in Devices
      /\ \A g \in Fn : /\ start[g].st = d[g].st
                       /\ Off(d, g) \/ g \in self => Off(start, g)
                       /\ g # f => start[g].irq = d[g].irq
  <2>1. PreReset(d, self) \in Devices
    BY PreResetOff
  <2>2. \A g \in Fn : /\ PreReset(d, self)[g].st = d[g].st
                      /\ Off(d, g) \/ g \in self => Off(PreReset(d, self), g)
                      /\ g \notin self => PreReset(d, self)[g].irq = d[g].irq
    BY PreResetOff
  <2> HIDE DEF self
  <2>3. \A g \in Fn : /\ start[g].st = PreReset(d, self)[g].st
                      /\ start[g].irq = PreReset(d, self)[g].irq
                      /\ start[g].act = PreReset(d, self)[g].act
    BY <2>1, UnmarkKeeps
  <2>4. start \in Devices
    BY <2>1, UnmarkKeeps
  <2> QED BY <1>1, <2>2, <2>3, <2>4 DEF Off
<1>3. /\ ready \in Devices
      /\ \A g \in Fn : /\ ready[g].st = d[g].st
                       /\ Off(d, g) \/ g \in self \/ g \in users => Off(ready, g)
                       /\ g # f /\ g \notin users => ready[g].irq = d[g].irq
  <2> HIDE DEF start, users, self
  <2>1. PreReset(start, users) \in Devices
    BY <1>2, PreResetOff
  <2>2. \A g \in Fn : /\ PreReset(start, users)[g].st = start[g].st
                      /\ Off(start, g) \/ g \in users => Off(PreReset(start, users), g)
                      /\ g \notin users => PreReset(start, users)[g].irq = start[g].irq
    BY <1>2, PreResetOff
  <2>3. \A g \in Fn : /\ ready[g].st = PreReset(start, users)[g].st
                      /\ ready[g].irq = PreReset(start, users)[g].irq
                      /\ ready[g].act = PreReset(start, users)[g].act
    BY <2>1, UnmarkKeeps
  <2>4. ready \in Devices
    BY <2>1, UnmarkKeeps
  <2> QED BY <1>2, <2>2, <2>3, <2>4 DEF Off
<1>4. CASE hot = GivesUp(start, self)
  <2> HIDE DEF start, self
  <2>1. hot.dev = PostReset(start, self) /\ hot.seen = s
    BY <1>4
  <2> HIDE DEF hot
  <2> QED BY <1>1, <1>2, <2>1, PostResetKeeps DEF Kept, hot
<1>5. CASE hot = GivesUp(start, {})
  <2> HIDE DEF start, self
  <2>1. hot.dev = PostReset(start, {}) /\ hot.seen = s
    BY <1>5
  <2> HIDE DEF hot
  <2> QED BY <1>1, <1>2, <2>1, PostResetKeeps DEF Kept, hot
<1>6. CASE hot = GivesUp(ready, users \cup self) /\ (single => users = {})
  <2> HIDE DEF start, ready, self, users
  <2>1. hot.dev = PostReset(ready, users \cup self) /\ hot.seen = s
    BY <1>6
  <2> HIDE DEF hot
  <2> QED BY <1>1, <1>3, <1>6, <2>1, PostResetKeeps DEF Kept, hot
<1>7. CASE /\ hot = [dev |-> PostReset(reset.dev, users \cup self),
                     seen |-> reset.seen, done |-> ok]
           /\ ~foreign /\ (single => users = {})
  <2>1. \A g \in Listed(ready) : Off(ready, g)
    <3>1. Listed(ready) = Listed(d)
      BY <1>3, StaysListed
    <3>2. \A g \in Listed(d) : g = f \/ g \in users
      BY <1>7 DEF OnBus
    <3>3. Off(d, f) \/ f \in self
      OBVIOUS
    <3>4. Listed(d) \subseteq Fn
      BY DEF Listed
    <3> QED BY <1>3, <3>1, <3>2, <3>3, <3>4
  <2> HIDE DEF start, ready, self, users
  <2>2. /\ reset.dev \in Devices /\ reset.seen \in History
        /\ ~reset.seen.torn /\ reset.seen.late = s.late
        /\ \A g \in Fn : reset.dev[g].st = ready[g].st /\ reset.dev[g].irq = ready[g].irq
    BY <1>3, <2>1, BusResetKeeps
  <2> HIDE DEF reset
  <2>3. hot.dev = PostReset(reset.dev, users \cup self) /\ hot.seen = reset.seen
    BY <1>7
  <2> HIDE DEF hot
  <2>4. /\ hot.dev \in Devices
        /\ \A g \in Fn : /\ hot.dev[g].st = reset.dev[g].st
                         /\ g \notin users \cup self => hot.dev[g].irq = reset.dev[g].irq
    BY <2>2, <2>3, PostResetKeeps
  <2>5. \A g \in Fn : /\ hot.dev[g].st = d[g].st
                      /\ g \notin Listed(d) \cup {f} => hot.dev[g].irq = d[g].irq
                      /\ single /\ g # f => hot.dev[g].irq = d[g].irq
    BY <1>1, <1>3, <1>7, <2>2, <2>4
  <2> QED BY <2>2, <2>3, <2>4, <2>5 DEF Kept, hot
<1>8. \/ hot = GivesUp(start, self) \/ hot = GivesUp(start, {})
      \/ hot = GivesUp(ready, users \cup self) /\ (single => users = {})
      \/ /\ hot = [dev |-> PostReset(reset.dev, users \cup self),
                   seen |-> reset.seen, done |-> ok]
         /\ ~foreign /\ (single => users = {})
  BY DEF HotReset
<1> QED BY <1>4, <1>5, <1>6, <1>7, <1>8


\* What vfio_pci_reset leaves alone.
LEMMA PciResetKeeps ==
    ASSUME NEW d \in Devices, NEW s \in History, NEW f \in Fn, NEW fn \in BOOLEAN,
           NEW bus \in BOOLEAN, ~s.torn, OnBus(d), f \in On
    PROVE  Kept(d, s, PciReset(d, s, f, fn, bus), f, TRUE)
<1> DEFINE k     == hw.kind[f]
           pre   == PreReset(d, {f})
           tries == k.own \/ (k.works /\ (k.flr \/ ~k.pm))
           s1    == IF tries /\ ~fn THEN [s EXCEPT !.refused = TRUE] ELSE s
           hot   == HotReset(pre, s1, f, TRUE, bus)
           Ends(e, t) == [dev |-> PostReset(e, {f}), seen |-> t]
           r     == PciReset(d, s, f, fn, bus)
<1>1. /\ pre \in Devices /\ Off(pre, f)
      /\ \A g \in Fn : pre[g].st = d[g].st /\ (g # f => pre[g] = d[g])
  BY PreResetOff
<1>2. s1 \in History /\ ~s1.torn /\ s1.late = s.late
  <2>1. /\ [s EXCEPT !.refused = TRUE] \in History /\ ~[s EXCEPT !.refused = TRUE].torn
        /\ [s EXCEPT !.refused = TRUE].late = s.late
    BY DEF History
  <2> HIDE DEF tries
  <2> QED BY <2>1
<1>3. Listed(pre) = Listed(d)
  BY <1>1, StaysListed
<1>4. Kept(pre, s1, hot, f, TRUE)
  <2> HIDE DEF pre, s1
  <2> QED BY <1>1, <1>2, <1>3, HotResetKeeps DEF OnBus
<1> HIDE DEF k, tries, s1
<1>5. /\ hot.dev \in Devices /\ hot.seen \in History /\ ~hot.seen.torn
      /\ hot.seen.late = s.late
      /\ \A g \in Fn : hot.dev[g].st = d[g].st /\ (g # f => hot.dev[g].irq = d[g].irq)
  <2> HIDE DEF pre, hot
  <2> QED BY <1>1, <1>2, <1>4 DEF Kept
<1> HIDE DEF pre, hot
\* A reset ends with some devices e of the right kind, and some history t.
<1>6. ASSUME NEW e \in Devices, NEW t \in History, ~t.torn, t.late = s.late,
             \A g \in Fn : e[g].st = d[g].st /\ (g # f => e[g].irq = d[g].irq),
             r = Ends(e, t)
      PROVE  Kept(d, s, r, f, TRUE)
  <2>1. r.dev = PostReset(e, {f}) /\ r.seen = t
    BY <1>6
  <2> HIDE DEF r
  <2> QED BY <1>6, <2>1, PostResetKeeps DEF Kept
<1>7. CASE r = Ends(Cleans(pre, {f}), s)
  <2>1. /\ Cleans(pre, {f}) \in Devices
        /\ \A g \in Fn : /\ Cleans(pre, {f})[g].st = d[g].st
                         /\ g # f => Cleans(pre, {f})[g].irq = d[g].irq
    BY <1>1, CleansKeeps
  <2> QED BY <1>6, <1>7, <2>1 DEF r
<1>8. CASE r = Ends(hot.dev, hot.seen)
  BY <1>5, <1>6, <1>8
<1>9. CASE r = Ends(Cleans(hot.dev, {f}), hot.seen)
  <2>1. /\ Cleans(hot.dev, {f}) \in Devices
        /\ \A g \in Fn : /\ Cleans(hot.dev, {f})[g].st = d[g].st
                         /\ g # f => Cleans(hot.dev, {f})[g].irq = d[g].irq
    BY <1>5, CleansKeeps
  <2> QED BY <1>5, <1>6, <1>9, <2>1 DEF r
<1>10. CASE r = Ends(hot.dev, [hot.seen EXCEPT !.refused = TRUE])
  <2>1. /\ [hot.seen EXCEPT !.refused = TRUE] \in History
        /\ ~[hot.seen EXCEPT !.refused = TRUE].torn
        /\ [hot.seen EXCEPT !.refused = TRUE].late = s.late
    BY <1>5 DEF History
  <2> QED BY <1>5, <1>6, <1>10, <2>1 DEF r
<1>11. \/ r = Ends(Cleans(pre, {f}), s) \/ r = Ends(hot.dev, hot.seen)
       \/ r = Ends(Cleans(hot.dev, {f}), hot.seen)
       \/ r = Ends(hot.dev, [hot.seen EXCEPT !.refused = TRUE])
  BY DEF PciReset, k, tries, pre, s1, hot
<1> QED BY <1>7, <1>8, <1>9, <1>10, <1>11


-----------------------------------------------------------------------------
(* The devices *)

Typed == hw \in Machines /\ dev \in Devices /\ seen \in History

\* What a part of the machine's reset has yet to do is there.
Work ==
    /\ OnBus(dev)
    /\ todo \subseteq Listed(dev)
    /\ Idle => todo = {}
    /\ ~Idle /\ Head(parts) = "devices" => todo \subseteq Live(dev)

\* A reset that has met no removed device meets none.
Quiet ==
    /\ \A f \in Fn : dev[f].st = "absent" => dev[f].irq = "none"
    /\ GoneIsQuiet
    /\ ~Idle /\ ~seen.late => Listed(dev) = Live(dev)

ResetInv == Typed /\ Work /\ BusResetIsPrepared /\ Quiet

LEMMA ResetInvInit == Init => ResetInv
<1> SUFFICES ASSUME Init PROVE ResetInv
  OBVIOUS
<1>1. Typed /\ BusResetIsPrepared
  BY DEF Init, Typed, Devices, Device, History, Absent, Nothing, BusResetIsPrepared
<1>2. \A f \in Fn : dev[f].st = "absent" /\ dev[f].irq = "none"
  BY DEF Init, Absent
<1>3. Listed(dev) = {} /\ Live(dev) = {}
  BY <1>2 DEF Listed, Live
<1>4. Work /\ Quiet
  BY <1>2, <1>3 DEF Init, Work, Quiet, OnBus, Idle, GoneIsQuiet
<1> QED BY <1>1, <1>4 DEF ResetInv

LEMMA BusIsKnown == ASSUME hw \in Machines PROVE On \subseteq Fn
  BY MachinesAssumption DEF On, ToSet

\* A reset of one device leaves the others' interrupts and what is there.
LEMMA ResetsOneKeeps ==
    ASSUME NEW d \in Devices, NEW f \in On, hw \in Machines, seen \in History, ~seen.torn,
           OnBus(d), ResetsOne(d, f)
    PROVE  /\ dev' \in Devices /\ seen' \in History /\ ~seen'.torn /\ seen'.late = seen.late
           /\ \A g \in Fn : dev'[g].st = d[g].st /\ (g # f => dev'[g].irq = d[g].irq)
<1>1. PICK fn \in Answers("function"), bus \in Answers("bus") :
         /\ dev' = PciReset(d, seen, f, fn, bus).dev
         /\ seen' = IF Idle THEN [seen EXCEPT !.torn = PciReset(d, seen, f, fn, bus).seen.torn]
                    ELSE PciReset(d, seen, f, fn, bus).seen
  BY DEF ResetsOne
<1> DEFINE r == PciReset(d, seen, f, fn, bus)
<1>2. fn \in BOOLEAN /\ bus \in BOOLEAN
  BY DEF Answers
<1>3. f \in Fn
  BY BusIsKnown
<1>4. Kept(d, seen, r, f, TRUE)
  BY <1>2, <1>3, PciResetKeeps
<1> HIDE DEF r
<1>5. dev' = r.dev /\ seen' = IF Idle THEN [seen EXCEPT !.torn = r.seen.torn] ELSE r.seen
  BY <1>1 DEF r
<1>6. /\ dev' \in Devices
      /\ \A g \in Fn : dev'[g].st = d[g].st /\ (g # f => dev'[g].irq = d[g].irq)
  BY <1>4, <1>5 DEF Kept
<1>7. r.seen \in History /\ ~r.seen.torn /\ r.seen.late = seen.late
  BY <1>4 DEF Kept
<1>8. CASE ~Idle
  BY <1>5, <1>6, <1>7, <1>8
<1>9. CASE Idle
  <2>1. seen' = [seen EXCEPT !.torn = r.seen.torn]
    BY <1>5, <1>9
  <2>2. seen' \in History /\ ~seen'.torn /\ seen'.late = seen.late
    BY <1>7, <2>1 DEF History
  <2> QED BY <1>6, <2>2
<1> QED BY <1>8, <1>9

\* Steps that move no device: those of resets.
LEMMA StaysInPlace ==
    ASSUME ResetInv, hw' = hw, parts' = parts, todo' \subseteq todo,
           dev' \in Devices, seen' \in History, ~seen'.torn, seen'.late = seen.late,
           \A g \in Fn : dev'[g].st = dev[g].st,
           \A g \in Fn : dev[g].st = "absent" => dev'[g].irq = dev[g].irq,
           seen.late \/ \A g \in Fn : dev[g].st = "gone" => dev'[g].irq = dev[g].irq
    PROVE  ResetInv'
<1>1. Listed(dev') = Listed(dev) /\ Live(dev') = Live(dev)
  BY DEF Listed, Live
<1>2. On' = On /\ Idle' = Idle
  BY DEF On, Idle
<1>3. Work'
  BY <1>1, <1>2 DEF ResetInv, Work, OnBus
<1>4. Typed' /\ BusResetIsPrepared'
  BY DEF ResetInv, Typed, BusResetIsPrepared
<1>5. \A f \in Fn : dev'[f].st = "absent" => dev'[f].irq = "none"
  BY DEF ResetInv, Quiet
<1>6. GoneIsQuiet'
  <2> SUFFICES ASSUME ~seen.late, NEW f \in Fn, dev[f].st # "live" PROVE dev'[f].irq = "none"
    BY DEF GoneIsQuiet
  <2>1. dev[f].irq = "none"
    BY DEF ResetInv, Quiet, GoneIsQuiet
  <2>2. dev[f].st \in {"absent", "gone"}
    BY DEF ResetInv, Typed, Devices, Device
  <2> QED BY <2>1, <2>2
<1>7. (~Idle /\ ~seen.late => Listed(dev) = Live(dev))'
  BY <1>1, <1>2 DEF ResetInv, Quiet
<1> QED BY <1>3, <1>4, <1>5, <1>6, <1>7 DEF ResetInv, Quiet


LEMMA ComputeKeeps ==
    ASSUME NEW d \in Devices
    PROVE  /\ ComputeNeedsReset(d) \in Devices
           /\ \A f \in Fn : /\ ComputeNeedsReset(d)[f].st = d[f].st
                            /\ ComputeNeedsReset(d)[f].irq = d[f].irq
  BY DEF ComputeNeedsReset, Devices, Device

LEMMA EntersKeeps ==
    ASSUME ResetInv, hw' = hw, NEW rest, Enters(dev, rest)
    PROVE  /\ dev' \in Devices
           /\ \A f \in Fn : dev'[f].st = dev[f].st /\ dev'[f].irq = dev[f].irq
           /\ Work'
<1>1. dev \in Devices
  BY DEF ResetInv, Typed
<1>2. /\ dev' \in Devices
      /\ \A f \in Fn : dev'[f].st = dev[f].st /\ dev'[f].irq = dev[f].irq
  BY <1>1, ComputeKeeps DEF Enters
<1>3. Listed(dev') = Listed(dev) /\ Live(dev') = Live(dev) /\ Live(dev) \subseteq Listed(dev)
  BY <1>2 DEF Listed, Live
<1>4. Listed(dev') \subseteq On /\ On' = On
  BY <1>3 DEF ResetInv, Work, OnBus, On
<1>5. todo' \subseteq Listed(dev) /\ (rest = <<>> => todo' = {})
      /\ (rest # <<>> /\ Head(rest) = "devices" => todo' = Live(dev)) /\ parts' = rest
  BY <1>3 DEF Enters
<1> QED BY <1>2, <1>3, <1>4, <1>5 DEF Work, Idle, OnBus

LEMMA GuestUsesKeeps == ASSUME ResetInv, NEW f \in Fn, GuestUses(f) PROVE ResetInv'
<1>1. dev \in Devices /\ seen \in History /\ ~seen.torn
  BY DEF ResetInv, Typed, BusResetIsPrepared
<1>2. /\ dev' \in Devices
      /\ \A g \in Fn : dev'[g].st = dev[g].st /\ (g # f => dev'[g] = dev[g])
  <2>1. PICK act \in {"busy", "asleep"} :
          dev' = [dev EXCEPT ![f] = [dev[f] EXCEPT !.irq = "msi", !.act = act, !.dirty = TRUE]]
    BY <1>1 DEF GuestUses, Devices, Device
  <2> DEFINE e == [dev[f] EXCEPT !.irq = "msi", !.act = act, !.dirty = TRUE]
  <2>2. e \in Device /\ e.st = dev[f].st
    BY <1>1 DEF Devices, Device
  <2> HIDE DEF e
  <2>3. dev' = [dev EXCEPT ![f] = e]
    BY <2>1 DEF e
  <2> QED BY <1>1, <2>2, <2>3 DEF Devices
<1> QED BY <1>1, <1>2, StaysInPlace DEF GuestUses

LEMMA OneResetKeeps ==
    ASSUME ResetInv, NEW f \in Fn, NicReset(f) \/ DeviceResets(f) PROVE ResetInv'
<1>1. dev \in Devices /\ seen \in History /\ ~seen.torn /\ hw \in Machines /\ OnBus(dev)
  BY DEF ResetInv, Typed, BusResetIsPrepared, Work
<1>2. dev[f].st = "live"
  BY DEF NicReset, DeviceResets, ResetInv, Work, Idle, Live
<1>3. f \in On
  BY <1>1, <1>2 DEF OnBus, Listed
<1>4. ResetsOne(dev, f)
  BY DEF NicReset, DeviceResets
<1>5. /\ dev' \in Devices /\ seen' \in History /\ ~seen'.torn /\ seen'.late = seen.late
      /\ \A g \in Fn : dev'[g].st = dev[g].st /\ (g # f => dev'[g].irq = dev[g].irq)
  BY <1>1, <1>3, <1>4, ResetsOneKeeps
<1>6. hw' = hw /\ parts' = parts /\ todo' \subseteq todo
  BY DEF NicReset, DeviceResets
<1> QED BY <1>2, <1>5, <1>6, StaysInPlace

LEMMA HandlerResetsKeeps == ASSUME ResetInv, NEW f \in Fn, HandlerResets(f) PROVE ResetInv'
<1>1. dev \in Devices /\ seen \in History /\ ~seen.torn /\ hw \in Machines /\ OnBus(dev)
  BY DEF ResetInv, Typed, BusResetIsPrepared, Work
<1>2. f \in Listed(dev) /\ f \in On /\ ~Idle
  BY DEF HandlerResets, ResetInv, Work, OnBus, Idle
<1>3. hw' = hw /\ parts' = parts /\ todo' \subseteq todo
  BY DEF HandlerResets
<1>4. CASE UNCHANGED <<dev, seen>>
  BY <1>1, <1>3, <1>4, StaysInPlace
<1>5. ASSUME NEW ok \in Answers("bus"), dev' = HotReset(dev, seen, f, FALSE, ok).dev,
             seen' = HotReset(dev, seen, f, FALSE, ok).seen
      PROVE  ResetInv'
  <2> DEFINE r == HotReset(dev, seen, f, FALSE, ok)
  <2>1. ok \in BOOLEAN
    BY DEF Answers
  <2>2. Kept(dev, seen, r, f, FALSE)
    BY <1>1, <1>2, <2>1, HotResetKeeps
  <2> HIDE DEF r
  <2>3. /\ dev' \in Devices /\ seen' \in History /\ ~seen'.torn /\ seen'.late = seen.late
        /\ \A g \in Fn : /\ dev'[g].st = dev[g].st
                         /\ g \notin Listed(dev) => dev'[g].irq = dev[g].irq
    BY <1>2, <1>5, <2>2 DEF Kept, r
  <2>4. \A g \in Fn : dev[g].st = "absent" => dev'[g].irq = dev[g].irq
    BY <2>3 DEF Listed
  <2>5. seen.late \/ \A g \in Fn : dev[g].st = "gone" => dev'[g].irq = dev[g].irq
    BY <1>2 DEF ResetInv, Quiet, Listed, Live
  <2> QED BY <1>3, <2>3, <2>4, <2>5, StaysInPlace
<1> QED BY <1>4, <1>5 DEF HandlerResets

LEMMA PartsKeep == ASSUME ResetInv, StartReset \/ PartEnds PROVE ResetInv'
<1>1. dev \in Devices /\ seen \in History /\ ~seen.torn /\ hw \in Machines
  BY DEF ResetInv, Typed, BusResetIsPrepared
<1>2. hw' = hw /\ \E rest : Enters(dev, rest)
  BY DEF StartReset, PartEnds
<1>3. /\ dev' \in Devices
      /\ \A f \in Fn : dev'[f].st = dev[f].st /\ dev'[f].irq = dev[f].irq
      /\ Work'
  BY <1>2, EntersKeeps
<1>4. seen' \in History /\ ~seen'.torn
  <2>1. CASE StartReset
    <3> DEFINE late == Listed(dev) # Live(dev)
    <3>1. seen' = [seen EXCEPT !.late = late] /\ late \in BOOLEAN
      BY <2>1 DEF StartReset
    <3> HIDE DEF late
    <3> QED BY <1>1, <3>1 DEF History
  <2>2. CASE PartEnds
    <3>1. \/ seen' = [seen EXCEPT !.hits = 0, !.refused = FALSE]
          \/ seen' = seen
      BY <2>2 DEF PartEnds
    <3> QED BY <1>1, <3>1, ForgetsHits
  <2> QED BY <2>1, <2>2
<1>5. Listed(dev') = Listed(dev) /\ Live(dev') = Live(dev)
  BY <1>3 DEF Listed, Live
<1>6. /\ ~seen'.late => ~seen.late \/ Listed(dev) = Live(dev)
      /\ ~Idle' /\ ~seen'.late => Listed(dev) = Live(dev)
  <2>1. CASE StartReset
    <3>1. seen'.late = (Listed(dev) # Live(dev))
      BY <1>1, <2>1 DEF StartReset, History
    <3> QED BY <3>1
  <2>2. CASE PartEnds
    <3>1. seen'.late = seen.late /\ ~Idle
      BY <1>1, <2>2 DEF PartEnds, History, Idle
    <3> QED BY <3>1 DEF ResetInv, Quiet
  <2> QED BY <2>1, <2>2
<1>7. \A f \in Fn : dev'[f].st = "absent" => dev'[f].irq = "none"
  BY <1>3 DEF ResetInv, Quiet
<1>8. GoneIsQuiet'
  <2> SUFFICES ASSUME ~seen'.late, NEW f \in Fn, dev[f].st # "live" PROVE dev[f].irq = "none"
    BY <1>3 DEF GoneIsQuiet
  <2>1. CASE ~seen.late
    BY <2>1 DEF ResetInv, Quiet, GoneIsQuiet
  <2>2. CASE Listed(dev) = Live(dev)
    BY <2>2 DEF Listed, Live, ResetInv, Quiet
  <2> QED BY <1>6, <2>1, <2>2
<1> QED BY <1>1, <1>2, <1>3, <1>4, <1>5, <1>6, <1>7, <1>8
     DEF ResetInv, Typed, Quiet, BusResetIsPrepared


LEMMA RealizeKeeps == ASSUME ResetInv, NEW f \in Fn, Realize(f) PROVE ResetInv'
<1>1. dev \in Devices /\ seen \in History /\ ~seen.torn /\ hw \in Machines /\ OnBus(dev)
  BY DEF ResetInv, Typed, BusResetIsPrepared, Work
<1>2. Idle /\ f \in On /\ dev[f].st = "absent" /\ UNCHANGED <<hw, parts, todo, first>>
  BY DEF Realize
<1>3. PICK dirty \in BOOLEAN :
        LET d == [dev EXCEPT ![f] = [Absent EXCEPT !.st = "live", !.irq = "intx",
                                                   !.dirty = dirty]]
        IN  (dev' = d /\ UNCHANGED seen) \/ ResetsOne(d, f)
  BY DEF Realize
<1> DEFINE e == [Absent EXCEPT !.st = "live", !.irq = "intx", !.dirty = dirty]
           d == [dev EXCEPT ![f] = e]
<1>4. e \in Device /\ e.st = "live"
  BY DEF Absent, Device
<1>5. (dev' = d /\ UNCHANGED seen) \/ ResetsOne(d, f)
  BY <1>3
<1> HIDE DEF e
<1>6. d \in Devices /\ d[f].st = "live" /\ \A g \in Fn : g # f => d[g] = dev[g]
  BY <1>1, <1>4 DEF Devices
<1> HIDE DEF d
<1>7. OnBus(d)
  BY <1>1, <1>2, <1>6 DEF OnBus, Listed
<1>8. /\ dev' \in Devices /\ seen' \in History /\ ~seen'.torn /\ seen'.late = seen.late
      /\ dev'[f].st = "live"
      /\ \A g \in Fn : g # f => dev'[g].st = dev[g].st /\ dev'[g].irq = dev[g].irq
  <2>1. CASE dev' = d /\ UNCHANGED seen
    BY <1>1, <1>6, <2>1
  <2>2. CASE ResetsOne(d, f)
    <3>1. /\ dev' \in Devices /\ seen' \in History /\ ~seen'.torn /\ seen'.late = seen.late
          /\ \A g \in Fn : dev'[g].st = d[g].st /\ (g # f => dev'[g].irq = d[g].irq)
      BY <1>1, <1>2, <1>6, <1>7, <2>2, ResetsOneKeeps
    <3> QED BY <1>6, <3>1
  <2> QED BY <1>5, <2>1, <2>2
<1>9. Work'
  BY <1>1, <1>2, <1>8 DEF ResetInv, Work, OnBus, Listed, On, Idle
<1>10. Quiet'
  BY <1>2, <1>8 DEF ResetInv, Quiet, GoneIsQuiet, Idle
<1> QED BY <1>1, <1>2, <1>8, <1>9, <1>10 DEF ResetInv, Typed, BusResetIsPrepared

LEMMA RealizeFailsKeeps == ASSUME ResetInv, NEW f \in Fn, RealizeFails(f) PROVE ResetInv'
<1>1. dev \in Devices
  BY DEF ResetInv, Typed
<1>2. Idle /\ f \in On /\ dev[f].st = "absent" /\ UNCHANGED <<hw, parts, todo, first, seen>>
  BY DEF RealizeFails
<1>3. /\ dev' \in Devices /\ dev'[f].st = "gone" /\ dev'[f].irq = dev[f].irq
      /\ \A g \in Fn : g # f => dev'[g] = dev[g]
  BY <1>1 DEF RealizeFails, Devices, Device
<1>4. Work'
  BY <1>2, <1>3 DEF ResetInv, Work, OnBus, Listed, On, Idle
<1>5. dev[f].irq = "none"
  BY <1>2 DEF ResetInv, Quiet
<1>6. Quiet'
  BY <1>2, <1>3, <1>5 DEF ResetInv, Quiet, GoneIsQuiet, Idle
<1> QED BY <1>2, <1>3, <1>4, <1>6 DEF ResetInv, Typed, BusResetIsPrepared

LEMMA FinalizeKeeps == ASSUME ResetInv, NEW f \in Fn, Finalize(f) PROVE ResetInv'
<1>1. dev \in Devices
  BY DEF ResetInv, Typed
<1>2. Idle /\ UNCHANGED <<hw, parts, todo, first, seen>>
  BY DEF Finalize
<1>3. /\ dev' \in Devices /\ dev'[f].st = "absent" /\ dev'[f].irq = "none"
      /\ \A g \in Fn : g # f => dev'[g] = dev[g]
  BY <1>1 DEF Finalize, Absent, Devices, Device
<1>4. Work'
  BY <1>2, <1>3 DEF ResetInv, Work, OnBus, Listed, On, Idle
<1>5. Quiet'
  BY <1>2, <1>3 DEF ResetInv, Quiet, GoneIsQuiet, Idle
<1> QED BY <1>2, <1>3, <1>4, <1>5 DEF ResetInv, Typed, BusResetIsPrepared

LEMMA ExitKeeps == ASSUME ResetInv, NEW f \in Fn, Exit(f) PROVE ResetInv'
<1>1. dev \in Devices /\ seen \in History /\ ~seen.torn
  BY DEF ResetInv, Typed, BusResetIsPrepared
<1>2. dev[f].st = "live" /\ UNCHANGED <<hw, parts, first>>
  BY DEF Exit
<1>3. /\ dev' \in Devices /\ dev'[f].st = "gone" /\ dev'[f].irq = "none"
      /\ \A g \in Fn : g # f => dev'[g] = dev[g]
  BY <1>1 DEF Exit, Devices, Device
<1>4. /\ seen' \in History /\ ~seen'.torn
      /\ ~seen'.late => ~seen.late /\ Idle
  <2> DEFINE late == seen.late \/ ~Idle
  <2>1. seen' = [seen EXCEPT !.late = late] /\ late \in BOOLEAN
    BY DEF Exit
  <2>2. late = FALSE => ~seen.late /\ Idle
    OBVIOUS
  <2> HIDE DEF late
  <2> QED BY <1>1, <2>1, <2>2 DEF History
<1>5. /\ todo' \subseteq todo
      /\ ~Idle /\ Head(parts) = "devices" => todo' \subseteq todo \ {f}
  BY DEF Exit, Idle
<1>6. Listed(dev') = Listed(dev) /\ Live(dev') = Live(dev) \ {f}
  BY <1>2, <1>3 DEF Listed, Live
<1>7. Work'
  BY <1>2, <1>5, <1>6 DEF ResetInv, Work, OnBus, On, Idle
<1>8. Quiet'
  BY <1>2, <1>3, <1>4 DEF ResetInv, Quiet, GoneIsQuiet, Idle
<1> QED BY <1>2, <1>3, <1>4, <1>7, <1>8 DEF ResetInv, Typed, BusResetIsPrepared

LEMMA ResetInvNext == ResetInv /\ [Next]_vars => ResetInv'
<1> SUFFICES ASSUME ResetInv, [Next]_vars PROVE ResetInv'
  OBVIOUS
<1>1. CASE UNCHANGED vars
  BY <1>1 DEF vars, ResetInv, Typed, Work, Quiet, BusResetIsPrepared, GoneIsQuiet, OnBus,
              Listed, Live, On, Idle
<1>2. ASSUME NEW f \in Fn, \/ Realize(f) \/ RealizeFails(f) \/ Exit(f) \/ Finalize(f)
                           \/ GuestUses(f) \/ NicReset(f)
                           \/ HandlerResets(f) \/ DeviceResets(f)
      PROVE  ResetInv'
  BY <1>2, RealizeKeeps, RealizeFailsKeeps, ExitKeeps, FinalizeKeeps, GuestUsesKeeps,
     OneResetKeeps, HandlerResetsKeeps
<1>3. CASE StartReset \/ PartEnds
  BY <1>3, PartsKeep
<1> QED BY <1>1, <1>2, <1>3 DEF Next

\* A bus reset never meets a device of QEMU that may still do DMA or raise an interrupt:
\* vfio_pci_hot_reset prepares every affected device first, and gives up where one is not
\* QEMU's.
THEOREM BusResetsArePrepared == Spec => []BusResetIsPrepared
<1>1. ResetInv => BusResetIsPrepared
  BY DEF ResetInv
<1> QED BY <1>1, ResetInvInit, ResetInvNext, PTL DEF Spec

\* A device that vfio_exitfn has left has no interrupts, unless a reset of the machine
\* found it in its group before it was finalized.
THEOREM GoneStaysQuiet == Spec => []GoneIsQuiet
<1>1. ResetInv => GoneIsQuiet
  BY DEF ResetInv, Quiet
<1> QED BY <1>1, ResetInvInit, ResetInvNext, PTL DEF Spec

\* Somebody else of QEMU is on the bus.
Others(d, f) == \E g \in Listed(d) : g # f

\* A reset can be done: by the device alone, or of a bus that is QEMU's.
BusIsOurs(d) == hw.info /\ \A g \in On : Owned(d, g)
Resettable(d, f) == hw.kind[f].own \/ hw.kind[f].works \/ BusIsOurs(d)

\* What may have become of one function: its state is never made dirty, and it is
\* never marked.
Tamer(a, b) ==
    /\ b.st = a.st
    /\ b.needs => a.needs
    /\ b.dirty => a.dirty

Up(b) == b.irq = "intx" /\ b.act = "quiet"

Cleaned(a) == [a EXCEPT !.act = "quiet", !.dirty = FALSE]

\* The check of the groups stops only in front of a group that is not QEMU's.
LEMMA ForeignIsUnowned ==
    ASSUME hw \in Machines, NEW d, NEW f \in Fn, Checked(d, f) # On \ {f}
    PROVE  \E g \in On : ~Owned(d, g)
<1> SUFFICES ASSUME \A g \in On : Owned(d, g) PROVE Checked(d, f) = On \ {f}
  OBVIOUS
<1>1. hw.bus \in Seq(Fn)
  BY MachinesAssumption
<1>2. \A i \in 1 .. Len(hw.bus) : hw.bus[i] \in On
  BY <1>1 DEF On, ToSet
<1>3. {i \in 1 .. Len(hw.bus) : hw.bus[i] # f /\ ~Owned(d, hw.bus[i])} = {}
  BY <1>2
<1>4. SelectInSeq(hw.bus, LAMBDA g : g # f /\ ~Owned(d, g)) = 0
  BY <1>3 DEF SelectInSeq
<1> QED BY <1>4 DEF Checked, On

LEMMA OwnedStays ==
    ASSUME NEW d, NEW e, Listed(e) = Listed(d)
    PROVE  \A g : Owned(e, g) <=> Owned(d, g)
  BY DEF Owned

LEMMA PreResetDoes ==
    ASSUME NEW d \in Devices, NEW S, NEW g \in Fn
    PROVE  /\ g \notin S => PreReset(d, S)[g] = d[g]
           /\ g \in S => PreReset(d, S)[g].act = "quiet"
           /\ PreReset(d, S)[g].needs = d[g].needs /\ PreReset(d, S)[g].dirty = d[g].dirty
  BY DEF PreReset, Devices, Device

LEMMA PostResetDoes ==
    ASSUME NEW d \in Devices, NEW S, NEW g \in Fn
    PROVE  /\ g \notin S => PostReset(d, S)[g] = d[g]
           /\ g \in S => PostReset(d, S)[g].irq = "intx"
           /\ PostReset(d, S)[g].act = d[g].act
           /\ PostReset(d, S)[g].needs = d[g].needs /\ PostReset(d, S)[g].dirty = d[g].dirty
  BY DEF PostReset, Devices, Device

LEMMA UnmarkDoes ==
    ASSUME NEW d \in Devices, NEW S, NEW g \in Fn
    PROVE  /\ g \notin S => Unmark(d, S)[g] = d[g]
           /\ g \in S => ~Unmark(d, S)[g].needs
           /\ Unmark(d, S)[g].dirty = d[g].dirty
  BY DEF Unmark, Devices, Device

LEMMA CleansDoes ==
    ASSUME NEW d \in Devices, NEW S, NEW g \in Fn
    PROVE  /\ g \notin S => Cleans(d, S)[g] = d[g]
           /\ g \in S => /\ ~Cleans(d, S)[g].dirty /\ Cleans(d, S)[g].act = "quiet"
                         /\ Cleans(d, S)[g] = Cleaned(d[g])
           /\ Cleans(d, S)[g].needs = d[g].needs
  BY DEF Cleans, Cleaned, Devices, Device

LEMMA BusResetDoes ==
    ASSUME NEW d \in Devices, NEW s \in History, NEW ok \in BOOLEAN
    PROVE  LET r == BusReset(d, s, ok)
           IN  /\ ok => /\ r.dev = Cleans(d, Fn)
                        /\ r.seen.hits = s.hits + 1 /\ r.seen.refused = s.refused
               /\ ~ok => r.dev = d /\ r.seen.hits = s.hits /\ r.seen.refused
<1> DEFINE torn == s.torn \/ \E f \in Listed(d) : d[f].irq # "none" \/ d[f].act # "quiet"
           n == s.hits + 1
<1>1. CASE ok
  <2>1. BusReset(d, s, ok) = [dev |-> Cleans(d, Fn),
                              seen |-> [s EXCEPT !.hits = n, !.torn = torn]]
    BY <1>1 DEF BusReset
  <2> HIDE DEF torn, n
  <2>2. /\ [s EXCEPT !.hits = n, !.torn = torn].hits = n
        /\ [s EXCEPT !.hits = n, !.torn = torn].refused = s.refused
    BY Zenon DEF History
  <2>3. /\ BusReset(d, s, ok).dev = Cleans(d, Fn)
        /\ BusReset(d, s, ok).seen = [s EXCEPT !.hits = n, !.torn = torn]
    BY <2>1
  <2> QED BY <1>1, <2>2, <2>3 DEF n
<1>2. CASE ~ok
  BY <1>2 DEF BusReset, History
<1> QED BY <1>1, <1>2

\* A reset of the bus that was not done has at most switched functions off and on.
Prepares(d, r, f, single) ==
    /\ \A g \in Fn : /\ Tamer(d[g], r.dev[g])
                     /\ g # f /\ (single \/ g \notin Listed(d)) => r.dev[g] = d[g]
                     /\ g # f => r.dev[g] = d[g] \/ Up(r.dev[g])
    /\ IF single THEN r.dev[f].act = d[f].act ELSE Up(r.dev[f])

\* One that was done has cleaned the bus.
Cleanses(d, r, f, single) ==
    \A g \in Fn : /\ Tamer(d[g], r.dev[g])
                  /\ ~r.dev[g].dirty /\ r.dev[g].act = "quiet"
                  /\ g # f /\ (single \/ g \notin Listed(d)) => r.dev[g] = Cleaned(d[g])
                  /\ g \in Listed(d) => ~r.dev[g].needs
                  /\ g \in Listed(d) /\ ~(single /\ g = f) => r.dev[g].irq = "intx"

\* The outcomes of vfio_pci_hot_reset: nothing done, with the reasons, or done.
Gives(d, s, r, f, single) ==
    \/ /\ Prepares(d, r, f, single) /\ r.seen.hits = s.hits /\ ~r.done
       /\ s.refused => r.seen.refused
       /\ \/ r.seen.refused \/ ~BusIsOurs(d)
          \/ (single <=> Others(d, f)) /\ \A g \in Fn : g # f => r.dev[g] = d[g]
    \/ /\ Cleanses(d, r, f, single) /\ r.seen.hits = s.hits + 1 /\ r.done
       /\ s.refused => r.seen.refused
       /\ single <=> ~Others(d, f)

LEMMA HotResetGives ==
    ASSUME NEW d \in Devices, NEW s \in History, NEW f \in Listed(d), NEW single \in BOOLEAN,
           NEW ok \in BOOLEAN, hw \in Machines, OnBus(d)
    PROVE  Gives(d, s, HotReset(d, s, f, single, ok), f, single)
<1> DEFINE users   == Checked(d, f) \cap Listed(d)
           foreign == Checked(d, f) # On \ {f}
           self    == IF single THEN {} ELSE {f}
           start   == Unmark(PreReset(d, self), {f})
           ready   == Unmark(PreReset(start, users), users)
           reset   == BusReset(ready, s, ok)
           GivesUp(e, S) == [dev |-> PostReset(e, S), seen |-> s, done |-> FALSE]
           hot     == HotReset(d, s, f, single, ok)
<1>1. /\ f \in Fn /\ Listed(d) \subseteq Fn /\ users \subseteq Listed(d) \ {f}
      /\ self \subseteq {f} /\ (single => self = {}) /\ (~single => self = {f})
  BY DEF Listed, Checked
<1>2. ~foreign => /\ users = Listed(d) \ {f}
                  /\ users = {} <=> ~Others(d, f)
  BY <1>1 DEF OnBus, Others
<1>3. foreign => ~BusIsOurs(d)
  BY <1>1, ForeignIsUnowned DEF BusIsOurs
<1>4. users # {} => Others(d, f)
  BY <1>1 DEF Others
<1>5. /\ start \in Devices
      /\ \A g \in Fn : /\ g # f => start[g] = d[g]
                       /\ g = f => ~start[g].needs
                       /\ start[g].dirty = d[g].dirty /\ start[g].st = d[g].st
                       /\ g \in self => start[g].act = "quiet"
                       /\ g \notin self => start[g].act = d[g].act
  <2> HIDE DEF self
  <2>1. PreReset(d, self) \in Devices
    BY PreResetOff
  <2>2. \A g \in Fn : /\ g \notin self => PreReset(d, self)[g] = d[g]
                      /\ g \in self => PreReset(d, self)[g].act = "quiet"
                      /\ PreReset(d, self)[g].dirty = d[g].dirty
                      /\ PreReset(d, self)[g].st = d[g].st
    BY PreResetDoes, PreResetOff
  <2>3. start \in Devices
    BY <2>1, UnmarkKeeps
  <2>4. \A g \in Fn : /\ g # f => start[g] = PreReset(d, self)[g]
                      /\ g = f => ~start[g].needs
                      /\ start[g].dirty = PreReset(d, self)[g].dirty
                      /\ start[g].st = PreReset(d, self)[g].st
                      /\ start[g].act = PreReset(d, self)[g].act
    BY <2>1, UnmarkDoes, UnmarkKeeps
  <2> QED BY <1>1, <2>2, <2>3, <2>4
<1>6. /\ ready \in Devices
      /\ \A g \in Fn : /\ g \notin users => ready[g] = start[g]
                       /\ g \in users => ~ready[g].needs /\ ready[g].act = "quiet"
                       /\ ready[g].dirty = start[g].dirty /\ ready[g].st = start[g].st
  <2> HIDE DEF start, users, self
  <2>1. PreReset(start, users) \in Devices
    BY <1>5, PreResetOff
  <2>2. \A g \in Fn : /\ g \notin users => PreReset(start, users)[g] = start[g]
                      /\ g \in users => PreReset(start, users)[g].act = "quiet"
                      /\ PreReset(start, users)[g].dirty = start[g].dirty
                      /\ PreReset(start, users)[g].st = start[g].st
    BY <1>5, PreResetDoes, PreResetOff
  <2>3. ready \in Devices
    BY <2>1, UnmarkKeeps
  <2>4. \A g \in Fn : /\ g \notin users => ready[g] = PreReset(start, users)[g]
                      /\ g \in users => ~ready[g].needs
                      /\ ready[g].dirty = PreReset(start, users)[g].dirty
                      /\ ready[g].st = PreReset(start, users)[g].st
                      /\ ready[g].act = PreReset(start, users)[g].act
    BY <2>1, UnmarkDoes, UnmarkKeeps
  <2> QED BY <2>2, <2>3, <2>4
<1>7. CASE hot = GivesUp(start, self) /\ (~hw.info \/ (~foreign /\ ~single /\ users = {}))
  <2> HIDE DEF start, self, users
  <2>1. hot.dev = PostReset(start, self) /\ hot.seen = s /\ ~hot.done
    BY <1>7
  <2> HIDE DEF hot
  <2>2. \A g \in Fn : /\ g \notin self => hot.dev[g] = start[g]
                      /\ g \in self => hot.dev[g].irq = "intx"
                      /\ hot.dev[g].act = start[g].act /\ hot.dev[g].st = start[g].st
                      /\ hot.dev[g].needs = start[g].needs /\ hot.dev[g].dirty = start[g].dirty
    BY <1>5, <2>1, PostResetDoes, PostResetKeeps
  <2>3. Prepares(d, hot, f, single) /\ \A g \in Fn : g # f => hot.dev[g] = d[g]
    BY <1>1, <1>5, <2>2 DEF Prepares, Tamer, Up
  <2>4. ~BusIsOurs(d) \/ (single <=> Others(d, f))
    BY <1>2, <1>7 DEF BusIsOurs
  <2> QED BY <2>1, <2>3, <2>4 DEF Gives, hot
<1>8. CASE hot = GivesUp(start, {}) /\ single /\ users # {}
  <2> HIDE DEF start, self, users
  <2>1. hot.dev = PostReset(start, {}) /\ hot.seen = s /\ ~hot.done
    <3>1. hot = GivesUp(start, {})
      BY <1>8
    <3> HIDE DEF hot
    <3> QED BY <3>1
  <2> HIDE DEF hot
  <2>2. \A g \in Fn : hot.dev[g] = start[g]
    BY <1>5, <2>1, PostResetDoes
  <2>3. Prepares(d, hot, f, single) /\ \A g \in Fn : g # f => hot.dev[g] = d[g]
    BY <1>1, <1>5, <1>8, <2>2 DEF Prepares, Tamer, Up
  <2>4. single <=> Others(d, f)
    BY <1>4, <1>8
  <2> QED BY <2>1, <2>3, <2>4 DEF Gives, hot
<1>9. CASE hot = GivesUp(ready, users \cup self) /\ (single => users = {}) /\ foreign
  <2>1. ~BusIsOurs(d)
    BY <1>3, <1>9
  <2> HIDE DEF start, ready, self, users, foreign
  <2>2. hot.dev = PostReset(ready, users \cup self) /\ hot.seen = s /\ ~hot.done
    BY <1>9
  <2> HIDE DEF hot
  <2>3. \A g \in Fn : /\ g \notin users \cup self => hot.dev[g] = ready[g]
                      /\ g \in users \cup self => hot.dev[g].irq = "intx"
                      /\ hot.dev[g].act = ready[g].act /\ hot.dev[g].st = ready[g].st
                      /\ hot.dev[g].needs = ready[g].needs /\ hot.dev[g].dirty = ready[g].dirty
    BY <1>6, <2>2, PostResetDoes, PostResetKeeps
  <2>4. Prepares(d, hot, f, single)
    <3>1. \A g \in Fn : /\ Tamer(d[g], hot.dev[g])
                        /\ g \notin users \cup {f} => hot.dev[g] = d[g]
      BY <1>1, <1>5, <1>6, <2>3 DEF Tamer
    <3>2. \A g \in users \cup self : Up(hot.dev[g])
      BY <1>1, <1>5, <1>6, <2>3 DEF Up
    <3>3. single => hot.dev[f].act = d[f].act
      <4>1. f \notin users /\ (single => f \notin self)
        BY <1>1
      <4>2. single => start[f].act = d[f].act
        BY <1>1, <1>5, <4>1
      <4>3. ready[f] = start[f]
        BY <1>1, <1>6, <4>1
      <4>4. hot.dev[f].act = ready[f].act
        BY <1>1, <2>3
      <4> QED BY <4>2, <4>3, <4>4
    <3> QED BY <1>1, <1>9, <3>1, <3>2, <3>3 DEF Prepares
  <2> QED BY <2>1, <2>2, <2>4 DEF Gives, hot
<1>10. CASE /\ hot = [dev |-> PostReset(reset.dev, users \cup self),
                      seen |-> reset.seen, done |-> ok]
            /\ ~foreign /\ (single <=> users = {})
  <2>1. users = Listed(d) \ {f} /\ (single <=> ~Others(d, f))
    BY <1>2, <1>10
  <2> HIDE DEF start, ready, self, users, foreign
  <2>2. /\ ok => reset.dev = Cleans(ready, Fn) /\ reset.seen.hits = s.hits + 1
                 /\ reset.seen.refused = s.refused
        /\ ~ok => reset.dev = ready /\ reset.seen.hits = s.hits /\ reset.seen.refused
    BY <1>6, BusResetDoes
  <2> HIDE DEF reset
  <2>3. hot.dev = PostReset(reset.dev, users \cup self) /\ hot.seen = reset.seen
        /\ hot.done = ok
    BY <1>10
  <2> HIDE DEF hot
  <2>4. reset.dev \in Devices
    BY <1>6, <2>2, CleansKeeps
  <2>5. \A g \in Fn : /\ g \notin users \cup self => hot.dev[g] = reset.dev[g]
                      /\ g \in users \cup self => hot.dev[g].irq = "intx"
                      /\ hot.dev[g].act = reset.dev[g].act /\ hot.dev[g].st = reset.dev[g].st
                      /\ hot.dev[g].needs = reset.dev[g].needs
                      /\ hot.dev[g].dirty = reset.dev[g].dirty
    BY <2>3, <2>4, PostResetDoes, PostResetKeeps
  <2>6. CASE ~ok
    <3>1. Prepares(d, hot, f, single)
      <4>1. \A g \in Fn : /\ Tamer(d[g], hot.dev[g])
                          /\ g \notin users \cup {f} => hot.dev[g] = d[g]
        BY <1>1, <1>5, <1>6, <2>2, <2>5, <2>6 DEF Tamer
      <4>2. \A g \in users \cup self : Up(hot.dev[g])
        BY <1>1, <1>5, <1>6, <2>2, <2>5, <2>6 DEF Up
      <4>3. single => hot.dev[f].act = d[f].act
        <5>1. f \notin users /\ (single => f \notin self)
          BY <1>1
        <5>2. single => start[f].act = d[f].act
          BY <1>1, <1>5, <5>1
        <5>3. ready[f] = start[f]
          BY <1>1, <1>6, <5>1
        <5>4. hot.dev[f].act = ready[f].act
          BY <1>1, <2>2, <2>5, <2>6
        <5> QED BY <5>2, <5>3, <5>4
      <4> QED BY <1>1, <1>10, <4>1, <4>2, <4>3 DEF Prepares
    <3> QED BY <2>2, <2>3, <2>6, <3>1 DEF Gives, hot
  <2>7. CASE ok
    <3>1. \A g \in Fn : /\ ~reset.dev[g].dirty /\ reset.dev[g].act = "quiet"
                        /\ reset.dev[g] = Cleaned(ready[g])
                        /\ reset.dev[g].needs = ready[g].needs
                        /\ reset.dev[g].st = ready[g].st
      <4>1. reset.dev = Cleans(ready, Fn)
        BY <2>2, <2>7
      <4> QED BY <1>6, <4>1, CleansDoes, CleansKeeps
    <3>2. Cleanses(d, hot, f, single)
      <4> SUFFICES ASSUME NEW g \in Fn
                   PROVE  /\ Tamer(d[g], hot.dev[g])
                          /\ ~hot.dev[g].dirty /\ hot.dev[g].act = "quiet"
                          /\ g # f /\ (single \/ g \notin Listed(d))
                               => hot.dev[g] = Cleaned(d[g])
                          /\ g \in Listed(d) => ~hot.dev[g].needs
                          /\ g \in Listed(d) /\ ~(single /\ g = f) => hot.dev[g].irq = "intx"
        BY DEF Cleanses
      <4>1. hot.dev[g].st = d[g].st /\ ~hot.dev[g].dirty /\ hot.dev[g].act = "quiet"
        BY <1>5, <1>6, <2>5, <3>1
      <4>2. /\ hot.dev[g].needs => d[g].needs
            /\ g \in Listed(d) => ~hot.dev[g].needs
        BY <1>5, <1>6, <2>1, <2>5, <3>1
      <4>3. g # f /\ (single \/ g \notin Listed(d)) => hot.dev[g] = Cleaned(d[g])
        <5> SUFFICES ASSUME g # f, single \/ g \notin Listed(d)
                     PROVE  hot.dev[g] = Cleaned(d[g])
          OBVIOUS
        <5>1. g \notin users \cup self
          BY <1>1, <1>10
        <5>2. ready[g] = d[g]
          BY <1>5, <1>6, <5>1
        <5> QED BY <2>5, <3>1, <5>1, <5>2
      <4>4. g \in Listed(d) /\ ~(single /\ g = f) => hot.dev[g].irq = "intx"
        BY <1>1, <2>1, <2>5
      <4> QED BY <4>1, <4>2, <4>3, <4>4 DEF Tamer
    <3> QED BY <2>1, <2>2, <2>3, <2>7, <3>2 DEF Gives, hot
  <2> QED BY <2>6, <2>7
<1>11. \/ hot = GivesUp(start, self) /\ (~hw.info \/ (~foreign /\ ~single /\ users = {}))
       \/ hot = GivesUp(start, {}) /\ single /\ users # {}
       \/ hot = GivesUp(ready, users \cup self) /\ (single => users = {}) /\ foreign
       \/ /\ hot = [dev |-> PostReset(reset.dev, users \cup self),
                    seen |-> reset.seen, done |-> ok]
          /\ ~foreign /\ (single <=> users = {})
  BY DEF HotReset
<1> QED BY <1>7, <1>8, <1>9, <1>10, <1>11

\* What the reset of f has left of the devices d and the history s.
Moved(d, s, e, t, f) ==
    /\ \A g \in Fn : /\ Tamer(d[g], e[g])
                     /\ g # f => \/ e[g] = d[g]
                                 \/ ~Others(d, f) /\ e[g] = Cleaned(d[g])
    /\ s.refused => t.refused
    /\ t.hits = s.hits \/ (t.hits = s.hits + 1 /\ ~Others(d, f))

\* The device is clean, if it can be without its neighbours.
Tried(d, e, t, f) ==
    hw.kind[f].own \/ hw.kind[f].works \/ ~Others(d, f) =>
      (e[f].dirty => t.refused \/ ~Resettable(d, f))

\* What vfio_pci_reset does to its device, and may do to the rest of the bus.
PciGives(d, s, r, f) ==
    Up(r.dev[f]) /\ Moved(d, s, r.dev, r.seen, f) /\ Tried(d, r.dev, r.seen, f)

LEMMA PciResetGives ==
    ASSUME NEW d \in Devices, NEW s \in History, NEW f \in Listed(d), NEW fn \in BOOLEAN,
           NEW bus \in BOOLEAN, hw \in Machines, OnBus(d), ~s.torn
    PROVE  PciGives(d, s, PciReset(d, s, f, fn, bus), f)
<1> DEFINE k     == hw.kind[f]
           pre   == PreReset(d, {f})
           tries == k.own \/ (k.works /\ (k.flr \/ ~k.pm))
           s1    == IF tries /\ ~fn THEN [s EXCEPT !.refused = TRUE] ELSE s
           hot   == HotReset(pre, s1, f, TRUE, bus)
           pm    == k.works /\ k.pm
           Ends(e, t) == [dev |-> PostReset(e, {f}), seen |-> t]
           r     == PciReset(d, s, f, fn, bus)
<1>1. f \in Fn
  BY DEF Listed
<1>2. /\ pre \in Devices /\ pre[f].act = "quiet"
      /\ \A g \in Fn : /\ g # f => pre[g] = d[g]
                       /\ Tamer(d[g], pre[g]) /\ pre[g].st = d[g].st
  BY <1>1, PreResetDoes, PreResetOff DEF Tamer
<1>3. Listed(pre) = Listed(d)
  BY <1>2, StaysListed
<1>4. /\ Others(pre, f) <=> Others(d, f)
      /\ BusIsOurs(pre) <=> BusIsOurs(d)
      /\ OnBus(pre)
  BY <1>3, OwnedStays DEF Others, BusIsOurs, OnBus
<1>5. /\ s1 \in History /\ s1.hits = s.hits
      /\ s.refused => s1.refused
      /\ tries /\ ~fn => s1.refused
  <2>1. /\ [s EXCEPT !.refused = TRUE] \in History /\ [s EXCEPT !.refused = TRUE].refused
        /\ [s EXCEPT !.refused = TRUE].hits = s.hits
    BY DEF History
  <2> HIDE DEF tries
  <2> QED BY <2>1
<1>6. Gives(pre, s1, hot, f, TRUE)
  <2> HIDE DEF pre, s1
  <2> QED BY <1>2, <1>3, <1>4, <1>5, HotResetGives
<1>7. hot.dev \in Devices /\ hot.seen \in History
  <2>1. Off(pre, f) /\ ~s1.torn /\ f \in On
    <3>1. ~[s EXCEPT !.refused = TRUE].torn
      BY DEF History
    <3>2. ~s1.torn
      <4> HIDE DEF tries
      <4> QED BY <3>1
    <3> QED BY <1>1, <3>2, PreResetOff DEF OnBus
  <2> HIDE DEF pre, s1
  <2> QED BY <1>1, <1>2, <1>4, <1>5, <2>1, HotResetKeeps DEF Kept
<1> HIDE DEF pre, s1, hot
<1>8. hot.dev[f].act = "quiet" /\ Moved(d, s, hot.dev, hot.seen, f)
  <2>1. CASE Prepares(pre, hot, f, TRUE)
    BY <1>1, <1>2, <1>4, <1>5, <1>6, <2>1 DEF Prepares, Gives, Tamer, Moved
  <2>2. CASE Cleanses(pre, hot, f, TRUE) /\ ~Others(pre, f)
    BY <1>1, <1>2, <1>4, <1>5, <1>6, <2>2 DEF Cleanses, Gives, Tamer, Moved
  <2> QED BY <1>6, <2>1, <2>2 DEF Gives
<1> SUFFICES PciGives(d, s, r, f)
  OBVIOUS
<1> HIDE DEF r
\* A reset ends with some devices e and some history t.
<1>9. ASSUME NEW e \in Devices, NEW t, r = Ends(e, t), e[f].act = "quiet",
             Moved(d, s, e, t, f), Tried(d, e, t, f)
      PROVE  PciGives(d, s, r, f)
  <2>1. r.dev = PostReset(e, {f}) /\ r.seen = t
    BY <1>9
  <2>2. \A g \in Fn : /\ g # f => r.dev[g] = e[g]
                      /\ r.dev[g].act = e[g].act /\ r.dev[g].st = e[g].st
                      /\ r.dev[g].needs = e[g].needs /\ r.dev[g].dirty = e[g].dirty
    BY <1>9, <2>1, PostResetDoes, PostResetKeeps
  <2>3. Up(r.dev[f])
    BY <1>1, <1>9, <2>1, <2>2, PostResetDoes DEF Up
  <2>4. Moved(d, s, r.dev, r.seen, f)
    BY <1>9, <2>1, <2>2 DEF Moved, Tamer
  <2>5. Tried(d, r.dev, r.seen, f)
    BY <1>1, <1>9, <2>1, <2>2 DEF Tried
  <2> QED BY <2>3, <2>4, <2>5 DEF PciGives
\* One that cleaned the device needs no reasons.
<1>10. ASSUME NEW e \in Devices, NEW t, r = Ends(Cleans(e, {f}), t), Moved(d, s, e, t, f)
       PROVE  PciGives(d, s, r, f)
  <2> DEFINE c == Cleans(e, {f})
  <2>1. /\ c \in Devices /\ c[f].act = "quiet" /\ ~c[f].dirty
        /\ \A g \in Fn : /\ g # f => c[g] = e[g]
                         /\ c[g].st = e[g].st /\ c[g].needs = e[g].needs
                         /\ c[g].dirty => e[g].dirty
    BY <1>1, <1>10, CleansDoes, CleansKeeps
  <2>2. r = Ends(c, t)
    BY <1>10
  <2> HIDE DEF c
  <2>3. Moved(d, s, c, t, f)
    BY <1>10, <2>1 DEF Moved, Tamer
  <2>4. Tried(d, c, t, f)
    BY <2>1 DEF Tried
  <2> QED BY <1>9, <2>1, <2>2, <2>3, <2>4, Zenon
<1>11. CASE r = Ends(Cleans(pre, {f}), s)
  <2>1. Moved(d, s, pre, s, f)
    BY <1>2 DEF Moved
  <2>2. pre \in Devices
    BY <1>2
  <2> HIDE DEF Ends
  <2> QED BY <1>10, <1>11, <2>1, <2>2
<1>12. CASE r = Ends(Cleans(hot.dev, {f}), hot.seen)
  <2>1. hot.dev \in Devices /\ Moved(d, s, hot.dev, hot.seen, f)
    BY <1>7, <1>8
  <2> HIDE DEF Ends
  <2> QED BY <1>10, <1>12, <2>1, Zenon
<1>13. CASE r = Ends(hot.dev, [hot.seen EXCEPT !.refused = TRUE])
  <2> DEFINE t == [hot.seen EXCEPT !.refused = TRUE]
  <2>1. t.refused /\ t.hits = hot.seen.hits
    BY <1>7 DEF History
  <2>2. r = Ends(hot.dev, t)
    BY <1>13
  <2> HIDE DEF t
  <2>3. Moved(d, s, hot.dev, t, f) /\ Tried(d, hot.dev, t, f)
    BY <1>8, <2>1 DEF Moved, Tried
  <2> QED BY <1>7, <1>8, <1>9, <2>2, <2>3, Zenon
<1>14. CASE r = Ends(hot.dev, hot.seen) /\ ~(tries /\ fn) /\ (hot.done \/ ~pm)
  <2>1. ASSUME k.own \/ k.works \/ ~Others(d, f), hot.dev[f].dirty, ~hot.seen.refused
        PROVE  ~Resettable(d, f)
    <3>1. ~tries
      <4>1. s1.refused => hot.seen.refused
        BY <1>6 DEF Gives
      <4> QED BY <1>5, <1>14, <2>1, <4>1
    <3>2. ~Cleanses(pre, hot, f, TRUE)
      BY <1>1, <2>1 DEF Cleanses
    <3>3. ~hot.done /\ (~BusIsOurs(d) \/ Others(d, f))
      BY <1>4, <1>6, <2>1, <3>2 DEF Gives
    <3>4. ~k.own /\ ~k.works
      BY <1>14, <3>1, <3>3
    <3> QED BY <2>1, <3>3, <3>4 DEF Resettable
  <2>2. Tried(d, hot.dev, hot.seen, f)
    BY <2>1 DEF Tried
  <2> QED BY <1>7, <1>8, <1>9, <1>14, <2>2, Zenon
<1>15. \/ r = Ends(Cleans(pre, {f}), s)
       \/ r = Ends(hot.dev, hot.seen) /\ ~(tries /\ fn) /\ (hot.done \/ ~pm)
       \/ r = Ends(Cleans(hot.dev, {f}), hot.seen)
       \/ r = Ends(hot.dev, [hot.seen EXCEPT !.refused = TRUE])
  BY DEF PciReset, pre, s1, hot, r
<1> QED BY <1>11, <1>12, <1>13, <1>14, <1>15 DEF r

-----------------------------------------------------------------------------
(* The reset of the machine *)

Part(p) == parts # <<>> /\ Head(parts) = p
TwoListed == \E f, g \in Listed(dev) : f # g

Plan == parts \in {<<>>, <<"handler">>, <<"devices">>,
                   <<"handler", "devices">>, <<"devices", "handler">>}

\* Where several devices share the bus only the handler resets it, and then none is
\* marked any more; where there is one, only its own reset does.
OnlyOnce ==
    /\ Idle => seen.hits = 0
    /\ seen.hits # 0 =>
         /\ seen.hits = 1
         /\ \/ /\ TwoListed /\ parts # <<"devices", "handler">>
               /\ Part("handler") => \A f \in Listed(dev) : ~dev[f].needs
            \/ /\ ~TwoListed /\ parts # <<"handler", "devices">>
               /\ Part("devices") => todo = {}

AbsentIsBlank == \A f \in Fn : dev[f].st = "absent" => dev[f] = Absent

\* What is still to come for a device: its own reset, or the handler's.
DevicesDue(f) == parts = <<"handler", "devices">> \/ (Part("devices") /\ f \in todo)
HandlerDue(f) == parts = <<"devices", "handler">>
                 \/ (Part("handler") /\ f \in todo /\ dev[f].needs)
ByItself(f) == hw.kind[f].own \/ hw.kind[f].works \/ ~TwoListed

\* A device whose turns are over is as the machine's reset is to leave it.
DueOrDone(f) ==
    /\ DevicesDue(f) \/ Up(dev[f])
    /\ dev[f].dirty => \/ seen.refused \/ ~CanReset(f)
                       \/ IF ByItself(f) THEN DevicesDue(f) ELSE HandlerDue(f)

PlanInv ==
    /\ Plan
    /\ OnlyOnce
    /\ AbsentIsBlank
    /\ ~Idle => \A f \in Live(dev) : DueOrDone(f)

\* The plan is one of four, each with its next part.
LEMMA PlanSteps ==
    ASSUME Plan, ~Idle
    PROVE  \/ /\ parts = <<"handler">> /\ Head(parts) = "handler" /\ Tail(parts) = <<>>
           \/ /\ parts = <<"devices">> /\ Head(parts) = "devices" /\ Tail(parts) = <<>>
           \/ /\ parts = <<"handler", "devices">> /\ Head(parts) = "handler"
              /\ Tail(parts) = <<"devices">>
           \/ /\ parts = <<"devices", "handler">> /\ Head(parts) = "devices"
              /\ Tail(parts) = <<"handler">>
<1>1. CASE parts = <<"handler">>
  BY <1>1
<1>2. CASE parts = <<"devices">>
  BY <1>2
<1>3. CASE parts = <<"handler", "devices">>
  BY <1>3
<1>4. CASE parts = <<"devices", "handler">>
  BY <1>4
<1> QED BY <1>1, <1>2, <1>3, <1>4 DEF Plan, Idle

LEMMA OneOrTwo == ASSUME NEW f \in Listed(dev) PROVE TwoListed <=> Others(dev, f)
  BY DEF TwoListed, Others

\* A listed device is owned, and what can be reset does not depend on the devices' state.
LEMMA CanBeReset == ASSUME NEW f PROVE CanReset(f) <=> Resettable(dev, f)
  BY DEF CanReset, Resettable, BusIsOurs

LEMMA BusStaysOurs ==
    ASSUME hw' = hw, Listed(dev') = Listed(dev)
    PROVE  /\ TwoListed' <=> TwoListed
           /\ BusIsOurs(dev)' <=> BusIsOurs(dev)
           /\ \A f : CanReset(f)' <=> CanReset(f)
           /\ \A f : ByItself(f)' <=> ByItself(f)
<1>1. TwoListed' <=> TwoListed
  BY DEF TwoListed
<1>2. On' = On
  BY DEF On
<1>3. \A g : Owned(dev, g)' <=> Owned(dev, g)
  BY DEF Owned
<1> QED BY <1>1, <1>2, <1>3 DEF BusIsOurs, CanReset, ByItself, Owned

\* Steps outside of a machine's reset only have to leave it so.
LEMMA IdleKeepsPlan ==
    ASSUME PlanInv, Idle, parts' = parts, seen'.hits = seen.hits,
           \A g \in Fn : dev'[g].st = "absent" => dev'[g] = Absent
    PROVE  PlanInv'
<1>1. Idle' /\ seen'.hits = 0
  BY DEF Idle, PlanInv, OnlyOnce
<1> QED BY <1>1 DEF PlanInv, Plan, OnlyOnce, AbsentIsBlank, Idle

\* What a reset of one device, the command's or the machine's, leaves.
LEMMA ResetsOneGives ==
    ASSUME NEW d \in Devices, NEW f \in Listed(d), hw \in Machines, seen \in History,
           OnBus(d), ~seen.torn, ResetsOne(d, f)
    PROVE  /\ \A g \in Fn : g # f => \/ dev'[g] = d[g]
                                     \/ ~Others(d, f) /\ dev'[g] = Cleaned(d[g])
           /\ \A g \in Fn : dev'[g].st = d[g].st
           /\ Idle => seen'.hits = seen.hits
           /\ ~Idle => /\ Up(dev'[f]) /\ Moved(d, seen, dev', seen', f)
                       /\ Tried(d, dev', seen', f)
<1>1. PICK fn \in Answers("function"), bus \in Answers("bus") :
         /\ dev' = PciReset(d, seen, f, fn, bus).dev
         /\ seen' = IF Idle THEN [seen EXCEPT !.torn = PciReset(d, seen, f, fn, bus).seen.torn]
                    ELSE PciReset(d, seen, f, fn, bus).seen
  BY DEF ResetsOne
<1> DEFINE r == PciReset(d, seen, f, fn, bus)
<1>2. fn \in BOOLEAN /\ bus \in BOOLEAN
  BY DEF Answers
<1>3. PciGives(d, seen, r, f)
  BY <1>2, PciResetGives
<1> HIDE DEF r
<1>4. dev' = r.dev /\ seen' = IF Idle THEN [seen EXCEPT !.torn = r.seen.torn] ELSE r.seen
  BY <1>1 DEF r
<1>5. Up(dev'[f]) /\ Moved(d, seen, dev', r.seen, f) /\ Tried(d, dev', r.seen, f)
  BY <1>3, <1>4 DEF PciGives
<1>6. Idle => seen'.hits = seen.hits
  BY <1>4 DEF History
<1>7. ~Idle => seen' = r.seen
  BY <1>4
<1>8. \A g \in Fn : /\ g # f => \/ dev'[g] = d[g]
                                \/ ~Others(d, f) /\ dev'[g] = Cleaned(d[g])
                    /\ dev'[g].st = d[g].st
  BY <1>5 DEF Moved, Tamer
<1> QED BY <1>5, <1>6, <1>7, <1>8

\* A function that is not there stays blank: a bus reset only cleans it.
LEMMA BlankStays == Cleaned(Absent) = Absent
<1>1. ASSUME NEW a \in Device, a.act = "quiet", a.dirty = FALSE PROVE Cleaned(a) = a
  BY <1>1 DEF Cleaned, Device
<1>2. Absent \in Device /\ Absent.act = "quiet" /\ Absent.dirty = FALSE
  BY DEF Absent, Device
<1> QED BY <1>1, <1>2

LEMMA RealizeKeepsPlan == ASSUME ResetInv, PlanInv, NEW f \in Fn, Realize(f) PROVE PlanInv'
<1>1. dev \in Devices /\ seen \in History /\ ~seen.torn /\ hw \in Machines /\ OnBus(dev)
  BY DEF ResetInv, Typed, BusResetIsPrepared, Work
<1>2. Idle /\ f \in On /\ dev[f].st = "absent" /\ parts' = parts
  BY DEF Realize
<1>3. PICK dirty \in BOOLEAN :
        LET d == [dev EXCEPT ![f] = [Absent EXCEPT !.st = "live", !.irq = "intx",
                                                   !.dirty = dirty]]
        IN  (dev' = d /\ UNCHANGED seen) \/ ResetsOne(d, f)
  BY DEF Realize
<1> DEFINE e == [Absent EXCEPT !.st = "live", !.irq = "intx", !.dirty = dirty]
           d == [dev EXCEPT ![f] = e]
<1>4. e \in Device /\ e.st = "live"
  BY DEF Absent, Device
<1>5. (dev' = d /\ UNCHANGED seen) \/ ResetsOne(d, f)
  BY <1>3
<1> HIDE DEF e
<1>6. d \in Devices /\ d[f].st = "live" /\ \A g \in Fn : g # f => d[g] = dev[g]
  BY <1>1, <1>4 DEF Devices
<1> HIDE DEF d
<1>7. OnBus(d) /\ f \in Listed(d)
  BY <1>1, <1>2, <1>6 DEF OnBus, Listed
<1>8. \A g \in Fn : dev[g].st = "absent" => dev[g] = Absent
  BY DEF PlanInv, AbsentIsBlank
<1>9. /\ seen'.hits = seen.hits
      /\ \A g \in Fn : dev'[g].st = d[g].st
      /\ \A g \in Fn : g # f => dev'[g] = d[g] \/ dev'[g] = Cleaned(d[g])
  <2>1. CASE dev' = d /\ UNCHANGED seen
    BY <2>1
  <2>2. CASE ResetsOne(d, f)
    BY <1>1, <1>2, <1>6, <1>7, <2>2, ResetsOneGives
  <2> QED BY <1>5, <2>1, <2>2
<1>10. \A g \in Fn : dev'[g].st = "absent" => dev'[g] = Absent
  <2> SUFFICES ASSUME NEW g \in Fn, dev'[g].st = "absent" PROVE dev'[g] = Absent
    OBVIOUS
  <2>1. g # f
    BY <1>6, <1>9
  <2>2. d[g] = Absent
    BY <1>6, <1>8, <1>9, <2>1
  <2> QED BY <1>9, <2>1, <2>2, BlankStays
<1> QED BY <1>2, <1>9, <1>10, IdleKeepsPlan

LEMMA NicResetKeepsPlan ==
    ASSUME ResetInv, PlanInv, NEW f \in Fn, NicReset(f) PROVE PlanInv'
<1>1. dev \in Devices /\ seen \in History /\ ~seen.torn /\ hw \in Machines /\ OnBus(dev)
  BY DEF ResetInv, Typed, BusResetIsPrepared, Work
<1>2. Idle /\ parts' = parts /\ f \in Listed(dev) /\ ResetsOne(dev, f) /\ dev[f].st = "live"
  BY DEF NicReset, Listed
<1>3. /\ seen'.hits = seen.hits
      /\ \A g \in Fn : dev'[g].st = dev[g].st
      /\ \A g \in Fn : g # f => dev'[g] = dev[g] \/ dev'[g] = Cleaned(dev[g])
  BY <1>1, <1>2, ResetsOneGives
<1>4. \A g \in Fn : dev'[g].st = "absent" => dev'[g] = Absent
  BY <1>2, <1>3, BlankStays DEF PlanInv, AbsentIsBlank
<1> QED BY <1>2, <1>3, <1>4, IdleKeepsPlan

LEMMA SmallStepsKeepPlan ==
    ASSUME ResetInv, PlanInv, NEW f \in Fn, RealizeFails(f) \/ Finalize(f) \/ GuestUses(f)
    PROVE  PlanInv'
<1>1. dev \in Devices /\ Idle /\ parts' = parts /\ seen' = seen
  BY DEF ResetInv, Typed, RealizeFails, Finalize, GuestUses
<1>2. \A g \in Fn : g # f => dev'[g] = dev[g]
  BY <1>1 DEF RealizeFails, Finalize, GuestUses, Devices
<1>3. dev'[f].st = "absent" => dev'[f] = Absent
  <2>1. CASE RealizeFails(f)
    BY <1>1, <2>1 DEF RealizeFails, Devices, Device
  <2>2. CASE Finalize(f)
    BY <1>1, <2>2 DEF Finalize, Devices
  <2>3. CASE GuestUses(f)
    <3>1. PICK act \in {"busy", "asleep"} :
            dev' = [dev EXCEPT ![f] = [dev[f] EXCEPT !.irq = "msi", !.act = act, !.dirty = TRUE]]
      BY <1>1, <2>3 DEF GuestUses, Devices, Device
    <3>2. dev'[f].st = "live"
      BY <1>1, <2>3, <3>1 DEF GuestUses, Devices, Device
    <3> QED BY <3>2
  <2> QED BY <2>1, <2>2, <2>3
<1>4. \A g \in Fn : dev'[g].st = "absent" => dev'[g] = Absent
  BY <1>2, <1>3 DEF PlanInv, AbsentIsBlank
<1> QED BY <1>1, <1>4, IdleKeepsPlan

LEMMA ExitKeepsPlan == ASSUME ResetInv, PlanInv, NEW f \in Fn, Exit(f) PROVE PlanInv'
<1>1. dev \in Devices /\ seen \in History
  BY DEF ResetInv, Typed
<1>2. dev[f].st = "live" /\ UNCHANGED <<hw, parts, first>>
  BY DEF Exit
<1>3. /\ dev'[f].st = "gone" /\ dev'[f].needs = dev[f].needs
      /\ \A g \in Fn : g # f => dev'[g] = dev[g]
  BY <1>1 DEF Exit, Devices, Device
<1>4. seen'.hits = seen.hits /\ seen'.refused = seen.refused
  <2> DEFINE late == seen.late \/ ~Idle
  <2>1. seen' = [seen EXCEPT !.late = late]
    BY DEF Exit
  <2> HIDE DEF late
  <2> QED BY <1>1, <2>1 DEF History
<1>5. /\ todo' \subseteq todo
      /\ \A g \in todo : g # f => g \in todo'
  BY DEF Exit
<1>6. \A g \in Fn : dev'[g].st = "absent" => dev'[g] = Absent
  BY <1>3 DEF PlanInv, AbsentIsBlank
<1>7. CASE Idle
  BY <1>2, <1>4, <1>6, <1>7, IdleKeepsPlan
<1>8. CASE ~Idle
  <2>1. Listed(dev') = Listed(dev) /\ Live(dev') = Live(dev) \ {f}
    BY <1>2, <1>3 DEF Listed, Live
  <2>2. /\ TwoListed' <=> TwoListed
        /\ \A g : (CanReset(g)' <=> CanReset(g)) /\ (ByItself(g)' <=> ByItself(g))
    BY <1>2, <2>1, BusStaysOurs
  <2>3. \A p : Part(p)' <=> Part(p)
    BY <1>2 DEF Part
  <2>4. OnlyOnce'
    <3>1. (\A g \in Listed(dev) : ~dev[g].needs) => \A g \in Listed(dev) : ~dev'[g].needs
      BY <1>3 DEF Listed
    <3> QED BY <1>2, <1>4, <1>5, <2>1, <2>2, <2>3, <3>1 DEF PlanInv, OnlyOnce, Idle
  <2>5. ASSUME NEW g \in Live(dev') PROVE DueOrDone(g)'
    <3>1. g # f /\ g \in Live(dev) /\ dev'[g] = dev[g]
      BY <1>3, <2>1 DEF Live
    <3>2. DueOrDone(g)
      BY <1>8, <3>1 DEF PlanInv
    <3>3. (DevicesDue(g) => DevicesDue(g)') /\ (HandlerDue(g) => HandlerDue(g)')
      BY <1>2, <1>5, <2>3, <3>1 DEF DevicesDue, HandlerDue
    <3>4. dev'[g].dirty = dev[g].dirty /\ (Up(dev[g]) <=> Up(dev'[g]))
      BY <3>1
    <3> QED BY <1>4, <2>2, <3>2, <3>3, <3>4 DEF DueOrDone
  <2> QED BY <1>2, <1>6, <2>4, <2>5 DEF PlanInv, Plan, AbsentIsBlank
<1> QED BY <1>7, <1>8

\* Only listed devices are marked, and those that have no reset of their own all are.
LEMMA ComputeDoes ==
    ASSUME NEW d \in Devices, NEW g \in Fn
    PROVE  LET c == ComputeNeedsReset(d)
           IN  /\ g \notin Listed(d) => c[g] = d[g]
               /\ g \in Listed(d) /\ ~hw.kind[g].works => c[g].needs
               /\ c[g].st = d[g].st /\ c[g].irq = d[g].irq /\ c[g].act = d[g].act
               /\ c[g].dirty = d[g].dirty
  BY DEF ComputeNeedsReset, Devices, Device

\* What a part of the machine's reset does when it begins.
LEMMA EntersGives ==
    ASSUME ResetInv, PlanInv, hw' = hw, NEW rest, Enters(dev, rest)
    PROVE  /\ Listed(dev') = Listed(dev) /\ Live(dev') = Live(dev)
           /\ \A g \in Fn : /\ Up(dev'[g]) <=> Up(dev[g])
                            /\ dev'[g].dirty = dev[g].dirty
           /\ AbsentIsBlank'
           /\ parts' = rest
           /\ rest # <<>> /\ Head(rest) = "handler" =>
                /\ todo' = Listed(dev)
                /\ \A g \in Live(dev) : ~ByItself(g) => dev'[g].needs
           /\ rest # <<>> /\ Head(rest) # "handler" => todo' = Live(dev)
           /\ rest = <<>> => dev' = dev
<1>1. dev \in Devices
  BY DEF ResetInv, Typed
<1>2. dev' = dev \/ dev' = ComputeNeedsReset(dev)
  BY DEF Enters
<1>3. \A g \in Fn : /\ g \notin Listed(dev) => dev'[g] = dev[g]
                    /\ dev'[g].st = dev[g].st /\ dev'[g].irq = dev[g].irq
                    /\ dev'[g].act = dev[g].act /\ dev'[g].dirty = dev[g].dirty
  BY <1>1, <1>2, ComputeDoes
<1>4. /\ Listed(dev') = Listed(dev) /\ Live(dev') = Live(dev)
      /\ \A g \in Fn : (Up(dev'[g]) <=> Up(dev[g])) /\ dev'[g].dirty = dev[g].dirty
  BY <1>3 DEF Listed, Live, Up
<1>5. AbsentIsBlank'
  <2> SUFFICES ASSUME NEW g \in Fn, dev'[g].st = "absent" PROVE dev'[g] = Absent
    BY DEF AbsentIsBlank
  <2>1. dev[g].st = "absent" /\ dev'[g] = dev[g]
    BY <1>3 DEF Listed
  <2> QED BY <2>1 DEF PlanInv, AbsentIsBlank
<1>6. ASSUME rest # <<>>, Head(rest) = "handler"
      PROVE  /\ todo' = Listed(dev)
             /\ \A g \in Live(dev) : ~ByItself(g) => dev'[g].needs
  <2>1. todo' = Listed(dev) /\ dev' = ComputeNeedsReset(dev)
    BY <1>6 DEF Enters
  <2> QED BY <1>1, <2>1, ComputeDoes DEF ByItself, Live, Listed
<1> QED BY <1>4, <1>5, <1>6 DEF Enters

LEMMA StartKeepsPlan == ASSUME ResetInv, PlanInv, StartReset PROVE PlanInv'
<1>1. seen \in History /\ Idle /\ hw' = hw
  BY DEF ResetInv, Typed, StartReset
<1> DEFINE rest == IF first THEN <<"handler", "devices">> ELSE <<"devices", "handler">>
<1>2. Enters(dev, rest)
  BY DEF StartReset
<1>3. \/ rest = <<"handler", "devices">> /\ Head(rest) = "handler"
      \/ rest = <<"devices", "handler">> /\ Head(rest) = "devices"
  BY DEF rest
<1>4. rest # <<>>
  BY <1>3
<1> HIDE DEF rest
<1>5. /\ Listed(dev') = Listed(dev) /\ Live(dev') = Live(dev)
      /\ AbsentIsBlank' /\ parts' = rest
      /\ Head(rest) = "handler" =>
           /\ todo' = Listed(dev)
           /\ \A g \in Live(dev) : ~ByItself(g) => dev'[g].needs
      /\ Head(rest) # "handler" => todo' = Live(dev)
  BY <1>1, <1>2, <1>4, EntersGives
<1>6. seen'.hits = 0
  <2> DEFINE late == Listed(dev) # Live(dev)
  <2>1. seen' = [seen EXCEPT !.late = late]
    BY DEF StartReset
  <2> HIDE DEF late
  <2> QED BY <1>1, <2>1 DEF History, PlanInv, OnlyOnce
<1>7. ASSUME NEW g \in Live(dev) PROVE DueOrDone(g)'
  <2>1. ByItself(g)' <=> ByItself(g)
    BY <1>1, <1>5, BusStaysOurs
  <2>2. g \in Listed(dev)
    BY DEF Live, Listed
  <2>3. DevicesDue(g)'
    BY <1>3, <1>4, <1>5 DEF DevicesDue, Part
  <2>4. ~ByItself(g) => HandlerDue(g)'
    BY <1>3, <1>4, <1>5, <2>2 DEF HandlerDue, Part
  <2> QED BY <2>1, <2>3, <2>4 DEF DueOrDone
<1>8. Plan'
  BY <1>3, <1>5 DEF Plan
<1> QED BY <1>4, <1>5, <1>6, <1>7, <1>8 DEF PlanInv, OnlyOnce, Idle

LEMMA PartEndsKeepsPlan == ASSUME ResetInv, PlanInv, PartEnds PROVE PlanInv'
<1>1. seen \in History /\ ~Idle /\ hw' = hw /\ todo = {} /\ Enters(dev, Tail(parts))
  BY DEF ResetInv, Typed, PartEnds, Idle
<1>2. /\ Listed(dev') = Listed(dev) /\ Live(dev') = Live(dev)
      /\ \A g \in Fn : (Up(dev'[g]) <=> Up(dev[g])) /\ dev'[g].dirty = dev[g].dirty
      /\ AbsentIsBlank' /\ parts' = Tail(parts)
      /\ Tail(parts) # <<>> /\ Head(Tail(parts)) = "handler" =>
           /\ todo' = Listed(dev)
           /\ \A g \in Live(dev) : ~ByItself(g) => dev'[g].needs
      /\ Tail(parts) # <<>> /\ Head(Tail(parts)) # "handler" => todo' = Live(dev)
  BY <1>1, EntersGives
<1>3. /\ TwoListed' <=> TwoListed
      /\ \A g : (CanReset(g)' <=> CanReset(g)) /\ (ByItself(g)' <=> ByItself(g))
  BY <1>1, <1>2, BusStaysOurs
<1>4. /\ Plan /\ OnlyOnce /\ \A g \in Live(dev) : DueOrDone(g) /\ g \in Fn /\ g \in Listed(dev)
  BY <1>1 DEF PlanInv, Live, Listed
<1>5. CASE Tail(parts) = <<>>
  <2>1. seen'.hits = 0
    BY <1>1, <1>2, <1>5, ForgetsHits DEF PartEnds, History
  <2> QED BY <1>2, <1>5, <2>1 DEF PlanInv, Plan, OnlyOnce, Idle
<1>6. CASE parts = <<"handler", "devices">>
  <2>1. Tail(parts) = <<"devices">> /\ Head(parts) = "handler" /\ Head(Tail(parts)) = "devices"
    BY <1>6
  <2>2. parts' = <<"devices">> /\ todo' = Live(dev) /\ seen' = seen
    BY <1>2, <2>1 DEF PartEnds
  <2>3. Part("devices")' /\ ~Part("handler")' /\ ~Part("devices")
    BY <1>6, <2>1, <2>2 DEF Part
  <2>4. OnlyOnce'
    BY <1>1, <1>3, <1>4, <1>6, <2>2, <2>3 DEF OnlyOnce, Idle
  <2>5. ASSUME NEW g \in Live(dev) PROVE DueOrDone(g)'
    <3>1. DevicesDue(g)'
      BY <2>2, <2>3 DEF DevicesDue
    <3>2. ~HandlerDue(g)
      BY <1>1, <1>6 DEF HandlerDue
    <3> QED BY <1>2, <1>3, <1>4, <2>2, <3>1, <3>2 DEF DueOrDone
  <2> QED BY <1>2, <2>2, <2>4, <2>5 DEF PlanInv, Plan
<1>7. CASE parts = <<"devices", "handler">>
  <2>1. Tail(parts) = <<"handler">> /\ Head(parts) = "devices" /\ Head(Tail(parts)) = "handler"
    BY <1>7
  <2>2. /\ parts' = <<"handler">> /\ todo' = Listed(dev) /\ seen' = seen
        /\ \A g \in Live(dev) : ~ByItself(g) => dev'[g].needs
    BY <1>2, <2>1 DEF PartEnds
  <2>3. Part("handler")' /\ ~Part("devices")' /\ ~Part("handler")
    BY <1>7, <2>1, <2>2 DEF Part
  <2>4. OnlyOnce'
    BY <1>1, <1>3, <1>4, <1>7, <2>2, <2>3 DEF OnlyOnce, Idle
  <2>5. ASSUME NEW g \in Live(dev) PROVE DueOrDone(g)'
    <3>1. ~ByItself(g) => HandlerDue(g)'
      BY <1>4, <2>2, <2>3 DEF HandlerDue
    <3>2. ~DevicesDue(g)
      BY <1>1, <1>7 DEF DevicesDue
    <3> QED BY <1>2, <1>3, <1>4, <2>2, <3>1, <3>2 DEF DueOrDone
  <2> QED BY <1>2, <2>2, <2>4, <2>5 DEF PlanInv, Plan
<1> QED BY <1>1, <1>4, <1>5, <1>6, <1>7, PlanSteps

\* A bus reset by the handler is of several devices, none of which is marked afterwards.
LEMMA HandlerResetsKeepsPlan ==
    ASSUME ResetInv, PlanInv, NEW f \in Fn, HandlerResets(f) PROVE PlanInv'
<1>1. /\ dev \in Devices /\ seen \in History /\ hw \in Machines /\ OnBus(dev)
      /\ todo \subseteq Listed(dev)
  BY DEF ResetInv, Typed, Work
<1>2. /\ ~Idle /\ Part("handler") /\ ~Part("devices")
      /\ parts # <<"devices", "handler">> /\ f \in todo /\ f \in Listed(dev)
  BY <1>1 DEF HandlerResets, Idle, Part
<1>3. hw' = hw /\ parts' = parts /\ todo' = todo \ {f}
  BY DEF HandlerResets
<1>4. /\ Plan' /\ ~Idle' /\ Part("handler")' /\ ~Part("devices")'
      /\ \A g : DevicesDue(g)' <=> DevicesDue(g)
  BY <1>2, <1>3 DEF PlanInv, Plan, Idle, Part, DevicesDue
<1>5. \A g \in Live(dev) : DueOrDone(g) /\ g \in Listed(dev) /\ g \in Fn
  BY <1>2 DEF PlanInv, Live, Listed
<1>6. AbsentIsBlank /\ OnlyOnce
  BY DEF PlanInv
<1>7. CASE ~dev[f].needs /\ UNCHANGED <<dev, seen>>
  <2>1. /\ TwoListed' <=> TwoListed
        /\ \A g : (CanReset(g)' <=> CanReset(g)) /\ (ByItself(g)' <=> ByItself(g))
    BY <1>3, <1>7, BusStaysOurs
  <2>2. \A g \in Live(dev) : DueOrDone(g)'
    <3> SUFFICES ASSUME NEW g \in Live(dev) PROVE DueOrDone(g)'
      OBVIOUS
    <3>1. HandlerDue(g) => HandlerDue(g)'
      BY <1>2, <1>3, <1>4, <1>7 DEF HandlerDue
    <3> QED BY <1>4, <1>5, <1>7, <2>1, <3>1 DEF DueOrDone
  <2>3. Live(dev)' = Live(dev) /\ Listed(dev)' = Listed(dev)
    BY <1>7 DEF Live, Listed
  <2>4. OnlyOnce'
    BY <1>2, <1>3, <1>4, <1>6, <1>7, <2>1, <2>3 DEF OnlyOnce
  <2> QED BY <1>4, <1>6, <1>7, <2>2, <2>3, <2>4 DEF PlanInv, AbsentIsBlank
<1>8. ASSUME dev[f].needs, NEW ok \in Answers("bus"),
             dev' = HotReset(dev, seen, f, FALSE, ok).dev,
             seen' = HotReset(dev, seen, f, FALSE, ok).seen
      PROVE  PlanInv'
  <2> DEFINE r == HotReset(dev, seen, f, FALSE, ok)
  <2>1. Gives(dev, seen, r, f, FALSE)
    BY <1>1, <1>2, HotResetGives DEF Answers
  <2>2. dev' = r.dev /\ seen' = r.seen
    BY <1>8
  <2> HIDE DEF r
  <2>3. \A g \in Fn : Tamer(dev[g], dev'[g])
    BY <2>1, <2>2 DEF Gives, Prepares, Cleanses
  <2>4. Listed(dev') = Listed(dev) /\ Live(dev') = Live(dev)
    BY <2>3 DEF Tamer, Listed, Live
  <2>5. /\ TwoListed' <=> TwoListed
        /\ \A g : (CanReset(g)' <=> CanReset(g)) /\ (ByItself(g)' <=> ByItself(g))
    BY <1>3, <2>4, BusStaysOurs
  <2>6. TwoListed <=> Others(dev, f)
    BY <1>2, OneOrTwo
  <2>7. AbsentIsBlank'
    <3> SUFFICES ASSUME NEW g \in Fn, dev'[g].st = "absent" PROVE dev'[g] = Absent
      BY DEF AbsentIsBlank
    <3>1. dev[g].st = "absent" /\ g \notin Listed(dev) /\ g # f
      BY <1>2, <2>3 DEF Tamer, Listed
    <3>2. dev'[g] = dev[g] \/ dev'[g] = Cleaned(dev[g])
      BY <2>1, <2>2, <3>1 DEF Gives, Prepares, Cleanses
    <3> QED BY <1>6, <3>1, <3>2, BlankStays DEF AbsentIsBlank
  <2>8. CASE Prepares(dev, r, f, FALSE) /\ r.seen.hits = seen.hits
             /\ (seen.refused => r.seen.refused)
             /\ \/ r.seen.refused \/ ~BusIsOurs(dev)
                \/ (FALSE <=> Others(dev, f)) /\ \A g \in Fn : g # f => r.dev[g] = dev[g]
    <3>1. /\ \A g \in Fn : g # f => dev'[g] = dev[g] \/ Up(dev'[g])
          /\ Up(dev'[f])
      BY <2>2, <2>8 DEF Prepares
    <3>2. seen'.hits = seen.hits /\ (seen.refused => seen'.refused)
          /\ \/ seen'.refused \/ ~BusIsOurs(dev)
             \/ ~TwoListed /\ \A g \in Fn : g # f => dev'[g] = dev[g]
      BY <2>2, <2>6, <2>8
    <3>3. OnlyOnce'
      <4>1. (\A g \in Listed(dev) : ~dev[g].needs) => \A g \in Listed(dev) : ~dev'[g].needs
        BY <2>3 DEF Listed, Tamer
      <4> QED BY <1>2, <1>3, <1>4, <1>6, <2>4, <2>5, <3>2, <4>1 DEF OnlyOnce
    <3>4. ASSUME NEW g \in Live(dev) PROVE DueOrDone(g)'
      <4>1. DueOrDone(g) /\ (dev'[g].dirty => dev[g].dirty)
        BY <1>5, <2>3 DEF Tamer
      <4>2. DevicesDue(g)' \/ Up(dev'[g])
        BY <1>4, <1>5, <3>1, <4>1 DEF DueOrDone
      <4>3. CASE dev'[g].dirty /\ ~seen'.refused /\ CanReset(g) /\ ~ByItself(g)
        <5>1. BusIsOurs(dev) /\ TwoListed
          BY <4>3, CanBeReset DEF Resettable, ByItself
        <5> QED BY <3>2, <4>3, <5>1
      <4>4. CASE dev'[g].dirty /\ ~seen'.refused /\ CanReset(g) /\ ByItself(g)
        BY <1>4, <2>5, <3>2, <4>1, <4>2, <4>4 DEF DueOrDone
      <4>5. CASE ~dev'[g].dirty \/ seen'.refused \/ ~CanReset(g)
        BY <2>5, <4>2, <4>5 DEF DueOrDone
      <4> QED BY <4>3, <4>4, <4>5
    <3> QED BY <1>4, <2>4, <2>7, <3>3, <3>4 DEF PlanInv
  <2>9. CASE Cleanses(dev, r, f, FALSE) /\ r.seen.hits = seen.hits + 1 /\ Others(dev, f)
    <3>1. /\ \A g \in Fn : ~dev'[g].dirty /\ dev'[g].act = "quiet"
          /\ \A g \in Listed(dev) : ~dev'[g].needs /\ dev'[g].irq = "intx"
      BY <2>2, <2>9 DEF Cleanses, Listed
    <3>2. seen.hits = 0
      BY <1>2, <1>6, <1>8, <2>6, <2>9 DEF OnlyOnce
    <3>3. OnlyOnce'
      BY <1>2, <1>3, <1>4, <2>2, <2>4, <2>5, <2>6, <2>9, <3>1, <3>2 DEF OnlyOnce
    <3>4. \A g \in Live(dev) : DueOrDone(g)'
      BY <1>5, <3>1 DEF DueOrDone, Up
    <3> QED BY <1>4, <2>4, <2>7, <3>3, <3>4 DEF PlanInv
  <2> QED BY <2>1, <2>8, <2>9 DEF Gives
<1> QED BY <1>7, <1>8 DEF HandlerResets

\* A bus reset by a device's own reset is of that device alone.
LEMMA DeviceResetsKeepsPlan ==
    ASSUME ResetInv, PlanInv, NEW f \in Fn, DeviceResets(f) PROVE PlanInv'
<1>1. /\ dev \in Devices /\ seen \in History /\ ~seen.torn /\ hw \in Machines /\ OnBus(dev)
      /\ todo \subseteq Listed(dev)
  BY DEF ResetInv, Typed, BusResetIsPrepared, Work
<1>2. /\ ~Idle /\ Part("devices") /\ ~Part("handler")
      /\ parts # <<"handler", "devices">> /\ f \in todo /\ f \in Listed(dev)
      /\ ResetsOne(dev, f)
  BY <1>1 DEF DeviceResets, Idle, Part
<1>3. hw' = hw /\ parts' = parts /\ todo' = todo \ {f}
  BY DEF DeviceResets
<1>4. /\ Plan' /\ ~Idle' /\ Part("devices")' /\ ~Part("handler")'
      /\ \A g : HandlerDue(g)' <=> HandlerDue(g)
      /\ \A g : g # f /\ DevicesDue(g) => DevicesDue(g)'
  BY <1>2, <1>3 DEF PlanInv, Plan, Idle, Part, DevicesDue, HandlerDue
<1>5. \A g \in Live(dev) : DueOrDone(g) /\ g \in Listed(dev) /\ g \in Fn
  BY <1>2 DEF PlanInv, Live, Listed
<1>6. AbsentIsBlank /\ OnlyOnce
  BY DEF PlanInv
<1>7. Up(dev'[f]) /\ Moved(dev, seen, dev', seen', f) /\ Tried(dev, dev', seen', f)
  BY <1>1, <1>2, ResetsOneGives
<1>8. /\ \A g \in Fn : g # f => dev'[g] = dev[g] \/ dev'[g] = Cleaned(dev[g])
      /\ \A g \in Fn : Tamer(dev[g], dev'[g])
      /\ seen.refused => seen'.refused
      /\ seen'.hits = seen.hits \/ (seen'.hits = seen.hits + 1 /\ ~Others(dev, f))
  BY <1>7 DEF Moved
<1>9. Listed(dev') = Listed(dev) /\ Live(dev') = Live(dev)
  BY <1>8 DEF Tamer, Listed, Live
<1>10. /\ TwoListed' <=> TwoListed
       /\ \A g : (CanReset(g)' <=> CanReset(g)) /\ (ByItself(g)' <=> ByItself(g))
  BY <1>3, <1>9, BusStaysOurs
<1>11. TwoListed <=> Others(dev, f)
  BY <1>2, OneOrTwo
<1>12. AbsentIsBlank'
  <2> SUFFICES ASSUME NEW g \in Fn, dev'[g].st = "absent" PROVE dev'[g] = Absent
    BY DEF AbsentIsBlank
  <2>1. dev[g].st = "absent" /\ g # f
    BY <1>2, <1>8 DEF Tamer, Listed
  <2> QED BY <1>6, <1>8, <2>1, BlankStays DEF AbsentIsBlank
<1>13. OnlyOnce'
  <2>1. CASE seen'.hits = seen.hits
    BY <1>2, <1>3, <1>4, <1>6, <1>10, <2>1 DEF OnlyOnce
  <2>2. CASE seen'.hits = seen.hits + 1 /\ ~Others(dev, f)
    <3>1. ~TwoListed /\ seen.hits = 0
      BY <1>2, <1>6, <1>11, <2>2 DEF OnlyOnce
    <3>2. todo' = {}
      BY <1>1, <1>3, <2>2 DEF Others
    <3> QED BY <1>2, <1>3, <1>4, <1>10, <2>2, <3>1, <3>2 DEF OnlyOnce
  <2> QED BY <1>8, <2>1, <2>2
<1>14. ASSUME NEW g \in Live(dev) PROVE DueOrDone(g)'
  <2>1. DueOrDone(g) /\ (dev'[g].dirty => dev[g].dirty) /\ g \in Fn
    BY <1>5, <1>8 DEF Tamer
  <2>2. CASE g # f
    <3>1. dev'[g] = dev[g] \/ dev'[g] = Cleaned(dev[g])
      BY <1>8, <2>1, <2>2
    <3>2. dev[g] \in Device
      BY <1>1, <2>1 DEF Devices
    <3>3. Up(dev[g]) => Up(dev'[g])
      BY <3>1, <3>2 DEF Cleaned, Device, Up
    <3> QED BY <1>4, <1>8, <1>10, <2>1, <2>2, <3>3 DEF DueOrDone
  <2>3. CASE g = f
    <3>1. CASE ByItself(f)
      <4>1. dev'[f].dirty => seen'.refused \/ ~CanReset(f)
        BY <1>7, <1>11, <3>1, CanBeReset DEF Tried, ByItself
      <4> QED BY <1>7, <1>10, <2>3, <4>1 DEF DueOrDone
    <3>2. CASE ~ByItself(f)
      BY <1>4, <1>7, <1>8, <1>10, <2>1, <2>3, <3>2 DEF DueOrDone
    <3> QED BY <3>1, <3>2
  <2> QED BY <2>2, <2>3
<1> QED BY <1>4, <1>9, <1>12, <1>13, <1>14 DEF PlanInv

LEMMA PlanInvInit == Init => PlanInv
<1> SUFFICES ASSUME Init PROVE PlanInv
  OBVIOUS
<1>1. Idle /\ parts = <<>> /\ seen.hits = 0
  BY DEF Init, Idle, Nothing
<1>2. \A f \in Fn : dev[f] = Absent
  BY DEF Init
<1> QED BY <1>1, <1>2 DEF PlanInv, Plan, OnlyOnce, AbsentIsBlank

LEMMA PlanInvNext == ResetInv /\ PlanInv /\ [Next]_vars => PlanInv'
<1> SUFFICES ASSUME ResetInv, PlanInv, [Next]_vars PROVE PlanInv'
  OBVIOUS
<1>1. CASE UNCHANGED vars
  <2>1. hw' = hw /\ dev' = dev /\ parts' = parts /\ todo' = todo /\ seen' = seen
    BY <1>1 DEF vars
  <2>2. /\ TwoListed' <=> TwoListed
        /\ \A g : (CanReset(g)' <=> CanReset(g)) /\ (ByItself(g)' <=> ByItself(g))
    BY <2>1, BusStaysOurs
  <2>3. ASSUME NEW g \in Live(dev), DueOrDone(g) PROVE DueOrDone(g)'
    BY <2>1, <2>2, <2>3 DEF DueOrDone, DevicesDue, HandlerDue, Part
  <2>4. OnlyOnce'
    BY <2>1, <2>2 DEF PlanInv, OnlyOnce, Idle, Part
  <2> QED BY <2>1, <2>3, <2>4 DEF PlanInv, Plan, AbsentIsBlank, Idle
<1>2. ASSUME NEW f \in Fn, \/ Realize(f) \/ RealizeFails(f) \/ Exit(f) \/ Finalize(f)
                           \/ GuestUses(f) \/ NicReset(f)
                           \/ HandlerResets(f) \/ DeviceResets(f)
      PROVE  PlanInv'
  BY <1>2, RealizeKeepsPlan, ExitKeepsPlan, SmallStepsKeepPlan, NicResetKeepsPlan,
     HandlerResetsKeepsPlan, DeviceResetsKeepsPlan
<1>3. CASE StartReset
  BY <1>3, StartKeepsPlan
<1>4. CASE PartEnds
  BY <1>4, PartEndsKeepsPlan
<1> QED BY <1>1, <1>2, <1>3, <1>4 DEF Next

LEMMA PlanAlways == Spec => [](ResetInv /\ PlanInv)
<1>1. Init => ResetInv /\ PlanInv
  BY ResetInvInit, PlanInvInit
<1>2. ResetInv /\ PlanInv /\ [Next]_vars => (ResetInv /\ PlanInv)'
  BY ResetInvNext, PlanInvNext
<1> QED BY <1>1, <1>2, PTL DEF Spec

\* The machine's reset resets a bus at most once, whatever order the handler and the
\* devices' bus were registered in: the marks that vfio_pci_hot_reset clears keep the
\* handler from a second one, and "single" keeps a device's own reset from one that the
\* handler has done or will do.
THEOREM ResetsOnce == Spec => []NoDoubleReset
<1>1. ResetInv /\ PlanInv => NoDoubleReset
  BY DEF PlanInv, OnlyOnce, NoDoubleReset, ResetInv, Typed, History
<1> QED BY <1>1, PlanAlways, PTL

\* The reset of the machine ends when its last part does.
LEMMA EndIsComplete ==
    ASSUME ResetInv, PlanInv, PartEnds, parts' = <<>>, NEW f \in Live(dev)
    PROVE  /\ dev'[f].irq = "intx" /\ dev'[f].act = "quiet"
           /\ dev'[f].dirty => seen.refused \/ ~CanReset(f)
<1>1. ~Idle /\ todo = {} /\ Enters(dev, Tail(parts)) /\ DueOrDone(f)
  BY DEF PartEnds, PlanInv, Idle
<1>2. Tail(parts) = <<>> /\ dev' = dev
  BY <1>1 DEF Enters
<1>3. parts # <<"handler", "devices">> /\ parts # <<"devices", "handler">>
  BY <1>2
<1>4. ~DevicesDue(f) /\ ~HandlerDue(f)
  BY <1>1, <1>3 DEF DevicesDue, HandlerDue
<1> QED BY <1>1, <1>2, <1>4 DEF DueOrDone, Up

\* At its end every device has INTx and does nothing, and is clean, if it or its bus can
\* be reset and the kernel refused nothing.
THEOREM ResetsAll == Spec => ResetIsComplete
<1>1. ResetInv /\ PlanInv /\ [Next]_vars =>
        [~Idle /\ parts' = <<>> =>
           \A f \in Live(dev) : /\ dev'[f].irq = "intx" /\ dev'[f].act = "quiet"
                                /\ dev'[f].dirty => seen.refused \/ ~CanReset(f)]_vars
  <2> SUFFICES ASSUME ResetInv, PlanInv, Next, ~Idle, parts' = <<>>, NEW f \in Live(dev)
               PROVE  /\ dev'[f].irq = "intx" /\ dev'[f].act = "quiet"
                      /\ dev'[f].dirty => seen.refused \/ ~CanReset(f)
    OBVIOUS
  <2>1. PartEnds
    BY DEF Next, Idle, Realize, RealizeFails, Exit, Finalize, GuestUses, NicReset,
           HandlerResets, DeviceResets, StartReset
  <2> QED BY <2>1, EndIsComplete
<1> QED BY <1>1, PlanAlways, PTL DEF Spec, ResetIsComplete

\* A reset of one device outside of a machine's reset.
LEMMA OneIsUndisturbed ==
    ASSUME ResetInv, PlanInv, NEW d \in Devices, NEW f \in Listed(d), OnBus(d),
           \A g \in Fn : g # f => d[g] = dev[g],
           ResetsOne(d, f), NEW g \in Fn, g # f
    PROVE  dev'[g] = dev[g]
<1>1. /\ seen \in History /\ ~seen.torn /\ hw \in Machines
      /\ dev[g].st = "absent" => dev[g] = Absent
  BY DEF ResetInv, Typed, BusResetIsPrepared, PlanInv, AbsentIsBlank
<1>2. dev'[g] = d[g] \/ (~Others(d, f) /\ dev'[g] = Cleaned(d[g]))
  BY <1>1, ResetsOneGives
<1>3. ~Others(d, f) => d[g].st = "absent"
  BY DEF Others, Listed
<1> QED BY <1>1, <1>2, <1>3, BlankStays

\* Plugging, using, resetting and removing one device outside of a machine's reset leaves
\* its neighbours alone: a bus reset is only done where there are none.
THEOREM NeighboursUndisturbed == Spec => OthersUndisturbed
<1>1. ResetInv /\ PlanInv /\ [Next]_vars =>
        [Idle /\ parts' = <<>> =>
           \A f, g \in Fn : dev'[f] # dev[f] /\ dev'[g] # dev[g] => f = g]_vars
  <2> SUFFICES ASSUME ResetInv, PlanInv, Next, Idle, parts' = <<>>
               PROVE  \A f, g \in Fn : dev'[f] # dev[f] /\ dev'[g] # dev[g] => f = g
    OBVIOUS
  <2> SUFFICES ASSUME NEW f \in Fn, \/ Realize(f) \/ RealizeFails(f) \/ Exit(f) \/ Finalize(f)
                                    \/ GuestUses(f) \/ NicReset(f)
               PROVE  \A g \in Fn : g # f => dev'[g] = dev[g]
    <3>1. ~StartReset
      BY DEF StartReset, Enters
    <3>2. ~PartEnds /\ \A f \in Fn : ~HandlerResets(f) /\ ~DeviceResets(f)
      BY DEF PartEnds, HandlerResets, DeviceResets, Idle
    <3> QED BY <3>1, <3>2 DEF Next
  <2>1. dev \in Devices /\ OnBus(dev)
    BY DEF ResetInv, Typed, Work
  <2>2. CASE RealizeFails(f) \/ Exit(f) \/ Finalize(f) \/ GuestUses(f)
    BY <2>1, <2>2 DEF RealizeFails, Exit, Finalize, GuestUses, Devices
  <2>3. CASE NicReset(f)
    BY <2>1, <2>3, OneIsUndisturbed DEF NicReset, Listed
  <2>4. CASE Realize(f)
    <3>1. PICK dirty \in BOOLEAN :
            LET d == [dev EXCEPT ![f] = [Absent EXCEPT !.st = "live", !.irq = "intx",
                                                       !.dirty = dirty]]
            IN  (dev' = d /\ UNCHANGED seen) \/ ResetsOne(d, f)
      BY <2>4 DEF Realize
    <3> DEFINE e == [Absent EXCEPT !.st = "live", !.irq = "intx", !.dirty = dirty]
               d == [dev EXCEPT ![f] = e]
    <3>2. e \in Device /\ e.st = "live"
      BY DEF Absent, Device
    <3>3. dev' = d \/ ResetsOne(d, f)
      BY <3>1
    <3> HIDE DEF e
    <3>4. d \in Devices /\ d[f].st = "live" /\ \A g \in Fn : g # f => d[g] = dev[g]
      BY <2>1, <3>2 DEF Devices
    <3> HIDE DEF d
    <3>5. OnBus(d) /\ f \in Listed(d)
      BY <2>1, <2>4, <3>4 DEF OnBus, Listed, Realize
    <3> QED BY <3>3, <3>4, <3>5, OneIsUndisturbed
  <2> QED BY <2>2, <2>3, <2>4
<1> QED BY <1>1, PlanAlways, PTL DEF Spec, OthersUndisturbed

-----------------------------------------------------------------------------
(* The life of a device *)

Working == {"err", "req", "live"}

\* The steps at which a thing may be held.
Held ==
    /\ held \subseteq {"device", "regions", "bits", "msix", "bars", "msi", "timer", "intx"}
    /\ "bars"  \in held => stage \in {"caps", "intx"} \cup Working
    /\ "msi"   \in held => stage \in {"intx"} \cup Working
    /\ "intx"  \in held => stage \in Working
    /\ "timer" \in held => stage \in {"failed", "freed"} \cup Working
    /\ stage = "freed" => held \subseteq {"timer"}

Notified ==
    /\ stage \notin {"req", "live"} => handlers = {} /\ events = {}

DeviceInv == Held /\ Notified

LEMMA DeviceInvInit == D!Init => DeviceInv
  BY DEF D!Init, D!Starts, DeviceInv, Held, Notified, Working

LEMMA HeldNext == ASSUME DeviceInv, [D!Next]_(D!vars) PROVE Held'
<1> USE DEF DeviceInv, Held, Working
<1>1. CASE D!Open
  BY <1>1 DEF D!Open, D!Does
<1>2. CASE D!Populate
  BY <1>2 DEF D!Populate, D!Does
<1>3. CASE D!SetIds
  BY <1>3 DEF D!SetIds, D!Does
<1>4. CASE D!EarlySetup
  BY <1>4 DEF D!EarlySetup, D!Does
<1>5. CASE D!BarsSetup
  BY <1>5 DEF D!BarsSetup, D!Does
<1>6. CASE D!AddCapabilities
  BY <1>6 DEF D!AddCapabilities, D!Does, D!Teardown
<1>7. CASE D!EnableIntx
  BY <1>7 DEF D!EnableIntx, D!Does, D!Teardown
<1>8. CASE D!RegisterErr \/ D!RegisterReq
  BY <1>8 DEF D!RegisterErr, D!RegisterReq, D!Registers
<1>9. CASE D!Exit
  BY <1>9 DEF D!Exit, D!Teardown
<1>10. CASE D!Finalize
  BY <1>10 DEF D!Finalize
<1>11. CASE D!ErrHandler \/ D!ReqHandler
  BY <1>11 DEF D!ErrHandler, D!ReqHandler
<1>12. ASSUME NEW n \in {"err", "req"}, D!Signals(n) PROVE Held'
  BY <1>12 DEF D!Signals
<1>13. CASE UNCHANGED D!vars
  BY <1>13 DEF D!vars
<1> QED
  BY <1>1, <1>2, <1>3, <1>4, <1>5, <1>6, <1>7, <1>8, <1>9, <1>10, <1>11, <1>12, <1>13
     DEF D!Next, D!Realize

LEMMA NotifiedNext == ASSUME DeviceInv, [D!Next]_(D!vars) PROVE Notified'
<1> USE DEF DeviceInv, Notified
<1>1. CASE D!Realize
  BY <1>1 DEF D!Realize, D!Open, D!Populate, D!SetIds, D!EarlySetup, D!BarsSetup, D!AddCapabilities,
              D!EnableIntx, D!RegisterErr, D!RegisterReq, D!Registers, D!Does, D!live
<1>2. CASE D!Exit
  BY <1>2 DEF D!Exit, D!ExitHandlers
<1>3. CASE D!Finalize
  BY <1>3 DEF D!Finalize
<1>4. CASE D!ErrHandler \/ D!ReqHandler
  BY <1>4 DEF D!ErrHandler, D!ReqHandler
<1>5. ASSUME NEW n \in {"err", "req"}, D!Signals(n) PROVE Notified'
  BY <1>5 DEF D!Signals
<1>6. CASE UNCHANGED D!vars
  BY <1>6 DEF D!vars
<1> QED BY <1>1, <1>2, <1>3, <1>4, <1>5, <1>6 DEF D!Next

\* When the object is gone the host's device is free and the main loop has no handler of
\* it, from whatever step of vfio_realize it was undone.
THEOREM NothingIsKept == D!Spec => []FreedHoldsNothing
<1>1. DeviceInv => FreedHoldsNothing
  BY DEF DeviceInv, Held, Notified, Working, FreedHoldsNothing, D!FreedHoldsNothing
<1>2. DeviceInv /\ [D!Next]_(D!vars) => DeviceInv'
  BY HeldNext, NotifiedNext DEF DeviceInv
<1> QED BY <1>1, <1>2, DeviceInvInit, PTL DEF D!Spec

-----------------------------------------------------------------------------
(* The MSI-X table *)

Whole == <<<<0, card.bar>>>>

\* What is mapped once the pages with the table are cut out.
Cut ==
    LET start == D!RoundDown(card.table)
        end   == D!RoundUp(card.table + card.entries)
    IN  IF start = 0 THEN IF end >= card.bar THEN <<>> ELSE <<<<end, card.bar - end>>>>
        ELSE IF end >= card.bar THEN <<<<0, start>>>>
        ELSE <<<<0, start>>, <<end, card.bar - end>>>>

CutSteps == {"bars", "caps", "intx"} \cup Working

TableInv ==
    /\ card \in Cards
    /\ stage \in {"open", "populate", "ids", "msix"} => mmaps = Whole
    /\ stage \in CutSteps => mmaps = IF card.entries = 0 THEN Whole ELSE Cut
    /\ stage \in {"intx"} \cup Working =>
         card.entries = 0 \/ card.table + card.entries <= card.bar

LEMMA HalfBounds ==
    ASSUME NEW n \in Nat
    PROVE  n \div 2 \in Nat /\ 2 * (n \div 2) <= n /\ n <= 2 * (n \div 2) + 1
  OBVIOUS

\* A page holds an entry iff it lies between the first and the last entry's pages.
LEMMA PagesOfTable ==
    ASSUME NEW table \in Nat, NEW entries \in Nat \ {0}, NEW bar \in Nat,
           table + entries <= bar, NEW u \in 0..(bar - 1)
    PROVE  (\E t \in 0..(bar - 1) : (table <= t /\ t < table + entries) /\ t \div 2 = u \div 2)
             <=> (table \div 2) * 2 <= u /\ u < ((table + entries + 1) \div 2) * 2
<1> DEFINE last == table + entries - 1
           q == u \div 2
<1>1. last \in Nat /\ last + 2 = table + entries + 1 /\ last < bar
  OBVIOUS
<1>2. (table + entries + 1) \div 2 = last \div 2 + 1
  <2>1. (last + 2) \div 2 = last \div 2 + 1
    BY <1>1
  <2> QED BY <1>1, <2>1
<1>3. q \in Nat /\ 2 * q <= u /\ u <= 2 * q + 1
  BY HalfBounds
<1>4. table \div 2 \in Nat /\ 2 * (table \div 2) <= table /\ table <= 2 * (table \div 2) + 1
  BY HalfBounds
<1>5. last \div 2 \in Nat /\ 2 * (last \div 2) <= last /\ last <= 2 * (last \div 2) + 1
  BY HalfBounds, <1>1
<1>6. (table \div 2) * 2 <= u /\ u < (last \div 2 + 1) * 2
        <=> table \div 2 <= q /\ q <= last \div 2
  <2> DEFINE a == table \div 2
             b == last \div 2
  <2>1. a \in Nat /\ b \in Nat
    BY <1>4, <1>5
  <2> HIDE DEF a, b, q
  <2> QED BY <2>1, <1>3
<1>7. ASSUME NEW t \in 0..(bar - 1), table <= t, t < table + entries, t \div 2 = q
      PROVE  table \div 2 <= q /\ q <= last \div 2
  <2>1. t \div 2 \in Nat /\ 2 * (t \div 2) <= t /\ t <= 2 * (t \div 2) + 1
    BY HalfBounds
  <2> DEFINE a == table \div 2
             b == last \div 2
  <2>2. a \in Nat /\ b \in Nat
    BY <1>4, <1>5
  <2>3. t <= last
    BY <1>7
  <2> HIDE DEF a, b, q, last
  <2> QED BY <1>1, <1>4, <1>5, <1>3, <1>7, <2>1, <2>2, <2>3 DEF a, b
<1>8. ASSUME table \div 2 <= q, q <= last \div 2
      PROVE  \E t \in 0..(bar - 1) : (table <= t /\ t < table + entries) /\ t \div 2 = q
  <2>1. CASE table <= 2 * q
    <3>1. 2 * q <= last
      BY <1>3, <1>5, <1>8
    <3>2. (2 * q) \div 2 = q
      BY <1>3
    <3>3. 2 * q \in 0..(bar - 1) /\ 2 * q < table + entries
      BY <1>1, <1>3, <3>1
    <3> HIDE DEF q
    <3> QED BY <2>1, <3>2, <3>3
  <2>2. CASE ~(table <= 2 * q)
    <3>1. table \div 2 = q
      BY <1>3, <1>4, <1>8, <2>2
    <3>2. table \in 0..(bar - 1)
      BY <1>1
    <3> QED BY <3>1, <3>2
  <2> QED BY <2>1, <2>2
<1> QED BY <1>2, <1>6, <1>7, <1>8

LEMMA TableInvInit == D!Init => TableInv
  BY DEF D!Init, D!Starts, TableInv, Whole, CutSteps, Working

LEMMA FixupIsCut == ASSUME mmaps = Whole PROVE D!FixupMmaps = Cut
  BY DEF D!FixupMmaps, Cut, Whole

LEMMA TableInvNext == TableInv /\ [D!Next]_(D!vars) => TableInv'
<1> SUFFICES ASSUME TableInv, [D!Next]_(D!vars) PROVE TableInv'
  OBVIOUS
<1>1. CASE D!EarlySetup
  BY <1>1, FixupIsCut DEF D!EarlySetup, D!Does, TableInv, Whole,
              Cut, CutSteps, Working
<1>2. CASE D!Realize /\ ~D!EarlySetup
  BY <1>2 DEF D!Realize, D!Open, D!Populate, D!SetIds, D!BarsSetup, D!AddCapabilities,
              D!EnableIntx, D!RegisterErr, D!RegisterReq, D!Registers, D!Does, TableInv, Whole,
              Cut, CutSteps, Working
<1>3. CASE D!Exit \/ D!Finalize
  BY <1>3 DEF D!Exit, D!Rest, D!Finalize, TableInv, Whole, Cut, CutSteps, Working
<1>4. CASE D!ErrHandler \/ D!ReqHandler
  BY <1>4 DEF D!ErrHandler, D!ReqHandler, TableInv, Whole, Cut
<1>5. ASSUME NEW n \in {"err", "req"}, D!Signals(n) PROVE TableInv'
  BY <1>5 DEF D!Signals, TableInv, Whole, Cut
<1>6. CASE UNCHANGED D!vars
  BY <1>6 DEF D!vars, TableInv, Whole, Cut
<1> QED BY <1>1, <1>2, <1>3, <1>4, <1>5, <1>6 DEF D!Next

LEMMA RoundBounds ==
    ASSUME NEW t \in Nat, NEW e \in Nat
    PROVE  /\ D!RoundDown(t) \in Nat /\ D!RoundUp(t + e) \in Nat
           /\ D!RoundDown(t) = (t \div 2) * 2
           /\ D!RoundUp(t + e) = ((t + e + 1) \div 2) * 2
  BY DEF D!RoundDown, D!RoundUp, D!Page

\* What is mapped are the pages below the first and above the last page of the table.
LEMMA CutMaps ==
    ASSUME card.bar \in Nat, card.table \in Nat, card.entries \in Nat, mmaps = Cut,
           NEW u \in 0..(card.bar - 1)
    PROVE  D!Mapped(u) <=> ~(D!RoundDown(card.table) <= u
                             /\ u < D!RoundUp(card.table + card.entries))
<1> DEFINE start == D!RoundDown(card.table)
           end   == D!RoundUp(card.table + card.entries)
<1>1. start \in Nat /\ end \in Nat
  BY RoundBounds
<1>2. start <= end
  BY RoundBounds
<1>3. mmaps = IF start = 0 THEN IF end >= card.bar THEN <<>> ELSE <<<<end, card.bar - end>>>>
              ELSE IF end >= card.bar THEN <<<<0, start>>>>
              ELSE <<<<0, start>>, <<end, card.bar - end>>>>
  BY DEF Cut
<1> HIDE DEF start, end
<1>4. CASE start = 0 /\ end >= card.bar
  BY <1>1, <1>3, <1>4 DEF D!Mapped, start, end
<1>5. CASE start = 0 /\ ~(end >= card.bar)
  <2>1. mmaps = <<<<end, card.bar - end>>>>
    BY <1>3, <1>5
  <2>2. DOMAIN mmaps = {1} /\ mmaps[1][1] = end /\ mmaps[1][2] = card.bar - end
    BY <2>1
  <2>3. D!Mapped(u) <=> end <= u
    BY <1>1, <1>5, <2>2 DEF D!Mapped
  <2> QED BY <1>1, <1>5, <2>3 DEF start, end
<1>6. CASE start # 0 /\ end >= card.bar
  <2>1. mmaps = <<<<0, start>>>>
    BY <1>3, <1>6
  <2>2. DOMAIN mmaps = {1} /\ mmaps[1][1] = 0 /\ mmaps[1][2] = start
    BY <2>1
  <2>3. D!Mapped(u) <=> u < start
    BY <1>1, <1>6, <2>2 DEF D!Mapped
  <2> QED BY <1>1, <1>6, <2>3 DEF start, end
<1>7. CASE start # 0 /\ ~(end >= card.bar)
  <2>1. mmaps = <<<<0, start>>, <<end, card.bar - end>>>>
    BY <1>3, <1>7
  <2>2. /\ DOMAIN mmaps = {1, 2} /\ mmaps[1][1] = 0 /\ mmaps[1][2] = start
        /\ mmaps[2][1] = end /\ mmaps[2][2] = card.bar - end
    BY <2>1
  <2>3. D!Mapped(u) <=> u < start \/ end <= u
    BY <1>1, <1>7, <2>2 DEF D!Mapped
  <2> QED BY <1>1, <1>7, <2>3 DEF start, end
<1> QED BY <1>1, <1>4, <1>5, <1>6, <1>7

LEMMA WholeMaps ==
    ASSUME card.bar \in Nat, mmaps = Whole, NEW u \in 0..(card.bar - 1)
    PROVE  D!Mapped(u)
<1>1. DOMAIN mmaps = {1} /\ mmaps[1][1] = 0 /\ mmaps[1][2] = card.bar
  BY DEF Whole
<1> QED BY <1>1 DEF D!Mapped

LEMMA TableInvTraps == TableInv => TableIsTrapped
<1> SUFFICES ASSUME TableInv, stage = "live", NEW u \in 0..(card.bar - 1)
             PROVE  D!Mapped(u) <=> ~\E t \in 0..(card.bar - 1) :
                                      D!InTable(t) /\ t \div D!Page = u \div D!Page
  BY DEF TableIsTrapped, D!TableIsTrapped
<1>1. card.bar \in Nat /\ card.table \in Nat /\ card.entries \in Nat
  BY CardsAssumption DEF TableInv
<1>2. mmaps = IF card.entries = 0 THEN Whole ELSE Cut
  BY DEF TableInv, CutSteps, Working
<1>3. CASE card.entries = 0
  <2>1. \A t \in 0..(card.bar - 1) : ~D!InTable(t)
    BY <1>1, <1>3 DEF D!InTable
  <2> QED BY <1>1, <1>2, <1>3, <2>1, WholeMaps
<1>4. CASE card.entries # 0
  <2>1. card.table + card.entries <= card.bar
    BY <1>4 DEF TableInv, Working
  <2>2. (\E t \in 0..(card.bar - 1) :
            (card.table <= t /\ t < card.table + card.entries) /\ t \div 2 = u \div 2)
          <=> (card.table \div 2) * 2 <= u
                /\ u < ((card.table + card.entries + 1) \div 2) * 2
    BY <1>1, <1>4, <2>1, PagesOfTable
  <2>3. D!Mapped(u) <=> ~(D!RoundDown(card.table) <= u
                          /\ u < D!RoundUp(card.table + card.entries))
    BY <1>1, <1>2, <1>4, CutMaps
  <2>4. /\ D!RoundDown(card.table) = (card.table \div 2) * 2
        /\ D!RoundUp(card.table + card.entries) = ((card.table + card.entries + 1) \div 2) * 2
    BY <1>1, RoundBounds
  <2> QED BY <2>2, <2>3, <2>4 DEF D!InTable, D!Page
<1> QED BY <1>3, <1>4

\* The guest reaches, of a realized device, exactly the pages without an entry of the
\* MSI-X table behind QEMU's back: vfio_pci_fixup_msix_region cuts the table's pages out
\* of the mapped BAR, and a table beyond the BAR does not get past vfio_add_capabilities.
THEOREM TableStaysTrapped == D!Spec => []TableIsTrapped
<1>1. TableInv => TableIsTrapped
  BY TableInvTraps
<1> QED BY <1>1, TableInvInit, TableInvNext, PTL DEF D!Spec

-----------------------------------------------------------------------------
(* The chains of capabilities: numbers and lists *)

Below == {p \in Nat \X Nat : p[1] < p[2]}

\* What induction rests on: a set of numbers that is not empty has a least one.
LEMMA LeastNumber ==
    ASSUME NEW S, S \subseteq Nat, S # {}
    PROVE  \E n \in S : \A k \in S : n <= k
<1>1. IsWellFoundedOn(Below, Nat)
  BY NatLessThanWellFounded DEF OpToRel, Below
<1>2. PICK n \in S : \A k \in S : ~(<<k, n>> \in Below)
  BY <1>1, WFMin
<1>3. \A k \in S : ~(k < n)
  BY <1>2 DEF Below
<1> QED
  BY <1>3

LEMMA MinGives ==
    ASSUME NEW S, S \subseteq Nat, S # {}
    PROVE  C!Min(S) \in S /\ \A k \in S : C!Min(S) <= k
<1>1. \E n \in S : \A k \in S : n <= k
  BY LeastNumber
<1> QED
  BY <1>1 DEF C!Min

LEMMA NextIs ==
    ASSUME NEW c, NEW K, K \subseteq Nat, NEW i \in Nat, NEW j \in K, j > i,
           \A k \in K : k > i => j <= k
    PROVE  C!NextOf(c, K, i) = c[j].pos
<1> DEFINE behind == {k \in K : k > i}
<1>1. behind \subseteq Nat /\ j \in behind
  OBVIOUS
<1>2. C!Min(behind) \in behind /\ C!Min(behind) <= j
  BY <1>1, MinGives
<1>3. C!Min(behind) = j
  BY <1>1, <1>2
<1> QED
  BY <1>1, <1>3 DEF C!NextOf

LEMMA NextIsNone ==
    ASSUME NEW c, NEW K, NEW i, \A k \in K : ~(k > i)
    PROVE  C!NextOf(c, K, i) = 0
BY DEF C!NextOf

\* The next one is some capability with none of K between, or there is none.
LEMMA NextGives ==
    ASSUME NEW c, NEW K, K \subseteq Nat, NEW i \in Nat
    PROVE  \/ (\A k \in K : ~(k > i)) /\ C!NextOf(c, K, i) = 0
           \/ \E j \in K : /\ j > i /\ \A k \in K : k > i => j <= k
                           /\ C!NextOf(c, K, i) = c[j].pos
<1> DEFINE behind == {k \in K : k > i}
<1>1. CASE behind = {}
  BY <1>1, NextIsNone
<1>2. CASE behind # {}
  <2>1. PICK j \in behind : \A k \in behind : j <= k
    BY <1>2, LeastNumber
  <2>2. C!NextOf(c, K, i) = c[j].pos
    BY <2>1, NextIs
  <2> QED
    BY <2>1, <2>2
<1> QED
  BY <1>1, <1>2

LEMMA FirstIs ==
    ASSUME NEW c, NEW K, K \subseteq Nat, 1 \in K, c[1].pos = 1
    PROVE  C!NextOf(c, K, 0) = 1
<1>1. \A i \in Nat : i > 0 => 1 <= i
  OBVIOUS
<1>2. \A i \in K : i > 0 => 1 <= i
  BY <1>1
<1>3. 0 \in Nat /\ 1 > 0
  OBVIOUS
<1>4. C!NextOf(c, K, 0) = c[1].pos
  BY <1>2, <1>3, NextIs
<1> QED
  BY <1>4

LEMMA ChainHas ==
    ASSUME NEW c, C!IsChain(c)
    PROVE  /\ Len(c) \in Nat /\ DOMAIN c = 1..Len(c)
           /\ \A i \in DOMAIN c : c[i].pos \in C!Pos /\ c[i].id # C!Stub
<1> DEFINE Cap == [pos : C!Pos, id : STRING \ {C!Stub}]
<1>1. c \in Seq(Cap)
  BY DEF C!IsChain
<1>2. /\ Len(c) \in Nat /\ DOMAIN c = 1..Len(c)
      /\ \A i \in DOMAIN c : c[i] \in Cap
  <2> HIDE DEF Cap
  <2> QED
    BY <1>1
<1>3. \A e \in Cap : e.pos \in C!Pos /\ e.id # C!Stub
  OBVIOUS
<1> HIDE DEF Cap
<1> QED
  BY <1>2, <1>3

\* What pointers that lead to the capabilities K reach are the places of K.
LEMMA ChainIs ==
    ASSUME NEW c, C!IsChain(c), NEW K, K \subseteq DOMAIN c, NEW head, NEW next,
           C!Leads(head, next, c, K)
    PROVE  C!Chain(head, next) = {c[i].pos : i \in K}
<1> DEFINE T == {c[i].pos : i \in K}
<1>1. K \subseteq Nat /\ T \subseteq C!Pos /\ 0 \in Nat
  BY ChainHas
<1>2. ASSUME NEW i \in Nat PROVE C!NextOf(c, K, i) \in T \cup {0}
  BY <1>1, NextGives
<1>3. head \in T \cup {0} /\ \A q \in T : next[q] \in T \cup {0}
  BY <1>1, <1>2 DEF C!Leads
<1>4. C!Chain(head, next) \subseteq T
  <2> HIDE DEF T
  <2> QED
    BY <1>1, <1>3 DEF C!Chain
<1>5. ASSUME NEW S \in SUBSET C!Pos, head \in S \cup {0},
             \A q \in S : next[q] \in S \cup {0}
      PROVE  \A i \in K : c[i].pos \in S
  <2> DEFINE Bad == {i \in K : c[i].pos \notin S}
  <2> SUFFICES ASSUME Bad # {} PROVE FALSE
    OBVIOUS
  <2>1. PICK i \in Bad : \A k \in Bad : i <= k
    BY <1>1, LeastNumber
  <2>2. i \in K /\ i \in Nat \ {0} /\ c[i].pos \in C!Pos /\ c[i].pos # 0
    BY <1>1, <2>1, ChainHas DEF C!Pos
  <2> DEFINE Back == {d \in Nat \ {0} : i - d \in K \cup {0}}
  <2>3. i \in Back
    BY <2>2
  <2>4. PICK d \in Back : \A e \in Back : d <= e
    BY <2>3, LeastNumber
  <2>5. /\ i - d \in K \cup {0} /\ i - d \in Nat /\ i > i - d
        /\ \A k \in K : k > i - d => i <= k
    <3>1. i - d \in K \cup {0} /\ i - d \in Nat /\ i > i - d
      BY <1>1, <2>2, <2>4
    <3>2. ASSUME NEW k \in K, k > i - d, k < i PROVE FALSE
      <4>1. i - k \in Nat \ {0} /\ i - (i - k) = k /\ i - k < d
        BY <1>1, <2>2, <3>1, <3>2
      <4>2. i - k \in Back
        BY <4>1
      <4> QED
        BY <2>4, <4>1, <4>2
    <3> QED
      BY <1>1, <2>2, <3>1, <3>2
  <2>6. C!NextOf(c, K, i - d) = c[i].pos
    BY <1>1, <2>2, <2>5, NextIs
  <2>7. CASE i - d = 0
    BY <1>5, <2>1, <2>2, <2>6, <2>7 DEF C!Leads
  <2>8. CASE i - d \in K /\ i - d # 0
    <3>1. next[c[i - d].pos] = c[i].pos
      BY <2>6, <2>8 DEF C!Leads
    <3>2. c[i - d].pos \in S
      <4>1. i - d \notin Bad
        BY <1>1, <2>1, <2>2, <2>5
      <4> QED
        BY <2>8, <4>1
    <3> QED
      BY <1>5, <2>1, <2>2, <3>1, <3>2
  <2> QED
    BY <2>5, <2>7, <2>8
<1>6. T \subseteq C!Chain(head, next)
  BY <1>1, <1>5 DEF C!Chain
<1> QED
  BY <1>4, <1>6

\* Places are found again.
LEMMA IndexIs ==
    ASSUME NEW c, C!IsChain(c), NEW i \in DOMAIN c
    PROVE  C!IndexOf(c, c[i].pos) = i /\ C!IdAt(c, c[i].pos) = c[i].id
<1>1. C!IndexOf(c, c[i].pos) = i
  BY DEF C!IndexOf, C!IsChain
<1> QED
  BY <1>1 DEF C!IdAt

-----------------------------------------------------------------------------
(* The walks over the chains *)

\* A config space is a record of maps of the positions.
IsSpace(s) ==
    /\ s = [head |-> s.head, next |-> s.next, xnext |-> s.xnext, xid |-> s.xid,
            type |-> s.type]
    /\ DOMAIN s.next = C!Pos /\ DOMAIN s.xnext = C!Pos /\ DOMAIN s.xid = C!Pos

\* The frame of the recursion for the i-th capability.
Frame(i) == [pos |-> chip.std[i].pos,
             size |-> C!MaxSize({chip.std[j].pos : j \in DOMAIN chip.std}, chip.std[i].pos)]
Frames(m) == [j \in 1..m |-> Frame(m + 1 - j)]

\* On the way down the chain is the device's.
GoingDown(m) ==
    /\ stack = Frames(m) /\ m < Len(chip.std)
    /\ at = chip.std[m + 1].pos /\ cfg = C!Copied(chip) /\ added = {}

\* On the way up the chain has what is kept behind the m-th.
GoingUp(m) ==
    /\ stack = Frames(m) /\ m <= Len(chip.std)
    /\ cfg.head = C!NextOf(chip.std, C!StdKept, m)
    /\ \A i \in C!StdKept : i > m =>
          cfg.next[chip.std[i].pos] = C!NextOf(chip.std, C!StdKept, i)
    /\ cfg.xnext = C!Copied(chip).xnext /\ cfg.xid = C!Copied(chip).xid

Sized == \A a \in added : \E i \in DOMAIN chip.std : a = Frame(i)

\* What of the extended chain is in front of the k-th, or its head.
ExtBefore(k) == {i \in C!ExtKept : i < k} \cup {1}

\* The extended chain has what is kept in front of the k-th, which is read next.
Ext(k) ==
    /\ k \in 1..(Len(chip.ext) + 1)
    /\ at = IF k <= Len(chip.ext) THEN chip.ext[k].pos ELSE 0
    /\ C!Leads(1, cfg.xnext, chip.ext, ExtBefore(k))
    /\ \A i \in C!ExtKept : i < k => cfg.xid[chip.ext[i].pos] = chip.ext[i].id
    /\ k = 1 \/ 1 \notin C!ExtKept => cfg.xid[1] = C!Stub
    /\ \A p \in C!Pos : p # 1 => cfg.xid[p] # C!Stub

ChainsInv ==
    /\ chip \in Chips /\ IsSpace(cfg) /\ cache = C!Copied(chip).xnext
    /\ walk = "down" => \E m \in Nat : GoingDown(m)
    /\ walk = "up" => \E m \in Nat : GoingUp(m)
    /\ walk = "ext" => chip.ext # <<>> /\ \E k \in Nat : Ext(k)
    /\ walk \in {"ext", "done"} => C!Leads(cfg.head, cfg.next, chip.std, C!StdKept)
    /\ walk \in {"up", "ext", "done"} => Sized
    /\ C!ExtMatches

LEMMA CopyIs ==
    ASSUME NEW c \in Chips
    PROVE  LET s == C!Copied(c)
           IN  /\ IsSpace(s)
               /\ s.head = IF c.std = <<>> THEN 0 ELSE c.std[1].pos
               /\ \A i \in DOMAIN c.std :
                     s.next[c.std[i].pos] = IF i < Len(c.std) THEN c.std[i + 1].pos ELSE 0
               /\ \A i \in DOMAIN c.ext :
                     /\ s.xnext[c.ext[i].pos] = IF i < Len(c.ext) THEN c.ext[i + 1].pos ELSE 0
                     /\ s.xid[c.ext[i].pos] = c.ext[i].id
               /\ \A p \in C!Pos : s.xid[p] # C!Stub
<1> DEFINE next(d) == [p \in C!Pos |-> IF \E i \in DOMAIN d : d[i].pos = p /\ i < Len(d)
                                         THEN d[C!IndexOf(d, p) + 1].pos ELSE 0]
           xid == [p \in C!Pos |-> IF \E i \in DOMAIN c.ext : c.ext[i].pos = p
                                     THEN C!IdAt(c.ext, p) ELSE C!Zero]
           s == C!Copied(c)
<1>1. C!IsChain(c.std) /\ C!IsChain(c.ext)
  BY ChipsAssumption
<1>2. s = [head |-> IF c.std = <<>> THEN 0 ELSE c.std[1].pos, next |-> next(c.std),
           xnext |-> next(c.ext), xid |-> xid, type |-> c.type]
  BY DEF C!Copied
<1>3. ASSUME NEW d, C!IsChain(d), NEW i \in DOMAIN d
      PROVE  next(d)[d[i].pos] = IF i < Len(d) THEN d[i + 1].pos ELSE 0
  <2>1. d[i].pos \in C!Pos /\ C!IndexOf(d, d[i].pos) = i
    BY <1>3, ChainHas, IndexIs
  <2>2. (\E j \in DOMAIN d : d[j].pos = d[i].pos /\ j < Len(d)) <=> i < Len(d)
    BY <1>3 DEF C!IsChain
  <2> QED
    BY <2>1, <2>2
<1>4. ASSUME NEW i \in DOMAIN c.ext PROVE xid[c.ext[i].pos] = c.ext[i].id
  BY <1>1, ChainHas, IndexIs
<1>5. ASSUME NEW p \in C!Pos PROVE xid[p] # C!Stub
  <2>1. CASE \E i \in DOMAIN c.ext : c.ext[i].pos = p
    <3>1. PICK i \in DOMAIN c.ext : c.ext[i].pos = p
      BY <2>1
    <3>2. xid[p] = c.ext[i].id
      BY <1>4, <3>1
    <3>3. c.ext[i].id # C!Stub
      BY <1>1, ChainHas
    <3> QED
      BY <3>2, <3>3
  <2>2. CASE ~\E i \in DOMAIN c.ext : c.ext[i].pos = p
    <3>1. xid[p] = C!Zero
      BY <2>2
    <3> QED
      BY <3>1 DEF C!Zero, C!Stub
  <2> QED
    BY <2>1, <2>2
<1>6. DOMAIN xid = C!Pos /\ \A d : DOMAIN next(d) = C!Pos
  OBVIOUS
<1> HIDE DEF next, xid
<1>7. IsSpace(s)
  BY <1>2, <1>6 DEF IsSpace
<1> QED
  BY <1>1, <1>2, <1>3, <1>4, <1>5, <1>7

LEMMA ChainsInvInit == C!Init => ChainsInv
<1> SUFFICES ASSUME C!Init PROVE ChainsInv
  OBVIOUS
<1>1. /\ chip \in Chips /\ cfg = C!Copied(chip) /\ IsSpace(cfg) /\ cache = cfg.xnext
      /\ C!IsChain(chip.std)
      /\ cfg.head = IF chip.std = <<>> THEN 0 ELSE chip.std[1].pos
  BY CopyIs, ChipsAssumption DEF C!Init
<1>2. CASE chip.std = <<>>
  <2>1. walk = "done" /\ cfg.head = 0
    BY <1>1, <1>2 DEF C!Init
  <2>2. C!Leads(cfg.head, cfg.next, chip.std, C!StdKept)
    BY <1>2, <2>1, NextIsNone DEF C!Leads, C!StdKept
  <2>3. Sized
    BY DEF C!Init, Sized
  <2> QED
    BY <1>1, <1>2, <2>1, <2>2, <2>3 DEF ChainsInv, C!ExtMatches
<1>3. CASE chip.std # <<>>
  <2>1. Len(chip.std) \in Nat /\ 1 \in DOMAIN chip.std /\ 0 < Len(chip.std)
        /\ chip.std[1].pos \in C!Pos
    <3>1. Len(chip.std) \in Nat /\ DOMAIN chip.std = 1..Len(chip.std)
      BY <1>1, ChainHas
    <3>2. Len(chip.std) # 0
      BY <1>1, <1>3 DEF C!IsChain
    <3> QED
      BY <1>1, <3>1, <3>2, ChainHas
  <2>2. walk = "down" /\ at = chip.std[1].pos
    BY <1>1, <1>3, <2>1 DEF C!Init, C!Pos
  <2>3. stack = Frames(0)
    BY DEF C!Init, Frames
  <2>4. GoingDown(0)
    BY <1>1, <2>1, <2>2, <2>3 DEF C!Init, GoingDown
  <2> QED
    BY <1>1, <2>2, <2>4 DEF ChainsInv, C!ExtMatches
<1> QED
  BY <1>2, <1>3

\* Frames of different capabilities lie apart.
LEMMA FramesApart ==
    ASSUME C!IsChain(chip.std), NEW i \in DOMAIN chip.std, NEW j \in DOMAIN chip.std,
           chip.std[i].pos < chip.std[j].pos
    PROVE  Frame(i).pos + Frame(i).size <= Frame(j).pos
<1> DEFINE p == chip.std[i].pos
           q == chip.std[j].pos
           behind == {r \in {chip.std[k].pos : k \in DOMAIN chip.std} \cup {End} : r > p}
<1>1. p \in Nat /\ q \in Nat /\ \A k \in DOMAIN chip.std : chip.std[k].pos \in Nat
  BY ChainHas DEF C!Pos
<1>2. behind \subseteq Nat /\ q \in behind
  BY <1>1, ChipsAssumption
<1>3. C!Min(behind) \in Nat /\ C!Min(behind) <= q
  BY <1>2, MinGives
<1>4. Frame(i).pos = p /\ Frame(i).size = C!Min(behind) - p /\ Frame(j).pos = q
  BY DEF Frame, C!MaxSize
<1> HIDE DEF behind, p, q
<1> QED
  BY <1>1, <1>3, <1>4

LEMMA SizedIsApart ==
    ASSUME C!IsChain(chip.std), Sized
    PROVE  \A a, b \in added : a # b => a.pos + a.size <= b.pos \/ b.pos + b.size <= a.pos
<1> SUFFICES ASSUME NEW a \in added, NEW b \in added, a # b
             PROVE  a.pos + a.size <= b.pos \/ b.pos + b.size <= a.pos
  OBVIOUS
<1>1. PICK i \in DOMAIN chip.std : a = Frame(i)
  BY DEF Sized
<1>2. PICK j \in DOMAIN chip.std : b = Frame(j)
  BY DEF Sized
<1>3. chip.std[i].pos # chip.std[j].pos
  BY <1>1, <1>2 DEF Frame
<1>4. chip.std[i].pos \in Nat /\ chip.std[j].pos \in Nat
  BY ChainHas DEF C!Pos
<1>5. chip.std[i].pos < chip.std[j].pos \/ chip.std[j].pos < chip.std[i].pos
  BY <1>3, <1>4
<1> QED
  BY <1>1, <1>2, <1>5, FramesApart

LEMMA MapIsList ==
    ASSUME NEW S, NEW k \in Nat, NEW f \in [1..k -> S]
    PROVE  f \in Seq(S) /\ Len(f) = k
OBVIOUS

\* A frame is put on the frames, and taken off.
LEMMA FramesGrow ==
    ASSUME NEW m \in Nat
    PROVE  <<Frame(m + 1)>> \o Frames(m) = Frames(m + 1)
<1> DEFINE S == {Frame(i) : i \in 1..(m + 1)}
           f == Frames(m)
           g == Frames(m + 1)
           x == Frame(m + 1)
<1>1. f \in [1..m -> S] /\ g \in [1..(m + 1) -> S] /\ x \in S
  BY DEF Frames
<1>2. f \in Seq(S) /\ Len(f) = m /\ <<x>> \in Seq(S) /\ g \in Seq(S) /\ Len(g) = m + 1
  <2> HIDE DEF f, g, x, S
  <2> QED
    BY <1>1, MapIsList
<1>3. \A j \in 1..m : f[j] = g[j + 1]
  BY DEF Frames
<1>4. g[1] = x
  BY DEF Frames
<1> HIDE DEF f, g, x, S
<1>5. <<x>> \o f \in Seq(S) /\ Len(<<x>> \o f) = m + 1
  BY <1>2
<1>6. \A j \in 1..(m + 1) : (<<x>> \o f)[j] = g[j]
  <2> SUFFICES ASSUME NEW j \in 1..(m + 1) PROVE (<<x>> \o f)[j] = g[j]
    OBVIOUS
  <2>1. CASE j = 1
    BY <1>2, <1>4, <2>1
  <2>2. CASE j # 1
    <3>1. j - 1 \in 1..m /\ (j - 1) + 1 = j
      BY <2>2
    <3>2. (<<x>> \o f)[j] = f[j - 1]
      BY <1>2, <2>2
    <3> QED
      BY <1>3, <3>1, <3>2
  <2> QED
    BY <2>1, <2>2
<1>7. <<x>> \o f = g
  BY <1>2, <1>5, <1>6
<1> QED
  BY <1>7 DEF f, g, x

LEMMA FramesShrink ==
    ASSUME NEW m \in Nat, Frames(m) # <<>>
    PROVE  m > 0 /\ Head(Frames(m)) = Frame(m) /\ Tail(Frames(m)) = Frames(m - 1)
<1>1. Frames(0) = <<>>
  BY DEF Frames
<1>2. m > 0
  BY <1>1
<1> DEFINE S == {Frame(i) : i \in 1..m}
           f == Frames(m)
           g == Frames(m - 1)
<1>3. m - 1 \in Nat /\ f \in [1..m -> S] /\ g \in [1..(m - 1) -> S]
  BY <1>2 DEF Frames
<1>4. f \in Seq(S) /\ Len(f) = m /\ g \in Seq(S) /\ Len(g) = m - 1
  <2> HIDE DEF f, g, S
  <2> QED
    BY <1>3, MapIsList
<1>5. f[1] = Frame(m) /\ \A j \in 1..(m - 1) : g[j] = f[j + 1]
  BY <1>2 DEF Frames
<1> HIDE DEF f, g, S
<1>6. Tail(f) \in Seq(S) /\ Len(Tail(f)) = m - 1 /\ \A j \in 1..(m - 1) : Tail(f)[j] = f[j + 1]
  BY <1>2, <1>4
<1>7. Tail(f) = g
  BY <1>4, <1>5, <1>6
<1>8. Head(f) = Frame(m)
  BY <1>2, <1>4, <1>5
<1> QED
  BY <1>2, <1>7, <1>8 DEF f, g

\* The device's pointers lead to all capabilities.
LEMMA CopyLeads ==
    ASSUME NEW c \in Chips
    PROVE  C!Leads(C!Copied(c).head, C!Copied(c).next, c.std, DOMAIN c.std)
<1> DEFINE d == c.std
           s == C!Copied(c)
           n == Len(d)
<1>1. C!IsChain(d) /\ n \in Nat /\ DOMAIN d = 1..n
  BY ChipsAssumption, ChainHas
<1>2. s.head = IF d = <<>> THEN 0 ELSE d[1].pos
  BY CopyIs
<1>3. \A i \in DOMAIN d : s.next[d[i].pos] = IF i < n THEN d[i + 1].pos ELSE 0
  BY CopyIs
<1>4. d = <<>> <=> n = 0
  BY <1>1 DEF C!IsChain
<1> HIDE DEF d, s, n
<1>5. ASSUME NEW i \in 0..n
      PROVE  C!NextOf(d, DOMAIN d, i) = IF i < n THEN d[i + 1].pos ELSE 0
  <2>1. CASE i < n
    <3> DEFINE K == DOMAIN d
               j == i + 1
    <3>1. K \subseteq Nat /\ i \in Nat /\ j \in K /\ j > i /\ \A k \in K : k > i => j <= k
      BY <1>1, <2>1
    <3> HIDE DEF K, j
    <3>2. C!NextOf(d, K, i) = d[j].pos
      BY <3>1, NextIs
    <3> USE DEF K, j
    <3> QED
      BY <2>1, <3>2
  <2>2. CASE ~(i < n)
    BY <1>1, <2>2, NextIsNone
  <2> QED
    BY <2>1, <2>2
<1>6. s.head = C!NextOf(d, DOMAIN d, 0)
  BY <1>1, <1>2, <1>4, <1>5
<1>7. \A i \in DOMAIN d : s.next[d[i].pos] = C!NextOf(d, DOMAIN d, i)
  BY <1>1, <1>3, <1>5
<1>8. C!Leads(s.head, s.next, d, DOMAIN d)
  BY <1>6, <1>7 DEF C!Leads
<1> QED
  BY <1>8 DEF d, s

LEMMA DescendKeeps == ASSUME ChainsInv, C!Descend PROVE ChainsInv'
<1>1. PICK m \in Nat : GoingDown(m)
  BY DEF ChainsInv, C!Descend
<1> DEFINE d == chip.std
           n == Len(d)
<1>2. /\ chip \in Chips /\ C!IsChain(d) /\ n \in Nat /\ DOMAIN d = 1..n /\ m + 1 \in DOMAIN d
      /\ \A i \in DOMAIN d : d[i].pos # 0
  BY <1>1, ChipsAssumption, ChainHas DEF ChainsInv, GoingDown, C!Pos
<1>3. /\ at = d[m + 1].pos /\ cfg = C!Copied(chip) /\ IsSpace(cfg)
      /\ cfg.next[at] = IF m + 1 < n THEN d[m + 2].pos ELSE 0
  BY <1>1, <1>2, CopyIs DEF GoingDown
<1>4. stack' = Frames(m + 1)
  <2>1. C!Chain(cfg.head, cfg.next) = {d[i].pos : i \in DOMAIN d}
    BY <1>2, <1>3, CopyLeads, ChainIs
  <2>2. stack' = <<Frame(m + 1)>> \o Frames(m)
    BY <1>1, <1>3, <2>1 DEF C!Descend, GoingDown, Frame
  <2> QED
    BY <2>2, FramesGrow
<1>5. chip' = chip /\ cache' = cache /\ added' = added /\ added = {}
  BY <1>1 DEF C!Descend, GoingDown
<1>6. (Frames(m + 1) = stack') => stack' = Frames(m + 1)'
  BY <1>5 DEF Frames, Frame
<1>7. CASE m + 1 < n
  <2>1. walk' = "down" /\ cfg' = cfg /\ at' = d[m + 2].pos
    <3>1. cfg.next[at] # 0
      BY <1>2, <1>3, <1>7
    <3> QED
      BY <1>3, <1>7, <3>1 DEF C!Descend
  <2>2. GoingDown(m + 1)'
    BY <1>3, <1>4, <1>5, <1>6, <1>7, <2>1 DEF GoingDown
  <2> QED
    BY <1>3, <1>5, <2>1, <2>2 DEF ChainsInv, C!ExtMatches
<1>8. CASE ~(m + 1 < n)
  <2>1. m + 1 = n
    BY <1>2, <1>8
  <2>2. walk' = "up" /\ cfg' = [cfg EXCEPT !.head = 0]
    BY <1>3, <1>8 DEF C!Descend
  <2>3. /\ IsSpace(cfg') /\ cfg'.head = 0 /\ cfg'.xnext = cfg.xnext /\ cfg'.xid = cfg.xid
    BY <1>3, <2>2 DEF IsSpace
  <2>4. /\ C!StdKept' = C!StdKept /\ C!StdKept \subseteq DOMAIN d
    BY <1>5 DEF C!StdKept, C!Drops, C!HidesExp
  <2>5. C!NextOf(d, C!StdKept, n) = 0 /\ \A i \in C!StdKept : ~(i > n)
    BY <1>2, <2>4, NextIsNone
  <2>6. GoingUp(n)'
    BY <1>3, <1>4, <1>5, <1>6, <2>1, <2>3, <2>4, <2>5 DEF GoingUp
  <2>7. IsSpace(cfg)' /\ Sized'
    BY <1>5, <2>3 DEF Sized, IsSpace
  <2> QED
    BY <1>2, <1>5, <2>2, <2>6, <2>7 DEF ChainsInv, C!ExtMatches
<1> QED
  BY <1>7, <1>8

LEMMA AscendKeeps == ASSUME ChainsInv, C!Ascend PROVE ChainsInv'
<1>1. PICK m \in Nat : GoingUp(m)
  BY DEF ChainsInv, C!Ascend
<1> DEFINE d == chip.std
           n == Len(d)
           K == C!StdKept
<1>2. /\ chip \in Chips /\ C!IsChain(d) /\ n \in Nat /\ DOMAIN d = 1..n
      /\ \A i \in DOMAIN d : d[i].pos \in C!Pos
  BY ChipsAssumption, ChainHas DEF ChainsInv
<1>3. /\ m > 0 /\ m <= n /\ Head(stack) = Frame(m) /\ Tail(stack) = Frames(m - 1)
      /\ m \in DOMAIN d /\ m - 1 \in Nat
  BY <1>1, <1>2, FramesShrink DEF GoingUp, C!Ascend
<1>4. Head(stack).pos = d[m].pos /\ C!IdAt(d, Head(stack).pos) = d[m].id
  BY <1>2, <1>3, IndexIs DEF Frame
<1>5. /\ chip' = chip /\ cache' = cache /\ K' = K /\ K \subseteq DOMAIN d /\ K \subseteq Nat
      /\ \A i : Frame(i)' = Frame(i) /\ Frames(i)' = Frames(i)
  BY <1>2 DEF C!Ascend, C!StdKept, C!Drops, C!HidesExp, Frame, Frames
<1>6. CASE C!Rejects(d[m].id)
  <2>1. walk' = "failed" /\ UNCHANGED <<cfg, added>>
    BY <1>4, <1>6 DEF C!Ascend
  <2> QED
    BY <1>5, <2>1 DEF ChainsInv, C!ExtMatches, IsSpace
<1>7. CASE ~C!Rejects(d[m].id) /\ C!Drops(d[m].id)
  <2>1. walk' = "up" /\ stack' = Frames(m - 1) /\ UNCHANGED <<cfg, added>>
    BY <1>3, <1>4, <1>7 DEF C!Ascend
  <2>2. m \notin K /\ (\A i \in K : i > m - 1 <=> i > m)
    BY <1>5, <1>7 DEF C!StdKept
  <2>3. C!NextOf(d, K, m - 1) = C!NextOf(d, K, m)
    BY <2>2 DEF C!NextOf
  <2>4. GoingUp(m - 1)'
    BY <1>1, <1>3, <1>5, <2>1, <2>2, <2>3 DEF GoingUp
  <2> QED
    BY <1>3, <1>5, <2>1, <2>4 DEF ChainsInv, C!ExtMatches, IsSpace, Sized, C!Ascend
<1>8. CASE ~C!Rejects(d[m].id) /\ ~C!Drops(d[m].id)
  <2>1. /\ walk' = "up" /\ stack' = Frames(m - 1) /\ added' = added \cup {Frame(m)}
        /\ \E t : cfg' = [cfg EXCEPT !.head = d[m].pos, !.next[d[m].pos] = cfg.head,
                                     !.type = t]
    BY <1>3, <1>4, <1>8 DEF C!Ascend, C!AddCapability
  <2>2. /\ IsSpace(cfg') /\ cfg'.head = d[m].pos /\ cfg'.xnext = cfg.xnext
        /\ cfg'.xid = cfg.xid /\ cfg'.next = [cfg.next EXCEPT ![d[m].pos] = cfg.head]
    BY <2>1 DEF IsSpace, ChainsInv
  <2>3. m \in K
    BY <1>3, <1>8 DEF C!StdKept
  <2>4. C!NextOf(d, K, m - 1) = d[m].pos
    BY <1>3, <1>5, <2>3, NextIs
  <2>5. ASSUME NEW i \in K, i > m - 1 PROVE cfg'.next[d[i].pos] = C!NextOf(d, K, i)
    <3>1. d[i].pos \in DOMAIN cfg.next /\ d[m].pos \in DOMAIN cfg.next
      BY <1>2, <1>3, <1>5 DEF ChainsInv, IsSpace
    <3>2. CASE i = m
      BY <1>1, <2>2, <3>1, <3>2 DEF GoingUp
    <3>3. CASE i # m
      <4>1. i > m /\ d[i].pos # d[m].pos
        BY <1>2, <1>3, <1>5, <2>5, <3>3 DEF C!IsChain
      <4> QED
        BY <1>1, <2>2, <3>1, <4>1 DEF GoingUp
    <3> QED
      BY <3>2, <3>3
  <2>6. GoingUp(m - 1)'
    <3>1. stack' = Frames(m - 1)' /\ m - 1 <= Len(chip'.std)
      BY <1>3, <1>2, <1>5, <2>1
    <3>2. cfg'.head = C!NextOf(chip'.std, K', m - 1)
      BY <1>5, <2>2, <2>4
    <3>3. \A i \in K' : i > m - 1 => cfg'.next[chip'.std[i].pos] = C!NextOf(chip'.std, K', i)
      BY <1>5, <2>5
    <3>4. cfg'.xnext = C!Copied(chip').xnext /\ cfg'.xid = C!Copied(chip').xid
      BY <1>1, <1>5, <2>2 DEF GoingUp
    <3> QED
      BY <3>1, <3>2, <3>3, <3>4 DEF GoingUp
  <2>7. Sized'
    BY <1>3, <1>5, <2>1 DEF Sized, ChainsInv, C!Ascend
  <2>8. IsSpace(cfg)'
    BY <2>2 DEF IsSpace
  <2> QED
    BY <1>3, <1>5, <2>1, <2>6, <2>7, <2>8 DEF ChainsInv, C!ExtMatches
<1> QED
  BY <1>6, <1>7, <1>8

LEMMA StdDoneKeeps == ASSUME ChainsInv, C!StdDone PROVE ChainsInv'
<1>1. PICK m \in Nat : GoingUp(m)
  BY DEF ChainsInv, C!StdDone
<1> DEFINE d == chip.std
           e == chip.ext
<1>2. m = 0
  <2>1. Frames(m) = <<>>
    BY <1>1 DEF GoingUp, C!StdDone
  <2>2. CASE m > 0
    <3>1. DOMAIN Frames(m) = 1..m /\ 1 \in 1..m
      BY <2>2 DEF Frames
    <3> QED
      BY <2>1, <3>1
  <2> QED
    BY <2>2
<1>3. /\ chip \in Chips /\ IsSpace(cfg) /\ C!IsChain(d) /\ C!IsChain(e)
      /\ e # <<>> => e[1].pos = 1
  BY ChipsAssumption DEF ChainsInv
<1>4. /\ chip' = chip /\ cache' = cache /\ added' = added /\ C!StdKept' = C!StdKept
      /\ C!ExtKept' = C!ExtKept /\ C!SeesExt' = C!SeesExt
      /\ \A i : Frame(i)' = Frame(i)
  BY DEF C!StdDone, C!StdKept, C!Drops, C!HidesExp, Frame, C!ExtKept, C!DropsExt, C!SeesExt
<1>5. C!Leads(cfg.head, cfg.next, d, C!StdKept)
  <2>1. C!StdKept \subseteq Nat \ {0}
    BY <1>3, ChainHas DEF C!StdKept
  <2> QED
    BY <1>1, <1>2, <2>1 DEF GoingUp, C!Leads
<1>6. Sized'
  BY <1>4 DEF Sized, ChainsInv, C!StdDone
<1>7. CASE ~C!SeesExt
  <2>1. walk' = "done" /\ cfg' = cfg
    BY <1>7 DEF C!StdDone
  <2> QED
    BY <1>3, <1>4, <1>5, <1>6, <1>7, <2>1 DEF ChainsInv, C!ExtMatches, IsSpace
<1>8. CASE C!SeesExt
  <2>1. walk' = "ext" /\ at' = 1 /\ C!StubHead /\ e # <<>>
    BY <1>8 DEF C!StdDone, C!SeesExt
  <2>2. /\ 1 \in DOMAIN e /\ 1 <= Len(e) /\ Len(e) \in Nat /\ e[1].pos = 1 /\ 1 \in C!Pos
    <3>1. Len(e) \in Nat /\ DOMAIN e = 1..Len(e)
      BY <1>3, ChainHas
    <3>2. Len(e) # 0
      BY <1>3, <2>1 DEF C!IsChain
    <3>3. 1 \in DOMAIN e
      BY <3>1, <3>2
    <3> QED
      BY <1>3, <2>1, <3>1, <3>2, <3>3, ChainHas
  <2>3. /\ IsSpace(cfg') /\ cfg'.head = cfg.head /\ cfg'.next = cfg.next
        /\ cfg'.xnext = [cfg.xnext EXCEPT ![1] = 0] /\ cfg'.xid = [cfg.xid EXCEPT ![1] = C!Stub]
    BY <1>3, <2>1 DEF C!StubHead, IsSpace
  <2>4. ExtBefore(1) = {1} /\ ~\E i \in C!ExtKept : i < 1
    BY <1>3, ChainHas DEF ExtBefore, C!ExtKept
  <2>5. C!Leads(1, cfg'.xnext, e, ExtBefore(1))
    <3>1. C!NextOf(e, {1}, 0) = 1
      BY <2>2, FirstIs
    <3>2. C!NextOf(e, {1}, 1) = 0
      BY NextIsNone
    <3>3. cfg'.xnext[e[1].pos] = 0
      BY <1>3, <2>2, <2>3 DEF IsSpace
    <3> QED
      BY <2>4, <3>1, <3>2, <3>3 DEF C!Leads
  <2>6. cfg'.xid[1] = C!Stub /\ \A p \in C!Pos : p # 1 => cfg'.xid[p] # C!Stub
    BY <1>1, <1>3, <2>2, <2>3, CopyIs DEF IsSpace, GoingUp
  <2>7. ExtBefore(1)' = ExtBefore(1)
    BY <1>4 DEF ExtBefore
  <2>8. Ext(1)'
    BY <1>4, <2>1, <2>2, <2>4, <2>5, <2>6, <2>7 DEF Ext
  <2>9. IsSpace(cfg)'
    BY <2>3 DEF IsSpace
  <2> QED
    BY <1>3, <1>4, <1>5, <1>6, <2>1, <2>3, <2>8, <2>9 DEF ChainsInv, C!ExtMatches
<1> QED
  BY <1>7, <1>8

\* The next ones of a chain with one more behind it.
LEMMA NextOfMore ==
    ASSUME NEW c, NEW K, K \subseteq Nat, NEW k \in Nat, \A i \in K : i < k,
           NEW L, L = K \cup {k}
    PROVE  /\ \A i \in K : C!NextOf(c, L, i) = IF \E j \in K : j > i THEN C!NextOf(c, K, i)
                                                ELSE c[k].pos
           /\ C!NextOf(c, L, k) = 0
<1>1. L \subseteq Nat /\ k \in L
  OBVIOUS
<1>2. C!NextOf(c, L, k) = 0
  <2>1. \A j \in L : ~(j > k)
    OBVIOUS
  <2> QED
    BY <2>1, NextIsNone
<1>3. ASSUME NEW i \in K, NEW n \in K, n > i PROVE C!NextOf(c, L, i) = C!NextOf(c, K, i)
  <2>1. i \in Nat
    BY <1>3
  <2>2. PICK j \in K : /\ j > i /\ \A p \in K : p > i => j <= p
                       /\ C!NextOf(c, K, i) = c[j].pos
    BY <1>3, <2>1, NextGives
  <2>3. j \in L /\ j > i /\ \A p \in L : p > i => j <= p
    BY <1>1, <2>2
  <2>4. C!NextOf(c, L, i) = c[j].pos
    BY <1>1, <2>1, <2>3, NextIs
  <2> QED
    BY <2>2, <2>4
<1>4. ASSUME NEW i \in K, ~\E j \in K : j > i PROVE C!NextOf(c, L, i) = c[k].pos
  <2>1. i \in Nat /\ k > i /\ \A p \in L : p > i => k <= p
    BY <1>4
  <2> QED
    BY <1>1, <2>1, NextIs
<1> QED
  BY <1>2, <1>3, <1>4

\* A capability is appended: the last one of the chain, and no other, leads to it.
LEMMA AppendLeads ==
    ASSUME NEW c, C!IsChain(c), NEW K, K \subseteq DOMAIN c, 1 \in K, NEW k \in DOMAIN c,
           \A i \in K : i < k, NEW f, DOMAIN f = C!Pos, c[1].pos = 1,
           C!Leads(1, f, c, K), NEW g,
           g = [[f EXCEPT ![CHOOSE q \in C!Chain(1, f) : f[q] = 0] = c[k].pos]
                  EXCEPT ![c[k].pos] = 0]
    PROVE  C!Leads(1, g, c, K \cup {k})
<1> DEFINE L == K \cup {k}
           tail == CHOOSE q \in C!Chain(1, f) : f[q] = 0
<1>1. /\ K \subseteq Nat /\ L \subseteq Nat /\ k \in Nat /\ k \notin K /\ k > 1
      /\ \A i \in DOMAIN c : c[i].pos \in C!Pos /\ c[i].pos # 0
  BY ChainHas DEF C!Pos
<1>2. PICK m \in K : \A i \in K : i <= m
  <2> DEFINE Gaps == {n \in Nat : k - n \in K}
  <2>1. Gaps \subseteq Nat /\ k - 1 \in Gaps
    BY <1>1
  <2>2. PICK n \in Gaps : \A p \in Gaps : n <= p
    BY <2>1, LeastNumber
  <2>3. ASSUME NEW i \in K PROVE i <= k - n
    <3>1. i \in Nat /\ i < k
      BY <1>1
    <3>2. k - i \in Nat /\ k - (k - i) = i
      BY <1>1, <3>1
    <3>3. k - i \in Gaps
      BY <3>2
    <3>4. n <= k - i /\ n \in Nat
      BY <2>2, <3>3
    <3> QED
      BY <1>1, <3>1, <3>4
  <2> QED
    BY <2>2, <2>3
<1>3. \A i \in K : f[c[i].pos] = 0 <=> i = m
  <2> SUFFICES ASSUME NEW i \in K PROVE f[c[i].pos] = 0 <=> i = m
    OBVIOUS
  <2>1. f[c[i].pos] = C!NextOf(c, K, i)
    BY DEF C!Leads
  <2>2. CASE i = m
    <3>1. \A j \in K : ~(j > i)
      BY <1>1, <1>2, <2>2
    <3> QED
      BY <2>1, <2>2, <3>1, NextIsNone
  <2>3. CASE i # m
    <3>1. m > i
      BY <1>1, <1>2, <2>3
    <3>2. \E j \in K : C!NextOf(c, K, i) = c[j].pos
      BY <1>1, <3>1, NextGives
    <3> QED
      BY <1>1, <2>1, <2>3, <3>2
  <2> QED
    BY <2>2, <2>3
<1>4. tail = c[m].pos
  <2>1. C!Chain(1, f) = {c[i].pos : i \in K}
    BY ChainIs
  <2>2. c[m].pos \in C!Chain(1, f) /\ \A q \in C!Chain(1, f) : f[q] = 0 <=> q = c[m].pos
    BY <1>2, <1>3, <2>1
  <2> QED
    BY <2>2
<1>5. g = [[f EXCEPT ![c[m].pos] = c[k].pos] EXCEPT ![c[k].pos] = 0]
  BY <1>4
<1>6. c[m].pos # c[k].pos /\ \A i \in K : c[i].pos # c[k].pos /\ (i # m => c[i].pos # c[m].pos)
  BY <1>1, <1>2 DEF C!IsChain
<1>7. C!NextOf(c, L, 0) = 1
  BY <1>1, FirstIs
<1>8. /\ \A i \in K : C!NextOf(c, L, i) = IF \E j \in K : j > i THEN C!NextOf(c, K, i)
                                               ELSE c[k].pos
      /\ C!NextOf(c, L, k) = 0
  <2>1. L = K \cup {k}
    OBVIOUS
  <2> HIDE DEF L
  <2> QED
    BY <1>1, <2>1, NextOfMore
<1>9. ASSUME NEW i \in L PROVE g[c[i].pos] = C!NextOf(c, L, i)
  <2>1. CASE i = k
    <3>1. C!NextOf(c, L, i) = 0
      BY <1>8, <2>1
    <3>2. g[c[i].pos] = 0
      BY <1>1, <1>5, <2>1
    <3> QED
      BY <3>1, <3>2
  <2>2. CASE i = m
    <3>1. ~\E j \in K : j > i
      BY <1>1, <1>2, <2>2
    <3>2. C!NextOf(c, L, i) = c[k].pos
      BY <1>2, <1>8, <2>2, <3>1
    <3>3. g[c[i].pos] = c[k].pos
      BY <1>1, <1>2, <1>5, <1>6, <2>2
    <3> QED
      BY <3>2, <3>3
  <2>3. CASE i # k /\ i # m
    <3>1. i \in K /\ m > i
      BY <1>1, <1>2, <2>3
    <3>2. C!NextOf(c, L, i) = C!NextOf(c, K, i)
      BY <1>2, <1>8, <3>1
    <3>3. g[c[i].pos] = f[c[i].pos]
      BY <1>1, <1>5, <1>6, <2>3, <3>1
    <3> QED
      BY <3>1, <3>2, <3>3 DEF C!Leads
  <2> QED
    BY <2>1, <2>2, <2>3
<1> QED
  BY <1>7, <1>9 DEF C!Leads

LEMMA WalkExtKeeps == ASSUME ChainsInv, C!WalkExt PROVE ChainsInv'
<1>1. chip.ext # <<>> /\ \E k \in Nat : Ext(k)
  BY DEF ChainsInv, C!WalkExt
<1>2. PICK k \in Nat : Ext(k)
  BY <1>1
<1> DEFINE e == chip.ext
           K == ExtBefore(k)
           L == ExtBefore(k + 1)
<1>3. /\ chip \in Chips /\ IsSpace(cfg) /\ C!IsChain(e) /\ e[1].pos = 1
      /\ Len(e) \in Nat /\ DOMAIN e = 1..Len(e)
      /\ \A i \in DOMAIN e : e[i].pos \in C!Pos /\ e[i].id # C!Stub
  BY <1>1, ChipsAssumption, ChainHas DEF ChainsInv
<1>4. k \in DOMAIN e /\ at = e[k].pos /\ 1 \in DOMAIN e
  BY <1>2, <1>3 DEF Ext, C!WalkExt
<1>5. C!IdAt(e, at) = e[k].id
  BY <1>3, <1>4, IndexIs
<1>6. /\ chip' = chip /\ cache' = cache /\ added' = added /\ walk' = "ext" /\ walk = "ext"
      /\ C!StdKept' = C!StdKept /\ C!ExtKept' = C!ExtKept
      /\ \A i : Frame(i)' = Frame(i) /\ ExtBefore(i)' = ExtBefore(i)
  BY DEF C!WalkExt, C!StdKept, C!Drops, C!HidesExp, Frame, C!ExtKept, C!DropsExt, ExtBefore
<1>7. at' = IF k + 1 <= Len(e) THEN e[k + 1].pos ELSE 0
  BY <1>3, <1>4, CopyIs DEF C!WalkExt, C!NextExt, ChainsInv
<1>8. Sized'
  BY <1>6 DEF Sized, ChainsInv
<1>9. C!ExtKept \subseteq DOMAIN e /\ K \subseteq DOMAIN e /\ 1 \in K
  BY <1>4 DEF C!ExtKept, ExtBefore
<1>10. IsSpace(cfg') /\ cfg'.head = cfg.head /\ cfg'.next = cfg.next /\ Ext(k + 1)'
  <2>1. CASE k \notin C!ExtKept
    <3>1. UNCHANGED cfg
      BY <1>4, <1>5, <2>1 DEF C!WalkExt, C!ExtKept
    <3>2. L = K
      BY <1>3, <1>9, <2>1 DEF ExtBefore
    <3>3. \A i \in C!ExtKept : i < k + 1 => i < k
      BY <1>3, <1>9, <2>1
    <3>4. k + 1 \in 1..(Len(e) + 1)
      BY <1>3, <1>4
    <3>5. k + 1 = 1 \/ 1 \notin C!ExtKept => k = 1 \/ 1 \notin C!ExtKept
      BY <1>3, <1>4
    <3> QED
      BY <1>2, <1>3, <1>6, <1>7, <3>1, <3>2, <3>3, <3>4, <3>5 DEF Ext
  <2>2. CASE k \in C!ExtKept
    <3>1. C!AddExt(e[k].pos, e[k].id)
      BY <1>4, <1>5, <2>2 DEF C!WalkExt, C!ExtKept
    <3>2. k + 1 \in 1..(Len(e) + 1)
      BY <1>3, <1>4
    <3>3. L = K \cup {k}
      BY <1>3, <1>4, <1>9, <2>2 DEF ExtBefore
    <3>4. cfg'.xid = [cfg.xid EXCEPT ![e[k].pos] = e[k].id] /\ DOMAIN cfg.xid = C!Pos
      BY <1>3, <3>1 DEF C!AddExt, IsSpace
    <3>5. /\ cfg'.xid[e[k].pos] = e[k].id
          /\ \A p \in C!Pos : p # e[k].pos => cfg'.xid[p] = cfg.xid[p]
      BY <1>3, <1>4, <3>4
    <3>6. \A i \in C!ExtKept : i < k + 1 => cfg'.xid[e[i].pos] = e[i].id
      <4> SUFFICES ASSUME NEW i \in C!ExtKept, i < k + 1 PROVE cfg'.xid[e[i].pos] = e[i].id
        OBVIOUS
      <4>1. CASE i = k
        BY <3>5, <4>1
      <4>2. CASE i # k
        <5>1. i < k /\ i \in DOMAIN e /\ e[i].pos # e[k].pos
          BY <1>3, <1>4, <1>9, <4>2 DEF C!IsChain
        <5> QED
          BY <1>2, <1>3, <3>5, <5>1 DEF Ext
      <4> QED
        BY <4>1, <4>2
    <3>7. k + 1 = 1 \/ 1 \notin C!ExtKept => cfg'.xid[1] = C!Stub
      <4> SUFFICES ASSUME 1 \notin C!ExtKept PROVE cfg'.xid[1] = C!Stub
        BY <1>3, <1>4
      <4>1. k # 1 /\ e[k].pos # e[1].pos /\ 1 \in C!Pos
        BY <1>3, <1>4, <2>2 DEF C!IsChain
      <4> QED
        BY <1>2, <1>3, <3>5, <4>1 DEF Ext
    <3>8. \A p \in C!Pos : p # 1 => cfg'.xid[p] # C!Stub
      BY <1>2, <1>3, <1>4, <3>5 DEF Ext
    <3>9. /\ IsSpace(cfg') /\ cfg'.head = cfg.head /\ cfg'.next = cfg.next
          /\ C!Leads(1, cfg'.xnext, e, L)
      <4>1. CASE k = 1
        <5>1. e[k].pos = 1 /\ L = K
          BY <1>3, <1>9, <3>3, <4>1
        <5>2. cfg' = [cfg EXCEPT !.xid[1] = e[k].id]
          BY <3>1, <5>1 DEF C!AddExt
        <5>3. /\ IsSpace(cfg') /\ cfg'.head = cfg.head /\ cfg'.next = cfg.next
              /\ cfg'.xnext = cfg.xnext
          BY <1>3, <5>2 DEF IsSpace
        <5> QED
          BY <1>2, <5>1, <5>3 DEF Ext
      <4>2. CASE k # 1
        <5> DEFINE f == cfg.xnext
                   g == [[f EXCEPT ![CHOOSE q \in C!Chain(1, f) : f[q] = 0] = e[k].pos]
                           EXCEPT ![e[k].pos] = 0]
        <5>1. e[k].pos # 1
          BY <1>3, <1>4, <4>2 DEF C!IsChain
        <5>2. cfg' = [cfg EXCEPT !.xnext = g, !.xid[e[k].pos] = e[k].id]
          BY <3>1, <5>1 DEF C!AddExt
        <5>3. DOMAIN g = C!Pos /\ DOMAIN f = C!Pos
          BY <1>3 DEF IsSpace
        <5> HIDE DEF g
        <5>4. /\ IsSpace(cfg') /\ cfg'.head = cfg.head /\ cfg'.next = cfg.next
              /\ cfg'.xnext = g
          BY <1>3, <5>2, <5>3 DEF IsSpace
        <5>5. \A i \in K : i < k
          BY <1>3, <1>4, <4>2 DEF ExtBefore
        <5>6. C!Leads(1, g, e, K \cup {k})
          <6>1. C!Leads(1, f, e, K)
            BY <1>2 DEF Ext
          <6> HIDE DEF K, e, f
          <6> QED
            BY <1>3, <1>4, <1>9, <5>3, <5>5, <6>1, AppendLeads DEF g
        <5> QED
          BY <3>3, <5>4, <5>6
      <4> QED
        BY <4>1, <4>2
    <3> QED
      BY <1>6, <1>7, <3>2, <3>6, <3>7, <3>8, <3>9 DEF Ext
  <2> QED
    BY <2>1, <2>2
<1>11. IsSpace(cfg)'
  BY <1>10 DEF IsSpace
<1> QED
  BY <1>1, <1>3, <1>6, <1>8, <1>10, <1>11 DEF ChainsInv, C!ExtMatches

LEMMA ExtDoneKeeps == ASSUME ChainsInv, C!ExtDone PROVE ChainsInv'
<1>1. PICK k \in Nat : Ext(k)
  BY DEF ChainsInv, C!ExtDone
<1> DEFINE e == chip.ext
<1>2. /\ chip \in Chips /\ IsSpace(cfg) /\ C!IsChain(e) /\ e # <<>> /\ e[1].pos = 1
      /\ Len(e) \in Nat /\ DOMAIN e = 1..Len(e)
      /\ \A i \in DOMAIN e : e[i].pos \in C!Pos /\ e[i].pos # 0 /\ e[i].id # C!Stub
  BY ChipsAssumption, ChainHas DEF ChainsInv, C!ExtDone, C!Pos
<1>3. k = Len(e) + 1 /\ 1 \in DOMAIN e /\ k # 1 /\ 1 \in C!Pos
  <2>1. k = Len(e) + 1
    BY <1>1, <1>2 DEF Ext, C!ExtDone
  <2>2. Len(e) # 0
    BY <1>2 DEF C!IsChain
  <2> QED
    BY <1>2, <2>1, <2>2
<1>4. /\ chip' = chip /\ cache' = cache /\ added' = added /\ walk' = "done" /\ walk = "ext"
      /\ C!StdKept' = C!StdKept /\ C!ExtKept' = C!ExtKept /\ C!SeesExt' = C!SeesExt
      /\ \A i : Frame(i)' = Frame(i)
  BY DEF C!ExtDone, C!StdKept, C!Drops, C!HidesExp, Frame, C!ExtKept, C!DropsExt, C!SeesExt
<1>5. /\ IsSpace(cfg') /\ cfg'.head = cfg.head /\ cfg'.next = cfg.next /\ cfg'.xnext = cfg.xnext
      /\ cfg'.xid = [cfg.xid EXCEPT ![1] = IF cfg.xid[1] = C!Stub THEN C!Zero ELSE cfg.xid[1]]
  BY <1>2 DEF C!ExtDone, IsSpace
<1>6. /\ cfg'.xid[1] = IF cfg.xid[1] = C!Stub THEN C!Zero ELSE cfg.xid[1]
      /\ \A p \in C!Pos : p # 1 => cfg'.xid[p] = cfg.xid[p]
  BY <1>2, <1>3, <1>5 DEF IsSpace
<1>7. C!ExtKept \subseteq DOMAIN e /\ \A i \in C!ExtKept : i < k
  BY <1>2, <1>3 DEF C!ExtKept
<1>8. Sized'
  BY <1>4 DEF Sized, ChainsInv
<1>9. C!Leads(1, cfg'.xnext, e, C!ExtKept \cup {1})
  <2>1. ExtBefore(k) = C!ExtKept \cup {1}
    BY <1>7 DEF ExtBefore
  <2> QED
    BY <1>1, <1>5, <2>1 DEF Ext
<1>10. ASSUME NEW i \in C!ExtKept PROVE cfg'.xid[e[i].pos] = e[i].id
  <2>1. cfg.xid[e[i].pos] = e[i].id /\ i \in DOMAIN e
    BY <1>1, <1>7 DEF Ext
  <2> QED
    BY <1>2, <1>6, <2>1
<1>11. 1 \notin C!ExtKept => cfg'.xid[1] = C!Zero
  BY <1>1, <1>6 DEF Ext
<1>12. \A p \in C!Pos : cfg'.xid[p] # C!Stub
  <2>1. C!Zero # C!Stub
    BY DEF C!Zero, C!Stub
  <2> QED
    BY <1>1, <1>6, <2>1 DEF Ext
<1>13. C!ExtMatches'
  BY <1>4, <1>9, <1>10, <1>11, <1>12 DEF C!ExtMatches
<1>14. IsSpace(cfg)'
  BY <1>5 DEF IsSpace
<1> QED
  BY <1>4, <1>5, <1>8, <1>13, <1>14 DEF ChainsInv

\* The guest sees the device's capabilities without the dropped ones, in the device's
\* order and with room for each, for chains of any length in any order of places: the
\* invariant says how much of the chain is rebuilt at each frame of the recursion on its
\* way up, and at each step of the walk over the extended chain.
THEOREM ChainsStayWhole == C!Spec => []ChainsMatch
<1>1. ChainsInv => ChainsMatch
  <2> SUFFICES ASSUME ChainsInv PROVE ChainsMatch
    OBVIOUS
  <2>1. C!IsChain(chip.std)
    BY ChipsAssumption DEF ChainsInv
  <2>2. C!StdMatches
    BY <2>1, SizedIsApart DEF ChainsInv, C!StdMatches
  <2> QED
    BY <2>2 DEF ChainsInv, ChainsMatch, C!ChainsMatch
<1>2. ASSUME ChainsInv, [C!Next]_(C!vars) PROVE ChainsInv'
  <2>1. CASE UNCHANGED C!vars
    <3>1. UNCHANGED <<chip, cfg, cache, walk, at, stack, added>>
      BY <2>1 DEF C!vars
    <3>2. /\ C!StdKept' = C!StdKept /\ C!ExtKept' = C!ExtKept /\ C!SeesExt' = C!SeesExt
          /\ \A i : Frame(i)' = Frame(i) /\ Frames(i)' = Frames(i)
          /\ \A i : ExtBefore(i)' = ExtBefore(i)
      BY <3>1 DEF Frame, Frames, ExtBefore, C!StdKept, C!ExtKept, C!Drops, C!DropsExt,
         C!HidesExp, C!SeesExt
    <3>3. \A m \in Nat : /\ GoingDown(m) => GoingDown(m)'
                         /\ GoingUp(m) => GoingUp(m)'
                         /\ Ext(m) => Ext(m)'
      BY <3>1, <3>2 DEF GoingDown, GoingUp, Ext
    <3>4. Sized => Sized'
      BY <3>1, <3>2 DEF Sized
    <3>5. C!ExtMatches => C!ExtMatches'
      BY <3>1, <3>2 DEF C!ExtMatches
    <3>6. ChainsInv
      BY <1>2
    <3>7. /\ walk' = "down" => \E m \in Nat : GoingDown(m)'
          /\ walk' = "up" => \E m \in Nat : GoingUp(m)'
          /\ walk' = "ext" => chip'.ext # <<>> /\ \E k \in Nat : Ext(k)'
      BY <3>1, <3>3, <3>6 DEF ChainsInv
    <3>8. /\ chip' \in Chips /\ IsSpace(cfg)' /\ cache' = C!Copied(chip').xnext
          /\ walk' \in {"ext", "done"} =>
                C!Leads(cfg'.head, cfg'.next, chip'.std, C!StdKept')
      BY <3>1, <3>2, <3>6 DEF ChainsInv, IsSpace
    <3> QED
      BY <3>1, <3>2, <3>4, <3>5, <3>6, <3>7, <3>8 DEF ChainsInv
  <2> QED
    BY <1>2, <2>1, DescendKeeps, AscendKeeps, StdDoneKeeps, WalkExtKeeps, ExtDoneKeeps
       DEF C!Next
<1> QED
  BY <1>1, <1>2, ChainsInvInit, PTL DEF C!Spec

-----------------------------------------------------------------------------
(* The parts together *)

\* A behaviour of the whole is one of each part.
LEMMA PartsRun == PciSpec => Spec /\ C!Spec /\ D!Spec
<1>1. PciInit => Init /\ C!Init /\ D!Init
  BY DEF PciInit, NoReset, NoChip, NoCard
<1>2. [PciNext]_pcivars => [Next]_vars
  BY DEF PciNext, pcivars, vars
<1>3. [PciNext]_pcivars => [C!Next]_(C!vars)
  BY DEF PciNext, pcivars, chipvars, C!vars
<1>4. [PciNext]_pcivars => [D!Next]_(D!vars)
  BY DEF PciNext, pcivars, cardvars, D!vars
<1> QED
  BY <1>1, <1>2, <1>3, <1>4, PTL DEF PciSpec, Spec, C!Spec, D!Spec

\* What holds of the resets, of the capabilities and of a device's life holds of
\* vfio-pci, where they are side by side.
THEOREM VfioPciIsSafe ==
    PciSpec => /\ [](NoDoubleReset /\ BusResetIsPrepared /\ GoneIsQuiet)
               /\ ResetIsComplete /\ OthersUndisturbed
               /\ [](ChainsMatch /\ TableIsTrapped /\ FreedHoldsNothing)
BY PartsRun, ResetsOnce, BusResetsArePrepared, GoneStaysQuiet, ResetsAll,
   NeighboursUndisturbed, ChainsStayWhole, TableStaysTrapped, NothingIsKept, PTL

===============================================================================
