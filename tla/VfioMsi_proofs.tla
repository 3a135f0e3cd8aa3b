---------------------------- MODULE VfioMsi_proofs ----------------------------
(***************************************************************************)
(* The vectors of a vfio-pci device are safe for every number of vectors,  *)
(* every set of messages, any number of moves of the guest and whatever    *)
(* fails.  MsiInv says that the vectors serve the mode: with MSI-X every   *)
(* open vector is in use and its route has the table's message, and no     *)
(* closed one bypasses QEMU; with MSI the same of the vectors granted;     *)
(* otherwise nothing is set up.  The core tells the notifiers of one       *)
(* vector after the other: what holds between two of them is proved by     *)
(* induction over the vectors, from the well-foundedness of < on Nat.      *)
(***************************************************************************)
EXTENDS VfioMsi, WellFoundedInduction, TLAPS

Entry == [use : BOOLEAN, virq : BOOLEAN, kmsg : Msg \cup {None}, heard : BOOLEAN,
          trig : {"none", "qemu", "kvm"}]
Device == [nr : 0..N, vec : [Vec -> Entry], vpend : SUBSET Vec, pba : BOOLEAN]

\* The vectors in use are below nr_vectors, and the host signals an eventfd for
\* each of them; KVM's only if KVM has a route.
SoundEntry(e, below) ==
    /\ e.use => below /\ e.trig # "none"
    /\ ~e.use => e = Unused
    /\ e.trig = "kvm" => e.virq
Sound(d) == \A i \in Vec : SoundEntry(d.vec[i], i < d.nr)

\* The vector is in use, and a route it has is for the message m.
Current(e, m) == e.use /\ (e.virq => e.kmsg = m)

\* What was set up for a vector stays, but for its eventfd.
Kept(e, old) == e.use = old.use /\ e.virq = old.virq /\ e.kmsg = old.kmsg

-----------------------------------------------------------------------------
(* Single vectors *)

LEMMA UnusedIsEntry == Unused \in Entry /\ SoundEntry(Unused, FALSE) /\ ~Unused.use
BY DEF Unused, Entry, SoundEntry

LEMMA NoVectorsIsSound == NoVectors \in Device /\ Sound(NoVectors) /\ NoVectors.nr = 0
<1>1. N \in Nat \ {0}
  BY NAssumption
<1>2. NoVectors.nr = 0 /\ NoVectors.vec = [i \in Vec |-> Unused] /\ NoVectors \in Device
  BY <1>1, UnusedIsEntry DEF NoVectors, Device
<1>3. \A i \in Vec : NoVectors.vec[i] = Unused
  BY <1>2
<1>4. ASSUME NEW i \in Vec PROVE SoundEntry(Unused, i < 0)
  BY <1>1 DEF SoundEntry, Unused, Vec
<1> QED
  BY <1>2, <1>3, <1>4 DEF Sound

LEMMA TriggerGives ==
    ASSUME NEW e \in Entry, NEW b \in BOOLEAN
    PROVE  LET t == Trigger(e, b)
           IN  /\ t \in Entry /\ Kept(t, e)
               /\ t.trig = IF b THEN "kvm" ELSE "qemu"
BY DEF Trigger, Entry, Kept

LEMMA QuietGives ==
    ASSUME NEW e \in Entry
    PROVE  LET t == [e EXCEPT !.trig = "none"]
           IN  t \in Entry /\ Kept(t, e) /\ t.trig = "none" /\ (~e.use /\ e = Unused => t = e)
BY DEF Entry, Kept, Unused

LEMMA RoutedGives ==
    ASSUME NEW e \in Entry, NEW i, NEW m \in Msg \cup {None}, NEW refused
    PROVE  LET r == Routed(e, i, m, refused)
           IN  /\ r \in Entry /\ r.use = e.use /\ r.trig = e.trig
               /\ r.virq /\ m # None => r.kmsg = m
               /\ m = None => ~r.virq
<1>1. CASE e.virq /\ m = None
  <2>1. Routed(e, i, m, refused) = [e EXCEPT !.virq = FALSE, !.kmsg = None]
    BY <1>1 DEF Routed
  <2> QED
    BY <1>1, <2>1 DEF Entry
<1>2. CASE e.virq /\ m # None
  <2>1. Routed(e, i, m, refused) = [e EXCEPT !.kmsg = m]
    BY <1>2 DEF Routed
  <2> QED
    BY <1>2, <2>1 DEF Entry
<1>3. CASE ~e.virq /\ m # None /\ i \notin refused
  <2>1. Routed(e, i, m, refused) = [e EXCEPT !.virq = TRUE, !.kmsg = m]
    BY <1>3 DEF Routed
  <2> QED
    BY <1>3, <2>1 DEF Entry
<1>4. CASE ~e.virq /\ ~(m # None /\ i \notin refused)
  <2>1. Routed(e, i, m, refused) = e
    BY <1>4 DEF Routed
  <2> QED
    BY <1>4, <2>1 DEF Entry
<1> QED
  BY <1>1, <1>2, <1>3, <1>4 DEF Entry

-----------------------------------------------------------------------------
(* All vectors *)

\* vfio_enable_vectors gives every vector in use below n its eventfd.
Enabled(new, old, n, msix, open) ==
    /\ new \in [Vec -> Entry]
    /\ \A i \in Vec :
         /\ Kept(new[i], old[i])
         /\ (i < n /\ old[i].use) =>
              new[i].trig = IF Bypasses(old[i], msix, i \in open) THEN "kvm" ELSE "qemu"
         /\ ~(i < n /\ old[i].use) => new[i].trig = "none"
         /\ old[i] = Unused => new[i] = Unused

LEMMA EnableVectorsGives ==
    ASSUME NEW old \in [Vec -> Entry], NEW n \in Nat, NEW msix \in BOOLEAN, NEW open
    PROVE  Enabled(EnableVectors(old, n, msix, open), old, n, msix, open)
<1> DEFINE new == EnableVectors(old, n, msix, open)
           B(i) == Bypasses(old[i], msix, i \in open)
<1>1. \A i \in Vec :
        new[i] = IF i < n /\ old[i].use THEN Trigger(old[i], B(i))
                 ELSE [old[i] EXCEPT !.trig = "none"]
  BY DEF EnableVectors
<1>2. new = [i \in Vec |-> new[i]]
  BY DEF EnableVectors
<1> SUFFICES Enabled(new, old, n, msix, open)
  OBVIOUS
<1> HIDE DEF new
<1>3. ASSUME NEW i \in Vec
      PROVE  /\ new[i] \in Entry /\ Kept(new[i], old[i])
             /\ (i < n /\ old[i].use) => new[i].trig = IF B(i) THEN "kvm" ELSE "qemu"
             /\ ~(i < n /\ old[i].use) => new[i].trig = "none"
             /\ old[i] = Unused => new[i] = Unused
  <2>1. old[i] \in Entry /\ B(i) \in BOOLEAN
    BY DEF Entry, Bypasses
  <2>2. CASE i < n /\ old[i].use
    <3>1. new[i] = Trigger(old[i], B(i))
      BY <1>1, <2>2
    <3>2. old[i] # Unused
      BY <2>2 DEF Unused
    <3> HIDE DEF B
    <3> QED
      BY <2>1, <2>2, <3>1, <3>2, TriggerGives
  <2>3. CASE ~(i < n /\ old[i].use)
    <3>1. new[i] = [old[i] EXCEPT !.trig = "none"]
      BY <1>1, <2>3
    <3>2. old[i] = Unused => new[i] = Unused
      BY <3>1, <2>1, QuietGives, UnusedIsEntry
    <3> HIDE DEF B
    <3> QED
      BY <2>1, <2>3, <3>1, <3>2, QuietGives
  <2> QED
    BY <2>2, <2>3
<1>4. new \in [Vec -> Entry]
  BY <1>2, <1>3
<1> QED
  BY <1>3, <1>4 DEF Enabled

\* What a call leaves of the vectors: they stay in use, nr_vectors does not shrink.
Extends(r, d) == r \in Device /\ Sound(r) /\ r.nr >= d.nr

\* vfio_msix_vector_do_use: the vector is in use with its message, the others stay as
\* they are, but that those in "open" may now bypass QEMU.
Used(r, d, i, m, open) ==
    /\ Extends(r, d)
    /\ r.vec[i].use
    /\ r.vec[i].virq /\ m # None => r.vec[i].kmsg = m
    /\ r.vec[i].virq => m # None
    /\ \A j \in Vec : j # i => Kept(r.vec[j], d.vec[j])
    /\ \A j \in Vec : r.vec[j].trig = "kvm" => d.vec[j].trig = "kvm" \/ j \in open \/ j = i
    /\ i \notin open /\ m = None => r.vec[i].trig = "qemu"

LEMMA DoUseGives ==
    ASSUME NEW d \in Device, Sound(d), NEW i \in Vec, NEW m \in Msg \cup {None},
           NEW heard \in BOOLEAN, NEW open, NEW refused
    PROVE  Used(DoUse(d, i, m, heard, open, refused), d, i, m, open)
<1> DEFINE e0   == [d.vec[i] EXCEPT !.use = TRUE, !.heard = heard]
           e    == Routed(e0, i, m, refused)
           vec1 == [d.vec EXCEPT ![i] = e]
           grow == d.nr < i + 1
           nr1  == IF grow THEN i + 1 ELSE d.nr
           vec2 == IF grow THEN EnableVectors(vec1, i + 1, TRUE, open)
                   ELSE [vec1 EXCEPT ![i] = Trigger(e, e.virq)]
           r    == DoUse(d, i, m, heard, open, refused)
<1>0. N \in Nat \ {0} /\ i \in Nat /\ i < N /\ d.nr \in 0..N /\ d.vec \in [Vec -> Entry]
  BY NAssumption DEF Device, Vec
<1>1. e0 \in Entry /\ e0.use /\ e0.trig = d.vec[i].trig
  BY <1>0 DEF Entry
<1>2. /\ e \in Entry /\ e.use
      /\ e.virq /\ m # None => e.kmsg = m
      /\ m = None => ~e.virq
  <2> HIDE DEF e0
  <2> QED
    BY <1>1, RoutedGives
<1> DEFINE pba1 == PbaStays([d EXCEPT !.nr = nr1], i)
<1>3. r.vec = vec2 /\ r.nr = nr1
  BY <1>0 DEF DoUse, Device
<1>4. r \in [nr : {nr1}, vec : {vec2}, vpend : SUBSET Vec, pba : BOOLEAN]
  <2>1. r = [d EXCEPT !.nr = nr1, !.vec = vec2, !.vpend = d.vpend \ {i}, !.pba = pba1]
    BY <1>0 DEF DoUse, Device
  <2>2. pba1 \in BOOLEAN
    <3>1. d.pba \in BOOLEAN
      BY DEF Device
    <3> QED
      BY <3>1 DEF PbaStays
  <2> HIDE DEF pba1, nr1, vec2, r
  <2> QED
    BY <2>1, <2>2 DEF Device
<1>5. nr1 \in 0..N /\ nr1 >= d.nr /\ i < nr1
  BY <1>0
<1> SUFFICES Used(r, d, i, m, open)
  OBVIOUS
<1> HIDE DEF r, e
<1>6. /\ vec1 \in [Vec -> Entry] /\ vec1[i] = e
      /\ \A j \in Vec : j # i => vec1[j] = d.vec[j]
  BY <1>0, <1>2
<1>7. CASE grow
  <2>1. Enabled(vec2, vec1, i + 1, TRUE, open)
    <3> HIDE DEF vec1
    <3>1. vec2 = EnableVectors(vec1, i + 1, TRUE, open) /\ i + 1 \in Nat
      BY <1>7, <1>0
    <3> QED
      BY <1>6, <3>1, EnableVectorsGives
  <2> HIDE DEF vec1, vec2
  <2>2. r \in Device
    BY <1>3, <1>4, <1>5, <2>1 DEF Device, Enabled
  <2>3. vec2[i].use /\ Kept(vec2[i], e)
    BY <1>2, <1>6, <2>1 DEF Enabled, Kept
  <2>4. ASSUME NEW j \in Vec, j # i
        PROVE  /\ SoundEntry(vec2[j], j < nr1) /\ Kept(vec2[j], d.vec[j])
               /\ vec2[j].trig = "kvm" => j \in open
    <3>1. d.vec[j].use => j < i + 1 /\ j < nr1
      BY <1>7, <1>0, <2>4 DEF Sound, SoundEntry, Vec
    <3>2. ~d.vec[j].use => d.vec[j] = Unused
      BY DEF Sound, SoundEntry
    <3>3. vec1[j] = d.vec[j] /\ Kept(vec2[j], d.vec[j])
      BY <1>6, <2>4, <2>1 DEF Enabled
    <3>4. CASE d.vec[j].use
      <4>1. vec2[j].trig = IF Bypasses(d.vec[j], TRUE, j \in open) THEN "kvm" ELSE "qemu"
        BY <2>1, <3>1, <3>3, <3>4 DEF Enabled
      <4> QED
        BY <3>1, <3>3, <3>4, <4>1 DEF Bypasses, SoundEntry, Kept
    <3>5. CASE ~d.vec[j].use
      <4>1. vec2[j] = Unused
        BY <2>1, <3>2, <3>3, <3>5 DEF Enabled
      <4> QED
        BY <3>3, <4>1 DEF SoundEntry, Unused
    <3> QED
      BY <3>4, <3>5
  <2>5. vec2[i].trig = IF Bypasses(e, TRUE, i \in open) THEN "kvm" ELSE "qemu"
    <3>1. i < i + 1 /\ vec1[i].use
      BY <1>0, <1>2, <1>6
    <3> QED
      BY <1>6, <2>1, <3>1 DEF Enabled
  <2>6. SoundEntry(vec2[i], i < nr1)
    BY <1>5, <2>3, <2>5 DEF SoundEntry, Bypasses, Kept
  <2>7. Sound(r)
    BY <1>3, <2>4, <2>6 DEF Sound
  <2> QED
    <3>1. Extends(r, d)
      BY <1>3, <1>5, <2>2, <2>7 DEF Extends
    <3>2. /\ r.vec[i].use
          /\ r.vec[i].virq /\ m # None => r.vec[i].kmsg = m
          /\ r.vec[i].virq => m # None
      BY <1>2, <1>3, <2>3 DEF Kept
    <3>3. m = None => r.vec[i].trig = "qemu"
      BY <1>2, <1>3, <2>5 DEF Bypasses
    <3> QED
      BY <1>3, <2>4, <3>1, <3>2, <3>3 DEF Used
<1>8. CASE ~grow
  <2> DEFINE t == Trigger(e, e.virq)
  <2>1. /\ t \in Entry /\ Kept(t, e)
        /\ t.trig = IF e.virq THEN "kvm" ELSE "qemu"
    <3>1. e.virq \in BOOLEAN
      BY <1>2 DEF Entry
    <3> QED
      BY <1>2, <3>1, TriggerGives
  <2> HIDE DEF t
  <2>2. vec2 = [vec1 EXCEPT ![i] = t]
    BY <1>8 DEF t
  <2>3. vec2 \in [Vec -> Entry] /\ vec2[i] = t /\ \A j \in Vec : j # i => vec2[j] = d.vec[j]
    <3> HIDE DEF vec1, vec2
    <3> QED
      BY <1>6, <2>1, <2>2
  <2> HIDE DEF vec1, vec2
  <2>4. r \in Device /\ nr1 = d.nr
    BY <1>3, <1>4, <1>5, <1>8, <2>3 DEF Device
  <2>5. SoundEntry(vec2[i], i < nr1)
    BY <1>2, <1>5, <2>1, <2>3 DEF SoundEntry, Kept
  <2>6. Sound(r)
    BY <1>3, <2>3, <2>4, <2>5 DEF Sound
  <2> QED
    <3>1. Extends(r, d)
      BY <1>3, <1>5, <2>4, <2>6 DEF Extends
    <3>2. /\ r.vec[i].use
          /\ r.vec[i].virq /\ m # None => r.vec[i].kmsg = m
          /\ r.vec[i].virq => m # None
      BY <1>2, <1>3, <2>1, <2>3 DEF Kept
    <3>3. m = None => r.vec[i].trig = "qemu"
      BY <1>2, <1>3, <2>1, <2>3
    <3>4. \A j \in Vec : j # i => r.vec[j] = d.vec[j]
      BY <1>3, <2>3
    <3> QED
      BY <3>1, <3>2, <3>3, <3>4 DEF Used, Kept
<1> QED
  BY <1>7, <1>8

-----------------------------------------------------------------------------
(* The core's notifiers *)

Below == {p \in Nat \X Nat : p[1] < p[2]}

\* What induction rests on: a set of numbers that is not empty has a least one.
LEMMA LeastNumber ==
    ASSUME NEW S, S \subseteq Nat, S # {}
    PROVE  \E n \in S : \A k \in S : n <= k
<1>1. IsWellFoundedOn(Below, Nat)
  BY NatLessThanWellFounded DEF OpToRel, Below
<1>2. \E n \in S : \A k \in S : ~(<<k, n>> \in Below)
  BY <1>1, WFMin
<1>3. PICK n \in S : \A k \in S : ~(<<k, n>> \in Below)
  BY <1>2
<1>4. \A k \in S : ~(k < n)
  BY <1>3 DEF Below
<1> QED
  BY <1>4

\* One step of the core: vector i is told if it opens.
Told(r, i, vectors, msgs, open, refused) ==
    IF i \in vectors THEN DoUse(r, i, msgs[i], TRUE, open, refused) ELSE r

\* f[n] is dev when the vectors below n have been told, for n up to k.
Telling(f, k, d, vectors, msgs, open, refused) ==
    f = [n \in 0..k |-> IF n = 0 THEN d
                        ELSE Told(f[n - 1], n - 1, vectors, msgs, open, refused)]

LEMMA TellingExists ==
    ASSUME NEW d, NEW vectors, NEW msgs, NEW open, NEW refused, NEW k \in Nat
    PROVE  \E f : Telling(f, k, d, vectors, msgs, open, refused)
<1> DEFINE T(f, n) == Telling(f, n, d, vectors, msgs, open, refused)
           S(r, i) == Told(r, i, vectors, msgs, open, refused)
           Bad == {n \in Nat : ~ \E f : T(f, n)}
<1>1. T([n \in 0..0 |-> d], 0)
  BY DEF Telling
<1>2. ASSUME NEW n \in Nat, NEW f, T(f, n)
      PROVE  \E g : T(g, n + 1)
  <2> DEFINE g == [j \in 0..(n + 1) |-> IF j <= n THEN f[j] ELSE S(f[n], n)]
  <2>1. f = [j \in 0..n |-> IF j = 0 THEN d ELSE S(f[j - 1], j - 1)]
    BY <1>2 DEF Telling
  <2> HIDE DEF S
  <2>2. ASSUME NEW j \in 0..(n + 1)
        PROVE  g[j] = IF j = 0 THEN d ELSE S(g[j - 1], j - 1)
    <3>1. CASE j = 0
      BY <2>1, <3>1
    <3>2. CASE j # 0 /\ j <= n
      <4>1. j \in 0..n /\ j - 1 \in 0..(n + 1) /\ j - 1 <= n
        BY <3>2
      <4>2. g[j] = f[j] /\ g[j - 1] = f[j - 1]
        BY <3>2, <4>1
      <4> HIDE DEF g
      <4> QED
        BY <2>1, <3>2, <4>1, <4>2
    <3>3. CASE j = n + 1
      <4>1. j # 0 /\ j - 1 = n /\ ~(j <= n) /\ n \in 0..(n + 1) /\ n <= n
        BY <3>3
      <4>2. g[j] = S(f[n], n) /\ g[n] = f[n]
        BY <4>1
      <4> HIDE DEF g
      <4> QED
        BY <4>1, <4>2
    <3> QED
      BY <3>1, <3>2, <3>3
  <2>3. g = [j \in 0..(n + 1) |-> IF j = 0 THEN d ELSE S(g[j - 1], j - 1)]
    <3>1. g = [j \in 0..(n + 1) |-> g[j]]
      OBVIOUS
    <3> HIDE DEF g
    <3> QED
      BY <2>2, <3>1
  <2>4. T(g, n + 1)
    <3> HIDE DEF g
    <3> QED
      BY <2>3 DEF Telling, S
  <2> QED
    BY <2>4
<1> HIDE DEF T
<1>3. Bad = {}
  <2>1. SUFFICES ASSUME Bad # {} PROVE FALSE
    OBVIOUS
  <2>2. PICK n \in Bad : \A j \in Bad : n <= j
    <3>1. Bad \subseteq Nat
      OBVIOUS
    <3> HIDE DEF Bad
    <3> QED
      BY <2>1, <3>1, LeastNumber
  <2>3. n \in Nat /\ n # 0 /\ ~ \E f : T(f, n)
    BY <1>1
  <2>4. n - 1 \in Nat /\ n - 1 \notin Bad /\ (n - 1) + 1 = n
    <3>1. n - 1 \in Nat /\ (n - 1) + 1 = n /\ ~(n <= n - 1)
      BY <2>3
    <3> HIDE DEF Bad
    <3> QED
      BY <2>2, <3>1
  <2>5. PICK f : T(f, n - 1)
    BY <2>4
  <2>6. \E g : T(g, (n - 1) + 1)
    BY <1>2, <2>4, <2>5
  <2> QED
    BY <2>3, <2>4, <2>6
<1> QED
  BY <1>3 DEF T

LEMMA UseAllTells ==
    ASSUME NEW d, NEW vectors, NEW msgs, NEW open, NEW refused
    PROVE  \E f : /\ Telling(f, N, d, vectors, msgs, open, refused)
                  /\ UseAll(d, vectors, msgs, open, refused) = f[N]
<1> DEFINE T(f) == f = [n \in 0..N |->
                 IF n = 0 THEN d
                 ELSE IF n - 1 \in vectors
                   THEN DoUse(f[n - 1], n - 1, msgs[n - 1], TRUE, open, refused)
                 ELSE f[n - 1]]
           c == CHOOSE f : T(f)
<1>1. UseAll(d, vectors, msgs, open, refused) = c[N]
  BY DEF UseAll
<1>2. \A f : T(f) <=> Telling(f, N, d, vectors, msgs, open, refused)
  BY DEF Telling, Told
<1>3. \E f : T(f)
  <2> HIDE DEF T
  <2> QED
    BY <1>2, TellingExists, NAssumption
<1>4. T(c)
  <2> HIDE DEF T
  <2> QED
    BY <1>3
<1> HIDE DEF T, c
<1> QED
  BY <1>1, <1>2, <1>4

LEMMA TellingStep ==
    ASSUME NEW f, NEW d, NEW vectors, NEW msgs, NEW open, NEW refused,
           Telling(f, N, d, vectors, msgs, open, refused)
    PROVE  /\ f[0] = d
           /\ \A n \in 1..N : f[n] = Told(f[n - 1], n - 1, vectors, msgs, open, refused)
<1> DEFINE S(r, i) == Told(r, i, vectors, msgs, open, refused)
<1>1. f = [n \in 0..N |-> IF n = 0 THEN d ELSE S(f[n - 1], n - 1)]
  BY DEF Telling
<1> HIDE DEF S
<1>2. 0 \in 0..N /\ \A n \in 1..N : n \in 0..N /\ n # 0
  BY NAssumption
<1>3. f[0] = d /\ \A n \in 1..N : f[n] = S(f[n - 1], n - 1)
  BY <1>1, <1>2
<1> QED
  BY <1>3 DEF S

\* When the vectors below n have been told: the open ones that need not be told any
\* more have their message, and nothing closed bypasses QEMU.
Halfway(r, n, d, vectors, msgs, open) ==
    /\ Extends(r, d)
    /\ \A i \in open : i \notin vectors \/ i < n => Current(r.vec[i], msgs[i])
    /\ \A i \in Vec : r.vec[i].trig = "kvm" => i \in open

LEMMA TellingGives ==
    ASSUME NEW d \in Device, Sound(d), NEW open \in SUBSET Vec,
           NEW vectors \in SUBSET open, NEW msgs \in [Vec -> Msg], NEW refused,
           \A i \in open \ vectors : Current(d.vec[i], msgs[i]),
           \A i \in Vec : d.vec[i].trig = "kvm" => i \in open
    PROVE  LET r == UseAll(d, vectors, msgs, open, refused)
           IN  /\ r \in Device /\ Sound(r)
               /\ \A i \in open : Current(r.vec[i], msgs[i])
               /\ \A i \in Vec : r.vec[i].trig = "kvm" => i \in open
<1>0. N \in Nat \ {0}
  BY NAssumption
<1>1. PICK f : /\ Telling(f, N, d, vectors, msgs, open, refused)
               /\ UseAll(d, vectors, msgs, open, refused) = f[N]
  BY UseAllTells
<1> DEFINE H(n) == Halfway(f[n], n, d, vectors, msgs, open)
           Bad  == {n \in 0..N : ~H(n)}
<1>2. /\ f[0] = d
      /\ \A n \in 1..N : f[n] = Told(f[n - 1], n - 1, vectors, msgs, open, refused)
  BY <1>1, TellingStep
<1>3. H(0)
  <2>1. Extends(d, d)
    BY DEF Extends, Device
  <2>2. \A i \in open : i \notin vectors \/ i < 0 => Current(d.vec[i], msgs[i])
    BY DEF Vec
  <2> QED
    BY <1>2, <2>1, <2>2 DEF Halfway
<1>4. ASSUME NEW n \in 1..N, H(n - 1)
      PROVE  H(n)
  <2> DEFINE q == f[n - 1]
             i == n - 1
             r == f[n]
  <2>1. i \in Vec /\ i \in Nat /\ n = i + 1
    BY <1>0 DEF Vec
  <2>2. r = Told(q, i, vectors, msgs, open, refused)
    BY <1>2
  <2>3. Halfway(q, i, d, vectors, msgs, open)
    BY <1>4
  <2> SUFFICES Halfway(r, n, d, vectors, msgs, open)
    OBVIOUS
  <2> HIDE DEF q, i, r, H
  <2>4. q \in Device /\ Sound(q) /\ q.nr >= d.nr
    BY <2>3 DEF Halfway, Extends
  <2>5. CASE i \in vectors
    <3>1. r = DoUse(q, i, msgs[i], TRUE, open, refused) /\ msgs[i] \in Msg
      BY <2>1, <2>2, <2>5 DEF Told
    <3>2. Used(r, q, i, msgs[i], open)
      BY <2>1, <2>4, <3>1, DoUseGives
    <3>3. msgs[i] # None
      BY <3>1, NAssumption DEF None
    <3>4. Extends(r, d)
      BY <2>4, <3>2 DEF Used, Extends, Device
    <3>5. ASSUME NEW j \in open, j \notin vectors \/ j < n
          PROVE  Current(r.vec[j], msgs[j])
      <4>1. CASE j = i
        BY <3>2, <3>3, <4>1 DEF Used, Current
      <4>2. CASE j # i
        <5>1. j \in Vec /\ j \in Int
          BY DEF Vec
        <5>2. j \notin vectors \/ j < i
          BY <2>1, <3>5, <4>2, <5>1
        <5>3. Current(q.vec[j], msgs[j])
          BY <2>3, <5>2 DEF Halfway
        <5>4. Kept(r.vec[j], q.vec[j])
          BY <3>2, <4>2, <5>1 DEF Used
        <5> QED
          BY <5>3, <5>4 DEF Kept, Current
      <4> QED
        BY <4>1, <4>2
    <3>6. ASSUME NEW j \in Vec, r.vec[j].trig = "kvm"
          PROVE  j \in open
      <4>1. q.vec[j].trig = "kvm" \/ j \in open \/ j = i
        BY <3>2, <3>6 DEF Used
      <4> QED
        BY <2>3, <2>5, <4>1 DEF Halfway
    <3> QED
      BY <3>4, <3>5, <3>6 DEF Halfway
  <2>6. CASE i \notin vectors
    <3>1. r = q
      BY <2>2, <2>6 DEF Told
    <3>2. ASSUME NEW j \in open, j \notin vectors \/ j < n
          PROVE  j \notin vectors \/ j < i
      BY <2>1, <2>6, <3>2 DEF Vec
    <3> QED
      BY <2>3, <3>1, <3>2 DEF Halfway
  <2> QED
    BY <2>5, <2>6
<1> HIDE DEF H
<1>5. Bad = {}
  <2>1. SUFFICES ASSUME Bad # {} PROVE FALSE
    OBVIOUS
  <2>2. PICK n \in Bad : \A j \in Bad : n <= j
    <3>1. Bad \subseteq Nat
      BY <1>0
    <3> HIDE DEF Bad
    <3> QED
      BY <2>1, <3>1, LeastNumber
  <2>3. n \in 1..N /\ ~H(n)
    BY <1>0, <1>3
  <2>4. n - 1 \in 0..N /\ ~(n <= n - 1)
    BY <1>0, <2>3
  <2>5. n - 1 \notin Bad
    <3> HIDE DEF Bad
    <3> QED
      BY <2>2, <2>4
  <2> QED
    BY <1>4, <2>3, <2>4, <2>5
<1>6. H(N)
  BY <1>0, <1>5
<1>7. Halfway(f[N], N, d, vectors, msgs, open)
  BY <1>6 DEF H
<1>8. \A i \in open : i < N
  BY <1>0 DEF Vec
<1> QED
  BY <1>1, <1>7, <1>8 DEF Halfway, Extends

LEMMA UseNone ==
    ASSUME NEW d \in Device, Sound(d), NEW msgs, NEW open, NEW refused
    PROVE  UseAll(d, {}, msgs, open, refused) = d
<1>0. N \in Nat \ {0}
  BY NAssumption
<1>1. PICK f : /\ Telling(f, N, d, {}, msgs, open, refused)
               /\ UseAll(d, {}, msgs, open, refused) = f[N]
  BY UseAllTells
<1>2. f[0] = d /\ \A n \in 1..N : f[n] = Told(f[n - 1], n - 1, {}, msgs, open, refused)
  BY <1>1, TellingStep
<1>4. \A q, i : Told(q, i, {}, msgs, open, refused) = q
  BY DEF Told
<1> DEFINE Bad == {n \in 0..N : f[n] # d}
<1>3. Bad = {}
  <2>1. SUFFICES ASSUME Bad # {} PROVE FALSE
    OBVIOUS
  <2>2. PICK n \in Bad : \A j \in Bad : n <= j
    <3>1. Bad \subseteq Nat
      BY <1>0
    <3> HIDE DEF Bad
    <3> QED
      BY <2>1, <3>1, LeastNumber
  <2>3. n \in 1..N /\ f[n] # d
    BY <1>0, <1>2
  <2>4. n - 1 \in 0..N /\ ~(n <= n - 1) /\ f[n] = f[n - 1]
    BY <1>0, <1>2, <1>4, <2>3
  <2>5. n - 1 \notin Bad
    <3> HIDE DEF Bad
    <3> QED
      BY <2>2, <2>4
  <2> QED
    BY <2>3, <2>4, <2>5
<1> QED
  BY <1>0, <1>1, <1>3

-----------------------------------------------------------------------------
(* What the handlers make of dev *)

LEMMA ReleaseAllGives ==
    ASSUME NEW d \in Device, Sound(d), NEW vectors \in SUBSET Vec
    PROVE  LET r == ReleaseAll(d, vectors)
           IN  /\ r \in Device /\ Sound(r) /\ r.nr = d.nr
               /\ \A i \in Vec : Kept(r.vec[i], d.vec[i])
               /\ \A i \in Vec : r.vec[i].trig = "kvm" => d.vec[i].trig = "kvm" /\ i \notin vectors
<1> DEFINE e(i) == IF i \in vectors THEN Release(d, i).vec[i] ELSE d.vec[i]
           v == [i \in Vec |-> e(i)]
           r == ReleaseAll(d, vectors)
<1>0. d.vec \in [Vec -> Entry] /\ d.nr \in 0..N
  BY DEF Device
<1>1. r = [d EXCEPT !.vec = v]
  BY DEF ReleaseAll, Device
<1>2. ASSUME NEW i \in Vec
      PROVE  /\ e(i) \in Entry /\ SoundEntry(e(i), i < d.nr) /\ Kept(e(i), d.vec[i])
             /\ e(i).trig = "kvm" => d.vec[i].trig = "kvm" /\ i \notin vectors
  <2>1. d.vec[i] \in Entry /\ SoundEntry(d.vec[i], i < d.nr)
    BY <1>0 DEF Sound
  <2>2. CASE i \in vectors /\ d.vec[i].virq
    <3> DEFINE t == [d.vec[i] EXCEPT !.trig = "qemu"]
    <3>1. Release(d, i).vec[i] = t
      BY <1>0, <2>2 DEF Release, Device
    <3>2. e(i) = t
      BY <2>2, <3>1
    <3>3. t \in Entry /\ Kept(t, d.vec[i]) /\ t.trig = "qemu"
      BY <2>1 DEF Entry, Kept
    <3>4. d.vec[i].use
      BY <2>1, <2>2 DEF SoundEntry, Unused
    <3> HIDE DEF t, e
    <3>5. SoundEntry(t, i < d.nr)
      BY <2>1, <3>3, <3>4 DEF SoundEntry, Kept
    <3> QED
      BY <2>1, <3>2, <3>3, <3>5
  <2>3. CASE ~(i \in vectors /\ d.vec[i].virq)
    <3>1. e(i) = d.vec[i]
      BY <2>3 DEF Release
    <3>2. d.vec[i].trig = "kvm" => i \notin vectors
      BY <2>1, <2>3 DEF SoundEntry
    <3> HIDE DEF e
    <3> QED
      BY <2>1, <3>1, <3>2 DEF Kept
  <2> QED
    BY <2>2, <2>3
<1> HIDE DEF e
<1>3. v \in [Vec -> Entry] /\ \A i \in Vec : v[i] = e(i)
  BY <1>2
<1> SUFFICES /\ r \in Device /\ Sound(r) /\ r.nr = d.nr
             /\ \A i \in Vec : Kept(r.vec[i], d.vec[i])
             /\ \A i \in Vec : r.vec[i].trig = "kvm" => d.vec[i].trig = "kvm" /\ i \notin vectors
  OBVIOUS
<1> HIDE DEF r, v
<1>4. r \in Device /\ r.nr = d.nr /\ r.vec = v
  BY <1>1, <1>3 DEF Device
<1> QED
  BY <1>2, <1>3, <1>4 DEF Sound

\* No vector is in use.
AllUnused(d) == d \in Device /\ Sound(d) /\ d.nr = 0 /\ \A i \in Vec : d.vec[i] = Unused

LEMMA EmptyIsUnused ==
    ASSUME NEW d \in Device, Sound(d), d.nr = 0
    PROVE  AllUnused(d)
<1>1. ASSUME NEW i \in Vec PROVE d.vec[i] = Unused
  <2>1. ~(i < d.nr)
    BY DEF Vec
  <2> QED
    BY <2>1 DEF Sound, SoundEntry
<1> QED
  BY <1>1 DEF AllUnused

LEMMA DisableGives ==
    ASSUME NEW d \in Device, Sound(d)
    PROVE  AllUnused(DisableVectors(d))
<1> DEFINE r == DisableVectors(d)
           v == [i \in Vec |-> IF i < d.nr /\ d.vec[i].use THEN Unused ELSE d.vec[i]]
<1>0. N \in Nat \ {0}
  BY NAssumption
<1>1. r = [d EXCEPT !.nr = 0, !.vpend = {}, !.vec = v]
  BY DEF DisableVectors, Device
<1>2. ASSUME NEW i \in Vec PROVE v[i] = Unused
  BY DEF Sound, SoundEntry
<1>3. v = [i \in Vec |-> v[i]]
  OBVIOUS
<1> HIDE DEF v
<1>4. v \in [Vec -> Entry]
  BY <1>2, <1>3, UnusedIsEntry
<1> HIDE DEF r
<1>5. r \in Device /\ r.nr = 0 /\ r.vec = v
  <2>1. 0 \in 0..N /\ {} \in SUBSET Vec
    BY <1>0
  <2>2. d \in [nr : 0..N, vec : [Vec -> Entry], vpend : SUBSET Vec, pba : BOOLEAN]
    BY DEF Device
  <2>3. r \in [nr : 0..N, vec : [Vec -> Entry], vpend : SUBSET Vec, pba : BOOLEAN]
    BY <1>1, <1>4, <2>1, <2>2
  <2> QED
    BY <1>1, <2>2, <2>3 DEF Device
<1>6. ASSUME NEW i \in Vec PROVE SoundEntry(Unused, i < 0)
  BY DEF SoundEntry, Unused
<1>7. Sound(r)
  BY <1>2, <1>5, <1>6 DEF Sound
<1> QED
  BY <1>5, <1>7, EmptyIsUnused DEF r

\* What vfio_msix_enable and vfio_msi_enable start from.
LEMMA FreshIsUnused ==
    ASSUME NEW d, AllUnused(d)
    PROVE  AllUnused([d EXCEPT !.vec = NoVectors.vec])
<1> DEFINE v == NoVectors.vec
           new == [d EXCEPT !.vec = v]
<1>1. v = [i \in Vec |-> Unused]
  BY DEF NoVectors
<1>2. v \in [Vec -> Entry] /\ \A i \in Vec : v[i] = d.vec[i]
  BY <1>1, UnusedIsEntry DEF AllUnused
<1> SUFFICES AllUnused(new)
  OBVIOUS
<1> HIDE DEF v
<1>3. new \in Device /\ new.nr = d.nr /\ new.vec = v
  <2>1. d \in [nr : 0..N, vec : [Vec -> Entry], vpend : SUBSET Vec, pba : BOOLEAN]
    BY DEF AllUnused, Device
  <2>2. new \in [nr : 0..N, vec : [Vec -> Entry], vpend : SUBSET Vec, pba : BOOLEAN]
    BY <1>2, <2>1
  <2> QED
    BY <2>1, <2>2 DEF Device
<1> HIDE DEF new
<1> QED
  BY <1>2, <1>3 DEF AllUnused, Sound

LEMMA MsiVectorsGives ==
    ASSUME NEW d, AllUnused(d), NEW n \in 1..N, NEW refused, msi \in Msg
    PROVE  LET r == MsiVectors(d, n, refused)
           IN  /\ r \in Device /\ Sound(r) /\ r.nr = n
               /\ \A i \in Vec : i < n => Current(r.vec[i], msi)
<1> DEFINE e0 == [Unused EXCEPT !.use = TRUE, !.heard = TRUE]
           e(i) == Routed(e0, i, msi, refused)
           old == [i \in Vec |-> IF i < n THEN e(i) ELSE d.vec[i]]
           new == EnableVectors(old, n, FALSE, {})
           r == MsiVectors(d, n, refused)
<1>0. N \in Nat \ {0} /\ n \in Nat /\ msi # None /\ msi \in Msg \cup {None}
  BY NAssumption DEF None
<1>1. r = [d EXCEPT !.nr = n, !.vec = new]
  BY DEF MsiVectors
<1>2. e0 \in Entry /\ e0.use
  BY DEF Entry, Unused
<1> HIDE DEF e0
<1>3. ASSUME NEW i \in Vec
      PROVE  e(i) \in Entry /\ e(i).use /\ (e(i).virq => e(i).kmsg = msi)
  BY <1>0, <1>2, RoutedGives
<1> HIDE DEF e
<1>4. ASSUME NEW i \in Vec
      PROVE  /\ old[i] \in Entry
             /\ i < n => old[i].use /\ (old[i].virq => old[i].kmsg = msi)
             /\ ~(i < n) => old[i] = Unused
  BY <1>3, UnusedIsEntry DEF AllUnused
<1>5. old \in [Vec -> Entry]
  <2>1. old = [i \in Vec |-> old[i]]
    OBVIOUS
  <2> HIDE DEF old
  <2> QED
    BY <1>4, <2>1
<1> HIDE DEF old
<1>6. Enabled(new, old, n, FALSE, {})
  BY <1>0, <1>5, EnableVectorsGives
<1> SUFFICES /\ r \in Device /\ Sound(r) /\ r.nr = n
             /\ \A i \in Vec : i < n => Current(r.vec[i], msi)
  OBVIOUS
<1> HIDE DEF r, new
<1>7. r \in Device /\ r.nr = n /\ r.vec = new
  <2>1. n \in 0..N /\ new \in [Vec -> Entry] /\ d \in Device
    BY <1>0, <1>6 DEF AllUnused, Enabled
  <2> QED
    BY <1>1, <2>1 DEF Device
<1>8. ASSUME NEW i \in Vec
      PROVE  SoundEntry(new[i], i < n) /\ (i < n => Current(new[i], msi))
  <2>1. CASE i < n
    <3>1. new[i].trig = IF Bypasses(old[i], FALSE, i \in {}) THEN "kvm" ELSE "qemu"
      BY <1>4, <1>6, <2>1 DEF Enabled
    <3>2. Kept(new[i], old[i])
      BY <1>6 DEF Enabled
    <3> QED
      BY <1>4, <2>1, <3>1, <3>2 DEF Bypasses, SoundEntry, Kept, Current
  <2>2. CASE ~(i < n)
    <3>1. new[i] = Unused
      BY <1>4, <1>6, <2>2 DEF Enabled
    <3> QED
      BY <2>2, <3>1 DEF SoundEntry, Unused
  <2> QED
    BY <2>1, <2>2
<1> QED
  BY <1>7, <1>8 DEF Sound

LEMMA UpdateMsiGives ==
    ASSUME dev \in Device, Sound(dev), NEW m \in Msg,
           \A i \in Vec : i < dev.nr => dev.vec[i].use
    PROVE  LET r == UpdateMsi(m)
           IN  /\ r \in Device /\ Sound(r) /\ r.nr = dev.nr
               /\ \A i \in Vec : i < dev.nr => Current(r.vec[i], m)
<1> DEFINE e(i) == IF i < dev.nr /\ dev.vec[i].use /\ dev.vec[i].virq
                   THEN [dev.vec[i] EXCEPT !.kmsg = m] ELSE dev.vec[i]
           v == [i \in Vec |-> e(i)]
           r == UpdateMsi(m)
<1>1. r = [dev EXCEPT !.vec = v]
  BY DEF UpdateMsi, Device
<1>2. ASSUME NEW i \in Vec
      PROVE  /\ e(i) \in Entry /\ SoundEntry(e(i), i < dev.nr)
             /\ i < dev.nr => Current(e(i), m)
  <2>1. dev.vec[i] \in Entry /\ SoundEntry(dev.vec[i], i < dev.nr)
    BY DEF Sound, Device
  <2>2. CASE i < dev.nr /\ dev.vec[i].use /\ dev.vec[i].virq
    <3> DEFINE t == [dev.vec[i] EXCEPT !.kmsg = m]
    <3>1. e(i) = t
      BY <2>2
    <3>2. /\ t \in Entry /\ t.kmsg = m /\ t.trig = dev.vec[i].trig
          /\ t.use = dev.vec[i].use /\ t.virq = dev.vec[i].virq
      BY <2>1 DEF Entry
    <3> HIDE DEF t, e
    <3> QED
      BY <2>1, <2>2, <3>1, <3>2 DEF SoundEntry, Current
  <2>3. CASE ~(i < dev.nr /\ dev.vec[i].use /\ dev.vec[i].virq)
    <3>1. e(i) = dev.vec[i]
      BY <2>3
    <3> HIDE DEF e
    <3> QED
      BY <2>1, <2>3, <3>1 DEF Current
  <2> QED
    BY <2>2, <2>3
<1> HIDE DEF e
<1>3. v \in [Vec -> Entry] /\ \A i \in Vec : v[i] = e(i)
  BY <1>2
<1> SUFFICES /\ r \in Device /\ Sound(r) /\ r.nr = dev.nr
             /\ \A i \in Vec : i < dev.nr => Current(r.vec[i], m)
  OBVIOUS
<1> HIDE DEF r, v
<1>4. r \in Device /\ r.nr = dev.nr /\ r.vec = v
  BY <1>1, <1>3 DEF Device
<1> QED
  BY <1>2, <1>3, <1>4 DEF Sound

-----------------------------------------------------------------------------
(* The inductive invariant *)

\* The guest's side.
GuestType ==
    /\ cap \in {"none", "msi", "msix"} /\ fmask \in BOOLEAN /\ tmask \in SUBSET Vec
    /\ tmsg \in [Vec -> Msg] /\ msi \in Msg

\* QEMU's mode is the guest's, but that INTx may fail, and MSI where the host has
\* no vector.
ModeInv ==
    /\ mode \in {"none", "intx", "msi", "msix"}
    /\ mode = "msix" <=> cap = "msix"
    /\ mode = "msi" => cap = "msi"
    /\ cap = "msi" => mode = "msi" \/ (mode = "none" /\ "msi" \in Fails)

\* The vectors d serve the mode md, with the open entries and the messages given.
Serves(d, md, open, table, message) ==
    /\ d \in Device /\ Sound(d)
    /\ md = "msix" =>
         /\ \A i \in open : Current(d.vec[i], table[i])
         /\ \A i \in Vec : d.vec[i].trig = "kvm" => i \in open
    /\ md = "msi" => \A i \in Vec : i < d.nr => Current(d.vec[i], message)
    /\ md \notin {"msi", "msix"} => AllUnused(d)

FaultInv ==
    /\ fault \subseteq {"double free"}
    /\ "msi" \notin Fails => fault = {}

MsiInv ==
    /\ GuestType
    /\ ModeInv
    /\ Serves(dev, mode, Open, tmsg, msi)
    /\ FaultInv

-----------------------------------------------------------------------------

LEMMA MsiInvInit == Init => MsiInv
<1> SUFFICES ASSUME Init PROVE MsiInv
  OBVIOUS
<1>1. GuestType
  <2>1. (CHOOSE m \in Msg : TRUE) \in Msg
    BY NAssumption
  <2> QED
    BY <2>1 DEF Init, GuestType
<1>2. ModeInv /\ FaultInv
  BY DEF Init, ModeInv, FaultInv
<1>3. AllUnused(dev)
  BY NoVectorsIsSound, EmptyIsUnused DEF Init
<1>4. Serves(dev, mode, Open, tmsg, msi)
  BY <1>3 DEF Init, Serves, AllUnused
<1> QED
  BY <1>1, <1>2, <1>4 DEF MsiInv

\* What the properties need follows.
LEMMA MsiInvImplies ==
    ASSUME MsiInv
    PROVE  BypassIsCurrent /\ OpenVectorsFire /\ VectorsLeaveNothing
<1> USE DEF MsiInv
<1>1. ASSUME NEW i \in Vec, dev.vec[i].trig = "kvm"
      PROVE  /\ dev.vec[i].virq /\ dev.vec[i].kmsg = Message(i)
             /\ mode = "msix" => i \in Open
  <2>1. dev.vec[i].use /\ i < dev.nr /\ dev.vec[i].virq
    BY <1>1 DEF Serves, Sound, SoundEntry, Unused
  <2>2. CASE mode = "msix"
    <3>1. i \in Open /\ Current(dev.vec[i], tmsg[i]) /\ cap # "msi"
      BY <1>1, <2>2 DEF Serves, ModeInv
    <3> QED
      BY <2>1, <3>1 DEF Current, Message
  <2>3. CASE mode = "msi"
    <3>1. Current(dev.vec[i], msi) /\ cap = "msi"
      BY <2>1, <2>3 DEF Serves, ModeInv
    <3> QED
      BY <2>1, <2>3, <3>1 DEF Current, Message
  <2>4. CASE mode \notin {"msi", "msix"}
    <3>1. dev.vec[i] = Unused
      BY <2>4 DEF Serves, AllUnused
    <3> QED
      BY <2>1, <3>1 DEF Unused
  <2> QED
    BY <2>2, <2>3, <2>4
<1>2. ASSUME mode = "msix", NEW i \in Open PROVE dev.vec[i].trig # "none"
  <2>1. i \in Vec
    BY DEF Open, OpenIn
  <2> QED
    BY <1>2, <2>1 DEF Serves, Current, Sound, SoundEntry
<1>3. ASSUME mode = "msi", NEW i \in 0..(dev.nr - 1) PROVE dev.vec[i].trig # "none"
  <2>1. i \in Vec /\ i < dev.nr
    <3>1. N \in Nat /\ dev.nr \in 0..N
      BY NAssumption DEF Serves, Device
    <3> QED
      BY <3>1 DEF Vec
  <2> QED
    BY <1>3, <2>1 DEF Serves, Current, Sound, SoundEntry
<1>4. VectorsLeaveNothing
  <2>1. mode \in {"none", "intx"} => AllUnused(dev)
    BY DEF Serves
  <2> QED
    BY <2>1 DEF AllUnused, VectorsLeaveNothing
<1>5. BypassIsCurrent
  BY <1>1 DEF BypassIsCurrent
<1>6. OpenVectorsFire
  BY <1>2, <1>3 DEF OpenVectorsFire
<1> QED
  BY <1>4, <1>5, <1>6

\* The vectors nobody uses serve INTx mode, and no mode.
LEMMA LeavesNothing ==
    ASSUME NEW d, AllUnused(d), NEW md, md \notin {"msi", "msix"}
    PROVE  \A open, table, message : Serves(d, md, open, table, message)
BY DEF Serves, AllUnused

\* The core tells the notifiers which vectors close and which open.
LEMMA ReopensServes ==
    ASSUME NEW d, NEW md, NEW was \in SUBSET Vec, NEW open \in SUBSET Vec, NEW old,
           NEW msgs \in [Vec -> Msg], NEW message, NEW refused,
           Serves(d, md, was, old, message),
           \A i \in was \cap open : old[i] = msgs[i],
           md # "msix" => was = {} /\ open = {}
    PROVE  Serves(UseAll(ReleaseAll(d, was \ open), open \ was, msgs, open, refused),
                  md, open, msgs, message)
<1> DEFINE q == ReleaseAll(d, was \ open)
           r == UseAll(q, open \ was, msgs, open, refused)
<1>1. /\ q \in Device /\ Sound(q) /\ q.nr = d.nr
      /\ \A i \in Vec : Kept(q.vec[i], d.vec[i])
      /\ \A i \in Vec : q.vec[i].trig = "kvm" => d.vec[i].trig = "kvm" /\ i \notin was \ open
  BY ReleaseAllGives DEF Serves
<1> SUFFICES Serves(r, md, open, msgs, message)
  OBVIOUS
<1> HIDE DEF q
<1>2. CASE md = "msix"
  <2>1. \A i \in open \ (open \ was) : Current(q.vec[i], msgs[i])
    BY <1>1, <1>2 DEF Serves, Kept, Current
  <2>2. \A i \in Vec : q.vec[i].trig = "kvm" => i \in open
    BY <1>1, <1>2 DEF Serves
  <2>3. /\ r \in Device /\ Sound(r)
        /\ \A i \in open : Current(r.vec[i], msgs[i])
        /\ \A i \in Vec : r.vec[i].trig = "kvm" => i \in open
    <3> DEFINE vs == open \ was
    <3>1. vs \in SUBSET open /\ \A i \in open \ vs : Current(q.vec[i], msgs[i])
      BY <2>1
    <3>2. r = UseAll(q, vs, msgs, open, refused)
      OBVIOUS
    <3> HIDE DEF vs, r
    <3>3. q \in Device /\ Sound(q)
      BY <1>1
    <3>4. /\ UseAll(q, vs, msgs, open, refused) \in Device
          /\ Sound(UseAll(q, vs, msgs, open, refused))
          /\ \A i \in open : Current(UseAll(q, vs, msgs, open, refused).vec[i], msgs[i])
          /\ \A i \in Vec : UseAll(q, vs, msgs, open, refused).vec[i].trig = "kvm" => i \in open
      BY <2>2, <3>1, <3>3, TellingGives, Zenon
    <3> QED
      BY <3>2, <3>4
  <2> HIDE DEF r
  <2> QED
    BY <1>2, <2>3 DEF Serves
<1>3. CASE md # "msix"
  <2>1. r = q
    <3>1. open \ was = {}
      BY <1>3
    <3> QED
      BY <1>1, <3>1, UseNone
  <2> HIDE DEF r
  <2>2. md = "msi" => \A i \in Vec : i < q.nr => Current(q.vec[i], message)
    BY <1>1 DEF Serves, Kept, Current
  <2>3. md \notin {"msi", "msix"} => AllUnused(q)
    <3>1. md \notin {"msi", "msix"} => q.nr = 0
      BY <1>1 DEF Serves, AllUnused
    <3> QED
      BY <1>1, <3>1, EmptyIsUnused
  <2> QED
    BY <1>1, <1>3, <2>1, <2>2, <2>3 DEF Serves
<1> QED
  BY <1>2, <1>3

-----------------------------------------------------------------------------
(* Every action keeps the invariant *)

LEMMA OpenIsVec == \A c, f, t : OpenIn(c, f, t) \in SUBSET Vec
BY DEF OpenIn

LEMMA MsixEnableKeeps == ASSUME MsiInv, NEW f \in BOOLEAN, MsixEnable(f) PROVE MsiInv'
<1> USE DEF MsiInv
<1>1. /\ cap' = "msix" /\ fmask' = f /\ mode' = "msix"
      /\ UNCHANGED <<tmask, tmsg, msi, cpend, fault>>
  BY DEF MsixEnable
<1>2. GuestType' /\ ModeInv' /\ FaultInv'
  BY <1>1 DEF GuestType, ModeInv, FaultInv
<1> DEFINE open == OpenIn("msix", f, tmask)
           new  == [DisableVectors(dev) EXCEPT !.vec = NoVectors.vec]
<1>3. PICK refused : dev' = UseAll(Release(DoUse(new, 0, None, FALSE, open, refused), 0),
                                   open, tmsg, open, refused)
  BY DEF MsixEnable
<1>4. open \in SUBSET Vec /\ open = Open' /\ 0 \in Vec
  BY <1>1, OpenIsVec, NAssumption DEF Open, Vec
<1>5. AllUnused(new)
  <2>1. AllUnused(DisableVectors(dev))
    BY DisableGives DEF Serves
  <2> QED
    BY <2>1, FreshIsUnused
<1> HIDE DEF new
<1> DEFINE q == DoUse(new, 0, None, FALSE, open, refused)
<1>6. Used(q, new, 0, None, open)
  <2> HIDE DEF open
  <2>1. None \in Msg \cup {None} /\ FALSE \in BOOLEAN /\ new \in Device /\ Sound(new)
    BY <1>5 DEF AllUnused
  <2> QED
    BY <1>4, <2>1, DoUseGives, Zenon
<1> HIDE DEF q
<1>7. Release(q, 0) = q
  BY <1>6 DEF Release, Used
<1>8. q \in Device /\ Sound(q) /\ \A i \in Vec : q.vec[i].trig = "kvm" => i \in open
  <2>1. ASSUME NEW i \in Vec, q.vec[i].trig = "kvm" PROVE i \in open
    <3>1. new.vec[i].trig = "none"
      BY <1>5 DEF AllUnused, Unused
    <3>2. i = 0 => i \in open
      <4>1. SoundEntry(q.vec[i], i < q.nr)
        BY <1>6 DEF Used, Extends, Sound
      <4> QED
        BY <1>6, <2>1, <4>1 DEF Used, SoundEntry
    <3> QED
      BY <1>6, <2>1, <3>1, <3>2 DEF Used
  <2> QED
    BY <1>6, <2>1 DEF Used, Extends
<1>9. dev' = UseAll(q, open, tmsg, open, refused)
  BY <1>3, <1>7 DEF q
<1>10. Serves(dev', "msix", open, tmsg, msi)
  <2> DEFINE r == UseAll(q, open, tmsg, open, refused)
  <2>1. open \in SUBSET open /\ tmsg \in [Vec -> Msg]
    BY DEF GuestType
  <2>2. \A i \in open \ open : Current(q.vec[i], tmsg[i])
    OBVIOUS
  <2> HIDE DEF open
  <2>3. /\ r \in Device /\ Sound(r)
        /\ \A i \in open : Current(r.vec[i], tmsg[i])
        /\ \A i \in Vec : r.vec[i].trig = "kvm" => i \in open
    BY <1>4, <1>8, <2>1, <2>2, TellingGives, Zenon
  <2> HIDE DEF r
  <2>4. Serves(r, "msix", open, tmsg, msi)
    BY <2>3 DEF Serves
  <2> QED
    BY <1>9, <2>4 DEF r
<1>11. Serves(dev, mode, Open, tmsg, msi)'
  BY <1>1, <1>4, <1>10
<1> QED
  BY <1>2, <1>11

\* Leaving MSI or MSI-X for INTx, or for nothing.
LEMMA LeavingServes ==
    ASSUME Serves(dev, mode, Open, tmsg, msi), NEW md \in IntxMode,
           NEW d, d = DisableVectors(dev) \/ (mode \notin {"msi", "msix"} /\ d = dev)
    PROVE  \A open, table, message : Serves(d, md, open, table, message)
<1>1. AllUnused(d)
  BY DisableGives DEF Serves
<1>2. md \notin {"msi", "msix"}
  BY DEF IntxMode
<1> QED
  BY <1>1, <1>2, LeavesNothing

LEMMA LeavingKeeps ==
    ASSUME MsiInv, MsixDisable \/ MsiDisable \/ SystemReset
    PROVE  MsiInv'
<1> USE DEF MsiInv
<1>1. mode' \in IntxMode /\ mode' \in {"none", "intx"}
  BY DEF MsixDisable, MsiDisable, SystemReset, IntxMode
<1>2. dev' = DisableVectors(dev) \/ (mode \notin {"msi", "msix"} /\ dev' = dev)
  BY DEF MsixDisable, MsiDisable, SystemReset, DisableInterrupts
<1>3. cap' = "none" /\ UNCHANGED <<tmsg, msi>> /\ fmask' \in BOOLEAN /\ tmask' \in SUBSET Vec
  BY DEF MsixDisable, MsiDisable, SystemReset, GuestType
<1>4. GuestType' /\ ModeInv'
  BY <1>1, <1>3 DEF GuestType, ModeInv
<1>5. FaultInv'
  <2>1. CASE MsixDisable \/ SystemReset
    BY <2>1 DEF MsixDisable, SystemReset, FaultInv
  <2>2. CASE MsiDisable
    BY <2>2 DEF MsiDisable, FaultInv, ModeInv
  <2> QED
    BY <2>1, <2>2
<1>6. \A open, table, message : Serves(dev', mode', open, table, message)
  BY <1>1, <1>2, LeavingServes
<1> QED
  BY <1>4, <1>5, <1>6

LEMMA ReopensKeeps ==
    ASSUME MsiInv, NEW open, NEW msgs, Reopens(open, msgs), tmask' \in SUBSET Vec,
           fmask' \in BOOLEAN, tmsg' = msgs, msgs \in [Vec -> Msg],
           open = Open', \A i \in Open \cap open : tmsg[i] = msgs[i]
    PROVE  MsiInv'
<1> USE DEF MsiInv
<1>1. UNCHANGED <<mode, cap, msi, ev, owed, fault>>
  BY DEF Reopens
<1>2. GuestType' /\ ModeInv' /\ FaultInv'
  BY <1>1 DEF GuestType, ModeInv, FaultInv
<1>3. PICK refused :
        dev' = UseAll(ReleaseAll(dev, Open \ open), open \ Open, msgs, open, refused)
  BY DEF Reopens
<1>4. Open \in SUBSET Vec /\ open \in SUBSET Vec
  BY OpenIsVec DEF Open
<1>5. mode # "msix" => Open = {} /\ open = {}
  BY <1>1 DEF ModeInv, Open, OpenIn
<1> DEFINE was == Open
<1>6. Serves(dev, mode, was, tmsg, msi) /\ \A i \in was \cap open : tmsg[i] = msgs[i]
  OBVIOUS
<1> HIDE DEF was
<1>7. Serves(UseAll(ReleaseAll(dev, was \ open), open \ was, msgs, open, refused),
             mode, open, msgs, msi)
  BY <1>4, <1>5, <1>6, ReopensServes, Zenon DEF was
<1>8. Serves(dev', mode, open, msgs, msi)
  BY <1>3, <1>7 DEF was
<1> QED
  BY <1>1, <1>2, <1>8

LEMMA MaskingKeeps ==
    ASSUME MsiInv,
           \/ \E f \in BOOLEAN : FunctionMask(f)
           \/ \E i \in Vec : MaskEntry(i)
           \/ \E i \in Vec, m \in Msg : UnmaskEntry(i, m)
    PROVE  MsiInv'
<1>0. cap' = cap
  BY DEF FunctionMask, MaskEntry, UnmaskEntry, Reopens
<1>1. ASSUME NEW f \in BOOLEAN, FunctionMask(f) PROVE MsiInv'
  <2>1. Reopens(OpenIn(cap, f, tmask), tmsg) /\ fmask' = f /\ UNCHANGED <<tmask, tmsg>>
    BY <1>1 DEF FunctionMask
  <2>2. OpenIn(cap, f, tmask) = Open'
    BY <1>0, <2>1 DEF Open
  <2> QED
    BY <2>1, <2>2, ReopensKeeps DEF MsiInv, GuestType
<1>2. ASSUME NEW i \in Vec, MaskEntry(i) PROVE MsiInv'
  <2>1. Reopens(OpenIn(cap, fmask, tmask'), tmsg) /\ UNCHANGED <<fmask, tmsg>>
        /\ tmask' = tmask \cup {i}
    BY <1>2 DEF MaskEntry
  <2>2. OpenIn(cap, fmask, tmask') = Open'
    BY <1>0, <2>1 DEF Open
  <2> QED
    BY <2>1, <2>2, ReopensKeeps DEF MsiInv, GuestType
<1>3. ASSUME NEW i \in Vec, NEW m \in Msg, UnmaskEntry(i, m) PROVE MsiInv'
  <2>1. /\ i \in tmask /\ Reopens(OpenIn(cap, fmask, tmask'), tmsg')
        /\ tmask' = tmask \ {i} /\ tmsg' = [tmsg EXCEPT ![i] = m] /\ fmask' = fmask
    BY <1>3 DEF UnmaskEntry
  <2>2. OpenIn(cap, fmask, tmask') = Open'
    BY <1>0, <2>1 DEF Open
  <2>3. i \notin Open
    BY <2>1 DEF Open, OpenIn
  <2>4. tmsg' \in [Vec -> Msg] /\ \A j \in Open : tmsg[j] = tmsg'[j]
    BY <2>1, <2>3 DEF MsiInv, GuestType, Open, OpenIn
  <2>5. tmask' \in SUBSET Vec /\ fmask' \in BOOLEAN
    BY <2>1 DEF MsiInv, GuestType
  <2> QED
    BY <2>1, <2>2, <2>4, <2>5, ReopensKeeps
<1> QED
  BY <1>1, <1>2, <1>3

\* MSI: for all the vectors the guest asks for, for fewer, for none.
LEMMA MsiEnableKeeps ==
    ASSUME MsiInv, NEW k \in 1..N, NEW g \in 0..k, MsiEnable(k, g)
    PROVE  MsiInv'
<1> USE DEF MsiInv
<1> DEFINE new == [DisableVectors(dev) EXCEPT !.vec = NoVectors.vec]
<1>0. N \in Nat \ {0} /\ k \in Nat /\ g \in Nat
  BY NAssumption
<1>1. PICK refused :
        LET first == MsiVectors(new, k, refused)
        IN  IF g = k THEN dev' = first /\ mode' = "msi"
            ELSE IF g > 0 THEN dev' = MsiVectors(MsiRetry(first), g, refused) /\ mode' = "msi"
            ELSE "msi" \in Fails /\ dev' = MsiRetry(first) /\ mode' = "none"
  BY DEF MsiEnable
<1>2. cap' = "msi" /\ UNCHANGED <<fmask, tmask, tmsg, msi, fault>>
  BY DEF MsiEnable
<1>3. AllUnused(new)
  <2>1. AllUnused(DisableVectors(dev))
    BY DisableGives DEF Serves
  <2> QED
    BY <2>1, FreshIsUnused
<1> HIDE DEF new
<1> DEFINE first == MsiVectors(new, k, refused)
           retry == MsiRetry(first)
           second == MsiVectors(retry, g, refused)
<1>4. msi \in Msg
  BY DEF GuestType
<1>5. /\ first \in Device /\ Sound(first) /\ first.nr = k
      /\ \A i \in Vec : i < k => Current(first.vec[i], msi)
  BY <1>3, <1>4, MsiVectorsGives
<1> HIDE DEF first
<1>6. AllUnused(retry)
  BY <1>5, DisableGives DEF MsiRetry
<1> HIDE DEF retry
<1>7. CASE g = k
  <2>1. dev' = first /\ mode' = "msi"
    BY <1>1, <1>7 DEF first
  <2>2. GuestType' /\ ModeInv' /\ FaultInv'
    BY <1>2, <2>1 DEF GuestType, ModeInv, FaultInv
  <2>3. \A open, table : Serves(first, "msi", open, table, msi)
    BY <1>5 DEF Serves
  <2> QED
    BY <1>2, <2>1, <2>2, <2>3
<1>8. CASE g # k /\ g > 0
  <2>1. dev' = second /\ mode' = "msi"
    BY <1>1, <1>8 DEF first, retry
  <2>2. GuestType' /\ ModeInv' /\ FaultInv'
    BY <1>2, <2>1 DEF GuestType, ModeInv, FaultInv
  <2>3. /\ second \in Device /\ Sound(second) /\ second.nr = g
        /\ \A i \in Vec : i < g => Current(second.vec[i], msi)
    <3>1. g \in 1..N
      BY <1>0, <1>8
    <3> QED
      BY <1>4, <1>6, <3>1, MsiVectorsGives
  <2> HIDE DEF second
  <2>4. \A open, table : Serves(second, "msi", open, table, msi)
    BY <2>3 DEF Serves
  <2> QED
    BY <1>2, <2>1, <2>2, <2>4
<1>9. CASE g # k /\ ~(g > 0)
  <2>1. "msi" \in Fails /\ dev' = retry /\ mode' = "none"
    BY <1>1, <1>9 DEF first, retry
  <2>2. GuestType' /\ ModeInv' /\ FaultInv'
    BY <1>2, <2>1 DEF GuestType, ModeInv, FaultInv
  <2>3. \A open, table, message : Serves(retry, "none", open, table, message)
    BY <1>6, LeavesNothing
  <2> QED
    BY <2>1, <2>2, <2>3
<1> QED
  BY <1>7, <1>8, <1>9

LEMMA MsiMessageKeeps ==
    ASSUME MsiInv, NEW m \in Msg, MsiMessage(m)
    PROVE  MsiInv'
<1> USE DEF MsiInv
<1>1. msi' = m /\ UNCHANGED <<mode, cap, fmask, tmask, tmsg, fault>> /\ Open' = Open
  BY DEF MsiMessage, Open
<1>2. GuestType' /\ ModeInv' /\ FaultInv'
  BY <1>1 DEF GuestType, ModeInv, FaultInv
<1>3. CASE mode = "msi"
  <2>1. dev' = UpdateMsi(m)
    BY <1>3 DEF MsiMessage, ModeInv
  <2> DEFINE r == UpdateMsi(m)
  <2>2. /\ r \in Device /\ Sound(r) /\ r.nr = dev.nr
        /\ \A i \in Vec : i < dev.nr => Current(r.vec[i], m)
    <3>1. \A i \in Vec : i < dev.nr => dev.vec[i].use
      BY <1>3 DEF Serves, Current
    <3>2. dev \in Device /\ Sound(dev)
      BY DEF Serves
    <3> QED
      BY <3>1, <3>2, UpdateMsiGives
  <2> HIDE DEF r
  <2>3. \A open, table : Serves(r, "msi", open, table, m)
    BY <2>2 DEF Serves
  <2> QED
    BY <1>1, <1>2, <1>3, <2>1, <2>3 DEF r
<1>4. CASE mode = "msix"
  <2>1. dev' = dev
    BY <1>4 DEF MsiMessage, ModeInv
  <2> QED
    BY <1>1, <1>2, <1>4, <2>1 DEF Serves
<1>5. CASE mode \notin {"msi", "msix"}
  <2>1. AllUnused(dev')
    <3>1. dev' = UpdateMsi(m) \/ dev' = dev
      BY DEF MsiMessage
    <3>2. AllUnused(dev)
      BY <1>5 DEF Serves
    <3> DEFINE r == UpdateMsi(m)
    <3>3. r \in Device /\ Sound(r) /\ r.nr = dev.nr
      <4>1. \A i \in Vec : i < dev.nr => dev.vec[i].use
        BY <3>2 DEF AllUnused, Vec
      <4> QED
        BY <3>2, <4>1, UpdateMsiGives DEF AllUnused
    <3> HIDE DEF r
    <3>4. AllUnused(r)
      BY <3>2, <3>3, EmptyIsUnused DEF AllUnused
    <3> QED
      BY <3>1, <3>2, <3>4 DEF r
  <2>2. Serves(dev', mode, Open, tmsg, m)
    BY <1>5, <2>1, LeavesNothing
  <2> QED
    BY <1>1, <1>2, <2>2
<1> QED
  BY <1>3, <1>4, <1>5 DEF ModeInv

LEMMA InterruptKeeps ==
    ASSUME MsiInv, NEW i \in Vec, MsiInterrupt(i) \/ Fire(i)
    PROVE  MsiInv'
<1> USE DEF MsiInv
<1>1. UNCHANGED <<mode, cap, fmask, tmask, tmsg, msi>> /\ Open' = Open
  BY DEF MsiInterrupt, Fire, guest, Open
<1>2. GuestType' /\ ModeInv'
  BY <1>1 DEF GuestType, ModeInv
<1>3. FaultInv'
  <2>1. CASE Fire(i)
    BY <2>1 DEF Fire, FaultInv
  <2>2. CASE MsiInterrupt(i)
    <3>1. mode \in {"msi", "msix"}
      <4>1. SUFFICES ASSUME mode \notin {"msi", "msix"} PROVE FALSE
        OBVIOUS
      <4>2. dev.vec[i] = Unused
        BY <4>1 DEF Serves, AllUnused
      <4> QED
        BY <2>2, <4>2 DEF MsiInterrupt, Unused
    <3>2. fault' = fault
      BY <2>2, <3>1 DEF MsiInterrupt
    <3> QED
      BY <3>2 DEF FaultInv
  <2> QED
    BY <2>1, <2>2
<1>4. /\ dev' \in Device /\ dev'.nr = dev.nr /\ dev'.vec = dev.vec
      /\ mode \notin {"msi", "msix"} => dev' = dev
  <2>1. dev \in Device
    BY DEF Serves
  <2>2. dev' = dev \/ (mode = "msix" /\ dev' = [dev EXCEPT !.vpend = @ \cup {i}, !.pba = TRUE])
    BY DEF MsiInterrupt, Fire
  <2> QED
    BY <2>1, <2>2 DEF Device
<1>5. Sound(dev)'
  BY <1>4 DEF Serves, Sound
<1>6. Serves(dev', mode, Open, tmsg, msi)
  BY <1>4, <1>5 DEF Serves
<1> QED
  BY <1>1, <1>2, <1>3, <1>6

LEMMA MsiInvNext == MsiInv /\ [Next]_vars => MsiInv'
<1> SUFFICES ASSUME MsiInv, [Next]_vars PROVE MsiInv'
  OBVIOUS
<1>1. ASSUME NEW f \in BOOLEAN, MsixEnable(f) PROVE MsiInv'
  BY <1>1, MsixEnableKeeps
<1>2. CASE MsixDisable \/ MsiDisable \/ SystemReset
  BY <1>2, LeavingKeeps
<1>3. ASSUME NEW i \in Vec, MsiInterrupt(i) \/ Fire(i) PROVE MsiInv'
  BY <1>3, InterruptKeeps
<1>4. CASE \/ \E f \in BOOLEAN : FunctionMask(f)
           \/ \E i \in Vec : MaskEntry(i)
           \/ \E i \in Vec, m \in Msg : UnmaskEntry(i, m)
  BY <1>4, MaskingKeeps
<1>5. ASSUME NEW k \in 1..N, NEW g \in 0..k, MsiEnable(k, g) PROVE MsiInv'
  BY <1>5, MsiEnableKeeps
<1>6. ASSUME NEW m \in Msg, MsiMessage(m) PROVE MsiInv'
  BY <1>6, MsiMessageKeeps
<1>7. CASE UNCHANGED vars
  BY <1>7 DEF vars, guest, MsiInv, GuestType, ModeInv, FaultInv, Open
<1> QED
  BY <1>1, <1>2, <1>3, <1>4, <1>5, <1>6, <1>7 DEF Next

-----------------------------------------------------------------------------

\* The vectors serve the guest's mode at all times.
THEOREM MsiInvariant == Spec => []MsiInv
<1> QED
  BY MsiInvInit, MsiInvNext, PTL DEF Spec

\* A vector that bypasses QEMU is open and carries the guest's last message
\* (vfio_msix_vector_do_use, vfio_msix_vector_release, vfio_update_msi).
THEOREM BypassCurrent == Spec => []BypassIsCurrent
<1>1. MsiInv => BypassIsCurrent
  BY MsiInvImplies
<1> QED
  BY <1>1, MsiInvariant, PTL

\* The host signals an eventfd for every vector the guest waits for
\* (vfio_enable_vectors, vfio_msix_vector_do_use).
THEOREM OpenFire == Spec => []OpenVectorsFire
<1>1. MsiInv => OpenVectorsFire
  BY MsiInvImplies
<1> QED
  BY <1>1, MsiInvariant, PTL

\* After vfio_msi_disable_common no vector has a handler, a route or an eventfd.
THEOREM LeaveNothing == Spec => []VectorsLeaveNothing
<1>1. MsiInv => VectorsLeaveNothing
  BY MsiInvImplies
<1> QED
  BY <1>1, MsiInvariant, PTL

\* No interrupt comes to vfio_msi_interrupt in a mode it aborts in.
THEOREM NeverAborts == Spec => []("abort" \notin fault)
<1>1. MsiInv => "abort" \notin fault
  BY DEF MsiInv, FaultInv
<1> QED
  BY <1>1, MsiInvariant, PTL

\* Where the host grants at least one MSI vector msi_vectors is not freed twice
\* either (vfio_msi_enable, vfio_msi_disable).
THEOREM NoFaultWithVectors == ASSUME "msi" \notin Fails PROVE Spec => []NoFault
<1>1. MsiInv => NoFault
  BY DEF MsiInv, FaultInv, NoFault
<1> QED
  BY <1>1, MsiInvariant, PTL

=============================================================================
