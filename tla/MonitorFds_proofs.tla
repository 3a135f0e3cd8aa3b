--------------------------- MODULE MonitorFds_proofs ---------------------------
(***************************************************************************)
(* Every descriptor that is open has one owner who will close it, however  *)
(* many clients, names, sets and descriptors there are, and whatever the   *)
(* list of the sets has become.                                            *)
(*                                                                         *)
(* The invariant: the list is ordered by id, and an open descriptor is of  *)
(* a name, a user, or a set, of one of them, which never have a closed     *)
(* one.  An owner keeps a descriptor, gives it away or closes it: there is *)
(* a lemma for each, about any set of sets (SetsShrink, SetGrows,          *)
(* SetComes, NameComes, NameGoes, UserGoes), and what the code does to the *)
(* list is one of them (RemoveAtGives, ReplaceGives, InsertAtGives,        *)
(* NotEmptyGives).                                                         *)
(***************************************************************************)
EXTENDS Monitor, Sequences, FiniteSetTheorems, WellFoundedInduction, TLAPS

SetType == [id : Nat, fds : SUBSET [fd : Fd, removed : BOOLEAN], dups : SUBSET Fd]

\* The list is ordered by id.
Sorted(l) == \A i, j \in DOMAIN l : i < j => l[i].id < l[j].id

-----------------------------------------------------------------------------
(* Numbers and lists *)

Below == {p \in Nat \X Nat : p[1] < p[2]}

\* What induction rests on: a set of numbers that is not empty has a least one.
LEMMA LeastNumber ==
    ASSUME NEW S, S \subseteq Nat, S # {}
    PROVE  \E n \in S : \A k \in S : n <= k
<1>1. IsWellFoundedOn(Below, Nat)
  BY NatLessThanWellFounded DEF OpToRel, Below
<1>2. \E n \in S : \A k \in S : ~(<<k, n>> \in Below)
  BY <1>1, WFMin
<1>3. PICK n \in S : \A k \in S : ~(<<k, n>> \in Below)
  BY <1>2
<1>4. \A k \in S : ~(k < n)
  BY <1>3 DEF Below
<1> QED
  BY <1>4

LEMMA MinGives ==
    ASSUME NEW S, S \subseteq Nat, S # {}
    PROVE  F!Min(S) \in S /\ \A k \in S : F!Min(S) <= k
<1>1. \E n \in S : \A k \in S : n <= k
  BY LeastNumber
<1> QED
  BY <1>1 DEF F!Min

LEMMA SortedIsDistinct ==
    ASSUME NEW l \in Seq(SetType), Sorted(l), NEW i \in DOMAIN l, NEW j \in DOMAIN l, i # j
    PROVE  l[i].id # l[j].id /\ l[i] # l[j]
<1>1. i \in Nat /\ j \in Nat /\ l[i] \in SetType /\ l[j] \in SetType
  OBVIOUS
<1>2. l[i].id \in Nat /\ l[j].id \in Nat
  BY <1>1 DEF SetType
<1>3. l[i].id < l[j].id \/ l[j].id < l[i].id
  BY <1>1 DEF Sorted
<1> QED
  BY <1>2, <1>3

\* One element goes.
LEMMA RemoveAtGives ==
    ASSUME NEW l \in Seq(SetType), Sorted(l), NEW i \in DOMAIN l
    PROVE  LET r == F!RemoveAt(l, i)
           IN  r \in Seq(SetType) /\ Sorted(r) /\ F!ToSet(r) = F!ToSet(l) \ {l[i]}
<1> DEFINE r == F!RemoveAt(l, i)
<1>1. i \in 1..Len(l) /\ Len(l) \in Nat
  OBVIOUS
<1>2. /\ r \in Seq(SetType) /\ Len(r) = Len(l) - 1
      /\ \A j \in 1..(Len(l) - 1) : r[j] = IF j < i THEN l[j] ELSE l[j + 1]
  <2> DEFINE a == SubSeq(l, 1, i - 1)
             b == SubSeq(l, i + 1, Len(l))
  <2>1. a \in Seq(SetType) /\ Len(a) = i - 1 /\ \A j \in 1..(i - 1) : a[j] = l[j]
    BY <1>1
  <2>2. /\ b \in Seq(SetType) /\ Len(b) = Len(l) - i
        /\ \A j \in 1..(Len(l) - i) : b[j] = l[i + j]
    BY <1>1
  <2>3. r = a \o b
    BY DEF F!RemoveAt
  <2> HIDE DEF a, b, r
  <2> QED
    BY <1>1, <2>1, <2>2, <2>3
<1> SUFFICES r \in Seq(SetType) /\ Sorted(r) /\ F!ToSet(r) = F!ToSet(l) \ {l[i]}
  OBVIOUS
<1> HIDE DEF r
<1>3. Sorted(r)
  <2> SUFFICES ASSUME NEW j \in DOMAIN r, NEW k \in DOMAIN r, j < k
               PROVE  r[j].id < r[k].id
    BY DEF Sorted
  <2> DEFINE at(n) == IF n < i THEN n ELSE n + 1
  <2>1. at(j) \in DOMAIN l /\ at(k) \in DOMAIN l /\ at(j) < at(k)
    BY <1>1, <1>2
  <2>2. r[j] = l[at(j)] /\ r[k] = l[at(k)]
    BY <1>1, <1>2
  <2> QED
    BY <2>1, <2>2 DEF Sorted
<1>4. F!ToSet(r) = F!ToSet(l) \ {l[i]}
  <2>1. ASSUME NEW j \in DOMAIN r PROVE r[j] \in F!ToSet(l) \ {l[i]}
    <3> DEFINE k == IF j < i THEN j ELSE j + 1
    <3>1. k \in DOMAIN l /\ k # i /\ r[j] = l[k]
      BY <1>1, <1>2
    <3>2. l[k] # l[i]
      BY <3>1, SortedIsDistinct
    <3> QED
      BY <3>1, <3>2 DEF F!ToSet
  <2>2. ASSUME NEW k \in DOMAIN l, k # i PROVE l[k] \in F!ToSet(r)
    <3>1. CASE k < i
      <4>1. k \in DOMAIN r /\ r[k] = l[k]
        BY <1>1, <1>2, <3>1
      <4> QED
        BY <4>1 DEF F!ToSet
    <3>2. CASE ~(k < i)
      <4>1. /\ k - 1 \in 1..(Len(l) - 1) /\ ~(k - 1 < i) /\ (k - 1) + 1 = k
            /\ k - 1 \in DOMAIN r
        BY <1>1, <1>2, <2>2, <3>2
      <4>2. r[k - 1] = l[k]
        BY <1>2, <4>1
      <4> QED
        BY <4>1, <4>2 DEF F!ToSet
    <3> QED
      BY <3>1, <3>2
  <2>3. F!ToSet(r) \subseteq F!ToSet(l) \ {l[i]}
    BY <2>1 DEF F!ToSet
  <2>4. F!ToSet(l) \ {l[i]} \subseteq F!ToSet(r)
    BY <2>2 DEF F!ToSet
  <2> QED
    BY <2>3, <2>4
<1> QED
  BY <1>2, <1>3, <1>4

\* One element comes, in its place.
LEMMA InsertAtGives ==
    ASSUME NEW l \in Seq(SetType), Sorted(l), NEW i \in 1..(Len(l) + 1), NEW s \in SetType,
           \A j \in DOMAIN l : IF j < i THEN l[j].id < s.id ELSE s.id < l[j].id
    PROVE  LET r == F!InsertAt(l, i, s)
           IN  r \in Seq(SetType) /\ Sorted(r) /\ F!ToSet(r) = F!ToSet(l) \cup {s}
<1> DEFINE r == F!InsertAt(l, i, s)
<1>1. Len(l) \in Nat /\ DOMAIN l = 1..Len(l) /\ i \in Nat
  OBVIOUS
<1>2. /\ r \in Seq(SetType) /\ Len(r) = Len(l) + 1
      /\ \A j \in 1..(Len(l) + 1) :
           r[j] = IF j < i THEN l[j] ELSE IF j = i THEN s ELSE l[j - 1]
  <2> DEFINE a == SubSeq(l, 1, i - 1)
             b == SubSeq(l, i, Len(l))
             c == a \o <<s>>
  <2>1. a \in Seq(SetType) /\ Len(a) = i - 1 /\ \A j \in 1..(i - 1) : a[j] = l[j]
    BY <1>1
  <2>2. /\ b \in Seq(SetType) /\ Len(b) = Len(l) - i + 1
        /\ \A j \in 1..(Len(l) - i + 1) : b[j] = l[i + j - 1]
    BY <1>1
  <2>3. r = c \o b
    BY DEF F!InsertAt
  <2> HIDE DEF a, b, r
  <2>4. c \in Seq(SetType) /\ Len(c) = i /\ c[i] = s /\ \A j \in 1..(i - 1) : c[j] = l[j]
    BY <1>1, <2>1
  <2> HIDE DEF c
  <2>5. /\ r \in Seq(SetType) /\ Len(r) = Len(l) + 1
        /\ \A j \in 1..(Len(l) + 1) : r[j] = IF j <= i THEN c[j] ELSE b[j - i]
    <3>1. r \in Seq(SetType) /\ Len(r) = Len(c) + Len(b)
      BY <2>2, <2>3, <2>4
    <3>2. Len(r) = Len(l) + 1
      BY <1>1, <2>2, <2>4, <3>1
    <3>3. \A j \in 1..(Len(l) + 1) : r[j] = IF j <= i THEN c[j] ELSE b[j - i]
      BY <1>1, <2>2, <2>3, <2>4
    <3> QED
      BY <3>1, <3>2, <3>3
  <2>6. ASSUME NEW j \in 1..(Len(l) + 1), j > i PROVE r[j] = l[j - 1]
    <3>1. j - i \in 1..(Len(l) - i + 1) /\ i + (j - i) - 1 = j - 1 /\ ~(j <= i)
      BY <1>1, <2>6
    <3> QED
      BY <2>2, <2>5, <3>1
  <2>7. ASSUME NEW j \in 1..(Len(l) + 1), j <= i
        PROVE  r[j] = IF j = i THEN s ELSE l[j]
    BY <1>1, <2>4, <2>5, <2>7
  <2> QED
    BY <1>1, <2>5, <2>6, <2>7
<1> SUFFICES r \in Seq(SetType) /\ Sorted(r) /\ F!ToSet(r) = F!ToSet(l) \cup {s}
  OBVIOUS
<1> HIDE DEF r
<1> DEFINE at(n) == IF n < i THEN n ELSE n - 1
<1>3. \A j \in DOMAIN r : j # i => at(j) \in DOMAIN l /\ r[j] = l[at(j)]
  BY <1>1, <1>2
<1>4. Sorted(r)
  <2> SUFFICES ASSUME NEW j \in DOMAIN r, NEW k \in DOMAIN r, j < k
               PROVE  r[j].id < r[k].id
    BY DEF Sorted
  <2>0. j \in Nat /\ k \in Nat
    BY <1>2
  <2>1. CASE j # i /\ k # i
    <3>1. at(j) < at(k)
      BY <1>1, <2>0, <2>1
    <3> QED
      BY <1>3, <2>1, <3>1 DEF Sorted
  <2>2. CASE j = i
    <3>1. k # i /\ ~(at(k) < i) /\ r[j] = s
      BY <1>1, <1>2, <2>0, <2>2
    <3> QED
      BY <1>3, <3>1
  <2>3. CASE k = i
    <3>1. j # i /\ at(j) < i /\ r[k] = s
      BY <1>1, <1>2, <2>0, <2>3
    <3> QED
      BY <1>3, <3>1
  <2> QED
    BY <2>1, <2>2, <2>3
<1>5. F!ToSet(r) = F!ToSet(l) \cup {s}
  <2>1. F!ToSet(r) \subseteq F!ToSet(l) \cup {s}
    <3>1. ASSUME NEW j \in DOMAIN r PROVE r[j] \in F!ToSet(l) \cup {s}
      <4>1. CASE j = i
        BY <1>1, <1>2, <4>1
      <4>2. CASE j # i
        BY <1>3, <4>2 DEF F!ToSet
      <4> QED
        BY <4>1, <4>2
    <3> QED
      BY <3>1 DEF F!ToSet
  <2>2. ASSUME NEW k \in DOMAIN l PROVE l[k] \in F!ToSet(r)
    <3> DEFINE j == IF k < i THEN k ELSE k + 1
    <3>1. j \in DOMAIN r /\ r[j] = l[k]
      BY <1>1, <1>2
    <3> QED
      BY <3>1 DEF F!ToSet
  <2>3. s \in F!ToSet(r)
    <3>1. i \in DOMAIN r /\ r[i] = s
      BY <1>1, <1>2
    <3> QED
      BY <3>1 DEF F!ToSet
  <2>4. F!ToSet(l) \subseteq F!ToSet(r)
    BY <2>2 DEF F!ToSet
  <2> QED
    BY <2>1, <2>3, <2>4
<1> QED
  BY <1>2, <1>4, <1>5

Replaced(l, i, t) == [l EXCEPT ![i] = t]

\* One element becomes another with its id.
LEMMA ReplaceGives ==
    ASSUME NEW l \in Seq(SetType), Sorted(l), NEW i \in DOMAIN l, NEW t \in SetType,
           t.id = l[i].id
    PROVE  LET r == Replaced(l, i, t)
           IN  r \in Seq(SetType) /\ Sorted(r) /\ F!ToSet(r) = (F!ToSet(l) \ {l[i]}) \cup {t}
<1> DEFINE r == Replaced(l, i, t)
<1> USE DEF Replaced
<1>1. /\ r \in Seq(SetType) /\ DOMAIN r = DOMAIN l /\ r[i] = t
      /\ \A j \in DOMAIN l : j # i => r[j] = l[j]
  OBVIOUS
<1>2. DOMAIN l \subseteq Nat
  OBVIOUS
<1>3. \A j \in DOMAIN l : r[j].id = l[j].id
  BY <1>1
<1>4. Sorted(r)
  BY <1>1, <1>3 DEF Sorted
<1>5. \A j \in DOMAIN l : j # i => l[j] # l[i]
  BY SortedIsDistinct
<1>6. F!ToSet(r) = (F!ToSet(l) \ {l[i]}) \cup {t}
  <2>1. ASSUME NEW j \in DOMAIN l PROVE r[j] \in (F!ToSet(l) \ {l[i]}) \cup {t}
    BY <1>1, <1>5 DEF F!ToSet
  <2>2. ASSUME NEW j \in DOMAIN l, j # i PROVE l[j] \in F!ToSet(r)
    BY <1>1, <2>2 DEF F!ToSet
  <2>3. t \in F!ToSet(r)
    BY <1>1 DEF F!ToSet
  <2>4. F!ToSet(r) \subseteq (F!ToSet(l) \ {l[i]}) \cup {t}
    BY <1>1, <2>1 DEF F!ToSet
  <2>5. F!ToSet(l) \ {l[i]} \subseteq F!ToSet(r)
    BY <2>2 DEF F!ToSet
  <2> QED
    BY <2>3, <2>4, <2>5
<1> QED
  BY <1>1, <1>4, <1>6
\* kept[n] of NotEmpty, for n up to k.
Keeping(f, k, l) ==
    f = [n \in 0..k |-> IF n = 0 THEN <<>>
                        ELSE IF F!Empty(l[n]) THEN f[n - 1]
                        ELSE Append(f[n - 1], l[n])]

LEMMA KeepingExists ==
    ASSUME NEW l, NEW k \in Nat
    PROVE  \E f : Keeping(f, k, l)
<1> DEFINE S(r, n) == IF F!Empty(l[n]) THEN r ELSE Append(r, l[n])
           T(f, n) == Keeping(f, n, l)
           Bad == {n \in Nat : ~ \E f : T(f, n)}
<1>1. T([n \in 0..0 |-> <<>>], 0)
  BY DEF Keeping
<1>2. ASSUME NEW n \in Nat, NEW f, T(f, n)
      PROVE  \E g : T(g, n + 1)
  <2> DEFINE g == [j \in 0..(n + 1) |-> IF j <= n THEN f[j] ELSE S(f[n], n + 1)]
  <2>1. f = [j \in 0..n |-> IF j = 0 THEN <<>> ELSE S(f[j - 1], j)]
    BY <1>2 DEF Keeping
  <2> HIDE DEF S
  <2>2. ASSUME NEW j \in 0..(n + 1)
        PROVE  g[j] = IF j = 0 THEN <<>> ELSE S(g[j - 1], j)
    <3>1. CASE j = 0
      BY <2>1, <3>1
    <3>2. CASE j # 0 /\ j <= n
      <4>1. j \in 0..n /\ j - 1 \in 0..(n + 1) /\ j - 1 <= n
        BY <3>2
      <4>2. g[j] = f[j] /\ g[j - 1] = f[j - 1]
        BY <3>2, <4>1
      <4> HIDE DEF g
      <4> QED
        BY <2>1, <3>2, <4>1, <4>2
    <3>3. CASE j = n + 1
      <4>1. j # 0 /\ j - 1 = n /\ ~(j <= n) /\ n \in 0..(n + 1) /\ n <= n
        BY <3>3
      <4>2. g[j] = S(f[n], j) /\ g[n] = f[n]
        BY <3>3, <4>1
      <4> HIDE DEF g
      <4> QED
        BY <4>1, <4>2
    <3> QED
      BY <3>1, <3>2, <3>3
  <2>3. g = [j \in 0..(n + 1) |-> IF j = 0 THEN <<>> ELSE S(g[j - 1], j)]
    <3>1. g = [j \in 0..(n + 1) |-> g[j]]
      OBVIOUS
    <3> HIDE DEF g
    <3> QED
      BY <2>2, <3>1
  <2>4. T(g, n + 1)
    <3> HIDE DEF g
    <3> QED
      BY <2>3 DEF Keeping, S
  <2> QED
    BY <2>4
<1> HIDE DEF T
<1>3. Bad = {}
  <2>1. SUFFICES ASSUME Bad # {} PROVE FALSE
    OBVIOUS
  <2>2. PICK n \in Bad : \A j \in Bad : n <= j
    <3>1. Bad \subseteq Nat
      OBVIOUS
    <3> HIDE DEF Bad
    <3> QED
      BY <2>1, <3>1, LeastNumber
  <2>3. n \in Nat /\ n # 0 /\ ~ \E f : T(f, n)
    BY <1>1
  <2>4. n - 1 \in Nat /\ n - 1 \notin Bad /\ (n - 1) + 1 = n
    <3>1. n - 1 \in Nat /\ (n - 1) + 1 = n /\ ~(n <= n - 1)
      BY <2>3
    <3> HIDE DEF Bad
    <3> QED
      BY <2>2, <3>1
  <2>5. PICK f : T(f, n - 1)
    BY <2>4
  <2>6. \E g : T(g, (n - 1) + 1)
    BY <1>2, <2>4, <2>5
  <2> QED
    BY <2>3, <2>4, <2>6
<1> QED
  BY <1>3 DEF T

LEMMA NotEmptyKeeps ==
    ASSUME NEW l \in Seq(SetType)
    PROVE  \E f : /\ F!NotEmpty(l) = f[Len(l)] /\ f[0] = <<>>
                  /\ \A n \in 1..Len(l) : f[n] = IF F!Empty(l[n]) THEN f[n - 1]
                                                 ELSE Append(f[n - 1], l[n])
<1> DEFINE S(r, n) == IF F!Empty(l[n]) THEN r ELSE Append(r, l[n])
           T(f) == f = [n \in 0..Len(l) |-> IF n = 0 THEN <<>>
                                            ELSE IF F!Empty(l[n]) THEN f[n - 1]
                                            ELSE Append(f[n - 1], l[n])]
           c == CHOOSE f : T(f)
<1>1. F!NotEmpty(l) = c[Len(l)]
  BY DEF F!NotEmpty
<1>2. \A f : T(f) <=> Keeping(f, Len(l), l)
  BY DEF Keeping
<1>3. \E f : T(f)
  <2>1. Len(l) \in Nat
    OBVIOUS
  <2> HIDE DEF T
  <2> QED
    BY <1>2, <2>1, KeepingExists
<1>4. T(c)
  <2> HIDE DEF T
  <2> QED
    BY <1>3
<1>5. c = [n \in 0..Len(l) |-> IF n = 0 THEN <<>> ELSE S(c[n - 1], n)]
  <2> HIDE DEF c
  <2> QED
    BY <1>4
<1> HIDE DEF S, T, c
<1>6. 0 \in 0..Len(l) /\ \A n \in 1..Len(l) : n \in 0..Len(l) /\ n # 0
  OBVIOUS
<1>7. c[0] = <<>> /\ \A n \in 1..Len(l) : c[n] = S(c[n - 1], n)
  BY <1>5, <1>6
<1> QED
  BY <1>1, <1>7 DEF S

\* r is what stays of the first n elements of l.
Filters(r, n, l) ==
    /\ r \in Seq(SetType) /\ Sorted(r)
    /\ \A j \in DOMAIN r : \E k \in 1..n : r[j] = l[k] /\ ~F!Empty(l[k])
    /\ \A k \in 1..n : ~F!Empty(l[k]) => \E j \in DOMAIN r : r[j] = l[k]

LEMMA NotEmptyGives ==
    ASSUME NEW l \in Seq(SetType), Sorted(l)
    PROVE  LET r == F!NotEmpty(l)
           IN  r \in Seq(SetType) /\ Sorted(r) /\ F!ToSet(r) = {s \in F!ToSet(l) : ~F!Empty(s)}
<1>0. Len(l) \in Nat /\ DOMAIN l = 1..Len(l)
  OBVIOUS
<1>1. PICK f : /\ F!NotEmpty(l) = f[Len(l)] /\ f[0] = <<>>
               /\ \A n \in 1..Len(l) : f[n] = IF F!Empty(l[n]) THEN f[n - 1]
                                              ELSE Append(f[n - 1], l[n])
  BY NotEmptyKeeps
<1> DEFINE Right(n) == Filters(f[n], n, l)
           Bad == {n \in 0..Len(l) : ~Right(n)}
<1>2. Right(0)
  BY <1>1 DEF Filters, Sorted
<1>3. ASSUME NEW n \in 1..Len(l), Right(n - 1)
      PROVE  Right(n)
  <2> DEFINE q == f[n - 1]
             r == f[n]
  <2>1. Filters(q, n - 1, l)
    BY <1>3
  <2>2. r = IF F!Empty(l[n]) THEN q ELSE Append(q, l[n])
    BY <1>1
  <2>3. \A k \in 1..n : k = n \/ k \in 1..(n - 1)
    OBVIOUS
  <2>4. \A k \in 1..(n - 1) : k \in 1..n /\ k \in DOMAIN l /\ k < n
    BY <1>0
  <2> SUFFICES Filters(r, n, l)
    OBVIOUS
  <2> HIDE DEF q, r, Right
  <2>5. CASE F!Empty(l[n])
    <3>1. r = q
      BY <2>2, <2>5
    <3>2. \A j \in DOMAIN r : \E k \in 1..n : r[j] = l[k] /\ ~F!Empty(l[k])
      BY <2>1, <2>4, <3>1 DEF Filters
    <3>3. \A k \in 1..n : ~F!Empty(l[k]) => \E j \in DOMAIN r : r[j] = l[k]
      BY <2>1, <2>3, <2>5, <3>1 DEF Filters
    <3> QED
      BY <2>1, <3>1, <3>2, <3>3 DEF Filters
  <2>6. CASE ~F!Empty(l[n])
    <3>1. q \in Seq(SetType) /\ l[n] \in SetType /\ r = Append(q, l[n])
      BY <1>0, <2>1, <2>2, <2>6 DEF Filters
    <3>2. /\ r \in Seq(SetType) /\ Len(r) = Len(q) + 1 /\ DOMAIN r = 1..(Len(q) + 1)
          /\ Len(q) \in Nat /\ DOMAIN q = 1..Len(q)
          /\ r[Len(q) + 1] = l[n] /\ \A j \in 1..Len(q) : r[j] = q[j]
      BY <3>1
    <3>3. \A j \in DOMAIN q : q[j].id < l[n].id
      <4> SUFFICES ASSUME NEW j \in DOMAIN q PROVE q[j].id < l[n].id
        OBVIOUS
      <4>1. PICK k \in 1..(n - 1) : q[j] = l[k]
        BY <2>1 DEF Filters
      <4> QED
        BY <1>0, <2>4, <4>1 DEF Sorted
    <3>4. Sorted(r)
      <4> SUFFICES ASSUME NEW i \in DOMAIN r, NEW j \in DOMAIN r, i < j
                   PROVE  r[i].id < r[j].id
        BY DEF Sorted
      <4>1. i \in 1..Len(q)
        BY <3>2
      <4>2. CASE j \in 1..Len(q)
        BY <2>1, <3>2, <4>1, <4>2 DEF Filters, Sorted
      <4>3. CASE j = Len(q) + 1
        BY <3>2, <3>3, <4>1, <4>3
      <4> QED
        BY <3>2, <4>2, <4>3
    <3>5. ASSUME NEW j \in DOMAIN r
          PROVE  \E k \in 1..n : r[j] = l[k] /\ ~F!Empty(l[k])
      <4>1. CASE j \in 1..Len(q)
        <5>1. PICK k \in 1..(n - 1) : q[j] = l[k] /\ ~F!Empty(l[k])
          BY <2>1, <3>2, <4>1 DEF Filters
        <5> QED
          BY <2>4, <3>2, <4>1, <5>1
      <4>2. CASE j = Len(q) + 1
        <5>1. n \in 1..n
          OBVIOUS
        <5> QED
          BY <2>6, <3>2, <4>2, <5>1
      <4> QED
        BY <3>2, <4>1, <4>2
    <3>6. ASSUME NEW k \in 1..n, ~F!Empty(l[k])
          PROVE  \E j \in DOMAIN r : r[j] = l[k]
      <4>1. CASE k = n
        <5>1. Len(q) + 1 \in DOMAIN r
          BY <3>2
        <5> QED
          BY <3>2, <4>1, <5>1
      <4>2. CASE k \in 1..(n - 1)
        <5>1. PICK j \in DOMAIN q : q[j] = l[k]
          BY <2>1, <3>6, <4>2 DEF Filters
        <5>2. j \in DOMAIN r /\ r[j] = q[j]
          BY <3>2
        <5> QED
          BY <5>1, <5>2
      <4> QED
        BY <2>3, <4>1, <4>2
    <3> QED
      BY <3>2, <3>4, <3>5, <3>6 DEF Filters
  <2> QED
    BY <2>5, <2>6
<1> HIDE DEF Right
<1>4. Bad = {}
  <2>1. SUFFICES ASSUME Bad # {} PROVE FALSE
    OBVIOUS
  <2>2. PICK n \in Bad : \A j \in Bad : n <= j
    <3>1. Bad \subseteq Nat
      BY <1>0
    <3> HIDE DEF Bad
    <3> QED
      BY <2>1, <3>1, LeastNumber
  <2>3. n \in 1..Len(l) /\ ~Right(n)
    BY <1>0, <1>2
  <2>4. n - 1 \in 0..Len(l) /\ ~(n <= n - 1)
    BY <1>0, <2>3
  <2>5. n - 1 \notin Bad
    <3> HIDE DEF Bad
    <3> QED
      BY <2>2, <2>4
  <2> QED
    BY <1>3, <2>3, <2>4, <2>5
<1>5. Filters(f[Len(l)], Len(l), l)
  BY <1>0, <1>4 DEF Right
<1> DEFINE r == F!NotEmpty(l)
<1>6. Filters(r, Len(l), l)
  BY <1>1, <1>5
<1> SUFFICES r \in Seq(SetType) /\ Sorted(r) /\ F!ToSet(r) = {s \in F!ToSet(l) : ~F!Empty(s)}
  OBVIOUS
<1> HIDE DEF r
<1>7. \A s \in F!ToSet(r) : s \in F!ToSet(l) /\ ~F!Empty(s)
  BY <1>0, <1>6 DEF Filters, F!ToSet
<1>8. \A s \in F!ToSet(l) : ~F!Empty(s) => s \in F!ToSet(r)
  BY <1>0, <1>6 DEF Filters, F!ToSet
<1> QED
  BY <1>6, <1>7, <1>8 DEF Filters
-----------------------------------------------------------------------------
(* Owners *)

Holds(s) == F!Fds(s) \cup s.dups
Names(nm, f) == {x \in Client \X Name : nm[x[1]][x[2]] = f}

\* Who has which descriptor, for the sets S: none that is open is forgotten, none
\* that is closed is kept, and none has two owners.
NoneLost(o, nm, tk, S) ==
    \A f \in o : f \in tk \/ Names(nm, f) # {} \/ \E s \in S : f \in Holds(s)

NoneClosed(o, nm, tk, S) ==
    /\ tk \subseteq o
    /\ \A f \in Fd : Names(nm, f) # {} => f \in o
    /\ \A s \in S : Holds(s) \subseteq o

NoneShared(nm, tk, S) ==
    /\ \A f \in Fd : \A x, y \in Names(nm, f) : x = y
    /\ \A f \in tk : Names(nm, f) = {} /\ \A s \in S : f \notin Holds(s)
    /\ \A f \in Fd : Names(nm, f) # {} => \A s \in S : f \notin Holds(s)
    /\ \A s \in S : F!Fds(s) \cap s.dups = {}
    /\ \A s, t \in S : s # t => Holds(s) \cap Holds(t) = {}

Owned(o, nm, tk, S) ==
    NoneLost(o, nm, tk, S) /\ NoneClosed(o, nm, tk, S) /\ NoneShared(nm, tk, S)

LEMMA HoldsAreFds == ASSUME NEW s \in SetType PROVE F!Fds(s) \subseteq Fd /\ Holds(s) \subseteq Fd
BY DEF SetType, F!Fds, Holds

\* A descriptor that is not open has no owner.
LEMMA FreeIsNobodys ==
    ASSUME NEW o, NEW nm, NEW tk, NEW S, Owned(o, nm, tk, S), NEW f \in Fd, f \notin o
    PROVE  f \notin tk /\ Names(nm, f) = {} /\ \A s \in S : f \notin Holds(s)
BY DEF Owned, NoneClosed

\* Sets lose what is closed, and empty ones go.  lost[s] is what s loses.
LEMMA SetsShrink ==
    ASSUME NEW o, NEW nm, NEW tk, NEW S, Owned(o, nm, tk, S), S \subseteq SetType,
           NEW A, NEW T,
           \A s \in S : F!Fds(A[s]) \subseteq F!Fds(s) /\ A[s].dups \subseteq s.dups,
           \A t \in T : \E s \in S : t = A[s],
           \A s \in S : A[s] \in T \/ Holds(A[s]) = {}
    PROVE  Owned(o \ UNION {Holds(s) \ Holds(A[s]) : s \in S}, nm, tk, T)
<1> DEFINE gone == UNION {Holds(s) \ Holds(A[s]) : s \in S}
<1>1. \A s \in S : Holds(A[s]) \subseteq Holds(s)
  BY DEF Holds
<1>2. \A f \in gone : \E s \in S : f \in Holds(s) /\ f \notin Holds(A[s])
  OBVIOUS
<1>3. \A s \in S : \A f \in Holds(s) : f \notin Holds(A[s]) => f \in gone
  OBVIOUS
<1> SUFFICES Owned(o \ gone, nm, tk, T)
  OBVIOUS
<1> HIDE DEF gone
<1>4. \A s \in S : Holds(s) \subseteq Fd
  BY HoldsAreFds
<1>5. \A f \in gone : f \in Fd /\ f \notin tk /\ Names(nm, f) = {}
  BY <1>2, <1>4 DEF Owned, NoneShared
<1>6. NoneLost(o \ gone, nm, tk, T)
  <2> SUFFICES ASSUME NEW f \in o \ gone, f \notin tk, Names(nm, f) = {}
               PROVE  \E t \in T : f \in Holds(t)
    BY DEF NoneLost
  <2>1. PICK s \in S : f \in Holds(s)
    BY DEF Owned, NoneLost
  <2>2. f \in Holds(A[s])
    BY <1>3, <2>1
  <2> QED
    BY <2>2
<1>7. NoneClosed(o \ gone, nm, tk, T)
  <2>1. ASSUME NEW t \in T PROVE Holds(t) \subseteq o \ gone
    <3>1. PICK s \in S : t = A[s]
      OBVIOUS
    <3>2. Holds(t) \subseteq Holds(s) /\ Holds(s) \subseteq o
      BY <1>1, <3>1 DEF Owned, NoneClosed
    <3>3. ASSUME NEW f \in Holds(t), f \in gone PROVE FALSE
      <4>1. PICK u \in S : f \in Holds(u) /\ f \notin Holds(A[u])
        BY <1>2, <3>3
      <4>2. u = s
        BY <3>2, <4>1 DEF Owned, NoneShared
      <4> QED
        BY <3>1, <4>1, <4>2
    <3> QED
      BY <3>2, <3>3
  <2> QED
    BY <1>5, <2>1 DEF Owned, NoneClosed
<1>8. NoneShared(nm, tk, T)
  <2>1. \A t \in T : \E s \in S : /\ Holds(t) \subseteq Holds(s)
                                  /\ F!Fds(t) \subseteq F!Fds(s) /\ t.dups \subseteq s.dups
    BY <1>1
  <2>2. \A t \in T : F!Fds(t) \cap t.dups = {}
    BY <2>1 DEF Owned, NoneShared
  <2>3. ASSUME NEW t \in T, NEW u \in T, t # u PROVE Holds(t) \cap Holds(u) = {}
    <3>1. PICK s \in S : t = A[s]
      OBVIOUS
    <3>2. PICK v \in S : u = A[v]
      OBVIOUS
    <3>3. s # v
      BY <2>3, <3>1, <3>2
    <3> QED
      BY <1>1, <3>1, <3>2, <3>3 DEF Owned, NoneShared
  <2>4. \A f \in tk : \A t \in T : f \notin Holds(t)
    BY <2>1 DEF Owned, NoneShared
  <2>5. \A f \in Fd : Names(nm, f) # {} => \A t \in T : f \notin Holds(t)
    BY <2>1 DEF Owned, NoneShared
  <2> QED
    BY <2>2, <2>3, <2>4, <2>5 DEF Owned, NoneShared
<1> QED
  BY <1>6, <1>7, <1>8 DEF Owned

\* A set gets a descriptor that was free: as an element or as a copy.
LEMMA SetGrows ==
    ASSUME NEW o, NEW nm, NEW tk, NEW S, Owned(o, nm, tk, S), S \subseteq SetType,
           NEW f \in Fd, f \notin o, NEW s \in S, NEW t,
           \/ F!Fds(t) = F!Fds(s) \cup {f} /\ t.dups = s.dups
           \/ F!Fds(t) = F!Fds(s) /\ t.dups = s.dups \cup {f}
    PROVE  Owned(o \cup {f}, nm, tk, (S \ {s}) \cup {t})
<1> DEFINE T == (S \ {s}) \cup {t}
<1>1. Holds(t) = Holds(s) \cup {f} /\ F!Fds(t) \subseteq F!Fds(s) \cup {f} /\ t.dups \subseteq s.dups \cup {f}
  BY DEF Holds
<1>2. f \notin tk /\ Names(nm, f) = {} /\ \A u \in S : f \notin Holds(u)
  BY FreeIsNobodys
<1>3. NoneLost(o \cup {f}, nm, tk, T)
  <2> SUFFICES ASSUME NEW g \in o \cup {f}, g \notin tk, Names(nm, g) = {}
               PROVE  \E u \in T : g \in Holds(u)
    BY DEF NoneLost
  <2>1. CASE g = f
    BY <1>1, <2>1
  <2>2. CASE g # f
    <3>1. PICK u \in S : g \in Holds(u)
      BY <2>2 DEF Owned, NoneLost
    <3> QED
      BY <1>1, <3>1
  <2> QED
    BY <2>1, <2>2
<1>4. NoneClosed(o \cup {f}, nm, tk, T)
  BY <1>1 DEF Owned, NoneClosed
<1>5. NoneShared(nm, tk, T)
  <2>1. F!Fds(t) \cap t.dups = {}
    BY <1>2 DEF Owned, NoneShared, Holds
  <2>2. \A u \in S \ {s} : Holds(u) \cap Holds(t) = {}
    BY <1>1, <1>2 DEF Owned, NoneShared
  <2>3. \A g \in tk : g \notin Holds(t)
    BY <1>1, <1>2 DEF Owned, NoneShared
  <2>4. \A g \in Fd : Names(nm, g) # {} => g \notin Holds(t)
    BY <1>1, <1>2 DEF Owned, NoneShared
  <2> QED
    BY <2>1, <2>2, <2>3, <2>4 DEF Owned, NoneShared
<1> QED
  BY <1>3, <1>4, <1>5 DEF Owned

\* A new set gets it.
LEMMA SetComes ==
    ASSUME NEW o, NEW nm, NEW tk, NEW S, Owned(o, nm, tk, S),
           NEW f \in Fd, f \notin o, NEW t, F!Fds(t) = {f}, t.dups = {}
    PROVE  Owned(o \cup {f}, nm, tk, S \cup {t})
<1> DEFINE T == S \cup {t}
<1>1. Holds(t) = {f}
  BY DEF Holds
<1>2. f \notin tk /\ Names(nm, f) = {} /\ \A u \in S : f \notin Holds(u)
  BY FreeIsNobodys
<1>3. NoneLost(o \cup {f}, nm, tk, T)
  BY <1>1 DEF Owned, NoneLost
<1>4. NoneClosed(o \cup {f}, nm, tk, T)
  BY <1>1 DEF Owned, NoneClosed
<1>5. NoneShared(nm, tk, T)
  <2>1. F!Fds(t) \cap t.dups = {} /\ \A u \in S : Holds(u) \cap Holds(t) = {}
    BY <1>1, <1>2
  <2>2. \A g \in tk : g \notin Holds(t)
    BY <1>1, <1>2
  <2>3. \A g \in Fd : Names(nm, g) # {} => g \notin Holds(t)
    BY <1>1, <1>2
  <2> QED
    BY <2>1, <2>2, <2>3 DEF Owned, NoneShared
<1> QED
  BY <1>3, <1>4, <1>5 DEF Owned

NamedType == [Client -> [Name -> Fd \cup {F!NoFd}]]

LEMMA NamesGive ==
    ASSUME NEW nm \in NamedType, NEW m \in Client, NEW n \in Name, NEW v \in Fd \cup {F!NoFd}
    PROVE  LET new == [nm EXCEPT ![m][n] = v]
           IN  /\ new \in NamedType
               /\ \A f \in Fd : Names(new, f) = (Names(nm, f) \ {<<m, n>>})
                                                \cup (IF f = v THEN {<<m, n>>} ELSE {})
<1> DEFINE new == [nm EXCEPT ![m][n] = v]
<1>1. new \in NamedType
  BY DEF NamedType
<1>2. \A a \in Client, b \in Name : new[a][b] = IF a = m /\ b = n THEN v ELSE nm[a][b]
  BY DEF NamedType
<1> SUFFICES /\ new \in NamedType
             /\ \A f \in Fd : Names(new, f) = (Names(nm, f) \ {<<m, n>>})
                                                \cup (IF f = v THEN {<<m, n>>} ELSE {})
  OBVIOUS
<1> HIDE DEF new
<1>3. ASSUME NEW f \in Fd
      PROVE  Names(new, f) = (Names(nm, f) \ {<<m, n>>})
                                  \cup (IF f = v THEN {<<m, n>>} ELSE {})
  <2>1. ASSUME NEW x \in Client \X Name
        PROVE  new[x[1]][x[2]] = IF x = <<m, n>> THEN v ELSE nm[x[1]][x[2]]
    BY <1>2
  <2> QED
    BY <2>1 DEF Names
<1> QED
  BY <1>1, <1>3

\* qmp_getfd: the descriptor that had the name before is closed.
LEMMA NameComes ==
    ASSUME NEW o, NEW nm \in NamedType, NEW tk, NEW S, Owned(o, nm, tk, S),
           o \subseteq Fd, NEW f \in Fd, f \notin o, NEW m \in Client, NEW n \in Name
    PROVE  Owned((o \cup {f}) \ F!Some(nm[m][n]), [nm EXCEPT ![m][n] = f], tk, S)
<1> DEFINE new == [nm EXCEPT ![m][n] = f]
           old == nm[m][n]
           x == <<m, n>>
<1>1. /\ new \in NamedType
      /\ \A g \in Fd : Names(new, g) = (Names(nm, g) \ {x}) \cup (IF g = f THEN {x} ELSE {})
  <2>1. f \in Fd \cup {F!NoFd}
    OBVIOUS
  <2>2. new \in NamedType
    BY <2>1, NamesGive
  <2>3. \A g \in Fd : Names(new, g) = (Names(nm, g) \ {x}) \cup (IF g = f THEN {x} ELSE {})
    BY <2>1, NamesGive
  <2> QED
    BY <2>2, <2>3
<1>2. \A g \in Fd : x \in Names(nm, g) <=> g = old
  BY DEF Names
<1>3. f \notin tk /\ Names(nm, f) = {} /\ \A u \in S : f \notin Holds(u)
  BY FreeIsNobodys
<1>4. \A g \in F!Some(old) : g \in Fd /\ g = old /\ Names(nm, g) = {x} /\ g # f
  <2>1. \A g \in F!Some(old) : g \in Fd /\ g = old
    BY DEF F!Some, NamedType
  <2> QED
    BY <1>2, <1>3, <2>1 DEF Owned, NoneShared
<1>5. \A g \in Fd : g = old => g \in F!Some(old)
  BY FdsAssumption DEF F!Some, F!NoFd
<1> HIDE DEF new, old, x
<1>6. \A g \in Fd : /\ g = f => Names(new, g) = {x}
                    /\ g = old => Names(new, g) = {}
                    /\ g # f /\ g # old => Names(new, g) = Names(nm, g)
  <2>1. \A g \in Fd : g # old => Names(nm, g) \ {x} = Names(nm, g)
    BY <1>2
  <2> QED
    BY <1>1, <1>3, <1>4, <1>5, <2>1
<1> DEFINE p == (o \cup {f}) \ F!Some(old)
<1>7. f \in p /\ \A g \in p : g = f \/ (g \in o /\ g # f /\ g # old)
  BY <1>4, <1>5
<1>8. \A g \in o : g # old => g \in p
  BY <1>4
<1> SUFFICES Owned(p, new, tk, S)
  BY DEF new, old
<1> HIDE DEF p
<1>9. \A g \in tk : g \in o /\ g # old
  BY <1>2 DEF Owned, NoneClosed, NoneShared
<1>10. \A s \in S : \A g \in Holds(s) : g \in o /\ g # old /\ g # f
  BY <1>2, <1>3 DEF Owned, NoneClosed, NoneShared
<1>11. NoneLost(p, new, tk, S)
  BY <1>6, <1>7 DEF Owned, NoneLost
<1>12. NoneClosed(p, new, tk, S)
  <2>1. \A g \in Fd : Names(new, g) # {} => g \in p
    BY <1>6, <1>7, <1>8 DEF Owned, NoneClosed
  <2> QED
    BY <1>8, <1>9, <1>10, <2>1 DEF NoneClosed
<1>13. NoneShared(new, tk, S)
  <2>1. \A g \in Fd : \A a, b \in Names(new, g) : a = b
    BY <1>6 DEF Owned, NoneShared
  <2>2. \A g \in tk : Names(new, g) = {} /\ g # f
    BY <1>3, <1>6, <1>9 DEF Owned, NoneShared
  <2>3. \A g \in Fd : Names(new, g) # {} => \A s \in S : g \notin Holds(s)
    BY <1>6, <1>10 DEF Owned, NoneShared
  <2> QED
    BY <2>1, <2>2, <2>3 DEF Owned, NoneShared
<1> QED
  BY <1>11, <1>12, <1>13 DEF Owned

\* qmp_closefd closes a named descriptor, monitor_get_fd gives it to its caller.
LEMMA NameGoes ==
    ASSUME NEW o, NEW nm \in NamedType, NEW tk, NEW S, Owned(o, nm, tk, S),
           o \subseteq Fd, NEW m \in Client, NEW n \in Name, nm[m][n] # F!NoFd
    PROVE  LET new == [nm EXCEPT ![m][n] = F!NoFd]
               f   == nm[m][n]
           IN  /\ Owned(o \ {f}, new, tk, S)
               /\ Owned(o, new, tk \cup {f}, S)
               /\ f \in Fd /\ f \in o
<1> DEFINE new == [nm EXCEPT ![m][n] = F!NoFd]
           f == nm[m][n]
           x == <<m, n>>
<1>0. f \in Fd
  BY DEF NamedType
<1>1. \A g \in Fd : Names(new, g) = Names(nm, g) \ {x}
  <2>1. F!NoFd \in Fd \cup {F!NoFd} /\ F!NoFd \notin Fd
    BY FdsAssumption DEF F!NoFd
  <2>2. \A g \in Fd : Names(new, g) = (Names(nm, g) \ {x}) \cup (IF g = F!NoFd THEN {x} ELSE {})
    BY <2>1, NamesGive
  <2> QED
    BY <2>1, <2>2
<1>2. \A g \in Fd : x \in Names(nm, g) <=> g = f
  BY DEF Names
<1> SUFFICES /\ Owned(o \ {f}, new, tk, S)
             /\ Owned(o, new, tk \cup {f}, S)
             /\ f \in Fd /\ f \in o
  OBVIOUS
<1> HIDE DEF new, f, x
<1>3. \A g \in Fd : Names(new, g) = IF g = f THEN {} ELSE Names(nm, g)
  <2>1. Names(nm, f) = {x}
    BY <1>0, <1>2 DEF Owned, NoneShared
  <2> QED
    BY <1>1, <1>2, <2>1
<1>4. f \in o /\ f \notin tk /\ \A s \in S : f \notin Holds(s)
  BY <1>0, <1>2 DEF Owned, NoneClosed, NoneShared
<1>5. Owned(o \ {f}, new, tk, S)
  <2>1. NoneLost(o \ {f}, new, tk, S)
    BY <1>3 DEF Owned, NoneLost
  <2>2. NoneClosed(o \ {f}, new, tk, S)
    BY <1>3, <1>4 DEF Owned, NoneClosed
  <2>3. NoneShared(new, tk, S)
    BY <1>3, <1>4 DEF Owned, NoneShared, NoneClosed
  <2> QED
    BY <2>1, <2>2, <2>3 DEF Owned
<1>6. Owned(o, new, tk \cup {f}, S)
  <2>1. NoneLost(o, new, tk \cup {f}, S)
    BY <1>3 DEF Owned, NoneLost
  <2>2. NoneClosed(o, new, tk \cup {f}, S)
    BY <1>3, <1>4 DEF Owned, NoneClosed
  <2>3. NoneShared(new, tk \cup {f}, S)
    BY <1>0, <1>3, <1>4 DEF Owned, NoneShared, NoneClosed
  <2> QED
    BY <2>1, <2>2, <2>3 DEF Owned
<1> QED
  BY <1>0, <1>4, <1>5, <1>6

\* The caller closes what it took.
LEMMA UserGoes ==
    ASSUME NEW o, NEW nm, NEW tk, NEW S, Owned(o, nm, tk, S), o \subseteq Fd, NEW f \in tk
    PROVE  Owned(o \ {f}, nm, tk \ {f}, S)
<1>1. f \in o /\ Names(nm, f) = {} /\ \A s \in S : f \notin Holds(s)
  BY DEF Owned, NoneClosed, NoneShared
<1>2. NoneLost(o \ {f}, nm, tk \ {f}, S)
  BY <1>1 DEF Owned, NoneLost
<1>3. NoneClosed(o \ {f}, nm, tk \ {f}, S)
  BY <1>1 DEF Owned, NoneClosed
<1>4. NoneShared(nm, tk \ {f}, S)
  BY <1>1 DEF Owned, NoneShared
<1> QED
  BY <1>2, <1>3, <1>4 DEF Owned
-----------------------------------------------------------------------------
(* Insertion into the list *)

LEMMA FdsOfNew ==
    ASSUME NEW id \in Nat, NEW f \in Fd
    PROVE  LET s == F!NewSet(id, f)
           IN  s \in SetType /\ s.id = id /\ F!Fds(s) = {f} /\ s.dups = {}
BY DEF F!NewSet, SetType, F!Fds

LEMMA WalkToGives ==
    ASSUME mon_fdsets \in Seq(SetType), mon_fdsets # <<>>, NEW found \in SUBSET DOMAIN mon_fdsets
    PROVE  LET i == F!WalkTo(found)
           IN  /\ i \in DOMAIN mon_fdsets
               /\ found # {} => i \in found /\ \A j \in found : i <= j
               /\ found = {} => i = Len(mon_fdsets)
<1>1. Len(mon_fdsets) \in DOMAIN mon_fdsets /\ DOMAIN mon_fdsets \subseteq Nat
  OBVIOUS
<1>2. CASE found = {}
  BY <1>1, <1>2 DEF F!WalkTo
<1>3. CASE found # {}
  <2>1. F!WalkTo(found) = F!Min(found)
    BY <1>3 DEF F!WalkTo
  <2>2. F!Min(found) \in found /\ \A j \in found : F!Min(found) <= j
    BY <1>1, <1>3, MinGives
  <2> QED
    BY <1>3, <2>1, <2>2
<1> QED
  BY <1>2, <1>3

\* The list with one more set.
Comes(r, s) ==
    r \in Seq(SetType) /\ Sorted(r) /\ F!ToSet(r) = F!ToSet(mon_fdsets) \cup {s}

LEMMA InsertGives ==
    ASSUME mon_fdsets \in Seq(SetType), Sorted(mon_fdsets), NEW s \in SetType, NEW cur,
           mon_fdsets # <<>> =>
             /\ cur \in DOMAIN mon_fdsets
             /\ \A j \in DOMAIN mon_fdsets : j < cur => mon_fdsets[j].id < s.id
             /\ s.id < mon_fdsets[cur].id
                  \/ (cur = Len(mon_fdsets) /\ mon_fdsets[cur].id < s.id)
    PROVE  Comes(F!Insert(s, cur), s)
<1> DEFINE l == mon_fdsets
<1>1. CASE l = <<>>
  <2>1. F!Insert(s, cur) = <<s>>
    BY <1>1 DEF F!Insert
  <2>2. <<s>> \in Seq(SetType) /\ Sorted(<<s>>)
    BY DEF Sorted
  <2>3. F!ToSet(<<s>>) = {s} /\ F!ToSet(l) = {}
    BY <1>1 DEF F!ToSet
  <2> QED
    BY <2>1, <2>2, <2>3 DEF Comes
<1>2. CASE l # <<>>
  <2> DEFINE k == IF s.id < l[cur].id THEN cur ELSE cur + 1
  <2>1. F!Insert(s, cur) = F!InsertAt(l, k, s)
    BY <1>2 DEF F!Insert
  <2>2. cur \in 1..Len(l) /\ Len(l) \in Nat /\ DOMAIN l = 1..Len(l)
        /\ \A j \in DOMAIN l : j \in Nat
    BY <1>2
  <2>3. \A j \in DOMAIN l : l[j].id \in Nat
    <3>1. \A j \in DOMAIN l : l[j] \in SetType
      OBVIOUS
    <3> QED
      BY <3>1 DEF SetType
  <2>4. s.id \in Nat
    BY DEF SetType
  <2>5. CASE s.id < l[cur].id
    <3>1. k = cur
      BY <2>5
    <3>2. cur \in Nat /\ k \in 1..(Len(l) + 1)
      <4> HIDE DEF k, l
      <4> QED
        BY <2>2, <3>1
    <3>3. ASSUME NEW j \in DOMAIN l PROVE IF j < k THEN l[j].id < s.id ELSE s.id < l[j].id
      <4>1. CASE j < cur
        BY <1>2, <3>1, <4>1
      <4>2. CASE j = cur
        <5>1. ~(j < k)
          BY <3>1, <3>2, <4>2
        <5> QED
          BY <2>5, <4>2, <5>1
      <4>3. CASE cur < j
        <5>1. ~(j < k) /\ j \in Nat
          <6> HIDE DEF k, l
          <6> QED
            BY <2>2, <3>1, <3>2, <4>3
        <5>2. l[cur].id < l[j].id
          BY <2>2, <4>3 DEF Sorted
        <5>3. l[cur].id \in Nat /\ l[j].id \in Nat
          BY <2>2, <2>3
        <5> HIDE DEF k, l
        <5>4. s.id < l[j].id
          BY <2>4, <2>5, <5>2, <5>3
        <5> QED
          BY <5>1, <5>4
      <4>4. j \in Nat
        <5> HIDE DEF l
        <5> QED
          BY <2>2
      <4> QED
        BY <3>2, <4>1, <4>2, <4>3, <4>4
    <3> HIDE DEF k, l
    <3> QED
      BY <2>1, <3>2, <3>3, InsertAtGives DEF Comes, l
  <2>6. CASE ~(s.id < l[cur].id)
    <3>1. cur = Len(l) /\ l[cur].id < s.id
      BY <1>2, <2>6
    <3>2. k = Len(l) + 1 /\ k \in 1..(Len(l) + 1)
      BY <2>2, <2>6, <3>1
    <3>3. \A j \in DOMAIN l : j < k /\ l[j].id < s.id
      <4> SUFFICES ASSUME NEW j \in DOMAIN l PROVE j < k /\ l[j].id < s.id
        OBVIOUS
      <4>1. j < cur \/ j = cur
        BY <2>2, <3>1
      <4> QED
        BY <1>2, <2>2, <3>1, <3>2, <4>1
    <3> HIDE DEF k, l
    <3> QED
      BY <2>1, <3>2, <3>3, InsertAtGives DEF Comes, l
  <2> QED
    BY <2>5, <2>6
<1> QED
  BY <1>1, <1>2

\* monitor_fdset_add_fd: one set has the descriptor too, or a new set has it.
Adds(r, f) ==
    /\ r \in Seq(SetType) /\ Sorted(r)
    /\ \/ \E s \in F!ToSet(mon_fdsets), t \in SetType :
            /\ F!ToSet(r) = (F!ToSet(mon_fdsets) \ {s}) \cup {t}
            /\ F!Fds(t) = F!Fds(s) \cup {f} /\ t.dups = s.dups
       \/ \E t \in SetType :
            F!ToSet(r) = F!ToSet(mon_fdsets) \cup {t} /\ F!Fds(t) = {f} /\ t.dups = {}

LEMMA AddsToGives ==
    ASSUME mon_fdsets \in Seq(SetType), Sorted(mon_fdsets), NEW id \in Nat, NEW f \in Fd
    PROVE  Adds(F!AddsTo(id, f), f)
<1> DEFINE l == mon_fdsets
           i == F!WalkTo({j \in DOMAIN l : id <= l[j].id})
           found == {j \in DOMAIN l : id < l[j].id}
           n == F!NewSet(id, f)
<1>0. /\ Len(l) \in Nat /\ DOMAIN l = 1..Len(l)
      /\ \A j \in DOMAIN l : l[j] \in SetType /\ l[j].id \in Nat
  <2>1. \A j \in DOMAIN l : l[j] \in SetType
    OBVIOUS
  <2> QED
    BY <2>1 DEF SetType
<1>1. CASE l # <<>> /\ l[i].id = id
  <2> DEFINE t == [l[i] EXCEPT !.fds = @ \cup {[fd |-> f, removed |-> FALSE]}]
             r == [l EXCEPT ![i] = t]
  <2>1. i \in DOMAIN l
    BY <1>1, WalkToGives
  <2>2. F!AddsTo(id, f) = r
    <3>1. F!AddsTo(id, f) = [l EXCEPT ![i].fds = @ \cup {[fd |-> f, removed |-> FALSE]}]
      BY <1>1 DEF F!AddsTo
    <3> QED
      BY <2>1, <3>1
  <2>3. /\ t \in SetType /\ t.id = l[i].id
        /\ F!Fds(t) = F!Fds(l[i]) \cup {f} /\ t.dups = l[i].dups
    <3> DEFINE u == l[i]
               d == [fd |-> f, removed |-> FALSE]
    <3>1. u \in SetType /\ d \in [fd : Fd, removed : BOOLEAN] /\ d.fd = f
      BY <1>0, <2>1
    <3> HIDE DEF u, d, i
    <3>2. t = [u EXCEPT !.fds = u.fds \cup {d}]
      BY DEF u, d
    <3> HIDE DEF t
    <3>3. t \in SetType /\ t.id = u.id /\ t.fds = u.fds \cup {d} /\ t.dups = u.dups
      BY <3>1, <3>2 DEF SetType
    <3>4. F!Fds(t) = F!Fds(u) \cup {f}
      BY <3>1, <3>3 DEF F!Fds
    <3> QED
      BY <3>3, <3>4 DEF u
  <2> HIDE DEF t, i
  <2>4. r \in Seq(SetType) /\ Sorted(r) /\ F!ToSet(r) = (F!ToSet(l) \ {l[i]}) \cup {t}
    <3>1. l \in Seq(SetType) /\ Sorted(l) /\ t \in SetType /\ t.id = l[i].id
      BY <2>3
    <3>2. r = Replaced(l, i, t)
      BY DEF Replaced
    <3> HIDE DEF l, r
    <3> QED
      BY <2>1, <3>1, <3>2, ReplaceGives
  <2>5. l[i] \in F!ToSet(l)
    BY <2>1 DEF F!ToSet
  <2> HIDE DEF r
  <2> QED
    BY <2>2, <2>3, <2>4, <2>5 DEF Adds
<1>2. CASE ~(l # <<>> /\ l[i].id = id)
  <2>1. F!AddsTo(id, f) = F!Insert(n, F!WalkTo(found))
    BY <1>2 DEF F!AddsTo
  <2>2. \A j \in DOMAIN l : l[j].id # id
    <3> SUFFICES ASSUME NEW j \in DOMAIN l, l[j].id = id PROVE FALSE
      OBVIOUS
    <3> DEFINE R == {k \in DOMAIN l : id <= l[k].id}
    <3>1. l # <<>> /\ j \in R
      BY <1>0
    <3>2. i \in R /\ i <= j
      <4>1. R \in SUBSET DOMAIN l /\ i = F!WalkTo(R)
        OBVIOUS
      <4> HIDE DEF R, i
      <4> QED
        BY <3>1, <4>1, WalkToGives
    <3>3. i \in DOMAIN l /\ id <= l[i].id /\ l[i].id # id
      BY <1>2, <3>1, <3>2
    <3> HIDE DEF i, R
    <3>4. i < j
      BY <1>0, <3>2, <3>3
    <3> QED
      BY <1>0, <3>3, <3>4 DEF Sorted
  <2>3. n \in SetType /\ n.id = id /\ F!Fds(n) = {f} /\ n.dups = {}
    BY FdsOfNew
  <2> DEFINE cur == F!WalkTo(found)
  <2>4. ASSUME l # <<>>
        PROVE  /\ cur \in DOMAIN l
               /\ \A j \in DOMAIN l : j < cur => l[j].id < id
               /\ id < l[cur].id \/ (cur = Len(l) /\ l[cur].id < id)
    <3>1. /\ cur \in DOMAIN l
          /\ found # {} => cur \in found /\ \A j \in found : cur <= j
          /\ found = {} => cur = Len(l)
      <4>1. found \in SUBSET DOMAIN l
        OBVIOUS
      <4> HIDE DEF found
      <4> QED
        BY <2>4, <4>1, WalkToGives
    <3> HIDE DEF cur
    <3>2. \A j \in DOMAIN l : j < cur => l[j].id < id
      <4> SUFFICES ASSUME NEW j \in DOMAIN l, j < cur PROVE l[j].id < id
        OBVIOUS
      <4>1. j \notin found
        BY <1>0, <3>1
      <4> QED
        BY <1>0, <2>2, <4>1
    <3>3. found # {} => id < l[cur].id
      BY <3>1
    <3>4. found = {} => cur = Len(l) /\ l[cur].id < id
      BY <1>0, <2>2, <3>1
    <3> QED
      BY <3>1, <3>2, <3>3, <3>4
  <2> HIDE DEF cur, n
  <2>5. Comes(F!Insert(n, cur), n)
    BY <2>3, <2>4, InsertGives
  <2> QED
    BY <2>1, <2>3, <2>5 DEF Comes, Adds, cur, n
<1> QED
  BY <1>1, <1>2

LEMMA AddsNewGives ==
    ASSUME mon_fdsets \in Seq(SetType), Sorted(mon_fdsets), NEW f \in Fd
    PROVE  Adds(F!AddsNew(f), f)
<1> DEFINE l == mon_fdsets
           gaps == {j \in DOMAIN l : l[j].id # j - 1}
           id == IF gaps = {} THEN Len(l) ELSE F!Min(gaps) - 1
           n == F!NewSet(id, f)
           cur == F!WalkTo(gaps)
<1>0. /\ Len(l) \in Nat /\ DOMAIN l = 1..Len(l)
      /\ \A j \in DOMAIN l : l[j] \in SetType /\ l[j].id \in Nat
  <2>1. \A j \in DOMAIN l : l[j] \in SetType
    OBVIOUS
  <2> QED
    BY <2>1 DEF SetType
<1>1. F!AddsNew(f) = F!Insert(n, cur)
  BY DEF F!AddsNew
<1>2. gaps # {} => F!Min(gaps) \in gaps /\ \A j \in gaps : F!Min(gaps) <= j
  <2>1. gaps \subseteq Nat
    BY <1>0
  <2> HIDE DEF gaps
  <2> QED
    BY <2>1, MinGives
<1>3. id \in Nat
  BY <1>0, <1>2
<1>4. n \in SetType /\ n.id = id /\ F!Fds(n) = {f} /\ n.dups = {}
  <2> HIDE DEF id
  <2> QED
    BY <1>3, FdsOfNew
<1>5. ASSUME l # <<>>
      PROVE  /\ cur \in DOMAIN l
             /\ \A j \in DOMAIN l : j < cur => l[j].id < id
             /\ id < l[cur].id \/ (cur = Len(l) /\ l[cur].id < id)
  <2>1. /\ cur \in DOMAIN l
        /\ gaps # {} => cur \in gaps /\ \A j \in gaps : cur <= j
        /\ gaps = {} => cur = Len(l)
    <3>1. gaps \in SUBSET DOMAIN l
      OBVIOUS
    <3> HIDE DEF gaps
    <3> QED
      BY <1>5, <3>1, WalkToGives
  <2>2. CASE gaps = {}
    <3>1. \A j \in DOMAIN l : l[j].id = j - 1
      BY <2>2
    <3>2. id = Len(l) /\ cur = Len(l)
      BY <2>1, <2>2
    <3> HIDE DEF id, cur
    <3> QED
      BY <1>0, <2>1, <3>1, <3>2
  <2>3. CASE gaps # {}
    <3>1. cur = F!Min(gaps)
      BY <2>3 DEF F!WalkTo
    <3>2. id = cur - 1 /\ cur \in gaps /\ \A j \in gaps : cur <= j
      BY <1>2, <2>3, <3>1
    <3> HIDE DEF id, cur
    <3>3. \A j \in DOMAIN l : j < cur => l[j].id = j - 1
      BY <1>0, <2>1, <3>2
    <3>4. l[cur].id # cur - 1
      BY <3>2
    <3>5. id < l[cur].id
      <4>1. CASE cur = 1
        BY <1>0, <2>1, <3>2, <3>4, <4>1
      <4>2. CASE cur # 1
        <5>1. cur - 1 \in DOMAIN l /\ cur - 1 < cur
          BY <1>0, <2>1, <4>2
        <5>2. l[cur - 1].id = (cur - 1) - 1 /\ l[cur - 1].id < l[cur].id
          BY <2>1, <3>3, <5>1 DEF Sorted
        <5> QED
          BY <1>0, <2>1, <3>2, <3>4, <5>2
      <4> QED
        BY <4>1, <4>2
    <3>6. \A j \in DOMAIN l : j < cur => l[j].id < id
      BY <1>0, <2>1, <3>2, <3>3
    <3> QED
      BY <2>1, <3>5, <3>6
  <2> QED
    BY <2>2, <2>3
<1> HIDE DEF n, cur, id
<1>6. Comes(F!Insert(n, cur), n)
  BY <1>4, <1>5, InsertGives
<1> QED
  BY <1>1, <1>4, <1>6 DEF Comes, Adds
-----------------------------------------------------------------------------
(* The inductive invariant *)

FdsType ==
    /\ open \subseteq Fd /\ taken \subseteq Fd
    /\ named \in NamedType
    /\ mon_fdsets \in Seq(SetType)

\* The list is ordered, and what is open has one owner.
FdsInv ==
    /\ FdsType
    /\ Sorted(mon_fdsets)
    /\ Owned(open, named, taken, F!ToSet(mon_fdsets))

LEMMA FdsInvInit == F!Init => FdsInv
<1> SUFFICES ASSUME F!Init PROVE FdsInv
  OBVIOUS
<1>1. FdsType /\ Sorted(mon_fdsets) /\ F!ToSet(mon_fdsets) = {}
  BY DEF F!Init, FdsType, NamedType, Sorted, F!ToSet
<1>2. \A f \in Fd : Names(named, f) = {}
  <2>1. F!NoFd \notin Fd
    BY FdsAssumption DEF F!NoFd
  <2>2. \A x \in Client \X Name : named[x[1]][x[2]] = F!NoFd
    BY DEF F!Init
  <2> QED
    BY <2>1, <2>2 DEF Names
<1>3. Owned(open, named, taken, {})
  BY <1>2 DEF F!Init, Owned, NoneLost, NoneClosed, NoneShared
<1> QED
  BY <1>1, <1>3 DEF FdsInv

LEMMA NewIsFree ==
    ASSUME F!Free # {}
    PROVE  F!New \in Fd /\ F!New \notin open
<1>1. F!Free \subseteq Nat
  BY FdsAssumption DEF F!Free
<1>2. F!Min(F!Free) \in F!Free
  BY <1>1, MinGives
<1> QED
  BY <1>2 DEF F!New, F!Free

LEMMA SetsAreTyped ==
    ASSUME FdsType
    PROVE  F!ToSet(mon_fdsets) \subseteq SetType
BY DEF FdsType, F!ToSet

\* monitor_fdset_cleanup takes descriptors away.
LEMMA CleanedGives ==
    ASSUME NEW s \in SetType, NEW refs
    PROVE  LET t == F!Cleaned(s, refs)
           IN  t \in SetType /\ t.id = s.id /\ t.dups = s.dups /\ F!Fds(t) \subseteq F!Fds(s)
<1> DEFINE fds == {d \in s.fds : ~(running /\ (d.removed \/ (s.dups = {} /\ refs = 0)))}
           t == F!Cleaned(s, refs)
<1>1. t = [s EXCEPT !.fds = fds]
  BY DEF F!Cleaned
<1>2. fds \subseteq s.fds
  OBVIOUS
<1> SUFFICES t \in SetType /\ t.id = s.id /\ t.dups = s.dups /\ F!Fds(t) \subseteq F!Fds(s)
  OBVIOUS
<1> HIDE DEF fds, t
<1>3. t \in SetType /\ t.id = s.id /\ t.dups = s.dups /\ t.fds = fds
  BY <1>1, <1>2 DEF SetType
<1> QED
  BY <1>2, <1>3 DEF F!Fds

LEMMA EmptyHoldsNothing == ASSUME NEW s, F!Empty(s) PROVE Holds(s) = {}
BY DEF F!Empty, Holds, F!Fds

\* The set at i, with the marks and the copies of s, is cleaned up.
LEMMA CleanUpKeeps ==
    ASSUME FdsInv, NEW i \in DOMAIN mon_fdsets, NEW s \in SetType, s.id = mon_fdsets[i].id,
           F!Fds(s) = F!Fds(mon_fdsets[i]), s.dups \subseteq mon_fdsets[i].dups,
           F!CleanUp(i, s), UNCHANGED <<named, taken>>
    PROVE  FdsInv'
<1> DEFINE S == F!ToSet(mon_fdsets)
           u == mon_fdsets[i]
           t == F!Cleaned(s, F!Cardinality(clients))
           A == [v \in S |-> IF v = u THEN t ELSE v]
           T == F!ToSet(mon_fdsets')
           gone == UNION {Holds(v) \ Holds(A[v]) : v \in S}
<1>1. S \subseteq SetType /\ u \in S /\ u \in SetType
  BY SetsAreTyped DEF FdsInv, FdsType, F!ToSet
<1>2. t \in SetType /\ t.id = u.id /\ t.dups = s.dups /\ F!Fds(t) \subseteq F!Fds(u)
  BY CleanedGives
<1>3. /\ open' = (open \ (F!Fds(s) \ F!Fds(t))) \ (u.dups \ s.dups)
      /\ mon_fdsets' = IF F!Empty(t) THEN F!RemoveAt(mon_fdsets, i) ELSE [mon_fdsets EXCEPT ![i] = t]
  BY DEF F!CleanUp
<1> HIDE DEF t
<1>4. /\ mon_fdsets' \in Seq(SetType) /\ Sorted(mon_fdsets')
      /\ F!Empty(t) => T = S \ {u}
      /\ ~F!Empty(t) => T = (S \ {u}) \cup {t}
  <2>1. mon_fdsets \in Seq(SetType) /\ Sorted(mon_fdsets)
    BY DEF FdsInv, FdsType
  <2>2. CASE F!Empty(t)
    <3> DEFINE r == F!RemoveAt(mon_fdsets, i)
    <3>1. r \in Seq(SetType) /\ Sorted(r) /\ F!ToSet(r) = S \ {u}
      BY <2>1, RemoveAtGives
    <3>2. mon_fdsets' = r
      BY <1>3, <2>2
    <3> HIDE DEF r
    <3> QED
      BY <2>2, <3>1, <3>2
  <2>3. CASE ~F!Empty(t)
    <3> DEFINE r == Replaced(mon_fdsets, i, t)
    <3>1. r \in Seq(SetType) /\ Sorted(r) /\ F!ToSet(r) = (S \ {u}) \cup {t}
      BY <1>2, <2>1, ReplaceGives
    <3>2. mon_fdsets' = r
      BY <1>3, <2>3 DEF Replaced
    <3> HIDE DEF r
    <3> QED
      BY <2>3, <3>1, <3>2
  <2> QED
    BY <2>2, <2>3
<1>5. Owned(open, named, taken, S)
  BY DEF FdsInv
<1> HIDE DEF S, u
<1>6. \A v \in S : /\ F!Fds(A[v]) \subseteq F!Fds(v) /\ A[v].dups \subseteq v.dups
                   /\ v # u => A[v] = v
                   /\ v = u => A[v] = t
  BY <1>2 DEF u
<1> HIDE DEF A
<1>7. \A v \in T : \E w \in S : v = A[w]
  BY <1>1, <1>4, <1>6
<1>8. \A v \in S : A[v] \in T \/ Holds(A[v]) = {}
  BY <1>4, <1>6, EmptyHoldsNothing
<1> HIDE DEF T
<1>9. Owned(open \ gone, named, taken, T)
  BY <1>1, <1>5, <1>6, <1>7, <1>8, SetsShrink
<1>10. gone = (F!Fds(s) \ F!Fds(t)) \cup (u.dups \ s.dups)
  <2>1. gone = Holds(u) \ Holds(t)
    <3>1. \A v \in S : v # u => Holds(v) \ Holds(A[v]) = {}
      BY <1>6
    <3>2. Holds(u) \ Holds(A[u]) = Holds(u) \ Holds(t)
      BY <1>1, <1>6
    <3> QED
      BY <1>1, <3>1, <3>2
  <2>2. F!Fds(u) \cap u.dups = {}
    BY <1>1, <1>5 DEF Owned, NoneShared
  <2>3. F!Fds(s) = F!Fds(u) /\ s.dups \subseteq u.dups
    BY DEF u
  <2> QED
    BY <1>2, <2>1, <2>2, <2>3 DEF Holds
<1>11. open' = open \ gone
  BY <1>3, <1>10
<1> HIDE DEF gone
<1>12. open' \subseteq Fd /\ taken' = taken /\ named' = named
  BY <1>11 DEF FdsInv, FdsType
<1> QED
  BY <1>4, <1>9, <1>11, <1>12 DEF FdsInv, FdsType, T

\* A client goes: all sets are cleaned up.
LEMMA ClosedKeeps ==
    ASSUME FdsInv, NEW m \in Client, F!Closed(m)
    PROVE  FdsInv'
<1> DEFINE l == mon_fdsets
           S == F!ToSet(l)
           c == F!Cardinality(clients')
           A == [v \in S |-> F!Cleaned(v, c)]
           all == [i \in DOMAIN l |-> A[l[i]]]
           T == F!ToSet(mon_fdsets')
           gone == UNION {Holds(v) \ Holds(A[v]) : v \in S}
<1>1. S \subseteq SetType /\ \A i \in DOMAIN l : l[i] \in S
  BY SetsAreTyped DEF FdsInv, FdsType, F!ToSet
<1>2. \A v \in S : /\ A[v] \in SetType /\ A[v].id = v.id /\ A[v].dups = v.dups
                   /\ F!Fds(A[v]) \subseteq F!Fds(v)
  BY <1>1, CleanedGives
<1>3. /\ open' = open \ UNION {F!Fds(v) \ F!Fds(A[v]) : v \in S}
      /\ mon_fdsets' = F!NotEmpty(all)
      /\ UNCHANGED <<named, taken>>
  <2>1. all = [i \in DOMAIN l |-> F!Cleaned(l[i], c)]
    BY <1>1
  <2>2. {F!Fds(v) \ F!Fds(A[v]) : v \in S} = {F!Fds(v) \ F!Fds(F!Cleaned(v, c)) : v \in S}
    OBVIOUS
  <2> HIDE DEF A, all
  <2> QED
    BY <2>1, <2>2 DEF F!Closed
<1> HIDE DEF A
<1>4. /\ all \in Seq(SetType) /\ DOMAIN all = DOMAIN l
      /\ \A i \in DOMAIN l : all[i] = A[l[i]] /\ all[i].id = l[i].id
  <2>1. l \in Seq(SetType) /\ Len(l) \in Nat /\ DOMAIN l = 1..Len(l)
    BY DEF FdsInv, FdsType
  <2> HIDE DEF S, l
  <2> QED
    BY <1>1, <1>2, <2>1
<1>5. Sorted(all)
  <2>1. Sorted(l)
    BY DEF FdsInv
  <2> HIDE DEF l, all
  <2> QED
    BY <1>4, <2>1 DEF Sorted
<1>6. F!ToSet(all) = {A[v] : v \in S}
  <2> HIDE DEF all
  <2> QED
    BY <1>4 DEF F!ToSet
<1>7. mon_fdsets' \in Seq(SetType) /\ Sorted(mon_fdsets') /\ T = {v \in F!ToSet(all) : ~F!Empty(v)}
  <2> HIDE DEF all
  <2> QED
    BY <1>3, <1>4, <1>5, NotEmptyGives
<1>8. Owned(open, named, taken, S)
  BY DEF FdsInv
<1> HIDE DEF S, T, all, c, l
<1>9. \A v \in T : \E w \in S : v = A[w]
  BY <1>6, <1>7
<1>10. \A v \in S : A[v] \in T \/ Holds(A[v]) = {}
  BY <1>6, <1>7, EmptyHoldsNothing
<1>11. Owned(open \ gone, named, taken, T)
  <2>1. \A v \in S : F!Fds(A[v]) \subseteq F!Fds(v) /\ A[v].dups \subseteq v.dups
    BY <1>2
  <2>2. S \subseteq SetType
    BY <1>1
  <2> QED
    BY <1>8, <1>9, <1>10, <2>1, <2>2, SetsShrink
<1>12. gone = UNION {F!Fds(v) \ F!Fds(A[v]) : v \in S}
  <2>1. \A v \in S : Holds(v) \ Holds(A[v]) = F!Fds(v) \ F!Fds(A[v])
    BY <1>2, <1>8 DEF Holds, Owned, NoneShared
  <2> QED
    BY <2>1
<1>13. open' = open \ gone /\ taken' = taken /\ named' = named
  BY <1>3, <1>12
<1> HIDE DEF gone
<1>14. open' \subseteq Fd
  BY <1>13 DEF FdsInv, FdsType
<1> QED
  BY <1>7, <1>11, <1>13, <1>14 DEF FdsInv, FdsType, T
\* qmp_add_fd.
LEMMA AddFdKeeps ==
    ASSUME FdsInv, NEW m \in Client, F!AddFd(m)
    PROVE  FdsInv'
<1>1. F!New \in Fd /\ F!New \notin open
  BY NewIsFree DEF F!AddFd
<1>2. open' = open \cup {F!New} /\ UNCHANGED <<named, taken>>
  BY DEF F!AddFd
<1>3. Adds(mon_fdsets', F!New)
  <2>1. mon_fdsets \in Seq(SetType) /\ Sorted(mon_fdsets)
    BY DEF FdsInv, FdsType
  <2>2. (\E id \in SetId : mon_fdsets' = F!AddsTo(id, F!New)) \/ mon_fdsets' = F!AddsNew(F!New)
    BY DEF F!AddFd
  <2> QED
    BY <1>1, <2>1, <2>2, FdsAssumption, AddsToGives, AddsNewGives
<1> DEFINE S == F!ToSet(mon_fdsets)
           T == F!ToSet(mon_fdsets')
<1>4. Owned(open, named, taken, S) /\ S \subseteq SetType
  BY SetsAreTyped DEF FdsInv
<1>5. Owned(open \cup {F!New}, named, taken, T)
  <2>1. CASE \E s \in S, t \in SetType : /\ T = (S \ {s}) \cup {t}
                                         /\ F!Fds(t) = F!Fds(s) \cup {F!New} /\ t.dups = s.dups
    <3>1. PICK s \in S, t \in SetType : /\ T = (S \ {s}) \cup {t}
                                        /\ F!Fds(t) = F!Fds(s) \cup {F!New} /\ t.dups = s.dups
      BY <2>1
    <3> HIDE DEF S, T
    <3> QED
      BY <1>1, <1>4, <3>1, SetGrows
  <2>2. CASE \E t \in SetType : T = S \cup {t} /\ F!Fds(t) = {F!New} /\ t.dups = {}
    <3>1. PICK t \in SetType : T = S \cup {t} /\ F!Fds(t) = {F!New} /\ t.dups = {}
      BY <2>2
    <3> HIDE DEF S, T
    <3> QED
      BY <1>1, <1>4, <3>1, SetComes
  <2> QED
    BY <1>3, <2>1, <2>2 DEF Adds
<1> QED
  BY <1>1, <1>2, <1>3, <1>5 DEF FdsInv, FdsType, Adds

\* qemu_open of a set.
LEMMA OpenSetKeeps ==
    ASSUME FdsInv, NEW i \in DOMAIN mon_fdsets, F!OpenSet(i)
    PROVE  FdsInv'
<1> DEFINE S == F!ToSet(mon_fdsets)
           T == F!ToSet(mon_fdsets')
           s == mon_fdsets[i]
           t == [s EXCEPT !.dups = s.dups \cup {F!New}]
<1>1. F!New \in Fd /\ F!New \notin open
  BY NewIsFree DEF F!OpenSet
<1>2. Owned(open, named, taken, S) /\ S \subseteq SetType /\ s \in S /\ s \in SetType
  BY SetsAreTyped DEF FdsInv, F!ToSet
<1>3. /\ open' = open \cup {F!New} /\ UNCHANGED <<named, taken>>
      /\ mon_fdsets' = Replaced(mon_fdsets, i, t)
  BY DEF F!OpenSet, Replaced
<1>4. t \in SetType /\ t.id = s.id /\ F!Fds(t) = F!Fds(s) /\ t.dups = s.dups \cup {F!New}
  <2> HIDE DEF s
  <2> QED
    BY <1>1, <1>2 DEF SetType, F!Fds
<1> HIDE DEF t
<1>5. mon_fdsets' \in Seq(SetType) /\ Sorted(mon_fdsets') /\ T = (S \ {s}) \cup {t}
  BY <1>3, <1>4, ReplaceGives DEF FdsInv, FdsType
<1>6. Owned(open \cup {F!New}, named, taken, T)
  <2> HIDE DEF S, T, s
  <2> QED
    BY <1>1, <1>2, <1>4, <1>5, SetGrows
<1> QED
  BY <1>1, <1>3, <1>5, <1>6 DEF FdsInv, FdsType

\* qemu_close of a copy.
LEMMA CloseDupKeeps ==
    ASSUME FdsInv, NEW i \in DOMAIN mon_fdsets, NEW f \in mon_fdsets[i].dups, F!CloseDup(i, f)
    PROVE  FdsInv'
<1> DEFINE S == F!ToSet(mon_fdsets)
           T == F!ToSet(mon_fdsets')
           u == mon_fdsets[i]
           s == [u EXCEPT !.dups = u.dups \ {f}]
           A == [v \in S |-> IF v = u THEN s ELSE v]
           gone == UNION {Holds(v) \ Holds(A[v]) : v \in S}
<1>1. Owned(open, named, taken, S) /\ S \subseteq SetType /\ u \in S /\ u \in SetType
  BY SetsAreTyped DEF FdsInv, F!ToSet
<1>2. /\ UNCHANGED <<named, taken>>
      /\ \/ F!CleanUp(i, s)
         \/ mon_fdsets' = Replaced(mon_fdsets, i, s) /\ open' = open \ {f}
  BY DEF F!CloseDup, Replaced
<1>3. s \in SetType /\ s.id = u.id /\ F!Fds(s) = F!Fds(u) /\ s.dups = u.dups \ {f}
  <2> HIDE DEF u
  <2> QED
    BY <1>1 DEF SetType, F!Fds
<1>4. f \in u.dups
  OBVIOUS
<1> HIDE DEF s
<1>5. CASE F!CleanUp(i, s)
  BY <1>2, <1>3, <1>5, CleanUpKeeps
<1>6. CASE mon_fdsets' = Replaced(mon_fdsets, i, s) /\ open' = open \ {f}
  <2>1. mon_fdsets' \in Seq(SetType) /\ Sorted(mon_fdsets') /\ T = (S \ {u}) \cup {s}
    BY <1>3, <1>6, ReplaceGives DEF FdsInv, FdsType
  <2> HIDE DEF S, u
  <2>3. A[u] = s /\ \A v \in S : v # u => A[v] = v
    BY <1>1
  <2> HIDE DEF A, T
  <2>4. /\ \A v \in S : F!Fds(A[v]) \subseteq F!Fds(v) /\ A[v].dups \subseteq v.dups
        /\ \A v \in T : \E w \in S : v = A[w]
        /\ \A v \in S : A[v] \in T
    BY <1>1, <1>3, <2>1, <2>3
  <2>5. Owned(open \ gone, named, taken, T)
    BY <1>1, <2>4, SetsShrink
  <2>6. gone = {f}
    <3>1. \A v \in S : v # u => Holds(v) \ Holds(A[v]) = {}
      BY <2>3
    <3>2. Holds(u) \ Holds(A[u]) = {f}
      BY <1>1, <1>3, <1>4, <2>3 DEF Holds, Owned, NoneShared
    <3> QED
      BY <1>1, <3>1, <3>2
  <2> HIDE DEF gone
  <2>7. open' \subseteq Fd
    BY <1>6 DEF FdsInv, FdsType
  <2> QED
    BY <1>2, <1>6, <2>1, <2>5, <2>6, <2>7 DEF FdsInv, FdsType, T
<1> QED
  BY <1>2, <1>5, <1>6

\* qmp_remove_fd.
LEMMA RemoveFdKeeps ==
    ASSUME FdsInv, NEW i \in DOMAIN mon_fdsets, NEW m, NEW which, F!RemoveFd(m, i, which)
    PROVE  FdsInv'
<1> DEFINE u == mon_fdsets[i]
           Marks(d) == IF d.fd \in which THEN [d EXCEPT !.removed = TRUE] ELSE d
           fds == {Marks(d) : d \in u.fds}
           s == [u EXCEPT !.fds = fds]
<1>1. u \in SetType
  BY DEF FdsInv, FdsType
<1>2. F!CleanUp(i, s) /\ UNCHANGED <<named, taken>>
  BY DEF F!RemoveFd
<1>3. \A d \in u.fds : Marks(d) \in [fd : Fd, removed : BOOLEAN] /\ Marks(d).fd = d.fd
  <2> HIDE DEF u
  <2>1. \A d \in u.fds : d \in [fd : Fd, removed : BOOLEAN]
    BY <1>1 DEF SetType
  <2> QED
    BY <2>1
<1> HIDE DEF u, Marks
<1>4. fds \subseteq [fd : Fd, removed : BOOLEAN] /\ {d.fd : d \in fds} = {d.fd : d \in u.fds}
  BY <1>3
<1> HIDE DEF fds
<1>5. s \in SetType /\ s.id = u.id /\ s.fds = fds /\ s.dups = u.dups
  BY <1>1, <1>4 DEF SetType
<1> HIDE DEF s
<1>6. F!Fds(s) = F!Fds(u)
  BY <1>4, <1>5 DEF F!Fds
<1> QED
  BY <1>2, <1>5, <1>6, CleanUpKeeps DEF u

\* The commands on names.
LEMMA NamesKeep ==
    ASSUME FdsInv, NEW m \in Client, NEW n \in Name, F!GetFd(m, n) \/ F!CloseFd(m, n) \/ F!TakeFd(m, n)
    PROVE  FdsInv'
<1> DEFINE S == F!ToSet(mon_fdsets)
           f == named[m][n]
<1>0. /\ mon_fdsets' = mon_fdsets /\ open \subseteq Fd /\ named \in NamedType
      /\ Owned(open, named, taken, S) /\ taken \subseteq Fd
  BY DEF F!GetFd, F!CloseFd, F!TakeFd, FdsInv, FdsType
<1>1. F!ToSet(mon_fdsets)' = S /\ Sorted(mon_fdsets)' /\ (mon_fdsets \in Seq(SetType))'
  BY <1>0 DEF FdsInv, FdsType
<1> SUFFICES /\ open' \subseteq Fd /\ taken' \subseteq Fd /\ named' \in NamedType
             /\ Owned(open', named', taken', S)
  BY <1>1 DEF FdsInv, FdsType
<1> HIDE DEF S
<1>2. CASE F!GetFd(m, n)
  <2>1. F!New \in Fd /\ F!New \notin open
    BY <1>2, NewIsFree DEF F!GetFd
  <2>2. /\ named' = [named EXCEPT ![m][n] = F!New] /\ taken' = taken
        /\ open' = (open \cup {F!New}) \ F!Some(named[m][n])
    BY <1>2 DEF F!GetFd
  <2>3. open' \subseteq Fd
    BY <1>0, <2>1, <2>2
  <2>4. named' \in NamedType
    BY <1>0, <2>1, <2>2, NamesGive
  <2>5. Owned((open \cup {F!New}) \ F!Some(named[m][n]), [named EXCEPT ![m][n] = F!New], taken, S)
    BY <1>0, <2>1, NameComes
  <2> QED
    BY <1>0, <2>2, <2>3, <2>4, <2>5
<1>3. CASE F!CloseFd(m, n) \/ F!TakeFd(m, n)
  <2>1. f # F!NoFd /\ named' = [named EXCEPT ![m][n] = F!NoFd]
    BY <1>3 DEF F!CloseFd, F!TakeFd
  <2> DEFINE new == [named EXCEPT ![m][n] = F!NoFd]
  <2>2. /\ Owned(open \ {f}, new, taken, S) /\ Owned(open, new, taken \cup {f}, S)
        /\ f \in Fd /\ f \in open
    BY <1>0, <2>1, NameGoes
  <2>3. new \in NamedType
    BY <1>0, NamesGive
  <2> HIDE DEF new, f
  <2>4. named' = new
    BY <2>1 DEF new
  <2>5. \/ open' = open \ {f} /\ taken' = taken
        \/ open' = open /\ taken' = taken \cup {f}
    BY <1>3 DEF F!CloseFd, F!TakeFd, f
  <2> QED
    BY <1>0, <2>2, <2>3, <2>4, <2>5
<1> QED
  BY <1>2, <1>3

LEMMA UserClosesKeeps ==
    ASSUME FdsInv, NEW f \in taken, F!UserCloses(f)
    PROVE  FdsInv'
<1>1. taken' = taken \ {f} /\ open' = open \ {f} /\ UNCHANGED <<named, mon_fdsets>>
  BY DEF F!UserCloses
<1>2. Owned(open \ {f}, named, taken \ {f}, F!ToSet(mon_fdsets))
  BY UserGoes DEF FdsInv, FdsType
<1> QED
  BY <1>1, <1>2 DEF FdsInv, FdsType

LEMMA FdsInvNext == FdsInv /\ [F!Next]_(F!vars) => FdsInv'
<1> SUFFICES ASSUME FdsInv, [F!Next]_(F!vars) PROVE FdsInv'
  OBVIOUS
<1>1. CASE UNCHANGED <<open, named, mon_fdsets, taken>>
  BY <1>1 DEF FdsInv, FdsType
<1>2. CASE F!StopOrCont \/ UNCHANGED F!vars \/ \E m \in Client : F!Opened(m)
  BY <1>1, <1>2 DEF F!StopOrCont, F!Opened, F!vars
<1>3. ASSUME NEW m \in Client, NEW n \in Name, F!GetFd(m, n) \/ F!CloseFd(m, n) \/ F!TakeFd(m, n)
      PROVE  FdsInv'
  BY <1>3, NamesKeep
<1>4. ASSUME NEW m \in Client, F!Closed(m) \/ F!AddFd(m)
      PROVE  FdsInv'
  BY <1>4, ClosedKeeps, AddFdKeeps
<1>5. ASSUME NEW f \in taken, F!UserCloses(f)
      PROVE  FdsInv'
  BY <1>5, UserClosesKeeps
<1>6. ASSUME NEW i \in DOMAIN mon_fdsets,
             \/ F!OpenSet(i)
             \/ \E f \in mon_fdsets[i].dups : F!CloseDup(i, f)
             \/ \E m \in Client : \/ F!RemoveFd(m, i, F!Fds(mon_fdsets[i]))
                                  \/ \E f \in F!Fds(mon_fdsets[i]) : F!RemoveFd(m, i, {f})
      PROVE  FdsInv'
  BY <1>6, OpenSetKeeps, CloseDupKeeps, RemoveFdKeeps
<1> QED
  BY <1>2, <1>3, <1>4, <1>5, <1>6 DEF F!Next

-----------------------------------------------------------------------------
(* What the invariant says of the owners *)

LEMMA SharesHolders ==
    ASSUME NEW f \in Fd, FdsInv, NEW i \in DOMAIN mon_fdsets, f \in Holds(mon_fdsets[i])
    PROVE  /\ f \notin taken /\ Names(named, f) = {}
           /\ \A j \in DOMAIN mon_fdsets : f \in Holds(mon_fdsets[j]) => j = i
           /\ f \in F!Fds(mon_fdsets[i]) <=> f \notin mon_fdsets[i].dups
<1> DEFINE S == F!ToSet(mon_fdsets)
<1>1. \A j \in DOMAIN mon_fdsets : mon_fdsets[j] \in S
  BY DEF F!ToSet
<1>2. NoneShared(named, taken, S)
  BY DEF FdsInv, Owned
<1> HIDE DEF S
<1>3. f \notin taken /\ Names(named, f) = {}
  BY <1>1, <1>2 DEF NoneShared
<1>4. \A j \in DOMAIN mon_fdsets : f \in Holds(mon_fdsets[j]) => mon_fdsets[j] = mon_fdsets[i]
  BY <1>1, <1>2 DEF NoneShared
<1>5. \A j \in DOMAIN mon_fdsets : mon_fdsets[j] = mon_fdsets[i] => j = i
  BY SortedIsDistinct DEF FdsInv, FdsType
<1>6. f \in F!Fds(mon_fdsets[i]) <=> f \notin mon_fdsets[i].dups
  BY <1>1, <1>2 DEF NoneShared, Holds
<1> QED
  BY <1>3, <1>4, <1>5, <1>6

\* Two entries that have a descriptor are one.
LEMMA HoldersAgree ==
    ASSUME FdsInv, NEW f \in Fd, NEW x \in F!Holders(f), NEW y \in F!Holders(f)
    PROVE  x = y
<1> DEFINE InSet(z) == \E i \in DOMAIN mon_fdsets : z = <<"set", i>> /\ f \in F!Fds(mon_fdsets[i])
           InCopy(z) == \E i \in DOMAIN mon_fdsets : z = <<"copy", i>> /\ f \in mon_fdsets[i].dups
           InUser(z) == z = <<"user">> /\ f \in taken
<1>1. \A z \in F!Holders(f) : z \in Names(named, f) \/ InSet(z) \/ InCopy(z) \/ InUser(z)
  BY DEF F!Holders, Names
<1>2. \A z : InSet(z) \/ InCopy(z) => /\ f \notin taken /\ Names(named, f) = {}
  BY SharesHolders DEF Holds
<1>3. f \in taken => Names(named, f) = {}
  BY DEF FdsInv, Owned, NoneShared
<1>4. \A z, w \in Names(named, f) : z = w
  BY DEF FdsInv, Owned, NoneShared
<1>5. ASSUME NEW z, NEW w, InSet(z) \/ InCopy(z), InSet(w) \/ InCopy(w)
      PROVE  z = w
  <2>1. PICK i \in DOMAIN mon_fdsets : \/ z = <<"set", i>> /\ f \in F!Fds(mon_fdsets[i])
                                       \/ z = <<"copy", i>> /\ f \in mon_fdsets[i].dups
    BY <1>5
  <2>2. PICK j \in DOMAIN mon_fdsets : \/ w = <<"set", j>> /\ f \in F!Fds(mon_fdsets[j])
                                       \/ w = <<"copy", j>> /\ f \in mon_fdsets[j].dups
    BY <1>5
  <2>3. f \in Holds(mon_fdsets[i]) /\ f \in Holds(mon_fdsets[j])
    BY <2>1, <2>2 DEF Holds
  <2>4. j = i /\ (f \in F!Fds(mon_fdsets[i]) <=> f \notin mon_fdsets[i].dups)
    BY <2>3, SharesHolders
  <2> QED
    BY <2>1, <2>2, <2>4
<1> DEFINE Named(z) == z \in Names(named, f)
           Kept(z) == InSet(z) \/ InCopy(z)
<1>6. /\ Named(x) \/ Kept(x) \/ InUser(x)
      /\ Named(y) \/ Kept(y) \/ InUser(y)
  BY <1>1
<1>7. /\ Kept(x) \/ Kept(y) => ~Named(x) /\ ~Named(y) /\ ~InUser(x) /\ ~InUser(y)
      /\ InUser(x) \/ InUser(y) => ~Named(x) /\ ~Named(y)
      /\ InUser(x) /\ InUser(y) => x = y
      /\ Named(x) /\ Named(y) => x = y
      /\ Kept(x) /\ Kept(y) => x = y
  BY <1>2, <1>3, <1>4, <1>5
<1> HIDE DEF Named, Kept, InUser
<1> QED
  BY <1>6, <1>7

LEMMA HoldersOfOpen ==
    ASSUME FdsInv, NEW f \in Fd
    PROVE  F!Holders(f) # {} <=> f \in open
<1> DEFINE S == F!ToSet(mon_fdsets)
<1>1. /\ f \in taken => <<"user">> \in F!Holders(f)
      /\ Names(named, f) \subseteq F!Holders(f)
      /\ \A i \in DOMAIN mon_fdsets : /\ f \in F!Fds(mon_fdsets[i]) => <<"set", i>> \in F!Holders(f)
                                      /\ f \in mon_fdsets[i].dups => <<"copy", i>> \in F!Holders(f)
  BY DEF F!Holders, Names
<1>2. ASSUME f \in open PROVE F!Holders(f) # {}
  <2>1. f \in taken \/ Names(named, f) # {} \/ \E s \in S : f \in Holds(s)
    BY <1>2 DEF FdsInv, Owned, NoneLost
  <2>2. CASE \E s \in S : f \in Holds(s)
    <3>1. PICK i \in DOMAIN mon_fdsets : f \in Holds(mon_fdsets[i])
      BY <2>2 DEF F!ToSet
    <3> QED
      BY <1>1, <3>1 DEF Holds
  <2>3. CASE f \in taken \/ Names(named, f) # {}
    BY <1>1, <2>3
  <2> QED
    BY <2>1, <2>2, <2>3
<1>3. ASSUME F!Holders(f) # {} PROVE f \in open
  <2>1. NoneClosed(open, named, taken, S)
    BY DEF FdsInv, Owned
  <2>2. \/ Names(named, f) # {}
        \/ f \in taken
        \/ \E i \in DOMAIN mon_fdsets : f \in Holds(mon_fdsets[i])
    BY <1>3 DEF F!Holders, Names, Holds
  <2>3. \A i \in DOMAIN mon_fdsets : mon_fdsets[i] \in S
    BY DEF F!ToSet
  <2> HIDE DEF S
  <2> QED
    BY <2>1, <2>2, <2>3 DEF NoneClosed
<1> QED
  BY <1>2, <1>3

LEMMA Counts == ASSUME NEW S PROVE F!Cardinality(S) = Cardinality(S)
BY DEF F!Cardinality, Cardinality

LEMMA FdsInvOwns == FdsInv => F!FdsAreOwned
<1> SUFFICES ASSUME FdsInv PROVE F!FdsAreOwned
  OBVIOUS
<1>1. ASSUME NEW f \in Fd
      PROVE  F!Cardinality(F!Holders(f)) = IF f \in open THEN 1 ELSE 0
  <2>1. CASE f \in open
    <3>1. PICK x : x \in F!Holders(f)
      BY <2>1, HoldersOfOpen
    <3>2. F!Holders(f) = {x}
      BY <3>1, HoldersAgree
    <3>3. F!Cardinality({x}) = 1
      BY FS_Singleton, Counts
    <3> QED
      BY <2>1, <3>2, <3>3
  <2>2. CASE f \notin open
    <3>1. F!Holders(f) = {}
      BY <2>2, HoldersOfOpen
    <3> QED
      BY <2>2, <3>1, FS_EmptySet, Counts
  <2> QED
    BY <2>1, <2>2
<1>2. \A i, j \in DOMAIN mon_fdsets : i < j => mon_fdsets[i].id < mon_fdsets[j].id
  BY DEF FdsInv, Sorted
<1> QED
  BY <1>1, <1>2 DEF F!FdsAreOwned

\* Every descriptor that is open has one owner who will close it, nobody has one that
\* is closed, and an id names one set (getfd, closefd, add-fd, remove-fd, qemu_open and
\* qemu_close on a set, a client that goes), for all clients, names, ids and descriptors.
THEOREM FdsOwned == F!Spec => []FdsAreOwned
<1>1. FdsInv => FdsAreOwned
  BY FdsInvOwns DEF FdsAreOwned
<1> QED
  BY <1>1, FdsInvInit, FdsInvNext, PTL DEF F!Spec

\* So the descriptors of the monitor are owned, whatever its other parts do.
THEOREM MonitorOwnsFds == MonitorSpec => []FdsAreOwned
<1>1. MonitorInit => F!Init
  BY DEF MonitorInit
<1>2. [MonitorNext]_monitorvars => [F!Next]_(F!vars)
  BY DEF MonitorNext, monitorvars, fdvars, F!vars
<1> QED
  BY <1>1, <1>2, FdsOwned, PTL DEF MonitorSpec, F!Spec

===============================================================================
