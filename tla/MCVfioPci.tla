------------------------------ MODULE MCVfioPci ------------------------------
(***************************************************************************)
(* Small machines, chips and cards for VfioPci.                            *)
(***************************************************************************)
EXTENDS VfioPci

CONSTANTS f1, f2, f3

(* The machines: two functions of any two kinds, in one group or two; and three   *)
(* of which two have no reset of their own, in groups of which QEMU may lack one. *)

Kind(w, l, p, o) == [works |-> w, flr |-> l, pm |-> p, own |-> o]
Kinds == <<Kind(TRUE, TRUE, FALSE, FALSE), Kind(TRUE, FALSE, TRUE, FALSE),
           Kind(FALSE, FALSE, FALSE, FALSE), Kind(FALSE, TRUE, TRUE, TRUE)>>

Pairs ==
    {[bus |-> <<f1, f2>>, group |-> f1 :> 1 @@ f2 :> g @@ f3 :> 3, info |-> i,
      kind |-> f1 :> Kinds[a] @@ f2 :> Kinds[b] @@ f3 :> Kinds[1]] :
        g \in {1, 2}, i \in BOOLEAN, a \in 1..4, b \in 1..4}

Triples ==
    {[bus |-> <<f1, f2, f3>>, group |-> f1 :> 1 @@ f2 :> 2 @@ f3 :> g, info |-> TRUE,
      kind |-> f1 :> Kinds[3] @@ f2 :> Kinds[a] @@ f3 :> Kinds[3]] :
        g \in {1, 3}, a \in {1, 2}}

MCMachines == Pairs \cup Triples

(* The chips: standard chains of three capabilities in any order of their places, *)
(* on every bus; extended chains with any two of three capabilities dropped.      *)

Cap(p, i) == [pos |-> p, id |-> i]

StdChains ==
    {<<>>} \cup {<<Cap(p[1], a), Cap(p[2], b), Cap(p[3], c)>> :
        p \in {q \in [1..3 -> {1, 2, 4}] : IsInjective(q)},
        a \in {"exp", "pm", "vendor"}, b \in {"msi", "af"}, c \in {"msix", "exp"}}

ExtIds == {"0", "aer", "sriov", "ari"}

ExtChains ==
    {<<>>, <<Cap(1, "aer")>>} \cup {<<Cap(1, a), Cap(p[1], b), Cap(p[2], c)>> :
        p \in {<<2, 3>>, <<4, 2>>}, a \in ExtIds, b \in ExtIds, c \in ExtIds}

Chip0 == [std |-> <<Cap(2, "exp")>>, ext |-> <<Cap(1, "aer")>>, type |-> "endpoint",
          bus |-> "express", msi |-> "ok", flr |-> {"exp"}, pm |-> TRUE]

MCChips ==
    {[Chip0 EXCEPT !.std = s, !.type = t, !.bus = b, !.msi = m] :
        s \in StdChains, t \in {"endpoint", "legacy", "integrated", "other"},
        b \in {"pci", "below", "root", "express"}, m \in {"ok", "unsupported", "error"}}
    \cup {[Chip0 EXCEPT !.ext = x, !.flr = f, !.pm = p] :
        x \in ExtChains, f \in SUBSET {"exp", "af"}, p \in BOOLEAN}

(* The cards: tables everywhere in BARs of one, two and four pages, and none; a   *)
(* virtual function.                                                              *)

Card0 == [bar |-> 8, table |-> 0, entries |-> 1, pba |-> TRUE, known |-> FALSE,
          pin |-> TRUE, aer |-> TRUE]

MCCards ==
    {[Card0 EXCEPT !.bar = b, !.table = t, !.entries = n, !.pba = p, !.known = k] :
        b \in {2, 4, 8}, t \in 0..8, n \in 0..5, p \in BOOLEAN, k \in BOOLEAN}
    \cup {[Card0 EXCEPT !.pin = FALSE, !.aer = FALSE]}
==============================================================================
