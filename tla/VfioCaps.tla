-------------------------------- MODULE VfioCaps --------------------------------
(***************************************************************************)
(* How a vfio-pci device shows the guest the capabilities of its physical  *)
(* device.  QEMU's copy of the config space is parsed and rebuilt in       *)
(* place: the standard chain by a recursion that adds from its end,        *)
(* because the core inserts at the head; the extended chain from a copy,   *)
(* because the core appends at the tail.  Positions are numbers in the     *)
(* order of the bytes they stand for.                                      *)
(***************************************************************************)
EXTENDS Naturals, Sequences, FiniteSetsExt

CONSTANTS
    End,        \* the end of a config space: positions are 1..End - 1
    Chips       \* the physical devices, records of
                \*   std   the standard chain, a sequence of [pos, id]
                \*   ext   the extended chain, which starts at position 1
                \*   type  of the PCIe device: "endpoint", "legacy", "integrated", "other"
                \*   bus   the guest's bus: "pci", "below" (a conventional bus of an
                \*         express machine), "root" or "express"
                \*   msi   what the core does with MSI and MSI-X: "ok", "unsupported"
                \*         or "error"
                \*   flr   the capabilities that promise a function level reset
                \*   pm    whether the device is reset by its way through D3

Pos == 1..(End - 1)
Stub == "0xFFFF"
Zero == "0"             \* the id of a capability the kernel hides

VARIABLES
    chip,       \* the device
    cfg,        \* QEMU's copy of the config space: head and next pointers of the
                \*   standard chain, next pointers (xnext) and ids (xid) of the
                \*   extended one, the type in the PCIe capability
    cache,      \* the copy of xnext that the extended chain is read from
    walk,       \* "down" and "up" the recursion, "ext", "done" or "failed"
    at,         \* the capability the walk comes to
    stack,      \* the frames of the recursion
    added,      \* the standard capabilities the core has, with their sizes
    found       \* has_flr and has_pm_reset

vars == <<chip, cfg, cache, walk, at, stack, added, found>>

\* What a chip's chain is: no place twice, and the stub is no capability's id.
IsChain(c) ==
    /\ c \in Seq([pos : Pos, id : STRING \ {Stub}])
    /\ \A i, j \in DOMAIN c : c[i].pos = c[j].pos => i = j

\* The positions a chain of next pointers leads to: all that every set has which has
\* the head and with a position the next one.
Chain(head, next) ==
    {p \in Pos : \A S \in SUBSET Pos :
        head \in S \cup {0} /\ (\A q \in S : next[q] \in S \cup {0}) => p \in S}

\* The space up to the next capability, wherever it is in the chain.
MaxSize(places, p) == Min({q \in places \cup {End} : q > p}) - p

IndexOf(c, p) == CHOOSE i \in DOMAIN c : c[i].pos = p
IdAt(c, p) == c[IndexOf(c, p)].id

\* The copy of the device's config space.
Copied(c) ==
    LET next(s) == [p \in Pos |-> IF \E i \in DOMAIN s : s[i].pos = p /\ i < Len(s)
                                    THEN s[IndexOf(s, p) + 1].pos ELSE 0]
    IN  [head |-> IF c.std = <<>> THEN 0 ELSE c.std[1].pos, next |-> next(c.std),
         xnext |-> next(c.ext),
         xid |-> [p \in Pos |-> IF \E i \in DOMAIN c.ext : c.ext[i].pos = p
                                  THEN IdAt(c.ext, p) ELSE Zero],
         type |-> c.type]

\* vfio_add_capabilities: without a standard chain nothing is added.
Init ==
    /\ chip \in Chips /\ cfg = Copied(chip) /\ cache = cfg.xnext
    /\ at = cfg.head /\ walk = IF at = 0 THEN "done" ELSE "down"
    /\ stack = <<>> /\ added = {} /\ found = {}

-----------------------------------------------------------------------------
(* vfio_add_std_cap *)

\* Mutant of Descend: every capability gets the rest of the space.
BugDescend ==
    /\ walk = "down"
    /\ stack' = <<[pos |-> at, size |-> End - at]>> \o stack
    /\ IF cfg.next[at] # 0
         THEN at' = cfg.next[at] /\ UNCHANGED <<walk, cfg>>
         ELSE walk' = "up" /\ cfg' = [cfg EXCEPT !.head = 0] /\ UNCHANGED at
    /\ UNCHANGED <<chip, cache, added, found>>

\* One more frame; behind the last capability the chain is emptied.
Descend ==
    /\ walk = "down"
    /\ stack' = <<[pos |-> at, size |-> MaxSize(Chain(cfg.head, cfg.next), at)]>> \o stack
    /\ IF cfg.next[at] # 0
         THEN at' = cfg.next[at] /\ UNCHANGED <<walk, cfg>>
         ELSE walk' = "up" /\ cfg' = [cfg EXCEPT !.head = 0] /\ UNCHANGED at
    /\ UNCHANGED <<chip, cache, added, found>>

\* The device types a guest's bus has: where the PCIe capability is left out, and
\* the type it shows.
HidesExp == chip.bus = "below" \/ (chip.bus = "root" /\ chip.type = "legacy")
ShownType ==
    CASE chip.bus = "root" /\ chip.type = "endpoint"      -> "integrated"
      [] chip.bus = "express" /\ chip.type = "integrated" -> "endpoint"
      [] OTHER                                            -> chip.type

Rejects(id) == \/ id \in {"msi", "msix"} /\ chip.msi = "error"
               \/ id = "exp" /\ chip.type = "other"
Drops(id) == \/ id \in {"msi", "msix"} /\ chip.msi = "unsupported"
             \/ id = "exp" /\ HidesExp

\* pci_add_capability: at the head.
AddCapability(frame) ==
    /\ added' = added \cup {frame}
    /\ cfg' = [cfg EXCEPT !.head = frame.pos, !.next[frame.pos] = cfg.head,
                          !.type = IF IdAt(chip.std, frame.pos) = "exp" THEN ShownType ELSE @]

\* What the capabilities tell of the ways to reset the device.
Tells(id) == (IF id \in {"exp", "af"} \cap chip.flr THEN {"flr"} ELSE {})
             \cup (IF id = "pm" /\ chip.pm THEN {"pm"} ELSE {})

\* A frame of the recursion ends: its capability is added, or left out, or the
\* device refused, with all frames.
Ascend ==
    /\ walk = "up" /\ stack # <<>>
    /\ LET frame == Head(stack)
           id    == IdAt(chip.std, frame.pos)
       IN  /\ found' = found \cup Tells(id)
           /\ IF Rejects(id) THEN walk' = "failed" /\ stack' = <<>> /\ UNCHANGED <<cfg, added>>
              ELSE /\ stack' = Tail(stack) /\ UNCHANGED walk
                   /\ IF Drops(id) THEN UNCHANGED <<cfg, added>> ELSE AddCapability(frame)
    /\ UNCHANGED <<chip, cache, at>>

-----------------------------------------------------------------------------
(* vfio_add_ext_cap *)

SeesExt == chip.bus \in {"root", "express"} /\ chip.ext # <<>>

\* Mutant of StubHead: the head of the chain stays what it is.
BugStubHead == UNCHANGED cfg

\* The head of the chain is a stub, which no capability follows yet.
StubHead == cfg' = [cfg EXCEPT !.xid[1] = Stub, !.xnext[1] = 0]

StdDone ==
    /\ walk = "up" /\ stack = <<>>
    /\ IF SeesExt THEN walk' = "ext" /\ at' = 1 /\ StubHead
                  ELSE walk' = "done" /\ UNCHANGED <<at, cfg>>
    /\ UNCHANGED <<chip, cache, stack, added, found>>

DropsExt(id) == id \in {Zero, "sriov", "ari"}

\* pcie_add_capability: at the tail.
AddExt(p, id) ==
    LET tail == CHOOSE q \in Chain(1, cfg.xnext) : cfg.xnext[q] = 0
    IN  cfg' = IF p = 1 THEN [cfg EXCEPT !.xid[1] = id]
               ELSE [cfg EXCEPT !.xnext = [@ EXCEPT ![tail] = p, ![p] = 0], !.xid[p] = id]

\* It is not read from the config space that is being rebuilt.
NextExt(p) == cache[p]

WalkExt ==
    /\ walk = "ext" /\ at # 0
    /\ LET id == IdAt(chip.ext, at)
       IN  IF DropsExt(id) THEN UNCHANGED cfg ELSE AddExt(at, id)
    /\ at' = NextExt(at)
    /\ UNCHANGED <<chip, cache, walk, stack, added, found>>

\* A stub that is still there becomes an absent capability.
ExtDone ==
    /\ walk = "ext" /\ at = 0
    /\ cfg' = [cfg EXCEPT !.xid[1] = IF @ = Stub THEN Zero ELSE @]
    /\ walk' = "done"
    /\ UNCHANGED <<chip, cache, at, stack, added, found>>

Next == Descend \/ Ascend \/ StdDone \/ WalkExt \/ ExtDone

Spec == Init /\ [][Next]_vars

-----------------------------------------------------------------------------
(* Properties *)

StdKept == {i \in DOMAIN chip.std : ~Drops(chip.std[i].id)}
ExtKept == {i \in DOMAIN chip.ext : ~DropsExt(chip.ext[i].id)}

\* The position of the first of the capabilities K of chain c behind the i-th.
NextOf(c, K, i) == LET behind == {j \in K : j > i}
                   IN  IF behind = {} THEN 0 ELSE c[Min(behind)].pos

\* The pointers lead to the capabilities K of c, in the order of c.
Leads(head, next, c, K) ==
    /\ head = NextOf(c, K, 0)
    /\ \A i \in K : next[c[i].pos] = NextOf(c, K, i)

\* "To end up with a chain that matches the physical device": the guest's standard
\* chain is the device's without what was dropped, in the same order, and no two
\* capabilities share a byte.
StdMatches ==
    walk \in {"ext", "done"} =>
        /\ Leads(cfg.head, cfg.next, chip.std, StdKept)
        /\ \A a, b \in added : a # b => a.pos + a.size <= b.pos \/ b.pos + b.size <= a.pos

\* The extended chain is the device's without what was dropped, "regardless of their
\* position in the chain": only its head stays in the chain, as an absent capability.
\* No stub is left.
ExtMatches ==
    walk = "done" /\ SeesExt /\ chip.std # <<>> =>
        /\ Leads(1, cfg.xnext, chip.ext, ExtKept \cup {1})
        /\ \A i \in ExtKept : cfg.xid[chip.ext[i].pos] = chip.ext[i].id
        /\ 1 \notin ExtKept => cfg.xid[1] = Zero
        /\ \A p \in Pos : cfg.xid[p] # Stub

\* The guest's chains match the device's.
ChainsMatch == StdMatches /\ ExtMatches

=============================================================================
