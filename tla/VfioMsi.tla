-------------------------------- MODULE VfioMsi --------------------------------
(***************************************************************************)
(* The vectors of a vfio-pci device.  The guest's writes to the MSI and    *)
(* MSI-X capabilities and to the MSI-X table switch the device between its *)
(* interrupt modes and its vectors between two eventfds: one KVM turns     *)
(* into the guest's message (the bypass), one QEMU reads to deliver the    *)
(* message or, while the vector is masked, to set its pending bit.  All    *)
(* handlers run under the big lock; the device fires at any time.          *)
(***************************************************************************)
EXTENDS Integers

CONSTANTS
    N,          \* the number of the device's vectors
    Msg,        \* the messages a guest programs
    Fails,      \* what may fail, of {"route", "msi", "intx"}
    MaxMoves    \* bound: how often the guest changes mode or message

ASSUME NAssumption     == N \in Nat \ {0} /\ Msg # {} /\ "none" \notin Msg
ASSUME FailsAssumption == Fails \subseteq {"route", "msi", "intx"} /\ MaxMoves \in Nat

VARIABLES
    mode,       \* vdev->interrupt
    cap,        \* which capability the guest has enabled
    fmask,      \* the MSI-X function mask
    tmask,      \* the masked entries of the MSI-X table
    tmsg,       \* the messages in the MSI-X table
    msi,        \* the message in the MSI capability
    dev,        \* QEMU's vectors and the host's set-up of them, a record:
                \*   nr    nr_vectors
                \*   vec   msi_vectors, with the eventfd the host signals
                \*   vpend msix->pending, pba whether QEMU answers reads of the PBA
    ev,         \* the vectors whose eventfd for QEMU is signalled
    cpend,      \* the pending bits in QEMU's PBA
    owed,       \* events that neither the guest nor the PBA has seen
    fault,      \* how QEMU failed
    moves

guest == <<cap, fmask, tmask, tmsg, msi>>
vars == <<mode, guest, dev, ev, cpend, owed, fault, moves>>

Vec == 0..(N - 1)
None == "none"

\* A vector that is not in use.  kmsg is the message of KVM's route.
Unused == [use |-> FALSE, virq |-> FALSE, kmsg |-> None, heard |-> FALSE, trig |-> "none"]
NoVectors == [nr |-> 0, vec |-> [i \in Vec |-> Unused], vpend |-> {}, pba |-> FALSE]

\* The vectors that are not masked, msix_is_masked.
OpenIn(c, f, t) == IF c = "msix" /\ ~f THEN Vec \ t ELSE {}
Open == OpenIn(cap, fmask, tmask)

\* The message of a vector, msi_get_message and msix_get_message.
Message(i) == IF cap = "msi" THEN msi ELSE tmsg[i]

Init ==
    /\ mode = "intx" /\ cap = "none" /\ fmask = FALSE /\ tmask = Vec
    /\ tmsg \in [Vec -> {CHOOSE m \in Msg : TRUE}] /\ msi \in Msg
    /\ dev = NoVectors /\ ev = {} /\ cpend = {} /\ owed = {}
    /\ fault = {} /\ moves = 0

Moves == moves < MaxMoves /\ moves' = moves + 1

\* The vectors KVM has no route for at this moment.
Refused == IF "route" \in Fails THEN SUBSET Vec ELSE {{}}

-----------------------------------------------------------------------------
(* Vectors: every operator returns the new dev *)

\* Whether a vector in use bypasses QEMU when all are enabled.
Bypasses(e, msix, open) == e.virq /\ (msix => open)

Trigger(e, bypass) == [e EXCEPT !.trig = IF bypass THEN "kvm" ELSE "qemu"]

\* Mutant of EnableVectors: only the last vector gets its eventfd.
BugEnableVectors(vec, n, msix, open) ==
    [i \in Vec |-> IF i = n - 1 /\ vec[i].use
                   THEN Trigger(vec[i], Bypasses(vec[i], msix, i \in open))
                   ELSE [vec[i] EXCEPT !.trig = "none"]]

\* vfio_enable_vectors: one call sets all eventfds.
EnableVectors(vec, n, msix, open) ==
    [i \in Vec |-> IF i < n /\ vec[i].use
                   THEN Trigger(vec[i], Bypasses(vec[i], msix, i \in open))
                   ELSE [vec[i] EXCEPT !.trig = "none"]]

\* The PBA is emulated until no vector is pending.
PbaStays(d, i) == d.pba /\ \E j \in d.vpend \ {i} : j < d.nr

\* KVM's route after a vector is used with the message m, or None.
Routed(e, i, m, refused) ==
    CASE e.virq /\ m = None              -> [e EXCEPT !.virq = FALSE, !.kmsg = None]
      [] e.virq /\ m # None              -> [e EXCEPT !.kmsg = m]
      [] ~e.virq /\ m # None /\ i \notin refused -> [e EXCEPT !.virq = TRUE, !.kmsg = m]
      [] OTHER                           -> e

\* Mutant of DoUse: a vector that is in use keeps its handler.
BugDoUse(d, i, m, heard, open, refused) ==
    LET e    == Routed([d.vec[i] EXCEPT !.use = TRUE,
                          !.heard = IF d.vec[i].use THEN d.vec[i].heard ELSE heard],
                       i, m, refused)
        vec1 == [d.vec EXCEPT ![i] = e]
        grow == d.nr < i + 1
    IN  [d EXCEPT !.nr = IF grow THEN i + 1 ELSE @,
                  !.vec = IF grow THEN EnableVectors(vec1, i + 1, TRUE, open)
                                  ELSE [vec1 EXCEPT ![i] = Trigger(e, e.virq)],
                  !.vpend = @ \ {i},
                  !.pba = PbaStays([d EXCEPT !.nr = IF grow THEN i + 1 ELSE @], i)]

\* vfio_msix_vector_do_use: all vectors are enabled anew when there are too few.
DoUse(d, i, m, heard, open, refused) ==
    LET e    == Routed([d.vec[i] EXCEPT !.use = TRUE, !.heard = heard], i, m, refused)
        vec1 == [d.vec EXCEPT ![i] = e]
        grow == d.nr < i + 1
    IN  [d EXCEPT !.nr = IF grow THEN i + 1 ELSE @,
                  !.vec = IF grow THEN EnableVectors(vec1, i + 1, TRUE, open)
                                  ELSE [vec1 EXCEPT ![i] = Trigger(e, e.virq)],
                  !.vpend = @ \ {i},
                  !.pba = PbaStays([d EXCEPT !.nr = IF grow THEN i + 1 ELSE @], i)]

\* Mutant of Release: nothing is done.
BugRelease(d, i) == d

\* vfio_msix_vector_release: a masked vector goes through QEMU, its route stays.
Release(d, i) == IF d.vec[i].virq THEN [d EXCEPT !.vec[i].trig = "qemu"] ELSE d

\* The core's notifiers for vectors that open and that close, in ascending order:
\* after[n] is dev when those below n have been told.
UseAll(d, vectors, msgs, open, refused) ==
    LET after[n \in 0..N] ==
          IF n = 0 THEN d
          ELSE IF n - 1 \in vectors
            THEN DoUse(after[n - 1], n - 1, msgs[n - 1], TRUE, open, refused)
          ELSE after[n - 1]
    IN  after[N]
ReleaseAll(d, vectors) ==
    [d EXCEPT !.vec = [i \in Vec |-> IF i \in vectors THEN Release(d, i).vec[i] ELSE @[i]]]

\* Mutant of DisableVectors: the last vector is forgotten.
BugDisableVectors(d) ==
    [d EXCEPT !.nr = 0, !.vpend = {},
              !.vec = [i \in Vec |-> IF i < d.nr - 1 /\ d.vec[i].use THEN Unused
                                     ELSE [d.vec[i] EXCEPT !.trig = "none"]]]

\* vfio_msix_disable, vfio_msi_disable and their common part.  The PBA stays as it is.
DisableVectors(d) ==
    [d EXCEPT !.nr = 0, !.vpend = {},
              !.vec = [i \in Vec |-> IF i < d.nr /\ d.vec[i].use THEN Unused ELSE d.vec[i]]]

\* The mode after vfio_intx_enable.
IntxMode == IF "intx" \in Fails THEN {"intx", "none"} ELSE {"intx"}

-----------------------------------------------------------------------------
(* The guest's writes *)

\* Events of eventfds that are closed are gone.
KeepsEvents ==
    LET kept == {i \in Vec : dev'.vec[i].use}
    IN  ev' = ev \cap kept /\ owed' = owed \cap kept

\* vfio_msix_enable, after the other modes are left: vector 0 is used without a
\* handler and released, so that the host enables MSI-X; then the core's notifiers
\* use the vectors that are open.
MsixEnable(f) ==
    /\ cap = "none" /\ Moves
    /\ cap' = "msix" /\ fmask' = f /\ mode' = "msix"
    /\ \E refused \in Refused :
         LET open == OpenIn("msix", f, tmask)
             new  == [DisableVectors(dev) EXCEPT !.vec = NoVectors.vec]
         IN  dev' = UseAll(Release(DoUse(new, 0, None, FALSE, open, refused), 0),
                           open, tmsg, open, refused)
    /\ ev' = {} /\ owed' = {}
    /\ UNCHANGED <<tmask, tmsg, msi, cpend, fault>>

\* vfio_msix_disable: the core clears the pending bits of the vectors in use.
MsixDisable ==
    /\ cap = "msix" /\ Moves
    /\ cap' = "none" /\ fmask' = FALSE
    /\ cpend' = {i \in cpend : ~dev.vec[i].use}
    /\ dev' = DisableVectors(dev) /\ mode' \in IntxMode
    /\ KeepsEvents
    /\ UNCHANGED <<tmask, tmsg, msi, fault>>

\* Vectors open and close: the core tells the notifiers, and delivers what was
\* pending on those that open.
Reopens(open, msgs) ==
    /\ \E refused \in Refused :
         dev' = UseAll(ReleaseAll(dev, Open \ open), open \ Open, msgs, open, refused)
    /\ cpend' = cpend \ open
    /\ UNCHANGED <<mode, cap, msi, ev, owed, fault>>

FunctionMask(f) ==
    /\ cap = "msix" /\ f # fmask /\ Moves
    /\ fmask' = f
    /\ Reopens(OpenIn(cap, f, tmask), tmsg)
    /\ UNCHANGED <<tmask, tmsg>>

MaskEntry(i) ==
    /\ i \notin tmask /\ Moves
    /\ tmask' = tmask \cup {i}
    /\ Reopens(OpenIn(cap, fmask, tmask'), tmsg)
    /\ UNCHANGED <<fmask, tmsg>>

\* The entry is unmasked, with a message the guest wrote while it was masked.
UnmaskEntry(i, m) ==
    /\ i \in tmask /\ Moves
    /\ tmask' = tmask \ {i} /\ tmsg' = [tmsg EXCEPT ![i] = m]
    /\ Reopens(OpenIn(cap, fmask, tmask'), tmsg')
    /\ UNCHANGED fmask

\* Vectors 0..n-1 of MSI: a handler for each, a route where KVM has one.
MsiVectors(d, n, refused) ==
    LET e(i) == Routed([Unused EXCEPT !.use = TRUE, !.heard = TRUE], i, msi, refused)
    IN  [d EXCEPT !.nr = n,
                  !.vec = EnableVectors([i \in Vec |-> IF i < n THEN e(i) ELSE d.vec[i]],
                                        n, FALSE, {})]

\* Mutant of MsiRetry: what the first attempt set up stays.
BugMsiRetry(d) == d

\* An attempt that failed is cleaned up.
MsiRetry(d) == DisableVectors(d)

\* vfio_msi_enable for k vectors: the host grants g of them, in a second attempt if
\* g is less than k, or none at all.
MsiEnable(k, g) ==
    /\ cap = "none" /\ Moves
    /\ cap' = "msi"
    /\ \E refused \in Refused :
         LET new   == [DisableVectors(dev) EXCEPT !.vec = NoVectors.vec]
             first == MsiVectors(new, k, refused)
         IN  IF g = k THEN dev' = first /\ mode' = "msi"
             ELSE IF g > 0 THEN dev' = MsiVectors(MsiRetry(first), g, refused) /\ mode' = "msi"
             ELSE "msi" \in Fails /\ dev' = MsiRetry(first) /\ mode' = "none"
    /\ ev' = {} /\ owed' = {}
    /\ UNCHANGED <<fmask, tmask, tmsg, msi, cpend, fault>>

\* vfio_msi_disable.  After an MSI that could not be enabled msi_vectors is freed
\* for the second time.
MsiDisable ==
    /\ cap = "msi" /\ Moves
    /\ cap' = "none"
    /\ dev' = DisableVectors(dev) /\ mode' \in IntxMode
    /\ fault' = IF mode = "none" THEN fault \cup {"double free"} ELSE fault
    /\ KeepsEvents
    /\ UNCHANGED <<fmask, tmask, tmsg, msi, cpend>>

\* vfio_update_msi.
UpdateMsi(m) ==
    [dev EXCEPT !.vec = [i \in Vec |-> IF i < dev.nr /\ @[i].use /\ @[i].virq
                                       THEN [@[i] EXCEPT !.kmsg = m] ELSE @[i]]]

MsiMessage(m) ==
    /\ m # msi /\ Moves
    /\ msi' = m
    /\ dev' = IF cap = "msi" THEN UpdateMsi(m) ELSE dev
    /\ UNCHANGED <<mode, cap, fmask, tmask, tmsg, ev, cpend, owed, fault>>

DisableInterrupts ==
    IF mode \in {"msi", "msix"} THEN DisableVectors(dev) ELSE dev

\* A reset of the machine: vfio_pci_reset disables the interrupts and enables INTx,
\* then the core resets the capabilities.
SystemReset ==
    /\ Moves
    /\ dev' = DisableInterrupts /\ mode' \in IntxMode
    /\ cap' = "none" /\ fmask' = FALSE /\ tmask' = Vec /\ cpend' = {}
    /\ KeepsEvents
    /\ UNCHANGED <<tmsg, msi, fault>>

-----------------------------------------------------------------------------
(* Interrupts *)

\* The device fires a vector that does not bypass QEMU.  (A bypassed one reaches the
\* guest at once, with the message of KVM's route.)
Fire(i) ==
    /\ dev.vec[i].trig = "qemu"
    /\ ev' = ev \cup {i} /\ owed' = owed \cup {i}
    /\ UNCHANGED <<mode, guest, dev, cpend, fault, moves>>

\* vfio_msi_interrupt.  The core's msix_notify sets the pending bit of a masked vector.
MsiInterrupt(i) ==
    /\ i \in ev /\ dev.vec[i].heard
    /\ ev' = ev \ {i} /\ owed' = owed \ {i}
    /\ IF mode = "msix" /\ i \notin Open
         THEN /\ dev' = [dev EXCEPT !.vpend = @ \cup {i}, !.pba = TRUE]
              /\ cpend' = cpend \cup {i}
         ELSE UNCHANGED <<dev, cpend>>
    /\ fault' = IF mode \in {"msi", "msix"} THEN fault ELSE fault \cup {"abort"}
    /\ UNCHANGED <<mode, guest, moves>>

-----------------------------------------------------------------------------
Next ==
    \/ \E f \in BOOLEAN : MsixEnable(f) \/ FunctionMask(f)
    \/ MsixDisable
    \/ \E i \in Vec : MaskEntry(i) \/ Fire(i) \/ MsiInterrupt(i)
    \/ \E i \in Vec, m \in Msg : UnmaskEntry(i, m)
    \/ \E k \in 1..N : \E g \in 0..k : MsiEnable(k, g)
    \/ MsiDisable
    \/ \E m \in Msg : MsiMessage(m)
    \/ SystemReset

Spec == Init /\ [][Next]_vars

\* QEMU's main loop comes to every eventfd that is signalled.
FairSpec == Spec /\ \A i \in Vec : WF_vars(MsiInterrupt(i))

-----------------------------------------------------------------------------
(* Properties *)

\* A vector that bypasses QEMU is not masked and carries the message the guest has
\* programmed last.
BypassIsCurrent ==
    \A i \in Vec : dev.vec[i].trig = "kvm" =>
        /\ dev.vec[i].virq /\ dev.vec[i].kmsg = Message(i)
        /\ mode = "msix" => i \in Open

\* Every vector the guest waits for is signalled by the host.
OpenVectorsFire ==
    /\ mode = "msix" => \A i \in Open : dev.vec[i].trig # "none"
    /\ mode = "msi" => \A i \in 0..(dev.nr - 1) : dev.vec[i].trig # "none"

\* Outside of MSI and MSI-X no vector has a handler, a route or an eventfd.
VectorsLeaveNothing ==
    mode \in {"none", "intx"} => dev.nr = 0 /\ \A i \in Vec : dev.vec[i] = Unused

\* vfio_msi_interrupt does not abort, and no array is freed twice.
NoFault == fault = {}

\* An event of a vector that stays unmasked reaches the guest.
EventsArrive ==
    \A i \in Vec : i \in owed ~> i \notin owed \/ (mode = "msix" /\ i \notin Open)

=============================================================================
