------------------------------ MODULE MonitorFds ------------------------------
(***************************************************************************)
(* File descriptors that clients hand to QEMU (monitor.c): by name, to be  *)
(* taken over by a user (getfd, closefd, monitor_get_fd), or into a set    *)
(* from which users take copies (add-fd, remove-fd, monitor_fdset_...).    *)
(* A set is cleaned up when a client goes, when one of its descriptors is  *)
(* removed and when its last copy is closed.  Commands without a           *)
(* descriptor, with a name that starts with a digit or with a negative id  *)
(* are refused, and the descriptor closed again: they are left out.        *)
(***************************************************************************)
EXTENDS Integers, Sequences, FiniteSets, SequencesExt, FiniteSetsExt

CONSTANTS
    Fd,          \* file descriptors, natural numbers
    Client,      \* monitors
    Name, SetId  \* names and, natural numbers, ids that a client may choose

VARIABLES
    open,        \* the descriptors that QEMU has
    named,       \* mon->fds of each monitor, as a function of the names
    mon_fdsets,  \* the list of the sets
    taken,       \* descriptors that users have taken over
    clients,     \* the monitors that mon_refcount counts
    running      \* runstate_is_running

vars == <<open, named, mon_fdsets, taken, clients, running>>

NoFd == -1

Init ==
    /\ open = {} /\ named = [m \in Client |-> [n \in Name |-> NoFd]]
    /\ mon_fdsets = <<>> /\ taken = {} /\ clients = {} /\ running = TRUE

\* The kernel gives the lowest number that is free.
Free == Fd \ open
New  == Min(Free)

Some(f) == {f} \ {NoFd}

-----------------------------------------------------------------------------
(* Clients and the machine *)

\* monitor_fdset_cleanup: what stays in a set.
Cleaned(s, refs) ==
    [s EXCEPT !.fds = {d \in @ : ~(running /\ (d.removed \/ (s.dups = {} /\ refs = 0)))}]

Fds(s) == {d.fd : d \in s.fds}
Empty(s) == s.fds = {} /\ s.dups = {}

\* The sets after set i has become s and was cleaned up.
CleanUp(i, s) ==
    LET t == Cleaned(s, Cardinality(clients)) IN
    /\ open' = (open \ (Fds(s) \ Fds(t))) \ (mon_fdsets[i].dups \ s.dups)
    /\ mon_fdsets' = IF Empty(t) THEN RemoveAt(mon_fdsets, i)
                                 ELSE [mon_fdsets EXCEPT ![i] = t]

Opened(m) ==
    /\ m \notin clients /\ clients' = clients \cup {m}
    /\ UNCHANGED <<open, named, mon_fdsets, taken, running>>

\* The list of the sets that are not empty, in the same order: kept[n] is what stays
\* of the first n.
NotEmpty(l) ==
    LET kept[n \in 0..Len(l)] == IF n = 0 THEN <<>>
                                 ELSE IF Empty(l[n]) THEN kept[n - 1]
                                 ELSE Append(kept[n - 1], l[n])
    IN  kept[Len(l)]

\* CHR_EVENT_CLOSED: monitor_fdsets_cleanup.  The named ones stay for the next client.
Closed(m) ==
    /\ m \in clients /\ clients' = clients \ {m}
    /\ LET After(s) == Cleaned(s, Cardinality(clients')) IN
       /\ open' = open \ UNION {Fds(s) \ Fds(After(s)) : s \in ToSet(mon_fdsets)}
       /\ mon_fdsets' = NotEmpty([i \in DOMAIN mon_fdsets |-> After(mon_fdsets[i])])
    /\ UNCHANGED <<named, taken, running>>

StopOrCont ==
    /\ running' = ~running
    /\ UNCHANGED <<open, named, mon_fdsets, taken, clients>>

-----------------------------------------------------------------------------
(* Named descriptors *)

\* Mutant of GetFd: the descriptor that had the name stays open.
BugGetFd(m, n) ==
    /\ m \in clients /\ Free # {}
    /\ named' = [named EXCEPT ![m][n] = New]
    /\ open' = open \cup {New}
    /\ UNCHANGED <<mon_fdsets, taken, clients, running>>

\* qmp_getfd: a name given again closes the one before.
GetFd(m, n) ==
    /\ m \in clients /\ Free # {}
    /\ named' = [named EXCEPT ![m][n] = New]
    /\ open' = (open \cup {New}) \ Some(named[m][n])
    /\ UNCHANGED <<mon_fdsets, taken, clients, running>>

\* qmp_closefd.
CloseFd(m, n) ==
    /\ m \in clients /\ named[m][n] # NoFd
    /\ named' = [named EXCEPT ![m][n] = NoFd]
    /\ open' = open \ {named[m][n]}
    /\ UNCHANGED <<mon_fdsets, taken, clients, running>>

\* monitor_get_fd, monitor_fd_param: the caller takes the descriptor over.
TakeFd(m, n) ==
    /\ named[m][n] # NoFd
    /\ named' = [named EXCEPT ![m][n] = NoFd]
    /\ taken' = taken \cup {named[m][n]}
    /\ UNCHANGED <<open, mon_fdsets, clients, running>>

UserCloses(f) ==
    /\ f \in taken
    /\ taken' = taken \ {f} /\ open' = open \ {f}
    /\ UNCHANGED <<named, mon_fdsets, clients, running>>

-----------------------------------------------------------------------------
(* Sets *)

\* A walk over the list ends at the first element of the given ones, or at the last.
WalkTo(found) == IF found = {} THEN Len(mon_fdsets) ELSE Min(found)

\* The list is ordered by id: insert beside the element where the search ended.
Insert(s, cur) ==
    IF mon_fdsets = <<>> THEN <<s>>
    ELSE InsertAt(mon_fdsets, IF s.id < mon_fdsets[cur].id THEN cur ELSE cur + 1, s)

NewSet(id, f) == [id |-> id, fds |-> {[fd |-> f, removed |-> FALSE]}, dups |-> {}]

\* monitor_fdset_add_fd with an id: the set of that id, or a new one in its place.
AddsTo(id, f) ==
    LET i == WalkTo({j \in DOMAIN mon_fdsets : id <= mon_fdsets[j].id})
    IN IF mon_fdsets # <<>> /\ mon_fdsets[i].id = id
       THEN [mon_fdsets EXCEPT ![i].fds = @ \cup {[fd |-> f, removed |-> FALSE]}]
       ELSE Insert(NewSet(id, f), WalkTo({j \in DOMAIN mon_fdsets : id < mon_fdsets[j].id}))

\* Without an id: a new set with the first id that is free.
AddsNew(f) ==
    LET gaps == {j \in DOMAIN mon_fdsets : mon_fdsets[j].id # j - 1}
        id == IF gaps = {} THEN Len(mon_fdsets) ELSE Min(gaps) - 1
    IN Insert(NewSet(id, f), WalkTo(gaps))

\* qmp_add_fd.
AddFd(m) ==
    /\ m \in clients /\ Free # {}
    /\ open' = open \cup {New}
    /\ mon_fdsets' \in {AddsTo(id, New) : id \in SetId} \cup {AddsNew(New)}
    /\ UNCHANGED <<named, taken, clients, running>>

\* qmp_remove_fd of one descriptor of a set, or of all.
RemoveFd(m, i, which) ==
    /\ m \in clients
    /\ LET Marks(d) == IF d.fd \in which THEN [d EXCEPT !.removed = TRUE] ELSE d
       IN CleanUp(i, [mon_fdsets[i] EXCEPT !.fds = {Marks(d) : d \in @}])
    /\ UNCHANGED <<named, taken, clients, running>>

\* qemu_open: monitor_fdset_get_fd, dup, monitor_fdset_dup_fd_add.
OpenSet(i) ==
    /\ mon_fdsets[i].fds # {} /\ Free # {}
    /\ open' = open \cup {New}
    /\ mon_fdsets' = [mon_fdsets EXCEPT ![i].dups = @ \cup {New}]
    /\ UNCHANGED <<named, taken, clients, running>>

\* qemu_close: monitor_fdset_dup_fd_find, close, monitor_fdset_dup_fd_remove, which
\* cleans up after the last copy.
CloseDup(i, f) ==
    /\ f \in mon_fdsets[i].dups
    /\ LET s == [mon_fdsets[i] EXCEPT !.dups = @ \ {f}] IN
       \/ s.dups = {} /\ CleanUp(i, s)
       \/ s.dups # {} /\ mon_fdsets' = [mon_fdsets EXCEPT ![i] = s] /\ open' = open \ {f}
    /\ UNCHANGED <<named, taken, clients, running>>

Next ==
    \/ StopOrCont
    \/ \E m \in Client : Opened(m) \/ Closed(m) \/ AddFd(m)
    \/ \E m \in Client, n \in Name : GetFd(m, n) \/ CloseFd(m, n) \/ TakeFd(m, n)
    \/ \E f \in taken : UserCloses(f)
    \/ \E i \in DOMAIN mon_fdsets :
        \/ OpenSet(i)
        \/ \E f \in mon_fdsets[i].dups : CloseDup(i, f)
        \/ \E m \in Client :
            \/ RemoveFd(m, i, Fds(mon_fdsets[i]))
            \/ \E f \in Fds(mon_fdsets[i]) : RemoveFd(m, i, {f})

Spec == Init /\ [][Next]_vars

-----------------------------------------------------------------------------
(* Properties *)

Holders(f) ==
    {x \in Client \X Name : named[x[1]][x[2]] = f}
    \cup {<<"set", i>> : i \in {j \in DOMAIN mon_fdsets : f \in Fds(mon_fdsets[j])}}
    \cup {<<"copy", i>> : i \in {j \in DOMAIN mon_fdsets : f \in mon_fdsets[j].dups}}
    \cup (IF f \in taken THEN {<<"user">>} ELSE {})

\* Every descriptor that is open has one owner who will close it, nobody has one that is
\* closed, and an id names one set, whatever clients, users and the machine do.
FdsAreOwned ==
    /\ \A f \in Fd : Cardinality(Holders(f)) = IF f \in open THEN 1 ELSE 0
    /\ \A i, j \in DOMAIN mon_fdsets : i < j => mon_fdsets[i].id < mon_fdsets[j].id
===============================================================================
