---------------------------- MODULE MonitorEvents ----------------------------
(***************************************************************************)
(* QMP events that a guest can trigger, of which QEMU emits one a second   *)
(* (monitor.c): the first is emitted at once, of those that follow within  *)
(* a second the latest is stored and emitted when a timer fires.           *)
(* VSERPORT_CHANGE and QUORUM_REPORT_BAD have a timer for each port or     *)
(* node, the other types one each.  A client of the QMP monitor connects,  *)
(* negotiates and listens; what is emitted before does not reach it.       *)
(*                                                                         *)
(* The handler of a timer is called by the main loop, with the big lock,   *)
(* after the timer was taken off its list; a thread without the big lock   *)
(* may raise an event between the two.  Events that are not limited are    *)
(* emitted at once and are left out.                                       *)
(***************************************************************************)
EXTENDS Integers

CONSTANTS
    Subject,     \* what events are about: a type, and the port or node if it has one
    Value,       \* what an event says of its subject
    Rate         \* ticks of the clock between two emissions

ASSUME RateAssumption == Rate \in Nat \ {0}

VARIABLES
    timer,       \* of each key: ticks until the timer expires, or Off
    stored,      \* of each key: the event that waits for the timer, or None
    firing,      \* the key whose timer was taken off the list for its handler, or None
    gap,         \* ticks since a subject was last emitted, up to Rate
    rushed,      \* an emission came too early
    owed,        \* the latest event of each subject that the client has yet to hear
    connected, commands, \* the monitor's client, and mon->qmp.commands
    unlocked,    \* threads without the big lock raise events
    aborted      \* an assertion has failed

limits  == <<timer, stored, firing>>
history == <<gap, rushed, owed>>
session == <<connected, commands>>
vars    == <<limits, history, session, unlocked, aborted>>

None  == <<>>
Off   == -1
Event == [about : Subject, value : Value]

\* Mutant: ports and nodes share the limit of their type.
BugKeyOf(s) == [type |-> s.type, id |-> "any"]

\* qapi_event_throttle_hash and _equal: ports and nodes are told apart.
KeyOf(s) ==
    IF s.type \in {"VSERPORT_CHANGE", "QUORUM_REPORT_BAD"} THEN s
    ELSE [type |-> s.type, id |-> "any"]

Key == {KeyOf(s) : s \in Subject}

Init ==
    /\ timer = [k \in Key |-> Off] /\ stored = [k \in Key |-> None] /\ firing = None
    /\ gap = [s \in Subject |-> Rate] /\ rushed = FALSE /\ owed = {}
    /\ connected = FALSE /\ commands = "null"
    /\ unlocked \in BOOLEAN /\ aborted = FALSE

-----------------------------------------------------------------------------
(* The client *)

\* CHR_EVENT_OPENED: the greeting, and no command but qmp_capabilities until then.
Opened ==
    /\ ~aborted /\ ~connected
    /\ connected' = TRUE /\ commands' = "negotiation"
    /\ UNCHANGED <<limits, history, unlocked, aborted>>

Capabilities ==
    /\ ~aborted /\ connected /\ commands = "negotiation"
    /\ commands' = "all"
    /\ UNCHANGED <<limits, history, connected, unlocked, aborted>>

\* CHR_EVENT_CLOSED leaves mon->qmp.commands as they were.
Closed ==
    /\ ~aborted /\ connected
    /\ connected' = FALSE /\ owed' = {}
    /\ UNCHANGED <<limits, gap, rushed, commands, unlocked, aborted>>

-----------------------------------------------------------------------------
(* Events *)

\* What the client is owed when e has been raised.
OwedFor(e) ==
    IF connected /\ commands = "all" THEN {o \in owed : o.about # e.about} \cup {e} ELSE owed

\* monitor_qapi_event_emit, to a monitor that is not in its negotiation.
Emit(e, due) ==
    /\ owed' = IF commands = "negotiation" THEN due ELSE due \ {e}
    /\ gap' = [gap EXCEPT ![e.about] = 0]
    /\ rushed' = (rushed \/ gap[e.about] < Rate)

\* A key whose timer runs keeps the latest event, any other is emitted at once.
Stores(e) ==
    /\ timer[KeyOf(e.about)] # Off
    /\ stored' = [stored EXCEPT ![KeyOf(e.about)] = e]
    /\ owed' = OwedFor(e)
    /\ UNCHANGED <<timer, gap, rushed>>

EmitsFirst(e) ==
    /\ timer[KeyOf(e.about)] = Off
    /\ Emit(e, OwedFor(e))
    /\ timer' = [timer EXCEPT ![KeyOf(e.about)] = Rate]
    /\ UNCHANGED stored

\* monitor_qapi_event_queue.
Raise(e) ==
    /\ ~aborted /\ firing # KeyOf(e.about) /\ (firing = None \/ unlocked)
    /\ Stores(e) \/ EmitsFirst(e)
    /\ UNCHANGED <<firing, session, unlocked, aborted>>

\* A thread raises an event between timer and handler: the key is in the table, its
\* timer is not pending, assert(!evstate || timer_pending(evstate->timer)) fails.
RaiseAborts(e) ==
    /\ ~aborted /\ unlocked /\ firing = KeyOf(e.about)
    /\ aborted' = TRUE
    /\ UNCHANGED <<limits, history, session, unlocked>>

\* The clock.
Tick ==
    /\ ~aborted
    /\ timer' = [k \in Key |-> IF timer[k] \in {Off, 0} THEN timer[k] ELSE timer[k] - 1]
    /\ gap' = [s \in Subject |-> IF gap[s] = Rate THEN Rate ELSE gap[s] + 1]
    /\ UNCHANGED <<stored, firing, rushed, owed, session, unlocked, aborted>>

\* The main loop takes an expired timer off its list.
TimerFires(k) ==
    /\ ~aborted /\ firing = None /\ timer[k] = 0
    /\ timer' = [timer EXCEPT ![k] = Off] /\ firing' = k
    /\ UNCHANGED <<stored, history, session, unlocked, aborted>>

\* Mutant: the timer is not armed again after a stored event.
BugHandlerEmits ==
    /\ firing # None /\ stored[firing] # None
    /\ Emit(stored[firing], owed)
    /\ stored' = [stored EXCEPT ![firing] = None]
    /\ UNCHANGED timer

\* monitor_qapi_event_handler: the stored event, or the end of the key.
HandlerEmits ==
    /\ firing # None /\ stored[firing] # None
    /\ Emit(stored[firing], owed)
    /\ stored' = [stored EXCEPT ![firing] = None]
    /\ timer' = [timer EXCEPT ![firing] = Rate]

HandlerEnds ==
    /\ firing # None /\ stored[firing] = None
    /\ UNCHANGED <<timer, stored, history>>

Handler ==
    /\ ~aborted
    /\ HandlerEmits \/ HandlerEnds
    /\ firing' = None
    /\ UNCHANGED <<session, unlocked, aborted>>

Next ==
    \/ Opened \/ Capabilities \/ Closed \/ Tick \/ Handler
    \/ \E e \in Event : Raise(e) \/ RaiseAborts(e)
    \/ \E k \in Key : TimerFires(k)

Spec == Init /\ [][Next]_vars

\* The clock goes on, and the main loop comes to each expired timer: its list is sorted
\* by the time of expiry, so a timer armed anew does not overtake the others.
FairSpec ==
    /\ Spec /\ WF_vars(Tick) /\ WF_vars(Handler)
    /\ \A k \in Key : SF_vars(TimerFires(k))

-----------------------------------------------------------------------------
(* Properties *)

\* Of one subject no two events are emitted within Rate, whatever the main loop's delay
\* and the number of events raised.
RateKept == ~rushed

\* The latest event of every subject reaches a client that listens, unless it hangs up;
\* only events of other threads can make QEMU abort instead.
LatestIsSent ==
    \A e \in Event : e \in owed ~> e \notin owed \/ (aborted /\ unlocked)
=============================================================================
