------------------------------ MODULE MCMonitor ------------------------------
(***************************************************************************)
(* Subjects of events for Monitor.                                         *)
(***************************************************************************)
EXTENDS Monitor

Port(i) == [type |-> "VSERPORT_CHANGE", id |-> i]

\* Two ports, limited each by itself, and a type that is limited as a whole.
MCSubject == {Port(1), Port(2), [type |-> "WATCHDOG", id |-> "any"]}
==============================================================================
