-------------------------------- MODULE Monitor --------------------------------
(***************************************************************************)
(* The parts of the monitor side by side: limited events (MonitorEvents),  *)
(* a human monitor (MonitorHmp), descriptors of clients (MonitorFds).      *)
(* They have no state in common: a behaviour is one of one of them.        *)
(***************************************************************************)
EXTENDS MonitorEvents

CONSTANTS Fd, Client, Name, SetId

VARIABLES
    world,
    opened, focus, mux_out, reset_seen, suspend_cnt, outbuf, out_watch, waits, migration,
    open, named, mon_fdsets, taken, clients, running

\* Descriptors and the ids of sets are the integers that are not negative.
ASSUME FdsAssumption == Fd \subseteq Nat /\ SetId \subseteq Nat

H == INSTANCE MonitorHmp
F == INSTANCE MonitorFds

-----------------------------------------------------------------------------

hmpvars == <<opened, focus, mux_out, reset_seen, suspend_cnt, outbuf, out_watch, waits,
             migration>>
fdvars == <<open, named, mon_fdsets, taken, clients, running>>

NoEvents == Init /\ unlocked = FALSE

MonitorInit ==
    \/ world = "events" /\ Init     /\ H!Init /\ F!Init
    \/ world = "hmp"    /\ NoEvents /\ H!Init /\ F!Init
    \/ world = "fds"    /\ NoEvents /\ H!Init /\ F!Init

MonitorNext ==
    \/ world = "events" /\ Next   /\ UNCHANGED <<world, hmpvars, fdvars>>
    \/ world = "hmp"    /\ H!Next /\ UNCHANGED <<world, vars, fdvars>>
    \/ world = "fds"    /\ F!Next /\ UNCHANGED <<world, vars, hmpvars>>

monitorvars == <<world, vars, hmpvars, fdvars>>

Runs(A) == world = "events" /\ A /\ UNCHANGED <<world, hmpvars, fdvars>>

MonitorSpec ==
    /\ MonitorInit /\ [][MonitorNext]_monitorvars
    /\ WF_monitorvars(Runs(Tick)) /\ WF_monitorvars(Runs(Handler))
    /\ \A k \in Key : SF_monitorvars(Runs(TimerFires(k)))

\* The human monitor: MonitorHmp.
ReadsInTurn == H!ReadsInTurn
OutputFlows == H!OutputFlows

\* The descriptors: MonitorFds.
FdsAreOwned == F!FdsAreOwned
==============================================================================
