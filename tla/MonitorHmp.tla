------------------------------ MODULE MonitorHmp ------------------------------
(***************************************************************************)
(* A human monitor on a character device that it shares with others        *)
(* (monitor.c): what it prints is kept while another front end has the     *)
(* focus or the device is full; it reads no input while another front end  *)
(* has the focus or a command waits for a migration (hmp.c).  Commands of  *)
(* a QMP client run in a temporary monitor that ends with the command.     *)
(***************************************************************************)
EXTENDS Naturals, FiniteSets

VARIABLES
    opened,      \* the device is connected
    focus,       \* the device's focus is on this monitor
    mux_out, reset_seen, suspend_cnt, \* of the monitor
    outbuf,      \* something printed is not yet written
    out_watch,   \* monitor_unblocked is called when the device is writable
    waits,       \* monitors with a timer that looks at the migration
    migration    \* status of the migration

input  == <<mux_out, reset_seen, suspend_cnt>>
output == <<outbuf, out_watch>>
vars   == <<opened, focus, input, output, waits, migration>>

\* monitor_init: attaching to the device takes the focus.
Init ==
    /\ opened = FALSE /\ focus = TRUE
    /\ mux_out = FALSE /\ reset_seen = FALSE /\ suspend_cnt = 0
    /\ outbuf = FALSE /\ out_watch = FALSE
    /\ waits = {} /\ migration = "none"

Monitors == {"hmp", "temporary"}

-----------------------------------------------------------------------------
(* Output *)

\* Mutant of Writes: a device that is full is not watched.
BugWrites(muxed) ==
    \/ muxed  /\ outbuf' = TRUE /\ UNCHANGED out_watch
    \/ ~muxed /\ outbuf' = FALSE /\ UNCHANGED out_watch
    \/ ~muxed /\ outbuf' = TRUE /\ UNCHANGED out_watch

\* monitor_flush_locked with something in outbuf: kept, written or lost as a whole, or
\* written in part or not at all.
Writes(muxed) ==
    \/ muxed  /\ outbuf' = TRUE /\ UNCHANGED out_watch
    \/ ~muxed /\ outbuf' = FALSE /\ UNCHANGED out_watch
    \/ ~muxed /\ outbuf' = TRUE /\ out_watch' = TRUE

\* monitor_puts and readline flush at the end of what they print.
Prints == Writes(mux_out)

Flushes(muxed) == IF outbuf THEN Writes(muxed) ELSE UNCHANGED output

\* The device's watch: monitor_unblocked.
Unblocked ==
    /\ out_watch
    /\ \/ ~mux_out /\ outbuf /\ outbuf' = TRUE /\ out_watch' = TRUE
       \/ ~mux_out /\ outbuf' = FALSE /\ out_watch' = FALSE
       \/ mux_out /\ out_watch' = FALSE /\ UNCHANGED outbuf
    /\ UNCHANGED <<opened, focus, input, waits, migration>>

-----------------------------------------------------------------------------
(* monitor_event *)

Opened ==
    /\ ~opened /\ opened' = TRUE
    /\ Prints
    /\ reset_seen' = TRUE
    /\ UNCHANGED <<focus, mux_out, suspend_cnt, waits, migration>>

Closed ==
    /\ opened /\ opened' = FALSE
    /\ UNCHANGED <<focus, input, output, waits, migration>>

\* monitor_suspend and monitor_resume, which prompts when it is the last.
Suspend == suspend_cnt' = suspend_cnt + 1
Resume  == suspend_cnt' = suspend_cnt - 1

\* Mutant of MuxIn: the focus alone decides.
BugMuxIn ==
    /\ ~focus /\ focus' = TRUE
    /\ mux_out' = FALSE
    /\ suspend_cnt' = 0 /\ Flushes(FALSE)
    /\ UNCHANGED <<opened, reset_seen, waits, migration>>

MuxIn ==
    /\ ~focus /\ focus' = TRUE
    /\ mux_out' = FALSE
    /\ \/ reset_seen /\ Resume /\ Flushes(FALSE)
       \/ ~reset_seen /\ suspend_cnt' = 0 /\ UNCHANGED output
    /\ UNCHANGED <<opened, reset_seen, waits, migration>>

MuxOut ==
    /\ focus /\ focus' = FALSE
    /\ \/ reset_seen /\ suspend_cnt = 0 /\ Writes(FALSE)
       \/ reset_seen /\ suspend_cnt > 0 /\ Flushes(FALSE)
       \/ ~reset_seen /\ UNCHANGED output
    /\ Suspend
    /\ mux_out' = TRUE
    /\ UNCHANGED <<opened, reset_seen, waits, migration>>

-----------------------------------------------------------------------------
(* Commands *)

\* monitor_can_read: the device delivers input to the monitor that has the focus.
MayType == opened /\ focus /\ suspend_cnt = 0

Running == migration \in {"setup", "active", "cancelling"}

\* monitor_command_cb suspends the monitor while it handles a command; only a migrate
\* that waits leaves it suspended.
Command ==
    /\ MayType /\ Prints
    /\ UNCHANGED <<opened, focus, input, waits, migration>>

\* A monitor without readline cannot be suspended: hmp_migrate goes on detached.
CanSuspend(m) == m = "hmp"

\* hmp_migrate; one that qmp_migrate refuses is a command like any other.
Migrate(m, detach) ==
    /\ m = "hmp" => MayType
    /\ ~Running /\ migration' = "setup"
    /\ IF detach \/ ~CanSuspend(m)
       THEN UNCHANGED <<suspend_cnt, waits>>
       ELSE Suspend /\ waits' = waits \cup {m}
    /\ IF m = "hmp" THEN Prints ELSE UNCHANGED output
    /\ UNCHANGED <<opened, focus, mux_out, reset_seen>>

\* hmp_migrate_status_cb: once a second, until the migration is over.
StatusCb ==
    /\ waits # {}
    /\ IF migration \in {"none", "setup", "active"}
       THEN UNCHANGED <<suspend_cnt, waits>>
       ELSE Resume /\ waits' = {}
    /\ Prints
    /\ UNCHANGED <<opened, focus, mux_out, reset_seen, migration>>

\* The migration thread, and the QMP client's migrate and migrate_cancel.
MigrationGoes ==
    /\ \/ ~Running /\ migration' = "setup"
       \/ migration = "setup" /\ migration' \in {"active", "failed", "cancelling"}
       \/ migration = "active" /\ migration' \in {"completed", "failed", "cancelling"}
       \/ migration = "cancelling" /\ migration' = "cancelled"
    /\ UNCHANGED <<opened, focus, input, output, waits>>

Next ==
    \/ Opened \/ Closed \/ MuxIn \/ MuxOut \/ Unblocked
    \/ Command \/ StatusCb \/ MigrationGoes
    \/ \E m \in Monitors, d \in BOOLEAN : Migrate(m, d)

Spec == Init /\ [][Next]_vars

-----------------------------------------------------------------------------
(* Properties *)

\* The monitor reads input exactly while it has the focus and no command of its waits,
\* in whatever order focus and migration change.
ReadsInTurn == suspend_cnt = 0 <=> focus /\ waits = {}

\* What is printed is not forgotten: unless another front end has the focus the device
\* is watched for room.
OutputFlows == outbuf /\ ~mux_out => out_watch
===============================================================================
