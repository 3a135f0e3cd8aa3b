--------------------------------- MODULE Did ---------------------------------
(***************************************************************************)
(* The guest kernel module did.ko, which lets a guest take its LAPIC timer *)
(* interrupts and IPIs without VM exits, as the script did.sh drives it.   *)
(*                                                                         *)
(* Each CPU has a posted-interrupt descriptor shared with the processor    *)
(* and the host.  Its requests (pir) reach the CPU (irr) when it gets a    *)
(* notification.  The module keeps the timer's request set at all times, a *)
(* firing LAPIC timer is a mere notification, and the module's timer       *)
(* handler drops what came before the next event is due.  An IPI is a      *)
(* request written into the target's descriptor and a notification.        *)
(*                                                                         *)
(* __set_bit is a read and a write of a word other processors write too;   *)
(* it is one instruction, so the CPU's own notifications do not split it.  *)
(* On each CPU one thread runs the script's ioctls or sends IPIs, and the  *)
(* timer's handler interrupts it.                                          *)
(***************************************************************************)
EXTENDS Naturals, FiniteSets

CONSTANTS
    Cpu,         \* the online CPUs
    Vec,         \* vectors of IPIs and of devices, in the word of the timer's
    Timer,       \* LOCAL_TIMER_VECTOR
    WithIpi,     \* enable_did (TRUE) or enable_dtid (FALSE)
    HcFail,      \* hypercalls that may fail, of {"setup", "factor"}
    Delayed,     \* a sender may be delayed over a step of the script
    MaxPosts,    \* bound: interrupts sent
    TimerCpu     \* bound: the CPUs whose timer fires

ASSUME VectorAssumption == Timer \notin Vec
ASSUME DidAssumption == /\ WithIpi \in BOOLEAN /\ Delayed \in BOOLEAN
                        /\ TimerCpu \subseteq Cpu /\ MaxPosts \in Nat /\ "none" \notin Cpu
                        /\ HcFail \subseteq {"setup", "factor"}

VARIABLES
    loaded,                     \* the module is loaded
    phase, todo, cur,           \* the script: phase, CPUs to go, CPU inside an ioctl
    dtid, intercept,            \* the host: CPU set up; it intercepts ICR writes
    handler, factor, lapic, due, \* the clock event device of each CPU
    saved, savedFactor, start,  \* dids[cpu]
    apicFn, savedFn,            \* the apic's send functions; those in *ipi
    id,                         \* per CPU the APIC id IPIs are addressed to
    pir, notified, irr,         \* the descriptors and the CPUs' pending timer vector
    isr, pc, word,              \* the handler and the thread of each CPU, the word
                                \*   its __set_bit has read
    ipi,                        \* the IPI a thread sends: vector, CPUs still to
                                \*   be asked, the one now, CPUs to be notified
    owed, posts,                \* asked for and not yet taken; counter
    fault                       \* what went wrong

scriptVars == <<loaded, phase, todo, cur>>
clockVars  == <<handler, factor, saved, savedFactor, start>>
timerVars  == <<lapic, due>>
apicVars   == <<apicFn, savedFn, id, intercept>>
pirVars    == <<pir, notified, irr, owed, posts>>
cpuVars    == <<isr, pc, word, ipi>>
vars == <<scriptVars, dtid, clockVars, timerVars, apicVars, pirVars, cpuVars, fault>>

Vector == Vec \cup {Timer}
None   == "none"

NoIpi(c) == [vec |-> Timer, dest |-> {}, now |-> c, wake |-> {}]
Idle == [c \in Cpu |-> {}]

Init ==
    /\ loaded = TRUE /\ phase = "off" /\ todo = {} /\ cur = None
    /\ dtid = [c \in Cpu |-> FALSE] /\ intercept = TRUE
    /\ handler = [c \in Cpu |-> "native"] /\ factor = [c \in Cpu |-> "native"]
    /\ lapic = [c \in Cpu |-> TRUE] /\ due = [c \in Cpu |-> FALSE]
    /\ saved = [c \in Cpu |-> "null"] /\ savedFactor = [c \in Cpu |-> "zero"]
    /\ start = [c \in Cpu |-> FALSE]
    /\ apicFn = "native" /\ savedFn = "null" /\ id = [c \in Cpu |-> "virtual"]
    /\ pir = Idle /\ notified = [c \in Cpu |-> FALSE]
    /\ irr = Idle /\ owed = Idle /\ posts = 0
    /\ isr = [c \in Cpu |-> "no"] /\ pc = [c \in Cpu |-> "run"] /\ word = Idle
    /\ ipi = [c \in Cpu |-> NoIpi(c)]
    /\ fault = {}

-----------------------------------------------------------------------------
(* The module is loaded and unloaded; the script is run *)

\* kcalloc and kzalloc give zeroed structures.
ModuleLoad ==
    /\ ~loaded /\ loaded' = TRUE
    /\ saved' = [c \in Cpu |-> "null"] /\ savedFactor' = [c \in Cpu |-> "zero"]
    /\ start' = [c \in Cpu |-> FALSE] /\ savedFn' = "null"
    /\ UNCHANGED <<phase, todo, cur, dtid, handler, factor, timerVars, apicFn, id,
                   intercept, pirVars, cpuVars, fault>>

\* The operator unloads after disabling, with no CPU in the module's code.
ModuleUnload ==
    /\ loaded /\ phase = "off" /\ \A c \in Cpu : pc[c] = "run" /\ isr[c] = "no"
    /\ loaded' = FALSE
    /\ UNCHANGED <<phase, todo, cur, dtid, clockVars, timerVars, apicVars,
                   pirVars, cpuVars, fault>>

\* One line of the script after the other; "for i in ..." is todo = Cpu.
ScriptGoes(from, to, cpus) ==
    /\ phase = from /\ cur = None /\ todo = {}
    /\ phase' = to /\ todo' = cpus
    /\ UNCHANGED <<loaded, cur>>

\* No thread is in the middle of sending an IPI, unless Delayed.
Settled == Delayed \/ \A d \in Cpu : pc[d] = "run"

\* A line for CPU c runs on c (taskset), between its interrupts.
On(c) == pc[c] = "run" /\ isr[c] = "no" /\ Settled

\* Mutant of Disable: the timers are restored first.
BugDisable  == ScriptGoes("on", "restore", Cpu)

Enable      == loaded /\ ScriptGoes("off", "setup", Cpu)
EnableTimer == ~WithIpi /\ ScriptGoes("setup", "kick", Cpu)
EnableIpi   == WithIpi /\ ScriptGoes("setup", "setApic", {})
KickByIpi   == ScriptGoes("setId", "kickIpi", Cpu)
Enabled     == ScriptGoes("kick", "on", {}) \/ ScriptGoes("kickIpi", "on", {})
Disable     == IF WithIpi THEN ScriptGoes("on", "restoreId", Cpu)
                          ELSE ScriptGoes("on", "restore", Cpu)
RestoredIds == ScriptGoes("restoreId", "icr", {})
RearmAll    == ScriptGoes("restore", "rearm", Cpu)
Disabled    == ScriptGoes("rearm", "off", {})

Script == /\ \/ Enable \/ EnableTimer \/ EnableIpi \/ KickByIpi \/ Enabled
             \/ Disable \/ RestoredIds \/ RearmAll \/ Disabled
          /\ UNCHANGED <<dtid, clockVars, timerVars, apicVars, pirVars, cpuVars, fault>>

-----------------------------------------------------------------------------
(* hc_setup_dtid and hc_restore_dtid *)

\* The hypercall; a failure (a negative offset) leaves the CPU as it is, and the
\* script goes on with the next one.
SetupHypercall(c) ==
    /\ phase = "setup" /\ cur = None /\ c \in todo /\ On(c)
    /\ \/ /\ dtid' = [dtid EXCEPT ![c] = TRUE]
          /\ cur' = c /\ UNCHANGED todo
       \/ /\ "setup" \in HcFail
          /\ todo' = todo \ {c} /\ UNCHANGED <<dtid, cur>>
    /\ UNCHANGED <<loaded, phase, clockVars, timerVars, apicVars, pirVars, cpuVars, fault>>

\* set_clockevent_factor, whose failure is reported and not acted upon, and
\* set_timer_event_handler.
SetupClock(c) ==
    /\ phase = "setup" /\ cur = c /\ c \in todo /\ On(c)
    /\ \/ /\ savedFactor' = [savedFactor EXCEPT ![c] = factor[c]]
          /\ factor' = [factor EXCEPT ![c] = "host"]
       \/ "factor" \in HcFail /\ UNCHANGED <<factor, savedFactor>>
    /\ saved' = [saved EXCEPT ![c] = handler[c]]
    /\ handler' = [handler EXCEPT ![c] = "did"]
    /\ todo' = todo \ {c}
    /\ UNCHANGED <<loaded, phase, cur, dtid, start, timerVars, apicVars, pirVars,
                   cpuVars, fault>>

\* Mutant of SetupStart: the timer's request is left to the timer handler.
BugSetupStart(c) ==
    /\ phase = "setup" /\ cur = c /\ c \notin todo /\ On(c)
    /\ start' = [start EXCEPT ![c] = TRUE]
    /\ lapic' = [lapic EXCEPT ![c] = TRUE]
    /\ cur' = None
    /\ UNCHANGED <<loaded, phase, todo, dtid, handler, factor, saved, savedFactor,
                   due, apicVars, pirVars, cpuVars, fault>>

\* The descriptor gets its address and the timer's request, and the LAPIC timer
\* is started anew.
SetupStart(c) ==
    /\ phase = "setup" /\ cur = c /\ c \notin todo /\ On(c)
    /\ start' = [start EXCEPT ![c] = TRUE]
    /\ pir' = [pir EXCEPT ![c] = @ \cup {Timer}]
    /\ lapic' = [lapic EXCEPT ![c] = TRUE]
    /\ cur' = None
    /\ UNCHANGED <<loaded, phase, todo, dtid, handler, factor, saved, savedFactor,
                   due, apicVars, notified, irr, owed, posts, cpuVars, fault>>

\* The host undoes what it did; it refuses for a CPU it never set up.
RestoreHypercall(c) ==
    /\ phase = "restore" /\ cur = None /\ c \in todo /\ On(c)
    /\ IF dtid[c] THEN dtid' = [dtid EXCEPT ![c] = FALSE] /\ cur' = c /\ UNCHANGED todo
                  ELSE todo' = todo \ {c} /\ UNCHANGED <<dtid, cur>>
    /\ UNCHANGED <<loaded, phase, clockVars, timerVars, apicVars, pirVars, cpuVars, fault>>

RestoreClock(c) ==
    /\ phase = "restore" /\ cur = c /\ c \in todo /\ On(c)
    /\ factor' = [factor EXCEPT ![c] = savedFactor[c]]
    /\ handler' = [handler EXCEPT ![c] = saved[c]]
    /\ lapic' = [lapic EXCEPT ![c] = TRUE]
    /\ todo' = todo \ {c}
    /\ UNCHANGED <<loaded, phase, cur, dtid, saved, savedFactor, start, due, apicVars,
                   pirVars, cpuVars, fault>>

\* Mutant of RestoreStart: the descriptor's address is not forgotten.
BugRestoreStart(c) ==
    /\ phase = "restore" /\ cur = c /\ c \notin todo /\ On(c)
    /\ cur' = None
    /\ UNCHANGED <<loaded, phase, todo, dtid, clockVars, timerVars, apicVars, pirVars,
                   cpuVars, fault>>

RestoreStart(c) ==
    /\ phase = "restore" /\ cur = c /\ c \notin todo /\ On(c)
    /\ start' = [start EXCEPT ![c] = FALSE]
    /\ cur' = None
    /\ UNCHANGED <<loaded, phase, todo, dtid, handler, factor, saved, savedFactor,
                   timerVars, apicVars, pirVars, cpuVars, fault>>

\* "wrmsr -p $i 0x838 0x616d", the last line of enabling and of disabling.
Rearm(c) ==
    /\ phase \in {"kick", "rearm"} /\ c \in todo /\ On(c)
    /\ lapic' = [lapic EXCEPT ![c] = TRUE] /\ todo' = todo \ {c}
    /\ UNCHANGED <<loaded, phase, cur, dtid, clockVars, due, apicVars, pirVars,
                   cpuVars, fault>>

-----------------------------------------------------------------------------
(* The lines of did.sh for IPIs *)

\* set_apic_ipi saves the functions of the apic and replaces them.
SetApicIpi ==
    /\ phase = "setApic" /\ Settled /\ savedFn' = apicFn /\ apicFn' = "did"
    /\ phase' = "noIcr"
    /\ UNCHANGED <<loaded, todo, cur, dtid, clockVars, timerVars, id, intercept,
                   pirVars, cpuVars, fault>>

DisableIntercept ==
    /\ phase = "noIcr" /\ Settled /\ intercept' = FALSE
    /\ phase' = "setId" /\ todo' = Cpu
    /\ UNCHANGED <<loaded, cur, dtid, clockVars, timerVars, apicFn, savedFn, id,
                   pirVars, cpuVars, fault>>

SetX2apicId(c) ==
    /\ phase = "setId" /\ c \in todo /\ On(c)
    /\ id' = [id EXCEPT ![c] = "physical"] /\ todo' = todo \ {c}
    /\ UNCHANGED <<loaded, phase, cur, dtid, clockVars, timerVars, apicFn, savedFn,
                   intercept, pirVars, cpuVars, fault>>

RestoreX2apicId(c) ==
    /\ phase = "restoreId" /\ c \in todo /\ On(c)
    /\ id' = [id EXCEPT ![c] = "virtual"] /\ todo' = todo \ {c}
    /\ UNCHANGED <<loaded, phase, cur, dtid, clockVars, timerVars, apicFn, savedFn,
                   intercept, pirVars, cpuVars, fault>>

\* Mutant of EnableIntercept: the hypercall is forgotten.
BugEnableIntercept ==
    /\ phase = "icr" /\ Settled /\ UNCHANGED intercept
    /\ phase' = "restoreApic"
    /\ UNCHANGED <<loaded, todo, cur, dtid, clockVars, timerVars, apicFn, savedFn, id,
                   pirVars, cpuVars, fault>>

EnableIntercept ==
    /\ phase = "icr" /\ Settled /\ intercept' = TRUE
    /\ phase' = "restoreApic"
    /\ UNCHANGED <<loaded, todo, cur, dtid, clockVars, timerVars, apicFn, savedFn, id,
                   pirVars, cpuVars, fault>>

\* Mutant of RestoreApicIpi: the order of the script's last two lines is lost.
BugRestoreApicIpi ==
    /\ phase = "restoreApic" /\ Settled /\ UNCHANGED apicFn
    /\ phase' = "restore" /\ todo' = Cpu
    /\ UNCHANGED <<loaded, cur, dtid, clockVars, timerVars, savedFn, id, intercept,
                   pirVars, cpuVars, fault>>

RestoreApicIpi ==
    /\ phase = "restoreApic" /\ Settled /\ apicFn' = savedFn
    /\ phase' = "restore" /\ todo' = Cpu
    /\ UNCHANGED <<loaded, cur, dtid, clockVars, timerVars, savedFn, id, intercept,
                   pirVars, cpuVars, fault>>

-----------------------------------------------------------------------------
(* Interrupts *)

\* The LAPIC timer of CPU c fires at its deadline: as a notification once the
\* host has set the CPU up, as the timer's vector before and after.
TimerFires(c) ==
    /\ c \in TimerCpu /\ lapic[c] /\ lapic' = [lapic EXCEPT ![c] = FALSE]
    /\ due' = [due EXCEPT ![c] = TRUE]
    /\ IF dtid[c] THEN notified' = [notified EXCEPT ![c] = TRUE] /\ UNCHANGED irr
                  ELSE irr' = [irr EXCEPT ![c] = @ \cup {Timer}] /\ UNCHANGED notified
    /\ UNCHANGED <<scriptVars, dtid, clockVars, apicVars, pir, owed, posts, cpuVars, fault>>

\* A CPU inside __set_bit finishes the instruction first.
BetweenInstructions(c) == isr[c] # "write" /\ pc[c] # "write"

\* The processor takes the requests of a notified CPU.  The handlers of IPIs and
\* of devices are none of the module's business.
TakeRequests(c) ==
    /\ notified[c] /\ BetweenInstructions(c)
    /\ notified' = [notified EXCEPT ![c] = FALSE]
    /\ irr' = [irr EXCEPT ![c] = @ \cup (pir[c] \cap {Timer})]
    /\ pir' = [pir EXCEPT ![c] = {}]
    /\ owed' = [owed EXCEPT ![c] = @ \ pir[c]]
    /\ UNCHANGED <<scriptVars, dtid, clockVars, timerVars, apicVars, posts, cpuVars, fault>>

\* The host asks for a device's interrupt, with an atomic operation.
HostPosts(c, v) ==
    /\ posts < MaxPosts /\ posts' = posts + 1
    /\ pir' = [pir EXCEPT ![c] = @ \cup {v}]
    /\ owed' = [owed EXCEPT ![c] = @ \cup {v}]
    /\ notified' = [notified EXCEPT ![c] = TRUE]
    /\ UNCHANGED <<scriptVars, dtid, clockVars, timerVars, apicVars, irr, cpuVars, fault>>

\* The kernel's own handler serves what is due and programs the next event.
Serves(c) == due' = [due EXCEPT ![c] = FALSE] /\ lapic' = [lapic EXCEPT ![c] = TRUE]

\* dids[cpu].event_handler(evt): the kernel's handler, the module's own one again
\* without end, or NULL.
CallsSaved(c) ==
    IF saved[c] = "native"
    THEN Serves(c) /\ UNCHANGED fault
    ELSE fault' = fault \cup {saved[c]} /\ UNCHANGED timerVars

\* The timer's interrupt: the event device's handler runs.
TimerInterrupt(c) ==
    /\ Timer \in irr[c] /\ isr[c] = "no" /\ BetweenInstructions(c)
    /\ irr' = [irr EXCEPT ![c] = @ \ {Timer}]
    /\ CASE handler[c] = "native" -> Serves(c) /\ UNCHANGED <<isr, fault>>
         [] handler[c] = "did" /\ start[c] ->
              isr' = [isr EXCEPT ![c] = "read"] /\ UNCHANGED <<timerVars, fault>>
         [] OTHER -> CallsSaved(c) /\ UNCHANGED isr
    /\ UNCHANGED <<scriptVars, dtid, clockVars, apicVars, pir, notified, owed, posts,
                   pc, word, ipi>>

\* Mutant of TimerReadsWord: the request is kept only when the event is due.
BugTimerReadsWord(c) ==
    /\ isr[c] = "read" /\ isr' = [isr EXCEPT ![c] = IF due[c] THEN "write" ELSE "no"]
    /\ word' = [word EXCEPT ![c] = pir[c]]
    /\ UNCHANGED <<scriptVars, dtid, clockVars, timerVars, apicVars, pirVars,
                   pc, ipi, fault>>

\* pi_set_timer_interrupt: the read of __set_bit, then its write.
TimerReadsWord(c) ==
    /\ isr[c] = "read" /\ isr' = [isr EXCEPT ![c] = "write"]
    /\ word' = [word EXCEPT ![c] = pir[c]]
    /\ UNCHANGED <<scriptVars, dtid, clockVars, timerVars, apicVars, pirVars,
                   pc, ipi, fault>>

TimerWritesWord(c) ==
    /\ isr[c] = "write" /\ isr' = [isr EXCEPT ![c] = "check"]
    /\ pir' = [pir EXCEPT ![c] = word[c] \cup {Timer}]
    /\ word' = [word EXCEPT ![c] = {}]
    /\ UNCHANGED <<scriptVars, dtid, clockVars, timerVars, apicVars, notified, irr,
                   owed, posts, pc, ipi, fault>>

\* ktime_get() < next_event: an early interrupt is dropped.
TimerChecks(c) ==
    /\ isr[c] = "check" /\ isr' = [isr EXCEPT ![c] = "no"]
    /\ IF due[c] THEN CallsSaved(c) ELSE UNCHANGED <<timerVars, fault>>
    /\ UNCHANGED <<scriptVars, dtid, clockVars, apicVars, pirVars,
                   pc, word, ipi>>

-----------------------------------------------------------------------------
(* did_send_IPI and its variants, called through the apic *)

\* The thread of c sends vector v to the CPUs of ds; did_send_IPI_mask_allbutself
\* notifies the whole mask, the sender included.
Sends(c, v, ds, ns) ==
    /\ apicFn = "did" /\ pc[c] = "run" /\ isr[c] = "no" /\ cur # c
    /\ pc' = [pc EXCEPT ![c] = "ask"]
    /\ ipi' = [ipi EXCEPT ![c] = [vec |-> v, dest |-> ds, now |-> c, wake |-> ns]]

SendIpi(c, v, ds, ns) ==
    /\ posts < MaxPosts /\ posts' = posts + 1
    /\ ns \in {ds, ds \cup {c}}
    /\ Sends(c, v, ds, ns)
    /\ UNCHANGED <<scriptVars, dtid, clockVars, timerVars, apicVars, pir, notified,
                   irr, owed, isr, word, fault>>

\* The script's last line sends the timer's vector to every CPU.
KickTimer(c, d) ==
    /\ phase = "kickIpi" /\ d \in todo /\ todo' = todo \ {d}
    /\ Sends(c, Timer, {d}, {d})
    /\ UNCHANGED <<loaded, phase, cur, dtid, clockVars, timerVars, apicVars, pirVars,
                   isr, word, fault>>

\* set_posted_interrupt on the descriptor of t, whose address may be NULL: the
\* read of __set_bit, then its write.
SenderReadsWord(c, t) ==
    /\ pc[c] = "ask" /\ isr[c] = "no" /\ t \in ipi[c].dest
    /\ IF start[t]
       THEN /\ pc' = [pc EXCEPT ![c] = "write"] /\ UNCHANGED fault
            /\ word' = [word EXCEPT ![c] = pir[t]]
            /\ ipi' = [ipi EXCEPT ![c].dest = @ \ {t}, ![c].now = t]
       ELSE fault' = fault \cup {"descriptor"} /\ UNCHANGED <<pc, word, ipi>>
    /\ UNCHANGED <<scriptVars, dtid, clockVars, timerVars, apicVars, pirVars, isr>>

SenderWritesWord(c) ==
    /\ pc[c] = "write" /\ pc' = [pc EXCEPT ![c] = "ask"]
    /\ pir' = [pir EXCEPT ![ipi[c].now] = word[c] \cup {ipi[c].vec}]
    /\ owed' = [owed EXCEPT ![ipi[c].now] = @ \cup ({ipi[c].vec} \ {Timer})]
    /\ word' = [word EXCEPT ![c] = {}]
    /\ UNCHANGED <<scriptVars, dtid, clockVars, timerVars, apicVars, notified, irr,
                   posts, isr, ipi, fault>>

\* The saved function of the apic sends POSTED_INTR_VECTOR to each CPU's id.  The
\* host translates a virtual id when it intercepts the write, the processor
\* takes a physical one when it does not.
Reaches(t) == intercept = (id[t] = "virtual")

SenderNotifies(c) ==
    /\ pc[c] = "ask" /\ isr[c] = "no" /\ ipi[c].dest = {}
    /\ pc' = [pc EXCEPT ![c] = "run"]
    /\ notified' = [t \in Cpu |-> notified[t] \/ (t \in ipi[c].wake /\ Reaches(t))]
    /\ ipi' = [ipi EXCEPT ![c] = NoIpi(c)]
    /\ UNCHANGED <<scriptVars, dtid, clockVars, timerVars, apicVars, pir, irr, owed,
                   posts, isr, word, fault>>

-----------------------------------------------------------------------------
TimerHandler(c) == TimerInterrupt(c) \/ TimerReadsWord(c) \/ TimerWritesWord(c)
                   \/ TimerChecks(c)
Sender(c) == \/ \E t \in Cpu : SenderReadsWord(c, t)
             \/ SenderWritesWord(c) \/ SenderNotifies(c)
Operator(c) == \/ SetupHypercall(c) \/ SetupClock(c) \/ SetupStart(c)
               \/ RestoreHypercall(c) \/ RestoreClock(c) \/ RestoreStart(c)
               \/ Rearm(c) \/ SetX2apicId(c) \/ RestoreX2apicId(c)
Apic == SetApicIpi \/ DisableIntercept \/ EnableIntercept \/ RestoreApicIpi

Next == \/ ModuleLoad \/ ModuleUnload \/ Script \/ Apic
        \/ \E c \in Cpu :
             \/ Operator(c) \/ TimerFires(c) \/ TakeRequests(c)
             \/ TimerHandler(c) \/ Sender(c)
             \/ \E v \in Vec : HostPosts(c, v)
             \/ \E d \in Cpu : KickTimer(c, d)
             \/ \E v \in Vec, ds, ns \in SUBSET Cpu \ {{}} : SendIpi(c, v, ds, ns)

Spec == Init /\ [][Next]_vars

\* The processors run, the armed timers fire, and the script gets to its next line.
Fairness == \A c \in Cpu :
    /\ WF_vars(Operator(c)) /\ WF_vars(TimerFires(c)) /\ WF_vars(TakeRequests(c))
    /\ WF_vars(TimerHandler(c)) /\ WF_vars(Sender(c))

FairSpec == Spec /\ Fairness

-----------------------------------------------------------------------------
(* Properties *)

\* Every pointer into the module is followed only while it leads somewhere: no
\* NULL handler, no handler that calls itself, no NULL descriptor.
NoOops == fault = {}

\* The module leaves nothing of its own behind: when the script has disabled it,
\* every CPU has the kernel's handler and its "old clock multiplication factor", and the
\* apic its own functions.
LeavesNothing ==
    phase = "off" => /\ apicFn = "native" /\ intercept
                     /\ \A c \in Cpu : /\ handler[c] = "native" /\ factor[c] = "native"
                                       /\ ~start[c] /\ id[c] = "virtual"

\* "Keep the PIR timer-interrupt and ON bit on all the time": the timer's request
\* is in the descriptor, or taken and its handler about to set it again.
TimerRequestKept ==
    \A c \in Cpu : start[c] /\ dtid[c] =>
        Timer \in pir[c] \cup irr[c] \/ isr[c] \in {"read", "write"}

\* "IPI: directly IPI delivery to another vCPU": a CPU that is sent an IPI is
\* notified, except while the script switches the ids and the intercept.
IpisReachTheirCpus ==
    [][\A c \in Cpu : SenderNotifies(c) /\ phase \notin {"setId", "restoreId", "icr"}
         => \A t \in ipi[c].wake : notified'[t]]_vars

\* A timer event that is due is served, while the module is set up or restored.
DueIsServed == \A c \in Cpu : due[c] ~> ~due[c]

-----------------------------------------------------------------------------
(* What comments and the README say, and the module does not do *)

\* "it is safe to use the non-atomic set operation for the PIR timer-interrupt
\* bit": no other request gets lost.
NoRequestLost == \A c \in Cpu : owed[c] \subseteq pir[c]
=============================================================================
