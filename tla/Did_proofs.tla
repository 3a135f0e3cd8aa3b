----------------------------- MODULE Did_proofs -----------------------------
(***************************************************************************)
(* What the module leaves behind, which pointers it follows and that the   *)
(* timer's request stays set, for any CPUs and vectors.  The script's      *)
(* phase and its list of CPUs tell how far each CPU has come; everything   *)
(* else follows from that.                                                 *)
(***************************************************************************)
EXTENDS Did, TLAPS

Phases == {"off", "setup", "kick", "setApic", "noIcr", "setId", "kickIpi", "on",
           "restoreId", "icr", "restoreApic", "restore", "rearm"}
TimerPhases == {"off", "setup", "kick", "on", "restore", "rearm"}
IpiPhases   == Phases \ {"kick"}

\* The phases in which the apic has the module's functions, the host lets writes of
\* the ICR pass, a CPU may have its physical id.
ApicPhases == {"noIcr", "setId", "kickIpi", "on", "restoreId", "icr", "restoreApic"}
IcrPhases  == {"setId", "kickIpi", "on", "restoreId", "icr"}
IdPhases   == {"setId", "kickIpi", "on", "restoreId"}

DidTypes ==
    /\ phase \in IF WithIpi THEN IpiPhases ELSE TimerPhases
    /\ todo \subseteq Cpu /\ cur \in Cpu \cup {None}
    /\ handler \in [Cpu -> {"native", "did"}] /\ saved \in [Cpu -> {"null", "native"}]
    /\ start \in [Cpu -> BOOLEAN] /\ dtid \in [Cpu -> BOOLEAN]
    /\ id \in [Cpu -> {"virtual", "physical"}]
    /\ isr \in [Cpu -> {"no", "read", "write", "check"}]
    /\ pc \in [Cpu -> {"run", "ask", "write"}]

\* How far hc_setup_dtid and hc_restore_dtid have come with a CPU.
Hooked(c)    == handler[c] = "did" /\ saved[c] = "native"
Plain(c)     == handler[c] = "native" /\ ~start[c] /\ ~dtid[c]
Called(c)    == handler[c] = "native" /\ ~start[c] /\ dtid[c]
Clocked(c)   == Hooked(c) /\ ~start[c] /\ dtid[c]
SetUp(c)     == Hooked(c) /\ start[c] /\ dtid[c]
Released(c)  == Hooked(c) /\ start[c] /\ ~dtid[c]
Unclocked(c) == handler[c] = "native" /\ saved[c] = "native" /\ start[c] /\ ~dtid[c]

\* After enabling: set up, or never, when the host refused.
Ready(c) == SetUp(c) \/ ("setup" \in HcFail /\ Plain(c))

\* Where a CPU is, by the phase and the list: inside an ioctl, before it or after.
Place(c) ==
    /\ phase \in {"off", "rearm"} => Plain(c)
    /\ phase = "setup" =>
         /\ cur = c /\ c \in todo => Called(c)
         /\ cur = c /\ c \notin todo => Clocked(c)
         /\ cur # c /\ c \in todo => Plain(c)
         /\ cur # c /\ c \notin todo => Ready(c)
    /\ phase = "restore" =>
         /\ cur = c /\ c \in todo => Released(c)
         /\ cur = c /\ c \notin todo => Unclocked(c)
         /\ cur # c /\ c \in todo => Ready(c)
         /\ cur # c /\ c \notin todo => Plain(c)
    /\ phase \notin {"off", "rearm", "setup", "restore"} => Ready(c)

Places ==
    /\ cur # None => phase \in {"setup", "restore"}
    /\ ~loaded => phase = "off"
    /\ \A c \in Cpu : Place(c)

\* The clock factor goes with the handler, unless the host refuses it.
Factors ==
    /\ factor \in [Cpu -> {"native", "host"}]
    /\ savedFactor \in [Cpu -> {"zero", "native", "host"}]
    /\ \A c \in Cpu : /\ factor[c] = IF handler[c] = "did" THEN "host" ELSE "native"
                      /\ handler[c] = "did" => savedFactor[c] = "native"

ApicInv ==
    /\ WithIpi /\ phase \in ApicPhases => apicFn = "did" /\ savedFn = "native"
    /\ ~WithIpi \/ phase \notin ApicPhases => apicFn = "native"
    /\ ~WithIpi \/ phase \notin IcrPhases => intercept
    /\ ~WithIpi \/ phase \notin IdPhases => \A c \in Cpu : id[c] = "virtual"
    /\ phase = "restoreId" => \A c \in Cpu \ todo : id[c] = "virtual"

\* A handler that is running has a saved handler to call.
Handlers ==
    \A c \in Cpu : isr[c] # "no" => saved[c] = "native" /\ loaded

\* A thread is inside the senders only while the apic has them, unless delayed.
Senders ==
    ~Delayed \/ ~WithIpi => \A c \in Cpu : pc[c] # "run" => WithIpi /\ phase \in ApicPhases

DidInv == DidTypes /\ Places /\ ApicInv /\ Handlers /\ Senders

-----------------------------------------------------------------------------
(* What interrupts and IPIs leave to the script *)

Interrupt(c) ==
    \/ TimerFires(c) \/ TakeRequests(c) \/ TimerHandler(c) \/ Sender(c)
    \/ \E v \in Vec : HostPosts(c, v)
    \/ \E d \in Cpu : KickTimer(c, d)
    \/ \E v \in Vec, ds, ns \in SUBSET Cpu \ {{}} : SendIpi(c, v, ds, ns)

\* Nothing but the last line of enabling, which takes a CPU off its list.
LEMMA InterruptsKeep ==
    ASSUME NEW c \in Cpu, Interrupt(c)
    PROVE  /\ UNCHANGED <<loaded, phase, cur, dtid, clockVars, apicVars>>
           /\ UNCHANGED todo \/ (phase = "kickIpi" /\ todo' \subseteq todo)
<1>1. CASE TimerFires(c) \/ TakeRequests(c) \/ \E v \in Vec : HostPosts(c, v)
  BY <1>1 DEF TimerFires, TakeRequests, HostPosts, scriptVars
<1>2. CASE TimerHandler(c)
  BY <1>2 DEF TimerHandler, TimerInterrupt, TimerReadsWord, TimerWritesWord, TimerChecks,
     scriptVars
<1>3. CASE Sender(c)
  BY <1>3 DEF Sender, SenderReadsWord, SenderWritesWord, SenderNotifies, scriptVars
<1>4. CASE \E d \in Cpu : KickTimer(c, d)
  BY <1>4 DEF KickTimer
<1>5. CASE \E v \in Vec, ds, ns \in SUBSET Cpu \ {{}} : SendIpi(c, v, ds, ns)
  BY <1>5 DEF SendIpi, scriptVars
<1> QED
  BY <1>1, <1>2, <1>3, <1>4, <1>5 DEF Interrupt

\* The next-state relation, an interrupt of any kind as one case.
LEMMA Steps ==
    ASSUME Next
    PROVE  \/ ModuleLoad \/ ModuleUnload \/ Script \/ Apic
           \/ \E c \in Cpu : Operator(c) \/ Interrupt(c)
BY DEF Next, Interrupt

-----------------------------------------------------------------------------
(* Types *)

LEMMA ScriptTypes ==
    ASSUME DidInv, Script
    PROVE  DidTypes'
<1>1. /\ phase' \in IF WithIpi THEN IpiPhases ELSE TimerPhases
      /\ todo' \subseteq Cpu /\ UNCHANGED cur
  BY DEF DidInv, DidTypes, Script, ScriptGoes, Enable, EnableTimer, EnableIpi, KickByIpi,
     Enabled, Disable, RestoredIds, RearmAll, Disabled, IpiPhases, TimerPhases, Phases
<1>2. UNCHANGED <<handler, saved, start, dtid, id, isr, pc>>
  BY DEF Script, clockVars, apicVars, cpuVars
<1> QED
  BY <1>1, <1>2 DEF DidInv, DidTypes

LEMMA ApicTypes ==
    ASSUME DidInv, Apic
    PROVE  DidTypes'
<1>1. /\ phase' \in IF WithIpi THEN IpiPhases ELSE TimerPhases
      /\ todo' \subseteq Cpu /\ UNCHANGED cur
  BY DEF DidInv, DidTypes, Apic, SetApicIpi, DisableIntercept, EnableIntercept,
     RestoreApicIpi, IpiPhases, TimerPhases, Phases
<1>2. UNCHANGED <<handler, saved, start, dtid, id, isr, pc>>
  BY DEF Apic, SetApicIpi, DisableIntercept, EnableIntercept, RestoreApicIpi,
     clockVars, cpuVars
<1> QED
  BY <1>1, <1>2 DEF DidInv, DidTypes

LEMMA OperatorTypes ==
    ASSUME DidInv, NEW c \in Cpu, Operator(c)
    PROVE  DidTypes'
<1>1. UNCHANGED <<phase, isr, pc>> /\ todo' \subseteq Cpu /\ cur' \in Cpu \cup {None}
  BY DEF DidInv, DidTypes, Operator, SetupHypercall, SetupClock, SetupStart,
     RestoreHypercall, RestoreClock, RestoreStart, Rearm, SetX2apicId,
     RestoreX2apicId, cpuVars
<1>2. /\ dtid' \in [Cpu -> BOOLEAN] /\ start' \in [Cpu -> BOOLEAN]
      /\ id' \in [Cpu -> {"virtual", "physical"}]
  BY DEF DidInv, DidTypes, Operator, SetupHypercall, SetupClock, SetupStart,
     RestoreHypercall, RestoreClock, RestoreStart, Rearm, SetX2apicId,
     RestoreX2apicId, clockVars, apicVars
<1>3. UNCHANGED <<handler, saved>> \/ SetupClock(c) \/ RestoreClock(c)
  BY DEF Operator, SetupHypercall, SetupStart, RestoreHypercall, RestoreStart, Rearm,
     SetX2apicId, RestoreX2apicId, clockVars
<1>4. handler' \in [Cpu -> {"native", "did"}] /\ saved' \in [Cpu -> {"null", "native"}]
  <2>1. CASE SetupClock(c)
    <3>1. handler[c] = "native"
      BY <2>1 DEF DidInv, Places, Place, SetupClock, Called
    <3> QED
      BY <2>1, <3>1 DEF DidInv, DidTypes, SetupClock
  <2>2. CASE RestoreClock(c)
    <3>1. saved[c] = "native"
      BY <2>2 DEF DidInv, Places, Place, RestoreClock, Released, Hooked
    <3> QED
      BY <2>2, <3>1 DEF DidInv, DidTypes, RestoreClock
  <2>3. CASE UNCHANGED <<handler, saved>>
    BY <2>3 DEF DidInv, DidTypes
  <2> QED
    BY <1>3, <2>1, <2>2, <2>3
<1> QED
  BY <1>1, <1>2, <1>4 DEF DidInv, DidTypes

LEMMA InterruptTypes ==
    ASSUME DidInv, NEW c \in Cpu, Interrupt(c)
    PROVE  DidTypes'
<1>1. isr' \in [Cpu -> {"no", "read", "write", "check"}]
  <2>1. UNCHANGED isr \/ \E s \in {"no", "read", "write", "check"} :
                            isr' = [isr EXCEPT ![c] = s]
    <3>1. CASE TimerHandler(c)
      BY <3>1 DEF TimerHandler, TimerInterrupt, TimerReadsWord, TimerWritesWord, TimerChecks
    <3>2. CASE Sender(c)
      BY <3>2 DEF Sender, SenderReadsWord, SenderWritesWord, SenderNotifies
    <3> QED
      BY <3>1, <3>2 DEF Interrupt, TimerFires, TakeRequests, HostPosts, KickTimer, SendIpi,
         cpuVars
  <2> QED
    BY <2>1 DEF DidInv, DidTypes
<1>2. pc' \in [Cpu -> {"run", "ask", "write"}]
  <2>1. UNCHANGED pc \/ \E s \in {"run", "ask", "write"} : pc' = [pc EXCEPT ![c] = s]
    <3>1. CASE TimerHandler(c)
      BY <3>1 DEF TimerHandler, TimerInterrupt, TimerReadsWord, TimerWritesWord, TimerChecks
    <3>2. CASE Sender(c)
      BY <3>2 DEF Sender, SenderReadsWord, SenderWritesWord, SenderNotifies
    <3> QED
      BY <3>1, <3>2 DEF Interrupt, TimerFires, TakeRequests, HostPosts, KickTimer, SendIpi,
         Sends, cpuVars
  <2> QED
    BY <2>1 DEF DidInv, DidTypes
<1>3. UNCHANGED <<phase, cur, handler, saved, start, dtid, id>> /\ todo' \subseteq todo
  BY InterruptsKeep DEF clockVars, apicVars
<1> QED
  BY <1>1, <1>2, <1>3 DEF DidInv, DidTypes

LEMMA TypesHold ==
    ASSUME DidInv, [Next]_vars
    PROVE  DidTypes'
<1>1. CASE ModuleLoad
  BY <1>1 DEF DidInv, DidTypes, ModuleLoad, apicVars, cpuVars
<1>2. CASE ModuleUnload
  BY <1>2 DEF DidInv, DidTypes, ModuleUnload, clockVars, apicVars, cpuVars
<1>3. CASE UNCHANGED vars
  BY <1>3 DEF DidInv, DidTypes, vars, scriptVars, clockVars, apicVars, cpuVars
<1> QED
  BY <1>1, <1>2, <1>3, Steps, ScriptTypes, ApicTypes, OperatorTypes, InterruptTypes

-----------------------------------------------------------------------------
(* How far each CPU has come *)

LEMMA ScriptPlaces ==
    ASSUME DidInv, Script
    PROVE  Places'
<1>1. UNCHANGED <<cur, loaded, handler, saved, start, dtid>> /\ cur = None
  BY DEF Script, ScriptGoes, clockVars, Enable, EnableTimer, EnableIpi, KickByIpi,
     Enabled, Disable, RestoredIds, RearmAll, Disabled
<1>2. loaded'
  BY <1>1 DEF DidInv, Places, Script, ScriptGoes, Enable, EnableTimer, EnableIpi, KickByIpi,
     Enabled, Disable, RestoredIds, RearmAll, Disabled
<1>3. ASSUME NEW c \in Cpu PROVE Place(c)'
  <2>1. cur # c
    BY <1>1, DidAssumption DEF None
  <2>2. /\ Plain(c)' <=> Plain(c)
        /\ Ready(c)' <=> Ready(c)
    BY <1>1 DEF Plain, Ready, SetUp, Hooked
  <2>3. /\ phase' = "setup" => phase = "off" /\ c \in todo'
        /\ phase' = "restore" => phase = "on" /\ c \in todo'
        /\ phase' = "rearm" => phase = "restore" /\ todo = {}
        /\ phase' = "off" => phase = "rearm"
        /\ phase' \notin {"off", "setup", "restore", "rearm"} =>
             /\ phase \notin {"off", "restore", "rearm"}
             /\ phase = "setup" => todo = {}
    BY DEF Script, ScriptGoes, Enable, EnableTimer, EnableIpi, KickByIpi,
       Enabled, Disable, RestoredIds, RearmAll, Disabled
  <2>4. Place(c)
    BY DEF DidInv, Places
  <2>5. phase' \in {"off", "rearm"} => Plain(c)'
    BY <2>1, <2>2, <2>3, <2>4 DEF Place
  <2>6. phase' = "setup" => c \in todo' /\ Plain(c)'
    BY <2>1, <2>2, <2>3, <2>4 DEF Place
  <2>7. phase' = "restore" => c \in todo' /\ Ready(c)'
    BY <2>1, <2>2, <2>3, <2>4 DEF Place
  <2>8. phase' \notin {"off", "rearm", "setup", "restore"} => Ready(c)'
    BY <2>1, <2>2, <2>3, <2>4 DEF Place
  <2> QED
    BY <1>1, <2>1, <2>5, <2>6, <2>7, <2>8 DEF Place
<1> QED
  BY <1>1, <1>2, <1>3 DEF Places

LEMMA ApicPlaces ==
    ASSUME DidInv, Apic
    PROVE  Places'
<1>1. /\ UNCHANGED <<cur, loaded, handler, saved, start, dtid>>
      /\ phase \in {"setApic", "noIcr", "icr", "restoreApic"}
      /\ phase' \in {"noIcr", "setId", "restoreApic", "restore"}
      /\ phase' = "restore" => todo' = Cpu
  BY DEF Apic, SetApicIpi, DisableIntercept, EnableIntercept, RestoreApicIpi, clockVars
<1>2. cur = None /\ loaded
  BY <1>1 DEF DidInv, Places
<1>3. ASSUME NEW c \in Cpu PROVE Place(c)'
  <2>1. cur # c
    BY <1>2, DidAssumption DEF None
  <2>2. Ready(c)
    BY <1>1 DEF DidInv, Places, Place
  <2>3. Ready(c)'
    BY <1>1, <2>2 DEF Ready, Plain, SetUp, Hooked
  <2> QED
    BY <1>1, <2>1, <2>3 DEF Place
<1> QED
  BY <1>1, <1>2, <1>3 DEF Places

\* A step of the operator on one CPU leaves the place of every other where it was.
LEMMA OthersStay ==
    ASSUME DidInv, NEW c \in Cpu, Operator(c), NEW d \in Cpu, d # c
    PROVE  Place(d)'
<1>1. /\ UNCHANGED phase
      /\ d \in todo' <=> d \in todo
      /\ cur # d /\ cur' # d
  BY DidAssumption DEF Operator, SetupHypercall, SetupClock, SetupStart, RestoreHypercall,
     RestoreClock, RestoreStart, Rearm, SetX2apicId, RestoreX2apicId, None,
     DidInv, Places
<1>2. /\ handler'[d] = handler[d] /\ saved'[d] = saved[d]
      /\ start'[d] = start[d] /\ dtid'[d] = dtid[d]
  BY DEF DidInv, DidTypes, Operator, SetupHypercall, SetupClock, SetupStart,
     RestoreHypercall, RestoreClock, RestoreStart, Rearm, SetX2apicId,
     RestoreX2apicId, clockVars
<1>3. Plain(d)' = Plain(d) /\ Ready(d)' = Ready(d)
  BY <1>2 DEF Plain, Ready, SetUp, Hooked
<1>4. Place(d)
  BY DEF DidInv, Places
<1> QED
  BY <1>1, <1>3, <1>4 DEF Place

LEMMA OperatorPlaces ==
    ASSUME DidInv, NEW c \in Cpu, Operator(c)
    PROVE  Places'
<1>1. UNCHANGED <<loaded, phase>> /\ (cur' = None \/ phase \in {"setup", "restore"})
  BY DEF Operator, SetupHypercall, SetupClock, SetupStart, RestoreHypercall,
     RestoreClock, RestoreStart, Rearm, SetX2apicId, RestoreX2apicId, DidInv, Places
<1>2. Place(c)'
  <2>0. Place(c) /\ c # None
    BY DidAssumption DEF DidInv, Places, None
  <2>1. CASE SetupHypercall(c)
    <3>1. phase = "setup" /\ Plain(c) /\ UNCHANGED <<phase, handler, saved, start>>
      BY <2>0, <2>1 DEF SetupHypercall, Place, clockVars
    <3>2. CASE dtid' = [dtid EXCEPT ![c] = TRUE] /\ cur' = c /\ UNCHANGED todo
      <4>1. Called(c)'
        BY <3>1, <3>2 DEF Plain, Called, DidInv, DidTypes
      <4> QED
        BY <2>1, <3>1, <3>2, <4>1 DEF Place, SetupHypercall
    <3>3. CASE "setup" \in HcFail /\ todo' = todo \ {c} /\ UNCHANGED <<dtid, cur>>
      <4>1. Ready(c)'
        BY <3>1, <3>3 DEF Plain, Ready
      <4> QED
        BY <2>0, <2>1, <3>1, <3>3, <4>1 DEF Place, SetupHypercall
    <3> QED
      BY <2>1, <3>2, <3>3 DEF SetupHypercall
  <2>2. CASE SetupClock(c)
    <3>1. phase = "setup" /\ Called(c) /\ UNCHANGED <<phase, cur, start, dtid>> /\ cur = c
      BY <2>0, <2>2 DEF SetupClock, Place
    <3>2. Clocked(c)'
      BY <2>2, <3>1 DEF SetupClock, Called, Clocked, Hooked, DidInv, DidTypes
    <3> QED
      BY <2>2, <3>1, <3>2 DEF Place, SetupClock
  <2>3. CASE SetupStart(c)
    <3>1. phase = "setup" /\ Clocked(c) /\ UNCHANGED <<phase, todo, handler, saved, dtid>>
      BY <2>0, <2>3 DEF SetupStart, Place
    <3>2. Ready(c)'
      BY <2>3, <3>1 DEF SetupStart, Clocked, Ready, SetUp, Hooked, DidInv, DidTypes
    <3> QED
      BY <2>0, <2>3, <3>1, <3>2 DEF Place, SetupStart
  <2>4. CASE RestoreHypercall(c)
    <3>1. phase = "restore" /\ Ready(c) /\ UNCHANGED <<phase, handler, saved, start>>
      BY <2>0, <2>4 DEF RestoreHypercall, Place, clockVars
    <3>2. CASE dtid[c]
      <4>1. Released(c)'
        BY <2>4, <3>1, <3>2 DEF RestoreHypercall, Ready, SetUp, Plain, Released, Hooked,
           DidInv, DidTypes
      <4> QED
        BY <2>4, <3>1, <3>2, <4>1 DEF Place, RestoreHypercall
    <3>3. CASE ~dtid[c]
      <4>1. Plain(c)'
        BY <2>4, <3>1, <3>3 DEF RestoreHypercall, Ready, SetUp, Plain
      <4> QED
        BY <2>0, <2>4, <3>1, <3>3, <4>1 DEF Place, RestoreHypercall
    <3> QED
      BY <3>2, <3>3
  <2>5. CASE RestoreClock(c)
    <3>1. /\ phase = "restore" /\ Released(c) /\ cur = c
          /\ UNCHANGED <<phase, cur, saved, start, dtid>>
      BY <2>0, <2>5 DEF RestoreClock, Place
    <3>2. Unclocked(c)'
      BY <2>5, <3>1 DEF RestoreClock, Released, Unclocked, Hooked, DidInv, DidTypes
    <3> QED
      BY <2>5, <3>1, <3>2 DEF Place, RestoreClock
  <2>6. CASE RestoreStart(c)
    <3>1. phase = "restore" /\ Unclocked(c) /\ UNCHANGED <<phase, todo, handler, saved, dtid>>
      BY <2>0, <2>6 DEF RestoreStart, Place
    <3>2. Plain(c)'
      BY <2>6, <3>1 DEF RestoreStart, Unclocked, Plain, DidInv, DidTypes
    <3> QED
      BY <2>0, <2>6, <3>1, <3>2 DEF Place, RestoreStart
  <2>7. CASE Rearm(c) \/ SetX2apicId(c) \/ RestoreX2apicId(c)
    <3>1. /\ phase \in {"kick", "rearm", "setId", "restoreId"}
          /\ UNCHANGED <<phase, handler, saved, start, dtid>>
      BY <2>7 DEF Rearm, SetX2apicId, RestoreX2apicId, clockVars
    <3>2. Plain(c)' = Plain(c) /\ Ready(c)' = Ready(c)
      BY <3>1 DEF Plain, Ready, SetUp, Hooked
    <3> QED
      BY <2>0, <3>1, <3>2 DEF Place
  <2> QED
    BY <2>1, <2>2, <2>3, <2>4, <2>5, <2>6, <2>7 DEF Operator
<1>3. /\ cur' # None => phase' \in {"setup", "restore"}
      /\ ~loaded' => phase' = "off"
  BY <1>1 DEF DidInv, Places
<1> QED
  BY <1>2, <1>3, OthersStay DEF Places

LEMMA InterruptPlaces ==
    ASSUME DidInv, NEW c \in Cpu, Interrupt(c)
    PROVE  Places'
<1>1. /\ UNCHANGED <<loaded, phase, cur, handler, saved, start, dtid>>
      /\ UNCHANGED todo \/ phase = "kickIpi"
  BY InterruptsKeep DEF clockVars
<1>2. ASSUME NEW d \in Cpu PROVE Place(d)'
  BY <1>1 DEF DidInv, Places, Place, Plain, Called, Clocked, Ready, SetUp, Released,
     Unclocked, Hooked
<1> QED
  BY <1>1, <1>2 DEF DidInv, Places

LEMMA PlacesHold ==
    ASSUME DidInv, [Next]_vars
    PROVE  Places'
<1>1. CASE ModuleLoad
  <2>1. phase = "off" /\ UNCHANGED <<phase, todo, cur, dtid, handler>> /\ loaded'
    BY <1>1 DEF ModuleLoad, DidInv, Places
  <2>2. ASSUME NEW c \in Cpu PROVE Plain(c)'
    BY <1>1, <2>1 DEF ModuleLoad, DidInv, Places, Place, Plain
  <2> QED
    BY <2>1, <2>2 DEF DidInv, Places, Place
<1>2. CASE ModuleUnload
  <2>1. phase = "off" /\ UNCHANGED <<phase, todo, cur, dtid, handler, start>>
    BY <1>2 DEF ModuleUnload, clockVars
  <2>2. ASSUME NEW c \in Cpu PROVE Plain(c)'
    BY <2>1 DEF DidInv, Places, Place, Plain
  <2> QED
    BY <2>1, <2>2 DEF DidInv, Places, Place
<1>3. CASE UNCHANGED vars
  BY <1>3 DEF DidInv, Places, Place, Plain, Called, Clocked, Ready, SetUp, Released,
     Unclocked, Hooked, vars, scriptVars, clockVars
<1> QED
  BY <1>1, <1>2, <1>3, Steps, ScriptPlaces, ApicPlaces, OperatorPlaces, InterruptPlaces

-----------------------------------------------------------------------------
(* The apic's functions, the ids and the intercept *)

LEMMA ApicHolds ==
    ASSUME DidInv, [Next]_vars
    PROVE  ApicInv'
<1>1. CASE ModuleLoad
  <2>1. phase = "off" /\ UNCHANGED <<phase, todo, apicFn, id, intercept>>
    BY <1>1 DEF ModuleLoad, DidInv, Places
  <2> QED
    BY <2>1 DEF DidInv, ApicInv, ApicPhases, IcrPhases, IdPhases
<1>2. CASE ModuleUnload
  BY <1>2 DEF ModuleUnload, DidInv, ApicInv, apicVars
<1>3. CASE Script
  <2>1. UNCHANGED <<apicFn, savedFn, id, intercept>>
    BY <1>3 DEF Script, apicVars
  <2>2. WithIpi => phase # "kick"
    BY DEF DidInv, DidTypes, IpiPhases
  <2>3. ASSUME WithIpi
        PROVE  /\ phase' \in ApicPhases <=> phase \in ApicPhases
               /\ phase' \in IcrPhases <=> phase \in IcrPhases
               /\ phase' \in IdPhases <=> (phase \in IdPhases /\ phase # "restoreId")
               /\ phase = "restoreId" => todo = {}
               /\ phase' = "restoreId" => todo' = Cpu
    <3> USE DEF ScriptGoes, ApicPhases, IcrPhases, IdPhases
    <3>1. CASE Enable \/ EnableTimer \/ EnableIpi
      BY <3>1 DEF Enable, EnableTimer, EnableIpi
    <3>2. CASE KickByIpi \/ Enabled
      BY <2>2, <2>3, <3>2 DEF KickByIpi, Enabled
    <3>3. CASE Disable
      BY <2>3, <3>3 DEF Disable
    <3>4. CASE RestoredIds \/ RearmAll \/ Disabled
      BY <3>4 DEF RestoredIds, RearmAll, Disabled
    <3> QED
      BY <1>3, <3>1, <3>2, <3>3, <3>4 DEF Script
  <2>4. phase' = "restoreId" => WithIpi
    BY TypesHold DEF DidInv, DidTypes, TimerPhases
  <2> QED
    BY <2>1, <2>3, <2>4 DEF DidInv, ApicInv
<1>4. CASE Apic
  <2>0. WithIpi
    BY <1>4 DEF Apic, SetApicIpi, DisableIntercept, EnableIntercept, RestoreApicIpi,
       DidInv, DidTypes, TimerPhases
  <2> USE DEF DidInv, ApicInv, ApicPhases, IcrPhases, IdPhases
  <2>1. CASE SetApicIpi
    BY <2>0, <2>1 DEF SetApicIpi
  <2>2. CASE DisableIntercept
    BY <2>0, <2>2 DEF DisableIntercept
  <2>3. CASE EnableIntercept
    BY <2>0, <2>3 DEF EnableIntercept
  <2>4. CASE RestoreApicIpi
    BY <2>0, <2>4 DEF RestoreApicIpi
  <2> QED
    BY <1>4, <2>1, <2>2, <2>3, <2>4 DEF Apic
<1>5. ASSUME NEW c \in Cpu, Operator(c) PROVE ApicInv'
  <2>1. UNCHANGED <<phase, apicFn, savedFn, intercept>>
    BY <1>5 DEF Operator, SetupHypercall, SetupClock, SetupStart, RestoreHypercall,
       RestoreClock, RestoreStart, Rearm, SetX2apicId, RestoreX2apicId, apicVars
  <2>2. CASE SetX2apicId(c)
    BY <2>1, <2>2 DEF SetX2apicId, DidInv, DidTypes, ApicInv, IdPhases, TimerPhases
  <2>3. CASE RestoreX2apicId(c)
    BY <2>1, <2>3 DEF RestoreX2apicId, DidInv, DidTypes, ApicInv, IdPhases, TimerPhases
  <2>4. CASE UNCHANGED id /\ phase # "restoreId"
    BY <2>1, <2>4 DEF DidInv, ApicInv
  <2>5. (UNCHANGED id /\ phase # "restoreId") \/ SetX2apicId(c) \/ RestoreX2apicId(c)
    BY <1>5 DEF Operator, SetupHypercall, SetupClock, SetupStart, RestoreHypercall,
       RestoreClock, RestoreStart, Rearm, apicVars
  <2> QED
    BY <2>2, <2>3, <2>4, <2>5
<1>6. ASSUME NEW c \in Cpu, Interrupt(c) PROVE ApicInv'
  <2>1. /\ UNCHANGED <<phase, apicFn, savedFn, id, intercept>>
        /\ UNCHANGED todo \/ phase = "kickIpi"
    BY <1>6, InterruptsKeep DEF apicVars
  <2> QED
    BY <2>1 DEF DidInv, ApicInv
<1>7. CASE UNCHANGED vars
  BY <1>7 DEF vars, scriptVars, apicVars, DidInv, ApicInv
<1> QED
  BY <1>1, <1>2, <1>3, <1>4, <1>5, <1>6, <1>7, Steps

-----------------------------------------------------------------------------
(* The timer's handler and the senders *)

\* The module's handler runs on a CPU only after the kernel's was saved.
LEMMA HookedIsSaved ==
    ASSUME DidInv, NEW c \in Cpu, handler[c] = "did"
    PROVE  saved[c] = "native" /\ loaded
BY DEF DidInv, Places, Place, Plain, Called, Clocked, Ready, SetUp, Released, Unclocked,
   Hooked, DidTypes, Phases, TimerPhases, IpiPhases

LEMMA HandlersHold ==
    ASSUME DidInv, [Next]_vars
    PROVE  Handlers'
<1>1. CASE ModuleLoad
  BY <1>1 DEF ModuleLoad, DidInv, Handlers, cpuVars
<1>2. CASE ModuleUnload
  BY <1>2 DEF ModuleUnload, DidInv, Handlers, cpuVars
<1>3. CASE Script
  <2>1. UNCHANGED <<loaded, isr, saved>>
    BY <1>3 DEF Script, ScriptGoes, clockVars, cpuVars, Enable, EnableTimer, EnableIpi,
       KickByIpi, Enabled, Disable, RestoredIds, RearmAll, Disabled
  <2> QED
    BY <2>1 DEF DidInv, Handlers
<1>4. CASE Apic
  BY <1>4 DEF Apic, SetApicIpi, DisableIntercept, EnableIntercept, RestoreApicIpi,
     clockVars, cpuVars, DidInv, Handlers
<1>5. ASSUME NEW c \in Cpu, Operator(c) PROVE Handlers'
  <2>1. UNCHANGED <<loaded, isr>>
    BY <1>5 DEF Operator, SetupHypercall, SetupClock, SetupStart, RestoreHypercall,
       RestoreClock, RestoreStart, Rearm, SetX2apicId, RestoreX2apicId, cpuVars
  <2>2. UNCHANGED saved \/ (isr[c] = "no" /\ saved' = [saved EXCEPT ![c] = handler[c]])
    BY <1>5 DEF Operator, SetupHypercall, SetupClock, SetupStart, RestoreHypercall,
       RestoreClock, RestoreStart, Rearm, SetX2apicId, RestoreX2apicId, clockVars, On
  <2> QED
    BY <2>1, <2>2 DEF DidInv, DidTypes, Handlers
<1>6. ASSUME NEW c \in Cpu, Interrupt(c) PROVE Handlers'
  <2>1. UNCHANGED <<loaded, saved>>
    BY <1>6, InterruptsKeep DEF clockVars
  <2>2. \A d \in Cpu : isr'[d] # "no" => isr[d] # "no" \/ handler[d] = "did"
    <3>1. CASE TimerInterrupt(c)
      BY <3>1 DEF TimerInterrupt, DidInv, DidTypes
    <3>2. CASE TimerReadsWord(c) \/ TimerWritesWord(c) \/ TimerChecks(c)
      BY <3>2 DEF TimerReadsWord, TimerWritesWord, TimerChecks, DidInv, DidTypes
    <3>3. UNCHANGED isr \/ TimerHandler(c)
      BY <1>6 DEF Interrupt, TimerFires, TakeRequests, HostPosts, KickTimer, SendIpi,
         Sender, SenderReadsWord, SenderWritesWord, SenderNotifies, cpuVars
    <3> QED
      BY <3>1, <3>2, <3>3 DEF TimerHandler
  <2> QED
    BY <2>1, <2>2, HookedIsSaved DEF DidInv, Handlers
<1>7. CASE UNCHANGED vars
  BY <1>7 DEF vars, scriptVars, clockVars, cpuVars, DidInv, Handlers
<1> QED
  BY <1>1, <1>2, <1>3, <1>4, <1>5, <1>6, <1>7, Steps

LEMMA SendersHold ==
    ASSUME DidInv, [Next]_vars
    PROVE  Senders'
<1>1. CASE ModuleLoad \/ ModuleUnload \/ UNCHANGED vars
  BY <1>1 DEF ModuleLoad, ModuleUnload, vars, scriptVars, cpuVars, DidInv, Senders
<1>2. CASE Script
  <2>1. UNCHANGED pc
    BY <1>2 DEF Script, cpuVars
  <2>2. WithIpi /\ phase \in ApicPhases => phase' \in ApicPhases
    <3>1. CASE Disable
      BY <3>1 DEF Disable, ScriptGoes, ApicPhases
    <3>2. CASE ~Disable
      BY <1>2, <3>2 DEF Script, ScriptGoes, ApicPhases, Enable, EnableTimer, EnableIpi,
         KickByIpi, Enabled, RestoredIds, RearmAll, Disabled
    <3> QED
      BY <3>1, <3>2
  <2> QED
    BY <2>1, <2>2 DEF DidInv, Senders
<1>3. CASE Apic
  <2>1. /\ UNCHANGED pc /\ Settled
        /\ phase' \in ApicPhases \/ phase' = "restore"
    BY <1>3 DEF Apic, SetApicIpi, DisableIntercept, EnableIntercept, RestoreApicIpi,
       cpuVars, ApicPhases
  <2> QED
    BY <1>3, <2>1 DEF Settled, DidInv, Senders
<1>4. ASSUME NEW c \in Cpu, Operator(c) PROVE Senders'
  <2>1. UNCHANGED <<phase, pc>>
    BY <1>4 DEF Operator, SetupHypercall, SetupClock, SetupStart, RestoreHypercall,
       RestoreClock, RestoreStart, Rearm, SetX2apicId, RestoreX2apicId, cpuVars
  <2> QED
    BY <2>1 DEF DidInv, Senders
<1>5. ASSUME NEW c \in Cpu, Interrupt(c) PROVE Senders'
  <2>1. UNCHANGED phase
    BY <1>5, InterruptsKeep
  <2>2. \A d \in Cpu : pc'[d] # "run" => pc[d] # "run" \/ apicFn = "did"
    <3>1. CASE Sender(c)
      BY <3>1 DEF Sender, SenderReadsWord, SenderWritesWord, SenderNotifies, DidInv,
         DidTypes
    <3>2. CASE UNCHANGED pc
      BY <3>2
    <3>3. CASE \E s \in {"ask"} : pc' = [pc EXCEPT ![c] = s] /\ apicFn = "did"
      BY <3>3
    <3>4. \/ Sender(c) \/ UNCHANGED pc
          \/ \E s \in {"ask"} : pc' = [pc EXCEPT ![c] = s] /\ apicFn = "did"
      BY <1>5 DEF Interrupt, TimerFires, TakeRequests, HostPosts, KickTimer, SendIpi,
         Sends, TimerHandler, TimerInterrupt, TimerReadsWord, TimerWritesWord,
         TimerChecks, cpuVars
    <3> QED
      BY <3>1, <3>2, <3>3, <3>4
  <2>3. apicFn = "did" => WithIpi /\ phase \in ApicPhases
    BY DEF DidInv, ApicInv
  <2> QED
    BY <2>1, <2>2, <2>3 DEF DidInv, Senders
<1> QED
  BY <1>1, <1>2, <1>3, <1>4, <1>5, Steps

-----------------------------------------------------------------------------
LEMMA Starts == Init => DidInv
<1> SUFFICES ASSUME Init PROVE DidInv
  OBVIOUS
<1>1. DidTypes
  BY DEF Init, DidTypes, TimerPhases, IpiPhases, Phases
<1>2. Places /\ ApicInv /\ Handlers /\ Senders
  BY DEF Init, Places, Place, Plain, ApicInv, ApicPhases, IcrPhases, IdPhases, Handlers,
     Senders
<1> QED
  BY <1>1, <1>2 DEF DidInv

LEMMA Keeps == DidInv /\ [Next]_vars => DidInv'
BY TypesHold, PlacesHold, ApicHolds, HandlersHold, SendersHold DEF DidInv

LEMMA Invariant == Spec => []DidInv
BY Starts, Keeps, PTL DEF Spec

\* Whatever the interrupts do meanwhile, after the script's last line the kernel
\* has its handlers and clock factors back and the apic its functions, on every
\* number of CPUs, when no hypercall for the factor was refused.
THEOREM NothingIsLeft ==
    ASSUME "factor" \notin HcFail
    PROVE  Spec => []LeavesNothing
<1>1. Init => Factors
  BY DEF Init, Factors
<1>2. DidInv /\ Factors /\ [Next]_vars => Factors'
  <2> SUFFICES ASSUME DidInv, Factors, [Next]_vars PROVE Factors'
    OBVIOUS
  <2>1. CASE ModuleLoad
    <3>1. \A c \in Cpu : handler[c] = "native"
      BY <2>1 DEF ModuleLoad, DidInv, Places, Place, Plain
    <3> QED
      BY <2>1, <3>1 DEF ModuleLoad, Factors
  <2>2. ASSUME NEW c \in Cpu, SetupClock(c) PROVE Factors'
    <3>1. handler[c] = "native"
      BY <2>2 DEF SetupClock, DidInv, Places, Place, Called
    <3> QED
      BY <2>2, <3>1 DEF SetupClock, Factors, DidInv, DidTypes
  <2>3. ASSUME NEW c \in Cpu, RestoreClock(c) PROVE Factors'
    <3>1. handler[c] = "did" /\ saved[c] = "native"
      BY <2>3 DEF RestoreClock, DidInv, Places, Place, Released, Hooked
    <3> QED
      BY <2>3, <3>1 DEF RestoreClock, Factors, DidInv, DidTypes
  <2>4. CASE UNCHANGED <<handler, factor, savedFactor>>
    BY <2>4 DEF Factors
  <2>5. \/ ModuleLoad \/ UNCHANGED <<handler, factor, savedFactor>>
        \/ \E c \in Cpu : SetupClock(c) \/ RestoreClock(c)
    BY Steps, InterruptsKeep DEF ModuleUnload, Script, Apic, SetApicIpi, DisableIntercept,
       EnableIntercept, RestoreApicIpi, Operator, SetupHypercall, SetupStart,
       RestoreHypercall, RestoreStart, Rearm, SetX2apicId, RestoreX2apicId, clockVars, vars
  <2> QED
    BY <2>1, <2>2, <2>3, <2>4, <2>5
<1>3. DidInv /\ Factors => LeavesNothing
  BY DEF DidInv, Factors, Places, Place, Plain, ApicInv, ApicPhases, IcrPhases, IdPhases,
     LeavesNothing
<1> QED
  BY <1>1, <1>2, <1>3, Invariant, Keeps, PTL DEF Spec

\* No NULL handler, none that calls itself and no NULL descriptor, whatever is
\* interrupted: with IPIs, when the host sets up every CPU and no sender is delayed
\* over a step of the script; without them, always.
THEOREM NothingFaults ==
    ASSUME WithIpi => ~Delayed /\ "setup" \notin HcFail
    PROVE  Spec => []NoOops
<1>1. Init => NoOops
  BY DEF Init, NoOops
<1>2. DidInv /\ NoOops /\ [Next]_vars => NoOops'
  <2> SUFFICES ASSUME DidInv, NoOops, [Next]_vars PROVE NoOops'
    OBVIOUS
  <2>1. ASSUME NEW c \in Cpu, TimerInterrupt(c) PROVE UNCHANGED fault
    <3>1. CASE handler[c] = "native"
      BY <2>1, <3>1 DEF TimerInterrupt
    <3>2. CASE handler[c] = "did"
      <4>1. saved[c] = "native"
        BY <3>2, HookedIsSaved
      <4> QED
        BY <2>1, <3>2, <4>1 DEF TimerInterrupt, CallsSaved
    <3> QED
      BY <3>1, <3>2 DEF DidInv, DidTypes
  <2>2. ASSUME NEW c \in Cpu, TimerChecks(c) PROVE UNCHANGED fault
    <3>1. saved[c] = "native"
      BY <2>2 DEF TimerChecks, DidInv, Handlers
    <3> QED
      BY <2>2, <3>1 DEF TimerChecks, CallsSaved
  <2>3. ASSUME NEW c \in Cpu, NEW t \in Cpu, SenderReadsWord(c, t) PROVE UNCHANGED fault
    <3>1. pc[c] # "run"
      BY <2>3 DEF SenderReadsWord
    <3>2. WithIpi /\ phase \in ApicPhases
      BY <3>1 DEF DidInv, Senders
    <3>3. Ready(t)
      BY <3>2 DEF DidInv, Places, Place, ApicPhases
    <3>4. start[t]
      BY <3>2, <3>3 DEF Ready, SetUp
    <3> QED
      BY <2>3, <3>4 DEF SenderReadsWord
  <2>4. \/ UNCHANGED fault
        \/ \E c \in Cpu : \/ TimerInterrupt(c) \/ TimerChecks(c)
                          \/ \E t \in Cpu : SenderReadsWord(c, t)
    <3>1. ASSUME NEW c \in Cpu, Interrupt(c)
          PROVE  \/ UNCHANGED fault \/ TimerInterrupt(c) \/ TimerChecks(c)
                 \/ \E t \in Cpu : SenderReadsWord(c, t)
      BY <3>1 DEF Interrupt, TimerHandler, Sender, TimerFires, TakeRequests, HostPosts,
         KickTimer, SendIpi, TimerReadsWord, TimerWritesWord, SenderWritesWord, SenderNotifies
    <3>2. ASSUME NEW c \in Cpu, Operator(c) PROVE UNCHANGED fault
      BY <3>2 DEF Operator, SetupHypercall, SetupClock, SetupStart, RestoreHypercall,
         RestoreClock, RestoreStart, Rearm, SetX2apicId, RestoreX2apicId
    <3>3. CASE ModuleLoad \/ ModuleUnload \/ Script \/ Apic \/ UNCHANGED vars
      BY <3>3 DEF ModuleLoad, ModuleUnload, Script, Apic, SetApicIpi, DisableIntercept,
         EnableIntercept, RestoreApicIpi, vars
    <3> QED
      BY <3>1, <3>2, <3>3, Steps
  <2> QED
    BY <2>1, <2>2, <2>3, <2>4 DEF NoOops
<1> QED
  BY <1>1, <1>2, Invariant, PTL DEF Spec

-----------------------------------------------------------------------------
(* The timer's request *)

Words == /\ pir \in [Cpu -> SUBSET Vector] /\ irr \in [Cpu -> SUBSET Vector]
         /\ word \in [Cpu -> SUBSET Vector]

LEMMA NobodySends ==
    ASSUME ~WithIpi, DidInv, NEW c \in Cpu, Interrupt(c)
    PROVE  \/ TimerFires(c) \/ TakeRequests(c) \/ TimerHandler(c)
           \/ \E v \in Vec : HostPosts(c, v)
<1>1. pc[c] = "run" /\ apicFn = "native"
  BY DEF DidInv, Senders, ApicInv
<1> QED
  BY <1>1 DEF Interrupt, Sender, SenderReadsWord, SenderWritesWord, SenderNotifies,
     KickTimer, SendIpi, Sends

LEMMA WordsHold ==
    ASSUME ~WithIpi, DidInv, Words, [Next]_vars
    PROVE  Words'
<1> USE DEF Words, Vector
<1>1. ASSUME NEW c \in Cpu, Interrupt(c) PROVE Words'
  <2>1. CASE TimerFires(c)
    BY <2>1 DEF TimerFires, cpuVars
  <2>2. CASE TakeRequests(c)
    BY <2>2 DEF TakeRequests, cpuVars
  <2>3. CASE \E v \in Vec : HostPosts(c, v)
    BY <2>3 DEF HostPosts, cpuVars
  <2>4. CASE TimerInterrupt(c)
    BY <2>4 DEF TimerInterrupt
  <2>5. CASE TimerReadsWord(c)
    BY <2>5 DEF TimerReadsWord, pirVars
  <2>6. CASE TimerWritesWord(c)
    BY <2>6 DEF TimerWritesWord
  <2>7. CASE TimerChecks(c)
    BY <2>7 DEF TimerChecks, pirVars
  <2> QED
    BY <1>1, <2>1, <2>2, <2>3, <2>4, <2>5, <2>6, <2>7, NobodySends DEF TimerHandler
<1>2. ASSUME NEW c \in Cpu, Operator(c) PROVE Words'
  <2>1. UNCHANGED <<irr, word>>
    BY <1>2 DEF Operator, SetupHypercall, SetupClock, SetupStart, RestoreHypercall,
       RestoreClock, RestoreStart, Rearm, SetX2apicId, RestoreX2apicId, pirVars, cpuVars
  <2>2. UNCHANGED pir \/ pir' = [pir EXCEPT ![c] = @ \cup {Timer}]
    BY <1>2 DEF Operator, SetupHypercall, SetupClock, SetupStart, RestoreHypercall,
       RestoreClock, RestoreStart, Rearm, SetX2apicId, RestoreX2apicId, pirVars
  <2> QED
    BY <2>1, <2>2
<1>3. CASE ModuleLoad \/ ModuleUnload \/ Script \/ Apic \/ UNCHANGED vars
  BY <1>3 DEF ModuleLoad, ModuleUnload, Script, Apic, SetApicIpi, DisableIntercept,
     EnableIntercept, RestoreApicIpi, vars, pirVars, cpuVars
<1> QED
  BY <1>1, <1>2, <1>3, Steps

\* The read and the write of the handler's __set_bit, the processor taking the
\* requests and the script in any order: without IPIs the timer's request is never
\* lost, on any number of CPUs and with any number of device interrupts.
THEOREM TheRequestStays ==
    ASSUME ~WithIpi
    PROVE  Spec => []TimerRequestKept
<1>1. Init => Words /\ TimerRequestKept
  BY DEF Init, Words, Idle, TimerRequestKept
<1>2. DidInv /\ Words /\ TimerRequestKept /\ [Next]_vars => TimerRequestKept'
  <2> SUFFICES ASSUME DidInv, Words, TimerRequestKept, [Next]_vars PROVE TimerRequestKept'
    OBVIOUS
  <2> USE DEF TimerRequestKept
  <2>1. ASSUME NEW c \in Cpu, Interrupt(c) PROVE TimerRequestKept'
    <3>1. UNCHANGED <<start, dtid>>
      BY <2>1, InterruptsKeep DEF clockVars
    <3>2. CASE TimerFires(c)
      BY <3>1, <3>2 DEF TimerFires, cpuVars, Words
    <3>3. CASE TakeRequests(c)
      BY <3>1, <3>3 DEF TakeRequests, cpuVars, Words
    <3>4. CASE \E v \in Vec : HostPosts(c, v)
      BY <3>1, <3>4 DEF HostPosts, cpuVars, Words
    <3>5. CASE TimerInterrupt(c)
      <4>1. start[c] /\ dtid[c] => handler[c] = "did"
        BY DEF DidInv, Places, Place, Plain, Called, Clocked, Ready, SetUp, Released,
           Unclocked, Hooked, DidTypes, Phases, TimerPhases, IpiPhases
      <4>2. start[c] /\ dtid[c] => isr'[c] = "read"
        BY <3>5, <4>1 DEF TimerInterrupt, DidInv, DidTypes
      <4>3. /\ UNCHANGED pir
            /\ \A d \in Cpu \ {c} : irr'[d] = irr[d] /\ isr'[d] = isr[d]
        BY <3>5 DEF TimerInterrupt, Words, DidInv, DidTypes
      <4> QED
        BY <3>1, <4>2, <4>3
    <3>6. CASE TimerReadsWord(c)
      BY <3>1, <3>6 DEF TimerReadsWord, pirVars, DidInv, DidTypes
    <3>7. CASE TimerWritesWord(c)
      BY <3>1, <3>7 DEF TimerWritesWord, Words, DidInv, DidTypes
    <3>8. CASE TimerChecks(c)
      BY <3>1, <3>8 DEF TimerChecks, pirVars, DidInv, DidTypes
    <3> QED
      BY <2>1, <3>2, <3>3, <3>4, <3>5, <3>6, <3>7, <3>8, NobodySends DEF TimerHandler
  <2>2. ASSUME NEW c \in Cpu, SetupStart(c) PROVE TimerRequestKept'
    BY <2>2 DEF SetupStart, cpuVars, Words, DidInv, DidTypes
  <2>3. ASSUME NEW c \in Cpu, SetupHypercall(c) PROVE TimerRequestKept'
    <3>1. ~start[c] /\ UNCHANGED <<start, pir, irr, isr>>
      BY <2>3, DidAssumption DEF SetupHypercall, DidInv, Places, Place, Plain, clockVars,
         pirVars, cpuVars, None
    <3>2. \A d \in Cpu \ {c} : dtid'[d] = dtid[d]
      BY <2>3 DEF SetupHypercall, DidInv, DidTypes
    <3> QED
      BY <3>1, <3>2
  <2>4. ASSUME NEW c \in Cpu, Operator(c), ~SetupStart(c), ~SetupHypercall(c)
        PROVE  TimerRequestKept'
    <3>1. UNCHANGED <<pir, irr, isr>>
      BY <2>4 DEF Operator, SetupClock, RestoreHypercall, RestoreClock, RestoreStart,
         Rearm, SetX2apicId, RestoreX2apicId, pirVars, cpuVars
    <3>2. UNCHANGED dtid \/ dtid' = [dtid EXCEPT ![c] = FALSE]
      BY <2>4 DEF Operator, SetupClock, RestoreHypercall, RestoreClock, RestoreStart,
         Rearm, SetX2apicId, RestoreX2apicId
    <3>3. UNCHANGED start \/ start' = [start EXCEPT ![c] = FALSE]
      BY <2>4 DEF Operator, SetupClock, RestoreHypercall, RestoreClock, RestoreStart,
         Rearm, SetX2apicId, RestoreX2apicId, clockVars
    <3>4. \A d \in Cpu : start'[d] /\ dtid'[d] => start[d] /\ dtid[d]
      BY <3>2, <3>3 DEF DidInv, DidTypes
    <3> QED
      BY <3>1, <3>4
  <2>5. CASE ModuleLoad
    <3>1. \A c \in Cpu : ~start'[c]
      BY <2>5 DEF ModuleLoad
    <3> QED
      BY <3>1
  <2>6. CASE ModuleUnload \/ Script \/ Apic \/ UNCHANGED vars
    BY <2>6 DEF ModuleUnload, Script, Apic, SetApicIpi, DisableIntercept, EnableIntercept,
       RestoreApicIpi, vars, clockVars, pirVars, cpuVars
  <2> QED
    BY <2>1, <2>2, <2>3, <2>4, <2>5, <2>6, Steps
<1> QED
  BY <1>1, <1>2, Invariant, WordsHold, PTL DEF Spec
-----------------------------------------------------------------------------
(* The CPUs an IPI is for *)

IpiType == [vec : Vector, dest : SUBSET Cpu, now : Cpu, wake : SUBSET Cpu]

\* How far the script has come with the ids, when the host does not intercept.
IdsPlaced ==
    /\ WithIpi /\ phase \in IcrPhases => ~intercept
    /\ phase = "setId" => \A c \in Cpu \ todo : id[c] = "physical"
    /\ WithIpi /\ phase \in {"kickIpi", "on"} => \A c \in Cpu : id[c] = "physical"

IdsInv == ipi \in [Cpu -> IpiType] /\ intercept \in BOOLEAN /\ IdsPlaced

LEMMA IpiTypes ==
    ASSUME DidInv, IdsInv, [Next]_vars
    PROVE  ipi' \in [Cpu -> IpiType]
<1>1. ASSUME NEW c \in Cpu, Interrupt(c)
      PROVE  UNCHANGED ipi \/ \E m \in IpiType : ipi' = [ipi EXCEPT ![c] = m]
  <2>1. CASE \E d \in Cpu : KickTimer(c, d)
    <3>1. PICK d \in Cpu :
             ipi' = [ipi EXCEPT ![c] = [vec |-> Timer, dest |-> {d}, now |-> c, wake |-> {d}]]
      BY <2>1 DEF KickTimer, Sends
    <3> QED
      BY <3>1 DEF IpiType, Vector
  <2>2. CASE \E v \in Vec, ds, ns \in SUBSET Cpu \ {{}} : SendIpi(c, v, ds, ns)
    <3>1. PICK v \in Vec, ds \in SUBSET Cpu, ns \in SUBSET Cpu :
             ipi' = [ipi EXCEPT ![c] = [vec |-> v, dest |-> ds, now |-> c, wake |-> ns]]
      BY <2>2 DEF SendIpi, Sends
    <3> QED
      BY <3>1 DEF IpiType, Vector
  <2>3. CASE \E t \in Cpu : SenderReadsWord(c, t)
    <3>1. PICK t \in Cpu : SenderReadsWord(c, t)
      BY <2>3
    <3> DEFINE m == [ipi[c] EXCEPT !.dest = @ \ {t}, !.now = t]
    <3>2. m \in IpiType
      <4> DEFINE i == ipi[c]
      <4>1. i \in IpiType
        BY DEF IdsInv
      <4> HIDE DEF i
      <4>2. [i EXCEPT !.dest = @ \ {t}, !.now = t] \in IpiType
        BY <4>1 DEF IpiType
      <4> QED
        BY <4>2 DEF i
    <3>3. UNCHANGED ipi \/ ipi' = [ipi EXCEPT ![c] = m]
      BY <3>1 DEF SenderReadsWord, IdsInv
    <3> QED
      BY <3>2, <3>3
  <2>4. CASE SenderNotifies(c)
    BY <2>4 DEF SenderNotifies, NoIpi, IpiType, Vector
  <2> QED
    BY <1>1, <2>1, <2>2, <2>3, <2>4 DEF Interrupt, Sender, TimerFires, TakeRequests, HostPosts,
       TimerHandler, TimerInterrupt, TimerReadsWord, TimerWritesWord, TimerChecks,
       SenderWritesWord, cpuVars
<1>2. CASE \E c \in Cpu : Interrupt(c)
  BY <1>1, <1>2 DEF IdsInv
<1>3. CASE ModuleLoad \/ ModuleUnload \/ Script \/ Apic \/ UNCHANGED vars
  BY <1>3 DEF ModuleLoad, ModuleUnload, Script, Apic, SetApicIpi, DisableIntercept,
     EnableIntercept, RestoreApicIpi, vars, cpuVars, IdsInv
<1>4. CASE \E c \in Cpu : Operator(c)
  BY <1>4 DEF Operator, SetupHypercall, SetupClock, SetupStart, RestoreHypercall,
     RestoreClock, RestoreStart, Rearm, SetX2apicId, RestoreX2apicId, cpuVars, IdsInv
<1> QED
  BY <1>2, <1>3, <1>4, Steps

LEMMA InterceptType ==
    ASSUME IdsInv, [Next]_vars
    PROVE  intercept' \in BOOLEAN
<1>1. CASE UNCHANGED intercept
  BY <1>1 DEF IdsInv
<1>2. CASE DisableIntercept \/ EnableIntercept
  BY <1>2 DEF DisableIntercept, EnableIntercept
<1>3. UNCHANGED intercept \/ DisableIntercept \/ EnableIntercept
  BY Steps, InterruptsKeep DEF ModuleLoad, ModuleUnload, Script, Apic, SetApicIpi,
     RestoreApicIpi, Operator, SetupHypercall, SetupClock, SetupStart, RestoreHypercall,
     RestoreClock, RestoreStart, Rearm, SetX2apicId, RestoreX2apicId, apicVars, vars
<1> QED
  BY <1>1, <1>2, <1>3

LEMMA IdsPlacedHolds ==
    ASSUME DidInv, IdsPlaced, [Next]_vars
    PROVE  IdsPlaced'
<1> USE DEF IdsPlaced
<1>1. CASE UNCHANGED <<phase, todo, id, intercept>>
  BY <1>1
<1>2. CASE Script
  <2>1. UNCHANGED <<id, intercept>>
    BY <1>2 DEF Script, apicVars
  <2>2. WithIpi /\ phase' \in IcrPhases => phase \in IcrPhases
    <3>1. CASE Disable
      BY <3>1 DEF Disable, ScriptGoes, IcrPhases
    <3>2. CASE ~Disable
      BY <1>2, <3>2 DEF Script, ScriptGoes, IcrPhases, Enable, EnableTimer, EnableIpi,
         KickByIpi, Enabled, RestoredIds, RearmAll, Disabled, DidInv, DidTypes, IpiPhases,
         Phases
    <3> QED
      BY <3>1, <3>2
  <2>3. phase' # "setId"
    BY <1>2 DEF Script, ScriptGoes, Enable, EnableTimer, EnableIpi,
         KickByIpi, Enabled, Disable, RestoredIds, RearmAll, Disabled
  <2>4. WithIpi /\ phase' \in {"kickIpi", "on"}
           => (phase = "setId" /\ todo = {}) \/ phase = "kickIpi"
    BY <1>2 DEF Script, ScriptGoes, Enable, EnableTimer, EnableIpi,
         KickByIpi, Enabled, Disable, RestoredIds, RearmAll, Disabled, DidInv, DidTypes,
         IpiPhases, Phases
  <2> QED
    BY <2>1, <2>2, <2>3, <2>4
<1>3. CASE Apic
  <2>1. CASE SetApicIpi
    BY <2>1 DEF SetApicIpi, IcrPhases
  <2>2. CASE DisableIntercept
    BY <2>2 DEF DisableIntercept
  <2>3. CASE EnableIntercept
    BY <2>3 DEF EnableIntercept, IcrPhases
  <2>4. CASE RestoreApicIpi
    BY <2>4 DEF RestoreApicIpi, IcrPhases
  <2> QED
    BY <1>3, <2>1, <2>2, <2>3, <2>4 DEF Apic
<1>4. ASSUME NEW c \in Cpu, Operator(c) PROVE IdsPlaced'
  <2>1. CASE SetX2apicId(c)
    BY <2>1 DEF SetX2apicId, DidInv, DidTypes
  <2>2. CASE RestoreX2apicId(c)
    BY <2>2 DEF RestoreX2apicId
  <2>3. CASE ~SetX2apicId(c) /\ ~RestoreX2apicId(c)
    <3>1. UNCHANGED <<phase, id, intercept>> /\ phase # "setId"
      BY <1>4, <2>3, DidAssumption DEF Operator, SetupHypercall, SetupClock, SetupStart, RestoreHypercall,
         RestoreClock, RestoreStart, Rearm, apicVars
    <3> QED
      BY <3>1
  <2> QED
    BY <2>1, <2>2, <2>3
<1>5. ASSUME NEW c \in Cpu, Interrupt(c) PROVE IdsPlaced'
  BY <1>5, InterruptsKeep DEF apicVars
<1>6. CASE ModuleLoad \/ ModuleUnload \/ UNCHANGED vars
  BY <1>1, <1>6 DEF ModuleLoad, ModuleUnload, apicVars, vars, scriptVars
<1> QED
  BY <1>2, <1>3, <1>4, <1>5, <1>6, Steps

\* A CPU that is sent an IPI through the module is notified, but for the phases in which the
\* script switches the ids and the intercept: the host translates ids exactly while they
\* are virtual, on any number of CPUs, and with senders delayed as long as they may be.
THEOREM IpisArrive == Spec => IpisReachTheirCpus
<1>1. Init => IdsInv
  <2> SUFFICES ASSUME Init PROVE IdsInv
    OBVIOUS
  <2>1. ipi \in [Cpu -> IpiType]
    BY DEF Init, NoIpi, IpiType, Vector
  <2> QED
    BY <2>1 DEF Init, IdsInv, IdsPlaced, IcrPhases
<1>2. ASSUME DidInv, IdsInv, NEW c \in Cpu, SenderNotifies(c),
             phase \notin {"setId", "restoreId", "icr"}, NEW t \in ipi[c].wake
      PROVE  notified'[t]
  <2>1. t \in Cpu
    BY <1>2 DEF IdsInv, IpiType
  <2>2. CASE WithIpi /\ phase \in {"kickIpi", "on"}
    <3>1. ~intercept /\ intercept \in BOOLEAN /\ id[t] # "virtual"
      BY <1>2, <2>1, <2>2 DEF IdsInv, IdsPlaced, IcrPhases
    <3>2. Reaches(t)
      BY <3>1, Zenon DEF Reaches
    <3> QED
      BY <1>2, <2>1, <3>2 DEF SenderNotifies
  <2>3. CASE ~(WithIpi /\ phase \in {"kickIpi", "on"})
    <3>1. intercept /\ intercept \in BOOLEAN /\ id[t] = "virtual"
      BY <1>2, <2>1, <2>3 DEF DidInv, ApicInv, IdsInv, IcrPhases, IdPhases
    <3>2. Reaches(t)
      BY <3>1, Zenon DEF Reaches
    <3> QED
      BY <1>2, <2>1, <3>2 DEF SenderNotifies
  <2> QED
    BY <2>2, <2>3
<1>3. DidInv /\ IdsInv /\ [Next]_vars
        => [\A c \in Cpu : SenderNotifies(c) /\ phase \notin {"setId", "restoreId", "icr"}
              => \A t \in ipi[c].wake : notified'[t]]_vars
  BY <1>2
<1>4. DidInv /\ IdsInv /\ [Next]_vars => IdsInv'
  BY IpiTypes, InterceptType, IdsPlacedHolds DEF IdsInv
<1> QED
  BY <1>1, <1>3, <1>4, Invariant, PTL DEF Spec, IpisReachTheirCpus

=============================================================================
