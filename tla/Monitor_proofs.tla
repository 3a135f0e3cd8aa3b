----------------------------- MODULE Monitor_proofs -----------------------------
(***************************************************************************)
(* Limited events keep their rate, for all subjects, values and rates.     *)
(* The clock and the timers are two counts of the same time: the ticks     *)
(* since the last emission of a subject and the ticks left of its key's    *)
(* timer are at least Rate together, and a key without a timer has been    *)
(* silent for Rate.                                                        *)
(*                                                                         *)
(* The human monitor reads and writes as MonitorHmp promises, whatever the *)
(* order of focus, connections, commands and migrations.  The invariant    *)
(* counts the reasons for a suspension: a lost focus and a waiting migrate *)
(* are one each, and nothing waits or prints before the first connection.  *)
(***************************************************************************)
EXTENDS Monitor, TLAPS

Types ==
    /\ timer \in [Key -> Int] /\ \A k \in Key : timer[k] \in 0..Rate \cup {Off}
    /\ gap \in [Subject -> Nat] /\ \A s \in Subject : gap[s] <= Rate
    /\ stored \in [Key -> Event \cup {None}]
    /\ firing \in Key \cup {None}

StoredByKey == \A k \in Key : stored[k] # None => KeyOf(stored[k].about) = k

Spaced ==
    \A s \in Subject :
        IF timer[KeyOf(s)] = Off THEN gap[s] = Rate ELSE gap[s] + timer[KeyOf(s)] >= Rate

FiringIsOff == firing # None => timer[firing] = Off

RateInv == Types /\ StoredByKey /\ Spaced /\ FiringIsOff /\ rushed = FALSE

LEMMA KeyOfSubject == ASSUME NEW s \in Subject PROVE KeyOf(s) \in Key
  BY DEF Key

LEMMA RateInvInit == Init => RateInv
  BY RateAssumption, KeyOfSubject
     DEF Init, RateInv, Types, StoredByKey, Spaced, FiringIsOff, Off

\* An emission whose key has no timer is not rushed, if the timer is armed with it.
LEMMA EmitKeepsRate ==
    ASSUME RateInv, NEW e \in Event, NEW due, Emit(e, due), timer[KeyOf(e.about)] = Off,
           timer' = [timer EXCEPT ![KeyOf(e.about)] = Rate]
    PROVE  /\ timer' \in [Key -> Int] /\ \A k \in Key : timer'[k] \in 0..Rate \cup {Off}
           /\ gap' \in [Subject -> Nat] /\ \A s \in Subject : gap'[s] <= Rate
           /\ Spaced' /\ rushed' = FALSE
<1> DEFINE s0 == e.about
           k0 == KeyOf(e.about)
<1>0. s0 \in Subject /\ k0 \in Key
  BY KeyOfSubject DEF Event
<1>1. gap[s0] = Rate
  BY <1>0 DEF RateInv, Spaced
<1>2. rushed' = FALSE
  <2>1. ~(gap[s0] < Rate)
    BY <1>1, RateAssumption
  <2>2. rushed' = (rushed \/ gap[s0] < Rate) /\ rushed = FALSE
    BY DEF Emit, RateInv
  <2> QED BY <2>1, <2>2, Zenon
<1>3. gap' = [gap EXCEPT ![s0] = 0]
  BY DEF Emit
<1>4. /\ timer' \in [Key -> Int] /\ \A k \in Key : timer'[k] \in 0..Rate \cup {Off}
      /\ gap' \in [Subject -> Nat] /\ \A s \in Subject : gap'[s] <= Rate
  <2>1. timer' \in [Key -> Int]
    BY <1>0, RateAssumption DEF RateInv, Types
  <2>2. ASSUME NEW k \in Key PROVE timer'[k] \in 0..Rate \cup {Off}
    <3>1. timer'[k] = IF k = k0 THEN Rate ELSE timer[k]
      BY <1>0 DEF RateInv, Types
    <3> QED BY <3>1, RateAssumption DEF RateInv, Types
  <2>3. gap' \in [Subject -> Nat] /\ \A s \in Subject : gap'[s] <= Rate
    BY <1>0, <1>3, RateAssumption DEF RateInv, Types
  <2> QED BY <2>1, <2>2, <2>3
<1>5. ASSUME NEW s \in Subject
      PROVE  IF timer'[KeyOf(s)] = Off THEN gap'[s] = Rate
             ELSE gap'[s] + timer'[KeyOf(s)] >= Rate
  <2>1. KeyOf(s) \in Key
    BY KeyOfSubject
  <2>2. CASE KeyOf(s) = k0
    <3>1. timer'[KeyOf(s)] = Rate /\ Rate # Off
      BY <2>1, <2>2, RateAssumption DEF RateInv, Types, Off
    <3>2. gap'[s] \in Nat
      BY <1>4
    <3> QED BY <3>1, <3>2, RateAssumption
  <2>3. CASE KeyOf(s) # k0
    <3>1. s # s0
      BY <2>3
    <3>2. timer'[KeyOf(s)] = timer[KeyOf(s)] /\ gap'[s] = gap[s]
      BY <1>3, <2>1, <2>3, <3>1 DEF RateInv, Types
    <3> QED BY <3>2 DEF RateInv, Spaced
  <2> QED BY <2>2, <2>3
<1> QED BY <1>2, <1>4, <1>5 DEF Spaced

LEMMA TickKeeps == ASSUME RateInv, Tick PROVE RateInv'
<1>1. \A k \in Key : timer'[k] = IF timer[k] \in {Off, 0} THEN timer[k] ELSE timer[k] - 1
  BY DEF Tick
<1>2. \A s \in Subject : gap'[s] = IF gap[s] = Rate THEN Rate ELSE gap[s] + 1
  BY DEF Tick
<1>3. Types'
  BY <1>1, <1>2, RateAssumption DEF Tick, RateInv, Types, Off
<1>4. StoredByKey' /\ rushed' = FALSE
  BY DEF Tick, RateInv, StoredByKey
<1>5. FiringIsOff'
  BY <1>1 DEF Tick, RateInv, FiringIsOff, Types
<1>6. ASSUME NEW s \in Subject
      PROVE  IF timer'[KeyOf(s)] = Off THEN gap'[s] = Rate
             ELSE gap'[s] + timer'[KeyOf(s)] >= Rate
  <2> DEFINE t == timer[KeyOf(s)]
  <2>1. KeyOf(s) \in Key
    BY KeyOfSubject
  <2>2. t \in Int /\ t \in 0..Rate \cup {Off} /\ gap[s] \in Nat /\ gap[s] <= Rate
    BY <2>1 DEF RateInv, Types
  <2>3. IF t = Off THEN gap[s] = Rate ELSE gap[s] + t >= Rate
    BY DEF RateInv, Spaced
  <2>4. timer'[KeyOf(s)] = IF t \in {Off, 0} THEN t ELSE t - 1
    BY <1>1, <2>1
  <2>5. gap'[s] = IF gap[s] = Rate THEN Rate ELSE gap[s] + 1
    BY <1>2
  <2> HIDE DEF t
  <2> QED BY <2>2, <2>3, <2>4, <2>5, RateAssumption DEF Off
<1> QED BY <1>3, <1>4, <1>5, <1>6 DEF RateInv, Spaced

LEMMA RateInvNext == RateInv /\ [Next]_vars => RateInv'
<1> SUFFICES ASSUME RateInv, [Next]_vars PROVE RateInv'
  OBVIOUS
<1>1. CASE Opened \/ Capabilities \/ Closed
  BY <1>1 DEF Opened, Capabilities, Closed, limits, history, RateInv, Types, StoredByKey,
              Spaced, FiringIsOff
<1>2. CASE Tick
  BY <1>2, TickKeeps
<1>3. CASE Handler
  <2>1. CASE HandlerEmits
    <3> DEFINE e == stored[firing]
    <3>1. firing \in Key /\ e \in Event /\ KeyOf(e.about) = firing
      BY <2>1 DEF HandlerEmits, RateInv, Types, StoredByKey
    <3>2. timer[KeyOf(e.about)] = Off
      BY <2>1, <3>1 DEF HandlerEmits, RateInv, FiringIsOff
    <3>3. Emit(e, owed) /\ timer' = [timer EXCEPT ![KeyOf(e.about)] = Rate]
      BY <2>1, <3>1 DEF HandlerEmits
    <3>4. /\ timer' \in [Key -> Int] /\ \A k \in Key : timer'[k] \in 0..Rate \cup {Off}
          /\ gap' \in [Subject -> Nat] /\ \A s \in Subject : gap'[s] <= Rate
          /\ Spaced' /\ rushed' = FALSE
      <4> HIDE DEF e
      <4> QED BY <3>1, <3>2, <3>3, EmitKeepsRate
    <3>5. stored' \in [Key -> Event \cup {None}] /\ StoredByKey'
      BY <2>1 DEF HandlerEmits, RateInv, Types, StoredByKey
    <3>6. firing' = None
      BY <1>3 DEF Handler
    <3> QED BY <3>4, <3>5, <3>6 DEF RateInv, Types, FiringIsOff
  <2>2. CASE HandlerEnds
    BY <1>3, <2>2 DEF Handler, HandlerEnds, history, RateInv, Types, StoredByKey, Spaced,
                      FiringIsOff
  <2> QED BY <1>3, <2>1, <2>2 DEF Handler
<1>4. ASSUME NEW e \in Event, Raise(e) PROVE RateInv'
  <2>1. KeyOf(e.about) \in Key /\ UNCHANGED firing /\ firing # KeyOf(e.about)
    BY <1>4, KeyOfSubject DEF Raise, Event
  <2>2. CASE Stores(e)
    BY <2>1, <2>2 DEF Stores, RateInv, Types, StoredByKey, Spaced, FiringIsOff
  <2>3. CASE EmitsFirst(e)
    <3>1. /\ timer' \in [Key -> Int] /\ \A k \in Key : timer'[k] \in 0..Rate \cup {Off}
          /\ gap' \in [Subject -> Nat] /\ \A s \in Subject : gap'[s] <= Rate
          /\ Spaced' /\ rushed' = FALSE
      BY <2>3, EmitKeepsRate DEF EmitsFirst
    <3>2. UNCHANGED stored
      BY <2>3 DEF EmitsFirst
    <3>3. FiringIsOff'
      BY <2>1, <2>3 DEF EmitsFirst, RateInv, Types, FiringIsOff
    <3> QED BY <2>1, <3>1, <3>2, <3>3 DEF RateInv, Types, StoredByKey
  <2> QED BY <1>4, <2>2, <2>3 DEF Raise
<1>5. ASSUME NEW e \in Event, RaiseAborts(e) PROVE RateInv'
  BY <1>5 DEF RaiseAborts, limits, history, RateInv, Types, StoredByKey, Spaced, FiringIsOff
<1>6. ASSUME NEW k \in Key, TimerFires(k) PROVE RateInv'
  <2>1. UNCHANGED <<stored, gap, rushed>> /\ firing' = k /\ timer[k] = 0
        /\ timer' = [timer EXCEPT ![k] = Off]
    BY <1>6 DEF TimerFires, history
  <2>2. Types' /\ StoredByKey' /\ FiringIsOff' /\ rushed' = FALSE
    BY <2>1 DEF RateInv, Types, StoredByKey, FiringIsOff, Off
  <2>3. ASSUME NEW s \in Subject
        PROVE  IF timer'[KeyOf(s)] = Off THEN gap'[s] = Rate
               ELSE gap'[s] + timer'[KeyOf(s)] >= Rate
    <3>1. KeyOf(s) \in Key /\ gap[s] \in Nat /\ gap[s] <= Rate
      BY KeyOfSubject DEF RateInv, Types
    <3>2. CASE KeyOf(s) = k
      BY <2>1, <3>1, <3>2, RateAssumption DEF RateInv, Types, Spaced, Off
    <3>3. CASE KeyOf(s) # k
      BY <2>1, <3>1, <3>3 DEF RateInv, Types, Spaced
    <3> QED BY <3>2, <3>3
  <2> QED BY <2>2, <2>3 DEF RateInv, Spaced
<1>7. CASE UNCHANGED vars
  BY <1>7 DEF vars, limits, history, RateInv, Types, StoredByKey, Spaced, FiringIsOff
<1> QED BY <1>1, <1>2, <1>3, <1>4, <1>5, <1>6, <1>7 DEF Next

\* Of one subject no two events are emitted within Rate, for every Rate, every set of
\* subjects and with threads that raise events at any time.
THEOREM RateIsKept == Spec => []RateKept
<1>1. RateInv => RateKept
  BY DEF RateInv, RateKept
<1> QED BY <1>1, RateInvInit, RateInvNext, PTL DEF Spec

-----------------------------------------------------------------------------
(* The human monitor *)

InputTypes ==
    /\ opened \in BOOLEAN /\ focus \in BOOLEAN /\ mux_out \in BOOLEAN
    /\ reset_seen \in BOOLEAN /\ waits \subseteq {"hmp"}

OutputTypes == outbuf \in BOOLEAN /\ out_watch \in BOOLEAN

Counted ==
    /\ focus /\ waits = {} => suspend_cnt = 0
    /\ focus /\ waits # {} => suspend_cnt = 1
    /\ ~focus /\ waits = {} => suspend_cnt = 1
    /\ ~focus /\ waits # {} => suspend_cnt = 2

Seen  == opened \/ waits # {} \/ outbuf => reset_seen
Muxed == mux_out <=> ~focus

Rest   == InputTypes /\ OutputTypes /\ Seen /\ Muxed /\ H!OutputFlows
HmpInv == Rest /\ Counted

LEMMA HmpInvInit == H!Init => HmpInv
<1> SUFFICES ASSUME H!Init PROVE HmpInv
  OBVIOUS
<1>1. Rest
  BY DEF H!Init, Rest, InputTypes, OutputTypes, Seen, Muxed, H!OutputFlows
<1>2. Counted
  BY DEF H!Init, Counted
<1> QED BY <1>1, <1>2 DEF HmpInv

\* Output and flags: nothing of it depends on the count.
LEMMA RestNext == ASSUME HmpInv, [H!Next]_(H!vars) PROVE Rest'
<1> USE DEF HmpInv, Rest, InputTypes, OutputTypes, Seen, Muxed, H!OutputFlows
<1>1. CASE H!Opened
  BY <1>1 DEF H!Opened, H!Prints, H!Writes
<1>2. CASE H!Closed
  BY <1>2 DEF H!Closed, H!input, H!output
<1>3. CASE H!MuxIn
  <2>1. InputTypes' /\ Muxed'
    BY <1>3 DEF H!MuxIn
  <2>2. OutputTypes'
    BY <1>3 DEF H!MuxIn, H!Flushes, H!Writes, H!output
  <2>3. Seen'
    BY <1>3 DEF H!MuxIn, H!Flushes, H!Writes, H!output
  <2>4. H!OutputFlows'
    BY <1>3 DEF H!MuxIn, H!Flushes, H!Writes, H!output
  <2> QED BY <2>1, <2>2, <2>3, <2>4
<1>4. CASE H!MuxOut
  <2>1. InputTypes' /\ Muxed'
    BY <1>4 DEF H!MuxOut
  <2>2. OutputTypes'
    BY <1>4 DEF H!MuxOut, H!Flushes, H!Writes, H!output
  <2>3. Seen'
    BY <1>4 DEF H!MuxOut, H!Flushes, H!Writes, H!output
  <2>4. H!OutputFlows'
    BY <1>4 DEF H!MuxOut, H!Flushes, H!Writes, H!output
  <2> QED BY <2>1, <2>2, <2>3, <2>4
<1>5. CASE H!Unblocked
  <2>1. InputTypes' /\ Muxed'
    BY <1>5 DEF H!Unblocked, H!input
  <2>2. OutputTypes'
    BY <1>5 DEF H!Unblocked
  <2>3. Seen'
    BY <1>5 DEF H!Unblocked, H!input
  <2>4. H!OutputFlows'
    BY <1>5 DEF H!Unblocked, H!input
  <2> QED BY <2>1, <2>2, <2>3, <2>4
<1>6. CASE H!Command
  BY <1>6 DEF H!Command, H!MayType, H!Prints, H!Writes, H!input
<1>7. CASE H!StatusCb
  BY <1>7 DEF H!StatusCb, H!Prints, H!Writes
<1>8. CASE H!MigrationGoes
  BY <1>8 DEF H!MigrationGoes, H!input, H!output
<1>9. ASSUME NEW m \in H!Monitors, NEW d \in BOOLEAN, H!Migrate(m, d) PROVE Rest'
  <2>1. CASE m = "hmp"
    BY <1>9, <2>1 DEF H!Migrate, H!MayType, H!CanSuspend, H!Prints, H!Writes
  <2>2. CASE m # "hmp"
    BY <1>9, <2>2 DEF H!Migrate, H!CanSuspend, H!output
  <2> QED BY <2>1, <2>2
<1>10. CASE UNCHANGED H!vars
  BY <1>10 DEF H!vars, H!input, H!output
<1> QED
  BY <1>1, <1>2, <1>3, <1>4, <1>5, <1>6, <1>7, <1>8, <1>9, <1>10 DEF H!Next

\* The count: MUX_IN, MUX_OUT, a migrate that waits and the end of its wait.
LEMMA CountedNext == ASSUME HmpInv, [H!Next]_(H!vars) PROVE Counted'
<1>1. CASE UNCHANGED <<focus, waits, suspend_cnt>>
  BY <1>1 DEF HmpInv, Counted
<1>2. CASE H!MuxIn
  <2>1. UNCHANGED waits /\ ~focus /\ focus'
    BY <1>2, Zenon DEF H!MuxIn
  <2>2. CASE reset_seen /\ H!Resume
    BY <2>1, <2>2 DEF HmpInv, Counted, H!Resume
  <2>3. CASE ~reset_seen /\ suspend_cnt' = 0
    BY <2>1, <2>3 DEF HmpInv, Counted, Rest, Seen
  <2> QED BY <1>2, <2>2, <2>3 DEF H!MuxIn
<1>3. CASE H!MuxOut
  <2>1. UNCHANGED waits /\ focus /\ ~focus' /\ H!Suspend
    BY <1>3, Zenon DEF H!MuxOut
  <2> QED BY <2>1 DEF HmpInv, Counted, H!Suspend
<1>4. CASE H!StatusCb
  <2>1. UNCHANGED focus /\ waits # {}
    BY <1>4, Zenon DEF H!StatusCb
  <2>2. CASE H!Resume /\ waits' = {}
    BY <2>1, <2>2 DEF HmpInv, Counted, H!Resume
  <2> QED BY <1>1, <1>4, <2>1, <2>2 DEF H!StatusCb
<1>5. ASSUME NEW m \in H!Monitors, NEW d \in BOOLEAN, H!Migrate(m, d) PROVE Counted'
  <2>1. CASE m = "hmp" /\ H!Suspend /\ waits' = waits \cup {m}
    <3>1. UNCHANGED focus /\ focus /\ suspend_cnt = 0
      BY <1>5, <2>1, Zenon DEF H!Migrate, H!MayType
    <3>2. suspend_cnt' = 1 /\ waits' # {}
      BY <2>1, <3>1 DEF H!Suspend
    <3> QED BY <3>1, <3>2 DEF Counted
  <2>2. UNCHANGED focus
    BY <1>5 DEF H!Migrate
  <2> QED BY <1>1, <1>5, <2>1, <2>2 DEF H!Migrate, H!CanSuspend
<1> QED
  BY <1>1, <1>2, <1>3, <1>4, <1>5
     DEF H!Next, H!vars, H!input, H!Opened, H!Closed, H!Unblocked, H!Command, H!MigrationGoes

LEMMA HmpInvAlways == H!Spec => []HmpInv
<1>1. HmpInv /\ [H!Next]_(H!vars) => HmpInv'
  BY RestNext, CountedNext DEF HmpInv
<1> QED BY <1>1, HmpInvInit, PTL DEF H!Spec

\* The monitor reads input exactly while it has the focus and no command of its waits,
\* in whatever order focus and migration change.
THEOREM ReadsWhenFree == H!Spec => []ReadsInTurn
<1>1. HmpInv => ReadsInTurn
  BY DEF HmpInv, Counted, ReadsInTurn, H!ReadsInTurn
<1> QED BY <1>1, HmpInvAlways, PTL

\* Output that the device did not take is written when there is room.
THEOREM NothingIsForgotten == H!Spec => []OutputFlows
<1>1. HmpInv => OutputFlows
  BY DEF HmpInv, Rest, OutputFlows
<1> QED BY <1>1, HmpInvAlways, PTL

-----------------------------------------------------------------------------
(* The parts together *)

\* A behaviour of the whole is one of each part.
LEMMA PartsRun == MonitorSpec => Spec /\ H!Spec
<1>1. MonitorInit => Init /\ H!Init
  BY DEF MonitorInit, NoEvents
<1>2. [MonitorNext]_monitorvars => [Next]_vars
  BY DEF MonitorNext, monitorvars, vars
<1>3. [MonitorNext]_monitorvars => [H!Next]_(H!vars)
  BY DEF MonitorNext, monitorvars, hmpvars, H!vars, H!input, H!output
<1> QED
  BY <1>1, <1>2, <1>3, PTL DEF MonitorSpec, Spec, H!Spec

\* What holds of the events and of a human monitor holds of the monitor, where they are
\* side by side.
THEOREM MonitorIsSafe == MonitorSpec => [](RateKept /\ ReadsInTurn /\ OutputFlows)
BY PartsRun, RateIsKept, ReadsWhenFree, NothingIsForgotten, PTL

===============================================================================
