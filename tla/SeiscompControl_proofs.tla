------------------------ MODULE SeiscompControl_proofs ------------------------
(***************************************************************************)
(* Proofs about SeiscompControl, for any set of modules in any order and   *)
(* any failures: the types, that running modules are supervised, and, with *)
(* at most one core module, what stop, start and restart without arguments *)
(* leave behind, and in which order they do it.                            *)
(***************************************************************************)
EXTENDS SeiscompControl, TLAPS

LEMMA TypeInit == Init => TypeOK
BY DEF Init, TypeOK, Ops, Phases

\* A new command chooses a loop and the modules it visits.
LEMMA BeginType ==
  ASSUME TypeOK, NEW o \in Ops, NEW names \in SUBSET Modules,
         NEW invert \in BOOLEAN, Begin(o, names, invert)
  PROVE  TypeOK'
<1> USE CoreAssumption DEF TypeOK, Ops, Phases, files
<1>1. args' \in SUBSET Modules /\ mods' \in SUBSET Modules /\ op' \in Ops
      /\ UNCHANGED <<enabled, runFile, up>>
  BY DEF Begin
<1>2. phase' \in Phases /\ todo' \in SUBSET Modules
  <2>1. CASE o = "start"
    BY <1>1, <2>1 DEF Begin, EnterStart, Enter, FirstCore
  <2>2. CASE o \in {"stop", "restart"}
    BY <1>1, <2>2 DEF Begin, EnterStop, Enter
  <2>3. CASE o = "check"
    BY <1>1, <2>3 DEF Begin, Enter
  <2>4. CASE o \in {"enable", "disable"}
    BY <2>4 DEF Begin, Enter
  <2> QED
    BY <2>1, <2>2, <2>3, <2>4
<1> QED
  BY <1>1, <1>2

\* The end of a loop chooses the next one.
LEMMA LoopEndsType == TypeOK /\ LoopEnds => TypeOK'
<1> SUFFICES ASSUME TypeOK, LoopEnds PROVE TypeOK'
  OBVIOUS
<1> USE CoreAssumption DEF TypeOK, Ops, Phases, files, command, LoopEnds, Enter
<1>1. CASE phase = "stop" /\ args = {}
  BY <1>1 DEF LastCore
<1>2. CASE phase = "startCore"
  BY <1>2
<1>3. CASE phase \in {"stop", "stopCore"} /\ ~(phase = "stop" /\ args = {})
  BY <1>3 DEF EnterStart, FirstCore
<1>4. CASE phase \notin {"stop", "stopCore", "startCore"}
  BY <1>4
<1> QED
  BY <1>1, <1>2, <1>3, <1>4

LEMMA TypeStep == TypeOK /\ [Next]_vars => TypeOK'
<1> SUFFICES ASSUME TypeOK, [Next]_vars PROVE TypeOK'
  OBVIOUS
<1>1. CASE Command
  BY <1>1, BeginType DEF Command
<1>2. CASE LoopEnds
  BY <1>2, LoopEndsType
<1> USE DEF TypeOK, Phases, files, command
<1>3. CASE VisitStop
  BY <1>3 DEF VisitStop, StopModule
<1>4. CASE VisitStart
  BY <1>4 DEF VisitStart, StartModule
<1>5. CASE VisitCheck
  BY <1>5 DEF VisitCheck, Enter
<1>6. CASE VisitEnable
  BY <1>6 DEF VisitEnable, Enter
<1>7. CASE VisitDisable
  BY <1>7 DEF VisitDisable
<1>8. ASSUME NEW m \in Modules, Crash(m) PROVE TypeOK'
  BY <1>8 DEF Crash
<1>9. CASE UNCHANGED vars
  BY <1>9 DEF vars
<1> QED
  BY <1>1, <1>2, <1>3, <1>4, <1>5, <1>6, <1>7, <1>8, <1>9 DEF Next, Script

\* The sets and the command stay what they are said to be, and no kernel module
\* gets a .auto file.
THEOREM TypeCorrectness == Spec => []TypeOK
<1> QED
  BY TypeInit, TypeStep, PTL DEF Spec

-----------------------------------------------------------------------------
\* The steps of the commands keep every running module supervised.
LEMMA SupervisedStep == UpIsSupervised /\ [Next]_vars => UpIsSupervised'
<1> SUFFICES ASSUME UpIsSupervised, [Next]_vars PROVE UpIsSupervised'
  OBVIOUS
<1> USE DEF UpIsSupervised, files, command
<1>1. CASE Command
  BY <1>1 DEF Command, Begin
<1>2. CASE VisitStop
  BY <1>2 DEF VisitStop, StopModule
<1>3. CASE VisitStart
  BY <1>3 DEF VisitStart, StartModule
<1>4. CASE VisitCheck
  BY <1>4 DEF VisitCheck
<1>5. CASE VisitEnable \/ VisitDisable \/ LoopEnds
  BY <1>5 DEF VisitEnable, VisitDisable, LoopEnds
<1>6. ASSUME NEW m \in Modules, Crash(m) PROVE UpIsSupervised'
  BY <1>6 DEF Crash
<1>7. CASE UNCHANGED vars
  BY <1>7 DEF vars
<1> QED
  BY <1>1, <1>2, <1>3, <1>4, <1>5, <1>6, <1>7 DEF Next, Script

\* Whatever handlers raise, a running module has a runfile, or its stop() failed.
THEOREM RunningIsSupervised == Spec => []UpIsSupervised
<1>1. Init => UpIsSupervised
  BY DEF Init, UpIsSupervised
<1> QED
  BY <1>1, SupervisedStep, PTL DEF Spec

-----------------------------------------------------------------------------
OneCore == \A c, d \in Core : c = d

\* Besides S only modules whose stop() failed run or have a runfile.
StopLeaves(S) == /\ up \subseteq S \cup StopRaises \cup StopFails
                 /\ runFile \subseteq S \cup StopRaises

\* What a stop of everything has still to visit when it is in a loop; it goes
\* through the loops of on_stop only.
StopInv ==
    Full /\ op = "stop" =>
        /\ phase \in {"stop", "stopCore", "idle"}
        /\ phase = "stop" => StopLeaves(todo \cup Core)
        /\ phase = "stopCore" => StopLeaves(todo)
        /\ phase = "idle" => StopLeaves({})

LEMMA StopInvStep ==
  ASSUME OneCore, TypeOK, StopInv, [Next]_vars
  PROVE  StopInv'
<1> USE DEF StopInv, StopLeaves, Full, files, command
<1>1. CASE Command
  <2>1. PICK o \in Ops, names \in SUBSET Modules, invert \in BOOLEAN :
          Begin(o, names, invert)
    BY <1>1 DEF Command
  <2>2. SUFFICES ASSUME args' = {}, mods' = Modules, op' = "stop"
                 PROVE  StopInv'
    OBVIOUS
  <2>3. o = "stop"
    BY <2>1, <2>2 DEF Begin
  <2>4. phase' = "stop" /\ todo' = Modules \ Core /\ UNCHANGED <<runFile, up>>
    BY <2>1, <2>2, <2>3 DEF Begin, EnterStop, Enter
  <2> QED
    BY <2>4, CoreAssumption DEF TypeOK
<1>2. CASE VisitStop
  BY <1>2 DEF VisitStop, StopModule
<1>3. CASE VisitStart \/ VisitCheck \/ VisitEnable \/ VisitDisable
  BY <1>3 DEF VisitStart, VisitCheck, VisitEnable, VisitDisable
<1>4. CASE LoopEnds
  <2>1. SUFFICES ASSUME args = {}, mods = Modules, op = "stop",
                        UNCHANGED <<runFile, up>>
                 PROVE  StopInv'
    BY <1>4 DEF LoopEnds
  <2>2. LastCore(Modules) = Core
    BY CoreAssumption, RankAssumption DEF LastCore, OneCore
  <2>3. CASE phase = "stop"
    BY <1>4, <2>1, <2>2, <2>3 DEF LoopEnds, Enter
  <2>4. CASE phase = "stopCore"
    BY <1>4, <2>1, <2>4 DEF LoopEnds, Enter
  <2> QED
    BY <1>4, <2>1, <2>3, <2>4 DEF LoopEnds
<1>5. ASSUME NEW m \in Modules, Crash(m) PROVE StopInv'
  BY <1>5 DEF Crash
<1>6. CASE UNCHANGED vars
  BY <1>6 DEF vars
<1> QED
  BY <1>1, <1>2, <1>3, <1>4, <1>5, <1>6 DEF Next, Script

\* With at most one core module, stop without arguments leaves nothing running
\* but modules whose stop() failed, for any number of modules and any crashes.
THEOREM StopCorrect == ASSUME OneCore PROVE Spec => []StopStopsAll
<1>1. Init => StopInv
  BY DEF Init, StopInv, StopLeaves
<1>2. TypeOK /\ StopInv /\ [Next]_vars => StopInv'
  BY StopInvStep
<1>3. StopInv => StopStopsAll
  BY DEF StopInv, StopLeaves, StopStopsAll
<1> QED
  BY <1>1, <1>2, <1>3, TypeCorrectness, PTL DEF Spec

-----------------------------------------------------------------------------
StopFailed == StopRaises \cup StopFails
StartFailed == Failing \cup StartRaises

\* Every loop belongs to a command, and goes over modules of its kind.
LoopInv ==
    /\ phase \in {"start", "startCore"} => op \in {"start", "restart"}
    /\ phase \in {"stop", "stopCore"} => op \in {"stop", "restart"}
    /\ phase \in {"startCore", "stopCore"} => todo \subseteq Core
    /\ Full /\ phase = "stop" => todo \cap Core = {}
    /\ Full /\ phase = "start" => todo \subseteq enabled

\* A restart of everything has stopped what it does not start.
RestartInv ==
    Full /\ op = "restart" =>
        /\ phase = "stop" => up \subseteq todo \cup Core \cup StopFailed
        /\ phase = "stopCore" => up \subseteq todo \cup StopFailed
        /\ phase = "startCore" => up \subseteq Core \cup StopFailed
        /\ phase \in {"start", "idle"} => up \subseteq Core \cup enabled \cup StopFailed

\* A start or restart of everything has started what is no longer to be visited.
StartInv ==
    Full /\ op \in {"start", "restart"} =>
        /\ phase \in {"stop", "stopCore", "startCore", "start", "idle"}
        /\ phase = "startCore" => Core \subseteq up \cup StartFailed \cup todo
        /\ phase = "start" => /\ Core \subseteq up \cup StartFailed
                              /\ enabled \subseteq up \cup StartFailed \cup todo
        /\ phase = "idle" => Core \cup enabled \subseteq up \cup StartFailed

\* With one core module these are all of them.
LEMMA AllCore ==
  ASSUME OneCore
  PROVE  FirstCore(Modules) = Core /\ LastCore(Modules) = Core
BY CoreAssumption, RankAssumption DEF FirstCore, LastCore, OneCore

LEMMA LoopInvStep == TypeOK /\ LoopInv /\ [Next]_vars => LoopInv'
<1> SUFFICES ASSUME TypeOK, LoopInv, [Next]_vars PROVE LoopInv'
  OBVIOUS
<1> USE CoreAssumption DEF LoopInv, Full, files, command
<1>1. CASE Command
  <2>1. PICK o \in Ops, names \in SUBSET Modules, invert \in BOOLEAN :
          /\ o \in {"enable", "disable"} => names # {} /\ ~invert
          /\ Begin(o, names, invert)
    BY <1>1 DEF Command
  <2>2. op' = o /\ UNCHANGED enabled /\ mods' \subseteq Modules
    BY <2>1 DEF Begin
  <2>3. CASE o = "start"
    BY <2>1, <2>2, <2>3 DEF Begin, EnterStart, Enter, FirstCore
  <2>4. CASE o \in {"stop", "restart"}
    BY <2>1, <2>2, <2>4 DEF Begin, EnterStop, Enter
  <2>5. CASE o = "check"
    BY <2>1, <2>2, <2>5 DEF Begin, Enter
  <2>6. CASE o \in {"enable", "disable"}
    BY <2>1, <2>2, <2>6 DEF Begin, Enter
  <2> QED
    BY <2>3, <2>4, <2>5, <2>6 DEF Ops
<1>2. CASE LoopEnds
  <2>1. CASE phase = "stop" /\ args = {}
    BY <1>2, <2>1 DEF LoopEnds, Enter, LastCore
  <2>2. CASE phase = "startCore"
    BY <1>2, <2>2 DEF LoopEnds, Enter
  <2>3. CASE phase \in {"stop", "stopCore"} /\ ~(phase = "stop" /\ args = {})
    <3>1. CASE op = "restart" /\ args = {}
      BY <1>2, <2>3, <3>1 DEF LoopEnds, Enter, EnterStart, FirstCore
    <3>2. CASE op = "restart" /\ args # {}
      BY <1>2, <2>3, <3>2 DEF LoopEnds, Enter, EnterStart
    <3>3. CASE op # "restart"
      BY <1>2, <2>3, <3>3 DEF LoopEnds, Enter
    <3> QED
      BY <3>1, <3>2, <3>3
  <2>4. CASE phase \notin {"stop", "stopCore", "startCore"}
    BY <1>2, <2>4 DEF LoopEnds, Enter
  <2> QED
    BY <2>1, <2>2, <2>3, <2>4
<1>3. CASE VisitStop
  BY <1>3 DEF VisitStop
<1>4. CASE VisitStart
  BY <1>4 DEF VisitStart
<1>5. CASE VisitCheck
  BY <1>5 DEF VisitCheck, Enter
<1>6. CASE VisitEnable
  BY <1>6 DEF VisitEnable, Enter
<1>7. CASE VisitDisable
  BY <1>7 DEF VisitDisable
<1>8. ASSUME NEW m \in Modules, Crash(m) PROVE LoopInv'
  BY <1>8 DEF Crash
<1>9. CASE UNCHANGED vars
  BY <1>9 DEF vars
<1> QED
  BY <1>1, <1>2, <1>3, <1>4, <1>5, <1>6, <1>7, <1>8, <1>9 DEF Next, Script

\* What a start or restart has done when a loop is over.
LEMMA LoopEndsStarts ==
  ASSUME OneCore, TypeOK, LoopInv, RestartInv, StartInv, LoopEnds
  PROVE  RestartInv' /\ StartInv'
<1> USE DEF RestartInv, StartInv, Full, files, command
<1>1. SUFFICES ASSUME args = {}, mods = Modules, op \in {"start", "restart"},
                      UNCHANGED <<files, up, command>>, phase # "idle", todo = {}
               PROVE  RestartInv' /\ StartInv'
  BY DEF LoopEnds
<1>2. FirstCore(Modules) = Core /\ LastCore(Modules) = Core
  BY AllCore
<1>3. CASE phase = "stop"
  BY <1>1, <1>2, <1>3 DEF LoopEnds, Enter, LoopInv
<1>4. CASE phase = "stopCore"
  <2>1. op = "restart"
    BY <1>1, <1>4 DEF LoopInv
  <2>2. phase' = "startCore" /\ todo' = Core
    BY <1>1, <1>2, <1>4, <2>1 DEF LoopEnds, EnterStart, Enter
  <2> QED
    BY <1>1, <1>4, <2>1, <2>2
<1>5. CASE phase = "startCore"
  <2>1. phase' = "start" /\ todo' = (Modules \ Core) \cap enabled
    BY <1>1, <1>5 DEF LoopEnds, Enter
  <2>2. enabled \subseteq Modules \ Core
    BY DEF TypeOK
  <2> QED
    BY <1>1, <1>5, <2>1, <2>2
<1>6. CASE phase = "start"
  BY <1>1, <1>6 DEF LoopEnds, Enter
<1> QED
  BY <1>1, <1>3, <1>4, <1>5, <1>6

LEMMA StartInvStep ==
  ASSUME OneCore, ~Crashes, TypeOK, LoopInv, RestartInv, StartInv, [Next]_vars
  PROVE  RestartInv' /\ StartInv'
<1> USE DEF RestartInv, StartInv, Full, files, command, StopFailed, StartFailed
<1>1. CASE Command
  <2>1. PICK o \in Ops, names \in SUBSET Modules, invert \in BOOLEAN :
          Begin(o, names, invert)
    BY <1>1 DEF Command
  <2>2. SUFFICES ASSUME args' = {}, mods' = Modules, op' \in {"start", "restart"}
                 PROVE  RestartInv' /\ StartInv'
    OBVIOUS
  <2>3. op' = o /\ UNCHANGED <<enabled, runFile, up>>
    BY <2>1 DEF Begin
  <2>4. CASE o = "start"
    <3>1. phase' = "startCore" /\ todo' = Core
      BY <2>1, <2>2, <2>4, AllCore DEF Begin, EnterStart, Enter
    <3> QED
      BY <3>1, <2>3, <2>4
  <2>5. CASE o = "restart"
    <3>1. phase' = "stop" /\ todo' = Modules \ Core
      BY <2>1, <2>2, <2>5 DEF Begin, EnterStop, Enter
    <3> QED
      BY <3>1, <2>3, <2>5 DEF TypeOK
  <2> QED
    BY <2>2, <2>3, <2>4, <2>5
<1>2. CASE LoopEnds
  BY <1>2, LoopEndsStarts
<1>3. CASE VisitStop
  BY <1>3 DEF VisitStop, StopModule
<1>4. CASE VisitStart
  <2>1. PICK m \in todo : /\ todo' = todo \ {m} /\ StartModule(m)
                           /\ phase \in {"start", "startCore"}
                           /\ UNCHANGED <<enabled, command, phase>>
    BY <1>4 DEF VisitStart, IsFirst
  <2>2. /\ up \subseteq up' /\ up' \subseteq up \cup {m}
        /\ m \in up' \cup StartFailed
    BY <2>1 DEF StartModule
  <2>3. RestartInv'
    BY <2>1, <2>2 DEF LoopInv
  <2>4. StartInv'
    BY <2>1, <2>2
  <2> QED
    BY <2>3, <2>4
<1>5. CASE VisitCheck \/ VisitEnable \/ VisitDisable
  BY <1>5 DEF VisitCheck, VisitEnable, VisitDisable
<1>6. ASSUME NEW m \in Modules, Crash(m) PROVE RestartInv' /\ StartInv'
  BY <1>6 DEF Crash
<1>7. CASE UNCHANGED vars
  BY <1>7 DEF vars
<1> QED
  BY <1>1, <1>2, <1>3, <1>4, <1>5, <1>6, <1>7 DEF Next, Script

\* The inductive invariant of start and restart of everything.
LEMMA StartInvariant ==
  ASSUME OneCore, ~Crashes
  PROVE  Spec => [](TypeOK /\ LoopInv /\ RestartInv /\ StartInv)
<1>1. Init => LoopInv /\ RestartInv /\ StartInv
  BY DEF Init, LoopInv, RestartInv, StartInv
<1>2. TypeOK /\ LoopInv /\ RestartInv /\ StartInv /\ [Next]_vars
        => LoopInv' /\ RestartInv' /\ StartInv'
  BY LoopInvStep, StartInvStep
<1> QED
  BY <1>1, <1>2, TypeInit, TypeStep, PTL DEF Spec

\* With at most one core module and no daemon that dies meanwhile, start of
\* everything brings up all that can start, and restart leaves nothing else.
THEOREM StartCorrect == ASSUME OneCore, ~Crashes PROVE Spec => []StartStartsEnabled
<1>1. RestartInv /\ StartInv => StartStartsEnabled
  BY DEF RestartInv, StartInv, StartStartsEnabled, Started, StopFailed, StartFailed
<1> QED
  BY <1>1, StartInvariant, PTL

\* The core module comes first and goes last, in every start, stop and restart.
THEOREM CoreOrder == ASSUME OneCore, ~Crashes PROVE Spec => CoreAroundAll
<1>1. Init => StopInv
  BY DEF Init, StopInv, StopLeaves
<1>2. TypeOK /\ StopInv /\ [Next]_vars => StopInv'
  BY StopInvStep
<1> DEFINE A == /\ Full /\ phase = "start" /\ phase' = phase /\ up' # up
                     => Core \subseteq up \cup Failing \cup StartRaises
                /\ Full /\ phase \in {"stop", "stopCore"} /\ todo' # todo
                     /\ Core \cap up # Core \cap up'
                     => up \subseteq Core \cup StopRaises \cup StopFails
<1>3. TypeOK /\ StopInv /\ LoopInv /\ RestartInv /\ StartInv /\ [Next]_vars => [A]_vars
  <2> SUFFICES ASSUME TypeOK, StopInv, LoopInv, RestartInv, StartInv, [Next]_vars,
                      ~(UNCHANGED vars)
               PROVE  A
    OBVIOUS
  <2>1. ASSUME Full, phase = "start"
        PROVE  Core \subseteq up \cup Failing \cup StartRaises
    BY <2>1 DEF LoopInv, StartInv, StartFailed
  <2>2. ASSUME Full, phase = "stop", todo' # todo, Core \cap up # Core \cap up'
        PROVE  FALSE
    <3>1. ~LoopEnds
      BY <2>2 DEF LoopEnds
    <3>2. VisitStop
      BY <3>1, <2>2 DEF Next, Script, Command, Begin, VisitStart, VisitCheck, VisitEnable,
                        VisitDisable, Crash
    <3>3. \E m \in todo : up' \in {up, up \ {m}}
      BY <3>2 DEF VisitStop, StopModule, IsLast
    <3> QED
      BY <3>3, <2>2 DEF LoopInv
  <2>3. ASSUME Full, phase = "stopCore"
        PROVE  up \subseteq Core \cup StopRaises \cup StopFails
    BY <2>3 DEF LoopInv, StopInv, StopLeaves, RestartInv, StopFailed
  <2> QED
    BY <2>1, <2>2, <2>3
<1> QED
  BY <1>1, <1>2, <1>3, StartInvariant, TypeCorrectness, PTL DEF Spec, CoreAroundAll
==============================================================================
