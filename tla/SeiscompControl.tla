--------------------------- MODULE SeiscompControl ---------------------------
(***************************************************************************)
(* The commands start, stop, restart, check, enable and disable of         *)
(* seiscomp-control over all modules of an installation: which modules a   *)
(* command visits and in which order, what a failing or raising handler    *)
(* does to the rest of the command, and the two persistent sets that       *)
(* decide what runs: the .auto files (enabled) and the runfiles.           *)
(*                                                                         *)
(* The handlers of one module are atomic here; ModuleLifecycle has their   *)
(* steps.  One command runs at a time (CommandLock).  Between its visits   *)
(* daemons may die.  Left out: reload and status, which change nothing     *)
(* here, and file system errors.                                           *)
(***************************************************************************)
EXTENDS Integers, FiniteSets

CONSTANTS
    Modules,      \* the modules in etc/init that are not config modules
    Core,         \* instances of CoreModule
    Rank,         \* their place in the order of module_key
    Failing,      \* modules whose start() may return an error
    StartRaises,  \* modules whose start() may raise, or return None: not supported
    StopRaises,   \* modules whose stop() may raise, or return None
    StopFails,    \* modules whose stop() may return an error, the daemon running
    NoEnable,     \* modules whose enable() returns None: not supported
    Crashes       \* daemons may die

ASSUME CoreAssumption == Core \subseteq Modules
ASSUME RankAssumption ==
    /\ Rank \in [Modules -> Int]
    /\ \A m, n \in Modules : Rank[m] = Rank[n] => m = n

VARIABLES
    enabled,  \* modules with a .auto file
    runFile,  \* modules with a runfile
    up,       \* modules with a running daemon
    op,       \* the command
    args,     \* the modules it names
    mods,     \* the modules it considers: all, or all but those of --invert
    phase,    \* the loop it is in, "idle" when it has ended
    todo      \* the modules that loop still has to visit

files == <<enabled, runFile>>
command == <<op, args, mods>>
vars == <<enabled, runFile, up, op, args, mods, phase, todo>>

Ops == {"start", "stop", "restart", "check", "enable", "disable"}
Phases == {"idle", "stop", "stopCore", "startCore", "start", "check",
           "enable", "disable"}

TypeOK ==
    /\ enabled \subseteq Modules
    /\ runFile \subseteq Modules
    /\ up \subseteq Modules
    /\ op \in Ops
    /\ args \subseteq Modules
    /\ mods \subseteq Modules
    /\ phase \in Phases
    /\ todo \subseteq Modules
    /\ enabled \cap Core = {}  \* kernel modules are enabled automatically

Init ==
    /\ enabled = {}
    /\ runFile = {}
    /\ up = {}
    /\ op = "stop"
    /\ args = {}
    /\ mods = Modules
    /\ phase = "idle"
    /\ todo = {}

-----------------------------------------------------------------------------
(* The handlers of one module *)

\* start_module: the runfile is created unless start() raises, also when it
\* returns an error because the module runs already or did not come up.
StartModule(m) ==
    \/ /\ m \in up
       /\ runFile' = runFile \cup {m}
       /\ UNCHANGED up
    \/ /\ m \notin up
       /\ up' = up \cup {m}
       /\ runFile' = runFile \cup {m}
    \/ /\ m \in Failing \ up
       /\ runFile' = runFile \cup {m}
       /\ UNCHANGED up
    \/ /\ m \in StartRaises
       /\ UNCHANGED <<runFile, up>>

\* Mutant: the runfile is removed even if stop() raises.
Mut_StopModule(m) ==
    /\ runFile' = runFile \ {m}
    /\ \/ up' = up \ {m}
       \/ m \in StopRaises /\ UNCHANGED up

\* stop_module: the runfile stays if stop() raises, not if it returns an error.
\* That of a default module does so when the module does not run.
StopModule(m) ==
    \/ /\ up' = up \ {m}
       /\ runFile' = runFile \ {m}
    \/ /\ m \in StopFails \cap up
       /\ runFile' = runFile \ {m}
       /\ UNCHANGED up
    \/ /\ m \in StopRaises
       /\ UNCHANGED <<runFile, up>>

-----------------------------------------------------------------------------
(* The loops *)

\* The first and the last core module in the order of the modules; none if mods
\* has no core module.
FirstCore(S) == { c \in S \cap Core : \A d \in S \cap Core : Rank[c] <= Rank[d] }
LastCore(S) == { c \in S \cap Core : \A d \in S \cap Core : Rank[c] >= Rank[d] }

\* The module a loop visits next, forwards and backwards.
IsFirst(m) == m \in todo /\ \A n \in todo : Rank[m] <= Rank[n]
IsLast(m) == m \in todo /\ \A n \in todo : Rank[m] >= Rank[n]

Enter(loop, S) == phase' = loop /\ todo' = S

\* Mutant: the core module is left to its .auto file.
Mut_EnterStart(A, M) ==
    Enter("start", IF A = {} THEN (M \ Core) \cap enabled ELSE M \cap A)

\* on_start: the core module and the enabled modules, or those named.
EnterStart(A, M) ==
    IF A = {} THEN Enter("startCore", FirstCore(M)) ELSE Enter("start", M \cap A)

\* Mutant: only enabled modules are stopped.
Mut_EnterStop(A, M) ==
    Enter("stop", IF A = {} THEN (M \ Core) \cap enabled ELSE M \cap A)

\* Mutant: the core module is stopped at once.
Mut_EnterStop_Core(A, M) ==
    IF A = {} THEN Enter("stopCore", LastCore(M)) ELSE Enter("stop", M \cap A)

\* on_stop: all but the core modules, then the core module, or those named.
EnterStop(A, M) == Enter("stop", IF A = {} THEN M \ Core ELSE M \cap A)

\* run_action.  --invert drops the named modules from mods and leaves no
\* arguments; it is ignored by enable and disable, which require arguments.
Begin(o, names, invert) ==
    /\ phase = "idle"
    /\ op' = o
    /\ args' = IF invert THEN {} ELSE names
    /\ mods' = IF invert THEN Modules \ names ELSE Modules
    /\ CASE o = "start" -> EnterStart(args', mods')
         [] o \in {"stop", "restart"} -> EnterStop(args', mods')
         [] o = "check" ->
              Enter("check", IF args' = {} THEN mods' ELSE mods' \cap args')
         [] OTHER -> Enter(o, names)
    /\ UNCHANGED <<files, up>>

Command ==
    \E o \in Ops, names \in SUBSET Modules, invert \in BOOLEAN :
        /\ o \in {"enable", "disable"} => names # {} /\ ~invert
        /\ Begin(o, names, invert)

\* One visit of the loops of on_stop and stop_kernel_modules.
VisitStop ==
    \E m \in Modules :
        /\ phase \in {"stop", "stopCore"}
        /\ IsLast(m)
        /\ StopModule(m)
        /\ todo' = todo \ {m}
        /\ UNCHANGED <<enabled, command, phase>>

\* One visit of the loops of on_start and start_kernel_modules.
VisitStart ==
    \E m \in Modules :
        /\ phase \in {"start", "startCore"}
        /\ IsFirst(m)
        /\ StartModule(m)
        /\ todo' = todo \ {m}
        /\ UNCHANGED <<enabled, command, phase>>

\* Mutant: check visits the enabled modules.
Mut_VisitCheck ==
    \E m \in Modules :
        /\ phase = "check"
        /\ IsFirst(m)
        /\ up' = IF m \in enabled THEN up \cup {m} ELSE up
        /\ todo' = todo \ {m}
        /\ UNCHANGED <<files, command, phase>>

\* One visit of the loop of on_check: only modules with a runfile.  check() is
\* start(), its result is ignored, and an exception ends the command.
VisitCheck ==
    \E m \in Modules :
        /\ phase = "check"
        /\ IsFirst(m)
        /\ \/ /\ m \notin runFile \/ m \in up \/ m \in Failing
              /\ UNCHANGED <<up, phase>>
              /\ todo' = todo \ {m}
           \/ /\ m \in runFile \ up
              /\ up' = up \cup {m}
              /\ UNCHANGED phase
              /\ todo' = todo \ {m}
           \/ /\ m \in runFile \cap StartRaises
              /\ UNCHANGED up
              /\ Enter("idle", {})
        /\ UNCHANGED <<files, command>>

\* One visit of the loop of on_enable, in the order of the arguments: a module
\* whose enable() returns None ends the command.
VisitEnable ==
    \E m \in todo :
        /\ phase = "enable"
        /\ \/ /\ m \in Core
              /\ UNCHANGED <<enabled, phase>>
              /\ todo' = todo \ {m}
           \/ /\ m \notin Core \cup NoEnable
              /\ enabled' = enabled \cup {m}
              /\ UNCHANGED phase
              /\ todo' = todo \ {m}
           \/ /\ m \in NoEnable \ Core
              /\ UNCHANGED enabled
              /\ Enter("idle", {})
        /\ UNCHANGED <<runFile, up, command>>

\* One visit of the loop of on_disable.
VisitDisable ==
    \E m \in todo :
        /\ phase = "disable"
        /\ enabled' = enabled \ ({m} \ Core)
        /\ todo' = todo \ {m}
        /\ UNCHANGED <<runFile, up, command, phase>>

\* A loop is over; on_restart is on_stop and then on_start.
LoopEnds ==
    /\ phase # "idle"
    /\ todo = {}
    /\ CASE phase = "stop" /\ args = {} -> Enter("stopCore", LastCore(mods))
         [] phase = "startCore" -> Enter("start", (mods \ Core) \cap enabled)
         [] phase \in {"stop", "stopCore"} /\ op = "restart"
              /\ ~(phase = "stop" /\ args = {}) -> EnterStart(args, mods)
         [] OTHER -> Enter("idle", {})
    /\ UNCHANGED <<files, up, command>>

\* A daemon dies.
Crash(m) ==
    /\ Crashes
    /\ m \in up
    /\ up' = up \ {m}
    /\ UNCHANGED <<files, command, phase, todo>>

Script == VisitStop \/ VisitStart \/ VisitCheck \/ VisitEnable \/ VisitDisable
            \/ LoopEnds

Next == Command \/ Script \/ \E m \in Modules : Crash(m)

Spec == Init /\ [][Next]_vars

CheckAll == Begin("check", {}, FALSE)

\* Commands end, and `seiscomp check' is called again and again.
FairSpec == Spec /\ WF_vars(Script) /\ SF_vars(CheckAll)

-----------------------------------------------------------------------------
(* Properties *)

\* A command that is about all modules of the installation.
Full == args = {} /\ mods = Modules

\* A start or restart of everything is over.
Started == phase = "idle" /\ op \in {"start", "restart"} /\ Full

\* Every running module is supervised: it has a runfile, so that check starts it
\* again when it dies, and a stop that leaves it running leaves the runfile.  Not
\* so if stop() returns an error, which stop_module does not take seriously.
UpIsSupervised == up \subseteq runFile \cup StopFails

\* stop without arguments leaves no daemon and no runfile, except of modules
\* whose stop() failed; whatever failed on the way.
StopStopsAll ==
    phase = "idle" /\ op = "stop" /\ Full
        => up \subseteq StopRaises \cup StopFails /\ runFile \subseteq StopRaises

\* The core module is started before all modules and stopped after them: a start
\* of everything never begins a module while a core module is down, unless that
\* one could not start, and a stop or restart of everything stops no core module
\* while another one runs, unless that one could not be stopped.
CoreAroundAll ==
    [][ /\ Full /\ phase = "start" /\ phase' = phase /\ up' # up
             => Core \subseteq up \cup Failing \cup StartRaises
        /\ Full /\ phase \in {"stop", "stopCore"} /\ todo' # todo
             /\ Core \cap up # Core \cap up'
             => up \subseteq Core \cup StopRaises \cup StopFails ]_vars

\* start and restart of everything bring up every enabled module and the core
\* modules, and restart leaves nothing else running.
StartStartsEnabled ==
    Started =>
        /\ Core \cup enabled \subseteq up \cup Failing \cup StartRaises
        /\ op = "restart" => up \subseteq Core \cup enabled \cup StopRaises \cup StopFails

\* A module that should run does not stay down: check, called again and again,
\* reaches every module with a runfile.
CheckRevives ==
    \A m \in Modules : m \in runFile ~> m \in up \/ m \notin runFile
==============================================================================
