------------------------------ MODULE KeyBindings ------------------------------
(***************************************************************************)
(* `seiscomp shell': the commands that bind stations to modules.  A        *)
(* station file etc/key/station_NET_STA has a line for each module the     *)
(* station is bound to: `mod', with the parameters of                      *)
(* etc/key/mod/station_NET_STA, or `mod:profile', with those of            *)
(* etc/key/mod/profile_PROFILE.  A command changes the selected station    *)
(* files one after the other; it may be killed between any two system      *)
(* calls, and a write may fail.  The shell and `seiscomp alias' run under  *)
(* the lock of the system, so there is one command at a time.              *)
(*                                                                         *)
(* A station file is the set of its lines: their order and repeated equal  *)
(* lines mean nothing to any command.  Comments and empty lines are lines  *)
(* of the module Comment.  A part of a file is a set of whole lines.       *)
(***************************************************************************)
EXTENDS Naturals, Sequences

CONSTANTS
    Nets, Codes,         \* networks and station codes
    Any,                 \* the wildcard * of a selector
    Keyed,               \* stations that have a station file
    Modules, Profiles,   \* names of modules and of profiles
    Managed,             \* bound: the modules that commands are given for
    Comment,             \* the module of lines that are no bindings
    NoProfile,           \* the profile of a line without one
    NoStation, NoJob,    \* null values
    InitialLines,        \* what the station files may hold at first
    MaxFaults            \* bound: killed commands and failed writes

Stations == Nets \X Codes
Pairs == Modules \X Profiles
Lines == [mod : Modules \cup {Comment}, prof : Profiles \cup {NoProfile}]

ASSUME KeyedAssumption == Keyed \subseteq Stations /\ NoStation \notin Stations
ASSUME NullAssumption == Comment \notin Modules /\ NoProfile \notin Profiles
ASSUME ManagedAssumption == Managed \subseteq Modules
ASSUME InitialAssumption == InitialLines \subseteq SUBSET Lines
ASSUME FaultsAssumption == MaxFaults \in Nat

VARIABLES
    keys,       \* the lines of each station file
    profiles,   \* the profile files that exist: <<module, profile>>
    locals,     \* the files of single stations: <<module, station>>
    job,        \* the command that runs
    cut,        \* profiles that are gone although a line may still name them,
                \* because their removal was cut short
    hurt,       \* station files that a failed or killed write has damaged
    faults      \* number of kills and failed writes

vars == <<keys, profiles, locals, job, cut, hurt, faults>>

Commands == {"delete profile", "delete binding", "set profile", "set module",
             "remove profile", "remove module", "alias remove"}

\* all: the stations selected; todo: those still to visit; bound: those that had a
\* line of the module when the command began; file: the station whose own binding
\* file is removed next.
Jobs == [cmd : Commands, mod : Modules, prof : Profiles \cup {NoProfile},
         all : SUBSET Keyed, todo : SUBSET Keyed, bound : SUBSET Keyed,
         file : Keyed \cup {NoStation}]

ASSUME NoJobAssumption == NoJob \notin Jobs

TypeOK ==
    /\ keys \in [Keyed -> SUBSET Lines]
    /\ profiles \subseteq Pairs
    /\ locals \subseteq Modules \X Stations
    /\ job \in Jobs \cup {NoJob}
    /\ cut \subseteq Pairs
    /\ hurt \subseteq Keyed
    /\ faults \in 0..MaxFaults

Line(m, p) == [mod |-> m, prof |-> p]
LinesOf(m, lines) == { l \in lines : l.mod = m }

\* What `print station' looks for: the file with the parameters of a line.
HasProfile(l) == l.mod # Comment /\ l.prof # NoProfile
File(l) == <<l.mod, l.prof>>

Init ==
    /\ keys \in [Keyed -> InitialLines]
    /\ profiles = { File(l) : l \in { k \in UNION { keys[s] : s \in Keyed } : HasProfile(k) } }
    /\ locals \in SUBSET (Managed \X Keyed)
    /\ job = NoJob
    /\ cut = {} /\ hurt = {} /\ faults = 0

-----------------------------------------------------------------------------
(* The commands begin *)

\* convert_wildcard and glob: NET or NET.STA, each of them possibly *.
Selectors == { <<n>> : n \in Nets \cup {Any} }
                \cup { <<n, c>> : n \in Nets \cup {Any}, c \in Codes \cup {Any} }
Selected(sel) ==
    { s \in Keyed : \A i \in DOMAIN sel : sel[i] \in {Any, s[i]} }

Begin(cmd, m, p, all) ==
    /\ job = NoJob
    /\ job' = [cmd |-> cmd, mod |-> m, prof |-> p, all |-> all, todo |-> all,
               bound |-> { s \in all : LinesOf(m, keys[s]) # {} }, file |-> NoStation]
    /\ UNCHANGED <<keys, cut, hurt, faults>>

\* Mutant: only the stations of one network are visited.
Mut_DeleteProfile(m, p) ==
    /\ <<m, p>> \in profiles
    /\ profiles' = profiles \ {<<m, p>>}
    /\ \E n \in Nets : Begin("delete profile", m, p, Selected(<<n>>))
    /\ UNCHANGED locals

DeleteProfile(m, p) ==
    /\ <<m, p>> \in profiles
    /\ profiles' = profiles \ {<<m, p>>}
    /\ Begin("delete profile", m, p, Keyed)
    /\ UNCHANGED locals

\* Without a station file the command ends with an error after it has removed the
\* binding.
DeleteBinding(m, s) ==
    /\ <<m, s>> \in locals
    /\ locals' = locals \ {<<m, s>>}
    /\ Begin("delete binding", m, NoProfile, {s} \cap Keyed)
    /\ UNCHANGED profiles

SetProfile(m, p, sel) ==
    /\ <<m, p>> \in profiles
    /\ Begin("set profile", m, p, Selected(sel))
    /\ UNCHANGED <<profiles, locals>>

SetModule(m, sel) ==
    /\ Begin("set module", m, NoProfile, Selected(sel))
    /\ UNCHANGED <<profiles, locals>>

RemoveProfile(m, p, sel) ==
    /\ Begin("remove profile", m, p, Selected(sel))
    /\ UNCHANGED <<profiles, locals>>

RemoveModule(m, sel) ==
    /\ Begin("remove module", m, NoProfile, Selected(sel))
    /\ UNCHANGED <<profiles, locals>>

\* seiscomp alias remove --interactive: the user agrees to remove the directory of
\* the alias, and is asked about the station files.
RemoveBindingDir(m) ==
    /\ \E q \in profiles \cup locals : q[1] = m
    /\ profiles' = { q \in profiles : q[1] # m }
    /\ locals' = { q \in locals : q[1] # m }
    /\ Begin("alias remove", m, NoProfile, {})

-----------------------------------------------------------------------------
(* The files of the stations *)

\* Profiles of which the command removes all lines.
Doomed(j) ==
    IF j.cmd = "delete profile" THEN {<<j.mod, j.prof>>}
    ELSE IF j.cmd \in {"remove module", "alias remove"} THEN {j.mod} \X Profiles
    ELSE {}

\* Mutant: `set profile' leaves a line that has another profile.
Mut_Own(j, own) ==
    LET new == Line(j.mod, j.prof) IN
    IF j.cmd \in {"set profile", "set module"}
      THEN { l \in own : l.prof # NoProfile } \cup {new}
      ELSE own \ {new}

\* What a command makes of the lines of its module.
Own(j, own) ==
    LET new == Line(j.mod, j.prof) IN
    CASE j.cmd \in {"set profile", "set module"} -> {new}
      [] j.cmd \in {"delete profile", "delete binding"} -> own \ {new}
      [] j.cmd = "remove profile" ->
            IF new \in own THEN (own \ {new}) \cup {Line(j.mod, NoProfile)} ELSE own
      [] OTHER -> {}

\* Mutant: comments are not kept.
Mut_Edited(j, lines) ==
    { l \in lines : l.mod \notin {j.mod, Comment} } \cup Own(j, LinesOf(j.mod, lines))

\* ... and of all lines of a file: the others are kept.
Edited(j, lines) ==
    { l \in lines : l.mod # j.mod } \cup Own(j, LinesOf(j.mod, lines))

\* is_modified: a file that is not modified is not written.  `set module' also
\* writes a file that has just the line it sets.
Modified(s) ==
    Edited(job, keys[s]) # keys[s] \/ (job.cmd = "set module" /\ s \in job.bound)

Visited(s) ==
    job' = [job EXCEPT !.todo = @ \ {s},
                       !.file = IF job.cmd = "remove module" THEN s ELSE NoStation]

Visiting(s) == job # NoJob /\ job.file = NoStation /\ s \in job.todo /\ Modified(s)

Skip(s) ==
    /\ job # NoJob /\ job.file = NoStation /\ s \in job.todo
    /\ ~Modified(s)
    /\ job' = [job EXCEPT !.todo = @ \ {s}]
    /\ UNCHANGED <<keys, profiles, locals, cut, hurt, faults>>

Write(s) ==
    /\ Visiting(s)
    /\ keys' = [keys EXCEPT ![s] = Edited(job, @)]
    /\ Visited(s)
    /\ UNCHANGED <<profiles, locals, cut, hurt, faults>>

\* What a file may hold when it could not be opened, or was not written to its end.
Damage(s) ==
    \E left \in (SUBSET Edited(job, keys[s])) \cup {keys[s]} :
        keys' = [keys EXCEPT ![s] = left]

Fault == faults < MaxFaults /\ faults' = faults + 1

\* The error is reported or, if it shows only when the file is closed, ignored; the
\* command goes on.
WriteFails(s) ==
    /\ Fault
    /\ Visiting(s)
    /\ Damage(s)
    /\ Visited(s)
    /\ cut' = cut \cup (Doomed(job) \ profiles)
    /\ hurt' = hurt \cup {s}
    /\ UNCHANGED <<profiles, locals>>

\* `remove module' removes the file of the station if there is one.
RemoveFile ==
    /\ job # NoJob /\ job.file # NoStation
    /\ locals' = locals \ {<<job.mod, job.file>>}
    /\ job' = [job EXCEPT !.file = NoStation]
    /\ UNCHANGED <<keys, profiles, cut, hurt, faults>>

\* `alias remove' goes on as `remove module' of all stations, if the user wants it;
\* otherwise lines of removed profiles stay.
Unalias ==
    /\ job # NoJob /\ job.cmd = "alias remove"
    /\ \/ job' = [job EXCEPT !.cmd = "remove module", !.all = Keyed, !.todo = Keyed,
                             !.bound = { s \in Keyed : LinesOf(job.mod, keys[s]) # {} }]
          /\ UNCHANGED cut
       \/ job' = NoJob /\ cut' = cut \cup (Doomed(job) \ profiles)
    /\ UNCHANGED <<keys, profiles, locals, hurt, faults>>

Return ==
    /\ job # NoJob /\ job.cmd # "alias remove"
    /\ job.todo = {} /\ job.file = NoStation
    /\ job' = NoJob
    /\ UNCHANGED <<keys, profiles, locals, cut, hurt, faults>>

\* The shell is killed, perhaps while it writes.
Kill ==
    /\ Fault
    /\ job # NoJob
    /\ \/ UNCHANGED <<keys, hurt>>
       \/ \E s \in job.todo : Visiting(s) /\ Damage(s) /\ hurt' = hurt \cup {s}
    /\ job' = NoJob
    /\ cut' = cut \cup (Doomed(job) \ profiles)
    /\ UNCHANGED <<profiles, locals>>

\* Between commands the configurator, or an editor, makes profiles and bindings.
Author ==
    /\ job = NoJob
    /\ \/ /\ \E q \in Managed \X Profiles : profiles' = profiles \cup {q} /\ cut' = cut \ {q}
          /\ UNCHANGED locals
       \/ /\ \E q \in Managed \X Stations : locals' = locals \cup {q}
          /\ UNCHANGED <<profiles, cut>>
    /\ UNCHANGED <<keys, job, hurt, faults>>

Command ==
    \E m \in Managed :
        \/ \E p \in Profiles : DeleteProfile(m, p)
        \/ \E s \in Stations : DeleteBinding(m, s)
        \/ \E sel \in Selectors :
              \/ SetModule(m, sel) \/ RemoveModule(m, sel)
              \/ \E p \in Profiles : SetProfile(m, p, sel) \/ RemoveProfile(m, p, sel)
        \/ RemoveBindingDir(m)

Next ==
    \/ Command
    \/ \E s \in Keyed : Skip(s) \/ Write(s) \/ WriteFails(s)
    \/ RemoveFile \/ Unalias \/ Return
    \/ Kill
    \/ Author

Spec == Init /\ [][Next]_vars

-----------------------------------------------------------------------------
(* Properties *)

\* Every profile that a station file names exists, or is about to be removed from
\* that file, or its removal was cut short: `set profile' and `delete profile' work
\* on two kinds of files, in opposite order.
BindingsResolve ==
    \A s \in Keyed : \A l \in keys[s] : HasProfile(l) =>
        \/ File(l) \in profiles \cup cut
        \/ job # NoJob /\ s \in job.todo /\ File(l) \in Doomed(job)
        \/ job # NoJob /\ job.cmd = "alias remove" /\ File(l) \in Doomed(job)

\* What the help promises for a station the command has dealt with.
Promise(j, s) ==
    LET own == LinesOf(j.mod, keys[s]) IN
    CASE j.cmd \in {"set profile", "set module"} -> own = {Line(j.mod, j.prof)}
      [] j.cmd = "remove module" ->
            own = {} /\ (s \in j.bound /\ j.file # s => <<j.mod, s>> \notin locals)
      [] OTHER -> Line(j.mod, j.prof) \notin own

\* Each station that the running command has visited is as its help says: bound to
\* just that profile or module, no longer bound to it, or bound without the profile;
\* a module removed takes the binding file of the station with it.
CommandsDo ==
    job # NoJob => \A s \in (job.all \ job.todo) \ hurt : Promise(job, s)

\* A command changes only lines of its module: comments and the bindings of other
\* modules stay as they are, and between commands nothing changes a station file.
OnlyItsLines ==
    [][ \A s \in Keyed \ hurt' : keys'[s] # keys[s] =>
          /\ job # NoJob
          /\ { l \in keys'[s] : l.mod # job.mod } = { l \in keys[s] : l.mod # job.mod } ]_vars
================================================================================
