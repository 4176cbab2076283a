----------------------------- MODULE AliasRegistry -----------------------------
(***************************************************************************)
(* `seiscomp alias': on_alias registers an alias in the file               *)
(* etc/descriptions/aliases and links three files of its target: the       *)
(* defaults (etc/defaults/NAME.cfg), the binary (bin/NAME) and the init    *)
(* script (etc/init/NAME.py).  The command may be killed between two of    *)
(* its writes.  The lock of the system keeps a second one out, so one job  *)
(* at a time is enough.                                                    *)
(*                                                                         *)
(* Left out: comments and invalid lines of the file, sbin, and the         *)
(* configuration files that --interactive offers to remove.  Also left out *)
(* is misuse that the command does not prevent: aliases of aliases, and    *)
(* aliases with the name of an application; and a kill between truncating  *)
(* and writing the registry.                                               *)
(***************************************************************************)
EXTENDS Naturals, Sequences

CONSTANTS
    Apps,        \* installed modules whose supportsAliases() is True
    Aliases,     \* the other names a user may type
    HasDefaults, \* applications with a file in etc/defaults
    Real, NoLink,\* what a path may be besides a link: a plain file, nothing
    Habits       \* what users and the system do, besides the plain commands

\* "again": create a registered alias once more; "interactive": remove with
\* --interactive; "kill": the command is killed.
HabitNames == {"again", "interactive", "kill"}

Names == Apps \cup Aliases

ASSUME NamesAssumption ==
    /\ Apps \cap Aliases = {}
    /\ Real \notin Names /\ NoLink \notin Names /\ Real # NoLink
ASSUME DefaultsAssumption == HasDefaults \subseteq Apps
ASSUME HabitsAssumption == Habits \subseteq HabitNames

VARIABLES
    lines,       \* the lines of the aliases file
    link,        \* link[dir][name]: what is found at that path
    job,         \* what the running command has still to do
    broken       \* names whose last command was killed

vars == <<lines, link, job, broken>>

Dirs == {"cfg", "bin", "init"}
Line == [name : Names, target : Names]
Job == [op : {"create", "remove"}, name : Names, target : Names, todo : Seq(Dirs)]
NoJob == [op |-> "none"]

Registered == { lines[i].name : i \in DOMAIN lines }

TypeOK ==
    /\ lines \in Seq(Line)
    /\ link \in [Dirs -> [Names -> Names \cup {Real, NoLink}]]
    /\ job \in Job \cup {NoJob}
    /\ broken \subseteq Names
    \* the file was written before the links
    /\ job # NoJob => /\ job.todo # <<>>
                      /\ job.op = "create" <=> job.name \in Registered

Installed(d) == IF d = "cfg" THEN HasDefaults ELSE Apps

Init ==
    /\ lines = <<>>
    /\ link = [d \in Dirs |->
                [n \in Names |-> IF n \in Installed(d) THEN Real ELSE NoLink]]
    /\ job = NoJob
    /\ broken = {}

-----------------------------------------------------------------------------
\* os.path.exists follows links.
Exists(d, n) ==
    LET to == link[d][n] IN to = Real \/ (to \in Names /\ link[d][to] = Real)

\* The line of n; the registry has one line at most of each name.
LineOf(n) == CHOOSE i \in DOMAIN lines : lines[i].name = n

\* The lines kept when n is registered: all, or those before the old line of n,
\* where the loop over the file breaks.
KeptFor(n) ==
    IF n \notin Registered THEN lines ELSE SubSeq(lines, 1, LineOf(n) - 1)

\* The lines kept when n is removed.
Without(n) ==
    IF n \notin Registered THEN lines
    ELSE SubSeq(lines, 1, LineOf(n) - 1) \o SubSeq(lines, LineOf(n) + 1, Len(lines))

\* The commands that reach the file.  The target of a create has to be a module
\* that loads (its init script exists) and has a binary.  A name that is not
\* registered is removed in interactive mode only.
Creatable(n, t) ==
    /\ job = NoJob
    /\ Exists("init", t) /\ Exists("bin", t)
    /\ n \in Registered => "again" \in Habits

Removable(n) ==
    /\ job = NoJob
    /\ n \in Registered \/ "interactive" \in Habits

\* seiscomp alias create n t: the file is written, the links are to be made.
Create(n, t) ==
    /\ Creatable(n, t)
    /\ lines' = Append(KeptFor(n), [name |-> n, target |-> t])
    /\ job' = [op |-> "create", name |-> n, target |-> t,
               todo |-> <<"cfg", "bin", "init">>]
    /\ UNCHANGED <<link, broken>>

\* seiscomp alias remove n: the file is written, the links are to be removed.
Remove(n) ==
    /\ Removable(n)
    /\ lines' = Without(n)
    /\ job' = [op |-> "remove", name |-> n, target |-> n,
               todo |-> <<"bin", "init", "cfg">>]
    /\ UNCHANGED <<link, broken>>

\* Mutant: an existing link is not made again, as the warning says.
Mut_Target(d) ==
    LET n == job.name IN
    IF job.op = "create"
      THEN IF link[d][n] # NoLink THEN link[d][n] ELSE job.target
      ELSE NoLink

\* Mutant: the init script stays.
Mut_Target_Init(d) ==
    LET n == job.name IN
    IF job.op = "create" THEN job.target
      ELSE IF d = "init" THEN link[d][n] ELSE NoLink

\* What the command leaves at its next path: a new link replaces what was there;
\* defaults are linked if the target has any, a binary is removed if it exists.
Target(d) ==
    LET n == job.name IN
    IF job.op = "create"
      THEN IF d = "cfg" /\ ~Exists(d, job.target) THEN link[d][n] ELSE job.target
      ELSE IF d = "bin" /\ ~Exists(d, n) THEN link[d][n] ELSE NoLink

\* The next link is made or removed; after the last one the command returns.
Relink ==
    /\ job # NoJob
    /\ LET d == Head(job.todo) IN link' = [link EXCEPT ![d][job.name] = Target(d)]
    /\ IF Len(job.todo) = 1
         THEN job' = NoJob /\ broken' = broken \ {job.name}
         ELSE job' = [job EXCEPT !.todo = Tail(@)] /\ UNCHANGED broken
    /\ UNCHANGED lines

\* The command is killed, perhaps after it has removed what it was to replace.
Kill ==
    /\ "kill" \in Habits
    /\ job # NoJob
    /\ LET d == Head(job.todo) IN
         \/ UNCHANGED link
         \/ /\ Target(d) # link[d][job.name]
            /\ link' = [link EXCEPT ![d][job.name] = NoLink]
    /\ job' = NoJob
    /\ broken' = broken \cup {job.name}
    /\ UNCHANGED lines

Next ==
    \/ \E n \in Aliases : \E t \in Apps : Create(n, t)
    \/ \E n \in Aliases : Remove(n)
    \/ Relink
    \/ Kill

Spec == Init /\ [][Next]_vars

-----------------------------------------------------------------------------
(* Properties *)

Settled(n) == job = NoJob /\ n \notin broken

\* Unless its last command was killed, an alias has its binary and its init
\* script if it is registered, and no file at all if it is not.
RegistryMatchesLinks ==
    \A n \in Aliases : Settled(n) =>
        IF n \in Registered
          THEN Exists("bin", n) /\ Exists("init", n)
          ELSE \A d \in Dirs : link[d][n] = NoLink

\* Binary and init script of a registered alias are those of the application
\* it is registered for, and so are its defaults if the application has any.
OfOneTarget ==
    \A i \in DOMAIN lines : LET n == lines[i].name  t == lines[i].target IN
        Settled(n) =>
          /\ link["bin"][n] = t /\ link["init"][n] = t
          /\ t \in HasDefaults => link["cfg"][n] = t

\* A create that ends, whatever was killed before it, has registered the alias
\* and linked binary and init script to the target it was given.
CreatedWorks ==
    [][ (job.op = "create" /\ job' = NoJob /\ job.name \notin broken') =>
          /\ [name |-> job.name, target |-> job.target] \in
                { lines'[i] : i \in DOMAIN lines' }
          /\ link'["bin"][job.name] = job.target
          /\ link'["init"][job.name] = job.target ]_vars

\* An alias leaves the registry only when it is removed itself.
AliasesStay ==
    [][ \A n \in Registered \ Registered' :
          job'.op = "remove" /\ job'.name = n ]_vars
=============================================================================
