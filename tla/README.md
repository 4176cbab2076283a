# A TLA+ model of the SeisComP control system

This directory holds TLA+ specifications of the program that this repository
builds: the `seiscomp` script that manages an installation, the lock tools it
runs, and the configuration library. Every definition is translated
from the source; `PROJECT.json` maps each one to the lines it models. Paths
below are relative to the root of the repository.

## 1. Inventory

| part | source | state it keeps | operations | interacts with |
|---|---|---|---|---|
| command lock | `seiscomp-control.py` 1601-1622, `kernel.py` `tryLock`, `lockutil.c`, `trylock.c`, `waitlock.c`, `run_with_lock.c` | the fcntl lock of `var/run/seiscomp.pid`, `SEISCOMP_LOCK` in the environment | probe, wait with alarm, acquire, fork, pass signals, reap, release | processes, the operating system, every locked command |
| module life cycle | `kernel.py` `Module`, `Environment.start`, `killWait`; `start_module`, `stop_module` | `var/run/NAME.pid` (a name, an inode, its lock and its pid), `var/run/NAME.run`, the daemon | start, stop, check, status | daemons, the lock tools |
| control commands | `on_start` ... `on_disable`, `start_kernel_modules`, `stop_kernel_modules` | `.auto` files, runfiles, which daemons run | start, stop, restart, check, enable, disable, `--invert` | handlers of all modules, crontab |
| update-config | `on_update_config` | a worklist and the set of configured modules | one turn per name | module handlers, the core module |
| aliases | `on_alias` | `etc/descriptions/aliases`, three links per alias | create, remove, `--interactive` | the set of modules that load |
| configuration library | `libs/seiscomp/config` (`config.cpp`, `symboltable.cpp`), used by `apps/seiscomp/kernel.py` | a symbol table with the order of its symbols, included files, a stack of `Config` objects with namespaces, the working directory, the files | read, include, get, set, remove, write | applications, the scripts through SWIG |
| configuration values | `config.cpp` (`quote` ... `parseFile`), `strings.cpp` | the text of a parameter in a file | write, read, write again, in two layouts | the store, editors |
| bindings shell | `shell.py`, `on_shell`, the end of `on_alias` | the lines of station files `etc/key/station_*`, profile files, binding files of stations | delete, set and remove of profiles, modules and bindings | aliases (interactive removal), the configurator |
| setup wizard | `setup.py`, `on_setup` | position in a tree of questions, answers, the path back | answer, back, quit, proceed, the handlers | `setup` handlers, the store |
| timeout tool, disk monitor | `timeout.c`, `diskmon.py` | a child and an alarm; a threshold | | |

`src/base` and `src/extras` are git submodules that are empty in this repository;
what they hold (the daemons) appears as an environment. Section 5 says what is not
modelled and why.

What is hard here:

* processes that race for a lock they test first and take later, and a lock that
  belongs to an inode while the scripts remove and test names;
* alarms, signals, SIGKILL, crashes and slow starts between any two system calls;
* loops over all modules in which one handler fails or raises;
* files rewritten and links replaced one after the other, with no rollback;
* two kinds of binding files that refer to each other, changed file by file;
* a wizard in which one may go back and take another branch;
* values that are written by one set of rules and read by another;
* configuration files that include each other while the working directory of the
  process moves, and a table that is written back to one of several files;
* liveness that rests on a crontab entry.

`PROJECT.json` lists these hazards at their lines with the properties that
would notice them.

## 2. Modules

| module | models | refines |
|---|---|---|
| `Exclusive` | the abstract promise of a lock file: at most one user inside | |
| `CommandLock` | concurrent invocations of `seiscomp` and their lock tools | `Exclusive` (users: the guards of run_with_lock) |
| `ModuleLifecycle` | one module: daemon, lock file, runfile, control script | `Exclusive` (users: the daemons) |
| `SeiscompControl` | the commands over all modules, with atomic handlers | |
| `UpdateConfig` | the worklist of update-config | |
| `AliasRegistry` | alias create and remove, with kills between the links | |
| `KeyBindings` | the commands of the bindings shell, with kills and failed writes between the files | |
| `SetupWizard` | the questions of `seiscomp setup`, the answers, the handlers that get them | |
| `ConfigSymbols` | entries of configuration files, the symbol table, evaluation, the line a symbol is written as | |
| `ConfigStore` | a program that reads files, changes a parameter and writes the last file back | |
| `ConfigText` | one parameter, character by character, from its values to the lines of a file and back | |
| `ConfigMeaning` | what the files mean, as recursive functions: all includes unfolded into one list of effects, which is evaluated; the reference for `ConfigStore` | |

`X_proofs` holds the theorems about `X`; `MCX` and the `.cfg` files are the TLC
instances. Definitions named `Mut_...` are plausible bugs of the definition that
follows; each shows that a property notices a change of the code. They are used
by no specification.

The models stack on assumptions that the one below establishes: `CommandLock`
shows that one locked command runs at a time, which is why `ModuleLifecycle`,
`SeiscompControl`, `AliasRegistry` and `KeyBindings` have a single script;
`ModuleLifecycle` has the steps of the handlers that are atomic in
`SeiscompControl`.

**CommandLock.** A command is one invocation; `pc` says how far its script,
probe and guard are. `Invoke` is the head of the script (`actions_without_lock`,
`SEISCOMP_LOCK`, `--wait`); `TryLock`, `WaitLock`, `Grab`, `Expire`, `ProbeExit`
are the tools; `Acquire`, `Fork`, `PassSignal`, `Reap`, `Release` are
`run_with_lock`; `Term` and `Kill` are the outside. `above` records which
actions wait for a nested command, `env` whose SEISCOMP_LOCK it has.

**ModuleLifecycle.** `path` is the inode the lock file's name leads to,
`owner[i]` the holder of the lock of inode `i`, `content[i]` the pid in it. A
daemon opens, locks, truncates and writes as `acquire_lock` does. The daemons
are not in this repository; those started through `run_with_lock` execute
exactly this code, the others are assumed to follow it. The control script has
one step per system call that matters. `Late` says that `start()` may return
before the daemon has its lock, as with `nohup ... &` in `Environment.start`;
without it the daemon forks itself after it has the lock.

**SeiscompControl.** `todo` is what the current loop still has to visit; the
handlers may fail (return an error) or raise as the constants say. `enabled` are
the `.auto` files. A restart without arguments stops everything and starts the
core module and the enabled modules; the manual (`management.rst:147`) reads as
if running modules were started again too, the help of the command
(`seiscomp-control.py:537`) says what the code does.

**UpdateConfig.** `selected` is the list that is worked off and appended to.

**AliasRegistry.** `lines` is the file, `link[d][n]` what is at the path of name
`n` in directory `d`. The file is written first, then `Relink` makes or removes
one link per step. `Habits` switches on what users do beyond the plain commands
(`again`, `interactive`) and the fault (`kill`).

**KeyBindings.** `keys[s]` is the set of lines of a station file, `profiles` and
`locals` are the files with parameters that lines name. A command (`job`) begins with
the checks and, for the two deletions, with the removal of a file; then it visits
the stations its selector chose in any order, as `glob` gives no order. A visit reads
the file, edits its lines (`Edited`, of which `Own` is what each of the commands does to
the lines of its module) and writes it if something changed (`Modified`).
`RemoveFile` is the second half of a visit of `remove module`. `WriteFails` and `Kill`
are the faults: the file is opened with "w", so that it may hold any part of its new
lines afterwards. `RemoveBindingDir` and `Unalias` are the end of `alias remove
--interactive`, which calls `remove module` of the shell. `Author` stands for scconfig and
editors, between commands. `cut` and `hurt` record which profiles and files the faults
have left in disorder: nothing in the code repairs them, and the properties say that
nothing else is ever wrong.

**SetupWizard.** The tree of `SetupNode` objects is given by `Kids`; `Parent`, `Child`,
`NextOf` are the links `addInputs` makes. `Answer` is one round of `fillTree` with an
accepted input and the first half of `nextStep`; `Climb` is one round of the loop that
ends `nextStep`. An empty input stands for what `valueToString` shows (`Entered`): for
a choice without a valid default the wizard shows option 0 and stores the empty
text. `Dump` is `dumpTree`: the nodes it calls itself for are the steps (`Onward`), and what
it visits is what these reach from the root (`Reach`, the least set without a step out of
it). `Below` is the same for the kids of a node; the properties say with it which
questions count (`Called`) and which node comes before which (`Precedes`), without
following the wizard. `Setup` calls a handler, which may return an error or
raise; `setup` in `apps/seiscomp/kernel.py` returns 0 also if it could not store anything.

**ConfigText.** A parameter is set by a program or typed into a file, written in one of
the two layouts, read, written again from the text that was read, and read again.
`Pieces` and `ParseRValue` are the two loops of `parseRValue` (`raw` is its `rawMode`);
`Tokenize`, `HandleEntry` and `ParseFile` are the functions of these names. Each loop over
characters is a fold (`Scan`) over its local variables. A second entry follows in the file,
because a value may swallow it.

**ConfigStore.** `frames` are the `Config` objects that are reading: the one the
program has and one for each `include` below it, as `handleInclude` makes them. A
frame has the fields of the class that reading needs (`_fileName`, the namespaces
and prefixes) and the local variables `success` of `parseFile` and `oldPath` of
`handleInclude`. There is one action per kind of entry, `Include` and `EndOfFile`
for the two halves of `handleInclude`, and `SetString`, `RemoveParameter`,
`OpenForWriting` and `WriteLine` for what a `setup` handler does. A path text is
absolute or not, has directories and a name; `Real` is the file that a text means
in a directory. A name is the sequence of its components. Values are tokens of
which the model knows only what becomes of their line: it is read as it was meant, it loses
what follows a `#`, it is unreadable or read as something else (`WithQuote`), or it ends in
a backslash and is continued by the next line (`Joining`). `WrittenValue` and `WrittenLines`
say what the lines of a parameter can be, `WithLine` what a file can be with one more line:
a line that continues another is a part of that entry and no line of its own, unless a
comment stands between them. An entry that nothing follows is `Unfinished`; `DropRest` is
the end of `parseFile`, which forgets it. `Fragile` are texts that were read well and are
written as such a line. Which values and texts these are is a matter of characters, and of
`ConfigText`; here they are any.

**ConfigMeaning.** The reference has no stack, no working directory and no prefixes:
`Unfolding` is the progress after each entry of a source, `Whole` that after a source with
a number of files in one another, `Layered` that after each layer. An include is replaced
by what it includes, at the place of its file, in its namespace. `Layered` gets one file
more to put into another than texts were included; a program and the unfolding that
include the same texts never need it.

## 3. What is checked

Passing runs:

| run | bounds | shows |
|---|---|---|
| `command_lock` | 3 commands, one unprivileged, waits none/0/1; signals, kills, daemons; fair tools only | guards exclude each other and refine `Exclusive`, the lock is handed over only after the child's death, every action that needs the lock is covered by it, and although probes hold the lock they test, somebody always gets through; commands end once actions do, a positive `--wait` bounds the wait, signals reach the action |
| `life_timely` | 2 daemons, 3 inodes, crashes; fair script and daemons, repeated check | the lock file tells the truth: visible locks, stop means down, kill hits the holder, one instance; dead modules restart, handlers return |
| `life_races` | 2 daemons, 3 inodes, slow starts, crashes, killed script | the pid in a locked file is its owner's |
| `control_order` | core module and three others: one cannot always start, one raises, the stop of one fails | `StopStopsAll`, `StartStartsEnabled`: the outcome of stop, start and restart of everything; `CoreAroundAll`: their order |
| `control_check` | core module and two others, one raises on stop; crashes, repeated check | supervision of what runs, `CheckRevives` |
| `update_config` | all lists of one to five of six names | termination; everything that is needed is configured (`ProxiesConfigured`), once, and nothing else (`NeededOnce`), for chains, cycles, shared and missing proxies |
| `alias_registry` | 2 applications (one with defaults), 3 aliases, kills, `--interactive` | registry and links agree after the next undisturbed command, a create that ends did its work |
| `config_store` | two layers; the second has up to three of ten entries (assignments, one of them of a text that is rewritten badly, a reference to itself, `del`, two includes, a namespace, an error) and includes one of five files that include others, it, or themselves; three files of the same name in three directories; a kill at any written line, reading again | files without errors are read as they mean (`LoadedAsMeant`), included files at their place and in their namespace whatever else happens, reading ends, the written file has the parameters it should and no others, also after a line that swallows the next (`SavedReadsBack`) |
| `key_bindings` | 2 stations with files in two networks, 2 modules, one of them managed, 2 profiles, 2 faults | a profile that is named exists (`BindingsResolve`), a visited station is as the help of the command says (`CommandsDo`), comments and other modules are not touched (`OnlyItsLines`) |
| `setup_wizard` | 8 questions, 4 options, options within an option, a boolean with an option, options without questions, a plugin of a module that was not asked for; any way back | the path is always the one the answers call for (`AskedInOrder`), the configuration has the answers that count and no others (`DumpedAsAnswered`), the wizard ends if the user does not go back for ever |
| `config_text` | values of up to 4 characters of 7 kinds, lists of two of up to 2 characters, typed texts of up to 5 | exactly which values are read as they were written (`ReadsBack`), that a value without a double quote leaves the next parameter alone (`NextEntryRead`), that a file that was read and written again means the same (`RewriteKeeps`) |

Bounds. Three commands are a holder, a competitor and a nested or third
invocation, which is what every guard of the model compares; an inode more than
daemons is enough because each daemon has one open and one has the name; the
modules of `control_order` are a core module and one module for each way a
handler may fail, in one order; in `update_config` five names are more than the
longest chain of proxies plus a repetition; three aliases have one before and
one after the one that is rewritten; three entries are enough to open a namespace,
include in it and close it, or to assign, delete and refer, and the files of an
include cycle need three texts; two stations are one that a command has visited and
one that it has not, the second module is the one that must not change, and two faults
are a damaged file and a command that is cut short after it. In `setup_wizard` nothing
is bounded but the tree. In `config_text` four characters hold a pair of quotes or an
escape with a character before and behind it; `Width`, 80 in the code, is 3 so that lists
are laid out in both ways. Bounds in guards are `MaxArgs` (of `Init`) and `MaxFaults` (of
`Fault`).

Fairness. Weak fairness of the tools (`Tool`), the script (`Control`, `Script`)
and the start of daemons stands for the scheduler: none of them waits for
anything but what its guard says. Nothing is assumed of the actions that run
under the lock: `EveryCommandEnds` says what follows if they all end, and the
`WaitBounded` and `SignalReachesAction` hold even if they do not. Weak fairness of `Reading` says that a
program goes on to read; that it ever changes or writes a file is not assumed.
In `setup_wizard`
weak fairness of `Goes` says that the user answers, and the premise of `EndsUnlessBack`
that he does not go back for ever. Strong fairness of the check command is the line `*/3 * * * * ... check` that
`seiscomp print crontab` prints (line 786): check finds the script idle again
and again and is started.

One run is refuted by TLC, a disagreement of the code with a text of the repository
(quoted under `findings`): in `alias_again`, creating a registered alias again drops the
aliases after it, as the loop over the file breaks at its line.

Limits of the code that the properties except, or that the instances leave out,
because nothing in the code guards against them:

* `SEISCOMP_LOCK` is inherited by every daemon that `seiscomp start` launches; the
  commands such a daemon runs later are not locked (`LockCoversAction` speaks of
  callers that wait, and of guards that were not killed).
* A daemon launched with `nohup ... &` takes its lock after `start()` returned. A
  stop in between removes the lock file by name; the daemon works on with a lock
  on a file without a name and the next start makes a second instance. With
  `Late = TRUE` and no other fault `LockVisible` fails for this reason.
* `stop_module` removes runfile and lock file also when `stop()` returned an error.
* With more than one core module only the first is started and the last stopped;
  `StartStartsEnabled` and `StopStopsAll` then fail.
* An alias is accepted as the target of an alias (the help forbids it) and an
  alias named like an application replaces the binary of that application
  (`seiscomp-control.py:1123`). Applications and aliases are therefore disjoint
  in the model, and targets are applications.
* The aliases file is truncated before it is written; a kill in between loses it.
* After a killed remove, an alias created for an application without defaults
  keeps the defaults of its former target (`OfOneTarget` speaks of targets that
  have some).
* `check` visits the modules with a runfile; the manual says it visits the enabled
  ones (`management.rst:75`).
* A failed include leaves the process in another directory: later relative paths
  mean other files. `IncludesNest` has the place of a file as long as nothing
  failed, its namespace always.
* What was included is remembered by its text: a file is read again under another
  name, and another file of the same text is skipped.
* A written file is truncated first and a kill leaves a part of it; lines that
  could not be read, includes and `del` lines are not written, as `kernel.py:17`
  ignores what `readConfig` returns. A parameter that refers to itself keeps only
  the reference. `SavedReadsBack` speaks of parameters, and of their values only if
  they were read without references, can be quoted, and are not written directly after one
  whose line goes on (`Swallowed`).
* `--wait 0` becomes `alarm(0)`, which sets no alarm: the command waits without a limit
  (`seiscomp-control.py:1476`; the error message next to it demands a positive
  number). `WaitBounded` speaks of positive waits.
* `on_check` has no `try` around `check()` (`seiscomp-control.py:581`), unlike start and
  stop: an exception in one module keeps check from all later ones, every time.
  `CheckRevives` fails if a handler raises there.
* `quote()` (`config.cpp:120`) does not know what `parseFile` makes of a `#`, of a double
  quote inside of quotes, or of a lone comma: such values are cut off, are
  read as other values, or make a line that cannot be read, and `"\#` is written as `"\"\#"`: its line ends in a backslash before the `#`, so
  that the next parameter is lost in it. A typed `v = \\ "\#"` is rewritten as such a line. The
  empty list is written as `""` and read as a list of one empty value. `ReadsBack` has the
  exact set of values (`Survives`).
* A parameter typed as `v = \\ ""` is read as a backslash and written as `v = \\""`, which
  cannot be read (`RewriteKeeps` excepts it).
* `delete profile` removes the profile first: a kill leaves stations bound to a profile
  that does not exist, and the command refuses to run again. `delete binding` works in
  the same order. `remove profile` does not ask whether the profile exists.
* A station file is truncated before it is written, and a failed write is reported but
  counted as done.
* `seiscomp setup MODULE` still asks the questions of all plugins (`SetupNode`s of plugins
  are added whatever the arguments), and `seiscomp.init` is made although nothing could be
  stored.
* The manual has the truth value of `isRunning` inverted (`management.rst:398`).

## 4. What is proved

The theorems hold for all values of the constants that satisfy the named
assumptions (distinct null values, finite sets where needed). The type invariants are proved for
all components that have theorems; the runs leave them out, except those of `ConfigStore`
and `SetupWizard`, where a type is at stake (a symbol without a place in the list, an
option on the path).

*CommandLock.* `LockInv` adds to the types that whoever is at a place where the
lock is held is the holder; `GuardsExclude` follows, as two guards would both be
the holder. `LockHandedOver` and `ImplementsExclusive` are step lemmas over
every action. `ActionsCovered` needs more (`CoverInv`): who put SEISCOMP_LOCK in
an environment is itself a locked command without one, and, if it is still among
the callers of an action that runs, its own action runs too or was signalled, so
it cannot have given up the lock. `NotAllRefused` follows from an invariant over all places:
as long as somebody competes, a competitor is left that was not turned away
(`SomebodyLeft`), because a command is turned away only by the holder of the lock, which
is a competitor itself. All faults are allowed; the property excepts
what they leave behind.

*ModuleLifecycle.* `LifeInv`: each lock has the owner that has the file open,
and the content follows the daemon's place. It gives `TypeCorrectness` and
`PidIsOwners` under all races and crashes. `TimelyInv`, under `Timely` (no late
start, no killed script), says at each place of the script what it knows of the
daemon: when the lock was free nobody is alive, when a pid is known it is the
holder's or nobody's. From it follow `WorkingIsVisible`, `StopLeavesNothing`,
`SignalsHitHolder` and `OneInstance` (refinement of `Exclusive`). Without
`Timely` the first is false, as section 3 says.

*SeiscompControl.* `TypeCorrectness`; `RunningIsSupervised` is inductive by
itself; `StopCorrect`, for at most one core module, from an invariant that says
what the rest of the two loops still has to visit. `StartCorrect` is the same for start and restart (`StartInv`: what is neither
up nor failed is still to visit), and `CoreOrder` a step lemma under both; they assume at
most one core module and that no daemon crashes in between.

*AliasRegistry.* The links of an alias are right (`LinksRight`) unless its last command
runs or was killed (`OthersRight`); for the running command `CreateInv` and `RemoveInv`
say which links it has already made or removed, link by link. `LinesInv` has the
registry without repeated names, which the lemmas
`LinesBefore` and `LinesBut` carry through the `SubSeq` of the rewritten file. `LinksMatchRegistry` assumes that nobody creates an alias
again: with it the property fails, as `alias_again` shows of the registry. `CreateWorks`
and `LinksOfOneTarget` need no assumption.

*KeyBindings.* The three properties are one inductive invariant with the types and
`JobFits` (which fields a command has). Lemmas say what an edit does to any set of lines:
`EditedLines` (other modules), `EditedProfiles` (no doomed profile is left, none is
added but that of `set profile`). `HelpIsTrue` is kept by a visit because no other
station changes, and by the beginning of a command because nothing is visited yet;
`OthersKept` is a step lemma. Any number of stations, modules, profiles and faults.

*UpdateConfig.* The invariant says that what is missing is in the list
(`Pending`), that the modules updated are the modules configured (`InStep`) and
that everything in the list has a reason (`Justified`). Its consequences are
`AllProxiesConfigured` and `OnceAndOnlyIfNeeded`, for any graph of proxies.

*ConfigStore.* `IncludesNestAlways`. Whether an include is looked up in the right
directory depends on the working directory, which the property does not mention.
`IInv` adds what ties them (`Places`): seen from the working directory a reader runs
in (`At`: the current one, or the one saved by the include that waits), its own text
names the directory of its file; and a reader of an absolute text does not move.
Then the end of a file, which restores the directory or not, always leads back to
where the including file's reader was. `NoCycle` needs that the texts of all open
files are among the included ones. The place part is conditional on `Clean`; that
every failure makes `Clean` false for good is one case of each step. The lemmas
`PushPreserves`, `AdvancePreserves`, `PopPreserves` and `FailPreserves` are the four
things a step does to the stack.

*ConfigStore, the data.* `StoreTypeOK` and `SavedReadsBackAlways` rest on a second
invariant, `Data`. `TableOK`: list and map of the table name the same symbols, each once,
and a symbol that was read from literals has their values, one that was set has one
(`IsFaithful`). `WrittenSoFar`: while a file is written, `todo` has the names that are
missing, and what a program would read of the file so far (`ReadAlone`) has no names but the
first k local ones, each with its value if it can be written and was not swallowed
(`ReadsSoFar`). As a line may end in a backslash, the invariant also has whose entry the end
of the file is (`EndsSoFar`): of a name whose line may go on, and the last name that was
written is one as well, so that the next is `Swallowed` at most by its neighbour however
many lines have joined. `LineSoFar` has the three things a line can do: stand alone, end the
entry before it, or vanish in it. `MisreadAssumption` says that such an entry is at most an
assignment of some text. What the recursive functions of `Without`, `FlattenSeq` and
`ReadAlone` compute is followed over the set of the
positions where the claim holds (`PositionInduction`, from the least element of a set of
numbers); that there are such functions at all is `IterateExists`. `UriAssumption` says
that the uri of a symbol that was set is no file name: in the code it is the empty text.

*ConfigStore, the meaning.* `LoadedAsMeantAlways`: the table a program has read is that of
the unfolded files. The property speaks of the end of a reading, the invariant `Follows`
of every step: as long as nothing failed there is a trail of progress (`IsTrail`), one for
the layers that were read and one for each open file. The progress of a file is that of
the unfolding of its source (`SourceOf`) after the entries before its position, begun from
the progress of the file around it; this one waits at an include which that source is the
meaning of (`Waits`). The last of the trail has the effects that evaluate to the table, and
the texts that were included. A step changes the trail at its end: `TrailOnward` (an entry
was read, or an included file is over), `TrailPush` (a file begins), `TrailIdle` (none is
open). That the file an include opens is that of the unfolding is `CleanPlace`, from
`Places` of the first invariant. How many files may be in one another is a number the
unfolding is given, the program not: `Follows` speaks of every number that is at least the
number of included texts, and `Depth` shows by `NoCycle` that no more are open. The recursive
functions of `ConfigMeaning` exist and compute what they say (`UnfoldingSteps`,
`WholeSteps`, `LayeredSteps`, `EvaluatedSteps`, each by `IterateExists`). A file that a
killed program left in parts is covered: `Data` has its lines as entries.

*SetupWizard.* All three safety properties, for any tree. `TreeAssumption` is all they
need of it: each element has one place, and none is nested within itself; there may be
any number of nodes. The lemmas about the tree come first: `BelowBoth` (of two nodes above
the same node one is above the other), `PrecedesTrans`, and `BeforeKid`, which says what
comes before a kid in terms of its parent. From them follow the five moves of the wizard
(`FirstOfAll`, `IntoOption`, `NothingWithin`, `OnToNext`, `UpToParent`), each as an
equation between the questions that count before or through one node and another. The
property itself is not inductive: `.back` returns to an earlier place, and an answer
there changes which questions count. `Listed` therefore says of every place of the path
what the property says of the last one, and `AnswerKeeps` shows that an answer changes
nothing for the questions before it, because what it changes is nested within it. `AtClimb`
is the property on the way up; `Agree` says that `activeChild` of the answered questions is
what their values open, and no more: nodes that were given up keep a stale one. With it
`DumpCorrect` shows that `dumpTree` visits the questions that count and no others.

Only model-checked: all liveness properties (the proof system has no support for
ENABLED and fairness), among them the termination of `UpdateConfig`; and `ConfigText`,
where each property would need what four nested loops over characters compute for every
text.

## 5. Not modelled

* `libs/3rd-party` (`libmseed`, `fmt`) and `libs/swig` (`config_python_wrap.cxx`, generated),
  three quarters of the lines of the repository, are not its own code. What
  is left is the control script, the lock tools, the configuration library and the
  Python libraries: most of their code that changes state is mapped.
* Hardware utilities (`cfr_watchdog.c`, `hesc_ups.c`, ...): straight-line port I/O.
  `timeout.c`: one alarm and one child, the race of `waitlock.c`. `diskmon.py`: reads the
  file systems once and sends a mail. `log.cpp`, `exceptions.h`: formatting. The start
  script chooses an interpreter. Build files, dependency scripts, the manual.
* `list`, `print`, `status`, `exec` and `reload` of the control script, `list` and `print`
  of the shell: they change nothing, or call a handler that is not in this repository.
* `setup --stdin`, and the reading of XML descriptions: a tree of questions is a constant.
* The removal of `etc/ALIAS.cfg` and `~/.seiscomp/ALIAS.cfg` by `alias remove --interactive`:
  single files nobody else of the model reads.
* An alias as target of an alias, an alias named like an application, and the removal of
  an alias whose daemon runs: the code has no check for any of them, so there is nothing a
  property could hold it to (the hazards list names them).
* Of the configuration library: standard input and output, the writing of all
  symbols (`localOnly` false), `@file` references, comments and stages of symbols, `Config` objects that
  share a symbol table, the conversion of numbers and booleans (`strings.cpp`, a call of
  the C library each).
* Comments, blank lines and the order of lines of station files: `KeyBindings` has their
  sets of lines.
