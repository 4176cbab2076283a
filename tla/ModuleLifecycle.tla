--------------------------- MODULE ModuleLifecycle ---------------------------
(***************************************************************************)
(* One module of SeisComP: its daemon, the lock file var/run/<name>.pid    *)
(* that tells whether the daemon runs, the runfile var/run/<name>.run that *)
(* tells whether it should run, and the handlers start, stop, check and    *)
(* status of seiscomp.kernel.Module as seiscomp-control calls them.        *)
(*                                                                         *)
(* Lock files are modelled as inodes, since an fcntl lock belongs to the   *)
(* file that was opened and not to the name it had.  Daemons take the lock *)
(* the way acquire_lock does.  The handlers run one at a time, which is    *)
(* what CommandLock provides.  Covered: daemons that die at any moment, are*)
(* slow to take the lock or to obey SIGTERM; a control script killed       *)
(* between two steps.  Left out: file system errors, recycled process ids  *)
(* of foreign processes, modules that override the default handlers.       *)
(***************************************************************************)
EXTENDS FiniteSets

CONSTANTS
    Pids,     \* process ids of daemons
    Inodes,   \* files that had or have the name of the lock file
    NoPid,
    NoInode,
    Tool,     \* the process of trylock or waitlock
    Late,     \* mod.start() may return before the daemon has the lock
    Faults    \* which of "crash" (of a daemon), "abort" (of the script) happen

ASSUME PidsAssumption == NoPid \notin Pids /\ Tool \notin Pids /\ Tool # NoPid
ASSUME InodesAssumption == NoInode \notin Inodes
ASSUME LateAssumption == Late \in BOOLEAN

VARIABLES
    path,      \* the inode that has the lock file's name
    owner,     \* the process that holds the lock of each inode
    content,   \* the pid written in each inode
    daemon,    \* where each daemon is
    fd,        \* the inode it has opened
    termed,    \* it was sent SIGTERM
    runFile,   \* the runfile exists
    ctl,       \* where the control script is
    op,        \* the handler it executes
    pid        \* the pid it has started, or read from the lock file

files == <<path, owner, content>>
procs == <<daemon, fd, termed>>
script == <<runFile, ctl, op, pid>>
vars == <<path, owner, content, daemon, fd, termed, runFile, ctl, op, pid>>

Ops == {"start", "stop", "check", "status"}
CtlPlaces == {"idle", "isRunning", "probing", "run", "starting", "touch",
              "read", "kill", "waitlock", "waiting", "granted", "kill9",
              "unlink", "rmrun", "rmpid"}
Locked == {"locked", "truncated", "up"}
DaemonPlaces == Locked \cup {"none", "spawned", "opened"}

\* One type invariant; a lock has an owner that has the file open.
TypeOK ==
    /\ path \in Inodes \cup {NoInode}
    /\ owner \in [Inodes -> Pids \cup {NoPid, Tool}]
    /\ content \in [Inodes -> Pids \cup {NoPid}]
    /\ daemon \in [Pids -> DaemonPlaces]
    /\ fd \in [Pids -> Inodes \cup {NoInode}]
    /\ termed \in [Pids -> BOOLEAN]
    /\ runFile \in BOOLEAN
    /\ ctl \in CtlPlaces
    /\ op \in Ops
    /\ pid \in Pids \cup {NoPid}
    /\ \A p \in Pids : fd[p] = NoInode <=> daemon[p] \in {"none", "spawned"}
    /\ \A p \in Pids : daemon[p] \in Locked => owner[fd[p]] = p
    /\ \A i \in Inodes : owner[i] \in Pids =>
         daemon[owner[i]] \in Locked /\ fd[owner[i]] = i

Init ==
    /\ path = NoInode
    /\ owner = [i \in Inodes |-> NoPid]
    /\ content = [i \in Inodes |-> NoPid]
    /\ daemon = [p \in Pids |-> "none"]
    /\ fd = [p \in Pids |-> NoInode]
    /\ termed = [p \in Pids |-> FALSE]
    /\ runFile = FALSE
    /\ ctl = "idle"
    /\ op = "status"
    /\ pid = NoPid

-----------------------------------------------------------------------------
(* The daemon: acquire_lock, then its work *)

\* Inodes that nobody has a name or a descriptor for.
FreeInodes == { i \in Inodes : i # path /\ \A p \in Pids : fd[p] # i }

\* Mutant: O_TRUNC, so that the file is emptied before the lock is obtained.
Mut_Open(p) ==
    /\ daemon[p] = "spawned"
    /\ daemon' = [daemon EXCEPT ![p] = "opened"]
    /\ IF path # NoInode
         THEN /\ fd' = [fd EXCEPT ![p] = path]
              /\ content' = [content EXCEPT ![path] = NoPid]
              /\ UNCHANGED <<path, owner>>
         ELSE \E i \in FreeInodes :
                /\ path' = i
                /\ content' = [content EXCEPT ![i] = NoPid]
                /\ fd' = [fd EXCEPT ![p] = i]
                /\ UNCHANGED owner
    /\ UNCHANGED <<termed, script>>

\* open with O_CREAT: a missing file is created empty.
Open(p) ==
    /\ daemon[p] = "spawned"
    /\ daemon' = [daemon EXCEPT ![p] = "opened"]
    /\ IF path # NoInode
         THEN /\ fd' = [fd EXCEPT ![p] = path]
              /\ UNCHANGED files
         ELSE \E i \in FreeInodes :
                /\ path' = i
                /\ content' = [content EXCEPT ![i] = NoPid]
                /\ fd' = [fd EXCEPT ![p] = i]
                /\ UNCHANGED owner
    /\ UNCHANGED <<termed, script>>

\* F_SETLK succeeds.
Lock(p) ==
    /\ daemon[p] = "opened"
    /\ owner[fd[p]] = NoPid
    /\ owner' = [owner EXCEPT ![fd[p]] = p]
    /\ daemon' = [daemon EXCEPT ![p] = "locked"]
    /\ UNCHANGED <<path, content, fd, termed, script>>

\* ftruncate
Truncate(p) ==
    /\ daemon[p] = "locked"
    /\ content' = [content EXCEPT ![fd[p]] = NoPid]
    /\ daemon' = [daemon EXCEPT ![p] = "truncated"]
    /\ UNCHANGED <<path, owner, fd, termed, script>>

\* The pid is written: the daemon begins its work.
WritePid(p) ==
    /\ daemon[p] = "truncated"
    /\ content' = [content EXCEPT ![fd[p]] = p]
    /\ daemon' = [daemon EXCEPT ![p] = "up"]
    /\ UNCHANGED <<path, owner, fd, termed, script>>

\* The process of p is gone, with its descriptor and its lock.
Gone(p) ==
    /\ daemon' = [daemon EXCEPT ![p] = "none"]
    /\ fd' = [fd EXCEPT ![p] = NoInode]
    /\ termed' = [termed EXCEPT ![p] = FALSE]
    /\ owner' = [i \in Inodes |-> IF owner[i] = p THEN NoPid ELSE owner[i]]

\* F_SETLK fails: the daemon takes the file for the lock of another instance.
LockFails(p) ==
    /\ daemon[p] = "opened"
    /\ owner[fd[p]] # NoPid
    /\ Gone(p)
    /\ UNCHANGED <<path, content, script>>

\* The daemon obeys SIGTERM, or crashes.
Exit(p) ==
    /\ daemon[p] # "none"
    /\ termed[p] \/ "crash" \in Faults
    /\ Gone(p)
    /\ UNCHANGED <<path, content, script>>

-----------------------------------------------------------------------------
(* The control script *)

Goto(place) == ctl' = place

\* start_module, stop_module, on_check (only with a runfile) and status.
Begin(o) ==
    /\ ctl = "idle"
    /\ o = "check" => runFile
    /\ op' = o
    /\ Goto("isRunning")
    /\ UNCHANGED <<files, procs, runFile, pid>>

\* Where the handlers go on when the module runs, and when it does not.
\* start_module touches the runfile whatever start() returned.
IfRunning == CASE op = "start" -> "touch"
               [] op = "stop" -> "read"
               [] OTHER -> "idle"
IfNotRunning == CASE op \in {"start", "check"} -> "run"
                  [] op = "stop" -> "rmrun"
                  [] OTHER -> "idle"

\* Mutant: the module runs if its lock file exists.
Mut_IsRunning ==
    /\ ctl = "isRunning"
    /\ Goto(IF path = NoInode THEN IfNotRunning ELSE IfRunning)
    /\ UNCHANGED <<files, procs, runFile, op, pid>>

\* isRunning() is a failed trylock of the file that has the name now.
IsRunning ==
    /\ ctl = "isRunning"
    /\ \/ /\ path = NoInode
          /\ Goto(IfNotRunning)
          /\ UNCHANGED owner
       \/ /\ path # NoInode
          /\ owner[path] = NoPid
          /\ owner' = [owner EXCEPT ![path] = Tool]
          /\ Goto("probing")
       \/ /\ path # NoInode
          /\ owner[path] # NoPid
          /\ Goto(IfRunning)
          /\ UNCHANGED owner
    /\ UNCHANGED <<path, content, procs, runFile, op, pid>>

\* The tool's process ends and gives back the lock.
ToolEnds == owner' = [i \in Inodes |-> IF owner[i] = Tool THEN NoPid ELSE owner[i]]

\* trylock exits with 0.
ProbeExit ==
    /\ ctl = "probing"
    /\ ToolEnds
    /\ Goto(IfNotRunning)
    /\ UNCHANGED <<path, content, procs, runFile, op, pid>>

\* _run: the shell starts the daemon.
Run ==
    /\ ctl = "run"
    /\ \E p \in Pids :
         /\ daemon[p] = "none"
         /\ daemon' = [daemon EXCEPT ![p] = "spawned"]
         /\ pid' = p
    /\ Goto("starting")
    /\ UNCHANGED <<files, fd, termed, runFile, op>>

\* Mutant: the daemon is started in the background.
Mut_RunReturns ==
    /\ ctl = "starting"
    /\ pid' = NoPid
    /\ Goto(IF op = "start" THEN "touch" ELSE "idle")
    /\ UNCHANGED <<files, procs, runFile, op>>

\* start() returns.
RunReturns ==
    /\ ctl = "starting"
    /\ Late \/ daemon[pid] \in {"up", "none"}
    /\ pid' = NoPid
    /\ Goto(IF op = "start" THEN "touch" ELSE "idle")
    /\ UNCHANGED <<files, procs, runFile, op>>

\* start_module creates the runfile.
Touch ==
    /\ ctl = "touch"
    /\ runFile' = TRUE
    /\ Goto("idle")
    /\ UNCHANGED <<files, procs, op, pid>>

\* killWait reads the pid; a missing or empty file raises an exception, and
\* stop_module returns with the runfile in place.
ReadPid ==
    /\ ctl = "read"
    /\ IF path # NoInode /\ content[path] # NoPid
         THEN pid' = content[path] /\ Goto("kill")
         ELSE UNCHANGED pid /\ Goto("idle")
    /\ UNCHANGED <<files, procs, runFile, op>>

\* kill <pid>
Kill ==
    /\ ctl = "kill"
    /\ termed' = [termed EXCEPT ![pid] = daemon[pid] # "none"]
    /\ Goto("waitlock")
    /\ UNCHANGED <<files, daemon, fd, runFile, op, pid>>

\* waitlock opens the file; no file means no lock to wait for.
WaitLock ==
    /\ ctl = "waitlock"
    /\ Goto(IF path = NoInode THEN "unlink" ELSE "waiting")
    /\ UNCHANGED <<files, procs, runFile, op, pid>>

\* F_SETLKW returns.
Granted ==
    /\ ctl = "waiting"
    /\ owner[path] = NoPid
    /\ owner' = [owner EXCEPT ![path] = Tool]
    /\ Goto("granted")
    /\ UNCHANGED <<path, content, procs, runFile, op, pid>>

\* waitlock exits with 0.
WaitLockExit ==
    /\ ctl = "granted"
    /\ ToolEnds
    /\ Goto("unlink")
    /\ UNCHANGED <<path, content, procs, runFile, op, pid>>

\* Mutant: no alarm.
Mut_Expire ==
    /\ FALSE
    /\ UNCHANGED vars

\* The alarm: timeout exceeded.  It may hit waitlock when it has the lock.
Expire ==
    /\ ctl \in {"waiting", "granted"}
    /\ ToolEnds
    /\ Goto("kill9")
    /\ UNCHANGED <<path, content, procs, runFile, op, pid>>

\* Mutant: a daemon that does not end in time is left alone.
Mut_Kill9 ==
    /\ ctl = "kill9"
    /\ Goto("unlink")
    /\ UNCHANGED <<files, procs, runFile, op, pid>>

\* kill -9 <pid>
Kill9 ==
    /\ ctl = "kill9"
    /\ Gone(pid)
    /\ Goto("unlink")
    /\ UNCHANGED <<path, content, runFile, op, pid>>

\* killWait removes the lock file and stop() is successful.
Unlink ==
    /\ ctl = "unlink"
    /\ path' = NoInode
    /\ pid' = NoPid
    /\ Goto("rmrun")
    /\ UNCHANGED <<owner, content, procs, runFile, op>>

\* stop_module removes the runfile ...
RemoveRunFile ==
    /\ ctl = "rmrun"
    /\ runFile' = FALSE
    /\ Goto("rmpid")
    /\ UNCHANGED <<files, procs, op, pid>>

\* ... and whatever has the name of the lock file.
RemovePidFile ==
    /\ ctl = "rmpid"
    /\ path' = NoInode
    /\ Goto("idle")
    /\ UNCHANGED <<owner, content, procs, runFile, op, pid>>

\* The script and its tool are killed.
Abort ==
    /\ "abort" \in Faults
    /\ ctl # "idle"
    /\ ToolEnds
    /\ pid' = NoPid
    /\ Goto("idle")
    /\ UNCHANGED <<path, content, procs, runFile, op>>

-----------------------------------------------------------------------------
Daemon(p) == Open(p) \/ Lock(p) \/ LockFails(p) \/ Truncate(p) \/ WritePid(p)

Control ==
    \/ IsRunning \/ ProbeExit \/ Run \/ RunReturns \/ Touch
    \/ ReadPid \/ Kill \/ WaitLock \/ Granted \/ WaitLockExit \/ Expire \/ Kill9
    \/ Unlink \/ RemoveRunFile \/ RemovePidFile

Next ==
    \/ \E p \in Pids : Daemon(p) \/ Exit(p)
    \/ \E o \in Ops : Begin(o)
    \/ Control
    \/ Abort

Spec == Init /\ [][Next]_vars

\* The script and the start of a daemon make progress, and `seiscomp check' is
\* called again and again, as the crontab of SeisComP does.
FairSpec ==
    /\ Spec
    /\ WF_vars(Control)
    /\ \A p \in Pids : WF_vars(Daemon(p))
    /\ SF_vars(Begin("check"))

-----------------------------------------------------------------------------
(* Properties *)

\* isRunning() sees every daemon that works: its lock is on the file that has
\* the lock file's name, whatever was removed and created since it started.
LockVisible == \A p \in Pids : daemon[p] = "up" => fd[p] = path

\* The file a working daemon has locked names it: a second instance that opens
\* the file, and is turned away, does not disturb the pid.
PidOfOwner == \A p \in Pids : daemon[p] = "up" => content[fd[p]] = p

\* stop() and the removal of the runfile leave no process of the module behind:
\* the daemon has ended, or was killed, before the lock file is removed.
StopMeansDown ==
    ctl \in {"rmrun", "rmpid"} => \A p \in Pids : daemon[p] = "none"

\* kill and kill -9 hit the process that has the lock, or one that has ended: the
\* pid was read from a file that its owner had already rewritten.
KillsHolder ==
    [][ctl' # ctl /\ ctl \in {"kill", "kill9"} /\ daemon[pid] # "none"
         => path # NoInode /\ owner[path] = pid]_vars

\* Two daemons of one module never work at the same time: the working daemons
\* are the users of an exclusive lock.
Instance == INSTANCE Exclusive
              WITH Users <- Pids, inside <- { p \in Pids : daemon[p] \in Locked }
SingleInstance == Instance!Spec

\* A module that should run and does not is started again, however its daemon
\* died and whatever it left in the lock file.
Restarted ==
    (runFile /\ \A p \in Pids : daemon[p] = "none")
        ~> (~runFile \/ \E p \in Pids : daemon[p] # "none")

\* A handler that was called returns, even if the daemon ignores SIGTERM.
HandlersReturn == ctl # "idle" ~> ctl = "idle"
=============================================================================
