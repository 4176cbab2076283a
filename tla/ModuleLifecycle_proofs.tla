------------------------ MODULE ModuleLifecycle_proofs ------------------------
(***************************************************************************)
(* Proofs about ModuleLifecycle, for any number of daemons and files: the  *)
(* types, the pid in a locked file, and, when start() returns with the     *)
(* daemon up and the script is not killed, that there is one instance,     *)
(* that its lock is seen, and that stop() leaves nothing behind.           *)
(***************************************************************************)
EXTENDS ModuleLifecycle, TLAPS

\* After ftruncate the file is empty until its owner writes the pid.
PidInv == \A p \in Pids :
            /\ daemon[p] = "truncated" => content[fd[p]] = NoPid
            /\ daemon[p] = "up" => content[fd[p]] = p

\* The script has a pid where it uses one, and a file where waitlock waits.
ScriptInv == /\ ctl \in {"starting", "kill", "waitlock", "waiting", "granted",
                         "kill9"} => pid \in Pids
             /\ ctl = "waiting" => path # NoInode

LifeInv == TypeOK /\ PidInv /\ ScriptInv

-----------------------------------------------------------------------------
LEMMA LifeInvInit == Init => LifeInv
BY PidsAssumption, InodesAssumption DEF Init, LifeInv, TypeOK, PidInv,
   ScriptInv, DaemonPlaces, Locked, CtlPlaces, Ops

\* A process that ends takes its descriptor and its lock with it.
LEMMA GoneKeepsInv ==
  ASSUME LifeInv, NEW p \in Pids, Gone(p),
         UNCHANGED <<path, content, runFile, op, pid>>, ctl' \in CtlPlaces,
         ctl' \notin {"starting", "kill", "waitlock", "waiting", "granted", "kill9"}
           \/ ctl' = ctl
  PROVE  LifeInv'
<1> USE PidsAssumption, InodesAssumption
    DEF LifeInv, TypeOK, PidInv, ScriptInv, DaemonPlaces, Locked
<1>1. /\ daemon' \in [Pids -> DaemonPlaces]
      /\ fd' \in [Pids -> Inodes \cup {NoInode}]
      /\ termed' \in [Pids -> BOOLEAN]
      /\ owner' \in [Inodes -> Pids \cup {NoPid, Tool}]
  BY DEF Gone
<1>2. \A q \in Pids : q # p => daemon'[q] = daemon[q] /\ fd'[q] = fd[q]
  BY DEF Gone
<1>3. daemon'[p] = "none" /\ fd'[p] = NoInode
  BY DEF Gone
<1>4. \A i \in Inodes : owner'[i] = IF owner[i] = p THEN NoPid ELSE owner[i]
  BY DEF Gone
<1>5. \A q \in Pids : fd'[q] = NoInode <=> daemon'[q] \in {"none", "spawned"}
  BY <1>2, <1>3
<1>6. \A q \in Pids : daemon'[q] \in Locked => owner'[fd'[q]] = q
  BY <1>2, <1>3, <1>4
<1>7. \A i \in Inodes : owner'[i] \in Pids =>
        daemon'[owner'[i]] \in Locked /\ fd'[owner'[i]] = i
  BY <1>2, <1>4
<1>8. PidInv'
  BY <1>2, <1>3
<1> QED
  BY <1>1, <1>5, <1>6, <1>7, <1>8

\* The end of trylock or waitlock disturbs no daemon's lock.
LEMMA ToolEndsKeepsInv ==
  ASSUME LifeInv, ToolEnds, UNCHANGED <<path, content, procs, runFile, op>>,
         pid' \in Pids \cup {NoPid}, ctl' \in CtlPlaces,
         ctl' \in {"kill9"} => pid' = pid /\ pid \in Pids,
         ctl' \notin {"starting", "kill", "waitlock", "waiting", "granted"}
  PROVE  LifeInv'
<1> USE PidsAssumption, InodesAssumption
    DEF LifeInv, TypeOK, PidInv, ScriptInv, DaemonPlaces, Locked, procs
<1>1. owner' \in [Inodes -> Pids \cup {NoPid, Tool}]
  BY DEF ToolEnds
<1>2. \A i \in Inodes : owner'[i] = IF owner[i] = Tool THEN NoPid ELSE owner[i]
  BY DEF ToolEnds
<1> QED
  BY <1>1, <1>2

\* Each action preserves the types, the pids in the files and the script's pid.
LEMMA LifeInvStep == LifeInv /\ [Next]_vars => LifeInv'
<1> SUFFICES ASSUME LifeInv, [Next]_vars PROVE LifeInv'
  OBVIOUS
<1> USE PidsAssumption, InodesAssumption
    DEF LifeInv, TypeOK, PidInv, ScriptInv, DaemonPlaces, Locked, CtlPlaces,
        Ops, files, procs, script, Goto
<1>1. ASSUME NEW p \in Pids, Open(p)
      PROVE  LifeInv'
  <2>1. CASE path # NoInode
    BY <1>1, <2>1 DEF Open
  <2>2. CASE path = NoInode
    <3>1. PICK i \in FreeInodes : /\ path' = i
                                  /\ content' = [content EXCEPT ![i] = NoPid]
                                  /\ fd' = [fd EXCEPT ![p] = i]
      BY <1>1, <2>2 DEF Open
    <3>2. i \in Inodes /\ \A q \in Pids : fd[q] # i
      BY <3>1 DEF FreeInodes
    <3>3. /\ daemon[p] = "spawned"
          /\ daemon' = [daemon EXCEPT ![p] = "opened"]
          /\ UNCHANGED <<owner, termed, runFile, ctl, op, pid>>
      BY <1>1, <2>2 DEF Open
    <3>4. PidInv'
      BY <3>1, <3>2, <3>3
    <3>5. /\ path' \in Inodes /\ content' \in [Inodes -> Pids \cup {NoPid}]
          /\ daemon' \in [Pids -> DaemonPlaces]
          /\ fd' \in [Pids -> Inodes \cup {NoInode}]
      BY <3>1, <3>2, <3>3
    <3>6. \A q \in Pids : fd'[q] = NoInode <=> daemon'[q] \in {"none", "spawned"}
      BY <3>1, <3>2, <3>3
    <3>7. \A q \in Pids : daemon'[q] \in Locked => owner'[fd'[q]] = q
      BY <3>1, <3>2, <3>3
    <3>8. \A j \in Inodes : owner'[j] \in Pids =>
            daemon'[owner'[j]] \in Locked /\ fd'[owner'[j]] = j
      BY <3>1, <3>2, <3>3
    <3> QED
      BY <3>1, <3>2, <3>3, <3>4, <3>5, <3>6, <3>7, <3>8
  <2> QED
    BY <2>1, <2>2
<1>2. ASSUME NEW p \in Pids, Lock(p)
      PROVE  LifeInv'
  BY <1>2 DEF Lock
<1>3. ASSUME NEW p \in Pids, LockFails(p)
      PROVE  LifeInv'
  BY <1>3, GoneKeepsInv DEF LockFails
<1>4. ASSUME NEW p \in Pids, Truncate(p)
      PROVE  LifeInv'
  BY <1>4 DEF Truncate
<1>5. ASSUME NEW p \in Pids, WritePid(p)
      PROVE  LifeInv'
  BY <1>5 DEF WritePid
<1>6. ASSUME NEW p \in Pids, Exit(p)
      PROVE  LifeInv'
  BY <1>6, GoneKeepsInv DEF Exit
<1>7. ASSUME NEW o \in Ops, Begin(o)
      PROVE  LifeInv'
  BY <1>7 DEF Begin
<1>8. IfRunning \in {"touch", "read", "idle"}
      /\ IfNotRunning \in {"run", "rmrun", "idle"}
  BY DEF IfRunning, IfNotRunning
<1>9. CASE IsRunning
  BY <1>8, <1>9 DEF IsRunning
<1>10. CASE ProbeExit
  BY <1>8, <1>10, ToolEndsKeepsInv DEF ProbeExit
<1>11. CASE Run
  BY <1>11 DEF Run
<1>12. CASE RunReturns
  BY <1>12 DEF RunReturns
<1>13. CASE Touch
  BY <1>13 DEF Touch
<1>14. CASE ReadPid
  BY <1>14 DEF ReadPid
<1>15. CASE Kill
  BY <1>15 DEF Kill
<1>16. CASE WaitLock
  BY <1>16 DEF WaitLock
<1>17. CASE Granted
  BY <1>17 DEF Granted
<1>18. CASE WaitLockExit
  BY <1>18, ToolEndsKeepsInv DEF WaitLockExit
<1>19. CASE Expire
  BY <1>19, ToolEndsKeepsInv DEF Expire
<1>20. CASE Kill9
  BY <1>20, GoneKeepsInv DEF Kill9
<1>21. CASE Unlink
  BY <1>21 DEF Unlink
<1>22. CASE RemoveRunFile
  BY <1>22 DEF RemoveRunFile
<1>23. CASE RemovePidFile
  BY <1>23 DEF RemovePidFile
<1>24. CASE Abort
  BY <1>24, ToolEndsKeepsInv DEF Abort
<1>25. CASE UNCHANGED vars
  BY <1>25 DEF vars
<1> HIDE DEF LifeInv
<1> QED
  BY <1>1, <1>2, <1>3, <1>4, <1>5, <1>6, <1>7, <1>9, <1>10, <1>11, <1>12,
     <1>13, <1>14, <1>15, <1>16, <1>17, <1>18, <1>19, <1>20, <1>21, <1>22,
     <1>23, <1>24, <1>25 DEF Next, Daemon, Control

THEOREM LifeInvariant == Spec => []LifeInv
<1>1. Init => LifeInv
  BY LifeInvInit
<1>2. LifeInv /\ [Next]_vars => LifeInv'
  BY LifeInvStep
<1> QED
  BY <1>1, <1>2, PTL DEF Spec

\* The types are right, and exactly the daemons past F_SETLK own a lock, that of
\* the file they have open.
THEOREM TypeCorrectness == Spec => []TypeOK
<1>1. LifeInv => TypeOK
  BY DEF LifeInv
<1> QED
  BY <1>1, LifeInvariant, PTL

\* Under any race of starting, crashing and dying daemons with an early start()
\* or an aborted script, a working daemon's pid is in the file it has locked.
THEOREM PidIsOwners == Spec => []PidOfOwner
<1>1. LifeInv => PidOfOwner
  BY DEF LifeInv, PidInv, PidOfOwner
<1> QED
  BY <1>1, LifeInvariant, PTL

-----------------------------------------------------------------------------
(* start() returns with the daemon up or dead, and the script is not killed. *)

Timely == ~Late /\ "abort" \notin Faults

\* A daemon on its way up is the one the script waits for.
StartingInv == \A p \in Pids :
                 daemon[p] \in {"spawned", "opened", "locked", "truncated"}
                   => ctl = "starting" /\ pid = p

\* Every daemon has the file open that has the lock file's name.
OpenInv == \A p \in Pids : fd[p] # NoInode => fd[p] = path

\* While the script starts or stops a daemon there is no other.
AloneInv == ctl \in {"starting", "kill", "waitlock", "waiting", "granted",
                     "kill9"}
              => \A p \in Pids : daemon[p] # "none" => p = pid

\* The script has found, or made, the module stopped.
DownInv == ctl \in {"probing", "run", "granted", "unlink", "rmrun", "rmpid"}
             => \A p \in Pids : daemon[p] = "none"

TimelyInv == Timely => StartingInv /\ OpenInv /\ AloneInv /\ DownInv

LEMMA TimelyInvInit == Init => TimelyInv
BY PidsAssumption, InodesAssumption DEF Init, TimelyInv, StartingInv, OpenInv,
   AloneInv, DownInv

\* A file whose lock is free has no daemon, if none is on its way up.
LEMMA FreeLockMeansDown ==
  ASSUME LifeInv, StartingInv, OpenInv, ctl # "starting",
         path = NoInode \/ owner[path] \notin Pids
  PROVE  \A p \in Pids : daemon[p] = "none"
<1> SUFFICES ASSUME NEW p \in Pids, daemon[p] # "none" PROVE FALSE
  OBVIOUS
<1>1. daemon[p] = "up"
  BY DEF StartingInv, LifeInv, TypeOK, DaemonPlaces, Locked
<1>2. fd[p] # NoInode /\ owner[fd[p]] = p /\ fd[p] = path
  BY <1>1 DEF LifeInv, TypeOK, OpenInv, Locked
<1> QED
  BY <1>2

\* The death of a process preserves the invariant.
LEMMA GoneKeepsTimely ==
  ASSUME LifeInv, TimelyInv, Timely, NEW p \in Pids, Gone(p), path' = path,
         \/ UNCHANGED script
         \/ ctl = "kill9" /\ p = pid /\ ctl' = "unlink"
  PROVE  TimelyInv'
<1> USE DEF TimelyInv
<1>1. \A q \in Pids : q # p => daemon'[q] = daemon[q] /\ fd'[q] = fd[q]
  BY DEF Gone, LifeInv, TypeOK
<1>2. daemon'[p] = "none" /\ fd'[p] = NoInode
  BY DEF Gone, LifeInv, TypeOK
<1>3. CASE UNCHANGED script
  BY <1>1, <1>2, <1>3 DEF script, StartingInv, OpenInv, AloneInv, DownInv
<1>4. CASE ctl = "kill9" /\ p = pid /\ ctl' = "unlink"
  BY <1>1, <1>2, <1>4 DEF StartingInv, OpenInv, AloneInv, DownInv
<1> QED
  BY <1>3, <1>4

\* Each action preserves the invariant of the timely system.
LEMMA TimelyInvStep == LifeInv /\ TimelyInv /\ [Next]_vars => TimelyInv'
<1> SUFFICES ASSUME LifeInv, TimelyInv, Timely, [Next]_vars PROVE TimelyInv'
  BY DEF TimelyInv
<1> USE PidsAssumption, InodesAssumption
    DEF TimelyInv, files, procs, script, Goto
<1>1. ASSUME NEW p \in Pids, Open(p)
      PROVE  TimelyInv'
  <2>1. daemon[p] = "spawned" /\ ctl = "starting" /\ pid = p
    BY <1>1 DEF Open, StartingInv
  <2>2. \A q \in Pids : q # p => daemon[q] = "none" /\ fd[q] = NoInode
    BY <2>1 DEF AloneInv, LifeInv, TypeOK
  <2>3. /\ daemon' = [daemon EXCEPT ![p] = "opened"]
        /\ fd' = [fd EXCEPT ![p] = path']
        /\ UNCHANGED <<ctl, pid>>
    BY <1>1 DEF Open
  <2>4. \A q \in Pids : q # p => daemon'[q] = "none" /\ fd'[q] = NoInode
    BY <2>2, <2>3
  <2>5. fd'[p] = path'
    BY <2>3 DEF LifeInv, TypeOK
  <2> QED
    BY <2>1, <2>3, <2>4, <2>5 DEF StartingInv, OpenInv, AloneInv, DownInv
<1>2. ASSUME NEW p \in Pids, Lock(p) \/ Truncate(p) \/ WritePid(p)
      PROVE  TimelyInv'
  <2>1. daemon[p] \in {"opened", "locked", "truncated"}
        /\ UNCHANGED <<fd, path, ctl, pid>>
    BY <1>2 DEF Lock, Truncate, WritePid
  <2>2. \A q \in Pids : q # p => daemon'[q] = daemon[q]
    BY <1>2 DEF Lock, Truncate, WritePid, LifeInv, TypeOK
  <2> QED
    BY <2>1, <2>2 DEF StartingInv, OpenInv, AloneInv, DownInv
<1>3. ASSUME NEW p \in Pids, LockFails(p) \/ Exit(p)
      PROVE  TimelyInv'
  BY <1>3, GoneKeepsTimely DEF LockFails, Exit
<1>4. ASSUME NEW o \in Ops, Begin(o)
      PROVE  TimelyInv'
  BY <1>4 DEF Begin, StartingInv, OpenInv, AloneInv, DownInv
<1>5. IfRunning \in {"touch", "read", "idle"}
      /\ IfNotRunning \in {"run", "rmrun", "idle"}
  BY DEF IfRunning, IfNotRunning
<1>6. CASE IsRunning
  <2>1. ctl = "isRunning" /\ UNCHANGED <<path, daemon, fd, pid>>
    BY <1>6 DEF IsRunning
  <2>2. CASE path = NoInode \/ owner[path] \notin Pids
    <3>1. \A p \in Pids : daemon[p] = "none"
      BY <2>1, <2>2, FreeLockMeansDown
    <3>2. ctl' # "starting"
      BY <1>5, <1>6 DEF IsRunning
    <3> QED
      BY <2>1, <3>1, <3>2 DEF StartingInv, OpenInv, AloneInv, DownInv
  <2>3. CASE path # NoInode /\ owner[path] \in Pids
    <3>1. ctl' = IfRunning
      BY <1>6, <2>3 DEF IsRunning
    <3> QED
      BY <1>5, <2>1, <3>1 DEF StartingInv, OpenInv, AloneInv, DownInv
  <2> QED
    BY <2>2, <2>3 DEF LifeInv, TypeOK
<1>7. CASE ProbeExit
  BY <1>5, <1>7 DEF ProbeExit, StartingInv, OpenInv, AloneInv, DownInv
<1>8. CASE Run
  <2>1. PICK p \in Pids : daemon' = [daemon EXCEPT ![p] = "spawned"] /\ pid' = p
    BY <1>8 DEF Run
  <2>2. ctl = "run" /\ ctl' = "starting" /\ UNCHANGED <<fd, path>>
    BY <1>8 DEF Run
  <2>3. \A q \in Pids : q # p => daemon'[q] = "none"
    BY <2>1, <2>2 DEF DownInv
  <2> QED
    BY <2>1, <2>2, <2>3 DEF StartingInv, OpenInv, AloneInv, DownInv
<1>9. CASE RunReturns
  <2>1. /\ ctl = "starting" /\ daemon[pid] \in {"up", "none"}
        /\ ctl' \in {"touch", "idle"} /\ UNCHANGED <<path, daemon, fd>>
    BY <1>9 DEF RunReturns, Timely
  <2>2. \A p \in Pids : daemon[p] \in {"up", "none"}
    BY <2>1 DEF AloneInv
  <2> QED
    BY <2>1, <2>2 DEF StartingInv, OpenInv, AloneInv, DownInv
<1>10. CASE Touch
  BY <1>10 DEF Touch, StartingInv, OpenInv, AloneInv, DownInv
<1>11. CASE ReadPid
  <2>1. CASE path # NoInode /\ content[path] # NoPid
    <3>1. /\ ctl = "read" /\ ctl' = "kill" /\ pid' = content[path]
          /\ UNCHANGED <<path, daemon, fd>>
      BY <1>11, <2>1 DEF ReadPid
    <3>2. \A p \in Pids : daemon[p] # "none" => p = content[path]
      BY <3>1 DEF StartingInv, OpenInv, LifeInv, PidInv, TypeOK, DaemonPlaces,
         Locked
    <3> QED
      BY <3>1, <3>2 DEF StartingInv, OpenInv, AloneInv, DownInv
  <2>2. CASE ~(path # NoInode /\ content[path] # NoPid)
    BY <1>11, <2>2 DEF ReadPid, StartingInv, OpenInv, AloneInv, DownInv
  <2> QED
    BY <2>1, <2>2
<1>12. CASE Kill
  BY <1>12 DEF Kill, StartingInv, OpenInv, AloneInv, DownInv
<1>13. CASE WaitLock
  <2>1. path = NoInode => \A p \in Pids : daemon[p] = "none"
    BY <1>13, FreeLockMeansDown DEF WaitLock
  <2> QED
    BY <1>13, <2>1 DEF WaitLock, StartingInv, OpenInv, AloneInv, DownInv
<1>14. CASE Granted
  <2>1. \A p \in Pids : daemon[p] = "none"
    BY <1>14, FreeLockMeansDown DEF Granted
  <2> QED
    BY <1>14, <2>1 DEF Granted, StartingInv, OpenInv, AloneInv, DownInv
<1>15. CASE WaitLockExit \/ Expire
  BY <1>15 DEF WaitLockExit, Expire, StartingInv, OpenInv, AloneInv, DownInv
<1>16. CASE Kill9
  BY <1>16, GoneKeepsTimely DEF Kill9, LifeInv, ScriptInv
<1>17. CASE Unlink \/ RemovePidFile
  <2>1. \A p \in Pids : daemon[p] = "none" /\ fd[p] = NoInode
    BY <1>17 DEF Unlink, RemovePidFile, DownInv, LifeInv, TypeOK
  <2> QED
    BY <1>17, <2>1 DEF Unlink, RemovePidFile, StartingInv, OpenInv, AloneInv,
       DownInv
<1>18. CASE RemoveRunFile
  BY <1>18 DEF RemoveRunFile, StartingInv, OpenInv, AloneInv, DownInv
<1>19. CASE Abort
  BY <1>19 DEF Abort, Timely
<1>20. CASE UNCHANGED vars
  BY <1>20 DEF vars, StartingInv, OpenInv, AloneInv, DownInv
<1> QED
  BY <1>1, <1>2, <1>3, <1>4, <1>6, <1>7, <1>8, <1>9, <1>10, <1>11, <1>12,
     <1>13, <1>14, <1>15, <1>16, <1>17, <1>18, <1>19, <1>20
     DEF Next, Daemon, Control

THEOREM TimelyInvariant == Spec => [](LifeInv /\ TimelyInv)
<1>1. Init => LifeInv /\ TimelyInv
  BY LifeInvInit, TimelyInvInit
<1>2. LifeInv /\ TimelyInv /\ [Next]_vars => (LifeInv /\ TimelyInv)'
  BY LifeInvStep, TimelyInvStep
<1> QED
  BY <1>1, <1>2, PTL DEF Spec

\* isRunning() sees every working daemon, if start() returns with the daemon up.
THEOREM WorkingIsVisible == Spec => [](Timely => LockVisible)
<1>1. LifeInv /\ TimelyInv => (Timely => LockVisible)
  BY DEF LifeInv, TypeOK, TimelyInv, OpenInv, LockVisible
<1> QED
  BY <1>1, TimelyInvariant, PTL

\* Nothing of the module runs when stop_module removes its files.
THEOREM StopLeavesNothing == Spec => [](Timely => StopMeansDown)
<1>1. LifeInv /\ TimelyInv => (Timely => StopMeansDown)
  BY DEF TimelyInv, DownInv, StopMeansDown
<1> QED
  BY <1>1, TimelyInvariant, PTL

\* The signals of stop() go to the process that has the lock, or to one that has
\* ended: the pid that killWait read is the pid of the only daemon there is.
THEOREM SignalsHitHolder ==
  ASSUME Timely PROVE Spec => KillsHolder
<1>1. LifeInv /\ TimelyInv /\ [Next]_vars =>
        [ctl' # ctl /\ ctl \in {"kill", "kill9"} /\ daemon[pid] # "none"
           => path # NoInode /\ owner[path] = pid]_vars
  <2> SUFFICES ASSUME LifeInv, TimelyInv, ctl \in {"kill", "kill9"},
                      daemon[pid] # "none"
               PROVE  path # NoInode /\ owner[path] = pid
    OBVIOUS
  <2>1. pid \in Pids /\ daemon[pid] \in DaemonPlaces \ {"none"}
    BY DEF LifeInv, ScriptInv, TypeOK
  <2>2. daemon[pid] = "up"
    BY <2>1 DEF TimelyInv, StartingInv, DaemonPlaces, Locked
  <2> QED
    BY <2>1, <2>2, InodesAssumption
       DEF LifeInv, TypeOK, TimelyInv, OpenInv, Locked
<1> QED
  BY <1>1, TimelyInvariant, PTL DEF Spec, KillsHolder

-----------------------------------------------------------------------------
Inside == { p \in Pids : daemon[p] \in Locked }

\* The death of a process is a step of the abstract lock, or stutters.
LEMMA GoneLeaves ==
  ASSUME LifeInv, NEW p \in Pids, Gone(p)
  PROVE  Instance!Next \/ Inside' = Inside
<1>1. Inside' = Inside \ {p}
  BY DEF Gone, LifeInv, TypeOK, Inside, Locked
<1>2. CASE p \in Inside
  BY <1>1, <1>2 DEF Instance!Next, Instance!Leave, Inside
<1>3. CASE p \notin Inside
  BY <1>1, <1>3
<1> QED
  BY <1>2, <1>3

\* Every step of the module is a step of the abstract lock, or stutters.
LEMMA InstanceStep ==
  LifeInv /\ TimelyInv /\ TimelyInv' /\ LifeInv' /\ [Next]_vars
    => (Timely => [Instance!Next]_Inside)
<1> SUFFICES ASSUME LifeInv, TimelyInv, TimelyInv', LifeInv', Timely, [Next]_vars
             PROVE  Instance!Next \/ Inside' = Inside
  BY DEF Inside
<1>1. ASSUME NEW p \in Pids, Lock(p)
      PROVE  Instance!Next
  <2>1. p \in Inside' /\ p \notin Inside /\ \A q \in Inside : q \in Inside'
    BY <1>1 DEF Lock, Inside, Locked, LifeInv, TypeOK
  <2>2. Timely'
    BY DEF Timely
  <2>3. \A q \in Inside' : q = p
    <3>1. \A q \in Inside' : /\ fd'[q] # NoInode /\ owner'[fd'[q]] = q
                             /\ q \in Pids
      BY DEF Inside, LifeInv, TypeOK, Locked
    <3>2. \A q \in Inside' : fd'[q] = path'
      BY <2>2, <3>1 DEF TimelyInv, OpenInv
    <3> QED
      BY <2>1, <3>1, <3>2
  <2>4. Inside = {} /\ Inside' = {p}
    BY <2>1, <2>3
  <2> QED
    BY <2>4 DEF Instance!Next, Instance!Enter, Inside
<1>2. ASSUME NEW p \in Pids, Open(p) \/ Truncate(p) \/ WritePid(p)
      PROVE  Inside' = Inside
  BY <1>2 DEF Open, Truncate, WritePid, Inside, Locked, LifeInv, TypeOK
<1>3. ASSUME NEW p \in Pids, LockFails(p) \/ Exit(p)
      PROVE  Instance!Next \/ Inside' = Inside
  BY <1>3, GoneLeaves DEF LockFails, Exit
<1>4. CASE Run
  BY <1>4 DEF Run, Inside, Locked, LifeInv, TypeOK
<1>5. CASE Kill9
  BY <1>5, GoneLeaves DEF Kill9, LifeInv, ScriptInv
<1>6. CASE daemon' = daemon
  BY <1>6 DEF Inside
<1> QED
  BY <1>1, <1>2, <1>3, <1>4, <1>5, <1>6 DEF Next, Daemon, Control, Begin,
     IsRunning, ProbeExit, RunReturns, Touch, ReadPid, Kill, WaitLock, Granted,
     WaitLockExit, Expire, Unlink, RemoveRunFile, RemovePidFile, Abort, procs,
     vars

\* The daemons of a module that have their lock implement the exclusive lock.
THEOREM OneInstance ==
  ASSUME Timely PROVE Spec => SingleInstance
<1>1. Init => Instance!Init
  BY DEF Init, Instance!Init, Locked
<1>2. LifeInv /\ TimelyInv /\ (LifeInv /\ TimelyInv)' /\ [Next]_vars
        => [Instance!Next]_Inside
  BY InstanceStep
<1> QED
  BY <1>1, <1>2, TimelyInvariant, PTL DEF Spec, SingleInstance, Instance!Spec,
     Inside
=============================================================================
