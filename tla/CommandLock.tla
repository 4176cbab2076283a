----------------------------- MODULE CommandLock -----------------------------
(***************************************************************************)
(* The command lock of the `seiscomp' script: every command that changes   *)
(* the installation probes var/run/seiscomp.pid with trylock or waitlock   *)
(* (kernel.py tryLock) and then runs itself again under run_with_lock with *)
(* SEISCOMP_LOCK=TRUE in its environment, where the action is executed.    *)
(*                                                                         *)
(* A command is one invocation of the script; its processes (the script,   *)
(* the probe, run_with_lock and the action) are one thread of control,     *)
(* except for the action, which run_with_lock forks.  Covered: the race of *)
(* probes and guards for one fcntl lock, --wait with its alarm, nested     *)
(* invocations and daemons that inherit SEISCOMP_LOCK, termination signals *)
(* of run_with_lock, its death by SIGKILL, users who cannot write the lock *)
(* file.  Left out: fork and exec failures, I/O errors of the pid line.    *)
(***************************************************************************)
EXTENDS Naturals

CONSTANTS
    Commands,      \* invocations of the script
    Waits,         \* the --wait values in use, NoWait for none
    NoWait,        \* lockTimeout is None
    Unprivileged,  \* the commands whose user cannot open the lock file to write
    Faults,        \* which of "term", "kill", "daemon" may happen
    Nobody

ASSUME NobodyAssumption == Nobody \notin Commands
ASSUME WaitsAssumption == Waits \subseteq Nat \cup {NoWait}
ASSUME FaultsAssumption == Faults \subseteq {"term", "kill", "daemon"}

VARIABLES
    pc,        \* where each command is
    kind,      \* "locked", or "free" for actions_without_lock
    wait,      \* its lockTimeout
    env,       \* the command that put SEISCOMP_LOCK in its environment
    above,     \* the commands whose actions wait for it, directly or not
    action,    \* its action: "none", "running" or "ended"
    signal,    \* a signal sent to its run_with_lock: "none", "pending", "sent"
    holder,    \* the command whose process holds the fcntl lock
    lockFile   \* the lock file exists

vars == <<pc, kind, wait, env, above, action, signal, holder, lockFile>>

Probing == {"probing"}
Guarding == {"acquired", "guarding", "reaped"}
Finished == {"done", "refused", "timedout", "busy", "failed", "killed"}
Places == Probing \cup Guarding \cup Finished
            \cup {"new", "invoked", "waiting", "probed", "direct"}

\* Every command that holds the lock: a probe that got it, or a guard.
Holding == Probing \cup Guarding

TypeOK ==
    /\ pc \in [Commands -> Places]
    /\ kind \in [Commands -> {"locked", "free"}]
    /\ wait \in [Commands -> Waits \cup {NoWait}]
    /\ env \in [Commands -> Commands \cup {Nobody}]
    /\ above \in [Commands -> SUBSET Commands]
    /\ action \in [Commands -> {"none", "running", "ended"}]
    /\ signal \in [Commands -> {"none", "pending", "sent"}]
    /\ holder \in Commands \cup {Nobody}
    /\ lockFile \in BOOLEAN
    /\ holder # Nobody => lockFile  \* the lock is a lock of the file

Init ==
    /\ pc = [c \in Commands |-> "new"]
    /\ kind = [c \in Commands |-> "locked"]
    /\ wait = [c \in Commands |-> NoWait]
    /\ env = [c \in Commands |-> Nobody]
    /\ above = [c \in Commands |-> {}]
    /\ action = [c \in Commands |-> "none"]
    /\ signal = [c \in Commands |-> "none"]
    /\ holder = Nobody
    /\ lockFile \in BOOLEAN

Goto(c, place) == pc' = [pc EXCEPT ![c] = place]

-----------------------------------------------------------------------------
(* Invocation *)

\* Whose SEISCOMP_LOCK the processes started by c's action inherit.
EnvBelow(c) == IF env[c] # Nobody THEN env[c]
               ELSE IF kind[c] = "locked" THEN c ELSE Nobody

\* The head of the script: isChild runs the action at once.
Invoke(c, e, callers) ==
    /\ pc[c] = "new"
    /\ \E k \in {"locked", "free"}, w \in Waits :
         /\ k = "free" => w = NoWait
         /\ kind' = [kind EXCEPT ![c] = k]
         /\ wait' = [wait EXCEPT ![c] = w]
         /\ IF k = "free" \/ e # Nobody
              THEN /\ Goto(c, "direct")
                   /\ action' = [action EXCEPT ![c] = "running"]
              ELSE /\ Goto(c, "invoked")
                   /\ UNCHANGED action
    /\ env' = [env EXCEPT ![c] = e]
    /\ above' = [above EXCEPT ![c] = callers]
    /\ UNCHANGED <<signal, holder, lockFile>>

InvokeFromShell(c) == Invoke(c, Nobody, {})

\* An action that runs `seiscomp' and waits for it.
InvokeFromAction(c, p) ==
    /\ action[p] = "running"
    /\ Invoke(c, EnvBelow(p), above[p] \cup {p})

\* A daemon started by p's action runs `seiscomp' at any later time.
InvokeFromDaemon(c, p) ==
    /\ "daemon" \in Faults
    /\ kind[p] = "locked"
    /\ action[p] # "none"
    /\ Invoke(c, EnvBelow(p), {})

-----------------------------------------------------------------------------
(* env.tryLock: trylock without a timeout, waitlock with one *)

\* Neither tool can open the file: both report the lock as free.
ProbeUnopened(c) ==
    /\ pc[c] = "invoked"
    /\ ~lockFile \/ c \in Unprivileged
    /\ Goto(c, "probed")
    /\ UNCHANGED <<kind, wait, env, above, action, signal, holder, lockFile>>

\* trylock: F_SETLK does not wait.
TryLock(c) ==
    /\ pc[c] = "invoked"
    /\ lockFile /\ c \notin Unprivileged
    /\ wait[c] = NoWait
    /\ IF holder = Nobody
         THEN Goto(c, "probing") /\ holder' = c
         ELSE Goto(c, "refused") /\ UNCHANGED holder
    /\ UNCHANGED <<kind, wait, env, above, action, signal, lockFile>>

\* waitlock sets the alarm and then waits in F_SETLKW.
WaitLock(c) ==
    /\ pc[c] = "invoked"
    /\ lockFile /\ c \notin Unprivileged
    /\ wait[c] # NoWait
    /\ Goto(c, "waiting")
    /\ UNCHANGED <<kind, wait, env, above, action, signal, holder, lockFile>>

\* F_SETLKW returns.
Grab(c) ==
    /\ pc[c] = "waiting"
    /\ holder = Nobody
    /\ holder' = c
    /\ Goto(c, "probing")
    /\ UNCHANGED <<kind, wait, env, above, action, signal, lockFile>>

\* Mutant: the alarm is set after F_SETLKW.
Mut_Expire(c) ==
    /\ pc[c] = "probing" /\ wait[c] # NoWait
    /\ wait[c] # 0
    /\ Goto(c, "timedout")
    /\ holder' = Nobody
    /\ UNCHANGED <<kind, wait, env, above, action, signal, lockFile>>

\* The alarm goes off, before the lock is granted or just after: it is not
\* cancelled by the grant.  alarm(0) sets no alarm.
Expire(c) ==
    /\ \/ pc[c] = "waiting"
       \/ pc[c] = "probing" /\ wait[c] # NoWait
    /\ wait[c] # 0
    /\ Goto(c, "timedout")
    /\ holder' = IF holder = c THEN Nobody ELSE holder
    /\ UNCHANGED <<kind, wait, env, above, action, signal, lockFile>>

\* Mutant: the probe's lock outlives it.
Mut_ProbeExit(c) ==
    /\ pc[c] = "probing"
    /\ Goto(c, "probed")
    /\ UNCHANGED <<kind, wait, env, above, action, signal, holder, lockFile>>

\* The probe exits with status 0 and its lock goes with it.
ProbeExit(c) ==
    /\ pc[c] = "probing"
    /\ holder' = Nobody
    /\ Goto(c, "probed")
    /\ UNCHANGED <<kind, wait, env, above, action, signal, lockFile>>

-----------------------------------------------------------------------------
(* run_with_lock *)

\* Mutant: the result of F_SETLK is not looked at.
Mut_Acquire(c) ==
    /\ pc[c] = "probed"
    /\ c \notin Unprivileged
    /\ lockFile' = TRUE
    /\ Goto(c, "acquired") /\ holder' = c
    /\ UNCHANGED <<kind, wait, env, above, action, signal>>

\* acquire_lock, with the termination signals blocked: creates the file,
\* F_SETLK, exit 255 when somebody else has the lock.
Acquire(c) ==
    /\ pc[c] = "probed"
    /\ c \notin Unprivileged
    /\ lockFile' = TRUE
    /\ IF holder = Nobody
         THEN Goto(c, "acquired") /\ holder' = c
         ELSE Goto(c, "busy") /\ UNCHANGED holder
    /\ UNCHANGED <<kind, wait, env, above, action, signal>>

\* acquire_lock cannot open the file: exit 1.
AcquireDenied(c) ==
    /\ pc[c] = "probed"
    /\ c \in Unprivileged
    /\ Goto(c, "failed")
    /\ UNCHANGED <<kind, wait, env, above, action, signal, holder, lockFile>>

\* The child executes the script again, which finds SEISCOMP_LOCK and runs the
\* action; the parent installs pass_signal and unblocks the signals.
Fork(c) ==
    /\ pc[c] = "acquired"
    /\ action' = [action EXCEPT ![c] = "running"]
    /\ Goto(c, "guarding")
    /\ UNCHANGED <<kind, wait, env, above, signal, holder, lockFile>>

\* Somebody sends INT, TERM or HUP to run_with_lock: blocked until the child
\* exists, passed on while it is awaited.  After waitpid it goes to a process
\* that no longer exists, or is kept until the old disposition is back and then
\* kills run_with_lock.
Term(c) ==
    /\ "term" \in Faults
    /\ signal[c] = "none"
    /\ \/ /\ pc[c] \in {"acquired", "guarding"}
          /\ signal' = [signal EXCEPT ![c] = "pending"]
          /\ UNCHANGED <<pc, holder>>
       \/ /\ pc[c] = "reaped"
          /\ signal' = [signal EXCEPT ![c] = "sent"]
          /\ \/ UNCHANGED <<pc, holder>>
             \/ Goto(c, "killed") /\ holder' = Nobody
    /\ UNCHANGED <<kind, wait, env, above, action, lockFile>>

\* Mutant: the handler does not forward.
Mut_PassSignal(c) ==
    /\ pc[c] = "guarding"
    /\ signal[c] = "pending"
    /\ signal' = [signal EXCEPT ![c] = "sent"]
    /\ UNCHANGED <<pc, kind, wait, env, above, action, holder, lockFile>>

\* pass_signal: the action is a process with default signal handling and dies.
\* The commands it runs are not signalled.
PassSignal(c) ==
    /\ pc[c] = "guarding"
    /\ signal[c] = "pending"
    /\ signal' = [signal EXCEPT ![c] = "sent"]
    /\ action' = [action EXCEPT ![c] = "ended"]
    /\ UNCHANGED <<pc, kind, wait, env, above, holder, lockFile>>

\* Mutant: the parent does not wait for its child.
Mut_Reap(c) ==
    /\ pc[c] = "guarding"
    /\ Goto(c, "reaped")
    /\ UNCHANGED <<kind, wait, env, above, action, signal, holder, lockFile>>

\* waitpid returns.
Reap(c) ==
    /\ pc[c] = "guarding"
    /\ action[c] = "ended"
    /\ Goto(c, "reaped")
    /\ UNCHANGED <<kind, wait, env, above, action, signal, holder, lockFile>>

\* Mutant: the lock is released before waitpid.
Mut_Release(c) ==
    /\ pc[c] \in {"guarding", "reaped"}
    /\ holder' = Nobody
    /\ Goto(c, "done")
    /\ UNCHANGED <<kind, wait, env, above, action, signal, lockFile>>

\* Mutant: the descriptor leaks to a process that outlives run_with_lock.
Mut_Release_Leak(c) ==
    /\ pc[c] = "reaped"
    /\ Goto(c, "done")
    /\ UNCHANGED <<kind, wait, env, above, action, signal, holder, lockFile>>

\* release_lock, and run_with_lock ends the way its child did.
Release(c) ==
    /\ pc[c] = "reaped"
    /\ holder' = Nobody
    /\ Goto(c, "done")
    /\ UNCHANGED <<kind, wait, env, above, action, signal, lockFile>>

\* SIGKILL of run_with_lock: the lock is gone, the action goes on.
Kill(c) ==
    /\ "kill" \in Faults
    /\ pc[c] \in Guarding
    /\ holder' = Nobody
    /\ Goto(c, "killed")
    /\ UNCHANGED <<kind, wait, env, above, action, signal, lockFile>>

\* run_action returns: not before every command it waits for has ended.
EndAction(c) ==
    /\ action[c] = "running"
    /\ \A d \in Commands : c \in above[d] => pc[d] \in Finished
    /\ action' = [action EXCEPT ![c] = "ended"]
    /\ IF pc[c] = "direct" THEN Goto(c, "done") ELSE UNCHANGED pc
    /\ UNCHANGED <<kind, wait, env, above, signal, holder, lockFile>>

-----------------------------------------------------------------------------
\* A step of the tools, which the operating system keeps scheduling.
Tool(c) ==
    \/ ProbeUnopened(c) \/ TryLock(c) \/ WaitLock(c) \/ Grab(c) \/ Expire(c)
    \/ ProbeExit(c) \/ Acquire(c) \/ AcquireDenied(c) \/ Fork(c)
    \/ PassSignal(c) \/ Reap(c) \/ Release(c)

Next ==
    \E c \in Commands :
        \/ InvokeFromShell(c)
        \/ \E p \in Commands : InvokeFromAction(c, p) \/ InvokeFromDaemon(c, p)
        \/ Tool(c)
        \/ Term(c) \/ Kill(c) \/ EndAction(c)

Spec == Init /\ [][Next]_vars

\* The tools run; an action may take for ever.
ToolSpec == Spec /\ \A c \in Commands : WF_vars(Tool(c))

-----------------------------------------------------------------------------
(* Properties *)

\* acquire_lock and release_lock make run_with_lock a critical section: two
\* guards never coexist, whatever probes, alarms, signals and kills do.
GuardedExclusion ==
    \A c, d \in Commands : pc[c] \in Guarding /\ pc[d] \in Guarding => c = d

\* The command under whose lock c's action runs.
Root(c) == IF env[c] = Nobody THEN c ELSE env[c]

\* Every running action of a command that needs the lock is covered by it: its
\* own guard holds the lock, or the guard whose SEISCOMP_LOCK it inherited.  Not
\* covered are actions whose guard was killed, what a signalled action leaves
\* behind, and what a daemon runs that kept SEISCOMP_LOCK.
LockCoversAction ==
    \A c \in Commands : LET r == Root(c) IN
        /\ action[c] = "running" /\ kind[c] = "locked"
        /\ pc[r] # "killed"
        /\ r = c \/ (r \in above[c] /\ signal[r] = "none")
        => holder = r

\* run_with_lock gives the lock up only when its child is dead (waitpid before
\* release_lock), unless it is killed itself.
HandOver ==
    [][\A c \in Commands :
         pc[c] \in Guarding /\ holder' # holder
            => action[c] = "ended" \/ pc'[c] = "killed"]_vars

\* Commands from a shell that may open the lock file.
Contenders == { c \in Commands : kind[c] = "locked" /\ pc[c] # "new"
                    /\ env[c] = Nobody /\ c \notin Unprivileged }

\* Contention never refuses everybody: although a probe holds the very lock it
\* asks for, and makes other probes and guards fail, the commands that compete
\* cannot all be turned away.  When all commands are over one of them has had
\* its action run, was killed, or gave up waiting (the alarm).
SomebodyRuns ==
    (Contenders # {} /\ \A c \in Commands : pc[c] \in Finished \cup {"new"})
        => \E c \in Contenders : pc[c] \in {"done", "killed", "timedout"}

\* Once no more actions run every command comes to its end: no tool waits for
\* anything but an action, the lock is always handed on, and waiting for it
\* without a limit (--wait 0) ends when the others do.
EveryCommandEnds ==
    <>[](\A c \in Commands : action[c] # "running")
        => \A c \in Commands : pc[c] # "new" ~> pc[c] \in Finished

\* --wait bounds the wait for the lock, even when the action of the command that
\* holds it never returns.
WaitBounded ==
    \A c \in Commands : pc[c] = "waiting" /\ wait[c] # 0 ~> pc[c] # "waiting"

\* A signal sent to run_with_lock while it has a child to wait for, or is about
\* to fork it, ends the action: blocking the signals loses none.
SignalReachesAction ==
    \A c \in Commands :
        signal[c] = "pending" /\ pc[c] # "killed"
            ~> action[c] = "ended" \/ pc[c] = "killed"

\* The guards of run_with_lock are the users of an exclusive lock.
Lock == INSTANCE Exclusive
            WITH Users <- Commands,
                 inside <- { c \in Commands : pc[c] \in Guarding }
LockSpec == Lock!Spec
=============================================================================
