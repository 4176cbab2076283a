-------------------------- MODULE CommandLock_proofs --------------------------
(***************************************************************************)
(* Proofs about CommandLock, for any set of commands: the lock has one     *)
(* holder, run_with_lock is a critical section that refines Exclusive, and *)
(* the lock covers every action that needs it.                             *)
(***************************************************************************)
EXTENDS CommandLock, TLAPS

\* A process has the fcntl lock exactly when it is in a place that holds it.
HolderInv == \A c \in Commands : pc[c] \in Holding <=> holder = c

\* waitpid has returned, so the action is over.
ReapedInv == \A c \in Commands : pc[c] = "reaped" => action[c] = "ended"

\* waitlock waits for the lock of a file that it found, and nothing removes it.
WaitingInv == \A c \in Commands : pc[c] = "waiting" => lockFile

LockInv == TypeOK /\ HolderInv /\ ReapedInv /\ WaitingInv

-----------------------------------------------------------------------------
LEMMA LockInvInit == Init => LockInv
BY NobodyAssumption DEF Init, LockInv, TypeOK, HolderInv, ReapedInv, WaitingInv,
        Places,
     Probing, Guarding, Finished, Holding

\* Each action preserves the types, the place of the lock, and waitpid's promise.
LEMMA LockInvStep == LockInv /\ [Next]_vars => LockInv'
<1> SUFFICES ASSUME LockInv, [Next]_vars PROVE LockInv'
  OBVIOUS
<1> USE NobodyAssumption, WaitsAssumption
    DEF LockInv, TypeOK, HolderInv, ReapedInv, WaitingInv, Places, Probing,
        Guarding, Finished, Holding, Goto
<1>1. ASSUME NEW c \in Commands, NEW e \in Commands \cup {Nobody},
             NEW callers \in SUBSET Commands, Invoke(c, e, callers)
      PROVE  LockInv'
  BY <1>1 DEF Invoke
<1>2. ASSUME NEW c \in Commands, InvokeFromShell(c)
      PROVE  LockInv'
  BY <1>1, <1>2 DEF InvokeFromShell
<1>3. ASSUME NEW c \in Commands, NEW p \in Commands, InvokeFromAction(c, p)
      PROVE  LockInv'
  <2>1. EnvBelow(p) \in Commands \cup {Nobody}
    BY DEF EnvBelow
  <2>2. above[p] \cup {p} \in SUBSET Commands
    OBVIOUS
  <2> QED
    BY <1>1, <1>3, <2>1, <2>2 DEF InvokeFromAction
<1>4. ASSUME NEW c \in Commands, NEW p \in Commands, InvokeFromDaemon(c, p)
      PROVE  LockInv'
  <2>1. EnvBelow(p) \in Commands \cup {Nobody}
    BY DEF EnvBelow
  <2> QED
    BY <1>1, <1>4, <2>1 DEF InvokeFromDaemon
<1>5. ASSUME NEW c \in Commands, ProbeUnopened(c)
      PROVE  LockInv'
  BY <1>5 DEF ProbeUnopened
<1>6. ASSUME NEW c \in Commands, TryLock(c)
      PROVE  LockInv'
  BY <1>6 DEF TryLock
<1>7. ASSUME NEW c \in Commands, WaitLock(c)
      PROVE  LockInv'
  BY <1>7 DEF WaitLock
<1>8. ASSUME NEW c \in Commands, Grab(c)
      PROVE  LockInv'
  BY <1>8 DEF Grab
<1>9. ASSUME NEW c \in Commands, Expire(c)
      PROVE  LockInv'
  BY <1>9 DEF Expire
<1>10. ASSUME NEW c \in Commands, ProbeExit(c)
       PROVE  LockInv'
  BY <1>10 DEF ProbeExit
<1>11. ASSUME NEW c \in Commands, Acquire(c)
       PROVE  LockInv'
  BY <1>11 DEF Acquire
<1>12. ASSUME NEW c \in Commands, AcquireDenied(c)
       PROVE  LockInv'
  BY <1>12 DEF AcquireDenied
<1>13. ASSUME NEW c \in Commands, Fork(c)
       PROVE  LockInv'
  BY <1>13 DEF Fork
<1>14. ASSUME NEW c \in Commands, PassSignal(c)
       PROVE  LockInv'
  BY <1>14 DEF PassSignal
<1>15. ASSUME NEW c \in Commands, Reap(c)
       PROVE  LockInv'
  BY <1>15 DEF Reap
<1>16. ASSUME NEW c \in Commands, Release(c)
       PROVE  LockInv'
  BY <1>16 DEF Release
<1>17. ASSUME NEW c \in Commands, Term(c)
       PROVE  LockInv'
  BY <1>17 DEF Term
<1>18. ASSUME NEW c \in Commands, Kill(c)
       PROVE  LockInv'
  BY <1>18 DEF Kill
<1>19. ASSUME NEW c \in Commands, EndAction(c)
       PROVE  LockInv'
  BY <1>19 DEF EndAction
<1>20. CASE UNCHANGED vars
  BY <1>20 DEF vars
<1> QED
  BY <1>2, <1>3, <1>4, <1>5, <1>6, <1>7, <1>8, <1>9, <1>10, <1>11, <1>12,
     <1>13, <1>14, <1>15, <1>16, <1>17, <1>18, <1>19, <1>20 DEF Next, Tool

-----------------------------------------------------------------------------
\* In every reachable state the types are right, the lock is where the places
\* of the commands say, and what run_with_lock has reaped is over.
THEOREM LockInvariant == Spec => []LockInv
<1>1. Init => LockInv
  BY LockInvInit
<1>2. LockInv /\ [Next]_vars => LockInv'
  BY LockInvStep
<1> QED
  BY <1>1, <1>2, PTL DEF Spec

\* Type correctness, and the lock is only ever held on an existing file.
THEOREM TypeCorrectness == Spec => []TypeOK
<1>1. LockInv => TypeOK
  BY DEF LockInv
<1> QED
  BY <1>1, LockInvariant, PTL

\* Two run_with_lock processes are never in their critical section together,
\* under any faults and for any number of commands.
THEOREM GuardsExclude == Spec => []GuardedExclusion
<1>1. LockInv => GuardedExclusion
  BY DEF LockInv, HolderInv, GuardedExclusion, Holding
<1> QED
  BY <1>1, LockInvariant, PTL

\* A step takes the lock from a guard only if the child of the guard is over or
\* the guard is killed.
LEMMA HandOverStep ==
  LockInv /\ [Next]_vars =>
      [\A c \in Commands :
         pc[c] \in Guarding /\ holder' # holder
            => action[c] = "ended" \/ pc'[c] = "killed"]_vars
<1> SUFFICES ASSUME LockInv, Next, NEW g \in Commands,
                    pc[g] \in Guarding, holder' # holder
             PROVE  action[g] = "ended" \/ pc'[g] = "killed"
  BY DEF vars
<1>1. holder = g
  BY DEF LockInv, HolderInv, Holding
<1>2. PICK c \in Commands :
        \/ InvokeFromShell(c)
        \/ \E p \in Commands : InvokeFromAction(c, p) \/ InvokeFromDaemon(c, p)
        \/ Tool(c) \/ Term(c) \/ Kill(c) \/ EndAction(c)
  BY DEF Next
<1>3. CASE c = g
  <2>1. pc[g] \notin {"new", "invoked", "waiting", "probing", "probed"}
    BY DEF Guarding
  <2>2. CASE Release(g)
    BY <2>1, <2>2 DEF Release, LockInv, ReapedInv
  <2>3. CASE Kill(g)
    BY <2>3 DEF Kill, Goto, LockInv, TypeOK
  <2>4. CASE Term(g)
    BY <2>4, <1>1 DEF Term, Goto, LockInv, TypeOK
  <2> QED
    BY <1>2, <1>3, <2>1, <2>2, <2>3, <2>4 DEF Tool, InvokeFromShell,
       InvokeFromAction, InvokeFromDaemon, Invoke, ProbeUnopened, TryLock,
       WaitLock, Grab, Expire, ProbeExit, Acquire, AcquireDenied, Fork,
       PassSignal, Reap, EndAction
<1>4. CASE c # g
  <2>1. pc[c] \notin Holding /\ holder # Nobody
    BY <1>1, <1>4, NobodyAssumption DEF LockInv, HolderInv
  <2>2. holder # c
    BY <1>1, <1>4
  <2> QED
    BY <1>2, <2>1, <2>2 DEF Tool, InvokeFromShell,
       InvokeFromAction, InvokeFromDaemon, Invoke, ProbeUnopened, TryLock,
       WaitLock, Grab, Expire, ProbeExit, Acquire, AcquireDenied, Fork,
       PassSignal, Reap, Release, Term, Kill, EndAction, Holding, Probing,
       Guarding
<1> QED
  BY <1>3, <1>4

\* run_with_lock never gives the lock up while its child runs.
THEOREM LockHandedOver == Spec => HandOver
<1>1. LockInv /\ [Next]_vars =>
        [\A c \in Commands :
           pc[c] \in Guarding /\ holder' # holder
              => action[c] = "ended" \/ pc'[c] = "killed"]_vars
  BY HandOverStep
<1> QED
  BY <1>1, LockInvariant, PTL DEF Spec, HandOver

-----------------------------------------------------------------------------
Guards == { c \in Commands : pc[c] \in Guarding }

\* A step that moves no command into or out of the critical section.
LEMMA SameGuards ==
  ASSUME TypeOK, NEW c \in Commands, NEW place, Goto(c, place),
         pc[c] \in Guarding <=> place \in Guarding
  PROVE  Guards' = Guards
BY DEF Goto, TypeOK, Guards

\* A step that moves the holder of the lock out of the critical section.
LEMMA GuardLeaves ==
  ASSUME LockInv, NEW c \in Commands, NEW place, Goto(c, place),
         pc[c] \in Guarding, place \notin Guarding
  PROVE  Lock!Leave(c)
<1>1. c \in Guards /\ Guards' = Guards \ {c}
  BY DEF Goto, LockInv, TypeOK, Guards
<1> QED
  BY <1>1 DEF Lock!Leave, Guards

\* Acquire moves a command in when nobody has the lock: nobody is inside.
LEMMA GuardEnters ==
  ASSUME LockInv, NEW c \in Commands, holder = Nobody, Goto(c, "acquired")
  PROVE  Lock!Enter(c)
<1>1. Guards = {}
  BY NobodyAssumption DEF LockInv, HolderInv, Holding, Guards
<1>2. Guards' = {c}
  BY <1>1 DEF Goto, LockInv, TypeOK, Guards, Guarding
<1> QED
  BY <1>1, <1>2 DEF Lock!Enter, Guards

\* Every step of the commands is a step of the abstract lock, or stutters.
LEMMA LockStep == LockInv /\ [Next]_vars => [Lock!Next]_Guards
<1> SUFFICES ASSUME LockInv, [Next]_vars
             PROVE  Lock!Next \/ Guards' = Guards
  BY DEF Guards
<1>1. TypeOK
  BY DEF LockInv
<1>2. ASSUME NEW c \in Commands,
             \/ InvokeFromShell(c)
             \/ \E p \in Commands : InvokeFromAction(c, p) \/ InvokeFromDaemon(c, p)
      PROVE  Guards' = Guards
  <2>1. pc[c] = "new" /\ (Goto(c, "direct") \/ Goto(c, "invoked"))
    BY <1>2 DEF InvokeFromShell, InvokeFromAction, InvokeFromDaemon, Invoke
  <2> QED
    BY <1>1, <2>1, SameGuards DEF Guarding
<1>3. ASSUME NEW c \in Commands,
             \/ ProbeUnopened(c) \/ TryLock(c) \/ WaitLock(c) \/ Grab(c)
             \/ Expire(c) \/ ProbeExit(c) \/ AcquireDenied(c)
      PROVE  Guards' = Guards
  <2>1. pc[c] \in {"invoked", "waiting", "probing", "probed"}
    BY <1>3 DEF ProbeUnopened, TryLock, WaitLock, Grab, Expire, ProbeExit,
       AcquireDenied
  <2>2. \/ Goto(c, "probed") \/ Goto(c, "probing") \/ Goto(c, "refused")
        \/ Goto(c, "waiting") \/ Goto(c, "timedout") \/ Goto(c, "failed")
    BY <1>3 DEF ProbeUnopened, TryLock, WaitLock, Grab, Expire, ProbeExit,
       AcquireDenied
  <2> QED
    BY <1>1, <2>1, <2>2, SameGuards DEF Guarding
<1>4. ASSUME NEW c \in Commands, Acquire(c)
      PROVE  Lock!Next \/ Guards' = Guards
  <2>1. CASE holder = Nobody
    BY <1>4, <2>1, GuardEnters DEF Acquire, Lock!Next
  <2>2. CASE holder # Nobody
    BY <1>1, <1>4, <2>2, SameGuards DEF Acquire, Guarding
  <2> QED
    BY <2>1, <2>2
<1>5. ASSUME NEW c \in Commands, Fork(c) \/ Reap(c)
      PROVE  Guards' = Guards
  BY <1>1, <1>5, SameGuards DEF Fork, Reap, Guarding
<1>6. ASSUME NEW c \in Commands, Release(c) \/ Kill(c)
      PROVE  Lock!Next
  BY <1>6, GuardLeaves DEF Release, Kill, Guarding, Lock!Next
<1>7. ASSUME NEW c \in Commands, Term(c)
      PROVE  Lock!Next \/ Guards' = Guards
  <2>1. CASE pc' = pc
    BY <2>1 DEF Guards
  <2>2. CASE pc[c] = "reaped" /\ Goto(c, "killed")
    BY <2>2, GuardLeaves DEF Guarding, Lock!Next
  <2> QED
    BY <1>7, <2>1, <2>2 DEF Term
<1>8. ASSUME NEW c \in Commands, PassSignal(c) \/ EndAction(c)
      PROVE  Guards' = Guards
  <2>1. CASE pc' = pc
    BY <2>1 DEF Guards
  <2>2. CASE pc[c] = "direct" /\ Goto(c, "done")
    BY <1>1, <2>2, SameGuards DEF Guarding
  <2> QED
    BY <1>8, <2>1, <2>2 DEF PassSignal, EndAction
<1>9. CASE UNCHANGED vars
  BY <1>9 DEF vars, Guards
<1> QED
  BY <1>2, <1>3, <1>4, <1>5, <1>6, <1>7, <1>8, <1>9 DEF Next, Tool

\* run_with_lock implements the abstract exclusive lock.
THEOREM ImplementsExclusive == Spec => LockSpec
<1>1. Init => Lock!Init
  BY DEF Init, Lock!Init, Guarding
<1>2. LockInv /\ [Next]_vars => [Lock!Next]_Guards
  BY LockStep
<1> QED
  BY <1>1, <1>2, LockInvariant, PTL DEF Spec, LockSpec, Lock!Spec, Guards

-----------------------------------------------------------------------------
(* The lock covers the actions. *)

\* A command that was not invoked yet has no action.
NewInv == \A c \in Commands : pc[c] = "new" => action[c] = "none"

\* An action runs under its guard, directly, or on its own when its guard was
\* killed.
RunningInv == \A c \in Commands :
                action[c] = "running" => pc[c] \in {"direct", "guarding", "killed"}

\* isChild: a locked command runs directly only with SEISCOMP_LOCK.
DirectInv == \A c \in Commands :
               pc[c] = "direct" => kind[c] = "free" \/ env[c] # Nobody

\* SEISCOMP_LOCK comes from a locked command that had the lock itself, and who
\* has it asks for no lock.
EnvInv == \A c \in Commands :
            pc[c] # "new" /\ env[c] # Nobody =>
                /\ pc[c] \in {"direct", "done"}
                /\ env[env[c]] = Nobody /\ kind[env[c]] = "locked"
                /\ pc[env[c]] # "new"

\* The owner of the lock is still busy if it waits for the inheritor, unless it
\* was signalled.
CallerInv == \A c \in Commands :
               pc[c] = "direct" /\ env[c] \in above[c] =>
                   action[env[c]] = "running" \/ signal[env[c]] # "none"

CoverInv == NewInv /\ RunningInv /\ DirectInv /\ EnvInv /\ CallerInv

LEMMA CoverInvInit == Init => CoverInv
BY DEF Init, CoverInv, NewInv, RunningInv, DirectInv, EnvInv, CallerInv

\* The three ways to invoke a command agree with the invariant.
LEMMA CoverInvInvoke ==
  ASSUME TypeOK, CoverInv,
         NEW c \in Commands, NEW e \in Commands \cup {Nobody},
         NEW callers \in SUBSET Commands, Invoke(c, e, callers),
         e # Nobody => env[e] = Nobody /\ kind[e] = "locked" /\ pc[e] # "new",
         e \in callers => action[e] = "running" \/ signal[e] # "none"
  PROVE  CoverInv'
<1> USE NobodyAssumption DEF CoverInv, TypeOK
<1>1. pc[c] = "new" /\ action[c] = "none" /\ c # e
  BY DEF Invoke, NewInv
<1>2. /\ \A d \in Commands : d # c => /\ pc'[d] = pc[d] /\ kind'[d] = kind[d]
                                      /\ env'[d] = env[d] /\ above'[d] = above[d]
                                      /\ action'[d] = action[d]
      /\ signal' = signal
  BY DEF Invoke, Goto
<1>3. /\ env'[c] = e /\ above'[c] = callers
      /\ \/ /\ pc'[c] = "direct" /\ action'[c] = "running"
            /\ kind'[c] = "free" \/ e # Nobody
         \/ pc'[c] = "invoked" /\ action'[c] = "none" /\ e = Nobody
  BY <1>1 DEF Invoke, Goto
<1>4. NewInv' /\ RunningInv' /\ DirectInv'
  BY <1>1, <1>2, <1>3 DEF NewInv, RunningInv, DirectInv
<1>5. EnvInv'
  <2> SUFFICES ASSUME NEW d \in Commands, pc'[d] # "new", env'[d] # Nobody
               PROVE  /\ pc'[d] \in {"direct", "done"}
                      /\ env'[env'[d]] = Nobody /\ kind'[env'[d]] = "locked"
                      /\ pc'[env'[d]] # "new"
    BY DEF EnvInv
  <2>1. CASE d = c
    BY <1>1, <1>2, <1>3, <2>1
  <2>2. CASE d # c
    <3>1. /\ pc[d] \in {"direct", "done"} /\ env[d] \in Commands
          /\ env[env[d]] = Nobody /\ kind[env[d]] = "locked"
          /\ pc[env[d]] # "new"
      BY <1>2, <2>2 DEF EnvInv
    <3> QED
      BY <1>1, <1>2, <2>2, <3>1
  <2> QED
    BY <2>1, <2>2
<1>6. CallerInv'
  <2> SUFFICES ASSUME NEW d \in Commands, pc'[d] = "direct", env'[d] \in above'[d]
               PROVE  action'[env'[d]] = "running" \/ signal'[env'[d]] # "none"
    BY DEF CallerInv
  <2>1. CASE d = c
    BY <1>1, <1>2, <1>3, <2>1
  <2>2. CASE d # c
    <3>1. /\ env[d] \in Commands
          /\ action[env[d]] = "running" \/ signal[env[d]] # "none"
      BY <1>2, <2>2 DEF CallerInv
    <3> QED
      BY <1>1, <1>2, <2>2, <3>1
  <2> QED
    BY <2>1, <2>2
<1> QED
  BY <1>4, <1>5, <1>6

\* A step of the probe or the guard of c, which has no SEISCOMP_LOCK.
LEMMA CoverInvTool ==
  ASSUME TypeOK, CoverInv, NEW c \in Commands,
         pc[c] \notin {"new", "direct", "done"},
         NEW place \in Places \ {"new", "direct"}, Goto(c, place),
         UNCHANGED <<kind, env, above>>,
         action' = action \/ action' = [action EXCEPT ![c] = "running"]
                          \/ (action' = [action EXCEPT ![c] = "ended"] /\ signal'[c] # "none"),
         action'[c] = "running" => place \in {"guarding", "killed"},
         \A d \in Commands : signal[d] # "none" => signal'[d] # "none"
  PROVE  CoverInv'
<1> USE NobodyAssumption DEF CoverInv, TypeOK
<1>1. pc'[c] = place /\ env[c] = Nobody
  BY DEF Goto, EnvInv
<1>2. \A d \in Commands : d # c => pc'[d] = pc[d] /\ action'[d] = action[d]
  BY DEF Goto
<1>3. NewInv' /\ RunningInv' /\ DirectInv'
  BY <1>1, <1>2 DEF NewInv, RunningInv, DirectInv
<1>4. EnvInv'
  BY <1>1, <1>2 DEF EnvInv
<1>5. CallerInv'
  <2> SUFFICES ASSUME NEW d \in Commands, pc'[d] = "direct", env[d] \in above[d]
               PROVE  action'[env[d]] = "running" \/ signal'[env[d]] # "none"
    BY DEF CallerInv
  <2>1. pc[d] = "direct" /\ env[d] \in Commands
    BY <1>1, <1>2
  <2>2. action[env[d]] = "running" \/ signal[env[d]] # "none"
    BY <2>1 DEF CallerInv
  <2> QED
    BY <1>2, <2>1, <2>2
<1> QED
  BY <1>3, <1>4, <1>5

\* Each action preserves the invariant.
LEMMA CoverInvStep == LockInv /\ CoverInv /\ [Next]_vars => CoverInv'
<1> SUFFICES ASSUME LockInv, CoverInv, [Next]_vars
             PROVE  CoverInv'
  OBVIOUS
<1> USE NobodyAssumption DEF CoverInv
<1>1. TypeOK /\ ReapedInv
  BY DEF LockInv
<1>2. \A p \in Commands : action[p] # "none" => pc[p] # "new"
  BY DEF NewInv
<1>3. ASSUME NEW c \in Commands,
             \/ InvokeFromShell(c)
             \/ \E p \in Commands : InvokeFromAction(c, p) \/ InvokeFromDaemon(c, p)
      PROVE  CoverInv'
  <2>1. CASE InvokeFromShell(c)
    BY <1>1, <2>1, CoverInvInvoke DEF InvokeFromShell
  <2>2. ASSUME NEW p \in Commands, action[p] # "none"
        PROVE  /\ EnvBelow(p) \in Commands \cup {Nobody}
               /\ EnvBelow(p) # Nobody =>
                    /\ env[EnvBelow(p)] = Nobody /\ kind[EnvBelow(p)] = "locked"
                    /\ pc[EnvBelow(p)] # "new"
    BY <1>1, <1>2, <2>2 DEF EnvBelow, EnvInv, TypeOK
  <2>3. ASSUME NEW p \in Commands, InvokeFromAction(c, p)
        PROVE  CoverInv'
    <3>1. action[p] = "running" /\ Invoke(c, EnvBelow(p), above[p] \cup {p})
      BY <2>3 DEF InvokeFromAction
    <3>2. EnvBelow(p) \in above[p] \cup {p} =>
            action[EnvBelow(p)] = "running" \/ signal[EnvBelow(p)] # "none"
      <4>1. CASE env[p] = Nobody
        BY <1>1, <3>1, <4>1 DEF EnvBelow, TypeOK
      <4>2. CASE env[p] # Nobody
        <5>1. pc[p] = "direct"
          BY <1>2, <3>1, <4>2 DEF EnvInv, RunningInv
        <5>2. EnvBelow(p) = env[p]
          BY <4>2 DEF EnvBelow
        <5> QED
          BY <3>1, <5>1, <5>2 DEF CallerInv
      <4> QED
        BY <4>1, <4>2
    <3>3. above[p] \cup {p} \in SUBSET Commands
      BY <1>1 DEF TypeOK
    <3> QED
      BY <1>1, <2>2, <3>1, <3>2, <3>3, CoverInvInvoke
  <2>4. ASSUME NEW p \in Commands, InvokeFromDaemon(c, p)
        PROVE  CoverInv'
    <3>1. action[p] # "none" /\ Invoke(c, EnvBelow(p), {})
      BY <2>4 DEF InvokeFromDaemon
    <3> QED
      BY <1>1, <2>2, <3>1, CoverInvInvoke
  <2> QED
    BY <1>3, <2>1, <2>3, <2>4
<1>4. ASSUME NEW c \in Commands,
             \/ ProbeUnopened(c) \/ TryLock(c) \/ WaitLock(c) \/ Grab(c)
             \/ Expire(c) \/ ProbeExit(c) \/ Acquire(c) \/ AcquireDenied(c)
             \/ Reap(c) \/ Release(c)
      PROVE  CoverInv'
  <2>1. pc[c] \notin {"new", "direct", "done"} /\ action[c] # "running"
    BY <1>1, <1>4 DEF ProbeUnopened, TryLock, WaitLock, Grab, Expire,
       ProbeExit, Acquire, AcquireDenied, Reap, Release, RunningInv,
       ReapedInv
  <2>2. PICK place \in Places \ {"new", "direct"} : Goto(c, place)
    BY <1>4 DEF ProbeUnopened, TryLock, WaitLock, Grab, Expire, Places, Probing,
       Guarding, Finished, ProbeExit, Acquire, AcquireDenied, Reap, Release
  <2>3. UNCHANGED <<kind, env, above, action, signal>>
    BY <1>4 DEF ProbeUnopened, TryLock, WaitLock, Grab, Expire,
       ProbeExit, Acquire, AcquireDenied, Reap, Release
  <2> QED
    BY <1>1, <2>1, <2>2, <2>3, CoverInvTool
<1>5. ASSUME NEW c \in Commands, Fork(c)
      PROVE  CoverInv'
  <2>1. "guarding" \in Places \ {"new", "direct"}
    BY DEF Places, Guarding
  <2> QED
    BY <1>1, <1>5, <2>1, CoverInvTool DEF Fork
<1>6. ASSUME NEW c \in Commands, PassSignal(c)
      PROVE  CoverInv'
  <2>1. "guarding" \in Places \ {"new", "direct"} /\ Goto(c, "guarding")
    BY <1>1, <1>6 DEF Places, Guarding, PassSignal, Goto, TypeOK
  <2>2. /\ pc[c] = "guarding" /\ action' = [action EXCEPT ![c] = "ended"]
        /\ action'[c] = "ended" /\ signal'[c] # "none"
        /\ UNCHANGED <<kind, env, above>>
        /\ \A d \in Commands : signal[d] # "none" => signal'[d] # "none"
    BY <1>1, <1>6 DEF PassSignal, TypeOK
  <2> QED
    BY <1>1, <2>1, <2>2, CoverInvTool
<1>7. ASSUME NEW c \in Commands, Term(c) \/ Kill(c)
      PROVE  CoverInv'
  <2>1. /\ pc[c] \in Guarding
        /\ \E place \in {pc[c], "killed"} : Goto(c, place)
        /\ UNCHANGED <<kind, env, above, action>>
        /\ \A d \in Commands : signal[d] # "none" => signal'[d] # "none"
    BY <1>1, <1>7 DEF Term, Kill, Guarding, Goto, TypeOK
  <2>2. PICK place \in {pc[c], "killed"} : Goto(c, place)
    BY <2>1
  <2>3. place \in Places \ {"new", "direct"} /\ pc[c] \notin {"new", "direct", "done"}
    BY <2>1, <2>2 DEF Places, Guarding, Finished
  <2>4. action[c] = "running" => place \in {"guarding", "killed"}
    BY <2>1, <2>2 DEF RunningInv, Guarding
  <2> QED
    BY <1>1, <2>1, <2>2, <2>3, <2>4, CoverInvTool
<1>8. ASSUME NEW c \in Commands, EndAction(c)
      PROVE  CoverInv'
  <2>1. /\ UNCHANGED <<kind, env, above, signal>>
        /\ action' = [action EXCEPT ![c] = "ended"]
        /\ action[c] = "running"
        /\ \A d \in Commands : c \in above[d] => pc[d] \in Finished
    BY <1>8 DEF EndAction
  <2>2. \A d \in Commands : d # c => pc'[d] = pc[d] /\ action'[d] = action[d]
    BY <1>1, <1>8 DEF EndAction, Goto, TypeOK
  <2>3. /\ action'[c] = "ended" /\ pc'[c] # "direct" /\ pc'[c] # "new"
        /\ pc[c] # "new"
        /\ pc'[c] = pc[c] \/ (pc[c] = "direct" /\ pc'[c] = "done")
    BY <1>1, <1>2, <1>8 DEF EndAction, Goto, TypeOK
  <2>4. NewInv' /\ RunningInv' /\ DirectInv'
    BY <2>1, <2>2, <2>3 DEF NewInv, RunningInv, DirectInv
  <2>5. EnvInv'
    <3> SUFFICES ASSUME NEW d \in Commands, pc'[d] # "new", env[d] # Nobody
                 PROVE  /\ pc'[d] \in {"direct", "done"}
                        /\ pc'[env[d]] # "new"
                        /\ env[env[d]] = Nobody
                        /\ kind[env[d]] = "locked"
      BY <2>1 DEF EnvInv
    <3>1. pc[d] # "new"
      BY <2>2, <2>3
    <3>2. /\ pc[d] \in {"direct", "done"}
          /\ pc[env[d]] # "new"
          /\ env[env[d]] = Nobody
          /\ kind[env[d]] = "locked"
      BY <3>1 DEF EnvInv
    <3>3. env[d] \in Commands
      BY <1>1 DEF TypeOK
    <3>4. pc'[d] \in {"direct", "done"}
      BY <2>2, <2>3, <3>2
    <3>5. pc'[env[d]] # "new"
      BY <2>2, <2>3, <3>2, <3>3
    <3> QED
      BY <3>2, <3>4, <3>5
  <2>6. CallerInv'
    <3> SUFFICES ASSUME NEW d \in Commands, pc'[d] = "direct", env[d] \in above[d]
                 PROVE  action'[env[d]] = "running" \/ signal[env[d]] # "none"
      BY <2>1 DEF CallerInv
    <3>1. d # c /\ pc[d] = "direct"
      BY <2>2, <2>3
    <3>2. c \notin above[d]
      BY <2>1, <3>1 DEF Finished
    <3>3. env[d] \in Commands /\ env[d] # c
      BY <1>1, <3>2 DEF TypeOK
    <3> QED
      BY <2>2, <3>1, <3>3 DEF CallerInv
  <2> QED
    BY <2>4, <2>5, <2>6
<1>9. CASE UNCHANGED vars
  BY <1>9 DEF vars, NewInv, RunningInv, DirectInv, EnvInv, CallerInv
<1> QED
  BY <1>3, <1>4, <1>5, <1>6, <1>7, <1>8, <1>9 DEF Next, Tool

\* Every action that needs the lock runs under it, nested to any depth, whatever
\* happens to other commands.
THEOREM ActionsCovered == Spec => []LockCoversAction
<1>1. LockInv /\ CoverInv => LockCoversAction
  <2> SUFFICES ASSUME LockInv, CoverInv, NEW c \in Commands,
                      action[c] = "running", kind[c] = "locked",
                      pc[Root(c)] # "killed",
                      Root(c) = c \/ (Root(c) \in above[c] /\ signal[Root(c)] = "none")
               PROVE  holder = Root(c)
    BY DEF LockCoversAction
  <2> USE NobodyAssumption
  <2>1. ASSUME NEW r \in Commands, action[r] = "running", kind[r] = "locked",
               env[r] = Nobody, pc[r] # "killed"
        PROVE  holder = r
    BY <2>1 DEF LockInv, HolderInv, CoverInv, RunningInv, DirectInv, Holding,
       Guarding
  <2>2. CASE env[c] = Nobody
    BY <2>1, <2>2 DEF Root
  <2>3. CASE env[c] # Nobody
    <3>1. pc[c] = "direct"
      BY <2>3 DEF CoverInv, NewInv, RunningInv, EnvInv
    <3>2. /\ Root(c) = env[c] /\ env[c] \in Commands
          /\ env[env[c]] = Nobody /\ kind[env[c]] = "locked"
      BY <2>3, <3>1 DEF CoverInv, EnvInv, Root, LockInv, TypeOK
    <3>3. env[c] # c
      BY <2>3, <3>2
    <3>4. action[env[c]] = "running"
      BY <3>1, <3>2, <3>3 DEF CoverInv, CallerInv
    <3> QED
      BY <2>1, <3>2, <3>4
  <2> QED
    BY <2>2, <2>3
<1>2. Init => LockInv /\ CoverInv
  BY LockInvInit, CoverInvInit
<1>3. LockInv /\ CoverInv /\ [Next]_vars => (LockInv /\ CoverInv)'
  BY LockInvStep, CoverInvStep
<1> QED
  BY <1>1, <1>2, <1>3, PTL DEF Spec

-----------------------------------------------------------------------------
\* Only a command that needs the lock and may open its file competes for it.
CompeteInv == \A c \in Commands :
    /\ pc[c] \in Holding \cup {"invoked", "waiting", "probed"}
         => kind[c] = "locked" /\ env[c] = Nobody
    /\ pc[c] \in Holding \cup {"waiting"} => c \notin Unprivileged

TurnedAway == {"refused", "busy", "failed"}

\* Of the commands that compete not all are turned away.
SomebodyLeft == Contenders # {} => \E c \in Contenders : pc[c] \notin TurnedAway

RunsInv == CompeteInv /\ SomebodyLeft

\* A command that holds the lock is one that competes, and not turned away.
LEMMA HolderCompetes ==
  ASSUME LockInv, CompeteInv, holder # Nobody
  PROVE  holder \in Contenders /\ pc[holder] \in Holding
BY DEF LockInv, TypeOK, HolderInv, CompeteInv, Contenders, Holding, Probing, Guarding

\* Who competes changes with the invocation of a command only.
LEMMA SameContenders ==
  ASSUME LockInv, NEW c \in Commands, pc[c] # "new", UNCHANGED <<kind, env>>,
         NEW place \in Places \ {"new"}, Goto(c, place)
  PROVE  /\ Contenders' = Contenders
         /\ pc' \in [Commands -> Places] /\ pc'[c] = place
         /\ \A d \in Commands : d # c => pc'[d] = pc[d]
BY DEF LockInv, TypeOK, Goto, Contenders

\* A command that goes on, or ends by itself, is left.
LEMMA GoesOn ==
  ASSUME LockInv, RunsInv, NEW c \in Commands, pc[c] # "new", UNCHANGED <<kind, env>>,
         NEW place \in Places \ (TurnedAway \cup {"new"}), Goto(c, place),
         place \in Holding \cup {"waiting", "probed"}
           => /\ kind[c] = "locked" /\ env[c] = Nobody
              /\ place # "probed" => c \notin Unprivileged,
         place # "invoked"
  PROVE  RunsInv'
<1>1. /\ Contenders' = Contenders
      /\ pc' \in [Commands -> Places] /\ pc'[c] = place
      /\ \A d \in Commands : d # c => pc'[d] = pc[d]
  BY SameContenders
<1>2. CompeteInv'
  BY <1>1 DEF RunsInv, CompeteInv, Holding, Probing, Guarding
<1>3. SomebodyLeft'
  BY <1>1 DEF RunsInv, SomebodyLeft, Contenders
<1> QED
  BY <1>2, <1>3 DEF RunsInv

\* A command is turned away by one that is left, or does not compete.
LEMMA IsTurnedAway ==
  ASSUME LockInv, RunsInv, NEW c \in Commands, pc[c] \in {"invoked", "probed"},
         UNCHANGED <<kind, env>>, NEW place \in TurnedAway, Goto(c, place),
         holder # Nobody \/ c \in Unprivileged
  PROVE  RunsInv'
<1>1. place \in Places \ {"new"} /\ place \notin Holding
  BY DEF Places, TurnedAway, Finished, Holding, Probing, Guarding
<1>2. /\ Contenders' = Contenders
      /\ pc' \in [Commands -> Places] /\ pc'[c] = place
      /\ \A d \in Commands : d # c => pc'[d] = pc[d]
  BY <1>1, SameContenders
<1>3. CompeteInv'
  BY <1>1, <1>2 DEF RunsInv, CompeteInv, TurnedAway
<1>4. SomebodyLeft'
  <2>1. CASE holder # Nobody
    <3>1. holder \in Contenders /\ pc[holder] \in Holding /\ holder \in Commands
      BY <2>1, HolderCompetes DEF RunsInv, LockInv, TypeOK
    <3>2. holder # c
      BY <3>1 DEF Holding, Probing, Guarding
    <3>3. pc[holder] \notin TurnedAway
      BY <3>1 DEF Holding, Probing, Guarding, TurnedAway
    <3>4. PICK h \in Contenders : h \in Commands /\ h # c /\ pc[h] \notin TurnedAway
      BY <3>1, <3>2, <3>3
    <3> QED
      BY <3>4, <1>2 DEF SomebodyLeft
  <2>2. CASE c \in Unprivileged
    <3>1. c \notin Contenders
      BY <2>2 DEF Contenders
    <3> QED
      BY <3>1, <1>2 DEF RunsInv, SomebodyLeft, Contenders
  <2> QED
    BY <2>1, <2>2
<1> QED
  BY <1>3, <1>4 DEF RunsInv

LEMMA RunsInvInvoke ==
  ASSUME LockInv, RunsInv, NEW c \in Commands, NEW e \in Commands \cup {Nobody},
         NEW callers, Invoke(c, e, callers)
  PROVE  RunsInv'
<1>1. pc[c] = "new" /\ env' = [env EXCEPT ![c] = e]
  BY DEF Invoke
<1>2. PICK k \in {"locked", "free"} :
        /\ kind' = [kind EXCEPT ![c] = k]
        /\ IF k = "free" \/ e # Nobody THEN Goto(c, "direct") ELSE Goto(c, "invoked")
  BY DEF Invoke
<1>3. /\ pc'[c] = IF k = "free" \/ e # Nobody THEN "direct" ELSE "invoked"
      /\ kind'[c] = k /\ env'[c] = e
      /\ \A d \in Commands : d # c => pc'[d] = pc[d] /\ kind'[d] = kind[d] /\ env'[d] = env[d]
  BY <1>1, <1>2 DEF LockInv, TypeOK, Goto
<1>4. CompeteInv'
  <2> SUFFICES ASSUME NEW d \in Commands
               PROVE  /\ pc'[d] \in Holding \cup {"invoked", "waiting", "probed"}
                           => kind'[d] = "locked" /\ env'[d] = Nobody
                      /\ pc'[d] \in Holding \cup {"waiting"} => d \notin Unprivileged
    BY DEF CompeteInv
  <2>1. CASE d = c
    BY <2>1, <1>3 DEF Holding, Probing, Guarding
  <2>2. CASE d # c
    BY <2>2, <1>3 DEF RunsInv, CompeteInv
  <2> QED
    BY <2>1, <2>2
<1>5. SomebodyLeft'
  <2>1. \A d \in Commands : d # c => (d \in Contenders' <=> d \in Contenders)
    BY <1>3 DEF Contenders
  <2>2. c \notin Contenders
    BY <1>1 DEF Contenders
  <2>3. pc'[c] \notin TurnedAway
    BY <1>3 DEF TurnedAway
  <2>4. Contenders' \subseteq Commands /\ Contenders \subseteq Commands
    BY DEF Contenders
  <2>5. CASE Contenders = {}
    BY <2>5, <2>1, <2>3, <2>4 DEF SomebodyLeft
  <2>6. CASE Contenders # {}
    <3>1. PICK d \in Contenders : pc[d] \notin TurnedAway
      BY <2>6 DEF RunsInv, SomebodyLeft
    <3>2. d \in Commands /\ d # c
      BY <3>1, <2>2, <2>4
    <3> QED
      BY <3>1, <3>2, <2>1, <1>3 DEF SomebodyLeft
  <2> QED
    BY <2>5, <2>6
<1> QED
  BY <1>4, <1>5 DEF RunsInv

LEMMA RunsInvStep == LockInv /\ RunsInv /\ [Next]_vars => RunsInv'
<1> SUFFICES ASSUME LockInv, RunsInv, [Next]_vars PROVE RunsInv'
  OBVIOUS
<1> USE DEF Places, TurnedAway, Finished, Holding, Probing, Guarding
<1>1. ASSUME NEW c \in Commands,
             \/ InvokeFromShell(c)
             \/ \E p \in Commands : InvokeFromAction(c, p) \/ InvokeFromDaemon(c, p)
      PROVE  RunsInv'
  <2>1. \A p \in Commands : EnvBelow(p) \in Commands \cup {Nobody}
    BY DEF LockInv, TypeOK, EnvBelow
  <2>2. CASE InvokeFromShell(c)
    BY <2>2, RunsInvInvoke DEF InvokeFromShell
  <2>3. ASSUME NEW p \in Commands, InvokeFromAction(c, p) PROVE RunsInv'
    BY <2>1, <2>3, RunsInvInvoke DEF InvokeFromAction
  <2>4. ASSUME NEW p \in Commands, InvokeFromDaemon(c, p) PROVE RunsInv'
    BY <2>1, <2>4, RunsInvInvoke DEF InvokeFromDaemon
  <2> QED
    BY <1>1, <2>2, <2>3, <2>4
<1>2. ASSUME NEW c \in Commands, Tool(c)
      PROVE  RunsInv'
  <2> USE DEF RunsInv, CompeteInv
  <2>1. CASE ProbeUnopened(c)
    BY <2>1, GoesOn DEF ProbeUnopened
  <2>2. CASE TryLock(c) /\ holder = Nobody
    BY <2>2, GoesOn DEF TryLock
  <2>3. CASE TryLock(c) /\ holder # Nobody
    BY <2>3, IsTurnedAway DEF TryLock
  <2>4. CASE WaitLock(c)
    BY <2>4, GoesOn DEF WaitLock
  <2>5. CASE Grab(c)
    BY <2>5, GoesOn DEF Grab
  <2>6. CASE Expire(c)
    BY <2>6, GoesOn DEF Expire
  <2>7. CASE ProbeExit(c)
    BY <2>7, GoesOn DEF ProbeExit
  <2>8. CASE Acquire(c) /\ holder = Nobody
    BY <2>8, GoesOn DEF Acquire
  <2>9. CASE Acquire(c) /\ holder # Nobody
    BY <2>9, IsTurnedAway DEF Acquire
  <2>10. CASE AcquireDenied(c)
    BY <2>10, IsTurnedAway DEF AcquireDenied
  <2>11. CASE Fork(c)
    BY <2>11, GoesOn DEF Fork
  <2>12. CASE PassSignal(c)
    BY <2>12 DEF PassSignal, SomebodyLeft, Contenders
  <2>13. CASE Reap(c)
    BY <2>13, GoesOn DEF Reap
  <2>14. CASE Release(c)
    BY <2>14, GoesOn DEF Release
  <2> QED
    BY <1>2, <2>1, <2>2, <2>3, <2>4, <2>5, <2>6, <2>7, <2>8, <2>9, <2>10, <2>11,
       <2>12, <2>13, <2>14 DEF Tool
<1>3. ASSUME NEW c \in Commands, Term(c) PROVE RunsInv'
  <2>1. CASE Goto(c, "killed")
    BY <1>3, <2>1, GoesOn DEF Term
  <2>2. CASE UNCHANGED pc
    BY <1>3, <2>2 DEF Term, RunsInv, CompeteInv, SomebodyLeft, Contenders
  <2> QED
    BY <1>3, <2>1, <2>2 DEF Term
<1>4. ASSUME NEW c \in Commands, Kill(c) PROVE RunsInv'
  BY <1>4, GoesOn DEF Kill
<1>5. ASSUME NEW c \in Commands, EndAction(c) PROVE RunsInv'
  <2>1. CASE pc[c] = "direct"
    BY <1>5, <2>1, GoesOn DEF EndAction
  <2>2. CASE pc[c] # "direct"
    BY <1>5, <2>2 DEF EndAction, RunsInv, CompeteInv, SomebodyLeft, Contenders
  <2> QED
    BY <2>1, <2>2
<1>6. CASE UNCHANGED vars
  BY <1>6 DEF vars, RunsInv, CompeteInv, SomebodyLeft, Contenders
<1> QED
  BY <1>1, <1>2, <1>3, <1>4, <1>5, <1>6 DEF Next

\* Any number of commands may compete, with probes that make each other fail,
\* signals and kills: they are never all turned away.
THEOREM NotAllRefused == Spec => []SomebodyRuns
<1>1. Init => RunsInv
  BY DEF Init, RunsInv, CompeteInv, SomebodyLeft, Contenders, Holding, Probing, Guarding
<1>2. LockInv /\ RunsInv => SomebodyRuns
  BY DEF LockInv, TypeOK, RunsInv, SomebodyLeft, SomebodyRuns, Contenders, TurnedAway, Finished
<1> QED
  BY <1>1, <1>2, RunsInvStep, LockInvariant, PTL DEF Spec
=============================================================================
