------------------------------ MODULE Exclusive ------------------------------
(***************************************************************************)
(* What the lock files of SeisComP promise, whatever implements them: at   *)
(* most one user is inside at any time.  CommandLock refines it with the   *)
(* guards of run_with_lock as users, ModuleLifecycle with the daemons of a *)
(* module.                                                                 *)
(***************************************************************************)
EXTENDS FiniteSets

CONSTANT Users

VARIABLE inside  \* the users that hold the lock

Init == inside = {}

Enter(u) == /\ inside = {}
            /\ inside' = {u}

Leave(u) == /\ u \in inside
            /\ inside' = inside \ {u}

Next == \E u \in Users : Enter(u) \/ Leave(u)

Spec == Init /\ [][Next]_inside
==============================================================================
