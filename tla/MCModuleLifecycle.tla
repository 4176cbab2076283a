-------------------------- MODULE MCModuleLifecycle --------------------------
(***************************************************************************)
(* Instances of ModuleLifecycle for TLC.  One inode more than daemons is   *)
(* enough: each daemon has at most one open, and one has the name.         *)
(***************************************************************************)
EXTENDS ModuleLifecycle, TLC

CONSTANTS p1, p2, p3, i1, i2, i3, i4

Symmetry == Permutations({p1, p2, p3}) \cup Permutations({i1, i2, i3, i4})
==============================================================================
