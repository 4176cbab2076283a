---------------------------- MODULE MCAliasRegistry ----------------------------
(* Instances of AliasRegistry for TLC: a has defaults, b has none.         *)
EXTENDS AliasRegistry, TLC

CONSTANTS a, b, x, y, z

\* Nothing tells one alias name from another.
Symmetry == Permutations(Aliases)
==============================================================================
