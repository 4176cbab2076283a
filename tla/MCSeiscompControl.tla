-------------------------- MODULE MCSeiscompControl --------------------------
(***************************************************************************)
(* Instances of SeiscompControl for TLC: a core module k and some others.  *)
(***************************************************************************)
EXTENDS SeiscompControl

CONSTANTS k, a, b, c

MCRank == [m \in Modules |-> CASE m = k -> 1 [] m = a -> 2 [] m = b -> 3 [] m = c -> 4]
==============================================================================
