---------------------------- MODULE MCUpdateConfig ----------------------------
(***************************************************************************)
(* Instances of UpdateConfig for TLC: a and b are each other's proxies, c  *)
(* has the proxy of b, d has none, the proxy of e is no module, x is the   *)
(* name of no module.                                                      *)
(***************************************************************************)
EXTENDS UpdateConfig

CONSTANTS a, b, c, d, e, x

MCModules == {a, b, c, d, e}
MCNames == MCModules \cup {x}
MCProxy == [m \in MCModules |-> CASE m = a -> b [] m = b -> a [] m = c -> a
                                  [] m = d -> NoProxy [] m = e -> x]
==============================================================================
