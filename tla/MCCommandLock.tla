---------------------------- MODULE MCCommandLock ----------------------------
(***************************************************************************)
(* Instances of CommandLock for TLC: three invocations, --wait absent, 0   *)
(* or a positive number of seconds.                                        *)
(***************************************************************************)
EXTENDS CommandLock, TLC

CONSTANTS c1, c2, c3

CommandSymmetry == Permutations({c1, c2, c3})
MCWaits == {NoWait, 0, 1}
MCPositiveWaits == {NoWait, 1}
==============================================================================
