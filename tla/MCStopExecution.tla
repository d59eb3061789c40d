-------------------------- MODULE MCStopExecution --------------------------
(* StopExecution for TLC: the symmetry of its keys and sessions. *)
EXTENDS StopExecution, TLC

Symmetry == UNION {Permutations(S) : S \in {CheckInKeys, CheckOutKeys, PhotoKeys, Sessions}}
=============================================================================
