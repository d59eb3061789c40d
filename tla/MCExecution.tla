---------------------------- MODULE MCExecution ----------------------------
(***************************************************************************)
(* One model for the work on the stops: their executions under concurrent  *)
(* requests, and the scans of a floor with the stops they mean.  The two   *)
(* share no variable, so every behaviour is about one of them, `part`, and *)
(* the other rests.                                                        *)
(***************************************************************************)
EXTENDS StopExecution, FloorScans, TLC

Symmetry == UNION {Permutations(S) : S \in {CheckInKeys, CheckOutKeys, PhotoKeys, Sessions}}

VARIABLE part \* the component that this behaviour is about

workVars == <<vars, floorVars, part>>

WorkInit ==
    /\ Init /\ FloorScansInit
    /\ part \in {"EXECUTION", "FLOOR"}

\* Bound: the code of a floor is replaced or revoked only on the day of the route, and the GPS
\* works in all visits or in none.
OneTrouble == /\ started \/ code = "ACTIVE"
              /\ \A u, v \in Visits : NotVisited \in {visit[u], visit[v]} \/ visit[u].fix = visit[v].fix

WorkNext ==
    /\ \/ part = "EXECUTION" /\ Next /\ UNCHANGED floorVars
       \/ part = "FLOOR" /\ FloorScansNext /\ OneTrouble' /\ UNCHANGED vars
    /\ UNCHANGED part

WorkSpec == WorkInit /\ [][WorkNext]_workVars

\* Every component keeps its types.
WorkTypeOK == TypeOK /\ FloorScansTypeOK
=============================================================================
