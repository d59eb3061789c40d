------------------------------ MODULE DayPool ------------------------------
(***************************************************************************)
(* What the automatic allocation promises, without saying how.             *)
(*                                                                         *)
(* One campus day, one contractor company.  Points is the company's typed  *)
(* service points, Workers its field workers.  Every point is free, held   *)
(* by one worker (handed out, no check-out yet) or finished by one worker. *)
(* The module is the abstract specification that Allocation implements.    *)
(***************************************************************************)
EXTENDS Naturals, FiniteSets

CONSTANTS
    Workers,    \* the field workers of the company
    Points,     \* the service points of the company's service types
    BatchSize   \* settings.allocation_batch_size

VARIABLES
    holding,    \* holding[w]: the points worker w still has to serve
    finished,   \* finished[w]: the points worker w checked out of
    barred      \* barred[w]: the points worker w reported an impediment on

poolVars == <<holding, finished, barred>>

\* A point that no stop of the day holds.
Free == {p \in Points : \A w \in Workers : p \notin holding[w] \cup finished[w]}

PoolInit ==
    /\ holding  = [w \in Workers |-> {}]
    /\ finished = [w \in Workers |-> {}]
    /\ barred   = [w \in Workers |-> {}]

\* A worker with nothing left to do is handed a batch, all of it at once.
Take(w, S) ==
    /\ holding[w] = {}
    /\ S # {}
    /\ S \subseteq Free \ barred[w]
    /\ Cardinality(S) <= BatchSize
    /\ holding' = [holding EXCEPT ![w] = S]
    /\ UNCHANGED <<finished, barred>>

\* The worker checks out of one of the points held.
Serve(w, p) ==
    /\ p \in holding[w]
    /\ holding'  = [holding EXCEPT ![w] = @ \ {p}]
    /\ finished' = [finished EXCEPT ![w] = @ \cup {p}]
    /\ UNCHANGED barred

\* The worker reports that this point cannot be served: it is free for everybody else.
Impede(w, p) ==
    /\ p \in holding[w]
    /\ holding' = [holding EXCEPT ![w] = @ \ {p}]
    /\ barred'  = [barred EXCEPT ![w] = @ \cup {p}]
    /\ UNCHANGED finished

\* The workers in R give back everything they hold.
GiveBack(R) ==
    /\ holding' = [w \in Workers |-> IF w \in R THEN {} ELSE holding[w]]
    /\ UNCHANGED <<finished, barred>>

PoolNext ==
    \/ \E w \in Workers, S \in SUBSET Points : Take(w, S)
    \/ \E w \in Workers, p \in Points : Serve(w, p) \/ Impede(w, p)
    \/ \E R \in SUBSET Workers : GiveBack(R)

PoolSpec == PoolInit /\ [][PoolNext]_poolVars
=============================================================================
