----------------------------- MODULE StopRecord -----------------------------
(***************************************************************************)
(* What the record of a floor's stops promises, without saying how: every  *)
(* request is one step, as if it ran alone (app/domain/execution).         *)
(*                                                                         *)
(* There are no copies, locks or counts that may be out of date here: each *)
(* step judges the rows as they are.  The module is the abstract           *)
(* specification that StopExecution implements.  Reviews are not part of   *)
(* it, since what is written of them is judged on copies.                  *)
(***************************************************************************)
EXTENDS Naturals, FiniteSets

CONSTANTS
    Stops, NeedsEvidence, CheckInKeys, CheckOutKeys, PhotoKeys,
    Anomalies, Insufficient, MinPhotos, NoStop, NoKey

VARIABLES
    stop,     \* stop[t]: status of the stop
    visited,  \* visited[k]: the stop of execution k, NoStop before its check-in
    closedBy, \* closedBy[k]: the key of its check-out, NoKey while it is open
    flags,    \* flags[k]: its anomalies, and the flag of short evidence
    photos    \* photos[k]: its photos

recordVars == <<stop, visited, closedBy, flags, photos>>

Taken == UNION {photos[k] : k \in CheckInKeys}

RecordInit ==
    /\ stop     = [t \in Stops |-> "PENDING"]
    /\ visited  = [k \in CheckInKeys |-> NoStop]
    /\ closedBy = [k \in CheckInKeys |-> NoKey]
    /\ flags    = [k \in CheckInKeys |-> {}]
    /\ photos   = [k \in CheckInKeys |-> {}]

\* A pending stop is taken up by the first check-in under its key.
CheckIn(k, t, F) ==
    /\ visited[k] = NoStop /\ stop[t] = "PENDING"
    /\ stop'    = [stop EXCEPT ![t] = "IN_PROGRESS"]
    /\ visited' = [visited EXCEPT ![k] = t]
    /\ flags'   = [flags EXCEPT ![k] = F]
    /\ UNCHANGED <<closedBy, photos>>

\* The work is closed by the first check-out under its key, and what either scan found stays on
\* it.  Short evidence is flagged at once; a photo that arrives meanwhile may not be counted yet.
CheckOut(k, o, F) ==
    /\ visited[k] # NoStop /\ stop[visited[k]] = "IN_PROGRESS"
    /\ \A j \in CheckInKeys : closedBy[j] # o
    /\ visited[k] \in NeedsEvidence /\ Cardinality(photos[k]) < MinPhotos => Insufficient \in F
    /\ Insufficient \in F => visited[k] \in NeedsEvidence
    /\ closedBy' = [closedBy EXCEPT ![k] = o]
    /\ stop'     = [stop EXCEPT ![visited[k]] = "DONE"]
    /\ flags'    = [flags EXCEPT ![k] = @ \cup F]
    /\ UNCHANGED <<visited, photos>>

\* A photo is added; only one that completes the evidence of closed work takes its flag back.
AddPhoto(k, x, clears) ==
    /\ visited[k] # NoStop /\ x \notin Taken
    /\ clears => closedBy[k] # NoKey /\ Cardinality(photos[k] \cup {x}) >= MinPhotos
    /\ photos' = [photos EXCEPT ![k] = @ \cup {x}]
    /\ flags'  = [flags EXCEPT ![k] = IF clears THEN @ \ {Insufficient} ELSE @]
    /\ UNCHANGED <<stop, visited, closedBy>>

\* A stop that is not done is given back, for good.
GiveBack(t) ==
    /\ stop[t] \in {"PENDING", "IN_PROGRESS"}
    /\ stop' = [stop EXCEPT ![t] = "RELEASED"]
    /\ UNCHANGED <<visited, closedBy, flags, photos>>

RecordNext ==
    \/ \E k \in CheckInKeys, t \in Stops, F \in SUBSET Anomalies : CheckIn(k, t, F)
    \/ \E k \in CheckInKeys, o \in CheckOutKeys, F \in SUBSET (Anomalies \cup {Insufficient}) :
          CheckOut(k, o, F)
    \/ \E k \in CheckInKeys, x \in PhotoKeys, clears \in BOOLEAN : AddPhoto(k, x, clears)
    \/ \E t \in Stops : GiveBack(t)

RecordSpec == RecordInit /\ [][RecordNext]_recordVars
=============================================================================
