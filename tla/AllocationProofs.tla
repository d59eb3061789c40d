-------------------------- MODULE AllocationProofs --------------------------
(***************************************************************************)
(* The proofs about Allocation, for every number of workers, points,       *)
(* sessions and batches: type correctness, the safety invariants, that a   *)
(* closed stop stays closed, and that Allocation implements DayPool.       *)
(*                                                                         *)
(* The argument: whoever hands out a batch keeps the route row and the     *)
(* point rows locked from the moment it reads them to its commit.  IInv    *)
(* says what those locks protect; the steps fall into three that a claim   *)
(* takes (read, lock and insert, commit) and the quiet ones, which hand    *)
(* out nothing.                                                            *)
(***************************************************************************)
EXTENDS Allocation, FiniteSetTheorems, TLAPS

\* The request is a claim that keeps its route row locked.
Claiming(s) == pc[s] \in {"claiming", "ordering"}

\* Two claims in flight share neither a route nor a point row.
ClaimsApart ==
    \A s, t \in Sessions : s # t =>
        /\ tried[s] \cap tried[t] = {}
        /\ Claiming(s) /\ Claiming(t) => who[s] # who[t]

\* Under the route lock, nothing becomes live on the route of a claim.
ClaimHasNoOpenStop == \A s \in Sessions : Claiming(s) => ~HasOpenStop(who[s])

\* A claim has neither read nor taken a point its worker is barred from.
ClaimSparesImpeded ==
    \A s \in Sessions : Claiming(s) => (pool[s] \cup claimed[s]) \cap impeded[who[s]] = {}

ClaimWithinSize == \A s \in Sessions : Cardinality(claimed[s]) <= BatchSize

SafetyInv ==
    /\ Exclusive
    /\ OneOpenBatch
    /\ NoStrandedWork
    /\ NotHandedBackToReporter
    /\ BatchWithinSize

ClaimInv ==
    /\ ClaimsApart
    /\ ClaimHasNoOpenStop
    /\ ClaimSparesImpeded
    /\ ClaimWithinSize

IInv == TypeOK /\ SafetyInv /\ ClaimInv

-----------------------------------------------------------------------------
(* What the steps do to the stops *)

\* No stop appears, and only a live one changes: it is checked in, done or released.
StopsOnlyAdvance ==
    \A w \in Workers, b \in Batches, p \in Points :
        \/ stop'[w][b][p] = stop[w][b][p]
        \/ Live(stop[w][b][p]) /\ stop'[w][b][p] \in {"IN_PROGRESS", "DONE", "RELEASED"}

\* One stop takes a new status.
LEMMA OneStopChanges ==
    ASSUME TypeOK, NEW w \in Workers, NEW b \in Batches, NEW p \in Points,
           NEW x \in RouteStopStatus,
           stop' = [stop EXCEPT ![w][b][p] = x]
    PROVE  /\ stop' \in [Workers -> [Batches -> [Points -> RouteStopStatus \cup {"NONE"}]]]
           /\ \A v \in Workers, c \in Batches, q \in Points :
                stop'[v][c][q] = IF v = w /\ c = b /\ q = p THEN x ELSE stop[v][c][q]
  BY DEF TypeOK

\* The live stops of some routes are released.
LEMMA RoutesRelease ==
    ASSUME TypeOK, NEW R \in SUBSET Workers,
           stop' = [w \in Workers |-> IF w \in R THEN ReleasedStops(w) ELSE stop[w]]
    PROVE  /\ stop' \in [Workers -> [Batches -> [Points -> RouteStopStatus \cup {"NONE"}]]]
           /\ \A v \in Workers, c \in Batches, q \in Points :
                stop'[v][c][q] = IF v \in R /\ Live(stop[v][c][q])
                                 THEN "RELEASED" ELSE stop[v][c][q]
  BY DEF TypeOK, ReleasedStops, RouteStopStatus

\* A claim commits its stops as a new batch.
LEMMA BatchAppears ==
    ASSUME TypeOK, NEW s \in Sessions, CommitBatch(s)
    PROVE  \E b \in Batches :
            /\ IsNextBatch(who[s], b)
            /\ stop' \in [Workers -> [Batches -> [Points -> RouteStopStatus \cup {"NONE"}]]]
            /\ \A q \in Points : stop[who[s]][b][q] = "NONE"
            /\ \A v \in Workers, c \in Batches, q \in Points :
                stop'[v][c][q] = IF v = who[s] /\ c = b
                                 THEN IF q \in claimed[s] THEN "PENDING" ELSE "NONE"
                                 ELSE stop[v][c][q]
<1> DEFINE w == who[s]
<1>1. w \in Workers
  BY DEF CommitBatch, TypeOK
<1>2. PICK b \in Batches :
        /\ IsNextBatch(w, b)
        /\ stop' = [stop EXCEPT ![w][b] =
                        [p \in Points |-> IF p \in claimed[s] THEN "PENDING" ELSE "NONE"]]
  BY DEF CommitBatch
<1>3. \A q \in Points : stop[w][b][q] = "NONE"
  BY <1>2, MaxBatchesAtLeast1 DEF IsNextBatch, Batches
<1>4. stop' \in [Workers -> [Batches -> [Points -> RouteStopStatus \cup {"NONE"}]]]
  BY <1>1, <1>2 DEF TypeOK, RouteStopStatus
<1>5. \A v \in Workers, c \in Batches, q \in Points :
        stop'[v][c][q] = IF v = w /\ c = b
                         THEN IF q \in claimed[s] THEN "PENDING" ELSE "NONE"
                         ELSE stop[v][c][q]
  BY <1>1, <1>2 DEF TypeOK
<1>6. QED
  BY <1>2, <1>3, <1>4, <1>5

-----------------------------------------------------------------------------
(* Type correctness *)

LEMMA TypeInit == Init => TypeOK
<1> SUFFICES ASSUME Init PROVE TypeOK
  OBVIOUS
<1> USE DEF Init
<1>1. route \in [Workers -> RouteStatus \cup {"NONE"}]
  OBVIOUS
<1>2. stop \in [Workers -> [Batches -> [Points -> RouteStopStatus \cup {"NONE"}]]]
  OBVIOUS
<1>3. impeded \in [Workers -> SUBSET Points] /\ over \in BOOLEAN
  OBVIOUS
<1>4. /\ pc \in [Sessions -> RequestStep]
      /\ who \in [Sessions -> Workers \cup {NoWorker}]
      /\ pool \in [Sessions -> SUBSET Points]
      /\ tried \in [Sessions -> SUBSET Points]
      /\ claimed \in [Sessions -> SUBSET Points]
      /\ target \in [Sessions -> StopName \cup {NoStop}]
  BY DEF RequestStep
<1>5. \A s \in Sessions : pc[s] = "idle" /\ claimed[s] = {} /\ tried[s] = {}
  OBVIOUS
<1>6. QED
  BY <1>1, <1>2, <1>3, <1>4, <1>5, Zenon DEF TypeOK

\* The end of a request leaves the request variables well typed.
LEMMA EndRequestType ==
    ASSUME TypeOK, NEW s \in Sessions, EndRequest(s)
    PROVE  /\ pc' \in [Sessions -> RequestStep]
           /\ who' \in [Sessions -> Workers \cup {NoWorker}]
           /\ pool' \in [Sessions -> SUBSET Points]
           /\ tried' \in [Sessions -> SUBSET Points]
           /\ claimed' \in [Sessions -> SUBSET Points]
           /\ target' \in [Sessions -> StopName \cup {NoStop}]
           /\ \A t \in Sessions :
                /\ pc'[t] # "idle" => who'[t] \in Workers
                /\ pc'[t] = "impeding" => target'[t] \in StopName
                /\ claimed'[t] \subseteq tried'[t]
                /\ tried'[t] # {} => pc'[t] \in {"claiming", "ordering"}
<1> USE DEF EndRequest, TypeOK, RequestStep
<1>1. /\ pc' \in [Sessions -> RequestStep]
      /\ who' \in [Sessions -> Workers \cup {NoWorker}]
      /\ pool' \in [Sessions -> SUBSET Points]
      /\ tried' \in [Sessions -> SUBSET Points]
      /\ claimed' \in [Sessions -> SUBSET Points]
      /\ target' \in [Sessions -> StopName \cup {NoStop}]
  OBVIOUS
<1>2. \A t \in Sessions : t # s =>
        /\ pc'[t] = pc[t] /\ who'[t] = who[t] /\ target'[t] = target[t]
        /\ tried'[t] = tried[t] /\ claimed'[t] = claimed[t]
  OBVIOUS
<1>3. pc'[s] = "idle" /\ tried'[s] = {} /\ claimed'[s] = {}
  OBVIOUS
<1>4. QED
  BY <1>1, <1>2, <1>3

LEMMA TypeStep == TypeOK /\ [Next]_vars => TypeOK'
<1> SUFFICES ASSUME TypeOK, [Next]_vars PROVE TypeOK'
  OBVIOUS
<1> USE DEF db, requests
<1>1. ASSUME NEW s \in Sessions, NEW w \in Workers, StartOrResume(s, w)
      PROVE  TypeOK'
  BY <1>1 DEF TypeOK, StartOrResume, RequestStep
<1>2. ASSUME NEW s \in Sessions, NEW w \in Workers, ReportRemainder(s, w)
      PROVE  TypeOK'
  BY <1>2 DEF TypeOK, ReportRemainder, RequestStep
<1>3. ASSUME NEW s \in Sessions, NEW w \in Workers, NEW b \in Batches, NEW p \in Points,
             ReportStop(s, w, b, p)
      PROVE  TypeOK'
  BY <1>3 DEF TypeOK, ReportStop, RequestStep, StopName
<1>4. ASSUME NEW s \in Sessions, ReturnOpenBatch(s)
      PROVE  TypeOK'
  <2>1. route' \in [Workers -> RouteStatus \cup {"NONE"}]
    BY <1>4 DEF ReturnOpenBatch, TypeOK, RouteStatus
  <2>2. EndRequest(s) /\ UNCHANGED <<stop, impeded, over>>
    BY <1>4 DEF ReturnOpenBatch
  <2>3. QED
    BY <2>1, <2>2, EndRequestType DEF TypeOK
<1>5. ASSUME NEW s \in Sessions, ReadPool(s)
      PROVE  TypeOK'
  BY <1>5 DEF TypeOK, ReadPool, RequestStep, FreePoints
<1>6. ASSUME NEW s \in Sessions, LockAndInsert(s)
      PROVE  TypeOK'
  <2>1. PICK S \in SUBSET Points :
          /\ tried'   = [tried EXCEPT ![s] = @ \cup S]
          /\ claimed' = [claimed EXCEPT ![s] = @ \cup {p \in S : ~IndexRefuses(p)}]
    BY <1>6 DEF LockAndInsert, Lockable, TypeOK
  <2>2. pc[s] = "claiming" /\ UNCHANGED <<db, over, pc, who, pool, target>>
    BY <1>6 DEF LockAndInsert
  <2>3. QED
    BY <2>1, <2>2 DEF TypeOK
<1>7. ASSUME NEW s \in Sessions, EndOfClaim(s)
      PROVE  TypeOK'
  BY <1>7 DEF TypeOK, EndOfClaim, RequestStep
<1>8. ASSUME NEW s \in Sessions, CommitBatch(s)
      PROVE  TypeOK'
  <2>1. route' \in [Workers -> RouteStatus \cup {"NONE"}]
    BY <1>8 DEF CommitBatch, TypeOK, RouteStatus
  <2>2. stop' \in [Workers -> [Batches -> [Points -> RouteStopStatus \cup {"NONE"}]]]
    BY <1>8, BatchAppears
  <2>3. EndRequest(s) /\ UNCHANGED <<impeded, over>>
    BY <1>8 DEF CommitBatch
  <2>4. QED
    BY <2>1, <2>2, <2>3, EndRequestType DEF TypeOK
<1>9. ASSUME NEW s \in Sessions, CommitNothing(s)
      PROVE  TypeOK'
  <2>1. route' \in [Workers -> RouteStatus \cup {"NONE"}]
    BY <1>9 DEF CommitNothing, TypeOK, RouteStatus
  <2>2. EndRequest(s) /\ UNCHANGED <<stop, impeded, over>>
    BY <1>9 DEF CommitNothing
  <2>3. QED
    BY <2>1, <2>2, EndRequestType DEF TypeOK
<1>10. ASSUME NEW s \in Sessions, ReleaseImpeded(s)
       PROVE  TypeOK'
  <2> DEFINE w == who[s]
             b == target[s].batch
             p == target[s].point
  <2>1. w \in Workers /\ b \in Batches /\ p \in Points
    BY <1>10 DEF ReleaseImpeded, TypeOK, StopName
  <2>2. /\ stop' \in [Workers -> [Batches -> [Points -> RouteStopStatus \cup {"NONE"}]]]
        /\ impeded' \in [Workers -> SUBSET Points]
    <3>1. CASE RowIsLive(w, b, p)
      <4>1. stop' = [stop EXCEPT ![w][b][p] = "RELEASED"]
        BY <1>10, <3>1 DEF ReleaseImpeded
      <4>2. impeded' = [impeded EXCEPT ![w] = @ \cup {p}]
        BY <1>10, <3>1 DEF ReleaseImpeded
      <4>3. "RELEASED" \in RouteStopStatus
        BY DEF RouteStopStatus
      <4>4. QED
        BY <2>1, <4>1, <4>2, <4>3, OneStopChanges DEF TypeOK
    <3>2. CASE ~RowIsLive(w, b, p)
      BY <1>10, <3>2 DEF ReleaseImpeded, TypeOK
    <3>3. QED
      BY <3>1, <3>2
  <2>3. EndRequest(s) /\ UNCHANGED <<route, over>>
    BY <1>10 DEF ReleaseImpeded
  <2>4. QED
    BY <2>2, <2>3, EndRequestType DEF TypeOK
<1>11. ASSUME NEW s \in Sessions, ReleaseRemainder(s)
       PROVE  TypeOK'
  <2>1. who[s] \in Workers
    BY <1>11 DEF ReleaseRemainder, TypeOK
  <2>2. ReleasedStops(who[s]) \in [Batches -> [Points -> RouteStopStatus \cup {"NONE"}]]
    BY <2>1 DEF ReleasedStops, TypeOK, RouteStopStatus
  <2>3. /\ route' \in [Workers -> RouteStatus \cup {"NONE"}]
        /\ stop' \in [Workers -> [Batches -> [Points -> RouteStopStatus \cup {"NONE"}]]]
    BY <1>11, <2>1, <2>2 DEF ReleaseRemainder, TypeOK, RouteStatus
  <2>4. EndRequest(s) /\ UNCHANGED <<impeded, over>>
    BY <1>11 DEF ReleaseRemainder
  <2>5. QED
    BY <2>3, <2>4, EndRequestType DEF TypeOK
<1>12. ASSUME NEW s \in Sessions, Rollback(s)
       PROVE  TypeOK'
  <2>1. EndRequest(s) /\ UNCHANGED <<db, over>>
    BY <1>12 DEF Rollback
  <2>2. QED
    BY <2>1, EndRequestType DEF TypeOK
<1>13. ASSUME NEW w \in Workers, NEW b \in Batches, NEW p \in Points,
              CheckIn(w, b, p) \/ CheckOut(w, b, p)
       PROVE  TypeOK'
  <2>1. stop' \in [Workers -> [Batches -> [Points -> RouteStopStatus \cup {"NONE"}]]]
    BY <1>13, OneStopChanges DEF CheckIn, CheckOut, RouteStopStatus
  <2>2. UNCHANGED <<route, impeded, over, requests>>
    BY <1>13 DEF CheckIn, CheckOut
  <2>3. QED
    BY <2>1, <2>2 DEF TypeOK
<1>14. ASSUME NEW gone \in SUBSET Workers, NEW closed \in SUBSET Workers,
              ReleaseScan(gone, closed)
       PROVE  TypeOK'
  <2>1. stop' \in [Workers -> [Batches -> [Points -> RouteStopStatus \cup {"NONE"}]]]
    BY <1>14, RoutesRelease DEF ReleaseScan
  <2>2. route' \in [Workers -> RouteStatus \cup {"NONE"}]
    BY <1>14 DEF ReleaseScan, TypeOK, RouteStatus
  <2>3. UNCHANGED <<impeded, over, requests>>
    BY <1>14 DEF ReleaseScan
  <2>4. QED
    BY <2>1, <2>2, <2>3 DEF TypeOK
<1>15. CASE WorkdayEnds
  BY <1>15 DEF WorkdayEnds, TypeOK
<1>16. CASE UNCHANGED vars
  BY <1>16 DEF vars, TypeOK
<1>17. QED
  BY <1>1, <1>2, <1>3, <1>4, <1>5, <1>6, <1>7, <1>8, <1>9, <1>10, <1>11, <1>12, <1>13, <1>14,
     <1>15, <1>16
  DEF Next, Ask, Proceed, NextBatch

\* The database rows, the clock and every request keep their types.
THEOREM TypeCorrect == Spec => []TypeOK
  BY TypeInit, TypeStep, PTL DEF Spec

-----------------------------------------------------------------------------
(* The quiet steps: everything but the three steps of a claim *)

\* Claims in flight keep their hands on what they have, and a request that no longer claims has
\* let go of it.
ClaimsOnlyEnd ==
    \A s \in Sessions :
        IF Claiming(s)'
        THEN /\ Claiming(s)
             /\ who'[s] = who[s] /\ pool'[s] = pool[s]
             /\ tried'[s] = tried[s] /\ claimed'[s] = claimed[s]
        ELSE tried'[s] = {} /\ claimed'[s] = {}

\* A new impediment names a live stop of a route that no claim has locked, and takes it away.
ImpededOnlyWhenReleased ==
    \A w \in Workers : \A p \in impeded'[w] \ impeded[w] :
        /\ ~RouteLocked(w)
        /\ \E b \in Batches : Live(stop[w][b][p]) /\ ~Live(stop'[w][b][p])

\* A route that is not IN_PROGRESS is left with nothing live.
LeavesNothingStranded ==
    \A w \in Workers : route'[w] # "IN_PROGRESS" => ~HasOpenStop(w)'

QuietStep ==
    /\ StopsOnlyAdvance
    /\ ClaimsOnlyEnd
    /\ ImpededOnlyWhenReleased
    /\ LeavesNothingStranded

\* A request that ends lets go of its locks; the others are not concerned.
LEMMA EndRequestIsQuiet ==
    ASSUME TypeOK, NEW s \in Sessions, EndRequest(s)
    PROVE  ClaimsOnlyEnd
<1> USE DEF EndRequest, TypeOK
<1>1. pc'[s] = "idle" /\ tried'[s] = {} /\ claimed'[s] = {}
  OBVIOUS
<1>2. \A t \in Sessions : t # s =>
        /\ pc'[t] = pc[t] /\ who'[t] = who[t] /\ pool'[t] = pool[t]
        /\ tried'[t] = tried[t] /\ claimed'[t] = claimed[t]
  OBVIOUS
<1>3. \A t \in Sessions : ~Claiming(t) => tried[t] = {} /\ claimed[t] = {}
  BY DEF Claiming
<1>4. QED
  BY <1>1, <1>2, <1>3 DEF ClaimsOnlyEnd, Claiming

\* A step that leaves the claims alone, but for the step a claim has reached.
LEMMA ClaimsUntouched ==
    ASSUME TypeOK,
           \A s \in Sessions : Claiming(s)' => Claiming(s) /\ who'[s] = who[s],
           \A s \in Sessions : Claiming(s) => Claiming(s)',
           UNCHANGED <<pool, tried, claimed>>
    PROVE  ClaimsOnlyEnd
  BY DEF ClaimsOnlyEnd, Claiming, TypeOK

\* A step that changes no row of the database strands nothing and impedes nothing.
LEMMA NoRowChanges ==
    ASSUME TypeOK, NoStrandedWork, UNCHANGED db
    PROVE  StopsOnlyAdvance /\ ImpededOnlyWhenReleased /\ LeavesNothingStranded
  BY DEF db, StopsOnlyAdvance, ImpededOnlyWhenReleased, LeavesNothingStranded, NoStrandedWork,
         HasOpenStop

\* Stops only advance, impediments are as before, and a route that is left with live stops was
\* IN_PROGRESS and still is.
LEMMA NothingStranded ==
    ASSUME TypeOK, NoStrandedWork, StopsOnlyAdvance,
           \A w \in Workers : route'[w] # "IN_PROGRESS" =>
                route[w] # "IN_PROGRESS" \/ ~HasOpenStop(w)'
    PROVE  LeavesNothingStranded
<1> SUFFICES ASSUME NEW w \in Workers, route'[w] # "IN_PROGRESS", HasOpenStop(w)'
             PROVE  FALSE
  BY DEF LeavesNothingStranded
<1>1. PICK b \in Batches, p \in Points : Live(stop'[w][b][p])
  BY DEF HasOpenStop
<1>2. Live(stop[w][b][p])
  BY <1>1 DEF StopsOnlyAdvance, Live
<1>3. HasOpenStop(w)
  BY <1>2 DEF HasOpenStop
<1>4. QED
  BY <1>3 DEF NoStrandedWork

LEMMA StepKinds ==
    ASSUME IInv, [Next]_vars
    PROVE  \/ \E s \in Sessions : ReadPool(s) \/ LockAndInsert(s) \/ CommitBatch(s)
           \/ QuietStep
<1> USE DEF requests
<1>0. TypeOK /\ NoStrandedWork
  BY DEF IInv, SafetyInv
<1>1. ASSUME NEW s \in Sessions, NEW w \in Workers,
             StartOrResume(s, w) \/ ReportRemainder(s, w)
      PROVE  QuietStep
  <2>1. UNCHANGED <<db, pool, tried, claimed>>
    BY <1>1 DEF StartOrResume, ReportRemainder
  <2>2. ~Claiming(s) /\ ~Claiming(s)'
    BY <1>0, <1>1 DEF StartOrResume, ReportRemainder, Claiming, TypeOK
  <2>3. \A t \in Sessions : t # s => pc'[t] = pc[t] /\ who'[t] = who[t]
    BY <1>0, <1>1 DEF StartOrResume, ReportRemainder, TypeOK
  <2>4. ClaimsOnlyEnd
    BY <1>0, <2>1, <2>2, <2>3, ClaimsUntouched DEF Claiming
  <2>5. QED
    BY <1>0, <2>1, <2>4, NoRowChanges DEF QuietStep
<1>2. ASSUME NEW s \in Sessions, NEW w \in Workers, NEW b \in Batches, NEW p \in Points,
             ReportStop(s, w, b, p)
      PROVE  QuietStep
  <2>1. UNCHANGED <<db, pool, tried, claimed>>
    BY <1>2 DEF ReportStop
  <2>2. ~Claiming(s) /\ ~Claiming(s)'
    BY <1>0, <1>2 DEF ReportStop, Claiming, TypeOK
  <2>3. \A t \in Sessions : t # s => pc'[t] = pc[t] /\ who'[t] = who[t]
    BY <1>0, <1>2 DEF ReportStop, TypeOK
  <2>4. ClaimsOnlyEnd
    BY <1>0, <2>1, <2>2, <2>3, ClaimsUntouched DEF Claiming
  <2>5. QED
    BY <1>0, <2>1, <2>4, NoRowChanges DEF QuietStep
<1>3. ASSUME NEW s \in Sessions, ReturnOpenBatch(s)
      PROVE  QuietStep
  <2>1. ClaimsOnlyEnd
    BY <1>0, <1>3, EndRequestIsQuiet DEF ReturnOpenBatch
  <2>2. StopsOnlyAdvance /\ ImpededOnlyWhenReleased
    BY <1>3 DEF ReturnOpenBatch, StopsOnlyAdvance, ImpededOnlyWhenReleased
  <2>3. \A w \in Workers : route'[w] # "IN_PROGRESS" => route'[w] = route[w]
    BY <1>0, <1>3 DEF ReturnOpenBatch, TypeOK
  <2>4. QED
    BY <1>0, <2>1, <2>2, <2>3, NothingStranded DEF QuietStep
<1>4. ASSUME NEW s \in Sessions, EndOfClaim(s)
      PROVE  QuietStep
  <2>1. UNCHANGED <<db, who, pool, tried, claimed>>
    BY <1>4 DEF EndOfClaim
  <2>2. Claiming(s) /\ Claiming(s)'
    BY <1>0, <1>4 DEF EndOfClaim, Claiming, TypeOK
  <2>3. \A t \in Sessions : t # s => pc'[t] = pc[t]
    BY <1>0, <1>4 DEF EndOfClaim, TypeOK
  <2>4. ClaimsOnlyEnd
    BY <1>0, <2>1, <2>2, <2>3, ClaimsUntouched DEF Claiming
  <2>5. QED
    BY <1>0, <2>1, <2>4, NoRowChanges DEF QuietStep
<1>5. ASSUME NEW s \in Sessions, CommitNothing(s)
      PROVE  QuietStep
  <2>1. ClaimsOnlyEnd
    BY <1>0, <1>5, EndRequestIsQuiet DEF CommitNothing
  <2>2. StopsOnlyAdvance /\ ImpededOnlyWhenReleased
    BY <1>5 DEF CommitNothing, StopsOnlyAdvance, ImpededOnlyWhenReleased
  <2>3. \A w \in Workers : route'[w] # "IN_PROGRESS" =>
          route'[w] = route[w] \/ w = who[s]
    BY <1>0, <1>5 DEF CommitNothing, TypeOK
  <2>4. ~HasOpenStop(who[s]) /\ UNCHANGED stop
    BY <1>5 DEF CommitNothing, IInv, ClaimInv, ClaimHasNoOpenStop, Claiming
  <2>5. \A w \in Workers : w = who[s] => ~HasOpenStop(w)'
    BY <2>4 DEF HasOpenStop
  <2>6. QED
    BY <1>0, <2>1, <2>2, <2>3, <2>5, NothingStranded DEF QuietStep
<1>6. ASSUME NEW s \in Sessions, ReleaseImpeded(s)
      PROVE  QuietStep
  <2> DEFINE w == who[s]
             b == target[s].batch
             p == target[s].point
  <2>1. w \in Workers /\ b \in Batches /\ p \in Points
    BY <1>0, <1>6 DEF ReleaseImpeded, TypeOK, StopName
  <2>2. ClaimsOnlyEnd
    BY <1>0, <1>6, EndRequestIsQuiet DEF ReleaseImpeded
  <2>3. StopsOnlyAdvance /\ ImpededOnlyWhenReleased
    <3>1. CASE RowIsLive(w, b, p)
      <4>1. stop' = [stop EXCEPT ![w][b][p] = "RELEASED"]
        BY <1>6, <3>1 DEF ReleaseImpeded
      <4>0. "RELEASED" \in RouteStopStatus
        BY DEF RouteStopStatus
      <4>2. \A v \in Workers, c \in Batches, q \in Points :
              stop'[v][c][q] = IF v = w /\ c = b /\ q = p THEN "RELEASED" ELSE stop[v][c][q]
        BY <1>0, <2>1, <4>1 DEF TypeOK
      <4>3. Live(stop[w][b][p])
        BY <3>1 DEF RowIsLive
      <4>4. StopsOnlyAdvance
        BY <4>2, <4>3 DEF StopsOnlyAdvance
      <4>5. ~RouteLocked(w) /\ impeded' = [impeded EXCEPT ![w] = @ \cup {p}]
        BY <1>6, <3>1 DEF ReleaseImpeded
      <4>6. \A v \in Workers : \A q \in impeded'[v] \ impeded[v] : v = w /\ q = p
        BY <1>0, <2>1, <4>5 DEF TypeOK
      <4>7. ~Live(stop'[w][b][p])
        BY <2>1, <4>2 DEF Live
      <4>8. ImpededOnlyWhenReleased
        BY <2>1, <4>3, <4>5, <4>6, <4>7 DEF ImpededOnlyWhenReleased
      <4>9. QED
        BY <4>4, <4>8
    <3>2. CASE ~RowIsLive(w, b, p)
      BY <1>6, <3>2 DEF ReleaseImpeded, StopsOnlyAdvance, ImpededOnlyWhenReleased
    <3>3. QED
      BY <3>1, <3>2
  <2>4. UNCHANGED route
    BY <1>6 DEF ReleaseImpeded
  <2>5. QED
    BY <1>0, <2>2, <2>3, <2>4, NothingStranded DEF QuietStep
<1>7. ASSUME NEW s \in Sessions, ReleaseRemainder(s)
      PROVE  QuietStep
  <2>1. who[s] \in Workers
    BY <1>0, <1>7 DEF ReleaseRemainder, TypeOK
  <2>2. ClaimsOnlyEnd
    BY <1>0, <1>7, EndRequestIsQuiet DEF ReleaseRemainder
  <2> DEFINE R == {who[s]}
  <2>3. /\ R \in SUBSET Workers
        /\ stop' = [w \in Workers |-> IF w \in R THEN ReleasedStops(w) ELSE stop[w]]
    BY <1>0, <1>7, <2>1 DEF ReleaseRemainder, TypeOK
  <2> HIDE DEF R
  <2>4. \A v \in Workers, c \in Batches, q \in Points :
          stop'[v][c][q] = IF v \in R /\ Live(stop[v][c][q]) THEN "RELEASED" ELSE stop[v][c][q]
    BY <1>0, <2>3, RoutesRelease
  <2>5. StopsOnlyAdvance /\ ImpededOnlyWhenReleased
    BY <1>7, <2>4 DEF ReleaseRemainder, StopsOnlyAdvance, ImpededOnlyWhenReleased
  <2>6. \A w \in Workers : w = who[s] => ~HasOpenStop(w)'
    BY <2>4 DEF HasOpenStop, Live, R
  <2>7. \A w \in Workers : w # who[s] => route'[w] = route[w]
    BY <1>0, <1>7 DEF ReleaseRemainder, TypeOK
  <2>8. QED
    BY <1>0, <2>2, <2>5, <2>6, <2>7, NothingStranded DEF QuietStep
<1>8. ASSUME NEW s \in Sessions, Rollback(s)
      PROVE  QuietStep
  <2>1. ClaimsOnlyEnd
    BY <1>0, <1>8, EndRequestIsQuiet DEF Rollback
  <2>2. QED
    BY <1>0, <1>8, <2>1, NoRowChanges DEF Rollback, QuietStep
<1>9. ASSUME NEW w \in Workers, NEW b \in Batches, NEW p \in Points,
             CheckIn(w, b, p) \/ CheckOut(w, b, p)
      PROVE  QuietStep
  <2>1. PICK x \in {"IN_PROGRESS", "DONE"} : stop' = [stop EXCEPT ![w][b][p] = x]
    BY <1>9 DEF CheckIn, CheckOut
  <2>0. x \in RouteStopStatus
    BY DEF RouteStopStatus
  <2>2. \A v \in Workers, c \in Batches, q \in Points :
          stop'[v][c][q] = IF v = w /\ c = b /\ q = p THEN x ELSE stop[v][c][q]
    BY <1>0, <2>1 DEF TypeOK
  <2>3. Live(stop[w][b][p]) /\ UNCHANGED <<route, impeded, requests>>
    BY <1>9 DEF CheckIn, CheckOut, Live
  <2>4. StopsOnlyAdvance
    BY <2>2, <2>3 DEF StopsOnlyAdvance
  <2>5. ImpededOnlyWhenReleased
    BY <2>3 DEF ImpededOnlyWhenReleased
  <2>6. ClaimsOnlyEnd
    BY <1>0, <2>3, ClaimsUntouched DEF Claiming
  <2>7. LeavesNothingStranded
    BY <1>0, <2>3, <2>4, NothingStranded
  <2>8. QED
    BY <2>4, <2>5, <2>6, <2>7 DEF QuietStep
<1>10. ASSUME NEW gone \in SUBSET Workers, NEW closed \in SUBSET Workers,
              ReleaseScan(gone, closed)
       PROVE  QuietStep
  <2> DEFINE R == gone \cup closed
  <2>1. R \in SUBSET Workers
    OBVIOUS
  <2>2. stop' = [w \in Workers |-> IF w \in R THEN ReleasedStops(w) ELSE stop[w]]
    BY <1>10 DEF ReleaseScan
  <2>3. \A v \in Workers, c \in Batches, q \in Points :
          stop'[v][c][q] = IF v \in R /\ Live(stop[v][c][q]) THEN "RELEASED" ELSE stop[v][c][q]
    BY <1>0, <2>1, <2>2, RoutesRelease
  <2>4. StopsOnlyAdvance /\ ImpededOnlyWhenReleased
    BY <1>10, <2>3 DEF ReleaseScan, StopsOnlyAdvance, ImpededOnlyWhenReleased
  <2>5. \A w \in R : ~HasOpenStop(w)'
    BY <2>1, <2>3 DEF HasOpenStop, Live
  <2>6. \A w \in Workers : w \notin R => route'[w] = route[w]
    BY <1>10 DEF ReleaseScan
  <2>7. ClaimsOnlyEnd
    BY <1>0, <1>10, ClaimsUntouched DEF ReleaseScan, Claiming
  <2>8. LeavesNothingStranded
    BY <1>0, <2>4, <2>5, <2>6, NothingStranded
  <2>9. QED
    BY <2>4, <2>7, <2>8 DEF QuietStep
<1>11. CASE WorkdayEnds
  <2>1. ClaimsOnlyEnd
    BY <1>0, <1>11, ClaimsUntouched DEF WorkdayEnds, Claiming
  <2>2. QED
    BY <1>0, <1>11, <2>1, NoRowChanges DEF WorkdayEnds, QuietStep
<1>12. CASE UNCHANGED vars
  <2>1. ClaimsOnlyEnd
    BY <1>0, <1>12, ClaimsUntouched DEF vars, Claiming
  <2>2. QED
    BY <1>0, <1>12, <2>1, NoRowChanges DEF vars, QuietStep
<1>13. QED
  BY <1>1, <1>2, <1>3, <1>4, <1>5, <1>6, <1>7, <1>8, <1>9, <1>10, <1>11, <1>12
  DEF Next, Ask, Proceed, NextBatch
-----------------------------------------------------------------------------
(* The inductive invariant *)

LEMMA InitIInv == Init => IInv
<1> SUFFICES ASSUME Init PROVE IInv
  OBVIOUS
<1>1. TypeOK
  BY TypeInit
<1>2. /\ \A w \in Workers, b \in Batches, p \in Points : stop[w][b][p] = "NONE"
      /\ \A w \in Workers : impeded[w] = {}
      /\ \A s \in Sessions : pc[s] = "idle" /\ tried[s] = {} /\ claimed[s] = {}
  BY DEF Init
<1>3. Exclusive /\ OneOpenBatch /\ NoStrandedWork /\ NotHandedBackToReporter
  BY <1>2 DEF Exclusive, OneOpenBatch, NoStrandedWork, NotHandedBackToReporter, Taken, HoldsPoint,
              HasOpenStop, Live
<1>4. Cardinality({}) <= BatchSize
  BY FS_EmptySet, BatchSizeAtLeast1
<1>5. BatchWithinSize
  <2> SUFFICES ASSUME NEW w \in Workers, NEW b \in Batches
               PROVE  Cardinality({p \in Points : stop[w][b][p] # "NONE"}) <= BatchSize
    BY DEF BatchWithinSize
  <2>1. {p \in Points : stop[w][b][p] # "NONE"} = {}
    BY <1>2
  <2>2. QED
    BY <1>4, <2>1
<1>6. ClaimInv
  BY <1>2, <1>4 DEF ClaimInv, ClaimsApart, ClaimHasNoOpenStop, ClaimSparesImpeded,
                    ClaimWithinSize, Claiming
<1>7. QED
  BY <1>1, <1>3, <1>5, <1>6 DEF IInv, SafetyInv

\* A step that hands out nothing can only weaken what the invariant protects.
LEMMA QuietKeepsInv == IInv /\ TypeOK' /\ QuietStep => IInv'
<1> SUFFICES ASSUME IInv, TypeOK', QuietStep PROVE IInv'
  OBVIOUS
<1>1. \A w \in Workers, b \in Batches, p \in Points :
        /\ Live(stop'[w][b][p]) => Live(stop[w][b][p])
        /\ HoldsPoint(stop'[w][b][p]) => HoldsPoint(stop[w][b][p])
        /\ stop'[w][b][p] # "NONE" <=> stop[w][b][p] # "NONE"
  BY DEF QuietStep, StopsOnlyAdvance, Live, HoldsPoint
<1>2. \A p \in Points : Taken(p)' => Taken(p)
  BY <1>1 DEF Taken
<1>3. \A w \in Workers : HasOpenStop(w)' => HasOpenStop(w)
  BY <1>1 DEF HasOpenStop
<1>4. \A s \in Sessions : claimed'[s] \subseteq claimed[s] /\ tried'[s] \subseteq tried[s]
  BY DEF QuietStep, ClaimsOnlyEnd
<1>5. \A s \in Sessions : Claiming(s)' =>
        Claiming(s) /\ who'[s] = who[s] /\ pool'[s] = pool[s] /\ claimed'[s] = claimed[s]
  BY DEF QuietStep, ClaimsOnlyEnd
<1>6. Exclusive'
  <2>1. \A s \in Sessions : claimed[s] \subseteq Points
    BY DEF IInv, TypeOK
  <2>2. \A s \in Sessions : \A p \in claimed'[s] : ~Taken(p)'
    BY <1>2, <1>4, <2>1 DEF IInv, SafetyInv, Exclusive
  <2>3. \A w1, w2 \in Workers, b1, b2 \in Batches, p \in Points :
          HoldsPoint(stop'[w1][b1][p]) /\ HoldsPoint(stop'[w2][b2][p]) => w1 = w2 /\ b1 = b2
    BY <1>1 DEF IInv, SafetyInv, Exclusive
  <2>4. \A s, t \in Sessions : s # t => claimed'[s] \cap claimed'[t] = {}
    BY <1>4 DEF IInv, SafetyInv, Exclusive
  <2>5. QED
    BY <2>2, <2>3, <2>4 DEF Exclusive
<1>7. OneOpenBatch'
  BY <1>1 DEF IInv, SafetyInv, OneOpenBatch
<1>8. NoStrandedWork'
  BY DEF QuietStep, LeavesNothingStranded, NoStrandedWork
<1>9. NotHandedBackToReporter'
  <2> SUFFICES ASSUME NEW w \in Workers, NEW p \in impeded'[w], NEW c \in Batches,
                      Live(stop'[w][c][p])
               PROVE  FALSE
    BY DEF NotHandedBackToReporter
  <2>1. p \in Points
    BY DEF TypeOK
  <2>2. Live(stop[w][c][p])
    BY <1>1, <2>1
  <2>3. CASE p \in impeded[w]
    BY <2>2, <2>3 DEF IInv, SafetyInv, NotHandedBackToReporter
  <2>4. CASE p \notin impeded[w]
    <3>1. PICK b \in Batches : Live(stop[w][b][p]) /\ ~Live(stop'[w][b][p])
      BY <2>4 DEF QuietStep, ImpededOnlyWhenReleased
    <3>2. b = c
      BY <2>1, <2>2, <3>1 DEF IInv, SafetyInv, Exclusive, HoldsPoint
    <3>3. QED
      BY <3>1, <3>2
  <2>5. QED
    BY <2>3, <2>4
<1>10. BatchWithinSize'
  <2>1. \A w \in Workers, b \in Batches :
          {p \in Points : stop'[w][b][p] # "NONE"} = {p \in Points : stop[w][b][p] # "NONE"}
    BY <1>1
  <2>2. QED
    BY <2>1 DEF IInv, SafetyInv, BatchWithinSize
<1>11. ClaimsApart'
  BY <1>4, <1>5 DEF IInv, ClaimInv, ClaimsApart
<1>12. ClaimHasNoOpenStop'
  <2>1. \A s \in Sessions : Claiming(s)' => who'[s] = who[s] /\ who[s] \in Workers /\ ~HasOpenStop(who[s])
    BY <1>5 DEF IInv, ClaimInv, ClaimHasNoOpenStop, TypeOK, Claiming
  <2> SUFFICES ASSUME NEW s \in Sessions, Claiming(s)' PROVE ~HasOpenStop(who[s])'
    BY DEF ClaimHasNoOpenStop
  <2>2. PICK w \in Workers : w = who'[s]
    BY <2>1
  <2>3. ~HasOpenStop(w)'
    BY <1>3, <2>1, <2>2
  <2>4. QED
    BY <2>2, <2>3 DEF HasOpenStop
<1>13. ClaimSparesImpeded'
  <2> SUFFICES ASSUME NEW s \in Sessions, Claiming(s)'
               PROVE  (pool'[s] \cup claimed'[s]) \cap impeded'[who'[s]] = {}
    BY DEF ClaimSparesImpeded
  <2>1. Claiming(s) /\ who'[s] = who[s] /\ pool'[s] = pool[s] /\ claimed'[s] = claimed[s]
    BY <1>5
  <2>2. who[s] \in Workers /\ RouteLocked(who[s])
    BY <2>1 DEF IInv, TypeOK, Claiming, RouteLocked
  <2>3. impeded'[who[s]] \subseteq impeded[who[s]]
    BY <2>2 DEF QuietStep, ImpededOnlyWhenReleased
  <2>4. QED
    BY <2>1, <2>3 DEF IInv, ClaimInv, ClaimSparesImpeded
<1>14. ClaimWithinSize'
  <2>1. \A s \in Sessions : claimed'[s] = claimed[s] \/ claimed'[s] = {}
    BY DEF QuietStep, ClaimsOnlyEnd
  <2>2. Cardinality({}) <= BatchSize
    BY FS_EmptySet, BatchSizeAtLeast1
  <2>3. QED
    BY <2>1, <2>2 DEF IInv, ClaimInv, ClaimWithinSize
<1>15. QED
  BY <1>6, <1>7, <1>8, <1>9, <1>10, <1>11, <1>12, <1>13, <1>14
  DEF IInv, SafetyInv, ClaimInv
-----------------------------------------------------------------------------
(* The three steps of a claim *)

\* Reading the pool under the route lock: nothing is live on the route, and the candidates are
\* not points the worker is barred from.
LEMMA ReadPoolKeepsInv ==
    ASSUME IInv, TypeOK', NEW s \in Sessions, ReadPool(s)
    PROVE  IInv'
<1> DEFINE w == who[s]
<1>1. /\ w \in Workers /\ ~HasOpenStop(w) /\ ~RouteLocked(w)
      /\ tried[s] = {} /\ claimed[s] = {}
  BY DEF ReadPool, IInv, TypeOK
<1>2. UNCHANGED <<route, stop, impeded, who, tried, claimed>>
  BY DEF ReadPool, db
<1>3. /\ pool'[s] = FreePoints(w)
      /\ \A t \in Sessions : t # s => pool'[t] = pool[t] /\ (Claiming(t)' <=> Claiming(t))
  BY DEF ReadPool, IInv, TypeOK, Claiming
<1>4. \A t \in Sessions : t # s /\ Claiming(t) => who[t] # w
  BY <1>1 DEF RouteLocked, Claiming
<1>5. SafetyInv'
  BY <1>2 DEF IInv, SafetyInv, Exclusive, OneOpenBatch, NoStrandedWork, NotHandedBackToReporter,
              BatchWithinSize, Taken, HasOpenStop
<1>6. ClaimsApart'
  BY <1>2, <1>3, <1>4 DEF IInv, ClaimInv, ClaimsApart
<1>7. ClaimHasNoOpenStop'
  BY <1>1, <1>2, <1>3 DEF IInv, ClaimInv, ClaimHasNoOpenStop, HasOpenStop
<1>8. ClaimSparesImpeded'
  BY <1>1, <1>2, <1>3 DEF IInv, ClaimInv, ClaimSparesImpeded, FreePoints
<1>9. ClaimWithinSize'
  BY <1>2 DEF IInv, ClaimInv, ClaimWithinSize
<1>10. QED
  BY <1>5, <1>6, <1>7, <1>8, <1>9 DEF IInv, ClaimInv

\* A round of the claim: what it takes is free, from the pool it read, locked by nobody else, and
\* never more than is still missing.
LEMMA LockAndInsertKeepsInv ==
    ASSUME IInv, TypeOK', NEW s \in Sessions, LockAndInsert(s)
    PROVE  IInv'
<1>1. PICK S \in SUBSET Lockable(s) :
        /\ Cardinality(S) <= Missing(s)
        /\ tried'   = [tried EXCEPT ![s] = @ \cup S]
        /\ claimed' = [claimed EXCEPT ![s] = @ \cup {p \in S : ~IndexRefuses(p)}]
  BY DEF LockAndInsert
<1> DEFINE T == {p \in S : ~IndexRefuses(p)}
<1>2. UNCHANGED <<route, stop, impeded, pc, who, pool>> /\ Claiming(s)
  BY DEF LockAndInsert, db, Claiming
<1>3. /\ tried'[s] = tried[s] \cup S
      /\ claimed'[s] = claimed[s] \cup T
      /\ \A t \in Sessions : t # s => tried'[t] = tried[t] /\ claimed'[t] = claimed[t]
  BY <1>1 DEF IInv, TypeOK
<1>4. S \subseteq pool[s] /\ S \subseteq Points /\ \A t \in Sessions : t # s => S \cap tried[t] = {}
  BY DEF Lockable, LockedByOthers, IInv, TypeOK
<1>5. \A t \in Sessions : claimed[t] \subseteq tried[t]
  BY DEF IInv, TypeOK
<1>6. \A p \in T : ~Taken(p)
  BY DEF IndexRefuses
<1>7. Exclusive'
  <2>1. \A w1, w2 \in Workers, b1, b2 \in Batches, p \in Points :
          HoldsPoint(stop'[w1][b1][p]) /\ HoldsPoint(stop'[w2][b2][p]) => w1 = w2 /\ b1 = b2
    BY <1>2 DEF IInv, SafetyInv, Exclusive
  <2>2. \A t, u \in Sessions : t # u => claimed'[t] \cap claimed'[u] = {}
    BY <1>3, <1>4, <1>5 DEF IInv, SafetyInv, Exclusive
  <2>3. \A t \in Sessions : \A p \in claimed'[t] : ~Taken(p)
    BY <1>3, <1>6 DEF IInv, SafetyInv, Exclusive
  <2>4. \A t \in Sessions : \A p \in claimed'[t] : ~Taken(p)'
    BY <1>2, <2>3 DEF Taken
  <2>5. QED
    BY <2>1, <2>2, <2>4 DEF Exclusive
<1>8. (OneOpenBatch /\ NoStrandedWork /\ NotHandedBackToReporter /\ BatchWithinSize)'
  BY <1>2 DEF IInv, SafetyInv, OneOpenBatch, NoStrandedWork, NotHandedBackToReporter,
              BatchWithinSize, HasOpenStop
<1>9. ClaimsApart'
  BY <1>2, <1>3, <1>4 DEF IInv, ClaimInv, ClaimsApart, Claiming
<1>10. ClaimHasNoOpenStop'
  BY <1>2 DEF IInv, ClaimInv, ClaimHasNoOpenStop, Claiming, HasOpenStop
<1>11. ClaimSparesImpeded'
  <2>1. pool[s] \cap impeded[who[s]] = {}
    BY <1>2 DEF IInv, ClaimInv, ClaimSparesImpeded
  <2>2. QED
    BY <1>2, <1>3, <1>4, <2>1 DEF IInv, ClaimInv, ClaimSparesImpeded, Claiming
<1>12. ClaimWithinSize'
  <2>1. IsFiniteSet(claimed[s]) /\ IsFiniteSet(S) /\ IsFiniteSet(T)
    BY <1>4, PointsFinite, FS_Subset DEF IInv, TypeOK
  <2>2. Cardinality(T) <= Cardinality(S) /\ Cardinality(T) \in Nat /\ Cardinality(S) \in Nat
    BY <2>1, FS_Subset, FS_CardinalityType
  <2>3. Cardinality(claimed[s]) \in Nat /\ Cardinality(claimed[s] \cap T) \in Nat
    BY <2>1, FS_CardinalityType, FS_Intersection
  <2>4. Cardinality(claimed[s] \cup T)
            = Cardinality(claimed[s]) + Cardinality(T) - Cardinality(claimed[s] \cap T)
    BY <2>1, FS_Union
  <2>5. Cardinality(S) <= BatchSize - Cardinality(claimed[s])
    BY <1>1 DEF Missing
  <2>6. Cardinality(claimed'[s]) <= BatchSize
    BY <1>3, <2>2, <2>3, <2>4, <2>5, BatchSizeAtLeast1
  <2>7. QED
    BY <1>3, <2>6 DEF IInv, ClaimInv, ClaimWithinSize
<1>13. QED
  BY <1>7, <1>8, <1>9, <1>10, <1>11, <1>12 DEF IInv, SafetyInv, ClaimInv

\* The commit: the batch that appears is all there is to do on the route, and its points were
\* free, spared and no more than a batch.
LEMMA CommitBatchKeepsInv ==
    ASSUME IInv, TypeOK', NEW s \in Sessions, CommitBatch(s)
    PROVE  IInv'
<1> DEFINE w == who[s]
<1>1. TypeOK /\ w \in Workers /\ Claiming(s) /\ EndRequest(s)
  BY DEF CommitBatch, IInv, TypeOK, Claiming
<1>2. PICK b \in Batches :
        /\ IsNextBatch(w, b)
        /\ \A v \in Workers, c \in Batches, q \in Points :
            stop'[v][c][q] = IF v = w /\ c = b
                             THEN IF q \in claimed[s] THEN "PENDING" ELSE "NONE"
                             ELSE stop[v][c][q]
  BY <1>1, BatchAppears
<1>3. ClaimsOnlyEnd /\ UNCHANGED impeded
  BY <1>1, EndRequestIsQuiet DEF CommitBatch
<1>4. \A t \in Sessions : claimed'[t] \subseteq claimed[t] /\ tried'[t] \subseteq tried[t]
  BY <1>3 DEF ClaimsOnlyEnd
<1>5. claimed'[s] = {} /\ ~Claiming(s)'
  BY <1>1 DEF EndRequest, TypeOK, Claiming
<1>6. \A t \in Sessions : Claiming(t)' =>
        Claiming(t) /\ who'[t] = who[t] /\ pool'[t] = pool[t] /\ claimed'[t] = claimed[t]
  BY <1>3 DEF ClaimsOnlyEnd
<1>7. claimed[s] \subseteq Points /\ \A p \in claimed[s] : ~Taken(p)
  BY <1>1 DEF IInv, SafetyInv, Exclusive, TypeOK
<1>8. ~HasOpenStop(w)
  BY <1>1 DEF IInv, ClaimInv, ClaimHasNoOpenStop
<1>9. \A v \in Workers, c \in Batches, q \in Points :
        HoldsPoint(stop'[v][c][q]) <=>
            IF v = w /\ c = b THEN q \in claimed[s] ELSE HoldsPoint(stop[v][c][q])
  BY <1>2 DEF HoldsPoint, Live
<1>10. Exclusive'
  <2>1. \A v1, v2 \in Workers, c1, c2 \in Batches, q \in Points :
          HoldsPoint(stop'[v1][c1][q]) /\ HoldsPoint(stop'[v2][c2][q]) => v1 = v2 /\ c1 = c2
    BY <1>1, <1>7, <1>9 DEF IInv, SafetyInv, Exclusive, Taken
  <2>2. \A t, u \in Sessions : t # u => claimed'[t] \cap claimed'[u] = {}
    BY <1>4 DEF IInv, SafetyInv, Exclusive
  <2>3. \A t \in Sessions : \A p \in claimed'[t] : p \in Points /\ p \notin claimed[s] /\ ~Taken(p)
    BY <1>1, <1>4, <1>5 DEF IInv, SafetyInv, Exclusive, TypeOK
  <2>4. \A t \in Sessions : \A p \in claimed'[t] : ~Taken(p)'
    BY <1>9, <2>3 DEF Taken
  <2>5. QED
    BY <2>1, <2>2, <2>4 DEF Exclusive
<1>11. OneOpenBatch'
  <2> SUFFICES ASSUME NEW v \in Workers, NEW c \in Batches, NEW d \in Batches,
                      NEW p \in Points, NEW q \in Points,
                      Live(stop'[v][c][p]), stop'[v][d][q] # "NONE"
               PROVE  d <= c
    BY DEF OneOpenBatch
  <2>1. CASE v = w
    <3>1. c = b
      BY <1>2, <1>8, <2>1 DEF HasOpenStop
    <3>2. CASE d = b
      BY <3>1, <3>2, MaxBatchesAtLeast1 DEF Batches
    <3>3. CASE d # b
      <4>1. stop[w][d][q] # "NONE"
        BY <1>1, <1>2, <2>1, <3>3
      <4>2. d < b
        BY <1>2, <4>1 DEF IsNextBatch
      <4>3. QED
        BY <3>1, <4>2, MaxBatchesAtLeast1 DEF Batches
    <3>4. QED
      BY <3>2, <3>3
  <2>2. CASE v # w
    BY <1>2, <2>2 DEF IInv, SafetyInv, OneOpenBatch
  <2>3. QED
    BY <2>1, <2>2
<1>12. NoStrandedWork'
  <2> SUFFICES ASSUME NEW v \in Workers, route'[v] # "IN_PROGRESS"
               PROVE  ~HasOpenStop(v)'
    BY DEF NoStrandedWork
  <2>1. v # w /\ route'[v] = route[v]
    BY <1>1 DEF CommitBatch, TypeOK
  <2>2. ~HasOpenStop(v)
    BY <2>1 DEF IInv, SafetyInv, NoStrandedWork
  <2>3. QED
    BY <1>2, <2>1, <2>2 DEF HasOpenStop
<1>13. NotHandedBackToReporter'
  <2> SUFFICES ASSUME NEW v \in Workers, NEW p \in impeded'[v], NEW c \in Batches,
                      Live(stop'[v][c][p])
               PROVE  FALSE
    BY DEF NotHandedBackToReporter
  <2>1. p \in impeded[v] /\ p \in Points
    BY <1>1, <1>3 DEF TypeOK
  <2>2. claimed[s] \cap impeded[w] = {}
    BY <1>1 DEF IInv, ClaimInv, ClaimSparesImpeded
  <2>3. ~Live(stop[v][c][p])
    BY <2>1 DEF IInv, SafetyInv, NotHandedBackToReporter
  <2>4. QED
    BY <1>2, <2>1, <2>2, <2>3 DEF Live
<1>14. BatchWithinSize'
  <2> SUFFICES ASSUME NEW v \in Workers, NEW c \in Batches
               PROVE  Cardinality({p \in Points : stop'[v][c][p] # "NONE"}) <= BatchSize
    BY DEF BatchWithinSize
  <2>1. CASE v = w /\ c = b
    <3>1. {p \in Points : stop'[v][c][p] # "NONE"} = claimed[s]
      BY <1>2, <1>7, <2>1
    <3>2. QED
      BY <3>1 DEF IInv, ClaimInv, ClaimWithinSize
  <2>2. CASE ~(v = w /\ c = b)
    <3>1. {p \in Points : stop'[v][c][p] # "NONE"} = {p \in Points : stop[v][c][p] # "NONE"}
      BY <1>2, <2>2
    <3>2. QED
      BY <3>1 DEF IInv, SafetyInv, BatchWithinSize
  <2>3. QED
    BY <2>1, <2>2
<1>15. ClaimsApart'
  BY <1>4, <1>6 DEF IInv, ClaimInv, ClaimsApart
<1>16. ClaimHasNoOpenStop'
  <2> SUFFICES ASSUME NEW t \in Sessions, Claiming(t)' PROVE ~HasOpenStop(who[t])'
    BY DEF ClaimHasNoOpenStop
  <2>1. Claiming(t) /\ who'[t] = who[t] /\ t # s
    BY <1>5, <1>6
  <2>2. who[t] # w /\ ~HasOpenStop(who[t])
    BY <1>1, <2>1 DEF IInv, ClaimInv, ClaimHasNoOpenStop, ClaimsApart
  <2>3. PICK v \in Workers : v = who[t]
    BY <2>1 DEF IInv, TypeOK, Claiming
  <2>4. ~HasOpenStop(v)'
    BY <1>2, <2>2, <2>3 DEF HasOpenStop
  <2>5. QED
    BY <2>1, <2>3, <2>4 DEF HasOpenStop
<1>17. ClaimSparesImpeded'
  BY <1>3, <1>6 DEF IInv, ClaimInv, ClaimSparesImpeded
<1>18. ClaimWithinSize'
  <2>1. \A t \in Sessions : claimed'[t] = claimed[t] \/ claimed'[t] = {}
    BY <1>3 DEF ClaimsOnlyEnd
  <2>2. Cardinality({}) <= BatchSize
    BY FS_EmptySet, BatchSizeAtLeast1
  <2>3. QED
    BY <2>1, <2>2 DEF IInv, ClaimInv, ClaimWithinSize
<1>19. QED
  BY <1>10, <1>11, <1>12, <1>13, <1>14, <1>15, <1>16, <1>17, <1>18 DEF IInv, SafetyInv, ClaimInv

LEMMA IInvStep == IInv /\ [Next]_vars => IInv'
<1> SUFFICES ASSUME IInv, [Next]_vars PROVE IInv'
  OBVIOUS
<1>1. TypeOK'
  BY TypeStep DEF IInv
<1>2. CASE QuietStep
  BY <1>1, <1>2, QuietKeepsInv
<1>3. ASSUME NEW s \in Sessions, ReadPool(s) PROVE IInv'
  BY <1>1, <1>3, ReadPoolKeepsInv
<1>4. ASSUME NEW s \in Sessions, LockAndInsert(s) PROVE IInv'
  BY <1>1, <1>4, LockAndInsertKeepsInv
<1>5. ASSUME NEW s \in Sessions, CommitBatch(s) PROVE IInv'
  BY <1>1, <1>5, CommitBatchKeepsInv
<1>6. QED
  BY <1>2, <1>3, <1>4, <1>5, StepKinds

LEMMA Invariance == Spec => []IInv
  BY InitIInv, IInvStep, PTL DEF Spec

-----------------------------------------------------------------------------
(* The theorems *)

\* No point is ever held by two stops of the day, whatever requests and scans race each other.
THEOREM AllocationIsExclusive == Spec => []Exclusive
<1>1. IInv => Exclusive
  BY DEF IInv, SafetyInv
<1>2. QED
  BY <1>1, Invariance, PTL

\* The open stops of a route are always all in its latest batch.
THEOREM OnlyOneOpenBatch == Spec => []OneOpenBatch
<1>1. IInv => OneOpenBatch
  BY DEF IInv, SafetyInv
<1>2. QED
  BY <1>1, Invariance, PTL

\* A route that is not being worked never has a live stop on it.
THEOREM NothingIsStranded == Spec => []NoStrandedWork
<1>1. IInv => NoStrandedWork
  BY DEF IInv, SafetyInv
<1>2. QED
  BY <1>1, Invariance, PTL

\* A worker is never handed a point they reported an impediment on that day.
THEOREM ReporterIsSpared == Spec => []NotHandedBackToReporter
<1>1. IInv => NotHandedBackToReporter
  BY DEF IInv, SafetyInv
<1>2. QED
  BY <1>1, Invariance, PTL

\* No batch is ever larger than the configured size.
THEOREM BatchesWithinSize == Spec => []BatchWithinSize
<1>1. IInv => BatchWithinSize
  BY DEF IInv, SafetyInv
<1>2. QED
  BY <1>1, Invariance, PTL
\* A stop that is DONE or RELEASED never changes again.
LEMMA ClosedStep ==
    IInv /\ [Next]_vars =>
        \A w \in Workers, b \in Batches, p \in Points :
            stop[w][b][p] \in {"DONE", "RELEASED"} => stop'[w][b][p] = stop[w][b][p]
<1> SUFFICES ASSUME IInv, [Next]_vars,
                    NEW w \in Workers, NEW b \in Batches, NEW p \in Points,
                    stop[w][b][p] \in {"DONE", "RELEASED"}
             PROVE  stop'[w][b][p] = stop[w][b][p]
  OBVIOUS
<1>1. CASE QuietStep
  BY <1>1 DEF QuietStep, StopsOnlyAdvance, Live
<1>2. ASSUME NEW s \in Sessions, ReadPool(s) \/ LockAndInsert(s)
      PROVE  stop'[w][b][p] = stop[w][b][p]
  BY <1>2 DEF ReadPool, LockAndInsert, db
<1>3. ASSUME NEW s \in Sessions, CommitBatch(s)
      PROVE  stop'[w][b][p] = stop[w][b][p]
  BY <1>3, BatchAppears DEF IInv
<1>4. QED
  BY <1>1, <1>2, <1>3, StepKinds

\* Finished work never goes back to the pool and a released stop never comes back to life.
THEOREM ClosedStopsStayClosed == Spec => ClosedStopStaysClosed
<1>1. IInv /\ [Next]_vars =>
        [\A w \in Workers, b \in Batches, p \in Points :
            stop[w][b][p] \in {"DONE", "RELEASED"} => stop'[w][b][p] = stop[w][b][p]]_vars
  BY ClosedStep
<1>2. QED
  BY <1>1, Invariance, PTL DEF Spec, ClosedStopStaysClosed

-----------------------------------------------------------------------------
(* Allocation implements DayPool *)

LEMMA RefineInit == Init => Pool!PoolInit
  BY DEF Init, Pool!PoolInit, Holding, Finished, Live

\* A step that changes neither a stop nor an impediment is a stutter of the pool.
LEMMA PoolStutters == UNCHANGED <<stop, impeded>> => UNCHANGED Pool!poolVars
  BY DEF Pool!poolVars, Holding, Finished

\* No two batches of a worker hold the same point.
LEMMA HeldOnce ==
    ASSUME Exclusive, NEW w \in Workers, NEW b \in Batches, NEW p \in Points,
           HoldsPoint(stop[w][b][p])
    PROVE  \A c \in Batches : c # b => ~HoldsPoint(stop[w][c][p])
  BY DEF Exclusive

\* A held stop that is checked out leaves what its worker holds for what the worker finished.
LEMMA CheckOutServes ==
    ASSUME IInv, NEW w \in Workers, NEW b \in Batches, NEW p \in Points, CheckOut(w, b, p)
    PROVE  Pool!Serve(w, p)
<1>1. \A v \in Workers, c \in Batches, q \in Points :
        stop'[v][c][q] = IF v = w /\ c = b /\ q = p THEN "DONE" ELSE stop[v][c][q]
  BY DEF CheckOut, IInv, TypeOK
<1>2. Live(stop[w][b][p]) /\ HoldsPoint(stop[w][b][p]) /\ UNCHANGED impeded
  BY DEF CheckOut, Live, HoldsPoint
<1>3. \A c \in Batches : c # b => ~HoldsPoint(stop[w][c][p])
  BY <1>2, HeldOnce DEF IInv, SafetyInv
<1>4. p \in Holding[w]
  BY <1>2 DEF Holding
<1>5. Holding' = [Holding EXCEPT ![w] = @ \ {p}]
  <2>1. \A v \in Workers : Holding'[v] = IF v = w THEN Holding[v] \ {p} ELSE Holding[v]
    BY <1>1, <1>3 DEF Holding, HoldsPoint, Live
  <2>2. QED
    BY <2>1 DEF Holding
<1>6. Finished' = [Finished EXCEPT ![w] = @ \cup {p}]
  <2>1. \A v \in Workers : Finished'[v] = IF v = w THEN Finished[v] \cup {p} ELSE Finished[v]
    BY <1>1, <1>2 DEF Finished, Live
  <2>2. QED
    BY <2>1 DEF Finished
<1>7. QED
  BY <1>2, <1>4, <1>5, <1>6 DEF Pool!Serve

\* A released stop leaves what its worker holds and bars the worker from the point.
LEMMA ReleaseImpedes ==
    ASSUME IInv, NEW s \in Sessions, ReleaseImpeded(s),
           RowIsLive(who[s], target[s].batch, target[s].point)
    PROVE  Pool!Impede(who[s], target[s].point)
<1> DEFINE w == who[s]
           b == target[s].batch
           p == target[s].point
<1>1. w \in Workers /\ b \in Batches /\ p \in Points
  BY DEF ReleaseImpeded, IInv, TypeOK, StopName
<1>2. /\ stop' = [stop EXCEPT ![w][b][p] = "RELEASED"]
      /\ impeded' = [impeded EXCEPT ![w] = @ \cup {p}]
  BY DEF ReleaseImpeded
<1>3. Live(stop[w][b][p]) /\ HoldsPoint(stop[w][b][p])
  BY DEF RowIsLive, HoldsPoint
<1> HIDE DEF w, b, p
<1>4. \A v \in Workers, c \in Batches, q \in Points :
        stop'[v][c][q] = IF v = w /\ c = b /\ q = p THEN "RELEASED" ELSE stop[v][c][q]
  BY <1>1, <1>2 DEF IInv, TypeOK
<1>5. \A c \in Batches : c # b => ~HoldsPoint(stop[w][c][p])
  BY <1>1, <1>3, HeldOnce DEF IInv, SafetyInv
<1>6. p \in Holding[w]
  BY <1>1, <1>3 DEF Holding
<1>7. Holding' = [Holding EXCEPT ![w] = @ \ {p}]
  <2>1. \A v \in Workers : Holding'[v] = IF v = w THEN Holding[v] \ {p} ELSE Holding[v]
    BY <1>1, <1>4, <1>5 DEF Holding, HoldsPoint, Live
  <2>2. QED
    BY <2>1 DEF Holding
<1>8. Finished' = Finished
  <2>1. \A v \in Workers : Finished'[v] = Finished[v]
    BY <1>1, <1>3, <1>4 DEF Finished, Live
  <2>2. QED
    BY <2>1 DEF Finished
<1>9. Pool!Impede(w, p)
  BY <1>2, <1>6, <1>7, <1>8 DEF Pool!Impede
<1>10. QED
  BY <1>9 DEF w, p

\* Routes whose live stops are released give back all that their workers hold.
LEMMA ReleaseGivesBack ==
    ASSUME TypeOK, NEW R \in SUBSET Workers, UNCHANGED impeded,
           stop' = [w \in Workers |-> IF w \in R THEN ReleasedStops(w) ELSE stop[w]]
    PROVE  Pool!GiveBack(R)
<1>1. \A v \in Workers, c \in Batches, q \in Points :
        stop'[v][c][q] = IF v \in R /\ Live(stop[v][c][q]) THEN "RELEASED" ELSE stop[v][c][q]
  BY RoutesRelease
<1>2. \A v \in Workers : Holding'[v] = IF v \in R THEN {} ELSE Holding[v]
  BY <1>1 DEF Holding, Live
<1>3. \A v \in Workers : Finished'[v] = Finished[v]
  BY <1>1 DEF Finished, Live
<1>4. QED
  BY <1>2, <1>3 DEF Pool!GiveBack, Holding, Finished

\* The commit of a batch hands it to a worker who holds nothing, from the free points.
LEMMA CommitTakes ==
    ASSUME IInv, NEW s \in Sessions, CommitBatch(s)
    PROVE  Pool!Take(who[s], claimed[s])
<1> DEFINE w == who[s]
<1>1. TypeOK /\ w \in Workers /\ Claiming(s) /\ claimed[s] # {} /\ UNCHANGED impeded
  BY DEF CommitBatch, IInv, TypeOK, Claiming
<1>2. PICK b \in Batches :
        /\ \A q \in Points : stop[w][b][q] = "NONE"
        /\ \A v \in Workers, c \in Batches, q \in Points :
            stop'[v][c][q] = IF v = w /\ c = b
                             THEN IF q \in claimed[s] THEN "PENDING" ELSE "NONE"
                             ELSE stop[v][c][q]
  BY <1>1, BatchAppears
<1>3. claimed[s] \subseteq Points /\ \A p \in claimed[s] : ~Taken(p)
  BY <1>1 DEF IInv, SafetyInv, Exclusive, TypeOK
<1>4. \A c \in Batches, p \in Points : ~Live(stop[w][c][p])
  BY <1>1 DEF IInv, ClaimInv, ClaimHasNoOpenStop, HasOpenStop
<1>5. Holding[w] = {}
  BY <1>1, <1>4 DEF Holding
<1>6. claimed[s] \subseteq Pool!Free \ impeded[w]
  <2>1. claimed[s] \cap impeded[w] = {}
    BY <1>1 DEF IInv, ClaimInv, ClaimSparesImpeded
  <2>2. \A p \in claimed[s] : \A v \in Workers : p \notin Holding[v] \cup Finished[v]
    BY <1>3 DEF Taken, HoldsPoint, Holding, Finished
  <2>3. QED
    BY <1>3, <2>1, <2>2 DEF Pool!Free
<1>7. Pool!Cardinality(claimed[s]) <= BatchSize
  <2>1. Pool!Cardinality(claimed[s]) = Cardinality(claimed[s])
    BY DEF Cardinality, Pool!Cardinality, IsFiniteSet, Pool!IsFiniteSet
  <2>2. QED
    BY <2>1 DEF IInv, ClaimInv, ClaimWithinSize
<1>8. Holding' = [Holding EXCEPT ![w] = claimed[s]]
  <2>1. \A v \in Workers : Holding'[v] = IF v = w THEN claimed[s] ELSE Holding[v]
    BY <1>1, <1>2, <1>3, <1>4 DEF Holding, Live
  <2>2. QED
    BY <2>1 DEF Holding
<1>9. Finished' = Finished
  <2>1. \A v \in Workers : Finished'[v] = Finished[v]
    BY <1>1, <1>2 DEF Finished
  <2>2. QED
    BY <2>1 DEF Finished
<1>10. QED
  BY <1>1, <1>5, <1>6, <1>7, <1>8, <1>9 DEF Pool!Take

LEMMA RefineStep == IInv /\ [Next]_vars => [Pool!PoolNext]_(Pool!poolVars)
<1> SUFFICES ASSUME IInv, [Next]_vars PROVE Pool!PoolNext \/ UNCHANGED Pool!poolVars
  OBVIOUS
<1>0. TypeOK
  BY DEF IInv
<1>1. CASE UNCHANGED <<stop, impeded>>
  BY <1>1, PoolStutters
<1>2. ASSUME NEW w \in Workers, NEW b \in Batches, NEW p \in Points, CheckIn(w, b, p)
      PROVE  UNCHANGED Pool!poolVars
  <2>1. \A v \in Workers, c \in Batches, q \in Points :
          stop'[v][c][q] = IF v = w /\ c = b /\ q = p THEN "IN_PROGRESS" ELSE stop[v][c][q]
    BY <1>0, <1>2 DEF CheckIn, TypeOK
  <2>2. stop[w][b][p] = "PENDING" /\ UNCHANGED impeded
    BY <1>2 DEF CheckIn
  <2>3. \A v \in Workers : Holding'[v] = Holding[v] /\ Finished'[v] = Finished[v]
    BY <2>1, <2>2 DEF Holding, Finished, Live
  <2>4. QED
    BY <2>2, <2>3 DEF Pool!poolVars, Holding, Finished
<1>3. ASSUME NEW w \in Workers, NEW b \in Batches, NEW p \in Points, CheckOut(w, b, p)
      PROVE  Pool!PoolNext
  BY <1>3, CheckOutServes DEF Pool!PoolNext
<1>4. ASSUME NEW s \in Sessions, ReleaseImpeded(s)
      PROVE  Pool!PoolNext \/ UNCHANGED <<stop, impeded>>
  <2>1. who[s] \in Workers /\ target[s].point \in Points
    BY <1>0, <1>4 DEF ReleaseImpeded, TypeOK, StopName
  <2>2. CASE RowIsLive(who[s], target[s].batch, target[s].point)
    BY <1>4, <2>1, <2>2, ReleaseImpedes DEF Pool!PoolNext
  <2>3. CASE ~RowIsLive(who[s], target[s].batch, target[s].point)
    BY <1>4, <2>3 DEF ReleaseImpeded
  <2>4. QED
    BY <2>2, <2>3
<1>5. ASSUME NEW s \in Sessions, ReleaseRemainder(s)
      PROVE  Pool!PoolNext
  <2> DEFINE R == {who[s]}
  <2>1. /\ R \in SUBSET Workers
        /\ stop' = [w \in Workers |-> IF w \in R THEN ReleasedStops(w) ELSE stop[w]]
        /\ UNCHANGED impeded
    BY <1>0, <1>5 DEF ReleaseRemainder, TypeOK
  <2> HIDE DEF R
  <2>2. Pool!GiveBack(R)
    BY <1>0, <2>1, ReleaseGivesBack
  <2>3. QED
    BY <2>1, <2>2 DEF Pool!PoolNext
<1>6. ASSUME NEW gone \in SUBSET Workers, NEW closed \in SUBSET Workers,
             ReleaseScan(gone, closed)
      PROVE  Pool!PoolNext
  <2> DEFINE R == gone \cup closed
  <2>1. /\ R \in SUBSET Workers
        /\ stop' = [w \in Workers |-> IF w \in R THEN ReleasedStops(w) ELSE stop[w]]
        /\ UNCHANGED impeded
    BY <1>6 DEF ReleaseScan
  <2> HIDE DEF R
  <2>2. Pool!GiveBack(R)
    BY <1>0, <2>1, ReleaseGivesBack
  <2>3. QED
    BY <2>1, <2>2 DEF Pool!PoolNext
<1>7. ASSUME NEW s \in Sessions, CommitBatch(s)
      PROVE  Pool!PoolNext
  <2>1. who[s] \in Workers /\ claimed[s] \in SUBSET Points
    BY <1>0, <1>7 DEF CommitBatch, TypeOK
  <2>2. QED
    BY <1>7, <2>1, CommitTakes DEF Pool!PoolNext
<1>8. ASSUME NEW s \in Sessions,
             \/ Ask(s) \/ Rollback(s) \/ ReturnOpenBatch(s) \/ ReadPool(s) \/ LockAndInsert(s)
             \/ EndOfClaim(s) \/ CommitNothing(s)
      PROVE  UNCHANGED <<stop, impeded>>
  BY <1>8 DEF Ask, StartOrResume, NextBatch, ReportStop, ReportRemainder, Rollback,
              ReturnOpenBatch, ReadPool, LockAndInsert, EndOfClaim, CommitNothing, db
<1>9. CASE WorkdayEnds \/ UNCHANGED vars
  BY <1>1, <1>9 DEF WorkdayEnds, vars, db
<1>10. QED
  BY <1>1, <1>2, <1>3, <1>4, <1>5, <1>6, <1>7, <1>8, <1>9 DEF Next, Proceed

\* Allocation implements DayPool: a commit hands a whole batch to a worker who holds nothing, a
\* check-out serves, an impediment takes the point from its reporter, a release gives back all
\* that some workers hold, and nothing else is seen of it.
THEOREM AllocationImplementsDayPool == Spec => ImplementsDayPool
<1>1. Init => Pool!PoolInit
  BY RefineInit
<1>2. IInv /\ [Next]_vars => [Pool!PoolNext]_(Pool!poolVars)
  BY RefineStep
<1>3. QED
  BY <1>1, <1>2, Invariance, PTL DEF Spec, ImplementsDayPool, Pool!PoolSpec
=============================================================================
