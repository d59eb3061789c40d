----------------------------- MODULE Allocation -----------------------------
(***************************************************************************)
(* The shared daily pool: routes, batches and their release                *)
(* (app/domain/routing, impediments, the release scan, check-in/-out).     *)
(*                                                                         *)
(* One campus day and one contractor company: pools of different companies *)
(* are disjoint and a route never outlives its day.  A worker has at most  *)
(* one route a day, so the route is named by its worker; a stop is named   *)
(* by its route, its batch number and its point.                           *)
(*                                                                         *)
(* A Session is an HTTP request inside its database transaction (READ      *)
(* COMMITTED).  What a transaction writes is seen by the others when it    *)
(* commits; until then it keeps its row locks.  The claim is the one long  *)
(* transaction (it calls OSRM before committing) and is modelled statement *)
(* by statement; a transaction that locks every row it reads before it     *)
(* writes is one atomic step.  What a handler reads without a lock, and    *)
(* the clock it read before waiting for one, is a step of its own.         *)
(***************************************************************************)
EXTENDS Naturals, FiniteSets

CONSTANTS
    Workers,        \* field workers of the company
    Points,         \* service points of the company's service types
    Sessions,       \* requests that can be in flight together
    BatchSize,      \* settings.allocation_batch_size
    MaxBatches,     \* bound of the model: batches handed out per route
    NoWorker,       \* an idle session serves nobody
    NoStop          \* a session that reports no single stop

ASSUME PointsFinite    == IsFiniteSet(Points)
ASSUME BatchSizeAtLeast1 == BatchSize \in Nat \ {0}
ASSUME MaxBatchesAtLeast1 == MaxBatches \in Nat \ {0}
ASSUME NoWorkerIsNoWorker == NoWorker \notin Workers

Batches == 1..MaxBatches

VARIABLES
    \* the database, as committed
    route,      \* route[w]: status of w's route of the day, "NONE" before the row exists
    stop,       \* stop[w][b][p]: status of the stop of batch b at p, "NONE" if there is none
    impeded,    \* impeded[w]: points with a STOP impediment reported by w
    \* the campus clock against settings.workday_end_time
    over,
    \* the requests in flight
    pc,         \* pc[s]: where the request is
    who,        \* who[s]: the worker it serves
    pool,       \* pool[s]: the candidates free_points returned to it
    tried,      \* tried[s]: the service point rows it has locked
    claimed,    \* claimed[s]: the points it has inserted a stop for, uncommitted
    target      \* target[s]: the stop an impediment names, as it was loaded

db == <<route, stop, impeded>>
requests == <<pc, who, pool, tried, claimed, target>>
vars == <<db, over, requests>>

RouteStatus == {"IN_PROGRESS", "PAUSED", "DONE"}
RouteStopStatus == {"PENDING", "IN_PROGRESS", "DONE", "RELEASED"}

\* Work still to do: no check-out received.
Live(status) == status \in {"PENDING", "IN_PROGRESS"}

\* Mutant: an index predicate that forgets finished work.
HoldsPointOnlyWhileLive(status) == Live(status)
\* The statuses that hold a point for the day, the predicate of the exclusivity index.
HoldsPoint(status) == Live(status) \/ status = "DONE"

\* Some committed stop of the day holds the point.
Taken(p) == \E w \in Workers, b \in Batches : HoldsPoint(stop[w][b][p])

HasOpenStop(w) == \E b \in Batches, p \in Points : Live(stop[w][b][p])

\* Mutant: the worker's own impediments are not left out of the pool.
FreePointsOfAnyone(w) == {p \in Points : ~Taken(p)}
\* The pool as the worker's request reads it.
FreePoints(w) == {p \in Points : ~Taken(p) /\ p \notin impeded[w]}

\* Mutant: the claim does not keep the route row locked.
RouteNeverLocked(w) == w \notin Workers
\* A claim in flight keeps its route row locked until it commits.
RouteLocked(w) == \E s \in Sessions : who[s] = w /\ pc[s] \in {"claiming", "ordering"}

\* The point rows that requests other than s keep locked.
LockedByOthers(s) == UNION {tried[t] : t \in Sessions \ {s}}

\* Mutant: the exclusivity index is not there.
IndexNeverRefuses(p) == p \notin Points
\* The exclusivity index refuses a stop for a point that a committed stop holds.
IndexRefuses(p) == Taken(p)

\* Mutant: every round of the claim asks for a whole batch.
WholeBatch(s) == BatchSize
\* How many points the next round of the claim still asks for.
Missing(s) == BatchSize - Cardinality(claimed[s])

\* b is the number of the route's next batch: one more than the highest so far.
IsNextBatch(w, b) ==
    /\ \A c \in Batches, p \in Points : stop[w][c][p] # "NONE" => c < b
    /\ b > 1 => \E p \in Points : stop[w][b - 1][p] # "NONE"

\* Mutant: a stop that was checked in is not given back.
ReleasedPending(w) ==
    [b \in Batches |-> [p \in Points |->
        IF stop[w][b][p] = "PENDING" THEN "RELEASED" ELSE stop[w][b][p]]]
\* The route's stops once everything live on it is given back.
ReleasedStops(w) ==
    [b \in Batches |-> [p \in Points |->
        IF Live(stop[w][b][p]) THEN "RELEASED" ELSE stop[w][b][p]]]

-----------------------------------------------------------------------------

Init ==
    /\ route    = [w \in Workers |-> "NONE"]
    /\ stop     = [w \in Workers |-> [b \in Batches |-> [p \in Points |-> "NONE"]]]
    /\ impeded  = [w \in Workers |-> {}]
    /\ over     = FALSE
    /\ pc       = [s \in Sessions |-> "idle"]
    /\ who      = [s \in Sessions |-> NoWorker]
    /\ pool     = [s \in Sessions |-> {}]
    /\ tried    = [s \in Sessions |-> {}]
    /\ claimed  = [s \in Sessions |-> {}]
    /\ target   = [s \in Sessions |-> NoStop]

\* Mutant: the session goes back to the pool of connections with its transaction open.
KeepsItsLocks(s) ==
    /\ pc' = [pc EXCEPT ![s] = "idle"]
    /\ UNCHANGED <<who, pool, tried, claimed, target>>
\* The transaction is over, committed or rolled back: its locks and its uncommitted rows go.
EndRequest(s) ==
    /\ pc'      = [pc EXCEPT ![s] = "idle"]
    /\ who'     = [who EXCEPT ![s] = NoWorker]
    /\ pool'    = [pool EXCEPT ![s] = {}]
    /\ tried'   = [tried EXCEPT ![s] = {}]
    /\ claimed' = [claimed EXCEPT ![s] = {}]
    /\ target'  = [target EXCEPT ![s] = NoStop]

-----------------------------------------------------------------------------
(* Asking for a batch *)

\* "Iniciar rota": the guards pass on the request's own `now`, before any lock is taken.
StartOrResume(s, w) ==
    /\ pc[s] = "idle"
    /\ ~over
    /\ pc'  = [pc EXCEPT ![s] = "admitted"]
    /\ who' = [who EXCEPT ![s] = w]
    /\ UNCHANGED <<db, over, pool, tried, claimed, target>>

\* Asking for more: as above, on a route that exists.
NextBatch(s, w) ==
    /\ route[w] # "NONE"
    /\ StartOrResume(s, w)

\* The route row is locked (created first if missing) and the worker still has an open stop:
\* the route comes back unchanged, and the transaction commits.
ReturnOpenBatch(s) ==
    LET w == who[s] IN
    /\ pc[s] = "admitted"
    /\ ~RouteLocked(w)
    /\ HasOpenStop(w)
    /\ route' = [route EXCEPT ![w] = "IN_PROGRESS"]
    /\ EndRequest(s)
    /\ UNCHANGED <<stop, impeded, over>>

\* The route row is locked, there is no open stop, and the pool is read.
ReadPool(s) ==
    LET w == who[s] IN
    /\ pc[s] = "admitted"
    /\ ~RouteLocked(w)
    /\ ~HasOpenStop(w)
    /\ \E b \in Batches : IsNextBatch(w, b)
    /\ pool' = [pool EXCEPT ![s] = FreePoints(w)]
    /\ pc'   = [pc EXCEPT ![s] = "claiming"]
    /\ UNCHANGED <<db, over, who, tried, claimed, target>>

\* The candidates the next round of the claim can lock: untried, and not skipped as locked.
Lockable(s) == (pool[s] \ tried[s]) \ LockedByOthers(s)

\* One round of the claim: lock the nearest lockable candidates, as many as are missing, and
\* insert a stop for each unless the index refuses it.  Which ones are nearest is left open.
LockAndInsert(s) ==
    /\ pc[s] = "claiming"
    /\ \E S \in SUBSET Lockable(s) :
        /\ S # {}
        /\ Cardinality(S) <= Missing(s)
        /\ Cardinality(S) = Missing(s) \/ S = Lockable(s)
        /\ tried'   = [tried EXCEPT ![s] = @ \cup S]
        /\ claimed' = [claimed EXCEPT ![s] = @ \cup {p \in S : ~IndexRefuses(p)}]
    /\ UNCHANGED <<db, over, pc, who, pool, target>>

\* The claim is over: the batch is full, or nothing is left to lock.  The order and the legs of
\* the batch are asked of OSRM next, with every lock still held.
EndOfClaim(s) ==
    /\ pc[s] = "claiming"
    /\ Missing(s) = 0 \/ Lockable(s) = {}
    /\ pc' = [pc EXCEPT ![s] = "ordering"]
    /\ UNCHANGED <<db, over, who, pool, tried, claimed, target>>

\* The batch is committed: its stops are seen by everybody and the route is being worked.
CommitBatch(s) ==
    LET w == who[s] IN
    /\ pc[s] = "ordering"
    /\ claimed[s] # {}
    /\ \E b \in Batches :
        /\ IsNextBatch(w, b)
        /\ stop' = [stop EXCEPT ![w][b] =
                        [p \in Points |-> IF p \in claimed[s] THEN "PENDING" ELSE "NONE"]]
    /\ route' = [route EXCEPT ![w] = "IN_PROGRESS"]
    /\ EndRequest(s)
    /\ UNCHANGED <<impeded, over>>

\* Nothing was claimed.  Only a pool that was read empty closes the route; candidates that were
\* all locked or refused leave it as it is (a route created just now is IN_PROGRESS).
CommitNothing(s) ==
    LET w == who[s] IN
    /\ pc[s] = "ordering"
    /\ claimed[s] = {}
    /\ route' = [route EXCEPT ![w] =
                    IF pool[s] = {} THEN "DONE" ELSE IF @ = "NONE" THEN "IN_PROGRESS" ELSE @]
    /\ EndRequest(s)
    /\ UNCHANGED <<stop, impeded, over>>

-----------------------------------------------------------------------------
(* Working the batch *)

\* Check-in: the stop row is locked, so the status read is the status overwritten.
CheckIn(w, b, p) ==
    /\ stop[w][b][p] = "PENDING"
    /\ stop' = [stop EXCEPT ![w][b][p] = "IN_PROGRESS"]
    /\ UNCHANGED <<route, impeded, over, requests>>

\* Check-out, likewise.
CheckOut(w, b, p) ==
    /\ stop[w][b][p] = "IN_PROGRESS"
    /\ stop' = [stop EXCEPT ![w][b][p] = "DONE"]
    /\ UNCHANGED <<route, impeded, over, requests>>

-----------------------------------------------------------------------------
(* Giving points back *)

\* An impediment on one stop: route and stop are loaded and judged without a lock.
ReportStop(s, w, b, p) ==
    /\ pc[s] = "idle"
    /\ route[w] = "IN_PROGRESS"
    /\ Live(stop[w][b][p])
    /\ pc'     = [pc EXCEPT ![s] = "impeding"]
    /\ who'    = [who EXCEPT ![s] = w]
    /\ target' = [target EXCEPT ![s] = [batch |-> b, point |-> p]]
    /\ UNCHANGED <<db, over, pool, tried, claimed>>

\* An impediment on the rest of the route: the route is loaded and judged without a lock.
ReportRemainder(s, w) ==
    /\ pc[s] = "idle"
    /\ route[w] = "IN_PROGRESS"
    /\ pc'  = [pc EXCEPT ![s] = "pausing"]
    /\ who' = [who EXCEPT ![s] = w]
    /\ UNCHANGED <<db, over, pool, tried, claimed, target>>

\* Mutant: the release trusts the copy of the stop the request loaded.
LoadedCopyWasLive(w, b, p) == w \in Workers
\* The status guard of the release's UPDATE: the row decides.
RowIsLive(w, b, p) == Live(stop[w][b][p])

\* The impediment row is inserted (its foreign key waits for a claim on the route) and the stop
\* released, if the row is still live; otherwise all of it is rolled back.
ReleaseImpeded(s) ==
    LET w == who[s]
        b == target[s].batch
        p == target[s].point
    IN
    /\ pc[s] = "impeding"
    /\ ~RouteLocked(w)
    /\ IF RowIsLive(w, b, p)
       THEN /\ stop' = [stop EXCEPT ![w][b][p] = "RELEASED"]
            /\ impeded' = [impeded EXCEPT ![w] = @ \cup {p}]
       ELSE UNCHANGED <<stop, impeded>>
    /\ EndRequest(s)
    /\ UNCHANGED <<route, over>>

\* release_route for an impediment takes the route row first; then every live stop goes back and
\* the route is PAUSED, whatever its status became since the request loaded it.
ReleaseRemainder(s) ==
    LET w == who[s] IN
    /\ pc[s] = "pausing"
    /\ ~RouteLocked(w)
    /\ stop'  = [stop EXCEPT ![w] = ReleasedStops(w)]
    /\ route' = [route EXCEPT ![w] = "PAUSED"]
    /\ EndRequest(s)
    /\ UNCHANGED <<impeded, over>>

\* Mutant: the end of the day forgets the paused routes.
ClosableUnlessPaused(w) == route[w] = "IN_PROGRESS" /\ ~RouteLocked(w)
\* A route the end of the day may close; a locked one is skipped until the next pass.
Closable(w) == route[w] \in {"IN_PROGRESS", "PAUSED"} /\ ~RouteLocked(w)

\* A route whose worker the scan may find gone: being worked, with live stops, not locked.
Working(w) == route[w] = "IN_PROGRESS" /\ HasOpenStop(w) /\ ~RouteLocked(w)

\* One pass of the release scan, one transaction.  gone: the routes whose worker left the campus
\* or went silent, paused.  closed: the routes the end of the workday closes.  Any route may be
\* missing from either: a row lock held for an instant (the foreign key of a position upload)
\* makes the pass skip it.
ReleaseScan(gone, closed) ==
    /\ gone \cup closed # {}
    /\ \A w \in gone : Working(w)
    /\ \A w \in closed : over /\ Closable(w)
    /\ stop'  = [w \in Workers |->
                    IF w \in gone \cup closed THEN ReleasedStops(w) ELSE stop[w]]
    /\ route' = [w \in Workers |->
                    IF w \in closed THEN "DONE" ELSE IF w \in gone THEN "PAUSED" ELSE route[w]]
    /\ UNCHANGED <<impeded, over, requests>>

-----------------------------------------------------------------------------
(* The surroundings *)

\* The campus wall clock reaches the end of the workday.
WorkdayEnds ==
    /\ ~over
    /\ over' = TRUE
    /\ UNCHANGED <<db, requests>>

\* A request dies before its commit (lost client, restarted server, deadlock victim): the
\* database rolls its transaction back.
Rollback(s) ==
    /\ pc[s] # "idle"
    /\ EndRequest(s)
    /\ UNCHANGED <<db, over>>

-----------------------------------------------------------------------------

\* What an admitted request does next.
Proceed(s) ==
    \/ ReturnOpenBatch(s) \/ ReadPool(s) \/ LockAndInsert(s) \/ EndOfClaim(s)
    \/ CommitBatch(s) \/ CommitNothing(s)
    \/ ReleaseImpeded(s) \/ ReleaseRemainder(s)

Ask(s) ==
    \/ \E w \in Workers : StartOrResume(s, w) \/ NextBatch(s, w) \/ ReportRemainder(s, w)
    \/ \E w \in Workers, b \in Batches, p \in Points : ReportStop(s, w, b, p)

Next ==
    \/ \E s \in Sessions : Ask(s) \/ Proceed(s) \/ Rollback(s)
    \/ \E w \in Workers, b \in Batches, p \in Points : CheckIn(w, b, p) \/ CheckOut(w, b, p)
    \/ \E gone, closed \in SUBSET Workers : ReleaseScan(gone, closed)
    \/ WorkdayEnds

Spec == Init /\ [][Next]_vars

\* Every request runs to its end, and the scan, run every minute, is not forever kept off a
\* route that nobody has locked.  Nothing makes a worker act.
Fairness ==
    /\ \A s \in Sessions : WF_vars(Proceed(s))
    /\ \A w \in Workers : WF_vars(ReleaseScan({}, {w}))

FairSpec == Spec /\ Fairness

-----------------------------------------------------------------------------
(* Properties *)

\* A stop of a known route.
StopName == [batch : Batches, point : Points]

RequestStep == {"idle", "admitted", "claiming", "ordering", "impeding", "pausing"}

\* The types, and what a request keeps between its steps: candidates are tried from the pool it
\* read, and only a claim keeps point rows locked.
TypeOK ==
    /\ route \in [Workers -> RouteStatus \cup {"NONE"}]
    /\ stop \in [Workers -> [Batches -> [Points -> RouteStopStatus \cup {"NONE"}]]]
    /\ impeded \in [Workers -> SUBSET Points]
    /\ over \in BOOLEAN
    /\ pc \in [Sessions -> RequestStep]
    /\ who \in [Sessions -> Workers \cup {NoWorker}]
    /\ pool \in [Sessions -> SUBSET Points]
    /\ tried \in [Sessions -> SUBSET Points]
    /\ claimed \in [Sessions -> SUBSET Points]
    /\ target \in [Sessions -> StopName \cup {NoStop}]
    /\ \A s \in Sessions :
        /\ pc[s] # "idle" => who[s] \in Workers
        /\ pc[s] = "impeding" => target[s] \in StopName
        /\ claimed[s] \subseteq tried[s]
        /\ tried[s] # {} => pc[s] \in {"claiming", "ordering"}

\* Two stops of the day never hold the same point, claims not yet committed included
\* (routing/models.py, "a point is live on at most one stop per day").
Exclusive ==
    /\ \A w1, w2 \in Workers, b1, b2 \in Batches, p \in Points :
        HoldsPoint(stop[w1][b1][p]) /\ HoldsPoint(stop[w2][b2][p])
            => w1 = w2 /\ b1 = b2
    /\ \A s, t \in Sessions : s # t => claimed[s] \cap claimed[t] = {}
    /\ \A s \in Sessions : \A p \in claimed[s] : ~Taken(p)

\* All the open stops of a route are in its latest batch, however many taps of the same worker
\* race each other (allocation.py, _has_open_stop).
OneOpenBatch ==
    \A w \in Workers, b, c \in Batches, p, q \in Points :
        Live(stop[w][b][p]) /\ stop[w][c][q] # "NONE" => c <= b

\* No live stop is stranded on a route that nobody works: a paused or finished route has given
\* everything back, even what a racing claim handed out (release.py, release_route).
NoStrandedWork ==
    \A w \in Workers : route[w] # "IN_PROGRESS" => ~HasOpenStop(w)

\* A worker never again holds a point they reported an impediment on that day
\* (allocation.py, _impeded_by_worker).
NotHandedBackToReporter ==
    \A w \in Workers : \A p \in impeded[w] : \A b \in Batches : ~Live(stop[w][b][p])

\* No batch is larger than the configured size, even when the claim took several rounds because
\* the index refused some of its candidates (allocation.py, _claim).
BatchWithinSize ==
    \A w \in Workers, b \in Batches :
        Cardinality({p \in Points : stop[w][b][p] # "NONE"}) <= BatchSize

\* Finished work never goes back to the pool and a released stop never comes back to life, in
\* whatever order check-out, impediment and scan commit (release.py, release_stops).
ClosedStopStaysClosed ==
    [][\A w \in Workers, b \in Batches, p \in Points :
        stop[w][b][p] \in {"DONE", "RELEASED"} => stop'[w][b][p] = stop[w][b][p]]_vars

\* Once the workday is over every route is eventually closed for good with nothing live on it:
\* claims admitted before the end, routes skipped as locked and impediments that pause a closed
\* route included (release_scan.py, _close_the_day).
DaySettles ==
    over ~> [](\A w \in Workers : route[w] \in {"NONE", "DONE"} /\ ~HasOpenStop(w))

-----------------------------------------------------------------------------
(* The abstract specification *)

Holding == [w \in Workers |-> {p \in Points : \E b \in Batches : Live(stop[w][b][p])}]
Finished == [w \in Workers |-> {p \in Points : \E b \in Batches : stop[w][b][p] = "DONE"}]

Pool == INSTANCE DayPool WITH holding <- Holding, finished <- Finished, barred <- impeded

\* The allocation implements the daily pool: every committed step hands out, serves, impedes or
\* gives back points the way DayPool allows.
ImplementsDayPool == Pool!PoolSpec
=============================================================================
