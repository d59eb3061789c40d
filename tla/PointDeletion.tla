---------------------------- MODULE PointDeletion ----------------------------
(***************************************************************************)
(* Deleting a service point, or a building with its points, and all the    *)
(* history that hangs on them (domain/catalog/deletion.py), next to other  *)
(* deletions, to claims of stops and to rows being written.                *)
(*                                                                         *)
(* A deletion locks nothing before it deletes.  It lists what is there,    *)
(* deletes what it listed, and a foreign key refuses the whole of it when  *)
(* a row it did not list still needs what it deletes.  What it wrote shows *)
(* to the others only when it commits.                                     *)
(***************************************************************************)
EXTENDS Naturals, FiniteSets

CONSTANTS
    Places,     \* ids of ServicePoint rows
    Building,   \* those of the building that may be deleted as a whole
    Tours,      \* ids of Route rows
    StopRows,   \* ids of RouteStop rows
    Crowded,    \* bound: those that rows of other tables hang on
    Deletions,  \* DELETE requests
    WrittenTables,    \* bound: the tables that rows are written to
    MaxIndex,   \* bound: order_index of the stops made
    MaxRows     \* bound: stops, and rows hanging on stops and routes, at a time

\* A row that hangs on a stop is told from one that hangs on a route by its owner.
ASSUME PointDeletionAssumption == Building \subseteq Places /\ Crowded \subseteq StopRows
                                 /\ StopRows \cap Tours = {}
                                 /\ MaxIndex \in Nat /\ MaxRows \in Nat

VARIABLES
    places,   \* the points that are there
    tours,    \* the routes that are there
    stopRow,  \* the RouteStop rows: point, route and order_index
    attached, \* the rows of the other tables, as <<table, stop or route>>
    claim,    \* the claim that holds each route's row lock
    deletion  \* the state of each DELETE request

deletionVars == <<places, tours, stopRow, attached, claim, deletion>>

NoStopRow == [place |-> "NONE"]
NoClaim   == [at |-> 0]
NoNumbers == [s \in {} |-> 0]

\* The tables that refer to a stop; to an execution, and through it to the stop it is of; and
\* to a route.  A stray scan was made with a code of the building at a point of another one.
StopTables      == {"EXECUTION", "ALERT", "IMPEDIMENT", "APPEAL"}
ExecutionTables == {"EVIDENCE", "SCAN", "STRAY_SCAN"}
RouteTables     == {"ALERT", "IMPEDIMENT", "POSITION"}

\* What a deletion tells the manager and the audit trail that it removes.
Counted == {"EXECUTION", "EVIDENCE", "APPEAL"}

There(s)     == stopRow[s] # NoStopRow
StopsOnTour(t)   == {s \in StopRows : There(s) /\ stopRow[s].route = t}
RoomForRow   == Cardinality({s \in StopRows : There(s)}) + Cardinality(attached) < MaxRows
RowsOf(tables, owners) == {r \in attached : r[1] \in tables /\ r[2] \in owners}

Idle == [step |-> "idle", points |-> {}, whole |-> FALSE, stops |-> {}, todo |-> {},
         listed |-> NoNumbers, numbers |-> NoNumbers, emptied |-> {}, gone |-> {},
         counted |-> {}, overtaken |-> FALSE, asTold |-> TRUE, again |-> FALSE]

Open == {d \in Deletions : deletion[d].step \notin {"idle", "done", "refused", "aborted"}}

DeletionInit ==
    /\ places = Places /\ tours = Tours
    /\ stopRow = [s \in StopRows |-> NoStopRow] /\ attached = {}
    /\ claim = [t \in Tours |-> NoClaim]
    /\ deletion = [d \in Deletions |-> Idle]

Done(d) == deletion[d].step = "done"

\* The rows of stops that another deletion deleted or renumbered, and has not committed.
HeldBy(d) == IF deletion[d].step \in {"dropped", "settled"}
             THEN deletion[d].stops \cup DOMAIN deletion[d].numbers ELSE {}
HeldFrom(d) == UNION {HeldBy(e) : e \in Deletions \ {d}}

\* History: something was written on what these deletions listed.
Overtake(overtaken) ==
    [d \in Deletions |-> IF d \in overtaken \cap Open
                         THEN [deletion[d] EXCEPT !.overtaken = TRUE] ELSE deletion[d]]

SharesPoint(d) == {e \in Deletions \ {d} : deletion[e].points \cap deletion[d].points # {}}
TakesRoute(t) == {d \in Deletions : t \in deletion[d].todo \cup deletion[d].emptied}

-----------------------------------------------------------------------------
(* The others *)

\* Mutant: the new stop takes the number after the count of the stops.
AfterCount(t, n) == n = Cardinality(StopsOnTour(t)) + 1
\* _next_batch_slot: n is the number after the highest.
IsNextIndex(t, n) ==
    /\ \A s \in StopsOnTour(t) : stopRow[s].at < n
    /\ n = 1 \/ \E s \in StopsOnTour(t) : stopRow[s].at = n - 1

\* A claim takes the route's row lock and reads its next index, then inserts the stop.
BeginClaim(t) ==
    /\ t \in tours /\ claim[t] = NoClaim
    /\ \E n \in 1..MaxIndex : IsNextIndex(t, n) /\ claim' = [claim EXCEPT ![t] = [at |-> n]]
    /\ UNCHANGED <<places, tours, stopRow, attached, deletion>>

CommitClaim(t, p, s) ==
    /\ claim[t] # NoClaim
    /\ p \in places /\ ~There(s) /\ RoomForRow /\ RowsOf(StopTables, {s}) = {}
    /\ \A d \in Open : s \notin deletion[d].stops \cup DOMAIN deletion[d].listed
    /\ stopRow' = [stopRow EXCEPT ![s] = [place |-> p, route |-> t, at |-> claim[t].at]]
    /\ claim' = [claim EXCEPT ![t] = NoClaim]
    /\ deletion' = Overtake(TakesRoute(t) \cup {d \in Deletions : p \in deletion[d].points})
    /\ UNCHANGED <<places, tours, attached>>

\* A check-in, a photo, a report, a scan or an appeal is written on a stop: the row it refers to
\* is there, and no deletion that has deleted it is about to commit.
AttachToStop(table, s) ==
    /\ There(s) /\ <<table, s>> \notin attached
    /\ RoomForRow
    /\ \A d \in Open : deletion[d].step \in {"dropped", "settled"} => s \notin deletion[d].stops
    /\ table \in ExecutionTables =>
           /\ <<"EXECUTION", s>> \in attached
           /\ \A d \in Open : <<"EXECUTION", s>> \notin deletion[d].gone
    /\ attached' = attached \cup {<<table, s>>}
    /\ table = "STRAY_SCAN" => \A d \in Deletions : ~(Done(d) /\ deletion[d].whole)
    /\ deletion' = Overtake({d \in Deletions : \/ s \in deletion[d].stops
                                              \/ (table = "STRAY_SCAN" /\ deletion[d].whole)})
    /\ UNCHANGED <<places, tours, stopRow, claim>>

\* An alert, a report or a position of a whole route, or a notification that names it.
AttachToRoute(table, t) ==
    /\ t \in tours /\ <<table, t>> \notin attached
    /\ RoomForRow
    /\ attached' = attached \cup {<<table, t>>}
    /\ deletion' = Overtake(TakesRoute(t))
    /\ UNCHANGED <<places, tours, stopRow, claim>>

-----------------------------------------------------------------------------
(* A deletion *)

Step(d, change) == deletion' = [deletion EXCEPT ![d] = change]

\* The points, their stops and the routes of these are listed, and the impact is counted.
BeginDeletion(d, points, whole) ==
    /\ deletion[d].step = "idle"
    /\ points # {} /\ points \subseteq places
    /\ LET stops == {s \in StopRows : There(s) /\ stopRow[s].place \in points}
       IN  Step(d, [Idle EXCEPT !.step = "listed", !.points = points, !.whole = whole,
                                !.stops = stops, !.todo = {stopRow[s].route : s \in stops},
                                !.counted = RowsOf(Counted, stops)])
    /\ UNCHANGED <<places, tours, stopRow, attached, claim>>

\* Mutant: the appeals against the stops are forgotten.
WithoutAppeals == (StopTables \cup ExecutionTables) \ {"APPEAL"}
\* The tables whose rows on the stops are deleted.
Cleared == StopTables \cup ExecutionTables

\* _delete_stops: what hangs on the stops now is deleted; rows another deletion is deleting
\* are waited for.
ClearStops(d) ==
    /\ deletion[d].step = "listed"
    /\ LET rows == RowsOf(Cleared, deletion[d].stops)
       IN  /\ \A e \in Open \ {d} : deletion[e].gone \cap rows = {}
           /\ Step(d, [deletion[d] EXCEPT !.step = "cleared", !.gone = rows])
    /\ UNCHANGED <<places, tours, stopRow, attached, claim>>

\* The rollback of a refused or aborted deletion brings everything back.
EndDeletion(d, step) ==
    /\ Step(d, [Idle EXCEPT !.step = step, !.overtaken = deletion[d].overtaken])
    /\ UNCHANGED <<places, tours, stopRow, attached, claim>>

\* The stops themselves are deleted, unless a row that was not cleared refers to one.
DropStops(d) ==
    /\ deletion[d].step = "cleared"
    /\ deletion[d].stops \cap HeldFrom(d) = {}
    /\ IF RowsOf(StopTables \cup ExecutionTables, deletion[d].stops) \subseteq deletion[d].gone
       THEN /\ Step(d, [deletion[d] EXCEPT !.step = "dropped"])
            /\ UNCHANGED <<places, tours, stopRow, attached, claim>>
       ELSE EndDeletion(d, "refused")

\* _settle_routes: the stops a route still has are listed in order, as they are seen now.
ListRemaining(d, t) ==
    /\ deletion[d].step = "dropped" /\ deletion[d].listed = NoNumbers /\ t \in deletion[d].todo
    /\ LET left == StopsOnTour(t) \ deletion[d].stops
           number(s) == Cardinality({r \in left : stopRow[r].at <= stopRow[s].at})
       IN  Step(d, IF left # {}
                   THEN [deletion[d] EXCEPT !.listed = [s \in left |-> number(s)], !.todo = @ \ {t}]
                   ELSE [deletion[d] EXCEPT !.emptied = @ \cup {t}, !.todo = @ \ {t}])
    /\ UNCHANGED <<places, tours, stopRow, attached, claim>>

\* They are renumbered once no other deletion holds them.  Those that went meanwhile are not
\* found, and leave a gap.
Renumber(d) ==
    LET listed  == deletion[d].listed
        numbers == deletion[d].numbers
    IN  /\ listed # NoNumbers
        /\ DOMAIN listed \cap HeldFrom(d) = {}
        /\ Step(d, [deletion[d] EXCEPT
               !.listed = NoNumbers,
               !.numbers = [s \in DOMAIN numbers \cup {r \in DOMAIN listed : There(r)} |->
                               IF s \in DOMAIN listed THEN listed[s] ELSE numbers[s]]])
        /\ UNCHANGED <<places, tours, stopRow, attached, claim>>

\* Two deletions that each list stops the other holds wait on each other: one is aborted.
Deadlock(d) ==
    /\ \E e \in Deletions \ {d} : /\ DOMAIN deletion[d].listed \cap HeldBy(e) # {}
                                  /\ DOMAIN deletion[e].listed \cap HeldBy(d) # {}
    /\ EndDeletion(d, "aborted")

\* The routes left without a stop go with what hangs on them, and so do their notifications,
\* which name them without a foreign key; a building goes with every scan of its codes.
ClearRoutes(d) ==
    /\ deletion[d].step = "dropped" /\ deletion[d].listed = NoNumbers /\ deletion[d].todo = {}
    /\ LET rows == RowsOf(RouteTables \cup {"NOTIFICATION"}, deletion[d].emptied)
                       \cup (IF deletion[d].whole THEN RowsOf({"STRAY_SCAN"}, StopRows) ELSE {})
       IN  /\ \A e \in Open \ {d} : deletion[e].gone \cap rows = {}
           /\ Step(d, [deletion[d] EXCEPT !.step = "settled", !.gone = @ \cup rows])
    /\ UNCHANGED <<places, tours, stopRow, attached, claim>>

\* What still refers to what the deletion removes.
StillNeeded(d) ==
    \/ \E s \in StopRows \ deletion[d].stops :
          There(s) /\ (stopRow[s].place \in deletion[d].points \/ stopRow[s].route \in deletion[d].emptied)
    \/ ~(RowsOf(RouteTables, deletion[d].emptied) \subseteq deletion[d].gone)
    \/ deletion[d].whole /\ ~(RowsOf({"STRAY_SCAN"}, StopRows) \subseteq deletion[d].gone)

\* The routes, the points and the building are deleted and everything commits, once no claim
\* holds the routes; or a foreign key refuses it.
CommitDeletion(d) ==
    /\ deletion[d].step = "settled"
    /\ \A t \in deletion[d].emptied : claim[t] = NoClaim
    /\ IF StillNeeded(d) THEN EndDeletion(d, "refused")
       ELSE /\ places' = places \ deletion[d].points
            /\ tours' = tours \ deletion[d].emptied
            /\ stopRow' = [s \in StopRows |->
                   IF s \in deletion[d].stops THEN NoStopRow
                   ELSE IF s \in DOMAIN deletion[d].numbers
                   THEN [stopRow[s] EXCEPT !.at = deletion[d].numbers[s]] ELSE stopRow[s]]
            /\ attached' = attached \ deletion[d].gone
            /\ deletion' = [Overtake(SharesPoint(d)) EXCEPT
                   ![d] = [Idle EXCEPT !.step = "done", !.whole = deletion[d].whole,
                                       !.emptied = deletion[d].emptied,
                                       !.asTold = {r \in deletion[d].gone : r[1] \in Counted}
                                                      = deletion[d].counted,
                                       !.again = ~(deletion[d].points \subseteq places),
                                       !.overtaken = deletion[d].overtaken]]
            /\ UNCHANGED claim

-----------------------------------------------------------------------------

DeletionNext ==
    \/ \E t \in Tours : BeginClaim(t)
    \/ \E t \in Tours, p \in Places, s \in StopRows : CommitClaim(t, p, s)
    \/ \E s \in Crowded, table \in WrittenTables \cap (StopTables \cup ExecutionTables) : AttachToStop(table, s)
    \/ \E t \in Tours, table \in WrittenTables \cap (RouteTables \cup {"NOTIFICATION"}) : AttachToRoute(table, t)
    \/ \E d \in Deletions :
          \/ \E p \in Places : BeginDeletion(d, {p}, FALSE)
          \/ BeginDeletion(d, Building, TRUE)
          \/ ClearStops(d) \/ DropStops(d)
          \/ \E t \in Tours : ListRemaining(d, t)
          \/ Renumber(d) \/ Deadlock(d) \/ ClearRoutes(d) \/ CommitDeletion(d)

DeletionSpec == DeletionInit /\ [][DeletionNext]_deletionVars

-----------------------------------------------------------------------------
(* Properties *)

\* Every variable keeps its type.
DeletionTypeOK ==
    /\ places \subseteq Places /\ tours \subseteq Tours
    /\ \A s \in StopRows : There(s) => /\ stopRow[s].place \in places
                                       /\ stopRow[s].route \in tours
                                       /\ stopRow[s].at \in Nat \ {0}
    /\ \A r \in attached : r[1] # "NOTIFICATION" => r[2] \in tours \/ There(r[2])
    /\ \A t \in Tours : claim[t].at \in Nat
    /\ \A d \in Deletions :
          /\ deletion[d].step \in {"idle", "listed", "cleared", "dropped", "settled",
                                   "done", "refused", "aborted"}
          /\ deletion[d].points \subseteq Places /\ deletion[d].stops \subseteq StopRows

\* History: no deletion was of a point that another one, committed since it began, had deleted.
NoneAgain == \A d \in Deletions : ~deletion[d].again

\* The app shows the stops of a route by order_index, which no constraint keeps distinct.  Two
\* stops of a route never share one, although the deletions renumber the stops they saw while
\* claims and other deletions add and remove some.  Unless two managers delete one point at a
\* time: to the later of the two, whose stops are gone, the route is what it was before.
OrderIsDistinct ==
    NoneAgain =>
    \A r, s \in StopRows : There(r) /\ There(s) /\ r # s /\ stopRow[r].route = stopRow[s].route
                           => stopRow[r].at # stopRow[s].at

\* A deletion that nothing overtook is never refused by a foreign key, whatever hangs on the
\* stops; it removes exactly what the manager was told, and no notification goes on naming a
\* route it removed.
UndisturbedDeletion ==
    \A d \in Deletions : ~deletion[d].overtaken =>
        /\ deletion[d].step # "refused"
        /\ Done(d) => /\ deletion[d].asTold
                      /\ RowsOf({"NOTIFICATION"}, deletion[d].emptied) = {}

=============================================================================
