----------------------------- MODULE FloorScans -----------------------------
(***************************************************************************)
(* Which stop a scan means (domain/execution/service.py, validation.py).   *)
(* A code names a floor, the server picks the stop: a late, repeated or    *)
(* reordered scan is matched with the stops as they are when it arrives.   *)
(*                                                                         *)
(* The app is offline underground: it queues the check-in and the check-out*)
(* of each visit, sends them when it can, again when an answer is lost, and*)
(* names the room when it is asked to.  The locks inside one request are   *)
(* StopExecution's; here a request looks up its key, then does the rest.   *)
(***************************************************************************)

CONSTANTS
    Rooms,     \* the stops of the worker's route on one floor
    Visits,    \* the worker's visits; each has a check-in key and a check-out key
    Calls,     \* requests in flight at once
    Fixes      \* what the GPS says: in the building or near it, far from it, or nothing

ASSUME FloorScansAssumption ==
    /\ Fixes \subseteq {"INSIDE", "FAR", "NONE"}
    /\ "NO_ROOM" \notin Rooms /\ "NO_VISIT" \notin Visits

VARIABLES
    room,      \* the status of each stop
    started,   \* the worker has a started route for today
    code,      \* what became of the code on the floor's wall
    visit,     \* each visit: the room it was in and its GPS fix
    checkedIn, \* the execution of each check-in key: its stop and flags
    closes,    \* the check-in key of the execution that each check-out key closed
    call,      \* the requests whose key was looked up
    told       \* the last answer the app has for each scan

floorVars == <<room, started, code, visit, checkedIn, closes, call, told>>

NoRoom      == "NO_ROOM"
NoVisit     == "NO_VISIT"
NotVisited  == [room |-> NoRoom]
NotThere    == [room |-> NoRoom, flags |-> {}]
NoCall      == [visit |-> NoVisit]

FloorScansInit ==
    /\ room = [r \in Rooms |-> "NONE"]
    /\ started = TRUE /\ code = "ACTIVE"
    /\ visit = [v \in Visits |-> NotVisited]
    /\ checkedIn = [v \in Visits |-> NotThere] /\ closes = [v \in Visits |-> NoVisit]
    /\ call = [c \in Calls |-> NoCall]
    /\ told = [v \in Visits |-> [in |-> "NOTHING", out |-> "NOTHING"]]

-----------------------------------------------------------------------------
(* What happens meanwhile *)

\* A batch puts a room on the worker's list.
HandOutRoom(r) ==
    /\ room[r] = "NONE"
    /\ room' = [room EXCEPT ![r] = "PENDING"]
    /\ UNCHANGED <<started, code, visit, checkedIn, closes, call, told>>

\* An impediment, the release scan or the end of the day gives a room back.
GiveBack(r) ==
    /\ room[r] \in {"PENDING", "IN_PROGRESS"}
    /\ room' = [room EXCEPT ![r] = "RELEASED"]
    /\ UNCHANGED <<started, code, visit, checkedIn, closes, call, told>>

\* The next campus day begins: the worker has no route for it.
DayEnds ==
    /\ started
    /\ started' = FALSE
    /\ UNCHANGED <<room, code, visit, checkedIn, closes, call, told>>

\* A newer code replaces it, or it is revoked.
ReplaceCode ==
    /\ code = "ACTIVE"
    /\ code' = "SUPERSEDED"
    /\ UNCHANGED <<room, started, visit, checkedIn, closes, call, told>>

RevokeCode ==
    /\ code # "REVOKED"
    /\ code' = "REVOKED"
    /\ UNCHANGED <<room, started, visit, checkedIn, closes, call, told>>

\* The worker scans the floor's code in a room of their list, and knows where they have been.
VisitRoom(v, r, fix) ==
    /\ visit[v] = NotVisited /\ room[r] = "PENDING"
    /\ \A u \in Visits : visit[u].room # r
    /\ visit' = [visit EXCEPT ![v] = [room |-> r, fix |-> fix]]
    /\ UNCHANGED <<room, started, code, checkedIn, closes, call, told>>

-----------------------------------------------------------------------------
(* Resolving the room *)

\* The rooms within the radius of a fix: the points of a floor are where their building is.
Near(fix) == IF fix = "INSIDE" THEN Rooms ELSE {}

\* Mutant: of several rooms in radius the first one is taken.
FirstInRadius(candidates, fix, choice) ==
    LET inRadius == candidates \cap Near(fix) IN
    IF choice # NoRoom THEN candidates \cap {choice}
    ELSE IF inRadius # {} THEN {CHOOSE r \in inRadius : TRUE} ELSE candidates
\* resolve_room: the rooms a scan may mean.  One is resolved; several go back to the worker.
Meant(candidates, fix, choice) ==
    LET inRadius == candidates \cap Near(fix) IN
    IF choice # NoRoom THEN candidates \cap {choice}
    ELSE IF inRadius # {} THEN inRadius ELSE candidates

\* What the scan leaves for a manager to look at.
ScanFlags(v, r) ==
    (IF visit[v].fix = "NONE" THEN {"GPS_UNAVAILABLE"}
     ELSE IF r \notin Near(visit[v].fix) THEN {"OUT_OF_RADIUS"} ELSE {})
    \cup (IF code = "SUPERSEDED" THEN {"QR_SUPERSEDED"} ELSE {})

\* The stops that a STOP_RELEASED answer may name: the one chosen, or any given back.
ReleasedOnFloor(choice) == {r \in Rooms : room[r] = "RELEASED" /\ choice \in {r, NoRoom}}

\* The answer to a scan that may mean one of the candidates.
AnswerFor(v, candidates, choice) ==
    LET meant == Meant(candidates, visit[v].fix, choice) IN
    IF (candidates = {} \/ (choice # NoRoom /\ choice \notin candidates))
           /\ ReleasedOnFloor(choice) # {}
    THEN "STOP_RELEASED"
    ELSE IF meant = {} THEN "REFUSED"
    ELSE IF \E r \in meant : meant = {r} THEN "OK"
    ELSE IF visit[v].room \in meant THEN "CHOOSE" ELSE "NOT_LISTED"

-----------------------------------------------------------------------------
(* The requests *)

\* The key of the scan is on record.
KeyOnRecord(v, kind) ==
    IF kind = "in" THEN checkedIn[v] # NotThere ELSE closes[v] # NoVisit

\* The app has a scan to send: one without a final answer, a check-out once its check-in has one.
Due(v, kind) ==
    /\ visit[v] # NotVisited
    /\ told[v][kind] \in {"NOTHING", "CHOOSE"}
    /\ kind = "out" => told[v].in \notin {"NOTHING", "CHOOSE"}

\* resolve_route: a request that names a room finds its route by it, any other needs the day's.
RouteFound(choice) == choice # NoRoom \/ started

\* The route is found, the key of the scan is looked up and its code is verified.
BeginCall(c, v, kind, heard) ==
    LET choice == IF told[v][kind] = "CHOOSE" THEN visit[v].room ELSE NoRoom
        answer(a) == /\ told' = IF heard THEN [told EXCEPT ![v][kind] = a] ELSE told
                     /\ UNCHANGED call
    IN  /\ call[c] = NoCall /\ Due(v, kind)
        /\ IF ~RouteFound(choice) THEN answer("REFUSED")
           ELSE IF KeyOnRecord(v, kind) THEN answer("OK")
           ELSE IF code = "REVOKED" THEN answer("REFUSED")
           ELSE /\ call' = [call EXCEPT ![c] = [visit |-> v, kind |-> kind, choice |-> choice]]
                /\ UNCHANGED told
        /\ UNCHANGED <<room, started, code, visit, checkedIn, closes>>

\* The candidates of a check-in, and of a check-out: each open execution by its stop.
PendingRooms == {r \in Rooms : room[r] = "PENDING"}
OpenVisits   == {v \in Visits : /\ checkedIn[v] # NotThere
                                /\ room[checkedIn[v].room] = "IN_PROGRESS"
                                /\ \A u \in Visits : closes[u] # v}

\* The candidates are locked and one is resolved; a key that got on record meanwhile fails the
\* request on its unique constraint.
CommitCall(c, heard) ==
    LET v          == call[c].visit
        kind       == call[c].kind
        candidates == IF kind = "in" THEN PendingRooms ELSE {checkedIn[u].room : u \in OpenVisits}
        answer     == AnswerFor(v, candidates, call[c].choice)
        failed     == answer = "OK" /\ KeyOnRecord(v, kind)
        r          == CHOOSE x \in Meant(candidates, visit[v].fix, call[c].choice) : TRUE
    IN  /\ call[c] # NoCall
        /\ call' = [call EXCEPT ![c] = NoCall]
        /\ told' = IF heard /\ ~failed THEN [told EXCEPT ![v][kind] = answer] ELSE told
        /\ IF answer # "OK" \/ failed THEN UNCHANGED <<room, checkedIn, closes>>
           ELSE IF kind = "in"
           THEN /\ room' = [room EXCEPT ![r] = "IN_PROGRESS"]
                /\ checkedIn' = [checkedIn EXCEPT ![v] = [room |-> r, flags |-> ScanFlags(v, r)]]
                /\ UNCHANGED closes
           ELSE LET u == CHOOSE x \in OpenVisits : checkedIn[x].room = r IN
                /\ room' = [room EXCEPT ![r] = "DONE"]
                /\ checkedIn' = [checkedIn EXCEPT ![u].flags = @ \cup ScanFlags(v, r)]
                /\ closes' = [closes EXCEPT ![v] = u]
        /\ UNCHANGED <<started, code, visit>>

-----------------------------------------------------------------------------

FloorScansNext ==
    \/ \E r \in Rooms : HandOutRoom(r) \/ GiveBack(r)
    \/ DayEnds \/ ReplaceCode \/ RevokeCode
    \/ \E v \in Visits, r \in Rooms, fix \in Fixes : VisitRoom(v, r, fix)
    \/ \E c \in Calls, v \in Visits, kind \in {"in", "out"}, heard \in BOOLEAN :
          BeginCall(c, v, kind, heard)
    \/ \E c \in Calls, heard \in BOOLEAN : CommitCall(c, heard)

FloorScansSpec == FloorScansInit /\ [][FloorScansNext]_floorVars

-----------------------------------------------------------------------------
(* Properties *)

ScanAnswers == {"NOTHING", "OK", "CHOOSE", "NOT_LISTED", "STOP_RELEASED", "REFUSED"}
RaisedFlags == SUBSET {"GPS_UNAVAILABLE", "OUT_OF_RADIUS", "QR_SUPERSEDED"}

\* Every variable keeps its type.
FloorScansTypeOK ==
    /\ room \in [Rooms -> {"NONE", "PENDING", "IN_PROGRESS", "DONE", "RELEASED"}]
    /\ started \in BOOLEAN
    /\ code \in {"ACTIVE", "SUPERSEDED", "REVOKED"}
    /\ visit \in [Visits -> {NotVisited} \cup
                     [room : Rooms, fix : Fixes]]
    /\ checkedIn \in [Visits -> {NotThere} \cup [room : Rooms, flags : RaisedFlags]]
    /\ closes \in [Visits -> Visits \cup {NoVisit}]
    /\ call \in [Calls -> {NoCall} \cup
                    [visit : Visits, kind : {"in", "out"}, choice : Rooms \cup {NoRoom}]]
    /\ told \in [Visits -> [in : ScanAnswers, out : ScanAnswers]]

\* The worker is never checked in at a room they were not in, and never checked out of another
\* visit, while no stop of the floor was given back: however late, repeated or out of order the
\* scans arrive, and although none of them names a room unless it is asked to (resolve_room).
ScanFindsItsRoom ==
    ReleasedOnFloor(NoRoom) = {} =>
        \A v \in Visits : /\ checkedIn[v] # NotThere => checkedIn[v].room = visit[v].room
                          /\ closes[v] \in {v, NoVisit}

\* "both scans offline, the stop was released before either synced: the same answer as the
\* check-in got" (execution/service.py:237): the check-out of a visit that was told its stop was
\* released, as it was, closes nothing.
CheckOutLikeCheckIn ==
    \A v \in Visits :
        told[v].in = "STOP_RELEASED" /\ room[visit[v].room] = "RELEASED" => closes[v] = NoVisit

=============================================================================
