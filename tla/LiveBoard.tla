----------------------------- MODULE LiveBoard -----------------------------
(***************************************************************************)
(* The monitoring board (domain/monitoring/board.py) and the stream that   *)
(* keeps a manager's screen up to date (api/monitoring.py).                *)
(*                                                                         *)
(* The stream polls.  One poll is several queries, each of which sees what *)
(* is committed when it runs, so a board may mix two moments; and it is    *)
(* sent only when its digest differs from that of the board sent before.   *)
(***************************************************************************)
EXTENDS Naturals, FiniteSets

CONSTANTS
    Crew,         \* approved workers
    Chores,       \* the points of the day's pool, each by its stop
    Warnings,     \* ids of Alert rows
    ServiceDates, \* the days with service
    MaxDate,      \* bound: the last day
    MaxCommits    \* bound: transactions that change what the board shows

ASSUME LiveBoardAssumption == {MaxDate, MaxCommits} \subseteq Nat \ {0}

VARIABLES
    date,
    active,   \* the workers whose profile is active
    tour,     \* the status of each worker's route of each day
    chore,    \* each point's stop of the day: status, worker
    warning,  \* alerts: status, the route or the day they are about
    gps,    \* the number of positions of each worker
    poll,     \* the stream: the next query of its poll, the poll's day, the board it builds
    digest,   \* last_digest
    screen,   \* the board that the manager sees
    commits,  \* history: the number of these transactions
    polled    \* history: that number when the screen's last poll began

world     == <<date, active, tour, chore, warning, gps>>
boardVars == <<world, poll, digest, screen, commits, polled>>

Dates    == 1..MaxDate
NoTour   == "NONE"
NoDigest == [routes |-> "NO_DIGEST"]
NoChore  == [status |-> "FREE"]
NoWarning == [status |-> "NONE"]
Blank    == [routes |-> {}, alerts |-> {}, positions |-> {}, pool |-> <<>>,
             not_started |-> {}, released |-> 0]

BoardInit ==
    /\ date = 1 /\ active = Crew
    /\ tour = [w \in Crew |-> [d \in Dates |-> NoTour]]
    /\ chore = [c \in Chores |-> NoChore]
    /\ warning = [a \in Warnings |-> NoWarning]
    /\ gps = [w \in Crew |-> 0]
    /\ poll = [next |-> "asleep", today |-> 1, board |-> Blank]
    /\ digest = NoDigest /\ screen = Blank
    /\ commits = 1 /\ polled = 0

-----------------------------------------------------------------------------
(* The board of a moment *)

LiveChore(c) == chore[c].status \in {"PENDING", "IN_PROGRESS"}

\* The day's routes, and the open ones of an earlier day.
OnBoard(w, d, today) ==
    \/ d = today /\ tour[w][d] # NoTour
    \/ d < today /\ tour[w][d] \in {"IN_PROGRESS", "PAUSED"}

\* A route on the board, with what is left of its batch.
RouteItem(w, d) ==
    [worker |-> w, day |-> d, status |-> tour[w][d],
     left |-> {c \in Chores : LiveChore(c) /\ chore[c].worker = w /\ d = date},
     done |-> Cardinality({c \in Chores : chore[c].status = "DONE" /\ chore[c].worker = w /\ d = date})]

RoutesOn(today) ==
    {RouteItem(x[1], x[2]) : x \in {y \in Crew \X Dates : OnBoard(y[1], y[2], today)}}

\* The open alerts of the routes on the board, and of the day.
AlertsOn(today, routes) ==
    {<<a, warning[a].status>> : a \in {x \in Warnings :
        /\ warning[x].status \in {"OPEN", "ACKNOWLEDGED"}
        /\ \/ warning[x].worker = "NONE" /\ warning[x].day = today
           \/ \E r \in routes : r.worker = warning[x].worker /\ r.day = warning[x].day}}

\* The latest fix of each worker on the board.
PositionsOf(routes) == {<<w, gps[w]>> : w \in {x \in Crew :
                            gps[x] > 0 /\ \E r \in routes : r.worker = x}}

\* How many of the day's points are done, in a batch, and free.
PoolOn(today) ==
    LET count(statuses) == Cardinality({c \in Chores : today = date /\ chore[c].status \in statuses})
        done == count({"DONE"})
        live == count({"PENDING", "IN_PROGRESS"})
    IN  IF today \in ServiceDates THEN <<done, live, Cardinality(Chores) - done - live>> ELSE <<>>

NotStartedOn(today) ==
    IF today \in ServiceDates THEN {w \in active : tour[w][today] = NoTour} ELSE {}

ReleasedOn(today) == Cardinality({c \in Chores : today = date /\ chore[c].status = "RELEASED"})

BoardNow == LET routes == RoutesOn(date) IN
    [routes |-> routes, alerts |-> AlertsOn(date, routes), positions |-> PositionsOf(routes),
     pool |-> PoolOn(date), not_started |-> NotStartedOn(date), released |-> ReleasedOn(date)]

-----------------------------------------------------------------------------
(* What the board shows *)

Commit ==
    /\ commits < MaxCommits
    /\ commits' = commits + 1
    /\ UNCHANGED <<poll, digest, screen, polled>>

\* A worker starts the day's route.
StartTour(w) ==
    /\ tour[w][date] = NoTour
    /\ tour' = [tour EXCEPT ![w][date] = "IN_PROGRESS"]
    /\ Commit /\ UNCHANGED <<date, active, chore, warning, gps>>

\* A point is handed out to a worker, checked in and out, or given back, which may pause
\* the route.  Bound: a point is handed out once a day.
HandOutChore(c, w) ==
    /\ chore[c].status = "FREE" /\ tour[w][date] # NoTour
    /\ chore' = [chore EXCEPT ![c] = [status |-> "PENDING", worker |-> w]]
    /\ tour' = [tour EXCEPT ![w][date] = "IN_PROGRESS"]
    /\ Commit /\ UNCHANGED <<date, active, warning, gps>>

WorkOn(c) ==
    /\ LiveChore(c)
    /\ chore' = [chore EXCEPT ![c].status = IF @ = "PENDING" THEN "IN_PROGRESS" ELSE "DONE"]
    /\ Commit /\ UNCHANGED <<date, active, tour, warning, gps>>

GiveChoreBack(c, pauses) ==
    /\ LiveChore(c)
    /\ chore' = [chore EXCEPT ![c].status = "RELEASED"]
    /\ tour' = IF pauses THEN [tour EXCEPT ![chore[c].worker][date] = "PAUSED"] ELSE tour
    /\ Commit /\ UNCHANGED <<date, active, warning, gps>>

\* The day ends: nothing is live any more, and the next one starts from an empty pool.
NextDate ==
    /\ date < MaxDate /\ \A c \in Chores : ~LiveChore(c)
    /\ date' = date + 1
    /\ chore' = [c \in Chores |-> NoChore]
    /\ Commit /\ UNCHANGED <<active, tour, warning, gps>>

\* The release scan closes a route, of today or of the day before.
CloseTour(w, d) ==
    /\ tour[w][d] \in {"IN_PROGRESS", "PAUSED"}
    /\ d = date => \A c \in Chores : ~(LiveChore(c) /\ chore[c].worker = w)
    /\ tour' = [tour EXCEPT ![w][d] = "DONE"]
    /\ Commit /\ UNCHANGED <<date, active, chore, warning, gps>>

\* An alert is raised about a route, or about the day, and handled.
RaiseWarning(a, w) ==
    /\ warning[a] = NoWarning
    /\ w \in Crew => tour[w][date] # NoTour
    /\ warning' = [warning EXCEPT ![a] = [status |-> "OPEN", worker |-> w, day |-> date]]
    /\ Commit /\ UNCHANGED <<date, active, tour, chore, gps>>

HandleWarning(a, status) ==
    /\ warning[a].status = "OPEN" \/ (warning[a].status = "ACKNOWLEDGED" /\ status = "RESOLVED")
    /\ warning' = [warning EXCEPT ![a].status = status]
    /\ Commit /\ UNCHANGED <<date, active, tour, chore, gps>>

SendFix(w) ==
    /\ gps' = [gps EXCEPT ![w] = @ + 1]
    /\ Commit /\ UNCHANGED <<date, active, tour, chore, warning>>

\* A manager switches a worker's profile off or on.
SwitchWorker(w) ==
    /\ active' = IF w \in active THEN active \ {w} ELSE active \cup {w}
    /\ Commit /\ UNCHANGED <<date, tour, chore, warning, gps>>

-----------------------------------------------------------------------------
(* The stream *)

QueryAfter == [routes |-> "alerts", alerts |-> "positions", positions |-> "pool",
               pool |-> "not_started", not_started |-> "released", released |-> "done"]

\* The poll takes its day from the clock.
BeginPoll ==
    /\ poll.next = "asleep"
    /\ poll' = [next |-> "routes", today |-> date, board |-> Blank]
    /\ polled' = commits
    /\ UNCHANGED <<world, digest, screen, commits>>

\* One query after the other.
Query ==
    LET query == poll.next
        result == CASE query = "routes"      -> RoutesOn(poll.today)
                    [] query = "alerts"      -> AlertsOn(poll.today, poll.board.routes)
                    [] query = "positions"   -> PositionsOf(poll.board.routes)
                    [] query = "pool"        -> PoolOn(poll.today)
                    [] query = "not_started" -> NotStartedOn(poll.today)
                    [] query = "released"    -> ReleasedOn(poll.today)
    IN  /\ query \in DOMAIN QueryAfter
        /\ poll' = [poll EXCEPT !.next = QueryAfter[query], !.board[query] = result]
        /\ UNCHANGED <<world, digest, screen, commits, polled>>

\* Mutant: the positions are left out with their ages.
WithoutPositions(board) == [board EXCEPT !.positions = {}]
\* _snapshot_digest: all of the board but the clock readings.
SnapshotDigest(board) == board

\* The board goes to the screen if it says something new.
Emit ==
    /\ poll.next = "done"
    /\ poll' = [poll EXCEPT !.next = "asleep", !.board = Blank]
    /\ IF SnapshotDigest(poll.board) # digest
       THEN /\ screen' = poll.board
            /\ digest' = SnapshotDigest(poll.board)
       ELSE UNCHANGED <<screen, digest>>
    /\ UNCHANGED <<world, commits, polled>>

\* The connection breaks and the dashboard opens the stream anew.
Reconnect ==
    /\ poll.next \in {"asleep", "done"}
    /\ poll' = [poll EXCEPT !.next = "asleep", !.board = Blank]
    /\ digest' = NoDigest /\ polled' = 0
    /\ UNCHANGED <<world, screen, commits>>

-----------------------------------------------------------------------------

BoardNext ==
    \/ \E w \in Crew : StartTour(w) \/ SendFix(w) \/ SwitchWorker(w)
    \/ \E w \in Crew, d \in Dates : CloseTour(w, d)
    \/ \E c \in Chores, w \in Crew : HandOutChore(c, w)
    \/ \E c \in Chores : WorkOn(c)
    \/ \E c \in Chores, pauses \in BOOLEAN : GiveChoreBack(c, pauses)
    \/ NextDate
    \/ \E a \in Warnings, w \in Crew \cup {"NONE"} : RaiseWarning(a, w)
    \/ \E a \in Warnings, status \in {"ACKNOWLEDGED", "RESOLVED"} : HandleWarning(a, status)
    \/ BeginPoll \/ Query \/ Emit \/ Reconnect

BoardSpec == BoardInit /\ [][BoardNext]_boardVars

-----------------------------------------------------------------------------
(* Properties *)

\* Every variable keeps its type.
BoardTypeOK ==
    /\ date \in Dates /\ active \subseteq Crew
    /\ tour \in [Crew -> [Dates -> {NoTour, "IN_PROGRESS", "PAUSED", "DONE"}]]
    /\ chore \in [Chores -> {NoChore} \cup
                     [status : {"PENDING", "IN_PROGRESS", "DONE", "RELEASED"}, worker : Crew]]
    /\ warning \in [Warnings -> {NoWarning} \cup
                       [status : {"OPEN", "ACKNOWLEDGED", "RESOLVED"}, worker : Crew \cup {"NONE"}, day : Dates]]
    /\ gps \in [Crew -> Nat] /\ commits \in 1..MaxCommits /\ polled \in 0..commits
    /\ poll.next \in DOMAIN QueryAfter \cup {"asleep", "done"} /\ poll.today \in Dates

\* A poll that nothing overtook leaves the screen showing the board as it is: a board that mixed
\* two moments is repaired by the next poll, and no change is silenced by the digest, also after
\* the change was undone, the day turned or the connection broke (board_event_stream).
ScreenCatchesUp == poll.next = "asleep" /\ polled = commits => screen = BoardNow

=============================================================================
