------------------------------ MODULE Appeals ------------------------------
(***************************************************************************)
(* Appeals over released stops (domain/appeals/service.py, api/appeals.py) *)
(* and what they do to the record: a worker files, retries and is answered;*)
(* managers decide; an accepted appeal becomes an execution of its own.    *)
(*                                                                         *)
(* Allocation, StopExecution and ReleaseScan say when a stop is handed     *)
(* out, worked and released; here those steps are free, within the         *)
(* exclusivity index.  Time is counted in ticks, DayLength to a campus day.*)
(***************************************************************************)
EXTENDS Naturals, FiniteSets

CONSTANTS
    Workers, Points, Managers,
    CreatedOn,  \* the campus day each point was created
    Reasons,    \* the ReleaseReasons that occur
    Stops,      \* ids of RouteStop rows
    Filings,    \* POST /appeals requests that may be open at once
    Attempts,   \* a worker's idempotency keys for one stop
    Window,     \* settings.appeal_window_hours
    DayLength,
    MaxTime     \* bound: the clock stops there

ASSUME AppealsAssumption ==
    /\ {Window, MaxTime} \subseteq Nat
    /\ DayLength \in Nat \ {0}
    /\ CreatedOn \in [Points -> Nat]
    /\ Reasons \subseteq {"IMPEDIMENT", "ROUTE_REMAINDER", "LEFT_CAMPUS", "LOCATION_SILENCE",
                           "END_OF_DAY"}

VARIABLES
    now,
    stop,       \* RouteStop rows: day, point, owner, status, why and when released
    executions, \* Execution rows: stop, worker and source
    appeal,     \* the Appeal row of each stop
    notices,    \* committed APPEAL_FILED notifications of each stop
    filing,     \* each open request, with the clock reading it began with
    hearing     \* each manager's open decision, with the status of the copy they loaded

record     == <<stop, executions>>
appealVars == <<now, record, appeal, notices, filing, hearing>>

Live    == {"PENDING", "IN_PROGRESS"}
Today   == now \div DayLength

NoStop    == [status |-> "NONE"]
NoAppeal  == [status |-> "NONE"]
NoRequest == [stop |-> "NONE"]

Rows == {s \in Stops : stop[s] # NoStop}

AppealsInit ==
    /\ now = 0
    /\ stop = [s \in Stops |-> NoStop] /\ executions = {}
    /\ appeal = [s \in Stops |-> NoAppeal] /\ notices = [s \in Stops |-> 0]
    /\ filing = [r \in Filings |-> NoRequest]
    /\ hearing = [m \in Managers |-> NoRequest]

-----------------------------------------------------------------------------
(* The day goes on *)

TimePasses ==
    /\ now < MaxTime
    /\ now' = now + 1
    /\ UNCHANGED <<record, appeal, notices, filing, hearing>>

\* The exclusivity index: one live or DONE stop per point and day.
Held(p, day) == \E s \in Rows : /\ stop[s].point = p /\ stop[s].day = day
                                /\ stop[s].status \in Live \cup {"DONE"}

\* A point of the pool is handed out.
HandOut(s, p, w) ==
    /\ stop[s] = NoStop /\ ~Held(p, Today) /\ CreatedOn[p] <= Today
    /\ stop' = [stop EXCEPT ![s] = [status |-> "PENDING", point |-> p, owner |-> w, day |-> Today,
                                    reason |-> "NONE", at |-> 0]]
    /\ UNCHANGED <<now, executions, appeal, notices, filing, hearing>>

CheckInAt(s) ==
    /\ stop[s].status = "PENDING"
    /\ stop' = [stop EXCEPT ![s].status = "IN_PROGRESS"]
    /\ executions' = executions \cup {[stop |-> s, worker |-> stop[s].owner, source |-> "APP"]}
    /\ UNCHANGED <<now, appeal, notices, filing, hearing>>

CheckOutAt(s) ==
    /\ stop[s].status = "IN_PROGRESS"
    /\ stop' = [stop EXCEPT ![s].status = "DONE"]
    /\ UNCHANGED <<now, executions, appeal, notices, filing, hearing>>

\* release_stops: a live stop goes back to the pool, stamped with when and why.
ReleaseStop(s, reason) ==
    /\ stop[s].status \in Live
    /\ stop' = [stop EXCEPT ![s].status = "RELEASED", ![s].reason = reason, ![s].at = now]
    /\ UNCHANGED <<now, executions, appeal, notices, filing, hearing>>

-----------------------------------------------------------------------------
(* Filing *)

\* The releases the worker did not cause.
AppealableReleases == {"LEFT_CAMPUS", "LOCATION_SILENCE", "END_OF_DAY"}

Deadline(s) == stop[s].at + Window

\* Why stop s cannot be appealed at a moment, in the order the code looks.
RefusalCode(s, moment) ==
    IF stop[s].status = "DONE" THEN "ALREADY_CHECKED_OUT"
    ELSE IF stop[s].status # "RELEASED" THEN "NOT_RELEASED"
    ELSE IF stop[s].reason \notin AppealableReleases THEN "REASON_NOT_APPEALABLE"
    ELSE IF appeal[s] # NoAppeal THEN "ALREADY_APPEALED"
    ELSE IF moment > Deadline(s) THEN "WINDOW_EXPIRED"
    ELSE "NONE"

\* What a worker's request about stop s is refused with.
Refusal(w, s, moment) == IF stop[s].owner # w THEN "NOT_OWNER" ELSE RefusalCode(s, moment)

\* Mutant: the last instant of the window is cut off.
AppealableBefore(s, moment) == RefusalCode(s, moment) = "NONE" /\ moment < Deadline(s)
IsAppealable(s, moment)     == RefusalCode(s, moment) = "NONE"

\* "Pontos liberados que você pode contestar": the query narrows, the predicate decides.
AppealableStops(w) ==
    {s \in Rows : /\ stop[s].owner = w /\ stop[s].status = "RELEASED"
                  /\ stop[s].at + Window >= now
                  /\ IsAppealable(s, now)}

\* released_stop_error: what a scan or a photo of a released stop is told when it arrives.
TooLate(s) == [code |-> "STOP_RELEASED", appealable |-> IsAppealable(s, now)]

\* A worker contests a stop: a new attempt, or a retry of one whose answer they did not get.
BeginFiling(r, w, s, n) ==
    /\ filing[r] = NoRequest /\ s \in Rows
    /\ filing' = [filing EXCEPT ![r] = [stop |-> s, worker |-> w, attempt |-> n, at |-> now]]
    /\ UNCHANGED <<now, record, appeal, notices, hearing>>

IsReplay(r) ==
    LET f == filing[r] IN
    /\ appeal[f.stop] # NoAppeal
    /\ appeal[f.stop].worker = f.worker /\ appeal[f.stop].attempt = f.attempt

\* Mutant: the stop is judged before the key is looked up.
JudgedFirst(r) ==
    LET code == Refusal(filing[r].worker, filing[r].stop, filing[r].at) IN
    IF code # "NONE" THEN code ELSE IF IsReplay(r) THEN "REPLAY" ELSE "NEW"
\* What the request is answered, once it has the lock on the stop.
Answer(r) ==
    LET code == Refusal(filing[r].worker, filing[r].stop, filing[r].at) IN
    IF IsReplay(r) THEN "REPLAY" ELSE IF code # "NONE" THEN code ELSE "NEW"

\* notify_appeal_filed: the managers hear of it.
Announced(s) == [notices EXCEPT ![s] = @ + 1]

\* The stop's row lock makes the rest of the request one step: the appeal is inserted and the
\* managers are notified in the same transaction, or the request changes nothing.
File(r) ==
    /\ filing[r] # NoRequest
    /\ LET s == filing[r].stop IN
       IF Answer(r) = "NEW"
       THEN /\ appeal' = [appeal EXCEPT ![s] = [status |-> "PENDING", worker |-> filing[r].worker,
                                                attempt |-> filing[r].attempt]]
            /\ notices' = Announced(s)
       ELSE UNCHANGED <<appeal, notices>>
    /\ filing' = [filing EXCEPT ![r] = NoRequest]
    /\ UNCHANGED <<now, record, hearing>>

-----------------------------------------------------------------------------
(* Deciding *)

\* A manager opens an appeal to decide it: the copy is loaded without a lock.
Hear(m, s) ==
    /\ hearing[m] = NoRequest /\ appeal[s] # NoAppeal
    /\ hearing' = [hearing EXCEPT ![m] = [stop |-> s, copy |-> appeal[s].status]]
    /\ UNCHANGED <<now, record, appeal, notices, filing>>

\* Mutant: the copy is judged as it was loaded.
LoadedStatus(m) == hearing[m].copy
\* The status decided on: re-read under the row lock.
JudgedStatus(m) == appeal[hearing[m].stop].status

\* Accept: the stop, still RELEASED, gets an APPEAL execution by the appealing worker, keyed by
\* the appeal.  Reject: nothing but the record.  An appeal that is no longer PENDING is refused.
Decide(m, verdict) ==
    /\ hearing[m] # NoRequest
    /\ LET s == hearing[m].stop IN
       IF JudgedStatus(m) # "PENDING" THEN UNCHANGED <<appeal, executions>>
       ELSE /\ appeal' = [appeal EXCEPT ![s].status = verdict]
            /\ executions' = IF verdict = "REJECTED" THEN executions ELSE executions \cup
                   {[stop |-> s, worker |-> appeal[s].worker, source |-> "APPEAL"]}
    /\ hearing' = [hearing EXCEPT ![m] = NoRequest]
    /\ UNCHANGED <<now, stop, notices, filing>>

-----------------------------------------------------------------------------

AppealsNext ==
    \/ TimePasses
    \/ \E s \in Stops, p \in Points, w \in Workers : HandOut(s, p, w)
    \/ \E s \in Stops : CheckInAt(s) \/ CheckOutAt(s)
    \/ \E s \in Stops, reason \in Reasons : ReleaseStop(s, reason)
    \/ \E r \in Filings, w \in Workers, s \in Stops, n \in Attempts : BeginFiling(r, w, s, n)
    \/ \E r \in Filings : File(r)
    \/ \E m \in Managers, s \in Stops : Hear(m, s)
    \/ \E m \in Managers, verdict \in {"ACCEPTED", "REJECTED"} : Decide(m, verdict)

AppealsSpec == AppealsInit /\ [][AppealsNext]_appealVars

-----------------------------------------------------------------------------
(* Properties *)

StopRow == [status : Live \cup {"DONE", "RELEASED"}, point : Points, owner : Workers,
            day : 0..MaxTime, reason : Reasons \cup {"NONE"}, at : 0..MaxTime]
AppealRow == [status : {"PENDING", "ACCEPTED", "REJECTED"}, worker : Workers, attempt : Attempts]
Filing == [stop : Stops, worker : Workers, attempt : Attempts, at : 0..MaxTime]

\* Every variable keeps its type; what is open is about rows that are there.
AppealsTypeOK ==
    /\ now \in 0..MaxTime
    /\ stop \in [Stops -> {NoStop} \cup StopRow]
    /\ executions \subseteq [stop : Stops, worker : Workers, source : {"APP", "APPEAL"}]
    /\ appeal \in [Stops -> {NoAppeal} \cup AppealRow]
    /\ notices \in [Stops -> Nat]
    /\ filing \in [Filings -> {NoRequest} \cup Filing]
    /\ hearing \in [Managers -> {NoRequest} \cup
                        [stop : Stops, copy : {"PENDING", "ACCEPTED", "REJECTED"}]]
    /\ \A r \in Filings : filing[r] # NoRequest => filing[r].stop \in Rows
    /\ \A m \in Managers : hearing[m] # NoRequest => appeal[hearing[m].stop] # NoAppeal

\* Two managers may decide one appeal at once: the first verdict stands, and the worker has the
\* APPEAL execution exactly when it was to accept (_lock_pending, accept_appeal).
VerdictDecidesExecution ==
    \A s \in Stops :
        (appeal[s].status = "ACCEPTED") <=> (\E e \in executions : e.stop = s /\ e.source = "APPEAL")

VerdictIsFinal ==
    [][\A s \in Stops : appeal[s].status \in {"ACCEPTED", "REJECTED"} =>
           appeal'[s] = appeal[s]]_appealVars

\* A stop is appealed once and the managers hear of it once, however often the app retries; and
\* a retry of a filing that went through is answered with that appeal, also when meanwhile the
\* window closed or the appeal was decided (file_appeal).
RetryIsReplayed ==
    /\ \A s \in Stops : notices[s] = IF appeal[s] = NoAppeal THEN 0 ELSE 1
    /\ \A r \in Filings : filing[r] # NoRequest /\ IsReplay(r) => Answer(r) = "REPLAY"

\* The app offers a stop as contestable exactly when a filing sent that moment would be taken, and
\* a scan that comes too late says the same.  The list, its query, the late scan and the filing
\* each apply the window on their own.
OfferedIsTaken ==
    \A w \in Workers :
        /\ AppealableStops(w) = {s \in Rows : Refusal(w, s, now) = "NONE"}
        /\ \A s \in Rows : stop[s].owner = w /\ stop[s].status = "RELEASED" =>
               (TooLate(s).appealable <=> s \in AppealableStops(w))

=============================================================================
