----------------------------- MODULE PointDays -----------------------------
(***************************************************************************)
(* What the board, the day-end alert, the compliance report and the        *)
(* execution history read from the stops, appeals and executions: pure     *)
(* functions of the state of Appeals (domain/reports, monitoring/board.py, *)
(* execution/history.py).  A point-day is a typed point on a service day.  *)
(***************************************************************************)
EXTENDS Appeals, FiniteSetsExt

CONSTANTS
    ServiceDays,  \* the days inside settings.service_weekdays
    WeekStart,    \* the first day of the last week and of the last month that
    MonthStart    \* begin in the days of a behaviour

Anybody    == "ANYBODY"
AnyOutcome == "ANY"

ASSUME PointDaysAssumption ==
    /\ {WeekStart, MonthStart} \subseteq Nat /\ ServiceDays \subseteq Nat
    /\ IsFiniteSet(Points) /\ IsFiniteSet(Workers) /\ Anybody \notin Workers

-----------------------------------------------------------------------------
(* One point-day (point_days.py) *)

StopsOf(p, day)     == {s \in Rows : stop[s].point = p /\ stop[s].day = day}
DoneStops(p, day)   == {s \in StopsOf(p, day) : stop[s].status = "DONE"}
WonAppeals(p, day)    == {s \in StopsOf(p, day) : appeal[s].status = "ACCEPTED"}
Released(p, day)    == {s \in StopsOf(p, day) : stop[s].status = "RELEASED"}
Holders(p, day)     == {stop[s].owner : s \in StopsOf(p, day)}
AppealedBy(p, day)  == {appeal[s].worker : s \in WonAppeals(p, day)}

ServedOn(p, day) == DoneStops(p, day) # {} \/ WonAppeals(p, day) # {}

Outcome(p, day) == IF DoneStops(p, day) # {} THEN "DONE"
                   ELSE IF WonAppeals(p, day) # {} THEN "DONE_BY_APPEAL" ELSE "UNSERVED"

DoneBy(p, day, w) == \E s \in DoneStops(p, day) : stop[s].owner = w

\* Mutant: an appeal counts only when the point-day as a whole was done by appeal.
CreditedWhenAlone(p, day, w) ==
    IF Outcome(p, day) = "UNSERVED" THEN "UNSERVED"
    ELSE IF DoneBy(p, day, w) THEN "DONE"
    ELSE IF Outcome(p, day) = "DONE_BY_APPEAL" /\ w \in AppealedBy(p, day) THEN "DONE_BY_APPEAL"
    ELSE "NONE"
\* The outcome credited to one worker who held the point that day.
OutcomeFor(p, day, w) ==
    IF Outcome(p, day) = "UNSERVED" THEN "UNSERVED"
    ELSE IF DoneBy(p, day, w) THEN "DONE"
    ELSE IF w \in AppealedBy(p, day) THEN "DONE_BY_APPEAL"
    ELSE "NONE"

PointDayRows(worker) ==
    {row \in Points \X (ServiceDays \cap 0..Today) :
        /\ CreatedOn[row[1]] <= row[2]
        /\ worker # Anybody => worker \in Holders(row[1], row[2])}

-----------------------------------------------------------------------------
(* The compliance report (compliance.py, activity.py) *)

ExecutionsOf(p, day, worker) ==
    {e \in executions : e.stop \in StopsOf(p, day) /\ worker \in {Anybody, e.worker}}

ReleasedBy(p, day, worker) ==
    {s \in Released(p, day) : worker \in {Anybody, stop[s].owner}}

Tally(row, worker) ==
    [day        |-> row[2],
     point      |-> row[1],
     outcome    |-> IF worker = Anybody THEN Outcome(row[1], row[2])
                    ELSE OutcomeFor(row[1], row[2], worker),
     reasons    |-> {stop[s].reason : s \in ReleasedBy(row[1], row[2], worker)},
     executions |-> Cardinality(ExecutionsOf(row[1], row[2], worker))]

Tallies(worker, outcome) ==
    {t \in {Tally(row, worker) : row \in PointDayRows(worker)} : outcome \in {AnyOutcome, t.outcome}}

Counts(tallies) ==
    [total      |-> Cardinality(tallies),
     done       |-> Cardinality({t \in tallies : t.outcome \in {"DONE", "DONE_BY_APPEAL"}}),
     by_appeal  |-> Cardinality({t \in tallies : t.outcome = "DONE_BY_APPEAL"}),
     unserved   |-> Cardinality({t \in tallies : t.outcome = "UNSERVED"}),
     released   |-> Cardinality({t \in tallies : t.reasons # {}}),
     executions |-> MapThenSumSet(LAMBDA t : t.executions, tallies)]

PeriodStart(granularity, day) ==
    CASE granularity = "DAILY"   -> day
      [] granularity = "WEEKLY"  -> IF day < WeekStart THEN 0 ELSE WeekStart
      [] granularity = "MONTHLY" -> IF day < MonthStart THEN 0 ELSE MonthStart

Buckets(granularity, tallies) ==
    [start \in {PeriodStart(granularity, t.day) : t \in tallies} |->
        Counts({t \in tallies : PeriodStart(granularity, t.day) = start})]

\* build_compliance_report.
Report(granularity, worker, outcome) ==
    LET tallies == Tallies(worker, outcome) IN
    [periods |-> Buckets(granularity, tallies), totals |-> Counts(tallies)]

-----------------------------------------------------------------------------
(* The board's pool, the day-end alert and the history *)

Created        == {p \in Points : CreatedOn[p] <= Today}
InABatch(p) == \E s \in StopsOf(p, Today) : stop[s].status \in Live

\* Mutant: a served point that is back in somebody's batch counts twice.
InProgressTwice == {p \in Created : InABatch(p)}
PoolInProgress  == {p \in Created : InABatch(p) /\ ~ServedOn(p, Today)}
PoolDone        == {p \in Created : ServedOn(p, Today)}
PoolFree        == Cardinality(Created) - Cardinality(PoolDone) - Cardinality(PoolInProgress)

\* The total of the POINTS_UNSERVED alert, were the day to end now.
UnservedTotal == Cardinality({p \in Created : ~ServedOn(p, Today)})

\* A row of the history names the appeal an execution came from.
HistoryRow(e) == [execution |-> e, appeal |-> IF e.source = "APPEAL" THEN e.stop ELSE "NONE"]
History(worker, source) ==
    {HistoryRow(e) : e \in {x \in executions : /\ worker \in {Anybody, x.worker}
                                               /\ source \in {"ANY", x.source}}}

-----------------------------------------------------------------------------
(* Properties *)

\* Bound: the readings know nothing of requests that are open, so they are compared when none is,
\* and there is a stop to be read.
NothingOpen == /\ Rows # {}
               /\ \A r \in Filings : filing[r] = NoRequest
               /\ \A m \in Managers : hearing[m] = NoRequest

\* The board's free points are exactly those the allocation can still hand out and nobody served,
\* so its three counters add up; the day-end alert and the report, which count by other queries,
\* agree with it about what was not served today.
CountsAgree ==
    NothingOpen =>
    /\ PoolFree = Cardinality({p \in Created : ~Held(p, Today) /\ ~ServedOn(p, Today)})
    /\ UnservedTotal = Cardinality(PoolInProgress) + PoolFree
    /\ Today \in ServiceDays =>
          Counts({t \in Tallies(Anybody, "UNSERVED") : t.day = Today}).total =
          Cardinality({p \in Created : ~ServedOn(p, Today)})

\* Whoever served a point-day is credited with it in the report narrowed to them, also when the
\* point was redone by somebody else or appealed by both, and nobody else is: by a stop of theirs
\* that is DONE, or an execution the history lists as the fruit of an appeal (outcome_for).
ServersAreCredited ==
    \A p \in Points, day \in 0..Today, w \in Workers :
        OutcomeFor(p, day, w) \in {"DONE", "DONE_BY_APPEAL"} <=>
            \/ \E s \in DoneStops(p, day) : stop[s].owner = w
            \/ \E row \in History(w, "APPEAL") : row.appeal \in StopsOf(p, day)

\* One number of a report, over all its periods.
OverPeriods(periods, n) == MapThenSumSet(LAMBDA b : periods[b][n], DOMAIN periods)

\* So much for each of them; the executions of the whole report are those of the workers' own
\* reports together, and the buckets of a report add up to its totals (_tallies, build).
CreditedToWhoServed ==
    NothingOpen =>
    /\ ServersAreCredited
    /\ Counts(Tallies(Anybody, AnyOutcome)).executions =
          MapThenSumSet(LAMBDA w : Counts(Tallies(w, AnyOutcome)).executions, Workers)
    /\ \A worker \in Workers \cup {Anybody}, granularity \in {"DAILY", "WEEKLY", "MONTHLY"} :
          LET report == Report(granularity, worker, AnyOutcome) IN
          report.totals = [n \in DOMAIN report.totals |-> OverPeriods(report.periods, n)]

=============================================================================
