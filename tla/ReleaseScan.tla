----------------------------- MODULE ReleaseScan -----------------------------
(***************************************************************************)
(* The release scan against one worker's route of one day, with a clock    *)
(* (domain/monitoring/release_scan.py, positions.py, routing/release.py).  *)
(*                                                                         *)
(* Time is counted in ticks of the server's clock.  A device stamps its    *)
(* positions and QR scans with its own clock, `skew` ticks ahead, keeps    *)
(* them while it is offline and delivers them in any order.  The model     *)
(* also knows what the server cannot: where the worker really is (`away`)  *)
(* and when they were last outside (`lastOut`).                            *)
(*                                                                         *)
(* A pass locks the route, reads the signs and then releases.  The lock    *)
(* keeps out claims and positions, whose foreign key waits for it, but not *)
(* check-ins and check-outs: they lock stops, and may commit in between.   *)
(*                                                                         *)
(* Allocation models who gets which point; here a batch is one bit, live.  *)
(* The alerts a pass drafts are rows of Alerts, which nothing here reads.  *)
(***************************************************************************)
EXTENDS Integers, FiniteSets

CONSTANTS
    OutsideMinutes,  \* settings.outside_campus_release_minutes
    SilenceMinutes,  \* settings.location_silence_release_minutes
    EndOfDay,        \* settings.workday_end_time, on the route's day
    Midnight,        \* the first moment of the next campus day
    MaxTime,         \* bound: the clock stops there
    MaxSkew,         \* how far a device clock may be ahead or behind
    MaxSigns         \* bound: positions and scans taken in a behaviour

ASSUME ReleaseScanAssumption ==
    /\ {OutsideMinutes, SilenceMinutes, MaxSigns} \subseteq Nat
    /\ {EndOfDay, Midnight, MaxTime} \subseteq Nat
    /\ EndOfDay <= Midnight /\ Midnight <= MaxTime
    /\ MaxSkew \in Nat

VARIABLES
    now,       \* the server's clock
    skew,      \* how far ahead the worker's device clock is
    away,      \* the worker is outside the campus
    lastOut,   \* the last moment they were outside, or NoTime
    status,    \* Route.status, or "NONE" before the first "Iniciar rota"
    live,      \* the route has a PENDING or IN_PROGRESS stop
    allocated, \* Route.last_allocated_at, or NoTime
    claim,     \* the clock reading of the open claim, or NoTime
    locked,    \* who holds the route row: the claim, the pass, or nobody
    pass,      \* why the pass that holds the route is going to release it, or "NONE"
    leaves,    \* and the status it is going to leave it in, or "NONE"
    unread,    \* scans committed since the pass read them; only the properties look at them
    outbox,    \* signs the device has taken and not delivered
    admitted,  \* positions judged by record_position and not committed
    fixes,     \* committed WorkerPosition rows of the route
    scans      \* QrScan.scanned_at of the route's committed scans

clock   == <<now, skew>>
worker  == <<away, lastOut>>
route   == <<status, live, allocated>>
thePass == <<pass, leaves, unread>>
signs   == <<outbox, admitted, fixes, scans>>
releaseVars == <<clock, worker, route, claim, locked, thePass, signs>>

NoTime == -1
Reasons == {"LEFT_CAMPUS", "LOCATION_SILENCE"}
Sign == [kind : {"POSITION", "SCAN"}, at : Int, inside : BOOLEAN]

-----------------------------------------------------------------------------
(* What a pass reads, by its reading t of the clock *)

WorkdayOver(t) == t >= EndOfDay
PastDay(t)     == t >= Midnight

\* Mutant: any outside position counts, also one from before the batch.
NewestWhenever(f) == \A g \in fixes : g.at <= f.at
\* f is the latest position by the device's clock, and it is newer than the batch.
LatestOfBatch(f) ==
    /\ \A g \in fixes : g.at <= f.at
    /\ allocated # NoTime => f.at > allocated

\* The worker was seen inside at t or later: an inside position, or any QR scan.
SeenInsideSince(t) ==
    \/ \E g \in fixes : g.inside /\ g.at >= t
    \/ \E m \in scans : m >= t

\* The current stretch outside the campus began at least OutsideMinutes ago.
OutsideLongEnough(t) ==
    \E f \in fixes : /\ ~f.inside
                     /\ ~SeenInsideSince(f.at)
                     /\ f.at <= t - OutsideMinutes

LeftCampus(t) ==
    /\ \E f \in fixes : ~f.inside /\ LatestOfBatch(f)
    /\ OutsideLongEnough(t)

\* No batch, position or scan in the last SilenceMinutes, by the clocks that stamped them.
Silent(t) ==
    \A m \in {allocated} \cup {f.at : f \in fixes} \cup scans : m < t - SilenceMinutes

-----------------------------------------------------------------------------

ReleaseInit ==
    /\ now = 0 /\ skew \in -MaxSkew..MaxSkew
    /\ away = FALSE /\ lastOut = NoTime
    /\ status = "NONE" /\ live = FALSE /\ allocated = NoTime
    /\ claim = NoTime /\ locked = "NOBODY"
    /\ pass = "NONE" /\ leaves = "NONE" /\ unread = {}
    /\ outbox = {} /\ admitted = {} /\ fixes = {} /\ scans = {}

\* Time passes, with or without a pass of the scan in between: the server may be down.
Tick ==
    /\ now < MaxTime
    /\ now' = now + 1
    /\ lastOut' = IF away THEN now' ELSE lastOut
    /\ UNCHANGED <<skew, away, route, claim, locked, thePass, signs>>

\* The server goes down: open transactions are rolled back and their locks go.  While it is down
\* nothing but time moves on.
Crash ==
    /\ claim # NoTime \/ admitted # {} \/ pass # "NONE"
    /\ claim' = NoTime /\ locked' = "NOBODY"
    /\ admitted' = {}
    /\ pass' = "NONE" /\ leaves' = "NONE" /\ unread' = {}
    /\ UNCHANGED <<clock, worker, route, outbox, fixes, scans>>

\* The worker crosses the edge of the campus.
Move ==
    /\ away' = ~away
    /\ lastOut' = now
    /\ UNCHANGED <<clock, route, claim, locked, thePass, signs>>

Taken == outbox \cup admitted \cup fixes \cup {[kind |-> "SCAN", at |-> m, inside |-> TRUE] : m \in scans}

\* The device takes a position, at most one a tick, or scans a QR code, which hangs on campus.
TakeSign(kind) ==
    LET sign == [kind |-> kind, at |-> now + skew, inside |-> ~away] IN
    /\ status # "NONE"
    /\ kind = "SCAN" => ~away
    /\ Cardinality(Taken) < MaxSigns
    /\ sign \notin Taken
    /\ \A g \in Taken : g.kind = kind => g.at # sign.at
    /\ outbox' = outbox \cup {sign}
    /\ UNCHANGED <<clock, worker, route, claim, locked, thePass, admitted, fixes, scans>>

\* A delivered position is judged on the route's status, read without a lock; unless the route
\* is IN_PROGRESS the app is told to stop, and the position is gone.
UploadPosition(f) ==
    /\ f \in outbox /\ f.kind = "POSITION"
    /\ outbox' = outbox \ {f}
    /\ admitted' = IF status = "IN_PROGRESS" THEN admitted \cup {f} ELSE admitted
    /\ UNCHANGED <<clock, worker, route, claim, locked, thePass, fixes, scans>>

\* The row is committed, whatever the route became meanwhile.  Its foreign key waits for whoever
\* holds the route.
CommitPosition(f) ==
    /\ f \in admitted /\ locked = "NOBODY"
    /\ admitted' = admitted \ {f}
    /\ fixes' = fixes \cup {f}
    /\ UNCHANGED <<clock, worker, route, claim, locked, thePass, outbox, scans>>

\* A check-in or check-out lands on a live stop, and the last check-out ends the batch; without
\* a live stop it is refused.  It locks stops and not the route, so it waits for no pass, and a
\* pass that has read the scans does not see it.
UploadScan(f, ends) ==
    /\ f \in outbox /\ f.kind = "SCAN"
    /\ ends => live
    /\ outbox' = outbox \ {f}
    /\ scans' = IF live THEN scans \cup {f.at} ELSE scans
    /\ unread' = IF live /\ pass # "NONE" THEN unread \cup {f.at} ELSE unread
    /\ live' = (live /\ ~ends)
    /\ UNCHANGED <<clock, worker, status, allocated, claim, locked, pass, leaves, admitted, fixes>>

\* "Iniciar rota" or the next batch, judged on the request's clock reading and position.
Ask ==
    /\ claim = NoTime
    /\ ~WorkdayOver(now) /\ ~away
    /\ claim' = now
    /\ UNCHANGED <<clock, worker, route, locked, thePass, signs>>

\* The claim gets the route row, after the pass that holds it, if one does.
LockForClaim ==
    /\ claim # NoTime /\ locked = "NOBODY"
    /\ locked' = "CLAIM"
    /\ UNCHANGED <<clock, worker, route, claim, thePass, signs>>

\* The claim ends: its lock goes.
EndClaim ==
    /\ locked = "CLAIM"
    /\ claim' = NoTime /\ locked' = "NOBODY"
    /\ UNCHANGED <<clock, worker, thePass, signs>>

\* The claim commits a batch, stamped with the clock reading the request began with.
CommitBatchAt ==
    /\ EndClaim /\ ~live
    /\ live' = TRUE /\ status' = "IN_PROGRESS" /\ allocated' = claim

\* The claim commits no batch: one is being worked, or nothing could be claimed; only a pool
\* that was read empty closes the route.
CommitNoBatch(poolWasEmpty) ==
    /\ EndClaim
    /\ status' = IF live THEN "IN_PROGRESS"
                 ELSE IF poolWasEmpty THEN "DONE"
                 ELSE IF status = "NONE" THEN "IN_PROGRESS" ELSE status
    /\ UNCHANGED <<live, allocated>>

\* An impediment on the rest of the route gives the batch back; its row waits for the route.
ReportRemainder ==
    /\ locked = "NOBODY" /\ status = "IN_PROGRESS"
    /\ status' = "PAUSED" /\ live' = FALSE
    /\ UNCHANGED <<clock, worker, allocated, claim, locked, thePass, signs>>

-----------------------------------------------------------------------------
(* The pass, one transaction every minute *)

\* The route is being worked, has a batch and is not locked: it is locked until the pass ends, and
\* its signs are read.  The pass judges by the clock reading t it began with.  Locking and the
\* reads are one step, the scans' second read for the silence too: a scan committed between
\* them can only make the worker less gone, so what the pass then does it does here as well.
FindGone(t, why) ==
    /\ locked = "NOBODY" /\ status = "IN_PROGRESS" /\ live /\ ~PastDay(t)
    /\ IF LeftCampus(t) THEN why = "LEFT_CAMPUS" ELSE why = "LOCATION_SILENCE" /\ Silent(t)
    /\ locked' = "PASS" /\ pass' = why
    /\ leaves' = IF WorkdayOver(t) THEN "DONE" ELSE "PAUSED"
    /\ UNCHANGED <<clock, worker, route, claim, unread, signs>>

\* The pass ends, and its lock goes.
EndPass ==
    /\ locked' = "NOBODY"
    /\ pass' = "NONE" /\ leaves' = "NONE" /\ unread' = {}
    /\ UNCHANGED <<clock, worker, allocated, claim, signs>>

\* The stops that are live by now are released, and the route is paused for the worker to start
\* it again, or closed for good.
Release(to) == EndPass /\ status' = to /\ live' = FALSE

\* The batch goes back, whatever was scanned since the signs were read.  When the workday is over
\* the same pass also closes the route.
ReleaseIfGone(why) == pass = why /\ Release(leaves)

\* The pass fails after it locked the route, and is rolled back.
AbortPass == pass # "NONE" /\ EndPass /\ UNCHANGED <<status, live>>

\* Mutant: the early return of a day outside service_weekdays comes first; the day after this
\* route's is one.
ClosedOnServiceDays == FALSE
\* _close_past_days comes first and runs on every day, service day or not.
ClosesPastDay == PastDay(now)

\* An open route is locked and closed.  A pass that began earlier would at most leave it open.
CloseTheDay ==
    /\ locked = "NOBODY" /\ status \in {"IN_PROGRESS", "PAUSED"}
    /\ IF PastDay(now) THEN ClosesPastDay ELSE WorkdayOver(now)
    /\ Release("DONE")

\* A route that is locked is skipped, as is one nothing says anything about.
ReleasePass ==
    \/ \E t \in 0..now, why \in Reasons : FindGone(t, why)
    \/ \E why \in Reasons : ReleaseIfGone(why)
    \/ AbortPass
    \/ CloseTheDay

-----------------------------------------------------------------------------

ReleaseNext ==
    \/ Tick \/ Crash \/ Move
    \/ \E kind \in {"POSITION", "SCAN"} : TakeSign(kind)
    \/ \E f \in outbox : UploadPosition(f)
    \/ \E f \in admitted : CommitPosition(f)
    \/ \E f \in outbox, ends \in BOOLEAN : UploadScan(f, ends)
    \/ Ask \/ LockForClaim \/ CommitBatchAt
    \/ \E poolWasEmpty \in BOOLEAN : CommitNoBatch(poolWasEmpty)
    \/ ReportRemainder
    \/ ReleasePass

ReleaseSpec == ReleaseInit /\ [][ReleaseNext]_releaseVars

-----------------------------------------------------------------------------
(* Properties *)

\* Every variable keeps its type; a sign that was accepted as a position is one.
ReleaseTypeOK ==
    /\ now \in 0..MaxTime /\ skew \in -MaxSkew..MaxSkew
    /\ away \in BOOLEAN /\ lastOut \in {NoTime} \cup 0..MaxTime
    /\ status \in {"NONE", "IN_PROGRESS", "PAUSED", "DONE"} /\ live \in BOOLEAN
    /\ allocated \in {NoTime} \cup 0..MaxTime /\ claim \in {NoTime} \cup 0..MaxTime
    /\ locked \in {"NOBODY", "CLAIM", "PASS"}
    /\ pass \in {"NONE"} \cup Reasons /\ leaves \in {"NONE", "PAUSED", "DONE"}
    /\ (locked = "PASS" <=> pass # "NONE") /\ (leaves = "NONE" <=> pass = "NONE")
    /\ outbox \subseteq Sign /\ admitted \subseteq Sign /\ fixes \subseteq Sign
    /\ scans \subseteq Int /\ unread \subseteq scans

\* A worker loses a batch for leaving the campus only when they did leave it after asking for
\* that batch, as far as the clock of their device can tell: however late the positions of an
\* earlier stretch arrive, _left_campus does not mistake them.  And they were seen outside long
\* enough ago and by nothing later inside: no position, whatever was delivered while the pass was
\* at work, and no QR scan but those committed since the pass read the scans (release_scan.py).
WorkerOnCampusKeepsBatch ==
    [][ReleaseIfGone("LEFT_CAMPUS") =>
        /\ lastOut + skew > allocated
        /\ \E f \in fixes : /\ ~f.inside /\ f.at <= now - OutsideMinutes
                            /\ \A g \in fixes : g.inside => g.at < f.at
                            /\ \A m \in scans \ unread : m < f.at]_releaseVars

\* The clock goes on, a claim ends one way or another, and a server that went down comes back
\* and runs a pass every minute.  A pass may skip the route or fail, but not for ever.
ReleaseFairness ==
    /\ WF_releaseVars(Tick)
    /\ WF_releaseVars(\E poolWasEmpty \in BOOLEAN : CommitNoBatch(poolWasEmpty))
    /\ WF_releaseVars(ReleasePass)
    /\ SF_releaseVars(CloseTheDay)
FairReleaseSpec == ReleaseSpec /\ ReleaseFairness

\* A route that was ever started ends closed for good, with nothing live, although the server
\* may be down over the end of the workday, a batch may be committed after it, and the day after
\* may not be a service day (_close_past_days).
PastDayCloses == <>[](status \in {"NONE", "DONE"} /\ ~live)

=============================================================================
