------------------------------- MODULE Alerts -------------------------------
(***************************************************************************)
(* Alerts from the violation to the manager's desk: the scans that draft,  *)
(* insert and notify them, the rule switches, impediment reports, and the  *)
(* managers who acknowledge and resolve (domain/monitoring, api/monitoring,*)
(* domain/impediments/service.py).                                         *)
(*                                                                         *)
(* An alert is known by its dedup_key: one per finished stop, per day or   *)
(* released batch, per impediment.  Scans overlap when two servers, or a   *)
(* server and the manual script, run one.  A notification stands for one   *)
(* row per manager, written together; reading them touches nothing else.   *)
(***************************************************************************)
EXTENDS Naturals, FiniteSets

CONSTANTS
    Stops,        \* dedup keys NO_EVIDENCE:{stop}, of severity INFO
    Days,         \* dedup keys of the release scan's alerts, of severity WARNING
    Impediments,  \* impediment ids, dedup keys POINT_IMPEDED:{impediment}
    Scans,        \* servers whose scheduler runs the passes
    Managers,
    MaxKeys,      \* bound: violations and impediments that happen in a behaviour
    MaxLost   \* bound: transactions of scans that fail

ASSUME AlertsAssumption ==
    /\ Stops \cap Days = {} /\ Stops \cap Impediments = {} /\ Days \cap Impediments = {}
    /\ MaxKeys \in Nat /\ MaxLost \in Nat

VARIABLES
    violation,  \* how far each scanned violation is
    enabled,    \* AlertRule.enabled of each kind
    alert,      \* Alert.status of the row with each key, or "NONE"
    scan,       \* each scheduler's pass, its step, and its drafts or the rows it inserted
    sent,       \* how many committed notifications each key has
    impediment, \* Impediment.status, or "NONE"
    handling,   \* the request each manager has open, with the copy it loaded
    lost

rows      == <<alert, sent, impediment>>
alertVars == <<violation, enabled, rows, scan, handling, lost>>

Scanned == Stops \cup Days
Keys    == Scanned \cup Impediments
Kinds   == {"NO_EVIDENCE", "POINTS_UNSERVED", "POINT_IMPEDED"}
KindOf(k) == IF k \in Stops THEN "NO_EVIDENCE"
             ELSE IF k \in Days THEN "POINTS_UNSERVED" ELSE "POINT_IMPEDED"

Resting(pass) == [pass |-> pass, step |-> "resting", drafts |-> {}]
NoRequest == [op |-> "NONE"]

AlertsInit ==
    /\ violation = [k \in Scanned |-> "NO"]
    /\ enabled = [n \in Kinds |-> TRUE]
    /\ alert = [k \in Keys |-> "NONE"] /\ sent = [k \in Keys |-> 0]
    /\ impediment = [i \in Impediments |-> "NONE"]
    /\ scan = [s \in Scans |-> Resting("RELEASE")]
    /\ handling = [m \in Managers |-> NoRequest]
    /\ lost = 0

-----------------------------------------------------------------------------
(* What the scans look for *)

\* Bound: how many keys a behaviour is about.
Happened == {k \in Scanned : violation[k] # "NO"} \cup {i \in Impediments : impediment[i] # "NONE"}

\* A stop checked out without a photo passes its grace period (_overdue), or a day ends with
\* points left, or a batch is released.
Happens(k) ==
    /\ violation[k] = "NO" /\ Cardinality(Happened) < MaxKeys
    /\ violation' = [violation EXCEPT ![k] = "HOLDS"]
    /\ UNCHANGED <<enabled, rows, scan, handling, lost>>

\* A late photo arrives, or the route is no longer one that is scanned.
Ends(k) ==
    /\ violation[k] = "HOLDS"
    /\ violation' = [violation EXCEPT ![k] = "OVER"]
    /\ UNCHANGED <<enabled, rows, scan, handling, lost>>

\* A manager switches a rule off or on.  Bound: one is off at a time.
PatchRule(kind) ==
    /\ \A n \in Kinds \ {kind} : enabled[n]
    /\ enabled' = [enabled EXCEPT ![kind] = ~@]
    /\ UNCHANGED <<violation, rows, scan, handling, lost>>

-----------------------------------------------------------------------------
(* One pass: draft, insert, commit, notify, commit *)

\* The release scan passes over the days and batches, then the alert scan over the stops.
KeysOf(pass) == IF pass = "RELEASE" THEN Days ELSE Stops
NextPass(s)  == Resting(IF scan[s].pass = "RELEASE" THEN "ALERT" ELSE "RELEASE")

\* What the pass finds; a rule that is off finds nothing.
Drafts(s) == {k \in KeysOf(scan[s].pass) : violation[k] = "HOLDS" /\ enabled[KindOf(k)]}

\* The pass goes on with the drafts or rows it has, and is over when there are none.
GoOn(s, step, keys) ==
    scan' = [scan EXCEPT ![s] = IF keys = {} THEN NextPass(s)
                                ELSE [pass |-> @.pass, step |-> step, drafts |-> keys]]

Draft(s) ==
    /\ scan[s].step = "resting"
    /\ GoOn(s, "drafted", Drafts(s))
    /\ UNCHANGED <<violation, enabled, rows, handling, lost>>

\* Mutant: ON CONFLICT DO UPDATE, which returns every row.
Upserted(drafts) == drafts
\* Mutant: a plain INSERT, which one row that is already there makes fail as a whole.
AllOrNothing(drafts) == IF \E k \in drafts : alert[k] # "NONE" THEN {} ELSE drafts
\* ON CONFLICT (dedup_key) DO NOTHING RETURNING: only the rows that were not there.
NewRows(drafts) == {k \in drafts : alert[k] = "NONE"}

\* The statement waits for another transaction that has inserted one of its keys.
Insert(s) ==
    /\ scan[s].step = "drafted"
    /\ \A t \in Scans : scan[t].step = "inserted" => scan[t].drafts \cap scan[s].drafts = {}
    /\ GoOn(s, "inserted", NewRows(scan[s].drafts))
    /\ UNCHANGED <<violation, enabled, rows, handling, lost>>

\* notify_new_alerts: those of WARNING and above are fanned out.
Paging(drafts) == drafts \ Stops

\* notify_users: one Notification per manager.
Notified(keys) == [k \in Keys |-> IF k \in keys THEN sent[k] + 1 ELSE sent[k]]

\* The alerts are committed; some are still to be fanned out.
CommitAlerts(s) ==
    /\ scan[s].step = "inserted"
    /\ alert' = [k \in Keys |-> IF k \in scan[s].drafts THEN "OPEN" ELSE alert[k]]
    /\ GoOn(s, "notifying", Paging(scan[s].drafts))
    /\ UNCHANGED <<violation, enabled, sent, impediment, handling, lost>>

\* The notifications are one transaction of their own.
Notify(s) ==
    /\ scan[s].step = "notifying"
    /\ sent' = Notified(scan[s].drafts)
    /\ scan' = [scan EXCEPT ![s] = NextPass(s)]
    /\ UNCHANGED <<violation, enabled, alert, impediment, handling, lost>>

\* The pass is gone with its open transaction: a crash, a database error.  Before the first
\* commit a later pass drafts the same again; after it the notifications are lost.
FailPass(s) ==
    /\ scan[s].step # "resting" /\ lost < MaxLost
    /\ scan' = [scan EXCEPT ![s] = NextPass(s)]
    /\ lost' = lost + 1
    /\ UNCHANGED <<violation, enabled, rows, handling>>

-----------------------------------------------------------------------------
(* Impediments *)

\* notify_impediment_reported: whether or not the rule is on.
Reported(i) == Notified({i})

\* The report, its alert if the rule is on, and the managers' notifications are one transaction;
\* what it releases is Allocation's.
ReportImpediment(i) ==
    /\ impediment[i] = "NONE" /\ Cardinality(Happened) < MaxKeys
    /\ impediment' = [impediment EXCEPT ![i] = "PENDING"]
    /\ alert' = IF enabled["POINT_IMPEDED"] THEN [alert EXCEPT ![i] = "OPEN"] ELSE alert
    /\ sent' = Reported(i)
    /\ UNCHANGED <<violation, enabled, scan, handling, lost>>

-----------------------------------------------------------------------------
(* Managers *)

\* The copy the request judges: loaded without a lock.
Judged(op, k) == IF op = "CIENTE" THEN impediment[k] ELSE alert[k]

\* AlertAlreadyResolved.
Refused(op, copy) == op = "ACKNOWLEDGE" /\ copy = "RESOLVED"
Idempotent(op, copy) ==
    \/ op = "ACKNOWLEDGE" /\ copy = "ACKNOWLEDGED"
    \/ op \in {"RESOLVE", "CIENTE"} /\ copy = "RESOLVED"

\* A manager opens an alert to acknowledge or resolve it, or an impediment to take note of it.
Handle(m, op, k) ==
    /\ handling[m] = NoRequest
    /\ op = "CIENTE" => k \in Impediments
    /\ Judged(op, k) # "NONE"
    /\ ~Refused(op, Judged(op, k)) /\ ~Idempotent(op, Judged(op, k))
    /\ handling' = [handling EXCEPT ![m] = [op |-> op, key |-> k, copy |-> Judged(op, k)]]
    /\ UNCHANGED <<violation, enabled, rows, scan, lost>>

CommitAcknowledge(m) ==
    /\ handling[m].op = "ACKNOWLEDGE"
    /\ alert' = [alert EXCEPT ![handling[m].key] = "ACKNOWLEDGED"]
    /\ handling' = [handling EXCEPT ![m] = NoRequest]
    /\ UNCHANGED <<violation, enabled, sent, impediment, scan, lost>>

CommitResolve(m) ==
    /\ handling[m].op = "RESOLVE"
    /\ alert' = [alert EXCEPT ![handling[m].key] = "RESOLVED"]
    /\ handling' = [handling EXCEPT ![m] = NoRequest]
    /\ UNCHANGED <<violation, enabled, sent, impediment, scan, lost>>

CommitCiente(m) ==
    /\ handling[m].op = "CIENTE"
    /\ impediment' = [impediment EXCEPT ![handling[m].key] = "RESOLVED"]
    /\ handling' = [handling EXCEPT ![m] = NoRequest]
    /\ UNCHANGED <<violation, enabled, alert, sent, scan, lost>>

-----------------------------------------------------------------------------

ScanStep(s) == Draft(s) \/ Insert(s) \/ CommitAlerts(s) \/ Notify(s)

ManagerStep(m) ==
    \/ \E op \in {"ACKNOWLEDGE", "RESOLVE", "CIENTE"}, k \in Keys : Handle(m, op, k)
    \/ CommitAcknowledge(m) \/ CommitResolve(m) \/ CommitCiente(m)

AlertsNext ==
    \/ \E k \in Scanned : Happens(k) \/ Ends(k)
    \/ \E n \in Kinds : PatchRule(n)
    \/ \E s \in Scans : ScanStep(s) \/ FailPass(s)
    \/ \E i \in Impediments : ReportImpediment(i)
    \/ \E m \in Managers : ManagerStep(m)

AlertsSpec == AlertsInit /\ [][AlertsNext]_alertVars

\* The scheduler starts the two passes every minute, and a pass goes on by itself.
AlertsFairness == \A s \in Scans : WF_alertVars(ScanStep(s))
FairAlertsSpec == AlertsSpec /\ AlertsFairness

-----------------------------------------------------------------------------
(* Properties *)

\* Every variable keeps its type; a pass drafts only its own kinds.
AlertsTypeOK ==
    /\ violation \in [Scanned -> {"NO", "HOLDS", "OVER"}]
    /\ enabled \in [Kinds -> BOOLEAN]
    /\ alert \in [Keys -> {"NONE", "OPEN", "ACKNOWLEDGED", "RESOLVED"}]
    /\ sent \in [Keys -> Nat]
    /\ impediment \in [Impediments -> {"NONE", "PENDING", "RESOLVED"}]
    /\ scan \in [Scans -> [pass : {"RELEASE", "ALERT"}, drafts : SUBSET Scanned,
                           step : {"resting", "drafted", "inserted", "notifying"}]]
    /\ \A s \in Scans : scan[s].drafts \subseteq KeysOf(scan[s].pass)
    /\ handling \in [Managers -> {NoRequest} \cup
                        [op : {"ACKNOWLEDGE", "RESOLVE"}, key : Keys, copy : {"OPEN", "ACKNOWLEDGED"}] \cup
                        [op : {"CIENTE"}, key : Impediments, copy : {"PENDING"}]]
    /\ lost \in 0..MaxLost

\* However many scans overlap, fail, or find the same violation again after it was handled, a
\* manager is notified of an alert at most once, and only of one that is committed and pages
\* (notify_new_alerts after insert_new_alerts).
NotifiedOnce ==
    \A k \in Keys : /\ sent[k] <= 1
                    /\ sent[k] = 1 => k \notin Stops /\ (k \in Days => alert[k] # "NONE")

\* A manager is about to acknowledge the alert with a copy that shows it OPEN.
HadItOpen(m, k) ==
    handling[m].op = "ACKNOWLEDGE" /\ handling[m].key = k /\ handling[m].copy = "OPEN"

\* models.py of dedup_key: "a resolved violation that still holds does not reopen".  Once a
\* manager has taken an alert no scan, report or manager puts it back to OPEN; and a resolved one,
\* whose "handling cycle is closed", is taken back only by a manager who had it OPEN on the desk
\* before it was resolved: the write is not checked against the row.
HandledStaysHandled ==
    [][\A k \in Keys :
        /\ alert[k] \in {"ACKNOWLEDGED", "RESOLVED"} => alert'[k] \in {"ACKNOWLEDGED", "RESOLVED"}
        /\ alert[k] = "RESOLVED" /\ alert'[k] # "RESOLVED" =>
               \E m \in Managers : HadItOpen(m, k)]_alertVars

\* A violation that goes on holding with its rule on is recorded in the end, whatever overlaps,
\* deadlocks or fails on the way, and whatever else was recorded before.
ViolationsRecorded ==
    \A k \in Scanned :
        <>[](violation[k] = "HOLDS" /\ enabled[KindOf(k)]) => <>(alert[k] # "NONE")

=============================================================================
