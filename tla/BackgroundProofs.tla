-------------------------- MODULE BackgroundProofs --------------------------
(***************************************************************************)
(* Theorems about the jobs behind the requests: Alerts, for any number of  *)
(* stops, days, impediments, scans, managers and failures; ReleaseScan,    *)
(* for any settings, clocks and signs; and MCBackground, which runs them   *)
(* beside the evidence store.                                              *)
(*                                                                         *)
(* Alerts: a key passes through three hands: the one transaction that has  *)
(* inserted it, the one pass that has committed it and has yet to notify,  *)
(* and the managers.  The invariant says that no two passes ever hold one  *)
(* key.                                                                    *)
(*                                                                         *)
(* ReleaseScan: a sign from outside was taken while the worker was there,  *)
(* by a clock that may be wrong, and what a pass has judged stays so while *)
(* it holds the route, but for the scans committed meanwhile.              *)
(***************************************************************************)
EXTENDS MCBackground, EvidenceStoreProofs, TLAPS

\* The rows a pass has inserted are no one else's, and not there for anybody yet.
InsertedOnce ==
    /\ \A s \in Scans : scan[s].step = "inserted" => \A k \in scan[s].drafts : alert[k] = "NONE"
    /\ \A s, t \in Scans :
           s # t /\ scan[s].step = "inserted" /\ scan[t].step = "inserted" =>
               scan[s].drafts \cap scan[t].drafts = {}

\* The alerts a pass has still to fan out page, are committed, and nobody was told of them.
AboutToNotify ==
    /\ \A s \in Scans : scan[s].step = "notifying" =>
           \A k \in scan[s].drafts : k \in Days /\ alert[k] # "NONE" /\ sent[k] = 0
    /\ \A s, t \in Scans :
           s # t /\ scan[s].step = "notifying" /\ scan[t].step = "notifying" =>
               scan[s].drafts \cap scan[t].drafts = {}

\* Nothing is said of an impediment before it is reported.
UnreportedIsSilent ==
    \A i \in Impediments : impediment[i] = "NONE" => alert[i] = "NONE" /\ sent[i] = 0

\* Who acknowledges an alert had it OPEN on the desk, and what is handled is there.
HandledIsThere ==
    \A m \in Managers :
        /\ handling[m].op = "ACKNOWLEDGE" => handling[m].copy = "OPEN"
        /\ handling[m].op \in {"ACKNOWLEDGE", "RESOLVE"} => alert[handling[m].key] # "NONE"

AlertInv ==
    /\ AlertsTypeOK
    /\ NotifiedOnce
    /\ InsertedOnce
    /\ AboutToNotify
    /\ UnreportedIsSilent
    /\ HandledIsThere

ScanState == [pass : {"RELEASE", "ALERT"}, drafts : SUBSET Scanned,
              step : {"resting", "drafted", "inserted", "notifying"}]

-----------------------------------------------------------------------------

\* In the initial state every pass rests, and there is nothing to tell.
LEMMA InitAlertInv == AlertsInit => AlertInv
  BY AlertsAssumption
     DEF AlertsInit, AlertInv, AlertsTypeOK, NotifiedOnce, InsertedOnce, AboutToNotify,
         UnreportedIsSilent, HandledIsThere, Resting, KeysOf, Scanned, Keys, NoRequest

\* Wherever a pass goes on to, its state has its type and it keeps to the keys of its kind.
LEMMA GoOnType ==
    ASSUME AlertsTypeOK, NEW s \in Scans, NEW step \in {"drafted", "inserted", "notifying"},
           NEW keys \in SUBSET KeysOf(scan[s].pass), GoOn(s, step, keys)
    PROVE  /\ scan' \in [Scans -> ScanState]
           /\ \A t \in Scans : scan'[t].drafts \subseteq KeysOf(scan'[t].pass)
           /\ \A t \in Scans \ {s} : scan'[t] = scan[t]
           /\ scan'[s].step \in {"resting", step}
           /\ scan'[s].step = step => scan'[s].drafts = keys
<1> DEFINE next == IF keys = {} THEN NextPass(s) ELSE [scan[s] EXCEPT !.step = step, !.drafts = keys]
           going == [pass |-> scan[s].pass, step |-> step, drafts |-> keys]
<1>1. scan[s] \in ScanState /\ scan \in [Scans -> ScanState]
  BY DEF AlertsTypeOK, ScanState
<1>2. keys \subseteq Scanned
  BY DEF KeysOf, Scanned
<1>3. going \in ScanState /\ going.drafts \subseteq KeysOf(going.pass)
  BY <1>1, <1>2 DEF ScanState
<1>4. NextPass(s) \in ScanState /\ NextPass(s).drafts = {} /\ NextPass(s).step = "resting"
  BY DEF NextPass, Resting, ScanState
<1>5. scan' = [scan EXCEPT ![s] = IF keys = {} THEN NextPass(s) ELSE going]
  BY <1>1 DEF GoOn
<1>6. \A t \in Scans : scan[t].drafts \subseteq KeysOf(scan[t].pass)
  BY DEF AlertsTypeOK
<1> HIDE DEF going
<1> QED
  <2>1. CASE keys = {}
    BY <1>1, <1>4, <1>5, <1>6, <2>1
  <2>2. CASE keys # {}
    <3>1. scan' = [scan EXCEPT ![s] = going]
      BY <1>5, <2>2
    <3> QED
      BY <1>1, <1>3, <1>6, <3>1 DEF going
  <2> QED
    BY <2>1, <2>2

\* Every step keeps the types.
LEMMA AlertTypeStep == AlertsTypeOK /\ [AlertsNext]_alertVars => AlertsTypeOK'
<1> SUFFICES ASSUME AlertsTypeOK, [AlertsNext]_alertVars PROVE AlertsTypeOK'
  OBVIOUS
<1> USE AlertsAssumption
<1>1. CASE UNCHANGED alertVars
  BY <1>1 DEF AlertsTypeOK, alertVars, rows
<1>2. ASSUME NEW k \in Scanned, Happens(k) \/ Ends(k) PROVE AlertsTypeOK'
  BY <1>2 DEF AlertsTypeOK, Happens, Ends, rows
<1>3. ASSUME NEW n \in Kinds, PatchRule(n) PROVE AlertsTypeOK'
  BY <1>3 DEF AlertsTypeOK, PatchRule, rows
<1>4. ASSUME NEW s \in Scans, ScanStep(s) PROVE AlertsTypeOK'
  <2> DEFINE ScanType == /\ scan \in [Scans -> ScanState]
                         /\ \A t \in Scans : scan[t].drafts \subseteq KeysOf(scan[t].pass)
  <2>1. scan[s] \in ScanState /\ scan[s].drafts \subseteq KeysOf(scan[s].pass)
    BY DEF AlertsTypeOK, ScanState
  <2>2. CASE Draft(s)
    <3>1. Drafts(s) \in SUBSET KeysOf(scan[s].pass)
      BY DEF Drafts
    <3>2. ScanType'
      BY <2>2, <3>1, GoOnType DEF Draft
    <3> QED
      BY <2>2, <3>2 DEF AlertsTypeOK, ScanState, Draft, rows
  <2>3. CASE Insert(s)
    <3>1. NewRows(scan[s].drafts) \in SUBSET KeysOf(scan[s].pass)
      BY <2>1 DEF NewRows
    <3>2. ScanType'
      BY <2>3, <3>1, GoOnType DEF Insert
    <3> QED
      BY <2>3, <3>2 DEF AlertsTypeOK, ScanState, Insert, rows
  <2>4. CASE CommitAlerts(s)
    <3>1. Paging(scan[s].drafts) \in SUBSET KeysOf(scan[s].pass)
      BY <2>1 DEF Paging
    <3>2. ScanType'
      BY <2>4, <3>1, GoOnType DEF CommitAlerts
    <3> QED
      BY <2>4, <3>2 DEF AlertsTypeOK, ScanState, CommitAlerts
  <2>5. CASE Notify(s)
    <3>1. ScanType'
      BY <2>5 DEF Notify, NextPass, Resting, AlertsTypeOK, ScanState, KeysOf
    <3> QED
      BY <2>5, <3>1 DEF AlertsTypeOK, ScanState, Notify, Notified
  <2> QED
    BY <1>4, <2>2, <2>3, <2>4, <2>5 DEF ScanStep
<1>5. ASSUME NEW s \in Scans, FailPass(s) PROVE AlertsTypeOK'
  BY <1>5 DEF AlertsTypeOK, FailPass, NextPass, Resting, KeysOf, rows
<1>6. ASSUME NEW i \in Impediments, ReportImpediment(i) PROVE AlertsTypeOK'
  BY <1>6 DEF AlertsTypeOK, ReportImpediment, Reported, Notified, Keys
<1>7. ASSUME NEW m \in Managers, NEW op \in {"ACKNOWLEDGE", "RESOLVE", "CIENTE"}, NEW k \in Keys,
             Handle(m, op, k)
      PROVE  AlertsTypeOK'
  <2> DEFINE h == [op |-> op, key |-> k, copy |-> Judged(op, k)]
             Open == [op : {"ACKNOWLEDGE", "RESOLVE"}, key : Keys, copy : {"OPEN", "ACKNOWLEDGED"}]
                       \cup [op : {"CIENTE"}, key : Impediments, copy : {"PENDING"}]
  <2>1. h \in Open
    BY <1>7 DEF Handle, Judged, Refused, Idempotent, AlertsTypeOK
  <2>2. handling' = [handling EXCEPT ![m] = h]
    BY <1>7 DEF Handle
  <2>3. handling' \in [Managers -> {NoRequest} \cup Open]
    <3> HIDE DEF h
    <3> QED
      BY <2>1, <2>2 DEF AlertsTypeOK
  <2> QED
    BY <1>7, <2>3 DEF AlertsTypeOK, Handle, rows
<1>8. ASSUME NEW m \in Managers, CommitAcknowledge(m) \/ CommitResolve(m) \/ CommitCiente(m)
      PROVE  AlertsTypeOK'
  BY <1>8 DEF AlertsTypeOK, CommitAcknowledge, CommitResolve, CommitCiente, NoRequest
<1> QED
  BY <1>1, <1>2, <1>3, <1>4, <1>5, <1>6, <1>7, <1>8 DEF AlertsNext, ManagerStep

-----------------------------------------------------------------------------
(* Who holds a key *)

\* A step of a scan keeps the invariant: what it inserts was nobody's, what it commits nobody was
\* told of, and what it notifies is then told once.
LEMMA ScanKeepsAlertInv ==
    ASSUME AlertInv, NEW s \in Scans, ScanStep(s) \/ FailPass(s), AlertsTypeOK'
    PROVE  AlertInv'
<1> USE DEF AlertInv
<1>1. /\ scan[s] \in ScanState /\ scan[s].drafts \subseteq KeysOf(scan[s].pass)
      /\ scan[s].drafts \subseteq Scanned /\ Scanned \subseteq Keys /\ Scanned \cap Impediments = {}
  BY AlertsAssumption DEF AlertsTypeOK, ScanState, Scanned, Keys
<1>2. CASE Draft(s)
  <2>1. Drafts(s) \in SUBSET KeysOf(scan[s].pass)
    BY DEF Drafts
  <2>2. scan'[s].step \in {"resting", "drafted"} /\ \A t \in Scans \ {s} : scan'[t] = scan[t]
    BY <1>2, <2>1, GoOnType DEF Draft
  <2> QED
    BY <1>2, <2>2 DEF Draft, rows, NotifiedOnce, InsertedOnce, AboutToNotify, UnreportedIsSilent,
                      HandledIsThere
<1>3. CASE Insert(s)
  <2>1. NewRows(scan[s].drafts) \in SUBSET KeysOf(scan[s].pass)
    BY <1>1 DEF NewRows
  <2>2. /\ scan'[s].step \in {"resting", "inserted"} /\ \A t \in Scans \ {s} : scan'[t] = scan[t]
        /\ scan'[s].step = "inserted" => scan'[s].drafts = NewRows(scan[s].drafts)
    BY <1>3, <2>1, GoOnType DEF Insert
  <2>3. \A t \in Scans : scan[t].step = "inserted" => scan[t].drafts \cap scan[s].drafts = {}
    BY <1>3 DEF Insert
  <2>4. InsertedOnce'
    <3>1. \A t \in Scans : scan'[t].step = "inserted" => \A k \in scan'[t].drafts : alert'[k] = "NONE"
      BY <1>3, <2>2 DEF Insert, rows, NewRows, InsertedOnce
    <3>2. \A t \in Scans \ {s} : scan'[s].step = "inserted" /\ scan'[t].step = "inserted" =>
              scan'[s].drafts \cap scan'[t].drafts = {}
      BY <2>2, <2>3 DEF NewRows
    <3> QED
      BY <2>2, <3>1, <3>2 DEF InsertedOnce
  <2> QED
    BY <1>3, <2>2, <2>4 DEF Insert, rows, NotifiedOnce, AboutToNotify, UnreportedIsSilent,
                            HandledIsThere
<1>4. CASE CommitAlerts(s)
  <2> DEFINE D == scan[s].drafts
  <2>1. Paging(D) \in SUBSET KeysOf(scan[s].pass)
    BY <1>1 DEF Paging
  <2>2. /\ scan'[s].step \in {"resting", "notifying"} /\ \A t \in Scans \ {s} : scan'[t] = scan[t]
        /\ scan'[s].step = "notifying" => scan'[s].drafts = D \ Stops
    BY <1>4, <2>1, GoOnType DEF CommitAlerts, Paging
  <2>3. /\ \A k \in D : k \in Keys /\ alert[k] = "NONE" /\ alert'[k] = "OPEN"
        /\ \A k \in Keys \ D : alert'[k] = alert[k]
        /\ UNCHANGED <<sent, impediment, handling>>
    BY <1>1, <1>4 DEF CommitAlerts, InsertedOnce
  <2>4. \A k \in D : sent[k] = 0
    <3>1. \A k \in D : k \in Stops \cup Days /\ sent[k] \in Nat /\ sent[k] <= 1
      BY <1>1, <2>3 DEF NotifiedOnce, AlertsTypeOK, Scanned
    <3>2. \A k \in D : sent[k] # 1
      BY <2>3, <3>1 DEF NotifiedOnce
    <3> QED
      BY <3>1, <3>2, SMT
  <2>5. D \ Stops \subseteq Days
    BY <1>1 DEF Scanned
  <2>6. NotifiedOnce'
    BY <2>3 DEF NotifiedOnce
  <2>7. InsertedOnce'
    <3>1. \A t \in Scans \ {s} : scan[t].step = "inserted" => scan[t].drafts \cap D = {}
      BY <1>4 DEF InsertedOnce, CommitAlerts
    <3>2. \A t \in Scans : scan[t].drafts \subseteq Keys
      BY <1>1 DEF AlertsTypeOK
    <3> QED
      BY <2>2, <2>3, <3>1, <3>2 DEF InsertedOnce
  <2>8. AboutToNotify'
    <3>1. \A t \in Scans : scan'[t].step = "notifying" =>
              \A k \in scan'[t].drafts : k \in Days /\ alert'[k] # "NONE" /\ sent'[k] = 0
      <4>1. \A k \in Keys : alert[k] # "NONE" => alert'[k] # "NONE"
        BY <2>3
      <4>2. \A k \in Days : k \in Keys
        BY DEF Keys, Scanned
      <4> QED
        BY <2>2, <2>3, <2>4, <2>5, <4>1, <4>2 DEF AboutToNotify
    <3>2. \A t \in Scans \ {s} : scan'[t].step = "notifying" => scan'[t].drafts \cap D = {}
      BY <2>2, <2>3 DEF AboutToNotify
    <3> QED
      BY <2>2, <3>1, <3>2 DEF AboutToNotify
  <2>9. UnreportedIsSilent' /\ HandledIsThere'
    <3>1. \A i \in Impediments : i \in Keys \ D
      BY <1>1 DEF Keys
    <3>2. \A m \in Managers : handling[m].op \in {"ACKNOWLEDGE", "RESOLVE"} => handling[m].key \in Keys
      BY DEF AlertsTypeOK, NoRequest
    <3> QED
      BY <2>3, <3>1, <3>2 DEF UnreportedIsSilent, HandledIsThere
  <2> QED
    BY <2>6, <2>7, <2>8, <2>9
<1>5. CASE Notify(s)
  <2>1. scan'[s].step = "resting" /\ \A t \in Scans \ {s} : scan'[t] = scan[t]
    BY <1>5 DEF Notify, NextPass, Resting, AlertsTypeOK
  <2>2. \A k \in scan[s].drafts : k \in Days /\ alert[k] # "NONE" /\ sent[k] = 0 /\ sent'[k] = 1
    <3>1. \A k \in scan[s].drafts : k \in Days /\ alert[k] # "NONE" /\ sent[k] = 0
      BY <1>5 DEF Notify, AboutToNotify
    <3> QED
      BY <1>1, <1>5, <3>1, SMT DEF Notify, Notified
  <2>3. \A k \in Keys \ scan[s].drafts : sent'[k] = sent[k]
    BY <1>5 DEF Notify, Notified
  <2>4. NotifiedOnce'
    <3>1. \A k \in Days : k \notin Stops
      BY AlertsAssumption
    <3> QED
      BY <1>5, <2>2, <2>3, <3>1 DEF NotifiedOnce, Notify
  <2>5. InsertedOnce'
    BY <1>5, <2>1 DEF InsertedOnce, Notify
  <2>6. AboutToNotify'
    <3>1. \A t \in Scans \ {s} : scan[t].step = "notifying" => scan[t].drafts \cap scan[s].drafts = {}
      BY <1>5 DEF AboutToNotify, Notify
    <3>2. \A t \in Scans : scan[t].drafts \subseteq Keys
      BY <1>1 DEF AlertsTypeOK
    <3> QED
      BY <1>5, <2>1, <2>3, <3>1, <3>2 DEF AboutToNotify, Notify
  <2>7. UnreportedIsSilent' /\ HandledIsThere'
    <3>1. \A i \in Impediments : i \in Keys \ scan[s].drafts
      BY <1>1 DEF Keys
    <3> QED
      BY <1>5, <2>3, <3>1 DEF UnreportedIsSilent, HandledIsThere, Notify
  <2> QED
    BY <2>4, <2>5, <2>6, <2>7
<1>6. CASE FailPass(s)
  <2>1. scan'[s].step = "resting" /\ \A t \in Scans \ {s} : scan'[t] = scan[t]
    BY <1>6 DEF FailPass, NextPass, Resting, AlertsTypeOK
  <2> QED
    BY <1>6, <2>1 DEF FailPass, rows, NotifiedOnce, InsertedOnce, AboutToNotify,
                      UnreportedIsSilent, HandledIsThere
<1> QED
  BY <1>2, <1>3, <1>4, <1>5, <1>6 DEF ScanStep

\* A report keeps the invariant: its impediment was unreported, so nobody was told of it.
LEMMA ReportKeepsAlertInv ==
    ASSUME AlertInv, NEW i \in Impediments, ReportImpediment(i), AlertsTypeOK'
    PROVE  AlertInv'
<1> USE DEF AlertInv
<1>1. /\ i \in Keys /\ i \notin Scanned /\ i \notin Stops /\ i \notin Days
      /\ alert[i] = "NONE" /\ sent[i] = 0
  BY AlertsAssumption DEF Keys, Scanned, ReportImpediment, UnreportedIsSilent
<1>2. /\ sent'[i] = 1 /\ impediment'[i] = "PENDING"
      /\ \A k \in Keys \ {i} : sent'[k] = sent[k] /\ alert'[k] = alert[k]
      /\ \A j \in Impediments \ {i} : impediment'[j] = impediment[j]
      /\ UNCHANGED <<scan, handling>>
  BY <1>1, SMT DEF ReportImpediment, Reported, Notified, AlertsTypeOK
<1>3. \A s \in Scans : scan[s].drafts \subseteq Keys \ {i}
  BY <1>1 DEF AlertsTypeOK, Keys
<1>4. NotifiedOnce'
  BY <1>1, <1>2 DEF NotifiedOnce, Keys, Scanned
<1>5. InsertedOnce' /\ AboutToNotify'
  BY <1>2, <1>3 DEF InsertedOnce, AboutToNotify
<1>6. UnreportedIsSilent'
  BY <1>1, <1>2 DEF UnreportedIsSilent, Keys
<1>7. HandledIsThere'
  <2>1. \A m \in Managers : handling[m].op \in {"ACKNOWLEDGE", "RESOLVE"} => handling[m].key \in Keys \ {i}
    BY <1>1 DEF AlertsTypeOK, NoRequest, HandledIsThere
  <2> QED
    BY <1>2, <2>1 DEF HandledIsThere
<1> QED
  BY <1>4, <1>5, <1>6, <1>7

\* A manager's request keeps the invariant: it moves only a row that is there.
LEMMA ManagerKeepsAlertInv ==
    ASSUME AlertInv, NEW m \in Managers, ManagerStep(m), AlertsTypeOK'
    PROVE  AlertInv'
<1> USE DEF AlertInv
<1>1. ASSUME NEW op \in {"ACKNOWLEDGE", "RESOLVE", "CIENTE"}, NEW k \in Keys, Handle(m, op, k)
      PROVE  AlertInv'
  <2>1. op \in {"ACKNOWLEDGE", "RESOLVE"} => alert[k] # "NONE"
    BY <1>1 DEF Handle, Judged
  <2>2. op = "ACKNOWLEDGE" => Judged(op, k) = "OPEN"
    BY <1>1 DEF Handle, Judged, Refused, Idempotent, AlertsTypeOK
  <2>3. \A n \in Managers : handling'[n] = IF n = m THEN [op |-> op, key |-> k, copy |-> Judged(op, k)]
                                           ELSE handling[n]
    BY <1>1 DEF Handle, AlertsTypeOK
  <2>4. HandledIsThere'
    BY <1>1, <2>1, <2>2, <2>3 DEF HandledIsThere, Handle, rows
  <2> QED
    BY <1>1, <2>4 DEF Handle, rows, NotifiedOnce, InsertedOnce, AboutToNotify, UnreportedIsSilent
<1>2. ASSUME CommitAcknowledge(m) \/ CommitResolve(m) PROVE AlertInv'
  <2> DEFINE k == handling[m].key
  <2>1. k \in Keys /\ alert[k] # "NONE"
    BY <1>2 DEF CommitAcknowledge, CommitResolve, HandledIsThere, AlertsTypeOK, NoRequest
  <2>2. /\ alert'[k] # "NONE" /\ \A j \in Keys \ {k} : alert'[j] = alert[j]
        /\ UNCHANGED <<sent, impediment, scan>>
    BY <1>2, <2>1 DEF CommitAcknowledge, CommitResolve, AlertsTypeOK
  <2>3. \A j \in Keys : alert'[j] = "NONE" <=> alert[j] = "NONE"
    BY <2>1, <2>2
  <2>4. \A n \in Managers : handling'[n] = IF n = m THEN NoRequest ELSE handling[n]
    BY <1>2 DEF CommitAcknowledge, CommitResolve, AlertsTypeOK
  <2>5. HandledIsThere'
    BY <2>3, <2>4 DEF HandledIsThere, AlertsTypeOK, NoRequest
  <2>6. /\ \A s \in Scans : scan[s].drafts \subseteq Keys
        /\ Days \subseteq Keys /\ Impediments \subseteq Keys
    BY DEF AlertsTypeOK, Keys, Scanned
  <2>7. NotifiedOnce' /\ InsertedOnce' /\ AboutToNotify' /\ UnreportedIsSilent'
    BY <2>2, <2>3, <2>6 DEF NotifiedOnce, InsertedOnce, AboutToNotify, UnreportedIsSilent
  <2> QED
    BY <2>5, <2>7
<1>3. CASE CommitCiente(m)
  <2>1. handling[m].key \in Impediments
    BY <1>3 DEF CommitCiente, AlertsTypeOK, NoRequest
  <2>2. \A i \in Impediments : impediment'[i] = "NONE" => impediment[i] = "NONE"
    BY <1>3, <2>1 DEF CommitCiente, AlertsTypeOK
  <2>3. \A n \in Managers : handling'[n] = IF n = m THEN NoRequest ELSE handling[n]
    BY <1>3 DEF CommitCiente, AlertsTypeOK
  <2>4. HandledIsThere'
    BY <1>3, <2>3 DEF HandledIsThere, CommitCiente, NoRequest
  <2> QED
    BY <1>3, <2>2, <2>4 DEF CommitCiente, NotifiedOnce, InsertedOnce, AboutToNotify, UnreportedIsSilent
<1> QED
  BY <1>1, <1>2, <1>3 DEF ManagerStep

\* Every step keeps the invariant.
LEMMA StepAlertInv == AlertInv /\ [AlertsNext]_alertVars => AlertInv'
<1> SUFFICES ASSUME AlertInv, [AlertsNext]_alertVars PROVE AlertInv'
  OBVIOUS
<1>1. AlertsTypeOK'
  BY AlertTypeStep DEF AlertInv
<1>2. CASE UNCHANGED <<rows, scan, handling>>
  BY <1>1, <1>2 DEF AlertInv, rows, NotifiedOnce, InsertedOnce, AboutToNotify, UnreportedIsSilent,
                    HandledIsThere
<1>3. ASSUME NEW s \in Scans, ScanStep(s) \/ FailPass(s) PROVE AlertInv'
  BY <1>1, <1>3, ScanKeepsAlertInv
<1>4. ASSUME NEW i \in Impediments, ReportImpediment(i) PROVE AlertInv'
  BY <1>1, <1>4, ReportKeepsAlertInv
<1>5. ASSUME NEW m \in Managers, ManagerStep(m) PROVE AlertInv'
  BY <1>1, <1>5, ManagerKeepsAlertInv
<1> QED
  BY <1>2, <1>3, <1>4, <1>5 DEF AlertsNext, alertVars, Happens, Ends, PatchRule

LEMMA AlertInvariance == AlertsSpec => []AlertInv
  BY InitAlertInv, StepAlertInv, PTL DEF AlertsSpec

-----------------------------------------------------------------------------

\* The types of the alerts, of the scans' passes and of the managers' requests hold in every
\* reachable state.
THEOREM AlertTypes == AlertsSpec => []AlertsTypeOK
  BY AlertInvariance, PTL DEF AlertInv

\* However many scans run the passes, overlap and fail, a manager hears of an alert at most once,
\* and only of one that is committed and pages.
THEOREM ManagersAreNotifiedOnce == AlertsSpec => []NotifiedOnce
  BY AlertInvariance, PTL DEF AlertInv

\* Only a commit moves an alert that is there, and only an acknowledgement a resolved one.
LEMMA HandledStep ==
    ASSUME AlertInv, [AlertsNext]_alertVars, NEW k \in Keys
    PROVE  /\ alert[k] \in {"ACKNOWLEDGED", "RESOLVED"} => alert'[k] \in {"ACKNOWLEDGED", "RESOLVED"}
           /\ alert[k] = "RESOLVED" /\ alert'[k] # "RESOLVED" =>
                  \E m \in Managers : HadItOpen(m, k)
<1> USE DEF AlertInv
<1>1. CASE alert' = alert
  BY <1>1
<1>2. ASSUME NEW s \in Scans, CommitAlerts(s) PROVE alert[k] # "NONE" => alert'[k] = alert[k]
  BY <1>2 DEF CommitAlerts, InsertedOnce
<1>3. ASSUME NEW i \in Impediments, ReportImpediment(i) PROVE alert[k] # "NONE" => alert'[k] = alert[k]
  BY <1>3 DEF ReportImpediment, UnreportedIsSilent, AlertsTypeOK
<1>4. ASSUME NEW m \in Managers, CommitResolve(m) PROVE alert'[k] = "RESOLVED" \/ alert'[k] = alert[k]
  BY <1>4 DEF CommitResolve, AlertsTypeOK
<1>5. ASSUME NEW m \in Managers, CommitAcknowledge(m)
      PROVE  \/ alert'[k] = alert[k]
             \/ alert'[k] = "ACKNOWLEDGED" /\ HadItOpen(m, k)
  BY <1>5 DEF CommitAcknowledge, AlertsTypeOK, HandledIsThere, HadItOpen
<1> QED
  BY <1>1, <1>2, <1>3, <1>4, <1>5
     DEF AlertsNext, ScanStep, ManagerStep, alertVars, rows, Happens, Ends, PatchRule, Draft, Insert,
         Notify, FailPass, Handle, CommitCiente

\* Once a manager has taken an alert, nothing puts it back to OPEN; a resolved one is taken back
\* only by the acknowledgement of a manager who had it OPEN on the desk.
THEOREM HandledAlertsStayHandled == AlertsSpec => HandledStaysHandled
<1>1. AlertInv /\ [AlertsNext]_alertVars =>
        [\A k \in Keys :
            /\ alert[k] \in {"ACKNOWLEDGED", "RESOLVED"} => alert'[k] \in {"ACKNOWLEDGED", "RESOLVED"}
            /\ alert[k] = "RESOLVED" /\ alert'[k] # "RESOLVED" =>
                   \E m \in Managers : HadItOpen(m, k)]_alertVars
  BY HandledStep
<1> QED
  BY <1>1, AlertInvariance, PTL DEF AlertsSpec, HandledStaysHandled

-----------------------------------------------------------------------------
(* ReleaseScan *)

TakenOutside == {g \in outbox \cup admitted \cup fixes : ~g.inside}

\* The device took what it says of the outside while the worker was there.
StrayInv ==
    /\ lastOut <= now
    /\ away => lastOut = now
    /\ \A g \in TakenOutside : g.at <= lastOut + skew

\* A batch is stamped by the claim that commits it.
StampInv ==
    /\ locked = "CLAIM" => claim # NoTime
    /\ live => allocated # NoTime

SeenNewer == \E f \in fixes : ~f.inside /\ f.at > allocated
SeenOutsideLongAgo ==
    \E f \in fixes : /\ ~f.inside /\ f.at <= now - OutsideMinutes
                     /\ \A g \in fixes : g.inside => g.at < f.at
                     /\ \A m \in scans \ unread : m < f.at

\* What a pass has judged stays so while it holds the route, but for the scans that it has not read.
JudgedInv ==
    /\ pass = "NONE" => unread = {}
    /\ pass = "LEFT_CAMPUS" => SeenNewer /\ SeenOutsideLongAgo

ReleaseInv == ReleaseTypeOK /\ StrayInv /\ StampInv /\ JudgedInv

LEMMA ReleaseNumbers ==
  /\ MaxTime \in Nat /\ MaxSkew \in Nat /\ -MaxSkew \in Int /\ OutsideMinutes \in Nat
  /\ \A n \in -MaxSkew..MaxSkew : n \in Int
  BY ReleaseScanAssumption, SMT

ReleaseFlags == away \in BOOLEAN /\ live \in BOOLEAN

\* Who holds the route, and the scans a pass has not read.
ReleaseLocks ==
    /\ locked \in {"NOBODY", "CLAIM", "PASS"}
    /\ pass \in {"NONE"} \cup Reasons /\ leaves \in {"NONE", "PAUSED", "DONE"}
    /\ locked = "PASS" <=> pass # "NONE"
    /\ leaves = "NONE" <=> pass = "NONE"
    /\ unread \subseteq scans

\* The types of the rest.
ReleaseValues ==
    /\ now \in 0..MaxTime /\ skew \in -MaxSkew..MaxSkew
    /\ lastOut \in {NoTime} \cup 0..MaxTime
    /\ status \in {"NONE", "IN_PROGRESS", "PAUSED", "DONE"}
    /\ allocated \in {NoTime} \cup 0..MaxTime /\ claim \in {NoTime} \cup 0..MaxTime
    /\ outbox \subseteq Sign /\ admitted \subseteq Sign /\ fixes \subseteq Sign
    /\ scans \subseteq Int

LEMMA FlagsLocksAndValues == ReleaseTypeOK <=> ReleaseFlags /\ ReleaseLocks /\ ReleaseValues
  BY Zenon DEF ReleaseTypeOK, ReleaseFlags, ReleaseLocks, ReleaseValues

LEMMA InitReleaseInv == ReleaseInit => ReleaseInv
<1> SUFFICES ASSUME ReleaseInit PROVE ReleaseInv
  OBVIOUS
<1>1. ReleaseFlags /\ ReleaseLocks
  BY Zenon DEF ReleaseInit, ReleaseFlags, ReleaseLocks
<1>2. ReleaseValues
  BY ReleaseNumbers, SMT DEF ReleaseInit, ReleaseValues
<1>3. StrayInv
  BY ReleaseNumbers, SMT DEF ReleaseInit, StrayInv, TakenOutside, NoTime
<1>4. StampInv /\ JudgedInv
  BY Zenon DEF ReleaseInit, StampInv, JudgedInv
<1> QED  BY <1>1, <1>2, <1>3, <1>4, FlagsLocksAndValues DEF ReleaseInv

\* A step keeps the flags flags.
LEMMA StepReleaseFlags ==
  ASSUME ReleaseFlags, [ReleaseNext]_releaseVars PROVE ReleaseFlags'
<1> USE DEF ReleaseFlags, clock, worker, route, thePass, signs
<1>1. CASE Tick \/ Crash \/ Move
  BY <1>1, Zenon DEF Tick, Crash, Move
<1>2. ASSUME NEW kind \in {"POSITION", "SCAN"}, TakeSign(kind) PROVE ReleaseFlags'
  BY <1>2, Zenon DEF TakeSign
<1>3. ASSUME NEW f, UploadPosition(f) \/ CommitPosition(f) PROVE ReleaseFlags'
  BY <1>3, Zenon DEF UploadPosition, CommitPosition
<1>4. ASSUME NEW f \in outbox, NEW ends \in BOOLEAN, UploadScan(f, ends) PROVE ReleaseFlags'
  BY <1>4, Zenon DEF UploadScan
<1>5. CASE Ask \/ LockForClaim \/ CommitBatchAt \/ ReportRemainder
  BY <1>5, Zenon DEF Ask, LockForClaim, EndClaim, CommitBatchAt, ReportRemainder
<1>6. ASSUME NEW poolWasEmpty \in BOOLEAN, CommitNoBatch(poolWasEmpty) PROVE ReleaseFlags'
  BY <1>6, Zenon DEF EndClaim, CommitNoBatch
<1>7. CASE ReleasePass
  BY <1>7, Zenon DEF ReleasePass, FindGone, ReleaseIfGone, AbortPass, CloseTheDay, Release, EndPass
<1>8. CASE UNCHANGED releaseVars
  BY <1>8, Zenon DEF releaseVars
<1> QED  BY <1>1, <1>2, <1>3, <1>4, <1>5, <1>6, <1>7, <1>8 DEF ReleaseNext

\* A step keeps the route with one holder.
LEMMA StepReleaseLocks ==
  ASSUME ReleaseLocks, [ReleaseNext]_releaseVars PROVE ReleaseLocks'
<1> USE DEF ReleaseLocks, clock, worker, route, thePass, signs
<1>1. CASE Tick \/ Crash \/ Move
  BY <1>1, Zenon DEF Tick, Crash, Move
<1>2. ASSUME NEW kind \in {"POSITION", "SCAN"}, TakeSign(kind) PROVE ReleaseLocks'
  BY <1>2, Zenon DEF TakeSign
<1>3. ASSUME NEW f, UploadPosition(f) \/ CommitPosition(f) PROVE ReleaseLocks'
  BY <1>3, Zenon DEF UploadPosition, CommitPosition
<1>4. ASSUME NEW f \in outbox, NEW ends \in BOOLEAN, UploadScan(f, ends) PROVE ReleaseLocks'
  <2>1. unread' \subseteq scans'
    <3>1. CASE live
      BY <1>4, <3>1, Zenon DEF UploadScan
    <3>2. CASE ~live
      BY <1>4, <3>2, Zenon DEF UploadScan
    <3> QED  BY <3>1, <3>2
  <2>2. UNCHANGED <<locked, pass, leaves>>
    BY <1>4, Zenon DEF UploadScan
  <2> QED  BY <2>1, <2>2, Zenon
<1>5. CASE Ask \/ LockForClaim \/ CommitBatchAt \/ ReportRemainder
  BY <1>5, Zenon DEF Ask, LockForClaim, EndClaim, CommitBatchAt, ReportRemainder
<1>6. ASSUME NEW poolWasEmpty \in BOOLEAN, CommitNoBatch(poolWasEmpty) PROVE ReleaseLocks'
  BY <1>6, Zenon DEF EndClaim, CommitNoBatch
<1>7. ASSUME NEW t \in 0..now, NEW why \in Reasons, FindGone(t, why) PROVE ReleaseLocks'
  <2>1. why # "NONE"
    BY Zenon DEF Reasons
  <2>2. leaves' \in {"DONE", "PAUSED"}
    BY <1>7, Zenon DEF FindGone
  <2>3. locked' = "PASS" /\ pass' = why /\ UNCHANGED <<unread, scans>>
    BY <1>7, Zenon DEF FindGone
  <2> QED  BY <2>1, <2>2, <2>3, Zenon
<1>8. CASE (\E why \in Reasons : ReleaseIfGone(why)) \/ AbortPass \/ CloseTheDay
  BY <1>8, Zenon DEF ReleaseIfGone, AbortPass, CloseTheDay, Release, EndPass
<1>9. CASE UNCHANGED releaseVars
  BY <1>9, Zenon DEF releaseVars
<1> QED
  BY <1>1, <1>2, <1>3, <1>4, <1>5, <1>6, <1>7, <1>8, <1>9 DEF ReleaseNext, ReleasePass

\* What the device takes now is a sign.
LEMMA TakenIsASign ==
  ASSUME ReleaseFlags, ReleaseValues, NEW kind \in {"POSITION", "SCAN"}
  PROVE  [kind |-> kind, at |-> now + skew, inside |-> ~away] \in Sign
<1>1. now + skew \in Int
  BY ReleaseNumbers, SMT DEF ReleaseValues
<1>2. (~away) \in BOOLEAN
  BY Zenon DEF ReleaseFlags
<1> HIDE DEF ReleaseFlags, ReleaseValues
<1> QED  BY <1>1, <1>2, Zenon DEF Sign

\* A step keeps the values of their types.
LEMMA StepReleaseValues ==
  ASSUME ReleaseFlags, ReleaseLocks, ReleaseValues, [ReleaseNext]_releaseVars
  PROVE  ReleaseValues'
<1> USE ReleaseNumbers DEF ReleaseValues, NoTime, clock, worker, route, thePass, signs
<1>1. CASE Tick \/ Crash \/ Move
  <2>1. now' \in 0..MaxTime /\ claim' \in {NoTime} \cup 0..MaxTime
    BY <1>1, SMT DEF Tick, Crash, Move
  <2>2. lastOut' \in {lastOut, now, now'}
    BY <1>1, Zenon DEF Tick, Crash, Move
  <2>3. admitted' \in {admitted, {}} /\ UNCHANGED <<skew, status, allocated, outbox, fixes, scans>>
    BY <1>1, Zenon DEF Tick, Crash, Move
  <2> QED  BY <2>1, <2>2, <2>3, Zenon
<1>2. ASSUME NEW kind \in {"POSITION", "SCAN"}, TakeSign(kind) PROVE ReleaseValues'
  BY <1>2, TakenIsASign, SMT DEF TakeSign
<1>3. ASSUME NEW f \in outbox, UploadPosition(f) PROVE ReleaseValues'
  BY <1>3, SMT DEF UploadPosition
<1>4. ASSUME NEW f \in admitted, CommitPosition(f) PROVE ReleaseValues'
  BY <1>4, SMT DEF CommitPosition
<1>5. ASSUME NEW f \in outbox, NEW ends \in BOOLEAN, UploadScan(f, ends) PROVE ReleaseValues'
  <2>1. f.at \in Int
    BY DEF Sign
  <2>2. scans' \in {scans, scans \cup {f.at}} /\ outbox' \subseteq outbox
    BY <1>5, Zenon DEF UploadScan
  <2> QED  BY <1>5, <2>1, <2>2, Zenon DEF UploadScan
<1>6. CASE Ask \/ LockForClaim \/ CommitBatchAt \/ ReportRemainder
  <2> USE DEF Ask, LockForClaim, EndClaim, CommitBatchAt, ReportRemainder
  <2>1. claim' \in {NoTime, now, claim} /\ allocated' \in {claim, allocated}
    BY <1>6, Zenon
  <2>2. status' \in {status, "IN_PROGRESS", "PAUSED"} /\ UNCHANGED <<now, skew, lastOut, signs>>
    BY <1>6, Zenon
  <2> QED  BY <2>1, <2>2, Zenon
<1>7. ASSUME NEW poolWasEmpty \in BOOLEAN, CommitNoBatch(poolWasEmpty) PROVE ReleaseValues'
  <2>1. status' \in {status, "IN_PROGRESS", "DONE"}
    BY <1>7, Zenon DEF CommitNoBatch
  <2> QED  BY <1>7, <2>1, Zenon DEF EndClaim, CommitNoBatch
<1>8. CASE ReleasePass
  <2> USE DEF ReleasePass, FindGone, ReleaseIfGone, AbortPass, CloseTheDay, Release, EndPass
  <2>1. status' \in {status, leaves, "DONE"} /\ UNCHANGED <<clock, lastOut, allocated, claim, signs>>
    BY <1>8, Zenon
  <2>2. leaves \in {"NONE", "PAUSED", "DONE"}
    BY DEF ReleaseLocks
  <2> QED  BY <2>1, <2>2, Zenon
<1>9. CASE UNCHANGED releaseVars
  BY <1>9, SMT DEF releaseVars
<1> QED  BY <1>1, <1>2, <1>3, <1>4, <1>5, <1>6, <1>7, <1>8, <1>9 DEF ReleaseNext

\* A step that takes no new sign from outside keeps what the signs say.
LEMMA NothingNewOutside ==
  ASSUME ReleaseInv, ReleaseTypeOK', TakenOutside' \subseteq TakenOutside,
         UNCHANGED <<now, skew, away, lastOut>>
  PROVE  StrayInv'
BY DEF ReleaseInv, StrayInv

\* A position taken outside is taken now, by a worker who is there.
LEMMA TakeSignKeepsStrayInv ==
  ASSUME ReleaseInv, ReleaseTypeOK', NEW kind \in {"POSITION", "SCAN"}, TakeSign(kind)
  PROVE  StrayInv'
<1> DEFINE sign == [kind |-> kind, at |-> now + skew, inside |-> ~away]
<1>1. UNCHANGED <<now, skew, away, lastOut>>
  BY DEF TakeSign, clock, worker
<1>2. \A g \in TakenOutside' : g \in TakenOutside \/ (g.at = now + skew /\ away)
  <2> SUFFICES ASSUME NEW g \in TakenOutside', g \notin TakenOutside
               PROVE  g.at = now + skew /\ away
    OBVIOUS
  <2>1. g = sign /\ ~g.inside
    BY Zenon DEF TakeSign, TakenOutside
  <2>2. sign.at = now + skew /\ (sign.inside <=> ~away)
    BY Zenon
  <2> QED  BY <2>1, <2>2, Zenon
<1>3. \A g \in TakenOutside' : g.at <= lastOut + skew
  <2>1. now \in Int /\ lastOut \in Int /\ skew \in Int
    BY SMT DEF ReleaseInv, ReleaseTypeOK, NoTime
  <2>2. away => lastOut = now
    BY DEF ReleaseInv, StrayInv
  <2>3. (now + skew) <= (now + skew)
    BY <2>1, SMT
  <2> QED  BY <1>2, <2>2, <2>3, Zenon DEF ReleaseInv, StrayInv
<1> QED  BY <1>1, <1>3 DEF ReleaseInv, StrayInv

LEMMA StepStrayInv ==
  ASSUME ReleaseInv, ReleaseTypeOK', [ReleaseNext]_releaseVars PROVE StrayInv'
<1> USE DEF clock, worker, route, thePass, signs
<1>0. /\ now \in Int /\ lastOut \in Int /\ skew \in Int
      /\ \A g \in TakenOutside : g.at \in Int
  BY SMT DEF ReleaseInv, ReleaseTypeOK, TakenOutside, Sign, NoTime
<1>1. ASSUME lastOut <= lastOut', lastOut' \in Int, TakenOutside' = TakenOutside, skew' = skew
      PROVE  \A g \in TakenOutside' : g.at <= lastOut' + skew'
  BY <1>0, <1>1, SMT DEF ReleaseInv, StrayInv
<1>2. CASE Tick
  <2>1. now' = now + 1 /\ TakenOutside' = TakenOutside /\ UNCHANGED <<away, skew>>
    BY <1>2 DEF Tick, TakenOutside
  <2>2. CASE away
    <3>1. lastOut' = now'
      BY <1>2, <2>2 DEF Tick
    <3>2. lastOut <= lastOut' /\ lastOut' \in Int
      BY <1>0, <2>1, <3>1, SMT DEF ReleaseInv, StrayInv
    <3> QED  BY <1>1, <2>1, <3>1, <3>2, SMT DEF StrayInv
  <2>3. CASE ~away
    <3>1. lastOut' = lastOut
      BY <1>2, <2>3 DEF Tick
    <3>2. lastOut' <= now' /\ lastOut <= lastOut'
      BY <1>0, <2>1, <3>1, SMT DEF ReleaseInv, StrayInv
    <3> QED  BY <1>0, <1>1, <2>1, <2>3, <3>1, <3>2 DEF StrayInv
  <2> QED  BY <2>2, <2>3
<1>3. CASE Crash
  BY <1>3, NothingNewOutside DEF Crash, TakenOutside
<1>4. CASE Move
  <2>1. lastOut' = now /\ now' = now /\ TakenOutside' = TakenOutside /\ skew' = skew
    BY <1>4 DEF Move, TakenOutside
  <2>2. lastOut <= lastOut' /\ lastOut' \in Int /\ lastOut' <= now'
    BY <1>0, <2>1, SMT DEF ReleaseInv, StrayInv
  <2> QED  BY <1>1, <2>1, <2>2 DEF StrayInv
<1>5. ASSUME NEW kind \in {"POSITION", "SCAN"}, TakeSign(kind) PROVE StrayInv'
  BY <1>5, TakeSignKeepsStrayInv
<1>6. ASSUME NEW f \in outbox, UploadPosition(f) PROVE StrayInv'
  BY <1>6, NothingNewOutside DEF UploadPosition, TakenOutside
<1>7. ASSUME NEW f \in admitted, CommitPosition(f) PROVE StrayInv'
  BY <1>7, NothingNewOutside DEF CommitPosition, TakenOutside
<1>8. ASSUME NEW f \in outbox, NEW ends \in BOOLEAN, UploadScan(f, ends) PROVE StrayInv'
  BY <1>8, NothingNewOutside DEF UploadScan, TakenOutside
<1>9. CASE Ask \/ LockForClaim \/ CommitBatchAt \/ ReportRemainder
  BY <1>9, NothingNewOutside
  DEF Ask, LockForClaim, EndClaim, CommitBatchAt, ReportRemainder, TakenOutside
<1>10. ASSUME NEW poolWasEmpty \in BOOLEAN, CommitNoBatch(poolWasEmpty) PROVE StrayInv'
  BY <1>10, NothingNewOutside DEF EndClaim, CommitNoBatch, TakenOutside
<1>11. CASE ReleasePass
  <2>1. UNCHANGED <<clock, worker, signs>>
    BY <1>11, Zenon
    DEF ReleasePass, FindGone, ReleaseIfGone, AbortPass, CloseTheDay, Release, EndPass
  <2> QED  BY <2>1, NothingNewOutside DEF TakenOutside
<1>12. CASE UNCHANGED releaseVars
  BY <1>12, NothingNewOutside DEF releaseVars, TakenOutside
<1> QED
  BY <1>2, <1>3, <1>4, <1>5, <1>6, <1>7, <1>8, <1>9, <1>10, <1>11, <1>12 DEF ReleaseNext

LEMMA StepStampInv ==
  ASSUME ReleaseInv, [ReleaseNext]_releaseVars PROVE StampInv'
<1> USE DEF StampInv, clock, worker, route, thePass, signs
<1>0. StampInv /\ (now # NoTime)
  BY SMT DEF ReleaseInv, ReleaseTypeOK, NoTime
<1>1. CASE Tick \/ Crash \/ Move
  BY <1>0, <1>1 DEF Tick, Crash, Move
<1>2. ASSUME NEW kind \in {"POSITION", "SCAN"}, TakeSign(kind) PROVE StampInv'
  BY <1>0, <1>2, Zenon DEF TakeSign
<1>3. ASSUME NEW f, UploadPosition(f) \/ CommitPosition(f) PROVE StampInv'
  BY <1>0, <1>3 DEF UploadPosition, CommitPosition
<1>4. ASSUME NEW f \in outbox, NEW ends \in BOOLEAN, UploadScan(f, ends) PROVE StampInv'
  BY <1>0, <1>4, Zenon DEF UploadScan
<1>5. CASE Ask \/ LockForClaim
  BY <1>0, <1>5 DEF Ask, LockForClaim
<1>6. CASE CommitBatchAt
  BY <1>0, <1>6, Zenon DEF EndClaim, CommitBatchAt
<1>7. CASE ReportRemainder
  BY <1>0, <1>7, Zenon DEF ReportRemainder
<1>8. ASSUME NEW poolWasEmpty \in BOOLEAN, CommitNoBatch(poolWasEmpty) PROVE StampInv'
  BY <1>0, <1>8, Zenon DEF EndClaim, CommitNoBatch
<1>9. CASE ReleasePass
  BY <1>0, <1>9
  DEF ReleasePass, FindGone, ReleaseIfGone, AbortPass, CloseTheDay, Release, EndPass
<1>10. CASE UNCHANGED releaseVars
  BY <1>0, <1>10, Zenon DEF releaseVars
<1> QED
  BY <1>1, <1>2, <1>3, <1>4, <1>5, <1>6, <1>7, <1>8, <1>9, <1>10 DEF ReleaseNext

\* A pass judges the worker gone by positions and scans that say so.
LEMMA FindGoneJudges ==
  ASSUME ReleaseInv, NEW t \in 0..now, FindGone(t, "LEFT_CAMPUS")
  PROVE  SeenNewer /\ SeenOutsideLongAgo
<1>0. LeftCampus(t) /\ live
  BY DEF FindGone
<1>1. /\ now \in Int /\ t \in Int /\ t <= now
      /\ \A f \in fixes : f.at \in Int
      /\ \A m \in scans : m \in Int
  BY SMT DEF ReleaseInv, ReleaseTypeOK, Sign
<1>2. SeenNewer
  BY <1>0 DEF LeftCampus, LatestOfBatch, ReleaseInv, StampInv, SeenNewer
<1>3. PICK f \in fixes : ~f.inside /\ ~SeenInsideSince(f.at) /\ f.at <= t - OutsideMinutes
  BY <1>0 DEF LeftCampus, OutsideLongEnough
<1>4. f.at <= now - OutsideMinutes
  BY <1>1, <1>3, ReleaseNumbers, SMT
<1>5. \A g \in fixes : g.inside => g.at < f.at
  BY <1>1, <1>3, SMT DEF SeenInsideSince
<1>6. \A m \in scans \ unread : m < f.at
  BY <1>1, <1>3, SMT DEF SeenInsideSince
<1> QED  BY <1>2, <1>3, <1>4, <1>5, <1>6 DEF SeenOutsideLongAgo

\* While a pass holds the route no position and no batch is committed, and time only goes on.
LEMMA StillJudged ==
  ASSUME ReleaseInv, ReleaseTypeOK', pass' = pass, UNCHANGED <<fixes, allocated>>, now <= now',
         scans' \ unread' \subseteq scans \ unread, pass = "NONE" => unread' = {}
  PROVE  JudgedInv'
<1>1. CASE pass # "LEFT_CAMPUS"
  BY <1>1 DEF JudgedInv
<1>2. CASE pass = "LEFT_CAMPUS"
  <2>1. SeenNewer /\ SeenOutsideLongAgo
    BY <1>2 DEF ReleaseInv, JudgedInv
  <2>2. SeenNewer'
    BY <2>1 DEF SeenNewer
  <2>3. PICK f \in fixes : /\ ~f.inside /\ f.at <= now - OutsideMinutes
                           /\ \A g \in fixes : g.inside => g.at < f.at
                           /\ \A m \in scans \ unread : m < f.at
    BY <2>1 DEF SeenOutsideLongAgo
  <2>4. now \in Int /\ now' \in Int /\ f.at \in Int
    BY SMT DEF ReleaseInv, ReleaseTypeOK, Sign
  <2>5. f.at <= now' - OutsideMinutes
    BY <2>3, <2>4, ReleaseNumbers, SMT
  <2>6. SeenOutsideLongAgo'
    BY <2>3, <2>5 DEF SeenOutsideLongAgo
  <2> QED  BY <1>2, <2>2, <2>6 DEF JudgedInv
<1> QED  BY <1>1, <1>2

LEMMA StepJudgedInv ==
  ASSUME ReleaseInv, ReleaseTypeOK', [ReleaseNext]_releaseVars PROVE JudgedInv'
<1> USE DEF clock, worker, route, thePass, signs
<1>0. /\ pass = "NONE" => unread = {}
      /\ pass # "NONE" => locked = "PASS"
      /\ now <= now
  <2>1. now <= now
    BY SMT DEF ReleaseInv, ReleaseTypeOK
  <2> QED  BY <2>1 DEF ReleaseInv, ReleaseTypeOK, JudgedInv
<1>1. ASSUME pass' = "NONE", unread' = {} PROVE JudgedInv'
  BY <1>1 DEF JudgedInv
<1>2. CASE Tick
  <2>1. now <= now'
    BY <1>2, SMT DEF Tick, ReleaseInv, ReleaseTypeOK
  <2> QED  BY <1>0, <1>2, <2>1, StillJudged DEF Tick
<1>3. CASE Crash
  BY <1>1, <1>3 DEF Crash
<1>4. CASE Move
  BY <1>0, <1>4, StillJudged DEF Move
<1>5. ASSUME NEW kind \in {"POSITION", "SCAN"}, TakeSign(kind) PROVE JudgedInv'
  BY <1>0, <1>5, StillJudged DEF TakeSign
<1>6. ASSUME NEW f \in outbox, UploadPosition(f) PROVE JudgedInv'
  BY <1>0, <1>6, StillJudged DEF UploadPosition
<1>7. ASSUME NEW f \in admitted, CommitPosition(f) PROVE JudgedInv'
  BY <1>0, <1>1, <1>7 DEF CommitPosition
<1>8. ASSUME NEW f \in outbox, NEW ends \in BOOLEAN, UploadScan(f, ends) PROVE JudgedInv'
  <2>1. CASE pass = "NONE"
    BY <1>0, <1>1, <1>8, <2>1 DEF UploadScan
  <2>2. CASE pass # "NONE"
    <3>1. scans' \ unread' \subseteq scans \ unread
      <4>1. CASE live
        BY <1>8, <2>2, <4>1, Zenon DEF UploadScan
      <4>2. CASE ~live
        BY <1>8, <4>2, Zenon DEF UploadScan
      <4> QED  BY <4>1, <4>2
    <3>2. UNCHANGED <<now, pass, fixes, allocated>>
      BY <1>8, Zenon DEF UploadScan
    <3> QED  BY <1>0, <2>2, <3>1, <3>2, StillJudged
  <2> QED  BY <2>1, <2>2
<1>9. CASE Ask \/ LockForClaim \/ ReportRemainder
  BY <1>0, <1>9, StillJudged DEF Ask, LockForClaim, ReportRemainder
<1>10. CASE CommitBatchAt
  BY <1>0, <1>1, <1>10 DEF EndClaim, CommitBatchAt
<1>11. ASSUME NEW poolWasEmpty \in BOOLEAN, CommitNoBatch(poolWasEmpty) PROVE JudgedInv'
  BY <1>0, <1>1, <1>11 DEF EndClaim, CommitNoBatch
<1>12. ASSUME NEW t \in 0..now, NEW why \in Reasons, FindGone(t, why) PROVE JudgedInv'
  <2>1. why # "NONE" /\ pass' = why
    BY <1>12 DEF FindGone, Reasons
  <2>2. UNCHANGED <<now, fixes, scans, unread, allocated>>
    BY <1>12 DEF FindGone
  <2>3. ASSUME why = "LEFT_CAMPUS" PROVE (SeenNewer /\ SeenOutsideLongAgo)'
    <3>1. SeenNewer /\ SeenOutsideLongAgo
      BY <1>12, <2>3, FindGoneJudges
    <3> QED  BY <2>2, <3>1 DEF SeenNewer, SeenOutsideLongAgo
  <2> QED  BY <2>1, <2>3 DEF JudgedInv
<1>13. CASE (\E why \in Reasons : ReleaseIfGone(why)) \/ AbortPass \/ CloseTheDay
  BY <1>1, <1>13 DEF ReleaseIfGone, AbortPass, CloseTheDay, Release, EndPass
<1>14. CASE UNCHANGED releaseVars
  BY <1>0, <1>14, StillJudged DEF releaseVars
<1> QED
  BY <1>2, <1>3, <1>4, <1>5, <1>6, <1>7, <1>8, <1>9, <1>10, <1>11, <1>12, <1>13, <1>14
     DEF ReleaseNext, ReleasePass

LEMMA StepReleaseInv == ReleaseInv /\ [ReleaseNext]_releaseVars => ReleaseInv'
<1> SUFFICES ASSUME ReleaseInv, [ReleaseNext]_releaseVars PROVE ReleaseInv'
  OBVIOUS
<1>1. ReleaseTypeOK'
  <2>1. ReleaseFlags' /\ ReleaseLocks'
    BY FlagsLocksAndValues, StepReleaseFlags, StepReleaseLocks DEF ReleaseInv
  <2>2. ReleaseValues'
    BY FlagsLocksAndValues, StepReleaseValues DEF ReleaseInv
  <2> QED  BY <2>1, <2>2, Zenon DEF ReleaseTypeOK, ReleaseFlags, ReleaseLocks, ReleaseValues
<1> QED  BY <1>1, StepStrayInv, StepStampInv, StepJudgedInv DEF ReleaseInv

\* Every variable of ReleaseScan keeps its type.
THEOREM ReleaseTypeCorrect == ReleaseSpec => []ReleaseTypeOK
<1>1. ReleaseInv => ReleaseTypeOK
  BY DEF ReleaseInv
<1> QED  BY InitReleaseInv, StepReleaseInv, <1>1, PTL DEF ReleaseSpec

\* The pass takes a batch for leaving the campus only from a worker who did leave it since they
\* asked for that batch, as far as the device's clock can tell, and who was seen outside long
\* enough ago and, by what the pass has read, by nothing later inside.
LEMMA GoneWasOutside ==
  ASSUME ReleaseInv, ReleaseIfGone("LEFT_CAMPUS")
  PROVE  /\ lastOut + skew > allocated
         /\ SeenOutsideLongAgo
<1>1. SeenNewer /\ SeenOutsideLongAgo
  BY DEF ReleaseIfGone, ReleaseInv, JudgedInv
<1>2. PICK f \in fixes : ~f.inside /\ f.at > allocated
  BY <1>1 DEF SeenNewer
<1>3. f.at <= lastOut + skew
  BY <1>2 DEF ReleaseInv, StrayInv, TakenOutside
<1>4. f.at \in Int /\ allocated \in Int /\ lastOut \in Int /\ skew \in Int
  BY SMT DEF ReleaseInv, ReleaseTypeOK, Sign, NoTime
<1> QED  BY <1>1, <1>2, <1>3, <1>4, SMT

\* No worker who stayed on campus since they asked for their batch loses it for leaving, in
\* whichever order positions and scans arrive and however wrong the device's clock is within
\* what it can tell; nor does one seen inside since, unless by a scan that the pass did not read
\* (_left_campus, _first_outside_fix_since_seen_inside).
THEOREM PresentWorkerKeepsBatch == ReleaseSpec => WorkerOnCampusKeepsBatch
<1>1. ReleaseInv /\ [ReleaseNext]_releaseVars =>
        [ReleaseIfGone("LEFT_CAMPUS") =>
            /\ lastOut + skew > allocated
            /\ \E f \in fixes : /\ ~f.inside /\ f.at <= now - OutsideMinutes
                                /\ \A g \in fixes : g.inside => g.at < f.at
                                /\ \A m \in scans \ unread : m < f.at]_releaseVars
  BY GoneWasOutside DEF SeenOutsideLongAgo
<1> QED  BY InitReleaseInv, StepReleaseInv, <1>1, PTL DEF ReleaseSpec, WorkerOnCampusKeepsBatch

-----------------------------------------------------------------------------
(* The jobs together, as the runs check them *)

\* A step of the jobs together is a step of one of them, in which the others rest.
LEMMA StepsOfBackground ==
  ASSUME [BackgroundNext]_backgroundVars
  PROVE  [Next]_vars /\ [ReleaseNext]_releaseVars /\ [AlertsNext]_alertVars
  BY DEF BackgroundNext, backgroundVars

\* The runs on the jobs together see nothing that each job alone could not do.
THEOREM BackgroundIsItsParts == BackgroundSpec => Spec /\ ReleaseSpec /\ AlertsSpec
<1>1. BackgroundInit => Init /\ ReleaseInit /\ AlertsInit
  BY DEF BackgroundInit
<1>2. [BackgroundNext]_backgroundVars =>
          [Next]_vars /\ [ReleaseNext]_releaseVars /\ [AlertsNext]_alertVars
  BY StepsOfBackground
<1> QED  BY <1>1, <1>2, PTL DEF BackgroundSpec, Spec, ReleaseSpec, AlertsSpec

\* Objects, rows and uploads, the worker's signs and batch, alerts and passes keep their types,
\* whichever job a behaviour is about.
THEOREM BackgroundTypes == BackgroundSpec => []BackgroundTypeOK
<1>1. TypeOK /\ ReleaseTypeOK /\ AlertsTypeOK => BackgroundTypeOK
  BY DEF BackgroundTypeOK
<1> QED  BY <1>1, BackgroundIsItsParts, EvidenceTypes, ReleaseTypeCorrect, AlertTypes, PTL
=============================================================================
