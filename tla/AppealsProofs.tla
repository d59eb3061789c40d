--------------------------- MODULE AppealsProofs ---------------------------
(***************************************************************************)
(* Theorems about Appeals and PointDays, for any number of workers, points,*)
(* managers, stops and requests, and any window.                           *)
(*                                                                         *)
(* The properties are inductive once it is known which rows are there: an  *)
(* appeal leaves PENDING in one place only, where the status is read again *)
(* under the lock, and a filing inserts only where there is no appeal.     *)
(* The readings of PointDays count sets of points: that two of them agree  *)
(* is that the sets are equal, apart, or in a bijection.                   *)
(***************************************************************************)
EXTENDS PointDays, FiniteSetTheorems, TLAPS

\* The execution of an accepted appeal is the appealing worker's.
WonByAppellant ==
    \A e \in executions : e.source = "APPEAL" =>
        appeal[e.stop] # NoAppeal /\ e.worker = appeal[e.stop].worker

AppealInv ==
    /\ AppealsTypeOK
    /\ WonByAppellant
    /\ VerdictDecidesExecution
    /\ RetryIsReplayed

\* The day of a moment is no later than the moment.
LEMMA DayOfTick == ASSUME NEW tick \in 0..MaxTime PROVE tick \div DayLength \in 0..MaxTime
  BY AppealsAssumption, SMT

LEMMA DayOfMoment == ASSUME now \in 0..MaxTime PROVE Today \in 0..MaxTime
  BY DayOfTick DEF Today

\* A row is told from no row by its status.
LEMMA StopRowsAreThere ==
    /\ \A row \in StopRow : row # NoStop /\ row.status # "NONE"
    /\ \A row \in AppealRow : row # NoAppeal
  BY DEF StopRow, AppealRow, NoStop, NoAppeal, Live

\* The initial state satisfies the invariant: no stop, no appeal, no request.
LEMMA InitAppealInv == AppealsInit => AppealInv
  BY AppealsAssumption
     DEF AppealsInit, AppealInv, AppealsTypeOK, WonByAppellant, VerdictDecidesExecution, RetryIsReplayed, IsReplay,
         Answer, NoAppeal, NoRequest, NoStop

-----------------------------------------------------------------------------
(* Types *)

\* A step that changes one stop leaves the others, and keeps it there.
LEMMA StopKeepsType ==
    ASSUME AppealsTypeOK, NEW s \in Stops, NEW row \in StopRow,
           stop' = [stop EXCEPT ![s] = row]
    PROVE  /\ stop' \in [Stops -> {NoStop} \cup StopRow]
           /\ Rows \subseteq Rows'
  BY StopRowsAreThere DEF AppealsTypeOK, Rows

\* Every step keeps the types.
LEMMA AppealTypeStep == AppealsTypeOK /\ [AppealsNext]_appealVars => AppealsTypeOK'
<1> SUFFICES ASSUME AppealsTypeOK, [AppealsNext]_appealVars PROVE AppealsTypeOK'
  OBVIOUS
<1> USE AppealsAssumption
<1>1. CASE UNCHANGED appealVars
  BY <1>1 DEF AppealsTypeOK, appealVars, record, Rows
<1>2. CASE TimePasses
  BY <1>2, SMT DEF AppealsTypeOK, TimePasses, record, Rows
<1>3. ASSUME NEW s \in Stops, NEW p \in Points, NEW w \in Workers, HandOut(s, p, w)
      PROVE  AppealsTypeOK'
  <2> DEFINE row == [status |-> "PENDING", point |-> p, owner |-> w, day |-> Today,
                     reason |-> "NONE", at |-> 0]
  <2>1. row \in StopRow
    BY DayOfMoment DEF AppealsTypeOK, StopRow, Live
  <2>2. stop' = [stop EXCEPT ![s] = row]
    BY <1>3 DEF HandOut
  <2> HIDE DEF row
  <2>3. stop' \in [Stops -> {NoStop} \cup StopRow] /\ Rows \subseteq Rows'
    BY <2>1, <2>2, StopKeepsType
  <2> QED
    BY <1>3, <2>3 DEF AppealsTypeOK, HandOut
<1>4. ASSUME NEW s \in Stops, CheckInAt(s) \/ CheckOutAt(s) \/ \E reason \in Reasons : ReleaseStop(s, reason)
      PROVE  AppealsTypeOK'
  <2>1. stop[s] \in StopRow
    <3>1. stop[s].status # "NONE"
      BY <1>4 DEF CheckInAt, CheckOutAt, ReleaseStop, Live
    <3> QED
      BY <3>1 DEF AppealsTypeOK, NoStop
  <2>2. PICK row \in StopRow : stop' = [stop EXCEPT ![s] = row]
    <3>1. CASE CheckInAt(s)
      BY <2>1, <3>1 DEF CheckInAt, StopRow, Live, AppealsTypeOK
    <3>2. CASE CheckOutAt(s)
      BY <2>1, <3>2 DEF CheckOutAt, StopRow, Live, AppealsTypeOK
    <3>3. ASSUME NEW reason \in Reasons, ReleaseStop(s, reason)
          PROVE  \E row \in StopRow : stop' = [stop EXCEPT ![s] = row]
      BY <2>1, <3>3 DEF ReleaseStop, StopRow, Live, AppealsTypeOK
    <3> QED
      BY <1>4, <3>1, <3>2, <3>3
  <2>3. stop' \in [Stops -> {NoStop} \cup StopRow] /\ Rows \subseteq Rows'
    BY <2>2, StopKeepsType
  <2>4. executions' \subseteq [stop : Stops, worker : Workers, source : {"APP", "APPEAL"}]
    <3>1. [stop |-> s, worker |-> stop[s].owner, source |-> "APP"]
             \in [stop : Stops, worker : Workers, source : {"APP", "APPEAL"}]
      BY <2>1 DEF StopRow
    <3> QED
      BY <1>4, <3>1 DEF AppealsTypeOK, CheckInAt, CheckOutAt, ReleaseStop
  <2> QED
    BY <1>4, <2>3, <2>4 DEF AppealsTypeOK, CheckInAt, CheckOutAt, ReleaseStop
<1>5. ASSUME NEW r \in Filings, NEW w \in Workers, NEW s \in Stops, NEW n \in Attempts,
             BeginFiling(r, w, s, n)
      PROVE  AppealsTypeOK'
  <2> DEFINE f == [stop |-> s, worker |-> w, attempt |-> n, at |-> now]
  <2>1. f \in Filing /\ f.stop \in Rows
    BY <1>5 DEF AppealsTypeOK, BeginFiling, Filing
  <2>2. filing' = [filing EXCEPT ![r] = f]
    BY <1>5 DEF BeginFiling
  <2> HIDE DEF f
  <2> QED
    BY <1>5, <2>1, <2>2 DEF AppealsTypeOK, BeginFiling, record, Rows
<1>6. ASSUME NEW r \in Filings, File(r) PROVE AppealsTypeOK'
  <2>1. filing[r] \in Filing /\ filing[r].stop \in Stops
    BY <1>6 DEF AppealsTypeOK, File, Filing
  <2>2. filing' = [filing EXCEPT ![r] = NoRequest]
    BY <1>6 DEF File
  <2>3. /\ appeal' \in [Stops -> {NoAppeal} \cup AppealRow]
        /\ \A s \in Stops : appeal[s] # NoAppeal => appeal'[s] # NoAppeal
    <3> DEFINE row == [status |-> "PENDING", worker |-> filing[r].worker,
                       attempt |-> filing[r].attempt]
    <3>1. row \in AppealRow
      BY <2>1 DEF AppealRow, Filing
    <3>2. UNCHANGED appeal \/ appeal' = [appeal EXCEPT ![filing[r].stop] = row]
      BY <1>6 DEF File
    <3> HIDE DEF row
    <3> QED
      BY <2>1, <3>1, <3>2, StopRowsAreThere DEF AppealsTypeOK
  <2>4. notices' \in [Stops -> Nat]
    BY <1>6, <2>1, SMT DEF AppealsTypeOK, File, Announced
  <2> QED
    BY <1>6, <2>2, <2>3, <2>4 DEF AppealsTypeOK, File, record, Rows
<1>7. ASSUME NEW m \in Managers, NEW s \in Stops, Hear(m, s) PROVE AppealsTypeOK'
  <2> DEFINE h == [stop |-> s, copy |-> appeal[s].status]
  <2>1. h \in [stop : Stops, copy : {"PENDING", "ACCEPTED", "REJECTED"}] /\ appeal[h.stop] # NoAppeal
    BY <1>7 DEF AppealsTypeOK, Hear, AppealRow
  <2>2. hearing' = [hearing EXCEPT ![m] = h]
    BY <1>7 DEF Hear
  <2> HIDE DEF h
  <2> QED
    BY <1>7, <2>1, <2>2 DEF AppealsTypeOK, Hear, record, Rows
<1>8. ASSUME NEW m \in Managers, NEW verdict \in {"ACCEPTED", "REJECTED"}, Decide(m, verdict)
      PROVE  AppealsTypeOK'
  <2> DEFINE s == hearing[m].stop
  <2>1. s \in Stops /\ appeal[s] \in AppealRow
    BY <1>8 DEF AppealsTypeOK, Decide
  <2>2. /\ appeal' \in [Stops -> {NoAppeal} \cup AppealRow]
        /\ \A t \in Stops : appeal[t] # NoAppeal => appeal'[t] # NoAppeal
    <3>1. [appeal[s] EXCEPT !.status = verdict] \in AppealRow
      BY <2>1 DEF AppealRow
    <3>2. UNCHANGED appeal
             \/ appeal' = [appeal EXCEPT ![s] = [appeal[s] EXCEPT !.status = verdict]]
      BY <1>8, <2>1 DEF Decide, AppealsTypeOK
    <3> QED
      BY <2>1, <3>1, <3>2, StopRowsAreThere DEF AppealsTypeOK
  <2>3. executions' \subseteq [stop : Stops, worker : Workers, source : {"APP", "APPEAL"}]
    BY <1>8, <2>1 DEF AppealsTypeOK, Decide, AppealRow
  <2> QED
    BY <1>8, <2>2, <2>3 DEF AppealsTypeOK, Decide, Rows
<1> QED
  BY <1>1, <1>2, <1>3, <1>4, <1>5, <1>6, <1>7, <1>8 DEF AppealsNext
-----------------------------------------------------------------------------
(* The record *)

\* What a step does to the appeal of a stop: nothing, unless a filing is new or a decision finds
\* it PENDING.
LEMMA AppealsMove ==
    ASSUME AppealsTypeOK, [AppealsNext]_appealVars, NEW s \in Stops
    PROVE  \/ appeal'[s] = appeal[s]
           \/ appeal[s] = NoAppeal /\ appeal'[s].status = "PENDING"
           \/ appeal[s].status = "PENDING" /\ appeal'[s].status \in {"ACCEPTED", "REJECTED"}
<1>1. CASE UNCHANGED appeal
  BY <1>1
<1>2. ASSUME NEW r \in Filings, File(r), Answer(r) = "NEW"
      PROVE  appeal'[s] = appeal[s] \/ (appeal[s] = NoAppeal /\ appeal'[s].status = "PENDING")
  <2>1. appeal[filing[r].stop] = NoAppeal
    BY <1>2 DEF Answer, Refusal, RefusalCode
  <2>2. /\ \A t \in Stops : t # filing[r].stop => appeal'[t] = appeal[t]
        /\ filing[r].stop \in Stops => appeal'[filing[r].stop].status = "PENDING"
    BY <1>2 DEF File, AppealsTypeOK
  <2> QED
    BY <2>1, <2>2
<1>3. ASSUME NEW m \in Managers, NEW verdict \in {"ACCEPTED", "REJECTED"}, Decide(m, verdict),
             JudgedStatus(m) = "PENDING"
      PROVE  \/ appeal'[s] = appeal[s]
             \/ appeal[s].status = "PENDING" /\ appeal'[s].status \in {"ACCEPTED", "REJECTED"}
  <2> DEFINE t == hearing[m].stop
  <2>1. t \in Stops /\ appeal[t] \in AppealRow /\ appeal[t].status = "PENDING"
    BY <1>3 DEF AppealsTypeOK, Decide, JudgedStatus
  <2>2. /\ \A u \in Stops : u # t => appeal'[u] = appeal[u]
        /\ appeal'[t].status = verdict
    BY <1>3, <2>1 DEF Decide, AppealsTypeOK, AppealRow
  <2> QED
    BY <2>1, <2>2
<1> QED
  BY <1>1, <1>2, <1>3
     DEF AppealsNext, appealVars, TimePasses, HandOut, CheckInAt, CheckOutAt, ReleaseStop,
         BeginFiling, File, Hear, Decide

\* A stop gets an APPEAL execution in the step that accepts its appeal, and loses none.
LEMMA ExecutionsMove ==
    ASSUME AppealsTypeOK, [AppealsNext]_appealVars, NEW s \in Stops
    PROVE  LET credited    == \E e \in executions : e.stop = s /\ e.source = "APPEAL"
               creditedNow == \E e \in executions' : e.stop = s /\ e.source = "APPEAL"
           IN  creditedNow <=> credited \/ (appeal[s].status = "PENDING" /\ appeal'[s].status = "ACCEPTED")
<1> DEFINE credited    == \E e \in executions : e.stop = s /\ e.source = "APPEAL"
           creditedNow == \E e \in executions' : e.stop = s /\ e.source = "APPEAL"
           accepted    == appeal[s].status = "PENDING" /\ appeal'[s].status = "ACCEPTED"
<1>1. CASE UNCHANGED executions /\ UNCHANGED appeal
  BY <1>1
<1>2. ASSUME NEW t \in Stops, CheckInAt(t) PROVE creditedNow <=> credited \/ accepted
  BY <1>2 DEF CheckInAt
<1>3. ASSUME NEW r \in Filings, File(r), UNCHANGED executions
      PROVE  creditedNow <=> credited \/ accepted
  <2>1. appeal'[s] = appeal[s] \/ appeal'[s].status = "PENDING"
    BY <1>3 DEF File, AppealsTypeOK
  <2> QED
    BY <1>3, <2>1
<1>4. ASSUME NEW m \in Managers, NEW verdict \in {"ACCEPTED", "REJECTED"}, Decide(m, verdict),
             JudgedStatus(m) = "PENDING"
      PROVE  creditedNow <=> credited \/ accepted
  <2> DEFINE t == hearing[m].stop
  <2>1. t \in Stops /\ appeal[t] \in AppealRow /\ appeal[t].status = "PENDING"
    BY <1>4 DEF AppealsTypeOK, Decide, JudgedStatus
  <2>2. /\ \A u \in Stops : u # t => appeal'[u] = appeal[u]
        /\ appeal'[t].status = verdict
    BY <1>4, <2>1 DEF Decide, AppealsTypeOK, AppealRow
  <2>3. accepted <=> s = t /\ verdict = "ACCEPTED"
    BY <2>1, <2>2
  <2>4. executions' = IF verdict = "REJECTED" THEN executions ELSE executions \cup
                         {[stop |-> t, worker |-> appeal[t].worker, source |-> "APPEAL"]}
    BY <1>4 DEF Decide
  <2>5. CASE verdict = "REJECTED"
    <3>1. executions' = executions /\ ~accepted
      BY <2>3, <2>4, <2>5
    <3> QED
      BY <3>1
  <2>6. CASE verdict = "ACCEPTED"
    <3>1. executions' = executions \cup
              {[stop |-> t, worker |-> appeal[t].worker, source |-> "APPEAL"]}
      BY <2>4, <2>6
    <3>2. creditedNow <=> credited \/ s = t
      <4> DEFINE new == [stop |-> t, worker |-> appeal[t].worker, source |-> "APPEAL"]
      <4>1. new.stop = t /\ new.source = "APPEAL"
        OBVIOUS
      <4>2. \A e : e \in executions' <=> e \in executions \/ e = new
        BY <3>1
      <4> HIDE DEF new, t
      <4> QED
        BY <4>1, <4>2
    <3> QED
      BY <2>3, <2>6, <3>2
  <2> QED
    BY <2>5, <2>6
<1> QED
  BY <1>1, <1>2, <1>3, <1>4
     DEF AppealsNext, appealVars, record, TimePasses, HandOut, CheckOutAt, ReleaseStop,
         BeginFiling, File, Hear, Decide

\* The managers hear of a stop's appeal in the step that files it.
LEMMA NoticesMove ==
    ASSUME AppealsTypeOK, [AppealsNext]_appealVars, NEW s \in Stops
    PROVE  \/ notices'[s] = notices[s] /\ (appeal'[s] = NoAppeal <=> appeal[s] = NoAppeal)
           \/ notices'[s] = notices[s] + 1 /\ appeal[s] = NoAppeal /\ appeal'[s] # NoAppeal
<1>1. CASE UNCHANGED notices /\ UNCHANGED appeal
  BY <1>1
<1>2. ASSUME NEW r \in Filings, File(r), Answer(r) = "NEW"
      PROVE  \/ notices'[s] = notices[s] /\ appeal'[s] = appeal[s]
             \/ notices'[s] = notices[s] + 1 /\ appeal[s] = NoAppeal /\ appeal'[s] # NoAppeal
  <2>1. appeal[filing[r].stop] = NoAppeal
    BY <1>2 DEF Answer, Refusal, RefusalCode
  <2>2. CASE s = filing[r].stop
    <3>1. notices'[s] = notices[s] + 1
      BY <1>2, <2>2 DEF File, Announced, AppealsTypeOK
    <3>2. appeal'[s].status = "PENDING"
      BY <1>2, <2>2 DEF File, AppealsTypeOK
    <3> QED
      BY <2>1, <2>2, <3>1, <3>2 DEF NoAppeal
  <2>3. CASE s # filing[r].stop
    BY <1>2, <2>3 DEF File, Announced, AppealsTypeOK
  <2> QED
    BY <2>2, <2>3
<1>3. ASSUME NEW m \in Managers, NEW verdict \in {"ACCEPTED", "REJECTED"}, Decide(m, verdict)
      PROVE  notices'[s] = notices[s] /\ (appeal'[s] = NoAppeal <=> appeal[s] = NoAppeal)
  <2>1. appeal'[s] = appeal[s] \/ (appeal[s].status = "PENDING" /\ appeal'[s].status \in {"ACCEPTED", "REJECTED"})
    BY <1>3, AppealsMove DEF AppealsTypeOK, NoAppeal, Decide
  <2> QED
    BY <1>3, <2>1 DEF Decide, NoAppeal
<1> QED
  BY <1>1, <1>2, <1>3
     DEF AppealsNext, appealVars, TimePasses, HandOut, CheckInAt, CheckOutAt, ReleaseStop,
         BeginFiling, File, Hear, Decide

\* Who filed an appeal is not changed, and an accepted one is executed in their name.
LEMMA AppellantsStay ==
    ASSUME AppealsTypeOK, WonByAppellant, [AppealsNext]_appealVars
    PROVE  WonByAppellant'
<1> SUFFICES ASSUME NEW e \in executions', e.source = "APPEAL"
             PROVE  appeal'[e.stop] # NoAppeal /\ e.worker = appeal'[e.stop].worker
  BY DEF WonByAppellant
<1>1. ASSUME UNCHANGED appeal,
             \A x \in executions' : x.source = "APPEAL" => x \in executions
      PROVE  appeal'[e.stop] # NoAppeal /\ e.worker = appeal'[e.stop].worker
  BY <1>1 DEF WonByAppellant
<1>2. CASE UNCHANGED <<appeal, executions>>
  BY <1>1, <1>2
<1>3. ASSUME NEW t \in Stops, CheckInAt(t)
      PROVE  appeal'[e.stop] # NoAppeal /\ e.worker = appeal'[e.stop].worker
  BY <1>1, <1>3 DEF CheckInAt
<1>4. ASSUME NEW r \in Filings, File(r), Answer(r) = "NEW"
      PROVE  appeal'[e.stop] # NoAppeal /\ e.worker = appeal'[e.stop].worker
  <2>1. appeal[filing[r].stop] = NoAppeal
    BY <1>4 DEF Answer, Refusal, RefusalCode
  <2>2. e \in executions /\ e.stop # filing[r].stop
    BY <1>4, <2>1 DEF File, WonByAppellant, record
  <2>3. appeal'[e.stop] = appeal[e.stop]
    BY <1>4, <2>2 DEF File, AppealsTypeOK
  <2> QED
    BY <2>2, <2>3 DEF WonByAppellant
<1>5. ASSUME NEW m \in Managers, NEW verdict \in {"ACCEPTED", "REJECTED"}, Decide(m, verdict),
             JudgedStatus(m) = "PENDING"
      PROVE  appeal'[e.stop] # NoAppeal /\ e.worker = appeal'[e.stop].worker
  <2> DEFINE t == hearing[m].stop
             new == [stop |-> t, worker |-> appeal[t].worker, source |-> "APPEAL"]
  <2>1. t \in Stops /\ appeal[t] \in AppealRow
    BY <1>5 DEF AppealsTypeOK, Decide
  <2>2. /\ \A u \in Stops : u # t => appeal'[u] = appeal[u]
        /\ appeal'[t].worker = appeal[t].worker /\ appeal'[t].status = verdict
    BY <1>5, <2>1 DEF Decide, AppealsTypeOK, AppealRow
  <2>3. appeal'[t] # NoAppeal
    BY <2>2 DEF NoAppeal
  <2>4. e \in executions \/ e = new
    BY <1>5 DEF Decide
  <2>5. CASE e = new
    BY <2>2, <2>3, <2>5
  <2>6. CASE e \in executions
    <3>1. e.stop \in Stops /\ appeal[e.stop] # NoAppeal /\ e.worker = appeal[e.stop].worker
      BY <2>6 DEF WonByAppellant, AppealsTypeOK
    <3> HIDE DEF t
    <3> QED
      BY <2>2, <2>3, <3>1
  <2> QED
    BY <2>4, <2>5, <2>6
<1> QED
  BY <1>2, <1>3, <1>4, <1>5
     DEF AppealsNext, appealVars, record, TimePasses, HandOut, CheckOutAt, ReleaseStop,
         BeginFiling, File, Hear, Decide

\* Every step keeps the invariant.
LEMMA StepAppealInv == AppealInv /\ [AppealsNext]_appealVars => AppealInv'
<1> SUFFICES ASSUME AppealInv, [AppealsNext]_appealVars PROVE AppealInv'
  OBVIOUS
<1>1. AppealsTypeOK /\ AppealsTypeOK'
  BY AppealTypeStep DEF AppealInv
<1>2. VerdictDecidesExecution'
  <2> SUFFICES ASSUME NEW s \in Stops
               PROVE  (appeal'[s].status = "ACCEPTED")
                         <=> (\E e \in executions' : e.stop = s /\ e.source = "APPEAL")
    BY DEF VerdictDecidesExecution
  <2>1. (appeal[s].status = "ACCEPTED") <=> (\E e \in executions : e.stop = s /\ e.source = "APPEAL")
    BY DEF AppealInv, VerdictDecidesExecution
  <2> QED
    BY <1>1, <2>1, AppealsMove, ExecutionsMove DEF NoAppeal
<1>3. \A s \in Stops : notices'[s] = IF appeal'[s] = NoAppeal THEN 0 ELSE 1
  BY <1>1, NoticesMove, SMT DEF AppealInv, RetryIsReplayed
<1>4. \A r \in Filings : filing'[r] # NoRequest /\ IsReplay(r)' => Answer(r)' = "REPLAY"
  BY DEF Answer
<1> QED
  BY <1>1, <1>2, <1>3, <1>4, AppellantsStay DEF AppealInv, RetryIsReplayed

-----------------------------------------------------------------------------

LEMMA AppealInvariance == AppealsSpec => []AppealInv
<1>1. AppealInv /\ UNCHANGED appealVars => AppealInv'
  BY StepAppealInv
<1> QED
  BY InitAppealInv, StepAppealInv, PTL DEF AppealsSpec

\* However many requests are open, every variable keeps its type.
THEOREM AppealTypes == AppealsSpec => []AppealsTypeOK
  BY AppealInvariance, PTL DEF AppealInv

\* The worker has an APPEAL execution exactly when their appeal was accepted, whichever managers
\* decided it at once (accept_appeal, _lock_pending).
THEOREM VerdictsDecideExecutions == AppealsSpec => []VerdictDecidesExecution
  BY AppealInvariance, PTL DEF AppealInv

\* A stop is appealed once and announced once, and a retry gets the first answer (file_appeal).
THEOREM RetriesAreReplayed == AppealsSpec => []RetryIsReplayed
  BY AppealInvariance, PTL DEF AppealInv

\* A decided appeal never changes again (AlreadyReviewed).
THEOREM VerdictsAreFinal == AppealsSpec => VerdictIsFinal
<1>1. AppealInv /\ [AppealsNext]_appealVars =>
          [\A s \in Stops : appeal[s].status \in {"ACCEPTED", "REJECTED"} =>
               appeal'[s] = appeal[s]]_appealVars
  BY AppealsMove DEF AppealInv, NoAppeal
<1> QED
  BY <1>1, AppealInvariance, PTL DEF AppealsSpec, VerdictIsFinal

-----------------------------------------------------------------------------
(* What the app offers *)

\* The list of appealable stops, its query, a late scan and a filing apply one window.
LEMMA WindowsAgree == AppealsTypeOK => OfferedIsTaken
<1> SUFFICES ASSUME AppealsTypeOK, NEW w \in Workers
             PROVE  /\ AppealableStops(w) = {s \in Rows : Refusal(w, s, now) = "NONE"}
                    /\ \A s \in Rows : stop[s].owner = w /\ stop[s].status = "RELEASED" =>
                           (TooLate(s).appealable <=> s \in AppealableStops(w))
  BY DEF OfferedIsTaken
<1>1. ASSUME NEW s \in Rows, RefusalCode(s, now) = "NONE"
      PROVE  stop[s].status = "RELEASED" /\ stop[s].at + Window >= now
  <2>1. stop[s].status = "RELEASED" /\ ~(now > Deadline(s))
    BY <1>1, Zenon DEF RefusalCode
  <2>2. now \in Nat /\ Deadline(s) \in Nat
    BY AppealsAssumption, StopRowsAreThere, SMT DEF AppealsTypeOK, Rows, Deadline, StopRow
  <2> QED
    BY <2>1, <2>2, SMT DEF Deadline
<1>2. \A s \in Rows : Refusal(w, s, now) = "NONE" <=> stop[s].owner = w /\ RefusalCode(s, now) = "NONE"
  BY Zenon DEF Refusal
<1>3. \A s \in Rows : s \in AppealableStops(w) <=> stop[s].owner = w /\ RefusalCode(s, now) = "NONE"
  BY <1>1 DEF AppealableStops, IsAppealable
<1>4. AppealableStops(w) \subseteq Rows
  BY DEF AppealableStops
<1> QED
  BY <1>2, <1>3, <1>4 DEF TooLate, IsAppealable

\* A stop is offered as contestable exactly when a filing sent that moment would be taken.
THEOREM OffersAreTaken == AppealsSpec => []OfferedIsTaken
  BY AppealInvariance, WindowsAgree, PTL DEF AppealInv

-----------------------------------------------------------------------------
(* Point-days *)

\* Whoever served a point-day is credited with it.
LEMMA Credit == AppealInv => ServersAreCredited
<1> SUFFICES ASSUME AppealInv, NEW p \in Points, NEW day \in 0..Today, NEW w \in Workers
             PROVE  OutcomeFor(p, day, w) \in {"DONE", "DONE_BY_APPEAL"} <=>
                        \/ \E s \in DoneStops(p, day) : stop[s].owner = w
                        \/ \E row \in History(w, "APPEAL") : row.appeal \in StopsOf(p, day)
  BY DEF ServersAreCredited
<1>1. DoneBy(p, day, w) <=> \E s \in DoneStops(p, day) : stop[s].owner = w
  BY DEF DoneBy
<1>2. w \in AppealedBy(p, day) <=> \E row \in History(w, "APPEAL") : row.appeal \in StopsOf(p, day)
  <2>1. ASSUME NEW s \in WonAppeals(p, day), w = appeal[s].worker
        PROVE  \E row \in History(w, "APPEAL") : row.appeal \in StopsOf(p, day)
    <3>1. s \in Stops /\ s \in StopsOf(p, day) /\ appeal[s].status = "ACCEPTED"
      BY DEF WonAppeals, StopsOf, Rows
    <3>2. PICK e \in executions : e.stop = s /\ e.source = "APPEAL"
      BY <3>1 DEF AppealInv, VerdictDecidesExecution
    <3>3. e.worker = w
      BY <2>1, <3>2 DEF AppealInv, WonByAppellant
    <3>4. HistoryRow(e) \in History(w, "APPEAL")
      BY <3>2, <3>3 DEF History
    <3>5. HistoryRow(e).appeal = s
      BY <3>2 DEF HistoryRow
    <3> QED
      BY <3>1, <3>4, <3>5
  <2>2. ASSUME NEW row \in History(w, "APPEAL"), row.appeal \in StopsOf(p, day)
        PROVE  w \in AppealedBy(p, day)
    <3>1. PICK e \in executions : row = HistoryRow(e) /\ e.worker = w /\ e.source = "APPEAL"
      <4>1. PICK e \in executions :
              row = HistoryRow(e) /\ w \in {Anybody, e.worker} /\ "APPEAL" \in {"ANY", e.source}
        BY DEF History
      <4> QED
        BY <4>1, PointDaysAssumption
    <3>2. row.appeal = e.stop
      BY <3>1 DEF HistoryRow
    <3>3. e.stop \in Stops /\ appeal[e.stop].status = "ACCEPTED"
      BY <3>1 DEF AppealInv, AppealsTypeOK, VerdictDecidesExecution
    <3>4. e.worker = appeal[e.stop].worker
      BY <3>1 DEF AppealInv, WonByAppellant
    <3> QED
      BY <2>2, <3>1, <3>2, <3>3, <3>4 DEF AppealedBy, WonAppeals
  <2> QED
    BY <2>1, <2>2 DEF AppealedBy
<1>3. DoneBy(p, day, w) => Outcome(p, day) = "DONE"
  BY DEF DoneBy, Outcome
<1>4. w \in AppealedBy(p, day) => Outcome(p, day) # "UNSERVED"
  BY DEF AppealedBy, Outcome
<1> QED
  BY <1>1, <1>2, <1>3, <1>4 DEF OutcomeFor

\* A point is done, in a batch, or one of the free points of the board.
LEMMA PoolIsPartitioned ==
    /\ IsFiniteSet(Created) /\ IsFiniteSet(PoolDone) /\ IsFiniteSet(PoolInProgress)
    /\ PoolFree = Cardinality({p \in Created : ~Held(p, Today) /\ ~ServedOn(p, Today)})
    /\ UnservedTotal = Cardinality(PoolInProgress) + PoolFree
<1> DEFINE Unserved == {p \in Created : ~ServedOn(p, Today)}
           Free     == {p \in Created : ~Held(p, Today) /\ ~ServedOn(p, Today)}
<1>1. IsFiniteSet(Created)
  BY PointDaysAssumption, FS_Subset DEF Created
<1>2. Unserved = Created \ PoolDone /\ PoolDone = Created \cap PoolDone
  BY DEF PoolDone
<1>3. Free = Unserved \ PoolInProgress /\ PoolInProgress = Unserved \cap PoolInProgress
  <2>1. ASSUME NEW p \in Unserved PROVE Held(p, Today) <=> InABatch(p)
    BY DEF Held, InABatch, StopsOf, ServedOn, DoneStops
  <2> QED
    BY <2>1 DEF PoolInProgress
<1>4. /\ IsFiniteSet(PoolDone) /\ IsFiniteSet(Unserved) /\ IsFiniteSet(PoolInProgress)
  BY <1>1, FS_Subset DEF PoolDone, PoolInProgress
<1> HIDE DEF Unserved, Free
<1>5. Cardinality(Unserved) = Cardinality(Created) - Cardinality(PoolDone)
  BY <1>1, <1>2, FS_Difference
<1>6. Cardinality(Free) = Cardinality(Unserved) - Cardinality(PoolInProgress)
  <2>1. Cardinality(Unserved \ PoolInProgress) =
            Cardinality(Unserved) - Cardinality(Unserved \cap PoolInProgress)
    BY <1>4, FS_Difference
  <2> QED
    BY <1>3, <2>1, Zenon
<1>7. /\ Cardinality(Created) \in Nat /\ Cardinality(PoolDone) \in Nat
      /\ Cardinality(Unserved) \in Nat /\ Cardinality(PoolInProgress) \in Nat
  BY <1>1, <1>4, FS_CardinalityType
<1>8. PoolFree = Cardinality(Free) /\ Cardinality(Unserved) = Cardinality(PoolInProgress) + PoolFree
  BY <1>5, <1>6, <1>7, SMT DEF PoolFree
<1> QED
  BY <1>1, <1>4, <1>8 DEF Unserved, Free, UnservedTotal

\* The unserved point-days of today in the report are the day's unserved points, one for one.
LEMMA ReportCountsUnserved ==
    ASSUME AppealsTypeOK, Today \in ServiceDays
    PROVE  Counts({t \in Tallies(Anybody, "UNSERVED") : t.day = Today}).total =
           Cardinality({p \in Created : ~ServedOn(p, Today)})
<1> DEFINE Unserved == {p \in Created : ~ServedOn(p, Today)}
           Lines    == {t \in Tallies(Anybody, "UNSERVED") : t.day = Today}
           line     == [p \in Unserved |-> Tally(<<p, Today>>, Anybody)]
<1>1. IsFiniteSet(Unserved)
  BY PoolIsPartitioned, FS_Subset
<1>2. Today \in 0..Today
  BY DayOfMoment, SMT DEF AppealsTypeOK
<1>3. \A p, day : /\ Tally(<<p, day>>, Anybody).day = day /\ Tally(<<p, day>>, Anybody).point = p
                  /\ Tally(<<p, day>>, Anybody).outcome = Outcome(p, day)
  BY DEF Tally
<1>4. \A p, day : ServedOn(p, day) <=> Outcome(p, day) # "UNSERVED"
  BY DEF ServedOn, Outcome
<1>5. ASSUME NEW p \in Unserved PROVE Tally(<<p, Today>>, Anybody) \in Lines
  <2>1. <<p, Today>> \in PointDayRows(Anybody)
    BY <1>2 DEF PointDayRows, Created
  <2> QED
    BY <1>3, <1>4, <2>1 DEF Tallies
<1>6. ASSUME NEW t \in Lines PROVE \E p \in Unserved : t = Tally(<<p, Today>>, Anybody)
  <2>1. PICK row \in PointDayRows(Anybody) : t = Tally(row, Anybody)
    BY DEF Tallies
  <2>2. row = <<row[1], row[2]>> /\ row[1] \in Points /\ CreatedOn[row[1]] <= row[2]
    BY DEF PointDayRows
  <2>3. row[2] = Today /\ t.outcome = Outcome(row[1], Today)
    BY <1>3, <2>1, <2>2
  <2>4. t.outcome = "UNSERVED"
    BY DEF Tallies, AnyOutcome
  <2> QED
    BY <1>4, <2>1, <2>2, <2>3, <2>4 DEF Created
<1>7. line \in Bijection(Unserved, Lines)
  <2>1. line \in Injection(Unserved, Lines)
    <3>1. \A p \in Unserved : line[p].point = p
      BY <1>3
    <3>2. \A p, q \in Unserved : line[p] = line[q] => p = q
      BY <3>1, Zenon
    <3>3. line \in [Unserved -> Lines]
      BY <1>5
    <3> HIDE DEF line
    <3> QED
      BY <3>2, <3>3, Zenon DEF Injection, IsInjective
  <2>2. line \in Surjection(Unserved, Lines)
    BY <1>5, <1>6 DEF Surjection
  <2> QED
    BY <2>1, <2>2 DEF Bijection
<1>8. Cardinality(Lines) = Cardinality(Unserved)
  BY <1>1, <1>7, FS_Bijection DEF ExistsBijection
<1> HIDE DEF Lines, Unserved
<1>9. Counts(Lines).total = Cardinality(Lines)
  BY DEF Counts
<1> QED
  BY <1>8, <1>9 DEF Lines, Unserved

\* The board, the day-end alert and the report agree about what was not served today, and the
\* board about what the allocation can still hand out.
THEOREM ReadingsAgree == AppealsSpec => []CountsAgree
<1>1. AppealInv => CountsAgree
  BY PoolIsPartitioned, ReportCountsUnserved DEF AppealInv, CountsAgree
<1> QED
  BY AppealInvariance, <1>1, PTL

-----------------------------------------------------------------------------
(* Sums.  A fold over a finite set adds up what is counted for its members: *)
(* the recursion has one solution only, because the strict subsets of a    *)
(* finite set are well-founded.                                            *)

\* What is counted for the members of T.
CountedFor(E, key, T) == {e \in E : key[e] \in T}
Totals(E, key, S) == [T \in SUBSET S |-> Cardinality(CountedFor(E, key, T))]

\* The sums g of f over the subsets of S, member by member.
Adds(g, f, S) ==
    g = [T \in SUBSET S |-> IF T = {} THEN 0
                            ELSE f[CHOOSE x \in T : TRUE] + g[T \ {CHOOSE x \in T : TRUE}]]

LEMMA OneMoreMember ==
    ASSUME NEW S, NEW E, IsFiniteSet(E), NEW key \in [E -> S], NEW T \in SUBSET S, NEW x \in T
    PROVE  Cardinality(CountedFor(E, key, T)) =
               Cardinality(CountedFor(E, key, {x})) + Cardinality(CountedFor(E, key, T \ {x}))
<1> DEFINE One  == CountedFor(E, key, {x})
           Rest == CountedFor(E, key, T \ {x})
<1>1. IsFiniteSet(One) /\ IsFiniteSet(Rest)
  BY FS_Subset DEF CountedFor
<1>2. CountedFor(E, key, T) = One \cup Rest /\ One \cap Rest = {}
  BY DEF CountedFor
<1> HIDE DEF One, Rest
<1>3. Cardinality(One \cup Rest) = Cardinality(One) + Cardinality(Rest) - Cardinality(One \cap Rest)
  BY <1>1, FS_Union
<1>4. Cardinality(One) \in Nat /\ Cardinality(Rest) \in Nat /\ Cardinality({}) = 0
  BY <1>1, FS_CardinalityType, FS_EmptySet
<1>5. Cardinality(CountedFor(E, key, T)) = Cardinality(One) + Cardinality(Rest) - Cardinality({})
  BY <1>2, <1>3
<1>6. Cardinality(CountedFor(E, key, T)) = Cardinality(One) + Cardinality(Rest)
  BY <1>4, <1>5
<1> QED
  BY <1>6 DEF One, Rest

\* The totals add up,
LEMMA TotalsAdd ==
    ASSUME NEW S, NEW E, IsFiniteSet(E), NEW key \in [E -> S], NEW f,
           \A x \in S : f[x] = Cardinality(CountedFor(E, key, {x}))
    PROVE  Adds(Totals(E, key, S), f, S)
<1> DEFINE n == Totals(E, key, S)
           pick(T) == CHOOSE x \in T : TRUE
<1>1. ASSUME NEW T \in SUBSET S, T = {} PROVE n[T] = 0
  BY <1>1, FS_EmptySet DEF CountedFor, Totals
<1>2. ASSUME NEW T \in SUBSET S, T # {} PROVE n[T] = f[pick(T)] + n[T \ {pick(T)}]
  <2>1. pick(T) \in T
    BY <1>2
  <2> HIDE DEF pick
  <2>2. T \ {pick(T)} \in SUBSET S /\ pick(T) \in S
    BY <2>1
  <2>3. /\ n[T] = Cardinality(CountedFor(E, key, T))
        /\ n[T \ {pick(T)}] = Cardinality(CountedFor(E, key, T \ {pick(T)}))
        /\ f[pick(T)] = Cardinality(CountedFor(E, key, {pick(T)}))
    BY <2>2 DEF Totals
  <2> HIDE DEF n
  <2> QED
    BY <2>1, <2>3, OneMoreMember
<1>3. n = [T \in SUBSET S |-> n[T]]
  BY DEF Totals
<1>4. n = [T \in SUBSET S |-> IF T = {} THEN 0 ELSE f[pick(T)] + n[T \ {pick(T)}]]
  <2> HIDE DEF pick, n
  <2> QED
    BY <1>1, <1>2, <1>3
<1> QED
  BY <1>4 DEF Adds

\* and nothing else does: a smallest set with another sum would have a smaller one.
LEMMA OnlyTotalsAdd ==
    ASSUME NEW S, IsFiniteSet(S), NEW E, IsFiniteSet(E), NEW key \in [E -> S], NEW f,
           \A x \in S : f[x] = Cardinality(CountedFor(E, key, {x}))
    PROVE  \A g : Adds(g, f, S) => g = Totals(E, key, S)
<1> SUFFICES ASSUME NEW g, Adds(g, f, S) PROVE g = Totals(E, key, S)
  OBVIOUS
<1> DEFINE n(T) == Cardinality(CountedFor(E, key, T))
           pick(T) == CHOOSE x \in T : TRUE
           Wrong == {T \in SUBSET S : g[T] # n(T)}
<1>1. Wrong = {}
  <2> SUFFICES ASSUME Wrong # {} PROVE FALSE
    OBVIOUS
  <2>1. IsWellFoundedOn(StrictSubsetOrdering(S), SUBSET S)
    BY FS_StrictSubsetOrderingWellFounded, FS_FiniteSubsetsOfFinite
  <2>2. PICK T \in Wrong : \A U \in Wrong : <<U, T>> \notin StrictSubsetOrdering(S)
    <3>1. Wrong \subseteq SUBSET S
      OBVIOUS
    <3> HIDE DEF Wrong
    <3> QED
      BY <2>1, <3>1, WFMin
  <2>3. T # {}
    <3>1. n({}) = 0
      BY FS_EmptySet DEF CountedFor
    <3>2. g[{}] = 0
      BY DEF Adds
    <3> QED
      BY <3>1, <3>2
  <2>4. pick(T) \in T
    BY <2>3
  <2>5. g[T] = f[pick(T)] + g[T \ {pick(T)}]
    BY <2>3 DEF Adds
  <2> HIDE DEF pick
  <2>6. T \ {pick(T)} \in SUBSET S /\ pick(T) \in S /\ T \in SUBSET S
    BY <2>4
  <2>7. <<T \ {pick(T)}, T>> \in StrictSubsetOrdering(S)
    BY <2>4, <2>6 DEF StrictSubsetOrdering
  <2>8. g[T \ {pick(T)}] = n(T \ {pick(T)})
    BY <2>2, <2>6, <2>7
  <2>9. n(T) = f[pick(T)] + n(T \ {pick(T)})
    <3>1. f[pick(T)] = Cardinality(CountedFor(E, key, {pick(T)}))
      BY <2>6
    <3> QED
      BY <2>4, <2>6, <3>1, OneMoreMember
  <2> QED
    BY <2>5, <2>8, <2>9
<1>2. g = [T \in SUBSET S |-> g[T]]
  BY DEF Adds
<1> QED
  BY <1>1, <1>2 DEF Totals

LEMMA TotalsAreTheSum ==
    ASSUME NEW S, IsFiniteSet(S), NEW E, IsFiniteSet(E), NEW key \in [E -> S], NEW f,
           \A x \in S : f[x] = Cardinality(CountedFor(E, key, {x}))
    PROVE  \A g : Adds(g, f, S) <=> g = Totals(E, key, S)
<1>1. Adds(Totals(E, key, S), f, S)
  BY TotalsAdd
<1>2. \A g : Adds(g, f, S) => g = Totals(E, key, S)
  BY OnlyTotalsAdd
<1> QED
  BY <1>1, <1>2

LEMMA TotalOfAll ==
    ASSUME NEW S, NEW E, NEW key \in [E -> S]
    PROVE  Totals(E, key, S)[S] = Cardinality(E)
<1>1. CountedFor(E, key, S) = E
  BY DEF CountedFor
<1> QED
  BY <1>1 DEF Totals

\* So the executions of the tallies in S are those counted for them,
LEMMA ExecutionsAddUp ==
    ASSUME NEW S, IsFiniteSet(S), NEW E, IsFiniteSet(E), NEW key \in [E -> S],
           \A t \in S : t.executions = Cardinality(CountedFor(E, key, {t}))
    PROVE  MapThenSumSet(LAMBDA t : t.executions, S) = Cardinality(E)
<1> DEFINE f == [t \in S |-> t.executions]
           Rec(g) == g = [T \in SUBSET S |-> IF T = {} THEN 0
                              ELSE (CHOOSE x \in T : TRUE).executions + g[T \ {CHOOSE x \in T : TRUE}]]
           h == CHOOSE g : Rec(g)
<1>1. MapThenSumSet(LAMBDA t : t.executions, S) = h[S]
  BY DEF MapThenSumSet, MapThenFoldSet
<1>2. \A g : Rec(g) <=> Adds(g, f, S)
  <2>1. \A T \in SUBSET S : T # {} => f[CHOOSE x \in T : TRUE] = (CHOOSE x \in T : TRUE).executions
    OBVIOUS
  <2> QED
    BY <2>1 DEF Adds
<1>3. \A t \in S : f[t] = Cardinality(CountedFor(E, key, {t}))
  OBVIOUS
<1> HIDE DEF f, Rec
<1>4. \A g : Adds(g, f, S) <=> g = Totals(E, key, S)
  BY <1>3, TotalsAreTheSum
<1>5. h = Totals(E, key, S)
  BY <1>2, <1>4
<1> HIDE DEF h
<1> QED
  BY <1>1, <1>5, TotalOfAll

\* those of the workers' own reports are those counted for the workers,
LEMMA WorkersAddUp ==
    ASSUME NEW E, IsFiniteSet(E), NEW key \in [E -> Workers],
           \A w \in Workers : Counts(Tallies(w, AnyOutcome)).executions =
                              Cardinality(CountedFor(E, key, {w}))
    PROVE  MapThenSumSet(LAMBDA w : Counts(Tallies(w, AnyOutcome)).executions, Workers) = Cardinality(E)
<1> DEFINE own(w) == Counts(Tallies(w, AnyOutcome)).executions
           f == [w \in Workers |-> own(w)]
           Rec(g) == g = [T \in SUBSET Workers |-> IF T = {} THEN 0
                              ELSE own(CHOOSE x \in T : TRUE) + g[T \ {CHOOSE x \in T : TRUE}]]
           h == CHOOSE g : Rec(g)
<1>1. MapThenSumSet(LAMBDA w : Counts(Tallies(w, AnyOutcome)).executions, Workers) = h[Workers]
  BY DEF MapThenSumSet, MapThenFoldSet
<1>2. \A w \in Workers : f[w] = Cardinality(CountedFor(E, key, {w}))
  OBVIOUS
<1> HIDE DEF own
<1>3. \A g : Rec(g) <=> Adds(g, f, Workers)
  <2>1. \A T \in SUBSET Workers : T # {} => f[CHOOSE x \in T : TRUE] = own(CHOOSE x \in T : TRUE)
    OBVIOUS
  <2> QED
    BY <2>1 DEF Adds
<1> HIDE DEF f, Rec
<1>4. \A g : Adds(g, f, Workers) <=> g = Totals(E, key, Workers)
  BY <1>2, TotalsAreTheSum, PointDaysAssumption
<1>5. h = Totals(E, key, Workers)
  BY <1>3, <1>4
<1> HIDE DEF h
<1> QED
  BY <1>1, <1>5, TotalOfAll

\* and a number of a report is what its periods count.
LEMMA PeriodsAddUp ==
    ASSUME NEW periods, NEW n, IsFiniteSet(DOMAIN periods),
           NEW E, IsFiniteSet(E), NEW key \in [E -> DOMAIN periods],
           \A b \in DOMAIN periods : periods[b][n] = Cardinality(CountedFor(E, key, {b}))
    PROVE  OverPeriods(periods, n) = Cardinality(E)
<1> DEFINE S == DOMAIN periods
           f == [b \in S |-> periods[b][n]]
           Rec(g) == g = [T \in SUBSET S |-> IF T = {} THEN 0
                              ELSE periods[CHOOSE x \in T : TRUE][n] + g[T \ {CHOOSE x \in T : TRUE}]]
           h == CHOOSE g : Rec(g)
<1>1. OverPeriods(periods, n) = h[S]
  BY DEF OverPeriods, MapThenSumSet, MapThenFoldSet
<1>2. \A b \in S : f[b] = Cardinality(CountedFor(E, key, {b}))
  OBVIOUS
<1> HIDE DEF S
<1>3. \A g : Rec(g) <=> Adds(g, f, S)
  <2>1. \A T \in SUBSET S : T # {} => f[CHOOSE x \in T : TRUE] = periods[CHOOSE x \in T : TRUE][n]
    OBVIOUS
  <2> QED
    BY <2>1 DEF Adds
<1> HIDE DEF f, Rec
<1>4. \A g : Adds(g, f, S) <=> g = Totals(E, key, S)
  BY <1>2, TotalsAreTheSum DEF S
<1>5. h = Totals(E, key, S)
  BY <1>3, <1>4
<1> HIDE DEF h
<1> QED
  BY <1>1, <1>5, TotalOfAll DEF S

-----------------------------------------------------------------------------
(* Whose record it is *)

\* Executions and appeals are of the worker the stop was handed to, on a day the point was there.
OwnersMatch ==
    /\ IsFiniteSet(executions)
    /\ \A s \in Rows : CreatedOn[stop[s].point] <= stop[s].day /\ stop[s].day <= Today
    /\ \A s \in Stops : appeal[s] # NoAppeal => s \in Rows /\ appeal[s].worker = stop[s].owner
    /\ \A e \in executions : e.stop \in Rows /\ e.worker = stop[e.stop].owner

\* A row keeps its point, day and owner, and is of the day it was made.
LEMMA RowsStand ==
    ASSUME AppealsTypeOK, [AppealsNext]_appealVars
    PROVE  /\ Today <= Today'
           /\ \A s \in Rows : /\ s \in Rows' /\ stop'[s].point = stop[s].point
                              /\ stop'[s].day = stop[s].day /\ stop'[s].owner = stop[s].owner
           /\ \A s \in Rows' \ Rows : stop'[s].day = Today /\ CreatedOn[stop'[s].point] <= Today
<1>1. CASE UNCHANGED stop /\ UNCHANGED now
  <2>1. Rows' = Rows /\ Today' = Today
    BY <1>1 DEF Rows, Today
  <2>2. Today \in 0..MaxTime
    BY DayOfMoment DEF AppealsTypeOK
  <2> QED
    BY <1>1, <2>1, <2>2
<1>2. CASE TimePasses
  <2>1. Rows' = Rows /\ stop' = stop
    BY <1>2 DEF TimePasses, record, Rows
  <2>2. Today <= Today'
    BY <1>2, AppealsAssumption, SMT DEF TimePasses, Today, AppealsTypeOK
  <2> QED
    BY <2>1, <2>2
<1>3. ASSUME NEW s \in Stops, NEW p \in Points, NEW w \in Workers, HandOut(s, p, w)
      PROVE  /\ now' = now /\ s \notin Rows
             /\ stop' = [stop EXCEPT ![s] = [status |-> "PENDING", point |-> p, owner |-> w,
                                             day |-> Today, reason |-> "NONE", at |-> 0]]
             /\ CreatedOn[p] <= Today
  BY <1>3 DEF HandOut, Rows
<1>4. ASSUME NEW s \in Stops, CheckInAt(s) \/ CheckOutAt(s) \/ \E reason \in Reasons : ReleaseStop(s, reason)
      PROVE  /\ now' = now /\ s \in Rows
             /\ \E row \in StopRow : /\ stop' = [stop EXCEPT ![s] = row]
                                     /\ row.point = stop[s].point /\ row.day = stop[s].day
                                     /\ row.owner = stop[s].owner
  <2>1. s \in Rows /\ stop[s] \in StopRow
    <3>1. stop[s].status # "NONE"
      BY <1>4 DEF CheckInAt, CheckOutAt, ReleaseStop, Live
    <3> QED
      BY <3>1 DEF AppealsTypeOK, Rows, NoStop
  <2>2. CASE CheckInAt(s)
    <3>1. [stop[s] EXCEPT !.status = "IN_PROGRESS"] \in StopRow
      BY <2>1 DEF StopRow, Live
    <3> QED
      BY <2>1, <2>2, <3>1 DEF CheckInAt, StopRow, AppealsTypeOK
  <2>3. CASE CheckOutAt(s)
    <3>1. [stop[s] EXCEPT !.status = "DONE"] \in StopRow
      BY <2>1 DEF StopRow, Live
    <3> QED
      BY <2>1, <2>3, <3>1 DEF CheckOutAt, StopRow, AppealsTypeOK
  <2>4. ASSUME NEW reason \in Reasons, ReleaseStop(s, reason)
        PROVE  /\ now' = now
               /\ \E row \in StopRow : /\ stop' = [stop EXCEPT ![s] = row]
                                       /\ row.point = stop[s].point /\ row.day = stop[s].day
                                       /\ row.owner = stop[s].owner
    <3>1. [stop[s] EXCEPT !.status = "RELEASED", !.reason = reason, !.at = now] \in StopRow
      BY <2>1 DEF StopRow, Live, AppealsTypeOK
    <3> QED
      BY <2>1, <2>4, <3>1 DEF ReleaseStop, StopRow, AppealsTypeOK
  <2> QED
    BY <1>4, <2>1, <2>2, <2>3, <2>4 DEF CheckInAt, CheckOutAt
<1>5. CASE \E s \in Stops, p \in Points, w \in Workers : HandOut(s, p, w)
  <2>1. PICK s \in Stops, p \in Points, w \in Workers : HandOut(s, p, w)
    BY <1>5
  <2>2. Today' = Today /\ Today \in 0..MaxTime
    BY <1>3, <2>1, DayOfMoment DEF Today, AppealsTypeOK
  <2>3. \A r \in Rows : r # s /\ stop'[r] = stop[r]
    BY <1>3, <2>1 DEF AppealsTypeOK, Rows
  <2>4. /\ \A r \in Rows' \ Rows : r = s
        /\ Rows \subseteq Rows' /\ stop'[s].day = Today /\ stop'[s].point = p
    BY <1>3, <2>1, <2>3 DEF AppealsTypeOK, Rows
  <2> QED
    BY <1>3, <2>1, <2>2, <2>3, <2>4
<1>6. CASE \E s \in Stops : CheckInAt(s) \/ CheckOutAt(s) \/ \E reason \in Reasons : ReleaseStop(s, reason)
  <2>1. PICK s \in Stops : CheckInAt(s) \/ CheckOutAt(s) \/ \E reason \in Reasons : ReleaseStop(s, reason)
    BY <1>6
  <2>2. PICK row \in StopRow : /\ stop' = [stop EXCEPT ![s] = row]
                               /\ row.point = stop[s].point /\ row.day = stop[s].day
                               /\ row.owner = stop[s].owner
    BY <1>4, <2>1
  <2>3. Today' = Today /\ Today \in 0..MaxTime
    BY <1>4, <2>1, DayOfMoment DEF Today, AppealsTypeOK
  <2>4. Rows' = Rows
    <3>1. row # NoStop /\ s \in Rows
      BY <1>4, <2>1, StopRowsAreThere
    <3> QED
      BY <2>2, <3>1 DEF AppealsTypeOK, Rows
  <2>5. \A r \in Rows : /\ stop'[r].point = stop[r].point /\ stop'[r].day = stop[r].day
                        /\ stop'[r].owner = stop[r].owner
    BY <2>2 DEF AppealsTypeOK, Rows
  <2> QED
    BY <2>3, <2>4, <2>5
<1> QED
  BY <1>1, <1>2, <1>5, <1>6
     DEF AppealsNext, appealVars, record, BeginFiling, File, Hear, Decide

LEMMA OwnersKept ==
    ASSUME AppealsTypeOK, AppealsTypeOK', OwnersMatch, [AppealsNext]_appealVars
    PROVE  OwnersMatch'
<1>1. \A s \in Rows' : CreatedOn[stop'[s].point] <= stop'[s].day /\ stop'[s].day <= Today'
  <2>1. Today \in Nat /\ Today' \in Nat /\ \A s \in Rows' : stop'[s].day \in Nat
    <3>1. now' \in 0..MaxTime /\ Today' = now' \div DayLength
      BY DEF AppealsTypeOK, Today
    <3>2. Today' \in Nat
      BY <3>1, DayOfTick
    <3> QED
      BY <3>2, DayOfMoment, StopRowsAreThere DEF AppealsTypeOK, Rows, StopRow
  <2>2. ASSUME NEW s \in Rows PROVE CreatedOn[stop'[s].point] <= stop'[s].day /\ stop'[s].day <= Today'
    BY <2>1, RowsStand, SMT DEF OwnersMatch
  <2>3. ASSUME NEW s \in Rows' \ Rows
        PROVE  CreatedOn[stop'[s].point] <= stop'[s].day /\ stop'[s].day <= Today'
    BY RowsStand
  <2> QED
    BY <2>2, <2>3
<1>2. \A s \in Stops : appeal'[s] # NoAppeal => s \in Rows' /\ appeal'[s].worker = stop'[s].owner
  <2>1. ASSUME NEW s \in Stops, appeal'[s] # NoAppeal, appeal[s] # NoAppeal => appeal'[s].worker = appeal[s].worker,
               appeal[s] # NoAppeal
        PROVE  s \in Rows' /\ appeal'[s].worker = stop'[s].owner
    BY <2>1, RowsStand DEF OwnersMatch
  <2>2. ASSUME NEW r \in Filings, File(r), Answer(r) = "NEW"
        PROVE  /\ filing[r].stop \in Rows /\ stop[filing[r].stop].owner = filing[r].worker
               /\ appeal' = [appeal EXCEPT ![filing[r].stop] = [status |-> "PENDING",
                                worker |-> filing[r].worker, attempt |-> filing[r].attempt]]
    <3>1. Refusal(filing[r].worker, filing[r].stop, filing[r].at) = "NONE"
      <4>1. Refusal(filing[r].worker, filing[r].stop, filing[r].at) # "NEW"
        BY Zenon DEF Refusal, RefusalCode
      <4> QED
        BY <2>2, <4>1, Zenon DEF Answer
    <3>2. stop[filing[r].stop].owner = filing[r].worker
      BY <3>1, Zenon DEF Refusal
    <3> QED
      BY <2>2, <3>2 DEF File, AppealsTypeOK
  <2>3. ASSUME NEW m \in Managers, NEW verdict \in {"ACCEPTED", "REJECTED"}, Decide(m, verdict), NEW s \in Stops
        PROVE  appeal'[s] # NoAppeal => appeal[s] # NoAppeal /\ appeal'[s].worker = appeal[s].worker
    BY <2>3 DEF Decide, AppealsTypeOK, AppealRow, NoAppeal
  <2>4. ASSUME NEW s \in Stops, appeal'[s] # NoAppeal
        PROVE  \/ appeal[s] # NoAppeal /\ appeal'[s].worker = appeal[s].worker
               \/ s \in Rows /\ appeal'[s].worker = stop[s].owner
    <3>1. CASE UNCHANGED appeal
      BY <2>4, <3>1
    <3>2. ASSUME NEW r \in Filings, File(r)
          PROVE  \/ appeal[s] # NoAppeal /\ appeal'[s].worker = appeal[s].worker
                 \/ s \in Rows /\ appeal'[s].worker = stop[s].owner
      <4>1. CASE Answer(r) = "NEW"
        <5> DEFINE row == [status |-> "PENDING", worker |-> filing[r].worker,
                           attempt |-> filing[r].attempt]
        <5>1. /\ filing[r].stop \in Rows /\ stop[filing[r].stop].owner = filing[r].worker
              /\ appeal' = [appeal EXCEPT ![filing[r].stop] = row] /\ row.worker = filing[r].worker
          BY <2>2, <3>2, <4>1
        <5>2. appeal \in [Stops -> {NoAppeal} \cup AppealRow]
          BY DEF AppealsTypeOK
        <5> HIDE DEF row
        <5>3. \A x \in Stops : appeal'[x] = IF x = filing[r].stop THEN row ELSE appeal[x]
          BY <5>1, <5>2
        <5>4. CASE s = filing[r].stop
          BY <5>1, <5>3, <5>4
        <5>5. CASE s # filing[r].stop
          BY <2>4, <5>3, <5>5
        <5> QED
          BY <5>4, <5>5
      <4>2. CASE Answer(r) # "NEW"
        BY <2>4, <3>2, <4>2 DEF File
      <4> QED
        BY <4>1, <4>2
    <3> QED
      BY <2>3, <2>4, <3>1, <3>2
         DEF AppealsNext, appealVars, record, TimePasses, HandOut, CheckInAt, CheckOutAt, ReleaseStop,
             BeginFiling, Hear
  <2> QED
    BY <2>1, <2>4, RowsStand
<1>3. ASSUME NEW e, e.stop \in Rows, e.worker = stop[e.stop].owner
      PROVE  e.stop \in Rows' /\ e.worker = stop'[e.stop].owner
  BY <1>3, RowsStand
<1>4. \/ executions' = executions
      \/ \E e : executions' = executions \cup {e} /\ e.stop \in Rows /\ e.worker = stop[e.stop].owner
  <2>1. ASSUME NEW s \in Stops, CheckInAt(s)
        PROVE  \E e : executions' = executions \cup {e} /\ e.stop \in Rows /\ e.worker = stop[e.stop].owner
    <3>1. s \in Rows
      BY <2>1 DEF CheckInAt, Rows, NoStop
    <3> WITNESS [stop |-> s, worker |-> stop[s].owner, source |-> "APP"]
    <3> QED
      BY <2>1, <3>1 DEF CheckInAt
  <2>2. ASSUME NEW m \in Managers, NEW verdict \in {"ACCEPTED", "REJECTED"}, Decide(m, verdict)
        PROVE  \/ executions' = executions
               \/ \E e : executions' = executions \cup {e} /\ e.stop \in Rows /\ e.worker = stop[e.stop].owner
    <3> DEFINE e == [stop |-> hearing[m].stop, worker |-> appeal[hearing[m].stop].worker, source |-> "APPEAL"]
    <3>1. hearing[m].stop \in Stops /\ appeal[hearing[m].stop] # NoAppeal
      BY <2>2 DEF Decide, AppealsTypeOK, NoRequest
    <3>2. e.stop \in Rows /\ e.worker = stop[e.stop].owner
      BY <3>1 DEF OwnersMatch
    <3>3. executions' = executions \/ executions' = executions \cup {e}
      BY <2>2 DEF Decide
    <3> QED
      BY <3>2, <3>3
  <2> QED
    BY <2>1, <2>2
       DEF AppealsNext, appealVars, record, TimePasses, HandOut, CheckOutAt, ReleaseStop, BeginFiling, File, Hear
<1>5. IsFiniteSet(executions') /\ \A e \in executions' : e.stop \in Rows' /\ e.worker = stop'[e.stop].owner
  BY <1>3, <1>4, FS_AddElement DEF OwnersMatch
<1> QED
  BY <1>1, <1>2, <1>5 DEF OwnersMatch

LEMMA OwnersAlwaysMatch == AppealsSpec => []OwnersMatch
<1>1. AppealsInit => OwnersMatch
  BY FS_EmptySet DEF AppealsInit, OwnersMatch, Rows
<1>2. AppealsTypeOK /\ AppealsTypeOK' /\ OwnersMatch /\ [AppealsNext]_appealVars => OwnersMatch'
  BY OwnersKept
<1> QED
  BY <1>1, <1>2, AppealTypes, PTL DEF AppealsSpec

-----------------------------------------------------------------------------
(* The numbers of the report *)

RowOf(e)     == <<stop[e.stop].point, stop[e.stop].day>>
ReportedOf(w) == {e \in executions : stop[e.stop].day \in ServiceDays /\ w \in {Anybody, e.worker}}
LineOf(e, w) == Tally(RowOf(e), w)
Readers      == Workers \cup {Anybody}

\* Every execution of a service day is in one row of its worker's report, and of the whole one.
LEMMA RowsOfExecutions ==
    ASSUME AppealsTypeOK, OwnersMatch, NEW w \in Readers
    PROVE  /\ IsFiniteSet(ReportedOf(w)) /\ IsFiniteSet(PointDayRows(w))
           /\ \A e \in ReportedOf(w) : RowOf(e) \in PointDayRows(w)
           /\ \A row \in PointDayRows(w) :
                  ExecutionsOf(row[1], row[2], w) = {e \in ReportedOf(w) : RowOf(e) = row}
<1>1. IsFiniteSet(ReportedOf(w))
  BY FS_Subset DEF ReportedOf, OwnersMatch
<1>2. Today \in 0..MaxTime
  BY DayOfMoment DEF AppealsTypeOK
<1>3. IsFiniteSet(PointDayRows(w))
  <2>1. IsFiniteSet(0..Today)
    BY <1>2, FS_Interval, AppealsAssumption
  <2>2. IsFiniteSet(ServiceDays \cap 0..Today)
    BY <2>1, FS_Intersection
  <2>3. IsFiniteSet(Points \X (ServiceDays \cap 0..Today))
    BY <2>2, FS_Product, PointDaysAssumption
  <2>4. PointDayRows(w) \in SUBSET (Points \X (ServiceDays \cap 0..Today))
    BY DEF PointDayRows
  <2> QED
    BY <2>3, <2>4, FS_Subset
<1>4. ASSUME NEW e \in executions
      PROVE  /\ e.stop \in Rows /\ stop[e.stop].point \in Points /\ stop[e.stop].day \in 0..Today
             /\ CreatedOn[stop[e.stop].point] <= stop[e.stop].day /\ e.worker = stop[e.stop].owner
  <2>1. e.stop \in Rows /\ e.worker = stop[e.stop].owner
    BY DEF OwnersMatch
  <2>2. stop[e.stop] \in StopRow
    BY <2>1 DEF AppealsTypeOK, Rows
  <2>3. stop[e.stop].day \in Nat /\ stop[e.stop].day <= Today
    BY <2>1, <2>2, AppealsAssumption DEF OwnersMatch, StopRow
  <2> QED
    BY <1>2, <2>1, <2>2, <2>3 DEF OwnersMatch, StopRow
<1>5. ASSUME NEW e \in ReportedOf(w) PROVE RowOf(e) \in PointDayRows(w)
  <2>1. /\ e \in executions /\ stop[e.stop].day \in ServiceDays /\ w \in {Anybody, e.worker}
    BY DEF ReportedOf
  <2>2. e.stop \in StopsOf(stop[e.stop].point, stop[e.stop].day)
    BY <1>4, <2>1 DEF StopsOf
  <2>3. w # Anybody => w \in Holders(stop[e.stop].point, stop[e.stop].day)
    BY <1>4, <2>1, <2>2 DEF Holders
  <2> QED
    BY <1>4, <2>1, <2>3 DEF PointDayRows, RowOf
<1>6. ASSUME NEW row \in PointDayRows(w)
      PROVE  ExecutionsOf(row[1], row[2], w) = {e \in ReportedOf(w) : RowOf(e) = row}
  <2>1. row = <<row[1], row[2]>> /\ row[2] \in ServiceDays
    BY DEF PointDayRows
  <2>2. ASSUME NEW e \in executions PROVE e.stop \in StopsOf(row[1], row[2]) <=> RowOf(e) = row
    BY <1>4, <2>1 DEF StopsOf, RowOf
  <2>3. ASSUME NEW e \in executions
        PROVE  e \in ExecutionsOf(row[1], row[2], w) <=> e \in ReportedOf(w) /\ RowOf(e) = row
    <3>1. RowOf(e) = row => stop[e.stop].day \in ServiceDays
      BY <2>1 DEF RowOf
    <3> QED
      BY <2>2, <3>1 DEF ExecutionsOf, ReportedOf
  <2> QED
    BY <2>3 DEF ExecutionsOf, ReportedOf
<1> QED
  BY <1>1, <1>3, <1>5, <1>6

LEMMA LinesOfRows ==
    ASSUME NEW w, NEW q \in PointDayRows(w), NEW r \in PointDayRows(w), Tally(q, w) = Tally(r, w)
    PROVE  q = r
<1>1. \A row : Tally(row, w).point = row[1] /\ Tally(row, w).day = row[2]
  BY DEF Tally
<1>2. q = <<q[1], q[2]>> /\ r = <<r[1], r[2]>>
  BY DEF PointDayRows
<1>3. q[1] = r[1] /\ q[2] = r[2]
  BY <1>1
<1> QED
  BY <1>2, <1>3, Zenon

\* The executions of some lines of a report are those of their rows.
LEMMA LinesCount ==
    ASSUME AppealsTypeOK, OwnersMatch, NEW w \in Readers, NEW S \in SUBSET Tallies(w, AnyOutcome)
    PROVE  /\ IsFiniteSet(S)
           /\ Counts(S).executions = Cardinality({e \in ReportedOf(w) : LineOf(e, w) \in S})
<1> DEFINE E   == {e \in ReportedOf(w) : LineOf(e, w) \in S}
           key == [e \in E |-> LineOf(e, w)]
           line == [row \in PointDayRows(w) |-> Tally(row, w)]
<1>1. IsFiniteSet(E) /\ key \in [E -> S]
  BY RowsOfExecutions, FS_Subset
<1>2. IsFiniteSet(S)
  <2>1. line \in Surjection(PointDayRows(w), {Tally(row, w) : row \in PointDayRows(w)})
    BY DEF Surjection
  <2>2. IsFiniteSet({Tally(row, w) : row \in PointDayRows(w)})
    BY <2>1, RowsOfExecutions, FS_Surjection
  <2>3. S \in SUBSET {Tally(row, w) : row \in PointDayRows(w)}
    BY DEF Tallies
  <2> QED
    BY <2>2, <2>3, FS_Subset
<1>3. ASSUME NEW t \in S PROVE t.executions = Cardinality(CountedFor(E, key, {t}))
  <2>1. PICK row \in PointDayRows(w) : t = Tally(row, w)
    BY DEF Tallies
  <2>2. t.executions = Cardinality(ExecutionsOf(row[1], row[2], w))
    BY <2>1 DEF Tally
  <2>3. \A e \in ReportedOf(w) : LineOf(e, w) = t <=> RowOf(e) = row
    BY <2>1, LinesOfRows, RowsOfExecutions DEF LineOf
  <2>4. CountedFor(E, key, {t}) = {e \in ReportedOf(w) : RowOf(e) = row}
    BY <2>3 DEF CountedFor
  <2> QED
    BY <2>2, <2>4, RowsOfExecutions
<1> HIDE DEF E, key
<1>4. MapThenSumSet(LAMBDA t : t.executions, S) = Cardinality(E)
  BY <1>1, <1>2, <1>3, ExecutionsAddUp
<1>5. Counts(S).executions = MapThenSumSet(LAMBDA t : t.executions, S)
  BY DEF Counts
<1> QED
  BY <1>2, <1>4, <1>5 DEF E

LEMMA ReportCounts ==
    ASSUME AppealsTypeOK, OwnersMatch, NEW w \in Readers
    PROVE  Counts(Tallies(w, AnyOutcome)).executions = Cardinality(ReportedOf(w))
<1>1. \A e \in ReportedOf(w) : LineOf(e, w) \in Tallies(w, AnyOutcome)
  BY RowsOfExecutions DEF LineOf, Tallies
<1>2. {e \in ReportedOf(w) : LineOf(e, w) \in Tallies(w, AnyOutcome)} = ReportedOf(w)
  BY <1>1
<1> QED
  BY <1>2, LinesCount

\* The executions of the whole report are those of the workers' own reports together.
LEMMA WholeReportIsAllWorkers ==
    ASSUME AppealsTypeOK, OwnersMatch
    PROVE  Counts(Tallies(Anybody, AnyOutcome)).executions =
               MapThenSumSet(LAMBDA w : Counts(Tallies(w, AnyOutcome)).executions, Workers)
<1> DEFINE E   == ReportedOf(Anybody)
           key == [e \in E |-> e.worker]
<1>1. IsFiniteSet(E) /\ Counts(Tallies(Anybody, AnyOutcome)).executions = Cardinality(E)
  BY RowsOfExecutions, ReportCounts DEF Readers
<1>2. key \in [E -> Workers]
  BY DEF ReportedOf, AppealsTypeOK
<1>3. ASSUME NEW w \in Workers
      PROVE  Counts(Tallies(w, AnyOutcome)).executions = Cardinality(CountedFor(E, key, {w}))
  <2>1. CountedFor(E, key, {w}) = ReportedOf(w)
    BY PointDaysAssumption DEF CountedFor, ReportedOf
  <2> QED
    BY <2>1, ReportCounts DEF Readers
<1> HIDE DEF E, key
<1> QED
  BY <1>1, <1>2, <1>3, WorkersAddUp

\* The tallies that a number of the report counts.
CountedIn(n, S) ==
    CASE n = "total"     -> S
      [] n = "done"      -> {t \in S : t.outcome \in {"DONE", "DONE_BY_APPEAL"}}
      [] n = "by_appeal" -> {t \in S : t.outcome = "DONE_BY_APPEAL"}
      [] n = "unserved"  -> {t \in S : t.outcome = "UNSERVED"}
      [] n = "released"  -> {t \in S : t.reasons # {}}

LEMMA CountsAreCardinalities ==
    ASSUME NEW S, NEW n \in {"total", "done", "by_appeal", "unserved", "released"}
    PROVE  Counts(S)[n] = Cardinality(CountedIn(n, S)) /\ CountedIn(n, S) \in SUBSET S
  BY DEF Counts, CountedIn

\* The periods of a report add up to its totals, number by number.
LEMMA PeriodsMakeTotals ==
    ASSUME AppealsTypeOK, OwnersMatch, NEW w \in Readers, NEW granularity
    PROVE  LET report == Report(granularity, w, AnyOutcome) IN
           report.totals = [n \in DOMAIN report.totals |-> OverPeriods(report.periods, n)]
<1> DEFINE T         == Tallies(w, AnyOutcome)
           start(t)  == PeriodStart(granularity, t.day)
           bucket(b) == {t \in T : start(t) = b}
           periods   == Buckets(granularity, T)
           names     == {"total", "done", "by_appeal", "unserved", "released"}
<1>1. DOMAIN periods = {start(t) : t \in T} /\ \A b \in DOMAIN periods : periods[b] = Counts(bucket(b))
  BY DEF Buckets
<1>2. IsFiniteSet(T)
  BY LinesCount
<1>3. IsFiniteSet(DOMAIN periods)
  <2> DEFINE when == [t \in T |-> start(t)]
  <2> HIDE DEF periods, T, start
  <2>1. when \in Surjection(T, DOMAIN periods)
    BY <1>1 DEF Surjection
  <2> HIDE DEF when
  <2> QED
    BY <1>2, <2>1, FS_Surjection
<1>4. ASSUME NEW n \in names PROVE Counts(T)[n] = OverPeriods(periods, n)
  <2> HIDE DEF T, start, periods
  <2> DEFINE C   == CountedIn(n, T)
             key == [t \in C |-> start(t)]
  <2>1. C \in SUBSET T /\ Counts(T)[n] = Cardinality(C)
    BY CountsAreCardinalities
  <2>2. ASSUME NEW b \in DOMAIN periods PROVE periods[b][n] = Cardinality(CountedFor(C, key, {b}))
    <3>1. periods[b][n] = Cardinality(CountedIn(n, bucket(b)))
      BY <1>1, CountsAreCardinalities
    <3>2. CountedIn(n, bucket(b)) = {t \in C : start(t) = b}
      BY DEF CountedIn
    <3>3. CountedFor(C, key, {b}) = {t \in C : start(t) = b}
      <4> HIDE DEF C
      <4> QED
        BY DEF CountedFor
    <3> QED
      BY <3>1, <3>2, <3>3
  <2> HIDE DEF C
  <2>3. IsFiniteSet(C) /\ key \in [C -> DOMAIN periods]
    BY <1>1, <1>2, <2>1, FS_Subset
  <2> HIDE DEF key
  <2>4. OverPeriods(periods, n) = Cardinality(C)
    <3> HIDE DEF names
    <3> QED
      BY <1>3, <2>2, <2>3, PeriodsAddUp
  <2> QED
    BY <2>1, <2>4
<1>5. Counts(T).executions = OverPeriods(periods, "executions")
  <2> DEFINE E   == ReportedOf(w)
             key == [e \in E |-> start(LineOf(e, w))]
  <2>1. IsFiniteSet(E) /\ Counts(T).executions = Cardinality(E)
    BY RowsOfExecutions, ReportCounts
  <2>2. \A e \in E : LineOf(e, w) \in T
    BY RowsOfExecutions DEF LineOf, Tallies
  <2>3. \A b : bucket(b) \in SUBSET Tallies(w, AnyOutcome)
    OBVIOUS
  <2>4. \A b : Counts(bucket(b)).executions = Cardinality({e \in E : LineOf(e, w) \in bucket(b)})
    BY <2>3, LinesCount
  <2> HIDE DEF T, start, periods, E
  <2>5. key \in [E -> DOMAIN periods]
    BY <1>1, <2>2
  <2>6. ASSUME NEW b \in DOMAIN periods
        PROVE  periods[b].executions = Cardinality(CountedFor(E, key, {b}))
    <3>1. CountedFor(E, key, {b}) = {e \in E : LineOf(e, w) \in bucket(b)}
      BY <2>2 DEF CountedFor
    <3> QED
      BY <1>1, <2>4, <3>1
  <2> HIDE DEF key
  <2> QED
    BY <1>3, <2>1, <2>5, <2>6, PeriodsAddUp
<1>6. /\ Report(granularity, w, AnyOutcome).totals = Counts(T)
      /\ Report(granularity, w, AnyOutcome).periods = periods
  BY DEF Report
<1> HIDE DEF T, periods
<1>7. /\ DOMAIN Counts(T) = names \cup {"executions"}
      /\ Counts(T) = [n \in DOMAIN Counts(T) |-> Counts(T)[n]]
  BY DEF Counts
<1>8. \A n \in DOMAIN Counts(T) : Counts(T)[n] = OverPeriods(periods, n)
  BY <1>4, <1>5, <1>7
<1>9. Counts(T) = [n \in DOMAIN Counts(T) |-> OverPeriods(periods, n)]
  BY <1>7, <1>8
<1> QED
  BY <1>6, <1>9

\* Every number of the report is what its executions, rows and periods say: each worker is
\* credited with what they served, the workers' executions add up to those of the whole report,
\* and the periods of a report to its totals (compliance.py, activity.py).
THEOREM ReportAddsUp == AppealsSpec => []CreditedToWhoServed
<1>1. AppealInv /\ OwnersMatch => CreditedToWhoServed
  BY Credit, WholeReportIsAllWorkers, PeriodsMakeTotals DEF AppealInv, CreditedToWhoServed, Readers
<1> QED
  BY AppealInvariance, OwnersAlwaysMatch, <1>1, PTL
=============================================================================
