--------------------------- MODULE RecordsProofs ---------------------------
(***************************************************************************)
(* Theorems about QrCodes, for any number of managers and versions; about  *)
(* LiveBoard, for any crew, chores, alerts and days; and about MCRecords,  *)
(* which runs them beside the appeals, accounts, catalog and deletions.    *)
(*                                                                         *)
(* QrCodes: the invariant adds to the properties what a request still      *)
(* knows of the codes it read: they were issued, and the version an issue  *)
(* is about to insert is newer than the code it is about to replace.       *)
(*                                                                         *)
(* LiveBoard: a poll that nothing overtook has built, query by query, what *)
(* the board now is; and the digest is that of the board on the screen.    *)
(***************************************************************************)
EXTENDS MCRecords, AppealsProofs, CatalogProofs, AccountsProofs, TLAPS

\* What a request read is still a code of the floor.
ReadCodesExist ==
    \A s \in Sessions :
        /\ previous[s] # 0 => status[previous[s]] # "NONE"
        /\ loaded[s] # NoCode => status[loaded[s].version] # "NONE"

\* An issue numbers its code above the one it replaces.
NumberedAbovePrevious ==
    \A s \in Sessions : pc[s] = "numbered" => previous[s] < next[s]

\* A replaced code names an issued, newer one.
ReplacedByNewer ==
    \A v \in Versions :
        status[v] = "REPLACED" =>
            /\ replacedBy[v] > v
            /\ replacedBy[v] \in Versions
            /\ status[replacedBy[v]] # "NONE"

IInv ==
    /\ TypeOK
    /\ ReadCodesExist
    /\ NumberedAbovePrevious
    /\ ReplacedByNewer
    /\ UndisturbedIssueSucceeds

\* Versions are positive naturals, and 0 is none of them.
LEMMA VersionsArePositive ==
    /\ Versions \subseteq Nat
    /\ 0 \notin Versions
    /\ NoCode \notin [version : Versions, status : QrCodeStatus]
  BY MaxVersionNat, SMT DEF Versions, NoCode

\* The initial state satisfies the invariant: no code, no request.
LEMMA InitIInv == Init => IInv
  BY VersionsArePositive
     DEF Init, IInv, TypeOK, ReadCodesExist, NumberedAbovePrevious, ReplacedByNewer,
         UndisturbedIssueSucceeds, NoCode, QrCodeStatus

\* Every step keeps the types.
LEMMA TypeStep == TypeOK /\ [Next]_vars => TypeOK'
<1> SUFFICES ASSUME TypeOK, [Next]_vars PROVE TypeOK'
  OBVIOUS
<1> USE VersionsArePositive
<1>1. CASE UNCHANGED vars
  BY <1>1 DEF TypeOK, vars, codes, requests
<1>2. ASSUME NEW s \in Sessions, ReadPrevious(s) PROVE TypeOK'
  BY <1>2 DEF TypeOK, ReadPrevious, Active, codes
<1>3. ASSUME NEW s \in Sessions, ReadMaxVersion(s) PROVE TypeOK'
  BY <1>3 DEF TypeOK, ReadMaxVersion, codes
<1>4. ASSUME NEW s \in Sessions, CommitIssue(s) PROVE TypeOK'
  BY <1>4 DEF TypeOK, CommitIssue, EndRequest, Replaces, QrCodeStatus, NoCode
<1>5. ASSUME NEW s \in Sessions, CommitRevoke(s) PROVE TypeOK'
  BY <1>5 DEF TypeOK, CommitRevoke, EndRequest, QrCodeStatus, NoCode
<1>6. ASSUME NEW s \in Sessions, Rollback(s) PROVE TypeOK'
  BY <1>6 DEF TypeOK, Rollback, EndRequest, codes, NoCode
<1>7. ASSUME NEW s \in Sessions, NEW v \in Versions, LoadCode(s, v) PROVE TypeOK'
  <2> DEFINE code == [version |-> v, status |-> status[v]]
  <2>1. code \in [version : Versions, status : QrCodeStatus] /\ code # NoCode
    BY <1>7 DEF TypeOK, LoadCode, NoCode
  <2>2. loaded' = [loaded EXCEPT ![s] = code]
    BY <1>7 DEF LoadCode
  <2> HIDE DEF code
  <2> QED
    BY <1>7, <2>1, <2>2 DEF TypeOK, LoadCode, codes
<1> QED
  BY <1>1, <1>2, <1>3, <1>4, <1>5, <1>6, <1>7 DEF Next

\* Every step keeps the rest of the invariant.
LEMMA StepIInv == IInv /\ [Next]_vars => IInv'
<1> SUFFICES ASSUME IInv, [Next]_vars PROVE IInv'
  OBVIOUS
<1> USE VersionsArePositive
<1> DEFINE Rest == ReadCodesExist /\ NumberedAbovePrevious /\ ReplacedByNewer
                   /\ UndisturbedIssueSucceeds
<1>t. TypeOK /\ TypeOK'
  BY TypeStep DEF IInv
<1>1. CASE UNCHANGED vars
  BY <1>1, <1>t DEF IInv, vars, codes, requests, ReadCodesExist, NumberedAbovePrevious,
     ReplacedByNewer, UndisturbedIssueSucceeds
<1>2. ASSUME NEW s \in Sessions, ReadPrevious(s) PROVE Rest'
  BY <1>2, <1>t DEF IInv, TypeOK, ReadPrevious, Active, codes, ReadCodesExist,
     NumberedAbovePrevious, ReplacedByNewer, UndisturbedIssueSucceeds
<1>3. ASSUME NEW s \in Sessions, ReadMaxVersion(s) PROVE Rest'
  <2>1. PICK v \in Versions : NextVersion(v) /\ next' = [next EXCEPT ![s] = v]
    BY <1>3 DEF ReadMaxVersion
  <2>2. previous[s] < v
    BY <2>1, <1>t, MaxVersionNat, SMT DEF IInv, TypeOK, ReadCodesExist, NextVersion, Versions
  <2>3. status[v] = "NONE"
    BY <2>1, <1>t DEF TypeOK, NextVersion
  <2> QED
    BY <1>3, <1>t, <2>1, <2>2, <2>3 DEF IInv, TypeOK, ReadMaxVersion, codes, ReadCodesExist,
       NumberedAbovePrevious, ReplacedByNewer, UndisturbedIssueSucceeds
<1>4. ASSUME NEW s \in Sessions, CommitIssue(s) PROVE Rest'
  <2>1. next[s] \in Versions /\ previous[s] < next[s] /\ status[next[s]] = "NONE"
    BY <1>4, <1>t DEF IInv, TypeOK, CommitIssue, NumberedAbovePrevious
  <2>2. \A w \in Versions : /\ status[w] # "NONE" => status'[w] # "NONE"
                            /\ status'[next[s]] # "NONE"
    BY <1>4, <1>t, <2>1 DEF CommitIssue, TypeOK, Replaces
  <2>3. ReadCodesExist'
    BY <1>4, <1>t, <2>2 DEF IInv, TypeOK, CommitIssue, EndRequest, ReadCodesExist, NoCode
  <2>4. NumberedAbovePrevious'
    BY <1>4, <1>t DEF IInv, TypeOK, CommitIssue, EndRequest, NumberedAbovePrevious
  <2>5. ReplacedByNewer'
    BY <1>4, <1>t, <2>1, <2>2 DEF IInv, TypeOK, CommitIssue, Replaces, ReplacedByNewer
  <2>6. UndisturbedIssueSucceeds'
    BY <1>4, <1>t DEF CommitIssue, UndisturbedIssueSucceeds
  <2> QED
    BY <2>3, <2>4, <2>5, <2>6
<1>5. ASSUME NEW s \in Sessions, CommitRevoke(s) PROVE Rest'
  <2>1. loaded[s] # NoCode /\ status[loaded[s].version] # "NONE"
    BY <1>5, <1>t DEF IInv, TypeOK, CommitRevoke, ReadCodesExist
  <2>2. \A w \in Versions : /\ status[w] = "NONE" <=> status'[w] = "NONE"
                            /\ status'[w] = "REPLACED" => status[w] = "REPLACED"
    BY <1>5, <1>t, <2>1 DEF CommitRevoke, TypeOK
  <2>3. ReadCodesExist'
    BY <1>5, <1>t, <2>2 DEF IInv, TypeOK, CommitRevoke, EndRequest, ReadCodesExist, NoCode
  <2>4. NumberedAbovePrevious'
    BY <1>5, <1>t DEF IInv, TypeOK, CommitRevoke, EndRequest, NumberedAbovePrevious
  <2>5. ReplacedByNewer'
    BY <1>5, <1>t, <2>2 DEF IInv, TypeOK, CommitRevoke, ReplacedByNewer
  <2>6. UndisturbedIssueSucceeds'
    <3> SUFFICES ASSUME NEW r \in Sessions, pc'[r] = "numbered", ~overtaken'[r]
                 PROVE  status'[next'[r]] = "NONE"
      BY DEF UndisturbedIssueSucceeds
    <3>1. pc[r] = "numbered" /\ next'[r] = next[r] /\ overtaken'[r] = overtaken[r]
      BY <1>5, <1>t DEF TypeOK, CommitRevoke, EndRequest
    <3>2. next[r] \in Versions /\ status[next[r]] = "NONE"
      BY <3>1, <1>t DEF IInv, TypeOK, UndisturbedIssueSucceeds
    <3> QED
      BY <3>1, <3>2, <2>2
  <2> QED
    BY <2>3, <2>4, <2>5, <2>6
<1>6. ASSUME NEW s \in Sessions, Rollback(s) PROVE Rest'
  BY <1>6, <1>t DEF IInv, TypeOK, Rollback, EndRequest, codes, NoCode, ReadCodesExist,
     NumberedAbovePrevious, ReplacedByNewer, UndisturbedIssueSucceeds
<1>7. ASSUME NEW s \in Sessions, NEW v \in Versions, LoadCode(s, v) PROVE Rest'
  BY <1>7, <1>t DEF IInv, TypeOK, LoadCode, codes, ReadCodesExist, NumberedAbovePrevious,
     ReplacedByNewer, UndisturbedIssueSucceeds
<1> QED
  BY <1>1, <1>2, <1>3, <1>4, <1>5, <1>6, <1>7, <1>t DEF Next, IInv

\* The invariant holds in every reachable state.
LEMMA InvariantHolds == Spec => []IInv
  BY InitIInv, StepIInv, PTL DEF Spec

\* The status, the requests and what they read of the codes keep their types.
THEOREM QrCodeTypes == Spec => []TypeOK
<1>1. IInv => TypeOK
  BY DEF IInv
<1> QED
  BY <1>1, InvariantHolds, PTL

\* The newest code of a floor is never a replaced one (qr/service.py, issue_qr_code).
THEOREM NewestStaysInForce == Spec => []NewestIsNotReplaced
<1>1. IInv => NewestIsNotReplaced
  <2> SUFFICES ASSUME IInv, NEW v \in Versions
               PROVE  /\ status[v] = "REPLACED" =>
                            replacedBy[v] > v /\ status[replacedBy[v]] # "NONE"
                      /\ Newest(v) => status[v] # "REPLACED"
    BY DEF NewestIsNotReplaced
  <2>1. status[v] = "REPLACED" =>
            /\ replacedBy[v] \in Versions /\ replacedBy[v] > v
            /\ status[replacedBy[v]] # "NONE"
    BY DEF IInv, ReplacedByNewer
  <2>2. Newest(v) /\ status[v] = "REPLACED" => replacedBy[v] <= v
    BY <2>1 DEF Newest
  <2>3. \A w \in Versions : ~(w > v /\ w <= v)
    BY VersionsArePositive, SMT
  <2> QED
    BY <2>1, <2>2, <2>3
<1> QED
  BY <1>1, InvariantHolds, PTL

\* An issue that no other issue overtook never finds its version taken (qr/service.py,
\* issue_qr_code).
THEOREM UndisturbedIssuesSucceed == Spec => []UndisturbedIssueSucceeds
<1>1. IInv => UndisturbedIssueSucceeds
  BY DEF IInv
<1> QED
  BY <1>1, InvariantHolds, PTL

\* An issue is between its first read and its end.
Issuing(s) == pc[s] \in {"issuing", "numbered"}

\* No two issues are open at once; revocations may be.
OneIssueAtATime == \A r, s \in Sessions : Issuing(r) /\ Issuing(s) => r = s

\* The one ACTIVE code is the one that the open issue is going to replace.
ActiveIsRead == \A s \in Sessions : Issuing(s) => Active \subseteq {previous[s]}

LEMMA StepOneActive ==
    IInv /\ AtMostOneActive /\ ActiveIsRead /\ OneIssueAtATime /\ [Next]_vars =>
        AtMostOneActive' /\ ActiveIsRead'
<1> DEFINE Goal == AtMostOneActive' /\ ActiveIsRead'
<1> SUFFICES ASSUME IInv, AtMostOneActive, ActiveIsRead, OneIssueAtATime, [Next]_vars
             PROVE  Goal
  OBVIOUS
<1>0. TypeOK /\ TypeOK'
  BY TypeStep DEF IInv
<1>1. CASE UNCHANGED vars
  BY <1>1 DEF vars, codes, requests, AtMostOneActive, ActiveIsRead, Active, Issuing
<1>2. ASSUME NEW s \in Sessions, ReadPrevious(s) PROVE Goal
  <2>1. PICK v \in Versions \cup {0} :
            /\ IF Active = {} THEN v = 0 ELSE v \in Active
            /\ previous' = [previous EXCEPT ![s] = v]
    BY <1>2 DEF ReadPrevious
  <2>2. Active' = Active /\ Active \subseteq {v}
    BY <1>2, <2>1 DEF ReadPrevious, codes, Active, AtMostOneActive
  <2>3. \A r \in Sessions : Issuing(r)' => previous'[r] = v \/ (r # s /\ Issuing(r) /\ previous'[r] = previous[r])
    BY <1>0, <1>2, <2>1 DEF ReadPrevious, Issuing, TypeOK
  <2> QED  BY <2>2, <2>3 DEF AtMostOneActive, ActiveIsRead
<1>3. ASSUME NEW s \in Sessions, ReadMaxVersion(s) PROVE Goal
  <2>1. Issuing(s) /\ Active' = Active /\ previous' = previous
    BY <1>3 DEF ReadMaxVersion, codes, Active, Issuing
  <2>2. \A r \in Sessions : Issuing(r)' => Issuing(r)
    BY <1>0, <1>3, <2>1 DEF ReadMaxVersion, Issuing, TypeOK
  <2> QED  BY <2>1, <2>2 DEF AtMostOneActive, ActiveIsRead
<1>4. ASSUME NEW s \in Sessions, CommitIssue(s) PROVE Goal
  <2>1. Issuing(s) /\ Active \subseteq {previous[s]}
    BY <1>4 DEF CommitIssue, Issuing, ActiveIsRead
  <2>2. \A w \in Versions : status'[w] = IF w \in Replaces(s) THEN "REPLACED"
                                        ELSE IF w = next[s] THEN "ACTIVE" ELSE status[w]
    BY <1>4 DEF CommitIssue
  <2>3. Active' \subseteq {next[s]}
    BY <2>1, <2>2, VersionsArePositive DEF Active, Replaces
  <2>4. \A r \in Sessions : ~Issuing(r)'
    BY <1>0, <1>4, <2>1 DEF CommitIssue, EndRequest, OneIssueAtATime, Issuing, TypeOK
  <2> QED  BY <2>3, <2>4 DEF AtMostOneActive, ActiveIsRead
<1>5. ASSUME NEW s \in Sessions, CommitRevoke(s) \/ Rollback(s) PROVE Goal
  <2>1. Active' \subseteq Active
    BY <1>0, <1>5 DEF CommitRevoke, Rollback, codes, Active, TypeOK
  <2>2. \A r \in Sessions : Issuing(r)' => Issuing(r) /\ previous'[r] = previous[r]
    BY <1>0, <1>5 DEF CommitRevoke, Rollback, EndRequest, Issuing, TypeOK
  <2> QED  BY <2>1, <2>2 DEF AtMostOneActive, ActiveIsRead
<1>6. ASSUME NEW s \in Sessions, NEW v \in Versions, LoadCode(s, v) PROVE Goal
  <2>1. Active' = Active /\ previous' = previous
    BY <1>6 DEF LoadCode, codes, Active
  <2>2. \A r \in Sessions : Issuing(r)' => Issuing(r)
    BY <1>0, <1>6 DEF LoadCode, Issuing, TypeOK
  <2> QED  BY <2>1, <2>2 DEF AtMostOneActive, ActiveIsRead
<1> QED
  BY <1>1, <1>2, <1>3, <1>4, <1>5, <1>6 DEF Next

\* "A floor has at most one ACTIVE QrCode at any time" (qr/service.py:29) holds as long as no two
\* issues are open at once, whatever revocations are: the overlap is all that the finding needs.
THEOREM LoneIssuesKeepOneActive == Spec /\ []OneIssueAtATime => []AtMostOneActive
<1>1. Init => AtMostOneActive /\ ActiveIsRead
  BY DEF Init, AtMostOneActive, ActiveIsRead, Active, Issuing
<1> QED
  BY <1>1, InitIInv, StepIInv, StepOneActive, PTL DEF Spec

\* No revocation is open while an issue is.
RevocationsApart == \A r, s \in Sessions : ~(pc[r] = "revoking" /\ Issuing(s))

\* The code an open issue is going to replace was not revoked since it was read.
ReadIsNotRevoked ==
    \A s \in Sessions : Issuing(s) /\ previous[s] # 0 => status[previous[s]] # "REVOKED"

LEMMA StepReadIsNotRevoked ==
    IInv /\ ReadIsNotRevoked /\ RevocationsApart /\ [Next]_vars => ReadIsNotRevoked'
<1> SUFFICES ASSUME IInv, ReadIsNotRevoked, RevocationsApart, [Next]_vars
             PROVE  ReadIsNotRevoked'
  OBVIOUS
<1>0. TypeOK /\ TypeOK'
  BY TypeStep DEF IInv
<1>1. CASE UNCHANGED vars
  BY <1>1 DEF vars, codes, requests, ReadIsNotRevoked, Issuing
<1>2. ASSUME NEW s \in Sessions, ReadPrevious(s) PROVE ReadIsNotRevoked'
  <2>1. PICK v \in Versions \cup {0} :
            /\ v # 0 => status[v] = "ACTIVE"
            /\ previous' = [previous EXCEPT ![s] = v]
    BY <1>2 DEF ReadPrevious, Active
  <2>2. status' = status /\ pc' = [pc EXCEPT ![s] = "issuing"]
    BY <1>2 DEF ReadPrevious, codes
  <2> QED  BY <1>0, <2>1, <2>2 DEF ReadIsNotRevoked, Issuing, TypeOK
<1>3. ASSUME NEW s \in Sessions, ReadMaxVersion(s) PROVE ReadIsNotRevoked'
  BY <1>0, <1>3 DEF ReadMaxVersion, codes, ReadIsNotRevoked, Issuing, TypeOK
<1>4. ASSUME NEW s \in Sessions, CommitIssue(s) PROVE ReadIsNotRevoked'
  <2>1. \A w \in Versions : status'[w] = "REVOKED" => status[w] = "REVOKED"
    BY <1>4 DEF CommitIssue
  <2>2. \A r \in Sessions : Issuing(r)' => Issuing(r) /\ previous'[r] = previous[r]
    BY <1>0, <1>4 DEF CommitIssue, EndRequest, Issuing, TypeOK
  <2> QED  BY <1>0, <2>1, <2>2 DEF ReadIsNotRevoked, TypeOK
<1>5. ASSUME NEW s \in Sessions, CommitRevoke(s) PROVE ReadIsNotRevoked'
  BY <1>0, <1>5 DEF CommitRevoke, EndRequest, RevocationsApart, ReadIsNotRevoked, Issuing, TypeOK
<1>6. ASSUME NEW s \in Sessions, Rollback(s) PROVE ReadIsNotRevoked'
  BY <1>0, <1>6 DEF Rollback, EndRequest, codes, ReadIsNotRevoked, Issuing, TypeOK
<1>7. ASSUME NEW s \in Sessions, NEW v \in Versions, LoadCode(s, v) PROVE ReadIsNotRevoked'
  BY <1>0, <1>7 DEF LoadCode, codes, ReadIsNotRevoked, Issuing, TypeOK
<1> QED
  BY <1>1, <1>2, <1>3, <1>4, <1>5, <1>6, <1>7 DEF Next

\* A code that was revoked stays out of service as long as no revocation is open while an issue
\* is.  Else it may not: an issue that read the code before writes REPLACED over REVOKED, and
\* scans of the code are accepted again (qr/service.py:61).
THEOREM RevokedStaysRevoked ==
    Spec /\ []RevocationsApart =>
        [][\A v \in Versions : status[v] = "REVOKED" => status'[v] = "REVOKED"]_vars
<1>1. Init => ReadIsNotRevoked
  BY DEF Init, ReadIsNotRevoked, Issuing
<1>2. ASSUME IInv, ReadIsNotRevoked, [Next]_vars, NEW v \in Versions, status[v] = "REVOKED"
      PROVE  status'[v] = "REVOKED"
  <2>0. TypeOK
    BY <1>2 DEF IInv
  <2>1. ASSUME NEW s \in Sessions, CommitIssue(s) PROVE status'[v] = "REVOKED"
    <3>1. v \notin Replaces(s) /\ v # next[s]
      BY <1>2, <2>1, VersionsArePositive DEF CommitIssue, ReadIsNotRevoked, Replaces, Issuing
    <3> QED  BY <1>2, <2>1, <3>1 DEF CommitIssue
  <2>2. ASSUME NEW s \in Sessions, CommitRevoke(s) PROVE status'[v] = "REVOKED"
    BY <1>2, <2>0, <2>2 DEF CommitRevoke, TypeOK
  <2>3. status' = status => status'[v] = "REVOKED"
    BY <1>2
  <2> QED
    BY <1>2, <2>1, <2>2, <2>3
       DEF Next, vars, codes, ReadPrevious, ReadMaxVersion, LoadCode, Rollback
<1>3. IInv /\ ReadIsNotRevoked /\ [Next]_vars =>
        [\A v \in Versions : status[v] = "REVOKED" => status'[v] = "REVOKED"]_vars
  BY <1>2
<1> QED
  BY <1>1, <1>3, InitIInv, StepIInv, StepReadIsNotRevoked, PTL DEF Spec

-----------------------------------------------------------------------------
(* LiveBoard *)

\* The parts of the board that a poll has asked for.
Asked == [routes |-> {}, alerts |-> {"routes"}, positions |-> {"routes", "alerts"},
          pool |-> {"routes", "alerts", "positions"},
          not_started |-> {"routes", "alerts", "positions", "pool"},
          released |-> {"routes", "alerts", "positions", "pool", "not_started"},
          done |-> {"routes", "alerts", "positions", "pool", "not_started", "released"}]

\* What a poll would have built by now, had it asked for everything at this moment.
BoardSoFar == [field \in DOMAIN QueryAfter |-> IF field \in Asked[poll.next] THEN BoardNow[field] ELSE Blank[field]]

\* A poll that nothing overtook builds the board as it is, and the digest is the screen's.
PollInv ==
    /\ ScreenCatchesUp
    /\ digest = NoDigest \/ digest = screen
    /\ polled = commits /\ poll.next # "asleep" => poll.today = date /\ poll.board = BoardSoFar

BoardInv == BoardTypeOK /\ PollInv

\* The parts of a board.
LEMMA PartsOfBoard ==
  /\ DOMAIN QueryAfter = {"routes", "alerts", "positions", "pool", "not_started", "released"}
  /\ DOMAIN BoardNow = DOMAIN QueryAfter /\ DOMAIN Blank = DOMAIN QueryAfter
  /\ DOMAIN NoDigest = {"routes"}
  BY DEF QueryAfter, BoardNow, Blank, NoDigest

LEMMA InitBoardInv == BoardInit => BoardInv
<1> SUFFICES ASSUME BoardInit PROVE BoardInv
  OBVIOUS
<1>1. BoardTypeOK
  BY LiveBoardAssumption, PartsOfBoard, SMT DEF BoardInit, BoardTypeOK, Dates
<1>2. PollInv
  BY DEF BoardInit, PollInv, ScreenCatchesUp
<1> QED  BY <1>1, <1>2 DEF BoardInv

\* After a change no poll that began before counts.
LEMMA CommitKeepsPollInv ==
  ASSUME BoardInv, Commit PROVE PollInv'
<1>1. polled' # commits'
  BY SMT DEF BoardInv, BoardTypeOK, Commit
<1> QED  BY <1>1 DEF BoardInv, PollInv, ScreenCatchesUp, Commit

\* A poll that begins has asked for nothing yet.
LEMMA BeginPollKeepsPollInv ==
  ASSUME BoardInv, BeginPoll PROVE PollInv'
<1>1. poll'.next = "routes" /\ poll'.today = date /\ poll'.board = Blank
  BY DEF BeginPoll
<1>2. UNCHANGED <<world, digest, screen>>
  BY DEF BeginPoll
<1>3. Blank = [field \in DOMAIN QueryAfter |-> Blank[field]]
  BY PartsOfBoard DEF Blank
<1>4. BoardSoFar' = Blank
  BY <1>1, <1>3 DEF BoardSoFar, Asked
<1> QED  BY <1>1, <1>2, <1>4 DEF BoardInv, PollInv, ScreenCatchesUp, world

\* The answer of a query that nothing overtook is a part of the board as it is.
LEMMA QueryAnswersPart ==
  ASSUME BoardInv, polled = commits, Query
  PROVE  poll'.board = [poll.board EXCEPT ![poll.next] = BoardNow[poll.next]]
<1>1. poll.next \in DOMAIN QueryAfter /\ poll.next # "asleep"
  BY PartsOfBoard DEF Query
<1>2. poll.today = date /\ poll.board = BoardSoFar
  BY <1>1 DEF BoardInv, PollInv
<1>3. poll.next \in {"alerts", "positions"} => poll.board.routes = RoutesOn(date)
  BY <1>2, PartsOfBoard DEF BoardSoFar, BoardNow, Asked
<1> QED  BY <1>1, <1>2, <1>3, PartsOfBoard DEF Query, BoardNow

\* A query is asked once, and in its turn.
LEMMA AskedAfter ==
  \A query \in DOMAIN QueryAfter :
      /\ QueryAfter[query] \in DOMAIN Asked
      /\ Asked[QueryAfter[query]] = Asked[query] \cup {query}
  BY PartsOfBoard DEF QueryAfter, Asked

LEMMA QueryKeepsPollInv ==
  ASSUME BoardInv, Query PROVE PollInv'
<1> DEFINE query == poll.next
<1>1. query \in DOMAIN QueryAfter /\ query # "asleep"
  BY PartsOfBoard DEF Query
<1>2. UNCHANGED <<world, digest, screen, commits, polled>>
  BY DEF Query
<1>3. poll'.next = QueryAfter[query] /\ poll'.today = poll.today
  BY DEF Query
<1>4. poll'.next # "asleep"
  BY <1>1, <1>3, PartsOfBoard DEF QueryAfter
<1>5. ASSUME polled = commits PROVE poll'.today = date /\ poll'.board = BoardSoFar'
  <2>1. poll.today = date /\ poll.board = BoardSoFar
    BY <1>1, <1>5 DEF BoardInv, PollInv
  <2>2. poll'.board = [BoardSoFar EXCEPT ![query] = BoardNow[query]]
    BY <1>5, <2>1, QueryAnswersPart
  <2>3. BoardNow' = BoardNow
    BY <1>2 DEF world, BoardNow, RoutesOn, RouteItem, OnBoard, LiveChore, AlertsOn, PositionsOf,
                PoolOn, NotStartedOn, ReleasedOn
  <2>4. BoardSoFar' = [field \in DOMAIN QueryAfter |->
                          IF field \in Asked[query] \cup {query} THEN BoardNow[field] ELSE Blank[field]]
    BY <1>1, <1>3, <2>3, AskedAfter DEF BoardSoFar
  <2> QED
    BY <1>1, <1>3, <2>1, <2>2, <2>4 DEF BoardSoFar
<1> QED  BY <1>2, <1>4, <1>5 DEF BoardInv, PollInv, ScreenCatchesUp, world

\* A finished poll that nothing overtook has built the board as it is, and no digest hides it.
LEMMA FinishedPoll ==
  ASSUME BoardInv, polled = commits, poll.next = "done"
  PROVE  poll.board = BoardNow /\ BoardNow # NoDigest
<1>1. poll.board = BoardSoFar
  BY DEF BoardInv, PollInv
<1>2. BoardSoFar = [field \in DOMAIN QueryAfter |-> BoardNow[field]]
  BY PartsOfBoard DEF BoardSoFar, Asked
<1>3. BoardNow = [field \in DOMAIN QueryAfter |-> BoardNow[field]]
  BY PartsOfBoard DEF BoardNow
<1> QED  BY <1>1, <1>2, <1>3, PartsOfBoard

LEMMA EmitKeepsPollInv ==
  ASSUME BoardInv, Emit PROVE PollInv'
<1>1. poll'.next = "asleep" /\ UNCHANGED <<world, commits, polled>>
  BY DEF Emit
<1>2. BoardNow' = BoardNow
  BY <1>1 DEF world, BoardNow, RoutesOn, RouteItem, OnBoard, LiveChore, AlertsOn, PositionsOf,
              PoolOn, NotStartedOn, ReleasedOn
<1>3. digest' = NoDigest \/ digest' = screen'
  BY DEF Emit, SnapshotDigest, BoardInv, PollInv
<1>4. ASSUME polled = commits PROVE screen' = BoardNow
  BY <1>4, FinishedPoll DEF Emit, SnapshotDigest, BoardInv, PollInv
<1> QED  BY <1>1, <1>2, <1>3, <1>4 DEF PollInv, ScreenCatchesUp

LEMMA ReconnectKeepsPollInv ==
  ASSUME BoardInv, Reconnect PROVE PollInv'
<1>1. poll'.next = "asleep" /\ digest' = NoDigest
  BY DEF Reconnect
<1>2. polled' # commits'
  BY SMT DEF Reconnect, BoardInv, BoardTypeOK
<1> QED  BY <1>1, <1>2 DEF PollInv, ScreenCatchesUp

-----------------------------------------------------------------------------

TourTypeOK == tour \in [Crew -> [Dates -> {NoTour, "IN_PROGRESS", "PAUSED", "DONE"}]]
ChoreTypeOK == chore \in [Chores -> {NoChore} \cup
                   [status : {"PENDING", "IN_PROGRESS", "DONE", "RELEASED"}, worker : Crew]]
WarningTypeOK == warning \in [Warnings -> {NoWarning} \cup
                     [status : {"OPEN", "ACKNOWLEDGED", "RESOLVED"}, worker : Crew \cup {"NONE"}, day : Dates]]
OtherBoardTypes ==
    /\ date \in Dates /\ active \subseteq Crew /\ gps \in [Crew -> Nat]
    /\ poll.next \in DOMAIN QueryAfter \cup {"asleep", "done"} /\ poll.today \in Dates
CommitsType == commits \in 1..MaxCommits /\ polled \in 0..commits

LEMMA BoardTypes ==
  BoardTypeOK <=> TourTypeOK /\ ChoreTypeOK /\ WarningTypeOK /\ OtherBoardTypes /\ CommitsType
  BY Zenon DEF BoardTypeOK, TourTypeOK, ChoreTypeOK, WarningTypeOK, OtherBoardTypes, CommitsType

\* A live chore belongs to somebody.
LEMMA LiveChoreHasWorker ==
  ASSUME ChoreTypeOK, NEW c \in Chores, LiveChore(c)
  PROVE  chore[c] \in [status : {"PENDING", "IN_PROGRESS", "DONE", "RELEASED"}, worker : Crew]
  BY DEF ChoreTypeOK, LiveChore, NoChore

LEMMA CommitKeepsTypes ==
  ASSUME BoardTypeOK, Commit
  PROVE  CommitsType' /\ UNCHANGED <<poll, digest, screen, polled>>
  BY LiveBoardAssumption, SMT DEF BoardTypeOK, CommitsType, Commit

LEMMA WorldStepKeepsTypes ==
  ASSUME BoardTypeOK, Commit, TourTypeOK', ChoreTypeOK', WarningTypeOK',
         date' \in Dates, active' \subseteq Crew, gps' \in [Crew -> Nat]
  PROVE  BoardTypeOK'
  BY CommitKeepsTypes, BoardTypes DEF BoardTypeOK, TourTypeOK, ChoreTypeOK, WarningTypeOK, CommitsType

\* What changes the board keeps the types.
LEMMA WorldKeepsTypes ==
  ASSUME BoardInv, BoardNext,
         ~(BeginPoll \/ Query \/ Emit \/ Reconnect)
  PROVE  BoardTypeOK' /\ Commit
<1> USE DEF BoardInv
<1>0. TourTypeOK /\ ChoreTypeOK /\ WarningTypeOK /\ date \in Dates /\ active \subseteq Crew /\ gps \in [Crew -> Nat]
  BY DEF BoardTypeOK, TourTypeOK, ChoreTypeOK, WarningTypeOK
<1> USE <1>0, WorldStepKeepsTypes
<1>1. ASSUME NEW w \in Crew, StartTour(w) PROVE BoardTypeOK' /\ Commit
  <2>1. TourTypeOK'
    BY <1>1 DEF StartTour, TourTypeOK
  <2> QED  BY <1>1, <2>1 DEF StartTour, ChoreTypeOK, WarningTypeOK
<1>2. ASSUME NEW w \in Crew, SendFix(w) PROVE BoardTypeOK' /\ Commit
  <2>1. gps' \in [Crew -> Nat]
    BY <1>2, SMT DEF SendFix
  <2> QED  BY <1>2, <2>1 DEF SendFix, TourTypeOK, ChoreTypeOK, WarningTypeOK
<1>3. ASSUME NEW w \in Crew, SwitchWorker(w) PROVE BoardTypeOK' /\ Commit
  BY <1>3 DEF SwitchWorker, TourTypeOK, ChoreTypeOK, WarningTypeOK
<1>4. ASSUME NEW w \in Crew, NEW d \in Dates, CloseTour(w, d) PROVE BoardTypeOK' /\ Commit
  <2>1. TourTypeOK'
    BY <1>4 DEF CloseTour, TourTypeOK
  <2> QED  BY <1>4, <2>1 DEF CloseTour, ChoreTypeOK, WarningTypeOK
<1>5. ASSUME NEW c \in Chores, NEW w \in Crew, HandOutChore(c, w) PROVE BoardTypeOK' /\ Commit
  <2>1. TourTypeOK' /\ ChoreTypeOK'
    BY <1>5 DEF HandOutChore, TourTypeOK, ChoreTypeOK
  <2> QED  BY <1>5, <2>1 DEF HandOutChore, WarningTypeOK
<1>6. ASSUME NEW c \in Chores, WorkOn(c) PROVE BoardTypeOK' /\ Commit
  <2>1. chore[c] \in [status : {"PENDING", "IN_PROGRESS", "DONE", "RELEASED"}, worker : Crew]
    BY <1>6, LiveChoreHasWorker DEF WorkOn
  <2>2. ChoreTypeOK'
    BY <1>6, <2>1 DEF WorkOn, ChoreTypeOK
  <2> QED  BY <1>6, <2>2 DEF WorkOn, TourTypeOK, WarningTypeOK
<1>7. ASSUME NEW c \in Chores, NEW pauses \in BOOLEAN, GiveChoreBack(c, pauses)
      PROVE  BoardTypeOK' /\ Commit
  <2>1. chore[c] \in [status : {"PENDING", "IN_PROGRESS", "DONE", "RELEASED"}, worker : Crew]
    BY <1>7, LiveChoreHasWorker DEF GiveChoreBack
  <2>2. ChoreTypeOK'
    BY <1>7, <2>1 DEF GiveChoreBack, ChoreTypeOK
  <2>3. TourTypeOK'
    BY <1>7, <2>1 DEF GiveChoreBack, TourTypeOK
  <2> QED  BY <1>7, <2>2, <2>3 DEF GiveChoreBack, WarningTypeOK
<1>8. CASE NextDate
  <2>1. date' \in Dates
    BY <1>8, LiveBoardAssumption, SMT DEF NextDate, Dates
  <2>2. ChoreTypeOK'
    BY <1>8 DEF NextDate, ChoreTypeOK
  <2> QED  BY <1>8, <2>1, <2>2 DEF NextDate, TourTypeOK, WarningTypeOK
<1>9. ASSUME NEW a \in Warnings, NEW w \in Crew \cup {"NONE"}, RaiseWarning(a, w)
      PROVE  BoardTypeOK' /\ Commit
  <2>1. WarningTypeOK'
    BY <1>9 DEF RaiseWarning, WarningTypeOK
  <2> QED  BY <1>9, <2>1 DEF RaiseWarning, TourTypeOK, ChoreTypeOK
<1>10. ASSUME NEW a \in Warnings, NEW to \in {"ACKNOWLEDGED", "RESOLVED"}, HandleWarning(a, to)
       PROVE  BoardTypeOK' /\ Commit
  <2>1. warning[a] \in [status : {"OPEN", "ACKNOWLEDGED", "RESOLVED"}, worker : Crew \cup {"NONE"}, day : Dates]
    BY <1>10 DEF HandleWarning, WarningTypeOK, NoWarning
  <2>2. WarningTypeOK'
    BY <1>10, <2>1 DEF HandleWarning, WarningTypeOK
  <2> QED  BY <1>10, <2>2 DEF HandleWarning, TourTypeOK, ChoreTypeOK
<1> QED
  BY <1>1, <1>2, <1>3, <1>4, <1>5, <1>6, <1>7, <1>8, <1>9, <1>10 DEF BoardNext

\* So does the stream.
LEMMA StreamKeepsTypes ==
  ASSUME BoardInv, BeginPoll \/ Query \/ Emit \/ Reconnect PROVE BoardTypeOK'
<1>1. TourTypeOK' /\ ChoreTypeOK' /\ WarningTypeOK' /\ CommitsType'
  BY SMT DEF BoardInv, BoardTypeOK, TourTypeOK, ChoreTypeOK, WarningTypeOK, CommitsType, world,
             BeginPoll, Query, Emit, Reconnect
<1>2. poll'.next \in DOMAIN QueryAfter \cup {"asleep", "done"} /\ poll'.today \in Dates
  <2>1. CASE BeginPoll
    BY <2>1, PartsOfBoard DEF BeginPoll, BoardInv, BoardTypeOK
  <2>2. CASE Query
    <3>1. poll'.next = QueryAfter[poll.next] /\ poll'.today = poll.today /\ poll.next \in DOMAIN QueryAfter
      BY <2>2 DEF Query
    <3> QED  BY <3>1, PartsOfBoard DEF QueryAfter, BoardInv, BoardTypeOK
  <2>3. CASE Emit \/ Reconnect
    <3>0. poll' = [poll EXCEPT !.next = "asleep", !.board = Blank]
      BY <2>3, Zenon DEF Emit, Reconnect
    <3>1. poll'.next = "asleep" /\ poll'.today = poll.today
      BY <3>0
    <3> QED  BY <3>1 DEF BoardInv, BoardTypeOK
  <2> QED  BY <2>1, <2>2, <2>3
<1>3. UNCHANGED world
  BY DEF BeginPoll, Query, Emit, Reconnect
<1> QED
  BY <1>1, <1>2, <1>3, BoardTypes DEF OtherBoardTypes, BoardInv, BoardTypeOK, world,
     TourTypeOK, ChoreTypeOK, WarningTypeOK, CommitsType

LEMMA StepBoardInv == BoardInv /\ [BoardNext]_boardVars => BoardInv'
<1> SUFFICES ASSUME BoardInv, [BoardNext]_boardVars PROVE BoardInv'
  OBVIOUS
<1>1. CASE BeginPoll
  BY <1>1, StreamKeepsTypes, BeginPollKeepsPollInv DEF BoardInv
<1>2. CASE Query
  BY <1>2, StreamKeepsTypes, QueryKeepsPollInv DEF BoardInv
<1>3. CASE Emit
  BY <1>3, StreamKeepsTypes, EmitKeepsPollInv DEF BoardInv
<1>4. CASE Reconnect
  BY <1>4, StreamKeepsTypes, ReconnectKeepsPollInv DEF BoardInv
<1>5. CASE BoardNext /\ ~(BeginPoll \/ Query \/ Emit \/ Reconnect)
  BY <1>5, WorldKeepsTypes, CommitKeepsPollInv DEF BoardInv
<1>6. CASE UNCHANGED boardVars
  <2>1. BoardNow' = BoardNow
    BY <1>6 DEF boardVars, world, BoardNow, RoutesOn, RouteItem, OnBoard, LiveChore, AlertsOn,
                PositionsOf, PoolOn, NotStartedOn, ReleasedOn
  <2> QED
    BY <1>6, <2>1 DEF boardVars, world, BoardInv, BoardTypeOK, PollInv, ScreenCatchesUp, BoardSoFar
<1> QED  BY <1>1, <1>2, <1>3, <1>4, <1>5, <1>6

\* Every variable of LiveBoard keeps its type.
THEOREM BoardTypeCorrect == BoardSpec => []BoardTypeOK
<1>1. BoardInv => BoardTypeOK
  BY DEF BoardInv
<1> QED  BY InitBoardInv, StepBoardInv, <1>1, PTL DEF BoardSpec

\* The screen of a manager shows the board as it is after every poll that nothing overtook,
\* whatever boards that mixed two moments, undone changes, days and broken connections came
\* before it (board_event_stream).
THEOREM ScreenShowsBoard == BoardSpec => []ScreenCatchesUp
<1>1. BoardInv => ScreenCatchesUp
  BY DEF BoardInv, PollInv
<1> QED  BY InitBoardInv, StepBoardInv, <1>1, PTL DEF BoardSpec

-----------------------------------------------------------------------------
(* The records together, as the runs check them *)

\* A step of the records together is a step of one component, in which the others rest.
LEMMA StepsOfRecords ==
  ASSUME [RecordsNext]_recordsVars
  PROVE  /\ [Next]_vars /\ [AppealsNext]_appealVars /\ [AccountsNext]_accountVars
         /\ [CatalogNext]_catalogVars /\ [DeletionNext]_deletionVars /\ [BoardNext]_boardVars
  BY DEF RecordsNext, recordsVars

\* The runs on the records together see nothing that each component alone could not do: their
\* bounds on open requests and dialogs only take behaviours away.
THEOREM RecordsAreTheirParts ==
  RecordsSpec => /\ Spec /\ AppealsSpec /\ AccountsSpec
                 /\ CatalogSpec /\ DeletionSpec /\ BoardSpec
<1>1. RecordsInit => /\ Init /\ AppealsInit /\ AccountsInit
                     /\ CatalogInit /\ DeletionInit /\ BoardInit
  BY DEF RecordsInit
<1>2. [RecordsNext]_recordsVars =>
          /\ [Next]_vars /\ [AppealsNext]_appealVars /\ [AccountsNext]_accountVars
          /\ [CatalogNext]_catalogVars /\ [DeletionNext]_deletionVars /\ [BoardNext]_boardVars
  BY StepsOfRecords
<1> QED
  BY <1>1, <1>2, PTL
     DEF RecordsSpec, Spec, AppealsSpec, AccountsSpec, CatalogSpec, DeletionSpec, BoardSpec

\* Codes, appeals, accounts, the catalog, its deletions and the board keep their types,
\* whichever of them a behaviour is about.
THEOREM RecordsTypes == RecordsSpec => []RecordsTypeOK
<1>1. /\ TypeOK /\ AppealsTypeOK /\ AccountsTypeOK
      /\ CatalogTypeOK /\ DeletionTypeOK /\ BoardTypeOK
      => RecordsTypeOK
  BY DEF RecordsTypeOK
<1> QED
  BY <1>1, RecordsAreTheirParts, QrCodeTypes, AppealTypes, AccountsTypeCorrect, CatalogTypes,
     DeletionTypes, BoardTypeCorrect, PTL
=============================================================================
