-------------------------- MODULE ExecutionProofs ---------------------------
(***************************************************************************)
(* Theorems about how stops are executed: StopExecution, for any number of *)
(* stops, keys, requests and photos, and FloorScans, for any rooms, visits,*)
(* requests in flight and fixes, while nothing was given back.             *)
(*                                                                         *)
(* StopExecution: a check-out keeps its stop locked from the moment it     *)
(* reads it, so nobody else closes or releases it, and the flags of an     *)
(* open execution do not change under it; what a late photo writes over    *)
(* the flags of a closed one differs by the photo flag only; and photos    *)
(* are never removed, so a count can only be too low.                      *)
(*                                                                         *)
(* FloorScans: the scan names no room.  What keeps it right is that the    *)
(* worker's other rooms cannot crowd the meant one out of the candidates.  *)
(* So the invariant says why the meant room is a candidate of its own      *)
(* check-in until that is on record (RoomsWaitForTheirVisit), why its      *)
(* execution is a candidate of its own check-out until that is             *)
(* (ClosedByTheirOwn), and that the app sends no check-out before          *)
(* (OnlyAfterTheCheckIn).                                                  *)
(***************************************************************************)
EXTENDS MCExecution, FiniteSetTheorems, TLAPS

CheckingOut(s) == pc[s] \in {"loaded", "counted"}
Uploading(s) == pc[s] \in {"uploading", "inserted"}

\* The key a request carries is of its kind.
KeyOfItsKind(s) ==
    /\ pc[s] = "checking_in" => key[s] \in CheckInKeys
    /\ pc[s] = "checking_out" \/ CheckingOut(s) => key[s] \in CheckOutKeys
    /\ Uploading(s) => key[s] \in PhotoKeys
    /\ pc[s] = "resolving" => row[s] \in CheckInKeys

\* Under the stop's lock the execution stays open and its flags stay as they were loaded; only
\* its review may be resolved meanwhile.
CheckOutCopy(s) ==
    CheckingOut(s) =>
        /\ visited[row[s]] \in held[s]
        /\ closedBy[row[s]] = NoKey
        /\ stop[visited[row[s]]] = "IN_PROGRESS"
        /\ copy[s].flags = flags[row[s]]
        /\ copy[s].review = review[row[s]] \/ review[row[s]] = "RESOLVED"
        /\ copy[s].flags # {} => copy[s].review # "NONE"

\* A copy loaded closed agrees with its row but for the photo flag.
UploadCopy(s) ==
    Uploading(s) =>
        /\ visited[row[s]] # NoStop
        /\ copy[s].closed =>
            /\ closedBy[row[s]] # NoKey
            /\ copy[s].flags \ {Insufficient} = flags[row[s]] \ {Insufficient}

\* A count is never too high.
CountIsSafe(s) ==
    /\ pc[s] = "counted" /\ visited[row[s]] \in NeedsEvidence
            /\ Cardinality(photos[row[s]]) < MinPhotos
        => short[s]
    /\ pc[s] = "inserted" /\ ~short[s]
        => Cardinality(photos[row[s]] \cup {key[s]}) >= MinPhotos

RequestInv ==
    \A s \in Sessions :
        /\ KeyOfItsKind(s)
        /\ CheckOutCopy(s)
        /\ UploadCopy(s)
        /\ CountIsSafe(s)

\* No stop row is locked twice.
HeldApart == \A r, s \in Sessions : r # s => held[r] \cap held[s] = {}

\* Before its check-in an execution has nothing.
NothingBeforeCheckIn ==
    \A k \in CheckInKeys : visited[k] = NoStop => closedBy[k] = NoKey /\ flags[k] = {}

RowInv ==
    /\ NothingBeforeCheckIn
    /\ NothingDoneTwice
    /\ StopMatchesExecution
    /\ ShortEvidenceFlagged
    /\ FlaggedIsReviewed

IInv == TypeOK /\ RowInv /\ HeldApart /\ RequestInv

-----------------------------------------------------------------------------
(* What a step leaves alone *)

\* Every request but s stays where it is.
OthersKeep(s) ==
    \A r \in Sessions \ {s} :
        /\ pc'[r] = pc[r] /\ key'[r] = key[r] /\ row'[r] = row[r]
        /\ copy'[r] = copy[r] /\ held'[r] = held[r] /\ short'[r] = short[r]

\* The request s is over.
Ended(s) == pc'[s] = "idle" /\ held'[s] = {}

\* A transaction that ends leaves the others alone.
LEMMA EndKeeps ==
    ASSUME TypeOK, NEW s \in Sessions, EndRequest(s)
    PROVE  OthersKeep(s) /\ Ended(s)
  BY DEF TypeOK, EndRequest, OthersKeep, Ended

\* Every step of a request keeps the types.
LEMMA TypeStep == IInv /\ [Next]_vars => TypeOK'
<1> SUFFICES ASSUME IInv, [Next]_vars PROVE TypeOK'
  OBVIOUS
<1> USE DEF IInv
<1>1. CASE UNCHANGED vars
  BY <1>1 DEF TypeOK, vars, db, execution, requests
<1>2. ASSUME NEW s \in Sessions, Ask(s) PROVE TypeOK'
  <2>1. ASSUME NEW k \in CheckInKeys, BeginCheckIn(s, k) PROVE TypeOK'
    BY <2>1 DEF TypeOK, BeginCheckIn, db, execution
  <2>2. ASSUME NEW k \in CheckInKeys, BeginResolve(s, k) PROVE TypeOK'
    BY <2>2 DEF TypeOK, BeginResolve, db, execution
  <2>3. ASSUME NEW o \in CheckOutKeys, BeginCheckOut(s, o) PROVE TypeOK'
    BY <2>3 DEF TypeOK, BeginCheckOut, db, execution
  <2>4. ASSUME NEW k \in CheckInKeys, NEW x \in PhotoKeys, BeginUpload(s, k, x) PROVE TypeOK'
    <3>1. Loaded(k) \in Copies
      BY DEF TypeOK, Loaded, Copies
    <3> QED
      BY <2>4, <3>1 DEF TypeOK, BeginUpload, db, execution
  <2> QED
    BY <1>2, <2>1, <2>2, <2>3, <2>4 DEF Ask
<1>3. ASSUME NEW s \in Sessions, CommitCheckIn(s) PROVE TypeOK'
  BY <1>3 DEF TypeOK, RequestInv, KeyOfItsKind, CommitCheckIn, EndRequest, RouteStopStatus,
     ExecutionReviewStatus, Flags
<1>4. ASSUME NEW s \in Sessions, LoadOpenCheckin(s) PROVE TypeOK'
  <2>1. PICK k \in OpenCheckins : row' = [row EXCEPT ![s] = k]
                                  /\ copy' = [copy EXCEPT ![s] = Loaded(k)]
    BY <1>4 DEF LoadOpenCheckin
  <2>2. k \in CheckInKeys /\ Loaded(k) \in Copies
    BY DEF TypeOK, Loaded, Copies, OpenCheckins
  <2>3. {visited[j] : j \in OpenCheckins} \subseteq Stops
    BY DEF TypeOK, OpenCheckins
  <2> QED
    BY <1>4, <2>1, <2>2, <2>3 DEF TypeOK, LoadOpenCheckin, db, execution
<1>5. ASSUME NEW s \in Sessions, CountPhotos(s) PROVE TypeOK'
  BY <1>5 DEF TypeOK, CountPhotos, db, execution
<1>6. ASSUME NEW s \in Sessions, CommitCheckOut(s) PROVE TypeOK'
  <2>1. row[s] \in CheckInKeys /\ copy[s] \in Copies /\ key[s] \in CheckOutKeys
    BY <1>6 DEF TypeOK, CommitCheckOut, RequestInv, KeyOfItsKind, CheckingOut
  <2>2. flags' \in [CheckInKeys -> SUBSET Flags]
    BY <1>6, <2>1 DEF TypeOK, CommitCheckOut, Written, Flags, Copies
  <2>3. review' \in [CheckInKeys -> ExecutionReviewStatus]
    <3>1. copy[s].review \in ExecutionReviewStatus
      BY <2>1 DEF Copies
    <3>2. PICK merged :
            review' = [review EXCEPT
                ![row[s]] = Written(copy[s].review, ReviewAtCheckOut(copy[s], merged), @)]
      BY <1>6 DEF CommitCheckOut
    <3>3. ReviewAtCheckOut(copy[s], merged) \in ExecutionReviewStatus
      BY <3>1 DEF ReviewAtCheckOut, ExecutionReviewStatus
    <3> QED
      BY <2>1, <3>2, <3>3 DEF TypeOK, Written
  <2> QED
    BY <1>6, <2>1, <2>2, <2>3 DEF TypeOK, CommitCheckOut, EndRequest, RouteStopStatus
<1>7. ASSUME NEW s \in Sessions, InsertAndCount(s) PROVE TypeOK'
  BY <1>7 DEF TypeOK, InsertAndCount, db, execution
<1>8. ASSUME NEW s \in Sessions, CommitUpload(s) PROVE TypeOK'
  <2>1. row[s] \in CheckInKeys /\ copy[s] \in Copies /\ key[s] \in PhotoKeys
    BY <1>8 DEF TypeOK, CommitUpload, RequestInv, KeyOfItsKind, Uploading
  <2>2. flags' \in [CheckInKeys -> SUBSET Flags]
    BY <1>8, <2>1 DEF TypeOK, CommitUpload, Reconcile, Written, Copies
  <2>3. review' \in [CheckInKeys -> ExecutionReviewStatus]
    <3> DEFINE new == ReviewAfterPhoto(copy[s], copy[s].flags \ {Insufficient})
    <3>1. copy[s].review \in ExecutionReviewStatus
      BY <2>1 DEF Copies
    <3>2. new \in ExecutionReviewStatus
      BY <3>1 DEF ReviewAfterPhoto, ExecutionReviewStatus
    <3>3. \/ review' = review
          \/ review' = [review EXCEPT ![row[s]] = Written(copy[s].review, new, @)]
      BY <1>8 DEF CommitUpload, Reconcile
    <3> HIDE DEF new
    <3> QED
      BY <2>1, <3>2, <3>3 DEF TypeOK, Written
  <2> QED
    BY <1>8, <2>1, <2>2, <2>3 DEF TypeOK, CommitUpload, EndRequest
<1>9. ASSUME NEW s \in Sessions, CommitResolve(s) PROVE TypeOK'
  BY <1>9 DEF TypeOK, RequestInv, KeyOfItsKind, CommitResolve, EndRequest,
     ExecutionReviewStatus
<1>10. ASSUME NEW s \in Sessions, Rollback(s) PROVE TypeOK'
  BY <1>10 DEF TypeOK, Rollback, EndRequest, db, execution
<1>11. ASSUME NEW t \in Stops, Release(t) PROVE TypeOK'
  BY <1>11 DEF TypeOK, Release, execution, requests, RouteStopStatus
<1> QED
  BY <1>1, <1>2, <1>3, <1>4, <1>5, <1>6, <1>7, <1>8, <1>9, <1>10, <1>11 DEF Next, Proceed

-----------------------------------------------------------------------------
(* Steps that leave the database alone *)

\* Nothing is written and no lock is given to two requests: it is enough to look at s.
LEMMA QuietStep ==
    ASSUME IInv, TypeOK', NEW s \in Sessions, UNCHANGED db, OthersKeep(s),
           held'[s] = {} \/ held'[s] \cap LockedByOthers(s) = {},
           KeyOfItsKind(s)', CheckOutCopy(s)', UploadCopy(s)', CountIsSafe(s)'
    PROVE  IInv'
<1>1. RowInv'
  BY DEF IInv, RowInv, db, execution, NothingBeforeCheckIn, NothingDoneTwice,
     StopMatchesExecution, ShortEvidenceFlagged, FlaggedIsReviewed
<1>2. HeldApart'
  <2>1. \A r \in Sessions \ {s} : held'[r] = held[r] /\ held'[r] \cap held'[s] = {}
    BY DEF OthersKeep, LockedByOthers
  <2> QED
    BY <2>1 DEF IInv, HeldApart
<1>3. RequestInv'
  <2> SUFFICES ASSUME NEW r \in Sessions \ {s}
               PROVE  KeyOfItsKind(r)' /\ CheckOutCopy(r)' /\ UploadCopy(r)' /\ CountIsSafe(r)'
    BY DEF RequestInv
  <2>1. KeyOfItsKind(r) /\ CheckOutCopy(r) /\ UploadCopy(r) /\ CountIsSafe(r)
    BY DEF IInv, RequestInv
  <2> QED
    BY <2>1 DEF OthersKeep, db, execution, KeyOfItsKind, CheckOutCopy, UploadCopy, CountIsSafe,
       CheckingOut, Uploading
<1> QED
  BY <1>1, <1>2, <1>3 DEF IInv

\* A request that is over keeps nothing to account for.
LEMMA NothingToAccountFor ==
    ASSUME NEW s \in Sessions, Ended(s)
    PROVE  KeyOfItsKind(s)' /\ CheckOutCopy(s)' /\ UploadCopy(s)' /\ CountIsSafe(s)'
  BY DEF Ended, KeyOfItsKind, CheckOutCopy, UploadCopy, CountIsSafe, CheckingOut, Uploading

\* A request that is admitted accounts for the copy it loaded.
LEMMA AskStep == ASSUME IInv, NEW s \in Sessions, Ask(s) PROVE IInv'
<1> USE DEF KeyOfItsKind, CheckOutCopy, UploadCopy, CountIsSafe, CheckingOut, Uploading
<1>t. TypeOK /\ TypeOK'
  BY TypeStep DEF IInv, Next
<1>h. held[s] = {} \/ pc[s] # "idle"
  BY <1>t DEF TypeOK
<1>1. ASSUME NEW k \in CheckInKeys, BeginCheckIn(s, k) PROVE IInv'
  <2>1. OthersKeep(s) /\ UNCHANGED db /\ held'[s] = {}
    BY <1>1, <1>t, <1>h DEF TypeOK, BeginCheckIn, OthersKeep
  <2>2. KeyOfItsKind(s)' /\ CheckOutCopy(s)' /\ UploadCopy(s)' /\ CountIsSafe(s)'
    BY <1>1, <1>t DEF TypeOK, BeginCheckIn
  <2> QED
    BY <1>t, <2>1, <2>2, QuietStep
<1>2. ASSUME NEW k \in CheckInKeys, BeginResolve(s, k) PROVE IInv'
  <2>1. OthersKeep(s) /\ UNCHANGED db /\ held'[s] = {}
    BY <1>2, <1>t, <1>h DEF TypeOK, BeginResolve, OthersKeep
  <2>2. KeyOfItsKind(s)' /\ CheckOutCopy(s)' /\ UploadCopy(s)' /\ CountIsSafe(s)'
    BY <1>2, <1>t DEF TypeOK, BeginResolve
  <2> QED
    BY <1>t, <2>1, <2>2, QuietStep
<1>3. ASSUME NEW o \in CheckOutKeys, BeginCheckOut(s, o) PROVE IInv'
  <2>1. OthersKeep(s) /\ UNCHANGED db /\ held'[s] = {}
    BY <1>3, <1>t, <1>h DEF TypeOK, BeginCheckOut, OthersKeep
  <2>2. KeyOfItsKind(s)' /\ CheckOutCopy(s)' /\ UploadCopy(s)' /\ CountIsSafe(s)'
    BY <1>3, <1>t DEF TypeOK, BeginCheckOut
  <2> QED
    BY <1>t, <2>1, <2>2, QuietStep
<1>4. ASSUME NEW k \in CheckInKeys, NEW x \in PhotoKeys, BeginUpload(s, k, x) PROVE IInv'
  <2>1. OthersKeep(s) /\ UNCHANGED db /\ held'[s] = {}
    BY <1>4, <1>t, <1>h DEF TypeOK, BeginUpload, OthersKeep
  <2>2. pc'[s] = "uploading" /\ key'[s] = x /\ row'[s] = k /\ copy'[s] = Loaded(k)
    BY <1>4, <1>t DEF TypeOK, BeginUpload
  <2>3. UploadCopy(s)'
    <3>1. Loaded(k).flags = flags[k]
      BY DEF Loaded
    <3>2. Loaded(k).closed = (closedBy[k] # NoKey)
      BY DEF Loaded
    <3> QED
      BY <1>4, <2>1, <2>2, <3>1, <3>2 DEF BeginUpload, db, execution
  <2> QED
    BY <1>t, <2>1, <2>2, <2>3, QuietStep
<1> QED
  BY <1>1, <1>2, <1>3, <1>4 DEF Ask

\* The check-out has its stop locked and its copy agrees with the row.
LEMMA LoadStep == ASSUME IInv, NEW s \in Sessions, LoadOpenCheckin(s) PROVE IInv'
<1> USE DEF KeyOfItsKind, CheckOutCopy, UploadCopy, CountIsSafe, CheckingOut, Uploading
<1> DEFINE locked == {visited[j] : j \in OpenCheckins}
<1>t. TypeOK /\ TypeOK'
  BY TypeStep DEF IInv, Next, Proceed
<1>1. PICK k \in OpenCheckins : row' = [row EXCEPT ![s] = k]
                                /\ copy' = [copy EXCEPT ![s] = Loaded(k)]
  BY DEF LoadOpenCheckin
<1>2. /\ pc[s] = "checking_out" /\ pc'[s] = "loaded"
      /\ row'[s] = k /\ copy'[s] = Loaded(k) /\ held'[s] = locked /\ key'[s] = key[s]
      /\ locked \cap LockedByOthers(s) = {}
  BY <1>t, <1>1 DEF TypeOK, LoadOpenCheckin
<1>3. OthersKeep(s) /\ UNCHANGED db
  BY <1>t, <1>1 DEF TypeOK, LoadOpenCheckin, OthersKeep
<1>4. /\ k \in CheckInKeys /\ visited[k] \in locked
      /\ closedBy[k] = NoKey /\ stop[visited[k]] = "IN_PROGRESS"
  BY DEF OpenCheckins
<1>5. Loaded(k).flags = flags[k] /\ Loaded(k).review = review[k]
  BY DEF Loaded
<1>6. flags[k] # {} => review[k] # "NONE"
  BY <1>4 DEF IInv, RowInv, FlaggedIsReviewed
<1>7. KeyOfItsKind(s)'
  BY <1>2 DEF IInv, RequestInv
<1> HIDE DEF locked
<1>8. CheckOutCopy(s)' /\ UploadCopy(s)' /\ CountIsSafe(s)'
  BY <1>2, <1>3, <1>4, <1>5, <1>6 DEF db, execution
<1> QED
  BY <1>t, <1>2, <1>3, <1>7, <1>8, QuietStep

\* The check-out's count is exact when it is taken.
LEMMA CountStep == ASSUME IInv, NEW s \in Sessions, CountPhotos(s) PROVE IInv'
<1> USE DEF KeyOfItsKind, CheckOutCopy, UploadCopy, CountIsSafe, CheckingOut, Uploading
<1>t. TypeOK /\ TypeOK'
  BY TypeStep DEF IInv, Next, Proceed
<1>1. OthersKeep(s) /\ UNCHANGED db
  BY <1>t DEF TypeOK, CountPhotos, OthersKeep
<1>2. /\ pc[s] = "loaded" /\ pc'[s] = "counted"
      /\ row'[s] = row[s] /\ copy'[s] = copy[s] /\ held'[s] = held[s] /\ key'[s] = key[s]
  BY <1>t DEF TypeOK, CountPhotos
<1>3. visited[row[s]] \in NeedsEvidence /\ Cardinality(photos[row[s]]) < MinPhotos => short'[s]
  BY <1>t DEF TypeOK, CountPhotos, PhotosOf
<1>4. held'[s] \cap LockedByOthers(s) = {}
  BY <1>2 DEF IInv, HeldApart, LockedByOthers
<1>5. KeyOfItsKind(s)' /\ CheckOutCopy(s)' /\ UploadCopy(s)' /\ CountIsSafe(s)'
  <2>1. KeyOfItsKind(s)'
    BY <1>2 DEF IInv, RequestInv
  <2>2. CheckOutCopy(s)
    BY DEF IInv, RequestInv
  <2>3. CheckOutCopy(s)'
    BY <1>1, <1>2, <2>2 DEF db, execution
  <2>4. UploadCopy(s)' /\ CountIsSafe(s)'
    BY <1>1, <1>2, <1>3 DEF db, execution
  <2> QED
    BY <2>1, <2>3, <2>4
<1> QED
  BY <1>t, <1>1, <1>4, <1>5, QuietStep

\* So is the upload's, its own photo included.
LEMMA InsertStep == ASSUME IInv, NEW s \in Sessions, InsertAndCount(s) PROVE IInv'
<1> USE DEF KeyOfItsKind, CheckOutCopy, UploadCopy, CountIsSafe, CheckingOut, Uploading
<1>t. TypeOK /\ TypeOK'
  BY TypeStep DEF IInv, Next, Proceed
<1>1. OthersKeep(s) /\ UNCHANGED db
  BY <1>t DEF TypeOK, InsertAndCount, OthersKeep
<1>2. /\ pc[s] = "uploading" /\ pc'[s] = "inserted"
      /\ row'[s] = row[s] /\ copy'[s] = copy[s] /\ held'[s] = {} /\ key'[s] = key[s]
  BY <1>t DEF TypeOK, InsertAndCount
<1>3. photos[row[s]] \cup {key[s]} \in SUBSET PhotoKeys
  <2>1. row[s] \in CheckInKeys
    BY <1>t, <1>2 DEF TypeOK
  <2>2. key[s] \in PhotoKeys
    BY <1>2 DEF IInv, RequestInv
  <2> QED
    BY <1>t, <2>1, <2>2 DEF TypeOK
<1>4. Cardinality(photos[row[s]] \cup {key[s]}) \in Nat
  BY <1>3, PhotosFinite, FS_Subset, FS_CardinalityType
<1>5. ~short'[s] => Cardinality(photos[row[s]] \cup {key[s]}) >= MinPhotos
  <2> DEFINE n == Cardinality(photos[row[s]] \cup {key[s]})
  <2>1. ~short'[s] => ~(n < MinPhotos)
    BY <1>t DEF TypeOK, InsertAndCount, PhotosOf
  <2>2. n \in Nat
    BY <1>4
  <2> HIDE DEF n
  <2>3. ~(n < MinPhotos) => n >= MinPhotos
    BY <2>2, MinPhotosNat
  <2> QED
    BY <2>1, <2>3 DEF n
<1>6. KeyOfItsKind(s)' /\ CheckOutCopy(s)' /\ UploadCopy(s)' /\ CountIsSafe(s)'
  BY <1>1, <1>2, <1>5 DEF IInv, RequestInv, db, execution
<1> QED
  BY <1>t, <1>1, <1>2, <1>6, QuietStep

\* A request that fails leaves nothing behind.
LEMMA RollbackStep == ASSUME IInv, NEW s \in Sessions, Rollback(s) PROVE IInv'
<1>t. TypeOK /\ TypeOK'
  BY TypeStep DEF IInv, Next
<1>1. OthersKeep(s) /\ Ended(s) /\ UNCHANGED db
  BY <1>t, EndKeeps DEF Rollback
<1> QED
  BY <1>t, <1>1, NothingToAccountFor, QuietStep DEF Ended

-----------------------------------------------------------------------------
(* Steps that commit *)

\* A commit ends its request: the locks stay apart, and only the others need an account.
LEMMA CommitFrame ==
    ASSUME IInv, TypeOK', NEW s \in Sessions, OthersKeep(s), Ended(s), RowInv',
           \A r \in Sessions \ {s} : CheckOutCopy(r)' /\ UploadCopy(r)' /\ CountIsSafe(r)'
    PROVE  IInv'
<1>1. HeldApart'
  BY DEF IInv, HeldApart, OthersKeep, Ended
<1>2. \A r \in Sessions \ {s} : KeyOfItsKind(r)'
  BY DEF IInv, RequestInv, OthersKeep, KeyOfItsKind, CheckingOut, Uploading
<1>3. RequestInv'
  BY <1>2, NothingToAccountFor DEF RequestInv
<1> QED
  BY <1>1, <1>3 DEF IInv

\* Photos are only added: what was enough stays enough.
LEMMA MorePhotos ==
    ASSUME NEW A \in SUBSET PhotoKeys, NEW B \in SUBSET PhotoKeys, A \subseteq B
    PROVE  /\ Cardinality(A) \in Nat /\ Cardinality(B) \in Nat
           /\ Cardinality(A) <= Cardinality(B)
  BY PhotosFinite, FS_Subset, FS_CardinalityType

\* A check-in takes a PENDING stop, which no execution has visited.
LEMMA CheckInStep == ASSUME IInv, NEW s \in Sessions, CommitCheckIn(s) PROVE IInv'
<1> DEFINE k == key[s]
<1>t. TypeOK /\ TypeOK'
  BY TypeStep DEF IInv, Next, Proceed
<1>1. k \in CheckInKeys /\ visited[k] = NoStop
  BY DEF IInv, RequestInv, KeyOfItsKind, CommitCheckIn
<1>2. PICK t \in Stops, F \in SUBSET Anomalies :
        /\ stop[t] = "PENDING"
        /\ stop' = [stop EXCEPT ![t] = "IN_PROGRESS"]
        /\ visited' = [visited EXCEPT ![k] = t]
        /\ flags' = [flags EXCEPT ![k] = F]
        /\ review' = [review EXCEPT ![k] = IF F = {} THEN "NONE" ELSE "PENDING_REVIEW"]
  BY DEF CommitCheckIn
<1>3. UNCHANGED <<closedBy, photos>>
  BY DEF CommitCheckIn
<1>4. OthersKeep(s) /\ Ended(s)
  BY <1>t, EndKeeps DEF CommitCheckIn
<1> HIDE DEF k
<1>5. \A j \in CheckInKeys : visited[j] # t
  BY <1>2, NoneIsNone DEF IInv, RowInv, StopMatchesExecution
<1>6. closedBy[k] = NoKey
  BY <1>1 DEF IInv, RowInv, NothingBeforeCheckIn
<1>7. /\ \A u \in Stops : stop'[u] = IF u = t THEN "IN_PROGRESS" ELSE stop[u]
      /\ \A j \in CheckInKeys : /\ visited'[j] = IF j = k THEN t ELSE visited[j]
                                /\ flags'[j] = IF j = k THEN F ELSE flags[j]
                                /\ j # k => review'[j] = review[j]
      /\ F # {} => review'[k] = "PENDING_REVIEW"
      /\ t # NoStop
  BY <1>t, <1>1, <1>2, NoneIsNone DEF TypeOK
<1>8. RowInv'
  <2>1. NothingBeforeCheckIn'
    BY <1>3, <1>7 DEF IInv, RowInv, NothingBeforeCheckIn
  <2>2. NothingDoneTwice'
    BY <1>3, <1>5, <1>6, <1>7 DEF IInv, RowInv, NothingDoneTwice
  <2>3. StopMatchesExecution'
    <3>1. ASSUME NEW j \in CheckInKeys, visited'[j] # NoStop
          PROVE  /\ stop'[visited'[j]] # "PENDING"
                 /\ stop'[visited'[j]] = "DONE" <=> closedBy'[j] # NoKey
      <4>1. CASE j = k
        BY <4>1, <1>3, <1>6, <1>7
      <4>2. CASE j # k
        <5>1. visited'[j] = visited[j] /\ visited[j] \in Stops /\ visited[j] # t
          BY <4>2, <3>1, <1>5, <1>7, <1>t DEF TypeOK
        <5> QED
          BY <5>1, <3>1, <1>3, <1>7 DEF IInv, RowInv, StopMatchesExecution
      <4> QED
        BY <4>1, <4>2
    <3>2. ASSUME NEW u \in Stops, stop'[u] \in {"IN_PROGRESS", "DONE"}
          PROVE  \E j \in CheckInKeys : visited'[j] = u
      <4>1. CASE u = t
        BY <4>1, <1>1, <1>7
      <4>2. CASE u # t
        <5>1. PICK j \in CheckInKeys : visited[j] = u
          BY <4>2, <3>2, <1>7 DEF IInv, RowInv, StopMatchesExecution
        <5>2. j # k
          BY <5>1, <1>1, NoneIsNone
        <5> QED
          BY <5>1, <5>2, <1>7
      <4> QED
        BY <4>1, <4>2
    <3> QED
      BY <3>1, <3>2 DEF StopMatchesExecution
  <2>4. ShortEvidenceFlagged'
    BY <1>3, <1>6, <1>7 DEF IInv, RowInv, ShortEvidenceFlagged
  <2>5. FlaggedIsReviewed'
    BY <1>7 DEF IInv, RowInv, FlaggedIsReviewed
  <2> QED
    BY <2>1, <2>2, <2>3, <2>4, <2>5 DEF RowInv
<1>9. ASSUME NEW r \in Sessions \ {s}
      PROVE  CheckOutCopy(r)' /\ UploadCopy(r)' /\ CountIsSafe(r)'
  <2>1. CheckingOut(r) \/ Uploading(r) =>
            row[r] \in CheckInKeys /\ row[r] # k /\ visited[row[r]] # NoStop
    BY <1>t, <1>1, NoneIsNone
       DEF IInv, RequestInv, TypeOK, CheckOutCopy, UploadCopy, CheckingOut, Uploading
  <2>2. CheckOutCopy(r) /\ UploadCopy(r) /\ CountIsSafe(r)
    BY DEF IInv, RequestInv
  <2>3. CheckOutCopy(r)'
    BY <1>3, <1>4, <1>t, <1>7, <2>1, <2>2 DEF OthersKeep, CheckOutCopy, CheckingOut, TypeOK
  <2>4. UploadCopy(r)'
    BY <1>3, <1>4, <1>7, <2>1, <2>2 DEF OthersKeep, UploadCopy, Uploading
  <2>5. CountIsSafe(r)'
    BY <1>3, <1>4, <1>7, <2>1, <2>2 DEF OthersKeep, CountIsSafe, CheckingOut
  <2> QED
    BY <2>3, <2>4, <2>5
<1> QED
  BY <1>t, <1>4, <1>8, <1>9, CommitFrame

\* What a check-out finds when it commits: nobody else is checking this execution out, and its
\* flags are the copy's.
LEMMA CheckOutFinds ==
    ASSUME IInv, NEW s \in Sessions, CommitCheckOut(s)
    PROVE  /\ row[s] \in CheckInKeys /\ visited[row[s]] \in Stops
           /\ closedBy[row[s]] = NoKey /\ stop[visited[row[s]]] = "IN_PROGRESS"
           /\ key[s] \in CheckOutKeys /\ key[s] # NoKey
           /\ copy[s].flags = flags[row[s]]
           /\ copy[s].review = review[row[s]] \/ review[row[s]] = "RESOLVED"
           /\ copy[s].flags # {} => copy[s].review # "NONE"
           /\ \A r \in Sessions \ {s} : CheckingOut(r) => row[r] # row[s]
<1>1. CheckOutCopy(s) /\ KeyOfItsKind(s) /\ CheckingOut(s)
  BY DEF IInv, RequestInv, CommitCheckOut, CheckingOut
<1>2. row[s] \in CheckInKeys /\ key[s] \in CheckOutKeys /\ key[s] # NoKey
  BY <1>1, NoneIsNone DEF IInv, TypeOK, CheckingOut, KeyOfItsKind
<1>3. visited[row[s]] \in Stops
  BY <1>1 DEF CheckOutCopy, IInv, TypeOK
<1>4. ASSUME NEW r \in Sessions \ {s}, CheckingOut(r), row[r] = row[s] PROVE FALSE
  BY <1>1, <1>4 DEF IInv, RequestInv, HeldApart, CheckOutCopy
<1> QED
  BY <1>1, <1>2, <1>3, <1>4 DEF CheckOutCopy

\* A check-out finishes its stop; its flags and its review go together.
LEMMA CheckOutStep == ASSUME IInv, NEW s \in Sessions, CommitCheckOut(s) PROVE IInv'
<1> DEFINE k == row[s]
           t == visited[k]
           old == copy[s]
<1>t. TypeOK /\ TypeOK'
  BY TypeStep DEF IInv, Next, Proceed
<1>f. /\ k \in CheckInKeys /\ t \in Stops /\ t # NoStop
      /\ closedBy[k] = NoKey /\ stop[t] = "IN_PROGRESS"
      /\ key[s] \in CheckOutKeys /\ key[s] # NoKey
      /\ old.flags = flags[k]
      /\ old.review = review[k] \/ review[k] = "RESOLVED"
      /\ old.flags # {} => old.review # "NONE"
      /\ \A r \in Sessions \ {s} : CheckingOut(r) => row[r] # k
  BY CheckOutFinds, NoneIsNone
<1>1. PICK F \in SUBSET Anomalies :
        LET merged == old.flags \cup F \cup (IF short[s] THEN {Insufficient} ELSE {}) IN
        /\ flags' = [flags EXCEPT ![k] = Written(old.flags, merged, @)]
        /\ review' = [review EXCEPT ![k] = Written(old.review, ReviewAtCheckOut(old, merged), @)]
  BY DEF CommitCheckOut
<1> DEFINE merged == old.flags \cup F \cup (IF short[s] THEN {Insufficient} ELSE {})
<1>2. /\ closedBy' = [closedBy EXCEPT ![k] = key[s]]
      /\ stop' = [stop EXCEPT ![t] = "DONE"]
      /\ UNCHANGED <<visited, photos>>
      /\ OutKeyFree(key[s])
      /\ pc[s] = "counted"
  BY DEF CommitCheckOut
<1>3. OthersKeep(s) /\ Ended(s)
  BY <1>t, EndKeeps DEF CommitCheckOut
<1>4. flags'[k] = merged
  BY <1>t, <1>f, <1>1 DEF TypeOK, Written
<1>5. merged # {} => review'[k] # "NONE"
  <2>1. review'[k] = Written(old.review, ReviewAtCheckOut(old, merged), review[k])
    BY <1>t, <1>f, <1>1 DEF TypeOK
  <2>2. flags[k] # {} => review[k] # "NONE"
    BY <1>f DEF IInv, RowInv, FlaggedIsReviewed
  <2> HIDE DEF k
  <2> QED
    BY <2>1, <2>2, <1>f DEF Written, ReviewAtCheckOut
<1>6. /\ \A u \in Stops : stop'[u] = IF u = t THEN "DONE" ELSE stop[u]
      /\ \A j \in CheckInKeys : /\ closedBy'[j] = IF j = k THEN key[s] ELSE closedBy[j]
                                /\ j # k => flags'[j] = flags[j] /\ review'[j] = review[j]
      /\ \A j \in CheckInKeys : visited'[j] = visited[j] /\ photos'[j] = photos[j]
  BY <1>t, <1>f, <1>1, <1>2 DEF TypeOK
<1>7. short[s] => Insufficient \in merged
  OBVIOUS
<1> HIDE DEF k, t, old, merged
<1>8. \A j \in CheckInKeys : j # k => visited[j] # t
  BY <1>f DEF IInv, RowInv, NothingDoneTwice, k, t
<1>9. RowInv'
  <2>1. NothingBeforeCheckIn'
    BY <1>6, <1>f DEF IInv, RowInv, NothingBeforeCheckIn, t
  <2>2. NothingDoneTwice'
    <3>1. \A j \in CheckInKeys : closedBy[j] # key[s]
      BY <1>2 DEF OutKeyFree
    <3> QED
      BY <3>1, <1>6 DEF IInv, RowInv, NothingDoneTwice
  <2>3. StopMatchesExecution'
    <3>1. ASSUME NEW j \in CheckInKeys, visited'[j] # NoStop
          PROVE  /\ stop'[visited'[j]] # "PENDING"
                 /\ stop'[visited'[j]] = "DONE" <=> closedBy'[j] # NoKey
      <4>1. CASE j = k
        BY <4>1, <1>f, <1>6 DEF t
      <4>2. CASE j # k
        <5>1. visited'[j] = visited[j] /\ visited[j] \in Stops /\ visited[j] # t
          BY <4>2, <3>1, <1>6, <1>8, <1>t DEF TypeOK
        <5> QED
          BY <5>1, <4>2, <3>1, <1>6 DEF IInv, RowInv, StopMatchesExecution
      <4> QED
        BY <4>1, <4>2
    <3>2. ASSUME NEW u \in Stops, stop'[u] \in {"IN_PROGRESS", "DONE"}
          PROVE  \E j \in CheckInKeys : visited'[j] = u
      BY <3>2, <1>6, <1>f DEF IInv, RowInv, StopMatchesExecution, t
    <3> QED
      BY <3>1, <3>2 DEF StopMatchesExecution
  <2>4. ShortEvidenceFlagged'
    <3>1. CountIsSafe(s)
      BY DEF IInv, RequestInv
    <3>2. visited[k] \in NeedsEvidence /\ Cardinality(photos[k]) < MinPhotos
            => Insufficient \in flags'[k]
      BY <3>1, <1>2, <1>4, <1>7 DEF CountIsSafe, k
    <3> QED
      BY <3>2, <1>6 DEF IInv, RowInv, ShortEvidenceFlagged
  <2>5. FlaggedIsReviewed'
    BY <1>4, <1>5, <1>6 DEF IInv, RowInv, FlaggedIsReviewed
  <2> QED
    BY <2>1, <2>2, <2>3, <2>4, <2>5 DEF RowInv
<1>10. ASSUME NEW r \in Sessions \ {s}
       PROVE  CheckOutCopy(r)' /\ UploadCopy(r)' /\ CountIsSafe(r)'
  <2>1. CheckOutCopy(r) /\ UploadCopy(r) /\ CountIsSafe(r)
    BY DEF IInv, RequestInv
  <2>2. CheckingOut(r) \/ Uploading(r) => row[r] \in CheckInKeys
    BY <1>t DEF TypeOK, CheckingOut, Uploading
  <2>3. CheckOutCopy(r)'
    <3> SUFFICES ASSUME CheckingOut(r)'
                 PROVE  CheckOutCopy(r)'
      BY DEF CheckOutCopy
    <3>1. CheckingOut(r) /\ row'[r] = row[r] /\ copy'[r] = copy[r] /\ held'[r] = held[r]
      BY <1>3 DEF CheckingOut, OthersKeep
    <3>2. row[r] \in CheckInKeys /\ row[r] # k /\ visited[row[r]] \in Stops
      BY <3>1, <2>1, <2>2, <1>f, <1>t DEF CheckOutCopy, TypeOK
    <3>3. visited[row[r]] # t
      BY <3>2, <1>8
    <3> QED
      BY <3>1, <3>2, <3>3, <2>1, <1>6 DEF CheckOutCopy
  <2>4. UploadCopy(r)'
    <3> SUFFICES ASSUME Uploading(r)'
                 PROVE  UploadCopy(r)'
      BY DEF UploadCopy
    <3>1. Uploading(r) /\ row'[r] = row[r] /\ copy'[r] = copy[r]
      BY <1>3 DEF Uploading, OthersKeep
    <3>2. copy[r].closed => row[r] # k
      BY <3>1, <2>1, <1>f DEF UploadCopy
    <3> QED
      BY <3>1, <3>2, <2>1, <2>2, <1>6 DEF UploadCopy
  <2>5. CountIsSafe(r)'
    <3>1. /\ pc'[r] = pc[r] /\ row'[r] = row[r] /\ key'[r] = key[r] /\ short'[r] = short[r]
          /\ pc[r] \in {"counted", "inserted"} => row[r] \in CheckInKeys
      BY <1>3, <2>2 DEF OthersKeep, CheckingOut, Uploading
    <3>2. pc[r] \in {"counted", "inserted"} =>
            photos'[row[r]] = photos[row[r]] /\ visited'[row[r]] = visited[row[r]]
      BY <3>1, <1>6
    <3> QED
      BY <3>1, <3>2, <2>1 DEF CountIsSafe
  <2> QED
    BY <2>3, <2>4, <2>5
<1> QED
  BY <1>t, <1>3, <1>9, <1>10, CommitFrame

\* A photo is added; whatever it writes on the execution takes away the photo flag at most, and
\* only when there are photos enough.
LEMMA UploadStep == ASSUME IInv, NEW s \in Sessions, CommitUpload(s) PROVE IInv'
<1> DEFINE k == row[s]
           old == copy[s]
           left == old.flags \ {Insufficient}
           drops == old.closed /\ Insufficient \in old.flags /\ ~short[s]
<1>t. TypeOK /\ TypeOK'
  BY TypeStep DEF IInv, Next, Proceed
<1>1. /\ pc[s] = "inserted" /\ k \in CheckInKeys /\ key[s] \in PhotoKeys
      /\ UploadCopy(s) /\ CountIsSafe(s)
  BY <1>t DEF CommitUpload, IInv, RequestInv, KeyOfItsKind, Uploading, TypeOK
<1>2. UNCHANGED <<stop, visited, closedBy>>
  BY DEF CommitUpload
<1>3. OthersKeep(s) /\ Ended(s)
  BY <1>t, EndKeeps DEF CommitUpload
<1>4. \A j \in CheckInKeys :
        photos'[j] = IF j = k THEN photos[j] \cup {key[s]} ELSE photos[j]
  BY <1>t, <1>1 DEF TypeOK, CommitUpload
<1>5. IF drops
      THEN /\ flags' = [flags EXCEPT ![k] = left]
           /\ review' = [review EXCEPT ![k] =
                            Written(old.review, ReviewAfterPhoto(old, left), @)]
      ELSE UNCHANGED <<flags, review>>
  BY <1>t, <1>1 DEF CommitUpload, Reconcile, Written, TypeOK
<1>6. drops => left = flags[k] \ {Insufficient} /\ closedBy[k] # NoKey
  BY <1>1 DEF UploadCopy, Uploading
<1>7. /\ \A j \in CheckInKeys : j # k => flags'[j] = flags[j] /\ review'[j] = review[j]
      /\ flags'[k] = IF drops THEN left ELSE flags[k]
      /\ ~drops => review'[k] = review[k]
  BY <1>t, <1>1, <1>5 DEF TypeOK
<1>8. drops /\ left # {} => review'[k] = review[k]
  BY <1>t, <1>1, <1>5 DEF TypeOK, Written, ReviewAfterPhoto
<1>9. drops => Cardinality(photos'[k]) >= MinPhotos
  BY <1>1, <1>4 DEF CountIsSafe
<1> HIDE DEF k, old, left, drops
<1>10. \A j \in CheckInKeys :
        /\ photos[j] \in SUBSET PhotoKeys /\ photos'[j] \in SUBSET PhotoKeys
        /\ photos[j] \subseteq photos'[j]
  BY <1>t, <1>4 DEF TypeOK
<1>11. \A j \in CheckInKeys : Cardinality(photos'[j]) < MinPhotos
                                => Cardinality(photos[j]) < MinPhotos
  <2> SUFFICES ASSUME NEW j \in CheckInKeys
               PROVE  Cardinality(photos'[j]) < MinPhotos => Cardinality(photos[j]) < MinPhotos
    OBVIOUS
  <2>1. /\ Cardinality(photos[j]) \in Nat /\ Cardinality(photos'[j]) \in Nat
        /\ Cardinality(photos[j]) <= Cardinality(photos'[j])
    BY <1>10, MorePhotos
  <2> QED
    BY <2>1, MinPhotosNat
<1>12. RowInv'
  <2>1. NothingBeforeCheckIn' /\ NothingDoneTwice' /\ StopMatchesExecution'
    <3>1. visited[k] = NoStop => flags[k] = {} /\ closedBy[k] = NoKey
      BY <1>1 DEF IInv, RowInv, NothingBeforeCheckIn, k
    <3> QED
      BY <1>2, <1>6, <1>7, <3>1
         DEF IInv, RowInv, NothingBeforeCheckIn, NothingDoneTwice, StopMatchesExecution
  <2>2. ShortEvidenceFlagged'
    <3>1. drops => ~(Cardinality(photos'[k]) < MinPhotos)
      <4>1. Cardinality(photos'[k]) \in Nat
        BY <1>1, <1>10, MorePhotos DEF k
      <4> QED
        BY <4>1, <1>9, MinPhotosNat
    <3>2. ASSUME NEW j \in CheckInKeys, closedBy'[j] # NoKey, visited'[j] \in NeedsEvidence,
                 Cardinality(photos'[j]) < MinPhotos
          PROVE  Insufficient \in flags'[j]
      <4>1. flags'[j] = flags[j]
        BY <3>1, <3>2, <1>7
      <4>2. Cardinality(photos[j]) < MinPhotos
        BY <3>2, <1>11
      <4> QED
        BY <3>2, <4>1, <4>2, <1>2 DEF IInv, RowInv, ShortEvidenceFlagged
    <3> QED
      BY <3>2 DEF ShortEvidenceFlagged
  <2>3. FlaggedIsReviewed'
    BY <1>6, <1>7, <1>8 DEF IInv, RowInv, FlaggedIsReviewed
  <2> QED
    BY <2>1, <2>2, <2>3 DEF RowInv
<1>13. ASSUME NEW r \in Sessions \ {s}
       PROVE  CheckOutCopy(r)' /\ UploadCopy(r)' /\ CountIsSafe(r)'
  <2>1. CheckOutCopy(r) /\ UploadCopy(r) /\ CountIsSafe(r)
    BY DEF IInv, RequestInv
  <2>2. /\ pc'[r] = pc[r] /\ row'[r] = row[r] /\ copy'[r] = copy[r] /\ held'[r] = held[r]
        /\ key'[r] = key[r] /\ short'[r] = short[r]
        /\ CheckingOut(r) \/ Uploading(r) => row[r] \in CheckInKeys
    BY <1>3, <1>t DEF OthersKeep, CheckingOut, Uploading, TypeOK
  <2>3. CheckOutCopy(r)'
    <3> SUFFICES ASSUME CheckingOut(r)
                 PROVE  CheckOutCopy(r)'
      BY <2>2 DEF CheckOutCopy, CheckingOut
    <3>1. flags'[row[r]] = flags[row[r]] /\ review'[row[r]] = review[row[r]]
      BY <2>1, <2>2, <1>6, <1>7 DEF CheckOutCopy
    <3> QED
      BY <3>1, <2>1, <2>2, <1>2 DEF CheckOutCopy
  <2>4. UploadCopy(r)'
    <3> SUFFICES ASSUME Uploading(r)
                 PROVE  UploadCopy(r)'
      BY <2>2 DEF UploadCopy, Uploading
    <3>1. flags'[row[r]] \ {Insufficient} = flags[row[r]] \ {Insufficient}
      BY <2>2, <1>6, <1>7
    <3> QED
      BY <3>1, <2>1, <2>2, <1>2 DEF UploadCopy
  <2>5. CountIsSafe(r)'
    <3>1. pc[r] = "counted" => row[r] \in CheckInKeys
      BY <2>2 DEF CheckingOut
    <3>2. pc[r] = "inserted" /\ ~short[r] => Cardinality(photos'[row[r]] \cup {key[r]}) >= MinPhotos
      <4> SUFFICES ASSUME pc[r] = "inserted", ~short[r]
                   PROVE  Cardinality(photos'[row[r]] \cup {key[r]}) >= MinPhotos
        OBVIOUS
      <4> DEFINE A == photos[row[r]] \cup {key[r]}
                 B == photos'[row[r]] \cup {key[r]}
      <4>1. row[r] \in CheckInKeys /\ key[r] \in PhotoKeys
        BY <2>2 DEF Uploading, IInv, RequestInv, KeyOfItsKind
      <4>2. A \in SUBSET PhotoKeys /\ B \in SUBSET PhotoKeys /\ A \subseteq B
        BY <4>1, <1>10
      <4>3. Cardinality(A) >= MinPhotos
        BY <2>1 DEF CountIsSafe
      <4> HIDE DEF A, B
      <4>4. Cardinality(A) \in Nat /\ Cardinality(B) \in Nat /\ Cardinality(A) <= Cardinality(B)
        BY <4>2, MorePhotos
      <4>5. Cardinality(B) >= MinPhotos
        BY <4>3, <4>4, MinPhotosNat
      <4> QED
        BY <4>5 DEF B
    <3> QED
      BY <3>1, <3>2, <2>1, <2>2, <1>2, <1>11 DEF CountIsSafe
  <2> QED
    BY <2>3, <2>4, <2>5
<1> QED
  BY <1>t, <1>3, <1>12, <1>13, CommitFrame

\* Resolving a review touches nothing else.
LEMMA ResolveStep == ASSUME IInv, NEW s \in Sessions, CommitResolve(s) PROVE IInv'
<1>t. TypeOK /\ TypeOK'
  BY TypeStep DEF IInv, Next, Proceed
<1>1. UNCHANGED <<stop, visited, closedBy, flags, photos>>
  BY DEF CommitResolve
<1>2. OthersKeep(s) /\ Ended(s)
  BY <1>t, EndKeeps DEF CommitResolve
<1>3. \A j \in CheckInKeys : review'[j] = review[j] \/ review'[j] = "RESOLVED"
  BY <1>t DEF TypeOK, CommitResolve
<1>4. RowInv'
  BY <1>1, <1>3 DEF IInv, RowInv, NothingBeforeCheckIn, NothingDoneTwice, StopMatchesExecution,
     ShortEvidenceFlagged, FlaggedIsReviewed
<1>5. ASSUME NEW r \in Sessions \ {s}
      PROVE  CheckOutCopy(r)' /\ UploadCopy(r)' /\ CountIsSafe(r)'
  <2>1. CheckOutCopy(r) /\ UploadCopy(r) /\ CountIsSafe(r)
    BY DEF IInv, RequestInv
  <2>2. CheckingOut(r) => row[r] \in CheckInKeys
    BY <1>t DEF TypeOK, CheckingOut
  <2>3. CheckOutCopy(r)'
    BY <2>1, <2>2, <1>1, <1>2, <1>3 DEF OthersKeep, CheckOutCopy, CheckingOut
  <2>4. UploadCopy(r)' /\ CountIsSafe(r)'
    BY <2>1, <1>1, <1>2 DEF OthersKeep, UploadCopy, CountIsSafe, Uploading
  <2> QED
    BY <2>3, <2>4
<1> QED
  BY <1>t, <1>2, <1>4, <1>5, CommitFrame

\* A release takes a live stop that no check-out keeps locked, so never one being closed.
LEMMA ReleaseStep == ASSUME IInv, NEW t \in Stops, Release(t) PROVE IInv'
<1>t. TypeOK /\ TypeOK'
  BY TypeStep DEF IInv, Next
<1>1. /\ stop[t] \in {"PENDING", "IN_PROGRESS"} /\ \A s \in Sessions : t \notin held[s]
      /\ \A u \in Stops : stop'[u] = IF u = t THEN "RELEASED" ELSE stop[u]
      /\ UNCHANGED <<execution, photos, requests>>
  BY <1>t DEF TypeOK, Release, IsLive
<1>2. StopMatchesExecution'
  <2>1. ASSUME NEW j \in CheckInKeys, visited[j] # NoStop
        PROVE  /\ stop'[visited[j]] # "PENDING"
               /\ stop'[visited[j]] = "DONE" <=> closedBy[j] # NoKey
    <3>1. visited[j] \in Stops
      BY <2>1, <1>t DEF TypeOK
    <3>2. /\ stop[visited[j]] # "PENDING"
          /\ stop[visited[j]] = "DONE" <=> closedBy[j] # NoKey
      BY <2>1 DEF IInv, RowInv, StopMatchesExecution
    <3> QED
      BY <1>1, <3>1, <3>2
  <2>2. ASSUME NEW u \in Stops, stop'[u] \in {"IN_PROGRESS", "DONE"}
        PROVE  \E j \in CheckInKeys : visited[j] = u
    BY <2>2, <1>1 DEF IInv, RowInv, StopMatchesExecution
  <2> QED
    BY <1>1, <2>1, <2>2 DEF StopMatchesExecution, execution
<1>3. RowInv'
  BY <1>1, <1>2 DEF IInv, RowInv, execution, NothingBeforeCheckIn, NothingDoneTwice,
     ShortEvidenceFlagged, FlaggedIsReviewed
<1>4. HeldApart'
  BY <1>1 DEF IInv, HeldApart, requests
<1>5. ASSUME NEW r \in Sessions
      PROVE  KeyOfItsKind(r)' /\ CheckOutCopy(r)' /\ UploadCopy(r)' /\ CountIsSafe(r)'
  <2>1. KeyOfItsKind(r) /\ CheckOutCopy(r) /\ UploadCopy(r) /\ CountIsSafe(r)
    BY DEF IInv, RequestInv
  <2>2. CheckOutCopy(r)'
    <3>1. CheckingOut(r) => visited[row[r]] \in Stops /\ visited[row[r]] # t
      BY <2>1, <1>1, <1>t DEF CheckOutCopy, TypeOK
    <3> QED
      BY <3>1, <2>1, <1>1 DEF CheckOutCopy, CheckingOut, execution, requests
  <2>3. KeyOfItsKind(r)' /\ UploadCopy(r)' /\ CountIsSafe(r)'
    BY <2>1, <1>1
       DEF KeyOfItsKind, UploadCopy, CountIsSafe, CheckingOut, Uploading, execution, requests
  <2> QED
    BY <2>2, <2>3
<1> QED
  BY <1>t, <1>3, <1>4, <1>5 DEF IInv, RequestInv

-----------------------------------------------------------------------------
(* The theorems *)

\* The floor starts with PENDING stops, no execution and no request.
LEMMA InitIInv == Init => IInv
<1> SUFFICES ASSUME Init PROVE IInv
  OBVIOUS
<1>1. TypeOK
  BY DEF Init, TypeOK, RouteStopStatus, ExecutionReviewStatus
<1>2. RowInv
  BY DEF Init, RowInv, NothingBeforeCheckIn, NothingDoneTwice, StopMatchesExecution,
     ShortEvidenceFlagged, FlaggedIsReviewed
<1>3. HeldApart /\ RequestInv
  BY DEF Init, HeldApart, RequestInv, KeyOfItsKind, CheckOutCopy, UploadCopy, CountIsSafe,
     CheckingOut, Uploading
<1> QED
  BY <1>1, <1>2, <1>3 DEF IInv

\* Every step preserves the invariant.
LEMMA StepIInv == IInv /\ [Next]_vars => IInv'
<1> SUFFICES ASSUME IInv, [Next]_vars PROVE IInv'
  OBVIOUS
<1>1. CASE UNCHANGED vars
  <2>1. TypeOK'
    BY TypeStep
  <2>2. RowInv'
    BY <1>1 DEF IInv, vars, db, execution, RowInv, NothingBeforeCheckIn, NothingDoneTwice,
       StopMatchesExecution, ShortEvidenceFlagged, FlaggedIsReviewed
  <2>3. HeldApart'
    BY <1>1 DEF IInv, vars, requests, HeldApart
  <2>4. RequestInv'
    BY <1>1 DEF IInv, vars, db, execution, requests, RequestInv, KeyOfItsKind, CheckOutCopy,
       UploadCopy, CountIsSafe, CheckingOut, Uploading
  <2> QED
    BY <2>1, <2>2, <2>3, <2>4 DEF IInv
<1>2. ASSUME NEW s \in Sessions, Proceed(s) PROVE IInv'
  BY <1>2, CheckInStep, LoadStep, CountStep, CheckOutStep, InsertStep, UploadStep, ResolveStep
     DEF Proceed
<1>3. ASSUME NEW s \in Sessions, Ask(s) PROVE IInv'
  BY <1>3, AskStep
<1>4. ASSUME NEW s \in Sessions, Rollback(s) PROVE IInv'
  BY <1>4, RollbackStep
<1>5. ASSUME NEW t \in Stops, Release(t) PROVE IInv'
  BY <1>5, ReleaseStep
<1> QED
  BY <1>1, <1>2, <1>3, <1>4, <1>5 DEF Next

\* The invariant holds in every reachable state.
LEMMA InvariantHolds == Spec => []IInv
  BY InitIInv, StepIInv, PTL DEF Spec

\* The types, and which steps of a request hold a copy and stop locks.
THEOREM ExecutionTypes == Spec => []TypeOK
<1>1. IInv => TypeOK
  BY DEF IInv
<1> QED
  BY <1>1, InvariantHolds, PTL

\* No stop is executed twice and no check-out key closes two executions, with any number of
\* retries in flight (execution/service.py, the idempotency keys).
THEOREM NothingIsDoneTwice == Spec => []NothingDoneTwice
<1>1. IInv => NothingDoneTwice
  BY DEF IInv, RowInv
<1> QED
  BY <1>1, InvariantHolds, PTL

\* A stop and its execution never disagree on whether the work was checked out
\* (execution/service.py, check_in and check_out).
THEOREM StopsMatchExecutions == Spec => []StopMatchesExecution
<1>1. IInv => StopMatchesExecution
  BY DEF IInv, RowInv
<1> QED
  BY <1>1, InvariantHolds, PTL

\* Work closed with too few photos is flagged, for any number of uploads racing the check-out
\* (evidence_service.py, reconcile_evidence_flag).
THEOREM ShortEvidenceIsFlagged == Spec => []ShortEvidenceFlagged
<1>1. IInv => ShortEvidenceFlagged
  BY DEF IInv, RowInv
<1> QED
  BY <1>1, InvariantHolds, PTL

\* A flagged execution was put in front of a manager (execution/service.py, review_status).
THEOREM FlaggedIsAlwaysReviewed == Spec => []FlaggedIsReviewed
<1>1. IInv => FlaggedIsReviewed
  BY DEF IInv, RowInv
<1> QED
  BY <1>1, InvariantHolds, PTL

\* What is settled is final: a stop finished or released stays so, whatever check-in, check-out
\* or release was waiting for it, a closed execution keeps its check-out, and the anomalies of a
\* scan are never erased (execution/service.py, "never a RELEASED stop flipped back").
SettledIsFinal ==
    [][/\ \A t \in Stops : stop[t] \in {"DONE", "RELEASED"} => stop'[t] = stop[t]
       /\ \A k \in CheckInKeys :
            /\ closedBy[k] # NoKey => closedBy'[k] = closedBy[k]
            /\ flags[k] \cap Anomalies \subseteq flags'[k]]_vars

\* No step undoes what is settled.
LEMMA SettledStep ==
    IInv /\ [Next]_vars =>
        /\ \A t \in Stops : stop[t] \in {"DONE", "RELEASED"} => stop'[t] = stop[t]
        /\ \A k \in CheckInKeys :
            /\ closedBy[k] # NoKey => closedBy'[k] = closedBy[k]
            /\ flags[k] \cap Anomalies \subseteq flags'[k]
<1> DEFINE Settled ==
        /\ \A t \in Stops : stop[t] \in {"DONE", "RELEASED"} => stop'[t] = stop[t]
        /\ \A k \in CheckInKeys :
            /\ closedBy[k] # NoKey => closedBy'[k] = closedBy[k]
            /\ flags[k] \cap Anomalies \subseteq flags'[k]
<1> SUFFICES ASSUME IInv, [Next]_vars PROVE Settled
  OBVIOUS
<1>t. TypeOK
  BY DEF IInv
<1>q. ASSUME UNCHANGED <<stop, closedBy, flags>> PROVE Settled
  BY <1>q
<1>1. CASE UNCHANGED vars
  BY <1>1, <1>q DEF vars, db, execution
<1>2. ASSUME NEW s \in Sessions, Ask(s) PROVE Settled
  BY <1>2, <1>q DEF Ask, BeginCheckIn, BeginResolve, BeginCheckOut, BeginUpload, db, execution
<1>3. ASSUME NEW s \in Sessions, CommitCheckIn(s) PROVE Settled
  <2>1. key[s] \in CheckInKeys /\ flags[key[s]] = {}
    BY <1>3 DEF IInv, RequestInv, KeyOfItsKind, CommitCheckIn, RowInv, NothingBeforeCheckIn
  <2> QED
    BY <1>3, <1>t, <2>1 DEF CommitCheckIn, TypeOK
<1>4. ASSUME NEW s \in Sessions, CommitCheckOut(s) PROVE Settled
  <2>1. /\ row[s] \in CheckInKeys /\ visited[row[s]] \in Stops
        /\ closedBy[row[s]] = NoKey /\ stop[visited[row[s]]] = "IN_PROGRESS"
        /\ copy[s].flags = flags[row[s]]
    BY <1>4, CheckOutFinds
  <2>2. \A t \in Stops : stop[t] \in {"DONE", "RELEASED"} => stop'[t] = stop[t]
    BY <1>4, <1>t, <2>1 DEF CommitCheckOut, TypeOK
  <2>3. \A k \in CheckInKeys : closedBy[k] # NoKey => closedBy'[k] = closedBy[k]
    BY <1>4, <1>t, <2>1 DEF CommitCheckOut, TypeOK
  <2>4. PICK merged : copy[s].flags \subseteq merged
            /\ flags' = [flags EXCEPT ![row[s]] = Written(copy[s].flags, merged, @)]
    BY <1>4 DEF CommitCheckOut
  <2>5. \A k \in CheckInKeys : flags[k] \subseteq flags'[k]
    BY <1>t, <2>1, <2>4 DEF TypeOK, Written
  <2> QED
    BY <2>2, <2>3, <2>5
<1>5. ASSUME NEW s \in Sessions, CommitUpload(s) PROVE Settled
  <2>1. row[s] \in CheckInKeys /\ UploadCopy(s)
    BY <1>5, <1>t DEF CommitUpload, IInv, RequestInv, TypeOK
  <2>2. \/ flags' = flags
        \/ /\ copy[s].closed
           /\ flags' = [flags EXCEPT ![row[s]] =
                            Written(copy[s].flags, copy[s].flags \ {Insufficient}, @)]
    BY <1>5 DEF CommitUpload, Reconcile
  <2>3. copy[s].closed => copy[s].flags \ {Insufficient} = flags[row[s]] \ {Insufficient}
    BY <1>5, <2>1 DEF CommitUpload, UploadCopy, Uploading
  <2>4. \A k \in CheckInKeys : flags[k] \cap Anomalies \subseteq flags'[k]
    BY <1>t, <2>1, <2>2, <2>3, NoneIsNone DEF TypeOK, Written
  <2> QED
    BY <1>5, <2>4 DEF CommitUpload
<1>6. ASSUME NEW s \in Sessions,
             LoadOpenCheckin(s) \/ CountPhotos(s) \/ InsertAndCount(s) \/ CommitResolve(s)
                \/ Rollback(s)
      PROVE  Settled
  BY <1>6, <1>q DEF LoadOpenCheckin, CountPhotos, InsertAndCount, CommitResolve, Rollback,
     db, execution
<1>7. ASSUME NEW t \in Stops, Release(t) PROVE Settled
  BY <1>7, <1>t DEF Release, IsLive, TypeOK, execution
<1> QED
  BY <1>1, <1>2, <1>3, <1>4, <1>5, <1>6, <1>7 DEF Next, Proceed

\* Finished and released stops, closed executions and the anomalies of a scan are never undone
\* (execution/service.py, check_out; release.py, release_stops).
THEOREM SettledStaysFinal == Spec => SettledIsFinal
  BY InvariantHolds, SettledStep, PTL DEF Spec, SettledIsFinal
-----------------------------------------------------------------------------
(* StopExecution implements StopRecord *)

\* A photo that is inserted has a key no other photo has, committed or not.
InsertedIsNew(s) ==
    pc[s] = "inserted" =>
        /\ \A j \in CheckInKeys : key[s] \notin photos[j]
        /\ \A r \in Sessions \ {s} : pc[r] = "inserted" => key[r] # key[s]

\* Only work that needs evidence is ever short of it.
ShortNeedsEvidence(s) == pc[s] = "counted" /\ short[s] => visited[row[s]] \in NeedsEvidence

RecordInv == \A s \in Sessions : InsertedIsNew(s) /\ ShortNeedsEvidence(s)

\* A request that neither inserts a photo nor counts for a check-out endangers neither.
LEMMA OthersKeepRecordInv ==
    ASSUME IInv, RecordInv, IInv', NEW s \in Sessions, OthersKeep(s),
           UNCHANGED <<visited, photos>>, pc'[s] \notin {"inserted", "counted"}
    PROVE  RecordInv'
<1> SUFFICES ASSUME NEW r \in Sessions PROVE (InsertedIsNew(r) /\ ShortNeedsEvidence(r))'
  BY DEF RecordInv
<1>1. CASE r = s
  BY <1>1 DEF InsertedIsNew, ShortNeedsEvidence
<1>2. CASE r # s
  BY <1>2 DEF RecordInv, OthersKeep, InsertedIsNew, ShortNeedsEvidence
<1> QED  BY <1>1, <1>2

LEMMA StepRecordInv == IInv /\ RecordInv /\ [Next]_vars => RecordInv'
<1> SUFFICES ASSUME IInv, RecordInv, [Next]_vars PROVE RecordInv'
  OBVIOUS
<1>0. TypeOK /\ IInv'
  BY StepIInv DEF IInv
<1>1. CASE UNCHANGED vars
  BY <1>1 DEF vars, db, execution, requests, RecordInv, InsertedIsNew, ShortNeedsEvidence
<1>2. ASSUME NEW s \in Sessions,
             Ask(s) \/ LoadOpenCheckin(s) \/ CommitCheckOut(s) \/ CommitResolve(s) \/ Rollback(s)
      PROVE  RecordInv'
  <2>1. OthersKeep(s) /\ UNCHANGED <<visited, photos>> /\ pc'[s] \notin {"inserted", "counted"}
    BY <1>0, <1>2
       DEF Ask, BeginCheckIn, BeginResolve, BeginCheckOut, BeginUpload, LoadOpenCheckin,
           CommitCheckOut, CommitResolve, Rollback, EndRequest, OthersKeep, TypeOK, db, execution
  <2> QED  BY <1>0, <2>1, OthersKeepRecordInv
<1>3. ASSUME NEW s \in Sessions, CommitCheckIn(s) PROVE RecordInv'
  <2>1. OthersKeep(s) /\ Ended(s) /\ UNCHANGED photos
    BY <1>0, <1>3, EndKeeps DEF CommitCheckIn
  <2>2. \A j \in CheckInKeys : visited[j] # NoStop => visited'[j] = visited[j]
    BY <1>0, <1>3 DEF CommitCheckIn, TypeOK
  <2>3. ASSUME NEW r \in Sessions, CheckingOut(r)
        PROVE  row[r] \in CheckInKeys /\ visited[row[r]] # NoStop
    BY <1>0, <2>3, NoneIsNone DEF CheckingOut, IInv, RequestInv, CheckOutCopy, TypeOK
  <2>4. ASSUME NEW r \in Sessions PROVE (InsertedIsNew(r) /\ ShortNeedsEvidence(r))'
    <3>1. CASE r = s
      BY <2>1, <3>1 DEF Ended, InsertedIsNew, ShortNeedsEvidence
    <3>2. CASE r # s
      <4>1. InsertedIsNew(r)'
        BY <2>1, <3>2 DEF RecordInv, OthersKeep, Ended, InsertedIsNew
      <4>2. ShortNeedsEvidence(r)'
        BY <2>1, <2>2, <2>3, <3>2 DEF RecordInv, OthersKeep, CheckingOut, ShortNeedsEvidence
      <4> QED  BY <4>1, <4>2
    <3> QED  BY <3>1, <3>2
  <2> QED  BY <2>4 DEF RecordInv
<1>4. ASSUME NEW s \in Sessions, CountPhotos(s) PROVE RecordInv'
  BY <1>0, <1>4 DEF CountPhotos, TypeOK, db, execution, RecordInv, InsertedIsNew, ShortNeedsEvidence
<1>5. ASSUME NEW s \in Sessions, InsertAndCount(s) PROVE RecordInv'
  BY <1>0, <1>5 DEF InsertAndCount, TypeOK, db, execution, RecordInv, InsertedIsNew, ShortNeedsEvidence
<1>6. ASSUME NEW s \in Sessions, CommitUpload(s) PROVE RecordInv'
  <2>1. OthersKeep(s) /\ Ended(s) /\ UNCHANGED visited
    BY <1>0, <1>6, EndKeeps DEF CommitUpload
  <2>2. \A j \in CheckInKeys : photos'[j] \subseteq photos[j] \cup {key[s]}
    BY <1>0, <1>6 DEF CommitUpload, TypeOK
  <2>3. \A r \in Sessions \ {s} : pc[r] = "inserted" => key[r] # key[s]
    BY <1>6 DEF RecordInv, InsertedIsNew, CommitUpload
  <2>4. ASSUME NEW r \in Sessions PROVE (InsertedIsNew(r) /\ ShortNeedsEvidence(r))'
    <3>1. CASE r = s
      BY <2>1, <3>1 DEF Ended, InsertedIsNew, ShortNeedsEvidence
    <3>2. CASE r # s
      <4>1. InsertedIsNew(r)'
        BY <2>1, <2>2, <2>3, <3>2 DEF RecordInv, OthersKeep, Ended, InsertedIsNew
      <4>2. ShortNeedsEvidence(r)'
        BY <2>1, <3>2 DEF RecordInv, OthersKeep, ShortNeedsEvidence
      <4> QED  BY <4>1, <4>2
    <3> QED  BY <3>1, <3>2
  <2> QED  BY <2>4 DEF RecordInv
<1>7. ASSUME NEW t \in Stops, Release(t) PROVE RecordInv'
  BY <1>7 DEF Release, execution, requests, RecordInv, InsertedIsNew, ShortNeedsEvidence
<1> QED
  BY <1>1, <1>2, <1>3, <1>4, <1>5, <1>6, <1>7 DEF Next, Proceed

LEMMA RefineInit == Init => Record!RecordInit
  BY DEF Init, Record!RecordInit

\* A step that writes no row but a review is a stutter of the record.
LEMMA RecordStutters ==
    ASSUME UNCHANGED <<stop, visited, closedBy, flags, photos>>
    PROVE  UNCHANGED Record!recordVars
  BY DEF Record!recordVars

\* The record counts photos as the code does.
LEMMA RecordCounts == \A S : Record!Cardinality(S) = Cardinality(S)
  BY DEF Cardinality, Record!Cardinality, IsFiniteSet, Record!IsFiniteSet

LEMMA CheckInIsRecorded ==
    ASSUME IInv, NEW s \in Sessions, CommitCheckIn(s)
    PROVE  Record!RecordNext
<1>1. key[s] \in CheckInKeys
  BY DEF IInv, RequestInv, KeyOfItsKind, CommitCheckIn
<1>2. PICK t \in Stops, F \in SUBSET Anomalies :
        /\ stop[t] = "PENDING"
        /\ stop'    = [stop EXCEPT ![t] = "IN_PROGRESS"]
        /\ visited' = [visited EXCEPT ![key[s]] = t]
        /\ flags'   = [flags EXCEPT ![key[s]] = F]
  BY DEF CommitCheckIn
<1>3. Record!CheckIn(key[s], t, F)
  BY <1>2 DEF CommitCheckIn, Record!CheckIn
<1> QED  BY <1>1, <1>3 DEF Record!RecordNext

\* The copy a check-out wrote from has the flags of the row, and its count was not too high.
LEMMA CheckOutIsRecorded ==
    ASSUME IInv, RecordInv, NEW s \in Sessions, CommitCheckOut(s)
    PROVE  Record!RecordNext
<1> DEFINE k == row[s]
<1>1. /\ k \in CheckInKeys /\ visited[k] \in Stops
      /\ closedBy[k] = NoKey /\ stop[visited[k]] = "IN_PROGRESS"
      /\ copy[s].flags = flags[k]
  BY CheckOutFinds
<1>2. key[s] \in CheckOutKeys
  BY DEF IInv, RequestInv, KeyOfItsKind, CommitCheckOut, CheckingOut
<1>3. PICK F \in SUBSET Anomalies :
        flags' = [flags EXCEPT ![k] =
            Written(flags[k], flags[k] \cup F \cup (IF short[s] THEN {Insufficient} ELSE {}), @)]
  BY <1>1 DEF CommitCheckOut
<1> DEFINE G == F \cup (IF short[s] THEN {Insufficient} ELSE {})
<1>4. flags' = [flags EXCEPT ![k] = @ \cup G]
  BY <1>1, <1>3 DEF Written
<1>5. G \in SUBSET (Anomalies \cup {Insufficient}) /\ (Insufficient \in G <=> short[s])
  BY <1>3, NoneIsNone
<1>6. visited[k] \in NeedsEvidence /\ Cardinality(photos[k]) < MinPhotos => short[s]
  BY DEF IInv, RequestInv, CountIsSafe, CommitCheckOut
<1>7. short[s] => visited[k] \in NeedsEvidence
  BY DEF RecordInv, ShortNeedsEvidence, CommitCheckOut
<1>8. /\ closedBy' = [closedBy EXCEPT ![k] = key[s]]
      /\ stop' = [stop EXCEPT ![visited[k]] = "DONE"]
      /\ UNCHANGED <<visited, photos>>
      /\ \A j \in CheckInKeys : closedBy[j] # key[s]
  BY DEF CommitCheckOut, OutKeyFree
<1> HIDE DEF G, k
<1>9. Record!CheckOut(k, key[s], G)
  BY <1>1, <1>4, <1>5, <1>6, <1>7, <1>8, NoneIsNone, RecordCounts DEF Record!CheckOut
<1> QED  BY <1>1, <1>2, <1>5, <1>9 DEF Record!RecordNext

\* What a late photo writes over the flags of closed work differs by the photo flag only.
LEMMA UploadIsRecorded ==
    ASSUME IInv, RecordInv, NEW s \in Sessions, CommitUpload(s)
    PROVE  Record!RecordNext
<1> DEFINE k == row[s]
           clears == flags' # flags
<1>1. k \in CheckInKeys /\ key[s] \in PhotoKeys /\ visited[k] # NoStop /\ UploadCopy(s)
  BY DEF IInv, TypeOK, RequestInv, KeyOfItsKind, UploadCopy, Uploading, CommitUpload
<1>2. key[s] \notin Record!Taken
  BY DEF Record!Taken, RecordInv, InsertedIsNew, CommitUpload
<1>3. CASE flags' = flags
  <2>1. Record!AddPhoto(k, key[s], FALSE)
    BY <1>1, <1>2, <1>3 DEF Record!AddPhoto, CommitUpload, IInv, TypeOK
  <2> QED  BY <1>1, <2>1 DEF Record!RecordNext
<1>4. CASE flags' # flags
  <2>1. /\ copy[s].closed /\ ~short[s] /\ Insufficient \in copy[s].flags
        /\ flags' = [flags EXCEPT ![k] =
                         Written(copy[s].flags, copy[s].flags \ {Insufficient}, @)]
    BY <1>4 DEF CommitUpload, Reconcile
  <2>2. closedBy[k] # NoKey /\ copy[s].flags \ {Insufficient} = flags[k] \ {Insufficient}
    BY <1>1, <2>1 DEF UploadCopy, Uploading, CommitUpload
  <2>3. flags' = [flags EXCEPT ![k] = @ \ {Insufficient}]
    BY <2>1, <2>2 DEF Written
  <2>4. Cardinality(photos[k] \cup {key[s]}) >= MinPhotos
    BY <2>1 DEF IInv, RequestInv, CountIsSafe, CommitUpload
  <2>5. Record!AddPhoto(k, key[s], TRUE)
    BY <1>1, <1>2, <2>2, <2>3, <2>4, RecordCounts DEF Record!AddPhoto, CommitUpload
  <2> QED  BY <1>1, <2>5 DEF Record!RecordNext
<1> QED  BY <1>3, <1>4

LEMMA RefineStep == IInv /\ RecordInv /\ [Next]_vars => [Record!RecordNext]_(Record!recordVars)
<1> SUFFICES ASSUME IInv, RecordInv, [Next]_vars
             PROVE  Record!RecordNext \/ UNCHANGED Record!recordVars
  OBVIOUS
<1>1. CASE UNCHANGED vars
  BY <1>1, RecordStutters DEF vars, db, execution
<1>2. ASSUME NEW s \in Sessions,
             Ask(s) \/ LoadOpenCheckin(s) \/ CountPhotos(s) \/ InsertAndCount(s)
                \/ CommitResolve(s) \/ Rollback(s)
      PROVE  UNCHANGED Record!recordVars
  BY <1>2, RecordStutters
     DEF Ask, BeginCheckIn, BeginResolve, BeginCheckOut, BeginUpload, LoadOpenCheckin,
         CountPhotos, InsertAndCount, CommitResolve, Rollback, db, execution
<1>3. ASSUME NEW s \in Sessions, CommitCheckIn(s) \/ CommitCheckOut(s) \/ CommitUpload(s)
      PROVE  Record!RecordNext
  BY <1>3, CheckInIsRecorded, CheckOutIsRecorded, UploadIsRecorded
<1>4. ASSUME NEW t \in Stops, Release(t) PROVE Record!RecordNext
  <2>1. Record!GiveBack(t)
    BY <1>4 DEF Record!GiveBack, Release, IsLive, execution
  <2> QED  BY <2>1 DEF Record!RecordNext
<1> QED
  BY <1>1, <1>2, <1>3, <1>4 DEF Next, Proceed

\* Every request on a stop works as if it ran alone when it commits (execution/service.py,
\* check_in, check_out; evidence_service.py, add_photo; release.py, release_stops).
THEOREM ExecutionImplementsStopRecord == Spec => ImplementsStopRecord
<1>1. Init => RecordInv /\ Record!RecordInit
  BY RefineInit DEF Init, RecordInv, InsertedIsNew, ShortNeedsEvidence
<1> QED
  BY <1>1, InitIInv, StepIInv, StepRecordInv, RefineStep, PTL
     DEF Spec, ImplementsStopRecord, Record!RecordSpec

-----------------------------------------------------------------------------
(* What is written of reviews, while nobody resolves one under a request *)

\* No manager is resolving the review of an execution while a check-out or a photo of it is in
\* flight.
ResolvesApart ==
    \A r, s \in Sessions :
        pc[r] = "resolving" /\ (CheckingOut(s) \/ Uploading(s)) => row[r] # row[s]

\* The review a request may write over is the one it loaded, or was not resolved since.
ReviewAsLoaded(s) ==
    /\ CheckingOut(s) => copy[s].review = review[row[s]]
    /\ Uploading(s) /\ review[row[s]] = "RESOLVED" => copy[s].review = "RESOLVED"

\* Before its check-in an execution has no review.
NoReviewBeforeCheckIn ==
    /\ \A k \in CheckInKeys : visited[k] = NoStop => review[k] = "NONE"
    /\ \A s \in Sessions : pc[s] = "resolving" => visited[row[s]] # NoStop

CopiesInv == NoReviewBeforeCheckIn /\ \A s \in Sessions : ReviewAsLoaded(s)

\* A step of s that resolves no other execution's review and starts no copy endangers only s.
LEMMA OthersKeepCopies ==
    ASSUME IInv, CopiesInv, NEW s \in Sessions, OthersKeep(s),
           \A r \in Sessions \ {s} :
               /\ CheckingOut(r) => review'[row[r]] = review[row[r]]
               /\ Uploading(r) /\ review'[row[r]] = "RESOLVED" => review[row[r]] = "RESOLVED",
           ReviewAsLoaded(s)'
    PROVE  \A r \in Sessions : ReviewAsLoaded(r)'
<1> SUFFICES ASSUME NEW r \in Sessions \ {s} PROVE ReviewAsLoaded(r)'
  OBVIOUS
<1> QED  BY DEF CopiesInv, OthersKeep, ReviewAsLoaded, CheckingOut, Uploading

\* An upload writes nothing over the review of an open execution, and never RESOLVED.
LEMMA UploadReviews ==
    ASSUME IInv, NEW s \in Sessions, CommitUpload(s)
    PROVE  /\ row[s] \in CheckInKeys /\ UploadCopy(s) /\ Uploading(s)
           /\ \A k \in CheckInKeys :
                  /\ review'[k] = review[k] \/ (k = row[s] /\ closedBy[k] # NoKey
                                                  /\ copy[s].review = "PENDING_REVIEW")
                  /\ review'[k] = "RESOLVED" => review[k] = "RESOLVED"
<1>0. TypeOK
  BY DEF IInv
<1>1. row[s] \in CheckInKeys /\ UploadCopy(s) /\ Uploading(s)
  BY <1>0 DEF CommitUpload, IInv, RequestInv, TypeOK, Uploading
<1>2. CASE review' = review
  BY <1>1, <1>2
<1>3. CASE review' # review
  <2>1. /\ copy[s].closed
        /\ review' = [review EXCEPT ![row[s]] =
               Written(copy[s].review,
                       ReviewAfterPhoto(copy[s], copy[s].flags \ {Insufficient}), @)]
    BY <1>3 DEF CommitUpload, Reconcile
  <2>2. copy[s].review = "PENDING_REVIEW" /\ review' = [review EXCEPT ![row[s]] = "NONE"]
    BY <1>0, <1>1, <1>3, <2>1 DEF ReviewAfterPhoto, Written, TypeOK
  <2>3. closedBy[row[s]] # NoKey
    BY <1>1, <2>1 DEF UploadCopy
  <2> QED  BY <1>0, <1>1, <2>2, <2>3 DEF TypeOK
<1> QED  BY <1>2, <1>3

\* A check-out writes over one review, and never RESOLVED.
LEMMA CheckOutReviews ==
    ASSUME IInv, NEW s \in Sessions, CommitCheckOut(s)
    PROVE  /\ \A k \in CheckInKeys \ {row[s]} : review'[k] = review[k]
           /\ review'[row[s]] = "RESOLVED" => review[row[s]] = "RESOLVED"
<1>0. TypeOK /\ row[s] \in CheckInKeys
  BY CheckOutFinds DEF IInv
<1>1. PICK merged :
        review' = [review EXCEPT
            ![row[s]] = Written(copy[s].review, ReviewAtCheckOut(copy[s], merged), @)]
  BY DEF CommitCheckOut
<1> QED  BY <1>0, <1>1 DEF TypeOK, Written, ReviewAtCheckOut

LEMMA StepCopies == IInv /\ CopiesInv /\ ResolvesApart /\ [Next]_vars => CopiesInv'
<1> SUFFICES ASSUME IInv, CopiesInv, ResolvesApart, [Next]_vars PROVE CopiesInv'
  OBVIOUS
<1>0. TypeOK /\ IInv' /\ TypeOK'
  BY StepIInv DEF IInv
<1>1. CASE UNCHANGED vars
  BY <1>1 DEF vars, db, execution, requests, CopiesInv, NoReviewBeforeCheckIn, ReviewAsLoaded,
              CheckingOut, Uploading
<1>2. ASSUME NEW s \in Sessions, Ask(s) PROVE CopiesInv'
  <2>1. OthersKeep(s) /\ UNCHANGED <<visited, review>>
    BY <1>0, <1>2 DEF Ask, BeginCheckIn, BeginResolve, BeginCheckOut, BeginUpload, OthersKeep,
                      TypeOK, db, execution
  <2>2. ReviewAsLoaded(s)'
    <3>1. ~CheckingOut(s)'
      BY <1>0, <1>2 DEF Ask, BeginCheckIn, BeginResolve, BeginCheckOut, BeginUpload, TypeOK, CheckingOut
    <3>2. ASSUME Uploading(s)' PROVE copy'[s].review = review'[row'[s]]
      BY <1>0, <1>2, <2>1, <3>2
         DEF Ask, BeginCheckIn, BeginResolve, BeginCheckOut, BeginUpload, TypeOK, Uploading, Loaded
    <3> QED  BY <3>1, <3>2 DEF ReviewAsLoaded
  <2>3. pc'[s] = "resolving" => row'[s] \in CheckInKeys /\ review[row'[s]] # "NONE"
    BY <1>0, <1>2 DEF Ask, BeginCheckIn, BeginResolve, BeginCheckOut, BeginUpload, TypeOK
  <2>4. NoReviewBeforeCheckIn'
    BY <2>1, <2>3 DEF CopiesInv, NoReviewBeforeCheckIn, OthersKeep
  <2> QED  BY <2>1, <2>2, <2>4, OthersKeepCopies DEF CopiesInv
<1>3. ASSUME NEW s \in Sessions, CommitCheckIn(s) PROVE CopiesInv'
  <2>1. OthersKeep(s) /\ Ended(s)
    BY <1>0, <1>3, EndKeeps DEF CommitCheckIn
  <2>2. PICK t, new : /\ t \in Stops
                      /\ visited' = [visited EXCEPT ![key[s]] = t]
                      /\ review' = [review EXCEPT ![key[s]] = new]
    BY <1>3 DEF CommitCheckIn
  <2>3. key[s] \in CheckInKeys /\ visited[key[s]] = NoStop
    BY <1>3 DEF CommitCheckIn, IInv, RequestInv, KeyOfItsKind
  <2>4. \A k \in CheckInKeys : visited[k] # NoStop => visited'[k] # NoStop /\ review'[k] = review[k]
    BY <1>0, <2>2, <2>3 DEF TypeOK
  <2>5. ASSUME NEW r \in Sessions \ {s},
               CheckingOut(r) \/ Uploading(r) \/ pc[r] = "resolving"
        PROVE  row[r] \in CheckInKeys /\ visited[row[r]] # NoStop
    <3>1. CheckingOut(r) \/ Uploading(r) => row[r] \in CheckInKeys
      BY <1>0 DEF TypeOK, CheckingOut, Uploading
    <3>2. pc[r] = "resolving" => row[r] \in CheckInKeys /\ visited[row[r]] # NoStop
      BY DEF IInv, RequestInv, KeyOfItsKind, CopiesInv, NoReviewBeforeCheckIn
    <3>3. CheckingOut(r) => visited[row[r]] \in Stops
      BY <1>0 DEF IInv, RequestInv, CheckOutCopy, TypeOK
    <3>4. Uploading(r) => visited[row[r]] # NoStop
      BY DEF IInv, RequestInv, UploadCopy
    <3> QED  BY <2>5, <3>1, <3>2, <3>3, <3>4, NoneIsNone
  <2>6. ReviewAsLoaded(s)'
    BY <2>1 DEF Ended, ReviewAsLoaded, CheckingOut, Uploading
  <2>7. NoReviewBeforeCheckIn'
    <3>1. \A k \in CheckInKeys : visited'[k] = NoStop => review'[k] = "NONE"
      BY <1>0, <2>2, <2>3, NoneIsNone DEF TypeOK, CopiesInv, NoReviewBeforeCheckIn
    <3>2. \A r \in Sessions : pc'[r] = "resolving" => visited'[row'[r]] # NoStop
      BY <2>1, <2>4, <2>5 DEF OthersKeep, Ended
    <3> QED  BY <3>1, <3>2 DEF NoReviewBeforeCheckIn
  <2> QED  BY <2>1, <2>4, <2>5, <2>6, <2>7, OthersKeepCopies DEF CopiesInv
<1>4. ASSUME NEW s \in Sessions, LoadOpenCheckin(s) PROVE CopiesInv'
  <2>1. OthersKeep(s) /\ UNCHANGED <<visited, review>> /\ pc'[s] = "loaded"
    BY <1>0, <1>4 DEF LoadOpenCheckin, OthersKeep, TypeOK, db, execution
  <2>2. ReviewAsLoaded(s)'
    BY <1>0, <1>4, <2>1 DEF LoadOpenCheckin, TypeOK, ReviewAsLoaded, Uploading, Loaded
  <2>3. NoReviewBeforeCheckIn'
    BY <2>1 DEF CopiesInv, NoReviewBeforeCheckIn, OthersKeep
  <2> QED  BY <2>1, <2>2, <2>3, OthersKeepCopies DEF CopiesInv
<1>5. ASSUME NEW s \in Sessions, CountPhotos(s) \/ InsertAndCount(s) PROVE CopiesInv'
  <2>1. /\ OthersKeep(s) /\ UNCHANGED <<visited, review, row, copy>> /\ pc'[s] # "resolving"
        /\ CheckingOut(s)' = CheckingOut(s) /\ Uploading(s)' = Uploading(s)
    BY <1>0, <1>5 DEF CountPhotos, InsertAndCount, OthersKeep, TypeOK, db, execution, CheckingOut, Uploading
  <2>2. ReviewAsLoaded(s)'
    BY <2>1 DEF CopiesInv, ReviewAsLoaded
  <2>3. NoReviewBeforeCheckIn'
    BY <2>1 DEF CopiesInv, NoReviewBeforeCheckIn, OthersKeep
  <2> QED  BY <2>1, <2>2, <2>3, OthersKeepCopies DEF CopiesInv
<1>6. ASSUME NEW s \in Sessions,
             CommitCheckOut(s) \/ CommitUpload(s) \/ CommitResolve(s) \/ Rollback(s)
      PROVE  CopiesInv'
  <2>1. OthersKeep(s) /\ Ended(s) /\ UNCHANGED visited
    BY <1>0, <1>6, EndKeeps DEF CommitCheckOut, CommitUpload, CommitResolve, Rollback, db, execution
  <2>2. ASSUME NEW r \in Sessions \ {s}, CheckingOut(r) \/ Uploading(r)
        PROVE  /\ row[r] \in CheckInKeys
               /\ CheckingOut(r) => review'[row[r]] = review[row[r]]
               /\ Uploading(r) /\ review'[row[r]] = "RESOLVED" => review[row[r]] = "RESOLVED"
    <3>0. row[r] \in CheckInKeys /\ (CheckingOut(r) => closedBy[row[r]] = NoKey)
      BY <1>0, <2>2 DEF TypeOK, CheckingOut, Uploading, IInv, RequestInv, CheckOutCopy
    <3>1. CASE CommitCheckOut(s)
      BY <3>0, <3>1, CheckOutFinds, CheckOutReviews
    <3>2. CASE CommitUpload(s)
      BY <3>0, <3>2, UploadReviews
    <3>3. CASE CommitResolve(s)
      <4>1. row[r] # row[s]
        BY <2>2, <3>3 DEF ResolvesApart, CommitResolve
      <4> QED  BY <1>0, <3>0, <3>3, <4>1 DEF CommitResolve, TypeOK
    <3>4. CASE Rollback(s)
      BY <3>0, <3>4 DEF Rollback, db, execution
    <3> QED  BY <1>6, <3>0, <3>1, <3>2, <3>3, <3>4
  <2>3. ReviewAsLoaded(s)'
    BY <2>1 DEF Ended, ReviewAsLoaded, CheckingOut, Uploading
  <2>4. ASSUME NEW k \in CheckInKeys, visited[k] = NoStop PROVE review'[k] = review[k]
    <3>1. CASE CommitCheckOut(s)
      BY <2>4, <3>1, CheckOutFinds, CheckOutReviews, NoneIsNone
    <3>2. CASE CommitUpload(s)
      BY <2>4, <3>2, UploadReviews DEF UploadCopy
    <3>3. CASE CommitResolve(s)
      <4>1. row[s] \in CheckInKeys /\ visited[row[s]] # NoStop
        BY <3>3 DEF CommitResolve, IInv, RequestInv, KeyOfItsKind, CopiesInv, NoReviewBeforeCheckIn
      <4> QED  BY <1>0, <2>4, <3>3, <4>1 DEF CommitResolve, TypeOK
    <3>4. CASE Rollback(s)
      BY <3>4 DEF Rollback, db, execution
    <3> QED  BY <1>6, <3>1, <3>2, <3>3, <3>4
  <2>5. NoReviewBeforeCheckIn'
    BY <2>1, <2>4 DEF CopiesInv, NoReviewBeforeCheckIn, OthersKeep, Ended
  <2> QED  BY <2>1, <2>2, <2>3, <2>5, OthersKeepCopies DEF CopiesInv
<1>7. ASSUME NEW t \in Stops, Release(t) PROVE CopiesInv'
  BY <1>7 DEF Release, execution, requests, CopiesInv, NoReviewBeforeCheckIn, ReviewAsLoaded,
              CheckingOut, Uploading
<1> QED
  BY <1>1, <1>2, <1>3, <1>4, <1>5, <1>6, <1>7 DEF Next, Proceed

\* What the docstring of reconcile_evidence_flag and the comment in check_out say of one step.
LEMMA ReviewsWritten ==
    ASSUME IInv, CopiesInv, [Next]_vars, NEW k \in CheckInKeys
    PROVE  /\ review[k] = "RESOLVED" /\ closedBy'[k] = closedBy[k] => review'[k] = "RESOLVED"
           /\ closedBy'[k] # closedBy[k] /\ ~(flags'[k] \subseteq flags[k])
                => review'[k] = "PENDING_REVIEW"
<1> DEFINE Resolution == review[k] = "RESOLVED" /\ closedBy'[k] = closedBy[k] => review'[k] = "RESOLVED"
           Anomaly == closedBy'[k] # closedBy[k] /\ ~(flags'[k] \subseteq flags[k])
                        => review'[k] = "PENDING_REVIEW"
<1>0. TypeOK
  BY DEF IInv
<1>1. ASSUME NEW s \in Sessions, CommitCheckIn(s) PROVE Resolution /\ Anomaly
  <2>1. key[s] \in CheckInKeys /\ review[key[s]] = "NONE"
    BY <1>1 DEF CommitCheckIn, IInv, RequestInv, KeyOfItsKind, CopiesInv, NoReviewBeforeCheckIn
  <2> QED  BY <1>0, <1>1, <2>1 DEF CommitCheckIn, TypeOK
<1>2. ASSUME NEW s \in Sessions, CommitCheckOut(s) PROVE Resolution /\ Anomaly
  <2>1. /\ row[s] \in CheckInKeys /\ closedBy[row[s]] = NoKey /\ key[s] # NoKey
        /\ copy[s].flags = flags[row[s]]
    BY <1>2, CheckOutFinds
  <2>2. closedBy' = [closedBy EXCEPT ![row[s]] = key[s]]
    BY <1>2 DEF CommitCheckOut
  <2>3. CASE k # row[s]
    BY <1>0, <1>2, <2>1, <2>2, <2>3, CheckOutReviews DEF TypeOK
  <2>4. CASE k = row[s]
    <3>1. copy[s].review = review[k]
      BY <1>2, <2>4 DEF CopiesInv, ReviewAsLoaded, CommitCheckOut, CheckingOut
    <3>2. PICK merged :
            /\ flags' = [flags EXCEPT ![k] = Written(copy[s].flags, merged, @)]
            /\ review' = [review EXCEPT
                    ![k] = Written(copy[s].review, ReviewAtCheckOut(copy[s], merged), @)]
      BY <1>2, <2>4 DEF CommitCheckOut
    <3>3. ~(flags'[k] \subseteq flags[k]) => merged \ copy[s].flags # {}
      BY <1>0, <2>1, <2>4, <3>2 DEF TypeOK, Written
    <3>4. ASSUME merged \ copy[s].flags # {} PROVE review'[k] = "PENDING_REVIEW"
      BY <1>0, <3>1, <3>2, <3>4 DEF TypeOK, Written, ReviewAtCheckOut
    <3> QED  BY <1>0, <2>1, <2>2, <2>4, <3>3, <3>4 DEF TypeOK
  <2> QED  BY <2>3, <2>4
<1>3. ASSUME NEW s \in Sessions, CommitUpload(s) PROVE Resolution /\ Anomaly
  <2>1. closedBy' = closedBy
    BY <1>3 DEF CommitUpload
  <2>2. review[row[s]] = "RESOLVED" => copy[s].review = "RESOLVED"
    BY <1>3 DEF CommitUpload, CopiesInv, ReviewAsLoaded, Uploading
  <2> QED  BY <1>3, <2>1, <2>2, UploadReviews
<1>4. ASSUME NEW s \in Sessions, CommitResolve(s) PROVE Resolution /\ Anomaly
  BY <1>0, <1>4 DEF CommitResolve, TypeOK
<1>5. CASE UNCHANGED execution
  BY <1>5 DEF execution
<1>6. ASSUME NEW s \in Sessions, Ask(s) PROVE UNCHANGED execution
  BY <1>6 DEF Ask, BeginCheckIn, BeginResolve, BeginCheckOut, BeginUpload, db
<1>7. ASSUME NEW s \in Sessions,
             LoadOpenCheckin(s) \/ CountPhotos(s) \/ InsertAndCount(s) \/ Rollback(s)
      PROVE  UNCHANGED execution
  BY <1>7 DEF LoadOpenCheckin, CountPhotos, InsertAndCount, Rollback, db
<1>8. ASSUME NEW t \in Stops, Release(t) PROVE UNCHANGED execution
  BY <1>8 DEF Release
<1>9. UNCHANGED vars => UNCHANGED execution
  BY DEF vars, db
<1> QED
  BY <1>1, <1>2, <1>3, <1>4, <1>5, <1>6, <1>7, <1>8, <1>9 DEF Next, Proceed

\* What evidence_service.py:160 and execution/service.py:279 say of reviews holds as long as no
\* manager resolves one while a check-out or a photo of its execution is in flight: the overlap
\* is all that the two findings need, whatever else is in flight.
THEOREM ReviewsStandApart ==
    Spec /\ []ResolvesApart => ResolvedStaysResolved /\ CheckOutAnomalyReachesHuman
<1>1. Init => CopiesInv
  BY DEF Init, CopiesInv, NoReviewBeforeCheckIn, ReviewAsLoaded, CheckingOut, Uploading
<1>2. IInv /\ CopiesInv /\ [Next]_vars =>
        /\ [\A k \in CheckInKeys :
                review[k] = "RESOLVED" /\ closedBy'[k] = closedBy[k] => review'[k] = "RESOLVED"]_vars
        /\ [\A k \in CheckInKeys :
                closedBy'[k] # closedBy[k] /\ ~(flags'[k] \subseteq flags[k])
                    => review'[k] = "PENDING_REVIEW"]_vars
  BY ReviewsWritten
<1> QED
  BY <1>1, <1>2, InitIInv, StepIInv, StepCopies, PTL
     DEF Spec, ResolvedStaysResolved, CheckOutAnomalyReachesHuman

-----------------------------------------------------------------------------
(* FloorScans *)

NothingGivenBack == \A r \in Rooms : room[r] # "RELEASED"
OnRecord(v)      == checkedIn[v].room # NoRoom

\* A room is visited once, and only when it is on the worker's list.
VisitsApart ==
    \A v \in Visits : visit[v].room # NoRoom =>
        /\ room[visit[v].room] # "NONE"
        /\ \A u \in Visits : visit[u].room = visit[v].room => u = v

\* A check-in on record is that of its visit's room.
RecordsMatchVisits == \A v \in Visits : OnRecord(v) => checkedIn[v].room = visit[v].room

\* A room is served by a check-in on record, and waits until then.
RoomsWaitForTheirVisit ==
    /\ \A r \in Rooms : room[r] \in {"IN_PROGRESS", "DONE"} =>
           \E v \in Visits : checkedIn[v].room = r
    /\ \A v \in Visits : OnRecord(v) => room[checkedIn[v].room] \in {"IN_PROGRESS", "DONE"}

\* Only the visit's own check-out closes its execution, and ends its room.
ClosedByTheirOwn ==
    \A v \in Visits :
        /\ closes[v] \in {v, NoVisit}
        /\ OnRecord(v) /\ room[checkedIn[v].room] = "DONE" => closes[v] = v

\* A check-out goes out, or asks for the room, only when its check-in is on record.
OnlyAfterTheCheckIn ==
    /\ \A v \in Visits : told[v].in \notin {"NOTHING", "CHOOSE"} =>
           OnRecord(v) \/ code = "REVOKED" \/ ~started
    /\ \A v \in Visits : told[v].out = "CHOOSE" => OnRecord(v)
    /\ \A c \in Calls : call[c].visit # NoVisit /\ call[c].kind = "out" => OnRecord(call[c].visit)

\* A request is of a visit that was made, and names its room or none.
CallsOfVisits ==
    \A c \in Calls : call[c].visit # NoVisit =>
        /\ visit[call[c].visit].room # NoRoom
        /\ call[c].choice \in {NoRoom, visit[call[c].visit].room}

RoomsAsVisited ==
    /\ VisitsApart /\ RecordsMatchVisits /\ RoomsWaitForTheirVisit
    /\ ClosedByTheirOwn /\ OnlyAfterTheCheckIn /\ CallsOfVisits

ScanInv == FloorScansTypeOK /\ (NothingGivenBack => RoomsAsVisited)

CallRecord == [visit : Visits, kind : {"in", "out"}, choice : Rooms \cup {NoRoom}]

-----------------------------------------------------------------------------
(* What the records say *)

\* What is not there has no room; whatever has one is there, with its type.
LEMMA Shapes ==
    ASSUME FloorScansTypeOK
    PROVE  /\ \A v \in Visits :
              /\ visit[v] # NotVisited <=> visit[v].room # NoRoom
              /\ visit[v].room # NoRoom <=> visit[v].room \in Rooms
              /\ checkedIn[v] # NotThere <=> OnRecord(v)
              /\ OnRecord(v) <=> checkedIn[v].room \in Rooms
              /\ checkedIn[v].flags \in RaisedFlags
           /\ \A c \in Calls :
              /\ call[c] # NoCall <=> call[c].visit # NoVisit
              /\ call[c].visit # NoVisit => call[c] \in CallRecord
  BY FloorScansAssumption
     DEF FloorScansTypeOK, NotVisited, NotThere, NoCall, NoRoom, NoVisit, OnRecord, CallRecord,
         RaisedFlags

\* A scan may mean only its candidates, and its own room if that is one of them.
LEMMA MeantRooms ==
    ASSUME NEW candidates \in SUBSET Rooms, NEW fix, NEW choice
    PROVE  /\ Meant(candidates, fix, choice) \subseteq candidates
           /\ \A x \in candidates : choice \in {NoRoom, x} =>
                  x \in Meant(candidates, fix, choice)
  BY DEF Meant, Near

\* The rooms a request chooses from, and its answer.
Candidates(c) == IF call[c].kind = "in" THEN PendingRooms
                 ELSE {checkedIn[u].room : u \in OpenVisits}
Means(c)      == Meant(Candidates(c), visit[call[c].visit].fix, call[c].choice)
Answer(c)     == AnswerFor(call[c].visit, Candidates(c), call[c].choice)

\* The room that a request resolves, and the visit whose execution a check-out closes.
Resolved(c)  == CHOOSE x \in Means(c) : TRUE
Closing(c)   == CHOOSE u \in OpenVisits : checkedIn[u].room = Resolved(c)

Refused(c, heard) ==
    LET v      == call[c].visit
        failed == Answer(c) = "OK" /\ KeyOnRecord(v, call[c].kind) IN
    /\ Answer(c) # "OK" \/ KeyOnRecord(v, call[c].kind)
    /\ UNCHANGED <<room, checkedIn, closes>>
    /\ told' = IF heard /\ ~failed THEN [told EXCEPT ![v][call[c].kind] = Answer(c)] ELSE told

ChecksIn(c, r) ==
    LET v == call[c].visit IN
    /\ call[c].kind = "in" /\ ~OnRecord(v)
    /\ r \in PendingRooms /\ Means(c) = {r}
    /\ room' = [room EXCEPT ![r] = "IN_PROGRESS"]
    /\ checkedIn' = [checkedIn EXCEPT ![v] = [room |-> r, flags |-> ScanFlags(v, r)]]
    /\ UNCHANGED closes
    /\ told' \in {told, [told EXCEPT ![v].in = "OK"]}

ChecksOut(c, r, u) ==
    LET v == call[c].visit IN
    /\ call[c].kind = "out" /\ closes[v] = NoVisit
    /\ u \in OpenVisits /\ checkedIn[u].room = r /\ Means(c) = {r}
    /\ room' = [room EXCEPT ![r] = "DONE"]
    /\ checkedIn' = [checkedIn EXCEPT ![u].flags = @ \cup ScanFlags(v, r)]
    /\ closes' = [closes EXCEPT ![v] = u]
    /\ told' \in {told, [told EXCEPT ![v].out = "OK"]}

LEMMA CandidateRooms ==
    ASSUME FloorScansTypeOK, NEW c \in Calls
    PROVE  /\ Candidates(c) \in SUBSET Rooms
           /\ Means(c) \subseteq Candidates(c)
           /\ Answer(c) = "OK" => Means(c) = {Resolved(c)}
           /\ Answer(c) \in ScanAnswers \ {"NOTHING"}
<1>1. Candidates(c) \in SUBSET Rooms
  BY Shapes DEF Candidates, PendingRooms, OpenVisits
<1>2. Means(c) \subseteq Candidates(c)
  BY <1>1, MeantRooms DEF Means
<1>3. ASSUME Answer(c) = "OK" PROVE \E r \in Means(c) : Means(c) = {r}
  BY <1>3 DEF Answer, AnswerFor, Means
<1>4. Answer(c) \in ScanAnswers \ {"NOTHING"}
  BY DEF Answer, AnswerFor, ScanAnswers
<1> QED  BY <1>1, <1>2, <1>3, <1>4 DEF Resolved

\* A request that ends is answered and changes nothing, checks in or checks out.
LEMMA HowCallsEnd ==
    ASSUME FloorScansTypeOK, NEW c \in Calls, NEW heard \in BOOLEAN, CommitCall(c, heard)
    PROVE  /\ call[c].visit # NoVisit /\ call[c] \in CallRecord
           /\ call' = [call EXCEPT ![c] = NoCall]
           /\ UNCHANGED <<started, code, visit>>
           /\ \/ Refused(c, heard)
              \/ \E r \in Rooms : ChecksIn(c, r)
              \/ \E r \in Rooms, u \in Visits : ChecksOut(c, r, u)
<1> DEFINE v == call[c].visit
<1>1. /\ v # NoVisit /\ call[c] \in CallRecord
      /\ call' = [call EXCEPT ![c] = NoCall]
      /\ UNCHANGED <<started, code, visit>>
  BY Shapes DEF CommitCall
<1>2. v \in Visits /\ call[c].kind \in {"in", "out"}
  BY <1>1 DEF CallRecord
<1>3. CASE Answer(c) # "OK" \/ KeyOnRecord(v, call[c].kind)
  BY <1>3, <1>1 DEF CommitCall, Refused, Answer, Candidates
<1>4. CASE Answer(c) = "OK" /\ ~KeyOnRecord(v, call[c].kind)
  <2>1. Means(c) = {Resolved(c)} /\ Resolved(c) \in Candidates(c) /\ Resolved(c) \in Rooms
    BY <1>4, CandidateRooms
  <2>2. CASE call[c].kind = "in"
    <3>1. ~OnRecord(v) /\ Resolved(c) \in PendingRooms
      BY <2>1, <2>2, <1>4, <1>2, Shapes DEF KeyOnRecord, Candidates
    <3>2. /\ room' = [room EXCEPT ![Resolved(c)] = "IN_PROGRESS"]
          /\ checkedIn' = [checkedIn EXCEPT ![v] =
                              [room |-> Resolved(c), flags |-> ScanFlags(v, Resolved(c))]]
          /\ UNCHANGED closes
          /\ told' \in {told, [told EXCEPT ![v]["in"] = "OK"]}
      BY <2>2, <1>4 DEF CommitCall, Answer, Candidates, Resolved, Means
    <3>3. ChecksIn(c, Resolved(c))
      BY <2>1, <2>2, <1>4, <3>1, <3>2 DEF ChecksIn
    <3> QED  BY <3>3, <2>1, <1>1
  <2>3. CASE call[c].kind = "out"
    <3>1. closes[v] = NoVisit
      BY <2>3, <1>4 DEF KeyOnRecord
    <3>2. Closing(c) \in OpenVisits /\ checkedIn[Closing(c)].room = Resolved(c)
      BY <2>1, <2>3 DEF Closing, Candidates
    <3>3. /\ room' = [room EXCEPT ![Resolved(c)] = "DONE"]
          /\ checkedIn' = [checkedIn EXCEPT ![Closing(c)].flags = @ \cup ScanFlags(v, Resolved(c))]
          /\ closes' = [closes EXCEPT ![v] = Closing(c)]
          /\ told' \in {told, [told EXCEPT ![v]["out"] = "OK"]}
      BY <2>3, <1>4 DEF CommitCall, Answer, Candidates, Resolved, Means, Closing
    <3>4. ChecksOut(c, Resolved(c), Closing(c))
      BY <2>1, <2>3, <1>4, <3>1, <3>2, <3>3 DEF ChecksOut
    <3>5. Closing(c) \in Visits
      BY <3>2 DEF OpenVisits
    <3> QED  BY <3>4, <3>5, <2>1, <1>1
  <2> QED  BY <2>2, <2>3, <1>2
<1> QED  BY <1>3, <1>4

-----------------------------------------------------------------------------
(* Types *)

LEMMA InitType == FloorScansInit => FloorScansTypeOK
  BY FloorScansAssumption
     DEF FloorScansInit, FloorScansTypeOK, NotVisited, NotThere, NoCall, ScanAnswers

LEMMA ScanFlagsType ==
    ASSUME NEW v, NEW r
    PROVE  ScanFlags(v, r) \in RaisedFlags
  BY DEF ScanFlags, RaisedFlags

LEMMA ToldType ==
    ASSUME FloorScansTypeOK, NEW v \in Visits, NEW a \in ScanAnswers
    PROVE  /\ [told EXCEPT ![v].in = a]  \in [Visits -> [in : ScanAnswers, out : ScanAnswers]]
           /\ [told EXCEPT ![v].out = a] \in [Visits -> [in : ScanAnswers, out : ScanAnswers]]
  BY DEF FloorScansTypeOK

\* The answer a scan got is that scan's only.
LEMMA ToldOf ==
    ASSUME FloorScansTypeOK, NEW v \in Visits, NEW kind \in {"in", "out"}, NEW a,
           told' = [told EXCEPT ![v][kind] = a]
    PROVE  \A u \in Visits :
              /\ told'[u].in = IF u = v /\ kind = "in" THEN a ELSE told[u].in
              /\ told'[u].out = IF u = v /\ kind = "out" THEN a ELSE told[u].out
<1>1. \A u \in Visits \ {v} : told'[u] = told[u]
  BY DEF FloorScansTypeOK
<1>2. told[v] \in [in : ScanAnswers, out : ScanAnswers]
  BY DEF FloorScansTypeOK
<1>3. told'[v] = [told[v] EXCEPT ![kind] = a]
  BY DEF FloorScansTypeOK
<1>4. CASE kind = "in"
  BY <1>1, <1>2, <1>3, <1>4
<1>5. CASE kind = "out"
  BY <1>1, <1>2, <1>3, <1>5
<1> QED  BY <1>4, <1>5

LEMMA NextType ==
    ASSUME FloorScansTypeOK, [FloorScansNext]_floorVars
    PROVE  FloorScansTypeOK'
<1>1. ASSUME NEW r \in Rooms, HandOutRoom(r) \/ GiveBack(r) PROVE FloorScansTypeOK'
  BY <1>1 DEF HandOutRoom, GiveBack, FloorScansTypeOK
<1>2. ASSUME DayEnds \/ ReplaceCode \/ RevokeCode PROVE FloorScansTypeOK'
  BY <1>2 DEF DayEnds, ReplaceCode, RevokeCode, FloorScansTypeOK
<1>3. ASSUME NEW v \in Visits, NEW r \in Rooms, NEW fix \in Fixes, VisitRoom(v, r, fix)
      PROVE  FloorScansTypeOK'
  BY <1>3 DEF VisitRoom, FloorScansTypeOK
<1>4. ASSUME NEW c \in Calls, NEW v \in Visits, NEW kind \in {"in", "out"}, NEW heard \in BOOLEAN,
             BeginCall(c, v, kind, heard)
      PROVE  FloorScansTypeOK'
  <2>1. /\ UNCHANGED <<room, started, code, visit, checkedIn, closes>>
        /\ \/ UNCHANGED call /\ told' = told
           \/ \E a \in ScanAnswers : UNCHANGED call /\ told' = [told EXCEPT ![v][kind] = a]
           \/ \E choice \in {NoRoom, visit[v].room} :
                 /\ call' = [call EXCEPT ![c] = [visit |-> v, kind |-> kind, choice |-> choice]]
                 /\ told' = told
    BY <1>4 DEF BeginCall, ScanAnswers
  <2>2. visit[v].room \in Rooms \cup {NoRoom}
    BY Shapes
  <2>3. told' \in [Visits -> [in : ScanAnswers, out : ScanAnswers]]
    BY <2>1 DEF FloorScansTypeOK
  <2>4. call' \in [Calls -> {NoCall} \cup CallRecord]
    BY <2>1, <2>2 DEF FloorScansTypeOK, CallRecord
  <2> QED  BY <2>1, <2>3, <2>4 DEF FloorScansTypeOK, CallRecord
<1>5. ASSUME NEW c \in Calls, NEW heard \in BOOLEAN, CommitCall(c, heard) PROVE FloorScansTypeOK'
  <2> DEFINE v == call[c].visit
  <2>1. /\ v \in Visits /\ call[c].kind \in {"in", "out"}
        /\ call' = [call EXCEPT ![c] = NoCall]
        /\ UNCHANGED <<started, code, visit>>
    BY <1>5, HowCallsEnd DEF CallRecord
  <2>2. CASE Refused(c, heard)
    <3>1. told' \in [Visits -> [in : ScanAnswers, out : ScanAnswers]]
      BY <2>1, <2>2, CandidateRooms DEF Refused, FloorScansTypeOK
    <3> QED  BY <2>1, <2>2, <3>1 DEF Refused, FloorScansTypeOK
  <2>3. ASSUME NEW r \in Rooms, ChecksIn(c, r) PROVE FloorScansTypeOK'
    <3>1. told' \in [Visits -> [in : ScanAnswers, out : ScanAnswers]]
      <4>1. told' = told \/ told' = [told EXCEPT ![v].in = "OK"]
        BY <2>3 DEF ChecksIn
      <4>2. "OK" \in ScanAnswers
        BY DEF ScanAnswers
      <4>3. [told EXCEPT ![v].in = "OK"] \in [Visits -> [in : ScanAnswers, out : ScanAnswers]]
        BY <4>2, <2>1, ToldType
      <4>4. told \in [Visits -> [in : ScanAnswers, out : ScanAnswers]]
        BY DEF FloorScansTypeOK
      <4> QED  BY <4>1, <4>3, <4>4
    <3> QED  BY <2>1, <2>3, <3>1, ScanFlagsType DEF ChecksIn, FloorScansTypeOK
  <2>4. ASSUME NEW r \in Rooms, NEW u \in Visits, ChecksOut(c, r, u) PROVE FloorScansTypeOK'
    <3>1. told' \in [Visits -> [in : ScanAnswers, out : ScanAnswers]]
      <4>1. told' = told \/ told' = [told EXCEPT ![v].out = "OK"]
        BY <2>4 DEF ChecksOut
      <4>2. "OK" \in ScanAnswers
        BY DEF ScanAnswers
      <4>3. [told EXCEPT ![v].out = "OK"] \in [Visits -> [in : ScanAnswers, out : ScanAnswers]]
        BY <4>2, <2>1, ToldType
      <4>4. told \in [Visits -> [in : ScanAnswers, out : ScanAnswers]]
        BY DEF FloorScansTypeOK
      <4> QED  BY <4>1, <4>3, <4>4
    <3>2. checkedIn[u] \in [room : Rooms, flags : RaisedFlags]
      BY <2>4 DEF ChecksOut, OpenVisits, FloorScansTypeOK
    <3>3. checkedIn[u].flags \cup ScanFlags(v, r) \in RaisedFlags
      BY <3>2, ScanFlagsType DEF RaisedFlags
    <3>4. checkedIn' \in [Visits -> {NotThere} \cup [room : Rooms, flags : RaisedFlags]]
      BY <2>4, <3>2, <3>3 DEF ChecksOut, FloorScansTypeOK
    <3> QED  BY <2>1, <2>4, <3>1, <3>4 DEF ChecksOut, FloorScansTypeOK
  <2> QED  BY <2>2, <2>3, <2>4, <1>5, HowCallsEnd
<1>6. CASE UNCHANGED floorVars
  BY <1>6 DEF floorVars, FloorScansTypeOK
<1> QED  BY <1>1, <1>2, <1>3, <1>4, <1>5, <1>6 DEF FloorScansNext

\* Every variable keeps its type: the calls in flight, the answers the app has and the flags a
\* scan leaves (execution/service.py).
THEOREM ScanTypes == FloorScansSpec => []FloorScansTypeOK
<1>1. FloorScansInit => FloorScansTypeOK
  BY InitType
<1>2. FloorScansTypeOK /\ [FloorScansNext]_floorVars => FloorScansTypeOK'
  BY NextType
<1> QED  BY <1>1, <1>2, PTL DEF FloorScansSpec

-----------------------------------------------------------------------------
(* Rooms and visits *)

\* What was given back stays given back.
LEMMA GivenBackBefore ==
    ASSUME FloorScansTypeOK, [FloorScansNext]_floorVars, NothingGivenBack'
    PROVE  NothingGivenBack
<1>1. ASSUME NEW r \in Rooms, HandOutRoom(r) \/ GiveBack(r) PROVE NothingGivenBack
  BY <1>1 DEF HandOutRoom, GiveBack, FloorScansTypeOK, NothingGivenBack
<1>2. ASSUME NEW c \in Calls, NEW heard \in BOOLEAN, CommitCall(c, heard) PROVE NothingGivenBack
  <2>1. CASE Refused(c, heard)
    BY <2>1 DEF Refused, NothingGivenBack
  <2>2. ASSUME NEW r \in Rooms, ChecksIn(c, r) PROVE NothingGivenBack
    BY <2>2 DEF ChecksIn, PendingRooms, NothingGivenBack, FloorScansTypeOK
  <2>3. ASSUME NEW r \in Rooms, NEW u \in Visits, ChecksOut(c, r, u) PROVE NothingGivenBack
    BY <2>3 DEF ChecksOut, OpenVisits, NothingGivenBack, FloorScansTypeOK
  <2> QED  BY <2>1, <2>2, <2>3, <1>2, HowCallsEnd
<1>3. ASSUME room' = room PROVE NothingGivenBack
  BY <1>3 DEF NothingGivenBack
<1> QED
  BY <1>1, <1>2, <1>3 DEF FloorScansNext, floorVars, DayEnds, ReplaceCode, RevokeCode, VisitRoom,
                          BeginCall

\* The room of a check-in under way waits for it, so that the check-in finds it.
LEMMA CheckInFindsItsRoom ==
    ASSUME FloorScansTypeOK, NothingGivenBack, RoomsAsVisited, NEW c \in Calls,
           call[c].visit # NoVisit, call[c].kind = "in", ~OnRecord(call[c].visit)
    PROVE  visit[call[c].visit].room \in Means(c)
<1> DEFINE v == call[c].visit
<1>1. v \in Visits /\ visit[v].room \in Rooms
  BY Shapes DEF CallRecord, RoomsAsVisited, CallsOfVisits
<1>2. room[visit[v].room] # "NONE"
  BY <1>1, Shapes DEF RoomsAsVisited, VisitsApart
<1>3. room[visit[v].room] \notin {"IN_PROGRESS", "DONE"}
  <2> SUFFICES ASSUME room[visit[v].room] \in {"IN_PROGRESS", "DONE"} PROVE FALSE
    OBVIOUS
  <2>1. PICK u \in Visits : checkedIn[u].room = visit[v].room
    BY <1>1 DEF RoomsAsVisited, RoomsWaitForTheirVisit
  <2>2. OnRecord(u) /\ visit[u].room = visit[v].room
    BY <2>1, <1>1, Shapes DEF RoomsAsVisited, RecordsMatchVisits, OnRecord
  <2>3. u = v
    BY <2>2, <1>1, Shapes DEF RoomsAsVisited, VisitsApart
  <2> QED  BY <2>2, <2>3
<1>4. visit[v].room \in PendingRooms
  BY <1>1, <1>2, <1>3 DEF NothingGivenBack, PendingRooms, FloorScansTypeOK
<1> QED
  BY <1>1, <1>4, CandidateRooms, MeantRooms
     DEF Candidates, Means, RoomsAsVisited, CallsOfVisits

\* The execution of a check-out under way is open, so that the check-out finds its room.
LEMMA CheckOutFindsItsRoom ==
    ASSUME FloorScansTypeOK, NothingGivenBack, RoomsAsVisited, NEW c \in Calls,
           call[c].visit # NoVisit, call[c].kind = "out", closes[call[c].visit] = NoVisit
    PROVE  visit[call[c].visit].room \in Means(c)
<1> DEFINE v == call[c].visit
<1>1. v \in Visits /\ OnRecord(v) /\ visit[v].room \in Rooms
  BY Shapes DEF CallRecord, RoomsAsVisited, CallsOfVisits, OnlyAfterTheCheckIn
<1>2. checkedIn[v].room = visit[v].room
  BY <1>1 DEF RoomsAsVisited, RecordsMatchVisits
<1>3. closes[v] # v
  BY <1>1, FloorScansAssumption DEF NoVisit
<1>4. room[checkedIn[v].room] = "IN_PROGRESS"
  BY <1>1, <1>3 DEF RoomsAsVisited, ClosedByTheirOwn, RoomsWaitForTheirVisit
<1>5. \A u \in Visits : closes[u] # v
  BY <1>1, <1>3, FloorScansAssumption DEF RoomsAsVisited, ClosedByTheirOwn, NoVisit
<1>6. v \in OpenVisits
  BY <1>1, <1>4, <1>5, Shapes DEF OpenVisits
<1>7. visit[v].room \in Candidates(c)
  BY <1>2, <1>6 DEF Candidates
<1> QED
  BY <1>1, <1>7, CandidateRooms, MeantRooms DEF Means, RoomsAsVisited, CallsOfVisits

-----------------------------------------------------------------------------
(* The invariant *)

LEMMA InitRooms == FloorScansInit => RoomsAsVisited
  BY FloorScansAssumption
     DEF FloorScansInit, RoomsAsVisited, VisitsApart, RecordsMatchVisits, RoomsWaitForTheirVisit,
         ClosedByTheirOwn, OnlyAfterTheCheckIn, CallsOfVisits, OnRecord, NotVisited, NotThere,
         NoCall, NoRoom, NoVisit

\* What happens meanwhile leaves the rooms to their visits.
LEMMA MeanwhileKeepsRooms ==
    ASSUME FloorScansTypeOK, RoomsAsVisited, NothingGivenBack',
           \/ \E r \in Rooms : HandOutRoom(r) \/ GiveBack(r)
           \/ DayEnds \/ ReplaceCode \/ RevokeCode
           \/ UNCHANGED floorVars
    PROVE  RoomsAsVisited'
<1>1. ASSUME NEW r \in Rooms, HandOutRoom(r) PROVE RoomsAsVisited'
  BY <1>1, Shapes
     DEF HandOutRoom, RoomsAsVisited, VisitsApart, RecordsMatchVisits, RoomsWaitForTheirVisit,
         ClosedByTheirOwn, OnlyAfterTheCheckIn, CallsOfVisits, OnRecord, FloorScansTypeOK
<1>2. ASSUME NEW r \in Rooms, GiveBack(r) PROVE FALSE
  BY <1>2 DEF GiveBack, NothingGivenBack, FloorScansTypeOK
<1>3. CASE DayEnds \/ ReplaceCode \/ RevokeCode \/ UNCHANGED floorVars
  BY <1>3
     DEF DayEnds, ReplaceCode, RevokeCode, floorVars, RoomsAsVisited, VisitsApart,
         RecordsMatchVisits, RoomsWaitForTheirVisit, ClosedByTheirOwn, OnlyAfterTheCheckIn,
         CallsOfVisits, OnRecord
<1> QED  BY <1>1, <1>2, <1>3

\* A visit is to a room nobody was in.
LEMMA VisitKeepsRooms ==
    ASSUME FloorScansTypeOK, RoomsAsVisited, NEW v \in Visits, NEW r \in Rooms, NEW fix \in Fixes,
           VisitRoom(v, r, fix)
    PROVE  RoomsAsVisited'
<1>1. /\ visit[v].room = NoRoom /\ visit'[v].room = r /\ r # NoRoom
      /\ \A u \in Visits \ {v} : visit'[u] = visit[u]
      /\ room[r] = "PENDING" /\ \A u \in Visits : visit[u].room # r
      /\ UNCHANGED <<room, started, code, checkedIn, closes, call, told>>
  BY Shapes, FloorScansAssumption DEF VisitRoom, FloorScansTypeOK, NoRoom, NotVisited
<1>2. ~OnRecord(v)
  BY <1>1 DEF RoomsAsVisited, RecordsMatchVisits, OnRecord
<1>3. VisitsApart' /\ RecordsMatchVisits'
  BY <1>1, <1>2 DEF RoomsAsVisited, VisitsApart, RecordsMatchVisits, OnRecord
<1>4. CallsOfVisits'
  <2>1. \A c \in Calls : call[c].visit # NoVisit => call[c].visit \in Visits \ {v}
    BY <1>1, Shapes DEF RoomsAsVisited, CallsOfVisits, CallRecord
  <2> QED  BY <1>1, <2>1 DEF RoomsAsVisited, CallsOfVisits
<1> QED
  BY <1>1, <1>3, <1>4
     DEF RoomsAsVisited, RoomsWaitForTheirVisit, ClosedByTheirOwn, OnlyAfterTheCheckIn, OnRecord

\* The app sends a check-out when its check-in is on record, could not be sent any more, or was
\* refused for its code; the request then gets no further.
LEMMA BeginKeepsRooms ==
    ASSUME FloorScansTypeOK, NothingGivenBack, RoomsAsVisited, NEW c \in Calls, NEW v \in Visits,
           NEW kind \in {"in", "out"}, NEW heard \in BOOLEAN, BeginCall(c, v, kind, heard)
    PROVE  RoomsAsVisited'
<1> DEFINE choice == IF told[v][kind] = "CHOOSE" THEN visit[v].room ELSE NoRoom
<1>1. /\ UNCHANGED <<room, started, code, visit, checkedIn, closes>>
      /\ visit[v].room # NoRoom
      /\ kind = "out" => told[v].in \notin {"NOTHING", "CHOOSE"}
  BY Shapes DEF BeginCall, Due
<1>2. VisitsApart' /\ RecordsMatchVisits' /\ RoomsWaitForTheirVisit' /\ ClosedByTheirOwn'
  BY <1>1
     DEF RoomsAsVisited, VisitsApart, RecordsMatchVisits, RoomsWaitForTheirVisit, ClosedByTheirOwn,
         OnRecord
<1>3. CASE call' = call /\ told' = told
  BY <1>1, <1>2, <1>3 DEF RoomsAsVisited, OnlyAfterTheCheckIn, CallsOfVisits, OnRecord
<1>4. CASE /\ call' = call /\ told' = [told EXCEPT ![v][kind] = "OK"]
           /\ KeyOnRecord(v, kind)
  <2>1. kind = "in" => OnRecord(v)
    BY <1>4, Shapes DEF KeyOnRecord
  <2>2. OnlyAfterTheCheckIn'
    BY <1>1, <1>2, <1>4, <2>1, ToldOf DEF RoomsAsVisited, OnlyAfterTheCheckIn, OnRecord
  <2> QED  BY <1>1, <1>2, <1>4, <2>2 DEF RoomsAsVisited, CallsOfVisits
<1>5. CASE /\ call' = call /\ told' = [told EXCEPT ![v][kind] = "REFUSED"]
           /\ code = "REVOKED" \/ ~started
  <2>1. OnlyAfterTheCheckIn'
    BY <1>1, <1>2, <1>5, ToldOf DEF RoomsAsVisited, OnlyAfterTheCheckIn, OnRecord
  <2> QED  BY <1>1, <1>2, <1>5, <2>1 DEF RoomsAsVisited, CallsOfVisits
<1>6. CASE /\ call' = [call EXCEPT ![c] = [visit |-> v, kind |-> kind, choice |-> choice]]
           /\ told' = told
           /\ code # "REVOKED" /\ (choice = NoRoom => started)
  <2>1. kind = "out" => OnRecord(v)
    BY <1>1, <1>6 DEF RoomsAsVisited, OnlyAfterTheCheckIn, OnRecord
  <2>2. OnlyAfterTheCheckIn'
    BY <1>1, <1>6, <2>1 DEF RoomsAsVisited, OnlyAfterTheCheckIn, OnRecord, FloorScansTypeOK
  <2>3. CallsOfVisits'
    BY <1>1, <1>6 DEF RoomsAsVisited, CallsOfVisits, FloorScansTypeOK
  <2> QED  BY <1>2, <2>2, <2>3 DEF RoomsAsVisited
<1> QED
  BY <1>3, <1>4, <1>5, <1>6 DEF BeginCall, RouteFound

\* A request that changes nothing tells the app nothing final of a check-in either.
LEMMA RefusalKeepsRooms ==
    ASSUME FloorScansTypeOK, NothingGivenBack, RoomsAsVisited, NEW c \in Calls,
           NEW heard \in BOOLEAN, CommitCall(c, heard), Refused(c, heard)
    PROVE  RoomsAsVisited'
<1> DEFINE v == call[c].visit
<1>1. /\ v \in Visits /\ v # NoVisit /\ call[c].kind \in {"in", "out"}
      /\ call' = [call EXCEPT ![c] = NoCall]
      /\ UNCHANGED <<started, code, visit, room, checkedIn, closes>>
  BY HowCallsEnd DEF CallRecord, Refused
<1>2. VisitsApart' /\ RecordsMatchVisits' /\ RoomsWaitForTheirVisit' /\ ClosedByTheirOwn'
  BY <1>1
     DEF RoomsAsVisited, VisitsApart, RecordsMatchVisits, RoomsWaitForTheirVisit, ClosedByTheirOwn,
         OnRecord
<1>3. CallsOfVisits'
  BY <1>1 DEF RoomsAsVisited, CallsOfVisits, FloorScansTypeOK, NoCall
<1>4. ReleasedOnFloor(call[c].choice) = {}
  BY DEF NothingGivenBack, ReleasedOnFloor
<1>5. call[c].kind = "in" /\ ~OnRecord(v) => Answer(c) \in {"OK", "CHOOSE"}
  <2> SUFFICES ASSUME call[c].kind = "in", ~OnRecord(v) PROVE Answer(c) \in {"OK", "CHOOSE"}
    OBVIOUS
  <2>1. visit[v].room \in Means(c)
    BY <1>1, CheckInFindsItsRoom
  <2> QED  BY <2>1, <1>4 DEF Answer, AnswerFor, Means
<1>6. call[c].kind = "out" => OnRecord(v)
  BY <1>1 DEF RoomsAsVisited, OnlyAfterTheCheckIn, OnRecord
<1>7. \A d \in Calls : call'[d].visit # NoVisit => call'[d] = call[d]
  BY <1>1 DEF FloorScansTypeOK, NoCall
<1>8. OnlyAfterTheCheckIn'
  <2>1. CASE told' = told
    BY <1>1, <1>2, <1>7, <2>1 DEF RoomsAsVisited, OnlyAfterTheCheckIn, OnRecord
  <2>2. CASE /\ told' = [told EXCEPT ![v][call[c].kind] = Answer(c)]
             /\ ~(Answer(c) = "OK" /\ KeyOnRecord(v, call[c].kind))
    <3>1. Answer(c) # "OK"
      BY <2>2 DEF Refused
    <3>2. call[c].kind = "in" => OnRecord(v) \/ Answer(c) = "CHOOSE"
      BY <3>1, <1>5
    <3> QED
      BY <1>1, <1>6, <1>7, <2>2, <3>2, ToldOf
         DEF RoomsAsVisited, OnlyAfterTheCheckIn, OnRecord
  <2> QED  BY <2>1, <2>2 DEF Refused
<1> QED  BY <1>2, <1>3, <1>8 DEF RoomsAsVisited

\* A check-in is at the room of its visit.
LEMMA CheckInKeepsRooms ==
    ASSUME FloorScansTypeOK, NothingGivenBack, RoomsAsVisited, NEW c \in Calls, NEW r \in Rooms,
           NEW heard \in BOOLEAN, CommitCall(c, heard), ChecksIn(c, r)
    PROVE  RoomsAsVisited'
<1> DEFINE v == call[c].visit
<1>1. /\ v \in Visits /\ v # NoVisit /\ call[c].kind = "in"
      /\ call' = [call EXCEPT ![c] = NoCall]
      /\ UNCHANGED <<started, code, visit, closes>>
  BY HowCallsEnd DEF CallRecord, ChecksIn
<1>2. /\ r = visit[v].room /\ r # NoRoom /\ ~OnRecord(v) /\ room[r] = "PENDING"
  BY <1>1, CheckInFindsItsRoom, FloorScansAssumption DEF ChecksIn, PendingRooms, NoRoom
<1>3. /\ checkedIn'[v].room = r
      /\ \A u \in Visits \ {v} : checkedIn'[u] = checkedIn[u]
      /\ room'[r] = "IN_PROGRESS" /\ \A q \in Rooms \ {r} : room'[q] = room[q]
  BY <1>1 DEF ChecksIn, FloorScansTypeOK
<1>4. \A u \in Visits : OnRecord(u) => checkedIn[u].room \in Rooms \ {r}
  BY <1>2, Shapes DEF RoomsAsVisited, RoomsWaitForTheirVisit
<1>5. VisitsApart' /\ RecordsMatchVisits'
  BY <1>1, <1>2, <1>3, Shapes DEF RoomsAsVisited, VisitsApart, RecordsMatchVisits, OnRecord
<1>6. RoomsWaitForTheirVisit'
  <2>1. \A q \in Rooms : room'[q] \in {"IN_PROGRESS", "DONE"} =>
            \E u \in Visits : checkedIn'[u].room = q
    <3> SUFFICES ASSUME NEW q \in Rooms, room'[q] \in {"IN_PROGRESS", "DONE"}
                 PROVE  \E u \in Visits : checkedIn'[u].room = q
      OBVIOUS
    <3>1. CASE q = r
      BY <3>1, <1>1, <1>3
    <3>2. CASE q # r
      <4>1. PICK u \in Visits : checkedIn[u].room = q
        BY <3>2, <1>3 DEF RoomsAsVisited, RoomsWaitForTheirVisit
      <4>2. u # v
        BY <4>1, <1>2, FloorScansAssumption DEF OnRecord, NoRoom
      <4> QED  BY <4>1, <4>2, <1>3
    <3> QED  BY <3>1, <3>2
  <2>2. \A u \in Visits : checkedIn'[u].room # NoRoom =>
            room'[checkedIn'[u].room] \in {"IN_PROGRESS", "DONE"}
    BY <1>3, <1>4 DEF RoomsAsVisited, RoomsWaitForTheirVisit, OnRecord
  <2> QED  BY <2>1, <2>2 DEF RoomsWaitForTheirVisit, OnRecord
<1>7. ClosedByTheirOwn'
  BY <1>1, <1>3, <1>4 DEF RoomsAsVisited, ClosedByTheirOwn, OnRecord
<1>8. \A d \in Calls : call'[d].visit # NoVisit => call'[d] = call[d]
  BY <1>1 DEF FloorScansTypeOK, NoCall
<1>9. \A u \in Visits : checkedIn[u].room # NoRoom => checkedIn'[u].room # NoRoom
  BY <1>2, <1>3 DEF OnRecord
<1>10. OnlyAfterTheCheckIn'
  <2>1. \A u \in Visits : told'[u].out = told[u].out /\ (u # v => told'[u].in = told[u].in)
    <3>1. CASE told' = told
      BY <3>1
    <3>2. CASE told' = [told EXCEPT ![v]["in"] = "OK"]
      BY <3>2, <1>1, ToldOf
    <3> QED  BY <3>1, <3>2 DEF ChecksIn
  <2>2. /\ \A u \in Visits : told'[u].in \notin {"NOTHING", "CHOOSE"} =>
              checkedIn'[u].room # NoRoom \/ code' = "REVOKED" \/ ~started'
        /\ \A u \in Visits : told'[u].out = "CHOOSE" => checkedIn'[u].room # NoRoom
    BY <1>1, <1>2, <1>3, <1>9, <2>1 DEF RoomsAsVisited, OnlyAfterTheCheckIn, OnRecord
  <2>3. ASSUME NEW d \in Calls, call'[d].visit # NoVisit, call'[d].kind = "out"
        PROVE  checkedIn'[call'[d].visit].room # NoRoom
    <3>1. call'[d] = call[d] /\ call[d].visit \in Visits
      BY <2>3, <1>8, Shapes DEF CallRecord
    <3>2. OnRecord(call[d].visit)
      BY <2>3, <3>1 DEF RoomsAsVisited, OnlyAfterTheCheckIn
    <3> QED  BY <3>1, <3>2, <1>9 DEF OnRecord
  <2> QED  BY <2>2, <2>3 DEF OnlyAfterTheCheckIn, OnRecord
<1>11. CallsOfVisits'
  BY <1>1, <1>8 DEF RoomsAsVisited, CallsOfVisits
<1> QED  BY <1>5, <1>6, <1>7, <1>10, <1>11 DEF RoomsAsVisited

\* A check-out closes the execution of its own visit.
LEMMA CheckOutKeepsRooms ==
    ASSUME FloorScansTypeOK, NothingGivenBack, RoomsAsVisited, NEW c \in Calls, NEW r \in Rooms,
           NEW u \in Visits, NEW heard \in BOOLEAN, CommitCall(c, heard), ChecksOut(c, r, u)
    PROVE  RoomsAsVisited'
<1> DEFINE v == call[c].visit
<1>1. /\ v \in Visits /\ v # NoVisit /\ call[c].kind = "out"
      /\ call' = [call EXCEPT ![c] = NoCall]
      /\ UNCHANGED <<started, code, visit>>
  BY HowCallsEnd DEF CallRecord, ChecksOut
<1>2. /\ r = visit[v].room /\ r # NoRoom /\ OnRecord(u) /\ checkedIn[u].room = r
      /\ room[r] = "IN_PROGRESS"
  BY <1>1, CheckOutFindsItsRoom, FloorScansAssumption, Shapes
     DEF ChecksOut, OpenVisits, NoRoom, OnRecord
<1>3. u = v
  BY <1>1, <1>2 DEF RoomsAsVisited, RecordsMatchVisits, VisitsApart
<1>4. /\ \A w \in Visits : checkedIn'[w].room = checkedIn[w].room
      /\ closes'[v] = v /\ \A w \in Visits \ {v} : closes'[w] = closes[w]
      /\ room'[r] = "DONE" /\ \A q \in Rooms \ {r} : room'[q] = room[q]
  <2>1. checkedIn[u] \in [room : Rooms, flags : RaisedFlags]
    BY <1>2, Shapes DEF FloorScansTypeOK, OnRecord
  <2> QED  BY <1>1, <1>3, <2>1 DEF ChecksOut, FloorScansTypeOK
<1>5. VisitsApart' /\ RecordsMatchVisits'
  BY <1>1, <1>4, <1>2, Shapes DEF RoomsAsVisited, VisitsApart, RecordsMatchVisits, OnRecord
<1>6. RoomsWaitForTheirVisit'
  <2>1. \A q \in Rooms : room'[q] \in {"IN_PROGRESS", "DONE"} =>
            room[q] \in {"IN_PROGRESS", "DONE"}
    BY <1>2, <1>4
  <2>2. \A w \in Visits : checkedIn[w].room # NoRoom =>
            checkedIn[w].room \in Rooms /\ room'[checkedIn[w].room] \in {"IN_PROGRESS", "DONE"}
    BY <1>4, Shapes DEF RoomsAsVisited, RoomsWaitForTheirVisit, OnRecord
  <2> QED  BY <1>4, <2>1, <2>2 DEF RoomsAsVisited, RoomsWaitForTheirVisit, OnRecord
<1>7. ClosedByTheirOwn'
  <2>1. ASSUME NEW w \in Visits, w # v, OnRecord(w) PROVE checkedIn[w].room \in Rooms \ {r}
    BY <2>1, <1>1, <1>2, Shapes DEF RoomsAsVisited, RecordsMatchVisits, VisitsApart
  <2> QED
    BY <1>1, <1>4, <2>1 DEF RoomsAsVisited, ClosedByTheirOwn, OnRecord
<1>8. \A d \in Calls : call'[d].visit # NoVisit => call'[d] = call[d]
  BY <1>1 DEF FloorScansTypeOK, NoCall
<1>9. OnlyAfterTheCheckIn'
  <2>1. \A w \in Visits :
           /\ told'[w].in = told[w].in
           /\ told'[w].out = "CHOOSE" => told[w].out = "CHOOSE"
    <3>1. CASE told' = told
      BY <3>1
    <3>2. CASE told' = [told EXCEPT ![v]["out"] = "OK"]
      BY <3>2, <1>1, ToldOf
    <3> QED  BY <3>1, <3>2 DEF ChecksOut
  <2>2. /\ \A w \in Visits : told'[w].in \notin {"NOTHING", "CHOOSE"} =>
              checkedIn'[w].room # NoRoom \/ code' = "REVOKED" \/ ~started'
        /\ \A w \in Visits : told'[w].out = "CHOOSE" => checkedIn'[w].room # NoRoom
    BY <1>1, <1>4, <2>1 DEF RoomsAsVisited, OnlyAfterTheCheckIn, OnRecord
  <2>3. ASSUME NEW d \in Calls, call'[d].visit # NoVisit, call'[d].kind = "out"
        PROVE  checkedIn'[call'[d].visit].room # NoRoom
    <3>1. call'[d] = call[d] /\ call[d].visit \in Visits
      BY <2>3, <1>8, Shapes DEF CallRecord
    <3>2. OnRecord(call[d].visit)
      BY <2>3, <3>1 DEF RoomsAsVisited, OnlyAfterTheCheckIn
    <3> QED  BY <3>1, <3>2, <1>4 DEF OnRecord
  <2> QED  BY <2>2, <2>3 DEF OnlyAfterTheCheckIn, OnRecord
<1>10. CallsOfVisits'
  BY <1>1, <1>8 DEF RoomsAsVisited, CallsOfVisits
<1> QED  BY <1>5, <1>6, <1>7, <1>9, <1>10 DEF RoomsAsVisited

-----------------------------------------------------------------------------
(* The theorem *)

LEMMA InitScanInv == FloorScansInit => ScanInv
  BY InitType, InitRooms DEF ScanInv

LEMMA NextScanInv == ScanInv /\ [FloorScansNext]_floorVars => ScanInv'
<1> SUFFICES ASSUME ScanInv, [FloorScansNext]_floorVars, NothingGivenBack'
             PROVE  RoomsAsVisited'
  BY NextType DEF ScanInv
<1>1. FloorScansTypeOK /\ NothingGivenBack /\ RoomsAsVisited
  BY GivenBackBefore DEF ScanInv
<1>2. CASE \/ \E r \in Rooms : HandOutRoom(r) \/ GiveBack(r)
           \/ DayEnds \/ ReplaceCode \/ RevokeCode
           \/ UNCHANGED floorVars
  BY <1>1, <1>2, MeanwhileKeepsRooms
<1>3. ASSUME NEW v \in Visits, NEW r \in Rooms, NEW fix \in Fixes, VisitRoom(v, r, fix)
      PROVE  RoomsAsVisited'
  BY <1>1, <1>3, VisitKeepsRooms
<1>4. ASSUME NEW c \in Calls, NEW v \in Visits, NEW kind \in {"in", "out"}, NEW heard \in BOOLEAN,
             BeginCall(c, v, kind, heard)
      PROVE  RoomsAsVisited'
  BY <1>1, <1>4, BeginKeepsRooms
<1>5. ASSUME NEW c \in Calls, NEW heard \in BOOLEAN, CommitCall(c, heard) PROVE RoomsAsVisited'
  BY <1>1, <1>5, HowCallsEnd, RefusalKeepsRooms, CheckInKeepsRooms, CheckOutKeepsRooms
<1> QED  BY <1>2, <1>3, <1>4, <1>5 DEF FloorScansNext

\* The rooms of the records are those of the visits: what the runs check of them.
LEMMA ScanInvImplies == ScanInv => ScanFindsItsRoom
<1> SUFFICES ASSUME ScanInv, ReleasedOnFloor(NoRoom) = {},
                    NEW v \in Visits
             PROVE  /\ checkedIn[v] # NotThere => checkedIn[v].room = visit[v].room
                    /\ closes[v] \in {v, NoVisit}
  BY DEF ScanFindsItsRoom
<1>1. NothingGivenBack
  BY DEF ReleasedOnFloor, NothingGivenBack
<1> QED
  BY <1>1, Shapes DEF ScanInv, RoomsAsVisited, RecordsMatchVisits, ClosedByTheirOwn

\* While no stop of the floor was given back, the worker is never checked in at a room they were
\* not in, nor checked out of another visit: whatever the code's fate, however many requests are
\* in flight, and in whatever order they arrive and are answered or lost (resolve_room).
THEOREM ScansFindTheirRooms == FloorScansSpec => []ScanFindsItsRoom
<1>1. FloorScansInit => ScanInv
  BY InitScanInv
<1>2. ScanInv /\ [FloorScansNext]_floorVars => ScanInv'
  BY NextScanInv
<1>3. ScanInv => ScanFindsItsRoom
  BY ScanInvImplies
<1> QED  BY <1>1, <1>2, <1>3, PTL DEF FloorScansSpec

(***************************************************************************)
(* The two together, as the runs check them                                *)
(***************************************************************************)

\* A step of the two together is a step of one of them, in which the other rests.
LEMMA StepsOfWork ==
  ASSUME [WorkNext]_workVars
  PROVE  [Next]_vars /\ [FloorScansNext]_floorVars
  BY DEF WorkNext, workVars

\* The runs on the two together see nothing that the two alone could not do: the bound on the
\* floor's troubles only takes behaviours away.
THEOREM WorkIsItsParts == WorkSpec => Spec /\ FloorScansSpec
<1>1. WorkInit => Init /\ FloorScansInit
  BY DEF WorkInit
<1>2. [WorkNext]_workVars => [Next]_vars /\ [FloorScansNext]_floorVars
  BY StepsOfWork
<1> QED  BY <1>1, <1>2, PTL DEF WorkSpec, Spec, FloorScansSpec

\* The rows of stops and executions, the requests on them, and the floor's codes, rooms and
\* scans keep their types, whichever of the two a behaviour is about.
THEOREM WorkTypes == WorkSpec => []WorkTypeOK
<1>1. TypeOK /\ FloorScansTypeOK => WorkTypeOK
  BY DEF WorkTypeOK
<1> QED  BY <1>1, WorkIsItsParts, ExecutionTypes, ScanTypes, PTL
=============================================================================
