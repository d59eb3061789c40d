--------------------------- MODULE StopExecution ---------------------------
(***************************************************************************)
(* Check-in, check-out, photo evidence and review of the stops of one      *)
(* floor of one worker's route (app/domain/execution, api/evidence,        *)
(* api/executions).  One floor, because a floor's QR code is what a scan   *)
(* names: which stop of the floor it means is resolved by position.        *)
(*                                                                         *)
(* A Session is a request inside its transaction (READ COMMITTED).  The    *)
(* app sends its requests again when an answer is lost, with the same key, *)
(* so the original and the retry can be in flight together.                *)
(*                                                                         *)
(* An execution is named by its check-in key, which is unique.  A request  *)
(* works on the copy of the row it loaded, and its UPDATE writes only the  *)
(* columns it changed relative to that copy.                               *)
(***************************************************************************)
EXTENDS Naturals, FiniteSets

CONSTANTS
    Stops,          \* the stops of the floor
    NeedsEvidence,  \* the stops whose service type requires evidence
    CheckInKeys,    \* idempotency keys of the app's check-ins
    CheckOutKeys,   \* idempotency keys of its check-outs
    PhotoKeys,      \* idempotency keys of its photo uploads
    Anomalies,      \* flags a scan may raise (position, superseded QR, clock)
    Insufficient,   \* FLAG_INSUFFICIENT_EVIDENCE
    MinPhotos,      \* MIN_EVIDENCE_PHOTOS
    Sessions,       \* requests that can be in flight together
    NoStop, NoKey, NoCopy

ASSUME EvidenceStops == NeedsEvidence \subseteq Stops
ASSUME PhotosFinite  == IsFiniteSet(PhotoKeys)
ASSUME MinPhotosNat  == MinPhotos \in Nat \ {0}
ASSUME NoneIsNone    == /\ NoStop \notin Stops
                        /\ NoKey \notin CheckInKeys \cup CheckOutKeys \cup PhotoKeys
                        /\ Insufficient \notin Anomalies

Flags == Anomalies \cup {Insufficient}
RouteStopStatus == {"PENDING", "IN_PROGRESS", "DONE", "RELEASED"}
ExecutionReviewStatus == {"NONE", "PENDING_REVIEW", "RESOLVED"}

VARIABLES
    \* the database, as committed
    stop,       \* stop[t]: status of the stop
    visited,    \* visited[k]: the stop of execution k, NoStop before its check-in
    closedBy,   \* closedBy[k]: its checkout_idempotency_key, NoKey while it is open
    flags,      \* flags[k]: its validation_flags
    review,     \* review[k]: its review_status
    photos,     \* photos[k]: its photo rows, by key
    \* the requests in flight
    pc,         \* pc[s]: where the request is
    key,        \* key[s]: the idempotency key it carries
    row,        \* row[s]: the execution it loaded
    copy,       \* copy[s]: that execution as it was loaded
    held,       \* held[s]: the stop rows it keeps locked
    short       \* short[s]: it counted fewer than MinPhotos photos

execution == <<visited, closedBy, flags, review>>
db == <<stop, execution, photos>>
requests == <<pc, key, row, copy, held, short>>
vars == <<db, requests>>

\* The row as a request loads it.
Loaded(k) == [closed |-> closedBy[k] # NoKey, flags |-> flags[k], review |-> review[k]]

\* What a column holds after the UPDATE of a request that loaded `old` and assigned `new`.
Written(old, new, current) == IF new = old THEN current ELSE new

\* Mutant: the open check-ins are read without FOR UPDATE.
ReadWithoutLock(s) == {}
\* The stop rows other requests keep locked.
LockedByOthers(s) == UNION {held[r] : r \in Sessions \ {s}}

\* The candidates of a check-out: open executions whose stop is being worked.
OpenCheckins == {k \in CheckInKeys :
    visited[k] # NoStop /\ closedBy[k] = NoKey /\ stop[visited[k]] = "IN_PROGRESS"}

\* Mutant: the count forgets which execution the photos belong to.
PhotosOfTheFloor(k) == UNION {photos[j] : j \in CheckInKeys}
\* The photos a count sees: those committed for the execution.
PhotosOf(k) == photos[k]

\* Mutant: the unique constraint on checkout_idempotency_key is not there.
KeyNeverTaken(o) == o \in CheckOutKeys
\* The unique constraint on checkout_idempotency_key.
OutKeyFree(o) == \A k \in CheckInKeys : closedBy[k] # o

-----------------------------------------------------------------------------

Init ==
    /\ stop     = [t \in Stops |-> "PENDING"]
    /\ visited  = [k \in CheckInKeys |-> NoStop]
    /\ closedBy = [k \in CheckInKeys |-> NoKey]
    /\ flags    = [k \in CheckInKeys |-> {}]
    /\ review   = [k \in CheckInKeys |-> "NONE"]
    /\ photos   = [k \in CheckInKeys |-> {}]
    /\ pc       = [s \in Sessions |-> "idle"]
    /\ key      = [s \in Sessions |-> NoKey]
    /\ row      = [s \in Sessions |-> NoKey]
    /\ copy     = [s \in Sessions |-> NoCopy]
    /\ held     = [s \in Sessions |-> {}]
    /\ short    = [s \in Sessions |-> FALSE]

\* Mutant: a request that failed keeps its row locks.
KeepsItsLocks(s) ==
    /\ pc' = [pc EXCEPT ![s] = "idle"]
    /\ UNCHANGED <<key, row, copy, held, short>>
\* The transaction is over, committed or rolled back.
EndRequest(s) ==
    /\ pc'    = [pc EXCEPT ![s] = "idle"]
    /\ key'   = [key EXCEPT ![s] = NoKey]
    /\ row'   = [row EXCEPT ![s] = NoKey]
    /\ copy'  = [copy EXCEPT ![s] = NoCopy]
    /\ held'  = [held EXCEPT ![s] = {}]
    /\ short' = [short EXCEPT ![s] = FALSE]

-----------------------------------------------------------------------------
(* Check-in *)

\* A check-in whose key is not on record; one that is gets the stored execution back.
BeginCheckIn(s, k) ==
    /\ pc[s] = "idle"
    /\ visited[k] = NoStop
    /\ pc'  = [pc EXCEPT ![s] = "checking_in"]
    /\ key' = [key EXCEPT ![s] = k]
    /\ UNCHANGED <<db, row, copy, held, short>>

\* The floor's PENDING stops are locked, one of them is resolved (by position, or chosen by the
\* worker) and the execution is inserted with the anomalies of the scan; its key is unique.
CommitCheckIn(s) ==
    LET k == key[s] IN
    /\ pc[s] = "checking_in"
    /\ visited[k] = NoStop
    /\ \E t \in Stops, F \in SUBSET Anomalies :
        /\ stop[t] = "PENDING"
        /\ stop'    = [stop EXCEPT ![t] = "IN_PROGRESS"]
        /\ visited' = [visited EXCEPT ![k] = t]
        /\ flags'   = [flags EXCEPT ![k] = F]
        /\ review'  = [review EXCEPT ![k] = IF F = {} THEN "NONE" ELSE "PENDING_REVIEW"]
    /\ EndRequest(s)
    /\ UNCHANGED <<closedBy, photos>>

-----------------------------------------------------------------------------
(* Check-out *)

\* A check-out whose key is not on record; one that is gets the closed execution back.
BeginCheckOut(s, o) ==
    /\ pc[s] = "idle"
    /\ OutKeyFree(o)
    /\ pc'  = [pc EXCEPT ![s] = "checking_out"]
    /\ key' = [key EXCEPT ![s] = o]
    /\ UNCHANGED <<db, row, copy, held, short>>

\* The stops of the floor's open check-ins are locked until the commit, and one is resolved.
LoadOpenCheckin(s) ==
    LET locked == {visited[k] : k \in OpenCheckins} IN
    /\ pc[s] = "checking_out"
    /\ locked \cap LockedByOthers(s) = {}
    /\ \E k \in OpenCheckins :
        /\ row'  = [row EXCEPT ![s] = k]
        /\ copy' = [copy EXCEPT ![s] = Loaded(k)]
    /\ held' = [held EXCEPT ![s] = locked]
    /\ pc'   = [pc EXCEPT ![s] = "loaded"]
    /\ UNCHANGED <<db, key, short>>

\* The photos are counted by a statement of its own.
CountPhotos(s) ==
    /\ pc[s] = "loaded"
    /\ short' = [short EXCEPT ![s] = /\ visited[row[s]] \in NeedsEvidence
                                     /\ Cardinality(PhotosOf(row[s])) < MinPhotos]
    /\ pc'    = [pc EXCEPT ![s] = "counted"]
    /\ UNCHANGED <<db, key, row, copy, held>>

\* The review a check-out asks for: any flag its copy did not have sends it to a human.
ReviewAtCheckOut(old, merged) ==
    IF merged \ old.flags # {} \/ (merged # {} /\ old.review = "NONE")
    THEN "PENDING_REVIEW" ELSE old.review

\* The flags of both scans are merged into the copy and the changed columns written.  The UPDATE
\* sets a unique column: it waits for a photo inserted under the row (foreign key) to commit.
CommitCheckOut(s) ==
    LET k == row[s]
        old == copy[s]
    IN
    /\ pc[s] = "counted"
    /\ OutKeyFree(key[s])
    /\ \A r \in Sessions : ~(pc[r] = "inserted" /\ row[r] = k)
    /\ \E F \in SUBSET Anomalies :
        LET merged == old.flags \cup F \cup (IF short[s] THEN {Insufficient} ELSE {}) IN
        /\ flags'  = [flags EXCEPT ![k] = Written(old.flags, merged, @)]
        /\ review' = [review EXCEPT ![k] = Written(old.review, ReviewAtCheckOut(old, merged), @)]
    /\ closedBy' = [closedBy EXCEPT ![k] = key[s]]
    /\ stop'     = [stop EXCEPT ![visited[k]] = "DONE"]
    /\ EndRequest(s)
    /\ UNCHANGED <<visited, photos>>

-----------------------------------------------------------------------------
(* Photo evidence *)

\* The execution is loaded, its stop is not released and the photo's key is new: the object is
\* put in the store next, with no lock held.
BeginUpload(s, k, x) ==
    /\ pc[s] = "idle"
    /\ visited[k] # NoStop
    /\ stop[visited[k]] # "RELEASED"
    /\ \A j \in CheckInKeys : x \notin photos[j]
    /\ pc'   = [pc EXCEPT ![s] = "uploading"]
    /\ key'  = [key EXCEPT ![s] = x]
    /\ row'  = [row EXCEPT ![s] = k]
    /\ copy' = [copy EXCEPT ![s] = Loaded(k)]
    /\ UNCHANGED <<db, held, short>>

\* The photo's row is inserted (its key is unique, so a retry waits for its original) and, not
\* yet committed, counted with the committed ones.
InsertAndCount(s) ==
    /\ pc[s] = "uploading"
    /\ \A j \in CheckInKeys : key[s] \notin photos[j]
    /\ \A r \in Sessions : ~(pc[r] = "inserted" /\ key[r] = key[s])
    /\ short' = [short EXCEPT ![s] = Cardinality(PhotosOf(row[s]) \cup {key[s]}) < MinPhotos]
    /\ pc'    = [pc EXCEPT ![s] = "inserted"]
    /\ UNCHANGED <<db, key, row, copy, held>>

\* Mutant: a review goes back to NONE with other flags left.
NoneWhateverIsLeft(old, left) == IF old.review = "PENDING_REVIEW" THEN "NONE" ELSE old.review
\* The review once the photo flag is dropped: NONE if no flag is left and nobody resolved it.
ReviewAfterPhoto(old, left) ==
    IF left = {} /\ old.review = "PENDING_REVIEW" THEN "NONE" ELSE old.review

\* reconcile_evidence_flag: a late photo that completes the evidence drops the flag.
Reconcile(k, old, enough) ==
    LET left == old.flags \ {Insufficient} IN
    IF old.closed /\ Insufficient \in old.flags /\ enough
    THEN /\ flags'  = [flags EXCEPT ![k] = Written(old.flags, left, @)]
         /\ review' = [review EXCEPT ![k] = Written(old.review, ReviewAfterPhoto(old, left), @)]
    ELSE UNCHANGED <<flags, review>>

\* The photo is committed, with what it changed on the execution.
CommitUpload(s) ==
    /\ pc[s] = "inserted"
    /\ photos' = [photos EXCEPT ![row[s]] = @ \cup {key[s]}]
    /\ Reconcile(row[s], copy[s], ~short[s])
    /\ EndRequest(s)
    /\ UNCHANGED <<stop, visited, closedBy>>

-----------------------------------------------------------------------------
(* Review and release *)

\* A manager resolves a pending review, judged on the row as it was loaded.
BeginResolve(s, k) ==
    /\ pc[s] = "idle"
    /\ review[k] = "PENDING_REVIEW"
    /\ pc'  = [pc EXCEPT ![s] = "resolving"]
    /\ row' = [row EXCEPT ![s] = k]
    /\ UNCHANGED <<db, key, copy, held, short>>

CommitResolve(s) ==
    /\ pc[s] = "resolving"
    /\ review' = [review EXCEPT ![row[s]] = "RESOLVED"]
    /\ EndRequest(s)
    /\ UNCHANGED <<stop, visited, closedBy, flags, photos>>

\* Mutant: the release overwrites the stop without looking at the row.
AnyStop(t) == t \in Stops
\* The status guard of the release's UPDATE, which waits for the stop's lock.
IsLive(t) == stop[t] \in {"PENDING", "IN_PROGRESS"} /\ \A s \in Sessions : t \notin held[s]

\* An impediment, the release scan or the end of the day gives the stop back.
Release(t) ==
    /\ IsLive(t)
    /\ stop' = [stop EXCEPT ![t] = "RELEASED"]
    /\ UNCHANGED <<execution, photos, requests>>

\* The request fails: refused, lost, or a unique key taken meanwhile.
Rollback(s) ==
    /\ pc[s] # "idle"
    /\ EndRequest(s)
    /\ UNCHANGED db

-----------------------------------------------------------------------------

Ask(s) ==
    \/ \E k \in CheckInKeys : BeginCheckIn(s, k) \/ BeginResolve(s, k)
    \/ \E o \in CheckOutKeys : BeginCheckOut(s, o)
    \/ \E k \in CheckInKeys, x \in PhotoKeys : BeginUpload(s, k, x)

Proceed(s) ==
    \/ CommitCheckIn(s)
    \/ LoadOpenCheckin(s) \/ CountPhotos(s) \/ CommitCheckOut(s)
    \/ InsertAndCount(s) \/ CommitUpload(s)
    \/ CommitResolve(s)

Next ==
    \/ \E s \in Sessions : Ask(s) \/ Proceed(s) \/ Rollback(s)
    \/ \E t \in Stops : Release(t)

Spec == Init /\ [][Next]_vars

-----------------------------------------------------------------------------
(* Properties *)

Copies == [closed : BOOLEAN, flags : SUBSET Flags, review : ExecutionReviewStatus]

\* The types, and which steps hold a copy and stop locks.
TypeOK ==
    /\ stop \in [Stops -> RouteStopStatus]
    /\ visited \in [CheckInKeys -> Stops \cup {NoStop}]
    /\ closedBy \in [CheckInKeys -> CheckOutKeys \cup {NoKey}]
    /\ flags \in [CheckInKeys -> SUBSET Flags]
    /\ review \in [CheckInKeys -> ExecutionReviewStatus]
    /\ photos \in [CheckInKeys -> SUBSET PhotoKeys]
    /\ pc \in [Sessions -> {"idle", "checking_in", "checking_out", "loaded", "counted",
                            "uploading", "inserted", "resolving"}]
    /\ key \in [Sessions -> CheckInKeys \cup CheckOutKeys \cup PhotoKeys \cup {NoKey}]
    /\ row \in [Sessions -> CheckInKeys \cup {NoKey}]
    /\ copy \in [Sessions -> Copies \cup {NoCopy}]
    /\ held \in [Sessions -> SUBSET Stops]
    /\ short \in [Sessions -> BOOLEAN]
    /\ \A s \in Sessions :
        /\ pc[s] \in {"loaded", "counted", "uploading", "inserted"} =>
                row[s] \in CheckInKeys /\ copy[s] \in Copies
        /\ held[s] # {} => pc[s] \in {"loaded", "counted"}

\* A stop is executed at most once and a check-out key closes at most one execution, although
\* every request may be sent twice and both may be in flight (execution/service.py, the two
\* idempotency keys).
NothingDoneTwice ==
    \A j, k \in CheckInKeys : j # k =>
        /\ visited[j] # NoStop => visited[j] # visited[k]
        /\ closedBy[j] # NoKey => closedBy[j] # closedBy[k]

\* The stop and its execution agree: nothing is PENDING once checked in, a DONE stop was checked
\* out, and a released one never was (execution/service.py, the two FOR UPDATE reads).
StopMatchesExecution ==
    /\ \A k \in CheckInKeys : visited[k] # NoStop =>
        /\ stop[visited[k]] # "PENDING"
        /\ (stop[visited[k]] = "DONE") <=> (closedBy[k] # NoKey)
    /\ \A t \in Stops : stop[t] \in {"IN_PROGRESS", "DONE"} =>
        \E k \in CheckInKeys : visited[k] = t

\* Work that was checked out with too few photos carries the flag that says so, whatever uploads
\* raced the check-out (evidence_service.py, reconcile_evidence_flag).
ShortEvidenceFlagged ==
    \A k \in CheckInKeys :
        /\ closedBy[k] # NoKey
        /\ visited[k] \in NeedsEvidence
        /\ Cardinality(photos[k]) < MinPhotos
        => Insufficient \in flags[k]

\* A flagged execution is in front of a manager or was: no interleaving of check-outs, late
\* photos and reviews leaves flags on an execution that nobody is asked to look at
\* (execution/service.py, review_status).
FlaggedIsReviewed ==
    \A k \in CheckInKeys : flags[k] # {} => review[k] # "NONE"

\* "a RESOLVED one is never touched" (evidence_service.py:160): only a check-out reopens a
\* review that a manager resolved.
ResolvedStaysResolved ==
    [][\A k \in CheckInKeys :
        review[k] = "RESOLVED" /\ closedBy'[k] = closedBy[k] => review'[k] = "RESOLVED"]_vars

\* "A check-out-time anomaly must reach a human even if a manager already resolved the check-in
\* review" (execution/service.py:279): a check-out that adds a flag leaves the review pending.
CheckOutAnomalyReachesHuman ==
    [][\A k \in CheckInKeys :
        closedBy'[k] # closedBy[k] /\ ~(flags'[k] \subseteq flags[k])
            => review'[k] = "PENDING_REVIEW"]_vars

-----------------------------------------------------------------------------
(* The abstract specification *)

\* The rows alone: what the requests hold and know is hidden.
Record == INSTANCE StopRecord

\* Every request on a stop works as if it ran alone at the moment it commits: what it read before
\* without a lock, counted, or loaded into a copy makes no difference to the stops, the check-outs,
\* the anomalies and the photos on record, and a flag of short evidence is at most too many
\* (execution/service.py, evidence_service.py).
ImplementsStopRecord == Record!RecordSpec
=============================================================================
