--------------------------- MODULE EvidenceStore ---------------------------
(***************************************************************************)
(* The photos of one execution in two stores without a common transaction: *)
(* objects in MinIO and rows in evidence_items (execution/evidence_service,*)
(* retention/purge, catalog/deletion, scripts/purge_orphan_evidence).      *)
(*                                                                         *)
(* Every upload puts its photo under a key of its own (uuid4), so a photo  *)
(* stands for its upload request, its object and its row.  A retry of an   *)
(* upload is another photo, whose row the idempotency key refuses.  The    *)
(* store acts at once and never rolls back; a row changes when its         *)
(* transaction commits.                                                    *)
(***************************************************************************)
EXTENDS Naturals, FiniteSets

CONSTANTS
    Photos,         \* the uploads, one object key each
    WhileServing,   \* the orphan script may run while photos are uploaded
    MaxFailures     \* the purge fails finitely often: a bound on how often

ASSUME WhileServingBoolean == WhileServing \in BOOLEAN
ASSUME MaxFailuresNat      == MaxFailures \in Nat

VARIABLES
    \* the object store and the database, as committed
    object,     \* the keys in the bucket
    row,        \* the photos with a committed evidence row
    alive,      \* the execution exists: its point was not deleted
    old,        \* the photos captured before the retention cutoff
    \* the actors
    upload,     \* upload[x]: where the upload of x is
    purge,      \* the nightly purge: "idle" or "purging"
    doomed,     \* the rows it selected
    left,       \* those whose object it still has to delete
    deletion,   \* the deletion of the point: where it is
    listed,     \* the object keys it has read
    cleared,    \* the evidence rows it deletes, locked until it commits
    script,     \* the orphan script: where it is
    referenced, \* the keys it found referenced
    orphans,    \* the keys it is about to delete
    failures    \* how often the purge has failed

stores == <<object, row, alive>>
purgeVars == <<purge, doomed, left>>
deletionVars == <<deletion, listed, cleared>>
scriptVars == <<script, referenced, orphans>>
vars == <<stores, old, upload, purgeVars, deletionVars, scriptVars, failures>>

UploadStep == {"new", "loaded", "put", "inserted", "over"}

\* The upload is between its first read and its end.
InFlight(x) == upload[x] \in {"loaded", "put", "inserted"}

\* The script runs in a maintenance window unless it may run while serving.
NoScript == WhileServing \/ script = "idle"
NoUpload == WhileServing \/ \A x \in Photos : ~InFlight(x)

Init ==
    /\ object = {} /\ row = {} /\ alive = TRUE
    /\ old = {}
    /\ upload = [x \in Photos |-> "new"]
    /\ purge = "idle" /\ doomed = {} /\ left = {}
    /\ deletion = "idle" /\ listed = {} /\ cleared = {}
    /\ script = "idle" /\ referenced = {} /\ orphans = {}
    /\ failures = 0

-----------------------------------------------------------------------------
(* Uploading *)

Advance(x, from, to) ==
    /\ upload[x] = from
    /\ upload' = [upload EXCEPT ![x] = to]
    /\ UNCHANGED <<alive, old, purgeVars, deletionVars, scriptVars, failures>>

\* The execution is loaded.
BeginUpload(x) ==
    /\ alive
    /\ NoScript
    /\ Advance(x, "new", "loaded")
    /\ UNCHANGED <<object, row>>

PutObject(x) ==
    /\ Advance(x, "loaded", "put")
    /\ object' = object \cup {x}
    /\ UNCHANGED row

\* The row is flushed: its foreign key needs the execution, and keeps it until the commit.
InsertRow(x) ==
    /\ alive
    /\ Advance(x, "put", "inserted")
    /\ UNCHANGED <<object, row>>

CommitUpload(x) ==
    /\ Advance(x, "inserted", "over")
    /\ row' = row \cup {x}
    /\ UNCHANGED object

\* Lost, refused by the idempotency key or by the foreign key: the object, once put, stays.
FailUpload(x) ==
    /\ InFlight(x)
    /\ upload' = [upload EXCEPT ![x] = "over"]
    /\ UNCHANGED <<stores, old, purgeVars, deletionVars, scriptVars, failures>>

-----------------------------------------------------------------------------
(* The retention purge *)

\* Time passes: the capture of x falls before the cutoff (a photo synced late may be old already).
PassCutoff(x) ==
    /\ x \notin old
    /\ old' = old \cup {x}
    /\ UNCHANGED <<stores, upload, purgeVars, deletionVars, scriptVars, failures>>

\* The rows older than the window.
Expired == row \cap old

\* Mutant: deleting a key that is not there is an error.
DeleteFindsKey(x) == x \in object
\* The store deletes a key whether or not it is there.
CanDelete(x) == x \in Photos

\* Mutant: a failed delete does not keep the rows from being deleted.
RowsAnyway == purge = "purging"
\* Every object went before the rows go.
ObjectsGone == left = {}

\* Mutant: a purge that is over still knows its rows.
PurgeForgetsNothing == purge' = "idle" /\ UNCHANGED <<doomed, left>>
\* The purge is over, committed or rolled back.
PurgeOver == purge' = "idle" /\ doomed' = {} /\ left' = {}

SelectDoomed ==
    /\ purge = "idle"
    /\ Expired # {}
    /\ purge' = "purging"
    /\ doomed' = Expired
    /\ left' = Expired
    /\ UNCHANGED <<stores, old, upload, deletionVars, scriptVars, failures>>

RemoveOldObject(x) ==
    /\ x \in left
    /\ CanDelete(x)
    /\ object' = object \ {x}
    /\ left' = left \ {x}
    /\ UNCHANGED <<row, alive, old, upload, purge, doomed, deletionVars, scriptVars, failures>>

\* The delete of the rows waits for a deletion that has them locked.
CommitPurge ==
    /\ purge = "purging"
    /\ ObjectsGone
    /\ doomed \cap cleared = {}
    /\ row' = row \ doomed
    /\ PurgeOver
    /\ UNCHANGED <<object, alive, old, upload, deletionVars, scriptVars, failures>>

\* A crash or a store error: the objects deleted so far stay deleted, the rows stay.
FailPurge ==
    /\ purge = "purging"
    /\ failures < MaxFailures
    /\ failures' = failures + 1
    /\ PurgeOver
    /\ UNCHANGED <<stores, old, upload, deletionVars, scriptVars>>

-----------------------------------------------------------------------------
(* The deletion of the point with its history *)

\* The object keys are read...
ListPhotoKeys ==
    /\ deletion = "idle"
    /\ alive
    /\ deletion' = "listed"
    /\ listed' = row
    /\ UNCHANGED <<stores, old, upload, purgeVars, cleared, scriptVars, failures>>

\* ...and the rows deleted by another statement, which sees what was committed since.
DeleteRows ==
    /\ deletion = "listed"
    /\ deletion' = "cleared"
    /\ cleared' = row
    /\ UNCHANGED <<stores, old, upload, purgeVars, listed, scriptVars, failures>>

\* Mutant: the objects are deleted before the commit.
EvenBeforeCommit == deletion \in {"listed", "cleared", "removing"}
\* The objects are deleted after the commit.
AfterCommit == deletion = "removing"

\* The execution goes: its delete waits for an upload that inserted a row under it, and fails if
\* one was committed since.
CommitDeletion ==
    /\ deletion = "cleared"
    /\ \A x \in Photos : upload[x] # "inserted"
    /\ row \subseteq cleared
    /\ deletion' = "removing"
    /\ alive' = FALSE
    /\ row' = {}
    /\ cleared' = {}
    /\ UNCHANGED <<object, old, upload, purgeVars, listed, scriptVars, failures>>

RemoveListed(x) ==
    /\ AfterCommit
    /\ x \in listed
    /\ object' = object \ {x}
    /\ listed' = listed \ {x}
    /\ UNCHANGED <<row, alive, old, upload, purgeVars, deletion, cleared, scriptVars, failures>>

\* A key whose delete fails is logged and left; a crash leaves all of them.
SkipListed(x) ==
    /\ AfterCommit
    /\ x \in listed
    /\ listed' = listed \ {x}
    /\ UNCHANGED <<stores, old, upload, purgeVars, deletion, cleared, scriptVars, failures>>

\* The transaction is refused or lost and rolled back; the manager may ask again.
FailDeletion ==
    /\ deletion \in {"listed", "cleared"}
    /\ deletion' = "idle" /\ listed' = {} /\ cleared' = {}
    /\ UNCHANGED <<stores, old, upload, purgeVars, scriptVars, failures>>

-----------------------------------------------------------------------------
(* The orphan script *)

ReadReferenced ==
    /\ script = "idle"
    /\ NoUpload
    /\ script' = "read"
    /\ referenced' = row
    /\ UNCHANGED <<stores, old, upload, purgeVars, deletionVars, orphans, failures>>

\* The keys that no row referenced when the rows were read.
Orphaned == object \ referenced

ListKeys ==
    /\ script = "read"
    /\ script' = "removing"
    /\ orphans' = Orphaned
    /\ UNCHANGED <<stores, old, upload, purgeVars, deletionVars, referenced, failures>>

RemoveOrphan(x) ==
    /\ x \in orphans
    /\ object' = object \ {x}
    /\ orphans' = orphans \ {x}
    /\ UNCHANGED <<row, alive, old, upload, purgeVars, deletionVars, script, referenced, failures>>

EndScript ==
    /\ script = "removing"
    /\ orphans = {}
    /\ script' = "idle" /\ referenced' = {}
    /\ UNCHANGED <<stores, old, upload, purgeVars, deletionVars, orphans, failures>>

FailScript ==
    /\ script # "idle"
    /\ script' = "idle" /\ referenced' = {} /\ orphans' = {}
    /\ UNCHANGED <<stores, old, upload, purgeVars, deletionVars, failures>>

-----------------------------------------------------------------------------

Upload(x) ==
    BeginUpload(x) \/ PutObject(x) \/ InsertRow(x) \/ CommitUpload(x) \/ FailUpload(x)

Purge == SelectDoomed \/ CommitPurge \/ \E x \in Photos : RemoveOldObject(x)

Delete ==
    \/ ListPhotoKeys \/ DeleteRows \/ CommitDeletion \/ FailDeletion
    \/ \E x \in Photos : RemoveListed(x) \/ SkipListed(x)

Script ==
    ReadReferenced \/ ListKeys \/ EndScript \/ FailScript \/ \E x \in Photos : RemoveOrphan(x)

Next ==
    \/ \E x \in Photos : Upload(x) \/ PassCutoff(x)
    \/ Purge \/ FailPurge
    \/ Delete
    \/ Script

Spec == Init /\ [][Next]_vars

\* The purge runs every night, and each of its runs goes on until it commits or fails; a deletion
\* that was begun ends, and the purge waiting for its row locks gets them next.
FairSpec ==
    /\ Spec
    /\ WF_vars(Purge) /\ SF_vars(CommitPurge)
    /\ WF_vars(CommitDeletion \/ FailDeletion)

-----------------------------------------------------------------------------
(* Properties *)

\* The types, and what each actor keeps only while it is at work.
TypeOK ==
    /\ object \subseteq Photos /\ row \subseteq Photos /\ alive \in BOOLEAN
    /\ old \subseteq Photos
    /\ upload \in [Photos -> UploadStep]
    /\ purge \in {"idle", "purging"} /\ doomed \subseteq Photos /\ left \subseteq doomed
    /\ purge = "idle" => doomed = {}
    /\ deletion \in {"idle", "listed", "cleared", "removing"}
    /\ listed \subseteq Photos /\ cleared \subseteq Photos
    /\ script \in {"idle", "read", "removing"}
    /\ referenced \subseteq Photos /\ orphans \subseteq Photos
    /\ orphans # {} => script = "removing"
    /\ failures \in 0..MaxFailures

\* A photo that its window still keeps can be shown: its row never lacks its object, whatever
\* uploads, purges, deletions, the script and their failures leave behind.
KeptPhotoHasObject == row \ old \subseteq object

\* The purge leaves no orphan: a row that goes while its execution stays has no object any more
\* (purge.py, "rather than orphaning the object").
PurgeOrphansNothing ==
    [][\A x \in row \ row' : alive' => x \notin object']_vars

\* An expired row goes in the end, however many nights the purge failed half way: deleting the
\* objects again is no error.
ExpiredRowsGo == \A x \in Photos : x \in row \cap old ~> x \notin row

\* "Keys still referenced by a row are never touched, so running it again later is safe"
\* (purge_orphan_evidence.py:7).
ReferencedIsNeverTouched ==
    [][\A x \in row : ~RemoveOrphan(x)]_vars
=============================================================================
