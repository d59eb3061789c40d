------------------------ MODULE EvidenceStoreProofs ------------------------
(***************************************************************************)
(* Theorems about EvidenceStore, for any set of photos and any number of   *)
(* failed purges.                                                          *)
(*                                                                         *)
(* The argument: what each actor still means to delete is the object of an *)
(* upload that is over, and of a row that is expired (purge), gone         *)
(* (deletion) or never was (script, in its maintenance window).            *)
(***************************************************************************)
EXTENDS EvidenceStore, TLAPS

\* A row comes last in its upload, an object before it.
UploadInv ==
    \A x \in Photos :
        /\ x \in row => upload[x] = "over"
        /\ upload[x] \in {"new", "loaded"} => x \notin object

\* The purge goes for expired rows, and what it deleted stays deleted.
PurgeInv ==
    \A x \in doomed :
        /\ x \in old
        /\ upload[x] = "over"
        /\ x \in left \/ x \notin object

\* Once the execution is gone, so are its rows, and none comes after.
DeletionInv ==
    /\ \A x \in listed : upload[x] = "over"
    /\ deletion = "removing" => ~alive
    /\ ~alive => row = {} /\ \A x \in Photos : upload[x] # "inserted"

IInv == TypeOK /\ UploadInv /\ PurgeInv /\ DeletionInv

\* In its window the script sees every row there is.
ScriptInv ==
    script # "idle" =>
        /\ \A x \in Photos : ~InFlight(x)
        /\ row \subseteq referenced
        /\ orphans \cap referenced = {}

\* A photo on its way has its object, and so has every row that is kept.
ObjectInv ==
    /\ \A x \in Photos : upload[x] \in {"put", "inserted"} => x \in object
    /\ KeptPhotoHasObject

\* The stores start empty.
LEMMA InitIInv == Init => IInv /\ ScriptInv /\ ObjectInv
<1> SUFFICES ASSUME Init PROVE IInv /\ ScriptInv /\ ObjectInv
  OBVIOUS
<1> USE DEF Init
<1>1. TypeOK
  BY MaxFailuresNat DEF TypeOK, UploadStep
<1>2. UploadInv /\ PurgeInv /\ DeletionInv
  BY DEF UploadInv, PurgeInv, DeletionInv
<1>3. ScriptInv /\ ObjectInv
  BY DEF ScriptInv, ObjectInv, KeptPhotoHasObject
<1> QED
  BY <1>1, <1>2, <1>3 DEF IInv

\* Every step preserves what does not depend on the script's window.
LEMMA StepIInv == IInv /\ [Next]_vars => IInv'
<1> SUFFICES ASSUME IInv, [Next]_vars PROVE IInv'
  OBVIOUS
<1> USE MaxFailuresNat
    DEF IInv, TypeOK, UploadInv, PurgeInv, DeletionInv, stores, purgeVars, deletionVars, scriptVars
<1>1. CASE UNCHANGED vars
  BY <1>1 DEF vars
<1>2. ASSUME NEW x \in Photos, Upload(x) PROVE IInv'
  <2>1. CASE BeginUpload(x)
    BY <2>1 DEF BeginUpload, Advance, UploadStep
  <2>2. CASE PutObject(x)
    BY <2>2 DEF PutObject, Advance, UploadStep
  <2>3. CASE InsertRow(x)
    BY <2>3 DEF InsertRow, Advance, UploadStep
  <2>4. CASE CommitUpload(x)
    BY <2>4 DEF CommitUpload, Advance, UploadStep
  <2>5. CASE FailUpload(x)
    BY <2>5 DEF FailUpload, InFlight, UploadStep
  <2> QED
    BY <1>2, <2>1, <2>2, <2>3, <2>4, <2>5 DEF Upload
<1>3. ASSUME NEW x \in Photos, PassCutoff(x) PROVE IInv'
  BY <1>3 DEF PassCutoff
<1>4. CASE Purge
  <2>1. CASE SelectDoomed
    BY <2>1 DEF SelectDoomed, Expired
  <2>2. CASE CommitPurge
    BY <2>2 DEF CommitPurge, PurgeOver
  <2>3. ASSUME NEW x \in Photos, RemoveOldObject(x) PROVE IInv'
    BY <2>3 DEF RemoveOldObject
  <2> QED
    BY <1>4, <2>1, <2>2, <2>3 DEF Purge
<1>5. CASE FailPurge
  BY <1>5 DEF FailPurge, PurgeOver
<1>6. CASE Delete
  <2>1. CASE ListPhotoKeys
    BY <2>1 DEF ListPhotoKeys
  <2>2. CASE DeleteRows
    BY <2>2 DEF DeleteRows
  <2>3. CASE CommitDeletion
    BY <2>3 DEF CommitDeletion
  <2>4. CASE FailDeletion
    BY <2>4 DEF FailDeletion
  <2>5. ASSUME NEW x \in Photos, RemoveListed(x) \/ SkipListed(x) PROVE IInv'
    BY <2>5 DEF RemoveListed, SkipListed
  <2> QED
    BY <1>6, <2>1, <2>2, <2>3, <2>4, <2>5 DEF Delete
<1>7. CASE Script
  <2>1. CASE ReadReferenced \/ ListKeys \/ EndScript \/ FailScript
    BY <2>1 DEF ReadReferenced, ListKeys, EndScript, FailScript, Orphaned
  <2>2. ASSUME NEW x \in Photos, RemoveOrphan(x) PROVE IInv'
    BY <2>2 DEF RemoveOrphan
  <2> QED
    BY <1>7, <2>1, <2>2 DEF Script
<1> QED
  BY <1>1, <1>2, <1>3, <1>4, <1>5, <1>6, <1>7 DEF Next

\* In a maintenance window, every step preserves the rest.
LEMMA StepWindow ==
    ASSUME ~WhileServing
    PROVE  IInv /\ ScriptInv /\ ObjectInv /\ [Next]_vars => ScriptInv' /\ ObjectInv'
<1> SUFFICES ASSUME IInv, ScriptInv, ObjectInv, [Next]_vars PROVE ScriptInv' /\ ObjectInv'
  OBVIOUS
<1> USE DEF IInv, TypeOK, UploadInv, PurgeInv, DeletionInv, ScriptInv, ObjectInv,
    KeptPhotoHasObject, InFlight, stores, purgeVars, deletionVars, scriptVars
<1>1. CASE UNCHANGED vars
  BY <1>1 DEF vars
<1>2. ASSUME NEW x \in Photos, Upload(x) PROVE ScriptInv' /\ ObjectInv'
  <2>1. script = "idle" /\ UNCHANGED script
    BY <1>2 DEF Upload, BeginUpload, PutObject, InsertRow, CommitUpload, FailUpload, Advance,
       NoScript
  <2>2. ObjectInv'
    BY <1>2 DEF Upload, BeginUpload, PutObject, InsertRow, CommitUpload, FailUpload, Advance
  <2> QED
    BY <2>1, <2>2
<1>3. ASSUME NEW x \in Photos, PassCutoff(x) PROVE ScriptInv' /\ ObjectInv'
  BY <1>3 DEF PassCutoff
<1>4. CASE Purge
  <2>1. CASE SelectDoomed
    BY <2>1 DEF SelectDoomed
  <2>2. CASE CommitPurge
    BY <2>2 DEF CommitPurge
  <2>3. ASSUME NEW x \in Photos, RemoveOldObject(x) PROVE ScriptInv' /\ ObjectInv'
    BY <2>3 DEF RemoveOldObject
  <2> QED
    BY <1>4, <2>1, <2>2, <2>3 DEF Purge
<1>5. CASE FailPurge
  BY <1>5 DEF FailPurge
<1>6. CASE Delete
  <2>1. CASE ListPhotoKeys \/ DeleteRows \/ CommitDeletion \/ FailDeletion
    BY <2>1 DEF ListPhotoKeys, DeleteRows, CommitDeletion, FailDeletion
  <2>2. ASSUME NEW x \in Photos, RemoveListed(x) \/ SkipListed(x)
        PROVE  ScriptInv' /\ ObjectInv'
    BY <2>2 DEF RemoveListed, SkipListed, AfterCommit
  <2> QED
    BY <1>6, <2>1, <2>2 DEF Delete
<1>7. CASE Script
  <2>1. CASE ReadReferenced
    BY <2>1 DEF ReadReferenced, NoUpload
  <2>2. CASE ListKeys \/ EndScript \/ FailScript
    BY <2>2 DEF ListKeys, EndScript, FailScript, Orphaned
  <2>3. ASSUME NEW x \in Photos, RemoveOrphan(x) PROVE ScriptInv' /\ ObjectInv'
    BY <2>3 DEF RemoveOrphan
  <2> QED
    BY <1>7, <2>1, <2>2, <2>3 DEF Script
<1> QED
  BY <1>1, <1>2, <1>3, <1>4, <1>5, <1>6, <1>7 DEF Next

\* The invariant holds in every reachable state.
LEMMA InvariantHolds == Spec => []IInv
<1>1. Init => IInv
  BY InitIInv
<1> QED
  BY <1>1, StepIInv, PTL DEF Spec

\* The types, and what each actor keeps only while it is at work.
THEOREM EvidenceTypes == Spec => []TypeOK
<1>1. IInv => TypeOK
  BY DEF IInv
<1> QED
  BY <1>1, InvariantHolds, PTL

\* With the orphan script kept to maintenance windows, a photo that its window keeps never loses
\* its object (evidence_service.py, purge.py, deletion.py, purge_orphan_evidence.py).
THEOREM KeptPhotosHaveObjects ==
    ASSUME ~WhileServing
    PROVE  Spec => []KeptPhotoHasObject
<1> DEFINE WInv == ScriptInv /\ ObjectInv
<1>1. Init => WInv
  BY InitIInv
<1>2. IInv /\ WInv /\ [Next]_vars => WInv'
  BY StepWindow
<1>3. WInv => KeptPhotoHasObject
  BY DEF ObjectInv
<1> HIDE DEF WInv
<1> QED
  BY <1>1, <1>2, <1>3, InvariantHolds, PTL DEF Spec

\* A row that the purge deletes has lost its object before, whenever the script runs (purge.py).
THEOREM PurgeNeverOrphans == Spec => PurgeOrphansNothing
<1>1. IInv /\ [Next]_vars => (\A x \in row \ row' : alive' => x \notin object')
  <2> SUFFICES ASSUME IInv, Next, NEW x \in row \ row', alive' PROVE x \notin object'
    BY DEF vars, stores
  <2>1. CommitPurge \/ CommitDeletion
    BY DEF Next, Upload, BeginUpload, PutObject, InsertRow, CommitUpload, FailUpload, Advance,
       PassCutoff, Purge, SelectDoomed, RemoveOldObject, FailPurge, Delete, ListPhotoKeys,
       DeleteRows, FailDeletion, RemoveListed, SkipListed, Script, ReadReferenced, ListKeys,
       RemoveOrphan, EndScript, FailScript, stores
  <2>2. CASE CommitPurge
    BY <2>2 DEF CommitPurge, ObjectsGone, IInv, PurgeInv
  <2>3. CASE CommitDeletion
    BY <2>3 DEF CommitDeletion
  <2> QED
    BY <2>1, <2>2, <2>3
<1> QED
  BY <1>1, InvariantHolds, PTL DEF Spec, PurgeOrphansNothing
=============================================================================
