------------------------------ MODULE MCRecords ------------------------------
(***************************************************************************)
(* One model for what managers and workers do to the records: QR codes,    *)
(* appeals and the reports over them, accounts, the catalog and its        *)
(* deletions, and to what the board shows.  They share no variable, so     *)
(* every behaviour is about one of them, `part`, and the others rest.  They*)
(* do share the model values they are symmetric in, which keeps the        *)
(* symmetry group small.                                                   *)
(***************************************************************************)
EXTENDS QrCodes, PointDays, Accounts, ServiceTypes, PointDeletion, LiveBoard, TLC

CONSTANT p1 \* the point that was there from the first day

\* The other point is created on the last day.
MCCreatedOn == [p \in Points |-> IF p = p1 THEN 0 ELSE 2]

Symmetry == Permutations(Workers) \cup Permutations(Managers) \cup Permutations(Stops)
                \cup Permutations(Attempts)

VARIABLE part \* the component that this behaviour is about

recordsVars == <<vars, appealVars, accountVars, catalogVars, deletionVars, boardVars, part>>

RecordsInit ==
    /\ Init /\ AppealsInit /\ AccountsInit /\ CatalogInit /\ DeletionInit
    /\ BoardInit
    /\ part \in {"QR", "APPEALS", "ACCOUNTS", "CATALOG", "DELETION", "BOARD"}
    /\ part # "CATALOG" => owner = [t \in Types |-> "NONE"]

\* Bound: two requests are open at a time, filings or hearings, and they are about one stop.
OpenRequests == {r \in Filings : filing[r] # NoRequest} \cup {m \in Managers : hearing[m] # NoRequest}
OnOneStop == /\ Cardinality(OpenRequests) <= 2
             /\ \E s \in Stops : /\ \A r \in Filings \cap OpenRequests : filing[r].stop = s
                               /\ \A m \in Managers \cap OpenRequests : hearing[m].stop = s

\* Bound: no company dialog is open while the building is redrawn, nor once it was for the last
\* time.  A dialog writes types and a redrawing places, so neither sees the other.
NoDialogWhileDrawing ==
    redraw # NoRedraw \/ outline = MaxOutlines => \A d \in Dialogs : dialog[d] = NoDialog

RecordsNext ==
    /\ \/ /\ part = "QR" /\ Next
          /\ UNCHANGED <<appealVars, accountVars, catalogVars, deletionVars, boardVars>>
       \/ /\ part = "APPEALS" /\ AppealsNext /\ OnOneStop'
          /\ UNCHANGED <<vars, accountVars, catalogVars, deletionVars, boardVars>>
       \/ /\ part = "ACCOUNTS" /\ AccountsNext
          /\ UNCHANGED <<vars, appealVars, catalogVars, deletionVars, boardVars>>
       \/ /\ part = "CATALOG" /\ CatalogNext /\ NoDialogWhileDrawing'
          /\ UNCHANGED <<vars, appealVars, accountVars, deletionVars, boardVars>>
       \/ /\ part = "DELETION" /\ DeletionNext
          /\ UNCHANGED <<vars, appealVars, accountVars, catalogVars, boardVars>>
       \/ /\ part = "BOARD" /\ BoardNext
          /\ UNCHANGED <<vars, appealVars, accountVars, catalogVars, deletionVars>>
    /\ UNCHANGED part

RecordsSpec == RecordsInit /\ [][RecordsNext]_recordsVars

\* Every component keeps its types.
RecordsTypeOK ==
    /\ TypeOK /\ AppealsTypeOK /\ AccountsTypeOK /\ CatalogTypeOK /\ DeletionTypeOK
    /\ BoardTypeOK
=============================================================================
