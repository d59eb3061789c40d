----------------------------- MODULE ServiceTypes -----------------------------
(***************************************************************************)
(* The catalog under the pool: the service types of the companies, the     *)
(* points of each type and where they are (api/contractor_companies.py,    *)
(* api/service_points.py, api/buildings.py, catalog/points.py), for one    *)
(* building.                                                               *)
(*                                                                         *)
(* Nothing is locked before it is judged.  What holds when two managers    *)
(* work at once is due to the foreign keys, which are judged at the commit.*)
(***************************************************************************)
EXTENDS Naturals, FiniteSets

CONSTANTS
    Companies,
    Types,      \* ids of ServiceType rows
    Spots,      \* ids of ServicePoint rows
    Dialogs,    \* company dialogs that may be submitted at once
    MaxOutlines \* bound: outlines drawn for the building, 0 being none

ASSUME ServiceTypesAssumption ==
    /\ MaxOutlines \in Nat
    /\ "NONE" \notin Companies /\ "UNTIED" \notin Companies /\ "NONE" \notin Types

VARIABLES
    owner,    \* owner[t]: the type's company, "UNTIED", or "NONE" without a row
    spot,     \* ServicePoint rows: their type, and the outline they lie in
    made,     \* the stops of each point, by the type they were made for
    outline,  \* the building's outline
    dialog,   \* each company dialog: the types it loaded, keeps and adopts
    edit,     \* the open creation or type change of each point
    redraw,   \* the open redrawing: its outline and the points it moves
    \* history, for the properties only
    missed \* the points that were being created while the building was redrawn

catalogVars == <<owner, spot, made, outline, dialog, edit, redraw, missed>>

NoSpot   == [type |-> "NONE"]
NoDialog == [step |-> "closed"]
NoEdit   == [op |-> "NONE"]
NoRedraw == [moved |-> {}, to |-> 0]

Exists(t)      == owner[t] # "NONE"
OwnedBy(c)   == {t \in Types : owner[t] = c}
SpotsOf(t)   == {p \in Spots : spot[p].type = t}
HasHistory(t) == \E p \in Spots : <<p, t>> \in made

\* A foreign key: rows of these types can be deleted.
Unreferenced(types) == \A t \in types : SpotsOf(t) = {} /\ ~HasHistory(t)

\* Migrated data: types without a company, and a building without an outline.
CatalogInit ==
    /\ owner \in [Types -> {"UNTIED", "NONE"}]
    /\ spot = [p \in Spots |-> NoSpot] /\ made = {}
    /\ outline = 0 /\ redraw = NoRedraw
    /\ dialog = [d \in Dialogs |-> NoDialog] /\ edit = [p \in Spots |-> NoEdit]
    /\ missed = {}

-----------------------------------------------------------------------------
(* The dialog of a company *)

\* The dialog is submitted with the types it keeps, and what the company owns is loaded.
OpenDialog(d, c, kept) ==
    /\ dialog[d] = NoDialog
    /\ \A t \in kept : Exists(t)
    /\ dialog' = [dialog EXCEPT ![d] = [step |-> "loaded", company |-> c, kept |-> kept,
                                        owned |-> OwnedBy(c)]]
    /\ UNCHANGED <<owner, spot, made, outline, edit, redraw, missed>>

Close(d) == dialog' = [dialog EXCEPT ![d] = NoDialog]

Removed(d) == dialog[d].owned \ dialog[d].kept
Others(d)  == dialog[d].kept \ dialog[d].owned

\* The whole set is judged: a type left out must be unused, and one that is not the company's
\* must be there and untied.
JudgeDialog(d) ==
    /\ dialog[d].step = "loaded"
    /\ IF /\ Unreferenced(Removed(d))
          /\ \A t \in Others(d) : owner[t] \in {"UNTIED", dialog[d].company}
       THEN dialog' = [dialog EXCEPT ![d].step = "judged"]
       ELSE Close(d)
    /\ UNCHANGED <<owner, spot, made, outline, edit, redraw, missed>>

\* Mutant: no foreign key, only what the judgement saw.
Unchecked(d) == Types # {}
\* The delete of the types left out passes the foreign keys.
KeysAllow(d) == Unreferenced(Removed(d))

\* The company gets exactly the types it kept and adopted, and new ones; or the transaction is
\* refused: a type left out has come into use, or an adopted one is gone.
CommitDialog(d, new) ==
    /\ dialog[d].step = "judged"
    /\ \A t \in new : ~Exists(t)
    /\ IF KeysAllow(d) /\ \A t \in Others(d) : Exists(t)
       THEN owner' = [t \in Types |->
                         IF t \in Removed(d) /\ Exists(t) THEN "NONE"
                         ELSE IF t \in Others(d) \cup new THEN dialog[d].company ELSE owner[t]]
       ELSE UNCHANGED owner
    /\ Close(d)
    /\ UNCHANGED <<spot, made, outline, edit, redraw, missed>>

-----------------------------------------------------------------------------
(* Points *)

\* _require_service_type: the type is there and belongs to a company.
Servable(t) == owner[t] \in Companies

\* A point is created where the building lies now, or given another type.
BeginCreate(p, t) ==
    /\ spot[p] = NoSpot /\ edit[p] = NoEdit
    /\ outline # 0 /\ Servable(t)
    /\ edit' = [edit EXCEPT ![p] = [op |-> "CREATE", type |-> t, at |-> outline]]
    /\ UNCHANGED <<owner, spot, made, outline, dialog, redraw, missed>>

BeginRetype(p, t) ==
    /\ spot[p] # NoSpot /\ edit[p] = NoEdit
    /\ Servable(t)
    /\ edit' = [edit EXCEPT ![p] = [op |-> "RETYPE", type |-> t]]
    /\ UNCHANGED <<owner, spot, made, outline, dialog, redraw, missed>>

\* The rows the open redrawing wrote are locked until it commits.
Unlocked(p) == p \notin redraw.moved

\* The foreign key to the type is judged now; a point that went meanwhile is not changed.
CommitEdit(p) ==
    /\ edit[p] # NoEdit /\ Unlocked(p)
    /\ IF ~Exists(edit[p].type) \/ (edit[p].op = "RETYPE" /\ spot[p] = NoSpot) THEN UNCHANGED spot
       ELSE spot' = [spot EXCEPT ![p] = IF edit[p].op = "RETYPE" THEN [@ EXCEPT !.type = edit[p].type]
                                        ELSE [type |-> edit[p].type, at |-> edit[p].at]]
    /\ edit' = [edit EXCEPT ![p] = NoEdit]
    /\ missed' = IF spot'[p] = NoSpot THEN missed \ {p} ELSE missed
    /\ UNCHANGED <<owner, made, outline, dialog, redraw>>

\* A point is handed out, which leaves a stop of its type; or it is deleted with its stops.
MakeStop(p) ==
    /\ spot[p] # NoSpot
    /\ made' = made \cup {<<p, spot[p].type>>}
    /\ UNCHANGED <<owner, spot, outline, dialog, edit, redraw, missed>>

RemoveSpot(p) ==
    /\ spot[p] # NoSpot /\ Unlocked(p)
    /\ spot' = [spot EXCEPT ![p] = NoSpot]
    /\ made' = {m \in made : m[1] # p}
    /\ missed' = missed \ {p}
    /\ UNCHANGED <<owner, outline, dialog, edit, redraw>>

-----------------------------------------------------------------------------
(* Redrawing the building *)

Committed == {p \in Spots : spot[p] # NoSpot}

\* The outline is written, which locks the building, and every point of it is moved.
MoveSpots ==
    /\ redraw = NoRedraw /\ outline < MaxOutlines
    /\ redraw' = [moved |-> Committed, to |-> outline + 1]
    /\ UNCHANGED <<owner, spot, made, outline, dialog, edit, missed>>

\* Mutant: the points are left where they are.
MovesNothing == {}
\* Every point the update found.
Moves == redraw.moved

CommitRedraw ==
    /\ redraw # NoRedraw
    /\ outline' = redraw.to
    /\ spot' = [p \in Spots |-> IF p \in Moves /\ spot[p] # NoSpot
                                THEN [spot[p] EXCEPT !.at = redraw.to] ELSE spot[p]]
    /\ missed' = {p \in Spots \ redraw.moved : spot[p] # NoSpot \/ edit[p] # NoEdit}
    /\ redraw' = NoRedraw
    /\ UNCHANGED <<owner, made, dialog, edit>>

-----------------------------------------------------------------------------

CatalogNext ==
    \/ \E d \in Dialogs, c \in Companies, kept \in SUBSET Types : OpenDialog(d, c, kept)
    \/ \E d \in Dialogs : JudgeDialog(d)
    \/ \E d \in Dialogs, new \in SUBSET Types : CommitDialog(d, new)
    \/ \E p \in Spots, t \in Types : BeginCreate(p, t) \/ BeginRetype(p, t)
    \/ \E p \in Spots : CommitEdit(p) \/ MakeStop(p) \/ RemoveSpot(p)
    \/ MoveSpots \/ CommitRedraw

CatalogSpec == CatalogInit /\ [][CatalogNext]_catalogVars

-----------------------------------------------------------------------------
(* Properties *)

\* Every variable keeps its type.
CatalogTypeOK ==
    /\ owner \in [Types -> Companies \cup {"UNTIED", "NONE"}]
    /\ spot \in [Spots -> {NoSpot} \cup [type : Types, at : 1..MaxOutlines]]
    /\ made \subseteq Spots \X Types
    /\ outline \in 0..MaxOutlines
    /\ dialog \in [Dialogs -> {NoDialog} \cup [step : {"loaded", "judged"}, company : Companies,
                                               kept : SUBSET Types, owned : SUBSET Types]]
    /\ edit \in [Spots -> {NoEdit} \cup [op : {"RETYPE"}, type : Types]
                                   \cup [op : {"CREATE"}, type : Types, at : 1..MaxOutlines]]
    /\ redraw \in {NoRedraw} \cup [moved : SUBSET Spots, to : 1..MaxOutlines]
    /\ missed \subseteq Spots

\* _require_service_type: "A point's type must exist and belong to a company, or no worker could
\* ever receive it".  It goes on to, whatever the companies' dialogs do to the type while the
\* point is created, retyped or handed out; and the type of every stop on record stays.
PointIsServable ==
    /\ \A p \in Spots : spot[p] # NoSpot => Servable(spot[p].type)
    /\ \A m \in made : Exists(m[2])

\* points.py: a point's place is "the centre of the building outline, rewritten when it is
\* redrawn".  Only a point that was being created while the building was redrawn is left in the
\* old outline, and the next redrawing takes it along.
PointFollowsBuilding ==
    \A p \in Spots \ missed : spot[p] # NoSpot => spot[p].at = outline

=============================================================================
