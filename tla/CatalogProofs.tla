---------------------------- MODULE CatalogProofs ----------------------------
(***************************************************************************)
(* Theorems about ServiceTypes, for any number of companies, types, points *)
(* and dialogs, and about PointDeletion, for any number of points, routes, *)
(* stops and deletions.                                                    *)
(*                                                                         *)
(* Of the types, what was judged before the commit may no longer hold at   *)
(* it.  What does hold: a type once tied to a company is never untied, only*)
(* deleted; and a point being created has no row yet that a redrawing could*)
(* have moved.                                                             *)
(***************************************************************************)
EXTENDS ServiceTypes, PointDeletion, FiniteSetTheorems, TLAPS

\* The type a point is being created with, or given, was servable: it still is, or it is gone.
EditedTypeIsTied ==
    \A p \in Spots : edit[p] # NoEdit => owner[edit[p].type] \in Companies \cup {"NONE"}

\* A point is created where the building lies, or is remembered as missed.
CreatedInPlace ==
    \A p \in Spots : edit[p].op = "CREATE" =>
        spot[p] = NoSpot /\ (p \in missed \/ edit[p].at = outline)

\* The redrawing that is open has moved points that are there.
MovedAreThere == \A p \in redraw.moved : spot[p] # NoSpot

CatalogInv ==
    /\ CatalogTypeOK
    /\ PointIsServable
    /\ PointFollowsBuilding
    /\ EditedTypeIsTied
    /\ CreatedInPlace
    /\ MovedAreThere

SpotRow == [type : Types, at : 1..MaxOutlines]
Edit    == [op : {"RETYPE"}, type : Types] \cup [op : {"CREATE"}, type : Types, at : 1..MaxOutlines]

\* A point is told from no point by its type, and an edit from none by its operation.
LEMMA CatalogRowsAreThere == (\A row \in SpotRow : row # NoSpot) /\ (\A e \in Edit : e # NoEdit)
  BY ServiceTypesAssumption DEF SpotRow, NoSpot, Edit, NoEdit

\* The initial state satisfies the invariant: no point, no edit, no redrawing.
LEMMA InitCatalogInv == CatalogInit => CatalogInv
  BY ServiceTypesAssumption
     DEF CatalogInit, CatalogInv, CatalogTypeOK, PointIsServable, PointFollowsBuilding, EditedTypeIsTied,
         CreatedInPlace, MovedAreThere, NoEdit, NoRedraw

-----------------------------------------------------------------------------
(* The dialogs *)

\* A dialog that is opened, judged or closed changes nothing else.
LEMMA DialogKeepsCatalogInv ==
    ASSUME CatalogInv, NEW d \in Dialogs,
           \/ \E c \in Companies, kept \in SUBSET Types : OpenDialog(d, c, kept)
           \/ JudgeDialog(d)
    PROVE  CatalogInv'
<1> USE DEF CatalogInv
<1>1. UNCHANGED <<owner, spot, made, outline, edit, redraw, missed>>
  BY DEF OpenDialog, JudgeDialog
<1> DEFINE Opened == [step : {"loaded", "judged"}, company : Companies, kept : SUBSET Types,
                    owned : SUBSET Types]
<1>2. \E row \in {NoDialog} \cup Opened : dialog' = [dialog EXCEPT ![d] = row]
  <2>1. ASSUME NEW c \in Companies, NEW kept \in SUBSET Types, OpenDialog(d, c, kept)
        PROVE  \E row \in {NoDialog} \cup Opened : dialog' = [dialog EXCEPT ![d] = row]
    <3> DEFINE row == [step |-> "loaded", company |-> c, kept |-> kept, owned |-> OwnedBy(c)]
    <3>1. row \in Opened /\ dialog' = [dialog EXCEPT ![d] = row]
      BY <2>1 DEF OpenDialog, OwnedBy
    <3> QED
      BY <3>1
  <2>2. CASE JudgeDialog(d)
    <3> DEFINE row == [dialog[d] EXCEPT !.step = "judged"]
    <3>1. dialog[d] \in Opened
      BY <2>2 DEF JudgeDialog, CatalogTypeOK, NoDialog
    <3>2. row \in Opened
      BY <3>1
    <3>3. dialog' = [dialog EXCEPT ![d] = row] \/ dialog' = [dialog EXCEPT ![d] = NoDialog]
      BY <2>2 DEF JudgeDialog, Close, CatalogTypeOK
    <3> QED
      BY <3>2, <3>3
  <2> QED
    BY <2>1, <2>2
<1>3. dialog' \in [Dialogs -> {NoDialog} \cup Opened]
  BY <1>2 DEF CatalogTypeOK
<1> QED
  BY <1>1, <1>3 DEF CatalogTypeOK, PointIsServable, PointFollowsBuilding, EditedTypeIsTied,
     CreatedInPlace, MovedAreThere, Servable, Exists

\* The commit of a dialog deletes only types without points and stops, and ties others.
LEMMA CommitKeepsCatalogInv ==
    ASSUME CatalogInv, NEW d \in Dialogs, NEW new \in SUBSET Types, CommitDialog(d, new)
    PROVE  CatalogInv'
<1> USE DEF CatalogInv
<1>1. UNCHANGED <<spot, made, outline, edit, redraw, missed>>
  BY DEF CommitDialog
<1>2. dialog[d].company \in Companies /\ Removed(d) \in SUBSET Types
  BY DEF CommitDialog, CatalogTypeOK, NoDialog, Removed
<1>3. dialog' \in [Dialogs -> {NoDialog} \cup [step : {"loaded", "judged"}, company : Companies,
                                               kept : SUBSET Types, owned : SUBSET Types]]
  BY DEF CommitDialog, Close, CatalogTypeOK
<1>4. /\ owner' \in [Types -> Companies \cup {"UNTIED", "NONE"}]
      /\ \A t \in Types : owner'[t] = owner[t] \/ owner'[t] \in Companies
                             \/ (owner'[t] = "NONE" /\ Unreferenced({t}))
  <2>1. CASE KeysAllow(d) /\ \A t \in Others(d) : Exists(t)
    <3>1. \A t \in Types : owner'[t] = IF t \in Removed(d) /\ Exists(t) THEN "NONE"
                              ELSE IF t \in Others(d) \cup new THEN dialog[d].company ELSE owner[t]
      BY <2>1 DEF CommitDialog
    <3>2. owner' \in [Types -> Companies \cup {"UNTIED", "NONE"}]
      BY <1>2, <2>1 DEF CommitDialog, CatalogTypeOK
    <3>3. \A t \in Removed(d) : Unreferenced({t})
      BY <2>1 DEF KeysAllow, Unreferenced
    <3> QED
      BY <1>2, <3>1, <3>2, <3>3
  <2>2. CASE ~(KeysAllow(d) /\ \A t \in Others(d) : Exists(t))
    BY <2>2 DEF CommitDialog, CatalogTypeOK
  <2> QED
    BY <2>1, <2>2
<1>5. PointIsServable'
  <2>1. \A p \in Spots : spot[p] # NoSpot => spot[p].type \in Types /\ ~Unreferenced({spot[p].type})
    BY DEF CatalogTypeOK, Unreferenced, SpotsOf
  <2>2. \A m \in made : m[2] \in Types /\ ~Unreferenced({m[2]})
    <3>1. \A m \in made : m \in Spots \X Types
      BY DEF CatalogTypeOK
    <3>2. \A m \in made : m[1] \in Spots /\ m[2] \in Types /\ m = <<m[1], m[2]>>
      BY <3>1
    <3> QED
      BY <3>2 DEF Unreferenced, HasHistory
  <2>3. \A p \in Spots : spot[p] # NoSpot => owner'[spot[p].type] \in Companies
    BY <1>4, <2>1 DEF PointIsServable, Servable
  <2>4. \A m \in made : owner'[m[2]] # "NONE"
    BY <1>4, <2>2, ServiceTypesAssumption DEF PointIsServable, Exists
  <2> QED
    BY <1>1, <2>3, <2>4 DEF PointIsServable, Servable, Exists
<1>6. EditedTypeIsTied'
  <2>1. \A p \in Spots : edit[p] # NoEdit => edit[p].type \in Types
    BY DEF CatalogTypeOK
  <2> QED
    BY <1>1, <1>4, <2>1 DEF EditedTypeIsTied
<1> QED
  BY <1>1, <1>3, <1>4, <1>5, <1>6 DEF CatalogTypeOK, PointFollowsBuilding, CreatedInPlace, MovedAreThere

-----------------------------------------------------------------------------
(* The points *)

\* A point that is being created or retyped is judged now, and committed later.
LEMMA BeginKeepsCatalogInv ==
    ASSUME CatalogInv, NEW p \in Spots, NEW t \in Types, BeginCreate(p, t) \/ BeginRetype(p, t)
    PROVE  CatalogInv'
<1> USE DEF CatalogInv
<1>1. UNCHANGED <<owner, spot, made, outline, dialog, redraw, missed>>
  BY DEF BeginCreate, BeginRetype
<1>2. PICK e \in Edit : /\ edit' = [edit EXCEPT ![p] = e]
                        /\ e.type = t
                        /\ e.op = "CREATE" => spot[p] = NoSpot /\ e.at = outline
  <2>1. CASE BeginCreate(p, t)
    <3> DEFINE e == [op |-> "CREATE", type |-> t, at |-> outline]
    <3>1. outline \in 1..MaxOutlines
      BY <2>1, ServiceTypesAssumption DEF BeginCreate, CatalogTypeOK
    <3>2. e \in Edit /\ edit' = [edit EXCEPT ![p] = e] /\ spot[p] = NoSpot
      BY <2>1, <3>1 DEF BeginCreate, Edit
    <3> QED
      BY <3>2
  <2>2. CASE BeginRetype(p, t)
    <3> DEFINE e == [op |-> "RETYPE", type |-> t]
    <3>1. e \in Edit /\ edit' = [edit EXCEPT ![p] = e]
      BY <2>2 DEF BeginRetype, Edit
    <3> QED
      BY <3>1
  <2> QED
    BY <2>1, <2>2
<1>3. owner[t] \in Companies
  BY DEF BeginCreate, BeginRetype, Servable
<1>4. edit' \in [Spots -> {NoEdit} \cup Edit]
  BY <1>2 DEF CatalogTypeOK, Edit
<1>5. \A q \in Spots : edit'[q] = IF q = p THEN e ELSE edit[q]
  BY <1>2 DEF CatalogTypeOK
<1>6. EditedTypeIsTied' /\ CreatedInPlace'
  BY <1>1, <1>2, <1>3, <1>5 DEF EditedTypeIsTied, CreatedInPlace
<1> QED
  BY <1>1, <1>4, <1>6 DEF CatalogTypeOK, Edit, PointIsServable, PointFollowsBuilding, MovedAreThere,
                          Servable, Exists

\* The commit of an edit gives the point a type that is there, where the building lies.
LEMMA EditKeepsCatalogInv ==
    ASSUME CatalogInv, NEW p \in Spots, CommitEdit(p)
    PROVE  CatalogInv'
<1> USE DEF CatalogInv
<1>1. UNCHANGED <<owner, made, outline, dialog, redraw>> /\ p \notin redraw.moved
  BY DEF CommitEdit, Unlocked
<1>2. edit[p] \in Edit /\ spot \in [Spots -> {NoSpot} \cup SpotRow]
  BY DEF CommitEdit, CatalogTypeOK, Edit, SpotRow
<1> DEFINE refused == ~Exists(edit[p].type) \/ (edit[p].op = "RETYPE" /\ spot[p] = NoSpot)
           row == IF edit[p].op = "RETYPE" THEN [spot[p] EXCEPT !.type = edit[p].type]
                  ELSE [type |-> edit[p].type, at |-> edit[p].at]
<1>3. ~refused => /\ row \in SpotRow /\ row # NoSpot /\ row.type = edit[p].type
                  /\ row.at = IF edit[p].op = "RETYPE" THEN spot[p].at ELSE edit[p].at
                  /\ owner[row.type] \in Companies
  <2>1. ~refused => owner[edit[p].type] \in Companies
    BY <1>2, CatalogRowsAreThere DEF EditedTypeIsTied, Exists
  <2>2. CASE edit[p].op = "RETYPE"
    <3>1. ~refused => spot[p] \in SpotRow
      BY <1>2, <2>2
    <3>2. edit[p].type \in Types
      BY <1>2 DEF Edit
    <3>3. row = [spot[p] EXCEPT !.type = edit[p].type]
      BY <2>2
    <3>4. ~refused => row \in SpotRow /\ row.type = edit[p].type /\ row.at = spot[p].at
      <4> HIDE DEF refused
      <4> QED
        BY <3>1, <3>2, <3>3 DEF SpotRow
    <3> QED
      BY <2>1, <2>2, <3>4, CatalogRowsAreThere
  <2>3. CASE edit[p].op # "RETYPE"
    <3>1. edit[p] \in [op : {"CREATE"}, type : Types, at : 1..MaxOutlines]
      BY <1>2, <2>3 DEF Edit
    <3>2. row \in SpotRow /\ row.type = edit[p].type /\ row.at = edit[p].at
      BY <2>3, <3>1 DEF SpotRow
    <3> QED
      BY <2>1, <2>3, <3>2, CatalogRowsAreThere
  <2> QED
    BY <2>2, <2>3
<1>4. spot' = IF refused THEN spot ELSE [spot EXCEPT ![p] = row]
  BY DEF CommitEdit
<1>5. /\ missed' \subseteq missed /\ \A q \in Spots \ {p} : q \in missed' <=> q \in missed
      /\ spot'[p] # NoSpot => missed' = missed
  BY DEF CommitEdit
<1>6. \A q \in Spots : edit'[q] = IF q = p THEN NoEdit ELSE edit[q]
  BY DEF CommitEdit, CatalogTypeOK
<1> HIDE DEF refused, row
<1>7. spot' \in [Spots -> {NoSpot} \cup SpotRow] /\ \A q \in Spots \ {p} : spot'[q] = spot[q]
  BY <1>2, <1>3, <1>4
<1>8. CatalogTypeOK'
  BY <1>1, <1>5, <1>7 DEF CommitEdit, CatalogTypeOK, SpotRow
<1>9. spot'[p] # NoSpot => /\ owner[spot'[p].type] \in Companies
                           /\ p \in missed' \/ spot'[p].at = outline
  <2>1. CASE refused
    BY <1>1, <1>4, <1>5, <2>1 DEF PointIsServable, PointFollowsBuilding, Servable
  <2>2. CASE ~refused
    <3>1. spot'[p] = row /\ spot'[p] # NoSpot /\ missed' = missed
      BY <1>2, <1>3, <1>4, <1>5, <2>2
    <3>2. CASE edit[p].op = "RETYPE"
      BY <1>3, <2>2, <3>1, <3>2 DEF PointFollowsBuilding, refused
    <3>3. CASE edit[p].op # "RETYPE"
      <4>1. edit[p].op = "CREATE"
        BY <1>2, <3>3 DEF Edit
      <4> QED
        BY <1>3, <2>2, <3>1, <3>3, <4>1 DEF CreatedInPlace
    <3> QED
      BY <3>2, <3>3
  <2> QED
    BY <2>1, <2>2
<1>10. PointIsServable'
  BY <1>1, <1>7, <1>9 DEF PointIsServable, Servable, Exists
<1>11. PointFollowsBuilding'
  BY <1>1, <1>5, <1>7, <1>9 DEF PointFollowsBuilding
<1>12. EditedTypeIsTied' /\ CreatedInPlace'
  BY <1>1, <1>5, <1>6, <1>7 DEF EditedTypeIsTied, CreatedInPlace, NoEdit
<1>13. MovedAreThere'
  <2>1. \A q \in redraw.moved : q \in Spots \ {p}
    BY <1>1 DEF CatalogTypeOK, NoRedraw
  <2> QED
    BY <1>1, <1>7, <2>1 DEF MovedAreThere
<1> QED
  BY <1>8, <1>10, <1>11, <1>12, <1>13

\* A stop is of its point's type; a point is deleted with its stops.
LEMMA SpotKeepsCatalogInv ==
    ASSUME CatalogInv, NEW p \in Spots, MakeStop(p) \/ RemoveSpot(p)
    PROVE  CatalogInv'
<1> USE DEF CatalogInv
<1>1. CASE MakeStop(p)
  <2>1. spot[p].type \in Types /\ owner[spot[p].type] \in Companies
    BY <1>1 DEF MakeStop, CatalogTypeOK, PointIsServable, Servable
  <2>2. made' = made \cup {<<p, spot[p].type>>}
    BY <1>1 DEF MakeStop
  <2>3. \A m \in made' : Exists(m[2])
    BY <2>1, <2>2, ServiceTypesAssumption DEF PointIsServable, Exists
  <2>4. made' \subseteq Spots \X Types
    BY <2>1, <2>2 DEF CatalogTypeOK
  <2> QED
    BY <1>1, <2>3, <2>4 DEF MakeStop, CatalogTypeOK, PointIsServable, PointFollowsBuilding,
                            EditedTypeIsTied, CreatedInPlace, MovedAreThere, Servable, Exists
<1>2. CASE RemoveSpot(p)
  <2>1. /\ UNCHANGED <<owner, outline, dialog, edit, redraw>> /\ p \notin redraw.moved
        /\ spot' = [spot EXCEPT ![p] = NoSpot] /\ spot[p] # NoSpot
        /\ made' \subseteq made /\ missed' = missed \ {p}
    BY <1>2 DEF RemoveSpot, Unlocked
  <2>2. spot' \in [Spots -> {NoSpot} \cup SpotRow] /\ spot'[p] = NoSpot
        /\ \A q \in Spots \ {p} : spot'[q] = spot[q]
    BY <2>1 DEF CatalogTypeOK, SpotRow
  <2>3. CatalogTypeOK'
    BY <2>1, <2>2 DEF CatalogTypeOK, SpotRow
  <2>4. PointIsServable' /\ PointFollowsBuilding'
    BY <2>1, <2>2 DEF PointIsServable, PointFollowsBuilding, Servable, Exists
  <2>5. EditedTypeIsTied' /\ CreatedInPlace'
    BY <2>1, <2>2 DEF EditedTypeIsTied, CreatedInPlace
  <2>6. MovedAreThere'
    <3>1. \A q \in redraw.moved : q \in Spots \ {p}
      BY <2>1 DEF CatalogTypeOK, NoRedraw
    <3> QED
      BY <2>1, <2>2, <3>1 DEF MovedAreThere
  <2> QED
    BY <2>3, <2>4, <2>5, <2>6
<1> QED
  BY <1>1, <1>2

-----------------------------------------------------------------------------
(* The redrawing *)

\* The redrawing takes every point along that was there when it began, and remembers the others.
LEMMA RedrawKeepsCatalogInv ==
    ASSUME CatalogInv, MoveSpots \/ CommitRedraw
    PROVE  CatalogInv'
<1> USE DEF CatalogInv
<1>1. CASE MoveSpots
  <2>1. redraw' \in [moved : SUBSET Spots, to : 1..MaxOutlines] /\ redraw'.moved = Committed
    <3>1. outline + 1 \in 1..MaxOutlines
      BY <1>1, ServiceTypesAssumption, SMT DEF MoveSpots, CatalogTypeOK
    <3> QED
      BY <1>1, <3>1 DEF MoveSpots, Committed
  <2>2. UNCHANGED <<owner, outline, dialog, edit, spot, made, missed>>
    BY <1>1 DEF MoveSpots
  <2>3. CatalogTypeOK'
    BY <2>1, <2>2 DEF CatalogTypeOK
  <2>4. MovedAreThere'
    BY <2>1, <2>2 DEF MovedAreThere, Committed
  <2> QED
    BY <2>2, <2>3, <2>4 DEF PointIsServable, PointFollowsBuilding, EditedTypeIsTied, CreatedInPlace,
                            Servable, Exists
<1>2. CASE CommitRedraw
  <2>1. /\ redraw \in [moved : SUBSET Spots, to : 1..MaxOutlines] /\ redraw' = NoRedraw
        /\ outline' = redraw.to /\ UNCHANGED <<owner, made, dialog, edit>>
        /\ missed' = {p \in Spots \ redraw.moved : spot[p] # NoSpot \/ edit[p] # NoEdit}
    BY <1>2 DEF CommitRedraw, CatalogTypeOK
  <2>2. \A p \in Spots : spot'[p] = IF p \in redraw.moved THEN [spot[p] EXCEPT !.at = redraw.to]
                                    ELSE spot[p]
    BY <1>2 DEF CommitRedraw, Moves, MovedAreThere
  <2>3. \A p \in redraw.moved : spot'[p] \in SpotRow /\ spot'[p].type = spot[p].type
                                   /\ spot'[p].at = redraw.to
    <3>1. \A p \in redraw.moved : p \in Spots /\ spot[p] \in SpotRow
      BY <2>1 DEF MovedAreThere, CatalogTypeOK, SpotRow
    <3>2. redraw.to \in 1..MaxOutlines
      BY <2>1
    <3> QED
      BY <2>2, <3>1, <3>2 DEF SpotRow
  <2>4. \A p \in Spots : (spot'[p] = NoSpot <=> spot[p] = NoSpot)
                         /\ (spot[p] # NoSpot => spot'[p].type = spot[p].type)
    BY <2>2, <2>3, CatalogRowsAreThere DEF MovedAreThere
  <2>5. CatalogTypeOK'
    <3>1. spot' = [p \in Spots |-> spot'[p]]
      BY <1>2 DEF CommitRedraw
    <3>2. \A p \in Spots : spot'[p] \in {NoSpot} \cup SpotRow
      BY <2>2, <2>3 DEF CatalogTypeOK, SpotRow
    <3>3. spot' \in [Spots -> {NoSpot} \cup SpotRow]
      BY <3>1, <3>2
    <3>4. outline' \in 0..MaxOutlines
      BY <2>1, ServiceTypesAssumption, SMT
    <3> QED
      BY <2>1, <3>3, <3>4 DEF CatalogTypeOK, SpotRow
  <2>6. PointIsServable'
    BY <2>1, <2>4 DEF PointIsServable, Servable, Exists
  <2>7. PointFollowsBuilding'
    BY <2>1, <2>3, <2>4 DEF PointFollowsBuilding
  <2>8. CreatedInPlace'
    <3>1. \A p \in Spots : edit[p].op = "CREATE" => edit[p] # NoEdit /\ p \notin redraw.moved
      BY DEF CreatedInPlace, MovedAreThere, NoEdit
    <3> QED
      BY <2>1, <2>4, <3>1 DEF CreatedInPlace
  <2> QED
    BY <2>1, <2>5, <2>6, <2>7, <2>8 DEF EditedTypeIsTied, MovedAreThere, NoRedraw
<1> QED
  BY <1>1, <1>2

-----------------------------------------------------------------------------

\* Every step keeps the invariant.
LEMMA StepCatalogInv == CatalogInv /\ [CatalogNext]_catalogVars => CatalogInv'
<1> SUFFICES ASSUME CatalogInv, [CatalogNext]_catalogVars PROVE CatalogInv'
  OBVIOUS
<1>1. CASE UNCHANGED catalogVars
  BY <1>1 DEF CatalogInv, catalogVars, CatalogTypeOK, PointIsServable, PointFollowsBuilding,
     EditedTypeIsTied, CreatedInPlace, MovedAreThere, Servable, Exists
<1>2. CASE CatalogNext
  BY <1>2, DialogKeepsCatalogInv, CommitKeepsCatalogInv, BeginKeepsCatalogInv, EditKeepsCatalogInv, SpotKeepsCatalogInv,
     RedrawKeepsCatalogInv DEF CatalogNext
<1> QED
  BY <1>1, <1>2

LEMMA CatalogInvariance == CatalogSpec => []CatalogInv
  BY InitCatalogInv, StepCatalogInv, PTL DEF CatalogSpec

\* The types of the catalog, of its dialogs, edits and redrawings hold in every reachable state.
THEOREM CatalogTypes == CatalogSpec => []CatalogTypeOK
  BY CatalogInvariance, PTL DEF CatalogInv

\* A point's type belongs to a company and the type of every stop on record stays, although no
\* dialog, creation or change of type locks what it judged.
THEOREM PointsAreServable == CatalogSpec => []PointIsServable
  BY CatalogInvariance, PTL DEF CatalogInv

\* A point lies where its building is drawn, but for those created while it was being redrawn.
THEOREM PointsFollowBuildings == CatalogSpec => []PointFollowsBuilding
  BY CatalogInvariance, PTL DEF CatalogInv

-----------------------------------------------------------------------------
(***************************************************************************)
(* The deletion of points.                                                 *)
(*                                                                         *)
(* What makes renumbering safe is that it is stable.  A deletion that holds*)
(* the rows of a route's stops numbers the others by rank; until it commits*)
(* no other deletion can move one of these past another, and what a claim  *)
(* adds meanwhile comes after all of them, the deleted ones included.      *)
(***************************************************************************)

Numberings == UNION {[S -> Nat \ {0}] : S \in SUBSET StopRows}
Phases     == {"idle", "listed", "cleared", "dropped", "settled", "done", "refused", "aborted"}
HangingRows == ((StopTables \cup ExecutionTables) \X StopRows)
                   \cup ((RouteTables \cup {"NOTIFICATION"}) \X Tours)
StopType    == [place : Places, route : Tours, at : Nat \ {0}]
RequestType ==
    [step : Phases, points : SUBSET Places, whole : BOOLEAN, stops : SUBSET StopRows,
     todo : SUBSET Tours, listed : Numberings, numbers : Numberings, emptied : SUBSET Tours,
     gone : SUBSET HangingRows, counted : SUBSET HangingRows,
     overtaken : BOOLEAN, asTold : BOOLEAN, again : BOOLEAN]

RecordTypes ==
    /\ places \subseteq Places /\ tours \subseteq Tours
    /\ stopRow \in [StopRows -> StopType \cup {NoStopRow}]
    /\ attached \subseteq HangingRows
    /\ claim \in [Tours -> [at : Nat]]
    /\ deletion \in [Deletions -> RequestType]

\* What a foreign key refers to is there, and a claimed route stays.
References ==
    /\ \A s \in StopRows : There(s) => stopRow[s].place \in places /\ stopRow[s].route \in tours
    /\ \A r \in attached : r[1] # "NOTIFICATION" => r[2] \in tours \/ (r[2] \in StopRows /\ There(r[2]))
    /\ \A t \in Tours : claim[t] # NoClaim => t \in tours
    /\ IsFiniteSet({s \in StopRows : There(s)})

\* The deletion holds the rows of its stops.
Holds(d) == deletion[d].step \in {"dropped", "settled"}
Renumbered(d) == DOMAIN deletion[d].listed \cup DOMAIN deletion[d].numbers
NewNumber(d, s) == IF s \in DOMAIN deletion[d].listed
                   THEN deletion[d].listed[s] ELSE deletion[d].numbers[s]

\* What a deletion knows at each of its steps.
KnownByPhase ==
    \A d \in Deletions :
        /\ deletion[d].again => Done(d)
        /\ ~Holds(d) => DOMAIN deletion[d].numbers = {}
        /\ deletion[d].step # "dropped" => DOMAIN deletion[d].listed = {}
        /\ Renumbered(d) \cap deletion[d].stops = {}
        /\ \A s \in DOMAIN deletion[d].numbers : There(s)

\* A row is deleted or renumbered by one open deletion at most.
HeldByOne == \A d, e \in Deletions : d # e => HeldBy(d) \cap HeldBy(e) = {}

\* The stops a deletion listed, while they are there, are of its points; and of what hangs on
\* them, once it deleted them, only what it deleted is left.
StopsOfPoints ==
    \A d \in Open :
        /\ \A s \in deletion[d].stops : There(s) => stopRow[s].place \in deletion[d].points
        /\ \A r \in deletion[d].gone : r[1] \in Counted => r[2] \in deletion[d].stops
        /\ Holds(d) => RowsOf(StopTables \cup ExecutionTables, deletion[d].stops)
                           \subseteq deletion[d].gone

Fresh(d)    == deletion[d].points \subseteq places
SameRoute(r, s) == There(r) /\ There(s) /\ stopRow[r].route = stopRow[s].route
Before(r, s)    == SameRoute(r, s) /\ stopRow[r].at < stopRow[s].at

\* While nobody else deleted its points, the stops of a deletion are there, those of the routes
\* it has yet to settle among them.
StopsStand(d) ==
    /\ \A s \in deletion[d].stops : There(s)
    /\ \A t \in deletion[d].todo : \E r \in deletion[d].stops : stopRow[r].route = t
\* A stop it renumbers is on a route it settled, of which it deletes a stop.
OnSettledRoutes(d) ==
    \A s \in Renumbered(d) : There(s) =>
        /\ stopRow[s].route \notin deletion[d].todo
        /\ \E r \in deletion[d].stops : SameRoute(r, s)
\* The new numbers keep the order, are no higher than the old ones, and what came meanwhile
\* comes after.
NumbersByRank(d) ==
    /\ \A r, s \in Renumbered(d) : Before(r, s) => NewNumber(d, r) < NewNumber(d, s)
    /\ \A s \in Renumbered(d) : There(s) =>
           \/ NewNumber(d, s) <= stopRow[s].at
           \/ \E x \in deletion[d].stops : SameRoute(s, x) /\ NewNumber(d, s) < stopRow[x].at
NewcomersAfter(d) ==
    \A x \in StopRows \ (Renumbered(d) \cup deletion[d].stops) :
        /\ \A s \in Renumbered(d) : SameRoute(s, x) => stopRow[s].at < stopRow[x].at
        /\ (\E s \in Renumbered(d) : SameRoute(s, x)) =>
               \A r \in deletion[d].stops : SameRoute(r, x) => stopRow[r].at < stopRow[x].at

NumbersDiffer == \A r, s \in StopRows : SameRoute(r, s) /\ r # s => stopRow[r].at # stopRow[s].at
ClaimsComeLast ==
    \A t \in Tours : claim[t] # NoClaim => \A s \in StopsOnTour(t) : stopRow[s].at < claim[t].at
AllStand == \A d \in Open : Fresh(d) => StopsStand(d)
AllRanked == \A d \in Open : Fresh(d) /\ Holds(d) =>
                 OnSettledRoutes(d) /\ NumbersByRank(d) /\ NewcomersAfter(d)
Stable == NoneAgain => NumbersDiffer /\ ClaimsComeLast /\ AllStand /\ AllRanked

\* Of a deletion that nothing overtook: its points and stops are there, and all their stops are
\* its own; what hangs on them is what it counted, and then what it deleted; nothing is left of,
\* or comes to, the routes it emptied.
Alone(d) ==
    /\ Fresh(d) /\ \A s \in deletion[d].stops : There(s)
    /\ \A s \in StopRows : There(s) /\ stopRow[s].place \in deletion[d].points => s \in deletion[d].stops
    /\ \A t \in deletion[d].emptied : StopsOnTour(t) \subseteq deletion[d].stops
CountStands(d) ==
    IF deletion[d].step = "listed" THEN deletion[d].counted = RowsOf(Counted, deletion[d].stops)
    ELSE /\ {r \in deletion[d].gone : r[1] \in Counted} = deletion[d].counted
         /\ RowsOf(Cleared, deletion[d].stops) \subseteq deletion[d].gone
RoutesCleared(d) ==
    deletion[d].step = "settled" =>
        /\ RowsOf(RouteTables \cup {"NOTIFICATION"}, deletion[d].emptied) \subseteq deletion[d].gone
        /\ deletion[d].whole => RowsOf({"STRAY_SCAN"}, StopRows) \subseteq deletion[d].gone
Undisturbed ==
    /\ \A d \in Open : ~deletion[d].overtaken => Alone(d) /\ CountStands(d) /\ RoutesCleared(d)
    /\ \A d \in Deletions : Done(d) => deletion[d].emptied \cap tours = {}
    /\ UndisturbedDeletion

LEMMA NumberingsFacts ==
    /\ NoNumbers \in Numberings /\ DOMAIN NoNumbers = {}
    /\ \A n \in Numberings : DOMAIN n \subseteq StopRows /\ \A s \in DOMAIN n : n[s] \in Nat \ {0}
    /\ \A S \in SUBSET StopRows : \A n \in [S -> Nat \ {0}] : n \in Numberings
    /\ \A n \in Numberings : DOMAIN n = {} => n = NoNumbers
<1>1. NoNumbers \in [{} -> Nat \ {0}] /\ DOMAIN NoNumbers = {}
  BY DEF NoNumbers
<1>2. \A S \in SUBSET StopRows : \A n \in [S -> Nat \ {0}] : n \in Numberings
  BY DEF Numberings
<1>3. \A n \in Numberings : DOMAIN n \subseteq StopRows /\ \A s \in DOMAIN n : n[s] \in Nat \ {0}
  BY DEF Numberings
<1>4. {} \in SUBSET StopRows
  OBVIOUS
<1>5. \A n \in [{} -> Nat \ {0}] : n = NoNumbers
  BY <1>1
<1>6. \A n \in Numberings : n \in [DOMAIN n -> Nat \ {0}]
  BY DEF Numberings
<1>7. \A n \in Numberings : DOMAIN n = {} => n = NoNumbers
  BY <1>5, <1>6
<1> QED
  BY <1>1, <1>2, <1>3, <1>4, <1>7

LEMMA IdleType == Idle \in RequestType
  BY NumberingsFacts DEF Idle, RequestType, Phases

\* A stop that is there has a point, a route and a number; and a written one is there.
LEMMA StopIsThere ==
    ASSUME RecordTypes
    PROVE  /\ \A s \in StopRows : There(s) => stopRow[s] \in StopType
           /\ \A r \in StopType : r # NoStopRow
<1>1. \A r \in StopType : DOMAIN r = {"place", "route", "at"}
  BY DEF StopType
<1>2. DOMAIN NoStopRow = {"place"}
  BY DEF NoStopRow
<1> QED
  BY <1>1, <1>2 DEF RecordTypes, There

\* What a step writes on the deletions it overtakes, and nothing else of them.
OnlyOvertaken(d, e) ==
    /\ e.step = d.step /\ e.points = d.points /\ e.whole = d.whole /\ e.stops = d.stops
    /\ e.todo = d.todo /\ e.listed = d.listed /\ e.numbers = d.numbers /\ e.emptied = d.emptied
    /\ e.gone = d.gone /\ e.counted = d.counted /\ e.asTold = d.asTold /\ e.again = d.again

LEMMA OvertakeFacts ==
    ASSUME RecordTypes, NEW X
    PROVE  /\ Overtake(X) \in [Deletions -> RequestType]
           /\ \A d \in Deletions : OnlyOvertaken(deletion[d], Overtake(X)[d])
           /\ \A d \in Deletions :
                  /\ deletion[d].overtaken => Overtake(X)[d].overtaken
                  /\ d \in X \cap Open => Overtake(X)[d].overtaken
                  /\ d \notin X \cap Open => Overtake(X)[d] = deletion[d]
<1> DEFINE o(d) == [deletion[d] EXCEPT !.overtaken = TRUE]
<1>1. \A d \in Deletions : o(d) \in RequestType /\ OnlyOvertaken(deletion[d], o(d)) /\ o(d).overtaken = TRUE
  BY DEF RecordTypes, RequestType, OnlyOvertaken
<1>2. \A d \in Deletions : deletion[d] \in RequestType /\ OnlyOvertaken(deletion[d], deletion[d])
  BY DEF RecordTypes, OnlyOvertaken
<1>3. Overtake(X) = [d \in Deletions |-> IF d \in X \cap Open THEN o(d) ELSE deletion[d]]
  BY DEF Overtake
<1> HIDE DEF o
<1> QED
  BY <1>1, <1>2, <1>3

\* The steps of a deletion before its commit: they change nothing but its own request.
Private(d) ==
    \/ \E p \in Places : BeginDeletion(d, {p}, FALSE)
    \/ BeginDeletion(d, Building, TRUE)
    \/ ClearStops(d)
    \/ DropStops(d)
    \/ \E t \in Tours : ListRemaining(d, t)
    \/ Renumber(d) \/ Deadlock(d) \/ ClearRoutes(d)
    \/ CommitDeletion(d) /\ StillNeeded(d)

LEMMA RankIsPositive ==
    ASSUME IsFiniteSet({s \in StopRows : There(s)}), NEW L \in SUBSET {s \in StopRows : There(s)},
           NEW s \in L, NEW R \in SUBSET L, s \in R
    PROVE  IsFiniteSet(R) /\ Cardinality(R) \in Nat \ {0}
<1>1. IsFiniteSet(R)
  BY FS_Subset
<1>2. Cardinality(R) # 0
  BY <1>1, FS_EmptySet
<1> QED
  BY <1>1, <1>2, FS_CardinalityType

\* The numbers ListRemaining gives.
LEMMA RankType ==
    ASSUME RecordTypes, References, NEW d \in Deletions, NEW t \in Tours,
           NEW L, L = StopsOnTour(t) \ deletion[d].stops
    PROVE  /\ L \subseteq {s \in StopRows : There(s)}
           /\ [s \in L |-> Cardinality({r \in L : stopRow[r].at <= stopRow[s].at})] \in Numberings
<1>1. L \subseteq {s \in StopRows : There(s)}
  BY DEF StopsOnTour
<1>2. ASSUME NEW s \in L
      PROVE  Cardinality({r \in L : stopRow[r].at <= stopRow[s].at}) \in Nat \ {0}
  <2>1. stopRow[s].at \in Nat
    BY <1>1, StopIsThere DEF StopType
  <2>2. s \in {r \in L : stopRow[r].at <= stopRow[s].at}
    BY <2>1
  <2> QED
    BY <1>1, <2>2, RankIsPositive DEF References
<1>3. [s \in L |-> Cardinality({r \in L : stopRow[r].at <= stopRow[s].at})] \in [L -> Nat \ {0}]
  BY <1>2
<1>4. L \in SUBSET StopRows
  BY <1>1
<1> QED
  BY <1>1, <1>3, <1>4, NumberingsFacts

\* What a deletion writes on its own request.
LEMMA PrivateWrites ==
    ASSUME RecordTypes, References, NEW d \in Deletions, Private(d)
    PROVE  /\ \E new \in RequestType : deletion' = [deletion EXCEPT ![d] = new]
           /\ UNCHANGED <<places, tours, stopRow, attached, claim>>
<1> DEFINE Writes(new) == deletion' = [deletion EXCEPT ![d] = new]
           Written == \E new \in RequestType : Writes(new)
<1>0. deletion[d] \in RequestType
  BY DEF RecordTypes
<1>1. ASSUME NEW points \in SUBSET Places, NEW whole \in BOOLEAN, BeginDeletion(d, points, whole)
      PROVE  Written
  <2> DEFINE stops == {s \in StopRows : There(s) /\ stopRow[s].place \in points}
             new == [Idle EXCEPT !.step = "listed", !.points = points, !.whole = whole,
                                !.stops = stops, !.todo = {stopRow[s].route : s \in stops},
                                !.counted = RowsOf(Counted, stops)]
  <2>1. {stopRow[s].route : s \in stops} \subseteq Tours
    BY StopIsThere DEF StopType
  <2>2. RowsOf(Counted, stops) \subseteq HangingRows
    BY DEF RowsOf, RecordTypes
  <2>3. new \in RequestType
    BY <2>1, <2>2, IdleType DEF RequestType, Phases
  <2>4. Writes(new)
    BY <1>1 DEF BeginDeletion, Step
  <2> QED
    BY <2>3, <2>4
<1>2. ASSUME ClearStops(d) PROVE Written
  <2> DEFINE rows == RowsOf(Cleared, deletion[d].stops)
             new == [deletion[d] EXCEPT !.step = "cleared", !.gone = rows]
  <2>1. rows \subseteq HangingRows
    BY DEF RowsOf, RecordTypes
  <2>2. new \in RequestType
    BY <1>0, <2>1 DEF RequestType, Phases
  <2>3. Writes(new)
    BY <1>2 DEF ClearStops, Step
  <2> QED
    BY <2>2, <2>3
<1>3. ASSUME NEW step \in Phases, EndDeletion(d, step)
      PROVE  Written
  <2> DEFINE new == [Idle EXCEPT !.step = step, !.overtaken = deletion[d].overtaken]
  <2>1. deletion[d].overtaken \in BOOLEAN
    BY <1>0 DEF RequestType
  <2>2. new \in RequestType
    BY <2>1, IdleType DEF RequestType
  <2>3. Writes(new)
    BY <1>3 DEF EndDeletion, Step
  <2> QED
    BY <2>2, <2>3
<1>4. ASSUME DropStops(d) PROVE Written
  <2> DEFINE new == [deletion[d] EXCEPT !.step = "dropped"]
  <2>1. new \in RequestType
    BY <1>0 DEF RequestType, Phases
  <2>2. Writes(new) \/ EndDeletion(d, "refused")
    BY <1>4 DEF DropStops, Step
  <2> QED
    BY <1>3, <2>1, <2>2 DEF Phases
<1>5. ASSUME NEW t \in Tours, ListRemaining(d, t) PROVE Written
  <2> DEFINE left == StopsOnTour(t) \ deletion[d].stops
             ranks == [s \in left |-> Cardinality({r \in left : stopRow[r].at <= stopRow[s].at})]
             new == IF left # {}
                    THEN [deletion[d] EXCEPT !.listed = ranks, !.todo = @ \ {t}]
                    ELSE [deletion[d] EXCEPT !.emptied = @ \cup {t}, !.todo = @ \ {t}]
  <2>1. ranks \in Numberings
    BY RankType
  <2>2. new \in RequestType
    <3> HIDE DEF ranks, left
    <3> QED BY <1>0, <2>1 DEF RequestType
  <2>3. Writes(new)
    BY <1>5 DEF ListRemaining, Step
  <2> QED
    BY <2>2, <2>3
<1>6. ASSUME Renumber(d) PROVE Written
  <2> DEFINE listed == deletion[d].listed
             numbers == deletion[d].numbers
             dom == DOMAIN numbers \cup {r \in DOMAIN listed : There(r)}
             merged == [s \in dom |-> IF s \in DOMAIN listed THEN listed[s] ELSE numbers[s]]
             new == [deletion[d] EXCEPT !.listed = NoNumbers, !.numbers = merged]
  <2>1. listed \in Numberings /\ numbers \in Numberings
    BY <1>0 DEF RequestType
  <2>2. merged \in [dom -> Nat \ {0}] /\ dom \in SUBSET StopRows
    BY <2>1, NumberingsFacts
  <2>3. merged \in Numberings
    BY <2>2, NumberingsFacts
  <2>4. new \in RequestType
    <3> HIDE DEF merged
    <3> QED BY <1>0, <2>3, NumberingsFacts DEF RequestType
  <2>5. Writes(new)
    BY <1>6 DEF Renumber, Step
  <2> QED
    BY <2>4, <2>5
<1>7. ASSUME ClearRoutes(d) PROVE Written
  <2> DEFINE rows == RowsOf(RouteTables \cup {"NOTIFICATION"}, deletion[d].emptied)
                       \cup (IF deletion[d].whole THEN RowsOf({"STRAY_SCAN"}, StopRows) ELSE {})
             new == [deletion[d] EXCEPT !.step = "settled", !.gone = @ \cup rows]
  <2>1. rows \subseteq HangingRows
    BY DEF RowsOf, RecordTypes
  <2>2. new \in RequestType
    <3> HIDE DEF rows
    <3> QED BY <1>0, <2>1 DEF RequestType, Phases
  <2>3. Writes(new)
    BY <1>7 DEF ClearRoutes, Step
  <2> QED
    BY <2>2, <2>3
<1>8. ASSUME Deadlock(d) PROVE Written
  BY <1>3, <1>8 DEF Deadlock, Phases
<1>9. ASSUME CommitDeletion(d) /\ StillNeeded(d) PROVE Written
  BY <1>3, <1>9 DEF CommitDeletion, Phases
<1>10. Written
  BY <1>1, <1>2, <1>4, <1>5, <1>6, <1>7, <1>8, <1>9, PointDeletionAssumption DEF Private
<1>11. UNCHANGED <<places, tours, stopRow, attached, claim>>
  BY DEF Private, BeginDeletion, ClearStops, DropStops, ListRemaining, Renumber, Deadlock,
     ClearRoutes, CommitDeletion, EndDeletion
<1> QED
  BY <1>10, <1>11

Commits(d) == CommitDeletion(d) /\ ~StillNeeded(d)

\* What remains of a deletion once it committed.
OnceCommitted(d) ==
    [Idle EXCEPT !.step = "done", !.whole = deletion[d].whole, !.emptied = deletion[d].emptied,
                 !.asTold = {r \in deletion[d].gone : r[1] \in Counted} = deletion[d].counted,
                 !.again = ~(deletion[d].points \subseteq places),
                 !.overtaken = deletion[d].overtaken]

\* What a commit leaves of the stops: those not deleted, where they were, renumbered or not.
LEMMA CommitOfStops ==
    ASSUME RecordTypes, KnownByPhase, NEW d \in Deletions, Commits(d)
    PROVE  /\ stopRow' \in [StopRows -> StopType \cup {NoStopRow}]
           /\ \A s \in StopRows : There(s)' <=> There(s) /\ s \notin deletion[d].stops
           /\ \A s \in StopRows : There(s)' =>
                  /\ stopRow'[s].place = stopRow[s].place /\ stopRow'[s].route = stopRow[s].route
                  /\ stopRow'[s].at = IF s \in DOMAIN deletion[d].numbers
                                      THEN deletion[d].numbers[s] ELSE stopRow[s].at
<1> DEFINE stops == deletion[d].stops
           numbers == deletion[d].numbers
           left(s) == IF s \in stops THEN NoStopRow
                      ELSE IF s \in DOMAIN numbers
                      THEN [stopRow[s] EXCEPT !.at = numbers[s]] ELSE stopRow[s]
<1>1. stopRow' = [s \in StopRows |-> left(s)]
  BY DEF Commits, CommitDeletion
<1>2. numbers \in Numberings
  BY DEF RecordTypes, RequestType
<1>3. ASSUME NEW s \in StopRows, s \in DOMAIN numbers, s \notin stops
      PROVE  /\ left(s) \in StopType /\ left(s) # NoStopRow /\ There(s)
             /\ left(s).place = stopRow[s].place /\ left(s).route = stopRow[s].route
             /\ left(s).at = numbers[s]
  <2>1. There(s) /\ numbers[s] \in Nat \ {0}
    BY <1>2, <1>3, NumberingsFacts DEF KnownByPhase
  <2>2. stopRow[s] \in StopType
    BY <2>1, StopIsThere
  <2>3. left(s) = [stopRow[s] EXCEPT !.at = numbers[s]]
    BY <1>3
  <2>4. left(s) \in StopType /\ left(s).place = stopRow[s].place /\ left(s).route = stopRow[s].route
             /\ left(s).at = numbers[s]
    BY <2>1, <2>2, <2>3 DEF StopType
  <2> QED
    BY <2>1, <2>4, StopIsThere
<1>4. ASSUME NEW s \in StopRows, s \notin DOMAIN numbers \/ s \in stops
      PROVE  left(s) = IF s \in stops THEN NoStopRow ELSE stopRow[s]
  BY <1>4
<1>5. \A s \in StopRows : left(s) \in StopType \cup {NoStopRow}
  <2> HIDE DEF left
  <2> QED BY <1>3, <1>4 DEF RecordTypes
<1>6. stopRow' \in [StopRows -> StopType \cup {NoStopRow}] /\ \A s \in StopRows : stopRow'[s] = left(s)
  <2> HIDE DEF left
  <2> QED BY <1>1, <1>5
<1>7. \A s \in StopRows : There(s)' <=> left(s) # NoStopRow
  <2> HIDE DEF left
  <2> QED BY <1>6 DEF There
<1>8. \A s \in StopRows : There(s) <=> stopRow[s] # NoStopRow
  BY DEF There
<1> HIDE DEF left
<1> QED
  BY <1>3, <1>4, <1>6, <1>7, <1>8

LEMMA CommitOfRequests ==
    ASSUME RecordTypes, NEW d \in Deletions, Commits(d)
    PROVE  /\ deletion' \in [Deletions -> RequestType]
           /\ deletion'[d] = OnceCommitted(d)
           /\ \A e \in Deletions \ {d} :
                  /\ OnlyOvertaken(deletion[e], deletion'[e])
                  /\ deletion[e].overtaken => deletion'[e].overtaken
                  /\ e \in SharesPoint(d) \cap Open => deletion'[e].overtaken
<1>1. deletion' = [Overtake(SharesPoint(d)) EXCEPT ![d] = OnceCommitted(d)]
  BY DEF Commits, CommitDeletion, OnceCommitted
<1>2. OnceCommitted(d) \in RequestType
  <2>1. deletion[d] \in RequestType
    BY DEF RecordTypes
  <2>2. deletion[d].whole \in BOOLEAN /\ deletion[d].emptied \in SUBSET Tours /\ deletion[d].overtaken \in BOOLEAN
    BY <2>1 DEF RequestType
  <2>3. ({r \in deletion[d].gone : r[1] \in Counted} = deletion[d].counted) \in BOOLEAN
    OBVIOUS
  <2>4. (~(deletion[d].points \subseteq places)) \in BOOLEAN
    OBVIOUS
  <2> DEFINE told == {r \in deletion[d].gone : r[1] \in Counted} = deletion[d].counted
             twice == ~(deletion[d].points \subseteq places)
  <2>5. OnceCommitted(d) = [Idle EXCEPT !.step = "done", !.whole = deletion[d].whole,
                 !.emptied = deletion[d].emptied, !.asTold = told, !.again = twice,
                 !.overtaken = deletion[d].overtaken]
    BY DEF OnceCommitted
  <2>6. told \in BOOLEAN /\ twice \in BOOLEAN
    BY <2>3, <2>4
  <2> HIDE DEF told, twice
  <2> QED
    BY <2>2, <2>5, <2>6, IdleType DEF RequestType, Phases
<1> QED
  BY <1>1, <1>2, OvertakeFacts

\* What a claim's insert writes, and what it leaves of the stops.
LEMMA ClaimWrites ==
    ASSUME RecordTypes, NEW t \in Tours, NEW p \in Places, NEW s \in StopRows, CommitClaim(t, p, s)
    PROVE  \E new \in StopType : /\ stopRow' = [stopRow EXCEPT ![s] = new]
                                 /\ new.place = p /\ new.route = t /\ new.at = claim[t].at
<1> DEFINE new == [place |-> p, route |-> t, at |-> claim[t].at]
<1>1. claim[t].at \in Nat \ {0}
  <2>1. claim[t] \in [at : Nat] /\ claim[t] # NoClaim
    BY DEF RecordTypes, CommitClaim
  <2> QED
    BY <2>1 DEF NoClaim
<1>2. new \in StopType /\ new.place = p /\ new.route = t /\ new.at = claim[t].at
  BY <1>1 DEF StopType
<1>3. stopRow' = [stopRow EXCEPT ![s] = new]
  BY DEF CommitClaim
<1> HIDE DEF new
<1> QED
  BY <1>2, <1>3

LEMMA ClaimOfStops ==
    ASSUME RecordTypes, NEW t \in Tours, NEW p \in Places, NEW s \in StopRows, CommitClaim(t, p, s)
    PROVE  /\ There(s)' /\ ~There(s)
           /\ stopRow'[s].place = p /\ stopRow'[s].route = t /\ stopRow'[s].at = claim[t].at
           /\ \A r \in StopRows : r # s => stopRow'[r] = stopRow[r] /\ (There(r)' <=> There(r))
<1>1. PICK new \in StopType : /\ stopRow' = [stopRow EXCEPT ![s] = new]
                              /\ new.place = p /\ new.route = t /\ new.at = claim[t].at
  BY ClaimWrites
<1>2. new # NoStopRow
  BY StopIsThere
<1>3. stopRow'[s] = new /\ \A r \in StopRows : r # s => stopRow'[r] = stopRow[r]
  BY <1>1 DEF RecordTypes
<1>4. There(s)' /\ \A r \in StopRows : r # s => (There(r)' <=> There(r))
  BY <1>2, <1>3 DEF There
<1>5. ~There(s)
  BY DEF CommitClaim
<1> QED
  BY <1>1, <1>3, <1>4, <1>5

\* The steps of the others.
OtherStep ==
    \/ \E t \in Tours : BeginClaim(t)
    \/ \E t \in Tours, p \in Places, s \in StopRows : CommitClaim(t, p, s)
    \/ \E s \in Crowded, table \in WrittenTables \cap (StopTables \cup ExecutionTables) : AttachToStop(table, s)
    \/ \E t \in Tours, table \in WrittenTables \cap (RouteTables \cup {"NOTIFICATION"}) : AttachToRoute(table, t)

\* Every step is one of the others', a deletion's own, or a commit.
LEMMA StepCases ==
    ASSUME DeletionNext
    PROVE  OtherStep \/ \E d \in Deletions : Private(d) \/ Commits(d)
<1>1. CASE \E d \in Deletions :
          \/ \E p \in Places : BeginDeletion(d, {p}, FALSE)
          \/ BeginDeletion(d, Building, TRUE)
          \/ ClearStops(d) \/ DropStops(d)
          \/ \E t \in Tours : ListRemaining(d, t)
          \/ Renumber(d) \/ Deadlock(d) \/ ClearRoutes(d) \/ CommitDeletion(d)
  <2> PICK d \in Deletions :
          \/ \E p \in Places : BeginDeletion(d, {p}, FALSE)
          \/ BeginDeletion(d, Building, TRUE)
          \/ ClearStops(d) \/ DropStops(d)
          \/ \E t \in Tours : ListRemaining(d, t)
          \/ Renumber(d) \/ Deadlock(d) \/ ClearRoutes(d) \/ CommitDeletion(d)
    BY <1>1
  <2>1. Private(d) \/ Commits(d)
    BY DEF Private, Commits
  <2> QED
    BY <2>1
<1> QED
  BY <1>1 DEF DeletionNext, OtherStep

LEMMA TypesKept ==
    ASSUME RecordTypes, References, KnownByPhase, DeletionNext
    PROVE  RecordTypes'
<1>1. ASSUME NEW d \in Deletions, Private(d) PROVE RecordTypes'
  BY <1>1, PrivateWrites DEF RecordTypes
<1>2. ASSUME NEW d \in Deletions, Commits(d) PROVE RecordTypes'
  <2>1. /\ places' = places \ deletion[d].points /\ tours' = tours \ deletion[d].emptied
        /\ attached' = attached \ deletion[d].gone /\ claim' = claim
    BY <1>2 DEF Commits, CommitDeletion
  <2> QED
    BY <1>2, <2>1, CommitOfStops, CommitOfRequests DEF RecordTypes
<1>3. ASSUME NEW t \in Tours, BeginClaim(t) PROVE RecordTypes'
  <2>1. PICK n \in 1..MaxIndex : claim' = [claim EXCEPT ![t] = [at |-> n]]
    BY <1>3 DEF BeginClaim
  <2>2. [at |-> n] \in [at : Nat]
    BY PointDeletionAssumption
  <2> QED
    BY <1>3, <2>1, <2>2 DEF RecordTypes, BeginClaim
<1>4. ASSUME NEW t \in Tours, NEW p \in Places, NEW s \in StopRows, CommitClaim(t, p, s) PROVE RecordTypes'
  <2>1. stopRow' \in [StopRows -> StopType \cup {NoStopRow}]
    BY <1>4, ClaimWrites DEF RecordTypes
  <2>2. claim' \in [Tours -> [at : Nat]]
    BY <1>4 DEF CommitClaim, RecordTypes, NoClaim
  <2>3. deletion' \in [Deletions -> RequestType]
    BY <1>4, OvertakeFacts DEF CommitClaim
  <2> QED
    BY <1>4, <2>1, <2>2, <2>3 DEF RecordTypes, CommitClaim
<1>5. ASSUME NEW s \in Crowded, NEW table \in StopTables \cup ExecutionTables, AttachToStop(table, s)
      PROVE  RecordTypes'
  <2>1. <<table, s>> \in HangingRows
    BY PointDeletionAssumption DEF HangingRows
  <2>2. deletion' \in [Deletions -> RequestType]
    BY <1>5, OvertakeFacts DEF AttachToStop
  <2> QED
    BY <1>5, <2>1, <2>2 DEF RecordTypes, AttachToStop
<1>6. ASSUME NEW t \in Tours, NEW table \in RouteTables \cup {"NOTIFICATION"}, AttachToRoute(table, t)
      PROVE  RecordTypes'
  <2>1. <<table, t>> \in HangingRows
    BY DEF HangingRows
  <2>2. deletion' \in [Deletions -> RequestType]
    BY <1>6, OvertakeFacts DEF AttachToRoute
  <2> QED
    BY <1>6, <2>1, <2>2 DEF RecordTypes, AttachToRoute
<1> QED
  BY <1>1, <1>2, <1>3, <1>4, <1>5, <1>6, StepCases DEF OtherStep

\* What each private step makes of the request, field by field.
Begins(d, e) ==
    /\ deletion[d].step = "idle" /\ e.step = "listed" /\ e.points \subseteq places
    /\ e.stops = {s \in StopRows : There(s) /\ stopRow[s].place \in e.points}
    /\ e.todo = {stopRow[s].route : s \in e.stops}
    /\ e.listed = NoNumbers /\ e.numbers = NoNumbers /\ e.emptied = {} /\ e.gone = {}
    /\ e.counted = RowsOf(Counted, e.stops) /\ e.overtaken = FALSE /\ e.again = FALSE
Ends(d, e) ==
    /\ deletion[d].step \in {"cleared", "dropped", "settled"} /\ e.step \in {"refused", "aborted"}
    /\ e.stops = {} /\ e.emptied = {} /\ e.listed = NoNumbers /\ e.numbers = NoNumbers
    /\ e.overtaken = deletion[d].overtaken /\ e.asTold = TRUE /\ e.again = FALSE
    /\ e.step = "refused" =>
           \/ deletion[d].step = "cleared"
                  /\ ~(RowsOf(StopTables \cup ExecutionTables, deletion[d].stops) \subseteq deletion[d].gone)
           \/ deletion[d].step = "settled" /\ StillNeeded(d)
SameListing(d, e) ==
    /\ e.points = deletion[d].points /\ e.stops = deletion[d].stops /\ e.whole = deletion[d].whole
    /\ e.counted = deletion[d].counted /\ e.overtaken = deletion[d].overtaken
    /\ e.again = deletion[d].again
Clears(d, e) ==
    /\ SameListing(d, e) /\ deletion[d].step = "listed" /\ e.step = "cleared"
    /\ e.gone = RowsOf(Cleared, deletion[d].stops)
    /\ e.todo = deletion[d].todo /\ e.emptied = deletion[d].emptied
    /\ e.listed = deletion[d].listed /\ e.numbers = deletion[d].numbers
Drops(d, e) ==
    /\ SameListing(d, e) /\ deletion[d].step = "cleared" /\ e.step = "dropped"
    /\ deletion[d].stops \cap HeldFrom(d) = {}
    /\ RowsOf(StopTables \cup ExecutionTables, deletion[d].stops) \subseteq deletion[d].gone
    /\ e.gone = deletion[d].gone /\ e.todo = deletion[d].todo /\ e.emptied = deletion[d].emptied
    /\ e.listed = deletion[d].listed /\ e.numbers = deletion[d].numbers
Lists(d, e, t) ==
    /\ SameListing(d, e) /\ deletion[d].step = "dropped" /\ e.step = "dropped"
    /\ deletion[d].listed = NoNumbers /\ t \in deletion[d].todo /\ e.todo = deletion[d].todo \ {t}
    /\ e.gone = deletion[d].gone /\ e.numbers = deletion[d].numbers
    /\ LET left == StopsOnTour(t) \ deletion[d].stops
       IN  /\ DOMAIN e.listed = left
           /\ \A s \in left : e.listed[s] = Cardinality({r \in left : stopRow[r].at <= stopRow[s].at})
           /\ e.emptied = IF left = {} THEN deletion[d].emptied \cup {t} ELSE deletion[d].emptied
Renumbers(d, e) ==
    /\ SameListing(d, e) /\ deletion[d].step = "dropped" /\ e.step = "dropped"
    /\ DOMAIN deletion[d].listed \cap HeldFrom(d) = {}
    /\ e.gone = deletion[d].gone /\ e.todo = deletion[d].todo /\ e.emptied = deletion[d].emptied
    /\ e.listed = NoNumbers
    /\ DOMAIN e.numbers = DOMAIN deletion[d].numbers \cup {r \in DOMAIN deletion[d].listed : There(r)}
    /\ \A s \in DOMAIN e.numbers : e.numbers[s] = NewNumber(d, s)
Settles(d, e) ==
    /\ SameListing(d, e) /\ deletion[d].step = "dropped" /\ e.step = "settled"
    /\ deletion[d].listed = NoNumbers /\ e.listed = NoNumbers /\ e.numbers = deletion[d].numbers
    /\ deletion[d].todo = {} /\ e.todo = {} /\ e.emptied = deletion[d].emptied
    /\ e.gone = deletion[d].gone \cup RowsOf(RouteTables \cup {"NOTIFICATION"}, deletion[d].emptied)
                    \cup (IF deletion[d].whole THEN RowsOf({"STRAY_SCAN"}, StopRows) ELSE {})

LEMMA PrivateCases ==
    ASSUME RecordTypes, References, KnownByPhase, NEW d \in Deletions, Private(d)
    PROVE  LET e == deletion'[d]
           IN  \/ Begins(d, e) \/ Ends(d, e) \/ Clears(d, e) \/ Drops(d, e)
               \/ (\E t \in Tours : Lists(d, e, t)) \/ Renumbers(d, e) \/ Settles(d, e)
<1> DEFINE e == deletion'[d]
           Goal == \/ Begins(d, e) \/ Ends(d, e) \/ Clears(d, e) \/ Drops(d, e)
                   \/ (\E t \in Tours : Lists(d, e, t)) \/ Renumbers(d, e) \/ Settles(d, e)
<1>1. deletion[d] \in RequestType
  BY DEF RecordTypes
<1>2. ASSUME NEW change, Step(d, change) PROVE e = change
  BY <1>2 DEF Step, RecordTypes
<1>3. ASSUME NEW points, NEW whole, BeginDeletion(d, points, whole) PROVE Begins(d, e)
  <2> DEFINE stops == {s \in StopRows : There(s) /\ stopRow[s].place \in points}
             todo == {stopRow[s].route : s \in stops}
  <2>1. e = [Idle EXCEPT !.step = "listed", !.points = points, !.whole = whole,
                                !.stops = stops, !.todo = todo,
                                !.counted = RowsOf(Counted, stops)]
    BY <1>2, <1>3 DEF BeginDeletion
  <2>2. deletion[d].step = "idle" /\ points \subseteq places
    BY <1>3 DEF BeginDeletion
  <2>3. /\ e.step = "listed" /\ e.points = points /\ e.stops = stops /\ e.todo = todo
        /\ e.counted = RowsOf(Counted, stops) /\ e.listed = NoNumbers /\ e.numbers = NoNumbers
        /\ e.emptied = {} /\ e.gone = {} /\ e.overtaken = FALSE /\ e.again = FALSE
    <3> HIDE DEF stops, todo, e
    <3> QED BY <2>1 DEF Idle
  <2> HIDE DEF e
  <2> QED
    BY <2>2, <2>3 DEF Begins
<1>4. ASSUME NEW step \in {"refused", "aborted"}, EndDeletion(d, step)
      PROVE  /\ e.step = step /\ e.stops = {} /\ e.emptied = {}
             /\ e.listed = NoNumbers /\ e.numbers = NoNumbers
             /\ e.overtaken = deletion[d].overtaken /\ e.asTold = TRUE /\ e.again = FALSE
  BY <1>2, <1>4 DEF EndDeletion, Idle
<1>5. ASSUME ClearStops(d) PROVE Clears(d, e)
  BY <1>1, <1>2, <1>5 DEF ClearStops, Clears, SameListing, RequestType
<1>6. ASSUME DropStops(d) PROVE Drops(d, e) \/ Ends(d, e)
  <2>1. CASE RowsOf(StopTables \cup ExecutionTables, deletion[d].stops) \subseteq deletion[d].gone
    BY <1>1, <1>2, <1>6, <2>1 DEF DropStops, Drops, SameListing, RequestType
  <2>2. CASE ~(RowsOf(StopTables \cup ExecutionTables, deletion[d].stops) \subseteq deletion[d].gone)
    BY <1>4, <1>6, <2>2 DEF DropStops, Ends
  <2> QED BY <2>1, <2>2
<1>7. ASSUME NEW t \in Tours, ListRemaining(d, t) PROVE Lists(d, e, t)
  <2> DEFINE left == StopsOnTour(t) \ deletion[d].stops
             rank(s) == Cardinality({r \in left : stopRow[r].at <= stopRow[s].at})
             ranks == [s \in left |-> rank(s)]
  <2>1. e = IF left # {}
            THEN [deletion[d] EXCEPT !.listed = ranks, !.todo = @ \ {t}]
            ELSE [deletion[d] EXCEPT !.emptied = @ \cup {t}, !.todo = @ \ {t}]
    BY <1>2, <1>7 DEF ListRemaining
  <2>2. deletion[d].step = "dropped" /\ deletion[d].listed = NoNumbers /\ t \in deletion[d].todo
    BY <1>7 DEF ListRemaining
  <2>3. /\ SameListing(d, e) /\ e.step = deletion[d].step /\ e.gone = deletion[d].gone
        /\ e.numbers = deletion[d].numbers /\ e.todo = deletion[d].todo \ {t}
        /\ e.listed = IF left = {} THEN deletion[d].listed ELSE ranks
        /\ e.emptied = IF left = {} THEN deletion[d].emptied \cup {t} ELSE deletion[d].emptied
    <3> HIDE DEF left, ranks, e
    <3> QED BY <1>1, <2>1 DEF SameListing, RequestType
  <2>4. DOMAIN e.listed = left /\ \A s \in left : e.listed[s] = rank(s)
    <3> HIDE DEF e, rank
    <3> QED BY <2>2, <2>3, NumberingsFacts
  <2> HIDE DEF e
  <2> QED
    BY <2>2, <2>3, <2>4 DEF Lists
<1>8. ASSUME Renumber(d) PROVE Renumbers(d, e)
  <2> DEFINE listed == deletion[d].listed
             numbers == deletion[d].numbers
             dom == DOMAIN numbers \cup {r \in DOMAIN listed : There(r)}
             merged == [s \in dom |-> IF s \in DOMAIN listed THEN listed[s] ELSE numbers[s]]
  <2>1. e = [deletion[d] EXCEPT !.listed = NoNumbers, !.numbers = merged]
    BY <1>2, <1>8 DEF Renumber
  <2>2. DOMAIN listed \cap HeldFrom(d) = {} /\ listed # NoNumbers
    BY <1>8 DEF Renumber
  <2>3. DOMAIN listed # {}
    BY <1>1, <2>2, NumberingsFacts DEF RequestType
  <2>4. deletion[d].step = "dropped"
    BY <2>3 DEF KnownByPhase
  <2>5. /\ SameListing(d, e) /\ e.step = deletion[d].step /\ e.gone = deletion[d].gone
        /\ e.numbers = merged /\ e.listed = NoNumbers
        /\ e.todo = deletion[d].todo /\ e.emptied = deletion[d].emptied
    <3> HIDE DEF merged, e
    <3> QED BY <1>1, <2>1 DEF SameListing, RequestType
  <2>6. DOMAIN e.numbers = dom /\ \A s \in DOMAIN e.numbers : e.numbers[s] = NewNumber(d, s)
    BY <2>5 DEF NewNumber
  <2> HIDE DEF e
  <2> QED
    BY <2>2, <2>4, <2>5, <2>6 DEF Renumbers
<1>9. ASSUME ClearRoutes(d) PROVE Settles(d, e)
  <2> DEFINE rows == RowsOf(RouteTables \cup {"NOTIFICATION"}, deletion[d].emptied)
                       \cup (IF deletion[d].whole THEN RowsOf({"STRAY_SCAN"}, StopRows) ELSE {})
  <2>1. e = [deletion[d] EXCEPT !.step = "settled", !.gone = @ \cup rows]
    BY <1>2, <1>9 DEF ClearRoutes
  <2>2. deletion[d].step = "dropped" /\ deletion[d].listed = NoNumbers /\ deletion[d].todo = {}
    BY <1>9 DEF ClearRoutes
  <2>3. /\ SameListing(d, e) /\ e.step = "settled" /\ e.gone = deletion[d].gone \cup rows
        /\ e.numbers = deletion[d].numbers /\ e.listed = deletion[d].listed
        /\ e.todo = deletion[d].todo /\ e.emptied = deletion[d].emptied
    <3> HIDE DEF rows, e
    <3> QED BY <1>1, <2>1 DEF SameListing, RequestType
  <2> HIDE DEF e
  <2> QED
    BY <2>2, <2>3 DEF Settles
<1>10. ASSUME Deadlock(d) PROVE Ends(d, e)
  <2>1. DOMAIN deletion[d].listed # {} /\ EndDeletion(d, "aborted")
    BY <1>10 DEF Deadlock
  <2>2. deletion[d].step = "dropped"
    BY <2>1 DEF KnownByPhase
  <2> QED BY <1>4, <2>1, <2>2 DEF Ends
<1>11. ASSUME CommitDeletion(d), StillNeeded(d) PROVE Ends(d, e)
  BY <1>4, <1>11 DEF CommitDeletion, Ends
<1>12. Goal
  <2> HIDE DEF e
  <2> QED BY <1>3, <1>5, <1>6, <1>7, <1>8, <1>9, <1>10, <1>11 DEF Private
<1> QED
  BY <1>12

\* The phase of a deletion says what its other fields hold: for one request, in a given state
\* of the stops.
KnownOf(e, rows) ==
    /\ e.again => e.step = "done"
    /\ e.step \notin {"dropped", "settled"} => DOMAIN e.numbers = {}
    /\ e.step # "dropped" => DOMAIN e.listed = {}
    /\ (DOMAIN e.listed \cup DOMAIN e.numbers) \cap e.stops = {}
    /\ \A s \in DOMAIN e.numbers : rows[s] # NoStopRow

LEMMA KnownAsOf == KnownByPhase <=> \A d \in Deletions : KnownOf(deletion[d], stopRow)
  BY DEF KnownByPhase, KnownOf, Done, Holds, Renumbered, There

LEMMA KnownKept ==
    ASSUME RecordTypes, References, KnownByPhase, HeldByOne, DeletionNext, RecordTypes'
    PROVE  KnownByPhase'
<1>0. \A d \in Deletions : KnownOf(deletion[d], stopRow)
  BY KnownAsOf
<1>1. SUFFICES \A d \in Deletions : KnownOf(deletion'[d], stopRow')
  BY DEF KnownByPhase, KnownOf, Done, Holds, Renumbered, There
<1>2. ASSUME NEW d \in Deletions, Private(d)
      PROVE  \A e \in Deletions : KnownOf(deletion'[e], stopRow')
  <2>1. stopRow' = stopRow /\ \A e \in Deletions \ {d} : deletion'[e] = deletion[e]
    BY <1>2, PrivateWrites DEF RecordTypes
  <2>2. KnownOf(deletion[d], stopRow)
    BY <1>0
  <2>3. KnownOf(deletion'[d], stopRow)
    <3> DEFINE e == deletion'[d]
    <3>1. CASE Begins(d, e) \/ Ends(d, e)
      BY <3>1, NumberingsFacts DEF Begins, Ends, KnownOf
    <3>2. CASE Clears(d, e) \/ Drops(d, e) \/ Settles(d, e)
      BY <2>2, <3>2, NumberingsFacts DEF Clears, Drops, Settles, SameListing, KnownOf
    <3>3. CASE \E t \in Tours : Lists(d, e, t)
      BY <2>2, <3>3 DEF Lists, SameListing, KnownOf
    <3>4. CASE Renumbers(d, e)
      BY <2>2, <3>4, NumberingsFacts DEF Renumbers, SameListing, KnownOf, There
    <3> HIDE DEF e
    <3> QED BY <1>2, <3>1, <3>2, <3>3, <3>4, PrivateCases DEF e
  <2> QED
    BY <1>0, <2>1, <2>3
<1>3. ASSUME NEW e, NEW f, NEW rows, KnownOf(e, stopRow), OnlyOvertaken(e, f),
             \A s \in DOMAIN e.numbers : stopRow[s] # NoStopRow => rows[s] # NoStopRow
      PROVE  KnownOf(f, rows)
  BY <1>3 DEF KnownOf, OnlyOvertaken
<1>4. ASSUME NEW d \in Deletions, Commits(d)
      PROVE  \A e \in Deletions : KnownOf(deletion'[e], stopRow')
  <2>0. deletion'[d] = OnceCommitted(d)
    BY <1>4, CommitOfRequests
  <2>1. KnownOf(deletion'[d], stopRow')
    BY <2>0, NumberingsFacts DEF KnownOf, OnceCommitted, Idle
  <2>2. ASSUME NEW e \in Deletions \ {d}, NEW s \in DOMAIN deletion[e].numbers, There(s)
        PROVE  There(s)'
    <3>1. Holds(e) /\ Holds(d)
      BY <1>4, <2>2 DEF KnownByPhase, Holds, Commits, CommitDeletion
    <3>2. s \notin deletion[d].stops
      BY <2>2, <3>1 DEF HeldByOne, HeldBy, Holds
    <3>3. s \in StopRows
      BY <2>2, NumberingsFacts DEF RecordTypes, RequestType
    <3> QED BY <1>4, <2>2, <3>2, <3>3, CommitOfStops
  <2>3. \A e \in Deletions \ {d} : KnownOf(deletion'[e], stopRow')
    BY <1>0, <1>3, <1>4, <2>2, CommitOfRequests DEF There
  <2> QED
    BY <2>1, <2>3
<1>5. ASSUME NEW X, deletion' = Overtake(X) \/ deletion' = deletion,
             \A s \in StopRows : There(s) => There(s)'
      PROVE  \A e \in Deletions : KnownOf(deletion'[e], stopRow')
  <2>1. \A e \in Deletions : OnlyOvertaken(deletion[e], deletion'[e])
    BY <1>5, OvertakeFacts DEF OnlyOvertaken
  <2>2. \A e \in Deletions : DOMAIN deletion[e].numbers \subseteq StopRows
    BY NumberingsFacts DEF RecordTypes, RequestType
  <2> QED
    BY <1>0, <1>3, <1>5, <2>1, <2>2 DEF There
<1>6. ASSUME NEW t \in Tours, NEW p \in Places, NEW s \in StopRows, CommitClaim(t, p, s)
      PROVE  \A r \in StopRows : There(r) => There(r)'
  BY <1>6, ClaimOfStops
<1>7. ASSUME OtherStep
      PROVE  (\E X : deletion' = Overtake(X) \/ deletion' = deletion) /\ \A r \in StopRows : There(r) => There(r)'
  <2>1. stopRow' = stopRow => \A r \in StopRows : There(r) => There(r)'
    BY DEF There
  <2> QED
    BY <1>6, <1>7, <2>1 DEF OtherStep, BeginClaim, CommitClaim, AttachToStop, AttachToRoute
<1> QED
  BY <1>2, <1>4, <1>5, <1>7, StepCases

\* What an overtaken deletion holds, and knows, it held and knew before.
LEMMA OthersOvertake ==
    ASSUME RecordTypes, OtherStep
    PROVE  /\ places' = places /\ tours' = tours
           /\ \A d \in Deletions : OnlyOvertaken(deletion[d], deletion'[d])
           /\ \A d \in Deletions : deletion[d].overtaken => deletion'[d].overtaken
           /\ Open' = Open
<1>1. \E X : deletion' = Overtake(X) \/ deletion' = deletion
  BY DEF OtherStep, BeginClaim, CommitClaim, AttachToStop, AttachToRoute
<1>2. \A d \in Deletions : OnlyOvertaken(deletion[d], deletion'[d])
  BY <1>1, OvertakeFacts DEF OnlyOvertaken
<1>3. Open' = Open
  BY <1>2 DEF Open, OnlyOvertaken
<1>4. places' = places /\ tours' = tours
  BY DEF OtherStep, BeginClaim, CommitClaim, AttachToStop, AttachToRoute
<1>5. \A d \in Deletions : deletion[d].overtaken => deletion'[d].overtaken
  BY <1>1, OvertakeFacts
<1> QED
  BY <1>2, <1>3, <1>4, <1>5

LEMMA HeldKept ==
    ASSUME RecordTypes, References, KnownByPhase, HeldByOne, DeletionNext
    PROVE  HeldByOne'
<1>1. ASSUME OtherStep PROVE HeldByOne'
  <2>1. \A d \in Deletions : HeldBy(d)' = HeldBy(d)
    BY <1>1, OthersOvertake DEF OnlyOvertaken, HeldBy
  <2> QED BY <2>1 DEF HeldByOne
<1>2. ASSUME NEW d \in Deletions, Commits(d) PROVE HeldByOne'
  <2>1. \A e \in Deletions \ {d} : HeldBy(e)' = HeldBy(e)
    BY <1>2, CommitOfRequests DEF OnlyOvertaken, HeldBy
  <2>2. deletion'[d] = OnceCommitted(d)
    BY <1>2, CommitOfRequests
  <2>3. HeldBy(d)' = {}
    BY <2>2 DEF HeldBy, OnceCommitted, Idle
  <2> QED BY <2>1, <2>3 DEF HeldByOne
<1>3. ASSUME NEW d \in Deletions, Private(d) PROVE HeldByOne'
  <2> DEFINE e == deletion'[d]
  <2>1. \A f \in Deletions \ {d} : HeldBy(f)' = HeldBy(f)
    BY <1>3, PrivateWrites DEF RecordTypes, HeldBy
  <2>2. \A x \in HeldBy(d)' : x \in HeldBy(d) \/ x \notin HeldFrom(d)
    <3>1. CASE Begins(d, e) \/ Ends(d, e) \/ Clears(d, e)
      BY <3>1 DEF Begins, Ends, Clears, HeldBy
    <3>2. CASE Drops(d, e)
      <4>1. DOMAIN deletion[d].numbers = {}
        BY <3>2 DEF Drops, KnownByPhase, Holds
      <4> QED BY <3>2, <4>1 DEF Drops, SameListing, HeldBy
    <3>3. CASE Settles(d, e) \/ \E t \in Tours : Lists(d, e, t)
      BY <3>3 DEF Settles, Lists, SameListing, HeldBy
    <3>4. CASE Renumbers(d, e)
      BY <3>4 DEF Renumbers, SameListing, HeldBy
    <3> HIDE DEF e
    <3> QED BY <1>3, <3>1, <3>2, <3>3, <3>4, PrivateCases DEF e
  <2>3. \A f \in Deletions \ {d} : HeldBy(f) \subseteq HeldFrom(d)
    BY DEF HeldFrom
  <2> QED BY <2>1, <2>2, <2>3 DEF HeldByOne
<1> QED
  BY <1>1, <1>2, <1>3, StepCases

\* What hangs on the stops of a deletion that holds them is not written.
OfPoints(e, rows, hanging) ==
    e.step \notin {"idle", "done", "refused", "aborted"} =>
        /\ \A s \in e.stops : rows[s] # NoStopRow => rows[s].place \in e.points
        /\ \A r \in e.gone : r[1] \in Counted => r[2] \in e.stops
        /\ e.step \in {"dropped", "settled"} =>
               \A r \in hanging : r[1] \in StopTables \cup ExecutionTables /\ r[2] \in e.stops => r \in e.gone

LEMMA OfPointsKept ==
    ASSUME RecordTypes, References, KnownByPhase, StopsOfPoints, DeletionNext
    PROVE  StopsOfPoints'
<1>0. \A d \in Deletions : OfPoints(deletion[d], stopRow, attached)
  BY DEF StopsOfPoints, OfPoints, Open, There, Holds, RowsOf
<1> SUFFICES \A d \in Deletions : OfPoints(deletion'[d], stopRow', attached')
  BY DEF StopsOfPoints, OfPoints, Open, There, Holds, RowsOf
<1>1. ASSUME NEW e, NEW f, NEW rows, NEW hanging, OfPoints(e, stopRow, attached), OnlyOvertaken(e, f),
             \A s \in e.stops : rows[s] # NoStopRow => stopRow[s] # NoStopRow /\ rows[s].place = stopRow[s].place,
             e.step \in {"dropped", "settled"} =>
                 \A r \in hanging \ attached : r[1] \in StopTables \cup ExecutionTables => r[2] \notin e.stops
      PROVE  OfPoints(f, rows, hanging)
  BY <1>1 DEF OfPoints, OnlyOvertaken
<1>2. ASSUME NEW d \in Deletions, Private(d) PROVE \A e \in Deletions : OfPoints(deletion'[e], stopRow', attached')
  <2> DEFINE e == deletion'[d]
  <2>1. stopRow' = stopRow /\ attached' = attached /\ \A f \in Deletions \ {d} : deletion'[f] = deletion[f]
    BY <1>2, PrivateWrites DEF RecordTypes
  <2>2. OfPoints(e, stopRow, attached)
    <3>1. CASE Begins(d, e) \/ Ends(d, e)
      BY <3>1 DEF Begins, Ends, OfPoints, There
    <3>2. CASE Clears(d, e)
      BY <1>0, <3>2 DEF Clears, SameListing, RowsOf, OfPoints
    <3>3. CASE Drops(d, e)
      BY <1>0, <3>3 DEF Drops, SameListing, RowsOf, OfPoints
    <3>4. CASE Renumbers(d, e) \/ \E t \in Tours : Lists(d, e, t)
      BY <1>0, <3>4 DEF Renumbers, Lists, SameListing, OfPoints
    <3>5. CASE Settles(d, e)
      <4>1. \A r \in e.gone : r[1] \in Counted => r \in deletion[d].gone
        BY <3>5 DEF Settles, RowsOf, RouteTables, Counted
      <4>2. deletion[d].gone \subseteq e.gone
        BY <3>5 DEF Settles
      <4> QED BY <1>0, <3>5, <4>1, <4>2 DEF Settles, SameListing, OfPoints
    <3> HIDE DEF e
    <3> QED BY <1>2, <3>1, <3>2, <3>3, <3>4, <3>5, PrivateCases DEF e
  <2> QED BY <1>0, <2>1, <2>2
<1>3. ASSUME NEW d \in Deletions, Commits(d) PROVE \A e \in Deletions : OfPoints(deletion'[e], stopRow', attached')
  <2>0. deletion'[d] = OnceCommitted(d)
    BY <1>3, CommitOfRequests
  <2>1. OfPoints(deletion'[d], stopRow', attached')
    BY <2>0 DEF OfPoints, OnceCommitted, Idle
  <2>2. \A s \in StopRows : stopRow'[s] # NoStopRow => stopRow[s] # NoStopRow /\ stopRow'[s].place = stopRow[s].place
    BY <1>3, CommitOfStops DEF There
  <2>3. attached' \subseteq attached
    BY <1>3 DEF Commits, CommitDeletion
  <2>4. \A e \in Deletions : deletion[e].stops \subseteq StopRows
    BY DEF RecordTypes, RequestType
  <2>5. \A e \in Deletions \ {d} : OnlyOvertaken(deletion[e], deletion'[e])
    BY <1>3, CommitOfRequests
  <2> QED BY <1>0, <1>1, <2>1, <2>2, <2>3, <2>4, <2>5
<1>4. ASSUME OtherStep PROVE \A e \in Deletions : OfPoints(deletion'[e], stopRow', attached')
  <2>1. \A e \in Deletions : OnlyOvertaken(deletion[e], deletion'[e])
    BY <1>4, OthersOvertake
  <2>2. ASSUME NEW t \in Tours, NEW p \in Places, NEW s \in StopRows, CommitClaim(t, p, s)
        PROVE  \A e \in Deletions : OfPoints(deletion'[e], stopRow', attached')
    <3>1. ASSUME NEW e \in Deletions PROVE OfPoints(deletion'[e], stopRow', attached')
      <4>1. CASE e \in Open
        <5>1. s \notin deletion[e].stops
          BY <2>2, <4>1 DEF CommitClaim
        <5>2. \A r \in deletion[e].stops : stopRow'[r] = stopRow[r]
          BY <2>2, <5>1, ClaimOfStops DEF RecordTypes, RequestType
        <5>3. attached' = attached
          BY <2>2 DEF CommitClaim
        <5> QED BY <1>0, <1>1, <2>1, <5>2, <5>3
      <4>2. CASE e \notin Open
        BY <2>1, <4>2 DEF Open, OfPoints, OnlyOvertaken
      <4> QED BY <4>1, <4>2
    <3> QED BY <3>1
  <2>3. ASSUME NEW s \in StopRows, NEW table, AttachToStop(table, s)
        PROVE  \A e \in Deletions : OfPoints(deletion'[e], stopRow', attached')
    <3>1. attached' = attached \cup {<<table, s>>} /\ stopRow' = stopRow
      BY <2>3 DEF AttachToStop
    <3>2. \A e \in Deletions : deletion[e].step \in {"dropped", "settled"} => s \notin deletion[e].stops
      BY <2>3 DEF AttachToStop, Open
    <3>3. \A r \in attached' \ attached : r[2] = s
      BY <3>1
    <3> QED BY <1>0, <1>1, <2>1, <3>1, <3>2, <3>3
  <2>4. ASSUME NEW t \in Tours, NEW table, AttachToRoute(table, t)
        PROVE  \A e \in Deletions : OfPoints(deletion'[e], stopRow', attached')
    <3>1. attached' = attached \cup {<<table, t>>} /\ stopRow' = stopRow
      BY <2>4 DEF AttachToRoute
    <3>2. \A e \in Deletions : t \notin deletion[e].stops
      BY PointDeletionAssumption DEF RecordTypes, RequestType
    <3>3. \A r \in attached' \ attached : r[2] = t
      BY <3>1
    <3> QED BY <1>0, <1>1, <2>1, <3>1, <3>2, <3>3
  <2>5. ASSUME NEW t \in Tours, BeginClaim(t)
        PROVE  \A e \in Deletions : OfPoints(deletion'[e], stopRow', attached')
    BY <1>0, <2>5 DEF BeginClaim
  <2> QED BY <1>4, <2>2, <2>3, <2>4, <2>5, PointDeletionAssumption DEF OtherStep
<1> QED
  BY <1>2, <1>3, <1>4, StepCases

LEMMA ReferencesKept ==
    ASSUME RecordTypes, References, KnownByPhase, StopsOfPoints, DeletionNext
    PROVE  References'
<1>1. ASSUME NEW d \in Deletions, Private(d) PROVE References'
  BY <1>1, PrivateWrites DEF References, There
<1>2. ASSUME NEW d \in Deletions, Commits(d) PROVE References'
  <2>1. /\ places' = places \ deletion[d].points /\ tours' = tours \ deletion[d].emptied
        /\ attached' = attached \ deletion[d].gone /\ claim' = claim
        /\ \A t \in deletion[d].emptied : claim[t] = NoClaim
    BY <1>2 DEF Commits, CommitDeletion
  <2>2. deletion[d].step = "settled" /\ d \in Open /\ Holds(d)
    BY <1>2 DEF Commits, CommitDeletion, Open, Holds
  <2>3. \A s \in StopRows : There(s)' => There(s) /\ s \notin deletion[d].stops
            /\ stopRow'[s].place = stopRow[s].place /\ stopRow'[s].route = stopRow[s].route
    BY <1>2, CommitOfStops
  <2>4. \A s \in StopRows : There(s)' => stopRow'[s].place \in places' /\ stopRow'[s].route \in tours'
    BY <1>2, <2>1, <2>3 DEF References, Commits, StillNeeded
  <2>5. \A r \in attached' : r[1] # "NOTIFICATION" => r[2] \in tours' \/ (r[2] \in StopRows /\ There(r[2])')
    <3> SUFFICES ASSUME NEW r \in attached', r[1] # "NOTIFICATION"
                 PROVE  r[2] \in tours' \/ (r[2] \in StopRows /\ There(r[2])')
      OBVIOUS
    <3>1. r \in attached /\ r \notin deletion[d].gone /\ r \in HangingRows
      BY <2>1 DEF RecordTypes
    <3>2. CASE r[1] \in StopTables \cup ExecutionTables /\ r[2] \in StopRows
      <4>1. r[2] \notin deletion[d].stops
        BY <2>2, <3>1, <3>2 DEF StopsOfPoints, RowsOf
      <4>2. There(r[2])
        BY <3>1, <3>2, PointDeletionAssumption DEF References, RecordTypes
      <4> QED BY <1>2, <3>2, <4>1, <4>2, CommitOfStops
    <3>3. CASE r[1] \in RouteTables /\ r[2] \in Tours
      <4>1. r[2] \notin deletion[d].emptied
        BY <1>2, <3>1, <3>3 DEF Commits, StillNeeded, RowsOf
      <4>2. r[2] \in tours
        BY <3>1, <3>3, PointDeletionAssumption DEF References, RouteTables
      <4> QED BY <2>1, <4>1, <4>2
    <3> QED BY <3>1, <3>2, <3>3 DEF HangingRows
  <2>6. \A t \in Tours : claim'[t] # NoClaim => t \in tours'
    BY <2>1 DEF References
  <2>7. IsFiniteSet({s \in StopRows : There(s)'})
    <3>1. {s \in StopRows : There(s)'} \in SUBSET {s \in StopRows : There(s)}
      BY <2>3
    <3> QED BY <3>1, FS_Subset DEF References
  <2> QED BY <2>4, <2>5, <2>6, <2>7 DEF References
<1>3. ASSUME NEW t \in Tours, BeginClaim(t) PROVE References'
  <2>1. PICK n \in 1..MaxIndex : claim' = [claim EXCEPT ![t] = [at |-> n]]
    BY <1>3 DEF BeginClaim
  <2> QED
    BY <1>3, <2>1 DEF References, RecordTypes, BeginClaim, There
<1>4. ASSUME NEW t \in Tours, NEW p \in Places, NEW s \in StopRows, CommitClaim(t, p, s) PROVE References'
  <2>1. /\ claim' = [claim EXCEPT ![t] = NoClaim] /\ p \in places /\ claim[t] # NoClaim
        /\ UNCHANGED <<places, tours, attached>>
    BY <1>4 DEF CommitClaim
  <2>2. t \in tours
    BY <2>1 DEF References
  <2>3. \A r \in StopRows : There(r)' => stopRow'[r].place \in places' /\ stopRow'[r].route \in tours'
    BY <1>4, <2>1, <2>2, ClaimOfStops DEF References
  <2>4. \A r \in StopRows : There(r) => There(r)'
    BY <1>4, ClaimOfStops
  <2>5. \A r \in attached' : r[1] # "NOTIFICATION" => r[2] \in tours' \/ (r[2] \in StopRows /\ There(r[2])')
    BY <2>1, <2>4 DEF References
  <2>6. \A u \in Tours : claim'[u] # NoClaim => u \in tours'
    BY <2>1 DEF References, RecordTypes
  <2>7. {r \in StopRows : There(r)'} = {r \in StopRows : There(r)} \cup {s}
    BY <1>4, ClaimOfStops
  <2>8. IsFiniteSet({r \in StopRows : There(r)'})
    BY <2>7, FS_AddElement DEF References
  <2> QED BY <2>3, <2>5, <2>6, <2>8 DEF References
<1>5. ASSUME NEW s \in StopRows, NEW table, AttachToStop(table, s) PROVE References'
  BY <1>5 DEF References, AttachToStop, There
<1>6. ASSUME NEW t \in Tours, NEW table, AttachToRoute(table, t) PROVE References'
  BY <1>6 DEF References, AttachToRoute, There
<1> QED
  BY <1>1, <1>2, <1>3, <1>4, <1>5, <1>6, StepCases, PointDeletionAssumption DEF OtherStep

LEMMA NumbersAreNaturals ==
    ASSUME RecordTypes
    PROVE  /\ \A d \in Deletions : \A s \in Renumbered(d) : s \in StopRows /\ NewNumber(d, s) \in Nat \ {0}
           /\ \A s \in StopRows : There(s) => stopRow[s].at \in Nat \ {0} /\ stopRow[s].route \in Tours
<1>1. \A d \in Deletions : deletion[d].listed \in Numberings /\ deletion[d].numbers \in Numberings
  BY DEF RecordTypes, RequestType
<1>2. \A d \in Deletions : \A s \in Renumbered(d) : s \in StopRows /\ NewNumber(d, s) \in Nat \ {0}
  BY <1>1, NumberingsFacts DEF Renumbered, NewNumber
<1>3. \A s \in StopRows : There(s) => stopRow[s].at \in Nat \ {0} /\ stopRow[s].route \in Tours
  BY StopIsThere DEF StopType
<1> QED BY <1>2, <1>3

\* A point deleted twice stays on record.
LEMMA NoneAgainBefore ==
    ASSUME RecordTypes, References, KnownByPhase, DeletionNext, NoneAgain'
    PROVE  NoneAgain
<1>1. SUFFICES ASSUME NEW d \in Deletions, deletion[d].again PROVE deletion'[d].again
  BY DEF NoneAgain
<1>2. deletion[d].step = "done"
  BY <1>1 DEF KnownByPhase, Done
<1>3. ASSUME NEW e \in Deletions, Private(e) PROVE deletion'[d].again
  <2>1. CASE e = d
    <3> DEFINE f == deletion'[d]
    <3>1. \/ Begins(d, f) \/ Ends(d, f) \/ Clears(d, f) \/ Drops(d, f)
          \/ (\E t \in Tours : Lists(d, f, t)) \/ Renumbers(d, f) \/ Settles(d, f)
      BY <1>3, <2>1, PrivateCases
    <3>2. deletion[d].step # "done"
      BY <3>1 DEF Begins, Ends, Clears, Drops, Lists, Renumbers, Settles
    <3> QED BY <1>2, <3>2
  <2>2. CASE e # d
    BY <1>1, <1>3, <2>2, PrivateWrites DEF RecordTypes
  <2> QED BY <2>1, <2>2
<1>4. ASSUME NEW e \in Deletions, Commits(e) PROVE deletion'[d].again
  <2>1. e # d
    BY <1>2, <1>4 DEF Commits, CommitDeletion
  <2>2. OnlyOvertaken(deletion[d], deletion'[d])
    BY <1>4, <2>1, CommitOfRequests
  <2> QED BY <1>1, <2>2 DEF OnlyOvertaken
<1>5. ASSUME OtherStep PROVE deletion'[d].again
  <2>1. OnlyOvertaken(deletion[d], deletion'[d])
    BY <1>5, OthersOvertake
  <2> QED BY <1>1, <2>1 DEF OnlyOvertaken
<1> QED BY <1>3, <1>4, <1>5, StepCases

\* The ranks that ListRemaining gives keep the order, and are no higher than distinct numbers.
LEMMA Ranks ==
    ASSUME RecordTypes, References, NEW L \in SUBSET {s \in StopRows : There(s)}, NEW rank,
           \A s \in L : rank[s] = Cardinality({r \in L : stopRow[r].at <= stopRow[s].at})
    PROVE  /\ \A r, s \in L : stopRow[r].at < stopRow[s].at => rank[r] < rank[s]
           /\ (\A r, s \in L : r # s => stopRow[r].at # stopRow[s].at) =>
                  \A s \in L : rank[s] <= stopRow[s].at
<1> DEFINE upto(s) == {r \in L : stopRow[r].at <= stopRow[s].at}
<1>0. \A s \in L : stopRow[s].at \in Nat \ {0}
  BY NumbersAreNaturals
<1>1. IsFiniteSet(L)
  BY FS_Subset DEF References
<1>2. \A s \in L : IsFiniteSet(upto(s)) /\ Cardinality(upto(s)) \in Nat /\ s \in upto(s)
  <2> TAKE s \in L
  <2>1. IsFiniteSet(upto(s))
    BY <1>1, FS_Subset
  <2>2. s \in upto(s)
    BY <1>0
  <2> QED BY <2>1, <2>2, FS_CardinalityType
<1>3. ASSUME NEW r \in L, NEW s \in L, stopRow[r].at < stopRow[s].at PROVE rank[r] < rank[s]
  <2>1. upto(r) \in SUBSET upto(s)
    BY <1>0, <1>3
  <2>2. s \in upto(s) /\ s \notin upto(r)
    BY <1>0, <1>3
  <2>3. upto(s) # upto(r)
    BY <2>2
  <2> HIDE DEF upto
  <2>4. Cardinality(upto(r)) <= Cardinality(upto(s)) /\ Cardinality(upto(s)) # Cardinality(upto(r))
    BY <1>2, <2>1, <2>3, FS_Subset
  <2>5. rank[r] = Cardinality(upto(r)) /\ rank[s] = Cardinality(upto(s))
    BY DEF upto
  <2> QED BY <1>2, <2>4, <2>5
<1>4. ASSUME \A r, s \in L : r # s => stopRow[r].at # stopRow[s].at, NEW s \in L
      PROVE  rank[s] <= stopRow[s].at
  <2> DEFINE f == [r \in upto(s) |-> stopRow[r].at]
  <2>1. f \in Injection(upto(s), 1..stopRow[s].at)
    <3>1. f \in [upto(s) -> 1..stopRow[s].at]
      BY <1>0
    <3>2. \A a, b \in upto(s) : f[a] = f[b] => a = b
      BY <1>4
    <3> QED BY <3>1, <3>2 DEF Injection, IsInjective
  <2>2. IsFiniteSet(1..stopRow[s].at) /\ Cardinality(1..stopRow[s].at) = stopRow[s].at
    <3>1. \A n \in Nat \ {0} : IsFiniteSet(1..n) /\ Cardinality(1..n) = n
      BY FS_Interval
    <3> QED BY <1>0, <3>1
  <2>3. Cardinality(upto(s)) <= stopRow[s].at
    <3> HIDE DEF f, upto
    <3> QED BY <2>1, <2>2, FS_Injection
  <2>4. rank[s] = Cardinality(upto(s))
    OBVIOUS
  <2> QED BY <2>3, <2>4
<1> QED BY <1>3, <1>4

\* What is said of a deletion that holds its stops depends on them and on its own request.
StableOf(d) ==
    Fresh(d) => /\ StopsStand(d)
                /\ Holds(d) => OnSettledRoutes(d) /\ NumbersByRank(d) /\ NewcomersAfter(d)

LEMMA StableParts ==
    Stable <=> (NoneAgain => NumbersDiffer /\ ClaimsComeLast /\ \A d \in Open : StableOf(d))
  BY DEF Stable, AllStand, AllRanked, StableOf

LEMMA StableOfFrame ==
    ASSUME NEW d \in Deletions, OnlyOvertaken(deletion[d], deletion'[d]),
           places' = places, stopRow' = stopRow, StableOf(d)
    PROVE  StableOf(d)'
<1>1. /\ Fresh(d)' = Fresh(d) /\ Holds(d)' = Holds(d)
      /\ deletion'[d].stops = deletion[d].stops /\ deletion'[d].todo = deletion[d].todo
      /\ Renumbered(d)' = Renumbered(d)
      /\ \A s : NewNumber(d, s)' = NewNumber(d, s)
  BY DEF OnlyOvertaken, Fresh, Holds, Renumbered, NewNumber
<1>2. /\ \A s : There(s)' = There(s)
      /\ \A r, s : SameRoute(r, s)' = SameRoute(r, s) /\ Before(r, s)' = Before(r, s)
  BY DEF There, SameRoute, Before
<1>3. StopsStand(d) => StopsStand(d)'
  BY <1>1, <1>2 DEF StopsStand
<1>4. OnSettledRoutes(d) => OnSettledRoutes(d)'
  BY <1>1, <1>2 DEF OnSettledRoutes
<1>5. NumbersByRank(d) => NumbersByRank(d)'
  BY <1>1, <1>2 DEF NumbersByRank
<1>6. NewcomersAfter(d) => NewcomersAfter(d)'
  BY <1>1, <1>2 DEF NewcomersAfter
<1> QED BY <1>1, <1>3, <1>4, <1>5, <1>6 DEF StableOf

LEMMA PrivateKeepsStable ==
    ASSUME RecordTypes, References, KnownByPhase, NEW d \in Deletions, Private(d),
           NumbersDiffer, ClaimsComeLast, d \in Open => StableOf(d), d \in Open'
    PROVE  StableOf(d)'
<1> DEFINE e == deletion'[d]
<1>1. /\ places' = places /\ stopRow' = stopRow
      /\ \A s : There(s)' = There(s)
      /\ \A r, s : SameRoute(r, s)' = SameRoute(r, s) /\ Before(r, s)' = Before(r, s)
  BY PrivateWrites DEF There, SameRoute, Before
<1>2. ASSUME Begins(d, e) PROVE StableOf(d)'
  <2>1. StopsStand(d)'
    BY <1>1, <1>2 DEF Begins, StopsStand
  <2>2. ~Holds(d)'
    BY <1>2 DEF Begins, Holds
  <2> QED BY <2>1, <2>2 DEF StableOf
<1>3. ASSUME Ends(d, e) PROVE FALSE
  BY <1>3 DEF Ends, Open
<1>4. ASSUME SameListing(d, e), deletion[d].step \in {"listed", "cleared", "dropped"}, e.todo \subseteq deletion[d].todo
      PROVE  (Fresh(d)' => Fresh(d)) /\ StableOf(d) /\ (StopsStand(d) => StopsStand(d)')
  BY <1>1, <1>4 DEF SameListing, Fresh, Open, StopsStand
<1>5. ASSUME Clears(d, e) PROVE StableOf(d)'
  <2>1. ~Holds(d)'
    BY <1>5 DEF Clears, Holds
  <2> QED BY <1>4, <1>5, <2>1 DEF Clears, StableOf
<1>6. ASSUME Drops(d, e) PROVE StableOf(d)'
  <2>1. Renumbered(d)' = {}
    BY <1>6 DEF Drops, KnownByPhase, Holds, Renumbered
  <2>2. OnSettledRoutes(d)' /\ NumbersByRank(d)' /\ NewcomersAfter(d)'
    BY <2>1 DEF OnSettledRoutes, NumbersByRank, NewcomersAfter
  <2> QED BY <1>4, <1>6, <2>2 DEF Drops, StableOf
<1>7. ASSUME SameListing(d, e), deletion[d].step = "dropped", Holds(d), e.todo = deletion[d].todo,
             Renumbered(d)' \subseteq Renumbered(d),
             \A s \in Renumbered(d) : There(s) => s \in Renumbered(d)',
             \A s \in Renumbered(d)' : NewNumber(d, s)' = NewNumber(d, s)
      PROVE  StableOf(d)'
  <2>1. SUFFICES ASSUME Fresh(d)' PROVE StopsStand(d)' /\ OnSettledRoutes(d)' /\ NumbersByRank(d)' /\ NewcomersAfter(d)'
    BY DEF StableOf
  <2>2. StopsStand(d)' /\ OnSettledRoutes(d) /\ NumbersByRank(d) /\ NewcomersAfter(d) /\ e.stops = deletion[d].stops
    BY <1>4, <1>7, <2>1 DEF StableOf, SameListing
  <2>3. OnSettledRoutes(d)'
    BY <1>1, <1>7, <2>2 DEF OnSettledRoutes
  <2>4. NumbersByRank(d)'
    BY <1>1, <1>7, <2>2 DEF NumbersByRank
  <2>5. NewcomersAfter(d)'
    <3>1. SUFFICES ASSUME NEW x \in StopRows \ (Renumbered(d)' \cup deletion[d].stops), NEW s \in Renumbered(d)',
                          SameRoute(s, x)
                   PROVE  /\ stopRow[s].at < stopRow[x].at
                          /\ \A r \in deletion[d].stops : SameRoute(r, x) => stopRow[r].at < stopRow[x].at
      BY <1>1, <2>2 DEF NewcomersAfter
    <3>2. x \in StopRows \ (Renumbered(d) \cup deletion[d].stops) /\ s \in Renumbered(d)
      BY <1>7, <3>1 DEF SameRoute
    <3> QED BY <2>2, <3>1, <3>2 DEF NewcomersAfter
  <2> QED BY <2>2, <2>3, <2>4, <2>5
<1>8. ASSUME Settles(d, e) PROVE StableOf(d)'
  <2>1. Renumbered(d)' = Renumbered(d) /\ \A s : NewNumber(d, s)' = NewNumber(d, s)
    BY <1>8 DEF Settles, Renumbered, NewNumber
  <2> QED BY <1>7, <1>8, <2>1 DEF Settles, Holds
<1>9. ASSUME Renumbers(d, e) PROVE StableOf(d)'
  <2>1. Renumbered(d)' = DOMAIN e.numbers /\ \A s : NewNumber(d, s)' = e.numbers[s]
    BY <1>9, NumberingsFacts DEF Renumbers, Renumbered, NewNumber
  <2>2. Renumbered(d)' \subseteq Renumbered(d) /\ \A s \in Renumbered(d) : There(s) => s \in Renumbered(d)'
    BY <1>9, <2>1 DEF Renumbers, Renumbered
  <2>3. \A s \in Renumbered(d)' : NewNumber(d, s)' = NewNumber(d, s)
    BY <1>9, <2>1 DEF Renumbers
  <2> QED BY <1>7, <1>9, <2>2, <2>3 DEF Renumbers, Holds
<1>10. ASSUME NEW t \in Tours, Lists(d, e, t) PROVE StableOf(d)'
  <2> DEFINE left == StopsOnTour(t) \ deletion[d].stops
  <2>1. SUFFICES ASSUME Fresh(d)' PROVE StopsStand(d)' /\ OnSettledRoutes(d)' /\ NumbersByRank(d)' /\ NewcomersAfter(d)'
    BY DEF StableOf
  <2>2. Holds(d)
    BY <1>10 DEF Lists, Holds
  <2>3. /\ StopsStand(d) /\ StopsStand(d)' /\ OnSettledRoutes(d) /\ NumbersByRank(d) /\ NewcomersAfter(d)
        /\ e.stops = deletion[d].stops /\ e.todo = deletion[d].todo \ {t} /\ t \in deletion[d].todo
    BY <1>4, <1>10, <2>1, <2>2 DEF StableOf, SameListing, Lists
  <2>4. /\ Renumbered(d) = DOMAIN deletion[d].numbers
        /\ Renumbered(d)' = left \cup Renumbered(d)
        /\ \A s \in Renumbered(d) : There(s) /\ stopRow[s].route # t
        /\ \A s \in left : s \in StopRows /\ There(s) /\ stopRow[s].route = t
    <3>1. Renumbered(d) = DOMAIN deletion[d].numbers
      BY <1>10, NumberingsFacts DEF Lists, Renumbered
    <3>2. Renumbered(d)' = left \cup DOMAIN deletion[d].numbers
      BY <1>10 DEF Lists, Renumbered
    <3>3. \A s \in Renumbered(d) : There(s) /\ stopRow[s].route # t
      BY <2>3, <3>1 DEF KnownByPhase, OnSettledRoutes
    <3>4. \A s \in left : s \in StopRows /\ There(s) /\ stopRow[s].route = t
      BY DEF StopsOnTour
    <3> QED BY <3>1, <3>2, <3>3, <3>4
  <2>5. /\ \A s \in left : NewNumber(d, s)' = e.listed[s]
        /\ \A s \in Renumbered(d) : NewNumber(d, s)' = NewNumber(d, s)
    <3>1. \A s \in left : NewNumber(d, s)' = e.listed[s]
      BY <1>10 DEF Lists, NewNumber
    <3>2. \A s \in Renumbered(d) : s \notin left /\ s \notin DOMAIN deletion[d].listed
      BY <1>10, <2>4, NumberingsFacts DEF Lists
    <3>3. \A s \in Renumbered(d) : NewNumber(d, s)' = NewNumber(d, s)
      BY <1>10, <3>2 DEF Lists, NewNumber
    <3> QED BY <3>1, <3>3
  <2>6. PICK anchor \in deletion[d].stops : There(anchor) /\ stopRow[anchor].route = t
    BY <2>3 DEF StopsStand
  <2>7. OnSettledRoutes(d)'
    <3>1. ASSUME NEW s \in left PROVE SameRoute(anchor, s) /\ stopRow[s].route \notin e.todo
      BY <2>3, <2>4, <2>6 DEF SameRoute
    <3> QED BY <1>1, <2>3, <2>4, <2>6, <3>1 DEF OnSettledRoutes
  <2>8. /\ \A r, s \in left : stopRow[r].at < stopRow[s].at => e.listed[r] < e.listed[s]
        /\ \A s \in left : e.listed[s] <= stopRow[s].at
    <3>1. left \in SUBSET {s \in StopRows : There(s)}
      BY <2>4
    <3>2. \A s \in left : e.listed[s] = Cardinality({r \in left : stopRow[r].at <= stopRow[s].at})
      BY <1>10 DEF Lists
    <3>3. \A r, s \in left : r # s => stopRow[r].at # stopRow[s].at
      BY <2>4 DEF NumbersDiffer, SameRoute
    <3> HIDE DEF left, e
    <3> QED BY <3>1, <3>2, <3>3, Ranks
  <2>9. NumbersByRank(d)'
    <3>1. ASSUME NEW r \in Renumbered(d)', NEW s \in Renumbered(d)', Before(r, s)
          PROVE  NewNumber(d, r)' < NewNumber(d, s)'
      <4>1. (r \in left /\ s \in left) \/ (r \in Renumbered(d) /\ s \in Renumbered(d))
        BY <2>4, <3>1 DEF Before, SameRoute
      <4>2. CASE r \in left /\ s \in left
        BY <2>5, <2>8, <3>1, <4>2 DEF Before
      <4>3. CASE r \in Renumbered(d) /\ s \in Renumbered(d)
        BY <2>3, <2>5, <3>1, <4>3 DEF NumbersByRank
      <4> QED BY <4>1, <4>2, <4>3
    <3>2. ASSUME NEW s \in Renumbered(d)'
          PROVE  \/ NewNumber(d, s)' <= stopRow[s].at
                 \/ \E x \in deletion[d].stops : SameRoute(s, x) /\ NewNumber(d, s)' < stopRow[x].at
      <4>1. CASE s \in left
        BY <2>5, <2>8, <4>1
      <4>2. CASE s \in Renumbered(d)
        BY <2>3, <2>4, <2>5, <4>2 DEF NumbersByRank
      <4> QED BY <2>4, <4>1, <4>2
    <3> QED BY <1>1, <2>3, <3>1, <3>2 DEF NumbersByRank
  <2>10. NewcomersAfter(d)'
    <3>1. SUFFICES ASSUME NEW x \in StopRows \ (Renumbered(d)' \cup deletion[d].stops), NEW s \in Renumbered(d)',
                          SameRoute(s, x)
                   PROVE  /\ stopRow[s].at < stopRow[x].at
                          /\ \A r \in deletion[d].stops : SameRoute(r, x) => stopRow[r].at < stopRow[x].at
      BY <1>1, <2>3 DEF NewcomersAfter
    <3>2. s \notin left
      BY <2>4, <3>1 DEF SameRoute, StopsOnTour
    <3>3. x \in StopRows \ (Renumbered(d) \cup deletion[d].stops) /\ s \in Renumbered(d)
      BY <2>4, <3>1, <3>2
    <3> QED BY <2>3, <3>1, <3>3 DEF NewcomersAfter
  <2> QED BY <2>3, <2>7, <2>9, <2>10
<1> HIDE DEF e
<1> QED BY <1>2, <1>3, <1>5, <1>6, <1>8, <1>9, <1>10, PrivateCases DEF e

\* A commit never moves a stop of a route past another.
LEMMA CommitKeepsOrder ==
    ASSUME RecordTypes, KnownByPhase, NumbersDiffer, NEW c \in Deletions, Commits(c),
           NumbersByRank(c), NewcomersAfter(c)
    PROVE  /\ \A r, s \in StopRows : SameRoute(r, s)' => There(r)' /\ There(s)' /\ SameRoute(r, s)
           /\ \A r, s \in StopRows : There(r)' /\ There(s)' /\ Before(r, s) => Before(r, s)'
           /\ \A r, s \in StopRows : Before(r, s)' => Before(r, s)
           /\ \A s \in StopRows : There(s)' /\ s \in Renumbered(c) => stopRow'[s].at = NewNumber(c, s)
           /\ \A s \in StopRows : There(s)' /\ s \notin Renumbered(c) => stopRow'[s].at = stopRow[s].at
           /\ NumbersDiffer'
<1>1. \A r, s \in StopRows : SameRoute(r, s)' <=> There(r)' /\ There(s)' /\ SameRoute(r, s)
  BY CommitOfStops DEF SameRoute
<1>2. deletion[c].step = "settled" /\ DOMAIN deletion[c].listed = {}
  BY DEF Commits, CommitDeletion, KnownByPhase
<1>3. /\ Renumbered(c) = DOMAIN deletion[c].numbers
      /\ \A s \in Renumbered(c) : NewNumber(c, s) = deletion[c].numbers[s]
  BY <1>2 DEF Renumbered, NewNumber
<1>4. /\ \A s \in StopRows : There(s)' /\ s \in Renumbered(c) => stopRow'[s].at = NewNumber(c, s)
      /\ \A s \in StopRows : There(s)' /\ s \notin Renumbered(c) => stopRow'[s].at = stopRow[s].at
      /\ \A s \in StopRows : There(s)' => There(s) /\ s \notin deletion[c].stops
  BY <1>3, CommitOfStops
<1>5. \A s \in StopRows : There(s) => stopRow[s].at \in Nat
  BY NumbersAreNaturals
<1>6. \A s \in Renumbered(c) : NewNumber(c, s) \in Nat
  BY NumbersAreNaturals
<1>7. ASSUME NEW r \in StopRows, NEW s \in StopRows, There(r)', There(s)', Before(r, s)
      PROVE  stopRow'[r].at < stopRow'[s].at
  <2>1. SameRoute(r, s) /\ stopRow[r].at < stopRow[s].at /\ There(r) /\ There(s)
        /\ SameRoute(s, r) /\ stopRow[r].at \in Nat /\ stopRow[s].at \in Nat
    BY <1>5, <1>7 DEF Before, SameRoute
  <2>2. CASE r \in Renumbered(c) /\ s \in Renumbered(c)
    BY <1>4, <1>7, <2>2 DEF NumbersByRank
  <2>3. CASE r \in Renumbered(c) /\ s \notin Renumbered(c)
    <3>1. s \in StopRows \ (Renumbered(c) \cup deletion[c].stops)
      BY <1>4, <1>7, <2>3
    <3>2. \A x \in deletion[c].stops : SameRoute(x, s) => stopRow[x].at < stopRow[s].at
      BY <2>1, <2>3, <3>1 DEF NewcomersAfter
    <3>3. \/ NewNumber(c, r) <= stopRow[r].at
          \/ \E x \in deletion[c].stops : SameRoute(r, x) /\ NewNumber(c, r) < stopRow[x].at
      BY <2>1, <2>3 DEF NumbersByRank
    <3>4. NewNumber(c, r) < stopRow[s].at
      <4>1. CASE NewNumber(c, r) <= stopRow[r].at
        BY <1>6, <2>1, <2>3, <4>1
      <4>2. CASE \E x \in deletion[c].stops : SameRoute(r, x) /\ NewNumber(c, r) < stopRow[x].at
        <5>1. PICK x \in deletion[c].stops : SameRoute(r, x) /\ NewNumber(c, r) < stopRow[x].at
          BY <4>2
        <5>2. SameRoute(x, s) /\ x \in StopRows /\ There(x)
          BY <2>1, <5>1 DEF SameRoute, RecordTypes, RequestType
        <5>3. stopRow[x].at \in Nat /\ stopRow[x].at < stopRow[s].at
          BY <1>5, <3>2, <5>2
        <5> QED BY <1>6, <2>1, <2>3, <5>1, <5>3
      <4> QED BY <3>3, <4>1, <4>2
    <3> QED BY <1>4, <1>7, <2>3, <3>4
  <2>4. CASE r \notin Renumbered(c) /\ s \in Renumbered(c)
    <3>1. r \in StopRows \ (Renumbered(c) \cup deletion[c].stops)
      BY <1>4, <1>7, <2>4
    <3>2. stopRow[s].at < stopRow[r].at
      BY <2>1, <2>4, <3>1 DEF NewcomersAfter
    <3> QED BY <2>1, <3>2
  <2>5. CASE r \notin Renumbered(c) /\ s \notin Renumbered(c)
    BY <1>4, <1>7, <2>1, <2>5
  <2> QED BY <2>2, <2>3, <2>4, <2>5
<1>8. \A s \in StopRows : There(s)' => stopRow'[s].at \in Nat
  BY <1>4, <1>5, <1>6
<1>9. \A r, s \in StopRows : There(r)' /\ There(s)' /\ Before(r, s) => Before(r, s)'
  BY <1>1, <1>7 DEF Before
<1>10. ASSUME NEW r \in StopRows, NEW s \in StopRows, SameRoute(r, s)', r # s
       PROVE  /\ stopRow'[r].at # stopRow'[s].at
              /\ stopRow'[r].at < stopRow'[s].at => Before(r, s)
  <2>1. SameRoute(r, s) /\ SameRoute(s, r) /\ There(r)' /\ There(s)' /\ There(r) /\ There(s)
    BY <1>1, <1>10 DEF SameRoute
  <2>2. Before(r, s) \/ Before(s, r)
    <3>1. stopRow[r].at # stopRow[s].at /\ stopRow[r].at \in Nat /\ stopRow[s].at \in Nat
      BY <1>5, <1>10, <2>1 DEF NumbersDiffer
    <3>2. stopRow[r].at < stopRow[s].at \/ stopRow[s].at < stopRow[r].at
      BY <3>1
    <3> QED BY <2>1, <3>2 DEF Before
  <2> QED BY <1>7, <1>8, <2>1, <2>2
<1>11. \A r, s \in StopRows : Before(r, s)' => Before(r, s)
  <2>1. \A s \in StopRows : ~Before(s, s)'
    BY <1>8 DEF Before, SameRoute
  <2> QED BY <1>10, <2>1 DEF Before
<1>12. NumbersDiffer'
  BY <1>10 DEF NumbersDiffer
<1> QED BY <1>1, <1>4, <1>9, <1>11, <1>12

\* What another deletion knows of the order, it knows after the commit of one.
LEMMA CommitKeepsOthers ==
    ASSUME RecordTypes, KnownByPhase, HeldByOne, StopsOfPoints, NumbersDiffer,
           NEW c \in Deletions, Commits(c), Fresh(c), StableOf(c),
           NEW e \in Deletions, e # c, e \in Open, StableOf(e)
    PROVE  StableOf(e)'
<1>1. deletion[c].step = "settled" /\ Holds(c) /\ c \in Open
  BY DEF Commits, CommitDeletion, Holds, Open
<1>2. NumbersByRank(c) /\ NewcomersAfter(c)
  BY <1>1 DEF StableOf
<1>3. /\ \A r, s \in StopRows : SameRoute(r, s)' => There(r)' /\ There(s)' /\ SameRoute(r, s)
      /\ \A r, s \in StopRows : There(r)' /\ There(s)' /\ Before(r, s) => Before(r, s)'
      /\ \A r, s \in StopRows : Before(r, s)' => Before(r, s)
      /\ \A s \in StopRows : There(s)' /\ s \notin Renumbered(c) => stopRow'[s].at = stopRow[s].at
  BY <1>2, CommitKeepsOrder
<1>4. OnlyOvertaken(deletion[e], deletion'[e])
  BY CommitOfRequests
<1>5. /\ deletion'[e].points = deletion[e].points /\ Holds(e)' = Holds(e)
      /\ deletion'[e].stops = deletion[e].stops /\ deletion'[e].todo = deletion[e].todo
      /\ Renumbered(e)' = Renumbered(e) /\ \A s : NewNumber(e, s)' = NewNumber(e, s)
  BY <1>4 DEF OnlyOvertaken, Holds, Renumbered, NewNumber
<1>6. \A s \in StopRows : There(s)' <=> There(s) /\ s \notin deletion[c].stops
  BY CommitOfStops
<1>7. \A s \in StopRows : There(s)' => stopRow'[s].route = stopRow[s].route
  BY CommitOfStops
<1>8. SUFFICES ASSUME Fresh(e)'
               PROVE  StopsStand(e)' /\ (Holds(e) => OnSettledRoutes(e)' /\ NumbersByRank(e)' /\ NewcomersAfter(e)')
  BY <1>5 DEF StableOf
<1>9. deletion[e].points \subseteq places /\ deletion[e].points \cap deletion[c].points = {}
  BY <1>5, <1>8 DEF Fresh, Commits, CommitDeletion
<1>10. StopsStand(e) /\ (Holds(e) => OnSettledRoutes(e) /\ NumbersByRank(e) /\ NewcomersAfter(e))
  BY <1>9 DEF StableOf, Fresh
<1>11. deletion[e].stops \subseteq StopRows
  BY DEF RecordTypes, RequestType
<1>12. \A s \in deletion[e].stops : s \in StopRows /\ There(s) /\ There(s)'
  <2> SUFFICES ASSUME NEW s \in deletion[e].stops PROVE s \in StopRows /\ There(s) /\ There(s)'
    OBVIOUS
  <2>1. s \in StopRows /\ There(s)
    BY <1>10, <1>11 DEF StopsStand
  <2>2. stopRow[s].place \in deletion[e].points
    BY <2>1 DEF StopsOfPoints
  <2>3. s \notin deletion[c].stops
    BY <1>1, <1>9, <2>1, <2>2 DEF StopsOfPoints
  <2> QED BY <1>6, <2>1, <2>3
<1>13. StopsStand(e)'
  BY <1>5, <1>7, <1>10, <1>12 DEF StopsStand
<1>14. SUFFICES ASSUME Holds(e) PROVE OnSettledRoutes(e)' /\ NumbersByRank(e)' /\ NewcomersAfter(e)'
  BY <1>13
<1>15. \A s \in Renumbered(e) : s \in StopRows /\ NewNumber(e, s) \in Nat
  BY NumbersAreNaturals
<1>16. \A s \in StopRows : There(s) => stopRow[s].at \in Nat
  BY NumbersAreNaturals
<1>17. OnSettledRoutes(e)'
  <2> SUFFICES ASSUME NEW s \in Renumbered(e), There(s)'
               PROVE  /\ stopRow'[s].route \notin deletion[e].todo
                      /\ \E r \in deletion[e].stops : SameRoute(r, s)'
    BY <1>5 DEF OnSettledRoutes
  <2>1. s \in StopRows /\ There(s)
    BY <1>6, <1>15
  <2>2. PICK r \in deletion[e].stops : SameRoute(r, s)
    BY <1>10, <1>14, <2>1 DEF OnSettledRoutes
  <2>3. SameRoute(r, s)'
    BY <1>7, <1>12, <2>1, <2>2 DEF SameRoute
  <2> QED BY <1>7, <1>10, <1>14, <2>1, <2>3 DEF OnSettledRoutes
<1>18. \A r \in deletion[e].stops : r \notin Renumbered(c) /\ stopRow'[r].at = stopRow[r].at
  <2>1. deletion[e].stops \cap Renumbered(c) = {}
    <3>1. DOMAIN deletion[c].listed = {}
      BY <1>1 DEF KnownByPhase
    <3> QED BY <1>1, <1>14, <3>1 DEF HeldByOne, HeldBy, Holds, Renumbered
  <2> QED BY <1>3, <1>12, <2>1
<1>19. NumbersByRank(e)'
  <2>1. ASSUME NEW r \in Renumbered(e), NEW s \in Renumbered(e), Before(r, s)'
        PROVE  NewNumber(e, r) < NewNumber(e, s)
    BY <1>3, <1>10, <1>14, <1>15, <2>1 DEF NumbersByRank
  <2>2. ASSUME NEW s \in Renumbered(e), There(s)'
        PROVE  \/ NewNumber(e, s) <= stopRow'[s].at
               \/ \E x \in deletion[e].stops : SameRoute(s, x)' /\ NewNumber(e, s) < stopRow'[x].at
    <3>1. s \in StopRows /\ There(s) /\ s \notin deletion[c].stops /\ NewNumber(e, s) \in Nat
      BY <1>6, <1>15, <2>2
    <3>2. \A x \in deletion[e].stops : SameRoute(s, x) => SameRoute(s, x)'
      BY <1>7, <1>12, <2>2, <3>1 DEF SameRoute
    <3>3. CASE \E x \in deletion[e].stops : SameRoute(s, x) /\ NewNumber(e, s) < stopRow[x].at
      BY <1>18, <3>2, <3>3
    <3>4. CASE NewNumber(e, s) <= stopRow[s].at /\ s \notin Renumbered(c)
      BY <1>3, <2>2, <3>1, <3>4
    <3>5. CASE NewNumber(e, s) <= stopRow[s].at /\ s \in Renumbered(c)
      <4>1. PICK r \in deletion[e].stops : SameRoute(r, s)
        BY <1>10, <1>14, <3>1 DEF OnSettledRoutes
      <4>2. SameRoute(s, r) /\ r \in StopRows \ (Renumbered(c) \cup deletion[c].stops)
        BY <1>6, <1>12, <1>18, <4>1 DEF SameRoute
      <4>3. stopRow[s].at < stopRow[r].at
        BY <1>2, <3>5, <4>2 DEF NewcomersAfter
      <4>4. NewNumber(e, s) < stopRow[r].at
        BY <1>12, <1>16, <3>1, <3>5, <4>3
      <4> QED BY <1>18, <3>2, <4>2, <4>4
    <3> QED BY <1>10, <1>14, <3>1, <3>3, <3>4, <3>5 DEF NumbersByRank
  <2> QED BY <1>5, <2>1, <2>2 DEF NumbersByRank
<1>20. NewcomersAfter(e)'
  <2>1. SUFFICES ASSUME NEW x \in StopRows \ (Renumbered(e) \cup deletion[e].stops), NEW s \in Renumbered(e),
                        SameRoute(s, x)'
                 PROVE  /\ stopRow'[s].at < stopRow'[x].at
                        /\ \A r \in deletion[e].stops : SameRoute(r, x)' => stopRow'[r].at < stopRow'[x].at
    BY <1>5 DEF NewcomersAfter
  <2>2. SameRoute(s, x) /\ There(s)' /\ There(x)' /\ s \in StopRows
    BY <1>3, <1>15, <2>1
  <2>3. /\ stopRow[s].at < stopRow[x].at
        /\ \A r \in deletion[e].stops : SameRoute(r, x) => stopRow[r].at < stopRow[x].at
    BY <1>10, <1>14, <2>1, <2>2 DEF NewcomersAfter
  <2>4. \A r \in StopRows : There(r)' /\ SameRoute(r, x) /\ stopRow[r].at < stopRow[x].at
                             => stopRow'[r].at < stopRow'[x].at
    BY <1>3, <2>1, <2>2 DEF Before
  <2> QED BY <1>3, <1>12, <2>1, <2>2, <2>3, <2>4
<1> QED BY <1>17, <1>19, <1>20

\* A claim's stop comes last on its route.
LEMMA ClaimKeepsStable ==
    ASSUME RecordTypes, References, KnownByPhase, NumbersDiffer, ClaimsComeLast,
           NEW t \in Tours, NEW p \in Places, NEW n \in StopRows, CommitClaim(t, p, n)
    PROVE  /\ NumbersDiffer' /\ ClaimsComeLast'
           /\ \A e \in Open : StableOf(e) => StableOf(e)'
<1>1. /\ \A r \in StopRows : r # n => stopRow'[r] = stopRow[r] /\ (There(r)' <=> There(r))
      /\ There(n)' /\ ~There(n) /\ stopRow'[n].route = t /\ stopRow'[n].at = claim[t].at
  BY ClaimOfStops
<1>2. /\ places' = places /\ claim' = [claim EXCEPT ![t] = NoClaim] /\ claim[t] # NoClaim
      /\ \A d \in Open : n \notin deletion[d].stops \cup DOMAIN deletion[d].listed
  BY DEF CommitClaim
<1>3. \A r, s \in StopRows : r # n /\ s # n => SameRoute(r, s)' = SameRoute(r, s) /\ Before(r, s)' = Before(r, s)
  BY <1>1 DEF SameRoute, Before
<1>4. \A r \in StopRows : r # n /\ (SameRoute(r, n)' \/ SameRoute(n, r)')
                           => r \in StopsOnTour(t) /\ stopRow'[r].at < stopRow'[n].at
  BY <1>1, <1>2 DEF SameRoute, StopsOnTour, ClaimsComeLast
<1>5. \A s \in StopRows : There(s) => stopRow[s].at \in Nat
  BY NumbersAreNaturals
<1>6. claim[t].at \in Nat
  BY DEF RecordTypes
<1>7. NumbersDiffer'
  <2> SUFFICES ASSUME NEW r \in StopRows, NEW s \in StopRows, SameRoute(r, s)', r # s
               PROVE  stopRow'[r].at # stopRow'[s].at
    BY DEF NumbersDiffer
  <2>1. CASE r # n /\ s # n
    BY <1>1, <1>3, <2>1 DEF NumbersDiffer
  <2>2. CASE r = n
    <3>1. s \in StopsOnTour(t) /\ stopRow'[s].at < stopRow'[n].at /\ stopRow'[s].at \in Nat
      BY <1>1, <1>4, <1>5, <2>2 DEF StopsOnTour
    <3> QED BY <1>1, <1>6, <2>2, <3>1
  <2>3. CASE s = n
    <3>1. r \in StopsOnTour(t) /\ stopRow'[r].at < stopRow'[n].at /\ stopRow'[r].at \in Nat
      BY <1>1, <1>4, <1>5, <2>3 DEF StopsOnTour
    <3> QED BY <1>1, <1>6, <2>3, <3>1
  <2> QED BY <2>1, <2>2, <2>3
<1>8. ClaimsComeLast'
  <2> SUFFICES ASSUME NEW u \in Tours, claim'[u] # NoClaim, NEW s \in StopRows, There(s)', stopRow'[s].route = u
               PROVE  stopRow'[s].at < claim'[u].at
    BY DEF ClaimsComeLast, StopsOnTour
  <2>1. u # t /\ claim'[u] = claim[u]
    BY <1>2 DEF RecordTypes
  <2>2. s # n
    BY <1>1, <2>1
  <2> QED BY <1>1, <2>1, <2>2 DEF ClaimsComeLast, StopsOnTour
<1>9. ASSUME NEW e \in Open, StableOf(e) PROVE StableOf(e)'
  <2>1. OnlyOvertaken(deletion[e], deletion'[e])
    <3>1. OtherStep
      BY DEF OtherStep
    <3> QED BY <3>1, OthersOvertake DEF Open
  <2>2. /\ Fresh(e)' = Fresh(e) /\ Holds(e)' = Holds(e)
        /\ deletion'[e].stops = deletion[e].stops /\ deletion'[e].todo = deletion[e].todo
        /\ Renumbered(e)' = Renumbered(e)
        /\ \A s : NewNumber(e, s)' = NewNumber(e, s)
    BY <1>2, <2>1 DEF OnlyOvertaken, Fresh, Holds, Renumbered, NewNumber
  <2>3. n \notin deletion[e].stops /\ n \notin Renumbered(e)
    BY <1>1, <1>2 DEF KnownByPhase, Renumbered, Open
  <2>4. deletion[e].stops \subseteq StopRows /\ Renumbered(e) \subseteq StopRows
    BY NumbersAreNaturals DEF RecordTypes, RequestType, Open
  <2>5. StopsStand(e) => StopsStand(e)'
    BY <1>1, <2>2, <2>3, <2>4 DEF StopsStand
  <2>6. OnSettledRoutes(e) => OnSettledRoutes(e)'
    BY <1>1, <1>3, <2>2, <2>3, <2>4 DEF OnSettledRoutes
  <2>7. NumbersByRank(e) => NumbersByRank(e)'
    BY <1>1, <1>3, <2>2, <2>3, <2>4 DEF NumbersByRank
  <2>8. NewcomersAfter(e) => NewcomersAfter(e)'
    <3> SUFFICES ASSUME NewcomersAfter(e), NEW x \in StopRows \ (Renumbered(e) \cup deletion[e].stops),
                        NEW s \in Renumbered(e), SameRoute(s, x)'
                 PROVE  /\ stopRow'[s].at < stopRow'[x].at
                        /\ \A r \in deletion[e].stops : SameRoute(r, x)' => stopRow'[r].at < stopRow'[x].at
      BY <2>2 DEF NewcomersAfter
    <3>1. CASE x = n
      BY <1>4, <2>3, <2>4, <3>1
    <3>2. CASE x # n
      BY <1>1, <1>3, <2>3, <2>4, <3>2 DEF NewcomersAfter
    <3> QED BY <3>1, <3>2
  <2> QED BY <1>9, <2>2, <2>5, <2>6, <2>7, <2>8 DEF StableOf
<1> QED BY <1>7, <1>8, <1>9

LEMMA StableKept ==
    ASSUME RecordTypes, References, KnownByPhase, HeldByOne, StopsOfPoints, Stable, DeletionNext
    PROVE  Stable'
<1> SUFFICES ASSUME NoneAgain' PROVE NumbersDiffer' /\ ClaimsComeLast' /\ \A d \in Open' : StableOf(d)'
  BY DEF Stable, AllStand, AllRanked, StableOf
<1>1. NumbersDiffer /\ ClaimsComeLast /\ \A d \in Open : StableOf(d)
  BY NoneAgainBefore, StableParts
<1>2. ASSUME NEW d \in Deletions, Private(d)
      PROVE  NumbersDiffer' /\ ClaimsComeLast' /\ \A e \in Open' : StableOf(e)'
  <2>1. /\ UNCHANGED <<places, stopRow, claim>>
        /\ \A e \in Deletions : e # d => deletion'[e] = deletion[e]
    BY <1>2, PrivateWrites DEF RecordTypes
  <2>2. NumbersDiffer' /\ ClaimsComeLast'
    BY <1>1, <2>1 DEF NumbersDiffer, ClaimsComeLast, SameRoute, There, StopsOnTour
  <2>3. ASSUME NEW e \in Open', e # d PROVE StableOf(e)'
    <3>1. e \in Open /\ e \in Deletions /\ OnlyOvertaken(deletion[e], deletion'[e])
      BY <2>1, <2>3 DEF Open, OnlyOvertaken
    <3> QED BY <1>1, <2>1, <3>1, StableOfFrame
  <2>4. d \in Open' => StableOf(d)'
    BY <1>1, <1>2, PrivateKeepsStable
  <2> QED BY <2>2, <2>3, <2>4
<1>3. ASSUME NEW c \in Deletions, Commits(c)
      PROVE  NumbersDiffer' /\ ClaimsComeLast' /\ \A e \in Open' : StableOf(e)'
  <2>1. deletion'[c] = OnceCommitted(c)
    BY <1>3, CommitOfRequests
  <2>2. Fresh(c) /\ c \notin Open'
    <3>1. deletion'[c].step = "done" /\ deletion'[c].again = ~(deletion[c].points \subseteq places)
      BY <2>1 DEF OnceCommitted, Idle
    <3> QED BY <3>1 DEF NoneAgain, Fresh, Open
  <2>3. c \in Open /\ Holds(c)
    BY <1>3 DEF Commits, CommitDeletion, Open, Holds
  <2>4. StableOf(c) /\ NumbersByRank(c) /\ NewcomersAfter(c) /\ OnSettledRoutes(c)
    BY <1>1, <2>2, <2>3 DEF StableOf
  <2>5. NumbersDiffer'
    BY <1>1, <1>3, <2>4, CommitKeepsOrder
  <2>6. ClaimsComeLast'
    <3> SUFFICES ASSUME NEW t \in Tours, claim[t] # NoClaim, NEW s \in StopRows, There(s)', stopRow'[s].route = t
                 PROVE  stopRow'[s].at < claim[t].at
      <4>1. claim' = claim
        BY <1>3 DEF Commits, CommitDeletion
      <4> QED BY <4>1 DEF ClaimsComeLast, StopsOnTour
    <3>1. /\ s \in Renumbered(c) => stopRow'[s].at = NewNumber(c, s)
          /\ s \notin Renumbered(c) => stopRow'[s].at = stopRow[s].at
      BY <1>1, <1>3, <2>4, CommitKeepsOrder
    <3>2. There(s) /\ stopRow[s].route = t
      BY <1>3, CommitOfStops
    <3>3. stopRow[s].at < claim[t].at /\ stopRow[s].at \in Nat /\ claim[t].at \in Nat
      BY <1>1, <3>2, NumbersAreNaturals DEF ClaimsComeLast, StopsOnTour, RecordTypes
    <3>4. CASE s \notin Renumbered(c)
      BY <3>1, <3>3, <3>4
    <3>5. CASE s \in Renumbered(c) /\ NewNumber(c, s) <= stopRow[s].at
      BY <3>1, <3>3, <3>5, NumbersAreNaturals
    <3>6. CASE s \in Renumbered(c) /\ \E x \in deletion[c].stops : SameRoute(s, x) /\ NewNumber(c, s) < stopRow[x].at
      <4>1. PICK x \in deletion[c].stops : SameRoute(s, x) /\ NewNumber(c, s) < stopRow[x].at
        BY <3>6
      <4>2. x \in StopsOnTour(t) /\ x \in StopRows /\ There(x)
        BY <3>2, <4>1 DEF SameRoute, StopsOnTour, RecordTypes, RequestType
      <4>3. stopRow[x].at < claim[t].at /\ stopRow[x].at \in Nat
        BY <1>1, <4>2, NumbersAreNaturals DEF ClaimsComeLast
      <4>4. NewNumber(c, s) \in Nat
        BY <3>6, NumbersAreNaturals
      <4> QED BY <3>1, <3>3, <3>6, <4>1, <4>3, <4>4
    <3> QED BY <2>4, <3>2, <3>4, <3>5, <3>6 DEF NumbersByRank
  <2>7. ASSUME NEW e \in Open' PROVE StableOf(e)'
    <3>1. e # c /\ e \in Deletions
      BY <2>2 DEF Open
    <3>2. OnlyOvertaken(deletion[e], deletion'[e])
      BY <1>3, <3>1, CommitOfRequests
    <3>3. e \in Open
      BY <2>7, <3>1, <3>2 DEF Open, OnlyOvertaken
    <3> QED BY <1>1, <1>3, <2>2, <2>4, <3>1, <3>3, CommitKeepsOthers
  <2> QED BY <2>5, <2>6, <2>7
<1>4. ASSUME NEW t \in Tours, NEW p \in Places, NEW n \in StopRows, CommitClaim(t, p, n)
      PROVE  NumbersDiffer' /\ ClaimsComeLast' /\ \A e \in Open' : StableOf(e)'
  <2>1. Open' = Open
    <3>1. OtherStep
      BY <1>4 DEF OtherStep
    <3> QED BY <3>1, OthersOvertake
  <2> QED BY <1>1, <1>4, <2>1, ClaimKeepsStable
<1>5. ASSUME OtherStep, stopRow' = stopRow PROVE NumbersDiffer' /\ \A e \in Open' : StableOf(e)'
  <2>1. NumbersDiffer'
    BY <1>1, <1>5 DEF NumbersDiffer, SameRoute, There
  <2>2. ASSUME NEW e \in Open' PROVE StableOf(e)'
    <3>1. places' = places /\ e \in Open /\ e \in Deletions /\ OnlyOvertaken(deletion[e], deletion'[e])
      BY <1>5, <2>2, OthersOvertake DEF Open
    <3> QED BY <1>1, <1>5, <3>1, StableOfFrame
  <2> QED BY <2>1, <2>2
<1>6. ASSUME NEW t \in Tours, BeginClaim(t) PROVE stopRow' = stopRow /\ ClaimsComeLast'
  <2>1. PICK n \in 1..MaxIndex : IsNextIndex(t, n) /\ claim' = [claim EXCEPT ![t] = [at |-> n]]
    BY <1>6 DEF BeginClaim
  <2>2. stopRow' = stopRow
    BY <1>6 DEF BeginClaim
  <2>3. \A u \in Tours : StopsOnTour(u)' = StopsOnTour(u)
    BY <2>2 DEF StopsOnTour, There
  <2>4. \A u \in Tours : u # t => claim'[u] = claim[u]
    BY <2>1 DEF RecordTypes
  <2>5. claim'[t].at = n
    BY <2>1 DEF RecordTypes
  <2> QED BY <1>1, <2>1, <2>2, <2>3, <2>4, <2>5 DEF ClaimsComeLast, IsNextIndex
<1>7. ASSUME OtherStep, stopRow' = stopRow, claim' = claim
      PROVE  NumbersDiffer' /\ ClaimsComeLast' /\ \A e \in Open' : StableOf(e)'
  <2>1. ClaimsComeLast'
    BY <1>1, <1>7 DEF ClaimsComeLast, StopsOnTour, There
  <2> QED BY <1>5, <1>7, <2>1
<1>8. ASSUME OtherStep PROVE NumbersDiffer' /\ ClaimsComeLast' /\ \A e \in Open' : StableOf(e)'
  BY <1>4, <1>5, <1>6, <1>7, <1>8 DEF OtherStep, AttachToStop, AttachToRoute
<1> QED BY <1>2, <1>3, <1>8, StepCases

\* Of one deletion that nothing overtook.
AloneOf(d) == ~deletion[d].overtaken => Alone(d) /\ CountStands(d) /\ RoutesCleared(d)

\* What a deletion shows once it ended.
EndOf(d) == ~deletion[d].overtaken =>
                /\ deletion[d].step # "refused"
                /\ Done(d) => /\ deletion[d].asTold
                              /\ RowsOf({"NOTIFICATION"}, deletion[d].emptied) = {}

LEMMA UndisturbedParts ==
    Undisturbed <=> /\ \A d \in Open : AloneOf(d)
                    /\ \A d \in Deletions : Done(d) => deletion[d].emptied \cap tours = {}
                    /\ \A d \in Deletions : EndOf(d)
  BY DEF Undisturbed, UndisturbedDeletion, AloneOf, EndOf

\* Nothing refuses a deletion that nothing overtook.
LEMMA NotNeeded ==
    ASSUME RecordTypes, NEW d \in Deletions, deletion[d].step = "settled", Alone(d), RoutesCleared(d)
    PROVE  ~StillNeeded(d)
<1>1. ASSUME NEW s \in StopRows \ deletion[d].stops, There(s)
      PROVE  stopRow[s].place \notin deletion[d].points /\ stopRow[s].route \notin deletion[d].emptied
  BY <1>1 DEF Alone, StopsOnTour
<1>2. RowsOf(RouteTables, deletion[d].emptied) \subseteq deletion[d].gone
  BY DEF RoutesCleared, RowsOf
<1>3. deletion[d].whole => RowsOf({"STRAY_SCAN"}, StopRows) \subseteq deletion[d].gone
  BY DEF RoutesCleared
<1> QED BY <1>1, <1>2, <1>3 DEF StillNeeded

LEMMA PrivateKeepsAlone ==
    ASSUME RecordTypes, References, KnownByPhase, NEW d \in Deletions, Private(d), d \in Open => AloneOf(d), EndOf(d)
    PROVE  (d \in Open' => AloneOf(d)') /\ EndOf(d)' /\ ~Done(d)'
<1> DEFINE e == deletion'[d]
<1>0. Cleared = StopTables \cup ExecutionTables
  BY DEF Cleared
<1>1. /\ UNCHANGED <<places, tours, stopRow, attached, claim>>
      /\ \A s : There(s)' = There(s) /\ \A t : StopsOnTour(t)' = StopsOnTour(t)
      /\ \A tables, owners : RowsOf(tables, owners)' = RowsOf(tables, owners)
  BY PrivateWrites DEF There, StopsOnTour, RowsOf
<1>2. ASSUME Begins(d, e) PROVE AloneOf(d)' /\ EndOf(d)' /\ ~Done(d)'
  <2>1. Alone(d)'
    BY <1>1, <1>2 DEF Begins, Alone, Fresh
  <2>2. CountStands(d)'
    BY <1>1, <1>2 DEF Begins, CountStands
  <2>3. RoutesCleared(d)' /\ EndOf(d)' /\ ~Done(d)'
    BY <1>2 DEF Begins, RoutesCleared, EndOf, Done
  <2> QED BY <2>1, <2>2, <2>3 DEF AloneOf
<1>3. ASSUME Ends(d, e) PROVE d \notin Open' /\ EndOf(d)' /\ ~Done(d)'
  <2>1. d \notin Open' /\ ~Done(d)' /\ e.overtaken = deletion[d].overtaken /\ d \in Open
    BY <1>3 DEF Ends, Open, Done
  <2>2. ASSUME ~deletion[d].overtaken PROVE e.step # "refused"
    <3>1. Alone(d) /\ CountStands(d) /\ RoutesCleared(d)
      BY <2>1, <2>2 DEF AloneOf
    <3>2. deletion[d].step = "settled" => ~StillNeeded(d)
      BY <3>1, NotNeeded
    <3>3. deletion[d].step = "cleared" =>
              RowsOf(StopTables \cup ExecutionTables, deletion[d].stops) \subseteq deletion[d].gone
      BY <1>0, <3>1 DEF CountStands
    <3> QED BY <1>3, <3>2, <3>3 DEF Ends
  <2> QED BY <2>1, <2>2 DEF EndOf
<1>4. ASSUME SameListing(d, e), deletion[d].step \in {"listed", "cleared", "dropped"},
             e.step \in {"cleared", "dropped", "settled"},
             e.emptied = deletion[d].emptied, ~e.overtaken
      PROVE  Alone(d) /\ CountStands(d) /\ Alone(d)'
  <2>1. Alone(d) /\ CountStands(d)
    BY <1>4 DEF SameListing, Open, AloneOf
  <2> QED BY <1>1, <1>4, <2>1 DEF SameListing, Alone, Fresh
<1>5. ASSUME e.step \in {"cleared", "dropped", "settled"} PROVE EndOf(d)' /\ ~Done(d)'
  BY <1>5 DEF EndOf, Done
<1>6. ASSUME Clears(d, e) PROVE AloneOf(d)'
  <2> SUFFICES ASSUME ~e.overtaken PROVE Alone(d)' /\ CountStands(d)' /\ RoutesCleared(d)'
    BY DEF AloneOf
  <2>1. Alone(d)' /\ CountStands(d)
    BY <1>4, <1>6 DEF Clears
  <2>2. {r \in RowsOf(Cleared, deletion[d].stops) : r[1] \in Counted} = RowsOf(Counted, deletion[d].stops)
    BY DEF RowsOf, Cleared, Counted, StopTables, ExecutionTables
  <2>3. CountStands(d)'
    BY <1>1, <1>6, <2>1, <2>2 DEF Clears, SameListing, CountStands
  <2>4. RoutesCleared(d)'
    BY <1>6 DEF Clears, RoutesCleared
  <2> QED BY <2>1, <2>3, <2>4
<1>7. ASSUME Drops(d, e) \/ Renumbers(d, e) PROVE AloneOf(d)'
  <2> SUFFICES ASSUME ~e.overtaken PROVE Alone(d)' /\ CountStands(d)' /\ RoutesCleared(d)'
    BY DEF AloneOf
  <2>1. Alone(d)' /\ CountStands(d)
    BY <1>4, <1>7 DEF Drops, Renumbers
  <2>2. CountStands(d)'
    BY <1>1, <1>7, <2>1 DEF Drops, Renumbers, SameListing, CountStands
  <2>3. RoutesCleared(d)'
    BY <1>7 DEF Drops, Renumbers, RoutesCleared
  <2> QED BY <2>1, <2>2, <2>3
<1>8. ASSUME NEW t \in Tours, Lists(d, e, t) PROVE AloneOf(d)'
  <2> SUFFICES ASSUME ~e.overtaken PROVE Alone(d)' /\ CountStands(d)' /\ RoutesCleared(d)'
    BY DEF AloneOf
  <2>1. Alone(d) /\ CountStands(d)
    BY <1>8 DEF Lists, SameListing, Open, AloneOf
  <2>2. \A u \in e.emptied : StopsOnTour(u) \subseteq deletion[d].stops
    BY <1>8, <2>1 DEF Lists, Alone
  <2>3. Alone(d)'
    BY <1>1, <1>8, <2>1, <2>2 DEF Lists, SameListing, Alone, Fresh
  <2>4. CountStands(d)'
    BY <1>1, <1>8, <2>1 DEF Lists, SameListing, CountStands
  <2>5. RoutesCleared(d)'
    BY <1>8 DEF Lists, RoutesCleared
  <2> QED BY <2>3, <2>4, <2>5
<1>9. ASSUME Settles(d, e) PROVE AloneOf(d)'
  <2> SUFFICES ASSUME ~e.overtaken PROVE Alone(d)' /\ CountStands(d)' /\ RoutesCleared(d)'
    BY DEF AloneOf
  <2>1. Alone(d)' /\ CountStands(d)
    BY <1>4, <1>9 DEF Settles
  <2>2. {r \in e.gone : r[1] \in Counted} = {r \in deletion[d].gone : r[1] \in Counted}
    BY <1>9 DEF Settles, RowsOf, RouteTables, Counted
  <2>3. CountStands(d)'
    BY <1>1, <1>9, <2>1, <2>2 DEF Settles, SameListing, CountStands
  <2>4. RoutesCleared(d)'
    BY <1>1, <1>9 DEF Settles, SameListing, RoutesCleared
  <2> QED BY <2>1, <2>3, <2>4
<1>10. ASSUME \/ Clears(d, e) \/ Drops(d, e) \/ Settles(d, e) \/ Renumbers(d, e)
              \/ \E t \in Tours : Lists(d, e, t)
       PROVE  e.step \in {"cleared", "dropped", "settled"}
  BY <1>10 DEF Clears, Drops, Settles, Renumbers, Lists
<1> HIDE DEF e
<1> QED BY <1>2, <1>3, <1>5, <1>6, <1>7, <1>8, <1>9, <1>10, PrivateCases DEF e

\* What a deletion that a step does not overtake sees of it.
Unseen(d) ==
    /\ places' \cap deletion[d].points = places \cap deletion[d].points
    /\ \A s \in deletion[d].stops : There(s) => There(s)'
    /\ \A s \in StopRows : There(s)' /\ ~(s \in deletion[d].stops) =>
           \/ There(s) /\ stopRow'[s].place = stopRow[s].place /\ stopRow'[s].route = stopRow[s].route
           \/ /\ stopRow'[s].place \notin deletion[d].points
              /\ stopRow'[s].route \notin deletion[d].emptied
    /\ \A r \in attached' \ attached :
           /\ r[1] \in Cleared => r[2] \notin deletion[d].stops
           /\ r[1] \in RouteTables \cup {"NOTIFICATION"} => r[2] \notin deletion[d].emptied
           /\ deletion[d].whole => r[1] # "STRAY_SCAN"
    /\ \A r \in attached \ attached' : r[1] \in Counted => r[2] \notin deletion[d].stops

LEMMA UnseenKeepsAlone ==
    ASSUME RecordTypes, NEW d \in Deletions, d \in Open, OnlyOvertaken(deletion[d], deletion'[d]),
           Alone(d), CountStands(d), RoutesCleared(d), Unseen(d)
    PROVE  Alone(d)' /\ CountStands(d)' /\ RoutesCleared(d)'
<1>1. /\ deletion'[d].points = deletion[d].points /\ deletion'[d].stops = deletion[d].stops
      /\ deletion'[d].emptied = deletion[d].emptied /\ deletion'[d].whole = deletion[d].whole
      /\ deletion'[d].gone = deletion[d].gone /\ deletion'[d].counted = deletion[d].counted
      /\ deletion'[d].step = deletion[d].step
  BY DEF OnlyOvertaken
<1>2. Alone(d)'
  <2>1. Fresh(d)' /\ \A s \in deletion[d].stops : There(s)'
    BY <1>1 DEF Alone, Fresh, Unseen
  <2>2. \A s \in StopRows : There(s)' /\ stopRow'[s].place \in deletion[d].points => s \in deletion[d].stops
    BY DEF Alone, Unseen
  <2>3. \A t \in deletion[d].emptied : \A s \in StopRows : There(s)' /\ stopRow'[s].route = t => s \in deletion[d].stops
    BY DEF Alone, Unseen, StopsOnTour
  <2> QED BY <1>1, <2>1, <2>2, <2>3 DEF Alone, StopsOnTour
<1>3. RowsOf(Counted, deletion[d].stops)' = RowsOf(Counted, deletion[d].stops)
  <2>1. Counted \subseteq Cleared
    BY DEF Counted, Cleared, StopTables, ExecutionTables
  <2>2. \A r : r \in attached' /\ r[1] \in Counted /\ r[2] \in deletion[d].stops
               <=> r \in attached /\ r[1] \in Counted /\ r[2] \in deletion[d].stops
    BY <2>1 DEF Unseen
  <2> QED BY <1>1, <2>2 DEF RowsOf
<1>4. RowsOf(Cleared, deletion[d].stops)' \subseteq RowsOf(Cleared, deletion[d].stops)
  BY <1>1 DEF RowsOf, Unseen
<1>5. CountStands(d)'
  BY <1>1, <1>3, <1>4 DEF CountStands
<1>6. RowsOf(RouteTables \cup {"NOTIFICATION"}, deletion[d].emptied)'
          \subseteq RowsOf(RouteTables \cup {"NOTIFICATION"}, deletion[d].emptied)
  BY <1>1 DEF RowsOf, Unseen
<1>7. deletion[d].whole => RowsOf({"STRAY_SCAN"}, StopRows)' \subseteq RowsOf({"STRAY_SCAN"}, StopRows)
  BY DEF RowsOf, Unseen
<1>8. RoutesCleared(d)'
  BY <1>1, <1>6, <1>7 DEF RoutesCleared
<1> QED BY <1>2, <1>5, <1>8

LEMMA CommitIsUnseen ==
    ASSUME RecordTypes, References, KnownByPhase, StopsOfPoints, NEW c \in Deletions, Commits(c),
           NEW d \in Deletions, d # c, d \in Open, Alone(d), ~deletion'[d].overtaken
    PROVE  Unseen(d)
<1>1. deletion[d].points \cap deletion[c].points = {}
  <2>1. d \notin SharesPoint(c)
    BY CommitOfRequests
  <2> QED BY <2>1 DEF SharesPoint
<1>2. c \in Open /\ places' = places \ deletion[c].points /\ attached' = attached \ deletion[c].gone
  BY DEF Commits, CommitDeletion, Open
<1>3. \A s \in StopRows : /\ There(s)' <=> There(s) /\ s \notin deletion[c].stops
                          /\ There(s)' => stopRow'[s].place = stopRow[s].place /\ stopRow'[s].route = stopRow[s].route
  BY CommitOfStops
<1>4. deletion[d].stops \subseteq StopRows /\ deletion[d].stops \cap deletion[c].stops = {}
  <2>1. deletion[d].stops \subseteq StopRows
    BY DEF RecordTypes, RequestType
  <2>2. \A s \in deletion[d].stops : There(s) /\ stopRow[s].place \in deletion[d].points
    BY DEF Alone, StopsOfPoints
  <2>3. \A s \in deletion[c].stops : There(s) => stopRow[s].place \in deletion[c].points
    BY <1>2 DEF StopsOfPoints
  <2> QED BY <1>1, <2>1, <2>2, <2>3
<1>5. \A r \in attached \ attached' : r[1] \in Counted => r[2] \in deletion[c].stops
  BY <1>2 DEF StopsOfPoints
<1> QED BY <1>1, <1>2, <1>3, <1>4, <1>5 DEF Unseen

LEMMA OthersUnseen ==
    ASSUME RecordTypes, OtherStep, NEW d \in Open, ~deletion'[d].overtaken
    PROVE  Unseen(d)
<1>1. d \in Deletions /\ deletion[d].stops \subseteq StopRows /\ deletion[d].emptied \subseteq Tours
  BY DEF Open, RecordTypes, RequestType
<1>2. ASSUME NEW X, deletion' = Overtake(X) PROVE d \notin X
  BY <1>1, <1>2, OvertakeFacts
<1>3. ASSUME NEW t \in Tours, BeginClaim(t) PROVE Unseen(d)
  BY <1>3 DEF BeginClaim, Unseen, There
<1>4. ASSUME NEW t \in Tours, NEW p \in Places, NEW n \in StopRows, CommitClaim(t, p, n) PROVE Unseen(d)
  <2>1. d \notin TakesRoute(t) \cup {e \in Deletions : p \in deletion[e].points}
    BY <1>2, <1>4 DEF CommitClaim
  <2>2. p \notin deletion[d].points /\ t \notin deletion[d].emptied
    BY <1>1, <2>1 DEF TakesRoute
  <2>3. /\ \A r \in StopRows : r # n => stopRow'[r] = stopRow[r] /\ (There(r)' <=> There(r))
        /\ There(n)' /\ stopRow'[n].route = t /\ stopRow'[n].place = p
    BY <1>4, ClaimOfStops
  <2>4. places' = places /\ attached' = attached
    BY <1>4 DEF CommitClaim
  <2> QED BY <1>1, <2>2, <2>3, <2>4 DEF Unseen
<1>5. ASSUME NEW s \in StopRows, NEW table \in StopTables \cup ExecutionTables, AttachToStop(table, s) PROVE Unseen(d)
  <2>1. d \notin {e \in Deletions : \/ s \in deletion[e].stops
                                    \/ (table = "STRAY_SCAN" /\ deletion[e].whole)}
    BY <1>2, <1>5 DEF AttachToStop
  <2>2. s \notin deletion[d].stops /\ ~(table = "STRAY_SCAN" /\ deletion[d].whole)
    BY <1>1, <2>1
  <2>3. places' = places /\ stopRow' = stopRow /\ attached' = attached \cup {<<table, s>>}
    BY <1>5 DEF AttachToStop
  <2>4. \A r \in attached' \ attached : r[1] = table /\ r[2] = s
    BY <2>3
  <2>5. s \notin deletion[d].emptied
    BY <1>1, PointDeletionAssumption
  <2> QED BY <2>2, <2>3, <2>4, <2>5 DEF Unseen, There
<1>6. ASSUME NEW t \in Tours, NEW table \in RouteTables \cup {"NOTIFICATION"}, AttachToRoute(table, t) PROVE Unseen(d)
  <2>1. d \notin TakesRoute(t)
    BY <1>2, <1>6 DEF AttachToRoute
  <2>2. t \notin deletion[d].emptied
    BY <1>1, <2>1 DEF TakesRoute
  <2>3. places' = places /\ stopRow' = stopRow /\ attached' = attached \cup {<<table, t>>}
    BY <1>6 DEF AttachToRoute
  <2>4. \A r \in attached' \ attached : r[1] = table /\ r[2] = t
    BY <2>3
  <2>5. t \notin deletion[d].stops /\ table # "STRAY_SCAN"
    BY <1>1, PointDeletionAssumption DEF RouteTables
  <2> QED BY <2>2, <2>3, <2>4, <2>5 DEF Unseen, There
<1> QED BY <1>3, <1>4, <1>5, <1>6, PointDeletionAssumption DEF OtherStep

LEMMA UndisturbedKept ==
    ASSUME RecordTypes, References, KnownByPhase, HeldByOne, StopsOfPoints, Undisturbed, DeletionNext
    PROVE  Undisturbed'
<1> DEFINE Emptied == \A d \in Deletions : Done(d) => deletion[d].emptied \cap tours = {}
<1> SUFFICES (\A d \in Open' : AloneOf(d)') /\ Emptied' /\ \A d \in Deletions : EndOf(d)'
  BY DEF Undisturbed, UndisturbedDeletion, AloneOf, EndOf
<1>1. (\A d \in Open : AloneOf(d)) /\ Emptied /\ \A d \in Deletions : EndOf(d)
  BY UndisturbedParts
<1>2. ASSUME NEW d \in Deletions, Private(d)
      PROVE  (\A e \in Open' : AloneOf(e)') /\ Emptied' /\ \A e \in Deletions : EndOf(e)'
  <2>1. /\ UNCHANGED <<places, tours, stopRow, attached, claim>>
        /\ \A e \in Deletions : e # d => deletion'[e] = deletion[e]
    BY <1>2, PrivateWrites DEF RecordTypes
  <2>2. (d \in Open' => AloneOf(d)') /\ EndOf(d)' /\ ~Done(d)'
    BY <1>1, <1>2, PrivateKeepsAlone
  <2>3. ASSUME NEW e \in Deletions, e # d, e \in Open' PROVE AloneOf(e)'
    <3>1. e \in Open /\ deletion'[e] = deletion[e]
      BY <2>1, <2>3 DEF Open
    <3>2. AloneOf(e)
      BY <1>1, <3>1
    <3> QED BY <2>1, <3>1, <3>2 DEF AloneOf, Alone, CountStands, RoutesCleared, Fresh, There, StopsOnTour, RowsOf
  <2>4. ASSUME NEW e \in Deletions, e # d PROVE EndOf(e)' /\ (Done(e)' => deletion'[e].emptied \cap tours' = {})
    BY <1>1, <2>1, <2>4 DEF EndOf, Done, RowsOf
  <2>5. Emptied'
    BY <2>2, <2>4
  <2>6. Open' \subseteq Deletions
    BY DEF Open
  <2> QED BY <2>2, <2>3, <2>4, <2>5, <2>6
<1>3. ASSUME NEW d \in Open, AloneOf(d), OnlyOvertaken(deletion[d], deletion'[d]),
             deletion[d].overtaken => deletion'[d].overtaken,
             Alone(d) /\ ~deletion'[d].overtaken => Unseen(d)
      PROVE  AloneOf(d)'
  BY <1>3, UnseenKeepsAlone DEF AloneOf, Open
<1>4. ASSUME NEW c \in Deletions, Commits(c)
      PROVE  (\A e \in Open' : AloneOf(e)') /\ Emptied' /\ \A e \in Deletions : EndOf(e)'
  <2>1. /\ deletion'[c] = OnceCommitted(c)
        /\ \A e \in Deletions \ {c} : /\ OnlyOvertaken(deletion[e], deletion'[e])
                                      /\ deletion[e].overtaken => deletion'[e].overtaken
    BY <1>4, CommitOfRequests
  <2>2. tours' = tours \ deletion[c].emptied /\ attached' = attached \ deletion[c].gone
        /\ c \in Open /\ deletion[c].step = "settled"
    BY <1>4 DEF Commits, CommitDeletion, Open
  <2>3. /\ deletion'[c].step = "done" /\ deletion'[c].emptied = deletion[c].emptied
        /\ deletion'[c].asTold = ({r \in deletion[c].gone : r[1] \in Counted} = deletion[c].counted)
        /\ deletion'[c].overtaken = deletion[c].overtaken
    BY <2>1 DEF OnceCommitted, Idle
  <2>4. ASSUME NEW e \in Open' PROVE AloneOf(e)'
    <3>1. e # c /\ e \in Deletions /\ e \in Open
      BY <2>1, <2>3, <2>4 DEF Open, OnlyOvertaken
    <3>2. Alone(e) /\ ~deletion'[e].overtaken => Unseen(e)
      BY <1>4, <3>1, CommitIsUnseen
    <3> QED BY <1>1, <1>3, <2>1, <3>1, <3>2
  <2>5. EndOf(c)'
    <3> SUFFICES ASSUME ~deletion[c].overtaken
                 PROVE  /\ {r \in deletion[c].gone : r[1] \in Counted} = deletion[c].counted
                        /\ \A r \in attached' : r[1] = "NOTIFICATION" => r[2] \notin deletion[c].emptied
      BY <2>3 DEF EndOf, RowsOf
    <3>1. CountStands(c) /\ RoutesCleared(c)
      BY <1>1, <2>2 DEF AloneOf
    <3>2. {r \in deletion[c].gone : r[1] \in Counted} = deletion[c].counted
      BY <2>2, <3>1 DEF CountStands
    <3>3. \A r \in attached : r[1] = "NOTIFICATION" /\ r[2] \in deletion[c].emptied => r \in deletion[c].gone
      BY <2>2, <3>1 DEF RoutesCleared, RowsOf
    <3> QED BY <2>2, <3>2, <3>3
  <2>6. ASSUME NEW e \in Deletions, e # c PROVE EndOf(e)' /\ (Done(e)' => deletion'[e].emptied \cap tours' = {})
    BY <1>1, <2>1, <2>2, <2>6 DEF EndOf, Done, RowsOf, OnlyOvertaken
  <2>7. Emptied'
    BY <2>2, <2>3, <2>6
  <2> QED BY <2>4, <2>5, <2>6, <2>7
<1>5. ASSUME OtherStep
      PROVE  (\A e \in Open' : AloneOf(e)') /\ Emptied' /\ \A e \in Deletions : EndOf(e)'
  <2>1. /\ tours' = tours /\ Open' = Open
        /\ \A e \in Deletions : OnlyOvertaken(deletion[e], deletion'[e])
        /\ \A e \in Deletions : deletion[e].overtaken => deletion'[e].overtaken
    BY <1>5, OthersOvertake
  <2>2. \A e \in Open : AloneOf(e)'
    <3>1. Open \subseteq Deletions
      BY DEF Open
    <3> QED BY <1>1, <1>3, <1>5, <2>1, <3>1, OthersUnseen
  <2>3. Emptied'
    BY <1>1, <2>1 DEF OnlyOvertaken, Done
  <2>4. \A r \in attached' \ attached : r[1] = "NOTIFICATION" => r[2] \in tours
    <3>1. ASSUME NEW s, NEW table \in StopTables \cup ExecutionTables, AttachToStop(table, s)
          PROVE  \A r \in attached' \ attached : r[1] # "NOTIFICATION"
      <4>1. attached' = attached \cup {<<table, s>>}
        BY <3>1 DEF AttachToStop
      <4> QED BY <4>1 DEF StopTables, ExecutionTables
    <3>2. ASSUME NEW t, NEW table, AttachToRoute(table, t)
          PROVE  \A r \in attached' \ attached : r[2] \in tours
      BY <3>2 DEF AttachToRoute
    <3> QED BY <1>5, <3>1, <3>2 DEF OtherStep, BeginClaim, CommitClaim
  <2>5. ASSUME NEW e \in Deletions, ~deletion'[e].overtaken
        PROVE  /\ deletion'[e].step # "refused"
               /\ Done(e)' => deletion'[e].asTold /\ RowsOf({"NOTIFICATION"}, deletion[e].emptied)' = {}
    <3>1. /\ ~deletion[e].overtaken /\ deletion'[e].step = deletion[e].step
          /\ deletion'[e].emptied = deletion[e].emptied /\ deletion'[e].asTold = deletion[e].asTold
      BY <2>1, <2>5 DEF OnlyOvertaken
    <3>2. deletion[e].step # "refused" /\ (Done(e) => deletion[e].asTold /\ RowsOf({"NOTIFICATION"}, deletion[e].emptied) = {})
      BY <1>1, <3>1 DEF EndOf
    <3>3. Done(e)' => Done(e) /\ deletion[e].emptied \cap tours = {}
      BY <1>1, <3>1 DEF Done
    <3>4. ASSUME Done(e)', NEW r \in attached', r[1] = "NOTIFICATION" PROVE r[2] \notin deletion[e].emptied
      BY <2>4, <3>2, <3>3, <3>4 DEF RowsOf
    <3>5. Done(e)' => RowsOf({"NOTIFICATION"}, deletion[e].emptied)' = {}
      BY <3>1, <3>4 DEF RowsOf
    <3> QED BY <3>1, <3>2, <3>3, <3>5
  <2>6. \A e \in Deletions : EndOf(e)'
    BY <2>5 DEF EndOf
  <2> HIDE DEF Emptied
  <2> QED BY <2>1, <2>2, <2>3, <2>6
<1> HIDE DEF Emptied
<1> QED BY <1>2, <1>4, <1>5, StepCases

DeletionInv == /\ RecordTypes /\ References /\ KnownByPhase /\ HeldByOne /\ StopsOfPoints
               /\ Stable /\ Undisturbed

LEMMA InitDeletionInv == DeletionInit => DeletionInv
<1> SUFFICES ASSUME DeletionInit PROVE DeletionInv
  OBVIOUS
<1>1. /\ places = Places /\ tours = Tours /\ attached = {}
      /\ \A s \in StopRows : ~There(s)
      /\ \A t \in Tours : claim[t] = NoClaim
      /\ \A d \in Deletions : deletion[d] = Idle
  BY DEF DeletionInit, There
<1>2. RecordTypes
  BY IdleType DEF DeletionInit, RecordTypes, NoClaim
<1>3. References
  <2>1. {s \in StopRows : There(s)} = {}
    BY <1>1
  <2> QED BY <1>1, <2>1, FS_EmptySet DEF References
<1>4. Idle.step = "idle" /\ Idle.again = FALSE /\ DOMAIN Idle.numbers = {} /\ DOMAIN Idle.listed = {}
  BY NumberingsFacts DEF Idle
<1>5. KnownByPhase /\ HeldByOne
  BY <1>1, <1>4 DEF KnownByPhase, HeldByOne, HeldBy, Holds, Done, Renumbered
<1>6. Open = {} /\ \A d \in Deletions : ~Done(d) /\ deletion[d].step = "idle"
  BY <1>1, <1>4 DEF Open, Done
<1>7. StopsOfPoints
  BY <1>6 DEF StopsOfPoints
<1>8. Stable
  BY <1>1, <1>6 DEF Stable, NumbersDiffer, ClaimsComeLast, AllStand, AllRanked, SameRoute
<1>9. Undisturbed
  BY <1>6 DEF Undisturbed, UndisturbedDeletion
<1> QED BY <1>2, <1>3, <1>5, <1>7, <1>8, <1>9 DEF DeletionInv

LEMMA StepDeletionInv == DeletionInv /\ [DeletionNext]_deletionVars => DeletionInv'
<1> SUFFICES ASSUME DeletionInv, [DeletionNext]_deletionVars PROVE DeletionInv'
  OBVIOUS
<1>1. CASE DeletionNext
  <2>1. RecordTypes'
    BY <1>1, TypesKept DEF DeletionInv
  <2>2. References' /\ KnownByPhase' /\ HeldByOne' /\ StopsOfPoints'
    BY <1>1, <2>1, ReferencesKept, KnownKept, HeldKept, OfPointsKept DEF DeletionInv
  <2>3. Stable' /\ Undisturbed'
    BY <1>1, StableKept, UndisturbedKept DEF DeletionInv
  <2> QED BY <2>1, <2>2, <2>3 DEF DeletionInv
<1>2. CASE UNCHANGED deletionVars
  <2>1. RecordTypes' /\ References' /\ KnownByPhase' /\ HeldByOne' /\ StopsOfPoints'
    BY <1>2 DEF DeletionInv, deletionVars, RecordTypes, References, KnownByPhase, HeldByOne, StopsOfPoints,
       There, Holds, HeldBy, Done, Renumbered, Open, RowsOf
  <2>2. Stable'
    BY <1>2 DEF DeletionInv, deletionVars, Stable, NoneAgain, NumbersDiffer, ClaimsComeLast, AllStand, AllRanked,
       Fresh, Holds, Open, StopsStand, OnSettledRoutes, NumbersByRank, NewcomersAfter, SameRoute, Before,
       Renumbered, NewNumber, There, StopsOnTour
  <2>3. Undisturbed'
    BY <1>2 DEF DeletionInv, deletionVars, Undisturbed, UndisturbedDeletion, Open, Alone, CountStands,
       RoutesCleared, Done, Fresh, There, StopsOnTour, RowsOf
  <2> QED BY <2>1, <2>2, <2>3 DEF DeletionInv
<1> QED BY <1>1, <1>2

LEMMA DeletionInvariance == DeletionSpec => []DeletionInv
  BY InitDeletionInv, StepDeletionInv, PTL DEF DeletionSpec

\* What the foreign keys promise holds in every reachable state: a stop refers to a point and a
\* route that are there, and what hangs on either to one that is there.
THEOREM DeletionTypes == DeletionSpec => []DeletionTypeOK
<1>1. DeletionInv => DeletionTypeOK
  <2> SUFFICES ASSUME DeletionInv PROVE DeletionTypeOK
    OBVIOUS
  <2>1. RecordTypes /\ References
    BY DEF DeletionInv
  <2>2. places \subseteq Places /\ tours \subseteq Tours
    BY <2>1 DEF RecordTypes
  <2>3. \A s \in StopRows : There(s) => /\ stopRow[s].place \in places
                                       /\ stopRow[s].route \in tours
                                       /\ stopRow[s].at \in Nat \ {0}
    BY <2>1, NumbersAreNaturals DEF References
  <2>4. \A r \in attached : r[1] # "NOTIFICATION" => r[2] \in tours \/ There(r[2])
    BY <2>1 DEF References
  <2>5. \A t \in Tours : claim[t].at \in Nat
    BY <2>1 DEF RecordTypes
  <2>6. \A d \in Deletions :
          /\ deletion[d].step \in {"idle", "listed", "cleared", "dropped", "settled",
                                   "done", "refused", "aborted"}
          /\ deletion[d].points \subseteq Places /\ deletion[d].stops \subseteq StopRows
    BY <2>1 DEF RecordTypes, RequestType, Phases
  <2> QED BY <2>2, <2>3, <2>4, <2>5, <2>6 DEF DeletionTypeOK
<1> QED BY <1>1, DeletionInvariance, PTL

\* However deletions and claims interleave, renumbering leaves no two stops of a route with one
\* number, as long as no point is deleted twice.
THEOREM OrdersAreDistinct == DeletionSpec => []OrderIsDistinct
<1>1. DeletionInv => OrderIsDistinct
  BY DEF DeletionInv, Stable, NumbersDiffer, SameRoute, OrderIsDistinct
<1> QED BY <1>1, DeletionInvariance, PTL

\* A deletion that nothing overtook is not refused, and removes exactly what it announced.
THEOREM UndisturbedDeletionsSucceed == DeletionSpec => []UndisturbedDeletion
<1>1. DeletionInv => UndisturbedDeletion
  BY DEF DeletionInv, Undisturbed
<1> QED BY <1>1, DeletionInvariance, PTL

=============================================================================
