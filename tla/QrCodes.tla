------------------------------ MODULE QrCodes ------------------------------
(***************************************************************************)
(* The QR codes of one floor: issued, replaced, revoked and scanned        *)
(* (app/domain/qr, api/qr_codes, execution/service.py _verify_qr).         *)
(*                                                                         *)
(* A code is named by its version: the printed payload is a deterministic  *)
(* signature of floor and version, so the unique public_code makes the     *)
(* version unique.  A Session is a manager's request inside its            *)
(* transaction (READ COMMITTED); nothing here locks a row it reads.        *)
(***************************************************************************)
EXTENDS Naturals

CONSTANTS
    Sessions,   \* managers' requests that can be in flight together
    MaxVersion  \* bound of the model: codes issued for the floor

ASSUME MaxVersionNat == MaxVersion \in Nat \ {0}

Versions == 1..MaxVersion
QrCodeStatus == {"ACTIVE", "REVOKED", "REPLACED"}

VARIABLES
    status,     \* status[v]: the code's status, "NONE" before it is issued
    replacedBy, \* replacedBy[v]: its replaced_by_id, 0 for none
    pc,         \* pc[s]: where the request is
    previous,   \* previous[s]: the ACTIVE code an issue replaces, 0 for none
    next,       \* next[s]: the version an issue is about to insert
    loaded,     \* loaded[s]: the code a revoke loaded, with its status then
    \* history, for the properties only
    overtaken   \* overtaken[s]: another issue committed since s read the versions

codes == <<status, replacedBy>>
requests == <<pc, previous, next, loaded>>
vars == <<codes, requests, overtaken>>

NoCode == [version |-> 0, status |-> "NONE"]

Active == {v \in Versions : status[v] = "ACTIVE"}

\* The newest code the floor has had.
Newest(v) == \A w \in Versions : status[w] # "NONE" => w <= v

\* Mutant: the next version is derived from the codes still in circulation.
NextAfterLive(v) == \A w \in Versions : status[w] \in {"ACTIVE", "REPLACED"} <=> w < v
\* v follows every version the floor ever had.
NextVersion(v) == \A w \in Versions : status[w] # "NONE" <=> w < v

\* Mutant: every ACTIVE code is replaced, the one just inserted included.
ReplacesAll(s) == Active \cup {next[s]}
\* The codes an issue takes out of circulation: the one it read as ACTIVE, if any.
Replaces(s) == {previous[s]} \ {0}

\* A scan of the code is accepted: it is registered and not revoked.
Accepted(v) == status[v] \in {"ACTIVE", "REPLACED"}

-----------------------------------------------------------------------------

Init ==
    /\ status     = [v \in Versions |-> "NONE"]
    /\ replacedBy = [v \in Versions |-> 0]
    /\ pc         = [s \in Sessions |-> "idle"]
    /\ previous   = [s \in Sessions |-> 0]
    /\ next       = [s \in Sessions |-> 0]
    /\ loaded     = [s \in Sessions |-> NoCode]
    /\ overtaken  = [s \in Sessions |-> FALSE]

\* Mutant: the request's state survives its transaction.
StaysOpen(s) ==
    /\ pc' = [pc EXCEPT ![s] = "idle"]
    /\ UNCHANGED <<previous, next, loaded>>
\* The transaction is over, committed or rolled back.
EndRequest(s) ==
    /\ pc'       = [pc EXCEPT ![s] = "idle"]
    /\ previous' = [previous EXCEPT ![s] = 0]
    /\ next'     = [next EXCEPT ![s] = 0]
    /\ loaded'   = [loaded EXCEPT ![s] = NoCode]

\* A manager asks for a code: an ACTIVE code of the floor is read, whichever comes first if there
\* are several.
ReadPrevious(s) ==
    /\ pc[s] = "idle"
    /\ \E v \in Versions \cup {0} :
        /\ IF Active = {} THEN v = 0 ELSE v \in Active
        /\ previous' = [previous EXCEPT ![s] = v]
    /\ pc' = [pc EXCEPT ![s] = "issuing"]
    /\ UNCHANGED <<codes, next, loaded, overtaken>>

\* The highest version is read by a second statement.
ReadMaxVersion(s) ==
    /\ pc[s] = "issuing"
    /\ \E v \in Versions :
        /\ NextVersion(v)
        /\ next' = [next EXCEPT ![s] = v]
    /\ pc'        = [pc EXCEPT ![s] = "numbered"]
    /\ overtaken' = [overtaken EXCEPT ![s] = FALSE]
    /\ UNCHANGED <<codes, previous, loaded>>

\* The new code is inserted, unless its version exists by now, and the previous one is REPLACED
\* whatever its status became meanwhile.
CommitIssue(s) ==
    LET v == next[s] IN
    /\ pc[s] = "numbered"
    /\ status[v] = "NONE"
    /\ status' = [w \in Versions |->
                    IF w \in Replaces(s) THEN "REPLACED"
                    ELSE IF w = v THEN "ACTIVE" ELSE status[w]]
    /\ replacedBy' = [w \in Versions |-> IF w \in Replaces(s) THEN v ELSE replacedBy[w]]
    /\ EndRequest(s)
    /\ overtaken' = [r \in Sessions |-> TRUE]

\* A manager asks for the revocation of a code: it is loaded.
LoadCode(s, v) ==
    /\ pc[s] = "idle"
    /\ status[v] # "NONE"
    /\ loaded' = [loaded EXCEPT ![s] = [version |-> v, status |-> status[v]]]
    /\ pc'     = [pc EXCEPT ![s] = "revoking"]
    /\ UNCHANGED <<codes, previous, next, overtaken>>

\* It is REVOKED, unless it was when loaded: then its status column is not written.
CommitRevoke(s) ==
    /\ pc[s] = "revoking"
    /\ status' = [status EXCEPT ![loaded[s].version] =
                    IF loaded[s].status = "REVOKED" THEN @ ELSE "REVOKED"]
    /\ EndRequest(s)
    /\ UNCHANGED <<replacedBy, overtaken>>

\* The request fails: lost, or its version was taken meanwhile.
Rollback(s) ==
    /\ pc[s] # "idle"
    /\ EndRequest(s)
    /\ UNCHANGED <<codes, overtaken>>

Next ==
    \E s \in Sessions :
        \/ ReadPrevious(s) \/ ReadMaxVersion(s) \/ CommitIssue(s)
        \/ CommitRevoke(s) \/ Rollback(s)
        \/ \E v \in Versions : LoadCode(s, v)

Spec == Init /\ [][Next]_vars

-----------------------------------------------------------------------------
(* Properties *)

\* The types, and what a request knows at each of its steps.
TypeOK ==
    /\ status \in [Versions -> QrCodeStatus \cup {"NONE"}]
    /\ replacedBy \in [Versions -> Versions \cup {0}]
    /\ pc \in [Sessions -> {"idle", "issuing", "numbered", "revoking"}]
    /\ previous \in [Sessions -> Versions \cup {0}]
    /\ next \in [Sessions -> Versions \cup {0}]
    /\ loaded \in [Sessions -> [version : Versions, status : QrCodeStatus] \cup {NoCode}]
    /\ overtaken \in [Sessions -> BOOLEAN]
    /\ \A s \in Sessions :
        /\ pc[s] = "numbered" <=> next[s] # 0
        /\ pc[s] = "revoking" <=> loaded[s] # NoCode

\* The newest code is in force or was revoked, never replaced, however issues and revocations
\* overlap: what replaces a code is always newer (qr/service.py, issue_qr_code).
NewestIsNotReplaced ==
    \A v \in Versions :
        /\ status[v] = "REPLACED" => replacedBy[v] > v /\ status[replacedBy[v]] # "NONE"
        /\ Newest(v) => status[v] # "REPLACED"

\* An issue that no other issue overtook finds its version unused, so a floor whose codes were
\* all revoked can always be given a new one (qr/service.py, "permanently bricking reissue").
UndisturbedIssueSucceeds ==
    \A s \in Sessions : pc[s] = "numbered" /\ ~overtaken[s] => status[next[s]] = "NONE"

\* "A floor has at most one ACTIVE QrCode at any time" (qr/service.py:29).
AtMostOneActive == \A v, w \in Active : v = w

\* "Check-in against this floor fails until a new code is issued" (qr/service.py:71): with its
\* newest code revoked, the floor accepts no scan.
RevokedFloorAcceptsNothing ==
    \A v \in Versions : Newest(v) /\ status[v] = "REVOKED" => \A w \in Versions : ~Accepted(w)
=============================================================================
