------------------------------- MODULE Accounts -------------------------------
(***************************************************************************)
(* Accounts, worker profiles and their review (api/field_workers.py,       *)
(* api/users.py, identity/registration.py, privacy/service.py, audit).     *)
(*                                                                         *)
(* A worker signs up; managers approve, reject and switch them off and on, *)
(* each in a request that loads the profile without a lock, judges it, and *)
(* writes back only the columns it changed, with an entry of the audit     *)
(* trail in the same transaction.                                          *)
(***************************************************************************)
EXTENDS Naturals, Sequences

CONSTANTS
    Users,
    Emails,
    Reviewers,
    Roles,       \* the UserRoles that occur
    MaxNotices,  \* bound: privacy notices published by migrations
    MaxTrail     \* bound: entries of the trail about worker profiles

ASSUME AccountsAssumption ==
    /\ MaxNotices \in Nat \ {0} /\ MaxTrail \in Nat
    /\ "FIELD_WORKER" \in Roles /\ Roles \subseteq {"FIELD_WORKER", "MANAGER", "ADMIN"}

VARIABLES
    account,  \* User rows: e-mail, role and is_active
    profile,  \* FieldWorker rows: status, is_active and rejection_reason
    notice,   \* the version of the current PrivacyNotice
    consents, \* ConsentRecord rows: who accepted which version
    trail,    \* the audit entries of field_worker, in the order they were committed
    signup,   \* the e-mail of each sign-up that has passed its checks
    review    \* the request each manager has open, with the profile it loaded

accountVars == <<account, profile, notice, consents, trail, signup, review>>

NoAccount == [role |-> "NONE"]
NoProfile == [status |-> "NONE", active |-> FALSE, reason |-> FALSE]
NoEmail   == "NONE"
NoReview  == [action |-> "NONE"]

NewProfile == [status |-> "PENDING_APPROVAL", active |-> TRUE, reason |-> FALSE]

\* The unique index over users.email.
Taken(email) == \E u \in Users : account[u] # NoAccount /\ account[u].email = email

AccountsInit ==
    /\ account = [u \in Users |-> NoAccount] /\ profile = [u \in Users |-> NoProfile]
    /\ notice = 1 /\ consents = {} /\ trail = <<>>
    /\ signup = [u \in Users |-> NoEmail] /\ review = [m \in Reviewers |-> NoReview]

-----------------------------------------------------------------------------
(* Accounts *)

\* A sign-up is checked: the notice shown is the current one and the e-mail is free.
BeginSignUp(u, email, shown) ==
    /\ account[u] = NoAccount /\ signup[u] = NoEmail
    /\ shown = notice /\ ~Taken(email)
    /\ signup' = [signup EXCEPT ![u] = email]
    /\ UNCHANGED <<account, profile, notice, consents, trail, review>>

\* The account, the profile, the consent to what is the current notice by now and the audit entry
\* are one transaction, refused by the unique index if the e-mail was taken meanwhile.
CommitSignUp(u) ==
    /\ signup[u] # NoEmail /\ Len(trail) < MaxTrail
    /\ signup' = [signup EXCEPT ![u] = NoEmail]
    /\ IF Taken(signup[u]) THEN UNCHANGED <<account, profile, consents, trail>>
       ELSE /\ account' = [account EXCEPT ![u] =
                   [email |-> signup[u], role |-> "FIELD_WORKER", active |-> TRUE]]
            /\ profile' = [profile EXCEPT ![u] = NewProfile]
            /\ consents' = consents \cup {<<u, notice>>}
            /\ trail' = Append(trail, [user |-> u, action |-> "register",
                                       before |-> NoProfile, after |-> NewProfile])
    /\ UNCHANGED <<notice, review>>

\* An administrator invites somebody, who sets a password by the link they are sent.
Invite(u, email, role) ==
    /\ account[u] = NoAccount /\ signup[u] = NoEmail /\ ~Taken(email)
    /\ account' = [account EXCEPT ![u] = [email |-> email, role |-> role, active |-> TRUE]]
    /\ UNCHANGED <<profile, notice, consents, trail, signup, review>>

\* An administrator changes a user's role, or e-mail to a free one, or switches them off or on.
EditUser(u, email, role) ==
    /\ account[u] # NoAccount
    /\ email = account[u].email \/ ~Taken(email)
    /\ account' = [account EXCEPT ![u].email = email, ![u].role = role]
    /\ UNCHANGED <<profile, notice, consents, trail, signup, review>>

SetActive(u, active) ==
    /\ account[u] # NoAccount
    /\ account' = [account EXCEPT ![u].active = active]
    /\ UNCHANGED <<profile, notice, consents, trail, signup, review>>

\* A migration publishes a notice, which becomes the only current one.
PublishNotice ==
    /\ notice < MaxNotices
    /\ notice' = notice + 1
    /\ UNCHANGED <<account, profile, consents, trail, signup, review>>

\* An active user accepts what is the current notice by now, once or again.
AcceptConsent(u) ==
    /\ account[u] # NoAccount /\ account[u].active
    /\ consents' = consents \cup {<<u, notice>>}
    /\ UNCHANGED <<account, profile, notice, trail, signup, review>>

-----------------------------------------------------------------------------
(* The gates *)

\* get_approved_worker: who may act in the field.
ApprovedWorker(u) ==
    /\ account[u] # NoAccount /\ account[u].active /\ account[u].role = "FIELD_WORKER"
    /\ profile[u].status = "APPROVED" /\ profile[u].active

\* has_consented, and ensure_location_consent: whose positions are taken.
Consented(u)     == <<u, notice>> \in consents
TakesLocation(u) == ApprovedWorker(u) /\ Consented(u)

\* _worker_standing: how a field worker's profile is; nothing for anybody else.
Standing(u) == IF account[u].role = "FIELD_WORKER" THEN profile[u] ELSE NoProfile

\* What login and refresh tell the app; a user who is switched off is not let in.
Told(u) == IF account[u] # NoAccount /\ account[u].active
           THEN [standing |-> Standing(u), consentRequired |-> ~Consented(u)]
           ELSE [standing |-> NoProfile, consentRequired |-> TRUE]

-----------------------------------------------------------------------------
(* Reviews *)

\* Mutant: an approved worker can be approved again, which changes no column.
AllowedAgain(action) == IF action = "reject" THEN {"PENDING_APPROVAL"}
                        ELSE {"PENDING_APPROVAL", "REJECTED", "APPROVED"}
\* _require_status: the statuses an action is allowed in.
Allowed(action) == CASE action = "approve" -> {"PENDING_APPROVAL", "REJECTED"}
                     [] action = "reject"  -> {"PENDING_APPROVAL"}
                     [] action \in {"deactivate", "reactivate"} -> {"APPROVED"}

\* The profile as the request leaves it.  Only a rejection has a reason.
Decided(copy, action, reason) ==
    CASE action = "approve"    -> [copy EXCEPT !.status = "APPROVED", !.reason = FALSE]
      [] action = "reject"     -> [copy EXCEPT !.status = "REJECTED", !.reason = reason]
      [] action = "deactivate" -> [copy EXCEPT !.active = FALSE]
      [] action = "reactivate" -> [copy EXCEPT !.active = TRUE]

\* What is written over a row: the columns in which the decision differs from the copy.
Written(row, copy, decided) ==
    [column \in DOMAIN row |-> IF decided[column] = copy[column] THEN row[column]
                                                                 ELSE decided[column]]

OpenReview(m, u, action, reason) ==
    /\ review[m] = NoReview
    /\ profile[u].status \in Allowed(action)
    /\ reason => action = "reject"
    /\ review' = [review EXCEPT ![m] =
                     [action |-> action, user |-> u, copy |-> profile[u], reason |-> reason]]
    /\ UNCHANGED <<account, profile, notice, consents, trail, signup>>

\* Mutant: the on/off switch is not audited.
OnlyVerdicts(action) == action \in {"approve", "reject"}
\* Every change of a profile is audited.
Audited(action) == action # "NONE"

CommitReview(m) ==
    LET r       == review[m]
        decided == Decided(r.copy, r.action, r.reason) IN
    /\ r # NoReview /\ Len(trail) < MaxTrail
    /\ profile' = [profile EXCEPT ![r.user] = Written(@, r.copy, decided)]
    /\ trail' = IF Audited(r.action)
                THEN Append(trail, [user |-> r.user, action |-> r.action,
                                    before |-> r.copy, after |-> decided])
                ELSE trail
    /\ review' = [review EXCEPT ![m] = NoReview]
    /\ UNCHANGED <<account, notice, consents, signup>>

-----------------------------------------------------------------------------

AccountsNext ==
    \/ \E u \in Users, email \in Emails, shown \in 1..MaxNotices : BeginSignUp(u, email, shown)
    \/ \E u \in Users : CommitSignUp(u) \/ AcceptConsent(u)
    \/ \E u \in Users, email \in Emails, role \in Roles : Invite(u, email, role) \/ EditUser(u, email, role)
    \/ \E u \in Users, active \in BOOLEAN : SetActive(u, active)
    \/ PublishNotice
    \/ \E m \in Reviewers, u \in Users, reason \in BOOLEAN,
          action \in {"approve", "reject", "deactivate", "reactivate"} : OpenReview(m, u, action, reason)
    \/ \E m \in Reviewers : CommitReview(m)

AccountsSpec == AccountsInit /\ [][AccountsNext]_accountVars

-----------------------------------------------------------------------------
(* Properties *)

Profile == [status : {"PENDING_APPROVAL", "APPROVED", "REJECTED"}, active : BOOLEAN, reason : BOOLEAN]
Actions == {"approve", "reject", "deactivate", "reactivate"}

\* Every variable keeps its type, and no two accounts have one e-mail.
AccountsTypeOK ==
    /\ account \in [Users -> {NoAccount} \cup [email : Emails, role : Roles, active : BOOLEAN]]
    /\ profile \in [Users -> {NoProfile} \cup Profile]
    /\ notice \in 1..MaxNotices /\ consents \subseteq Users \X (1..MaxNotices)
    /\ trail \in Seq([user : Users, action : {"register"} \cup Actions,
                      before : {NoProfile} \cup Profile, after : Profile])
    /\ signup \in [Users -> {NoEmail} \cup Emails]
    /\ review \in [Reviewers -> {NoReview} \cup
                      [action : Actions, user : Users, copy : Profile, reason : BOOLEAN]]
    /\ \A u, v \in Users : account[u] # NoAccount /\ account[v] # NoAccount =>
          (account[u].email = account[v].email <=> u = v)

\* The entries of the trail about a worker, by their places in it; and those of a verdict.
EntriesOf(u)  == {i \in 1..Len(trail) : trail[i].user = u}
VerdictsOn(u) == {i \in EntriesOf(u) : trail[i].action \in {"approve", "reject"}}

\* i is the latest of these entries.
Latest(i, entries) == i \in entries /\ \A j \in entries : j <= i

\* A profile's status is the verdict of the last review the trail has of it, however the requests
\* of several managers overlapped; so whoever may act in the field was approved, and not rejected
\* since (_require_status of approve and reject, on an unlocked copy).  And the app, which is told
\* the standing and the missing consent at login and refresh, lets work exactly who the server
\* takes positions from: the two ends decide it each on their own (WorkerStanding).
LastReviewStands ==
    \A u \in Users :
        /\ profile[u] # NoProfile /\ VerdictsOn(u) = {} => profile[u].status = "PENDING_APPROVAL"
        /\ \A i \in VerdictsOn(u) :
              Latest(i, VerdictsOn(u)) => profile[u].status = trail[i].after.status
        /\ ApprovedWorker(u) =>
              \E i \in VerdictsOn(u) : Latest(i, VerdictsOn(u)) /\ trail[i].action = "approve"
        /\ TakesLocation(u) <=> /\ Told(u).standing.status = "APPROVED" /\ Told(u).standing.active
                                /\ ~Told(u).consentRequired

\* Each entry starts from what the entry before it left: no two requests overlapped.
Chained(entries) ==
    \A i, j \in entries :
        i < j /\ ~(\E k \in entries : i < k /\ k < j) => trail[j].before = trail[i].after

\* While the trail of a worker is a chain, the profile is what its last entry says, rejection
\* reason and on/off switch included.  Where requests did overlap the two may differ (the columns
\* that did not change are not written), and the trail shows it (_audited_change).
TrailExplainsProfile ==
    \A u \in Users :
        /\ profile[u] = NoProfile <=> EntriesOf(u) = {}
        /\ Chained(EntriesOf(u)) =>
              \A i \in EntriesOf(u) : Latest(i, EntriesOf(u)) => profile[u] = trail[i].after

=============================================================================
