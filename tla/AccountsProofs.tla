--------------------------- MODULE AccountsProofs ---------------------------
(***************************************************************************)
(* Theorems about Accounts, for any number of users, e-mails, reviewers,   *)
(* notices and audit entries.                                              *)
(*                                                                         *)
(* The argument: a verdict always changes the status, since the copy it    *)
(* was judged on had another one, so what the row holds is what the last   *)
(* verdict said, whatever was committed since that copy was read.  And     *)
(* when an entry starts from what the entry before it left, the copy was   *)
(* the row, so that what was written is what the entry says.               *)
(***************************************************************************)
EXTENDS Accounts, TLAPS

Verdicts == {"approve", "reject"}
Entry == [user : Users, action : {"register"} \cup Actions,
          before : {NoProfile} \cup Profile, after : Profile]

\* Only an account has a profile, and nobody signs up twice.
OneSignUp ==
    /\ \A u \in Users : signup[u] # NoEmail => account[u] = NoAccount
    /\ \A u \in Users : account[u] = NoAccount => profile[u] = NoProfile
    /\ \A u \in Users : profile[u] = NoProfile <=> EntriesOf(u) = {}

\* An open request is about a profile, and was allowed in the status it read.
ReviewAllowed ==
    \A m \in Reviewers : review[m] # NoReview =>
        /\ review[m].copy.status \in Allowed(review[m].action)
        /\ profile[review[m].user] # NoProfile

\* The trail of a worker has a latest entry.
TrailHasLatest == \A u \in Users : EntriesOf(u) # {} => \E i \in EntriesOf(u) : Latest(i, EntriesOf(u))

\* The status is that of the latest verdict.
StatusIsVerdict ==
    \A u \in Users :
        /\ profile[u] # NoProfile /\ VerdictsOn(u) = {} => profile[u].status = "PENDING_APPROVAL"
        /\ \A i \in VerdictsOn(u) :
              Latest(i, VerdictsOn(u)) => profile[u].status = trail[i].after.status
        /\ profile[u].status = "APPROVED" =>
              \E i \in VerdictsOn(u) : Latest(i, VerdictsOn(u)) /\ trail[i].action = "approve"

ReviewInv ==
    /\ AccountsTypeOK
    /\ OneSignUp
    /\ ReviewAllowed
    /\ TrailHasLatest
    /\ StatusIsVerdict
    /\ TrailExplainsProfile

-----------------------------------------------------------------------------
(* A step of the trail *)

LEMMA TrailIsSeq == AccountsTypeOK => trail \in Seq(Entry) /\ Len(trail) \in Nat
  BY DEF AccountsTypeOK, Entry

LEMMA EntriesAreEntries ==
  ASSUME AccountsTypeOK, NEW u \in Users, NEW i \in EntriesOf(u)
  PROVE  i \in 1..Len(trail) /\ i \in Nat /\ trail[i] \in Entry
  BY TrailIsSeq, SMT DEF EntriesOf

\* An entry that is appended is the latest of its worker's, and nobody else's.
LEMMA AppendedEntry ==
  ASSUME AccountsTypeOK, NEW e \in Entry, trail' = Append(trail, e), NEW u \in Users
  PROVE  /\ \A i \in EntriesOf(u) : i \in Nat /\ i < Len(trail) + 1 /\ trail'[i] = trail[i]
         /\ trail'[Len(trail) + 1] = e
         /\ (EntriesOf(u))' = EntriesOf(u) \cup (IF e.user = u THEN {Len(trail) + 1} ELSE {})
         /\ (VerdictsOn(u))' = VerdictsOn(u) \cup
                (IF e.user = u /\ e.action \in Verdicts THEN {Len(trail) + 1} ELSE {})
<1> DEFINE n == Len(trail) + 1
<1>1. n \in Nat /\ n >= 1 /\ Len(trail') = n /\ trail'[n] = e
  BY TrailIsSeq, SMT
<1>2. \A i \in 1..Len(trail) : i \in 1..n /\ i < n /\ i # n /\ i \in Nat /\ trail'[i] = trail[i]
  BY TrailIsSeq, SMT
<1>3. \A i \in 1..n : i = n \/ i \in 1..Len(trail)
  BY TrailIsSeq, SMT
<1>4. (EntriesOf(u))' = {i \in 1..n : trail'[i].user = u}
  BY <1>1 DEF EntriesOf
<1> HIDE DEF n
<1>5. n \in 1..n
  BY <1>1, SMT
<1>6. (EntriesOf(u))' = EntriesOf(u) \cup (IF e.user = u THEN {n} ELSE {})
  BY <1>1, <1>2, <1>3, <1>4, <1>5 DEF EntriesOf
<1>7. (VerdictsOn(u))' = VerdictsOn(u) \cup (IF e.user = u /\ e.action \in Verdicts THEN {n} ELSE {})
  <2>1. (VerdictsOn(u))' = {i \in (EntriesOf(u))' : trail'[i].action \in Verdicts}
    BY DEF VerdictsOn, Verdicts
  <2>2. VerdictsOn(u) = {i \in EntriesOf(u) : trail[i].action \in Verdicts}
    BY DEF VerdictsOn, Verdicts
  <2>3. \A i \in EntriesOf(u) : trail'[i] = trail[i]
    BY <1>2 DEF EntriesOf
  <2> QED  BY <1>1, <1>6, <2>1, <2>2, <2>3
<1>8. \A i \in EntriesOf(u) : i \in Nat /\ i < n /\ trail'[i] = trail[i]
  BY <1>2 DEF EntriesOf
<1> QED  BY <1>1, <1>6, <1>7, <1>8 DEF n

-----------------------------------------------------------------------------
(* Accounts *)

AnAccount == [email : Emails, role : Roles, active : BOOLEAN]

LEMMA RowsAreThere ==
  /\ \A row \in AnAccount : row # NoAccount
  /\ \A row \in Profile : row # NoProfile /\ row.status # "NONE"
  /\ NewProfile \in Profile /\ NewProfile.status = "PENDING_APPROVAL" /\ NoProfile.status = "NONE"
<1>1. ASSUME NEW row \in AnAccount PROVE row # NoAccount
  <2>1. row.role \in Roles /\ row.role # "NONE"
    BY AccountsAssumption DEF AnAccount
  <2> QED  BY <2>1 DEF NoAccount
<1>2. ASSUME NEW row \in Profile PROVE row # NoProfile /\ row.status # "NONE"
  BY DEF Profile, NoProfile
<1>3. NewProfile \in Profile /\ NewProfile.status = "PENDING_APPROVAL" /\ NoProfile.status = "NONE"
  BY DEF NewProfile, Profile, NoProfile
<1> QED  BY <1>1, <1>2, <1>3

EmailsApart ==
    \A u, v \in Users : account[u] # NoAccount /\ account[v] # NoAccount =>
        (account[u].email = account[v].email <=> u = v)

\* The row that a user gets, with an e-mail that is free or their own, keeps the accounts apart.
LEMMA AccountWritten ==
  ASSUME AccountsTypeOK, NEW u \in Users, NEW row \in AnAccount,
         account' = [account EXCEPT ![u] = row],
         ~Taken(row.email) \/ (account[u] # NoAccount /\ row.email = account[u].email)
  PROVE  /\ account' \in [Users -> {NoAccount} \cup AnAccount]
         /\ EmailsApart'
         /\ \A v \in Users : account'[v] = NoAccount => account[v] = NoAccount /\ v # u
<1>1. \A v \in Users : account'[v] = IF v = u THEN row ELSE account[v]
  BY DEF AccountsTypeOK
<1>2. row # NoAccount
  BY RowsAreThere
<1>3. \A v \in Users : v # u /\ account[v] # NoAccount => account[v].email # row.email
  BY DEF Taken, AccountsTypeOK
<1>4. EmailsApart'
  BY <1>1, <1>2, <1>3 DEF EmailsApart, AccountsTypeOK
<1>5. account' \in [Users -> {NoAccount} \cup AnAccount]
  BY DEF AccountsTypeOK, AnAccount
<1> QED  BY <1>1, <1>2, <1>4, <1>5

LEMMA SwitchedAccount ==
  ASSUME AccountsTypeOK, NEW u \in Users, account[u] # NoAccount, NEW active \in BOOLEAN
  PROVE  /\ [account[u] EXCEPT !.active = active] \in AnAccount
         /\ [account[u] EXCEPT !.active = active].email = account[u].email
         /\ [account EXCEPT ![u].active = active] =
                [account EXCEPT ![u] = [account[u] EXCEPT !.active = active]]
<1>1. account[u] \in AnAccount
  BY DEF AccountsTypeOK, AnAccount
<1>2. /\ [account[u] EXCEPT !.active = active] \in AnAccount
      /\ [account[u] EXCEPT !.active = active].email = account[u].email
  BY <1>1 DEF AnAccount
<1> QED  BY <1>2

-----------------------------------------------------------------------------
(* Reviews *)

\* A decision is a profile; a verdict changes the status to what it says, a switch leaves it.
LEMMA DecisionChangesStatus ==
  ASSUME NEW copy \in Profile, NEW action \in Actions, NEW reason \in BOOLEAN,
         copy.status \in Allowed(action)
  PROVE  LET decided == Decided(copy, action, reason) IN
         /\ decided \in Profile
         /\ action \in Verdicts => decided.status # copy.status
         /\ action \notin Verdicts => decided.status = copy.status
         /\ decided.status = "APPROVED" <=> action # "reject"
<1>1. CASE action = "approve"
  BY <1>1 DEF Decided, Allowed, Profile, Verdicts
<1>2. CASE action = "reject"
  BY <1>2 DEF Decided, Allowed, Profile, Verdicts
<1>3. CASE action = "deactivate"
  BY <1>3 DEF Decided, Allowed, Profile, Verdicts
<1>4. CASE action = "reactivate"
  BY <1>4 DEF Decided, Allowed, Profile, Verdicts
<1> QED  BY <1>1, <1>2, <1>3, <1>4 DEF Actions

\* A decision is written over the row column by column; over an unchanged row it is the row.
LEMMA DecisionWritten ==
  ASSUME NEW row \in Profile, NEW copy \in Profile, NEW decided \in Profile
  PROVE  /\ Written(row, copy, decided) \in Profile
         /\ Written(row, copy, decided).status =
                IF decided.status = copy.status THEN row.status ELSE decided.status
         /\ row = copy => Written(row, copy, decided) = decided
<1>1. /\ DOMAIN row = {"status", "active", "reason"} /\ DOMAIN decided = {"status", "active", "reason"}
      /\ row = [status |-> row.status, active |-> row.active, reason |-> row.reason]
      /\ decided = [status |-> decided.status, active |-> decided.active, reason |-> decided.reason]
  BY DEF Profile
<1>2. Written(row, copy, decided) =
        [status |-> IF decided.status = copy.status THEN row.status ELSE decided.status,
         active |-> IF decided.active = copy.active THEN row.active ELSE decided.active,
         reason |-> IF decided.reason = copy.reason THEN row.reason ELSE decided.reason]
  BY <1>1 DEF Written
<1>3. /\ {row.status, decided.status} \subseteq {"PENDING_APPROVAL", "APPROVED", "REJECTED"}
      /\ {row.active, decided.active, row.reason, decided.reason} \subseteq BOOLEAN
  BY DEF Profile
<1>4. Written(row, copy, decided) \in Profile
  <2> DEFINE status == IF decided.status = copy.status THEN row.status ELSE decided.status
             active == IF decided.active = copy.active THEN row.active ELSE decided.active
             reason == IF decided.reason = copy.reason THEN row.reason ELSE decided.reason
  <2>1. status \in {"PENDING_APPROVAL", "APPROVED", "REJECTED"}
    BY <1>3, Zenon
  <2>2. active \in BOOLEAN /\ reason \in BOOLEAN
    BY <1>3, Zenon
  <2>3. Written(row, copy, decided) = [status |-> status, active |-> active, reason |-> reason]
    BY <1>2
  <2> HIDE DEF status, active, reason
  <2>4. [status |-> status, active |-> active, reason |-> reason] \in Profile
    BY <2>1, <2>2, Zenon DEF Profile
  <2> QED  BY <2>3, <2>4
<1>5. row = copy => Written(row, copy, decided) = decided
  BY <1>1, <1>2
<1> QED  BY <1>2, <1>4, <1>5

\* What a committed request leaves of the worker's row.
LEMMA ReviewCommitted ==
  ASSUME ReviewInv, NEW m \in Reviewers, CommitReview(m)
  PROVE  LET r       == review[m]
             decided == Decided(r.copy, r.action, r.reason)
             e       == [user |-> r.user, action |-> r.action, before |-> r.copy, after |-> decided] IN
         /\ r.user \in Users /\ r.action \in Actions /\ e \in Entry
         /\ trail' = Append(trail, e)
         /\ profile' \in [Users -> {NoProfile} \cup Profile]
         /\ \A u \in Users : u # r.user => profile'[u] = profile[u]
         /\ profile[r.user] # NoProfile /\ profile'[r.user] # NoProfile
         /\ profile'[r.user].status =
                IF r.action \in Verdicts THEN decided.status ELSE profile[r.user].status
         /\ profile[r.user] = r.copy => profile'[r.user] = decided
         /\ decided.status = "APPROVED" <=> r.action # "reject"
<1> DEFINE r       == review[m]
           decided == Decided(r.copy, r.action, r.reason)
           e       == [user |-> r.user, action |-> r.action, before |-> r.copy, after |-> decided]
<1>1. /\ r # NoReview /\ r.action \in Actions /\ r.user \in Users /\ r.copy \in Profile /\ r.reason \in BOOLEAN
      /\ r.copy.status \in Allowed(r.action) /\ profile[r.user] # NoProfile
      /\ profile \in [Users -> {NoProfile} \cup Profile]
  BY DEF CommitReview, ReviewInv, AccountsTypeOK, ReviewAllowed
<1>2. profile[r.user] \in Profile
  BY <1>1
<1>3. /\ profile' = [profile EXCEPT ![r.user] = Written(profile[r.user], r.copy, decided)]
      /\ Audited(r.action) => trail' = Append(trail, e)
  BY DEF CommitReview
<1>4. Audited(r.action)
  BY <1>1 DEF Audited, Actions
<1> HIDE DEF r
<1>5. /\ decided \in Profile
      /\ r.action \in Verdicts => decided.status # r.copy.status
      /\ r.action \notin Verdicts => decided.status = r.copy.status
      /\ decided.status = "APPROVED" <=> r.action # "reject"
  BY <1>1, DecisionChangesStatus
<1>6. e \in Entry
  BY <1>1, <1>5 DEF Entry
<1> HIDE DEF decided
<1> DEFINE written == Written(profile[r.user], r.copy, decided)
<1>7. /\ written \in Profile
      /\ written.status = IF decided.status = r.copy.status THEN profile[r.user].status ELSE decided.status
      /\ profile[r.user] = r.copy => written = decided
  BY <1>1, <1>2, <1>5, DecisionWritten
<1> HIDE DEF written
<1>8. /\ profile'[r.user] = written /\ \A u \in Users : u # r.user => profile'[u] = profile[u]
      /\ profile' \in [Users -> {NoProfile} \cup Profile]
  BY <1>1, <1>3, <1>7 DEF written
<1>9. written # NoProfile
  BY <1>7, RowsAreThere
<1> QED  BY <1>1, <1>3, <1>4, <1>5, <1>6, <1>7, <1>8, <1>9 DEF r, decided, e

-----------------------------------------------------------------------------
(* The steps *)

LEMMA InitReviewInv == AccountsInit => ReviewInv
<1> SUFFICES ASSUME AccountsInit PROVE ReviewInv
  OBVIOUS
<1>1. \A u \in Users : EntriesOf(u) = {} /\ VerdictsOn(u) = {}
  <2>1. Len(trail) = 0 /\ 1..Len(trail) = {}
    BY SMT DEF AccountsInit
  <2> QED  BY <2>1 DEF EntriesOf, VerdictsOn
<1>2. AccountsTypeOK
  BY AccountsAssumption, SMT DEF AccountsInit, AccountsTypeOK
<1>3. \A u \in Users : profile[u] = NoProfile /\ profile[u].status # "APPROVED" /\ signup[u] = NoEmail
  BY RowsAreThere DEF AccountsInit
<1>4. OneSignUp /\ ReviewAllowed /\ TrailHasLatest /\ StatusIsVerdict /\ TrailExplainsProfile
  BY <1>1, <1>3
  DEF AccountsInit, OneSignUp, ReviewAllowed, TrailHasLatest, StatusIsVerdict, TrailExplainsProfile
<1> QED  BY <1>2, <1>4 DEF ReviewInv

\* What the trail says of the profiles does not depend on anything else.
LEMMA TrailUntouched ==
  ASSUME ReviewInv, UNCHANGED <<profile, trail>>
  PROVE  /\ TrailHasLatest' /\ StatusIsVerdict' /\ TrailExplainsProfile'
         /\ \A u \in Users : (profile[u] = NoProfile <=> EntriesOf(u) = {})'
<1>1. \A u \in Users : (EntriesOf(u))' = EntriesOf(u) /\ (VerdictsOn(u))' = VerdictsOn(u)
  BY DEF EntriesOf, VerdictsOn
<1>2. TrailHasLatest'
  BY DEF ReviewInv, TrailHasLatest, Latest, EntriesOf
<1>3. StatusIsVerdict'
  BY DEF ReviewInv, StatusIsVerdict, Latest, VerdictsOn, EntriesOf
<1>4. TrailExplainsProfile'
  BY DEF ReviewInv, TrailExplainsProfile, Latest, EntriesOf, Chained
<1>5. \A u \in Users : (profile[u] = NoProfile <=> EntriesOf(u) = {})'
  BY DEF ReviewInv, OneSignUp, EntriesOf
<1> QED  BY <1>2, <1>3, <1>4, <1>5

\* Opening a request, a sign-up that is checked or refused, a notice, a consent, an account that
\* is invited, edited or switched: none touches a profile.
LEMMA QuietStep ==
  ASSUME ReviewInv, AccountsTypeOK', UNCHANGED <<profile, trail>>,
         \A u \in Users : signup'[u] # NoEmail => account'[u] = NoAccount,
         \A u \in Users : account'[u] = NoAccount => account[u] = NoAccount,
         ReviewAllowed'
  PROVE  ReviewInv'
<1>1. OneSignUp'
  BY TrailUntouched DEF ReviewInv, OneSignUp
<1> QED  BY <1>1, TrailUntouched DEF ReviewInv

\* A trail that grows by an entry about u whose row was written: what there is to show.
LEMMA EntryAdded ==
  ASSUME ReviewInv, NEW u \in Users, NEW e \in Entry, e.user = u, trail' = Append(trail, e),
         profile'[u] # NoProfile, \A v \in Users : v # u => profile'[v] = profile[v],
         e.action \in Verdicts =>
             /\ profile'[u].status = e.after.status
             /\ e.after.status = "APPROVED" <=> e.action = "approve",
         e.action \notin Verdicts =>
             profile'[u].status = IF profile[u] = NoProfile THEN "PENDING_APPROVAL" ELSE profile[u].status,
         profile[u] = NoProfile \/ profile[u] = e.before => profile'[u] = e.after
  PROVE  /\ TrailHasLatest' /\ StatusIsVerdict' /\ TrailExplainsProfile'
         /\ \A v \in Users : (profile[v] = NoProfile <=> EntriesOf(v) = {})'
<1> DEFINE n == Len(trail) + 1
<1>0. n \in Nat
  BY TrailIsSeq, SMT DEF ReviewInv
<1>1. \A v \in Users :
        /\ \A i \in EntriesOf(v) : i \in Nat /\ i < n /\ trail'[i] = trail[i]
        /\ (EntriesOf(v))' = EntriesOf(v) \cup (IF v = u THEN {n} ELSE {})
        /\ (VerdictsOn(v))' = VerdictsOn(v) \cup (IF v = u /\ e.action \in Verdicts THEN {n} ELSE {})
        /\ trail'[n] = e
  BY AppendedEntry DEF ReviewInv
<1>2. \A v \in Users : VerdictsOn(v) \subseteq EntriesOf(v)
  BY DEF VerdictsOn
<1> HIDE DEF n
<1>3. \A i \in EntriesOf(u) : i <= n /\ ~(n <= i) /\ i # n
  BY <1>0, <1>1, SMT
<1>4. TrailHasLatest'
  <2> SUFFICES ASSUME NEW v \in Users, (EntriesOf(v))' # {}
               PROVE  \E i \in (EntriesOf(v))' : i \in (EntriesOf(v))' /\ \A j \in (EntriesOf(v))' : j <= i
    BY DEF TrailHasLatest, Latest
  <2>1. CASE v = u
    <3>1. n \in (EntriesOf(u))' /\ \A j \in (EntriesOf(u))' : j <= n
      BY <1>0, <1>1, <1>3, SMT
    <3> QED  BY <2>1, <3>1
  <2>2. CASE v # u
    BY <1>1, <2>2 DEF ReviewInv, TrailHasLatest, Latest
  <2> QED  BY <2>1, <2>2
<1>5. \A v \in Users : (profile[v] = NoProfile <=> EntriesOf(v) = {})'
  BY <1>1 DEF ReviewInv, OneSignUp
<1>6. StatusIsVerdict'
  <2> SUFFICES ASSUME NEW v \in Users
               PROVE  /\ profile'[v] # NoProfile /\ (VerdictsOn(v))' = {} => profile'[v].status = "PENDING_APPROVAL"
                      /\ \A i \in (VerdictsOn(v))' : (\A j \in (VerdictsOn(v))' : j <= i) =>
                            profile'[v].status = trail'[i].after.status
                      /\ profile'[v].status = "APPROVED" =>
                            \E i \in (VerdictsOn(v))' : (\A j \in (VerdictsOn(v))' : j <= i) /\ trail'[i].action = "approve"
    BY DEF StatusIsVerdict, Latest
  <2>0. /\ profile[v] # NoProfile /\ VerdictsOn(v) = {} => profile[v].status = "PENDING_APPROVAL"
        /\ \A i \in VerdictsOn(v) : (\A j \in VerdictsOn(v) : j <= i) =>
              profile[v].status = trail[i].after.status
        /\ profile[v].status = "APPROVED" =>
              \E i \in VerdictsOn(v) : (\A j \in VerdictsOn(v) : j <= i) /\ trail[i].action = "approve"
    BY DEF ReviewInv, StatusIsVerdict, Latest
  <2>1. CASE v # u
    <3>1. (VerdictsOn(v))' = VerdictsOn(v) /\ profile'[v] = profile[v]
          /\ \A i \in VerdictsOn(v) : trail'[i] = trail[i]
      BY <1>1, <1>2, <2>1
    <3> HIDE DEF VerdictsOn
    <3> QED  BY <2>0, <3>1, Zenon
  <2>2. CASE v = u /\ e.action \in Verdicts
    <3>0. (VerdictsOn(u))' = VerdictsOn(u) \cup {n} /\ trail'[n] = e
      BY <1>1, <2>2
    <3>1. \A j \in VerdictsOn(u) : j <= n /\ ~(n <= j)
      BY <1>2, <1>3
    <3>2. n <= n
      BY <1>0, SMT
    <3>3. profile'[u].status = e.after.status /\ (e.after.status = "APPROVED" <=> e.action = "approve")
      BY <2>2
    <3> QED  BY <2>2, <3>0, <3>1, <3>2, <3>3, Zenon
  <2>3. CASE v = u /\ e.action \notin Verdicts
    <3>1. (VerdictsOn(u))' = VerdictsOn(u) /\ \A i \in VerdictsOn(u) : trail'[i] = trail[i]
      BY <1>1, <1>2, <2>3
    <3>2. profile[u] = NoProfile => VerdictsOn(u) = {} /\ profile'[u].status = "PENDING_APPROVAL"
      BY <1>2, <2>3 DEF ReviewInv, OneSignUp
    <3>3. profile[u] # NoProfile => profile'[u].status = profile[u].status
      BY <2>3
    <3>4. CASE profile[u] = NoProfile
      BY <2>3, <3>1, <3>2, <3>4
    <3>5. CASE profile[u] # NoProfile
      <4>1. profile'[u].status = profile[u].status
        BY <3>3, <3>5
      <4>2. \A i \in VerdictsOn(u) : trail'[i].after = trail[i].after /\ trail'[i].action = trail[i].action
        BY <3>1
      <4> HIDE DEF VerdictsOn
      <4> DEFINE V == VerdictsOn(u)
      <4>3. V = {} => profile'[u].status = "PENDING_APPROVAL"
        BY <2>0, <2>3, <3>5, <4>1
      <4>4. \A i \in V : (\A j \in V : j <= i) => profile'[u].status = trail'[i].after.status
        BY <2>0, <2>3, <4>1, <4>2
      <4>5. profile'[u].status = "APPROVED" =>
              \E i \in V : (\A j \in V : j <= i) /\ trail'[i].action = "approve"
        BY <2>0, <2>3, <4>1, <4>2
      <4>6. (VerdictsOn(u))' = V
        BY <3>1
      <4> HIDE DEF V
      <4> QED  BY <2>3, <4>3, <4>4, <4>5, <4>6, Zenon
    <3> QED  BY <3>4, <3>5
  <2> QED  BY <2>1, <2>2, <2>3
<1>7. TrailExplainsProfile'
  <2> SUFFICES ASSUME NEW v \in Users, (Chained(EntriesOf(v)))',
                      NEW i \in (EntriesOf(v))', \A j \in (EntriesOf(v))' : j <= i
               PROVE  profile'[v] = trail'[i].after
    BY <1>5 DEF TrailExplainsProfile, Latest
  <2>1. \A x, y \in (EntriesOf(v))' :
          x < y /\ ~(\E k \in (EntriesOf(v))' : x < k /\ k < y) => trail'[y].before = trail'[x].after
    BY DEF Chained
  <2>2. Chained(EntriesOf(v))
    <3> SUFFICES ASSUME NEW x \in EntriesOf(v), NEW y \in EntriesOf(v), x < y,
                        ~(\E k \in EntriesOf(v) : x < k /\ k < y)
                 PROVE  trail[y].before = trail[x].after
      BY DEF Chained
    <3>1. ~(n < y)
      BY <1>0, <1>1, SMT
    <3>2. ~(\E k \in (EntriesOf(v))' : x < k /\ k < y) /\ x \in (EntriesOf(v))' /\ y \in (EntriesOf(v))'
      BY <1>1, <3>1
    <3>3. trail'[y].before = trail'[x].after
      BY <2>1, <3>2
    <3> QED  BY <1>1, <3>3
  <2>3. CASE v # u
    <3>1. (EntriesOf(v))' = EntriesOf(v) /\ profile'[v] = profile[v] /\ trail'[i] = trail[i]
      BY <1>1, <2>3
    <3> QED  BY <2>2, <3>1 DEF ReviewInv, TrailExplainsProfile, Latest
  <2>4. CASE v = u
    <3>1. i = n
      BY <1>0, <1>1, <1>3, <2>4, SMT
    <3>2. CASE EntriesOf(u) = {}
      BY <1>1, <2>4, <3>1, <3>2 DEF ReviewInv, OneSignUp
    <3>3. CASE EntriesOf(u) # {}
      <4>1. PICK k \in EntriesOf(u) : Latest(k, EntriesOf(u))
        BY <3>3 DEF ReviewInv, TrailHasLatest
      <4>2. profile[u] = trail[k].after
        BY <2>2, <2>4, <4>1 DEF ReviewInv, TrailExplainsProfile
      <4>3. k < n /\ ~(\E l \in (EntriesOf(u))' : k < l /\ l < n)
        BY <1>0, <1>1, <4>1, SMT DEF Latest
      <4>4. n \in (EntriesOf(u))' /\ k \in (EntriesOf(u))' /\ trail'[n] = e /\ trail'[k] = trail[k]
        BY <1>1
      <4>5. e.before = trail[k].after
        <5>1. \A x, y \in (EntriesOf(u))' :
                x < y /\ ~(\E l \in (EntriesOf(u))' : x < l /\ l < y) => trail'[y].before = trail'[x].after
          BY <2>1, <2>4
        <5>2. trail'[n].before = trail'[k].after
          BY <4>3, <4>4, <5>1
        <5> QED  BY <4>4, <5>2
      <4> QED  BY <2>4, <3>1, <4>2, <4>4, <4>5
    <3> QED  BY <3>2, <3>3
  <2> QED  BY <2>3, <2>4
<1> QED  BY <1>4, <1>5, <1>6, <1>7

\* The parts of the type invariant.
LEMMA AccountsTypes ==
  AccountsTypeOK <=>
    /\ account \in [Users -> {NoAccount} \cup AnAccount] /\ EmailsApart
    /\ profile \in [Users -> {NoProfile} \cup Profile]
    /\ notice \in 1..MaxNotices /\ consents \subseteq Users \X (1..MaxNotices)
    /\ trail \in Seq(Entry)
    /\ signup \in [Users -> {NoEmail} \cup Emails]
    /\ review \in [Reviewers -> {NoReview} \cup
                      [action : Actions, user : Users, copy : Profile, reason : BOOLEAN]]
  BY Zenon DEF AccountsTypeOK, AnAccount, EmailsApart, Entry

LEMMA BeginSignUpKeepsInv ==
  ASSUME ReviewInv, NEW u \in Users, NEW email \in Emails, NEW shown, BeginSignUp(u, email, shown)
  PROVE  ReviewInv'
<1>1. /\ UNCHANGED <<account, profile, notice, consents, trail, review>>
      /\ signup' = [signup EXCEPT ![u] = email] /\ account[u] = NoAccount
  BY DEF BeginSignUp
<1>2. signup' \in [Users -> {NoEmail} \cup Emails]
  BY <1>1 DEF ReviewInv, AccountsTypeOK
<1>3. AccountsTypeOK'
  BY <1>1, <1>2 DEF ReviewInv, AccountsTypeOK
<1>4. \A v \in Users : signup'[v] # NoEmail => account[v] = NoAccount
  BY <1>1 DEF ReviewInv, AccountsTypeOK, OneSignUp
<1>5. ReviewAllowed'
  BY <1>1 DEF ReviewInv, ReviewAllowed
<1> QED  BY <1>1, <1>3, <1>4, <1>5, QuietStep

LEMMA CommitSignUpKeepsInv ==
  ASSUME ReviewInv, NEW u \in Users, CommitSignUp(u) PROVE ReviewInv'
<1>1. /\ UNCHANGED <<notice, review>> /\ signup[u] # NoEmail
      /\ signup' = [signup EXCEPT ![u] = NoEmail]
  BY DEF CommitSignUp
<1>2. signup' \in [Users -> {NoEmail} \cup Emails]
  BY <1>1 DEF ReviewInv, AccountsTypeOK
<1>3. account[u] = NoAccount /\ profile[u] = NoProfile /\ EntriesOf(u) = {}
  BY <1>1 DEF ReviewInv, OneSignUp
<1>4. CASE Taken(signup[u])
  <2>1. UNCHANGED <<account, profile, consents, trail>>
    BY <1>4 DEF CommitSignUp
  <2>2. AccountsTypeOK'
    BY <1>1, <1>2, <2>1 DEF ReviewInv, AccountsTypeOK
  <2>3. \A v \in Users : signup'[v] # NoEmail => account[v] = NoAccount
    BY <1>1 DEF ReviewInv, AccountsTypeOK, OneSignUp
  <2>4. ReviewAllowed'
    BY <1>1, <2>1 DEF ReviewInv, ReviewAllowed
  <2> QED  BY <2>1, <2>2, <2>3, <2>4, QuietStep
<1>5. CASE ~Taken(signup[u])
  <2> DEFINE row == [email |-> signup[u], role |-> "FIELD_WORKER", active |-> TRUE]
             e   == [user |-> u, action |-> "register", before |-> NoProfile, after |-> NewProfile]
  <2>1. /\ account' = [account EXCEPT ![u] = row] /\ profile' = [profile EXCEPT ![u] = NewProfile]
        /\ consents' = consents \cup {<<u, notice>>} /\ trail' = Append(trail, e)
    BY <1>5 DEF CommitSignUp
  <2>2. row \in AnAccount /\ row.email = signup[u]
    BY <1>1, AccountsAssumption DEF ReviewInv, AccountsTypeOK, AnAccount
  <2>3. e \in Entry /\ e.user = u /\ e.action \notin Verdicts /\ e.after = NewProfile
    BY RowsAreThere DEF Entry, Verdicts
  <2> HIDE DEF row, e
  <2>4. /\ account' \in [Users -> {NoAccount} \cup AnAccount] /\ EmailsApart'
        /\ \A v \in Users : account'[v] = NoAccount => account[v] = NoAccount /\ v # u
    BY <1>5, <2>1, <2>2, AccountWritten DEF ReviewInv
  <2>5. /\ profile' \in [Users -> {NoProfile} \cup Profile] /\ profile'[u] = NewProfile
        /\ \A v \in Users : v # u => profile'[v] = profile[v]
    BY <2>1, RowsAreThere DEF ReviewInv, AccountsTypeOK
  <2>6. consents' \subseteq Users \X (1..MaxNotices)
    BY <2>1 DEF ReviewInv, AccountsTypeOK
  <2>7. trail' \in Seq(Entry)
    BY <2>1, <2>3, TrailIsSeq DEF ReviewInv
  <2>8. AccountsTypeOK'
    BY <1>1, <1>2, <2>4, <2>5, <2>6, <2>7, AccountsTypes DEF ReviewInv, AccountsTypeOK, EmailsApart, AnAccount, Entry
  <2>9. /\ TrailHasLatest' /\ StatusIsVerdict' /\ TrailExplainsProfile'
        /\ \A v \in Users : (profile[v] = NoProfile <=> EntriesOf(v) = {})'
    BY <1>3, <2>1, <2>3, <2>5, RowsAreThere, EntryAdded
  <2>10. OneSignUp'
    <3>1. ASSUME NEW v \in Users, signup'[v] # NoEmail PROVE account'[v] = NoAccount
      BY <1>1, <2>1, <3>1 DEF ReviewInv, OneSignUp, AccountsTypeOK
    <3>2. ASSUME NEW v \in Users, account'[v] = NoAccount PROVE profile'[v] = NoProfile
      BY <2>4, <2>5, <3>2 DEF ReviewInv, OneSignUp
    <3> QED  BY <2>9, <3>1, <3>2 DEF OneSignUp
  <2>11. ReviewAllowed'
    BY <1>1, <2>5, RowsAreThere DEF ReviewInv, ReviewAllowed, AccountsTypeOK
  <2> QED  BY <2>8, <2>9, <2>10, <2>11 DEF ReviewInv
<1> QED  BY <1>4, <1>5

\* An account that is invited or changed stays an account.
LEMMA AccountStepKeepsInv ==
  ASSUME ReviewInv, NEW u \in Users, NEW row \in AnAccount, account' = [account EXCEPT ![u] = row],
         ~Taken(row.email) \/ (account[u] # NoAccount /\ row.email = account[u].email),
         signup[u] = NoEmail, UNCHANGED <<profile, notice, consents, trail, signup, review>>
  PROVE  ReviewInv'
<1>1. /\ account' \in [Users -> {NoAccount} \cup AnAccount] /\ EmailsApart'
      /\ \A v \in Users : account'[v] = NoAccount => account[v] = NoAccount /\ v # u
  BY AccountWritten DEF ReviewInv
<1>2. AccountsTypeOK'
  BY <1>1 DEF ReviewInv, AccountsTypeOK, EmailsApart, AnAccount
<1>3. \A v \in Users : signup'[v] # NoEmail => account'[v] = NoAccount
  BY DEF ReviewInv, OneSignUp, AccountsTypeOK
<1>4. ReviewAllowed'
  BY DEF ReviewInv, ReviewAllowed
<1> QED  BY <1>1, <1>2, <1>3, <1>4, QuietStep

LEMMA InviteKeepsInv ==
  ASSUME ReviewInv, NEW u \in Users, NEW email \in Emails, NEW role \in Roles, Invite(u, email, role)
  PROVE  ReviewInv'
<1> DEFINE row == [email |-> email, role |-> role, active |-> TRUE]
<1>1. row \in AnAccount /\ row.email = email
  BY DEF AnAccount
<1>2. /\ account' = [account EXCEPT ![u] = row] /\ signup[u] = NoEmail /\ ~Taken(email)
      /\ UNCHANGED <<profile, notice, consents, trail, signup, review>>
  BY DEF Invite
<1> HIDE DEF row
<1> QED  BY <1>1, <1>2, AccountStepKeepsInv

LEMMA EditUserKeepsInv ==
  ASSUME ReviewInv, NEW u \in Users, NEW email \in Emails, NEW role \in Roles, EditUser(u, email, role)
  PROVE  ReviewInv'
<1> DEFINE row == [account[u] EXCEPT !.email = email, !.role = role]
<1>1. /\ account[u] # NoAccount
      /\ email = account[u].email \/ ~Taken(email)
      /\ account' = [account EXCEPT ![u].email = email, ![u].role = role]
      /\ UNCHANGED <<profile, notice, consents, trail, signup, review>>
  BY DEF EditUser
<1>2. row \in AnAccount /\ row.email = email /\ account' = [account EXCEPT ![u] = row]
  <2>1. AccountsTypeOK
    BY DEF ReviewInv
  <2>2. account[u] \in AnAccount
    BY <1>1, <2>1 DEF AccountsTypeOK, AnAccount
  <2>3. row \in AnAccount /\ row.email = email
    BY <2>2 DEF AnAccount
  <2>4. account' = [account EXCEPT ![u] = row]
    BY <1>1, <2>1 DEF AccountsTypeOK
  <2> QED  BY <2>3, <2>4
<1>3. signup[u] = NoEmail
  BY <1>1 DEF ReviewInv, OneSignUp
<1> HIDE DEF row
<1> QED  BY <1>1, <1>2, <1>3, AccountStepKeepsInv

LEMMA SetActiveKeepsInv ==
  ASSUME ReviewInv, NEW u \in Users, NEW active \in BOOLEAN, SetActive(u, active)
  PROVE  ReviewInv'
<1> DEFINE row == [account[u] EXCEPT !.active = active]
<1>1. /\ account[u] # NoAccount /\ account' = [account EXCEPT ![u].active = active]
      /\ UNCHANGED <<profile, notice, consents, trail, signup, review>>
  BY DEF SetActive
<1>2. row \in AnAccount /\ row.email = account[u].email /\ account' = [account EXCEPT ![u] = row]
  BY <1>1, SwitchedAccount DEF ReviewInv
<1>3. signup[u] = NoEmail
  BY <1>1 DEF ReviewInv, OneSignUp
<1> HIDE DEF row
<1> QED  BY <1>1, <1>2, <1>3, AccountStepKeepsInv

LEMMA ConsentKeepsInv ==
  ASSUME ReviewInv, PublishNotice \/ \E u \in Users : AcceptConsent(u) PROVE ReviewInv'
<1>1. UNCHANGED <<account, profile, trail, signup, review>>
  BY DEF PublishNotice, AcceptConsent
<1>2. notice' \in 1..MaxNotices
  BY AccountsAssumption, SMT DEF PublishNotice, AcceptConsent, ReviewInv, AccountsTypeOK
<1>3. consents' \subseteq Users \X (1..MaxNotices)
  BY DEF PublishNotice, AcceptConsent, ReviewInv, AccountsTypeOK
<1>4. AccountsTypeOK'
  BY <1>1, <1>2, <1>3 DEF ReviewInv, AccountsTypeOK
<1>5. ReviewAllowed' /\ \A v \in Users : signup'[v] # NoEmail => account'[v] = NoAccount
  BY <1>1 DEF ReviewInv, ReviewAllowed, OneSignUp
<1> QED  BY <1>1, <1>4, <1>5, QuietStep

LEMMA OpenReviewKeepsInv ==
  ASSUME ReviewInv, NEW m \in Reviewers, NEW u \in Users, NEW action \in Actions,
         NEW reason \in BOOLEAN, OpenReview(m, u, action, reason)
  PROVE  ReviewInv'
<1>1. /\ UNCHANGED <<account, profile, notice, consents, trail, signup>>
      /\ profile[u].status \in Allowed(action)
      /\ review' = [review EXCEPT ![m] =
                       [action |-> action, user |-> u, copy |-> profile[u], reason |-> reason]]
  BY DEF OpenReview
<1>2. profile[u] # NoProfile
  BY <1>1, RowsAreThere DEF Allowed, Actions
<1>3. profile[u] \in Profile
  BY <1>2 DEF ReviewInv, AccountsTypeOK
<1>4. review' \in [Reviewers -> {NoReview} \cup
                      [action : Actions, user : Users, copy : Profile, reason : BOOLEAN]]
  BY <1>1, <1>3 DEF ReviewInv, AccountsTypeOK
<1>5. AccountsTypeOK'
  BY <1>1, <1>4 DEF ReviewInv, AccountsTypeOK
<1>6. ReviewAllowed'
  BY <1>1, <1>2 DEF ReviewInv, AccountsTypeOK, ReviewAllowed
<1> QED  BY <1>1, <1>5, <1>6, QuietStep DEF ReviewInv, OneSignUp

LEMMA CommitReviewKeepsInv ==
  ASSUME ReviewInv, NEW m \in Reviewers, CommitReview(m) PROVE ReviewInv'
<1> DEFINE r       == review[m]
           decided == Decided(r.copy, r.action, r.reason)
           e       == [user |-> r.user, action |-> r.action, before |-> r.copy, after |-> decided]
<1>1. /\ r.user \in Users /\ r.action \in Actions /\ e \in Entry
      /\ trail' = Append(trail, e)
      /\ profile' \in [Users -> {NoProfile} \cup Profile]
      /\ \A u \in Users : u # r.user => profile'[u] = profile[u]
      /\ profile[r.user] # NoProfile /\ profile'[r.user] # NoProfile
      /\ profile'[r.user].status =
             IF r.action \in Verdicts THEN decided.status ELSE profile[r.user].status
      /\ profile[r.user] = r.copy => profile'[r.user] = decided
      /\ decided.status = "APPROVED" <=> r.action # "reject"
  BY ReviewCommitted
<1>2. e.user = r.user /\ e.action = r.action /\ e.before = r.copy /\ e.after = decided
  OBVIOUS
<1>3. UNCHANGED <<account, notice, consents, signup>> /\ review' = [review EXCEPT ![m] = NoReview]
  BY DEF CommitReview
<1> HIDE DEF r, decided, e
<1>4. trail' \in Seq(Entry)
  BY <1>1, TrailIsSeq DEF ReviewInv
<1>5. review' \in [Reviewers -> {NoReview} \cup
                      [action : Actions, user : Users, copy : Profile, reason : BOOLEAN]]
  BY <1>3 DEF ReviewInv, AccountsTypeOK
<1>6. AccountsTypeOK'
  BY <1>1, <1>3, <1>4, <1>5 DEF ReviewInv, AccountsTypeOK, Entry
<1>7. e.action \in Verdicts => (e.after.status = "APPROVED" <=> e.action = "approve")
  BY <1>1, <1>2 DEF Verdicts
<1>8. /\ TrailHasLatest' /\ StatusIsVerdict' /\ TrailExplainsProfile'
      /\ \A v \in Users : (profile[v] = NoProfile <=> EntriesOf(v) = {})'
  BY <1>1, <1>2, <1>7, EntryAdded
<1>9. \A u \in Users : profile'[u] = NoProfile <=> profile[u] = NoProfile
  BY <1>1
<1>10. OneSignUp'
  BY <1>3, <1>8, <1>9 DEF ReviewInv, OneSignUp
<1>11. ReviewAllowed'
  BY <1>3, <1>9 DEF ReviewInv, ReviewAllowed, AccountsTypeOK
<1> QED  BY <1>6, <1>8, <1>10, <1>11 DEF ReviewInv

LEMMA StepReviewInv == ReviewInv /\ [AccountsNext]_accountVars => ReviewInv'
<1> SUFFICES ASSUME ReviewInv, [AccountsNext]_accountVars PROVE ReviewInv'
  OBVIOUS
<1>1. CASE UNCHANGED accountVars
  <2>1. AccountsTypeOK' /\ ReviewAllowed' /\ UNCHANGED <<profile, trail, account, signup>>
    BY <1>1 DEF accountVars, ReviewInv, AccountsTypeOK, ReviewAllowed
  <2> QED  BY <2>1, QuietStep DEF ReviewInv, OneSignUp
<1>2. CASE AccountsNext
  BY <1>2, BeginSignUpKeepsInv, CommitSignUpKeepsInv, InviteKeepsInv, EditUserKeepsInv,
     SetActiveKeepsInv, ConsentKeepsInv, OpenReviewKeepsInv, CommitReviewKeepsInv
  DEF AccountsNext, Actions
<1> QED  BY <1>1, <1>2

-----------------------------------------------------------------------------

\* Every variable of Accounts keeps its type, and no two accounts have one e-mail.
THEOREM AccountsTypeCorrect == AccountsSpec => []AccountsTypeOK
<1>1. ReviewInv => AccountsTypeOK
  BY DEF ReviewInv
<1> QED  BY InitReviewInv, StepReviewInv, <1>1, PTL DEF AccountsSpec

\* The server and the app agree on who may work.
LEMMA TwoEndsAgree ==
  ASSUME NEW u \in Users
  PROVE  TakesLocation(u) <=> /\ Told(u).standing.status = "APPROVED" /\ Told(u).standing.active
                              /\ ~Told(u).consentRequired
<1>1. NoProfile.status # "APPROVED"
  BY DEF NoProfile
<1>2. CASE account[u] # NoAccount /\ account[u].active
  <2>1. Told(u).standing = Standing(u) /\ (Told(u).consentRequired <=> ~Consented(u))
    BY <1>2, Zenon DEF Told
  <2>2. CASE account[u].role = "FIELD_WORKER"
    <3>1. Standing(u) = profile[u]
      BY <2>2 DEF Standing
    <3> QED  BY <1>2, <2>1, <2>2, <3>1, Zenon DEF TakesLocation, ApprovedWorker
  <2>3. CASE account[u].role # "FIELD_WORKER"
    <3>1. Standing(u) = NoProfile
      BY <2>3 DEF Standing
    <3> QED  BY <1>1, <2>1, <2>3, <3>1, Zenon DEF TakesLocation, ApprovedWorker
  <2> QED  BY <2>2, <2>3
<1>3. CASE ~(account[u] # NoAccount /\ account[u].active)
  <2>1. Told(u).standing = NoProfile
    BY <1>3, Zenon DEF Told
  <2> QED  BY <1>1, <1>3, <2>1, Zenon DEF TakesLocation, ApprovedWorker
<1> QED  BY <1>2, <1>3

\* However the requests of several managers overlap, a profile's status is the latest verdict of
\* the trail, only who was approved and not rejected since may act in the field, and the app lets
\* work exactly who the server takes positions from (_require_status, WorkerStanding).
THEOREM LatestReviewStands == AccountsSpec => []LastReviewStands
<1>1. ReviewInv => LastReviewStands
  <2> SUFFICES ASSUME ReviewInv, NEW u \in Users
               PROVE  /\ profile[u] # NoProfile /\ VerdictsOn(u) = {} => profile[u].status = "PENDING_APPROVAL"
                      /\ \A i \in VerdictsOn(u) :
                            Latest(i, VerdictsOn(u)) => profile[u].status = trail[i].after.status
                      /\ ApprovedWorker(u) =>
                            \E i \in VerdictsOn(u) : Latest(i, VerdictsOn(u)) /\ trail[i].action = "approve"
    BY TwoEndsAgree DEF LastReviewStands
  <2>1. ApprovedWorker(u) => profile[u].status = "APPROVED"
    BY DEF ApprovedWorker
  <2> QED  BY <2>1 DEF ReviewInv, StatusIsVerdict
<1> QED  BY InitReviewInv, StepReviewInv, <1>1, PTL DEF AccountsSpec

\* A profile is what the last entry of its trail says as long as each entry starts from what the
\* one before it left (_audited_change).
THEOREM TrailExplains == AccountsSpec => []TrailExplainsProfile
<1>1. ReviewInv => TrailExplainsProfile
  BY DEF ReviewInv
<1> QED  BY InitReviewInv, StepReviewInv, <1>1, PTL DEF AccountsSpec

=============================================================================
