# A TLA+ verification of the inspection backend

The repository is the backend of a field-inspection system. Contractor workers walk a campus and
service *points*, which are rooms on floors of buildings. They identify themselves at a floor by
scanning a printed QR code, checking in, doing the work, photographing it and checking out. Every
day a shared pool of points is dealt out to the workers in small batches. Points come back to the
pool when a worker reports an impediment, leaves the campus, goes silent, or when the workday ends.
Managers issue QR codes, review flagged executions, acknowledge alerts and decide appeals.

The program is FastAPI handlers over PostgreSQL at its default isolation level, READ COMMITTED
(`src/app/db/session.py` sets no other). Requests run concurrently on an event loop, next to a
scheduler that runs a scan every 60 seconds. There is no in-memory shared state worth mentioning: **the
concurrency of this system is the concurrency of its database transactions.** What is hard is
which rows a handler locks, which it only reads, how old what it read is by the time it writes,
and which constraint or `WHERE` clause catches the difference. The modules are about that.

## Inventory

| Component | State it keeps | Operations | Hard behaviour | Correct when |
|---|---|---|---|---|
| **Allocation** `domain/routing/allocation.py` | routes, route stops | start or resume, next batch | two workers claim from the same pool; two taps of one worker; OSRM is called with locks held; rounds refused by an index | a point is held once a day; one open batch per route; batch size kept |
| **Release** `domain/routing/release.py`, `domain/impediments` | stop and route status, impediments | impediment on a stop or on the rest of a route | judged on unlocked reads; races claim, check-out, scan | finished work is never given back; nothing stays live on a paused route; the reporter is not handed the point again |
| **Release scan** `domain/monitoring/release_scan.py` | routes, stops, positions, day alerts | pass every minute: left campus, silence, end of day, past days | skips locked rows; device clocks; late position uploads | every day settles; present workers keep their batch |
| **Execution** `domain/execution/service.py` | executions, stop status | check-in, check-out, resolve review | retries in flight with their original; reads without a lock before writes | a stop is executed once; anomalies reach a human |
| **Room resolution, geo** `domain/execution/validation.py`, `geo.py` | none | pure functions of a scan | several rooms in radius, none in radius, stale choices | a scan is resolved to its own room or asked about |
| **Evidence** `domain/execution/evidence_service.py` | photos, notes | upload, count, reconcile the flag | uploads race the check-out and the review | short evidence is flagged |
| **QR codes** `domain/qr` | codes of a floor | issue, replace, revoke, verify | two reads before a write, no lock | one code in force; a revoked floor is out of service |
| **Appeals** `domain/appeals` | appeals, their executions | file, replay, decide | two filings, two decisions at once; window edge | one appeal per stop; decided once |
| **Alerts** `domain/monitoring` | alerts, notifications | raise (deduplicated), fan out, acknowledge, resolve | notification after the commit of the alert; status races | each condition alerts once per cycle |
| **Evidence storage** `core/object_store.py`, `domain/retention`, `scripts/purge_orphan_evidence.py` | objects, photo rows | put, purge, orphan purge | two stores without a common transaction; crashes | no committed row without its object |
| **Catalog and deletion** `domain/catalog` | buildings, floors, points, types | create, update, delete with cascade | deletion against a running claim | nothing half deleted |
| **Workers, companies, users** `domain/identity`, `api/field_workers.py` | accounts, approval, tokens | register, approve, reject, deactivate | two managers decide at once | one decision stands |
| **Privacy, audit** | consents, audit rows | consent, append | new notice against an old consent | append-only |
| **Board, reports** | none | read | outcome of a point-day | counts agree with the outcome |
| **Route planning** `osrm.py`, `approach.py` | none | call OSRM | slow external service | falls back |
| **Settings, clock** | settings row, campus wall clock | edit | edits during a day | - |

How they interact: handlers and the scheduler share only database rows. Allocation creates route
stops. Check-in and check-out move a stop `PENDING -> IN_PROGRESS -> DONE`. Impediments and the
release scan move live stops to `RELEASED`, which frees the point for the pool. Appeals add an
execution to a stop that stays `RELEASED`. Uploads attach photos to executions and may clear the
flag a check-out raised. The scan raises alerts, and alerts fan out to notifications after their
own commit. Deletion and retention remove rows and then objects.

`PROJECT.json` lists every component with its status and every hazard at its line.

## Modules

| Module | Models |
|---|---|
| `DayPool` | what the allocation promises: a pool of points, taken, served, impeded, given back. Abstract. |
| `Allocation` | routes, stops, claims statement by statement, impediments, the release scan, the end of day. Implements `DayPool`. |
| `ReleaseScan` | when the scan releases or closes one worker's route: positions, scans, device clocks, crashes, past days. |
| `StopRecord` | what the record of a floor's stops promises: every check-in, check-out, photo and release is one step on the rows as they are. Abstract. |
| `StopExecution` | check-in, check-out, photos, review and release of the stops of one floor, lock by lock. Implements `StopRecord`. |
| `FloorScans` | which stop a scan means, when the scans of several visits arrive late, twice and out of order. |
| `QrCodes` | issue, replacement, revocation and acceptance of the codes of one floor. |
| `Appeals` | filing, retrying, answering and deciding appeals over released stops. |
| `PointDays` | what the board, the day-end alert, the report and the history count. Extends `Appeals`. |
| `Alerts` | the alert scans, the rule switches, impediment reports, notifications, and the managers' desk. |
| `LiveBoard` | the board, query by query, and the stream that keeps a manager's screen up to date. |
| `EvidenceStore` | photos as objects in MinIO and as rows: upload, retention purge, deletion of a point, orphan script, and their failures. |
| `PointDeletion` | deleting points and buildings with all that hangs on them, next to claims, writes and other deletions. |
| `ServiceTypes` | the service types of the companies, the points of each type, and where the points are. |
| `Accounts` | sign-up, invitation, consent, review and switching off of accounts and worker profiles, with the audit trail. |
| `AllocationProofs`, `EvidenceStoreProofs`, `AccountsProofs` | theorems about the module they are named after, checked by TLAPS. |
| `ExecutionProofs` | the same about `StopExecution`, `FloorScans` and the two together in `MCExecution`. |
| `AppealsProofs` | the same about `Appeals` and `PointDays`. |
| `CatalogProofs` | the same about `ServiceTypes` and `PointDeletion`. |
| `BackgroundProofs` | the same about `Alerts`, `ReleaseScan` and all the jobs together in `MCBackground`. |
| `RecordsProofs` | the same about `QrCodes`, `LiveBoard` and all the records together in `MCRecords`. |
| `MCAllocation`, `MCStopExecution` | the symmetries of the instances TLC checks. |
| `MCExecution`, `MCBackground`, `MCRecords` | several components in one model (see *Runs*). |

### How a transaction is modelled

A *session* is a request inside its transaction, and `pc[s]` says where it is. What it writes
becomes visible in the step that commits it. A row lock (`FOR UPDATE`) is a guard on the other
sessions: the locked row is whatever the session's own state says it holds. A transaction that
locks all the rows it reads before it writes them is one step. A value read without a lock and used
later is a step of its own, with the copy kept in the session's state. A lost client, a
restarted server, an integrity error or a deadlock victim is `Rollback(s)`: locks and uncommitted
rows go, the database stays.

### Allocation

One campus day and one company (companies have disjoint pools, since the typed points of a company
are filtered by its service types, and a route never outlives its day). A worker has at most one
route a day, so `route[w]` is the route of `w`, and `stop[w][b][p]` is the stop of batch `b` at
point `p`.

| Code | Action or operator |
|---|---|
| guards of `start_or_resume`, `next_batch` on the request's own `now` | `StartOrResume`, `NextBatch` |
| `_advance`, route locked, open stop found | `ReturnOpenBatch` |
| `free_points` | `FreePoints`, read in `ReadPool` |
| a round of `_claim`: `_lock_points` (SKIP LOCKED), `_insert_stop` in a savepoint | `LockAndInsert` |
| OSRM order and legs, locks held | `EndOfClaim` |
| commit | `CommitBatch`, `CommitNothing` |
| check-in, check-out (as this module sees them) | `CheckIn`, `CheckOut` |
| `create_impediment`, stop scope | `ReportStop` then `ReleaseImpeded` |
| `create_impediment`, remainder of the route | `ReportRemainder` then `ReleaseRemainder` |
| `run_release_scan` | `ReleaseScan(gone, closed)` |

Points worth knowing when reading it next to the code:

- The exclusivity index on `(day, point)` of stops that hold the point is `IndexRefuses`. The
  uncommitted rows of another claim cannot collide, because a claim locks the point row before it
  inserts (`LockedByOthers`).
- An impediment row references the route by a foreign key. Its insert takes a key-share lock on the
  route, and a claim holds `FOR UPDATE` on it, so the insert waits: the guard `~RouteLocked(w)`.
- A `ROUTE_REMAINDER` impediment pauses the route even when the scan closed it since it was
  loaded. The next pass of the scan closes it again, which is why `DaySettles` is a liveness
  property and not an invariant.
- Check-in and check-out lock the stop row and re-evaluate its status after the lock, so each is
  one step here. `StopExecution` looks inside them.
- Left open: which candidates are nearest, the order OSRM gives, the order index of a stop. Left
  out: editing `workday_end_time` during the day (`over` only rises), deletion of catalog rows.
- `MaxBatches` bounds the batches of a route. The code has no such bound.

### StopExecution

One floor of one worker's route, because a scan names a floor and which stop it means is resolved by
position. The app resends a request under the same idempotency key when an answer is lost, so the
same key may be in flight in two sessions. An execution is named by its check-in key, which is unique.

Two facts about the libraries matter, and both are modelled:

- SQLAlchemy's `UPDATE` sets only the columns whose value differs from what the request loaded
  (`Written`). Assigning `PENDING_REVIEW` to a copy that already holds it writes nothing.
- PostgreSQL takes a stronger row lock when an `UPDATE` sets a column of a unique index. The
  check-out sets `checkout_idempotency_key`, so it waits for a photo inserted under the
  execution to commit (the photo's foreign key holds a key-share lock). The resolve of a review sets
  no such column and does not wait.

| Code | Action or operator |
|---|---|
| `check_in`, replay lookup | `BeginCheckIn` |
| `check_in`, PENDING stops locked, room resolved, execution inserted | `CommitCheckIn` |
| `check_out`, replay lookup | `BeginCheckOut` |
| `_load_open_checkins` FOR UPDATE, resolution | `LoadOpenCheckin` |
| `count_execution_photos` | `CountPhotos` |
| merge of flags, review state, commit | `CommitCheckOut` |
| `upload_photo`: load, judge, put the object | `BeginUpload` |
| `add_photo`: insert, count | `InsertAndCount` |
| `reconcile_evidence_flag`, commit | `Reconcile`, `CommitUpload` |
| `resolve_execution_review` | `BeginResolve`, `CommitResolve` |
| `release_stops` | `Release` |

Which stop the position resolves to and which anomalies a scan raises are left open. Text notes
change nothing that the properties tell apart. Executions created by accepted appeals hang on stops
that stay `RELEASED` and are not in this module. Nor is what removes photos: retention and the
deletion of a point, so a photo row that was committed stays (`EvidenceStore` has both).

`StopRecord` is the same floor without copies, locks, counts and retries: `CheckIn`, `CheckOut`,
`AddPhoto` and `GiveBack` judge the rows as they are and act at once. It has no reviews, because the
code does judge those on old copies, which is what findings 1 and 2 are about. Which stop a
scan means and which anomalies it raises are open, as in `StopExecution`, and so is one thing more: a check-out may flag short evidence that is not short any more, as when a photo commits
after the count.

### QrCodes

The codes of one floor, named by their versions: a payload is a deterministic signature of floor and
version and `public_code` is unique, so a version is inserted at most once. Nothing in issue or
revoke locks a row: `ReadPrevious`, `ReadMaxVersion` and `CommitIssue` are three steps, `LoadCode` and
`CommitRevoke` two. `overtaken` is a history variable that only a property reads.

### EvidenceStore

The photos of one execution in two stores without a common transaction. The object store acts at
once and rolls nothing back; a row changes when its transaction commits. Every upload puts its photo
under a fresh key, so a photo `x` stands for its upload request, its object and its row.

| Code | Action or operator |
|---|---|
| `upload_photo`: load the execution | `BeginUpload` |
| `add_photo`: `store.put`, then the row flushed | `PutObject`, `InsertRow` |
| commit; a refused key or foreign key, a lost request | `CommitUpload`; `FailUpload` |
| `_purge_evidence`: select, objects one by one | `SelectDoomed`, `RemoveOldObject` |
| rows deleted, audit row, commit; any failure | `CommitPurge`; `FailPurge` |
| `_delete_executions`: keys read, rows deleted by the next statement | `ListPhotoKeys`, `DeleteRows` |
| the execution deleted, commit; refused or lost | `CommitDeletion`; `FailDeletion` |
| `remove_photo_objects` | `RemoveListed`, `SkipListed` |
| `purge_orphan_evidence`: rows read, bucket listed, objects deleted | `ReadReferenced`, `ListKeys`, `RemoveOrphan`, `EndScript`, `FailScript` |

Points worth knowing when reading it next to the code:

- The foreign key of an inserted row keeps the execution until the upload commits, so the deletion
  waits; a row committed after the deletion read the rows makes it fail (`CommitDeletion`).
- The rows a deletion has deleted stay locked until it ends, and the purge's delete waits for them
  (`CommitPurge`). The purge takes its own row locks in its last statement but one, so they are
  not a step.
- Removing an object that is not there is no error in MinIO (`CanDelete`). This is what makes a
  purge that failed half way repeatable: the rows it left are selected again the next night.
- `old` are the photos captured before the cutoff. It only grows: the retention window is enabled and
  nobody lengthens it. `captured_at` is the client's, so a photo may be old before it is uploaded.
- `WhileServing` says whether the orphan script may run while photos are uploaded. FALSE is the use
  its docstring gives it, once after a migration. TRUE is "running it again later".
- `MaxFailures` bounds the failures of the purge and nothing else.

### ReleaseScan

One worker's route of one day against the server's clock. A device stamps its positions and QR scans
with a clock of its own, `skew` ticks ahead, keeps them while it is offline and delivers them in any
order. The model also knows where the worker really is (`away`) and when they were last outside
(`lastOut`), which no server does. A pass holds the route (`locked`) from the moment it has judged the
worker gone (`pass`, the reason, and `leaves`, the status it is going to write) until it commits; `unread`
are the scans committed meanwhile. Only properties read `lastOut` and `unread`.

| Code | Action or operator |
|---|---|
| `_left_campus`, `_first_outside_fix_since_seen_inside` | `LeftCampus`, `LatestOfBatch`, `OutsideLongEnough`, `SeenInsideSince` |
| `last_activity_at` | `Silent` |
| `record_position`: judged on the unlocked status, committed later | `UploadPosition`, `CommitPosition` |
| a scan on a live stop | `UploadScan` |
| start or next batch: `now` read, row locked, batch stamped and committed | `Ask`, `LockForClaim`, `CommitBatchAt`, `CommitNoBatch` |
| `_lock_working_routes`, and the reads of `_release_if_gone` | `FindGone` |
| `release_route` on the live stops of that moment, and the commit | `ReleaseIfGone` |
| a pass that raises and is rolled back (`run_scan_once`) | `AbortPass` |
| `_close_the_day`, `_close_past_days` | `CloseTheDay` |
| the server goes down | `Crash`, and any number of `Tick`s without a pass |

A batch is one bit, because who gets which point is `Allocation`'s.

The route's `FOR UPDATE` keeps claims out of a pass, and positions, whose foreign key waits for it. It
does not keep out check-ins and check-outs, which lock stops. So what a pass reads and what it does are two steps,
with `UploadScan` possible between them. A scan that falls there does not save the batch, and
`WorkerOnCampusKeepsBatch` excepts it by name (`scans \ unread`): without the exception TLC finds it.
Positions need no exception, because none is committed in between. Locking the route and reading its signs
stay one step, and so do the two reads of the scans, for leaving and for silence. A scan
committed between two of them can only make the worker less gone. If the pass releases nonetheless, it
would have released without seeing that scan, which is the case of a scan after `FindGone`. A closing
(`CloseTheDay`) reads no sign. It is one step, since the status guard of its `UPDATE` decides what is still live.

A device clock that is ahead makes a fix from before the batch look newer by as much, and the property says by how
much: the worker was outside at a moment that this clock takes for one after the batch (`lastOut + skew > allocated`).

### FloorScans

The visits of one worker to the rooms of one floor. The app queues a check-in and a check-out per
visit, sends them when it can, again when an answer is lost, and names the room once the server has
asked it to (`CHOOSE`). Between the key lookup (`BeginCall`) and the rest of the request
(`CommitCall`) anything may happen; the row locks inside the rest are `StopExecution`'s.

| Code | Action or operator |
|---|---|
| `resolve_route`, replay lookup, `_verify_qr` | `RouteFound`, `KeyOnRecord`, `BeginCall` |
| `resolve_room`: chosen, in radius, fallback, ambiguous | `Meant`, `AnswerFor` |
| `_raise_if_released_on_floor` | `ReleasedOnFloor`, in `AnswerFor` |
| flags of a scan | `ScanFlags` |
| candidates of a check-in, of a check-out | `PendingRooms`, `OpenVisits` |

The points of a floor are where their building is (`catalog/points.py`), so the radius tells the
building from elsewhere and never one room of a floor from another (`Near`).

### Appeals and PointDays

`Appeals` has a clock of ticks, `DayLength` to a campus day, and leaves when a stop is handed out,
worked and released free within the exclusivity index, since `Allocation` says more about it.

| Code | Action or operator |
|---|---|
| `appeal_error`, in its order | `RefusalCode`, `Refusal` |
| `list_appealable_stops`; `released_stop_error` | `AppealableStops`; `TooLate` |
| `file_appeal`: request clock read; stop locked, replay, judged, inserted, announced | `BeginFiling`; `File` |
| `_lock_pending`, `accept_appeal`, `reject_appeal` | `Hear`; `Decide` |

`PointDays` has no state of its own. Its operators are the queries of `reports/point_days.py`,
`compliance.py`, the pool KPIs of the board, the day-end alert's total and the history, written over
the state of `Appeals`; its two properties compare queries that are written apart in the code and
should say the same.

### Alerts

An alert is known by its `dedup_key`. One pass is `Draft`, `Insert` (which waits for another open
insert of one of its keys), `CommitAlerts`, `Notify`; any of them may fail (`FailPass`). Managers load
an alert and commit later (`Handle`, then `CommitAcknowledge`, `CommitResolve`, `CommitCiente`),
because nothing is locked in between. A notification stands for one row per manager. `violation`
says how far a violation is; which stop or day it is about does not matter to the pass.
When a crash falls between `CommitAlerts` and `Notify` the notification is lost for good: `NotifiedOnce`
says *at most* once. The module does not tell managers apart, so who is switched off does not matter to it.

### LiveBoard

A poll is six queries, each a step (`Query`), and the digest decides whether it is sent (`Emit`).
`commits` and `polled` are history variables that say whether anything was committed during the last poll.

### PointDeletion and ServiceTypes

| Code | Action or operator |
|---|---|
| `_delete_points`: stops and routes listed, impact counted | `BeginDeletion` |
| `_delete_stops`, `_delete_executions` | `ClearStops`, `DropStops` |
| `_settle_routes`: the stops left, one route after the other, renumbered | `ListRemaining`, `Renumber` |
| `_delete_routes`, notifications by their payload | `ClearRoutes` |
| points, building, commit; a foreign key refuses | `CommitDeletion`, `StillNeeded` |
| two deletions waiting for each other | `Deadlock` |
| `_next_batch_slot`, a claim, a row written meanwhile | `IsNextIndex`, `BeginClaim`, `CommitClaim`, `AttachToStop`, `AttachToRoute` |
| `_reconcile_service_types` of a company's dialog | `OpenDialog`, `JudgeDialog`, `CommitDialog` |
| `create_point`, change of type | `BeginCreate`, `BeginRetype`, `CommitEdit` |
| an outline redrawn, its points moved | `MoveSpots`, `CommitRedraw` |

A deletion locks nothing before it deletes; foreign keys refuse it as a whole when a row it did not
list still refers to what it deletes. The properties say what is left to it then: it fails only when
something overtook it. `BeginDeletion` and `ClearStops` each stand for several statements without a step of others in
between; what falls between those is commits that overtake the deletion, and its properties except them. `overtaken`, `asTold`, `missed` and `again` are history variables. `again` marks a
deletion that committed after another one had deleted a point of its list: its numbers were counted
with stops that no longer stand, so `OrderIsDistinct` only speaks of runs without one (`NoneAgain`).

### Accounts

Reviews load the profile, judge it and write the columns that changed (`Written`), with the audit
entry in the same transaction. So overlapping reviews may leave a profile that no entry of the trail
shows, an APPROVED one with a rejection reason for example; the trail then is no chain, and
`TrailExplainsProfile` says that this is the only way the two part.

## Runs

| Run | Instance | What it shows |
|---|---|---|
| `allocation_safety` | 2 workers, 2 sessions, 2 points, batch size 2, 2 batches | `TypeOK`, `Exclusive`, `OneOpenBatch`, `NoStrandedWork`, `NotHandedBackToReporter`, `ClosedStopStaysClosed` |
| `allocation_pool` | 3 points for batches of 2, 1 batch per route | `BatchWithinSize`; `Allocation` implements `DayPool` |
| `allocation_day` | 1 point, batches of 1, 2 batches per route, fairness | `DaySettles` |
| `execution_safety`, part EXECUTION | 2 stops (one needs 2 photos), 2 + 2 + 2 keys, 3 sessions | `NothingDoneTwice`, `StopMatchesExecution`, `ShortEvidenceFlagged`, `FlaggedIsReviewed`; `StopExecution` implements `StopRecord` |
| the same, part FLOOR | 2 rooms, 2 visits, 2 requests in flight, with and without GPS | `ScanFindsItsRoom` |
| `background`, part EVIDENCE | 2 photos, the script in a maintenance window, 2 failed purges, fairness | `KeptPhotoHasObject`, `PurgeOrphansNothing`, `ExpiredRowsGo` |
| the same, part RELEASE | 3 ticks, 2 signs of life, a device clock 1 ahead, fairness | `WorkerOnCampusKeepsBatch`, `PastDayCloses` |
| the same, parts ALERTS and DESK | 2 schedulers, 2 keys and 1 failure; 1 key and 2 managers; fairness | `NotifiedOnce`, `HandledStaysHandled`, `ViolationsRecorded` |
| `records`, part QR | 3 sessions, 2 versions | `NewestIsNotReplaced`, `UndisturbedIssueSucceeds` |
| the same, part APPEALS | 2 workers, 2 points, 2 stops, 2 managers, days 0 to 2 | `VerdictDecidesExecution`, `RetryIsReplayed`, `OfferedIsTaken`, `CountsAgree`, `CreditedToWhoServed` |
| the same, part ACCOUNTS | 2 users, 2 reviewers, 2 notices, 4 trail entries | `LastReviewStands`, `TrailExplainsProfile` |
| the same, part CATALOG | 2 companies, 2 types, 2 dialogs, 1 point, 2 outlines | `PointIsServable`, `PointFollowsBuilding` |
| the same, part DELETION | 2 points, 1 route, 3 stops, 2 deletions | `OrderIsDistinct`, `UndisturbedDeletion` |
| the same, part BOARD | 1 worker, 1 point, 1 alert, 2 days, 4 commits | `ScreenCatchesUp` |
| `execution_resolved`, `execution_anomaly` | `StopExecution` with 2 sessions | findings 1 and 2 |
| `qr_one_active`, `qr_revoked` | 2 sessions, 1 session, 3 versions | findings 3 and 4 |
| `evidence_orphans` | the script while serving | finding 5 |
| `floor_checkout` | 2 rooms, 2 visits, 1 request in flight | finding 6 |

**Several components in one model.** `MCExecution`, `MCBackground` and `MCRecords` extend several
component modules. The components have no variable in common; `part` is chosen in the initial state
and never changes, the component it names takes its steps and all the others keep their initial
state. Every behaviour of the model is therefore a behaviour of one component with the others
stuttering, every behaviour of the component (within the bounds below) occurs, and the reachable states add up and
do not multiply. A property of a component is checked over all parts; where it is not about the
component of the behaviour it is about its initial state. `BackgroundTypeOK`, `RecordsTypeOK` and
`WorkTypeOK` are the type invariants of their components together. That a behaviour of the model
is one of each component is proved (*Components together proved*). The components do share model
values in `MCRecords.cfg` (`a1` is a worker, a user, a session), which keeps the symmetry group
small and says nothing, because no state has two of these roles.

Where components do interact, the interaction is inside a module: claims, releases and scans in
`Allocation`, uploads, purges and deletions in `EvidenceStore`, claims and deletions in
`PointDeletion`, appeals and the queries over them in `PointDays`.

**Why the bounds are enough.** Every hazard of the allocation involves two requests: two workers, two
taps of one worker, or a claim and a release. Two workers and two sessions give all of these pairs,
and scan, check-in, check-out and the end of the day add themselves without a session. Two batches
are needed for a batch that follows a released one, the case that `OneOpenBatch` and
`NotHandedBackToReporter` are about. Three points for batches of two are needed for a second round of
a claim that already holds something (`BatchWithinSize`). Anything larger repeats these cases with
other names, and for the allocation the proofs below remove the bounds altogether. In
`StopExecution`, three sessions let an original, its retry and a third party (a resolve or an
upload) be in flight together; two photos against a minimum of two make every count 0, 1 or 2, below
and at the limit. In `FloorScans` two visits with two requests in flight let a scan and its retry
surround the other visit's. In `QrCodes`, two versions and three sessions let an issue be overtaken by another
and by a revocation (the findings use three versions). In `EvidenceStore`, two photos let a purge or a deletion stop half way, one object
gone and one left, and let one photo be uploaded while the other is purged or deleted. In
`ReleaseScan` two signs are a fix of an earlier stretch outside that arrives late and a later sign
inside, or a fix and the scan that contradicts it; three ticks reach the next day, by way of one at
which the workday is over, and the device's clock is one tick ahead, which is as long as a stretch outside has to be. In `Alerts`, two
keys let one insert find one key new and the other taken. In `Appeals`, two stops of one point on one day are
what a point-day with two holders needs, and three days give a window that is open, on its last
instant and over. In `PointDeletion`, three stops on one route let a deletion renumber two while a
claim appends one.

The bounds that are not in a `.cfg` are named in the MC modules, each where it is used, and two are
in a component: `OnOneStop` (two appeal requests open at a time, about one stop, because requests about different stops touch
different rows), `NoDialogWhileDrawing` (a company dialog writes types, a redrawing places, and
neither reads what the other writes), `OneTrouble` (the floor's code changes only on the day of the
route, and the GPS works in all visits or in none), DESK's one key and the one `skew` in
`MCBackground` (the proof is about every skew), `MaxKeys` and one rule off at a time in `Alerts`, `NothingOpen` in `PointDays`.

Symmetry is used where no property distinguishes the members of a set, and never with liveness.
Deadlock is not checked (`CHECK_DEADLOCK FALSE`) because these are bounded days: when every key,
version or batch is used and the day is over, nothing is left to do.

**Fairness.** `allocation_day` and `background` need it. For the first, weak fairness of `Proceed(s)`: a request that was
admitted ends, because an OSRM call gives up after 10 seconds (`main.py`), a claim never waits for
a point row, and what holds a route row ends in turn. Weak
fairness of the scan closing `w`'s route: `scheduler.py` runs the scan every 60 seconds for ever, and
a pass skips only routes locked at that instant. Nothing makes a worker act, a manager act, or a
`Rollback` happen. For the evidence, weak fairness of `Purge`: the scheduler starts it at 03:00
every night, and a run goes on until it commits or fails. Weak fairness of the end of a deletion
that has deleted rows: a request ends. Strong fairness of `CommitPurge`: a purge waiting for
the rows of a deletion gets them when that ends, because PostgreSQL grants a row lock to who waits for
it. That the purge fails finitely often is the bound `MaxFailures`; a store that is down every night
keeps its rows for ever. For the release scan, weak fairness of the clock, of a claim ending one
way or another, and of `ReleasePass`, the pass every 60 seconds once the server is up; strong fairness of `CloseTheDay`, because
a pass skips a route that is locked just then, or fails and is rolled back, but not every minute for ever. For the alerts, weak
fairness of the steps of each scheduler's pass; passes fail finitely often (`MaxLost`). Where a
component is not the one the behaviour is about, its fairness condition is void.

Every property of a passing run has a mutant: a definition of the module with a plausible bug put
into it (an index that forgets finished work, a route row that is not locked, a release that trusts
its loaded copy), on which TLC finds the property violated. Mutants sit above the definitions they
alter and are commented as such.

## Proofs

### Allocation proved

`AllocationProofs` proves, for any workers, any finite set of points, any sessions, any batch size
and any number of batches:

| Theorem | Says |
|---|---|
| `TypeCorrect` | `Spec => []TypeOK` |
| `AllocationIsExclusive` | `Spec => []Exclusive` |
| `OnlyOneOpenBatch` | `Spec => []OneOpenBatch` |
| `NothingIsStranded` | `Spec => []NoStrandedWork` |
| `ReporterIsSpared` | `Spec => []NotHandedBackToReporter` |
| `BatchesWithinSize` | `Spec => []BatchWithinSize` |
| `ClosedStopsStayClosed` | `Spec => ClosedStopStaysClosed` |
| `AllocationImplementsDayPool` | `Spec => ImplementsDayPool` |

Assumptions: `Points` is finite (for the cardinality of a batch), `BatchSize` and `MaxBatches` are
positive, and `NoWorker` is not a worker. TLC evaluates them on the runs.

The inductive invariant is `IInv`: `TypeOK`, the safety invariants, and `ClaimInv`, what is true of a
claim in flight. The safety invariants alone are not inductive, because a commit copies a session's
uncommitted work into the database, and the invariants say nothing of that work. `ClaimInv` says
it:

- `ClaimsApart`: two claims in flight are of different workers and have locked different points. This
  is the route lock and SKIP LOCKED as one statement, and what keeps two claims of one worker from
  both committing.
- `ClaimHasNoOpenStop`: the worker of a claim in flight has no open stop. Without it a commit could
  open a second batch.
- `ClaimSparesImpeded`: what is in the pool of a claim was not impeded by its worker. It holds
  because an impediment needs a live stop, which the worker of a claim does not have, and waits for
  the route lock.
- `ClaimWithinSize`: a claim has no more than `BatchSize` points.

The step lemma has one case per action, and under it one step per conjunct the action can disturb.
The refinement maps every committed action to `Take`, `Serve`, `Impede` or `GiveBack` and every other
action to a stutter.

### Stop execution proved

`ExecutionProofs` proves the properties of part EXECUTION, for any number of stops, keys
and requests, any finite set of photos and any minimum of photos:

| Theorem | Says |
|---|---|
| `ExecutionTypes` | `Spec => []TypeOK` |
| `NothingIsDoneTwice` | `Spec => []NothingDoneTwice` |
| `StopsMatchExecutions` | `Spec => []StopMatchesExecution` |
| `ShortEvidenceIsFlagged` | `Spec => []ShortEvidenceFlagged` |
| `FlaggedIsAlwaysReviewed` | `Spec => []FlaggedIsReviewed` |
| `SettledStaysFinal` | `Spec => SettledIsFinal`: done and released stops, closed executions and the anomalies of a scan are never undone |
| `ExecutionImplementsStopRecord` | `Spec => ImplementsStopRecord` |
| `ReviewsStandApart` | `Spec` and always `ResolvesApart` imply `ResolvedStaysResolved` and `CheckOutAnomalyReachesHuman` |

Assumptions: the photos are finite, the minimum is positive, the "none" values are not keys or stops,
and the evidence flag is not one of the anomalies. The properties speak of rows and the writes come
from copies, so the invariant (`IInv`) says how far a copy may be from its row:

- `CheckOutCopy`: while a check-out has its stop locked, the execution stays open and its flags stay
  as they were loaded. Only its review may have been resolved, which is the gap that
  `execution_anomaly` falls into.
- `UploadCopy`: a copy that was loaded closed agrees with its row on every flag but the photo flag,
  because late photos are all that writes to a closed execution's flags. So whatever one writes back
  erases no anomaly.
- `CountIsSafe`: photos are only added, so a count taken earlier can be too low and never too high.
- `HeldApart`: no stop row is locked by two check-outs.
- `NothingBeforeCheckIn`: an execution that does not exist yet has no check-out and no flags.

The refinement hides the requests and keeps the rows: a commit maps to the one step of
`StopRecord` it looks like, everything before it to a stutter. It needs two facts more (`RecordInv`): a photo whose
row is inserted and not committed is nobody else's (`InsertedIsNew`), and only work that needs evidence is
found short of it (`ShortNeedsEvidence`). The three guards it rests on are the lock on the
stop, the unique key of the check-out and the count taken under the execution; without the first,
`LockedByOthers`, TLC finds a step that `StopRecord` does not have.

`ReviewsStandApart` is the other side of findings 1 and 2. Their properties are false, and this
theorem says that one overlap is all it takes: `ResolvesApart` keeps a resolve from being in
flight next to a check-out or an upload of the same execution and leaves everything else as it
is, retries, photos racing the check-out and resolves of other executions included. Then the
review that a request writes over is the one it loaded (`CopiesInv`), and both properties hold.

### QR codes proved

`RecordsProofs` proves, for any number of managers and versions:

| Theorem | Says |
|---|---|
| `QrCodeTypes` | `Spec => []TypeOK` |
| `NewestStaysInForce` | `Spec => []NewestIsNotReplaced` |
| `UndisturbedIssuesSucceed` | `Spec => []UndisturbedIssueSucceeds` |
| `LoneIssuesKeepOneActive` | `Spec` and always `OneIssueAtATime` imply `[]AtMostOneActive` |
| `RevokedStaysRevoked` | `Spec` and always `RevocationsApart` imply that a revoked code stays revoked |

The invariant adds that what a request read still exists and that an issue's number is above
the code it replaces: the highest version is read after the ACTIVE code, so the order of the two reads
in `issue_qr_code` is what makes `NewestStaysInForce` true.

The last two say what a lock on the floor would buy. While no two issues are in flight, the ACTIVE code,
if there is one, is the one the open issue read (`ActiveIsRead`), and a floor has one, as the
docstring says; overlapping revocations do no harm to that, so the overlap of two issues is all of
finding 3. While no revocation is in flight next to an issue, what an issue is going to replace was not
revoked since it read it (`ReadIsNotRevoked`). Otherwise it writes REPLACED over REVOKED (`qr/service.py:61`), and
scans of the code are accepted again.

### Evidence storage proved

`EvidenceStoreProofs` proves, for any set of photos and any number of failed purges:

| Theorem | Says |
|---|---|
| `EvidenceTypes` | `Spec => []TypeOK` |
| `KeptPhotosHaveObjects` | if not `WhileServing`, `Spec => []KeptPhotoHasObject` |
| `PurgeNeverOrphans` | `Spec => PurgeOrphansNothing`, whenever the script runs |

That a kept row has its object says nothing of what the actors still mean to delete, and it is their
lists that endanger it. The invariant says what is on them: the purge's photos are expired and their
uploads over (`PurgeInv`), those of a deletion have no row any more and no upload that could still
commit one (`DeletionInv`), and, in its window, the script has every row among the keys it spares
(`ScriptInv`). `ScriptInv` is the part that needs the window, and finding 5 is what happens without
it.

### Appeals proved

`AppealsProofs` proves, for any number of workers, managers, stops and requests, and any window:

| Theorem | Says |
|---|---|
| `AppealTypes` | `AppealsSpec => []AppealsTypeOK` |
| `VerdictsDecideExecutions` | `AppealsSpec => []VerdictDecidesExecution` |
| `RetriesAreReplayed` | `AppealsSpec => []RetryIsReplayed` |
| `VerdictsAreFinal` | `AppealsSpec => VerdictIsFinal` |
| `OffersAreTaken` | `AppealsSpec => []OfferedIsTaken` |
| `ReadingsAgree` | `AppealsSpec => []CountsAgree` |
| `ReportAddsUp` | `AppealsSpec => []CreditedToWhoServed` |

The first five rest on one inductive invariant: the properties, the types and one more conjunct,
`WonByAppellant`: the execution an accepted appeal leaves is its appellant's. The argument is three lemmas about one step:
`AppealsMove` (an appeal appears only where there was none, and leaves PENDING only in a decision that
re-read it), `ExecutionsMove` (the stop gets its APPEAL execution in that very step) and
`NoticesMove` (the managers hear of it in the step that files it).

The last two theorems are of `PointDays`. For `CountsAgree` the points of the board are a partition
(done, in a batch, free), so the board's subtraction is the count of the free ones, and the tallies of
`point_outcomes` that stand at UNSERVED are in a bijection with the points the alert counts.

`CreditedToWhoServed` has three parts. A worker is credited with a point-day exactly when they served
it or won an appeal over it (`Credit`). The executions of the whole report are those of the workers' own
reports together; this needs `OwnersMatch`, an invariant of its own: executions and appeals are of the worker the
stop was handed to, on a day the point was there. And every number of a report is the
sum of that number over its periods, whatever their length, because the periods cut the report's days
into disjoint pieces. The sums are folds over finite sets. That they add up is an
induction over the set, done as a descent along strict inclusion (`WFMin` of the library), which
unlike the induction theorems asks for a set of counterexamples and not for an operator. `NothingOpen`
is a bound that only TLC needs; the proof does not use it.

Assumptions: `Points` and `Workers` are finite, and `Anybody`, the tally of a point nobody touched, is no
worker.

### Alerts proved

`BackgroundProofs` proves `AlertTypes`, `ManagersAreNotifiedOnce` (`AlertsSpec => []NotifiedOnce`) and
`HandledAlertsStayHandled` (`AlertsSpec => HandledStaysHandled`), for any number of scans, keys,
managers and failures. `NotifiedOnce` does not say who may still notify. The invariant does: rows that
a pass has inserted are nobody else's and not there for anybody (`InsertedOnce`, which is where ON CONFLICT
and its wait come in), what a pass has still to fan out was told to nobody and is in no other
pass's hands (`AboutToNotify`), and whoever acknowledges had the alert OPEN (`HandledIsThere`).

### Release scan proved

`BackgroundProofs` also proves `ReleaseTypeCorrect` (`ReleaseSpec => []ReleaseTypeOK`) and
`PresentWorkerKeepsBatch` (`ReleaseSpec => WorkerOnCampusKeepsBatch`), for any delays, any clock and any
skew of a phone, ahead or behind. A pass decides on recorded fixes, and the property speaks of where the worker was. `StrayInv` is
the bridge: no fix from outside is stamped later than `lastOut + skew`. It has to hold of fixes still in the
outbox or in a request too, because those become the evidence of a later pass. `StampInv` says that a live batch
has its stamp, so that the comparison with `last_allocated_at` is made. `JudgedInv` carries what a pass has
judged over to its release: a newer fix outside, and one long enough ago with no position inside and no scan
after it but the unread ones. It survives the steps in between because no position and no batch is
committed while the pass holds the route, which is where the type invariant is needed: the pass holds
it exactly while it has a judgement (`locked = "PASS" <=> pass # "NONE"`).

### Board proved

`RecordsProofs` also proves `BoardTypeCorrect` and `ScreenShowsBoard` (`BoardSpec => []ScreenCatchesUp`), for
any routes, workers and alerts. A poll reads the board in six queries, and the invariant (`PollInv`) says what
it holds between two of them: if nothing committed since it began, its board is what six queries at this
moment would have given of the parts asked so far (`BoardSoFar`). A poll that something overtook may hold a
board that never was; its digest then differs or it is the same board, and since the digest is that of the
screen whenever there is one, the next quiet poll sends what differs. Assumption: `MaxDate` and
`MaxCommits` are positive.

### Service types proved

`CatalogProofs` proves `CatalogTypes`, `PointsAreServable` (`CatalogSpec => []PointIsServable`) and
`PointsFollowBuildings` (`CatalogSpec => []PointFollowsBuilding`), for any number of companies, types, points and
dialogs. Nothing is locked, so the invariant says what survives the wait between the
judgement and the commit: a type that was tied is tied or gone (`EditedTypeIsTied`), a point being
created has no row and is remembered if its outline is out of date (`CreatedInPlace`), and the points
of an open redrawing stay (`MovedAreThere`, their rows are locked). The foreign keys do the rest.
Assumption: `"NONE"` and `"UNTIED"` are not companies and `"NONE"` is no type.

### Deletion proved

`CatalogProofs` also proves, for any points, routes and number of overlapping deletions:

| Theorem | Says |
|---|---|
| `DeletionTypes` | `DeletionSpec => []DeletionTypeOK` |
| `OrdersAreDistinct` | `DeletionSpec => []OrderIsDistinct` |
| `UndisturbedDeletionsSucceed` | `DeletionSpec => []UndisturbedDeletion` |

`OrderIsDistinct` is far from inductive: a commit writes numbers that were counted many steps
before, some of its rows renumbered and committed by another deletion since. What makes it true is
that renumbering is stable. `HeldByOne` is the row locks: a stop is deleted or renumbered by one open
deletion at most. `NumbersByRank` says that the new numbers keep the order of the old ones and do not pass
the highest stop deleted, `NewcomersAfter` that what a claim added since comes after all of
them, and `ClaimsComeLast` that a claim in flight has a number above its whole route. So a commit never
moves one stop past another, and what the other deletions counted still stands (`StopsStand`,
`OnSettledRoutes`). All of this (`Stable`) holds while no deletion deletes `again` what another one did.

`Undisturbed` is the second half: of a deletion that nothing overtook, all the stops of its points are
its own (`Alone`), what hangs on them is what it counted and then what it deleted (`CountStands`), and
nothing is left of the routes it emptied (`RoutesCleared`). So the foreign keys have nothing to
refuse, and the count it audits is what it deleted.

Assumption: stops and routes are told apart. That only finitely many stops are ever there is part of
the invariant (`References`) and not assumed. TLC checked the invariant before it was proved, on the instance of the run and, for
`Stable`, with three deletions.

### Accounts proved

`AccountsProofs` proves `AccountsTypeCorrect`, `LatestReviewStands` (`AccountsSpec => []LastReviewStands`) and
`TrailExplains` (`AccountsSpec => []TrailExplainsProfile`), for any number of users, reviewers and notices.
Reviews lock nothing, and yet the status is that of the latest verdict (`StatusIsVerdict`). The reason is
`ReviewAllowed`: a verdict is only allowed on a copy with another status, so it is
among the columns that changed and is always written, whatever the row holds by then. For the trail, an
entry whose `before` is the `after` of the entry before it was judged on a copy that is the row, so
what was written is what the entry says (`TwoEndsAgree`). Assumption: the roles are among the three
of the code and FIELD_WORKER is one of them, and there is a notice.

### Floor scans proved

`ExecutionProofs` also proves `ScanTypes` (`FloorScansSpec => []FloorScansTypeOK`) and `ScansFindTheirRooms`
(`FloorScansSpec => []ScanFindsItsRoom`), for any number of rooms, visits and requests in flight. The
scan names no room, so the invariant (`RoomsAsVisited`, while nothing was given back) says why the room
meant is always a candidate: a room waits PENDING until the check-in of its own visit is on record
(`RoomsWaitForTheirVisit`, with `VisitsApart`), its execution stays open until its own check-out
(`ClosedByTheirOwn`), and the app sends no check-out before the check-in is on record, unless the route is no
longer today's or the code was revoked, and then the request gets no further (`OnlyAfterTheCheckIn`).
`MeantRooms` says that `resolve_room` never drops the room meant from the candidates. Once a stop is
given back the invariant ends, and finding 6 is what comes after. Assumption: `"NO_ROOM"` is
not a room, `"NO_VISIT"` not a visit.

### Components together proved

The runs check several components in one model, the theorems above are about one component each.
`WorkIsItsParts`, `BackgroundIsItsParts` and `RecordsAreTheirParts` close the gap: every behaviour of
`WorkSpec`, `BackgroundSpec` or `RecordsSpec` is a behaviour of each of its components, so every
theorem about a component is one about the model. The bounds of the MC modules only take behaviours
away. `WorkTypes`, `BackgroundTypes` and `RecordsTypes` (`WorkTypeOK`, `BackgroundTypeOK`,
`RecordsTypeOK` always) follow from them and the types of the components. Fairness is not passed on in this way: a
component's fairness condition is void in the model when another part is running.

### Only model-checked

- `DaySettles`, `ExpiredRowsGo`, `PastDayCloses` and `ViolationsRecorded` are liveness under fairness, which
  the prover does not reach: it cannot reason about ENABLED, and so not about weak or strong fairness.
  Every other property of a passing run is a theorem.
- The six properties of the findings are false, and TLC shows by which steps. For three of them it
  is proved that they hold when one overlap does not happen: `ReviewsStandApart` (findings 1 and 2) and
  `LoneIssuesKeepOneActive` (3). For two a neighbouring property is proved: `KeptPhotosHaveObjects` with
  the script in its maintenance window (5) and `ScansFindTheirRooms` while nothing is given back (6).
  Finding 4 needs no overlap, so there is nothing to exclude.

## Findings

1. **A late photo undoes a manager's resolution** (`execution_resolved`). The docstring of
   `reconcile_evidence_flag` says a RESOLVED review is never touched. It decides on the copy loaded
   before the photo was put in the store; a resolve committed in between is overwritten with `NONE`.
2. **A check-out anomaly may reach nobody** (`execution_anomaly`). The comment in `check_out` says
   it must reach a human even if the review was resolved. When the review is resolved after the
   check-out loaded it pending, the column is unchanged and therefore not written.
3. **A floor may have two ACTIVE codes** (`qr_one_active`). Two issues that overlap between the two
   reads of `issue_qr_code`.
4. **A revoked floor may still accept scans** (`qr_revoked`). No race: replace a code, then revoke
   the new one; the replaced code is still accepted, without a flag.
5. **The orphan script may delete the object of a committed photo** (`evidence_orphans`). It reads
   the referenced keys before it lists the bucket; a photo uploaded in between is taken for an
   orphan, although the docstring says referenced keys are never touched.
6. **A check-out may close another visit** (`floor_checkout`). The comment in `check_out` says that
   when a stop was released before its two scans synced, the check-out gets the answer the check-in got. It
   does only if the worker has nothing else open on the floor; otherwise the late check-out closes
   what is open there.

Smaller things met on the way, which no run is about: `notify_alert` writes to inactive managers while
`notify_impediment_reported`, "same audience as notify_alert", does not (`notifications.py:122`, `:144`);
a check-in or check-out that commits after the release scan has read the scans and before its `UPDATE` does not
save the batch, although a scan says that the worker is on campus (`release_scan.py:147`, `release.py:118`);
the stretch outside is dated from the first outside fix since the worker was last seen inside, even one older than
the batch, so a single fix outside after a new batch can release it at once (`release_scan.py:142`);
the history filters by the UTC date of a check-in, the rest of the system by the campus day; the text of
`POINTS_UNSERVED` keeps the number it was first inserted with; the missing-evidence rule never looks at a route that is DONE before
the grace period of its last stop ends (`scan.py:115`); the second of two overlapping deletions of one
point audits what the first one removed; two overlapping deletions of one point, with a third of another
point and a claim in between, can leave two stops of one route with the same `order_index`, because the later one
writes numbers counted with stops that are gone (`_settle_routes`, `deletion.py:142`; found when
`OrderIsDistinct` turned out not to be inductive for three deletions); an issue that read the ACTIVE code before
its revocation committed writes REPLACED over REVOKED (`qr/service.py:61`), so scans of the revoked code
are accepted again; consent is recorded for the notice that is current when it
commits, not for the one that was shown (`auth.py:218`).

## Not modelled

- The order in which requests take row locks, except inside `Allocation`, `StopExecution` and
  `PointDeletion`: a deadlock victim is a rollback there and cannot happen elsewhere in the models.
- The notification centre (`notification_service.py`): reading and marking as read writes only
  `read_at`.
- Editing the settings during a day. A model would let every bound of `Allocation` and `ReleaseScan` move; the code
  reads the settings row once per request, and the effect is that of two days with different settings.
- Text notes, names and descriptions, paging and detail queries, the export of personal data: they
  change or read nothing that a property tells apart.
- Floating-point distances and the clipping of footprints. `FloorScans` uses in or out of the building.
- Cryptography and PDF layout of the QR sheet, OSRM, mail, push, tokens and rate limits, seed and migrations, the layout
  of reports. They have no state of their own that the properties above depend on.

What could follow: a lock-order model of all handlers, and the settings edited during a day.
