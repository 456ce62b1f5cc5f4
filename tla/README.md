# BODP: verification project

TLA+ modules, TLC configurations and TLAPS proofs for the Bangladesh Ocean Data Portal backend
(`src/backend/app`). The modules describe what the code does, not what its documents say it does;
where the two differ, a run shows the difference and `PROJECT.json` lists it under `findings`.

## 1. The system

A FastAPI application (several worker processes), PostgreSQL, a Redis broker with Celery workers
(a default queue, and an `ingestion` queue with one process), and MinIO object storage. A Next.js
frontend only calls the API. All coordination goes through the database: no component keeps state of
its own between requests, except the broker (messages), Redis (a cache) and the object store (objects).

| Component | State | Operations | What is hard |
|---|---|---|---|
| Requests and grants (`services/requests_service.py`, `routers/requests.py`) | `dataset_requests`, `access_grants`, `users.datasets_granted` | submit (with document), approve, reject, extend, revoke | status tests on loaded rows, no row lock, cached counter |
| Dataset life cycle (`services/admin_datasets_service.py`) | `datasets.status` | publish, unpublish, archive, unarchive, delete permanently | cascade that commits per grant, pending attribute changes, `ON DELETE CASCADE` under running handlers |
| Account deletion (`worker/tasks/notifications.py`, `services/profile_service.py`) | `users.deletion_requested_at` | request, withdraw, daily sweep | one transaction for all users, races with the API |
| Extraction and download (`services/extraction_service.py`, `worker/tasks/extraction.py`) | `subset_extractions`, `download_logs`, extracts/ objects, messages | create, dispatch or run in-process, run, download | commit then dispatch, late acknowledgement, redelivery, killed children, revocation while running |
| Uploads (`services/dataset_multipart_upload_service.py`, `services/dataset_file_service.py`) | `uploads`, `dataset_files`, multipart sessions, raw/ objects | initiate, presign, mark part, complete, small file, cancel | storage and database are not one transaction; cancel against the task |
| Ingestion (`worker/tasks/ingestion.py`) | `dataset_files`, `datasets` aggregates, processed/ objects | task with checkpoints and cleanups | cooperative cancellation, redelivery, soft time limit |
| Snapshots (`worker/tasks/snapshots.py`, `catalog_service.get_dataset_snapshot`, the chart of `visualize_service.py`) | snapshot object, `datasets.snapshot_version`, Redis cache | build, serve, chart | overlapping builds, object and row stored apart, a cache without versions |
| Sessions (`services/auth_service.py`) | users, `user_sessions`, login attempts | sign in, refresh, log out, reset | lockout count, revocation against rotation |
| Users and roles (`services/admin_users_service.py`, `admin_roles_service.py`) | users, roles, user_roles | invite, status, anonymise, assign, remove | row lock on one side only |
| Storage integrity (`worker/tasks/integrity.py`, `scripts/`) | none | two-way comparison | known keys read before the listing |
| Backups, reports, bulk import, exports (`worker/tasks/*.py`) | job rows, objects | run, sweep | rows left running |
| Content of a dataset (`services/catalog_service.py`, `visualize_service.py`, `tabular_query_service.py`, `gridded_query_service.py`) | `dataset_records`, Parquet tables, Zarr grids, `dataset_variables` | counts, previews, charts, schema review, QC scan, backfill | three storage tiers that must answer one filter alike, coverage stored with a version |
| Parsers and extractors (`services/parsers/`, `services/extractors/`) | none | parse, register variables, cut to a scope | six formats, aliases of coordinates, one scope |
| CMS, support, settings, e-mail, frontend | single rows | CRUD, queries | little coordination |

How they meet: an approval creates a grant; a grant permits extractions; archiving or deleting a
dataset and the deletion sweep revoke grants; every revocation fails the extractions it finds in
flight; deleting a dataset deletes requests, grants, extractions and logs through foreign keys; a
finished ingestion changes the dataset that grants and snapshots refer to.

### What is common to all of it

* A handler `SELECT`s rows into Python objects, tests them there, and commits `UPDATE`s addressed by
  primary key. Isolation is READ COMMITTED and (except in role assignment) no row is locked. A handler
  is therefore a *Load* step and a *Commit* step, and every other session may step between them.
* SQLAlchemy sends an `UPDATE` only for columns whose value differs from the loaded one; an `UPDATE`
  that matches no row raises `StaleDataError` and the transaction is lost, a `DELETE` that matches none
  only warns.
* The asynchronous session has `autoflush=False`: a change to an attribute reaches the database with
  the next commit of that session, whichever call makes it.
* Celery runs with `task_acks_late` and without `task_reject_on_worker_lost`: a lost worker's message
  is delivered again, a killed child's message is acknowledged.

## 2. Modules

| Module | Models | Extends |
|---|---|---|
| `AccessRequests` | requests, grants, dataset life cycle, deletion sweep | |
| `SubsetExtraction` | extractions, their messages and objects, downloads; composed with the grants | `AccessRequests` |
| `UploadPipeline` | uploads of both kinds, their storage sessions and objects, cancellation, the ingestion task | |
| `DatasetSnapshot` | the default-view snapshot of a dataset, the cache its chart goes through, ingestion and deletion as they touch it | |
| `SessionRegistry` | abstract: what the sign-in code promises of a session | |
| `Accounts` | accounts, sign-in sessions, the lockout, roles under their row lock; implements `SessionRegistry` | |
| `StoredObjects` | objects of every kind and the rows that name them, reports, backups, retention, the orphan sweep | |
| `Observations` | time, buckets, filters and means, common to the three storage tiers | |
| `Tables`, `Grids` | the queries of a Parquet table and of a Zarr grid | `Observations` |
| `Records` | rows in PostgreSQL: how a table is written as rows and how they are counted; the registry of variables | `Tables` |
| `Charts`, `Catalogue` | the charts and counts over all three tiers; the selector, the filters and the QC scan | `Records`, `Grids`; `Charts` |
| `Scopes`, `Parsing` | the extractors and the check of a scope against a grant; the parsers | `Tables`, `Grids`; `Scopes`, `Records` |
| `DatasetQueries` | a dataset that is counted, backfilled, reviewed and extended at a time; composes the six above | `Catalogue`, `Parsing` |
| `AccessRequestsProofs`, `SubsetExtractionProofs`, `UploadPipelineProofs`, `DatasetSnapshotProofs`, `AccountsProofs`, `StoredObjectsProofs`, `DatasetQueriesProofs` | theorems | the modules they are about |
| `ContentProofs` | lemmas about finite sets, tables, grids, scopes and charts | `Scopes`, `Charts` |
| `MC...` | instances for TLC, one per module with a `Next` | the modules they instantiate |

### AccessRequests

`request`, `grant`, `dataset`, `granted` and `deletion` are columns; `session[h]` is what worker `h`
has loaded. Workers are API handlers and executions of `process_pending_deletions`; a configuration
may give one worker both roles.

* `SubmitLoad`/`SubmitCommit` are `create_request`; `AttachCommit`/`AttachFail` the supporting document
  that `submit_request` stores afterwards. A failure deletes the committed request, whatever became of
  it, and the foreign key sets `access_grants.request_id` to NULL.
* `ApproveLoad`/`ApproveCommit`, `RejectLoad`/`RejectCommit`, `ExtendLoad`/`ExtendCommit`,
  `RevokeLoad`/`RevokeCommit` are the functions of those names. `CacheCount` and `WriteCount` are the
  read-modify-write of `users.datasets_granted`.
* `PublishLoad`, `UnarchiveLoad`, `StatusCommit`; `ArchiveLoad`, `ListGrants`, `CascadeRevoke` (one
  commit per grant, the first also flushes the pending `archived`), `ArchiveCommit`; `DeleteLoad`,
  `ListGrants`, `CascadeRevoke`, `DeleteCommit` (`ON DELETE CASCADE`).
* `SweepLoad`, `SweepUser`, `SweepCommit`: one transaction over all due users; a row that vanished
  rolls all of it back.
* `Abort(h)`: the worker dies or its commit fails. What it had committed stays.

Abstracted: justifications, scopes, audit entries, e-mails (no property reads them). Dates are small
naturals; a custom expiry is absolute and may lie in the past, as `compute_expiry` allows.

### SubsetExtraction

Adds `extraction` (rows), `messages` (the broker), `extracts` (stored objects), `downloads` (log rows),
`job` (what each client request or worker process is doing) and `selected` (in-flight extractions a
revocation has loaded). `process_extraction` is the same code in a worker and in the API process, and
here the same actions for both kinds of actor: `Start`, `PutOutput`, `Complete`, `Fail`, `RowGone`. The
revoking commits of `AccessRequests` are conjoined with what they write to extractions
(`RevokeAndInvalidate`, `CascadeAndInvalidate`, `SweepAndInvalidate`), and `DeleteCommit` with its
cascade (`DeleteAndCascade`). `WorkerLost`, `Redeliver` and `ChildKilled` are the environment. Reading,
filtering and writing the data is one step that succeeds (`PutOutput`) or raises (`Fail`).

### UploadPipeline

`upload` and `file` are the rows of `uploads` and `dataset_files`; `counted` is how often a file's content
entered `datasets.version` and `record_count`. `sessions`, `parts`, `raw` and `processed` are storage,
`messages`, `restored` and `revoked` the broker, `job[c]` one API request and `run` the one process of the
`ingestion` queue (concurrency 1 in `docker-compose.yml`). An upload, its file, its objects and its task
share a key.

* Multipart: `InitiateStorage`, `InitiateCommit`, `PutPart` (the browser, straight to storage),
  `CompleteLoad`, `CompleteStorage`, `CompleteCommit`, `Dispatch`. Single request: `SmallStorage`,
  `SmallCommit`, `Dispatch`. Every handler is cut where it calls storage and where it commits, since only
  the commit is atomic with the database; `ClientLost` ends a request at any cut.
* `CancelLoad` fixes what the cancellation does (`CancelSession`, `CancelObject` or `CancelTask`), by the
  status it loaded; `CancelCommit` writes `cancelled` over whatever the status has become.
* The task: `TaskSkip` or `TaskLoad`, `TaskBegin`, then `Download`, `Convert`, `PutProcessed`, each behind
  a checkpoint, `LastCheckpoint`, `RegisterCommit` and `Finish`, two commits. `CheckpointCancelled`,
  `Fail`, `SoftTimeLimit` and `ZarrUploadFailed` lead to the handlers' clean-up (`UndoProcessed`,
  `DropRow`, `CleanupFails`) and to the terminal status (`WriteTerminal`), which has a session of its own.
* The environment: `WorkerLost`, `Redeliver` (the visibility timeout), `Killed` (the hard limit, or an
  exception outside the handlers), `Terminated` and `Discard` (the broadcast `revoke`).

Abstracted: `mark_part_uploaded`'s progress estimate and the presigned URLs, which nothing decides on
later; the second commit that stores `celery_task_id`; the registry's contents, quality issues and
record rows; the snapshot that the task dispatches. The clean-up script for orphaned uploads is run by
hand, and permanent deletion of a dataset belongs to `AccessRequests`.

### DatasetSnapshot

`dataset` is the row (version, `snapshot_version`, and the request for the default chart), `object` the
stored snapshot, `cache` Redis, `pending` the number of messages, `ingestion` and `deletion` what those two
are doing, `job[a]` one build or one request for a chart.

Data is named, not represented: a part of a payload is the dataset version at which it was read (0: none).
A chart is asked for with a *request*, a variable and dates. Viewers may ask for any; a build asks for the
default one, the first variable that may be charted with all dates of the dataset. The cache is keyed by the
request, as the code's key is a digest of it, so builds and viewers share what either has cached.

* `Ingest` (the commit with the new version, and perhaps other dates), `IngestDispatch`, `IngestLost`;
  `IngestWithdraw`, the clean-up of a repeated ingestion that removes an ingested file: other dates under the
  same version, and no build. `ReviewRoles`, an administrator's change of the variables that may be charted, has
  no new version either. `DeleteObject`, `DeleteCommit`, `DeleteLost`.
* A build: `BuildSkip` or `BuildLoad` (the row, once), `BuildBody` (every query of its own), `BuildRequest` and the
  chart, `BuildPut`, `BuildRow` (the row again, in another session) and `BuildCommit`, whose `UPDATE` is left out
  when the value loaded is the value set (`Pointer`). `BuildFails`, `BuildLost`, `BuildRedelivered`.
* A chart (`get_timeseries`), asked for by `BuildRequest` or `ViewLoad`: if the row was fresh, `ChartMatch` (the dates
  are all of the dataset's) and the snapshot (`ChartFromSnapshot`, `ChartNoSnapshot`), then the cache
  (`ChartFromCache`) or the computation (`ChartCompute`) and its storing (`ChartStore`, `ChartNotStored`).
  `CacheExpire` is the 300 seconds.
* History: `overlapped`, a build has begun while another was under way; `since`, the version at which the default
  request became the default; `foreseen`, a chart of it was then already cached, stored or on its way, or content
  had been withdrawn.

Abstracted: each of the body's queries could see a later version than the one before it; `BuildBody` names
the earliest (what is served is of the row's version, and nothing can have been read at a later one). A viewer's
other parameters, which no build sends, are left out. The catalogue's record preview
has a cache of its own that no build reads. Readers of the object change nothing.

### Accounts and SessionRegistry

`account` is a row of `users`, `assigned` counts the rows of `user_roles`, `roleRow` the roles, `session` the rows of
`active_sessions`, `failures` the failed logins inside the window, `lock` who holds a users row `FOR UPDATE`, `job[h]`
what request `h` is at and has read. `unrevoked` and `unsynced` are history: a password change whose revocation was
lost, a role change made from a copy that was read before another one committed. A session's `late` says that its
login overlapped a change. A password is the number of times it was set (`changes`); `closing` is that number at the
last change that revokes sessions: a reset, a change, an anonymisation. An account with `invited` has an invite link.

* `Register`, `Invite`, `InviteAdmin`, `ConfirmInvite`, `VerifyEmail` are single commits.
  `ConfirmInvite` sets a password each time the link is used before it expires, and revokes nothing. A login is `LoginCheck`
  (lockout and status), `LoginVerify`, then `LoginFail` or `LoginIssue`, with `FailureExpires` as the window.
* `RefreshLoad`/`RefreshCommit`: `UPDATE` of `last_active` only, so a revocation in between is not undone.
  `RevokeSession` is log-out. `PasswordLoad`/`PasswordCommit`, then `RevokeList`/`RevokeCommit`, a second
  transaction, are reset and change. `StatusLoad`/`StatusCommit` suspend and activate.
* `AnonymizeLoad`, `AnonymizeSessions`, `AnonymizeRoles`, `AnonymizeCommit`: three reads and one commit.
* `AssignLoad`/`UnassignLoad` read the user, `LockUser` takes the row lock, `AssignCommit`/`UnassignCommit`
  recompute the role from the assignments read under the lock but write it only where it differs from the
  copy read before it. `CreateRole`, `DeleteRole`; `Abort` is a lost request, which gives its lock back.

Abstracted: tokens and their signatures, the time of a lockout, who knows a password, permissions of a role.

### StoredObjects

`objects` are the keys stored, `named` those a committed row names, `task` the rows of reports and backups,
`messages` their tasks, `expired` the backups past their retention, `job[w]` what a worker is at, `sweep` the
run of the orphan sweep. `touched`, `abandoned`, `swept` are history: what changed while the sweep ran, what a
lost worker left half deleted, what the sweep's script deleted (both without what was stored again since).
The key of an upload carries a new uuid and is used once; that of an artifact carries its file's id (`keys.py:39`), so
every delivery of an ingestion stores under the same key. A Zarr store, a kind of its own (`Zarrs`), is a prefix.

* An upload is `Put` (the storage call, one action per kind) and `CommitRow`, `CommitMetadata` or
  `CommitAvatar`; `ForgetAvatar` and `DocumentFails` are the compensations. A removal is `RemoveFile`,
  `CleanupUpload` (the script, which leaves a Zarr store) or `RemoveMedia`, then `DeleteObject`, the objects first,
  and `RemoveCommit`.
* An ingestion that is cancelled, times out or fails its upload removes the file's row: `AbandonIngestion` before it
  has stored an artifact, `WithdrawArtifact` after it has deleted the one it stored, which an earlier delivery may
  have committed, `KeepArtifact` where it leaves it. The row goes with `RemoveCommit`, or stays if that fails (`Lost`).
* A task: `CreateReport`, `CreateBackup`, `ScheduledBackup`; `GenerateReport`, `PutReport`, `ReportCommit`;
  `StartBackup`, `PutDump`, `BackupCommit` or `BackupFails`, `RetentionLoad`, `DeleteObject`, `RetentionCommit`.
  `Lost` leaves the message, so a task may run again.
* The sweep: `SweepStart`, `CollectKnownKeys` (table after table), `CheckKey`, `ListPrefix` (prefix after prefix),
  `DeleteOrphan` (the script with `--delete`), `SweepEnd`. A Zarr store's prefix is not looked up (`Checked`).

### The content of a dataset

`Observations` to `Parsing` have no state: a table, a grid and a set of rows are values, and every query of the
services is an operator on them. A timestamp counts ticks and a date days, so that the difference between a
date and the midnight it begins with is kept; `None` is SQL's NULL and xarray's NaN, with the comparisons of
each. A mean is a sum and a count, compared by cross-multiplication. What is abstracted: values are integers,
a month has `DaysPerMonth` days, text is compared by name, the projection of a raster is a constant operator.

`DatasetQueries` composes them. `ingested` are the files of the newer tiers, `records` the rows of the older
one, `record_count` the column of that name (rows, cells and pixels, raised by each delivery and never lowered),
`registry` and `reviewed` the schema, `request[a]` a stored request with its coverage, `op[a]` what a
process is at. `raced`, `finished`, `exempt` and `repeated` are history: files that two scripts wrote at once, files whose
copy is complete, variables whose role a review could not see, files delivered again or taken away. The constant
`Others` are rows of other datasets, which one query reads as well.

* `Ingest(f)`: artifact, registry, version and `record_count`, one commit; of a file that is there already, a repeated
  delivery, which raises both once more. (`UploadPipeline` has how it gets there. The `ingestion` queue has one process, so
  two of these commits do not overlap.)
* `RemoveFile(f)`: the row of an ingested file and its records are deleted, by the clean-up of a later delivery or by a
  cancellation that had found it queued; version and `record_count` stay as they are. (That the artifact may be lost while
  the row stays is in `StoredObjects`.)
* `RequestLoad`, `CountMatching`, `CountTotal`, `CountFiles`, `RequestCommit`: the version is that of the load,
  each count a statement of its own. `ListRequestsForAdmin` shows the counts and `is_stale`.
* `BackfillStart`, `BackfillCheck` (eligibility of every file, before the first is written), `BackfillClear` (the
  delete and its commit), `BackfillCopy` (a committed chunk), `BackfillNext`, `BackfillDone`: the script.
* `ReviewCount`/`ReviewCommit`, `RolesLoad`/`RolesCommit`: the approval and the change of a variable's roles.
* `Lost(a)`: a killed process leaves what it has committed.

`TiersAgree` compares the two tiers where the code means them to be comparable (`SameInBothTiers`: the filter
compares only what the table has, and every row can be written); `ChartsAgree` and `WithinScope` are about
what readers see in any content that is reached. `ChartsAgree` says of each chart what the code means to
promise, under the conditions where it does: `Dated` (a table whose view has two columns of one name, or a time
that is not set, makes the query raise), `SideBySide` (the map reads the values of a grid and the coordinates of
its places one beside the other, whatever the dimensions of each), one grid for the statistics, for the
spatial job the stations that no other dataset has rows of, and for the extent no
rows of the older tier beside dated files and no time column that only the queries find.

## 3. Runs

| Run | Instance | Shows |
|---|---|---|
| `access_concurrent` | two workers, one of them also the sweep; 2 requests, 2 grants, one user and dataset | what survives every interleaving: grants are traceable, approvals have grants, deletion leaves nothing, revocation is final |
| `access_serial` | one worker (either role), 3 requests, 3 grants, expiry in past or future | without overlap: one grant per request, exact counter, complete cascade |
| `access_sweep` | one handler, one sweep, fairness of the sweep | every active grant of a due user is revoked in the end |
| `extraction_safety` | one extraction, two clients, two workers, one revoking worker | rows, objects, messages and logs stay consistent under loss, redelivery and revocation |
| `extraction_liveness` | one client, one worker, fair workers, no killed child | a dispatched extraction settles |
| `upload_safety` | one upload, three requests, two parts, killed tasks, one redelivery | sessions are closed, queued and complete uploads have what they name, a file is counted once per delivery |
| `upload_liveness` | one upload, one request, two redeliveries | a dispatched upload settles |
| `snapshot_builds` | two builders, one of them also a viewer of any dates, two versions, one fault | no part that a build reads is older than the payload's stamp; without overlapping builds, what is served as fresh is of the dataset's version, and its chart not older than the request it answers |
| `accounts` | two requests on one account, one session, two roles | roles follow assignments, a reset or change ends the sessions of the password before it, the lockout is overshot only by requests in flight, an anonymised account is bare; `SessionRegistry` is implemented |
| `account_stale_role` | two requests, three roles, no sessions | a change under the row lock can leave `users.role` out of step with the assignments (finding) |
| `stored_objects` | two workers, nine keys of eight kinds, one sweep | what rows name is stored although ingestions are repeated and withdrawn, backups survive reruns and retention, the sweep's findings are exact |
| `dataset_queries` | a file of every format, delivered twice and removed, two processes, three filters, another dataset's row | coverage is fresh unless called stale, both tiers answer alike, a reviewed schema is assigned, charts and counts agree, downloads stay in their scope |

`OneGrantPerRequest` and `CounterMatches` fail once two handlers overlap, for one reason: a status test on a row
that is not locked (`requests_service.py:384`; `tests/test_requests.py:334` approves twice, but in sequence). The
two `DispatchedSettles` fail with `ChildKills` or `Kills`: nothing looks for rows that a killed process left in
`processing`.

`ServedIsCurrent` and `ServedChartFitsRequest` say `~overlapped`, and fail without it. The default queue has
four processes in production (two in development) and one task per ingestion: two ingestions in quick
succession may be built at the same time, and nothing orders the two storage writes and the two commits, so
the object of one version can end up under the pointer of the other. `StampNotNewer` needs no condition.

The other conditions in the properties stand for what the code does not promise, each with its place:
`CoverageFresh` says `quiet` because the backfill changes rows without a new version
(`scripts/backfill_dataset_records.py:56`), and so does the removal of an ingested file
(`tasks/ingestion.py:828`); `ServedChartFitsRequest` says `~foreseen` because a chart that anybody has asked for is
served from the cache when its dates become the default ones (`visualize_service.py:132`);
`SessionsFollowPassword` speaks of `closing` because the invite link sets a password and revokes nothing
(`auth_service.py:288`), and excepts logins that overlap, and a revocation that is under way or was lost between its
two commits; `NamedHasObject` excepts what a deletion that still has to commit, or never did, has taken away;
`IncompleteHasReason` excepts `repeated` because `record_count` is never lowered (`tasks/ingestion.py:731`);
`TiersAgree` excepts files that two scripts wrote at a time
(`raced`) or that no script has finished, because eligibility is decided before the first file is written and
a dataset with rows is never eligible again; `ReviewedIsAssigned` excepts variables that an ingestion added to
a reviewed schema, or whose roles were changed by a handler that had loaded the dataset before the approval
(`admin_dataset_schema_service.py:111` says every change withdraws it).

### Divergences without a run

Where the code does something else than a comment, a document or a sibling function leads one to expect. They
were met while modelling; the modules have the code's behaviour.

* Requests, extractions, uploads: `process_extraction` completes an extraction that a revocation has failed
  meanwhile (`tasks/extraction.py:42`); `download_extraction` tests the grant's status and not its date, and
  nothing sets the status `expired` (`routers/requests.py:183`); cancelling a queued single-request upload
  keeps its file (`dataset_multipart_upload_service.py:247`); `process_dataset_file` commits `processing` over
  a cancellation committed after it loaded the upload; the clean-up of a repeated ingestion removes a file that an
  earlier delivery has ingested, under the same version, so that a request's coverage is not called stale
  (`tasks/ingestion.py:828` against the comment at `:725`).
* Accounts: an invite link can be used again until it expires, and sets the password without revoking the sessions
  of the one before (`auth_service.py:288`; a reset revokes them, `:270`).
* Snapshots: a chart of the previous version, taken from the parameter-keyed cache, is stored as part of the
  fresh one (`visualize_service.py:132`, `:710`), and so is one that a viewer has asked for with dates that are the
  dataset's by now; permanent deletion removes the snapshot before its commit,
  and readers fall back to live queries.
* Objects: the sweep's documentation counts avatars among what it checks, and it does not look them up; a Zarr store
  that is gone is never reported, although the listing, which is said to cover it, only finds what is there
  (`tasks/integrity.py:171`); the script for orphaned uploads deletes an artifact that is one object, and leaves a
  Zarr store (`scripts/cleanup_orphaned_upload.py:83`); a bulk import that is delivered again registers its file a
  second time (`scripts/bulk_import.py:194`).
* Tiers: a Parquet filter on a column that the file lacks matches every row, in PostgreSQL it matches none
  (`tabular_query_service.py:407` says the opposite); the statistics average the days of two grids together
  (`visualize_service.py:1635` says the numbers cannot differ); the spatial job ignores dataset, box and depth for the
  rows of PostgreSQL (`tasks/visualize.py:73`; `:113` says both kinds are combined identically), so at a station that two
  datasets share it shows the latest row of either; the dataset's extent
  ignores its rows once one file is dated; in a box, `where` repeats a variable along the dimensions it lacks, so
  more can match than there is; the preview of a grid stamps every row with the first time; the map of a grid whose
  variable has its places in another order than the coordinates, or after another dimension than the time, puts values at
  the wrong places (`gridded_query_service.py:256`); a time column that the detector has not named is charted
  and is not in the extent (`tabular_query_service.py:209`).
* Scopes: the last day of an extraction's date range ends at its midnight, that of a query at its end
  (`scope_filter.py:54` against the comment at `:21`).
* Quality control: the duplicates of PostgreSQL's rows are found by day, those of a file by moment
  (`tabular_query_service.py:1054` says exactly); every grid and raster is reported to miss values, because only
  declared counts include its cells (`admin_qc_service.py:165`, `:190`), and so may be a dataset whose file was delivered
  again or removed (`tasks/ingestion.py:731`).

Bounds. `Requests`, `Grants` and `Extractions` are keys, each used once: two of each are enough for two
actors to collide on one row and on the user's counter, three requests are needed in the serial run for
a counter that goes up, down and up again. One user and one dataset maximise sharing. Two workers of a
kind overlap in every order; a third adds no new pair. `MaxTime` and `MaxExpiry` bound the clock so that
a grant can be live, expire and be extended. In `UploadPipeline` one upload is enough because two share
only the worker, which runs their tasks one after the other; three requests allow a completion and two
cancellations (or two completions and a cancellation) to overlap. `MaxRestored` bounds redeliveries: one
lets a second run of a task meet what the first left, two let the second be lost as well. `TotalParts = 2`
separates an empty, a partial and a full session. In `DatasetSnapshot` the first version has a
build too, so `MaxVersion = 2` is the least at which two builds are of different versions and a chart is older than
its snapshot; `Dates` has two ranges, so that they can change and change back, `Variables` one, which may have the role or
not; one fault lets a delivery be repeated, a build lost, content withdrawn or a deletion interrupted at every point; a build
and a viewer, or two builds, overlap.

In `Accounts` one user with two requests overlaps every pair of operations; one session tells whether a login, a
refresh and a revocation of it can cross; `Threshold = 1` lets two logins overshoot; `MaxChanges = 1` lets a password
be set once more, by any of the operations, enough for an old and a new one. `PlainRole` is none of `Roles`: the
changes of the role "User" itself are covered by the theorem only. In `StoredObjects` there is one key of each of the
eight kinds and a second raw file, for the Zarr store; `MaxStored = 2` of the nine are used in a behaviour, however
often each is (an artifact needs its raw file, and a second object is what a listing can confuse with it), and
`MaxSweeps = 1`. In `DatasetQueries` a table of the older tier and five new files (a table, an image, a grid, `.mat`
arrays and a `.mat` struct), with `MaxIngested = 2` deliveries of them in any order, cover every pair of formats and
every file delivered twice; one row of another dataset is at a station of this one; two processes begin `MaxOperations
= 2` operations, so that any two overlap and one can follow a killed one; `MaxEvents = 3` lets two operations meet one
ingestion, or one operation two, which is as much as a property relates. The three filters are none, dates and a
station, and dates with a box and a depth; rows start absent, seeded or written, with and without roles.
`OutlierStddevs` is 3 in the code; among two values only a bound of 0 makes an outlier, and `GridResolution` and
`SpatialSyncCells` are small so that a small grid exceeds them. The proofs have none of these bounds.

Deadlock is not checked in the runs of `UploadPipeline`: a key is used once, and a settled upload that
nobody acts on is at rest. Nor is it in those of `DatasetSnapshot`: a deleted dataset ends everything.
Accounts, stored objects and
dataset queries use up their keys and operations in the same way. It is checked in all other runs.

Symmetry is used only in runs without liveness properties, over sets whose members the specification
does not tell apart.

Fairness. The sweep is started daily by Celery beat and a lost task is delivered again: weak fairness of
loading, strong fairness of the steps that a crash may interrupt again and again. The same holds of the
workers in `RunnerFairness`: a worker that is free takes messages, and not every delivery is lost at the
same point. Nothing is assumed of API handlers. `ChildKills = FALSE` in the liveness run because a
killed child's message is acknowledged, and `Kills = FALSE` in `upload_liveness` for the same reason.
`WorkerFairness` says that the ingestion worker takes a message that is there again and again (strong,
because another delivery may keep it busy) and carries the task on (weak: one process, one task); that it
is not lost for ever is in `MaxRestored`. `DispatchedSettles` excepts an upload whose task was terminated
and one whose file's row is deleted, where the code has no way on.

## 4. Theorems

All are proved from the named assumptions of the modules (`ConstantsAssumption`, `GrantsFinite`,
`ActorsAssumption`, `AccountsAssumption`, `StoredAssumption`, `DatasetQueriesAssumption` ...), for any number of
users, datasets, keys, files, filters and workers. `PROJECT.json` lists each with the property it states.

*AccessRequestsProofs.* `TypeCorrectness` needs `TypeInv`, which adds to the types that a session's fields fit its
operation (an approving session has a request, a revoking one a grant with an owner), for otherwise the counter
updates are not well defined. The inductive invariant `Inv` adds that a session that is approving or rejecting has
loaded a request that is no longer absent, that every grant names an existing dataset unless deleted, and that nothing
of a deleted dataset is stored. From it follow `GrantsTraceable`, `ApprovalsHaveGrants` and `DeletionLeavesNothing`;
`RevocationIsFinal` is an action property that needs only `TypeInv`. Three theorems assume one worker (`OneWorker`)
and show that the guards are then right: `SerialReview`, `CountersMatch` and `ArchivesComplete`. The counter is
rewritten by adding to, or taking from, what the handler loaded; `CounterInv` therefore says, for each operation, that
what it loaded is still what is stored, grant by grant for the cascades and user by user for the sweep, and every step
moves one grant into or out of the set that is counted. `ArchivesComplete` follows from the same invariant: a
cascade's list has every active grant that is left.

*SubsetExtractionProofs.* `ImplementsAccess` shows that the composition implements `AccessRequests`
(every step is one of its steps or leaves its variables unchanged), so the theorems above hold with
extractions running. Its own invariant adds what each actor knows of the extraction it holds: an actor
that has stored an output has it in storage, and an actor's extraction is a row that once existed.

*UploadPipelineProofs.* `UploadTypesCorrect` needs `TypeInv`: a request or task that is under way has an
upload, or the columns it writes would not be defined. The inductive invariant `Inv` says what every
point of a handler knows, whatever the others do meanwhile. Its parts: `KeysOK` (a request that is about
to insert a key is alone with it; a session that a request closed stays closed; one request dispatches an
upload), `MessagesOK`, `RunOK` (a task past `put` that was not cancelled has stored its artifact, one past
`register` has counted its file), `RowsOK` (what the rows and objects of an upload promise of one another)
and `DeliveriesOK`. No property is inductive alone: that a complete upload is queryable depends on what
`Finish` knows from `RegisterCommit`, and that depends on the artifact of `PutProcessed`. `DeliveriesOK`
is a token argument: whoever may still have a file counted (the request that will dispatch it, its message,
a task that has not registered it) is a token, and the count and the tokens together never exceed one for
the dispatch and one for each redelivery. From `Inv` follow `NoSessionLeaks`, `QueuedUploadsHaveFiles`,
`CompleteIsQueryable`, `OnlyIngestedCounts` and `CountedOncePerDelivery`.

*DatasetSnapshotProofs.* `TypeInv` adds to the types that a build has a version and that a chart is asked for with a
request. The inductive invariant `Inv` has three parts. `ContentOK` orders the versions of the row, the object and the
cache; `JobOK` says what an actor knows whatever the others do, in particular that the body a build has read is not
older than the version it loaded, which is all `StampIsConservative` needs. `SerialOK` holds as long as builds have
not overlapped: `AloneOK` says that no pointer is ahead of the build and that the object it stored is still there (or
deleted), and `ServedOK` is then the promise to readers. It is needed because the pointer's commit comes after the
object's: between the two the object is newer than the pointer, which is harmless exactly because the pointer is then
not the dataset's version, or was set by a build of the same version. The chart of the default request is followed the
same way: whoever holds or caches one holds it no older than `since`, unless `foreseen` (`Fits`), and a build of the
dataset's version asks for the dates that are the default ones, because those change with the version or set
`foreseen`. `SerialServesCurrent` and `SerialChartFits` follow.

*AccountsProofs.* `RoleFollowsAssignments` rests on what a handler under the lock knows: the assignments it has read
include those stored (nobody else may insert one; a role is deleted without the lock, which `unsynced` records), and
nobody holds a role of an account that is not stored. `OldSessionsClosed` follows a session from the login that
verified a password to the revocation that lists it, whatever an invite link sets in between: `closing` moves only
with a change whose handler goes on to revoke; `LockoutHolds` is a count of the logins that have passed the check;
`AnonymizeStrips` and `SessionsRefine` are statements about steps.

*StoredObjectsProofs.* `NamedObjects` says what a worker that is about to commit a name knows (its object is stored
and, unless it is an artifact, its key is its own) and what one that deletes has deleted (`gone`). The key of an
artifact is shared by all deliveries of its file, so what the worker knows of it is weaker (`ArtifactInv`): the object
is stored, or somebody's unfinished or lost deletion accounts for it. `BackupsKept` needs that a worker which has
stored a dump still has it when it commits, although another delivery may run the same dump, and the retention of
another run may pass between. `SweepIsExact` follows the sweep through its five tables and seven prefixes: for a key
that nobody touched, what it has collected so far is what is stored, and what it has looked up so far, which no Zarr
store is, what is missing.

*DatasetQueriesProofs.* `CoverageFreshHolds`: what a request has counted so far is what is there, as long as the
version is the one it loaded and no row was written nor file removed since. `ReviewedIsAssignedHolds` carries through
the registry's shape and what a review has seen. `TiersAgreeHolds` has two halves. `BackfillInv` is about the steps: a
file that one script is copying has the rows up to its position and no others, whatever was killed before, so a
finished file that no two scripts shared has exactly the rows of `RowsOf`, each once. The other half is about the
data, for every table and every filter: where `SameInBothTiers` holds, the rows written of a table and its melted view
are in bijection (`Corresponds`), the bijection keeps the value and the parameter, a row satisfies the filter as
PostgreSQL compares it if and only if its observation does as DuckDB compares it (`WhereAgrees`; `DayBounds` is the
arithmetic of days and ticks), and so the counts, the sums, the outliers (`OutliersAgree`) and the duplicates agree.

`QueryTypesHold` is the type invariant. It needs `BackfillInv` (what a script has still to copy are files of the
older tier), the shape of the registry (`ReviewInv`), and that a request under way has the counts its next step adds
to (`OperationsOK`); the counts of a file are natural numbers because a table's observations and a grid's positions are
finite sets.

`WithinScopeHolds` rests on lemmas of `ContentProofs` about every table and grid, and from `TypesInv` only on which files
are there. `TableWithin` and `TableNarrower` compare the mask of `apply_scope_mask` with the filter field by field.
`GridWithin` follows xarray: `Where` and the selections of an axis give a grid with fewer positions and the same
coordinates (`GridCut`), a variable has a value only inside the mask (`WhereCuts`), a selection of variables leaves
the coordinates that fit it (`PartOf`), and the flattened table has one row for each position of what is left
(`DataframeIs`, by `RavelIs`: numpy's order is a strict order, which ranks the positions). So a row that has a value has
a place in the box. That no scope adds rows (`FileDelivers`) compares two subsets of a table's rows, two sets of
positions through an injection (`FewerPositions`, where `HasRows` is needed: a scope's variables may not use an
empty dimension), or two products of lengths (`NetcdfDelivers`). `Quiescent` in `WithinScope` is not needed by the proof.

`CountsAgreeHold` is the part of `ChartsAgree` that counts (`CountsAgree`), in every state and not only in a quiescent
one. A breakdown by quality is a partition: each record, each observation of a table with the flag column, and each
cell of a grid has one of the three flags (`FlagOfRecord`, `TableFlags`), so the sum over the flags of the sums over
the files is the sum of the counts (`SumOfFlags`). `RangesCover` has an inductive invariant of its own, `RangesInv`:
the registry holds the range of every file of either tier. A file widens ranges and never narrows them
(`RangeWritten`), holding is transitive (`CoversAll`), the registry of the older files is the fold of theirs
(`OldRanged`), and a change of roles touches no range; a value's column is then found to be one of the detected
variables, or an auxiliary column, which has no range. `IncompleteHasReason` says of the scan that compares
`record_count` with what it finds: it calls a dataset incomplete only where a file has fewer values than it declared,
or after a repeated delivery or a removal. `CountOK`, an invariant, is the first half (without the latter,
`record_count` is the rows of no file and what each file declared, once); the second is a sum, since the rows of
different files are different (`SumOfParts`).

`ChartsAgreeHold` is the rest. `ContentShown` says what it needs of a state, and it is little: the rows and files are
well-formed and the lists of files have no gaps. The argument is about data, for every list of rows, tables and grids,
every filter and every parameter, chart by chart.

* *Series.* The days of a chart are the union of the days of its three tiers (`SeriesDays`): the merge of weighted
  means keeps the buckets of both (`MergedIs`) and a left fold of merges has those of all (`FoldBuckets`). A coarser
  resolution maps days to buckets, whichever engine does it (`RecordBuckets`, `TableBuckets`, `GridBuckets`), so
  `BucketsAgree` and `ComparisonAgrees` follow, and `ExtentCovers` because every day is one of a file's extent
  (`FileDays`, `ExtentSpans`).
* *Statistics.* The statistics merge the tables with the values of all grids at once, the chart merges grid by grid.
  Means of means are quotients that are added up (`PlusIs` makes the sum independent of the order, `TotalRenamed` of
  the names), and merging associates (`MergeAssociates`), so that with at most one grid both are the same series
  (`RawOfOneGrid`, `MeansWithGrid`).
* *Maps.* A point of a table or of a row is filtered by the box itself. For a grid, the box is a mask over the axes of
  places (`FilteredBoxCut`). Two axes are cut to values inside (`AxesInside`). With one list of places, a value is
  present only inside the mask (`ValueInside`), and the value beside a place is that of the place because the timestep that
  is drawn flattens as the places do (`RavelOfStep`: removing the time is a bijection that keeps numpy's order, and sets in
  corresponding orders are listed alike, `OrderedAlike`). That is what `SideBySide` is for.
* *Sets.* `JobAgrees`: a filter on the station and the dates survives being stored with the job (`JobRecords`), and at a
  station where no other dataset has a row by the filter the latest rows of all datasets are those of this one
  (`LatestOfStation`); the points of files are asked for by dataset.
  `ProfilesAgree`: a profile has a key and depths of observations that passed the filter. `PairsAgree`: in a table without
  duplicates the slot of an observation determines it (`MeltedOnce`, `JoinedAlike`). `BoxesAgree`: the boxes partition
  finitely many values (`BoxesCount`).
* *Previews.* Lists of the files' rows, each cut to the limit, joined and cut again are as long as the uncut ones cut
  once (`FlattenRows`), and each is as long as its file's count says (`TablePreviewIs`, `RecordPreviewIs`).

The assumption that these theorems use, besides the constants' types, is `WellFormed`: what a parser makes of a file is a
table or a grid (`IsTable`, `IsGrid`), the raw content of a NetCDF file is a grid, that of a `.mat` file arrays, the columns
that a scope compares with numbers hold numbers or nothing (`IsCoerced`), as does the column in which the queries find the
times, and the variables and the time axis of a grid hold numbers (`HasNumbers`). It is what xarray and pandas guarantee of
their own objects, and what `errors="coerce"` makes of the cells. The constant `Parsed` is tied to the parsers'
model by `ParsedAssumption`, `Parsed = [f \in Files |-> ParseFile(Raw[f])]`. TLC evaluates both on the files of the run.

*ContentProofs.* Folds over sets are recursive functions and the induction theorems of the library cannot be used (see
below), so the laws of sums and products (of a union, of a pointwise sum, of a renamed index set) are proved by a
minimal counterexample: `MinimalSubset` picks, from any nonempty collection of subsets of a finite set, one of least
cardinality. The same argument gives a finite set its greatest element (`GreatestOf`); `Ranks` shows that a strict
order gives every element of a finite set a place of its own. Sorting is stated by such places as well (`Ordered`,
`Sorted` of `Observations`) and not by the community modules' `SetToSortSeq`, about which nothing could be proved. A
fold over a list is the last element of the sequence of its results (`FoldIs`, `FlattenIs`), found by the same minimal
counterexample over sets of indices (`MergingUnique`, `MergingExists`).

Only model-checked: the liveness properties `SweepRevokes` and both `DispatchedSettles` (liveness under fairness is out of
the prover's reach, and so is ENABLED). Every safety property of the passing runs is a theorem.

## 5. Not modelled, and the plan

`PROJECT.json` lists every component with its status and every hazard with the properties that cover it. Not
modelled: the storage backends' protocols, content pages, support, settings and reporting screens, e-mail and
notifications (single rows, no coordination), the frontend, deployment and migrations. Of the modelled parts the
modules' comments name what is left out: SQL's planner and array computations, file formats, wording, limits on
concurrent queries, exports.

Left to prove: no safety property of the runs. What a chart shows beyond these promises (the values of two grids averaged
together, the thinning of large grids, the order of rows with equal times) is modelled and not specified.
