--------------------------- MODULE DatasetSnapshot ---------------------------
(***************************************************************************)
(* The default-view snapshot of one dataset: the task that builds it after *)
(* every ingestion, the object it stores, the column that says which       *)
(* version the object is of, and the Redis cache its chart goes through    *)
(* (backend/app/worker/tasks/snapshots.py, services/catalog_service.py,    *)
(* services/visualize_service.py, core/cache.py).                          *)
(*                                                                         *)
(* Data is named by the dataset version it was read at: 0 is no data.  A   *)
(* chart is asked for with a request, a variable and dates, which keys the *)
(* cache.  Viewers may send any; the default one is the first variable     *)
(* that may be charted, with all dates of the dataset.  The default queue  *)
(* has several processes, so builds overlap.                               *)
(***************************************************************************)
EXTENDS Naturals

CONSTANTS
    Builders,     \* processes of the default queue, which build snapshots
    Viewers,      \* API requests for a chart; may share a name with a builder
    Variables,    \* variables that may be charted
    Dates,        \* date ranges
    NoVariable,
    NoRequest,
    MaxVersion,   \* bound on the versions of the dataset
    MaxFaults     \* bound on losses, failures and repeated deliveries

Actors == Builders \cup Viewers

\* What get_timeseries is asked for, as far as a default chart may match it.
\* A dataset has no default chart while none of its variables has the role.
Requests == [variable : Variables, dates : Dates]
DefaultRequests == [variable : Variables \cup {NoVariable}, dates : Dates]

ASSUME SnapshotAssumption ==
    /\ MaxVersion \in Nat \ {0}
    /\ NoVariable \notin Variables
    /\ NoRequest \notin Requests
    /\ MaxFaults \in Nat

VARIABLES
    dataset,     \* the datasets row
    object,      \* snapshots/<dataset>/snapshot.json
    cache,       \* the cached chart of each request
    pending,     \* snapshots.generate_dataset_snapshot messages
    faults,      \* how often a request, a task or a message was lost
    ingestion,   \* what the ingestion worker is doing
    deletion,    \* what permanently_delete_dataset is doing
    job,         \* what each builder and viewer is doing
    overlapped,  \* whether a build began while another was under way
    since,       \* the version at which the default request became the default
    foreseen     \* whether older charts may be, or were then, served for it

storeVars == <<object, cache>>
othersVars == <<ingestion, deletion>>
requestVars == <<since, foreseen>>
historyVars == <<faults, overlapped, requestVars>>
vars == <<dataset, storeVars, pending, othersVars, job, historyVars>>

-----------------------------------------------------------------------------
(* Types                                                                   *)

Versions == 1..MaxVersion
Data == 0..MaxVersion

Dataset ==
    [exists : BOOLEAN,
     version : Versions,
     snapshot : Data,       \* snapshot_version, 0 for NULL
     request : DefaultRequests]    \* the request for the default chart

\* version is the payload's dataset_version; body is all of the payload that
\* is read from the database and the files each time it is built.  Of the
\* chart's request the payload names only the variable.
Snapshot == [version : Data, body : Data, chart : Data, request : Requests \cup {NoRequest}]

NoSnapshot == [version |-> 0, body |-> 0, chart |-> 0, request |-> NoRequest]

JobOps == {"idle", "body", "chart", "match", "object", "cache", "store", "put", "row", "commit"}

Job ==
    [op : JobOps,
     seen : Data,       \* the version that a build loaded
     fresh : BOOLEAN,   \* the loaded snapshot_version was the loaded version
     body : Data,
     request : Requests \cup {NoRequest},
     chart : Data,
     pointer : Data]    \* snapshot_version when the row was loaded again

Idle == [op |-> "idle", seen |-> 0, fresh |-> FALSE,
         body |-> 0, request |-> NoRequest, chart |-> 0, pointer |-> 0]

SnapshotTypeOK ==
    /\ dataset \in Dataset
    /\ object \in Snapshot
    /\ cache \in [Requests -> Data]
    /\ pending \in Nat
    /\ faults \in 0..MaxFaults
    /\ ingestion \in {"idle", "dispatch"}
    /\ deletion \in {"idle", "row"}
    /\ job \in [Actors -> Job]
    /\ overlapped \in BOOLEAN
    /\ since \in Versions
    /\ foreseen \in BOOLEAN

Init ==
    /\ \E r \in DefaultRequests :
          dataset = [exists |-> TRUE, version |-> 1, snapshot |-> 0, request |-> r]
    /\ object = NoSnapshot
    /\ cache = [r \in Requests |-> 0]
    /\ pending = 1
    /\ faults = 0
    /\ ingestion = "idle"
    /\ deletion = "idle"
    /\ job = [a \in Actors |-> Idle]
    /\ overlapped = FALSE
    /\ since = 1
    /\ foreseen = FALSE

Fresh == dataset.snapshot = dataset.version

\* What a query of the dataset's content finds.
Content == IF dataset.exists THEN dataset.version ELSE 0

SetJob(a, j) == job' = [job EXCEPT ![a] = j]

Fault == faults < MaxFaults /\ faults' = faults + 1

\* A build is of a version; a view is not.
Building(a) == job[a].seen # 0

-----------------------------------------------------------------------------
(* Ingestion, schema review and deletion                                   *)

\* A chart of the request r that is older than version v is in the cache, in
\* the object or in a payload, or has been computed to be.
Charted(r, v) ==
    \/ r \in Requests /\ cache[r] \in 1..v-1
    \/ object.request = r /\ object.chart \in 1..v-1
    \/ \E a \in Actors : job[a].request = r /\ job[a].chart \in 1..v-1

\* The row's version is now v and the request for its default chart is r.
Redefine(v, r) ==
    /\ dataset' = [dataset EXCEPT !.version = v, !.request = r]
    /\ IF r = dataset.request
       THEN UNCHANGED requestVars
       ELSE /\ since' = v
            /\ foreseen' = (Charted(r, v) \/ (foreseen /\ v = dataset.version))

\* The commit of an ingestion: new content, a new version, and perhaps other
\* dates for the default chart.  A variable it adds has no role yet.
Bump ==
    /\ dataset.version < MaxVersion
    /\ \E d \in Dates : Redefine(dataset.version + 1, [dataset.request EXCEPT !.dates = d])

\* An administrator changes which variables may be charted: no new version.
ReviewRoles ==
    /\ dataset.exists
    /\ \E v \in (Variables \cup {NoVariable}) \ {dataset.request.variable} :
          Redefine(dataset.version, [dataset.request EXCEPT !.variable = v])
    /\ UNCHANGED <<storeVars, pending, othersVars, job, faults, overlapped>>

Ingest ==
    /\ ingestion = "idle"
    /\ dataset.exists
    /\ Bump
    /\ ingestion' = "dispatch"
    /\ UNCHANGED <<storeVars, pending, deletion, job, faults, overlapped>>

\* generate_dataset_snapshot.delay, after the commits of the ingestion.
IngestDispatch ==
    /\ ingestion = "dispatch"
    /\ pending' = pending + 1
    /\ ingestion' = "idle"
    /\ UNCHANGED <<dataset, storeVars, deletion, job, historyVars>>

\* The ingestion dies, or fails at its second commit.
IngestLost ==
    /\ ingestion = "dispatch"
    /\ Fault
    /\ ingestion' = "idle"
    /\ UNCHANGED <<dataset, storeVars, pending, deletion, job, overlapped, requestVars>>

\* The ingestion of a file that was ingested before fails, and what there is
\* of the file is removed: other dates, no new version, no build.
IngestWithdraw ==
    /\ ingestion = "idle"
    /\ dataset.exists
    /\ Fault
    /\ \E d \in Dates \ {dataset.request.dates} : dataset' = [dataset EXCEPT !.request.dates = d]
    /\ since' = dataset.version
    /\ foreseen' = TRUE
    /\ UNCHANGED <<storeVars, pending, othersVars, job, overlapped>>

DeleteObject ==
    /\ deletion = "idle"
    /\ dataset.exists
    /\ object' = NoSnapshot
    /\ deletion' = "row"
    /\ UNCHANGED <<dataset, cache, pending, ingestion, job, historyVars>>

DeleteCommit ==
    /\ deletion = "row"
    /\ dataset' = [dataset EXCEPT !.exists = FALSE, !.snapshot = 0, !.request.variable = NoVariable]
    /\ deletion' = "idle"
    /\ UNCHANGED <<storeVars, pending, ingestion, job, historyVars>>

\* The request is lost before its commit: the row stays, without the object.
DeleteLost ==
    /\ deletion = "row"
    /\ Fault
    /\ deletion' = "idle"
    /\ UNCHANGED <<dataset, storeVars, pending, ingestion, job, overlapped, requestVars>>

-----------------------------------------------------------------------------
(* The chart: get_timeseries, for a builder or a viewer                    *)

\* A builder goes on to store its payload, a viewer has its answer.
Answered(a, chart) ==
    IF Building(a)
    THEN [job[a] EXCEPT !.op = "put", !.fresh = FALSE, !.chart = chart,
                        !.request = IF chart = 0 THEN NoRequest ELSE @]
    ELSE Idle

\* A chart is looked for in the snapshot if the loaded row says it is fresh.
Asked(j, r) == [j EXCEPT !.op = IF j.fresh THEN "match" ELSE "cache", !.request = r]

\* A viewer sends any dates and any variable that may be charted, if there is
\* one; its session loads the row.
ViewLoad(a) ==
    /\ a \in Viewers
    /\ job[a] = Idle
    /\ dataset.exists
    /\ dataset.request.variable # NoVariable
    /\ \E r \in Requests : SetJob(a, Asked([Idle EXCEPT !.fresh = Fresh], r))
    /\ UNCHANGED <<dataset, storeVars, pending, othersVars, historyVars>>

\* The variable and get_dataset_temporal_extent.
BuildRequest(b) ==
    /\ job[b].op = "chart"
    /\ dataset.exists
    /\ dataset.request \in Requests
    /\ SetJob(b, Asked(job[b], dataset.request))
    /\ UNCHANGED <<dataset, storeVars, pending, othersVars, historyVars>>

\* _snapshot_if_default_shape: the dates are all of the dataset's.
ChartMatch(a) ==
    /\ job[a].op = "match"
    /\ SetJob(a, IF dataset.exists /\ job[a].request.dates = dataset.request.dates
                 THEN [job[a] EXCEPT !.op = "object"]
                 ELSE [job[a] EXCEPT !.op = "cache", !.fresh = FALSE])
    /\ UNCHANGED <<dataset, storeVars, pending, othersVars, historyVars>>

\* The snapshot has a chart, of the same variable.
HasStoredChart(a) ==
    object.chart # 0 /\ object.request.variable = job[a].request.variable

ChartFromSnapshot(a) ==
    /\ job[a].op = "object"
    /\ HasStoredChart(a)
    /\ SetJob(a, Answered(a, object.chart))
    /\ UNCHANGED <<dataset, storeVars, pending, othersVars, historyVars>>

\* There is none, or it cannot be read or parsed.
ChartNoSnapshot(a) ==
    /\ job[a].op = "object"
    /\ SetJob(a, [job[a] EXCEPT !.op = "cache", !.fresh = FALSE])
    /\ UNCHANGED <<dataset, storeVars, pending, othersVars, historyVars>>

\* The cache's key is a digest of the request.
CacheKeyUndated(a) == [job[a].request EXCEPT !.dates = CHOOSE d \in Dates : TRUE]
CacheKey(a) == job[a].request

ChartFromCache(a) ==
    /\ job[a].op = "cache"
    /\ cache[CacheKey(a)] # 0
    /\ SetJob(a, Answered(a, cache[CacheKey(a)]))
    /\ UNCHANGED <<dataset, storeVars, pending, othersVars, historyVars>>

\* Nothing is cached, or Redis does not answer.
ChartCompute(a) ==
    /\ job[a].op = "cache"
    /\ dataset.exists
    /\ SetJob(a, [job[a] EXCEPT !.op = "store", !.fresh = FALSE, !.chart = Content])
    /\ UNCHANGED <<dataset, storeVars, pending, othersVars, historyVars>>

ChartStore(a) ==
    /\ job[a].op = "store"
    /\ cache' = [cache EXCEPT ![CacheKey(a)] = job[a].chart]
    /\ SetJob(a, Answered(a, job[a].chart))
    /\ UNCHANGED <<dataset, object, pending, othersVars, historyVars>>

\* cache_set_json ignores its failures.
ChartNotStored(a) ==
    /\ job[a].op = "store"
    /\ SetJob(a, Answered(a, job[a].chart))
    /\ UNCHANGED <<dataset, storeVars, pending, othersVars, historyVars>>

\* A builder ignores the exception, or has no variable to chart; a viewer
\* gets an error.
ChartFails(a) ==
    /\ job[a].op \in {"chart", "match", "object", "cache"}
    /\ SetJob(a, Answered(a, 0))
    /\ UNCHANGED <<dataset, storeVars, pending, othersVars, historyVars>>

\* _CACHE_TTL_SECONDS.
CacheExpire(r) ==
    /\ cache[r] # 0
    /\ cache' = [cache EXCEPT ![r] = 0]
    /\ UNCHANGED <<dataset, object, pending, othersVars, job, historyVars>>

-----------------------------------------------------------------------------
(* generate_dataset_snapshot                                               *)

BuildSkipAnyway(b) ==
    /\ job[b] = Idle
    /\ ~dataset.exists
    /\ pending' = pending - 1
    /\ UNCHANGED <<dataset, storeVars, othersVars, job, historyVars>>
BuildSkip(b) ==
    /\ job[b] = Idle
    /\ pending > 0
    /\ ~dataset.exists
    /\ pending' = pending - 1
    /\ UNCHANGED <<dataset, storeVars, othersVars, job, historyVars>>

\* _build_snapshot_payload loads the row, once for all of its queries.
BuildLoad(b) ==
    /\ job[b] = Idle
    /\ pending > 0
    /\ dataset.exists
    /\ pending' = pending - 1
    /\ SetJob(b, [Idle EXCEPT !.op = "body", !.seen = dataset.version, !.fresh = Fresh])
    /\ overlapped' = (overlapped \/ \E other \in Builders : Building(other))
    /\ UNCHANGED <<dataset, storeVars, othersVars, faults, requestVars>>

\* Records, variables and statistics, from now.
BuildBody(b) ==
    /\ job[b].op = "body"
    /\ SetJob(b, [job[b] EXCEPT !.op = "chart", !.body = Content])
    /\ UNCHANGED <<dataset, storeVars, pending, othersVars, historyVars>>

\* The payload says which version it is of.
StampLatest(b) == dataset.version
Stamp(b) == job[b].seen

BuildPut(b) ==
    /\ job[b].op = "put"
    /\ object' = [version |-> Stamp(b), body |-> job[b].body,
                  chart |-> job[b].chart, request |-> job[b].request]
    /\ SetJob(b, [Idle EXCEPT !.op = "row", !.seen = job[b].seen])
    /\ UNCHANGED <<dataset, cache, pending, othersVars, historyVars>>

BuildRow(b) ==
    /\ job[b].op = "row"
    /\ SetJob(b, IF dataset.exists
                 THEN [job[b] EXCEPT !.op = "commit", !.pointer = dataset.snapshot]
                 ELSE Idle)
    /\ UNCHANGED <<dataset, storeVars, pending, othersVars, historyVars>>

\* snapshot_version is sent to the database only if it is a change.
PointVersion(b) == dataset.version
Pointer(b) == IF job[b].pointer = job[b].seen THEN dataset.snapshot ELSE job[b].seen

BuildCommit(b) ==
    /\ job[b].op = "commit"
    /\ dataset.exists
    /\ dataset' = [dataset EXCEPT !.snapshot = Pointer(b)]
    /\ SetJob(b, Idle)
    /\ UNCHANGED <<storeVars, pending, othersVars, historyVars>>

\* An exception, or the death of the child process: the message is
\* acknowledged, and nothing retries.
BuildFails(b) ==
    /\ Building(b)
    /\ Fault
    /\ SetJob(b, Idle)
    /\ UNCHANGED <<dataset, storeVars, pending, othersVars, overlapped, requestVars>>

\* The worker is lost: its message goes back to the queue.
BuildLost(b) ==
    /\ Building(b)
    /\ Fault
    /\ pending' = pending + 1
    /\ SetJob(b, Idle)
    /\ UNCHANGED <<dataset, storeVars, othersVars, overlapped, requestVars>>

\* The visibility timeout passes during the build.
BuildRedelivered(b) ==
    /\ Building(b)
    /\ Fault
    /\ pending' = pending + 1
    /\ UNCHANGED <<dataset, storeVars, othersVars, job, overlapped, requestVars>>

-----------------------------------------------------------------------------

ChartStep(a) ==
    \/ ChartMatch(a)
    \/ ChartFromSnapshot(a)
    \/ ChartNoSnapshot(a)
    \/ ChartFromCache(a)
    \/ ChartCompute(a)
    \/ ChartStore(a)
    \/ ChartNotStored(a)
    \/ ChartFails(a)

BuildStep(b) ==
    \/ BuildSkip(b)
    \/ BuildLoad(b)
    \/ BuildBody(b)
    \/ BuildRequest(b)
    \/ ChartStep(b)
    \/ BuildPut(b)
    \/ BuildRow(b)
    \/ BuildCommit(b)

Next ==
    \/ Ingest
    \/ IngestDispatch
    \/ IngestLost
    \/ IngestWithdraw
    \/ ReviewRoles
    \/ DeleteObject
    \/ DeleteCommit
    \/ DeleteLost
    \/ \E v \in Viewers : ViewLoad(v) \/ ChartStep(v)
    \/ \E r \in Requests : CacheExpire(r)
    \/ \E b \in Builders : BuildStep(b) \/ BuildFails(b) \/ BuildLost(b) \/ BuildRedelivered(b)

Spec == Init /\ [][Next]_vars

-----------------------------------------------------------------------------
(* Properties                                                              *)

\* No part that a build reads afresh is older than the version the payload
\* is stamped with, although the queries are not one transaction and
\* ingestions commit between them.
StampNotNewer == dataset.exists => object.version <= object.body

\* What get_dataset_snapshot serves was read when the dataset had the version
\* it has now: the pointer's equality with the version is enough of a test of
\* that, as long as no build began while another was under way.
ServedIsCurrent ==
    dataset.exists /\ Fresh /\ object # NoSnapshot /\ ~overlapped =>
        object.version = dataset.version /\ object.body = dataset.version

\* The chart that a fresh snapshot has of the default request may be older
\* than the rest of the snapshot, through the cache, but not older than that
\* request: unless somebody's chart of the same variable and dates was
\* already cached, stored or on its way when they became the default, or they
\* became the default because content was withdrawn.
ServedChartFitsRequest ==
    /\ dataset.exists /\ Fresh /\ ~overlapped /\ ~foreseen
    /\ object.chart # 0 /\ object.request.variable = dataset.request.variable
    => object.chart >= since

=============================================================================
