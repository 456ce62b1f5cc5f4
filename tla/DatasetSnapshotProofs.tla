------------------------ MODULE DatasetSnapshotProofs ------------------------
(***************************************************************************)
(* Proofs about DatasetSnapshot, for any number of builders, viewers,      *)
(* versions and faults.                                                    *)
(***************************************************************************)
EXTENDS DatasetSnapshot, TLAPS

-----------------------------------------------------------------------------
(* Types.  A chart is asked for with a request; a build has a version.     *)

Charting == {"match", "object", "cache", "store"}

BoundJob ==
    {j \in Job :
        /\ j.op \in Charting \/ (j.op = "put" /\ j.chart # 0) => j.request \in Requests
        /\ j.op \in {"body", "put", "row", "commit"} => j.seen # 0
        /\ j.op = "idle" => j.seen = 0}

TypeInv ==
    /\ SnapshotTypeOK
    /\ job \in [Actors -> BoundJob]

\* The versions are data, and there is a first one.
LEMMA DataTypes ==
    /\ Versions \subseteq Data
    /\ Data \subseteq Nat
    /\ 0 \in Data
    /\ 1 \in Versions
    /\ Requests \subseteq DefaultRequests
BY SnapshotAssumption DEF Versions, Data, Requests, DefaultRequests

\* The job that an actor starts from and ends with.
LEMMA IdleType == Idle \in BoundJob /\ NoSnapshot \in Snapshot
BY DataTypes DEF Idle, BoundJob, Job, JobOps, Charting, NoSnapshot, Snapshot

\* The answer to a request for a chart.
LEMMA AnsweredType ==
    ASSUME TypeInv, NEW a \in Actors, NEW chart \in Data,
           chart # 0 => job[a].op \in Charting
    PROVE  Answered(a, chart) \in BoundJob
<1>1. job[a] \in BoundJob
  BY DEF TypeInv
<1>2. CASE Building(a)
  <2>1. Answered(a, chart) =
            [job[a] EXCEPT !.op = "put", !.fresh = FALSE, !.chart = chart,
                           !.request = IF chart = 0 THEN NoRequest ELSE @]
    BY <1>2 DEF Answered
  <2>2. QED
    BY <1>1, <1>2, <2>1, DataTypes DEF Building, BoundJob, Job, JobOps, Charting
<1>3. CASE ~Building(a)
  BY <1>3, IdleType DEF Answered
<1>4. QED
  BY <1>2, <1>3

\* What the row and the jobs are made of.
LEMMA RowTypes ==
    ASSUME TypeInv
    PROVE  /\ dataset.exists \in BOOLEAN
           /\ dataset.version \in Versions
           /\ dataset.snapshot \in Data
           /\ dataset.request \in DefaultRequests
           /\ Content \in Data
           /\ Fresh \in BOOLEAN
BY DataTypes DEF TypeInv, SnapshotTypeOK, Dataset, Content, Fresh

LEMMA InitTypes == Init => TypeInv
<1> SUFFICES ASSUME Init PROVE TypeInv
  OBVIOUS
<1>1. dataset \in Dataset
  BY DataTypes DEF Init, Dataset
<1>2. faults \in 0..MaxFaults /\ pending \in Nat
  BY SnapshotAssumption DEF Init
<1>3. job \in [Actors -> BoundJob] /\ BoundJob \subseteq Job
  BY IdleType DEF Init, BoundJob
<1>4. QED
  BY <1>1, <1>2, <1>3, IdleType, DataTypes DEF Init, TypeInv, SnapshotTypeOK

\* A change of the row's version or default request.
LEMMA RedefineType ==
    ASSUME TypeInv, NEW v \in Versions, NEW r \in DefaultRequests, Redefine(v, r)
    PROVE  dataset' \in Dataset /\ since' \in Versions /\ foreseen' \in BOOLEAN
<1>1. dataset' \in Dataset
  BY DEF Redefine, TypeInv, SnapshotTypeOK, Dataset
<1>2. CASE r = dataset.request
  BY <1>1, <1>2 DEF Redefine, requestVars, TypeInv, SnapshotTypeOK
<1>3. CASE r # dataset.request
  BY <1>1, <1>3 DEF Redefine, Charted
<1>4. QED
  BY <1>2, <1>3

\* An actor's next job, when nothing else is typed anew.
LEMMA JobType ==
    ASSUME TypeInv, NEW a \in Actors, NEW j \in BoundJob, SetJob(a, j)
    PROVE  job' \in [Actors -> BoundJob] /\ job' \in [Actors -> Job]
<1>1. job' \in [Actors -> BoundJob]
  BY DEF TypeInv, SetJob
<1>2. QED
  BY <1>1 DEF BoundJob

\* Counting a fault.
LEMMA FaultType == TypeInv /\ Fault => faults' \in 0..MaxFaults
BY SnapshotAssumption DEF TypeInv, SnapshotTypeOK, Fault

\* Ingestions and deletions.
LEMMA OthersTypes ==
    ASSUME TypeInv,
           \/ Ingest \/ IngestDispatch \/ IngestLost \/ IngestWithdraw \/ ReviewRoles
           \/ DeleteObject \/ DeleteCommit \/ DeleteLost
    PROVE  TypeInv'
<1> USE DEF storeVars, othersVars, historyVars, requestVars
<1>1. CASE Ingest
  <2>1. dataset.version + 1 \in Versions
    BY <1>1, RowTypes, SnapshotAssumption DEF Ingest, Bump, Versions
  <2>2. PICK d \in Dates : Redefine(dataset.version + 1, [dataset.request EXCEPT !.dates = d])
    BY <1>1 DEF Ingest, Bump
  <2>3. [dataset.request EXCEPT !.dates = d] \in DefaultRequests
    BY RowTypes DEF DefaultRequests
  <2>4. dataset' \in Dataset /\ since' \in Versions /\ foreseen' \in BOOLEAN
    BY <2>1, <2>2, <2>3, RedefineType
  <2>5. QED
    BY <1>1, <2>4 DEF Ingest, TypeInv, SnapshotTypeOK
<1>2. CASE IngestDispatch
  BY <1>2 DEF IngestDispatch, TypeInv, SnapshotTypeOK
<1>3. CASE IngestLost
  BY <1>3, FaultType DEF IngestLost, TypeInv, SnapshotTypeOK
<1>4. CASE DeleteObject
  BY <1>4, IdleType DEF DeleteObject, TypeInv, SnapshotTypeOK
<1>5. CASE DeleteCommit
  <2>1. dataset' \in Dataset
    BY <1>5, DataTypes DEF DeleteCommit, TypeInv, SnapshotTypeOK, Dataset, DefaultRequests
  <2>2. QED
    BY <1>5, <2>1 DEF DeleteCommit, TypeInv, SnapshotTypeOK
<1>6. CASE DeleteLost
  BY <1>6, FaultType DEF DeleteLost, TypeInv, SnapshotTypeOK
<1>7. CASE ReviewRoles
  <2>1. PICK v \in Variables \cup {NoVariable} :
            Redefine(dataset.version, [dataset.request EXCEPT !.variable = v])
    BY <1>7 DEF ReviewRoles
  <2>2. [dataset.request EXCEPT !.variable = v] \in DefaultRequests
    BY RowTypes DEF DefaultRequests
  <2>3. dataset' \in Dataset /\ since' \in Versions /\ foreseen' \in BOOLEAN
    BY <2>1, <2>2, RowTypes, RedefineType
  <2>4. QED
    BY <1>7, <2>3 DEF ReviewRoles, TypeInv, SnapshotTypeOK
<1>8. CASE IngestWithdraw
  <2>1. PICK d \in Dates : dataset' = [dataset EXCEPT !.request.dates = d]
    BY <1>8 DEF IngestWithdraw
  <2>2. dataset' \in Dataset
    BY <2>1 DEF TypeInv, SnapshotTypeOK, Dataset, DefaultRequests
  <2>3. QED
    BY <1>8, <2>2, FaultType, RowTypes DEF IngestWithdraw, TypeInv, SnapshotTypeOK
<1>9. QED
  BY <1>1, <1>2, <1>3, <1>4, <1>5, <1>6, <1>7, <1>8

\* Charts, for builders and viewers.
LEMMA ChartTypes ==
    ASSUME TypeInv, NEW a \in Actors, ViewLoad(a) \/ BuildRequest(a) \/ ChartStep(a)
    PROVE  TypeInv'
<1> USE DEF storeVars, othersVars, historyVars, requestVars
<1>0. job[a] \in BoundJob /\ job[a] \in Job
  BY DEF TypeInv, BoundJob
<1>1. CASE ViewLoad(a)
  <2>1. PICK r \in Requests : SetJob(a, Asked([Idle EXCEPT !.fresh = Fresh], r))
    BY <1>1 DEF ViewLoad
  <2>2. Asked([Idle EXCEPT !.fresh = Fresh], r) \in BoundJob
    BY RowTypes, DataTypes DEF Asked, Idle, BoundJob, Job, JobOps, Charting
  <2>3. QED
    BY <1>1, <2>1, <2>2, JobType DEF ViewLoad, TypeInv, SnapshotTypeOK
<1>2. CASE ChartMatch(a)
  <2>1. [job[a] EXCEPT !.op = "object"] \in BoundJob
        /\ [job[a] EXCEPT !.op = "cache", !.fresh = FALSE] \in BoundJob
    BY <1>0, <1>2 DEF ChartMatch, BoundJob, Job, JobOps, Charting
  <2>2. QED
    BY <1>2, <2>1, JobType DEF ChartMatch, TypeInv, SnapshotTypeOK
<1>3. CASE ChartFromSnapshot(a)
  <2>1. Answered(a, object.chart) \in BoundJob
    BY <1>3, AnsweredType DEF ChartFromSnapshot, Charting, TypeInv, SnapshotTypeOK, Snapshot
  <2>2. QED
    BY <1>3, <2>1, JobType DEF ChartFromSnapshot, TypeInv, SnapshotTypeOK
<1>4. CASE ChartNoSnapshot(a)
  <2>1. [job[a] EXCEPT !.op = "cache", !.fresh = FALSE] \in BoundJob
    BY <1>0, <1>4 DEF ChartNoSnapshot, BoundJob, Job, JobOps, Charting
  <2>2. QED
    BY <1>4, <2>1, JobType DEF ChartNoSnapshot, TypeInv, SnapshotTypeOK
<1>5. CASE ChartFromCache(a)
  <2>1. cache[CacheKey(a)] \in Data
    BY <1>0, <1>5 DEF ChartFromCache, CacheKey, BoundJob, Charting, TypeInv, SnapshotTypeOK
  <2>2. Answered(a, cache[CacheKey(a)]) \in BoundJob
    BY <1>5, <2>1, AnsweredType DEF ChartFromCache, Charting
  <2>3. QED
    BY <1>5, <2>2, JobType DEF ChartFromCache, TypeInv, SnapshotTypeOK
<1>6. CASE ChartCompute(a)
  <2>1. [job[a] EXCEPT !.op = "store", !.fresh = FALSE, !.chart = Content] \in BoundJob
    BY <1>0, <1>6, RowTypes DEF ChartCompute, BoundJob, Job, JobOps, Charting
  <2>2. QED
    BY <1>6, <2>1, JobType DEF ChartCompute, TypeInv, SnapshotTypeOK
<1>7. CASE ChartStore(a) \/ ChartNotStored(a)
  <2>1. job[a].chart \in Data
    BY <1>0 DEF Job
  <2>2. Answered(a, job[a].chart) \in BoundJob
    BY <1>7, <2>1, AnsweredType DEF ChartStore, ChartNotStored, Charting
  <2>3. cache' \in [Requests -> Data]
    BY <1>7, <2>1 DEF ChartStore, ChartNotStored, TypeInv, SnapshotTypeOK
  <2>4. QED
    BY <1>7, <2>2, <2>3, JobType DEF ChartStore, ChartNotStored, TypeInv, SnapshotTypeOK
<1>8. CASE ChartFails(a)
  <2>1. Answered(a, 0) \in BoundJob
    BY DataTypes, AnsweredType
  <2>2. QED
    BY <1>8, <2>1, JobType DEF ChartFails, TypeInv, SnapshotTypeOK
<1>9. CASE BuildRequest(a)
  <2>1. Asked(job[a], dataset.request) \in BoundJob
    BY <1>0, <1>9 DEF BuildRequest, Asked, BoundJob, Job, JobOps, Charting
  <2>2. QED
    BY <1>9, <2>1, JobType DEF BuildRequest, TypeInv, SnapshotTypeOK
<1>10. QED
  BY <1>1, <1>2, <1>3, <1>4, <1>5, <1>6, <1>7, <1>8, <1>9 DEF ChartStep

\* The other steps of a build, and its faults.
LEMMA BuildTypes ==
    ASSUME TypeInv, NEW b \in Builders,
           \/ BuildSkip(b) \/ BuildLoad(b) \/ BuildBody(b) \/ BuildPut(b) \/ BuildRow(b)
           \/ BuildCommit(b) \/ BuildFails(b) \/ BuildLost(b) \/ BuildRedelivered(b)
    PROVE  TypeInv'
<1> USE DEF storeVars, othersVars, historyVars, requestVars
<1>0. b \in Actors /\ job[b] \in BoundJob /\ job[b] \in Job
  BY DEF TypeInv, BoundJob, Actors
<1>1. CASE BuildSkip(b)
  <2>1. pending' \in Nat
    BY <1>1 DEF BuildSkip, TypeInv, SnapshotTypeOK
  <2>2. QED
    BY <1>1, <2>1 DEF BuildSkip, TypeInv, SnapshotTypeOK
<1>2. CASE BuildLoad(b)
  <2>1. pending' \in Nat
    BY <1>2 DEF BuildLoad, TypeInv, SnapshotTypeOK
  <2>2. dataset.version \in Data /\ dataset.version # 0
    BY RowTypes, DataTypes DEF Versions
  <2>3. [Idle EXCEPT !.op = "body", !.seen = dataset.version, !.fresh = Fresh] \in BoundJob
    BY <2>2, RowTypes, DataTypes DEF Idle, BoundJob, Job, JobOps, Charting
  <2>4. overlapped' \in BOOLEAN
    BY <1>2 DEF BuildLoad, TypeInv, SnapshotTypeOK
  <2>5. QED
    BY <1>0, <1>2, <2>1, <2>3, <2>4, JobType DEF BuildLoad, TypeInv, SnapshotTypeOK
<1>3. CASE BuildBody(b)
  <2>1. [job[b] EXCEPT !.op = "chart", !.body = Content] \in BoundJob
    BY <1>0, <1>3, RowTypes DEF BuildBody, BoundJob, Job, JobOps, Charting
  <2>2. QED
    BY <1>0, <1>3, <2>1, JobType DEF BuildBody, TypeInv, SnapshotTypeOK
<1>4. CASE BuildPut(b)
  <2>1. [Idle EXCEPT !.op = "row", !.seen = job[b].seen] \in BoundJob
    BY <1>0, <1>4, DataTypes DEF BuildPut, Idle, BoundJob, Job, JobOps, Charting
  <2>2. object' \in Snapshot
    BY <1>0, <1>4 DEF BuildPut, Stamp, Job, Snapshot
  <2>3. QED
    BY <1>0, <1>4, <2>1, <2>2, JobType DEF BuildPut, TypeInv, SnapshotTypeOK
<1>5. CASE BuildRow(b)
  <2>1. [job[b] EXCEPT !.op = "commit", !.pointer = dataset.snapshot] \in BoundJob
    BY <1>0, <1>5, RowTypes DEF BuildRow, BoundJob, Job, JobOps, Charting
  <2>2. QED
    BY <1>0, <1>5, <2>1, IdleType, JobType DEF BuildRow, TypeInv, SnapshotTypeOK
<1>6. CASE BuildCommit(b)
  <2>1. Pointer(b) \in Data
    BY <1>0, RowTypes DEF Pointer, Job
  <2>2. dataset' \in Dataset
    BY <1>6, <2>1 DEF BuildCommit, TypeInv, SnapshotTypeOK, Dataset
  <2>3. QED
    BY <1>0, <1>6, <2>2, IdleType, JobType DEF BuildCommit, TypeInv, SnapshotTypeOK
<1>7. CASE BuildFails(b)
  BY <1>0, <1>7, IdleType, JobType, FaultType DEF BuildFails, TypeInv, SnapshotTypeOK
<1>8. CASE BuildLost(b)
  BY <1>0, <1>8, IdleType, JobType, FaultType DEF BuildLost, TypeInv, SnapshotTypeOK
<1>9. CASE BuildRedelivered(b)
  BY <1>9, FaultType DEF BuildRedelivered, TypeInv, SnapshotTypeOK
<1>10. QED
  BY <1>1, <1>2, <1>3, <1>4, <1>5, <1>6, <1>7, <1>8, <1>9

LEMMA NextTypes == TypeInv /\ [Next]_vars => TypeInv'
<1> SUFFICES ASSUME TypeInv, [Next]_vars PROVE TypeInv'
  OBVIOUS
<1>1. CASE UNCHANGED vars
  BY <1>1 DEF vars, storeVars, othersVars, historyVars, requestVars, TypeInv, SnapshotTypeOK
<1>2. ASSUME NEW r \in Requests, CacheExpire(r) PROVE TypeInv'
  BY <1>2, DataTypes DEF CacheExpire, othersVars, historyVars, requestVars, TypeInv, SnapshotTypeOK
<1>3. ASSUME NEW v \in Viewers, ViewLoad(v) \/ ChartStep(v) PROVE TypeInv'
  BY <1>3, ChartTypes DEF Actors
<1>4. ASSUME NEW b \in Builders,
             BuildStep(b) \/ BuildFails(b) \/ BuildLost(b) \/ BuildRedelivered(b)
      PROVE  TypeInv'
  BY <1>4, ChartTypes, BuildTypes DEF BuildStep, Actors
<1>5. QED
  BY <1>1, <1>2, <1>3, <1>4, OthersTypes DEF Next

\* Every reachable state has the declared types.
THEOREM SnapshotTypesCorrect == Spec => []SnapshotTypeOK
<1>1. TypeInv => SnapshotTypeOK
  BY DEF TypeInv
<1>2. QED
  BY <1>1, InitTypes, NextTypes, PTL DEF Spec

-----------------------------------------------------------------------------
(* The inductive invariant                                                 *)

\* A chart of the request r, if that is the default one, is not older than
\* when it became the default.
Fits(r, chart) == r = dataset.request /\ chart # 0 /\ ~foreseen => since <= chart

\* Nothing is of a later version than the row.
ContentOK ==
    /\ since <= dataset.version
    /\ dataset.snapshot <= dataset.version
    /\ object.version <= dataset.version
    /\ object.body <= dataset.version
    /\ object.chart # 0 => object.request \in Requests
    /\ StampNotNewer

CacheOK == \A r \in Requests : Fits(r, cache[r])

\* What an actor a with the job j knows, whatever the others do.
JobOK(a, j) ==
    /\ j.seen <= dataset.version
    /\ j.body <= dataset.version
    /\ j.seen # 0 => a \in Builders
    /\ dataset.exists /\ j.seen # 0 /\ j.op \in {"chart", "put"} \cup Charting => j.seen <= j.body
    /\ j.op \in {"match", "object"} => j.fresh
    /\ j.op = "store" => Fits(j.request, j.chart)

\* A chart of the request r has the dataset's dates, and fits; unless content
\* was withdrawn, or an older chart was foreseen otherwise.
DefaultFits(r, chart) ==
    chart # 0 /\ ~foreseen => r.dates = dataset.request.dates /\ Fits(r, chart)

\* What it knows if it builds alone: no pointer is ahead of it, the object it
\* has stored is still there or deleted, and until the next ingestion its
\* chart has the dates that the dataset has now.
AloneOK(j) ==
    j.seen # 0 =>
        /\ dataset.snapshot <= j.seen
        /\ j.op \in {"row", "commit"} /\ object # NoSnapshot => object.version = j.seen
        /\ dataset.exists /\ j.seen = dataset.version =>
              /\ j.op \in Charting /\ ~foreseen => j.request.dates = dataset.request.dates
              /\ j.op \in {"body", "chart", "match", "object"} /\ j.fresh => Fresh
              /\ j.op = "put" => DefaultFits(j.request, j.chart)
              /\ j.op \in {"row", "commit"} => DefaultFits(object.request, object.chart)

OneBuild == \A a, b \in Actors : Building(a) /\ Building(b) => a = b

ServedOK ==
    dataset.exists /\ Fresh =>
        /\ object # NoSnapshot => object.version = dataset.version
        /\ DefaultFits(object.request, object.chart)

SerialOK == OneBuild /\ ServedOK /\ \A a \in Actors : AloneOK(job[a])

Inv ==
    /\ TypeInv
    /\ ContentOK
    /\ CacheOK
    /\ \A a \in Actors : JobOK(a, job[a])
    /\ ~overlapped => SerialOK

\* Versions are numbers.
LEMMA Numbers ==
    ASSUME TypeInv
    PROVE  /\ dataset.version \in Nat \ {0}
           /\ dataset.snapshot \in Nat /\ since \in Nat \ {0}
           /\ object.version \in Nat /\ object.body \in Nat /\ object.chart \in Nat
           /\ \A r \in Requests : cache[r] \in Nat
           /\ \A a \in Actors :
                 /\ job[a] \in BoundJob
                 /\ job[a].seen \in Nat /\ job[a].body \in Nat /\ job[a].chart \in Nat
<1>1. Versions \subseteq Nat \ {0} /\ Data \subseteq Nat
  BY DataTypes DEF Versions
<1>2. dataset \in Dataset /\ object \in Snapshot /\ cache \in [Requests -> Data] /\ since \in Versions
  BY DEF TypeInv, SnapshotTypeOK
<1>3. \A a \in Actors : job[a] \in BoundJob /\ job[a] \in Job
  BY DEF TypeInv, BoundJob
<1>4. QED
  BY <1>1, <1>2, <1>3 DEF Dataset, Snapshot, Job

\* The idle job knows nothing.
LEMMA IdleOK ==
    ASSUME TypeInv, NEW a
    PROVE  JobOK(a, Idle) /\ AloneOK(Idle)
BY Numbers DEF JobOK, AloneOK, Idle, Charting

LEMMA InitInv == Init => Inv
<1> SUFFICES ASSUME Init PROVE Inv
  OBVIOUS
<1>1. TypeInv
  BY InitTypes
<1>2. dataset.version = 1 /\ dataset.snapshot = 0 /\ since = 1 /\ object = NoSnapshot
      /\ \A r \in Requests : cache[r] = 0
  BY DEF Init
<1>3. ContentOK /\ CacheOK
  BY <1>2 DEF ContentOK, CacheOK, Fits, StampNotNewer, NoSnapshot
<1>4. \A a \in Actors : job[a] = Idle /\ ~Building(a)
  BY DEF Init, Building, Idle
<1>5. SerialOK
  BY <1>1, <1>2, <1>4, IdleOK DEF SerialOK, OneBuild, ServedOK, Fresh
<1>6. QED
  BY <1>1, <1>3, <1>4, <1>5, IdleOK DEF Inv

\* A step that only gives a another job, and caches what it may.
LEMMA JobStep ==
    ASSUME Inv, TypeInv', NEW a \in Actors, NEW j \in BoundJob, SetJob(a, j),
           UNCHANGED <<dataset, object, overlapped, requestVars>>,
           \A r \in Requests : Fits(r, cache'[r]),
           JobOK(a, j), j.seen # 0 => Building(a), ~overlapped => AloneOK(j)
    PROVE  Inv'
<1>1. job'[a] = j /\ \A b \in Actors \ {a} : job'[b] = job[b]
  BY DEF SetJob, Inv, TypeInv
<1> USE DEF requestVars
<1>2. ContentOK' /\ CacheOK'
  BY DEF Inv, ContentOK, CacheOK, Fits, StampNotNewer
<1>3. \A b \in Actors : JobOK(b, job[b])'
  BY <1>1 DEF Inv, JobOK, Fits
<1>4. ASSUME ~overlapped' PROVE SerialOK'
  <2>1. SerialOK /\ AloneOK(j)
    BY <1>4 DEF Inv
  <2>2. OneBuild'
    BY <1>1, <2>1 DEF SerialOK, OneBuild, Building
  <2>3. ServedOK'
    BY <2>1 DEF SerialOK, ServedOK, Fresh, DefaultFits, Fits
  <2>4. \A b \in Actors : AloneOK(job[b])'
    BY <1>1, <2>1 DEF SerialOK, AloneOK, Fresh, DefaultFits, Fits
  <2>5. QED
    BY <2>2, <2>3, <2>4 DEF SerialOK
<1>5. QED
  BY <1>2, <1>3, <1>4 DEF Inv

\* The answer of a chart that fits what a alone is promised.
LEMMA AnsweredOK ==
    ASSUME Inv, NEW a \in Actors, NEW chart \in Data, job[a].op \in {"chart"} \cup Charting,
           chart # 0 => job[a].op \in Charting,
           ~overlapped /\ dataset.exists /\ Building(a) /\ job[a].seen = dataset.version
              => DefaultFits(job[a].request, chart)
    PROVE  /\ Answered(a, chart) \in BoundJob
           /\ JobOK(a, Answered(a, chart))
           /\ Answered(a, chart).seen # 0 => Building(a)
           /\ ~overlapped => AloneOK(Answered(a, chart))
<1>1. TypeInv /\ JobOK(a, job[a]) /\ (~overlapped => AloneOK(job[a]))
  BY DEF Inv, SerialOK
<1>2. Answered(a, chart) \in BoundJob
  BY <1>1, AnsweredType
<1>3. CASE Building(a)
  <2> DEFINE j == [job[a] EXCEPT !.op = "put", !.fresh = FALSE, !.chart = chart,
                                 !.request = IF chart = 0 THEN NoRequest ELSE @]
  <2>1. Answered(a, chart) = j
    BY <1>3 DEF Answered
  <2>2. job[a] \in Job
    BY <1>1, Numbers DEF BoundJob
  <2>3. /\ j.op = "put" /\ j.fresh = FALSE /\ j.chart = chart
        /\ chart # 0 => j.request = job[a].request
        /\ j.seen = job[a].seen /\ j.body = job[a].body
    BY <2>2 DEF Job
  <2>4. JobOK(a, j)
    BY <1>1, <2>3, Numbers DEF JobOK, Charting
  <2>5. ~overlapped => AloneOK(j)
    BY <1>1, <1>3, <2>3 DEF AloneOK, Charting, Building, DefaultFits
  <2>6. QED
    BY <1>2, <1>3, <2>1, <2>3, <2>4, <2>5
<1>4. CASE ~Building(a)
  BY <1>1, <1>2, <1>4, IdleOK DEF Answered, Idle
<1>5. QED
  BY <1>3, <1>4

\* Charts, for builders and viewers.
LEMMA ChartInv ==
    ASSUME Inv, NEW a \in Actors, ViewLoad(a) \/ BuildRequest(a) \/ ChartStep(a)
    PROVE  Inv'
<1> USE DEF storeVars, othersVars, historyVars, requestVars
<1>0. TypeInv /\ ContentOK /\ JobOK(a, job[a]) /\ (~overlapped => AloneOK(job[a]) /\ ServedOK)
  BY DEF Inv, SerialOK
<1>1. TypeInv'
  BY <1>0, ChartTypes
<1>2. job[a] \in Job /\ job[a] \in BoundJob
  BY <1>0, Numbers DEF BoundJob
<1>3. \A r \in Requests : Fits(r, cache[r])
  BY DEF Inv, CacheOK
<1>4. CASE ViewLoad(a)
  <2>1. PICK r \in Requests : SetJob(a, Asked([Idle EXCEPT !.fresh = Fresh], r))
    BY <1>4 DEF ViewLoad
  <2> DEFINE j == Asked([Idle EXCEPT !.fresh = Fresh], r)
  <2>2. j \in BoundJob
    BY <1>0, RowTypes, DataTypes DEF Asked, Idle, BoundJob, Job, JobOps, Charting
  <2>3. JobOK(a, j) /\ j.seen = 0 /\ AloneOK(j)
    BY <1>0, Numbers DEF Asked, Idle, JobOK, AloneOK, Charting
  <2>4. QED
    BY <1>1, <1>3, <1>4, <2>1, <2>2, <2>3, JobStep DEF ViewLoad
<1>5. CASE ChartMatch(a)
  <2> DEFINE j == IF dataset.exists /\ job[a].request.dates = dataset.request.dates
                  THEN [job[a] EXCEPT !.op = "object"]
                  ELSE [job[a] EXCEPT !.op = "cache", !.fresh = FALSE]
  <2>1. j \in BoundJob
    BY <1>2, <1>5 DEF ChartMatch, BoundJob, Job, JobOps, Charting
  <2>2. /\ (j.op = "object" /\ j.fresh = job[a].fresh) \/ j.op = "cache"
        /\ j.request = job[a].request /\ j.seen = job[a].seen /\ j.body = job[a].body
    BY <1>2 DEF Job
  <2>3. JobOK(a, j)
    BY <1>0, <1>5, <2>2, Numbers DEF ChartMatch, JobOK, Charting
  <2>4. ~overlapped => AloneOK(j)
    BY <1>0, <1>5, <2>2 DEF ChartMatch, AloneOK, Charting
  <2>5. QED
    BY <1>1, <1>3, <1>5, <2>1, <2>2, <2>3, <2>4, JobStep DEF ChartMatch, Building
<1>6. CASE ChartFromSnapshot(a)
  <2>1. object.chart \in Data /\ job[a].op \in Charting
    BY <1>0, <1>6 DEF ChartFromSnapshot, Charting, TypeInv, SnapshotTypeOK, Snapshot
  <2>2. ASSUME ~overlapped, dataset.exists, Building(a), job[a].seen = dataset.version
        PROVE  DefaultFits(job[a].request, object.chart)
    <3>0. CASE foreseen
      BY <3>0 DEF DefaultFits
    <3>1. Fresh /\ (~foreseen => job[a].request.dates = dataset.request.dates)
      BY <1>0, <1>6, <2>2 DEF ChartFromSnapshot, JobOK, AloneOK, Building, Charting
    <3>2. object.chart # 0 /\ object.request.variable = job[a].request.variable
      BY <1>6 DEF ChartFromSnapshot, HasStoredChart
    <3>3. DefaultFits(object.request, object.chart)
      BY <1>0, <2>2, <3>1 DEF ServedOK
    <3>4. object.request \in Requests /\ job[a].request \in Requests
      BY <1>0, <1>2, <2>1, <3>2 DEF ContentOK, BoundJob
    <3>5. ~foreseen => object.request = job[a].request
      BY <3>1, <3>2, <3>3, <3>4 DEF DefaultFits, Requests
    <3>6. QED
      BY <3>0, <3>3, <3>5
  <2>3. QED
    BY <1>1, <1>3, <1>6, <2>1, <2>2, AnsweredOK, JobStep DEF ChartFromSnapshot
<1>7. CASE ChartNoSnapshot(a)
  <2> DEFINE j == [job[a] EXCEPT !.op = "cache", !.fresh = FALSE]
  <2>1. j \in BoundJob
    BY <1>2, <1>7 DEF ChartNoSnapshot, BoundJob, Job, JobOps, Charting
  <2>2. /\ j.op = "cache" /\ j.fresh = FALSE /\ j.request = job[a].request
        /\ j.seen = job[a].seen /\ j.body = job[a].body
    BY <1>2 DEF Job
  <2>3. JobOK(a, j)
    BY <1>0, <1>7, <2>2 DEF ChartNoSnapshot, JobOK, Charting
  <2>4. ~overlapped => AloneOK(j)
    BY <1>0, <1>7, <2>2 DEF ChartNoSnapshot, AloneOK, Charting
  <2>5. QED
    BY <1>1, <1>3, <1>7, <2>1, <2>2, <2>3, <2>4, JobStep DEF ChartNoSnapshot, Building
<1>8. CASE ChartFromCache(a)
  <2>1. job[a].op \in Charting /\ job[a].request \in Requests
    BY <1>2, <1>8 DEF ChartFromCache, BoundJob, Charting
  <2>2. cache[CacheKey(a)] \in Data /\ Fits(job[a].request, cache[CacheKey(a)])
    BY <1>0, <1>3, <2>1 DEF CacheKey, TypeInv, SnapshotTypeOK
  <2>3. ~overlapped /\ dataset.exists /\ Building(a) /\ job[a].seen = dataset.version
            => DefaultFits(job[a].request, cache[CacheKey(a)])
    BY <1>0, <2>1, <2>2 DEF AloneOK, Building, DefaultFits
  <2>4. QED
    BY <1>1, <1>3, <1>8, <2>1, <2>2, <2>3, AnsweredOK, JobStep DEF ChartFromCache
<1>9. CASE ChartCompute(a)
  <2> DEFINE j == [job[a] EXCEPT !.op = "store", !.fresh = FALSE, !.chart = Content]
  <2>1. j \in BoundJob
    BY <1>0, <1>2, <1>9, RowTypes DEF ChartCompute, BoundJob, Job, JobOps, Charting
  <2>2. /\ j.op = "store" /\ j.fresh = FALSE /\ j.request = job[a].request
        /\ j.seen = job[a].seen /\ j.body = job[a].body /\ j.chart = dataset.version
    BY <1>2, <1>9 DEF ChartCompute, Content, Job
  <2>3. Fits(j.request, j.chart)
    BY <1>0, <2>2 DEF Fits, ContentOK
  <2>4. JobOK(a, j)
    BY <1>0, <1>9, <2>2, <2>3 DEF ChartCompute, JobOK, Charting
  <2>5. ~overlapped => AloneOK(j)
    BY <1>0, <1>9, <2>2 DEF ChartCompute, AloneOK, Charting
  <2>6. QED
    BY <1>1, <1>3, <1>9, <2>1, <2>2, <2>4, <2>5, JobStep DEF ChartCompute, Building
<1>10. CASE ChartStore(a) \/ ChartNotStored(a)
  <2>1. /\ job[a].op \in Charting /\ job[a].chart \in Data
        /\ job[a].request \in Requests /\ Fits(job[a].request, job[a].chart)
    BY <1>0, <1>2, <1>10 DEF ChartStore, ChartNotStored, Job, BoundJob, Charting, JobOK
  <2>2. ~overlapped /\ dataset.exists /\ Building(a) /\ job[a].seen = dataset.version
            => DefaultFits(job[a].request, job[a].chart)
    BY <1>0, <2>1 DEF AloneOK, Building, DefaultFits
  <2>3. \A r \in Requests : Fits(r, cache'[r])
    BY <1>0, <1>3, <1>10, <2>1 DEF ChartStore, ChartNotStored, CacheKey, TypeInv, SnapshotTypeOK
  <2>4. QED
    BY <1>1, <1>10, <2>1, <2>2, <2>3, AnsweredOK, JobStep DEF ChartStore, ChartNotStored
<1>11. CASE ChartFails(a)
  <2>1. job[a].op \in {"chart"} \cup Charting /\ DefaultFits(job[a].request, 0)
    BY <1>11 DEF ChartFails, Charting, DefaultFits
  <2>2. QED
    BY <1>1, <1>3, <1>11, <2>1, DataTypes, AnsweredOK, JobStep DEF ChartFails
<1>12. CASE BuildRequest(a)
  <2> DEFINE j == Asked(job[a], dataset.request)
  <2>1. j \in BoundJob
    BY <1>2, <1>12 DEF BuildRequest, Asked, BoundJob, Job, JobOps, Charting
  <2>2. /\ (j.op = "match" /\ job[a].fresh) \/ j.op = "cache"
        /\ j.request = dataset.request /\ j.fresh = job[a].fresh
        /\ j.seen = job[a].seen /\ j.body = job[a].body
    BY <1>2 DEF Asked, Job
  <2>3. JobOK(a, j)
    BY <1>0, <1>12, <2>2, Numbers DEF BuildRequest, JobOK, Charting
  <2>4. ~overlapped => AloneOK(j)
    BY <1>0, <1>12, <2>2 DEF BuildRequest, AloneOK, Charting
  <2>5. QED
    BY <1>1, <1>3, <1>12, <2>1, <2>2, <2>3, <2>4, JobStep DEF BuildRequest, Building
<1>13. QED
  BY <1>4, <1>5, <1>6, <1>7, <1>8, <1>9, <1>10, <1>11, <1>12 DEF ChartStep

-----------------------------------------------------------------------------
\* A chart still fits when the request changes, if an older one of the new
\* request would have been noticed.
LEMMA RedefineFits ==
    ASSUME TypeInv, NEW v \in Nat, NEW q, Redefine(v, q), NEW r, NEW chart \in Nat,
           Fits(r, chart), r = q /\ chart \in 1..v-1 => Charted(q, v)
    PROVE  r = dataset'.request /\ chart # 0 /\ ~foreseen' => since' <= chart
<1>1. dataset'.request = q
  BY DEF Redefine, TypeInv, SnapshotTypeOK, Dataset
<1>2. CASE q = dataset.request
  BY <1>1, <1>2 DEF Redefine, requestVars, Fits
<1>3. CASE q # dataset.request
  <2>1. since' = v /\ (Charted(q, v) => foreseen')
    BY <1>3 DEF Redefine
  <2>2. SUFFICES ASSUME r = q, chart # 0, ~Charted(q, v) PROVE v <= chart
    BY <1>1, <2>1
  <2>3. ~(chart \in 1..v-1)
    BY <2>2
  <2>4. QED
    BY <2>2, <2>3
<1>4. QED
  BY <1>2, <1>3

\* What the cache and the jobs know of the default request, when it changes.
LEMMA RedefineOK ==
    ASSUME Inv, NEW v \in Nat, NEW q, Redefine(v, q),
           UNCHANGED <<cache, object, job>>
    PROVE  /\ \A r \in Requests : Fits(r, cache[r])'
           /\ \A a \in Actors : Fits(job[a].request, job[a].chart) =>
                                     Fits(job[a].request, job[a].chart)'
           /\ Fits(object.request, object.chart) => Fits(object.request, object.chart)'
<1>1. TypeInv /\ \A r \in Requests : Fits(r, cache[r])
  BY DEF Inv, CacheOK
<1>2. \A r \in Requests : Fits(r, cache[r])'
  <2> SUFFICES ASSUME NEW r \in Requests PROVE Fits(r, cache[r])'
    OBVIOUS
  <2>1. r = q /\ cache[r] \in 1..v-1 => Charted(q, v)
    BY DEF Charted
  <2>2. QED
    BY <1>1, <2>1, RedefineFits, Numbers DEF Fits
<1>3. ASSUME NEW a \in Actors, Fits(job[a].request, job[a].chart)
      PROVE  Fits(job[a].request, job[a].chart)'
  <2>1. job[a].request = q /\ job[a].chart \in 1..v-1 => Charted(q, v)
    BY DEF Charted
  <2>2. QED
    BY <1>1, <1>3, <2>1, RedefineFits, Numbers DEF Fits
<1>4. ASSUME Fits(object.request, object.chart)
      PROVE  Fits(object.request, object.chart)'
  <2>1. object.request = q /\ object.chart \in 1..v-1 => Charted(q, v)
    BY DEF Charted
  <2>2. QED
    BY <1>1, <1>4, <2>1, RedefineFits, Numbers DEF Fits
<1>5. QED
  BY <1>2, <1>3, <1>4

\* Ingestions, reviews and deletions: no job changes.
LEMMA OthersInv ==
    ASSUME Inv,
           \/ Ingest \/ IngestDispatch \/ IngestLost \/ IngestWithdraw \/ ReviewRoles
           \/ DeleteObject \/ DeleteCommit \/ DeleteLost
    PROVE  Inv'
<1> USE DEF storeVars, othersVars, historyVars, requestVars
<1>0. TypeInv /\ ContentOK /\ CacheOK /\ job' = job /\ overlapped' = overlapped
  BY DEF Inv, Ingest, IngestDispatch, IngestLost, IngestWithdraw, ReviewRoles, DeleteObject, DeleteCommit, DeleteLost
<1>1. TypeInv'
  BY <1>0, OthersTypes
<1>2. \A a \in Actors : JobOK(a, job[a])
  BY DEF Inv
<1>3. (~overlapped => SerialOK) /\ (OneBuild => OneBuild')
  BY <1>0 DEF Inv, OneBuild, Building
<1>4. CASE Ingest
  <2>1. PICK d \in Dates : Redefine(dataset.version + 1, [dataset.request EXCEPT !.dates = d])
    BY <1>4 DEF Ingest, Bump
  <2>2. dataset \in Dataset
    BY <1>0 DEF TypeInv, SnapshotTypeOK
  <2>3. /\ dataset'.version = dataset.version + 1
        /\ dataset'.snapshot = dataset.snapshot /\ dataset'.exists = dataset.exists
        /\ since' \in {since, dataset.version + 1}
        /\ object' = object /\ cache' = cache
    BY <1>4, <2>1, <2>2 DEF Ingest, Redefine, requestVars, Dataset
  <2>4. dataset.version < dataset'.version /\ dataset.version + 1 \in Nat
    BY <1>0, <2>3, Numbers
  <2>5. ContentOK'
    BY <1>0, <2>3, Numbers DEF ContentOK, StampNotNewer
  <2>6. CacheOK'
    BY <1>0, <2>1, <2>3, <2>4, RedefineOK DEF CacheOK
  <2>7. \A a \in Actors : JobOK(a, job[a])'
    <3> SUFFICES ASSUME NEW a \in Actors PROVE JobOK(a, job[a])'
      OBVIOUS
    <3>1. job'[a] = job[a] /\ JobOK(a, job[a])
      BY <1>0, <1>2
    <3>2. job[a].seen \in Nat /\ job[a].body \in Nat
          /\ dataset.version \in Nat /\ dataset'.version \in Nat
      BY <1>0, <2>3, Numbers
    <3>3. job[a].op = "store" => Fits(job[a].request, job[a].chart)'
      BY <1>0, <2>1, <2>3, <2>4, <3>1, RedefineOK DEF JobOK
    <3>4. QED
      BY <2>3, <2>4, <3>1, <3>2, <3>3 DEF JobOK
  <2>8. ~Fresh'
    BY <1>0, <2>3, Numbers DEF Fresh, ContentOK
  <2>9. ASSUME ~overlapped' PROVE \A a \in Actors : AloneOK(job[a])'
    <3> SUFFICES ASSUME NEW a \in Actors PROVE AloneOK(job[a])'
      OBVIOUS
    <3>1. AloneOK(job[a]) /\ job'[a] = job[a] /\ JobOK(a, job[a])
      BY <1>0, <1>2, <1>3, <2>9 DEF SerialOK
    <3>2. job[a].seen # dataset'.version
      BY <1>0, <2>3, <3>1, Numbers DEF JobOK
    <3>3. QED
      BY <2>3, <3>1, <3>2 DEF AloneOK
  <2>10. QED
    BY <1>0, <1>1, <1>3, <2>5, <2>6, <2>7, <2>8, <2>9 DEF Inv, SerialOK, ServedOK
<1>9. CASE ReviewRoles
  <2>1. PICK u \in Variables \cup {NoVariable} :
            Redefine(dataset.version, [dataset.request EXCEPT !.variable = u])
    BY <1>9 DEF ReviewRoles
  <2>2. dataset \in Dataset /\ dataset.request \in DefaultRequests /\ dataset.version \in Nat
    BY <1>0, Numbers DEF TypeInv, SnapshotTypeOK, Dataset
  <2>3. /\ dataset'.version = dataset.version /\ dataset'.snapshot = dataset.snapshot
        /\ dataset'.exists = dataset.exists
        /\ dataset'.request.dates = dataset.request.dates
        /\ since' \in {since, dataset.version} /\ (foreseen => foreseen')
        /\ object' = object /\ cache' = cache
    BY <1>9, <2>1, <2>2 DEF ReviewRoles, Redefine, requestVars, Dataset, DefaultRequests
  <2>4. UNCHANGED <<cache, object, job>>
    BY <1>0, <2>3
  <2>5. ContentOK' /\ CacheOK'
    BY <1>0, <2>1, <2>2, <2>3, <2>4, RedefineOK, Numbers DEF ContentOK, StampNotNewer, CacheOK
  <2>6. \A a \in Actors : JobOK(a, job[a])'
    <3> SUFFICES ASSUME NEW a \in Actors PROVE JobOK(a, job[a])'
      OBVIOUS
    <3>1. job'[a] = job[a] /\ JobOK(a, job[a])
      BY <1>0, <1>2
    <3>2. job[a].op = "store" => Fits(job[a].request, job[a].chart)'
      BY <2>1, <2>2, <2>4, <3>1, RedefineOK DEF JobOK
    <3>3. QED
      BY <2>3, <3>1, <3>2 DEF JobOK
  <2>7. DefaultFits(object.request, object.chart) => DefaultFits(object.request, object.chart)'
    BY <2>1, <2>2, <2>3, <2>4, RedefineOK DEF DefaultFits
  <2>8. \A a \in Actors : DefaultFits(job[a].request, job[a].chart) =>
                             DefaultFits(job[a].request, job[a].chart)'
    BY <2>1, <2>2, <2>3, <2>4, RedefineOK DEF DefaultFits
  <2>9. SerialOK => SerialOK'
    <3>1. ServedOK => ServedOK'
      BY <2>3, <2>7 DEF ServedOK, Fresh
    <3>2. ASSUME NEW a \in Actors, AloneOK(job[a]) PROVE AloneOK(job[a])'
      BY <1>0, <2>3, <2>7, <2>8, <3>2 DEF AloneOK, Fresh
    <3>3. QED
      BY <1>3, <3>1, <3>2 DEF SerialOK
  <2>10. QED
    BY <1>0, <1>1, <1>3, <2>5, <2>6, <2>9 DEF Inv
<1>5. CASE IngestDispatch \/ IngestLost \/ DeleteLost
  <2>1. UNCHANGED <<dataset, object, cache, since, foreseen>>
    BY <1>5 DEF IngestDispatch, IngestLost, DeleteLost, requestVars
  <2>2. ContentOK' /\ CacheOK' /\ (ServedOK => ServedOK')
    BY <1>0, <2>1 DEF ContentOK, StampNotNewer, CacheOK, ServedOK, Fresh, DefaultFits, Fits
  <2>3. \A a \in Actors : JobOK(a, job[a])' /\ (AloneOK(job[a]) => AloneOK(job[a])')
    BY <1>0, <1>2, <2>1 DEF JobOK, AloneOK, Fresh, DefaultFits, Fits
  <2>4. QED
    BY <1>0, <1>1, <1>3, <2>2, <2>3 DEF Inv, SerialOK
<1>6. CASE DeleteObject
  <2>1. UNCHANGED <<dataset, cache, since, foreseen>> /\ object' = NoSnapshot
        /\ object'.version = 0 /\ object'.body = 0 /\ object'.chart = 0
    BY <1>6 DEF DeleteObject, NoSnapshot, requestVars
  <2>2. ContentOK' /\ CacheOK' /\ ServedOK'
    BY <1>0, <2>1, Numbers DEF ContentOK, StampNotNewer, CacheOK, ServedOK, Fresh, DefaultFits, Fits
  <2>3. \A a \in Actors : JobOK(a, job[a])' /\ (AloneOK(job[a]) => AloneOK(job[a])')
    BY <1>0, <1>2, <2>1 DEF JobOK, AloneOK, Fresh, DefaultFits, Fits
  <2>4. QED
    BY <1>0, <1>1, <1>3, <2>2, <2>3 DEF Inv, SerialOK
<1>7. CASE DeleteCommit
  <2>1. dataset \in Dataset
    BY <1>0 DEF TypeInv, SnapshotTypeOK
  <2>2. /\ dataset'.version = dataset.version /\ dataset'.request.variable = NoVariable
        /\ dataset'.snapshot = 0 /\ dataset'.exists = FALSE
        /\ UNCHANGED <<object, cache, since, foreseen>>
    BY <1>7, <2>1 DEF DeleteCommit, Dataset, DefaultRequests, requestVars
  <2>3. \A r \in Requests : r # dataset'.request
    BY <2>2, SnapshotAssumption DEF Requests
  <2>4. ContentOK' /\ CacheOK' /\ ServedOK'
    BY <1>0, <2>2, <2>3, Numbers DEF ContentOK, StampNotNewer, CacheOK, Fits, ServedOK
  <2>5. \A a \in Actors : JobOK(a, job[a])' /\ (AloneOK(job[a]) => AloneOK(job[a])')
    <3> SUFFICES ASSUME NEW a \in Actors
                 PROVE  JobOK(a, job[a])' /\ (AloneOK(job[a]) => AloneOK(job[a])')
      OBVIOUS
    <3>1. job'[a] = job[a] /\ JobOK(a, job[a]) /\ job[a] \in BoundJob /\ job[a].seen \in Nat
      BY <1>0, <1>2, Numbers DEF TypeInv
    <3>2. job[a].op = "store" => job[a].request \in Requests
      BY <3>1 DEF BoundJob, Charting
    <3>3. JobOK(a, job[a])'
      BY <2>2, <2>3, <3>1, <3>2 DEF JobOK, Fits
    <3>4. QED
      BY <2>2, <3>1, <3>3 DEF AloneOK
  <2>6. QED
    BY <1>0, <1>1, <1>3, <2>4, <2>5 DEF Inv, SerialOK
<1>8. CASE IngestWithdraw
  <2>1. PICK d \in Dates : dataset' = [dataset EXCEPT !.request.dates = d]
    BY <1>8 DEF IngestWithdraw
  <2>2. dataset \in Dataset
    BY <1>0 DEF TypeInv, SnapshotTypeOK
  <2>3. /\ dataset'.version = dataset.version /\ dataset'.snapshot = dataset.snapshot
        /\ dataset'.exists = dataset.exists /\ since' = dataset.version /\ foreseen'
        /\ UNCHANGED <<object, cache>>
    BY <1>8, <2>1, <2>2 DEF IngestWithdraw, Dataset
  <2>4. ContentOK' /\ CacheOK' /\ (ServedOK => ServedOK')
    BY <1>0, <2>3, Numbers DEF ContentOK, StampNotNewer, CacheOK, Fits, DefaultFits, ServedOK, Fresh
  <2>5. \A a \in Actors : JobOK(a, job[a])' /\ (AloneOK(job[a]) => AloneOK(job[a])')
    BY <1>0, <1>2, <2>3 DEF JobOK, AloneOK, Fits, DefaultFits, Fresh
  <2>6. QED
    BY <1>0, <1>1, <1>3, <2>4, <2>5 DEF Inv, SerialOK
<1>10. QED
  BY <1>4, <1>5, <1>6, <1>7, <1>8, <1>9

\* The steps of a build around its chart.
LEMMA BuildInv ==
    ASSUME Inv, NEW b \in Builders,
           \/ BuildSkip(b) \/ BuildLoad(b) \/ BuildBody(b) \/ BuildPut(b) \/ BuildRow(b)
           \/ BuildCommit(b) \/ BuildFails(b) \/ BuildLost(b) \/ BuildRedelivered(b)
    PROVE  Inv'
<1> USE DEF storeVars, othersVars, historyVars, requestVars
<1>0. TypeInv /\ ContentOK /\ b \in Actors /\ JobOK(b, job[b]) /\ (~overlapped => AloneOK(job[b]))
  BY DEF Inv, SerialOK, Actors
<1>1. TypeInv'
  BY <1>0, BuildTypes
<1>2. job[b] \in Job /\ job[b] \in BoundJob
  BY <1>0, Numbers DEF BoundJob
<1>3. CacheOK /\ \A r \in Requests : Fits(r, cache[r])
  BY DEF Inv, CacheOK
<1>4. CASE BuildSkip(b) \/ BuildRedelivered(b)
  <2>1. UNCHANGED <<dataset, object, cache, job, overlapped, since, foreseen>>
    BY <1>4 DEF BuildSkip, BuildRedelivered, requestVars
  <2>2. ContentOK' /\ CacheOK'
    BY <1>0, <1>3, <2>1 DEF ContentOK, StampNotNewer, CacheOK, Fits
  <2>3. \A a \in Actors : JobOK(a, job[a])'
    BY <2>1 DEF Inv, JobOK, Fits
  <2>4. SerialOK => SerialOK'
    BY <2>1 DEF SerialOK, OneBuild, Building, ServedOK, AloneOK, Fresh, DefaultFits, Fits
  <2>5. QED
    BY <1>1, <2>1, <2>2, <2>3, <2>4 DEF Inv
<1>5. CASE BuildLoad(b)
  <2> DEFINE j == [Idle EXCEPT !.op = "body", !.seen = dataset.version, !.fresh = Fresh]
  <2>1. /\ j.op = "body" /\ j.seen = dataset.version /\ j.fresh = Fresh
        /\ j.body = 0 /\ j.chart = 0
    BY DEF Idle
  <2>2. /\ UNCHANGED <<dataset, object, cache, since, foreseen>>
        /\ job'[b] = j /\ \A a \in Actors \ {b} : job'[a] = job[a]
    BY <1>0, <1>5 DEF BuildLoad, SetJob, TypeInv, requestVars
  <2>3. JobOK(b, j)
    BY <1>0, <2>1, Numbers DEF JobOK, Charting
  <2>4. AloneOK(j)
    BY <1>0, <2>1 DEF AloneOK, Charting, ContentOK
  <2>5. ContentOK' /\ CacheOK'
    BY <1>0, <1>3, <2>2 DEF ContentOK, StampNotNewer, CacheOK, Fits
  <2>6. \A a \in Actors : JobOK(a, job[a])'
    BY <2>2, <2>3 DEF Inv, JobOK, Fits
  <2>7. ASSUME ~overlapped' PROVE SerialOK'
    <3>1. ~overlapped /\ \A a \in Builders : ~Building(a)
      BY <1>5, <2>7 DEF BuildLoad
    <3>2. SerialOK
      BY <3>1 DEF Inv
    <3>3. \A a \in Actors : ~Building(a)
      BY <3>1 DEF Inv, JobOK, Building
    <3>4. OneBuild'
      BY <2>2, <3>3 DEF OneBuild, Building
    <3>5. ServedOK'
      BY <2>2, <3>2 DEF SerialOK, ServedOK, Fresh, DefaultFits, Fits
    <3>6. AloneOK(job[b])'
      BY <2>2, <2>4 DEF AloneOK, Fresh, DefaultFits, Fits
    <3>7. \A a \in Actors \ {b} : AloneOK(job[a])'
      BY <2>2, <3>3 DEF AloneOK, Building
    <3>8. QED
      BY <3>4, <3>5, <3>6, <3>7 DEF SerialOK
  <2>8. QED
    BY <1>1, <2>5, <2>6, <2>7 DEF Inv
<1>6. CASE BuildBody(b)
  <2> DEFINE j == [job[b] EXCEPT !.op = "chart", !.body = Content]
  <2>1. j \in BoundJob
    BY <1>0, <1>2, <1>6, RowTypes DEF BuildBody, BoundJob, Job, JobOps, Charting
  <2>2. /\ j.op = "chart" /\ j.body = Content /\ j.fresh = job[b].fresh
        /\ j.seen = job[b].seen /\ j.request = job[b].request
    BY <1>2 DEF Job
  <2>3. JobOK(b, j)
    BY <1>0, <2>2, Numbers DEF JobOK, Charting, Content
  <2>4. ~overlapped => AloneOK(j)
    BY <1>0, <1>6, <2>2 DEF BuildBody, AloneOK, Charting
  <2>5. QED
    BY <1>0, <1>1, <1>3, <1>6, <2>1, <2>2, <2>3, <2>4, JobStep DEF BuildBody, Building
<1>7. CASE BuildPut(b)
  <2> DEFINE j == [Idle EXCEPT !.op = "row", !.seen = job[b].seen]
  <2>1. /\ j.op = "row" /\ j.seen = job[b].seen /\ j.fresh = FALSE
        /\ j.body = 0 /\ j.chart = 0
    BY DEF Idle
  <2>2. /\ UNCHANGED <<dataset, cache, overlapped, since, foreseen>>
        /\ job'[b] = j /\ \A a \in Actors \ {b} : job'[a] = job[a]
    BY <1>0, <1>7 DEF BuildPut, SetJob, TypeInv, requestVars
  <2>3. /\ object'.version = job[b].seen /\ object'.body = job[b].body
        /\ object'.chart = job[b].chart /\ object'.request = job[b].request
        /\ job[b].op = "put" /\ Building(b)
        /\ job[b].chart # 0 => job[b].request \in Requests
    BY <1>2, <1>7 DEF BuildPut, Stamp, BoundJob, Building
  <2>4. ContentOK' /\ CacheOK'
    BY <1>0, <1>3, <2>2, <2>3 DEF ContentOK, StampNotNewer, JobOK, Building, CacheOK, Fits
  <2>5. \A a \in Actors : JobOK(a, job[a])'
    <3>1. JobOK(b, j)
      BY <1>0, <2>1, Numbers DEF JobOK, Charting
    <3>2. QED
      BY <2>2, <3>1 DEF Inv, JobOK, Fits
  <2>6. ASSUME ~overlapped' PROVE SerialOK'
    <3>1. SerialOK /\ AloneOK(job[b])
      BY <1>0, <2>2, <2>6 DEF Inv
    <3>2. OneBuild' /\ \A a \in Actors \ {b} : ~Building(a)
      BY <1>0, <2>1, <2>2, <2>3, <3>1 DEF SerialOK, OneBuild, Building
    <3>3. AloneOK(job[b])'
      BY <2>1, <2>2, <2>3, <3>1 DEF AloneOK, Charting, DefaultFits, Fits
    <3>4. \A a \in Actors \ {b} : AloneOK(job[a])'
      BY <2>2, <3>2 DEF AloneOK, Building
    <3>5. ServedOK'
      <4>1. dataset.exists /\ Fresh => job[b].seen = dataset.version
        BY <1>0, <2>3, <3>1, Numbers DEF AloneOK, Fresh, JobOK, Building
      <4>2. QED
        BY <2>2, <2>3, <3>1, <4>1 DEF ServedOK, AloneOK, Fresh, Building, DefaultFits, Fits
    <3>6. QED
      BY <3>2, <3>3, <3>4, <3>5 DEF SerialOK
  <2>7. QED
    BY <1>1, <2>4, <2>5, <2>6 DEF Inv
<1>8. CASE BuildRow(b)
  <2> DEFINE j == [job[b] EXCEPT !.op = "commit", !.pointer = dataset.snapshot]
  <2>1. j \in BoundJob
    BY <1>0, <1>2, <1>8, RowTypes DEF BuildRow, BoundJob, Job, JobOps, Charting
  <2>2. /\ j.op = "commit" /\ j.body = job[b].body /\ j.seen = job[b].seen
        /\ j.request = job[b].request /\ j.fresh = job[b].fresh
    BY <1>2 DEF Job
  <2>3. JobOK(b, j)
    BY <1>0, <2>2 DEF JobOK, Charting
  <2>4. ~overlapped => AloneOK(j)
    BY <1>0, <1>8, <2>2 DEF BuildRow, AloneOK, Charting
  <2>5. CASE dataset.exists
    BY <1>0, <1>1, <1>3, <1>8, <2>1, <2>2, <2>3, <2>4, <2>5, JobStep DEF BuildRow, Building
  <2>6. CASE ~dataset.exists
    BY <1>0, <1>1, <1>3, <1>8, <2>6, IdleType, IdleOK, JobStep DEF BuildRow, Idle
  <2>7. QED
    BY <2>5, <2>6
<1>9. CASE BuildCommit(b)
  <2>1. dataset \in Dataset
    BY <1>0 DEF TypeInv, SnapshotTypeOK
  <2>2. /\ dataset'.version = dataset.version /\ dataset'.request = dataset.request
        /\ dataset'.exists = dataset.exists /\ dataset'.snapshot = Pointer(b)
        /\ UNCHANGED <<object, cache, overlapped, since, foreseen>>
        /\ job'[b] = Idle /\ \A a \in Actors \ {b} : job'[a] = job[a]
    BY <1>0, <1>9, <2>1 DEF BuildCommit, SetJob, TypeInv, Dataset, requestVars
  <2>3. Pointer(b) \in {dataset.snapshot, job[b].seen} /\ job[b].op = "commit" /\ Building(b)
    BY <1>2, <1>9 DEF BuildCommit, Pointer, BoundJob, Building
  <2>4. ContentOK' /\ CacheOK'
    BY <1>0, <1>3, <2>2, <2>3 DEF ContentOK, StampNotNewer, JobOK, CacheOK, Fits
  <2>5. \A a \in Actors : JobOK(a, job[a])'
    <3>1. JobOK(b, Idle)
      BY <1>0, IdleOK
    <3>2. QED
      BY <2>2, <3>1 DEF Inv, JobOK, Fits
  <2>6. ASSUME ~overlapped' PROVE SerialOK'
    <3>1. SerialOK /\ AloneOK(job[b])
      BY <1>0, <2>2, <2>6 DEF Inv
    <3>2. \A a \in Actors : ~Building(a)'
      BY <1>0, <2>2, <2>3, <3>1 DEF SerialOK, OneBuild, Building, Idle
    <3>3. ServedOK'
      BY <2>2, <2>3, <3>1 DEF SerialOK, ServedOK, AloneOK, Fresh, Building, DefaultFits, Fits
    <3>4. \A a \in Actors : AloneOK(job[a])'
      BY <3>2 DEF AloneOK, Building
    <3>5. QED
      BY <3>2, <3>3, <3>4 DEF SerialOK, OneBuild
  <2>7. QED
    BY <1>1, <2>4, <2>5, <2>6 DEF Inv
<1>10. CASE BuildFails(b) \/ BuildLost(b)
  BY <1>0, <1>1, <1>3, <1>10, IdleType, IdleOK, JobStep DEF BuildFails, BuildLost, Idle
<1>11. QED
  BY <1>4, <1>5, <1>6, <1>7, <1>8, <1>9, <1>10

LEMMA NextInv == Inv /\ [Next]_vars => Inv'
<1> SUFFICES ASSUME Inv, [Next]_vars PROVE Inv'
  OBVIOUS
<1>0. TypeInv'
  BY NextTypes DEF Inv
<1>1. ASSUME UNCHANGED <<dataset, object, job, overlapped, since, foreseen>>,
             \A r \in Requests : cache'[r] # 0 => cache'[r] = cache[r]
      PROVE  Inv'
  <2>1. ContentOK' /\ CacheOK'
    BY <1>1 DEF Inv, ContentOK, StampNotNewer, CacheOK, Fits
  <2>2. \A a \in Actors : JobOK(a, job[a])'
    BY <1>1 DEF Inv, JobOK, Fits
  <2>3. SerialOK => SerialOK'
    BY <1>1 DEF SerialOK, OneBuild, Building, ServedOK, AloneOK, Fresh, DefaultFits, Fits
  <2>4. QED
    BY <1>0, <1>1, <2>1, <2>2, <2>3 DEF Inv
<1>2. CASE UNCHANGED vars
  BY <1>1, <1>2 DEF vars, storeVars, historyVars, requestVars
<1>3. ASSUME NEW r \in Requests, CacheExpire(r) PROVE Inv'
  BY <1>1, <1>3 DEF CacheExpire, historyVars, requestVars, Inv, TypeInv, SnapshotTypeOK
<1>4. ASSUME NEW v \in Viewers, ViewLoad(v) \/ ChartStep(v) PROVE Inv'
  BY <1>4, ChartInv DEF Actors
<1>5. ASSUME NEW b \in Builders,
             BuildStep(b) \/ BuildFails(b) \/ BuildLost(b) \/ BuildRedelivered(b)
      PROVE  Inv'
  BY <1>5, ChartInv, BuildInv DEF BuildStep, Actors
<1>6. QED
  BY <1>2, <1>3, <1>4, <1>5, OthersInv DEF Next

-----------------------------------------------------------------------------
(* Theorems                                                                *)

\* The inductive invariant holds in every reachable state: what each build,
\* the stored object, the pointer and the cache know of one another.
THEOREM Invariance == Spec => []Inv
BY InitInv, NextInv, PTL DEF Spec

\* The payload's stamp: captured first, it is never newer than what is read
\* afterwards, however many builds and ingestions there are.
THEOREM StampIsConservative == Spec => []StampNotNewer
<1>1. Inv => StampNotNewer
  BY DEF Inv, ContentOK
<1>2. QED
  BY <1>1, Invariance, PTL

\* As long as builds do not overlap, what is served as fresh is the content of
\* the dataset's version.
THEOREM SerialServesCurrent == Spec => []ServedIsCurrent
<1>1. Inv => ServedIsCurrent
  BY Numbers DEF Inv, ContentOK, StampNotNewer, SerialOK, ServedOK, ServedIsCurrent
<1>2. QED
  BY <1>1, Invariance, PTL

\* And its chart of the default request is no older than that request, unless
\* an older chart of it was there or under way when it became the default.
THEOREM SerialChartFits == Spec => []ServedChartFitsRequest
<1>1. Inv => ServedChartFitsRequest
  <2> SUFFICES ASSUME Inv, dataset.exists, Fresh, ~overlapped, ~foreseen, object.chart # 0,
                      object.request.variable = dataset.request.variable
               PROVE  object.chart >= since
    BY DEF ServedChartFitsRequest
  <2>1. DefaultFits(object.request, object.chart)
    BY DEF Inv, SerialOK, ServedOK
  <2>2. object.request \in Requests /\ dataset.request \in DefaultRequests
    BY RowTypes DEF Inv, ContentOK
  <2>3. object.request = dataset.request
    BY <2>1, <2>2 DEF DefaultFits, Requests, DefaultRequests
  <2>4. since <= object.chart
    BY <2>1, <2>3 DEF DefaultFits, Fits
  <2>5. QED
    BY <2>4, Numbers DEF Inv
<1>2. QED
  BY <1>1, Invariance, PTL
=============================================================================
