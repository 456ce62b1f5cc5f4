--------------------------- MODULE DatasetQueries ---------------------------
(***************************************************************************)
(* One dataset whose content changes while it is counted, charted,         *)
(* reviewed and repaired:                                                  *)
(*   - the ingestion of files (tasks/ingestion.py), one commit for each    *)
(*     delivery, which raises the dataset's version and its record_count;  *)
(*   - the removal of a file that was ingested, by the clean-up of a later *)
(*     delivery or by a late cancellation, which changes neither;          *)
(*   - the script that writes DatasetRecord rows for files of the older    *)
(*     tier (scripts/backfill_dataset_records.py), which does not;         *)
(*   - a request, which counts what it covers and stores the counts with   *)
(*     the version (requests_service.py);                                  *)
(*   - the review of the variables' roles (admin_dataset_schema_service).  *)
(* An actor is a process that runs one such operation at a time, cut where *)
(* the code ends a statement or a transaction.  Charts are functions of    *)
(* the content: what a reader is shown in a state is a property of it.     *)
(***************************************************************************)
EXTENDS Catalogue, Parsing

CONSTANTS
    Files,          \* the dataset's files
    Raw,            \* the uploaded content of each
    Parsed,         \* what the parsers make of it; what none accepts is never ingested
    Seeded,         \* rows that belong to no file (scripts/seed_catalog.py)
    Others,         \* the rows of the other datasets
    Legacy,         \* files ingested before the Parquet tier: storage_kind row_records
    Actors,
    Filters,        \* the filters of charts and of scopes
    Criteria,       \* those among them that requests are made with
    Parameters,     \* the variables that charts are asked for, and whose roles are changed
    MaxDays,        \* the longest date range of a chart, None for no limit
    MaxPoints,      \* the points of a grid that a map shows
    PreviewLimit,   \* the rows of a preview
    MaxIngested,    \* bound on the ingestions committed
    MaxOperations,  \* bound on the operations begun
    MaxEvents       \* bound on the two together

IsNetcdf(f) == Raw[f].extension \in {"nc", "netcdf", "nc4"}

\* A struct is read as an array of one cell.
RawArrays(m) ==
    [v \in DOMAIN m.arrays \cup {m.structs[i].name : i \in DOMAIN m.structs} |->
        IF v \in DOMAIN m.arrays THEN m.arrays[v].cells ELSE <<None>>]

\* What the libraries and the parsers make of a file has the form they give it.
WellFormed(f) ==
    /\ Parsed[f].kind = "table" => IsTable(Parsed[f].table) /\ IsCoerced(Parsed[f].table)
    /\ Parsed[f].kind = "grid" => IsGrid(Parsed[f].ds) /\ HasNumbers(Parsed[f].ds)
    /\ IsNetcdf(f) => IsGrid(Raw[f].content)
    /\ Raw[f].extension = "mat" => IsArrays(RawArrays(Raw[f].content))

ASSUME ParsedAssumption == Parsed = [f \in Files |-> ParseFile(Raw[f])]

\* What a file adds to the dataset's record_count: its records, or the pixels of
\* an image.
ContentCount ==
    [f \in Files |->
        IF Parsed[f] = None THEN 0
        ELSE IF Parsed[f].kind = "raster" THEN Raw[f].content.width * Raw[f].content.height
        ELSE ParsedCount(Raw[f], Parsed[f])]

ASSUME DatasetQueriesAssumption ==
    /\ Legacy \subseteq Files
    /\ Criteria \subseteq Filters
    /\ Filters \subseteq Filter
    /\ Parameters \subseteq Columns
    /\ None \notin Files \cup Actors \cup Legacy \cup Filters
    /\ \A f \in Legacy : Parsed[f] # None
    /\ \A r \in Seeded :
         /\ r.file = None /\ r.label["quality_flag"] \in QualityFlags
         /\ r.time \in OrNone(Int) /\ r.value \in Int
    /\ IsFiniteSet(Seeded) /\ IsFiniteSet(Legacy)
    /\ \A f \in Files : Parsed[f] # None => WellFormed(f)
    /\ \A f \in Files : ContentCount[f] \in Nat
    /\ PreviewLimit \in Nat
    /\ MaxIngested \in Nat
    /\ MaxOperations \in Nat
    /\ MaxEvents \in Nat

VARIABLES
    ingested,   \* the files of the Parquet and Zarr tiers
    version,    \* datasets.version
    record_count,   \* datasets.record_count
    records,    \* dataset_records
    registry,   \* dataset_variables
    reviewed,   \* whether schema_reviewed_at is set
    request,    \* what each actor has requested, with its coverage
    op,         \* what each actor is doing
    begun,      \* the operations begun
    raced,      \* files whose rows two scripts wrote at a time
    finished,   \* files whose last clearing a copy has completed
    exempt,     \* variables that lost or never had a role behind a review's back
    repeated    \* files ingested more than once, or taken away again

contentVars == <<ingested, version, record_count, records, repeated>>
schemaVars == <<registry, reviewed, exempt>>
copyVars == <<raced, finished>>
vars == <<contentVars, schemaVars, copyVars, request, op, begun>>

-----------------------------------------------------------------------------
(* Content                                                                 *)

Listed(kind) == SetToSeq({f \in ingested : Parsed[f].kind = kind})

Content ==
    LET tables == Listed("table")
        grids == Listed("grid")
    IN  [records |-> records,
         tables |-> [i \in DOMAIN tables |-> Parsed[tables[i]].table],
         grids |-> [i \in DOMAIN grids |->
                       [ds |-> Parsed[grids[i]].ds, variables |-> Parsed[grids[i]].variables]]]

\* The artifacts never change: what a query counts in a file is a constant.
FileCounts ==
    [f \in Files |-> [filter \in Filters |->
        LET p == Parsed[f]
            nothing == [matching |-> 0, total |-> 0]
        IN  IF p = None THEN nothing
            ELSE CASE p.kind = "table" -> [matching |-> TableMatching(p.table, filter), total |-> TableTotal(p.table)]
                   [] p.kind = "grid"  -> [matching |-> GridMatching(p.ds, p.variables, filter),
                                           total |-> GridTotal(p.ds, p.variables)]
                   [] OTHER            -> nothing]]

MatchingIn(files, filter) == SumFunction([f \in files |-> FileCounts[f][filter].matching])
TotalIn(files, filter) == SumFunction([f \in files |-> FileCounts[f][filter].total])

\* temporal_start and temporal_end of a file.
FileExtent(p) ==
    CASE p.kind = "table"                 -> TableExtent(p.table).time
      [] p.kind = "grid" /\ HasTime(p.ds) -> MinMax({Day(TimeAt(p.ds, k)) : k \in p.ds.index["time"]})
      [] OTHER                            -> <<None, None>>

\* Rasters are never written as rows.
Tabular == {f \in Legacy : Parsed[f].kind = "table"}

\* record_count as the files of the dataset declare it, each once.
Declared(files) == SumFunction([f \in files |-> ContentCount[f]])

\* What a script writes of a file; None is the ingestion of old.
RowsOf ==
    [f \in Tabular |-> [id \in Actors \cup {None} |-> WriteDatasetRecords(Parsed[f].table, f, id)]]

PossibleRows == Seeded \cup UNION {RowsOf[f][id] : f \in Tabular, id \in Actors \cup {None}}

Rows(f) == {r \in records : r.file = f}

Variables == [f \in Files |-> IF Parsed[f] = None THEN <<>> ELSE Registered(Parsed[f])]

-----------------------------------------------------------------------------
(* Types                                                                   *)

VariableRoles == {"dimension", "data_variable", "visualization_variable"}

Idle == [kind |-> "idle"]

Request ==
    [filter : Criteria, version : Nat, matching : OrNone(Nat), total : OrNone(Nat),
     quiet : BOOLEAN]   \* no row and no file came or went without a version since

Operation ==
    {Idle}
        \cup [kind : {"matching", "total", "files", "commit"}, request : Request]
        \cup [kind : {"check", "clear"}, left : SUBSET Legacy, todo : SUBSET Legacy]
        \cup [kind : {"copy"}, todo : SUBSET Legacy, file : Legacy, row : Nat]
        \cup [kind : {"review"}]
        \cup [kind : {"roles"}, variable : Columns, roles : SUBSET VariableRoles, reviewed : BOOLEAN]

QueryTypeOK ==
    /\ ingested \subseteq Files \ Legacy
    /\ repeated \subseteq Files \ Legacy
    /\ version \in Nat
    /\ record_count \in Nat
    /\ records \subseteq PossibleRows
    /\ \A v \in DOMAIN registry : registry[v].roles \subseteq VariableRoles
    /\ reviewed \in BOOLEAN
    /\ request \in [Actors -> OrNone(Request)]
    /\ op \in [Actors -> Operation]
    /\ begun \in 0..MaxOperations
    /\ raced \subseteq Legacy
    /\ finished \subseteq Legacy

RegistryOfOld ==
    FoldSet(LAMBDA f, found : WriteVariableRegistry(found, Variables[f]), <<>>, Legacy)

WithRoles(variable, roles) ==
    [data_type |-> variable.data_type, is_dimension |-> variable.is_dimension,
     min |-> variable.min, max |-> variable.max, roles |-> roles]

\* The older files are in the registry; their rows were written, or never, or the
\* dataset was seeded with rows.
Init ==
    /\ ingested = {}
    /\ repeated = {}
    /\ version = 1
    /\ records \in {{}, Seeded, UNION {RowsOf[f][None] : f \in Tabular}}
    /\ record_count = Cardinality(Rows(None)) + Declared(Legacy)
    /\ \E roles \in {{}, {"visualization_variable"}} :
          registry = [v \in DOMAIN RegistryOfOld |-> WithRoles(RegistryOfOld[v], roles)]
    /\ reviewed = FALSE
    /\ request = [a \in Actors |-> None]
    /\ op = [a \in Actors |-> Idle]
    /\ begun = 0
    /\ raced = {}
    /\ finished = {}
    /\ exempt = {}

SetOp(a, o) == op' = [op EXCEPT ![a] = o]

Deliveries == version - 1

Begin(a, o) ==
    /\ op[a] = Idle
    /\ begun < MaxOperations
    /\ Deliveries + begun < MaxEvents
    /\ begun' = begun + 1
    /\ SetOp(a, o)

\* A change of the content that leaves the version alone passes unnoticed by the
\* requests.
Disturb(o) ==
    IF o.kind \in {"matching", "total", "files", "commit"}
    THEN [o EXCEPT !.request.quiet = FALSE] ELSE o

DisturbRequests ==
    request' = [a \in Actors |->
                   IF request[a] = None THEN None ELSE [request[a] EXCEPT !.quiet = FALSE]]

-----------------------------------------------------------------------------
(* Ingestion                                                               *)

Unassigned == {v \in DOMAIN registry : registry[v].roles = {}}

\* A review is under way or done: what loses its role now is not seen by it.
ReviewBegun == reviewed \/ \E a \in Actors : op[a].kind = "review"

Ingestible(f) ==
    /\ Parsed[f] # None
    /\ Deliveries < MaxIngested
    /\ Deliveries + begun < MaxEvents

\* Mutant for QueryTypeOK: a file of the older tier is ingested again.
IngestAny(f) ==
    /\ f \notin ingested
    /\ Ingestible(f)
    /\ ingested' = ingested \cup {f}
    /\ version' = version + 1
    /\ record_count' = record_count + ContentCount[f]
    /\ UNCHANGED <<repeated, records, schemaVars, copyVars, request, op, begun>>

\* The commit of an ingestion: the artifact, the registry, the version and the
\* count, which a delivery of a file already there raises once more.  A file that
\* was taken away has no row, and its delivery ends at once.
Ingest(f) ==
    /\ f \notin Legacy \cup (repeated \ ingested)
    /\ Ingestible(f)
    /\ ingested' = ingested \cup {f}
    /\ repeated' = repeated \cup ({f} \cap ingested)
    /\ version' = version + 1
    /\ record_count' = record_count + ContentCount[f]
    /\ registry' = WriteVariableRegistry(registry, Variables[f])
    /\ exempt' = IF ReviewBegun THEN exempt \cup (DOMAIN registry' \ DOMAIN registry) ELSE exempt
    /\ UNCHANGED <<records, reviewed, copyVars, request, op, begun>>

\* The file's row and its records are deleted, and nothing else: the clean-up of
\* a delivery that was cancelled, ran out of time or could not upload, after
\* another had ingested the file, or a cancellation that had found it queued.
RemoveFile(f) ==
    /\ f \in ingested
    /\ ingested' = ingested \ {f}
    /\ repeated' = repeated \cup {f}
    /\ records' = records \ Rows(f)
    /\ DisturbRequests
    /\ op' = [a \in Actors |-> Disturb(op[a])]
    /\ UNCHANGED <<version, record_count, schemaVars, copyVars, begun>>

-----------------------------------------------------------------------------
(* A request and its coverage                                              *)

\* The dataset is loaded: its version is that of this moment.
RequestLoad(a) ==
    /\ request[a] = None
    /\ \E f \in Criteria :
          Begin(a, [kind |-> "matching",
                    request |-> [filter |-> f, version |-> version, matching |-> None,
                                 total |-> None, quiet |-> TRUE]])
    /\ UNCHANGED <<contentVars, schemaVars, copyVars, request>>

CountMatching(a) ==
    /\ op[a].kind = "matching"
    /\ SetOp(a, [op[a] EXCEPT !.kind = "total",
                    !.request.matching = Cardinality(RecordsMatching(records, op[a].request.filter))])
    /\ UNCHANGED <<contentVars, schemaVars, copyVars, request, begun>>

CountTotal(a) ==
    /\ op[a].kind = "total"
    /\ SetOp(a, [op[a] EXCEPT !.kind = "files", !.request.total = Cardinality(records)])
    /\ UNCHANGED <<contentVars, schemaVars, copyVars, request, begun>>

\* The files are listed in one statement, then counted one by one.
CountFiles(a) ==
    /\ op[a].kind = "files"
    /\ SetOp(a, [op[a] EXCEPT !.kind = "commit",
                    !.request.matching = @ + MatchingIn(ingested, op[a].request.filter),
                    !.request.total = @ + TotalIn(ingested, op[a].request.filter)])
    /\ UNCHANGED <<contentVars, schemaVars, copyVars, request, begun>>

\* Mutant for CoverageFresh: the version is read when the counts are stored.
RequestCommitLate(a) ==
    /\ op[a].kind = "commit"
    /\ request' = [request EXCEPT ![a] = [op[a].request EXCEPT !.version = version]]
    /\ SetOp(a, Idle)
    /\ UNCHANGED <<contentVars, schemaVars, copyVars, begun>>

RequestCommit(a) ==
    /\ op[a].kind = "commit"
    /\ request' = [request EXCEPT ![a] = op[a].request]
    /\ SetOp(a, Idle)
    /\ UNCHANGED <<contentVars, schemaVars, copyVars, begun>>

\* A request's stored counts, and whether they are stale.
ReadCoverageSnapshot(r) ==
    [matching |-> r.matching, total |-> r.total, is_stale |-> r.version # version]

\* The queue of the administrators counts nothing.
ListRequestsForAdmin ==
    [a \in {b \in Actors : request[b] # None} |-> ReadCoverageSnapshot(request[a])]

\* The counts of this moment.
GetRequestCoverage(f) ==
    [matching |-> Cardinality(RecordsMatching(records, f)) + MatchingIn(ingested, f),
     total |-> Cardinality(records) + TotalIn(ingested, f)]

-----------------------------------------------------------------------------
(* The backfill script                                                     *)

\* SetOp(a, o) by a step that writes rows.
SetOpDisturbing(a, o) ==
    op' = [b \in Actors |-> IF b = a THEN o ELSE Disturb(op[b])]

BackfillStart(a) ==
    /\ Begin(a, [kind |-> "check", left |-> Legacy, todo |-> {}])
    /\ UNCHANGED <<contentVars, schemaVars, copyVars, request>>

\* Which files to write is decided before the first is written: tables of the
\* older tier, of a dataset without a row.
BackfillCheck(a) ==
    /\ op[a].kind = "check"
    /\ \/ \E f \in op[a].left :
             LET eligible == IF f \in Tabular /\ records = {} THEN {f} ELSE {} IN
             SetOp(a, [op[a] EXCEPT !.left = @ \ {f}, !.todo = @ \cup eligible])
       \/ op[a].left = {} /\ SetOp(a, [op[a] EXCEPT !.kind = "clear"])
    /\ UNCHANGED <<contentVars, schemaVars, copyVars, request, begun>>

CopiedByOther(a, f) ==
    \E b \in Actors \ {a} : op[b].kind = "copy" /\ op[b].file = f

\* Mutant for TiersAgree: what an earlier run has left is kept.
BackfillClearNothing(a) ==
    /\ op[a].kind = "clear"
    /\ \E f \in op[a].todo :
          /\ SetOpDisturbing(a, [kind |-> "copy", todo |-> op[a].todo \ {f}, file |-> f, row |-> 1])
          /\ raced' = IF CopiedByOther(a, f) THEN raced \cup {f} ELSE raced \ {f}
          /\ finished' = finished \ {f}
    /\ DisturbRequests
    /\ UNCHANGED <<contentVars, schemaVars, begun>>

\* A file's rows are deleted, in a commit of their own.
BackfillClear(a) ==
    /\ op[a].kind = "clear"
    /\ \E f \in op[a].todo :
          /\ records' = records \ Rows(f)
          /\ SetOpDisturbing(a, [kind |-> "copy", todo |-> op[a].todo \ {f}, file |-> f, row |-> 1])
          /\ raced' = IF CopiedByOther(a, f) THEN raced \cup {f} ELSE raced \ {f}
          /\ finished' = finished \ {f}
    /\ DisturbRequests
    /\ UNCHANGED <<ingested, version, record_count, repeated, schemaVars, begun>>

\* The rows are copied in chunks, each committed; here a chunk is a row of the
\* table.
BackfillCopy(a) ==
    /\ op[a].kind = "copy"
    /\ op[a].row <= Len(Parsed[op[a].file].table.rows)
    /\ records' = records \cup {r \in RowsOf[op[a].file][a] : r.row = op[a].row}
    /\ SetOpDisturbing(a, [op[a] EXCEPT !.row = @ + 1])
    /\ DisturbRequests
    /\ UNCHANGED <<ingested, version, record_count, repeated, schemaVars, copyVars, begun>>

BackfillNext(a) ==
    /\ op[a].kind = "copy"
    /\ op[a].row > Len(Parsed[op[a].file].table.rows)
    /\ SetOp(a, [kind |-> "clear", left |-> {}, todo |-> op[a].todo])
    /\ finished' = finished \cup {op[a].file}
    /\ UNCHANGED <<contentVars, schemaVars, raced, request, begun>>

BackfillDone(a) ==
    /\ op[a].kind = "clear"
    /\ op[a].todo = {}
    /\ SetOp(a, Idle)
    /\ UNCHANGED <<contentVars, schemaVars, copyVars, request, begun>>

\* A killed script or request leaves what it has committed.
Lost(a) ==
    /\ op[a] # Idle
    /\ SetOp(a, Idle)
    /\ UNCHANGED <<contentVars, schemaVars, copyVars, request, begun>>

-----------------------------------------------------------------------------
(* The review of the variables                                             *)

\* Refused while a variable has no role.
ReviewCount(a) ==
    /\ Unassigned = {}
    /\ Begin(a, [kind |-> "review"])
    /\ exempt' = {}
    /\ UNCHANGED <<contentVars, registry, reviewed, copyVars, request>>

ReviewCommit(a) ==
    /\ op[a].kind = "review"
    /\ reviewed' = TRUE
    /\ SetOp(a, Idle)
    /\ UNCHANGED <<contentVars, registry, exempt, copyVars, request, begun>>

RolesLoad(a) ==
    /\ \E v \in Parameters \cap DOMAIN registry, roles \in {{}, {"visualization_variable"}} :
          Begin(a, [kind |-> "roles", variable |-> v, roles |-> roles, reviewed |-> reviewed])
    /\ UNCHANGED <<contentVars, schemaVars, copyVars, request>>

\* Mutant for ReviewedIsAssigned: the approval outlives the change.
WithdrawsNothing(o) == FALSE

\* The approval is set to NULL, which is written only if the loaded row had one.
WithdrawsReview(o) == o.reviewed

RolesCommit(a) ==
    /\ op[a].kind = "roles"
    /\ registry' = [registry EXCEPT ![op[a].variable].roles = op[a].roles]
    /\ reviewed' = (reviewed /\ ~WithdrawsReview(op[a]))
    /\ exempt' = IF ReviewBegun /\ ~(op[a].reviewed /\ \A b \in Actors : op[b].kind # "review")
                 THEN exempt \cup {op[a].variable} ELSE exempt
    /\ SetOp(a, Idle)
    /\ UNCHANGED <<contentVars, copyVars, request, begun>>

-----------------------------------------------------------------------------
Next ==
    \/ \E f \in Files : Ingest(f) \/ RemoveFile(f)
    \/ \E a \in Actors :
          \/ RequestLoad(a) \/ CountMatching(a) \/ CountTotal(a) \/ CountFiles(a) \/ RequestCommit(a)
          \/ BackfillStart(a) \/ BackfillCheck(a) \/ BackfillClear(a)
          \/ BackfillCopy(a) \/ BackfillNext(a) \/ BackfillDone(a)
          \/ ReviewCount(a) \/ ReviewCommit(a) \/ RolesLoad(a) \/ RolesCommit(a)
          \/ Lost(a)

Spec == Init /\ [][Next]_vars

-----------------------------------------------------------------------------
(* Properties of the operations                                            *)

\* The administrators' queue shows the counts of create_request and calls them
\* stale if the version has moved: a request that is not stale has the counts of
\* the present content, unless the content changed without a version since the
\* request was begun: the backfill wrote or cleared rows, or a file that had been
\* ingested was removed.
CoverageFresh ==
    LET shown == ListRequestsForAdmin IN
    \A a \in DOMAIN shown :
        ~shown[a].is_stale /\ request[a].quiet
            => LET present == GetRequestCoverage(request[a].filter) IN
               shown[a].matching = present.matching /\ shown[a].total = present.total

\* A reviewed schema has no variable without a role (mark_dataset_reviewed),
\* unless an ingestion added it, or an update that had loaded the dataset before
\* the approval cleared it, since the review counted.
ReviewedIsAssigned ==
    reviewed => \A v \in DOMAIN registry : registry[v].roles # {} \/ v \in exempt

\* A filter that compares only what the table has, and a table all of whose rows
\* are written: text times, each row with a date or a place, no other variable,
\* and none of a coordinate's name.
SameInBothTiers(t, f) ==
    /\ FilterColumns(f) \subseteq CoordColumns(t)
    /\ \A role \in Roles : ResolveCoordCol(t, role) = t.named[role]
    /\ t.named["time"] \notin t.numeric
    /\ VariableColumns(t) = RecordVariables(t) \cap t.numeric
    /\ VariableColumns(t) \cap Roles = {}
    /\ HasDimensions(t)
    /\ \A i \in DOMAIN t.rows : ResolveRowTime(t, t.rows[i]) # None \/ HasLatLon(t, t.rows[i])
    /\ \A i \in DOMAIN t.rows : {"lat", "lon"} \subseteq CoordColumns(t) => HasLatLon(t, t.rows[i])

\* The filters by which each file is the same in both tiers.
Comparable ==
    [f \in Tabular |-> {filter \in Filters : SameInBothTiers(Parsed[f].table, filter)}]

\* What a scan finds in the file itself.
FileQuality ==
    [f \in Tabular |-> [outliers |-> TableOutliers(Parsed[f].table),
                        duplicates |-> TableHasDuplicates(Parsed[f].table)]]

\* What the script has written of a file, one script at a time, is counted as
\* DuckDB would count the file: no row is missing, none is there twice, whatever
\* was killed before, and PostgreSQL's filter on dates selects what DuckDB's
\* filter on timestamps does.
\* A scan finds the same outliers in both, and in the rows, whose times are
\* days, every duplicate that it finds in the file.
TiersAgree ==
    \A f \in finished \ raced :
        /\ \A filter \in Comparable[f] :
             Cardinality(RecordsMatching(Rows(f), filter)) = FileCounts[f][filter].matching
        /\ Comparable[f] # {} =>
             /\ RecordOutliers(Rows(f)) = FileQuality[f].outliers
             /\ FileQuality[f].duplicates /\ (\A r \in Rows(f) : r.time # None)
                  => RecordsHaveDuplicates(Rows(f))

-----------------------------------------------------------------------------
(* What the charts say of one content                                      *)

\* Every content is there in some state in which no actor is busy or has made a
\* request.
Quiescent == \A a \in Actors : op[a] = Idle /\ request[a] = None

\* Each table's coordinates are columns of its view (no variable has the name of
\* one) and its times are all set; a chart of another one raises.
Dated(d) ==
    \A i \in DOMAIN d.tables :
        /\ Binds(d.tables[i], CoordColumns(d.tables[i]))
        /\ "time" \in CoordColumns(d.tables[i]) => \A m \in BaseMelted(d.tables[i]) : m.cell["time"] # None

\* get_statistics reports the numbers of get_timeseries, if the dataset has one
\* grid at most.  (Its comment asks for that of every dataset; with two grids it
\* averages their days together, where get_timeseries adds them up.)
StatisticsAgree(d, p, f, daily) ==
    Len(d.grids) <= 1 => SameSeries(StatisticsSeries(d, p, f), daily)

BucketsAgree(d, p, f, daily) ==
    \A resolution \in Resolutions \ {"daily"} :
        DOMAIN Timeseries(d, p, f, resolution) = {BucketOf(resolution, day) : day \in DOMAIN daily}

\* The parameters of a comparison meet on the days on which both have a value.
ComparisonAgrees(d, f) ==
    LET days == [p \in Parameters |-> DOMAIN Timeseries(d, p, f, "daily")]
        counts == PairCounts([p \in Parameters |-> SeriesByDate(d, p, f)])
    IN  \A p, q \in Parameters : counts[<<p, q>>] = Cardinality(days[p] \cap days[q])

\* The days with a value lie in the dataset's extent, which ignores the rows of a
\* dataset that has a dated file, and the times that its parser has not named.
ExtentCovers(d, extents, daily) ==
    LET extent == TemporalExtent(extents, d.records) IN
    (d.records = {} \/ (\A e \in extents : e[1] = None))
        /\ (\A i \in DOMAIN d.tables : ResolveCoordCol(d.tables[i], "time") = d.tables[i].named["time"])
            => \A day \in DOMAIN daily : extent[1] <= day /\ day <= extent[2]

\* A heavy request is answered with the points that a light one has, if its filter
\* is on station and dates: those of the files, and those of each station at which
\* no other dataset has a row by the filter.  (The worker's query does not ask for
\* the dataset, nor for the filter's depths and box.)
JobAgrees(d, p, f) ==
    LET all == d.records \cup Others
        light == SpatialPoints(d, all, p, f, MaxPoints)
        answer == CreateSpatialRequest(d, all, p, f, MaxPoints)
        shared == {r.label["station"] : r \in ApplyVizFilters(Others, p, f)}
        Own(points) == {r \in points.records : r.label["station"] \notin shared}
    IN  FilterColumns(f) \subseteq {"station", "time"} /\ answer # None =>
            /\ answer.points.files = light.files
            /\ Own(answer.points) = Own(light)

\* A grid has two axes of places, or a variable with a value per place, after the
\* time: the query reads them side by side, whatever their dimensions are.
SideBySide(ds, p) ==
    HasPlace(ds) /\ p \in DOMAIN ds.vars =>
        LET lat == ds.coords[LatName(ds)].dims
            lon == ds.coords[LonName(ds)].dims
        IN  \/ Len(lat) = 1 /\ Len(lon) = 1
            \/ lat = lon /\ "time" \notin ToSet(lat) /\ ds.vars[p].dims \in {lat, <<"time">> \o lat}

\* A point that a chart shows lies in the filter's box.
PointsAgree(d, points, p, f) ==
    HasBox(f) /\ (\A i \in DOMAIN d.grids : SideBySide(d.grids[i].ds, p)) =>
        \A found \in (ToSet(points.tables) \cup ToSet(points.grids)) \ {None} :
            \A point \in found : InBox(f, point.lat, point.lon)

PlacesAgree(d, places, points, p, f) ==
    HasBox(f) /\ None \notin ToSet(points.grids) /\ (\A i \in DOMAIN d.grids : SideBySide(d.grids[i].ds, p))
        => \A place \in DOMAIN places : InBox(f, place[1], place[2])

\* A profile is of a day of the filter, if the tables have times, and its depths are.
ProfilesAgree(d, profiles, f) ==
    profiles # None
        /\ (\A i \in DOMAIN d.tables : PlaceBinds(d.tables[i]) /\ "time" \in CoordColumns(d.tables[i]))
        => \A key \in DOMAIN profiles : \A e \in profiles[key] :
               Within(key[2], f.from, f.to) /\ Within(e.depth_m, f.depthMin, f.depthMax)

\* In a table without duplicates a dated temperature has at most one salinity.
PairsAgree(d, f) ==
    \A i \in DOMAIN d.tables, temperature, salinity \in Parameters :
        LET pairs == TsPairs(d, temperature, salinity, f).tables[i] IN
        ~TableHasDuplicates(d.tables[i])
            => \A x, y \in pairs : x.rows[1] = y.rows[1] /\ x.time # None => x = y

\* Each value is in one box.
BoxesAgree(d, boxes, p, f) ==
    LET stationed == {r \in ApplyVizFilters(d.records, p, f) : r.label["station"] # None}
    IN  MapThenSumSet(LAMBDA name : Cardinality(boxes[name]), DOMAIN boxes)
            = Cardinality(stationed) + Cardinality(RawOfTables(d, p, f)) + Cardinality(RawOfGrids(d, p, f))

PreviewAgrees(d, f) ==
    d.grids = <<>> => Len(PreviewOf(d, f, PreviewLimit)) = Min({PreviewLimit, MatchingCount(d, f)})

\* The flags of a table are a column of its view, not of another kind, and set.
Flagged(t) ==
    "quality_flag" \in t.columns
        => /\ Binds(t, {"quality_flag"})
           /\ \A i \in DOMAIN t.rows : t.rows[i]["quality_flag"] \in QualityFlags

BreakdownAgrees(d, f) ==
    (\A i \in DOMAIN d.tables : Flagged(d.tables[i]))
        => SumFunction(QualityBreakdown(d, f)) = MatchingCount(d, f)

\* A box repeats a variable without its dimensions along them: only then may
\* more match than there are.
CoverageBounded(d, p, f) ==
    (\A g \in ToSet(d.grids), v \in UNION {DOMAIN h.ds.vars : h \in ToSet(d.grids)} :
        v \in DOMAIN g.ds.vars /\ HasPlace(g.ds)
            => Dims(g.ds.coords[LatName(g.ds)]) \cup Dims(g.ds.coords[LonName(g.ds)])
                   \subseteq Dims(g.ds.vars[v]))
        => Coverage(d, p, f).matching <= Coverage(d, p, f).total

\* The selector offers what validate_parameter_for_dataset accepts, with the
\* extent that the default chart has.
SelectorAgrees(d, extents) ==
    LET shown == VisualizableDataset(registry, reviewed, extents, d.records) IN
    shown # None =>
          /\ shown.variables = {p \in DOMAIN registry : IsVisualizationVariable(registry, p)}
          /\ shown.extent = TemporalExtent(extents, d.records)

\* The range of a filter holds every value that was ingested with the variable.
RangesCover(d) ==
    LET schema == DatasetSchemaForFilters(registry, reviewed)
        values == {r \in d.records : r.file # None} \cup UNION {BaseMelted(t) : t \in ToSet(d.tables)}
    IN  schema # None =>
          \A x \in values :
              x.parameter \in DOMAIN schema /\ schema[x.parameter].min # None
                  => schema[x.parameter].min <= x.value /\ x.value <= schema[x.parameter].max

\* The values that a scan counts in a file.
FoundIn(f) ==
    IF f \in Legacy THEN Cardinality(Rows(f))
    ELSE IF Parsed[f].kind = "table" THEN TableTotal(Parsed[f].table) ELSE 0

\* A scan calls the dataset incomplete only if a file has fewer values than it
\* declared (each grid and image, of which it counts nothing, has), or one was
\* delivered again or taken away, which record_count does not forget.
IncompleteHasReason(d) ==
    "missing" \in QcScan(d, record_count, {}) =>
        repeated # {} \/ \E f \in Legacy \cup ingested : FoundIn(f) < ContentCount[f]

\* The counts of the catalogue, of the selector and of the quality scan.
CountsAgree(d, extents) ==
    /\ SelectorAgrees(d, extents)
    /\ RangesCover(d)
    /\ IncompleteHasReason(d)
    /\ \A f \in Filters :
          /\ BreakdownAgrees(d, f)
          /\ \A p \in Parameters : CoverageBounded(d, p, f)

\* The charts of one parameter, by one filter.
ParameterChartsAgree(d, extents, p, f) ==
    /\ JobAgrees(d, p, f)
    /\ PointsAgree(d, FilePoints(d, p, f, MaxPoints), p, f)
    /\ PlacesAgree(d, SeriesByPlace(d, p, f, MaxPoints), FilePoints(d, p, f, MaxPoints), p, f)
    /\ BoxesAgree(d, BoxPlot(d, p, f), p, f)
    /\ DatasetHasDepthDimension(registry) => ProfilesAgree(d, Profiles(d, p, f), f)
    /\ DatasetHasTemporalDimension(registry) =>
         LET daily == Timeseries(d, p, f, "daily") IN
         /\ StatisticsAgree(d, p, f, daily)
         /\ BucketsAgree(d, p, f, daily)
         /\ ExtentCovers(d, extents, daily)

ContentAgrees(d, extents) ==
    Dated(d) =>
        /\ CountsAgree(d, extents)
        /\ \A f \in {x \in Filters : DateRangeAllowed(x, MaxDays)} :
              /\ PairsAgree(d, f)
              /\ PreviewAgrees(d, f)
              /\ (\A p \in Parameters : IsVisualizationVariable(registry, p))
                   /\ DatasetHasTemporalDimension(registry) => ComparisonAgrees(d, f)
              /\ \A p \in Parameters :
                   IsVisualizationVariable(registry, p) => ParameterChartsAgree(d, extents, p, f)

Extents == {FileExtent(Parsed[f]) : f \in ingested}

\* The charts and counts of a dataset agree: those of one parameter with each
\* other, each with its filter, and each with the counts of the catalogue.
ChartsAgree ==
    Quiescent => ContentAgrees(Content, Extents)

-----------------------------------------------------------------------------
(* What a download contains                                                *)

FileOf(f) ==
    LET p == Parsed[f] IN
    [artifact |-> p.kind, raw |-> IF IsNetcdf(f) THEN "netcdf" ELSE Raw[f].extension,
     table |-> IF p.kind = "table" THEN p.table ELSE None,
     ds |-> IF IsNetcdf(f) THEN Raw[f].content ELSE IF p.kind = "grid" THEN p.ds ELSE None,
     arrays |-> IF Raw[f].extension # "mat" THEN None ELSE RawArrays(Raw[f].content)]

DeliveredWithin(f, scope) ==
    LET p == Parsed[f] IN
    /\ p.kind = "table" => \A i \in ApplyScopeMask(p.table, scope) : RowWithin(p.table, i, scope)
    /\ p.kind = "grid" =>
         LET rows == MaterializeZarrToParquet(p.ds, scope).rows IN
         \A i \in DOMAIN rows : GridRowWithin(p.ds, rows[i], scope)

\* Without a scope no format delivers fewer rows.
CountWithin(files, format, scope) ==
    LET part == RunExtraction(files, format, scope) IN
    part # None /\ (\A i \in DOMAIN files : files[i].artifact = "grid" => HasRows(files[i].ds))
        => part.count <= RunExtraction(files, format, NoFilter).count

NarrowerIsLess(f, requested, granted) ==
    Parsed[f].kind = "table" /\ ScopeWithinGrant(requested, granted) /\ SetsAllOf(requested, granted)
        => ApplyScopeMask(Parsed[f].table, requested) \subseteq ApplyScopeMask(Parsed[f].table, granted)

\* A download holds nothing outside of its scope, whatever the format of the
\* file, and of two scopes the one inside the other selects less.
WithinScope ==
    Quiescent =>
        LET files == SetToSeq(ingested) IN
        \A scope \in Filters :
            /\ \A f \in ingested : DeliveredWithin(f, scope)
            /\ \A f \in ingested, granted \in Filters : NarrowerIsLess(f, scope, granted)
            /\ \A format \in {"csv", "netcdf", "mat"} :
                 CountWithin([i \in DOMAIN files |-> FileOf(files[i])], format, scope)
=============================================================================
