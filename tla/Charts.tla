------------------------------- MODULE Charts -------------------------------
(***************************************************************************)
(* What a dataset's readers make of its three tiers: the counts and the    *)
(* preview of the catalogue (services/catalog_service.py) and the charts   *)
(* of the explorer (services/visualize_service.py, tasks/visualize.py).    *)
(*                                                                         *)
(* A dataset has records, a list of tables and a list of grids (a grid is  *)
(* its array data, ds, and the variables of its metadata).  Every reader   *)
(* adds the three up.                                                      *)
(***************************************************************************)
EXTENDS Records, Grids

CONSTANTS
    GridResolution,     \* the cells of a side of a map's grid
    SpatialSyncCells    \* VIZ_SPATIAL_SYNC_THRESHOLD_CELLS: what is computed at once

ASSUME ChartsAssumption == GridResolution \in Nat /\ SpatialSyncCells \in Nat

Sum(list, count(_)) ==
    SumFunction([i \in DOMAIN list |-> count(list[i])])

-----------------------------------------------------------------------------
(* The catalogue                                                           *)

MatchingCount(d, f) ==
    Cardinality(RecordsMatching(d.records, f))
        + Sum(d.tables, LAMBDA t : TableMatching(t, f))
        + Sum(d.grids, LAMBDA g : GridMatching(g.ds, g.variables, f))

TotalCount(d) ==
    Cardinality(d.records)
        + Sum(d.tables, TableTotal)
        + Sum(d.grids, LAMBDA g : GridTotal(g.ds, g.variables))

\* A grid's cells are of normal quality.
QualityBreakdown(d, f) ==
    [flag \in QualityFlags |->
        RecordQuality(d.records, f)[flag]
            + Sum(d.tables, LAMBDA t : TableQuality(t, f)[flag])
            + (IF flag = "normal"
               THEN Sum(d.grids, LAMBDA g : GridMatching(g.ds, g.variables, f)) ELSE 0)]

\* Records, then tables, then grids, cut to the limit.
PreviewOf(d, f, limit) ==
    FirstRows(RecordPreview(d.records, f, limit)
                  \o FlattenSeq([i \in DOMAIN d.tables |-> TablePreview(d.tables[i], f, limit)])
                  \o FlattenSeq([i \in DOMAIN d.grids |->
                         GridPreview(d.grids[i].ds, d.grids[i].variables, f, limit)]),
              limit)

-----------------------------------------------------------------------------
(* The explorer's filter: dates, depth, box and station                    *)

VizFilterToRecordsFilter(f) ==
    [f EXCEPT !.parameters = {},
              !.label = [c \in Labels |-> IF c = "station" THEN @[c] ELSE None]]

ApplyVizFilters(records, parameter, f) ==
    {r \in RecordsMatching(records, VizFilterToRecordsFilter(f)) : r.parameter = parameter}

\* The coverage of one parameter, or of all.
Coverage(d, parameter, f) ==
    LET chosen == [VizFilterToRecordsFilter(f) EXCEPT
                      !.parameters = IF parameter = None THEN {} ELSE {parameter}]
    IN  [matching |-> MatchingCount(d, chosen), total |-> TotalCount(d),
         unit |-> IF d.grids = <<>> THEN "records" ELSE "cells"]

-----------------------------------------------------------------------------
(* The time series.  A contribution to a bucket is the sum of its values   *)
(* (a quotient) and its weight, the number of values they count for.       *)

Weighted(a, b) == [total |-> Plus(a.total, b.total), weight |-> a.weight + b.weight]

MergeWeighted(s, r) ==
    [b \in DOMAIN s \cup DOMAIN r |->
        IF b \notin DOMAIN r THEN s[b] ELSE IF b \notin DOMAIN s THEN r[b] ELSE Weighted(s[b], r[b])]

\* A mean of n values weighs n; the mean over a grid weighs one.
ByCount(series) ==
    [b \in DOMAIN series |->
        [total |-> [sum |-> series[b].sum, n |-> 1], weight |-> series[b].n]]
AsOne(series) == [b \in DOMAIN series |-> [total |-> series[b], weight |-> 1]]

\* Records without a time are left out.
RecordSeries(d, parameter, f, resolution) ==
    MeansBy({r \in ApplyVizFilters(d.records, parameter, f) : r.time # None},
            LAMBDA r : BucketOf(resolution, r.time), LAMBDA r : r.value)

MergedTimeseries(d, parameter, f, resolution, includeGridded) ==
    LET viz == VizFilterToRecordsFilter(f)
        tables == [i \in DOMAIN d.tables |->
                      ByCount(TableTimeseries(d.tables[i], parameter, viz, resolution))]
        grids == [i \in DOMAIN d.grids |->
                      AsOne(GridTimeseries(d.grids[i].ds, parameter, viz, resolution))]
    IN  FoldLeft(MergeWeighted, <<>>, tables \o (IF includeGridded THEN grids ELSE <<>>))

Timeseries(d, parameter, f, resolution) ==
    MergeWeighted(ByCount(RecordSeries(d, parameter, f, resolution)),
                  MergedTimeseries(d, parameter, f, resolution, TRUE))

\* Two series show the same numbers.
SameSeries(s, r) ==
    /\ DOMAIN s = DOMAIN r
    /\ \A b \in DOMAIN s :
         SameMean([s[b].total EXCEPT !.n = @ * s[b].weight], [r[b].total EXCEPT !.n = @ * r[b].weight])

-----------------------------------------------------------------------------
(* Statistics                                                              *)

RawOfGrids(d, parameter, f) ==
    UNION {{[grid |-> i, time |-> v.time, step |-> v.step, value |-> v.value] :
               v \in GridRawValues(d.grids[i].ds, parameter, VizFilterToRecordsFilter(f))} :
             i \in DOMAIN d.grids}

RawOfTables(d, parameter, f) ==
    UNION {{[table |-> i, row |-> v.row, station |-> v.station, time |-> v.time, value |-> v.value] :
               v \in TableRawValues(d.tables[i], parameter, VizFilterToRecordsFilter(f))} :
             i \in DOMAIN d.tables}

\* The values of each station, or of a file of no station; the chart shows the
\* first six of them.
BoxPlot(d, parameter, f) ==
    LET records == {r \in ApplyVizFilters(d.records, parameter, f) : r.label["station"] # None}
        tables == RawOfTables(d, parameter, f)
        grids == RawOfGrids(d, parameter, f)
        Name(v) == IF v.station = None THEN <<"table", v.table>> ELSE <<"station", v.station>>
        names == {<<"station", r.label["station"]>> : r \in records}
                     \cup {Name(v) : v \in tables} \cup {<<"grid", v.grid>> : v \in grids}
    IN  [name \in names |->
            {<<"record", r>> : r \in {q \in records : <<"station", q.label["station"]>> = name}}
                \cup {<<"table", v>> : v \in {w \in tables : Name(w) = name}}
                \cup {<<"grid", v>> : v \in {w \in grids : <<"grid", w.grid>> = name}}]

\* Mutant for ChartsAgree: the grids are merged with the tables and once more.
StatisticsSeriesTwice(d, parameter, f) ==
    LET daily == SeriesOf(RawOfGrids(d, parameter, f), LAMBDA v : v.time, LAMBDA v : v.value)
    IN  MergeWeighted(Timeseries(d, parameter, f, "daily"), AsOne(daily))

\* The days of all grids are averaged together and weigh one.
StatisticsSeries(d, parameter, f) ==
    LET daily == SeriesOf(RawOfGrids(d, parameter, f), LAMBDA v : v.time, LAMBDA v : v.value)
    IN  MergeWeighted(MergeWeighted(ByCount(RecordSeries(d, parameter, f, "daily")),
                                    MergedTimeseries(d, parameter, f, "daily", FALSE)),
                      AsOne(daily))

-----------------------------------------------------------------------------
(* Comparison: the parameters' means by date, or by place if the dataset   *)
(* has no time.  The records of a date count as one value, their mean.     *)

SeriesByDate(d, parameter, f) ==
    LET days == RecordSeries(d, parameter, f, "daily")
        records == {[from |-> <<"records", day>>, time |-> day, value |-> days[day]] : day \in DOMAIN days}
        tables == {[from |-> <<"table", v>>, time |-> v.time, value |-> [sum |-> v.value, n |-> 1]] :
                      v \in {w \in RawOfTables(d, parameter, f) : w.time # None}}
        grids == {[from |-> <<"grid", v>>, time |-> v.time, value |-> v.value] :
                     v \in RawOfGrids(d, parameter, f)}
    IN  SeriesOf(records \cup tables \cup grids, LAMBDA v : v.time, LAMBDA v : v.value)

SeriesByPlace(d, parameter, f, maxPoints) ==
    LET viz == VizFilterToRecordsFilter(f)
        records == {r \in ApplyVizFilters(d.records, parameter, f) : r.lat # None /\ r.lon # None}
        Tagged(kind, i, S) == {[from |-> <<kind, i, v>>, at |-> <<v.lat, v.lon>>, value |-> v.value] : v \in S}
        tables == UNION {Tagged("table", i, TableRawValuesWithLocation(d.tables[i], parameter, viz)) :
                            i \in DOMAIN d.tables}
        grids == UNION {Tagged("grid", i, GridPoints(d.grids[i].ds, parameter, viz, maxPoints)) :
                            i \in DOMAIN d.grids}
    IN  MeansBy(Tagged("record", 0, records) \cup tables \cup grids,
                LAMBDA v : v.at, LAMBDA v : v.value)

\* The pairs of a scatter plot: where both parameters have a value.
Scatter(x, y) == [k \in DOMAIN x \cap DOMAIN y |-> <<x[k], y[k]>>]

\* How many pairs stand behind each correlation.
PairCounts(series) ==
    [pair \in (DOMAIN series) \X (DOMAIN series) |->
        Cardinality(DOMAIN Scatter(series[pair[1]], series[pair[2]]))]

-----------------------------------------------------------------------------
(* Points, profiles and pairs                                              *)

\* The latest record of each station among those chosen; then every record of
\* the station and the parameter at that time, of any dataset.
LatestAtStations(chosen, all, parameter) ==
    LET stationed == {r \in chosen : r.label["station"] # None}
        Times(s) == {r.time : r \in {q \in stationed : q.label["station"] = s}} \ {None}
    IN  {r \in all :
            /\ r.parameter = parameter
            /\ \E q \in stationed : q.label["station"] = r.label["station"]
            /\ Times(r.label["station"]) # {} /\ r.time = Max(Times(r.label["station"]))}

FilePoints(d, parameter, f, maxPoints) ==
    LET viz == VizFilterToRecordsFilter(f) IN
    [tables |-> [i \in DOMAIN d.tables |-> TablePoints(d.tables[i], parameter, viz)],
     grids |-> [i \in DOMAIN d.grids |-> GridPoints(d.grids[i].ds, parameter, viz, maxPoints)]]

\* all: the records of every dataset.
SpatialPoints(d, all, parameter, f, maxPoints) ==
    [records |-> LatestAtStations(ApplyVizFilters(d.records, parameter, f), all, parameter),
     files |-> FilePoints(d, parameter, f, maxPoints)]

\* The worker's own query, for a heavy request: of the filter its records keep
\* the station and the dates, in every dataset.
RunSpatialJob(d, all, parameter, f, maxPoints) ==
    LET kept == [NoFilter EXCEPT !.label["station"] = f.label["station"],
                                 !.from = f.from, !.to = f.to]
    IN  [records |-> LatestAtStations(ApplyVizFilters(all, parameter, kept), all, parameter),
         files |-> FilePoints(d, parameter, f, maxPoints)]

\* A request of few cells and points is answered at once, a larger one by the
\* worker.  A point that cannot be read fails it.
AnswerSpatialRequest(points, job) ==
    LET files == points.files.tables \o points.files.grids
        cells == GridResolution * GridResolution
                     * Max({1, Cardinality(points.records) + Sum(files, Cardinality)})
    IN  IF None \in ToSet(files) THEN None
        ELSE IF cells <= SpatialSyncCells THEN [status |-> "complete", points |-> points]
        ELSE [status |-> "queued", points |-> job]

CreateSpatialRequest(d, all, parameter, f, maxPoints) ==
    AnswerSpatialRequest(SpatialPoints(d, all, parameter, f, maxPoints),
                         RunSpatialJob(d, all, parameter, f, maxPoints))

ByKey(points) == [key \in {p.key : p \in points} |-> {p \in points : p.key = key}]

\* The depths of each station and day; grids have no profiles.  None if the
\* records' query fails.
Profiles(d, parameter, f) ==
    LET viz == VizFilterToRecordsFilter(f)
        rows == RecordProfileRows(d.records, parameter, viz)
        records == {[key |-> <<r.label["station"], r.time>>, depth_m |-> r.depth_m,
                     from |-> <<"record", r>>] : r \in rows}
        Points(i, p) == {[key |-> p.key, depth_m |-> depth, from |-> <<"table", i, p.points[depth]>>] :
                            depth \in DOMAIN p.points}
        tables == UNION {UNION {Points(i, p) : p \in TableProfiles(d.tables[i], parameter, viz)} :
                            i \in DOMAIN d.tables}
    IN  IF rows = None THEN None ELSE ByKey(records \cup tables)

TsPairs(d, temperature, salinity, f) ==
    LET viz == VizFilterToRecordsFilter(f) IN
    [records |-> RecordTsPairs(d.records, temperature, salinity, viz),
     tables |-> [i \in DOMAIN d.tables |-> TableTsPairs(d.tables[i], temperature, salinity, viz)]]

-----------------------------------------------------------------------------
(* Which parameters have charts                                            *)

\* registry: name -> [data_type, is_dimension, roles, ...].
IsVisualizationVariable(registry, name) ==
    /\ name \in DOMAIN registry
    /\ "visualization_variable" \in registry[name].roles
    /\ ~registry[name].is_dimension

DatasetHasTemporalDimension(registry) ==
    \E name \in DOMAIN registry : registry[name].data_type = "temporal"

DepthNames == {"depth", "depth_m", "depth_meters", "pressure_depth", "z", "level", "pressure"}

DatasetHasDepthDimension(registry) ==
    \E name \in DOMAIN registry \cap DepthNames : registry[name].is_dimension

\* A date range counts as long if both of its ends are set.
DateRangeAllowed(f, maxDays) ==
    maxDays = None \/ f.from = None \/ f.to = None \/ f.to - f.from <= maxDays
=============================================================================
