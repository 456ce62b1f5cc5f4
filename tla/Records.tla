------------------------------- MODULE Records -------------------------------
(***************************************************************************)
(* DatasetRecord rows in PostgreSQL: how a table is written as rows        *)
(* (worker/tasks/ingestion.py, called by the backfill script) and how they *)
(* are counted and read (services/catalog_service.py); and the registry of *)
(* a dataset's variables.                                                  *)
(*                                                                         *)
(* A record has the file, the row and the parameter it was read from (id   *)
(* tells apart two writings of one of them), a value, a day, a place, a    *)
(* depth and its labels.                                                   *)
(***************************************************************************)
EXTENDS Tables

CONSTANT Bounds   \* the auxiliary columns *_bnds and *_bounds

ASSUME RecordsAssumption == Bounds \subseteq Columns

-----------------------------------------------------------------------------
(* Writing.  t.named are the columns that the parser has detected.         *)

HasDimensions(t) ==
    t.named["time"] # None \/ (t.named["lat"] # None /\ t.named["lon"] # None)

\* A text column of timestamps gives their date; a number is no date.
ResolveRowTime(t, row) ==
    IF t.named["time"] = None \/ t.named["time"] \in t.numeric THEN None
    ELSE Day(row[t.named["time"]])

HasLatLon(t, row) ==
    \A role \in {"lat", "lon"} : t.named[role] # None /\ row[t.named[role]] # None

RecordVariables(t) ==
    ((t.columns \cap t.variables) \ Bounds) \ {t.named[role] : role \in Roles}

\* One record per row and variable with a finite value.  A row with neither a
\* date nor a place is skipped; a latitude without a longitude is not written.
\* Every record is of normal quality and of the file's format.
RecordOf(t, file, i, v, id) ==
    LET row == t.rows[i]
        At(role) == IF HasLatLon(t, row) THEN row[t.named[role]] ELSE None
    IN  [file |-> file, row |-> i, parameter |-> v, id |-> id, value |-> row[v],
         time |-> ResolveRowTime(t, row), lat |-> At("lat"), lon |-> At("lon"),
         depth_m |-> IF t.named["depth_m"] = None THEN None ELSE row[t.named["depth_m"]],
         label |-> [c \in Labels |-> CASE c = "quality_flag" -> "normal"
                                       [] c = "format" -> t.format
                                       [] OTHER -> None]]

WriteDatasetRecords(t, file, id) ==
    IF ~HasDimensions(t) THEN {}
    ELSE {RecordOf(t, file, p[1], p[2], id) :
            p \in {q \in (DOMAIN t.rows) \X (RecordVariables(t) \cap t.numeric) :
                     /\ t.rows[q[1]][q[2]] # None
                     /\ ResolveRowTime(t, t.rows[q[1]]) # None \/ HasLatLon(t, t.rows[q[1]])}}

-----------------------------------------------------------------------------
(* The registry of variables: name -> variable.  A new one has no role.    *)

WidenMin(a, b) == IF a = None THEN b ELSE IF b = None THEN a ELSE Min({a, b})
WidenMax(a, b) == IF a = None THEN b ELSE IF b = None THEN a ELSE Max({a, b})

\* What a variable becomes: a known one keeps its type and widens its range.
UpsertDatasetVariable(registry, name, new) ==
    IF name \notin DOMAIN registry THEN new
    ELSE [registry[name] EXCEPT !.min = WidenMin(@, new.min), !.max = WidenMax(@, new.max)]

Variable(type, dimension, min, max) ==
    [data_type |-> type, is_dimension |-> dimension, roles |-> {}, min |-> min, max |-> max]

DetectedCoordinates(named) ==
    [v \in {named[role] : role \in Roles} \ {None} |->
        Variable(IF v = named["time"] THEN "temporal" ELSE "numeric", TRUE, None, None)]

\* A column's least and greatest value, from the statistics of its row groups.
NumericRangeFromRowGroups(t, v) ==
    LET filled == {t.rows[i][v] : i \in DOMAIN t.rows} \ {None}
    IN  IF filled = {} THEN <<None, None>> ELSE <<Min(filled), Max(filled)>>

\* The data variables of a table, each numeric one with its range.
DetectedVariables(t) ==
    [v \in RecordVariables(t) |->
        IF v \notin t.numeric THEN Variable("categorical", FALSE, None, None)
        ELSE LET range == NumericRangeFromRowGroups(t, v)
             IN  Variable("numeric", FALSE, range[1], range[2])]

\* found: the variables of one file.
WriteVariableRegistry(registry, found) ==
    [v \in DOMAIN registry \cup DOMAIN found |->
        IF v \notin DOMAIN found THEN registry[v]
        ELSE UpsertDatasetVariable(registry, v, found[v])]

-----------------------------------------------------------------------------
(* Reading                                                                 *)

\* A comparison with NULL does not hold: a filter on a column that a record
\* does not have drops the record.
RecordMatches(r, f) ==
    /\ Selects(f, r.parameter)
    /\ \A c \in Labels : f.label[c] \in {None, r.label[c]}
    /\ Within(r.time, f.from, f.to)
    /\ Within(r.depth_m, f.depthMin, f.depthMax)
    /\ HasBox(f) => InBox(f, r.lat, r.lon)

RecordsMatching(records, f) == {r \in records : RecordMatches(r, f)}

RecordQuality(records, f) ==
    [flag \in QualityFlags |->
        Cardinality({r \in RecordsMatching(records, f) : r.label["quality_flag"] = flag})]

\* The latest first, NULL last.
RecordPreview(records, f, limit) ==
    FirstRows(Sorted(RecordsMatching(records, f),
                     LAMBDA x, y : x.time # None /\ (y.time = None \/ x.time > y.time)),
              limit)

\* With a station the query joins the stations twice, and PostgreSQL refuses
\* it: None.
RecordProfileRows(records, parameter, f) ==
    IF f.label["station"] # None THEN None
    ELSE {r \in RecordsMatching(records, f) : r.parameter = parameter /\ r.depth_m # None}

\* Of the filter only the dates and the station are applied, to the record of
\* the temperature; NULL joins NULL.
RecordTsPairs(records, temperature, salinity, f) ==
    {p \in records \X records :
        /\ p[1].parameter = temperature
        /\ p[2].parameter = salinity
        /\ p[1].label["station"] = p[2].label["station"]
        /\ p[1].time = p[2].time
        /\ p[1].depth_m = p[2].depth_m
        /\ Within(p[1].time, f.from, f.to)
        /\ f.label["station"] \in {None, p[1].label["station"]}}

Extent(days) == IF days = {} THEN <<None, None>> ELSE <<Min(days), Max(days)>>

\* The extent of the files, else that of the records.  extents: the pairs
\* temporal_start, temporal_end of the files.
TemporalExtent(extents, records) ==
    LET dated == {e \in extents : e[1] # None}
        ends == {e[2] : e \in dated} \ {None}
    IN  IF dated # {} THEN <<Min({e[1] : e \in dated}), IF ends = {} THEN None ELSE Max(ends)>>
        ELSE Extent({r.time : r \in records} \ {None})
=============================================================================
