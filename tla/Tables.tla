------------------------------- MODULE Tables -------------------------------
(***************************************************************************)
(* The queries of a wide Parquet table through DuckDB                      *)
(* (services/tabular_query_service.py), which melts the table into one     *)
(* observation per row and variable.                                       *)
(*                                                                         *)
(* A table is a DatasetFile with its artifact: its columns, those of a     *)
(* numeric type, its rows (a cell per column), and of file_metadata the    *)
(* variables and the names of the coordinates, written by this parser      *)
(* (named: lat_col ...) or by an older one (older: lat_coord ...); mat is  *)
(* file_format = "mat".  Every table has a variable.                       *)
(***************************************************************************)
EXTENDS Observations, Sequences, SequencesExt

CONSTANT EpochDatenum   \* MATLAB's datenum of day 0

ASSUME TablesAssumption == EpochDatenum \in Int

\* The parser's name, an older parser's, or the canonical name itself if the
\* table has such a column.
ResolveCoordCol(t, role) ==
    IF t.named[role] # None THEN t.named[role]
    ELSE IF t.older[role] # None THEN t.older[role]
    ELSE IF role \in t.columns THEN role ELSE None

\* A sequence of rows; the times and the numeric columns have numbers.
IsTable(t) ==
    /\ IsFiniteSet(t.columns) /\ t.columns \subseteq Columns
    /\ t.numeric \subseteq t.columns
    /\ \A role \in Roles : t.named[role] \in OrNone(t.columns)
    /\ Len(t.rows) \in Nat /\ DOMAIN t.rows = 1..Len(t.rows)
    /\ \A i \in DOMAIN t.rows : \A c \in t.numeric \cup ({ResolveCoordCol(t, "time")} \ {None}) :
         t.rows[i][c] \in OrNone(Int)

CoordColumns(t) == {role \in Roles : ResolveCoordCol(t, role) # None}
CoordNames(t) == {ResolveCoordCol(t, role) : role \in CoordColumns(t)}

VariableColumns(t) == (t.variables \cap t.numeric) \ CoordNames(t)

\* A numeric time column of a MATLAB file counts days from year 0.
RawTimeIsDatenum(t) ==
    /\ t.mat
    /\ "time" \in CoordColumns(t)
    /\ ResolveCoordCol(t, "time") \in t.numeric

\* The columns that _melted_columns names, and those the view has: UNPIVOT
\* takes the variables out.
MeltedColumns(t) == (t.columns \ CoordNames(t)) \cup CoordColumns(t)
ViewColumns(t) == MeltedColumns(t) \ VariableColumns(t)

CoordinateAlias(t, row, c) ==
    IF c \notin CoordColumns(t) THEN row[c]
    ELSE LET raw == row[ResolveCoordCol(t, c)] IN
         IF c = "time" /\ RawTimeIsDatenum(t) /\ raw # None
         THEN (raw - EpochDatenum) * TicksPerDay
         ELSE raw

\* One observation per row and variable; UNPIVOT drops NULL values.
BaseMelted(t) ==
    LET Observation(i, v) ==
            [row |-> i, parameter |-> v, value |-> t.rows[i][v],
             cell |-> [c \in ViewColumns(t) |-> CoordinateAlias(t, t.rows[i], c)]]
    IN  UNION {{Observation(i, v) : v \in {w \in VariableColumns(t) : t.rows[i][w] # None}} :
                  i \in DOMAIN t.rows}

-----------------------------------------------------------------------------
(* The filter                                                              *)

FilterColumns(f) ==
    {c \in Labels : f.label[c] # None}
        \cup (IF f.from # None \/ f.to # None THEN {"time"} ELSE {})
        \cup (IF f.depthMin # None \/ f.depthMax # None THEN {"depth_m"} ELSE {})
        \cup (IF HasBox(f) THEN {"lat", "lon"} ELSE {})

\* A filter whose column is not among MeltedColumns restricts nothing.  The
\* last day of a range counts to its end.
BuildWhere(t, m, f) ==
    LET columns == MeltedColumns(t)
    IN  /\ Selects(f, m.parameter)
        /\ \A c \in Labels \cap columns : f.label[c] \in {None, m.cell[c]}
        /\ "time" \in columns =>
             /\ f.from # None => m.cell["time"] # None /\ m.cell["time"] >= f.from * TicksPerDay
             /\ f.to # None => m.cell["time"] # None /\ m.cell["time"] < (f.to + 1) * TicksPerDay
        /\ "depth_m" \in columns => Within(m.cell["depth_m"], f.depthMin, f.depthMax)
        /\ {"lat", "lon"} \subseteq columns /\ HasBox(f) => InBox(f, m.cell["lat"], m.cell["lon"])

\* DuckDB refuses a query that names a column its view does not have.  (So a
\* column named like a label must not be numeric, or UNPIVOT takes it out: the
\* label columns of a table are text here.)
Binds(t, selected) == selected \subseteq ViewColumns(t)

Matching(t, f) == {m \in BaseMelted(t) : BuildWhere(t, m, f)}
Of(t, parameter, f) == {m \in Matching(t, f) : m.parameter = parameter}

Station(t, m) == IF "station" \in t.columns THEN m.cell["station"] ELSE None
Coord(t, m, role) == IF role \in CoordColumns(t) THEN m.cell[role] ELSE None
Date(t, m) == Day(Coord(t, m, "time"))

-----------------------------------------------------------------------------
(* Counts, preview, quality                                                *)

TableTotal(t) == Cardinality(BaseMelted(t))
TableMatching(t, f) == Cardinality(Matching(t, f))

\* Without a quality_flag column every observation is normal.
TableQuality(t, f) ==
    [flag \in QualityFlags |->
        IF "quality_flag" \in t.columns
        THEN Cardinality({m \in Matching(t, f) : m.cell["quality_flag"] = flag})
        ELSE IF flag = "normal" THEN TableMatching(t, f) ELSE 0]

\* The latest first, NULL last; a depth appears under its canonical name only.
PreviewRow(t, m) ==
    [parameter |-> m.parameter, value |-> m.value, time |-> Date(t, m),
     depth_m |-> IF "depth_m" \in t.columns THEN m.cell["depth_m"] ELSE None,
     quality_flag |-> IF "quality_flag" \notin t.columns \/ m.cell["quality_flag"] = None
                      THEN "normal" ELSE m.cell["quality_flag"]]

PreviewRows(t, melted) == [i \in DOMAIN melted |-> PreviewRow(t, melted[i])]

TablePreview(t, f, limit) ==
    LET Time(m) == Coord(t, m, "time") IN
    FirstRows(PreviewRows(t, Sorted(Matching(t, f),
                                 LAMBDA x, y : Time(x) # None /\ (Time(y) = None \/ Time(x) > Time(y)))),
              limit)

-----------------------------------------------------------------------------
(* The data of the charts                                                  *)

\* An empty series without a time or without the parameter; observations
\* without a time have a bucket of their own, None.
TableTimeseries(t, parameter, f, resolution) ==
    IF "time" \notin CoordColumns(t) THEN [b \in {} |-> 0]
    ELSE MeansBy(Of(t, parameter, f),
                 LAMBDA m : IF Date(t, m) = None THEN None ELSE BucketOf(resolution, Date(t, m)),
                 LAMBDA m : m.value)

\* The latest observation of each place (the largest value, without a time);
\* the order of equals is DuckDB's.
LatestPerPlace(t, S) ==
    LET Key(m) == IF "time" \in CoordColumns(t) THEN m.cell["time"] ELSE m.value
    IN  {m \in S : \A o \in S :
            o.cell["lat"] = m.cell["lat"] /\ o.cell["lon"] = m.cell["lon"]
               => AtLeast(Key(m), Key(o))}

TablePoints(t, parameter, f) ==
    IF ~({"lat", "lon"} \subseteq CoordColumns(t)) THEN {}
    ELSE {[lat |-> m.cell["lat"], lon |-> m.cell["lon"], value |-> m.value] :
            m \in {o \in LatestPerPlace(t, Of(t, parameter, f)) :
                      ValidCoordinate(o.cell["lat"], o.cell["lon"])}}

TableRawValues(t, parameter, f) ==
    {[row |-> m.row, station |-> Station(t, m), time |-> Date(t, m), value |-> m.value] :
        m \in Of(t, parameter, f)}

TableRawValuesWithLocation(t, parameter, f) ==
    IF ~({"lat", "lon"} \subseteq CoordColumns(t)) THEN {}
    ELSE {[row |-> m.row, lat |-> m.cell["lat"], lon |-> m.cell["lon"], value |-> m.value] :
            m \in {o \in Of(t, parameter, f) : o.cell["lat"] # None /\ o.cell["lon"] # None}}

\* A profile per station and day: the last value read at each depth, the first
\* position read.
ProfileKey(t, m) == <<Station(t, m), Date(t, m)>>

Profile(t, S) ==
    LET Latest(T) == CHOOSE m \in T : \A o \in T : o.row <= m.row
        FirstSet(role) ==
            LET known == {m \in S : m.cell[role] # None} IN
            IF known = {} THEN None
            ELSE (CHOOSE m \in known : \A o \in known : m.row <= o.row).cell[role]
    IN  [key |-> ProfileKey(t, CHOOSE m \in S : TRUE),
         lat |-> FirstSet("lat"), lon |-> FirstSet("lon"),
         points |-> [d \in {m.cell["depth_m"] : m \in S} |->
                        Latest({m \in S : m.cell["depth_m"] = d}).value]]

TableProfiles(t, parameter, f) ==
    LET deep == {m \in Of(t, parameter, f) : m.cell["depth_m"] # None}
    IN  IF "depth_m" \notin CoordColumns(t) THEN {}
        ELSE {Profile(t, {m \in deep : ProfileKey(t, m) = k}) : k \in {ProfileKey(t, m) : m \in deep}}

\* Profiles and pairs select lat and lon whether the table has them or not.
PlaceBinds(t) == Binds(t, {"lat", "lon"})

\* A self-join over the station, the time and the depth, as far as the table
\* has them, else over the place; NULL joins NULL.
PairKey(t, m) ==
    LET having == (CoordColumns(t) \cap {"time", "depth_m"}) \cup ({"station"} \cap t.columns)
        by == IF having = {} THEN {"lat", "lon"} ELSE having
    IN  [c \in by |-> m.cell[c]]

TableTsPairs(t, temperature, salinity, f) ==
    IF ~({temperature, salinity} \subseteq VariableColumns(t)) THEN {}
    ELSE LET Pair(a, b) ==
                 [rows |-> <<a.row, b.row>>, depth_m |-> Coord(t, a, "depth_m"), time |-> Date(t, a),
                  temperature |-> a.value, salinity |-> b.value]
         IN  UNION {{Pair(a, b) : b \in {c \in Of(t, salinity, f) : PairKey(t, a) = PairKey(t, c)}} :
                       a \in Of(t, temperature, f)}

-----------------------------------------------------------------------------
(* Quality control                                                         *)

\* Two observations of one parameter at one time and station, one of them set.
TableHasDuplicates(t) ==
    LET by == (CoordColumns(t) \cap {"time"}) \cup ({"station"} \cap t.columns)
        Slot(m) == [c \in by |-> m.cell[c]]
    IN  /\ by # {}
        /\ \E a, b \in BaseMelted(t) :
             /\ a.row # b.row
             /\ a.parameter = b.parameter /\ Slot(a) = Slot(b)
             /\ \E c \in by : a.cell[c] # None
=============================================================================
