------------------------------- MODULE Scopes -------------------------------
(***************************************************************************)
(* What a download contains: the scope of an extraction applied to each    *)
(* file of the dataset (services/extractors/, tasks/extraction.py), and    *)
(* the check of a requested scope against a grant (requests_service.py).   *)
(*                                                                         *)
(* A scope is a filter.  A file has the artifact of its ingestion (a table *)
(* of Tables, an array dataset of Grids, or none) and the raw upload.      *)
(* Labels are compared regardless of case: they are lower case here.       *)
(***************************************************************************)
EXTENDS Tables, Grids

FindColumn(columns, aliases) == FirstKnown(aliases, columns)

LatAliases == <<"lat", "latitude", "y">>
LonAliases == <<"lon", "lng", "longitude", "x">>
TimeAliases == <<"time", "date", "datetime", "timestamp">>
DepthAliases == <<"depth_m", "depth">>
LabelAliases(c) == IF c = "quality_flag" THEN <<"quality_flag", "quality">> ELSE <<c>>

\* What a scope compares with a number is a number or, coerced, None.
IsCoerced(t) ==
    \A c \in t.columns \cap UNION {ToSet(names) : names \in {LatAliases, LonAliases, TimeAliases, DepthAliases}} :
        \A i \in DOMAIN t.rows : t.rows[i][c] \in OrNone(Int)

\* Mutant for WithinScope: the last day ends with the next midnight.
InDatesToNextMidnight(scope, time) ==
    /\ scope.from # None => time # None /\ time >= scope.from * TicksPerDay
    /\ scope.to # None => time # None /\ time <= (scope.to + 1) * TicksPerDay

\* A bound on a time is a midnight, the last day's like the first's.
InDates(scope, time) ==
    /\ scope.from # None => time # None /\ time >= scope.from * TicksPerDay
    /\ scope.to # None => time # None /\ time <= scope.to * TicksPerDay

-----------------------------------------------------------------------------
(* CSV and Parquet: rows of a table                                        *)

\* A number read as a timestamp counts nanoseconds from day 0.
ToDatetime(t, column, x) == IF x # None /\ column \in t.numeric THEN 0 ELSE x

\* Each field of the scope is compared with the first column of its aliases; a
\* field without a column restricts nothing.
ApplyScopeMask(t, scope) ==
    LET Column(aliases) == FindColumn(t.columns, aliases)
        Compared(aliases, Holds(_, _)) ==
            {i \in DOMAIN t.rows :
                Column(aliases) # None => Holds(Column(aliases), t.rows[i][Column(aliases)])}
    IN  Compared(TimeAliases, LAMBDA c, x : InDates(scope, ToDatetime(t, c, x)))
          \cap (IF ~HasBox(scope) THEN DOMAIN t.rows
                ELSE Compared(LatAliases, LAMBDA c, x : x # None /\ Within(x, scope.latMin, scope.latMax))
                       \cap Compared(LonAliases, LAMBDA c, x : x # None /\ Within(x, scope.lonMin, scope.lonMax)))
          \cap Compared(DepthAliases, LAMBDA c, x : Within(x, scope.depthMin, scope.depthMax))
          \cap {i \in DOMAIN t.rows :
                  \A l \in Labels :
                      LET column == Column(LabelAliases(l)) IN
                      column # None => scope.label[l] \in {None, t.rows[i][column]}}
          \cap Compared(<<"parameter", "variable">>, LAMBDA c, x : Selects(scope, x))

-----------------------------------------------------------------------------
(* NetCDF: the raw array dataset                                           *)

\* Both bounds on the time axis are kept.
SelTime(ds, name, Keeps(_)) ==
    IF name = None THEN ds
    ELSE [ds EXCEPT !.index[name] = {k \in @ : Keeps(ds.coords[name].at[[d \in {name} |-> k]])}]

\* One axis of the box at a time.
WhereAxis(ds, name, low, high) ==
    IF name = None THEN ds
    ELSE LET axis == ds.coords[name] IN
         Where(ds, axis.dims,
               {p \in Positions(ds, Dims(axis)) :
                   Cell(axis, p) # None /\ Within(Cell(axis, p), low, high)})

\* The variables of the scope, if the dataset has any of them; with them the
\* coordinates and the dimensions they use.
SelectVariables(ds, scope) ==
    LET chosen == scope.parameters \cap DOMAIN ds.vars
        used == UNION {Dims(ds.vars[v]) : v \in chosen}
    IN  IF chosen = {} THEN ds
        ELSE [index |-> [d \in used |-> ds.index[d]],
              coords |-> [c \in {x \in DOMAIN ds.coords : Dims(ds.coords[x]) \subseteq used} |-> ds.coords[c]],
              vars |-> [v \in chosen |-> ds.vars[v]]]

NetcdfFilter(ds, scope) ==
    LET lat == FirstCoord(ds, LatAliases)
        lon == FirstCoord(ds, <<"lon", "long", "longitude", "x">>)
        time == FirstCoord(ds, <<"time", "date", "datetime">>)
        dated == SelTime(ds, time, LAMBDA t : InDates(scope, t))
        boxed == IF ~HasBox(scope) THEN dated
                 ELSE WhereAxis(WhereAxis(dated, lat, scope.latMin, scope.latMax),
                                lon, scope.lonMin, scope.lonMax)
    IN  SelectVariables(boxed, scope)

NetcdfRecordCount(ds) ==
    FoldFunction(LAMBDA size, n : size * n, 1,
                 [d \in DOMAIN ds.index |-> Max({Cardinality(ds.index[d]), 1})])

-----------------------------------------------------------------------------
(* A grid as CSV or Parquet: cut to the scope, then flattened to a table   *)

\* A row per position along all dimensions; a column per coordinate, variable
\* and dimension.
ToDataframe(ds) ==
    LET order == Ravel(ds, SetToSeq(DOMAIN ds.index))
        At(p, c) == IF c \in DOMAIN ds.coords THEN Cell(ds.coords[c], p)
                    ELSE IF c \in DOMAIN ds.vars THEN Cell(ds.vars[c], p) ELSE p[c]
        columns == DOMAIN ds.coords \cup DOMAIN ds.vars \cup DOMAIN ds.index
    IN  [columns |-> columns, numeric |-> columns \ {"time"},
         rows |-> [i \in DOMAIN order |-> [c \in columns |-> At(order[i], c)]]]

\* Here the dates are texts: a slice takes in the whole last day.
MaterializeZarrToParquet(ds, scope) ==
    LET dated == SelTime(ds, IF HasTime(ds) THEN "time" ELSE None,
                         LAMBDA t : Within(Day(t), scope.from, scope.to))
        boxed == IF ~HasBox(scope) THEN dated
                 ELSE IF HasPlace(ds) THEN ApplyBbox(dated, scope)
                 ELSE WhereAxis(WhereAxis(dated, LatName(ds), scope.latMin, scope.latMax),
                                LonName(ds), scope.lonMin, scope.lonMax)
    IN  ToDataframe(SelectVariables(boxed, scope))

-----------------------------------------------------------------------------
(* MATLAB: the raw arrays, name -> sequence of cells                       *)

IsArrays(arrays) ==
    /\ IsFiniteSet(DOMAIN arrays) /\ DOMAIN arrays # {}
    /\ \A v \in DOMAIN arrays : Len(arrays[v]) \in Nat

\* The arrays of the greatest length are masked together, the others are kept.
MatExtract(arrays, scope) ==
    LET common == Max({Len(arrays[v]) : v \in DOMAIN arrays})
        filterable == {v \in DOMAIN arrays : Len(arrays[v]) = common}
        time == FindColumn(filterable, <<"time", "date", "datetime", "t">>)
        lat == FindColumn(filterable, LatAliases)
        lon == FindColumn(filterable, <<"lon", "long", "longitude", "x">>)
        Datenum(x) == IF x = None THEN None ELSE (x - EpochDatenum) * TicksPerDay
        Side(name, i, low, high) ==
            name = None \/ (arrays[name][i] # None /\ Within(arrays[name][i], low, high))
        mask == {i \in 1..common :
                    /\ time # None => InDates(scope, Datenum(arrays[time][i]))
                    /\ HasBox(scope) => Side(lat, i, scope.latMin, scope.latMax)
                                          /\ Side(lon, i, scope.lonMin, scope.lonMax)}
        kept == SetToSortSeq(mask, LAMBDA i, j : i < j)
    IN  [arrays |-> [v \in DOMAIN arrays |->
                        IF v \in filterable THEN [k \in DOMAIN kept |-> arrays[v][kept[k]]]
                        ELSE arrays[v]],
         count |-> Cardinality(mask)]

-----------------------------------------------------------------------------
(* The download                                                            *)

\* CSV and Parquet read the artifact, NetCDF and MATLAB the upload.  None if the
\* source is not of the kind that the extractor reads: the extraction fails.
RecordCount(file, format, scope) ==
    CASE format \in {"csv", "parquet"} /\ file.artifact = "table" ->
             Cardinality(ApplyScopeMask(file.table, scope))
      [] format \in {"csv", "parquet"} /\ file.artifact = "grid" ->
             Cardinality(ApplyScopeMask(MaterializeZarrToParquet(file.ds, scope), scope))
      [] format = "netcdf" /\ file.raw = "netcdf" ->
             NetcdfRecordCount(NetcdfFilter(file.ds, scope))
      [] format = "mat" /\ file.raw = "mat" -> MatExtract(file.arrays, scope).count
      [] OTHER -> None

\* Several files are bundled; one that fails fails them all.
RunExtraction(files, format, scope) ==
    LET counts == [i \in DOMAIN files |-> RecordCount(files[i], format, scope)] IN
    IF files = <<>> \/ None \in ToSet(counts) THEN None
    ELSE [bundle |-> Len(files) > 1, count |-> SumFunction(counts)]

\* A field that the request leaves out is not compared.
Grants(grant, requested, field, Inside(_, _)) ==
    grant[field] # None /\ requested[field] # None => Inside(requested[field], grant[field])

ScopeWithinGrant(requested, grant) ==
    \/ grant = None
    \/ /\ \A c \in Labels : Grants(grant.label, requested.label, c, LAMBDA r, g : r = g)
       /\ grant.parameters # {} => requested.parameters \subseteq grant.parameters
       /\ \A low \in {"from", "depthMin"} : Grants(grant, requested, low, LAMBDA r, g : r >= g)
       /\ \A high \in {"to", "depthMax"} : Grants(grant, requested, high, LAMBDA r, g : r <= g)
       /\ HasBox(grant) /\ HasBox(requested) =>
             /\ \A low \in {"latMin", "lonMin"} : requested[low] >= grant[low]
             /\ \A high \in {"latMax", "lonMax"} : requested[high] <= grant[high]

-----------------------------------------------------------------------------
(* What is asked of a scope                                                *)

\* The row of a table lies in the scope, as far as the extractor finds the
\* coordinates that the parser has found.
RowWithin(t, i, scope) ==
    LET Found(role, aliases) == t.named[role] # None /\ FindColumn(t.columns, aliases) = t.named[role]
        At(role) == t.rows[i][t.named[role]]
    IN  /\ Found("time", TimeAliases) /\ t.named["time"] \notin t.numeric
             => Within(Day(At("time")), scope.from, scope.to)
        /\ Found("depth_m", DepthAliases) => Within(At("depth_m"), scope.depthMin, scope.depthMax)
        /\ HasBox(scope) /\ Found("lat", LatAliases) /\ Found("lon", LonAliases)
             => InBox(scope, At("lat"), At("lon"))

\* So does a row of a grid's table, if it has a value.
GridRowWithin(ds, row, scope) ==
    /\ HasTime(ds) /\ "time" \in DOMAIN row => Within(Day(row["time"]), scope.from, scope.to)
    /\ HasPlace(ds) /\ HasBox(scope) /\ (\E v \in DOMAIN ds.vars \cap DOMAIN row : row[v] # None)
         => InBox(scope, row[LatName(ds)], row[LonName(ds)])

\* A dimension without a position leaves a grid without a row.
HasRows(ds) == \A d \in DOMAIN ds.index : ds.index[d] # {}

\* requested sets what granted sets.
SetsAllOf(requested, granted) ==
    /\ FilterColumns(granted) \subseteq FilterColumns(requested)
    /\ \A field \in {"from", "to", "depthMin", "depthMax"} :
         requested[field] = None => granted[field] = None
    /\ granted.parameters # {} => requested.parameters # {}
=============================================================================
