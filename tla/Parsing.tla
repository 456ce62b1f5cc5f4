------------------------------- MODULE Parsing -------------------------------
(***************************************************************************)
(* The parsers (services/parsers/): what an uploaded file of each format   *)
(* becomes, a table (Parquet), a grid (Zarr) or a raster, with the         *)
(* metadata that the queries rely on.                                      *)
(*                                                                         *)
(* A file is its content as the format's library shows it; a name of a     *)
(* column is lower case.  A result of None is a ParserError.               *)
(***************************************************************************)
EXTENDS Scopes, Records

CONSTANTS
    Datenums,       \* the datenums of a plausible date
    Project(_, _)   \* from the default projected CRS to <<lon, lat>>

-----------------------------------------------------------------------------
(* The format, from the extension and the first bytes                      *)

\* header: hdf5, cdf, matlab, tiff, text or binary.
SniffFormat(extension, header) ==
    LET accepted == CASE extension \in {"nc", "netcdf", "nc4"}    -> {"hdf5", "cdf"}
                      [] extension = "mat"                        -> {"hdf5", "matlab"}
                      [] extension = "csv"                        -> {"text", "matlab"}
                      [] extension \in {"tif", "tiff", "geotiff"} -> {"tiff"}
                      [] OTHER                                    -> {}
    IN  IF header \in accepted THEN extension ELSE None

-----------------------------------------------------------------------------
(* What every table's metadata says                                        *)

NoNames == [role \in Roles |-> None]

ParsedTable(t) == [kind |-> "table", table |-> t, named |-> t.named]
ParsedGrid(ds, named) ==
    [kind |-> "grid", ds |-> ds, variables |-> SetToSeq(DOMAIN ds.vars), named |-> named]

NamedCells(t, role) ==
    IF t.named[role] = None THEN {} ELSE {t.rows[i][t.named[role]] : i \in DOMAIN t.rows} \ {None}

MinMax(S) == IF S = {} THEN <<None, None>> ELSE <<Min(S), Max(S)>>

\* Numbers in a MATLAB file are read as datenums, plausible or not.
Timestamp(t, x) == IF RawTimeIsDatenum(t) THEN (x - EpochDatenum) * TicksPerDay ELSE x

TableExtent(t) ==
    [lat |-> MinMax(NamedCells(t, "lat")), lon |-> MinMax(NamedCells(t, "lon")),
     time |-> MinMax({Day(Timestamp(t, x)) : x \in NamedCells(t, "time")}),
     depth |-> MinMax(NamedCells(t, "depth_m"))]

-----------------------------------------------------------------------------
(* CSV: columns, those that are numeric, rows                              *)

\* The time column is read as timestamps; a cell that is none becomes NULL.
ParseCsv(csv) ==
    LET named == [time |-> FindColumn(csv.columns, TimeAliases),
                  lat |-> FindColumn(csv.columns, LatAliases),
                  lon |-> FindColumn(csv.columns, LonAliases),
                  depth_m |-> FindColumn(csv.columns,
                                  <<"depth", "depth_m", "depth_meters", "pressure_depth">>)]
        Filled(i, c) ==
            LET x == csv.rows[i][c] IN
            IF c # named.time THEN x
            ELSE IF x \notin Int THEN None ELSE ToDatetime(csv, c, x)
    IN  IF csv.columns = {} THEN None
        ELSE ParsedTable(
               [columns |-> csv.columns, numeric |-> csv.numeric \ {named.time},
                rows |-> [i \in DOMAIN csv.rows |-> [c \in csv.columns |-> Filled(i, c)]],
                variables |-> csv.columns \ {named[role] : role \in Roles},
                named |-> named, older |-> NoNames, mat |-> FALSE, format |-> "csv"])

-----------------------------------------------------------------------------
(* NetCDF: an array dataset                                                *)

TimeNames == <<"time", "date", "datetime", "valid_time">>

\* Some variable has two dimensions next to the time.
IsGridded(ds, time) ==
    \E v \in DOMAIN ds.vars : Cardinality(Dims(ds.vars[v]) \ {time}) >= 2

FrameTable(frame, variables, named) ==
    ParsedTable([columns |-> frame.columns, numeric |-> frame.columns \ ToSet(TimeNames),
                 rows |-> frame.rows, variables |-> variables,
                 named |-> named, older |-> NoNames, mat |-> FALSE, format |-> "nc"])

ParseNetcdf(ds) ==
    LET named == [time |-> FirstCoord(ds, TimeNames),
                  lat |-> FirstCoord(ds, LatAliases),
                  lon |-> FirstCoord(ds, <<"lon", "long", "longitude", "x">>),
                  depth_m |-> FirstCoord(ds, <<"depth", "depth_m", "z", "level", "pressure">>)]
    IN  IF DOMAIN ds.vars = {} THEN None
        ELSE IF IsGridded(ds, named.time) THEN ParsedGrid(ds, named)
        ELSE FrameTable(ToDataframe(ds), DOMAIN ds.vars, named)

-----------------------------------------------------------------------------
(* A struct of a MATLAB file that is a grid: fields, name -> array of a    *)
(* shape, its cells in the order of the axes, or text                      *)

IsArray(field) == "shape" \in DOMAIN field

Size(shape) == FoldLeft(LAMBDA n, d : n * d, 1, shape)

\* The cell at a position (from 1) of a two- or three-dimensional array.
At2(a, i, j) == a.cells[(i - 1) * a.shape[2] + j]
AtAxes(a, p) ==
    a.cells[1 + FoldLeft(LAMBDA k, axis : k * a.shape[axis] + p[axis] - 1, 0,
                         [axis \in DOMAIN a.shape |-> axis])]

\* Values may lie at the centres of the cells whose corners the coordinates are.
CellCenter(a) ==
    LET ny == a.shape[1] - 1
        nx == a.shape[2] - 1
        Centre(i, j) == (At2(a, i, j) + At2(a, i + 1, j) + At2(a, i, j + 1) + At2(a, i + 1, j + 1)) \div 4
    IN  [shape |-> <<ny, nx>>,
         cells |-> [k \in 1..(ny * nx) |-> Centre(1 + ((k - 1) \div nx), 1 + ((k - 1) % nx))]]

\* The order of axes that makes the shape <<nt, ny, nx>>, or <<ny, nx>>; None if
\* there is no such order, or more than one.  Two spatial axes of one size stay as
\* they are.
MatchValueDims(shape, ny, nx, nt) ==
    LET target == IF nt = None THEN <<ny, nx>> ELSE <<nt, ny, nx>>
        axes == DOMAIN shape
        matches == {p \in [axes -> axes] :
                      /\ \A j, k \in axes : p[j] = p[k] => j = k
                      /\ \A k \in axes : shape[p[k]] = target[k]}
    IN  IF Len(shape) # Len(target) THEN None
        ELSE IF shape = target /\ (nt = None \/ (ny = nx /\ nt # ny)) THEN [k \in axes |-> k]
        ELSE IF Cardinality(matches) = 1 THEN CHOOSE p \in matches : TRUE
        ELSE None

\* The fields that may hold the values: the first with a telling name, then the rest.
ValueCandidates(s, coordinates) ==
    LET hinted == SelectSeq(<<"val", "value", "data", "field">>, LAMBDA c : c \in DOMAIN s.fields)
        first == SubSeq(hinted, 1, Min({1, Len(hinted)}))
        rest == SelectSeq(s.order, LAMBDA c : c \notin coordinates \cup ToSet(first))
    IN  SelectSeq(first \o rest, LAMBDA c : IsArray(s.fields[c]) /\ Len(s.fields[c].shape) \in 2..3)

\* Each candidate is tried on the corners, then on the centres, each time with
\* the time axis, then without.
Fits(s, candidates, x, y, nt) ==
    LET Try(c, xs, ys, steps) ==
            [value |-> c, x |-> xs, y |-> ys, nt |-> steps,
             order |-> MatchValueDims(s.fields[c].shape, xs.shape[1], xs.shape[2], steps)]
        Both(c, xs, ys) == <<Try(c, xs, ys, nt), Try(c, xs, ys, None)>>
        Tries(c) == Both(c, x, y) \o Both(c, CellCenter(x), CellCenter(y))
    IN  SelectSeq(FlattenSeq([k \in DOMAIN candidates |-> Tries(candidates[k])]),
                  LAMBDA try : try.order # None)

HeadOrNone(list) == IF list = <<>> THEN None ELSE Head(list)

StructFit(s) ==
    LET names == DOMAIN s.fields
        x == FindColumn(names, <<"x", "lon", "longitude", "xcor", "easting">>)
        y == FindColumn(names, <<"y", "lat", "latitude", "ycor", "northing">>)
        time == FindColumn(names, <<"time", "t">>)
        nt == IF time = None \/ s.fields[time].cells = <<>> THEN None ELSE Len(s.fields[time].cells)
    IN  IF \/ x = None \/ y = None
           \/ Len(s.fields[x].shape) # 2 \/ s.fields[x].shape # s.fields[y].shape
        THEN None
        ELSE HeadOrNone(Fits(s, ValueCandidates(s, {x, y, time}), s.fields[x], s.fields[y], nt))

Geographic(x, y) ==
    /\ {x.cells[i] : i \in DOMAIN x.cells} \subseteq -180..180
    /\ {y.cells[i] : i \in DOMAIN y.cells} \subseteq -90..90

\* As an array dataset: lat and lon over y and x, and the time, of MATLAB's datenums.
StructGrid(s, fit) ==
    LET ny == fit.x.shape[1]
        nx == fit.x.shape[2]
        lonlat == [p \in [{"y", "x"} -> 1..Max({ny, nx})] |->
                      IF p["y"] > ny \/ p["x"] > nx THEN None
                      ELSE IF Geographic(fit.x, fit.y)
                      THEN <<At2(fit.x, p["y"], p["x"]), At2(fit.y, p["y"], p["x"])>>
                      ELSE Project(At2(fit.x, p["y"], p["x"]), At2(fit.y, p["y"], p["x"]))]
        index == ("y" :> 1..ny) @@ ("x" :> 1..nx)
                     @@ (IF fit.nt = None THEN <<>> ELSE "time" :> 1..fit.nt)
        dims == IF fit.nt = None THEN <<"y", "x">> ELSE <<"time", "y", "x">>
        place == Positions([index |-> index], {"y", "x"})
        array == s.fields[fit.value]
        Value(p) == AtAxes(array, [axis \in DOMAIN dims |->
                              p[dims[CHOOSE k \in DOMAIN dims : fit.order[k] = axis]]])
        name == FindColumn(DOMAIN s.fields, <<"name", "variable", "parameter">>)
        coords == ("lat" :> [dims |-> <<"y", "x">>, at |-> [p \in place |-> lonlat[p][2]]])
                     @@ ("lon" :> [dims |-> <<"y", "x">>, at |-> [p \in place |-> lonlat[p][1]]])
        times == s.fields[FindColumn(DOMAIN s.fields, <<"time", "t">>)].cells
    IN  [index |-> index,
         coords |-> IF fit.nt = None THEN coords
                    ELSE coords @@ ("time" :> [dims |-> <<"time">>,
                             at |-> [p \in [{"time"} -> 1..fit.nt] |->
                                        (times[p["time"]] - EpochDatenum) * TicksPerDay]]),
         vars |-> (IF name # None THEN s.fields[name].text ELSE s.name)
                      :> [dims |-> dims, at |-> [p \in Positions([index |-> index], ToSet(dims)) |-> Value(p)]]]

-----------------------------------------------------------------------------
(* MATLAB: arrays, name -> [shape, cells], and structs, in order; v73 is   *)
(* the HDF5 container, of which only arrays are read                       *)

Squeezable(shape) == Cardinality({k \in DOMAIN shape : shape[k] # 1}) <= 1

\* The names in the metadata are those of all arrays; a coordinate that is no
\* column, on which every query of the table fails, is left out of the files
\* considered here.
ArraysTable(m, columns, length) ==
    LET all == DOMAIN m.arrays
        named == [time |-> FindColumn(all, <<"time", "date", "datetime", "t">>),
                  lat |-> FindColumn(all, LatAliases),
                  lon |-> FindColumn(all, <<"lon", "long", "longitude", "x">>),
                  depth_m |-> FindColumn(all, <<"depth", "depth_m", "depth_meters", "pressure_depth">>)]
        time == FindColumn(columns, <<"time", "date", "datetime", "t">>)
        set == IF time = None THEN {} ELSE ToSet(m.arrays[time].cells) \ {None}
        dated == set # {} /\ set \subseteq Datenums
        Filled(i, c) ==
            LET x == m.arrays[c].cells[i] IN
            IF dated /\ c = time /\ x # None THEN (x - EpochDatenum) * TicksPerDay ELSE x
    IN  ParsedTable(
            [columns |-> columns, numeric |-> IF dated THEN columns \ {time} ELSE columns,
             rows |-> [i \in 1..length |-> [c \in columns |-> Filled(i, c)]],
             variables |-> all, named |-> named, older |-> NoNames, mat |-> TRUE, format |-> "mat"])

\* The arrays of the greatest length are the columns: of the HDF5 container only
\* vectors, else every array, in the order of its cells.
MatTable(m) ==
    LET flat == {v \in DOMAIN m.arrays : m.v73 => Squeezable(m.arrays[v].shape)}
        length == Max({Size(m.arrays[v].shape) : v \in flat})
    IN  IF flat = {} THEN None
        ELSE ArraysTable(m, {v \in flat : Size(m.arrays[v].shape) = length}, length)

ParseStruct(s, fit) ==
    ParsedGrid(StructGrid(s, fit),
               [NoNames EXCEPT !["lat"] = "lat", !["lon"] = "lon",
                               !["time"] = IF fit.nt = None THEN None ELSE "time"])

\* grid: the first struct that is a grid, if there is one.
ParseMatContent(m, grid) ==
    IF ~m.v73 /\ m.large THEN None
    ELSE IF grid # None THEN ParseStruct(grid, StructFit(grid))
    ELSE IF DOMAIN m.arrays = {} THEN None
    ELSE MatTable(m)

ParseMat(m) ==
    ParseMatContent(m, HeadOrNone(SelectSeq(IF m.v73 THEN <<>> ELSE m.structs,
                                            LAMBDA s : StructFit(s) # None)))

-----------------------------------------------------------------------------
(* GeoTIFF: bands (their descriptions), a CRS, bounds.  A raster has       *)
(* neither records nor an artifact that a query reads.                     *)

ParseGeotiff(tif) ==
    IF tif.bands = <<>> \/ tif.crs = None THEN None
    ELSE [kind |-> "raster",
          bands |-> [i \in DOMAIN tif.bands |-> IF tif.bands[i] = None THEN "band_" \o ToString(i) ELSE tif.bands[i]],
          extent |-> tif.bounds[tif.crs]]

-----------------------------------------------------------------------------
(* An uploaded file: extension, header and content                         *)

TotalElements(ds) ==
    FoldSet(LAMBDA d, n : n * Max({1, Cardinality(ds.index[d])}), 1, DOMAIN ds.index)

\* record_count: the cells of a grid, the rows of a table (of a MATLAB file its
\* longest array, of a NetCDF file what its dimensions span).
ParsedCount(raw, p) ==
    CASE p.kind = "grid"       -> TotalElements(p.ds)
      [] raw.extension = "csv" -> Len(p.table.rows)
      [] raw.extension = "mat" -> Max({0} \cup {Size(raw.content.arrays[v].shape) : v \in DOMAIN raw.content.arrays})
      [] OTHER                 -> TotalElements(raw.content)

ParseFile(raw) ==
    LET format == SniffFormat(raw.extension, raw.header) IN
    CASE format = None                        -> None
      [] format = "csv"                       -> ParseCsv(raw.content)
      [] format = "mat"                       -> ParseMat(raw.content)
      [] format \in {"nc", "netcdf", "nc4"}   -> ParseNetcdf(raw.content)
      [] format \in {"tif", "tiff", "geotiff"} -> ParseGeotiff(raw.content)

\* What the registry learns of a file: a grid's variables and a raster's bands
\* have no range.
Registered(p) ==
    IF p.kind = "raster" THEN [v \in ToSet(p.bands) |-> Variable("numeric", FALSE, None, None)]
    ELSE WriteVariableRegistry(DetectedCoordinates(p.named),
                               IF p.kind = "table" THEN DetectedVariables(p.table)
                               ELSE [v \in ToSet(p.variables) |-> Variable("numeric", FALSE, None, None)])
=============================================================================
