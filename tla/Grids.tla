------------------------------- MODULE Grids -------------------------------
(***************************************************************************)
(* The queries of a Zarr grid (services/gridded_query_service.py): an      *)
(* xarray dataset, cut to a bounding box and to dates, then counted,       *)
(* averaged or sampled.                                                    *)
(*                                                                         *)
(* A dataset has dimensions, coordinates and variables.  index gives the   *)
(* positions along each dimension that are still there; an array has an    *)
(* ordered list of dimensions and a cell for every position along them, a  *)
(* function from its dimensions.  Arrays keep the cells of positions that  *)
(* a selection drops: Positions says which of them count.                  *)
(***************************************************************************)
EXTENDS Observations, Sequences, SequencesExt

Dims(array) == ToSet(array.dims)

\* An array dataset of xarray: arrays along its dimensions, none of which has the
\* name of a variable; the time is a coordinate of its own dimension.
IsGrid(ds) ==
    /\ DOMAIN ds = {"index", "coords", "vars"}
    /\ IsFiniteSet(DOMAIN ds.index) /\ IsFiniteSet(DOMAIN ds.vars)
    /\ \A d \in DOMAIN ds.index : IsFiniteSet(ds.index[d]) /\ ds.index[d] \subseteq Int
    /\ \A c \in DOMAIN ds.coords : ds.coords[c].dims \in Seq(DOMAIN ds.index)
    /\ \A v \in DOMAIN ds.vars : ds.vars[v].dims \in Seq(DOMAIN ds.index)
    /\ DOMAIN ds.vars \cap (DOMAIN ds.coords \cup DOMAIN ds.index) = {}
    /\ "time" \in DOMAIN ds.coords => ds.coords["time"].dims = <<"time">>

Positions(ds, dims) ==
    {p \in [dims -> UNION {ds.index[d] : d \in dims}] : \A d \in dims : p[d] \in ds.index[d]}

Cell(array, p) == array.at[[d \in Dims(array) |-> p[d]]]

\* Its variables have numbers, and a step of its time axis has a time.
HasNumbers(ds) ==
    /\ \A v \in DOMAIN ds.vars : \A p \in Positions(ds, Dims(ds.vars[v])) : Cell(ds.vars[v], p) \in OrNone(Int)
    /\ "time" \in DOMAIN ds.coords =>
         \A k \in ds.index["time"] : ds.coords["time"].at[[d \in {"time"} |-> k]] \in Int

FirstCoord(ds, names) == FirstKnown(names, DOMAIN ds.coords)

LatName(ds) == FirstCoord(ds, <<"lat", "latitude", "y">>)
LonName(ds) == FirstCoord(ds, <<"lon", "longitude", "x">>)
HasPlace(ds) == LatName(ds) # None /\ LonName(ds) # None
HasTime(ds) == "time" \in DOMAIN ds.coords

-----------------------------------------------------------------------------
(* The filter                                                              *)

\* The dimensions of two arrays: those of the first, then the others.
Together(dims, more) ==
    LET Place(d) == CHOOSE i \in DOMAIN more : more[i] = d
    IN  dims \o InOrder(ToSet(more) \ ToSet(dims), LAMBDA c, d : Place(c) < Place(d))

\* xarray's where(mask, drop=True) with a mask over the dimensions masked: a
\* position that is nowhere inside is dropped, a cell outside becomes NaN, and a
\* variable without a dimension of the mask is repeated along it.
Where(ds, masked, inside) ==
    LET Masked(v) ==
            LET dims == Together(v.dims, masked) IN
            [dims |-> dims,
             at |-> [p \in Positions(ds, ToSet(dims)) |->
                        IF [d \in ToSet(masked) |-> p[d]] \in inside THEN Cell(v, p) ELSE None]]
    IN  [ds EXCEPT !.index = [d \in DOMAIN @ |->
                                 IF d \in ToSet(masked) THEN {p[d] : p \in inside} ELSE @[d]],
                   !.vars = [v \in DOMAIN @ |-> Masked(@[v])]]

ApplyBbox(ds, f) ==
    LET lat == ds.coords[LatName(ds)]
        lon == ds.coords[LonName(ds)]
        masked == Together(lat.dims, lon.dims)
    IN  IF ~HasBox(f) \/ ~HasPlace(ds) THEN ds
        ELSE Where(ds, masked,
                   {p \in Positions(ds, ToSet(masked)) : InBox(f, Cell(lat, p), Cell(lon, p))})

TimeAt(ds, k) == ds.coords["time"].at[[d \in {"time"} |-> k]]

\* Both days of the range count to their end.
ApplyDateRange(ds, f) ==
    IF ~HasTime(ds) THEN ds
    ELSE [ds EXCEPT !.index["time"] = {k \in @ : Within(Day(TimeAt(ds, k)), f.from, f.to)}]

\* The other fields of a filter have no counterpart in a grid.
Filtered(ds, f) == ApplyDateRange(ApplyBbox(ds, f), f)

Cells(ds, array) == {p \in Positions(ds, Dims(array)) : Cell(array, p) # None}

-----------------------------------------------------------------------------
(* Counts and preview.  variables is file_metadata["variables"].           *)

Selected(variables, f) == SelectSeq(variables, LAMBDA v : Selects(f, v))

GridTotal(ds, variables) ==
    SumFunction([v \in ToSet(variables) \cap DOMAIN ds.vars |-> Cardinality(Positions(ds, Dims(ds.vars[v])))])

GridMatching(ds, variables, f) ==
    LET g == Filtered(ds, f)
        chosen == {v \in ToSet(variables) \cap DOMAIN ds.vars : Selects(f, v)}
    IN  SumFunction([v \in chosen |-> Cardinality(Cells(g, g.vars[v]))])

\* The positions along dims in the order of numpy's ravel.
Ravel(ds, dims) ==
    InOrder(Positions(ds, ToSet(dims)),
            LAMBDA p, q : \E k \in DOMAIN dims :
                /\ p[dims[k]] < q[dims[k]]
                /\ \A j \in 1..(k - 1) : p[dims[j]] = q[dims[j]])

FirstStep(g) == CHOOSE k \in g.index["time"] : \A j \in g.index["time"] : k <= j

\* Up to three timesteps of each variable, up to the first one that the store
\* lacks; every row has the date of the first timestep.
GridRows(g, chosen, limit) ==
    LET early == {k \in g.index["time"] : Cardinality({j \in g.index["time"] : j < k}) < 3}
        date == IF HasTime(g) /\ g.index["time"] # {} THEN Day(TimeAt(g, FirstStep(g))) ELSE None
        readable == SelectInSeq(chosen, LAMBDA v : v \notin DOMAIN g.vars)
        Sliced(v) ==
            IF "time" \in Dims(g.vars[v]) THEN [g EXCEPT !.index["time"] = early] ELSE g
        Rows(v) ==
            LET filled == SelectSeq(Ravel(Sliced(v), g.vars[v].dims),
                                    LAMBDA p : Cell(g.vars[v], p) # None)
            IN  [i \in DOMAIN filled |->
                    [parameter |-> v, value |-> Cell(g.vars[v], filled[i]), time |-> date]]
    IN  FirstRows(FlattenSeq([i \in 1..(IF readable = 0 THEN Len(chosen) ELSE readable - 1) |-> Rows(chosen[i])]),
                  limit)

GridPreview(ds, variables, f, limit) ==
    GridRows(Filtered(ds, f), Selected(variables, f), limit)

-----------------------------------------------------------------------------
(* Means over the grid                                                     *)

StepMean(g, array, k) ==
    LET filled == {p \in Cells(g, array) : p["time"] = k}
    IN  MeanOf(filled, LAMBDA p : Cell(array, p))

\* The timesteps at which the array has a value.
Steps(g, array) == {p["time"] : p \in Cells(g, array)}

Timed(ds, parameter) ==
    /\ parameter \in DOMAIN ds.vars
    /\ HasTime(ds)
    /\ "time" \in Dims(ds.vars[parameter])

StepValues(g, array) ==
    {[time |-> Day(TimeAt(g, k)), step |-> k, value |-> StepMean(g, array, k)] : k \in Steps(g, array)}

ValuesOf(g, parameter) == StepValues(g, g.vars[parameter])

\* One value per timestep: the mean over the grid.
GridRawValues(ds, parameter, f) ==
    IF ~Timed(ds, parameter) THEN {} ELSE ValuesOf(Filtered(ds, f), parameter)

\* The mean over the grid, then over the bucket; a season is a mean of days.
BucketMeans(values, resolution) ==
    LET days == SeriesOf(values, LAMBDA x : x.time, LAMBDA x : x.value)
    IN  IF resolution = "seasonal"
        THEN SeriesOf(DOMAIN days, SeasonBucketDate, LAMBDA d : days[d])
        ELSE SeriesOf(values, LAMBDA x : BucketOf(resolution, x.time), LAMBDA x : x.value)

GridTimeseries(ds, parameter, f, resolution) ==
    BucketMeans(GridRawValues(ds, parameter, f), resolution)

-----------------------------------------------------------------------------
(* Points: the cells of the last timestep, at most about maxPoints         *)

\* The least stride with which ways axes sample total cells to maxPoints.
Stride(total, maxPoints, axes) ==
    CHOOSE s \in 1..(total + 1) :
        /\ s^axes * maxPoints >= total
        /\ \A r \in 1..(s - 1) : r^axes * maxPoints < total

LastStep(g) == CHOOSE k \in g.index["time"] : \A j \in g.index["time"] : j <= k

Sampled(n, stride) == {i \in 1..n : (i - 1) % stride = 0}

ValidPoints(points) ==
    {point \in points : point.value # None /\ ValidCoordinate(point.lat, point.lon)}

\* A latitude axis and a longitude axis: a plane of values, ny by nx, has a cell
\* for each pair.  None if an index is out of range, where the query raises.
PlanePoints(values, lats, lons, ny, nx, stride) ==
    LET read == Sampled(Len(lats), stride) \X Sampled(Len(lons), stride) IN
    IF \E ij \in read : ij[1] > ny \/ ij[2] > nx THEN None
    ELSE ValidPoints({[lat |-> lats[ij[1]], lon |-> lons[ij[2]],
                       value |-> values[(ij[1] - 1) * nx + ij[2]]] : ij \in read})

\* In every other case the three arrays are read side by side.
LinePoints(values, lats, lons, stride) ==
    LET read == Sampled(Len(lats), stride) IN
    IF \E i \in read : i > Len(lons) \/ i > Len(values) THEN None
    ELSE ValidPoints({[lat |-> lats[i], lon |-> lons[i], value |-> values[i]] : i \in read})

Flat(g, array) ==
    LET order == Ravel(g, array.dims) IN [i \in DOMAIN order |-> Cell(array, order[i])]

SampledPoints(values, lats, lons, sizes, axes, maxPoints) ==
    IF axes /\ Len(sizes) = 2
    THEN PlanePoints(values, lats, lons, sizes[1], sizes[2], Stride(Len(lats) * Len(lons), maxPoints, 2))
    ELSE LinePoints(values, lats, lons, Stride(Len(lats), maxPoints, 1))

PointsOf(g, parameter, lat, lon, maxPoints) ==
    LET array == g.vars[parameter]
        timed == "time" \in Dims(array)
        plane == SelectSeq(array.dims, LAMBDA d : d # "time")
    IN  IF timed /\ g.index["time"] = {} THEN {}
        ELSE SampledPoints(Flat(IF timed THEN [g EXCEPT !.index["time"] = {LastStep(g)}] ELSE g, array),
                           Flat(g, g.coords[lat]), Flat(g, g.coords[lon]),
                           [k \in DOMAIN plane |-> Cardinality(g.index[plane[k]])],
                           Len(g.coords[lat].dims) = 1 /\ Len(g.coords[lon].dims) = 1, maxPoints)

GridPoints(ds, parameter, f, maxPoints) ==
    IF ~HasPlace(ds) \/ parameter \notin DOMAIN ds.vars THEN {}
    ELSE PointsOf(Filtered(ds, f), parameter, LatName(ds), LonName(ds), maxPoints)
=============================================================================
