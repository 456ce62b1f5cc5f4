---------------------------- MODULE Observations ----------------------------
(***************************************************************************)
(* What the three storage tiers of a dataset share: DatasetRecord rows in  *)
(* PostgreSQL, wide Parquet tables and Zarr grids are all read as          *)
(* observations (a parameter, a value, a time, a place), under one filter  *)
(* (RecordsFilter) and into one set of time buckets.                       *)
(*                                                                         *)
(* A timestamp counts ticks, TicksPerDay to a day; a date is a day number. *)
(* The calendar is abstract: DaysPerMonth days to a month, twelve months   *)
(* to a year, day 0 the first of a January.  None is SQL's NULL, a NaN     *)
(* cell and an unset field.                                                *)
(***************************************************************************)
EXTENDS Integers, FiniteSets, FiniteSetsExt, Sequences, SequencesExt

CONSTANTS
    TicksPerDay,   \* the resolution of timestamps
    DaysPerMonth,  \* the length of a month
    Columns,       \* names of columns, of parameters and of array dimensions
    None

\* The coordinates, by the canonical names of the queries, and the columns a
\* filter compares for equality.
Roles == {"time", "lat", "lon", "depth_m"}
Labels == {"quality_flag", "source", "platform", "format", "processing_level", "station"}

ASSUME ObservationsAssumption ==
    /\ TicksPerDay \in Nat \ {0}
    /\ DaysPerMonth \in Nat \ {0}
    /\ Roles \cup Labels \subseteq Columns
    /\ None \notin Int \cup Columns

OrNone(S) == S \cup {None}

QualityFlags == {"normal", "caution", "alert"}

\* The first of the names that is in S.
FirstKnown(names, S) ==
    LET known == {i \in DOMAIN names : names[i] \in S}
    IN  IF known = {} THEN None ELSE names[Min(known)]

\* S in an order that is total on it: below[x] are the elements before x.
Ordered(S, below) ==
    [i \in 1..Cardinality(S) |-> CHOOSE x \in S : Cardinality(below[x]) = i - 1]

InOrder(S, Before(_, _)) == Ordered(S, [x \in S |-> {y \in S : Before(y, x)}])

\* The positions of a list as a stable sort leaves them.
SortedPositions(list, Before(_, _)) ==
    InOrder(DOMAIN list, LAMBDA i, j : Before(list[i], list[j]) \/ (~Before(list[j], list[i]) /\ i < j))

\* S in a weak order; the order of equals is the database's.
Sorted(S, Before(_, _)) ==
    LET list == SetToSeq(S)
        order == SortedPositions(list, Before)
    IN  [k \in DOMAIN order |-> list[order[k]]]

\* A list cut to a limit.
FirstRows(rows, limit) == SubSeq(rows, 1, Min({limit, Len(rows)}))

-----------------------------------------------------------------------------
(* Time                                                                    *)

Day(t) == IF t = None THEN None ELSE t \div TicksPerDay

\* Months count from 0, January.
Month(d) == (d \div DaysPerMonth) % 12
Year(d) == d \div (12 * DaysPerMonth)
FirstOf(year, month) == (12 * year + month) * DaysPerMonth

\* The first day of the season: December to February, March to May, June to
\* September, October and November.  A winter belongs to its December.
SeasonBucketDate(d) ==
    LET y == Year(d)
        m == Month(d)
    IN  CASE m = 11       -> FirstOf(y, 11)
          [] m \in 0..1   -> FirstOf(y - 1, 11)
          [] m \in 2..4   -> FirstOf(y, 2)
          [] m \in 5..8   -> FirstOf(y, 5)
          [] m \in 9..10  -> FirstOf(y, 9)

Resolutions == {"daily", "monthly", "annual", "seasonal"}

BucketOf(resolution, d) ==
    CASE resolution = "daily"    -> d
      [] resolution = "monthly"  -> FirstOf(Year(d), Month(d))
      [] resolution = "annual"   -> FirstOf(Year(d), 0)
      [] resolution = "seasonal" -> SeasonBucketDate(d)

-----------------------------------------------------------------------------
(* The filter                                                              *)

Filter ==
    [parameters : SUBSET Columns, label : [Labels -> OrNone(STRING)],
     from : OrNone(Int), to : OrNone(Int),
     depthMin : OrNone(Int), depthMax : OrNone(Int),
     latMin : OrNone(Int), latMax : OrNone(Int), lonMin : OrNone(Int), lonMax : OrNone(Int)]

NoFilter ==
    [parameters |-> {}, label |-> [c \in Labels |-> None],
     from |-> None, to |-> None, depthMin |-> None, depthMax |-> None,
     latMin |-> None, latMax |-> None, lonMin |-> None, lonMax |-> None]

\* A comparison with NULL does not hold; an unset bound restricts nothing.
AtLeast(x, low) == low = None \/ (x # None /\ x >= low)
AtMost(x, high) == high = None \/ (x # None /\ x <= high)
Within(x, low, high) == AtLeast(x, low) /\ AtMost(x, high)

\* A bounding box counts only if its four sides are set.
HasBox(f) == None \notin {f.latMin, f.latMax, f.lonMin, f.lonMax}

InBox(f, lat, lon) ==
    /\ lat # None /\ f.latMin <= lat /\ lat <= f.latMax
    /\ lon # None /\ f.lonMin <= lon /\ lon <= f.lonMax

\* A place of the WGS84 range.
ValidCoordinate(lat, lon) ==
    lat # None /\ lat \in -90..90 /\ lon # None /\ lon \in -180..180

\* A parameter list that is empty selects every parameter.
Selects(f, parameter) == f.parameters = {} \/ parameter \in f.parameters

-----------------------------------------------------------------------------
(* Means.  A mean is a quotient, sum over n.                               *)

MeanOf(S, value(_)) ==
    [sum |-> MapThenSumSet(value, S), n |-> Cardinality(S)]

Plus(a, b) == [sum |-> a.sum * b.n + b.sum * a.n, n |-> a.n * b.n]

MeanOfMeans(S, mean(_)) ==
    LET total == MapThenFoldSet(Plus, [sum |-> 0, n |-> 1], mean, LAMBDA T : CHOOSE x \in T : TRUE, S)
    IN  [sum |-> total.sum, n |-> total.n * Cardinality(S)]

SameMean(a, b) == a.sum * b.n = b.sum * a.n

\* A series: for each bucket that has a value, its mean.
SeriesOf(S, bucket(_), mean(_)) ==
    [b \in {bucket(x) : x \in S} |-> MeanOfMeans({x \in S : bucket(x) = b}, mean)]

\* The mean of the values of S that fall in each bucket.
MeansBy(S, bucket(_), value(_)) ==
    [b \in {bucket(x) : x \in S} |-> MeanOf({x \in S : bucket(x) = b}, value)]
=============================================================================
