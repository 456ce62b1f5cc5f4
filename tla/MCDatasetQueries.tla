------------------------- MODULE MCDatasetQueries -------------------------
(* A small dataset for TLC: a CSV file of the older tier, and a new file   *)
(* of each format.  Two ticks make a day, two days a month.     *)
EXTENDS DatasetQueries

CONSTANTS oldCsv, newTif, newCsv, newNc, newMat, newStruct

\* Datenum 100 is day 0.
MCDatenums == 100..120

MCProject(x, y) == <<x, y>>

\* Two rows of one moment.
MCOld ==
    [columns |-> {"time", "lat", "lon", "depth_m", "temp", "sal"},
     numeric |-> {"lat", "lon", "depth_m", "temp", "sal"},
     rows |-> <<[time |-> 3, lat |-> 10, lon |-> 20, depth_m |-> 0, temp |-> 4, sal |-> 30],
                [time |-> 3, lat |-> 12, lon |-> 20, depth_m |-> 5, temp |-> 6, sal |-> None]>>]

MCTable ==
    [columns |-> {"date", "latitude", "longitude", "depth_m", "temp", "sal", "station", "quality_flag"},
     numeric |-> {"latitude", "longitude", "depth_m", "temp", "sal"},
     rows |-> <<[date |-> 3, latitude |-> 10, longitude |-> 20, depth_m |-> 5, temp |-> 8, sal |-> 33,
                 station |-> "s1", quality_flag |-> "caution"],
                [date |-> 4, latitude |-> 10, longitude |-> 20, depth_m |-> 0, temp |-> None, sal |-> 35,
                 station |-> "s2", quality_flag |-> "normal"]>>]

Axis(name, cells) ==
    [dims |-> <<name>>, at |-> [p \in [{name} -> DOMAIN cells] |-> cells[p[name]]]]

SeededRow(i, station) ==
    [file |-> None, row |-> i, parameter |-> "temp", id |-> None, value |-> 10 * i, time |-> i,
     lat |-> 10, lon |-> 20, depth_m |-> i,
     label |-> [NoFilter.label EXCEPT !["station"] = station, !["quality_flag"] = "normal"]]

MCSeeded == {SeededRow(1, "s1"), SeededRow(2, "s2")}

\* Another dataset has a later row of one of the stations.
MCOthers == {SeededRow(3, "s1")}

\* Two timesteps, one of them at noon, and two places.
MCGrid ==
    [index |-> ("time" :> 1..2) @@ ("lat" :> 1..2) @@ ("lon" :> 1..1),
     coords |-> ("time" :> Axis("time", <<2, 5>>)) @@ ("lat" :> Axis("lat", <<10, 12>>))
                   @@ ("lon" :> Axis("lon", <<20>>)),
     vars |-> "temp" :> [dims |-> <<"time", "lat", "lon">>,
                         at |-> [p \in [{"time", "lat", "lon"} -> 1..2] |->
                                    IF p["time"] = 1 /\ p["lat"] = 2 THEN None ELSE p["time"] + 2 * p["lat"]]]]

Vector(cells) == [shape |-> <<1, Len(cells)>>, cells |-> cells]

MCArrays ==
    [v73 |-> FALSE, large |-> FALSE, structs |-> <<>>,
     arrays |-> ("time" :> Vector(<<101, 102>>)) @@ ("lat" :> Vector(<<10, 11>>))
                   @@ ("lon" :> Vector(<<20, 21>>)) @@ ("temp" :> Vector(<<5, 7>>))
                   @@ ("sal" :> Vector(<<31, 34>>))]

\* A struct of two places at three times, its time axis the last.
MCStruct ==
    [v73 |-> FALSE, large |-> FALSE, arrays |-> <<>>,
     structs |-> <<[name |-> "temp", order |-> <<"x", "y", "val", "time">>,
                    fields |-> [x |-> [shape |-> <<2, 1>>, cells |-> <<20, 20>>],
                                y |-> [shape |-> <<2, 1>>, cells |-> <<10, 12>>],
                                time |-> Vector(<<100, 101, 103>>),
                                val |-> [shape |-> <<2, 1, 3>>, cells |-> <<1, 2, 3, 4, 5, 6>>]]]>>]

MCImage == [bands |-> <<"red", None>>, width |-> 2, height |-> 3, crs |-> "EPSG:4326", bounds |-> [c \in {"EPSG:4326"} |-> <<0, 0, 1, 1>>]]

MCRaw ==
    oldCsv :> [extension |-> "csv", header |-> "text", content |-> MCOld]
    @@ newTif :> [extension |-> "tif", header |-> "tiff", content |-> MCImage]
    @@ newCsv :> [extension |-> "csv", header |-> "text", content |-> MCTable]
    @@ newNc :> [extension |-> "nc", header |-> "hdf5", content |-> MCGrid]
    @@ newMat :> [extension |-> "mat", header |-> "matlab", content |-> MCArrays]
    @@ newStruct :> [extension |-> "mat", header |-> "matlab", content |-> MCStruct]

MCParsed == [f \in Files |-> ParseFile(Raw[f])]

\* A column named like no role or label is a parameter.
MCColumns ==
    Roles \cup Labels \cup {"date", "latitude", "longitude", "temp", "sal", "x", "y", "val", "red", "band_2"}

MCBounds == {}

MCFilters ==
    {NoFilter,
     [NoFilter EXCEPT !.from = 0, !.to = 1, !.label["station"] = "s1"],
     [NoFilter EXCEPT !.from = 0, !.to = 1, !.latMin = 9, !.latMax = 11, !.lonMin = 19, !.lonMax = 21,
                      !.depthMax = 5]}

MCCriteria == {[NoFilter EXCEPT !.from = 0, !.to = 1, !.label["station"] = "s1"]}

Symmetry == Permutations(Actors)
===========================================================================
