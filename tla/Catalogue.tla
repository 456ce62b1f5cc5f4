------------------------------ MODULE Catalogue ------------------------------
(***************************************************************************)
(* What the application says of a dataset beside its charts: the selector  *)
(* of the explorer (visualize_service.get_visualizable_datasets), the      *)
(* filters of its page (catalog_service.get_dataset_schema_for_filters)    *)
(* and the issues that a quality scan finds in its records and tables      *)
(* (services/admin_qc_service.py).                                         *)
(***************************************************************************)
EXTENDS Charts

CONSTANT OutlierStddevs   \* a value further from the mean is an outlier: 3

ASSUME CatalogueAssumption == OutlierStddevs \in Nat

-----------------------------------------------------------------------------
(* What is offered.  registry: name -> variable                            *)

\* A dataset is listed with its parameters and its extent if it was reviewed and
\* has a parameter.  extents: as for TemporalExtent.
VisualizableDataset(registry, reviewed, extents, records) ==
    LET parameters == {v \in DOMAIN registry :
                          "visualization_variable" \in registry[v].roles /\ ~registry[v].is_dimension}
        starts == {e[1] : e \in extents} \ {None}
        ends == {e[2] : e \in {x \in extents : x[1] # None}} \ {None}
        days == {r.time : r \in records} \ {None}
    IN  IF ~reviewed \/ parameters = {} THEN None
        ELSE [variables |-> parameters,
              extent |-> IF starts # {} THEN <<Extent(starts)[1], Extent(ends)[2]>> ELSE Extent(days)]

\* The variables that an administrator has given a role, each with its range.
DatasetSchemaForFilters(registry, reviewed) ==
    IF ~reviewed THEN None
    ELSE LET assigned == {v \in DOMAIN registry : registry[v].roles # {}}
         IN  [v \in assigned |-> registry[v]]

-----------------------------------------------------------------------------
(* The quality scan                                                        *)

\* A record of neither a time nor a station is the duplicate of none.
RecordsHaveDuplicates(records) ==
    LET Slot(r) == <<r.time, r.label["station"], r.parameter>> IN
    \E r, s \in records :
        /\ r # s
        /\ Slot(r) = Slot(s)
        /\ r.time # None \/ r.label["station"] # None

\* The square of n (x - mean) against that of OutlierStddevs sample deviations.
Outliers(S) ==
    LET n == Cardinality(S)
        sum == SumFunction([x \in S |-> x.value])
        spread == n * SumFunction([x \in S |-> x.value * x.value]) - sum * sum
    IN  {x \in S : /\ spread > 0
                   /\ (n * x.value - sum) * (n * x.value - sum) * (n - 1)
                        > OutlierStddevs * OutlierStddevs * n * spread}

\* The values of each parameter are compared with their own mean.
OutliersByParameter(S) ==
    UNION {Outliers({x \in S : x.parameter = p}) : p \in {x.parameter : x \in S}}

RecordOutliers(records) == Cardinality(OutliersByParameter(records))
TableOutliers(t) == Cardinality(OutliersByParameter(BaseMelted(t)))

HasDuplicates(d) ==
    RecordsHaveDuplicates(d.records) \/ \E i \in DOMAIN d.tables : TableHasDuplicates(d.tables[i])

HasOutliers(d) == RecordOutliers(d.records) + Sum(d.tables, TableOutliers) > 0

\* Fewer than 95 % of the declared records are found; no grid is counted.
MissesValues(d, declared) ==
    100 * (Cardinality(d.records) + Sum(d.tables, TableTotal)) < 95 * declared

\* An issue of a type is raised unless one is open.
QcScan(d, declared, open) ==
    {type \in {"duplicates", "outliers", "missing"} \ open :
        \/ type = "duplicates" /\ HasDuplicates(d)
        \/ type = "outliers" /\ HasOutliers(d)
        \/ type = "missing" /\ MissesValues(d, declared)}
=============================================================================
