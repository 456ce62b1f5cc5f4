------------------------- MODULE MCDatasetSnapshot -------------------------
(* Small instances of DatasetSnapshot for TLC.                             *)
EXTENDS DatasetSnapshot, TLC

\* Nothing distinguishes one variable or date range from another.
Symmetric == Permutations(Variables) \cup Permutations(Dates)
=============================================================================
