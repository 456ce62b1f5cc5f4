------------------------- MODULE MCSubsetExtraction -------------------------
(* Small instances of SubsetExtraction for TLC.                            *)
EXTENDS SubsetExtraction, TLC

CONSTANTS u1, d1

MCRequestUser == [r \in Requests |-> u1]
MCRequestDataset == [r \in Requests |-> d1]

MCOneDuration == {[kind |-> "relative", n |-> 1]}

Symmetry == Permutations(Clients) \cup Permutations(Runners)
=============================================================================
