-------------------------- MODULE MCAccessRequests --------------------------
(* Small instances of AccessRequests for TLC.                              *)
EXTENDS AccessRequests, TLC

CONSTANTS u1, d1

\* Every request is by the same user for the same dataset: the handlers
\* then meet on one counter and one status.
MCRequestUser == [r \in Requests |-> u1]
MCRequestDataset == [r \in Requests |-> d1]

\* A short relative duration, and a custom date that may lie in the past.
MCDurations == {[kind |-> "relative", n |-> 1], [kind |-> "custom", n |-> 1]}

\* Enough for an approval and an extension, without the choice of dates.
MCOneDuration == {[kind |-> "relative", n |-> 1]}

\* All requests are alike, and so are grants.
Symmetry == Permutations(Requests) \cup Permutations(Grants)
=============================================================================
