------------------------- MODULE MCUploadPipeline --------------------------
(* Small instances of UploadPipeline for TLC.                              *)
EXTENDS UploadPipeline, TLC

Symmetry == Permutations(Clients)
=============================================================================
