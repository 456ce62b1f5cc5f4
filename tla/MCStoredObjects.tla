-------------------------- MODULE MCStoredObjects --------------------------
(* Small instances of StoredObjects for TLC.                               *)
EXTENDS StoredObjects, TLC

CONSTANTS raw, processed, grid, zarr, media, document, avatar, report, backup

\* The file raw has an artifact that is one object, the file grid a Zarr store.
MCKind ==
    raw :> "raw" @@ processed :> "processed" @@ grid :> "raw" @@ zarr :> "zarr"
    @@ media :> "media" @@ document :> "document"
    @@ avatar :> "avatar" @@ report :> "report" @@ backup :> "backup"

MCRawOf == processed :> raw @@ zarr :> grid

Symmetry == Permutations(Workers)
=============================================================================
