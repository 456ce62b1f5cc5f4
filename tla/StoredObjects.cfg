SPECIFICATION Spec
CONSTANTS
    None = None
    raw = raw
    processed = processed
    grid = grid
    zarr = zarr
    media = media
    document = document
    avatar = avatar
    report = report
    backup = backup
    Keys = {raw, processed, grid, zarr, media, document, avatar, report, backup}
    Kind <- MCKind
    RawOf <- MCRawOf
    Workers = {w1, w2}
    MaxStored = 2
    MaxSweeps = 1
INVARIANT StoredTypeOK
INVARIANT NamedHasObject
INVARIANT BackupKept
INVARIANT SweepExact
SYMMETRY Symmetry
CHECK_DEADLOCK FALSE
