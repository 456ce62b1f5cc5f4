SPECIFICATION Spec
CONSTANTS
    None = None
    oldCsv = oldCsv
    newTif = newTif
    newCsv = newCsv
    newNc = newNc
    newMat = newMat
    newStruct = newStruct
    Files = {oldCsv, newTif, newCsv, newNc, newMat, newStruct}
    Legacy = {oldCsv}
    Raw <- MCRaw
    Parsed <- MCParsed
    Seeded <- MCSeeded
    Others <- MCOthers
    Columns <- MCColumns
    Bounds <- MCBounds
    Datenums <- MCDatenums
    Project <- MCProject
    Filters <- MCFilters
    Criteria <- MCCriteria
    Parameters = {"temp", "sal"}
    TicksPerDay = 2
    DaysPerMonth = 2
    EpochDatenum = 100
    MaxDays = None
    MaxPoints = 4
    PreviewLimit = 3
    OutlierStddevs = 0
    GridResolution = 2
    SpatialSyncCells = 4
    Actors = {a1, a2}
    MaxIngested = 2
    MaxOperations = 2
    MaxEvents = 3
INVARIANT QueryTypeOK
INVARIANT CoverageFresh
INVARIANT TiersAgree
INVARIANT ReviewedIsAssigned
INVARIANT ChartsAgree
INVARIANT WithinScope
SYMMETRY Symmetry
CHECK_DEADLOCK FALSE
