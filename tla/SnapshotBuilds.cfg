SPECIFICATION Spec
CONSTANTS
    Builders = {b1, b2}
    Viewers = {b2}
    Variables = {temp}
    Dates = {d1, d2}
    NoVariable = none
    NoRequest = norequest
    MaxVersion = 2
    MaxFaults = 1
INVARIANT SnapshotTypeOK
INVARIANT StampNotNewer
INVARIANT ServedIsCurrent
INVARIANT ServedChartFitsRequest
CHECK_DEADLOCK FALSE
SYMMETRY Symmetric
