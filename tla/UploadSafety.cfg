SPECIFICATION Spec
CONSTANTS
    None = None
    Uploads = {u1}
    Clients = {c1, c2, c3}
    TotalParts = 2
    Kills = TRUE
    MaxRestored = 1
INVARIANT UploadTypeOK
INVARIANT SessionsClosed
INVARIANT QueuedHasFile
INVARIANT LinkedCompleteIsQueryable
INVARIANT IngestedOnce
SYMMETRY Symmetry
CHECK_DEADLOCK FALSE
