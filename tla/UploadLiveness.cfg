SPECIFICATION FairSpec
CONSTANTS
    None = None
    Uploads = {u1}
    Clients = {c1}
    TotalParts = 2
    Kills = FALSE
    MaxRestored = 2
PROPERTY DispatchedSettles
CHECK_DEADLOCK FALSE
