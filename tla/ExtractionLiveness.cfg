SPECIFICATION FairExtractionSpec
CONSTANTS
    u1 = u1
    d1 = d1
    Users = {u1}
    Datasets = {d1}
    Requests = {r1}
    Grants = {g1}
    Handlers = {h1}
    Sweepers = {h1}
    None = None
    RequestUser <- MCRequestUser
    RequestDataset <- MCRequestDataset
    Durations <- MCOneDuration
    MaxTime = 0
    MaxExpiry = 1
    Extractions = {e1}
    Clients = {c1}
    Runners = {k1}
    ChildKills = FALSE
PROPERTY DispatchedSettles
