SPECIFICATION FairSpec
CONSTANTS
    u1 = u1
    d1 = d1
    Users = {u1}
    Datasets = {d1}
    Requests = {r1}
    Grants = {g1}
    Handlers = {h1}
    Sweepers = {b1}
    None = None
    RequestUser <- MCRequestUser
    RequestDataset <- MCRequestDataset
    Durations <- MCDurations
    MaxTime = 2
    MaxExpiry = 2
PROPERTY SweepRevokes
