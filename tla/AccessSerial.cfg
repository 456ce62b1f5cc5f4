SPECIFICATION Spec
CONSTANTS
    u1 = u1
    d1 = d1
    Users = {u1}
    Datasets = {d1}
    Requests = {r1, r2, r3}
    Grants = {g1, g2, g3}
    Handlers = {w1}
    Sweepers = {w1}
    None = None
    RequestUser <- MCRequestUser
    RequestDataset <- MCRequestDataset
    Durations <- MCDurations
    MaxTime = 1
    MaxExpiry = 2
INVARIANT OneGrantPerRequest
INVARIANT CounterMatches
PROPERTY ArchiveCascadeComplete
