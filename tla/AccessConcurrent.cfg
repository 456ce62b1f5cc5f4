SPECIFICATION Spec
CONSTANTS
    u1 = u1
    d1 = d1
    Users = {u1}
    Datasets = {d1}
    Requests = {r1, r2}
    Grants = {g1, g2}
    Handlers = {h1, h2}
    Sweepers = {h2}
    None = None
    RequestUser <- MCRequestUser
    RequestDataset <- MCRequestDataset
    Durations <- MCOneDuration
    MaxTime = 0
    MaxExpiry = 2
INVARIANT TypeOK
INVARIANT GrantTraceable
INVARIANT ApprovedHasGrant
INVARIANT DeletedLeavesNothing
PROPERTY RevocationFinal
SYMMETRY Symmetry
