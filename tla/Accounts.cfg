SPECIFICATION Spec
CONSTANTS
    None = None
    Handlers = {h1, h2}
    Users = {u1}
    Sessions = {s1}
    Roles = {r1, r2}
    PlainRole = plain
    SystemRoles = {r1}
    Threshold = 1
    MaxChanges = 1
INVARIANT AccountTypeOK
INVARIANT AdminIffAdminRole
INVARIANT SessionsFollowPassword
INVARIANT FailuresBounded
PROPERTY AnonymizedIsBare
PROPERTY RegistrySpec
SYMMETRY Symmetry
CHECK_DEADLOCK FALSE
