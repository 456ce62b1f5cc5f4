SPECIFICATION Spec
CONSTANTS
    None = None
    Handlers = {h1, h2}
    Users = {u1}
    Sessions = {}
    Roles = {plain, r1, r2}
    PlainRole = plain
    SystemRoles = {plain, r1, r2}
    Threshold = 0
    MaxChanges = 0
PROPERTY LockedChangeInSync
CHECK_DEADLOCK FALSE
