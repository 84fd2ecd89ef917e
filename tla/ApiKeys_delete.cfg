SPECIFICATION Spec
CONSTANTS
    s1 = s1
    s2 = s2
    u1 = u1
    u2 = u2
    u3 = u3
    k1 = k1
    k2 = k2
    k3 = k3
    p1 = p1
    p2 = p2
    none = none
    Sessions = {s1, s2}
    Users = {u1, u2, u3}
    Superusers = {u2}
    ActiveUsers = {u1, u2}
    Keys = {k1, k2, k3}
    Prefixes = {p1, p2}
    Credentials <- MCCredentials
    Creates <- MCCreates
    Schemas = {"models", "migrations"}
    Tables <- MCTables
    None = none
    MaxTime = 2
    MaxRequests = 2
INVARIANTS
    DeletedKeyIsGone
CHECK_DEADLOCK FALSE
