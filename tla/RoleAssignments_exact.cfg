SPECIFICATION FairSpec
CONSTANTS
    s1 = s1
    s2 = s2
    u1 = u1
    u2 = u2
    ghost = ghost
    Sessions = {s1, s2}
    Tenants = {t1, t2}
    Roles = {r1}
    Users = {u1, u2, ghost}
    KnownUsers = {u1, u2}
    Lists <- MCLists
    System = System
    Absent = Absent
    None = None
    MaxCalls = 3
PROPERTIES
    SetIsExact
CHECK_DEADLOCK FALSE
