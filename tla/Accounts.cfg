SPECIFICATION FairSpec
CONSTANTS
    Sessions = {s1, s2, s3}
    t1 = t1
    t2 = t2
    u1 = u1
    u2 = u2
    u3 = u3
    r1 = r1
    r2 = r2
    rg = rg
    k1 = k1
    n1 = n1
    n2 = n2
    n3 = n3
    g1 = g1
    g2 = g2
    g3 = g3
    e1 = e1
    e2 = e2
    e3 = e3
    null = null
    none = none
    Tenants = {t1, t2}
    Users = {u1, u2, u3}
    Roles = {r1, r2, rg}
    Names = {n1, n2, n3}
    Slugs = {g1, g2, g3}
    Emails = {e1, e2, e3}
    MaxRequests = 3
    Null = null
    None = none
    Owner <- MCOwner
    Default <- MCDefault
    Memberships <- MCMemberships
    Owned <- MCOwned
    Scan <- MCScan
    Cascade <- MCCascade
    Directories <- MCDirectories
    Requests <- MCRequests
INVARIANTS
    TypeOK
    UniqueValues
    RingsExplained
PROPERTIES
    UsersComeWithMembership
    EveryRequestEnds
CHECK_DEADLOCK FALSE
