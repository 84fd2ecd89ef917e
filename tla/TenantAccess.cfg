SPECIFICATION FairSpec
CONSTANTS
    c1 = c1
    t1 = t1
    t2 = t2
    r1 = r1
    p1 = p1
    none = none
    refused = refused
    Clients = {c1}
    Users = {1, 2}
    Superusers = {2}
    ActiveUsers = {1, 2}
    Tenants = {t1, t2}
    Roles = {r1}
    Permissions = {p1}
    Pages = {1, 2}
    Limit = 1
    Outcomes = {"rows", "error"}
    Secrets = {1, refused, none}
    Refused = refused
    Lifetime = 1
    MaxTime = 2
    None = none
INVARIANTS
    TypeOK
    RestsOnCredentials
    PageIsConsistent
PROPERTIES
    DecisionHolds
    RevocationBites
