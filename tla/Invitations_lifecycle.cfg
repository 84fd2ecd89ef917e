SPECIFICATION FairSpec
CONSTANTS
    s1 = s1
    s2 = s2
    i1 = i1
    i2 = i2
    i3 = i3
    e1 = e1
    u1 = u1
    u2 = u2
    none = none
    Sessions = {s1, s2}
    Invitations = {i1}
    Invitees = {e1}
    Users = {u1}
    Days = {0, 1}
    None = none
    Operations = {"create", "verify", "accept_endpoint", "accept", "revoke"}
    MaxClock = 2
INVARIANTS
    TypeOK
    RowsConsistent
    SuccessMeansWasOpen
    AcknowledgedIsClosed
PROPERTIES
    LifecycleHolds
    RelabelByOverlapOrDeadline
    ExpiryIsRecorded
