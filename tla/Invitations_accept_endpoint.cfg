SPECIFICATION FairSpec
CONSTANTS
    s1 = s1
    s2 = s2
    i1 = i1
    i2 = i2
    i3 = i3
    e1 = e1
    u1 = u1
    u2 = u2
    none = none
    Sessions = {s1, s2}
    Invitations = {i1}
    Invitees = {e1}
    Users = {u1}
    Days = {1}
    None = none
    Operations = {"create", "accept_endpoint"}
    MaxClock = 1
INVARIANTS
    AcceptEndpointSucceeds
