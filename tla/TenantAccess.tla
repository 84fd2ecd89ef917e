---------------------------- MODULE TenantAccess ----------------------------
(***************************************************************************)
(* Login, and the requests that are checked against the active tenant      *)
(* (X-Tenant-ID): user, activity, tenant, membership and permission are    *)
(* five checks in separate statements (api/deps.py), and the list of users *)
(* that GET /users/ then reads takes three more (services/iam/user.py).    *)
(* Role assignments and role permissions change by the commits of other    *)
(* requests between any two of them; READ COMMITTED shows each statement   *)
(* the tables of its own instant.                                          *)
(***************************************************************************)
EXTENDS Integers, FiniteSets

CONSTANTS
    Clients,
    Users,         \* numbered in the order of their email
    Superusers,    \* users with is_superuser
    ActiveUsers,   \* users with is_active
    Tenants,
    Roles,
    Permissions,
    Pages,         \* values of page
    Limit,         \* items per page
    Outcomes,      \* what select(exists()) may do: "rows", "error"
    Secrets,       \* API keys that requests come with: the user of a valid
                   \* one, Refused for any other, None for no key
    Refused,
    Lifetime,      \* of a token
    MaxTime,       \* bound on the clock
    None

ASSUME TenantAccessAssumption ==
    /\ Users \subseteq Nat /\ IsFiniteSet(Users)
    /\ Superusers \subseteq Users /\ ActiveUsers \subseteq Users
    /\ Pages \subseteq Nat \ {0} /\ Limit \in Nat
    /\ Outcomes \subseteq {"rows", "error"}
    /\ Lifetime \in Nat /\ MaxTime \in Nat
    /\ None \notin Users \cup (Users \X Tenants \X Permissions)
    /\ Secrets \subseteq Users \cup {Refused, None} /\ Refused \notin Users
    /\ {None, "absent", "malformed"} \cap Tenants = {}

VARIABLES
    assigned,      \* iam.user_tenant_roles
    grants,        \* iam.role_permissions: <<role, permission>>
    clock,
    token,         \* [Clients -> the last token that the client was issued]
    pc,
    req,           \* the request of a client
    who,           \* its current_user
    since,         \* the time at which its credentials were checked
    list,          \* what its handler has read so far
    changed        \* clients whose tenant got or lost members during the list

vars == <<assigned, grants, clock, token, pc, req, who, since, list,
          changed>>

Assignments == [user : Users, role : Roles, tenant : Tenants]
Headers == Tenants \cup {None, "absent", "malformed"}
\* A request comes with the token of its client or not, and with an API key.
RequestsOf == [tenant : Headers, perm : Permissions, page : Pages,
               bearer : BOOLEAN, key : Secrets]
\* A token, and (for the properties only) the time of its login.
Tokens == [user : Users, exp : Nat, issued : Nat]
Lists == [total : Nat, items : SUBSET Users, named : SUBSET Users]
EmptyList == [total |-> 0, items |-> {}, named |-> {}]

Listing == {"count", "page", "names", "reply"}
Points == {"idle", "token", "tenant", "member", "permission", "denied",
           "failed", "rejected"} \cup Listing

Init ==
    /\ assigned \in SUBSET Assignments
    /\ grants \in SUBSET (Roles \X Permissions)
    /\ clock = 0
    /\ token = [c \in Clients |-> None]
    /\ pc = [c \in Clients |-> "idle"]
    /\ req = [c \in Clients |-> None]
    /\ who = [c \in Clients |-> None]
    /\ since = [c \in Clients |-> 0]
    /\ list = [c \in Clients |-> EmptyList]
    /\ changed = {}

-----------------------------------------------------------------------------
(* Commits of other requests *)

Members(rows, t) == {x.user : x \in {y \in rows : y.tenant = t}}

\* A commit of set_users_for_role: any change to the rows of a role in a tenant.
Reassign ==
    \E r \in Roles, t \in Tenants, users \in SUBSET Users :
        LET rows == {x \in assigned : x.role # r \/ x.tenant # t}
                      \cup [user : users, role : {r}, tenant : {t}]
        IN
        /\ assigned' = rows
        /\ changed' = changed \cup
              {c \in Clients : /\ pc[c] \in Listing \ {"count"}
                               /\ req[c].tenant = t
                               /\ Members(rows, t) # Members(assigned, t)}
        /\ UNCHANGED <<grants, clock, token, pc, req, who, since, list>>

\* A commit of set_role_permissions.
Regrant ==
    /\ \E r \in Roles, perms \in SUBSET Permissions :
          grants' = {g \in grants : g[1] # r} \cup ({r} \X perms)
    /\ UNCHANGED <<assigned, clock, token, pc, req, who, since, list,
                   changed>>

Tick ==
    /\ clock < MaxTime
    /\ clock' = clock + 1
    /\ UNCHANGED <<assigned, grants, token, pc, req, who, since, list,
                   changed>>

-----------------------------------------------------------------------------
(* POST /auth/token *)

\* The password of an active user; anything else is a 401 that changes nothing.
Login(c) ==
    /\ pc[c] = "idle"
    /\ \E u \in ActiveUsers :
          token' = [token EXCEPT ![c] =
                      [user |-> u, exp |-> clock + Lifetime, issued |-> clock]]
    /\ UNCHANGED <<assigned, grants, clock, pc, req, who, since, list, changed>>

-----------------------------------------------------------------------------
(* The checks *)

Goto(c, point) ==
    /\ pc' = [pc EXCEPT ![c] = point]
    /\ UNCHANGED <<assigned, grants, clock, token, req, list, changed>>

Stay == UNCHANGED <<who, since>>

\* The middleware answers 400 to a header that is no UUID.
Begin(c) ==
    /\ pc[c] = "idle"
    /\ \E r \in RequestsOf :
          /\ req' = [req EXCEPT ![c] = r]
          /\ pc' = [pc EXCEPT ![c] =
                      IF r.tenant = "malformed" THEN "rejected" ELSE "token"]
    /\ UNCHANGED <<assigned, grants, clock, token, who, since, list,
                   changed>>

SendsToken(c) == req[c].bearer /\ token[c] # None

\* get_current_user_from_token raises for a token past its last second,
\* get_current_user_from_api_key for a key that validate_api_key refuses.
\* Both run, whatever the other finds.
CredentialsGood(c) ==
    /\ SendsToken(c) => token[c].exp >= clock
    /\ req[c].key # Refused

\* Defect: the key is preferred to the token.
CurrentUserOfKey(c) ==
    IF req[c].key # None THEN req[c].key
    ELSE IF SendsToken(c) THEN token[c].user ELSE None

\* get_current_user: token_user or api_key_user.
CurrentUser(c) == IF SendsToken(c) THEN token[c].user ELSE req[c].key

\* The credentials, then get_current_active_user.
Authenticate(c) ==
    /\ pc[c] = "token"
    /\ \/ /\ CredentialsGood(c) /\ CurrentUser(c) \in ActiveUsers
          /\ Goto(c, "tenant")
          /\ who' = [who EXCEPT ![c] = CurrentUser(c)]
          /\ since' = [since EXCEPT ![c] = clock]
       \/ /\ ~ (CredentialsGood(c) /\ CurrentUser(c) \in ActiveUsers)
          /\ Goto(c, "rejected") /\ Stay

\* get_current_active_tenant up to the membership: 400 without a header, 404
\* without a tenant.
ActiveTenant(c) ==
    /\ pc[c] = "tenant"
    /\ Goto(c, IF req[c].tenant \in Tenants THEN "member" ELSE "rejected")
    /\ Stay

\* The roles of a user in a tenant.
RolesIn(u, t) == {x.role : x \in {y \in assigned : y.user = u /\ y.tenant = t}}

\* The join of assignments, role permissions and permissions.
HasPermission(u, t, p) == \E r \in RolesIn(u, t) : <<r, p>> \in grants

\* A check that superusers pass without a query; select(exists()) without a
\* table of its own may be refused by the database, which ends in a 500.
Check(c, holds, yes) ==
    /\ \/ /\ who[c] \in Superusers \/ ("rows" \in Outcomes /\ holds)
          /\ Goto(c, yes)
       \/ /\ who[c] \notin Superusers /\ "rows" \in Outcomes /\ ~ holds
          /\ Goto(c, "denied")
       \/ /\ who[c] \notin Superusers /\ "error" \in Outcomes
          /\ Goto(c, "failed")
    /\ Stay

\* The rest of get_current_active_tenant.
MemberCheck(c) ==
    /\ pc[c] = "member"
    /\ Check(c, RolesIn(who[c], req[c].tenant) # {}, "permission")

\* Defect: membership is taken for permission.
PermissionCheckMember(c) ==
    /\ pc[c] = "permission"
    /\ Check(c, RolesIn(who[c], req[c].tenant) # {}, "count")

\* Defect: the tenant is missing from the condition.
PermissionCheckAnyTenant(c) ==
    /\ pc[c] = "permission"
    /\ Check(c, \E t \in Tenants : HasPermission(who[c], t, req[c].perm), "count")

\* check_active_tenant_permission.
PermissionCheck(c) ==
    /\ pc[c] = "permission"
    /\ Check(c, HasPermission(who[c], req[c].tenant, req[c].perm), "count")

-----------------------------------------------------------------------------
(* GET /users/: the handler behind the checks *)

\* Step of the handler that reads something.
Read(c, result, point) ==
    /\ list' = [list EXCEPT ![c] = result]
    /\ pc' = [pc EXCEPT ![c] = point]
    /\ UNCHANGED <<assigned, grants, clock, token, req, who, since,
                   changed>>

\* Defect: the caller is left out, be he a member or not.
CountUsersOthers(c) ==
    /\ pc[c] = "count"
    /\ Read(c, [list[c] EXCEPT !.total =
                  Cardinality(Members(assigned, req[c].tenant)) - 1], "page")

\* The count of the distinct users.
CountUsers(c) ==
    /\ pc[c] = "count"
    /\ Read(c, [list[c] EXCEPT !.total =
                  Cardinality(Members(assigned, req[c].tenant))], "page")

\* Defect: the page begins one place too early.
PageOfEarly(users, page) ==
    {u \in users : Cardinality({v \in users : v <= u})
                      \in (page - 1) * Limit .. page * Limit}

\* Users from place (page - 1) * Limit on, at most Limit of them.
PageOf(users, page) ==
    {u \in users : Cardinality({v \in users : v <= u})
                      \in (page - 1) * Limit + 1 .. page * Limit}

PageUsers(c) ==
    /\ pc[c] = "page"
    /\ Read(c, [list[c] EXCEPT !.items =
                  PageOf(Members(assigned, req[c].tenant), req[c].page)], "names")

\* The names of the roles of the users on the page.
NameRoles(c) ==
    /\ pc[c] = "names"
    /\ Read(c, [list[c] EXCEPT !.named =
                  @ \cup (list[c].items \cap Members(assigned, req[c].tenant))],
            "reply")

\* The answer is sent and get_db closes the session.
Close(c) ==
    /\ pc[c] \in {"reply", "denied", "failed", "rejected"}
    /\ pc' = [pc EXCEPT ![c] = "idle"]
    /\ req' = [req EXCEPT ![c] = None]
    /\ who' = [who EXCEPT ![c] = None]
    /\ since' = [since EXCEPT ![c] = 0]
    /\ list' = [list EXCEPT ![c] = EmptyList]
    /\ changed' = changed \ {c}
    /\ UNCHANGED <<assigned, grants, clock, token>>

-----------------------------------------------------------------------------
Handle(c) ==
    \/ Authenticate(c) \/ ActiveTenant(c) \/ MemberCheck(c) \/ PermissionCheck(c)
    \/ CountUsers(c) \/ PageUsers(c) \/ NameRoles(c) \/ Close(c)

Next ==
    \/ \E c \in Clients : Login(c) \/ Begin(c) \/ Handle(c)
    \/ Reassign \/ Regrant \/ Tick

Spec == Init /\ [][Next]_vars

\* The event loop resumes a task whose statement has finished.
FairSpec == Spec /\ \A c \in Clients : WF_vars(Handle(c))

-----------------------------------------------------------------------------
(* Properties *)

\* Types of the tables and of the clients' requests.
TypeOK ==
    /\ assigned \subseteq Assignments
    /\ grants \subseteq Roles \X Permissions
    /\ clock \in Nat
    /\ token \in [Clients -> Tokens \cup {None}]
    /\ pc \in [Clients -> Points]
    /\ req \in [Clients -> RequestsOf \cup {None}]
    /\ who \in [Clients -> Users \cup {None}]
    /\ since \in [Clients -> Nat]
    /\ list \in [Clients -> Lists]
    /\ changed \subseteq Clients

Subjects == Users \X Tenants \X Permissions

Allowed == {x \in Subjects : x[1] \in Superusers \/ HasPermission(x[1], x[2], x[3])}

Subject(c) == <<who[c], req[c].tenant, req[c].perm>>

\* The question that the checks of a client are answering, and their answer.
Asked ==
    [c \in Clients |->
        IF pc[c] \in {"member", "permission", "denied", "failed"} \cup Listing
        THEN Subject(c) ELSE None]

Answered ==
    [c \in Clients |->
        IF pc[c] \in Listing THEN "granted"
        ELSE IF pc[c] \in {"denied", "failed"} THEN pc[c]
        ELSE "none"]

Decision ==
    INSTANCE AccessDecision
        WITH allowed <- Allowed, asked <- Asked, answer <- Answered

\* The five checks decide as one: a request is granted or denied exactly as the
\* permissions of its user in its tenant were at one instant, although they may
\* change between the membership check and the permission check.
DecisionHolds == Decision!Spec

\* A request that has passed authentication acts for one active user.  With a
\* token it is the user who logged in with the client, at most Lifetime before
\* the check, whoever's key came along; without one no login is needed, and it
\* is the user of the key.  A refused key never passes, not even with a token.
RestsOnCredentials ==
    \A c \in Clients :
        who[c] # None =>
            /\ who[c] \in ActiveUsers /\ req[c].key # Refused
            /\ IF SendsToken(c)
               THEN /\ token[c].user = who[c]
                    /\ since[c] - token[c].issued \in 0..Lifetime
               ELSE req[c].key = who[c]

\* Total, page and role names of an answer come from three statements: they fit
\* together unless a commit changed the members of the tenant after the count.
PageIsConsistent ==
    \A c \in Clients :
        pc[c] = "reply" /\ c \notin changed =>
            /\ Cardinality(list[c].items)
                  = Cardinality((req[c].page - 1) * Limit + 1
                                  .. (IF list[c].total < req[c].page * Limit
                                      THEN list[c].total
                                      ELSE req[c].page * Limit))
            /\ list[c].named = list[c].items

\* A permission that is taken away for good is, from some time on, used by no
\* request any more, however many requests the user keeps sending.
RevocationBites ==
    \A x \in Subjects :
        <>[](x \notin Allowed) =>
            <>[](\A c \in Clients : pc[c] \in Listing => Subject(c) # x)
=============================================================================
