------------------------------ MODULE Accounts ------------------------------
(***************************************************************************)
(* Tenants, users and memberships as the API writes them                   *)
(* (endpoints/tenants.py, endpoints/users.py, services/iam/tenant.py,      *)
(* services/iam/user.py, services/base.py).  The services only flush, so a *)
(* request holds the locks of what it has written until get_db closes its  *)
(* session, and then leaves no trace; only UserService.create with         *)
(* autocommit keeps what it wrote.  What the requests do to each other is  *)
(* to wait, to fail on a unique value, or to deadlock.                     *)
(*                                                                         *)
(* The tables are the ones that the models declare or the ones that the    *)
(* migrations create.  The latter do not make the name of a tenant unique  *)
(* and have no table of roles, so what needs a role fails on them.         *)
(***************************************************************************)
EXTENDS Naturals

CONSTANTS
    Sessions,
    Tenants, Users,    \* ids
    Roles,
    Owner,             \* the tenant of a role, None for a global one
    Default,           \* a tenant's DEFAULT_ROLE_NAME role, None without one
    Memberships,       \* associations (user, role, tenant) that may exist
    Owned,             \* a tenant's API keys and invitations
    Scan,              \* the order in which the server scans memberships
    Cascade,           \* the order in which a tenant's rows are deleted
    Names, Slugs,      \* the unique values of a tenant
    Emails,            \* that of a user
    Directories,       \* the schema and the contents of the tables at the start
    Requests,          \* the requests that clients make
    MaxRequests,       \* bound on their number
    Null,              \* a unique column set to null
    None               \* no request, no id

Ids == Tenants \cup Users

Keys == Names \cup Slugs \cup Emails

\* The requests of an op, for a row, with the unique columns that they set.
Request(op, id, keys) ==
    [op : {op}, id : id, tenant : Tenants, keys : keys, autocommit : BOOLEAN]

\* A schema with one optional unique column, as exclude_unset leaves it.
Optional(values) == {<<>>} \cup {<<k>> : k \in values \cup {Null}}

\* POST /tenants/, PUT and DELETE /tenants/{id}.
TenantRequests ==
    Request("create", {None}, Names \X Slugs)
        \cup Request("update", Tenants, Optional(Names))
        \cup Request("delete", Tenants, {<<>>})

\* PUT /users/me, PATCH and DELETE /users/{id} in an active tenant, and
\* UserService.create.
UserRequests ==
    Request("update", Users, Optional(Emails))
        \cup Request("status", Users, {<<>>}) \cup Request("remove", Users, {<<>>})
        \cup Request("register", Users, {<<k>> : k \in Emails})

RolesOf(t) == {r \in Roles : Owner[r] = t}

\* The rows that go with a tenant.
Estate(t) ==
    Owned[t] \cup RolesOf(t) \cup {t} \cup {m \in Memberships : m[3] = t}

Children == UNION {Owned[t] : t \in Tenants}

\* A row is the set of its unique values, {} when there is none.
DirectoryType == [schema : {"models", "migrations"}, rows : [Ids -> SUBSET Keys],
                  members : SUBSET Memberships]

Values(keys) == {keys[k] : k \in DOMAIN keys}

\* The association that UserService.create makes.
NewMembership(r) == <<r.id, Default[r.tenant], r.tenant>>

\* The values that a schema makes unique.
Declared(sc) == IF sc = "models" THEN Keys ELSE Slugs \cup Emails

Distinct(table, values) ==
    \A i, j \in Ids : i # j => table[i] \cap table[j] \cap values = {}

ASSUME AccountsAssumption ==
    /\ Directories \subseteq DirectoryType
    /\ \A d \in Directories : /\ Distinct(d.rows, Declared(d.schema))
                             /\ \A m \in d.members : d.rows[m[1]] # {}
    /\ Requests \subseteq TenantRequests \cup UserRequests
    /\ Owner \in [Roles -> Tenants \cup {None}]
    /\ Default \in [Tenants -> Roles \cup {None}]
    /\ \A t \in Tenants : Default[t] \in RolesOf(t) \cup {None}
    /\ \A m \in Memberships : m \in Users \X Roles \X Tenants /\ Owner[m[2]] \in {m[3], None}
    /\ \A r \in Requests :
          r.op = "register" /\ Default[r.tenant] # None => NewMembership(r) \in Memberships
    /\ MaxRequests \in Nat
    /\ None \notin Requests \cup Ids \cup Roles

\* Rows and values are different things.
ASSUME ThingsAssumption ==
    /\ Tenants \cap Users = {} /\ Ids \cap Roles = {} /\ Ids \cap Memberships = {}
    /\ Roles \cap Memberships = {}
    /\ \A t, u \in Tenants : t # u => Owned[t] \cap Owned[u] = {}
    /\ Children \cap (Ids \cup Roles \cup Memberships) = {}
    /\ (Keys \cup {Null}) \cap (Ids \cup Roles \cup Memberships \cup Children) = {}
    /\ Names \cap Slugs = {} /\ (Names \cup Slugs) \cap Emails = {}
    /\ Null \notin Keys

\* The server scans the memberships in the same order every time.
ASSUME ScanAssumption ==
    /\ Scan \in [Memberships -> Nat]
    /\ \A m, n \in Memberships : Scan[m] = Scan[n] => m = n

\* The unit of work deletes row by row: keys and invitations, the roles, each
\* with its memberships, and the tenant, with the memberships that are left.
ASSUME CascadeAssumption ==
    \A t \in Tenants :
        /\ \A x, y \in Estate(t) : Cascade[x] \in Nat /\ (Cascade[x] = Cascade[y] => x = y)
        /\ \A x \in Owned[t], y \in Estate(t) \ Owned[t] : Cascade[x] < Cascade[y]
        /\ \A r \in RolesOf(t) : Cascade[r] < Cascade[t]
        /\ \A m \in Memberships :
              m[3] = t =>
                 IF Owner[m[2]] = t
                 THEN \A r \in RolesOf(t) \cup {t} :
                         Cascade[r] <= Cascade[m[2]] <=> Cascade[r] < Cascade[m]
                 ELSE Cascade[t] < Cascade[m]
        /\ \A m, n \in {k \in Memberships : k[3] = t} :
              m[2] = n[2] \/ (Owner[m[2]] = None /\ Owner[n[2]] = None) =>
                 (Cascade[m] < Cascade[n] <=> Scan[m] < Scan[n])

VARIABLES
    schema,            \* which definition of the tables the database has
    rows, members,     \* what is committed
    pc,
    req,               \* the request of a session
    todo,              \* the locks that its statements still need, and their places
    held,              \* the locks of its transaction
    issued             \* number of requests so far

tables == <<schema, rows, members>>
vars == <<schema, rows, members, pc, req, todo, held, issued>>

\* A lock on a row or on a new entry of a unique index: "share" is a foreign
\* key's, "flag" that of an update of other columns, "key" all the rest.
Things == Ids \cup Keys \cup Roles \cup Memberships \cup Children
Locks == Things \X {"share", "flag", "key"}

Conflict(a, b) ==
    /\ a[1] = b[1]
    /\ "key" \in {a[2], b[2]} \/ {a[2], b[2]} = {"flag"}

\* A lock that is held keeps another one waiting: a new entry also waits for
\* whoever writes the row that has the value now.
Blocks(b, a) ==
    \/ Conflict(a, b)
    \/ b[1] \in Ids /\ b[2] # "share" /\ a[1] \in rows[b[1]]

Points == {"idle", "check", "flush", "link"}

Init ==
    /\ \E d \in Directories :
          schema = d.schema /\ rows = d.rows /\ members = d.members
    /\ pc = [s \in Sessions |-> "idle"]
    /\ req = [s \in Sessions |-> None]
    /\ todo = [s \in Sessions |-> {}]
    /\ held = [s \in Sessions |-> {}]
    /\ issued = 0

-----------------------------------------------------------------------------
(* The unit of work *)

\* Model bound: the id of a new user is new.
IdIsFresh(r) ==
    r.op = "register" => /\ rows[r.id] = {}
                         /\ \A t \in Sessions : pc[t] # "idle" => req[t].id # r.id

Begin(s) ==
    /\ pc[s] = "idle"
    /\ issued < MaxRequests
    /\ issued' = issued + 1
    /\ \E r \in Requests :
          /\ IdIsFresh(r)
          /\ req' = [req EXCEPT ![s] = r]
    /\ pc' = [pc EXCEPT ![s] = "check"]
    /\ UNCHANGED <<tables, todo, held>>

\* Defect: the transaction stays open.
CloseLeaks(s) ==
    /\ pc' = [pc EXCEPT ![s] = "idle"]
    /\ todo' = [todo EXCEPT ![s] = {}]
    /\ req' = [req EXCEPT ![s] = None]
    /\ UNCHANGED <<held, issued>>

\* get_db closes the session after an answer or an error.
Close(s) ==
    /\ pc' = [pc EXCEPT ![s] = "idle"]
    /\ todo' = [todo EXCEPT ![s] = {}]
    /\ held' = [held EXCEPT ![s] = {}]
    /\ req' = [req EXCEPT ![s] = None]
    /\ UNCHANGED issued

RollBack(s) == Close(s) /\ UNCHANGED tables

\* A cancelled task, a lost connection, a crash.
Abort(s) == pc[s] # "idle" /\ RollBack(s)

\* Statements that take these locks, one after the other.
Flush(s, plan, point) ==
    /\ pc' = [pc EXCEPT ![s] = point]
    /\ todo' = [todo EXCEPT ![s] = plan]
    /\ UNCHANGED <<tables, req, held, issued>>

Entry(x, mode, place) == <<<<x, mode>>, place>>

\* The next lock of a session.
Nexts(s) == {e \in todo[s] : \A f \in todo[s] : e[2] <= f[2]}

Blockers(s) ==
    {t \in Sessions \ {s} : \E e \in Nexts(s), b \in held[t] : Blocks(b, e[1])}

\* What a unique index refuses: a value in use.
Taken(s, k) == \E i \in Ids \ {req[s].id} : k \in rows[i]

Lock(s) ==
    \E e \in Nexts(s) :
        /\ Blockers(s) = {}
        /\ ~ Taken(s, e[1][1])
        /\ held' = [held EXCEPT ![s] = @ \cup {e[1]}]
        /\ todo' = [todo EXCEPT ![s] = @ \ {e}]
        /\ UNCHANGED <<tables, pc, req, issued>>

\* IntegrityError.
Refuse(s) ==
    /\ \E e \in Nexts(s) : Taken(s, e[1][1])
    /\ Blockers(s) = {}
    /\ RollBack(s)

\* Sessions each of which waits for another one of them.
Cycle(D) == D # {} /\ \A s \in D : Blockers(s) \cap D # {}
Deadlocked(D) == Cycle(D) /\ \A E \in SUBSET D : Cycle(E) => E = D

\* PostgreSQL makes one of them fail.
BreakDeadlock(s) ==
    /\ Blockers(s) # {}
    /\ RollBack(s)
    /\ \E D \in SUBSET Sessions : s \in D /\ Deadlocked(D)

-----------------------------------------------------------------------------
(* The handlers *)

Handles(s, op) == pc[s] = "check" /\ req[s].op = op

\* Only the tables of the models include the roles.
HasRoles == schema = "models"

\* Defect: the email is not declared unique.
IndexedNotEmail == Declared(schema) \ Emails

\* The values with a unique index.
Indexed == Declared(schema)

NewEntries(keys) ==
    {Entry(keys[k], "key", k + 1) : k \in {j \in DOMAIN keys : keys[j] \in Indexed}}

\* 400 for a name in use; the rest is left to the constraints.
CreateTenant(s) ==
    /\ Handles(s, "create")
    /\ IF \E i \in Tenants : req[s].keys[1] \in rows[i]
       THEN RollBack(s)
       ELSE Flush(s, NewEntries(req[s].keys), "flush")

\* The row, and then the new value.
UpdatePlan(i, keys) ==
    {Entry(i, IF Values(keys) \cap Indexed = {} THEN "flag" ELSE "key", 1)}
        \cup NewEntries(keys)

\* An UPDATE when the request changes anything, its answer otherwise.  A null
\* is refused before the row is locked.
UpdateRow(s) ==
    LET r == req[s] IN
    IF Values(r.keys) \cap (rows[r.id] \cup {Null}) # {}
    THEN RollBack(s)
    ELSE Flush(s, UpdatePlan(r.id, r.keys), "flush")

\* 404 for a tenant that is not there.
UpdateTenant(s) ==
    /\ Handles(s, "update") /\ req[s].id \in Tenants
    /\ IF rows[req[s].id] = {} THEN RollBack(s) ELSE UpdateRow(s)

\* current_user is the row to update; 401 when there is none.
UpdateMe(s) ==
    /\ Handles(s, "update") /\ req[s].id \in Users
    /\ IF rows[req[s].id] = {} THEN RollBack(s) ELSE UpdateRow(s)

\* A membership that is not there is locked too; nobody else asks for it.
DeletePlan(t) == {Entry(x, "key", Cascade[x]) : x \in Estate(t)}

DeleteTenant(s) ==
    /\ Handles(s, "delete")
    /\ IF rows[req[s].id] # {} /\ HasRoles
       THEN Flush(s, DeletePlan(req[s].id), "flush")
       ELSE RollBack(s)

Associations(u, t) == {m \in members : m[1] = u /\ m[3] = t}

\* 404 for a user who is not in the tenant.
UpdateStatus(s) ==
    /\ Handles(s, "status")
    /\ IF HasRoles /\ Associations(req[s].id, req[s].tenant) # {}
       THEN Flush(s, {Entry(req[s].id, "flag", 1)}, "flush")
       ELSE RollBack(s)

RemovePlan(u, t) == {Entry(m, "key", Scan[m]) : m \in Associations(u, t)}

\* Defect: the associations are loaded into a set and deleted one by one.
RemoveFromTenantBySet(s) ==
    LET rest == Associations(req[s].id, req[s].tenant) IN
    /\ Handles(s, "remove")
    /\ IF HasRoles
       THEN \E order \in [rest -> {Scan[m] : m \in rest}] :
               /\ \A m, n \in rest : order[m] = order[n] => m = n
               /\ Flush(s, {Entry(m, "key", order[m]) : m \in rest}, "flush")
       ELSE RollBack(s)

\* One DELETE of the user's associations; 204 in any case.
RemoveFromTenant(s) ==
    /\ Handles(s, "remove")
    /\ IF HasRoles
       THEN Flush(s, RemovePlan(req[s].id, req[s].tenant), "flush")
       ELSE RollBack(s)

\* The handler answers, and nothing commits what it has flushed.
Answer(s) ==
    /\ pc[s] = "flush" /\ todo[s] = {}
    /\ req[s].op # "register"
    /\ RollBack(s)

-----------------------------------------------------------------------------
(* UserService.create *)

RegisterUser(s) ==
    /\ Handles(s, "register")
    /\ Flush(s, NewEntries(req[s].keys), "flush")

\* The foreign keys of the association; the user's row is the session's own.
LinkPlan(t) == {Entry(Default[t], "share", 3), Entry(t, "share", 4)}

\* The lookup of the default role: ValueError when the tenant has none, with
\* the user flushed and left to the caller.
DefaultRole(s) ==
    /\ pc[s] = "flush" /\ todo[s] = {}
    /\ req[s].op = "register"
    /\ IF HasRoles /\ Default[req[s].tenant] # None
       THEN Flush(s, LinkPlan(req[s].tenant), "link")
       ELSE RollBack(s)

\* Defect: the commit comes before the association.
ReturnUserEarly(s) ==
    /\ pc[s] = "link"
    /\ rows' = IF req[s].autocommit
               THEN [rows EXCEPT ![req[s].id] = Values(req[s].keys)] ELSE rows
    /\ UNCHANGED <<schema, members>>
    /\ Close(s)

\* Defect: role and tenant are swapped in the association.
ReturnUserSwapped(s) ==
    /\ pc[s] = "link" /\ todo[s] = {}
    /\ IF req[s].autocommit
       THEN /\ rows' = [rows EXCEPT ![req[s].id] = Values(req[s].keys)]
            /\ members' = members \cup
                  {<<req[s].id, req[s].tenant, Default[req[s].tenant]>>}
       ELSE UNCHANGED <<rows, members>>
    /\ UNCHANGED schema
    /\ Close(s)

\* The association is flushed; commit only if asked to.
ReturnUser(s) ==
    /\ pc[s] = "link" /\ todo[s] = {}
    /\ IF req[s].autocommit
       THEN /\ rows' = [rows EXCEPT ![req[s].id] = Values(req[s].keys)]
            /\ members' = members \cup {NewMembership(req[s])}
       ELSE UNCHANGED <<rows, members>>
    /\ UNCHANGED schema
    /\ Close(s)

-----------------------------------------------------------------------------

Handle(s) ==
    \/ CreateTenant(s) \/ UpdateTenant(s) \/ DeleteTenant(s)
    \/ UpdateMe(s) \/ UpdateStatus(s) \/ RemoveFromTenant(s) \/ Answer(s)
    \/ RegisterUser(s) \/ DefaultRole(s) \/ ReturnUser(s)

Next ==
    \E s \in Sessions :
        \/ Begin(s) \/ Handle(s) \/ Lock(s) \/ Refuse(s)
        \/ BreakDeadlock(s) \/ Abort(s)

Spec == Init /\ [][Next]_vars

\* The event loop runs every request that can go on; the server finishes every
\* statement that nobody blocks any more and breaks every deadlock.
Fairness ==
    \A s \in Sessions : /\ WF_vars(Handle(s)) /\ WF_vars(Lock(s) \/ Refuse(s))
                        /\ WF_vars(BreakDeadlock(s))

FairSpec == Spec /\ Fairness

-----------------------------------------------------------------------------
(* Properties *)

\* Types of the tables and of the sessions' requests and locks.
TypeOK ==
    /\ schema \in {"models", "migrations"}
    /\ rows \in [Ids -> SUBSET Keys]
    /\ members \in SUBSET Memberships
    /\ pc \in [Sessions -> Points]
    /\ req \in [Sessions -> Requests \cup {None}]
    /\ todo \in [Sessions -> SUBSET (Locks \X Nat)]
    /\ held \in [Sessions -> SUBSET Locks]
    /\ issued \in 0..MaxRequests

\* The new values that a request has flushed.
Written(s) ==
    {k \in Keys : /\ req[s] # None
                  /\ k \in Values(req[s].keys)
                  /\ <<k, "key">> \in held[s]}

\* A value that the schema declares unique is in one place: two committed rows
\* never share one, and what a request has flushed is in no other row and in no
\* other request's flush, so whoever commits first never collides.  On the
\* tables of the models that covers the tenant's name, whose check in
\* create_tenant is another statement than the insert; on the tables of the
\* migrations it does not, and two creations of one name both succeed.
UniqueValues ==
    /\ Distinct(rows, Declared(schema))
    /\ \A s \in Sessions : \A k \in Written(s) \cap Declared(schema) :
          /\ \A i \in Ids \ {req[s].id} : k \notin rows[i]
          /\ \A t \in Sessions \ {s} : k \notin Written(t)

Renames(s) == req[s].op = "update" /\ req[s].keys # <<>>

\* The removal t of a user with several roles in the tenant that s deletes.
Crosses(s, t) ==
    /\ req[s].op = "delete" /\ req[t].op = "remove"
    /\ req[t].tenant = req[s].id
    /\ \E m, n \in Associations(req[t].id, req[t].tenant) : m # n

\* Requests wait for each other in a ring for two reasons only: one of them
\* renames a tenant or changes an email, and holds its row while it waits for
\* the new value; or a tenant is deleted, role by role, while a member with
\* several roles is removed, in the order of the server's scan.  Nothing else
\* deadlocks: not creations, registrations and status changes, whatever they
\* write, nor two deletions, nor two removals.
RingsExplained ==
    \A D \in SUBSET Sessions :
        Cycle(D) => \/ \E s \in D : Renames(s)
                    \/ \E s, t \in D : Crosses(s, t)

\* A user is never committed without a tenant: the row appears together with
\* the membership in the default role of the tenant that the call names.  It
\* is what UserService.create promises to a caller that passes autocommit;
\* no caller in the repository does, and then nothing appears at all.
UsersComeWithMembership ==
    [][\A u \in Users :
          rows[u] = {} /\ rows'[u] # {} =>
              \E s \in Sessions : /\ pc[s] = "link" /\ req[s].id = u
                                  /\ NewMembership(req[s]) \in members' \ members]_vars

\* Every request is answered, although requests wait for each other's locks
\* until the session is closed, unless new requests keep coming that take the
\* same locks: then the server may pass over a waiter for ever.
EveryRequestEnds ==
    \A s \in Sessions : (pc[s] # "idle") ~> (pc[s] = "idle")
=============================================================================
