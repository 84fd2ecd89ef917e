# VirtualStack in TLA+

VirtualStack is a FastAPI service over PostgreSQL that keeps the identity data of
a multi-tenant platform: users, tenants, roles, role assignments, invitations and
API keys. Requests run concurrently as tasks of an event loop; every request has
a database session and a transaction of its own (READ COMMITTED), and all the
state that outlives a request is in the tables. What is hard to test is therefore
how the SQL statements of two requests interleave, what a request still believes
about a row it read some awaits ago, and what is left when a request dies between
two statements.

Paths below are relative to `src/src/virtualstack/`.

## Inventory

| Component | State | Operations | Hard part | Correct when |
|---|---|---|---|---|
| Invitations (`services/iam/invitation.py`, `api/v1/endpoints/invitations.py`) | `iam.invitations`: status, expires_at, user_id | create, verify, accept, revoke | stale copies of a row in the identity map; check then insert; the clock | a closed invitation stays closed, answers stay true, columns agree |
| Role assignments (`services/iam/role.py`, `services/iam/user.py`, `endpoints/roles.py`, `endpoints/users.py`, `endpoints/tenant_user_management.py`) | `iam.user_tenant_roles` | set users of a role, delete a role, remove a user or one role | delete and insert in one transaction, row locks, cascades, missing commits | nobody has a role in a tenant where it cannot be used; the list asked for is the list stored |
| API keys (`services/iam/api_key.py`, `endpoints/api_keys.py`) | `iam.api_keys` | authenticate, create, read, update, delete | `last_used_at` written without a commit, row locks held by readers, two table definitions, expiry comparison | only good keys are accepted; `last_used_at` tells the truth; nobody hangs |
| Users, tenants (`services/iam/user.py`, `services/iam/tenant.py`, `endpoints/users.py`, `endpoints/tenants.py`) | `iam.users`, `iam.tenants`, memberships | create, update, delete, status, register | changes that are flushed and not committed, rows locked one by one, two table definitions, deadlocks | no user without a tenant; what the tables declare unique is unique; deadlocks are few, known and survived |
| Database session (`db/session.py`, `services/base.py`) | transaction, identity map | begin, flush, commit, rollback, close | no commit in `get_db` | nothing uncommitted survives a request, no lock does |
| Access control (`api/deps.py`, `api/middleware.py`) | none of its own | choose credential, tenant, permission | one statement per check, each with its own snapshot | a request passes only with the permission in that tenant |
| Login and tokens (`endpoints/auth.py`, `core/security.py`) | none; tokens are with the clients | login, check a token | deadlines | a request acts for the user of its credentials |
| Migrations (`alembic/env.py`, `alembic/versions/`) | the schema, `alembic_version`, seeded rows | upgrade, downgrade | several processes, one transaction, ids drawn per process | an upgrade brings everything, a downgrade takes exactly that away |
| Custom roles (`services/iam/role.py`) | `iam.roles`, `iam.role_permissions` | create, update, set permissions | two commits in one call | a role has the permissions it was created with, or does not exist |
| Rate limiter (`core/rate_limiter.py`) | a sorted set per key in Redis | one pipeline per request | unused | - |
| Start-up and seeding (`main.py`, `db/init_db.py`) | none | - | - | - |
| Configuration, schemas, routing | none at run time | - | - | - |

The components meet in the tables and in the session: the endpoints call the
services with the session that `get_db` made, a service may commit that session,
and `deps.py` reads users, roles and API keys through the same session before the
endpoint runs. There are no messages, background tasks or callbacks.

## Modules

| Module | What it is |
|---|---|
| `InvitationLifecycle` | abstract specification: the life of one invitation row |
| `Invitations` | the invitation service as concurrent sessions |
| `RoleAssignments` | the writers of `iam.user_tenant_roles` as transactions with row locks |
| `ApiKeys` | authentication with API keys and their endpoints, as transactions |
| `AccessDecision` | abstract specification: a permission decided at one instant |
| `TenantAccess` | login, credentials, active tenant, permission, and the user list behind them |
| `Accounts` | the handlers for tenants and users, with the locks of what they flush |
| `Migrations` | the revisions and the environment that runs them |
| `InvitationsProofs`, `RoleAssignmentsProofs`, `ApiKeysProofs`, `TenantAccessProofs`, `AccountsProofs`, `MigrationsProofs` | theorems about the module of that name |
| `MCInvitations`, `MCRoleAssignments`, `MCApiKeys`, `MCTenantAccess`, `MCAccounts`, `MCMigrations` | finite instances |

`Invitations` implements `InvitationLifecycle` and `TenantAccess` implements
`AccessDecision`. The components share tables, not calls: `TenantAccess` has the
commits of `RoleAssignments` and of `set_role_permissions` as its environment
(`Reassign`, `Regrant`), and `ApiKeys` has the authentication of `deps.py` as the
first statements of each of its requests.

Definitions introduced by "Defect:" in a module are variants of the next
definition as a plausible mistake would leave it. They are not part of the
specification; replacing the definition by its variant makes TLC report the
property named in `PROJECT.json`.

### Invitations

State: `status`, `invitee`, `expires` and `user` are the committed columns of
`iam.invitations`; `clock` is `datetime.utcnow`; per session `pc` is the await
the handler is at, `call` the request, `seen` the status of the object in the
session's identity map, `reply` the last answer. The fields `began` and
`statusThen` of a call are history (when it began, and the status then) and guide
no action.

One step is what happens between two awaits that reach the database. `Load` puts
the row into the identity map once; later reads of the handler see that copy.
`FlushStatus` is the UPDATE by primary key that SQLAlchemy emits for an attribute
that changed, so it overwrites what others committed. `verify_token` looks at the
deadline before the status and commits EXPIRED itself (`ExpireToken`);
`accept_invitation` and `revoke_invitation` stage a change and commit it in a
later step. `Abort` is a request that dies at any await; after the commit
(`Refresh` pending) the row has changed although the client sees an error.

The accept endpoint calls `user_service.create` without its required `tenant_id`,
so it fails with every valid token (a request without names even earlier, with a
400) and never reaches the service's `accept_invitation`. The model has both: `AcceptEndpoint` as it is, and the
service operation `accept` as other code of the application may call it.
`RevokeDenied` is the permission check of the endpoint, whose outcome depends on
tables outside the module and is a free choice.

### RoleAssignments

State: `owner` says for a role id which tenant it belongs to, or that it is a
system role, or that it does not exist; `assigned` is the committed table; per
session `pc`, `call`, the rows its DELETE chose (`want`), the rows it deleted and
inserted (`del`, `ins`), how many rows of the list its INSERT has taken (`taken`).
`late` is history: the rows that others committed (added or removed) since the
session's first snapshot that matters.

One step is one SQL statement, or the part of it on one side of a wait. At READ
COMMITTED a DELETE chooses rows from a snapshot and removes them when their locks
are free; a row deleted by another transaction meanwhile is skipped, a row
inserted meanwhile is not seen. `INSERT ... ON CONFLICT DO NOTHING` waits for
whoever holds the same key, row after row in the order of the list, and the
foreign keys are checked at the end of the statement. Deleting a role waits for
transactions that have checked its key and cascades. These rules of the database
are external to the repository; the map marks them so.

Removing a user from a tenant, or one role of a user, deletes rows and never
commits: `get_db` closes the session and the rows are back.
`assign_role_to_user_in_tenant` calls `role_service.get_role_by_id_and_tenant`,
which does not exist, so it raises before it writes and has no action here; users
created by `UserService.create` are flushed and not committed by the endpoint.
Roles exist from the start. Deleting one is the operation of the service: its
endpoint, like those that create and update roles, depends on
`require_permission`, whose last definition in `deps.py` has no body and returns
None, so the framework takes the annotated class for the dependency and no request
gets through.

### ApiKeys

State: `keys` is the committed table, `schema` says which of the two definitions of
the table is in place (the models make `key_prefix` unique and `expires_at` aware of
its zone, the migrations do neither), `known` the keys whose secret a client has.
Per session: `pc`, `req`, the user it acts for (`who`), the `last_used_at` it has
set (`stamp`), the rows it has locked (`held`), the row it is about to insert
(`new`). `uses`, `deleted` and `overlap` are history.

A request runs through the dependencies first: the token (`TokenUser`), the key
(`ValidateKey`: prefix, hash, active, deadline), the flush of `last_used_at` that
the refresh of the user relationship causes and that waits for the row
(`TouchKey`), the choice between token and key and the active user
(`CurrentUser`). An aware `expires_at` compared with a naive now raises, so with
the table of the models a key with a deadline is never accepted. Creation commits,
and its commit takes the `last_used_at` of the same session along (`Committed`); so
does the commit of any other handler that the key is used for, such as those of the
invitations (`CommitElsewhere`). Update and delete of a key flush and answer, and the
close rolls back what they wrote, with the `last_used_at` of their session.

### TenantAccess

State: the committed `assigned` and `grants`; per client its last `token`, and for
the request under way `pc`, `req`, `who`, the time of that check (`since`) and
what the handler has read (`list`). `changed` is history: the tenant of the request
got or lost members after its count.

One action per check, in the order in which the dependencies are resolved:
middleware (`Begin`), credentials and active user (`Authenticate`), tenant
(`ActiveTenant`), membership, permission. Each is a statement with a snapshot of
its own, and `Reassign` and `Regrant` may commit between any two. The handler is
`GET /users/`: count, page and role names are three more statements. Users are
numbers in the order of their email addresses. The queries are written
`select(exists())...`, which some servers refuse; `Outcomes` says whether they
answer, fail or may do either. Users do not become inactive: no request that
changes `is_active` commits.

A request comes with the token of its client, with an API key, with both or with
neither. `get_current_user` depends on both checks, so a bad token or a bad key
refuses the request whatever the other one is (`CredentialsGood`), and the user of
the token goes before that of the key (`CurrentUser`). What makes a key good is the
subject of `ApiKeys`; here `Secrets` says whose valid key came, or that it was not
valid.

### Accounts

State: which definition of the tables is in place (`schema`), the committed `rows`
(each as the set of its unique values: name and slug of a tenant, email of a user)
and `members`, the associations of a user, a role and a tenant; per session the
request, the locks that its statements still need, each with its place in their
order (`todo`), and the locks it has (`held`). Other columns have no effect on other
requests and are left out; whether an update touches a unique column decides the
mode of its lock. Names, slugs and emails (`Names`, `Slugs`, `Emails`) are entries of
different indexes and never meet. `TenantRequests` and `UserRequests` are the
requests that the schemas let through: a tenant is created with a name and a slug, an
update may leave its one unique column out or set it to null (`Optional`).

The two definitions differ (`Declared`, `HasRoles`): the model `Tenant` makes the name
unique, the table that the migrations create has a plain index on it, so that there
two creations of one name both succeed; and the migrations create `tenant_roles`
where the models have `roles` and `user_tenant_roles`, so that the handlers that
need those fail.

A handler checks, flushes, and answers. `Lock` takes the next lock when nobody is in
the way, `Refuse` is the `IntegrityError` for a value in use, `BreakDeadlock` the
victim the server chooses. Deleting a tenant goes through the ORM: its API keys and
invitations, then its roles, one row after the other, each taking the associations
of the role along, then the tenant with the associations that are left (`Estate`,
`DeletePlan`, with the order `Cascade`). Removing a user is one DELETE that locks the
user's associations in the tenant as the server scans them (`RemovePlan`, with the
order `Scan`). Both orders are constants, about which the assumptions say only what
the code and the server guarantee. An association shares the rows of its role and
tenant (`LinkPlan`). `UserService.create` flushes the user, looks for the default role
among the roles of the tenant, flushes the association and commits only with
`autocommit`, which no caller in the repository passes; all other handlers end in a
rollback. A value stays locked until its transaction ends, so a second insert of it
waits, and goes on or fails depending on that end.

### Migrations

State: the committed database `db` (version, objects, and which process's seed rows
are in it); per process `pc`, `target`, the database as its transaction sees it
(`view`), and what it has locked (`held`). A process connects and executes
`CREATE SCHEMA IF NOT EXISTS`, which opens the transaction; alembic reads the
version, runs revision after revision and updates the version; then the connection
is closed and the transaction rolled back. Each revision is what it creates and
drops, what its statements meet that makes them fail, and what they lock. The
initial database is empty, or has the schema and nothing else (so the tests prepare
it), or is at any revision with the traces that earlier downgrades can have left: the
SQL that the offline mode prints does commit.

## Runs

| Run | Bounds | Shows |
|---|---|---|
| `lifecycle` | 2 sessions, 1 invitation, clock to 2, deadlines 0 or 1 day, all five calls | types, `RowsConsistent`, `SuccessMeansWasOpen`, `AcknowledgedIsClosed`, refinement of `InvitationLifecycle`, `RelabelByOverlapOrDeadline`, and that a noticed expiry is recorded |
| `create_overlap` | 2 sessions, 3 invitations, create and revoke | overlapping creates leave at most as many active invitations as there are sessions |
| `revoke_race` | as `lifecycle`, create, verify and revoke | violation: a revocation overwrites an expiry committed since it loaded the row |
| `accept_endpoint` | 1 invitation | violation: accepting a valid token ends in a server error |
| `role_rows` | 2 sessions, 1 role, 2 tenants, 2 users and an unknown one, 6 lists, 3 requests | types, `AssignmentsAccessible`, `DeviationsAreLate`, `CascadeIsLate`, and that every call ends |
| `role_exact` | the same | violation: two overlapping calls leave more than the list |
| `api_keys` | 2 sessions, 2 requests, 3 users (a superuser, an inactive one), 3 keys, 2 prefixes, 2 tables, both schemas, clock to 2 | types, `AuthenticatedKeyValid`, `LastUsedIsTruthful`, `RegressOnlyByOverlap`, `LocksOnlyOwnKeys`, and that every request ends |
| `api_key_delete` | the same | violation: a deleted key is still there |
| `tenant_access` | 1 client, 2 users (a superuser), 2 tenants, 1 role, 1 permission, pages of one user, clock to 2, lifetime 1, with and without a token and a key | types, `RestsOnCredentials`, `PageIsConsistent`, refinement of `AccessDecision`, and that a revocation takes effect |
| `accounts` | 3 sessions, 3 requests out of 14, 2 tenants, 3 roles (one global), 3 users, both definitions of the tables | types, `UniqueValues`, `RingsExplained`, `UsersComeWithMembership`, and that every request ends |
| `migrations` | 2 processes, every start, every target | types, `CompleteBeforeClose`, `UpgradeFailsOnLeftovers`, `DowngradeIsExact`; the first and the last of the transaction before it is closed |
| `migration_persist` | 1 process, the same | violation: an upgrade to head of a database without tables leaves none |

Why the bounds are enough. The races this code is exposed to are between two
transactions. For the proved properties the number of sessions does not matter;
that every call ends is checked for two (for three in `accounts`), so longer rings of
waiting transactions are not reached. One invitation suffices for the life of a row because no call touches two;
the duplicate check needs three, one more than the sessions. A clock of 0..2 with
a deadline of 0 or 1 day meets before, at and after the deadline, and a call that
spans it. For the assignments three requests let one finish (so that there is
something to delete) and two overlap; the lists contain two in crossing order (a
deadlock), a shorter one, an empty one, a repeated user and an unknown user. The
theorems hold without any of these bounds.

For the keys, two requests suffice for every race the code has (use against use,
use against create, crossing deletions); a key with a deadline and a clock beyond
it, equal prefixes in both schemas, and credentials of each kind are among them.
Requests of different clients meet in `TenantAccess` only through the tables, which
change freely, so one client shows what many do; two tenants are needed for a
permission held elsewhere, two pages of one user for the boundaries of a page. The
requests of `accounts` contain two renames that exchange names, a name and a slug in
use, a null, one email that several requests ask for, a tenant without the default
role, and a user with three roles in the tenant that is
deleted, scanned in another order than the roles are deleted in; three sessions reach
rings of three. Two migrating
processes are a server starting beside another, or beside an operator.

`role_rows`, `api_keys`, `accounts` and `migrations` switch deadlock checking off:
the number of requests is bounded (`MaxCalls`, `MaxRequests`), a process runs one
command, and after the last of them the model really stops. `create_overlap` uses
symmetry of sessions and invitations, which is sound because it checks an invariant
only; runs with liveness use none.

Fairness. `WF_vars(Handle(s))`: the event loop resumes a task whose statement has
finished. Where locks are modelled the server grants a lock nobody holds any more
(`Lock`, `Refuse` in `Accounts`) and breaks a ring of waiting transactions
(`BreakDeadlock`, PostgreSQL's deadlock detection). In `RoleAssignments` and
`ApiKeys` `BreakDeadlock(s)` implies `Abort(s)`, so it adds no behaviour, only the
obligation. New requests, the clock, logins, commits of others and failures are not
fair. That every request ends holds for a bounded number of requests: a stream of
requests for the same lock could pass over one that waits.

## Proofs

All theorems hold for every value of the constants that satisfies the named
assumptions of the module, which TLC evaluates in every run:

- `InvitationsAssumption`, `RoleAssignmentsAssumption`, `ApiKeysAssumption`: NULL and
  other sentinels are distinct from data, bounds are numbers, known users are users.
  `SessionsFinite`: the connection pool bounds the sessions that are open at a time;
  only the bound on active invitations needs it.
- `TenantAccessAssumption`: the same, the set of users is finite, pages are numbered
  from 1 and the page size is a natural number (it may be 0).
- `AccountsAssumption`: the tables to start from satisfy their unique constraints and
  the foreign key from memberships to users; a role belongs to one tenant or is
  global, the default role of a tenant is one of its own, and a membership is in a
  role of its tenant or a global one; a request is one that the schemas let through.
  `ThingsAssumption`: rows and index entries are different things. `ScanAssumption`:
  the server scans the memberships in one order. `CascadeAssumption`: the deletion of
  a tenant goes through its keys and invitations, its roles each with its memberships,
  and the tenant, and a role's memberships are taken in the order of the scan.
- `MigrationsAssumption`: the process that seeded the initial database is not one of
  those that run.

`InvitationsProofs`. `RowsConsistent` and the statements about answers are not
inductive: a session writes what follows from the copy it loaded earlier.
`IndInv` adds, for each session, what that stale copy is still good for (a row
loaded closed is closed, a row loaded at all exists, an acceptance was staged
before the deadline), and for each answer already given what it stays good for.
The step is split in three: the rows only move forward (`RowsForward`), the
session that moves re-establishes its part (`OwnSession`), the others keep theirs
because rows only move forward (`OtherSessions`). From it follow type correctness,
`RowsConsistent`, `SuccessMeansWasOpen`, `AcknowledgedIsClosed`, the action
property `RelabelByOverlapOrDeadline` (a closed row changes its status only by a call
that was under way when it was closed, or by a token call past the deadline, however
late, which writes EXPIRED over any outcome), and `LifecycleRefined`: every commit is a step
of `InvitationLifecycle`, everything else a stutter.

`ActiveBoundedByConcurrency` counts, and needs an invariant of its own on top:
the active invitations of an invitee *plus* the sessions that are about to insert one
for him are at most the sessions (`BoundInv`). A duplicate check that finds nothing
starts the count anew (`CheckStartsAnew`: it compares with the time at which the call
began, which can only find more), an insert moves one from the one side to the
other (`InsertMoves`), and no other step adds to either side.

`RoleAssignmentsProofs`. Type correctness needs that a call that writes knows its
role and tenant (`TypeInv`). `IndInv` carries through the statements of a session
that its role has not changed hands, that the rows it inserts come from its list
and that their keys stay valid once they are checked (a deletion of the role waits
for them), and that every row of its role and tenant it has not dealt with, or of
its list it has not inserted, is `late`. The end of any transaction is treated once
(`EndForOthers`, `EndForSelf`). `CascadeIsLate` uses `AssignmentsAccessible`:
`check_role_assigned` looks at one tenant only, and that is enough because a
tenant's role can be assigned only there. The locks are not needed for these
results; they matter for `EveryCallEnds` only.

`ApiKeysProofs`. The table is written by commits only, that of a creation and that of
a handler elsewhere; what has to be carried to them is why its `last_used_at` is a use of that key and how
it can be older than the stored one. `IndInv` says of each session: a time it has
set belongs to a key that is still active and was in time, is recorded as a use,
and is older than the committed one only if another commit came in between
(`StampSound`); its pending row has an id of its own (`NewSound`); its locks are on
rows it presented or may manage (`HeldSound`). Steps that touch one session are
treated once (`OwnStepInv`, `FinishInv`, `GotoInv`), the commit separately
(`CommitInv`), because it changes what all sessions rely on.

`TenantAccessProofs`. `IndInv` ties a request beyond authentication to the token or
the key it was checked with, and a request beyond `ActiveTenant` to an existing tenant.
`DecisionRefined` maps the grant or denial of the two checks to one step of
`AccessDecision`: a grant is decided at the permission check; a denial at the
membership check is right there, because a permission needs a role
(`PermissionNeedsRole`); commits of others are changes of `allowed`, all other
steps stutter. `PageIsConsistent` rests on two things. `PageSize` is about `PageOf`
alone: the places of users sorted by email are distinct (`PlaceIncreases`), hence by
the pigeonhole principle every place from 1 to their number is taken
(`PlacesAreTaken`), hence a page has as many users as the places it covers. `ListInv`
says that what the three statements have read is what they would read now, as long
as no commit changed the members of the tenant since the count.

`AccountsProofs`. The table's own uniqueness does not follow from the table: the one
commit there is (`ReturnUser`) writes an email that was compared with the committed
rows some steps earlier. `IndInv` therefore describes how far every request is with
the locks of its statements (`PlanOf`, one case per handler; `Follows`: what it has
taken are the first locks of its plan), that no two transactions hold locks that are
in each other's way (`LocksExclusive`), that a value which a request has flushed
under a unique index is in no other row (`WrittenSound`), that the user being
registered is not there yet (`FreshSound`) and that members exist (`MembersExist`). All
steps that commit nothing are treated by one lemma (`OneSession`), `ReturnUser` by its
own. `RingsExplained`, for rings of any length, asks who in a ring holds something
while it waits (`RingMembers`). Without a rename, that is blocked only by a deletion, a
removal, or a registration that has shared a role (`BlockerKinds`). Such a
registration waits for the tenant, and whoever has the tenant has taken that role
before (`RegistrationOutOfRings`). Two deletions, or two removals, that meet take the
same locks in the same order (`SamePlanNoRing`). What is left is a deletion and a
removal that meet at an association, and the removal, which holds one association
and waits for another, is of a user with several (`DeletionMeetsRemoval`).
`UsersComeWithMembership` is the action property of the only commit.

`MigrationsProofs`. No process ever changes the committed database, so `IndInv` says
that it is one of those to start from (`DbSound`), and for each command that its view
is that database moved to the revision it has reached (`Reached`, which between the
statements of a revision and the update of the version is one ahead of the stored
version): on the way up everything the revisions up to it create (`UpSound`), on the
way down exactly that, with the stray table and the seeded rows beside it
(`DownSound`). `UpgradeMeetsNothing`
and `DowngradeInverts` are the facts about the eight revisions it needs. What blocks a
process does not matter for these results.

Model-checked only: liveness (`ExpiryIsRecorded`, `EveryCallEnds`, `EveryRequestEnds`
of `ApiKeys` and of `Accounts`, `RevocationBites`), which depends on fairness and
on when actions are enabled, beyond the prover. The invariants, action properties
and refinements that the passing runs check are all theorems.

## Disagreements between code and text

Shown by a run (`PROJECT.json` quotes the lines). A revocation can overwrite an
outcome that another request committed, although its comment says such a row is
returned as is; the accept endpoint cannot succeed, although a functional test
expects 200; the list of `set_users_for_role` is not exact under overlap; deleting an
API key answers 204 and deletes nothing, although a functional test expects a 404
afterwards; `alembic upgrade head` reports success and rolls everything back, although
the test fixture expects its tables. The first and the third are races; the others
happen every time. The test fixtures give all the requests of a test one session, so
they would show neither a race nor a missing commit.

Visible in the models, without a run of their own:

- Tenants, for the same reason as API keys. `POST /tenants/` answers 201,
  `DELETE /tenants/{id}` 204, and nothing commits (`Answer` in `Accounts` is a
  rollback). `tests/functional/test_tenants.py:44` says "Created tenant not found in
  list" and line 84 expects a 404 for the deleted tenant. Updates of tenants and users
  and the removal of a user from a tenant are lost in the same way.
- `alembic/versions/20240330_seed_permissions.py:224` says "Delete permissions by code";
  the statement after it passes a tuple for `IN`, which the driver cannot prepare, so
  no downgrade gets past that revision (`CanDowngrade`).
- `alembic/versions/20240330_create_iam_schema.py:30` says "Drop IAM schema"; the table
  of the version is in that schema, so alembic's update of the version fails
  afterwards and the command with it (`Stamp`).
- `scripts/run_migrations.sh:8` says that `downgrade -1` "Reverts the last migration".
  At head the last migration seeds rows, and its downgrade looks for ids that the
  process has just drawn: the rows stay (`Downgrade`), and the next upgrade to head
  fails on them (`UpgradeFailsOnLeftovers`). One revision further down, the downgrade
  creates a table `alembic_version` and so works once.

## Plan

1. `RolePermissions`, once `require_permission` has its body again: a role committed
   before its permissions, the name check and the retry after a failure.
2. Acceptance of an invitation with its role, once
   `assign_role_to_user_in_tenant` finds the method it calls: `Invitations` and
   `RoleAssignments` composed.

## Not modelled

Creating and updating custom roles, because no request reaches the code (above).
The rate limiter, because nothing calls it: the dependency of the login endpoint is
commented out. Start-up seeding: `init_db.seed_initial_data` does nothing, and
`scripts/seed_initial_data.py` imports names that do not exist. Password hashing,
JWT coding, hashing of API keys and e-mail delivery belong to libraries or are
stubs. Configuration, schemas and routing have no state that changes at run time.
Of the read-only endpoints only the paginated list of users is modelled, because it
reads in several statements; the others return what one query finds. Names,
descriptions, tokens and addresses are identities: no property depends on their
text.
