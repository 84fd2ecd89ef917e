----------------------------- MODULE Migrations -----------------------------
(***************************************************************************)
(* The eight revisions under alembic/versions and the environment that     *)
(* runs them (alembic/env.py).  Every start script runs `alembic upgrade   *)
(* head`, so several processes may run it at once; operators also          *)
(* downgrade.  A command is a process of its own: the ids of the rows that *)
(* it seeds are drawn when it loads the revisions.  run_migrations_online  *)
(* executes CREATE SCHEMA before it hands the connection to alembic and    *)
(* never commits: alembic leaves the transaction that is already open to   *)
(* the caller, and closing the connection rolls it back.                   *)
(***************************************************************************)
EXTENDS Naturals

CONSTANTS
    Processes,
    Earlier        \* a process that migrated the database in the past

ASSUME MigrationsAssumption == Earlier \notin Processes

\* The chain: 1 20240330_iam_schema, 2 20240330_iam_tables,
\* 3 20240330_seed_permissions, 4 20240330_create_api_keys,
\* 5 manual_add_scope_column, 6 ef986450914c, 7 43ae6a20f723, 8 b8f3acf95fa5.
Head == 8
Revisions == 1..Head

\* What the upgrade of a revision creates; the seeded tenant, its admin, role
\* and association (8) are known by the process whose ids they have.
Creates ==
    <<{"schema", "uuid-ossp"}, {"tables"}, {"permissions"}, {"api_keys"},
      {"scope"}, {}, {}, {}>>

CreatedBy(v) == UNION {Creates[r] : r \in 1..v}

\* "stray" is the table alembic_version outside the schema iam.
Databases ==
    [version : 0..Head, objects : SUBSET (CreatedBy(Head) \cup {"stray"}),
     seeds : SUBSET (Processes \cup {Earlier})]

VARIABLES
    db,            \* the committed database
    pc,
    target,        \* the revision that the command asks for, 0 for base
    view,          \* the database as the transaction of the process sees it
    held           \* what its transaction has written

vars == <<db, pc, target, view, held>>

Things == CreatedBy(Head) \cup {"seeds", "stray", "version"}
Running == {"read", "step", "stamp", "close"}
Points == Running \cup {"new", "done", "failed", "lost"}

\* The databases that a command may find: an empty one; the one that the tests
\* prepare, with the schema and no version; and one whose migrations an earlier
\* process has kept by other means than env.py, up or down.
Init ==
    /\ \E v \in 0..Head, stray \in SUBSET {"stray"}, seeds \in SUBSET {Earlier},
          prepared \in SUBSET {"schema"} :
          /\ v < 3 => stray = {} /\ seeds = {}
          /\ v = Head => seeds = {Earlier}
          /\ db = [version |-> v, objects |-> CreatedBy(v) \cup stray \cup prepared,
                   seeds |-> seeds]
    /\ pc = [p \in Processes |-> "new"]
    /\ target \in [Processes -> 0..Head]
    /\ view = [p \in Processes |-> db]
    /\ held = [p \in Processes |-> {}]

-----------------------------------------------------------------------------
(* env.py *)

Free(p, things) == \A q \in Processes \ {p} : held[q] \cap things = {}

Goto(p, point) == pc' = [pc EXCEPT ![p] = point]

\* CREATE SCHEMA IF NOT EXISTS, in a transaction that it begins.
Connect(p) ==
    LET new == {"schema"} \ db.objects IN
    /\ pc[p] = "new"
    /\ Free(p, new)
    /\ view' = [view EXCEPT ![p] = [db EXCEPT !.objects = @ \cup new]]
    /\ held' = [held EXCEPT ![p] = new]
    /\ Goto(p, "read")
    /\ UNCHANGED <<db, target>>

Rollback(p, point) ==
    /\ Goto(p, point)
    /\ held' = [held EXCEPT ![p] = {}]
    /\ UNCHANGED <<db, target, view>>

\* Alembic reads the version, and creates the table when there is none.
ReadVersion(p) ==
    LET new == IF db.version = 0 THEN {"version"} ELSE {} IN
    /\ pc[p] = "read"
    /\ Free(p, new)
    /\ held' = [held EXCEPT ![p] = @ \cup new]
    /\ Goto(p, "step")
    /\ UNCHANGED <<db, target, view>>

\* The connection is closed: the transaction is rolled back.
Close(p) == pc[p] = "close" /\ Rollback(p, "done")

\* A crash, a lost connection, the victim of a deadlock.
Lose(p) == pc[p] \in Running /\ Rollback(p, "lost")

-----------------------------------------------------------------------------
(* The revisions *)

\* Defect: the seeded tenant has no unique slug.
CanUpgradeTwice(d, r) == r = 1 \/ Creates[r] \cap d.objects = {}

\* Defect: the schema is created without IF NOT EXISTS.
CanUpgradeOnce(d, r) ==
    /\ Creates[r] \cap d.objects = {}
    /\ r = Head => d.seeds = {}

\* CREATE fails on what exists, and INSERT on the codes of the permissions,
\* the slug of the tenant and the email of the admin.
CanUpgrade(d, r) ==
    /\ r = 1 \/ Creates[r] \cap d.objects = {}
    /\ r = Head => d.seeds = {}

Upgrade(p, d, r) ==
    [d EXCEPT !.objects = @ \cup Creates[r],
              !.seeds = IF r = Head THEN @ \cup {p} ELSE @]

\* The DELETE of the permissions passes a tuple for IN, which asyncpg cannot
\* prepare; the revision 43ae6a20f723 creates a table in the default schema.
CanDowngrade(d, r) ==
    /\ r # 3
    /\ Creates[r] \subseteq d.objects
    /\ r = 7 => "stray" \notin d.objects

\* Defect: the table of the API keys is not dropped.
DropsNotKeys(r) ==
    CASE r = 2 -> {"tables", "permissions"} [] r = 4 -> {} [] OTHER -> Creates[r]

\* What the downgrade of a revision drops.
Drops(r) == IF r = 2 THEN {"tables", "permissions"} ELSE Creates[r]

\* The rows that were seeded are looked for by the ids of this process.
Downgrade(p, d, r) ==
    [d EXCEPT !.objects = IF r = 7 THEN @ \cup {"stray"} ELSE @ \ Drops(r),
              !.seeds = IF r = Head THEN @ \ {p} ELSE IF r <= 2 THEN {} ELSE @]

\* What the server locks for the statements of a revision, up or down.
Footprint(r) ==
    CASE r = 2 -> {"tables", "permissions", "seeds"}
      [] r = 4 -> {"tables", "api_keys"}
      [] r = 5 -> {"api_keys", "scope"}
      [] r = 7 -> {"stray"}
      [] r = Head -> {"tables", "seeds"}
      [] OTHER -> Creates[r]

Upgrading(p) == target[p] > view[p].version

\* The revision to run next, when there is one.
NextRevision(p) ==
    IF Upgrading(p) THEN view[p].version + 1 ELSE view[p].version

Arrived(p) ==
    /\ pc[p] = "step" /\ view[p].version = target[p]
    /\ Goto(p, "close")
    /\ UNCHANGED <<db, target, view, held>>

\* upgrade() or downgrade() of the next revision.
Migrate(p) ==
    LET r == NextRevision(p) IN
    /\ pc[p] = "step" /\ view[p].version # target[p]
    /\ Free(p, Footprint(r))
    /\ IF IF Upgrading(p) THEN CanUpgrade(view[p], r) ELSE CanDowngrade(view[p], r)
       THEN /\ view' = [view EXCEPT ![p] =
                           IF Upgrading(p) THEN Upgrade(p, @, r) ELSE Downgrade(p, @, r)]
            /\ held' = [held EXCEPT ![p] = @ \cup Footprint(r)]
            /\ Goto(p, "stamp")
            /\ UNCHANGED <<db, target>>
       ELSE Rollback(p, "failed")

\* Defect: the version is counted up after a downgrade too.
StampUp(p) ==
    /\ pc[p] = "stamp"
    /\ Free(p, {"version"})
    /\ view' = [view EXCEPT ![p].version = @ + 1]
    /\ held' = [held EXCEPT ![p] = @ \cup {"version"}]
    /\ Goto(p, "step")
    /\ UNCHANGED <<db, target>>

\* Alembic updates the version.  The downgrade of the first revision drops
\* the schema, and the table of the version with it.
Stamp(p) ==
    /\ pc[p] = "stamp"
    /\ Free(p, {"version"})
    /\ IF "schema" \in view[p].objects
       THEN /\ view' = [view EXCEPT ![p].version =
                           IF Upgrading(p) THEN @ + 1 ELSE @ - 1]
            /\ held' = [held EXCEPT ![p] = @ \cup {"version"}]
            /\ Goto(p, "step")
            /\ UNCHANGED <<db, target>>
       ELSE Rollback(p, "failed")

Next ==
    \E p \in Processes :
        \/ Connect(p) \/ ReadVersion(p) \/ Arrived(p) \/ Migrate(p)
        \/ Stamp(p) \/ Close(p) \/ Lose(p)

Spec == Init /\ [][Next]_vars

-----------------------------------------------------------------------------
(* Properties *)

\* Types of the database and of the commands' views and locks.
TypeOK ==
    /\ db \in Databases
    /\ pc \in [Processes -> Points]
    /\ target \in [Processes -> 0..Head]
    /\ view \in [Processes -> Databases]
    /\ held \in [Processes -> SUBSET Things]

\* An upgrade that has run its revisions and is about to close its connection
\* sees everything that its target is made of, and at head one default tenant,
\* whatever the database has been through.  It is what its own transaction
\* sees: Close rolls it back, and nothing here says that others will ever see
\* it (UpgradePersists says that they do not).
CompleteBeforeClose ==
    \A p \in Processes :
        pc[p] = "close" /\ target[p] >= db.version =>
            /\ CreatedBy(target[p]) \subseteq view[p].objects
            /\ target[p] = Head => \E q \in Processes \cup {Earlier} :
                                       view[p].seeds = {q}

\* An upgrade fails for one reason: the default tenant is there already, left
\* behind by a downgrade (the INSERTs of b8f3acf95fa5).  No revision trips over
\* what env.py, an earlier revision or an earlier downgrade has made.  Processes
\* that run at the same time make each other wait and never fail; that is so
\* because none of them commits.
UpgradeFailsOnLeftovers ==
    \A p \in Processes :
        pc[p] = "failed" /\ target[p] >= db.version =>
            target[p] = Head /\ db.version < Head /\ db.seeds # {}

\* A downgrade that has run its revisions and is about to close its connection
\* sees exactly the schema, tables, permissions, keys and column that the
\* revisions up to its target create: every downgrade() that runs to its end is
\* the inverse of its upgrade(), over any number of revisions.  Two things are
\* left out because the code does not undo them: the seeded rows of
\* b8f3acf95fa5 and the table that the downgrade of 43ae6a20f723 creates.
DowngradeIsExact ==
    \A p \in Processes :
        pc[p] = "close" /\ target[p] < db.version =>
            view[p].objects \ {"stray"} = CreatedBy(target[p])

\* README.md and tests/conftest.py: after `alembic upgrade head` the tables
\* are there.  They are not: env.py commits nothing.
UpgradePersists ==
    (\E p \in Processes : pc[p] = "done" /\ target[p] = Head)
        => "tables" \in db.objects
=============================================================================
