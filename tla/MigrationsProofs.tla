-------------------------- MODULE MigrationsProofs --------------------------
(***************************************************************************)
(* Proofs about Migrations, for every set of processes, every database to  *)
(* start from and every target.                                            *)
(***************************************************************************)
EXTENDS Migrations, TLAPS

-----------------------------------------------------------------------------
(* The inductive invariant *)

Stray == db.objects \cap {"stray"}
Prepared == db.objects \cap {"schema"}

\* The database that the processes find, as Init has it; none of them ever
\* changes it.
DbSound ==
    /\ db \in Databases
    /\ db.objects = CreatedBy(db.version) \cup Stray \cup Prepared
    /\ db.seeds \subseteq {Earlier}
    /\ db.version < 3 => Stray = {} /\ db.seeds = {}
    /\ db.version = Head => db.seeds = {Earlier}

\* The revision that the contents of a view are at: between upgrade() or
\* downgrade() and the update of the version they are one ahead of it.
Reached(p) ==
    IF pc[p] # "stamp" THEN view[p].version
    ELSE IF Upgrading(p) THEN view[p].version + 1 ELSE view[p].version - 1

\* On the way up the view has what the revisions run so far create, besides
\* the schema of env.py, and the seeded rows are of one process.
UpSound(p) ==
    LET w == Reached(p) IN
    /\ w \in db.version..target[p]
    /\ view[p].objects = CreatedBy(w) \cup {"schema"} \cup Stray
    /\ view[p].seeds = IF w = Head /\ db.version < Head THEN {p} ELSE db.seeds
    /\ w = Head /\ db.version < Head => db.seeds = {}

\* On the way down it has what the revisions left create, with the table that
\* 43ae6a20f723 leaves, and all the seeded rows.  The seed of the permissions
\* is never passed, and the version never gets to base.
DownSound(p) ==
    LET w == Reached(p) IN
    /\ w \in target[p]..db.version
    /\ view[p].objects =
          CreatedBy(w) \cup Stray \cup {x \in {"stray"} : w < 7 /\ 7 <= db.version}
    /\ w < 7 /\ 7 <= db.version => Stray = {}
    /\ view[p].seeds = db.seeds
    /\ db.version >= 3 => w >= 3
    /\ view[p].version >= 1

Viewing == {"read", "step", "stamp", "close", "done"}

ProcessSound(p) ==
    /\ pc[p] \in Viewing =>
          IF target[p] >= db.version THEN UpSound(p) ELSE DownSound(p)
    /\ pc[p] \in {"close", "done"} => view[p].version = target[p]
    /\ pc[p] = "read" => view[p].version = db.version
    /\ pc[p] = "stamp" => view[p].version # target[p]
    /\ pc[p] = "failed" /\ target[p] >= db.version =>
          target[p] = Head /\ db.version < Head /\ db.seeds # {}

IndInv ==
    /\ TypeOK
    /\ DbSound
    /\ \A p \in Processes : ProcessSound(p)

-----------------------------------------------------------------------------
(* What the revisions create *)

\* An upgrade of one revision adds what that revision creates.
LEMMA CreatedStep ==
    /\ CreatedBy(0) = {}
    /\ \A v \in 0..7 : CreatedBy(v + 1) = CreatedBy(v) \cup Creates[v + 1]
  <1>1. CreatedBy(0) = {}
    BY DEF CreatedBy
  <1>2. ASSUME NEW v \in 0..7
        PROVE  CreatedBy(v + 1) = CreatedBy(v) \cup Creates[v + 1]
    <2>1. 1..(v + 1) = (1..v) \cup {v + 1}
      OBVIOUS
    <2> QED
      BY <2>1 DEF CreatedBy
  <1> QED
    BY <1>1, <1>2

\* The objects of every revision, spelt out.
LEMMA CreatedValues ==
    /\ CreatedBy(0) = {}
    /\ CreatedBy(1) = {"schema", "uuid-ossp"}
    /\ CreatedBy(2) = {"schema", "uuid-ossp", "tables"}
    /\ CreatedBy(3) = {"schema", "uuid-ossp", "tables", "permissions"}
    /\ CreatedBy(4) = {"schema", "uuid-ossp", "tables", "permissions", "api_keys"}
    /\ \A v \in 5..8 :
          CreatedBy(v) = {"schema", "uuid-ossp", "tables", "permissions", "api_keys", "scope"}
  <1> USE DEF Creates
  <1>0. CreatedBy(0) = {}
    BY CreatedStep
  <1>1. CreatedBy(1) = {"schema", "uuid-ossp"}
    BY <1>0, CreatedStep
  <1>2. CreatedBy(2) = {"schema", "uuid-ossp", "tables"}
    BY <1>1, CreatedStep
  <1>3. CreatedBy(3) = {"schema", "uuid-ossp", "tables", "permissions"}
    BY <1>2, CreatedStep
  <1>4. CreatedBy(4) = {"schema", "uuid-ossp", "tables", "permissions", "api_keys"}
    BY <1>3, CreatedStep
  <1>5. CreatedBy(5) = {"schema", "uuid-ossp", "tables", "permissions", "api_keys", "scope"}
    BY <1>4, CreatedStep
  <1>6. CreatedBy(6) = CreatedBy(5)
    BY CreatedStep
  <1>7. CreatedBy(7) = CreatedBy(6)
    BY CreatedStep
  <1>8. CreatedBy(8) = CreatedBy(7)
    BY CreatedStep
  <1> QED
    BY <1>0, <1>1, <1>2, <1>3, <1>4, <1>5, <1>6, <1>7, <1>8

\* Every object is one of the last revision's, the schema is the first one's,
\* and the stray table is nobody's.
LEMMA CreatedBounds ==
    ASSUME NEW v \in 0..Head
    PROVE  /\ CreatedBy(v) \subseteq CreatedBy(Head)
           /\ "stray" \notin CreatedBy(v)
           /\ "schema" \in CreatedBy(v) <=> v >= 1
  <1>1. v \in {0, 1, 2, 3, 4} \/ v \in 5..8
    BY DEF Head
  <1> QED
    BY <1>1, CreatedValues DEF Head

\* No revision but the first meets what earlier ones, env.py or a downgrade of
\* 43ae6a20f723 have made.
LEMMA UpgradeMeetsNothing ==
    ASSUME NEW r \in Revisions, r # 1
    PROVE  Creates[r] \cap (CreatedBy(r - 1) \cup {"schema", "stray"}) = {}
  <1>1. r \in {2, 3, 4, 5} \/ r \in 6..8
    BY DEF Revisions, Head
  <1>2. r \in 6..8 => Creates[r] = {}
    BY DEF Creates
  <1> QED
    BY <1>1, <1>2, CreatedValues DEF Creates

\* A downgrade leaves what the revisions before it create, except that of the
\* permissions, which never runs to its end.
LEMMA DowngradeInverts ==
    ASSUME NEW r \in Revisions, r # 3, NEW X \in SUBSET {"stray"}
    PROVE  (CreatedBy(r) \cup X) \ Drops(r) = CreatedBy(r - 1) \cup X
  <1>1. r \in {1, 2, 4, 5} \/ r \in 6..8
    BY DEF Revisions, Head
  <1>2. CASE r \in 6..8
    <2>1. CreatedBy(r) = CreatedBy(r - 1)
      BY <1>2, CreatedValues
    <2>2. Drops(r) = {}
      BY <1>2 DEF Drops, Creates
    <2> QED
      BY <2>1, <2>2
  <1>3. CASE r = 1
    BY <1>3, CreatedValues DEF Drops, Creates
  <1>4. CASE r = 2
    BY <1>4, CreatedValues DEF Drops
  <1>5. CASE r = 4
    BY <1>5, CreatedValues DEF Drops, Creates
  <1>6. CASE r = 5
    BY <1>6, CreatedValues DEF Drops, Creates
  <1> QED
    BY <1>1, <1>2, <1>3, <1>4, <1>5, <1>6

\* The statements of a revision lock and create things of the database.
LEMMA RevisionTypes ==
    ASSUME NEW r \in Revisions
    PROVE  /\ Creates[r] \subseteq CreatedBy(Head)
           /\ Footprint(r) \subseteq Things
  <1>1. r \in {1, 2, 3, 4, 5, 6, 7, 8}
    BY DEF Revisions, Head
  <1>2. CreatedBy(Head) =
            {"schema", "uuid-ossp", "tables", "permissions", "api_keys", "scope"}
    BY CreatedValues DEF Head
  <1>3. Creates[r] \subseteq CreatedBy(Head)
    BY <1>1, <1>2 DEF Creates
  <1> QED
    BY <1>1, <1>2, <1>3 DEF Footprint, Things, Head

-----------------------------------------------------------------------------
(* Steps *)

\* What is known of a process depends on its own state, and on what no step
\* changes.
LEMMA Undisturbed ==
    ASSUME IndInv, NEW q \in Processes, UNCHANGED <<db, target>>,
           pc'[q] = pc[q], view'[q] = view[q]
    PROVE  ProcessSound(q)'
  <1>1. Reached(q)' = Reached(q) /\ Stray' = Stray
    BY DEF Reached, Upgrading, Stray
  <1>2. UpSound(q) => UpSound(q)'
    BY <1>1 DEF UpSound
  <1>3. DownSound(q) => DownSound(q)'
    BY <1>1 DEF DownSound
  <1> QED
    BY <1>2, <1>3 DEF IndInv, ProcessSound

\* A step of one process leaves what the others see.
LEMMA OneProcess ==
    ASSUME IndInv, NEW p \in Processes, TypeOK', UNCHANGED <<db, target>>,
           \A q \in Processes \ {p} : pc'[q] = pc[q] /\ view'[q] = view[q],
           ProcessSound(p)'
    PROVE  IndInv'
  <1>1. DbSound'
    BY DEF IndInv, DbSound, Stray, Prepared
  <1>2. ASSUME NEW q \in Processes, q # p
        PROVE  ProcessSound(q)'
    BY <1>2, Undisturbed
  <1> QED
    BY <1>1, <1>2 DEF IndInv

\* A command that gives up keeps its target, and a reason if it fails.
LEMMA RollbackInv ==
    ASSUME IndInv, NEW p \in Processes, NEW point \in {"failed", "lost"},
           Rollback(p, point),
           point = "failed" /\ target[p] >= db.version =>
              target[p] = Head /\ db.version < Head /\ db.seeds # {}
    PROVE  IndInv'
  <1>1. TypeOK'
    BY DEF IndInv, TypeOK, Rollback, Goto, Points, Running
  <1>2. pc'[p] = point /\ UNCHANGED <<db, target>>
    BY DEF IndInv, TypeOK, Rollback, Goto
  <1>3. ProcessSound(p)'
    BY <1>2 DEF ProcessSound, Viewing
  <1>4. \A q \in Processes \ {p} : pc'[q] = pc[q] /\ view'[q] = view[q]
    BY DEF IndInv, TypeOK, Rollback, Goto
  <1> QED
    BY <1>1, <1>2, <1>3, <1>4, OneProcess

\* A new command sees the committed database, and the schema that env.py makes.
LEMMA ConnectInv ==
    ASSUME IndInv, NEW p \in Processes, Connect(p)
    PROVE  IndInv'
  <1> DEFINE new == {"schema"} \ db.objects
             seen == [db EXCEPT !.objects = @ \cup new]
  <1>1. db \in Databases /\ target[p] \in 0..Head /\ DbSound
    BY DEF IndInv, TypeOK
  <1>2. /\ "schema" \in CreatedBy(Head)
        /\ db.version >= 1 => "schema" \in db.objects
    BY <1>1, CreatedBounds DEF DbSound, Databases, Head
  <1>3. /\ seen \in Databases
        /\ seen.version = db.version /\ seen.seeds = db.seeds
        /\ seen.objects = db.objects \cup {"schema"}
    BY <1>1, <1>2 DEF Databases
  <1>4. /\ pc'[p] = "read" /\ view'[p] = seen
        /\ UNCHANGED <<db, target>>
        /\ \A q \in Processes \ {p} : pc'[q] = pc[q] /\ view'[q] = view[q]
    BY DEF IndInv, TypeOK, Connect, Goto
  <1>5. TypeOK'
    <2>1. new \in SUBSET Things
      BY <1>2 DEF Things
    <2> QED
      BY <1>3, <2>1 DEF IndInv, TypeOK, Connect, Goto, Points, Running
  <1>6. Reached(p)' = db.version /\ Stray' = Stray
    BY <1>3, <1>4 DEF Reached, Stray
  <1>7. target[p] >= db.version => UpSound(p)'
    <2>1. seen.objects = CreatedBy(db.version) \cup {"schema"} \cup Stray
      BY <1>1, <1>3 DEF DbSound, Prepared
    <2> QED
      BY <1>1, <1>3, <1>4, <1>6, <2>1 DEF UpSound, DbSound, Databases, Head
  <1>8. target[p] < db.version => DownSound(p)'
    <2>1. SUFFICES ASSUME target[p] < db.version
                   PROVE  DownSound(p)'
      OBVIOUS
    <2>2. db.version >= 1
      BY <1>1, <2>1 DEF Databases, Head
    <2>3. "schema" \in CreatedBy(db.version)
      BY <1>1, <2>2, CreatedBounds DEF Databases
    <2>4. seen.objects = CreatedBy(db.version) \cup Stray
      BY <1>1, <1>3, <2>3 DEF DbSound, Prepared
    <2> QED
      BY <1>1, <1>3, <1>4, <1>6, <2>1, <2>2, <2>4 DEF DownSound, DbSound, Databases, Head
  <1>9. ProcessSound(p)'
    BY <1>1, <1>3, <1>4, <1>7, <1>8 DEF ProcessSound, Databases, Head
  <1> QED
    BY <1>4, <1>5, <1>9, OneProcess

\* A step that runs no revision and no update of the version keeps the view.
LEMMA MoveInv ==
    ASSUME IndInv, NEW p \in Processes, NEW point \in Viewing \ {"read", "stamp"},
           pc[p] \in Viewing \ {"stamp"}, Goto(p, point),
           UNCHANGED <<db, target, view>>, held' \in [Processes -> SUBSET Things],
           point \in {"close", "done"} => view[p].version = target[p]
    PROVE  IndInv'
  <1>1. /\ pc'[p] = point
        /\ \A q \in Processes \ {p} : pc'[q] = pc[q] /\ view'[q] = view[q]
    BY DEF IndInv, TypeOK, Goto
  <1>2. TypeOK'
    BY DEF IndInv, TypeOK, Goto, Points, Running, Viewing
  <1>3. Reached(p)' = Reached(p) /\ Stray' = Stray
    BY <1>1 DEF Reached, Stray
  <1>4. UpSound(p) => UpSound(p)'
    BY <1>3 DEF UpSound
  <1>5. DownSound(p) => DownSound(p)'
    BY <1>3 DEF DownSound
  <1>6. ProcessSound(p)'
    BY <1>1, <1>4, <1>5 DEF IndInv, ProcessSound, Viewing
  <1> QED
    BY <1>1, <1>2, <1>6, OneProcess

\* Reading alembic_version changes nothing but a lock.
LEMMA ReadVersionInv ==
    ASSUME IndInv, NEW p \in Processes, ReadVersion(p)
    PROVE  IndInv'
  <1>1. held' \in [Processes -> SUBSET Things]
    BY DEF IndInv, TypeOK, ReadVersion, Things
  <1> QED
    BY <1>1, MoveInv DEF ReadVersion, Viewing

\* A command whose version is its target has no revision left to run.
LEMMA ArrivedInv ==
    ASSUME IndInv, NEW p \in Processes, Arrived(p)
    PROVE  IndInv'
  BY MoveInv DEF Arrived, Viewing, IndInv, TypeOK

\* Closing the connection ends a command where it has arrived; its rollback
\* leaves the database as it was.
LEMMA CloseInv ==
    ASSUME IndInv, NEW p \in Processes, Close(p)
    PROVE  IndInv'
  <1>1. held' \in [Processes -> SUBSET Things]
    BY DEF IndInv, TypeOK, Close, Rollback
  <1>2. view[p].version = target[p]
    BY DEF IndInv, ProcessSound, Close
  <1> QED
    BY <1>1, <1>2, MoveInv DEF Close, Rollback, Viewing

\* A revision has run: the view is what it makes of it, and the version is
\* still the one before.
LEMMA RunInv ==
    ASSUME IndInv, NEW p \in Processes, NEW d \in Databases, NEW r \in Revisions,
           pc[p] = "step", d.version = view[p].version, d.version # target[p],
           view' = [view EXCEPT ![p] = d],
           held' = [held EXCEPT ![p] = @ \cup Footprint(r)],
           Goto(p, "stamp"), UNCHANGED <<db, target>>,
           IF target[p] >= db.version THEN UpSound(p)' ELSE DownSound(p)'
    PROVE  IndInv'
  <1>1. /\ pc'[p] = "stamp" /\ view'[p] = d
        /\ \A q \in Processes \ {p} : pc'[q] = pc[q] /\ view'[q] = view[q]
    BY DEF IndInv, TypeOK, Goto
  <1>2. TypeOK'
    BY RevisionTypes DEF IndInv, TypeOK, Goto, Points, Running
  <1>3. ProcessSound(p)'
    BY <1>1 DEF ProcessSound
  <1> QED
    BY <1>1, <1>2, <1>3, OneProcess

\* An upgrade runs, or meets the seeded rows that a downgrade has left.
LEMMA MigrateUpInv ==
    ASSUME IndInv, NEW p \in Processes, Migrate(p), target[p] >= db.version
    PROVE  IndInv'
  <1> DEFINE r == view[p].version + 1
             d == Upgrade(p, view[p], r)
  <1>1. /\ view[p] \in Databases /\ db \in Databases /\ target[p] \in 0..Head
        /\ view[p].version \in 0..Head /\ db.version \in 0..Head
        /\ pc[p] = "step" /\ view[p].version # target[p]
        /\ DbSound
    BY DEF IndInv, TypeOK, Migrate, Databases
  <1>2. UpSound(p) /\ Reached(p) = view[p].version
    BY <1>1 DEF IndInv, ProcessSound, Viewing, Reached
  <1>3. Upgrading(p) /\ NextRevision(p) = r /\ r \in Revisions /\ r <= target[p]
        /\ r - 1 = view[p].version /\ db.version < r
    BY <1>1, <1>2 DEF UpSound, Upgrading, NextRevision, Revisions, Head
  <1>4. view[p].objects = CreatedBy(r - 1) \cup {"schema"} \cup Stray
    BY <1>2, <1>3 DEF UpSound
  <1>5. r = 1 \/ Creates[r] \cap view[p].objects = {}
    BY <1>3, <1>4, UpgradeMeetsNothing DEF Stray
  <1>6. view[p].seeds = db.seeds
    BY <1>2, <1>3, <1>1 DEF UpSound, Revisions, Head
  <1>7. CASE CanUpgrade(view[p], r)
    <2>1. /\ d \in Databases /\ d.version = view[p].version
          /\ d.objects = view[p].objects \cup Creates[r]
          /\ d.seeds = IF r = Head THEN view[p].seeds \cup {p} ELSE view[p].seeds
      BY <1>1, <1>3, RevisionTypes DEF Upgrade, Databases
    <2>2. /\ view' = [view EXCEPT ![p] = d]
          /\ held' = [held EXCEPT ![p] = @ \cup Footprint(r)]
          /\ Goto(p, "stamp") /\ UNCHANGED <<db, target>>
      BY <1>3, <1>7 DEF Migrate
    <2>3. pc'[p] = "stamp" /\ view'[p] = d
      BY <2>2 DEF IndInv, TypeOK, Goto
    <2>4. Reached(p)' = r /\ Stray' = Stray
      BY <1>3, <2>1, <2>2, <2>3 DEF Reached, Upgrading, Stray
    <2>5. CreatedBy(r) = CreatedBy(r - 1) \cup Creates[r]
      <3>1. r - 1 \in 0..7 /\ (r - 1) + 1 = r
        BY <1>3 DEF Revisions, Head
      <3> QED
        BY <3>1, CreatedStep
    <2>6. d.objects = CreatedBy(r) \cup {"schema"} \cup Stray
      BY <1>4, <2>1, <2>5
    <2>7. r = Head => db.seeds = {} /\ d.seeds = {p}
      BY <1>6, <1>7, <2>1 DEF CanUpgrade
    <2>8. UpSound(p)'
      <3>1. r \in db.version..target[p] /\ db.version < Head
        BY <1>1, <1>3 DEF Revisions, Head
      <3>2. d.seeds = IF r = Head THEN {p} ELSE db.seeds
        BY <1>6, <2>1, <2>7
      <3> QED
        BY <2>2, <2>3, <2>4, <2>6, <2>7, <3>1, <3>2 DEF UpSound
    <2> QED
      BY <1>1, <1>3, <2>1, <2>2, <2>8, RunInv
  <1>8. CASE ~ CanUpgrade(view[p], r)
    <2>1. r = Head /\ db.seeds # {}
      BY <1>5, <1>6, <1>8 DEF CanUpgrade
    <2>2. Rollback(p, "failed")
      BY <1>3, <1>8 DEF Migrate
    <2>3. target[p] = Head /\ db.version < Head
      BY <1>1, <1>3, <2>1 DEF Head
    <2> QED
      BY <2>1, <2>2, <2>3, RollbackInv
  <1> QED
    BY <1>7, <1>8

\* A downgrade runs, except that of the permissions, and that of 43ae6a20f723
\* where it has run before.
LEMMA MigrateDownInv ==
    ASSUME IndInv, NEW p \in Processes, Migrate(p), target[p] < db.version
    PROVE  IndInv'
  <1> DEFINE r == view[p].version
             d == Downgrade(p, view[p], r)
             left == Stray \cup {x \in {"stray"} : r < 7 /\ 7 <= db.version}
  <1>1. /\ view[p] \in Databases /\ db \in Databases /\ target[p] \in 0..Head
        /\ r \in 0..Head /\ db.version \in 0..Head
        /\ pc[p] = "step" /\ r # target[p]
        /\ DbSound
    BY DEF IndInv, TypeOK, Migrate, Databases
  <1>2. DownSound(p) /\ Reached(p) = r
    BY <1>1 DEF IndInv, ProcessSound, Viewing, Reached, Head
  <1>3. ~ Upgrading(p) /\ NextRevision(p) = r /\ r \in Revisions
        /\ target[p] < r /\ r <= db.version
    BY <1>1, <1>2 DEF DownSound, Upgrading, NextRevision, Revisions, Head
  <1>4. view[p].objects = CreatedBy(r) \cup left /\ view[p].seeds = db.seeds
    BY <1>2 DEF DownSound
  <1>5. CASE CanDowngrade(view[p], r)
    <2>1. r # 3 /\ (r = 7 => "stray" \notin view[p].objects)
      BY <1>5 DEF CanDowngrade
    <2>2. /\ d.version = r
          /\ d.objects = IF r = 7 THEN view[p].objects \cup {"stray"}
                         ELSE view[p].objects \ Drops(r)
          /\ d.seeds = IF r = Head THEN view[p].seeds \ {p}
                       ELSE IF r <= 2 THEN {} ELSE view[p].seeds
      BY <1>1 DEF Downgrade, Databases
    <2>3. d \in Databases
      BY <1>1 DEF Downgrade, Databases
    <2>4. /\ view' = [view EXCEPT ![p] = d]
          /\ held' = [held EXCEPT ![p] = @ \cup Footprint(r)]
          /\ Goto(p, "stamp") /\ UNCHANGED <<db, target>>
      BY <1>3, <1>5 DEF Migrate
    <2>5. pc'[p] = "stamp" /\ view'[p] = d
      BY <2>4 DEF IndInv, TypeOK, Goto
    <2>6. Reached(p)' = r - 1 /\ Stray' = Stray
      BY <1>3, <2>2, <2>4, <2>5 DEF Reached, Upgrading, Stray
    <2>7. d.seeds = db.seeds
      <3>1. db.seeds \ {p} = db.seeds
        BY <1>1, MigrationsAssumption DEF DbSound
      <3>2. r <= 2 => db.seeds = {}
        <4>1. SUFFICES ASSUME r <= 2 PROVE db.version < 3
          BY <1>1 DEF DbSound
        <4>2. ~ (db.version >= 3)
          BY <1>1, <1>2, <4>1 DEF DownSound, Head
        <4> QED
          BY <1>1, <4>2 DEF Head
      <3> QED
        BY <1>4, <2>2, <3>1, <3>2
    <2>8. d.objects = CreatedBy(r - 1) \cup Stray
                        \cup {x \in {"stray"} : r - 1 < 7 /\ 7 <= db.version}
      <3>1. left \in SUBSET {"stray"}
        BY DEF Stray
      <3>2. CASE r = 7
        <4>1. CreatedBy(7) = CreatedBy(6)
          BY CreatedValues
        <4> QED
          BY <1>3, <1>4, <2>2, <3>2, <4>1 DEF Stray
      <3>3. CASE r # 7
        <4>1. d.objects = CreatedBy(r - 1) \cup left
          BY <1>3, <1>4, <2>1, <2>2, <3>1, <3>3, DowngradeInverts
        <4>2. (r < 7) <=> (r - 1 < 7)
          BY <1>1, <3>3 DEF Head
        <4> QED
          BY <4>1, <4>2
      <3> QED
        BY <3>2, <3>3
    <2>9. r - 1 < 7 /\ 7 <= db.version => Stray = {}
      <3>1. CASE r = 7
        BY <1>4, <2>1, <3>1 DEF Stray
      <3>2. CASE r < 7
        BY <1>2, <3>2 DEF DownSound
      <3>3. CASE r > 7
        BY <1>1, <3>3 DEF Head
      <3> QED
        BY <1>1, <3>1, <3>2, <3>3 DEF Head
    <2>10. DownSound(p)'
      <3>1. /\ r - 1 \in target[p]..db.version
            /\ db.version >= 3 => r - 1 >= 3
            /\ d.version >= 1
        BY <1>1, <1>2, <1>3, <2>1, <2>2 DEF DownSound, Revisions, Head
      <3> QED
        BY <2>4, <2>5, <2>6, <2>7, <2>8, <2>9, <3>1 DEF DownSound
    <2>11. ~ (target[p] >= db.version)
      BY <1>1 DEF Head
    <2> QED
      BY <1>1, <1>3, <2>2, <2>3, <2>4, <2>10, <2>11, RunInv
  <1>6. CASE ~ CanDowngrade(view[p], r)
    <2>1. Rollback(p, "failed")
      BY <1>3, <1>6 DEF Migrate
    <2> QED
      BY <1>1, <2>1, RollbackInv DEF Head
  <1> QED
    BY <1>5, <1>6

\* Running upgrade() or downgrade() of the next revision, or failing in it.
LEMMA MigrateInv ==
    ASSUME IndInv, NEW p \in Processes, Migrate(p)
    PROVE  IndInv'
  <1>1. target[p] >= db.version \/ target[p] < db.version
    BY DEF IndInv, TypeOK, Databases, Head
  <1> QED
    BY <1>1, MigrateUpInv, MigrateDownInv

\* The version follows the contents.  Only the downgrade of the first revision
\* has no table left to write it to.
LEMMA StampInv ==
    ASSUME IndInv, NEW p \in Processes, Stamp(p)
    PROVE  IndInv'
  <1> DEFINE w == Reached(p)
             d == [view[p] EXCEPT !.version = w]
  <1>1. /\ view[p] \in Databases /\ db \in Databases /\ target[p] \in 0..Head
        /\ db.version \in 0..Head /\ view[p].version \in 0..Head
        /\ pc[p] = "stamp" /\ DbSound /\ ProcessSound(p)
    BY DEF IndInv, TypeOK, Stamp, Databases
  <1>2. /\ target[p] >= db.version => UpSound(p)
        /\ target[p] < db.version => DownSound(p)
    BY <1>1 DEF ProcessSound, Viewing, Head
  <1>3. w \in 0..Head
    BY <1>1, <1>2 DEF UpSound, DownSound, Head
  <1>4. CASE "schema" \in view[p].objects
    <2>1. /\ view' = [view EXCEPT ![p] = d]
          /\ held' = [held EXCEPT ![p] = @ \cup {"version"}]
          /\ Goto(p, "step") /\ UNCHANGED <<db, target>>
      BY <1>1, <1>4 DEF Stamp, Reached
    <2>2. /\ d \in Databases /\ d.version = w
          /\ d.objects = view[p].objects /\ d.seeds = view[p].seeds
      BY <1>1, <1>3 DEF Databases
    <2>3. /\ pc'[p] = "step" /\ view'[p] = d
          /\ \A q \in Processes \ {p} : pc'[q] = pc[q] /\ view'[q] = view[q]
      BY <2>1 DEF IndInv, TypeOK, Goto
    <2>4. Reached(p)' = w /\ Stray' = Stray
      BY <2>1, <2>2, <2>3 DEF Reached, Stray
    <2>5. UpSound(p) => UpSound(p)'
      BY <2>1, <2>2, <2>3, <2>4 DEF UpSound
    <2>6. DownSound(p) => DownSound(p)'
      <3>1. SUFFICES ASSUME DownSound(p) PROVE DownSound(p)'
        OBVIOUS
      <3>2. "schema" \in CreatedBy(w)
        BY <1>4, <3>1 DEF DownSound, Stray
      <3>3. w >= 1
        BY <1>3, <3>2, CreatedBounds
      <3> QED
        BY <2>1, <2>2, <2>3, <2>4, <3>1, <3>3 DEF DownSound
    <2>7. ProcessSound(p)'
      BY <1>1, <1>2, <2>1, <2>3, <2>5, <2>6 DEF ProcessSound, Head
    <2>8. TypeOK'
      BY <2>1, <2>2 DEF IndInv, TypeOK, Goto, Points, Running, Things
    <2> QED
      BY <2>1, <2>3, <2>7, <2>8, OneProcess
  <1>5. CASE "schema" \notin view[p].objects
    <2>1. ~ (target[p] >= db.version)
      BY <1>2, <1>5 DEF UpSound
    <2>2. Rollback(p, "failed")
      BY <1>5 DEF Stamp
    <2> QED
      BY <2>1, <2>2, RollbackInv
  <1> QED
    BY <1>4, <1>5

\* A lost connection is a rollback.
LEMMA LoseInv ==
    ASSUME IndInv, NEW p \in Processes, Lose(p)
    PROVE  IndInv'
  BY RollbackInv DEF Lose

-----------------------------------------------------------------------------
(* The inductive invariant holds *)

\* The databases to start from are the ones that DbSound describes.
LEMMA InitInv == Init => IndInv
  <1> SUFFICES ASSUME Init PROVE IndInv
    OBVIOUS
  <1>1. PICK v \in 0..Head, stray \in SUBSET {"stray"}, seeds \in SUBSET {Earlier},
             prepared \in SUBSET {"schema"} :
            /\ v < 3 => stray = {} /\ seeds = {}
            /\ v = Head => seeds = {Earlier}
            /\ db = [version |-> v, objects |-> CreatedBy(v) \cup stray \cup prepared,
                     seeds |-> seeds]
    BY DEF Init
  <1>2. "stray" \notin CreatedBy(v) /\ CreatedBy(v) \subseteq CreatedBy(Head)
    BY CreatedBounds
  <1>3. Stray = stray
    BY <1>1, <1>2 DEF Stray
  <1>4. DbSound
    <2>1. "schema" \in CreatedBy(Head)
      BY CreatedBounds DEF Head
    <2>2. db \in Databases
      BY <1>1, <1>2, <2>1 DEF Databases
    <2>3. db.objects = CreatedBy(v) \cup stray \cup prepared
      BY <1>1
    <2>4. db.objects = CreatedBy(v) \cup Stray \cup Prepared
      BY <1>3, <2>3 DEF Prepared
    <2> QED
      BY <1>1, <1>3, <2>2, <2>4 DEF DbSound
  <1>5. TypeOK
    BY <1>4 DEF Init, TypeOK, DbSound, Points
  <1>6. \A p \in Processes : ProcessSound(p)
    BY DEF Init, ProcessSound, Viewing
  <1> QED
    BY <1>4, <1>5, <1>6 DEF IndInv

\* Every step of every process keeps the invariant.
LEMMA StepInv == IndInv /\ [Next]_vars => IndInv'
  <1> SUFFICES ASSUME IndInv, [Next]_vars
               PROVE  IndInv'
    OBVIOUS
  <1>1. CASE UNCHANGED vars
    <2>1. TypeOK' /\ DbSound'
      BY <1>1 DEF vars, IndInv, TypeOK, DbSound, Stray, Prepared
    <2>2. ASSUME NEW p \in Processes
          PROVE  ProcessSound(p)'
      BY <1>1, Undisturbed DEF vars
    <2> QED
      BY <2>1, <2>2 DEF IndInv
  <1>2. CASE Next
    <2>1. PICK p \in Processes :
              \/ Connect(p) \/ ReadVersion(p) \/ Arrived(p) \/ Migrate(p)
              \/ Stamp(p) \/ Close(p) \/ Lose(p)
      BY <1>2 DEF Next
    <2> QED
      BY <2>1, ConnectInv, ReadVersionInv, ArrivedInv, MigrateInv, StampInv,
         CloseInv, LoseInv
  <1> QED
    BY <1>1, <1>2

\* The database is as the processes found it, and every view is at the revision
\* its command has reached, in every reachable state.
THEOREM IndInvHolds == Spec => []IndInv
  BY InitInv, StepInv, PTL DEF Spec

-----------------------------------------------------------------------------
(* The theorems *)

\* Every command keeps its place, its view of the database and its locks
\* within their types, with any number of processes at once.
THEOREM TypeCorrect == Spec => []TypeOK
  <1>1. IndInv => TypeOK
    BY DEF IndInv
  <1> QED
    BY <1>1, IndInvHolds, PTL

\* At the end of its revisions, before its connection is closed, an upgrade
\* sees everything that its target is made of, and one default tenant at head
\* (the upgrade() of the eight revisions).
THEOREM CompleteBeforeCloseHolds == Spec => []CompleteBeforeClose
  <1>1. IndInv => CompleteBeforeClose
    <2> SUFFICES ASSUME IndInv, NEW p \in Processes, pc[p] = "close",
                        target[p] >= db.version
                 PROVE  /\ CreatedBy(target[p]) \subseteq view[p].objects
                        /\ target[p] = Head => \E q \in Processes \cup {Earlier} :
                                                   view[p].seeds = {q}
      BY DEF CompleteBeforeClose
    <2>1. UpSound(p) /\ Reached(p) = target[p]
      BY DEF IndInv, ProcessSound, Viewing, Reached
    <2>2. db.version \in 0..Head /\ (db.version = Head => db.seeds = {Earlier})
      BY DEF IndInv, DbSound, Databases
    <2> QED
      BY <2>1, <2>2 DEF UpSound, Head
  <1> QED
    BY <1>1, IndInvHolds, PTL

\* An upgrade fails only on seeded rows that a downgrade has left (the INSERTs of
\* b8f3acf95fa5), not on what env.py or the other revisions have made.
THEOREM UpgradeFailsOnLeftoversHolds == Spec => []UpgradeFailsOnLeftovers
  <1>1. IndInv => UpgradeFailsOnLeftovers
    BY DEF IndInv, ProcessSound, UpgradeFailsOnLeftovers
  <1> QED
    BY <1>1, IndInvHolds, PTL

\* At the end of its revisions, before its connection is closed, a downgrade
\* sees exactly what the revisions up to its target create, but for the stray
\* table (the downgrade() of the eight revisions).
THEOREM DowngradeIsExactHolds == Spec => []DowngradeIsExact
  <1>1. IndInv => DowngradeIsExact
    <2> SUFFICES ASSUME IndInv, NEW p \in Processes, pc[p] = "close",
                        target[p] < db.version
                 PROVE  view[p].objects \ {"stray"} = CreatedBy(target[p])
      BY DEF DowngradeIsExact
    <2>1. db.version \in 0..Head /\ target[p] \in 0..Head
      BY DEF IndInv, TypeOK, Databases
    <2>2. DownSound(p) /\ Reached(p) = target[p]
      BY <2>1 DEF IndInv, ProcessSound, Viewing, Reached, Head
    <2>3. "stray" \notin CreatedBy(target[p])
      BY <2>1, CreatedBounds
    <2> QED
      BY <2>2, <2>3 DEF DownSound, Stray
  <1> QED
    BY <1>1, IndInvHolds, PTL
=============================================================================
