--------------------------- MODULE AccountsProofs ---------------------------
(***************************************************************************)
(* Proofs about Accounts, for every set of sessions, tenants, users, roles *)
(* and unique values, both definitions of the tables, every directory to   *)
(* start from, every set of requests and any bound on their number.        *)
(***************************************************************************)
EXTENDS Accounts, TLAPS

-----------------------------------------------------------------------------
(* The inductive invariant *)

\* The locks that the statements of a request take, with their places.
PlanOf(s) ==
    LET r == req[s] IN
    CASE r.op = "create"   -> NewEntries(r.keys)
      [] r.op = "update"   -> UpdatePlan(r.id, r.keys)
      [] r.op = "delete"   -> DeletePlan(r.id)
      [] r.op = "status"   -> {Entry(r.id, "flag", 1)}
      [] r.op = "remove"   -> RemovePlan(r.id, r.tenant)
      [] r.op = "register" -> NewEntries(r.keys) \cup
                                 (IF pc[s] = "link" THEN LinkPlan(r.tenant) ELSE {})

\* The locks that the session has taken are the first ones of its plan.
Follows(s) ==
    /\ todo[s] \subseteq PlanOf(s)
    /\ held[s] = {e[1] : e \in PlanOf(s) \ todo[s]}
    /\ \A e \in PlanOf(s) \ todo[s], f \in todo[s] : e[2] < f[2]

\* A removal that has found no association is done, whoever is added later.
Nothing(s) == req[s].op = "remove" /\ todo[s] = {} /\ held[s] = {}

PlanSound(s) ==
    /\ pc[s] = "idle" <=> req[s] = None
    /\ pc[s] \in {"idle", "check"} => todo[s] = {} /\ held[s] = {}
    /\ pc[s] \in {"flush", "link"} => Follows(s) \/ Nothing(s)
    /\ pc[s] = "link" => /\ req[s].op = "register"
                         /\ Default[req[s].tenant] # None

\* A value that a request has flushed is in no other row.
WrittenSound(s) ==
    \A k \in Written(s) : \A i \in Ids \ {req[s].id} : k \notin rows[i]

SessionSound(s) == PlanSound(s) /\ WrittenSound(s)

Registering(s) == pc[s] # "idle" /\ req[s].op = "register"

\* The user that a session registers is not there yet, and is its own.
FreshSound ==
    \A s \in Sessions :
        Registering(s) =>
            /\ rows[req[s].id] = {}
            /\ \A t \in Sessions \ {s} : Registering(t) => req[t].id # req[s].id

\* No two transactions hold locks that are in each other's way.
LocksExclusive ==
    \A s, t \in Sessions :
        s # t => \A a \in held[s], b \in held[t] : ~ Conflict(a, b)

MembersExist == \A m \in members : rows[m[1]] # {}

IndInv ==
    /\ TypeOK
    /\ Distinct(rows, Declared(schema))
    /\ MembersExist
    /\ FreshSound
    /\ LocksExclusive
    /\ \A s \in Sessions : SessionSound(s)

-----------------------------------------------------------------------------
(* Requests and plans *)

\* What the schemas say of a request.
LEMMA RequestShape ==
    ASSUME NEW r \in Requests
    PROVE  /\ r.tenant \in Tenants
           /\ r.op = "create" => r.id = None /\ \E n \in Names, g \in Slugs : r.keys = <<n, g>>
           /\ r.op = "update" =>
                 /\ r.id \in Ids
                 /\ r.keys = <<>> \/ \E k \in Keys \cup {Null} : r.keys = <<k>>
           /\ r.op = "delete" => r.id \in Tenants /\ r.keys = <<>>
           /\ r.op \in {"status", "remove"} => r.id \in Users /\ r.keys = <<>>
           /\ r.op = "register" => r.id \in Users /\ \E k \in Emails : r.keys = <<k>>
           /\ r.op \in {"create", "update", "delete", "status", "remove", "register"}
  <1>1. r \in TenantRequests \/ r \in UserRequests
    BY AccountsAssumption
  <1>2. CASE r \in Request("create", {None}, Names \X Slugs)
    BY <1>2 DEF Request
  <1>3. CASE r \in Request("update", Tenants, Optional(Names))
    BY <1>3 DEF Request, Optional, Keys, Ids
  <1>4. CASE r \in Request("delete", Tenants, {<<>>})
    BY <1>4 DEF Request
  <1>5. CASE r \in Request("update", Users, Optional(Emails))
    BY <1>5 DEF Request, Optional, Keys, Ids
  <1>6. CASE r \in Request("status", Users, {<<>>}) \cup Request("remove", Users, {<<>>})
    BY <1>6 DEF Request
  <1>7. CASE r \in Request("register", Users, {<<k>> : k \in Emails})
    BY <1>7 DEF Request
  <1> QED
    BY <1>1, <1>2, <1>3, <1>4, <1>5, <1>6, <1>7 DEF TenantRequests, UserRequests

\* The unique values that a request sets.
LEMMA ValuesValue ==
    /\ Values(<<>>) = {}
    /\ \A k : Values(<<k>>) = {k}
    /\ \A k, l : Values(<<k, l>>) = {k, l}
  BY DEF Values

\* Every slug and every email has a unique index, in both schemas.
LEMMA IndexedBounds ==
    Indexed \subseteq Keys /\ Slugs \subseteq Indexed /\ Emails \subseteq Indexed
  BY DEF Indexed, Declared, Keys

\* The new entries of no, one and two columns.
LEMMA NewEntriesValue ==
    /\ NewEntries(<<>>) = {}
    /\ \A k : NewEntries(<<k>>) \subseteq {Entry(k, "key", 2)}
    /\ \A k \in Indexed : NewEntries(<<k>>) = {Entry(k, "key", 2)}
    /\ \A k, l : NewEntries(<<k, l>>) \subseteq {Entry(k, "key", 2), Entry(l, "key", 3)}
    /\ \A k : \A e \in NewEntries(<<k>>) : e[1][1] \in Indexed
    /\ \A k, l : \A e \in NewEntries(<<k, l>>) : e[1][1] \in Indexed
  <1>1. DOMAIN <<>> = {} /\ (\A k : DOMAIN <<k>> = {1}) /\ \A k, l : DOMAIN <<k, l>> = {1, 2}
    OBVIOUS
  <1>2. NewEntries(<<>>) = {}
    BY <1>1 DEF NewEntries
  <1>3. ASSUME NEW k
        PROVE  /\ NewEntries(<<k>>) \subseteq {Entry(k, "key", 2)}
               /\ k \in Indexed => NewEntries(<<k>>) = {Entry(k, "key", 2)}
               /\ \A e \in NewEntries(<<k>>) : e[1][1] \in Indexed
    BY <1>1 DEF NewEntries, Entry
  <1>4. ASSUME NEW k, NEW l
        PROVE  /\ NewEntries(<<k, l>>) \subseteq {Entry(k, "key", 2), Entry(l, "key", 3)}
               /\ \A e \in NewEntries(<<k, l>>) : e[1][1] \in Indexed
    BY <1>1 DEF NewEntries, Entry
  <1> QED
    BY <1>2, <1>3, <1>4

\* A plan: locks at places of their own.
IsPlan(P) ==
    /\ P \subseteq Locks \X Nat
    /\ \A e, f \in P : e[2] = f[2] => e = f

\* Every thing of a request is one of the things that there are locks for.
LEMMA EntryType ==
    ASSUME NEW x \in Things, NEW mode \in {"share", "flag", "key"}, NEW n \in Nat
    PROVE  Entry(x, mode, n) \in Locks \X Nat
  BY DEF Entry, Locks

\* New entries are locks at places of their own, the second and the third.
LEMMA NewEntriesPlan ==
    ASSUME NEW r \in Requests
    PROVE  IsPlan(NewEntries(r.keys)) /\ \A e \in NewEntries(r.keys) : e[2] \in {2, 3}
  <1>1. r.keys = <<>> \/ (\E k : r.keys = <<k>>) \/ (\E k, l : r.keys = <<k, l>>)
    BY RequestShape
  <1>2. \A k \in Indexed : k \in Things
    BY IndexedBounds DEF Things
  <1>3. CASE r.keys = <<>>
    BY <1>3, NewEntriesValue DEF IsPlan
  <1>4. ASSUME NEW k, r.keys = <<k>>
        PROVE  IsPlan(NewEntries(r.keys)) /\ \A e \in NewEntries(r.keys) : e[2] \in {2, 3}
    <2>1. \A e \in NewEntries(r.keys) : e = Entry(k, "key", 2) /\ k \in Things
      <3>1. Entry(k, "key", 2)[1][1] = k
        BY DEF Entry
      <3> QED
        BY <1>2, <1>4, <3>1, NewEntriesValue
    <2>2. k \in Things => Entry(k, "key", 2) \in Locks \X Nat /\ Entry(k, "key", 2)[2] = 2
      BY EntryType DEF Entry
    <2> QED
      BY <2>1, <2>2 DEF IsPlan
  <1>5. ASSUME NEW k, NEW l, r.keys = <<k, l>>
        PROVE  IsPlan(NewEntries(r.keys)) /\ \A e \in NewEntries(r.keys) : e[2] \in {2, 3}
    <2> DEFINE a == Entry(k, "key", 2)
               b == Entry(l, "key", 3)
    <2>0. a[1][1] = k /\ b[1][1] = l /\ a[2] = 2 /\ b[2] = 3
      BY DEF Entry
    <2>1. /\ k \in Things => a \in Locks \X Nat
          /\ l \in Things => b \in Locks \X Nat
      BY EntryType
    <2>2. \A e \in NewEntries(r.keys) : e \in {a, b} /\ e[1][1] \in Things
      BY <1>2, <1>5, NewEntriesValue
    <2> HIDE DEF a, b
    <2> QED
      BY <2>0, <2>1, <2>2 DEF IsPlan
  <1> QED
    BY <1>1, <1>3, <1>4, <1>5

\* So are the row and the new value of an update.
LEMMA UpdatePlanSound ==
    ASSUME NEW r \in Requests, r.op = "update"
    PROVE  IsPlan(UpdatePlan(r.id, r.keys))
  <1> DEFINE mode == IF Values(r.keys) \cap Indexed = {} THEN "flag" ELSE "key"
             a == Entry(r.id, mode, 1)
  <1>1. a \in Locks \X Nat /\ a[2] = 1
    <2>1. r.id \in Things
      BY RequestShape DEF Things
    <2> QED
      BY <2>1, EntryType DEF Entry
  <1>2. UpdatePlan(r.id, r.keys) = {a} \cup NewEntries(r.keys)
    BY DEF UpdatePlan
  <1> HIDE DEF a
  <1> QED
    BY <1>1, <1>2, NewEntriesPlan DEF IsPlan

\* So are the rows of a tenant, in the order of the cascade.
LEMMA DeletePlanSound ==
    ASSUME NEW t \in Tenants
    PROVE  IsPlan(DeletePlan(t))
  <1>1. Estate(t) \subseteq Things
    BY DEF Estate, Things, Ids, RolesOf, Children
  <1>2. \A x, y \in Estate(t) : Cascade[x] \in Nat /\ (Cascade[x] = Cascade[y] => x = y)
    BY CascadeAssumption
  <1>3. ASSUME NEW e \in DeletePlan(t)
        PROVE  /\ e \in Locks \X Nat
               /\ \E x \in Estate(t) : e = Entry(x, "key", Cascade[x])
    BY <1>1, <1>2, EntryType DEF DeletePlan
  <1>4. ASSUME NEW e \in DeletePlan(t), NEW f \in DeletePlan(t), e[2] = f[2]
        PROVE  e = f
    <2>1. PICK x \in Estate(t) : e = Entry(x, "key", Cascade[x])
      BY <1>3
    <2>2. PICK y \in Estate(t) : f = Entry(y, "key", Cascade[y])
      BY <1>3
    <2>3. e[2] = Cascade[x] /\ f[2] = Cascade[y]
      BY <2>1, <2>2 DEF Entry
    <2> QED
      BY <1>2, <1>4, <2>1, <2>2, <2>3
  <1> QED
    BY <1>3, <1>4 DEF IsPlan

\* So are the associations of a removal, in the order of the scan.
LEMMA RemovePlanSound ==
    ASSUME TypeOK, NEW u, NEW t
    PROVE  IsPlan(RemovePlan(u, t))
  <1>1. Associations(u, t) \subseteq Memberships
    BY DEF Associations, TypeOK
  <1>2. ASSUME NEW e \in RemovePlan(u, t)
        PROVE  /\ e \in Locks \X Nat
               /\ \E m \in Memberships : e = Entry(m, "key", Scan[m])
    BY <1>1, ScanAssumption, EntryType DEF RemovePlan, Things
  <1>3. ASSUME NEW e \in RemovePlan(u, t), NEW f \in RemovePlan(u, t), e[2] = f[2]
        PROVE  e = f
    <2>1. PICK x \in Memberships : e = Entry(x, "key", Scan[x])
      BY <1>2
    <2>2. PICK y \in Memberships : f = Entry(y, "key", Scan[y])
      BY <1>2
    <2>3. e[2] = Scan[x] /\ f[2] = Scan[y]
      BY <2>1, <2>2 DEF Entry
    <2> QED
      BY <1>3, <2>1, <2>2, <2>3, ScanAssumption
  <1> QED
    BY <1>2, <1>3 DEF IsPlan

\* The association comes after the user's row.
LEMMA LinkPlanSound ==
    ASSUME NEW r \in Requests, r.op = "register", Default[r.tenant] # None
    PROVE  /\ IsPlan(LinkPlan(r.tenant))
           /\ IsPlan(NewEntries(r.keys) \cup LinkPlan(r.tenant))
           /\ \A e \in NewEntries(r.keys), f \in LinkPlan(r.tenant) : e[2] < f[2]
           /\ LinkPlan(r.tenant) \cap NewEntries(r.keys) = {}
  <1> DEFINE a == Entry(Default[r.tenant], "share", 3)
             b == Entry(r.tenant, "share", 4)
  <1>1. PICK k \in Emails : r.keys = <<k>>
    BY RequestShape
  <1>2. NewEntries(r.keys) = {Entry(k, "key", 2)} /\ Entry(k, "key", 2)[2] = 2
    BY <1>1, NewEntriesValue, IndexedBounds DEF Entry
  <1>3. r.tenant \in Tenants /\ Default[r.tenant] \in Roles
    BY RequestShape, AccountsAssumption
  <1>4. a \in Locks \X Nat /\ b \in Locks \X Nat /\ a[2] = 3 /\ b[2] = 4
    BY <1>3, EntryType DEF Things, Ids, Entry
  <1>5. LinkPlan(r.tenant) = {a, b}
    BY DEF LinkPlan
  <1> HIDE DEF a, b
  <1> QED
    BY <1>2, <1>4, <1>5, NewEntriesPlan DEF IsPlan

\* The locks of every request are locks, at places of their own.
LEMMA PlanOfSound ==
    ASSUME TypeOK, NEW s \in Sessions, req[s] \in Requests,
           pc[s] = "link" => req[s].op = "register" /\ Default[req[s].tenant] # None
    PROVE  IsPlan(PlanOf(s))
  <1> DEFINE r == req[s]
  <1>1. r.op \in {"create", "update", "delete", "status", "remove", "register"}
    BY RequestShape
  <1>2. CASE r.op = "create"
    BY <1>2, NewEntriesPlan DEF PlanOf
  <1>3. CASE r.op = "update"
    BY <1>3, UpdatePlanSound DEF PlanOf
  <1>4. CASE r.op = "delete"
    BY <1>4, RequestShape, DeletePlanSound DEF PlanOf
  <1>5. CASE r.op = "status"
    <2>1. r.id \in Things
      BY <1>5, RequestShape DEF Things, Ids
    <2>2. PlanOf(s) = {Entry(r.id, "flag", 1)}
      BY <1>5 DEF PlanOf
    <2> QED
      BY <2>1, <2>2, EntryType DEF IsPlan
  <1>6. CASE r.op = "remove"
    BY <1>6, RemovePlanSound DEF PlanOf
  <1>7. CASE r.op = "register"
    BY <1>7, NewEntriesPlan, LinkPlanSound DEF PlanOf
  <1> QED
    BY <1>1, <1>2, <1>3, <1>4, <1>5, <1>6, <1>7

-----------------------------------------------------------------------------
(* Steps that commit nothing *)

Rests(t) ==
    pc'[t] = pc[t] /\ req'[t] = req[t] /\ todo'[t] = todo[t] /\ held'[t] = held[t]

\* A plan depends on the request, and on the associations of a removal.
LEMMA PlanKept ==
    ASSUME NEW t \in Sessions, schema' = schema, req'[t] = req[t], pc'[t] = pc[t],
           req[t].op = "remove" =>
              Associations(req[t].id, req[t].tenant)' = Associations(req[t].id, req[t].tenant)
    PROVE  PlanOf(t)' = PlanOf(t)
  <1>1. Indexed' = Indexed
    BY DEF Indexed
  <1>2. NewEntries(req[t].keys)' = NewEntries(req[t].keys)
    BY <1>1 DEF NewEntries
  <1>3. UpdatePlan(req[t].id, req[t].keys)' = UpdatePlan(req[t].id, req[t].keys)
    BY <1>1, <1>2 DEF UpdatePlan
  <1>4. req[t].op = "remove" =>
            RemovePlan(req[t].id, req[t].tenant)' = RemovePlan(req[t].id, req[t].tenant)
    BY DEF RemovePlan
  <1>5. PlanOf(t)' =
            CASE req[t].op = "create"   -> NewEntries(req[t].keys)
              [] req[t].op = "update"   -> UpdatePlan(req[t].id, req[t].keys)
              [] req[t].op = "delete"   -> DeletePlan(req[t].id)
              [] req[t].op = "status"   -> {Entry(req[t].id, "flag", 1)}
              [] req[t].op = "remove"   -> RemovePlan(req[t].id, req[t].tenant)
              [] req[t].op = "register" -> NewEntries(req[t].keys) \cup
                    (IF pc[t] = "link" THEN LinkPlan(req[t].tenant) ELSE {})
    BY <1>2, <1>3, <1>4 DEF PlanOf, DeletePlan, LinkPlan
  <1> QED
    BY <1>5 DEF PlanOf

\* What is known of a session depends on its own state and on the tables.
LEMMA Undisturbed ==
    ASSUME NEW t \in Sessions, SessionSound(t), Rests(t), UNCHANGED tables
    PROVE  SessionSound(t)'
  <1> USE DEF Rests
  <1>0. schema' = schema /\ rows' = rows /\ members' = members
    BY DEF tables
  <1>1. PlanOf(t)' = PlanOf(t)
    BY <1>0, PlanKept DEF Associations
  <1>2. Follows(t) => Follows(t)'
    BY <1>1 DEF Follows
  <1>3. Nothing(t) => Nothing(t)'
    BY DEF Nothing
  <1>4. PlanSound(t)'
    BY <1>2, <1>3 DEF SessionSound, PlanSound
  <1>5. Written(t)' = Written(t)
    BY DEF Written
  <1>6. WrittenSound(t)'
    BY <1>0, <1>5 DEF SessionSound, WrittenSound
  <1> QED
    BY <1>4, <1>6 DEF SessionSound

\* Two locks are in each other's way, or neither is.
LEMMA ConflictSymmetric == \A a, b : Conflict(a, b) <=> Conflict(b, a)
  BY DEF Conflict

\* A step of one session that commits nothing disturbs no other session.
LEMMA OneSession ==
    ASSUME IndInv, NEW s \in Sessions, UNCHANGED tables, TypeOK',
           \A t \in Sessions \ {s} : Rests(t),
           SessionSound(s)',
           Registering(s)' =>
              \/ Registering(s) /\ req'[s] = req[s]
              \/ /\ rows[req'[s].id] = {}
                 /\ \A t \in Sessions \ {s} : Registering(t) => req[t].id # req'[s].id,
           \A t \in Sessions \ {s} : \A a \in held'[s], b \in held[t] : ~ Conflict(a, b)
    PROVE  IndInv'
  <1>1. Distinct(rows, Declared(schema))' /\ MembersExist'
    BY DEF IndInv, Distinct, MembersExist, Declared, tables
  <1>2. \A t \in Sessions : SessionSound(t)'
    BY Undisturbed DEF IndInv
  <1>3. \A t \in Sessions \ {s} : Registering(t)' <=> Registering(t)
    BY DEF Registering, Rests
  <1>4. /\ Registering(s)' => rows[req'[s].id] = {}
        /\ \A t \in Sessions \ {s} :
              Registering(s)' /\ Registering(t) => req[t].id # req'[s].id
    BY DEF IndInv, FreshSound
  <1>5. FreshSound'
    BY <1>3, <1>4 DEF IndInv, FreshSound, Rests, tables
  <1>6. LocksExclusive'
    BY ConflictSymmetric DEF IndInv, LocksExclusive, Rests
  <1> QED
    BY <1>1, <1>2, <1>5, <1>6 DEF IndInv

\* The session that is closed has nothing left.
LEMMA CloseEffect ==
    ASSUME IndInv, NEW s \in Sessions, Close(s)
    PROVE  /\ pc'[s] = "idle" /\ req'[s] = None /\ todo'[s] = {} /\ held'[s] = {}
           /\ \A t \in Sessions \ {s} : Rests(t)
           /\ SessionSound(s)'
           /\ pc' \in [Sessions -> Points] /\ issued' = issued
           /\ req' \in [Sessions -> Requests \cup {None}]
           /\ todo' \in [Sessions -> SUBSET (Locks \X Nat)]
           /\ held' \in [Sessions -> SUBSET Locks]
  <1>1. /\ pc'[s] = "idle" /\ req'[s] = None /\ todo'[s] = {} /\ held'[s] = {}
        /\ \A t \in Sessions \ {s} : Rests(t)
    BY DEF IndInv, TypeOK, Close, Rests
  <1>2. /\ pc' \in [Sessions -> Points] /\ issued' = issued
        /\ req' \in [Sessions -> Requests \cup {None}]
        /\ todo' \in [Sessions -> SUBSET (Locks \X Nat)]
        /\ held' \in [Sessions -> SUBSET Locks]
    BY DEF IndInv, TypeOK, Close, Points
  <1>3. PlanSound(s)'
    BY <1>1 DEF PlanSound
  <1>4. Written(s)' = {}
    BY <1>1 DEF Written
  <1>5. WrittenSound(s)'
    BY <1>4 DEF WrittenSound
  <1> QED
    BY <1>1, <1>2, <1>3, <1>5 DEF SessionSound

\* A session that is rolled back holds no lock and relies on nothing.
LEMMA RollBackInv ==
    ASSUME IndInv, NEW s \in Sessions, RollBack(s)
    PROVE  IndInv'
  <1>1. Close(s) /\ UNCHANGED tables
    BY DEF RollBack
  <1>2. TypeOK'
    BY <1>1, CloseEffect DEF IndInv, TypeOK, tables
  <1>3. ~ Registering(s)' /\ held'[s] = {}
    BY <1>1, CloseEffect DEF Registering
  <1> QED
    BY <1>1, <1>2, <1>3, CloseEffect, OneSession

\* A request that arrives has done nothing; a registration has an id of its own.
LEMMA BeginInv ==
    ASSUME IndInv, NEW s \in Sessions, Begin(s)
    PROVE  IndInv'
  <1>1. PICK r \in Requests : IdIsFresh(r) /\ req' = [req EXCEPT ![s] = r]
    BY DEF Begin
  <1>2. /\ pc'[s] = "check" /\ req'[s] = r /\ r # None
        /\ todo'[s] = {} /\ held'[s] = {}
        /\ \A t \in Sessions \ {s} : Rests(t)
        /\ UNCHANGED tables
    BY <1>1, AccountsAssumption
       DEF IndInv, TypeOK, Begin, Rests, SessionSound, PlanSound
  <1>3. TypeOK'
    BY <1>1, AccountsAssumption DEF IndInv, TypeOK, Begin, Points, tables
  <1>4. Written(s)' = {}
    BY <1>2 DEF Written
  <1>5. SessionSound(s)'
    BY <1>2, <1>4 DEF SessionSound, PlanSound, WrittenSound
  <1>6. Registering(s)' => /\ rows[req'[s].id] = {}
                           /\ \A t \in Sessions \ {s} :
                                 Registering(t) => req[t].id # req'[s].id
    BY <1>1, <1>2 DEF IdIsFresh, Registering
  <1> QED
    BY <1>2, <1>3, <1>5, <1>6, OneSession

\* A session that is at work has a request.
LEMMA Busy ==
    ASSUME IndInv, NEW s \in Sessions, pc[s] # "idle"
    PROVE  req[s] \in Requests /\ req[s] # None
  BY DEF IndInv, TypeOK, SessionSound, PlanSound

\* A handler goes on with the statements of its plan.
LEMMA FlushInv ==
    ASSUME IndInv, NEW s \in Sessions, pc[s] # "idle",
           NEW plan, plan \subseteq Locks \X Nat, NEW point \in {"flush", "link"},
           Flush(s, plan, point),
           point = "link" => req[s].op = "register" /\ Default[req[s].tenant] # None,
           Follows(s)'
    PROVE  IndInv'
  <1>1. /\ req' = req /\ held' = held /\ UNCHANGED tables
        /\ \A t \in Sessions \ {s} : Rests(t)
        /\ pc'[s] = point
    BY DEF IndInv, TypeOK, Flush, Rests
  <1>2. TypeOK'
    BY DEF IndInv, TypeOK, Flush, Points, tables
  <1>3. Written(s)' = Written(s)
    BY <1>1 DEF Written
  <1>4. PlanSound(s)'
    BY <1>1, Busy DEF PlanSound
  <1>5. SessionSound(s)'
    BY <1>1, <1>3, <1>4 DEF IndInv, SessionSound, WrittenSound, tables
  <1>6. Registering(s)' => Registering(s)
    BY <1>1 DEF Registering
  <1>7. \A t \in Sessions \ {s} : \A a \in held'[s], b \in held[t] : ~ Conflict(a, b)
    BY <1>1 DEF IndInv, LocksExclusive
  <1> QED
    BY <1>1, <1>2, <1>5, <1>6, <1>7, OneSession

\* The first statements of a request are those of its plan.
LEMMA FirstFlushInv ==
    ASSUME IndInv, NEW s \in Sessions, pc[s] = "check", NEW plan,
           Flush(s, plan, "flush"), PlanOf(s) = plan
    PROVE  IndInv'
  <1>1. req[s] \in Requests /\ held[s] = {}
    BY Busy DEF IndInv, SessionSound, PlanSound
  <1>2. plan \subseteq Locks \X Nat
    BY <1>1, PlanOfSound DEF IndInv, IsPlan
  <1>3. /\ pc'[s] = "flush" /\ req' = req /\ todo'[s] = plan /\ held'[s] = {}
        /\ schema' = schema /\ members' = members
    BY <1>1 DEF IndInv, TypeOK, Flush, tables
  <1>4. PlanOf(s)' = plan
    <2>1. /\ Indexed' = Indexed
          /\ NewEntries(req[s].keys)' = NewEntries(req[s].keys)
          /\ UpdatePlan(req[s].id, req[s].keys)' = UpdatePlan(req[s].id, req[s].keys)
          /\ RemovePlan(req[s].id, req[s].tenant)' = RemovePlan(req[s].id, req[s].tenant)
      BY <1>3 DEF Indexed, NewEntries, UpdatePlan, RemovePlan, Associations
    <2> QED
      BY <1>3, <2>1 DEF PlanOf, DeletePlan
  <1>5. Follows(s)'
    BY <1>3, <1>4 DEF Follows
  <1> QED
    BY <1>2, <1>5, FlushInv

-----------------------------------------------------------------------------
(* The handlers *)

\* Every handler that has looked at the tables answers, or flushes its plan.
LEMMA HandlersInv ==
    ASSUME IndInv, NEW s \in Sessions,
           \/ CreateTenant(s) \/ UpdateTenant(s) \/ UpdateMe(s) \/ DeleteTenant(s)
           \/ UpdateStatus(s) \/ RemoveFromTenant(s) \/ RegisterUser(s)
    PROVE  IndInv'
  <1> DEFINE r == req[s]
  <1>1. ASSUME pc[s] = "check", Flush(s, PlanOf(s), "flush") \/ RollBack(s)
        PROVE  IndInv'
    BY <1>1, FirstFlushInv, RollBackInv
  <1>2. CASE CreateTenant(s)
    <2>1. PlanOf(s) = NewEntries(r.keys)
      BY <1>2 DEF CreateTenant, Handles, PlanOf
    <2> QED
      BY <1>1, <1>2, <2>1 DEF CreateTenant, Handles
  <1>3. CASE UpdateTenant(s) \/ UpdateMe(s)
    <2>1. PlanOf(s) = UpdatePlan(r.id, r.keys)
      BY <1>3 DEF UpdateTenant, UpdateMe, Handles, PlanOf
    <2> QED
      BY <1>1, <1>3, <2>1 DEF UpdateTenant, UpdateMe, UpdateRow, Handles
  <1>4. CASE DeleteTenant(s)
    <2>1. PlanOf(s) = DeletePlan(r.id)
      BY <1>4 DEF DeleteTenant, Handles, PlanOf
    <2> QED
      BY <1>1, <1>4, <2>1 DEF DeleteTenant, Handles
  <1>5. CASE UpdateStatus(s)
    <2>1. PlanOf(s) = {Entry(r.id, "flag", 1)}
      BY <1>5 DEF UpdateStatus, Handles, PlanOf
    <2> QED
      BY <1>1, <1>5, <2>1 DEF UpdateStatus, Handles
  <1>6. CASE RemoveFromTenant(s)
    <2>1. PlanOf(s) = RemovePlan(r.id, r.tenant)
      BY <1>6 DEF RemoveFromTenant, Handles, PlanOf
    <2> QED
      BY <1>1, <1>6, <2>1 DEF RemoveFromTenant, Handles
  <1>7. CASE RegisterUser(s)
    <2>1. PlanOf(s) = NewEntries(r.keys)
      BY <1>7 DEF RegisterUser, Handles, PlanOf
    <2> QED
      BY <1>1, <1>7, <2>1 DEF RegisterUser, Handles
  <1> QED
    BY <1>2, <1>3, <1>4, <1>5, <1>6, <1>7

\* The association is flushed after the user.
LEMMA DefaultRoleInv ==
    ASSUME IndInv, NEW s \in Sessions, DefaultRole(s)
    PROVE  IndInv'
  <1> DEFINE r == req[s]
             first == NewEntries(r.keys)
             link == LinkPlan(r.tenant)
  <1>1. pc[s] = "flush" /\ todo[s] = {} /\ r.op = "register" /\ r \in Requests
    BY Busy DEF DefaultRole
  <1>2. CASE ~ (HasRoles /\ Default[r.tenant] # None)
    BY <1>2, RollBackInv DEF DefaultRole
  <1>3. CASE HasRoles /\ Default[r.tenant] # None
    <2>1. Flush(s, link, "link")
      BY <1>3 DEF DefaultRole
    <2>2. PlanOf(s) = first
      BY <1>1 DEF PlanOf
    <2>3. held[s] = {e[1] : e \in first}
      BY <1>1, <2>2 DEF IndInv, SessionSound, PlanSound, Follows, Nothing
    <2>4. /\ pc'[s] = "link" /\ req' = req /\ todo'[s] = link /\ held' = held
          /\ schema' = schema
      BY <2>1 DEF IndInv, TypeOK, Flush, tables
    <2>5. PlanOf(s)' = first \cup link
      <3>1. NewEntries(r.keys)' = first
        BY <2>4 DEF NewEntries, Indexed
      <3> QED
        BY <1>1, <2>4, <3>1 DEF PlanOf, LinkPlan
    <2>6. /\ link \subseteq Locks \X Nat /\ link \cap first = {}
          /\ \A e \in first, f \in link : e[2] < f[2]
      BY <1>1, <1>3, LinkPlanSound DEF IsPlan
    <2>7. PlanOf(s)' \ todo'[s] = first
      BY <2>4, <2>5, <2>6
    <2>8. Follows(s)'
      BY <2>3, <2>4, <2>5, <2>6, <2>7 DEF Follows
    <2> QED
      BY <1>1, <1>3, <2>1, <2>6, <2>8, FlushInv
  <1> QED
    BY <1>2, <1>3

-----------------------------------------------------------------------------
(* Locks *)

\* A session that still needs locks is in its statements and follows its plan.
LEMMA Waiting ==
    ASSUME IndInv, NEW s \in Sessions, todo[s] # {}
    PROVE  /\ pc[s] \in {"flush", "link"} /\ req[s] \in Requests /\ req[s] # None
           /\ Follows(s) /\ IsPlan(PlanOf(s))
           /\ pc[s] = "link" => req[s].op = "register" /\ Default[req[s].tenant] # None
  <1>1. pc[s] \in {"flush", "link"} /\ Follows(s)
    BY DEF IndInv, SessionSound, PlanSound, Nothing, TypeOK, Points
  <1>2. req[s] \in Requests /\ req[s] # None
    BY <1>1, Busy
  <1>3. pc[s] = "link" => req[s].op = "register" /\ Default[req[s].tenant] # None
    BY DEF IndInv, SessionSound, PlanSound
  <1> QED
    BY <1>1, <1>2, <1>3, PlanOfSound DEF IndInv

\* A lock is taken when nobody is in its way, and a value when no row has it.
LEMMA LockInv ==
    ASSUME IndInv, NEW s \in Sessions, Lock(s)
    PROVE  IndInv'
  <1>1. PICK e \in Nexts(s) :
            /\ Blockers(s) = {} /\ ~ Taken(s, e[1][1])
            /\ held' = [held EXCEPT ![s] = @ \cup {e[1]}]
            /\ todo' = [todo EXCEPT ![s] = @ \ {e}]
            /\ UNCHANGED <<tables, pc, req, issued>>
    BY DEF Lock
  <1>2. /\ e \in todo[s] /\ \A f \in todo[s] : e[2] <= f[2]
        /\ todo[s] \subseteq Locks \X Nat
    BY DEF Nexts, IndInv, TypeOK
  <1>3. /\ pc[s] \in {"flush", "link"} /\ Follows(s) /\ IsPlan(PlanOf(s))
    BY <1>2, Waiting
  <1>4. /\ held'[s] = held[s] \cup {e[1]} /\ todo'[s] = todo[s] \ {e}
        /\ pc' = pc /\ req' = req /\ UNCHANGED tables
        /\ \A t \in Sessions \ {s} : Rests(t)
    BY <1>1 DEF IndInv, TypeOK, Rests
  <1>5. PlanOf(s)' = PlanOf(s)
    BY <1>4, PlanKept DEF tables, Associations
  <1>6. Follows(s)'
    <2> DEFINE P == PlanOf(s)
    <2>1. P \ todo'[s] = (P \ todo[s]) \cup {e}
      BY <1>2, <1>3, <1>4 DEF Follows
    <2>2. held'[s] = {f[1] : f \in P \ todo'[s]}
      BY <1>3, <1>4, <2>1 DEF Follows
    <2>3. ASSUME NEW f \in todo'[s]
          PROVE  e[2] < f[2]
      <3>1. f \in todo[s] /\ f # e /\ e \in P /\ f \in P
        BY <1>2, <1>3, <1>4, <2>3 DEF Follows
      <3>2. e[2] # f[2] /\ e[2] \in Nat /\ f[2] \in Nat /\ e[2] <= f[2]
        BY <1>2, <1>3, <3>1 DEF IsPlan
      <3> QED
        BY <3>2
    <2>4. \A g \in P \ todo'[s], f \in todo'[s] : g[2] < f[2]
      <3>1. ASSUME NEW g \in P \ todo'[s], NEW f \in todo'[s]
            PROVE  g[2] < f[2]
        <4>1. CASE g = e
          BY <2>3, <4>1
        <4>2. CASE g # e
          BY <1>3, <1>4, <2>1, <4>2 DEF Follows
        <4> QED
          BY <4>1, <4>2
      <3> QED
        BY <3>1
    <2>5. todo'[s] \subseteq P
      BY <1>3, <1>4 DEF Follows
    <2> QED
      BY <1>5, <2>2, <2>4, <2>5 DEF Follows
  <1>7. PlanSound(s)'
    BY <1>3, <1>4, <1>6 DEF IndInv, SessionSound, PlanSound
  <1>8. WrittenSound(s)'
    <2> SUFFICES ASSUME NEW k \in Written(s)', NEW i \in Ids \ {req[s].id}
                 PROVE  k \notin rows[i]
      BY <1>4 DEF WrittenSound, tables
    <2>1. CASE k \in Written(s)
      BY <2>1 DEF IndInv, SessionSound, WrittenSound
    <2>2. CASE k \notin Written(s)
      <3>1. <<k, "key">> = e[1]
        BY <1>4, <2>2 DEF Written
      <3>2. e[1][1] = k
        BY <3>1
      <3> QED
        BY <1>1, <3>2 DEF Taken
    <2> QED
      BY <2>1, <2>2
  <1>9. TypeOK'
    <2>1. e[1] \in Locks
      BY <1>2
    <2> QED
      BY <1>1, <2>1 DEF IndInv, TypeOK, tables
  <1>10. ASSUME NEW t \in Sessions \ {s}, NEW a \in held'[s], NEW b \in held[t]
         PROVE  ~ Conflict(a, b)
    <2>1. CASE a \in held[s]
      BY <2>1 DEF IndInv, LocksExclusive
    <2>2. CASE a = e[1]
      BY <1>1, <2>2 DEF Blockers, Blocks
    <2> QED
      BY <1>4, <2>1, <2>2
  <1>11. Registering(s)' => Registering(s) /\ req'[s] = req[s]
    BY <1>4 DEF Registering
  <1> QED
    BY <1>4, <1>7, <1>8, <1>9, <1>10, <1>11, OneSession DEF SessionSound

-----------------------------------------------------------------------------
(* The commit of UserService.create *)

\* Before its commit the user's email is locked and in no row.
LEMMA Linked ==
    ASSUME IndInv, NEW s \in Sessions, pc[s] = "link", todo[s] = {}
    PROVE  \E e \in Emails :
              /\ Values(req[s].keys) = {e} /\ <<e, "key">> \in held[s]
              /\ \A i \in Ids \ {req[s].id} : e \notin rows[i]
              /\ req[s] \in Requests /\ req[s].id \in Users
              /\ NewMembership(req[s]) \in Memberships
              /\ rows[req[s].id] = {} /\ Registering(s)
  <1> DEFINE r == req[s]
  <1>1. r \in Requests /\ r # None /\ r.op = "register" /\ Default[r.tenant] # None
    BY Busy DEF IndInv, SessionSound, PlanSound
  <1>2. PICK e \in Emails : r.keys = <<e>> /\ r.id \in Users
    BY <1>1, RequestShape
  <1>3. Entry(e, "key", 2) \in PlanOf(s)
    BY <1>1, <1>2, NewEntriesValue, IndexedBounds DEF PlanOf
  <1>4. held[s] = {f[1] : f \in PlanOf(s)}
    BY <1>1 DEF IndInv, SessionSound, PlanSound, Follows, Nothing
  <1>5. <<e, "key">> \in held[s]
    <2>1. Entry(e, "key", 2)[1] = <<e, "key">>
      BY DEF Entry
    <2> QED
      BY <1>3, <1>4, <2>1
  <1>6. Values(r.keys) = {e}
    BY <1>2, ValuesValue
  <1>7. e \in Written(s)
    BY <1>1, <1>5, <1>6 DEF Written, Keys
  <1>8. Registering(s) /\ rows[r.id] = {}
    BY <1>1 DEF Registering, IndInv, FreshSound
  <1>9. NewMembership(r) \in Memberships
    BY <1>1, AccountsAssumption
  <1> QED
    BY <1>1, <1>2, <1>5, <1>6, <1>7, <1>8, <1>9 DEF IndInv, SessionSound, WrittenSound

\* The others do not notice: nobody else has flushed the email, and a removal
\* that has found associations is of another user.
LEMMA CommitForOthers ==
    ASSUME IndInv, NEW s \in Sessions, NEW t \in Sessions, t # s, Rests(t),
           NEW e \in Emails, <<e, "key">> \in held[s],
           req[s].id \in Users, rows[req[s].id] = {}, schema' = schema,
           rows' = [rows EXCEPT ![req[s].id] = {e}],
           members' = members \cup {NewMembership(req[s])}
    PROVE  SessionSound(t)'
  <1> USE DEF Rests
  <1> DEFINE u == req[s].id
  <1>1. SessionSound(t)
    BY DEF IndInv
  <1>2. \A a, b : Associations(a, b) # {} => Associations(a, b)' = Associations(a, b)
    <2> SUFFICES ASSUME NEW a, NEW b, NEW m \in Associations(a, b)
                 PROVE  Associations(a, b)' = Associations(a, b)
      OBVIOUS
    <2>1. m \in members /\ m[1] = a /\ rows[a] # {}
      BY DEF Associations, IndInv, MembersExist
    <2>2. a # u /\ NewMembership(req[s])[1] = u
      BY <2>1 DEF NewMembership
    <2> QED
      BY <2>2 DEF Associations
  <1>3. Nothing(t) => Nothing(t)'
    BY DEF Nothing
  <1>4. Follows(t) => Follows(t)' \/ Nothing(t)'
    <2> SUFFICES ASSUME Follows(t)
                 PROVE  Follows(t)' \/ Nothing(t)'
      OBVIOUS
    <2>1. CASE req[t].op = "remove" /\ Associations(req[t].id, req[t].tenant) = {}
      <3>1. PlanOf(t) = {}
        BY <2>1 DEF PlanOf, RemovePlan
      <3> QED
        BY <2>1, <3>1 DEF Follows, Nothing
    <2>2. CASE ~ (req[t].op = "remove" /\ Associations(req[t].id, req[t].tenant) = {})
      <3>1. PlanOf(t)' = PlanOf(t)
        BY <1>2, <2>2, PlanKept
      <3> QED
        BY <3>1 DEF Follows
    <2> QED
      BY <2>1, <2>2
  <1>5. PlanSound(t)'
    BY <1>1, <1>3, <1>4 DEF SessionSound, PlanSound
  <1>6. Written(t)' = Written(t)
    BY DEF Written
  <1>7. e \notin Written(t)
    <2>1. Conflict(<<e, "key">>, <<e, "key">>)
      BY DEF Conflict
    <2> QED
      BY <2>1 DEF IndInv, LocksExclusive, Written
  <1>8. WrittenSound(t)'
    BY <1>1, <1>6, <1>7 DEF SessionSound, WrittenSound, IndInv, TypeOK
  <1> QED
    BY <1>5, <1>8 DEF SessionSound

\* The commit of UserService.create, the only one: the email that it writes was
\* locked, so no other request has flushed it and no other row has it.
LEMMA ReturnUserInv ==
    ASSUME IndInv, NEW s \in Sessions, ReturnUser(s)
    PROVE  IndInv'
  <1> DEFINE u == req[s].id
             m == NewMembership(req[s])
  <1>1. CASE ~ req[s].autocommit
    BY <1>1, RollBackInv DEF ReturnUser, RollBack, tables
  <1>2. CASE req[s].autocommit
    <2>1. pc[s] = "link" /\ todo[s] = {} /\ Close(s) /\ schema' = schema
      BY DEF ReturnUser
    <2>2. PICK e \in Emails :
              /\ Values(req[s].keys) = {e} /\ <<e, "key">> \in held[s]
              /\ \A i \in Ids \ {u} : e \notin rows[i]
              /\ u \in Users /\ m \in Memberships
              /\ rows[u] = {} /\ Registering(s)
      BY <2>1, Linked
    <2>3. /\ rows' = [rows EXCEPT ![u] = {e}]
          /\ members' = members \cup {m}
      BY <1>2, <2>2 DEF ReturnUser
    <2>4. /\ u \in Ids /\ e \in Keys /\ rows \in [Ids -> SUBSET Keys]
          /\ rows'[u] = {e} /\ \A i \in Ids \ {u} : rows'[i] = rows[i]
      BY <2>2, <2>3 DEF IndInv, TypeOK, Ids, Keys
    <2>5. TypeOK'
      <3>1. rows' \in [Ids -> SUBSET Keys]
        BY <2>3, <2>4
      <3>2. members' \in SUBSET Memberships
        BY <2>2, <2>3 DEF IndInv, TypeOK
      <3> QED
        BY <2>1, <3>1, <3>2, CloseEffect DEF IndInv, TypeOK
    <2>6. Distinct(rows, Declared(schema))'
      <3>1. Declared(schema)' = Declared(schema)
        BY <2>1 DEF Declared
      <3> QED
        BY <2>2, <2>4, <3>1 DEF IndInv, Distinct
    <2>7. MembersExist'
      <3> SUFFICES ASSUME NEW n \in members'
                   PROVE  rows'[n[1]] # {}
        BY DEF MembersExist
      <3>1. CASE n = m
        BY <2>4, <3>1 DEF NewMembership
      <3>2. CASE n \in members
        <4>1. n \in Memberships /\ rows[n[1]] # {}
          BY <3>2 DEF IndInv, TypeOK, MembersExist
        <4>2. n[1] \in Ids
          BY <4>1, AccountsAssumption DEF Ids
        <4> QED
          BY <2>4, <4>1, <4>2
      <3> QED
        BY <2>3, <3>1, <3>2
    <2>8. \A t \in Sessions : t # s => Rests(t) /\ SessionSound(t)'
      BY <2>1, <2>2, <2>3, CloseEffect, CommitForOthers
    <2>9. pc'[s] = "idle" /\ held'[s] = {} /\ SessionSound(s)'
      BY <2>1, CloseEffect
    <2>10. FreshSound'
      <3> SUFFICES ASSUME NEW t \in Sessions, Registering(t)'
                   PROVE  /\ rows'[req'[t].id] = {}
                          /\ \A q \in Sessions \ {t} :
                                Registering(q)' => req'[q].id # req'[t].id
        BY DEF FreshSound
      <3>1. ~ Registering(s)' /\ t # s
        BY <2>9 DEF Registering
      <3>2. \A q \in Sessions \ {s} : req'[q] = req[q] /\ (Registering(q)' <=> Registering(q))
        BY <2>8 DEF Rests, Registering
      <3>3. Registering(t) /\ req'[t] = req[t]
        BY <3>1, <3>2
      <3>4. rows[req[t].id] = {} /\ req[t].id # u
        BY <2>2, <3>1, <3>3 DEF IndInv, FreshSound
      <3>5. req[t] \in Requests /\ req[t].op = "register"
        BY <3>3, Busy DEF Registering
      <3>6. req[t].id \in Ids
        BY <3>5, RequestShape DEF Ids
      <3> QED
        BY <2>4, <3>1, <3>2, <3>3, <3>4, <3>6 DEF IndInv, FreshSound
    <2>11. LocksExclusive'
      BY <2>8, <2>9 DEF IndInv, LocksExclusive, Rests
    <2> QED
      BY <2>5, <2>6, <2>7, <2>8, <2>9, <2>10, <2>11 DEF IndInv
  <1> QED
    BY <1>1, <1>2

-----------------------------------------------------------------------------
(* The inductive invariant holds *)

\* The directories to start from satisfy the invariant.
LEMMA InitInv == Init => IndInv
  <1> SUFFICES ASSUME Init PROVE IndInv
    OBVIOUS
  <1>1. PICK d \in Directories : schema = d.schema /\ rows = d.rows /\ members = d.members
    BY DEF Init
  <1>2. d \in DirectoryType /\ Distinct(rows, Declared(schema)) /\ MembersExist
    BY <1>1, AccountsAssumption DEF MembersExist
  <1>3. TypeOK
    BY <1>1, <1>2, AccountsAssumption DEF Init, TypeOK, DirectoryType, Points
  <1>4. ASSUME NEW s \in Sessions
        PROVE  /\ pc[s] = "idle" /\ req[s] = None /\ todo[s] = {} /\ held[s] = {}
               /\ SessionSound(s)
    BY DEF Init, SessionSound, PlanSound, WrittenSound, Written
  <1>5. FreshSound /\ LocksExclusive
    BY <1>4 DEF FreshSound, Registering, LocksExclusive
  <1> QED
    BY <1>2, <1>3, <1>4, <1>5 DEF IndInv

\* Every step of every session keeps the invariant.
LEMMA StepInv == IndInv /\ [Next]_vars => IndInv'
  <1> SUFFICES ASSUME IndInv, [Next]_vars
               PROVE  IndInv'
    OBVIOUS
  <1>1. CASE UNCHANGED vars
    <2>1. /\ UNCHANGED tables /\ UNCHANGED <<pc, req, todo, held, issued>>
          /\ \A t \in Sessions : Rests(t)
      BY <1>1 DEF vars, tables, Rests
    <2>2. \A t \in Sessions : SessionSound(t)'
      BY <2>1, Undisturbed DEF IndInv
    <2>3. TypeOK' /\ Distinct(rows, Declared(schema))' /\ MembersExist'
      BY <2>1 DEF IndInv, TypeOK, Distinct, Declared, MembersExist, tables
    <2>4. FreshSound' /\ LocksExclusive'
      BY <2>1 DEF IndInv, FreshSound, Registering, LocksExclusive, tables
    <2> QED
      BY <2>2, <2>3, <2>4 DEF IndInv
  <1>2. CASE Next
    <2>1. PICK s \in Sessions :
              \/ Begin(s) \/ Handle(s) \/ Lock(s) \/ Refuse(s)
              \/ BreakDeadlock(s) \/ Abort(s)
      BY <1>2 DEF Next
    <2>2. CASE Handle(s)
      <3>1. Answer(s) => RollBack(s)
        BY DEF Answer
      <3> QED
        BY <2>2, <3>1, HandlersInv, DefaultRoleInv, ReturnUserInv, RollBackInv DEF Handle
    <2>3. CASE Refuse(s) \/ BreakDeadlock(s) \/ Abort(s)
      BY <2>3, RollBackInv DEF Refuse, BreakDeadlock, Abort
    <2> QED
      BY <2>1, <2>2, <2>3, BeginInv, LockInv
  <1> QED
    BY <1>1, <1>2

\* How far requests are with their locks, and what that protects, is as IndInv
\* says in every reachable state, on both definitions of the tables.
THEOREM IndInvHolds == Spec => []IndInv
  BY InitInv, StepInv, PTL DEF Spec

-----------------------------------------------------------------------------
(* Who waits for whom *)

\* A session that holds something while it waits: only these make rings.
HoldsAndWaits(s) == todo[s] # {} /\ held[s] # {}

\* What it holds and what it waits for are entries of its plan, in this order.
LEMMA TakenInOrder ==
    ASSUME IndInv, NEW s \in Sessions, HoldsAndWaits(s)
    PROVE  /\ \A a \in held[s] : \E e \in PlanOf(s) \ todo[s] : e[1] = a
           /\ \E e \in PlanOf(s) : e \notin todo[s]
           /\ \E f \in PlanOf(s) : f \in todo[s]
           /\ \A e \in Nexts(s) : e \in PlanOf(s) /\ e \in todo[s]
           /\ \A e \in PlanOf(s) \ todo[s] : e[1] \in held[s]
           /\ \A e \in PlanOf(s) \ todo[s], f \in todo[s] : e[2] < f[2]
           /\ IsPlan(PlanOf(s)) /\ req[s] \in Requests
           /\ pc[s] \in {"flush", "link"}
           /\ pc[s] = "link" => req[s].op = "register" /\ Default[req[s].tenant] # None
  <1>1. Follows(s) /\ IsPlan(PlanOf(s)) /\ req[s] \in Requests
    BY Waiting DEF HoldsAndWaits
  <1>2. /\ pc[s] \in {"flush", "link"}
        /\ pc[s] = "link" => req[s].op = "register" /\ Default[req[s].tenant] # None
    BY Waiting DEF HoldsAndWaits
  <1> QED
    BY <1>1, <1>2 DEF Follows, Nexts, HoldsAndWaits

\* A creation holds the name and waits for the slug.
LEMMA CreationWaits ==
    ASSUME IndInv, NEW s \in Sessions, HoldsAndWaits(s), req[s].op = "create"
    PROVE  /\ \A a \in held[s] : a[1] \in Names
           /\ \A e \in Nexts(s) : e[1][1] \in Slugs
  <1> DEFINE r == req[s]
  <1>1. PICK n \in Names, g \in Slugs : r.keys = <<n, g>>
    BY TakenInOrder, RequestShape
  <1> DEFINE a == Entry(n, "key", 2)
             b == Entry(g, "key", 3)
  <1>2. PlanOf(s) \subseteq {a, b}
    BY <1>1, NewEntriesValue DEF PlanOf
  <1>3. a[1][1] = n /\ b[1][1] = g /\ a[2] = 2 /\ b[2] = 3
    BY DEF Entry
  <1> HIDE DEF a, b
  <1>4. \A e \in PlanOf(s) \ todo[s] : e = a
    BY <1>2, <1>3, TakenInOrder
  <1>5. \A f \in PlanOf(s) : f \in todo[s] => f = b
    BY <1>2, <1>3, TakenInOrder
  <1> QED
    BY <1>3, <1>4, <1>5, TakenInOrder

\* A status change, and an update of other columns, have one lock to take.
LEMMA SingleLocks ==
    ASSUME IndInv, NEW s \in Sessions, HoldsAndWaits(s), ~ Renames(s)
    PROVE  req[s].op \in {"create", "delete", "remove", "register"}
  <1> DEFINE r == req[s]
  <1>1. r \in Requests
    BY TakenInOrder
  <1>2. ASSUME NEW a, PlanOf(s) = {a}
        PROVE  FALSE
    BY <1>2, TakenInOrder
  <1>3. r.op # "status"
    BY <1>2 DEF PlanOf
  <1>4. r.op # "update"
    <2> SUFFICES ASSUME r.op = "update" PROVE FALSE
      OBVIOUS
    <2>1. r.keys = <<>>
      BY DEF Renames
    <2>2. PlanOf(s) = UpdatePlan(r.id, <<>>)
      BY <2>1 DEF PlanOf
    <2>3. UpdatePlan(r.id, <<>>) = {Entry(r.id, "flag", 1)}
      BY NewEntriesValue, ValuesValue DEF UpdatePlan
    <2> QED
      BY <1>2, <2>2, <2>3
  <1> QED
    BY <1>1, <1>3, <1>4, RequestShape

\* A registration holds its email, and perhaps a share of the role, and waits
\* for a share of the role or the tenant.
LEMMA RegistrationWaits ==
    ASSUME IndInv, NEW s \in Sessions, HoldsAndWaits(s), req[s].op = "register"
    PROVE  /\ Default[req[s].tenant] \in Roles /\ req[s].tenant \in Tenants
           /\ \A a \in held[s] : a[1] \in Emails \/ a = <<Default[req[s].tenant], "share">>
           /\ \A e \in Nexts(s) : e[1] \in {<<Default[req[s].tenant], "share">>,
                                            <<req[s].tenant, "share">>}
           /\ <<Default[req[s].tenant], "share">> \in held[s] =>
                 \A e \in Nexts(s) : e[1] = <<req[s].tenant, "share">>
  <1> DEFINE r == req[s]
  <1>1. r \in Requests /\ r.tenant \in Tenants
    BY TakenInOrder, RequestShape
  <1>2. PICK k \in Emails : r.keys = <<k>>
    BY <1>1, RequestShape
  <1> DEFINE a == Entry(k, "key", 2)
             b == Entry(Default[r.tenant], "share", 3)
             c == Entry(r.tenant, "share", 4)
  <1>3. NewEntries(r.keys) = {a}
    BY <1>2, NewEntriesValue, IndexedBounds
  <1>4. pc[s] = "link"
    <2> SUFFICES ASSUME pc[s] # "link" PROVE FALSE
      OBVIOUS
    <2>1. PlanOf(s) = {a}
      BY <1>3 DEF PlanOf
    <2> QED
      BY <2>1, TakenInOrder
  <1>5. PlanOf(s) = {a, b, c}
    BY <1>3, <1>4 DEF PlanOf, LinkPlan
  <1>6. Default[r.tenant] \in Roles
    BY <1>1, <1>4, TakenInOrder, AccountsAssumption
  <1>7. /\ a[1] = <<k, "key">> /\ b[1] = <<Default[r.tenant], "share">>
        /\ c[1] = <<r.tenant, "share">> /\ a[1][1] = k
        /\ a[2] = 2 /\ b[2] = 3 /\ c[2] = 4
    BY DEF Entry
  <1>8. r.tenant # Default[r.tenant] /\ k # Default[r.tenant]
    BY <1>1, <1>6, ThingsAssumption DEF Ids, Keys
  <1> HIDE DEF a, b, c
  <1>9. a \notin todo[s]
    BY <1>5, <1>7, TakenInOrder
  <1>10. c \in todo[s]
    BY <1>5, <1>7, TakenInOrder
  <1>11. \A x \in held[s] : x = a[1] \/ x = b[1]
    BY <1>5, <1>10, TakenInOrder
  <1>12. \A e \in Nexts(s) : e = b \/ e = c
    BY <1>5, <1>9, TakenInOrder
  <1>13. b[1] \in held[s] => b \notin todo[s]
    <2> SUFFICES ASSUME b[1] \in held[s], b \in todo[s] PROVE FALSE
      OBVIOUS
    <2>1. PICK e \in PlanOf(s) \ todo[s] : e[1] = b[1]
      BY TakenInOrder
    <2>2. e = a
      BY <1>5, <1>10, <2>1
    <2> QED
      BY <1>7, <1>8, <2>1, <2>2
  <1> QED
    BY <1>1, <1>6, <1>7, <1>11, <1>12, <1>13, TakenInOrder

\* A deletion locks the rows of its tenant.
LEMMA DeletionLocks ==
    ASSUME NEW s \in Sessions, req[s].op = "delete", NEW e
    PROVE  e \in PlanOf(s) <=> \E x \in Estate(req[s].id) : e = <<<<x, "key">>, Cascade[x]>>
  BY DEF PlanOf, DeletePlan, Entry

\* A removal locks the associations of its user in its tenant.
LEMMA RemovalLocks ==
    ASSUME NEW s \in Sessions, req[s].op = "remove", NEW e
    PROVE  e \in PlanOf(s) <=> \E m \in Associations(req[s].id, req[s].tenant) :
                                  e = <<<<m, "key">>, Scan[m]>>
  BY DEF PlanOf, RemovePlan, Entry

\* Two sessions that take the same locks in the same order do not hold each
\* other up half way: the second one waits at the first lock.
LEMMA SamePlanNoRing ==
    ASSUME IndInv, NEW s \in Sessions, NEW t \in Sessions, s # t,
           HoldsAndWaits(s), HoldsAndWaits(t), PlanOf(s) = PlanOf(t),
           \A e \in PlanOf(s) : e[1][2] = "key",
           \A e, f \in PlanOf(s) : e[1] = f[1] => e = f,
           NEW a \in Nexts(s), a[1] \in held[t]
    PROVE  FALSE
  <1>1. a \in PlanOf(s) /\ a \in todo[s] /\ a \notin todo[t]
    <2>1. PICK g \in PlanOf(t) \ todo[t] : g[1] = a[1]
      BY TakenInOrder
    <2> QED
      BY <2>1, TakenInOrder
  <1>2. PICK h \in PlanOf(s) : h \notin todo[s]
    BY TakenInOrder
  <1>3. h[2] < a[2] /\ h[1] \in held[s]
    BY <1>1, <1>2, TakenInOrder
  <1>4. CASE h \in todo[t]
    <2>1. a[2] < h[2]
      BY <1>1, <1>4, TakenInOrder
    <2>2. a[2] \in Nat /\ h[2] \in Nat
      BY <1>1, <1>2, TakenInOrder DEF IsPlan
    <2> QED
      BY <1>3, <2>1, <2>2
  <1>5. CASE h \notin todo[t]
    <2>1. h[1] \in held[t] /\ h[1][2] = "key"
      BY <1>2, <1>5, TakenInOrder
    <2>2. Conflict(h[1], h[1])
      BY <2>1 DEF Conflict
    <2> QED
      BY <1>3, <2>1, <2>2 DEF IndInv, LocksExclusive
  <1> QED
    BY <1>4, <1>5

\* A row belongs to the estate of one tenant.
LEMMA EstatesApart ==
    ASSUME NEW t \in Tenants, NEW u \in Tenants, NEW x \in Estate(t), x \in Estate(u)
    PROVE  t = u
  <1>1. ASSUME NEW v \in Tenants, x \in Estate(v)
        PROVE  /\ x \in Tenants => x = v
               /\ x \in Roles => Owner[x] = v
               /\ x \in Memberships => x[3] = v
               /\ x \in Children => x \in Owned[v]
               /\ x \in Tenants \cup Roles \cup Memberships \cup Children
    <2>1. v \notin Roles \cup Memberships \cup Children
      BY ThingsAssumption DEF Ids
    <2>2. Owned[v] \subseteq Children
      BY DEF Children
    <2>3. RolesOf(v) \subseteq Roles
      BY DEF RolesOf
    <2>4. Children \cap (Tenants \cup Roles \cup Memberships) = {} /\ Tenants \cap Roles = {}
          /\ Tenants \cap Memberships = {} /\ Roles \cap Memberships = {}
      BY ThingsAssumption DEF Ids
    <2>5. x \in Owned[v] \/ x \in RolesOf(v) \/ x = v \/ (x \in Memberships /\ x[3] = v)
      BY <1>1 DEF Estate
    <2> QED
      BY <2>1, <2>2, <2>3, <2>4, <2>5 DEF RolesOf
  <1> QED
    BY <1>1, ThingsAssumption

\* The values of the rows are not things that a ring without a rename waits
\* for, except by a creation.
LEMMA BlocksByConflict ==
    ASSUME IndInv, NEW b, NEW a, Blocks(b, a), a[1] \notin Keys
    PROVE  Conflict(a, b)
  BY DEF Blocks, IndInv, TypeOK

\* Without a rename, a session that waits while it holds something is blocked
\* by a deletion, a removal, or a registration that has shared a role of the
\* tenant that is being deleted.
LEMMA BlockerKinds ==
    ASSUME IndInv, NEW s \in Sessions, NEW t \in Blockers(s),
           HoldsAndWaits(s), HoldsAndWaits(t), ~ Renames(s), ~ Renames(t)
    PROVE  \/ req[t].op \in {"delete", "remove"}
           \/ /\ req[s].op = "delete" /\ req[t].op = "register"
              /\ <<Default[req[t].tenant], "share">> \in held[t]
  <1>0. t \in Sessions
    BY DEF Blockers
  <1>1. PICK a \in Nexts(s), b \in held[t] : Blocks(b, a[1])
    BY DEF Blockers
  <1> DEFINE x == a[1][1]
  <1>2. x \in Slugs \/ x \in Tenants \cup Roles \cup Memberships \cup Children
    <2>1. CASE req[s].op = "create"
      <3>1. \A e \in Nexts(s) : e[1][1] \in Slugs
        BY <2>1, CreationWaits
      <3> QED
        BY <3>1
    <2>2. CASE req[s].op = "register"
      <3>1. /\ \A e \in Nexts(s) : e[1] \in {<<Default[req[s].tenant], "share">>,
                                             <<req[s].tenant, "share">>}
            /\ Default[req[s].tenant] \in Roles /\ req[s].tenant \in Tenants
        BY <2>2, RegistrationWaits
      <3> QED
        BY <3>1
    <2>3. CASE req[s].op = "delete"
      <3>1. PICK y \in Estate(req[s].id) : a = <<<<y, "key">>, Cascade[y]>>
        BY <2>3, TakenInOrder, DeletionLocks
      <3>2. req[s].id \in Tenants /\ x = y
        BY <2>3, <3>1, TakenInOrder, RequestShape
      <3> QED
        BY <3>1, <3>2 DEF Estate, RolesOf, Children
    <2>4. CASE req[s].op = "remove"
      <3>1. PICK m \in Associations(req[s].id, req[s].tenant) : a = <<<<m, "key">>, Scan[m]>>
        BY <2>4, TakenInOrder, RemovalLocks
      <3> QED
        BY <3>1 DEF Associations, IndInv, TypeOK
    <2> QED
      BY <2>1, <2>2, <2>3, <2>4, SingleLocks
  <1>3. CASE req[t].op = "create"
    <2>1. b[1] \in Names
      BY <1>0, <1>3, CreationWaits
    <2>2. b[1] \notin Ids
      BY <2>1, ThingsAssumption DEF Keys
    <2>3. x = b[1]
      BY <1>1, <2>2 DEF Blocks, Conflict
    <2> QED
      BY <1>2, <2>1, <2>3, ThingsAssumption DEF Keys, Ids
  <1>4. CASE req[t].op = "register"
    <2>1. b[1] \in Emails \/ b = <<Default[req[t].tenant], "share">>
      BY <1>0, <1>4, RegistrationWaits
    <2>2. b[1] \notin Emails
      <3> SUFFICES ASSUME b[1] \in Emails PROVE FALSE
        OBVIOUS
      <3>1. b[1] \notin Ids
        BY ThingsAssumption DEF Keys
      <3>2. x = b[1]
        BY <1>1, <3>1 DEF Blocks, Conflict
      <3> QED
        BY <1>2, <3>2, ThingsAssumption DEF Keys, Ids
    <2>3. b = <<Default[req[t].tenant], "share">> /\ Default[req[t].tenant] \in Roles
      BY <1>0, <1>4, <2>1, <2>2, RegistrationWaits
    <2>4. x \in Roles /\ "key" = a[1][2]
      <3>1. b[1] \notin Ids
        BY <2>3, ThingsAssumption
      <3>2. Conflict(a[1], b)
        BY <1>1, <3>1 DEF Blocks
      <3> QED
        BY <2>3, <3>2 DEF Conflict
    <2>5. req[s].op # "create"
      <3> SUFFICES ASSUME req[s].op = "create" PROVE FALSE
        OBVIOUS
      <3>1. \A e \in Nexts(s) : e[1][1] \in Slugs
        BY CreationWaits
      <3> QED
        BY <2>4, <3>1, ThingsAssumption DEF Keys
    <2>6. req[s].op # "register"
      <3> SUFFICES ASSUME req[s].op = "register" PROVE FALSE
        OBVIOUS
      <3>1. \A e \in Nexts(s) : e[1] \in {<<Default[req[s].tenant], "share">>,
                                          <<req[s].tenant, "share">>}
        BY RegistrationWaits
      <3>2. a[1][2] = "share"
        BY <3>1
      <3> QED
        BY <2>4, <3>2
    <2>7. req[s].op # "remove"
      <3> SUFFICES ASSUME req[s].op = "remove" PROVE FALSE
        OBVIOUS
      <3>1. PICK m \in Associations(req[s].id, req[s].tenant) : a = <<<<m, "key">>, Scan[m]>>
        BY TakenInOrder, RemovalLocks
      <3>2. x \in Memberships
        BY <3>1 DEF Associations, IndInv, TypeOK
      <3> QED
        BY <2>4, <3>2, ThingsAssumption
    <2> QED
      BY <1>1, <1>4, <2>3, <2>5, <2>6, <2>7, SingleLocks
  <1> QED
    BY <1>0, <1>3, <1>4, SingleLocks

\* What a deletion holds are rows of its tenant, and before the tenant's own
\* row it has taken those of its roles.
LEMMA DeletionHolds ==
    ASSUME IndInv, NEW s \in Sessions, HoldsAndWaits(s), req[s].op = "delete"
    PROVE  /\ req[s].id \in Tenants
           /\ \A b \in held[s] : \E x \in Estate(req[s].id) : b = <<x, "key">>
           /\ \A e \in Nexts(s) : \E x \in Estate(req[s].id) :
                 e = <<<<x, "key">>, Cascade[x]>>
           /\ <<req[s].id, "key">> \in held[s] =>
                 \A r \in RolesOf(req[s].id) : <<r, "key">> \in held[s]
  <1> DEFINE t == req[s].id
  <1>1. t \in Tenants
    BY TakenInOrder, RequestShape
  <1>2. \A b \in held[s] : \E x \in Estate(t) : b = <<x, "key">>
    <2> SUFFICES ASSUME NEW b \in held[s] PROVE \E x \in Estate(t) : b = <<x, "key">>
      OBVIOUS
    <2>1. PICK e \in PlanOf(s) \ todo[s] : e[1] = b
      BY TakenInOrder
    <2>2. PICK x \in Estate(t) : e = <<<<x, "key">>, Cascade[x]>>
      BY <2>1, DeletionLocks
    <2> QED
      BY <2>1, <2>2
  <1>3. \A e \in Nexts(s) : \E x \in Estate(t) : e = <<<<x, "key">>, Cascade[x]>>
    BY TakenInOrder, DeletionLocks
  <1>4. ASSUME <<t, "key">> \in held[s], NEW r \in RolesOf(t)
        PROVE  <<r, "key">> \in held[s]
    <2> DEFINE f == <<<<r, "key">>, Cascade[r]>>
    <2>1. PICK e \in PlanOf(s) \ todo[s] : e[1] = <<t, "key">>
      BY <1>4, TakenInOrder
    <2>2. PICK x \in Estate(t) : e = <<<<x, "key">>, Cascade[x]>>
      BY <2>1, DeletionLocks
    <2>3. e[2] = Cascade[t]
      BY <2>1, <2>2
    <2>4. r \in Estate(t) /\ t \in Estate(t)
      BY DEF Estate
    <2>5. f \in PlanOf(s)
      BY <2>4, DeletionLocks
    <2>6. Cascade[r] < Cascade[t] /\ Cascade[r] \in Nat /\ Cascade[t] \in Nat
      BY <1>1, <2>4, CascadeAssumption
    <2>7. f \notin todo[s]
      <3> SUFFICES ASSUME f \in todo[s] PROVE FALSE
        OBVIOUS
      <3>1. e[2] < f[2]
        BY <2>1, TakenInOrder
      <3> QED
        BY <2>3, <2>6, <3>1
    <2>8. f[1] \in held[s]
      BY <2>5, <2>7, TakenInOrder
    <2> QED
      BY <2>8
  <1> QED
    BY <1>1, <1>2, <1>3, <1>4

\* What a removal holds and waits for are different associations of its user.
LEMMA RemovalHolds ==
    ASSUME IndInv, NEW s \in Sessions, HoldsAndWaits(s), req[s].op = "remove"
    PROVE  /\ Associations(req[s].id, req[s].tenant) \subseteq Memberships
           /\ req[s].tenant \in Tenants
           /\ \A b \in held[s] :
                 \E m \in Associations(req[s].id, req[s].tenant) : b = <<m, "key">>
           /\ \A e \in Nexts(s) :
                 \E m \in Associations(req[s].id, req[s].tenant) : e = <<<<m, "key">>, Scan[m]>>
           /\ \E m, n \in Associations(req[s].id, req[s].tenant) : m # n
  <1> DEFINE A == Associations(req[s].id, req[s].tenant)
  <1>1. A \subseteq Memberships
    BY DEF Associations, IndInv, TypeOK
  <1>2. \A b \in held[s] : \E m \in A : b = <<m, "key">>
    <2> SUFFICES ASSUME NEW b \in held[s] PROVE \E m \in A : b = <<m, "key">>
      OBVIOUS
    <2>1. PICK e \in PlanOf(s) \ todo[s] : e[1] = b
      BY TakenInOrder
    <2>2. PICK m \in A : e = <<<<m, "key">>, Scan[m]>>
      BY <2>1, RemovalLocks
    <2> QED
      BY <2>1, <2>2
  <1>3. \A e \in Nexts(s) : \E m \in A : e = <<<<m, "key">>, Scan[m]>>
    BY TakenInOrder, RemovalLocks
  <1>4. \E m, n \in A : m # n
    <2>1. PICK e \in PlanOf(s) : e \notin todo[s]
      BY TakenInOrder
    <2>2. PICK f \in PlanOf(s) : f \in todo[s]
      BY TakenInOrder
    <2>3. PICK m \in A : e = <<<<m, "key">>, Scan[m]>>
      BY <2>1, RemovalLocks
    <2>4. PICK n \in A : f = <<<<n, "key">>, Scan[n]>>
      BY <2>2, RemovalLocks
    <2>5. m # n
      BY <2>1, <2>2, <2>3, <2>4
    <2> QED
      BY <2>5
  <1>5. req[s].tenant \in Tenants
    BY TakenInOrder, RequestShape
  <1> QED
    BY <1>1, <1>2, <1>3, <1>4, <1>5

\* A registration that has shared the role waits for the tenant, which nobody
\* holds who has not taken that role before.
LEMMA RegistrationOutOfRings ==
    ASSUME IndInv, NEW s \in Sessions, NEW t \in Blockers(s),
           HoldsAndWaits(s), HoldsAndWaits(t), ~ Renames(t),
           req[s].op = "register", <<Default[req[s].tenant], "share">> \in held[s]
    PROVE  FALSE
  <1> DEFINE v == req[s].tenant
             d == Default[v]
  <1>0. t \in Sessions /\ s # t
    BY DEF Blockers
  <1>1. PICK a \in Nexts(s), b \in held[t] : Blocks(b, a[1])
    BY DEF Blockers
  <1>2. d \in Roles /\ v \in Tenants /\ \A e \in Nexts(s) : e[1] = <<v, "share">>
    BY RegistrationWaits
  <1>3. a[1] = <<v, "share">> /\ v \notin Keys
    BY <1>2, ThingsAssumption DEF Ids
  <1>4. b[1] = v /\ b[2] = "key"
    <2>1. Conflict(a[1], b)
      BY <1>1, <1>3, BlocksByConflict
    <2> QED
      BY <1>3, <2>1 DEF Conflict
  <1>5. req[t].op # "create"
    <2> SUFFICES ASSUME req[t].op = "create" PROVE FALSE
      OBVIOUS
    <2>1. b[1] \in Names
      BY <1>0, CreationWaits
    <2> QED
      BY <1>3, <1>4, <2>1 DEF Keys
  <1>6. req[t].op # "register"
    <2> SUFFICES ASSUME req[t].op = "register" PROVE FALSE
      OBVIOUS
    <2>1. b[1] \in Emails \/ b = <<Default[req[t].tenant], "share">>
      BY <1>0, RegistrationWaits
    <2> QED
      BY <1>3, <1>4, <2>1 DEF Keys
  <1>7. req[t].op # "remove"
    <2> SUFFICES ASSUME req[t].op = "remove" PROVE FALSE
      OBVIOUS
    <2>1. PICK m \in Memberships : b = <<m, "key">>
      BY <1>0, RemovalHolds
    <2> QED
      BY <1>2, <1>4, <2>1, ThingsAssumption DEF Ids
  <1>8. req[t].op = "delete"
    BY <1>0, <1>5, <1>6, <1>7, SingleLocks
  <1>9. req[t].id = v /\ b = <<v, "key">>
    <2>1. PICK x \in Estate(req[t].id) : b = <<x, "key">>
      BY <1>0, <1>8, DeletionHolds
    <2>2. req[t].id \in Tenants /\ x = v /\ v \in Estate(v)
      BY <1>0, <1>4, <1>8, <2>1, DeletionHolds DEF Estate
    <2> QED
      BY <1>2, <2>1, <2>2, EstatesApart
  <1>10. d \in RolesOf(v)
    <2>1. None \notin Roles
      BY AccountsAssumption
    <2> QED
      BY <1>2, <2>1, AccountsAssumption
  <1>11. <<d, "key">> \in held[t]
    BY <1>0, <1>8, <1>9, <1>10, DeletionHolds
  <1>12. Conflict(<<d, "share">>, <<d, "key">>)
    BY DEF Conflict
  <1> QED
    BY <1>0, <1>11, <1>12 DEF IndInv, LocksExclusive

\* Deletions do not wait for each other half way.
LEMMA DeletionsApart ==
    ASSUME IndInv, NEW s \in Sessions, NEW t \in Blockers(s),
           HoldsAndWaits(s), HoldsAndWaits(t),
           req[s].op = "delete", req[t].op = "delete"
    PROVE  FALSE
  <1>0. t \in Sessions /\ s # t
    BY DEF Blockers
  <1>1. PICK a \in Nexts(s), b \in held[t] : Blocks(b, a[1])
    BY DEF Blockers
  <1>2. PICK x \in Estate(req[s].id) : a = <<<<x, "key">>, Cascade[x]>>
    BY DeletionHolds
  <1>3. PICK y \in Estate(req[t].id) : b = <<y, "key">>
    BY <1>0, DeletionHolds
  <1>4. req[s].id \in Tenants /\ req[t].id \in Tenants
    BY <1>0, DeletionHolds
  <1>5. x \notin Keys
    BY <1>2, <1>4, ThingsAssumption DEF Estate, RolesOf, Children, Ids
  <1>6. x = y
    <2>1. a[1] = <<x, "key">> /\ a[1][1] \notin Keys
      BY <1>2, <1>5
    <2>2. Conflict(a[1], b)
      BY <1>1, <2>1, BlocksByConflict
    <2> QED
      BY <1>3, <2>1, <2>2 DEF Conflict
  <1>7. req[s].id = req[t].id
    BY <1>2, <1>3, <1>4, <1>6, EstatesApart
  <1>8. PlanOf(s) = PlanOf(t)
    BY <1>7 DEF PlanOf
  <1>9. \A e \in PlanOf(s) : \E z \in Estate(req[s].id) : e = <<<<z, "key">>, Cascade[z]>>
    BY DeletionLocks
  <1>10. a[1] \in held[t]
    BY <1>2, <1>3, <1>6
  <1>11. \A e \in PlanOf(s) : e[1][2] = "key"
    BY <1>9
  <1>12. \A e, f \in PlanOf(s) : e[1] = f[1] => e = f
    BY <1>9
  <1> QED
    BY <1>0, <1>8, <1>10, <1>11, <1>12, SamePlanNoRing

\* Neither do removals.
LEMMA RemovalsApart ==
    ASSUME IndInv, NEW s \in Sessions, NEW t \in Blockers(s),
           HoldsAndWaits(s), HoldsAndWaits(t),
           req[s].op = "remove", req[t].op = "remove"
    PROVE  FALSE
  <1>0. t \in Sessions /\ s # t
    BY DEF Blockers
  <1>1. PICK a \in Nexts(s), b \in held[t] : Blocks(b, a[1])
    BY DEF Blockers
  <1>2. PICK m \in Associations(req[s].id, req[s].tenant) : a = <<<<m, "key">>, Scan[m]>>
    BY RemovalHolds
  <1>3. PICK n \in Associations(req[t].id, req[t].tenant) : b = <<n, "key">>
    BY <1>0, RemovalHolds
  <1>4. m \in Memberships /\ m \notin Keys
    BY <1>2, RemovalHolds, ThingsAssumption
  <1>5. m = n
    <2>1. a[1] = <<m, "key">> /\ a[1][1] \notin Keys
      BY <1>2, <1>4
    <2>2. Conflict(a[1], b)
      BY <1>1, <2>1, BlocksByConflict
    <2> QED
      BY <1>3, <2>1, <2>2 DEF Conflict
  <1>6. req[s].id = req[t].id /\ req[s].tenant = req[t].tenant
    BY <1>2, <1>3, <1>5 DEF Associations
  <1>7. PlanOf(s) = PlanOf(t)
    BY <1>6 DEF PlanOf
  <1>8. \A e \in PlanOf(s) :
            \E z \in Associations(req[s].id, req[s].tenant) : e = <<<<z, "key">>, Scan[z]>>
    BY RemovalLocks
  <1>9. a[1] \in held[t]
    BY <1>2, <1>3, <1>5
  <1>10. \A e \in PlanOf(s) : e[1][2] = "key"
    BY <1>8
  <1>11. \A e, f \in PlanOf(s) : e[1] = f[1] => e = f
    BY <1>8
  <1> QED
    BY <1>0, <1>7, <1>9, <1>10, <1>11, SamePlanNoRing

\* A deletion and a removal that are in each other's way share an association.
LEMMA DeletionMeetsRemoval ==
    ASSUME IndInv, NEW s \in Sessions, NEW t \in Sessions,
           HoldsAndWaits(s), HoldsAndWaits(t),
           req[s].op = "delete", req[t].op = "remove",
           s \in Blockers(t) \/ t \in Blockers(s)
    PROVE  Crosses(s, t)
  <1> DEFINE A == Associations(req[t].id, req[t].tenant)
             E == Estate(req[s].id)
  <1>1. \E m, n \in A : m # n
    BY RemovalHolds
  <1>2. A \subseteq Memberships /\ req[s].id \in Tenants /\ req[t].tenant \in Tenants
    BY RemovalHolds, DeletionHolds
  <1>3. E \cap Keys = {} /\ A \cap Keys = {}
    BY <1>2, ThingsAssumption DEF Estate, RolesOf, Children, Ids
  <1>4. \E m \in A : m \in E
    <2>1. CASE s \in Blockers(t)
      <3>1. PICK a \in Nexts(t), b \in held[s] : Blocks(b, a[1])
        BY <2>1 DEF Blockers
      <3>2. PICK m \in A : a = <<<<m, "key">>, Scan[m]>>
        BY RemovalHolds
      <3>3. PICK x \in E : b = <<x, "key">>
        BY DeletionHolds
      <3>4. Conflict(a[1], b)
        BY <1>3, <3>1, <3>2, BlocksByConflict
      <3> QED
        BY <3>2, <3>3, <3>4 DEF Conflict
    <2>2. CASE t \in Blockers(s)
      <3>1. PICK a \in Nexts(s), b \in held[t] : Blocks(b, a[1])
        BY <2>2 DEF Blockers
      <3>2. PICK x \in E : a = <<<<x, "key">>, Cascade[x]>>
        BY DeletionHolds
      <3>3. PICK m \in A : b = <<m, "key">>
        BY RemovalHolds
      <3>4. Conflict(a[1], b)
        BY <1>3, <3>1, <3>2, BlocksByConflict
      <3> QED
        BY <3>2, <3>3, <3>4 DEF Conflict
    <2> QED
      BY <2>1, <2>2
  <1>5. req[t].tenant = req[s].id
    <2>1. PICK m \in A : m \in E
      BY <1>4
    <2>2. m \in Memberships /\ m[3] = req[t].tenant
      BY <1>2, <2>1 DEF Associations
    <2>3. m \in Estate(req[t].tenant)
      BY <2>2 DEF Estate
    <2> QED
      BY <1>2, <2>1, <2>3, EstatesApart
  <1> QED
    BY <1>1, <1>5 DEF Crosses

\* Everybody in a ring is held up by a member that holds something and waits.
LEMMA RingMembers ==
    ASSUME IndInv, NEW D \in SUBSET Sessions, Cycle(D), NEW s \in D
    PROVE  \E t \in D : t \in Blockers(s) /\ HoldsAndWaits(t)
  <1>1. PICK t \in D : t \in Blockers(s)
    BY DEF Cycle
  <1>2. PICK u \in D : u \in Blockers(t)
    BY <1>1 DEF Cycle
  <1>3. held[t] # {} /\ Nexts(t) # {}
    BY <1>1, <1>2 DEF Blockers
  <1>4. todo[t] # {}
    BY <1>3 DEF Nexts
  <1> QED
    BY <1>1, <1>3, <1>4 DEF HoldsAndWaits

\* In a ring without a rename somebody waits for a deletion or a removal.
LEMMA RingReaches ==
    ASSUME IndInv, NEW D \in SUBSET Sessions, Cycle(D),
           \A s \in D : ~ Renames(s), NEW s \in D, HoldsAndWaits(s)
    PROVE  \E t \in D : /\ t \in Blockers(s) /\ HoldsAndWaits(t)
                        /\ req[t].op \in {"delete", "remove"}
  <1>1. PICK t \in D : t \in Blockers(s) /\ HoldsAndWaits(t)
    BY RingMembers
  <1>2. req[t].op = "register" /\ <<Default[req[t].tenant], "share">> \in held[t] => FALSE
    <2> SUFFICES ASSUME req[t].op = "register", <<Default[req[t].tenant], "share">> \in held[t]
                 PROVE  FALSE
      OBVIOUS
    <2>1. PICK u \in D : u \in Blockers(t) /\ HoldsAndWaits(u)
      BY RingMembers
    <2> QED
      BY <1>1, <2>1, RegistrationOutOfRings
  <1> QED
    BY <1>1, <1>2, BlockerKinds

-----------------------------------------------------------------------------
(* Theorems *)

\* The tables and the requests have their types in every reachable state.
THEOREM TypeCorrect == Spec => []TypeOK
  <1>1. IndInv => TypeOK
    BY DEF IndInv
  <1> QED
    BY <1>1, IndInvHolds, PTL

\* A value that the schema declares unique is in one place, committed or
\* flushed, on both definitions of the tables.
THEOREM UniqueValuesHolds == Spec => []UniqueValues
  <1>1. ASSUME IndInv PROVE UniqueValues
    <2>1. Distinct(rows, Declared(schema))
      BY <1>1 DEF IndInv
    <2>2. ASSUME NEW s \in Sessions, NEW k \in Written(s), NEW i \in Ids \ {req[s].id}
          PROVE  k \notin rows[i]
      BY <1>1, <2>2 DEF IndInv, SessionSound, WrittenSound
    <2>3. ASSUME NEW s \in Sessions, NEW k \in Written(s), NEW t \in Sessions \ {s}
          PROVE  k \notin Written(t)
      <3> SUFFICES ASSUME k \in Written(t) PROVE FALSE
        OBVIOUS
      <3>1. <<k, "key">> \in held[s] /\ <<k, "key">> \in held[t]
        BY <2>3 DEF Written
      <3>2. Conflict(<<k, "key">>, <<k, "key">>)
        BY DEF Conflict
      <3> QED
        BY <1>1, <3>1, <3>2 DEF IndInv, LocksExclusive
    <2> QED
      BY <2>1, <2>2, <2>3 DEF UniqueValues
  <1> QED
    BY <1>1, IndInvHolds, PTL

\* Requests deadlock by a rename or a changed email, or by the deletion of a
\* tenant that meets the removal of a member with several roles, and by
\* nothing else, in rings of any length.
THEOREM RingsExplainedHolds == Spec => []RingsExplained
  <1>1. ASSUME IndInv PROVE RingsExplained
    <2> SUFFICES ASSUME NEW D \in SUBSET Sessions, Cycle(D), \A s \in D : ~ Renames(s)
                 PROVE  \E s, t \in D : Crosses(s, t)
      BY DEF RingsExplained
    <2>1. PICK q \in D : TRUE
      BY DEF Cycle
    <2>2. PICK p \in D : HoldsAndWaits(p)
      BY <1>1, <2>1, RingMembers
    <2>3. PICK s \in D : HoldsAndWaits(s) /\ req[s].op \in {"delete", "remove"}
      BY <1>1, <2>2, RingReaches
    <2>4. PICK t \in D : /\ t \in Blockers(s) /\ HoldsAndWaits(t)
                         /\ req[t].op \in {"delete", "remove"}
      BY <1>1, <2>3, RingReaches
    <2>5. ~ (req[s].op = "delete" /\ req[t].op = "delete")
      BY <1>1, <2>3, <2>4, DeletionsApart
    <2>6. ~ (req[s].op = "remove" /\ req[t].op = "remove")
      BY <1>1, <2>3, <2>4, RemovalsApart
    <2>7. Crosses(s, t) \/ Crosses(t, s)
      BY <1>1, <2>3, <2>4, <2>5, <2>6, DeletionMeetsRemoval
    <2> QED
      BY <2>7
  <1> QED
    BY <1>1, IndInvHolds, PTL

\* A user's row is committed together with the membership that the call makes.
THEOREM UsersComeWithMembershipHolds == Spec => UsersComeWithMembership
  <1> DEFINE Step == \A u \in Users :
                        rows[u] = {} /\ rows'[u] # {} =>
                           \E s \in Sessions :
                              /\ pc[s] = "link" /\ req[s].id = u
                              /\ NewMembership(req[s]) \in members' \ members
  <1>1. ASSUME IndInv, [Next]_vars PROVE [Step]_vars
    <2> SUFFICES ASSUME NEW u \in Users, rows[u] = {}, rows'[u] # {}
                 PROVE  \E s \in Sessions :
                              /\ pc[s] = "link" /\ req[s].id = u
                              /\ NewMembership(req[s]) \in members' \ members
      OBVIOUS
    <2>1. rows' # rows
      OBVIOUS
    <2>2. PICK s \in Sessions : ReturnUser(s)
      BY <1>1, <2>1
         DEF Next, vars, tables, Begin, Handle, Lock, Refuse, BreakDeadlock, Abort, RollBack,
             CreateTenant, UpdateTenant, DeleteTenant, UpdateMe, UpdateRow, UpdateStatus,
             RemoveFromTenant, Answer, RegisterUser, DefaultRole, Flush
    <2>3. /\ pc[s] = "link" /\ todo[s] = {}
          /\ rows' = [rows EXCEPT ![req[s].id] = Values(req[s].keys)]
          /\ members' = members \cup {NewMembership(req[s])}
      BY <2>1, <2>2 DEF ReturnUser
    <2>4. rows \in [Ids -> SUBSET Keys] /\ req[s].id \in Users /\ rows[req[s].id] = {}
      BY <1>1, <2>3, Linked DEF IndInv, TypeOK
    <2>5. req[s].id = u
      BY <2>3, <2>4 DEF Ids
    <2>6. NewMembership(req[s]) \notin members
      <3>1. NewMembership(req[s])[1] = u
        BY <2>5 DEF NewMembership
      <3> QED
        BY <1>1, <3>1 DEF IndInv, MembersExist
    <2> QED
      BY <2>3, <2>5, <2>6
  <1>2. Spec => [][Step]_vars
    BY <1>1, IndInvHolds, PTL DEF Spec
  <1> QED
    BY <1>2 DEF UsersComeWithMembership
=============================================================================
