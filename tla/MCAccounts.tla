----------------------------- MODULE MCAccounts -----------------------------
(* A finite instance of Accounts for TLC. *)
EXTENDS Accounts, TLC

CONSTANTS t1, t2, u1, u2, u3, r1, r2, rg, k1,
          n1, n2, n3, g1, g2, g3, e1, e2, e3, null, none

\* The first tenant has two roles, the second one none; one role is global.
MCOwner == (r1 :> t1) @@ (r2 :> t1) @@ (rg :> none)
MCDefault == (t1 :> r1) @@ (t2 :> none)
MCOwned == (t1 :> {k1}) @@ (t2 :> {})

\* The first user has both roles in the first tenant, and the global one.
MCMemberships ==
    {<<u1, r1, t1>>, <<u1, r2, t1>>, <<u1, rg, t1>>, <<u2, r1, t1>>, <<u3, r1, t1>>}

\* Scanned against the order of the roles.
MCScan ==
    (<<u1, rg, t1>> :> 1) @@ (<<u1, r2, t1>> :> 2) @@ (<<u1, r1, t1>> :> 3)
        @@ (<<u2, r1, t1>> :> 4) @@ (<<u3, r1, t1>> :> 5)

MCCascade ==
    (k1 :> 1) @@ (r1 :> 2) @@ (<<u1, r1, t1>> :> 3) @@ (<<u2, r1, t1>> :> 4)
        @@ (<<u3, r1, t1>> :> 5) @@ (r2 :> 6) @@ (<<u1, r2, t1>> :> 7)
        @@ (t1 :> 8) @@ (<<u1, rg, t1>> :> 9) @@ (t2 :> 1)

\* Two tenants, a member of the first, two free ids; in the tables of the
\* migrations the tenants may have the same name.
MCDirectories ==
    {[schema |-> "models",
      rows |-> (t1 :> {n1, g1}) @@ (t2 :> {n2, g2}) @@ (u1 :> {e1})
               @@ (u2 :> {}) @@ (u3 :> {}),
      members |-> {<<u1, r1, t1>>, <<u1, r2, t1>>, <<u1, rg, t1>>}],
     [schema |-> "migrations",
      rows |-> (t1 :> {n1, g1}) @@ (t2 :> {n1, g2}) @@ (u1 :> {e1})
               @@ (u2 :> {}) @@ (u3 :> {}),
      members |-> {}]}

Req(op, id, tenant, keys, autocommit) ==
    [op |-> op, id |-> id, tenant |-> tenant, keys |-> keys,
     autocommit |-> autocommit]

\* Names in use, free and exchanged, a slug in use, a null, an email that
\* several ask for, with and without autocommit, and a tenant without the
\* default role.
MCRequests ==
    {Req("create", none, t1, <<n1, g3>>, FALSE),
     Req("create", none, t1, <<n3, g1>>, FALSE),
     Req("create", none, t1, <<n3, g3>>, FALSE),
     Req("update", t1, t1, <<n2>>, FALSE),
     Req("update", t2, t1, <<n1>>, FALSE),
     Req("update", t1, t1, <<null>>, FALSE),
     Req("update", u1, t1, <<e3>>, FALSE),
     Req("delete", t1, t1, <<>>, FALSE),
     Req("status", u1, t1, <<>>, FALSE),
     Req("remove", u1, t1, <<>>, FALSE),
     Req("register", u2, t1, <<e3>>, TRUE),
     Req("register", u2, t1, <<e3>>, FALSE),
     Req("register", u2, t2, <<e3>>, FALSE),
     Req("register", u3, t1, <<e3>>, TRUE)}
=============================================================================
