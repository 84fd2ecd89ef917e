----------------------------- MODULE MCApiKeys -----------------------------
(* Finite instances of ApiKeys for TLC. *)
EXTENDS ApiKeys, TLC

CONSTANTS s1, s2, u1, u2, u3, k1, k2, k3, p1, p2, none

\* The keys of a regular user and of a superuser, a key with the token of an
\* inactive user, a token alone, and credentials that are refused at once.
MCCredentials ==
    {[token |-> none, key |-> k1], [token |-> none, key |-> k2],
     [token |-> u3, key |-> k1], [token |-> u1, key |-> none],
     [token |-> "invalid", key |-> k1], [token |-> none, key |-> "unknown"]}

\* A regular user's key, and a superuser's key for a tenant that is not there.
MCCreates ==
    {[scope |-> "GLOBAL", tenant |-> FALSE, exists |-> FALSE, active |-> TRUE,
      deadline |-> 0],
     [scope |-> "TENANT", tenant |-> TRUE, exists |-> FALSE, active |-> TRUE,
      deadline |-> 1]}

Row(u, p, d) == [owner |-> u, prefix |-> p, active |-> TRUE, deadline |-> d,
                 lastUsed |-> 0]

\* Two keys and room for one more; a key with a deadline and room for two.
MCTables ==
    {(k1 :> Row(u1, p1, 0)) @@ (k2 :> Row(u2, p2, 0)) @@ (k3 :> none),
     (k1 :> Row(u1, p1, 1)) @@ (k2 :> none) @@ (k3 :> none)}
=============================================================================
