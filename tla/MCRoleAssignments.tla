------------------------- MODULE MCRoleAssignments -------------------------
(* Finite instances of RoleAssignments for TLC. *)
EXTENDS RoleAssignments

CONSTANTS s1, s2, u1, u2, ghost

\* Lists that cross (so that inserts can deadlock), shrink, repeat a user,
\* and name a user that does not exist.
MCLists == {<<>>, <<u1>>, <<u1, u2>>, <<u2, u1>>, <<u2, u2>>, <<u1, ghost>>}
=============================================================================
