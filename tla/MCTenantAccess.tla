-------------------------- MODULE MCTenantAccess --------------------------
(* A finite instance of TenantAccess for TLC. *)
EXTENDS TenantAccess

CONSTANTS c1, t1, t2, r1, p1, none, refused
=============================================================================
