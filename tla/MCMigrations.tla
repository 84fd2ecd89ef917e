---------------------------- MODULE MCMigrations ----------------------------
(* A finite instance of Migrations for TLC. *)
EXTENDS Migrations
=============================================================================
