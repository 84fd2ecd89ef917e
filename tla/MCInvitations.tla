--------------------------- MODULE MCInvitations ---------------------------
(* Finite instances of Invitations for TLC. *)
EXTENDS Invitations, TLC

CONSTANTS s1, s2, i1, i2, i3, e1, u1, u2, none

MCSymmetry == Permutations(Sessions) \cup Permutations(Invitations)
=============================================================================
