------------------------- MODULE MCRecoveryStaging -------------------------
(* Two processes of the user, or one with two roles to stage. *)
EXTENDS RecoveryStaging, TLC

CONSTANTS p1, p2, c1, c2, r1, r2

Symmetry == Permutations(Procs) \cup Permutations(Ceremonies) \cup Permutations(Roles)
=============================================================================
