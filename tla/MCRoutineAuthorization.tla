----------------------- MODULE MCRoutineAuthorization -----------------------
(***************************************************************************)
(* Two requests: one whose outcome is open and one that wants to begin.    *)
(***************************************************************************)
EXTENDS RoutineAuthorization, TLC

CONSTANTS r1, r2

MCRequests == {r1, r2}
MCSymmetry == Permutations(MCRequests)
=============================================================================
