----------------------- MODULE MCPhilCore4337Account -----------------------
(***************************************************************************)
(* Three addresses: owner, recovery authority and a newcomer in any role.  *)
(***************************************************************************)
EXTENDS PhilCore4337Account, TLC

CONSTANTS a, b, c

MCAddresses == {a, b, c}
MCSymmetry == Permutations(MCAddresses)
=============================================================================
