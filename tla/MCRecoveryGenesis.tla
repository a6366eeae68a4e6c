------------------------- MODULE MCRecoveryGenesis -------------------------
(* Two enrollment intents, two roles to fill and a credential for each. *)
EXTENDS RecoveryGenesis

CONSTANTS i1, i2, c1, c2
=============================================================================
