--------------------- MODULE MCPhilCoreV2MinimalAccount ---------------------
(***************************************************************************)
(* Small instances of the V2 account. a1 is deployed as the validator, a2  *)
(* is its replacement; p0, h1 and i2 are the deployed roles and n1 a new   *)
(* hardware key; a digit names the role in the descriptor.                 *)
(***************************************************************************)
EXTENDS PhilCoreV2MinimalAccount

CONSTANTS a1, a2, k1, k2, p0, h1, i2, n1, act1

MCAddresses == {a1, a2}
MCKeyBindings == {k1, k2}
MCCommitments == {p0, h1, i2, n1}
MCDescriptorRole == [c \in MCCommitments |->
                        IF c = p0 THEN 0 ELSE IF c = i2 THEN 2 ELSE 1]
MCInitialValidator == [addr |-> a1, key |-> k1]
MCInitialConfig == [r \in 0..2 |-> IF r = 0 THEN p0 ELSE IF r = 1 THEN h1 ELSE i2]

\* Each validator alone, a single stolen factor, pairs of factors before and
\* after a rotation of role 1, and the owner with the old and the new key.
MCCoalitions == {{a1}, {a2}, {p0}, {p0, h1}, {n1, i2}, {a1, p0, i2}, {a2, p0, h1}}

\* One key binding is enough where no property looks at it.
MCOneKeyBinding == {k1}
=============================================================================
