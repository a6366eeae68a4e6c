------------------------- MODULE PhilCoreV2Authority -------------------------
(***************************************************************************)
(* What the V2 account promises about who may act for it: authority        *)
(* changes in atomic steps, each authorized by keys that hold the needed   *)
(* authority at that very moment, and a recovery or a new configuration    *)
(* takes effect only after it stood in public for RecoveryDelay.           *)
(*                                                                         *)
(* There is no EntryPoint here, no bundle, no nonce, no lock and no stored *)
(* source epoch: PhilCoreV2MinimalAccount validates in one loop, executes  *)
(* in another, and is shown to implement this.                             *)
(***************************************************************************)
EXTENDS PhilCoreV2Config

CONSTANTS InitialValidator, InitialConfig

VARIABLES
    validator, validatorEpoch,
    commitments, recoveryEpoch,
    recovery,     \* the validator a recovery proposes and since when, or Null
    rotation,     \* the configuration a rotation proposes and since when, or Null
    now

vars == <<validator, validatorEpoch, commitments, recoveryEpoch, recovery,
          rotation, now>>

Quiet == recovery = Null /\ rotation = Null

Init ==
    /\ validator = InitialValidator /\ validatorEpoch = 1
    /\ commitments = InitialConfig /\ recoveryEpoch = 1
    /\ recovery = Null /\ rotation = Null
    /\ now = 0

\* The validator in force hands over to another one.
Rotate ==
    /\ Quiet
    /\ \E signers \in Coalitions : SignedByValidator(signers, validator)
    /\ validator' \in Credentials
    /\ validator'.addr # validator.addr
    /\ validatorEpoch' = validatorEpoch + 1
    /\ UNCHANGED <<commitments, recoveryEpoch, recovery, rotation, now>>

\* Two roles of the configuration in force open or close a request.
TwoRolesConsent ==
    \E signers \in Coalitions : SignedByTwoRoles(signers, commitments)

OpenRecovery ==
    /\ Quiet
    /\ TwoRolesConsent
    /\ \E c \in Credentials :
          /\ c.addr # validator.addr
          /\ recovery' = [validator |-> c, since |-> now]
    /\ UNCHANGED <<validator, validatorEpoch, commitments, recoveryEpoch,
                   rotation, now>>

CancelRecovery ==
    /\ recovery # Null
    /\ TwoRolesConsent
    /\ recovery' = Null
    /\ UNCHANGED <<validator, validatorEpoch, commitments, recoveryEpoch,
                   rotation, now>>

OpenRotation ==
    /\ Quiet
    /\ TwoRolesConsent
    /\ \E c \in [Roles -> Commitments] :
          /\ ValidRoleCommitments(c)
          /\ \E r \in Roles : {q \in Roles : c[q] # commitments[q]} = {r}
          /\ rotation' = [config |-> c, since |-> now]
    /\ UNCHANGED <<validator, validatorEpoch, commitments, recoveryEpoch,
                   recovery, now>>

CancelRotation ==
    /\ rotation # Null
    /\ TwoRolesConsent
    /\ rotation' = Null
    /\ UNCHANGED <<validator, validatorEpoch, commitments, recoveryEpoch,
                   recovery, now>>

\* After the delay and before the expiry anyone may complete a request, and
\* from the expiry on anyone may discard it.
Matured(since) == since + RecoveryDelay <= now /\ now < since + RecoveryExpiry
Expired(since) == since + RecoveryExpiry <= now

CompleteRecovery ==
    /\ recovery # Null
    /\ Matured(recovery.since)
    /\ validator' = recovery.validator
    /\ validatorEpoch' = validatorEpoch + 1
    /\ recoveryEpoch' = recoveryEpoch + 1
    /\ recovery' = Null
    /\ UNCHANGED <<commitments, rotation, now>>

CompleteRotation ==
    /\ rotation # Null
    /\ Matured(rotation.since)
    /\ commitments' = rotation.config
    /\ recoveryEpoch' = recoveryEpoch + 1
    /\ rotation' = Null
    /\ UNCHANGED <<validator, validatorEpoch, recovery, now>>

ExpireRecovery ==
    /\ recovery # Null
    /\ Expired(recovery.since)
    /\ recovery' = Null
    /\ UNCHANGED <<validator, validatorEpoch, commitments, recoveryEpoch,
                   rotation, now>>

ExpireRotation ==
    /\ rotation # Null
    /\ Expired(rotation.since)
    /\ rotation' = Null
    /\ UNCHANGED <<validator, validatorEpoch, commitments, recoveryEpoch,
                   recovery, now>>

Tick ==
    /\ now' = now + 1
    /\ UNCHANGED <<validator, validatorEpoch, commitments, recoveryEpoch,
                   recovery, rotation>>

Next ==
    \/ Rotate
    \/ OpenRecovery \/ CancelRecovery \/ CompleteRecovery \/ ExpireRecovery
    \/ OpenRotation \/ CancelRotation \/ CompleteRotation \/ ExpireRotation
    \/ Tick

Spec == Init /\ [][Next]_vars
=============================================================================
