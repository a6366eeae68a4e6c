----------------- MODULE PhilCoreV2StaticAuthorityVerifier -----------------
(***************************************************************************)
(* PhilCoreV2StaticAuthorityVerifier.sol: the stateless contract that      *)
(* decides whether an authority envelope authorizes a request of the       *)
(* account. An envelope is untrusted input: whoever submits it chooses its *)
(* claims, the descriptors it shows and the signatures it carries.         *)
(*                                                                         *)
(* A signature is the pair of a key and the digest it signed. Encoding     *)
(* lengths, canonical re-encoding, WebAuthn client data and origin policy, *)
(* and curve arithmetic are inside "the signature of this key over this    *)
(* digest"; they can only make the contract refuse more.                   *)
(***************************************************************************)
EXTENDS PhilCoreV2Config

CONSTANTS
    Intents,            \* authorized intents with their user-operation hash
    DescriptorEncoding, \* the evidence format each descriptor's key produces
    Requests,           \* requests the account hands over
    Envelopes(_)        \* envelopes that may come with a request

ASSUME VerifierAssumption ==
    /\ DescriptorEncoding \in [Commitments -> {"webauthn", "native", "secp256k1"}]
    /\ \A req \in Requests :
          /\ req.action \in ActionTypes
          /\ req.validator \in Credentials
          /\ req.config \in [Roles -> Commitments]

VARIABLES request, envelope, verdict
vars == <<request, envelope, verdict>>

(***************************************************************************)
(* The digests. The three type hashes keep the kinds of digest apart; the  *)
(* recovery digest and the validator's part of a configuration rotation    *)
(* name the factor bitmap.                                                 *)
(***************************************************************************)
ValidatorDigest(req) ==
    [kind |-> "validator", intent |-> req.intent, validator |-> req.validator,
     validatorEpoch |-> req.validatorEpoch, recoveryEpoch |-> req.recoveryEpoch]

RecoveryDigest(req, bitmap) ==
    [kind |-> "recovery", intent |-> req.intent, config |-> req.config,
     recoveryEpoch |-> req.recoveryEpoch, bitmap |-> bitmap]

ConfigRotationValidatorDigest(req, bitmap) ==
    [kind |-> "rotation", intent |-> req.intent, validator |-> req.validator.addr,
     validatorEpoch |-> req.validatorEpoch, config |-> req.config,
     recoveryEpoch |-> req.recoveryEpoch, proposedConfig |-> req.proposedConfig,
     proposedRecoveryEpoch |-> req.proposedRecoveryEpoch, bitmap |-> bitmap]

\* The validator envelope repeats the validator and both epochs, and carries
\* one signature that must recover to the validator's address.
VerifyValidatorEnvelope(env, digest, req) ==
    /\ env.validator = req.validator
    /\ env.validatorEpoch = req.validatorEpoch
    /\ env.recoveryEpoch = req.recoveryEpoch
    /\ env.signature = [key |-> req.validator.addr, digest |-> digest]

\* The only bitmaps are the three pairs of roles, lower role first.
FactorRolesFromZero(bitmap) == CASE bitmap = 3 -> <<0, 1>>
                                 [] bitmap \in {5, 6} -> <<0, 2>>
FactorRoles(bitmap) == CASE bitmap = 3 -> <<0, 1>>
                         [] bitmap = 5 -> <<0, 2>>
                         [] bitmap = 6 -> <<1, 2>>

\* Which proposals an action carries, and that a request names itself.
VerifyActionContext(req) ==
    /\ req.action \in {ACTION_RECOVERY_REQUEST, ACTION_RECOVERY_CANCEL}
         => req.proposedValidator # Null /\ req.proposedConfig = Null
    /\ req.action \notin {ACTION_RECOVERY_REQUEST, ACTION_RECOVERY_CANCEL}
         => req.proposedValidator = Null /\ req.proposedConfig # Null
    /\ req.action \in {ACTION_RECOVERY_REQUEST, ACTION_CONFIG_ROTATION_REQUEST}
         => req.requestId = req.intent

\* The signed context must repeat the request, the factor claims must be the
\* commitments stored for the two roles of the bitmap.
VerifyRecoveryContext(context, req) ==
    /\ context.request = req
    /\ req.proposedRecoveryEpoch = req.recoveryEpoch + 1
    /\ ValidRoleCommitments(req.config)
    /\ VerifyActionContext(req)
    /\ context.bitmap \in {3, 5, 6}
    /\ context.first = req.config[FactorRoles(context.bitmap)[1]]
    /\ context.second = req.config[FactorRoles(context.bitmap)[2]]
    /\ context.first # context.second

\* The descriptor shown must be of the role, of the kind its evidence is
\* decoded as, and hash to the commitment.
VerifierKind(role) == IF role = 2 THEN "secp256k1" ELSE "webauthn"

DescriptorShownOnly(descriptor, role, commitment) == TRUE
VerifyDescriptor(descriptor, role, commitment) ==
    /\ DescriptorRole[descriptor] = role
    /\ DescriptorEncoding[descriptor] = VerifierKind(role)
    /\ descriptor = commitment

VerifyNativeDescriptor(descriptor, commitment) ==
    /\ DescriptorRole[descriptor] = 1
    /\ DescriptorEncoding[descriptor] = "native"
    /\ descriptor = commitment

\* The signature must verify under the public key the descriptor commits to.
SignatureVerifies(evidence, digest) ==
    evidence.signature = [key |-> evidence.descriptor, digest |-> digest]

\* Role 1 alone may answer with native evidence, told apart by its length.
VerifyFactorEvidence(evidence, role, commitment, digest) ==
    /\ \/ role = 1 /\ VerifyNativeDescriptor(evidence.descriptor, commitment)
       \/ VerifyDescriptor(evidence.descriptor, role, commitment)
    /\ SignatureVerifies(evidence, digest)

VerifyRecoveryEnvelope(env, req) ==
    /\ VerifyRecoveryContext(env.context, req)
    /\ LET digest == RecoveryDigest(req, env.context.bitmap)
           roles == FactorRoles(env.context.bitmap)
       IN /\ VerifyFactorEvidence(env.firstFactor, roles[1], env.context.first, digest)
          /\ VerifyFactorEvidence(env.secondFactor, roles[2], env.context.second, digest)
    /\ env.firstFactor # env.secondFactor

\* A configuration rotation request carries both envelopes, and the validator
\* signs for the bitmap the recovery envelope claims.
VerifyCombinedEnvelope(env, req) ==
    /\ VerifyRecoveryEnvelope(env.recovery, req)
    /\ VerifyValidatorEnvelope(env.validator,
           ConfigRotationValidatorDigest(req, env.recovery.context.bitmap), req)

ValidatorActions == OrdinaryActions \cup {ACTION_VALIDATOR_ROTATION}

\* verifyAuthority: one kind of envelope per kind of action.
VerifyAuthority(req, env) ==
    /\ req.action \in ActionTypes
    /\ req.action \in ValidatorActions =>
          VerifyValidatorEnvelope(env, ValidatorDigest(req), req)
    /\ req.action \in RecoveryActions \ {ACTION_CONFIG_ROTATION_REQUEST} =>
          VerifyRecoveryEnvelope(env, req)
    /\ req.action = ACTION_CONFIG_ROTATION_REQUEST =>
          VerifyCombinedEnvelope(env, req)

\* The keys whose signatures an envelope carries.
RecoveryKeys(env) == {env.firstFactor.signature.key, env.secondFactor.signature.key}
EnvelopeKeys(action, env) ==
    CASE action \in ValidatorActions -> {env.signature.key}
      [] action \in RecoveryActions \ {ACTION_CONFIG_ROTATION_REQUEST} ->
           RecoveryKeys(env)
      [] action = ACTION_CONFIG_ROTATION_REQUEST ->
           RecoveryKeys(env.recovery) \cup {env.validator.signature.key}

(***************************************************************************)
(* One call: a request and an envelope arrive, the verifier answers with   *)
(* its magic value or reverts.                                             *)
(***************************************************************************)
Init ==
    /\ request \in Requests
    /\ envelope \in Envelopes(request)
    /\ verdict = "called"

ReturnSuccess ==
    /\ verdict = "called"
    /\ VerifyAuthority(request, envelope)
    /\ verdict' = "accepted"
    /\ UNCHANGED <<request, envelope>>

Revert ==
    /\ verdict = "called"
    /\ ~VerifyAuthority(request, envelope)
    /\ verdict' = "reverted"
    /\ UNCHANGED <<request, envelope>>

Next == ReturnSuccess \/ Revert

Spec == Init /\ [][Next]_vars

\* What the account relies on: an accepted envelope carries signatures of
\* keys that together hold the authority the action needs. No claim in the
\* envelope, repeated evidence or factor shown under another role adds one.
AcceptedIsAuthorized ==
    verdict = "accepted" =>
        AuthorityAccepted(request.action, EnvelopeKeys(request.action, envelope),
                          request.validator, request.config)

(***************************************************************************)
(* The envelope the runtime builds from the signatures of the validator    *)
(* and of the two roles of a bitmap.                                       *)
(***************************************************************************)
SignValidator(req, digest) ==
    [validator |-> req.validator, validatorEpoch |-> req.validatorEpoch,
     recoveryEpoch |-> req.recoveryEpoch,
     signature |-> [key |-> req.validator.addr, digest |-> digest]]

SignFactor(commitment, digest) ==
    [descriptor |-> commitment,
     signature |-> [key |-> commitment, digest |-> digest]]

SignRecovery(req, bitmap) ==
    LET first == req.config[FactorRoles(bitmap)[1]]
        second == req.config[FactorRoles(bitmap)[2]]
        digest == RecoveryDigest(req, bitmap)
    IN [context |-> [request |-> req, bitmap |-> bitmap,
                     first |-> first, second |-> second],
        firstFactor |-> SignFactor(first, digest),
        secondFactor |-> SignFactor(second, digest)]

SignedEnvelope(req, bitmap) ==
    CASE req.action \in ValidatorActions -> SignValidator(req, ValidatorDigest(req))
      [] req.action \in RecoveryActions \ {ACTION_CONFIG_ROTATION_REQUEST} ->
           SignRecovery(req, bitmap)
      [] req.action = ACTION_CONFIG_ROTATION_REQUEST ->
           [recovery |-> SignRecovery(req, bitmap),
            validator |-> SignValidator(req, ConfigRotationValidatorDigest(req, bitmap))]

\* Nobody with the authority is locked out: if the holders of a set of keys
\* have the authority, one of the three envelopes they can build is accepted.
\* It needs each role's descriptor to be in the format of its role.
AuthorizedIsAccepted ==
    \A signers \in Coalitions :
        /\ AuthorityAccepted(request.action, signers, request.validator, request.config)
        /\ NeedsTwoRoles(request.action) =>
             /\ request.proposedRecoveryEpoch = request.recoveryEpoch + 1
             /\ ValidRoleCommitments(request.config)
             /\ VerifyActionContext(request)
        => \E bitmap \in {3, 5, 6} :
              /\ EnvelopeKeys(request.action, SignedEnvelope(request, bitmap)) \subseteq signers
              /\ VerifyAuthority(request, SignedEnvelope(request, bitmap))
=============================================================================
