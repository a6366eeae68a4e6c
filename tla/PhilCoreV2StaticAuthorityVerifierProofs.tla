-------------- MODULE PhilCoreV2StaticAuthorityVerifierProofs --------------
(***************************************************************************)
(* Soundness and completeness of the static authority verifier, for every  *)
(* set of keys, descriptors, requests and envelopes.                       *)
(***************************************************************************)
EXTENDS PhilCoreV2StaticAuthorityVerifier, TLAPS

\* A bitmap names two different roles.
LEMMA TwoRoles ==
    ASSUME NEW bitmap \in {3, 5, 6}
    PROVE  /\ FactorRoles(bitmap)[1] \in Roles /\ FactorRoles(bitmap)[2] \in Roles
           /\ FactorRoles(bitmap)[1] # FactorRoles(bitmap)[2]
<1>1. CASE bitmap = 3
  BY <1>1 DEF FactorRoles, Roles
<1>2. CASE bitmap = 5
  BY <1>2 DEF FactorRoles, Roles
<1>3. CASE bitmap = 6
  BY <1>3 DEF FactorRoles, Roles
<1> QED BY <1>1, <1>2, <1>3

\* An accepted recovery envelope is signed by two roles of the configuration.
LEMMA RecoveryEnvelopeSound ==
    ASSUME NEW env, NEW req, VerifyRecoveryEnvelope(env, req)
    PROVE  SignedByTwoRoles(RecoveryKeys(env), req.config)
<1> DEFINE b == env.context.bitmap
           r == FactorRoles(b)[1]
           s == FactorRoles(b)[2]
           digest == RecoveryDigest(req, b)
<1>1. /\ b \in {3, 5, 6}
      /\ env.context.first = req.config[r] /\ env.context.second = req.config[s]
  BY DEF VerifyRecoveryEnvelope, VerifyRecoveryContext
<1>2. r \in Roles /\ s \in Roles /\ r # s
  BY <1>1, TwoRoles
<1>3. /\ VerifyFactorEvidence(env.firstFactor, r, req.config[r], digest)
      /\ VerifyFactorEvidence(env.secondFactor, s, req.config[s], digest)
  BY <1>1 DEF VerifyRecoveryEnvelope
<1>4. /\ env.firstFactor.signature.key = req.config[r] /\ DescriptorRole[req.config[r]] = r
      /\ env.secondFactor.signature.key = req.config[s] /\ DescriptorRole[req.config[s]] = s
  BY <1>3 DEF VerifyFactorEvidence, VerifyDescriptor, VerifyNativeDescriptor,
              SignatureVerifies
<1>5. /\ SignedByRole(RecoveryKeys(env), req.config, r)
      /\ SignedByRole(RecoveryKeys(env), req.config, s)
  BY <1>4 DEF SignedByRole, RecoveryKeys
<1> QED BY <1>2, <1>5 DEF SignedByTwoRoles

\* An accepted validator envelope is signed by the validator.
LEMMA ValidatorEnvelopeSound ==
    ASSUME NEW env, NEW digest, NEW req, VerifyValidatorEnvelope(env, digest, req)
    PROVE  env.signature.key = req.validator.addr
BY DEF VerifyValidatorEnvelope

\* Whatever an envelope claims, its signatures carry the authority needed.
LEMMA VerifierSound ==
    ASSUME NEW req, NEW env, req.action \in ActionTypes, VerifyAuthority(req, env)
    PROVE  AuthorityAccepted(req.action, EnvelopeKeys(req.action, env),
                             req.validator, req.config)
<1> DEFINE keys == EnvelopeKeys(req.action, env)
<1> USE DEF ACTION_CONFIRM, ACTION_NATIVE_TRANSFER, ACTION_DEPOSIT_WITHDRAWAL,
            ACTION_VALIDATOR_ROTATION, ACTION_RECOVERY_REQUEST, ACTION_RECOVERY_CANCEL,
            ACTION_CONFIG_ROTATION_REQUEST, ACTION_CONFIG_ROTATION_CANCEL
<1>1. CASE req.action \in ValidatorActions
  <2>1. VerifyValidatorEnvelope(env, ValidatorDigest(req), req)
    BY <1>1 DEF VerifyAuthority, ValidatorActions, OrdinaryActions, RecoveryActions
  <2>2. keys = {env.signature.key}
    BY <1>1 DEF EnvelopeKeys, ValidatorActions, OrdinaryActions, RecoveryActions
  <2>3. ~NeedsTwoRoles(req.action)
    BY <1>1 DEF ValidatorActions, OrdinaryActions, NeedsTwoRoles, RecoveryActions
  <2> QED BY <2>1, <2>2, <2>3, ValidatorEnvelopeSound DEF AuthorityAccepted, SignedByValidator
<1>2. CASE req.action \in RecoveryActions \ {ACTION_CONFIG_ROTATION_REQUEST}
  <2>1. VerifyRecoveryEnvelope(env, req)
    BY <1>2 DEF VerifyAuthority, ValidatorActions, OrdinaryActions, RecoveryActions
  <2>2. keys = RecoveryKeys(env)
    BY <1>2 DEF EnvelopeKeys, ValidatorActions, OrdinaryActions, RecoveryActions
  <2>3. ~NeedsValidator(req.action)
    BY <1>2 DEF OrdinaryActions, NeedsValidator, RecoveryActions
  <2> QED BY <2>1, <2>2, <2>3, RecoveryEnvelopeSound DEF AuthorityAccepted
<1>3. CASE req.action = ACTION_CONFIG_ROTATION_REQUEST
  <2> DEFINE digest == ConfigRotationValidatorDigest(req, env.recovery.context.bitmap)
  <2>1. /\ VerifyRecoveryEnvelope(env.recovery, req)
        /\ VerifyValidatorEnvelope(env.validator, digest, req)
        /\ keys = RecoveryKeys(env.recovery) \cup {env.validator.signature.key}
    BY <1>3 DEF VerifyAuthority, VerifyCombinedEnvelope, EnvelopeKeys, ValidatorActions,
                OrdinaryActions, RecoveryActions
  <2>2. SignedByTwoRoles(RecoveryKeys(env.recovery), req.config)
    BY <2>1, RecoveryEnvelopeSound
  <2>3. SignedByTwoRoles(keys, req.config)
    BY <2>1, <2>2 DEF SignedByTwoRoles, SignedByRole
  <2>4. SignedByValidator(keys, req.validator)
    BY <2>1, ValidatorEnvelopeSound DEF SignedByValidator
  <2> QED BY <2>3, <2>4 DEF AuthorityAccepted
<1> QED BY <1>1, <1>2, <1>3 DEF ActionTypes, ValidatorActions

\* The verifier answers only what it has checked.
VerdictChecked ==
    /\ request \in Requests
    /\ verdict = "accepted" => VerifyAuthority(request, envelope)

\* No envelope is accepted without the signatures the account relies on.
THEOREM Soundness == Spec => []AcceptedIsAuthorized
<1>1. Init => VerdictChecked
  BY DEF Init, VerdictChecked
<1>2. VerdictChecked /\ [Next]_vars => VerdictChecked'
  <2> SUFFICES ASSUME VerdictChecked, [Next]_vars PROVE VerdictChecked'
    OBVIOUS
  <2>1. request' = request /\ envelope' = envelope
    BY DEF Next, ReturnSuccess, Revert, vars
  <2>2. verdict' = "accepted" => VerifyAuthority(request, envelope)
    BY DEF Next, ReturnSuccess, Revert, vars, VerdictChecked
  <2> QED BY <2>1, <2>2 DEF VerdictChecked
<1>3. VerdictChecked => AcceptedIsAuthorized
  BY VerifierSound, VerifierAssumption DEF VerdictChecked, AcceptedIsAuthorized
<1> QED BY <1>1, <1>2, <1>3, PTL DEF Spec

-----------------------------------------------------------------------------
\* A descriptor is of a kind its role can answer with.
FitsItsRole(descriptor) ==
    \/ DescriptorEncoding[descriptor] = VerifierKind(DescriptorRole[descriptor])
    \/ DescriptorRole[descriptor] = 1 /\ DescriptorEncoding[descriptor] = "native"

\* Every pair of roles has its bitmap.
LEMMA EveryPair ==
    ASSUME NEW r \in Roles, NEW s \in Roles, r # s
    PROVE  \E bitmap \in {3, 5, 6} :
              {FactorRoles(bitmap)[1], FactorRoles(bitmap)[2]} = {r, s}
<1>1. /\ FactorRoles(3)[1] = 0 /\ FactorRoles(3)[2] = 1
      /\ FactorRoles(5)[1] = 0 /\ FactorRoles(5)[2] = 2
      /\ FactorRoles(6)[1] = 1 /\ FactorRoles(6)[2] = 2
  BY DEF FactorRoles
<1>2. \/ {0, 1} = {r, s} \/ {0, 2} = {r, s} \/ {1, 2} = {r, s}
  BY DEF Roles
<1> QED BY <1>1, <1>2

\* Evidence of a role that fits it verifies.
LEMMA EvidenceComplete ==
    ASSUME NEW c, NEW digest, FitsItsRole(c)
    PROVE  VerifyFactorEvidence(SignFactor(c, digest), DescriptorRole[c], c, digest)
<1>1. /\ SignFactor(c, digest).descriptor = c
      /\ SignFactor(c, digest).signature = [key |-> c, digest |-> digest]
  BY DEF SignFactor
<1> QED BY <1>1 DEF FitsItsRole, VerifyFactorEvidence, VerifyNativeDescriptor,
                    VerifyDescriptor, SignatureVerifies

\* The recovery envelope that two roles sign is accepted.
LEMMA RecoveryEnvelopeComplete ==
    ASSUME NEW req, NEW bitmap \in {3, 5, 6},
           \A c \in Commitments : FitsItsRole(c),
           req.config \in [Roles -> Commitments],
           req.proposedRecoveryEpoch = req.recoveryEpoch + 1,
           ValidRoleCommitments(req.config), VerifyActionContext(req),
           \A k \in {1, 2} : DescriptorRole[req.config[FactorRoles(bitmap)[k]]]
                                = FactorRoles(bitmap)[k]
    PROVE  LET env == SignRecovery(req, bitmap)
           IN /\ VerifyRecoveryEnvelope(env, req)
              /\ env.context.bitmap = bitmap
              /\ RecoveryKeys(env) = {req.config[FactorRoles(bitmap)[1]],
                                      req.config[FactorRoles(bitmap)[2]]}
<1>1. PICK r : r = FactorRoles(bitmap)[1]
  OBVIOUS
<1>2. PICK s : s = FactorRoles(bitmap)[2]
  OBVIOUS
<1>3. r \in Roles /\ s \in Roles /\ r # s
  BY <1>1, <1>2, TwoRoles
<1>4. PICK c : c = req.config[r]
  OBVIOUS
<1>5. PICK d : d = req.config[s]
  OBVIOUS
<1>6. /\ c # d /\ c \in Commitments /\ d \in Commitments
      /\ DescriptorRole[c] = r /\ DescriptorRole[d] = s
  BY <1>1, <1>2, <1>3, <1>4, <1>5 DEF ValidRoleCommitments
<1>7. PICK digest : digest = RecoveryDigest(req, bitmap)
  OBVIOUS
<1>8. PICK env : env = SignRecovery(req, bitmap)
  OBVIOUS
<1>9. /\ env.context.request = req /\ env.context.bitmap = bitmap
      /\ env.context.first = c /\ env.context.second = d
      /\ env.firstFactor = SignFactor(c, digest) /\ env.secondFactor = SignFactor(d, digest)
  BY <1>1, <1>2, <1>4, <1>5, <1>7, <1>8 DEF SignRecovery
<1>10. VerifyRecoveryContext(env.context, req)
  BY <1>1, <1>2, <1>4, <1>5, <1>6, <1>9 DEF VerifyRecoveryContext
<1>11. /\ VerifyFactorEvidence(env.firstFactor, r, c, digest)
       /\ VerifyFactorEvidence(env.secondFactor, s, d, digest)
  BY <1>6, <1>9, EvidenceComplete
<1>12. /\ env.firstFactor # env.secondFactor
       /\ RecoveryKeys(env) = {c, d}
  BY <1>6, <1>9 DEF SignFactor, RecoveryKeys
<1>13. VerifyRecoveryEnvelope(env, req)
  BY <1>1, <1>2, <1>7, <1>9, <1>10, <1>11, <1>12 DEF VerifyRecoveryEnvelope
<1> QED BY <1>1, <1>2, <1>4, <1>5, <1>8, <1>9, <1>12, <1>13

\* The validator's envelope is accepted.
LEMMA ValidatorEnvelopeComplete ==
    ASSUME NEW req, NEW digest
    PROVE  /\ VerifyValidatorEnvelope(SignValidator(req, digest), digest, req)
           /\ SignValidator(req, digest).signature.key = req.validator.addr
BY DEF VerifyValidatorEnvelope, SignValidator

\* Whoever holds the authority an action needs can build an envelope that is
\* accepted.
LEMMA VerifierComplete ==
    ASSUME NEW req, NEW signers, req.action \in ActionTypes,
           \A c \in Commitments : FitsItsRole(c),
           req.config \in [Roles -> Commitments],
           AuthorityAccepted(req.action, signers, req.validator, req.config),
           NeedsTwoRoles(req.action) =>
             /\ req.proposedRecoveryEpoch = req.recoveryEpoch + 1
             /\ ValidRoleCommitments(req.config)
             /\ VerifyActionContext(req)
    PROVE  \E bitmap \in {3, 5, 6} :
              /\ EnvelopeKeys(req.action, SignedEnvelope(req, bitmap)) \subseteq signers
              /\ VerifyAuthority(req, SignedEnvelope(req, bitmap))
<1> USE DEF ACTION_CONFIRM, ACTION_NATIVE_TRANSFER, ACTION_DEPOSIT_WITHDRAWAL,
            ACTION_VALIDATOR_ROTATION, ACTION_RECOVERY_REQUEST, ACTION_RECOVERY_CANCEL,
            ACTION_CONFIG_ROTATION_REQUEST, ACTION_CONFIG_ROTATION_CANCEL
<1>1. CASE req.action \in ValidatorActions
  <2>1. PICK env : env = SignValidator(req, ValidatorDigest(req))
    OBVIOUS
  <2>2. SignedEnvelope(req, 3) = env
    BY <1>1, <2>1 DEF SignedEnvelope, ValidatorActions, OrdinaryActions, RecoveryActions
  <2>3. VerifyValidatorEnvelope(env, ValidatorDigest(req), req)
        /\ env.signature.key = req.validator.addr
    BY <2>1, ValidatorEnvelopeComplete
  <2>4. EnvelopeKeys(req.action, env) = {req.validator.addr}
    BY <1>1, <2>3 DEF EnvelopeKeys, ValidatorActions, OrdinaryActions, RecoveryActions
  <2>5. VerifyAuthority(req, env)
    BY <1>1, <2>3 DEF VerifyAuthority, ValidatorActions, OrdinaryActions, RecoveryActions
  <2>6. req.validator.addr \in signers
    BY <1>1 DEF AuthorityAccepted, SignedByValidator, NeedsValidator, ValidatorActions
  <2> QED BY <2>2, <2>4, <2>5, <2>6
<1>2. CASE req.action \in RecoveryActions
  <2>1. PICK r \in Roles, s \in Roles :
          r # s /\ SignedByRole(signers, req.config, r) /\ SignedByRole(signers, req.config, s)
    BY <1>2 DEF AuthorityAccepted, NeedsTwoRoles, SignedByTwoRoles
  <2>2. PICK bitmap \in {3, 5, 6} : {FactorRoles(bitmap)[1], FactorRoles(bitmap)[2]} = {r, s}
    BY <2>1, EveryPair
  <2>3. \A k \in {1, 2} : SignedByRole(signers, req.config, FactorRoles(bitmap)[k])
    BY <2>1, <2>2
  <2>4. PICK env : env = SignRecovery(req, bitmap)
    OBVIOUS
  <2>5. /\ VerifyRecoveryEnvelope(env, req) /\ env.context.bitmap = bitmap
        /\ RecoveryKeys(env) = {req.config[FactorRoles(bitmap)[1]],
                                req.config[FactorRoles(bitmap)[2]]}
    BY <1>2, <2>3, <2>4, RecoveryEnvelopeComplete DEF NeedsTwoRoles, SignedByRole
  <2>6. RecoveryKeys(env) \subseteq signers
    BY <2>3, <2>5 DEF SignedByRole
  <2>7. CASE req.action # ACTION_CONFIG_ROTATION_REQUEST
    <3>1. SignedEnvelope(req, bitmap) = env
      BY <1>2, <2>4, <2>7 DEF SignedEnvelope, ValidatorActions, OrdinaryActions, RecoveryActions
    <3>2. EnvelopeKeys(req.action, env) = RecoveryKeys(env)
      BY <1>2, <2>7 DEF EnvelopeKeys, ValidatorActions, OrdinaryActions, RecoveryActions
    <3>3. VerifyAuthority(req, env)
      BY <1>2, <2>5, <2>7 DEF VerifyAuthority, ValidatorActions, OrdinaryActions, RecoveryActions
    <3> QED BY <2>6, <3>1, <3>2, <3>3
  <2>8. CASE req.action = ACTION_CONFIG_ROTATION_REQUEST
    <3>1. PICK val : val = SignValidator(req, ConfigRotationValidatorDigest(req, bitmap))
      OBVIOUS
    <3>2. PICK both : both = [recovery |-> env, validator |-> val]
      OBVIOUS
    <3>3. both.recovery = env /\ both.validator = val
      BY <3>2
    <3>4. SignedEnvelope(req, bitmap) = both
      BY <2>4, <2>8, <3>1, <3>2 DEF SignedEnvelope, ValidatorActions, OrdinaryActions,
         RecoveryActions
    <3>5. /\ VerifyValidatorEnvelope(val, ConfigRotationValidatorDigest(req, bitmap), req)
          /\ val.signature.key = req.validator.addr
      BY <3>1, ValidatorEnvelopeComplete
    <3>6. EnvelopeKeys(req.action, both) = RecoveryKeys(env) \cup {req.validator.addr}
      BY <2>8, <3>3, <3>5 DEF EnvelopeKeys, ValidatorActions, OrdinaryActions, RecoveryActions
    <3>7. VerifyAuthority(req, both)
      BY <2>5, <2>8, <3>3, <3>5 DEF VerifyAuthority, VerifyCombinedEnvelope, ValidatorActions,
         OrdinaryActions, RecoveryActions
    <3>8. req.validator.addr \in signers
      BY <2>8 DEF AuthorityAccepted, SignedByValidator, NeedsValidator
    <3> QED BY <2>6, <3>4, <3>6, <3>7, <3>8
  <2> QED BY <2>7, <2>8
<1> QED BY <1>1, <1>2 DEF ActionTypes, ValidatorActions

\* Nobody with the authority is locked out, provided every descriptor was
\* enrolled in a format of its role: verifyAuthority accepts one of the
\* envelopes its holders can build.
THEOREM Completeness ==
    ASSUME \A c \in Commitments : FitsItsRole(c)
    PROVE  Spec => []AuthorizedIsAccepted
<1> DEFINE Inv == request \in Requests
<1>1. Init => Inv
  BY DEF Init
<1>2. Inv /\ [Next]_vars => Inv'
  BY DEF Next, ReturnSuccess, Revert, vars
<1>3. Inv => AuthorizedIsAccepted
  <2> SUFFICES ASSUME Inv, NEW signers \in Coalitions,
                      AuthorityAccepted(request.action, signers, request.validator,
                                        request.config),
                      NeedsTwoRoles(request.action) =>
                        /\ request.proposedRecoveryEpoch = request.recoveryEpoch + 1
                        /\ ValidRoleCommitments(request.config)
                        /\ VerifyActionContext(request)
               PROVE  \E bitmap \in {3, 5, 6} :
                         /\ EnvelopeKeys(request.action, SignedEnvelope(request, bitmap))
                               \subseteq signers
                         /\ VerifyAuthority(request, SignedEnvelope(request, bitmap))
    BY DEF AuthorizedIsAccepted
  <2>1. request.action \in ActionTypes /\ request.config \in [Roles -> Commitments]
    BY VerifierAssumption
  <2> QED BY <2>1, VerifierComplete
<1> QED BY <1>1, <1>2, <1>3, PTL DEF Spec
=============================================================================
