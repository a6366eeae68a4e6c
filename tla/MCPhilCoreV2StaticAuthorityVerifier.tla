---------------- MODULE MCPhilCoreV2StaticAuthorityVerifier ----------------
(***************************************************************************)
(* Every envelope a submitter can assemble from the keys it controls, for  *)
(* requests of every action type. The configuration in force is either     *)
(* the deployed one or one whose role 1 was rotated to a descriptor of     *)
(* another role, which the account stores but the verifier never accepts.  *)
(***************************************************************************)
EXTENDS PhilCoreV2StaticAuthorityVerifier

CONSTANTS a1, a2, k1, p0, h1, i2, q0, intent1, intent2

MCAddresses == {a1, a2}
MCKeyBindings == {k1}
MCCommitments == {p0, h1, i2, q0}
MCDescriptorRole == [c \in MCCommitments |->
                        IF c = h1 THEN 1 ELSE IF c = i2 THEN 2 ELSE 0]
MCDescriptorEncoding == [c \in MCCommitments |->
    IF c = h1 THEN "native" ELSE IF c = i2 THEN "secp256k1" ELSE "webauthn"]
MCCoalitions == {{a1}, {a2}} \cup
    UNION {{{c, d}, {a1, c, d}} : c, d \in MCCommitments}

Validator1 == [addr |-> a1, key |-> k1]
Deployed == [r \in 0..2 |-> IF r = 0 THEN p0 ELSE IF r = 1 THEN h1 ELSE i2]
Misplaced == [Deployed EXCEPT ![1] = q0]

\* The request the account builds for an action of intent1.
MCRequest(action, config) ==
    [action |-> action, intent |-> intent1, validator |-> Validator1,
     validatorEpoch |-> 1, recoveryEpoch |-> 1, config |-> config,
     requestId |-> IF action \in {8, 10} THEN intent1 ELSE intent2,
     proposedValidator |-> IF action \in {8, 9} THEN [addr |-> a2, key |-> k1] ELSE Null,
     proposedConfig |-> IF action \in {10, 11} THEN Misplaced ELSE Null,
     proposedRecoveryEpoch |-> IF action \in 8..11 THEN 2 ELSE 0]

MCRequests == {MCRequest(action, config) :
                   action \in {1, 2, 6, 7, 8, 9, 10, 11},
                   config \in {Deployed, Misplaced}}

\* Signatures exist over this intent and over another one.
Other(req) == [req EXCEPT !.intent = intent2]

ValidatorEnvelopes(digests) ==
    [validator : {Validator1, [addr |-> a2, key |-> k1]}, validatorEpoch : {1, 2},
     recoveryEpoch : {1}, signature : [key : {a1, a2, p0}, digest : digests]]

Evidence(req, bitmap) ==
    [descriptor : MCCommitments,
     signature : [key : MCCommitments \ {q0},
                  digest : {RecoveryDigest(req, bitmap), RecoveryDigest(Other(req), bitmap)}]]

RecoveryEnvelopes(req) ==
    UNION {[context : [request : {req, Other(req)}, bitmap : {b},
                       first : {p0, h1}, second : {h1, i2, q0}],
            firstFactor : {e \in Evidence(req, b) : e.descriptor \in {p0, h1}},
            secondFactor : {e \in Evidence(req, b) : e.signature.key # q0}] :
           b \in {3, 5, 6, 7}}

\* The pairs for a combined envelope: whole recovery envelopes that are signed
\* correctly or by one role twice, with any validator envelope.
CombinedRecovery(req) ==
    LET good == {SignRecovery(req, b) : b \in {3, 5, 6}}
    IN good \cup {[e EXCEPT !.secondFactor = e.firstFactor] : e \in good}
            \cup {[e EXCEPT !.context.bitmap = 7] : e \in good}

MCEnvelopes(req) ==
    CASE req.action \in ValidatorActions ->
           ValidatorEnvelopes({ValidatorDigest(req), ValidatorDigest(Other(req)),
                               RecoveryDigest(req, 3)})
      [] req.action \in RecoveryActions \ {10} -> RecoveryEnvelopes(req)
      [] req.action = 10 ->
           [recovery : CombinedRecovery(req),
            validator : ValidatorEnvelopes(
                {ValidatorDigest(req)} \cup
                {ConfigRotationValidatorDigest(req, b) : b \in {3, 5, 6}})]
=============================================================================
