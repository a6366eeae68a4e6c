------------------- MODULE PhilCoreV2MinimalAccountProofs -------------------
(***************************************************************************)
(* The safety of the V2 account for every set of keys and coalitions,      *)
(* every bundle length and every width of the epoch counters, and the      *)
(* refinement of PhilCoreV2Authority by the account.                       *)
(***************************************************************************)
EXTENDS PhilCoreV2MinimalAccount, TLAPS

(***************************************************************************)
(* The inductive invariant. The properties proved are not inductive by     *)
(* themselves: they rest on what is known of the operations that were      *)
(* validated and still wait in the bundle.                                 *)
(***************************************************************************)

\* Between transactions nothing waits; a call is under way only in a bundle.
PhaseInv ==
    /\ phase = "idle" => bundle = <<>>
    /\ executionLock => phase = "execution" /\ bundle # <<>>

\* Identifiers of pending requests carry a sequence lane 2 has used up.
PendingSequences ==
    /\ pendingRecovery.id # Null => pendingRecovery.id[1] < nonces[2]
    /\ pendingConfig.id # Null => pendingConfig.id[1] < nonces[2]

\* A request pending while an operation waits that was validated when nothing
\* was pending must come from the same bundle, so it cannot be settled yet.
PendingIsFresh ==
    /\ pendingRecovery.id # Null =>
          phase = "execution" /\ pendingRecovery.requestedAt = now
    /\ pendingConfig.id # Null =>
          phase = "execution" /\ pendingConfig.requestedAt = now

\* What is known of a waiting operation.
OpBound(op) ==
    /\ op.validatorEpoch <= validatorEpoch
    /\ op.recoveryEpoch <= recoveryEpoch
    /\ op.validatorEpoch = validatorEpoch /\ NeedsValidator(op.action)
          => SignedByValidator(op.signers, validator)
    /\ op.recoveryEpoch = recoveryEpoch /\ NeedsTwoRoles(op.action)
          => SignedByTwoRoles(op.signers, commitments)

OpOrdinary(op) ==
    /\ op.action \in OrdinaryActions => op.validatorEpoch >= recoveredEpoch
    /\ op.action = ACTION_CONFIRM => op.actionId \in ActionIds

OpFrozen(op) ==
    op.action \notin RecoveryActions /\ pendingRecovery.id # Null =>
        phase = "execution" /\ pendingRecovery.requestedAt = now

OpQuiet(op) ==
    op.action \in {ACTION_VALIDATOR_ROTATION, ACTION_RECOVERY_REQUEST,
                   ACTION_CONFIG_ROTATION_REQUEST} =>
        /\ op.recoveryEpoch = recoveryEpoch
        /\ PendingIsFresh

OpRequest(op) ==
    /\ op.action \in {ACTION_VALIDATOR_ROTATION, ACTION_RECOVERY_REQUEST} =>
          op.proposedEpoch = op.validatorEpoch + 1
    /\ op.action = ACTION_RECOVERY_REQUEST => recoveryEpoch < MaxEpoch
    /\ op.action \in {ACTION_RECOVERY_REQUEST, ACTION_CONFIG_ROTATION_REQUEST} =>
          op.seq < nonces[2]

OpCancel(op) ==
    /\ op.action \in {ACTION_RECOVERY_CANCEL, ACTION_CONFIG_ROTATION_CANCEL} =>
          op.requestId # Null /\ op.requestId[1] < nonces[2]
    /\ op.action = ACTION_RECOVERY_CANCEL /\ op.requestId = pendingRecovery.id =>
          op.validatorEpoch = validatorEpoch /\ op.recoveryEpoch = recoveryEpoch
    /\ op.action = ACTION_CONFIG_ROTATION_CANCEL /\ op.requestId = pendingConfig.id =>
          op.validatorEpoch = validatorEpoch /\ op.recoveryEpoch = recoveryEpoch

OpInv(op) == OpBound(op) /\ OpOrdinary(op) /\ OpFrozen(op) /\ OpQuiet(op)
             /\ OpRequest(op) /\ OpCancel(op)

\* A cancellation that waits names a request older than any request waiting.
CancelsOlder(c, r) ==
    \/ c.action = ACTION_RECOVERY_CANCEL /\ r.action = ACTION_RECOVERY_REQUEST
    \/ c.action = ACTION_CONFIG_ROTATION_CANCEL
         /\ r.action = ACTION_CONFIG_ROTATION_REQUEST
    => c.requestId[1] < r.seq

BundleInv ==
    /\ \A op \in BundledOps : OpInv(op)
    /\ \A c, r \in BundledOps : CancelsOlder(c, r)

\* The part that speaks of the storage alone.
StorageInv ==
    /\ OnePendingRequest
    /\ PendingMatchesEpochs
    /\ ConfigurationValid
    /\ PendingSequences
    /\ pendingConfig.id # Null => ChangesOneRole(pendingConfig.config)
    /\ recoveredEpoch <= validatorEpoch

IInv == TypeOK /\ PhaseInv /\ StorageInv /\ BundleInv

(***************************************************************************)
(* Sequences of operations.                                                *)
(***************************************************************************)

\* Appending an operation to a bundle adds exactly that operation.
LEMMA ElementsAppend ==
    ASSUME NEW S, NEW s \in Seq(S), NEW e \in S
    PROVE  /\ Append(s, e) \in Seq(S)
           /\ Elements(Append(s, e)) = Elements(s) \cup {e}
<1>1. Append(s, e) \in Seq(S) /\ Len(Append(s, e)) = Len(s) + 1 /\ Len(s) \in Nat
  OBVIOUS
<1>2. \A i \in 1..Len(s) : Append(s, e)[i] = s[i]
  OBVIOUS
<1>3. Append(s, e)[Len(s) + 1] = e
  OBVIOUS
<1>4. 1..(Len(s) + 1) = 1..Len(s) \cup {Len(s) + 1}
  BY <1>1
<1> QED BY <1>1, <1>2, <1>3, <1>4 DEF Elements

\* Taking the head off a bundle adds nothing to what waits.
LEMMA ElementsTail ==
    ASSUME NEW S, NEW s \in Seq(S), s # <<>>
    PROVE  /\ Tail(s) \in Seq(S)
           /\ Head(s) \in Elements(s)
           /\ Elements(Tail(s)) \subseteq Elements(s)
           /\ Elements(s) \subseteq S
<1>1. Len(s) \in Nat /\ Len(s) >= 1 /\ Tail(s) \in Seq(S) /\ Len(Tail(s)) = Len(s) - 1
  OBVIOUS
<1>2. \A i \in 1..(Len(s) - 1) : Tail(s)[i] = s[i + 1]
  BY <1>1
<1>3. Head(s) = s[1]
  OBVIOUS
<1>4. \A i \in 1..(Len(s) - 1) : i + 1 \in 1..Len(s)
  BY <1>1
<1>5. \A i \in 1..Len(s) : s[i] \in S
  OBVIOUS
<1> QED BY <1>1, <1>2, <1>3, <1>4, <1>5 DEF Elements

(***************************************************************************)
(* Steps that change nothing an OpInv depends on, except that operations   *)
(* may leave the bundle.                                                   *)
(***************************************************************************)

\* What is known of the waiting operations survives any step that leaves the
\* authority state, the nonces, the phase and the clock alone.
LEMMA Shrinks ==
    ASSUME BundleInv,
           UNCHANGED <<authority, phase, nonces, now, recoveredEpoch>>,
           BundledOps' \subseteq BundledOps
    PROVE  BundleInv'
<1>1. \A op \in BundledOps : OpInv(op)'
  BY DEF BundleInv, OpInv, OpBound, OpOrdinary, OpFrozen, OpQuiet, OpRequest,
         OpCancel, PendingIsFresh, SignedByValidator, SignedByTwoRoles, SignedByRole,
         authority
<1>2. \A c, r \in BundledOps : CancelsOlder(c, r)'
  BY DEF BundleInv, CancelsOlder
<1> QED BY <1>1, <1>2 DEF BundleInv

\* The storage part survives any step that leaves storage and nonces alone.
LEMMA StorageUnchanged ==
    ASSUME StorageInv, UNCHANGED <<authority, nonces, recoveredEpoch>>
    PROVE  StorageInv'
BY DEF StorageInv, OnePendingRequest, PendingMatchesEpochs, ConfigurationValid,
       PendingSequences, ValidRoleCommitments, ChangesOneRole, ChangedRoles, authority

\* The constructor establishes the invariant.
LEMMA InitInv == Init => IInv
<1> SUFFICES ASSUME Init PROVE IInv
  OBVIOUS
<1> USE ConfigAssumption, AccountAssumption
<1>1. TypeOK
  <2>1. validatorEpoch \in Epochs /\ recoveryEpoch \in Epochs /\ recoveredEpoch \in Epochs
    BY DEF Init, Epochs
  <2>2. pendingRecovery \in RecoverySlots
    BY DEF Init, RecoverySlots, NoRecovery, NoCredential, ProposedCredentials, Epochs
  <2>3. pendingConfig \in ConfigSlots
    BY DEF Init, ConfigSlots, NoConfigRotation, NoConfig, Configurations, Epochs
  <2>4. bundle \in Seq(Op)
    BY DEF Init
  <2>5. nonces \in [0..2 -> Nat] /\ confirmedAction \subseteq ActionIds
    BY DEF Init
  <2>6. balance \in Nat /\ frameBalance \in Nat /\ now \in Nat /\ recoveryState \in 0..3
    BY DEF Init
  <2>7. /\ validator \in Credentials /\ commitments \in [Roles -> Commitments]
        /\ executionLock \in BOOLEAN /\ phase \in {"idle", "validation", "execution"}
    BY DEF Init, ValidateInitialization
  <2> QED BY <2>1, <2>2, <2>3, <2>4, <2>5, <2>6, <2>7 DEF TypeOK
<1>2. BundledOps = {}
  BY DEF Init, BundledOps, Elements
<1>3. PhaseInv /\ BundleInv
  BY <1>2 DEF Init, PhaseInv, BundleInv
<1>4. pendingRecovery.id = Null /\ pendingConfig.id = Null
  BY DEF Init, NoRecovery, NoConfigRotation
<1> QED BY <1>1, <1>3, <1>4
        DEF Init, IInv, StorageInv, OnePendingRequest, PendingMatchesEpochs, ConfigurationValid,
            PendingSequences, ValidateInitialization

\* The operation about to execute is typed and satisfies what is known of
\* waiting operations; what remains after it was waiting before.
LEMMA HeadFacts ==
    ASSUME IInv, bundle # <<>>
    PROVE  /\ Head(bundle) \in Op
           /\ Head(bundle) \in BundledOps
           /\ OpInv(Head(bundle))
           /\ Tail(bundle) \in Seq(Op)
           /\ Elements(Tail(bundle)) \subseteq BundledOps
           /\ \A op \in BundledOps : op \in Op
<1>1. bundle \in Seq(Op)
  BY DEF IInv, TypeOK
<1> QED BY <1>1, ElementsTail DEF IInv, BundleInv, BundledOps

(***************************************************************************)
(* Steps of the EntryPoint and of the funds.                               *)
(***************************************************************************)

\* The bundle passes from validation to execution: while anything that was
\* validated with nothing pending waits, nothing is pending yet.
LEMMA BeginExecutionInv == ASSUME IInv, BeginExecution PROVE IInv'
<1> USE DEF BeginExecution
<1>1. TypeOK'
  BY DEF IInv, TypeOK, authority, funds
<1>2. PhaseInv'
  BY DEF IInv, PhaseInv, funds
<1>3. StorageInv'
  BY StorageUnchanged DEF IInv
<1>4. BundledOps' = BundledOps
  BY DEF BundledOps
<1>5. \A op \in BundledOps : OpInv(op)'
  BY DEF IInv, BundleInv, OpInv, OpBound, OpOrdinary, OpFrozen, OpQuiet, OpRequest,
         OpCancel, PendingIsFresh, SignedByValidator, SignedByTwoRoles, SignedByRole,
         authority
<1>6. \A c, r \in BundledOps : CancelsOlder(c, r)'
  BY DEF IInv, BundleInv, CancelsOlder
<1> QED BY <1>1, <1>2, <1>3, <1>4, <1>5, <1>6 DEF IInv, BundleInv

\* Nothing waits when a transaction ends or time passes.
LEMMA EmptyBundleInv ==
    ASSUME IInv, FinishBundle \/ Tick PROVE IInv'
<1> USE DEF FinishBundle, Tick
<1>1. bundle = <<>> /\ bundle' = <<>>
  BY DEF IInv, PhaseInv
<1>2. TypeOK'
  BY DEF IInv, TypeOK, authority, funds
<1>3. PhaseInv'
  BY <1>1 DEF IInv, PhaseInv, funds
<1>4. StorageInv'
  BY StorageUnchanged DEF IInv
<1>5. BundledOps' = {}
  BY <1>1 DEF BundledOps, Elements
<1> QED BY <1>2, <1>3, <1>4, <1>5 DEF IInv, BundleInv

\* An operation that fails, confirms or pays changes no authority.
LEMMA PlainExecutionInv ==
    ASSUME IInv,
           ExecutionReverts \/ ConfirmIntent \/ EnterExecution \/ CallReturns
               \/ CallReverts \/ Receive
    PROVE  IInv'
<1>1. /\ UNCHANGED <<authority, phase, nonces, now, recoveredEpoch>>
      /\ bundle # <<>> \/ bundle' = bundle
      /\ bundle' = bundle \/ bundle' = Tail(bundle)
  BY DEF IInv, PhaseInv, ExecutionReverts, ConfirmIntent, Executing, EnterExecution,
         CallReturns, CallReverts, Receive
<1>2. bundle' \in Seq(Op) /\ BundledOps' \subseteq BundledOps
  BY <1>1, HeadFacts DEF IInv, TypeOK, BundledOps
<1>3. balance' \in Nat /\ frameBalance' \in Nat
  <2>1. balance \in Nat /\ frameBalance \in Nat
    BY DEF IInv, TypeOK
  <2>2. CASE EnterExecution
    <3>1. Head(bundle).amount \in Nat
      BY <2>2, HeadFacts DEF EnterExecution, Op
    <3> QED BY <2>1, <2>2, <3>1 DEF EnterExecution, Funded
  <2>3. CASE ExecutionReverts \/ ConfirmIntent \/ CallReturns \/ CallReverts \/ Receive
    BY <2>1, <2>3 DEF ExecutionReverts, ConfirmIntent, CallReturns, CallReverts,
                      Receive, funds
  <2> QED BY <2>2, <2>3
<1>4. confirmedAction' \subseteq ActionIds /\ executionLock' \in BOOLEAN
  <2>1. confirmedAction \subseteq ActionIds /\ executionLock \in BOOLEAN
    BY DEF IInv, TypeOK
  <2>2. CASE ConfirmIntent
    <3>1. Head(bundle).actionId \in ActionIds
      BY <2>2, HeadFacts DEF ConfirmIntent, Executing, OpInv, OpOrdinary
    <3> QED BY <2>1, <2>2, <3>1 DEF ConfirmIntent, ConfirmPhilCoreAction, funds
  <2>3. CASE ExecutionReverts \/ EnterExecution \/ CallReturns \/ CallReverts \/ Receive
    BY <2>1, <2>3 DEF ExecutionReverts, EnterExecution, CallReturns, CallReverts,
                      Receive, funds
  <2> QED BY <2>2, <2>3
<1>5. TypeOK'
  BY <1>1, <1>2, <1>3, <1>4 DEF IInv, TypeOK, authority
<1>6. PhaseInv'
  BY <1>1 DEF IInv, PhaseInv, ExecutionReverts, ConfirmIntent, Executing,
         EnterExecution, CallReturns, CallReverts, Receive, funds
<1>7. StorageInv'
  BY <1>1, StorageUnchanged DEF IInv
<1>8. BundleInv'
  BY <1>1, <1>2, Shrinks DEF IInv
<1> QED BY <1>5, <1>6, <1>7, <1>8 DEF IInv

(***************************************************************************)
(* Execution of the operations that change authority.                      *)
(***************************************************************************)

\* Rotation: nothing is pending, the epoch of every waiting operation is now
\* an old one.
LEMMA RotateValidatorInv == ASSUME IInv, RotateValidator PROVE IInv'
<1> DEFINE op == Head(bundle)
<1> USE ConfigAssumption
<1>1. /\ op \in Op /\ op \in BundledOps /\ OpInv(op) /\ bundle' \in Seq(Op)
      /\ BundledOps' \subseteq BundledOps
      /\ \A q \in BundledOps : q \in Op
  BY HeadFacts DEF RotateValidator, Executing, BundledOps
<1>2. /\ validator' = op.validator /\ validatorEpoch' = validatorEpoch + 1
      /\ validatorEpoch' \in Epochs /\ validatorEpoch \in Nat
      /\ op.validator \in Credentials
  BY <1>1 DEF RotateValidator, ValidProposedValidator, NextEpoch, Op,
              ProposedCredentials, Credentials, IInv, TypeOK, Epochs
<1>3. pendingRecovery.id = Null /\ pendingConfig.id = Null
  BY DEF RotateValidator, AnyRecoveryPending
<1>4. TypeOK'
  BY <1>1, <1>2 DEF RotateValidator, IInv, TypeOK, funds
<1>5. PhaseInv'
  BY DEF RotateValidator, Executing, IInv, PhaseInv, funds
<1>6. StorageInv'
  BY <1>2, <1>3 DEF RotateValidator, IInv, TypeOK, Epochs, StorageInv,
       OnePendingRequest, PendingMatchesEpochs, ConfigurationValid, PendingSequences,
       ValidRoleCommitments, ChangesOneRole, ChangedRoles
<1>7. ASSUME NEW q \in BundledOps PROVE OpInv(q)'
  <2>1. OpInv(q) /\ q \in Op
    BY <1>1 DEF IInv, BundleInv
  <2>2. /\ q.validatorEpoch \in Nat /\ q.validatorEpoch <= validatorEpoch
        /\ UNCHANGED <<recoveryEpoch, commitments, recoveredEpoch, nonces, phase, now,
                       pendingRecovery, pendingConfig>>
    BY <2>1 DEF OpInv, OpBound, Op, Epochs, RotateValidator
  <2>3. OpBound(q)'
    BY <2>1, <2>2, <1>2 DEF OpInv, OpBound, SignedByTwoRoles, SignedByRole
  <2>4. OpOrdinary(q)' /\ OpFrozen(q)' /\ OpQuiet(q)' /\ OpRequest(q)' /\ OpCancel(q)'
    BY <2>1, <2>2, <1>3 DEF OpInv, OpOrdinary, OpFrozen, OpQuiet, OpRequest, OpCancel,
                            PendingIsFresh
  <2> QED BY <2>3, <2>4 DEF OpInv
<1>8. \A c, r \in BundledOps : CancelsOlder(c, r)'
  BY DEF IInv, BundleInv, CancelsOlder
<1> QED BY <1>1, <1>4, <1>5, <1>6, <1>7, <1>8 DEF IInv, BundleInv

\* A recovery request: its identifier is newer than any a waiting operation
\* names, and it bears this transaction's timestamp.
LEMMA RequestRecoveryInv == ASSUME IInv, RequestRecovery PROVE IInv'
<1> DEFINE op == Head(bundle)
<1> USE ConfigAssumption
<1>1. /\ op \in Op /\ op \in BundledOps /\ OpInv(op) /\ bundle' \in Seq(Op)
      /\ BundledOps' \subseteq BundledOps
      /\ \A q \in BundledOps : q \in Op
  BY HeadFacts DEF RequestRecovery, Executing, BundledOps
<1>2. /\ op.proposedEpoch = validatorEpoch + 1 /\ op.proposedEpoch \in Epochs
      /\ op.validator \in Credentials /\ op.validator.addr # validator.addr
      /\ op.action = ACTION_RECOVERY_REQUEST
  BY <1>1 DEF RequestRecovery, Executing, ValidProposedValidator, NextEpoch, Op,
              ProposedCredentials, Credentials, IInv, TypeOK, Epochs
<1>3. pendingRecovery.id = Null /\ pendingConfig.id = Null
  BY DEF RequestRecovery, AnyRecoveryPending
<1>4. /\ RequestId(op) \in RequestIds /\ RequestId(op)[1] = op.seq
      /\ op.seq \in Nat /\ op.seq < nonces[2] /\ recoveryEpoch < MaxEpoch
  BY <1>1, <1>2 DEF RequestId, RequestIds, Op, OpInv, OpRequest
<1>5. RequestId(op) # Null
  BY <1>4, AccountAssumption
<1>6. /\ pendingRecovery'.id = RequestId(op)
      /\ pendingRecovery'.validator = op.validator
      /\ pendingRecovery'.epoch = validatorEpoch + 1
      /\ pendingRecovery'.sourceValidatorEpoch = validatorEpoch
      /\ pendingRecovery'.sourceRecoveryEpoch = recoveryEpoch
      /\ pendingRecovery'.requestedAt = now
      /\ phase = "execution" /\ recoveryState' = 1
      /\ UNCHANGED <<validator, validatorEpoch, commitments, recoveryEpoch, pendingConfig,
                     funds, confirmedAction, phase, nonces, now, recoveredEpoch>>
  BY <1>2 DEF RequestRecovery, Executing
<1>7. TypeOK'
  <2>1. pendingRecovery' \in RecoverySlots
    BY <1>1, <1>4 DEF RequestRecovery, RecoverySlots, Op, IInv, TypeOK
  <2> QED BY <2>1, <1>1, <1>6 DEF IInv, TypeOK, funds
<1>8. PhaseInv'
  BY <1>6 DEF RequestRecovery, Executing, IInv, PhaseInv, funds
<1>9. StorageInv'
  BY <1>2, <1>3, <1>4, <1>5, <1>6
     DEF IInv, StorageInv, OnePendingRequest, PendingMatchesEpochs, ConfigurationValid,
         PendingSequences, ValidRoleCommitments, ChangesOneRole, ChangedRoles
<1>10. ASSUME NEW q \in BundledOps PROVE OpInv(q)'
  <2>1. OpInv(q) /\ q \in Op
    BY <1>1 DEF IInv, BundleInv
  <2>2. OpBound(q)' /\ OpOrdinary(q)' /\ OpRequest(q)'
    BY <2>1, <1>6 DEF OpInv, OpBound, OpOrdinary, OpRequest, SignedByValidator,
                      SignedByTwoRoles, SignedByRole
  <2>3. OpFrozen(q)' /\ OpQuiet(q)'
    BY <2>1, <1>3, <1>6 DEF OpInv, OpFrozen, OpQuiet, PendingIsFresh
  <2>4. q.action = ACTION_RECOVERY_CANCEL => q.requestId # RequestId(op)
    <3> SUFFICES ASSUME q.action = ACTION_RECOVERY_CANCEL, q.requestId = RequestId(op)
                 PROVE FALSE
      OBVIOUS
    <3>1. q.requestId[1] < op.seq
      BY <1>1, <1>2 DEF IInv, BundleInv, CancelsOlder
    <3> QED BY <3>1, <1>4
  <2>5. OpCancel(q)'
    BY <2>1, <2>4, <1>3, <1>6 DEF OpInv, OpCancel
  <2> QED BY <2>2, <2>3, <2>5 DEF OpInv
<1>11. \A c, r \in BundledOps : CancelsOlder(c, r)'
  BY DEF IInv, BundleInv, CancelsOlder
<1> QED BY <1>1, <1>7, <1>8, <1>9, <1>10, <1>11 DEF IInv, BundleInv

\* A request for a new configuration, along the same lines.
LEMMA RequestRecoveryConfigRotationInv ==
    ASSUME IInv, RequestRecoveryConfigRotation PROVE IInv'
<1> DEFINE op == Head(bundle)
<1> USE ConfigAssumption
<1>1. /\ op \in Op /\ op \in BundledOps /\ OpInv(op) /\ bundle' \in Seq(Op)
      /\ BundledOps' \subseteq BundledOps
      /\ \A q \in BundledOps : q \in Op
  BY HeadFacts DEF RequestRecoveryConfigRotation, Executing, BundledOps
<1>2. /\ op.proposedEpoch = recoveryEpoch + 1 /\ op.proposedEpoch \in Epochs
      /\ op.config \in Configurations /\ ValidRoleCommitments(op.config)
      /\ ChangesOneRole(op.config)
      /\ op.action = ACTION_CONFIG_ROTATION_REQUEST
  BY <1>1 DEF RequestRecoveryConfigRotation, Executing, NextEpoch, Op,
              ValidProposedRecoveryConfiguration
<1>3. op.config \in [Roles -> Commitments]
  BY <1>2 DEF Configurations, ValidRoleCommitments
<1>4. pendingRecovery.id = Null /\ pendingConfig.id = Null
  BY DEF RequestRecoveryConfigRotation, AnyRecoveryPending
<1>5. /\ RequestId(op) \in RequestIds /\ RequestId(op)[1] = op.seq
      /\ op.seq \in Nat /\ op.seq < nonces[2]
  BY <1>1, <1>2 DEF RequestId, RequestIds, Op, OpInv, OpRequest
<1>6. RequestId(op) # Null
  BY <1>5, AccountAssumption
<1>7. /\ pendingConfig'.id = RequestId(op)
      /\ pendingConfig'.config = op.config
      /\ pendingConfig'.epoch = recoveryEpoch + 1
      /\ pendingConfig'.sourceValidatorEpoch = validatorEpoch
      /\ pendingConfig'.sourceRecoveryEpoch = recoveryEpoch
      /\ pendingConfig'.requestedAt = now
      /\ phase = "execution"
      /\ UNCHANGED <<validator, validatorEpoch, recoveryState, commitments, recoveryEpoch,
                     pendingRecovery, funds, confirmedAction, phase, nonces, now,
                     recoveredEpoch>>
  BY <1>2 DEF RequestRecoveryConfigRotation, Executing
<1>8. TypeOK'
  <2>1. pendingConfig' \in ConfigSlots
    BY <1>1, <1>2, <1>5 DEF RequestRecoveryConfigRotation, ConfigSlots, IInv, TypeOK
  <2> QED BY <2>1, <1>1, <1>7 DEF IInv, TypeOK, funds
<1>9. PhaseInv'
  BY <1>7 DEF RequestRecoveryConfigRotation, Executing, IInv, PhaseInv, funds
<1>10. StorageInv'
  BY <1>2, <1>3, <1>4, <1>5, <1>6, <1>7
     DEF IInv, StorageInv, OnePendingRequest, PendingMatchesEpochs, ConfigurationValid,
         PendingSequences, ValidRoleCommitments, ChangesOneRole, ChangedRoles
<1>11. ASSUME NEW q \in BundledOps PROVE OpInv(q)'
  <2>1. OpInv(q) /\ q \in Op
    BY <1>1 DEF IInv, BundleInv
  <2>2. OpBound(q)' /\ OpOrdinary(q)' /\ OpRequest(q)'
    BY <2>1, <1>7 DEF OpInv, OpBound, OpOrdinary, OpRequest, SignedByValidator,
                      SignedByTwoRoles, SignedByRole
  <2>3. OpFrozen(q)' /\ OpQuiet(q)'
    BY <2>1, <1>4, <1>7 DEF OpInv, OpFrozen, OpQuiet, PendingIsFresh
  <2>4. q.action = ACTION_CONFIG_ROTATION_CANCEL => q.requestId # RequestId(op)
    <3> SUFFICES ASSUME q.action = ACTION_CONFIG_ROTATION_CANCEL,
                        q.requestId = RequestId(op)
                 PROVE FALSE
      OBVIOUS
    <3>1. q.requestId[1] < op.seq
      BY <1>1, <1>2 DEF IInv, BundleInv, CancelsOlder
    <3> QED BY <3>1, <1>5
  <2>5. OpCancel(q)'
    BY <2>1, <2>4, <1>4, <1>7 DEF OpInv, OpCancel
  <2> QED BY <2>2, <2>3, <2>5 DEF OpInv
<1>12. \A c, r \in BundledOps : CancelsOlder(c, r)'
  BY DEF IInv, BundleInv, CancelsOlder
<1> QED BY <1>1, <1>8, <1>9, <1>10, <1>11, <1>12 DEF IInv, BundleInv

\* A cancellation clears one request and leaves the other alone.
LEMMA CancelInv ==
    ASSUME IInv, CancelRecovery \/ CancelRecoveryConfigRotation PROVE IInv'
<1> USE ConfigAssumption
<1>1. /\ bundle' \in Seq(Op) /\ BundledOps' \subseteq BundledOps
      /\ \A q \in BundledOps : q \in Op
  BY HeadFacts DEF CancelRecovery, CancelRecoveryConfigRotation, Executing, BundledOps
<1>2. /\ UNCHANGED <<validator, validatorEpoch, commitments, recoveryEpoch, funds,
                     confirmedAction, phase, nonces, now, recoveredEpoch>>
      /\ phase = "execution" /\ ~executionLock
      /\ \/ pendingRecovery' = NoRecovery /\ recoveryState' = 3
              /\ pendingConfig' = pendingConfig
         \/ pendingConfig' = NoConfigRotation
              /\ UNCHANGED <<pendingRecovery, recoveryState>>
  BY DEF CancelRecovery, CancelRecoveryConfigRotation, Executing
<1>3. /\ NoRecovery \in RecoverySlots /\ NoRecovery.id = Null
      /\ NoConfigRotation \in ConfigSlots /\ NoConfigRotation.id = Null
  BY DEF RecoverySlots, NoRecovery, NoCredential, ProposedCredentials, Epochs,
         ConfigSlots, NoConfigRotation, NoConfig, Configurations
<1>4. TypeOK'
  BY <1>1, <1>2, <1>3 DEF IInv, TypeOK, funds
<1>5. PhaseInv'
  BY <1>2 DEF IInv, PhaseInv, funds
<1>6. StorageInv'
  BY <1>2, <1>3
     DEF IInv, StorageInv, OnePendingRequest, PendingMatchesEpochs, ConfigurationValid,
         PendingSequences, ValidRoleCommitments, ChangesOneRole, ChangedRoles
<1>7. ASSUME NEW q \in BundledOps PROVE OpInv(q)'
  <2>1. OpInv(q) /\ q \in Op
    BY <1>1 DEF IInv, BundleInv
  <2>2. OpBound(q)' /\ OpOrdinary(q)' /\ OpRequest(q)'
    BY <2>1, <1>2 DEF OpInv, OpBound, OpOrdinary, OpRequest, SignedByValidator,
                      SignedByTwoRoles, SignedByRole
  <2>3. OpFrozen(q)' /\ OpQuiet(q)' /\ OpCancel(q)'
    BY <2>1, <1>2, <1>3 DEF OpInv, OpFrozen, OpQuiet, OpCancel, PendingIsFresh
  <2> QED BY <2>2, <2>3 DEF OpInv
<1>8. \A c, r \in BundledOps : CancelsOlder(c, r)'
  BY <1>2 DEF IInv, BundleInv, CancelsOlder
<1> QED BY <1>1, <1>4, <1>5, <1>6, <1>7, <1>8 DEF IInv, BundleInv

(***************************************************************************)
(* Settlement. A request past its delay is not of this transaction, so     *)
(* nothing waits that was validated while nothing was pending.             *)
(***************************************************************************)

\* A settled recovery finds only cancellations waiting, and makes them old.
LEMMA SettleRecoveryInv == ASSUME IInv, SettleRecovery PROVE IInv'
<1> USE ConfigAssumption
<1>1. /\ pendingRecovery.id # Null /\ pendingConfig.id = Null
      /\ pendingRecovery.requestedAt \in Nat /\ now \in Nat
      /\ pendingRecovery.requestedAt # now
      /\ ~executionLock
  BY DEF SettleRecovery, Settleable, SettleUnlocked, IInv, TypeOK, StorageInv,
         OnePendingRequest, RecoverySlots
<1>2. /\ validatorEpoch \in Nat /\ recoveryEpoch \in Nat /\ recoveryEpoch < MaxEpoch
      /\ pendingRecovery.epoch = validatorEpoch + 1 /\ pendingRecovery.epoch \in Epochs
      /\ pendingRecovery.validator \in Credentials
      /\ (recoveryEpoch + 1) % (MaxEpoch + 1) = recoveryEpoch + 1
      /\ recoveryEpoch + 1 \in Epochs
  <2>1. /\ validatorEpoch \in Nat /\ recoveryEpoch \in Nat /\ recoveryEpoch < MaxEpoch
        /\ pendingRecovery.epoch = validatorEpoch + 1 /\ pendingRecovery.epoch \in Epochs
        /\ pendingRecovery.validator \in Credentials
    BY <1>1 DEF IInv, TypeOK, Epochs, StorageInv, PendingMatchesEpochs, RecoverySlots
  <2>2. (recoveryEpoch + 1) % (MaxEpoch + 1) = recoveryEpoch + 1
    BY <2>1
  <2> QED BY <2>1, <2>2 DEF Epochs
<1>3. /\ UNCHANGED <<commitments, pendingConfig, funds, confirmedAction, phase, bundle,
                     nonces, now>>
      /\ pendingRecovery' = NoRecovery
      /\ \/ recoveryState' = 0
              /\ UNCHANGED <<validator, validatorEpoch, recoveryEpoch, recoveredEpoch>>
         \/ /\ validator' = pendingRecovery.validator
            /\ validatorEpoch' = validatorEpoch + 1
            /\ recoveryEpoch' = recoveryEpoch + 1
            /\ recoveryState' = 2
            /\ recoveredEpoch' = validatorEpoch + 1
  BY <1>2 DEF SettleRecovery
<1>4. NoRecovery \in RecoverySlots /\ NoRecovery.id = Null
  BY DEF RecoverySlots, NoRecovery, NoCredential, ProposedCredentials, Epochs
<1>5. TypeOK'
  BY <1>2, <1>3, <1>4 DEF IInv, TypeOK, funds
<1>6. PhaseInv'
  BY <1>3 DEF IInv, PhaseInv, funds
<1>7. StorageInv'
  BY <1>1, <1>2, <1>3, <1>4
     DEF IInv, TypeOK, Epochs, StorageInv, OnePendingRequest, PendingMatchesEpochs,
         ConfigurationValid, PendingSequences, ValidRoleCommitments, ChangesOneRole,
         ChangedRoles
<1>8. BundledOps' = BundledOps
  BY <1>3 DEF BundledOps
<1>9. ASSUME NEW q \in BundledOps PROVE OpInv(q)'
  <2>1. OpInv(q) /\ q \in Op
    BY HeadFacts DEF IInv, BundleInv, BundledOps, Elements
  <2>2. q.action \in {ACTION_RECOVERY_CANCEL, ACTION_CONFIG_ROTATION_CANCEL}
    BY <2>1, <1>1 DEF OpInv, OpFrozen, OpQuiet, PendingIsFresh, RecoveryActions
  <2>3. OpBound(q)'
    <3>1. /\ q.validatorEpoch \in Nat /\ q.validatorEpoch <= validatorEpoch
          /\ q.recoveryEpoch \in Nat /\ q.recoveryEpoch <= recoveryEpoch
      BY <2>1 DEF OpInv, OpBound, Op, Epochs
    <3> QED BY <2>1, <3>1, <1>2, <1>3
            DEF OpInv, OpBound, SignedByValidator, SignedByTwoRoles, SignedByRole
  <2>4. OpOrdinary(q)' /\ OpFrozen(q)' /\ OpQuiet(q)' /\ OpRequest(q)'
    BY <2>2, <1>1, <1>3, <1>4
       DEF OpOrdinary, OpFrozen, OpQuiet, OpRequest, OrdinaryActions, RecoveryActions,
           ACTION_CONFIRM, ACTION_NATIVE_TRANSFER, ACTION_DEPOSIT_WITHDRAWAL,
           ACTION_VALIDATOR_ROTATION, ACTION_RECOVERY_REQUEST, ACTION_RECOVERY_CANCEL,
           ACTION_CONFIG_ROTATION_REQUEST, ACTION_CONFIG_ROTATION_CANCEL
  <2>5. OpCancel(q)'
    BY <2>1, <1>1, <1>3, <1>4 DEF OpInv, OpCancel
  <2> QED BY <2>3, <2>4, <2>5 DEF OpInv
<1>10. \A c, r \in BundledOps : CancelsOlder(c, r)'
  BY DEF IInv, BundleInv, CancelsOlder
<1> QED BY <1>5, <1>6, <1>7, <1>8, <1>9, <1>10 DEF IInv, BundleInv

\* A settled configuration rotation may find ordinary operations waiting,
\* which no role signs.
LEMMA SettleRecoveryConfigRotationInv ==
    ASSUME IInv, SettleRecoveryConfigRotation PROVE IInv'
<1> USE ConfigAssumption
<1>1. /\ pendingConfig.id # Null /\ pendingRecovery.id = Null
      /\ pendingConfig.requestedAt \in Nat /\ now \in Nat
      /\ pendingConfig.requestedAt # now
      /\ ~executionLock
  BY DEF SettleRecoveryConfigRotation, Settleable, SettleUnlocked, IInv, TypeOK,
         StorageInv, OnePendingRequest, ConfigSlots
<1>2. /\ validatorEpoch \in Nat /\ recoveryEpoch \in Nat
      /\ pendingConfig.epoch = recoveryEpoch + 1 /\ pendingConfig.epoch \in Epochs
      /\ pendingConfig.config \in [Roles -> Commitments]
      /\ ValidRoleCommitments(pendingConfig.config)
  BY <1>1 DEF IInv, TypeOK, Epochs, StorageInv, PendingMatchesEpochs, ConfigSlots
<1>3. /\ UNCHANGED <<validator, validatorEpoch, recoveryState, pendingRecovery, funds,
                     confirmedAction, phase, bundle, nonces, now, recoveredEpoch>>
      /\ pendingConfig' = NoConfigRotation
      /\ \/ UNCHANGED <<commitments, recoveryEpoch>>
         \/ commitments' = pendingConfig.config /\ recoveryEpoch' = recoveryEpoch + 1
  BY <1>2 DEF SettleRecoveryConfigRotation
<1>4. NoConfigRotation \in ConfigSlots /\ NoConfigRotation.id = Null
  BY DEF Epochs, ConfigSlots, NoConfigRotation, NoConfig, Configurations
<1>5. TypeOK'
  BY <1>2, <1>3, <1>4 DEF IInv, TypeOK, funds
<1>6. PhaseInv'
  BY <1>3 DEF IInv, PhaseInv, funds
<1>7. StorageInv'
  BY <1>1, <1>2, <1>3, <1>4
     DEF IInv, StorageInv, OnePendingRequest, PendingMatchesEpochs,
         ConfigurationValid, PendingSequences, ValidRoleCommitments, ChangesOneRole,
         ChangedRoles
<1>8. BundledOps' = BundledOps
  BY <1>3 DEF BundledOps
<1>9. ASSUME NEW q \in BundledOps PROVE OpInv(q)'
  <2>1. OpInv(q) /\ q \in Op
    BY HeadFacts DEF IInv, BundleInv, BundledOps, Elements
  <2>2. q.action \notin {ACTION_VALIDATOR_ROTATION, ACTION_RECOVERY_REQUEST,
                         ACTION_CONFIG_ROTATION_REQUEST}
    BY <2>1, <1>1 DEF OpInv, OpQuiet, PendingIsFresh
  <2>3. OpBound(q)'
    <3>1. q.recoveryEpoch \in Nat /\ q.recoveryEpoch <= recoveryEpoch
      BY <2>1 DEF OpInv, OpBound, Op, Epochs
    <3> QED BY <2>1, <3>1, <1>2, <1>3
            DEF OpInv, OpBound, SignedByValidator, SignedByTwoRoles, SignedByRole
  <2>4. OpOrdinary(q)' /\ OpFrozen(q)' /\ OpQuiet(q)' /\ OpRequest(q)'
    BY <2>1, <2>2, <1>1, <1>3, <1>4 DEF OpInv, OpOrdinary, OpFrozen, OpQuiet, OpRequest
  <2>5. OpCancel(q)'
    BY <2>1, <1>1, <1>3, <1>4 DEF OpInv, OpCancel
  <2> QED BY <2>3, <2>4, <2>5 DEF OpInv
<1>10. \A c, r \in BundledOps : CancelsOlder(c, r)'
  BY DEF IInv, BundleInv, CancelsOlder
<1> QED BY <1>5, <1>6, <1>7, <1>8, <1>9, <1>10 DEF IInv, BundleInv

(***************************************************************************)
(* Validation, the step that adds to the bundle.                           *)
(***************************************************************************)

\* Whatever call data a signer encodes is typed, and names no request but a
\* pending one.
LEMMA BodyFacts ==
    ASSUME TypeOK, NEW action \in ActionTypes, NEW body \in Bodies(action)
    PROVE  /\ body.validator \in ProposedCredentials
           /\ body.config \in Configurations
           /\ body.proposedEpoch \in Epochs
           /\ body.requestId \in RequestIds \cup {Null}
           /\ body.actionId \in ActionIds \cup {Null}
           /\ body.recipient \in {"none", "account", "external"}
           /\ body.amount \in Nat
<1> USE ConfigAssumption, AccountAssumption
<1>1. /\ NoCredential \in ProposedCredentials /\ NoConfig \in Configurations
      /\ 0 \in Epochs /\ 0 \in Nat
  BY DEF NoCredential, ProposedCredentials, NoConfig, Configurations, Epochs
<1>2. pendingRecovery.id \in RequestIds \cup {Null} /\ pendingConfig.id \in RequestIds \cup {Null}
  BY DEF TypeOK, RecoverySlots, ConfigSlots
<1>3. CASE action = ACTION_CONFIRM
  <2>1. PICK i \in ActionIds \cup {Null} : body = ConfirmBody(i)
    BY <1>3 DEF Bodies, ACTION_CONFIRM, ACTION_NATIVE_TRANSFER, ACTION_DEPOSIT_WITHDRAWAL,
                ACTION_VALIDATOR_ROTATION, ACTION_RECOVERY_REQUEST,
                ACTION_RECOVERY_CANCEL, ACTION_CONFIG_ROTATION_REQUEST,
                ACTION_CONFIG_ROTATION_CANCEL
  <2> QED BY <1>1, <1>2, <2>1 DEF ConfirmBody, NoBody
<1>4. CASE action \in {ACTION_NATIVE_TRANSFER, ACTION_DEPOSIT_WITHDRAWAL}
  <2>1. PICK r \in {"none", "account", "external"}, a \in 0..MaxBalance : body = PayBody(r, a)
    BY <1>4 DEF Bodies, ACTION_CONFIRM, ACTION_NATIVE_TRANSFER, ACTION_DEPOSIT_WITHDRAWAL,
                ACTION_VALIDATOR_ROTATION, ACTION_RECOVERY_REQUEST,
                ACTION_RECOVERY_CANCEL, ACTION_CONFIG_ROTATION_REQUEST,
                ACTION_CONFIG_ROTATION_CANCEL
  <2> QED BY <1>1, <1>2, <2>1 DEF PayBody, NoBody
<1>5. CASE action \in {ACTION_VALIDATOR_ROTATION, ACTION_RECOVERY_REQUEST}
  <2>1. PICK c \in ProposedCredentials, e \in Epochs : body = ValidatorBody(c, e)
    BY <1>5 DEF Bodies, ACTION_CONFIRM, ACTION_NATIVE_TRANSFER, ACTION_DEPOSIT_WITHDRAWAL,
                ACTION_VALIDATOR_ROTATION, ACTION_RECOVERY_REQUEST,
                ACTION_RECOVERY_CANCEL, ACTION_CONFIG_ROTATION_REQUEST,
                ACTION_CONFIG_ROTATION_CANCEL
  <2> QED BY <1>1, <1>2, <2>1 DEF ValidatorBody, NoBody
<1>6. CASE action = ACTION_CONFIG_ROTATION_REQUEST
  <2>1. PICK c \in Configurations, e \in Epochs : body = ConfigBody(c, e)
    BY <1>6 DEF Bodies, ACTION_CONFIRM, ACTION_NATIVE_TRANSFER, ACTION_DEPOSIT_WITHDRAWAL,
                ACTION_VALIDATOR_ROTATION, ACTION_RECOVERY_REQUEST,
                ACTION_RECOVERY_CANCEL, ACTION_CONFIG_ROTATION_REQUEST,
                ACTION_CONFIG_ROTATION_CANCEL
  <2> QED BY <1>1, <1>2, <2>1 DEF ConfigBody, NoBody
<1>7. CASE action \in {ACTION_RECOVERY_CANCEL, ACTION_CONFIG_ROTATION_CANCEL}
  <2>1. PICK i \in {Null, pendingRecovery.id, pendingConfig.id} : body = CancelBody(i)
    BY <1>7 DEF Bodies, ACTION_CONFIRM, ACTION_NATIVE_TRANSFER, ACTION_DEPOSIT_WITHDRAWAL,
                ACTION_VALIDATOR_ROTATION, ACTION_RECOVERY_REQUEST,
                ACTION_RECOVERY_CANCEL, ACTION_CONFIG_ROTATION_REQUEST,
                ACTION_CONFIG_ROTATION_CANCEL
  <2> QED BY <1>1, <1>2, <2>1 DEF CancelBody, NoBody
<1> QED BY <1>3, <1>4, <1>5, <1>6, <1>7
        DEF ActionTypes, OrdinaryActions, RecoveryActions

\* What _decodeAndBindUserOperation and _validateRecoveryState establish of an
\* accepted operation, one fact per group of actions.
LEMMA ValidatedFacts ==
    ASSUME NEW action \in ActionTypes, NEW body,
           ValidRecoveryState(action), ValidBody(action, body)
    PROVE  /\ action \notin RecoveryActions => pendingRecovery.id = Null
           /\ action \in {ACTION_VALIDATOR_ROTATION, ACTION_RECOVERY_REQUEST,
                          ACTION_CONFIG_ROTATION_REQUEST} =>
                pendingRecovery.id = Null /\ pendingConfig.id = Null
           /\ action = ACTION_CONFIRM => body.actionId # Null
           /\ action \in {ACTION_VALIDATOR_ROTATION, ACTION_RECOVERY_REQUEST} =>
                body.proposedEpoch = validatorEpoch + 1
           /\ action = ACTION_RECOVERY_REQUEST => recoveryEpoch < MaxEpoch
           /\ action = ACTION_RECOVERY_CANCEL =>
                body.requestId # Null /\ body.requestId = pendingRecovery.id
           /\ action = ACTION_CONFIG_ROTATION_CANCEL =>
                body.requestId # Null /\ body.requestId = pendingConfig.id
<1> USE DEF ACTION_CONFIRM, ACTION_NATIVE_TRANSFER, ACTION_DEPOSIT_WITHDRAWAL,
            ACTION_VALIDATOR_ROTATION, ACTION_RECOVERY_REQUEST, ACTION_RECOVERY_CANCEL,
            ACTION_CONFIG_ROTATION_REQUEST, ACTION_CONFIG_ROTATION_CANCEL
<1>1. /\ action \notin RecoveryActions => pendingRecovery.id = Null
      /\ action \in {ACTION_VALIDATOR_ROTATION, ACTION_RECOVERY_REQUEST,
                     ACTION_CONFIG_ROTATION_REQUEST} =>
           pendingRecovery.id = Null /\ pendingConfig.id = Null
  BY DEF ValidRecoveryState, RecoveryActions
<1>2. action = ACTION_CONFIRM => body.actionId # Null
  BY DEF ValidBody
<1>3. action = ACTION_VALIDATOR_ROTATION => body.proposedEpoch = validatorEpoch + 1
  BY DEF ValidBody, ValidProposedValidator, NextEpoch
<1>4. action = ACTION_RECOVERY_REQUEST =>
        body.proposedEpoch = validatorEpoch + 1 /\ recoveryEpoch < MaxEpoch
  BY DEF ValidBody, ValidProposedValidator, NextEpoch, RecoveryEpochCanGrow
<1>5. action = ACTION_RECOVERY_CANCEL =>
        body.requestId # Null /\ body.requestId = pendingRecovery.id
  BY DEF ValidBody
<1>6. action = ACTION_CONFIG_ROTATION_CANCEL =>
        body.requestId # Null /\ body.requestId = pendingConfig.id
  BY DEF ValidBody
<1> QED BY <1>1, <1>2, <1>3, <1>4, <1>5, <1>6

\* Nothing waits in the validation loop that could become stale before the
\* execution loop starts, and the new operation is current.
LEMMA ValidateUserOpInv == ASSUME IInv, ValidateUserOp PROVE IInv'
<1> USE ConfigAssumption
<1>1. PICK action \in ActionTypes, signers \in Coalitions :
        /\ ValidRecoveryState(action)
        /\ VerifyAuthority(action, signers)
        /\ \E ve, re \in Epochs :
              /\ ValidHeader(ve, re)
              /\ \E body \in Bodies(action) :
                    /\ ValidBody(action, body)
                    /\ bundle' = Append(bundle,
                           MakeOp(action, nonces[ExpectedNonceLane(action)],
                                  ve, re, body, signers))
        /\ nonces' = [nonces EXCEPT ![ExpectedNonceLane(action)] = @ + 1]
  BY DEF ValidateUserOp
<1> DEFINE lane == ExpectedNonceLane(action)
<1>2. PICK body \in Bodies(action) :
        /\ ValidBody(action, body)
        /\ bundle' = Append(bundle, MakeOp(action, nonces[lane], validatorEpoch,
                                           recoveryEpoch, body, signers))
  BY <1>1 DEF ValidHeader
<1>3. /\ phase # "execution" /\ phase' = "validation" /\ ~executionLock
      /\ UNCHANGED <<authority, executionLock, frameBalance, confirmedAction, now,
                     recoveredEpoch>>
      /\ balance \in Nat /\ balance' \in Nat
  <2>1. balance' \in Nat
    <3>1. PICK missing \in 0..MaxTotalFee : missing <= balance /\ balance' = balance - missing
      BY DEF ValidateUserOp
    <3>2. balance \in Nat /\ missing \in Nat
      BY AccountAssumption DEF IInv, TypeOK
    <3> QED BY <3>1, <3>2
  <2> QED BY <2>1 DEF ValidateUserOp, IInv, PhaseInv, TypeOK
<1>4. /\ lane \in 0..2
      /\ action \in RecoveryActions => lane = 2
  BY DEF ExpectedNonceLane, ActionTypes, OrdinaryActions, RecoveryActions,
         ACTION_CONFIRM, ACTION_NATIVE_TRANSFER, ACTION_DEPOSIT_WITHDRAWAL,
         ACTION_VALIDATOR_ROTATION, ACTION_RECOVERY_REQUEST, ACTION_RECOVERY_CANCEL,
         ACTION_CONFIG_ROTATION_REQUEST, ACTION_CONFIG_ROTATION_CANCEL
<1>5. /\ nonces[lane] \in Nat /\ nonces[2] \in Nat
      /\ nonces' \in [0..2 -> Nat] /\ nonces[2] <= nonces'[2]
      /\ action \in RecoveryActions => nonces'[2] = nonces[2] + 1 /\ nonces[lane] = nonces[2]
  BY <1>1, <1>4 DEF IInv, TypeOK
<1>6. PICK o \in Op :
        /\ bundle' = Append(bundle, o)
        /\ o.action = action /\ o.seq = nonces[lane] /\ o.validatorEpoch = validatorEpoch
        /\ o.recoveryEpoch = recoveryEpoch /\ o.proposedEpoch = body.proposedEpoch
        /\ o.requestId = body.requestId /\ o.actionId = body.actionId
        /\ o.signers = signers
  <2> DEFINE new == MakeOp(action, nonces[lane], validatorEpoch, recoveryEpoch, body, signers)
  <2>1. validatorEpoch \in Epochs /\ recoveryEpoch \in Epochs
    BY DEF IInv, TypeOK
  <2>2. new \in Op
    BY <2>1, <1>5, BodyFacts DEF MakeOp, Op, IInv
  <2> QED BY <2>2, <1>2 DEF MakeOp
<1>7. bundle' \in Seq(Op) /\ BundledOps' = BundledOps \cup {o}
  BY <1>6, ElementsAppend DEF BundledOps, IInv, TypeOK
<1>8. TypeOK'
  BY <1>3, <1>5, <1>7 DEF IInv, TypeOK, authority
<1>9. PhaseInv'
  BY <1>3 DEF PhaseInv
<1>10. StorageInv'
  <2>1. UNCHANGED <<validator, validatorEpoch, recoveryState, commitments, recoveryEpoch,
                    pendingRecovery, pendingConfig, recoveredEpoch>>
    BY <1>3 DEF authority
  <2>2. PendingSequences'
    <3>1. /\ pendingRecovery.id # Null => pendingRecovery.id[1] \in Nat
          /\ pendingConfig.id # Null => pendingConfig.id[1] \in Nat
      BY DEF IInv, TypeOK, RecoverySlots, ConfigSlots, RequestIds
    <3> QED BY <2>1, <3>1, <1>5 DEF IInv, StorageInv, PendingSequences
  <2> QED BY <2>1, <2>2 DEF IInv, StorageInv, OnePendingRequest, PendingMatchesEpochs,
                            ConfigurationValid, ValidRoleCommitments,
                            ChangesOneRole, ChangedRoles
<1>11. ASSUME NEW q \in BundledOps PROVE OpInv(q)'
  <2>1. OpInv(q) /\ q \in Op
    BY HeadFacts DEF IInv, BundleInv, BundledOps, Elements
  <2>2. OpBound(q)' /\ OpOrdinary(q)' /\ OpFrozen(q)' /\ OpQuiet(q)'
    BY <2>1, <1>3 DEF OpInv, OpBound, OpOrdinary, OpFrozen, OpQuiet, PendingIsFresh,
                      SignedByValidator, SignedByTwoRoles, SignedByRole, authority
  <2>3. OpRequest(q)'
    BY <2>1, <1>3, <1>5 DEF OpInv, OpRequest, authority, Op
  <2>4. OpCancel(q)'
    BY <2>1, <1>3, <1>5 DEF OpInv, OpCancel, authority, Op, RequestIds
  <2> QED BY <2>2, <2>3, <2>4 DEF OpInv
<1>12. OpInv(o)'
  <2>1. UNCHANGED <<validator, validatorEpoch, commitments, recoveryEpoch,
                    pendingRecovery, pendingConfig, recoveredEpoch, now>>
    BY <1>3 DEF authority
  <2>2. validatorEpoch \in Nat /\ recoveryEpoch \in Nat
    BY DEF IInv, TypeOK, Epochs
  <2>3. OpBound(o)'
    BY <2>1, <2>2, <1>1, <1>6
       DEF OpBound, VerifyAuthority, AuthorityAccepted, SignedByValidator,
           SignedByTwoRoles, SignedByRole
  <2>4. OpOrdinary(o)'
    <3>1. action = ACTION_CONFIRM => body.actionId \in ActionIds
      BY <1>1, <1>2, ValidatedFacts, BodyFacts DEF IInv
    <3> QED BY <2>1, <2>2, <3>1, <1>6 DEF OpOrdinary, IInv, StorageInv
  <2>5. OpFrozen(o)' /\ OpQuiet(o)'
    BY <2>1, <1>1, <1>2, <1>6, ValidatedFacts DEF OpFrozen, OpQuiet, PendingIsFresh
  <2>6. OpRequest(o)'
    BY <2>1, <1>1, <1>2, <1>5, <1>6, ValidatedFacts DEF OpRequest, RecoveryActions
  <2>7. OpCancel(o)'
    <3>1. /\ action = ACTION_RECOVERY_CANCEL => pendingRecovery.id[1] < nonces[2]
          /\ action = ACTION_CONFIG_ROTATION_CANCEL => pendingConfig.id[1] < nonces[2]
      BY <1>1, <1>2, ValidatedFacts DEF IInv, StorageInv, PendingSequences
    <3>2. /\ action = ACTION_RECOVERY_CANCEL => pendingRecovery.id[1] \in Nat
          /\ action = ACTION_CONFIG_ROTATION_CANCEL => pendingConfig.id[1] \in Nat
      BY <1>1, <1>2, ValidatedFacts
         DEF IInv, TypeOK, RecoverySlots, ConfigSlots, RequestIds
    <3>3. /\ action = ACTION_RECOVERY_CANCEL =>
               body.requestId # Null /\ body.requestId = pendingRecovery.id
          /\ action = ACTION_CONFIG_ROTATION_CANCEL =>
               body.requestId # Null /\ body.requestId = pendingConfig.id
      BY <1>1, <1>2, ValidatedFacts
    <3> QED BY <2>1, <3>1, <3>2, <3>3, <1>5, <1>6 DEF OpCancel
  <2> QED BY <2>3, <2>4, <2>5, <2>6, <2>7 DEF OpInv
<1>13. \A c, r \in BundledOps \cup {o} : CancelsOlder(c, r)
  <2>1. ASSUME NEW r \in BundledOps PROVE CancelsOlder(o, r)
    <3>1. OpInv(r)
      BY DEF IInv, BundleInv
    <3> QED BY <3>1, <1>1, <1>2, <1>3, <1>6, ValidatedFacts
            DEF CancelsOlder, OpInv, OpQuiet, PendingIsFresh
  <2>2. ASSUME NEW c \in BundledOps PROVE CancelsOlder(c, o)
    <3>1. OpInv(c)
      BY DEF IInv, BundleInv
    <3> QED BY <3>1, <1>5, <1>6 DEF CancelsOlder, OpInv, OpCancel, RecoveryActions
  <2>3. CancelsOlder(o, o)
    BY DEF CancelsOlder, ACTION_RECOVERY_REQUEST, ACTION_RECOVERY_CANCEL,
           ACTION_CONFIG_ROTATION_REQUEST, ACTION_CONFIG_ROTATION_CANCEL
  <2> QED BY <2>1, <2>2, <2>3 DEF IInv, BundleInv
<1>14. BundleInv'
  BY <1>7, <1>11, <1>12, <1>13 DEF BundleInv, CancelsOlder
<1> QED BY <1>8, <1>9, <1>10, <1>14 DEF IInv

(***************************************************************************)
(* Safety.                                                                 *)
(***************************************************************************)

\* Every step of the account, the EntryPoint or the public keeps the invariant.
LEMMA NextInv == ASSUME IInv, [Next]_vars PROVE IInv'
<1>1. CASE UNCHANGED vars
  <2>1. TypeOK' /\ PhaseInv'
    BY <1>1 DEF IInv, TypeOK, PhaseInv, vars, authority, funds
  <2>2. StorageInv'
    BY <1>1, StorageUnchanged DEF IInv, vars
  <2>3. BundleInv'
    BY <1>1, Shrinks DEF IInv, vars, BundledOps
  <2> QED BY <2>1, <2>2, <2>3 DEF IInv
<1> QED BY <1>1, ValidateUserOpInv, BeginExecutionInv, EmptyBundleInv, PlainExecutionInv,
           RotateValidatorInv, RequestRecoveryInv, RequestRecoveryConfigRotationInv,
           CancelInv, SettleRecoveryInv, SettleRecoveryConfigRotationInv
        DEF Next

\* The invariant holds in every state of every behaviour of the account.
THEOREM Invariant == Spec => []IInv
<1> QED BY InitInv, NextInv, PTL DEF Spec

\* Types and slot widths hold for every set of keys and every bound.
THEOREM TypeCorrect == Spec => []TypeOK
<1>1. IInv => TypeOK
  BY DEF IInv
<1> QED BY <1>1, Invariant, PTL

\* A recovery and a configuration rotation are never pending together.
THEOREM OnePending == Spec => []OnePendingRequest
<1>1. IInv => OnePendingRequest
  BY DEF IInv, StorageInv
<1> QED BY <1>1, Invariant, PTL

\* A pending request always matches the epochs in force: settlement inside
\* the window never fails on its source-epoch checks.
THEOREM PendingCurrent == Spec => []PendingMatchesEpochs
<1>1. IInv => PendingMatchesEpochs
  BY DEF IInv, StorageInv
<1> QED BY <1>1, Invariant, PTL

\* The roles in force are distinct and no epoch ever wraps, whatever the
\* width of the counters.
THEOREM ConfigurationStaysValid == Spec => []ConfigurationValid
<1>1. IInv => ConfigurationValid
  BY DEF IInv, StorageInv
<1> QED BY <1>1, Invariant, PTL

\* Ordinary and maintenance operations outlive a recovery request only inside
\* the bundle that carried it, whatever its length.
THEOREM FreezeLeak == Spec => []FreezeLeaksOnlyInRequestBundle
<1>1. IInv => FreezeLeaksOnlyInRequestBundle
  BY DEF IInv, BundleInv, OpInv, OpFrozen, FreezeLeaksOnlyInRequestBundle
<1> QED BY <1>1, Invariant, PTL

(***************************************************************************)
(* What a step may never do.                                               *)
(***************************************************************************)

\* The steps that execute the head of the bundle and change authority are the
\* five authority handlers.
LEMMA AuthoritySteps ==
    ASSUME IInv, [Next]_vars, ExecutesHead, authority' # authority
    PROVE  RotateValidator \/ RequestRecovery \/ CancelRecovery
             \/ RequestRecoveryConfigRotation \/ CancelRecoveryConfigRotation
<1>1. bundle' # bundle
  <2> SUFFICES ASSUME bundle' = bundle PROVE FALSE
    OBVIOUS
  <2>1. bundle \in Seq(Op) /\ bundle # <<>>
    BY DEF IInv, TypeOK, ExecutesHead
  <2>2. Len(Tail(bundle)) = Len(bundle) - 1 /\ Len(bundle) \in Nat
    BY ONLY <2>1
  <2>3. Tail(bundle) = bundle
    BY DEF ExecutesHead
  <2> QED BY ONLY <2>2, <2>3
<1>2. ~UNCHANGED vars
  BY DEF vars
<1>3. ~SettleRecovery /\ ~SettleRecoveryConfigRotation
  BY <1>1 DEF SettleRecovery, SettleRecoveryConfigRotation
<1>4. ~ValidateUserOp /\ ~BeginExecution /\ ~FinishBundle /\ ~Receive /\ ~Tick
  BY DEF ValidateUserOp, BeginExecution, FinishBundle, Receive, Tick
<1>5. ~ExecutionReverts /\ ~ConfirmIntent /\ ~EnterExecution /\ ~CallReturns /\ ~CallReverts
  BY DEF ExecutionReverts, ConfirmIntent, EnterExecution, CallReturns, CallReverts
<1> QED BY <1>2, <1>3, <1>4, <1>5 DEF Next

\* The operation that changes authority is bound to the epochs in force and
\* signed by keys in force, at execution.
LEMMA HeadIsCurrent ==
    ASSUME IInv, 
           RotateValidator \/ RequestRecovery \/ CancelRecovery
             \/ RequestRecoveryConfigRotation \/ CancelRecoveryConfigRotation
    PROVE  LET op == Head(bundle) IN
           /\ op.recoveryEpoch = recoveryEpoch
           /\ NeedsTwoRoles(op.action) => SignedByTwoRoles(op.signers, commitments)
           /\ op.action # ACTION_CONFIG_ROTATION_REQUEST =>
                /\ op.validatorEpoch = validatorEpoch
                /\ NeedsValidator(op.action) => SignedByValidator(op.signers, validator)
<1> DEFINE op == Head(bundle)
<1>1. op \in Op /\ OpInv(op)
  BY HeadFacts DEF RotateValidator, RequestRecovery, CancelRecovery,
       RequestRecoveryConfigRotation, CancelRecoveryConfigRotation, Executing
<1>2. /\ op.validatorEpoch \in Nat /\ validatorEpoch \in Nat
      /\ op.proposedEpoch \in Nat
  <2>1. op.validatorEpoch \in Epochs /\ op.proposedEpoch \in Epochs
    BY <1>1 DEF Op
  <2>2. validatorEpoch \in Epochs
    BY DEF IInv, TypeOK
  <2> QED BY <2>1, <2>2 DEF Epochs
<1>3. CASE RotateValidator \/ RequestRecovery
  <2>1. op.recoveryEpoch = recoveryEpoch /\ op.proposedEpoch = op.validatorEpoch + 1
    BY <1>1, <1>3 DEF RotateValidator, RequestRecovery, Executing, OpInv, OpQuiet, OpRequest
  <2>2. op.proposedEpoch = validatorEpoch + 1
    BY <1>3 DEF RotateValidator, RequestRecovery, ValidProposedValidator, NextEpoch
  <2> QED BY <1>1, <1>2, <2>1, <2>2 DEF OpInv, OpBound
<1>4. CASE RequestRecoveryConfigRotation
  <2>1. op.recoveryEpoch = recoveryEpoch /\ op.action = ACTION_CONFIG_ROTATION_REQUEST
    BY <1>1, <1>4 DEF RequestRecoveryConfigRotation, Executing, OpInv, OpQuiet
  <2> QED BY <1>1, <2>1 DEF OpInv, OpBound
<1>5. CASE CancelRecovery \/ CancelRecoveryConfigRotation
  <2>1. op.validatorEpoch = validatorEpoch /\ op.recoveryEpoch = recoveryEpoch
    BY <1>1, <1>5 DEF CancelRecovery, CancelRecoveryConfigRotation, Executing, OpInv,
                      OpCancel
  <2> QED BY <1>1, <2>1 DEF OpInv, OpBound
<1> QED BY <1>3, <1>4, <1>5

\* Authority changes only on an authorization that is still current when it
\* executes, for every interleaving of bundles and settlements.
THEOREM CurrentAuthority == Spec => TransitionsUseCurrentAuthority
<1>1. ASSUME IInv, [Next]_vars
      PROVE  [ExecutesHead /\ authority' # authority =>
                LET op == Head(bundle) IN
                /\ op.recoveryEpoch = recoveryEpoch
                /\ NeedsTwoRoles(op.action) => SignedByTwoRoles(op.signers, commitments)
                /\ op.action # ACTION_CONFIG_ROTATION_REQUEST =>
                     /\ op.validatorEpoch = validatorEpoch
                     /\ NeedsValidator(op.action) =>
                           SignedByValidator(op.signers, validator)]_vars
  BY <1>1, AuthoritySteps, HeadIsCurrent
<1> QED BY <1>1, Invariant, PTL DEF Spec, TransitionsUseCurrentAuthority

\* Nothing signed under a validator that a recovery replaced is paid or
\* confirmed afterwards.
THEOREM ReplacedValidatorIsOut == Spec => NoExecutionUnderReplacedValidator
<1>1. ASSUME IInv, [Next]_vars
      PROVE  [(executionLock' /\ ~executionLock) \/ confirmedAction' # confirmedAction
                => Head(bundle).validatorEpoch >= recoveredEpoch]_vars
  <2> SUFFICES ASSUME Next,
                      (executionLock' /\ ~executionLock)
                         \/ confirmedAction' # confirmedAction
               PROVE  Head(bundle).validatorEpoch >= recoveredEpoch
    BY <1>1
  <2>1. EnterExecution \/ ConfirmIntent
    BY DEF Next, ValidateUserOp, BeginExecution, FinishBundle, ExecutionReverts,
           CallReturns, CallReverts, RotateValidator, RequestRecovery, CancelRecovery,
           RequestRecoveryConfigRotation, CancelRecoveryConfigRotation, SettleRecovery,
           SettleRecoveryConfigRotation, Receive, Tick, funds
  <2>2. bundle # <<>> /\ Head(bundle).action \in OrdinaryActions
    BY <2>1 DEF EnterExecution, ConfirmIntent, Executing, OrdinaryActions
  <2> QED BY <1>1, <2>2, HeadFacts DEF OpInv, OpOrdinary
<1> QED BY <1>1, Invariant, PTL DEF Spec, NoExecutionUnderReplacedValidator

\* No authority changes while a recipient holds control.
THEOREM LockedAuthority == Spec => LockFreezesAuthority
<1>1. ASSUME IInv, [Next]_vars PROVE [executionLock => authority' = authority]_vars
  <2> SUFFICES ASSUME Next, executionLock PROVE authority' = authority
    BY <1>1
  <2> QED BY DEF Next, ValidateUserOp, BeginExecution, FinishBundle, ExecutionReverts,
           CallReturns, CallReverts, EnterExecution, ConfirmIntent, RotateValidator,
           RequestRecovery, CancelRecovery, Executing, SettleUnlocked,
           RequestRecoveryConfigRotation, CancelRecoveryConfigRotation, SettleRecovery,
           SettleRecoveryConfigRotation, Receive, Tick
<1> QED BY <1>1, Invariant, PTL DEF Spec, LockFreezesAuthority

\* Epochs count authorities one by one, at every width of the counters.
THEOREM EpochsCountAuthorities == Spec => EpochsVersionAuthority
<1>1. ASSUME IInv, [Next]_vars
      PROVE  [/\ validatorEpoch' \in {validatorEpoch, validatorEpoch + 1}
              /\ recoveryEpoch' \in {recoveryEpoch, recoveryEpoch + 1}
              /\ validator' # validator <=> validatorEpoch' # validatorEpoch
              /\ commitments' # commitments =>
                   /\ recoveryEpoch' = recoveryEpoch + 1
                   /\ \E r \in Roles :
                        {q \in Roles : commitments'[q] # commitments[q]} = {r}]_vars
  <2> SUFFICES ASSUME Next
               PROVE  /\ validatorEpoch' \in {validatorEpoch, validatorEpoch + 1}
                      /\ recoveryEpoch' \in {recoveryEpoch, recoveryEpoch + 1}
                      /\ validator' # validator <=> validatorEpoch' # validatorEpoch
                      /\ commitments' # commitments =>
                           /\ recoveryEpoch' = recoveryEpoch + 1
                           /\ \E r \in Roles :
                                {q \in Roles : commitments'[q] # commitments[q]} = {r}
    BY <1>1
  <2> USE ConfigAssumption
  <2>1. validatorEpoch \in Nat /\ recoveryEpoch \in Nat /\ MaxEpoch \in Nat
    BY <1>1 DEF IInv, TypeOK, Epochs
  <2>2. CASE RotateValidator
    BY <2>1, <2>2 DEF RotateValidator, ValidProposedValidator, NextEpoch
  <2>3. CASE SettleRecovery
    <3>1. /\ pendingRecovery.epoch = validatorEpoch + 1 /\ recoveryEpoch < MaxEpoch
          /\ pendingRecovery.validator # validator
      BY <1>1, <2>3 DEF SettleRecovery, IInv, StorageInv, PendingMatchesEpochs
    <3>2. (recoveryEpoch + 1) % (MaxEpoch + 1) = recoveryEpoch + 1
      BY <2>1, <3>1
    <3> QED BY <2>1, <2>3, <3>1, <3>2 DEF SettleRecovery
  <2>4. CASE SettleRecoveryConfigRotation
    <3>1. pendingConfig.epoch = recoveryEpoch + 1 /\ ChangesOneRole(pendingConfig.config)
      BY <1>1, <2>4 DEF SettleRecoveryConfigRotation, IInv, StorageInv, PendingMatchesEpochs
    <3> QED BY <2>1, <2>4, <3>1
            DEF SettleRecoveryConfigRotation, ChangesOneRole, ChangedRoles
  <2>5. CASE UNCHANGED <<validator, validatorEpoch, commitments, recoveryEpoch>>
    BY <2>5
  <2> QED BY <2>2, <2>3, <2>4, <2>5
          DEF Next, ValidateUserOp, BeginExecution, FinishBundle, ExecutionReverts,
              ConfirmIntent, EnterExecution, CallReturns, CallReverts, RequestRecovery,
              CancelRecovery, RequestRecoveryConfigRotation,
              CancelRecoveryConfigRotation, Receive, Tick, authority
<1> QED BY <1>1, Invariant, PTL DEF Spec, EpochsVersionAuthority

(***************************************************************************)
(* The account implements its authority specification: each step maps to   *)
(* one atomic, authorized authority change or to a stuttering step.        *)
(***************************************************************************)

\* The pending requests as the abstract specification sees them.
AbstractRecovery == IF pendingRecovery.id = Null THEN Null
                    ELSE [validator |-> pendingRecovery.validator,
                          since |-> pendingRecovery.requestedAt]
AbstractRotation == IF pendingConfig.id = Null THEN Null
                    ELSE [config |-> pendingConfig.config,
                          since |-> pendingConfig.requestedAt]

\* A pending request is never seen as no request.
LEMMA MappedPending ==
    ASSUME IInv
    PROVE  /\ AbstractRecovery = Null <=> pendingRecovery.id = Null
           /\ AbstractRotation = Null <=> pendingConfig.id = Null
<1>1. pendingRecovery.id # Null =>
        AbstractRecovery \in [validator : Credentials, since : Nat]
  BY DEF AbstractRecovery, IInv, TypeOK, RecoverySlots, StorageInv, PendingMatchesEpochs
<1>2. pendingConfig.id # Null =>
        AbstractRotation \in [config : [Roles -> Commitments], since : Nat]
  BY DEF AbstractRotation, IInv, TypeOK, ConfigSlots, StorageInv, PendingMatchesEpochs
<1> QED BY <1>1, <1>2, AccountAssumption DEF AbstractRecovery, AbstractRotation

\* Steps that touch neither authority nor the clock are invisible.
LEMMA Invisible ==
    ASSUME UNCHANGED <<authority, now>>
    PROVE  UNCHANGED Authority!vars
BY DEF Authority!vars, authority

\* A handler that executes is backed by a coalition that holds, now, the
\* authority the abstract step needs.
LEMMA HeadSigners ==
    ASSUME IInv
    PROVE  /\ RotateValidator =>
                \E s \in Coalitions : SignedByValidator(s, validator)
           /\ RequestRecovery \/ CancelRecovery \/ RequestRecoveryConfigRotation
                \/ CancelRecoveryConfigRotation => Authority!TwoRolesConsent
<1> DEFINE op == Head(bundle)
<1> USE DEF ACTION_CONFIRM, ACTION_NATIVE_TRANSFER, ACTION_DEPOSIT_WITHDRAWAL,
            ACTION_VALIDATOR_ROTATION, ACTION_RECOVERY_REQUEST, ACTION_RECOVERY_CANCEL,
            ACTION_CONFIG_ROTATION_REQUEST, ACTION_CONFIG_ROTATION_CANCEL
<1>1. bundle # <<>> => op.signers \in Coalitions
  BY HeadFacts DEF Op
<1>2. ASSUME RotateValidator PROVE \E s \in Coalitions : SignedByValidator(s, validator)
  <2>1. bundle # <<>> /\ op.action = ACTION_VALIDATOR_ROTATION
    BY <1>2 DEF RotateValidator, Executing
  <2> QED BY <1>1, <1>2, <2>1, HeadIsCurrent DEF NeedsValidator
<1>3. ASSUME RequestRecovery \/ CancelRecovery \/ RequestRecoveryConfigRotation
               \/ CancelRecoveryConfigRotation
      PROVE  Authority!TwoRolesConsent
  <2>1. bundle # <<>> /\ op.action \in RecoveryActions
    BY <1>3 DEF RequestRecovery, CancelRecovery, RequestRecoveryConfigRotation,
                CancelRecoveryConfigRotation, Executing, RecoveryActions
  <2>2. SignedByTwoRoles(op.signers, commitments)
    BY <1>3, <2>1, HeadIsCurrent DEF NeedsTwoRoles
  <2> QED BY <1>1, <2>1, <2>2
          DEF Authority!TwoRolesConsent, SignedByTwoRoles, SignedByRole, Roles,
              Authority!SignedByTwoRoles, Authority!SignedByRole, Authority!Roles
<1> QED BY <1>2, <1>3

(***************************************************************************)
(* One lemma per visible step.                                             *)
(***************************************************************************)

\* A rotation hands over at once.
LEMMA RotateRefines == ASSUME IInv, RotateValidator PROVE Authority!Rotate
<1>1. Head(bundle) \in Op
  BY HeadFacts DEF RotateValidator, Executing
<1>2. validator' \in Credentials /\ validator'.addr # validator.addr
  BY <1>1 DEF RotateValidator, ValidProposedValidator, Op, ProposedCredentials, Credentials
<1>3. validatorEpoch' = validatorEpoch + 1
  BY DEF RotateValidator, ValidProposedValidator, NextEpoch
<1>4. Authority!Quiet
  BY DEF RotateValidator, AnyRecoveryPending, Authority!Quiet
<1> QED BY <1>2, <1>3, <1>4, HeadSigners
        DEF RotateValidator, Authority!Rotate, SignedByValidator, Credentials,
            Authority!SignedByValidator, Authority!Credentials

\* A request opens a recovery, dated now.
LEMMA OpenRecoveryRefines == ASSUME IInv, RequestRecovery PROVE Authority!OpenRecovery
<1> DEFINE op == Head(bundle)
<1>1. op \in Op
  BY HeadFacts DEF RequestRecovery, Executing
<1>2. op.validator \in Credentials /\ op.validator.addr # validator.addr
  BY <1>1 DEF RequestRecovery, ValidProposedValidator, Op, ProposedCredentials, Credentials
<1>3. Authority!Quiet
  BY DEF RequestRecovery, AnyRecoveryPending, Authority!Quiet
<1>4. pendingRecovery'.id # Null
  BY <1>1, AccountAssumption DEF RequestRecovery, RequestId, RequestIds, Op
<1>5. AbstractRecovery' = [validator |-> op.validator, since |-> now]
  BY <1>4 DEF RequestRecovery, AbstractRecovery
<1> QED BY <1>2, <1>3, <1>5, HeadSigners
        DEF RequestRecovery, Authority!OpenRecovery, AbstractRecovery, Credentials,
            Authority!Credentials

\* A request opens a configuration rotation, dated now.
LEMMA OpenRotationRefines ==
    ASSUME IInv, RequestRecoveryConfigRotation PROVE Authority!OpenRotation
<1> DEFINE op == Head(bundle)
<1>1. op \in Op
  BY HeadFacts DEF RequestRecoveryConfigRotation, Executing
<1>2. ValidRoleCommitments(op.config) /\ ChangesOneRole(op.config)
  BY DEF RequestRecoveryConfigRotation, ValidProposedRecoveryConfiguration
<1>3. op.config \in [Roles -> Commitments]
  BY <1>1, <1>2 DEF Op, Configurations, ValidRoleCommitments
<1>4. \E r \in Roles : {q \in Roles : op.config[q] # commitments[q]} = {r}
  BY <1>2 DEF ChangesOneRole, ChangedRoles
<1>5. Authority!Quiet
  BY DEF RequestRecoveryConfigRotation, AnyRecoveryPending, Authority!Quiet
<1>6. pendingConfig'.id # Null
  BY <1>1, AccountAssumption DEF RequestRecoveryConfigRotation, RequestId, RequestIds, Op
<1>7. AbstractRotation' = [config |-> op.config, since |-> now]
  BY <1>6 DEF RequestRecoveryConfigRotation, AbstractRotation
<1> QED BY <1>2, <1>3, <1>4, <1>5, <1>7, HeadSigners
        DEF RequestRecoveryConfigRotation, Authority!OpenRotation, AbstractRotation,
            ValidRoleCommitments, Roles, Authority!ValidRoleCommitments, Authority!Roles

\* Two roles close what is open.
LEMMA CancelRefines ==
    ASSUME IInv
    PROVE  /\ CancelRecovery => Authority!CancelRecovery
           /\ CancelRecoveryConfigRotation => Authority!CancelRotation
<1>1. NoRecovery.id = Null /\ NoConfigRotation.id = Null
  BY DEF NoRecovery, NoConfigRotation
<1> QED BY <1>1, HeadSigners, MappedPending
        DEF CancelRecovery, CancelRecoveryConfigRotation, Authority!CancelRecovery,
            Authority!CancelRotation, AbstractRecovery, AbstractRotation

\* A settlement completes what has matured and discards what has expired.
LEMMA SettleRecoveryRefines ==
    ASSUME IInv, SettleRecovery
    PROVE  Authority!CompleteRecovery \/ Authority!ExpireRecovery
<1> USE ConfigAssumption
<1>1. NoRecovery.id = Null
  BY DEF NoRecovery
<1>2. /\ now \in Nat /\ pendingRecovery.requestedAt \in Nat
      /\ pendingRecovery.requestedAt + RecoveryDelay <= now
      /\ pendingRecovery.id # Null
  BY DEF SettleRecovery, Settleable, IInv, TypeOK, RecoverySlots
<1>3. /\ AbstractRecovery # Null /\ AbstractRecovery.validator = pendingRecovery.validator
      /\ AbstractRecovery.since = pendingRecovery.requestedAt
      /\ AbstractRecovery' = Null
      /\ UNCHANGED <<commitments, AbstractRotation, now>>
  BY <1>1, <1>2, MappedPending DEF SettleRecovery, AbstractRecovery, AbstractRotation
<1>4. CASE now >= pendingRecovery.requestedAt + RecoveryExpiry
  BY <1>2, <1>3, <1>4 DEF SettleRecovery, Authority!ExpireRecovery, Authority!Expired,
                          AbstractRecovery, AbstractRotation
<1>5. CASE ~(now >= pendingRecovery.requestedAt + RecoveryExpiry)
  <2>1. /\ recoveryEpoch \in Nat /\ recoveryEpoch < MaxEpoch
        /\ pendingRecovery.epoch = validatorEpoch + 1
    BY <1>2 DEF IInv, TypeOK, Epochs, StorageInv, PendingMatchesEpochs
  <2>2. (recoveryEpoch + 1) % (MaxEpoch + 1) = recoveryEpoch + 1
    BY <2>1
  <2>3. /\ validator' = pendingRecovery.validator /\ validatorEpoch' = validatorEpoch + 1
        /\ recoveryEpoch' = recoveryEpoch + 1
    BY <1>5, <2>1, <2>2 DEF SettleRecovery
  <2>4. Authority!Matured(pendingRecovery.requestedAt)
    BY <1>2, <1>5 DEF Authority!Matured
  <2> QED BY <1>3, <2>3, <2>4
          DEF Authority!CompleteRecovery, AbstractRecovery, AbstractRotation
<1> QED BY <1>4, <1>5

\* The same for a configuration rotation.
LEMMA SettleRotationRefines ==
    ASSUME IInv, SettleRecoveryConfigRotation
    PROVE  Authority!CompleteRotation \/ Authority!ExpireRotation
<1> USE ConfigAssumption
<1>1. NoConfigRotation.id = Null
  BY DEF NoConfigRotation
<1>2. /\ now \in Nat /\ pendingConfig.requestedAt \in Nat
      /\ pendingConfig.requestedAt + RecoveryDelay <= now
      /\ pendingConfig.id # Null
  BY DEF SettleRecoveryConfigRotation, Settleable, IInv, TypeOK, ConfigSlots
<1>3. /\ AbstractRotation # Null /\ AbstractRotation.config = pendingConfig.config
      /\ AbstractRotation.since = pendingConfig.requestedAt
      /\ AbstractRotation' = Null
      /\ UNCHANGED <<validator, validatorEpoch, AbstractRecovery, now>>
  BY <1>1, <1>2, MappedPending
     DEF SettleRecoveryConfigRotation, AbstractRecovery, AbstractRotation
<1>4. CASE now >= pendingConfig.requestedAt + RecoveryExpiry
  BY <1>2, <1>3, <1>4
     DEF SettleRecoveryConfigRotation, Authority!ExpireRotation, Authority!Expired,
         AbstractRecovery, AbstractRotation
<1>5. CASE ~(now >= pendingConfig.requestedAt + RecoveryExpiry)
  <2>1. pendingConfig.epoch = recoveryEpoch + 1
    BY <1>2 DEF IInv, StorageInv, PendingMatchesEpochs
  <2>2. commitments' = pendingConfig.config /\ recoveryEpoch' = recoveryEpoch + 1
    BY <1>5, <2>1 DEF SettleRecoveryConfigRotation
  <2>3. Authority!Matured(pendingConfig.requestedAt)
    BY <1>2, <1>5 DEF Authority!Matured
  <2> QED BY <1>3, <2>2, <2>3
          DEF Authority!CompleteRotation, AbstractRecovery, AbstractRotation
<1> QED BY <1>4, <1>5

(***************************************************************************)
(* The refinement.                                                         *)
(***************************************************************************)

\* The account starts where the abstract specification does.
LEMMA InitRefines == Init => Authority!Init
BY DEF Init, NoRecovery, NoConfigRotation, Authority!Init

\* Every step is an authority step or a stuttering one.
LEMMA NextRefines ==
    ASSUME IInv, [Next]_vars PROVE [Authority!Next]_(Authority!vars)
<1>1. CASE UNCHANGED <<authority, now>>
  BY <1>1, Invisible
<1>2. CASE Tick
  BY <1>2 DEF Tick, Authority!Next, Authority!Tick, authority
<1>3. CASE \/ ValidateUserOp \/ BeginExecution \/ FinishBundle \/ ExecutionReverts
           \/ ConfirmIntent \/ EnterExecution \/ CallReturns \/ CallReverts \/ Receive
           \/ UNCHANGED vars
  BY <1>1, <1>3 DEF ValidateUserOp, BeginExecution, FinishBundle, ExecutionReverts,
       ConfirmIntent, EnterExecution, CallReturns, CallReverts, Receive, vars
<1>4. CASE \/ RotateValidator \/ RequestRecovery \/ CancelRecovery
           \/ RequestRecoveryConfigRotation \/ CancelRecoveryConfigRotation
           \/ SettleRecovery \/ SettleRecoveryConfigRotation
  BY <1>4, RotateRefines, OpenRecoveryRefines, OpenRotationRefines, CancelRefines,
     SettleRecoveryRefines, SettleRotationRefines DEF Authority!Next
<1> QED BY <1>2, <1>3, <1>4 DEF Next

\* Validating in one loop and executing in another is, for every bundle,
\* interleaving and width, as good as checking and acting at once.
THEOREM Refinement == Spec => ImplementsAuthority
<1> QED BY InitRefines, NextRefines, Invariant, PTL
        DEF Spec, ImplementsAuthority, Authority!Spec

=============================================================================
