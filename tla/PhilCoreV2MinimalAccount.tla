---------------------- MODULE PhilCoreV2MinimalAccount ----------------------
(***************************************************************************)
(* PhilCoreV2MinimalAccountV2.sol between the ERC-4337 EntryPoint that     *)
(* drives it, the recipients it calls and the public that settles its      *)
(* pending requests.                                                       *)
(*                                                                         *)
(* EntryPoint.handleOps is one transaction with two loops: it first calls  *)
(* validateUserOp for every operation of the bundle and only then executes *)
(* them, in order. Anything another contract does in that transaction may  *)
(* happen between two of those calls; block.timestamp cannot change.       *)
(* A bundle with an operation that fails validation reverts as a whole and *)
(* leaves no trace, so only accepted operations are modelled.              *)
(*                                                                         *)
(* Left out: header fields the account only compares with zero or with its *)
(* own constants (chain, entry point, owner commitment, purpose, digests), *)
(* gas arithmetic, and the validity window, which its signer picks freely  *)
(* and which is checked at validation only.                                *)
(***************************************************************************)
EXTENDS PhilCoreV2Config, Sequences

CONSTANTS
    InitialValidator,   \* credential the factory deploys the account with
    InitialConfig,      \* recovery configuration it is deployed with
    ActionIds,          \* action identifiers a confirmation may carry
    MaxTotalFee,        \* header.maxTotalFeeWei
    MaxBalance,         \* bound: wei the account can hold
    MaxNonce,           \* bound: operations per nonce lane
    MaxBundle,          \* bound: operations per bundle
    MaxTime             \* bound: the clock

(***************************************************************************)
(* Requests. A request identifier is the hash of the whole authorized      *)
(* intent; its sequence and proposals are the parts of it that tell two    *)
(* intents of lane 2 apart.                                                *)
(***************************************************************************)
RequestIds == Nat \X ProposedCredentials \X Configurations

\* _validateInitialization of the factory: what an account starts from.
ValidateInitialization(credential, config) ==
    /\ credential \in Credentials
    /\ config \in [Roles -> Commitments]
    /\ ValidRoleCommitments(config)

ASSUME AccountAssumption ==
    /\ ValidateInitialization(InitialValidator, InitialConfig)
    /\ Null \notin ActionIds
    /\ Null \notin RequestIds   \* no intent hashes to zero
    /\ Null \notin [validator : Credentials, since : Nat]
    /\ Null \notin [config : [Roles -> Commitments], since : Nat]
    /\ MaxTotalFee \in Nat /\ MaxBalance \in Nat
    /\ MaxNonce \in Nat /\ MaxBundle \in Nat /\ MaxTime \in Nat

VARIABLES
    \* storage of the account
    validator,        \* _activeValidator with _validatorKeyIdBinding
    validatorEpoch,
    recoveryState,    \* 0 normal, 1 active, 2 completed, 3 cancelled
    executionLock,
    commitments,      \* the three role commitments
    recoveryEpoch,
    pendingRecovery,  \* the _pendingRecovery... slots
    pendingConfig,    \* the _pendingConfig... and _proposed... slots
    balance,
    \* storage of the confirmation target, for this account
    confirmedAction,
    \* the EntryPoint and the chain
    phase,            \* loop of handleOps under way: "idle" between transactions
    bundle,           \* validated operations still to execute
    nonces,           \* next sequence of each nonce lane
    frameBalance,     \* balance to restore when the call under way reverts
    now,
    \* history: the validator epoch the last completed recovery installed
    recoveredEpoch

authority == <<validator, validatorEpoch, recoveryState, commitments,
               recoveryEpoch, pendingRecovery, pendingConfig>>
funds == <<balance, frameBalance, executionLock>>
vars == <<authority, funds, confirmedAction, phase, bundle, nonces, now,
          recoveredEpoch>>

RecoverySlots ==
    [id : RequestIds \cup {Null}, validator : ProposedCredentials, epoch : Epochs,
     sourceValidatorEpoch : Epochs, sourceRecoveryEpoch : Epochs, requestedAt : Nat]
ConfigSlots ==
    [id : RequestIds \cup {Null}, config : Configurations, epoch : Epochs,
     sourceValidatorEpoch : Epochs, sourceRecoveryEpoch : Epochs, requestedAt : Nat]

NoCredential == [addr |-> Null, key |-> Null]
NoConfig == [r \in Roles |-> Null]

\* _clearPendingRecovery and _clearPendingConfig zero every slot.
NoRecovery == [id |-> Null, validator |-> NoCredential, epoch |-> 0,
               sourceValidatorEpoch |-> 0, sourceRecoveryEpoch |-> 0,
               requestedAt |-> 0]
NoConfigRotation == [id |-> Null, config |-> NoConfig, epoch |-> 0,
                     sourceValidatorEpoch |-> 0, sourceRecoveryEpoch |-> 0,
                     requestedAt |-> 0]

OnlyRecoveryPending == pendingRecovery.id # Null
AnyRecoveryPending == pendingRecovery.id # Null \/ pendingConfig.id # Null

ExpectedNonceLane(action) ==
    CASE action \in OrdinaryActions -> 0
      [] action = ACTION_VALIDATOR_ROTATION -> 1
      [] action \in RecoveryActions -> 2

Op == [action : ActionTypes, seq : Nat,
       validatorEpoch : Epochs, recoveryEpoch : Epochs,
       validator : ProposedCredentials, config : Configurations,
       proposedEpoch : Epochs, requestId : RequestIds \cup {Null},
       actionId : ActionIds \cup {Null}, recipient : {"none", "account", "external"},
       amount : Nat, signers : Coalitions]

\* The arguments an action does not have.
NoBody == [validator |-> NoCredential, config |-> NoConfig, proposedEpoch |-> 0,
           requestId |-> Null, actionId |-> Null, recipient |-> "none",
           amount |-> 0]

(***************************************************************************)
(* The call data a signer may encode for each selector.                    *)
(***************************************************************************)
ConfirmBody(id) == [NoBody EXCEPT !.actionId = id]
PayBody(recipient, amount) == [NoBody EXCEPT !.recipient = recipient, !.amount = amount]
ValidatorBody(credential, epoch) ==
    [NoBody EXCEPT !.validator = credential, !.proposedEpoch = epoch]
ConfigBody(config, epoch) == [NoBody EXCEPT !.config = config, !.proposedEpoch = epoch]
CancelBody(id) == [NoBody EXCEPT !.requestId = id]

Bodies(action) ==
    CASE action = ACTION_CONFIRM ->
           {ConfirmBody(i) : i \in ActionIds \cup {Null}}
      [] action \in {ACTION_NATIVE_TRANSFER, ACTION_DEPOSIT_WITHDRAWAL} ->
           {PayBody(r, a) : r \in {"none", "account", "external"}, a \in 0..MaxBalance}
      [] action \in {ACTION_VALIDATOR_ROTATION, ACTION_RECOVERY_REQUEST} ->
           {ValidatorBody(c, e) : c \in ProposedCredentials, e \in Epochs}
      [] action = ACTION_CONFIG_ROTATION_REQUEST ->
           {ConfigBody(c, e) : c \in Configurations, e \in Epochs}
      [] action \in {ACTION_RECOVERY_CANCEL, ACTION_CONFIG_ROTATION_CANCEL} ->
           {CancelBody(i) : i \in {Null, pendingRecovery.id, pendingConfig.id}}

MakeOp(action, seq, ve, re, body, signers) ==
    [action |-> action, seq |-> seq, validatorEpoch |-> ve, recoveryEpoch |-> re,
     validator |-> body.validator, config |-> body.config,
     proposedEpoch |-> body.proposedEpoch, requestId |-> body.requestId, actionId |-> body.actionId,
     recipient |-> body.recipient, amount |-> body.amount, signers |-> signers]

RequestId(op) == <<op.seq, op.validator, op.config>>

(***************************************************************************)
(* Validation.                                                             *)
(***************************************************************************)
\* Checked uint64 addition: an epoch at its maximum makes the check revert.
NextEpoch(proposed, epoch) == epoch < MaxEpoch /\ proposed = epoch + 1

ValidProposedValidator(credential, epoch) ==
    /\ credential.addr # Null
    /\ credential.addr # validator.addr
    /\ credential.key # Null
    /\ NextEpoch(epoch, validatorEpoch)

ChangedRoles(config) == {r \in Roles : config[r] # commitments[r]}

ChangesOneRole(config) == \E r \in Roles : ChangedRoles(config) = {r}

ValidProposedRecoveryConfiguration(config, epoch) ==
    /\ ValidRoleCommitments(config)
    /\ NextEpoch(epoch, recoveryEpoch)
    /\ ChangesOneRole(config)

\* Checked addition again: the verifier is handed _recoveryEpoch + 1.
RecoveryEpochUnchecked == TRUE
RecoveryEpochCanGrow == recoveryEpoch < MaxEpoch

\* _decodeAndBindUserOperation: the checks on each selector's arguments.
ValidBody(action, body) ==
    CASE action = ACTION_CONFIRM -> body.actionId # Null
      [] action \in {ACTION_NATIVE_TRANSFER, ACTION_DEPOSIT_WITHDRAWAL} ->
           body.recipient = "external" /\ body.amount # 0
      [] action = ACTION_VALIDATOR_ROTATION ->
           ValidProposedValidator(body.validator, body.proposedEpoch)
      [] action = ACTION_RECOVERY_REQUEST ->
           /\ ValidProposedValidator(body.validator, body.proposedEpoch)
           /\ RecoveryEpochCanGrow
      [] action = ACTION_RECOVERY_CANCEL ->
           /\ body.requestId # Null
           /\ body.requestId = pendingRecovery.id
           /\ RecoveryEpochCanGrow
      [] action = ACTION_CONFIG_ROTATION_REQUEST ->
           ValidProposedRecoveryConfiguration(body.config, body.proposedEpoch)
      [] action = ACTION_CONFIG_ROTATION_CANCEL ->
           /\ body.requestId # Null
           /\ body.requestId = pendingConfig.id

\* _validateHeaderAndOperation: an intent binds both current epochs.
ValidHeader(ve, re) == ve = validatorEpoch /\ re = recoveryEpoch

\* _validateRecoveryState: what a pending request leaves available.
RecoveryStateIgnoresOrdinary(action) ==
    pendingRecovery.id # Null =>
        action \in OrdinaryActions \cup {ACTION_RECOVERY_CANCEL}
ValidRecoveryState(action) ==
    IF pendingRecovery.id # Null THEN action = ACTION_RECOVERY_CANCEL
    ELSE IF pendingConfig.id # Null
         THEN action \notin {ACTION_VALIDATOR_ROTATION, ACTION_RECOVERY_REQUEST,
                             ACTION_CONFIG_ROTATION_REQUEST, ACTION_RECOVERY_CANCEL}
         ELSE action \notin {ACTION_RECOVERY_CANCEL, ACTION_CONFIG_ROTATION_CANCEL}

\* _verifyAuthority against the stored validator and configuration.
VerifyAuthority(action, signers) ==
    AuthorityAccepted(action, signers, validator, commitments)

\* Bound on the clock: a request is made only where it can also expire.
WithinHorizon(action) ==
    action \in {ACTION_RECOVERY_REQUEST, ACTION_CONFIG_ROTATION_REQUEST}
        => now + RecoveryExpiry <= MaxTime

\* validateUserOp, followed by the EntryPoint's nonce update: the account pays
\* the missing prefund, at most the fee its intent allows.
ValidateUserOp ==
    /\ phase \in {"idle", "validation"}
    /\ Len(bundle) < MaxBundle
    /\ \E action \in ActionTypes, signers \in Coalitions :
          /\ ValidRecoveryState(action)
          /\ VerifyAuthority(action, signers)
          /\ WithinHorizon(action)
          /\ nonces[ExpectedNonceLane(action)] < MaxNonce
          /\ \E ve, re \in Epochs :
                /\ ValidHeader(ve, re)
                /\ \E body \in Bodies(action) :
                      /\ ValidBody(action, body)
                      /\ bundle' = Append(bundle,
                             MakeOp(action, nonces[ExpectedNonceLane(action)],
                                    ve, re, body, signers))
          /\ nonces' = [nonces EXCEPT ![ExpectedNonceLane(action)] = @ + 1]
    /\ \E missing \in 0..MaxTotalFee :
          missing <= balance /\ balance' = balance - missing
    /\ phase' = "validation"
    /\ UNCHANGED <<authority, executionLock, frameBalance, confirmedAction, now,
                   recoveredEpoch>>

BeginExecution ==
    /\ phase = "validation"
    /\ phase' = "execution"
    /\ UNCHANGED <<authority, funds, confirmedAction, bundle, nonces, now,
                   recoveredEpoch>>

FinishBundle ==
    /\ phase = "execution"
    /\ bundle = <<>>
    /\ phase' = "idle"
    /\ UNCHANGED <<authority, funds, confirmedAction, bundle, nonces, now,
                   recoveredEpoch>>

(***************************************************************************)
(* Execution. Every handler starts with _requireEntryPoint; a handler that *)
(* reverts, whether on a check or out of gas, undoes its own effects only. *)
(***************************************************************************)
Executing(action) ==
    /\ phase = "execution"
    /\ bundle # <<>>
    /\ ~executionLock
    /\ Head(bundle).action = action
    /\ bundle' = Tail(bundle)

ExecutionReverts ==
    /\ phase = "execution"
    /\ bundle # <<>>
    /\ ~executionLock
    /\ bundle' = Tail(bundle)
    /\ UNCHANGED <<authority, funds, confirmedAction, phase, nonces, now,
                   recoveredEpoch>>

\* The confirmation target records an action of the account once; it reads
\* the account back before it writes, so the call is atomic.
ConfirmPhilCoreAction(actionId) ==
    /\ actionId # Null
    /\ actionId \notin confirmedAction
    /\ confirmedAction' = confirmedAction \cup {actionId}

ConfirmIntent ==
    /\ Executing(ACTION_CONFIRM)
    /\ ConfirmPhilCoreAction(Head(bundle).actionId)
    /\ UNCHANGED <<authority, funds, phase, nonces, now, recoveredEpoch>>

\* A transfer needs the balance at execution; a withdrawal spends the deposit.
Funded(op) == op.action = ACTION_NATIVE_TRANSFER => op.amount <= balance

\* transferNative and withdrawEntryPointDeposit up to the call that hands
\* control to the recipient; the operation stays at the head of the bundle.
EnterExecution ==
    /\ phase = "execution"
    /\ bundle # <<>>
    /\ ~executionLock
    /\ LET op == Head(bundle) IN
       /\ op.action \in {ACTION_NATIVE_TRANSFER, ACTION_DEPOSIT_WITHDRAWAL}
       /\ op.recipient = "external" /\ op.amount # 0
       /\ Funded(op)
       /\ balance' = IF op.action = ACTION_NATIVE_TRANSFER
                     THEN balance - op.amount ELSE balance
    /\ frameBalance' = balance
    /\ executionLock' = TRUE
    /\ UNCHANGED <<authority, confirmedAction, phase, bundle, nonces, now,
                   recoveredEpoch>>

\* The recipient returned.
CallReturns ==
    /\ executionLock
    /\ executionLock' = FALSE
    /\ frameBalance' = 0
    /\ bundle' = Tail(bundle)
    /\ UNCHANGED <<authority, balance, confirmedAction, phase, nonces, now,
                   recoveredEpoch>>

\* The recipient reverted, and with it everything since the handler began.
CallReverts ==
    /\ executionLock
    /\ executionLock' = FALSE
    /\ balance' = frameBalance
    /\ frameBalance' = 0
    /\ bundle' = Tail(bundle)
    /\ UNCHANGED <<authority, confirmedAction, phase, nonces, now, recoveredEpoch>>

RotateValidator ==
    /\ Executing(ACTION_VALIDATOR_ROTATION)
    /\ ~AnyRecoveryPending
    /\ LET op == Head(bundle) IN
       /\ ValidProposedValidator(op.validator, op.proposedEpoch)
       /\ validator' = op.validator
       /\ validatorEpoch' = op.proposedEpoch
    /\ UNCHANGED <<recoveryState, commitments, recoveryEpoch, pendingRecovery,
                   pendingConfig, funds, confirmedAction, phase, nonces, now,
                   recoveredEpoch>>

RequestRecovery ==
    /\ Executing(ACTION_RECOVERY_REQUEST)
    /\ ~AnyRecoveryPending
    /\ LET op == Head(bundle) IN
       /\ ValidProposedValidator(op.validator, op.proposedEpoch)
       /\ pendingRecovery' =
            [id |-> RequestId(op), validator |-> op.validator,
             epoch |-> op.proposedEpoch, sourceValidatorEpoch |-> validatorEpoch,
             sourceRecoveryEpoch |-> recoveryEpoch, requestedAt |-> now]
    /\ recoveryState' = 1
    /\ UNCHANGED <<validator, validatorEpoch, commitments, recoveryEpoch,
                   pendingConfig, funds, confirmedAction, phase, nonces, now,
                   recoveredEpoch>>

CancelRecovery ==
    /\ Executing(ACTION_RECOVERY_CANCEL)
    /\ Head(bundle).requestId # Null
    /\ Head(bundle).requestId = pendingRecovery.id
    /\ pendingRecovery' = NoRecovery
    /\ recoveryState' = 3
    /\ UNCHANGED <<validator, validatorEpoch, commitments, recoveryEpoch,
                   pendingConfig, funds, confirmedAction, phase, nonces, now,
                   recoveredEpoch>>

RequestRecoveryConfigRotation ==
    /\ Executing(ACTION_CONFIG_ROTATION_REQUEST)
    /\ ~AnyRecoveryPending
    /\ LET op == Head(bundle) IN
       /\ ValidProposedRecoveryConfiguration(op.config, op.proposedEpoch)
       /\ pendingConfig' =
            [id |-> RequestId(op), config |-> op.config,
             epoch |-> op.proposedEpoch, sourceValidatorEpoch |-> validatorEpoch,
             sourceRecoveryEpoch |-> recoveryEpoch, requestedAt |-> now]
    /\ UNCHANGED <<validator, validatorEpoch, recoveryState, commitments,
                   recoveryEpoch, pendingRecovery, funds, confirmedAction, phase,
                   nonces, now, recoveredEpoch>>

CancelRecoveryConfigRotation ==
    /\ Executing(ACTION_CONFIG_ROTATION_CANCEL)
    /\ Head(bundle).requestId # Null
    /\ Head(bundle).requestId = pendingConfig.id
    /\ pendingConfig' = NoConfigRotation
    /\ UNCHANGED <<validator, validatorEpoch, recoveryState, commitments,
                   recoveryEpoch, pendingRecovery, funds, confirmedAction, phase,
                   nonces, now, recoveredEpoch>>

(***************************************************************************)
(* Settlement. Anyone may call it, from any contract and at any moment:    *)
(* between two operations of a bundle, or from inside a recipient's call.  *)
(***************************************************************************)
SettleAnytime == TRUE
SettleUnlocked == ~executionLock

\* From the delay on; an expired request is settled too, by clearing it.
SettleAtOnce(requestedAt) == now >= requestedAt
SettleUntilExpiry(requestedAt) ==
    now >= requestedAt + RecoveryDelay /\ now < requestedAt + RecoveryExpiry
Settleable(requestedAt) == now >= requestedAt + RecoveryDelay

SettleRecovery ==
    /\ SettleUnlocked
    /\ pendingRecovery.id # Null
    /\ Settleable(pendingRecovery.requestedAt)
    /\ IF now >= pendingRecovery.requestedAt + RecoveryExpiry
       THEN /\ recoveryState' = 0
            /\ UNCHANGED <<validator, validatorEpoch, recoveryEpoch, recoveredEpoch>>
       ELSE /\ validatorEpoch = pendingRecovery.sourceValidatorEpoch
            /\ recoveryEpoch = pendingRecovery.sourceRecoveryEpoch
            /\ validator' = pendingRecovery.validator
            /\ validatorEpoch' = pendingRecovery.epoch
            /\ recoveryEpoch' = (recoveryEpoch + 1) % (MaxEpoch + 1)  \* unchecked
            /\ recoveryState' = 2
            /\ recoveredEpoch' = pendingRecovery.epoch
    /\ pendingRecovery' = NoRecovery
    /\ UNCHANGED <<commitments, pendingConfig, funds, confirmedAction, phase,
                   bundle, nonces, now>>

SettleRecoveryConfigRotation ==
    /\ SettleUnlocked
    /\ pendingConfig.id # Null
    /\ Settleable(pendingConfig.requestedAt)
    /\ IF now >= pendingConfig.requestedAt + RecoveryExpiry
       THEN UNCHANGED <<commitments, recoveryEpoch>>
       ELSE /\ validatorEpoch = pendingConfig.sourceValidatorEpoch
            /\ recoveryEpoch = pendingConfig.sourceRecoveryEpoch
            /\ commitments' = pendingConfig.config
            /\ recoveryEpoch' = pendingConfig.epoch
    /\ pendingConfig' = NoConfigRotation
    /\ UNCHANGED <<validator, validatorEpoch, recoveryState, pendingRecovery, funds,
                   confirmedAction, phase, bundle, nonces, now, recoveredEpoch>>

\* receive(): anyone may send value, a recipient in the middle of its call too.
Receive ==
    /\ balance < MaxBalance
    /\ balance' = balance + 1
    /\ UNCHANGED <<authority, executionLock, frameBalance, confirmedAction, phase,
                   bundle, nonces, now, recoveredEpoch>>

\* block.timestamp grows between transactions only.
Tick ==
    /\ phase = "idle"
    /\ now < MaxTime
    /\ now' = now + 1
    /\ UNCHANGED <<authority, funds, confirmedAction, phase, bundle, nonces,
                   recoveredEpoch>>

\* The constructor, called by the factory with a validated initialization.
Init ==
    /\ validator = InitialValidator
    /\ validatorEpoch = 1
    /\ recoveryState = 0
    /\ executionLock = FALSE
    /\ commitments = InitialConfig
    /\ recoveryEpoch = 1
    /\ pendingRecovery = NoRecovery
    /\ pendingConfig = NoConfigRotation
    /\ balance \in 0..MaxBalance
    /\ confirmedAction = {}
    /\ phase = "idle"
    /\ bundle = <<>>
    /\ nonces = [lane \in 0..2 |-> 0]
    /\ frameBalance = 0
    /\ now = 0
    /\ recoveredEpoch = 0

Next ==
    \/ ValidateUserOp \/ BeginExecution \/ FinishBundle
    \/ ExecutionReverts \/ ConfirmIntent
    \/ EnterExecution \/ CallReturns \/ CallReverts
    \/ RotateValidator
    \/ RequestRecovery \/ CancelRecovery
    \/ RequestRecoveryConfigRotation \/ CancelRecoveryConfigRotation
    \/ SettleRecovery \/ SettleRecoveryConfigRotation
    \/ Receive \/ Tick

Spec == Init /\ [][Next]_vars

(***************************************************************************)
(* A settlement transaction that is sent is eventually included, between   *)
(* other transactions, when the lock is free; transactions end, and time   *)
(* passes. Nobody is obliged to submit an operation.                       *)
(***************************************************************************)
Fairness ==
    /\ WF_vars(Tick)
    /\ WF_vars(BeginExecution) /\ WF_vars(FinishBundle)
    /\ WF_vars(ExecutionReverts)
    /\ WF_vars(CallReturns \/ CallReverts)
    /\ SF_vars(phase = "idle" /\ SettleRecovery)
    /\ SF_vars(phase = "idle" /\ SettleRecoveryConfigRotation)

FairSpec == Spec /\ Fairness

-----------------------------------------------------------------------------
Elements(s) == {s[i] : i \in 1..Len(s)}
BundledOps == Elements(bundle)

\* Types, and the widths the storage slots give the counters.
TypeOK ==
    /\ validator \in Credentials
    /\ validatorEpoch \in Epochs
    /\ recoveryState \in 0..3
    /\ executionLock \in BOOLEAN
    /\ commitments \in [Roles -> Commitments]
    /\ recoveryEpoch \in Epochs
    /\ pendingRecovery \in RecoverySlots
    /\ pendingConfig \in ConfigSlots
    /\ balance \in Nat
    /\ confirmedAction \subseteq ActionIds
    /\ phase \in {"idle", "validation", "execution"}
    /\ bundle \in Seq(Op)
    /\ nonces \in [0..2 -> Nat]
    /\ frameBalance \in Nat
    /\ now \in Nat
    /\ recoveredEpoch \in Epochs

(***************************************************************************)
(* Invariants of the storage between any two calls.                        *)
(***************************************************************************)

\* A validator recovery and a configuration rotation are never pending
\* together, even when one bundle carries both requests, each validated
\* before the other executed (_anyRecoveryPending, re-checked at execution).
OnePendingRequest ==
    ~(pendingRecovery.id # Null /\ pendingConfig.id # Null)

\* As long as a request is pending neither epoch moves, so the source-epoch
\* checks of settleRecovery and settleRecoveryConfigRotation never refuse a
\* request that is inside its window, and what it would install is the next
\* epoch, another validator address, a configuration of distinct roles. The
\* reported recovery state is "active" exactly then.
PendingMatchesEpochs ==
    /\ pendingRecovery.id # Null =>
         /\ pendingRecovery.sourceValidatorEpoch = validatorEpoch
         /\ pendingRecovery.sourceRecoveryEpoch = recoveryEpoch
         /\ pendingRecovery.epoch = validatorEpoch + 1
         /\ pendingRecovery.validator \in Credentials
         /\ pendingRecovery.validator.addr # validator.addr
         /\ recoveryEpoch < MaxEpoch
    /\ recoveryState = 1 <=> pendingRecovery.id # Null
    /\ pendingConfig.id # Null =>
         /\ pendingConfig.sourceValidatorEpoch = validatorEpoch
         /\ pendingConfig.sourceRecoveryEpoch = recoveryEpoch
         /\ pendingConfig.epoch = recoveryEpoch + 1
         /\ pendingConfig.config \in [Roles -> Commitments]
         /\ ValidRoleCommitments(pendingConfig.config)

\* The configuration in force always has three distinct roles, and the
\* unchecked increment of settleRecovery never wraps an epoch to zero.
ConfigurationValid ==
    /\ ValidRoleCommitments(commitments)
    /\ validatorEpoch >= 1 /\ recoveryEpoch >= 1

\* An ordinary or maintenance operation can still be waiting for execution
\* while a recovery is pending only inside the very bundle that executed the
\* request: a later bundle never validates one (_validateRecoveryState).
FreezeLeaksOnlyInRequestBundle ==
    (pendingRecovery.id # Null
        /\ \E op \in BundledOps : op.action \notin RecoveryActions)
        => phase = "execution" /\ pendingRecovery.requestedAt = now

(***************************************************************************)
(* What a step may never do.                                               *)
(***************************************************************************)
ExecutesHead == phase = "execution" /\ bundle # <<>> /\ bundle' = Tail(bundle)

\* An operation that changes the authority state was signed under the epochs
\* in force when it EXECUTES, by keys that still hold the authority it needs
\* then, although only its validation looked at either. A configuration
\* rotation request is bound by its recovery epoch and its two roles only.
TransitionsUseCurrentAuthority ==
    [][ExecutesHead /\ authority' # authority =>
         LET op == Head(bundle) IN
         /\ op.recoveryEpoch = recoveryEpoch
         /\ NeedsTwoRoles(op.action) => SignedByTwoRoles(op.signers, commitments)
         /\ op.action # ACTION_CONFIG_ROTATION_REQUEST =>
              /\ op.validatorEpoch = validatorEpoch
              /\ NeedsValidator(op.action) =>
                    SignedByValidator(op.signers, validator)]_vars

\* Asset movement and confirmation after a completed recovery need an
\* authorization under the new epochs: nothing the replaced validator signed
\* executes once the recovery has settled, not even from a bundle that was
\* validated before it.
NoExecutionUnderReplacedValidator ==
    [][(executionLock' /\ ~executionLock) \/ confirmedAction' # confirmedAction
         => Head(bundle).validatorEpoch >= recoveredEpoch]_vars

\* Epochs move by single steps, and only together with what they version:
\* a new validator is a new validator epoch, a new configuration is a new
\* recovery epoch and replaces exactly one role.
EpochsVersionAuthority ==
    [][/\ validatorEpoch' \in {validatorEpoch, validatorEpoch + 1}
       /\ recoveryEpoch' \in {recoveryEpoch, recoveryEpoch + 1}
       /\ validator' # validator <=> validatorEpoch' # validatorEpoch
       /\ commitments' # commitments =>
            /\ recoveryEpoch' = recoveryEpoch + 1
            /\ \E r \in Roles : {q \in Roles : commitments'[q] # commitments[q]} = {r}]_vars

\* While a recipient holds control the authority state stands still, so a
\* recipient cannot complete a recovery from inside its own payment.
LockFreezesAuthority ==
    [][executionLock => authority' = authority]_vars

\* Every pending request is settled or cancelled in the end: no pair of
\* requests, no bundle and no expiry leaves the account frozen for good.
RequestsEnd ==
    /\ pendingRecovery.id # Null ~> pendingRecovery.id = Null
    /\ pendingConfig.id # Null ~> pendingConfig.id = Null

(***************************************************************************)
(* The account implements its authority specification: validating in one   *)
(* loop and executing in another is as good as checking and acting at once.*)
(***************************************************************************)
Authority == INSTANCE PhilCoreV2Authority WITH
    recovery <- IF pendingRecovery.id = Null THEN Null
                ELSE [validator |-> pendingRecovery.validator,
                      since |-> pendingRecovery.requestedAt],
    rotation <- IF pendingConfig.id = Null THEN Null
                ELSE [config |-> pendingConfig.config,
                      since |-> pendingConfig.requestedAt]

\* Every authority change of the account is one atomic step of the abstract
\* specification, authorized by keys in force at that step, with the delay
\* and the expiry of the request respected.
ImplementsAuthority == Authority!Spec
=============================================================================
