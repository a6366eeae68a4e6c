------------------------ MODULE PhilCore4337Account ------------------------
(***************************************************************************)
(* PhilCore4337Account.sol, the account of the Sepolia Beta: one execution *)
(* owner, one recovery authority, delayed recovery of the owner that       *)
(* freezes the account, and delayed rotation of the recovery authority.    *)
(*                                                                         *)
(* Two ways lead to a method: a direct call of an address, and a user      *)
(* operation. The EntryPoint validates every operation of a bundle before  *)
(* it executes the first one, so an operation runs in a state its          *)
(* signature was not checked in; between two executions other senders'     *)
(* operations may call the account directly. A bundle is one transaction:  *)
(* the block time stands still while it runs.                              *)
(*                                                                         *)
(* A call that names a request id or a pending address other than the      *)
(* stored one reverts, so the model offers only the matching ones; address *)
(* zero, which every method refuses, is left out of Addresses. Nonces and  *)
(* prefunding are the EntryPoint's.                                        *)
(***************************************************************************)
EXTENDS Integers, Sequences

CONSTANTS
    Addresses,          \* keys and contracts that may call or sign
    EntryPoint,         \* msg.sender of an executed user operation
    Null,
    RecoveryDelay, RecoveryExpiry,
    MaxTime,            \* bound on block.timestamp
    MaxBundle           \* bound on this account's operations in one bundle

ASSUME AccountAssumption ==
    /\ EntryPoint \notin Addresses
    /\ Null \notin Addresses
    /\ RecoveryDelay \in Nat \ {0}
    /\ RecoveryExpiry \in Nat /\ RecoveryExpiry > RecoveryDelay
    /\ MaxTime \in Nat /\ MaxBundle \in Nat

VARIABLES
    owner, recoveryAuthority, frozen,
    recoveryRequest,    \* the pending owner change, or Null
    rotationRequest,    \* the pending change of the recovery authority, or Null
    now,                \* block.timestamp
    bundle,             \* validated operations the EntryPoint has yet to execute
    executing,          \* the EntryPoint has left its validation loop
    \* history, for the properties
    quiet,              \* time since an action or a release, counted to the delay
    holders,            \* <<role, address>> pairs that were true at this timestamp
    actor               \* the <<role, address>> pair of this timestamp's last call

account == <<owner, recoveryAuthority, frozen, recoveryRequest, rotationRequest>>
history == <<quiet, holders, actor>>
vars == <<account, now, bundle, executing, history>>

Times == 0..MaxTime

\* keccak256 over the parties and the time of the request.
RequestId(pending) == [owner |-> owner, recoveryAuthority |-> recoveryAuthority,
                       pending |-> pending, requestedAt |-> now]

RequestIds == [owner : Addresses, recoveryAuthority : Addresses,
               pending : Addresses, requestedAt : Times]
Requests == [pending : Addresses, proposer : Addresses \cup {Null}, requestId : RequestIds]
Holders == {"owner", "authority"} \X Addresses

ASSUME NullAssumption == Null \notin Requests \cup Holders

\* Calldata the account's dispatcher and its signature check tell apart.
Calls == [fn : {"execute", "releaseTestFunds", "cancelRecovery", "completeRecovery",
                "completeRecoveryAuthorityRotation"}]
         \cup [fn : {"rotateExecutionOwner", "requestRecovery"}, to : Addresses]
         \cup [fn : {"requestRecoveryAuthorityRotation"}, to : Addresses, by : Addresses]
         \cup [fn : {"cancelRecoveryAuthorityRotation"}, by : Addresses]

\* Every slot keeps its type; a pending request always names a key and its time.
TypeOK ==
    /\ owner \in Addresses /\ recoveryAuthority \in Addresses
    /\ frozen \in BOOLEAN
    /\ recoveryRequest \in Requests \cup {Null}
    /\ rotationRequest \in Requests \cup {Null}
    /\ now \in Times
    /\ bundle \in Seq([call : Calls, signer : Addresses])
    /\ executing \in BOOLEAN
    /\ quiet \in 0..RecoveryDelay
    /\ holders \subseteq Holders
    /\ actor \in Holders \cup {Null}

Holding == {<<"owner", owner>>, <<"authority", recoveryAuthority>>}

Init ==
    /\ owner \in Addresses
    /\ recoveryAuthority \in Addresses \ {owner}
    /\ frozen = FALSE
    /\ recoveryRequest = Null /\ rotationRequest = Null
    /\ now = 0
    /\ bundle = <<>> /\ executing = FALSE
    /\ quiet = 0
    /\ holders = Holding /\ actor = Null

ExecutableAfter(request) == request.requestId.requestedAt + RecoveryDelay
ExpiresAt(request) == request.requestId.requestedAt + RecoveryExpiry
Executable(request) == ExecutableAfter(request) <= now /\ now <= ExpiresAt(request)

(***************************************************************************)
(* The methods, for the address that appears as msg.sender. What a method  *)
(* does not mention it leaves alone; the wrapper Call keeps the history.   *)
(***************************************************************************)
\* One call of the approved action gate; the gate is a component of its own.
Execute(sender) ==
    /\ sender = EntryPoint
    /\ ~frozen
    /\ quiet' = 0
    /\ UNCHANGED account

\* Native balance and EntryPoint deposit go to whoever is owner now.
ReleaseTestFunds(sender) ==
    /\ sender = EntryPoint
    /\ ~frozen
    /\ quiet' = 0
    /\ UNCHANGED account

RotateExecutionOwner(sender, to) ==
    /\ sender \in {owner, EntryPoint}
    /\ ~frozen
    /\ to # owner
    /\ owner' = to
    /\ UNCHANGED <<recoveryAuthority, frozen, recoveryRequest, rotationRequest, quiet>>

RequestRecoveryUnfrozen(sender, to) ==
    /\ sender \in {recoveryAuthority, EntryPoint}
    /\ recoveryRequest = Null /\ to # owner
    /\ recoveryRequest' = [pending |-> to, proposer |-> Null, requestId |-> RequestId(to)]
    /\ UNCHANGED <<owner, recoveryAuthority, frozen, rotationRequest, quiet>>
RequestRecovery(sender, to) ==
    /\ sender \in {recoveryAuthority, EntryPoint}
    /\ recoveryRequest = Null
    /\ to # owner
    /\ recoveryRequest' = [pending |-> to, proposer |-> Null, requestId |-> RequestId(to)]
    /\ frozen' = TRUE
    /\ UNCHANGED <<owner, recoveryAuthority, rotationRequest, quiet>>

\* An expired request can still be cancelled.
CancelUnexpiredRecovery(sender) ==
    /\ recoveryRequest # Null /\ now <= ExpiresAt(recoveryRequest)
    /\ sender \in {owner, EntryPoint}
    /\ recoveryRequest' = Null /\ frozen' = FALSE
    /\ UNCHANGED <<owner, recoveryAuthority, rotationRequest, quiet>>
CancelRecovery(sender) ==
    /\ recoveryRequest # Null
    /\ sender \in {owner, EntryPoint}
    /\ recoveryRequest' = Null
    /\ frozen' = FALSE
    /\ UNCHANGED <<owner, recoveryAuthority, rotationRequest, quiet>>

CompleteRecoveryAtOnce(sender) ==
    /\ sender \in {recoveryAuthority, EntryPoint}
    /\ recoveryRequest # Null /\ now <= ExpiresAt(recoveryRequest)
    /\ owner' = recoveryRequest.pending
    /\ recoveryRequest' = Null /\ frozen' = FALSE
    /\ UNCHANGED <<recoveryAuthority, rotationRequest, quiet>>
CompleteRecovery(sender) ==
    /\ sender \in {recoveryAuthority, EntryPoint}
    /\ recoveryRequest # Null
    /\ Executable(recoveryRequest)
    /\ owner' = recoveryRequest.pending
    /\ recoveryRequest' = Null
    /\ frozen' = FALSE
    /\ UNCHANGED <<recoveryAuthority, rotationRequest, quiet>>

RequestRecoveryAuthorityRotation(sender, to, proposer) ==
    /\ ~frozen
    /\ sender \in {proposer, EntryPoint}
    /\ proposer \in {owner, recoveryAuthority}
    /\ rotationRequest = Null
    /\ to \notin {recoveryAuthority, owner}
    /\ rotationRequest' = [pending |-> to, proposer |-> proposer, requestId |-> RequestId(to)]
    /\ UNCHANGED <<owner, recoveryAuthority, frozen, recoveryRequest, quiet>>

\* The other party cancels: who that is follows from today's owner.
RequiredCanceller ==
    IF rotationRequest.proposer = owner THEN recoveryAuthority ELSE owner

CancelRecoveryAuthorityRotation(sender, canceller) ==
    /\ sender \in {canceller, EntryPoint}
    /\ rotationRequest # Null
    /\ canceller = RequiredCanceller
    /\ rotationRequest' = Null
    /\ UNCHANGED <<owner, recoveryAuthority, frozen, recoveryRequest, quiet>>

CompleteRotationWhileFrozen(sender) ==
    /\ rotationRequest # Null /\ Executable(rotationRequest)
    /\ recoveryAuthority' = rotationRequest.pending
    /\ rotationRequest' = Null
    /\ UNCHANGED <<owner, frozen, recoveryRequest, quiet>>
CompleteRecoveryAuthorityRotation(sender) ==
    /\ ~frozen
    /\ rotationRequest # Null
    /\ Executable(rotationRequest)
    /\ recoveryAuthority' = rotationRequest.pending
    /\ rotationRequest' = Null
    /\ UNCHANGED <<owner, frozen, recoveryRequest, quiet>>

Method(sender, call) ==
    \/ call.fn = "execute" /\ Execute(sender)
    \/ call.fn = "releaseTestFunds" /\ ReleaseTestFunds(sender)
    \/ call.fn = "rotateExecutionOwner" /\ RotateExecutionOwner(sender, call.to)
    \/ call.fn = "requestRecovery" /\ RequestRecovery(sender, call.to)
    \/ call.fn = "cancelRecovery" /\ CancelRecovery(sender)
    \/ call.fn = "completeRecovery" /\ CompleteRecovery(sender)
    \/ call.fn = "requestRecoveryAuthorityRotation"
         /\ RequestRecoveryAuthorityRotation(sender, call.to, call.by)
    \/ call.fn = "cancelRecoveryAuthorityRotation"
         /\ CancelRecoveryAuthorityRotation(sender, call.by)
    \/ call.fn = "completeRecoveryAuthorityRotation" /\ CompleteRecoveryAuthorityRotation(sender)

\* The role each selector is reserved for; the two-party ones name their party
\* and completing an authority rotation is open to everyone.
OwnerOnly == {"execute", "releaseTestFunds", "rotateExecutionOwner", "cancelRecovery"}
AuthorityOnly == {"requestRecovery", "completeRecovery"}
TwoParty == {"requestRecoveryAuthorityRotation", "cancelRecoveryAuthorityRotation"}
RoleOf(call, signer) == IF call.fn \in OwnerOnly THEN <<"owner", signer>>
                        ELSE IF call.fn \in AuthorityOnly THEN <<"authority", signer>>
                        ELSE Null

Call(sender, call, signer) ==
    /\ Method(sender, call)
    /\ actor' = RoleOf(call, signer)
    /\ holders' = holders \cup Holding'

(***************************************************************************)
(* Actions.                                                                *)
(***************************************************************************)
DirectCall(sender, call) ==
    /\ Call(sender, call, sender)
    /\ UNCHANGED <<now, bundle, executing>>

\* validateUserOp: the expected signer follows from the selector and, for the
\* two-party methods, from the party the calldata names. While frozen only the
\* two ways out of a recovery validate. Completing an authority rotation has no
\* expected signer and never validates.
ExpectedSigner(call) ==
    {a \in Addresses :
        \/ call.fn \in OwnerOnly /\ a = owner
        \/ call.fn \in AuthorityOnly /\ a = recoveryAuthority
        \/ call.fn \in TwoParty /\ a = call.by /\ a \in {owner, recoveryAuthority}}

ValidateAnyRole(call, signer) ==
    /\ ~executing
    /\ Len(bundle) < MaxBundle
    /\ frozen => call.fn \in {"cancelRecovery", "completeRecovery"}
    /\ signer \in {owner, recoveryAuthority}
    /\ bundle' = Append(bundle, [call |-> call, signer |-> signer])
    /\ UNCHANGED <<account, now, executing, history>>
ValidateUserOp(call, signer) ==
    /\ ~executing
    /\ Len(bundle) < MaxBundle
    /\ frozen => call.fn \in {"cancelRecovery", "completeRecovery"}
    /\ signer \in ExpectedSigner(call)
    /\ bundle' = Append(bundle, [call |-> call, signer |-> signer])
    /\ UNCHANGED <<account, now, executing, history>>

\* The EntryPoint runs the first operation left; it may revert, from the
\* method's own checks or for want of gas, and the bundle goes on.
ExecuteUserOp ==
    /\ bundle # <<>>
    /\ \/ Call(EntryPoint, Head(bundle).call, Head(bundle).signer)
       \/ UNCHANGED <<account, history>>
    /\ bundle' = Tail(bundle)
    /\ executing' = (Tail(bundle) # <<>>)
    /\ UNCHANGED now

\* A later block.
Tick ==
    /\ bundle = <<>>
    /\ now < MaxTime
    /\ now' = now + 1
    /\ holders' = Holding
    /\ actor' = Null
    /\ quiet' = IF quiet < RecoveryDelay THEN quiet + 1 ELSE quiet
    /\ UNCHANGED <<account, bundle, executing>>

Next ==
    \/ \E call \in Calls :
          \/ \E sender \in Addresses : DirectCall(sender, call)
          \/ \E signer \in Addresses : ValidateUserOp(call, signer)
    \/ ExecuteUserOp
    \/ Tick

Spec == Init /\ [][Next]_vars

(***************************************************************************)
(* Properties.                                                             *)
(***************************************************************************)
\* The account is frozen exactly while a recovery is pending: no path, direct
\* or bundled, clears one without the other. Everything the challenge window
\* promises rests on it.
FrozenExactlyWhileRecovering == frozen <=> recoveryRequest # Null

\* A pending request was made against the keys still in force: the owner a
\* recovery will replace is the owner it was requested for, and no pending
\* authority rotation outlives the authority it would replace.
RequestsNameCurrentKeys ==
    /\ recoveryRequest # Null =>
          /\ recoveryRequest.requestId.owner = owner
          /\ recoveryRequest.requestId.recoveryAuthority = recoveryAuthority
    /\ rotationRequest # Null =>
          rotationRequest.requestId.recoveryAuthority = recoveryAuthority

\* Whoever acts as owner or as recovery authority held that role at this very
\* block time. Inside a bundle a replaced key may still act, because signatures
\* are checked before the first execution; in a later block it never does.
ReplacedKeyActsInNoLaterBlock == actor # Null => actor \in holders

\* The owner changes only by its own call or operation, or by a recovery that
\* has kept the account from acting for the whole challenge delay.
OwnerChangeIsChallengeable ==
    [][owner' # owner =>
         \/ actor' # Null /\ actor'[1] = "owner"
         \/ frozen /\ quiet = RecoveryDelay]_vars

\* The current recovery authority can cancel a rotation the owner proposed, and
\* the current owner one the recovery authority proposed: the party that did not
\* propose is the one that may cancel. The proposer's role is the one it held
\* when it made the request.
OtherPartyMayCancel ==
    rotationRequest # Null =>
        RequiredCanceller = IF rotationRequest.proposer = rotationRequest.requestId.owner
                            THEN recoveryAuthority ELSE owner

\* A recovery, expired or not, never locks out an owner who still has the key:
\* at every moment, between the operations of a bundle too, its own direct call
\* of cancelRecovery goes through and ends the freeze. It is the only way out of
\* a recovery that has expired.
OwnerCanUnfreeze ==
    frozen => ENABLED (CancelRecovery(owner) /\ ~frozen' /\ UNCHANGED <<now, bundle, executing,
                                                                       holders, actor>>)
=============================================================================
