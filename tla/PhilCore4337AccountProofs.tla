--------------------- MODULE PhilCore4337AccountProofs ---------------------
(***************************************************************************)
(* Proofs about the Beta account, for any addresses, delays and times and  *)
(* for bundles of any length.                                              *)
(*                                                                         *)
(* The freeze and the requests follow from the methods alone.  Two more    *)
(* facts make the rest inductive: while a recovery is pending the account  *)
(* has been quiet for as long as the request is old, and every operation   *)
(* still in the bundle was signed by somebody who held its role at this    *)
(* block time.                                                             *)
(***************************************************************************)
EXTENDS PhilCore4337Account, TLAPS

\* What the methods change.
AccountTyped ==
    /\ owner \in Addresses /\ recoveryAuthority \in Addresses
    /\ frozen \in BOOLEAN
    /\ recoveryRequest \in Requests \cup {Null}
    /\ rotationRequest \in Requests \cup {Null}
    /\ quiet \in 0..RecoveryDelay

\* The account has not acted since the recovery was requested, or has been
\* quiet for the whole delay already.
QuietWhileRecovering ==
    recoveryRequest # Null =>
        /\ recoveryRequest.requestId.requestedAt <= now
        /\ \/ quiet = RecoveryDelay
           \/ quiet >= now - recoveryRequest.requestId.requestedAt

\* Who may still act held the role at this block time.
Held ==
    /\ Holding \subseteq holders
    /\ \A i \in 1..Len(bundle) :
          RoleOf(bundle[i].call, bundle[i].signer) \in holders \cup {Null}
    /\ actor \in holders \cup {Null}

MethodInv ==
    AccountTyped /\ FrozenExactlyWhileRecovering /\ RequestsNameCurrentKeys /\ QuietWhileRecovering

IInv ==
    /\ TypeOK
    /\ FrozenExactlyWhileRecovering
    /\ RequestsNameCurrentKeys
    /\ QuietWhileRecovering
    /\ Held

USE AccountAssumption, NullAssumption

\* The slots that the methods change are typed.
LEMMA TypeOKTyped == TypeOK => AccountTyped
BY DEF TypeOK, AccountTyped

\* A request made now is a request, and names what is in force.
LEMMA NewRequest ==
    ASSUME TypeOK, NEW to \in Addresses, NEW proposer \in Addresses \cup {Null}
    PROVE  LET new == [pending |-> to, proposer |-> proposer, requestId |-> RequestId(to)]
           IN /\ new \in Requests
              /\ new # Null
              /\ new.requestId.owner = owner
              /\ new.requestId.recoveryAuthority = recoveryAuthority
              /\ new.requestId.requestedAt = now
BY DEF TypeOK, Requests, RequestIds, RequestId

\* The operation that the EntryPoint executes next is one it validated.
LEMMA HeadIn == ASSUME NEW S, NEW s \in Seq(S), s # <<>> PROVE Head(s) \in S
OBVIOUS

\* A call names addresses where its method takes them.
LEMMA CallTyped ==
    ASSUME NEW call \in Calls
    PROVE  /\ call.fn \in {"rotateExecutionOwner", "requestRecovery",
                           "requestRecoveryAuthorityRotation"} => call.to \in Addresses
           /\ call.fn \in {"requestRecoveryAuthorityRotation",
                           "cancelRecoveryAuthorityRotation"} => call.by \in Addresses
BY DEF Calls

\* No method, whoever calls it, breaks what ties the slots together.
LEMMA MethodKeeps ==
    ASSUME IInv, NEW sender, NEW call \in Calls, Method(sender, call), now' = now
    PROVE  MethodInv'
<1> USE DEF IInv
<1>t. AccountTyped /\ now \in Nat /\ RecoveryDelay \in Nat
  BY TypeOKTyped DEF TypeOK, Times
<1> USE DEF MethodInv, AccountTyped
<1>1. CASE Execute(sender) \/ ReleaseTestFunds(sender)
  <2>1. UNCHANGED account /\ ~frozen /\ quiet' = 0
    BY <1>1 DEF Execute, ReleaseTestFunds
  <2> QED
    BY <2>1, <1>t DEF account, FrozenExactlyWhileRecovering, RequestsNameCurrentKeys,
                      QuietWhileRecovering
<1>2. CASE call.fn = "rotateExecutionOwner" /\ RotateExecutionOwner(sender, call.to)
  BY <1>2, <1>t, CallTyped DEF RotateExecutionOwner, FrozenExactlyWhileRecovering,
        RequestsNameCurrentKeys, QuietWhileRecovering
<1>3. CASE call.fn = "requestRecovery" /\ RequestRecovery(sender, call.to)
  <2>1. call.to \in Addresses
    BY <1>3, CallTyped
  <2> DEFINE new == [pending |-> call.to, proposer |-> Null, requestId |-> RequestId(call.to)]
  <2>2. /\ new \in Requests /\ new # Null
        /\ new.requestId.owner = owner
        /\ new.requestId.recoveryAuthority = recoveryAuthority
        /\ new.requestId.requestedAt = now
    BY <2>1, NewRequest
  <2>3. /\ recoveryRequest' = new /\ frozen' = TRUE
        /\ UNCHANGED <<owner, recoveryAuthority, rotationRequest, quiet>>
    BY <1>3 DEF RequestRecovery
  <2> HIDE DEF new
  <2> QED
    BY <2>2, <2>3, <1>t DEF FrozenExactlyWhileRecovering, RequestsNameCurrentKeys,
                            QuietWhileRecovering
<1>4. CASE CancelRecovery(sender)
  BY <1>4, <1>t DEF CancelRecovery, FrozenExactlyWhileRecovering, RequestsNameCurrentKeys,
                    QuietWhileRecovering
<1>5. CASE CompleteRecovery(sender)
  <2>1. recoveryRequest.pending \in Addresses
    BY <1>5, <1>t DEF CompleteRecovery, Requests
  <2> QED
    BY <1>5, <1>t, <2>1 DEF CompleteRecovery, FrozenExactlyWhileRecovering,
                            RequestsNameCurrentKeys, QuietWhileRecovering
<1>6. CASE /\ call.fn = "requestRecoveryAuthorityRotation"
           /\ RequestRecoveryAuthorityRotation(sender, call.to, call.by)
  <2>1. call.to \in Addresses /\ call.by \in Addresses
    BY <1>6, CallTyped
  <2> DEFINE new == [pending |-> call.to, proposer |-> call.by, requestId |-> RequestId(call.to)]
  <2>2. /\ new \in Requests
        /\ new.requestId.recoveryAuthority = recoveryAuthority
    BY <2>1, NewRequest
  <2>3. /\ rotationRequest' = new
        /\ UNCHANGED <<owner, recoveryAuthority, frozen, recoveryRequest, quiet>>
    BY <1>6 DEF RequestRecoveryAuthorityRotation
  <2> HIDE DEF new
  <2> QED
    BY <2>2, <2>3, <1>t DEF FrozenExactlyWhileRecovering, RequestsNameCurrentKeys,
                            QuietWhileRecovering
<1>7. CASE CancelRecoveryAuthorityRotation(sender, call.by)
  BY <1>7, <1>t DEF CancelRecoveryAuthorityRotation, FrozenExactlyWhileRecovering,
                    RequestsNameCurrentKeys, QuietWhileRecovering
<1>8. CASE CompleteRecoveryAuthorityRotation(sender)
  <2>1. rotationRequest.pending \in Addresses
    BY <1>8, <1>t DEF CompleteRecoveryAuthorityRotation, Requests
  <2> QED
    BY <1>8, <1>t, <2>1 DEF CompleteRecoveryAuthorityRotation, FrozenExactlyWhileRecovering,
                            RequestsNameCurrentKeys, QuietWhileRecovering
<1> QED
  BY <1>1, <1>2, <1>3, <1>4, <1>5, <1>6, <1>7, <1>8 DEF Method

\* A call in a role its signer held at this block time leaves everybody who may
\* still act such a holder.
LEMMA CallKeepsHeld ==
    ASSUME IInv, NEW sender, NEW call \in Calls, NEW signer \in Addresses,
           Call(sender, call, signer), now' = now,
           RoleOf(call, signer) \in holders \cup {Null},
           \A i \in 1..Len(bundle') : \E j \in 1..Len(bundle) : bundle'[i] = bundle[j]
    PROVE  Held' /\ holders' \subseteq Holders /\ actor' \in Holders \cup {Null}
<1>1. actor' = RoleOf(call, signer) /\ holders' = holders \cup Holding'
  BY DEF Call
<1>2. AccountTyped'
  BY MethodKeeps DEF Call, MethodInv
<1>3. Holding' \subseteq Holders
  BY <1>2 DEF AccountTyped, Holding, Holders
<1>4. holders' \subseteq Holders
  BY <1>1, <1>3 DEF IInv, TypeOK
<1>5. RoleOf(call, signer) \in Holders \cup {Null}
  BY DEF RoleOf, Holders
<1>6. ASSUME NEW i \in 1..Len(bundle')
      PROVE  RoleOf(bundle'[i].call, bundle'[i].signer) \in holders' \cup {Null}
  BY <1>1, <1>6 DEF IInv, Held
<1> QED
  BY <1>1, <1>4, <1>5, <1>6 DEF Held

\* The inductive invariant: direct calls, validation, execution of the bundle and
\* the next block all keep it.
THEOREM Invariant == Spec => []IInv
<1>1. Init => IInv
  <2> SUFFICES ASSUME Init PROVE IInv
    OBVIOUS
  <2>1. TypeOK
    <3>1. bundle \in Seq([call : Calls, signer : Addresses])
      BY DEF Init
    <3>2. holders \subseteq Holders
      BY DEF Init, Holding, Holders
    <3>3. now \in Times /\ quiet \in 0..RecoveryDelay
      BY DEF Init, Times
    <3>4. /\ owner \in Addresses /\ recoveryAuthority \in Addresses
          /\ frozen \in BOOLEAN /\ executing \in BOOLEAN
          /\ recoveryRequest \in Requests \cup {Null} /\ rotationRequest \in Requests \cup {Null}
          /\ actor \in Holders \cup {Null}
      BY DEF Init
    <3> QED
      BY <3>1, <3>2, <3>3, <3>4 DEF TypeOK
  <2> QED
    BY <2>1 DEF Init, IInv, FrozenExactlyWhileRecovering, RequestsNameCurrentKeys,
                QuietWhileRecovering, Held
<1>2. IInv /\ [Next]_vars => IInv'
  <2> SUFFICES ASSUME IInv, [Next]_vars PROVE IInv'
    OBVIOUS
  <2> USE DEF IInv
  <2>1. ASSUME NEW call \in Calls, NEW sender \in Addresses, DirectCall(sender, call)
        PROVE  IInv'
    <3>1. /\ Call(sender, call, sender) /\ Method(sender, call)
          /\ UNCHANGED <<now, bundle, executing>>
      BY <2>1 DEF DirectCall, Call
    <3>2. MethodInv'
      BY <3>1, MethodKeeps
    <3>3. RoleOf(call, sender) \in holders \cup {Null}
      BY <3>1 DEF Method, Execute, ReleaseTestFunds, RotateExecutionOwner, CancelRecovery,
                  RequestRecovery, CompleteRecovery, RoleOf, OwnerOnly, AuthorityOnly,
                  Held, Holding
    <3>4. \A i \in 1..Len(bundle') : \E j \in 1..Len(bundle) : bundle'[i] = bundle[j]
      BY <3>1
    <3>5. Held' /\ holders' \subseteq Holders /\ actor' \in Holders \cup {Null}
      BY <3>1, <3>3, <3>4, CallKeepsHeld
    <3> QED
      BY <3>1, <3>2, <3>5 DEF TypeOK, MethodInv, AccountTyped
  <2>2. ASSUME NEW call \in Calls, NEW signer \in Addresses, ValidateUserOp(call, signer)
        PROVE  IInv'
    <3> DEFINE op == [call |-> call, signer |-> signer]
    <3>1. bundle' = Append(bundle, op) /\ UNCHANGED <<account, now, executing, history>>
      BY <2>2 DEF ValidateUserOp
    <3>2. bundle' \in Seq([call : Calls, signer : Addresses])
      BY <3>1 DEF TypeOK
    <3>3. RoleOf(call, signer) \in holders \cup {Null}
      <4>1. Holding \subseteq holders /\ signer \in ExpectedSigner(call)
        BY <2>2 DEF Held, ValidateUserOp
      <4>2. CASE call.fn \in OwnerOnly
        BY <4>1, <4>2 DEF ExpectedSigner, RoleOf, OwnerOnly, AuthorityOnly, TwoParty, Holding
      <4>3. CASE call.fn \in AuthorityOnly
        BY <4>1, <4>3 DEF ExpectedSigner, RoleOf, OwnerOnly, AuthorityOnly, TwoParty, Holding
      <4> QED
        BY <4>2, <4>3 DEF RoleOf
    <3>4. ASSUME NEW i \in 1..Len(bundle')
          PROVE  RoleOf(bundle'[i].call, bundle'[i].signer) \in holders \cup {Null}
      <4>1. CASE i = Len(bundle) + 1
        <5>1. bundle'[i] = op
          BY <3>1, <4>1 DEF TypeOK
        <5> QED
          BY <5>1, <3>3
      <4>2. CASE i \in 1..Len(bundle)
        <5>1. bundle'[i] = bundle[i]
          BY <3>1, <4>2 DEF TypeOK
        <5> QED
          BY <5>1, <4>2 DEF Held
      <4> QED
        BY <3>1, <4>1, <4>2 DEF TypeOK
    <3>5. Held'
      BY <3>1, <3>4 DEF Held, Holding, account, history
    <3> QED
      BY <3>1, <3>2, <3>5 DEF TypeOK, account, history, FrozenExactlyWhileRecovering,
                              RequestsNameCurrentKeys, QuietWhileRecovering
  <2>3. ASSUME ExecuteUserOp
        PROVE  IInv'
    <3> DEFINE op == Head(bundle)
    <3>1. /\ bundle # <<>> /\ bundle' = Tail(bundle)
          /\ executing' = (Tail(bundle) # <<>>) /\ now' = now
      BY <2>3 DEF ExecuteUserOp
    <3>2. op \in [call : Calls, signer : Addresses]
      BY <3>1, HeadIn DEF TypeOK
    <3>3. bundle' \in Seq([call : Calls, signer : Addresses])
      BY <3>1 DEF TypeOK
    <3>4. \A i \in 1..Len(bundle') : \E j \in 1..Len(bundle) : bundle'[i] = bundle[j]
      <4> SUFFICES ASSUME NEW i \in 1..Len(bundle')
                   PROVE  bundle'[i] = bundle[i + 1] /\ i + 1 \in 1..Len(bundle)
        OBVIOUS
      <4> QED
        BY <3>1 DEF TypeOK
    <3>5. RoleOf(op.call, op.signer) \in holders \cup {Null}
      BY <3>1 DEF TypeOK, Held
    <3>6. CASE Call(EntryPoint, op.call, op.signer)
      <4>1. MethodInv'
        BY <3>1, <3>2, <3>6, MethodKeeps DEF Call
      <4>2. Held' /\ holders' \subseteq Holders /\ actor' \in Holders \cup {Null}
        BY <3>1, <3>2, <3>4, <3>5, <3>6, CallKeepsHeld
      <4> QED
        BY <3>1, <3>3, <4>1, <4>2 DEF TypeOK, MethodInv, AccountTyped
    <3>7. CASE UNCHANGED <<account, history>>
      <4>1. Held'
        BY <3>4, <3>7 DEF Held, Holding, account, history
      <4> QED
        BY <3>1, <3>3, <3>7, <4>1 DEF TypeOK, account, history, FrozenExactlyWhileRecovering,
              RequestsNameCurrentKeys, QuietWhileRecovering
    <3> QED
      BY <2>3, <3>6, <3>7 DEF ExecuteUserOp
  <2>4. ASSUME Tick
        PROVE  IInv'
    <3>1. Held'
      BY <2>4 DEF Tick, Held, Holding, account
    <3>2. QuietWhileRecovering'
      BY <2>4 DEF Tick, QuietWhileRecovering, TypeOK, Times, account, Requests, RequestIds
    <3>3. TypeOK'
      BY <2>4 DEF Tick, TypeOK, Times, account, Holding, Holders
    <3> QED
      BY <2>4, <3>1, <3>2, <3>3 DEF Tick, account, FrozenExactlyWhileRecovering,
                                   RequestsNameCurrentKeys
  <2>5. CASE UNCHANGED vars
    BY <2>5 DEF vars, account, history, TypeOK, FrozenExactlyWhileRecovering,
                RequestsNameCurrentKeys, QuietWhileRecovering, Held, Holding
  <2> QED
    BY <2>1, <2>2, <2>3, <2>4, <2>5 DEF Next
<1> QED
  BY <1>1, <1>2, PTL DEF Spec

\* Every slot keeps its type, for bundles of any length.
THEOREM TypeCorrect == Spec => []TypeOK
BY Invariant, PTL DEF IInv

\* Freeze and pending recovery stand and fall together.
THEOREM Frozen == Spec => []FrozenExactlyWhileRecovering
BY Invariant, PTL DEF IInv

\* A pending request names the keys still in force.
THEOREM CurrentKeys == Spec => []RequestsNameCurrentKeys
BY Invariant, PTL DEF IInv

\* Inside a bundle a replaced key may act, in a later block never.
THEOREM ReplacedKey == Spec => []ReplacedKeyActsInNoLaterBlock
<1>1. IInv => ReplacedKeyActsInNoLaterBlock
  BY DEF IInv, Held, ReplacedKeyActsInNoLaterBlock
<1> QED
  BY <1>1, Invariant, PTL

\* The owner changes by its own call, or by a recovery after a quiet delay.
THEOREM Challengeable == Spec => OwnerChangeIsChallengeable
<1> DEFINE Fair == owner' # owner => \/ actor' # Null /\ actor'[1] = "owner"
                                     \/ frozen /\ quiet = RecoveryDelay
<1>1. IInv /\ [Next]_vars => [Fair]_vars
  <2> SUFFICES ASSUME IInv, Next, owner' # owner PROVE Fair
    BY DEF vars, account
  <2>1. PICK sender \in Addresses \cup {EntryPoint}, call \in Calls, signer \in Addresses :
            Call(sender, call, signer)
    <3>1. CASE \E call \in Calls, sender \in Addresses : DirectCall(sender, call)
      BY <3>1 DEF DirectCall
    <3>2. CASE ExecuteUserOp
      <4>1. Head(bundle) \in [call : Calls, signer : Addresses]
        BY <3>2, HeadIn DEF ExecuteUserOp, IInv, TypeOK
      <4>2. Call(EntryPoint, Head(bundle).call, Head(bundle).signer)
        BY <3>2 DEF ExecuteUserOp, account
      <4> QED
        BY <4>1, <4>2
    <3>3. ~Tick /\ ~(\E call \in Calls, signer \in Addresses : ValidateUserOp(call, signer))
      BY DEF Tick, ValidateUserOp, account
    <3> QED
      BY <3>1, <3>2, <3>3 DEF Next
  <2>2. \/ call.fn = "rotateExecutionOwner"
        \/ CompleteRecovery(sender)
    BY <2>1 DEF Call, Method, Execute, ReleaseTestFunds, RequestRecovery, CancelRecovery,
        RequestRecoveryAuthorityRotation, CancelRecoveryAuthorityRotation,
        CompleteRecoveryAuthorityRotation, account
  <2>3. CASE call.fn = "rotateExecutionOwner"
    <3>1. actor' = <<"owner", signer>>
      BY <2>1, <2>3 DEF Call, RoleOf, OwnerOnly
    <3> QED
      BY <3>1 DEF Holders
  <2>4. CASE CompleteRecovery(sender)
    BY <2>4 DEF CompleteRecovery, Executable, ExecutableAfter, IInv, TypeOK, Times,
        FrozenExactlyWhileRecovering, QuietWhileRecovering, Requests, RequestIds
  <2> QED
    BY <2>2, <2>3, <2>4
<1> QED
  BY <1>1, Invariant, PTL DEF Spec, OwnerChangeIsChallengeable
=============================================================================
