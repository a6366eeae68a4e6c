-------------------------- MODULE PhilCoreV2Config --------------------------
(***************************************************************************)
(* What the V2 account, its static authority verifier and the abstract     *)
(* authority specification share: the credentials, the three recovery      *)
(* roles, the action types and the authority each of them needs.           *)
(*                                                                         *)
(* Hashes, signatures and typed digests are perfect: a key signs exactly   *)
(* one operation (the signed digest covers the user-operation hash), and   *)
(* an operation carries the set of keys that signed it. A descriptor       *)
(* commits to a key of its own: that two roles do not share one is a fact  *)
(* of enrolment, which the contracts cannot see.                           *)
(***************************************************************************)
EXTENDS Naturals

CONSTANTS
    Addresses,       \* validator addresses, each an ECDSA key
    KeyBindings,     \* non-zero validatorKeyIdBinding values
    Commitments,     \* recovery-factor descriptor commitments
    DescriptorRole,  \* the role hashed into each descriptor
    Coalitions,      \* the sets of keys whose holders sign together
    Null,            \* bytes32(0) and address(0)
    RecoveryDelay,   \* RECOVERY_DELAY_SECONDS, in ticks of the model's clock
    RecoveryExpiry,  \* RECOVERY_EXPIRY_SECONDS, in ticks
    MaxEpoch         \* type(uint64).max of the two epoch counters

Keys == Addresses \cup Commitments

Roles == 0..2    \* primary device, hardware security key, independent factor

ASSUME ConfigAssumption ==
    /\ Null \notin Addresses \cup KeyBindings \cup Commitments
    /\ Addresses \cap Commitments = {}
    /\ DescriptorRole \in [Commitments -> Roles]
    /\ Coalitions \subseteq SUBSET Keys
    /\ RecoveryDelay \in Nat \ {0}
    /\ RecoveryExpiry \in Nat
    /\ RecoveryDelay < RecoveryExpiry
    /\ MaxEpoch \in Nat \ {0}

ACTION_CONFIRM == 1
ACTION_NATIVE_TRANSFER == 2
ACTION_DEPOSIT_WITHDRAWAL == 6
ACTION_VALIDATOR_ROTATION == 7
ACTION_RECOVERY_REQUEST == 8
ACTION_RECOVERY_CANCEL == 9
ACTION_CONFIG_ROTATION_REQUEST == 10
ACTION_CONFIG_ROTATION_CANCEL == 11

OrdinaryActions ==
    {ACTION_CONFIRM, ACTION_NATIVE_TRANSFER, ACTION_DEPOSIT_WITHDRAWAL}
RecoveryActions ==
    {ACTION_RECOVERY_REQUEST, ACTION_RECOVERY_CANCEL,
     ACTION_CONFIG_ROTATION_REQUEST, ACTION_CONFIG_ROTATION_CANCEL}
ActionTypes == OrdinaryActions \cup {ACTION_VALIDATOR_ROTATION} \cup RecoveryActions

Epochs == 0..MaxEpoch

\* An execution validator: its address and the key binding signed with it.
Credentials == [addr : Addresses, key : KeyBindings]
ProposedCredentials ==
    [addr : Addresses \cup {Null}, key : KeyBindings \cup {Null}]

\* A recovery configuration: one commitment per role.
Configurations == [Roles -> Commitments \cup {Null}]

ValidRoleCommitments(config) ==
    /\ \A r \in Roles : config[r] # Null
    /\ \A r, s \in Roles : config[r] = config[s] => r = s

(***************************************************************************)
(* The authority an action type needs, as a predicate on the set of keys   *)
(* that signed the operation. PhilCoreV2StaticAuthorityVerifier shows the  *)
(* envelope checks of the verifier contract accept exactly this.           *)
(***************************************************************************)
SignedByValidator(signers, credential) == credential.addr \in signers

\* Role r of the configuration can sign: its descriptor names that very role.
SignedByRole(signers, config, r) ==
    /\ config[r] \in signers
    /\ DescriptorRole[config[r]] = r

SignedByTwoRoles(signers, config) ==
    \E r, s \in Roles :
        /\ r # s
        /\ SignedByRole(signers, config, r)
        /\ SignedByRole(signers, config, s)

NeedsValidator(action) ==
    action \in OrdinaryActions \cup
               {ACTION_VALIDATOR_ROTATION, ACTION_CONFIG_ROTATION_REQUEST}

NeedsTwoRoles(action) == action \in RecoveryActions

AuthorityAccepted(action, signers, credential, config) ==
    /\ NeedsValidator(action) => SignedByValidator(signers, credential)
    /\ NeedsTwoRoles(action) => SignedByTwoRoles(signers, config)
=============================================================================
