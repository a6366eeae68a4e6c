# PhilCore: verification of accounts, authorization and recovery

This directory keeps TLA+ models of PhilCore beside its code, the TLC
configurations that check them on small instances, and TLAPS proofs of the
theorems that hold for every instance. `PROJECT.json` lists the components, the
runs, the source lines of every definition, the hazards and the theorems.

To repeat the work: `tlc -config v2_account.cfg MCPhilCoreV2MinimalAccount` (and
likewise for the other runs below), `tlapm PhilCoreV2MinimalAccountProofs.tla`
(and the other seven `*Proofs` modules).

## 1. Inventory

PhilCore is a wallet and identity system. A smart-contract account is driven
through ERC-4337; a desktop application and a phone authorize its operations;
recovery factors can replace its keys; and proof facts travel over several chains
to gate actions. Paths below are relative to `src/`.

### On chain

**V2 account** (`contracts/base/erc4337/v2/PhilCoreV2MinimalAccountV2.sol`).
State: active validator with its key binding and epoch; three recovery-role
commitments with the recovery epoch; one pending validator recovery and one
pending configuration rotation, each with source epochs and the time of request;
a recovery state; an execution lock. Operations: `validateUserOp` and eight
handlers that only the EntryPoint calls, two settlements that anyone calls, and
`receive`. Hard: the EntryPoint validates all operations of a bundle before it
executes the first; settlement may fall between any two calls; recipients get
control in the middle of a payment; requests race their delay and their expiry;
epochs have a width. Correct when: authority changes only on authority that is
current at execution, by one epoch at a time; requests exclude each other and never
go stale; nothing stays frozen.

**V2 static authority verifier** (`.../PhilCoreV2StaticAuthorityVerifier.sol`).
Stateless; called by the account with a request and an envelope its submitter
chose. Correct when: it accepts exactly the envelopes that carry the authority the
action needs. **Factory** and **confirmation target** are small and used
by the account.

**Beta 4337 account** (`contracts/base/erc4337/PhilCore4337Account.sol`). State:
owner, recovery authority, a freeze, one recovery request with a delay and an
expiry, one rotation of the recovery authority. Operations: `validateUserOp` and
nine methods, reached directly or through the EntryPoint. Hard: the two requests
interleave with the rotation of the owner; an operation executes in a state its
signature was not checked in; an expired recovery is cleared by the owner only.
Correct when: freeze and recovery stand and fall together, a request names the keys
in force, a replaced key is out, the owner changes by its own act or after a delay
it could have objected in. **Local proof, mint and Step 6 accounts** are
single-purpose variants.

**Fact relay, action gate and consumers** (`contracts/l1/`, `contracts/base/Phil*`).
State: anchored and mirrored facts, messages under way, consumed nullifiers, tokens.
Operations: anchor, relay, deliver, `verifyAndConsume`, the consumers. Hard: two
message layers that delay, repeat and reorder; every step is open to anyone; the
unlock consumer hands control to a target that may call the gate again, and frames
fail at either level. Correct when: what is mirrored was anchored, an effect rests on
a verified fact, and one nullifier acts once.

**Starknet account gate** (`starknet/phil-v1-step4-account-gate/`). Consumed
envelopes, nullifiers and nonces against replay.

### Desktop and phone

**Routine authorization** (`apps/phil-device-sdk/src/runtime/routineAuthorizationJournalV1.ts`,
`apps/philcore-desktop/src/main/routine-authorization-*.cjs`). A chain of journal
records per request, flushed before it is published; a coordinator with a lock per
request; a host with one queue, sessions with the phone, durable stores, a start
that restores every stored request, and a deletion that a marker commits. Hard:
crashes between two writes, writes that fail after they took effect, repeated and
reordered messages, expiry during an approval, a submission whose outcome is
unknown, methods outside the queue. Correct when: an operation is sent at most
once, never after somebody was told it is cancelled, rejected or expired; recorded
outcomes are true; a session always ends; a start always succeeds.

**Routine device enrollment** pairs and replaces the phone.

**Recovery ceremony and staging journal** (`recovery-staging-host.cjs`,
`recovery-ceremony-host.cjs`). State: a lock file, a quarantine of stale locks, at
most one journal, a quarantine of damaged ones, and per process a ceremony and a copy
of the journal. Operations: acquire the lock or take over a stale one,
`reconcileRestart`, `createJournal`, `stageRole`, `cancel`, `status`, `close`. Hard:
two processes that find the same stale lock; a process that ends between two file
operations; a flush that fails after a rename. Correct when: one process writes at a
time, a restart supersedes a journal and never resumes it, memory is what is on disk,
and a staged journal ends.

**Recovery genesis enrollment** (`recovery-genesis-coordinator.cjs`,
`recovery-genesis-staging-host.cjs`). State: three files (journal, sidecar with the
credential obligation, finalized profile) and two memories that follow them.
Operations: begin a role, authorize and record a credential, stage, cancel,
finalize, acknowledge, reconcile. Hard: a credential exists in an authenticator from
the moment its creation is authorized, and methods write two files in turn. Correct
when: such a credential is never forgotten, a profile holds recorded credentials and
stays final, and what a process left open a later one settles.

**Sepolia mint ceremony and replay ledger** (`sepolia-mint-*.cjs`, `main.cjs`). State:
ceremony records, a ledger of reserved and consumed nullifiers, one signed artifact,
sessions with the phone. Operations: Begin with restore, the phone's messages,
reserve, sign, persist, consume, complete, cancel. Hard: five writes with a possible
crash between any two, or inside one; a store ahead of its memory; cancellation or
expiry between approval and signature. Correct when: one ceremony is signed, after its reservation
is durable, and an interrupted ceremony is resumed.

**Recovery transport and enrollment hosts**: a session over sockets and a facade over
the recovery hosts. **Device identity, session, credential counter**: lifecycle state
machines over asynchronous storage. **SDK facade, alpha shell, runtime host,
workflows, iOS companion**: checks and plumbing around these. **Proving toolchain and
circuits, scripts**: computation without concurrent state.

### Interactions

The phone talks HTTP to the desktop hosts; the routine host drives the coordinator,
which writes the journal and then submits an operation to an EntryPoint; the
EntryPoint calls the account; the account calls the verifier, recipients and the
confirmation target; anyone calls settlement. The desktop and the contracts meet at
the EntryPoint only, and the three families of files on the desktop (routine, mint,
recovery) share nothing but the vault, which is why each is modelled with the rest as
its environment. Facts, gate and consumers are composed in one module, and so are
journal, coordinator and host of each desktop component.

## 2. Modules

| module | models |
|---|---|
| `PhilCoreV2Config` | roles, action types and the authority each needs; shared |
| `PhilCoreV2Authority` | abstract: authority changes in atomic, authorized, delayed steps |
| `PhilCoreV2MinimalAccount` | the account, the two loops of the EntryPoint, recipients, settlement by anyone |
| `PhilCoreV2StaticAuthorityVerifier` | every check of every kind of envelope |
| `PhilCoreV2MinimalAccountProofs` | safety of the account, which implements `PhilCoreV2Authority` |
| `PhilCoreV2StaticAuthorityVerifierProofs` | soundness and completeness of the verifier |
| `RoutineAuthorizationJournal` | record chain, publication, coordinator: operators on `journal`, `entry`, `clock` |
| `RoutineAuthorization` | host, queue, sessions, stores, restart, deletion, chain |
| `RoutinePromise` | abstract: each request is given up or committed, sent once, settled, forgotten |
| `RoutineAuthorizationProofs` | safety of routine authorization, which implements `RoutinePromise` |
| `PhilCore4337Account` | the Beta account, direct calls and bundles |
| `PhilCore4337AccountProofs` | safety of the Beta account |
| `FactRelay` | anchor, relay, adapter, mirror, verifier, gate and consumers |
| `FactRelayProofs` | safety of the relay and the gate |
| `SepoliaMintCeremony` | ceremony store, replay ledger, artifact, host, restore at Begin |
| `SepoliaMintCeremonyProofs` | safety of the mint ceremony |
| `RecoveryStaging` | the lock and its takeover, the ceremony, the staging journal |
| `RecoveryStagingProofs` | safety of the lock and the staging journal |
| `RecoveryGenesis` | coordinator and staging host over journal, sidecar and profile |
| `RecoveryGenesisProofs` | safety of the genesis enrollment |
| `MC...` | instances for TLC |

### The V2 account

Variables `validator` to `pendingConfig` are the storage slots under their meaning;
`balance`, `executionLock` and `confirmedAction` complete the state of the contracts.
`phase`, `bundle`, `nonces` and `frameBalance` are the EntryPoint's transaction, and
`now` is the block time, which stands still inside a transaction. `ValidateUserOp`
appends an accepted operation to the bundle (a bundle with a refused one reverts
as a whole and leaves no trace). Each handler is an action on the head of the bundle
with the checks the handler itself repeats, and no others: what only validation
looks at is exactly what can be stale. `transferNative` and
`withdrawEntryPointDeposit` are split where they hand control to the recipient
(`EnterExecution`, then `CallReturns` or `CallReverts`); any other action may fall in
between, as far as the lock permits. `ExecutionReverts` is any handler that reverts,
also out of gas. `recoveredEpoch` is a history variable.

Abstractions: hashes and signatures are perfect, so an operation carries the set of
keys that signed it; the identifier of a request is the part of the intent hash that
tells two intents apart; header fields that are compared with constants, gas
arithmetic and the validity window (chosen by the signer, checked at validation
only) are left out. Epochs keep a width, `0..MaxEpoch`, with the unchecked increment
of `settleRecovery` wrapping as in the code.

`PhilCoreV2Config!AuthorityAccepted` is what the account relies on.
`PhilCoreV2StaticAuthorityVerifier` translates the checks of the contract on
untrusted envelopes and shows that they accept nothing else and nothing less. The
abstract `PhilCoreV2Authority` has no bundle, nonce, lock or stored epoch; under the
mapping that forgets them the account implements it.

### Routine authorization

On disk: `journal` (frames per request, as their states), `requests`,
`deletionMarker`. In memory, lost at a crash: `entry` (the coordinator's current
record), `session`, `queue` (the operation under way in the exclusive queue and its
next step), `host`. The world: `chain`, `clock` (before, at or after the expiry; the
code compares with `>=` in some places and with `>` in others). History: `used`,
`submissions`, `released`, `startFailure`.

`RoutinePromise` is what this amounts to for a request: a status (open, given up,
committed, verified, completed, failed, or void once nothing is on record of it), how
often it was sent, whether somebody was told that it ended, and the chain. It has no host, no
memory and no crash. `Status` maps a request to the meaning of its last frame; one
without a journal is open until its first frame is no longer under way, then void.

Every action makes at most one durable write, so a crash falls between any two. A
write is done, or fails before it took effect (`lost`), or after (`torn`, as when
`syncDirectory` throws after the rename). A coordinator method holds the lock of its
request and is one step, with the exception of `commitAndExecute...`, which is
split into commit, send and outcome; its lock is respected by `CallReconcile`, the
one method of the host that does not go through the queue. A message of the phone is
good, refused with 409, or bad in a way that fails the transport. Records,
evidence and ciphers are unforgeable. The chain includes a sent operation at any time,
also after a crash, with either outcome; a scan of the chain may find the outcome,
find nothing (lost anchor), or fail. The clock does not run backwards.

Coarser than the code, without a consequence for the properties: the deletion of a
profile removes all journals in one step and all requests in another; the clock is
compared and the record published in one step; `Crash` also stands for a product that
is stopped, so a stopped host that still finishes something is not seen; the lock of a
request is taken as given. The temporary file of a `durableWrite` that was killed is left
out: it touches no frame and no request, but `read` and `list` refuse it, and every later
start fails, as after the crash that `routine_orphan` shows.

What the model shows beyond the properties, and a maintainer may want to know:

- a commit record that is torn leaves state 6 on disk and 5 in memory. Nothing was
  sent, but after a restart the request is found committed, becomes
  `SUBMISSION_OUTCOME_UNKNOWN`, and blocks new requests and the deletion of the
  profile;
- a request found successful from state 25 needs two restarts to be completed, since
  one reconciliation publishes one record;
- the host's `reconcileRoutineAuthorization`, which no product code calls, may give
  up a request under a live session; status polling does not end that session, a
  further message of the phone does. The liveness run leaves it out
  (`OpenReconcile = FALSE`); the safety run has it;
- states 3, 7 and 24 are never published by this coordinator.

### The Beta account

`owner` to `rotationRequest` are the storage; `now`, `bundle` and `executing` are the
EntryPoint's transaction. Every method is an operator of the sender; `DirectCall`
applies it for an address, `ExecuteUserOp` for the head of the bundle, and both may
alternate, since other operations of a bundle can call the account.
`ExpectedSigner` is the selector table of `_validateSignature`. Three history variables serve
the properties: `quiet` (time since the account acted, counted up to the delay),
`holders` (who held which role at this block time) and `actor`. A call that names
another request than the stored one reverts and is not offered.

### Facts, gate and consumers

A fact is the public inputs it is the hash of. `l2Messages` and `inFlight` are the
two message layers: a message is delivered at any time, any number of times, or never,
and foreign senders have messages too. The adapter forwards for every caller, as its
code does; the history variable `injected` records facts that got in that way.
`verifyAndConsume` is split where it calls the consumer: `stack` holds the open
frames, each with the state it restores when it fails. Hashing is perfect.

### The mint ceremony

On disk `record`, `ledger`, `artifact`; in memory the host, its sessions, the replay
store's copy with its poison flag, the vault and the signing capability. A write is
done, lost or torn, as for routine authorization. A process killed inside the write
of a record (`CrashInUpdate`), or a lost write whose clean-up fails as well, leaves its
temporary file among the records: `stray`. Nothing removes that file, and `list` refuses
the directory from then on (`ListRefused`). The ledger and the artifact lie in the
directory above, which nobody lists, so their temporary files matter only through
`leftover`. `Begin` builds the environment anew
and restores every ceremony that was answered; `Work` walks through the steps of one
answer, from the saved response to the completed record, with one write per step. The
clock is before, at or after the end of the approval window.

### The staging journal

Each process has a program counter through `acquireLock`, the inspection of an
existing lock, its probe, its rename into the quarantine, and the methods. Files have
identities, so that a lock can be replaced by another one of the same name.
Other processes act, and a process may end, between any two file operations. The
write of a journal through its temporary file is one step, as the lock keeps others
out. Between the last probe of a stale lock and its rename nothing keeps anybody out:
the history variable `raced` says that the lock changed just there. The properties
that then no longer hold are stated for behaviours without such a race, and
`NothingResumes` is stated for all. Two guards are the caller's discipline and not the
host's: it retires a ceremony by hand only when the process has no journal of it
(`RetireUnstaged`), and it creates a journal for the process's own ceremony
(`CreateJournal`). No product code calls these methods yet.

### Genesis enrollment

A method of the host is the list of writes it has left (`call.todo`); `Write` does
the next one, `Fail` and `FailPoisoned` are the two ways in which it can go wrong, and
`Return` hands the result to the coordinator. So the two memories may differ from the
disk exactly where the code lets them. A restart classifies the three files,
resolves the combinations the code knows (`Resolve`, `Conflict`), and settles the
obligation (`Settle`). The lock on the directory is that of the staging journal and
is not modelled a second time; temporary files and the bound of the quarantine are
left out. An error that poisons the coordinator but not the root, which a failed look at
a temporary file can raise, is `Fail` followed by `Crash`: such a coordinator can only
be ended. `Close` may come before the process has reconciled, as in the code. `history` records what was authorized, recorded, staged and reported as
cancelled.

## 3. Runs

| run | shows | size |
|---|---|---|
| `v2_account` | requests stay current, freeze leaks bounded, authority current at execution, replaced validator out, no epoch wraps, lock freezes authority, the account implements `PhilCoreV2Authority`, every request ends | 376 k states |
| `v2_verifier` | envelopes accepted are authorized, and the reverse | 168 k |
| `routine_safety` | memory follows disk, sent once, given up is never sent, outcomes are true, one in flight, implements `RoutinePromise` | 158 k |
| `routine_liveness` | every session with the phone ends | 89 k |
| `beta_account` | freeze and recovery agree, requests name current keys, replaced keys are out, the owner can always unfreeze, an owner change was open to challenge | 147 k |
| `fact_relay` | one effect per nullifier, effects rest on verified facts, mirrored facts were anchored | 270 k |
| `mint_ceremony` | one ceremony signed and reserved before, completed work kept, artifact reused, approved when signed, interrupted ceremonies resume | 135 k |
| `staging_safety` | one writer, memory is durable, nothing resumes | 2.2 M |
| `staging_liveness` | a staged journal ends | 138 k |
| `genesis` | no credential forgotten, profile final, both memories durable, cancelled is never finalized, creation and finalization are settled | 629 k |
| `routine_orphan`, `beta_veto` | two statements of the documents that the code does not keep (section 6) | |

Bounds of the V2 run. Two validators `a1`, `a2` with one key binding; factors `p0`,
`h1`, `i2` in force and `n1` as a new hardware key; seven coalitions of keys (either
validator, one stolen factor, pairs before and after a rotation, the owner with old
and new factors). Two operations per bundle, which is what one stale operation needs;
two operations per nonce lane, so that a cancellation can name an older request; delay
1, expiry 2 and time up to 3 ticks, so that a request can be early, mature and expired
and be followed by another; epochs up to 2, so that the counters reach their limit;
one wei. Time and nonces are finite, so behaviours end at the bounds and deadlock is
not checked there. The proofs remove all of these bounds.

Bounds of the routine runs. Two requests: one whose outcome is open and one that
wants to begin; they are interchangeable, and the safety run uses that symmetry. All
other state is finite by itself: journals have at most eight frames. Deadlock is
checked.

Beta: three addresses in any role, interchangeable; delay 1, expiry 2, time 3; one
bundled operation, with direct calls around it, which is what makes it stale; the
proofs cover longer bundles. Relay: two authorizations with nullifiers of their own, one
of them expiring, each for either consumer and under either proof type; one message of
each kind, gate calls nested twice. Mint: two ceremonies, which compete for the one
account nonce, and three faults; a finished demonstration may stop, so deadlock
is not checked. Staging: two processes, two ceremonies, two faults and one role for
safety; one process that ends and starts again, with two roles, for liveness.
Genesis: two intents, two roles (three in the code), three ceremonies and two faults,
enough for a fault in the repair of a fault.

Fairness. V2: time passes, a transaction that began ends (gas), a recipient's call
ends, and somebody who wants to settle gets a settlement included between other
transactions infinitely often enabled (strong fairness, since bundles may
intervene). Nobody is obliged to submit an operation. Routine: the promise queue
keeps running, the clock advances, and the renderer polls the status of the request
it shows every second (`startRoutineAuthorizationPolling` in the renderer), which
runs `expireSession`. The phone is obliged to nothing, the process to stay up
neither; writes succeed in the liveness run. Mint: pending promises end, and the user
of an interrupted ceremony goes on: unlocks, begins again, and restarts a desktop
that got stuck; nobody clears the directory of the records, and time need not pass.
Staging: time passes, a process that ended is started again and asks
for the status of its journal, which is what expires it; strong fairness where another
process or the lock may get in between. Genesis: a process is started again and
not always closed before it reconciles (strong fairness), a method that runs goes on, and a finalization found half done is called
again. Faults are bounded in number and none is obliged to happen.

## 4. Properties and the hazards they answer

V2 account. `PendingMatchesEpochs`: a request that could no longer be settled.
`ConfigurationValid`: wrap-around and roles that coincide. `FreezeLeaksOnlyInRequestBundle`:
how far an operation validated earlier outlives the freeze.
`TransitionsUseCurrentAuthority`: authority that was current at validation only.
`NoExecutionUnderReplacedValidator`: payments of a replaced validator.
`LockFreezesAuthority`: a recipient that settles. `ImplementsAuthority`: all of it
against an atomic specification; it implies `OnePendingRequest` and
`EpochsVersionAuthority`, which are proved. `RequestsEnd`: an account frozen for good.
Verifier: `AcceptedIsAuthorized`, `AuthorizedIsAccepted`.

Routine authorization. `MemoryIsDurable`: publication before the flush, a torn frame
followed by another. `SubmittedOnce`: crash, restart and retry around the submission.
`GivenUpNeverSubmitted`: cancellation and expiry racing the commit.
`RecordedOutcomeIsTrue`: an answer that was lost or taken for another.
`OneInFlight`: the guard on new requests after a restart. `KeepsPromise`: all of it
against a specification without crashes, deletion included, also interrupted; in addition
that nothing given up, settled or void ever changes again, and that nobody is told of an
end that is not on disk. It implies `DeletionKeepsInFlight`, which is proved.
`SessionEnds`: a phone that stops answering.

Beta account. `FrozenExactlyWhileRecovering`: a method that ends one and not the
other. `RequestsNameCurrentKeys`: a request that outlives the keys it was made under.
`ReplacedKeyActsInNoLaterBlock`: operations that were validated before a rotation.
`OwnerCanUnfreeze`: in every frozen state a cancellation by the owner is enabled, also
after the recovery expired. `OwnerChangeIsChallengeable`: a recovery that completes
early or after the account acted.

Facts and gate. `OneEffectPerNullifier`: re-entrance, failing frames, one nullifier
in two authorizations; between transactions a nullifier is spent exactly when its
effect happened. `EffectsRestOnVerifiedFacts`, `MirroredWasAnchored`: repeated, late
and foreign messages.

Mint. `OneCeremonyIsSigned`: a ledger whose write failed half way, a second ceremony
after a crash. `DoneIsKept`, `ArtifactIsReused`: a crash between two writes.
`SignedWhileApproved`: cancellation or expiry between approval and signature, also
across a restart. `FirstCeremonyResumes`: an interrupted ceremony, as long as no
temporary file lies among the records.

Staging. `OneWriter`: takeovers of stale locks. `MemoryIsDurable`: failed writes and
removals, a second journal. `NothingResumes`: restarts. `StagingEnds`: journals nobody
ends. Genesis. `NoCredentialForgotten`: crashes around a cancellation, and restarts.
`ProfileIsFinal`: a crash inside finalization, candidates of another ceremony.
`MemoryIsDurable`: two memories behind one disk. `CancelledIsNeverFinalized`,
`CreationIsSettled`, `FinalizationCompletes`: what a later process makes of what it
finds.

The type invariants are proved as well, those of the two accounts as theorems of
their own; in the other modules the type invariant is the first conjunct of one of the
invariants.

Every property is violated when a plausible slip is made in the code it is about; the
operator with the slip stands before the definition it would replace (for instance
`SettleAtOnce` before `Settleable`, `PublishBeforeFlush` before `Publish`).

## 5. Proofs

`PhilCoreV2MinimalAccountProofs` proves, for any keys, coalitions, configurations,
bundle lengths and counter widths, the type invariant, the safety
invariants and the action properties of the account (`OnePendingRequest` and
`EpochsVersionAuthority` among them). The constants are assumed
to be what section 2 says (`ConfigAssumption`, `AccountAssumption`): `Null` is none of
the values, the delay is positive and shorter than the expiry, and the account was
initialized by the factory.

None of the properties is inductive: each handler executes an operation that was
checked against an earlier state. `IInv` adds what is known of the operations that
wait in the bundle (`OpInv`): their epochs are not ahead of those in force, and where an
epoch is still the same, the signers still hold the authority (`OpBound`); an operation
that needs a quiet account waits together with a pending request only if that
request was made in this very transaction, so it cannot be settled before the
operation ran (`OpQuiet`, `PendingIsFresh` - this is where the positive delay is
used); a cancellation that names the pending request was validated after that request
was made and so under the current epochs (`OpCancel`, `CancelsOlder`, by the order of
nonces); and a pending configuration changes one role (`StorageInv`). Initial states
satisfy it, one lemma per action shows that it is kept, and each property follows from
it.

The same module proves `Refinement`: under the mapping every step of the
account is a step of `PhilCoreV2Authority` or a stutter; it takes `IInv` for the
authority at execution and `ChangesOneRole` of a pending configuration.

`PhilCoreV2StaticAuthorityVerifierProofs` proves `Soundness`: an accepted envelope
carries the signatures the action needs, for any requests and envelopes; and
`Completeness`: whoever holds the authority can build an envelope that is accepted.
Completeness takes one hypothesis that soundness does not, `FitsItsRole` of every
descriptor: the contracts store a commitment without looking into it, and it is the
SDK that refuses to build a descriptor of a kind its role does not have
(`v2RecoveryEvidence.ts`). The instance of the run satisfies it.

`PhilCore4337AccountProofs` proves, for any addresses, delays and bundle lengths, the
type invariant, `FrozenExactlyWhileRecovering`, `RequestsNameCurrentKeys`,
`ReplacedKeyActsInNoLaterBlock` and `OwnerChangeIsChallengeable`, from
`AccountAssumption` (a positive delay shorter than the expiry; the EntryPoint and
`Null` are no addresses) and `NullAssumption`. Its `IInv` adds two facts: the account has been
quiet for as long as the pending recovery is old, or for the whole delay
(`QuietWhileRecovering`), and every operation that waits in the bundle was signed by
somebody who held the needed role at this very block time (`Held`). One lemma per
method shows that it keeps the storage part, whoever calls; calls and
executions follow from it.

`RoutineAuthorizationProofs` proves the safety properties of routine authorization,
`DeletionKeepsInFlight` among them, for any number of requests, crashes and failed
writes, with and without a caller of `reconcile`. Its `IInv` says of each request that
its journal is a valid chain and memory at most one frame behind it (`Durable`: a torn
frame is the one frame), that what was sent was committed on disk and in memory
(`SentIsCommitted`), that what was reported as ended was given up unsent
(`ReleasedIsGivenUp`), and that a recorded outcome is the one on the chain
(`OutcomeTrue`); of the queue what each step may rely on (`QueueRelies`: before the
submission the committed frame is the last one); of the host what its phase says about
memory (`HostPhase`); and that one request at a time is active, and none besides it in
flight (`OneActive`), without which `OneInFlight` is not inductive. The coordinator's
methods are treated once, as an advance by an allowed transition. `Refinement` shows
that the specification implements `RoutinePromise`: an advance gives up, commits or
settles its request by the order of the transition tables (`MeaningAdvances`), a crash
or a failed write voids at most the request whose first frame is under way, `OneActive`
lets only one be sent, and the marker of a deletion says that nothing is in flight.
Assumed: `JournalAssumption`, `HostAssumption`, `NullAssumption` (which faults there
are, and that `Null` is no value).

`FactRelayProofs` proves `OneEffectPerNullifier`, `EffectsRestOnVerifiedFacts` and
`MirroredWasAnchored` for any inputs, any number of messages and calls of the gate
nested to any depth. A frame that fails brings back the storage it saw when it was
opened, so it is not enough that the current storage is sound: every storage an open
frame remembers has to be, for the frames below it (`StackSound`). The route of a
fact needs one inclusion per hop (`HopsFollow`).

`SepoliaMintCeremonyProofs` proves the two invariants and the two action properties of
the mint, for any number of ceremonies and faults. All ceremonies share one account
nonce, so at most one reservation is ever taken, and whatever was signed belongs to
it (`OneReservation`); the store's copy is the ledger unless it is poisoned
(`StoreFollows`); and `TaskRelies` says what a task found in the steps before.

`RecoveryGenesisProofs` proves the four invariants of genesis for any number of
intents, roles, ceremonies and faults, from `ConstantsAreValid`. Since a process may end
between any two writes, each write on its own must keep what holds of the files. So
the proof lists the eleven kinds of write there are with what each relies on (`Legal`),
states what holds of the files after every one of them (`FilesInv`: sound entries,
profile final, obligations told of, the running ceremony the last one minted), and
shows that every method plans only writes that are legal one after the other
(`Planned`). The rest is memory: the host's is the disk, and a file the coordinator
does not know of is about to be reported to it, or is a profile that lets it do
nothing but finalize (`MemoryInv`, `Hides`, `MayFinalize`).

`RecoveryStagingProofs` proves `OneWriter`, `MemoryIsDurable` and `NothingResumes` for
any number of processes, ceremonies, roles and faults, from `ConstantsAreValid`; the
one assumption with substance is that the processes are finitely many, so that a new
lock file can have an identity nobody knows yet (`FreshIdentity`: each process
remembers at most two, the lock it holds and the stale one it probed). A process never
sees more of a lock than its identity, so `IInv` says what each may conclude from it:
if the file at the path is the one it created, it is the holder; if it is the one it
probed, it is still stale, because a process that ended does not come back under the
same lock (`LockKnown`). As long as no replacement went unnoticed, the identity of every
holder is the one at the path (`Undisturbed`), so there is one holder, and nobody else
touches the journals. What the holder found on disk when its method began is therefore
still there, and `Knows` says what that is at each place inside a method: before the
write the journal of its last success, before the removal a terminal or damaged one,
then none. Steps of the holder are treated once per kind (write, remove, quarantine,
retire), each with and without a failing file operation. After a race of two takeovers
all this may be lost, but not `NothingResumes`: a process stages only the ceremony it
holds (`JobInv`, `CeremonyInv`), whoever else writes.

The last five inductive invariants were also model-checked on the instances of their
runs (with the sets of all sequences, which cannot be enumerated, left out).

Only model-checked: liveness (`RequestsEnd`, `SessionEnds`, `FirstCeremonyResumes`,
`StagingEnds`, `CreationIsSettled`, `FinalizationCompletes`), which the proof system
cannot do under fairness; and `OwnerCanUnfreeze`, which speaks of ENABLED. What could
really fail in the latter is that a frozen account has no recovery to cancel, and that
is excluded by the theorem `Frozen`.

## 6. Where documents and code differ

Shown by a run:

- `docs/reference/PHIL_V1_STEP6C2_PRODUCT_WIRING_IMPLEMENTATION_REPORT.md:96`: the host
  "discovers and reconciles incomplete requests on startup". A crash between the
  saved request and the first frame of its journal makes every start fail
  (`routine_orphan`).
- `docs/security/PHILCORE_RECOVERY_AUTHORITY_ROTATION.md:52`: "The current recovery
  authority can cancel a request proposed by the owner." When the owner proposes a
  rotation and then rotates its own key, the required canceller becomes the new owner
  (`beta_veto`).

Met while modelling, with what does hold checked instead:

- `docs/reference/O36_1_RECOVERY_SEMANTICS_SPECIFICATION.md:95`: a recovery request
  "immediately freezes lanes `0` and `1`". An operation validated in the same bundle
  as the request still takes effect after it (`FreezeLeaksOnlyInRequestBundle`).
- `docs/reference/O31_V2_IMPLEMENTATION_ARCHITECTURE_AND_MODULE_DESIGN.md:349`:
  "old-epoch authority fails even when its EntryPoint nonce remains unused". A
  configuration rotation request executes after a validator rotation of the same
  bundle although the outgoing validator signed it. Its two roles are still current
  (`TransitionsUseCurrentAuthority`).
- `PHIL_V1_STEP6C2_PRODUCT_WIRING_IMPLEMENTATION_REPORT.md:112`: a restart that loses its
  scan anchor "ends in `SUBMISSION_OUTCOME_UNKNOWN`". After a crash between the
  receipt-verified and the completed record the start fails, because no such
  transition is allowed.
- `docs/security/PHILCORE_RECOVERY_AUTHORITY_ROTATION.md:50`: "The pending recovery
  authority must be nonzero, different from the current recovery authority, and
  different from the current execution owner",
  and `docs/security/PHILCORE_RECOVERY_AUTHORITY_CUSTODY.md:26`: "Recovery authority is
  separate from the execution owner." The request for a rotation refuses the owner as
  new authority, but its completion does not compare again, and `rotateExecutionOwner`
  and `completeRecovery` do not look at a pending rotation: both roles may end at one
  address.
- `docs/reference/VERIFIED_FACT_CROSS_DOMAIN_ROUTE.md:61`: `sendMessage` of the adapter is
  "Called by configured L1 relay contract". The contract does not look at its caller,
  and the mirror takes what the adapter sends; hence `injected` in `FactRelay`.
- `docs/reference/PHIL_SEPOLIA_MINT_COMPOSED_DEMO_V1.md:151`: "An interruption after response
  persistence resumes from the approved ceremony." Not when the process was killed
  inside the write of a record, for instance of the completed one: the temporary file
  stays, `list` throws `SEPOLIA_MINT_CEREMONY_FILE_INVALID`, and with it every later Begin
  fails until somebody removes the file by hand. And only inside the window: an approved
  ceremony whose window has closed makes every later Begin fail too. These are the two
  exceptions of `FirstCeremonyResumes`; with either of them dropped TLC refutes it.
- `apps/philcore-desktop/test/desktop-recovery-staging-host.test.cjs:2573` "fails closed when
  a lock path is replaced immediately before stale quarantine rename". Between the last
  probe and the rename a replacement is not noticed, and the live lock is moved away
  (`raced` in `RecoveryStaging`).
- `apps/philcore-desktop/src/main/recovery-genesis-coordinator.cjs:642` calls
  `cancelRoleCeremony` "The guaranteed escape hatch: no host call, and non-throwing after
  its guards". It calls the host, and after a `cancelEnrollment` that failed between
  sidecar and journal it throws, as the obligation it names is gone.
- `apps/philcore-desktop/test/desktop-recovery-genesis-coordinator.test.cjs:2739`: "role
  cancellation after authorization durably blocks as ORPHANED". When the journal held the
  credential already, a restart drops the orphan, and the role can be finalized.
  `CancelledIsNeverFinalized` is about the other cancellations.

## 7. Plan

1. V2 account, abstract authority, verifier, with their proofs. Done.
2. Routine authorization: journal, coordinator, host, stores, restart, with the proofs
   of its safety and of what it promises. Done. Then the Step 6C account in place of the
   open chain.
3. Beta 4337 account, with its proofs. Done.
4. Fact relay with action gate and consumers, with their proofs. Done.
5. Recovery staging and genesis enrollment, with their proofs. Done. Then the recovery
   transport and enrollment hosts.
6. Mint ceremony and replay ledger, with their proofs. Done. Left: device identity,
   session and credential counter; device enrollment; Starknet account gate.

## 8. Not modelled

What the plan has left: recovery transport and enrollment hosts, device enrollment,
the device lifecycle, the Starknet account gate, and the single-purpose accounts.
Outside the plan: cryptography, encodings and CREATE2 addresses (pure
computation, taken as perfect), proof generation and circuits (out of a model
checker's reach), the SDK facade and shells (checks that build immutable values), the
desktop's windows and IPC, the iOS application (it is the environment of the host),
and deployment, audit and fixture scripts (pure I/O). These make up by far the largest
part of the repository's lines, and most of the rest validates the shape of plain
data; the models cover the parts that keep state.

Of the modelled parts, view functions, events, logs and message wording are left out,
and so are the methods of the routine host that no product code calls (its own
`deleteDisposableProfile` and its restore of a single request), the fact verifier that
reads an anchor directly and the two Sepolia-only contracts, clocks that run
backwards, the repair of directory modes, and the temporary files of the genesis host
and of the routine stores (section 2 says what they would add).
