----------------------------- MODULE FactRelay -----------------------------
(***************************************************************************)
(* The route of a verified fact and its use: a Starknet verifier sends the *)
(* fact to L1, PhilL1ProofInputHashAnchor consumes the message,            *)
(* PhilL1ToBaseProofInputHashMessenger relays anchored facts, the Base     *)
(* mirror records what arrives, and PhilBaseActionGate lets an             *)
(* authorization through once its fact is mirrored, marks the nullifier    *)
(* and calls the consumer.                                                 *)
(*                                                                         *)
(* Every step is permissionless and its own transaction, so steps come in  *)
(* any order. A cross-domain message may never arrive, arrive late or      *)
(* arrive again. The consumer, or the target it forwards to, runs in the   *)
(* middle of the gate: it may call the gate again, and a frame that fails  *)
(* takes back what it and the frames inside it did.                        *)
(*                                                                         *)
(* A fact is the hash of the public inputs, here the inputs themselves.    *)
(* The consumer is not among them.                                         *)
(***************************************************************************)
EXTENDS Integers, Sequences, FiniteSets

CONSTANTS
    Inputs,             \* public inputs of unlock proofs
    Null,
    Nullifier,          \* the nullifier among the public inputs
    Expiry,             \* the expiry among them; 0 is none
    UnlockInputs,       \* inputs whose action hash is that of an unlock request
    AdapterCallers,     \* who calls the messenger adapter: "relay", "anyone"
    MaxMessages, MaxDepth, MaxTime

ASSUME RelayAssumption ==
    /\ Null \notin Inputs
    /\ Expiry \in [Inputs -> 0..MaxTime]
    /\ UnlockInputs \subseteq Inputs
    /\ AdapterCallers \subseteq {"relay", "anyone"}
    /\ MaxMessages \in Nat /\ MaxDepth \in Nat /\ MaxTime \in Nat

VARIABLES
    published,          \* facts the Starknet verifier ever accepted
    l2Messages,         \* unconsumed L2-to-L1 messages per fact
    anchored, anchorLatest,
    inFlight,           \* cross-domain messages: the sender L1 reports and the fact
    injected,           \* history: facts somebody but the relay gave the adapter
    mirrored, mirrorLatest,
    consumedNullifier,
    effects,            \* what consumers did, in order: input, consumer, proof type
    nextTokenId, ownerOf,
    stack,              \* open calls of the gate, innermost last
    now

relay == <<published, l2Messages, anchored, anchorLatest, inFlight, injected, mirrored,
           mirrorLatest>>
gate == <<consumedNullifier, effects, nextTokenId, ownerOf>>
vars == <<relay, gate, stack, now>>

Nullifiers == {Nullifier[i] : i \in Inputs}
Consumers == {"mint", "unlock"}
ProofTypes == {"s-two", "stwo-unlock-keccak-v1"}
Effects == [input : Inputs, consumer : Consumers, proofType : ProofTypes]

\* Every slot keeps its type; token ids are handed out without a gap.
TypeOK ==
    /\ published \subseteq Inputs /\ anchored \subseteq Inputs /\ mirrored \subseteq Inputs
    /\ l2Messages \in [Inputs -> 0..MaxMessages]
    /\ {anchorLatest, mirrorLatest} \subseteq Inputs \cup {Null}
    /\ injected \subseteq Inputs
    /\ inFlight \subseteq [sender : {"adapter", "other"}, fact : Inputs]
    /\ consumedNullifier \subseteq Nullifiers
    /\ effects \in Seq(Effects)
    /\ DOMAIN ownerOf = 1..(nextTokenId - 1)
    /\ Len(stack) <= MaxDepth
    /\ now \in 0..MaxTime

Init ==
    /\ published = {} /\ anchored = {} /\ mirrored = {}
    /\ l2Messages = [i \in Inputs |-> 0]
    /\ anchorLatest = Null /\ mirrorLatest = Null
    /\ inFlight = {} /\ injected = {}
    /\ consumedNullifier = {} /\ effects = <<>>
    /\ nextTokenId = 1 /\ ownerOf = <<>>
    /\ stack = <<>>
    /\ now = 0

(***************************************************************************)
(* The route.                                                              *)
(***************************************************************************)
\* verify_proof_input_hash_slice_and_send_to_l1; the same fact may be sent again.
Publish(i) ==
    /\ l2Messages[i] < MaxMessages
    /\ published' = published \cup {i}
    /\ l2Messages' = [l2Messages EXCEPT ![i] = @ + 1]
    /\ UNCHANGED <<anchored, anchorLatest, inFlight, injected, mirrored, mirrorLatest,
                   gate, stack, now>>

ConsumeProofInputHashFactFromL2(i) ==
    /\ l2Messages[i] > 0
    /\ l2Messages' = [l2Messages EXCEPT ![i] = @ - 1]
    /\ anchored' = anchored \cup {i}
    /\ anchorLatest' = i
    /\ UNCHANGED <<published, inFlight, injected, mirrored, mirrorLatest, gate, stack, now>>

\* The relay contract hands the message to the adapter, and the adapter to the
\* bridge, so the sender that Base sees is the adapter.
RelayAnyFact(i) ==
    /\ "relay" \in AdapterCallers
    /\ inFlight' = inFlight \cup {[sender |-> "adapter", fact |-> i]}
    /\ UNCHANGED <<published, l2Messages, anchored, anchorLatest, injected, mirrored, mirrorLatest,
                   gate, stack, now>>
RelayProofInputHashFactToBase(i) ==
    /\ "relay" \in AdapterCallers
    /\ i \in anchored
    /\ inFlight' = inFlight \cup {[sender |-> "adapter", fact |-> i]}
    /\ UNCHANGED <<published, l2Messages, anchored, anchorLatest, injected, mirrored, mirrorLatest,
                   gate, stack, now>>

\* The adapter's sendMessage, called by something other than the relay contract.
SendMessage(i) ==
    /\ "anyone" \in AdapterCallers
    /\ injected' = injected \cup {i}
    /\ inFlight' = inFlight \cup {[sender |-> "adapter", fact |-> i]}
    /\ UNCHANGED <<published, l2Messages, anchored, anchorLatest, mirrored, mirrorLatest,
                   gate, stack, now>>

\* Any L1 contract may send to the mirror over the bridge under its own address.
ForeignMessage(i) ==
    /\ inFlight' = inFlight \cup {[sender |-> "other", fact |-> i]}
    /\ UNCHANGED <<published, l2Messages, anchored, anchorLatest, injected, mirrored, mirrorLatest,
                   gate, stack, now>>

MirrorFactOfAnySender(m) ==
    /\ mirrored' = mirrored \cup {m.fact} /\ mirrorLatest' = m.fact
    /\ UNCHANGED <<published, l2Messages, anchored, anchorLatest, inFlight, injected,
                   gate, stack, now>>
MirrorProofInputHashFact(m) ==
    /\ m.sender = "adapter"
    /\ mirrored' = mirrored \cup {m.fact}
    /\ mirrorLatest' = m.fact
    /\ UNCHANGED <<published, l2Messages, anchored, anchorLatest, inFlight, injected,
                   gate, stack, now>>

(***************************************************************************)
(* The gate. A call that passes the checks marks the nullifier and opens a *)
(* frame, which remembers the state to return to if it fails.              *)
(***************************************************************************)
\* The stub proof type carries no proof; the other is checked against the mirror.
VerifyUnlockProof(i, proofType) == proofType = "s-two" \/ i \in mirrored

VerifyThenMark(i, consumer, proofType) ==
    /\ Len(stack) < MaxDepth
    /\ Expiry[i] # 0 => now <= Expiry[i]
    /\ Nullifier[i] \notin consumedNullifier /\ VerifyUnlockProof(i, proofType)
    /\ stack' = Append(stack, [input |-> i, consumer |-> consumer, proofType |-> proofType,
                               before |-> gate])
    /\ UNCHANGED <<relay, gate, now>>
VerifyAndConsume(i, consumer, proofType) ==
    /\ Len(stack) < MaxDepth
    /\ Expiry[i] # 0 => now <= Expiry[i]
    /\ Nullifier[i] \notin consumedNullifier
    /\ VerifyUnlockProof(i, proofType)
    /\ consumedNullifier' = consumedNullifier \cup {Nullifier[i]}
    /\ stack' = Append(stack, [input |-> i, consumer |-> consumer, proofType |-> proofType,
                               before |-> gate])
    /\ UNCHANGED <<relay, effects, nextTokenId, ownerOf, now>>

Frame == stack[Len(stack)]
Return == stack' = SubSeq(stack, 1, Len(stack) - 1)
Effect(frame) == [input |-> frame.input, consumer |-> frame.consumer, proofType |-> frame.proofType]

\* PhilMintPassConsumer: one token per nullifier, for the recipient the owner
\* commitment and the consumer data determine.
ConsumeMint ==
    /\ stack # <<>> /\ Frame.consumer = "mint"
    /\ Nullifier[Frame.input] \notin {Nullifier[ownerOf[t]] : t \in DOMAIN ownerOf}
    /\ ownerOf' = Append(ownerOf, Frame.input)
    /\ nextTokenId' = nextTokenId + 1
    /\ effects' = Append(effects, Effect(Frame))
    /\ Return
    /\ UNCHANGED <<relay, consumedNullifier, now>>

\* PhilUnlockConsumer: the request must hash to the authorized action; the
\* target it calls is not trusted, and whatever it does lies before this step.
ConsumeUnlock ==
    /\ stack # <<>> /\ Frame.consumer = "unlock"
    /\ Frame.input \in UnlockInputs
    /\ effects' = Append(effects, Effect(Frame))
    /\ Return
    /\ UNCHANGED <<relay, consumedNullifier, nextTokenId, ownerOf, now>>

\* The consumer or its target fails; the caller of an inner frame may go on.
RevertFrame ==
    /\ stack # <<>>
    /\ consumedNullifier' = Frame.before[1] /\ effects' = Frame.before[2]
    /\ nextTokenId' = Frame.before[3] /\ ownerOf' = Frame.before[4]
    /\ Return
    /\ UNCHANGED <<relay, now>>

\* Only the unlock consumer hands control to a target that can call the gate.
MayCallGate == stack # <<>> => Frame.consumer = "unlock"

Tick == /\ stack = <<>>
        /\ now < MaxTime
        /\ now' = now + 1
        /\ UNCHANGED <<relay, gate, stack>>

Next ==
    \/ \E i \in Inputs :
          \/ stack = <<>> /\ (Publish(i) \/ ConsumeProofInputHashFactFromL2(i)
                              \/ RelayProofInputHashFactToBase(i) \/ SendMessage(i)
                              \/ ForeignMessage(i))
          \/ MayCallGate /\ \E consumer \in Consumers, proofType \in ProofTypes :
                VerifyAndConsume(i, consumer, proofType)
    \/ stack = <<>> /\ \E m \in inFlight : MirrorProofInputHashFact(m)
    \/ ConsumeMint \/ ConsumeUnlock \/ RevertFrame
    \/ Tick

Spec == Init /\ [][Next]_vars

(***************************************************************************)
(* Properties.                                                             *)
(***************************************************************************)
\* One nullifier lets one effect happen, whichever inputs, consumer or proof
\* type it is presented with and however a consumer's target calls back. Between
\* transactions a nullifier is spent exactly when its effect happened: a
\* consumer that failed, alone or inside another, leaves its nullifier unspent.
OneEffectPerNullifier ==
    /\ TypeOK
    /\ \A p, q \in DOMAIN effects :
          Nullifier[effects[p].input] = Nullifier[effects[q].input] => p = q
    /\ stack = <<>> =>
          consumedNullifier = {Nullifier[effects[p].input] : p \in DOMAIN effects}

\* An effect that presented a proof rests on a fact the Starknet verifier
\* accepted, or on one that somebody gave the adapter past the relay contract.
EffectsRestOnVerifiedFacts ==
    \A p \in DOMAIN effects :
        effects[p].proofType = "stwo-unlock-keccak-v1" =>
            effects[p].input \in published \cup injected

\* The mirror holds only facts the L1 anchor has recorded, however messages are
\* delayed, repeated and reordered; the adapter, which forwards for every
\* caller, is the only other way in.
MirroredWasAnchored == mirrored \ injected \subseteq anchored
=============================================================================
