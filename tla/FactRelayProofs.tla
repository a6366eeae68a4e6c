-------------------------- MODULE FactRelayProofs --------------------------
(***************************************************************************)
(* Proofs about the relay of facts and the action gate, for any inputs,    *)
(* nullifiers and expiries, any number of messages and calls of the gate   *)
(* nested to any depth.                                                    *)
(*                                                                         *)
(* The gate's invariant must hold of more than the current storage: a      *)
(* frame that fails brings back the storage it saw when it was opened, so  *)
(* every storage that an open frame remembers has to be as sound, for the  *)
(* frames below it, as the current one is for all of them.                 *)
(***************************************************************************)
EXTENDS FactRelay, SequenceTheorems, TLAPS

USE RelayAssumption

(***************************************************************************)
(* The route of a fact.                                                    *)
(***************************************************************************)
RelayTyped ==
    /\ published \subseteq Inputs /\ anchored \subseteq Inputs /\ mirrored \subseteq Inputs
    /\ l2Messages \in [Inputs -> 0..MaxMessages]
    /\ {anchorLatest, mirrorLatest} \subseteq Inputs \cup {Null}
    /\ injected \subseteq Inputs
    /\ inFlight \subseteq [sender : {"adapter", "other"}, fact : Inputs]
    /\ now \in 0..MaxTime

\* Each hop holds only what the hop before it held; what a message under the
\* adapter's name carries was anchored, or was given to the adapter directly.
HopsFollow ==
    /\ \A i \in Inputs : l2Messages[i] > 0 => i \in published
    /\ anchored \subseteq published
    /\ \A m \in inFlight : m.sender = "adapter" => m.fact \in anchored \cup injected
    /\ mirrored \subseteq anchored \cup injected

RelayInv == RelayTyped /\ HopsFollow

(***************************************************************************)
(* The gate.                                                               *)
(***************************************************************************)
Storages == (SUBSET Nullifiers) \X Seq(Effects) \X (Nat \ {0}) \X Seq(Inputs)
Frames == [input : Inputs, consumer : Consumers, proofType : ProofTypes, before : Storages]

Facts == published \cup injected

Spent(done) == {Nullifier[done[p].input] : p \in DOMAIN done}
Held(frames, n) == {Nullifier[frames[j].input] : j \in 1..n}
Rests(e, facts) == e.proofType = "stwo-unlock-keccak-v1" => e.input \in facts

\* A storage in which the first n frames are open: the nullifiers marked are
\* those of what was done and those of the open frames, each once.
Sound(storage, frames, n, facts) ==
    /\ storage \in Storages
    /\ Len(storage[4]) = storage[3] - 1
    /\ storage[1] = Spent(storage[2]) \cup Held(frames, n)
    /\ Spent(storage[2]) \cap Held(frames, n) = {}
    /\ \A p, q \in DOMAIN storage[2] :
          Nullifier[storage[2][p].input] = Nullifier[storage[2][q].input] => p = q
    /\ \A p \in DOMAIN storage[2] : Rests(storage[2][p], facts)

StackSound(frames, facts) ==
    /\ frames \in Seq(Frames)
    /\ \A j \in 1..Len(frames) : Rests(frames[j], facts)
    /\ \A j, k \in 1..Len(frames) :
          Nullifier[frames[j].input] = Nullifier[frames[k].input] => j = k
    /\ \A j \in 1..Len(frames) : Sound(frames[j].before, frames, j - 1, facts)

GateInv ==
    /\ Len(stack) <= MaxDepth
    /\ StackSound(stack, Facts)
    /\ Sound(gate, stack, Len(stack), Facts)

IInv == RelayInv /\ GateInv

-----------------------------------------------------------------------------
\* The parts of the gate's storage make a storage.
LEMMA StorageParts ==
    ASSUME NEW a \in SUBSET Nullifiers, NEW b \in Seq(Effects), NEW c \in Nat \ {0},
           NEW d \in Seq(Inputs)
    PROVE  <<a, b, c, d>> \in Storages
BY DEF Storages

\* Nothing is published, marked or open at first.
LEMMA InitIInv == Init => IInv
<1> SUFFICES ASSUME Init PROVE IInv
  OBVIOUS
<1>1. RelayInv
  BY DEF Init, RelayInv, RelayTyped, HopsFollow
<1>2. Sound(gate, stack, Len(stack), Facts)
  <2>1. gate = <<{}, <<>>, 1, <<>>>> /\ Len(stack) = 0
    BY DEF Init, gate
  <2>2. gate \in Storages
    <3>1. <<>> \in Seq(Effects) /\ <<>> \in Seq(Inputs) /\ {} \in SUBSET Nullifiers
      OBVIOUS
    <3>2. 1 \in Nat \ {0}
      OBVIOUS
    <3>3. <<{}, <<>>, 1, <<>>>> \in Storages
      BY <3>1, <3>2, StorageParts, Zenon
    <3> QED
      BY <2>1, <3>3
  <2>3. Spent(gate[2]) = {} /\ Held(stack, 0) = {}
    BY <2>1 DEF Spent, Held
  <2> QED
    BY <2>1, <2>2, <2>3 DEF Sound
<1>3. GateInv
  BY <1>2 DEF Init, GateInv, StackSound
<1> QED
  BY <1>1, <1>3 DEF IInv

\* What a storage is for the open frames depends on those frames alone, and
\* facts are never taken back.
LEMMA SoundStays ==
    ASSUME NEW storage, NEW f, NEW g, NEW n \in Nat, NEW F, NEW G,
           Sound(storage, f, n, F), F \subseteq G, \A j \in 1..n : f[j] = g[j]
    PROVE  Sound(storage, g, n, G)
<1>1. Held(f, n) = Held(g, n)
  BY DEF Held
<1>2. \A e : Rests(e, F) => Rests(e, G)
  BY DEF Rests
<1> QED
  BY <1>1, <1>2 DEF Sound

\* A relay step leaves the gate alone and takes back no fact.
LEMMA RelayKeepsGate ==
    ASSUME GateInv, UNCHANGED <<gate, stack>>, Facts \subseteq Facts'
    PROVE  GateInv'
<1>1. \A e : Rests(e, Facts) => Rests(e, Facts')
  BY DEF Rests
<1>2. stack \in Seq(Frames) /\ Len(stack) \in Nat /\ \A j \in 1..Len(stack) : j - 1 \in Nat
  BY DEF GateInv, StackSound
<1>3. \A j \in 1..Len(stack) : Sound(stack[j].before, stack, j - 1, Facts')
  BY <1>2, SoundStays DEF GateInv, StackSound
<1>4. Sound(gate, stack, Len(stack), Facts')
  BY <1>2, SoundStays DEF GateInv
<1> QED
  BY <1>1, <1>2, <1>3, <1>4 DEF GateInv, StackSound

\* Without its last frame a stack is sound, and the last frame remembers a
\* storage that is sound for the rest; its nullifier is held by no other.
LEMMA DropFrame ==
    ASSUME NEW f, NEW F, StackSound(f, F), f # <<>>
    PROVE  LET n == Len(f)
               g == SubSeq(f, 1, n - 1)
           IN /\ n \in Nat \ {0} /\ f[n] \in Frames
              /\ Len(g) = n - 1
              /\ StackSound(g, F)
              /\ Sound(f[n].before, g, n - 1, F)
              /\ Held(f, n) = Held(g, n - 1) \cup {Nullifier[f[n].input]}
              /\ Nullifier[f[n].input] \notin Held(g, n - 1)
              /\ Rests(f[n], F)
<1> DEFINE n == Len(f)
           g == SubSeq(f, 1, n - 1)
<1>1. f \in Seq(Frames) /\ n \in Nat \ {0} /\ f[n] \in Frames
  BY DEF StackSound
<1>2. g \in Seq(Frames) /\ Len(g) = n - 1 /\ \A j \in 1..(n - 1) : f[j] = g[j]
  <2>1. \A j \in 1..(n - 1) : f[j] \in Frames
    BY <1>1
  <2>2. /\ g \in Seq(Frames)
        /\ Len(g) = IF 1 <= n - 1 THEN n - 1 - 1 + 1 ELSE 0
        /\ \A j \in 1..(n - 1 - 1 + 1) : g[j] = f[1 + j - 1]
    <3>1. 1 \in Int /\ n - 1 \in Int
      BY <1>1
    <3> QED
      BY <2>1, <3>1, SubSeqProperties
  <2> HIDE DEF n, g
  <2>3. n - 1 - 1 + 1 = n - 1 /\ \A j \in 1..(n - 1) : 1 + j - 1 = j
    BY <1>1
  <2>4. Len(g) = n - 1
    BY <1>1, <2>2, <2>3
  <2> QED
    BY <2>2, <2>3, <2>4
<1> HIDE DEF g
<1>3. \A j \in 1..n : Sound(f[j].before, f, j - 1, F)
  BY DEF StackSound
<1>4. \A j \in 1..n : Sound(f[j].before, g, j - 1, F)
  <2> SUFFICES ASSUME NEW j \in 1..n PROVE Sound(f[j].before, g, j - 1, F)
    OBVIOUS
  <2>1. j - 1 \in Nat /\ \A k \in 1..(j - 1) : f[k] = g[k]
    BY <1>1, <1>2
  <2> QED
    BY <1>3, <2>1, SoundStays
<1>5. StackSound(g, F)
  <2>1. \A j \in 1..Len(g) : j \in 1..n /\ g[j] = f[j]
    BY <1>1, <1>2
  <2>2. \A j \in 1..Len(g) : Rests(g[j], F)
    BY <2>1 DEF StackSound
  <2>3. \A j, k \in 1..Len(g) : Nullifier[g[j].input] = Nullifier[g[k].input] => j = k
    BY <2>1 DEF StackSound
  <2>4. \A j \in 1..Len(g) : Sound(g[j].before, g, j - 1, F)
    BY <2>1, <1>4
  <2> QED
    BY <1>2, <2>2, <2>3, <2>4 DEF StackSound
<1>6. Held(f, n) = Held(g, n - 1) \cup {Nullifier[f[n].input]}
  BY <1>1, <1>2 DEF Held
<1>7. Nullifier[f[n].input] \notin Held(g, n - 1)
  BY <1>1, <1>2 DEF Held, StackSound
<1>8. Rests(f[n], F) /\ Sound(f[n].before, g, n - 1, F)
  BY <1>1, <1>4 DEF StackSound
<1> QED
  BY <1>1, <1>2, <1>5, <1>6, <1>7, <1>8 DEF g

\* A new frame whose nullifier is held by no open frame, and whose storage is
\* sound for the frames below it.
LEMMA PushFrame ==
    ASSUME NEW f, NEW F, StackSound(f, F), NEW frame \in Frames,
           Rests(frame, F), Sound(frame.before, f, Len(f), F),
           Nullifier[frame.input] \notin Held(f, Len(f))
    PROVE  LET g == Append(f, frame)
           IN /\ Len(f) \in Nat /\ Len(g) = Len(f) + 1
              /\ StackSound(g, F)
              /\ Held(g, Len(g)) = Held(f, Len(f)) \cup {Nullifier[frame.input]}
<1> DEFINE n == Len(f)
           g == Append(f, frame)
<1>1. f \in Seq(Frames) /\ n \in Nat
  BY DEF StackSound
<1>2. /\ g \in Seq(Frames) /\ Len(g) = n + 1
      /\ \A j \in 1..n : g[j] = f[j]
      /\ g[n + 1] = frame
  BY <1>1
<1> HIDE DEF g
<1>3. \A j \in 1..(n + 1) : Rests(g[j], F)
  BY <1>1, <1>2 DEF StackSound
<1>4. \A j, k \in 1..(n + 1) : Nullifier[g[j].input] = Nullifier[g[k].input] => j = k
  BY <1>1, <1>2 DEF StackSound, Held
<1>5. ASSUME NEW j \in 1..(n + 1)
      PROVE  Sound(g[j].before, g, j - 1, F)
  <2>1. j - 1 \in Nat /\ \A k \in 1..(j - 1) : f[k] = g[k]
    BY <1>1, <1>2
  <2>2. Sound(g[j].before, f, j - 1, F)
    <3>1. CASE j = n + 1
      BY <1>1, <1>2, <3>1
    <3>2. CASE j \in 1..n
      BY <1>2, <3>2 DEF StackSound
    <3> QED
      BY <1>1, <3>1, <3>2
  <2> QED
    BY <2>1, <2>2, SoundStays
<1>6. StackSound(g, F)
  BY <1>2, <1>3, <1>4, <1>5 DEF StackSound
<1>7. Held(g, n + 1) = Held(f, n) \cup {Nullifier[frame.input]}
  BY <1>1, <1>2 DEF Held
<1> QED
  BY <1>1, <1>2, <1>6, <1>7 DEF g

\* One more effect spends one more nullifier.
LEMMA SpentAppend ==
    ASSUME NEW done \in Seq(Effects), NEW e \in Effects
    PROVE  /\ Append(done, e) \in Seq(Effects)
           /\ DOMAIN Append(done, e) = DOMAIN done \cup {Len(done) + 1}
           /\ \A p \in DOMAIN done : Append(done, e)[p] = done[p]
           /\ Append(done, e)[Len(done) + 1] = e
           /\ Spent(Append(done, e)) = Spent(done) \cup {Nullifier[e.input]}
<1>1. /\ Append(done, e) \in Seq(Effects)
      /\ DOMAIN Append(done, e) = DOMAIN done \cup {Len(done) + 1}
      /\ \A p \in DOMAIN done : Append(done, e)[p] = done[p]
      /\ Append(done, e)[Len(done) + 1] = e
  OBVIOUS
<1>2. ASSUME NEW x
      PROVE  x \in Spent(Append(done, e)) <=> x \in Spent(done) \cup {Nullifier[e.input]}
  BY <1>1 DEF Spent
<1> QED
  BY <1>1, <1>2

-----------------------------------------------------------------------------
\* Opening a frame: the nullifier was not marked, so no effect and no open
\* frame has it.
LEMMA VerifyAndConsumeKeepsGate ==
    ASSUME IInv, NEW i \in Inputs, NEW consumer \in Consumers, NEW proofType \in ProofTypes,
           VerifyAndConsume(i, consumer, proofType)
    PROVE  GateInv'
<1> DEFINE frame == [input |-> i, consumer |-> consumer, proofType |-> proofType,
                     before |-> gate]
<1>1. /\ StackSound(stack, Facts)
      /\ Sound(gate, stack, Len(stack), Facts)
      /\ Facts' = Facts
      /\ stack' = Append(stack, frame)
      /\ gate = <<consumedNullifier, effects, nextTokenId, ownerOf>>
      /\ gate' = <<consumedNullifier \cup {Nullifier[i]}, effects, nextTokenId, ownerOf>>
  BY DEF IInv, GateInv, VerifyAndConsume, Facts, relay, gate
<1>2. frame \in Frames /\ Nullifier[frame.input] = Nullifier[i]
  BY <1>1 DEF Frames, Sound
<1>3. Nullifier[i] \notin Spent(effects) \cup Held(stack, Len(stack))
  BY <1>1 DEF Sound, VerifyAndConsume
<1>4. Rests(frame, Facts)
  BY DEF Rests, Facts, VerifyAndConsume, VerifyUnlockProof, IInv, RelayInv, HopsFollow
<1>5. /\ Len(stack) \in Nat /\ Len(stack') = Len(stack) + 1
      /\ StackSound(stack', Facts)
      /\ Held(stack', Len(stack')) = Held(stack, Len(stack)) \cup {Nullifier[i]}
  BY <1>1, <1>2, <1>3, <1>4, PushFrame
<1>6. gate' \in Storages
  <2>1. consumedNullifier \cup {Nullifier[i]} \in SUBSET Nullifiers
    BY <1>1 DEF Sound, Storages, Nullifiers
  <2>2. effects \in Seq(Effects) /\ nextTokenId \in Nat \ {0} /\ ownerOf \in Seq(Inputs)
    BY <1>1 DEF Sound, Storages
  <2> QED
    BY <1>1, <2>1, <2>2, StorageParts
<1>7. Sound(gate', stack', Len(stack'), Facts)
  <2>1. /\ gate'[1] = gate[1] \cup {Nullifier[i]} /\ gate'[2] = effects
        /\ gate'[3] = gate[3] /\ gate'[4] = gate[4]
        /\ gate[2] = effects
    BY <1>1
  <2>2. /\ Len(gate'[4]) = gate'[3] - 1
        /\ \A p, q \in DOMAIN effects :
              Nullifier[effects[p].input] = Nullifier[effects[q].input] => p = q
        /\ \A p \in DOMAIN effects : Rests(effects[p], Facts)
    BY <1>1, <2>1 DEF Sound
  <2>3. /\ gate[1] = Spent(effects) \cup Held(stack, Len(stack))
        /\ Spent(effects) \cap Held(stack, Len(stack)) = {}
    BY <1>1, <2>1 DEF Sound
  <2>4. /\ gate'[1] = Spent(effects) \cup Held(stack', Len(stack'))
        /\ Spent(effects) \cap Held(stack', Len(stack')) = {}
    BY <1>3, <1>5, <2>1, <2>3
  <2> QED
    BY <1>6, <2>1, <2>2, <2>4 DEF Sound
<1>8. Len(stack') <= MaxDepth
  BY <1>5 DEF VerifyAndConsume
<1> QED
  BY <1>1, <1>5, <1>7, <1>8 DEF GateInv

\* A consumer that succeeds: the nullifier its frame held is now spent.
LEMMA ConsumeKeepsGate ==
    ASSUME GateInv, stack # <<>>, Return, UNCHANGED <<relay, consumedNullifier>>,
           effects' = Append(effects, Effect(Frame)),
           \/ UNCHANGED <<nextTokenId, ownerOf>>
           \/ nextTokenId' = nextTokenId + 1 /\ ownerOf' = Append(ownerOf, Frame.input)
    PROVE  GateInv'
<1>1. /\ StackSound(stack, Facts)
      /\ Sound(gate, stack, Len(stack), Facts)
      /\ Facts' = Facts
      /\ stack' = SubSeq(stack, 1, Len(stack) - 1)
      /\ Frame = stack[Len(stack)]
      /\ gate = <<consumedNullifier, effects, nextTokenId, ownerOf>>
      /\ gate' = <<consumedNullifier, effects', nextTokenId', ownerOf'>>
  BY DEF GateInv, Facts, relay, gate, Return, Frame
<1>2. /\ Len(stack) \in Nat \ {0} /\ Frame \in Frames
      /\ Len(stack') = Len(stack) - 1
      /\ StackSound(stack', Facts)
      /\ Held(stack, Len(stack)) = Held(stack', Len(stack')) \cup {Nullifier[Frame.input]}
      /\ Nullifier[Frame.input] \notin Held(stack', Len(stack'))
      /\ Rests(Frame, Facts)
  BY <1>1, DropFrame
<1>3. /\ consumedNullifier \in SUBSET Nullifiers
      /\ effects \in Seq(Effects) /\ nextTokenId \in Nat \ {0} /\ ownerOf \in Seq(Inputs)
      /\ Len(ownerOf) = nextTokenId - 1
  BY <1>1 DEF Sound, Storages
<1>4. /\ Effect(Frame) \in Effects /\ Effect(Frame).input = Frame.input
      /\ Rests(Effect(Frame), Facts)
  BY <1>2 DEF Effect, Effects, Frames, Rests
<1>5. /\ effects' \in Seq(Effects)
      /\ DOMAIN effects' = DOMAIN effects \cup {Len(effects) + 1}
      /\ \A p \in DOMAIN effects : effects'[p] = effects[p]
      /\ effects'[Len(effects) + 1] = Effect(Frame)
      /\ Spent(effects') = Spent(effects) \cup {Nullifier[Frame.input]}
  BY <1>3, <1>4, SpentAppend
<1>6. /\ nextTokenId' \in Nat \ {0} /\ ownerOf' \in Seq(Inputs)
      /\ Len(ownerOf') = nextTokenId' - 1
  <2>1. Frame.input \in Inputs
    BY <1>2 DEF Frames
  <2>2. CASE UNCHANGED <<nextTokenId, ownerOf>>
    BY <1>3, <2>2
  <2>3. CASE nextTokenId' = nextTokenId + 1 /\ ownerOf' = Append(ownerOf, Frame.input)
    BY <1>3, <2>1, <2>3
  <2> QED
    BY <2>2, <2>3
<1>7. gate' \in Storages
  BY <1>1, <1>3, <1>5, <1>6, StorageParts
<1>8. Nullifier[Frame.input] \notin Spent(effects)
  BY <1>1, <1>2 DEF Sound
<1>9. \A p, q \in DOMAIN effects' :
          Nullifier[effects'[p].input] = Nullifier[effects'[q].input] => p = q
  <2>1. \A p \in DOMAIN effects : Nullifier[effects'[p].input] # Nullifier[Frame.input]
    BY <1>5, <1>8 DEF Spent
  <2>2. \A p, q \in DOMAIN effects :
          Nullifier[effects[p].input] = Nullifier[effects[q].input] => p = q
    BY <1>1 DEF Sound
  <2> QED
    BY <1>4, <1>5, <2>1, <2>2
<1>10. \A p \in DOMAIN effects' : Rests(effects'[p], Facts)
  BY <1>1, <1>4, <1>5 DEF Sound
<1>11. Sound(gate', stack', Len(stack'), Facts)
  <2>1. consumedNullifier = Spent(effects') \cup Held(stack', Len(stack'))
    BY <1>1, <1>2, <1>5 DEF Sound
  <2>2. Spent(effects') \cap Held(stack', Len(stack')) = {}
    BY <1>1, <1>2, <1>5 DEF Sound
  <2> QED
    BY <1>1, <1>6, <1>7, <1>9, <1>10, <2>1, <2>2 DEF Sound
<1> QED
  BY <1>1, <1>2, <1>11 DEF GateInv

\* A frame that fails brings back the storage it saw.
LEMMA RevertKeepsGate ==
    ASSUME GateInv, RevertFrame
    PROVE  GateInv'
<1>1. /\ StackSound(stack, Facts)
      /\ stack # <<>>
      /\ Facts' = Facts
      /\ stack' = SubSeq(stack, 1, Len(stack) - 1)
      /\ Frame = stack[Len(stack)]
      /\ gate' = <<Frame.before[1], Frame.before[2], Frame.before[3], Frame.before[4]>>
  BY DEF GateInv, RevertFrame, Facts, relay, gate, Return, Frame
<1>2. /\ Len(stack) \in Nat \ {0} /\ Frame \in Frames
      /\ Len(stack') = Len(stack) - 1
      /\ StackSound(stack', Facts)
      /\ Sound(Frame.before, stack', Len(stack'), Facts)
  BY <1>1, DropFrame
<1>3. gate' = Frame.before
  BY <1>1, <1>2 DEF Frames, Storages
<1>4. Sound(gate', stack', Len(stack'), Facts)
  BY <1>2, <1>3
<1>5. Len(stack') <= MaxDepth
  BY <1>2 DEF GateInv
<1> QED
  BY <1>1, <1>2, <1>4, <1>5 DEF GateInv

-----------------------------------------------------------------------------
\* The steps of the route keep each hop behind the hop before it.
LEMMA RouteStep ==
    ASSUME IInv, NEW i \in Inputs,
           \/ Publish(i) \/ ConsumeProofInputHashFactFromL2(i)
           \/ RelayProofInputHashFactToBase(i) \/ SendMessage(i) \/ ForeignMessage(i)
    PROVE  IInv'
<1>1. RelayTyped /\ HopsFollow /\ GateInv
  BY DEF IInv, RelayInv
<1>2. CASE Publish(i)
  <2>1. RelayTyped'
    BY <1>1, <1>2 DEF Publish, RelayTyped
  <2>2. HopsFollow'
    BY <1>1, <1>2 DEF Publish, RelayTyped, HopsFollow
  <2>3. Facts \subseteq Facts' /\ UNCHANGED <<gate, stack>>
    BY <1>2 DEF Publish, Facts
  <2> QED
    BY <1>1, <2>1, <2>2, <2>3, RelayKeepsGate DEF IInv, RelayInv
<1>3. CASE ConsumeProofInputHashFactFromL2(i)
  <2>1. RelayTyped'
    BY <1>1, <1>3 DEF ConsumeProofInputHashFactFromL2, RelayTyped
  <2>2. HopsFollow'
    BY <1>1, <1>3 DEF ConsumeProofInputHashFactFromL2, RelayTyped, HopsFollow
  <2>3. Facts \subseteq Facts' /\ UNCHANGED <<gate, stack>>
    BY <1>3 DEF ConsumeProofInputHashFactFromL2, Facts
  <2> QED
    BY <1>1, <2>1, <2>2, <2>3, RelayKeepsGate DEF IInv, RelayInv
<1>4. CASE RelayProofInputHashFactToBase(i)
  <2>1. RelayTyped'
    BY <1>1, <1>4 DEF RelayProofInputHashFactToBase, RelayTyped
  <2>2. HopsFollow'
    BY <1>1, <1>4 DEF RelayProofInputHashFactToBase, RelayTyped, HopsFollow
  <2>3. Facts \subseteq Facts' /\ UNCHANGED <<gate, stack>>
    BY <1>4 DEF RelayProofInputHashFactToBase, Facts
  <2> QED
    BY <1>1, <2>1, <2>2, <2>3, RelayKeepsGate DEF IInv, RelayInv
<1>5. CASE SendMessage(i)
  <2>1. RelayTyped'
    BY <1>1, <1>5 DEF SendMessage, RelayTyped
  <2>2. HopsFollow'
    BY <1>1, <1>5 DEF SendMessage, RelayTyped, HopsFollow
  <2>3. Facts \subseteq Facts' /\ UNCHANGED <<gate, stack>>
    BY <1>5 DEF SendMessage, Facts
  <2> QED
    BY <1>1, <2>1, <2>2, <2>3, RelayKeepsGate DEF IInv, RelayInv
<1>6. CASE ForeignMessage(i)
  <2>1. RelayTyped'
    BY <1>1, <1>6 DEF ForeignMessage, RelayTyped
  <2>2. HopsFollow'
    BY <1>1, <1>6 DEF ForeignMessage, RelayTyped, HopsFollow
  <2>3. Facts \subseteq Facts' /\ UNCHANGED <<gate, stack>>
    BY <1>6 DEF ForeignMessage, Facts
  <2> QED
    BY <1>1, <2>1, <2>2, <2>3, RelayKeepsGate DEF IInv, RelayInv
<1> QED
  BY <1>2, <1>3, <1>4, <1>5, <1>6

\* A message that arrives adds a fact only under the adapter's name.
LEMMA MirrorStep ==
    ASSUME IInv, NEW m \in inFlight, MirrorProofInputHashFact(m)
    PROVE  IInv'
<1>1. RelayTyped /\ HopsFollow /\ GateInv
  BY DEF IInv, RelayInv
<1>2. RelayTyped'
  BY <1>1 DEF MirrorProofInputHashFact, RelayTyped
<1>3. HopsFollow'
  BY <1>1 DEF MirrorProofInputHashFact, RelayTyped, HopsFollow
<1>4. Facts \subseteq Facts' /\ UNCHANGED <<gate, stack>>
  BY DEF MirrorProofInputHashFact, Facts
<1> QED
  BY <1>1, <1>2, <1>3, <1>4, RelayKeepsGate DEF IInv, RelayInv

\* Every step, of the route or of the gate, keeps the invariant.
LEMMA NextIInv == IInv /\ [Next]_vars => IInv'
<1> SUFFICES ASSUME IInv, [Next]_vars PROVE IInv'
  OBVIOUS
<1>1. RelayInv /\ GateInv
  BY DEF IInv
<1>2. UNCHANGED <<relay, now>> => RelayInv'
  BY <1>1 DEF RelayInv, RelayTyped, HopsFollow, relay
<1>3. CASE \E i \in Inputs :
              \/ Publish(i) \/ ConsumeProofInputHashFactFromL2(i)
              \/ RelayProofInputHashFactToBase(i) \/ SendMessage(i) \/ ForeignMessage(i)
  BY <1>3, RouteStep
<1>4. CASE \E m \in inFlight : MirrorProofInputHashFact(m)
  BY <1>4, MirrorStep
<1>5. CASE \E i \in Inputs, consumer \in Consumers, proofType \in ProofTypes :
              VerifyAndConsume(i, consumer, proofType)
  <2>1. GateInv'
    BY <1>5, VerifyAndConsumeKeepsGate
  <2> QED
    BY <1>2, <1>5, <2>1 DEF IInv, VerifyAndConsume
<1>6. CASE ConsumeMint
  <2>1. GateInv'
    BY <1>1, <1>6, ConsumeKeepsGate DEF ConsumeMint
  <2> QED
    BY <1>2, <1>6, <2>1 DEF IInv, ConsumeMint
<1>7. CASE ConsumeUnlock
  <2>1. GateInv'
    BY <1>1, <1>7, ConsumeKeepsGate DEF ConsumeUnlock
  <2> QED
    BY <1>2, <1>7, <2>1 DEF IInv, ConsumeUnlock
<1>8. CASE RevertFrame
  <2>1. GateInv'
    BY <1>1, <1>8, RevertKeepsGate
  <2> QED
    BY <1>2, <1>8, <2>1 DEF IInv, RevertFrame
<1>9. CASE Tick
  <2>1. GateInv'
    BY <1>1, <1>9, RelayKeepsGate DEF Tick, relay, Facts
  <2>2. RelayInv'
    BY <1>1, <1>9 DEF Tick, relay, RelayInv, RelayTyped, HopsFollow
  <2> QED
    BY <2>1, <2>2 DEF IInv
<1>10. CASE UNCHANGED vars
  <2>1. UNCHANGED <<relay, gate, stack, now>>
    BY <1>10 DEF vars
  <2>2. Facts' = Facts
    BY <2>1 DEF relay, Facts
  <2> QED
    BY <1>1, <1>2, <2>1, <2>2, RelayKeepsGate DEF IInv
<1> QED
  BY <1>3, <1>4, <1>5, <1>6, <1>7, <1>8, <1>9, <1>10 DEF Next

\* The route and the gate keep their invariant.
LEMMA SpecIInv == Spec => []IInv
BY InitIInv, NextIInv, PTL DEF Spec

-----------------------------------------------------------------------------
\* One nullifier lets one effect happen, however deep the target of an unlock
\* calls back into PhilBaseActionGate and wherever a frame fails; between
\* transactions the marked nullifiers are exactly those of what happened.
THEOREM EffectsAreUnique == Spec => []OneEffectPerNullifier
<1>1. IInv => OneEffectPerNullifier
  <2> SUFFICES ASSUME IInv PROVE OneEffectPerNullifier
    OBVIOUS
  <2>1. Sound(gate, stack, Len(stack), Facts) /\ stack \in Seq(Frames)
        /\ gate = <<consumedNullifier, effects, nextTokenId, ownerOf>>
    BY DEF IInv, GateInv, StackSound, gate
  <2>2. /\ consumedNullifier \in SUBSET Nullifiers
        /\ effects \in Seq(Effects) /\ nextTokenId \in Nat \ {0} /\ ownerOf \in Seq(Inputs)
        /\ Len(ownerOf) = nextTokenId - 1
    BY <2>1 DEF Sound, Storages
  <2>3. TypeOK
    BY <2>2 DEF IInv, RelayInv, RelayTyped, GateInv, TypeOK
  <2>4. /\ \A p, q \in DOMAIN effects :
              Nullifier[effects[p].input] = Nullifier[effects[q].input] => p = q
        /\ consumedNullifier = Spent(effects) \cup Held(stack, Len(stack))
    BY <2>1 DEF Sound
  <2>5. stack = <<>> => Held(stack, Len(stack)) = {}
    BY DEF Held
  <2> QED
    BY <2>3, <2>4, <2>5 DEF OneEffectPerNullifier, Spent
<1> QED
  BY <1>1, SpecIInv, PTL

\* An effect that presented a proof rests on a fact the Starknet verifier
\* accepted, or on one given to the adapter past the relay contract: also an
\* effect of a frame opened inside another.
THEOREM EffectsAreProved == Spec => []EffectsRestOnVerifiedFacts
<1>1. IInv => EffectsRestOnVerifiedFacts
  <2> SUFFICES ASSUME IInv PROVE EffectsRestOnVerifiedFacts
    OBVIOUS
  <2>1. Sound(gate, stack, Len(stack), Facts) /\ gate[2] = effects
    BY DEF IInv, GateInv, gate
  <2>2. \A p \in DOMAIN effects : Rests(effects[p], Facts)
    BY <2>1 DEF Sound
  <2> QED
    BY <2>2 DEF EffectsRestOnVerifiedFacts, Rests, Facts
<1> QED
  BY <1>1, SpecIInv, PTL

\* The Base mirror holds only facts that PhilL1ProofInputHashAnchor recorded,
\* or that came in through the adapter, for any number of messages in flight,
\* lost, repeated or reordered.
THEOREM MirrorFollowsAnchor == Spec => []MirroredWasAnchored
<1>1. IInv => MirroredWasAnchored
  BY DEF IInv, RelayInv, HopsFollow, MirroredWasAnchored
<1> QED
  BY <1>1, SpecIInv, PTL
=============================================================================
