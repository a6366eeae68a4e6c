--------------------- MODULE RoutineAuthorizationProofs ---------------------
(***************************************************************************)
(* Proofs about routine authorization, for any number of requests, of      *)
(* crashes and of failed writes, with and without a caller of reconcile.   *)
(*                                                                         *)
(* Of each request the journal is a chain, memory is at most one frame     *)
(* behind it, and once the operation was sent neither is ever back before  *)
(* the commit.  Around that: what a step of the queue may rely on, what    *)
(* the host's phase says about memory, and that one request at a time is   *)
(* active, which is what keeps two operations from being in flight.        *)
(***************************************************************************)
EXTENDS RoutineAuthorization, SequenceTheorems, TLAPS

USE JournalAssumption, HostAssumption, NullAssumption

\* The records of a request whose operation may have been sent.
Sent == {SUBMISSION_COMMITTED, SUBMITTED, RECEIPT_VERIFIED, COMPLETED, FAILED_EXECUTION,
         RECEIPT_INVALID, SUBMISSION_OUTCOME_UNKNOWN}

Transitions(state) == PublicTransitions(state) \cup VerifiedTransitions(state)

\* The files and the record in memory of one request.
Durable(r) ==
    /\ OnRecord(r) => ValidChain(journal[r])
    /\ entry[r] # Null /\ ~deletionMarker =>
         /\ r \in requests
         /\ entry[r].generation \in {Len(journal[r]) - 1, Len(journal[r])} \ {0}
         /\ journal[r][entry[r].generation] = entry[r].state
    /\ r \notin used => journal[r] = <<>> /\ entry[r] = Null

\* What was sent was committed, on disk and in memory.
SentIsCommitted(r) ==
    /\ submissions[r] \in {0, 1}
    /\ submissions[r] = 1 =>
         /\ r \in used
         /\ OnRecord(r) => LastState(r) \in Sent /\ r \in requests
         /\ entry[r] # Null => entry[r].state \in Sent

\* What somebody was told has ended was given up before it was sent.
ReleasedIsGivenUp(r) ==
    r \in released =>
        /\ r \in used
        /\ submissions[r] = 0
        /\ OnRecord(r) => LastState(r) \in GivenUp

\* A recorded outcome is the one on the chain.
OutcomeTrue(r) ==
    OnRecord(r) =>
        /\ LastState(r) \in {RECEIPT_VERIFIED, COMPLETED} => chain[r] = "success"
        /\ LastState(r) = FAILED_EXECUTION => chain[r] = "failure"

RequestInv(r) == Durable(r) /\ SentIsCommitted(r) /\ ReleasedIsGivenUp(r) /\ OutcomeTrue(r)

\* What the step under way found.
QueueRelies ==
    queue # Idle =>
        LET r == queue.req IN
        /\ host = "up"
        /\ r \in used
        /\ queue.step \in {"save", "genesis"} => journal[r] = <<>>
        /\ queue.step = "waiting" => journal[r] = <<REQUEST_CREATED>>
        /\ queue.step \in {"genesis", "waiting"} => r \in requests
        /\ queue.step \in {"save", "genesis", "waiting", "undo"} =>
              entry[r] = Null /\ submissions[r] = 0 /\ r \notin released
        /\ queue.step \notin {"save", "genesis", "waiting", "undo"} => entry[r] # Null
        /\ queue.step = "execute" =>
              /\ entry[r].state = SUBMISSION_COMMITTED
              /\ Len(journal[r]) = entry[r].generation
              /\ submissions[r] = 0

\* What the phase of the host says about memory.
HostPhase ==
    /\ deletionMarker => host \in {"deleting", "down"} /\ \A r \in Requests : ~InFlight(r)
    /\ host = "down" => entry = NoEntries /\ session = NoEntries
    /\ \A r \in Requests :
          /\ session[r] = Null <=> entry[r] = Null
          /\ session[r] \in LiveStates => host = "up"
          /\ host = "up" /\ InFlight(r) => session[r] # Null

\* One request at a time has a live session or the queue, and while it does
\* no other operation is in flight.
Active(r) == session[r] \in LiveStates \/ (queue # Idle /\ queue.req = r)

OneActive ==
    \A q, r \in Requests : Active(r) /\ (Active(q) \/ InFlight(q)) => q = r

IInv ==
    /\ TypeOK
    /\ \A r \in Requests : RequestInv(r)
    /\ QueueRelies
    /\ HostPhase
    /\ OneActive
    /\ OneInFlight

(***************************************************************************)
(* The transition tables.                                                  *)
(***************************************************************************)
\* A record that was sent is followed only by such records, a record given up
\* by none, and an outcome only where the tables say so.
LEMMA TransitionFacts ==
    ASSUME NEW s \in States, NEW n \in Transitions(s)
    PROVE  /\ n \in States
           /\ s \notin GivenUp
           /\ s \notin {COMPLETED, FAILED_EXECUTION, RECEIPT_INVALID}
           /\ s \in Sent => n \in Sent
           /\ s = RECEIPT_VERIFIED => n = COMPLETED
           /\ n = COMPLETED => s = RECEIPT_VERIFIED
<1> USE DEF REQUEST_CREATED, TRANSPORT_WAITING, DEVICE_APPROVED, RESPONSE_VERIFIED,
       SIMULATION_PASSED, SUBMISSION_COMMITTED, SUBMITTED, RECEIPT_VERIFIED, COMPLETED,
       CANCELLED, EXPIRED, FAILED_PRE_SUBMISSION, FAILED_EXECUTION, RECEIPT_INVALID,
       SUBMISSION_OUTCOME_UNKNOWN, GivenUp
<1>1. s \in {1, 2, 3, 4, 5, 6, 7, 8, 25}
  BY DEF Transitions, PublicTransitions, VerifiedTransitions, States
<1>2. CASE s \in {1, 2, 3, 4, 5}
  <2>1. n \in {2, 3, 4, 5, 6, 20, 21, 22}
    BY <1>2 DEF Transitions, PublicTransitions, VerifiedTransitions
  <2> QED
    BY <1>2, <2>1 DEF States, Sent
<1>3. CASE s \in {6, 7, 8, 25}
  <2>1. n \in {7, 8, 9, 23, 24, 25} /\ (s = 8 => n = 9) /\ (n = 9 => s = 8)
    BY <1>3 DEF Transitions, PublicTransitions, VerifiedTransitions
  <2> QED
    BY <1>3, <2>1 DEF States, Sent
<1> QED
  BY <1>1, <1>2, <1>3

\* The states are numbers, and the named sets are sets of states.
LEMMA NamedStates ==
    /\ Sent \subseteq States /\ GivenUp \subseteq States /\ Sent \cap GivenUp = {}
    /\ {REQUEST_CREATED, TRANSPORT_WAITING, SIMULATION_PASSED, SUBMISSION_COMMITTED} \subseteq States
    /\ REQUEST_CREATED \notin Sent \cup GivenUp
    /\ TRANSPORT_WAITING \notin Sent \cup GivenUp
    /\ TRANSPORT_WAITING \in Transitions(REQUEST_CREATED)
    /\ \A s \in States : ~Committed(s) => s \notin Sent
    /\ \A s \in Sent : Committed(s)
    /\ Sent = Unresolved \cup {COMPLETED, FAILED_EXECUTION}
BY DEF REQUEST_CREATED, TRANSPORT_WAITING, DEVICE_APPROVED, RESPONSE_VERIFIED,
       SIMULATION_PASSED, SUBMISSION_COMMITTED, SUBMITTED, RECEIPT_VERIFIED, COMPLETED,
       CANCELLED, EXPIRED, FAILED_PRE_SUBMISSION, FAILED_EXECUTION, RECEIPT_INVALID,
       SUBMISSION_OUTCOME_UNKNOWN, GivenUp, Sent, States, Committed, Unresolved,
       Transitions, PublicTransitions

(***************************************************************************)
(* The coordinator: each of its methods leaves the record alone or appends *)
(* one frame after the record in memory, and memory follows or does not.   *)
(***************************************************************************)
Advances(r, next) ==
    /\ next \in Transitions(entry[r].state)
    /\ Len(journal[r]) = entry[r].generation
    /\ next = RECEIPT_VERIFIED => chain[r] = "success"
    /\ next = FAILED_EXECUTION => chain[r] = "failure"
    /\ AppendFrame(r, next)
    /\ \/ UNCHANGED entry
       \/ entry' = [entry EXCEPT ![r] = [generation |-> @.generation + 1, state |-> next]]

CoordinatorStep(r) == UNCHANGED <<journal, entry>> \/ \E next : Advances(r, next)

\* A publication is such a step, if what it publishes is true.
LEMMA PublishAdvances ==
    ASSUME NEW r, NEW next, NEW allowed, NEW done,
           allowed \subseteq Transitions(entry[r].state),
           next = RECEIPT_VERIFIED => chain[r] = "success",
           next = FAILED_EXECUTION => chain[r] = "failure",
           Publish(r, next, allowed, done)
    PROVE  CoordinatorStep(r)
BY DEF Publish, AppendPossible, Advances, CoordinatorStep

\* What a caller may publish is no outcome.
LEMMA CompareAndSwapAdvances ==
    ASSUME NEW r, NEW next, next \notin {RECEIPT_VERIFIED, FAILED_EXECUTION}, NEW done,
           CompareAndSwap(r, next, done)
    PROVE  CoordinatorStep(r)
BY PublishAdvances DEF CompareAndSwap, Transitions

\* An outcome is published as the chain shows it.
LEMMA ApplyOutcomeAdvances ==
    ASSUME NEW r, NEW outcome, NEW done, ApplyOutcome(r, outcome, done),
           outcome \in {"success", "failure"} => outcome = chain[r]
    PROVE  CoordinatorStep(r)
<1>1. CASE outcome = "success" /\ PublishVerifiedOutcome(r, NextOnSuccess(entry[r].state), done)
  <2>1. NextOnSuccess(entry[r].state) # FAILED_EXECUTION
    BY DEF NextOnSuccess, COMPLETED, RECEIPT_VERIFIED, FAILED_EXECUTION
  <2> QED
    BY <1>1, <2>1, PublishAdvances DEF PublishVerifiedOutcome, Transitions
<1>2. CASE outcome = "failure" /\ PublishVerifiedOutcome(r, FAILED_EXECUTION, done)
  <2>1. FAILED_EXECUTION # RECEIPT_VERIFIED
    BY DEF FAILED_EXECUTION, RECEIPT_VERIFIED
  <2> QED
    BY <1>2, <2>1, PublishAdvances DEF PublishVerifiedOutcome, Transitions
<1>3. CASE ~done /\ UNCHANGED <<journal, entry>>
  BY <1>3 DEF CoordinatorStep
<1> QED
  BY <1>1, <1>2, <1>3 DEF ApplyOutcome

\* A search of the chain finds what is on it.
LEMMA ReconcileAdvances ==
    ASSUME NEW r \in Requests, NEW scan \in Scans(r), NEW done,
           ReconcileRoutineAuthorization(r, scan, done)
    PROVE  CoordinatorStep(r)
<1>1. scan \in {"success", "failure"} => scan = chain[r]
  BY DEF Scans
<1>2. ASSUME CompareAndSwap(r, FAILED_PRE_SUBMISSION, done)
      PROVE  CoordinatorStep(r)
  BY <1>2, CompareAndSwapAdvances
     DEF FAILED_PRE_SUBMISSION, RECEIPT_VERIFIED, FAILED_EXECUTION
<1>3. ASSUME ApplyOutcome(r, scan, done)
      PROVE  CoordinatorStep(r)
  BY <1>1, <1>3, ApplyOutcomeAdvances
<1>4. ASSUME PublishVerifiedOutcome(r, SUBMISSION_OUTCOME_UNKNOWN, done)
      PROVE  CoordinatorStep(r)
  BY <1>4, PublishAdvances DEF PublishVerifiedOutcome, Transitions,
     SUBMISSION_OUTCOME_UNKNOWN, RECEIPT_VERIFIED, FAILED_EXECUTION
<1>5. UNCHANGED <<journal, entry>> => CoordinatorStep(r)
  BY DEF CoordinatorStep
<1> QED
  BY <1>2, <1>3, <1>4, <1>5 DEF ReconcileRoutineAuthorization

\* A method that advances a request before the commit, thrown or not.
LEMMA AdvanceAdvances ==
    ASSUME NEW r, NEW from, NEW to, to \notin {RECEIPT_VERIFIED, FAILED_EXECUTION}, NEW done,
           Advance(r, from, to, done)
    PROVE  CoordinatorStep(r)
<1>1. FAILED_PRE_SUBMISSION \notin {RECEIPT_VERIFIED, FAILED_EXECUTION}
      /\ EXPIRED \notin {RECEIPT_VERIFIED, FAILED_EXECUTION}
  BY DEF FAILED_PRE_SUBMISSION, EXPIRED, RECEIPT_VERIFIED, FAILED_EXECUTION
<1>2. AssertTrustedPreSubmissionThrows(r) => CoordinatorStep(r)
  BY <1>1, CompareAndSwapAdvances DEF AssertTrustedPreSubmissionThrows
<1>3. UNCHANGED <<journal, entry>> => CoordinatorStep(r)
  BY DEF CoordinatorStep
<1> QED
  BY <1>2, <1>3, CompareAndSwapAdvances DEF Advance

\* A chain with one more frame that the tables allow.
LEMMA AppendChain ==
    ASSUME NEW j \in Seq(States), ValidChain(j), NEW n \in Transitions(j[Len(j)])
    PROVE  /\ Append(j, n) \in Seq(States)
           /\ Len(Append(j, n)) = Len(j) + 1
           /\ Append(j, n)[Len(j) + 1] = n
           /\ \A i \in 1..Len(j) : Append(j, n)[i] = j[i]
           /\ ValidChain(Append(j, n))
<1>1. Len(j) \in Nat \ {0} /\ j[Len(j)] \in States
  BY DEF ValidChain
<1>2. n \in States
  BY <1>1, TransitionFacts
<1>3. /\ Append(j, n) \in Seq(States)
      /\ Len(Append(j, n)) = Len(j) + 1
      /\ Append(j, n)[Len(j) + 1] = n
      /\ \A i \in 1..Len(j) : Append(j, n)[i] = j[i]
  BY <1>2
<1>4. ValidChain(Append(j, n))
  <2> DEFINE k == Append(j, n)
  <2>1. k # <<>> /\ k[1] = REQUEST_CREATED
    BY <1>1, <1>3 DEF ValidChain
  <2>2. ASSUME NEW i \in 1..(Len(k) - 1)
        PROVE  k[i + 1] \in Transitions(k[i])
    <3>1. CASE i = Len(j)
      BY <1>1, <1>3, <3>1
    <3>2. CASE i \in 1..(Len(j) - 1)
      <4>1. k[i] = j[i] /\ k[i + 1] = j[i + 1]
        BY <1>1, <1>3, <3>2
      <4> QED
        BY <3>2, <4>1 DEF ValidChain, Transitions
    <3> QED
      BY <1>1, <1>3, <3>1, <3>2
  <2> HIDE DEF k
  <2>3. ValidChain(k)
    BY <2>1, <2>2 DEF ValidChain, Transitions
  <2> QED
    BY <2>3 DEF k
<1> QED
  BY <1>3, <1>4

\* Memory that is behind the disk is behind it by one transition.
LEMMA MemoryBehind ==
    ASSUME TypeOK, NEW r \in Requests, Durable(r), entry[r] # Null, ~deletionMarker
    PROVE  /\ entry[r] \in Records /\ OnRecord(r)
           /\ Len(journal[r]) \in Nat \ {0}
           /\ LastState(r) \in States
           /\ \/ LastState(r) = entry[r].state /\ Len(journal[r]) = entry[r].generation
              \/ LastState(r) \in Transitions(entry[r].state)
<1>1. entry[r] \in Records /\ journal[r] \in Seq(States)
  BY DEF TypeOK
<1>2. /\ entry[r].generation \in Nat
      /\ entry[r].generation \in {Len(journal[r]) - 1, Len(journal[r])} \ {0}
      /\ journal[r][entry[r].generation] = entry[r].state
  BY <1>1 DEF Durable, Records
<1>3. Len(journal[r]) \in Nat \ {0} /\ OnRecord(r)
  BY <1>1, <1>2 DEF OnRecord
<1>4. LastState(r) \in States
  BY <1>1, <1>3 DEF LastState
<1>5. CASE entry[r].generation = Len(journal[r])
  BY <1>1, <1>2, <1>3, <1>4, <1>5 DEF LastState
<1>6. CASE entry[r].generation = Len(journal[r]) - 1
  <2>1. ValidChain(journal[r])
    BY <1>3 DEF Durable
  <2>2. journal[r][entry[r].generation + 1] \in Transitions(journal[r][entry[r].generation])
    <3>1. entry[r].generation \in 1..(Len(journal[r]) - 1)
      <4> DEFINE g == entry[r].generation
                 n == Len(journal[r])
      <4>1. g \in Nat /\ g # 0 /\ g = n - 1 /\ n \in Nat
        BY <1>2, <1>3, <1>6
      <4> HIDE DEF g, n
      <4>2. g \in 1..(n - 1)
        BY <4>1
      <4> QED
        BY <4>2 DEF g, n
    <3>2. \A i \in 1..(Len(journal[r]) - 1) :
             journal[r][i + 1] \in Transitions(journal[r][i])
      BY <2>1 DEF ValidChain, Transitions
    <3> QED
      BY <3>1, <3>2
  <2>3. entry[r].generation + 1 = Len(journal[r])
    BY <1>3, <1>6
  <2> QED
    BY <1>1, <1>2, <1>3, <1>4, <2>2, <2>3 DEF LastState
<1> QED
  BY <1>2, <1>5, <1>6

\* A step that leaves the files and the record of a request alone, and takes
\* none of it out of the request store.
LEMMA RequestStays ==
    ASSUME NEW r \in Requests, RequestInv(r), journal'[r] = journal[r],
           entry'[r] = entry[r] \/ entry'[r] = Null,
           requests' = requests, used \subseteq used', used' \subseteq used \cup {r},
           submissions'[r] = submissions[r], chain'[r] = chain[r],
           r \in released' => r \in released,
           deletionMarker' = deletionMarker \/ deletionMarker'
    PROVE  RequestInv(r)'
BY DEF RequestInv, Durable, SentIsCommitted, ReleasedIsGivenUp, OutcomeTrue, OnRecord, LastState

\* What a step of the coordinator does to its request.
LEMMA AdvancedRequest ==
    ASSUME TypeOK, NEW r \in Requests, RequestInv(r), entry[r] # Null, ~deletionMarker,
           NEW next, Advances(r, next)
    PROVE  /\ journal' \in [Requests -> Seq(States)]
           /\ entry' \in [Requests -> Records \cup {Null}]
           /\ next \in States /\ next \in Transitions(LastState(r))
           /\ entry[r] \in Records /\ LastState(r) = entry[r].state
           /\ journal'[r] # <<>> /\ Len(journal'[r]) = Len(journal[r]) + 1
           /\ Len(journal[r]) \in Nat \ {0} /\ Len(journal[r]) = entry[r].generation
           /\ journal'[r][Len(journal'[r])] = next
           /\ \A i \in 1..Len(journal[r]) : journal'[r][i] = journal[r][i]
           /\ ValidChain(journal'[r])
           /\ \/ entry'[r] = entry[r]
              \/ entry'[r] = [generation |-> Len(journal'[r]), state |-> next]
           /\ \A q \in Requests \ {r} : journal'[q] = journal[q] /\ entry'[q] = entry[q]
<1>1. /\ entry[r] \in Records /\ OnRecord(r)
      /\ Len(journal[r]) \in Nat \ {0} /\ Len(journal[r]) = entry[r].generation
  BY MemoryBehind DEF RequestInv, Advances
<1>2. LastState(r) = entry[r].state
  BY <1>1 DEF RequestInv, Durable, LastState
<1>3. next \in Transitions(LastState(r))
  BY <1>2 DEF Advances
<1>4. journal[r] \in Seq(States) /\ ValidChain(journal[r]) /\ journal[r][Len(journal[r])] = LastState(r)
  BY <1>1 DEF TypeOK, RequestInv, Durable, LastState
<1>5. LastState(r) \in States /\ next \in States
  BY <1>1, <1>3, <1>4, TransitionFacts
<1>6. journal' = [journal EXCEPT ![r] = Append(journal[r], next)]
  BY DEF Advances, AppendFrame
<1>7. journal'[r] = Append(journal[r], next) /\ \A q \in Requests \ {r} : journal'[q] = journal[q]
  BY <1>6 DEF TypeOK
<1>8. /\ journal'[r] \in Seq(States)
      /\ Len(journal'[r]) = Len(journal[r]) + 1
      /\ journal'[r][Len(journal[r]) + 1] = next
      /\ \A i \in 1..Len(journal[r]) : journal'[r][i] = journal[r][i]
      /\ ValidChain(journal'[r])
  BY <1>3, <1>4, <1>7, AppendChain
<1>9. journal' \in [Requests -> Seq(States)]
  BY <1>6, <1>7, <1>8 DEF TypeOK
<1>10. journal'[r] # <<>>
  BY <1>1, <1>8
<1>11. /\ entry' \in [Requests -> Records \cup {Null}]
       /\ \/ entry'[r] = entry[r]
          \/ entry'[r] = [generation |-> Len(journal'[r]), state |-> next]
       /\ \A q \in Requests \ {r} : entry'[q] = entry[q]
  <2>1. [generation |-> Len(journal'[r]), state |-> next] \in Records
    BY <1>1, <1>5, <1>8 DEF Records
  <2>2. CASE UNCHANGED entry
    BY <2>2 DEF TypeOK
  <2>3. CASE entry' = [entry EXCEPT ![r] = [generation |-> @.generation + 1, state |-> next]]
    BY <1>1, <1>8, <2>1, <2>3 DEF TypeOK
  <2> QED
    BY <2>2, <2>3 DEF Advances
<1> QED
  BY <1>1, <1>2, <1>3, <1>5, <1>7, <1>8, <1>9, <1>10, <1>11

\* The coordinator keeps the invariant of every request, sends nothing into
\* flight and forgets no record.  Whoever is released by the step was given up.
LEMMA CoordinatorKeeps ==
    ASSUME TypeOK, \A q \in Requests : RequestInv(q),
           NEW r \in Requests, entry[r] # Null, ~deletionMarker, CoordinatorStep(r),
           UNCHANGED <<requests, deletionMarker, chain, used, submissions>>,
           \/ released' = released
           \/ released' = released \cup {r} /\ OnRecord(r)' /\ LastState(r)' \in GivenUp
    PROVE  /\ journal' \in [Requests -> Seq(States)]
           /\ entry' \in [Requests -> Records \cup {Null}]
           /\ \A q \in Requests : RequestInv(q)'
           /\ \A q \in Requests : InFlight(q)' => InFlight(q)
           /\ \A q \in Requests : entry'[q] = Null <=> entry[q] = Null
           /\ \A q \in Requests \ {r} : journal'[q] = journal[q] /\ entry'[q] = entry[q]
<1>0. /\ RequestInv(r) /\ OnRecord(r) /\ r \in used /\ entry[r] \in Records
      /\ journal[r] \in Seq(States) /\ Len(journal[r]) \in Nat \ {0}
  BY MemoryBehind DEF RequestInv, Durable, TypeOK
<1>1. CASE UNCHANGED <<journal, entry>>
  <2>1. ASSUME NEW q \in Requests
        PROVE  RequestInv(q)'
    <3>1. Durable(q)' /\ SentIsCommitted(q)' /\ OutcomeTrue(q)'
      BY <1>1 DEF RequestInv, Durable, SentIsCommitted, OutcomeTrue, OnRecord, LastState
    <3>2. ReleasedIsGivenUp(q)'
      <4>1. CASE released' = released
        BY <1>1, <4>1 DEF RequestInv, ReleasedIsGivenUp, OnRecord, LastState
      <4>2. CASE released' = released \cup {r} /\ OnRecord(r)' /\ LastState(r)' \in GivenUp
        <5>1. LastState(r) \in GivenUp
          BY <1>1, <4>2 DEF LastState
        <5>2. submissions[r] = 0
          BY <1>0, <5>1, NamedStates DEF RequestInv, SentIsCommitted
        <5> QED
          BY <1>0, <1>1, <4>2, <5>1, <5>2 DEF RequestInv, ReleasedIsGivenUp, OnRecord, LastState
      <4> QED
        BY <4>1, <4>2
    <3> QED
      BY <3>1, <3>2 DEF RequestInv
  <2> QED
    BY <1>1, <2>1 DEF TypeOK, InFlight, OnRecord, LastState
<1>2. ASSUME NEW next, Advances(r, next)
      PROVE  /\ journal' \in [Requests -> Seq(States)]
             /\ entry' \in [Requests -> Records \cup {Null}]
             /\ \A q \in Requests : RequestInv(q)'
             /\ \A q \in Requests : InFlight(q)' => InFlight(q)
             /\ \A q \in Requests : entry'[q] = Null <=> entry[q] = Null
             /\ \A q \in Requests \ {r} : journal'[q] = journal[q] /\ entry'[q] = entry[q]
  <2>1. /\ journal' \in [Requests -> Seq(States)]
        /\ entry' \in [Requests -> Records \cup {Null}]
        /\ next \in States /\ next \in Transitions(LastState(r))
        /\ LastState(r) = entry[r].state
        /\ journal'[r] # <<>> /\ Len(journal'[r]) = Len(journal[r]) + 1
        /\ Len(journal[r]) = entry[r].generation
        /\ journal'[r][Len(journal'[r])] = next
        /\ \A i \in 1..Len(journal[r]) : journal'[r][i] = journal[r][i]
        /\ ValidChain(journal'[r])
        /\ \/ entry'[r] = entry[r]
           \/ entry'[r] = [generation |-> Len(journal'[r]), state |-> next]
        /\ \A q \in Requests \ {r} : journal'[q] = journal[q] /\ entry'[q] = entry[q]
    BY <1>0, <1>2, AdvancedRequest
  <2>2. LastState(r) \in States
    BY <1>0, <2>1 DEF Records
  <2>3. /\ LastState(r) \notin GivenUp
        /\ LastState(r) \notin {COMPLETED, FAILED_EXECUTION, RECEIPT_INVALID}
        /\ LastState(r) \in Sent => next \in Sent
        /\ next = COMPLETED => LastState(r) = RECEIPT_VERIFIED
    BY <2>1, <2>2, TransitionFacts
  <2>4. entry'[r] # Null
    BY <1>0, <2>1 DEF Records, States
  <2>5. OnRecord(r)' /\ LastState(r)' = next
    BY <2>1 DEF OnRecord, LastState
  <2>6. Durable(r)'
    <3>1. r \in requests'
      BY <1>0 DEF RequestInv, Durable
    <3>2. CASE entry'[r] = entry[r]
      <4>1. entry'[r].generation = Len(journal'[r]) - 1 /\ entry'[r].generation # 0
        BY <1>0, <2>1, <3>2
      <4>2. journal'[r][entry'[r].generation] = entry'[r].state
        <5>1. Len(journal[r]) \in 1..Len(journal[r])
          BY <1>0
        <5>2. journal'[r][Len(journal[r])] = LastState(r)
          BY <2>1, <5>1 DEF LastState
        <5> QED
          BY <2>1, <3>2, <5>2
      <4> QED
        BY <1>0, <2>1, <3>1, <4>1, <4>2 DEF Durable
    <3>3. CASE entry'[r] = [generation |-> Len(journal'[r]), state |-> next]
      <4>1. entry'[r].generation = Len(journal'[r]) /\ entry'[r].generation # 0
        BY <1>0, <2>1, <3>3
      <4>2. journal'[r][entry'[r].generation] = entry'[r].state
        BY <2>1, <3>3
      <4> QED
        BY <1>0, <2>1, <3>1, <4>1, <4>2 DEF Durable
    <3> QED
      BY <2>1, <3>2, <3>3
  <2>7. SentIsCommitted(r)'
    <3>1. submissions[r] = 1 => LastState(r) \in Sent
      BY <1>0 DEF RequestInv, SentIsCommitted
    <3>2. submissions[r] = 1 => entry'[r].state \in Sent
      BY <2>1, <2>3, <3>1
    <3>3. r \in requests /\ submissions[r] \in {0, 1}
      BY <1>0 DEF RequestInv, Durable, SentIsCommitted
    <3> QED
      BY <1>0, <2>3, <2>5, <3>1, <3>2, <3>3 DEF SentIsCommitted
  <2>8. r \notin released
    BY <1>0, <2>3 DEF RequestInv, ReleasedIsGivenUp
  <2>9. ReleasedIsGivenUp(r)'
    <3>1. CASE released' = released
      BY <2>8, <3>1 DEF ReleasedIsGivenUp
    <3>2. CASE LastState(r)' \in GivenUp
      <4>1. submissions[r] = 0
        BY <2>5, <2>7, <3>2, NamedStates DEF SentIsCommitted
      <4> QED
        BY <1>0, <3>2, <4>1 DEF ReleasedIsGivenUp
    <3> QED
      BY <3>1, <3>2
  <2>10. OutcomeTrue(r)'
    BY <1>0, <1>2, <2>3, <2>5 DEF RequestInv, OutcomeTrue, Advances
  <2>11. ASSUME NEW q \in Requests \ {r}
         PROVE  RequestInv(q)'
    <3>1. q \in released' => q \in released
      OBVIOUS
    <3> QED
      BY <2>1, <3>1, RequestStays
  <2>12. InFlight(r)' => InFlight(r)
    BY <1>0, <2>3 DEF InFlight
  <2>13. \A q \in Requests \ {r} : InFlight(q)' => InFlight(q)
    BY <2>1 DEF InFlight, OnRecord, LastState
  <2> QED
    BY <2>1, <2>4, <2>6, <2>7, <2>9, <2>10, <2>11, <2>12, <2>13 DEF RequestInv
<1> QED
  BY <1>1, <1>2 DEF CoordinatorStep

-----------------------------------------------------------------------------
\* Where an action of the coordinator may leave the host, its sessions and its
\* queue, and whom it may have told that the request ended.
CoordinatorActs(r) ==
    /\ entry[r] # Null
    /\ host = "up" \/ host = "restoring"
    /\ CoordinatorStep(r)
    /\ UNCHANGED <<requests, deletionMarker, world, used, submissions>>
    /\ \/ released' = released
       \/ released' = released \cup {r} /\ OnRecord(r)' /\ LastState(r)' \in GivenUp
    /\ host' = host \/ (host = "restoring" /\ host' = "failing" /\ queue = Idle)
    /\ startFailure' \in {"none", "chain", "error", "unknown", "success", "failure"}
    /\ \/ session' = session
       \/ \E end \in EndedStates : session' = [session EXCEPT ![r] = end]
    /\ \/ queue' = queue /\ queue # [step |-> "execute", req |-> r]
       \/ queue' = Idle /\ queue # Idle /\ queue.req = r
       \/ /\ queue # Idle /\ queue.req = r
          /\ \E step \in {"simulate", "commit", "reconcile", "fail"} : GoTo(step, r)
       \/ /\ queue # Idle /\ queue.req = r /\ GoTo("execute", r)
          /\ entry'[r].state = SUBMISSION_COMMITTED
          /\ Len(journal'[r]) = entry'[r].generation
          /\ submissions[r] = 0

\* The invariant holds again after such an action: the sessions and the queue
\* go where the invariant lets them.
LEMMA AfterCoordinator ==
    ASSUME IInv, NEW r \in Requests, CoordinatorActs(r)
    PROVE  IInv'
<1> USE DEF CoordinatorActs
<1>0. /\ TypeOK /\ \A q \in Requests : RequestInv(q)
      /\ QueueRelies /\ HostPhase /\ OneActive /\ OneInFlight
  BY DEF IInv
<1>1. ~deletionMarker /\ UNCHANGED chain /\ UNCHANGED clock
  BY <1>0 DEF HostPhase, world
<1>2. /\ journal' \in [Requests -> Seq(States)]
      /\ entry' \in [Requests -> Records \cup {Null}]
      /\ \A q \in Requests : RequestInv(q)'
      /\ \A q \in Requests : InFlight(q)' => InFlight(q)
      /\ \A q \in Requests : entry'[q] = Null <=> entry[q] = Null
      /\ \A q \in Requests \ {r} : journal'[q] = journal[q] /\ entry'[q] = entry[q]
  BY <1>0, <1>1, CoordinatorKeeps
<1>3. /\ session' \in [Requests -> SessionStates \cup {Null}]
      /\ \A q \in Requests : session'[q] = Null <=> session[q] = Null
      /\ \A q \in Requests : session'[q] \in LiveStates => session[q] \in LiveStates
  <2>1. session[r] # Null /\ session \in [Requests -> SessionStates \cup {Null}]
    BY <1>0 DEF HostPhase, TypeOK
  <2>2. CASE session' = session
    BY <2>1, <2>2
  <2>3. ASSUME NEW s \in EndedStates, session' = [session EXCEPT ![r] = s]
        PROVE  /\ session' \in [Requests -> SessionStates \cup {Null}]
               /\ \A q \in Requests : session'[q] = Null <=> session[q] = Null
               /\ \A q \in Requests : session'[q] \in LiveStates => session[q] \in LiveStates
    <3>1. s \in SessionStates /\ s \notin LiveStates /\ s # Null
      BY DEF SessionStates, EndedStates, LiveStates
    <3> QED
      BY <2>1, <2>3, <3>1
  <2> QED
    BY <2>2, <2>3
<1>4. /\ queue' \in {Idle} \cup [step : Steps, req : Requests]
      /\ queue' # Idle => queue # Idle /\ queue'.req = queue.req
  BY <1>0 DEF TypeOK, GoTo, Steps, Idle
<1>5. released' \subseteq Requests
  BY <1>0 DEF TypeOK
<1>6. TypeOK'
  BY <1>0, <1>1, <1>2, <1>3, <1>4, <1>5 DEF TypeOK
<1>7. HostPhase'
  BY <1>0, <1>1, <1>2, <1>3 DEF HostPhase
<1>8. OneActive' /\ OneInFlight'
  BY <1>0, <1>2, <1>3, <1>4 DEF OneActive, OneInFlight, Active
<1>9. QueueRelies'
  <2>1. CASE queue' = Idle
    BY <2>1 DEF QueueRelies
  <2>2. CASE queue' = queue /\ queue # [step |-> "execute", req |-> r] /\ queue # Idle
    <3>1. queue \in [step : Steps, req : Requests]
      BY <1>0, <2>2 DEF TypeOK
    <3>2. CASE queue.req = r
      <4>1. queue.step \notin {"save", "genesis", "waiting", "undo", "execute"}
        BY <1>0, <2>2, <3>1, <3>2 DEF QueueRelies
      <4> QED
        BY <1>0, <1>2, <2>2, <3>2, <4>1 DEF QueueRelies, Idle
    <3>3. CASE queue.req # r
      BY <1>0, <1>2, <2>2, <3>1, <3>3 DEF QueueRelies, Idle
    <3> QED
      BY <3>2, <3>3
  <2>3. CASE /\ queue # Idle /\ queue.req = r
             /\ \E step \in {"simulate", "commit", "reconcile", "fail"} : GoTo(step, r)
    BY <1>0, <1>2, <2>3 DEF QueueRelies, GoTo, Idle
  <2>4. CASE /\ queue # Idle /\ queue.req = r /\ GoTo("execute", r)
             /\ entry'[r].state = SUBMISSION_COMMITTED
             /\ Len(journal'[r]) = entry'[r].generation
             /\ submissions[r] = 0
    BY <1>0, <1>2, <2>4 DEF QueueRelies, GoTo, Idle
  <2> QED
    BY <2>1, <2>2, <2>3, <2>4
<1> QED
  BY <1>2, <1>6, <1>7, <1>8, <1>9 DEF IInv

\* A swap that succeeds is the last frame on disk and the record in memory.
LEMMA SwapDone ==
    ASSUME TypeOK, NEW r \in Requests, RequestInv(r), entry[r] # Null, ~deletionMarker,
           NEW next, next \notin {RECEIPT_VERIFIED, FAILED_EXECUTION},
           CompareAndSwap(r, next, TRUE)
    PROVE  /\ OnRecord(r)' /\ LastState(r)' = next
           /\ entry'[r].state = next /\ Len(journal'[r]) = entry'[r].generation
           /\ OnRecord(r) /\ LastState(r) = entry[r].state
<1>1. /\ AppendPossible(r, next, PublicTransitions(entry[r].state))
      /\ AppendFrame(r, next)
      /\ entry' = [entry EXCEPT ![r] = [generation |-> @.generation + 1, state |-> next]]
  BY DEF CompareAndSwap, Publish
<1>2. Advances(r, next)
  BY <1>1 DEF AppendPossible, Advances, Transitions
<1>3. /\ LastState(r) = entry[r].state
      /\ journal'[r] # <<>> /\ Len(journal'[r]) = Len(journal[r]) + 1
      /\ Len(journal[r]) \in Nat \ {0} /\ Len(journal[r]) = entry[r].generation
      /\ journal'[r][Len(journal'[r])] = next
  BY <1>2, AdvancedRequest
<1>4. entry'[r] = [generation |-> entry[r].generation + 1, state |-> next]
  BY <1>1 DEF TypeOK
<1>5. entry'[r].state = next /\ Len(journal'[r]) = entry'[r].generation
  BY <1>3, <1>4
<1>6. OnRecord(r)
  BY MemoryBehind DEF RequestInv
<1> QED
  BY <1>3, <1>5, <1>6 DEF OnRecord, LastState

\* Whoever is told cancelled, rejected or expired reads a record given up.
LEMMA ReleaseGivesUp ==
    ASSUME TypeOK, NEW r \in Requests, RequestInv(r), entry[r] # Null, ~deletionMarker,
           NEW done \in BOOLEAN,
           \/ CancelRoutineAuthorization(r, done) \/ RejectRoutineAuthorization(r, done)
           \/ ExpireRoutineAuthorization(r, done)
    PROVE  /\ CoordinatorStep(r)
           /\ done => OnRecord(r)' /\ LastState(r)' \in GivenUp
<1>1. {CANCELLED, EXPIRED} \subseteq GivenUp /\ GivenUp \subseteq States
      /\ {CANCELLED, EXPIRED} \cap {RECEIPT_VERIFIED, FAILED_EXECUTION} = {}
  BY NamedStates DEF GivenUp, CANCELLED, EXPIRED, RECEIPT_VERIFIED, FAILED_EXECUTION
<1>2. ASSUME NEW next \in {CANCELLED, EXPIRED}, CompareAndSwap(r, next, done)
      PROVE  /\ CoordinatorStep(r)
             /\ done => OnRecord(r)' /\ LastState(r)' \in GivenUp
  <2>1. CoordinatorStep(r)
    BY <1>1, <1>2, CompareAndSwapAdvances
  <2>2. CASE done
    <3>1. CompareAndSwap(r, next, TRUE)
      BY <1>2, <2>2 DEF CompareAndSwap, Publish
    <3>2. next \in GivenUp /\ next \notin {RECEIPT_VERIFIED, FAILED_EXECUTION}
      BY <1>1
    <3>3. OnRecord(r)' /\ LastState(r)' = next
      BY <3>1, <3>2, SwapDone
    <3> QED
      BY <2>1, <3>2, <3>3
  <2> QED
    BY <2>1, <2>2
<1>3. ASSUME entry[r].state \in {CANCELLED, EXPIRED}, UNCHANGED <<journal, entry>>
      PROVE  /\ CoordinatorStep(r)
             /\ OnRecord(r)' /\ LastState(r)' \in GivenUp
  <2>1. OnRecord(r) /\ (LastState(r) = entry[r].state \/ LastState(r) \in Transitions(entry[r].state))
    BY MemoryBehind DEF RequestInv
  <2>2. LastState(r) = entry[r].state
    BY <1>1, <1>3, <2>1, TransitionFacts
  <2> QED
    BY <1>1, <1>3, <2>1, <2>2 DEF CoordinatorStep, OnRecord, LastState
<1> QED
  BY <1>2, <1>3 DEF CancelRoutineAuthorization, RejectRoutineAuthorization,
                    ExpireRoutineAuthorization

\* The host's uses of the coordinator that may release a request.
LEMMA ReleasingSteps ==
    ASSUME IInv, NEW r \in Requests, HandleTerminal(r) \/ ExpireSession(r) \/ Cancel(r)
    PROVE  CoordinatorActs(r)
<1>0. /\ TypeOK /\ RequestInv(r) /\ QueueRelies /\ HostPhase
  BY DEF IInv
<1>1. /\ {"cancelled", "expired"} \subseteq EndedStates
      /\ {"cancelled", "expired"} \cap LiveStates = {} /\ Null \notin LiveStates
  BY DEF EndedStates, LiveStates, SessionStates
<1>2. ASSUME host = "up", entry[r] # Null, NEW done \in BOOLEAN,
             \/ CancelRoutineAuthorization(r, done) \/ RejectRoutineAuthorization(r, done)
             \/ ExpireRoutineAuthorization(r, done),
             UNCHANGED <<requests, deletionMarker, host, world, used, submissions, startFailure>>,
             IF done THEN /\ \E s \in {"cancelled", "expired"} :
                                session' = [session EXCEPT ![r] = s]
                          /\ released' = released \cup {r}
                     ELSE UNCHANGED <<session, released>>,
             \/ queue = Idle /\ queue' = Idle
             \/ /\ queue # Idle /\ queue.req = r
                /\ queue' = Idle \/ GoTo("fail", r)
      PROVE  CoordinatorActs(r)
  <2>1. ~deletionMarker
    BY <1>0, <1>2 DEF HostPhase
  <2>2. /\ CoordinatorStep(r)
        /\ done => OnRecord(r)' /\ LastState(r)' \in GivenUp
    BY <1>0, <1>2, <2>1, ReleaseGivesUp
  <2>3. \/ released' = released
        \/ released' = released \cup {r} /\ OnRecord(r)' /\ LastState(r)' \in GivenUp
    BY <1>2, <2>2
  <2>4. \/ session' = session
        \/ \E s \in EndedStates : session' = [session EXCEPT ![r] = s]
    BY <1>1, <1>2
  <2>5. startFailure' \in {"none", "chain", "error", "unknown", "success", "failure"}
    BY <1>0, <1>2 DEF TypeOK
  <2>6. \/ queue' = queue /\ queue # [step |-> "execute", req |-> r]
        \/ queue' = Idle /\ queue # Idle /\ queue.req = r
        \/ /\ queue # Idle /\ queue.req = r
           /\ \E step \in {"simulate", "commit", "reconcile", "fail"} : GoTo(step, r)
    BY <1>2 DEF Idle
  <2> QED
    BY <1>2, <2>2, <2>3, <2>4, <2>5, <2>6 DEF CoordinatorActs
<1>3. CASE HandleTerminal(r)
  <2>1. queue # Idle /\ queue.req = r /\ queue.step = "dispatch"
    BY <1>3 DEF HandleTerminal, At, Idle
  <2>2. host = "up" /\ entry[r] # Null
    BY <1>0, <2>1 DEF QueueRelies
  <2>3. PICK done \in BOOLEAN :
          /\ RejectRoutineAuthorization(r, done) \/ CancelRoutineAuthorization(r, done)
          /\ IF done THEN /\ session' = [session EXCEPT ![r] = "cancelled"]
                          /\ released' = released \cup {r}
                          /\ queue' = Idle
                     ELSE GoTo("fail", r) /\ UNCHANGED <<session, released>>
    BY <1>3 DEF HandleTerminal
  <2> QED
    BY <1>2, <1>3, <2>1, <2>2, <2>3 DEF HandleTerminal
<1>4. CASE ExpireSession(r)
  <2>1. entry[r] # Null /\ host = "up" /\ queue = Idle /\ queue' = Idle
    BY <1>0, <1>1, <1>4 DEF ExpireSession, ExpirySeen, HostPhase
  <2> QED
    BY <1>2, <1>4, <2>1 DEF ExpireSession
<1>5. CASE Cancel(r)
  <2>1. entry[r] # Null /\ host = "up" /\ queue = Idle /\ queue' = Idle
    BY <1>0, <1>5 DEF Cancel, HostPhase
  <2> QED
    BY <1>2, <1>5, <2>1 DEF Cancel
<1> QED
  BY <1>3, <1>4, <1>5

\* The queue's other uses of the coordinator, and those outside the queue.
LEMMA CoordinatorSteps ==
    ASSUME IInv, NEW r \in Requests,
           \/ Refuse(r) \/ BadMessage(r) \/ Accept(r) \/ Simulate(r) \/ Commit(r)
           \/ Outcome(r) \/ Reconcile(r) \/ Fail(r) \/ CallReconcile(r) \/ RestoreRequest(r)
    PROVE  CoordinatorActs(r)
<1>0. TypeOK /\ RequestInv(r) /\ QueueRelies /\ HostPhase
  BY DEF IInv
<1>1. "terminal" \in EndedStates /\ "transport_failed" \in EndedStates
      /\ "restoring" # Null
  BY DEF EndedStates, SessionStates
<1>2. startFailure \in {"none", "chain", "error", "unknown", "success", "failure"}
  BY <1>0 DEF TypeOK
<1>3. {RESPONSE_VERIFIED, SIMULATION_PASSED, SUBMISSION_COMMITTED, FAILED_PRE_SUBMISSION,
        SUBMISSION_OUTCOME_UNKNOWN} \cap {RECEIPT_VERIFIED, FAILED_EXECUTION} = {}
  BY DEF RESPONSE_VERIFIED, SIMULATION_PASSED, SUBMISSION_COMMITTED, FAILED_PRE_SUBMISSION,
         SUBMISSION_OUTCOME_UNKNOWN, RECEIPT_VERIFIED, FAILED_EXECUTION
\* A step of the queue on r.
<1>4. ASSUME queue # Idle, queue.req = r,
             queue.step \notin {"save", "genesis", "waiting", "undo"},
             CoordinatorStep(r),
             UNCHANGED <<requests, deletionMarker, host, world, history>>,
             \/ session' = session
             \/ \E s \in EndedStates : session' = [session EXCEPT ![r] = s],
             \/ queue' = Idle
             \/ \E step \in {"simulate", "commit", "reconcile", "fail"} : GoTo(step, r)
             \/ /\ GoTo("execute", r)
                /\ entry'[r].state = SUBMISSION_COMMITTED
                /\ Len(journal'[r]) = entry'[r].generation
                /\ submissions[r] = 0
      PROVE  CoordinatorActs(r)
  <2>1. host = "up" /\ entry[r] # Null
    BY <1>0, <1>4 DEF QueueRelies
  <2>2. UNCHANGED <<used, submissions, released, startFailure>>
    BY <1>4 DEF history
  <2> QED
    BY <1>2, <1>4, <2>1, <2>2 DEF CoordinatorActs
<1>5. CASE Refuse(r) \/ BadMessage(r)
  <2>1. CoordinatorStep(r) /\ queue # Idle /\ queue.req = r /\ queue.step = "dispatch"
    BY <1>5 DEF Refuse, BadMessage, At, CoordinatorStep, disk, Idle
  <2> QED
    BY <1>4, <1>5, <2>1 DEF Refuse, BadMessage, disk
<1>6. CASE Accept(r)
  <2>1. queue # Idle /\ queue.req = r /\ queue.step = "accept"
    BY <1>6 DEF Accept, At, Idle
  <2>2. PICK done \in BOOLEAN : /\ AcceptRoutineDeviceResponse(r, done)
                                /\ GoTo(IF done THEN "simulate" ELSE "fail", r)
    BY <1>6 DEF Accept
  <2>3. CoordinatorStep(r)
    BY <1>3, <2>2, AdvanceAdvances DEF AcceptRoutineDeviceResponse
  <2> QED
    BY <1>4, <1>6, <2>1, <2>2, <2>3 DEF Accept
<1>7. CASE Simulate(r)
  <2>1. queue # Idle /\ queue.req = r /\ queue.step = "simulate"
    BY <1>7 DEF Simulate, At, Idle
  <2>2. PICK done \in BOOLEAN : /\ SimulateApprovedRoutineAuthorization(r, done)
                                /\ GoTo(IF done THEN "commit" ELSE "fail", r)
    BY <1>7 DEF Simulate
  <2>3. CoordinatorStep(r)
    BY <1>3, <2>2, AdvanceAdvances DEF SimulateApprovedRoutineAuthorization
  <2> QED
    BY <1>4, <1>7, <2>1, <2>2, <2>3 DEF Simulate
<1>8. CASE Commit(r)
  <2>1. queue # Idle /\ queue.req = r /\ queue.step = "commit"
    BY <1>8 DEF Commit, At, Idle
  <2>2. host = "up" /\ entry[r] # Null /\ ~deletionMarker
    BY <1>0, <2>1 DEF QueueRelies, HostPhase
  <2>3. PICK done \in BOOLEAN : /\ CommitSimulatedRoutineAuthorization(r, done)
                                /\ EndIfThrown(r, done)
                                /\ GoTo(IF done THEN "execute" ELSE "fail", r)
    BY <1>8 DEF Commit
  <2>4. CoordinatorStep(r)
    BY <1>3, <2>3, AdvanceAdvances DEF CommitSimulatedRoutineAuthorization
  <2>5. CASE done
    <3>1. entry[r].state = SIMULATION_PASSED /\ CompareAndSwap(r, SUBMISSION_COMMITTED, TRUE)
      BY <2>3, <2>5 DEF CommitSimulatedRoutineAuthorization, Advance
    <3>2. /\ entry'[r].state = SUBMISSION_COMMITTED
          /\ Len(journal'[r]) = entry'[r].generation
          /\ OnRecord(r) /\ LastState(r) = SIMULATION_PASSED
      BY <1>0, <1>3, <2>2, <3>1, SwapDone
    <3>3. SIMULATION_PASSED \notin Sent
      BY DEF Sent, SIMULATION_PASSED, SUBMISSION_COMMITTED, SUBMITTED, RECEIPT_VERIFIED,
             COMPLETED, FAILED_EXECUTION, RECEIPT_INVALID, SUBMISSION_OUTCOME_UNKNOWN
    <3>4. submissions[r] = 0
      BY <1>0, <3>2, <3>3 DEF RequestInv, SentIsCommitted
    <3>5. GoTo("execute", r) /\ session' = session
      BY <2>3, <2>5 DEF EndIfThrown
    <3> QED
      BY <1>4, <1>8, <2>1, <2>4, <3>2, <3>4, <3>5 DEF Commit
  <2>6. CASE ~done
    <3>1. GoTo("fail", r) /\ session' = [session EXCEPT ![r] = "terminal"]
      BY <2>3, <2>6 DEF EndIfThrown
    <3> QED
      BY <1>1, <1>4, <1>8, <2>1, <2>4, <3>1 DEF Commit
  <2> QED
    BY <2>5, <2>6
<1>9. CASE Outcome(r)
  <2>1. queue # Idle /\ queue.req = r /\ queue.step = "outcome"
    BY <1>9 DEF Outcome, At, Idle
  <2>2. PICK done \in BOOLEAN : /\ ApplyExecution(r, chain[r], done)
                                /\ EndIfThrown(r, done)
                                /\ GoTo(IF done THEN "reconcile" ELSE "fail", r)
    BY <1>9 DEF Outcome
  <2>3. CoordinatorStep(r)
    BY <1>3, <2>2, ApplyOutcomeAdvances, CompareAndSwapAdvances DEF ApplyExecution
  <2>4. \/ session' = session
        \/ \E s \in EndedStates : session' = [session EXCEPT ![r] = s]
    BY <1>1, <2>2 DEF EndIfThrown
  <2> QED
    BY <1>4, <1>9, <2>1, <2>2, <2>3, <2>4 DEF Outcome
<1>10. CASE Reconcile(r)
  <2>1. queue # Idle /\ queue.req = r /\ queue.step = "reconcile"
    BY <1>10 DEF Reconcile, At, Idle
  <2>2. CoordinatorStep(r)
    BY <1>10, ReconcileAdvances DEF Reconcile
  <2>3. queue' = Idle \/ GoTo("fail", r)
    BY <1>10 DEF Reconcile
  <2> QED
    BY <1>1, <1>4, <1>10, <2>1, <2>2, <2>3 DEF Reconcile
<1>11. CASE Fail(r)
  <2>1. queue # Idle /\ queue.req = r /\ queue.step = "fail"
    BY <1>11 DEF Fail, At, Idle
  <2>2. PICK done \in BOOLEAN :
          /\ FailRoutineTransport(r, done)
          /\ session' = IF done THEN [session EXCEPT ![r] = "transport_failed"] ELSE session
    BY <1>11 DEF Fail
  <2>3. CoordinatorStep(r)
    BY <1>3, <2>2, CompareAndSwapAdvances DEF FailRoutineTransport, CoordinatorStep
  <2>4. \/ session' = session
        \/ \E s \in EndedStates : session' = [session EXCEPT ![r] = s]
    BY <1>1, <2>2
  <2> QED
    BY <1>4, <1>11, <2>1, <2>3, <2>4 DEF Fail
<1>12. CASE CallReconcile(r)
  <2>1. /\ CoordinatorStep(r) /\ host = "up" /\ entry[r] # Null
        /\ queue' = queue /\ queue # [step |-> "execute", req |-> r]
        /\ UNCHANGED <<requests, deletionMarker, host, session, world, used, submissions,
                       released, startFailure>>
    BY <1>12, ReconcileAdvances DEF CallReconcile, At, history
  <2> QED
    BY <1>2, <2>1 DEF CoordinatorActs
<1>13. CASE RestoreRequest(r)
  <2>1. PICK done \in BOOLEAN, scan \in Scans(r) :
          /\ ReconcileRoutineAuthorization(r, scan, done)
          /\ IF done THEN UNCHANGED <<host, startFailure>>
                     ELSE host' = "failing" /\ startFailure' = scan
    BY <1>13 DEF RestoreRequest
  <2>2. CoordinatorStep(r)
    BY <2>1, ReconcileAdvances
  <2>3. host = "restoring" /\ session[r] = "restoring" /\ queue' = queue /\ queue = Idle
    BY <1>0, <1>13 DEF RestoreRequest, QueueRelies
  <2>4. entry[r] # Null
    BY <1>0, <1>1, <2>3 DEF HostPhase
  <2>5. startFailure' \in {"none", "chain", "error", "unknown", "success", "failure"}
    BY <1>2, <2>1 DEF Scans
  <2>6. host' = host \/ (host = "restoring" /\ host' = "failing" /\ queue = Idle)
    BY <2>1, <2>3
  <2>7. /\ UNCHANGED <<requests, deletionMarker, world, used, submissions, released>>
        /\ session' = [session EXCEPT ![r] = "terminal"]
    BY <1>13 DEF RestoreRequest
  <2> QED
    BY <1>1, <2>2, <2>3, <2>4, <2>5, <2>6, <2>7 DEF CoordinatorActs, Idle
<1> QED
  BY <1>5, <1>6, <1>7, <1>8, <1>9, <1>10, <1>11, <1>12, <1>13

-----------------------------------------------------------------------------
\* A step that touches no request.
LEMMA SameRequests ==
    ASSUME \A q \in Requests : RequestInv(q),
           UNCHANGED <<journal, entry, requests, deletionMarker, used, submissions, released,
                       chain>>
    PROVE  \A q \in Requests : RequestInv(q)' /\ InFlight(q)' = InFlight(q)
BY DEF RequestInv, Durable, SentIsCommitted, ReleasedIsGivenUp, OutcomeTrue, OnRecord, LastState,
       InFlight

\* Without an unresolved outcome nothing is in flight: memory that is behind
\* the disk is unresolved too.
LEMMA NothingInFlight ==
    ASSUME IInv, host = "up", ~HasUnresolvedOutcome
    PROVE  \A q \in Requests : ~InFlight(q)
<1> SUFFICES ASSUME NEW q \in Requests, InFlight(q) PROVE FALSE
  OBVIOUS
<1>1. TypeOK /\ RequestInv(q) /\ HostPhase /\ ~deletionMarker
  BY DEF IInv, HostPhase
<1>2. session[q] # Null /\ entry[q] # Null
  BY <1>1 DEF HostPhase
<1>3. submissions[q] = 1
  BY <1>1 DEF InFlight, RequestInv, SentIsCommitted
<1>4. entry[q].state \in Sent /\ entry[q].state \notin Unresolved
  BY <1>1, <1>2, <1>3 DEF RequestInv, SentIsCommitted, HasUnresolvedOutcome
<1>5. entry[q].state \in {COMPLETED, FAILED_EXECUTION} /\ entry[q].state \in States
  BY <1>4, NamedStates
<1>6. LastState(q) = entry[q].state \/ LastState(q) \in Transitions(entry[q].state)
  BY <1>1, <1>2, MemoryBehind DEF RequestInv
<1>7. LastState(q) = entry[q].state
  BY <1>5, <1>6, TransitionFacts
<1> QED
  BY <1>5, <1>7 DEF InFlight

\* Begin: nothing is active or in flight, and the request is new.
LEMMA BeginStep ==
    ASSUME IInv, NEW r \in Requests, BeginRoutineAuthorization(r)
    PROVE  IInv'
<1>0. /\ TypeOK /\ \A q \in Requests : RequestInv(q)
      /\ HostPhase
  BY DEF IInv
<1>1. \A q \in Requests : ~InFlight(q)
  BY NothingInFlight DEF BeginRoutineAuthorization
<1>2. \A q \in Requests : session[q] \notin LiveStates
  BY DEF BeginRoutineAuthorization, HasActiveSession, SessionStates, LiveStates, EndedStates
<1>3. /\ r \notin used /\ used' = used \cup {r} /\ host = "up"
      /\ queue' = [step |-> "save", req |-> r]
      /\ UNCHANGED <<journal, requests, deletionMarker, entry, host, session, chain, clock,
                     submissions, released, startFailure>>
  BY DEF BeginRoutineAuthorization, GoTo, disk, world
<1>4. \A q \in Requests : RequestInv(q)'
  BY <1>0, <1>3 DEF RequestInv, Durable, SentIsCommitted, ReleasedIsGivenUp, OutcomeTrue,
                    OnRecord, LastState
<1>5. \A q \in Requests : ~InFlight(q)'
  BY <1>1, <1>3 DEF InFlight, OnRecord, LastState
<1>6. TypeOK'
  BY <1>0, <1>3 DEF TypeOK, Steps
<1>7. journal[r] = <<>> /\ entry[r] = Null /\ submissions[r] = 0 /\ r \notin released
  BY <1>0, <1>3 DEF RequestInv, Durable, SentIsCommitted, ReleasedIsGivenUp
<1>8. QueueRelies'
  BY <1>3, <1>7 DEF QueueRelies
<1>9. HostPhase'
  BY <1>0, <1>3, <1>5 DEF HostPhase
<1>10. OneActive' /\ OneInFlight'
  BY <1>2, <1>3, <1>5 DEF OneActive, OneInFlight, Active
<1> QED
  BY <1>4, <1>6, <1>8, <1>9, <1>10 DEF IInv

\* A message of the phone is taken up and moves the session.
LEMMA SessionSteps ==
    ASSUME IInv, NEW r \in Requests, Dispatch(r) \/ HandleBegin(r) \/ HandleComplete(r)
    PROVE  IInv'
<1>0. /\ TypeOK /\ (\A q \in Requests : RequestInv(q))
      /\ QueueRelies /\ HostPhase /\ OneActive /\ OneInFlight
  BY DEF IInv
<1>1. UNCHANGED <<journal, entry, requests, deletionMarker, host, used, submissions, released,
                  chain, clock, startFailure>>
  BY DEF Dispatch, HandleBegin, HandleComplete, disk, world, history
<1>2. \A q \in Requests : RequestInv(q)' /\ InFlight(q)' = InFlight(q)
  BY <1>0, <1>1, SameRequests
<1>3. /\ Active(r) /\ host = "up" /\ entry[r] # Null /\ session[r] \in LiveStates
      /\ r \in used
      /\ queue = Idle \/ (queue # Idle /\ queue.req = r)
  <2>1. Null \notin LiveStates
    BY DEF SessionStates
  <2>2. CASE Dispatch(r)
    <3>1. entry[r] # Null
      BY <1>0, <2>1, <2>2 DEF Dispatch, HostPhase
    <3> QED
      BY <1>0, <2>2, <3>1 DEF Dispatch, Active, RequestInv, Durable
  <2>3. CASE HandleBegin(r) \/ HandleComplete(r)
    BY <1>0, <2>3 DEF HandleBegin, HandleComplete, At, Idle, Active, QueueRelies, LiveStates
  <2> QED
    BY <2>2, <2>3
<1>4. /\ session' \in [Requests -> SessionStates \cup {Null}]
      /\ session'[r] \in LiveStates
      /\ \A q \in Requests \ {r} : session'[q] = session[q]
      /\ Null \notin LiveStates
  BY <1>0, <1>3 DEF Dispatch, HandleBegin, HandleComplete, TypeOK, SessionStates, LiveStates
<1>5. \/ queue' = Idle
      \/ \E step \in {"dispatch", "accept"} : queue' = [step |-> step, req |-> r]
  BY DEF Dispatch, HandleBegin, HandleComplete, GoTo
<1>6. TypeOK'
  BY <1>0, <1>1, <1>4, <1>5 DEF TypeOK, Steps
<1>7. QueueRelies'
  BY <1>1, <1>3, <1>5 DEF QueueRelies
<1>8. HostPhase'
  BY <1>0, <1>1, <1>2, <1>3, <1>4 DEF HostPhase
<1>9. OneActive'
  <2>1. \A q \in Requests : Active(q)' => Active(q)
    BY <1>3, <1>4, <1>5 DEF Active
  <2> QED
    BY <1>0, <1>2, <2>1 DEF OneActive
<1>10. OneInFlight'
  BY <1>0, <1>2 DEF OneInFlight
<1> QED
  BY <1>2, <1>6, <1>7, <1>8, <1>9, <1>10 DEF IInv

\* What begin writes: the request, two frames, and the request taken back.
\* The request is not on record before, is in no session, and was never sent.
LEMMA BeginWrites ==
    ASSUME IInv, NEW r \in Requests, queue # Idle, queue.req = r,
           queue.step \in {"save", "genesis", "waiting", "undo"},
           UNCHANGED <<deletionMarker, host, chain, clock, used, submissions, released,
                       startFailure>>,
           journal' \in [Requests -> Seq(States)],
           \A q \in Requests \ {r} : journal'[q] = journal[q] /\ (q \in requests' <=> q \in requests),
           requests' \subseteq Requests,
           journal'[r] \in {<<>>, <<REQUEST_CREATED>>, <<REQUEST_CREATED, TRANSPORT_WAITING>>}
           \/ journal'[r] = journal[r],
           \/ /\ UNCHANGED <<entry, session>>
              /\ \/ queue' = Idle
                 \/ \E step \in {"genesis", "waiting", "undo"} :
                      /\ queue' = [step |-> step, req |-> r]
                      /\ step = "genesis" => journal'[r] = <<>> /\ r \in requests'
                      /\ step = "waiting" => journal'[r] = <<REQUEST_CREATED>> /\ r \in requests'
           \/ /\ entry' = [entry EXCEPT ![r] = [generation |-> 2, state |-> TRANSPORT_WAITING]]
              /\ session' = [session EXCEPT ![r] = "transport_waiting"]
              /\ journal'[r] = <<REQUEST_CREATED, TRANSPORT_WAITING>>
              /\ r \in requests'
              /\ queue' = Idle
    PROVE  IInv'
<1>0. /\ TypeOK /\ (\A q \in Requests : RequestInv(q))
      /\ QueueRelies /\ HostPhase /\ OneActive /\ OneInFlight
  BY DEF IInv
<1>1. /\ host = "up" /\ r \in used /\ entry[r] = Null /\ submissions[r] = 0
      /\ r \notin released /\ session[r] = Null /\ ~deletionMarker /\ ~InFlight(r)
      /\ Active(r)
  BY <1>0 DEF QueueRelies, HostPhase, InFlight, Active
<1>2. ValidChain(<<REQUEST_CREATED>>) /\ ValidChain(<<REQUEST_CREATED, TRANSPORT_WAITING>>)
  BY NamedStates DEF ValidChain, Transitions
<1>3. journal'[r] # <<>> => ValidChain(journal'[r])
  BY <1>0, <1>2 DEF RequestInv, Durable, OnRecord
<1>4. /\ entry' \in [Requests -> Records \cup {Null}]
      /\ session' \in [Requests -> SessionStates \cup {Null}]
      /\ \A q \in Requests \ {r} : entry'[q] = entry[q] /\ session'[q] = session[q]
      /\ \/ entry'[r] = Null /\ session'[r] = Null
         \/ /\ entry'[r] = [generation |-> 2, state |-> TRANSPORT_WAITING]
            /\ session'[r] = "transport_waiting"
            /\ journal'[r] = <<REQUEST_CREATED, TRANSPORT_WAITING>>
            /\ r \in requests'
            /\ queue' = Idle
  <2>1. [generation |-> 2, state |-> TRANSPORT_WAITING] \in Records
    BY NamedStates DEF Records
  <2>2. "transport_waiting" \in SessionStates
    BY DEF SessionStates, LiveStates
  <2>3. CASE UNCHANGED <<entry, session>>
    BY <1>0, <1>1, <2>3 DEF TypeOK
  <2>4. CASE /\ entry' = [entry EXCEPT ![r] = [generation |-> 2, state |-> TRANSPORT_WAITING]]
             /\ session' = [session EXCEPT ![r] = "transport_waiting"]
             /\ journal'[r] = <<REQUEST_CREATED, TRANSPORT_WAITING>>
             /\ r \in requests'
             /\ queue' = Idle
    BY <1>0, <2>1, <2>2, <2>4 DEF TypeOK
  <2> QED
    BY <2>3, <2>4
<1>5. queue' = Idle \/ queue' \in [step : {"genesis", "waiting", "undo"}, req : {r}]
  OBVIOUS
<1>6. TypeOK'
  BY <1>0, <1>4, <1>5 DEF TypeOK, Steps
<1>7. RequestInv(r)'
  <2>1. Durable(r)'
    <3>1. CASE entry'[r] = Null
      BY <1>1, <1>3, <3>1 DEF Durable, OnRecord
    <3>2. CASE /\ entry'[r] = [generation |-> 2, state |-> TRANSPORT_WAITING]
               /\ journal'[r] = <<REQUEST_CREATED, TRANSPORT_WAITING>>
               /\ r \in requests'
      <4>1. /\ entry'[r].generation = 2 /\ entry'[r].state = TRANSPORT_WAITING
            /\ Len(journal'[r]) = 2 /\ journal'[r][2] = TRANSPORT_WAITING
        BY <3>2
      <4>2. entry'[r].generation \in {Len(journal'[r]) - 1, Len(journal'[r])} \ {0}
        BY <4>1
      <4> QED
        BY <1>1, <1>3, <3>2, <4>1, <4>2 DEF Durable, OnRecord
    <3> QED
      BY <1>4, <3>1, <3>2
  <2>2. SentIsCommitted(r)' /\ ReleasedIsGivenUp(r)'
    BY <1>1 DEF SentIsCommitted, ReleasedIsGivenUp
  <2>3. OutcomeTrue(r)'
    <3>1. CASE journal'[r] = journal[r]
      BY <1>0, <3>1 DEF RequestInv, OutcomeTrue, OnRecord, LastState
    <3>2. CASE journal'[r] \in {<<>>, <<REQUEST_CREATED>>, <<REQUEST_CREATED, TRANSPORT_WAITING>>}
      <4>1. OnRecord(r)' => LastState(r)' \in {REQUEST_CREATED, TRANSPORT_WAITING}
        BY <3>2 DEF OnRecord, LastState
      <4>2. {REQUEST_CREATED, TRANSPORT_WAITING}
               \cap {RECEIPT_VERIFIED, COMPLETED, FAILED_EXECUTION} = {}
        BY DEF REQUEST_CREATED, TRANSPORT_WAITING, RECEIPT_VERIFIED, COMPLETED, FAILED_EXECUTION
      <4> QED
        BY <4>1, <4>2 DEF OutcomeTrue
    <3> QED
      BY <3>1, <3>2
  <2> QED
    BY <2>1, <2>2, <2>3 DEF RequestInv
<1>8. ASSUME NEW q \in Requests \ {r}
      PROVE  RequestInv(q)' /\ (InFlight(q)' => InFlight(q))
  BY <1>0, <1>4 DEF RequestInv, Durable, SentIsCommitted, ReleasedIsGivenUp, OutcomeTrue,
                    OnRecord, LastState, InFlight
<1>9. ~InFlight(r)'
  BY <1>1 DEF InFlight
<1>10. QueueRelies'
  BY <1>1 DEF QueueRelies
<1>11. HostPhase'
  <2>1. "transport_waiting" # Null /\ [generation |-> 2, state |-> TRANSPORT_WAITING] # Null
    BY DEF SessionStates, LiveStates, TRANSPORT_WAITING
  <2>2. \A q \in Requests : session'[q] = Null <=> entry'[q] = Null
    BY <1>0, <1>4, <2>1 DEF HostPhase
  <2>3. \A q \in Requests : host = "up" /\ InFlight(q)' => session'[q] # Null
    BY <1>0, <1>4, <1>8, <1>9 DEF HostPhase
  <2> QED
    BY <1>1, <2>2, <2>3 DEF HostPhase
<1>12. OneActive'
  <2>1. \A q \in Requests : Active(q)' => Active(q)
    BY <1>1, <1>4, <1>5 DEF Active
  <2> QED
    BY <1>0, <1>8, <1>9, <2>1 DEF OneActive
<1>13. OneInFlight'
  BY <1>0, <1>8, <1>9 DEF OneInFlight
<1> QED
  BY <1>6, <1>7, <1>8, <1>10, <1>11, <1>12, <1>13 DEF IInv

\* A chain of one frame and one more.
LEMMA TwoFrames ==
    ASSUME NEW a \in States, NEW b \in States
    PROVE  Append(<<a>>, b) = <<a, b>>
<1> DEFINE u == <<a>>
           s == Append(u, b)
           t == <<a, b>>
<1>1. u \in Seq(States) /\ Len(u) = 1 /\ u[1] = a
  OBVIOUS
<1>2. t \in Seq(States) /\ Len(t) = 2 /\ t[1] = a /\ t[2] = b
  OBVIOUS
<1> HIDE DEF u, t
<1>3. /\ s \in Seq(States) /\ Len(s) = Len(u) + 1
      /\ s[Len(u) + 1] = b
      /\ \A i \in 1..Len(u) : s[i] = u[i]
  <2>1. ASSUME NEW w \in Seq(States)
        PROVE  /\ Append(w, b) \in Seq(States) /\ Len(Append(w, b)) = Len(w) + 1
               /\ Append(w, b)[Len(w) + 1] = b
               /\ \A i \in 1..Len(w) : Append(w, b)[i] = w[i]
    OBVIOUS
  <2>2. u \in Seq(States)
    BY <1>1
  <2> QED
    BY ONLY <2>1, <2>2
<1> HIDE DEF s
<1>4. s \in Seq(States) /\ Len(s) = 2 /\ s[1] = a /\ s[2] = b
  BY <1>1, <1>3
<1>5. s = t
  BY <1>2, <1>4, SeqEqual
<1> QED
  BY <1>5 DEF s, t, u

\* The four writes of begin.
LEMMA BeginSteps ==
    ASSUME IInv, NEW r \in Requests,
           SaveRequest(r) \/ WriteGenesis(r) \/ WriteWaiting(r) \/ DeleteRequest(r)
    PROVE  IInv'
<1>0. /\ TypeOK /\ QueueRelies
      /\ journal \in [Requests -> Seq(States)] /\ requests \subseteq Requests
  BY DEF IInv, TypeOK
<1>1. {REQUEST_CREATED, TRANSPORT_WAITING} \subseteq States
  BY NamedStates
<1>2. CASE SaveRequest(r)
  <2>1. queue # Idle /\ queue.req = r /\ queue.step = "save"
    BY <1>2 DEF SaveRequest, At, Idle
  <2>2. journal[r] = <<>>
    BY <1>0, <2>1 DEF QueueRelies
  <2>3. /\ requests' \in {requests, requests \cup {r}}
        /\ \/ queue' = Idle
           \/ queue' = [step |-> "genesis", req |-> r] /\ r \in requests'
    BY <1>2 DEF SaveRequest, DurableWrite, GoTo
  <2>4. UNCHANGED <<journal, deletionMarker, entry, host, session, chain, clock, used,
                    submissions, released, startFailure>>
    BY <1>2 DEF SaveRequest, world, history
  <2> QED
    BY <1>0, <2>1, <2>2, <2>3, <2>4, BeginWrites
<1>3. CASE WriteGenesis(r)
  <2>1. queue # Idle /\ queue.req = r /\ queue.step = "genesis"
    BY <1>3 DEF WriteGenesis, At, Idle
  <2>2. journal[r] = <<>> /\ r \in requests
    BY <1>0, <2>1 DEF QueueRelies
  <2>3. PICK done \in BOOLEAN :
          /\ DurableWrite(AppendFrame(r, REQUEST_CREATED), UNCHANGED journal, done)
          /\ GoTo(IF done THEN "waiting" ELSE "undo", r)
    BY <1>3 DEF WriteGenesis
  <2>4. AppendFrame(r, REQUEST_CREATED) =>
          /\ journal' \in [Requests -> Seq(States)]
          /\ journal'[r] = <<REQUEST_CREATED>>
          /\ \A q \in Requests \ {r} : journal'[q] = journal[q]
    BY <1>0, <1>1, <2>2 DEF AppendFrame
  <2>5. UNCHANGED <<requests, deletionMarker, entry, host, session, chain, clock, used,
                    submissions, released, startFailure>>
    BY <1>3 DEF WriteGenesis, world, history
  <2>6. CASE done
    <3>1. AppendFrame(r, REQUEST_CREATED) /\ queue' = [step |-> "waiting", req |-> r]
      BY <2>3, <2>6 DEF DurableWrite, GoTo
    <3> QED
      BY <1>0, <2>1, <2>2, <2>4, <2>5, <3>1, BeginWrites
  <2>7. CASE ~done
    <3>1. /\ AppendFrame(r, REQUEST_CREATED) \/ UNCHANGED journal
          /\ queue' = [step |-> "undo", req |-> r]
      BY <2>3, <2>7 DEF DurableWrite, GoTo
    <3> QED
      BY <1>0, <2>1, <2>2, <2>4, <2>5, <3>1, BeginWrites
  <2> QED
    BY <2>6, <2>7
<1>4. CASE WriteWaiting(r)
  <2>1. queue # Idle /\ queue.req = r /\ queue.step = "waiting"
    BY <1>4 DEF WriteWaiting, At, Idle
  <2>2. journal[r] = <<REQUEST_CREATED>> /\ r \in requests
    BY <1>0, <2>1 DEF QueueRelies
  <2>3. PICK done \in BOOLEAN :
          /\ DurableWrite(AppendFrame(r, TRANSPORT_WAITING), UNCHANGED journal, done)
          /\ IF done
             THEN /\ entry' = [entry EXCEPT
                         ![r] = [generation |-> 2, state |-> TRANSPORT_WAITING]]
                  /\ session' = [session EXCEPT ![r] = "transport_waiting"]
                  /\ queue' = Idle
             ELSE GoTo("undo", r) /\ UNCHANGED <<entry, session>>
    BY <1>4 DEF WriteWaiting
  <2>4. AppendFrame(r, TRANSPORT_WAITING) =>
          /\ journal' \in [Requests -> Seq(States)]
          /\ journal'[r] = <<REQUEST_CREATED, TRANSPORT_WAITING>>
          /\ \A q \in Requests \ {r} : journal'[q] = journal[q]
    <3>1. Append(<<REQUEST_CREATED>>, TRANSPORT_WAITING) = <<REQUEST_CREATED, TRANSPORT_WAITING>>
      BY <1>1, TwoFrames
    <3>2. <<REQUEST_CREATED, TRANSPORT_WAITING>> \in Seq(States)
      BY <1>1
    <3> QED
      BY <1>0, <2>2, <3>1, <3>2 DEF AppendFrame
  <2>5. UNCHANGED <<requests, deletionMarker, host, chain, clock, used, submissions, released,
                    startFailure>>
    BY <1>4 DEF WriteWaiting, world, history
  <2>6. CASE done
    <3>1. AppendFrame(r, TRANSPORT_WAITING)
      BY <2>3, <2>6 DEF DurableWrite
    <3> QED
      BY <1>0, <2>1, <2>2, <2>3, <2>4, <2>5, <2>6, <3>1, BeginWrites
  <2>7. CASE ~done
    <3>1. /\ AppendFrame(r, TRANSPORT_WAITING) \/ UNCHANGED journal
          /\ queue' = [step |-> "undo", req |-> r]
          /\ UNCHANGED <<entry, session>>
      BY <2>3, <2>7 DEF DurableWrite, GoTo
    <3> QED
      BY <1>0, <2>1, <2>2, <2>4, <2>5, <3>1, BeginWrites
  <2> QED
    BY <2>6, <2>7
<1>5. CASE DeleteRequest(r)
  <2>1. queue # Idle /\ queue.req = r /\ queue.step = "undo"
    BY <1>5 DEF DeleteRequest, At, Idle
  <2>2. requests' \in {requests, requests \ {r}} /\ queue' = Idle
    BY <1>5 DEF DeleteRequest, DurableWrite
  <2>3. UNCHANGED <<journal, deletionMarker, entry, host, session, chain, clock, used,
                    submissions, released, startFailure>>
    BY <1>5 DEF DeleteRequest, world, history
  <2> QED
    BY <1>0, <2>1, <2>2, <2>3, BeginWrites
<1> QED
  BY <1>2, <1>3, <1>4, <1>5

\* The operation is sent: it was committed, on disk and in memory, and had
\* not been sent before.
LEMMA ExecuteStep ==
    ASSUME IInv, NEW r \in Requests, Execute(r)
    PROVE  IInv'
<1>0. /\ TypeOK /\ (\A q \in Requests : RequestInv(q))
      /\ QueueRelies /\ HostPhase /\ OneActive /\ OneInFlight
  BY DEF IInv
<1>1. /\ queue = [step |-> "execute", req |-> r] /\ queue # Idle
      /\ queue' = [step |-> "outcome", req |-> r]
      /\ UNCHANGED <<journal, requests, deletionMarker, entry, host, session, clock, used,
                     released, startFailure>>
  BY DEF Execute, At, GoTo, disk, Idle
<1>2. /\ host = "up" /\ r \in used /\ entry[r] # Null /\ ~deletionMarker
      /\ entry[r].state = SUBMISSION_COMMITTED
      /\ Len(journal[r]) = entry[r].generation
      /\ submissions[r] = 0
      /\ Active(r)
  BY <1>0, <1>1 DEF QueueRelies, HostPhase, Active
<1>3. /\ OnRecord(r) /\ LastState(r) = SUBMISSION_COMMITTED /\ r \in requests
      /\ session[r] # Null
  <2>1. RequestInv(r) /\ Durable(r)
    BY <1>0 DEF RequestInv
  <2>2. /\ OnRecord(r) /\ journal[r][entry[r].generation] = entry[r].state /\ r \in requests
    BY <1>0, <1>2, <2>1, MemoryBehind DEF Durable
  <2> QED
    BY <1>0, <1>2, <2>2 DEF LastState, HostPhase
<1>4. /\ SUBMISSION_COMMITTED \in Sent
      /\ SUBMISSION_COMMITTED \notin GivenUp
      /\ SUBMISSION_COMMITTED \notin {RECEIPT_VERIFIED, COMPLETED, FAILED_EXECUTION}
  BY DEF Sent, GivenUp, SUBMISSION_COMMITTED, RECEIPT_VERIFIED, COMPLETED, FAILED_EXECUTION,
         CANCELLED, EXPIRED, FAILED_PRE_SUBMISSION
<1>5. /\ submissions' \in [Requests -> Nat]
      /\ submissions'[r] \in {0, 1}
      /\ \A q \in Requests \ {r} : submissions'[q] = submissions[q] /\ chain'[q] = chain[q]
      /\ chain' \in [Requests -> {"none", "pending", "success", "failure"}]
  <2>1. /\ submissions \in [Requests -> Nat]
        /\ chain \in [Requests -> {"none", "pending", "success", "failure"}]
    BY <1>0 DEF TypeOK
  <2>2. CASE /\ chain' = [chain EXCEPT ![r] = IF @ = "none" THEN "pending" ELSE @]
             /\ submissions' = [submissions EXCEPT ![r] = @ + 1]
    BY <1>2, <2>1, <2>2
  <2>3. CASE UNCHANGED <<chain, submissions>>
    BY <1>2, <2>1, <2>3
  <2> QED
    BY <2>2, <2>3 DEF Execute
<1>6. TypeOK'
  BY <1>0, <1>1, <1>5 DEF TypeOK, Steps
<1>7. RequestInv(r)'
  <2>1. Durable(r)'
    BY <1>0, <1>1 DEF RequestInv, Durable, OnRecord
  <2>2. SentIsCommitted(r)'
    BY <1>1, <1>2, <1>3, <1>4, <1>5 DEF SentIsCommitted, OnRecord, LastState
  <2>3. r \notin released
    BY <1>0, <1>3, <1>4 DEF RequestInv, ReleasedIsGivenUp
  <2>4. ReleasedIsGivenUp(r)' /\ OutcomeTrue(r)'
    BY <1>1, <1>3, <1>4, <2>3 DEF ReleasedIsGivenUp, OutcomeTrue, OnRecord, LastState
  <2> QED
    BY <2>1, <2>2, <2>4 DEF RequestInv
<1>8. ASSUME NEW q \in Requests \ {r}
      PROVE  RequestInv(q)' /\ InFlight(q)' = InFlight(q)
  BY <1>0, <1>1, <1>5 DEF RequestInv, Durable, SentIsCommitted, ReleasedIsGivenUp, OutcomeTrue,
                          OnRecord, LastState, InFlight
<1>9. QueueRelies'
  BY <1>1, <1>2 DEF QueueRelies
<1>10. HostPhase'
  BY <1>0, <1>1, <1>2, <1>3, <1>8 DEF HostPhase
<1>11. OneActive'
  <2>1. \A q \in Requests : Active(q)' => q = r
    BY <1>0, <1>1, <1>2 DEF OneActive, Active
  <2> QED
    BY <1>0, <1>2, <1>8, <2>1 DEF OneActive
<1>12. OneInFlight'
  BY <1>0, <1>2, <1>8 DEF OneActive, OneInFlight
<1> QED
  BY <1>6, <1>7, <1>8, <1>9, <1>10, <1>11, <1>12 DEF IInv

-----------------------------------------------------------------------------
\* A step that moves the clock alone, or nothing.
LEMMA QuietSteps ==
    ASSUME IInv, UNCHANGED vars \/ \E r \in Requests : Tick(r)
    PROVE  IInv'
<1>0. /\ TypeOK /\ (\A q \in Requests : RequestInv(q))
      /\ QueueRelies /\ HostPhase /\ OneActive /\ OneInFlight
  BY DEF IInv
<1>1. UNCHANGED <<journal, entry, requests, deletionMarker, used, submissions, released, chain,
                  queue, session, host, startFailure>>
  BY DEF Tick, vars, disk, memory, world, history
<1>2. clock' \in [Requests -> {"before", "at", "after"}]
  BY <1>0 DEF TypeOK, Tick, vars, world
<1>3. \A q \in Requests : RequestInv(q)' /\ InFlight(q)' = InFlight(q)
  BY <1>0, <1>1, SameRequests
<1>4. TypeOK'
  BY <1>0, <1>1, <1>2 DEF TypeOK
<1>5. QueueRelies'
  BY <1>0, <1>1 DEF QueueRelies
<1>6. HostPhase'
  BY <1>0, <1>1, <1>3 DEF HostPhase
<1>7. OneActive' /\ OneInFlight'
  BY <1>0, <1>1, <1>3 DEF OneActive, Active, OneInFlight
<1> QED
  BY <1>3, <1>4, <1>5, <1>6, <1>7 DEF IInv

\* The operation is included: no outcome of it was recorded before.
LEMMA IncludeStep ==
    ASSUME IInv, NEW r \in Requests, Include(r)
    PROVE  IInv'
<1>0. /\ TypeOK /\ (\A q \in Requests : RequestInv(q))
      /\ QueueRelies /\ HostPhase /\ OneActive /\ OneInFlight
  BY DEF IInv
<1>1. /\ chain[r] = "pending"
      /\ UNCHANGED <<journal, entry, requests, deletionMarker, used, submissions, released,
                     queue, session, host, clock, startFailure>>
  BY DEF Include, disk, memory, history
<1>2. /\ chain' \in [Requests -> {"none", "pending", "success", "failure"}]
      /\ \A q \in Requests \ {r} : chain'[q] = chain[q]
  BY <1>0 DEF Include, TypeOK
<1>3. ASSUME NEW q \in Requests
      PROVE  RequestInv(q)' /\ InFlight(q)' = InFlight(q)
  <2>1. InFlight(q)' = InFlight(q) /\ Durable(q)' /\ SentIsCommitted(q)' /\ ReleasedIsGivenUp(q)'
    BY <1>0, <1>1 DEF RequestInv, Durable, SentIsCommitted, ReleasedIsGivenUp, OnRecord,
                      LastState, InFlight
  <2>2. OutcomeTrue(q)'
    BY <1>0, <1>1, <1>2 DEF RequestInv, OutcomeTrue, OnRecord, LastState
  <2> QED
    BY <2>1, <2>2 DEF RequestInv
<1>4. TypeOK'
  BY <1>0, <1>1, <1>2 DEF TypeOK
<1>5. QueueRelies'
  BY <1>0, <1>1 DEF QueueRelies
<1>6. HostPhase'
  BY <1>0, <1>1, <1>3 DEF HostPhase
<1>7. OneActive' /\ OneInFlight'
  BY <1>0, <1>1, <1>3 DEF OneActive, Active, OneInFlight
<1> QED
  BY <1>3, <1>4, <1>5, <1>6, <1>7 DEF IInv

\* What holds while the host is not up: nothing is under way.
LEMMA NotUp ==
    ASSUME IInv, host # "up"
    PROVE  queue = Idle /\ \A q \in Requests : session[q] \notin LiveStates /\ ~Active(q)
BY DEF IInv, QueueRelies, HostPhase, Active

\* The process ends and is started again: what was sent stays on disk.
LEMMA CrashAndStart ==
    ASSUME IInv, Crash \/ Start
    PROVE  IInv'
<1>0. /\ TypeOK /\ (\A q \in Requests : RequestInv(q))
      /\ HostPhase /\ OneActive /\ OneInFlight
  BY DEF IInv
<1>1. UNCHANGED <<journal, requests, deletionMarker, used, submissions, released, chain, clock>>
  BY DEF Crash, Start, disk, world, history
<1>2. entry' = NoEntries /\ session' = NoEntries /\ queue' = Idle
  <2>1. CASE Crash
    BY <2>1 DEF Crash, MemoryLost
  <2>2. CASE Start
    BY <1>0, <2>2, NotUp DEF Start, HostPhase
  <2> QED
    BY <2>1, <2>2
<1>3. /\ host' \in {"down", "restoring"}
      /\ deletionMarker => host' = "down"
      /\ startFailure' \in {startFailure, "none"}
  BY DEF Crash, Start, history
<1>4. \A q \in Requests : entry'[q] = Null /\ session'[q] = Null
  BY <1>2 DEF NoEntries
<1>5. \A q \in Requests : RequestInv(q)' /\ InFlight(q)' = InFlight(q)
  BY <1>0, <1>1, <1>4 DEF RequestInv, Durable, SentIsCommitted, ReleasedIsGivenUp, OutcomeTrue,
                          OnRecord, LastState, InFlight
<1>6. TypeOK'
  BY <1>0, <1>1, <1>2, <1>3 DEF TypeOK, NoEntries
<1>7. QueueRelies'
  BY <1>2 DEF QueueRelies
<1>8. Null \notin LiveStates
  BY DEF SessionStates
<1>9. HostPhase'
  BY <1>0, <1>1, <1>2, <1>3, <1>4, <1>5, <1>8 DEF HostPhase
<1>10. OneActive' /\ OneInFlight'
  BY <1>0, <1>2, <1>4, <1>5, <1>8 DEF OneActive, Active, OneInFlight
<1> QED
  BY <1>5, <1>6, <1>7, <1>9, <1>10 DEF IInv

\* A start loads the records of a request from its chain.
LEMMA LoadStep ==
    ASSUME IInv, NEW r \in Requests, LoadRequest(r)
    PROVE  IInv'
<1>0. /\ TypeOK /\ (\A q \in Requests : RequestInv(q))
      /\ HostPhase /\ OneActive /\ OneInFlight
  BY DEF IInv
<1>1. /\ host = "restoring" /\ r \in requests /\ session[r] = Null /\ ~deletionMarker
      /\ queue = Idle /\ queue' = Idle
      /\ UNCHANGED <<journal, requests, deletionMarker, used, submissions, released, chain,
                     clock>>
  BY <1>0, NotUp DEF LoadRequest, disk, world, HostPhase
<1>2. CASE ~ValidChain(journal[r])
  <2>1. host' = "failing" /\ startFailure' = "chain" /\ UNCHANGED <<entry, session>>
    BY <1>2 DEF LoadRequest
  <2>2. \A q \in Requests : RequestInv(q)' /\ InFlight(q)' = InFlight(q)
    BY <1>0, <1>1, <2>1, SameRequests
  <2>3. TypeOK'
    BY <1>0, <1>1, <2>1 DEF TypeOK
  <2>4. QueueRelies'
    BY <1>1 DEF QueueRelies
  <2>5. \A q \in Requests : session[q] \notin LiveStates
    BY <1>1, NotUp
  <2>6. HostPhase'
    BY <1>0, <1>1, <2>1, <2>2, <2>5 DEF HostPhase
  <2>7. OneActive' /\ OneInFlight'
    BY <1>0, <1>1, <2>1, <2>2 DEF OneActive, Active, OneInFlight
  <2> QED
    BY <2>2, <2>3, <2>4, <2>6, <2>7 DEF IInv
<1>3. CASE ValidChain(journal[r])
  <2> DEFINE n == Len(journal[r])
             last == [generation |-> n, state |-> LastState(r)]
  <2>1. /\ entry' = [entry EXCEPT ![r] = last]
        /\ session' = [session EXCEPT ![r] = "restoring"]
        /\ UNCHANGED <<host, startFailure>>
    BY <1>3 DEF LoadRequest, LastState
  <2>2. n \in Nat /\ n # 0 /\ LastState(r) \in States /\ OnRecord(r)
    <3>1. journal[r] \in Seq(States)
      BY <1>0 DEF TypeOK
    <3>2. journal[r] # <<>>
      BY <1>3 DEF ValidChain
    <3> QED
      BY <3>1, <3>2 DEF LastState, OnRecord
  <2>3. last \in Records /\ last.generation = n /\ last.state = LastState(r) /\ last # Null
    <3>1. LastState(r) \in Nat
      BY <2>2 DEF States
    <3>2. last \in [generation : Nat, state : Nat]
      BY <2>2, <3>1
    <3> QED
      BY <2>2, <3>2 DEF Records
  <2>4. /\ entry'[r] = last /\ session'[r] = "restoring"
        /\ \A q \in Requests \ {r} : entry'[q] = entry[q] /\ session'[q] = session[q]
        /\ entry' \in [Requests -> Records \cup {Null}]
        /\ session' \in [Requests -> SessionStates \cup {Null}]
    BY <1>0, <2>1, <2>3 DEF TypeOK, SessionStates
  <2>5. \A q \in Requests : InFlight(q)' = InFlight(q)
    BY <1>1 DEF InFlight, OnRecord, LastState
  <2>6. RequestInv(r)'
    <3>1. RequestInv(r) /\ r \in used
      BY <1>0, <2>2 DEF RequestInv, Durable, OnRecord
    <3>2. journal'[r] = journal[r] /\ LastState(r)' = LastState(r) /\ OnRecord(r)' = OnRecord(r)
      BY <1>1 DEF LastState, OnRecord
    <3>3. n \in {n - 1, n} \ {0}
      BY <2>2
    <3>4. entry'[r].generation = n /\ entry'[r].state = LastState(r) /\ LastState(r) = journal[r][n]
      BY <2>3, <2>4 DEF LastState
    <3> HIDE DEF n, last
    <3>5. n = Len(journal'[r])
      BY <3>2 DEF n
    <3>6. Durable(r)'
      BY <1>1, <1>3, <3>1, <3>2, <3>3, <3>4, <3>5 DEF Durable, OnRecord
    <3>7. SentIsCommitted(r)' /\ ReleasedIsGivenUp(r)' /\ OutcomeTrue(r)'
      BY <1>1, <2>2, <3>1, <3>2, <3>4 DEF RequestInv, SentIsCommitted, ReleasedIsGivenUp,
                                          OutcomeTrue
    <3> QED
      BY <3>6, <3>7 DEF RequestInv
  <2>7. \A q \in Requests \ {r} : RequestInv(q)'
    BY <1>0, <1>1, <2>4 DEF RequestInv, Durable, SentIsCommitted, ReleasedIsGivenUp, OutcomeTrue,
                            OnRecord, LastState
  <2>8. TypeOK'
    BY <1>0, <1>1, <2>1, <2>4 DEF TypeOK
  <2>9. QueueRelies'
    BY <1>1 DEF QueueRelies
  <2>10. /\ \A q \in Requests : session[q] \notin LiveStates
         /\ "restoring" \notin LiveStates /\ "restoring" # Null
    BY <1>1, NotUp DEF LiveStates, SessionStates
  <2> HIDE DEF last
  <2>11. HostPhase'
    BY <1>0, <1>1, <2>1, <2>3, <2>4, <2>5, <2>10 DEF HostPhase
  <2>12. OneActive' /\ OneInFlight'
    BY <1>0, <1>1, <2>4, <2>5, <2>10 DEF OneActive, Active, OneInFlight
  <2> QED
    BY <2>6, <2>7, <2>8, <2>9, <2>11, <2>12 DEF IInv
<1> QED
  BY <1>2, <1>3

\* The host is up once every stored request is in memory; what is in flight
\* is stored.
LEMMA FinishStep ==
    ASSUME IInv, FinishStart
    PROVE  IInv'
<1>0. /\ TypeOK /\ (\A q \in Requests : RequestInv(q))
      /\ HostPhase /\ OneActive /\ OneInFlight
  BY DEF IInv
<1>1. /\ host = "restoring" /\ host' = "up" /\ ~deletionMarker /\ queue = Idle
      /\ UNCHANGED <<journal, requests, deletionMarker, used, submissions, released, chain,
                     clock, entry, session, queue, startFailure>>
      /\ \A q \in Requests : session[q] \notin LiveStates
  BY <1>0, NotUp DEF FinishStart, disk, world, history, HostPhase
<1>2. \A q \in Requests : RequestInv(q)' /\ InFlight(q)' = InFlight(q)
  BY <1>0, <1>1, SameRequests
<1>3. TypeOK' /\ QueueRelies'
  BY <1>0, <1>1 DEF TypeOK, QueueRelies
<1>4. ASSUME NEW q \in Requests, InFlight(q)
      PROVE  session[q] # Null
  <2>1. submissions[q] = 1 /\ OnRecord(q)
    BY <1>0, <1>4 DEF InFlight, RequestInv, SentIsCommitted
  <2>2. session[q] = "terminal"
    BY <1>0, <2>1 DEF FinishStart, RequestInv, SentIsCommitted
  <2> QED
    BY <2>2 DEF SessionStates, EndedStates
<1>5. HostPhase'
  BY <1>0, <1>1, <1>2, <1>4 DEF HostPhase
<1>6. OneActive' /\ OneInFlight'
  BY <1>0, <1>1, <1>2 DEF OneActive, Active, OneInFlight
<1> QED
  BY <1>2, <1>3, <1>5, <1>6 DEF IInv

\* Deleting the profile: the marker is written while nothing is in flight,
\* and from then on the stores are only emptied.
LEMMA DeletionSteps ==
    ASSUME IInv, CommitDeletion \/ ClearJournals \/ ClearRequests \/ RemoveMarker
    PROVE  IInv'
<1>0. /\ TypeOK /\ (\A q \in Requests : RequestInv(q))
      /\ HostPhase /\ OneActive /\ OneInFlight
  BY DEF IInv
<1>1. /\ UNCHANGED <<used, submissions, released, chain, clock, startFailure>>
      /\ queue' = Idle
      /\ \A q \in Requests : ~InFlight(q) /\ session'[q] \notin LiveStates
  <2>1. CASE CommitDeletion
    <3>1. ~HasUnresolvedOutcome /\ ~HasActiveSession /\ queue = Idle /\ host = "up"
      BY <2>1 DEF CommitDeletion, DeletionSafe
    <3>2. \A q \in Requests : session[q] \notin LiveStates
      BY <3>1 DEF HasActiveSession, SessionStates, LiveStates, EndedStates
    <3> QED
      BY <2>1, <3>1, <3>2, NothingInFlight DEF CommitDeletion, world, history
  <2>2. CASE ClearJournals \/ ClearRequests
    <3>1. host # "up" /\ \A q \in Requests : ~InFlight(q)
      BY <1>0, <2>2 DEF ClearJournals, ClearRequests, HostPhase
    <3> QED
      BY <2>2, <3>1, NotUp DEF ClearJournals, ClearRequests, world, history, memory
  <2>3. CASE RemoveMarker
    <3>1. \A q \in Requests : ~InFlight(q) /\ session'[q] = Null
      BY <1>0, <2>3 DEF RemoveMarker, MemoryLost, NoEntries, HostPhase
    <3> QED
      BY <2>3, <3>1 DEF RemoveMarker, MemoryLost, world, history, SessionStates
  <2> QED
    BY <2>1, <2>2, <2>3
<1>2. /\ \A q \in Requests : journal'[q] = journal[q] \/ journal'[q] = <<>>
      /\ journal' \in [Requests -> Seq(States)]
      /\ requests' \in {requests, {}}
      /\ requests' = requests \/ \A q \in Requests : journal'[q] = <<>>
  <2>1. /\ NoFrames \in [Requests -> Seq(States)]
        /\ \A q \in Requests : NoFrames[q] = <<>>
    BY DEF NoFrames
  <2>2. journal \in [Requests -> Seq(States)]
    BY <1>0 DEF TypeOK
  <2>3. /\ journal' \in {journal, NoFrames}
        /\ requests' \in {requests, {}}
        /\ requests' = requests \/ journal' = NoFrames
    BY DEF CommitDeletion, ClearJournals, ClearRequests, RemoveMarker
  <2> QED
    BY <2>1, <2>2, <2>3
<1>3. /\ deletionMarker' => host' \in {"down", "deleting"}
      /\ ~deletionMarker' => host' = "down" /\ entry' = NoEntries /\ session' = NoEntries
      /\ host' # "up"
      /\ host' = "down" => entry' = NoEntries /\ session' = NoEntries
      /\ UNCHANGED <<entry, session>> \/ (entry' = NoEntries /\ session' = NoEntries)
      /\ deletionMarker' \in BOOLEAN
  <2>1. CASE CommitDeletion
    BY <2>1 DEF CommitDeletion
  <2>2. CASE ClearJournals \/ ClearRequests
    <3>1. deletionMarker /\ deletionMarker' = deletionMarker /\ UNCHANGED <<entry, host, session>>
      BY <2>2 DEF ClearJournals, ClearRequests, memory
    <3>2. deletionMarker'
      BY <3>1
    <3>3. /\ host \in {"deleting", "down"}
          /\ host = "down" => entry = NoEntries /\ session = NoEntries
      BY <1>0, <3>1 DEF HostPhase
    <3>4. deletionMarker' \in BOOLEAN
      BY <1>0, <3>1 DEF TypeOK
    <3> QED
      BY <3>1, <3>2, <3>3, <3>4
  <2>3. CASE RemoveMarker
    BY <2>3 DEF RemoveMarker, MemoryLost
  <2> QED
    BY <2>1, <2>2, <2>3
<1>4. TypeOK'
  BY <1>0, <1>1, <1>2, <1>3 DEF TypeOK, NoEntries
<1>5. \A q \in Requests : entry'[q] = Null \/ (deletionMarker' /\ entry'[q] = entry[q])
  BY <1>3 DEF NoEntries
<1>6. ASSUME NEW q \in Requests
      PROVE  RequestInv(q)' /\ ~InFlight(q)'
  <2>1. CASE journal'[q] = <<>>
    BY <1>0, <1>1, <1>5, <2>1 DEF RequestInv, Durable, SentIsCommitted, ReleasedIsGivenUp,
                                  OutcomeTrue, OnRecord, LastState, InFlight
  <2>2. CASE journal'[q] = journal[q] /\ requests' = requests
    BY <1>0, <1>1, <1>5, <2>2 DEF RequestInv, Durable, SentIsCommitted, ReleasedIsGivenUp,
                                  OutcomeTrue, OnRecord, LastState, InFlight
  <2> QED
    BY <1>2, <2>1, <2>2
<1>7. QueueRelies'
  BY <1>1 DEF QueueRelies
<1>8. HostPhase'
  BY <1>0, <1>1, <1>3, <1>6 DEF HostPhase, NoEntries
<1>9. OneActive' /\ OneInFlight'
  BY <1>1, <1>6 DEF OneActive, Active, OneInFlight
<1> QED
  BY <1>4, <1>6, <1>7, <1>8, <1>9 DEF IInv

-----------------------------------------------------------------------------
\* The first start finds empty stores.
LEMMA InitIInv == Init => IInv
<1> SUFFICES ASSUME Init PROVE IInv
  OBVIOUS
<1>1. /\ journal = NoFrames /\ requests = {} /\ deletionMarker = FALSE /\ entry = NoEntries
      /\ host = "down" /\ session = NoEntries /\ queue = Idle
      /\ chain = [r \in Requests |-> "none"] /\ clock = [r \in Requests |-> "before"]
      /\ used = {} /\ submissions = [r \in Requests |-> 0] /\ released = {}
      /\ startFailure = "none"
  BY DEF Init
<1>2. /\ \A r \in Requests : /\ journal[r] = <<>> /\ entry[r] = Null /\ session[r] = Null
                             /\ submissions[r] = 0 /\ ~InFlight(r)
  BY <1>1 DEF NoFrames, NoEntries, InFlight
<1>3. TypeOK
  <2>1. deletionMarker \in BOOLEAN
    BY <1>1
  <2>2. journal \in [Requests -> Seq(States)]
    BY <1>1 DEF NoFrames
  <2>3. submissions \in [Requests -> Nat]
    BY <1>1
  <2> QED
    BY <1>1, <2>1, <2>2, <2>3 DEF TypeOK, NoEntries
<1>4. ASSUME NEW r \in Requests
      PROVE  RequestInv(r)
  <2>1. ~OnRecord(r) /\ entry[r] = Null /\ submissions[r] = 0 /\ r \notin released
    BY <1>1, <1>2 DEF OnRecord
  <2>2. Durable(r)
    BY <1>2, <2>1 DEF Durable
  <2>3. SentIsCommitted(r)
    BY <2>1 DEF SentIsCommitted
  <2> QED
    BY <2>1, <2>2, <2>3 DEF RequestInv, ReleasedIsGivenUp, OutcomeTrue
<1>5. QueueRelies
  BY <1>1 DEF QueueRelies
<1>6. Null \notin LiveStates
  BY DEF SessionStates
<1>7. HostPhase
  BY <1>1, <1>2, <1>6 DEF HostPhase
<1>8. OneActive /\ OneInFlight
  BY <1>1, <1>2, <1>6 DEF OneActive, Active, OneInFlight
<1> QED
  BY <1>3, <1>4, <1>5, <1>7, <1>8 DEF IInv

\* Every step keeps the invariant.
LEMMA NextIInv == IInv /\ [Next]_vars => IInv'
<1> SUFFICES ASSUME IInv, [Next]_vars PROVE IInv'
  OBVIOUS
<1>1. ASSUME NEW r \in Requests, BeginRoutineAuthorization(r)
      PROVE  IInv'
  BY <1>1, BeginStep
<1>2. ASSUME NEW r \in Requests, Dispatch(r) \/ HandleBegin(r) \/ HandleComplete(r)
      PROVE  IInv'
  BY <1>2, SessionSteps
<1>3. ASSUME NEW r \in Requests,
             SaveRequest(r) \/ WriteGenesis(r) \/ WriteWaiting(r) \/ DeleteRequest(r)
      PROVE  IInv'
  BY <1>3, BeginSteps
<1>4. ASSUME NEW r \in Requests, HandleTerminal(r) \/ ExpireSession(r) \/ Cancel(r)
      PROVE  IInv'
  BY <1>4, ReleasingSteps, AfterCoordinator
<1>5. ASSUME NEW r \in Requests,
             \/ Refuse(r) \/ BadMessage(r) \/ Accept(r) \/ Simulate(r) \/ Commit(r)
             \/ Outcome(r) \/ Reconcile(r) \/ Fail(r) \/ CallReconcile(r) \/ RestoreRequest(r)
      PROVE  IInv'
  BY <1>5, CoordinatorSteps, AfterCoordinator
<1>6. ASSUME NEW r \in Requests, Execute(r)
      PROVE  IInv'
  BY <1>6, ExecuteStep
<1>7. ASSUME NEW r \in Requests, Include(r) \/ Tick(r) \/ LoadRequest(r)
      PROVE  IInv'
  BY <1>7, IncludeStep, QuietSteps, LoadStep
<1>8. CASE Crash \/ Start \/ FinishStart
  BY <1>8, CrashAndStart, FinishStep
<1>9. CASE CommitDeletion \/ ClearJournals \/ ClearRequests \/ RemoveMarker
  BY <1>9, DeletionSteps
<1>10. CASE UNCHANGED vars
  BY <1>10, QuietSteps
<1> QED
  BY <1>1, <1>2, <1>3, <1>4, <1>5, <1>6, <1>7, <1>8, <1>9, <1>10 DEF Next, QueueStep

\* The invariant holds in every reachable state.
THEOREM Invariant == Spec => []IInv
BY InitIInv, NextIInv, PTL DEF Spec

\* Memory is on disk, at most one frame behind it, and every journal is a
\* chain that a restore accepts, whichever writes fail (#saveUpdate of the
\* journal, and restoreEncryptedRoutineAuthorization).
THEOREM RecordsAreDurable == Spec => []MemoryIsDurable
<1>1. IInv => MemoryIsDurable
  BY DEF IInv, RequestInv, Durable, MemoryIsDurable
<1> QED
  BY <1>1, Invariant, PTL

\* An operation is sent at most once, and only after its commit was durable.
THEOREM SentOnce == Spec => []SubmittedOnce
<1>1. IInv => SubmittedOnce
  <2> SUFFICES ASSUME IInv, NEW r \in Requests
               PROVE  /\ submissions[r] <= 1
                      /\ submissions[r] = 1 /\ OnRecord(r) => Committed(LastState(r))
    BY DEF SubmittedOnce
  <2>1. SentIsCommitted(r)
    BY DEF IInv, RequestInv
  <2>2. submissions[r] \in {0, 1}
    BY <2>1 DEF SentIsCommitted
  <2> QED
    BY <2>1, <2>2, NamedStates DEF SentIsCommitted
<1> QED
  BY <1>1, Invariant, PTL

\* A request somebody was told has ended, or that the journal gives up, was
\* never sent and never will be.
THEOREM ReleasedNeverSent == Spec => []GivenUpNeverSubmitted
<1>1. IInv => GivenUpNeverSubmitted
  <2> SUFFICES ASSUME IInv, NEW r \in Requests,
                      r \in released \/ (OnRecord(r) /\ LastState(r) \in GivenUp)
               PROVE  submissions[r] = 0
    BY DEF GivenUpNeverSubmitted
  <2>1. SentIsCommitted(r) /\ ReleasedIsGivenUp(r)
    BY DEF IInv, RequestInv
  <2> QED
    BY <2>1, NamedStates DEF SentIsCommitted, ReleasedIsGivenUp
<1> QED
  BY <1>1, Invariant, PTL

\* A recorded outcome is the outcome on the chain.
THEOREM OutcomesAreTrue == Spec => []RecordedOutcomeIsTrue
<1>1. IInv => RecordedOutcomeIsTrue
  BY DEF IInv, RequestInv, OutcomeTrue, RecordedOutcomeIsTrue
<1> QED
  BY <1>1, Invariant, PTL

\* Two operations are never in flight together, also after a restart.
THEOREM NeverTwoInFlight == Spec => []OneInFlight
<1>1. IInv => OneInFlight
  BY DEF IInv
<1> QED
  BY <1>1, Invariant, PTL

\* A step that leaves the journals alone or adds a frame to one.
AppendsAtMost == UNCHANGED journal \/ \E r \in Requests : \E n : AppendFrame(r, n)

\* Every step is one, unless it clears the journals.
LEMMA JournalsGrow ==
    ASSUME Next
    PROVE  AppendsAtMost \/ ClearJournals
<1>1. ASSUME NEW r \in Requests, NEW next, NEW allowed, NEW done,
             Publish(r, next, allowed, done)
      PROVE  AppendsAtMost
  BY <1>1 DEF Publish, AppendsAtMost
<1>2. UNCHANGED journal => AppendsAtMost
  BY DEF AppendsAtMost
<1>3. ASSUME NEW r \in Requests, NEW next, NEW done,
             CompareAndSwap(r, next, done) \/ PublishVerifiedOutcome(r, next, done)
      PROVE  AppendsAtMost
  BY <1>1, <1>3 DEF CompareAndSwap, PublishVerifiedOutcome
<1>4. ASSUME NEW r \in Requests, NEW from, NEW to, NEW done, Advance(r, from, to, done)
      PROVE  AppendsAtMost
  BY <1>2, <1>3, <1>4 DEF Advance, AssertTrustedPreSubmissionThrows
<1>5. ASSUME NEW r \in Requests, NEW outcome, NEW done,
             \/ ApplyOutcome(r, outcome, done) \/ ApplyExecution(r, outcome, done)
             \/ ReconcileRoutineAuthorization(r, outcome, done)
      PROVE  AppendsAtMost
  BY <1>2, <1>3, <1>5 DEF ApplyOutcome, ApplyExecution, ReconcileRoutineAuthorization
<1>6. ASSUME NEW r \in Requests, NEW done,
             \/ CancelRoutineAuthorization(r, done) \/ RejectRoutineAuthorization(r, done)
             \/ ExpireRoutineAuthorization(r, done) \/ FailRoutineTransport(r, done)
      PROVE  AppendsAtMost
  BY <1>2, <1>3, <1>6 DEF CancelRoutineAuthorization, RejectRoutineAuthorization,
     ExpireRoutineAuthorization, FailRoutineTransport
<1>7. ASSUME NEW r \in Requests,
             \/ BeginRoutineAuthorization(r) \/ Dispatch(r) \/ SaveRequest(r) \/ DeleteRequest(r)
             \/ Refuse(r) \/ BadMessage(r) \/ HandleBegin(r) \/ HandleComplete(r) \/ Execute(r)
             \/ Include(r) \/ Tick(r) \/ LoadRequest(r)
      PROVE  AppendsAtMost
  BY <1>2, <1>7 DEF BeginRoutineAuthorization, Dispatch, SaveRequest, DeleteRequest, Refuse,
     BadMessage, HandleBegin, HandleComplete, Execute, Include, Tick, LoadRequest, disk
<1>8. ASSUME NEW r \in Requests, WriteGenesis(r) \/ WriteWaiting(r)
      PROVE  AppendsAtMost
  BY <1>8 DEF WriteGenesis, WriteWaiting, DurableWrite, AppendsAtMost
<1>9. ASSUME NEW r \in Requests, Accept(r) \/ Simulate(r) \/ Commit(r)
      PROVE  AppendsAtMost
  BY <1>4, <1>9 DEF Accept, Simulate, Commit, AcceptRoutineDeviceResponse,
     SimulateApprovedRoutineAuthorization, CommitSimulatedRoutineAuthorization
<1>10. ASSUME NEW r \in Requests,
              Outcome(r) \/ Reconcile(r) \/ CallReconcile(r) \/ RestoreRequest(r)
       PROVE  AppendsAtMost
  BY <1>5, <1>10 DEF Outcome, Reconcile, CallReconcile, RestoreRequest
<1>11. ASSUME NEW r \in Requests,
              HandleTerminal(r) \/ ExpireSession(r) \/ Cancel(r) \/ Fail(r)
       PROVE  AppendsAtMost
  BY <1>6, <1>11 DEF HandleTerminal, ExpireSession, Cancel, Fail
<1>12. CASE Crash \/ Start \/ FinishStart \/ CommitDeletion \/ ClearRequests \/ RemoveMarker
  BY <1>2, <1>12 DEF Crash, Start, FinishStart, CommitDeletion, ClearRequests, RemoveMarker, disk
<1> QED
  BY <1>7, <1>8, <1>9, <1>10, <1>11, <1>12 DEF Next, QueueStep

\* No step forgets an operation in flight: only the deletion of the profile
\* removes frames, and its marker says that nothing is in flight.
THEOREM DeletionForgetsNothing == Spec => DeletionKeepsInFlight
<1>1. IInv /\ [Next]_vars => [\A r \in Requests : InFlight(r) => journal'[r] # <<>>]_vars
  <2> SUFFICES ASSUME IInv, Next, NEW r \in Requests, InFlight(r)
               PROVE  journal'[r] # <<>>
    OBVIOUS
  <2>1. ~deletionMarker
    BY DEF IInv, HostPhase
  <2>2. OnRecord(r) /\ journal \in [Requests -> Seq(States)]
    BY DEF InFlight, IInv, TypeOK
  <2>3. UNCHANGED journal \/ \E q \in Requests : \E n : AppendFrame(q, n)
    BY <2>1, JournalsGrow DEF AppendsAtMost, ClearJournals
  <2>4. CASE UNCHANGED journal
    BY <2>2, <2>4 DEF OnRecord
  <2>5. ASSUME NEW q \in Requests, NEW n, AppendFrame(q, n)
        PROVE  journal'[r] # <<>>
    <3>1. CASE q # r
      BY <2>2, <2>5, <3>1 DEF OnRecord, AppendFrame
    <3>2. CASE q = r
      <4>1. journal'[r] = Append(journal[r], n) /\ journal[r] \in Seq(States)
        BY <2>2, <2>5, <3>2 DEF AppendFrame
      <4> QED
        BY <4>1
    <3> QED
      BY <3>1, <3>2
  <2> QED
    BY <2>3, <2>4, <2>5
<1> QED
  BY <1>1, Invariant, PTL DEF Spec, DeletionKeepsInFlight

(***************************************************************************)
(* The promise.  An abstract request changes with its last frame, with its *)
(* submission, and when the first frame of its journal is given up.        *)
(***************************************************************************)

AbstractStatus == [r \in Requests |-> Status(r)]

\* What is on the chain was sent, and what was sent is there.
ChainFollows == \A r \in Requests : chain[r] = "none" <=> submissions[r] = 0

\* The first frame of the journal is under way.
Beginning(r) == At("save", r) \/ At("genesis", r)

\* The status that each state stands for.
LEMMA MeaningOfNumber ==
    ASSUME NEW s \in States
    PROVE  /\ s \in {1, 2, 3, 4, 5} => Meaning[s] = "open"
           /\ s \in {20, 21, 22} => Meaning[s] = "given up"
           /\ s \in {6, 7, 24, 25} => Meaning[s] = "committed"
           /\ s = 8 => Meaning[s] = "verified"
           /\ s = 9 => Meaning[s] = "completed"
           /\ s = 23 => Meaning[s] = "failed"
<1> USE DEF GivenUp, Unresolved, CANCELLED, EXPIRED, FAILED_PRE_SUBMISSION,
       SUBMISSION_COMMITTED, SUBMITTED, RECEIPT_VERIFIED, COMPLETED, FAILED_EXECUTION,
       RECEIPT_INVALID, SUBMISSION_OUTCOME_UNKNOWN
<1>2. CASE s \in {1, 2, 3, 4, 5}
  BY <1>2 DEF Meaning
<1>3. CASE s \in {20, 21, 22}
  BY <1>3 DEF Meaning
<1>4. CASE s \in {6, 7, 24, 25}
  BY <1>4 DEF Meaning
<1>5. CASE s \in {8, 9, 23}
  BY <1>5 DEF Meaning
<1> QED BY <1>2, <1>3, <1>4, <1>5 DEF States

\* The same, by the names of the states.
LEMMA Meanings ==
    /\ \A s \in GivenUp : Meaning[s] = "given up"
    /\ \A s \in Unresolved \ {RECEIPT_VERIFIED} : Meaning[s] = "committed"
    /\ Meaning[RECEIPT_VERIFIED] = "verified" /\ Meaning[COMPLETED] = "completed"
    /\ Meaning[FAILED_EXECUTION] = "failed"
    /\ Meaning[REQUEST_CREATED] = "open" /\ Meaning[TRANSPORT_WAITING] = "open"
<1> USE DEF GivenUp, Unresolved, CANCELLED, EXPIRED, FAILED_PRE_SUBMISSION,
       SUBMISSION_COMMITTED, SUBMITTED, RECEIPT_VERIFIED, COMPLETED, FAILED_EXECUTION,
       RECEIPT_INVALID, SUBMISSION_OUTCOME_UNKNOWN, REQUEST_CREATED, TRANSPORT_WAITING
<1>1. {1, 2, 6, 7, 8, 9, 20, 21, 22, 23, 24, 25} \subseteq States
  BY DEF States
<1>2. \A s \in {20, 21, 22} : Meaning[s] = "given up"
  BY <1>1, MeaningOfNumber
<1>3. \A s \in {6, 7, 24, 25} : Meaning[s] = "committed"
  BY <1>1, MeaningOfNumber
<1>4. Meaning[8] = "verified" /\ Meaning[9] = "completed" /\ Meaning[23] = "failed"
  BY <1>1, MeaningOfNumber
<1>5. Meaning[1] = "open" /\ Meaning[2] = "open"
  BY <1>1, MeaningOfNumber
<1> QED BY <1>2, <1>3, <1>4, <1>5

\* The tables of the journal keep to the order of the promise.
LEMMA MeaningAdvances ==
    ASSUME NEW s \in States, NEW n \in Transitions(s)
    PROVE  \/ Meaning[n] = Meaning[s]
           \/ Meaning[s] = "open" /\ Meaning[n] \in {"given up", "committed"}
           \/ Meaning[s] = "committed" /\ n = RECEIPT_VERIFIED /\ Meaning[n] = "verified"
           \/ Meaning[s] = "committed" /\ n = FAILED_EXECUTION /\ Meaning[n] = "failed"
           \/ Meaning[s] = "verified" /\ n = COMPLETED /\ Meaning[n] = "completed"
<1> USE DEF REQUEST_CREATED, TRANSPORT_WAITING, DEVICE_APPROVED, RESPONSE_VERIFIED,
       SIMULATION_PASSED, SUBMISSION_COMMITTED, SUBMITTED, RECEIPT_VERIFIED, COMPLETED,
       CANCELLED, EXPIRED, FAILED_PRE_SUBMISSION, FAILED_EXECUTION, RECEIPT_INVALID,
       SUBMISSION_OUTCOME_UNKNOWN, GivenUp
<1>1. s \in {1, 2, 3, 4, 5, 6, 7, 8, 25}
  BY DEF Transitions, PublicTransitions, VerifiedTransitions, States
<1>0. n \in States
  BY TransitionFacts
<1>2. CASE s \in {1, 2, 3, 4, 5}
  <2>1. n \in {2, 3, 4, 5, 6, 20, 21, 22}
    BY <1>2 DEF Transitions, PublicTransitions, VerifiedTransitions
  <2> QED BY <1>0, <1>2, <2>1, MeaningOfNumber
<1>3. CASE s \in {6, 7, 25}
  <2>1. n \in {7, 8, 23, 24, 25}
    BY <1>3 DEF Transitions, PublicTransitions, VerifiedTransitions
  <2> QED BY <1>0, <1>3, <2>1, MeaningOfNumber
<1>4. CASE s = 8
  <2>1. n = 9
    BY <1>4 DEF Transitions, PublicTransitions, VerifiedTransitions
  <2> QED BY <1>0, <1>4, <2>1, MeaningOfNumber
<1> QED BY <1>1, <1>2, <1>3, <1>4

\* The two notions of an operation in flight are the same.
LEMMA SameInFlight ==
    ASSUME IInv, NEW r \in Requests
    PROVE  Promise!InFlight(r) <=> InFlight(r)
<1>1. submissions[r] \in {0, 1} /\ SentIsCommitted(r)
  BY DEF IInv, RequestInv, SentIsCommitted
<1>2. Promise!InFlight(r) <=> submissions[r] = 1 /\ Status(r) \in {"committed", "verified"}
  BY <1>1 DEF Promise!InFlight
<1>3. ASSUME OnRecord(r), LastState(r) \in Sent
      PROVE  /\ Status(r) = Meaning[LastState(r)]
             /\ Status(r) \in {"committed", "verified"}
                    <=> LastState(r) \notin {COMPLETED, FAILED_EXECUTION}
  <2>1. Status(r) = Meaning[LastState(r)]
    BY <1>3 DEF Status
  <2>2. LastState(r) \in Unresolved \cup {COMPLETED, FAILED_EXECUTION}
    BY <1>3, NamedStates
  <2>3. Unresolved \cap {COMPLETED, FAILED_EXECUTION} = {}
    BY DEF Unresolved, SUBMISSION_COMMITTED, SUBMITTED, RECEIPT_VERIFIED, COMPLETED,
           FAILED_EXECUTION, RECEIPT_INVALID, SUBMISSION_OUTCOME_UNKNOWN
  <2>4. CASE LastState(r) \in Unresolved
    BY <2>1, <2>3, <2>4, Meanings
  <2>5. CASE LastState(r) \in {COMPLETED, FAILED_EXECUTION}
    BY <2>1, <2>5, Meanings
  <2> QED BY <2>1, <2>2, <2>4, <2>5
<1>4. ~OnRecord(r) => Status(r) \in {"open", "void"}
  BY DEF Status
<1> QED BY <1>1, <1>2, <1>3, <1>4 DEF InFlight, SentIsCommitted

\* A request keeps its status with its journal, once it was drawn, if its first
\* frame is under way as before.
LEMMA StatusStays ==
    ASSUME NEW q, journal'[q] = journal[q], q \in used' <=> q \in used,
           Beginning(q)' <=> Beginning(q)
    PROVE  Status(q)' = Status(q)
BY DEF Status, OnRecord, LastState, Beginning, At

\* A step that counts for no request.
LEMMA Stutters ==
    ASSUME \A q \in Requests : Status(q)' = Status(q), UNCHANGED <<submissions, released, chain>>
    PROVE  UNCHANGED Promise!vars
<1>1. AbstractStatus' = AbstractStatus
  BY DEF AbstractStatus
<1> QED BY <1>1 DEF Promise!vars, AbstractStatus

\* A step on record of one request.
LEMMA Recorded ==
    ASSUME NEW r \in Requests, \A q \in Requests \ {r} : Status(q)' = Status(q)
    PROVE  Promise!Record(r, Status(r), Status(r)')
<1>1. AbstractStatus' = [AbstractStatus EXCEPT ![r] = Status(r)']
  BY DEF AbstractStatus
<1>2. AbstractStatus[r] = Status(r)
  BY DEF AbstractStatus
<1> QED BY <1>1, <1>2 DEF Promise!Record, AbstractStatus

\* The initial states.
LEMMA InitKeepsPromise == Init => Promise!Init /\ ChainFollows
<1> SUFFICES ASSUME Init PROVE Promise!Init /\ ChainFollows
  OBVIOUS
<1>1. \A r \in Requests : Status(r) = "open" /\ submissions[r] = 0 /\ chain[r] = "none"
  BY DEF Init, NoFrames, Status, OnRecord, LastState, At
<1>2. AbstractStatus = [r \in Requests |-> "open"]
  BY <1>1 DEF AbstractStatus
<1> QED BY <1>1, <1>2 DEF Init, Promise!Init, ChainFollows, AbstractStatus

\* An action of the coordinator gives up, commits or settles its request, or
\* tells somebody that it was given up, or does nothing that counts.
LEMMA CoordinatorRefines ==
    ASSUME IInv, NEW r \in Requests, CoordinatorActs(r)
    PROVE  [Promise!Next]_(Promise!vars)
<1>0. /\ TypeOK /\ RequestInv(r) /\ QueueRelies /\ HostPhase /\ RequestInv(r)'
  BY AfterCoordinator DEF IInv
<1>1. /\ entry[r] # Null /\ ~deletionMarker /\ CoordinatorStep(r)
      /\ UNCHANGED <<used, submissions, chain>>
  BY <1>0 DEF CoordinatorActs, HostPhase, world
<1>2. \A q \in Requests : Beginning(q)' <=> Beginning(q)
  <2>1. CASE queue' = queue
    BY <2>1 DEF Beginning, At
  <2>2. CASE queue # Idle /\ queue.req = r
    <3>1. queue.step \notin {"save", "genesis"}
      BY <1>0, <1>1, <2>2 DEF QueueRelies
    <3>2. queue'.step \notin {"save", "genesis"}
      BY <2>2, <3>1 DEF CoordinatorActs, GoTo, Idle
    <3> QED BY <3>1, <3>2 DEF Beginning, At
  <2> QED BY <2>1, <2>2 DEF CoordinatorActs
<1>3. journal \in [Requests -> Seq(States)] /\ \A q \in Requests \ {r} : journal'[q] = journal[q]
  BY <1>0, <1>1 DEF TypeOK, CoordinatorStep, Advances, AppendFrame
<1>4. \A q \in Requests \ {r} : Status(q)' = Status(q)
  BY <1>1, <1>2, <1>3, StatusStays
<1>5. OnRecord(r) /\ LastState(r) \in States /\ Status(r) = Meaning[LastState(r)]
  BY <1>0, <1>1, MemoryBehind DEF RequestInv, Status, OnRecord, LastState, At
<1>6. /\ OnRecord(r)'
      /\ LastState(r)' = LastState(r) \/ LastState(r)' \in Transitions(LastState(r))
  <2>1. CASE UNCHANGED <<journal, entry>>
    BY <1>5, <2>1 DEF OnRecord, LastState
  <2>2. ASSUME NEW next, Advances(r, next)
        PROVE  OnRecord(r)' /\ LastState(r)' \in Transitions(LastState(r))
    BY <1>0, <1>1, <2>2, AdvancedRequest DEF OnRecord, LastState
  <2> QED BY <1>1, <2>1, <2>2 DEF CoordinatorStep
<1>7. Status(r)' = Meaning[LastState(r)']
  BY <1>6 DEF Status, OnRecord, LastState, At
<1>8. Promise!Record(r, Status(r), Status(r)')
  BY <1>1, <1>4, Recorded
<1>9. \/ Status(r)' = Status(r)
      \/ Status(r) = "open" /\ Status(r)' \in {"given up", "committed"}
      \/ Status(r) = "committed" /\ LastState(r)' = RECEIPT_VERIFIED /\ Status(r)' = "verified"
      \/ Status(r) = "committed" /\ LastState(r)' = FAILED_EXECUTION /\ Status(r)' = "failed"
      \/ Status(r) = "verified" /\ LastState(r)' = COMPLETED /\ Status(r)' = "completed"
  BY <1>5, <1>6, <1>7, MeaningAdvances
<1>10. /\ LastState(r)' \in {RECEIPT_VERIFIED, COMPLETED} => chain[r] = "success"
       /\ LastState(r)' = FAILED_EXECUTION => chain[r] = "failure"
  BY <1>0, <1>1, <1>6 DEF RequestInv, OutcomeTrue
<1>11. ASSUME Status(r) \in {"open", "given up"}, Status(r)' = "given up",
              released' \in {released, released \cup {r}}
       PROVE  Promise!GiveUp(r)
  BY <1>1, <1>8, <1>11 DEF Promise!GiveUp
<1>12. CASE released' = released
  <2>1. CASE Status(r)' = Status(r)
    <3>1. \A q \in Requests : Status(q)' = Status(q)
      BY <1>4, <2>1
    <3> QED BY <1>1, <1>12, <3>1, Stutters
  <2>2. CASE Status(r) = "open" /\ Status(r)' = "given up"
    BY <1>11, <1>12, <2>2 DEF Promise!Next
  <2>3. CASE Status(r) = "open" /\ Status(r)' = "committed"
    <3>1. Promise!Commit(r)
      BY <1>1, <1>8, <1>12, <2>3 DEF Promise!Commit
    <3> QED BY <3>1 DEF Promise!Next
  <2>4. CASE \/ Status(r) = "committed" /\ LastState(r)' = RECEIPT_VERIFIED /\ Status(r)' = "verified"
             \/ Status(r) = "committed" /\ LastState(r)' = FAILED_EXECUTION /\ Status(r)' = "failed"
             \/ Status(r) = "verified" /\ LastState(r)' = COMPLETED /\ Status(r)' = "completed"
    <3>1. Promise!Settle(r)
      BY <1>1, <1>8, <1>10, <1>12, <2>4 DEF Promise!Settle
    <3> QED BY <3>1 DEF Promise!Next
  <2> QED BY <1>9, <2>1, <2>2, <2>3, <2>4
<1>13. CASE released' = released \cup {r} /\ OnRecord(r)' /\ LastState(r)' \in GivenUp
  <2>1. Status(r)' = "given up"
    BY <1>7, <1>13, Meanings
  <2>2. Status(r) \in {"open", "given up"}
    BY <1>9, <2>1
  <2> QED BY <1>11, <1>13, <2>1, <2>2 DEF Promise!Next
<1> QED BY <1>12, <1>13 DEF CoordinatorActs

\* A step of begin leaves a request open, or abandons it before its journal
\* has a frame.
LEMMA BeginRefines ==
    ASSUME IInv, NEW r \in Requests,
           \/ BeginRoutineAuthorization(r) \/ SaveRequest(r) \/ WriteGenesis(r)
           \/ WriteWaiting(r) \/ DeleteRequest(r)
    PROVE  [Promise!Next]_(Promise!vars)
<1>0. TypeOK /\ QueueRelies /\ (\A q \in Requests : Durable(q))
      /\ journal \in [Requests -> Seq(States)]
  BY DEF IInv, RequestInv, TypeOK
<1>1. /\ UNCHANGED <<submissions, released, chain>>
      /\ \A q \in Requests \ {r} : q \in used' <=> q \in used
      /\ r \in used'
  <2>1. CASE BeginRoutineAuthorization(r)
    BY <2>1 DEF BeginRoutineAuthorization, world
  <2>2. CASE SaveRequest(r) \/ WriteGenesis(r) \/ WriteWaiting(r) \/ DeleteRequest(r)
    <3>1. UNCHANGED <<used, submissions, released, chain>> /\ queue # Idle /\ queue.req = r
      BY <2>2 DEF SaveRequest, WriteGenesis, WriteWaiting, DeleteRequest, world, history, At, Idle
    <3> QED BY <1>0, <3>1 DEF QueueRelies
  <2> QED BY <2>1, <2>2
<1>2. \A q \in Requests \ {r} : ~Beginning(q) /\ ~Beginning(q)'
  BY DEF BeginRoutineAuthorization, SaveRequest, WriteGenesis, WriteWaiting, DeleteRequest,
         Beginning, At, GoTo, Idle
<1>3. \A q \in Requests \ {r} : journal'[q] = journal[q]
  BY <1>0 DEF BeginRoutineAuthorization, SaveRequest, WriteGenesis, WriteWaiting, DeleteRequest,
         DurableWrite, AppendFrame, disk
<1>4. \A q \in Requests \ {r} : Status(q)' = Status(q)
  BY <1>1, <1>2, <1>3, StatusStays
<1>5. Meaning[REQUEST_CREATED] = "open" /\ Meaning[TRANSPORT_WAITING] = "open"
  BY Meanings
<1>6. Status(r)' = Status(r) \/ (Status(r) = "open" /\ Status(r)' = "void")
  <2>1. CASE BeginRoutineAuthorization(r)
    <3>1. ~OnRecord(r) /\ ~OnRecord(r)' /\ r \notin used
      BY <1>0, <2>1 DEF BeginRoutineAuthorization, Durable, OnRecord, disk
    <3>2. At("save", r)'
      BY <2>1 DEF BeginRoutineAuthorization, GoTo, At
    <3> QED BY <3>1, <3>2 DEF Status, OnRecord, LastState, At
  <2>2. CASE SaveRequest(r)
    <3>1. ~OnRecord(r) /\ ~OnRecord(r)' /\ At("save", r)
      BY <1>0, <2>2 DEF SaveRequest, QueueRelies, At, Idle, OnRecord
    <3> QED BY <3>1 DEF Status, OnRecord, LastState, At
  <2>3. CASE WriteGenesis(r)
    <3>1. journal[r] = <<>> /\ At("genesis", r)
      BY <1>0, <2>3 DEF WriteGenesis, QueueRelies, At, Idle
    <3>2. Status(r) = "open"
      BY <3>1 DEF Status, OnRecord, LastState, At
    <3>3. CASE UNCHANGED journal
      BY <3>1, <3>2, <3>3 DEF Status, OnRecord, LastState, At
    <3>4. CASE AppendFrame(r, REQUEST_CREATED)
      <4>1. journal'[r] = <<REQUEST_CREATED>>
        BY <1>0, <3>1, <3>4, NamedStates DEF AppendFrame
      <4>2. OnRecord(r)' /\ LastState(r)' = REQUEST_CREATED
        BY <4>1 DEF OnRecord, LastState
      <4> QED BY <1>5, <3>2, <4>2 DEF Status, OnRecord, LastState, At
    <3> QED BY <2>3, <3>3, <3>4 DEF WriteGenesis, DurableWrite
  <2>4. CASE WriteWaiting(r)
    <3>1. journal[r] = <<REQUEST_CREATED>>
      BY <1>0, <2>4 DEF WriteWaiting, QueueRelies, At, Idle
    <3>2. OnRecord(r) /\ LastState(r) = REQUEST_CREATED
      BY <3>1 DEF OnRecord, LastState
    <3>3. Status(r) = "open"
      BY <1>5, <3>2 DEF Status, OnRecord, LastState, At
    <3>4. CASE UNCHANGED journal
      <4>1. OnRecord(r)' /\ LastState(r)' = LastState(r)
        BY <3>2, <3>4 DEF OnRecord, LastState
      <4> QED BY <1>5, <3>2, <3>3, <4>1 DEF Status, OnRecord, LastState, At
    <3>5. CASE AppendFrame(r, TRANSPORT_WAITING)
      <4>1. journal'[r] = <<REQUEST_CREATED, TRANSPORT_WAITING>>
        BY <1>0, <3>1, <3>5, NamedStates, TwoFrames DEF AppendFrame
      <4>2. OnRecord(r)' /\ LastState(r)' = TRANSPORT_WAITING
        BY <4>1 DEF OnRecord, LastState
      <4> QED BY <1>5, <3>3, <4>2 DEF Status, OnRecord, LastState, At
    <3> QED BY <2>4, <3>4, <3>5 DEF WriteWaiting, DurableWrite
  <2>5. CASE DeleteRequest(r)
    <3>1. UNCHANGED <<journal, used>> /\ ~Beginning(r) /\ ~Beginning(r)'
      BY <2>5 DEF DeleteRequest, Beginning, At, Idle, history
    <3> QED BY <3>1, StatusStays
  <2> QED BY <2>1, <2>2, <2>3, <2>4, <2>5
<1>7. CASE Status(r)' = Status(r)
  <2>1. \A q \in Requests : Status(q)' = Status(q)
    BY <1>4, <1>7
  <2> QED BY <1>1, <2>1, Stutters
<1>8. CASE Status(r) = "open" /\ Status(r)' = "void"
  <2>1. Promise!Record(r, Status(r), Status(r)')
    BY <1>1, <1>4, Recorded
  <2>2. Promise!Abandon(r)
    BY <1>1, <1>8, <2>1 DEF Promise!Abandon
  <2> QED BY <2>2 DEF Promise!Next
<1> QED BY <1>6, <1>7, <1>8

\* What execute() sends is on record as committed, was not sent before, and
\* no other operation is in flight.
LEMMA ExecuteRefines ==
    ASSUME IInv, ChainFollows, NEW r \in Requests, Execute(r)
    PROVE  [Promise!Next]_(Promise!vars) /\ ChainFollows'
<1>0. /\ TypeOK /\ QueueRelies /\ OneActive /\ RequestInv(r) /\ HostPhase
      /\ submissions \in [Requests -> Nat]
      /\ chain \in [Requests -> {"none", "pending", "success", "failure"}]
  BY DEF IInv, TypeOK
<1>1. /\ queue # Idle /\ queue.req = r /\ queue.step = "execute"
      /\ queue'.step = "outcome" /\ UNCHANGED <<journal, used, released>>
  BY DEF Execute, At, GoTo, Idle, disk
<1>2. /\ host = "up" /\ entry[r] # Null /\ submissions[r] = 0 /\ r \in used
      /\ entry[r].state = SUBMISSION_COMMITTED /\ Len(journal[r]) = entry[r].generation
  BY <1>0, <1>1 DEF QueueRelies
<1>3. OnRecord(r) /\ LastState(r) = SUBMISSION_COMMITTED
  <2>1. ~deletionMarker
    BY <1>0, <1>2 DEF HostPhase
  <2> QED BY <1>0, <1>2, <2>1, MemoryBehind DEF RequestInv, Durable, LastState
<1>4. Status(r) = "committed"
  <2>1. SUBMISSION_COMMITTED \in Unresolved \ {RECEIPT_VERIFIED}
    BY DEF Unresolved, SUBMISSION_COMMITTED, RECEIPT_VERIFIED
  <2> QED BY <1>3, <2>1, Meanings DEF Status, OnRecord, LastState, At
<1>5. \A q \in Requests : ~Promise!InFlight(q)
  <2> SUFFICES ASSUME NEW q \in Requests, InFlight(q) PROVE FALSE
    BY SameInFlight
  <2>1. q = r
    BY <1>0, <1>1 DEF OneActive, Active
  <2> QED BY <1>2, <2>1 DEF InFlight
<1>6. \A q \in Requests : Status(q)' = Status(q)
  <2>1. \A q \in Requests : ~Beginning(q) /\ ~Beginning(q)'
    BY <1>1 DEF Beginning, At
  <2> QED BY <1>1, <2>1, StatusStays
<1>7. CASE UNCHANGED <<chain, submissions>>
  BY <1>1, <1>6, <1>7, Stutters DEF ChainFollows
<1>8. CASE /\ chain' = [chain EXCEPT ![r] = IF @ = "none" THEN "pending" ELSE @]
           /\ submissions' = [submissions EXCEPT ![r] = @ + 1]
  <2>1. chain' = [chain EXCEPT ![r] = "pending"]
    BY <1>2, <1>8 DEF ChainFollows
  <2>2. submissions' = [submissions EXCEPT ![r] = 1]
    BY <1>2, <1>8
  <2>3. AbstractStatus' = AbstractStatus /\ AbstractStatus[r] = "committed"
    BY <1>4, <1>6 DEF AbstractStatus
  <2>4. Promise!Send(r)
    BY <1>1, <1>2, <1>5, <2>1, <2>2, <2>3 DEF Promise!Send, AbstractStatus
  <2>5. ChainFollows'
    BY <1>0, <2>1, <2>2 DEF ChainFollows
  <2> QED BY <2>4, <2>5 DEF Promise!Next
<1> QED BY <1>7, <1>8 DEF Execute

\* A process that ends while the first frame of a journal is under way
\* abandons that request and no other.
LEMMA CrashRefines ==
    ASSUME IInv, Crash
    PROVE  [Promise!Next]_(Promise!vars)
<1>0. TypeOK /\ QueueRelies
  BY DEF IInv
<1>1. /\ UNCHANGED <<journal, used, submissions, released, chain>>
      /\ \A q \in Requests : ~Beginning(q)'
  BY DEF Crash, MemoryLost, disk, world, history, Beginning, At, Idle
<1>2. CASE \A q \in Requests : ~Beginning(q)
  <2>1. \A q \in Requests : Status(q)' = Status(q)
    BY <1>1, <1>2, StatusStays
  <2> QED BY <1>1, <2>1, Stutters
<1>3. ASSUME NEW r \in Requests, Beginning(r)
      PROVE  [Promise!Next]_(Promise!vars)
  <2>1. queue # Idle /\ queue.req = r /\ queue.step \in {"save", "genesis"}
    BY <1>3 DEF Beginning, At, Idle
  <2>2. journal[r] = <<>> /\ r \in used
    BY <1>0, <2>1 DEF QueueRelies
  <2>3. \A q \in Requests \ {r} : ~Beginning(q)
    BY <2>1 DEF Beginning, At
  <2>4. \A q \in Requests \ {r} : Status(q)' = Status(q)
    BY <1>1, <2>3, StatusStays
  <2>5. Status(r) = "open" /\ Status(r)' = "void"
    BY <1>1, <1>3, <2>2 DEF Status, OnRecord, Beginning, LastState, At
  <2>6. Promise!Record(r, Status(r), Status(r)')
    BY <1>1, <2>4, Recorded
  <2>7. Promise!Abandon(r)
    BY <1>1, <2>5, <2>6 DEF Promise!Abandon
  <2> QED BY <2>7 DEF Promise!Next
<1> QED BY <1>2, <1>3

\* Clearing the journals forgets every record, while nothing is in flight.
LEMMA ClearRefines ==
    ASSUME IInv, ClearJournals
    PROVE  [Promise!Next]_(Promise!vars)
<1>0. (\A q \in Requests : Durable(q)) /\ HostPhase /\ deletionMarker
  BY DEF IInv, RequestInv, ClearJournals
<1>1. \A q \in Requests : ~Promise!InFlight(q)
  BY <1>0, SameInFlight DEF HostPhase
<1>2. queue = Idle /\ queue' = Idle
  BY <1>0, NotUp DEF HostPhase, ClearJournals, memory
<1>3. \A q \in Requests : ~Beginning(q) /\ ~Beginning(q)'
  BY <1>2 DEF Beginning, At, Idle
<1>4. UNCHANGED <<used, submissions, released, chain>> /\ \A q \in Requests : journal'[q] = <<>>
  BY DEF ClearJournals, NoFrames, world, history
<1> DEFINE gone == {q \in Requests : OnRecord(q)}
<1>5. \A q \in Requests : Status(q)' = IF q \in gone THEN "void" ELSE Status(q)
  <2> SUFFICES ASSUME NEW q \in Requests
               PROVE  Status(q)' = IF q \in gone THEN "void" ELSE Status(q)
    OBVIOUS
  <2>1. CASE OnRecord(q)
    <3>1. q \in used
      BY <1>0, <2>1 DEF Durable, OnRecord
    <3> QED BY <1>3, <1>4, <2>1, <3>1 DEF Status, OnRecord, Beginning, LastState, At
  <2>2. CASE ~OnRecord(q)
    BY <1>3, <1>4, <2>2 DEF Status, OnRecord, Beginning, LastState, At
  <2> QED BY <2>1, <2>2
<1>6. /\ AbstractStatus' = [q \in Requests |-> IF q \in gone THEN "void" ELSE AbstractStatus[q]]
      /\ gone \in SUBSET Requests
  BY <1>4, <1>5 DEF AbstractStatus
<1>7. Promise!Forget
  <2> HIDE DEF gone
  <2> QED BY <1>1, <1>4, <1>6 DEF Promise!Forget, AbstractStatus
<1> QED BY <1>7 DEF Promise!Next

\* The other steps count for no request, or are steps of the chain.
LEMMA OtherRefines ==
    ASSUME IInv,
           \/ \E r \in Requests : \/ Dispatch(r) \/ HandleBegin(r) \/ HandleComplete(r)
                                  \/ Tick(r) \/ LoadRequest(r)
           \/ Start \/ FinishStart \/ CommitDeletion \/ ClearRequests \/ RemoveMarker
           \/ UNCHANGED vars
    PROVE  UNCHANGED Promise!vars /\ UNCHANGED <<chain, submissions>>
<1>1. UNCHANGED <<journal, used, submissions, released, chain>>
  BY DEF Dispatch, HandleBegin, HandleComplete, Tick, LoadRequest, Start, FinishStart,
         CommitDeletion, ClearRequests, RemoveMarker, vars, disk, world, history
<1>2. \A q \in Requests : Beginning(q)' <=> Beginning(q)
  <2>1. CASE \E r \in Requests : Dispatch(r) \/ HandleBegin(r) \/ HandleComplete(r)
    BY <2>1 DEF Dispatch, HandleBegin, HandleComplete, Beginning, At, GoTo, Idle
  <2>2. CASE RemoveMarker
    <3>1. queue = Idle /\ queue' = Idle
      BY <2>2, NotUp DEF RemoveMarker, MemoryLost, IInv, HostPhase
    <3> QED BY <3>1 DEF Beginning, At
  <2>3. CASE UNCHANGED queue
    BY <2>3 DEF Beginning, At
  <2> QED BY <2>1, <2>2, <2>3 DEF Tick, LoadRequest, Start, FinishStart, CommitDeletion,
              ClearRequests, vars, memory
<1>3. \A q \in Requests : Status(q)' = Status(q)
  BY <1>1, <1>2, StatusStays
<1> QED BY <1>1, <1>3, Stutters

\* Inclusion on the chain is the same in both.
LEMMA IncludeRefines ==
    ASSUME IInv, ChainFollows, NEW r \in Requests, Include(r)
    PROVE  [Promise!Next]_(Promise!vars) /\ ChainFollows'
<1>1. UNCHANGED <<journal, used, submissions, released, queue>>
  BY DEF Include, disk, memory, history
<1>2. \A q \in Requests : Status(q)' = Status(q)
  BY <1>1, StatusStays DEF Beginning, At
<1>3. AbstractStatus' = AbstractStatus
  BY <1>1, <1>2 DEF AbstractStatus
<1>4. Promise!Include(r)
  BY <1>1, <1>3 DEF Include, Promise!Include, AbstractStatus
<1>5. ChainFollows'
  BY <1>1 DEF Include, ChainFollows, IInv, TypeOK
<1> QED BY <1>4, <1>5 DEF Promise!Next

\* Every step is a step of the promise or counts for nothing.
LEMMA NextKeepsPromise ==
    ASSUME IInv, ChainFollows, [Next]_vars
    PROVE  [Promise!Next]_(Promise!vars) /\ ChainFollows'
<1>0. UNCHANGED <<chain, submissions>> => ChainFollows'
  BY DEF ChainFollows
<1>1. ASSUME NEW r \in Requests,
             \/ BeginRoutineAuthorization(r) \/ SaveRequest(r) \/ WriteGenesis(r)
             \/ WriteWaiting(r) \/ DeleteRequest(r)
      PROVE  [Promise!Next]_(Promise!vars) /\ ChainFollows'
  BY <1>0, <1>1, BeginRefines DEF BeginRoutineAuthorization, SaveRequest, WriteGenesis,
     WriteWaiting, DeleteRequest, world, history
<1>2. ASSUME NEW r \in Requests, CoordinatorActs(r)
      PROVE  [Promise!Next]_(Promise!vars) /\ ChainFollows'
  BY <1>0, <1>2, CoordinatorRefines DEF CoordinatorActs, world
<1>3. ASSUME NEW r \in Requests,
             \/ HandleTerminal(r) \/ ExpireSession(r) \/ Cancel(r)
             \/ Refuse(r) \/ BadMessage(r) \/ Accept(r) \/ Simulate(r) \/ Commit(r)
             \/ Outcome(r) \/ Reconcile(r) \/ Fail(r) \/ CallReconcile(r) \/ RestoreRequest(r)
      PROVE  [Promise!Next]_(Promise!vars) /\ ChainFollows'
  BY <1>2, <1>3, ReleasingSteps, CoordinatorSteps
<1>4. ASSUME NEW r \in Requests, Execute(r) \/ Include(r)
      PROVE  [Promise!Next]_(Promise!vars) /\ ChainFollows'
  BY <1>4, ExecuteRefines, IncludeRefines
<1>5. CASE Crash \/ ClearJournals
  BY <1>0, <1>5, CrashRefines, ClearRefines DEF Crash, ClearJournals, world, history
<1>6. CASE \/ \E r \in Requests : \/ Dispatch(r) \/ HandleBegin(r) \/ HandleComplete(r)
                                  \/ Tick(r) \/ LoadRequest(r)
           \/ Start \/ FinishStart \/ CommitDeletion \/ ClearRequests \/ RemoveMarker
           \/ UNCHANGED vars
  BY <1>0, <1>6, OtherRefines
<1> QED BY <1>1, <1>3, <1>4, <1>5, <1>6 DEF Next, QueueStep

\* Whatever fails and wherever the process ends, every request is given up or
\* committed once, sent at most once after that, settled as the chain shows
\* and forgotten only while nothing is in flight: journal, memory, host and
\* restart implement the promise, for any number of requests.
THEOREM Refinement == Spec => KeepsPromise
<1>1. Spec => []ChainFollows
  BY InitKeepsPromise, NextKeepsPromise, Invariant, PTL DEF Spec
<1> QED BY <1>1, InitKeepsPromise, NextKeepsPromise, Invariant, PTL
        DEF Spec, KeepsPromise, Promise!Spec

=============================================================================
