-------------------- MODULE RoutineAuthorizationJournal --------------------
(***************************************************************************)
(* routineAuthorizationJournalV1.ts: the chain of journal records of each  *)
(* routine request, the compare-and-swap host that publishes a record only *)
(* after it was flushed, and the coordinator that walks a request from     *)
(* creation to its outcome.                                                *)
(*                                                                         *)
(* A record is its state: hashes, evidence and identities are what the     *)
(* code verifies, and are taken to be unforgeable. The coordinator reads   *)
(* the clock only to compare it with the expiry of the request. Its        *)
(* in-memory response and simulation are left out: an entry is in state 4  *)
(* or 5 only in the process that stored them. The clock does not run       *)
(* backwards (a record older than its predecessor is refused).             *)
(***************************************************************************)
EXTENDS Naturals, Sequences

CONSTANTS
    Requests,     \* requestId values
    Null,
    FlushFaults   \* how a flush may fail: subset of {"lost", "torn"}

ASSUME JournalAssumption ==
    /\ FlushFaults \subseteq {"lost", "torn"}
    /\ Null \notin Requests
    /\ Null \notin [generation : Nat, state : Nat]

VARIABLES
    journal,   \* frames on disk, per request, as the sequence of their states
    entry,     \* current record in memory: the coordinator's #entries
    clock      \* where #now() stands against the expiresAt of the request

REQUEST_CREATED == 1
TRANSPORT_WAITING == 2
DEVICE_APPROVED == 3
RESPONSE_VERIFIED == 4
SIMULATION_PASSED == 5
SUBMISSION_COMMITTED == 6
SUBMITTED == 7
RECEIPT_VERIFIED == 8
COMPLETED == 9
CANCELLED == 20
EXPIRED == 21
FAILED_PRE_SUBMISSION == 22
FAILED_EXECUTION == 23
RECEIPT_INVALID == 24
SUBMISSION_OUTCOME_UNKNOWN == 25

States == 1..9 \cup 20..25
Committed(state) == state >= SUBMISSION_COMMITTED
GivenUp == {CANCELLED, EXPIRED, FAILED_PRE_SUBMISSION}
Reconcilable == {SUBMISSION_COMMITTED, SUBMITTED, RECEIPT_VERIFIED,
                 SUBMISSION_OUTCOME_UNKNOWN}

\* The two transition tables: what a caller may publish, and what only a
\* verified outcome may.
PublicTransitions(state) ==
    CASE state = REQUEST_CREATED -> {TRANSPORT_WAITING} \cup GivenUp
      [] state = TRANSPORT_WAITING -> {DEVICE_APPROVED, RESPONSE_VERIFIED} \cup GivenUp
      [] state = DEVICE_APPROVED -> {RESPONSE_VERIFIED} \cup GivenUp
      [] state = RESPONSE_VERIFIED -> {SIMULATION_PASSED} \cup GivenUp
      [] state = SIMULATION_PASSED -> {SUBMISSION_COMMITTED} \cup GivenUp
      [] state = SUBMISSION_COMMITTED -> {SUBMITTED, SUBMISSION_OUTCOME_UNKNOWN}
      [] state = SUBMITTED -> {SUBMISSION_OUTCOME_UNKNOWN}
      [] OTHER -> {}

VerifiedTransitions(state) ==
    CASE state = SUBMISSION_COMMITTED ->
           {RECEIPT_VERIFIED, FAILED_EXECUTION, SUBMISSION_OUTCOME_UNKNOWN}
      [] state = SUBMITTED ->
           {RECEIPT_VERIFIED, FAILED_EXECUTION, RECEIPT_INVALID, SUBMISSION_OUTCOME_UNKNOWN}
      [] state = RECEIPT_VERIFIED -> {COMPLETED}
      [] state = SUBMISSION_OUTCOME_UNKNOWN -> {RECEIPT_VERIFIED, FAILED_EXECUTION}
      [] OTHER -> {}

\* validatePhilRoutineJournalChainV1: the chains a restore accepts.
ValidChain(states) ==
    /\ states # <<>>
    /\ states[1] = REQUEST_CREATED
    /\ \A i \in 1..Len(states) - 1 :
          states[i + 1] \in PublicTransitions(states[i]) \cup VerifiedTransitions(states[i])

(***************************************************************************)
(* Publication. journalStore.append refuses a generation that is already   *)
(* on disk. A flush may fail before the rename, and nothing happened, or   *)
(* after it: the frame is on disk and the caller sees an error.            *)
(***************************************************************************)
AppendPossible(r, next, allowed) ==
    next \in allowed /\ Len(journal[r]) = entry[r].generation

AppendFrame(r, next) == journal' = [journal EXCEPT ![r] = Append(@, next)]

PublishBeforeFlush(r, next, allowed, done) ==
    /\ next \in allowed
    /\ entry' = [entry EXCEPT ![r] = [generation |-> @.generation + 1, state |-> next]]
    /\ done => AppendPossible(r, next, allowed) /\ AppendFrame(r, next)
    /\ ~done => UNCHANGED journal
Publish(r, next, allowed, done) ==
    \/ /\ done
       /\ AppendPossible(r, next, allowed)
       /\ AppendFrame(r, next)
       /\ entry' = [entry EXCEPT ![r] = [generation |-> @.generation + 1, state |-> next]]
    \/ /\ ~done
       /\ UNCHANGED entry
       /\ \/ /\ "lost" \in FlushFaults \/ ~AppendPossible(r, next, allowed)
             /\ UNCHANGED journal
          \/ /\ "torn" \in FlushFaults
             /\ AppendPossible(r, next, allowed)
             /\ AppendFrame(r, next)

CompareAndSwap(r, next, done) ==
    Publish(r, next, PublicTransitions(entry[r].state), done)

PublishVerifiedOutcome(r, next, done) ==
    Publish(r, next, VerifiedTransitions(entry[r].state), done)

(***************************************************************************)
(* The coordinator, one operator per method; "done" says that the method   *)
(* returned and did not throw. Each holds the lock of its request, so it   *)
(* is one step, except that execution is separate from the commit.         *)
(***************************************************************************)

\* cancelRoutineAuthorization, when its answer is "cancelled".
CancelRoutineAuthorization(r, done) ==
    \/ /\ entry[r].state = CANCELLED
       /\ done
       /\ UNCHANGED <<journal, entry>>
    \/ /\ ~Committed(entry[r].state)
       /\ CompareAndSwap(r, CANCELLED, done)

\* rejectRoutineAuthorization, when its answer is "rejected".
RejectRoutineAuthorization(r, done) ==
    /\ entry[r].state = TRANSPORT_WAITING
    /\ clock[r] = "before"
    /\ CompareAndSwap(r, CANCELLED, done)

\* expireRoutineAuthorization, when its answer is "expired".
ExpireRoutineAuthorization(r, done) ==
    \/ /\ entry[r].state = EXPIRED
       /\ done
       /\ UNCHANGED <<journal, entry>>
    \/ /\ ~Committed(entry[r].state)
       /\ clock[r] # "before"
       /\ CompareAndSwap(r, EXPIRED, done)

FailRoutineTransport(r, done) ==
    \/ /\ Committed(entry[r].state)
       /\ done
       /\ UNCHANGED <<journal, entry>>
    \/ /\ ~Committed(entry[r].state)
       /\ CompareAndSwap(r, FAILED_PRE_SUBMISSION, done)

\* #assertTrustedPreSubmission that throws: drift, a locked desktop or a
\* replaced iPhone session ends the request, and so does the clock.
AssertTrustedPreSubmissionThrows(r) ==
    \/ \E done \in BOOLEAN : CompareAndSwap(r, FAILED_PRE_SUBMISSION, done)
    \/ /\ clock[r] = "after"
       /\ \E done \in BOOLEAN : CompareAndSwap(r, EXPIRED, done)

\* A method that needs one state, checks the trusted state and publishes the
\* next. It throws without a trace when its input is refused or when the
\* state is another one.
Advance(r, from, to, done) ==
    \/ /\ done
       /\ entry[r].state = from
       /\ clock[r] # "after"
       /\ CompareAndSwap(r, to, TRUE)
    \/ /\ ~done
       /\ \/ UNCHANGED <<journal, entry>>
          \/ /\ entry[r].state = from
             /\ \/ AssertTrustedPreSubmissionThrows(r)
                \/ CompareAndSwap(r, to, FALSE)

AcceptRoutineDeviceResponse(r, done) ==
    Advance(r, TRANSPORT_WAITING, RESPONSE_VERIFIED, done)

SimulateApprovedRoutineAuthorization(r, done) ==
    Advance(r, RESPONSE_VERIFIED, SIMULATION_PASSED, done)

\* The first half of commitAndExecuteSimulatedRoutineAuthorization. A second
\* simulation that differs from the first ends the request like a drift.
CommitSimulatedRoutineAuthorization(r, done) ==
    Advance(r, SIMULATION_PASSED, SUBMISSION_COMMITTED, done)

\* #applyOutcome on the outcome the chain shows; a receipt that does not
\* verify is thrown back and leaves the record as it is (state 7, where it
\* would become RECEIPT_INVALID, is never published by this coordinator).
NextOnSuccess(state) ==
    IF state = RECEIPT_VERIFIED THEN COMPLETED ELSE RECEIPT_VERIFIED

ApplyAnyOutcome(r, outcome, done) ==
    \/ outcome # "failure"
       /\ PublishVerifiedOutcome(r, NextOnSuccess(entry[r].state), done)
    \/ outcome = "failure"
       /\ PublishVerifiedOutcome(r, FAILED_EXECUTION, done)
    \/ ~done /\ UNCHANGED <<journal, entry>>
ApplyOutcome(r, outcome, done) ==
    \/ outcome = "success"
       /\ PublishVerifiedOutcome(r, NextOnSuccess(entry[r].state), done)
    \/ outcome = "failure"
       /\ PublishVerifiedOutcome(r, FAILED_EXECUTION, done)
    \/ ~done /\ UNCHANGED <<journal, entry>>

\* The rest of commitAndExecute...: what execute() returned, or that it threw.
ApplyExecution(r, outcome, done) ==
    \/ ApplyOutcome(r, outcome, done)
    \/ /\ ~done
       /\ \E flushed \in BOOLEAN :
             CompareAndSwap(r, SUBMISSION_OUTCOME_UNKNOWN, flushed)

\* reconcileRoutineAuthorization. "scan" is what the search of the chain found:
\* the outcome, nothing it can rely on, or an error of its own.
ReconcileRoutineAuthorization(r, scan, done) ==
    LET state == entry[r].state IN
    \/ /\ state \in REQUEST_CREATED..SIMULATION_PASSED
       /\ CompareAndSwap(r, FAILED_PRE_SUBMISSION, done)
    \/ /\ state \in Reconcilable
       /\ scan # "unknown"
       /\ ApplyOutcome(r, scan, done)
    \/ /\ state \in Reconcilable \ {SUBMISSION_OUTCOME_UNKNOWN}
       /\ scan = "unknown"
       /\ PublishVerifiedOutcome(r, SUBMISSION_OUTCOME_UNKNOWN, done)
    \/ /\ \/ state \in {COMPLETED, FAILED_EXECUTION, RECEIPT_INVALID} \cup GivenUp
          \/ state = SUBMISSION_OUTCOME_UNKNOWN /\ scan = "unknown"
       /\ done
       /\ UNCHANGED <<journal, entry>>
=============================================================================
