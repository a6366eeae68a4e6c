------------------------ MODULE RoutineAuthorization ------------------------
(***************************************************************************)
(* routine-authorization-host.cjs with its protected stores, the product   *)
(* host that starts it, and the local chain: one desktop process that may  *)
(* stop at any moment and be started again.                                *)
(*                                                                         *)
(* begin, status, cancel and every HTTP message of the phone run one after *)
(* the other in the host's exclusive queue; reconcileRoutineAuthorization  *)
(* does not, and only shares the lock of the request with them. Each       *)
(* action makes at most one write, so that a crash can fall between any    *)
(* two. A requestId is random and used once. A message that arrives while  *)
(* requests are restored waits for their locks and finds an ended session. *)
(*                                                                         *)
(* Left out: keys, ciphers and message formats (a message is good, bad or  *)
(* out of order), the display fingerprint, the enrollment of devices, and  *)
(* the temporary file of a write that was killed: every later start then   *)
(* fails, as it does after the crash in StoredRequestsRestore.             *)
(***************************************************************************)
EXTENDS RoutineAuthorizationJournal

CONSTANT
    OpenReconcile   \* whether anyone calls the host's reconcile method: no product code does

ASSUME HostAssumption == OpenReconcile \in BOOLEAN

VARIABLES
    \* on disk, with journal
    requests,       \* requestStore
    deletionMarker, \* profile-deletion-v1.json
    \* in memory, with entry
    host,           \* "down", "restoring", "failing", "up", "deleting"
    session,        \* sessions: the state of each, or Null
    queue,          \* the queued operation under way: its step and request
    \* the world
    chain,          \* the operation of each request on the chain
    \* history
    used,           \* requestIds ever drawn
    submissions,    \* how often execute() sent the operation
    released,       \* requests some caller was told are cancelled, rejected or expired
    startFailure    \* why the last start failed

disk == <<journal, requests, deletionMarker>>
memory == <<entry, host, session, queue>>
world == <<chain, clock>>
history == <<used, submissions, released, startFailure>>
vars == <<disk, memory, world, history>>

\* "completing" is fingerprint_confirmation_required with completeAccepted set.
EndedStates == {"terminal", "cancelled", "expired", "transport_failed"}
LiveStates == {"transport_waiting", "fingerprint_confirmation_required", "completing"}
SessionStates == {"restoring"} \cup LiveStates \cup EndedStates

ASSUME NullAssumption == Null \notin SessionStates

Unresolved == {SUBMISSION_COMMITTED, SUBMITTED, RECEIPT_VERIFIED, RECEIPT_INVALID,
               SUBMISSION_OUTCOME_UNKNOWN}

Idle == [step |-> "idle", req |-> Null]
Steps == {"save", "genesis", "waiting", "undo", "dispatch", "accept", "simulate",
          "commit", "execute", "outcome", "reconcile", "fail"}
At(step, r) == queue = [step |-> step, req |-> r]
GoTo(step, r) == queue' = [step |-> step, req |-> r]

NoEntries == [r \in Requests |-> Null]

HasUnresolvedOutcome ==
    \E r \in Requests : session[r] # Null /\ entry[r].state \in Unresolved

HasActiveSession == \E r \in Requests : session[r] \in SessionStates \ EndedStates

(***************************************************************************)
(* The stores' durable writes other than journal frames, with the same     *)
(* two ways to fail.                                                       *)
(***************************************************************************)
DurableWrite(Written, Unwritten, done) ==
    \/ done /\ Written
    \/ ~done /\ "lost" \in FlushFaults /\ Unwritten
    \/ ~done /\ "torn" \in FlushFaults /\ Written

(***************************************************************************)
(* beginRoutineAuthorization: refuse, draw a request, save it, then write  *)
(* the genesis record and the transport_waiting record of its journal.     *)
(***************************************************************************)
BeginUnlessActive(r) ==
    /\ host = "up"
    /\ queue = Idle
    /\ r \notin used
    /\ ~HasActiveSession
    /\ used' = used \cup {r}
    /\ GoTo("save", r)
    /\ UNCHANGED <<disk, entry, host, session, world, submissions, released, startFailure>>
BeginRoutineAuthorization(r) ==
    /\ host = "up"
    /\ queue = Idle
    /\ r \notin used
    /\ ~HasUnresolvedOutcome
    /\ ~HasActiveSession
    /\ used' = used \cup {r}
    /\ GoTo("save", r)
    /\ UNCHANGED <<disk, entry, host, session, world, submissions, released, startFailure>>

SaveRequest(r) ==
    /\ At("save", r)
    /\ \E done \in BOOLEAN :
          /\ DurableWrite(requests' = requests \cup {r}, UNCHANGED requests, done)
          /\ IF done THEN GoTo("genesis", r) ELSE queue' = Idle
    /\ UNCHANGED <<journal, deletionMarker, entry, host, session, world, history>>

WriteGenesis(r) ==
    /\ At("genesis", r)
    /\ \E done \in BOOLEAN :
          /\ DurableWrite(AppendFrame(r, REQUEST_CREATED), UNCHANGED journal, done)
          /\ GoTo(IF done THEN "waiting" ELSE "undo", r)
    /\ UNCHANGED <<requests, deletionMarker, entry, host, session, world, history>>

WriteWaiting(r) ==
    /\ At("waiting", r)
    /\ \E done \in BOOLEAN :
          /\ DurableWrite(AppendFrame(r, TRANSPORT_WAITING), UNCHANGED journal, done)
          /\ IF done
             THEN /\ entry' = [entry EXCEPT
                         ![r] = [generation |-> 2, state |-> TRANSPORT_WAITING]]
                  /\ session' = [session EXCEPT ![r] = "transport_waiting"]
                  /\ queue' = Idle
             ELSE GoTo("undo", r) /\ UNCHANGED <<entry, session>>
    /\ UNCHANGED <<requests, deletionMarker, host, world, history>>

\* The catch clause of begin deletes the saved request again.
DeleteRequest(r) ==
    /\ At("undo", r)
    /\ \E done \in BOOLEAN :
          DurableWrite(requests' = requests \ {r}, UNCHANGED requests, done)
    /\ queue' = Idle
    /\ UNCHANGED <<journal, deletionMarker, entry, host, session, world, history>>

(***************************************************************************)
(* expireSession, which begin, status, the baseline and every message of   *)
(* the phone run first, and the cancel button.                             *)
(***************************************************************************)
ExpirySeen(r) ==
    /\ session[r] \in LiveStates
    /\ clock[r] # "before"
    /\ ~Committed(entry[r].state) \/ entry[r].state = EXPIRED

ExpireSession(r) ==
    /\ host = "up"
    /\ queue = Idle
    /\ ExpirySeen(r)
    /\ \E done \in BOOLEAN :
          /\ ExpireRoutineAuthorization(r, done)
          /\ IF done THEN /\ session' = [session EXCEPT ![r] = "expired"]
                          /\ released' = released \cup {r}
                     ELSE UNCHANGED <<session, released>>
    /\ UNCHANGED <<requests, deletionMarker, host, queue, world, used, submissions,
                   startFailure>>

Cancel(r) ==
    /\ host = "up"
    /\ queue = Idle
    /\ session[r] # Null
    /\ \E done \in BOOLEAN :
          /\ CancelRoutineAuthorization(r, done)
          /\ IF done THEN /\ session' = [session EXCEPT ![r] = "cancelled"]
                          /\ released' = released \cup {r}
                     ELSE UNCHANGED <<session, released>>
    /\ UNCHANGED <<requests, deletionMarker, host, queue, world, used, submissions,
                   startFailure>>

(***************************************************************************)
(* dispatchHttp: the messages of the phone.                                *)
(***************************************************************************)
Dispatch(r) ==
    /\ host = "up"
    /\ queue = Idle
    /\ session[r] \in LiveStates
    /\ ~ExpirySeen(r)
    /\ GoTo("dispatch", r)
    /\ UNCHANGED <<disk, entry, host, session, world, history>>

\* A replayed or out-of-order message is answered 409 and changes nothing.
Refuse(r) ==
    /\ At("dispatch", r)
    /\ queue' = Idle
    /\ UNCHANGED <<disk, entry, host, session, world, history>>

\* Any other refusal fails the transport; after completeAccepted every
\* message is out of order.
BadMessage(r) ==
    /\ At("dispatch", r)
    /\ session[r] # "completing"
    /\ GoTo("fail", r)
    /\ UNCHANGED <<disk, entry, host, session, world, history>>

HandleBegin(r) ==
    /\ At("dispatch", r)
    /\ session[r] = "transport_waiting"
    /\ session' = [session EXCEPT ![r] = "fingerprint_confirmation_required"]
    /\ queue' = Idle
    /\ UNCHANGED <<disk, entry, host, world, history>>

HandleTerminal(r) ==
    /\ At("dispatch", r)
    /\ session[r] = "fingerprint_confirmation_required"
    /\ \E done \in BOOLEAN :
          /\ RejectRoutineAuthorization(r, done) \/ CancelRoutineAuthorization(r, done)
          /\ IF done THEN /\ session' = [session EXCEPT ![r] = "cancelled"]
                          /\ released' = released \cup {r}
                          /\ queue' = Idle
                     ELSE GoTo("fail", r) /\ UNCHANGED <<session, released>>
    /\ UNCHANGED <<requests, deletionMarker, host, world, used, submissions, startFailure>>

HandleComplete(r) ==
    /\ At("dispatch", r)
    /\ session[r] = "fingerprint_confirmation_required"
    /\ session' = [session EXCEPT ![r] = "completing"]
    /\ GoTo("accept", r)
    /\ UNCHANGED <<disk, entry, host, world, history>>

Accept(r) ==
    /\ At("accept", r)
    /\ \E done \in BOOLEAN :
          /\ AcceptRoutineDeviceResponse(r, done)
          /\ GoTo(IF done THEN "simulate" ELSE "fail", r)
    /\ UNCHANGED <<requests, deletionMarker, host, session, world, history>>

Simulate(r) ==
    /\ At("simulate", r)
    /\ \E done \in BOOLEAN :
          /\ SimulateApprovedRoutineAuthorization(r, done)
          /\ GoTo(IF done THEN "commit" ELSE "fail", r)
    /\ UNCHANGED <<requests, deletionMarker, host, session, world, history>>

\* From here on the finally clause ends the session before an error is seen.
EndIfThrown(r, done) ==
    session' = IF done THEN session ELSE [session EXCEPT ![r] = "terminal"]

CommitIgnoringErrors(r) ==
    /\ At("commit", r)
    /\ \E done \in BOOLEAN :
          /\ CommitSimulatedRoutineAuthorization(r, done)
          /\ EndIfThrown(r, done)
    /\ GoTo("execute", r)
    /\ UNCHANGED <<requests, deletionMarker, host, world, history>>
Commit(r) ==
    /\ At("commit", r)
    /\ \E done \in BOOLEAN :
          /\ CommitSimulatedRoutineAuthorization(r, done)
          /\ EndIfThrown(r, done)
          /\ GoTo(IF done THEN "execute" ELSE "fail", r)
    /\ UNCHANGED <<requests, deletionMarker, host, world, history>>

\* execute() sends handleOps; it may also throw before anything was sent.
Execute(r) ==
    /\ At("execute", r)
    /\ \/ /\ chain' = [chain EXCEPT ![r] = IF @ = "none" THEN "pending" ELSE @]
          /\ submissions' = [submissions EXCEPT ![r] = @ + 1]
       \/ UNCHANGED <<chain, submissions>>
    /\ GoTo("outcome", r)
    /\ UNCHANGED <<disk, entry, host, session, clock, used, released, startFailure>>

OutcomeRetried(r) ==
    /\ At("outcome", r)
    /\ \E done \in BOOLEAN :
          /\ ApplyExecution(r, chain[r], done)
          /\ EndIfThrown(r, done)
          /\ GoTo(IF done THEN "reconcile" ELSE "execute", r)
    /\ UNCHANGED <<requests, deletionMarker, host, world, history>>
Outcome(r) ==
    /\ At("outcome", r)
    /\ \E done \in BOOLEAN :
          /\ ApplyExecution(r, chain[r], done)
          /\ EndIfThrown(r, done)
          /\ GoTo(IF done THEN "reconcile" ELSE "fail", r)
    /\ UNCHANGED <<requests, deletionMarker, host, world, history>>

\* What a search of the chain may find: the operation, if it is there, unless
\* the anchor is lost; or it fails. (The outcomes that the local runtime keeps
\* in memory until it stops only exclude some of these.)
Scans(r) == {"unknown", "error"} \cup ({chain[r]} \cap {"success", "failure"})

\* The reconciliation that ends handleComplete; only COMPLETED is a success.
Reconcile(r) ==
    /\ At("reconcile", r)
    /\ \E done \in BOOLEAN, scan \in Scans(r) :
          ReconcileRoutineAuthorization(r, scan, done)
    /\ session' = [session EXCEPT ![r] = "terminal"]
    /\ IF entry'[r].state = COMPLETED THEN queue' = Idle ELSE GoTo("fail", r)
    /\ UNCHANGED <<requests, deletionMarker, host, world, history>>

FailForgetsSession(r) ==
    /\ At("fail", r)
    /\ \E done \in BOOLEAN : FailRoutineTransport(r, done)
    /\ queue' = Idle
    /\ UNCHANGED <<requests, deletionMarker, host, session, world, history>>
Fail(r) ==
    /\ At("fail", r)
    /\ \E done \in BOOLEAN :
          /\ FailRoutineTransport(r, done)
          /\ session' = IF done THEN [session EXCEPT ![r] = "transport_failed"]
                                ELSE session
    /\ queue' = Idle
    /\ UNCHANGED <<requests, deletionMarker, host, world, history>>

\* The host's reconcile method, outside the queue: it only waits for the lock
\* of the request, which the commit holds until its outcome is written.
CallReconcile(r) ==
    /\ OpenReconcile
    /\ host = "up"
    /\ entry[r] # Null
    /\ ~At("execute", r) /\ ~At("outcome", r)
    /\ \E done \in BOOLEAN, scan \in Scans(r) :
          ReconcileRoutineAuthorization(r, scan, done)
    /\ UNCHANGED <<requests, deletionMarker, host, session, queue, world, history>>

(***************************************************************************)
(* The world: the operation is included, and time passes.                  *)
(***************************************************************************)
Include(r) ==
    /\ chain[r] = "pending"
    /\ \E outcome \in {"success", "failure"} : chain' = [chain EXCEPT ![r] = outcome]
    /\ UNCHANGED <<disk, memory, clock, history>>

Tick(r) ==
    /\ r \in used
    /\ clock[r] # "after"
    /\ clock' = [clock EXCEPT ![r] = IF @ = "before" THEN "at" ELSE "after"]
    /\ UNCHANGED <<disk, memory, chain, history>>

(***************************************************************************)
(* Crash, stop and start. A start finishes a committed deletion, then      *)
(* restores every stored request; one that cannot be restored fails it.    *)
(***************************************************************************)
MemoryLost ==
    /\ entry' = NoEntries
    /\ session' = NoEntries
    /\ queue' = Idle

\* The process ends, the product is stopped, or a failed start is disposed of;
\* a stopped host that still finishes something is not modelled.
Crash ==
    /\ host # "down"
    /\ host' = "down"
    /\ MemoryLost
    /\ UNCHANGED <<disk, world, history>>

Start ==
    /\ host = "down"
    /\ ~deletionMarker
    /\ host' = "restoring"
    /\ startFailure' = "none"
    /\ UNCHANGED <<disk, entry, session, queue, world, used, submissions, released>>

\* restoreEncryptedRoutineAuthorization with the frames on disk.
LoadRequest(r) ==
    /\ host = "restoring"
    /\ r \in requests
    /\ \A q \in Requests : session[q] # "restoring"
    /\ session[r] = Null
    /\ IF ValidChain(journal[r])
       THEN /\ entry' = [entry EXCEPT ![r] = [generation |-> Len(journal[r]),
                                              state |-> journal[r][Len(journal[r])]]]
            /\ session' = [session EXCEPT ![r] = "restoring"]
            /\ UNCHANGED <<host, startFailure>>
       ELSE /\ host' = "failing"
            /\ startFailure' = "chain"
            /\ UNCHANGED <<entry, session>>
    /\ UNCHANGED <<disk, queue, world, used, submissions, released>>

RestoreRequest(r) ==
    /\ host = "restoring"
    /\ session[r] = "restoring"
    /\ session' = [session EXCEPT ![r] = "terminal"]
    /\ \E done \in BOOLEAN, scan \in Scans(r) :
          /\ ReconcileRoutineAuthorization(r, scan, done)
          /\ IF done THEN UNCHANGED <<host, startFailure>>
                     ELSE host' = "failing" /\ startFailure' = scan
    /\ UNCHANGED <<requests, deletionMarker, queue, world, used, submissions, released>>

FinishStart ==
    /\ host = "restoring"
    /\ \A r \in requests : session[r] = "terminal"
    /\ host' = "up"
    /\ UNCHANGED <<disk, entry, session, queue, world, history>>

(***************************************************************************)
(* deleteDisposableProfile of the product host: the marker commits, and    *)
(* whoever opens the stores next finishes what a crash interrupted.        *)
(***************************************************************************)
DeletionSafeIgnoringOutcomes == queue = Idle /\ ~HasActiveSession
DeletionSafe == queue = Idle /\ ~HasActiveSession /\ ~HasUnresolvedOutcome

CommitDeletion ==
    /\ host = "up"
    /\ DeletionSafe
    /\ deletionMarker' = TRUE
    /\ host' = "deleting"
    /\ UNCHANGED <<journal, requests, entry, session, queue, world, history>>

\* clearCommittedProfile, in the process that wrote the marker or in the one
\* that opens the stores next: the journals, the requests, and the marker
\* last. The product is unusable afterwards until it restarts.
NoFrames == [r \in Requests |-> <<>>]

\* Frame by frame in the code: nothing reads a journal under a marker.
ClearJournals ==
    /\ deletionMarker
    /\ journal # NoFrames
    /\ journal' = NoFrames
    /\ UNCHANGED <<requests, deletionMarker, memory, world, history>>

ClearRequests ==
    /\ deletionMarker
    /\ journal = NoFrames
    /\ requests # {}
    /\ requests' = {}
    /\ UNCHANGED <<journal, deletionMarker, memory, world, history>>

RemoveMarker ==
    /\ deletionMarker
    /\ journal = NoFrames
    /\ requests = {}
    /\ deletionMarker' = FALSE
    /\ host' = "down"
    /\ MemoryLost
    /\ UNCHANGED <<journal, requests, world, history>>

Init ==
    /\ journal = NoFrames
    /\ requests = {}
    /\ deletionMarker = FALSE
    /\ entry = NoEntries
    /\ host = "down"
    /\ session = NoEntries
    /\ queue = Idle
    /\ chain = [r \in Requests |-> "none"]
    /\ clock = [r \in Requests |-> "before"]
    /\ used = {}
    /\ submissions = [r \in Requests |-> 0]
    /\ released = {}
    /\ startFailure = "none"

QueueStep(r) ==
    \/ SaveRequest(r) \/ WriteGenesis(r) \/ WriteWaiting(r) \/ DeleteRequest(r)
    \/ Refuse(r) \/ BadMessage(r) \/ HandleBegin(r) \/ HandleTerminal(r)
    \/ HandleComplete(r) \/ Accept(r) \/ Simulate(r) \/ Commit(r)
    \/ Execute(r) \/ Outcome(r) \/ Reconcile(r) \/ Fail(r)

Next ==
    \/ \E r \in Requests :
          \/ BeginRoutineAuthorization(r) \/ Dispatch(r) \/ QueueStep(r)
          \/ ExpireSession(r) \/ Cancel(r) \/ CallReconcile(r)
          \/ Include(r) \/ Tick(r)
          \/ LoadRequest(r) \/ RestoreRequest(r)
    \/ Crash \/ Start \/ FinishStart
    \/ CommitDeletion \/ ClearJournals \/ ClearRequests \/ RemoveMarker

Spec == Init /\ [][Next]_vars

(***************************************************************************)
(* The queue keeps running, the clock too, and the renderer polls the      *)
(* status of the request it shows, which is what expires its session.      *)
(***************************************************************************)
Fairness ==
    \A r \in Requests :
        /\ WF_vars(QueueStep(r))
        /\ WF_vars(Tick(r))
        /\ WF_vars(ExpireSession(r))

FairSpec == Spec /\ Fairness

-----------------------------------------------------------------------------
Records == [generation : Nat, state : States]

\* Types of the stores, the host and the world.
TypeOK ==
    /\ journal \in [Requests -> Seq(States)]
    /\ requests \subseteq Requests
    /\ deletionMarker \in BOOLEAN
    /\ entry \in [Requests -> Records \cup {Null}]
    /\ host \in {"down", "restoring", "failing", "up", "deleting"}
    /\ session \in [Requests -> SessionStates \cup {Null}]
    /\ queue \in {Idle} \cup [step : Steps, req : Requests]
    /\ chain \in [Requests -> {"none", "pending", "success", "failure"}]
    /\ clock \in [Requests -> {"before", "at", "after"}]
    /\ used \subseteq Requests
    /\ submissions \in [Requests -> Nat]
    /\ released \subseteq Requests
    /\ startFailure \in {"none", "chain", "error", "unknown", "success", "failure"}

LastState(r) == journal[r][Len(journal[r])]
OnRecord(r) == journal[r] # <<>>

\* A submission that was sent and whose outcome is not durable yet.
InFlight(r) ==
    /\ submissions[r] > 0
    /\ OnRecord(r)
    /\ LastState(r) \notin {COMPLETED, FAILED_EXECUTION}

\* What memory holds is on disk, at most one frame behind it, whichever
\* writes failed, until a committed deletion; and the frames on disk are a
\* chain that a restore accepts.
MemoryIsDurable ==
    /\ TypeOK
    /\ \A r \in Requests :
          /\ entry[r] # Null /\ ~deletionMarker =>
               /\ entry[r].generation \in {Len(journal[r]) - 1, Len(journal[r])} \ {0}
               /\ journal[r][entry[r].generation] = entry[r].state
          /\ OnRecord(r) => ValidChain(journal[r])

\* An operation is sent at most once, whatever crashes, restarts and repeated
\* messages happen, and only after its commit record was durable.
SubmittedOnce ==
    \A r \in Requests :
        /\ submissions[r] <= 1
        /\ submissions[r] = 1 /\ OnRecord(r) => Committed(LastState(r))

\* A request that somebody was told is cancelled, rejected or expired, or
\* that the journal gives up, was never sent and never will be.
GivenUpNeverSubmitted ==
    \A r \in Requests :
        (r \in released \/ (OnRecord(r) /\ LastState(r) \in GivenUp))
            => submissions[r] = 0

\* A recorded outcome is the outcome on the chain: nothing is completed or
\* failed on the strength of a lost answer.
RecordedOutcomeIsTrue ==
    \A r \in Requests : OnRecord(r) =>
        /\ LastState(r) \in {RECEIPT_VERIFIED, COMPLETED} => chain[r] = "success"
        /\ LastState(r) = FAILED_EXECUTION => chain[r] = "failure"

\* Two operations are never in flight together: begin refuses while an
\* outcome is unresolved, also after a restart.
OneInFlight ==
    \A q, r \in Requests : InFlight(q) /\ InFlight(r) => q = r

\* Deleting the profile never forgets an operation in flight, not even when a
\* crash interrupts it between the marker and the last file.
DeletionKeepsInFlight ==
    [][\A r \in Requests : InFlight(r) => journal'[r] # <<>>]_vars

\* Without storage errors a session never stays open: it completes, fails,
\* is cancelled, or expires, and the next request can begin.
SessionEnds ==
    \A r \in Requests : session[r] \in LiveStates ~> session[r] \notin LiveStates

\* "discovers and reconciles incomplete requests on startup": no request that
\* was stored makes the start fail for want of its journal.
StoredRequestsRestore == startFailure # "chain"

(***************************************************************************)
(* Journal, memory, crashes and restarts keep a promise that knows none of *)
(* them.  A request has the status of its last frame; one that was drawn   *)
(* and has no journal is void once its first frame is no longer under way. *)
(***************************************************************************)
Meaning == [state \in States |->
    CASE state \in GivenUp -> "given up"
      [] state = RECEIPT_VERIFIED -> "verified"
      [] state = COMPLETED -> "completed"
      [] state = FAILED_EXECUTION -> "failed"
      [] state \in Unresolved \ {RECEIPT_VERIFIED} -> "committed"
      [] OTHER -> "open"]

Status(r) ==
    IF OnRecord(r) THEN Meaning[LastState(r)]
    ELSE IF r \in used /\ ~At("save", r) /\ ~At("genesis", r) THEN "void" ELSE "open"

Promise == INSTANCE RoutinePromise WITH
    status <- [r \in Requests |-> Status(r)],
    sent <- submissions,
    told <- released

\* Every step, whatever fails and wherever the process ends, gives up, commits,
\* sends, settles or forgets requests as the promise allows, or does nothing
\* that counts.
KeepsPromise == Promise!Spec
=============================================================================
