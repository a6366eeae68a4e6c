------------------------- MODULE SepoliaMintCeremony -------------------------
(***************************************************************************)
(* The Sepolia mint demonstration of the desktop: the encrypted ceremony   *)
(* records, the replay ledger, the one signed artifact, the host that      *)
(* talks to the phone, and the environment main.cjs builds on every Begin. *)
(*                                                                         *)
(* From the phone's answer to the completed record nothing yields to the   *)
(* event loop but finished promises, so only the end of the process falls  *)
(* between two steps of a task; proving, before a Begin restores anything, *)
(* does yield. Every ceremony has its own envelope, nullifier and approval *)
(* nonce, and all of them have account nonce "0". Left out: ciphers and    *)
(* message formats (a message is good or bad) and what the proof proves.   *)
(***************************************************************************)
EXTENDS Naturals, FiniteSets

CONSTANTS
    Ceremonies,     \* request ids
    Null,
    MaxFaults       \* bound: crashes, locks, failed writes and refusals of a behaviour

ASSUME MintAssumption == MaxFaults \in Nat /\ Null \notin Ceremonies

VARIABLES
    \* on disk
    record,         \* <requestId>.ceremony-v1.json
    stray,          \* a temporary file of writeAtomic lies among the records
    ledger,         \* replay-v1.json: the state of each ceremony's reservation
    artifact,       \* signed-unsubmitted-v1.json: whose operation it holds
    \* in memory
    host,           \* "none", "preparing", "restoring", "up"
    session,        \* sessions of the host
    records,        \* the replay store's copy of the ledger
    poisoned,       \* the replay store's flag
    leftover,       \* a temporary artifact file of this process exists
    vault,          \* whether the Phil identity is unlocked
    capability,     \* whether the session the capability was made in lasts
    task,           \* the answer being worked on: step, ceremony, on whose behalf
    \* the world
    clock,          \* now against approvalExpiresAt: "before", "at", "after"
    faults,         \* disturbances so far
    \* history
    signed          \* ceremonies whose operation Device Vault ever signed

disk == <<record, stray, ledger, artifact>>
store == <<records, poisoned>>
memory == <<host, session, store, leftover, vault, capability, task>>
vars == <<disk, memory, clock, faults, signed>>

RecordStates == {"waiting", "approved", "completed", "cancelled", "expired"}
\* "dead" is a session still waiting or reviewing whose keys are destroyed.
SessionStates == {"waiting", "reviewing", "approved", "completed", "cancelled",
                  "expired", "failed", "dead"}
Steps == {"respond", "load", "compose", "reserve", "sign", "artifact", "consume",
          "complete"}

ASSUME NullAssumption == Null \notin RecordStates \cup SessionStates \cup {"phone", "restore"}

Idle == [step |-> "idle", of |-> Null, for |-> Null]
At(step, c) == task.step = step /\ task.of = c
GoTo(step) == task' = [task EXCEPT !.step = step]
Free == [c \in Ceremonies |-> "free"]
NoSession == [c \in Ceremonies |-> Null]

(***************************************************************************)
(* Every durable write is a temporary file, a rename and a flush. It may   *)
(* fail before the rename (lost) or after it (torn). A lost write of a     *)
(* record removes its temporary file; when that fails too, a second fault  *)
(* of the behaviour, the file stays.                                       *)
(***************************************************************************)
Outcomes == {"done"} \cup IF faults < MaxFaults THEN {"lost", "torn"} ELSE {}
Charge(outcome) == faults' = IF outcome = "done" THEN faults ELSE faults + 1
Update(c, state, outcome) ==
    /\ record' = IF outcome = "lost" THEN record ELSE [record EXCEPT ![c] = state]
    /\ stray' \in IF outcome = "lost" /\ faults + 1 < MaxFaults THEN {stray, TRUE} ELSE {stray}
Disturb == faults < MaxFaults /\ faults' = faults + 1

\* persist of the replay store: memory follows the disk, a failure poisons it.
Persist(c, state, outcome) ==
    /\ ledger' = IF outcome = "lost" THEN ledger ELSE [records EXCEPT ![c] = state]
    /\ records' = IF outcome = "done" THEN [records EXCEPT ![c] = state] ELSE records
    /\ poisoned' = (outcome # "done")

HasExactReservation(c) == ~poisoned /\ records[c] = "reserved"

(***************************************************************************)
(* What an exception does: of an answer of the phone the host's session    *)
(* fails unless the approval is already saved; of a restored ceremony it   *)
(* fails the whole Begin.                                                  *)
(***************************************************************************)
Fail ==
    /\ task' = Idle
    /\ IF task.for = "restore"
       THEN host' = "none" /\ session' = NoSession
       ELSE /\ session' = [session EXCEPT
                  ![task.of] = IF @ = "approved" THEN @ ELSE "failed"]
            /\ UNCHANGED host

NextStep(ok, step) ==
    IF ok THEN GoTo(step) /\ UNCHANGED <<host, session>> ELSE Fail

(***************************************************************************)
(* sepoliaMintInvoke(BEGIN): drop the old host, build a new environment    *)
(* with a fresh replay store, prove, restore what was approved, and only   *)
(* then begin a new ceremony.                                              *)
(***************************************************************************)
Begin ==
    /\ task = Idle
    /\ host \in {"none", "up"}
    /\ session' = NoSession
    /\ IF vault = "unlocked"
       THEN /\ host' = "preparing"
            /\ records' = ledger
            /\ poisoned' = FALSE
            /\ capability' = TRUE
       ELSE host' = "none" /\ UNCHANGED <<records, poisoned, capability>>
    /\ UNCHANGED <<disk, leftover, vault, task, clock, faults, signed>>

Prepared ==
    /\ host = "preparing"
    /\ \/ host' = "restoring" /\ UNCHANGED faults
       \/ host' = "none" /\ Disturb
    /\ UNCHANGED <<disk, session, store, leftover, vault, capability, task, clock, signed>>

\* list of the ceremony store refuses a directory in which any other file lies,
\* and the Begin that restores from it fails.
Listed == host = "restoring" /\ task = Idle /\ ~stray

ListRefused ==
    /\ host = "restoring"
    /\ task = Idle
    /\ stray
    /\ host' = "none"
    /\ session' = NoSession
    /\ UNCHANGED <<disk, store, leftover, vault, capability, task, clock, faults, signed>>

ToRestore == {c \in Ceremonies : record[c] = "approved"}

RestoreAnyAnswered(c) ==
    /\ Listed
    /\ record[c] \in {"approved", "cancelled"}
    /\ task' = [step |-> "load", of |-> c, for |-> "restore"]
    /\ UNCHANGED <<disk, host, session, store, leftover, vault, capability, clock, faults, signed>>
RestoreApproved(c) ==
    /\ Listed
    /\ c \in ToRestore
    /\ task' = [step |-> "load", of |-> c, for |-> "restore"]
    /\ UNCHANGED <<disk, host, session, store, leftover, vault, capability, clock, faults, signed>>

MayBegin(c) == Listed /\ ToRestore = {} /\ record[c] = Null

\* host.begin: a failed write of the request leaves a host without a session.
BeginCeremony(c) ==
    /\ MayBegin(c)
    /\ host' = "up"
    /\ \E outcome \in Outcomes :
          /\ Charge(outcome)
          /\ Update(c, "waiting", outcome)
          /\ session' = IF outcome = "done" THEN [session EXCEPT ![c] = "waiting"] ELSE session
    /\ UNCHANGED <<ledger, artifact, store, leftover, vault, capability, task, clock, signed>>

(***************************************************************************)
(* dispatchHttp. Every message first sees whether the window is over, and  *)
(* then a session and its record expire from whatever state they are in.   *)
(***************************************************************************)
Expire(c) ==
    /\ host = "up"
    /\ task = Idle
    /\ session[c] # Null
    /\ clock[c] # "before"
    /\ session' = [session EXCEPT ![c] = "expired"]
    /\ \E outcome \in Outcomes : Charge(outcome) /\ Update(c, "expired", outcome)
    /\ UNCHANGED <<ledger, artifact, host, store, leftover, vault, capability, task, clock, signed>>

BeginMessage(c, good) ==
    /\ host = "up"
    /\ task = Idle
    /\ session[c] # Null
    /\ clock[c] = "before"
    /\ session' = [session EXCEPT
          ![c] = IF good /\ @ = "waiting" THEN "reviewing"
                 ELSE IF @ = "approved" THEN @ ELSE "failed"]
    /\ UNCHANGED <<disk, host, store, leftover, vault, capability, task, clock, faults, signed>>

\* The listener hands an answer to a session that is reviewing, or to none.
CompleteMessage(c, good) ==
    /\ host = "up"
    /\ task = Idle
    /\ session[c] = "reviewing"
    /\ clock[c] = "before"
    /\ IF good
       THEN /\ task' = [step |-> "respond", of |-> c, for |-> "phone"]
            /\ UNCHANGED session
       ELSE /\ session' = [session EXCEPT ![c] = "failed"]
            /\ UNCHANGED task
    /\ UNCHANGED <<disk, host, store, leftover, vault, capability, clock, faults, signed>>

SaveResponse(c) ==
    /\ At("respond", c)
    /\ \E outcome \in Outcomes :
          LET saved == record[c] = "waiting" /\ outcome = "done" IN
          /\ Charge(outcome)
          /\ IF record[c] = "waiting" THEN Update(c, "approved", outcome)
             ELSE UNCHANGED <<record, stray>>
          /\ IF saved
             THEN /\ session' = [session EXCEPT ![c] = "approved"]
                  /\ GoTo("load")
                  /\ UNCHANGED host
             ELSE Fail
    /\ UNCHANGED <<ledger, artifact, store, leftover, vault, capability, clock, signed>>

(***************************************************************************)
(* onApproved of main.cjs: an artifact of this very ceremony is reused;    *)
(* otherwise the capability composes the authorization (resuming an exact  *)
(* reservation or making one), signs, and the result is kept and consumed. *)
(***************************************************************************)
AlwaysCompose(c) ==
    /\ At("load", c)
    /\ GoTo("compose")
    /\ UNCHANGED <<disk, host, session, store, leftover, vault, capability, clock, faults, signed>>
LoadMatchingArtifact(c) ==
    /\ At("load", c)
    /\ GoTo(IF artifact = c THEN "consume" ELSE "compose")
    /\ UNCHANGED <<disk, host, session, store, leftover, vault, capability, clock, faults, signed>>

\* The trusted state may also refuse: another enrollment, no recovery status.
ComposeIgnoringAccountNonce(c) ==
    /\ At("compose", c)
    /\ \/ /\ NextStep(/\ capability
                      /\ vault = "unlocked"
                      /\ clock[c] # "after"
                      /\ ~poisoned
                      /\ records[c] # "consumed",
                      IF records[c] = "reserved" THEN "sign" ELSE "reserve")
          /\ UNCHANGED faults
       \/ Fail /\ Disturb
    /\ UNCHANGED <<disk, store, leftover, vault, capability, clock, signed>>
ComposeWithoutResume(c) ==
    /\ At("compose", c)
    /\ \/ /\ NextStep(/\ capability
                      /\ vault = "unlocked"
                      /\ clock[c] # "after"
                      /\ ~poisoned
                      /\ records = Free,
                      "reserve")
          /\ UNCHANGED faults
       \/ Fail /\ Disturb
    /\ UNCHANGED <<disk, store, leftover, vault, capability, clock, signed>>
Compose(c) ==
    /\ At("compose", c)
    /\ \/ /\ NextStep(/\ capability
                      /\ vault = "unlocked"
                      /\ clock[c] # "after"
                      /\ ~poisoned
                      /\ records[c] = "reserved" \/ records = Free,
                      IF records[c] = "reserved" THEN "sign" ELSE "reserve")
          /\ UNCHANGED faults
       \/ Fail /\ Disturb
    /\ UNCHANGED <<disk, store, leftover, vault, capability, clock, signed>>

Reserve(c) ==
    /\ At("reserve", c)
    /\ \E outcome \in Outcomes :
          /\ Charge(outcome)
          /\ Persist(c, "reserved", outcome)
          /\ NextStep(outcome = "done", "sign")
    /\ UNCHANGED <<record, stray, artifact, leftover, vault, capability, clock, signed>>

SignThenConsume(c) ==
    /\ At("sign", c)
    /\ LET may == HasExactReservation(c) /\ capability IN
          /\ signed' = IF may THEN signed \cup {c} ELSE signed
          /\ NextStep(may, "consume")
    /\ UNCHANGED <<disk, store, leftover, vault, capability, clock, faults>>
Sign(c) ==
    /\ At("sign", c)
    /\ LET may == HasExactReservation(c) /\ capability IN
          /\ signed' = IF may THEN signed \cup {c} ELSE signed
          /\ NextStep(may, "artifact")
    /\ UNCHANGED <<disk, store, leftover, vault, capability, clock, faults>>

\* The temporary file carries the process id and a failed attempt leaves it,
\* so that no later attempt of the same process gets past its creation.
PersistSignedArtifact(c) ==
    /\ At("artifact", c)
    /\ IF leftover
       THEN Fail /\ UNCHANGED <<artifact, leftover, faults>>
       ELSE \E outcome \in Outcomes :
               /\ Charge(outcome)
               /\ artifact' = IF outcome = "lost" THEN artifact ELSE c
               /\ leftover' = (outcome = "lost")
               /\ NextStep(outcome = "done", "consume")
    /\ UNCHANGED <<record, stray, ledger, store, vault, capability, clock, signed>>

MarkConsumed(c) ==
    /\ At("consume", c)
    /\ IF poisoned \/ records[c] # "reserved"
       THEN /\ NextStep(~poisoned /\ records[c] = "consumed", "complete")
            /\ UNCHANGED <<ledger, store, faults>>
       ELSE \E outcome \in Outcomes :
               /\ Charge(outcome)
               /\ Persist(c, "consumed", outcome)
               /\ NextStep(outcome = "done", "complete")
    /\ UNCHANGED <<record, stray, artifact, leftover, vault, capability, clock, signed>>

MarkCompleted(c) ==
    /\ At("complete", c)
    /\ \E outcome \in Outcomes :
          /\ Charge(outcome)
          /\ Update(c, "completed", outcome)
          /\ IF outcome = "done"
             THEN /\ task' = Idle
                  /\ session' = IF task.for = "phone" THEN [session EXCEPT ![c] = "completed"]
                                                      ELSE session
                  /\ UNCHANGED host
             ELSE Fail
    /\ UNCHANGED <<ledger, artifact, store, leftover, vault, capability, clock, signed>>

Work(c) ==
    \/ SaveResponse(c) \/ LoadMatchingArtifact(c) \/ Compose(c) \/ Reserve(c)
    \/ Sign(c) \/ PersistSignedArtifact(c) \/ MarkConsumed(c) \/ MarkCompleted(c)

(***************************************************************************)
(* cancel: the keys go first, the record follows, from whatever state.     *)
(***************************************************************************)
MayCancel(c) == host = "up" /\ task = Idle /\ record[c] # Null

Cancel(c) ==
    /\ MayCancel(c)
    /\ \E outcome \in Outcomes :
          /\ Charge(outcome)
          /\ Update(c, "cancelled", outcome)
          /\ session' = [session EXCEPT
                ![c] = IF @ = Null THEN @
                       ELSE IF outcome = "done" THEN "cancelled"
                       ELSE IF @ \in {"waiting", "reviewing"} THEN "dead" ELSE @]
    /\ UNCHANGED <<ledger, artifact, host, store, leftover, vault, capability, task, clock, signed>>

(***************************************************************************)
(* The identity is locked by its timer or its owner, the process ends, and *)
(* time passes.                                                            *)
(***************************************************************************)
Lock ==
    /\ task = Idle
    /\ vault = "unlocked"
    /\ vault' = "locked"
    /\ capability' = FALSE
    /\ Disturb
    /\ UNCHANGED <<disk, host, session, store, leftover, task, clock, signed>>

Unlock ==
    /\ task = Idle
    /\ vault = "locked"
    /\ vault' = "unlocked"
    /\ UNCHANGED <<disk, host, session, store, leftover, capability, task, clock, faults, signed>>

ProcessEnds ==
    /\ host' = "none"
    /\ session' = NoSession
    /\ records' = Free
    /\ poisoned' = FALSE
    /\ leftover' = FALSE
    /\ vault' = "locked"
    /\ capability' = FALSE
    /\ task' = Idle
    /\ UNCHANGED <<record, ledger, artifact, clock, signed>>

Crash == Disturb /\ ProcessEnds /\ UNCHANGED stray

\* A process that is killed inside writeAtomic, before the rename, removes
\* nothing. A session that expires has a record, so MayCancel covers it.
Updates(c) ==
    \/ MayBegin(c)
    \/ MayCancel(c)
    \/ At("respond", c) /\ record[c] = "waiting"
    \/ At("complete", c)

CrashInUpdate == (\E c \in Ceremonies : Updates(c)) /\ Disturb /\ ProcessEnds /\ stray' = TRUE

\* Quitting while a Begin is under way counts as a crash.
Quit == host \in {"none", "up"} /\ task = Idle /\ ProcessEnds /\ UNCHANGED <<faults, stray>>

Tick(c) ==
    /\ record[c] # Null
    /\ clock[c] # "after"
    /\ clock' = [clock EXCEPT ![c] = IF @ = "before" THEN "at" ELSE "after"]
    /\ UNCHANGED <<disk, memory, faults, signed>>

Init ==
    /\ record = [c \in Ceremonies |-> Null]
    /\ stray = FALSE
    /\ ledger = Free
    /\ artifact = Null
    /\ host = "none"
    /\ session = NoSession
    /\ records = Free
    /\ poisoned = FALSE
    /\ leftover = FALSE
    /\ vault = "locked"
    /\ capability = FALSE
    /\ task = Idle
    /\ clock = [c \in Ceremonies |-> "before"]
    /\ faults = 0
    /\ signed = {}

Next ==
    \/ Begin \/ Prepared \/ ListRefused \/ Lock \/ Unlock \/ Crash \/ CrashInUpdate \/ Quit
    \/ \E c \in Ceremonies :
          \/ RestoreApproved(c) \/ BeginCeremony(c) \/ Expire(c)
          \/ \E good \in BOOLEAN : BeginMessage(c, good) \/ CompleteMessage(c, good)
          \/ Work(c) \/ Cancel(c) \/ Tick(c)

Spec == Init /\ [][Next]_vars

(***************************************************************************)
(* Promises of the runtime end (WF of the work under way and of what Begin *)
(* goes through), and the user of an interrupted ceremony goes on:         *)
(* unlocks, begins again where no host is left, and restarts the desktop   *)
(* where a session that got stuck or a leftover file keeps it from getting *)
(* further. Nobody looks for a stray file, and time need not pass.         *)
(***************************************************************************)
Stuck == leftover \/ \E c \in Ceremonies : session[c] \in {"approved", "failed", "expired"}

Fairness ==
    /\ WF_vars(Prepared) /\ WF_vars(ListRefused)
    /\ WF_vars(Unlock)
    /\ SF_vars(host = "none" /\ Begin)
    /\ SF_vars(Stuck /\ Quit)
    /\ \A c \in Ceremonies : WF_vars(Work(c)) /\ WF_vars(RestoreApproved(c))

FairSpec == Spec /\ Fairness

-----------------------------------------------------------------------------
\* Types of the files, the host and the world.
TypeOK ==
    /\ record \in [Ceremonies -> RecordStates \cup {Null}]
    /\ stray \in BOOLEAN
    /\ ledger \in [Ceremonies -> {"free", "reserved", "consumed"}]
    /\ artifact \in Ceremonies \cup {Null}
    /\ host \in {"none", "preparing", "restoring", "up"}
    /\ session \in [Ceremonies -> SessionStates \cup {Null}]
    /\ records \in [Ceremonies -> {"free", "reserved", "consumed"}]
    /\ poisoned \in BOOLEAN
    /\ leftover \in BOOLEAN
    /\ vault \in {"locked", "unlocked"}
    /\ capability \in BOOLEAN
    /\ task \in [step : Steps \cup {"idle"}, of : Ceremonies \cup {Null},
                 for : {Null, "phone", "restore"}]
    /\ clock \in [Ceremonies -> {"before", "at", "after"}]
    /\ faults \in 0..MaxFaults
    /\ signed \subseteq Ceremonies

\* All ceremonies use the account's nonce 0, so Device Vault signs for one of
\* them at most, whatever restarts, failed writes and new ceremonies happen.
\* The reservation that its signature needs is on disk, and stays there, before
\* the signature exists: no crash gives the account nonce to another ceremony.
OneCeremonyIsSigned ==
    /\ TypeOK
    /\ Cardinality(signed) <= 1
    /\ \A c \in signed : ledger[c] # "free"

\* What counts as done is kept: a consumed reservation has its signed
\* artifact on disk, and a completed ceremony has a consumed reservation.
DoneIsKept ==
    \A c \in Ceremonies :
        /\ ledger[c] = "consumed" => artifact = c
        /\ record[c] = "completed" => ledger[c] = "consumed"

\* Once a signed artifact is on disk, no restart signs again: the artifact is
\* reused as it is.
ArtifactIsReused == [][artifact # Null => artifact' = artifact /\ ~\E c \in Ceremonies : Sign(c)]_vars

\* A ceremony is signed only while its durable record says approved: one that
\* was cancelled, or that expired, is signed in no later run of the desktop.
SignedWhileApproved ==
    [][\A c \in signed' \ signed : record[c] = "approved"]_vars

\* An interrupted ceremony that nobody else's reservation stands in the way
\* of is completed once the user begins again, or its window closes first,
\* unless a temporary file lies among the records. With such a file every
\* Begin fails, and nothing removes it.
FirstCeremonyResumes ==
    \A c \in Ceremonies :
        (record[c] = "approved" /\ \A d \in Ceremonies \ {c} : ledger[d] = "free")
            ~> (record[c] # "approved" \/ clock[c] = "after" \/ stray)
=============================================================================
