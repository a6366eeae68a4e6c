---------------------- MODULE SepoliaMintCeremonyProofs ----------------------
(***************************************************************************)
(* Proofs about the Sepolia mint ceremony, for any number of ceremonies    *)
(* and of crashes, locks, failed writes and refusals.                      *)
(*                                                                         *)
(* All ceremonies share one account nonce, so the argument rests on the    *)
(* replay ledger: at most one reservation ever leaves "free", what was     *)
(* signed and what the artifact holds belongs to it, and the store's copy  *)
(* in memory is the ledger unless a failed write has poisoned it.  What a  *)
(* task may rely on between two of its steps completes the invariant.      *)
(***************************************************************************)
EXTENDS SepoliaMintCeremony, FiniteSetTheorems, TLAPS

USE MintAssumption, NullAssumption

\* A task is idle, or works for a ceremony on a host that is there.
TaskShape ==
    /\ task.step = "idle" => task = Idle
    /\ task.step # "idle" =>
          task.of \in Ceremonies /\ task.for # Null /\ host \in {"restoring", "up"}

\* One reservation at most, and whatever exists belongs to it.
OneReservation ==
    /\ \A c, d \in Ceremonies : ledger[c] # "free" /\ ledger[d] # "free" => c = d
    /\ \A c \in signed : ledger[c] # "free"
    /\ artifact # Null => ledger[artifact] # "free"

\* The store follows the disk, or refuses.
StoreFollows == host # "none" => poisoned \/ records = ledger

\* What the steps of a task found, and what nobody changes under it.
TaskRelies ==
    /\ task.step \in Steps \ {"respond"} => record[task.of] = "approved"
    /\ task.step \in {"compose", "reserve", "sign", "artifact"} => artifact # task.of
    /\ task.step = "reserve" => ~poisoned /\ records = Free
    /\ task.step \in {"sign", "artifact"} => ~poisoned /\ records[task.of] = "reserved"
    /\ task.step = "consume" => artifact = task.of
    /\ task.step = "complete" => ~poisoned /\ records[task.of] = "consumed"

IInv ==
    /\ TypeOK
    /\ TaskShape
    /\ OneReservation
    /\ StoreFollows
    /\ TaskRelies
    /\ DoneIsKept

-----------------------------------------------------------------------------
\* Nothing is reserved and no task runs at first.
LEMMA InitIInv == Init => IInv
<1> SUFFICES ASSUME Init PROVE IInv
  OBVIOUS
<1>1. TypeOK
  <2>1. task \in [step : Steps \cup {"idle"}, of : Ceremonies \cup {Null},
                  for : {Null, "phone", "restore"}]
    BY DEF Init, Idle
  <2>2. /\ record \in [Ceremonies -> RecordStates \cup {Null}]
        /\ ledger \in [Ceremonies -> {"free", "reserved", "consumed"}]
        /\ session \in [Ceremonies -> SessionStates \cup {Null}]
        /\ records \in [Ceremonies -> {"free", "reserved", "consumed"}]
        /\ clock \in [Ceremonies -> {"before", "at", "after"}]
    BY DEF Init, Free, NoSession
  <2>3. /\ poisoned \in BOOLEAN /\ leftover \in BOOLEAN
        /\ capability \in BOOLEAN /\ stray \in BOOLEAN
    BY DEF Init
  <2>4. faults \in 0..MaxFaults
    BY DEF Init
  <2>5. /\ artifact \in Ceremonies \cup {Null}
        /\ host \in {"none", "preparing", "restoring", "up"}
        /\ vault \in {"locked", "unlocked"}
        /\ signed \subseteq Ceremonies
    BY DEF Init
  <2> QED
    BY <2>1, <2>2, <2>3, <2>4, <2>5 DEF TypeOK
<1>2. TaskShape /\ OneReservation /\ StoreFollows /\ TaskRelies
  BY DEF Init, TaskShape, OneReservation, StoreFollows, TaskRelies, Idle, Free, Steps
<1>3. DoneIsKept
  BY DEF Init, DoneIsKept, Free, RecordStates
<1> QED
  BY <1>1, <1>2, <1>3 DEF IInv

\* A step that writes no file of use and leaves no task behind.
LEMMA NoWrite ==
    ASSUME IInv, TypeOK', UNCHANGED <<record, ledger, artifact, signed>>, task' = Idle,
           \/ UNCHANGED store /\ (host' # "none" => host # "none")
           \/ records' = ledger
           \/ host' = "none"
    PROVE  IInv'
<1>1. TaskShape' /\ TaskRelies'
  BY DEF TaskShape, TaskRelies, Idle, Steps
<1>2. OneReservation' /\ DoneIsKept'
  BY DEF IInv, OneReservation, DoneIsKept
<1>3. StoreFollows'
  BY DEF IInv, StoreFollows, store
<1> QED
  BY <1>1, <1>2, <1>3 DEF IInv

\* The environment is built, the identity locked, the process ended.
LEMMA OutsideSteps ==
    ASSUME IInv,
           \/ Begin \/ Prepared \/ ListRefused \/ Lock \/ Unlock
           \/ Crash \/ CrashInUpdate \/ Quit
    PROVE  IInv'
<1> USE DEF disk, store, Disturb
<1>1. TypeOK /\ TaskShape
  BY DEF IInv
<1>2. CASE Begin
  <2>1. TypeOK'
    BY <1>1, <1>2 DEF Begin, TypeOK, NoSession
  <2> QED
    BY <1>2, <2>1, NoWrite DEF Begin
<1>3. CASE Prepared
  <2>1. TypeOK'
    BY <1>1, <1>3 DEF Prepared, TypeOK
  <2>2. task = Idle
    BY <1>1, <1>3 DEF Prepared, TaskShape
  <2> QED
    BY <1>3, <2>1, <2>2, NoWrite DEF Prepared
<1>4. CASE Lock
  <2>1. TypeOK'
    <3>1. faults' \in 0..MaxFaults
      BY <1>1, <1>4 DEF Lock, TypeOK
    <3> QED
      BY <1>1, <1>4, <3>1 DEF Lock, TypeOK
  <2> QED
    BY <1>4, <2>1, NoWrite DEF Lock
<1>5. CASE Unlock
  <2>1. TypeOK'
    BY <1>1, <1>5 DEF Unlock, TypeOK
  <2> QED
    BY <1>5, <2>1, NoWrite DEF Unlock
<1>6. CASE Crash \/ CrashInUpdate \/ Quit
  <2>1. ProcessEnds /\ faults' \in 0..MaxFaults
    BY <1>1, <1>6 DEF Crash, CrashInUpdate, Quit, TypeOK
  <2>2. stray' \in BOOLEAN
    BY <1>1, <1>6, Zenon DEF Crash, CrashInUpdate, Quit, TypeOK
  <2>3. TypeOK'
    BY <1>1, <2>1, <2>2 DEF ProcessEnds, TypeOK, Idle, NoSession, Free
  <2> QED
    BY <2>1, <2>3, NoWrite DEF ProcessEnds
<1>7. CASE ListRefused
  <2>1. TypeOK'
    BY <1>1, <1>7 DEF ListRefused, TypeOK, NoSession
  <2> QED
    BY <1>7, <2>1, NoWrite DEF ListRefused
<1> QED
  BY <1>2, <1>3, <1>4, <1>5, <1>6, <1>7

(***************************************************************************)
(* Steps that write at most one record.                                    *)
(***************************************************************************)
\* An outcome is charged within the bound, and a record keeps its type.
LEMMA WriteTyped ==
    ASSUME TypeOK, NEW c \in Ceremonies, NEW state \in RecordStates,
           NEW outcome \in Outcomes, Charge(outcome)
    PROVE  /\ faults' \in 0..MaxFaults
           /\ Update(c, state, outcome) =>
                 record' \in [Ceremonies -> RecordStates \cup {Null}] /\ stray' \in BOOLEAN
<1>1. faults' \in 0..MaxFaults
  BY DEF TypeOK, Outcomes, Charge
<1>2. ASSUME Update(c, state, outcome)
      PROVE  record' \in [Ceremonies -> RecordStates \cup {Null}] /\ stray' \in BOOLEAN
  <2>1. record' \in [Ceremonies -> RecordStates \cup {Null}]
    BY <1>2 DEF TypeOK, Update
  <2>2. stray \in BOOLEAN /\ stray' \in {stray, TRUE}
    BY <1>2 DEF TypeOK, Update
  <2>3. stray' \in BOOLEAN
    BY <2>2, Zenon
  <2> QED
    BY <2>1, <2>3
<1> QED
  BY <1>1, <1>2

\* A record is written while no task runs: completed means what it meant.
LEMMA RecordWrite ==
    ASSUME IInv, TypeOK', NEW c \in Ceremonies, NEW state \in RecordStates \ {"completed"},
           NEW outcome \in Outcomes, Update(c, state, outcome),
           task = Idle, task' = Idle, host # "none",
           UNCHANGED <<ledger, artifact, store, signed>>
    PROVE  IInv'
<1>1. TaskShape' /\ TaskRelies'
  BY DEF TaskShape, TaskRelies, Idle, Steps
<1>2. OneReservation' /\ StoreFollows'
  BY DEF IInv, OneReservation, StoreFollows, store
<1>3. \A d \in Ceremonies : record'[d] = "completed" => record[d] = "completed"
  BY DEF Update, IInv, TypeOK
<1>4. DoneIsKept'
  BY <1>3 DEF IInv, DoneIsKept
<1> QED
  BY <1>1, <1>2, <1>4 DEF IInv

\* The host's messages, a new ceremony, a cancellation, the clock.
LEMMA HostSteps ==
    ASSUME IInv, NEW c \in Ceremonies,
           \/ RestoreApproved(c) \/ BeginCeremony(c) \/ Expire(c) \/ Cancel(c) \/ Tick(c)
           \/ \E good \in BOOLEAN : BeginMessage(c, good) \/ CompleteMessage(c, good)
    PROVE  IInv'
<1>1. TypeOK /\ TaskShape
  BY DEF IInv
<1>2. CASE RestoreApproved(c)
  <2>1. TypeOK'
    BY <1>1, <1>2 DEF RestoreApproved, TypeOK, disk, store, Steps
  <2>2. TaskShape' /\ TaskRelies'
    BY <1>1, <1>2 DEF RestoreApproved, Listed, TaskShape, TaskRelies, ToRestore, disk, Steps
  <2>3. OneReservation' /\ StoreFollows' /\ DoneIsKept'
    BY <1>2 DEF RestoreApproved, IInv, OneReservation, StoreFollows, DoneIsKept, disk, store
  <2> QED
    BY <2>1, <2>2, <2>3 DEF IInv
<1>3. CASE BeginCeremony(c)
  <2>1. PICK outcome \in Outcomes : 
           /\ Charge(outcome)
           /\ Update(c, "waiting", outcome)
           /\ session' = IF outcome = "done" THEN [session EXCEPT ![c] = "waiting"] ELSE session
    BY <1>3 DEF BeginCeremony
  <2>2. TypeOK'
    BY <1>1, <1>3, <2>1, WriteTyped DEF BeginCeremony, TypeOK, store, RecordStates, SessionStates
  <2> QED
    BY <1>3, <2>1, <2>2, RecordWrite DEF BeginCeremony, MayBegin, Listed, RecordStates
<1>4. CASE Expire(c)
  <2>1. PICK outcome \in Outcomes : Charge(outcome) /\ Update(c, "expired", outcome)
    BY <1>4 DEF Expire
  <2>2. TypeOK'
    BY <1>1, <1>4, <2>1, WriteTyped DEF Expire, TypeOK, store, RecordStates, SessionStates
  <2> QED
    BY <1>4, <2>1, <2>2, RecordWrite DEF Expire, RecordStates
<1>5. CASE Cancel(c)
  <2>1. PICK outcome \in Outcomes :
           /\ Charge(outcome)
           /\ Update(c, "cancelled", outcome)
           /\ session' = [session EXCEPT
                ![c] = IF @ = Null THEN @
                       ELSE IF outcome = "done" THEN "cancelled"
                       ELSE IF @ \in {"waiting", "reviewing"} THEN "dead" ELSE @]
    BY <1>5 DEF Cancel
  <2>2. session' \in [Ceremonies -> SessionStates \cup {Null}]
    BY <1>1, <2>1 DEF TypeOK, SessionStates
  <2>3. TypeOK'
    BY <1>1, <1>5, <2>1, <2>2, WriteTyped DEF Cancel, TypeOK, store, RecordStates
  <2> QED
    BY <1>5, <2>1, <2>3, RecordWrite DEF Cancel, MayCancel, RecordStates
<1>6. CASE Tick(c)
  <2>1. TypeOK'
    BY <1>1, <1>6 DEF Tick, TypeOK, disk, store, memory
  <2>2. TaskShape' /\ TaskRelies' /\ OneReservation' /\ StoreFollows' /\ DoneIsKept'
    BY <1>6 DEF Tick, IInv, TaskShape, TaskRelies, OneReservation, StoreFollows, DoneIsKept,
                disk, store, memory
  <2> QED
    BY <2>1, <2>2 DEF IInv
<1>7. ASSUME NEW good \in BOOLEAN, BeginMessage(c, good)
      PROVE  IInv'
  <2>1. session' \in [Ceremonies -> SessionStates \cup {Null}]
    BY <1>1, <1>7 DEF BeginMessage, TypeOK, SessionStates
  <2>2. TypeOK'
    BY <1>1, <1>7, <2>1 DEF BeginMessage, TypeOK, disk, store
  <2> QED
    BY <1>7, <2>2, NoWrite DEF BeginMessage, disk
<1>8. ASSUME NEW good \in BOOLEAN, CompleteMessage(c, good)
      PROVE  IInv'
  <2>1. session' \in [Ceremonies -> SessionStates \cup {Null}]
    BY <1>1, <1>8 DEF CompleteMessage, TypeOK, SessionStates
  <2>2. TypeOK'
    BY <1>1, <1>8, <2>1 DEF CompleteMessage, TypeOK, disk, store, Steps
  <2>3. TaskShape' /\ TaskRelies'
    BY <1>1, <1>8 DEF CompleteMessage, TaskShape, TaskRelies, Steps, Idle
  <2>4. OneReservation' /\ StoreFollows' /\ DoneIsKept'
    BY <1>8 DEF CompleteMessage, IInv, OneReservation, StoreFollows, DoneIsKept, disk, store
  <2> QED
    BY <2>2, <2>3, <2>4 DEF IInv
<1> QED
  BY <1>2, <1>3, <1>4, <1>5, <1>6, <1>7, <1>8

(***************************************************************************)
(* The work on an answer.                                                  *)
(***************************************************************************)
\* An exception leaves no task, and the host's types.
LEMMA FailTyped ==
    ASSUME TypeOK, TaskShape, task.step # "idle", Fail
    PROVE  /\ task' = Idle
           /\ host' \in {"none", host}
           /\ host' \in {"none", "preparing", "restoring", "up"}
           /\ session' \in [Ceremonies -> SessionStates \cup {Null}]
BY DEF Fail, TypeOK, TaskShape, NoSession, SessionStates

\* A step either goes on, on the same host, or ends in an exception.
LEMMA NextStepTyped ==
    ASSUME TypeOK, TaskShape, task.step # "idle", NEW step \in Steps, NEW ok \in BOOLEAN,
           NextStep(ok, step)
    PROVE  /\ session' \in [Ceremonies -> SessionStates \cup {Null}]
           /\ host' \in {"none", "preparing", "restoring", "up"}
           /\ host' \in {"none", host}
           /\ TaskShape'
           /\ task' \in [step : Steps \cup {"idle"}, of : Ceremonies \cup {Null},
                         for : {Null, "phone", "restore"}]
           /\ ok => task' = [task EXCEPT !.step = step] /\ task'.step = step /\ task'.of = task.of
           /\ ~ok => task' = Idle
<1>1. CASE ok
  <2>1. task' = [task EXCEPT !.step = step] /\ UNCHANGED <<host, session>>
    BY <1>1 DEF NextStep, GoTo
  <2>2. task'.step = step /\ task'.of = task.of /\ task'.for = task.for
    BY <2>1 DEF TypeOK
  <2>3. TaskShape'
    BY <2>1, <2>2 DEF TaskShape, Steps
  <2>4. task' \in [step : Steps \cup {"idle"}, of : Ceremonies \cup {Null},
                  for : {Null, "phone", "restore"}]
    BY <2>1 DEF TypeOK
  <2> QED
    BY <1>1, <2>1, <2>2, <2>3, <2>4 DEF TypeOK
<1>2. CASE ~ok
  <2>1. Fail
    BY <1>2 DEF NextStep
  <2>2. /\ task' = Idle
        /\ host' \in {"none", host}
        /\ host' \in {"none", "preparing", "restoring", "up"}
        /\ session' \in [Ceremonies -> SessionStates \cup {Null}]
    BY <2>1, FailTyped
  <2>3. TaskShape'
    BY <2>2 DEF TaskShape, Idle
  <2>4. task' \in [step : Steps \cup {"idle"}, of : Ceremonies \cup {Null},
                  for : {Null, "phone", "restore"}]
    BY <2>2 DEF Idle
  <2> QED
    BY <1>2, <2>2, <2>3, <2>4
<1> QED
  BY <1>1, <1>2

\* An exception that comes without a write.
LEMMA PlainFailure ==
    ASSUME IInv, task.step # "idle", Fail, UNCHANGED <<disk, signed, store>>,
           leftover' \in BOOLEAN, faults' \in 0..MaxFaults, UNCHANGED <<vault, capability, clock>>
    PROVE  IInv'
<1>1. TypeOK /\ TaskShape
  BY DEF IInv
<1>2. /\ task' = Idle
      /\ host' \in {"none", host}
      /\ host' \in {"none", "preparing", "restoring", "up"}
      /\ session' \in [Ceremonies -> SessionStates \cup {Null}]
  BY <1>1, FailTyped
<1>3. task' \in [step : Steps \cup {"idle"}, of : Ceremonies \cup {Null},
                for : {Null, "phone", "restore"}]
  BY <1>2 DEF Idle
<1>4. TypeOK'
  BY <1>1, <1>2, <1>3 DEF TypeOK, disk, store
<1> QED
  BY <1>2, <1>4, NoWrite DEF disk

\* The answer is saved before anything rests on it.
LEMMA SaveResponseStep ==
    ASSUME IInv, NEW c \in Ceremonies, SaveResponse(c)
    PROVE  IInv'
<1>1. /\ TypeOK /\ TaskShape /\ task.step = "respond" /\ task.of = c
      /\ host \in {"restoring", "up"} /\ task.for # Null
  BY DEF IInv, SaveResponse, At, TaskShape
<1>2. PICK outcome \in Outcomes :
         /\ Charge(outcome)
         /\ IF record[c] = "waiting" THEN Update(c, "approved", outcome)
            ELSE UNCHANGED <<record, stray>>
         /\ IF record[c] = "waiting" /\ outcome = "done"
            THEN /\ session' = [session EXCEPT ![c] = "approved"]
                 /\ GoTo("load")
                 /\ UNCHANGED host
            ELSE Fail
  BY DEF SaveResponse
<1>3. UNCHANGED <<ledger, artifact, store, leftover, vault, capability, clock, signed>>
  BY DEF SaveResponse
<1>4. faults' \in 0..MaxFaults
  BY <1>1, <1>2, WriteTyped DEF RecordStates
<1>4a. stray' \in BOOLEAN
  <2>1. CASE record[c] = "waiting"
    BY <1>1, <1>2, <2>1, WriteTyped DEF RecordStates
  <2>2. CASE record[c] # "waiting"
    BY <1>1, <1>2, <2>2 DEF TypeOK
  <2> QED
    BY <2>1, <2>2
<1>5. /\ record' \in [Ceremonies -> RecordStates \cup {Null}]
      /\ \A d \in Ceremonies : record'[d] = "completed" => record[d] = "completed"
  BY <1>1, <1>2 DEF Update, TypeOK, RecordStates
<1>6. OneReservation' /\ DoneIsKept'
  BY <1>3, <1>5 DEF IInv, OneReservation, DoneIsKept
<1>7. CASE record[c] = "waiting" /\ outcome = "done"
  <2>1. /\ task' = [task EXCEPT !.step = "load"]
        /\ session' = [session EXCEPT ![c] = "approved"]
        /\ host' = host
        /\ record'[c] = "approved"
    BY <1>1, <1>2, <1>7 DEF GoTo, Update, TypeOK
  <2>2. task'.step = "load" /\ task'.of = c /\ task'.for = task.for
    BY <1>1, <2>1 DEF TypeOK
  <2>3. TypeOK'
    BY <1>1, <1>3, <1>4, <1>5, <1>4a, <2>1 DEF TypeOK, store, SessionStates, Steps
  <2>4. TaskShape' /\ TaskRelies' /\ StoreFollows'
    BY <1>1, <1>3, <2>1, <2>2 DEF IInv, TaskShape, TaskRelies, StoreFollows, store
  <2> QED
    BY <1>6, <2>3, <2>4 DEF IInv
<1>8. CASE ~(record[c] = "waiting" /\ outcome = "done")
  <2>1. Fail
    BY <1>2, <1>8
  <2>2. /\ task' = Idle
        /\ host' \in {"none", host}
        /\ host' \in {"none", "preparing", "restoring", "up"}
        /\ session' \in [Ceremonies -> SessionStates \cup {Null}]
    BY <1>1, <2>1, FailTyped
  <2>3. TaskShape' /\ TaskRelies' /\ StoreFollows'
    BY <1>3, <2>2 DEF IInv, TaskShape, TaskRelies, StoreFollows, store, Idle, Steps
  <2>4. task' \in [step : Steps \cup {"idle"}, of : Ceremonies \cup {Null},
                  for : {Null, "phone", "restore"}]
    BY <2>2 DEF Idle
  <2>5. TypeOK'
    BY <1>1, <1>3, <1>4, <1>5, <1>4a, <2>2, <2>4 DEF TypeOK, store
  <2> QED
    BY <1>6, <2>3, <2>5 DEF IInv
<1> QED
  BY <1>7, <1>8

\* An artifact of this ceremony is reused; otherwise a new one is composed.
LEMMA LoadStep ==
    ASSUME IInv, NEW c \in Ceremonies, LoadMatchingArtifact(c)
    PROVE  IInv'
<1> DEFINE step == IF artifact = c THEN "consume" ELSE "compose"
<1>1. TypeOK /\ TaskShape /\ task.step = "load" /\ task.of = c
  BY DEF IInv, LoadMatchingArtifact, At
<1>2. /\ task' = [task EXCEPT !.step = step]
      /\ UNCHANGED <<disk, host, session, store, leftover, vault, capability, clock, faults,
                     signed>>
  BY DEF LoadMatchingArtifact, GoTo
<1>3. task'.step = step /\ task'.of = c /\ task'.for = task.for
  BY <1>1, <1>2 DEF TypeOK
<1>4. TypeOK'
  BY <1>1, <1>2 DEF TypeOK, disk, store, Steps
<1>5. TaskShape' /\ TaskRelies'
  BY <1>1, <1>2, <1>3 DEF IInv, TaskShape, TaskRelies, disk, store, Steps
<1>6. OneReservation' /\ StoreFollows' /\ DoneIsKept'
  BY <1>2 DEF IInv, OneReservation, StoreFollows, DoneIsKept, disk, store
<1> QED
  BY <1>4, <1>5, <1>6 DEF IInv

\* Composing goes on with this ceremony's reservation, or with none at all.
LEMMA ComposeStep ==
    ASSUME IInv, NEW c \in Ceremonies, Compose(c)
    PROVE  IInv'
<1> DEFINE ok == /\ capability
                 /\ vault = "unlocked"
                 /\ clock[c] # "after"
                 /\ ~poisoned
                 /\ records[c] = "reserved" \/ records = Free
           step == IF records[c] = "reserved" THEN "sign" ELSE "reserve"
<1>1. TypeOK /\ TaskShape /\ task.step = "compose" /\ task.of = c
  BY DEF IInv, Compose, At
<1>2. UNCHANGED <<disk, store, leftover, vault, capability, clock, signed>>
  BY DEF Compose
<1>3. CASE NextStep(ok, step) /\ UNCHANGED faults
  <2>1. CASE ok
    <3>1. GoTo(step) /\ UNCHANGED <<host, session>>
      BY <1>3, <2>1 DEF NextStep
    <3>2. task'.step = step /\ task'.of = c /\ task'.for = task.for
      BY <1>1, <3>1 DEF TypeOK, GoTo
    <3>3. TypeOK'
      BY <1>1, <1>2, <1>3, <3>1 DEF TypeOK, GoTo, disk, store, Steps
    <3>4. TaskShape' /\ TaskRelies'
      BY <1>1, <1>2, <2>1, <3>1, <3>2 DEF IInv, TaskShape, TaskRelies, disk, store, Steps
    <3>5. OneReservation' /\ StoreFollows' /\ DoneIsKept'
      BY <1>2, <3>1 DEF IInv, OneReservation, StoreFollows, DoneIsKept, disk, store
    <3> QED
      BY <3>3, <3>4, <3>5 DEF IInv
  <2>2. CASE ~ok
    <3>1. Fail
      BY <1>3, <2>2 DEF NextStep
    <3> QED
      BY <1>1, <1>2, <1>3, <3>1, PlainFailure DEF TypeOK
  <2> QED
    BY <2>1, <2>2
<1>4. CASE Fail /\ Disturb
  <2>1. faults' \in 0..MaxFaults
    BY <1>1, <1>4 DEF TypeOK, Disturb
  <2> QED
    BY <1>1, <1>2, <1>4, <2>1, PlainFailure DEF TypeOK
<1> QED
  BY <1>3, <1>4 DEF Compose

\* persist writes this ceremony's reservation and no other, and the store
\* follows or refuses.
LEMMA PersistFollows ==
    ASSUME TypeOK, NEW c \in Ceremonies, NEW state \in {"reserved", "consumed"},
           NEW outcome \in {"done", "lost", "torn"}, records = ledger, Persist(c, state, outcome)
    PROVE  /\ ledger' \in [Ceremonies -> {"free", "reserved", "consumed"}]
           /\ records' \in [Ceremonies -> {"free", "reserved", "consumed"}]
           /\ poisoned' \in BOOLEAN
           /\ poisoned' \/ records' = ledger'
           /\ \A d \in Ceremonies \ {c} : ledger'[d] = ledger[d]
           /\ ledger'[c] \in {ledger[c], state}
           /\ outcome = "done" => ~poisoned' /\ records'[c] = state
<1>1. poisoned' = (outcome # "done")
  BY DEF Persist
<1>2. poisoned' \in BOOLEAN
  BY <1>1
<1>3. ledger' \in {ledger, [ledger EXCEPT ![c] = state]}
  BY DEF Persist
<1>4. records' \in {records, [records EXCEPT ![c] = state]}
  BY DEF Persist
<1>5. outcome = "done" => records' = [records EXCEPT ![c] = state] /\ ledger' = records'
  BY DEF Persist
<1>6. poisoned' \/ records' = ledger'
  BY <1>1, <1>5
<1>7. /\ ledger' \in [Ceremonies -> {"free", "reserved", "consumed"}]
      /\ \A d \in Ceremonies \ {c} : ledger'[d] = ledger[d]
      /\ ledger'[c] \in {ledger[c], state}
  BY <1>3 DEF TypeOK
<1>8. records' \in [Ceremonies -> {"free", "reserved", "consumed"}]
  BY <1>4 DEF TypeOK
<1>9. outcome = "done" => ~poisoned' /\ records'[c] = state
  BY <1>1, <1>5 DEF TypeOK
<1> QED
  BY <1>2, <1>6, <1>7, <1>8, <1>9

\* A reservation is made where the whole ledger is free.
LEMMA ReserveStep ==
    ASSUME IInv, NEW c \in Ceremonies, Reserve(c)
    PROVE  IInv'
<1>1. /\ TypeOK /\ TaskShape /\ task.step = "reserve" /\ task.of = c
      /\ host \in {"restoring", "up"} /\ host # "none"
  BY DEF IInv, Reserve, At, TaskShape
<1>2. PICK outcome \in Outcomes :
         Charge(outcome) /\ Persist(c, "reserved", outcome) /\ NextStep(outcome = "done", "sign")
  BY DEF Reserve
<1>3. UNCHANGED <<record, stray, artifact, leftover, vault, capability, clock, signed>>
  BY DEF Reserve
<1>4. faults' \in 0..MaxFaults /\ outcome \in {"done", "lost", "torn"}
  BY <1>1, <1>2, WriteTyped DEF RecordStates, Outcomes
<1>5. ~poisoned /\ records = Free /\ ledger = Free /\ records = ledger
  BY <1>1 DEF IInv, StoreFollows, TaskRelies
<1>6. /\ ledger' \in [Ceremonies -> {"free", "reserved", "consumed"}]
      /\ records' \in [Ceremonies -> {"free", "reserved", "consumed"}]
      /\ poisoned' \in BOOLEAN
      /\ poisoned' \/ records' = ledger'
      /\ \A d \in Ceremonies \ {c} : ledger'[d] = ledger[d]
      /\ ledger'[c] \in {ledger[c], "reserved"}
      /\ outcome = "done" => ~poisoned' /\ records'[c] = "reserved"
  BY <1>1, <1>2, <1>4, <1>5, PersistFollows
<1>7. artifact = Null /\ signed = {} /\ artifact # c
  BY <1>1, <1>5 DEF IInv, OneReservation, Free, TypeOK
<1>8. /\ session' \in [Ceremonies -> SessionStates \cup {Null}]
      /\ host' \in {"none", "preparing", "restoring", "up"}
      /\ TaskShape'
      /\ task' \in [step : Steps \cup {"idle"}, of : Ceremonies \cup {Null},
                    for : {Null, "phone", "restore"}]
      /\ outcome = "done" => task'.step = "sign" /\ task'.of = c
      /\ outcome # "done" => task' = Idle
  BY <1>1, <1>2, NextStepTyped DEF Steps
<1>9. TypeOK'
  BY <1>1, <1>3, <1>4, <1>6, <1>8 DEF TypeOK
<1>10. \A d \in Ceremonies : ledger'[d] # "free" => d = c
  BY <1>5, <1>6 DEF Free
<1>11. OneReservation'
  BY <1>3, <1>7, <1>10 DEF OneReservation
<1>12. DoneIsKept'
  BY <1>3, <1>5, <1>6 DEF IInv, DoneIsKept, Free
<1>13. StoreFollows'
  BY <1>6 DEF StoreFollows
<1>14. TaskRelies'
  <2>1. CASE outcome = "done"
    BY <1>1, <1>3, <1>6, <1>7, <1>8, <2>1 DEF IInv, TaskRelies, Steps
  <2>2. CASE outcome # "done"
    BY <1>8, <2>2 DEF TaskRelies, Idle, Steps
  <2> QED
    BY <2>1, <2>2
<1> QED
  BY <1>8, <1>9, <1>11, <1>12, <1>13, <1>14 DEF IInv

\* Device Vault signs under a reservation that the disk holds.
LEMMA SignStep ==
    ASSUME IInv, NEW c \in Ceremonies, Sign(c)
    PROVE  IInv'
<1> DEFINE may == HasExactReservation(c) /\ capability
<1>1. /\ TypeOK /\ TaskShape /\ task.step = "sign" /\ task.of = c
      /\ host # "none"
  BY DEF IInv, Sign, At, TaskShape
<1>2. /\ signed' = IF may THEN signed \cup {c} ELSE signed
      /\ NextStep(may, "artifact")
      /\ UNCHANGED <<disk, store, leftover, vault, capability, clock, faults>>
  BY DEF Sign
<1>3. ledger[c] = "reserved"
  BY <1>1 DEF IInv, StoreFollows, TaskRelies
<1>4. may \in BOOLEAN
  BY <1>1 DEF TypeOK, HasExactReservation
<1> HIDE DEF may
<1>5. /\ session' \in [Ceremonies -> SessionStates \cup {Null}]
      /\ host' \in {"none", "preparing", "restoring", "up"}
      /\ host' \in {"none", host}
      /\ TaskShape'
      /\ task' \in [step : Steps \cup {"idle"}, of : Ceremonies \cup {Null},
                    for : {Null, "phone", "restore"}]
      /\ may => task'.step = "artifact" /\ task'.of = c
      /\ ~may => task' = Idle
  BY <1>1, <1>2, <1>4, NextStepTyped DEF Steps
<1>6. TypeOK'
  BY <1>1, <1>2, <1>5 DEF TypeOK, disk, store
<1>7. OneReservation'
  BY <1>2, <1>3 DEF IInv, OneReservation, disk
<1>8. StoreFollows' /\ DoneIsKept'
  BY <1>1, <1>2, <1>5 DEF IInv, StoreFollows, DoneIsKept, disk, store
<1>9. TaskRelies'
  <2>1. CASE may
    BY <1>1, <1>2, <1>5, <2>1 DEF IInv, TaskRelies, disk, store, Steps
  <2>2. CASE ~may
    BY <1>5, <2>2 DEF TaskRelies, Idle, Steps
  <2> QED
    BY <2>1, <2>2
<1> QED
  BY <1>5, <1>6, <1>7, <1>8, <1>9 DEF IInv

\* The artifact is written where none is, for the one reservation there is.
LEMMA ArtifactStep ==
    ASSUME IInv, NEW c \in Ceremonies, PersistSignedArtifact(c)
    PROVE  IInv'
<1>1. /\ TypeOK /\ TaskShape /\ task.step = "artifact" /\ task.of = c
      /\ host # "none"
  BY DEF IInv, PersistSignedArtifact, At, TaskShape
<1>2. UNCHANGED <<record, stray, ledger, store, vault, capability, clock, signed>>
  BY DEF PersistSignedArtifact
<1>3. CASE leftover
  BY <1>1, <1>2, <1>3, PlainFailure DEF PersistSignedArtifact, disk, TypeOK
<1>4. CASE ~leftover
  <2>1. PICK outcome \in Outcomes :
           /\ Charge(outcome)
           /\ artifact' = IF outcome = "lost" THEN artifact ELSE c
           /\ leftover' = (outcome = "lost")
           /\ NextStep(outcome = "done", "consume")
    BY <1>4 DEF PersistSignedArtifact
  <2>2. faults' \in 0..MaxFaults /\ leftover' \in BOOLEAN
    BY <1>1, <2>1, WriteTyped DEF RecordStates
  <2>3. ledger[c] = "reserved" /\ artifact = Null
    BY <1>1 DEF IInv, StoreFollows, TaskRelies, OneReservation, TypeOK
  <2>4. /\ session' \in [Ceremonies -> SessionStates \cup {Null}]
        /\ host' \in {"none", "preparing", "restoring", "up"}
        /\ host' \in {"none", host}
        /\ TaskShape'
        /\ task' \in [step : Steps \cup {"idle"}, of : Ceremonies \cup {Null},
                      for : {Null, "phone", "restore"}]
        /\ outcome = "done" => task'.step = "consume" /\ task'.of = c
        /\ outcome # "done" => task' = Idle
    BY <1>1, <2>1, NextStepTyped DEF Steps
  <2>5. TypeOK'
    BY <1>1, <1>2, <2>1, <2>2, <2>4 DEF TypeOK, store
  <2>6. OneReservation' /\ DoneIsKept'
    BY <1>2, <2>1, <2>3 DEF IInv, OneReservation, DoneIsKept
  <2>7. StoreFollows'
    BY <1>1, <1>2, <2>4 DEF IInv, StoreFollows, store
  <2>8. TaskRelies'
    <3>1. CASE outcome = "done"
      BY <1>1, <1>2, <2>1, <2>4, <3>1 DEF IInv, TaskRelies, Steps
    <3>2. CASE outcome # "done"
      BY <2>4, <3>2 DEF TaskRelies, Idle, Steps
    <3> QED
      BY <3>1, <3>2
  <2> QED
    BY <2>4, <2>5, <2>6, <2>7, <2>8 DEF IInv
<1> QED
  BY <1>3, <1>4

\* A reservation is consumed once its artifact is on disk.
LEMMA ConsumeStep ==
    ASSUME IInv, NEW c \in Ceremonies, MarkConsumed(c)
    PROVE  IInv'
<1>1. /\ TypeOK /\ TaskShape /\ task.step = "consume" /\ task.of = c
      /\ host # "none" /\ artifact = c
  BY DEF IInv, MarkConsumed, At, TaskShape, TaskRelies
<1>2. UNCHANGED <<record, stray, artifact, leftover, vault, capability, clock, signed>>
  BY DEF MarkConsumed
<1>3. CASE poisoned \/ records[c] # "reserved"
  <2> DEFINE ok == ~poisoned /\ records[c] = "consumed"
  <2>1. NextStep(ok, "complete") /\ UNCHANGED <<ledger, store, faults>>
    BY <1>3 DEF MarkConsumed
  <2>2. ok \in BOOLEAN
    OBVIOUS
  <2>3. ok => ~poisoned' /\ records'[c] = "consumed"
    BY <2>1 DEF store
  <2> HIDE DEF ok
  <2>4. /\ session' \in [Ceremonies -> SessionStates \cup {Null}]
        /\ host' \in {"none", "preparing", "restoring", "up"}
        /\ host' \in {"none", host}
        /\ TaskShape'
        /\ task' \in [step : Steps \cup {"idle"}, of : Ceremonies \cup {Null},
                      for : {Null, "phone", "restore"}]
        /\ ok => task'.step = "complete" /\ task'.of = c
        /\ ~ok => task' = Idle
    BY <1>1, <2>1, <2>2, NextStepTyped DEF Steps
  <2>5. TypeOK'
    BY <1>1, <1>2, <2>1, <2>4 DEF TypeOK, store
  <2>6. OneReservation' /\ DoneIsKept' /\ StoreFollows'
    BY <1>1, <1>2, <2>1, <2>4 DEF IInv, OneReservation, DoneIsKept, StoreFollows, store
  <2>7. TaskRelies'
    <3>1. CASE ok
      BY <1>1, <1>2, <2>3, <2>4, <3>1 DEF IInv, TaskRelies, Steps
    <3>2. CASE ~ok
      BY <2>4, <3>2 DEF TaskRelies, Idle, Steps
    <3> QED
      BY <3>1, <3>2
  <2> QED
    BY <2>4, <2>5, <2>6, <2>7 DEF IInv
<1>4. CASE ~(poisoned \/ records[c] # "reserved")
  <2>1. PICK outcome \in Outcomes :
           Charge(outcome) /\ Persist(c, "consumed", outcome)
           /\ NextStep(outcome = "done", "complete")
    BY <1>4 DEF MarkConsumed
  <2>2. faults' \in 0..MaxFaults /\ outcome \in {"done", "lost", "torn"}
    BY <1>1, <2>1, WriteTyped DEF RecordStates, Outcomes
  <2>3. records = ledger /\ ledger[c] = "reserved"
    BY <1>1, <1>4 DEF IInv, StoreFollows
  <2>4. /\ ledger' \in [Ceremonies -> {"free", "reserved", "consumed"}]
        /\ records' \in [Ceremonies -> {"free", "reserved", "consumed"}]
        /\ poisoned' \in BOOLEAN
        /\ poisoned' \/ records' = ledger'
        /\ \A d \in Ceremonies \ {c} : ledger'[d] = ledger[d]
        /\ ledger'[c] \in {ledger[c], "consumed"}
        /\ outcome = "done" => ~poisoned' /\ records'[c] = "consumed"
    BY <1>1, <2>1, <2>2, <2>3, PersistFollows
  <2>5. /\ session' \in [Ceremonies -> SessionStates \cup {Null}]
        /\ host' \in {"none", "preparing", "restoring", "up"}
        /\ TaskShape'
        /\ task' \in [step : Steps \cup {"idle"}, of : Ceremonies \cup {Null},
                      for : {Null, "phone", "restore"}]
        /\ outcome = "done" => task'.step = "complete" /\ task'.of = c
        /\ outcome # "done" => task' = Idle
    BY <1>1, <2>1, NextStepTyped DEF Steps
  <2>6. TypeOK'
    BY <1>1, <1>2, <2>2, <2>4, <2>5 DEF TypeOK
  <2>7. \A d \in Ceremonies : ledger'[d] # "free" <=> ledger[d] # "free"
    BY <2>3, <2>4
  <2>8. OneReservation'
    BY <1>1, <1>2, <2>7 DEF IInv, OneReservation, TypeOK
  <2>9. DoneIsKept'
    BY <1>1, <1>2, <2>3, <2>4 DEF IInv, DoneIsKept
  <2>10. StoreFollows'
    BY <2>4 DEF StoreFollows
  <2>11. TaskRelies'
    <3>1. CASE outcome = "done"
      BY <1>1, <1>2, <2>4, <2>5, <3>1 DEF IInv, TaskRelies, Steps
    <3>2. CASE outcome # "done"
      BY <2>5, <3>2 DEF TaskRelies, Idle, Steps
    <3> QED
      BY <3>1, <3>2
  <2> QED
    BY <2>5, <2>6, <2>8, <2>9, <2>10, <2>11 DEF IInv
<1> QED
  BY <1>3, <1>4

\* A ceremony is completed once its reservation is consumed.
LEMMA CompleteStep ==
    ASSUME IInv, NEW c \in Ceremonies, MarkCompleted(c)
    PROVE  IInv'
<1>1. /\ TypeOK /\ TaskShape /\ task.step = "complete" /\ task.of = c
      /\ host # "none" /\ ledger[c] = "consumed"
  BY DEF IInv, MarkCompleted, At, TaskShape, TaskRelies, StoreFollows
<1>2. PICK outcome \in Outcomes :
         /\ Charge(outcome)
         /\ Update(c, "completed", outcome)
         /\ IF outcome = "done"
            THEN /\ task' = Idle
                 /\ session' = IF task.for = "phone" THEN [session EXCEPT ![c] = "completed"]
                                                     ELSE session
                 /\ UNCHANGED host
            ELSE Fail
  BY DEF MarkCompleted
<1>3. UNCHANGED <<ledger, artifact, store, leftover, vault, capability, clock, signed>>
  BY DEF MarkCompleted
<1>4. /\ faults' \in 0..MaxFaults
      /\ record' \in [Ceremonies -> RecordStates \cup {Null}]
      /\ stray' \in BOOLEAN
  BY <1>1, <1>2, WriteTyped DEF RecordStates
<1>5. /\ task' = Idle
      /\ host' \in {"none", host}
      /\ host' \in {"none", "preparing", "restoring", "up"}
      /\ session' \in [Ceremonies -> SessionStates \cup {Null}]
  <2>1. CASE outcome = "done"
    BY <1>1, <1>2, <2>1 DEF TypeOK, SessionStates
  <2>2. CASE outcome # "done"
    <3>1. Fail
      BY <1>2, <2>2
    <3> QED
      BY <1>1, <3>1, FailTyped
  <2> QED
    BY <2>1, <2>2
<1>6. task' \in [step : Steps \cup {"idle"}, of : Ceremonies \cup {Null},
                for : {Null, "phone", "restore"}]
  BY <1>5 DEF Idle
<1>7. TypeOK'
  BY <1>1, <1>3, <1>4, <1>5, <1>6 DEF TypeOK, store
<1>8. TaskShape' /\ TaskRelies'
  BY <1>5 DEF TaskShape, TaskRelies, Idle, Steps
<1>9. OneReservation' /\ StoreFollows'
  BY <1>1, <1>3, <1>5 DEF IInv, OneReservation, StoreFollows, store
<1>10. DoneIsKept'
  BY <1>1, <1>2, <1>3 DEF IInv, DoneIsKept, Update, TypeOK
<1> QED
  BY <1>7, <1>8, <1>9, <1>10 DEF IInv

-----------------------------------------------------------------------------
\* Every step keeps the invariant.
LEMMA NextIInv == IInv /\ [Next]_vars => IInv'
<1> SUFFICES ASSUME IInv, [Next]_vars PROVE IInv'
  OBVIOUS
<1>1. ASSUME NEW c \in Ceremonies, Work(c)
      PROVE  IInv'
  BY <1>1, SaveResponseStep, LoadStep, ComposeStep, ReserveStep, SignStep, ArtifactStep,
     ConsumeStep, CompleteStep DEF Work
<1>2. CASE UNCHANGED vars
  BY <1>2 DEF vars, disk, memory, store, IInv, TypeOK, TaskShape, OneReservation, StoreFollows,
              TaskRelies, DoneIsKept
<1> QED
  BY <1>1, <1>2, OutsideSteps, HostSteps DEF Next

\* The ledger, the artifact and the task keep their invariant.
LEMMA SpecIInv == Spec => []IInv
BY InitIInv, NextIInv, PTL DEF Spec

\* Device Vault signs for one ceremony at most, and never before its
\* reservation is in replay-v1.json, for any number of ceremonies and whatever
\* crashes, locks and failed writes happen between the steps.
THEOREM OneSignature == Spec => []OneCeremonyIsSigned
<1>1. IInv => OneCeremonyIsSigned
  <2> SUFFICES ASSUME IInv PROVE OneCeremonyIsSigned
    OBVIOUS
  <2>1. TypeOK /\ OneReservation
    BY DEF IInv
  <2>2. \A c, d \in signed : c = d
    BY <2>1 DEF OneReservation, TypeOK
  <2>3. Cardinality(signed) <= 1
    <3>1. CASE signed = {}
      BY <3>1, FS_EmptySet
    <3>2. CASE signed # {}
      <4>1. PICK c : signed = {c}
        BY <2>2, <3>2
      <4>2. Cardinality({c}) = 1
        BY FS_Singleton
      <4> QED
        BY <4>1, <4>2
    <3> QED
      BY <3>1, <3>2
  <2> QED
    BY <2>1, <2>3 DEF OneCeremonyIsSigned, OneReservation
<1> QED
  BY <1>1, SpecIInv, PTL

\* A consumed reservation has its signed artifact on disk, and a completed
\* record its consumed reservation, also across the restarts that resume it.
THEOREM DoneStaysKept == Spec => []DoneIsKept
<1>1. IInv => DoneIsKept
  BY DEF IInv
<1> QED
  BY <1>1, SpecIInv, PTL

\* Once an artifact is on disk no step signs and none replaces it: whoever is
\* at the signing step has the one reservation, and found no artifact of it.
THEOREM ArtifactStays == Spec => ArtifactIsReused
<1>1. IInv /\ [Next]_vars =>
         [artifact # Null => artifact' = artifact /\ ~\E c \in Ceremonies : Sign(c)]_vars
  <2> SUFFICES ASSUME IInv, Next, artifact # Null
               PROVE  artifact' = artifact /\ ~\E c \in Ceremonies : Sign(c)
    OBVIOUS
  <2>1. task.step \notin {"sign", "artifact"}
    BY DEF IInv, TypeOK, TaskShape, OneReservation, StoreFollows, TaskRelies
  <2>2. ~\E c \in Ceremonies : Sign(c) \/ PersistSignedArtifact(c)
    BY <2>1 DEF Sign, PersistSignedArtifact, At
  <2>3. ASSUME NEW c \in Ceremonies, Work(c)
        PROVE  artifact' = artifact
    BY <2>2, <2>3 DEF Work, SaveResponse, LoadMatchingArtifact, Compose, Reserve, MarkConsumed,
                      MarkCompleted, disk
  <2>4. artifact' = artifact
    BY <2>3 DEF Next, Begin, Prepared, ListRefused, Lock, Unlock, Crash, CrashInUpdate, Quit,
                ProcessEnds, RestoreApproved, BeginCeremony, Expire, BeginMessage, CompleteMessage, Cancel, Tick, disk
  <2> QED
    BY <2>2, <2>4
<1> QED
  BY <1>1, SpecIInv, PTL DEF Spec, ArtifactIsReused

\* Device Vault signs for a ceremony only while its durable record says
\* approved, so a cancelled or an expired one is signed in no later run.
THEOREM SignedOnlyApproved == Spec => SignedWhileApproved
<1>1. IInv /\ [Next]_vars => [\A c \in signed' \ signed : record[c] = "approved"]_vars
  <2> SUFFICES ASSUME IInv, Next
               PROVE  \A c \in signed' \ signed : record[c] = "approved"
    OBVIOUS
  <2>1. ASSUME NEW c \in Ceremonies, Sign(c)
        PROVE  record[c] = "approved" /\ signed' \ signed \subseteq {c}
    BY <2>1 DEF Sign, At, IInv, TaskRelies, Steps
  <2>2. ASSUME NEW c \in Ceremonies, Work(c), ~Sign(c)
        PROVE  signed' = signed
    BY <2>2 DEF Work, SaveResponse, LoadMatchingArtifact, Compose, Reserve,
                PersistSignedArtifact, MarkConsumed, MarkCompleted
  <2>3. (\E c \in Ceremonies : Sign(c)) \/ signed' = signed
    BY <2>2 DEF Next, Begin, Prepared, ListRefused, Lock, Unlock, Crash, CrashInUpdate, Quit,
                ProcessEnds, RestoreApproved, BeginCeremony, Expire, BeginMessage, CompleteMessage, Cancel, Tick
  <2> QED
    BY <2>1, <2>3
<1> QED
  BY <1>1, SpecIInv, PTL DEF Spec, SignedWhileApproved
=============================================================================
