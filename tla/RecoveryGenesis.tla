--------------------------- MODULE RecoveryGenesis ---------------------------
(***************************************************************************)
(* The enrollment of the recovery roles at genesis: the coordinator        *)
(* (recovery-genesis-coordinator.cjs) over its staging host                *)
(* (recovery-genesis-staging-host.cjs) over three files: the journal, the  *)
(* sidecar with the credential obligation, and the finalized profile.      *)
(*                                                                         *)
(* A method runs to its end or to its first failing file operation; what   *)
(* it writes is the list call.todo, and a process may end between any two  *)
(* writes.  Two memories follow the files: the host's, written after each  *)
(* write, and the coordinator's, written when the host returns.  The lock  *)
(* on the directory is modelled in RecoveryStaging; here one process at a  *)
(* time holds it, and nothing else writes (the header of the host names    *)
(* that as its threat model).  Temporary files, which a restart sweeps and *)
(* a poisoned root keeps, and the bound of the quarantine are left out.    *)
(***************************************************************************)
EXTENDS Naturals, Sequences, FiniteSets

CONSTANTS
    Intents, Credentials, None,
    Slots,          \* roles of a journal: 3 in the code
    MaxCeremonies,  \* role ceremonies minted in a behaviour
    MaxFaults       \* failing file operations, damaged files, ends of processes

ASSUME ConstantsAreValid ==
    /\ None \notin Intents \cup Credentials
    /\ Slots \in Nat \ {0} /\ MaxCeremonies \in Nat /\ MaxFaults \in Nat

VARIABLES
    disk,       \* the three files
    up,         \* is there a process with a coordinator?
    host,       \* the memory of the staging host
    coord,      \* the memory of the coordinator
    call,       \* the method that runs and the writes it has left
    minted,     \* the last role ceremony
    expired,    \* intents whose time is over
    history,    \* what happened to each ceremony (no state of the code)
    faults
vars == <<disk, up, host, coord, call, minted, expired, history, faults>>

Journal(s, i, e) == [state |-> s, intent |-> i, entries |-> e]
NoJournal == Journal("ABSENT", None, <<>>)
Ended(j, s) == [j EXCEPT !.state = s]

NoSidecar == [state |-> "ABSENT", intent |-> None, role |-> 0, ceremony |-> 0,
              credential |-> None, mismatch |-> FALSE]
Creating == {"CREATION_AUTHORIZED", "CREDENTIAL_RECORDED"}
Orphaned(s) == [s EXCEPT !.state = "ORPHANED"]

\* The profile is represented by the journal it embeds.
Files == {"journal", "sidecar", "profile"}
NoFiles == [journal |-> NoJournal, sidecar |-> NoSidecar, profile |-> NoJournal]
Damaged(f) == [NoFiles[f] EXCEPT !.state = "CORRUPT"]

NoCall == [op |-> "none", todo |-> <<>>]
Put(f, v) == [file |-> f, val |-> v]
Drop(f) == Put(f, NoFiles[f])
FinishStep == Put("finish", None)

Fresh == [poisoned |-> FALSE, reconciled |-> FALSE, mem |-> NoFiles]
FreshCoord == [poisoned |-> FALSE, reconciled |-> FALSE, mem |-> NoFiles, ceremony |-> 0]

Init ==
    /\ disk = NoFiles /\ up = FALSE
    /\ host = Fresh /\ coord = FreshCoord /\ call = NoCall
    /\ minted = [n |-> 0, intent |-> None, late |-> FALSE]
    /\ expired = {} /\ faults = 0
    /\ history = [authorized |-> {}, recorded |-> {}, staged |-> {}, cancelled |-> {}]

-----------------------------------------------------------------------------
\* The coordinator

\* derive: the public state, from the coordinator's memory alone.
Derive ==
    LET j == coord.mem.journal
        s == coord.mem.sidecar.state
    IN IF coord.poisoned THEN "POISONED"
       ELSE IF ~coord.reconciled THEN "UNRECONCILED"
       ELSE IF s = "ORPHANED" THEN "ORPHAN_CREDENTIAL_BLOCKED"
       ELSE IF coord.mem.profile # NoJournal THEN "FINALIZED"
       ELSE IF j = NoJournal THEN "READY_ABSENT"
       ELSE IF j.state # "STAGING" THEN "READY_TERMINAL"
       ELSE IF Len(j.entries) = Slots THEN "READY_FOR_PROFILE_VALIDATION"
       ELSE IF s = "ABSENT" THEN "READY_STAGING" ELSE s

CeremonyStates == Creating \cup {"ACTIVE"}

Idle == up /\ call = NoCall
\* Both layers take a method: the coordinator derives one of these states, and
\* the host is not poisoned.
Ready(states) == Idle /\ ~host.poisoned /\ Derive \in states

\* Mutant: a committed profile does not stop later changes.
NotFinalizedIgnored == TRUE

\* The host's guard on every change of the journal or the obligation.
NotFinalized == host.mem.profile = NoJournal

HostStages == NotFinalized /\ host.mem.journal.state = "STAGING"

Run(op, todo, sidecar) ==
    /\ call' = [op |-> op, todo |-> todo]
    /\ host' = [host EXCEPT !.mem.sidecar = sidecar]
    /\ UNCHANGED <<disk, up, coord, expired, history, faults>>

Poison ==
    /\ host' = [host EXCEPT !.poisoned = TRUE]
    /\ coord' = [coord EXCEPT !.poisoned = TRUE]
    /\ call' = NoCall

-----------------------------------------------------------------------------
\* Restart

Overdue(j) == j.state = "STAGING" /\ j.intent \in expired

\* Mutant: the obligation is dropped although a credential may exist.
SidecarDropped(s) == IF s.state \in CeremonyStates THEN <<Drop("sidecar")>> ELSE <<>>

\* handleSidecarBeforeJournalTerminal: the obligation ends before its journal.
SidecarFirst(s) ==
    CASE s.state = "ACTIVE" -> <<Drop("sidecar")>>
      [] s.state \in Creating -> <<Put("sidecar", Orphaned(s))>>
      [] OTHER -> <<>>

\* What the host remembers of a sidecar that such a method only reads.
Seen(s) == IF s.state \in {"ABSENT", "ORPHANED"} THEN s ELSE host.mem.sidecar

\* A profile and a journal that no run of finalizeProfile leaves behind.
Conflict(j, p) ==
    \/ p # NoJournal /\ j \notin {NoJournal, p, Ended(p, "SUPERSEDED")}
    \/ p = NoJournal /\ j.state = "SUPERSEDED"
    \/ p.state = "CORRUPT"

\* Mutant: a restart leaves the journal of a published profile as it is.
ResolveKeepsJournal(j, p) ==
    CASE j.state = "CORRUPT" -> <<Drop("journal")>>
      [] p = NoJournal /\ Overdue(j) ->
            Append(SidecarFirst(disk.sidecar), Put("journal", Ended(j, "EXPIRED")))
      [] OTHER -> <<>>

Resolve(j, p) ==
    CASE p # NoJournal /\ j = p -> <<Put("journal", Ended(p, "SUPERSEDED"))>>
      [] j.state = "CORRUPT" -> <<Drop("journal")>>
      [] p = NoJournal /\ Overdue(j) ->
            Append(SidecarFirst(disk.sidecar), Put("journal", Ended(j, "EXPIRED")))
      [] OTHER -> <<>>

ReconcileRestart ==
    /\ Ready({"UNRECONCILED"})
    /\ LET j == disk.journal
           p == disk.profile
           unreadable == p = NoJournal /\ Overdue(j) /\ disk.sidecar.state = "CORRUPT"
       IN \/ /\ Conflict(j, p) \/ unreadable
             /\ Poison
             /\ UNCHANGED <<disk, up, expired, history, faults>>
          \/ /\ ~Conflict(j, p) /\ ~unreadable
             /\ Run("reconcile", Append(Resolve(j, p), FinishStep), host.mem.sidecar)
    /\ UNCHANGED minted

Occupied(s, j) == s.role \in 1..Len(j.entries)
Matches(s, j) == j.entries[s.role].credential = s.credential

\* A sidecar that does not belong to the journal it lies beside, or cannot.
Unexplained(s, j) ==
    \/ s.state = "CORRUPT"
    \/ /\ s # NoSidecar /\ j # NoJournal
       /\ \/ s.intent # j.intent
          \/ ~Occupied(s, j) /\ s.role # Len(j.entries) + 1
          \/ Occupied(s, j) /\ \/ j.entries[s.role].ceremony # s.ceremony
                               \/ s.state \in {"ACTIVE", "CREATION_AUTHORIZED"}

\* Mutant: a restart goes on with an orphan whose credential it knows.
SettleRevives(s, j) ==
    CASE s.state = "ACTIVE" -> IF j.state = "STAGING" THEN <<>> ELSE <<Drop("sidecar")>>
      [] s.state \in Creating -> <<Put("sidecar", Orphaned(s))>>
      [] s.state = "ORPHANED" /\ s.credential # None /\ ~Occupied(s, j) ->
            <<Put("sidecar", [s EXCEPT !.state = "CREDENTIAL_RECORDED"])>>
      [] OTHER -> <<>>

\* Mutant: a restart resumes a creation it finds.
SettleResumes(s, j) ==
    IF s.state = "CREDENTIAL_RECORDED" /\ Occupied(s, j) THEN <<Drop("sidecar")>> ELSE <<>>

\* What a restart makes of the obligation it finds.
Settle(s, j) ==
    CASE s.state = "ACTIVE" ->
            IF j.state = "STAGING" THEN <<>> ELSE <<Drop("sidecar")>>
      [] s.state \in Creating /\ ~Occupied(s, j) -> <<Put("sidecar", Orphaned(s))>>
      [] s.state \in Creating /\ Occupied(s, j) ->
            IF Matches(s, j) THEN <<Drop("sidecar")>>
            ELSE <<Put("sidecar", [Orphaned(s) EXCEPT !.mismatch = TRUE])>>
      [] s.state = "ORPHANED" /\ Occupied(s, j) /\ Matches(s, j) /\ ~s.mismatch ->
            <<Drop("sidecar")>>
      [] OTHER -> <<>>

\* finishReconcile, which every way through reconcileRestart ends with.
FinishReconcile ==
    /\ up /\ call.todo = <<FinishStep>>
    /\ LET s == disk.sidecar
           todo == Settle(s, disk.journal)
       IN \/ /\ Unexplained(s, disk.journal)
             /\ Poison
          \/ /\ ~Unexplained(s, disk.journal)
             /\ call' = [call EXCEPT !.todo = todo]
             /\ host' = [host EXCEPT
                    !.reconciled = TRUE,
                    !.mem = [disk EXCEPT !.sidecar =
                                IF todo = <<>> THEN s ELSE host.mem.sidecar]]
             /\ UNCHANGED coord
    /\ UNCHANGED <<disk, up, minted, expired, history, faults>>

-----------------------------------------------------------------------------
\* The journal and the obligation of one role

CreateJournal(i) ==
    /\ Ready({"READY_ABSENT"}) /\ i \notin expired
    /\ host.reconciled /\ NotFinalized
    /\ host.mem.journal = NoJournal /\ disk.journal = NoJournal
    /\ Run("create", <<Put("journal", Journal("STAGING", i, <<>>))>>, host.mem.sidecar)
    /\ UNCHANGED minted

BeginRole ==
    LET j == host.mem.journal
        n == minted.n + 1
    IN /\ Ready({"READY_STAGING"}) /\ n <= MaxCeremonies
       /\ HostStages /\ j.intent \notin expired /\ Len(j.entries) < Slots
       /\ Len(coord.mem.journal.entries) = Len(j.entries)
       /\ disk.sidecar = NoSidecar
       /\ minted' = [n |-> n, intent |-> j.intent, late |-> FALSE]
       /\ Run("begin",
              <<Put("sidecar", [NoSidecar EXCEPT !.state = "ACTIVE", !.intent = j.intent,
                                    !.role = Len(j.entries) + 1, !.ceremony = n])>>,
              host.mem.sidecar)

\* The obligation on disk that the coordinator's ceremony names.
Named(states) ==
    /\ disk.sidecar.state \in states
    /\ disk.sidecar.ceremony = coord.mem.sidecar.ceremony

\* Neither this nor recording asks whether the ceremony is still in time.
AuthorizeCredentialCreation ==
    /\ Ready({"ACTIVE"}) /\ HostStages /\ Named({"ACTIVE"})
    /\ Run("authorize",
           <<Put("sidecar", [disk.sidecar EXCEPT !.state = "CREATION_AUTHORIZED"])>>,
           host.mem.sidecar)
    /\ UNCHANGED minted

RecordCreatedCredential(c) ==
    /\ Ready({"CREATION_AUTHORIZED"}) /\ NotFinalized /\ Named({"CREATION_AUTHORIZED"})
    /\ Run("record",
           <<Put("sidecar", [disk.sidecar EXCEPT !.state = "CREDENTIAL_RECORDED",
                                                 !.credential = c])>>,
           host.mem.sidecar)
    /\ UNCHANGED minted

\* stageGenesisRoleCandidate: the ceremony is in time and the journal does not
\* hold the credential yet.
Accepts(j, c) == ~minted.late /\ \A k \in 1..Len(j.entries) : j.entries[k].credential # c

\* verifyStagedManifestAgainstSidecar
Verified(s, j, c) == s.role = Len(j.entries) + 1 /\ c = s.credential

\* The journal takes the credential first; the obligation is dropped after it.
StageRole(c) ==
    LET j == host.mem.journal
        s == disk.sidecar
        entry == [ceremony |-> s.ceremony, credential |-> c]
    IN /\ Ready({"CREDENTIAL_RECORDED"}) /\ HostStages /\ Named({"CREDENTIAL_RECORDED"})
       /\ Len(coord.mem.journal.entries) = Len(j.entries) /\ s.intent = j.intent
       /\ \/ /\ Overdue(j)
             /\ Run("stage", <<Put("sidecar", Orphaned(s)),
                               Put("journal", Ended(j, "EXPIRED"))>>, s)
          \/ /\ ~Overdue(j) /\ Accepts(j, c) /\ Verified(s, j, c)
             /\ Run("stage", <<Put("journal", [j EXCEPT !.entries = Append(@, entry)]),
                               Drop("sidecar")>>, s)
       /\ UNCHANGED minted

-----------------------------------------------------------------------------
\* The ways out

CancelObligation ==
    LET s == disk.sidecar
    IN Run("cancelRole", SidecarFirst(s), Seen(s))

CancelRoleCeremony ==
    /\ Ready(CeremonyStates \cup {"ORPHAN_CREDENTIAL_BLOCKED"})
    /\ Named(CeremonyStates \cup {"ORPHANED"})
    /\ CancelObligation
    /\ UNCHANGED minted

\* status ends a ceremony whose time is over, if it was minted by this process.
StatusEndsCeremony ==
    /\ Idle /\ ~host.poisoned /\ ~coord.poisoned
    /\ coord.ceremony # 0 /\ coord.mem.sidecar.state = "ACTIVE" /\ minted.late
    /\ Named(CeremonyStates \cup {"ORPHANED"})
    /\ CancelObligation
    /\ UNCHANGED minted

CancelEnrollment ==
    LET j == host.mem.journal
        s == disk.sidecar
        to == IF Overdue(j) THEN "EXPIRED" ELSE "CANCELLED"
    IN /\ Ready(CeremonyStates \cup {"READY_STAGING", "ORPHAN_CREDENTIAL_BLOCKED",
                                     "READY_FOR_PROFILE_VALIDATION"})
       /\ HostStages
       /\ Run("cancel", Append(SidecarFirst(s), Put("journal", Ended(j, to))), Seen(s))
       /\ UNCHANGED minted

AcknowledgeTerminal ==
    /\ Ready({"READY_TERMINAL", "FINALIZED"})
    /\ coord.mem.journal # NoJournal
    /\ Derive = "FINALIZED" => coord.mem.journal.state = "SUPERSEDED"
    /\ host.mem.journal.state \in {"CANCELLED", "EXPIRED", "SUPERSEDED"}
    /\ host.mem.sidecar = NoSidecar /\ disk.sidecar = NoSidecar
    /\ Run("acknowledge", <<Drop("journal")>>, NoSidecar)
    /\ UNCHANGED minted

\* The profile is published first, the journal superseded after it; a method
\* that finds the profile does only the second.  (The coordinator asks only
\* while its own journal is staging, so the host never meets a journal that is
\* superseded already or gone.)
FinalizeProfile ==
    LET j == host.mem.journal
        p == disk.profile
        supersede == <<Put("journal", Ended(j, "SUPERSEDED"))>>
    IN /\ Ready({"READY_FOR_PROFILE_VALIDATION"}) /\ coord.ceremony = 0
       /\ host.mem.sidecar = NoSidecar /\ disk.sidecar = NoSidecar
       /\ \/ /\ p # NoJournal /\ j = p
             /\ Run("finalize", supersede, NoSidecar)
          \/ /\ p = NoJournal /\ HostStages
             /\ Len(j.entries) = Slots /\ ~Overdue(j)
             /\ Run("finalize", <<Put("profile", j)>> \o supersede, NoSidecar)
       /\ UNCHANGED minted

-----------------------------------------------------------------------------
\* The steps of a method

\* publishObligation, publishRecord, finishFinalizedPublication, and the
\* removals: a file changes by one rename or unlink, then the directory is
\* made durable, then the memory follows.
Writing == up /\ call.todo # <<>> /\ Head(call.todo) # FinishStep

Ceremonies(j) == {j.entries[k].ceremony : k \in 1..Len(j.entries)}

Note(d) ==
    history' = [history EXCEPT
        !.staged = @ \cup Ceremonies(d.journal),
        !.recorded = @ \cup (IF d.sidecar.state = "CREDENTIAL_RECORDED"
                             THEN {<<d.sidecar.ceremony, d.sidecar.credential>>} ELSE {})]

Changed == [disk EXCEPT ![Head(call.todo).file] = Head(call.todo).val]

\* Mutant: the host keeps an obligation it has removed.
WriteForgets ==
    /\ Writing
    /\ disk' = Changed
    /\ Note(Changed)
    /\ host' = IF Changed.sidecar = NoSidecar /\ disk.sidecar # NoSidecar THEN host
                ELSE [host EXCEPT !.mem[Head(call.todo).file] = Head(call.todo).val]
    /\ call' = [call EXCEPT !.todo = Tail(@)]
    /\ UNCHANGED <<up, coord, minted, expired, faults>>

Write ==
    /\ Writing
    /\ disk' = Changed
    /\ Note(Changed)
    /\ host' = [host EXCEPT !.mem[Head(call.todo).file] = Head(call.todo).val]
    /\ call' = [call EXCEPT !.todo = Tail(@)]
    /\ UNCHANGED <<up, coord, minted, expired, faults>>

\* A file operation fails with nothing changed: the method throws, and no
\* layer is poisoned.
Fail ==
    /\ up /\ call.todo # <<>> /\ faults < MaxFaults
    /\ faults' = faults + 1
    /\ call' = NoCall
    /\ UNCHANGED <<disk, up, host, coord, minted, expired, history>>

\* The change is not known to be durable, or a temporary file stays behind: the
\* root is poisoned.  Whether the coordinator learns it at once depends on the
\* commit state the error carries.  (A failed look at a temporary file may
\* poison the coordinator alone, which then has to end: Fail, then Crash.)
FailPoisoned ==
    /\ Writing /\ faults < MaxFaults
    /\ faults' = faults + 1
    /\ \E d \in {disk, Changed} : disk' = d /\ Note(d)
    /\ host' = [host EXCEPT !.poisoned = TRUE]
    /\ \E b \in BOOLEAN : coord' = [coord EXCEPT !.poisoned = b]
    /\ call' = NoCall
    /\ UNCHANGED <<up, minted, expired>>

\* The next method then meets HOST_PROCESS_POISONED.
NoticePoison ==
    /\ Idle /\ host.poisoned /\ ~coord.poisoned
    /\ coord' = [coord EXCEPT !.poisoned = TRUE]
    /\ UNCHANGED <<disk, up, host, call, minted, expired, history, faults>>

\* The host returns, and the coordinator adopts what the method reports.
Return ==
    LET op == call.op
        adopt(ops, f) == IF op \in ops THEN host.mem[f] ELSE coord.mem[f]
        s == host.mem.sidecar
    IN /\ up /\ op # "none" /\ call.todo = <<>>
       /\ call' = NoCall
       /\ coord' = [coord EXCEPT
            !.reconciled = TRUE,
            !.mem = [journal |-> adopt({"reconcile", "create", "stage", "cancel",
                                        "acknowledge", "finalize"}, "journal"),
                     sidecar |-> adopt({"reconcile", "begin", "authorize", "record",
                                        "stage", "cancelRole", "cancel"}, "sidecar"),
                     profile |-> adopt({"reconcile", "finalize"}, "profile")],
            !.ceremony = CASE op = "begin" -> minted.n
                           [] op \in {"authorize", "record"} -> @
                           [] OTHER -> 0]
       /\ history' = [history EXCEPT
            !.authorized = IF op = "authorize" THEN @ \cup {s.ceremony} ELSE @,
            !.cancelled = IF op = "cancelRole" /\ s.state = "ORPHANED"
                          THEN @ \cup ({s.ceremony} \ Ceremonies(disk.journal)) ELSE @]
       /\ UNCHANGED <<disk, up, host, minted, expired, faults>>

-----------------------------------------------------------------------------
\* The process, the clock and the file system

Start ==
    /\ ~up
    /\ up' = TRUE /\ host' = Fresh /\ coord' = FreshCoord
    /\ UNCHANGED <<disk, call, minted, expired, history, faults>>

Stopped ==
    /\ up' = FALSE /\ host' = Fresh /\ coord' = FreshCoord /\ call' = NoCall
    /\ UNCHANGED <<disk, minted, expired, history>>

\* close does not ask whether the process has reconciled.
Close == Idle /\ ~coord.poisoned /\ ~host.poisoned /\ Stopped /\ UNCHANGED faults

Crash == up /\ ~host.poisoned /\ faults < MaxFaults
         /\ Stopped /\ faults' = faults + 1

\* A poisoned root is left only by ending the process.
Restart == Idle /\ host.poisoned /\ Stopped /\ UNCHANGED faults

Damage(f) ==
    /\ ~up /\ faults < MaxFaults
    /\ disk[f] # NoFiles[f] /\ disk[f] # Damaged(f)
    /\ disk' = [disk EXCEPT ![f] = Damaged(f)]
    /\ faults' = faults + 1
    /\ UNCHANGED <<up, host, coord, call, minted, expired, history>>

ExpireCeremony ==
    /\ minted.n > 0 /\ ~minted.late
    /\ minted' = [minted EXCEPT !.late = TRUE]
    /\ UNCHANGED <<disk, up, host, coord, call, expired, history, faults>>

\* A ceremony never outlives its intent.
ExpireIntent(i) ==
    /\ i \notin expired
    /\ expired' = expired \cup {i}
    /\ minted' = [minted EXCEPT !.late = @ \/ minted.intent = i]
    /\ UNCHANGED <<disk, up, host, coord, call, history, faults>>

Step == Write \/ FinishReconcile \/ Return

Next ==
    \/ Step \/ Fail \/ FailPoisoned \/ NoticePoison
    \/ ReconcileRestart \/ BeginRole \/ AuthorizeCredentialCreation
    \/ \E i \in Intents : CreateJournal(i) \/ ExpireIntent(i)
    \/ \E c \in Credentials : RecordCreatedCredential(c) \/ StageRole(c)
    \/ CancelRoleCeremony \/ StatusEndsCeremony \/ CancelEnrollment
    \/ AcknowledgeTerminal \/ FinalizeProfile
    \/ Start \/ Close \/ Crash \/ Restart \/ ExpireCeremony
    \/ \E f \in Files : Damage(f)

Spec == Init /\ [][Next]_vars

\* Restarts, and the operator's answer to a poisoned root, are not put off for
\* ever; of the processes that start, one does not close before it reconciles
\* (strong fairness); a method that runs goes on; a finalization that is half
\* done is asked for again while its process lives.
Fairness ==
    /\ WF_vars(Start) /\ SF_vars(ReconcileRestart) /\ WF_vars(Step) /\ WF_vars(Restart)
    /\ WF_vars(NoticePoison)
    /\ WF_vars(FinalizeProfile /\ disk.profile # NoJournal)

FairSpec == Spec /\ Fairness

-----------------------------------------------------------------------------
\* Properties

\* Every variable has its type: the files, both memories, the clock and the
\* counters.
TypeOK ==
    LET entry == [ceremony : 1..MaxCeremonies, credential : Credentials]
        journals == [state : {"ABSENT", "CORRUPT", "STAGING", "CANCELLED", "EXPIRED",
                              "SUPERSEDED"},
                     intent : Intents \cup {None},
                     entries : UNION {[1..n -> entry] : n \in 0..Slots}]
        sidecars == [state : {"ABSENT", "CORRUPT", "ORPHANED"} \cup CeremonyStates,
                     intent : Intents \cup {None}, role : 0..Slots,
                     ceremony : 0..MaxCeremonies, credential : Credentials \cup {None},
                     mismatch : BOOLEAN]
        files == [journal : journals, sidecar : sidecars, profile : journals]
    IN /\ disk \in files /\ host.mem \in files /\ coord.mem \in files
       /\ {up, host.poisoned, host.reconciled, coord.poisoned, coord.reconciled,
           minted.late} \subseteq BOOLEAN
       /\ {coord.ceremony, minted.n} \subseteq 0..MaxCeremonies
       /\ Len(call.todo) <= 3 /\ expired \subseteq Intents /\ faults \in 0..MaxFaults

\* A credential the authenticator was allowed to create is never forgotten:
\* once authorizeCredentialCreation has returned, the ceremony's credential has
\* reached a journal on disk, or the sidecar still tells of it, whatever write
\* fails and wherever the process ends. What becomes of the journal later is
\* the business of ProfileIsFinal.
NoCredentialForgotten ==
    \A m \in history.authorized :
        \/ m \in history.staged
        \/ disk.sidecar.state = "CORRUPT"
        \/ disk.sidecar.ceremony = m /\ disk.sidecar.state # "ACTIVE"

\* What a journal or a profile holds was recorded first: each entry has the
\* credential that was durably recorded under its ceremony, and no two entries
\* share a credential or a ceremony. A profile is final: beside it lies the
\* journal it was made from, that journal superseded, a damaged one, or none;
\* no obligation is open; and a journal is superseded only by a profile.
ProfileIsFinal ==
    LET p == disk.profile
        j == disk.journal
    IN /\ \A f \in {j, p} : \A k \in 1..Len(f.entries) :
            /\ <<f.entries[k].ceremony, f.entries[k].credential>> \in history.recorded
            /\ \A l \in 1..Len(f.entries) \ {k} :
                  /\ f.entries[k].ceremony # f.entries[l].ceremony
                  /\ f.entries[k].credential # f.entries[l].credential
       /\ p.state = "STAGING" =>
            /\ Len(p.entries) = Slots
            /\ j \in {p, Ended(p, "SUPERSEDED"), NoJournal, Damaged("journal")}
            /\ disk.sidecar = NoSidecar
       /\ j.state = "SUPERSEDED" => p # NoJournal

\* Between methods a reconciled host that is not poisoned remembers exactly
\* what is on disk. The coordinator may lag behind after a method that threw,
\* but never in a way that hides a file: what it believes absent is absent, or
\* a profile it has not been told of keeps the host from changing the journal.
MemoryIsDurable ==
    /\ TypeOK
    /\ Idle /\ coord.reconciled /\ ~host.poisoned =>
          /\ host.mem = disk
          /\ coord.mem.journal = NoJournal => disk.journal = NoJournal
          /\ coord.mem.sidecar = NoSidecar => disk.sidecar = NoSidecar
          /\ coord.mem.profile = NoJournal /\ disk.profile # NoJournal =>
                Derive = "READY_FOR_PROFILE_VALIDATION" /\ ~NotFinalized

\* A creation that a process left open is settled by a later one: the journal
\* has the credential and the obligation is gone, or it is orphaned.
CreationIsSettled ==
    ~up /\ disk.sidecar.state \in Creating ~>
        disk.sidecar.state \in {"ABSENT", "ORPHANED", "CORRUPT"} \/ disk.profile.state = "CORRUPT"

\* A published profile ends its journal, whether the process lives or not.
FinalizationCompletes ==
    disk.profile.state = "STAGING" ~>
        disk.journal.state \in {"SUPERSEDED", "ABSENT", "CORRUPT"}
            \/ disk.profile.state = "CORRUPT"

\* A ceremony whose cancellation was reported as orphaned before the journal
\* held its credential never becomes part of a profile, whatever restarts and
\* failing writes follow.
CancelledIsNeverFinalized ==
    disk.profile.state = "STAGING" => Ceremonies(disk.profile) \cap history.cancelled = {}
=============================================================================
