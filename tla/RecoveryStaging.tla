--------------------------- MODULE RecoveryStaging ---------------------------
(***************************************************************************)
(* The staging journal of a recovery ceremony: a directory shared by every *)
(* process of the user, guarded by a lock file, with at most one journal   *)
(* (recovery-staging-host.cjs), and the ceremony in the memory of each     *)
(* process that the journal belongs to (recovery-ceremony-host.cjs).       *)
(*                                                                         *)
(* A process runs one method at a time and nothing of it is asynchronous;  *)
(* other processes run between any two of its file operations, it may end  *)
(* between them, and each file operation may fail.  A host that no longer  *)
(* knows what is on disk poisons itself: only a new process may go on.     *)
(*                                                                         *)
(* The write of a journal through its temporary file is one step: the lock *)
(* keeps others out of it.  Between the last probe of a stale lock and its *)
(* rename the lock keeps nobody out; "raced" says that this happened, and  *)
(* what holds nevertheless is stated without it.                           *)
(*                                                                         *)
(* Time is what the code compares: a lock is young until it is 60 seconds  *)
(* old, a ceremony runs until it expires.  A host reads the clock once,    *)
(* while it is made; the clock is assumed never to go back.                *)
(***************************************************************************)
EXTENDS Naturals, FiniteSets

CONSTANTS
    Procs,          \* processes of the user
    Ceremonies,     \* ceremony identifiers, drawn at random
    Roles,          \* recovery roles a candidate is staged for
    None,           \* no process: that of a lock whose process has ended; no ceremony
    MaxStaleLocks,  \* files the stale-lock quarantine takes
    MaxCorrupt,     \* files the corrupt-journal quarantine takes
    MaxFaults       \* failing file operations and ends of processes

ASSUME ConstantsAreValid ==
    /\ IsFiniteSet(Procs) /\ None \notin Procs \cup Ceremonies
    /\ MaxStaleLocks \in Nat /\ MaxCorrupt \in Nat /\ MaxFaults \in Nat

VARIABLES
    lock,       \* the file .staging.lock
    stale,      \* files in .stale-lock-quarantine
    file,       \* the journal of each ceremony
    temps,      \* ceremonies with a temporary file
    corrupt,    \* files in .corrupt-quarantine
    expired,    \* ceremonies whose time is over
    host,       \* the memory of each process
    faults,
    raced       \* history: the lock changed between another's last probe and its rename
vars == <<lock, stale, file, temps, corrupt, expired, host, faults, raced>>
disk == <<lock, stale, file, temps, corrupt>>

\* A file keeps its identity while it is there or somebody has it open.
Inodes == 1..(2 * Cardinality(Procs) + 1)
NoLock == [ino |-> 0, by |-> None, ready |-> FALSE, old |-> FALSE]

Journal(s, r) == [state |-> s, roles |-> r]
Absent == Journal("ABSENT", {})
Corrupt == Journal("CORRUPT", {})
Terminal == {"CANCELLED", "EXPIRED", "SUPERSEDED"}
OnDisk == {c \in Ceremonies : file[c] # Absent}

NoCeremony == [state |-> "NONE", c |-> None, reason |-> "NONE"]
NoJob == [op |-> "none", c |-> None, to |-> Absent]
Off == [pc |-> "off", own |-> 0, seen |-> 0, slot |-> 0, poison |-> FALSE, reconciled |-> "no",
        current |-> [c |-> None, j |-> Absent], ceremony |-> NoCeremony, job |-> NoJob]

Init ==
    /\ lock = NoLock /\ stale = 0 /\ corrupt = 0
    /\ file = [c \in Ceremonies |-> Absent] /\ temps = {} /\ expired = {}
    /\ host = [p \in Procs |-> Off]
    /\ faults = 0 /\ raced = FALSE

\* Process p goes on at step "to".
Go(p, to) == [host EXCEPT ![p].pc = to]
\* A method ends with an error: what a host was doing is forgotten.
Refused(p) == [host EXCEPT ![p].pc = "open", ![p].job = NoJob]
RefusedReconcile(p) == [Refused(p) EXCEPT ![p].reconciled = "failed"]
Fails(p) == IF host[p].job.op = "reconcile" THEN RefusedReconcile(p) ELSE Refused(p)
Poisons(h, p) == [h EXCEPT ![p].poison = TRUE]
\* There is no host, or none any more; poison and ceremony are the process's.
Unmade(p) == [host EXCEPT ![p] = [Off EXCEPT !.pc = "idle", !.poison = host[p].poison,
                                             !.ceremony = host[p].ceremony]]

Fault == faults < MaxFaults /\ faults' = faults + 1
NoFault == faults' = faults

-----------------------------------------------------------------------------
(* The lock.                                                               *)

FreshInode == CHOOSE i \in Inodes :
    i # lock.ino /\ \A p \in Procs : i \notin {host[p].own, host[p].seen}

Start(p) ==
    /\ host[p].pc = "off"
    /\ host' = Go(p, "idle")
    /\ UNCHANGED <<disk, expired, faults>>

\* The lock is created first and filled afterwards.
CreateLock(p) ==
    /\ lock' = [ino |-> FreshInode, by |-> p, ready |-> FALSE, old |-> FALSE]
    /\ host' = [host EXCEPT ![p].pc = "payload", ![p].own = FreshInode, ![p].seen = 0]
    /\ UNCHANGED <<stale, file, temps, corrupt, expired, faults>>

Acquire(p) ==
    /\ host[p].pc = "idle" /\ ~host[p].poison
    /\ \/ lock = NoLock /\ CreateLock(p)
       \/ /\ lock # NoLock
          /\ host' = Go(p, "inspect")
          /\ UNCHANGED <<disk, expired, faults>>

Mine(p) == lock.ino = host[p].own

WritePayload(p) ==
    /\ host[p].pc = "payload"
    /\ \/ /\ lock' = IF Mine(p) THEN [lock EXCEPT !.ready = TRUE] ELSE lock
          /\ host' = Go(p, "open") /\ NoFault
       \/ \* the write fails: the file at the path is unlinked
          /\ Fault /\ lock' = NoLock /\ host' = Unmade(p)
       \/ \* the directory is not flushed, or the unlink fails as well
          /\ Fault /\ lock' \in {lock, NoLock} /\ host' = Poisons(Unmade(p), p)
    /\ UNCHANGED <<stale, file, temps, corrupt, expired>>

\* Mutant: age inverted.
YoungIsStale(l) == l.ready /\ l.by = None /\ ~l.old

\* A lock of a process that has ended, complete and 60 seconds old.
IsStale(l) == l.ready /\ l.by = None /\ l.old

HandleExistingLock(p) ==
    /\ host[p].pc = "inspect"
    /\ host' = IF lock # NoLock /\ IsStale(lock)
               THEN [host EXCEPT ![p].pc = "probe", ![p].seen = lock.ino]
               ELSE Unmade(p)
    /\ UNCHANGED <<disk, expired, faults>>

\* Mutant: no second look at the path.
BlindProbe(p) ==
    /\ host[p].pc = "probe"
    /\ host' = IF stale < MaxStaleLocks THEN [Go(p, "rename") EXCEPT ![p].slot = stale]
               ELSE Unmade(p)
    /\ UNCHANGED <<disk, expired, faults>>

\* The slot, the lowest unused, is chosen before the identity is probed again.
QuarantineProbe(p) ==
    /\ host[p].pc = "probe"
    /\ host' = CASE stale >= MaxStaleLocks -> Unmade(p)
                 [] stale < MaxStaleLocks /\ lock = NoLock -> Poisons(Unmade(p), p)
                 [] stale < MaxStaleLocks /\ lock # NoLock ->
                        IF lock.ino = host[p].seen
                        THEN [Go(p, "rename") EXCEPT ![p].slot = stale] ELSE Unmade(p)
    /\ UNCHANGED <<disk, expired, faults>>

\* The rename replaces a file another process has put into the slot meanwhile.
QuarantineRename(p) ==
    /\ host[p].pc = "rename"
    /\ \/ /\ lock # NoLock
          /\ lock' = NoLock
          /\ stale' = IF host[p].slot = stale THEN stale + 1 ELSE stale
          /\ \/ NoFault /\ host' = [host EXCEPT ![p].pc = "recreate", ![p].seen = 0,
                                               ![p].slot = 0]
             \/ Fault /\ host' = Poisons(Unmade(p), p)
       \/ /\ lock = NoLock \/ faults < MaxFaults
          /\ faults' = IF lock = NoLock THEN faults ELSE faults + 1
          /\ host' = Poisons(Unmade(p), p)
          /\ UNCHANGED <<lock, stale>>
    /\ UNCHANGED <<file, temps, corrupt, expired>>

Recreate(p) ==
    /\ host[p].pc = "recreate"
    /\ \/ lock = NoLock /\ CreateLock(p)
       \/ /\ lock # NoLock
          /\ host' = Unmade(p)
          /\ UNCHANGED <<disk, expired, faults>>

\* close() works in a poisoned process too.
Close(p) ==
    /\ host[p].pc = "open"
    /\ \/ /\ Mine(p) /\ lock' = NoLock /\ NoFault
          /\ host' = Unmade(p)
       \/ /\ ~Mine(p) /\ lock' = lock /\ NoFault
          /\ host' = Poisons(Unmade(p), p)
       \/ /\ Mine(p) /\ Fault /\ lock' \in {lock, NoLock}
          /\ host' = Poisons(Unmade(p), p)
    /\ UNCHANGED <<stale, file, temps, corrupt, expired>>

-----------------------------------------------------------------------------
(* The ceremony in the memory of a process.                                *)

Known == UNION {{host[p].current.c, host[p].ceremony.c, host[p].job.c} : p \in Procs}
         \cup OnDisk \cup temps

AtRest(p) == host[p].pc \in {"idle", "open"}

Mint(p) ==
    /\ AtRest(p) /\ host[p].ceremony.state = "NONE"
    /\ \E c \in Ceremonies \ Known :
       /\ host' = [host EXCEPT ![p].ceremony = [state |-> "ACTIVE", c |-> c, reason |-> "NONE"]]
       /\ expired' = expired \ {c}
    /\ UNCHANGED <<disk, faults>>

Ended(r, reason) == [r EXCEPT !.state = "ENDED", !.reason = reason]

CancelCeremony(p) ==
    /\ AtRest(p) /\ host[p].ceremony.state = "ACTIVE"
    /\ host' = [host EXCEPT ![p].ceremony =
                   Ended(@, IF @.c \in expired THEN "EXPIRED" ELSE "CANCELLED")]
    /\ UNCHANGED <<disk, expired, faults>>

\* status() and checkExpiry(): a ceremony ends when somebody looks at it.
CheckExpiry(p) ==
    /\ AtRest(p) /\ host[p].ceremony.state = "ACTIVE" /\ host[p].ceremony.c \in expired
    /\ host' = [host EXCEPT ![p].ceremony = Ended(@, "EXPIRED")]
    /\ UNCHANGED <<disk, expired, faults>>

\* The caller retires a ceremony this process has no journal of; that it does
\* not retire one with a journal is its discipline, retire does not look.
RetireUnstaged(p) ==
    /\ AtRest(p) /\ host[p].ceremony.state = "ENDED" /\ host[p].current.j = Absent
    /\ host' = [host EXCEPT ![p].ceremony = NoCeremony]
    /\ UNCHANGED <<disk, expired, faults>>

-----------------------------------------------------------------------------
(* The methods of the host.  Each looks at the lock once, when it starts.  *)

Active(p) == host[p].pc = "open" /\ ~host[p].poison

LockLost(p) ==
    /\ Active(p) /\ ~Mine(p)
    /\ host' = Poisons(host, p)
    /\ UNCHANGED <<disk, expired, faults>>

Ready(p) == Active(p) /\ Mine(p) /\ host[p].reconciled = "yes"

Begins(p, op, c, j, to) ==
    /\ host' = [host EXCEPT ![p].pc = to, ![p].job = [op |-> op, c |-> c, to |-> j]]
    /\ UNCHANGED <<disk, expired, faults>>

\* Mutant: the host goes on with a staged journal it finds.
ResumeRestart(p) ==
    /\ Active(p) /\ Mine(p) /\ host[p].reconciled = "no"
    /\ \E c \in Ceremonies :
        /\ OnDisk \subseteq {c}
        /\ host' = [host EXCEPT ![p].reconciled = "yes", ![p].current = [c |-> c, j |-> file[c]]]
    /\ UNCHANGED <<disk, expired, faults>>

ReconcileRestart(p) ==
    /\ Active(p) /\ Mine(p) /\ host[p].reconciled = "no"
    /\ UNCHANGED <<lock, stale, file, corrupt, expired>>
    /\ \/ \* refused before anything is touched
          /\ \/ Cardinality(OnDisk) > 1
             \/ corrupt >= MaxCorrupt /\ \E c \in OnDisk : file[c] = Corrupt
          /\ host' = [host EXCEPT ![p].reconciled = "failed"]
          /\ UNCHANGED temps /\ NoFault
       \/ \* a temporary file cannot be removed, or not durably
          /\ temps # {} /\ Cardinality(OnDisk) <= 1 /\ Fault
          /\ \/ temps' = temps /\ host' = [host EXCEPT ![p].reconciled = "failed"]
             \/ \E c \in temps : /\ temps' = temps \ {c}
                                 /\ host' = Poisons([host EXCEPT ![p].reconciled = "failed"], p)
       \/ /\ temps' = {} /\ NoFault
          /\ \/ /\ OnDisk = {}
                /\ host' = [host EXCEPT ![p].reconciled = "yes", ![p].current = Off.current]
             \/ \E c \in OnDisk :
                /\ OnDisk = {c} /\ (file[c] = Corrupt => corrupt < MaxCorrupt)
                /\ LET job == [op |-> "reconcile", c |-> c,
                               to |-> Journal("SUPERSEDED", file[c].roles)] IN
                   host' = [host EXCEPT ![p].job = job,
                       ![p].pc = CASE file[c] = Corrupt -> "quarantine"
                                   [] file[c].state = "STAGING" -> "write"
                                   [] file[c].state \in Terminal -> "remove"]

\* The context is that of the process's own ceremony; that the caller gives no
\* other is its discipline too.
CreateJournal(p) ==
    LET c == host[p].ceremony.c IN
    /\ Ready(p) /\ host[p].current.j = Absent /\ OnDisk = {}
    /\ host[p].ceremony.state # "NONE" /\ c \notin expired
    /\ Begins(p, "stage", c, Journal("STAGING", {}), "write")

Staged(p) == Ready(p) /\ host[p].current.j # Absent

End(p, state) == LET cur == host[p].current IN
    Begins(p, "end", cur.c, Journal(state, cur.j.roles), "write")

StageRole(p, r) == LET cur == host[p].current IN
    /\ Staged(p)
    /\ IF cur.c \in expired
       THEN End(p, "EXPIRED")
       ELSE Begins(p, "stage", cur.c, Journal("STAGING", cur.j.roles \cup {r}), "write")

Cancel(p) ==
    /\ Staged(p)
    /\ End(p, IF host[p].current.c \in expired THEN "EXPIRED" ELSE "CANCELLED")

Status(p) ==
    /\ Staged(p) /\ host[p].current.c \in expired
    /\ End(p, "EXPIRED")

-----------------------------------------------------------------------------
(* The file operations of a method.                                        *)

Done(p) == [host EXCEPT ![p].pc = "open", ![p].job = NoJob]
Reconciled(p) == [Done(p) EXCEPT ![p].reconciled = "yes", ![p].current = Off.current]

Written(p) == LET job == host[p].job IN
    IF job.op = "stage"
    THEN [Done(p) EXCEPT ![p].current = [c |-> job.c, j |-> job.to]]
    ELSE Go(p, "remove")

\* Mutant: memory moves on whether the file was written or not.
WriteThenForget(p) == LET job == host[p].job IN
    /\ host[p].pc = "write"
    /\ \/ file' = [file EXCEPT ![job.c] = job.to] /\ host' = Written(p) /\ NoFault
       \/ file' = file /\ host' = Written(p) /\ Fault
    /\ UNCHANGED <<lock, stale, temps, corrupt, expired>>

WriteJournalAtomic(p) == LET job == host[p].job IN
    /\ host[p].pc = "write"
    /\ \/ \* a temporary file is in the way, or the journal there is damaged
          /\ job.c \in temps \/ file[job.c] = Corrupt
          /\ host' = Fails(p) /\ UNCHANGED <<file, temps>> /\ NoFault
       \/ /\ job.c \notin temps /\ file[job.c] # Corrupt
          /\ \/ /\ file' = [file EXCEPT ![job.c] = job.to]
                /\ host' = Written(p) /\ UNCHANGED temps /\ NoFault
             \/ \* before the rename; the temporary file may stay
                /\ Fault /\ UNCHANGED file
                /\ temps' \in {temps, temps \cup {job.c}} /\ host' = Fails(p)
             \/ \* the temporary file is removed, but not durably
                /\ Fault /\ UNCHANGED <<file, temps>> /\ host' = Poisons(Fails(p), p)
             \/ \* renamed, but not durably
                /\ Fault /\ file' = [file EXCEPT ![job.c] = job.to] /\ UNCHANGED temps
                /\ host' = Poisons(Fails(p), p)
    /\ UNCHANGED <<lock, stale, corrupt, expired>>

RemoveJournalAtomic(p) == LET job == host[p].job IN
    /\ host[p].pc = "remove"
    /\ \/ /\ file' = [file EXCEPT ![job.c] = Absent] /\ NoFault
          /\ host' = IF job.op = "reconcile" THEN Reconciled(p) ELSE Go(p, "retire")
       \/ Fault /\ file' = file /\ host' = Fails(p)
       \/ Fault /\ file' = [file EXCEPT ![job.c] = Absent] /\ host' = Poisons(Fails(p), p)
    /\ UNCHANGED <<lock, stale, temps, corrupt, expired>>

QuarantineCorruptJournal(p) == LET job == host[p].job IN
    /\ host[p].pc = "quarantine"
    /\ \/ \* full, or the file is gone, by another process
          /\ corrupt >= MaxCorrupt \/ file[job.c] = Absent
          /\ host' = IF corrupt >= MaxCorrupt THEN Fails(p) ELSE Poisons(Fails(p), p)
          /\ UNCHANGED <<file, corrupt>> /\ NoFault
       \/ /\ corrupt < MaxCorrupt /\ file[job.c] # Absent
          /\ file' = [file EXCEPT ![job.c] = Absent] /\ corrupt' = corrupt + 1
          /\ \/ NoFault /\ host' = Reconciled(p)
             \/ Fault /\ host' = Poisons(Fails(p), p)
       \/ Fault /\ UNCHANGED <<file, corrupt>> /\ host' = Poisons(Fails(p), p)
    /\ UNCHANGED <<lock, stale, temps, expired>>

\* The ceremony must have ended, for the same reason as its journal.
RetireCeremony(p) == LET job == host[p].job  cer == host[p].ceremony IN
    /\ host[p].pc = "retire"
    /\ host' = CASE cer.state = "ENDED" /\ cer.c = job.c /\ cer.reason = job.to.state ->
                      [Done(p) EXCEPT ![p].current = Off.current, ![p].ceremony = NoCeremony]
                 [] cer.state = "ENDED" /\ cer.c = job.c /\ cer.reason # job.to.state ->
                      Poisons([Refused(p) EXCEPT ![p].ceremony = NoCeremony], p)
                 [] cer.state # "ENDED" \/ cer.c # job.c -> Poisons(Refused(p), p)
    /\ UNCHANGED <<disk, expired, faults>>

-----------------------------------------------------------------------------
(* Time, the end of a process, and damage to a file.                       *)

LockAges == lock # NoLock /\ ~lock.old
    /\ lock' = [lock EXCEPT !.old = TRUE]
    /\ UNCHANGED <<stale, file, temps, corrupt, expired, host, faults>>

Expire(c) ==
    /\ c \in Known \ expired
    /\ expired' = expired \cup {c}
    /\ UNCHANGED <<disk, host, faults>>

\* A process that ends while it writes leaves a temporary file, or not.
Crash(p) ==
    /\ host[p].pc # "off" /\ Fault
    /\ host' = [host EXCEPT ![p] = Off]
    /\ lock' = IF lock.by = p THEN [lock EXCEPT !.by = None] ELSE lock
    /\ temps' \in IF host[p].pc = "write" THEN {temps, temps \cup {host[p].job.c}} ELSE {temps}
    /\ UNCHANGED <<stale, file, corrupt, expired>>

\* A process without a host ends.
Quit(p) ==
    /\ host[p].pc = "idle"
    /\ host' = [host EXCEPT ![p] = Off]
    /\ lock' = IF lock.by = p THEN [lock EXCEPT !.by = None] ELSE lock
    /\ UNCHANGED <<stale, file, temps, corrupt, expired, faults>>

Damage(c) ==
    /\ file[c] # Absent /\ file[c] # Corrupt /\ Fault
    /\ file' = [file EXCEPT ![c] = Corrupt]
    /\ UNCHANGED <<lock, stale, temps, corrupt, expired, host>>

LockStep(p) ==
    \/ Acquire(p) \/ WritePayload(p) \/ HandleExistingLock(p)
    \/ QuarantineProbe(p) \/ QuarantineRename(p) \/ Recreate(p)

MethodStep(p) ==
    \/ WriteJournalAtomic(p) \/ RemoveJournalAtomic(p)
    \/ QuarantineCorruptJournal(p) \/ RetireCeremony(p)

Step(p) ==
    \/ Start(p) \/ Crash(p) \/ Quit(p) \/ Close(p) \/ LockLost(p)
    \/ LockStep(p) \/ MethodStep(p)
    \/ Mint(p) \/ CancelCeremony(p) \/ CheckExpiry(p) \/ RetireUnstaged(p)
    \/ ReconcileRestart(p) \/ CreateJournal(p) \/ Cancel(p) \/ Status(p)
    \/ \E r \in Roles : StageRole(p, r)

\* The lock changes while another process is about to rename what it probed.
Watched == raced' = (raced \/ (lock'.ino # lock.ino /\ \E q \in Procs :
                                  host[q].pc = "rename" /\ host'[q].pc = "rename"))

Next ==
    /\ \/ \E p \in Procs : Step(p)
       \/ LockAges
       \/ \E c \in Ceremonies : Expire(c) \/ Damage(c)
    /\ Watched

Spec == Init /\ [][Next]_vars

-----------------------------------------------------------------------------
(* Properties.                                                             *)

\* Every variable has its type: the lock, the journals, the processes.
TypeOK ==
    /\ lock \in [ino : Inodes \cup {0}, by : Procs \cup {None}, ready : BOOLEAN, old : BOOLEAN]
    /\ stale \in 0..MaxStaleLocks /\ corrupt \in 0..MaxCorrupt /\ faults \in 0..MaxFaults
    /\ \A c \in Ceremonies : /\ file[c].roles \subseteq Roles
                             /\ file[c].state \in Terminal \cup {"ABSENT", "CORRUPT", "STAGING"}
    /\ temps \subseteq Ceremonies /\ expired \subseteq Ceremonies
    /\ \A p \in Procs : /\ host[p].own \in Inodes \cup {0} /\ host[p].seen \in Inodes \cup {0}
                        /\ host[p].current.j.state \in {"ABSENT", "STAGING"}
                        /\ (host[p].job.op = "none") = (host[p].pc \notin {"write", "remove", "quarantine", "retire"})

\* No two processes are inside a method that changes journals at once: the
\* lock excludes, across stale locks, takeovers and ends of processes, unless
\* two takeovers raced.
Writing(p) == host[p].pc \in {"write", "remove", "quarantine", "retire"}
OneWriter == ~raced => \A p, q \in Procs : Writing(p) /\ Writing(q) => p = q

\* There is never a second journal, which reconcileRestart refuses for good. A
\* host that may be used and is between two methods knows what is on disk:
\* no journal if it has none; else the journal of its last success, its
\* terminal form if only the removal failed, or a damaged file. After a race
\* of two takeovers it may not know.
MemoryIsDurable ==
    /\ TypeOK
    /\ ~raced =>
          /\ Cardinality(OnDisk) <= 1
          /\ \A p \in Procs : Ready(p) =>
                LET cur == host[p].current IN
                IF cur.j = Absent
                THEN OnDisk = {}
                ELSE /\ OnDisk = {cur.c}
                     /\ \/ file[cur.c] = cur.j
                        \/ file[cur.c].state \in {"CANCELLED", "EXPIRED", "CORRUPT"}

\* A journal is staged, or given another role, only by the process that holds
\* its ceremony: a restart supersedes it and never resumes it, even after a
\* race of two takeovers.
NothingResumes == [][\A c \in Ceremonies :
    file'[c].state = "STAGING" /\ file'[c] # file[c]
        => \E p \in Procs : Writing(p) /\ host[p].ceremony.state # "NONE" /\ host[p].ceremony.c = c]_vars

\* What only a person, or the end of a process, can clear: a poisoned or
\* unreconciled host, a leftover temporary file, a lock without its payload,
\* a full quarantine.
Wedged ==
    \/ \E p \in Procs : host[p].poison \/ host[p].reconciled = "failed"
    \/ temps # {} \/ stale >= MaxStaleLocks
    \/ lock.by = None /\ lock # NoLock /\ ~lock.ready

\* A staged journal does not stay: its host ends it at its expiry, or a later
\* process takes over the lock and supersedes it, unless something is wedged.
StagingEnds == \A c \in Ceremonies :
    (file[c].state = "STAGING") ~> (file[c].state # "STAGING" \/ Wedged)

\* A process that ended is started again, tries to make a host, reconciles it
\* and asks for its status; time passes.
Fairness ==
    /\ WF_vars(LockAges /\ Watched)
    /\ \A c \in Ceremonies : WF_vars(Expire(c) /\ Watched)
    /\ \A p \in Procs :
        /\ WF_vars(Start(p) /\ Watched) /\ SF_vars(LockStep(p) /\ Watched)
        /\ WF_vars(MethodStep(p) /\ Watched)
        /\ SF_vars(ReconcileRestart(p) /\ Watched) /\ SF_vars(Status(p) /\ Watched)

FairSpec == Spec /\ Fairness
=============================================================================
