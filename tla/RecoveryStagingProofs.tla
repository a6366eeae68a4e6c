------------------------ MODULE RecoveryStagingProofs ------------------------
(***************************************************************************)
(* Proofs about the staging journal of a recovery ceremony, for any number *)
(* of processes, ceremonies, roles and faults.                             *)
(*                                                                         *)
(* A lock file is told from its successor at the same path by its identity *)
(* alone.  A process that holds the lock knows the identity it created, a  *)
(* process that takes over a stale lock the identity it probed; what is    *)
(* known of the file under that identity (LockKnown) never becomes wrong.  *)
(* Until two takeovers race, every holder's identity is the one at the     *)
(* path (Undisturbed), so there is one holder, and what it found on disk   *)
(* when its method began is still there (Knows).                           *)
(***************************************************************************)
EXTENDS RecoveryStaging, FiniteSetTheorems, TLAPS

USE ConstantsAreValid

Idents == Inodes \cup {0}
Locks == [ino : Idents, by : Procs \cup {None}, ready : BOOLEAN, old : BOOLEAN]
Journals == [state : Terminal \cup {"ABSENT", "CORRUPT", "STAGING"}, roles : SUBSET Roles]
Names == Ceremonies \cup {None}
Methods == {"write", "remove", "quarantine", "retire"}
Holding == Methods \cup {"payload", "open"}
Places == Holding \cup {"off", "idle", "inspect", "probe", "rename", "recreate"}
Hosts == [pc : Places, own : Idents, seen : Idents, slot : Nat, poison : BOOLEAN,
          reconciled : {"no", "yes", "failed"}, current : [c : Names, j : Journals],
          ceremony : [state : {"NONE", "ACTIVE", "ENDED"}, c : Names,
                      reason : {"NONE", "EXPIRED", "CANCELLED"}],
          job : [op : {"none", "stage", "end", "reconcile"}, c : Names, to : Journals]]

\* A journal that is absent or damaged tells nothing else.
Whole(j) == /\ j.state = "ABSENT" => j = Absent
            /\ j.state = "CORRUPT" => j = Corrupt

Types ==
    /\ lock \in Locks
    /\ stale \in 0..MaxStaleLocks /\ corrupt \in 0..MaxCorrupt /\ faults \in 0..MaxFaults
    /\ file \in [Ceremonies -> Journals]
    /\ \A c \in Ceremonies : Whole(file[c])
    /\ temps \subseteq Ceremonies /\ expired \subseteq Ceremonies
    /\ host \in [Procs -> Hosts]
    /\ raced \in BOOLEAN

\* The process's place tells which identities it knows and what it does.
PlaceInv(h) ==
    /\ h.own # 0 <=> h.pc \in Holding
    /\ h.seen # 0 <=> h.pc \in {"probe", "rename"}
    /\ h.pc = "rename" => h.slot < MaxStaleLocks
    /\ h.job.op # "none" <=> h.pc \in Methods
    /\ h.pc \in Methods => h.job.c \in Ceremonies /\ ~h.poison
    /\ h.pc \notin Methods \cup {"open"} => h.reconciled = "no" /\ h.current.j = Absent

\* The writes a method may be about.
JobInv(h) ==
    /\ h.job.op = "stage" =>
         /\ h.pc = "write" /\ h.reconciled = "yes" /\ h.job.to.state = "STAGING"
         /\ h.ceremony.state # "NONE" /\ h.ceremony.c = h.job.c
         /\ h.current.j # Absent => h.job.c = h.current.c
    /\ h.job.op = "end" =>
         /\ h.pc \in {"write", "remove", "retire"} /\ h.reconciled = "yes"
         /\ h.job.to.state \in {"CANCELLED", "EXPIRED"}
         /\ h.current.j # Absent /\ h.job.c = h.current.c
    /\ h.job.op = "reconcile" =>
         /\ h.pc \in {"write", "remove", "quarantine"} /\ h.reconciled = "no"
         /\ h.job.to.state = "SUPERSEDED"

\* A process has a journal only of the ceremony it holds.
CeremonyInv(h) ==
    /\ h.ceremony.state # "NONE" => h.ceremony.c \in Ceremonies
    /\ h.current.j # Absent => h.current.j.state = "STAGING" /\ h.current.c \in Ceremonies
    /\ h.current.j # Absent /\ ~h.poison =>
         h.ceremony.state # "NONE" /\ h.ceremony.c = h.current.c

Local(h) == PlaceInv(h) /\ JobInv(h) /\ CeremonyInv(h)

\* What a process knows of the file under an identity.
LockKnown(l, h, p) ==
    /\ h.own # 0 /\ h.own = l.ino => l.by = p
    /\ h.seen # 0 /\ h.seen = l.ino => IsStale(l)

\* No takeover lost the file it probed.
Undisturbed(l, h) ==
    /\ h.own # 0 => h.own = l.ino
    /\ h.pc = "rename" => h.seen = l.ino

\* The last success of a host, as it finds it on disk.
Agrees(cur, f) ==
    IF cur.j = Absent
    THEN \A c \in Ceremonies : f[c] = Absent
    ELSE /\ \A c \in Ceremonies : f[c] # Absent <=> c = cur.c
         /\ f[cur.c] = cur.j \/ f[cur.c].state \in {"CANCELLED", "EXPIRED", "CORRUPT"}

\* What a holder knows of the disk, between and within its methods.
Knows(h, f) ==
    /\ h.pc \in Methods => \A c \in Ceremonies : f[c] # Absent => c = h.job.c
    /\ h.pc = "open" /\ ~h.poison /\ h.reconciled = "yes" => Agrees(h.current, f)
    /\ h.pc = "write" /\ h.reconciled = "yes" => Agrees(h.current, f)
    /\ h.pc = "remove" /\ h.reconciled = "yes" =>
         /\ f[h.job.c] # Absent
         /\ f[h.job.c].state \in {"CANCELLED", "EXPIRED", "CORRUPT"}
    /\ h.pc = "retire" => \A c \in Ceremonies : f[c] = Absent

\* There is at most one journal.
Single(f) == \A c, d \in Ceremonies : f[c] # Absent /\ f[d] # Absent => c = d

LockInv == /\ lock.ino = 0 => lock = NoLock
           /\ \A p \in Procs : LockKnown(lock, host[p], p)
PathInv == ~raced => \A p \in Procs : Undisturbed(lock, host[p])
DiskInv == ~raced => /\ Single(file)
                     /\ \A p \in Procs : Knows(host[p], file)
HostInv == \A p \in Procs : Local(host[p])

IInv == Types /\ HostInv /\ LockInv /\ PathInv /\ DiskInv

(***************************************************************************)
(* The identity of a new file.                                             *)
(***************************************************************************)

\* Two identities a process may know leave one for the new file.
LEMMA FreshIdentity ==
    ASSUME Types, lock = NoLock
    PROVE  /\ FreshInode \in Inodes /\ FreshInode # 0
           /\ \A p \in Procs : FreshInode # host[p].own /\ FreshInode # host[p].seen
<1> DEFINE n == Cardinality(Procs)
           owned == [p \in Procs |-> host[p].own]
           probed == [p \in Procs |-> host[p].seen]
           O == {host[p].own : p \in Procs}
           S == {host[p].seen : p \in Procs}
<1>1. n \in Nat
  BY FS_CardinalityType
<1>2. IsFiniteSet(O) /\ Cardinality(O) <= n
  <2>1. owned \in Surjection(Procs, O)
    BY DEF Surjection
  <2> QED BY <2>1, FS_Surjection
<1>3. IsFiniteSet(S) /\ Cardinality(S) <= n
  <2>1. probed \in Surjection(Procs, S)
    BY DEF Surjection
  <2> QED BY <2>1, FS_Surjection
<1> HIDE DEF n, O, S
<1>4. IsFiniteSet(O \cup S) /\ Cardinality(O \cup S) <= 2 * n
  <2>1. IsFiniteSet(O \cap S)
    BY <1>2, FS_Intersection
  <2>2. /\ Cardinality(O \cap S) \in Nat /\ Cardinality(O) \in Nat
        /\ Cardinality(S) \in Nat
    BY <1>2, <1>3, <2>1, FS_CardinalityType
  <2>3. /\ IsFiniteSet(O \cup S)
        /\ Cardinality(O \cup S) = Cardinality(O) + Cardinality(S) - Cardinality(O \cap S)
    BY <1>2, <1>3, FS_Union
  <2> QED BY <1>1, <1>2, <1>3, <2>2, <2>3
<1>5. Cardinality(Inodes) = 2 * n + 1
  <2>1. Inodes = 1..(2 * n + 1)
    BY DEF Inodes, n
  <2> QED BY <1>1, <2>1, FS_Interval
<1>6. ~(Inodes \subseteq O \cup S)
  <2>1. Inodes \subseteq O \cup S => Cardinality(Inodes) <= Cardinality(O \cup S)
    BY <1>4, FS_Subset
  <2>2. Cardinality(O \cup S) \in Nat
    BY <1>4, FS_CardinalityType
  <2> QED BY <1>1, <1>4, <1>5, <2>1, <2>2
<1>7. PICK i \in Inodes : i \notin O \cup S
  BY <1>6
<1>8. i # lock.ino /\ \A p \in Procs : i \notin {host[p].own, host[p].seen}
  <2>1. i # 0
    BY <1>1 DEF Inodes, n
  <2> QED BY <1>7, <2>1 DEF O, S, NoLock
<1>9. /\ FreshInode \in Inodes
      /\ \A p \in Procs : FreshInode \notin {host[p].own, host[p].seen}
  BY <1>8 DEF FreshInode
<1> QED BY <1>1, <1>9 DEF Inodes, n

(***************************************************************************)
(* The memory of one process.  Each step changes that of one process, and  *)
(* its new place, job and ceremony fit together again.                     *)
(***************************************************************************)

Moved(p) ==
    /\ host' \in [Procs -> Hosts]
    /\ \A q \in Procs \ {p} : host'[q] = host[q]
    /\ Local(host'[p])

\* A step of a process that keeps its lock, and its knowledge of the disk.
Keeps(p) ==
    /\ Moved(p)
    /\ host'[p].own = host[p].own /\ host'[p].seen = host[p].seen
    /\ host'[p].pc # "rename"
    /\ Single(file) /\ Knows(host[p], file) => Single(file') /\ Knows(host'[p], file')

\* A process without a lock has nothing to fit together.
Bare(h) ==
    /\ h.pc \in {"off", "idle", "inspect", "recreate"} /\ h.own = 0 /\ h.seen = 0
    /\ h.reconciled = "no" /\ h.current.j = Absent /\ h.job.op = "none"

\* The constants of an idle host are well formed.
LEMMA Blanks ==
    /\ 0 \in Idents /\ Absent \in Journals /\ Corrupt \in Journals
    /\ Off \in Hosts /\ NoLock \in Locks /\ NoJob \in [op : {"none"}, c : Names, to : Journals]
    /\ Off.current \in [c : Names, j : Journals]
BY DEF Off, Hosts, NoLock, NoJob, NoCeremony, Absent, Corrupt, Journal, Journals, Idents, Locks,
       Names, Places

\* A host that is given up.
LEMMA UnmadeForm ==
    ASSUME Types, HostInv, NEW p \in Procs
    PROVE  /\ Unmade(p) \in [Procs -> Hosts] /\ Poisons(Unmade(p), p) \in [Procs -> Hosts]
           /\ \A q \in Procs \ {p} :
                Unmade(p)[q] = host[q] /\ Poisons(Unmade(p), p)[q] = host[q]
           /\ Bare(Unmade(p)[p]) /\ Unmade(p)[p].pc = "idle" /\ Local(Unmade(p)[p])
           /\ Bare(Poisons(Unmade(p), p)[p]) /\ Poisons(Unmade(p), p)[p].pc = "idle"
           /\ Local(Poisons(Unmade(p), p)[p])
<1>1. host[p] \in Hosts /\ Local(host[p])
  BY DEF Types, HostInv
<1> DEFINE u == [Off EXCEPT !.pc = "idle", !.poison = host[p].poison,
                            !.ceremony = host[p].ceremony]
<1>2. u \in Hosts /\ [u EXCEPT !.poison = TRUE] \in Hosts
  BY <1>1, Blanks DEF Hosts, Places
<1>3. Bare(u) /\ u.pc = "idle" /\ Local(u)
  BY <1>1 DEF Off, Bare, NoJob, Absent, Local, PlaceInv, JobInv, CeremonyInv, Holding, Methods
<1>4. LET v == [u EXCEPT !.poison = TRUE] IN Bare(v) /\ v.pc = "idle" /\ Local(v)
  BY <1>1 DEF Off, Bare, NoJob, Absent, Local, PlaceInv, JobInv, CeremonyInv, Holding, Methods
<1>5. /\ Unmade(p) = [host EXCEPT ![p] = u]
      /\ Poisons(Unmade(p), p) = [host EXCEPT ![p] = [u EXCEPT !.poison = TRUE]]
  BY DEF Unmade, Poisons, Types
<1> HIDE DEF u
<1> QED BY <1>2, <1>3, <1>4, <1>5 DEF Types

\* A new record for one process.
LEMMA MovedBy ==
    ASSUME Types, NEW p \in Procs, NEW g \in Hosts, Local(g), host' = [host EXCEPT ![p] = g]
    PROVE  Moved(p) /\ host'[p] = g
BY DEF Types, Moved

\* A new record for a process that keeps its lock.
LEMMA KeepsBy ==
    ASSUME Types, NEW p \in Procs, NEW g \in Hosts, Local(g), host' = [host EXCEPT ![p] = g],
           g.own = host[p].own, g.seen = host[p].seen, g.pc # "rename",
           Single(file) /\ Knows(host[p], file) => Single(file') /\ Knows(g, file')
    PROVE  Keeps(p) /\ host'[p] = g
<1>1. Moved(p) /\ host'[p] = g
  BY MovedBy
<1> QED BY <1>1 DEF Keeps

\* The record of a process that has just created a lock.
LEMMA CreateMoves ==
    ASSUME Types, HostInv, NEW p \in Procs, host[p].pc \in {"idle", "recreate"},
           lock = NoLock, CreateLock(p)
    PROVE  /\ Moved(p) /\ host'[p].pc = "payload"
           /\ host'[p].own = FreshInode /\ host'[p].seen = 0
<1>1. host[p] \in Hosts /\ Local(host[p])
  BY DEF Types, HostInv
<1>2. FreshInode \in Inodes /\ FreshInode # 0
  BY FreshIdentity
<1> DEFINE g == [host[p] EXCEPT !.pc = "payload", !.own = FreshInode, !.seen = 0]
<1>3. g \in Hosts
  BY <1>1, <1>2 DEF Hosts, Places, Holding, Idents
<1>4. Local(g)
  BY <1>1, <1>2 DEF Hosts, Local, PlaceInv, JobInv, CeremonyInv, Holding, Methods
<1>5. host' = [host EXCEPT ![p] = g]
  BY DEF CreateLock
<1>6. g.pc = "payload" /\ g.own = FreshInode /\ g.seen = 0
  BY <1>1 DEF Hosts
<1> HIDE DEF g
<1> QED BY <1>3, <1>4, <1>5, <1>6, MovedBy

\* Starting, ending and the steps around the lock.
LEMMA LockMoves ==
    ASSUME Types, HostInv, LockInv, NEW p \in Procs,
           Start(p) \/ Crash(p) \/ Quit(p) \/ Close(p) \/ LockStep(p)
    PROVE  Moved(p)
<1>0. host[p] \in Hosts /\ Local(host[p])
  BY DEF Types, HostInv
<1> DEFINE at(t) == [host[p] EXCEPT !.pc = t]
<1> USE DEF Local, PlaceInv, JobInv, CeremonyInv, Holding, Methods
<1>1. ASSUME host' = Unmade(p) \/ host' = Poisons(Unmade(p), p) PROVE Moved(p)
  BY <1>1, UnmadeForm DEF Moved
<1>2. ASSUME host' = [host EXCEPT ![p] = Off] PROVE Moved(p)
  <2>1. Local(Off)
    BY DEF Off, NoJob, NoCeremony
  <2> QED BY <1>2, <2>1, Blanks, MovedBy
<1>3. ASSUME host[p].pc = "off", host' = Go(p, "idle") PROVE Moved(p)
  <2>1. at("idle") \in Hosts
    BY <1>0 DEF Hosts, Places
  <2>2. Local(at("idle"))
    BY <1>0, <1>3 DEF Hosts
  <2>3. host' = [host EXCEPT ![p] = at("idle")]
    BY <1>3 DEF Go
  <2> HIDE DEF at
  <2> QED BY <2>1, <2>2, <2>3, MovedBy
<1>4. ASSUME host[p].pc = "idle", host' = Go(p, "inspect") PROVE Moved(p)
  <2>1. at("inspect") \in Hosts
    BY <1>0 DEF Hosts, Places
  <2>2. Local(at("inspect"))
    BY <1>0, <1>4 DEF Hosts
  <2>3. host' = [host EXCEPT ![p] = at("inspect")]
    BY <1>4 DEF Go
  <2> HIDE DEF at
  <2> QED BY <2>1, <2>2, <2>3, MovedBy
<1>5. ASSUME host[p].pc = "payload", host' = Go(p, "open") PROVE Moved(p)
  <2>1. at("open") \in Hosts
    BY <1>0 DEF Hosts, Places
  <2>2. Local(at("open"))
    BY <1>0, <1>5 DEF Hosts
  <2>3. host' = [host EXCEPT ![p] = at("open")]
    BY <1>5 DEF Go
  <2> HIDE DEF at
  <2> QED BY <2>1, <2>2, <2>3, MovedBy
<1>6. ASSUME host[p].pc = "inspect", lock.ino \in Idents, lock.ino # 0,
             host' = [host EXCEPT ![p].pc = "probe", ![p].seen = lock.ino]
      PROVE  Moved(p)
  <2> DEFINE g == [host[p] EXCEPT !.pc = "probe", !.seen = lock.ino]
  <2>1. g \in Hosts
    BY <1>0, <1>6 DEF Hosts, Places
  <2>2. Local(g)
    BY <1>0, <1>6 DEF Hosts
  <2>3. host' = [host EXCEPT ![p] = g]
    BY <1>6
  <2> HIDE DEF g
  <2> QED BY <2>1, <2>2, <2>3, MovedBy
<1>7. ASSUME host[p].pc = "probe", stale \in Nat, stale < MaxStaleLocks,
             host' = [Go(p, "rename") EXCEPT ![p].slot = stale]
      PROVE  Moved(p)
  <2> DEFINE g == [host[p] EXCEPT !.pc = "rename", !.slot = stale]
  <2>1. g \in Hosts
    BY <1>0, <1>7 DEF Hosts, Places
  <2>2. Local(g)
    BY <1>0, <1>7 DEF Hosts
  <2>3. host' = [host EXCEPT ![p] = g]
    BY <1>7 DEF Go, Types
  <2> HIDE DEF g
  <2> QED BY <2>1, <2>2, <2>3, MovedBy
<1>8. ASSUME host[p].pc = "rename",
             host' = [host EXCEPT ![p].pc = "recreate", ![p].seen = 0, ![p].slot = 0]
      PROVE  Moved(p)
  <2> DEFINE g == [host[p] EXCEPT !.pc = "recreate", !.seen = 0, !.slot = 0]
  <2>1. g \in Hosts
    BY <1>0, Blanks DEF Hosts, Places
  <2>2. Local(g)
    BY <1>0, <1>8 DEF Hosts
  <2>3. host' = [host EXCEPT ![p] = g]
    BY <1>8
  <2> HIDE DEF g
  <2> QED BY <2>1, <2>2, <2>3, MovedBy
<1> HIDE DEF Local, PlaceInv, JobInv, CeremonyInv, Holding, Methods
<1>9. stale \in Nat
  BY DEF Types
<1>10. CASE Start(p)
  BY <1>10, <1>3 DEF Start
<1>11. CASE Crash(p) \/ Quit(p)
  BY <1>11, <1>2 DEF Crash, Quit
<1>12. CASE Close(p)
  BY <1>12, <1>1 DEF Close
<1>13. CASE Acquire(p)
  BY <1>13, <1>4, CreateMoves DEF Acquire
<1>14. CASE WritePayload(p)
  BY <1>14, <1>1, <1>5 DEF WritePayload
<1>15. CASE HandleExistingLock(p)
  <2>1. lock.ino \in Idents /\ (lock # NoLock => lock.ino # 0)
    BY DEF Types, Locks, LockInv
  <2> QED BY <1>15, <1>1, <1>6, <2>1 DEF HandleExistingLock
<1>16. CASE QuarantineProbe(p)
  BY <1>16, <1>1, <1>7, <1>9 DEF QuarantineProbe
<1>17. CASE QuarantineRename(p)
  BY <1>17, <1>1, <1>8 DEF QuarantineRename
<1>18. CASE Recreate(p)
  BY <1>18, <1>1, CreateMoves DEF Recreate
<1> QED BY <1>10, <1>11, <1>12, <1>13, <1>14, <1>15, <1>16, <1>17, <1>18 DEF LockStep

\* The steps in memory alone: the ceremony, and a method that begins.
LEMMA MemoryMoves ==
    ASSUME Types, HostInv, NEW p \in Procs,
           \/ Mint(p) \/ CancelCeremony(p) \/ CheckExpiry(p) \/ RetireUnstaged(p)
           \/ LockLost(p) \/ CreateJournal(p) \/ Cancel(p) \/ Status(p)
           \/ \E r \in Roles : StageRole(p, r)
    PROVE  Keeps(p) /\ UNCHANGED <<disk, faults>>
<1>0. host[p] \in Hosts /\ Local(host[p])
  BY DEF Types, HostInv
<1> DEFINE h == host[p]
<1> USE DEF Local, PlaceInv, JobInv, CeremonyInv, Holding, Methods
<1>1. ASSUME NEW cer \in [state : {"NONE", "ACTIVE", "ENDED"}, c : Names,
                          reason : {"NONE", "EXPIRED", "CANCELLED"}],
             cer.state # "NONE" => cer.c \in Ceremonies,
             \/ h.current.j = Absent
             \/ h.ceremony.state = "NONE"
             \/ cer.c = h.ceremony.c /\ cer.state # "NONE",
             AtRest(p), host' = [host EXCEPT ![p].ceremony = cer], file' = file
      PROVE  Keeps(p)
  <2> DEFINE g == [h EXCEPT !.ceremony = cer]
  <2>1. g \in Hosts
    BY <1>0 DEF Hosts
  <2>2. Local(g)
    BY <1>0, <1>1 DEF Hosts, AtRest
  <2>3. host' = [host EXCEPT ![p] = g]
    BY <1>1
  <2>4. g.own = h.own /\ g.seen = h.seen /\ g.pc # "rename"
    BY <1>0, <1>1 DEF Hosts, AtRest
  <2>5. Knows(h, file) => Knows(g, file)
    BY <1>0 DEF Hosts, Knows
  <2> HIDE DEF g
  <2> QED BY <1>1, <2>1, <2>2, <2>3, <2>4, <2>5, KeepsBy
<1>2. CASE Mint(p)
  <2>1. PICK c \in Ceremonies :
          host' = [host EXCEPT ![p].ceremony = [state |-> "ACTIVE", c |-> c, reason |-> "NONE"]]
    BY <1>2 DEF Mint
  <2> QED BY <1>1, <1>2, <2>1 DEF Mint, Names, disk
<1>3. CASE CancelCeremony(p) \/ CheckExpiry(p)
  <2>1. PICK r \in {"EXPIRED", "CANCELLED"} :
          host' = [host EXCEPT ![p].ceremony = Ended(h.ceremony, r)]
    BY <1>3 DEF CancelCeremony, CheckExpiry
  <2>2. /\ Ended(h.ceremony, r) \in [state : {"NONE", "ACTIVE", "ENDED"}, c : Names,
                                     reason : {"NONE", "EXPIRED", "CANCELLED"}]
        /\ Ended(h.ceremony, r).c = h.ceremony.c /\ Ended(h.ceremony, r).state = "ENDED"
    BY <1>0 DEF Ended, Hosts
  <2>3. h.ceremony.c \in Ceremonies /\ AtRest(p)
    BY <1>0, <1>3 DEF CancelCeremony, CheckExpiry
  <2> QED BY <1>1, <1>3, <2>1, <2>2, <2>3 DEF CancelCeremony, CheckExpiry, disk
<1>4. CASE RetireUnstaged(p)
  <2>1. NoCeremony \in [state : {"NONE", "ACTIVE", "ENDED"}, c : Names,
                        reason : {"NONE", "EXPIRED", "CANCELLED"}] /\ NoCeremony.state = "NONE"
    BY DEF NoCeremony, Names
  <2> QED BY <1>1, <1>4, <2>1 DEF RetireUnstaged, disk
<1>5. CASE LockLost(p)
  <2> DEFINE g == [h EXCEPT !.poison = TRUE]
  <2>1. g \in Hosts
    BY <1>0 DEF Hosts
  <2>2. Local(g)
    BY <1>0, <1>5 DEF Hosts, LockLost, Active
  <2>3. host' = [host EXCEPT ![p] = g]
    BY <1>5 DEF LockLost, Poisons
  <2>4. g.own = h.own /\ g.seen = h.seen /\ g.pc # "rename"
    BY <1>0, <1>5 DEF Hosts, LockLost, Active
  <2>5. Knows(h, file) => Knows(g, file)
    BY <1>0 DEF Hosts, Knows
  <2> HIDE DEF g
  <2> QED BY <1>5, <2>1, <2>2, <2>3, <2>4, <2>5, KeepsBy DEF LockLost, disk
<1>6. ASSUME NEW op \in {"stage", "end"}, NEW c \in Ceremonies, NEW j \in Journals,
             Ready(p), Begins(p, op, c, j, "write"),
             op = "stage" => /\ j.state = "STAGING"
                             /\ h.ceremony.state # "NONE" /\ h.ceremony.c = c
                             /\ h.current.j # Absent => c = h.current.c,
             op = "end" => /\ j.state \in {"CANCELLED", "EXPIRED"}
                           /\ h.current.j # Absent /\ c = h.current.c
      PROVE  Keeps(p) /\ UNCHANGED <<disk, faults>>
  <2> DEFINE g == [h EXCEPT !.pc = "write", !.job = [op |-> op, c |-> c, to |-> j]]
  <2>1. g \in Hosts
    BY <1>0, <1>6 DEF Hosts, Places, Names
  <2>2. PlaceInv(g)
    BY <1>0, <1>6 DEF Hosts, Ready, Active
  <2>3. JobInv(g)
    BY <1>0, <1>6 DEF Hosts, Ready
  <2>4. CeremonyInv(g)
    BY <1>0 DEF Hosts
  <2>5. host' = [host EXCEPT ![p] = g]
    BY <1>6 DEF Begins
  <2>6. g.own = h.own /\ g.seen = h.seen /\ g.pc # "rename"
    BY <1>0 DEF Hosts
  <2>7. Knows(h, file) => Knows(g, file)
    BY <1>0, <1>6 DEF Hosts, Knows, Agrees, Ready, Active
  <2> HIDE DEF g
  <2> QED BY <1>6, <2>1, <2>2, <2>3, <2>4, <2>5, <2>6, <2>7, KeepsBy DEF Begins, disk
<1> HIDE DEF PlaceInv, JobInv, Holding, Methods
<1>7. CASE CreateJournal(p)
  <2>1. Journal("STAGING", {}) \in Journals /\ Journal("STAGING", {}).state = "STAGING"
    BY DEF Journal, Journals
  <2>2. h.ceremony.c \in Ceremonies
    BY <1>0, <1>7 DEF CreateJournal
  <2> QED BY <1>6, <1>7, <2>1, <2>2 DEF CreateJournal
<1>8. ASSUME Staged(p), NEW s \in {"CANCELLED", "EXPIRED"}, End(p, s)
      PROVE  Keeps(p) /\ UNCHANGED <<disk, faults>>
  <2> DEFINE j == Journal(s, h.current.j.roles)
  <2>1. j \in Journals /\ j.state = s
    BY <1>0 DEF Journal, Journals, Hosts, Terminal
  <2>2. h.current.c \in Ceremonies
    BY <1>0, <1>8 DEF Staged
  <2> QED BY <1>6, <1>8, <2>1, <2>2 DEF Staged, End
<1>9. CASE Cancel(p) \/ Status(p)
  BY <1>8, <1>9 DEF Cancel, Status, Staged
<1>10. CASE \E r \in Roles : StageRole(p, r)
  <2>1. PICK r \in Roles : StageRole(p, r)
    BY <1>10
  <2>2. CASE h.current.c \in expired
    BY <1>8, <2>1, <2>2 DEF StageRole, Staged
  <2>3. CASE h.current.c \notin expired
    <3> DEFINE j == Journal("STAGING", h.current.j.roles \cup {r})
    <3>1. j \in Journals /\ j.state = "STAGING"
      BY <1>0 DEF Journal, Journals, Hosts
    <3>2. /\ h.current.c \in Ceremonies
          /\ h.ceremony.state # "NONE" /\ h.ceremony.c = h.current.c
      BY <1>0, <2>1 DEF StageRole, Staged, Ready, Active
    <3>3. Ready(p) /\ Begins(p, "stage", h.current.c, j, "write")
      BY <2>1, <2>3 DEF StageRole, Staged
    <3> QED BY <1>6, <3>1, <3>2, <3>3
  <2> QED BY <2>2, <2>3
<1> QED BY <1>2, <1>3, <1>4, <1>5, <1>7, <1>9, <1>10

(***************************************************************************)
(* The file operations of a method.                                        *)
(***************************************************************************)

\* A method that ends with an error leaves a host that agrees with the disk, or
\* one that is never used again.
LEMMA FailsKeeps ==
    ASSUME Types, HostInv, NEW p \in Procs, host[p].pc \in Methods,
           \/ /\ host' = Fails(p)
              /\ Single(file) /\ Knows(host[p], file) =>
                    /\ Single(file')
                    /\ host[p].reconciled = "yes" => Agrees(host[p].current, file')
           \/ /\ host' = Poisons(Fails(p), p) \/ host' = Poisons(Refused(p), p)
              /\ Single(file) /\ Knows(host[p], file) => Single(file')
    PROVE  Keeps(p)
<1>0. host[p] \in Hosts /\ Local(host[p])
  BY DEF Types, HostInv
<1> DEFINE h == host[p]
           at(rec, bad) == [h EXCEPT !.pc = "open", !.job = NoJob,
                                     !.reconciled = rec, !.poison = bad]
<1>a. Refused(p) = [host EXCEPT ![p] = at(h.reconciled, h.poison)]
  <2>1. [h EXCEPT !.pc = "open", !.job = NoJob] = at(h.reconciled, h.poison)
    BY <1>0 DEF Hosts
  <2>2. Refused(p) = [host EXCEPT ![p] = [h EXCEPT !.pc = "open", !.job = NoJob]]
    BY DEF Refused, Types
  <2> QED BY <2>1, <2>2
<1>b. RefusedReconcile(p) = [host EXCEPT ![p] = at("failed", h.poison)]
  <2>1. [at(h.reconciled, h.poison) EXCEPT !.reconciled = "failed"] = at("failed", h.poison)
    BY <1>0 DEF Hosts
  <2> HIDE DEF at
  <2> QED BY <1>a, <2>1 DEF RefusedReconcile, Types
<1>c. \A rec \in {h.reconciled, "failed"} :
        Poisons([host EXCEPT ![p] = at(rec, h.poison)], p) = [host EXCEPT ![p] = at(rec, TRUE)]
  <2>1. \A rec : [at(rec, h.poison) EXCEPT !.poison = TRUE] = at(rec, TRUE)
    BY <1>0 DEF Hosts
  <2> HIDE DEF at
  <2> QED BY <2>1 DEF Poisons, Types
<1>1. PICK rec \in {h.reconciled, "failed"}, bad \in {h.poison, TRUE} :
        /\ host' = [host EXCEPT ![p] = at(rec, bad)]
        /\ bad = TRUE \/ (Single(file) /\ Knows(host[p], file) =>
                            (h.reconciled = "yes" => Agrees(h.current, file')))
  <2> HIDE DEF at
  <2> QED BY <1>a, <1>b, <1>c DEF Fails
<1> DEFINE g == at(rec, bad)
<1>2. g \in Hosts
  BY <1>0, Blanks DEF Hosts, Places, Holding
<1>3. Local(g)
  BY <1>0 DEF Hosts, NoJob, Local, PlaceInv, JobInv, CeremonyInv, Holding, Methods
<1>4. g.own = h.own /\ g.seen = h.seen /\ g.pc # "rename"
  BY <1>0 DEF Hosts
<1>5. Single(file) /\ Knows(h, file) => Single(file') /\ Knows(g, file')
  BY <1>0, <1>1 DEF Hosts, Knows, Methods
<1> HIDE DEF g
<1> QED BY <1>1, <1>2, <1>3, <1>4, <1>5, KeepsBy DEF g

\* A journal is written through its temporary file.
LEMMA WriteKeeps ==
    ASSUME Types, HostInv, NEW p \in Procs, WriteJournalAtomic(p)
    PROVE  /\ Keeps(p) /\ UNCHANGED lock
           /\ file' \in [Ceremonies -> Journals] /\ \A c \in Ceremonies : Whole(file'[c])
<1>0. host[p] \in Hosts /\ Local(host[p]) /\ host[p].pc = "write"
  BY DEF Types, HostInv, WriteJournalAtomic
<1> DEFINE h == host[p]
           job == h.job
           written == [file EXCEPT ![job.c] = job.to]
<1>1. /\ job.c \in Ceremonies /\ job.to \in Journals /\ job.op \in {"stage", "end", "reconcile"}
      /\ job.to.state \in {"STAGING", "CANCELLED", "EXPIRED", "SUPERSEDED"}
      /\ job.to # Absent /\ h.pc \in Methods
  BY <1>0 DEF Hosts, Local, PlaceInv, JobInv, Methods, Absent, Journal
<1>2. /\ file' \in [Ceremonies -> Journals] /\ \A c \in Ceremonies : Whole(file'[c])
      /\ UNCHANGED lock
      /\ file' = file \/ file' = written
  <2>1. file' = file \/ file' = written
    BY DEF WriteJournalAtomic
  <2>2. Whole(job.to)
    BY <1>1 DEF Whole
  <2>3. written \in [Ceremonies -> Journals] /\ \A c \in Ceremonies : Whole(written[c])
    BY <1>1, <2>2 DEF Types
  <2> HIDE DEF written
  <2> QED BY <2>1, <2>3 DEF WriteJournalAtomic, Types
<1>3. Knows(h, file) => \A d \in Ceremonies : file[d] # Absent => d = job.c
  BY <1>0 DEF Knows, Methods
<1>4. ASSUME Knows(h, file)
      PROVE  /\ Single(written) /\ \A d \in Ceremonies : written[d] # Absent <=> d = job.c
             /\ written[job.c] = job.to
  BY <1>1, <1>3, <1>4 DEF Types, Single
<1>5. CASE host' = Fails(p) /\ file' = file
  <2>1. Knows(h, file) => (h.reconciled = "yes" => Agrees(h.current, file))
    BY <1>0 DEF Knows
  <2> QED BY <1>1, <1>2, <1>5, <2>1, FailsKeeps
<1>6. CASE host' = Poisons(Fails(p), p)
  BY <1>1, <1>2, <1>4, <1>6, FailsKeeps
<1>7. CASE host' = Written(p) /\ file' = written
  <2>1. CASE job.op = "stage"
    <3> DEFINE g == [h EXCEPT !.pc = "open", !.job = NoJob,
                              !.current = [c |-> job.c, j |-> job.to]]
    <3>1. g \in Hosts
      BY <1>0, <1>1, Blanks DEF Hosts, Places, Holding, Names
    <3>2. Local(g)
      BY <1>0, <1>1, <2>1 DEF Hosts, NoJob, Local, PlaceInv, JobInv, CeremonyInv, Holding, Methods
    <3>3. g.own = h.own /\ g.seen = h.seen /\ g.pc # "rename"
      BY <1>0 DEF Hosts
    <3>4. Knows(h, file) => Knows(g, written)
      <4>1. /\ g.pc = "open" /\ g.current = [c |-> job.c, j |-> job.to]
        BY <1>0 DEF Hosts
      <4>2. Knows(h, file) => Agrees(g.current, written)
        <5> HIDE DEF g, written
        <5> QED BY <1>1, <1>4, <4>1 DEF Agrees
      <4> HIDE DEF g, written
      <4> QED BY <4>1, <4>2 DEF Knows, Methods
    <3>5. host' = [host EXCEPT ![p] = g]
      BY <1>7, <2>1 DEF Written, Done, Types
    <3> HIDE DEF g, written
    <3> QED BY <1>2, <1>4, <1>7, <3>1, <3>2, <3>3, <3>4, <3>5, KeepsBy
  <2>2. CASE job.op # "stage"
    <3> DEFINE g == [h EXCEPT !.pc = "remove"]
    <3>1. g \in Hosts
      BY <1>0, <1>1 DEF Hosts, Places, Holding, Methods
    <3>2. Local(g)
      BY <1>0, <1>1, <2>2 DEF Hosts, Local, PlaceInv, JobInv, CeremonyInv, Holding, Methods
    <3>3. g.own = h.own /\ g.seen = h.seen /\ g.pc # "rename"
      BY <1>0 DEF Hosts
    <3>4. Knows(h, file) => Knows(g, written)
      <4>1. g.pc = "remove" /\ g.job = job /\ g.reconciled = h.reconciled
        BY <1>0 DEF Hosts
      <4>2. Knows(h, file) => /\ \A d \in Ceremonies : written[d] # Absent <=> d = job.c
                              /\ written[job.c] = job.to
        BY <1>4
      <4>3. h.reconciled = "yes" => job.to.state \in {"CANCELLED", "EXPIRED"}
        BY <1>0, <1>1, <2>2 DEF Local, JobInv
      <4> HIDE DEF g, written
      <4> QED BY <1>1, <4>1, <4>2, <4>3 DEF Knows, Methods
    <3>5. host' = [host EXCEPT ![p] = g]
      BY <1>7, <2>2 DEF Written, Go
    <3> HIDE DEF g, written
    <3> QED BY <1>2, <1>4, <1>7, <3>1, <3>2, <3>3, <3>4, <3>5, KeepsBy
  <2> QED BY <2>1, <2>2
<1> QED BY <1>2, <1>5, <1>6, <1>7 DEF WriteJournalAtomic

\* A host whose restart is reconciled has no journal, and there is none.
LEMMA ReconciledKeeps ==
    ASSUME Types, HostInv, NEW p \in Procs, host[p].job.op = "reconcile",
           host' = Reconciled(p),
           Single(file) /\ Knows(host[p], file) =>
              Single(file') /\ \A c \in Ceremonies : file'[c] = Absent
    PROVE  Keeps(p)
<1>0. host[p] \in Hosts /\ Local(host[p])
  BY DEF Types, HostInv
<1> DEFINE h == host[p]
           g == [h EXCEPT !.pc = "open", !.job = NoJob, !.reconciled = "yes",
                          !.current = Off.current]
<1>1. g \in Hosts
  BY <1>0, Blanks DEF Hosts, Places, Holding
<1>2. Local(g)
  BY <1>0 DEF Hosts, NoJob, Off, Local, PlaceInv, JobInv, CeremonyInv, Holding, Methods
<1>3. g.own = h.own /\ g.seen = h.seen /\ g.pc = "open" /\ g.current.j = Absent
  BY <1>0 DEF Hosts, Off
<1>4. host' = [host EXCEPT ![p] = g]
  BY DEF Reconciled, Done, Types
<1> HIDE DEF g
<1>5. Single(file) /\ Knows(h, file) => Single(file') /\ Knows(g, file')
  BY <1>3 DEF Knows, Agrees, Methods
<1> QED BY <1>1, <1>2, <1>3, <1>4, <1>5, KeepsBy

\* A journal that is removed leaves none.
LEMMA RemovedFacts ==
    ASSUME Types, NEW c \in Ceremonies
    PROVE  LET f == [file EXCEPT ![c] = Absent] IN
           /\ f \in [Ceremonies -> Journals] /\ \A d \in Ceremonies : Whole(f[d])
           /\ (\A d \in Ceremonies : file[d] # Absent => d = c) =>
                 Single(f) /\ \A d \in Ceremonies : f[d] = Absent
<1>1. Whole(Absent)
  BY DEF Whole, Absent, Journal
<1> QED BY <1>1, Blanks DEF Types, Single

\* A terminal journal is removed.
LEMMA RemoveKeeps ==
    ASSUME Types, HostInv, NEW p \in Procs, RemoveJournalAtomic(p)
    PROVE  /\ Keeps(p) /\ UNCHANGED lock
           /\ file' \in [Ceremonies -> Journals] /\ \A c \in Ceremonies : Whole(file'[c])
<1>0. host[p] \in Hosts /\ Local(host[p]) /\ host[p].pc = "remove"
  BY DEF Types, HostInv, RemoveJournalAtomic
<1> DEFINE h == host[p]
           job == h.job
           removed == [file EXCEPT ![job.c] = Absent]
<1>1. job.c \in Ceremonies /\ h.pc \in Methods /\ job.op \in {"end", "reconcile"}
  BY <1>0 DEF Hosts, Local, PlaceInv, JobInv, Methods
<1>2. /\ removed \in [Ceremonies -> Journals] /\ \A d \in Ceremonies : Whole(removed[d])
      /\ (\A d \in Ceremonies : file[d] # Absent => d = job.c) =>
            Single(removed) /\ \A d \in Ceremonies : removed[d] = Absent
  BY <1>1, RemovedFacts
<1>3. Knows(h, file) => Single(removed) /\ \A d \in Ceremonies : removed[d] = Absent
  BY <1>1, <1>2 DEF Knows
<1>4. file' = file \/ file' = removed
  BY DEF RemoveJournalAtomic
<1> HIDE DEF removed
<1>5. /\ file' \in [Ceremonies -> Journals] /\ \A c \in Ceremonies : Whole(file'[c])
      /\ UNCHANGED lock
  BY <1>2, <1>4 DEF RemoveJournalAtomic, Types
<1>6. CASE host' = Fails(p) /\ file' = file
  <2>1. h.reconciled = "yes" => h.current.j # Absent /\ job.c = h.current.c
    BY <1>0, <1>1 DEF Local, JobInv
  <2>2. Knows(h, file) => (h.reconciled = "yes" => Agrees(h.current, file))
    BY <1>0, <2>1 DEF Knows, Agrees, Methods
  <2> QED BY <1>5, <1>1, <1>6, <2>2, FailsKeeps
<1>7. CASE host' = Poisons(Fails(p), p)
  BY <1>5, <1>1, <1>3, <1>4, <1>7, FailsKeeps
<1>8. CASE job.op = "reconcile" /\ host' = Reconciled(p) /\ file' = removed
  BY <1>5, <1>3, <1>8, ReconciledKeeps
<1>9. CASE job.op # "reconcile" /\ host' = Go(p, "retire") /\ file' = removed
  <2> DEFINE g == [h EXCEPT !.pc = "retire"]
  <2>1. g \in Hosts
    BY <1>0 DEF Hosts, Places, Holding, Methods
  <2>2. Local(g)
    BY <1>0, <1>1, <1>9 DEF Hosts, Local, PlaceInv, JobInv, CeremonyInv, Holding, Methods
  <2>3. g.own = h.own /\ g.seen = h.seen /\ g.pc = "retire"
    BY <1>0 DEF Hosts
  <2>4. host' = [host EXCEPT ![p] = g]
    BY <1>9 DEF Go
  <2> HIDE DEF g
  <2>5. Knows(h, file) => Single(file') /\ Knows(g, file')
    BY <1>3, <1>9, <2>3 DEF Knows
  <2> QED BY <1>5, <2>1, <2>2, <2>3, <2>4, <2>5, KeepsBy
<1> QED BY <1>5, <1>6, <1>7, <1>8, <1>9 DEF RemoveJournalAtomic, removed

\* A damaged journal is moved away.
LEMMA QuarantineKeeps ==
    ASSUME Types, HostInv, NEW p \in Procs, QuarantineCorruptJournal(p)
    PROVE  /\ Keeps(p) /\ UNCHANGED lock
           /\ file' \in [Ceremonies -> Journals] /\ \A c \in Ceremonies : Whole(file'[c])
<1>0. host[p] \in Hosts /\ Local(host[p]) /\ host[p].pc = "quarantine"
  BY DEF Types, HostInv, QuarantineCorruptJournal
<1> DEFINE h == host[p]
           job == h.job
           removed == [file EXCEPT ![job.c] = Absent]
<1>1. /\ job.c \in Ceremonies /\ h.pc \in Methods /\ job.op = "reconcile"
      /\ h.reconciled = "no"
  BY <1>0 DEF Hosts, Local, PlaceInv, JobInv, Methods
<1>2. /\ removed \in [Ceremonies -> Journals] /\ \A d \in Ceremonies : Whole(removed[d])
      /\ (\A d \in Ceremonies : file[d] # Absent => d = job.c) =>
            Single(removed) /\ \A d \in Ceremonies : removed[d] = Absent
  BY <1>1, RemovedFacts
<1>3. Knows(h, file) => Single(removed) /\ \A d \in Ceremonies : removed[d] = Absent
  BY <1>1, <1>2 DEF Knows
<1>4. file' = file \/ file' = removed
  BY DEF QuarantineCorruptJournal
<1> HIDE DEF removed
<1>5. /\ file' \in [Ceremonies -> Journals] /\ \A c \in Ceremonies : Whole(file'[c])
      /\ UNCHANGED lock
  BY <1>2, <1>4 DEF QuarantineCorruptJournal, Types
<1>6. CASE host' = Fails(p) /\ file' = file
  BY <1>5, <1>1, <1>6, FailsKeeps
<1>7. CASE host' = Poisons(Fails(p), p)
  BY <1>5, <1>1, <1>3, <1>4, <1>7, FailsKeeps
<1>8. CASE host' = Reconciled(p) /\ file' = removed
  BY <1>5, <1>1, <1>3, <1>8, ReconciledKeeps
<1> QED BY <1>5, <1>6, <1>7, <1>8 DEF QuarantineCorruptJournal, removed

\* The ceremony of a removed journal is retired.
LEMMA RetireKeeps ==
    ASSUME Types, HostInv, NEW p \in Procs, RetireCeremony(p)
    PROVE  Keeps(p) /\ UNCHANGED <<disk, expired, faults>>
<1>0. host[p] \in Hosts /\ Local(host[p]) /\ host[p].pc = "retire"
  BY DEF Types, HostInv, RetireCeremony
<1> DEFINE h == host[p]
           done == [h EXCEPT !.pc = "open", !.job = NoJob, !.current = Off.current,
                             !.ceremony = NoCeremony]
           lost == [h EXCEPT !.pc = "open", !.job = NoJob, !.ceremony = NoCeremony,
                             !.poison = TRUE]
<1>1. done \in Hosts /\ lost \in Hosts
  BY <1>0, Blanks DEF Hosts, Places, Holding, NoCeremony, Names
<1>2. Local(done) /\ Local(lost)
  BY <1>0 DEF Hosts, NoJob, NoCeremony, Off, Local, PlaceInv, JobInv, CeremonyInv, Holding, Methods
<1>3. /\ done.own = h.own /\ done.seen = h.seen /\ done.pc = "open" /\ done.current.j = Absent
      /\ lost.own = h.own /\ lost.seen = h.seen /\ lost.pc = "open" /\ lost.poison = TRUE
  BY <1>0 DEF Hosts, Off
<1>4. UNCHANGED <<disk, expired, faults>> /\ file' = file
  BY DEF RetireCeremony, disk
<1>5. /\ [Done(p) EXCEPT ![p].current = Off.current, ![p].ceremony = NoCeremony]
            = [host EXCEPT ![p] = done]
      /\ Poisons([Refused(p) EXCEPT ![p].ceremony = NoCeremony], p) = [host EXCEPT ![p] = lost]
  BY DEF Done, Refused, Poisons, Types
<1>6. \/ host' = [host EXCEPT ![p] = done]
      \/ host' = [host EXCEPT ![p] = lost]
      \/ host' = Poisons(Refused(p), p)
  <2> HIDE DEF done, lost
  <2> QED BY <1>5 DEF RetireCeremony
<1> HIDE DEF done, lost
<1>7. Knows(h, file) => Knows(done, file) /\ Knows(lost, file)
  BY <1>0, <1>3 DEF Knows, Agrees, Methods
<1>8. h.pc \in Methods
  BY <1>0 DEF Methods
<1> QED BY <1>1, <1>2, <1>3, <1>4, <1>6, <1>7, <1>8, KeepsBy, FailsKeeps

\* A restart looks at what is on disk.
LEMMA ReconcileKeeps ==
    ASSUME Types, HostInv, NEW p \in Procs, ReconcileRestart(p)
    PROVE  Keeps(p) /\ UNCHANGED <<lock, stale, file, corrupt, expired>>
<1>0. /\ host[p] \in Hosts /\ Local(host[p]) /\ host[p].pc = "open" /\ ~host[p].poison
      /\ host[p].reconciled = "no"
  BY DEF Types, HostInv, ReconcileRestart, Active
<1>1. UNCHANGED <<lock, stale, file, corrupt, expired>> /\ file' = file
  BY DEF ReconcileRestart
<1> DEFINE h == host[p]
           failed(b) == [h EXCEPT !.reconciled = "failed", !.poison = b]
           clean == [h EXCEPT !.reconciled = "yes", !.current = Off.current]
           busy(c, to) == [h EXCEPT !.job = [op |-> "reconcile", c |-> c,
                                             to |-> Journal("SUPERSEDED", file[c].roles)],
                                    !.pc = to]
<1>2. CASE \/ host' = [host EXCEPT ![p].reconciled = "failed"]
           \/ host' = Poisons([host EXCEPT ![p].reconciled = "failed"], p)
  <2>1. PICK b \in {h.poison, TRUE} : host' = [host EXCEPT ![p] = failed(b)]
    <3>1. [h EXCEPT !.reconciled = "failed"] = failed(h.poison)
      BY <1>0 DEF Hosts
    <3> QED BY <1>2, <3>1 DEF Poisons, Types
  <2>2. failed(b) \in Hosts
    BY <1>0 DEF Hosts
  <2>3. Local(failed(b))
    BY <1>0 DEF Hosts, Local, PlaceInv, JobInv, CeremonyInv, Holding, Methods
  <2>4. /\ failed(b).own = h.own /\ failed(b).seen = h.seen /\ failed(b).pc = "open"
        /\ failed(b).reconciled = "failed"
    BY <1>0 DEF Hosts
  <2> HIDE DEF failed
  <2>5. Knows(failed(b), file)
    BY <2>4 DEF Knows, Methods
  <2> QED BY <1>1, <2>1, <2>2, <2>3, <2>4, <2>5, KeepsBy
<1>3. CASE /\ OnDisk = {}
           /\ host' = [host EXCEPT ![p].reconciled = "yes", ![p].current = Off.current]
  <2>1. clean \in Hosts
    BY <1>0, Blanks DEF Hosts
  <2>2. Local(clean)
    BY <1>0 DEF Hosts, Off, Local, PlaceInv, JobInv, CeremonyInv, Holding, Methods
  <2>3. /\ clean.own = h.own /\ clean.seen = h.seen /\ clean.pc = "open"
        /\ clean.current.j = Absent
    BY <1>0 DEF Hosts, Off
  <2>4. host' = [host EXCEPT ![p] = clean]
    BY <1>3
  <2> HIDE DEF clean
  <2>5. Knows(clean, file)
    BY <1>3, <2>3 DEF Knows, Agrees, OnDisk, Methods
  <2> QED BY <1>1, <2>1, <2>2, <2>3, <2>4, <2>5, KeepsBy
<1>4. ASSUME NEW c \in OnDisk, OnDisk = {c}, NEW to \in {"quarantine", "write", "remove"},
             host' = [host EXCEPT ![p] = busy(c, to)]
      PROVE  Keeps(p)
  <2>1. c \in Ceremonies /\ file[c] \in Journals
    BY <1>4 DEF OnDisk, Types
  <2> DEFINE j == Journal("SUPERSEDED", file[c].roles)
  <2>2. j \in Journals /\ j.state = "SUPERSEDED"
    BY <2>1 DEF Journal, Journals, Terminal
  <2>3. busy(c, to) \in Hosts
    <3> HIDE DEF j
    <3>1. [h EXCEPT !.job = [op |-> "reconcile", c |-> c, to |-> j], !.pc = to] \in Hosts
      BY <1>0, <1>4, <2>1, <2>2 DEF Hosts, Places, Holding, Methods, Names
    <3> QED BY <3>1 DEF j
  <2>4. /\ busy(c, to).own = h.own /\ busy(c, to).seen = h.seen /\ busy(c, to).pc = to
        /\ busy(c, to).job = [op |-> "reconcile", c |-> c, to |-> j]
        /\ busy(c, to).reconciled = "no" /\ busy(c, to).poison = h.poison
        /\ busy(c, to).current = h.current /\ busy(c, to).ceremony = h.ceremony
        /\ busy(c, to).slot = h.slot
    BY <1>0 DEF Hosts
  <2> HIDE DEF busy, j
  <2>5. Local(busy(c, to))
    BY <1>0, <1>4, <2>1, <2>2, <2>4
       DEF Local, PlaceInv, JobInv, CeremonyInv, Holding, Methods
  <2>6. Knows(busy(c, to), file)
    BY <1>4, <2>1, <2>4 DEF Knows, OnDisk, Methods
  <2> QED BY <1>1, <1>4, <2>3, <2>4, <2>5, <2>6, KeepsBy
<1>5. ASSUME NEW c \in OnDisk, OnDisk = {c},
             LET job == [op |-> "reconcile", c |-> c,
                         to |-> Journal("SUPERSEDED", file[c].roles)] IN
             host' = [host EXCEPT ![p].job = job,
                       ![p].pc = CASE file[c] = Corrupt -> "quarantine"
                                   [] file[c].state = "STAGING" -> "write"
                                   [] file[c].state \in Terminal -> "remove"]
      PROVE  Keeps(p)
  <2>1. file[c] \in Journals /\ Whole(file[c]) /\ file[c] # Absent
    BY <1>5 DEF OnDisk, Types
  <2>2. PICK to \in {"quarantine", "write", "remove"} :
          to = CASE file[c] = Corrupt -> "quarantine"
                 [] file[c].state = "STAGING" -> "write"
                 [] file[c].state \in Terminal -> "remove"
    BY <2>1 DEF Journals, Whole, Corrupt, Journal, Terminal
  <2>3. host' = [host EXCEPT ![p] = busy(c, to)]
    BY <1>5, <2>2, Zenon
  <2> QED BY <1>4, <1>5, <2>3
<1> QED BY <1>1, <1>2, <1>3, <1>5 DEF ReconcileRestart

(***************************************************************************)
(* The lock and who knows it.                                              *)
(***************************************************************************)

\* A race is never forgotten.
LEMMA RacedStays == ASSUME Types, Watched PROVE raced' \in BOOLEAN /\ (~raced' => ~raced)
BY DEF Types, Watched

\* Without a race one process holds a lock.
LEMMA OneHolder ==
    ASSUME LockInv, PathInv, ~raced, NEW p \in Procs, NEW q \in Procs,
           host[p].own # 0, host[q].own # 0
    PROVE  p = q
BY DEF LockInv, LockKnown, PathInv, Undisturbed

\* A lock that keeps its identity keeps what is known of it.
LEMMA SameLock ==
    ASSUME Types, LockInv, PathInv, Watched, NEW p \in Procs, Moved(p),
           lock'.ino = lock.ino, lock'.ino = 0 => lock' = NoLock,
           IsStale(lock) => IsStale(lock'),
           \A q \in Procs \ {p} : lock.by = q => lock'.by = q,
           LockKnown(lock', host'[p], p), ~raced => Undisturbed(lock', host'[p])
    PROVE  LockInv' /\ PathInv'
<1>1. \A q \in Procs \ {p} : LockKnown(lock', host'[q], q)
  BY DEF LockInv, LockKnown, Moved
<1>2. \A q \in Procs \ {p} : ~raced => Undisturbed(lock', host'[q])
  BY DEF PathInv, Undisturbed, Moved
<1>3. ~raced' => ~raced
  BY RacedStays
<1> QED BY <1>1, <1>2, <1>3 DEF LockInv, PathInv

\* A lock is removed by its holder, or by the one takeover under way.
LEMMA LockRemoved ==
    ASSUME Types, HostInv, LockInv, PathInv, Watched, NEW p \in Procs, Moved(p),
           lock' = NoLock, host'[p].own = 0, host'[p].pc # "rename",
           host[p].own # 0 \/ host[p].pc = "rename"
    PROVE  LockInv' /\ PathInv'
<1>1. lock'.ino = 0
  BY DEF NoLock
<1>2. LockInv'
  BY <1>1 DEF LockInv, LockKnown
<1>3. ASSUME ~raced', NEW q \in Procs PROVE Undisturbed(lock', host'[q])
  <2>1. ~raced
    BY <1>3, RacedStays
  <2>2. CASE q = p
    BY <2>2 DEF Undisturbed
  <2>3. CASE q # p
    <3>1. host'[q] = host[q]
      BY <2>3 DEF Moved
    <3>2. Undisturbed(lock, host[q]) /\ Undisturbed(lock, host[p])
      BY <2>1 DEF PathInv
    <3>3. LockKnown(lock, host[q], q) /\ LockKnown(lock, host[p], p)
      BY DEF LockInv
    <3>4. /\ host[q].pc = "rename" => host[q].seen # 0
          /\ host[p].pc = "rename" => host[p].seen # 0
      BY DEF HostInv, Local, PlaceInv
    <3>5. CASE host[p].own # 0
      BY <2>3, <3>1, <3>2, <3>3, <3>4, <3>5 DEF Undisturbed, LockKnown, IsStale
    <3>6. CASE host[p].pc = "rename"
      <4>1. lock.ino # 0
        BY <3>2, <3>4, <3>6 DEF Undisturbed
      <4>2. host[q].pc # "rename"
        BY <1>1, <1>3, <3>1, <4>1 DEF Watched
      <4>3. host[q].own = 0
        BY <3>2, <3>3, <3>4, <3>6 DEF Undisturbed, LockKnown, IsStale
      <4> QED BY <3>1, <4>2, <4>3 DEF Undisturbed
    <3> QED BY <3>5, <3>6
  <2> QED BY <2>2, <2>3
<1> QED BY <1>2, <1>3 DEF PathInv

\* A lock is created where there is none.
LEMMA LockCreated ==
    ASSUME Types, HostInv, LockInv, PathInv, Watched, NEW p \in Procs, lock = NoLock,
           host[p].pc \in {"idle", "recreate"}, CreateLock(p)
    PROVE  LockInv' /\ PathInv'
<1>1. /\ Moved(p) /\ host'[p].pc = "payload"
      /\ host'[p].own = FreshInode /\ host'[p].seen = 0
  BY CreateMoves
<1>2. /\ FreshInode # 0
      /\ \A q \in Procs : FreshInode # host[q].own /\ FreshInode # host[q].seen
  BY FreshIdentity
<1>3. lock'.ino = FreshInode /\ lock'.by = p
  BY DEF CreateLock
<1>4. LockInv'
  BY <1>1, <1>2, <1>3 DEF LockInv, LockKnown, Moved
<1>5. ASSUME ~raced', NEW q \in Procs PROVE Undisturbed(lock', host'[q])
  <2>1. Undisturbed(lock, host[q]) /\ lock.ino = 0
    BY <1>5, RacedStays DEF PathInv, NoLock
  <2>2. host[q].pc = "rename" => host[q].seen # 0
    BY DEF HostInv, Local, PlaceInv
  <2>3. CASE q # p
    BY <1>1, <2>1, <2>2, <2>3 DEF Undisturbed, Moved
  <2>4. CASE q = p
    BY <1>1, <1>3, <2>4 DEF Undisturbed
  <2> QED BY <2>3, <2>4
<1> QED BY <1>4, <1>5 DEF PathInv

\* A step that leaves the journals alone, of a process that knows of none.
LEMMA SameFile ==
    ASSUME Types, DiskInv, Watched, NEW p \in Procs, Moved(p), file' = file,
           ~raced => Knows(host'[p], file)
    PROVE  DiskInv'
<1>1. ~raced' => ~raced
  BY RacedStays
<1>2. Single(file) => Single(file')
  OBVIOUS
<1>3. ASSUME ~raced, NEW q \in Procs PROVE Knows(host'[q], file')
  <2>1. CASE q = p
    BY <1>3, <2>1
  <2>2. CASE q # p
    BY <1>3, <2>2 DEF DiskInv, Moved
  <2> QED BY <2>1, <2>2
<1> QED BY <1>1, <1>2, <1>3 DEF DiskInv

\* A host that is not reconciled and in no method claims nothing.
LEMMA KnowsNothing ==
    ASSUME NEW h, NEW f, h.pc \notin Methods, h.reconciled = "no"
    PROVE  Knows(h, f)
BY DEF Knows, Methods

\* Starting, ending and the steps around the lock keep what is known of lock
\* and disk.
LEMMA LockSteps ==
    ASSUME Types, HostInv, LockInv, PathInv, DiskInv, Watched, NEW p \in Procs,
           Start(p) \/ Crash(p) \/ Quit(p) \/ Close(p) \/ LockStep(p)
    PROVE  LockInv' /\ PathInv' /\ DiskInv'
<1>0. host[p] \in Hosts /\ Local(host[p]) /\ Moved(p)
  BY LockMoves DEF Types, HostInv
<1> DEFINE h == host[p]
           g == host'[p]
<1>1. file' = file
  BY DEF Start, Crash, Quit, Close, LockStep, Acquire, WritePayload, HandleExistingLock,
         QuarantineProbe, QuarantineRename, Recreate, CreateLock, disk
<1>2. ASSUME g.pc \notin Methods \cup {"open"} PROVE DiskInv'
  <2>1. Local(g)
    BY <1>0 DEF Moved
  <2>2. g.pc \notin Methods /\ g.reconciled = "no"
    BY <1>2, <2>1 DEF Local, PlaceInv
  <2>3. Knows(g, file)
    BY <2>2, KnowsNothing
  <2> QED BY <1>0, <1>1, <2>3, SameFile
<1>3. ASSUME Bare(g) PROVE /\ DiskInv' /\ \A l : LockKnown(l, g, p) /\ Undisturbed(l, g)
                           /\ g.own = 0 /\ g.pc # "rename"
  BY <1>2, <1>3 DEF Bare, Methods, LockKnown, Undisturbed
<1>4. ASSUME Bare(g), lock' = lock PROVE LockInv' /\ PathInv' /\ DiskInv'
  <2>1. lock'.ino = 0 => lock' = NoLock
    BY <1>4 DEF LockInv
  <2> QED BY <1>0, <1>3, <1>4, <2>1, SameLock
<1>5. ASSUME Bare(g), lock' = NoLock, h.own # 0 \/ h.pc = "rename"
      PROVE  LockInv' /\ PathInv' /\ DiskInv'
  BY <1>0, <1>3, <1>5, LockRemoved
<1>6. ASSUME host' = Unmade(p) \/ host' = Poisons(Unmade(p), p) PROVE Bare(g)
  BY <1>6, UnmadeForm
<1>7. h.pc \in {"payload", "open"} => h.own # 0
  BY <1>0 DEF Local, PlaceInv, Holding
<1>8. CASE Start(p)
  <2>1. g = [h EXCEPT !.pc = "idle"] /\ h.pc = "off" /\ lock' = lock
    BY <1>8 DEF Start, Go, Types, disk
  <2>2. Bare(g)
    BY <1>0, <2>1 DEF Bare, Hosts, Local, PlaceInv, Holding, Methods
  <2> QED BY <1>4, <2>1, <2>2
<1>9. CASE Crash(p) \/ Quit(p)
  <2>1. /\ g = Off
        /\ lock' = IF lock.by = p THEN [lock EXCEPT !.by = None] ELSE lock
    BY <1>9 DEF Crash, Quit, Types
  <2>2. Bare(g)
    BY <2>1 DEF Bare, Off, NoJob
  <2>3. lock'.ino = lock.ino /\ (IsStale(lock) => IsStale(lock'))
    BY <2>1 DEF Types, Locks, IsStale
  <2>4. lock'.ino = 0 => lock' = NoLock
    <3>1. NoLock.by # p
      BY DEF NoLock
    <3> QED BY <2>1, <2>3, <3>1 DEF LockInv
  <2>5. \A q \in Procs \ {p} : lock.by = q => lock'.by = q
    BY <2>1
  <2> QED BY <1>0, <1>3, <2>2, <2>3, <2>4, <2>5, SameLock
<1>10. CASE Close(p)
  BY <1>4, <1>5, <1>6, <1>7, <1>10 DEF Close
<1>11. ASSUME lock = NoLock, h.pc \in {"idle", "recreate"}, CreateLock(p)
       PROVE  LockInv' /\ PathInv' /\ DiskInv'
  <2>1. g.pc = "payload"
    BY <1>11, CreateMoves
  <2> QED BY <1>2, <1>11, <2>1, LockCreated DEF Methods
<1>12. CASE Acquire(p)
  <2>1. CASE host' = Go(p, "inspect") /\ lock' = lock
    <3>1. g = [h EXCEPT !.pc = "inspect"] /\ h.pc = "idle"
      BY <1>12, <2>1 DEF Acquire, Go, Types
    <3>2. Bare(g)
      BY <1>0, <3>1 DEF Bare, Hosts, Local, PlaceInv, Holding, Methods
    <3> QED BY <1>4, <2>1, <3>2
  <2> QED BY <1>11, <1>12, <2>1 DEF Acquire, disk
<1>13. CASE WritePayload(p)
  <2>1. h.pc = "payload" /\ h.own # 0
    BY <1>7, <1>13 DEF WritePayload
  <2>2. CASE /\ lock' = IF Mine(p) THEN [lock EXCEPT !.ready = TRUE] ELSE lock
             /\ host' = Go(p, "open")
    <3>1. g = [h EXCEPT !.pc = "open"]
      BY <2>2 DEF Go, Types
    <3>2. /\ g.own = h.own /\ g.seen = h.seen /\ g.pc = "open" /\ g.reconciled = h.reconciled
          /\ h.seen = 0 /\ h.reconciled = "no"
      BY <1>0, <2>1, <3>1 DEF Hosts, Local, PlaceInv, Methods
    <3>3. /\ lock'.ino = lock.ino /\ lock'.by = lock.by
          /\ IsStale(lock) => IsStale(lock')
      BY <2>2 DEF Types, Locks, IsStale
    <3>4. lock'.ino = 0 => lock' = NoLock
      BY <2>1, <2>2, <3>3 DEF LockInv, Mine
    <3>5. LockKnown(lock', g, p) /\ (~raced => Undisturbed(lock', g))
      BY <3>2, <3>3 DEF LockInv, LockKnown, PathInv, Undisturbed
    <3>6. Knows(g, file)
      BY <3>2, KnowsNothing DEF Methods
    <3> HIDE DEF g, h
    <3> QED BY <1>0, <1>1, <3>3, <3>4, <3>5, <3>6, SameLock, SameFile DEF g
  <2> QED BY <1>4, <1>5, <1>6, <1>13, <2>1, <2>2 DEF WritePayload
<1>14. CASE HandleExistingLock(p)
  <2>1. CASE /\ IsStale(lock) /\ lock' = lock
             /\ host' = [host EXCEPT ![p].pc = "probe", ![p].seen = lock.ino]
    <3>1. g = [h EXCEPT !.pc = "probe", !.seen = lock.ino] /\ h.pc = "inspect"
      BY <1>14, <2>1 DEF HandleExistingLock, Types
    <3>2. g.own = 0 /\ g.pc = "probe"
      BY <1>0, <3>1 DEF Hosts, Local, PlaceInv, Holding, Methods
    <3>3. LockKnown(lock', g, p) /\ Undisturbed(lock', g)
      BY <2>1, <3>2 DEF LockKnown, Undisturbed
    <3>4. lock'.ino = 0 => lock' = NoLock
      BY <2>1 DEF LockInv
    <3>5. DiskInv'
      BY <1>2, <3>2 DEF Methods
    <3> QED BY <1>0, <2>1, <3>3, <3>4, <3>5, SameLock
  <2> QED BY <1>4, <1>6, <1>14, <2>1 DEF HandleExistingLock, disk
<1>15. CASE QuarantineProbe(p)
  <2>1. CASE /\ lock.ino = h.seen /\ lock' = lock
             /\ host' = [Go(p, "rename") EXCEPT ![p].slot = stale]
    <3>1. g = [h EXCEPT !.pc = "rename", !.slot = stale] /\ h.pc = "probe"
      BY <1>15, <2>1 DEF QuarantineProbe, Go, Types
    <3>2. g.own = 0 /\ g.pc = "rename" /\ g.seen = h.seen
      BY <1>0, <3>1 DEF Hosts, Local, PlaceInv, Holding, Methods
    <3>3. LockKnown(lock', g, p) /\ Undisturbed(lock', g)
      BY <2>1, <3>2 DEF LockKnown, Undisturbed, LockInv
    <3>4. lock'.ino = 0 => lock' = NoLock
      BY <2>1 DEF LockInv
    <3>5. DiskInv'
      BY <1>2, <3>2 DEF Methods
    <3> QED BY <1>0, <2>1, <3>3, <3>4, <3>5, SameLock
  <2>2. stale \in Nat
    BY DEF Types
  <2> QED BY <1>4, <1>6, <1>15, <2>1, <2>2 DEF QuarantineProbe, disk
<1>16. CASE QuarantineRename(p)
  <2>1. h.pc = "rename"
    BY <1>16 DEF QuarantineRename
  <2>2. CASE /\ lock' = NoLock
             /\ host' = [host EXCEPT ![p].pc = "recreate", ![p].seen = 0, ![p].slot = 0]
    <3>1. g = [h EXCEPT !.pc = "recreate", !.seen = 0, !.slot = 0]
      BY <2>2 DEF Types
    <3>2. Bare(g)
      BY <1>0, <2>1, <3>1 DEF Bare, Hosts, Local, PlaceInv, Holding, Methods
    <3> QED BY <1>5, <2>1, <2>2, <3>2
  <2> QED BY <1>4, <1>5, <1>6, <1>16, <2>1, <2>2 DEF QuarantineRename
<1>17. CASE Recreate(p)
  BY <1>4, <1>6, <1>11, <1>17 DEF Recreate, disk
<1> QED BY <1>8, <1>9, <1>10, <1>12, <1>13, <1>14, <1>15, <1>16, <1>17 DEF LockStep

(***************************************************************************)
(* The inductive invariant.                                                *)
(***************************************************************************)

\* A step of a process that keeps its lock.
LEMMA KeepsInv ==
    ASSUME Types, HostInv, LockInv, PathInv, DiskInv, Watched, NEW p \in Procs, Keeps(p),
           lock' = lock, file' = file \/ host[p].pc \in Methods
    PROVE  LockInv' /\ PathInv' /\ DiskInv'
<1>1. Moved(p) /\ (~raced' => ~raced)
  BY RacedStays DEF Keeps
<1>2. LockInv' /\ PathInv'
  <2>1. LockKnown(lock', host'[p], p) /\ (~raced => Undisturbed(lock', host'[p]))
    BY DEF Keeps, LockInv, LockKnown, PathInv, Undisturbed
  <2>2. lock'.ino = 0 => lock' = NoLock
    BY DEF LockInv
  <2> QED BY <1>1, <2>1, <2>2, SameLock
<1>3. ASSUME ~raced PROVE Single(file') /\ Knows(host'[p], file')
  BY <1>3 DEF DiskInv, Keeps
<1>4. ASSUME ~raced, NEW q \in Procs, q # p PROVE Knows(host'[q], file')
  <2>1. host'[q] = host[q]
    BY <1>1, <1>4 DEF Moved
  <2>2. CASE file' = file
    BY <1>4, <2>1, <2>2 DEF DiskInv
  <2>3. CASE host[p].pc \in Methods
    <3>1. host[p].own # 0
      BY <2>3 DEF HostInv, Local, PlaceInv, Holding
    <3>2. host[q].own = 0
      BY <1>4, <3>1, OneHolder
    <3>3. host[q].pc \notin Methods /\ host[q].reconciled = "no"
      BY <3>2 DEF HostInv, Local, PlaceInv, Holding
    <3> QED BY <2>1, <3>3, KnowsNothing
  <2> QED BY <2>2, <2>3
<1> QED BY <1>1, <1>2, <1>3, <1>4 DEF DiskInv

\* The invariant holds at first.
LEMMA InitInv == Init => IInv
<1> SUFFICES ASSUME Init PROVE IInv
  OBVIOUS
<1>1. 0 \in 0..MaxStaleLocks /\ 0 \in 0..MaxCorrupt /\ 0 \in 0..MaxFaults
  OBVIOUS
<1>2. Whole(Absent)
  BY DEF Whole, Absent, Journal
<1>3. Types
  BY <1>1, <1>2, Blanks DEF Init, Types
<1>4. Local(Off)
  BY DEF Off, NoJob, NoCeremony, Local, PlaceInv, JobInv, CeremonyInv, Holding, Methods
<1>5. HostInv /\ \A p \in Procs : host[p] = Off
  BY <1>4 DEF Init, HostInv
<1>6. LockInv /\ PathInv
  BY <1>5 DEF Init, LockInv, PathInv, LockKnown, Undisturbed, Off
<1>7. DiskInv
  <2>1. Single(file)
    BY DEF Init, Single
  <2>2. Knows(Off, file)
    BY KnowsNothing DEF Off, Methods
  <2> QED BY <1>5, <2>1, <2>2 DEF DiskInv
<1> QED BY <1>3, <1>5, <1>6, <1>7 DEF IInv

\* What a step of a process does to lock, disk and memory.
LEMMA StepInv ==
    ASSUME Types, HostInv, LockInv, PathInv, DiskInv, Watched, NEW p \in Procs, Step(p)
    PROVE  Moved(p) /\ LockInv' /\ PathInv' /\ DiskInv'
<1>1. CASE Start(p) \/ Crash(p) \/ Quit(p) \/ Close(p) \/ LockStep(p)
  BY <1>1, LockMoves, LockSteps
<1>2. CASE \/ Mint(p) \/ CancelCeremony(p) \/ CheckExpiry(p) \/ RetireUnstaged(p)
           \/ LockLost(p) \/ CreateJournal(p) \/ Cancel(p) \/ Status(p)
           \/ \E r \in Roles : StageRole(p, r)
  <2>1. Keeps(p) /\ lock' = lock /\ file' = file
    BY <1>2, MemoryMoves DEF disk
  <2> QED BY <2>1, KeepsInv DEF Keeps
<1>3. CASE ReconcileRestart(p)
  BY <1>3, ReconcileKeeps, KeepsInv DEF Keeps
<1>4. CASE MethodStep(p)
  <2>1. host[p].pc \in Methods
    BY <1>4 DEF MethodStep, WriteJournalAtomic, RemoveJournalAtomic, QuarantineCorruptJournal,
                RetireCeremony, Methods
  <2>2. Keeps(p) /\ lock' = lock
    BY <1>4, WriteKeeps, RemoveKeeps, QuarantineKeeps, RetireKeeps DEF MethodStep, disk
  <2> QED BY <2>1, <2>2, KeepsInv DEF Keeps
<1> QED BY <1>1, <1>2, <1>3, <1>4 DEF Step

\* The bounded counters of the disk, and the faults.
LEMMA CountersStep ==
    ASSUME Types, HostInv, NEW p \in Procs, Step(p)
    PROVE  /\ stale' \in 0..MaxStaleLocks /\ corrupt' \in 0..MaxCorrupt
           /\ faults' \in 0..MaxFaults
<1>1. /\ stale' = stale \/ (host[p].pc = "rename" /\ host[p].slot = stale /\ stale' = stale + 1)
      /\ corrupt' = corrupt \/ (corrupt < MaxCorrupt /\ corrupt' = corrupt + 1)
      /\ faults' = faults \/ (faults < MaxFaults /\ faults' = faults + 1)
  <2> USE DEF disk, Fault, NoFault
  <2>1. CASE LockStep(p)
    BY <2>1 DEF LockStep, Acquire, WritePayload, HandleExistingLock, QuarantineProbe,
                QuarantineRename, Recreate, CreateLock
  <2>2. CASE MethodStep(p)
    <3>1. CASE WriteJournalAtomic(p)
      BY <3>1 DEF WriteJournalAtomic
    <3>2. CASE RemoveJournalAtomic(p)
      BY <3>2 DEF RemoveJournalAtomic
    <3>3. CASE QuarantineCorruptJournal(p)
      BY <3>3 DEF QuarantineCorruptJournal
    <3>4. CASE RetireCeremony(p)
      BY <3>4 DEF RetireCeremony
    <3> QED BY <2>2, <3>1, <3>2, <3>3, <3>4 DEF MethodStep
  <2>3. CASE Start(p) \/ Crash(p) \/ Quit(p) \/ Close(p)
    BY <2>3 DEF Start, Crash, Quit, Close
  <2>4. CASE ReconcileRestart(p)
    BY <2>4 DEF ReconcileRestart
  <2>5. CASE \/ Mint(p) \/ CancelCeremony(p) \/ CheckExpiry(p) \/ RetireUnstaged(p)
             \/ LockLost(p) \/ CreateJournal(p) \/ Cancel(p) \/ Status(p)
             \/ \E r \in Roles : StageRole(p, r)
    BY <2>5, MemoryMoves
  <2> QED BY <2>1, <2>2, <2>3, <2>4, <2>5 DEF Step
<1>2. host[p].pc = "rename" => host[p].slot < MaxStaleLocks
  BY DEF HostInv, Local, PlaceInv
<1> QED BY <1>1, <1>2 DEF Types

\* The files a process leaves are of their types.
LEMMA FilesStep ==
    ASSUME Types, HostInv, NEW p \in Procs, Step(p)
    PROVE  /\ file' \in [Ceremonies -> Journals] /\ \A c \in Ceremonies : Whole(file'[c])
           /\ temps' \subseteq Ceremonies /\ expired' \subseteq Ceremonies
<1>0. host[p].pc = "write" => host[p].job.c \in Ceremonies
  BY DEF HostInv, Local, PlaceInv, Methods
<1> USE DEF disk
<1>1. CASE WriteJournalAtomic(p)
  <2>1. file' \in [Ceremonies -> Journals] /\ \A c \in Ceremonies : Whole(file'[c])
    BY <1>1, WriteKeeps
  <2>2. expired' = expired /\ temps' \in {temps, temps \cup {host[p].job.c}}
    BY <1>1 DEF WriteJournalAtomic
  <2> QED BY <1>0, <1>1, <2>1, <2>2 DEF WriteJournalAtomic, Types
<1>2. CASE RemoveJournalAtomic(p)
  BY <1>2, RemoveKeeps DEF RemoveJournalAtomic, Types
<1>3. CASE QuarantineCorruptJournal(p)
  BY <1>3, QuarantineKeeps DEF QuarantineCorruptJournal, Types
<1>4. CASE RetireCeremony(p)
  BY <1>4, RetireKeeps DEF Types
<1>5. CASE Crash(p)
  <2>1. /\ file' = file /\ expired' = expired
        /\ temps' = temps \/ (host[p].pc = "write" /\ temps' = temps \cup {host[p].job.c})
    BY <1>5 DEF Crash
  <2> QED BY <1>0, <2>1 DEF Types
<1>6. CASE Start(p) \/ Quit(p) \/ Close(p) \/ LockStep(p)
  <2>1. UNCHANGED <<file, temps, expired>>
    BY <1>6 DEF Start, Quit, Close, LockStep, Acquire, WritePayload, HandleExistingLock,
                QuarantineProbe, QuarantineRename, Recreate, CreateLock
  <2> QED BY <2>1 DEF Types
<1>7. CASE ReconcileRestart(p)
  <2>1. file' = file /\ expired' = expired /\ temps' \subseteq temps
    BY <1>7 DEF ReconcileRestart
  <2> QED BY <2>1 DEF Types
<1>8. CASE \/ Mint(p) \/ CancelCeremony(p) \/ CheckExpiry(p) \/ RetireUnstaged(p)
           \/ LockLost(p) \/ CreateJournal(p) \/ Cancel(p) \/ Status(p)
           \/ \E r \in Roles : StageRole(p, r)
  <2>1. file' = file /\ temps' = temps
    BY <1>8, MemoryMoves
  <2>2. expired' \subseteq expired
    BY <1>8 DEF Mint, CancelCeremony, CheckExpiry, RetireUnstaged, LockLost, CreateJournal,
                Cancel, Status, StageRole, End, Begins
  <2> QED BY <2>1, <2>2 DEF Types
<1> QED BY <1>1, <1>2, <1>3, <1>4, <1>5, <1>6, <1>7, <1>8 DEF Step, MethodStep

\* So is the lock.
LEMMA LockTyped ==
    ASSUME Types, HostInv, NEW p \in Procs, Step(p)
    PROVE  lock' \in Locks
<1> USE DEF disk
<1>1. CASE lock' = lock
  BY <1>1 DEF Types
<1>2. CASE lock' = NoLock
  BY <1>2, Blanks
<1>3. ASSUME lock = NoLock, CreateLock(p) PROVE lock' \in Locks
  BY <1>3, FreshIdentity DEF CreateLock, Locks, Idents
<1>4. CASE Start(p) \/ Close(p) \/ LockStep(p)
  <2>1. CASE WritePayload(p)
    BY <1>1, <1>2, <2>1 DEF WritePayload, Types, Locks
  <2> QED BY <1>1, <1>2, <1>3, <1>4, <2>1
          DEF Start, Close, LockStep, Acquire, HandleExistingLock, QuarantineProbe,
              QuarantineRename, Recreate
<1>5. CASE Crash(p) \/ Quit(p)
  BY <1>5 DEF Crash, Quit, Types, Locks
<1>6. CASE MethodStep(p)
  BY <1>1, <1>6, WriteKeeps, RemoveKeeps, QuarantineKeeps, RetireKeeps DEF MethodStep
<1>7. CASE \/ Mint(p) \/ CancelCeremony(p) \/ CheckExpiry(p) \/ RetireUnstaged(p)
           \/ LockLost(p) \/ CreateJournal(p) \/ Cancel(p) \/ Status(p)
           \/ \E r \in Roles : StageRole(p, r)
  BY <1>1, <1>7, MemoryMoves
<1>8. CASE ReconcileRestart(p)
  BY <1>1, <1>8, ReconcileKeeps
<1> QED BY <1>4, <1>5, <1>6, <1>7, <1>8 DEF Step

\* Time, damage and steps that change nothing.
LEMMA OutsideInv ==
    ASSUME IInv, Watched,
           LockAges \/ \E c \in Ceremonies : Expire(c) \/ Damage(c)
    PROVE  IInv'
<1>0. Types /\ HostInv /\ LockInv /\ PathInv /\ DiskInv
  BY DEF IInv
<1>1. raced' \in BOOLEAN /\ (~raced' => ~raced) /\ host' = host
  BY <1>0, RacedStays DEF LockAges, Expire, Damage
<1>2. HostInv'
  BY <1>0, <1>1 DEF HostInv
<1>3. LockInv' /\ PathInv'
  <2>1. /\ lock' \in Locks /\ lock'.ino = lock.ino /\ lock'.by = lock.by
        /\ IsStale(lock) => IsStale(lock')
    BY <1>0 DEF LockAges, Expire, Damage, disk, Types, Locks, IsStale
  <2>2. lock'.ino = 0 => lock' = NoLock
    BY <1>0, <2>1 DEF LockAges, Expire, Damage, disk, LockInv
  <2> QED BY <1>0, <1>1, <2>1, <2>2 DEF LockInv, LockKnown, PathInv, Undisturbed
<1>4. CASE LockAges \/ \E c \in Ceremonies : Expire(c)
  <2>1. file' = file /\ expired' \subseteq expired \cup Ceremonies
    BY <1>4 DEF LockAges, Expire, disk
  <2>2. UNCHANGED <<stale, corrupt, faults, temps>>
    BY <1>4 DEF LockAges, Expire, disk
  <2>3. lock' \in Locks
    BY <1>0, <1>4 DEF LockAges, Expire, disk, Types, Locks
  <2>4. Types'
    BY <1>0, <1>1, <2>1, <2>2, <2>3 DEF Types
  <2>5. DiskInv'
    BY <1>0, <1>1, <2>1 DEF DiskInv
  <2> QED BY <1>2, <1>3, <2>4, <2>5 DEF IInv
<1>5. CASE \E c \in Ceremonies : Damage(c)
  <2>1. PICK c \in Ceremonies : Damage(c)
    BY <1>5
  <2>2. /\ file' = [file EXCEPT ![c] = Corrupt] /\ file[c] # Absent
        /\ file'[c] = Corrupt /\ \A d \in Ceremonies \ {c} : file'[d] = file[d]
        /\ Corrupt # Absent /\ Corrupt.state = "CORRUPT" /\ Whole(Corrupt)
    BY <1>0, <2>1 DEF Damage, Types, Corrupt, Absent, Journal, Whole
  <2>3. faults' \in 0..MaxFaults
    BY <1>0, <2>1 DEF Damage, Fault, Types
  <2>4. Types'
    <3>1. file' \in [Ceremonies -> Journals] /\ \A d \in Ceremonies : Whole(file'[d])
      BY <1>0, <2>2, Blanks DEF Types
    <3> QED BY <1>0, <1>1, <2>1, <2>3, <3>1 DEF Damage, Types
  <2>5. \A d \in Ceremonies : file'[d] = Absent <=> file[d] = Absent
    BY <2>2
  <2>6. Single(file) => Single(file')
    BY <2>5 DEF Single
  <2>7. ASSUME NEW p \in Procs, Knows(host[p], file) PROVE Knows(host'[p], file')
    <3>1. /\ \A d \in Ceremonies : file'[d] = file[d] \/ file'[d].state = "CORRUPT"
          /\ host[p].pc \in Methods => host[p].job.c \in Ceremonies
          /\ host[p].current.j # Absent => host[p].current.c \in Ceremonies
      BY <1>0, <2>2 DEF HostInv, Local, PlaceInv, CeremonyInv
    <3>2. Agrees(host[p].current, file) => Agrees(host[p].current, file')
      BY <2>5, <3>1 DEF Agrees
    <3> QED BY <1>1, <2>5, <2>7, <3>1, <3>2 DEF Knows, Methods
  <2>8. DiskInv'
    BY <1>0, <1>1, <2>6, <2>7 DEF DiskInv
  <2> QED BY <1>2, <1>3, <2>4, <2>8 DEF IInv
<1> QED BY <1>4, <1>5

\* Every step keeps the invariant.
LEMMA NextInv == IInv /\ [Next]_vars => IInv'
<1> SUFFICES ASSUME IInv, [Next]_vars PROVE IInv'
  OBVIOUS
<1>1. CASE UNCHANGED vars
  BY <1>1 DEF IInv, vars, Types, HostInv, LockInv, PathInv, DiskInv
<1>2. ASSUME NEW p \in Procs, Step(p), Watched PROVE IInv'
  <2>0. Types /\ HostInv /\ LockInv /\ PathInv /\ DiskInv
    BY DEF IInv
  <2>1. Moved(p) /\ LockInv' /\ PathInv' /\ DiskInv'
    BY <1>2, <2>0, StepInv
  <2>2. HostInv' /\ host' \in [Procs -> Hosts]
    BY <2>0, <2>1 DEF Moved, HostInv
  <2>3. Types'
    BY <1>2, <2>0, <2>2, CountersStep, FilesStep, LockTyped, RacedStays DEF Types
  <2> QED BY <2>1, <2>2, <2>3 DEF IInv
<1> QED BY <1>1, <1>2, OutsideInv DEF Next

\* The invariant holds throughout.
THEOREM Invariant == Spec => []IInv
<1> QED BY InitInv, NextInv, PTL DEF Spec

(***************************************************************************)
(* The properties.                                                         *)
(***************************************************************************)

\* The type invariant is part of the invariant.
LEMMA TypesImply == IInv => TypeOK
<1> SUFFICES ASSUME IInv PROVE TypeOK
  OBVIOUS
<1>0. Types /\ HostInv
  BY DEF IInv
<1>1. lock \in [ino : Inodes \cup {0}, by : Procs \cup {None}, ready : BOOLEAN, old : BOOLEAN]
  BY <1>0 DEF Types, Locks, Idents
<1>2. \A c \in Ceremonies : /\ file[c].roles \subseteq Roles
                            /\ file[c].state \in Terminal \cup {"ABSENT", "CORRUPT", "STAGING"}
  BY <1>0 DEF Types, Journals
<1>3. ASSUME NEW p \in Procs
      PROVE  /\ host[p].own \in Inodes \cup {0} /\ host[p].seen \in Inodes \cup {0}
             /\ host[p].current.j.state \in {"ABSENT", "STAGING"}
             /\ (host[p].job.op = "none")
                  = (host[p].pc \notin {"write", "remove", "quarantine", "retire"})
  <2>1. host[p] \in Hosts /\ Local(host[p])
    BY <1>0 DEF Types, HostInv
  <2>2. host[p].own \in Inodes \cup {0} /\ host[p].seen \in Inodes \cup {0}
    BY <2>1 DEF Hosts, Idents
  <2>3. host[p].current.j.state \in {"ABSENT", "STAGING"}
    BY <2>1 DEF Local, CeremonyInv, Absent, Journal
  <2>4. host[p].job.op = "none" <=> host[p].pc \notin {"write", "remove", "quarantine", "retire"}
    BY <2>1 DEF Local, PlaceInv, Methods
  <2> QED BY <2>2, <2>3, <2>4
<1> QED BY <1>0, <1>1, <1>2, <1>3 DEF Types, TypeOK

\* The lock excludes: however many processes take over stale locks, end or
\* fail, no two are inside a method that changes journals at once, unless the
\* lock changed between the last probe of a takeover and its rename.
THEOREM LockExcludes == Spec => []OneWriter
<1>1. IInv => OneWriter
  <2> SUFFICES ASSUME IInv, ~raced, NEW p \in Procs, NEW q \in Procs, Writing(p), Writing(q)
               PROVE  p = q
    BY DEF OneWriter
  <2>1. HostInv /\ LockInv /\ PathInv
    BY DEF IInv
  <2>2. host[p].own # 0 /\ host[q].own # 0
    BY <2>1 DEF HostInv, Local, PlaceInv, Writing, Holding, Methods
  <2> QED BY <2>1, <2>2, OneHolder
<1> QED BY <1>1, Invariant, PTL

\* What a host remembers between two methods is on disk, and there is never a
\* second journal, through every failed write, failed removal, damage and
\* restart, for any number of processes.
THEOREM MemoryFollowsDisk == Spec => []MemoryIsDurable
<1>1. IInv => MemoryIsDurable
  <2> SUFFICES ASSUME IInv PROVE MemoryIsDurable
    OBVIOUS
  <2>0. Types /\ HostInv /\ DiskInv /\ TypeOK
    BY TypesImply DEF IInv
  <2>1. ASSUME ~raced PROVE Cardinality(OnDisk) <= 1
    <3>1. Single(file)
      BY <2>0, <2>1 DEF DiskInv
    <3>2. CASE OnDisk = {}
      BY <3>2, FS_EmptySet
    <3>3. CASE OnDisk # {}
      <4>1. PICK c \in OnDisk : TRUE
        BY <3>3
      <4>2. OnDisk = {c}
        BY <3>1, <4>1 DEF Single, OnDisk
      <4> QED BY <4>2, FS_Singleton
    <3> QED BY <3>2, <3>3
  <2>2. ASSUME ~raced, NEW p \in Procs, Ready(p)
        PROVE  LET cur == host[p].current IN
               IF cur.j = Absent
               THEN OnDisk = {}
               ELSE /\ OnDisk = {cur.c}
                    /\ \/ file[cur.c] = cur.j
                       \/ file[cur.c].state \in {"CANCELLED", "EXPIRED", "CORRUPT"}
    <3>1. Agrees(host[p].current, file)
      BY <2>0, <2>2 DEF DiskInv, Knows, Ready, Active
    <3>2. host[p].current.j # Absent => host[p].current.c \in Ceremonies
      BY <2>0 DEF HostInv, Local, CeremonyInv
    <3> QED BY <3>1, <3>2 DEF Agrees, OnDisk
  <2> QED BY <2>0, <2>1, <2>2 DEF MemoryIsDurable
<1> QED BY <1>1, Invariant, PTL

\* A journal is staged, or given another role, only by a process inside a method
\* that holds its ceremony, also after a race: a restart never resumes one.
THEOREM RestartNeverResumes == Spec => NothingResumes
<1> DEFINE Resumes(c) ==
        file'[c].state = "STAGING" /\ file'[c] # file[c]
            => \E p \in Procs : Writing(p) /\ host[p].ceremony.state # "NONE" /\ host[p].ceremony.c = c
<1>1. ASSUME IInv, [Next]_vars, NEW c \in Ceremonies PROVE Resumes(c)
  <2>0. Types /\ HostInv
    BY <1>1 DEF IInv
  <2>1. CASE file' = file
    BY <2>1
  <2>2. ASSUME NEW p \in Procs, host[p].pc \in Methods,
               file' = [file EXCEPT ![host[p].job.c] = host[p].job.to], host[p].pc = "write"
        PROVE  Resumes(c)
    <3>1. Local(host[p])
      BY <2>0 DEF HostInv
    <3>2. CASE host[p].job.op = "stage"
      <4>1. Writing(p) /\ host[p].ceremony.state # "NONE" /\ host[p].ceremony.c = host[p].job.c
        BY <2>2, <3>1, <3>2 DEF Writing, Local, JobInv
      <4>2. c # host[p].job.c => file'[c] = file[c]
        BY <2>0, <2>2 DEF Types
      <4> QED BY <4>1, <4>2
    <3>3. CASE host[p].job.op # "stage"
      <4>1. host[p] \in Hosts /\ host[p].job.op # "none"
        BY <2>0, <2>2, <3>1 DEF Types, Local, PlaceInv
      <4>2. host[p].job.to.state # "STAGING"
        BY <3>1, <3>3, <4>1 DEF Hosts, Local, JobInv
      <4> QED BY <2>0, <2>2, <4>2 DEF Types
    <3> QED BY <3>2, <3>3
  <2>3. ASSUME NEW d, NEW j \in {Absent, Corrupt}, file' = [file EXCEPT ![d] = j]
        PROVE  Resumes(c)
    <3>1. j.state # "STAGING"
      BY <2>3 DEF Absent, Corrupt, Journal
    <3> QED BY <2>0, <2>3, <3>1 DEF Types
  <2> HIDE DEF Resumes
  <2>4. ASSUME NEW p \in Procs, Step(p) PROVE Resumes(c)
    <3>1. CASE WriteJournalAtomic(p)
      <4>1. \/ file' = file
            \/ file' = [file EXCEPT ![host[p].job.c] = host[p].job.to]
        BY <3>1 DEF WriteJournalAtomic
      <4>2. host[p].pc = "write" /\ host[p].pc \in Methods
        BY <3>1 DEF WriteJournalAtomic, Methods
      <4> QED BY <2>1, <2>2, <4>1, <4>2
    <3>2. CASE RemoveJournalAtomic(p) \/ QuarantineCorruptJournal(p)
      <4>1. file' = file \/ file' = [file EXCEPT ![host[p].job.c] = Absent]
        BY <3>2 DEF RemoveJournalAtomic, QuarantineCorruptJournal
      <4> QED BY <2>1, <2>3, <4>1
    <3>3. CASE RetireCeremony(p)
      BY <2>1, <3>3 DEF RetireCeremony, disk
    <3>4. CASE Start(p) \/ Crash(p) \/ Quit(p) \/ Close(p) \/ LockStep(p)
      BY <2>1, <3>4 DEF Start, Crash, Quit, Close, LockStep, Acquire, WritePayload,
           HandleExistingLock, QuarantineProbe, QuarantineRename, Recreate, CreateLock, disk
    <3>5. CASE ReconcileRestart(p)
      BY <2>1, <3>5 DEF ReconcileRestart
    <3>6. CASE \/ Mint(p) \/ CancelCeremony(p) \/ CheckExpiry(p) \/ RetireUnstaged(p)
               \/ LockLost(p) \/ CreateJournal(p) \/ Cancel(p) \/ Status(p)
               \/ \E r \in Roles : StageRole(p, r)
      BY <2>0, <2>1, <3>6, MemoryMoves DEF disk
    <3> QED BY <2>4, <3>1, <3>2, <3>3, <3>4, <3>5, <3>6 DEF Step, MethodStep
  <2>5. CASE LockAges \/ \E d \in Ceremonies : Expire(d)
    BY <2>1, <2>5 DEF LockAges, Expire, disk
  <2>6. CASE \E d \in Ceremonies : Damage(d)
    BY <2>3, <2>6 DEF Damage
  <2>7. CASE UNCHANGED vars
    BY <2>1, <2>7 DEF vars
  <2> QED BY <1>1, <2>4, <2>5, <2>6, <2>7 DEF Next
<1>2. IInv /\ [Next]_vars => [\A c \in Ceremonies : Resumes(c)]_vars
  BY <1>1
<1> QED BY <1>2, Invariant, PTL DEF Spec, NothingResumes

=============================================================================
