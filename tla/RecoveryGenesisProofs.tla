------------------------ MODULE RecoveryGenesisProofs ------------------------
(***************************************************************************)
(* Proofs about the enrollment at genesis, for any number of intents,      *)
(* credentials, roles, ceremonies and faults.                              *)
(*                                                                         *)
(* A method is a list of writes, and a process may end between any two:    *)
(* so each write on its own must keep what holds of the three files.       *)
(* Legal lists the writes there are, with what each relies on, FilesInv is *)
(* what holds of the files after every one of them, and Planned says that  *)
(* the writes a method has left are legal in the order they are made in.   *)
(* Around that: the host's memory is the disk, and what the coordinator's  *)
(* memory may miss of it.                                                  *)
(***************************************************************************)
EXTENDS RecoveryGenesis, SequenceTheorems, TLAPS

USE ConstantsAreValid

Entries == [ceremony : 1..MaxCeremonies, credential : Credentials]
Journals == [state : {"ABSENT", "CORRUPT", "STAGING", "CANCELLED", "EXPIRED", "SUPERSEDED"},
             intent : Intents \cup {None}, entries : Seq(Entries)]
Sidecars == [state : {"ABSENT", "CORRUPT", "ORPHANED"} \cup CeremonyStates,
             intent : Intents \cup {None}, role : 0..Slots, ceremony : 0..MaxCeremonies,
             credential : Credentials \cup {None}, mismatch : BOOLEAN]
FileSets == [journal : Journals, sidecar : Sidecars, profile : Journals]
Histories == [authorized : SUBSET Nat, recorded : SUBSET (Nat \X (Credentials \cup {None})),
              staged : SUBSET Nat, cancelled : SUBSET Nat]

\* Files of any state, as a method or an accident can leave them.
Formed(d) ==
    /\ d \in FileSets
    /\ Len(d.journal.entries) <= Slots /\ Len(d.profile.entries) <= Slots

\* The entries of a journal were recorded, under ceremonies and with
\* credentials of their own.
Sound(f, h) ==
    \A k \in 1..Len(f.entries) :
        /\ <<f.entries[k].ceremony, f.entries[k].credential>> \in h.recorded
        /\ \A l \in 1..Len(f.entries) \ {k} :
              /\ f.entries[k].ceremony # f.entries[l].ceremony
              /\ f.entries[k].credential # f.entries[l].credential

\* What is absent tells nothing else, and a profile is published from a staging
\* journal.
Plain(d) ==
    /\ d.journal.state = "ABSENT" => d.journal = NoJournal
    /\ d.sidecar.state = "ABSENT" => d.sidecar = NoSidecar
    /\ d.profile.state = "ABSENT" => d.profile = NoJournal
    /\ d.profile.state \in {"ABSENT", "STAGING", "CORRUPT"}

Final(d) ==
    /\ d.profile.state = "STAGING" =>
         /\ Len(d.profile.entries) = Slots
         /\ d.journal \in {d.profile, Ended(d.profile, "SUPERSEDED"), NoJournal,
                           Damaged("journal")}
         /\ d.sidecar = NoSidecar
    /\ d.journal.state = "SUPERSEDED" => d.profile # NoJournal

\* A credential that may exist is told of by a journal or by the sidecar.
Told(d, h) ==
    \A m \in h.authorized :
        \/ m \in h.staged
        \/ d.sidecar.state = "CORRUPT"
        \/ d.sidecar.ceremony = m /\ d.sidecar.state # "ACTIVE"

\* The obligation of a running ceremony is that of the last one minted; its
\* credential is in the journal only when its staging was interrupted.
Current(d, h, n) ==
    /\ d.sidecar.state \notin {"ABSENT", "CORRUPT"} => d.sidecar.ceremony \in 1..n
    /\ d.sidecar.state = "CREDENTIAL_RECORDED" =>
          <<d.sidecar.ceremony, d.sidecar.credential>> \in h.recorded
    /\ d.sidecar.state \in CeremonyStates =>
         /\ d.sidecar.ceremony = n
         /\ n \notin h.cancelled
         /\ n \in Ceremonies(d.journal) =>
               d.sidecar.state = "CREDENTIAL_RECORDED" /\ d.sidecar.role = Len(d.journal.entries)

\* Ceremonies of the past, and those that were cancelled.
Past(d, h, n) ==
    /\ Ceremonies(d.journal) \subseteq h.staged \cap (1..n)
    /\ h.authorized \subseteq 1..n /\ h.cancelled \subseteq 1..n
    /\ Ceremonies(d.journal) \cap h.cancelled = {}
    /\ d.profile.state = "STAGING" => Ceremonies(d.profile) \cap h.cancelled = {}

FilesInv(d, h, n) ==
    /\ Formed(d) /\ Plain(d) /\ Final(d)
    /\ Sound(d.journal, h) /\ Sound(d.profile, h)
    /\ Told(d, h) /\ Current(d, h, n) /\ Past(d, h, n)

-----------------------------------------------------------------------------
\* The writes there are, on the files d with n ceremonies minted.
Supersedes(d, w) ==
    /\ d.profile # NoJournal /\ d.journal = d.profile
    /\ w = Put("journal", Ended(d.profile, "SUPERSEDED"))
DropsJournal(d, w) ==
    /\ d.journal.state \in {"CORRUPT", "CANCELLED", "EXPIRED", "SUPERSEDED"}
    /\ w = Drop("journal")
EndsJournal(d, w) ==
    /\ d.journal.state = "STAGING" /\ d.profile = NoJournal
    /\ \E s \in {"EXPIRED", "CANCELLED"} : w = Put("journal", Ended(d.journal, s))
CreatesJournal(d, w) ==
    /\ d.journal = NoJournal /\ d.profile = NoJournal
    /\ \E i \in Intents : w = Put("journal", Journal("STAGING", i, <<>>))
Appends(d, w) ==
    /\ d.journal.state = "STAGING" /\ d.profile = NoJournal
    /\ d.sidecar.state = "CREDENTIAL_RECORDED"
    /\ d.sidecar.role = Len(d.journal.entries) + 1
    /\ d.sidecar.credential \in Credentials
    /\ \A k \in 1..Len(d.journal.entries) :
          d.journal.entries[k].credential # d.sidecar.credential
    /\ w = Put("journal", [d.journal EXCEPT !.entries =
              Append(@, [ceremony |-> d.sidecar.ceremony, credential |-> d.sidecar.credential])])
DropsSidecar(d, w) ==
    /\ \/ d.sidecar.state = "ACTIVE"
       \/ /\ d.sidecar.state \in Creating \cup {"ORPHANED"}
          /\ d.sidecar.ceremony \in Ceremonies(d.journal)
    /\ w = Drop("sidecar")
Orphans(d, w) ==
    /\ d.sidecar.state \in Creating
    /\ \/ w = Put("sidecar", Orphaned(d.sidecar))
       \/ w = Put("sidecar", [Orphaned(d.sidecar) EXCEPT !.mismatch = TRUE])
BeginsCeremony(d, h, n, w) ==
    /\ d.sidecar = NoSidecar /\ d.profile = NoJournal
    /\ n \in 1..MaxCeremonies /\ n \notin Ceremonies(d.journal) \cup h.cancelled
    /\ \E i \in Intents \cup {None}, r \in 1..Slots :
          w = Put("sidecar", [NoSidecar EXCEPT !.state = "ACTIVE", !.intent = i, !.role = r,
                                               !.ceremony = n])
Authorizes(d, w) ==
    /\ d.sidecar.state = "ACTIVE"
    /\ w = Put("sidecar", [d.sidecar EXCEPT !.state = "CREATION_AUTHORIZED"])
Records(d, w) ==
    /\ d.sidecar.state = "CREATION_AUTHORIZED"
    /\ \E c \in Credentials :
          w = Put("sidecar", [d.sidecar EXCEPT !.state = "CREDENTIAL_RECORDED",
                                               !.credential = c])
Publishes(d, w) ==
    /\ d.profile = NoJournal /\ d.journal.state = "STAGING"
    /\ Len(d.journal.entries) = Slots /\ d.sidecar = NoSidecar
    /\ w = Put("profile", d.journal)

Legal(d, h, n, w) ==
    \/ Supersedes(d, w) \/ DropsJournal(d, w) \/ EndsJournal(d, w) \/ CreatesJournal(d, w)
    \/ Appends(d, w) \/ DropsSidecar(d, w) \/ Orphans(d, w) \/ BeginsCeremony(d, h, n, w)
    \/ Authorizes(d, w) \/ Records(d, w) \/ Publishes(d, w)

\* The files and the history after a write.
After(d, w) == [d EXCEPT ![w.file] = w.val]
Noted(h, d) == [h EXCEPT
    !.staged = @ \cup Ceremonies(d.journal),
    !.recorded = @ \cup (IF d.sidecar.state = "CREDENTIAL_RECORDED"
                         THEN {<<d.sidecar.ceremony, d.sidecar.credential>>} ELSE {})]

-----------------------------------------------------------------------------
Ops == {"none", "reconcile", "create", "begin", "authorize", "record", "stage", "cancelRole",
        "cancel", "acknowledge", "finalize"}

\* What a method writes, and the coordinator adopts when it returns.
WritesOf(op) ==
    CASE op \in {"create", "acknowledge"} -> {"journal"}
      [] op \in {"begin", "authorize", "record", "cancelRole"} -> {"sidecar"}
      [] op \in {"stage", "cancel"} -> {"journal", "sidecar"}
      [] op = "finalize" -> {"journal", "profile"}
      [] op = "reconcile" -> Files
      [] OTHER -> {}

\* The coordinator may only finalize, and no ceremony of its own runs.
MayFinalize(k) ==
    /\ k.mem.sidecar.state # "ORPHANED"
    /\ k.mem.journal.state = "STAGING" /\ Len(k.mem.journal.entries) = Slots
    /\ k.ceremony = 0

\* A method that fails after its first write leaves the coordinator behind;
\* these files it knows then to be there.
Knows(k, f) ==
    CASE f = "journal" -> k.mem.journal # NoJournal
      [] f = "sidecar" -> k.mem.sidecar # NoSidecar
      [] f = "profile" -> MayFinalize(k)

\* The writes a method has left.  While the coordinator does not know of a
\* profile, only finalizeProfile runs.
OneWrite(t, d, h, n, op) ==
    \E w : t = <<w>> /\ Legal(d, h, n, w) /\ w.file \in WritesOf(op)
TwoWrites(t, d, h, n, op, k) ==
    \E w, x : /\ t = <<w, x>>
              /\ Legal(d, h, n, w) /\ w.file \in WritesOf(op)
              /\ Legal(After(d, w), Noted(h, After(d, w)), n, x) /\ x.file \in WritesOf(op)
              /\ Knows(k, w.file)
ThenFinish(t, d, h, n) ==
    \/ t = <<FinishStep>>
    \/ \E w : t = <<w, FinishStep>> /\ Legal(d, h, n, w)
    \/ \E w, x : /\ t = <<w, x, FinishStep>>
                 /\ Legal(d, h, n, w)
                 /\ Legal(After(d, w), Noted(h, After(d, w)), n, x)

\* What finishReconcile has adopted, while its own write is left.
Settling ==
    /\ host.mem.journal = disk.journal /\ host.mem.profile = disk.profile
    /\ \/ call.todo = <<>> /\ host.mem.sidecar = disk.sidecar
       \/ \E w : call.todo = <<w>> /\ Legal(disk, history, minted.n, w) /\ w.file = "sidecar"

Planned ==
    CASE call.op = "none" -> call = NoCall
      [] call.op = "reconcile" ->
            /\ ~coord.reconciled
            /\ ThenFinish(call.todo, disk, history, minted.n) \/ Settling
      [] OTHER ->
            /\ coord.reconciled
            /\ disk.profile # NoJournal /\ coord.mem.profile = NoJournal => call.op = "finalize"
            /\ \/ call.todo = <<>>
               \/ OneWrite(call.todo, disk, history, minted.n, call.op)
               \/ TwoWrites(call.todo, disk, history, minted.n, call.op, coord)

\* A creation is authorized when the method that says so returns.
AuthorizeSays ==
    call.op = "authorize" =>
        \/ call.todo = <<>> /\ disk.sidecar.state = "CREATION_AUTHORIZED"
        \/ \E w : call.todo = <<w>> /\ Authorizes(disk, w)

\* The coordinator's memory of the file f hides nothing.
Hides(f) ==
    CASE f = "journal" -> coord.mem.journal = NoJournal /\ disk.journal # NoJournal
      [] f = "sidecar" -> coord.mem.sidecar = NoSidecar /\ disk.sidecar # NoSidecar
      [] f = "profile" -> coord.mem.profile = NoJournal /\ disk.profile # NoJournal
                             /\ ~MayFinalize(coord)

Adopting(f) == call.todo = <<>> /\ f \in WritesOf(call.op)

MemoryInv ==
    /\ ~up => call = NoCall
    /\ up /\ (coord.reconciled \/ call.op = "reconcile") => disk.profile.state # "CORRUPT"
    /\ coord.poisoned => host.poisoned
    /\ host.poisoned => call = NoCall
    /\ ~coord.reconciled => coord.mem = NoFiles
    /\ up /\ coord.reconciled /\ ~host.poisoned =>
          /\ host.mem = disk
          /\ \A f \in Files : Hides(f) => Adopting(f)

Typed ==
    /\ Formed(host.mem) /\ Formed(coord.mem)
    /\ host \in [poisoned : BOOLEAN, reconciled : BOOLEAN, mem : FileSets]
    /\ coord \in [poisoned : BOOLEAN, reconciled : BOOLEAN, mem : FileSets,
                  ceremony : 0..MaxCeremonies]
    /\ minted \in [n : 0..MaxCeremonies, intent : Intents \cup {None}, late : BOOLEAN]
    /\ up \in BOOLEAN /\ expired \subseteq Intents /\ faults \in 0..MaxFaults
    /\ history \in Histories
    /\ call.op \in Ops /\ call = [op |-> call.op, todo |-> call.todo]

IInv ==
    /\ Typed
    /\ FilesInv(disk, history, minted.n)
    /\ Planned
    /\ AuthorizeSays
    /\ MemoryInv

-----------------------------------------------------------------------------
\* What a write changes.
LEMMA AfterWrite ==
    ASSUME NEW d \in FileSets, NEW f \in Files, NEW v
    PROVE  LET e == After(d, Put(f, v)) IN
           /\ Put(f, v).file = f /\ Put(f, v).val = v
           /\ e.journal = IF f = "journal" THEN v ELSE d.journal
           /\ e.sidecar = IF f = "sidecar" THEN v ELSE d.sidecar
           /\ e.profile = IF f = "profile" THEN v ELSE d.profile
           /\ e.journal \in Journals /\ e.sidecar \in Sidecars /\ e.profile \in Journals
                => e \in FileSets
<1>1. CASE f = "journal"
  BY <1>1 DEF After, Put, FileSets
<1>2. CASE f = "sidecar"
  BY <1>2 DEF After, Put, FileSets
<1>3. CASE f = "profile"
  BY <1>3 DEF After, Put, FileSets
<1> QED
  BY <1>1, <1>2, <1>3 DEF Files

\* The ceremonies of a journal are numbers.
LEMMA CeremoniesAreNumbers ==
    ASSUME NEW j \in Journals
    PROVE  Ceremonies(j) \subseteq 1..MaxCeremonies
<1>1. ASSUME NEW k \in 1..Len(j.entries)
      PROVE  j.entries[k].ceremony \in 1..MaxCeremonies
  <2>1. j.entries \in Seq(Entries)
    BY DEF Journals
  <2>2. j.entries[k] \in Entries
    BY <2>1
  <2> QED
    BY <2>2 DEF Entries
<1> QED
  BY <1>1 DEF Ceremonies

\* What the history keeps of a write.
LEMMA NotedHistory ==
    ASSUME NEW h \in Histories, NEW e \in FileSets
    PROVE  LET g == Noted(h, e) IN
           /\ g \in Histories
           /\ g.authorized = h.authorized /\ g.cancelled = h.cancelled
           /\ g.staged = h.staged \cup Ceremonies(e.journal)
           /\ h.recorded \subseteq g.recorded
           /\ e.sidecar.state = "CREDENTIAL_RECORDED" =>
                 <<e.sidecar.ceremony, e.sidecar.credential>> \in g.recorded
<1>1. Ceremonies(e.journal) \subseteq Nat
  BY CeremoniesAreNumbers DEF FileSets
<1>2. <<e.sidecar.ceremony, e.sidecar.credential>> \in Nat \X (Credentials \cup {None})
  BY DEF FileSets, Sidecars
<1> QED
  BY <1>1, <1>2 DEF Noted, Histories

\* Absent and damaged files.
LEMMA EmptyFiles ==
    /\ NoJournal \in Journals /\ NoJournal.state = "ABSENT" /\ NoJournal.entries = <<>>
    /\ NoSidecar \in Sidecars /\ NoSidecar.state = "ABSENT" /\ NoSidecar.ceremony = 0
    /\ \A f \in Files : Drop(f) = Put(f, NoFiles[f])
    /\ NoFiles.journal = NoJournal /\ NoFiles.sidecar = NoSidecar /\ NoFiles.profile = NoJournal
    /\ NoFiles \in FileSets
    /\ Damaged("journal") = Journal("CORRUPT", None, <<>>)
    /\ Damaged("profile") = Journal("CORRUPT", None, <<>>)
    /\ Journal("CORRUPT", None, <<>>) \in Journals
    /\ Damaged("sidecar") \in Sidecars /\ Damaged("sidecar").state = "CORRUPT"
<1>1. <<>> \in Seq(Entries)
  OBVIOUS
<1>2. NoJournal \in Journals /\ NoJournal.state = "ABSENT" /\ NoJournal.entries = <<>>
  BY <1>1 DEF NoJournal, Journal, Journals
<1>3. NoSidecar \in Sidecars /\ NoSidecar.state = "ABSENT" /\ NoSidecar.ceremony = 0
  BY DEF NoSidecar, Sidecars, CeremonyStates
<1>4. NoFiles.journal = NoJournal /\ NoFiles.sidecar = NoSidecar /\ NoFiles.profile = NoJournal
  BY DEF NoFiles
<1>5. NoFiles \in FileSets
  BY <1>2, <1>3 DEF NoFiles, FileSets
<1>6. Damaged("journal") = Journal("CORRUPT", None, <<>>)
      /\ Damaged("profile") = Journal("CORRUPT", None, <<>>)
      /\ Journal("CORRUPT", None, <<>>) \in Journals
  BY <1>1 DEF Damaged, NoFiles, NoJournal, Journal, Journals
<1>7. Damaged("sidecar") \in Sidecars /\ Damaged("sidecar").state = "CORRUPT"
  <2>1. Damaged("sidecar") = [NoSidecar EXCEPT !.state = "CORRUPT"]
    BY <1>4 DEF Damaged
  <2> QED
    BY <1>3, <2>1 DEF Sidecars
<1> QED
  BY <1>2, <1>3, <1>4, <1>5, <1>6, <1>7 DEF Drop

\* An ended journal.
LEMMA EndedJournal ==
    ASSUME NEW j \in Journals, NEW s \in {"CANCELLED", "EXPIRED", "SUPERSEDED"}
    PROVE  /\ Ended(j, s) \in Journals /\ Ended(j, s).state = s
           /\ Ended(j, s).entries = j.entries
BY DEF Ended, Journals

\* A journal write that keeps the entries or removes them all.
LEMMA JournalShrinks ==
    ASSUME NEW d \in FileSets, NEW h \in Histories, NEW n \in 0..MaxCeremonies,
           FilesInv(d, h, n),
           NEW e \in FileSets, NEW g \in Histories, g = Noted(h, e),
           e.sidecar = d.sidecar, e.profile = d.profile,
           e.journal.entries = d.journal.entries \/ e.journal.entries = <<>>,
           Plain(e), Final(e)
    PROVE  FilesInv(e, g, n)
<1>1. /\ g.authorized = h.authorized /\ g.cancelled = h.cancelled
      /\ g.staged = h.staged \cup Ceremonies(e.journal)
      /\ h.recorded \subseteq g.recorded
  BY NotedHistory
<1>2. Ceremonies(e.journal) \subseteq Ceremonies(d.journal)
  BY DEF Ceremonies
<1>3. Formed(e)
  BY DEF FilesInv, Formed
<1>4. Sound(e.journal, g)
  <2>1. CASE e.journal.entries = <<>>
    BY <2>1 DEF Sound
  <2>2. CASE e.journal.entries = d.journal.entries
    BY <1>1, <2>2 DEF Sound, FilesInv
  <2> QED
    BY <2>1, <2>2
<1>5. Sound(e.profile, g)
  BY <1>1 DEF Sound, FilesInv
<1>6. Told(e, g)
  BY <1>1 DEF Told, FilesInv
<1>7. Current(e, g, n)
  <2>1. n \in Ceremonies(e.journal) =>
           n \in Ceremonies(d.journal) /\ e.journal.entries = d.journal.entries
    BY <1>2 DEF Ceremonies
  <2> QED
    BY <1>1, <2>1 DEF Current, FilesInv
<1>8. Past(e, g, n)
  BY <1>1, <1>2 DEF Past, FilesInv
<1> QED
  BY <1>3, <1>4, <1>5, <1>6, <1>7, <1>8 DEF FilesInv

\* A sidecar write.
LEMMA SidecarWritten ==
    ASSUME NEW d \in FileSets, NEW h \in Histories, NEW n \in 0..MaxCeremonies,
           FilesInv(d, h, n),
           NEW e \in FileSets, NEW g \in Histories, g = Noted(h, e),
           e.journal = d.journal, e.profile = d.profile,
           e.sidecar.state = "ABSENT" => e.sidecar = NoSidecar,
           d.profile.state # "STAGING",
           Told(e, g), Current(e, g, n)
    PROVE  FilesInv(e, g, n)
<1>1. /\ g.authorized = h.authorized /\ g.cancelled = h.cancelled
      /\ g.staged = h.staged \cup Ceremonies(e.journal)
      /\ h.recorded \subseteq g.recorded
  BY NotedHistory
<1>2. Formed(e) /\ Plain(e) /\ Final(e)
  BY DEF FilesInv, Formed, Plain, Final
<1>3. Sound(e.journal, g) /\ Sound(e.profile, g)
  BY <1>1 DEF Sound, FilesInv
<1>4. Past(e, g, n)
  BY <1>1 DEF Past, FilesInv
<1> QED
  BY <1>2, <1>3, <1>4 DEF FilesInv

\* The journal takes the credential of the sidecar.
LEMMA AppendKept ==
    ASSUME NEW d \in FileSets, NEW h \in Histories, NEW n \in 0..MaxCeremonies,
           FilesInv(d, h, n), NEW w, Appends(d, w)
    PROVE  After(d, w) \in FileSets /\ FilesInv(After(d, w), Noted(h, After(d, w)), n)
<1> DEFINE j == d.journal
           x == [ceremony |-> d.sidecar.ceremony, credential |-> d.sidecar.credential]
           k == [j EXCEPT !.entries = Append(j.entries, x)]
           e == After(d, w)
           g == Noted(h, e)
<1>0. Formed(d) /\ Plain(d) /\ Final(d) /\ Sound(j, h) /\ Sound(d.profile, h) /\ Told(d, h)
      /\ Current(d, h, n) /\ Past(d, h, n)
  BY DEF FilesInv
<1>1. j \in Journals /\ j.entries \in Seq(Entries) /\ d.sidecar \in Sidecars
  BY DEF FileSets, Journals
<1>2. /\ d.sidecar.ceremony = n /\ n \in 1..n /\ n \notin h.cancelled
      /\ <<n, d.sidecar.credential>> \in h.recorded
      /\ n \notin Ceremonies(j)
  <2>1. /\ d.sidecar.state = "CREDENTIAL_RECORDED"
        /\ d.sidecar.role = Len(j.entries) + 1
    BY DEF Appends
  <2>2. d.sidecar.state \in CeremonyStates /\ d.sidecar.state \notin {"ABSENT", "CORRUPT"}
    BY <2>1 DEF CeremonyStates, Creating
  <2>3. d.sidecar.role # Len(j.entries)
    BY <1>1, <2>1
  <2> QED
    BY <1>0, <2>1, <2>2, <2>3 DEF Current
<1>3. x \in Entries
  BY <1>1, <1>2 DEF Appends, Entries, Sidecars
<1>4. /\ k \in Journals /\ k.state = "STAGING" /\ k.entries \in Seq(Entries)
      /\ Len(k.entries) = Len(j.entries) + 1
      /\ k.entries[Len(j.entries) + 1] = x
      /\ \A i \in 1..Len(j.entries) : k.entries[i] = j.entries[i]
  <2>1. ASSUME NEW q \in Seq(Entries)
        PROVE  /\ Append(q, x) \in Seq(Entries) /\ Len(Append(q, x)) = Len(q) + 1
               /\ Append(q, x)[Len(q) + 1] = x
               /\ \A i \in 1..Len(q) : Append(q, x)[i] = q[i]
    <3> HIDE DEF x
    <3> QED
      BY <1>3
  <2>2. k.entries = Append(j.entries, x) /\ k.state = j.state
    BY <1>1 DEF Journals
  <2>3. k \in Journals
    <3> DEFINE a == Append(j.entries, x)
    <3>1. a \in Seq(Entries)
      BY <1>1, <2>1
    <3> HIDE DEF a
    <3>2. [j EXCEPT !.entries = a] \in Journals
      BY <1>1, <3>1 DEF Journals
    <3> QED
      BY <3>2 DEF a
  <2> QED
    BY <1>1, <2>1, <2>2, <2>3 DEF Appends
<1>5. w = Put("journal", k)
  BY DEF Appends
<1> HIDE DEF k
<1>6. e.journal = k /\ e.sidecar = d.sidecar /\ e.profile = d.profile /\ e \in FileSets
  BY <1>4, <1>5, AfterWrite DEF Files, FileSets
<1>7. /\ g \in Histories /\ g.authorized = h.authorized /\ g.cancelled = h.cancelled
      /\ g.staged = h.staged \cup Ceremonies(k)
      /\ h.recorded \subseteq g.recorded
  BY <1>6, NotedHistory
<1> HIDE DEF e, g
<1>8. x.ceremony = n /\ x.credential = d.sidecar.credential
  BY <1>2
<1> HIDE DEF x, j
<1>9. Ceremonies(k) = Ceremonies(j) \cup {n}
  <2>1. \A i \in 1..Len(k.entries) :
           k.entries[i].ceremony = n \/ (i \in 1..Len(j.entries) /\ k.entries[i] = j.entries[i])
    BY <1>1, <1>4, <1>8
  <2>2. Ceremonies(k) \subseteq Ceremonies(j) \cup {n}
    BY <2>1 DEF Ceremonies
  <2>3. Len(k.entries) \in 1..Len(k.entries) /\ k.entries[Len(k.entries)].ceremony = n
    BY <1>1, <1>4, <1>8
  <2>4. n \in Ceremonies(k)
    BY <2>3 DEF Ceremonies
  <2>5. \A i \in 1..Len(j.entries) : i \in 1..Len(k.entries) /\ k.entries[i] = j.entries[i]
    BY <1>1, <1>4
  <2>6. Ceremonies(j) \subseteq Ceremonies(k)
    BY <2>5 DEF Ceremonies
  <2> QED
    BY <2>2, <2>4, <2>6
<1>10. d.profile = NoJournal /\ d.profile.state = "ABSENT" /\ d.journal.state = "STAGING"
  BY EmptyFiles DEF Appends
<1>11. Formed(e)
  <2>1. d.sidecar.role \in 0..Slots /\ d.sidecar.role = Len(k.entries)
    BY <1>1, <1>4 DEF Appends, Sidecars, j
  <2> QED
    BY <1>0, <1>6, <2>1 DEF Formed
<1>12. Plain(e) /\ Final(e)
  BY <1>0, <1>4, <1>6, <1>10 DEF Plain, Final
<1>13. Sound(k, g)
  <2>1. ASSUME NEW i \in 1..Len(j.entries)
        PROVE  /\ k.entries[i] = j.entries[i]
               /\ k.entries[i].ceremony # n
               /\ k.entries[i].credential # d.sidecar.credential
    BY <1>2, <1>4 DEF Ceremonies, Appends, j
  <2>2. \A i \in 1..Len(k.entries) : i \in 1..Len(j.entries) \/ i = Len(j.entries) + 1
    BY <1>1, <1>4
  <2> DEFINE m == Len(j.entries) + 1
  <2>3. k.entries[m].ceremony = n /\ k.entries[m].credential = d.sidecar.credential
    BY <1>4, <1>8
  <2> HIDE DEF m
  <2>4. \A i \in 1..Len(k.entries) : i \in 1..Len(j.entries) \/ i = m
    BY <2>2 DEF m
  <2>5. \A i \in 1..Len(k.entries) :
           <<k.entries[i].ceremony, k.entries[i].credential>> \in g.recorded
    BY <1>0, <1>2, <1>7, <2>1, <2>3, <2>4 DEF Sound
  <2>6. ASSUME NEW i \in 1..Len(k.entries), NEW l \in 1..Len(k.entries) \ {i}
        PROVE  /\ k.entries[i].ceremony # k.entries[l].ceremony
               /\ k.entries[i].credential # k.entries[l].credential
    <3>1. CASE i \in 1..Len(j.entries) /\ l \in 1..Len(j.entries)
      BY <1>0, <2>1, <3>1 DEF Sound
    <3>2. CASE i = m \/ l = m
      BY <2>1, <2>3, <2>4, <3>2
    <3> QED
      BY <2>4, <3>1, <3>2
  <2> QED
    BY <2>5, <2>6 DEF Sound
<1>14. Sound(e.profile, g)
  BY <1>0, <1>6, <1>7 DEF Sound
<1>15. Told(e, g)
  BY <1>0, <1>6, <1>7 DEF Told
<1>16. Current(e, g, n)
  <2>1. d.sidecar.state = "CREDENTIAL_RECORDED" /\ d.sidecar.role = Len(k.entries)
    BY <1>4 DEF Appends, j
  <2> QED
    BY <1>2, <1>6, <1>7, <2>1 DEF Current
<1>17. Past(e, g, n)
  BY <1>0, <1>2, <1>6, <1>7, <1>9, <1>10 DEF Past, j
<1> QED
  BY <1>6, <1>11, <1>12, <1>13, <1>14, <1>15, <1>16, <1>17 DEF FilesInv, e, g

\* The other writes of the journal.
LEMMA JournalKept ==
    ASSUME NEW d \in FileSets, NEW h \in Histories, NEW n \in 0..MaxCeremonies,
           FilesInv(d, h, n), NEW w,
           Supersedes(d, w) \/ DropsJournal(d, w) \/ EndsJournal(d, w) \/ CreatesJournal(d, w)
    PROVE  After(d, w) \in FileSets /\ FilesInv(After(d, w), Noted(h, After(d, w)), n)
<1>0. /\ d.journal \in Journals /\ d.profile \in Journals
      /\ Formed(d) /\ Plain(d) /\ Final(d)
  BY DEF FileSets, FilesInv
<1>1. PICK j \in Journals :
        /\ w = Put("journal", j)
        /\ j.entries = d.journal.entries \/ j.entries = <<>>
        /\ j.state = "ABSENT" => j = NoJournal
        /\ d.profile.state = "STAGING" =>
              j \in {d.profile, Ended(d.profile, "SUPERSEDED"), NoJournal, Damaged("journal")}
        /\ j.state = "SUPERSEDED" => d.profile # NoJournal
  <2>1. CASE Supersedes(d, w)
    BY <1>0, <2>1, EndedJournal DEF Supersedes
  <2>2. CASE DropsJournal(d, w)
    BY <2>2, EmptyFiles DEF DropsJournal, Files
  <2>3. CASE EndsJournal(d, w)
    <3>1. PICK s \in {"EXPIRED", "CANCELLED"} : w = Put("journal", Ended(d.journal, s))
      BY <2>3 DEF EndsJournal
    <3>2. d.profile.state # "STAGING"
      BY <2>3, EmptyFiles DEF EndsJournal
    <3> QED
      BY <1>0, <3>1, <3>2, EndedJournal
  <2>4. CASE CreatesJournal(d, w)
    <3>1. PICK i \in Intents : w = Put("journal", Journal("STAGING", i, <<>>))
      BY <2>4 DEF CreatesJournal
    <3>2. d.profile.state # "STAGING"
      BY <2>4, EmptyFiles DEF CreatesJournal
    <3>3. /\ Journal("STAGING", i, <<>>) \in Journals
          /\ Journal("STAGING", i, <<>>).state = "STAGING"
          /\ Journal("STAGING", i, <<>>).entries = <<>>
      BY DEF Journal, Journals
    <3> QED
      BY <3>1, <3>2, <3>3
  <2> QED
    BY <2>1, <2>2, <2>3, <2>4
<1> DEFINE e == After(d, w)
           g == Noted(h, e)
<1>2. e.journal = j /\ e.sidecar = d.sidecar /\ e.profile = d.profile /\ e \in FileSets
  BY <1>1, AfterWrite DEF Files, FileSets
<1>3. g \in Histories
  BY <1>2, NotedHistory
<1>4. g = Noted(h, e)
  OBVIOUS
<1> HIDE DEF e, g
<1>5. Plain(e) /\ Final(e)
  BY <1>0, <1>1, <1>2 DEF Plain, Final
<1>6. FilesInv(e, g, n)
  BY <1>1, <1>2, <1>3, <1>4, <1>5, JournalShrinks
<1> QED
  BY <1>2, <1>6 DEF e, g

\* The writes of the sidecar. A published profile has none beside it.
LEMMA SidecarKept ==
    ASSUME NEW d \in FileSets, NEW h \in Histories, NEW n \in 0..MaxCeremonies,
           FilesInv(d, h, n), NEW w,
           \/ DropsSidecar(d, w) \/ Orphans(d, w) \/ BeginsCeremony(d, h, n, w)
           \/ Authorizes(d, w) \/ Records(d, w)
    PROVE  After(d, w) \in FileSets /\ FilesInv(After(d, w), Noted(h, After(d, w)), n)
<1>0. /\ d.sidecar \in Sidecars /\ d.journal \in Journals
      /\ Final(d) /\ Told(d, h) /\ Current(d, h, n) /\ Past(d, h, n)
  BY DEF FileSets, FilesInv
<1>1. PICK s \in Sidecars : w = Put("sidecar", s)
  <2>1. CASE DropsSidecar(d, w)
    BY <2>1, EmptyFiles DEF DropsSidecar, Files
  <2>2. CASE Orphans(d, w)
    <3>1. /\ Orphaned(d.sidecar) \in Sidecars
          /\ [Orphaned(d.sidecar) EXCEPT !.mismatch = TRUE] \in Sidecars
      BY <1>0 DEF Orphaned, Sidecars
    <3> QED
      BY <2>2, <3>1 DEF Orphans
  <2>3. CASE BeginsCeremony(d, h, n, w)
    <3>1. PICK i \in Intents \cup {None}, r \in 1..Slots :
            w = Put("sidecar", [NoSidecar EXCEPT !.state = "ACTIVE", !.intent = i, !.role = r,
                                                 !.ceremony = n])
      BY <2>3 DEF BeginsCeremony
    <3>2. r \in 0..Slots
      OBVIOUS
    <3>3. [NoSidecar EXCEPT !.state = "ACTIVE", !.intent = i, !.role = r, !.ceremony = n]
             \in Sidecars
      BY <3>2, EmptyFiles DEF Sidecars, CeremonyStates
    <3> QED
      BY <3>1, <3>3
  <2>4. CASE Authorizes(d, w)
    <3>1. [d.sidecar EXCEPT !.state = "CREATION_AUTHORIZED"] \in Sidecars
      BY <1>0 DEF Sidecars, CeremonyStates, Creating
    <3> QED
      BY <2>4, <3>1 DEF Authorizes
  <2>5. CASE Records(d, w)
    <3>1. PICK c \in Credentials :
            w = Put("sidecar", [d.sidecar EXCEPT !.state = "CREDENTIAL_RECORDED",
                                                 !.credential = c])
      BY <2>5 DEF Records
    <3>2. [d.sidecar EXCEPT !.state = "CREDENTIAL_RECORDED", !.credential = c] \in Sidecars
      BY <1>0 DEF Sidecars, CeremonyStates, Creating
    <3> QED
      BY <3>1, <3>2
  <2> QED
    BY <2>1, <2>2, <2>3, <2>4, <2>5
<1> DEFINE e == After(d, w)
           g == Noted(h, e)
<1>2. e.journal = d.journal /\ e.sidecar = s /\ e.profile = d.profile /\ e \in FileSets
      /\ w.val = s
  BY <1>1, AfterWrite DEF Files, FileSets
<1>3. /\ g \in Histories /\ g.authorized = h.authorized /\ g.cancelled = h.cancelled
      /\ g.staged = h.staged \cup Ceremonies(d.journal)
      /\ h.recorded \subseteq g.recorded
      /\ s.state = "CREDENTIAL_RECORDED" => <<s.ceremony, s.credential>> \in g.recorded
  BY <1>2, NotedHistory
<1>4. g = Noted(h, e)
  OBVIOUS
<1> HIDE DEF e, g
<1>5. d.profile.state # "STAGING"
  BY <1>0, EmptyFiles DEF Final, DropsSidecar, Orphans, BeginsCeremony, Authorizes, Records,
     Creating
<1>6. /\ s.state = "ABSENT" => s = NoSidecar
      /\ Told(e, g) /\ Current(e, g, n)
  <2>1. CASE DropsSidecar(d, w)
    <3>1. s = NoSidecar
      BY <1>2, <2>1, AfterWrite, EmptyFiles DEF DropsSidecar, Files, Put
    <3>2. s.state = "ABSENT" /\ "ABSENT" \notin CeremonyStates
      BY <3>1, EmptyFiles DEF CeremonyStates, Creating
    <3>3. Current(e, g, n)
      BY <1>2, <3>2 DEF Current
    <3>4. \/ d.sidecar.state = "ACTIVE"
          \/ /\ d.sidecar.state \in Creating \cup {"ORPHANED"}
             /\ d.sidecar.ceremony \in g.staged
      BY <1>3, <2>1 DEF DropsSidecar
    <3>5. d.sidecar.state # "CORRUPT"
      BY <3>4 DEF Creating
    <3>6. Told(e, g)
      BY <1>0, <1>3, <3>4, <3>5 DEF Told
    <3> QED
      BY <3>1, <3>3, <3>6
  <2>2. CASE Orphans(d, w)
    <3>1. s.state = "ORPHANED" /\ s.ceremony = d.sidecar.ceremony
      <4> DEFINE v == Orphaned(d.sidecar)
                 u == [v EXCEPT !.mismatch = TRUE]
      <4>1. v.state = "ORPHANED" /\ v.ceremony = d.sidecar.ceremony
        BY <1>0 DEF Orphaned, Sidecars
      <4>2. u.state = "ORPHANED" /\ u.ceremony = d.sidecar.ceremony
        BY <1>0 DEF Orphaned, Sidecars
      <4> HIDE DEF u, v
      <4>3. w.val \in {u, v}
        BY <2>2 DEF Orphans, Put, u, v
      <4> QED
        BY <1>2, <4>1, <4>2, <4>3
    <3>2. d.sidecar.state \in Creating /\ "ORPHANED" \notin CeremonyStates
      BY <2>2 DEF Orphans, CeremonyStates, Creating
    <3>3. Told(e, g)
      BY <1>0, <1>2, <1>3, <3>1, <3>2 DEF Told, Creating
    <3>4. d.sidecar.state \notin {"ABSENT", "CORRUPT"}
      BY <3>2 DEF Creating
    <3>5. Current(e, g, n)
      BY <1>0, <1>2, <3>1, <3>2, <3>4 DEF Current
    <3> QED
      BY <3>1, <3>3, <3>5
  <2>3. CASE BeginsCeremony(d, h, n, w)
    <3>1. s.state = "ACTIVE" /\ s.ceremony = n
      <4>1. PICK i \in Intents \cup {None}, r \in 1..Slots :
              w = Put("sidecar", [NoSidecar EXCEPT !.state = "ACTIVE", !.intent = i, !.role = r,
                                                   !.ceremony = n])
        BY <2>3 DEF BeginsCeremony
      <4>2. s = [NoSidecar EXCEPT !.state = "ACTIVE", !.intent = i, !.role = r, !.ceremony = n]
        BY <1>2, <4>1 DEF Put
      <4> QED
        BY <4>2, EmptyFiles DEF Sidecars
    <3>2. /\ d.sidecar = NoSidecar /\ n \notin Ceremonies(d.journal) /\ n \notin h.cancelled
          /\ n \in 1..n
      <4>1. n \in 1..MaxCeremonies
        BY <2>3 DEF BeginsCeremony
      <4>2. n \in 1..n
        BY <4>1
      <4> QED
        BY <2>3, <4>2 DEF BeginsCeremony
    <3>3. Told(e, g)
      <4>1. \A m \in h.authorized : m # 0
        BY <1>0 DEF Past
      <4> QED
        BY <1>0, <1>3, <3>2, <4>1, EmptyFiles DEF Told
    <3>4. Current(e, g, n)
      BY <1>2, <1>3, <3>1, <3>2 DEF Current
    <3> QED
      BY <3>1, <3>3, <3>4
  <2>4. CASE Authorizes(d, w) \/ Records(d, w)
    <3>1. /\ d.sidecar.state \in {"ACTIVE", "CREATION_AUTHORIZED"}
          /\ s.state \in Creating /\ s.ceremony = d.sidecar.ceremony
      <4>1. CASE Authorizes(d, w)
        <5>1. s = [d.sidecar EXCEPT !.state = "CREATION_AUTHORIZED"]
          BY <1>2, <4>1 DEF Authorizes, Put
        <5> QED
          BY <1>0, <4>1, <5>1 DEF Authorizes, Sidecars, Creating
      <4>2. CASE Records(d, w)
        <5>1. PICK c \in Credentials :
                w = Put("sidecar", [d.sidecar EXCEPT !.state = "CREDENTIAL_RECORDED",
                                                     !.credential = c])
          BY <4>2 DEF Records
        <5>2. s = [d.sidecar EXCEPT !.state = "CREDENTIAL_RECORDED", !.credential = c]
          BY <1>2, <5>1 DEF Put
        <5> QED
          BY <1>0, <4>2, <5>2 DEF Records, Sidecars, Creating
      <4> QED
        BY <2>4, <4>1, <4>2
    <3>2. /\ d.sidecar.state \in CeremonyStates /\ s.state \in CeremonyStates
          /\ s.state \notin {"ABSENT", "CORRUPT", "ACTIVE"}
          /\ d.sidecar.state \notin {"ABSENT", "CORRUPT", "CREDENTIAL_RECORDED"}
      BY <3>1 DEF CeremonyStates, Creating
    <3>3. Told(e, g)
      BY <1>0, <1>2, <1>3, <3>1, <3>2 DEF Told
    <3>4. Current(e, g, n)
      BY <1>0, <1>2, <1>3, <3>1, <3>2 DEF Current
    <3> QED
      BY <3>2, <3>3, <3>4
  <2> QED
    BY <2>1, <2>2, <2>3, <2>4
<1>7. FilesInv(e, g, n)
  BY <1>2, <1>3, <1>4, <1>5, <1>6, SidecarWritten
<1> QED
  BY <1>2, <1>7 DEF e, g

\* Every write keeps what holds of the files.
LEMMA FilesKept ==
    ASSUME NEW d \in FileSets, NEW h \in Histories, NEW n \in 0..MaxCeremonies,
           FilesInv(d, h, n), NEW w, Legal(d, h, n, w)
    PROVE  After(d, w) \in FileSets /\ FilesInv(After(d, w), Noted(h, After(d, w)), n)
<1>1. CASE Publishes(d, w)
  <2>0. /\ d.journal \in Journals
        /\ Formed(d) /\ Plain(d) /\ Sound(d.journal, h) /\ Told(d, h) /\ Current(d, h, n)
        /\ Past(d, h, n)
    BY DEF FileSets, FilesInv
  <2> DEFINE e == After(d, w)
             g == Noted(h, e)
  <2>1. e.journal = d.journal /\ e.sidecar = d.sidecar /\ e.profile = d.journal /\ e \in FileSets
    BY <1>1, <2>0, AfterWrite DEF Publishes, Files, FileSets
  <2>2. /\ g \in Histories /\ g.authorized = h.authorized /\ g.cancelled = h.cancelled
        /\ g.staged = h.staged \cup Ceremonies(d.journal)
        /\ h.recorded \subseteq g.recorded
    BY <2>1, NotedHistory
  <2> HIDE DEF e, g
  <2>3. d.journal.state = "STAGING" /\ Len(d.journal.entries) = Slots /\ d.sidecar = NoSidecar
    BY <1>1 DEF Publishes
  <2>4. Formed(e) /\ Plain(e) /\ Final(e)
    BY <2>0, <2>1, <2>3 DEF Formed, Plain, Final
  <2>5. Sound(e.journal, g) /\ Sound(e.profile, g)
    BY <2>0, <2>1, <2>2 DEF Sound
  <2>6. Told(e, g)
    BY <2>0, <2>1, <2>2 DEF Told
  <2>7. Current(e, g, n)
    BY <2>0, <2>1, <2>2 DEF Current
  <2>8. Past(e, g, n)
    BY <2>0, <2>1, <2>2 DEF Past
  <2> QED
    BY <2>1, <2>4, <2>5, <2>6, <2>7, <2>8 DEF FilesInv, e, g
<1> QED
  BY <1>1, AppendKept, JournalKept, SidecarKept DEF Legal

-----------------------------------------------------------------------------
\* Lists of up to three writes.
LEMMA ShortLists ==
    ASSUME NEW a, NEW b, NEW c
    PROVE  /\ Head(<<a>>) = a /\ Head(<<a, b>>) = a /\ Head(<<a, b, c>>) = a
           /\ Tail(<<a>>) = <<>> /\ Tail(<<a, b>>) = <<b>> /\ Tail(<<a, b, c>>) = <<b, c>>
           /\ <<a>> # <<>> /\ <<a, b>> # <<>> /\ <<a, b, c>> # <<>>
           /\ Len(<<a>>) = 1 /\ Len(<<a, b>>) = 2 /\ Len(<<a, b, c>>) = 3
OBVIOUS

\* Two lists joined: the second write, and the end of a reconciliation.
LEMMA JoinedLists ==
    ASSUME NEW a, NEW b, NEW c
    PROVE  /\ Append(<<>>, a) = <<a>>
           /\ Append(<<a>>, b) = <<a, b>>
           /\ Append(<<a, b>>, c) = <<a, b, c>>
           /\ <<a>> \o <<b>> = <<a, b>>
<1> DEFINE S == {a, b, c}
           p == <<a>>
           q == <<b>>
           pq == <<a, b>>
           pqr == <<a, b, c>>
<1>1. /\ p \in Seq(S) /\ Len(p) = 1 /\ p[1] = a
      /\ q \in Seq(S) /\ Len(q) = 1 /\ q[1] = b
      /\ pq \in Seq(S) /\ Len(pq) = 2 /\ pq[1] = a /\ pq[2] = b
      /\ pqr \in Seq(S) /\ Len(pqr) = 3 /\ pqr[1] = a /\ pqr[2] = b /\ pqr[3] = c
      /\ a \in S /\ b \in S /\ c \in S
  OBVIOUS
<1>2. ASSUME NEW u \in Seq(S), NEW e \in S
      PROVE  /\ Append(u, e) \in Seq(S) /\ Len(Append(u, e)) = Len(u) + 1
             /\ Append(u, e)[Len(u) + 1] = e
             /\ \A i \in 1..Len(u) : Append(u, e)[i] = u[i]
  OBVIOUS
<1> HIDE DEF S, p, q, pq, pqr
<1>3. Append(p, b) = pq
  <2> DEFINE t == Append(p, b)
  <2>1. /\ t \in Seq(S) /\ Len(t) = Len(p) + 1 /\ t[Len(p) + 1] = b
        /\ \A i \in 1..Len(p) : t[i] = p[i]
    BY ONLY <1>1, <1>2
  <2> HIDE DEF t
  <2>2. Len(t) = 2 /\ t[1] = a /\ t[2] = b
    BY <1>1, <2>1
  <2>3. t = pq
    BY <1>1, <2>1, <2>2, SeqEqual
  <2> QED
    BY <2>3 DEF t
<1>4. Append(pq, c) = pqr
  <2> DEFINE t == Append(pq, c)
  <2>1. /\ t \in Seq(S) /\ Len(t) = Len(pq) + 1 /\ t[Len(pq) + 1] = c
        /\ \A i \in 1..Len(pq) : t[i] = pq[i]
    BY ONLY <1>1, <1>2
  <2> HIDE DEF t
  <2>2. Len(t) = 3 /\ t[1] = a /\ t[2] = b /\ t[3] = c
    BY <1>1, <2>1
  <2>3. t = pqr
    BY <1>1, <2>1, <2>2, SeqEqual
  <2> QED
    BY <2>3 DEF t
<1>5. p \o q = pq
  <2> DEFINE t == p \o q
  <2>1. /\ t \in Seq(S) /\ Len(t) = Len(p) + Len(q)
        /\ \A i \in 1..(Len(p) + Len(q)) :
              t[i] = IF i <= Len(p) THEN p[i] ELSE q[i - Len(p)]
    BY <1>1, ConcatProperties
  <2> HIDE DEF t
  <2>2. Len(t) = 2 /\ t[1] = a /\ t[2] = b
    BY <1>1, <2>1
  <2>3. t = pq
    BY <1>1, <2>1, <2>2, SeqEqual
  <2> QED
    BY <2>3 DEF t
<1> QED
  BY <1>3, <1>4, <1>5 DEF p, q, pq, pqr

\* A legal write goes to one of the files.
LEMMA LegalFile ==
    ASSUME NEW d, NEW h, NEW n, NEW w, Legal(d, h, n, w)
    PROVE  w.file \in Files /\ w = Put(w.file, w.val) /\ w # FinishStep
<1>1. ASSUME NEW f \in Files, NEW v, w = Put(f, v)
      PROVE  w.file \in Files /\ w = Put(w.file, w.val) /\ w # FinishStep
  BY <1>1 DEF Put, Files, FinishStep
<1>2. \/ \E v : w = Put("journal", v)
      \/ \E v : w = Put("sidecar", v)
      \/ \E v : w = Put("profile", v)
  BY DEF Legal, Supersedes, DropsJournal, EndsJournal, CreatesJournal, Appends, DropsSidecar,
         Orphans, BeginsCeremony, Authorizes, Records, Publishes, Drop
<1>3. "journal" \in Files /\ "sidecar" \in Files /\ "profile" \in Files
  BY DEF Files
<1> QED
  BY <1>1, <1>2, <1>3

\* The first write that is left is legal, and the others are after it.
LEMMA NextWrite ==
    ASSUME IInv, Writing
    PROVE  LET w == Head(call.todo)
               e == After(disk, w)
               g == Noted(history, e)
           IN /\ Legal(disk, history, minted.n, w)
              /\ \/ /\ call.op = "reconcile" /\ ~coord.reconciled
                    /\ ThenFinish(Tail(call.todo), e, g, minted.n)
                 \/ /\ call.op = "reconcile" /\ ~coord.reconciled
                    /\ Tail(call.todo) = <<>> /\ w.file = "sidecar"
                    /\ host.mem.journal = disk.journal /\ host.mem.profile = disk.profile
                 \/ /\ call.op \notin {"none", "reconcile"} /\ coord.reconciled
                    /\ w.file \in WritesOf(call.op)
                    /\ \/ Tail(call.todo) = <<>>
                       \/ OneWrite(Tail(call.todo), e, g, minted.n, call.op)
                          /\ Knows(coord, w.file)
<1> DEFINE t == call.todo
<1>0. t # <<>> /\ Head(t) # FinishStep /\ Planned
  BY DEF IInv, Writing
<1>1. CASE call.op = "none"
  BY <1>0, <1>1 DEF Planned, NoCall
<1>2. CASE call.op = "reconcile" /\ ThenFinish(t, disk, history, minted.n)
  <2>0. ~coord.reconciled
    BY <1>0, <1>2 DEF Planned
  <2>1. t # <<FinishStep>>
    BY <1>0
  <2>2. CASE \E w : t = <<w, FinishStep>> /\ Legal(disk, history, minted.n, w)
    <3>1. PICK w : t = <<w, FinishStep>> /\ Legal(disk, history, minted.n, w)
      BY <2>2
    <3>2. Head(t) = w /\ Tail(t) = <<FinishStep>>
      BY <3>1, ShortLists
    <3> QED
      BY <1>2, <2>0, <3>1, <3>2 DEF ThenFinish
  <2>3. CASE \E w, x : /\ t = <<w, x, FinishStep>>
                       /\ Legal(disk, history, minted.n, w)
                       /\ Legal(After(disk, w), Noted(history, After(disk, w)), minted.n, x)
    <3>1. PICK w, x : /\ t = <<w, x, FinishStep>>
                      /\ Legal(disk, history, minted.n, w)
                      /\ Legal(After(disk, w), Noted(history, After(disk, w)), minted.n, x)
      BY <2>3
    <3>2. Head(t) = w /\ Tail(t) = <<x, FinishStep>>
      BY <3>1, ShortLists
    <3> QED
      BY <1>2, <2>0, <3>1, <3>2 DEF ThenFinish
  <2> QED
    BY <1>2, <2>1, <2>2, <2>3 DEF ThenFinish
<1>3. CASE call.op = "reconcile" /\ Settling
  <2>1. PICK w : t = <<w>> /\ Legal(disk, history, minted.n, w) /\ w.file = "sidecar"
    BY <1>0, <1>3 DEF Settling
  <2>2. Head(t) = w /\ Tail(t) = <<>>
    BY <2>1, ShortLists
  <2> QED
    BY <1>0, <1>3, <2>1, <2>2 DEF Settling, Planned
<1>4. CASE call.op \notin {"none", "reconcile"} /\ OneWrite(t, disk, history, minted.n, call.op)
  <2>1. PICK w : t = <<w>> /\ Legal(disk, history, minted.n, w) /\ w.file \in WritesOf(call.op)
    BY <1>4 DEF OneWrite
  <2>2. Head(t) = w /\ Tail(t) = <<>>
    BY <2>1, ShortLists
  <2> QED
    BY <1>0, <1>4, <2>1, <2>2 DEF Planned
<1>5. CASE /\ call.op \notin {"none", "reconcile"}
           /\ TwoWrites(t, disk, history, minted.n, call.op, coord)
  <2>1. PICK w, x :
          /\ t = <<w, x>>
          /\ Legal(disk, history, minted.n, w) /\ w.file \in WritesOf(call.op)
          /\ Legal(After(disk, w), Noted(history, After(disk, w)), minted.n, x)
          /\ x.file \in WritesOf(call.op)
          /\ Knows(coord, w.file)
    BY <1>5 DEF TwoWrites
  <2>2. Head(t) = w /\ Tail(t) = <<x>>
    BY <2>1, ShortLists
  <2> QED
    BY <1>0, <1>5, <2>1, <2>2 DEF Planned, OneWrite
<1> QED
  BY <1>0, <1>1, <1>2, <1>3, <1>4, <1>5 DEF Planned

\* Only publishing changes the profile.
LEMMA LegalProfile ==
    ASSUME NEW d \in FileSets, NEW h, NEW n, NEW w, Legal(d, h, n, w)
    PROVE  \/ w.file # "profile" /\ After(d, w).profile = d.profile
           \/ w.file = "profile" /\ After(d, w).profile.state = "STAGING"
<1>1. PICK f, v : f \in Files /\ w = Put(f, v)
  BY LegalFile
<1>2. w.file = f /\ w.val = v
      /\ After(d, w).profile = IF f = "profile" THEN v ELSE d.profile
  BY <1>1, AfterWrite
<1>3. f = "profile" => Publishes(d, w)
  BY <1>1, <1>2 DEF Legal, Supersedes, DropsJournal, EndsJournal, CreatesJournal, Appends,
     DropsSidecar, Orphans, BeginsCeremony, Authorizes, Records, Drop, Put
<1>4. f = "profile" => v.state = "STAGING"
  BY <1>2, <1>3 DEF Publishes, Put
<1> QED
  BY <1>2, <1>4

\* A write that keeps one set of files in form keeps every one.
LEMMA FormedWrite ==
    ASSUME NEW d, NEW m, NEW f \in Files, NEW v,
           Formed(d), Formed(m), Formed(After(d, Put(f, v)))
    PROVE  Formed(After(m, Put(f, v)))
<1> DEFINE e == After(d, Put(f, v))
           b == After(m, Put(f, v))
<1>1. d \in FileSets /\ m \in FileSets /\ e \in FileSets
  BY DEF Formed
<1>2. /\ e.journal = IF f = "journal" THEN v ELSE d.journal
      /\ e.sidecar = IF f = "sidecar" THEN v ELSE d.sidecar
      /\ e.profile = IF f = "profile" THEN v ELSE d.profile
  BY <1>1, AfterWrite
<1>3. /\ b.journal = IF f = "journal" THEN v ELSE m.journal
      /\ b.sidecar = IF f = "sidecar" THEN v ELSE m.sidecar
      /\ b.profile = IF f = "profile" THEN v ELSE m.profile
      /\ b.journal \in Journals /\ b.sidecar \in Sidecars /\ b.profile \in Journals
            => b \in FileSets
  BY <1>1, AfterWrite
<1>4. Formed(e)
  OBVIOUS
<1> HIDE DEF e, b
<1>5. /\ d.journal \in Journals /\ d.sidecar \in Sidecars /\ d.profile \in Journals
      /\ m.journal \in Journals /\ m.sidecar \in Sidecars /\ m.profile \in Journals
      /\ e.journal \in Journals /\ e.sidecar \in Sidecars /\ e.profile \in Journals
  BY <1>1 DEF FileSets
<1>6. b \in FileSets
  BY <1>2, <1>3, <1>5
<1>7. Len(b.journal.entries) <= Slots /\ Len(b.profile.entries) <= Slots
  BY <1>2, <1>3, <1>4 DEF Formed
<1> QED
  BY <1>6, <1>7 DEF Formed, b

\* What is noted of the files again is known already.
LEMMA NotedAgain ==
    ASSUME NEW d \in FileSets, NEW h \in Histories, NEW n, FilesInv(d, h, n)
    PROVE  Noted(h, d) = h
<1>1. Ceremonies(d.journal) \subseteq h.staged
  BY DEF FilesInv, Past
<1>2. d.sidecar.state = "CREDENTIAL_RECORDED" =>
         <<d.sidecar.ceremony, d.sidecar.credential>> \in h.recorded
  BY DEF FilesInv, Current
<1>3. h.staged \cup Ceremonies(d.journal) = h.staged
  BY <1>1
<1>4. h.recorded \cup (IF d.sidecar.state = "CREDENTIAL_RECORDED"
                       THEN {<<d.sidecar.ceremony, d.sidecar.credential>>} ELSE {}) = h.recorded
  BY <1>2
<1> QED
  BY <1>3, <1>4 DEF Noted, Histories

\* A file is written: it stays as the invariant says, and the writes left are
\* legal on what it has become.
LEMMA WriteStep ==
    ASSUME IInv, Write
    PROVE  IInv'
<1>0. /\ Writing /\ up /\ call.op \in Ops /\ call # NoCall /\ ~host.poisoned
      /\ call = [op |-> call.op, todo |-> call.todo]
      /\ disk \in FileSets /\ history \in Histories /\ minted.n \in 0..MaxCeremonies
      /\ FilesInv(disk, history, minted.n) /\ Formed(disk) /\ Formed(host.mem)
      /\ host \in [poisoned : BOOLEAN, reconciled : BOOLEAN, mem : FileSets]
  <2>1. call # NoCall
    BY DEF Write, Writing, NoCall
  <2> QED
    BY <2>1 DEF IInv, Write, Writing, Typed, MemoryInv, FilesInv, Formed
<1>1. PICK w : w = Head(call.todo)
  OBVIOUS
<1>2. PICK e : e = After(disk, w)
  OBVIOUS
<1>3. PICK g : g = Noted(history, e)
  OBVIOUS
<1>4. PICK t : t = Tail(call.todo)
  OBVIOUS
<1>5. /\ Legal(disk, history, minted.n, w)
      /\ \/ /\ call.op = "reconcile" /\ ~coord.reconciled
            /\ ThenFinish(t, e, g, minted.n)
         \/ /\ call.op = "reconcile" /\ ~coord.reconciled
            /\ t = <<>> /\ w.file = "sidecar"
            /\ host.mem.journal = disk.journal /\ host.mem.profile = disk.profile
         \/ /\ call.op \notin {"none", "reconcile"} /\ coord.reconciled
            /\ w.file \in WritesOf(call.op)
            /\ \/ t = <<>>
               \/ OneWrite(t, e, g, minted.n, call.op) /\ Knows(coord, w.file)
  BY <1>0, <1>1, <1>2, <1>3, <1>4, NextWrite
<1>6. PICK m : m = After(host.mem, w)
  OBVIOUS
<1>7. /\ disk' = e /\ history' = g /\ host' = [host EXCEPT !.mem = m]
      /\ call' = [op |-> call.op, todo |-> t]
      /\ UNCHANGED <<up, coord, minted, expired, faults>>
  BY <1>0, <1>1, <1>2, <1>3, <1>4, <1>6 DEF Write, Note, Noted, Changed, After
<1>8. PICK f, v : f \in Files /\ w = Put(f, v)
  BY <1>5, LegalFile
<1>9. /\ w.file = f /\ w.val = v
      /\ e.journal = IF f = "journal" THEN v ELSE disk.journal
      /\ e.sidecar = IF f = "sidecar" THEN v ELSE disk.sidecar
      /\ e.profile = IF f = "profile" THEN v ELSE disk.profile
  BY <1>0, <1>2, <1>8, AfterWrite
<1>10. e \in FileSets /\ FilesInv(e, g, minted.n) /\ g \in Histories
  BY <1>0, <1>2, <1>3, <1>5, FilesKept, NotedHistory
<1>11. Formed(m) /\ m \in FileSets
  <2>1. Formed(e)
    BY <1>10 DEF FilesInv
  <2>2. Formed(m)
    BY <1>0, <1>2, <1>6, <1>8, <2>1, FormedWrite
  <2> QED
    BY <2>2 DEF Formed
<1>12. /\ host'.mem = m /\ host'.poisoned = host.poisoned /\ host'.reconciled = host.reconciled
       /\ host' \in [poisoned : BOOLEAN, reconciled : BOOLEAN, mem : FileSets]
       /\ call'.op = call.op /\ call'.todo = t
  BY <1>0, <1>7, <1>11
<1>13. \/ w.file # "profile" /\ e.profile = disk.profile
       \/ w.file = "profile" /\ e.profile.state = "STAGING"
  BY <1>0, <1>2, <1>5, LegalProfile
<1>14. Typed'
  BY <1>7, <1>10, <1>11, <1>12 DEF IInv, Typed
<1>15. FilesInv(disk, history, minted.n)'
  BY <1>7, <1>10
<1>16. Planned'
  <2>1. CASE call.op = "reconcile" /\ ~coord.reconciled /\ ThenFinish(t, e, g, minted.n)
    BY <1>7, <1>12, <2>1 DEF Planned
  <2>2. CASE /\ call.op = "reconcile" /\ ~coord.reconciled
             /\ t = <<>> /\ w.file = "sidecar"
             /\ host.mem.journal = disk.journal /\ host.mem.profile = disk.profile
    <3>1. m.journal = disk.journal /\ m.profile = disk.profile /\ m.sidecar = v
      BY <1>0, <1>6, <1>8, <1>9, <2>2, AfterWrite
    <3>2. Settling'
      BY <1>7, <1>9, <1>12, <2>2, <3>1 DEF Settling
    <3> QED
      BY <1>7, <1>12, <2>2, <3>2 DEF Planned
  <2>3. CASE /\ call.op \notin {"none", "reconcile"} /\ coord.reconciled
             /\ w.file \in WritesOf(call.op)
             /\ \/ t = <<>>
                \/ OneWrite(t, e, g, minted.n, call.op) /\ Knows(coord, w.file)
    <3>1. disk.profile # NoJournal /\ coord.mem.profile = NoJournal => call.op = "finalize"
      BY <2>3 DEF IInv, Planned
    <3>2. w.file = "profile" => call.op = "finalize"
      BY <1>0, <2>3 DEF WritesOf, Ops
    <3> QED
      BY <1>7, <1>12, <1>13, <2>3, <3>1, <3>2 DEF Planned
  <2> QED
    BY <1>5, <2>1, <2>2, <2>3
<1>17. AuthorizeSays'
  <2> SUFFICES ASSUME call.op = "authorize"
               PROVE  t = <<>> /\ e.sidecar.state = "CREATION_AUTHORIZED"
    BY <1>7, <1>12 DEF AuthorizeSays
  <2>1. PICK x : call.todo = <<x>> /\ Authorizes(disk, x)
    BY <1>0 DEF IInv, AuthorizeSays, Writing
  <2>2. x = w /\ t = <<>>
    BY <1>1, <1>4, <2>1, ShortLists
  <2>3. f = "sidecar" /\ v = [disk.sidecar EXCEPT !.state = "CREATION_AUTHORIZED"]
    BY <1>8, <2>1, <2>2 DEF Authorizes, Put
  <2> QED
    BY <1>0, <1>9, <2>2, <2>3 DEF FileSets, Sidecars
<1>18. MemoryInv'
  <2>1. disk.profile.state # "CORRUPT" => e.profile.state # "CORRUPT"
    BY <1>13
  <2>2. ASSUME coord.reconciled
        PROVE  m = e /\ \A q \in Files : Hides(q)' => Adopting(q)'
    <3>1. host.mem = disk /\ \A q \in Files : Hides(q) => Adopting(q)
      BY <1>0, <2>2 DEF IInv, MemoryInv
    <3>2. \A q \in Files : ~Hides(q)
      BY <1>0, <3>1 DEF Adopting, Writing
    <3>3. f \in WritesOf(call.op) /\ (t = <<>> \/ Knows(coord, f))
      BY <1>5, <1>9, <2>2
    <3>4. ASSUME NEW q \in Files, Hides(q)'
          PROVE  Adopting(q)'
      <4>1. q = f
        <5>1. CASE q = "journal"
          BY <1>7, <1>9, <3>2, <3>4, <5>1 DEF Hides, Files
        <5>2. CASE q = "sidecar"
          BY <1>7, <1>9, <3>2, <3>4, <5>2 DEF Hides, Files
        <5>3. CASE q = "profile"
          BY <1>7, <1>9, <3>2, <3>4, <5>3 DEF Hides, Files
        <5> QED
          BY <5>1, <5>2, <5>3 DEF Files
      <4>2. ~Knows(coord, f)
        <5>1. CASE q = "journal"
          BY <1>7, <3>4, <4>1, <5>1 DEF Hides, Knows
        <5>2. CASE q = "sidecar"
          BY <1>7, <3>4, <4>1, <5>2 DEF Hides, Knows
        <5>3. CASE q = "profile"
          BY <1>7, <3>4, <4>1, <5>3 DEF Hides, Knows
        <5> QED
          BY <5>1, <5>2, <5>3 DEF Files
      <4> QED
        BY <1>12, <3>3, <4>1, <4>2 DEF Adopting
    <3> QED
      BY <1>2, <1>6, <3>1, <3>4
  <2> QED
    BY <1>0, <1>7, <1>12, <2>1, <2>2 DEF IInv, MemoryInv
<1> QED
  BY <1>14, <1>15, <1>16, <1>17, <1>18 DEF IInv

-----------------------------------------------------------------------------
\* What the coordinator's memory says in each of its states.
LEMMA Derived ==
    ASSUME Typed
    PROVE  /\ Derive # "POISONED" => ~coord.poisoned
           /\ Derive = "UNRECONCILED" => ~coord.reconciled
           /\ Derive \notin {"POISONED", "UNRECONCILED"} => coord.reconciled
           /\ Derive = "ORPHAN_CREDENTIAL_BLOCKED" => coord.mem.sidecar.state = "ORPHANED"
           /\ Derive \in CeremonyStates \cup {"READY_STAGING", "READY_FOR_PROFILE_VALIDATION"} =>
                 coord.mem.journal.state = "STAGING" /\ coord.mem.profile = NoJournal
           /\ Derive \in CeremonyStates => coord.mem.sidecar.state = Derive
           /\ Derive = "READY_FOR_PROFILE_VALIDATION" =>
                 Len(coord.mem.journal.entries) = Slots /\ coord.mem.sidecar.state # "ORPHANED"
           /\ Derive = "READY_ABSENT" => coord.mem.journal = NoJournal
<1>1. coord.mem.sidecar.state \in {"ABSENT", "CORRUPT", "ORPHANED"} \cup CeremonyStates
  BY DEF Typed, FileSets, Sidecars
<1>2. CASE coord.poisoned
  <2>1. Derive = "POISONED"
    BY <1>2 DEF Derive
  <2> QED
    BY <2>1 DEF CeremonyStates, Creating
<1>3. CASE ~coord.poisoned /\ ~coord.reconciled
  <2>1. Derive = "UNRECONCILED"
    BY <1>3 DEF Derive
  <2> QED
    BY <1>3, <2>1 DEF CeremonyStates, Creating
<1>4. CASE ~coord.poisoned /\ coord.reconciled
  <2> DEFINE j == coord.mem.journal
             s == coord.mem.sidecar.state
             p == coord.mem.profile
  <2>1. /\ s = "ORPHANED" => Derive = "ORPHAN_CREDENTIAL_BLOCKED"
        /\ s # "ORPHANED" /\ p # NoJournal => Derive = "FINALIZED"
        /\ s # "ORPHANED" /\ p = NoJournal /\ j = NoJournal => Derive = "READY_ABSENT"
        /\ s # "ORPHANED" /\ p = NoJournal /\ j # NoJournal /\ j.state # "STAGING" =>
              Derive = "READY_TERMINAL"
        /\ s # "ORPHANED" /\ p = NoJournal /\ j # NoJournal /\ j.state = "STAGING"
              /\ Len(j.entries) = Slots => Derive = "READY_FOR_PROFILE_VALIDATION"
        /\ s # "ORPHANED" /\ p = NoJournal /\ j # NoJournal /\ j.state = "STAGING"
              /\ Len(j.entries) # Slots /\ s = "ABSENT" => Derive = "READY_STAGING"
        /\ s # "ORPHANED" /\ p = NoJournal /\ j # NoJournal /\ j.state = "STAGING"
              /\ Len(j.entries) # Slots /\ s # "ABSENT" => Derive = s
    BY <1>4 DEF Derive
  <2> HIDE DEF j, s, p
  <2>2. s \in {"ABSENT", "CORRUPT", "ORPHANED", "CREATION_AUTHORIZED", "CREDENTIAL_RECORDED",
               "ACTIVE"}
    BY <1>1 DEF s, CeremonyStates, Creating
  <2>3. \/ s = "ORPHANED" /\ Derive = "ORPHAN_CREDENTIAL_BLOCKED"
        \/ s # "ORPHANED" /\ p # NoJournal /\ Derive = "FINALIZED"
        \/ j = NoJournal /\ Derive = "READY_ABSENT"
        \/ Derive = "READY_TERMINAL"
        \/ /\ s # "ORPHANED" /\ p = NoJournal /\ j.state = "STAGING"
           /\ \/ Len(j.entries) = Slots /\ Derive = "READY_FOR_PROFILE_VALIDATION"
              \/ Derive = "READY_STAGING"
              \/ s # "ABSENT" /\ Derive = s
    BY <2>1
  <2> QED
    BY <1>4, <2>2, <2>3 DEF j, s, p, CeremonyStates, Creating
<1> QED
  BY <1>2, <1>3, <1>4

\* Between methods of a reconciled process, memory is the disk and the
\* coordinator misses nothing.
LEMMA Reconciled ==
    ASSUME IInv, Idle, ~host.poisoned, coord.reconciled
    PROVE  /\ host.mem = disk
           /\ coord.mem.journal = NoJournal => disk.journal = NoJournal
           /\ coord.mem.sidecar = NoSidecar => disk.sidecar = NoSidecar
           /\ coord.mem.profile = NoJournal /\ disk.profile # NoJournal => MayFinalize(coord)
           /\ disk.profile.state # "CORRUPT"
<1>1. up /\ WritesOf(call.op) = {}
  BY DEF Idle, NoCall, WritesOf
<1>2. host.mem = disk /\ disk.profile.state # "CORRUPT" /\ \A f \in Files : ~Hides(f)
  BY <1>1 DEF IInv, MemoryInv, Adopting
<1>3. ~Hides("journal") /\ ~Hides("sidecar") /\ ~Hides("profile")
  BY <1>2 DEF Files
<1> QED
  BY <1>2, <1>3 DEF Hides

\* A method starts: what it will write is legal, and the host's memory stays.
LEMMA RunStep ==
    ASSUME IInv, Idle, ~host.poisoned, coord.reconciled,
           NEW op \in Ops \ {"none", "reconcile"}, NEW t,
           Run(op, t, disk.sidecar),
           minted' \in [n : 0..MaxCeremonies, intent : Intents \cup {None}, late : BOOLEAN],
           FilesInv(disk, history, minted'.n),
           \/ t = <<>>
           \/ OneWrite(t, disk, history, minted'.n, op)
           \/ TwoWrites(t, disk, history, minted'.n, op, coord),
           disk.profile # NoJournal /\ coord.mem.profile = NoJournal => op = "finalize",
           op = "authorize" => \E w : t = <<w>> /\ Authorizes(disk, w)
    PROVE  IInv'
<1>0. host.mem = disk /\ call = NoCall /\ up /\ disk \in FileSets
      /\ disk.profile.state # "CORRUPT"
  BY Reconciled DEF Idle, IInv, FilesInv, Formed
<1>1. host' = host
  <2>1. [host.mem EXCEPT !.sidecar = disk.sidecar] = host.mem
    BY <1>0 DEF FileSets
  <2>2. host' = [host EXCEPT !.mem = [host.mem EXCEPT !.sidecar = disk.sidecar]]
    BY DEF Run
  <2> QED
    BY <2>1, <2>2 DEF IInv, Typed
<1>2. /\ call' = [op |-> op, todo |-> t]
      /\ UNCHANGED <<disk, up, coord, expired, history, faults>>
  BY DEF Run
<1>3. call'.op = op /\ call'.todo = t /\ op \in Ops /\ op # "none" /\ op # "reconcile"
  BY <1>2
<1>4. Typed'
  BY <1>1, <1>2, <1>3 DEF IInv, Typed
<1>5. FilesInv(disk, history, minted.n)'
  BY <1>2
<1>6. Planned'
  BY <1>2, <1>3 DEF Planned
<1>7. AuthorizeSays'
  BY <1>2, <1>3 DEF AuthorizeSays
<1>8. MemoryInv'
  <2>1. \A f \in Files : ~Hides(f)
    <3>1. WritesOf(call.op) = {}
      BY <1>0 DEF NoCall, WritesOf
    <3> QED
      BY <1>0, <3>1 DEF IInv, MemoryInv, Adopting
  <2>2. \A f \in Files : ~Hides(f)'
    BY <1>2, <2>1 DEF Hides
  <2>3. coord.poisoned => host.poisoned
    BY DEF IInv, MemoryInv
  <2> QED
    BY <1>0, <1>1, <1>2, <1>3, <2>2, <2>3 DEF MemoryInv
<1> QED
  BY <1>4, <1>5, <1>6, <1>7, <1>8 DEF IInv

\* Both layers take a method that is not the reconciliation.
LEMMA ReadyMeans ==
    ASSUME IInv, NEW states, Ready(states), "POISONED" \notin states,
           "UNRECONCILED" \notin states
    PROVE  /\ Idle /\ ~host.poisoned /\ coord.reconciled
           /\ Derive \in states
           /\ host.mem = disk
<1>1. Idle /\ ~host.poisoned /\ Derive \in states
  BY DEF Ready
<1>2. coord.reconciled
  BY <1>1, Derived DEF IInv
<1> QED
  BY <1>1, <1>2, Reconciled

\* createJournal writes a journal where there is none.
LEMMA CreateStep ==
    ASSUME IInv, NEW i \in Intents, CreateJournal(i)
    PROVE  IInv'
<1>1. Idle /\ ~host.poisoned /\ coord.reconciled /\ host.mem = disk
  BY ReadyMeans DEF CreateJournal
<1> DEFINE w == Put("journal", Journal("STAGING", i, <<>>))
<1>2. w.file = "journal" /\ CreatesJournal(disk, w) /\ disk.profile = NoJournal
  BY <1>1 DEF CreateJournal, NotFinalized, CreatesJournal, Put
<1>3. Run("create", <<w>>, disk.sidecar) /\ minted' = minted
  BY <1>1 DEF CreateJournal
<1> HIDE DEF w
<1>4. "journal" \in WritesOf("create") /\ "create" \in Ops \ {"none", "reconcile"}
  BY DEF WritesOf, Ops
<1>5. OneWrite(<<w>>, disk, history, minted'.n, "create")
  BY <1>2, <1>3, <1>4 DEF OneWrite, Legal
<1> QED
  BY <1>1, <1>2, <1>3, <1>4, <1>5, RunStep DEF IInv, Typed

\* beginRole mints a ceremony nobody has heard of.
LEMMA BeginStep ==
    ASSUME IInv, BeginRole
    PROVE  IInv'
<1>1. Idle /\ ~host.poisoned /\ coord.reconciled /\ host.mem = disk
  BY ReadyMeans DEF BeginRole
<1>2. /\ minted \in [n : 0..MaxCeremonies, intent : Intents \cup {None}, late : BOOLEAN]
      /\ disk.journal \in Journals /\ FilesInv(disk, history, minted.n)
  BY DEF IInv, Typed, FilesInv, Formed, FileSets
<1>3. PICK n : n = minted.n + 1
  OBVIOUS
<1>4. PICK r : r = Len(disk.journal.entries) + 1
  OBVIOUS
<1>5. n \in 1..MaxCeremonies /\ n \notin 1..minted.n /\ 1..minted.n \subseteq 1..n
  BY <1>2, <1>3 DEF BeginRole
<1>6. r \in 1..Slots
  <2>1. Len(disk.journal.entries) \in Nat
    BY <1>2 DEF Journals
  <2> QED
    BY <1>1, <1>4, <2>1 DEF BeginRole
<1> DEFINE w == Put("sidecar", [NoSidecar EXCEPT !.state = "ACTIVE", !.intent = disk.journal.intent,
                                                 !.role = r, !.ceremony = n])
<1>7. w.file = "sidecar"
  BY DEF Put
<1>8. disk.sidecar = NoSidecar /\ disk.profile = NoJournal
  BY <1>1 DEF BeginRole, HostStages, NotFinalized
<1>9. BeginsCeremony(disk, history, n, w)
  <2>1. n \notin Ceremonies(disk.journal) \cup history.cancelled
    BY <1>2, <1>5 DEF FilesInv, Past
  <2>2. disk.journal.intent \in Intents \cup {None}
    BY <1>2 DEF Journals
  <2> QED
    BY <1>5, <1>6, <1>8, <2>1, <2>2 DEF BeginsCeremony
<1>10. /\ Run("begin", <<w>>, disk.sidecar)
       /\ minted' = [n |-> n, intent |-> disk.journal.intent, late |-> FALSE]
  BY <1>1, <1>3, <1>4 DEF BeginRole
<1> HIDE DEF w
<1>11. /\ minted'.n = n
       /\ minted' \in [n : 0..MaxCeremonies, intent : Intents \cup {None}, late : BOOLEAN]
  BY <1>2, <1>5, <1>10 DEF Journals
<1>12. FilesInv(disk, history, n)
  <2>1. Current(disk, history, n)
    BY <1>8, EmptyFiles DEF Current, CeremonyStates, Creating
  <2>2. Past(disk, history, n)
    BY <1>2, <1>5 DEF FilesInv, Past
  <2> QED
    BY <1>2, <2>1, <2>2 DEF FilesInv
<1>13. "sidecar" \in WritesOf("begin") /\ "begin" \in Ops \ {"none", "reconcile"}
  BY DEF WritesOf, Ops
<1>14. OneWrite(<<w>>, disk, history, minted'.n, "begin")
  BY <1>7, <1>9, <1>11, <1>13 DEF OneWrite, Legal
<1> QED
  BY <1>1, <1>8, <1>10, <1>11, <1>12, <1>13, <1>14, RunStep

\* authorizeCredentialCreation and recordCreatedCredential move the obligation
\* on.
LEMMA ObligationStep ==
    ASSUME IInv, AuthorizeCredentialCreation \/ \E c \in Credentials : RecordCreatedCredential(c)
    PROVE  IInv'
<1>1. CASE AuthorizeCredentialCreation
  <2>1. Idle /\ ~host.poisoned /\ coord.reconciled /\ host.mem = disk
    BY <1>1, ReadyMeans DEF AuthorizeCredentialCreation
  <2> DEFINE w == Put("sidecar", [disk.sidecar EXCEPT !.state = "CREATION_AUTHORIZED"])
  <2>2. w.file = "sidecar" /\ Authorizes(disk, w) /\ disk.profile = NoJournal
    BY <1>1, <2>1 DEF AuthorizeCredentialCreation, Named, HostStages, NotFinalized, Authorizes, Put
  <2>3. Run("authorize", <<w>>, disk.sidecar) /\ minted' = minted
    BY <1>1, <2>1 DEF AuthorizeCredentialCreation
  <2> HIDE DEF w
  <2>4. "sidecar" \in WritesOf("authorize") /\ "authorize" \in Ops \ {"none", "reconcile"}
    BY DEF WritesOf, Ops
  <2>5. OneWrite(<<w>>, disk, history, minted'.n, "authorize")
    BY <2>2, <2>3, <2>4 DEF OneWrite, Legal
  <2> QED
    BY <2>1, <2>2, <2>3, <2>4, <2>5, RunStep DEF IInv, Typed
<1>2. ASSUME NEW c \in Credentials, RecordCreatedCredential(c)
      PROVE  IInv'
  <2>1. Idle /\ ~host.poisoned /\ coord.reconciled /\ host.mem = disk
    BY <1>2, ReadyMeans DEF RecordCreatedCredential
  <2> DEFINE w == Put("sidecar", [disk.sidecar EXCEPT !.state = "CREDENTIAL_RECORDED",
                                                      !.credential = c])
  <2>2. w.file = "sidecar" /\ Records(disk, w) /\ disk.profile = NoJournal
    BY <1>2, <2>1 DEF RecordCreatedCredential, Named, NotFinalized, Records, Put
  <2>3. Run("record", <<w>>, disk.sidecar) /\ minted' = minted
    BY <1>2, <2>1 DEF RecordCreatedCredential
  <2> HIDE DEF w
  <2>4. "sidecar" \in WritesOf("record") /\ "record" \in Ops \ {"none", "reconcile"}
    BY DEF WritesOf, Ops
  <2>5. OneWrite(<<w>>, disk, history, minted'.n, "record")
    BY <2>2, <2>3, <2>4 DEF OneWrite, Legal
  <2> QED
    BY <2>1, <2>2, <2>3, <2>4, <2>5, RunStep DEF IInv, Typed
<1> QED
  BY <1>1, <1>2

\* The obligation ends first, if there is one to end.
LEMMA FirstWrites ==
    ASSUME NEW d, NEW h, NEW n
    PROVE  \/ SidecarFirst(d.sidecar) = <<>>
           \/ \E w : /\ SidecarFirst(d.sidecar) = <<w>>
                     /\ w.file = "sidecar" /\ Legal(d, h, n, w) /\ d.sidecar # NoSidecar
<1>1. CASE d.sidecar.state = "ACTIVE"
  <2>1. SidecarFirst(d.sidecar) = <<Drop("sidecar")>>
    BY <1>1 DEF SidecarFirst, Creating
  <2>2. DropsSidecar(d, Drop("sidecar")) /\ Drop("sidecar").file = "sidecar"
    BY <1>1 DEF DropsSidecar, Drop, Put
  <2> QED
    BY <1>1, <2>1, <2>2, EmptyFiles DEF Legal
<1>2. CASE d.sidecar.state \in Creating
  <2> DEFINE w == Put("sidecar", Orphaned(d.sidecar))
  <2>1. SidecarFirst(d.sidecar) = <<w>>
    BY <1>2 DEF SidecarFirst, Creating
  <2>2. Orphans(d, w) /\ w.file = "sidecar"
    BY <1>2 DEF Orphans, Put
  <2> HIDE DEF w
  <2> QED
    BY <1>2, <2>1, <2>2, EmptyFiles DEF Legal, Creating
<1>3. CASE d.sidecar.state # "ACTIVE" /\ d.sidecar.state \notin Creating
  BY <1>3 DEF SidecarFirst
<1> QED
  BY <1>1, <1>2, <1>3

\* A write to the sidecar leaves the journal to be ended.
LEMMA ThenEnds ==
    ASSUME NEW d \in FileSets, NEW h, NEW n, NEW w, Legal(d, h, n, w), w.file = "sidecar",
           NEW x, EndsJournal(d, x)
    PROVE  EndsJournal(After(d, w), x)
<1>1. PICK f, v : f \in Files /\ w = Put(f, v)
  BY LegalFile
<1>2. After(d, w).journal = d.journal /\ After(d, w).profile = d.profile
  BY <1>1, AfterWrite
<1> QED
  BY <1>2 DEF EndsJournal

\* cancelRoleCeremony, and status when the ceremony is overdue.
LEMMA CancelRoleStep ==
    ASSUME IInv, CancelRoleCeremony \/ StatusEndsCeremony
    PROVE  IInv'
<1>1. /\ Idle /\ ~host.poisoned /\ coord.reconciled /\ host.mem = disk
      /\ Named(CeremonyStates \cup {"ORPHANED"}) /\ CancelObligation /\ minted' = minted
  <2>1. CASE CancelRoleCeremony
    <3>1. /\ "POISONED" \notin CeremonyStates \cup {"ORPHAN_CREDENTIAL_BLOCKED"}
          /\ "UNRECONCILED" \notin CeremonyStates \cup {"ORPHAN_CREDENTIAL_BLOCKED"}
      BY DEF CeremonyStates, Creating
    <3> QED
      BY <2>1, <3>1, ReadyMeans DEF CancelRoleCeremony
  <2>2. CASE StatusEndsCeremony
    <3>1. coord.reconciled
      BY <2>2, EmptyFiles DEF StatusEndsCeremony, IInv, MemoryInv
    <3> QED
      BY <2>2, <3>1, Reconciled DEF StatusEndsCeremony
  <2> QED
    BY <2>1, <2>2
<1>2. disk \in FileSets /\ FilesInv(disk, history, minted.n)
  BY DEF IInv, FilesInv, Formed
<1>3. disk.profile = NoJournal
  <2>1. disk.sidecar.state # "ABSENT"
    BY <1>1 DEF Named, CeremonyStates, Creating
  <2>2. disk.profile.state # "STAGING"
    BY <1>2, <2>1, EmptyFiles DEF FilesInv, Final
  <2>3. disk.profile.state # "CORRUPT"
    BY <1>1, Reconciled
  <2> QED
    BY <1>2, <2>2, <2>3 DEF FilesInv, Plain
<1>4. PICK t : t = SidecarFirst(disk.sidecar)
  OBVIOUS
<1>5. Run("cancelRole", t, disk.sidecar)
  BY <1>1, <1>4 DEF CancelObligation, Seen
<1>6. "sidecar" \in WritesOf("cancelRole") /\ "cancelRole" \in Ops \ {"none", "reconcile"}
  BY DEF WritesOf, Ops
<1>7. t = <<>> \/ OneWrite(t, disk, history, minted'.n, "cancelRole")
  BY <1>1, <1>4, <1>6, FirstWrites DEF OneWrite
<1> QED
  BY <1>1, <1>2, <1>3, <1>5, <1>6, <1>7, RunStep DEF IInv, Typed

\* cancelEnrollment ends the obligation, then the journal.
LEMMA CancelStep ==
    ASSUME IInv, CancelEnrollment
    PROVE  IInv'
<1>1. Idle /\ ~host.poisoned /\ coord.reconciled /\ host.mem = disk
  <2> DEFINE states == CeremonyStates \cup {"READY_STAGING", "ORPHAN_CREDENTIAL_BLOCKED",
                                            "READY_FOR_PROFILE_VALIDATION"}
  <2>1. "POISONED" \notin states /\ "UNRECONCILED" \notin states
    BY DEF CeremonyStates, Creating
  <2> QED
    BY <2>1, ReadyMeans DEF CancelEnrollment
<1>2. disk \in FileSets /\ FilesInv(disk, history, minted.n)
  BY DEF IInv, FilesInv, Formed
<1>3. disk.profile = NoJournal /\ disk.journal.state = "STAGING"
  BY <1>1 DEF CancelEnrollment, HostStages, NotFinalized
<1>4. PICK a : a = SidecarFirst(disk.sidecar)
  OBVIOUS
<1>5. PICK x : /\ Run("cancel", Append(a, x), disk.sidecar)
               /\ EndsJournal(disk, x) /\ x.file = "journal"
  <2> DEFINE to == IF Overdue(disk.journal) THEN "EXPIRED" ELSE "CANCELLED"
             y == Put("journal", Ended(disk.journal, to))
  <2>1. to \in {"EXPIRED", "CANCELLED"}
    OBVIOUS
  <2>2. EndsJournal(disk, y)
    BY <1>3, <2>1 DEF EndsJournal
  <2>3. y.file = "journal"
    BY DEF Put
  <2>4. Run("cancel", Append(a, y), disk.sidecar)
    BY <1>1, <1>4 DEF CancelEnrollment, Seen
  <2> QED
    BY <2>2, <2>3, <2>4
<1>6. /\ "sidecar" \in WritesOf("cancel") /\ "journal" \in WritesOf("cancel")
      /\ "cancel" \in Ops \ {"none", "reconcile"}
  BY DEF WritesOf, Ops
<1>7. minted' = minted
  BY DEF CancelEnrollment
<1>8. CASE a = <<>>
  <2>1. Append(a, x) = <<x>>
    BY <1>8, JoinedLists
  <2>2. OneWrite(<<x>>, disk, history, minted'.n, "cancel")
    BY <1>5, <1>6, <1>7 DEF OneWrite, Legal
  <2> QED
    BY <1>1, <1>2, <1>3, <1>5, <1>6, <1>7, <2>1, <2>2, RunStep DEF IInv, Typed
<1>9. CASE a # <<>>
  <2>1. PICK w : /\ a = <<w>> /\ w.file = "sidecar" /\ Legal(disk, history, minted.n, w)
                 /\ disk.sidecar # NoSidecar
    <3>1. \/ SidecarFirst(disk.sidecar) = <<>>
          \/ \E w : /\ SidecarFirst(disk.sidecar) = <<w>>
                    /\ w.file = "sidecar" /\ Legal(disk, history, minted.n, w)
                    /\ disk.sidecar # NoSidecar
      BY FirstWrites
    <3> QED
      BY <1>4, <1>9, <3>1
  <2>2. Append(a, x) = <<w, x>>
    BY <2>1, JoinedLists
  <2>3. Knows(coord, "sidecar")
    BY <1>1, <2>1, Reconciled DEF Knows
  <2>4. EndsJournal(After(disk, w), x)
    BY <1>2, <1>5, <2>1, ThenEnds
  <2>5. TwoWrites(<<w, x>>, disk, history, minted'.n, "cancel", coord)
    BY <1>5, <1>6, <1>7, <2>1, <2>3, <2>4 DEF TwoWrites, Legal
  <2> QED
    BY <1>1, <1>2, <1>3, <1>5, <1>6, <1>7, <2>2, <2>5, RunStep DEF IInv, Typed
<1> QED
  BY <1>8, <1>9

\* acknowledgeTerminal removes a journal that has ended.
LEMMA AcknowledgeStep ==
    ASSUME IInv, AcknowledgeTerminal
    PROVE  IInv'
<1>1. /\ Idle /\ ~host.poisoned /\ coord.reconciled /\ host.mem = disk
      /\ Derive \in {"READY_TERMINAL", "FINALIZED"}
  BY ReadyMeans DEF AcknowledgeTerminal
<1>2. DropsJournal(disk, Drop("journal")) /\ Drop("journal").file = "journal"
  BY <1>1 DEF AcknowledgeTerminal, DropsJournal, Drop, Put
<1>3. Run("acknowledge", <<Drop("journal")>>, disk.sidecar) /\ minted' = minted
  BY DEF AcknowledgeTerminal
<1>4. disk.profile # NoJournal /\ coord.mem.profile = NoJournal => FALSE
  <2> SUFFICES ASSUME disk.profile # NoJournal, coord.mem.profile = NoJournal
               PROVE  FALSE
    OBVIOUS
  <2>1. MayFinalize(coord)
    BY <1>1, Reconciled
  <2>2. coord.mem.journal # NoJournal
    BY <2>1, EmptyFiles DEF MayFinalize
  <2>3. ~coord.poisoned
    BY <1>1, Derived DEF IInv
  <2> QED
    BY <1>1, <2>1, <2>2, <2>3 DEF MayFinalize, Derive
<1>5. "journal" \in WritesOf("acknowledge") /\ "acknowledge" \in Ops \ {"none", "reconcile"}
  BY DEF WritesOf, Ops
<1>6. OneWrite(<<Drop("journal")>>, disk, history, minted'.n, "acknowledge")
  BY <1>2, <1>3, <1>5 DEF OneWrite, Legal
<1> QED
  BY <1>1, <1>3, <1>4, <1>5, <1>6, RunStep DEF IInv, Typed

\* finalizeProfile publishes the profile, then supersedes the journal.
LEMMA FinalizeStep ==
    ASSUME IInv, FinalizeProfile
    PROVE  IInv'
<1>1. /\ Idle /\ ~host.poisoned /\ coord.reconciled /\ host.mem = disk
      /\ Derive = "READY_FOR_PROFILE_VALIDATION"
  BY ReadyMeans DEF FinalizeProfile
<1>2. disk \in FileSets /\ FilesInv(disk, history, minted.n)
  BY DEF IInv, FilesInv, Formed
<1>3. disk.sidecar = NoSidecar /\ minted' = minted
  BY DEF FinalizeProfile
<1>4. Knows(coord, "profile")
  BY <1>1, Derived DEF FinalizeProfile, Knows, MayFinalize, IInv
<1>5. /\ "profile" \in WritesOf("finalize") /\ "journal" \in WritesOf("finalize")
      /\ "finalize" \in Ops \ {"none", "reconcile"}
  BY DEF WritesOf, Ops
<1>6. PICK x : x = Put("journal", Ended(disk.journal, "SUPERSEDED"))
  OBVIOUS
<1>7. x.file = "journal"
  BY <1>6 DEF Put
<1>8. CASE disk.profile # NoJournal
  <2>1. Supersedes(disk, x) /\ Run("finalize", <<x>>, disk.sidecar)
    BY <1>1, <1>3, <1>6, <1>8 DEF FinalizeProfile, Supersedes
  <2>2. OneWrite(<<x>>, disk, history, minted'.n, "finalize")
    BY <1>3, <1>5, <1>7, <2>1 DEF OneWrite, Legal
  <2> QED
    BY <1>1, <1>2, <1>3, <1>5, <2>1, <2>2, RunStep DEF IInv, Typed
<1>9. CASE disk.profile = NoJournal
  <2>1. PICK w : w = Put("profile", disk.journal)
    OBVIOUS
  <2>2. w.file = "profile"
    BY <2>1 DEF Put
  <2>3. Publishes(disk, w)
    BY <1>1, <1>3, <1>9, <2>1 DEF FinalizeProfile, HostStages, Publishes
  <2>4. Run("finalize", <<w>> \o <<x>>, disk.sidecar)
    BY <1>1, <1>3, <1>6, <1>9, <2>1 DEF FinalizeProfile
  <2>5. Run("finalize", <<w, x>>, disk.sidecar)
    BY <2>4, JoinedLists
  <2>6. Supersedes(After(disk, w), x)
    <3>1. After(disk, w).journal = disk.journal /\ After(disk, w).profile = disk.journal
      BY <1>2, <2>1, AfterWrite DEF Files
    <3>2. disk.journal # NoJournal
      BY <2>3, EmptyFiles DEF Publishes
    <3> QED
      BY <1>6, <3>1, <3>2 DEF Supersedes
  <2>7. TwoWrites(<<w, x>>, disk, history, minted'.n, "finalize", coord)
    BY <1>3, <1>4, <1>5, <1>7, <2>2, <2>3, <2>6 DEF TwoWrites, Legal
  <2> QED
    BY <1>1, <1>2, <1>3, <1>5, <2>5, <2>7, RunStep DEF IInv, Typed
<1> QED
  BY <1>8, <1>9

\* stageRole: the journal takes the credential and the obligation is dropped,
\* or an overdue intent ends both.
LEMMA StageStep ==
    ASSUME IInv, NEW c \in Credentials, StageRole(c)
    PROVE  IInv'
<1>1. /\ Idle /\ ~host.poisoned /\ coord.reconciled /\ host.mem = disk
      /\ Derive = "CREDENTIAL_RECORDED"
  BY ReadyMeans DEF StageRole
<1>2. disk \in FileSets /\ FilesInv(disk, history, minted.n)
      /\ disk.journal \in Journals /\ disk.sidecar \in Sidecars
  BY DEF IInv, FilesInv, Formed, FileSets
<1>3. /\ disk.profile = NoJournal /\ disk.journal.state = "STAGING"
      /\ disk.sidecar.state = "CREDENTIAL_RECORDED" /\ minted' = minted
  BY <1>1 DEF StageRole, HostStages, NotFinalized, Named
<1>4. Knows(coord, "journal") /\ Knows(coord, "sidecar")
  BY <1>1, Derived, EmptyFiles DEF Knows, IInv, CeremonyStates, Creating
<1>5. /\ "sidecar" \in WritesOf("stage") /\ "journal" \in WritesOf("stage")
      /\ "stage" \in Ops \ {"none", "reconcile"}
  BY DEF WritesOf, Ops
<1>6. CASE Overdue(disk.journal)
  <2>1. PICK w : w = Put("sidecar", Orphaned(disk.sidecar))
    OBVIOUS
  <2>2. PICK x : x = Put("journal", Ended(disk.journal, "EXPIRED"))
    OBVIOUS
  <2>3. w.file = "sidecar" /\ x.file = "journal"
    BY <2>1, <2>2 DEF Put
  <2>4. Run("stage", <<w, x>>, disk.sidecar)
    BY <1>1, <1>6, <2>1, <2>2 DEF StageRole
  <2>5. Legal(disk, history, minted.n, w)
    BY <1>3, <2>1 DEF Legal, Orphans, Creating
  <2>6. EndsJournal(disk, x)
    BY <1>3, <2>2 DEF EndsJournal
  <2>7. EndsJournal(After(disk, w), x)
    BY <1>2, <2>3, <2>5, <2>6, ThenEnds
  <2>8. TwoWrites(<<w, x>>, disk, history, minted'.n, "stage", coord)
    BY <1>3, <1>4, <1>5, <2>3, <2>5, <2>7 DEF TwoWrites, Legal
  <2> QED
    BY <1>1, <1>2, <1>3, <1>5, <2>4, <2>8, RunStep DEF IInv, Typed
<1>7. CASE ~Overdue(disk.journal)
  <2>1. PICK entry : entry = [ceremony |-> disk.sidecar.ceremony,
                              credential |-> disk.sidecar.credential]
    OBVIOUS
  <2>2. PICK j : j = [disk.journal EXCEPT !.entries = Append(@, entry)]
    OBVIOUS
  <2>3. PICK w : w = Put("journal", j)
    OBVIOUS
  <2>4. /\ disk.sidecar.credential = c /\ disk.sidecar.role = Len(disk.journal.entries) + 1
        /\ \A k \in 1..Len(disk.journal.entries) : disk.journal.entries[k].credential # c
    BY <1>1, <1>7 DEF StageRole, Accepts, Verified
  <2>5. Run("stage", <<w, Drop("sidecar")>>, disk.sidecar)
    BY <1>1, <1>7, <2>1, <2>2, <2>3, <2>4 DEF StageRole
  <2>6. Appends(disk, w) /\ w.file = "journal"
    BY <1>3, <2>1, <2>2, <2>3, <2>4 DEF Appends, Put
  <2>7. DropsSidecar(After(disk, w), Drop("sidecar")) /\ Drop("sidecar").file = "sidecar"
    <3>1. After(disk, w).journal = j /\ After(disk, w).sidecar = disk.sidecar
      BY <1>2, <2>3, AfterWrite DEF Files
    <3>2. disk.sidecar.ceremony \in Ceremonies(j)
      <4>1. disk.journal.entries \in Seq(Entries)
        BY <1>2 DEF Journals
      <4>2. PICK n : n = Len(disk.journal.entries)
        OBVIOUS
      <4>3. PICK u : u = Append(disk.journal.entries, entry)
        OBVIOUS
      <4>4. Len(u) = n + 1 /\ u[n + 1] = entry /\ n \in Nat
        BY <4>1, <4>2, <4>3
      <4>5. j.entries = u
        BY <1>2, <2>2, <4>3 DEF Journals
      <4>6. n + 1 \in 1..Len(u) /\ u[n + 1].ceremony = disk.sidecar.ceremony
        BY <2>1, <4>4
      <4> QED
        BY <4>5, <4>6 DEF Ceremonies
    <3> QED
      BY <1>3, <3>1, <3>2 DEF DropsSidecar, Creating, Drop, Put
  <2>8. TwoWrites(<<w, Drop("sidecar")>>, disk, history, minted'.n, "stage", coord)
    BY <1>3, <1>4, <1>5, <2>6, <2>7 DEF TwoWrites, Legal
  <2> QED
    BY <1>1, <1>2, <1>3, <1>5, <2>5, <2>8, RunStep DEF IInv, Typed
<1> QED
  BY <1>6, <1>7

-----------------------------------------------------------------------------
\* A root that is poisoned runs no method, and its files stay.
LEMMA PoisonStep ==
    ASSUME IInv, Poison, UNCHANGED <<disk, up, minted, expired, history, faults>>
    PROVE  IInv'
<1>1. /\ host'.poisoned = TRUE /\ host'.mem = host.mem
      /\ host' \in [poisoned : BOOLEAN, reconciled : BOOLEAN, mem : FileSets]
  BY DEF IInv, Typed, Poison
<1>2. /\ coord'.poisoned = TRUE /\ coord'.mem = coord.mem
      /\ coord'.reconciled = coord.reconciled
      /\ coord' \in [poisoned : BOOLEAN, reconciled : BOOLEAN, mem : FileSets,
                     ceremony : 0..MaxCeremonies]
  BY DEF IInv, Typed, Poison
<1>3. call' = NoCall /\ call'.op = "none" /\ call'.todo = <<>>
  BY DEF Poison, NoCall
<1>4. Typed'
  BY <1>1, <1>2, <1>3 DEF IInv, Typed, Ops, NoCall
<1>5. Planned' /\ AuthorizeSays'
  BY <1>3 DEF Planned, AuthorizeSays
<1>6. MemoryInv'
  <2>1. up /\ coord.reconciled => disk.profile.state # "CORRUPT"
    BY DEF IInv, MemoryInv
  <2> QED
    BY <1>1, <1>2, <1>3, <2>1 DEF IInv, MemoryInv
<1>7. FilesInv(disk, history, minted.n)'
  BY DEF IInv
<1> QED
  BY <1>4, <1>5, <1>6, <1>7 DEF IInv

\* What a restart resolves before it looks at the obligation is legal.
LEMMA ResolveWrites ==
    ASSUME IInv, ~Conflict(disk.journal, disk.profile)
    PROVE  ThenFinish(Append(Resolve(disk.journal, disk.profile), FinishStep), disk, history,
                      minted.n)
<1> DEFINE j == disk.journal
           p == disk.profile
<1>0. disk \in FileSets /\ p.state # "CORRUPT"
  BY DEF IInv, FilesInv, Formed, Conflict
<1>1. CASE p # NoJournal /\ j = p
  <2>1. PICK w : w = Put("journal", Ended(p, "SUPERSEDED"))
    OBVIOUS
  <2>2. Resolve(j, p) = <<w>>
    BY <1>0, <1>1, <2>1 DEF Resolve
  <2>3. Supersedes(disk, w)
    BY <1>1, <2>1 DEF Supersedes
  <2>4. Append(<<w>>, FinishStep) = <<w, FinishStep>>
    BY JoinedLists
  <2> QED
    BY <2>2, <2>3, <2>4 DEF ThenFinish, Legal
<1>2. CASE ~(p # NoJournal /\ j = p) /\ j.state = "CORRUPT"
  <2>1. PICK w : w = Drop("journal")
    OBVIOUS
  <2>2. Resolve(j, p) = <<w>>
    BY <1>2, <2>1 DEF Resolve, Overdue
  <2>3. DropsJournal(disk, w)
    BY <1>2, <2>1 DEF DropsJournal
  <2>4. Append(<<w>>, FinishStep) = <<w, FinishStep>>
    BY JoinedLists
  <2> QED
    BY <2>2, <2>3, <2>4 DEF ThenFinish, Legal
<1>3. CASE p = NoJournal /\ Overdue(j)
  <2>1. PICK x : x = Put("journal", Ended(j, "EXPIRED"))
    OBVIOUS
  <2>2. PICK a : a = SidecarFirst(disk.sidecar)
    OBVIOUS
  <2>3. Resolve(j, p) = Append(a, x)
    BY <1>3, <2>1, <2>2 DEF Resolve, Overdue
  <2>4. EndsJournal(disk, x)
    BY <1>3, <2>1 DEF EndsJournal, Overdue
  <2>5. CASE a = <<>>
    <3>1. Append(Append(a, x), FinishStep) = <<x, FinishStep>>
      BY <2>5, JoinedLists
    <3> QED
      BY <2>3, <2>4, <3>1 DEF ThenFinish, Legal
  <2>6. CASE a # <<>>
    <3>1. \/ SidecarFirst(disk.sidecar) = <<>>
          \/ \E w : /\ SidecarFirst(disk.sidecar) = <<w>>
                    /\ w.file = "sidecar" /\ Legal(disk, history, minted.n, w)
                    /\ disk.sidecar # NoSidecar
      BY FirstWrites
    <3>2. PICK w : a = <<w>> /\ w.file = "sidecar" /\ Legal(disk, history, minted.n, w)
      BY <2>2, <2>6, <3>1
    <3>3. Append(Append(a, x), FinishStep) = <<w, x, FinishStep>>
      <4>1. Append(a, x) = <<w, x>>
        BY <3>2, JoinedLists
      <4> QED
        BY <4>1, JoinedLists
    <3>4. EndsJournal(After(disk, w), x)
      BY <1>0, <2>4, <3>2, ThenEnds
    <3>5. Legal(After(disk, w), Noted(history, After(disk, w)), minted.n, x)
      BY <3>4 DEF Legal
    <3> QED
      BY <2>3, <3>2, <3>3, <3>5 DEF ThenFinish
  <2> QED
    BY <2>5, <2>6
<1>4. CASE ~(p # NoJournal /\ j = p) /\ j.state # "CORRUPT" /\ ~(p = NoJournal /\ Overdue(j))
  <2>1. Resolve(j, p) = <<>>
    BY <1>4 DEF Resolve
  <2> QED
    BY <2>1, JoinedLists DEF ThenFinish
<1> QED
  BY <1>1, <1>2, <1>3, <1>4

\* reconcileRestart begins: the root is poisoned or the restart resolves it.
LEMMA ReconcileStep ==
    ASSUME IInv, ReconcileRestart
    PROVE  IInv'
<1>0. /\ up /\ call = NoCall /\ ~host.poisoned /\ ~coord.reconciled /\ ~coord.poisoned
      /\ minted' = minted
  BY Derived DEF ReconcileRestart, Ready, Idle, IInv
<1>1. CASE Poison /\ UNCHANGED <<disk, up, expired, history, faults>>
  BY <1>0, <1>1, PoisonStep
<1>2. CASE /\ ~Conflict(disk.journal, disk.profile)
           /\ Run("reconcile", Append(Resolve(disk.journal, disk.profile), FinishStep),
                  host.mem.sidecar)
  <2>1. PICK t : t = Append(Resolve(disk.journal, disk.profile), FinishStep)
    OBVIOUS
  <2>2. ThenFinish(t, disk, history, minted.n)
    BY <1>2, <2>1, ResolveWrites
  <2>3. host' = host
    <3>1. [host.mem EXCEPT !.sidecar = host.mem.sidecar] = host.mem
      BY DEF IInv, Typed, FileSets
    <3>2. host' = [host EXCEPT !.mem = [host.mem EXCEPT !.sidecar = host.mem.sidecar]]
      BY <1>2 DEF Run
    <3> QED
      BY <3>1, <3>2 DEF IInv, Typed
  <2>4. /\ call' = [op |-> "reconcile", todo |-> t]
        /\ UNCHANGED <<disk, up, coord, expired, history, faults>>
    BY <1>2, <2>1 DEF Run
  <2>5. call'.op = "reconcile" /\ call'.todo = t
    BY <2>4
  <2>6. Typed'
    BY <1>0, <2>3, <2>4, <2>5 DEF IInv, Typed, Ops
  <2>7. Planned' /\ AuthorizeSays'
    BY <1>0, <2>2, <2>4, <2>5 DEF Planned, AuthorizeSays
  <2>8. disk.profile.state # "CORRUPT"
    BY <1>2 DEF Conflict
  <2>9. MemoryInv'
    BY <1>0, <2>3, <2>4, <2>8 DEF IInv, MemoryInv
  <2> QED
    BY <1>0, <2>4, <2>6, <2>7, <2>9 DEF IInv
<1> QED
  BY <1>1, <1>2 DEF ReconcileRestart

\* What a restart makes of an obligation it can explain is legal.
LEMMA SettleWrites ==
    ASSUME NEW d \in FileSets, NEW h, NEW n, ~Unexplained(d.sidecar, d.journal)
    PROVE  \/ Settle(d.sidecar, d.journal) = <<>>
           \/ \E w : /\ Settle(d.sidecar, d.journal) = <<w>>
                     /\ Legal(d, h, n, w) /\ w.file = "sidecar"
<1> DEFINE s == d.sidecar
           j == d.journal
<1>0. j \in Journals
  BY DEF FileSets
<1>1. ASSUME Occupied(s, j), s.state \in Creating \cup {"ORPHANED"}
      PROVE  s.ceremony \in Ceremonies(j)
  <2>1. s # NoSidecar
    BY <1>1, EmptyFiles DEF Creating
  <2>2. j # NoJournal
    <3>1. s.role \in 1..Len(j.entries)
      BY <1>1 DEF Occupied
    <3>2. ASSUME j = NoJournal PROVE FALSE
      <4>1. Len(j.entries) = 0
        BY <3>2, EmptyFiles
      <4> QED
        BY <3>1, <4>1
    <3> QED
      BY <3>2
  <2>3. j.entries[s.role].ceremony = s.ceremony
    BY <1>1, <2>1, <2>2 DEF Unexplained
  <2> QED
    BY <1>1, <2>3 DEF Occupied, Ceremonies
<1>2. Drop("sidecar").file = "sidecar"
  BY DEF Drop, Put
<1>3. CASE s.state = "ACTIVE"
  <2>1. Settle(s, j) \in {<<>>, <<Drop("sidecar")>>}
    BY <1>3 DEF Settle, Creating
  <2>2. DropsSidecar(d, Drop("sidecar"))
    BY <1>3 DEF DropsSidecar
  <2> QED
    BY <1>2, <2>1, <2>2 DEF Legal
<1>4. CASE s.state \in Creating /\ ~Occupied(s, j)
  <2>1. PICK w : w = Put("sidecar", Orphaned(s))
    OBVIOUS
  <2>2. Settle(s, j) = <<w>>
    BY <1>4, <2>1 DEF Settle, Creating
  <2>3. Orphans(d, w) /\ w.file = "sidecar"
    BY <1>4, <2>1 DEF Orphans, Put
  <2> QED
    BY <2>2, <2>3 DEF Legal
<1>5. CASE s.state \in Creating /\ Occupied(s, j)
  <2>1. PICK w : w = Put("sidecar", [Orphaned(s) EXCEPT !.mismatch = TRUE])
    OBVIOUS
  <2>2. Settle(s, j) = IF Matches(s, j) THEN <<Drop("sidecar")>> ELSE <<w>>
    BY <1>5, <2>1 DEF Settle, Creating
  <2>3. Orphans(d, w) /\ w.file = "sidecar"
    BY <1>5, <2>1 DEF Orphans, Put
  <2>4. DropsSidecar(d, Drop("sidecar"))
    BY <1>1, <1>5 DEF DropsSidecar
  <2> QED
    BY <1>2, <2>2, <2>3, <2>4 DEF Legal
<1>6. CASE s.state = "ORPHANED" /\ Occupied(s, j) /\ Matches(s, j) /\ ~s.mismatch
  <2>1. Settle(s, j) = <<Drop("sidecar")>>
    BY <1>6 DEF Settle, Creating
  <2>2. DropsSidecar(d, Drop("sidecar"))
    BY <1>1, <1>6 DEF DropsSidecar
  <2> QED
    BY <1>2, <2>1, <2>2 DEF Legal
<1>7. CASE /\ s.state # "ACTIVE" /\ s.state \notin Creating
           /\ ~(s.state = "ORPHANED" /\ Occupied(s, j) /\ Matches(s, j) /\ ~s.mismatch)
  BY <1>7 DEF Settle
<1> QED
  BY <1>3, <1>4, <1>5, <1>6, <1>7

\* finishReconcile adopts the files and settles the obligation.
LEMMA FinishStepKeeps ==
    ASSUME IInv, FinishReconcile
    PROVE  IInv'
<1>0. /\ up /\ call.todo = <<FinishStep>> /\ call # NoCall
      /\ UNCHANGED <<disk, up, minted, expired, history, faults>>
      /\ disk \in FileSets /\ Formed(disk)
  <2>1. call.todo = <<FinishStep>>
    BY DEF FinishReconcile
  <2>2. call # NoCall
    BY <2>1, ShortLists DEF NoCall
  <2> QED
    BY <2>2 DEF FinishReconcile, IInv, FilesInv, Formed
<1>1. call.op = "reconcile" /\ ~coord.reconciled
  <2>1. Planned /\ call.op \in Ops
    BY DEF IInv, Typed
  <2>2. call.op # "none"
    BY <1>0, <2>1 DEF Planned
  <2>3. ASSUME NEW w, Legal(disk, history, minted.n, w)
        PROVE  call.todo # <<w>>
    BY <1>0, <2>3, LegalFile
  <2>4. ~OneWrite(call.todo, disk, history, minted.n, call.op)
    BY <2>3 DEF OneWrite
  <2>5. ~TwoWrites(call.todo, disk, history, minted.n, call.op, coord)
    <3>1. ASSUME NEW w, NEW x PROVE call.todo # <<w, x>>
      <4>1. Len(<<FinishStep>>) = 1 /\ Len(<<w, x>>) = 2
        BY ShortLists
      <4> QED
        BY <1>0, <4>1
    <3> QED
      BY <3>1 DEF TwoWrites
  <2>6. call.todo # <<>>
    BY <1>0, ShortLists
  <2> QED
    BY <2>1, <2>2, <2>4, <2>5, <2>6 DEF Planned
<1>2. CASE Poison
  BY <1>0, <1>2, PoisonStep
<1>3. CASE ~Poison
  <2>1. PICK t : t = Settle(disk.sidecar, disk.journal)
    OBVIOUS
  <2>2. PICK s : s = IF t = <<>> THEN disk.sidecar ELSE host.mem.sidecar
    OBVIOUS
  <2>3. PICK m : m = [disk EXCEPT !.sidecar = s]
    OBVIOUS
  <2>4. /\ ~Unexplained(disk.sidecar, disk.journal)
        /\ call' = [call EXCEPT !.todo = t]
        /\ host' = [host EXCEPT !.reconciled = TRUE, !.mem = m]
        /\ UNCHANGED coord
    BY <1>3, <2>1, <2>2, <2>3 DEF FinishReconcile
  <2>5. /\ s \in Sidecars /\ m.journal = disk.journal /\ m.profile = disk.profile
        /\ m.sidecar = s /\ m \in FileSets
    <3>1. s \in Sidecars
      BY <1>0, <2>2 DEF IInv, Typed, FileSets
    <3> QED
      BY <1>0, <2>3, <3>1 DEF FileSets
  <2>6. Formed(m)
    BY <1>0, <2>5 DEF Formed
  <2>7. /\ host'.mem = m /\ host'.poisoned = host.poisoned
        /\ host' \in [poisoned : BOOLEAN, reconciled : BOOLEAN, mem : FileSets]
    BY <2>4, <2>5 DEF IInv, Typed
  <2>8. call' = [op |-> "reconcile", todo |-> t] /\ call'.op = "reconcile" /\ call'.todo = t
    BY <1>1, <2>4 DEF IInv, Typed
  <2>9. Typed'
    BY <1>0, <2>4, <2>6, <2>7, <2>8 DEF IInv, Typed, Ops
  <2>10. Settling'
    <3>1. \/ t = <<>>
          \/ \E w : t = <<w>> /\ Legal(disk, history, minted.n, w) /\ w.file = "sidecar"
      BY <1>0, <2>1, <2>4, SettleWrites
    <3> QED
      BY <1>0, <2>2, <2>5, <2>7, <2>8, <3>1 DEF Settling
  <2>11. Planned' /\ AuthorizeSays'
    BY <1>1, <2>4, <2>8, <2>10 DEF Planned, AuthorizeSays
  <2>12. MemoryInv'
    BY <1>0, <1>1, <2>4, <2>7, <2>8 DEF IInv, MemoryInv
  <2> QED
    BY <1>0, <2>9, <2>11, <2>12 DEF IInv
<1> QED
  BY <1>2, <1>3

\* A step that leaves the files, the history and the ceremonies alone and ends
\* with no method running keeps the rest when memory does.
LEMMA RestStep ==
    ASSUME IInv, UNCHANGED <<disk, history>>, call' = NoCall, Typed', MemoryInv',
           minted'.n = minted.n
    PROVE  IInv'
<1>1. call'.op = "none"
  BY DEF NoCall
<1>2. Planned' /\ AuthorizeSays'
  BY <1>1 DEF Planned, AuthorizeSays
<1> QED
  BY <1>2 DEF IInv

\* A method throws with nothing changed.
LEMMA FailStep ==
    ASSUME IInv, Fail
    PROVE  IInv'
<1>0. /\ call' = NoCall /\ call'.op = "none" /\ call.todo # <<>> /\ up
      /\ UNCHANGED <<disk, up, host, coord, minted, expired, history>>
  BY DEF Fail, NoCall
<1>1. Typed'
  BY <1>0 DEF IInv, Typed, Fail, Ops, NoCall
<1>2. MemoryInv'
  <2>1. ASSUME coord.reconciled, ~host.poisoned, NEW f \in Files
        PROVE  ~Hides(f)'
    <3>1. ~Hides(f)
      BY <1>0, <2>1 DEF IInv, MemoryInv, Adopting
    <3> QED
      BY <1>0, <3>1 DEF Hides
  <2> QED
    BY <1>0, <2>1 DEF IInv, MemoryInv
<1> QED
  BY <1>0, <1>1, <1>2, RestStep

\* A write that may or may not have happened poisons the root.
LEMMA FailPoisonedStep ==
    ASSUME IInv, FailPoisoned
    PROVE  IInv'
<1>0. /\ disk \in FileSets /\ history \in Histories /\ minted.n \in 0..MaxCeremonies
      /\ FilesInv(disk, history, minted.n) /\ Writing /\ up
      /\ UNCHANGED <<up, minted, expired>> /\ call' = NoCall /\ faults' = faults + 1
  BY DEF IInv, Typed, FilesInv, Formed, FailPoisoned, Writing
<1>1. PICK w : w = Head(call.todo)
  OBVIOUS
<1>2. PICK e : e = After(disk, w)
  OBVIOUS
<1>3. Legal(disk, history, minted.n, w)
  BY <1>0, <1>1, NextWrite
<1>4. /\ e \in FileSets /\ FilesInv(e, Noted(history, e), minted.n)
      /\ Noted(history, e) \in Histories /\ Noted(history, disk) = history
  BY <1>0, <1>2, <1>3, FilesKept, NotedHistory, NotedAgain
<1>5. PICK d \in {disk, e} : disk' = d /\ history' = Noted(history, d)
  BY <1>1, <1>2 DEF FailPoisoned, Note, Noted, Changed, After
<1>6. /\ FilesInv(d, Noted(history, d), minted.n) /\ Noted(history, d) \in Histories
      /\ (disk.profile.state # "CORRUPT" => d.profile.state # "CORRUPT")
  <2>1. disk.profile.state # "CORRUPT" => e.profile.state # "CORRUPT"
    BY <1>0, <1>2, <1>3, LegalProfile
  <2> QED
    BY <1>0, <1>4, <2>1
<1>7. /\ host'.poisoned = TRUE /\ host'.mem = host.mem
      /\ host' \in [poisoned : BOOLEAN, reconciled : BOOLEAN, mem : FileSets]
  BY DEF IInv, Typed, FailPoisoned
<1>8. /\ coord'.mem = coord.mem /\ coord'.reconciled = coord.reconciled
      /\ coord' \in [poisoned : BOOLEAN, reconciled : BOOLEAN, mem : FileSets,
                     ceremony : 0..MaxCeremonies]
  <2>1. PICK b \in BOOLEAN : coord' = [coord EXCEPT !.poisoned = b]
    BY DEF FailPoisoned
  <2> QED
    BY <2>1 DEF IInv, Typed
<1>9. call'.op = "none" /\ call' = [op |-> "none", todo |-> <<>>] /\ call'.todo = <<>>
  BY <1>0 DEF NoCall
<1>10. faults' \in 0..MaxFaults
  BY DEF FailPoisoned, IInv, Typed
<1>11. Typed'
  BY <1>0, <1>5, <1>6, <1>7, <1>8, <1>9, <1>10 DEF IInv, Typed, Ops
<1>12. Planned' /\ AuthorizeSays'
  BY <1>0, <1>9 DEF Planned, AuthorizeSays
<1>13. MemoryInv'
  <2>1. coord.reconciled => disk.profile.state # "CORRUPT"
    BY <1>0 DEF IInv, MemoryInv
  <2>2. ~coord.reconciled => coord.mem = NoFiles
    BY DEF IInv, MemoryInv
  <2> QED
    BY <1>0, <1>5, <1>6, <1>7, <1>8, <1>9, <2>1, <2>2 DEF MemoryInv
<1> QED
  BY <1>0, <1>5, <1>6, <1>11, <1>12, <1>13 DEF IInv

\* What the history learns when a method is reported: a creation it
\* authorized, or an orphan nothing has staged.
LEMMA ReportKept ==
    ASSUME NEW d, NEW h \in Histories, NEW n \in 0..MaxCeremonies, FilesInv(d, h, n),
           NEW A \in SUBSET {d.sidecar.ceremony}, NEW C \in SUBSET {d.sidecar.ceremony},
           A # {} => d.sidecar.state = "CREATION_AUTHORIZED",
           C # {} => d.sidecar.state = "ORPHANED",
           C \cap Ceremonies(d.journal) = {},
           NEW g, g = [h EXCEPT !.authorized = @ \cup A, !.cancelled = @ \cup C]
    PROVE  FilesInv(d, g, n) /\ g \in Histories
<1>1. /\ Formed(d) /\ Plain(d) /\ Final(d) /\ Sound(d.journal, h) /\ Sound(d.profile, h)
      /\ Told(d, h) /\ Current(d, h, n) /\ Past(d, h, n)
  BY DEF FilesInv
<1>2. /\ g.authorized = h.authorized \cup A /\ g.cancelled = h.cancelled \cup C
      /\ g.recorded = h.recorded /\ g.staged = h.staged
  BY DEF Histories
<1>3. A \cup C # {} => d.sidecar.ceremony \in 1..n
  BY <1>1 DEF Current
<1>4. A \subseteq 1..n /\ C \subseteq 1..n
  BY <1>3
<1>5. g \in Histories
  <2>1. A \subseteq Nat /\ C \subseteq Nat
    BY <1>4
  <2> QED
    BY <2>1 DEF Histories
<1>6. Sound(d.journal, g) /\ Sound(d.profile, g)
  BY <1>1, <1>2 DEF Sound
<1>7. Told(d, g)
  <2>1. ASSUME NEW m \in A
        PROVE  d.sidecar.ceremony = m /\ d.sidecar.state # "ACTIVE"
    BY <2>1
  <2> QED
    BY <1>1, <1>2, <2>1 DEF Told
<1>8. Current(d, g, n)
  <2>1. C # {} => d.sidecar.state \notin CeremonyStates
    BY DEF CeremonyStates, Creating
  <2> QED
    BY <1>1, <1>2, <2>1 DEF Current
<1>9. Past(d, g, n)
  <2>1. C # {} => d.profile.state # "STAGING"
    BY <1>1, EmptyFiles DEF Final
  <2> QED
    BY <1>1, <1>2, <1>4, <2>1 DEF Past
<1> QED
  BY <1>1, <1>5, <1>6, <1>7, <1>8, <1>9 DEF FilesInv

\* The host returns, and the coordinator catches up with what was written.
LEMMA ReturnStep ==
    ASSUME IInv, Return
    PROVE  IInv'
<1>0. /\ up /\ call.op # "none" /\ call.todo = <<>> /\ call' = NoCall /\ ~host.poisoned
      /\ ~coord.poisoned
      /\ UNCHANGED <<disk, up, host, minted, expired, faults>>
      /\ FilesInv(disk, history, minted.n) /\ disk \in FileSets /\ Formed(disk)
      /\ call.op \in Ops
  <2>1. call.op # "none"
    BY DEF Return
  <2>2. call # NoCall
    BY <2>1 DEF NoCall
  <2> QED
    BY <2>1, <2>2 DEF Return, IInv, MemoryInv, Typed, FilesInv, Formed
<1>1. host.mem = disk /\ disk.profile.state # "CORRUPT"
  <2>1. CASE call.op = "reconcile"
    <3>1. Settling
      <4>1. ~ThenFinish(call.todo, disk, history, minted.n)
        BY <1>0, ShortLists DEF ThenFinish
      <4> QED
        BY <2>1, <4>1 DEF IInv, Planned
    <3>2. host.mem.journal = disk.journal /\ host.mem.profile = disk.profile
          /\ host.mem.sidecar = disk.sidecar
      BY <1>0, <3>1, ShortLists DEF Settling
    <3>3. host.mem = disk
      BY <1>0, <3>2 DEF IInv, Typed, FileSets
    <3> QED
      BY <1>0, <2>1, <3>3 DEF IInv, MemoryInv
  <2>2. CASE call.op # "reconcile"
    <3>1. coord.reconciled
      BY <1>0, <2>2 DEF IInv, Planned
    <3> QED
      BY <1>0, <3>1 DEF IInv, MemoryInv
  <2> QED
    BY <2>1, <2>2
<1>2. PICK W : W = WritesOf(call.op)
  OBVIOUS
<1>3. PICK m : m = [journal |-> IF "journal" \in W THEN disk.journal ELSE coord.mem.journal,
                    sidecar |-> IF "sidecar" \in W THEN disk.sidecar ELSE coord.mem.sidecar,
                    profile |-> IF "profile" \in W THEN disk.profile ELSE coord.mem.profile]
  OBVIOUS
<1>4. /\ "journal" \in W <=> call.op \in {"reconcile", "create", "stage", "cancel",
                                          "acknowledge", "finalize"}
      /\ "sidecar" \in W <=> call.op \in {"reconcile", "begin", "authorize", "record",
                                          "stage", "cancelRole", "cancel"}
      /\ "profile" \in W <=> call.op \in {"reconcile", "finalize"}
  BY <1>0, <1>2 DEF WritesOf, Ops, Files
<1>5. PICK k : k = CASE call.op = "begin" -> minted.n
                     [] call.op \in {"authorize", "record"} -> coord.ceremony
                     [] OTHER -> 0
  OBVIOUS
<1>6. k \in 0..MaxCeremonies
  BY <1>5 DEF IInv, Typed
<1>7. coord' = [coord EXCEPT !.reconciled = TRUE, !.mem = m, !.ceremony = k]
  BY <1>1, <1>3, <1>4, <1>5 DEF Return
<1>8. /\ m.journal = IF "journal" \in W THEN disk.journal ELSE coord.mem.journal
      /\ m.sidecar = IF "sidecar" \in W THEN disk.sidecar ELSE coord.mem.sidecar
      /\ m.profile = IF "profile" \in W THEN disk.profile ELSE coord.mem.profile
  BY <1>3
<1>9. Formed(m) /\ m \in FileSets
  <2>1. Formed(coord.mem) /\ coord.mem \in FileSets
    BY DEF IInv, Typed, Formed
  <2>2. m \in FileSets
    BY <1>0, <1>3, <2>1 DEF FileSets
  <2> QED
    BY <1>0, <1>8, <2>1, <2>2 DEF Formed
<1>10. /\ coord'.reconciled = TRUE /\ coord'.mem = m /\ coord'.poisoned = coord.poisoned
       /\ coord' \in [poisoned : BOOLEAN, reconciled : BOOLEAN, mem : FileSets,
                      ceremony : 0..MaxCeremonies]
  BY <1>6, <1>7, <1>9 DEF IInv, Typed
<1>11. PICK A : A = IF call.op = "authorize" THEN {disk.sidecar.ceremony} ELSE {}
  OBVIOUS
<1>12. PICK C : C = IF call.op = "cancelRole" /\ disk.sidecar.state = "ORPHANED"
                    THEN {disk.sidecar.ceremony} \ Ceremonies(disk.journal) ELSE {}
  OBVIOUS
<1>13. history' = [history EXCEPT !.authorized = @ \cup A, !.cancelled = @ \cup C]
  <2>1. /\ history.authorized \cup A = IF call.op = "authorize"
              THEN history.authorized \cup {disk.sidecar.ceremony} ELSE history.authorized
        /\ history.cancelled \cup C =
              IF call.op = "cancelRole" /\ disk.sidecar.state = "ORPHANED"
              THEN history.cancelled \cup ({disk.sidecar.ceremony} \ Ceremonies(disk.journal))
              ELSE history.cancelled
    BY <1>11, <1>12
  <2> QED
    BY <1>1, <2>1 DEF Return
<1>14. FilesInv(disk, history', minted.n) /\ history' \in Histories
  <2>1. A # {} => disk.sidecar.state = "CREATION_AUTHORIZED"
    BY <1>0, <1>11, ShortLists DEF IInv, AuthorizeSays
  <2>2. /\ C # {} => disk.sidecar.state = "ORPHANED"
        /\ C \cap Ceremonies(disk.journal) = {}
        /\ C \in SUBSET {disk.sidecar.ceremony} /\ A \in SUBSET {disk.sidecar.ceremony}
    BY <1>11, <1>12
  <2>3. history \in Histories /\ minted.n \in 0..MaxCeremonies
    BY DEF IInv, Typed
  <2> QED
    BY <1>0, <1>13, <2>1, <2>2, <2>3, ReportKept
<1>15. call'.op = "none" /\ call' = [op |-> "none", todo |-> <<>>] /\ call'.todo = <<>>
  BY <1>0 DEF NoCall
<1>16. Typed'
  BY <1>0, <1>9, <1>10, <1>14, <1>15 DEF IInv, Typed, Ops
<1>17. Planned' /\ AuthorizeSays'
  BY <1>0, <1>15 DEF Planned, AuthorizeSays
<1>18. \A f \in Files : ~Hides(f)'
  <2> SUFFICES ASSUME NEW f \in Files, Hides(f)'
               PROVE  FALSE
    OBVIOUS
  <2>1. call.op # "reconcile" =>
          /\ Hides("journal") => "journal" \in W
          /\ Hides("sidecar") => "sidecar" \in W
          /\ disk.profile # NoJournal /\ coord.mem.profile = NoJournal => "profile" \in W
    <3> SUFFICES ASSUME call.op # "reconcile"
                 PROVE  /\ Hides("journal") => "journal" \in W
                        /\ Hides("sidecar") => "sidecar" \in W
                        /\ disk.profile # NoJournal /\ coord.mem.profile = NoJournal =>
                              "profile" \in W
      OBVIOUS
    <3>1. coord.reconciled
          /\ (disk.profile # NoJournal /\ coord.mem.profile = NoJournal => call.op = "finalize")
      BY <1>0 DEF IInv, Planned
    <3>2. \A q \in Files : Hides(q) => Adopting(q)
      BY <1>0, <3>1 DEF IInv, MemoryInv
    <3> QED
      BY <1>2, <1>4, <3>1, <3>2 DEF Adopting, Files
  <2>2. CASE f = "journal"
    BY <1>0, <1>4, <1>8, <1>10, <2>1, <2>2 DEF Hides
  <2>3. CASE f = "sidecar"
    BY <1>0, <1>4, <1>8, <1>10, <2>1, <2>3 DEF Hides
  <2>4. CASE f = "profile"
    BY <1>0, <1>4, <1>8, <1>10, <2>1, <2>4 DEF Hides
  <2> QED
    BY <2>2, <2>3, <2>4 DEF Files
<1>19. MemoryInv'
  BY <1>0, <1>1, <1>10, <1>15, <1>18 DEF MemoryInv
<1> QED
  BY <1>0, <1>14, <1>16, <1>17, <1>19 DEF IInv

-----------------------------------------------------------------------------
\* A process that has just started or ended remembers nothing.
LEMMA FreshMemory ==
    /\ Fresh \in [poisoned : BOOLEAN, reconciled : BOOLEAN, mem : FileSets]
    /\ Fresh.poisoned = FALSE /\ Fresh.mem = NoFiles
    /\ FreshCoord \in [poisoned : BOOLEAN, reconciled : BOOLEAN, mem : FileSets,
                       ceremony : 0..MaxCeremonies]
    /\ FreshCoord.poisoned = FALSE /\ FreshCoord.reconciled = FALSE /\ FreshCoord.mem = NoFiles
    /\ Formed(NoFiles)
<1>1. Formed(NoFiles)
  BY EmptyFiles DEF Formed
<1> QED
  BY <1>1, EmptyFiles DEF Fresh, FreshCoord

\* A process starts, is closed, crashes or is ended by the operator.
LEMMA ProcessStep ==
    ASSUME IInv, Start \/ Close \/ Crash \/ Restart
    PROVE  IInv'
<1>1. /\ host' = Fresh /\ coord' = FreshCoord /\ up' \in BOOLEAN
      /\ UNCHANGED <<disk, minted, expired, history>>
      /\ faults' \in 0..MaxFaults
  <2>1. faults \in 0..MaxFaults
    BY DEF IInv, Typed
  <2>2. CASE Start \/ Close \/ Restart
    BY <2>1, <2>2 DEF Start, Close, Restart, Stopped
  <2>3. CASE Crash
    <3>1. faults' = faults + 1 /\ faults < MaxFaults
      BY <2>3 DEF Crash
    <3>2. faults' \in 0..MaxFaults
      BY <2>1, <3>1
    <3> QED
      BY <2>3, <3>2 DEF Crash, Stopped
  <2> QED
    BY <2>2, <2>3
<1>2. call' = NoCall
  BY DEF Start, Close, Crash, Restart, Stopped, IInv, MemoryInv
<1>3. call'.op = "none" /\ call' = [op |-> "none", todo |-> <<>>] /\ call'.todo = <<>>
  BY <1>2 DEF NoCall
<1>4. Typed'
  BY <1>1, <1>3, FreshMemory DEF IInv, Typed, Ops
<1>5. MemoryInv'
  BY <1>1, <1>2, <1>3, FreshMemory DEF MemoryInv
<1> QED
  BY <1>1, <1>2, <1>4, <1>5, RestStep

\* The coordinator learns of the poisoned host.
LEMMA NoticeStep ==
    ASSUME IInv, NoticePoison
    PROVE  IInv'
<1>1. /\ coord'.mem = coord.mem /\ coord'.reconciled = coord.reconciled
      /\ coord' \in [poisoned : BOOLEAN, reconciled : BOOLEAN, mem : FileSets,
                     ceremony : 0..MaxCeremonies]
      /\ UNCHANGED <<disk, up, host, call, minted, expired, history, faults>>
      /\ host.poisoned /\ call = NoCall
  BY DEF NoticePoison, Idle, IInv, Typed
<1>2. Typed'
  BY <1>1 DEF IInv, Typed
<1>3. MemoryInv'
  BY <1>1 DEF IInv, MemoryInv
<1> QED
  BY <1>1, <1>2, <1>3, RestStep

\* A file is damaged while no process holds the directory.
LEMMA DamageStep ==
    ASSUME IInv, NEW f \in Files, Damage(f)
    PROVE  IInv'
<1>0. /\ ~up /\ call = NoCall /\ disk \in FileSets /\ faults' \in 0..MaxFaults
      /\ disk[f] # NoFiles[f]
      /\ UNCHANGED <<up, host, coord, call, minted, expired, history>>
  BY DEF Damage, IInv, MemoryInv, Typed, FilesInv, Formed
<1>1. /\ Formed(disk) /\ Plain(disk) /\ Final(disk)
      /\ Sound(disk.journal, history) /\ Sound(disk.profile, history)
      /\ Told(disk, history) /\ Current(disk, history, minted.n)
      /\ Past(disk, history, minted.n)
  BY DEF IInv, FilesInv
<1>2. PICK e : e = After(disk, Put(f, Damaged(f)))
  OBVIOUS
<1>3. disk' = e
  BY <1>2 DEF Damage, After, Put
<1>4. PICK j : j = Journal("CORRUPT", None, <<>>)
  OBVIOUS
<1>5. /\ j \in Journals /\ j.state = "CORRUPT" /\ j.entries = <<>> /\ Len(j.entries) = 0
      /\ Damaged("journal") = j /\ Damaged("profile") = j /\ Ceremonies(j) = {}
      /\ Sound(j, history) /\ j # NoJournal
  <2>1. /\ j \in Journals /\ j.state = "CORRUPT" /\ j.entries = <<>>
        /\ Damaged("journal") = j /\ Damaged("profile") = j
    BY <1>4, EmptyFiles DEF Journal
  <2>2. Len(j.entries) = 0
    BY <2>1
  <2> QED
    BY <2>1, <2>2, EmptyFiles DEF Ceremonies, Sound
<1>6. FilesInv(e, history, minted.n)
  <2>1. CASE f = "journal"
    <3>1. e.journal = j /\ e.sidecar = disk.sidecar /\ e.profile = disk.profile
          /\ e \in FileSets
      BY <1>0, <1>2, <1>5, <2>1, AfterWrite DEF FileSets
    <3>2. Formed(e) /\ Plain(e) /\ Final(e)
      BY <1>1, <1>5, <3>1 DEF Formed, Plain, Final
    <3>3. Told(e, history) /\ Current(e, history, minted.n) /\ Past(e, history, minted.n)
      BY <1>1, <1>5, <3>1 DEF Told, Current, Past
    <3> QED
      BY <1>1, <1>5, <3>1, <3>2, <3>3 DEF FilesInv
  <2>2. CASE f = "sidecar"
    <3>1. /\ e.journal = disk.journal /\ e.profile = disk.profile
          /\ e.sidecar.state = "CORRUPT" /\ e \in FileSets
      BY <1>0, <1>2, <2>2, AfterWrite, EmptyFiles DEF FileSets
    <3>2. disk.profile.state # "STAGING"
      BY <1>0, <1>1, <2>2, EmptyFiles DEF Final
    <3>3. Formed(e) /\ Plain(e) /\ Final(e)
      BY <1>1, <3>1, <3>2 DEF Formed, Plain, Final
    <3>4. Told(e, history) /\ Current(e, history, minted.n) /\ Past(e, history, minted.n)
      BY <1>1, <3>1 DEF Told, Current, Past, CeremonyStates, Creating
    <3> QED
      BY <1>1, <3>1, <3>3, <3>4 DEF FilesInv
  <2>3. CASE f = "profile"
    <3>1. e.journal = disk.journal /\ e.sidecar = disk.sidecar /\ e.profile = j
          /\ e \in FileSets
      BY <1>0, <1>2, <1>5, <2>3, AfterWrite DEF FileSets
    <3>2. Formed(e) /\ Plain(e) /\ Final(e)
      BY <1>1, <1>5, <3>1 DEF Formed, Plain, Final
    <3>3. Told(e, history) /\ Current(e, history, minted.n) /\ Past(e, history, minted.n)
      BY <1>1, <1>5, <3>1 DEF Told, Current, Past
    <3> QED
      BY <1>1, <1>5, <3>1, <3>2, <3>3 DEF FilesInv
  <2> QED
    BY <2>1, <2>2, <2>3 DEF Files
<1>7. call'.op = "none"
  BY <1>0 DEF NoCall
<1>8. Typed'
  BY <1>0 DEF IInv, Typed
<1>9. Planned' /\ AuthorizeSays'
  BY <1>0, <1>7 DEF Planned, AuthorizeSays
<1>10. MemoryInv'
  BY <1>0 DEF IInv, MemoryInv
<1> QED
  BY <1>0, <1>3, <1>6, <1>8, <1>9, <1>10 DEF IInv

\* Time passes.
LEMMA ClockStep ==
    ASSUME IInv, ExpireCeremony \/ \E i \in Intents : ExpireIntent(i)
    PROVE  IInv'
<1>1. /\ UNCHANGED <<disk, up, host, coord, call, history, faults>>
      /\ expired' \subseteq Intents /\ minted'.n = minted.n
      /\ minted' \in [n : 0..MaxCeremonies, intent : Intents \cup {None}, late : BOOLEAN]
  <2>1. CASE ExpireCeremony
    BY <2>1 DEF ExpireCeremony, IInv, Typed
  <2>2. ASSUME NEW i \in Intents, ExpireIntent(i)
        PROVE  /\ UNCHANGED <<disk, up, host, coord, call, history, faults>>
               /\ expired' \subseteq Intents /\ minted'.n = minted.n
               /\ minted' \in [n : 0..MaxCeremonies, intent : Intents \cup {None},
                               late : BOOLEAN]
    <3>1. PICK b \in BOOLEAN : b = (minted.late \/ minted.intent = i)
      OBVIOUS
    <3>2. minted' = [minted EXCEPT !.late = b]
      BY <2>2, <3>1 DEF ExpireIntent
    <3> QED
      BY <2>2, <3>2 DEF ExpireIntent, IInv, Typed
  <2> QED
    BY <2>1, <2>2
<1>2. Typed'
  BY <1>1 DEF IInv, Typed
<1>3. Planned' /\ AuthorizeSays'
  BY <1>1 DEF IInv, Planned, AuthorizeSays, Settling
<1>4. MemoryInv'
  BY <1>1 DEF IInv, MemoryInv, Hides, Adopting
<1> QED
  BY <1>1, <1>2, <1>3, <1>4 DEF IInv

-----------------------------------------------------------------------------
\* The first state has no files and no process.
LEMMA InitIInv == Init => IInv
<1> SUFFICES ASSUME Init
             PROVE  IInv
  OBVIOUS
<1>1. /\ disk = NoFiles /\ up = FALSE /\ host = Fresh /\ coord = FreshCoord /\ call = NoCall
      /\ minted = [n |-> 0, intent |-> None, late |-> FALSE]
      /\ expired = {} /\ faults = 0
      /\ history = [authorized |-> {}, recorded |-> {}, staged |-> {}, cancelled |-> {}]
  BY DEF Init
<1>2. call.op = "none" /\ call = [op |-> "none", todo |-> <<>>] /\ call.todo = <<>>
  BY <1>1 DEF NoCall
<1>3. minted \in [n : 0..MaxCeremonies, intent : Intents \cup {None}, late : BOOLEAN]
      /\ minted.n = 0
  BY <1>1
<1>4. history \in Histories
  BY <1>1 DEF Histories
<1>5. Typed
  <2>0. 0 \in 0..MaxFaults
    OBVIOUS
  <2>1. up \in BOOLEAN /\ expired \subseteq Intents /\ faults \in 0..MaxFaults
    BY <1>1, <2>0
  <2>2. /\ Formed(host.mem) /\ Formed(coord.mem)
        /\ host \in [poisoned : BOOLEAN, reconciled : BOOLEAN, mem : FileSets]
        /\ coord \in [poisoned : BOOLEAN, reconciled : BOOLEAN, mem : FileSets,
                      ceremony : 0..MaxCeremonies]
    BY <1>1, FreshMemory
  <2> QED
    BY <1>2, <1>3, <1>4, <2>1, <2>2 DEF Typed, Ops
<1>6. FilesInv(disk, history, minted.n)
  <2>1. /\ disk.journal = NoJournal /\ disk.sidecar = NoSidecar /\ disk.profile = NoJournal
        /\ Formed(disk)
    BY <1>1, EmptyFiles, FreshMemory
  <2>2. Len(NoJournal.entries) = 0
    BY EmptyFiles
  <2>3. Ceremonies(NoJournal) = {} /\ Sound(NoJournal, history)
    BY <2>2 DEF Ceremonies, Sound
  <2>4. Plain(disk) /\ Final(disk)
    BY <2>1, EmptyFiles DEF Plain, Final
  <2>5. history.authorized = {} /\ history.cancelled = {}
    BY <1>1
  <2>6. Told(disk, history) /\ Current(disk, history, minted.n) /\ Past(disk, history, minted.n)
    BY <2>1, <2>3, <2>5, EmptyFiles DEF Told, Current, Past, CeremonyStates, Creating
  <2> QED
    BY <2>1, <2>3, <2>4, <2>6 DEF FilesInv
<1>7. Planned /\ AuthorizeSays
  BY <1>1, <1>2 DEF Planned, AuthorizeSays
<1>8. MemoryInv
  BY <1>1, <1>2, FreshMemory DEF MemoryInv
<1> QED
  BY <1>5, <1>6, <1>7, <1>8 DEF IInv

\* Every step keeps the invariant.
LEMMA NextIInv == IInv /\ [Next]_vars => IInv'
<1> SUFFICES ASSUME IInv, [Next]_vars
             PROVE  IInv'
  OBVIOUS
<1>1. CASE Step
  BY <1>1, WriteStep, FinishStepKeeps, ReturnStep DEF Step
<1>2. CASE Fail \/ FailPoisoned \/ NoticePoison
  BY <1>2, FailStep, FailPoisonedStep, NoticeStep
<1>3. CASE ReconcileRestart \/ BeginRole \/ AuthorizeCredentialCreation
  BY <1>3, ReconcileStep, BeginStep, ObligationStep
<1>4. CASE \E i \in Intents : CreateJournal(i) \/ ExpireIntent(i)
  BY <1>4, CreateStep, ClockStep
<1>5. CASE \E c \in Credentials : RecordCreatedCredential(c) \/ StageRole(c)
  BY <1>5, ObligationStep, StageStep
<1>6. CASE CancelRoleCeremony \/ StatusEndsCeremony \/ CancelEnrollment
  BY <1>6, CancelRoleStep, CancelStep
<1>7. CASE AcknowledgeTerminal \/ FinalizeProfile
  BY <1>7, AcknowledgeStep, FinalizeStep
<1>8. CASE Start \/ Close \/ Crash \/ Restart
  BY <1>8, ProcessStep
<1>9. CASE ExpireCeremony
  BY <1>9, ClockStep
<1>10. CASE \E f \in Files : Damage(f)
  BY <1>10, DamageStep
<1>11. CASE UNCHANGED vars
  <2>1. UNCHANGED <<disk, up, host, coord, call, minted, expired, history, faults>>
    BY <1>11 DEF vars
  <2>2. Typed'
    BY <2>1 DEF IInv, Typed
  <2>3. Planned' /\ AuthorizeSays'
    BY <2>1 DEF IInv, Planned, AuthorizeSays, Settling
  <2>4. MemoryInv'
    BY <2>1 DEF IInv, MemoryInv, Hides, Adopting
  <2> QED
    BY <2>1, <2>2, <2>3, <2>4 DEF IInv
<1> QED
  BY <1>1, <1>2, <1>3, <1>4, <1>5, <1>6, <1>7, <1>8, <1>9, <1>10, <1>11 DEF Next

\* The invariant the safety properties follow from: the files are sound after
\* every single write, what a method has left to write is legal, and neither
\* memory hides a file.
THEOREM Invariant == Spec => []IInv
BY InitIInv, NextIInv, PTL DEF Spec

\* A credential whose creation authorizeCredentialCreation has allowed is in a
\* journal, or the sidecar tells of it, wherever a write fails or the process
\* ends.
THEOREM CredentialsAreKept == Spec => []NoCredentialForgotten
<1>1. IInv => NoCredentialForgotten
  BY DEF IInv, FilesInv, Told, NoCredentialForgotten
<1> QED
  BY <1>1, Invariant, PTL

\* What finalizeProfile published was recorded and is final; a journal is
\* superseded only by a profile.
THEOREM ProfilesAreFinal == Spec => []ProfileIsFinal
<1>1. ASSUME IInv
      PROVE  ProfileIsFinal
  <2>1. Sound(disk.journal, history) /\ Sound(disk.profile, history) /\ Final(disk)
    BY <1>1 DEF IInv, FilesInv
  <2> QED
    BY <2>1 DEF Sound, Final, ProfileIsFinal
<1> QED
  BY <1>1, Invariant, PTL

\* A ceremony that cancelRoleCeremony reported as orphaned is in no profile.
THEOREM CancelledStaysOut == Spec => []CancelledIsNeverFinalized
<1>1. IInv => CancelledIsNeverFinalized
  BY DEF IInv, FilesInv, Past, CancelledIsNeverFinalized
<1> QED
  BY <1>1, Invariant, PTL

\* Every variable has its type, the host's memory between methods is the disk,
\* and the coordinator's hides no file of it.
THEOREM MemoryFollowsDisk == Spec => []MemoryIsDurable
<1>1. ASSUME IInv
      PROVE  MemoryIsDurable
  <2> DEFINE journals == [state : {"ABSENT", "CORRUPT", "STAGING", "CANCELLED", "EXPIRED",
                                   "SUPERSEDED"},
                          intent : Intents \cup {None},
                          entries : UNION {[1..n -> Entries] : n \in 0..Slots}]
             files == [journal : journals, sidecar : Sidecars, profile : journals]
  <2>1. ASSUME NEW j \in Journals, Len(j.entries) <= Slots
        PROVE  j \in journals
    <3>1. j.entries \in Seq(Entries)
      BY DEF Journals
    <3>2. Len(j.entries) \in 0..Slots /\ j.entries \in [1..Len(j.entries) -> Entries]
      BY <2>1, <3>1
    <3>3. j.entries \in UNION {[1..n -> Entries] : n \in 0..Slots}
      BY <3>2
    <3> QED
      BY <3>3 DEF Journals
  <2>2. ASSUME NEW d, Formed(d)
        PROVE  d \in files
    <3>1. /\ d \in FileSets /\ d.journal \in Journals /\ d.profile \in Journals
          /\ d.sidecar \in Sidecars
      BY <2>2 DEF Formed, FileSets
    <3>2. d.journal \in journals /\ d.profile \in journals
      BY <2>1, <2>2, <3>1 DEF Formed
    <3> HIDE DEF journals
    <3> QED
      BY <3>1, <3>2 DEF FileSets
  <2>3. disk \in files /\ host.mem \in files /\ coord.mem \in files
    BY <1>1, <2>2 DEF IInv, Typed, FilesInv
  <2>4. Len(call.todo) <= 3
    <3>1. Planned
      BY <1>1 DEF IInv
    <3>2. \/ call.todo = <<>>
          \/ \E w : call.todo = <<w>>
          \/ \E w, x : call.todo = <<w, x>>
          \/ \E w, x, y : call.todo = <<w, x, y>>
      BY <3>1 DEF Planned, NoCall, ThenFinish, Settling, OneWrite, TwoWrites
    <3>3. CASE call.todo = <<>>
      BY <3>3
    <3>4. ASSUME NEW w, call.todo = <<w>>
          PROVE  Len(call.todo) <= 3
      BY <3>4
    <3>5. ASSUME NEW w, NEW x, call.todo = <<w, x>>
          PROVE  Len(call.todo) <= 3
      BY <3>5
    <3>6. ASSUME NEW w, NEW x, NEW y, call.todo = <<w, x, y>>
          PROVE  Len(call.todo) <= 3
      BY <3>6
    <3> QED
      BY <3>2, <3>3, <3>4, <3>5, <3>6
  <2>5. TypeOK
    <3>1. /\ {up, host.poisoned, host.reconciled, coord.poisoned, coord.reconciled,
              minted.late} \subseteq BOOLEAN
          /\ {coord.ceremony, minted.n} \subseteq 0..MaxCeremonies
          /\ expired \subseteq Intents /\ faults \in 0..MaxFaults
      BY <1>1 DEF IInv, Typed
    <3> QED
      BY <2>3, <2>4, <3>1 DEF TypeOK, Entries, Sidecars
  <2>6. ASSUME Idle, coord.reconciled, ~host.poisoned
        PROVE  /\ host.mem = disk
               /\ coord.mem.journal = NoJournal => disk.journal = NoJournal
               /\ coord.mem.sidecar = NoSidecar => disk.sidecar = NoSidecar
               /\ coord.mem.profile = NoJournal /\ disk.profile # NoJournal =>
                     Derive = "READY_FOR_PROFILE_VALIDATION" /\ ~NotFinalized
    <3>1. /\ host.mem = disk
          /\ coord.mem.journal = NoJournal => disk.journal = NoJournal
          /\ coord.mem.sidecar = NoSidecar => disk.sidecar = NoSidecar
          /\ coord.mem.profile = NoJournal /\ disk.profile # NoJournal => MayFinalize(coord)
      BY <1>1, <2>6, Reconciled
    <3>2. ~coord.poisoned
      BY <1>1, <2>6 DEF IInv, MemoryInv
    <3>3. ASSUME coord.mem.profile = NoJournal, MayFinalize(coord)
          PROVE  Derive = "READY_FOR_PROFILE_VALIDATION"
      <4>1. coord.mem.journal # NoJournal
        BY <3>3, EmptyFiles DEF MayFinalize
      <4> QED
        BY <2>6, <3>2, <3>3, <4>1 DEF Derive, MayFinalize
    <3> QED
      BY <3>1, <3>3 DEF NotFinalized
  <2> QED
    BY <2>5, <2>6 DEF MemoryIsDurable
<1> QED
  BY <1>1, Invariant, PTL

=============================================================================
