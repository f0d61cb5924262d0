----------------------------- MODULE StoreProofs -----------------------------
(***************************************************************************)
(* Proofs about Store, for any threads, readers, sizes and bounds.         *)
(*                                                                         *)
(* The state of the engine is spread over memtables, logs, tables and the  *)
(* manifest, and at any moment a process may have to start from any of the *)
(* versions that the manifest may turn out to say, or that it will say     *)
(* once the edit in progress is written (Versions).  The invariant is that *)
(* each of these is sound by itself (VersionOK): its tables are there, it  *)
(* has every write that was acknowledged with sync, and nothing that was   *)
(* given up; and, while the engine is open, all that a read sees           *)
(* (UpToDate).  Everything else serves to keep this: whose number a file   *)
(* has, which entry is in which log, what an edit in progress does.        *)
(***************************************************************************)
EXTENDS Store, ProofBasics

-----------------------------------------------------------------------------
(* The inductive invariant.                                                *)

LogSet(d, n) == UNION ToSet(d.logs[n].records)

SyncedSet(d, n) == UNION {d.logs[n].records[i] : i \in 1 .. d.logs[n].synced}

TableSet(d, T) == UNION {d.tables[t] : t \in T \cap DOMAIN d.tables}

LogsFrom(d, n) == {k \in DOMAIN d.logs : k >= n}

\* All entries in files.
Files(d) == TableSet(d, DOMAIN d.tables) \cup UNION {LogSet(d, n) : n \in DOMAIN d.logs}

VersionState == [l0 : SUBSET Nat, deep : SUBSET Nat, log : Nat, next : Nat, last : Nat]

TablesOf(m) == m.l0 \cup m.deep

\* What a process finds that starts from this version ...
Content(d, m) == TableSet(d, TablesOf(m)) \cup UNION {LogSet(d, n) : n \in LogsFrom(d, m.log)}

\* ... and what of it the machine cannot lose.
Secured(d, m) == TableSet(d, TablesOf(m)) \cup UNION {SyncedSet(d, n) : n \in LogsFrom(d, m.log)}

Ids(S) == {e.id : e \in S}

DiskOK(d) ==
  /\ DOMAIN d = {"logs", "tables", "manifest"}
  /\ DOMAIN d.logs \subseteq Nat /\ DOMAIN d.tables \subseteq Nat
  /\ \A n \in DOMAIN d.logs :
       /\ d.logs[n] \in [records : Seq(SUBSET Entry), synced : Nat]
       /\ d.logs[n].synced <= Len(d.logs[n].records)
       /\ \A i \in 1 .. Len(d.logs[n].records) : IsFiniteSet(d.logs[n].records[i])
  /\ \A t \in DOMAIN d.tables : d.tables[t] \subseteq Entry
  /\ d.manifest \in Seq(VersionState) /\ d.manifest # <<>>
  /\ \A i \in 1 .. Len(d.manifest) : d.manifest[i].next <= Last(d.manifest).next

VersionOK(m, d, V, a, k) ==
  /\ m \in VersionState /\ m.log < m.next
  /\ \A t \in TablesOf(m) : t \in DOMAIN d.tables /\ t < m.next
  /\ \A e \in TableSet(d, TablesOf(m)) : e.seq <= m.last
  /\ k \subseteq Ids(Secured(d, m))
  /\ Ids(Content(d, m)) \subseteq a \cup Ids(V)

\* n is the log being written, f the next file's number, s the last entry's.
UpToDate(m, d, V, n, f, s) ==
  V \subseteq Content(d, m) /\ m.log <= n /\ m.next <= f /\ m.last <= s

ImmEntries == UNION imm
Flying == IF group = None THEN {} ELSE group.entries
Everything == mem \cup ImmEntries \cup Flying \cup Files(disk)

QueueOK ==
  /\ writers \in Seq(Thread) /\ call \in [Thread -> MaybeOneOf(CallRecord)]
  /\ asleep \subseteq ToSet(writers) /\ awaiting \subseteq Thread
  /\ \A i, j \in 1 .. Len(writers) : writers[i] = writers[j] => i = j
  /\ \A i \in 1 .. Len(writers) : call[writers[i]] # None /\ call[writers[i]].stage = "queue"
  /\ \A w \in Thread : call[w] # None =>
       IF call[w].id = 0 THEN ~ call[w].sync ELSE call[w].id \in asked
  /\ \A v, w \in Thread :
       call[v] # None /\ call[w] # None /\ call[v].id # 0 /\ call[v].id = call[w].id => v = w

UsedOK ==
  /\ instance \in Instances
  /\ used \in [{"writes", "flushes", "reads", "crashes", "faults"} -> Nat]
  /\ used["writes"] <= instance.writes
  /\ asked \subseteq 1 .. used["writes"]

\* No two entries have the same number.
EntriesOK ==
  /\ \A e \in Everything : e \in Entry /\ e.id \in 1 .. used["writes"]
  /\ \A e, f \in Everything : e.seq = f.seq => e.id = f.id

GroupOK ==
  group # None =>
    /\ group \in GroupRecord
    /\ group.size \in 1 .. Len(writers)
    /\ \A e \in group.entries : lastSeq < e.seq /\ e.seq <= lastSeq + Cardinality(group.entries)
    /\ IsFiniteSet(group.entries) /\ group.entries # {}
    /\ Ids(group.entries) = {call[writers[k]].id : k \in 1 .. group.size} \ {0}
    /\ \A k \in 1 .. group.size : call[writers[k]].sync => group.sync
    /\ group.stage \in {"sync", "insert", "written"} => group.entries \subseteq LogSet(disk, logfile)
    /\ group.stage \in {"insert", "written"} /\ group.sync =>
         group.entries \subseteq SyncedSet(disk, logfile)
    /\ group.stage = "written" => group.entries \subseteq mem

\* Versions: what the manifest may say, the current one, and what they will be
\* after the edit in progress.
Current == [l0 |-> l0, deep |-> deep, log |-> logNumber, next |-> next, last |-> lastSeq]

IsSyncing == edit # None /\ edit.stage = "sync"

Versions ==
  ToSet(disk.manifest) \cup {Current}
  \cup (IF edit = None THEN {} ELSE {Apply(Current, edit)})
  \cup (IF edit = None \/ IsSyncing THEN {} ELSE {Apply(Manifest, edit)})

\* The tables that were current if the edit written last were installed.
CurrentTables == IF IsSyncing THEN TablesOf(Apply(Current, edit)) ELSE l0 \cup deep

MemoryOK ==
  /\ mem \subseteq Entry /\ imm \subseteq SUBSET Entry
  /\ lastSeq \in Nat /\ logfile \in DOMAIN disk.logs /\ logNumber \in Nat /\ next \in Nat
  /\ logfile < next /\ l0 \subseteq Nat /\ deep \subseteq Nat
  /\ \A n \in DOMAIN disk.logs : n <= logfile
  /\ \A t \in DOMAIN disk.tables : t < next
  /\ mem \subseteq LogSet(disk, logfile)
  /\ \A e \in mem : e.seq <= lastSeq \/ (e \in Flying /\ group.stage = "written")
  /\ \A e \in ImmEntries \cup TableSet(disk, DOMAIN disk.tables) : e.seq <= lastSeq
  /\ \A n \in DOMAIN disk.logs : \A e \in LogSet(disk, n) : e.seq <= lastSeq \/ e \in Flying
  /\ kept \subseteq Ids(ImmEntries \cup TableSet(disk, l0 \cup deep)
                        \cup (mem \cap SyncedSet(disk, logfile)))

EditOK ==
  edit # None =>
    /\ edit \in EditRecord /\ edit.next <= next /\ edit.last <= lastSeq
    /\ ~ IsSyncing => \A m \in ToSet(disk.manifest) : m.next <= edit.next
    /\ IsSyncing => Manifest.log = edit.log
    /\ IF flush # None
       THEN /\ edit.del = {} /\ flush \notin pending
            /\ \/ /\ edit.add0 \cup edit.add = {flush}
                  /\ flush \in DOMAIN disk.tables /\ disk.tables[flush] = ImmEntries
               \/ edit.add0 \cup edit.add = {} /\ ImmEntries = {}
       ELSE /\ compaction # None /\ compaction.stage \in {"install", "move"}
            /\ edit.add0 = {} /\ edit.del = compaction.inputs
            /\ edit.add = IF compaction.stage = "move" THEN compaction.inputs
                          ELSE {compaction.output}

FlushOK ==
  flush # None =>
    /\ imm # {} /\ flush \in Nat /\ flush < next
    /\ edit = None => flush \in pending /\ flush \notin DOMAIN disk.tables
    /\ compaction # None => compaction.stage = "merge"

CompactionOK ==
  compaction # None =>
    /\ compaction \in CompactionRecord
    /\ compaction.inputs \subseteq l0 \cup deep
    /\ compaction.base \subseteq DOMAIN disk.tables
    /\ compaction.output # 0 =>
         /\ compaction.output \in pending \cap DOMAIN disk.tables
         /\ disk.tables[compaction.output] = TableSet(disk, compaction.inputs)
    /\ compaction.stage = "install" => compaction.output # 0
    /\ compaction.stage # "merge" => edit # None /\ flush = None

WorkOK ==
  /\ pending \subseteq Nat /\ {bgError, scheduled} \subseteq BOOLEAN
  /\ pinned \in [Reader -> MaybeOneOf(SUBSET DOMAIN disk.tables)]
  /\ flush # None \/ compaction # None \/ ~ bgError => CurrentTables \subseteq TablesOf(Manifest)
  /\ ~ bgError => TablesOf(Manifest) \subseteq CurrentTables

IsRunning == up \in {"open", "closing"}

Running ==
  /\ MemoryOK /\ EditOK /\ FlushOK /\ CompactionOK /\ WorkOK
  /\ recovery = None
  /\ \A m \in Versions : UpToDate(m, disk, Visible, logfile, next, lastSeq)
  /\ \A m \in Versions : VersionOK(m, disk, Visible, asked, kept)

\* Nothing is left of the last process.
Quiet ==
  /\ writers = <<>> /\ call = [w \in Thread |-> None]
  /\ asleep = {} /\ awaiting = {} /\ group = None
  /\ mem = {} /\ imm = {}
  /\ pending = {} /\ bgError = FALSE /\ scheduled = FALSE
  /\ flush = None /\ compaction = None /\ edit = None
  /\ pinned = [r \in Reader |-> None]

Down ==
  /\ Quiet
  /\ l0 \subseteq Nat /\ deep \subseteq Nat /\ logNumber \in Nat /\ logfile \in Nat
  /\ next \in Nat /\ lastSeq \in Nat
  /\ up = "down" => l0 = {} /\ deep = {}
  /\ \A m \in ToSet(disk.manifest) : VersionOK(m, disk, Visible, asked, kept)

\* What has been replayed is in the new tables.
Replayed == LogsFrom(disk, logNumber) \ recovery.logs

Recovering ==
  /\ l0 = Manifest.l0 /\ deep = Manifest.deep /\ logNumber = Manifest.log
  /\ recovery.logs \subseteq LogsFrom(disk, logNumber)
  /\ recovery.tables \subseteq DOMAIN disk.tables
  /\ TableSet(disk, recovery.tables) = UNION {LogSet(disk, n) : n \in Replayed}
  /\ Manifest.next < next /\ Manifest.last <= lastSeq
  /\ \A t \in recovery.tables : t < next
  /\ \A n \in Replayed : n < next
  /\ \A e \in TableSet(disk, recovery.tables) : e.seq <= lastSeq

IInv ==
  /\ up \in {"open", "closing", "down", "recovering"}
  /\ DiskOK(disk) /\ QueueOK /\ UsedOK /\ EntriesOK /\ GroupOK
  /\ IsRunning => Running
  /\ ~ IsRunning => Down
  /\ up = "recovering" => Recovering

-----------------------------------------------------------------------------
(* Files.                                                                  *)

LEMMA LogHas ==
  ASSUME NEW d, NEW n, NEW e
  PROVE  e \in LogSet(d, n) <=> \E i \in DOMAIN d.logs[n].records : e \in d.logs[n].records[i]
BY DEF LogSet, ToSet

LEMMA SyncedHas ==
  ASSUME NEW d, NEW n, NEW e
  PROVE  e \in SyncedSet(d, n) <=> \E i \in 1 .. d.logs[n].synced : e \in d.logs[n].records[i]
BY DEF SyncedSet

LEMMA TableHas ==
  ASSUME NEW d, NEW T, NEW e
  PROVE  e \in TableSet(d, T) <=> \E t \in T : t \in DOMAIN d.tables /\ e \in d.tables[t]
BY DEF TableSet

LEMMA ContentHas ==
  ASSUME NEW d, NEW m, NEW e
  PROVE  /\ e \in Content(d, m) <=>
              \/ e \in TableSet(d, TablesOf(m))
              \/ \E n \in DOMAIN d.logs : n >= m.log /\ e \in LogSet(d, n)
         /\ e \in Secured(d, m) <=>
              \/ e \in TableSet(d, TablesOf(m))
              \/ \E n \in DOMAIN d.logs : n >= m.log /\ e \in SyncedSet(d, n)
BY DEF Content, Secured, LogsFrom

LEMMA FilesHas ==
  ASSUME NEW d, NEW e
  PROVE  e \in Files(d) <=> \/ e \in TableSet(d, DOMAIN d.tables)
                            \/ \E n \in DOMAIN d.logs : e \in LogSet(d, n)
BY DEF Files

LEMMA TableMonotone ==
  ASSUME NEW d, NEW S, NEW T, S \subseteq T
  PROVE  TableSet(d, S) \subseteq TableSet(d, T)
BY TableHas

LEMMA TableUnion ==
  ASSUME NEW d, NEW S, NEW T
  PROVE  TableSet(d, S \cup T) = TableSet(d, S) \cup TableSet(d, T)
BY DEF TableSet

LEMMA ContentInFiles ==
  ASSUME NEW d, NEW m
  PROVE  Content(d, m) \subseteq Files(d)
<1>1. \A e : e \in TableSet(d, TablesOf(m)) => e \in TableSet(d, DOMAIN d.tables)
  BY TableHas
<1> QED BY <1>1, ContentHas, FilesHas

LEMMA IdsMonotone ==
  ASSUME NEW S, NEW T, S \subseteq T
  PROVE  Ids(S) \subseteq Ids(T)
BY DEF Ids

LEMMA IdsUnion ==
  ASSUME NEW S, NEW T
  PROVE  Ids(S \cup T) = Ids(S) \cup Ids(T)
BY DEF Ids

LEMMA SyncedIsLogged ==
  ASSUME NEW d, DiskOK(d), NEW n \in DOMAIN d.logs
  PROVE  SyncedSet(d, n) \subseteq LogSet(d, n)
<1>1. d.logs[n].records \in Seq(SUBSET Entry) /\ d.logs[n].synced \in Nat
      /\ d.logs[n].synced <= Len(d.logs[n].records)
  BY DEF DiskOK
<1>2. \A i \in 1 .. d.logs[n].synced : i \in DOMAIN d.logs[n].records
  BY <1>1
<1> QED BY <1>2, SyncedHas, LogHas

\* Nothing goes but, in logs, A is added.
Grows(d, q, T, A) ==
  /\ \A t \in T : t \in DOMAIN d.tables => t \in DOMAIN q.tables /\ q.tables[t] = d.tables[t]
  /\ DOMAIN d.logs \subseteq DOMAIN q.logs
  /\ \A n \in DOMAIN d.logs :
       /\ LogSet(d, n) \subseteq LogSet(q, n) /\ LogSet(q, n) \subseteq LogSet(d, n) \cup A
       /\ SyncedSet(d, n) \subseteq SyncedSet(q, n)
  /\ \A n \in DOMAIN q.logs \ DOMAIN d.logs : LogSet(q, n) = {}

LEMMA GrowsTables ==
  ASSUME NEW d, NEW q, NEW T, NEW A, Grows(d, q, T, A), NEW S \in SUBSET T,
         S \subseteq DOMAIN d.tables
  PROVE  TableSet(q, S) = TableSet(d, S)
<1>1. \A t \in S : t \in DOMAIN d.tables /\ t \in DOMAIN q.tables /\ q.tables[t] = d.tables[t]
  BY DEF Grows
<1>2. \A e : e \in TableSet(q, S) <=> e \in TableSet(d, S)
  BY <1>1, TableHas
<1> QED BY <1>2

LEMMA GrowsHas ==
  ASSUME NEW d, NEW q, NEW T, NEW A, Grows(d, q, T, A), NEW m, TablesOf(m) \subseteq T,
         TablesOf(m) \subseteq DOMAIN d.tables
  PROVE  /\ Content(d, m) \subseteq Content(q, m) /\ Secured(d, m) \subseteq Secured(q, m)
         /\ Content(q, m) \subseteq Content(d, m) \cup A
<1>1. TableSet(q, TablesOf(m)) = TableSet(d, TablesOf(m))
  BY GrowsTables
<1>2. /\ \A n \in DOMAIN d.logs :
           /\ n \in DOMAIN q.logs
           /\ \A e : (e \in LogSet(d, n) => e \in LogSet(q, n))
                  /\ (e \in LogSet(q, n) => e \in LogSet(d, n) \cup A)
                  /\ (e \in SyncedSet(d, n) => e \in SyncedSet(q, n))
      /\ \A n \in DOMAIN q.logs : n \notin DOMAIN d.logs => \A e : e \notin LogSet(q, n)
  BY DEF Grows
<1> QED BY <1>1, <1>2, ContentHas

\* A version stays sound when files grow, ...
LEMMA VersionGrows ==
  ASSUME NEW d, NEW q, NEW T, NEW A, Grows(d, q, T, A), NEW m, TablesOf(m) \subseteq T,
         NEW V, NEW a, NEW k, VersionOK(m, d, V, a, k), Ids(A) \subseteq a \cup Ids(V)
  PROVE  VersionOK(m, q, V, a, k)
<1>1. TablesOf(m) \subseteq DOMAIN d.tables
  BY DEF VersionOK
<1>2. /\ Secured(d, m) \subseteq Secured(q, m) /\ Content(q, m) \subseteq Content(d, m) \cup A
      /\ TableSet(q, TablesOf(m)) = TableSet(d, TablesOf(m))
  BY <1>1, GrowsHas, GrowsTables
<1>3. Ids(Secured(d, m)) \subseteq Ids(Secured(q, m))
  BY <1>2, IdsMonotone
<1>4. Ids(Content(q, m)) \subseteq Ids(Content(d, m)) \cup Ids(A)
  <2>1. Ids(Content(q, m)) \subseteq Ids(Content(d, m) \cup A)
    BY <1>2, IdsMonotone
  <2> QED BY <2>1, IdsUnion
<1>5. \A t \in TablesOf(m) : t \in DOMAIN q.tables
  BY <1>1 DEF Grows
<1> QED BY <1>2, <1>3, <1>4, <1>5 DEF VersionOK

\* ... and when what is asked and what is seen changes together.
LEMMA VersionSeen ==
  ASSUME NEW m, NEW d, NEW V, NEW a, NEW k, VersionOK(m, d, V, a, k),
         NEW W, NEW b, NEW l, a \cup Ids(V) \subseteq b \cup Ids(W), l \subseteq Ids(Secured(d, m))
  PROVE  VersionOK(m, d, W, b, l)
BY DEF VersionOK

\* Versions are about files only.
LEMMA VersionFiles ==
  ASSUME NEW m, NEW d, NEW q, d.logs = q.logs, d.tables = q.tables
  PROVE  /\ Content(q, m) = Content(d, m) /\ Secured(q, m) = Secured(d, m) /\ Files(q) = Files(d)
         /\ \A T : TableSet(q, T) = TableSet(d, T)
         /\ \A n : LogSet(q, n) = LogSet(d, n) /\ SyncedSet(q, n) = SyncedSet(d, n)
         /\ \A V, a, k : VersionOK(m, q, V, a, k) <=> VersionOK(m, d, V, a, k)
<1>1. /\ \A T : TableSet(q, T) = TableSet(d, T)
      /\ \A n : LogSet(q, n) = LogSet(d, n) /\ SyncedSet(q, n) = SyncedSet(d, n)
  BY DEF TableSet, LogSet, SyncedSet
<1>2. Content(q, m) = Content(d, m)
  BY <1>1 DEF Content, LogsFrom
<1>3. Secured(q, m) = Secured(d, m)
  BY <1>1 DEF Secured, LogsFrom
<1>4. Files(q) = Files(d)
  BY <1>1 DEF Files
<1> QED BY <1>1, <1>2, <1>3, <1>4 DEF VersionOK

\* What is left of the files: some tables, and the logs from n on.
Leaves(d, q, T, n) ==
  /\ \A t \in DOMAIN q.tables : t \in DOMAIN d.tables /\ q.tables[t] = d.tables[t]
  /\ \A t \in T : t \in DOMAIN d.tables => t \in DOMAIN q.tables
  /\ \A i \in DOMAIN q.logs : i \in DOMAIN d.logs /\ q.logs[i] = d.logs[i]
  /\ \A i \in DOMAIN d.logs : i >= n => i \in DOMAIN q.logs

LEMMA LeavesHas ==
  ASSUME NEW d, NEW q, NEW T, NEW n \in Nat, Leaves(d, q, T, n)
  PROVE  /\ \A S \in SUBSET T : TableSet(q, S) = TableSet(d, S)
         /\ \A i \in DOMAIN q.logs : LogSet(q, i) = LogSet(d, i) /\ SyncedSet(q, i) = SyncedSet(d, i)
         /\ Files(q) \subseteq Files(d)
<1>1. ASSUME NEW S \in SUBSET T PROVE TableSet(q, S) = TableSet(d, S)
  <2>1. ASSUME NEW e \in TableSet(q, S) PROVE e \in TableSet(d, S)
    <3>1. PICK t \in S : t \in DOMAIN q.tables /\ e \in q.tables[t]
      BY <2>1, TableHas
    <3>2. t \in DOMAIN d.tables /\ e \in d.tables[t]
      BY <3>1 DEF Leaves
    <3> QED BY <3>2, TableHas
  <2>2. ASSUME NEW e \in TableSet(d, S) PROVE e \in TableSet(q, S)
    <3>1. PICK t \in S : t \in DOMAIN d.tables /\ e \in d.tables[t]
      BY <2>2, TableHas
    <3>2. t \in DOMAIN q.tables /\ e \in q.tables[t]
      BY <3>1 DEF Leaves
    <3> QED BY <3>2, TableHas
  <2> QED BY <2>1, <2>2
<1>2. \A i \in DOMAIN q.logs :
        i \in DOMAIN d.logs /\ LogSet(q, i) = LogSet(d, i) /\ SyncedSet(q, i) = SyncedSet(d, i)
  BY DEF Leaves, LogSet, SyncedSet
<1>3. \A e : e \in TableSet(q, DOMAIN q.tables) => e \in TableSet(d, DOMAIN d.tables)
  BY TableHas DEF Leaves
<1>4. Files(q) \subseteq Files(d)
  BY <1>2, <1>3, FilesHas
<1> QED BY <1>1, <1>2, <1>4

LEMMA VersionLeft ==
  ASSUME NEW d, NEW q, NEW T, NEW n \in Nat, Leaves(d, q, T, n), DOMAIN d.logs \subseteq Nat,
         NEW m \in VersionState, TablesOf(m) \subseteq T, m.log >= n
  PROVE  /\ Content(q, m) = Content(d, m)
         /\ \A V, a, k : VersionOK(m, d, V, a, k) => VersionOK(m, q, V, a, k)
<1>0. m.log \in Nat
  BY DEF VersionState
<1>1. TableSet(q, TablesOf(m)) = TableSet(d, TablesOf(m))
  BY LeavesHas
<1>2. \A i : i \in DOMAIN q.logs /\ i >= m.log <=> i \in DOMAIN d.logs /\ i >= m.log
  BY <1>0 DEF Leaves
<1>3. \A i \in DOMAIN q.logs : LogSet(q, i) = LogSet(d, i) /\ SyncedSet(q, i) = SyncedSet(d, i)
  BY LeavesHas
<1>4. \A e : e \in Content(q, m) <=> e \in Content(d, m)
  BY <1>1, <1>2, <1>3, ContentHas
<1>5. \A e : e \in Secured(q, m) <=> e \in Secured(d, m)
  BY <1>1, <1>2, <1>3, ContentHas
<1>6. Content(q, m) = Content(d, m) /\ Secured(q, m) = Secured(d, m)
  BY <1>4, <1>5
<1>7. ASSUME NEW t \in TablesOf(m), t \in DOMAIN d.tables PROVE t \in DOMAIN q.tables
  BY <1>7 DEF Leaves
<1> QED BY <1>1, <1>6, <1>7 DEF VersionOK

-----------------------------------------------------------------------------
(* What the file operations do.                                            *)

\* One more table.
TableIsAdded(d, q, t, c) == q = [d EXCEPT !.tables = With(@, t, c)]

OneMoreTable(d, q, t, c) ==
  /\ DiskOK(q) /\ q.logs = d.logs /\ q.manifest = d.manifest
  /\ DOMAIN q.tables = DOMAIN d.tables \cup {t} /\ q.tables[t] = c
  /\ \A s \in DOMAIN d.tables : s # t => q.tables[s] = d.tables[s]
  /\ \A T : t \notin T => Grows(d, q, T, {})
  /\ Files(q) \subseteq Files(d) \cup c

LEMMA TableMade ==
  ASSUME NEW d, DiskOK(d), NEW t \in Nat, NEW c \in SUBSET Entry,
         NEW q, TableIsAdded(d, q, t, c)
  PROVE  OneMoreTable(d, q, t, c)
<1>1. /\ DOMAIN q = {"logs", "tables", "manifest"}
      /\ q.logs = d.logs /\ q.manifest = d.manifest /\ q.tables = With(d.tables, t, c)
  BY DEF DiskOK, TableIsAdded
<1>2. /\ DOMAIN q.tables = DOMAIN d.tables \cup {t} /\ q.tables[t] = c
      /\ \A s \in DOMAIN d.tables : s # t => q.tables[s] = d.tables[s]
  BY <1>1 DEF With
<1>3. DiskOK(q)
  BY <1>1, <1>2 DEF DiskOK
<1>4. \A n : LogSet(q, n) = LogSet(d, n) /\ SyncedSet(q, n) = SyncedSet(d, n)
  BY <1>1 DEF LogSet, SyncedSet
<1>5. ASSUME NEW T, t \notin T PROVE Grows(d, q, T, {})
  BY <1>1, <1>2, <1>4, <1>5 DEF Grows
<1>6. ASSUME NEW e \in TableSet(q, DOMAIN q.tables)
      PROVE  e \in TableSet(d, DOMAIN d.tables) \/ e \in c
  <2>1. PICK s \in DOMAIN q.tables : e \in q.tables[s]
    BY <1>6, TableHas
  <2>2. CASE s = t
    BY <1>2, <2>1, <2>2
  <2>3. CASE s # t
    BY <1>2, <2>1, <2>3, TableHas
  <2> QED BY <2>2, <2>3
<1>7. Files(q) \subseteq Files(d) \cup c
  BY <1>1, <1>4, <1>6, FilesHas
<1> QED BY <1>1, <1>2, <1>3, <1>5, <1>7 DEF OneMoreTable

\* One more log.
LogIsBegun(d, q, n) == q = [d EXCEPT !.logs = With(@, n, NewLog)]

OneMoreLog(d, q, n) ==
  /\ DiskOK(q) /\ q.tables = d.tables /\ q.manifest = d.manifest
  /\ DOMAIN q.logs = DOMAIN d.logs \cup {n} /\ LogSet(q, n) = {}
  /\ \A i \in DOMAIN d.logs : LogSet(q, i) = LogSet(d, i) /\ SyncedSet(q, i) = SyncedSet(d, i)
  /\ \A T : Grows(d, q, T, {})
  /\ Files(q) \subseteq Files(d)

LEMMA LogMade ==
  ASSUME NEW d, DiskOK(d), NEW n \in Nat, n \notin DOMAIN d.logs,
         NEW q, LogIsBegun(d, q, n)
  PROVE  OneMoreLog(d, q, n)
<1>1. /\ DOMAIN q = {"logs", "tables", "manifest"}
      /\ q.tables = d.tables /\ q.manifest = d.manifest /\ q.logs = With(d.logs, n, NewLog)
  BY DEF DiskOK, LogIsBegun
<1>2. /\ DOMAIN q.logs = DOMAIN d.logs \cup {n} /\ q.logs[n] = NewLog
      /\ \A i \in DOMAIN d.logs : q.logs[i] = d.logs[i]
  BY <1>1 DEF With
<1>3. /\ NewLog \in [records : Seq(SUBSET Entry), synced : Nat]
      /\ Len(NewLog.records) = 0 /\ NewLog.synced = 0 /\ DOMAIN NewLog.records = {}
  BY DEF NewLog
<1>4. DiskOK(q)
  <2>1. \A i \in 1 .. Len(q.logs[n].records) : IsFiniteSet(q.logs[n].records[i])
    BY <1>2, <1>3
  <2> QED BY <1>1, <1>2, <1>3, <2>1 DEF DiskOK
<1>5. \A i \in DOMAIN d.logs : LogSet(q, i) = LogSet(d, i) /\ SyncedSet(q, i) = SyncedSet(d, i)
  BY <1>2 DEF LogSet, SyncedSet
<1>6. LogSet(q, n) = {}
  BY <1>2, <1>3 DEF LogSet, ToSet
<1>7. ASSUME NEW T PROVE Grows(d, q, T, {})
  BY <1>1, <1>2, <1>5, <1>6 DEF Grows
<1>8. \A T : TableSet(q, T) = TableSet(d, T)
  BY <1>1 DEF TableSet
<1>9. Files(q) \subseteq Files(d)
  BY <1>1, <1>2, <1>5, <1>6, <1>8, FilesHas
<1> QED BY <1>1, <1>2, <1>4, <1>5, <1>6, <1>7, <1>9 DEF OneMoreLog

\* One more record in a log.
LEMMA RecordAdded ==
  ASSUME NEW d, DiskOK(d), NEW n \in DOMAIN d.logs, NEW g \in SUBSET Entry, IsFiniteSet(g),
         NEW q, q = [d EXCEPT !.logs[n].records = Append(@, g)]
  PROVE  /\ DiskOK(q) /\ q.tables = d.tables /\ q.manifest = d.manifest
         /\ DOMAIN q.logs = DOMAIN d.logs /\ LogSet(q, n) = LogSet(d, n) \cup g
         /\ \A i \in DOMAIN d.logs : /\ i # n => LogSet(q, i) = LogSet(d, i)
                                     /\ SyncedSet(q, i) = SyncedSet(d, i)
         /\ \A T : Grows(d, q, T, g)
         /\ Files(q) \subseteq Files(d) \cup g
<1> DEFINE r == d.logs[n].records
<1>1. /\ DOMAIN q = {"logs", "tables", "manifest"}
      /\ q.tables = d.tables /\ q.manifest = d.manifest
      /\ q.logs = [d.logs EXCEPT ![n].records = Append(r, g)]
  BY DEF DiskOK
<1>2. /\ d.logs[n] \in [records : Seq(SUBSET Entry), synced : Nat] /\ d.logs[n].synced <= Len(r)
      /\ \A i \in 1 .. Len(r) : IsFiniteSet(r[i])
  BY DEF DiskOK
<1>3. /\ DOMAIN q.logs = DOMAIN d.logs
      /\ q.logs[n] = [d.logs[n] EXCEPT !.records = Append(r, g)]
      /\ \A i \in DOMAIN d.logs : i # n => q.logs[i] = d.logs[i]
  BY <1>1
<1>4. q.logs[n].records = Append(r, g) /\ q.logs[n].synced = d.logs[n].synced
      /\ q.logs[n] \in [records : Seq(SUBSET Entry), synced : Nat]
  <2>1. Append(r, g) \in Seq(SUBSET Entry)
    BY <1>2
  <2>2. \A x \in [records : Seq(SUBSET Entry), synced : Nat] : \A a \in Seq(SUBSET Entry) :
          /\ [x EXCEPT !.records = a] \in [records : Seq(SUBSET Entry), synced : Nat]
          /\ [x EXCEPT !.records = a].records = a /\ [x EXCEPT !.records = a].synced = x.synced
    OBVIOUS
  <2>3. PICK x \in [records : Seq(SUBSET Entry), synced : Nat] : x = d.logs[n]
    BY <1>2
  <2>4. PICK a \in Seq(SUBSET Entry) : a = Append(r, g)
    BY <2>1
  <2>5. q.logs[n] = [x EXCEPT !.records = a]
    BY <1>3, <2>3, <2>4
  <2>6. q.logs[n].records = a /\ q.logs[n].synced = x.synced
        /\ q.logs[n] \in [records : Seq(SUBSET Entry), synced : Nat]
    BY <2>2, <2>5
  <2> QED BY <2>3, <2>4, <2>6
<1>5. /\ r \in Seq(SUBSET Entry) /\ Len(r) \in Nat /\ DOMAIN r = 1 .. Len(r)
      /\ Len(Append(r, g)) = Len(r) + 1 /\ DOMAIN Append(r, g) = 1 .. Len(r) + 1
      /\ \A i \in 1 .. Len(r) : Append(r, g)[i] = r[i]
      /\ Append(r, g)[Len(r) + 1] = g
  BY <1>2
<1> HIDE DEF r
<1>6. DiskOK(q)
  <2>1. \A i \in 1 .. Len(r) + 1 : IsFiniteSet(Append(r, g)[i])
    BY <1>2, <1>5
  <2>2. d.logs[n].synced <= Len(r) + 1
    BY <1>2, <1>5
  <2>3. \A i \in DOMAIN d.logs :
          /\ q.logs[i] \in [records : Seq(SUBSET Entry), synced : Nat]
          /\ q.logs[i].synced <= Len(q.logs[i].records)
          /\ \A j \in 1 .. Len(q.logs[i].records) : IsFiniteSet(q.logs[i].records[j])
    <3> SUFFICES ASSUME NEW i \in DOMAIN d.logs
                 PROVE  /\ q.logs[i] \in [records : Seq(SUBSET Entry), synced : Nat]
                        /\ q.logs[i].synced <= Len(q.logs[i].records)
                        /\ \A j \in 1 .. Len(q.logs[i].records) : IsFiniteSet(q.logs[i].records[j])
      OBVIOUS
    <3>1. CASE i = n
      BY <1>4, <1>5, <2>1, <2>2, <3>1
    <3>2. CASE i # n
      BY <1>3, <3>2 DEF DiskOK
    <3> QED BY <3>1, <3>2
  <2> QED BY <1>1, <1>3, <2>3 DEF DiskOK
<1>7. LogSet(q, n) = LogSet(d, n) \cup g
  <2>0. DOMAIN q.logs[n].records = 1 .. Len(r) + 1
    BY <1>4, <1>5
  <2>1. \A e : e \in LogSet(q, n) <=> \E i \in 1 .. Len(r) + 1 : e \in Append(r, g)[i]
    BY <1>4, <2>0, LogHas
  <2>2. \A e : e \in LogSet(d, n) <=> \E i \in 1 .. Len(r) : e \in r[i]
    BY <1>5, LogHas DEF r
  <2>3. Len(r) + 1 \in 1 .. Len(r) + 1 /\ \A i \in 1 .. Len(r) + 1 : i = Len(r) + 1 \/ i \in 1 .. Len(r)
    BY <1>5
  <2>4. ASSUME NEW e \in LogSet(q, n) PROVE e \in LogSet(d, n) \cup g
    BY <1>5, <2>1, <2>2, <2>3, <2>4
  <2>5. ASSUME NEW e \in LogSet(d, n) PROVE e \in LogSet(q, n)
    <3>1. PICK i \in 1 .. Len(r) : e \in r[i]
      BY <2>2, <2>5
    <3>2. i \in 1 .. Len(r) + 1 /\ e \in Append(r, g)[i]
      BY <3>1, <1>5
    <3> QED BY <3>2, <2>1
  <2>6. ASSUME NEW e \in g PROVE e \in LogSet(q, n)
    BY <1>5, <2>1, <2>3, <2>6
  <2> QED BY <2>4, <2>5, <2>6
<1>8. ASSUME NEW i \in DOMAIN d.logs PROVE SyncedSet(q, i) = SyncedSet(d, i)
  <2>1. CASE i # n
    BY <1>3, <2>1 DEF SyncedSet
  <2>2. CASE i = n
    <3>1. \A j \in 1 .. d.logs[n].synced : j \in 1 .. Len(r)
      BY <1>2, <1>5
    <3>2. \A j \in 1 .. d.logs[n].synced : q.logs[n].records[j] = d.logs[n].records[j]
      BY <3>1, <1>4, <1>5 DEF r
    <3>3. \A e : e \in SyncedSet(q, n) <=> e \in SyncedSet(d, n)
      BY <3>2, <1>4, SyncedHas
    <3>4. SyncedSet(q, n) = SyncedSet(d, n)
      BY <3>3
    <3> QED BY <2>2, <3>4
  <2> QED BY <2>1, <2>2
<1>9. \A i \in DOMAIN d.logs : i # n => LogSet(q, i) = LogSet(d, i)
  BY <1>3 DEF LogSet
<1>10. ASSUME NEW T PROVE Grows(d, q, T, g)
  BY <1>1, <1>3, <1>7, <1>8, <1>9 DEF Grows
<1>11. \A T : TableSet(q, T) = TableSet(d, T)
  BY <1>1 DEF TableSet
<1>12. Files(q) \subseteq Files(d) \cup g
  <2>1. \A i \in DOMAIN d.logs : LogSet(q, i) \subseteq LogSet(d, i) \cup g
    BY <1>7, <1>9
  <2>2. TableSet(q, DOMAIN q.tables) = TableSet(d, DOMAIN d.tables)
    BY <1>1, <1>11
  <2> QED BY <1>3, <2>1, <2>2, FilesHas
<1> QED BY <1>1, <1>3, <1>6, <1>7, <1>8, <1>9, <1>10, <1>12

\* A log is synced.
LEMMA LogSynced ==
  ASSUME NEW d, DiskOK(d), NEW n \in DOMAIN d.logs,
         NEW q, q = [d EXCEPT !.logs[n].synced = Len(d.logs[n].records)]
  PROVE  /\ DiskOK(q) /\ q.tables = d.tables /\ q.manifest = d.manifest
         /\ DOMAIN q.logs = DOMAIN d.logs /\ SyncedSet(q, n) = LogSet(d, n)
         /\ \A i \in DOMAIN d.logs : LogSet(q, i) = LogSet(d, i) /\ SyncedSet(d, i) \subseteq SyncedSet(q, i)
         /\ \A T : Grows(d, q, T, {})
         /\ Files(q) = Files(d)
<1> DEFINE r == d.logs[n].records
<1>1. /\ DOMAIN q = {"logs", "tables", "manifest"}
      /\ q.tables = d.tables /\ q.manifest = d.manifest
      /\ q.logs = [d.logs EXCEPT ![n].synced = Len(r)]
  BY DEF DiskOK
<1>2. d.logs[n] \in [records : Seq(SUBSET Entry), synced : Nat] /\ d.logs[n].synced <= Len(r)
  BY DEF DiskOK
<1>3. /\ DOMAIN q.logs = DOMAIN d.logs
      /\ q.logs[n] = [d.logs[n] EXCEPT !.synced = Len(r)]
      /\ \A i \in DOMAIN d.logs : i # n => q.logs[i] = d.logs[i]
  BY <1>1
<1>4. /\ q.logs[n].records = r /\ q.logs[n].synced = Len(r)
      /\ q.logs[n] \in [records : Seq(SUBSET Entry), synced : Nat]
      /\ r \in Seq(SUBSET Entry) /\ Len(r) \in Nat /\ DOMAIN r = 1 .. Len(r)
  BY <1>2, <1>3
<1>5. DiskOK(q)
  <2>1. \A i \in DOMAIN d.logs :
          /\ q.logs[i] \in [records : Seq(SUBSET Entry), synced : Nat]
          /\ q.logs[i].synced <= Len(q.logs[i].records)
          /\ \A j \in 1 .. Len(q.logs[i].records) : IsFiniteSet(q.logs[i].records[j])
    BY <1>3, <1>4 DEF DiskOK
  <2> QED BY <1>1, <1>3, <2>1 DEF DiskOK
<1>6. \A i \in DOMAIN d.logs : LogSet(q, i) = LogSet(d, i)
  BY <1>3, <1>4 DEF LogSet
<1>7. SyncedSet(q, n) = LogSet(d, n)
  <2>1. \A e : e \in SyncedSet(q, n) <=> e \in LogSet(d, n)
    BY <1>4, SyncedHas, LogHas
  <2> QED BY <2>1
<1>8. \A i \in DOMAIN d.logs : SyncedSet(d, i) \subseteq SyncedSet(q, i)
  <2>1. SyncedSet(d, n) \subseteq SyncedSet(q, n)
    BY <1>7, SyncedIsLogged
  <2>2. \A i \in DOMAIN d.logs : i # n => SyncedSet(q, i) = SyncedSet(d, i)
    BY <1>3 DEF SyncedSet
  <2> QED BY <2>1, <2>2
<1>9. ASSUME NEW T PROVE Grows(d, q, T, {})
  BY <1>1, <1>3, <1>6, <1>8 DEF Grows
<1>10. \A T : TableSet(q, T) = TableSet(d, T)
  BY <1>1 DEF TableSet
<1>11. \A e : e \in Files(q) <=> e \in Files(d)
  BY <1>1, <1>3, <1>6, <1>10, FilesHas
<1> QED BY <1>1, <1>3, <1>5, <1>6, <1>7, <1>8, <1>9, <1>11

\* A manifest that says something else.
LEMMA ManifestSays ==
  ASSUME NEW d, DiskOK(d), NEW s \in Seq(VersionState), s # <<>>,
         \A i \in 1 .. Len(s) : s[i].next <= Last(s).next,
         NEW q, q = [d EXCEPT !.manifest = s]
  PROVE  DiskOK(q) /\ q.logs = d.logs /\ q.tables = d.tables /\ q.manifest = s
<1>1. DOMAIN q = {"logs", "tables", "manifest"}
      /\ q.logs = d.logs /\ q.tables = d.tables /\ q.manifest = s
  BY DEF DiskOK
<1> QED BY <1>1 DEF DiskOK

\* A log is finite.
LEMMA LogIsFinite ==
  ASSUME NEW d, DiskOK(d), NEW n \in DOMAIN d.logs
  PROVE  IsFiniteSet(LogSet(d, n)) /\ LogSet(d, n) \subseteq Entry
<1> DEFINE r == d.logs[n].records
<1>1. r \in Seq(SUBSET Entry) /\ Len(r) \in Nat /\ DOMAIN r = 1 .. Len(r)
  BY DEF DiskOK
<1>2. \A i \in 1 .. Len(r) : IsFiniteSet(r[i])
  BY DEF DiskOK
<1>3. LogSet(d, n) = UNION {r[i] : i \in 1 .. Len(r)}
  BY <1>1 DEF LogSet, ToSet
<1> HIDE DEF r
<1> DEFINE U == [i \in Nat |-> UNION {r[j] : j \in 1 .. i}]
           H == {i \in Nat : i <= Len(r) => IsFiniteSet(U[i])}
<1>4. U[0] = {} /\ U[Len(r)] = LogSet(d, n)
  BY <1>1, <1>3
<1>5. ASSUME NEW i \in Nat PROVE U[i + 1] = U[i] \cup r[i + 1]
  <2>1. 1 .. i + 1 = (1 .. i) \cup {i + 1}
    OBVIOUS
  <2> QED BY <2>1
<1> HIDE DEF U
<1>6. 0 \in H
  BY <1>4, FS_EmptySet
<1>7. ASSUME NEW i \in H PROVE i + 1 \in H
  <2>1. CASE i + 1 <= Len(r)
    <3>1. IsFiniteSet(U[i]) /\ IsFiniteSet(r[i + 1])
      BY <1>1, <1>2, <2>1
    <3>2. IsFiniteSet(U[i] \cup r[i + 1])
      BY <3>1, FS_Union
    <3>3. i \in Nat
      OBVIOUS
    <3>4. IsFiniteSet(U[i + 1])
      BY <3>2, <3>3, <1>5
    <3> QED BY <3>3, <3>4
  <2>2. CASE ~ (i + 1 <= Len(r))
    BY <2>2
  <2> QED BY <2>1, <2>2
<1>8. H = Nat
  <2> HIDE DEF H
  <2> QED BY <1>6, <1>7, NatStep DEF H
<1>9. IsFiniteSet(LogSet(d, n))
  BY <1>1, <1>4, <1>8
<1>10. LogSet(d, n) \subseteq Entry
  BY <1>1, <1>3 DEF DiskOK
<1> QED BY <1>9, <1>10

\* The machine takes what was not synced.
IsTorn(d, q, m, left) ==
  /\ m \in ToSet(d.manifest)
  /\ \A n \in DOMAIN d.logs : left[n] \in d.logs[n].synced .. Len(d.logs[n].records)
  /\ DOMAIN q = {"logs", "tables", "manifest"} /\ q.tables = d.tables /\ q.manifest = <<m>>
  /\ DOMAIN q.logs = DOMAIN d.logs
  /\ \A n \in DOMAIN d.logs : q.logs[n] = [records |-> SubSeq(d.logs[n].records, 1, left[n]),
                                           synced |-> left[n]]

LEMMA DiskTorn ==
  ASSUME NEW d, DiskOK(d), NEW m, NEW left, NEW q, IsTorn(d, q, m, left)
  PROVE  /\ DiskOK(q) /\ q.tables = d.tables /\ q.manifest = <<m>> /\ DOMAIN q.logs = DOMAIN d.logs
         /\ Files(q) \subseteq Files(d)
         /\ \A v : /\ Secured(d, v) \subseteq Secured(q, v) /\ Content(q, v) = Secured(q, v)
                   /\ Content(q, v) \subseteq Content(d, v)
<1>1. /\ DOMAIN q = {"logs", "tables", "manifest"} /\ q.tables = d.tables /\ q.manifest = <<m>>
      /\ DOMAIN q.logs = DOMAIN d.logs
  BY DEF IsTorn
<1>2. ASSUME NEW n \in DOMAIN d.logs
      PROVE  /\ q.logs[n] \in [records : Seq(SUBSET Entry), synced : Nat]
             /\ q.logs[n].synced = Len(q.logs[n].records) /\ Len(q.logs[n].records) \in Nat
             /\ \A i \in 1 .. Len(q.logs[n].records) : IsFiniteSet(q.logs[n].records[i])
             /\ \A e : e \in SyncedSet(d, n) => e \in LogSet(q, n)
             /\ \A e : e \in SyncedSet(q, n) <=> e \in LogSet(q, n)
             /\ \A e : e \in LogSet(q, n) => e \in LogSet(d, n)
  <2>0. d.logs[n] \in [records : Seq(SUBSET Entry), synced : Nat] /\ d.logs[n].synced \in Nat
    BY DEF DiskOK
  <2>1. PICK r \in Seq(SUBSET Entry) : r = d.logs[n].records
    BY <2>0
  <2>2. PICK k \in Nat : k = left[n] /\ k <= Len(r) /\ d.logs[n].synced <= k
    BY <2>0, <2>1 DEF IsTorn
  <2>3. \A x \in Seq(SUBSET Entry) : \A y \in Nat :
          y <= Len(x) => /\ SubSeq(x, 1, y) \in Seq(SUBSET Entry) /\ Len(SubSeq(x, 1, y)) = y
                         /\ DOMAIN SubSeq(x, 1, y) = 1 .. y /\ Len(x) \in Nat
                         /\ DOMAIN x = 1 .. Len(x)
                         /\ \A i \in 1 .. y : SubSeq(x, 1, y)[i] = x[i]
    OBVIOUS
  <2>4. PICK s : s = SubSeq(r, 1, k)
    OBVIOUS
  <2>5. /\ s \in Seq(SUBSET Entry) /\ Len(s) = k /\ DOMAIN s = 1 .. k /\ DOMAIN r = 1 .. Len(r)
        /\ Len(r) \in Nat
        /\ \A i \in 1 .. k : s[i] = r[i]
    BY <2>2, <2>3, <2>4
  <2>6. \A i \in 1 .. k : i \in 1 .. Len(r)
    BY <2>2, <2>5
  <2>7. q.logs[n].records = s /\ q.logs[n].synced = k
        /\ q.logs[n] = [records |-> s, synced |-> k]
    <3>1. q.logs[n] = [records |-> SubSeq(d.logs[n].records, 1, left[n]), synced |-> left[n]]
      BY DEF IsTorn
    <3>2. q.logs[n] = [records |-> s, synced |-> k]
      BY <3>1, <2>1, <2>2, <2>4
    <3> QED BY <3>2
  <2>8. \A i \in 1 .. Len(r) : IsFiniteSet(r[i])
    BY <2>1 DEF DiskOK
  <2>9. \A e : /\ e \in SyncedSet(q, n) <=> \E i \in 1 .. k : e \in s[i]
               /\ e \in LogSet(q, n) <=> \E i \in 1 .. k : e \in s[i]
               /\ e \in LogSet(d, n) <=> \E i \in 1 .. Len(r) : e \in r[i]
               /\ e \in SyncedSet(d, n) <=> \E i \in 1 .. d.logs[n].synced : e \in r[i]
    BY <2>1, <2>5, <2>7, SyncedHas, LogHas
  <2>10. \A i \in 1 .. d.logs[n].synced : i \in 1 .. k
    BY <2>0, <2>2
  <2>11. \A e : e \in LogSet(q, n) => e \in LogSet(d, n)
    BY <2>5, <2>6, <2>9
  <2>12. \A e : e \in SyncedSet(d, n) => e \in LogSet(q, n)
    BY <2>5, <2>9, <2>10
  <2>13. q.logs[n] \in [records : Seq(SUBSET Entry), synced : Nat]
    BY <2>5, <2>7
  <2>14. \A i \in 1 .. k : IsFiniteSet(s[i])
    BY <2>5, <2>6, <2>8
  <2> QED BY <2>5, <2>7, <2>9, <2>11, <2>12, <2>13, <2>14
<1>3. m \in VersionState
  BY DEF DiskOK, ToSet, IsTorn
<1>4. /\ q.manifest \in Seq(VersionState) /\ q.manifest # <<>>
      /\ \A i \in 1 .. Len(q.manifest) : q.manifest[i].next <= Last(q.manifest).next
  <2>1. <<m>> \in Seq(VersionState) /\ Len(<<m>>) = 1 /\ <<m>>[1] = m /\ m.next \in Nat
    BY <1>3 DEF VersionState
  <2>2. \A i \in 1 .. Len(<<m>>) : <<m>>[i] = m /\ Last(<<m>>) = m
    BY <2>1 DEF Last
  <2> QED BY <1>1, <2>1, <2>2
<1>5. DiskOK(q)
  <2>1. \A n \in DOMAIN q.logs : /\ q.logs[n] \in [records : Seq(SUBSET Entry), synced : Nat]
                                 /\ q.logs[n].synced <= Len(q.logs[n].records)
                                 /\ \A i \in 1 .. Len(q.logs[n].records) : IsFiniteSet(q.logs[n].records[i])
    <3> SUFFICES ASSUME NEW n \in DOMAIN d.logs
                 PROVE  /\ q.logs[n] \in [records : Seq(SUBSET Entry), synced : Nat]
                        /\ q.logs[n].synced <= Len(q.logs[n].records)
                        /\ \A i \in 1 .. Len(q.logs[n].records) : IsFiniteSet(q.logs[n].records[i])
      BY <1>1
    <3> QED BY <1>2
  <2>2. /\ DOMAIN q.logs \subseteq Nat /\ DOMAIN q.tables \subseteq Nat
        /\ \A t \in DOMAIN q.tables : q.tables[t] \subseteq Entry
    BY <1>1 DEF DiskOK
  <2> QED BY <1>1, <1>4, <2>1, <2>2 DEF DiskOK
<1>6. \A T : TableSet(q, T) = TableSet(d, T)
  BY <1>1 DEF TableSet
<1>7. ASSUME NEW e \in Files(q) PROVE e \in Files(d)
  <2>1. CASE e \in TableSet(q, DOMAIN q.tables)
    BY <1>1, <1>6, <2>1, FilesHas
  <2>2. CASE \E n \in DOMAIN q.logs : e \in LogSet(q, n)
    <3>1. PICK n \in DOMAIN d.logs : e \in LogSet(q, n)
      BY <1>1, <2>2
    <3>2. e \in LogSet(d, n)
      BY <1>2, <3>1
    <3> QED BY <3>2, FilesHas
  <2> QED BY <2>1, <2>2, FilesHas
<1>8. ASSUME NEW v, NEW e
      PROVE  /\ e \in Secured(d, v) => e \in Secured(q, v)
             /\ e \in Content(q, v) <=> e \in Secured(q, v)
             /\ e \in Content(q, v) => e \in Content(d, v)
  <2>1. \A n \in DOMAIN d.logs : /\ e \in SyncedSet(d, n) => e \in LogSet(q, n)
                                 /\ e \in SyncedSet(q, n) <=> e \in LogSet(q, n)
                                 /\ e \in LogSet(q, n) => e \in LogSet(d, n)
    BY <1>2
  <2> QED BY <1>1, <1>6, <2>1, ContentHas
<1>9. ASSUME NEW v
      PROVE  /\ Secured(d, v) \subseteq Secured(q, v) /\ Content(q, v) = Secured(q, v)
             /\ Content(q, v) \subseteq Content(d, v)
  <2>1. \A e : /\ e \in Secured(d, v) => e \in Secured(q, v)
               /\ e \in Content(q, v) <=> e \in Secured(q, v)
               /\ e \in Content(q, v) => e \in Content(d, v)
    BY <1>8
  <2> QED BY <2>1
<1>10. Files(q) \subseteq Files(d)
  BY <1>7
<1>11. q.tables = d.tables /\ q.manifest = <<m>> /\ DOMAIN q.logs = DOMAIN d.logs
  BY <1>1
<1> QED BY <1>5, <1>9, <1>10, <1>11

-----------------------------------------------------------------------------
(* Versions.                                                               *)

LEMMA LastVersion ==
  ASSUME NEW d, DiskOK(d)
  PROVE  /\ Last(d.manifest) \in ToSet(d.manifest) /\ ToSet(d.manifest) \subseteq VersionState
         /\ \A m \in ToSet(d.manifest) : m.next <= Last(d.manifest).next
BY DEF DiskOK, ToSet, Last

LEMMA ApplyTables ==
  ASSUME NEW m \in VersionState, NEW e \in EditRecord
  PROVE  /\ Apply(m, e) \in VersionState
         /\ TablesOf(Apply(m, e)) = (TablesOf(m) \ e.del) \cup (e.add0 \cup e.add)
         /\ Apply(m, e).log = e.log /\ Apply(m, e).next = e.next /\ Apply(m, e).last = e.last
<1>1. Apply(m, e) \in VersionState
  BY DEF Apply, VersionState, EditRecord
<1>2. /\ Apply(m, e).l0 = (m.l0 \ e.del) \cup e.add0
      /\ Apply(m, e).deep = (m.deep \ e.del) \cup e.add
      /\ Apply(m, e).log = e.log /\ Apply(m, e).next = e.next /\ Apply(m, e).last = e.last
  BY DEF Apply
<1>3. TablesOf(Apply(m, e)) = (TablesOf(m) \ e.del) \cup (e.add0 \cup e.add)
  BY <1>2 DEF TablesOf
<1> QED BY <1>1, <1>2, <1>3

Found == mem \cup ImmEntries \cup TableSet(disk, l0 \cup deep)

LEMMA SeenWhenRunning ==
  ASSUME IsRunning
  PROVE  Visible = {e \in Found : e.seq <= lastSeq}
<1>1. Stored(l0 \cup deep) = TableSet(disk, l0 \cup deep)
  BY DEF Stored, TableSet
<1>2. Visible = {e \in mem \cup (UNION imm) \cup Stored(l0 \cup deep) : e.seq <= lastSeq}
  BY DEF IsRunning, Visible
<1>3. Found = mem \cup (UNION imm) \cup Stored(l0 \cup deep)
  BY <1>1 DEF Found, ImmEntries
<1> QED BY <1>2, <1>3

LEMMA SeenWhenDown ==
  ASSUME ~ IsRunning
  PROVE  Visible = Content(disk, Manifest)
BY DEF IsRunning, Visible, Durable, Stored, Logged, TableSet, LogSet, Content, TablesOf, LogsFrom

\* All versions change alike, unless the edit in progress, the current version
\* or the manifest is another.
LEMMA VersionsStay ==
  ASSUME MemoryOK, DiskOK(disk), DiskOK(disk'), EditOK,
         \A m \in Versions : UpToDate(m, disk, Visible, logfile, next, lastSeq),
         \A m \in Versions : /\ Visible' \subseteq Content(disk', m)
                             /\ VersionOK(m, disk', Visible', asked', kept'),
         disk'.manifest = disk.manifest,
         \/ edit' \in {edit, None}
         \/ \A m \in {Apply(Current', edit'), Apply(Manifest', edit')} :
              /\ UpToDate(m, disk', Visible', logfile', next', lastSeq')
              /\ VersionOK(m, disk', Visible', asked', kept'),
         UNCHANGED <<l0, deep, logNumber>>,
         next' \in Nat, next <= next', lastSeq' \in Nat, lastSeq <= lastSeq',
         logfile' \in Nat, logfile <= logfile'
  PROVE  /\ \A m \in Versions' : UpToDate(m, disk', Visible', logfile', next', lastSeq')
         /\ \A m \in Versions' : VersionOK(m, disk', Visible', asked', kept')
<1>1. ToSet(disk'.manifest) = ToSet(disk.manifest) /\ Manifest' = Manifest
  BY DEF Manifest
<1>2. edit' = edit => Apply(Current', edit') = Apply(Current, edit)
  BY DEF Apply, Current
<1>3. ASSUME NEW m \in Versions'
      PROVE  \/ m \in Versions \/ m = Current'
             \/ /\ UpToDate(m, disk', Visible', logfile', next', lastSeq')
                /\ VersionOK(m, disk', Visible', asked', kept')
  <2>1. CASE edit' = None
    BY <2>1, <1>1 DEF Versions
  <2>2. CASE edit' = edit
    BY <2>2, <1>1, <1>2 DEF Versions, IsSyncing
  <2>3. CASE edit' \notin {edit, None}
    BY <2>3, <1>1 DEF Versions
  <2> QED BY <2>1, <2>2, <2>3
<1>4. Versions \subseteq VersionState
  <2>1. Current \in VersionState
    BY DEF MemoryOK, Current, VersionState
  <2>2. Manifest \in VersionState /\ ToSet(disk.manifest) \subseteq VersionState
    BY LastVersion DEF Manifest
  <2>3. edit # None => Apply(Current, edit) \in VersionState /\ Apply(Manifest, edit) \in VersionState
    BY <2>1, <2>2, ApplyTables DEF EditOK
  <2> QED BY <2>1, <2>2, <2>3 DEF Versions
<1>5. ASSUME NEW m \in Versions PROVE UpToDate(m, disk', Visible', logfile', next', lastSeq')
  <2>1. m.log \in Nat /\ m.next \in Nat /\ m.last \in Nat
    BY <1>4 DEF VersionState
  <2>2. logfile \in Nat /\ next \in Nat /\ lastSeq \in Nat
    BY DEF MemoryOK, DiskOK
  <2>3. m.log <= logfile /\ m.next <= next /\ m.last <= lastSeq
    BY DEF UpToDate
  <2> QED BY <2>1, <2>2, <2>3 DEF UpToDate
<1>6. UpToDate(Current', disk', Visible', logfile', next', lastSeq')
      /\ VersionOK(Current', disk', Visible', asked', kept')
  <2>1. Current \in Versions /\ Current \in VersionState
    BY <1>4 DEF Versions
  <2>2. /\ TablesOf(Current') = TablesOf(Current) /\ Current'.log = Current.log
        /\ Current'.next = next' /\ Current'.last = lastSeq' /\ Current' \in VersionState
        /\ Current.next = next /\ Current.last = lastSeq
    BY <2>1 DEF Current, TablesOf, VersionState
  <2>3. Content(disk', Current') = Content(disk', Current)
        /\ Secured(disk', Current') = Secured(disk', Current)
    BY <2>2 DEF Content, Secured
  <2>4. Visible' \subseteq Content(disk', Current')
    BY <2>1, <2>3
  <2>5. UpToDate(Current, disk', Visible', logfile', next', lastSeq')
        /\ VersionOK(Current, disk', Visible', asked', kept')
    BY <2>1, <1>5
  <2>6. UpToDate(Current', disk', Visible', logfile', next', lastSeq')
    BY <2>2, <2>4, <2>5 DEF UpToDate
  <2>7. \A t \in TablesOf(Current') : t \in DOMAIN disk'.tables /\ t < Current'.next
    <3> SUFFICES ASSUME NEW t \in TablesOf(Current)
                 PROVE  t \in DOMAIN disk'.tables /\ t < next'
      BY <2>2
    <3>1. t \in DOMAIN disk'.tables /\ t < next /\ t \in Nat /\ next \in Nat
      BY <2>1, <2>2, <2>5 DEF VersionOK, VersionState, TablesOf, MemoryOK
    <3> QED BY <3>1
  <2>8. \A e \in TableSet(disk', TablesOf(Current')) : e.seq <= Current'.last
    <3> SUFFICES ASSUME NEW e \in TableSet(disk', TablesOf(Current))
                 PROVE  e.seq <= lastSeq'
      BY <2>2
    <3>1. e.seq <= lastSeq /\ lastSeq \in Nat
      BY <2>2, <2>5 DEF VersionOK, MemoryOK
    <3>2. e \in Entry
      <4>1. TableSet(disk', TablesOf(Current)) \subseteq Entry
        BY DEF DiskOK, TableSet
      <4> QED BY <4>1
    <3> QED BY <3>1, <3>2 DEF Entry
  <2>9. Current'.log < Current'.next
    BY <2>1, <2>2, <2>5 DEF VersionOK, VersionState, MemoryOK
  <2> QED BY <2>2, <2>3, <2>5, <2>6, <2>7, <2>8, <2>9 DEF VersionOK
<1> QED BY <1>3, <1>5, <1>6

-----------------------------------------------------------------------------
(* What a step does not disturb.                                           *)

UsesNoWrite ==
  \/ UNCHANGED <<instance, used>>
  \/ \E what \in {"flushes", "reads", "crashes", "faults"} : Use(what)

\* What is made up is not None.
LEMMA NotNone ==
  /\ \A x \in Nat : x # None
  /\ \A x \in CallRecord : x # None
  /\ \A x \in GroupRecord : x # None
  /\ \A x \in EditRecord : x # None
  /\ \A x \in CompactionRecord : x # None
BY NoneAssumption, Zenon

LEMMA UsedSame ==
  ASSUME UsedOK, UsesNoWrite, asked' \subseteq asked
  PROVE  UsedOK' /\ used'["writes"] = used["writes"] /\ instance' = instance
<1>1. CASE UNCHANGED <<instance, used>>
  BY <1>1 DEF UsedOK
<1>2. ASSUME NEW what \in {"flushes", "reads", "crashes", "faults"}, Use(what)
      PROVE  UsedOK' /\ used'["writes"] = used["writes"] /\ instance' = instance
  <2>1. used' = [used EXCEPT ![what] = used[what] + 1] /\ instance' = instance
    BY <1>2 DEF Use
  <2>2. /\ used' \in [{"writes", "flushes", "reads", "crashes", "faults"} -> Nat]
        /\ used'["writes"] = used["writes"]
    BY <2>1 DEF UsedOK
  <2> QED BY <2>1, <2>2 DEF UsedOK
<1> QED BY <1>1, <1>2 DEF UsesNoWrite

LEMMA QueueSame ==
  ASSUME QueueOK, UNCHANGED <<writers, call, asleep, asked>>, awaiting' \subseteq Thread
  PROVE  QueueOK'
BY DEF QueueOK

LEMMA EntriesSame ==
  ASSUME EntriesOK, Everything' \subseteq Everything, UNCHANGED group,
         used'["writes"] = used["writes"]
  PROVE  EntriesOK'
BY DEF EntriesOK

\* What is asked and answered behind a group is not its business.
LEMMA GroupSame ==
  ASSUME QueueOK, GroupOK, UNCHANGED <<group, lastSeq>>, writers' \in Seq(Thread),
         \A k \in 1 .. Len(writers) :
           /\ k \in 1 .. Len(writers') /\ writers'[k] = writers[k]
           /\ call'[writers[k]] = call[writers[k]],
         LogSet(disk, logfile) \subseteq LogSet(disk', logfile'),
         SyncedSet(disk, logfile) \subseteq SyncedSet(disk', logfile'),
         mem \subseteq mem'
  PROVE  GroupOK'
<1> SUFFICES ASSUME group # None PROVE GroupOK'
  BY DEF GroupOK
<1>0. writers \in Seq(Thread)
  BY DEF QueueOK
<1>1. group.size \in 1 .. Len(writers) /\ Len(writers) \in Nat
  BY <1>0 DEF GroupOK
<1>2. \A k \in 1 .. group.size : k \in 1 .. Len(writers)
  BY <1>1
<1>3. group.size \in 1 .. Len(writers')
  BY <1>1
<1>4. \A k \in 1 .. group.size : call'[writers'[k]] = call[writers[k]]
  BY <1>2
<1>5. {call'[writers'[k]].id : k \in 1 .. group.size} = {call[writers[k]].id : k \in 1 .. group.size}
  BY <1>4
<1>6. /\ group' = group /\ lastSeq' = lastSeq
  OBVIOUS
<1>7. /\ group' \in GroupRecord
      /\ \A e \in group'.entries : lastSeq' < e.seq /\ e.seq <= lastSeq' + Cardinality(group'.entries)
      /\ IsFiniteSet(group'.entries) /\ group'.entries # {}
  BY <1>6 DEF GroupOK
<1>8. /\ Ids(group'.entries) = {call'[writers'[k]].id : k \in 1 .. group'.size} \ {0}
      /\ \A k \in 1 .. group'.size : call'[writers'[k]].sync => group'.sync
  BY <1>4, <1>5, <1>6 DEF GroupOK
<1>9. /\ group.stage \in {"sync", "insert", "written"} => group.entries \subseteq LogSet(disk', logfile')
      /\ group.stage \in {"insert", "written"} /\ group.sync =>
           group.entries \subseteq SyncedSet(disk', logfile')
      /\ group.stage = "written" => group.entries \subseteq mem'
  BY DEF GroupOK
<1> QED BY <1>3, <1>6, <1>7, <1>8, <1>9 DEF GroupOK

LEMMA MemorySame ==
  ASSUME MemoryOK, UNCHANGED <<memory, disk, kept>>, Flying \subseteq Flying',
         group # None => group.stage # "written" \/ group' = group
  PROVE  MemoryOK'
<1>1. UNCHANGED <<mem, imm, l0, deep, logNumber, logfile, next, lastSeq, disk, kept>>
  BY DEF memory
<1>2. \A e \in mem : e.seq <= lastSeq \/ (e \in Flying' /\ group'.stage = "written")
  BY DEF MemoryOK, Flying
<1>3. \A n \in DOMAIN disk.logs : \A e \in LogSet(disk, n) : e.seq <= lastSeq \/ e \in Flying'
  BY DEF MemoryOK
<1> QED BY <1>1, <1>2, <1>3 DEF MemoryOK, ImmEntries

\* Tables come and go that are not of the current version.
LEMMA MemoryFiles ==
  ASSUME MemoryOK, DiskOK(disk), UNCHANGED <<mem, imm, l0, deep, logNumber, logfile, lastSeq, group, kept>>,
         next' \in Nat, next <= next', disk'.logs = disk.logs,
         \A t \in DOMAIN disk'.tables : t < next',
         \A e \in TableSet(disk', DOMAIN disk'.tables) : e.seq <= lastSeq,
         TableSet(disk', l0 \cup deep) = TableSet(disk, l0 \cup deep)
  PROVE  MemoryOK'
<1>1. \A n : LogSet(disk', n) = LogSet(disk, n) /\ SyncedSet(disk', n) = SyncedSet(disk, n)
  BY DEF LogSet, SyncedSet
<1>3. Flying' = Flying /\ ImmEntries' = ImmEntries
  BY DEF Flying, ImmEntries
<1>4. \A e \in ImmEntries \cup TableSet(disk', DOMAIN disk'.tables) : e.seq <= lastSeq
  BY DEF MemoryOK
<1>5. logfile' < next'
  BY DEF MemoryOK, DiskOK
<1>6. /\ mem' \subseteq Entry /\ imm' \subseteq SUBSET Entry
      /\ lastSeq' \in Nat /\ logfile' \in DOMAIN disk'.logs /\ logNumber' \in Nat
      /\ l0' \subseteq Nat /\ deep' \subseteq Nat
      /\ \A n \in DOMAIN disk'.logs : n <= logfile'
  BY DEF MemoryOK
<1>7. /\ mem' \subseteq LogSet(disk', logfile')
      /\ \A e \in mem' : e.seq <= lastSeq' \/ (e \in Flying' /\ group'.stage = "written")
      /\ \A n \in DOMAIN disk'.logs : \A e \in LogSet(disk', n) : e.seq <= lastSeq' \/ e \in Flying'
  BY <1>1, <1>3 DEF MemoryOK
<1>8. kept' \subseteq Ids(ImmEntries' \cup TableSet(disk', l0' \cup deep')
                          \cup (mem' \cap SyncedSet(disk', logfile')))
  BY <1>1, <1>3 DEF MemoryOK
<1> QED BY <1>3, <1>4, <1>5, <1>6, <1>7, <1>8 DEF MemoryOK

\* The work in the background when others write.
LEMMA WorkSame ==
  ASSUME EditOK, FlushOK, CompactionOK, WorkOK, MemoryOK,
         UNCHANGED <<l0, deep, pending, flush, compaction, edit, pinned>>,
         flush # None => imm' = imm,
         bgError' \in BOOLEAN, bgError => bgError', scheduled' \in BOOLEAN,
         next' \in Nat, next <= next', lastSeq' \in Nat, lastSeq <= lastSeq',
         disk'.tables = disk.tables, disk'.manifest = disk.manifest
  PROVE  EditOK' /\ FlushOK' /\ CompactionOK' /\ WorkOK'
<1>0. next \in Nat /\ lastSeq \in Nat
  BY DEF MemoryOK
<1>1. IsSyncing' = IsSyncing /\ Manifest' = Manifest /\ CurrentTables' = CurrentTables
  <2>1. IsSyncing' = IsSyncing /\ Manifest' = Manifest
    BY DEF IsSyncing, Manifest
  <2>2. edit # None => TablesOf(Apply(Current', edit')) = TablesOf(Apply(Current, edit))
    BY DEF TablesOf, Apply, Current
  <2> QED BY <2>1, <2>2 DEF CurrentTables, IsSyncing
<1>2. EditOK'
  <2> SUFFICES ASSUME edit # None PROVE EditOK'
    BY DEF EditOK
  <2>1. edit.next \in Nat /\ edit.last \in Nat
    BY DEF EditOK, EditRecord
  <2>2. edit.next <= next' /\ edit.last <= lastSeq'
    BY <1>0, <2>1 DEF EditOK
  <2>3. ImmEntries' = ImmEntries \/ flush = None
    BY DEF ImmEntries
  <2> QED BY <1>1, <2>2, <2>3 DEF EditOK
<1>3. FlushOK'
  <2> SUFFICES ASSUME flush # None PROVE FlushOK'
    BY DEF FlushOK
  <2>1. flush < next'
    BY <1>0 DEF FlushOK
  <2> QED BY <2>1 DEF FlushOK
<1>4. CompactionOK'
  <2>1. \A T : TableSet(disk', T) = TableSet(disk, T)
    BY DEF TableSet
  <2> QED BY <2>1 DEF CompactionOK
<1>5. WorkOK'
  BY <1>1 DEF WorkOK
<1> QED BY <1>2, <1>3, <1>4, <1>5
-----------------------------------------------------------------------------
(* The steps of the clients.                                               *)

LEMMA SeenWhenRunningNext ==
  ASSUME IsRunning'
  PROVE  Visible' = {e \in Found' : e.seq <= lastSeq'}
<1>1. Stored(l0 \cup deep)' = TableSet(disk', l0' \cup deep')
  BY DEF Stored, TableSet
<1>2. Visible' = {e \in mem' \cup (UNION imm') \cup Stored(l0 \cup deep)' : e.seq <= lastSeq'}
  BY DEF IsRunning, Visible
<1>3. Found' = mem' \cup (UNION imm') \cup Stored(l0 \cup deep)'
  BY <1>1 DEF Found, ImmEntries
<1> QED BY <1>2, <1>3

LEMMA SeenWhenDownNext ==
  ASSUME ~ IsRunning'
  PROVE  Visible' = Content(disk', Manifest')
BY DEF IsRunning, Visible, Durable, Stored, Logged, TableSet, LogSet, Content, TablesOf, LogsFrom

\* Whoever is told nothing is seen as before.
LEMMA ClientStep ==
  ASSUME IInv, IsRunning, UNCHANGED <<memory, work, disk, up, pinned, recovery, kept>>,
         QueueOK', UsedOK', EntriesOK', GroupOK', asked \subseteq asked',
         Flying \subseteq Flying', group # None => group.stage # "written" \/ group' = group
  PROVE  IInv' /\ Visible' = Visible
<1>1. /\ UNCHANGED <<mem, imm, l0, deep, logNumber, logfile, next, lastSeq>>
      /\ UNCHANGED <<pending, bgError, scheduled, flush, compaction, edit>>
      /\ UNCHANGED <<disk, up, pinned, recovery, kept>>
  BY DEF memory, work
<1>2. Visible' = Visible
  BY <1>1 DEF Visible, Stored, Durable, Logged, Manifest
<1>3. DiskOK(disk) /\ Running
  BY DEF IInv
<1>4. MemoryOK'
  BY <1>3, MemorySame DEF Running
<1>5. EditOK' /\ FlushOK' /\ CompactionOK' /\ WorkOK'
  <2>1. MemoryOK /\ WorkOK /\ EditOK /\ FlushOK /\ CompactionOK
    BY <1>3 DEF Running
  <2>2. next \in Nat /\ lastSeq \in Nat /\ bgError \in BOOLEAN /\ scheduled \in BOOLEAN
    BY <2>1 DEF MemoryOK, WorkOK
  <2> QED BY <1>1, <2>1, <2>2, WorkSame
<1>6. Versions' = Versions
  BY <1>1 DEF Versions, Current, IsSyncing, Manifest
<1>7. \A m \in Versions' : UpToDate(m, disk', Visible', logfile', next', lastSeq')
  BY <1>1, <1>2, <1>3, <1>6 DEF Running
<1>8. ASSUME NEW m \in Versions' PROVE VersionOK(m, disk', Visible', asked', kept')
  <2>1. VersionOK(m, disk, Visible, asked, kept)
    BY <1>3, <1>6 DEF Running
  <2>2. kept \subseteq Ids(Secured(disk, m))
    BY <2>1 DEF VersionOK
  <2>3. VersionOK(m, disk, Visible, asked', kept)
    BY <2>1, <2>2, VersionSeen
  <2> QED BY <1>1, <1>2, <2>3
<1>9. IsRunning' /\ up' # "recovering" /\ recovery' = None /\ up' \in {"open", "closing", "down", "recovering"}
  BY <1>1, <1>3 DEF IsRunning, Running
<1>10. DiskOK(disk)'
  BY <1>1, <1>3
<1>11. Running'
  BY <1>4, <1>5, <1>7, <1>8, <1>9 DEF Running
<1> QED BY <1>2, <1>9, <1>10, <1>11 DEF IInv

Stutters == UNCHANGED <<asked, Visible, kept>>

\* What every step of a client keeps of the state.
ClientOnly == UNCHANGED <<memory, work, disk>> /\ Untouched

\* A call joins the queue.
LEMMA JoinStep ==
  ASSUME IInv, NEW w \in Thread, NEW id \in Nat, NEW sync \in BOOLEAN, Join(w, id, sync),
         asked \subseteq asked', UsedOK', used["writes"] <= used'["writes"],
         IF id = 0 THEN ~ sync ELSE id \in asked' \ asked
  PROVE  IInv' /\ Visible' = Visible /\ kept' = kept
<1>1. /\ up = "open" /\ call[w] = None
      /\ call' = [call EXCEPT ![w] = [id |-> id, sync |-> sync, force |-> id = 0, stage |-> "queue"]]
      /\ writers' = Append(writers, w)
      /\ asleep' = IF writers = <<>> THEN asleep ELSE asleep \cup {w}
      /\ UNCHANGED <<awaiting, group, kept, memory, work, disk, up, pinned, recovery, instance>>
  BY DEF Join, Untouched
<1>2. /\ writers \in Seq(Thread) /\ call \in [Thread -> MaybeOneOf(CallRecord)]
      /\ QueueOK /\ EntriesOK /\ GroupOK /\ UsedOK
  BY DEF IInv, QueueOK
<1>3. /\ writers' \in Seq(Thread) /\ Len(writers') = Len(writers) + 1 /\ Len(writers) \in Nat
      /\ writers'[Len(writers) + 1] = w
      /\ \A k \in 1 .. Len(writers) : writers'[k] = writers[k]
  BY <1>1, <1>2
<1>4. \A k \in 1 .. Len(writers) : writers[k] # w /\ writers[k] \in Thread
  BY <1>1, <1>2 DEF QueueOK
<1>5. \A v \in Thread : v # w => call'[v] = call[v]
  BY <1>1, <1>2
<1>6. call'[w] = [id |-> id, sync |-> sync, force |-> id = 0, stage |-> "queue"]
  BY <1>1, <1>2
<1>7. call'[w] \in CallRecord /\ call'[w] # None /\ call'[w].id = id /\ call'[w].sync = sync
      /\ call'[w].stage = "queue"
  <2>1. call'[w] \in CallRecord /\ call'[w].id = id /\ call'[w].sync = sync
        /\ call'[w].stage = "queue"
    BY <1>6 DEF CallRecord
  <2>2. call'[w] # None
    BY <2>1, NotNone
  <2> QED BY <2>1, <2>2
<1>8. QueueOK'
  <2>1. call' \in [Thread -> MaybeOneOf(CallRecord)]
    BY <1>1, <1>2, <1>6, <1>7 DEF MaybeOneOf
  <2>2. \A i, j \in 1 .. Len(writers') : writers'[i] = writers'[j] => i = j
    <3>1. \A i \in 1 .. Len(writers') : i \in 1 .. Len(writers) \/ i = Len(writers) + 1
      BY <1>3
    <3>2. \A i, j \in 1 .. Len(writers) : writers[i] = writers[j] => i = j
      BY <1>2 DEF QueueOK
    <3> QED BY <1>3, <1>4, <3>1, <3>2
  <2>3. \A i \in 1 .. Len(writers') : call'[writers'[i]] # None /\ call'[writers'[i]].stage = "queue"
    <3> SUFFICES ASSUME NEW i \in 1 .. Len(writers')
                 PROVE  call'[writers'[i]] # None /\ call'[writers'[i]].stage = "queue"
      OBVIOUS
    <3>1. CASE i = Len(writers) + 1
      BY <1>3, <1>7, <3>1
    <3>2. CASE i \in 1 .. Len(writers)
      BY <1>2, <1>3, <1>4, <1>5, <3>2 DEF QueueOK
    <3> QED BY <1>3, <3>1, <3>2
  <2>4. \A v \in Thread : call'[v] # None =>
          IF call'[v].id = 0 THEN ~ call'[v].sync ELSE call'[v].id \in asked'
    <3> SUFFICES ASSUME NEW v \in Thread, call'[v] # None
                 PROVE  IF call'[v].id = 0 THEN ~ call'[v].sync ELSE call'[v].id \in asked'
      OBVIOUS
    <3>1. CASE v = w
      BY <1>7, <3>1
    <3>2. CASE v # w
      BY <1>2, <1>5, <3>2 DEF QueueOK
    <3> QED BY <3>1, <3>2
  <2>5. \A u, v \in Thread :
          call'[u] # None /\ call'[v] # None /\ call'[u].id # 0 /\ call'[u].id = call'[v].id => u = v
    <3>1. \A v \in Thread : v # w /\ call'[v] # None /\ call'[v].id # 0 => call'[v].id # id
      BY <1>2, <1>5 DEF QueueOK
    <3> QED BY <1>2, <1>5, <1>7, <3>1 DEF QueueOK
  <2>6. asleep' \subseteq ToSet(writers') /\ awaiting' \subseteq Thread
    <3>1. \A v \in ToSet(writers) : v \in ToSet(writers')
      BY <1>2, <1>3 DEF ToSet
    <3>2. w \in ToSet(writers')
      BY <1>3 DEF ToSet
    <3> QED BY <1>1, <1>2, <3>1, <3>2 DEF QueueOK
  <2> QED BY <1>3, <2>1, <2>2, <2>3, <2>4, <2>5, <2>6 DEF QueueOK
<1>9. UNCHANGED <<mem, imm, l0, deep, logNumber, logfile, next, lastSeq, disk, group>>
  BY <1>1 DEF memory
<1>10. GroupOK'
  BY <1>2, <1>3, <1>4, <1>5, <1>9, GroupSame
<1>11. EntriesOK'
  <2>1. Everything' = Everything /\ Flying' = Flying
    BY <1>9 DEF Everything, Flying, ImmEntries
  <2>2. \A n \in 1 .. used["writes"] : n \in 1 .. used'["writes"]
    BY <1>2 DEF UsedOK
  <2> QED BY <1>2, <2>1, <2>2 DEF EntriesOK
<1>12. Flying' = Flying /\ IsRunning
  BY <1>1, <1>9 DEF Flying, IsRunning
<1> HIDE <1>2
<1>13. IInv' /\ Visible' = Visible
  BY <1>1, <1>8, <1>10, <1>11, <1>12, ClientStep
<1> QED BY <1>1, <1>13
AsksOne ==
  \E id \in 1 .. MaxWrites :
    /\ id \notin asked \cup Ids(Visible)
    /\ asked' = asked \cup {id} /\ Visible' = Visible /\ kept' = kept

LEMMA SeenIsThere ==
  ASSUME IInv, IsRunning
  PROVE  Visible \subseteq Everything /\ Ids(Visible) \subseteq 1 .. used["writes"]
<1>1. \A e : e \in TableSet(disk, l0 \cup deep) => e \in TableSet(disk, DOMAIN disk.tables)
  BY TableHas
<1>2. \A e \in Visible : e \in Everything
  BY <1>1, SeenWhenRunning, FilesHas DEF Found, Everything
<1>3. \A e \in Everything : e.id \in 1 .. used["writes"]
  BY DEF IInv, EntriesOK
<1> QED BY <1>2, <1>3 DEF Ids

LEMMA WriteStep ==
  ASSUME IInv, NEW w \in Thread, NEW sync \in BOOLEAN, Write(w, sync)
  PROVE  IInv' /\ AsksOne
<1>1. /\ used["writes"] < instance["writes"]
      /\ used' = [used EXCEPT !["writes"] = used["writes"] + 1] /\ instance' = instance
      /\ Join(w, used'["writes"], sync) /\ asked' = asked \cup {used'["writes"]}
  BY DEF Write, Use
<1>2. UsedOK /\ IsRunning
  BY <1>1 DEF IInv, Join, IsRunning
<1>3. /\ used \in [{"writes", "flushes", "reads", "crashes", "faults"} -> Nat]
      /\ instance.writes \in 0 .. MaxWrites /\ MaxWrites \in Nat
  BY <1>2, StoreAssumption DEF UsedOK
<1>4. PICK id \in Nat : id = used'["writes"] /\ id = used["writes"] + 1
  BY <1>1, <1>3
<1>5. /\ used' \in [{"writes", "flushes", "reads", "crashes", "faults"} -> Nat]
      /\ id <= instance.writes /\ id \in 1 .. MaxWrites
  BY <1>1, <1>3, <1>4
<1>6. \A n \in 1 .. used["writes"] : n \in 1 .. id /\ n # id
  BY <1>3, <1>4
<1>7. UsedOK'
  <2>1. asked \subseteq 1 .. used["writes"] /\ instance \in Instances
    BY <1>2 DEF UsedOK
  <2>2. id \in 1 .. id
    BY <1>3, <1>4
  <2>3. asked' \subseteq 1 .. used'["writes"]
    BY <1>1, <1>4, <1>6, <2>1, <2>2
  <2>4. used'["writes"] <= instance'.writes /\ instance' \in Instances
    BY <1>1, <1>4, <1>5, <2>1
  <2> QED BY <1>5, <2>3, <2>4 DEF UsedOK
<1>8. id \notin asked /\ id \notin Ids(Visible)
  BY <1>2, <1>6, SeenIsThere DEF UsedOK
<1>9. IInv' /\ Visible' = Visible /\ kept' = kept
  <2>1. Join(w, id, sync) /\ asked \subseteq asked' /\ used["writes"] <= used'["writes"]
        /\ id # 0 /\ id \in asked' \ asked
    BY <1>1, <1>3, <1>4, <1>8
  <2> HIDE <1>1
  <2> QED BY <1>7, <2>1, JoinStep
<1> QED BY <1>1, <1>4, <1>5, <1>8, <1>9 DEF AsksOne

LEMMA CompactMemTableStep ==
  ASSUME IInv, NEW w \in Thread, CompactMemTable(w)
  PROVE  IInv' /\ Stutters
<1>1. Use("flushes") /\ Join(w, 0, FALSE) /\ asked' = asked
  BY DEF CompactMemTable
<1>2. UsedOK' /\ used'["writes"] = used["writes"] /\ UsedOK
  BY <1>1, UsedSame DEF IInv, UsesNoWrite
<1>3. used["writes"] \in Nat
  BY <1>2 DEF UsedOK
<1>4. PICK id \in Nat, sync \in BOOLEAN : id = 0 /\ ~ sync /\ Join(w, id, sync)
  BY <1>1
<1> HIDE <1>1
<1>5. IInv' /\ Visible' = Visible /\ kept' = kept
  <2>1. used["writes"] <= used'["writes"] /\ asked \subseteq asked'
    BY <1>1, <1>2, <1>3
  <2> QED BY <1>2, <1>4, <2>1, JoinStep
<1> QED BY <1>1, <1>5 DEF Stutters

\* The first n in the queue are answered.
LEMMA Answers ==
  ASSUME QueueOK, NEW n \in 1 .. Len(writers), NEW ok \in BOOLEAN, Answer(n, ok),
         awaiting' \subseteq Thread
  PROVE  /\ QueueOK'
         /\ asked' = IF ok THEN asked \ ({call[writers[k]].id : k \in 1 .. n} \ {0}) ELSE asked
         /\ kept' = IF ok THEN kept \cup {call[writers[k]].id : k \in {k \in 1 .. n : call[writers[k]].sync}}
                          ELSE kept
<1> DEFINE answered == {writers[k] : k \in 1 .. n}
           ids == {call[w].id : w \in answered} \ {0}
<1>1. /\ writers' = SubSeq(writers, n + 1, Len(writers))
      /\ asleep' = asleep \ {writers[k] : k \in (1 .. n + 1) \cap DOMAIN writers}
      /\ call' = [w \in Thread |->
                    IF w \notin answered THEN call[w]
                    ELSE IF ok /\ ~HasBatch(w) THEN [call[w] EXCEPT !.stage = "imm"]
                    ELSE None]
      /\ asked' = IF ok THEN asked \ ids ELSE asked
      /\ kept' = IF ok THEN kept \cup {call[w].id : w \in {w \in answered : call[w].sync}}
                       ELSE kept
  BY DEF Answer, Signalled
<1>2. /\ writers \in Seq(Thread) /\ Len(writers) \in Nat /\ n \in Nat /\ n <= Len(writers)
      /\ DOMAIN writers = 1 .. Len(writers)
      /\ \A k \in 1 .. n : k \in 1 .. Len(writers)
  BY DEF QueueOK
<1>3. /\ writers' \in Seq(Thread) /\ Len(writers') = Len(writers) - n
      /\ \A k \in 1 .. Len(writers) - n : writers'[k] = writers[n + k] /\ n + k \in 1 .. Len(writers)
  <2>1. \A s \in Seq(Thread) : \A m \in 1 .. Len(s) :
          /\ SubSeq(s, m + 1, Len(s)) \in Seq(Thread)
          /\ Len(SubSeq(s, m + 1, Len(s))) = Len(s) - m
          /\ \A k \in 1 .. Len(s) - m : SubSeq(s, m + 1, Len(s))[k] = s[m + k]
    OBVIOUS
  <2>2. \A k \in 1 .. Len(writers) - n : n + k \in 1 .. Len(writers)
    BY <1>2
  <2> QED BY <1>1, <1>2, <2>1, <2>2
<1>4. \A k \in 1 .. Len(writers) - n : writers'[k] \notin answered
  <2> SUFFICES ASSUME NEW k \in 1 .. Len(writers) - n, NEW j \in 1 .. n PROVE writers'[k] # writers[j]
    OBVIOUS
  <2>1. n + k \in 1 .. Len(writers) /\ j \in 1 .. Len(writers) /\ n + k # j
    BY <1>2
  <2>2. writers[n + k] # writers[j]
    BY <2>1 DEF QueueOK
  <2> QED BY <1>3, <2>2
<1>5. asked' = IF ok THEN asked \ ({call[writers[k]].id : k \in 1 .. n} \ {0}) ELSE asked
  BY <1>1
<1>6. kept' = IF ok THEN kept \cup {call[writers[k]].id : k \in {k \in 1 .. n : call[writers[k]].sync}}
                    ELSE kept
  <2>1. {call[w].id : w \in {w \in answered : call[w].sync}}
          = {call[writers[k]].id : k \in {k \in 1 .. n : call[writers[k]].sync}}
    OBVIOUS
  <2> QED BY <1>1, <2>1
<1>7. answered \subseteq Thread /\ ids = {call[w].id : w \in answered} \ {0}
  BY <1>2
<1> HIDE DEF answered, ids
<1>8. call \in [Thread -> MaybeOneOf(CallRecord)]
      /\ \A w \in Thread : call[w] # None => call[w] \in CallRecord
  BY DEF QueueOK, MaybeOneOf
<1>9. \A w \in answered : call[w] # None
  BY <1>2 DEF QueueOK, answered
<1>10. ASSUME NEW w \in Thread
       PROVE  /\ call'[w] \in MaybeOneOf(CallRecord)
              /\ w \notin answered => call'[w] = call[w]
              /\ w \in answered /\ call'[w] # None => call'[w].id = 0 /\ ~ call'[w].sync
  <2>1. CASE w \notin answered
    BY <1>1, <1>8, <2>1
  <2>2. CASE w \in answered /\ ok /\ ~ HasBatch(w)
    <3>1. call'[w] = [call[w] EXCEPT !.stage = "imm"]
      BY <1>1, <2>2
    <3>2. PICK c \in CallRecord : c = call[w] /\ c.id = 0 /\ ~ c.sync
      BY <1>8, <1>9, <2>2 DEF QueueOK, HasBatch
    <3>3. [c EXCEPT !.stage = "imm"] \in CallRecord /\ [c EXCEPT !.stage = "imm"].id = c.id
          /\ [c EXCEPT !.stage = "imm"].sync = c.sync
      BY DEF CallRecord
    <3> QED BY <2>2, <3>1, <3>2, <3>3 DEF MaybeOneOf
  <2>3. CASE w \in answered /\ ~ (ok /\ ~ HasBatch(w))
    BY <1>1, <2>3 DEF MaybeOneOf
  <2> QED BY <2>1, <2>2, <2>3
<1>11. call' \in [Thread -> MaybeOneOf(CallRecord)]
  <2>1. call' = [w \in Thread |-> call'[w]]
    BY <1>1
  <2> QED BY <1>10, <2>1
<1>12. asleep' \subseteq ToSet(writers')
  <2> SUFFICES ASSUME NEW v \in asleep' PROVE v \in ToSet(writers')
    OBVIOUS
  <2>1. v \in ToSet(writers) /\ \A k \in (1 .. n + 1) \cap DOMAIN writers : v # writers[k]
    BY <1>1 DEF QueueOK
  <2>2. PICK k \in 1 .. Len(writers) : v = writers[k] /\ ~ (k <= n)
    BY <1>2, <2>1 DEF ToSet
  <2>3. k - n \in 1 .. Len(writers) - n /\ n + (k - n) = k
    BY <1>2, <2>2
  <2>4. writers'[k - n] = v /\ k - n \in DOMAIN writers'
    BY <1>3, <2>2, <2>3
  <2> QED BY <2>4 DEF ToSet
<1>13. \A i, j \in 1 .. Len(writers') : writers'[i] = writers'[j] => i = j
  <2> SUFFICES ASSUME NEW i \in 1 .. Len(writers'), NEW j \in 1 .. Len(writers'), writers'[i] = writers'[j]
               PROVE  i = j
    OBVIOUS
  <2>1. n + i = n + j
    BY <1>3 DEF QueueOK
  <2> QED BY <1>2, <1>3, <2>1
<1>14. \A i \in 1 .. Len(writers') : call'[writers'[i]] # None /\ call'[writers'[i]].stage = "queue"
  <2> SUFFICES ASSUME NEW i \in 1 .. Len(writers')
               PROVE  call'[writers'[i]] # None /\ call'[writers'[i]].stage = "queue"
    OBVIOUS
  <2>1. /\ i \in 1 .. Len(writers) - n /\ n + i \in 1 .. Len(writers)
        /\ writers'[i] = writers[n + i] /\ writers'[i] \in Thread /\ writers'[i] \notin answered
    BY <1>3, <1>4
  <2>2. call'[writers'[i]] = call[writers[n + i]]
    BY <1>10, <2>1
  <2> QED BY <2>1, <2>2 DEF QueueOK
<1>15. ASSUME NEW w \in Thread, call'[w] # None
       PROVE  IF call'[w].id = 0 THEN ~ call'[w].sync ELSE call'[w].id \in asked'
  <2>1. CASE w \in answered
    BY <1>10, <1>15, <2>1
  <2>2. CASE w \notin answered
    <3>1. call'[w] = call[w] /\ call[w] # None
      BY <1>10, <1>15, <2>2
    <3>2. CASE call[w].id = 0
      BY <3>1, <3>2 DEF QueueOK
    <3>3. CASE call[w].id # 0
      <4>1. call[w].id \notin ids
        BY <1>7, <1>9, <2>2, <3>1, <3>3 DEF QueueOK
      <4> QED BY <1>1, <3>1, <3>3, <4>1 DEF QueueOK
    <3> QED BY <3>2, <3>3
  <2> QED BY <2>1, <2>2
<1>16. \A v, w \in Thread :
         call'[v] # None /\ call'[w] # None /\ call'[v].id # 0 /\ call'[v].id = call'[w].id => v = w
  <2> SUFFICES ASSUME NEW v \in Thread, NEW w \in Thread, call'[v] # None, call'[w] # None,
                      call'[v].id # 0, call'[v].id = call'[w].id
               PROVE  v = w
    OBVIOUS
  <2>1. call'[v] = call[v] /\ call'[w] = call[w]
    BY <1>10
  <2> QED BY <2>1 DEF QueueOK
<1>17. QueueOK'
  BY <1>3, <1>11, <1>12, <1>13, <1>14, <1>15, <1>16 DEF QueueOK
<1> QED BY <1>5, <1>6, <1>17
LEMMA QuietStep ==
  ASSUME IInv, IsRunning, UNCHANGED <<group, asked, kept, memory, work, disk, up, pinned, recovery>>,
         UsesNoWrite, QueueOK', GroupOK'
  PROVE  IInv' /\ Stutters
<1>1. /\ UNCHANGED <<mem, imm, disk, group, asked>>
      /\ EntriesOK /\ UsedOK
  BY DEF memory, IInv
<1>2. UsedOK' /\ used'["writes"] = used["writes"]
  BY <1>1, UsedSame
<1>3. Everything' = Everything /\ Flying' = Flying
  BY <1>1 DEF Everything, ImmEntries, Flying
<1>4. EntriesOK'
  BY <1>1, <1>2, <1>3, EntriesSame
<1> QED BY <1>1, <1>2, <1>3, <1>4, ClientStep DEF Stutters

LEMMA Leader ==
  ASSUME QueueOK, NEW w, IsLeader(w)
  PROVE  /\ w \in Thread /\ 1 \in 1 .. Len(writers) /\ writers[1] = w /\ Len(writers) \in Nat
         /\ group = None /\ up = "open" /\ IsRunning
         /\ call[w] # None /\ call[w] \in CallRecord
<1>1. /\ writers \in Seq(Thread) /\ writers # <<>> /\ w = Head(writers)
      /\ group = None /\ up = "open"
  BY DEF QueueOK, IsLeader
<1>2. w \in Thread /\ Len(writers) \in Nat /\ 1 \in 1 .. Len(writers) /\ writers[1] = w
  BY <1>1
<1>3. call[w] # None
  BY <1>2 DEF QueueOK
<1> QED BY <1>1, <1>2, <1>3 DEF IsRunning, QueueOK, MaybeOneOf

\* The leader alone is told that it failed.
LEMMA FailsAlone ==
  ASSUME IInv, NEW w, IsLeader(w), Answer(1, FALSE),
         UNCHANGED <<awaiting, group, memory, work, disk, up, pinned, recovery>>, UsesNoWrite
  PROVE  IInv' /\ Stutters
<1>1. QueueOK
  BY DEF IInv
<1>2. /\ 1 \in 1 .. Len(writers) /\ group = None /\ IsRunning
      /\ awaiting' \subseteq Thread
  BY <1>1, Leader DEF QueueOK
<1>3. PICK n \in 1 .. Len(writers), ok \in BOOLEAN : Answer(n, ok) /\ ~ ok
  BY <1>2
<1>4. QueueOK' /\ asked' = asked /\ kept' = kept
  BY <1>1, <1>2, <1>3, Answers
<1>5. GroupOK'
  BY <1>2 DEF GroupOK
<1> QED BY <1>2, <1>4, <1>5, QuietStep

LEMMA YieldErrorStep ==
  ASSUME IInv, NEW w \in Thread, YieldError(w)
  PROVE  IInv' /\ Stutters
<1>1. /\ IsLeader(w) /\ Answer(1, FALSE)
      /\ UNCHANGED <<awaiting, group, memory, work, disk, up, pinned, recovery>> /\ UsesNoWrite
  BY DEF YieldError, Untouched, UsesNoWrite
<1> QED BY <1>1, FailsAlone

LEMMA SwitchFailsStep ==
  ASSUME IInv, NEW w \in Thread, SwitchFails(w)
  PROVE  IInv' /\ Stutters
<1>1. /\ IsLeader(w) /\ Answer(1, FALSE)
      /\ UNCHANGED <<awaiting, group, memory, work, disk, up, pinned, recovery>> /\ UsesNoWrite
  BY DEF SwitchFails, CanSwitch, Untouched, UsesNoWrite, Fault
<1> QED BY <1>1, FailsAlone

LEMMA NothingToWriteStep ==
  ASSUME IInv, NEW w \in Thread, NothingToWrite(w)
  PROVE  IInv' /\ Stutters
<1>1. /\ IsLeader(w) /\ Answer(1, TRUE) /\ call[w].id = 0
      /\ UNCHANGED <<awaiting, group, memory, work, disk, up, pinned, recovery>> /\ UsesNoWrite
  BY DEF NothingToWrite, Untouched, UsesNoWrite, HasBatch
<1>2. QueueOK
  BY DEF IInv
<1>3. /\ 1 \in 1 .. Len(writers) /\ group = None /\ IsRunning /\ writers[1] = w
      /\ awaiting' \subseteq Thread /\ ~ call[w].sync
  BY <1>1, <1>2, Leader DEF QueueOK
<1>4. PICK n \in 1 .. Len(writers), ok \in BOOLEAN : Answer(n, ok) /\ ok /\ n = 1
  BY <1>1, <1>3
<1>5. /\ QueueOK' /\ asked' = asked \ ({call[writers[k]].id : k \in 1 .. n} \ {0})
      /\ kept' = kept \cup {call[writers[k]].id : k \in {k \in 1 .. n : call[writers[k]].sync}}
  BY <1>2, <1>3, <1>4, Answers
<1>6. \A k \in 1 .. n : writers[k] = w
  BY <1>3, <1>4
<1>7. asked' = asked /\ kept' = kept
  BY <1>1, <1>3, <1>5, <1>6
<1>8. GroupOK'
  BY <1>1, <1>3 DEF GroupOK
<1> QED BY <1>1, <1>3, <1>5, <1>7, <1>8, QuietStep

\* Someone waits, or does not wait any longer.
LEMMA AwaitsStep ==
  ASSUME IInv, IsRunning, awaiting' \subseteq Thread,
         UNCHANGED <<writers, call, asleep, group, asked, kept, memory, work, disk, up, pinned, recovery>>,
         UsesNoWrite
  PROVE  IInv' /\ Stutters
<1>1. QueueOK /\ GroupOK
  BY DEF IInv
<1>2. QueueOK'
  BY <1>1, QueueSame
<1>3. UNCHANGED <<group, lastSeq, writers, call, disk, logfile, mem>> /\ writers \in Seq(Thread)
  BY <1>1 DEF memory, QueueOK
<1>4. GroupOK'
  BY <1>1, <1>3, GroupSame
<1> QED BY <1>2, <1>4, QuietStep

LEMMA AwaitRoomStep ==
  ASSUME IInv, NEW w \in Thread, AwaitRoom(w)
  PROVE  IInv' /\ Stutters
<1>1. /\ awaiting' = awaiting \cup {w} /\ IsLeader(w) /\ UsesNoWrite
      /\ UNCHANGED <<writers, call, asleep, group, asked, kept, memory, work, disk, up, pinned, recovery>>
  BY DEF AwaitRoom, Untouched, UsesNoWrite
<1>2. IsRunning /\ awaiting' \subseteq Thread
  BY <1>1, Leader DEF IInv, QueueOK
<1> QED BY <1>1, <1>2, AwaitsStep

LEMMA CallsWhenRunning ==
  ASSUME IInv, NEW w \in Thread, call[w] # None
  PROVE  IsRunning
BY DEF IInv, Down, Quiet

LEMMA AwaitImmStep ==
  ASSUME IInv, NEW w \in Thread, AwaitImm(w)
  PROVE  IInv' /\ Stutters
<1>1. /\ awaiting' = awaiting \cup {w} /\ call[w] # None /\ UsesNoWrite
      /\ UNCHANGED <<writers, call, asleep, group, asked, kept, memory, work, disk, up, pinned, recovery>>
  BY DEF AwaitImm, IsAwaitingImm, Untouched, UsesNoWrite
<1>2. IsRunning /\ awaiting' \subseteq Thread
  BY <1>1, CallsWhenRunning DEF IInv, QueueOK
<1> QED BY <1>1, <1>2, AwaitsStep

LEMMA MemTableIsCompactedStep ==
  ASSUME IInv, NEW w \in Thread, MemTableIsCompacted(w)
  PROVE  IInv' /\ Stutters
<1>1. /\ call' = [call EXCEPT ![w] = None] /\ call[w] # None /\ call[w].stage = "imm" /\ UsesNoWrite
      /\ UNCHANGED <<writers, asleep, awaiting, group, asked, kept, memory, work, disk, up, pinned, recovery>>
  BY DEF MemTableIsCompacted, IsAwaitingImm, Untouched, UsesNoWrite
<1>2. QueueOK /\ GroupOK /\ IsRunning
  BY <1>1, CallsWhenRunning DEF IInv
<1>3. writers \in Seq(Thread) /\ call \in [Thread -> MaybeOneOf(CallRecord)]
  BY <1>2 DEF QueueOK
<1>4. \A k \in 1 .. Len(writers) : writers[k] # w /\ writers[k] \in Thread
  BY <1>1, <1>2, <1>3 DEF QueueOK
<1>5. call'[w] = None /\ \A v \in Thread : v # w => call'[v] = call[v]
  BY <1>1, <1>3
<1>6. QueueOK'
  <2>1. call' \in [Thread -> MaybeOneOf(CallRecord)]
    BY <1>1, <1>3 DEF MaybeOneOf
  <2>2. \A k \in 1 .. Len(writers) : call'[writers[k]] = call[writers[k]]
    BY <1>4, <1>5
  <2>3. \A v \in Thread : call'[v] # None => call'[v] = call[v]
    BY <1>5
  <2>4. UNCHANGED <<writers, asleep, awaiting, asked>>
    BY <1>1
  <2> HIDE <1>1, <1>5
  <2> QED BY <1>2, <2>1, <2>2, <2>3, <2>4 DEF QueueOK
<1>7. \A k \in 1 .. Len(writers) :
        k \in 1 .. Len(writers') /\ writers'[k] = writers[k] /\ call'[writers[k]] = call[writers[k]]
  BY <1>1, <1>4, <1>5
<1>8. UNCHANGED <<group, lastSeq, disk, logfile, mem, writers>>
  BY <1>1 DEF memory
<1>9. GroupOK'
  BY <1>2, <1>3, <1>7, <1>8, GroupSame
<1> QED BY <1>1, <1>2, <1>6, <1>9, QuietStep
-----------------------------------------------------------------------------
(* A group of writes.                                                      *)

LEMMA AllWritten ==
  ASSUME IInv, IsRunning, group = None
  PROVE  \A e \in Everything : e.seq <= lastSeq
<1>1. MemoryOK /\ Flying = {}
  BY DEF IInv, Running, Flying
<1>2. \A e \in mem : e.seq <= lastSeq
  BY <1>1 DEF MemoryOK
<1>3. \A e \in ImmEntries \cup TableSet(disk, DOMAIN disk.tables) : e.seq <= lastSeq
  BY <1>1 DEF MemoryOK
<1>4. \A n \in DOMAIN disk.logs : \A e \in LogSet(disk, n) : e.seq <= lastSeq
  BY <1>1 DEF MemoryOK
<1> QED BY <1>1, <1>2, <1>3, <1>4, FilesHas DEF Everything

\* The sequence numbers of a group: upTo has those before, and oneself.
IsNumbering(n, B, s, id, upTo, E) ==
  /\ n \in Nat /\ B \in SUBSET (1 .. n) /\ B # {} /\ s \in Nat /\ id \in [B -> Nat]
  /\ upTo \in [B -> SUBSET B] /\ \A j, k \in B : j \in upTo[k] <=> j <= k
  /\ \A e : e \in E <=> \E k \in B : e = [id |-> id[k], seq |-> s + Cardinality(upTo[k])]

LEMMA Numbered ==
  ASSUME NEW n, NEW B, NEW s, NEW id, NEW upTo, NEW E, IsNumbering(n, B, s, id, upTo, E)
  PROVE  /\ E \in SUBSET Entry /\ IsFiniteSet(E) /\ E # {}
         /\ \A e \in E : s < e.seq /\ e.seq <= s + Cardinality(E)
         /\ \A e, f \in E : e.seq = f.seq => e.id = f.id
         /\ \A i : i \in Ids(E) <=> \E k \in B : i = id[k]
<1> DEFINE rank == [k \in B |-> Cardinality(upTo[k])]
           g == [k \in B |-> [id |-> id[k], seq |-> s + rank[k]]]
<1> USE DEF IsNumbering
<1>1. IsFiniteSet(1 .. n)
  BY FS_Interval
<1>2. IsFiniteSet(B) /\ Cardinality(B) \in Nat
  BY <1>1, FS_Subset, FS_CardinalityType
<1>3. \A k \in B : upTo[k] \subseteq B /\ k \in upTo[k] /\ k \in Nat
  OBVIOUS
<1>4. ASSUME NEW j \in B, NEW k \in B, j < k PROVE upTo[j] \subseteq upTo[k] /\ upTo[j] # upTo[k]
  <2>1. \A i \in B : i <= j => i <= k
    BY <1>3, <1>4
  <2>2. \A i \in upTo[j] : i \in upTo[k]
    BY <1>3, <2>1
  <2>3. k \notin upTo[j] /\ k \in upTo[k]
    BY <1>3, <1>4
  <2> QED BY <2>2, <2>3
<1>5. \A e : e \in E <=> \E k \in B : e = g[k]
  OBVIOUS
<1>6. \A k \in B : IsFiniteSet(upTo[k]) /\ Cardinality(upTo[k]) \in Nat
                   /\ Cardinality(upTo[k]) <= Cardinality(B) /\ Cardinality(upTo[k]) # 0
  <2> TAKE k \in B
  <2>1. IsFiniteSet(upTo[k]) /\ Cardinality(upTo[k]) <= Cardinality(B)
    BY <1>2, <1>3, FS_Subset
  <2>2. Cardinality(upTo[k]) \in Nat /\ upTo[k] # {}
    BY <1>3, <2>1, FS_CardinalityType
  <2>3. Cardinality(upTo[k]) # 0
    BY <2>1, <2>2, FS_EmptySet
  <2> QED BY <2>1, <2>2, <2>3
<1>7. \A k \in B : rank[k] \in Nat /\ 1 <= rank[k] /\ rank[k] <= Cardinality(B)
  BY <1>2, <1>6
<1>8. ASSUME NEW j \in B, NEW k \in B, j < k PROVE rank[j] < rank[k]
  <2>1. upTo[j] \subseteq upTo[k] /\ upTo[j] # upTo[k]
    BY <1>4, <1>8
  <2>2. Cardinality(upTo[j]) <= Cardinality(upTo[k]) /\ Cardinality(upTo[j]) # Cardinality(upTo[k])
    BY <1>6, <2>1, FS_Subset
  <2> QED BY <1>6, <2>2
<1> HIDE DEF rank
<1>9. ASSUME NEW j \in B, NEW k \in B, rank[j] = rank[k] PROVE j = k
  <2>1. ~ (rank[j] < rank[k]) /\ ~ (rank[k] < rank[j]) /\ j \in Nat /\ k \in Nat
    BY <1>7, <1>9
  <2> QED BY <1>8, <2>1
<1>10. \A k \in B : g[k] \in Entry /\ g[k].id = id[k] /\ g[k].seq = s + rank[k]
  <2> TAKE k \in B
  <2>1. id[k] \in Nat /\ s + rank[k] \in Nat
    BY <1>7
  <2>2. g[k] = [id |-> id[k], seq |-> s + rank[k]]
    OBVIOUS
  <2> HIDE DEF g
  <2> QED BY <2>1, <2>2 DEF Entry
<1>11. g \in [B -> E] /\ \A e \in E : \E k \in B : g[k] = e
  BY <1>5
<1> HIDE DEF g
<1>12. \A j, k \in B : s + rank[j] = s + rank[k] => rank[j] = rank[k]
  BY <1>7
<1>13. g \in Bijection(B, E)
  <2>1. \A j, k \in B : g[j] = g[k] => j = k
    BY <1>9, <1>10, <1>12
  <2>2. g \in Injection(B, E)
    BY <1>11, <2>1 DEF Injection, IsInjective
  <2>3. g \in Surjection(B, E)
    BY <1>11 DEF Surjection
  <2> QED BY <2>2, <2>3 DEF Bijection
<1>14. Cardinality(E) = Cardinality(B) /\ IsFiniteSet(E)
  <2>1. ExistsBijection(B, E)
    BY <1>13 DEF ExistsBijection
  <2>2. Cardinality(E) = Cardinality(B)
    BY <1>2, <2>1, FS_Bijection
  <2>3. IsFiniteSet(E)
    BY <1>2, <1>13, FS_Surjection DEF Bijection
  <2> QED BY <2>2, <2>3
<1>15. ASSUME NEW e \in E PROVE s < e.seq /\ e.seq <= s + Cardinality(E)
  <2>1. PICK k \in B : e = g[k]
    BY <1>11
  <2>2. e.seq = s + rank[k]
    BY <1>10, <2>1
  <2> QED BY <1>2, <1>7, <1>14, <2>2
<1>16. ASSUME NEW e \in E, NEW f \in E, e.seq = f.seq PROVE e.id = f.id
  <2>1. PICK j \in B : e = g[j]
    BY <1>11
  <2>2. PICK k \in B : f = g[k]
    BY <1>11
  <2>3. s + rank[j] = s + rank[k]
    BY <1>10, <1>16, <2>1, <2>2
  <2>4. rank[j] = rank[k]
    BY <1>12, <2>3
  <2>5. j = k
    BY <1>9, <2>4
  <2> QED BY <2>1, <2>2, <2>5
<1>17. \A i : i \in Ids(E) <=> \E k \in B : i = id[k]
  BY <1>10, <1>11 DEF Ids
<1>18. E \subseteq Entry /\ E # {}
  BY <1>10, <1>11
<1> QED BY <1>14, <1>15, <1>16, <1>17, <1>18

LEMMA BeginGroupStep ==
  ASSUME IInv, NEW w \in Thread, BeginGroup(w)
  PROVE  IInv' /\ Stutters
<1>1. /\ IsLeader(w) /\ call[w].id # 0
      /\ UNCHANGED <<writers, call, asleep, awaiting, asked, kept, memory, work, disk, used>>
      /\ UNCHANGED <<up, pinned, recovery, instance>>
  BY DEF BeginGroup, Untouched, HasBatch
<1>2. PICK n \in 1 .. Len(writers) :
        /\ CanJoin(n)
        /\ group' = [size |-> n, entries |-> BuildBatchGroup(n), sync |-> call[w].sync, stage |-> "append"]
  BY DEF BeginGroup
<1>3. /\ QueueOK /\ EntriesOK /\ UsedOK /\ MemoryOK
      /\ 1 \in 1 .. Len(writers) /\ writers[1] = w /\ group = None /\ IsRunning
      /\ call[w] \in CallRecord /\ Len(writers) \in Nat
  BY <1>1, Leader DEF IInv, Running
<1> DEFINE B == {k \in 1 .. n : HasBatch(writers[k])}
           id == [k \in B |-> call[writers[k]].id]
           upTo == [k \in B |-> {j \in B : j <= k}]
           E == BuildBatchGroup(n)
<1>4. \A k \in 1 .. n : k \in 1 .. Len(writers) /\ writers[k] \in Thread /\ call[writers[k]] \in CallRecord
                        /\ call[writers[k]] # None
  <2>1. \A k \in 1 .. Len(writers) : writers[k] \in Thread /\ call[writers[k]] # None
    BY <1>3 DEF QueueOK
  <2>2. \A k \in 1 .. Len(writers) : call[writers[k]] \in CallRecord
    BY <1>3, <2>1 DEF QueueOK, MaybeOneOf
  <2>3. \A k \in 1 .. n : k \in 1 .. Len(writers)
    BY <1>3
  <2> QED BY <2>1, <2>2, <2>3
<1>5. n \in Nat /\ B \in SUBSET (1 .. n) /\ 1 \in B /\ id \in [B -> Nat] /\ lastSeq \in Nat
  <2>1. 1 \in B
    BY <1>1, <1>3 DEF HasBatch
  <2>2. id \in [B -> Nat]
    BY <1>4 DEF CallRecord
  <2> QED BY <1>3, <2>1, <2>2 DEF MemoryOK
<1>6. /\ \A e : e \in E <=> \E k \in B : e = [id |-> id[k], seq |-> lastSeq + Cardinality(upTo[k])]
      /\ upTo \in [B -> SUBSET B] /\ \A j, k \in B : j \in upTo[k] <=> j <= k
  BY DEF BuildBatchGroup
<1> HIDE DEF E, upTo
<1>7. /\ E \in SUBSET Entry /\ IsFiniteSet(E) /\ E # {}
      /\ \A e \in E : lastSeq < e.seq /\ e.seq <= lastSeq + Cardinality(E)
      /\ \A e, f \in E : e.seq = f.seq => e.id = f.id
      /\ \A i : i \in Ids(E) <=> \E k \in B : i = id[k]
  <2> HIDE DEF id, B
  <2>1. IsNumbering(n, B, lastSeq, id, upTo, E)
    BY <1>5, <1>6 DEF IsNumbering
  <2>2. E \in SUBSET Entry /\ IsFiniteSet(E) /\ E # {}
    BY <2>1, Numbered
  <2>3. \A e \in E : lastSeq < e.seq /\ e.seq <= lastSeq + Cardinality(E)
    BY <2>1, Numbered
  <2>4. \A e, f \in E : e.seq = f.seq => e.id = f.id
    BY <2>1, Numbered
  <2>5. \A i : i \in Ids(E) <=> \E k \in B : i = id[k]
    BY <2>1, Numbered
  <2> QED BY <2>2, <2>3, <2>4, <2>5
<1>8. Ids(E) = {call[writers[k]].id : k \in 1 .. n} \ {0}
  <2>1. \A i : i \in Ids(E) <=> i \in {call[writers[k]].id : k \in 1 .. n} \ {0}
    <3> TAKE i
    <3>1. i \in Ids(E) <=> \E k \in B : i = id[k]
      BY <1>7
    <3> QED BY <3>1 DEF HasBatch
  <2> QED BY <2>1
<1>9. Ids(E) \subseteq asked
  BY <1>3, <1>4, <1>8 DEF QueueOK
<1>10. \A k \in 1 .. n : call[writers[k]].sync => call[w].sync
  <2> SUFFICES ASSUME NEW k \in 1 .. n, call[writers[k]].sync PROVE call[w].sync
    OBVIOUS
  <2>1. CASE k = 1
    BY <1>3, <2>1
  <2>2. CASE k # 1
    <3>1. k \in 2 .. n
      BY <1>5, <2>2
    <3>2. Head(writers) = w
      BY <1>1 DEF IsLeader
    <3> QED BY <1>2, <3>1, <3>2 DEF CanJoin
  <2> QED BY <2>1, <2>2
<1> HIDE DEF B, id
<1>11. group' = [size |-> n, entries |-> E, sync |-> call[w].sync, stage |-> "append"]
  BY <1>2 DEF E
<1>12. /\ group' \in GroupRecord /\ group'.size = n /\ group'.entries = E
       /\ group'.sync = call[w].sync /\ group'.stage = "append"
  BY <1>3, <1>5, <1>7, <1>11 DEF GroupRecord, CallRecord
<1>13. UNCHANGED <<mem, imm, l0, deep, logNumber, logfile, next, lastSeq, disk, writers, call>>
  BY <1>1 DEF memory
<1>14. GroupOK'
  <2>1. {call'[writers'[k]].id : k \in 1 .. n} = {call[writers[k]].id : k \in 1 .. n}
    BY <1>13
  <2>2. \A k \in 1 .. n : call'[writers'[k]].sync => call[w].sync
    BY <1>10, <1>13
  <2>3. n \in 1 .. Len(writers')
    BY <1>13
  <2> QED BY <1>7, <1>8, <1>12, <1>13, <2>1, <2>2, <2>3 DEF GroupOK
<1>15. QueueOK' /\ UsedOK'
  <2>1. awaiting' \subseteq Thread
    BY <1>1, <1>3 DEF QueueOK
  <2>2. QueueOK'
    BY <1>1, <1>3, <2>1, QueueSame
  <2>3. UsesNoWrite /\ asked' \subseteq asked
    BY <1>1 DEF UsesNoWrite
  <2> QED BY <1>3, <2>2, <2>3, UsedSame
<1>16. Flying' = E /\ Flying = {}
  BY <1>3, <1>12, NotNone DEF Flying
<1>17. EntriesOK'
  <2>1. \A e \in Everything' : e \in Everything \/ e \in E
    BY <1>13, <1>16 DEF Everything, ImmEntries
  <2>2. \A e \in E : e \in Entry /\ e.id \in 1 .. used["writes"] /\ e.seq > lastSeq
    <3> TAKE e \in E
    <3>1. e.id \in asked
      BY <1>9 DEF Ids
    <3>2. e.id \in 1 .. used["writes"]
      BY <1>3, <3>1 DEF UsedOK
    <3>3. lastSeq < e.seq /\ e \in Entry
      BY <1>7
    <3>4. e.seq > lastSeq
      BY <1>5, <3>3 DEF Entry
    <3> QED BY <3>2, <3>3, <3>4
  <2>3. \A e \in Everything : e.seq <= lastSeq /\ e \in Entry /\ e.id \in 1 .. used["writes"]
    BY <1>3, AllWritten DEF EntriesOK
  <2>4. ASSUME NEW e \in Everything', NEW f \in Everything', e.seq = f.seq PROVE e.id = f.id
    <3>1. CASE e \in Everything /\ f \in Everything
      BY <1>3, <2>4, <3>1 DEF EntriesOK
    <3>2. CASE e \in E /\ f \in E
      BY <1>7, <2>4, <3>2
    <3>3. CASE (e \in E /\ f \in Everything) \/ (f \in E /\ e \in Everything)
      <4>1. e.seq \in Nat /\ f.seq \in Nat
        BY <2>2, <2>3, <3>3 DEF Entry
      <4> QED BY <1>5, <2>2, <2>3, <2>4, <3>3, <4>1
    <3> QED BY <2>1, <3>1, <3>2, <3>3
  <2>5. used'["writes"] = used["writes"]
    BY <1>1
  <2>6. \A e \in Everything' : e \in Entry /\ e.id \in 1 .. used'["writes"]
    BY <2>1, <2>2, <2>3, <2>5
  <2> QED BY <2>4, <2>6 DEF EntriesOK
<1> HIDE <1>4, <1>7, <1>10
<1>18. IInv' /\ Visible' = Visible
  BY <1>1, <1>3, <1>14, <1>15, <1>16, <1>17, ClientStep
<1> QED BY <1>1, <1>18 DEF Stutters
-----------------------------------------------------------------------------
(* The log and the memtable.                                               *)

\* What every stage but the last of writing a group keeps.
StageKeeps ==
  /\ group # None /\ group' \in GroupRecord /\ group' # None
  /\ group'.size = group.size /\ group'.entries = group.entries /\ group'.sync = group.sync
  /\ group.stage # "written"
  /\ UNCHANGED <<writers, call, asleep, awaiting, asked, kept, work, up, pinned, recovery>>
  /\ UNCHANGED <<imm, l0, deep, logNumber, logfile, next, lastSeq>>
  /\ UsesNoWrite

\* What it has done agrees with the stage the group is in.
StageIsDone ==
  /\ group'.stage \in {"sync", "insert", "written"} => group'.entries \subseteq LogSet(disk', logfile')
  /\ group'.stage \in {"insert", "written"} /\ group'.sync =>
       group'.entries \subseteq SyncedSet(disk', logfile')
  /\ group'.stage = "written" => group'.entries \subseteq mem'

LEMMA GroupWhenRunning ==
  ASSUME IInv, group # None
  PROVE  IsRunning
BY DEF IInv, Down, Quiet

\* The entries of a group are asked for, and not seen yet.
LEMMA GroupIsAsked ==
  ASSUME IInv, group # None
  PROVE  /\ Ids(group.entries) \subseteq asked /\ group.entries \subseteq Entry
         /\ \A e \in group.entries : ~ (e.seq <= lastSeq)
<1>1. QueueOK /\ GroupOK /\ lastSeq \in Nat
  BY GroupWhenRunning DEF IInv, Running, MemoryOK
<1>2. writers \in Seq(Thread) /\ group.size \in 1 .. Len(writers)
  BY <1>1 DEF QueueOK, GroupOK
<1>3. \A k \in 1 .. group.size : k \in 1 .. Len(writers) /\ writers[k] \in Thread
  BY <1>2
<1>4. \A k \in 1 .. group.size : call[writers[k]].id # 0 => call[writers[k]].id \in asked
  BY <1>1, <1>3 DEF QueueOK
<1>5. Ids(group.entries) = {call[writers[k]].id : k \in 1 .. group.size} \ {0}
  BY <1>1 DEF GroupOK
<1>6. Ids(group.entries) \subseteq asked
  BY <1>4, <1>5
<1>7. group.entries \subseteq Entry /\ \A e \in group.entries : lastSeq < e.seq
  BY <1>1 DEF GroupOK, GroupRecord
<1>8. \A e \in group.entries : ~ (e.seq <= lastSeq)
  BY <1>1, <1>7 DEF Entry
<1> QED BY <1>6, <1>7, <1>8

LEMMA StageStep ==
  ASSUME IInv, StageKeeps, StageIsDone, DiskOK(disk'),
         disk'.tables = disk.tables, disk'.manifest = disk.manifest, DOMAIN disk'.logs = DOMAIN disk.logs,
         \A T : Grows(disk, disk', T, group.entries),
         Files(disk') \subseteq Files(disk) \cup group.entries,
         mem \subseteq mem', mem' \subseteq mem \cup group.entries, mem' \subseteq LogSet(disk', logfile),
         group'.stage # "written" => mem' = mem
  PROVE  IInv' /\ Stutters
<1> DEFINE A == group.entries
<1>1. /\ group # None /\ group' # None /\ group'.entries = A /\ group.stage # "written"
      /\ UNCHANGED <<writers, call, asleep, awaiting, asked, kept, up, pinned, recovery>>
      /\ UNCHANGED <<pending, bgError, scheduled, flush, compaction, edit>>
      /\ UNCHANGED <<imm, l0, deep, logNumber, logfile, next, lastSeq>> /\ UsesNoWrite
  BY DEF StageKeeps, work
<1>2. IsRunning /\ Ids(A) \subseteq asked /\ A \subseteq Entry /\ \A e \in A : ~ (e.seq <= lastSeq)
  BY <1>1, GroupWhenRunning, GroupIsAsked
<1>3. /\ DiskOK(disk) /\ QueueOK /\ UsedOK /\ EntriesOK /\ GroupOK /\ Running
  BY <1>2 DEF IInv
<1>4. Flying' = A /\ Flying = A
  BY <1>1 DEF Flying
<1>5. QueueOK' /\ UsedOK' /\ used'["writes"] = used["writes"]
  <2>1. awaiting' \subseteq Thread
    BY <1>1, <1>3 DEF QueueOK
  <2> QED BY <1>1, <1>3, <2>1, QueueSame, UsedSame
<1>6. GroupOK'
  BY <1>1, <1>3 DEF GroupOK, StageKeeps, StageIsDone
<1> HIDE DEF A
<1>7. EntriesOK'
  <2>1. Everything' \subseteq Everything
    <3>1. ImmEntries' = ImmEntries
      BY <1>1 DEF ImmEntries
    <3> QED BY <1>4, <3>1 DEF Everything, A
  <2> QED BY <1>3, <1>5, <2>1 DEF EntriesOK
<1>8. \A T : TableSet(disk', T) = TableSet(disk, T)
  BY DEF TableSet
<1>9. Found' \subseteq Found \cup A /\ Found \subseteq Found'
  BY <1>1, <1>8 DEF Found, ImmEntries, A
<1>10. IsRunning'
  BY <1>1, <1>2 DEF IsRunning
<1>11. Visible' = Visible
  <2>1. \A e : e \in Visible' <=> e \in Visible
    BY <1>1, <1>2, <1>9, <1>10, SeenWhenRunning, SeenWhenRunningNext
  <2> QED BY <2>1
<1>12. MemoryOK /\ EditOK /\ FlushOK /\ CompactionOK /\ WorkOK /\ recovery = None
  BY <1>3 DEF Running
<1>13. /\ lastSeq \in Nat /\ next \in Nat /\ bgError \in BOOLEAN /\ scheduled \in BOOLEAN
       /\ logfile \in DOMAIN disk.logs /\ logfile \in Nat
  BY <1>3, <1>12 DEF MemoryOK, WorkOK, DiskOK
<1>14. \A n \in DOMAIN disk.logs : LogSet(disk', n) \subseteq LogSet(disk, n) \cup A
                                  /\ SyncedSet(disk, n) \subseteq SyncedSet(disk', n)
  BY DEF Grows, A
<1>15. MemoryOK'
  <2>1. \A e \in mem' : e.seq <= lastSeq \/ (e \in A /\ group'.stage = "written")
    <3> SUFFICES ASSUME NEW e \in mem' PROVE e.seq <= lastSeq \/ (e \in A /\ group'.stage = "written")
      OBVIOUS
    <3>1. CASE e \in mem
      BY <1>1, <1>12, <3>1 DEF MemoryOK
    <3>2. CASE e \notin mem
      BY <3>2 DEF A
    <3> QED BY <3>1, <3>2
  <2>2. \A n \in DOMAIN disk'.logs : \A e \in LogSet(disk', n) : e.seq <= lastSeq \/ e \in A
    BY <1>4, <1>12, <1>14 DEF MemoryOK
  <2>3. Ids(ImmEntries \cup TableSet(disk, l0 \cup deep) \cup (mem \cap SyncedSet(disk, logfile)))
          \subseteq Ids(ImmEntries \cup TableSet(disk, l0 \cup deep) \cup (mem' \cap SyncedSet(disk', logfile)))
    BY <1>13, <1>14 DEF Ids
  <2>4. kept' \subseteq Ids(ImmEntries' \cup TableSet(disk', l0' \cup deep') \cup (mem' \cap SyncedSet(disk', logfile')))
    BY <1>1, <1>8, <1>12, <2>3 DEF MemoryOK, ImmEntries
  <2>5. mem' \subseteq Entry
    BY <1>2, <1>12 DEF MemoryOK, A
  <2>6. \A e \in ImmEntries' \cup TableSet(disk', DOMAIN disk'.tables) : e.seq <= lastSeq'
    BY <1>1, <1>8, <1>12 DEF MemoryOK, ImmEntries
  <2> QED BY <1>1, <1>4, <1>12, <2>1, <2>2, <2>4, <2>5, <2>6 DEF MemoryOK
<1>16. EditOK' /\ FlushOK' /\ CompactionOK' /\ WorkOK'
  BY <1>1, <1>12, <1>13, WorkSame
<1>17. /\ \A m \in Versions' : UpToDate(m, disk', Visible', logfile', next', lastSeq')
       /\ \A m \in Versions' : VersionOK(m, disk', Visible', asked', kept')
  <2>1. \A m \in Versions : UpToDate(m, disk, Visible, logfile, next, lastSeq)
                            /\ VersionOK(m, disk, Visible, asked, kept)
    BY <1>3 DEF Running
  <2>2. ASSUME NEW m \in Versions
        PROVE  Visible' \subseteq Content(disk', m) /\ VersionOK(m, disk', Visible', asked', kept')
    <3>1. TablesOf(m) \subseteq DOMAIN disk.tables /\ Visible \subseteq Content(disk, m)
      BY <2>1, <2>2 DEF VersionOK, UpToDate
    <3>2. Grows(disk, disk', TablesOf(m), A) /\ VersionOK(m, disk, Visible, asked, kept)
      BY <2>1, <2>2 DEF A
    <3>3. Content(disk, m) \subseteq Content(disk', m)
      BY <3>1, <3>2, GrowsHas
    <3>4. Ids(A) \subseteq asked \cup Ids(Visible)
      BY <1>2
    <3>5. VersionOK(m, disk', Visible, asked, kept)
      BY <3>2, <3>4, VersionGrows
    <3> QED BY <1>1, <1>11, <3>1, <3>3, <3>5
  <2> QED BY <1>1, <1>3, <1>12, <1>13, <2>1, <2>2, VersionsStay
<1>18. Running'
  BY <1>1, <1>12, <1>15, <1>16, <1>17 DEF Running
<1>19. IInv'
  BY <1>1, <1>5, <1>6, <1>7, <1>10, <1>18 DEF IInv, IsRunning
<1> QED BY <1>1, <1>11, <1>19 DEF Stutters
LEMMA StageGoes ==
  ASSUME IInv, group # None, NEW stage \in {"append", "sync", "insert", "written", "failed", "unsynced"},
         GoesTo(stage)
  PROVE  /\ group \in GroupRecord /\ group' \in GroupRecord /\ group' # None /\ group'.stage = stage
         /\ group'.size = group.size /\ group'.entries = group.entries /\ group'.sync = group.sync
         /\ UNCHANGED <<writers, call, asleep, awaiting, asked, kept, work, up, pinned, recovery, instance>>
         /\ logfile \in DOMAIN disk.logs /\ mem \subseteq LogSet(disk, logfile) /\ DiskOK(disk)
         /\ group.entries \in SUBSET Entry /\ IsFiniteSet(group.entries)
<1>1. PICK g \in GroupRecord : g = group
  BY DEF IInv, GroupOK
<1>2. group' = [g EXCEPT !.stage = stage]
  BY <1>1 DEF GoesTo
<1>3. /\ group' \in GroupRecord /\ group'.stage = stage
      /\ group'.size = g.size /\ group'.entries = g.entries /\ group'.sync = g.sync
  BY <1>2 DEF GroupRecord
<1>4. IsRunning
  BY GroupWhenRunning
<1>5. logfile \in DOMAIN disk.logs /\ mem \subseteq LogSet(disk, logfile) /\ DiskOK(disk)
  BY <1>4 DEF IInv, Running, MemoryOK
<1>6. group.entries \in SUBSET Entry /\ IsFiniteSet(group.entries)
  BY DEF IInv, GroupOK, GroupRecord
<1>7. UNCHANGED <<writers, call, asleep, awaiting, asked, kept, work, up, pinned, recovery, instance>>
  BY DEF GoesTo, Untouched
<1> QED BY <1>1, <1>3, <1>5, <1>6, <1>7, NotNone

LEMMA NoFileStep ==
  ASSUME IInv, StageKeeps, StageIsDone, disk' = disk, mem \subseteq mem',
         mem' \subseteq mem \cup group.entries, mem' \subseteq LogSet(disk', logfile),
         group'.stage # "written" => mem' = mem
  PROVE  IInv' /\ Stutters
<1>1. DiskOK(disk) /\ \A T : Grows(disk, disk, T, group.entries)
  BY DEF IInv, Grows
<1> QED BY <1>1, StageStep

LEMMA RecordStep ==
  ASSUME IInv, StageKeeps, StageIsDone, disk' = AppendRecord, mem' = mem, group'.stage # "written"
  PROVE  IInv' /\ Stutters
<1>1. /\ DiskOK(disk) /\ logfile \in DOMAIN disk.logs /\ mem \subseteq LogSet(disk, logfile)
      /\ group.entries \in SUBSET Entry /\ IsFiniteSet(group.entries)
  BY GroupWhenRunning DEF IInv, Running, MemoryOK, GroupOK, GroupRecord, StageKeeps
<1>2. disk' = [disk EXCEPT !.logs[logfile].records = Append(@, group.entries)]
  BY DEF AppendRecord
<1>3. /\ DiskOK(disk') /\ disk'.tables = disk.tables /\ disk'.manifest = disk.manifest
      /\ DOMAIN disk'.logs = DOMAIN disk.logs
      /\ LogSet(disk', logfile) = LogSet(disk, logfile) \cup group.entries
      /\ \A T : Grows(disk, disk', T, group.entries)
      /\ Files(disk') \subseteq Files(disk) \cup group.entries
  <2>1. PICK d : d = disk
    OBVIOUS
  <2>2. PICK g : g = group.entries
    OBVIOUS
  <2>3. PICK n : n = logfile
    OBVIOUS
  <2>4. PICK q : q = disk'
    OBVIOUS
  <2>5. /\ DiskOK(d) /\ n \in DOMAIN d.logs /\ g \in SUBSET Entry /\ IsFiniteSet(g)
        /\ q = [d EXCEPT !.logs[n].records = Append(@, g)]
    BY <1>1, <1>2, <2>1, <2>2, <2>3, <2>4
  <2>6. /\ DiskOK(q) /\ q.tables = d.tables /\ q.manifest = d.manifest
        /\ DOMAIN q.logs = DOMAIN d.logs
        /\ LogSet(q, n) = LogSet(d, n) \cup g
        /\ \A T : Grows(d, q, T, g)
        /\ Files(q) \subseteq Files(d) \cup g
    <3>1. DiskOK(q) /\ q.tables = d.tables /\ q.manifest = d.manifest
      BY <2>5, RecordAdded
    <3>2. DOMAIN q.logs = DOMAIN d.logs /\ LogSet(q, n) = LogSet(d, n) \cup g
      BY <2>5, RecordAdded
    <3>3. ASSUME NEW T PROVE Grows(d, q, T, g)
      BY <2>5, RecordAdded
    <3>4. Files(q) \subseteq Files(d) \cup g
      BY <2>5, RecordAdded
    <3> QED BY <3>1, <3>2, <3>3, <3>4
  <2> QED BY <2>1, <2>2, <2>3, <2>4, <2>6
<1> HIDE <1>2
<1>4. mem \subseteq mem' /\ mem' \subseteq mem \cup group.entries /\ mem' \subseteq LogSet(disk', logfile)
  BY <1>1, <1>3
<1> QED BY <1>3, <1>4, StageStep

LEMMA AddRecordStep ==
  ASSUME IInv, AddRecord
  PROVE  IInv' /\ Stutters
<1>1. PICK stage \in {"sync", "insert"} : GoesTo(stage) /\ (stage = "sync" <=> group.sync)
  BY DEF AddRecord
<1>2. /\ group # None /\ group.stage = "append" /\ disk' = AppendRecord
      /\ UNCHANGED <<mem, imm, l0, deep, logNumber, logfile, next, lastSeq, used>>
  BY DEF AddRecord, InGroup, memory
<1>3. /\ group' \in GroupRecord /\ group' # None /\ group'.stage = stage
      /\ group'.size = group.size /\ group'.entries = group.entries /\ group'.sync = group.sync
      /\ UNCHANGED <<writers, call, asleep, awaiting, asked, kept, work, up, pinned, recovery, instance>>
      /\ logfile \in DOMAIN disk.logs /\ DiskOK(disk)
      /\ group.entries \in SUBSET Entry /\ IsFiniteSet(group.entries)
  BY <1>1, <1>2, StageGoes
<1>4. StageKeeps
  BY <1>2, <1>3 DEF StageKeeps, UsesNoWrite
<1>5. LogSet(disk', logfile) = LogSet(disk, logfile) \cup group.entries
  <2>1. disk' = [disk EXCEPT !.logs[logfile].records = Append(@, group.entries)]
    BY <1>2 DEF AppendRecord
  <2> QED BY <1>3, <2>1, RecordAdded
<1>6. StageIsDone
  <2>1. group'.entries \subseteq LogSet(disk', logfile')
    BY <1>2, <1>3, <1>5
  <2>2. group'.stage # "written" /\ (group'.stage = "insert" => ~ group'.sync)
    BY <1>1, <1>3
  <2> QED BY <2>1, <2>2 DEF StageIsDone
<1>7. mem' = mem /\ group'.stage # "written"
  BY <1>1, <1>2, <1>3
<1> QED BY <1>2, <1>4, <1>6, <1>7, RecordStep

LEMMA AddRecordFailsStep ==
  ASSUME IInv, AddRecordFails
  PROVE  IInv' /\ Stutters
<1>1. /\ group # None /\ group.stage = "append" /\ disk' \in {disk, AppendRecord} /\ GoesTo("failed")
      /\ UNCHANGED <<mem, imm, l0, deep, logNumber, logfile, next, lastSeq>> /\ Use("faults")
  BY DEF AddRecordFails, InGroup, memory, Fault
<1>2. /\ group' \in GroupRecord /\ group' # None /\ group'.stage = "failed"
      /\ group'.size = group.size /\ group'.entries = group.entries /\ group'.sync = group.sync
      /\ UNCHANGED <<writers, call, asleep, awaiting, asked, kept, work, up, pinned, recovery, instance>>
      /\ mem \subseteq LogSet(disk, logfile)
  BY <1>1, StageGoes
<1>3. StageKeeps
  BY <1>1, <1>2 DEF StageKeeps, UsesNoWrite
<1>4. StageIsDone
  BY <1>2 DEF StageIsDone
<1>5. CASE disk' = disk
  BY <1>1, <1>2, <1>3, <1>4, <1>5, NoFileStep
<1>6. CASE disk' = AppendRecord
  BY <1>1, <1>2, <1>3, <1>4, <1>6, RecordStep
<1> QED BY <1>1, <1>5, <1>6

LEMMA SyncLogStep ==
  ASSUME IInv, SyncLog
  PROVE  IInv' /\ Stutters
<1>1. /\ group # None /\ group.stage = "sync" /\ GoesTo("insert")
      /\ disk' = [disk EXCEPT !.logs[logfile].synced = Len(disk.logs[logfile].records)]
      /\ UNCHANGED <<mem, imm, l0, deep, logNumber, logfile, next, lastSeq, used>>
  BY DEF SyncLog, InGroup, memory
<1>2. /\ group' \in GroupRecord /\ group' # None /\ group'.stage = "insert"
      /\ group'.size = group.size /\ group'.entries = group.entries /\ group'.sync = group.sync
      /\ UNCHANGED <<writers, call, asleep, awaiting, asked, kept, work, up, pinned, recovery, instance>>
      /\ mem \subseteq LogSet(disk, logfile) /\ logfile \in DOMAIN disk.logs /\ DiskOK(disk)
  BY <1>1, StageGoes
<1>3. StageKeeps
  BY <1>1, <1>2 DEF StageKeeps, UsesNoWrite
<1>4. /\ DiskOK(disk') /\ disk'.tables = disk.tables /\ disk'.manifest = disk.manifest
      /\ DOMAIN disk'.logs = DOMAIN disk.logs
      /\ SyncedSet(disk', logfile) = LogSet(disk, logfile) /\ LogSet(disk', logfile) = LogSet(disk, logfile)
      /\ \A T : Grows(disk, disk', T, {})
      /\ Files(disk') = Files(disk)
  BY <1>1, <1>2, LogSynced
<1>5. group.entries \subseteq LogSet(disk, logfile)
  BY <1>1 DEF IInv, GroupOK
<1>6. UNCHANGED <<mem, logfile>>
  BY <1>1
<1> HIDE <1>1
<1>7. StageIsDone
  BY <1>2, <1>4, <1>5, <1>6 DEF StageIsDone
<1>8. \A T : Grows(disk, disk', T, group.entries)
  BY <1>4 DEF Grows
<1>9. /\ mem \subseteq mem' /\ mem' \subseteq mem \cup group.entries /\ mem' \subseteq LogSet(disk', logfile)
      /\ Files(disk') \subseteq Files(disk) \cup group.entries /\ mem' = mem
  BY <1>2, <1>4, <1>6
<1> QED BY <1>3, <1>4, <1>7, <1>8, <1>9, StageStep

LEMMA SyncFailsStep ==
  ASSUME IInv, SyncFails
  PROVE  IInv' /\ Stutters
<1>1. /\ group # None /\ group.stage = "sync" /\ disk' = disk /\ GoesTo("unsynced")
      /\ UNCHANGED <<mem, imm, l0, deep, logNumber, logfile, next, lastSeq>> /\ Use("faults")
  BY DEF SyncFails, InGroup, memory, Fault
<1>2. /\ group' \in GroupRecord /\ group' # None /\ group'.stage = "unsynced"
      /\ group'.size = group.size /\ group'.entries = group.entries /\ group'.sync = group.sync
      /\ UNCHANGED <<writers, call, asleep, awaiting, asked, kept, work, up, pinned, recovery, instance>>
      /\ mem \subseteq LogSet(disk, logfile)
  BY <1>1, StageGoes
<1>3. StageKeeps
  BY <1>1, <1>2 DEF StageKeeps, UsesNoWrite
<1>4. StageIsDone
  BY <1>2 DEF StageIsDone
<1> QED BY <1>1, <1>2, <1>3, <1>4, NoFileStep

LEMMA InsertIntoStep ==
  ASSUME IInv, InsertInto
  PROVE  IInv' /\ Stutters
<1>1. /\ group # None /\ group.stage = "insert" /\ disk' = disk /\ GoesTo("written")
      /\ mem' = mem \cup group.entries
      /\ UNCHANGED <<imm, l0, deep, logNumber, logfile, next, lastSeq, used>>
  BY DEF InsertInto, InGroup
<1>2. /\ group' \in GroupRecord /\ group' # None /\ group'.stage = "written"
      /\ group'.size = group.size /\ group'.entries = group.entries /\ group'.sync = group.sync
      /\ UNCHANGED <<writers, call, asleep, awaiting, asked, kept, work, up, pinned, recovery, instance>>
      /\ mem \subseteq LogSet(disk, logfile)
  BY <1>1, StageGoes
<1>3. StageKeeps
  BY <1>1, <1>2 DEF StageKeeps, UsesNoWrite
<1>4. group.entries \subseteq LogSet(disk, logfile)
      /\ (group.sync => group.entries \subseteq SyncedSet(disk, logfile))
  BY <1>1 DEF IInv, GroupOK
<1>5. StageIsDone
  BY <1>1, <1>2, <1>4 DEF StageIsDone
<1> QED BY <1>1, <1>2, <1>3, <1>4, <1>5, NoFileStep
Commits ==
  \E W \in SUBSET asked : \E synced \in SUBSET W :
    /\ W # {} /\ asked' = asked \ W
    /\ Ids(Visible') = Ids(Visible) \cup W /\ kept' = kept \cup synced

LEMMA EndGroupStep ==
  ASSUME IInv, EndGroup
  PROVE  IInv' /\ (Stutters \/ Commits)
<1> DEFINE E == group.entries
           W == Ids(E)
           ok == group.stage = "written"
           synced == {call[writers[k]].id : k \in {k \in 1 .. group.size : call[writers[k]].sync}}
<1>1. /\ group # None /\ group.stage \in {"written", "failed", "unsynced"}
      /\ lastSeq' = lastSeq + Cardinality(E)
      /\ bgError' = (bgError \/ group.stage = "unsynced")
      /\ awaiting' = IF bgError' # bgError THEN {} ELSE awaiting
      /\ Answer(group.size, ok) /\ group' = None
      /\ UNCHANGED <<mem, imm, l0, deep, logNumber, logfile, next, pending, scheduled, flush,
                     compaction, edit, disk, used>>
      /\ UNCHANGED <<up, pinned, recovery, instance>>
  BY DEF EndGroup, Untouched
<1>2. /\ IsRunning /\ W \subseteq asked /\ E \subseteq Entry
      /\ \A e \in E : ~ (e.seq <= lastSeq)
  BY <1>1, GroupWhenRunning, GroupIsAsked
<1>3. /\ DiskOK(disk) /\ QueueOK /\ UsedOK /\ EntriesOK /\ GroupOK /\ Running
      /\ MemoryOK /\ EditOK /\ FlushOK /\ CompactionOK /\ WorkOK
  BY <1>2 DEF IInv, Running
<1>4. /\ group.size \in 1 .. Len(writers) /\ IsFiniteSet(E) /\ E # {}
      /\ \A e \in E : e.seq <= lastSeq + Cardinality(E)
      /\ W = {call[writers[k]].id : k \in 1 .. group.size} \ {0}
      /\ \A k \in 1 .. group.size : call[writers[k]].sync => group.sync
      /\ ok => /\ E \subseteq mem /\ E \subseteq LogSet(disk, logfile)
               /\ group.sync => E \subseteq SyncedSet(disk, logfile)
  BY <1>1, <1>3 DEF GroupOK
<1>5. lastSeq \in Nat /\ Cardinality(E) \in Nat /\ lastSeq' \in Nat /\ lastSeq <= lastSeq'
  <2>1. lastSeq \in Nat /\ Cardinality(E) \in Nat
    BY <1>3, <1>4, FS_CardinalityType DEF MemoryOK
  <2> QED BY <1>1, <2>1
<1>6. /\ logfile \in DOMAIN disk.logs /\ logfile \in Nat /\ next \in Nat
      /\ bgError' \in BOOLEAN /\ (bgError => bgError') /\ scheduled \in BOOLEAN
      /\ awaiting' \subseteq Thread
  BY <1>1, <1>3 DEF MemoryOK, WorkOK, DiskOK, QueueOK
<1> HIDE DEF W, E
<1>7. QueueOK' /\ asked' = (IF ok THEN asked \ W ELSE asked)
      /\ kept' = (IF ok THEN kept \cup synced ELSE kept)
  <2>1. ok \in BOOLEAN
    OBVIOUS
  <2>2. PICK b \in BOOLEAN : b = ok
    BY <2>1
  <2>3. PICK n \in 1 .. Len(writers) : n = group.size
    BY <1>4
  <2>4. Answer(n, b)
    BY <1>1, <2>2, <2>3
  <2>5. QueueOK'
    BY <1>3, <1>6, <2>4, Answers
  <2>6. /\ asked' = IF b THEN asked \ ({call[writers[k]].id : k \in 1 .. n} \ {0}) ELSE asked
        /\ kept' = IF b THEN kept \cup {call[writers[k]].id : k \in {k \in 1 .. n : call[writers[k]].sync}}
                        ELSE kept
    BY <1>3, <1>6, <2>4, Answers
  <2> QED BY <1>4, <2>2, <2>3, <2>5, <2>6
<1>8. synced \subseteq W /\ (synced # {} => group.sync)
  <2>1. writers \in Seq(Thread)
    BY <1>3 DEF QueueOK
  <2>2. \A k \in 1 .. group.size : k \in 1 .. Len(writers) /\ writers[k] \in Thread
    BY <1>4, <2>1
  <2>3. \A k \in 1 .. group.size : call[writers[k]].sync => call[writers[k]].id # 0
    BY <1>3, <2>2 DEF QueueOK
  <2> QED BY <1>4, <2>3
<1> HIDE DEF synced
<1>9. UsedOK' /\ used'["writes"] = used["writes"]
  <2>1. UsesNoWrite /\ asked' \subseteq asked
    BY <1>1, <1>7 DEF UsesNoWrite
  <2> QED BY <1>3, <2>1, UsedSame
<1>10. GroupOK' /\ Flying' = {} /\ Flying = E
  BY <1>1 DEF GroupOK, Flying, E
<1>11. EntriesOK'
  <2>1. Everything' \subseteq Everything
    BY <1>1, <1>10 DEF Everything, ImmEntries
  <2> QED BY <1>3, <1>9, <2>1 DEF EntriesOK
<1>12. Found' = Found /\ IsRunning'
  BY <1>1, <1>2 DEF Found, ImmEntries, IsRunning
<1>13. \A e \in Found : e.seq <= lastSeq \/ (ok /\ e \in E)
  <2>1. \A e \in mem : e.seq <= lastSeq \/ (ok /\ e \in E)
    BY <1>3, <1>10 DEF MemoryOK
  <2>2. \A e \in ImmEntries \cup TableSet(disk, l0 \cup deep) : e.seq <= lastSeq
    BY <1>3, TableHas DEF MemoryOK
  <2> QED BY <2>1, <2>2 DEF Found
<1>14. \A e \in Found : e \in Entry
  <2>1. \A e \in TableSet(disk, l0 \cup deep) : e \in Entry
    BY <1>3, TableHas DEF DiskOK
  <2>2. \A e \in mem \cup ImmEntries : e \in Entry
    BY <1>3 DEF MemoryOK, ImmEntries
  <2> QED BY <2>1, <2>2 DEF Found
<1>15. Visible' = Visible \cup (IF ok THEN E ELSE {})
  <2>1. Visible = {e \in Found : e.seq <= lastSeq}
    BY <1>2, SeenWhenRunning
  <2>2. Visible' = {e \in Found : e.seq <= lastSeq'}
    BY <1>12, SeenWhenRunningNext
  <2>3. ok => E \subseteq Found
    BY <1>4 DEF Found
  <2>4. \A e \in Found : e.seq <= lastSeq => e.seq <= lastSeq'
    BY <1>5, <1>14 DEF Entry
  <2>5. \A e \in E : e.seq <= lastSeq'
    BY <1>1, <1>4
  <2>6. \A e : e \in Visible' <=> e \in Visible \/ (ok /\ e \in E)
    BY <1>13, <2>1, <2>2, <2>3, <2>4, <2>5
  <2> QED BY <2>6
<1>16. MemoryOK'
  <2>1. \A e \in mem : e.seq <= lastSeq'
    BY <1>1, <1>3, <1>4, <1>5, <1>10 DEF MemoryOK, Entry
  <2>2. \A e \in ImmEntries \cup TableSet(disk, DOMAIN disk.tables) : e.seq <= lastSeq'
    <3>1. \A e \in ImmEntries : e \in Entry
      BY <1>3 DEF MemoryOK, ImmEntries
    <3>2. \A e \in TableSet(disk, DOMAIN disk.tables) : e \in Entry
      BY <1>3, TableHas DEF DiskOK
    <3>3. \A e \in ImmEntries \cup TableSet(disk, DOMAIN disk.tables) : e.seq <= lastSeq /\ e \in Entry
      BY <1>3, <3>1, <3>2 DEF MemoryOK
    <3> QED BY <1>5, <3>3 DEF Entry
  <2>3. \A n \in DOMAIN disk.logs : \A e \in LogSet(disk, n) : e.seq <= lastSeq'
    <3> SUFFICES ASSUME NEW n \in DOMAIN disk.logs, NEW e \in LogSet(disk, n) PROVE e.seq <= lastSeq'
      OBVIOUS
    <3>1. e \in Entry
      BY <1>3, LogIsFinite
    <3>2. CASE e.seq <= lastSeq
      BY <1>5, <3>1, <3>2 DEF Entry
    <3>3. CASE e \in E
      BY <1>1, <1>4, <3>3
    <3> QED BY <1>3, <1>10, <3>2, <3>3 DEF MemoryOK
  <2>4. kept' \subseteq Ids(ImmEntries \cup TableSet(disk, l0 \cup deep) \cup (mem \cap SyncedSet(disk, logfile)))
    <3>1. kept \subseteq Ids(ImmEntries \cup TableSet(disk, l0 \cup deep) \cup (mem \cap SyncedSet(disk, logfile)))
      BY <1>3 DEF MemoryOK
    <3>2. ok /\ synced # {} =>
            synced \subseteq Ids(ImmEntries \cup TableSet(disk, l0 \cup deep) \cup (mem \cap SyncedSet(disk, logfile)))
      BY <1>4, <1>8 DEF Ids, W
    <3> QED BY <1>7, <3>1, <3>2
  <2>5. UNCHANGED <<mem, imm, l0, deep, logNumber, logfile, next, disk>>
    BY <1>1
  <2>6. ImmEntries' = ImmEntries
    BY <1>1 DEF ImmEntries
  <2> HIDE <1>1
  <2> QED BY <1>3, <1>5, <1>10, <2>1, <2>2, <2>3, <2>4, <2>5, <2>6 DEF MemoryOK
<1>17. EditOK' /\ FlushOK' /\ CompactionOK' /\ WorkOK'
  <2>1. UNCHANGED <<imm, l0, deep, pending, flush, compaction, edit, pinned, next, scheduled, disk>>
    BY <1>1
  <2> HIDE <1>1
  <2> QED BY <1>3, <1>5, <1>6, <2>1, WorkSame
<1>18. /\ \A m \in Versions' : UpToDate(m, disk', Visible', logfile', next', lastSeq')
       /\ \A m \in Versions' : VersionOK(m, disk', Visible', asked', kept')
  <2>1. \A m \in Versions : UpToDate(m, disk, Visible, logfile, next, lastSeq)
                            /\ VersionOK(m, disk, Visible, asked, kept)
    BY <1>3 DEF Running
  <2>2. ASSUME NEW m \in Versions
        PROVE  Visible' \subseteq Content(disk', m) /\ VersionOK(m, disk', Visible', asked', kept')
    <3>1. /\ m \in VersionState /\ m.log \in Nat /\ m.log <= logfile
          /\ Visible \subseteq Content(disk, m) /\ kept \subseteq Ids(Secured(disk, m))
          /\ VersionOK(m, disk, Visible, asked, kept)
      BY <2>1, <2>2 DEF VersionOK, UpToDate, VersionState
    <3>2. logfile \in DOMAIN disk.logs /\ logfile >= m.log
      BY <1>6, <3>1
    <3>3. Visible' \subseteq Content(disk, m)
      <4>1. ok => \A e \in E : e \in Content(disk, m)
        BY <1>4, <3>2, ContentHas
      <4> QED BY <1>15, <3>1, <4>1
    <3>4. kept' \subseteq Ids(Secured(disk, m))
      <4>1. ok /\ synced # {} => \A e \in E : e \in Secured(disk, m)
        BY <1>4, <1>8, <3>2, ContentHas
      <4>2. ok /\ synced # {} => W \subseteq Ids(Secured(disk, m))
        BY <4>1 DEF W, Ids
      <4> QED BY <1>7, <1>8, <3>1, <4>2
    <3>5. asked \cup Ids(Visible) \subseteq asked' \cup Ids(Visible')
      <4>1. Ids(Visible') = Ids(Visible) \cup (IF ok THEN W ELSE {})
        BY <1>15, IdsUnion DEF W, Ids
      <4> QED BY <1>7, <4>1
    <3>6. VersionOK(m, disk, Visible', asked', kept')
      BY <3>1, <3>4, <3>5, VersionSeen
    <3>7. disk' = disk
      BY <1>1
    <3> QED BY <3>3, <3>6, <3>7
  <2>3. DiskOK(disk') /\ edit' \in {edit, None} /\ UNCHANGED <<l0, deep, logNumber, next, logfile>>
        /\ disk'.manifest = disk.manifest
    BY <1>1, <1>3
  <2> HIDE <1>1
  <2> QED BY <1>3, <1>5, <1>6, <2>1, <2>2, <2>3, VersionsStay
<1>19. Running'
  <2>1. recovery' = None
    BY <1>1, <1>3 DEF Running
  <2> QED BY <1>16, <1>17, <1>18, <2>1 DEF Running
<1>20. DiskOK(disk)' /\ up' = up
  BY <1>1, <1>3
<1>21. IInv'
  BY <1>2, <1>7, <1>9, <1>10, <1>11, <1>19, <1>20 DEF IInv, IsRunning
<1>22. CASE ok
  <2>1. Ids(Visible') = Ids(Visible) \cup W
    BY <1>15, <1>22, IdsUnion DEF W
  <2>2. W # {}
    BY <1>4 DEF Ids, W
  <2>3. Commits
    BY <1>2, <1>7, <1>8, <1>22, <2>1, <2>2 DEF Commits
  <2> QED BY <1>21, <2>3
<1>23. CASE ~ ok
  BY <1>7, <1>15, <1>21, <1>23 DEF Stutters
<1> QED BY <1>22, <1>23

-----------------------------------------------------------------------------
(* The memtable is replaced.                                               *)

\* What files a version finds when files grow.
LEMMA ContentGrows ==
  ASSUME NEW d, NEW q, NEW m, Grows(d, q, TablesOf(m), {}), NEW V, NEW a, NEW k, VersionOK(m, d, V, a, k)
  PROVE  Content(d, m) \subseteq Content(q, m) /\ VersionOK(m, q, V, a, k)
<1>1. TablesOf(m) \subseteq DOMAIN d.tables
  BY DEF VersionOK
<1>2. Content(d, m) \subseteq Content(q, m)
  BY <1>1, GrowsHas
<1>3. Ids({}) = {}
  BY DEF Ids
<1>4. VersionOK(m, q, V, a, k)
  BY <1>3, VersionGrows
<1> QED BY <1>2, <1>4

LEMMA SwitchMemTableStep ==
  ASSUME IInv, NEW w \in Thread, SwitchMemTable(w)
  PROVE  IInv' /\ Stutters
<1>1. /\ up = "open" /\ group = None /\ writers # <<>> /\ w = Head(writers)
      /\ imm = {} /\ disk' = [disk EXCEPT !.logs = With(@, next, NewLog)]
      /\ logfile' = next /\ next' = next + 1 /\ imm' = {mem} /\ mem' = {}
      /\ call' = [call EXCEPT ![w].force = FALSE]
      /\ scheduled' = (scheduled \/ WorkToDo(FALSE, imm', l0))
      /\ UNCHANGED <<writers, asleep, awaiting, group, asked, kept, l0, deep, logNumber, lastSeq>>
      /\ UNCHANGED <<pending, bgError, flush, compaction, edit, used>>
      /\ UNCHANGED <<up, pinned, recovery, instance>>
  BY DEF SwitchMemTable, CanSwitch, IsLeader, Untouched
<1>2. /\ IsRunning /\ DiskOK(disk) /\ QueueOK /\ UsedOK /\ EntriesOK /\ GroupOK /\ Running
      /\ MemoryOK /\ EditOK /\ FlushOK /\ CompactionOK /\ WorkOK
  BY <1>1 DEF IInv, IsRunning, Running
<1>3. /\ next \in Nat /\ next \notin DOMAIN disk.logs /\ logfile \in Nat /\ lastSeq \in Nat
      /\ logfile \in DOMAIN disk.logs /\ logfile < next
  BY <1>2 DEF MemoryOK, DiskOK
<1>4. /\ DiskOK(disk') /\ disk'.tables = disk.tables /\ disk'.manifest = disk.manifest
      /\ DOMAIN disk'.logs = DOMAIN disk.logs \cup {next} /\ LogSet(disk', next) = {}
      /\ \A i \in DOMAIN disk.logs :
           LogSet(disk', i) = LogSet(disk, i) /\ SyncedSet(disk', i) = SyncedSet(disk, i)
      /\ \A T : Grows(disk, disk', T, {})
      /\ Files(disk') \subseteq Files(disk)
  <2>1. LogIsBegun(disk, disk', next)
    BY <1>1 DEF LogIsBegun
  <2> HIDE <1>1
  <2>2. OneMoreLog(disk, disk', next)
    BY <1>2, <1>3, <2>1, LogMade
  <2> QED BY <2>2 DEF OneMoreLog
<1>5. QueueOK'
  <2>1. /\ writers \in Seq(Thread) /\ call \in [Thread -> MaybeOneOf(CallRecord)]
        /\ Len(writers) \in Nat /\ 1 \in 1 .. Len(writers) /\ w = writers[1]
    BY <1>1, <1>2 DEF QueueOK
  <2>2. call[w] # None /\ call[w] \in CallRecord
    BY <1>2, <2>1 DEF QueueOK, MaybeOneOf
  <2>3. PICK c \in CallRecord : c = call[w]
    BY <2>2
  <2>4. /\ [c EXCEPT !.force = FALSE] \in CallRecord
        /\ [c EXCEPT !.force = FALSE].id = c.id /\ [c EXCEPT !.force = FALSE].sync = c.sync
        /\ [c EXCEPT !.force = FALSE].stage = c.stage
    BY DEF CallRecord
  <2>5. call'[w] = [c EXCEPT !.force = FALSE] /\ \A v \in Thread : v # w => call'[v] = call[v]
    BY <1>1, <2>1, <2>3
  <2>6. /\ call'[w] # None /\ call[w] # None
        /\ call'[w].id = call[w].id /\ call'[w].sync = call[w].sync /\ call'[w].stage = call[w].stage
    BY <2>3, <2>4, <2>5, NotNone
  <2>7. call' \in [Thread -> MaybeOneOf(CallRecord)]
    <3>1. DOMAIN call' = Thread /\ call' = [v \in Thread |-> call'[v]]
      BY <1>1, <2>1
    <3>2. \A v \in Thread : call'[v] \in MaybeOneOf(CallRecord)
      BY <2>1, <2>4, <2>5 DEF MaybeOneOf
    <3> QED BY <3>1, <3>2
  <2>8. \A v \in Thread :
          /\ call'[v] # None <=> call[v] # None
          /\ call[v] # None => /\ call'[v].id = call[v].id /\ call'[v].sync = call[v].sync
                               /\ call'[v].stage = call[v].stage
    BY <2>5, <2>6
  <2>9. \A i \in 1 .. Len(writers) : writers[i] \in Thread
    BY <2>1
  <2>10. UNCHANGED <<writers, asleep, awaiting, asked>>
    BY <1>1
  <2> HIDE <1>1
  <2> QED BY <1>2, <2>7, <2>8, <2>9, <2>10 DEF QueueOK
<1>6. UsedOK' /\ used'["writes"] = used["writes"]
  <2>1. UsesNoWrite /\ asked' \subseteq asked
    BY <1>1 DEF UsesNoWrite
  <2> QED BY <1>2, <2>1, UsedSame
<1>7. ImmEntries' = mem /\ ImmEntries = {} /\ Flying = {} /\ Flying' = {}
  BY <1>1 DEF ImmEntries, Flying
<1>8. EntriesOK'
  <2>1. Everything' \subseteq Everything
    BY <1>1, <1>4, <1>7 DEF Everything
  <2> QED BY <1>1, <1>2, <1>6, <2>1, EntriesSame
<1>9. GroupOK' /\ IsRunning'
  BY <1>1, <1>2 DEF GroupOK, IsRunning
<1>10. Visible' = Visible
  <2>1. TableSet(disk', l0' \cup deep') = TableSet(disk, l0 \cup deep)
    BY <1>1, <1>4 DEF TableSet
  <2>2. Found' = Found
    BY <1>1, <1>7, <2>1 DEF Found
  <2> QED BY <1>1, <1>2, <1>9, <2>2, SeenWhenRunning, SeenWhenRunningNext
<1>11. MemoryOK'
  <2>1. \A T : TableSet(disk', T) = TableSet(disk, T)
    BY <1>4 DEF TableSet
  <2>2. \A e \in mem : e.seq <= lastSeq
    BY <1>2, <1>7 DEF MemoryOK
  <2>3. /\ mem' \subseteq Entry /\ imm' \subseteq SUBSET Entry
        /\ lastSeq' \in Nat /\ logfile' \in DOMAIN disk'.logs /\ logNumber' \in Nat /\ next' \in Nat
        /\ logfile' < next' /\ l0' \subseteq Nat /\ deep' \subseteq Nat
    BY <1>1, <1>2, <1>3, <1>4 DEF MemoryOK
  <2>4. \A n \in DOMAIN disk'.logs : n <= logfile'
    <3>1. \A n \in DOMAIN disk.logs : n \in Nat /\ n <= logfile
      BY <1>2 DEF MemoryOK, DiskOK
    <3> QED BY <1>1, <1>3, <1>4, <3>1
  <2>5. \A t \in DOMAIN disk'.tables : t < next'
    <3>1. \A t \in DOMAIN disk.tables : t \in Nat /\ t < next
      BY <1>2 DEF MemoryOK, DiskOK
    <3> QED BY <1>1, <1>3, <1>4, <3>1
  <2>6. \A e \in ImmEntries' \cup TableSet(disk', DOMAIN disk'.tables) : e.seq <= lastSeq'
    BY <1>1, <1>2, <1>4, <1>7, <2>1, <2>2 DEF MemoryOK
  <2>7. \A n \in DOMAIN disk'.logs : \A e \in LogSet(disk', n) : e.seq <= lastSeq'
    BY <1>1, <1>2, <1>4, <1>7 DEF MemoryOK
  <2>8. kept' \subseteq Ids(ImmEntries' \cup TableSet(disk', l0' \cup deep'))
    <3>1. kept \subseteq Ids(ImmEntries \cup TableSet(disk, l0 \cup deep) \cup (mem \cap SyncedSet(disk, logfile)))
      BY <1>2 DEF MemoryOK
    <3>2. Ids(ImmEntries \cup TableSet(disk, l0 \cup deep) \cup (mem \cap SyncedSet(disk, logfile)))
            \subseteq Ids(mem \cup TableSet(disk, l0 \cup deep))
      BY <1>7 DEF Ids
    <3>3. UNCHANGED <<kept, l0, deep>>
      BY <1>1
    <3> QED BY <1>7, <2>1, <3>1, <3>2, <3>3
  <2>9. mem' = {}
    BY <1>1
  <2>10. kept' \subseteq Ids(ImmEntries' \cup TableSet(disk', l0' \cup deep')
                             \cup (mem' \cap SyncedSet(disk', logfile')))
    BY <2>8, <2>9
  <2> HIDE <1>1
  <2> QED BY <2>3, <2>4, <2>5, <2>6, <2>7, <2>9, <2>10 DEF MemoryOK
<1>12. scheduled' \in BOOLEAN /\ bgError' \in BOOLEAN /\ (bgError => bgError')
  BY <1>1, <1>2 DEF WorkOK, WorkToDo
<1>13. flush = None
  BY <1>1, <1>2 DEF FlushOK
<1>14. next' \in Nat /\ next <= next' /\ lastSeq' \in Nat /\ lastSeq <= lastSeq'
       /\ logfile' \in Nat /\ logfile <= logfile'
  BY <1>1, <1>3
<1>15. EditOK' /\ FlushOK' /\ CompactionOK' /\ WorkOK'
  <2>1. UNCHANGED <<l0, deep, pending, flush, compaction, edit, pinned>>
    BY <1>1
  <2>2. disk'.tables = disk.tables /\ disk'.manifest = disk.manifest
    BY <1>4
  <2> HIDE <1>1
  <2> QED BY <1>2, <1>12, <1>13, <1>14, <2>1, <2>2, WorkSame
<1>16. /\ \A m \in Versions' : UpToDate(m, disk', Visible', logfile', next', lastSeq')
       /\ \A m \in Versions' : VersionOK(m, disk', Visible', asked', kept')
  <2>1. \A m \in Versions : UpToDate(m, disk, Visible, logfile, next, lastSeq)
                            /\ VersionOK(m, disk, Visible, asked, kept)
    BY <1>2 DEF Running
  <2>2. ASSUME NEW m \in Versions
        PROVE  Visible' \subseteq Content(disk', m) /\ VersionOK(m, disk', Visible', asked', kept')
    <3>1. Content(disk, m) \subseteq Content(disk', m) /\ VersionOK(m, disk', Visible, asked, kept)
      BY <1>4, <2>1, ContentGrows
    <3>2. Visible \subseteq Content(disk, m)
      BY <2>1 DEF UpToDate
    <3> QED BY <1>1, <1>10, <3>1, <3>2
  <2>3. edit' = edit /\ UNCHANGED <<l0, deep, logNumber>> /\ disk'.manifest = disk.manifest
    BY <1>1, <1>4
  <2> HIDE <1>1
  <2> QED BY <1>2, <1>4, <1>14, <2>1, <2>2, <2>3, VersionsStay
<1>17. Running' /\ up' = up
  <2>1. recovery' = None /\ up' = up
    BY <1>1, <1>2 DEF Running
  <2> QED BY <1>11, <1>15, <1>16, <2>1 DEF Running
<1>18. IInv'
  BY <1>2, <1>4, <1>5, <1>6, <1>8, <1>9, <1>17 DEF IInv, IsRunning
<1> QED BY <1>1, <1>10, <1>18 DEF Stutters

-----------------------------------------------------------------------------
(* The background thread.                                                  *)

\* What it never touches.
BackgroundKeeps ==
  /\ UNCHANGED <<writers, call, asleep, group, asked, kept, mem, logfile, lastSeq, up, pinned, recovery>>
  /\ awaiting' \subseteq Thread /\ UsesNoWrite

\* What the versions must still be.
VersionsOK ==
  \A m \in Versions : /\ UpToDate(m, disk, Visible, logfile, next, lastSeq)
                      /\ VersionOK(m, disk, Visible, asked, kept)

LEMMA VersionsAreOK ==
  ASSUME IInv, IsRunning
  PROVE  VersionsOK
BY DEF IInv, Running, VersionsOK

LEMMA BackgroundStep ==
  ASSUME IInv, IsRunning, BackgroundKeeps, DiskOK(disk'), ImmEntries' \subseteq ImmEntries,
         Files(disk') \subseteq Files(disk) \cup ImmEntries,
         LogSet(disk, logfile) \subseteq LogSet(disk', logfile),
         SyncedSet(disk, logfile) \subseteq SyncedSet(disk', logfile),
         Visible' = Visible, MemoryOK', EditOK', FlushOK', CompactionOK', WorkOK', VersionsOK'
  PROVE  IInv' /\ Stutters
<1>1. /\ DiskOK(disk) /\ QueueOK /\ UsedOK /\ EntriesOK /\ GroupOK /\ Running
  BY DEF IInv
<1>2. /\ UNCHANGED <<writers, call, asleep, group, asked, kept, mem, logfile, lastSeq, up, pinned, recovery>>
      /\ awaiting' \subseteq Thread /\ UsesNoWrite
  BY DEF BackgroundKeeps
<1>3. QueueOK'
  BY <1>1, <1>2, QueueSame
<1>4. UsedOK' /\ used'["writes"] = used["writes"]
  BY <1>1, <1>2, UsedSame
<1>5. EntriesOK'
  <2>1. Flying' = Flying
    BY <1>2 DEF Flying
  <2>2. Everything' \subseteq Everything
    BY <1>2, <2>1 DEF Everything
  <2> QED BY <1>1, <1>2, <1>4, <2>2, EntriesSame
<1>6. GroupOK'
  <2>1. writers' \in Seq(Thread)
    BY <1>3 DEF QueueOK
  <2>2. LogSet(disk, logfile) \subseteq LogSet(disk', logfile')
        /\ SyncedSet(disk, logfile) \subseteq SyncedSet(disk', logfile') /\ mem \subseteq mem'
    BY <1>2
  <2> QED BY <1>1, <1>2, <2>1, <2>2, GroupSame
<1>7. IsRunning' /\ up' = up /\ recovery' = None
  BY <1>1, <1>2 DEF IsRunning, Running
<1>8. Running'
  BY <1>7 DEF Running, VersionsOK
<1>9. IInv'
  BY <1>3, <1>4, <1>5, <1>6, <1>7, <1>8 DEF IInv, IsRunning
<1> QED BY <1>2, <1>9 DEF Stutters

\* Steps that change no version that is there: at most a table is made.
BuildKeeps ==
  /\ UNCHANGED <<imm, l0, deep, logNumber>>
  /\ next' \in Nat /\ next <= next'
  /\ disk'.logs = disk.logs /\ disk'.manifest = disk.manifest
  /\ \A t \in DOMAIN disk'.tables : t < next'
  /\ \A t \in DOMAIN disk.tables : t \in DOMAIN disk'.tables /\ disk'.tables[t] = disk.tables[t]
  /\ \A t \in DOMAIN disk'.tables :
       t \notin DOMAIN disk.tables =>
         disk'.tables[t] \subseteq ImmEntries \cup TableSet(disk, DOMAIN disk.tables)

LEMMA BuiltTables ==
  ASSUME IInv, IsRunning, BackgroundKeeps, BuildKeeps, DiskOK(disk')
  PROVE  /\ Visible' = Visible /\ MemoryOK' /\ ImmEntries' = ImmEntries
         /\ Files(disk') \subseteq Files(disk) \cup ImmEntries
         /\ \A n : LogSet(disk', n) = LogSet(disk, n) /\ SyncedSet(disk', n) = SyncedSet(disk, n)
         /\ \A T : Grows(disk, disk', T, {})
         /\ \A T \in SUBSET DOMAIN disk.tables : TableSet(disk', T) = TableSet(disk, T)
<1>1. /\ DiskOK(disk) /\ MemoryOK /\ VersionsOK
  BY VersionsAreOK DEF IInv, Running
<1>2. /\ UNCHANGED <<writers, call, asleep, group, asked, kept, mem, logfile, lastSeq, up, pinned, recovery>>
      /\ UNCHANGED <<imm, l0, deep, logNumber>>
  BY DEF BackgroundKeeps, BuildKeeps
<1>3. \A n : LogSet(disk', n) = LogSet(disk, n) /\ SyncedSet(disk', n) = SyncedSet(disk, n)
  BY DEF BuildKeeps, LogSet, SyncedSet
<1>4. ASSUME NEW T PROVE Grows(disk, disk', T, {})
  BY <1>3 DEF Grows, BuildKeeps
<1>5. ASSUME NEW T \in SUBSET DOMAIN disk.tables PROVE TableSet(disk', T) = TableSet(disk, T)
  BY <1>4, GrowsTables
<1>6. l0 \cup deep \subseteq DOMAIN disk.tables
  <2>1. Current \in Versions /\ TablesOf(Current) = l0 \cup deep
    BY DEF Versions, Current, TablesOf
  <2> QED BY <1>1, <2>1 DEF VersionsOK, VersionOK
<1>7. ImmEntries' = ImmEntries /\ IsRunning' /\ Found' = Found
  <2>1. ImmEntries' = ImmEntries /\ IsRunning'
    BY <1>2 DEF ImmEntries, IsRunning
  <2> QED BY <1>2, <1>5, <1>6, <2>1 DEF Found
<1>8. Visible' = Visible
  BY <1>2, <1>7, SeenWhenRunning, SeenWhenRunningNext
<1>9. ASSUME NEW e \in TableSet(disk', DOMAIN disk'.tables)
      PROVE  e \in ImmEntries \cup TableSet(disk, DOMAIN disk.tables)
  BY TableHas DEF BuildKeeps
<1>10. MemoryOK'
  <2>1. \A e \in TableSet(disk', DOMAIN disk'.tables) : e.seq <= lastSeq
    BY <1>1, <1>9 DEF MemoryOK
  <2>2. TableSet(disk', l0 \cup deep) = TableSet(disk, l0 \cup deep)
    BY <1>5, <1>6
  <2>3. next' \in Nat /\ next <= next' /\ disk'.logs = disk.logs /\ \A t \in DOMAIN disk'.tables : t < next'
    BY DEF BuildKeeps
  <2> QED BY <1>1, <1>2, <2>1, <2>2, <2>3, MemoryFiles
<1>11. Files(disk') \subseteq Files(disk) \cup ImmEntries
  <2>1. DOMAIN disk'.logs = DOMAIN disk.logs
    BY DEF BuildKeeps
  <2> QED BY <1>3, <1>9, <2>1, FilesHas
<1> QED BY <1>3, <1>4, <1>5, <1>7, <1>8, <1>10, <1>11

LEMMA BuildStep ==
  ASSUME IInv, IsRunning, BackgroundKeeps, BuildKeeps, DiskOK(disk'),
         EditOK', FlushOK', CompactionOK', WorkOK',
         edit' \notin {edit, None} =>
           \A m \in {Apply(Current', edit'), Apply(Manifest', edit')} :
             /\ UpToDate(m, disk', Visible, logfile, next', lastSeq)
             /\ VersionOK(m, disk', Visible, asked, kept)
  PROVE  IInv' /\ Stutters
<1>1. /\ DiskOK(disk) /\ MemoryOK /\ EditOK /\ VersionsOK
  BY VersionsAreOK DEF IInv, Running
<1>2. /\ UNCHANGED <<asked, kept, logfile, lastSeq>>
      /\ UNCHANGED <<l0, deep, logNumber>> /\ next' \in Nat /\ next <= next'
      /\ disk'.manifest = disk.manifest
  BY DEF BackgroundKeeps, BuildKeeps
<1>3. /\ Visible' = Visible /\ MemoryOK' /\ ImmEntries' = ImmEntries
      /\ Files(disk') \subseteq Files(disk) \cup ImmEntries
      /\ \A n : LogSet(disk', n) = LogSet(disk, n) /\ SyncedSet(disk', n) = SyncedSet(disk, n)
  BY BuiltTables
<1>4. \A T : Grows(disk, disk', T, {})
  BY BuiltTables
<1>5. VersionsOK'
  <2>1. ASSUME NEW m \in Versions
        PROVE  Visible' \subseteq Content(disk', m) /\ VersionOK(m, disk', Visible', asked', kept')
    <3>1. Visible \subseteq Content(disk, m) /\ VersionOK(m, disk, Visible, asked, kept)
      BY <1>1 DEF VersionsOK, UpToDate
    <3>2. Content(disk, m) \subseteq Content(disk', m) /\ VersionOK(m, disk', Visible, asked, kept)
      BY <1>4, <3>1, ContentGrows
    <3> QED BY <1>2, <1>3, <3>1, <3>2
  <2>2. \A m \in Versions : UpToDate(m, disk, Visible, logfile, next, lastSeq)
    BY <1>1 DEF VersionsOK
  <2>3. logfile' \in Nat /\ logfile <= logfile' /\ lastSeq' \in Nat /\ lastSeq <= lastSeq'
    BY <1>1, <1>2 DEF MemoryOK, DiskOK
  <2>4. \/ edit' \in {edit, None}
        \/ \A m \in {Apply(Current', edit'), Apply(Manifest', edit')} :
              /\ UpToDate(m, disk', Visible', logfile', next', lastSeq')
              /\ VersionOK(m, disk', Visible', asked', kept')
    BY <1>2, <1>3
  <2>5. /\ \A m \in Versions' : UpToDate(m, disk', Visible', logfile', next', lastSeq')
        /\ \A m \in Versions' : VersionOK(m, disk', Visible', asked', kept')
    BY <1>1, <1>2, <2>1, <2>2, <2>3, <2>4, VersionsStay
  <2> QED BY <2>5 DEF VersionsOK
<1> QED BY <1>3, <1>5, BackgroundStep

\* What the invariant says while the engine is open.
LEMMA WhenRunning ==
  ASSUME IInv, IsRunning
  PROVE  /\ DiskOK(disk) /\ QueueOK /\ UsedOK /\ EntriesOK /\ GroupOK
         /\ MemoryOK /\ EditOK /\ FlushOK /\ CompactionOK /\ WorkOK /\ VersionsOK /\ recovery = None
         /\ next \in Nat /\ lastSeq \in Nat /\ logfile \in Nat /\ logNumber \in Nat
         /\ next \notin DOMAIN disk.tables /\ l0 \cup deep \subseteq DOMAIN disk.tables
         /\ bgError \in BOOLEAN /\ scheduled \in BOOLEAN
         /\ Current \in Versions /\ Manifest \in Versions
         /\ Current \in VersionState /\ Manifest \in VersionState
         /\ TablesOf(Current) = l0 \cup deep
<1>1. /\ DiskOK(disk) /\ QueueOK /\ UsedOK /\ EntriesOK /\ GroupOK /\ Running
  BY DEF IInv
<1>2. MemoryOK /\ EditOK /\ FlushOK /\ CompactionOK /\ WorkOK /\ VersionsOK /\ recovery = None
  BY <1>1 DEF Running, VersionsOK
<1>3. next \in Nat /\ lastSeq \in Nat /\ logfile \in Nat /\ logNumber \in Nat
      /\ next \notin DOMAIN disk.tables
  BY <1>1, <1>2 DEF MemoryOK, DiskOK
<1>4. Manifest \in Versions /\ Manifest \in VersionState
  BY <1>1, LastVersion DEF Manifest, Versions
<1>5. Current \in Versions /\ Current \in VersionState /\ TablesOf(Current) = l0 \cup deep
  BY <1>2 DEF Current, Versions, MemoryOK, VersionState, TablesOf
<1>6. l0 \cup deep \subseteq DOMAIN disk.tables
  BY <1>2, <1>5 DEF VersionsOK, VersionOK
<1>7. bgError \in BOOLEAN /\ scheduled \in BOOLEAN
  BY <1>2 DEF WorkOK
<1> QED BY <1>1, <1>2, <1>3, <1>4, <1>5, <1>6, <1>7

\* Its work is that of an open engine, one thing at a time.
LEMMA AtWork ==
  ASSUME IInv, scheduled \/ flush # None \/ compaction # None \/ edit # None
  PROVE  /\ IsRunning
         /\ flush = None /\ (compaction = None \/ compaction.stage = "merge") => edit = None
         /\ flush # None /\ flush \in pending => edit = None
         /\ edit = None => ~ IsSyncing /\ CurrentTables = l0 \cup deep
<1>1. IsRunning
  BY DEF IInv, Down, Quiet
<1>2. EditOK
  BY <1>1, WhenRunning
<1>3. flush = None /\ (compaction = None \/ compaction.stage = "merge") => edit = None
  BY <1>2 DEF EditOK
<1>4. flush # None /\ flush \in pending => edit = None
  BY <1>2 DEF EditOK
<1>5. edit = None => ~ IsSyncing /\ CurrentTables = l0 \cup deep
  BY DEF IsSyncing, CurrentTables
<1> QED BY <1>1, <1>3, <1>4, <1>5

\* A compaction goes on when tables are made.
LEMMA CompactionGoesOn ==
  ASSUME IInv, IsRunning, BackgroundKeeps, BuildKeeps, DiskOK(disk'), compaction' = compaction,
         compaction # None => \/ compaction.stage = "merge"
                              \/ edit' = edit /\ flush' = flush,
         compaction # None /\ compaction.output # 0 => compaction.output \in pending'
  PROVE  CompactionOK'
<1>1. /\ CompactionOK /\ l0 \cup deep \subseteq DOMAIN disk.tables
  BY WhenRunning
<1>2. \A T \in SUBSET DOMAIN disk.tables : TableSet(disk', T) = TableSet(disk, T)
  BY BuiltTables
<1>3. /\ UNCHANGED <<l0, deep>>
      /\ \A t \in DOMAIN disk.tables : t \in DOMAIN disk'.tables /\ disk'.tables[t] = disk.tables[t]
  BY DEF BuildKeeps
<1> SUFFICES ASSUME compaction # None PROVE CompactionOK'
  BY DEF CompactionOK
<1>4. /\ compaction \in CompactionRecord /\ compaction.inputs \subseteq l0 \cup deep
      /\ compaction.base \subseteq DOMAIN disk.tables
      /\ compaction.output # 0 => /\ compaction.output \in DOMAIN disk.tables
                                  /\ disk.tables[compaction.output] = TableSet(disk, compaction.inputs)
      /\ compaction.stage = "install" => compaction.output # 0
      /\ compaction.stage # "merge" => edit # None /\ flush = None
  BY <1>1 DEF CompactionOK
<1>5. TableSet(disk', compaction.inputs) = TableSet(disk, compaction.inputs)
  BY <1>1, <1>2, <1>4
<1>6. compaction.stage # "merge" => edit' # None /\ flush' = None
  BY <1>4
<1> QED BY <1>3, <1>4, <1>5, <1>6 DEF CompactionOK

\* The tables that readers hold.
LEMMA WorkGoesOn ==
  ASSUME IInv, IsRunning, BackgroundKeeps, BuildKeeps, pending' \subseteq Nat,
         bgError' \in BOOLEAN, scheduled' \in BOOLEAN,
         flush' # None \/ compaction' # None \/ ~ bgError' => CurrentTables' \subseteq TablesOf(Manifest'),
         ~ bgError' => TablesOf(Manifest') \subseteq CurrentTables'
  PROVE  WorkOK'
<1>1. WorkOK
  BY WhenRunning
<1>2. pinned' = pinned
  BY DEF BackgroundKeeps
<1>3. SUBSET DOMAIN disk.tables \subseteq SUBSET DOMAIN disk'.tables
  BY DEF BuildKeeps
<1>4. pinned' \in [Reader -> MaybeOneOf(SUBSET DOMAIN disk'.tables)]
  BY <1>1, <1>2, <1>3 DEF WorkOK, MaybeOneOf
<1> QED BY <1>4 DEF WorkOK

LEMMA SameFiles ==
  ASSUME IInv, IsRunning, UNCHANGED <<imm, l0, deep, logNumber, disk>>, next' \in {next, next + 1}
  PROVE  BuildKeeps /\ DiskOK(disk')
<1>1. DiskOK(disk) /\ next \in Nat /\ MemoryOK
  BY WhenRunning
<1>2. \A t \in DOMAIN disk.tables : t \in Nat /\ t < next
  BY <1>1 DEF MemoryOK, DiskOK
<1>3. next' \in Nat /\ next <= next' /\ \A t \in DOMAIN disk.tables : t < next'
  BY <1>1, <1>2
<1> QED BY <1>1, <1>3 DEF BuildKeeps

LEMMA NothingToDoStep ==
  ASSUME IInv, NothingToDo
  PROVE  IInv' /\ Stutters
<1>1. /\ scheduled /\ awaiting' = {} /\ scheduled' = WorkToDo(bgError, imm, l0)
      /\ UNCHANGED <<writers, call, asleep, group, asked, kept>>
      /\ UNCHANGED <<mem, imm, l0, deep, logNumber, logfile, next, lastSeq>>
      /\ UNCHANGED <<pending, bgError, flush, compaction, edit, disk, used>>
      /\ UNCHANGED <<up, pinned, recovery, instance>>
  BY DEF NothingToDo, EndOfWork, Untouched, memory
<1>2. IsRunning
  BY <1>1, AtWork
<1>3. /\ MemoryOK /\ EditOK /\ FlushOK /\ CompactionOK /\ WorkOK
      /\ next \in Nat /\ lastSeq \in Nat /\ bgError \in BOOLEAN
  BY <1>2, WhenRunning
<1>4. BackgroundKeeps /\ BuildKeeps /\ DiskOK(disk')
  <2>1. BackgroundKeeps
    BY <1>1 DEF BackgroundKeeps, UsesNoWrite
  <2> QED BY <1>1, <1>2, <2>1, SameFiles
<1>5. EditOK' /\ FlushOK' /\ CompactionOK' /\ WorkOK'
  <2>1. scheduled' \in BOOLEAN
    BY <1>1 DEF WorkToDo
  <2> QED BY <1>1, <1>3, <2>1, WorkSame
<1>6. edit' = edit
  BY <1>1
<1> QED BY <1>2, <1>4, <1>5, <1>6, BuildStep

LEMMA StartFlushStep ==
  ASSUME IInv, StartFlush
  PROVE  IInv' /\ Stutters
<1>1. /\ flush = None /\ imm # {}
      /\ \/ scheduled /\ compaction = None /\ ~ bgError
         \/ compaction # None /\ compaction.stage = "merge"
      /\ flush' = next /\ next' = next + 1 /\ pending' = pending \cup {next}
      /\ UNCHANGED <<writers, call, asleep, awaiting, group, asked, kept>>
      /\ UNCHANGED <<mem, imm, l0, deep, logNumber, logfile, lastSeq>>
      /\ UNCHANGED <<bgError, scheduled, compaction, edit, disk, used>>
      /\ UNCHANGED <<up, pinned, recovery, instance>>
  BY DEF StartFlush, Untouched, client, CanStart
<1>2. IsRunning /\ edit = None /\ ~ IsSyncing /\ CurrentTables = l0 \cup deep
  BY <1>1, AtWork
<1>3. /\ MemoryOK /\ FlushOK /\ CompactionOK /\ WorkOK /\ QueueOK
      /\ next \in Nat /\ next \notin DOMAIN disk.tables /\ bgError \in BOOLEAN /\ scheduled \in BOOLEAN
  BY <1>2, WhenRunning
<1>4. BackgroundKeeps /\ BuildKeeps /\ DiskOK(disk')
  <2>1. BackgroundKeeps
    BY <1>1, <1>3 DEF BackgroundKeeps, UsesNoWrite, QueueOK
  <2> QED BY <1>1, <1>2, <2>1, SameFiles
<1>5. EditOK' /\ edit' = edit
  BY <1>1, <1>2 DEF EditOK
<1>6. FlushOK'
  BY <1>1, <1>3 DEF FlushOK
<1>7. CompactionOK'
  BY <1>1, <1>2, <1>3, <1>4, CompactionGoesOn DEF CompactionOK
<1>8. WorkOK'
  <2>1. CurrentTables' = CurrentTables /\ Manifest' = Manifest
    BY <1>1, <1>2 DEF CurrentTables, IsSyncing, Manifest
  <2>2. CurrentTables \subseteq TablesOf(Manifest) /\ (~ bgError => TablesOf(Manifest) \subseteq CurrentTables)
    BY <1>1, <1>3 DEF WorkOK
  <2>3. pending' \subseteq Nat
    BY <1>1, <1>3 DEF WorkOK
  <2> QED BY <1>1, <1>2, <1>3, <1>4, <2>1, <2>2, <2>3, WorkGoesOn
<1> QED BY <1>2, <1>4, <1>5, <1>6, <1>7, <1>8, BuildStep

\* The table of a memtable.
LEMMA TableIsBuilt ==
  ASSUME IInv, IsBuilding, disk' = WithTable, UNCHANGED <<imm, l0, deep, logNumber, next>>
  PROVE  /\ IsRunning /\ edit = None /\ flush \in Nat /\ flush < next /\ flush \notin DOMAIN disk.tables
         /\ BuildKeeps /\ DiskOK(disk')
         /\ ImmEntries # {} => flush \in DOMAIN disk'.tables /\ disk'.tables[flush] = ImmEntries
<1>1. flush # None /\ flush \in pending
  BY DEF IsBuilding
<1>2. IsRunning /\ edit = None
  BY <1>1, AtWork
<1>3. /\ DiskOK(disk) /\ MemoryOK /\ FlushOK /\ next \in Nat
  BY <1>2, WhenRunning
<1>4. flush \in Nat /\ flush < next /\ flush \notin DOMAIN disk.tables
  BY <1>1, <1>2, <1>3 DEF FlushOK
<1>5. CASE ImmEntries = {}
  <2>1. disk' = disk
    BY <1>5 DEF WithTable, ImmEntries
  <2> QED BY <1>2, <1>4, <1>5, <2>1, SameFiles
<1>6. CASE ImmEntries # {}
  <2>1. disk' = [disk EXCEPT !.tables = With(@, flush, ImmEntries)]
    BY <1>6 DEF WithTable, ImmEntries
  <2>2. ImmEntries \in SUBSET Entry
    BY <1>3 DEF MemoryOK, ImmEntries
  <2>3. PICK q : q = disk'
    OBVIOUS
  <2>4. PICK c \in SUBSET Entry : c = ImmEntries
    BY <2>2
  <2>5. TableIsAdded(disk, q, flush, c)
    BY <2>1, <2>3, <2>4 DEF TableIsAdded
  <2>6. OneMoreTable(disk, q, flush, c)
    BY <1>3, <1>4, <2>5, TableMade
  <2>7. DiskOK(q) /\ q.logs = disk.logs /\ q.manifest = disk.manifest
    BY <2>6 DEF OneMoreTable
  <2>8. /\ DOMAIN q.tables = DOMAIN disk.tables \cup {flush} /\ q.tables[flush] = c
        /\ \A s \in DOMAIN disk.tables : s # flush => q.tables[s] = disk.tables[s]
    BY <2>6 DEF OneMoreTable
  <2>9. \A t \in DOMAIN q.tables : t < next
    BY <1>3, <1>4, <2>8 DEF MemoryOK
  <2>10. BuildKeeps
    BY <1>3, <1>4, <2>3, <2>4, <2>7, <2>8, <2>9 DEF BuildKeeps
  <2> QED BY <1>2, <1>4, <2>3, <2>4, <2>7, <2>8, <2>10
<1> QED BY <1>5, <1>6

LEMMA BuildTableStep ==
  ASSUME IInv, BuildTable
  PROVE  IInv' /\ Stutters
<1> DEFINE table == IF UNION imm = {} THEN {} ELSE {flush}
<1>1. /\ IsBuilding /\ disk' = WithTable /\ pending' = pending \ {flush}
      /\ edit' \in {EditOf(table, {}, {}, logfile), EditOf({}, table, {}, logfile)}
      /\ UNCHANGED <<writers, call, asleep, awaiting, group, asked, kept>>
      /\ UNCHANGED <<mem, imm, l0, deep, logNumber, logfile, next, lastSeq>>
      /\ UNCHANGED <<bgError, scheduled, flush, compaction, used>>
      /\ UNCHANGED <<up, pinned, recovery, instance>>
  BY DEF BuildTable, Untouched, client, memory
<1>2. /\ IsRunning /\ edit = None /\ flush \in Nat /\ flush < next /\ flush \notin DOMAIN disk.tables
      /\ BuildKeeps /\ DiskOK(disk')
      /\ ImmEntries # {} => flush \in DOMAIN disk'.tables /\ disk'.tables[flush] = ImmEntries
  BY <1>1, TableIsBuilt
<1>3. flush # None /\ flush \in pending /\ ~ IsSyncing /\ CurrentTables = l0 \cup deep
  BY <1>1, <1>2, AtWork DEF IsBuilding
<1>4. /\ DiskOK(disk) /\ MemoryOK /\ FlushOK /\ CompactionOK /\ WorkOK /\ QueueOK /\ VersionsOK
      /\ next \in Nat /\ lastSeq \in Nat /\ logfile \in Nat
      /\ bgError \in BOOLEAN /\ scheduled \in BOOLEAN
      /\ Current \in Versions /\ Manifest \in Versions
      /\ Current \in VersionState /\ Manifest \in VersionState
      /\ TablesOf(Current) = l0 \cup deep /\ l0 \cup deep \subseteq DOMAIN disk.tables
  BY <1>2, WhenRunning
<1>5. BackgroundKeeps
  BY <1>1, <1>4 DEF BackgroundKeeps, UsesNoWrite, QueueOK
<1>6. /\ Visible' = Visible /\ MemoryOK' /\ ImmEntries' = ImmEntries
      /\ \A n : LogSet(disk', n) = LogSet(disk, n) /\ SyncedSet(disk', n) = SyncedSet(disk, n)
  BY <1>2, <1>5, BuiltTables
<1>7. \A T : Grows(disk, disk', T, {})
  BY <1>2, <1>5, BuiltTables
<1>8. \A T \in SUBSET DOMAIN disk.tables : TableSet(disk', T) = TableSet(disk, T)
  BY <1>2, <1>5, BuiltTables
<1>9. PICK e \in EditRecord :
        /\ edit' = e /\ e.del = {} /\ e.add0 \cup e.add = table /\ e.log = logfile
        /\ e.next = next /\ e.last = lastSeq /\ e.stage = "append"
  <2>1. table \in SUBSET Nat
    BY <1>2
  <2> HIDE DEF table
  <2>2. PICK a, b \in SUBSET Nat : edit' = EditOf(a, b, {}, logfile) /\ a \cup b = table
    BY <1>1, <2>1
  <2>3. /\ EditOf(a, b, {}, logfile) \in EditRecord
        /\ EditOf(a, b, {}, logfile).del = {}
        /\ EditOf(a, b, {}, logfile).add0 = a /\ EditOf(a, b, {}, logfile).add = b
        /\ EditOf(a, b, {}, logfile).log = logfile /\ EditOf(a, b, {}, logfile).next = next
        /\ EditOf(a, b, {}, logfile).last = lastSeq /\ EditOf(a, b, {}, logfile).stage = "append"
    BY <1>4 DEF EditOf, EditRecord
  <2> QED BY <2>2, <2>3
<1>10. table = IF ImmEntries = {} THEN {} ELSE {flush}
  BY DEF ImmEntries
<1> HIDE DEF table
<1>11. UNCHANGED <<imm, l0, deep, logNumber, logfile, next, lastSeq, flush, compaction, bgError, scheduled>>
       /\ pending' = pending \ {flush}
  BY <1>1
<1>12. edit' # None /\ ~ IsSyncing'
  BY <1>9, NotNone DEF IsSyncing
<1> HIDE <1>1
<1>13. Manifest' = Manifest /\ Current' = Current
  BY <1>2, <1>11 DEF BuildKeeps, Manifest, Current
<1>14. EditOK'
  <2>1. \A m \in ToSet(disk.manifest) : m.next <= next
    BY <1>4 DEF VersionsOK, Versions, UpToDate
  <2>2. ToSet(disk'.manifest) = ToSet(disk.manifest)
    BY <1>2 DEF BuildKeeps
  <2>3. \/ /\ e.add0 \cup e.add = {flush'}
           /\ flush' \in DOMAIN disk'.tables /\ disk'.tables[flush'] = ImmEntries'
        \/ e.add0 \cup e.add = {} /\ ImmEntries' = {}
    BY <1>2, <1>6, <1>9, <1>10, <1>11
  <2>4. flush' # None /\ flush' \notin pending'
    BY <1>3, <1>11
  <2>5. edit'.next <= next' /\ edit'.last <= lastSeq'
    BY <1>4, <1>9, <1>11
  <2> QED BY <1>9, <1>12, <2>1, <2>2, <2>3, <2>4, <2>5 DEF EditOK
<1>15. FlushOK'
  BY <1>2, <1>3, <1>4, <1>11, <1>12 DEF FlushOK
<1>16. CompactionOK'
  <2>1. compaction # None => compaction.stage = "merge"
    BY <1>3, <1>4 DEF FlushOK
  <2>2. compaction # None /\ compaction.output # 0 => compaction.output \in pending'
    BY <1>2, <1>4, <1>11 DEF CompactionOK
  <2> QED BY <1>2, <1>5, <1>11, <2>1, <2>2, CompactionGoesOn
<1>17. CurrentTables \subseteq TablesOf(Manifest)
  BY <1>3, <1>4 DEF WorkOK
<1>18. WorkOK'
  <2>1. CurrentTables' = CurrentTables
    BY <1>3, <1>11, <1>12 DEF CurrentTables
  <2>2. pending' \subseteq Nat
    BY <1>4, <1>11 DEF WorkOK
  <2>3. ~ bgError => TablesOf(Manifest) \subseteq CurrentTables
    BY <1>4 DEF WorkOK
  <2> QED BY <1>2, <1>4, <1>5, <1>11, <1>13, <1>17, <2>1, <2>2, <2>3, WorkGoesOn
<1>19. ASSUME NEW b \in {Current, Manifest}
       PROVE  /\ UpToDate(Apply(b, e), disk', Visible, logfile, next, lastSeq)
              /\ VersionOK(Apply(b, e), disk', Visible, asked, kept)
  <2>1. PICK m \in VersionState : m = Apply(b, e)
    BY <1>4, ApplyTables
  <2>2. /\ TablesOf(m) = TablesOf(b) \cup table /\ m.log = logfile /\ m.next = next /\ m.last = lastSeq
    BY <1>4, <1>9, <2>1, ApplyTables
  <2>3. /\ b \in Versions /\ b.log \in Nat /\ b.log <= logfile /\ b.next \in Nat /\ b.next <= next
        /\ VersionOK(b, disk, Visible, asked, kept)
        /\ l0 \cup deep \subseteq TablesOf(b)
    BY <1>3, <1>4, <1>17 DEF VersionsOK, UpToDate, VersionState
  <2>4. Content(disk, b) \subseteq Content(disk', b) /\ VersionOK(b, disk', Visible, asked, kept)
    BY <1>7, <2>3, ContentGrows
  <2>5. \A t \in TablesOf(b) : t \in DOMAIN disk.tables /\ t < b.next /\ t \in Nat
    BY <1>4, <2>3 DEF VersionOK, DiskOK
  <2>6. \A t \in TablesOf(m) : t \in DOMAIN disk'.tables /\ t < m.next
    BY <1>2, <1>4, <1>10, <2>2, <2>3, <2>5 DEF BuildKeeps
  <2>7. TableSet(disk', TablesOf(m)) = TableSet(disk, TablesOf(b)) \cup ImmEntries
    <3>1. TableSet(disk', TablesOf(b)) = TableSet(disk, TablesOf(b))
      BY <1>8, <2>5
    <3>2. TableSet(disk', table) = ImmEntries
      <4>1. \A x : x \in TableSet(disk', table) <=> x \in ImmEntries
        BY <1>2, <1>10, TableHas
      <4> QED BY <4>1
    <3> QED BY <2>2, <3>1, <3>2, TableUnion
  <2>8. \A x \in TableSet(disk', TablesOf(m)) : x.seq <= lastSeq
    <3>1. TableSet(disk, TablesOf(b)) \subseteq TableSet(disk, DOMAIN disk.tables)
      BY <2>5, TableMonotone
    <3> QED BY <1>4, <2>7, <3>1 DEF MemoryOK
  <2>9. TableSet(disk, l0 \cup deep) \subseteq TableSet(disk, TablesOf(b))
    BY <2>3, TableMonotone
  <2>10. Visible = {x \in Found : x.seq <= lastSeq}
    BY <1>2, SeenWhenRunning
  <2>11. logfile \in DOMAIN disk'.logs /\ logfile >= m.log /\ mem \subseteq LogSet(disk', logfile)
    BY <1>2, <1>4, <1>6, <2>2 DEF MemoryOK, BuildKeeps
  <2>12. Visible \subseteq Content(disk', m)
    <3>1. \A x \in Found : x \in Content(disk', m)
      BY <2>7, <2>9, <2>11, ContentHas DEF Found
    <3> QED BY <2>10, <3>1
  <2>13. kept \subseteq Ids(Secured(disk', m))
    <3>1. kept \subseteq Ids(ImmEntries \cup TableSet(disk, l0 \cup deep) \cup (mem \cap SyncedSet(disk, logfile)))
      BY <1>4 DEF MemoryOK
    <3>2. \A x \in ImmEntries \cup TableSet(disk, l0 \cup deep) \cup (mem \cap SyncedSet(disk, logfile)) :
            x \in Secured(disk', m)
      BY <1>6, <2>7, <2>9, <2>11, ContentHas
    <3> QED BY <3>1, <3>2 DEF Ids
  <2>14. Ids(Content(disk', m)) \subseteq asked \cup Ids(Visible)
    <3>1. \A x \in Content(disk', m) : x \in Content(disk', b) \/ x \in ImmEntries
      <4> SUFFICES ASSUME NEW x \in Content(disk', m), x \notin ImmEntries PROVE x \in Content(disk', b)
        OBVIOUS
      <4>1. CASE x \in TableSet(disk', TablesOf(m))
        <5>1. x \in TableSet(disk, TablesOf(b))
          BY <2>7, <4>1
        <5>2. x \in TableSet(disk', TablesOf(b))
          BY <1>8, <2>5, <5>1
        <5> QED BY <5>2, ContentHas
      <4>2. CASE \E n \in DOMAIN disk'.logs : n >= m.log /\ x \in LogSet(disk', n)
        <5>1. PICK n \in DOMAIN disk'.logs : n >= m.log /\ x \in LogSet(disk', n)
          BY <4>2
        <5>2. n \in Nat /\ n >= b.log
          BY <1>2, <1>4, <2>2, <2>3, <5>1 DEF DiskOK
        <5> QED BY <5>1, <5>2, ContentHas
      <4> QED BY <4>1, <4>2, ContentHas
    <3>2. \A x \in ImmEntries : x \in Visible
      BY <1>4, <2>10 DEF MemoryOK, Found
    <3>3. Ids(Content(disk', b)) \subseteq asked \cup Ids(Visible)
      BY <2>4 DEF VersionOK
    <3> QED BY <3>1, <3>2, <3>3 DEF Ids
  <2>15. m.log < m.next
    BY <1>4, <2>2 DEF MemoryOK
  <2>16. UpToDate(m, disk', Visible, logfile, next, lastSeq)
    BY <1>4, <2>2, <2>12 DEF UpToDate
  <2>17. VersionOK(m, disk', Visible, asked, kept)
    BY <2>2, <2>6, <2>8, <2>13, <2>14, <2>15 DEF VersionOK
  <2> QED BY <2>1, <2>16, <2>17
<1>20. \A m \in {Apply(Current', edit'), Apply(Manifest', edit')} :
          /\ UpToDate(m, disk', Visible, logfile, next', lastSeq)
          /\ VersionOK(m, disk', Visible, asked, kept)
  BY <1>9, <1>11, <1>13, <1>19
<1> QED BY <1>2, <1>5, <1>14, <1>15, <1>16, <1>18, <1>20, BuildStep

LEMMA FlushFailsStep ==
  ASSUME IInv, flush # None, FlushFails, BuildKeeps, DiskOK(disk'), UsesNoWrite,
         pending' = pending \/ (edit = None /\ pending' = pending \ {flush})
  PROVE  IInv' /\ Stutters
<1>1. /\ flush' = None /\ edit' = None /\ bgError' = TRUE /\ awaiting' = {}
      /\ scheduled' = WorkToDo(TRUE, imm, l0) \/ scheduled' = scheduled
      /\ UNCHANGED <<writers, call, asleep, group, asked, kept>>
      /\ UNCHANGED <<mem, imm, l0, deep, logNumber, logfile, next, lastSeq, compaction>>
      /\ UNCHANGED <<up, pinned, recovery, instance>>
  BY DEF FlushFails, EndOfWork, Untouched, memory
<1>2. IsRunning /\ (edit = None => ~ IsSyncing /\ CurrentTables = l0 \cup deep)
  BY AtWork
<1>3. /\ DiskOK(disk) /\ MemoryOK /\ EditOK /\ FlushOK /\ CompactionOK /\ WorkOK
      /\ scheduled \in BOOLEAN /\ TablesOf(Current) = l0 \cup deep
      /\ Current \in VersionState
  BY <1>2, WhenRunning
<1>4. BackgroundKeeps
  BY <1>1 DEF BackgroundKeeps
<1>5. scheduled' \in BOOLEAN /\ bgError' \in BOOLEAN
  BY <1>1, <1>3 DEF WorkToDo
<1>6. EditOK' /\ FlushOK'
  BY <1>1 DEF EditOK, FlushOK
<1>7. CompactionOK'
  <2>1. compaction # None => compaction.stage = "merge"
    BY <1>3 DEF FlushOK
  <2>2. compaction # None /\ compaction.output # 0 => compaction.output \in pending'
    BY <1>3 DEF CompactionOK, FlushOK
  <2>3. compaction' = compaction
    BY <1>1
  <2> HIDE <1>1
  <2> QED BY <1>2, <1>4, <2>1, <2>2, <2>3, CompactionGoesOn
<1>8. CurrentTables' = l0 \cup deep /\ Manifest' = Manifest
  BY <1>1 DEF CurrentTables, IsSyncing, BuildKeeps, Manifest
<1>9. l0 \cup deep \subseteq TablesOf(Manifest)
  <2>1. CurrentTables \subseteq TablesOf(Manifest)
    BY <1>3 DEF WorkOK
  <2>2. CASE edit = None
    BY <1>2, <2>1, <2>2
  <2>3. CASE edit # None
    <3>1. edit \in EditRecord /\ edit.del = {}
      BY <1>3, <2>3 DEF EditOK
    <3>2. TablesOf(Apply(Current, edit)) = (TablesOf(Current) \ edit.del) \cup (edit.add0 \cup edit.add)
      BY <1>3, <3>1, ApplyTables
    <3>3. l0 \cup deep \subseteq CurrentTables
      BY <1>3, <3>1, <3>2 DEF CurrentTables
    <3> QED BY <2>1, <3>3
  <2> QED BY <2>2, <2>3
<1>10. WorkOK'
  <2>1. pending' \subseteq Nat
    BY <1>3 DEF WorkOK
  <2>2. bgError' = TRUE
    BY <1>1
  <2> HIDE <1>1
  <2> QED BY <1>2, <1>4, <1>5, <1>8, <1>9, <2>1, <2>2, WorkGoesOn
<1>11. edit' = None
  BY <1>1
<1> HIDE <1>1
<1> QED BY <1>2, <1>4, <1>6, <1>7, <1>10, <1>11, BuildStep

LEMMA BuildTableInVainStep ==
  ASSUME IInv, BuildTableInVain
  PROVE  IInv' /\ Stutters
<1>1. /\ IsBuilding /\ disk' = WithTable /\ pending' = pending \ {flush} /\ FlushFails /\ used' = used
      /\ UNCHANGED <<imm, l0, deep, logNumber, next, instance>>
  BY DEF BuildTableInVain, FlushFails, memory, Untouched
<1>2. edit = None /\ BuildKeeps /\ DiskOK(disk')
  BY <1>1, TableIsBuilt
<1>3. flush # None /\ UsesNoWrite
  BY <1>1 DEF IsBuilding, UsesNoWrite
<1> QED BY <1>1, <1>2, <1>3, FlushFailsStep

LEMMA BuildTableFailsStep ==
  ASSUME IInv, BuildTableFails
  PROVE  IInv' /\ Stutters
<1>1. /\ IsBuilding /\ pending' = pending \ {flush} /\ FlushFails /\ Use("faults")
      /\ disk' = [disk EXCEPT !.tables = Restrict(@, DOMAIN @ \ {flush})]
      /\ UNCHANGED <<imm, l0, deep, logNumber, next, instance>>
  BY DEF BuildTableFails, FlushFails, memory, Untouched, Fault
<1>2. flush # None /\ UsesNoWrite /\ flush \in pending
  BY <1>1 DEF IsBuilding, UsesNoWrite
<1>3. IsRunning /\ edit = None
  BY <1>2, AtWork
<1>4. DiskOK(disk) /\ FlushOK /\ MemoryOK /\ next \in Nat
  BY <1>3, WhenRunning
<1>5. flush \notin DOMAIN disk.tables
  BY <1>2, <1>3, <1>4 DEF FlushOK
<1>6. /\ DOMAIN disk' = {"logs", "tables", "manifest"}
      /\ disk'.logs = disk.logs /\ disk'.manifest = disk.manifest
      /\ disk'.tables = Restrict(disk.tables, DOMAIN disk.tables \ {flush})
  BY <1>1, <1>4 DEF DiskOK
<1>7. DOMAIN disk'.tables = DOMAIN disk.tables
      /\ \A t \in DOMAIN disk.tables : disk'.tables[t] = disk.tables[t]
  BY <1>5, <1>6 DEF Restrict
<1>8. DiskOK(disk')
  BY <1>4, <1>6, <1>7 DEF DiskOK
<1>9. BuildKeeps
  <2>1. \A t \in DOMAIN disk'.tables : t \in DOMAIN disk.tables /\ t < next
    BY <1>4, <1>7 DEF MemoryOK
  <2>2. /\ UNCHANGED <<imm, l0, deep, logNumber>> /\ next' = next /\ next <= next
    BY <1>1, <1>4
  <2> HIDE <1>1
  <2> QED BY <1>4, <1>6, <1>7, <2>1, <2>2 DEF BuildKeeps
<1> QED BY <1>1, <1>2, <1>3, <1>8, <1>9, FlushFailsStep

\* The end of a compaction that failed.
LEMMA CompactionFailsStep ==
  ASSUME IInv, compaction # None, flush = None, CompactionFails, disk' = disk, UsesNoWrite
  PROVE  IInv' /\ Stutters
<1>1. /\ compaction' = None /\ edit' = None /\ bgError' = TRUE /\ awaiting' = {}
      /\ pending' = pending \ {compaction.output}
      /\ scheduled' = WorkToDo(TRUE, imm, l0)
      /\ UNCHANGED <<writers, call, asleep, group, asked, kept>>
      /\ UNCHANGED <<mem, imm, l0, deep, logNumber, logfile, next, lastSeq, flush>>
      /\ UNCHANGED <<up, pinned, recovery, instance>>
  BY DEF CompactionFails, EndOfWork, Untouched, memory
<1>2. IsRunning
  BY AtWork
<1>3. WorkOK
  BY <1>2, WhenRunning
<1>4. BackgroundKeeps /\ BuildKeeps /\ DiskOK(disk')
  <2>1. BackgroundKeeps
    BY <1>1 DEF BackgroundKeeps
  <2> QED BY <1>1, <1>2, <2>1, SameFiles
<1>5. EditOK' /\ FlushOK' /\ CompactionOK'
  BY <1>1 DEF EditOK, FlushOK, CompactionOK
<1>6. WorkOK'
  <2>1. pending' \subseteq Nat /\ scheduled' \in BOOLEAN
    BY <1>1, <1>3 DEF WorkOK, WorkToDo
  <2>2. flush' = None /\ compaction' = None /\ bgError' = TRUE
    BY <1>1
  <2> HIDE <1>1
  <2> QED BY <1>2, <1>4, <2>1, <2>2, WorkGoesOn
<1>7. edit' = None
  BY <1>1
<1> HIDE <1>1
<1> QED BY <1>2, <1>4, <1>5, <1>6, <1>7, BuildStep

LEMMA MergeStopsStep ==
  ASSUME IInv, MergeStops
  PROVE  IInv' /\ Stutters
<1>1. /\ compaction # None /\ flush = None /\ CompactionFails /\ disk' = disk
      /\ Use("faults") \/ UNCHANGED <<instance, used>>
  BY DEF MergeStops, IsMerging, Fault
<1>2. UsesNoWrite
  BY <1>1 DEF UsesNoWrite
<1> QED BY <1>1, <1>2, CompactionFailsStep

LEMMA ApplyFailsStep ==
  ASSUME IInv, ApplyFails
  PROVE  IInv' /\ Stutters
<1>1. /\ edit # None /\ Use("faults") /\ disk' = disk
      /\ IF flush # None THEN FlushFails /\ pending' = pending ELSE CompactionFails
  BY DEF ApplyFails, Fault
<1>2. IsRunning /\ UsesNoWrite
  BY <1>1, AtWork DEF UsesNoWrite
<1>3. CASE flush # None
  <2>1. UNCHANGED <<imm, l0, deep, logNumber, next>>
    BY <1>1, <1>3 DEF FlushFails, memory
  <2>2. BuildKeeps /\ DiskOK(disk')
    BY <1>1, <1>2, <2>1, SameFiles
  <2> QED BY <1>1, <1>2, <1>3, <2>2, FlushFailsStep
<1>4. CASE flush = None
  <2>1. EditOK
    BY <1>2, WhenRunning
  <2>2. compaction # None
    BY <1>1, <1>4, <2>1 DEF EditOK
  <2> QED BY <1>1, <1>2, <1>4, <2>2, CompactionFailsStep
<1> QED BY <1>3, <1>4

-----------------------------------------------------------------------------
(* Merging tables.                                                         *)

LEMMA StartCompactionStep ==
  ASSUME IInv, StartCompaction
  PROVE  IInv' /\ Stutters
<1>1. /\ scheduled /\ flush = None /\ compaction = None /\ ~ bgError
      /\ UNCHANGED <<writers, call, asleep, awaiting, group, asked, kept>>
      /\ UNCHANGED <<mem, imm, l0, deep, logNumber, logfile, next, lastSeq>>
      /\ UNCHANGED <<pending, bgError, scheduled, flush, edit, disk, used>>
      /\ UNCHANGED <<up, pinned, recovery, instance>>
  BY DEF StartCompaction, IsIdle, CanStart, client, memory, Untouched
<1>2. PICK a \in SUBSET l0, b \in SUBSET deep :
        compaction' = [inputs |-> a \cup b, base |-> l0 \cup deep, output |-> 0, stage |-> "merge"]
  BY DEF StartCompaction
<1>3. IsRunning /\ edit = None /\ CurrentTables = l0 \cup deep
  BY <1>1, AtWork
<1>4. /\ MemoryOK /\ WorkOK /\ QueueOK /\ scheduled \in BOOLEAN /\ bgError \in BOOLEAN
      /\ l0 \cup deep \subseteq DOMAIN disk.tables
  BY <1>3, WhenRunning
<1>5. BackgroundKeeps /\ BuildKeeps /\ DiskOK(disk')
  <2>1. BackgroundKeeps
    BY <1>1, <1>4 DEF BackgroundKeeps, UsesNoWrite, QueueOK
  <2> QED BY <1>1, <1>3, <2>1, SameFiles
<1>6. EditOK' /\ FlushOK' /\ edit' = edit
  BY <1>1, <1>3 DEF EditOK, FlushOK
<1>7. CompactionOK'
  <2>1. /\ a \cup b \subseteq l0 \cup deep /\ a \cup b \in SUBSET Nat /\ l0 \cup deep \in SUBSET Nat
    BY <1>4 DEF MemoryOK
  <2>2. /\ compaction' \in CompactionRecord /\ compaction'.inputs = a \cup b
        /\ compaction'.base = l0 \cup deep /\ compaction'.output = 0 /\ compaction'.stage = "merge"
    BY <1>2, <2>1 DEF CompactionRecord
  <2>3. UNCHANGED <<l0, deep, disk>>
    BY <1>1
  <2> HIDE <1>1, <1>2
  <2> QED BY <1>4, <2>1, <2>2, <2>3 DEF CompactionOK
<1>8. WorkOK'
  <2>1. CurrentTables' = CurrentTables /\ Manifest' = Manifest /\ bgError' = bgError
    BY <1>1, <1>3 DEF CurrentTables, IsSyncing, Manifest
  <2>2. CurrentTables \subseteq TablesOf(Manifest) /\ TablesOf(Manifest) \subseteq CurrentTables
        /\ pending \subseteq Nat
    BY <1>1, <1>4 DEF WorkOK
  <2> QED BY <1>1, <1>3, <1>4, <1>5, <2>1, <2>2, WorkGoesOn
<1> HIDE <1>1, <1>2
<1> QED BY <1>3, <1>5, <1>6, <1>7, <1>8, BuildStep

\* An edit whose new tables hold what its old ones do.
LEMMA EditMoves ==
  ASSUME IInv, IsRunning, l0 \cup deep \subseteq TablesOf(Manifest), NEW e \in EditRecord,
         e.del \subseteq l0 \cup deep, e.add0 \cup e.add \subseteq DOMAIN disk.tables,
         TableSet(disk, e.add0 \cup e.add) = TableSet(disk, e.del),
         e.log = logNumber, e.next = next, e.last = lastSeq, NEW b \in {Current, Manifest}
  PROVE  /\ UpToDate(Apply(b, e), disk, Visible, logfile, next, lastSeq)
         /\ VersionOK(Apply(b, e), disk, Visible, asked, kept)
<1>1. /\ DiskOK(disk) /\ MemoryOK /\ VersionsOK
      /\ next \in Nat /\ lastSeq \in Nat /\ logfile \in Nat /\ logNumber \in Nat
      /\ Current \in Versions /\ Manifest \in Versions
      /\ Current \in VersionState /\ Manifest \in VersionState
      /\ TablesOf(Current) = l0 \cup deep
  BY WhenRunning
<1>2. PICK m \in VersionState : m = Apply(b, e)
  BY <1>1, ApplyTables
<1>3. /\ TablesOf(m) = (TablesOf(b) \ e.del) \cup (e.add0 \cup e.add)
      /\ m.log = logNumber /\ m.next = next /\ m.last = lastSeq
  BY <1>1, <1>2, ApplyTables
<1>4. /\ b \in Versions /\ VersionOK(b, disk, Visible, asked, kept) /\ l0 \cup deep \subseteq TablesOf(b)
  BY <1>1 DEF VersionsOK
<1>5. /\ Current.log = logNumber /\ logNumber <= logfile
      /\ Visible \subseteq Content(disk, Current) /\ VersionOK(Current, disk, Visible, asked, kept)
  BY <1>1 DEF VersionsOK, UpToDate, Current
<1>6. TablesOf(m) \subseteq DOMAIN disk.tables
  BY <1>3, <1>4 DEF VersionOK
<1>7. TableSet(disk, TablesOf(m)) = TableSet(disk, TablesOf(b))
  <2>1. TableSet(disk, TablesOf(m)) = TableSet(disk, TablesOf(b) \ e.del) \cup TableSet(disk, e.del)
    BY <1>3, TableUnion
  <2>2. TableSet(disk, (TablesOf(b) \ e.del) \cup e.del)
          = TableSet(disk, TablesOf(b) \ e.del) \cup TableSet(disk, e.del)
    BY TableUnion
  <2>3. (TablesOf(b) \ e.del) \cup e.del = TablesOf(b)
    BY <1>4
  <2> QED BY <2>1, <2>2, <2>3
<1>8. TableSet(disk, TablesOf(Current)) \subseteq TableSet(disk, TablesOf(b))
  BY <1>1, <1>4, TableMonotone
<1>9. Content(disk, Current) \subseteq Content(disk, m) /\ Secured(disk, Current) \subseteq Secured(disk, m)
  <2>1. \A x : x \in Content(disk, Current) => x \in Content(disk, m)
    BY <1>3, <1>5, <1>7, <1>8, ContentHas
  <2>2. \A x : x \in Secured(disk, Current) => x \in Secured(disk, m)
    BY <1>3, <1>5, <1>7, <1>8, ContentHas
  <2> QED BY <2>1, <2>2
<1>10. \A x : x \in Content(disk, m) => x \in Content(disk, b) \/ x \in Content(disk, Current)
  BY <1>3, <1>5, <1>7, ContentHas
<1>11. UpToDate(m, disk, Visible, logfile, next, lastSeq)
  BY <1>1, <1>3, <1>5, <1>9 DEF UpToDate
<1>12. VersionOK(m, disk, Visible, asked, kept)
  <2>1. m.log < m.next
    BY <1>1, <1>3, <1>5 DEF MemoryOK
  <2>2. \A t \in TablesOf(m) : t \in DOMAIN disk.tables /\ t < m.next
    BY <1>1, <1>3, <1>6 DEF MemoryOK
  <2>3. \A x \in TableSet(disk, TablesOf(m)) : x.seq <= m.last
    <3>1. TableSet(disk, TablesOf(m)) \subseteq TableSet(disk, DOMAIN disk.tables)
      BY <1>6, TableMonotone
    <3> QED BY <1>1, <1>3, <3>1 DEF MemoryOK
  <2>4. kept \subseteq Ids(Secured(disk, m))
    <3>1. Ids(Secured(disk, Current)) \subseteq Ids(Secured(disk, m))
      BY <1>9, IdsMonotone
    <3> QED BY <1>5, <3>1 DEF VersionOK
  <2>5. Ids(Content(disk, m)) \subseteq asked \cup Ids(Visible)
    <3>1. Ids(Content(disk, Current)) \subseteq asked \cup Ids(Visible)
      BY <1>5 DEF VersionOK
    <3>2. Ids(Content(disk, b)) \subseteq asked \cup Ids(Visible)
      BY <1>4 DEF VersionOK
    <3> QED BY <1>10, <3>1, <3>2 DEF Ids
  <2> QED BY <2>1, <2>2, <2>3, <2>4, <2>5 DEF VersionOK
<1> QED BY <1>2, <1>11, <1>12

\* The edit of a compaction is begun.
LEMMA EditBegins ==
  ASSUME IInv, IsRunning, flush = None, edit = None, l0 \cup deep \subseteq TablesOf(Manifest),
         BackgroundKeeps, UNCHANGED <<imm, l0, deep, logNumber, next, pending, bgError, scheduled, flush, disk>>,
         NEW D \in SUBSET (l0 \cup deep), NEW A \in SUBSET DOMAIN disk.tables,
         TableSet(disk, A) = TableSet(disk, D), edit' = EditOf({}, A, D, logNumber),
         CompactionOK', compaction' # None, compaction'.stage \in {"install", "move"},
         D = compaction'.inputs,
         A = IF compaction'.stage = "move" THEN compaction'.inputs ELSE {compaction'.output}
  PROVE  IInv' /\ Stutters
<1>1. /\ DiskOK(disk) /\ MemoryOK /\ WorkOK /\ VersionsOK
      /\ next \in Nat /\ lastSeq \in Nat /\ logfile \in Nat /\ logNumber \in Nat
      /\ bgError \in BOOLEAN /\ scheduled \in BOOLEAN
  BY WhenRunning
<1>2. PICK e \in EditRecord :
        /\ edit' = e /\ e.del = D /\ e.add0 = {} /\ e.add = A /\ e.log = logNumber
        /\ e.next = next /\ e.last = lastSeq /\ e.stage = "append"
  <2>1. D \in SUBSET Nat /\ A \in SUBSET Nat
    BY <1>1 DEF MemoryOK, DiskOK
  <2>2. EditOf({}, A, D, logNumber) \in EditRecord
    BY <1>1, <2>1 DEF EditOf, EditRecord
  <2>3. /\ EditOf({}, A, D, logNumber).del = D
        /\ EditOf({}, A, D, logNumber).add0 = {} /\ EditOf({}, A, D, logNumber).add = A
        /\ EditOf({}, A, D, logNumber).log = logNumber /\ EditOf({}, A, D, logNumber).next = next
        /\ EditOf({}, A, D, logNumber).last = lastSeq /\ EditOf({}, A, D, logNumber).stage = "append"
    BY DEF EditOf
  <2> QED BY <2>2, <2>3
<1>3. edit' # None /\ ~ IsSyncing'
  BY <1>2, NotNone DEF IsSyncing
<1>4. BuildKeeps /\ DiskOK(disk')
  BY SameFiles
<1>5. EditOK'
  <2>1. \A m \in ToSet(disk.manifest) : m.next <= next
    BY <1>1 DEF VersionsOK, Versions, UpToDate
  <2>2. lastSeq' = lastSeq /\ next <= next /\ lastSeq <= lastSeq
    BY <1>1 DEF BackgroundKeeps
  <2> QED BY <1>2, <1>3, <2>1, <2>2 DEF EditOK
<1>6. FlushOK'
  BY DEF FlushOK
<1>7. WorkOK'
  <2>1. CurrentTables' = l0 \cup deep /\ Manifest' = Manifest
    BY <1>3 DEF CurrentTables, Manifest
  <2>2. CurrentTables = l0 \cup deep
    BY DEF CurrentTables, IsSyncing
  <2>3. pending' \subseteq Nat /\ (~ bgError => TablesOf(Manifest) \subseteq CurrentTables)
    BY <1>1 DEF WorkOK
  <2> QED BY <1>1, <1>4, <2>1, <2>2, <2>3, WorkGoesOn
<1>8. ASSUME NEW m \in {Apply(Current', edit'), Apply(Manifest', edit')}
      PROVE  /\ UpToDate(m, disk', Visible, logfile, next', lastSeq)
             /\ VersionOK(m, disk', Visible, asked, kept)
  <2>1. Current' = Current /\ Manifest' = Manifest
    BY DEF Current, Manifest, BackgroundKeeps
  <2>2. PICK b \in {Current, Manifest} : m = Apply(b, e)
    BY <1>2, <2>1
  <2>3. e.add0 \cup e.add = A /\ e.del = D
    BY <1>2
  <2>4. UpToDate(m, disk, Visible, logfile, next, lastSeq) /\ VersionOK(m, disk, Visible, asked, kept)
    BY <1>2, <2>2, <2>3, EditMoves
  <2> QED BY <2>4
<1> QED BY <1>4, <1>5, <1>6, <1>7, <1>8, BuildStep

LEMMA MoveTableStep ==
  ASSUME IInv, MoveTable
  PROVE  IInv' /\ Stutters
<1>1. /\ scheduled /\ flush = None /\ compaction = None /\ ~ bgError
      /\ UNCHANGED <<writers, call, asleep, awaiting, group, asked, kept>>
      /\ UNCHANGED <<mem, imm, l0, deep, logNumber, logfile, next, lastSeq>>
      /\ UNCHANGED <<pending, bgError, scheduled, flush, disk, used>>
      /\ UNCHANGED <<up, pinned, recovery, instance>>
  BY DEF MoveTable, IsIdle, CanStart, client, memory, Untouched
<1>2. PICK n \in l0 :
        /\ compaction' = [inputs |-> {n}, base |-> l0 \cup deep, output |-> 0, stage |-> "move"]
        /\ edit' = EditOf({}, {n}, {n}, logNumber)
  BY DEF MoveTable
<1>3. IsRunning /\ edit = None /\ CurrentTables = l0 \cup deep
  BY <1>1, AtWork
<1>4. /\ MemoryOK /\ WorkOK /\ QueueOK /\ l0 \cup deep \subseteq DOMAIN disk.tables
      /\ next \in Nat /\ lastSeq \in Nat /\ logNumber \in Nat
  BY <1>3, WhenRunning
<1>5. BackgroundKeeps
  BY <1>1, <1>4 DEF BackgroundKeeps, UsesNoWrite, QueueOK
<1>6. {n} \in SUBSET (l0 \cup deep) /\ {n} \in SUBSET DOMAIN disk.tables /\ n \in Nat
  BY <1>2, <1>4 DEF MemoryOK
<1>7. /\ compaction' \in CompactionRecord /\ compaction'.inputs = {n}
      /\ compaction'.base = l0 \cup deep /\ compaction'.output = 0 /\ compaction'.stage = "move"
  <2>1. l0 \cup deep \in SUBSET Nat /\ {n} \in SUBSET Nat
    BY <1>4, <1>6 DEF MemoryOK
  <2> QED BY <1>2, <2>1 DEF CompactionRecord
<1>8. compaction' # None
  BY <1>7, NotNone
<1>9. edit' # None
  <2>1. {n} \in SUBSET Nat
    BY <1>6
  <2>2. EditOf({}, {n}, {n}, logNumber) \in EditRecord
    BY <1>4, <2>1 DEF EditOf, EditRecord
  <2> QED BY <1>2, <2>2, NotNone
<1>10. CompactionOK'
  <2>1. UNCHANGED <<l0, deep, disk, flush>> /\ flush = None
    BY <1>1
  <2> HIDE <1>1, <1>2
  <2> QED BY <1>4, <1>6, <1>7, <1>9, <2>1 DEF CompactionOK
<1>11. l0 \cup deep \subseteq TablesOf(Manifest)
  BY <1>1, <1>3, <1>4 DEF WorkOK
<1>12. UNCHANGED <<imm, l0, deep, logNumber, next, pending, bgError, scheduled, flush, disk>> /\ flush = None
  BY <1>1
<1>13. edit' = EditOf({}, {n}, {n}, logNumber)
  BY <1>2
<1> HIDE <1>1, <1>2
<1> QED BY <1>3, <1>5, <1>6, <1>7, <1>8, <1>10, <1>11, <1>12, <1>13, EditBegins

LEMMA InstallResultsStep ==
  ASSUME IInv, InstallResults
  PROVE  IInv' /\ Stutters
<1>1. /\ compaction # None /\ compaction.stage = "merge" /\ flush = None /\ compaction.output # 0
      /\ compaction' = [compaction EXCEPT !.stage = "install"]
      /\ edit' = EditOf({}, {compaction.output}, compaction.inputs, logNumber)
      /\ UNCHANGED <<writers, call, asleep, awaiting, group, asked, kept>>
      /\ UNCHANGED <<mem, imm, l0, deep, logNumber, logfile, next, lastSeq>>
      /\ UNCHANGED <<pending, bgError, scheduled, flush, disk, used>>
      /\ UNCHANGED <<up, pinned, recovery, instance>>
  BY DEF InstallResults, IsMerging, client, memory, Untouched
<1>3. IsRunning /\ edit = None /\ CurrentTables = l0 \cup deep
  BY <1>1, AtWork
<1>4. /\ MemoryOK /\ WorkOK /\ QueueOK /\ CompactionOK /\ l0 \cup deep \subseteq DOMAIN disk.tables
      /\ next \in Nat /\ lastSeq \in Nat /\ logNumber \in Nat
  BY <1>3, WhenRunning
<1>5. BackgroundKeeps
  BY <1>1, <1>4 DEF BackgroundKeeps, UsesNoWrite, QueueOK
<1>6. PICK c \in CompactionRecord : c = compaction
  BY <1>1, <1>4 DEF CompactionOK
<1>7. /\ c.inputs \in SUBSET (l0 \cup deep) /\ c.base \subseteq DOMAIN disk.tables
      /\ c.output \in pending \cap DOMAIN disk.tables
      /\ disk.tables[c.output] = TableSet(disk, c.inputs) /\ c.output # 0 /\ c.output \in Nat
      /\ c.inputs \in SUBSET Nat
  BY <1>1, <1>4, <1>6 DEF CompactionOK, CompactionRecord
<1>8. /\ compaction' \in CompactionRecord /\ compaction'.inputs = c.inputs
      /\ compaction'.base = c.base /\ compaction'.output = c.output /\ compaction'.stage = "install"
  <2>1. compaction' = [c EXCEPT !.stage = "install"]
    BY <1>1, <1>6
  <2> QED BY <2>1 DEF CompactionRecord
<1>9. edit' = EditOf({}, {c.output}, c.inputs, logNumber)
  BY <1>1, <1>6
<1>10. UNCHANGED <<imm, l0, deep, logNumber, next, pending, bgError, scheduled, flush, disk>> /\ flush = None
       /\ compaction # None
  BY <1>1
<1> HIDE <1>1
<1>11. compaction' # None
  BY <1>8, NotNone
<1>12. edit' # None
  <2>1. {c.output} \in SUBSET Nat
    BY <1>7
  <2>2. EditOf({}, {c.output}, c.inputs, logNumber) \in EditRecord
    BY <1>4, <1>7, <2>1 DEF EditOf, EditRecord
  <2> QED BY <1>9, <2>2, NotNone
<1>13. CompactionOK'
  BY <1>7, <1>8, <1>10, <1>12 DEF CompactionOK
<1>14. l0 \cup deep \subseteq TablesOf(Manifest)
  BY <1>3, <1>4, <1>10 DEF WorkOK
<1>15. TableSet(disk, {c.output}) = TableSet(disk, c.inputs)
  <2>1. \A x : x \in TableSet(disk, {c.output}) <=> x \in disk.tables[c.output]
    BY <1>7, TableHas
  <2> QED BY <1>7, <2>1
<1>16. {c.output} \in SUBSET DOMAIN disk.tables
  BY <1>7
<1> QED BY <1>3, <1>5, <1>7, <1>8, <1>9, <1>10, <1>11, <1>13, <1>14, <1>15, <1>16, EditBegins

LEMMA WriteOutputStep ==
  ASSUME IInv, WriteOutput
  PROVE  IInv' /\ Stutters
<1>1. /\ compaction # None /\ compaction.stage = "merge" /\ flush = None
      /\ compaction' = [compaction EXCEPT !.output = next]
      /\ next' = next + 1 /\ pending' = pending \cup {next}
      /\ disk' = [disk EXCEPT !.tables = With(@, next, Stored(compaction.inputs))]
      /\ UNCHANGED <<writers, call, asleep, awaiting, group, asked, kept>>
      /\ UNCHANGED <<mem, imm, l0, deep, logNumber, logfile, lastSeq>>
      /\ UNCHANGED <<bgError, scheduled, flush, edit, used>>
      /\ UNCHANGED <<up, pinned, recovery, instance>>
  BY DEF WriteOutput, IsMerging, client, Untouched
<1>2. IsRunning /\ edit = None /\ CurrentTables = l0 \cup deep
  BY <1>1, AtWork
<1>3. /\ DiskOK(disk) /\ MemoryOK /\ WorkOK /\ QueueOK /\ CompactionOK
      /\ l0 \cup deep \subseteq DOMAIN disk.tables
      /\ next \in Nat /\ next \notin DOMAIN disk.tables /\ bgError \in BOOLEAN /\ scheduled \in BOOLEAN
  BY <1>2, WhenRunning
<1>4. BackgroundKeeps
  BY <1>1, <1>3 DEF BackgroundKeeps, UsesNoWrite, QueueOK
<1>5. PICK c \in CompactionRecord : c = compaction
  BY <1>1, <1>3 DEF CompactionOK
<1>6. /\ c.inputs \in SUBSET (l0 \cup deep) /\ c.base \subseteq DOMAIN disk.tables
  BY <1>1, <1>3, <1>5 DEF CompactionOK
<1>7. /\ compaction' \in CompactionRecord /\ compaction'.inputs = c.inputs
      /\ compaction'.base = c.base /\ compaction'.output = next /\ compaction'.stage = "merge"
  <2>1. compaction' = [c EXCEPT !.output = next] /\ c.stage = "merge"
    BY <1>1, <1>5
  <2> QED BY <1>3, <2>1 DEF CompactionRecord
<1>8. PICK s \in SUBSET Entry : s = TableSet(disk, c.inputs)
  <2>1. TableSet(disk, c.inputs) \subseteq Entry
    BY <1>3, TableHas DEF DiskOK
  <2> QED BY <2>1
<1>9. s \subseteq TableSet(disk, DOMAIN disk.tables)
  <2>1. c.inputs \subseteq DOMAIN disk.tables
    BY <1>3, <1>6
  <2> QED BY <1>8, <2>1, TableMonotone
<1>10. PICK q : q = disk'
  OBVIOUS
<1>11. TableIsAdded(disk, q, next, s)
  <2>1. Stored(compaction.inputs) = s
    BY <1>5, <1>8 DEF Stored, TableSet
  <2> QED BY <1>1, <1>10, <2>1 DEF TableIsAdded
<1>12. OneMoreTable(disk, q, next, s)
  BY <1>3, <1>11, TableMade
<1>13. DiskOK(q) /\ q.logs = disk.logs /\ q.manifest = disk.manifest
  BY <1>12 DEF OneMoreTable
<1>14. /\ DOMAIN q.tables = DOMAIN disk.tables \cup {next} /\ q.tables[next] = s
       /\ \A t \in DOMAIN disk.tables : q.tables[t] = disk.tables[t]
  BY <1>3, <1>12 DEF OneMoreTable
<1>15. UNCHANGED <<imm, l0, deep, logNumber, flush, edit, bgError, scheduled>> /\ flush = None
       /\ next' = next + 1 /\ pending' = pending \cup {next} /\ compaction # None
  BY <1>1
<1> HIDE <1>1
<1>16. BuildKeeps
  <2>1. \A t \in DOMAIN disk'.tables : t < next'
    <3>1. \A t \in DOMAIN disk.tables : t \in Nat /\ t < next
      BY <1>3 DEF MemoryOK, DiskOK
    <3> QED BY <1>3, <1>10, <1>14, <1>15, <3>1
  <2>2. next' \in Nat /\ next <= next'
    BY <1>3, <1>15
  <2> QED BY <1>3, <1>9, <1>10, <1>13, <1>14, <1>15, <2>1, <2>2 DEF BuildKeeps
<1>17. EditOK' /\ FlushOK'
  BY <1>2, <1>15 DEF EditOK, FlushOK
<1>18. \A T \in SUBSET DOMAIN disk.tables : TableSet(disk', T) = TableSet(disk, T)
  BY <1>2, <1>4, <1>10, <1>13, <1>16, BuiltTables
<1>19. CompactionOK'
  <2>1. TableSet(disk', c.inputs) = s
    BY <1>3, <1>6, <1>8, <1>18
  <2>2. next \in pending' \cap DOMAIN disk'.tables /\ disk'.tables[next] = s
    BY <1>10, <1>14, <1>15
  <2>3. c.base \subseteq DOMAIN disk'.tables
    BY <1>6, <1>10, <1>14
  <2> QED BY <1>6, <1>7, <1>15, <2>1, <2>2, <2>3 DEF CompactionOK
<1>20. WorkOK'
  <2>1. CurrentTables' = CurrentTables /\ Manifest' = Manifest
    BY <1>2, <1>10, <1>13, <1>15 DEF CurrentTables, IsSyncing, Manifest
  <2>2. CurrentTables \subseteq TablesOf(Manifest) /\ (~ bgError => TablesOf(Manifest) \subseteq CurrentTables)
        /\ pending' \subseteq Nat
    BY <1>3, <1>15 DEF WorkOK
  <2> QED BY <1>2, <1>3, <1>4, <1>15, <1>16, <2>1, <2>2, WorkGoesOn
<1> QED BY <1>2, <1>4, <1>10, <1>13, <1>15, <1>16, <1>17, <1>19, <1>20, BuildStep

-----------------------------------------------------------------------------
(* The manifest is written, and the new version installed.                 *)

LEMMA AppendEditStep ==
  ASSUME IInv, AppendEdit
  PROVE  IInv' /\ Stutters
<1>1. /\ edit # None /\ edit.stage = "append"
      /\ disk' = [disk EXCEPT !.manifest = Append(@, Apply(Manifest, edit))]
      /\ edit' = [edit EXCEPT !.stage = "sync"]
      /\ UNCHANGED <<writers, call, asleep, awaiting, group, asked, kept>>
      /\ UNCHANGED <<mem, imm, l0, deep, logNumber, logfile, next, lastSeq>>
      /\ UNCHANGED <<pending, bgError, scheduled, flush, compaction, used>>
      /\ UNCHANGED <<up, pinned, recovery, instance>>
  BY DEF AppendEdit, IsApplying, client, memory, Untouched
<1>2. IsRunning /\ ~ IsSyncing
  BY <1>1, AtWork DEF IsSyncing
<1>3. /\ DiskOK(disk) /\ MemoryOK /\ EditOK /\ FlushOK /\ CompactionOK /\ WorkOK /\ QueueOK /\ VersionsOK
      /\ next \in Nat /\ lastSeq \in Nat
      /\ Current \in VersionState /\ Manifest \in VersionState
      /\ TablesOf(Current) = l0 \cup deep
  BY <1>2, WhenRunning
<1>4. PICK e \in EditRecord : e = edit
  BY <1>1, <1>3 DEF EditOK
<1>5. /\ edit' \in EditRecord /\ edit'.stage = "sync"
      /\ edit'.add0 = e.add0 /\ edit'.add = e.add /\ edit'.del = e.del /\ edit'.log = e.log
      /\ edit'.next = e.next /\ edit'.last = e.last
  <2>1. edit' = [e EXCEPT !.stage = "sync"]
    BY <1>1, <1>4
  <2> QED BY <2>1 DEF EditRecord
<1>6. PICK m \in VersionState : m = Apply(Manifest, e)
  BY <1>3, ApplyTables
<1>7. /\ TablesOf(m) = (TablesOf(Manifest) \ e.del) \cup (e.add0 \cup e.add)
      /\ m.log = e.log /\ m.next = e.next
  BY <1>3, <1>6, ApplyTables
<1>8. PICK s \in Seq(VersionState) : s = disk.manifest
  BY <1>3 DEF DiskOK
<1>9. /\ Append(s, m) \in Seq(VersionState) /\ Append(s, m) # <<>>
      /\ Len(Append(s, m)) = Len(s) + 1 /\ Append(s, m)[Len(s) + 1] = m /\ Len(s) \in Nat
      /\ \A i \in 1 .. Len(s) : Append(s, m)[i] = s[i]
  OBVIOUS
<1>10. Last(Append(s, m)) = m
  BY <1>9 DEF Last
<1>11. \A i \in 1 .. Len(Append(s, m)) : i \in 1 .. Len(s) \/ i = Len(s) + 1
  BY <1>9
<1>12. \A i \in 1 .. Len(Append(s, m)) : Append(s, m)[i].next <= Last(Append(s, m)).next
  <2>1. \A i \in 1 .. Len(s) : s[i] \in ToSet(disk.manifest)
    BY <1>8 DEF ToSet
  <2>2. \A i \in 1 .. Len(s) : s[i].next <= m.next
    BY <1>1, <1>2, <1>3, <1>4, <1>7, <2>1 DEF EditOK
  <2>3. m.next <= m.next
    BY DEF VersionState
  <2> QED BY <1>9, <1>10, <1>11, <2>2, <2>3
<1>13. ToSet(Append(s, m)) = ToSet(s) \cup {m}
  BY <1>9, <1>11 DEF ToSet
<1>14. DiskOK(disk') /\ disk'.logs = disk.logs /\ disk'.tables = disk.tables
       /\ disk'.manifest = Append(s, m)
  <2>1. PICK q : q = disk'
    OBVIOUS
  <2>2. PICK t \in Seq(VersionState) : t = Append(s, m)
    BY <1>9
  <2>3. q = [disk EXCEPT !.manifest = t]
    BY <1>1, <1>4, <1>6, <1>8, <2>1, <2>2
  <2>4. t # <<>> /\ \A i \in 1 .. Len(t) : t[i].next <= Last(t).next
    BY <1>9, <1>12, <2>2
  <2>5. DiskOK(q) /\ q.logs = disk.logs /\ q.tables = disk.tables /\ q.manifest = t
    BY <1>3, <2>3, <2>4, ManifestSays
  <2> QED BY <2>1, <2>2, <2>5
<1>15. Manifest' = m /\ ToSet(disk'.manifest) = ToSet(disk.manifest) \cup {m}
  BY <1>8, <1>10, <1>13, <1>14 DEF Manifest
<1>16. Current' = Current
  BY <1>1 DEF Current
<1>17. edit' # None /\ IsSyncing'
  BY <1>5, NotNone DEF IsSyncing
<1>18. Apply(Current', edit') = Apply(Current, e)
  BY <1>5, <1>16 DEF Apply
<1>19. Versions' \subseteq Versions
  <2>1. m \in Versions /\ Apply(Current, e) \in Versions
    BY <1>1, <1>2, <1>4, <1>6 DEF Versions
  <2> QED BY <1>15, <1>16, <1>17, <1>18, <2>1 DEF Versions
<1>20. \A T : TableSet(disk', T) = TableSet(disk, T)
  BY <1>14 DEF TableSet
<1>21. \A n : LogSet(disk', n) = LogSet(disk, n) /\ SyncedSet(disk', n) = SyncedSet(disk, n)
  BY <1>14 DEF LogSet, SyncedSet
<1>22. ImmEntries' = ImmEntries /\ IsRunning' /\ Visible' = Visible
  <2>1. ImmEntries' = ImmEntries /\ IsRunning'
    BY <1>1, <1>2 DEF ImmEntries, IsRunning
  <2>2. Found' = Found
    BY <1>1, <1>20, <2>1 DEF Found
  <2> QED BY <1>1, <1>2, <2>1, <2>2, SeenWhenRunning, SeenWhenRunningNext
<1>23. VersionsOK'
  <2>1. ASSUME NEW v \in Versions
        PROVE  /\ UpToDate(v, disk', Visible, logfile, next, lastSeq)
               /\ VersionOK(v, disk', Visible, asked, kept)
    <3>1. UpToDate(v, disk, Visible, logfile, next, lastSeq) /\ VersionOK(v, disk, Visible, asked, kept)
      BY <1>3 DEF VersionsOK
    <3>2. Content(disk', v) = Content(disk, v)
          /\ (VersionOK(v, disk', Visible, asked, kept) <=> VersionOK(v, disk, Visible, asked, kept))
      BY <1>14, VersionFiles
    <3> QED BY <3>1, <3>2 DEF UpToDate
  <2>2. UNCHANGED <<logfile, next, lastSeq, asked, kept>>
    BY <1>1
  <2> QED BY <1>19, <1>22, <2>1, <2>2 DEF VersionsOK
<1>24. MemoryOK'
  <2>1. UNCHANGED <<mem, imm, l0, deep, logNumber, logfile, lastSeq, group, kept, next>>
    BY <1>1
  <2>2. \A t \in DOMAIN disk'.tables : t < next'
    BY <1>3, <1>14, <2>1 DEF MemoryOK
  <2>3. \A x \in TableSet(disk', DOMAIN disk'.tables) : x.seq <= lastSeq
    BY <1>3, <1>14, <1>20 DEF MemoryOK
  <2>4. next' \in Nat /\ next <= next'
    BY <1>3, <2>1
  <2> HIDE <1>1
  <2> QED BY <1>3, <1>14, <1>20, <2>1, <2>2, <2>3, <2>4, MemoryFiles
<1>25. UNCHANGED <<l0, deep, logNumber, next, lastSeq, pending, bgError, scheduled, flush, compaction, pinned>>
  BY <1>1
<1>26. BackgroundKeeps
  BY <1>1, <1>3 DEF BackgroundKeeps, UsesNoWrite, QueueOK
<1> HIDE <1>1
<1>27. EditOK'
  <2>1. e.next <= next /\ e.last <= lastSeq
    BY <1>3, <1>4, NotNone DEF EditOK
  <2>2. IF flush # None
        THEN /\ e.del = {} /\ flush \notin pending
             /\ \/ /\ e.add0 \cup e.add = {flush}
                   /\ flush \in DOMAIN disk.tables /\ disk.tables[flush] = ImmEntries
                \/ e.add0 \cup e.add = {} /\ ImmEntries = {}
        ELSE /\ compaction # None /\ compaction.stage \in {"install", "move"}
             /\ e.add0 = {} /\ e.del = compaction.inputs
             /\ e.add = IF compaction.stage = "move" THEN compaction.inputs
                        ELSE {compaction.output}
    BY <1>3, <1>4, NotNone DEF EditOK
  <2>3. Manifest'.log = edit'.log
    BY <1>5, <1>7, <1>15
  <2> QED BY <1>5, <1>14, <1>17, <1>22, <1>25, <2>1, <2>2, <2>3 DEF EditOK
<1>28. FlushOK'
  <2>1. edit # None
    BY <1>4, NotNone
  <2>2. imm' # {} <=> imm # {}
    BY <1>26, <1>1
  <2> QED BY <1>3, <1>17, <1>25, <2>1, <2>2 DEF FlushOK
<1>29. CompactionOK'
  BY <1>3, <1>14, <1>17, <1>20, <1>25 DEF CompactionOK
<1>30. WorkOK'
  <2>1. CurrentTables = l0 \cup deep
    BY <1>2 DEF CurrentTables
  <2>2. CurrentTables' = ((l0 \cup deep) \ e.del) \cup (e.add0 \cup e.add)
    <3>1. TablesOf(Apply(Current, e)) = (TablesOf(Current) \ e.del) \cup (e.add0 \cup e.add)
      BY <1>3, ApplyTables
    <3> QED BY <1>3, <1>17, <1>18, <3>1 DEF CurrentTables
  <2>3. TablesOf(Manifest') = (TablesOf(Manifest) \ e.del) \cup (e.add0 \cup e.add)
    BY <1>7, <1>15
  <2>4. /\ flush # None \/ compaction # None \/ ~ bgError => CurrentTables' \subseteq TablesOf(Manifest')
        /\ ~ bgError => TablesOf(Manifest') \subseteq CurrentTables'
    BY <1>3, <2>1, <2>2, <2>3 DEF WorkOK
  <2>5. pending \subseteq Nat /\ {bgError, scheduled} \subseteq BOOLEAN
        /\ pinned \in [Reader -> MaybeOneOf(SUBSET DOMAIN disk.tables)]
    BY <1>3 DEF WorkOK
  <2>6. pinned' \in [Reader -> MaybeOneOf(SUBSET DOMAIN disk'.tables)]
    BY <1>14, <1>25, <2>5
  <2> QED BY <1>25, <2>4, <2>5, <2>6 DEF WorkOK
<1>31. /\ ImmEntries' \subseteq ImmEntries /\ Files(disk') \subseteq Files(disk) \cup ImmEntries
       /\ LogSet(disk, logfile) \subseteq LogSet(disk', logfile)
       /\ SyncedSet(disk, logfile) \subseteq SyncedSet(disk', logfile)
  <2>1. Files(disk') = Files(disk)
    BY <1>14, VersionFiles
  <2> QED BY <1>21, <1>22, <2>1
<1> QED BY <1>2, <1>14, <1>22, <1>23, <1>24, <1>26, <1>27, <1>28, <1>29, <1>30, <1>31, BackgroundStep

\* The tables and logs nobody needs are removed.
LEMMA ObsoleteAreDeleted ==
  ASSUME NEW d, DiskOK(d), NEW L, NEW n \in Nat, NEW q, q = DeleteObsoleteFiles(d, L, n)
  PROVE  /\ DiskOK(q) /\ q.manifest = d.manifest
         /\ Leaves(d, q, IF bgError THEN DOMAIN d.tables ELSE L, n)
<1>1. CASE bgError
  BY <1>1 DEF DeleteObsoleteFiles, Leaves
<1>2. CASE ~ bgError
  <2>1. q = [d EXCEPT !.tables = Restrict(d.tables, DOMAIN d.tables \cap L),
                      !.logs = Restrict(d.logs, {i \in DOMAIN d.logs : i >= n})]
    BY <1>2 DEF DeleteObsoleteFiles
  <2>2. /\ DOMAIN q = {"logs", "tables", "manifest"} /\ q.manifest = d.manifest
        /\ q.tables = Restrict(d.tables, DOMAIN d.tables \cap L)
        /\ q.logs = Restrict(d.logs, {i \in DOMAIN d.logs : i >= n})
    BY <2>1 DEF DiskOK
  <2>3. DOMAIN q.tables = DOMAIN d.tables \cap L /\ \A t \in DOMAIN q.tables : q.tables[t] = d.tables[t]
    BY <2>2 DEF Restrict
  <2>4. DOMAIN q.logs = {i \in DOMAIN d.logs : i >= n} /\ \A i \in DOMAIN q.logs : q.logs[i] = d.logs[i]
    BY <2>2 DEF Restrict
  <2>5. DiskOK(q)
    BY <2>2, <2>3, <2>4 DEF DiskOK
  <2>6. Leaves(d, q, L, n)
    BY <2>3, <2>4 DEF Leaves
  <2> QED BY <1>2, <2>2, <2>5, <2>6
<1> QED BY <1>1, <1>2

LEMMA ManifestIsShort ==
  ASSUME DiskOK(disk)
  PROVE  /\ DiskOK(SyncedManifest) /\ SyncedManifest.logs = disk.logs
         /\ SyncedManifest.tables = disk.tables /\ SyncedManifest.manifest = <<Manifest>>
<1>1. PICK m \in VersionState : m = Manifest
  BY LastVersion DEF Manifest
<1>2. /\ <<m>> \in Seq(VersionState) /\ <<m>> # <<>> /\ Len(<<m>>) = 1 /\ <<m>>[1] = m
      /\ m.next \in Nat
  BY DEF VersionState
<1>3. Last(<<m>>) = m
  BY <1>2 DEF Last
<1>4. \A i \in 1 .. Len(<<m>>) : <<m>>[i].next <= Last(<<m>>).next
  BY <1>2, <1>3
<1>5. PICK s \in Seq(VersionState) : s = <<m>>
  BY <1>2
<1>6. PICK q : q = SyncedManifest
  OBVIOUS
<1>7. q = [disk EXCEPT !.manifest = s]
  BY <1>1, <1>5, <1>6 DEF SyncedManifest
<1>8. s # <<>> /\ \A i \in 1 .. Len(s) : s[i].next <= Last(s).next
  BY <1>2, <1>4, <1>5
<1>9. DiskOK(q) /\ q.logs = disk.logs /\ q.tables = disk.tables /\ q.manifest = s
  BY <1>7, <1>8, ManifestSays
<1> QED BY <1>1, <1>5, <1>6, <1>9

LEMMA InstallStep ==
  ASSUME IInv, edit # None, edit.stage = "sync", BackgroundKeeps,
         l0' = (l0 \ edit.del) \cup edit.add0, deep' = (deep \ edit.del) \cup edit.add,
         logNumber' = edit.log, edit' = None, flush' = None, UNCHANGED <<next, bgError>>,
         DiskOK(disk'), disk'.manifest = <<Manifest>>, NEW T, Leaves(disk, disk', T, edit.log),
         CurrentTables \subseteq T, TablesOf(Manifest) \subseteq T,
         \A r \in Reader : pinned[r] # None => pinned[r] \subseteq T,
         imm' \subseteq SUBSET Entry, ImmEntries' \subseteq ImmEntries,
         TableSet(disk, CurrentTables) \cup ImmEntries' = TableSet(disk, l0 \cup deep) \cup ImmEntries,
         pending' \subseteq pending, scheduled' \in BOOLEAN, CompactionOK'
  PROVE  IInv' /\ Stutters
<1>1. IsRunning /\ IsSyncing
  BY AtWork DEF IsSyncing
<1>2. /\ DiskOK(disk) /\ MemoryOK /\ EditOK /\ WorkOK /\ VersionsOK
      /\ next \in Nat /\ lastSeq \in Nat /\ logfile \in Nat /\ bgError \in BOOLEAN
      /\ Current \in VersionState /\ Manifest \in VersionState /\ Manifest \in Versions
      /\ TablesOf(Current) = l0 \cup deep
  BY <1>1, WhenRunning
<1>3. /\ UNCHANGED <<asked, kept, mem, logfile, lastSeq, up, pinned, group>>
  BY DEF BackgroundKeeps
<1>4. edit \in EditRecord /\ edit.log \in Nat /\ Manifest.log = edit.log
      /\ (flush # None \/ compaction # None) /\ edit.next \in Nat /\ edit.last \in Nat
  BY <1>1, <1>2 DEF EditOK, EditRecord
<1>5. PICK v \in Versions : v = Apply(Current, edit)
  BY <1>4, NotNone DEF Versions
<1>6. /\ v \in VersionState /\ v.log = edit.log /\ TablesOf(v) = CurrentTables
      /\ TablesOf(v) = ((l0 \cup deep) \ edit.del) \cup (edit.add0 \cup edit.add)
      /\ v.next = edit.next /\ v.last = edit.last
  BY <1>1, <1>2, <1>4, <1>5, ApplyTables DEF CurrentTables
<1>7. /\ UpToDate(v, disk, Visible, logfile, next, lastSeq) /\ VersionOK(v, disk, Visible, asked, kept)
      /\ UpToDate(Manifest, disk, Visible, logfile, next, lastSeq)
      /\ VersionOK(Manifest, disk, Visible, asked, kept)
  BY <1>2, <1>5 DEF VersionsOK
<1>8. l0' \cup deep' = CurrentTables
  BY <1>6
<1>9. CurrentTables \subseteq DOMAIN disk.tables /\ edit.log <= logfile
  BY <1>6, <1>7 DEF VersionOK, UpToDate
<1>10. /\ \A S \in SUBSET T : TableSet(disk', S) = TableSet(disk, S)
       /\ \A i \in DOMAIN disk'.logs : LogSet(disk', i) = LogSet(disk, i) /\ SyncedSet(disk', i) = SyncedSet(disk, i)
       /\ Files(disk') \subseteq Files(disk)
  BY <1>4, LeavesHas
<1>11. logfile \in DOMAIN disk'.logs
  BY <1>2, <1>4, <1>9 DEF MemoryOK, Leaves
<1>12. IsRunning' /\ Found' = Found
  <2>1. TableSet(disk', l0' \cup deep') = TableSet(disk, CurrentTables)
    BY <1>8, <1>10
  <2>2. Found' = mem \cup ImmEntries' \cup TableSet(disk, CurrentTables)
    BY <1>3, <2>1 DEF Found
  <2> QED BY <1>1, <1>3, <2>2 DEF Found, IsRunning
<1>13. Visible' = Visible
  BY <1>1, <1>3, <1>12, SeenWhenRunning, SeenWhenRunningNext
<1>14. MemoryOK'
  <2>1. /\ \A t \in DOMAIN disk'.tables : t \in DOMAIN disk.tables
        /\ \A i \in DOMAIN disk'.logs : i \in DOMAIN disk.logs
    BY DEF Leaves
  <2>2. /\ mem' \subseteq Entry /\ imm' \subseteq SUBSET Entry
        /\ lastSeq' \in Nat /\ logfile' \in DOMAIN disk'.logs /\ logNumber' \in Nat /\ next' \in Nat
        /\ logfile' < next'
    BY <1>2, <1>3, <1>4, <1>11 DEF MemoryOK
  <2>3. l0' \subseteq Nat /\ deep' \subseteq Nat
    <3>1. l0' \cup deep' \subseteq Nat
      BY <1>2, <1>8, <1>9 DEF DiskOK
    <3> QED BY <3>1
  <2>4. /\ \A n \in DOMAIN disk'.logs : n <= logfile'
        /\ \A t \in DOMAIN disk'.tables : t < next'
    BY <1>2, <1>3, <2>1 DEF MemoryOK
  <2>5. Flying' = Flying
    BY <1>3 DEF Flying
  <2>6. /\ mem' \subseteq LogSet(disk', logfile')
        /\ \A e \in mem' : e.seq <= lastSeq' \/ (e \in Flying' /\ group'.stage = "written")
    BY <1>2, <1>3, <1>10, <1>11, <2>5 DEF MemoryOK
  <2>7. \A e \in ImmEntries' \cup TableSet(disk', DOMAIN disk'.tables) : e.seq <= lastSeq'
    <3>1. TableSet(disk', DOMAIN disk'.tables) \subseteq TableSet(disk, DOMAIN disk.tables)
      <4>1. \A e : e \in TableSet(disk', DOMAIN disk'.tables) => e \in TableSet(disk, DOMAIN disk.tables)
        BY TableHas DEF Leaves
      <4> QED BY <4>1
    <3> QED BY <1>2, <1>3, <3>1 DEF MemoryOK
  <2>8. \A n \in DOMAIN disk'.logs : \A e \in LogSet(disk', n) : e.seq <= lastSeq' \/ e \in Flying'
    BY <1>2, <1>3, <1>10, <2>1, <2>5 DEF MemoryOK
  <2>9. kept' \subseteq Ids(ImmEntries' \cup TableSet(disk', l0' \cup deep')
                            \cup (mem' \cap SyncedSet(disk', logfile')))
    <3>1. ImmEntries' \cup TableSet(disk', l0' \cup deep') = ImmEntries \cup TableSet(disk, l0 \cup deep)
      BY <1>8, <1>10
    <3>2. SyncedSet(disk', logfile') = SyncedSet(disk, logfile)
      BY <1>3, <1>10, <1>11
    <3> QED BY <1>2, <1>3, <3>1, <3>2 DEF MemoryOK
  <2> QED BY <2>2, <2>3, <2>4, <2>6, <2>7, <2>8, <2>9 DEF MemoryOK
<1>15. EditOK' /\ FlushOK'
  BY DEF EditOK, FlushOK
<1>16. Manifest' = Manifest /\ ToSet(disk'.manifest) = {Manifest}
  <2>1. PICK s : s = disk'.manifest
    OBVIOUS
  <2>2. Len(s) = 1 /\ s[1] = Manifest /\ DOMAIN s = {1}
    BY <2>1
  <2>3. Last(s) = Manifest /\ ToSet(s) = {Manifest}
    BY <2>2 DEF Last, ToSet
  <2> QED BY <2>1, <2>3 DEF Manifest
<1>17. WorkOK'
  <2>1. CurrentTables' = CurrentTables
    BY <1>8 DEF CurrentTables, IsSyncing
  <2>2. CurrentTables \subseteq TablesOf(Manifest) /\ (~ bgError => TablesOf(Manifest) \subseteq CurrentTables)
        /\ pending' \subseteq Nat
    BY <1>2, <1>4 DEF WorkOK
  <2>3. pinned' \in [Reader -> MaybeOneOf(SUBSET DOMAIN disk'.tables)]
    <3>1. pinned \in [Reader -> MaybeOneOf(SUBSET DOMAIN disk.tables)]
      BY <1>2 DEF WorkOK
    <3>2. \A r \in Reader : pinned[r] \in MaybeOneOf(SUBSET DOMAIN disk'.tables)
      <4> SUFFICES ASSUME NEW r \in Reader, pinned[r] # None
                   PROVE  pinned[r] \subseteq DOMAIN disk'.tables
        BY DEF MaybeOneOf
      <4>1. pinned[r] \subseteq DOMAIN disk.tables /\ pinned[r] \subseteq T
        BY <3>1 DEF MaybeOneOf
      <4> QED BY <4>1 DEF Leaves
    <3> QED BY <1>3, <3>1, <3>2
  <2> QED BY <1>2, <1>16, <2>1, <2>2, <2>3 DEF WorkOK
<1>18. ASSUME NEW m \in Versions'
       PROVE  /\ UpToDate(m, disk', Visible, logfile, next, lastSeq)
              /\ VersionOK(m, disk', Visible, asked, kept)
  <2>1. m = Manifest \/ m = Current'
    BY <1>16 DEF Versions
  <2>2. CASE m = Manifest
    <3>1. Content(disk', m) = Content(disk, m) /\ VersionOK(m, disk', Visible, asked, kept)
      BY <1>2, <1>4, <1>7, <2>2, VersionLeft DEF DiskOK
    <3> QED BY <1>7, <2>2, <3>1 DEF UpToDate
  <2>3. CASE m = Current'
    <3>1. /\ TablesOf(m) = TablesOf(v) /\ m.log = v.log /\ m.next = next /\ m.last = lastSeq
      BY <1>3, <1>6, <1>8, <2>3 DEF Current, TablesOf
    <3>2. m \in VersionState
      BY <1>14, <2>3 DEF Current, VersionState, MemoryOK
    <3>3. v.next <= next /\ v.last <= lastSeq /\ v.log <= logfile /\ Visible \subseteq Content(disk, v)
          /\ v.next \in Nat /\ v.last \in Nat /\ v.log \in Nat
      BY <1>6, <1>7 DEF UpToDate, VersionState
    <3>4. Content(disk', v) = Content(disk, v) /\ VersionOK(v, disk', Visible, asked, kept)
      BY <1>2, <1>4, <1>6, <1>7, VersionLeft DEF DiskOK
    <3>5. Content(disk', m) = Content(disk', v) /\ Secured(disk', m) = Secured(disk', v)
      BY <3>1 DEF Content, Secured
    <3>6. UpToDate(m, disk', Visible, logfile, next, lastSeq)
      BY <1>2, <3>1, <3>3, <3>4, <3>5 DEF UpToDate
    <3>7. \A t \in TablesOf(m) : t \in DOMAIN disk'.tables /\ t < m.next
      <4>1. \A t \in TablesOf(v) : t \in DOMAIN disk'.tables
        BY <3>4 DEF VersionOK
      <4> QED BY <1>14, <3>1, <4>1, <1>2 DEF MemoryOK
    <3>8. \A e \in TableSet(disk', TablesOf(m)) : e.seq <= m.last
      <4>1. TableSet(disk', TablesOf(m)) = TableSet(disk, CurrentTables)
        BY <1>6, <1>10, <3>1
      <4>2. TableSet(disk, CurrentTables) \subseteq TableSet(disk, DOMAIN disk.tables)
        BY <1>9, TableMonotone
      <4> QED BY <1>2, <3>1, <4>1, <4>2 DEF MemoryOK
    <3>9. m.log < m.next
      BY <1>2, <3>1, <3>3 DEF MemoryOK
    <3>10. kept \subseteq Ids(Secured(disk', m)) /\ Ids(Content(disk', m)) \subseteq asked \cup Ids(Visible)
      BY <3>4, <3>5 DEF VersionOK
    <3> QED BY <3>2, <3>6, <3>7, <3>8, <3>9, <3>10 DEF VersionOK
  <2> QED BY <2>1, <2>2, <2>3
<1>19. VersionsOK'
  BY <1>3, <1>13, <1>18 DEF VersionsOK
<1>20. /\ LogSet(disk, logfile) \subseteq LogSet(disk', logfile)
       /\ SyncedSet(disk, logfile) \subseteq SyncedSet(disk', logfile)
       /\ Files(disk') \subseteq Files(disk) \cup ImmEntries
  BY <1>10, <1>11
<1> QED BY <1>1, <1>13, <1>14, <1>15, <1>17, <1>19, <1>20, BackgroundStep

\* What is left after an installation.
LEMMA Left ==
  ASSUME IInv, edit # None, edit.stage = "sync", NEW p, NEW compacted, NEW L,
         L = Live(p, CurrentTables, compacted), disk' = DeleteObsoleteFiles(SyncedManifest, L, edit.log)
  PROVE  LET T == IF bgError THEN DOMAIN disk.tables ELSE L
         IN  /\ DiskOK(disk') /\ disk'.manifest = <<Manifest>> /\ Leaves(disk, disk', T, edit.log)
             /\ CurrentTables \subseteq T /\ TablesOf(Manifest) \subseteq T
             /\ \A r \in Reader : pinned[r] # None => pinned[r] \subseteq T
<1> DEFINE T == IF bgError THEN DOMAIN disk.tables ELSE L
<1>1. IsRunning /\ IsSyncing
  BY AtWork DEF IsSyncing
<1>2. /\ DiskOK(disk) /\ EditOK /\ WorkOK /\ VersionsOK /\ bgError \in BOOLEAN
      /\ Current \in VersionState /\ Manifest \in Versions
  BY <1>1, WhenRunning
<1>3. edit \in EditRecord /\ edit.log \in Nat
  BY <1>2 DEF EditOK, EditRecord
<1>4. /\ DiskOK(SyncedManifest) /\ SyncedManifest.logs = disk.logs
      /\ SyncedManifest.tables = disk.tables /\ SyncedManifest.manifest = <<Manifest>>
  BY <1>2, ManifestIsShort
<1>5. PICK d : d = SyncedManifest
  OBVIOUS
<1>6. /\ DiskOK(disk') /\ disk'.manifest = d.manifest
      /\ Leaves(d, disk', IF bgError THEN DOMAIN d.tables ELSE L, edit.log)
  BY <1>3, <1>4, <1>5, ObsoleteAreDeleted
<1>7. Leaves(disk, disk', T, edit.log)
  BY <1>4, <1>5, <1>6 DEF Leaves
<1>8. TablesOf(Manifest) \subseteq DOMAIN disk.tables /\ CurrentTables \subseteq DOMAIN disk.tables
  <2>1. Apply(Current, edit) \in Versions
    BY <1>3, NotNone DEF Versions
  <2> QED BY <1>1, <1>2, <2>1 DEF VersionsOK, VersionOK, CurrentTables
<1>9. CurrentTables \subseteq T
  BY <1>8 DEF Live
<1>10. TablesOf(Manifest) \subseteq T
  <2>1. ~ bgError => TablesOf(Manifest) \subseteq CurrentTables
    BY <1>2 DEF WorkOK
  <2> QED BY <1>8, <1>9, <2>1
<1>11. ASSUME NEW r \in Reader, pinned[r] # None PROVE pinned[r] \subseteq T
  <2>1. pinned[r] \subseteq DOMAIN disk.tables
    BY <1>2, <1>11 DEF WorkOK, MaybeOneOf
  <2>2. pinned[r] \subseteq Live(p, CurrentTables, compacted)
    BY <1>11 DEF Live
  <2> QED BY <2>1, <2>2
<1> QED BY <1>4, <1>5, <1>6, <1>7, <1>9, <1>10, <1>11

LEMMA FlushIsInstalledStep ==
  ASSUME IInv, FlushIsInstalled
  PROVE  IInv' /\ Stutters
<1> DEFINE compacted == IF compaction = None THEN {} ELSE compaction.base
           L == Live(pending, CurrentTables, compacted)
           T == IF bgError THEN DOMAIN disk.tables ELSE L
<1>1. /\ edit # None /\ edit.stage = "sync" /\ flush # None
      /\ l0' = (l0 \ edit.del) \cup edit.add0 /\ deep' = (deep \ edit.del) \cup edit.add
      /\ logNumber' = edit.log /\ edit' = None /\ imm' = {} /\ flush' = None
      /\ disk' = DeleteObsoleteFiles(SyncedManifest, Live(pending, l0' \cup deep', compacted), edit.log)
      /\ awaiting' = {} /\ (scheduled' = WorkToDo(bgError, {}, l0') \/ scheduled' = scheduled)
      /\ UNCHANGED <<writers, call, asleep, group, asked, kept, mem, logfile, next, lastSeq>>
      /\ UNCHANGED <<pending, bgError, compaction, used>>
      /\ UNCHANGED <<up, pinned, recovery, instance>>
  BY DEF FlushIsInstalled, IsApplying, Installed, EndOfWork, Untouched
<1>2. IsRunning /\ IsSyncing
  BY <1>1, AtWork DEF IsSyncing
<1>3. /\ DiskOK(disk) /\ EditOK /\ FlushOK /\ CompactionOK /\ WorkOK /\ MemoryOK
      /\ bgError \in BOOLEAN /\ scheduled \in BOOLEAN
      /\ Current \in VersionState /\ TablesOf(Current) = l0 \cup deep
      /\ l0 \cup deep \subseteq DOMAIN disk.tables
  BY <1>2, WhenRunning
<1>4. /\ edit \in EditRecord /\ edit.del = {} /\ edit.log \in Nat
      /\ \/ /\ edit.add0 \cup edit.add = {flush}
            /\ flush \in DOMAIN disk.tables /\ disk.tables[flush] = ImmEntries
         \/ edit.add0 \cup edit.add = {} /\ ImmEntries = {}
  BY <1>1, <1>3 DEF EditOK, EditRecord
<1>5. CurrentTables = (l0 \cup deep) \cup (edit.add0 \cup edit.add)
  BY <1>2, <1>3, <1>4, ApplyTables DEF CurrentTables
<1>6. l0' \cup deep' = CurrentTables
  BY <1>1, <1>4, <1>5
<1>7. disk' = DeleteObsoleteFiles(SyncedManifest, L, edit.log)
  BY <1>1, <1>6
<1>8. /\ DiskOK(disk') /\ disk'.manifest = <<Manifest>> /\ Leaves(disk, disk', T, edit.log)
      /\ CurrentTables \subseteq T /\ TablesOf(Manifest) \subseteq T
      /\ \A r \in Reader : pinned[r] # None => pinned[r] \subseteq T
  <2>1. PICK p, c, l : p = pending /\ c = compacted /\ l = L
    OBVIOUS
  <2>2. l = Live(p, CurrentTables, c) /\ disk' = DeleteObsoleteFiles(SyncedManifest, l, edit.log)
    BY <1>7, <2>1
  <2> HIDE DEF T, L, compacted
  <2> QED BY <1>1, <2>1, <2>2, Left DEF T
<1>9. ImmEntries' = {}
  BY <1>1 DEF ImmEntries
<1>10. TableSet(disk, CurrentTables) \cup ImmEntries' = TableSet(disk, l0 \cup deep) \cup ImmEntries
  <2>1. TableSet(disk, CurrentTables) = TableSet(disk, l0 \cup deep) \cup TableSet(disk, edit.add0 \cup edit.add)
    BY <1>5, TableUnion
  <2>2. TableSet(disk, edit.add0 \cup edit.add) = ImmEntries
    <3>1. \A x : x \in TableSet(disk, edit.add0 \cup edit.add) <=> x \in ImmEntries
      BY <1>4, TableHas
    <3> QED BY <3>1
  <2> QED BY <1>9, <2>1, <2>2
<1>11. compaction # None => /\ pending \cap DOMAIN disk.tables \subseteq T
                            /\ compaction.base \subseteq T
  <2>1. compaction # None => compaction.base \subseteq DOMAIN disk.tables
    BY <1>3 DEF CompactionOK
  <2> QED BY <2>1 DEF Live
<1>12. CompactionOK'
  <2> SUFFICES ASSUME compaction # None PROVE CompactionOK'
    BY <1>1 DEF CompactionOK
  <2>1. /\ compaction \in CompactionRecord /\ compaction.inputs \subseteq l0 \cup deep
        /\ compaction.base \subseteq DOMAIN disk.tables
        /\ compaction.output # 0 =>
             /\ compaction.output \in pending \cap DOMAIN disk.tables
             /\ disk.tables[compaction.output] = TableSet(disk, compaction.inputs)
        /\ compaction.stage = "merge"
    BY <1>1, <1>3 DEF CompactionOK, FlushOK
  <2>2. compaction.inputs \subseteq l0' \cup deep' /\ compaction.inputs \in SUBSET T
    BY <1>5, <1>6, <1>8, <2>1
  <2> HIDE DEF T
  <2>3. TableSet(disk', compaction.inputs) = TableSet(disk, compaction.inputs)
    BY <1>4, <1>8, <2>2, LeavesHas
  <2>4. compaction.base \subseteq DOMAIN disk'.tables
    BY <1>8, <1>11, <2>1 DEF Leaves
  <2>5. compaction.output # 0 =>
          /\ compaction.output \in pending' \cap DOMAIN disk'.tables
          /\ disk'.tables[compaction.output] = TableSet(disk', compaction.inputs)
    BY <1>1, <1>8, <1>11, <2>1, <2>3 DEF Leaves
  <2>6. compaction' = compaction
    BY <1>1
  <2> HIDE <1>1
  <2> QED BY <2>1, <2>2, <2>4, <2>5, <2>6 DEF CompactionOK
<1>13. BackgroundKeeps
  BY <1>1 DEF BackgroundKeeps, UsesNoWrite
<1>14. imm' \subseteq SUBSET Entry /\ scheduled' \in BOOLEAN /\ pending' \subseteq pending
  BY <1>1, <1>3 DEF WorkToDo
<1>15. /\ edit # None /\ edit.stage = "sync"
       /\ l0' = (l0 \ edit.del) \cup edit.add0 /\ deep' = (deep \ edit.del) \cup edit.add
       /\ logNumber' = edit.log /\ edit' = None /\ flush' = None /\ UNCHANGED <<next, bgError>>
  BY <1>1
<1> HIDE <1>1, <1>7
<1> HIDE DEF T
<1>16. PICK t : t = T
  OBVIOUS
<1>17. /\ Leaves(disk, disk', t, edit.log)
       /\ CurrentTables \subseteq t /\ TablesOf(Manifest) \subseteq t
       /\ \A r \in Reader : pinned[r] # None => pinned[r] \subseteq t
  BY <1>8, <1>16
<1>18. ImmEntries' \subseteq ImmEntries /\ DiskOK(disk') /\ disk'.manifest = <<Manifest>>
  BY <1>8, <1>9
<1> QED BY <1>10, <1>12, <1>13, <1>14, <1>15, <1>17, <1>18, InstallStep

LEMMA CompactionIsInstalledStep ==
  ASSUME IInv, CompactionIsInstalled
  PROVE  IInv' /\ Stutters
<1> DEFINE L == Live(pending', CurrentTables, {})
<1>1. /\ edit # None /\ edit.stage = "sync" /\ flush = None
      /\ l0' = (l0 \ edit.del) \cup edit.add0 /\ deep' = (deep \ edit.del) \cup edit.add
      /\ logNumber' = edit.log /\ edit' = None /\ compaction' = None
      /\ pending' = pending \ {compaction.output}
      /\ disk' = IF compaction.stage = "move" THEN SyncedManifest
                 ELSE DeleteObsoleteFiles(SyncedManifest, Live(pending', l0' \cup deep', {}), edit.log)
      /\ awaiting' = {} /\ scheduled' = WorkToDo(bgError, imm, l0')
      /\ UNCHANGED <<writers, call, asleep, group, asked, kept, mem, imm, logfile, next, lastSeq>>
      /\ UNCHANGED <<bgError, flush, used>>
      /\ UNCHANGED <<up, pinned, recovery, instance>>
  BY DEF CompactionIsInstalled, IsApplying, Installed, EndOfWork, Untouched
<1>2. IsRunning /\ IsSyncing
  BY <1>1, AtWork DEF IsSyncing
<1>3. /\ DiskOK(disk) /\ EditOK /\ CompactionOK /\ WorkOK /\ MemoryOK /\ VersionsOK
      /\ bgError \in BOOLEAN
      /\ Current \in VersionState /\ TablesOf(Current) = l0 \cup deep
      /\ l0 \cup deep \subseteq DOMAIN disk.tables /\ Manifest \in Versions
  BY <1>2, WhenRunning
<1>4. /\ edit \in EditRecord /\ edit.log \in Nat /\ edit.add0 = {} /\ edit.del = compaction.inputs
      /\ compaction # None /\ compaction.stage \in {"install", "move"}
      /\ edit.add = IF compaction.stage = "move" THEN compaction.inputs ELSE {compaction.output}
  BY <1>1, <1>3 DEF EditOK, EditRecord
<1>5. CurrentTables = ((l0 \cup deep) \ edit.del) \cup edit.add
  BY <1>2, <1>3, <1>4, ApplyTables DEF CurrentTables
<1>6. l0' \cup deep' = CurrentTables
  BY <1>1, <1>4, <1>5
<1>7. CurrentTables \subseteq DOMAIN disk.tables
  <2>1. Apply(Current, edit) \in Versions
    BY <1>4, NotNone DEF Versions
  <2> QED BY <1>2, <1>3, <2>1 DEF VersionsOK, VersionOK, CurrentTables
<1>8. \E t : /\ DiskOK(disk') /\ disk'.manifest = <<Manifest>> /\ Leaves(disk, disk', t, edit.log)
             /\ CurrentTables \subseteq t /\ TablesOf(Manifest) \subseteq t
             /\ \A r \in Reader : pinned[r] # None => pinned[r] \subseteq t
  <2>1. CASE compaction.stage = "move"
    <3>1. disk' = SyncedManifest
      BY <1>1, <2>1
    <3>2. /\ DiskOK(disk') /\ disk'.manifest = <<Manifest>> /\ disk'.logs = disk.logs
          /\ disk'.tables = disk.tables
      BY <1>3, <3>1, ManifestIsShort
    <3>3. Leaves(disk, disk', DOMAIN disk.tables, edit.log)
      BY <3>2 DEF Leaves
    <3>4. TablesOf(Manifest) \subseteq DOMAIN disk.tables
      BY <1>3 DEF VersionsOK, VersionOK
    <3>5. \A r \in Reader : pinned[r] # None => pinned[r] \subseteq DOMAIN disk.tables
      BY <1>3 DEF WorkOK, MaybeOneOf
    <3> QED BY <1>7, <3>2, <3>3, <3>4, <3>5
  <2>2. CASE compaction.stage # "move"
    <3>1. disk' = DeleteObsoleteFiles(SyncedManifest, L, edit.log)
      BY <1>1, <1>6, <2>2
    <3>2. PICK p, c, l : p = pending' /\ c = {} /\ l = L
      OBVIOUS
    <3>3. l = Live(p, CurrentTables, c) /\ disk' = DeleteObsoleteFiles(SyncedManifest, l, edit.log)
      BY <3>1, <3>2
    <3>4. PICK t : t = IF bgError THEN DOMAIN disk.tables ELSE l
      OBVIOUS
    <3> HIDE DEF L
    <3>5. /\ DiskOK(disk') /\ disk'.manifest = <<Manifest>> /\ Leaves(disk, disk', t, edit.log)
          /\ CurrentTables \subseteq t /\ TablesOf(Manifest) \subseteq t
          /\ \A r \in Reader : pinned[r] # None => pinned[r] \subseteq t
      BY <1>1, <3>3, <3>4, Left
    <3> QED BY <3>5
  <2> QED BY <2>1, <2>2
<1>9. ImmEntries' = ImmEntries
  BY <1>1 DEF ImmEntries
<1>10. TableSet(disk, CurrentTables) \cup ImmEntries' = TableSet(disk, l0 \cup deep) \cup ImmEntries
  <2>1. TableSet(disk, CurrentTables) = TableSet(disk, (l0 \cup deep) \ edit.del) \cup TableSet(disk, edit.add)
    BY <1>5, TableUnion
  <2>2. TableSet(disk, ((l0 \cup deep) \ edit.del) \cup edit.del)
          = TableSet(disk, (l0 \cup deep) \ edit.del) \cup TableSet(disk, edit.del)
    BY TableUnion
  <2>3. ((l0 \cup deep) \ edit.del) \cup edit.del = l0 \cup deep
    BY <1>3, <1>4 DEF CompactionOK
  <2>4. TableSet(disk, edit.add) = TableSet(disk, edit.del)
    <3>1. CASE compaction.stage = "move"
      BY <1>4, <3>1
    <3>2. CASE compaction.stage = "install"
      <4>1. /\ compaction.output \in DOMAIN disk.tables /\ edit.add = {compaction.output}
            /\ disk.tables[compaction.output] = TableSet(disk, edit.del)
        BY <1>3, <1>4, <3>2 DEF CompactionOK
      <4>2. \A x : x \in TableSet(disk, edit.add) <=> x \in disk.tables[compaction.output]
        BY <4>1, TableHas
      <4> QED BY <4>1, <4>2
    <3> QED BY <1>4, <3>1, <3>2
  <2> QED BY <1>9, <2>1, <2>2, <2>3, <2>4
<1>11. CompactionOK'
  BY <1>1 DEF CompactionOK
<1>12. BackgroundKeeps
  BY <1>1 DEF BackgroundKeeps, UsesNoWrite
<1>13. imm' \subseteq SUBSET Entry /\ scheduled' \in BOOLEAN /\ pending' \subseteq pending
  BY <1>1, <1>3 DEF WorkToDo, MemoryOK
<1>14. /\ edit # None /\ edit.stage = "sync"
       /\ l0' = (l0 \ edit.del) \cup edit.add0 /\ deep' = (deep \ edit.del) \cup edit.add
       /\ logNumber' = edit.log /\ edit' = None /\ flush' = None /\ UNCHANGED <<next, bgError>>
  BY <1>1
<1> HIDE <1>1
<1> HIDE DEF L
<1>15. PICK t : /\ DiskOK(disk') /\ disk'.manifest = <<Manifest>> /\ Leaves(disk, disk', t, edit.log)
                /\ CurrentTables \subseteq t /\ TablesOf(Manifest) \subseteq t
                /\ \A r \in Reader : pinned[r] # None => pinned[r] \subseteq t
  BY <1>8
<1>16. ImmEntries' \subseteq ImmEntries
  BY <1>9
<1> QED BY <1>10, <1>11, <1>12, <1>13, <1>14, <1>15, <1>16, InstallStep

-----------------------------------------------------------------------------
(* Readers, and the end of the process.                                    *)

LEMMA ReaderStep ==
  ASSUME IInv, IsRunning, UNCHANGED <<client, memory, work, disk, recovery>>, UsesNoWrite,
         up' \in {up, "closing"},
         pinned' \in [Reader -> MaybeOneOf(SUBSET DOMAIN disk.tables)]
  PROVE  IInv' /\ Stutters
<1>1. /\ UNCHANGED <<writers, call, asleep, awaiting, group, asked, kept>>
      /\ UNCHANGED <<mem, imm, l0, deep, logNumber, logfile, next, lastSeq>>
      /\ UNCHANGED <<pending, bgError, scheduled, flush, compaction, edit>>
      /\ UNCHANGED <<disk, recovery>>
  BY DEF client, memory, work
<1>2. /\ DiskOK(disk) /\ QueueOK /\ UsedOK /\ EntriesOK /\ GroupOK
      /\ MemoryOK /\ EditOK /\ FlushOK /\ CompactionOK /\ WorkOK /\ VersionsOK /\ recovery = None
  BY WhenRunning
<1>3. IsRunning'
  BY DEF IsRunning
<1>4. ImmEntries' = ImmEntries /\ Flying' = Flying /\ Found' = Found /\ Everything' = Everything
  BY <1>1 DEF ImmEntries, Flying, Found, Everything
<1>5. Visible' = Visible
  BY <1>1, <1>3, <1>4, SeenWhenRunning, SeenWhenRunningNext
<1>6. UsedOK' /\ used'["writes"] = used["writes"]
  BY <1>1, <1>2, UsedSame
<1>7. QueueOK' /\ EntriesOK' /\ GroupOK' /\ DiskOK(disk)'
  <2>1. awaiting \subseteq Thread /\ writers \in Seq(Thread)
    BY <1>2 DEF QueueOK
  <2>2. QueueOK'
    BY <1>1, <1>2, <2>1, QueueSame
  <2>3. EntriesOK'
    BY <1>1, <1>2, <1>4, <1>6, EntriesSame
  <2>4. GroupOK'
    BY <1>1, <1>2, <2>1, GroupSame
  <2> QED BY <1>1, <1>2, <2>2, <2>3, <2>4
<1>8. Manifest' = Manifest /\ Current' = Current /\ IsSyncing' = IsSyncing /\ Versions' = Versions
      /\ CurrentTables' = CurrentTables
  <2>1. Manifest' = Manifest /\ Current' = Current /\ IsSyncing' = IsSyncing
    BY <1>1 DEF Manifest, Current, IsSyncing
  <2> QED BY <1>1, <2>1 DEF Versions, CurrentTables
<1>9. MemoryOK'
  BY <1>1, <1>2, <1>4 DEF MemoryOK
<1>10. EditOK' /\ FlushOK'
  BY <1>1, <1>2, <1>4, <1>8 DEF EditOK, FlushOK
<1>11. CompactionOK'
  BY <1>1, <1>2 DEF CompactionOK
<1>12. WorkOK'
  BY <1>1, <1>2, <1>8 DEF WorkOK
<1>13. VersionsOK'
  BY <1>1, <1>2, <1>5, <1>8 DEF VersionsOK
<1>14. Running'
  BY <1>1, <1>2, <1>9, <1>10, <1>11, <1>12, <1>13 DEF Running, VersionsOK
<1>15. IInv'
  BY <1>3, <1>6, <1>7, <1>14 DEF IInv, IsRunning
<1> QED BY <1>1, <1>5, <1>15 DEF Stutters

LEMMA StartReadStep ==
  ASSUME IInv, NEW r \in Reader, StartRead(r)
  PROVE  IInv' /\ Stutters
<1>1. /\ up = "open" /\ Use("reads") /\ pinned' = [pinned EXCEPT ![r] = l0 \cup deep]
      /\ UNCHANGED <<client, memory, work, disk, up, recovery>>
  BY DEF StartRead
<1>2. IsRunning /\ UsesNoWrite
  BY <1>1 DEF IsRunning, UsesNoWrite
<1>3. WorkOK /\ l0 \cup deep \subseteq DOMAIN disk.tables
  BY <1>2, WhenRunning
<1>4. pinned' \in [Reader -> MaybeOneOf(SUBSET DOMAIN disk.tables)]
  BY <1>1, <1>3 DEF WorkOK, MaybeOneOf
<1> QED BY <1>1, <1>2, <1>4, ReaderStep

LEMMA EndReadStep ==
  ASSUME IInv, NEW r \in Reader, EndRead(r)
  PROVE  IInv' /\ Stutters
<1>1. /\ pinned[r] # None /\ pinned' = [pinned EXCEPT ![r] = None]
      /\ UNCHANGED <<client, memory, work, disk, up, recovery>> /\ UNCHANGED <<instance, used>>
  BY DEF EndRead
<1>2. IsRunning /\ UsesNoWrite
  BY <1>1 DEF IInv, Down, Quiet, UsesNoWrite
<1>3. WorkOK
  BY <1>2, WhenRunning
<1>4. pinned' \in [Reader -> MaybeOneOf(SUBSET DOMAIN disk.tables)]
  BY <1>1, <1>3 DEF WorkOK, MaybeOneOf
<1> QED BY <1>1, <1>2, <1>4, ReaderStep

LEMMA CloseStep ==
  ASSUME IInv, Close
  PROVE  IInv' /\ Stutters
<1>1. /\ up = "open" /\ Use("crashes") /\ up' = "closing"
      /\ UNCHANGED <<client, memory, work, disk, recovery>> /\ pinned' = pinned
  BY DEF Close
<1>2. IsRunning /\ UsesNoWrite
  BY <1>1 DEF IsRunning, UsesNoWrite
<1>3. WorkOK
  BY <1>2, WhenRunning
<1> QED BY <1>1, <1>2, <1>3, ReaderStep DEF WorkOK

\* What the manifest may say is sound whether the process runs or not.
LEMMA ManifestIsSound ==
  ASSUME IInv, NEW m \in ToSet(disk.manifest)
  PROVE  VersionOK(m, disk, Visible, asked, kept)
<1>1. CASE IsRunning
  <2>1. m \in Versions /\ VersionsOK
    BY <1>1, WhenRunning DEF Versions
  <2> QED BY <2>1 DEF VersionsOK
<1>2. CASE ~ IsRunning
  BY <1>2 DEF IInv, Down
<1> QED BY <1>1, <1>2

LEMMA GoneStep ==
  ASSUME IInv, Gone, up' = "down", UsesNoWrite, DiskOK(disk'), Files(disk') \subseteq Files(disk),
         \A m \in ToSet(disk'.manifest) : VersionOK(m, disk', Visible', asked, kept)
  PROVE  IInv' /\ UNCHANGED <<asked, kept>>
<1>1. /\ writers' = <<>> /\ call' = [w \in Thread |-> None]
      /\ asleep' = {} /\ awaiting' = {} /\ group' = None
      /\ mem' = {} /\ imm' = {} /\ l0' = {} /\ deep' = {}
      /\ logNumber' = 0 /\ logfile' = 0 /\ next' = 0 /\ lastSeq' = 0
      /\ pending' = {} /\ bgError' = FALSE /\ scheduled' = FALSE
      /\ flush' = None /\ compaction' = None /\ edit' = None
      /\ pinned' = [r \in Reader |-> None]
      /\ UNCHANGED <<asked, kept>>
  BY DEF Gone
<1>2. UsedOK /\ EntriesOK
  BY DEF IInv
<1>3. UsedOK' /\ used'["writes"] = used["writes"]
  BY <1>1, <1>2, UsedSame
<1>4. QueueOK'
  <2>1. /\ writers' \in Seq(Thread) /\ Len(writers') = 0 /\ \A i \in 1 .. Len(writers') : FALSE
    BY <1>1
  <2>2. \A w \in Thread : call'[w] = None
    BY <1>1
  <2>3. call' \in [Thread -> MaybeOneOf(CallRecord)]
    BY <1>1 DEF MaybeOneOf
  <2>4. asleep' \subseteq ToSet(writers') /\ awaiting' \subseteq Thread
    BY <1>1
  <2> HIDE <1>1
  <2> QED BY <2>1, <2>2, <2>3, <2>4 DEF QueueOK
<1>5. GroupOK' /\ Flying' = {} /\ ImmEntries' = {}
  BY <1>1 DEF GroupOK, Flying, ImmEntries
<1>6. EntriesOK'
  <2>1. Everything' \subseteq Everything
    BY <1>1, <1>5 DEF Everything
  <2> QED BY <1>2, <1>3, <2>1 DEF EntriesOK
<1>7. Down'
  <2>1. Quiet'
    BY <1>1 DEF Quiet
  <2> QED BY <1>1, <2>1 DEF Down
<1>8. ~ IsRunning' /\ up' # "recovering"
  BY DEF IsRunning
<1> QED BY <1>1, <1>3, <1>4, <1>5, <1>6, <1>7, <1>8 DEF IInv

\* What a crash of the process does to the writes, ...
ShowsUp ==
  /\ UNCHANGED <<asked, kept>>
  /\ \E W \in SUBSET asked : Ids(Visible') = Ids(Visible) \cup W

\* ... and one of the machine.
Shrinks ==
  /\ UNCHANGED <<asked, kept>>
  /\ Ids(Visible') \subseteq Ids(Visible) \cup asked
  /\ kept \subseteq Ids(Visible')

LEMMA EndsStep ==
  ASSUME IInv, IsUp, Gone, up' = "down", UsesNoWrite, disk' = disk
  PROVE  IInv' /\ ShowsUp
<1>1. DiskOK(disk) /\ ~ IsRunning'
  BY DEF IInv, IsRunning
<1>2. Manifest' = Manifest /\ Manifest \in ToSet(disk.manifest)
  BY <1>1, LastVersion DEF Manifest
<1>3. Visible' = Content(disk, Manifest)
  BY <1>1, <1>2, SeenWhenDownNext
<1>4. Visible \subseteq Visible'
  <2>1. CASE IsRunning
    <3>1. VersionsOK /\ Manifest \in Versions
      BY <2>1, WhenRunning
    <3> QED BY <1>3, <3>1 DEF VersionsOK, UpToDate
  <2>2. CASE ~ IsRunning
    BY <1>3, <2>2, SeenWhenDown
  <2> QED BY <2>1, <2>2
<1>5. Ids(Visible) \subseteq Ids(Visible')
  BY <1>4, IdsMonotone
<1>6. Ids(Visible') \subseteq asked \cup Ids(Visible)
  <2>1. VersionOK(Manifest, disk, Visible, asked, kept)
    BY <1>2, ManifestIsSound
  <2> QED BY <1>3, <2>1 DEF VersionOK
<1>7. ASSUME NEW m \in ToSet(disk.manifest) PROVE VersionOK(m, disk, Visible', asked, kept)
  <2>1. VersionOK(m, disk, Visible, asked, kept)
    BY ManifestIsSound
  <2>2. kept \subseteq Ids(Secured(disk, m))
    BY <2>1 DEF VersionOK
  <2>3. asked \cup Ids(Visible) \subseteq asked \cup Ids(Visible')
    BY <1>5
  <2> QED BY <2>1, <2>2, <2>3, VersionSeen
<1>8. IInv' /\ UNCHANGED <<asked, kept>>
  BY <1>1, <1>7, GoneStep
<1>9. Ids(Visible') = Ids(Visible) \cup (Ids(Visible') \cap asked)
  BY <1>5, <1>6
<1> QED BY <1>8, <1>9 DEF ShowsUp

LEMMA ClosedStep ==
  ASSUME IInv, Closed
  PROVE  IInv' /\ ShowsUp
<1>1. /\ up = "closing" /\ up' = "down" /\ Gone /\ disk' = disk /\ UNCHANGED <<instance, used>>
  BY DEF Closed
<1>2. IsUp /\ UsesNoWrite
  BY <1>1 DEF IsUp, UsesNoWrite
<1> QED BY <1>1, <1>2, EndsStep

LEMMA ProcessCrashStep ==
  ASSUME IInv, ProcessCrash
  PROVE  IInv' /\ ShowsUp
<1>1. /\ IsUp /\ up' = "down" /\ Gone /\ disk' = disk /\ Use("crashes")
  BY DEF ProcessCrash
<1>2. UsesNoWrite
  BY <1>1 DEF UsesNoWrite
<1> QED BY <1>1, <1>2, EndsStep

LEMMA MachineCrashStep ==
  ASSUME IInv, MachineCrash
  PROVE  IInv' /\ Shrinks
<1>1. /\ up' = "down" /\ Gone /\ Use("crashes") /\ DiskOK(disk)
  BY DEF MachineCrash, IInv
<1>2. PICK left \in [DOMAIN disk.logs -> 0 .. instance.writes], m \in ToSet(disk.manifest) :
        /\ \A n \in DOMAIN left : left[n] \in disk.logs[n].synced .. Len(disk.logs[n].records)
        /\ disk' = [disk EXCEPT
                      !.logs = [n \in DOMAIN left |->
                                  [records |-> SubSeq(disk.logs[n].records, 1, left[n]),
                                   synced |-> left[n]]],
                      !.manifest = <<m>>]
  BY Zenon DEF MachineCrash
<1>3. IsTorn(disk, disk', m, left)
  <2>1. PICK f : f = [n \in DOMAIN left |-> [records |-> SubSeq(disk.logs[n].records, 1, left[n]),
                                             synced |-> left[n]]]
    OBVIOUS
  <2>2. disk' = [disk EXCEPT !.logs = f, !.manifest = <<m>>]
    BY <1>2, <2>1
  <2>3. /\ DOMAIN disk' = {"logs", "tables", "manifest"} /\ disk'.tables = disk.tables
        /\ disk'.manifest = <<m>> /\ disk'.logs = f
    BY <1>1, <2>2 DEF DiskOK
  <2>4. DOMAIN left = DOMAIN disk.logs
    OBVIOUS
  <2>5. /\ DOMAIN f = DOMAIN disk.logs
        /\ \A n \in DOMAIN disk.logs : f[n] = [records |-> SubSeq(disk.logs[n].records, 1, left[n]),
                                               synced |-> left[n]]
    BY <2>1, <2>4
  <2> QED BY <1>2, <2>3, <2>4, <2>5 DEF IsTorn
<1> HIDE <1>2
<1>4. /\ DiskOK(disk') /\ disk'.tables = disk.tables /\ disk'.manifest = <<m>>
      /\ Files(disk') \subseteq Files(disk)
      /\ \A v : /\ Secured(disk, v) \subseteq Secured(disk', v) /\ Content(disk', v) = Secured(disk', v)
                /\ Content(disk', v) \subseteq Content(disk, v)
  BY <1>1, <1>3, DiskTorn
<1>5. Manifest' = m /\ ToSet(disk'.manifest) = {m}
  <2>1. PICK s : s = disk'.manifest
    OBVIOUS
  <2>2. Len(s) = 1 /\ s[1] = m /\ DOMAIN s = {1}
    BY <1>4, <2>1
  <2>3. Last(s) = m /\ ToSet(s) = {m}
    BY <2>2 DEF Last, ToSet
  <2> QED BY <2>1, <2>3 DEF Manifest
<1>6. Visible' = Content(disk', m)
  <2>1. ~ IsRunning'
    BY <1>1 DEF IsRunning
  <2> QED BY <1>5, <2>1, SeenWhenDownNext
<1>7. m \in ToSet(disk.manifest)
  BY <1>2
<1>8. VersionOK(m, disk, Visible, asked, kept)
  BY <1>7, ManifestIsSound
<1>9. kept \subseteq Ids(Secured(disk', m))
  <2>1. Ids(Secured(disk, m)) \subseteq Ids(Secured(disk', m))
    BY <1>4, IdsMonotone
  <2> QED BY <1>8, <2>1 DEF VersionOK
<1>10. VersionOK(m, disk', Visible', asked, kept)
  <2>1. \A T : TableSet(disk', T) = TableSet(disk, T)
    BY <1>4 DEF TableSet
  <2>2. Ids(Content(disk', m)) \subseteq asked \cup Ids(Visible')
    BY <1>6
  <2> QED BY <1>4, <1>8, <1>9, <2>1, <2>2 DEF VersionOK
<1>11. UsesNoWrite
  BY <1>1 DEF UsesNoWrite
<1>12. IInv' /\ UNCHANGED <<asked, kept>>
  BY <1>1, <1>4, <1>5, <1>10, <1>11, GoneStep
<1>13. Ids(Visible') \subseteq Ids(Visible) \cup asked
  <2>1. Ids(Visible') \subseteq Ids(Content(disk, m))
    BY <1>4, <1>6, IdsMonotone
  <2> QED BY <1>8, <2>1 DEF VersionOK
<1>14. kept \subseteq Ids(Visible')
  BY <1>4, <1>6, <1>9
<1> QED BY <1>12, <1>13, <1>14 DEF Shrinks

-----------------------------------------------------------------------------
(* A process starts.                                                       *)

\* What a starting process does not touch.
StartKeeps ==
  /\ UNCHANGED <<client, mem, imm, logfile, work, pinned, instance, used>>
  /\ disk'.logs = disk.logs /\ disk'.manifest = disk.manifest

LEMMA StartStep ==
  ASSUME IInv, ~ IsRunning, StartKeeps, up' = "recovering", DiskOK(disk'),
         l0' \subseteq Nat, deep' \subseteq Nat, logNumber' \in Nat, next' \in Nat, lastSeq' \in Nat,
         Files(disk') \subseteq Files(disk),
         \A m \in ToSet(disk.manifest) : Grows(disk, disk', TablesOf(m), {}),
         Recovering'
  PROVE  IInv' /\ Stutters
<1>1. /\ UNCHANGED <<writers, call, asleep, awaiting, group, asked, kept>>
      /\ UNCHANGED <<mem, imm, logfile>> /\ UNCHANGED <<pending, bgError, scheduled, flush, compaction, edit>>
      /\ UNCHANGED <<pinned, instance, used>>
      /\ disk'.logs = disk.logs /\ disk'.manifest = disk.manifest
  BY DEF StartKeeps, client, work
<1>2. DiskOK(disk) /\ QueueOK /\ UsedOK /\ EntriesOK /\ GroupOK /\ Down
  BY DEF IInv
<1>3. ~ IsRunning' /\ Manifest' = Manifest /\ Manifest \in ToSet(disk.manifest)
  BY <1>1, <1>2, LastVersion DEF IsRunning, Manifest
<1>4. Visible = Content(disk, Manifest) /\ Visible' = Content(disk', Manifest)
  BY <1>3, SeenWhenDown, SeenWhenDownNext
<1>5. ASSUME NEW m \in ToSet(disk.manifest)
      PROVE  /\ Content(disk', m) = Content(disk, m)
             /\ VersionOK(m, disk', Visible, asked, kept)
  <2>1. VersionOK(m, disk, Visible, asked, kept) /\ Grows(disk, disk', TablesOf(m), {})
    BY <1>2 DEF Down
  <2>2. Content(disk, m) \subseteq Content(disk', m) /\ VersionOK(m, disk', Visible, asked, kept)
    BY <2>1, ContentGrows
  <2>3. TablesOf(m) \subseteq DOMAIN disk.tables
    BY <2>1 DEF VersionOK
  <2>4. Content(disk', m) \subseteq Content(disk, m) \cup {}
    BY <2>1, <2>3, GrowsHas
  <2> QED BY <2>2, <2>4
<1>6. Visible' = Visible
  BY <1>3, <1>4, <1>5
<1>7. Down'
  <2>1. Quiet'
    BY <1>1, <1>2 DEF Down, Quiet
  <2>2. \A m \in ToSet(disk'.manifest) : VersionOK(m, disk', Visible', asked', kept')
    BY <1>1, <1>5, <1>6
  <2>3. logfile' \in Nat
    BY <1>1, <1>2 DEF Down
  <2> QED BY <2>1, <2>2, <2>3 DEF Down
<1>8. UsedOK' /\ used'["writes"] = used["writes"]
  BY <1>1, <1>2 DEF UsedOK
<1>9. QueueOK'
  <2>1. awaiting' \subseteq Thread
    BY <1>1, <1>2 DEF QueueOK
  <2> QED BY <1>1, <1>2, <2>1, QueueSame
<1>10. GroupOK'
  BY <1>1, <1>2 DEF GroupOK, Down, Quiet
<1>11. EntriesOK'
  <2>1. ImmEntries' = ImmEntries /\ Flying' = Flying
    BY <1>1 DEF ImmEntries, Flying
  <2>2. Everything' \subseteq Everything
    BY <1>1, <2>1 DEF Everything
  <2> QED BY <1>1, <1>2, <1>8, <2>2, EntriesSame
<1>12. IInv'
  BY <1>3, <1>7, <1>8, <1>9, <1>10, <1>11 DEF IInv
<1> QED BY <1>1, <1>6, <1>12 DEF Stutters

LEMMA RecoverStep ==
  ASSUME IInv, Recover
  PROVE  IInv' /\ Stutters
<1> DEFINE live == Manifest.l0 \cup Manifest.deep
<1>1. /\ up = "down"
      /\ up' = IF live \subseteq DOMAIN disk.tables \cup DOMAIN disk.logs THEN "recovering" ELSE "corrupt"
      /\ l0' = Manifest.l0 /\ deep' = Manifest.deep /\ logNumber' = Manifest.log
      /\ next' = Manifest.next + 1 /\ lastSeq' = Manifest.last
      /\ recovery' = [logs |-> {n \in DOMAIN disk.logs : n >= Manifest.log}, tables |-> {}]
      /\ UNCHANGED <<client, mem, imm, logfile, work, disk, pinned, instance, used>>
  BY DEF Recover
<1>2. DiskOK(disk) /\ Down /\ ~ IsRunning
  BY <1>1 DEF IInv, IsRunning
<1>3. Manifest \in ToSet(disk.manifest) /\ Manifest \in VersionState
  BY <1>2, LastVersion DEF Manifest
<1>4. VersionOK(Manifest, disk, Visible, asked, kept)
  BY <1>2, <1>3 DEF Down
<1>5. live \subseteq DOMAIN disk.tables
  BY <1>4 DEF VersionOK, TablesOf
<1>6. up' = "recovering" /\ disk' = disk
  BY <1>1, <1>5
<1>7. StartKeeps
  BY <1>1 DEF StartKeeps
<1>8. /\ l0' \subseteq Nat /\ deep' \subseteq Nat /\ logNumber' \in Nat /\ next' \in Nat /\ lastSeq' \in Nat
      /\ Manifest.next \in Nat /\ Manifest.last \in Nat
  BY <1>1, <1>3 DEF VersionState
<1>9. Recovering'
  <2>1. recovery'.logs = LogsFrom(disk, Manifest.log) /\ recovery'.tables = {}
    BY <1>1 DEF LogsFrom
  <2>2. Manifest' = Manifest /\ logNumber' = Manifest.log
    BY <1>1 DEF Manifest
  <2>3. Replayed' = {}
    BY <1>6, <2>1, <2>2 DEF Replayed
  <2>4. TableSet(disk', {}) = {} /\ UNION {LogSet(disk', n) : n \in {}} = {}
    BY DEF TableSet
  <2>5. Manifest.next < next' /\ Manifest.last <= lastSeq'
    BY <1>1, <1>8
  <2>6. l0' = Manifest.l0 /\ deep' = Manifest.deep
    BY <1>1
  <2> HIDE <1>1
  <2> QED BY <1>6, <2>1, <2>2, <2>3, <2>4, <2>5, <2>6 DEF Recovering
<1>10. /\ DiskOK(disk') /\ Files(disk') \subseteq Files(disk)
       /\ \A m \in ToSet(disk.manifest) : Grows(disk, disk', TablesOf(m), {})
  BY <1>2, <1>6 DEF Grows
<1> HIDE <1>1
<1> QED BY <1>2, <1>6, <1>7, <1>8, <1>9, <1>10, StartStep

LEMMA HighestIs ==
  ASSUME NEW a \in Nat, NEW b \in Nat
  PROVE  Highest(a, b) \in Nat /\ a <= Highest(a, b) /\ b <= Highest(a, b)
BY DEF Highest

LEMMA LastIs ==
  ASSUME lastSeq \in Nat, NEW S, IsFiniteSet(S), S \subseteq Entry
  PROVE  LastOf(S) \in Nat /\ lastSeq <= LastOf(S) /\ \A e \in S : e.seq <= LastOf(S)
<1> DEFINE g == [e \in S |-> e.seq]
           N == {0} \cup {e.seq : e \in S}
<1>1. {e.seq : e \in S} = {g[e] : e \in S}
  OBVIOUS
<1>2. IsFiniteSet({e.seq : e \in S})
  <2>1. IsFiniteSet({g[e] : e \in S})
    BY ImageIsFinite
  <2> QED BY <1>1, <2>1
<1>3. IsFiniteSet(N)
  BY <1>2, FS_Singleton, FS_Union
<1>4. N \in SUBSET Nat /\ N # {}
  BY DEF Entry
<1>5. \A e \in S : e.seq \in N
  OBVIOUS
<1>6. LastOf(S) = Highest(lastSeq, Max(N))
  BY DEF LastOf
<1> HIDE DEF N
<1>7. Max(N) \in Nat /\ \A x \in N : x <= Max(N)
  BY <1>3, <1>4, MaxIsThere
<1>8. LastOf(S) \in Nat /\ lastSeq <= LastOf(S) /\ Max(N) <= LastOf(S)
  BY <1>6, <1>7, HighestIs
<1>9. ASSUME NEW e \in S PROVE e.seq <= LastOf(S)
  <2>1. e.seq \in Nat /\ e.seq <= Max(N)
    BY <1>5, <1>7 DEF Entry
  <2> QED BY <1>7, <1>8, <2>1
<1> QED BY <1>8, <1>9

LEMMA RecoverLogFileStep ==
  ASSUME IInv, RecoverLogFile
  PROVE  IInv' /\ Stutters
<1>1. PICK n, made :
        /\ n = Min(recovery.logs) /\ made = IF Logged(n) = {} THEN {} ELSE {next}
        /\ recovery' = [logs |-> recovery.logs \ {n}, tables |-> recovery.tables \cup made]
        /\ disk' = IF made = {} THEN disk ELSE [disk EXCEPT !.tables = With(@, next, Logged(n))]
        /\ next' = Highest(next + Cardinality(made), n + 1)
        /\ lastSeq' = LastOf(Logged(n))
  BY Zenon DEF RecoverLogFile
<1>2. /\ up = "recovering" /\ up' = up /\ recovery.logs # {}
      /\ UNCHANGED <<client, mem, imm, l0, deep, logNumber, logfile, work, pinned, instance, used>>
  BY DEF RecoverLogFile
<1>3. /\ DiskOK(disk) /\ EntriesOK /\ Down /\ Recovering /\ ~ IsRunning
      /\ next \in Nat /\ lastSeq \in Nat /\ logNumber \in Nat
      /\ l0 \subseteq Nat /\ deep \subseteq Nat
  BY <1>2 DEF IInv, IsRunning, Down
<1>4. Manifest \in ToSet(disk.manifest) /\ Manifest \in VersionState
      /\ \A m \in ToSet(disk.manifest) : m \in VersionState /\ m.next <= Manifest.next
  BY <1>3, LastVersion DEF Manifest
<1>5. recovery.logs \subseteq DOMAIN disk.logs /\ recovery.logs \subseteq Nat
  BY <1>3 DEF Recovering, LogsFrom, DiskOK
<1>6. n \in recovery.logs /\ n \in DOMAIN disk.logs /\ n \in Nat
  BY <1>1, <1>2, <1>5, MinIsThere
<1>7. PICK c : c = Logged(n)
  OBVIOUS
<1>8. c = LogSet(disk, n) /\ IsFiniteSet(c) /\ c \subseteq Entry
  <2>1. c = LogSet(disk, n)
    BY <1>7 DEF Logged, LogSet
  <2> QED BY <1>3, <1>6, <2>1, LogIsFinite
<1>9. lastSeq' \in Nat /\ lastSeq <= lastSeq' /\ \A e \in c : e.seq <= lastSeq'
  BY <1>1, <1>3, <1>7, <1>8, LastIs
<1>10. /\ made \subseteq {next} /\ (made = {} <=> c = {})
       /\ next' \in Nat /\ next <= next' /\ n < next' /\ \A t \in made : t < next'
  <2>1. Cardinality(made) = IF made = {} THEN 0 ELSE 1
    BY <1>1, FS_EmptySet, FS_Singleton
  <2>2. next + Cardinality(made) \in Nat /\ n + 1 \in Nat
    BY <1>3, <1>6, <2>1
  <2>3. next' \in Nat /\ next + Cardinality(made) <= next' /\ n + 1 <= next'
    BY <1>1, <2>2, HighestIs
  <2>4. made \subseteq {next} /\ (made = {} <=> c = {})
    BY <1>1, <1>7
  <2> QED BY <1>3, <1>6, <2>1, <2>3, <2>4
<1>11. ASSUME NEW m \in ToSet(disk.manifest)
       PROVE  next \notin TablesOf(m)
  <2>1. VersionOK(m, disk, Visible, asked, kept)
    BY <1>3 DEF Down
  <2>2. m.next \in Nat /\ Manifest.next \in Nat /\ m.next <= Manifest.next /\ Manifest.next < next
    BY <1>3, <1>4 DEF VersionState, Recovering
  <2>3. \A t \in TablesOf(m) : t \in Nat /\ t < m.next
    BY <1>4, <2>1 DEF VersionOK, VersionState, TablesOf
  <2> QED BY <1>3, <2>2, <2>3
<1>12. /\ DiskOK(disk') /\ disk'.logs = disk.logs /\ disk'.manifest = disk.manifest
       /\ DOMAIN disk'.tables = DOMAIN disk.tables \cup made
       /\ (c # {} => disk'.tables[next] = c)
       /\ \A T : next \notin T => Grows(disk, disk', T, {})
       /\ Files(disk') \subseteq Files(disk)
  <2>1. CASE c = {}
    <3>1. disk' = disk /\ made = {}
      BY <1>1, <1>10, <2>1
    <3> QED BY <1>3, <2>1, <3>1 DEF Grows
  <2>2. CASE c # {}
    <3>1. PICK q : q = disk'
      OBVIOUS
    <3>2. PICK s \in SUBSET Entry : s = c
      BY <1>8
    <3>3. TableIsAdded(disk, q, next, s)
      BY <1>1, <1>7, <2>2, <3>1, <3>2 DEF TableIsAdded
    <3>4. made = {next}
      BY <1>1, <1>7, <2>2
    <3>5. c \subseteq Files(disk)
      BY <1>6, <1>8, FilesHas
    <3> HIDE <1>1
    <3>6. OneMoreTable(disk, q, next, s)
      BY <1>3, <3>3, TableMade
    <3> QED BY <3>1, <3>2, <3>4, <3>5, <3>6 DEF OneMoreTable
  <2> QED BY <2>1, <2>2
<1>13. recovery'.logs = recovery.logs \ {n} /\ recovery'.tables = recovery.tables \cup made
  BY <1>1
<1> HIDE <1>1
<1>14. Manifest' = Manifest /\ \A i : LogSet(disk', i) = LogSet(disk, i)
  BY <1>12 DEF Manifest, LogSet
<1>15. Replayed' = Replayed \cup {n}
  <2>1. LogsFrom(disk', logNumber') = LogsFrom(disk, logNumber) /\ n \in LogsFrom(disk, logNumber)
    BY <1>2, <1>3, <1>6, <1>12 DEF LogsFrom, Recovering
  <2> QED BY <1>6, <1>13, <2>1 DEF Replayed
<1>16. recovery.tables \subseteq DOMAIN disk.tables /\ next \notin recovery.tables
  <2>1. recovery.tables \subseteq DOMAIN disk.tables /\ \A t \in recovery.tables : t < next
    BY <1>3 DEF Recovering
  <2> QED BY <1>3, <2>1
<1>17. TableSet(disk', recovery'.tables) = TableSet(disk, recovery.tables) \cup c
  <2>1. TableSet(disk', recovery.tables) = TableSet(disk, recovery.tables)
    BY <1>12, <1>16, GrowsTables
  <2>2. TableSet(disk', made) = c
    <3>1. CASE c = {}
      BY <1>10, <3>1 DEF TableSet
    <3>2. CASE c # {}
      <4>1. made = {next} /\ next \in DOMAIN disk'.tables /\ disk'.tables[next] = c
        BY <1>10, <1>12, <3>2
      <4>2. \A e : e \in TableSet(disk', made) <=> e \in c
        BY <4>1, TableHas
      <4> QED BY <4>2
    <3> QED BY <3>1, <3>2
  <2> QED BY <1>13, <2>1, <2>2, TableUnion
<1>18. Recovering'
  <2>1. l0' = Manifest'.l0 /\ deep' = Manifest'.deep /\ logNumber' = Manifest'.log
    BY <1>2, <1>3, <1>14 DEF Recovering
  <2>2. recovery'.logs \subseteq LogsFrom(disk', logNumber')
    BY <1>2, <1>3, <1>12, <1>13 DEF Recovering, LogsFrom
  <2>3. recovery'.tables \subseteq DOMAIN disk'.tables
    BY <1>12, <1>13, <1>16
  <2>4. TableSet(disk', recovery'.tables) = UNION {LogSet(disk', i) : i \in Replayed'}
    <3>1. TableSet(disk, recovery.tables) = UNION {LogSet(disk, i) : i \in Replayed}
      BY <1>3 DEF Recovering
    <3>2. \A e : e \in TableSet(disk', recovery'.tables) <=> \E i \in Replayed' : e \in LogSet(disk', i)
      BY <1>8, <1>14, <1>15, <1>17, <3>1
    <3> QED BY <3>2
  <2>5. Manifest'.next < next' /\ Manifest'.last <= lastSeq'
    <3>1. Manifest.next < next /\ Manifest.last <= lastSeq /\ Manifest.next \in Nat /\ Manifest.last \in Nat
      BY <1>3, <1>4 DEF Recovering, VersionState
    <3> QED BY <1>3, <1>9, <1>10, <1>14, <3>1
  <2>6. \A t \in recovery'.tables : t < next'
    <3>1. \A t \in recovery.tables : t \in Nat /\ t < next
      BY <1>3, <1>16 DEF Recovering, DiskOK
    <3>2. \A t \in recovery.tables : t < next'
      BY <1>3, <1>10, <3>1
    <3> QED BY <1>10, <1>13, <3>2
  <2>7. \A i \in Replayed' : i < next'
    <3>1. \A i \in Replayed : i \in Nat /\ i < next
      BY <1>3 DEF Recovering, Replayed, LogsFrom, DiskOK
    <3> QED BY <1>3, <1>10, <1>15, <3>1
  <2>8. \A e \in TableSet(disk', recovery'.tables) : e.seq <= lastSeq'
    <3>1. \A e \in TableSet(disk, recovery.tables) : e.seq \in Nat /\ e.seq <= lastSeq
      <4>1. TableSet(disk, recovery.tables) \subseteq Entry
        BY <1>3, TableHas DEF DiskOK
      <4> QED BY <1>3, <4>1 DEF Recovering, Entry
    <3> QED BY <1>3, <1>9, <1>17, <3>1
  <2> QED BY <2>1, <2>2, <2>3, <2>4, <2>5, <2>6, <2>7, <2>8 DEF Recovering
<1>19. StartKeeps
  BY <1>2, <1>12 DEF StartKeeps
<1>20. \A m \in ToSet(disk.manifest) : Grows(disk, disk', TablesOf(m), {})
  BY <1>11, <1>12
<1>21. l0' \subseteq Nat /\ deep' \subseteq Nat /\ logNumber' \in Nat
  BY <1>2, <1>3
<1> QED BY <1>2, <1>3, <1>9, <1>10, <1>12, <1>18, <1>19, <1>20, <1>21, StartStep

\* All logs are replayed: everything is in tables.
LEMMA AllReplayed ==
  ASSUME IInv, up = "recovering", recovery.logs = {}
  PROVE  /\ DiskOK(disk) /\ Down /\ UsedOK /\ EntriesOK /\ ~ IsRunning
         /\ Manifest \in ToSet(disk.manifest) /\ Manifest \in VersionState
         /\ VersionOK(Manifest, disk, Visible, asked, kept)
         /\ next \in Nat /\ lastSeq \in Nat /\ l0 \in SUBSET Nat /\ deep \in SUBSET Nat
         /\ recovery.tables \in SUBSET Nat
         /\ \A n \in DOMAIN disk.logs : n < next
         /\ \A t \in l0 \cup deep \cup recovery.tables : t \in DOMAIN disk.tables /\ t < next
         /\ Visible = TableSet(disk, l0 \cup deep \cup recovery.tables)
         /\ \A e \in Visible : e \in Entry /\ e.seq <= lastSeq
         /\ kept \subseteq Ids(Visible)
         /\ \A m \in ToSet(disk.manifest) : m.next <= Manifest.next
         /\ Manifest.next < next
<1>1. DiskOK(disk) /\ Down /\ UsedOK /\ EntriesOK /\ ~ IsRunning /\ Recovering
  BY DEF IInv, IsRunning
<1>2. /\ Manifest \in ToSet(disk.manifest) /\ Manifest \in VersionState
      /\ \A m \in ToSet(disk.manifest) : m.next <= Manifest.next
  BY <1>1, LastVersion DEF Manifest
<1>3. VersionOK(Manifest, disk, Visible, asked, kept)
  BY <1>1, <1>2 DEF Down
<1>4. /\ next \in Nat /\ lastSeq \in Nat /\ l0 \in SUBSET Nat /\ deep \in SUBSET Nat
      /\ DOMAIN disk.tables \subseteq Nat /\ DOMAIN disk.logs \subseteq Nat
  BY <1>1 DEF Down, DiskOK
<1>5. /\ TablesOf(Manifest) = l0 \cup deep /\ Manifest.log = logNumber
      /\ Manifest.next < next /\ Manifest.last <= lastSeq
      /\ Manifest.next \in Nat /\ Manifest.last \in Nat /\ logNumber \in Nat
      /\ logNumber < Manifest.next
      /\ \A t \in l0 \cup deep : t \in DOMAIN disk.tables /\ t < Manifest.next
  <2>1. l0 = Manifest.l0 /\ deep = Manifest.deep /\ Manifest.log = logNumber
    BY <1>1 DEF Recovering
  <2>2. Manifest.next < next /\ Manifest.last <= lastSeq
    BY <1>1 DEF Recovering
  <2>3. Manifest.next \in Nat /\ Manifest.last \in Nat /\ Manifest.log \in Nat
    BY <1>2 DEF VersionState
  <2>4. TablesOf(Manifest) = l0 \cup deep
    BY <2>1 DEF TablesOf
  <2> QED BY <1>3, <2>1, <2>2, <2>3, <2>4 DEF VersionOK
<1>6. /\ recovery.tables \subseteq DOMAIN disk.tables /\ \A t \in recovery.tables : t < next
      /\ TableSet(disk, recovery.tables) = UNION {LogSet(disk, n) : n \in Replayed}
      /\ \A n \in Replayed : n < next
      /\ \A e \in TableSet(disk, recovery.tables) : e.seq <= lastSeq
  BY <1>1 DEF Recovering
<1>7. Replayed = LogsFrom(disk, logNumber)
  BY DEF Replayed
<1>8. ASSUME NEW n \in DOMAIN disk.logs PROVE n < next
  <2>1. CASE n >= logNumber
    BY <1>6, <1>7, <2>1 DEF LogsFrom
  <2>2. CASE ~ (n >= logNumber)
    BY <1>4, <1>5, <2>2
  <2> QED BY <2>1, <2>2
<1>9. ASSUME NEW t \in l0 \cup deep \cup recovery.tables
      PROVE  t \in DOMAIN disk.tables /\ t < next
  <2>1. CASE t \in l0 \cup deep
    BY <1>4, <1>5, <2>1
  <2>2. CASE t \in recovery.tables
    BY <1>6, <2>2
  <2> QED BY <2>1, <2>2
<1>10. Visible = TableSet(disk, l0 \cup deep \cup recovery.tables)
  <2>1. Visible = Content(disk, Manifest)
    BY <1>1, SeenWhenDown
  <2>2. Content(disk, Manifest) = TableSet(disk, l0 \cup deep) \cup TableSet(disk, recovery.tables)
    BY <1>5, <1>6, <1>7 DEF Content
  <2> QED BY <2>1, <2>2, TableUnion
<1>11. ASSUME NEW e \in Visible PROVE e \in Entry /\ e.seq <= lastSeq
  <2>1. e \in Entry
    <3>1. \A t \in DOMAIN disk.tables : disk.tables[t] \subseteq Entry
      BY <1>1 DEF DiskOK
    <3> QED BY <1>10, <3>1, TableHas
  <2>2. CASE e \in TableSet(disk, l0 \cup deep)
    <3>1. e.seq <= Manifest.last
      BY <1>3, <1>5, <2>2 DEF VersionOK
    <3> QED BY <1>4, <1>5, <2>1, <3>1 DEF Entry
  <2>3. CASE e \in TableSet(disk, recovery.tables)
    BY <1>6, <2>1, <2>3
  <2> QED BY <1>10, <2>1, <2>2, <2>3, TableUnion
<1>12. kept \subseteq Ids(Visible)
  <2>1. kept \subseteq Ids(Secured(disk, Manifest))
    BY <1>3 DEF VersionOK
  <2>2. Secured(disk, Manifest) \subseteq Content(disk, Manifest)
    BY <1>1, ContentHas, SyncedIsLogged
  <2>3. Visible = Content(disk, Manifest)
    BY <1>1, SeenWhenDown
  <2> QED BY <2>1, <2>2, <2>3, IdsMonotone
<1>13. recovery.tables \in SUBSET Nat
  BY <1>4, <1>6
<1> QED BY <1>1, <1>2, <1>3, <1>4, <1>5, <1>8, <1>9, <1>10, <1>11, <1>12, <1>13

\* What the opened database has on disk.
IsOpened(q, d, m, n) ==
  /\ DiskOK(q) /\ q.manifest = <<m>> /\ ToSet(q.manifest) = {m} /\ Last(q.manifest) = m
  /\ DOMAIN q.logs = {n} /\ LogSet(q, n) = {}
  /\ DOMAIN q.tables = TablesOf(m) /\ \A t \in TablesOf(m) : q.tables[t] = d.tables[t]

LEMMA FilesWhenOpened ==
  ASSUME NEW d, DiskOK(d), NEW n \in Nat, \A k \in DOMAIN d.logs : k < n, NEW c, LogIsBegun(d, c, n),
         NEW m \in VersionState, TablesOf(m) \subseteq DOMAIN d.tables, ~ bgError,
         NEW L, L = TablesOf(m), NEW q, q = DeleteObsoleteFiles([c EXCEPT !.manifest = <<m>>], L, n)
  PROVE  IsOpened(q, d, m, n)
<1>1. n \notin DOMAIN d.logs
  OBVIOUS
<1>2. OneMoreLog(d, c, n)
  BY <1>1, LogMade
<1>3. PICK s : s = <<m>>
  OBVIOUS
<1>4. s \in Seq(VersionState) /\ s # <<>> /\ Len(s) = 1 /\ s[1] = m /\ DOMAIN s = {1}
  BY <1>3
<1>5. Last(s) = m /\ ToSet(s) = {m}
  BY <1>4 DEF Last, ToSet
<1>6. \A i \in 1 .. Len(s) : s[i].next <= Last(s).next
  BY <1>4, <1>5 DEF VersionState
<1>7. PICK b : b = [c EXCEPT !.manifest = s]
  OBVIOUS
<1>8. DiskOK(b) /\ b.logs = c.logs /\ b.tables = c.tables /\ b.manifest = s
  <2>1. DiskOK(c)
    BY <1>2 DEF OneMoreLog
  <2> QED BY <1>4, <1>6, <1>7, <2>1, ManifestSays
<1>9. q = DeleteObsoleteFiles(b, L, n)
  BY <1>3, <1>7
<1>10. DiskOK(q) /\ q.manifest = s
  BY <1>8, <1>9, ObsoleteAreDeleted
<1>11. /\ q.tables = Restrict(b.tables, DOMAIN b.tables \cap L)
       /\ q.logs = Restrict(b.logs, {i \in DOMAIN b.logs : i >= n})
  <2>1. q = [b EXCEPT !.tables = Restrict(@, DOMAIN @ \cap L),
                      !.logs = Restrict(@, {i \in DOMAIN @ : i >= n})]
    BY <1>9 DEF DeleteObsoleteFiles
  <2> QED BY <1>8, <2>1 DEF DiskOK
<1>12. b.tables = d.tables /\ DOMAIN b.logs = DOMAIN d.logs \cup {n} /\ DOMAIN d.logs \subseteq Nat
       /\ LogSet(c, n) = {}
  BY <1>2, <1>8 DEF OneMoreLog, DiskOK
<1>13. DOMAIN q.tables = TablesOf(m) /\ \A t \in TablesOf(m) : q.tables[t] = d.tables[t]
  BY <1>11, <1>12 DEF Restrict
<1>14. DOMAIN q.logs = {n} /\ q.logs[n] = b.logs[n]
  <2>1. {i \in DOMAIN b.logs : i >= n} = {n}
    BY <1>12
  <2> QED BY <1>11, <2>1 DEF Restrict
<1>15. LogSet(q, n) = {}
  BY <1>8, <1>12, <1>14 DEF LogSet
<1> QED BY <1>3, <1>5, <1>10, <1>13, <1>14, <1>15 DEF IsOpened

\* What opening the database does to the writes.
Settles == asked' = {} /\ Visible' = Visible /\ kept' = kept

LEMMA OpenStep ==
  ASSUME IInv, Open
  PROVE  IInv' /\ Settles
<1> DEFINE T == l0 \cup deep \cup recovery.tables
<1>1. /\ up = "recovering" /\ recovery.logs = {} /\ up' = "open"
      /\ logfile' = next /\ logNumber' = next /\ next' = next + 1
      /\ l0' = l0 \cup recovery.tables /\ recovery' = None
      /\ disk' = DeleteObsoleteFiles(
                   [WithNewLog EXCEPT
                      !.manifest = <<[l0 |-> l0', deep |-> deep, log |-> next, next |-> next',
                                      last |-> lastSeq]>>],
                   Live({}, l0' \cup deep', {}), next)
      /\ scheduled' = NeedsCompaction(l0') /\ asked' = {}
      /\ UNCHANGED <<writers, call, asleep, awaiting, group, kept>>
      /\ UNCHANGED <<mem, imm, deep, lastSeq>>
      /\ UNCHANGED <<pending, bgError, flush, compaction, edit, pinned, instance, used>>
  BY DEF Open
<1>2. /\ DiskOK(disk) /\ Down /\ UsedOK /\ EntriesOK /\ ~ IsRunning
      /\ next \in Nat /\ lastSeq \in Nat /\ l0 \in SUBSET Nat /\ deep \in SUBSET Nat
      /\ recovery.tables \in SUBSET Nat
      /\ \A n \in DOMAIN disk.logs : n < next
      /\ \A t \in T : t \in DOMAIN disk.tables /\ t < next
      /\ Visible = TableSet(disk, T)
      /\ \A e \in Visible : e \in Entry /\ e.seq <= lastSeq
      /\ kept \subseteq Ids(Visible)
  BY <1>1, AllReplayed
<1>3. /\ writers = <<>> /\ call = [w \in Thread |-> None]
      /\ asleep = {} /\ awaiting = {} /\ group = None /\ mem = {} /\ imm = {}
      /\ pending = {} /\ bgError = FALSE
      /\ flush = None /\ compaction = None /\ edit = None
      /\ pinned = [r \in Reader |-> None]
  BY <1>2 DEF Down, Quiet
<1>4. PICK m : m = [l0 |-> l0 \cup recovery.tables, deep |-> deep, log |-> next, next |-> next + 1,
                    last |-> lastSeq]
  OBVIOUS
<1>5. /\ m \in VersionState /\ TablesOf(m) = T /\ m.log = next /\ m.next = next + 1 /\ m.last = lastSeq
  <2>1. m.l0 = l0 \cup recovery.tables /\ m.deep = deep /\ m.log = next /\ m.next = next + 1
        /\ m.last = lastSeq
    BY <1>4
  <2>2. m \in VersionState
    <3>1. l0 \cup recovery.tables \in SUBSET Nat /\ deep \in SUBSET Nat /\ next + 1 \in Nat
          /\ next \in Nat /\ lastSeq \in Nat
      <4>1. l0 \in SUBSET Nat /\ deep \in SUBSET Nat /\ recovery.tables \in SUBSET Nat
            /\ next \in Nat /\ lastSeq \in Nat
        BY <1>2
      <4>2. l0 \cup recovery.tables \in SUBSET Nat
        BY <4>1
      <4> QED BY <4>1, <4>2
    <3> QED BY <1>4, <3>1 DEF VersionState
  <2>3. TablesOf(m) = T
    BY <2>1 DEF TablesOf
  <2> QED BY <2>1, <2>2, <2>3
<1>6. Current' = m
  BY <1>1, <1>4 DEF Current
<1>7. IsOpened(disk', disk, m, next)
  <2>1. PICK c : c = WithNewLog
    OBVIOUS
  <2>2. LogIsBegun(disk, c, next)
    BY <2>1 DEF WithNewLog, LogIsBegun
  <2>3. PICK L : L = Live({}, l0' \cup deep', {})
    OBVIOUS
  <2>4. L = TablesOf(m)
    <3>1. {r \in Reader : pinned[r] # None} = {}
      BY <1>3
    <3>2. UNION {pinned[r] : r \in {r \in Reader : pinned[r] # None}} = {}
      BY <3>1
    <3>3. L = {} \cup (l0' \cup deep') \cup {} \cup {}
      BY <2>3, <3>2 DEF Live
    <3> QED BY <1>1, <1>5, <3>3
  <2>5. disk' = DeleteObsoleteFiles([c EXCEPT !.manifest = <<m>>], L, next)
    BY <1>1, <1>4, <2>1, <2>3
  <2>6. TablesOf(m) \subseteq DOMAIN disk.tables
    BY <1>2, <1>5
  <2>7. PICK q : q = disk'
    OBVIOUS
  <2> HIDE <1>1
  <2>8. IsOpened(q, disk, m, next)
    BY <1>2, <1>3, <1>5, <2>2, <2>4, <2>5, <2>6, <2>7, FilesWhenOpened
  <2> QED BY <2>7, <2>8
<1>8. /\ DiskOK(disk') /\ ToSet(disk'.manifest) = {m} /\ Manifest' = m
      /\ DOMAIN disk'.logs = {next} /\ LogSet(disk', next) = {}
      /\ DOMAIN disk'.tables = T /\ \A t \in T : disk'.tables[t] = disk.tables[t]
  BY <1>5, <1>7 DEF IsOpened, Manifest
<1>9. TableSet(disk', T) = Visible
  <2>1. \A e : e \in TableSet(disk', T) <=> e \in TableSet(disk, T)
    BY <1>2, <1>8, TableHas
  <2> QED BY <1>2, <2>1
<1>10. /\ IsRunning' /\ ImmEntries' = {} /\ Flying' = {} /\ mem' = {} /\ l0' \cup deep' = T
  BY <1>1, <1>3 DEF IsRunning, ImmEntries, Flying
<1> HIDE DEF T
<1>11. Visible' = Visible
  <2>1. Found' = Visible
    BY <1>9, <1>10 DEF Found
  <2>2. Visible' = {e \in Visible : e.seq <= lastSeq'}
    BY <1>10, <2>1, SeenWhenRunningNext
  <2> QED BY <1>1, <1>2, <2>2
<1>12. Content(disk', m) = Visible /\ TableSet(disk', TablesOf(m)) = Visible
       /\ Visible \subseteq Secured(disk', m)
  <2>1. \A n \in DOMAIN disk'.logs : LogSet(disk', n) = {}
    BY <1>8
  <2>2. \A e : e \in Content(disk', m) <=> e \in Visible
    BY <1>5, <1>9, <2>1, ContentHas
  <2> QED BY <1>5, <1>9, <2>2, ContentHas
<1>13. VersionOK(m, disk', Visible, {}, kept)
  <2>1. m.log < m.next
    BY <1>2, <1>5
  <2>2. \A t \in TablesOf(m) : t \in DOMAIN disk'.tables /\ t < m.next
    <3>1. \A t \in T : t \in Nat /\ t < next
      BY <1>2, <1>8 DEF DiskOK
    <3> QED BY <1>2, <1>5, <1>8, <3>1
  <2>3. \A e \in TableSet(disk', TablesOf(m)) : e.seq <= m.last
    BY <1>2, <1>5, <1>12
  <2>4. kept \subseteq Ids(Secured(disk', m))
    BY <1>2, <1>12, IdsMonotone
  <2> QED BY <1>5, <1>12, <2>1, <2>2, <2>3, <2>4 DEF VersionOK
<1>14. UpToDate(m, disk', Visible, next, next + 1, lastSeq)
  BY <1>2, <1>5, <1>12 DEF UpToDate
<1>15. Versions' = {m}
  BY <1>1, <1>3, <1>6, <1>8 DEF Versions
<1>16. QueueOK'
  <2>1. /\ writers' \in Seq(Thread) /\ Len(writers') = 0 /\ \A i \in 1 .. Len(writers') : FALSE
    BY <1>1, <1>3
  <2>2. \A w \in Thread : call'[w] = None
    BY <1>1, <1>3
  <2>3. call' \in [Thread -> MaybeOneOf(CallRecord)]
    BY <1>1, <1>3 DEF MaybeOneOf
  <2>4. asleep' \subseteq ToSet(writers') /\ awaiting' \subseteq Thread
    BY <1>1, <1>3
  <2> HIDE <1>1, <1>3
  <2> QED BY <2>1, <2>2, <2>3, <2>4 DEF QueueOK
<1>17. UsedOK' /\ used'["writes"] = used["writes"]
  BY <1>1, <1>2 DEF UsedOK
<1>18. EntriesOK'
  <2>1. Files(disk') \subseteq Files(disk)
    <3>1. ASSUME NEW e \in Files(disk') PROVE e \in Visible
      <4>1. \A n \in DOMAIN disk'.logs : e \notin LogSet(disk', n)
        BY <1>8
      <4> QED BY <1>8, <1>9, <3>1, <4>1, FilesHas
    <3>2. Visible \subseteq Files(disk)
      <4>1. T \subseteq DOMAIN disk.tables
        BY <1>2
      <4> QED BY <1>2, <4>1, TableMonotone, FilesHas
    <3> QED BY <3>1, <3>2
  <2>2. Everything' \subseteq Everything
    BY <1>10, <2>1 DEF Everything
  <2> QED BY <1>1, <1>2, <1>17, <2>2, EntriesSame
<1>19. GroupOK'
  BY <1>1, <1>3 DEF GroupOK
<1>20. MemoryOK'
  <2>1. mem' \subseteq Entry /\ imm' \subseteq SUBSET Entry
    BY <1>1, <1>3
  <2>2. /\ lastSeq' \in Nat /\ logfile' \in DOMAIN disk'.logs /\ logNumber' \in Nat /\ next' \in Nat
        /\ logfile' < next' /\ l0' \subseteq Nat /\ deep' \subseteq Nat
        /\ \A n \in DOMAIN disk'.logs : n <= logfile'
    <3>1. logfile' = next /\ logNumber' = next /\ next' = next + 1 /\ lastSeq' = lastSeq
          /\ l0' = l0 \cup recovery.tables /\ deep' = deep
      BY <1>1
    <3> HIDE <1>1
    <3>2. l0' \subseteq Nat /\ deep' \subseteq Nat
      BY <1>2, <3>1
    <3>3. next \in DOMAIN disk'.logs /\ \A n \in DOMAIN disk'.logs : n = next
      BY <1>8
    <3> QED BY <1>2, <3>1, <3>2, <3>3
  <2>3. \A t \in DOMAIN disk'.tables : t < next'
    <3>1. \A t \in T : t \in Nat /\ t < next
      BY <1>2, <1>8 DEF DiskOK
    <3> QED BY <1>1, <1>2, <1>8, <3>1
  <2>4. \A e \in ImmEntries' \cup TableSet(disk', DOMAIN disk'.tables) : e.seq <= lastSeq'
    BY <1>1, <1>2, <1>8, <1>9, <1>10
  <2>5. \A n \in DOMAIN disk'.logs : \A e \in LogSet(disk', n) : FALSE
    BY <1>8
  <2>6. kept' \subseteq Ids(ImmEntries' \cup TableSet(disk', l0' \cup deep')
                            \cup (mem' \cap SyncedSet(disk', logfile')))
    BY <1>1, <1>2, <1>9, <1>10
  <2> QED BY <1>10, <2>1, <2>2, <2>3, <2>4, <2>5, <2>6 DEF MemoryOK
<1>21. EditOK' /\ FlushOK' /\ CompactionOK'
  BY <1>1, <1>3 DEF EditOK, FlushOK, CompactionOK
<1>22. WorkOK'
  <2>1. CurrentTables' = T
    BY <1>1, <1>3, <1>10 DEF CurrentTables, IsSyncing
  <2>2. TablesOf(Manifest') = T
    BY <1>5, <1>8
  <2>3. pinned' \in [Reader -> MaybeOneOf(SUBSET DOMAIN disk'.tables)]
    BY <1>1, <1>3 DEF MaybeOneOf
  <2>4. pending' \subseteq Nat /\ {bgError', scheduled'} \subseteq BOOLEAN
    <3>1. pending' = {} /\ bgError' = FALSE
      BY <1>1, <1>3
    <3>2. scheduled' \in BOOLEAN
      <4>1. scheduled' = (Cardinality(l0') >= Trigger)
        BY <1>1 DEF NeedsCompaction
      <4> QED BY <4>1
    <3> QED BY <3>1, <3>2
  <2> QED BY <2>1, <2>2, <2>3, <2>4 DEF WorkOK
<1>23. Running'
  <2>1. \A v \in Versions' : UpToDate(v, disk', Visible', logfile', next', lastSeq')
    BY <1>1, <1>11, <1>14, <1>15
  <2>2. \A v \in Versions' : VersionOK(v, disk', Visible', asked', kept')
    BY <1>1, <1>11, <1>13, <1>15
  <2> QED BY <1>1, <1>20, <1>21, <1>22, <2>1, <2>2 DEF Running
<1>24. IInv'
  BY <1>1, <1>8, <1>10, <1>16, <1>17, <1>18, <1>19, <1>23 DEF IInv
<1> QED BY <1>1, <1>11, <1>24 DEF Settles

LEMMA OpenFailsStep ==
  ASSUME IInv, OpenFails
  PROVE  IInv' /\ Stutters
<1>1. /\ up = "recovering" /\ recovery.logs = {} /\ Fault /\ up' = "down" /\ Gone /\ disk' = WithNewLog
  BY DEF OpenFails
<1>2. /\ DiskOK(disk) /\ Down /\ UsedOK /\ EntriesOK /\ ~ IsRunning
      /\ next \in Nat /\ Manifest \in ToSet(disk.manifest)
      /\ \A n \in DOMAIN disk.logs : n < next
      /\ VersionOK(Manifest, disk, Visible, asked, kept)
  BY <1>1, AllReplayed
<1>3. next \notin DOMAIN disk.logs
  BY <1>2
<1>4. OneMoreLog(disk, disk', next)
  <2>1. PICK q : q = disk'
    OBVIOUS
  <2>2. LogIsBegun(disk, q, next)
    BY <1>1, <2>1 DEF WithNewLog, LogIsBegun
  <2>3. OneMoreLog(disk, q, next)
    BY <1>2, <1>3, <2>2, LogMade
  <2> QED BY <2>1, <2>3
<1>5. /\ DiskOK(disk') /\ disk'.manifest = disk.manifest /\ Files(disk') \subseteq Files(disk)
      /\ \A T : Grows(disk, disk', T, {})
  BY <1>4 DEF OneMoreLog
<1>6. ASSUME NEW m \in ToSet(disk.manifest)
      PROVE  VersionOK(m, disk', Visible, asked, kept) /\ Content(disk', m) = Content(disk, m)
  <2>1. VersionOK(m, disk, Visible, asked, kept)
    BY <1>2 DEF Down
  <2>2. Grows(disk, disk', TablesOf(m), {})
    BY <1>5
  <2>3. Content(disk, m) \subseteq Content(disk', m) /\ VersionOK(m, disk', Visible, asked, kept)
    BY <2>1, <2>2, ContentGrows
  <2>4. TablesOf(m) \subseteq DOMAIN disk.tables
    BY <2>1 DEF VersionOK
  <2>5. Content(disk', m) \subseteq Content(disk, m) \cup {}
    BY <2>2, <2>4, GrowsHas
  <2> QED BY <2>3, <2>5
<1>7. Visible' = Visible
  <2>1. ~ IsRunning' /\ Manifest' = Manifest
    BY <1>1, <1>5 DEF IsRunning, Manifest
  <2>2. Visible' = Content(disk', Manifest)
    BY <2>1, SeenWhenDownNext
  <2> QED BY <1>2, <1>6, <2>2, SeenWhenDown
<1>8. UsesNoWrite
  BY <1>1 DEF UsesNoWrite, Fault
<1>9. \A m \in ToSet(disk'.manifest) : VersionOK(m, disk', Visible', asked, kept)
  BY <1>5, <1>6, <1>7
<1>10. IInv' /\ UNCHANGED <<asked, kept>>
  BY <1>1, <1>5, <1>8, <1>9, GoneStep
<1> QED BY <1>7, <1>10 DEF Stutters

-----------------------------------------------------------------------------
(* The tables in use.                                                      *)

TablesAreThere == TablesInUse \subseteq DOMAIN disk.tables

KeepsTables == \A t \in TablesInUse : t \in DOMAIN disk'.tables => disk'.tables[t] = disk.tables[t]

LEMMA InUseAreThere ==
  ASSUME IInv
  PROVE  TablesAreThere
<1>1. DiskOK(disk)
  BY DEF IInv
<1>2. Manifest.l0 \cup Manifest.deep \subseteq DOMAIN disk.tables
  <2>1. VersionOK(Manifest, disk, Visible, asked, kept)
    BY <1>1, LastVersion, ManifestIsSound DEF Manifest
  <2> QED BY <2>1 DEF VersionOK, TablesOf
<1>3. l0 \cup deep \subseteq DOMAIN disk.tables
  <2>1. CASE IsRunning
    BY <2>1, WhenRunning
  <2>2. CASE up = "down"
    BY <2>2 DEF IInv, IsRunning, Down
  <2>3. CASE up = "recovering"
    BY <1>2, <2>3 DEF IInv, Recovering
  <2> QED BY <2>1, <2>2, <2>3 DEF IInv, IsRunning
<1>4. /\ \A r \in Reader : pinned[r] # None => pinned[r] \subseteq DOMAIN disk.tables
      /\ compaction # None => /\ compaction.base \subseteq DOMAIN disk.tables
                              /\ compaction.output # 0 => compaction.output \in DOMAIN disk.tables
  <2>1. CASE IsRunning
    <3>1. WorkOK /\ CompactionOK
      BY <2>1, WhenRunning
    <3> QED BY <3>1 DEF WorkOK, CompactionOK, MaybeOneOf
  <2>2. CASE ~ IsRunning
    BY <2>2 DEF IInv, Down, Quiet
  <2> QED BY <2>1, <2>2
<1> QED BY <1>2, <1>3, <1>4 DEF TablesAreThere, TablesInUse

LEMMA KeptWhenSame ==
  ASSUME disk'.tables = disk.tables
  PROVE  KeepsTables
BY DEF KeepsTables

LEMMA ClientKeepsTables ==
  ASSUME IInv, NEW w \in Thread,
         (\E sync \in BOOLEAN : Write(w, sync)) \/ CompactMemTable(w) \/ Lead(w)
  PROVE  KeepsTables
<1>1. DiskOK(disk)
  BY DEF IInv
<1>2. CASE \E sync \in BOOLEAN : Write(w, sync)
  BY <1>2, KeptWhenSame DEF Write, Join
<1>3. CASE CompactMemTable(w)
  BY <1>3, KeptWhenSame DEF CompactMemTable, Join
<1>4. CASE YieldError(w) \/ AwaitRoom(w) \/ SwitchFails(w) \/ NothingToWrite(w)
  <2>1. disk' = disk
    BY <1>4 DEF YieldError, AwaitRoom, SwitchFails, NothingToWrite
  <2> QED BY <2>1, KeptWhenSame
<1>5. CASE BeginGroup(w)
  <2>1. disk' = disk
    BY <1>5, Zenon DEF BeginGroup
  <2> QED BY <2>1, KeptWhenSame
<1>6. CASE SwitchMemTable(w)
  <2>1. disk' = [disk EXCEPT !.logs = With(@, next, NewLog)]
    BY <1>6 DEF SwitchMemTable
  <2> QED BY <1>1, <2>1, KeptWhenSame DEF DiskOK
<1>7. CASE AwaitImm(w) \/ MemTableIsCompacted(w)
  <2>1. disk' = disk
    BY <1>7 DEF AwaitImm, MemTableIsCompacted
  <2> QED BY <2>1, KeptWhenSame
<1> QED BY <1>2, <1>3, <1>4, <1>5, <1>6, <1>7 DEF Lead

LEMMA LogKeepsTables ==
  ASSUME IInv, Log
  PROVE  KeepsTables
<1>1. DiskOK(disk)
  BY DEF IInv
<1>2. CASE AddRecord \/ AddRecordFails
  <2>1. disk' \in {disk, AppendRecord}
    BY <1>2 DEF AddRecord, AddRecordFails
  <2>2. AppendRecord.tables = disk.tables
    BY <1>1 DEF AppendRecord, DiskOK
  <2> QED BY <2>1, <2>2, KeptWhenSame
<1>3. CASE SyncLog
  <2>1. disk' = [disk EXCEPT !.logs[logfile].synced = Len(disk.logs[logfile].records)]
    BY <1>3 DEF SyncLog
  <2> QED BY <1>1, <2>1, KeptWhenSame DEF DiskOK
<1>4. CASE SyncFails \/ InsertInto \/ EndGroup
  <2>1. disk' = disk
    BY <1>4 DEF SyncFails, InsertInto, EndGroup
  <2> QED BY <2>1, KeptWhenSame
<1> QED BY <1>2, <1>3, <1>4 DEF Log

\* A table that is written has a number no table has.
LEMMA BuildingKeepsTables ==
  ASSUME IInv, IsBuilding, disk' = WithTable
  PROVE  KeepsTables
<1>1. IsRunning /\ edit = None
  BY AtWork DEF IsBuilding
<1>2. flush \in Nat /\ flush \notin DOMAIN disk.tables /\ DiskOK(disk)
  BY <1>1, WhenRunning DEF IsBuilding, FlushOK
<1>3. TablesAreThere
  BY InUseAreThere
<1>4. CASE UNION imm = {}
  BY <1>4, KeptWhenSame DEF WithTable
<1>5. CASE UNION imm # {}
  <2>1. disk' = [disk EXCEPT !.tables = With(@, flush, UNION imm)]
    BY <1>5 DEF WithTable
  <2>2. disk'.tables = With(disk.tables, flush, UNION imm)
    BY <1>2, <2>1 DEF DiskOK
  <2> QED BY <1>2, <1>3, <2>2 DEF With, KeepsTables, TablesAreThere
<1> QED BY <1>4, <1>5

LEMMA BackgroundKeepsTables ==
  ASSUME IInv, Background
  PROVE  KeepsTables
<1>1. DiskOK(disk) /\ TablesAreThere
  BY InUseAreThere DEF IInv
<1>2. CASE NothingToDo \/ StartFlush \/ StartCompaction \/ MoveTable \/ MergeStops \/ InstallResults
           \/ ApplyFails
  <2>1. disk' = disk
    BY <1>2 DEF NothingToDo, StartFlush, StartCompaction, MoveTable, MergeStops, InstallResults, ApplyFails
  <2> QED BY <2>1, KeptWhenSame
<1>3. CASE BuildTable \/ BuildTableInVain
  <2>1. IsBuilding /\ disk' = WithTable
    BY <1>3 DEF BuildTable, BuildTableInVain
  <2> QED BY <2>1, BuildingKeepsTables
<1>4. CASE BuildTableFails
  <2>1. disk' = [disk EXCEPT !.tables = Restrict(@, DOMAIN @ \ {flush})]
    BY <1>4 DEF BuildTableFails
  <2>2. disk'.tables = Restrict(disk.tables, DOMAIN disk.tables \ {flush})
    BY <1>1, <2>1 DEF DiskOK
  <2> QED BY <2>2 DEF Restrict, KeepsTables
<1>5. CASE WriteOutput
  <2>1. disk' = [disk EXCEPT !.tables = With(@, next, Stored(compaction.inputs))]
        /\ compaction # None
    BY <1>5 DEF WriteOutput, IsMerging
  <2>2. next \notin DOMAIN disk.tables
    BY <2>1, AtWork, WhenRunning
  <2>3. disk'.tables = With(disk.tables, next, Stored(compaction.inputs))
    BY <1>1, <2>1 DEF DiskOK
  <2> QED BY <1>1, <2>2, <2>3 DEF With, KeepsTables, TablesAreThere
<1>6. CASE AppendEdit
  <2>1. disk' = [disk EXCEPT !.manifest = Append(@, Apply(Manifest, edit))]
    BY <1>6 DEF AppendEdit
  <2> QED BY <1>1, <2>1, KeptWhenSame DEF DiskOK
<1>7. CASE FlushIsInstalled \/ CompactionIsInstalled
  <2>1. \/ disk' = SyncedManifest
        \/ \E L : disk' = DeleteObsoleteFiles(SyncedManifest, L, logNumber')
    BY <1>7 DEF FlushIsInstalled, CompactionIsInstalled
  <2>2. IsRunning /\ edit # None /\ logNumber' = edit.log
    BY <1>7, AtWork DEF FlushIsInstalled, CompactionIsInstalled, IsApplying, Installed
  <2>3. logNumber' \in Nat
    BY <2>2, WhenRunning DEF EditOK, EditRecord
  <2>4. DiskOK(SyncedManifest) /\ SyncedManifest.tables = disk.tables
    BY <1>1, ManifestIsShort
  <2>5. CASE \E L : disk' = DeleteObsoleteFiles(SyncedManifest, L, logNumber')
    <3>1. PICK L : disk' = DeleteObsoleteFiles(SyncedManifest, L, logNumber')
      BY <2>5
    <3>2. PICK b, n, q : b = SyncedManifest /\ n = logNumber' /\ q = disk'
      OBVIOUS
    <3>3. DiskOK(b) /\ q = DeleteObsoleteFiles(b, L, n) /\ n \in Nat
      BY <2>3, <2>4, <3>1, <3>2
    <3>4. Leaves(b, q, IF bgError THEN DOMAIN b.tables ELSE L, n)
      BY <3>3, ObsoleteAreDeleted
    <3> QED BY <2>4, <3>2, <3>4 DEF Leaves, KeepsTables
  <2>6. CASE disk' = SyncedManifest
    BY <2>4, <2>6, KeptWhenSame
  <2> QED BY <2>1, <2>5, <2>6
<1> QED BY <1>2, <1>3, <1>4, <1>5, <1>6, <1>7 DEF Background

LEMMA StartKeepsTables ==
  ASSUME IInv, Start
  PROVE  KeepsTables
<1>1. DiskOK(disk) /\ TablesAreThere
  BY InUseAreThere DEF IInv
<1>2. CASE Recover
  BY <1>2, KeptWhenSame DEF Recover
<1>3. CASE RecoverLogFile
  <2>1. /\ up = "recovering"
        /\ \/ disk' = disk
           \/ disk' = [disk EXCEPT !.tables = With(@, next, Logged(Min(recovery.logs)))]
    BY <1>3, Zenon DEF RecoverLogFile
  <2>2. Down /\ Recovering
    BY <2>1 DEF IInv, IsRunning
  <2>3. Manifest \in VersionState /\ VersionOK(Manifest, disk, Visible, asked, kept)
    BY <1>1, LastVersion, ManifestIsSound DEF Manifest
  <2>4. TablesInUse = Manifest.l0 \cup Manifest.deep
    <3>1. l0 = Manifest.l0 /\ deep = Manifest.deep
      BY <2>2 DEF Recovering
    <3>2. compaction = None /\ {r \in Reader : pinned[r] # None} = {}
      BY <2>2 DEF Down, Quiet
    <3>3. UNION {pinned[r] : r \in {r \in Reader : pinned[r] # None}} = {}
      BY <3>2
    <3> QED BY <3>1, <3>2, <3>3 DEF TablesInUse
  <2>5. next \notin TablesInUse
    <3>1. \A t \in TablesInUse : t \in Nat /\ t < Manifest.next
      BY <2>3, <2>4 DEF VersionOK, TablesOf, VersionState
    <3>2. Manifest.next \in Nat /\ next \in Nat /\ Manifest.next < next
      BY <2>2, <2>3 DEF Recovering, Down, VersionState
    <3> QED BY <3>1, <3>2
  <2>6. CASE disk' = disk
    BY <2>6, KeptWhenSame
  <2>7. CASE disk' = [disk EXCEPT !.tables = With(@, next, Logged(Min(recovery.logs)))]
    <3>1. disk'.tables = With(disk.tables, next, Logged(Min(recovery.logs)))
      BY <1>1, <2>7 DEF DiskOK
    <3> QED BY <1>1, <2>5, <3>1 DEF With, KeepsTables, TablesAreThere
  <2> QED BY <2>1, <2>6, <2>7
<1>4. CASE Open
  <2>1. up = "recovering" /\ \E m, L : disk' = DeleteObsoleteFiles([WithNewLog EXCEPT !.manifest = <<m>>], L, next)
    BY <1>4 DEF Open
  <2>2. bgError = FALSE
    BY <2>1 DEF IInv, IsRunning, Down, Quiet
  <2>3. PICK m, L : disk' = DeleteObsoleteFiles([WithNewLog EXCEPT !.manifest = <<m>>], L, next)
    BY <2>1
  <2>4. PICK b : b = [WithNewLog EXCEPT !.manifest = <<m>>]
    OBVIOUS
  <2>5. b.tables = disk.tables /\ DOMAIN b = {"logs", "tables", "manifest"}
    BY <1>1, <2>4 DEF WithNewLog, DiskOK
  <2>6. disk'.tables = Restrict(b.tables, DOMAIN b.tables \cap L)
    BY <2>2, <2>3, <2>4, <2>5 DEF DeleteObsoleteFiles
  <2> QED BY <2>5, <2>6 DEF Restrict, KeepsTables
<1>5. CASE OpenFails
  <2>1. disk' = WithNewLog
    BY <1>5 DEF OpenFails
  <2> QED BY <1>1, <2>1, KeptWhenSame DEF WithNewLog, DiskOK
<1> QED BY <1>2, <1>3, <1>4, <1>5 DEF Start

LEMMA EndKeepsTables ==
  ASSUME IInv, Close \/ Closed \/ ProcessCrash \/ MachineCrash
  PROVE  KeepsTables
<1>1. DiskOK(disk)
  BY DEF IInv
<1>2. CASE Close \/ Closed \/ ProcessCrash
  <2>1. disk' = disk
    BY <1>2 DEF Close, Closed, ProcessCrash
  <2> QED BY <2>1, KeptWhenSame
<1>3. CASE MachineCrash
  <2>1. PICK f, m : disk' = [disk EXCEPT !.logs = f, !.manifest = <<m>>]
    BY <1>3, Zenon DEF MachineCrash
  <2> QED BY <1>1, <2>1, KeptWhenSame DEF DiskOK
<1> QED BY <1>2, <1>3

-----------------------------------------------------------------------------
(* The specification.                                                      *)

LEMMA InitIsSound ==
  ASSUME Init
  PROVE  IInv /\ Visible = {} /\ asked = {} /\ kept = {}
<1>1. /\ up = "open" /\ writers = <<>> /\ call = [w \in Thread |-> None]
      /\ asleep = {} /\ awaiting = {} /\ group = None
      /\ mem = {} /\ imm = {} /\ l0 = {} /\ deep = {}
      /\ logNumber = 3 /\ logfile = 3 /\ next = 4 /\ lastSeq = 0
      /\ pending = {} /\ bgError = FALSE /\ scheduled = FALSE
      /\ flush = None /\ compaction = None /\ edit = None
      /\ pinned = [r \in Reader |-> None] /\ recovery = None
      /\ asked = {} /\ kept = {} /\ instance \in Instances
      /\ used = [writes |-> 0, flushes |-> 0, reads |-> 0, crashes |-> 0, faults |-> 0]
  BY DEF Init
<1>2. PICK m : m = [l0 |-> {}, deep |-> {}, log |-> 3, next |-> 4, last |-> 0]
  OBVIOUS
<1>3. m \in VersionState /\ TablesOf(m) = {} /\ m.log = 3 /\ m.next = 4 /\ m.last = 0
  BY <1>2 DEF VersionState, TablesOf
<1>4. PICK s : s = <<m>>
  OBVIOUS
<1>5. s \in Seq(VersionState) /\ s # <<>> /\ Len(s) = 1 /\ s[1] = m /\ DOMAIN s = {1}
  BY <1>3, <1>4
<1>6. Last(s) = m /\ ToSet(s) = {m}
  BY <1>5 DEF Last, ToSet
<1>7. /\ DOMAIN disk = {"logs", "tables", "manifest"} /\ disk.manifest = s
      /\ DOMAIN disk.logs = {3} /\ disk.logs[3] = NewLog /\ DOMAIN disk.tables = {}
  <2>1. disk = [logs |-> [n \in {3} |-> NewLog], tables |-> <<>>, manifest |-> <<m>>]
    BY <1>2 DEF Init
  <2> QED BY <1>4, <2>1
<1>8. /\ NewLog \in [records : Seq(SUBSET Entry), synced : Nat]
      /\ NewLog.records = <<>> /\ Len(NewLog.records) = 0 /\ NewLog.synced = 0
  BY DEF NewLog
<1>9. DiskOK(disk)
  <2>1. \A i \in 1 .. Len(s) : s[i].next <= Last(s).next
    BY <1>3, <1>5, <1>6
  <2>2. ASSUME NEW n \in DOMAIN disk.logs
        PROVE  /\ disk.logs[n] \in [records : Seq(SUBSET Entry), synced : Nat]
               /\ disk.logs[n].synced <= Len(disk.logs[n].records)
               /\ \A i \in 1 .. Len(disk.logs[n].records) : IsFiniteSet(disk.logs[n].records[i])
    <3>1. disk.logs[n] = NewLog
      BY <1>7
    <3>2. 0 <= Len(NewLog.records) /\ \A i \in 1 .. Len(NewLog.records) : FALSE
      BY <1>8
    <3> QED BY <1>8, <3>1, <3>2
  <2>3. DOMAIN disk.logs \subseteq Nat /\ DOMAIN disk.tables \subseteq Nat
    BY <1>7
  <2>4. \A t \in DOMAIN disk.tables : disk.tables[t] \subseteq Entry
    BY <1>7
  <2>5. DOMAIN disk = {"logs", "tables", "manifest"} /\ disk.manifest \in Seq(VersionState)
        /\ disk.manifest # <<>> /\ \A i \in 1 .. Len(disk.manifest) : disk.manifest[i].next <= Last(disk.manifest).next
    BY <1>5, <1>7, <2>1
  <2> QED BY <2>2, <2>3, <2>4, <2>5 DEF DiskOK
<1>10. LogSet(disk, 3) = {} /\ TableSet(disk, {}) = {} /\ Files(disk) = {}
  <2>1. \A e : e \notin LogSet(disk, 3)
    BY <1>7, <1>8, LogHas
  <2>2. \A T : TableSet(disk, T) = {}
    BY <1>7 DEF TableSet
  <2>3. \A e : e \notin Files(disk)
    BY <1>7, <2>1, <2>2, FilesHas
  <2> QED BY <2>1, <2>2, <2>3
<1>11. /\ IsRunning /\ ImmEntries = {} /\ Flying = {} /\ Everything = {} /\ Current = m
       /\ Manifest = m /\ l0 \cup deep = {}
  <2>1. ImmEntries = {} /\ Flying = {}
    BY <1>1 DEF ImmEntries, Flying
  <2> QED BY <1>1, <1>2, <1>6, <1>7, <1>10, <2>1 DEF IsRunning, Everything, Current, Manifest
<1>12. Visible = {}
  <2>1. Found = {}
    BY <1>1, <1>10, <1>11 DEF Found
  <2> QED BY <1>11, <2>1, SeenWhenRunning
<1>13. Versions = {m}
  BY <1>1, <1>6, <1>7, <1>11 DEF Versions
<1>14. Content(disk, m) = {}
  BY <1>10, ContentInFiles
<1>15. UpToDate(m, disk, Visible, logfile, next, lastSeq) /\ VersionOK(m, disk, Visible, asked, kept)
  <2>1. UpToDate(m, disk, Visible, logfile, next, lastSeq)
    BY <1>1, <1>3, <1>12 DEF UpToDate
  <2>2. m.log < m.next
    BY <1>3
  <2>3. Ids(Content(disk, m)) = {}
    BY <1>14 DEF Ids
  <2>4. \A e \in TableSet(disk, TablesOf(m)) : FALSE
    BY <1>3, <1>10
  <2> QED BY <1>1, <1>3, <2>1, <2>2, <2>3, <2>4 DEF VersionOK
<1>16. QueueOK
  <2>1. /\ writers \in Seq(Thread) /\ Len(writers) = 0 /\ \A i \in 1 .. Len(writers) : FALSE
    BY <1>1
  <2>2. \A w \in Thread : call[w] = None
    BY <1>1
  <2>3. call \in [Thread -> MaybeOneOf(CallRecord)]
    BY <1>1 DEF MaybeOneOf
  <2>4. asleep \subseteq ToSet(writers) /\ awaiting \subseteq Thread
    BY <1>1
  <2> HIDE <1>1
  <2> QED BY <2>1, <2>2, <2>3, <2>4 DEF QueueOK
<1>17. UsedOK
  <2>1. instance.writes \in Nat
    BY <1>1, StoreAssumption
  <2>2. used \in [{"writes", "flushes", "reads", "crashes", "faults"} -> Nat] /\ used["writes"] = 0
    BY <1>1
  <2> QED BY <1>1, <2>1, <2>2 DEF UsedOK
<1>18. EntriesOK /\ GroupOK
  BY <1>1, <1>11 DEF EntriesOK, GroupOK
<1>19. MemoryOK
  <2>1. Ids(ImmEntries \cup TableSet(disk, l0 \cup deep) \cup (mem \cap SyncedSet(disk, logfile))) = {}
    BY <1>1, <1>10, <1>11 DEF Ids
  <2> QED BY <1>1, <1>7, <1>10, <1>11, <2>1 DEF MemoryOK
<1>20. EditOK /\ FlushOK /\ CompactionOK
  BY <1>1 DEF EditOK, FlushOK, CompactionOK
<1>21. WorkOK
  <2>1. CurrentTables = {} /\ TablesOf(Manifest) = {}
    BY <1>1, <1>3, <1>11 DEF CurrentTables, IsSyncing
  <2>2. pinned \in [Reader -> MaybeOneOf(SUBSET DOMAIN disk.tables)]
    BY <1>1 DEF MaybeOneOf
  <2> QED BY <1>1, <2>1, <2>2 DEF WorkOK
<1>22. Running
  BY <1>1, <1>13, <1>15, <1>19, <1>20, <1>21 DEF Running
<1>23. IInv
  BY <1>1, <1>9, <1>11, <1>16, <1>17, <1>18, <1>22 DEF IInv
<1> QED BY <1>1, <1>12, <1>23

\* What a step may do to the writes: the actions of DurableWrites.
Effect == Stutters \/ AsksOne \/ Commits \/ ShowsUp \/ Shrinks \/ Settles

LEMMA StutterStep ==
  ASSUME IInv, UNCHANGED vars
  PROVE  IInv' /\ Stutters
<1>1. /\ UNCHANGED <<writers, call, asleep, awaiting, group, asked, kept>>
      /\ UNCHANGED <<mem, imm, l0, deep, logNumber, logfile, next, lastSeq>>
      /\ UNCHANGED <<pending, bgError, scheduled, flush, compaction, edit>>
      /\ UNCHANGED <<up, pinned, recovery, instance, used, disk>>
  BY DEF vars, client, memory, work, rest
<1>2. /\ ImmEntries' = ImmEntries /\ Flying' = Flying /\ Found' = Found /\ Everything' = Everything
      /\ IsRunning' = IsRunning /\ Manifest' = Manifest /\ Current' = Current /\ IsSyncing' = IsSyncing
      /\ Replayed' = Replayed
  BY <1>1 DEF ImmEntries, Flying, Found, Everything, IsRunning, Manifest, Current, IsSyncing, Replayed
<1>3. Visible' = Visible
  BY <1>1, <1>2, SeenWhenRunning, SeenWhenRunningNext, SeenWhenDown, SeenWhenDownNext
<1>4. Versions' = Versions /\ CurrentTables' = CurrentTables
  BY <1>1, <1>2 DEF Versions, CurrentTables
<1>5. QueueOK' = QueueOK /\ UsedOK' = UsedOK /\ EntriesOK' = EntriesOK /\ GroupOK' = GroupOK
  BY <1>1, <1>2 DEF QueueOK, UsedOK, EntriesOK, GroupOK
<1>6. Running' = Running
  <2>1. MemoryOK' = MemoryOK /\ EditOK' = EditOK
    BY <1>1, <1>2 DEF MemoryOK, EditOK
  <2>2. FlushOK' = FlushOK /\ CompactionOK' = CompactionOK /\ WorkOK' = WorkOK
    BY <1>1, <1>2, <1>4 DEF FlushOK, CompactionOK, WorkOK
  <2> QED BY <1>1, <1>3, <1>4, <2>1, <2>2 DEF Running
<1>7. Down' = Down
  <2>1. Quiet' = Quiet
    BY <1>1 DEF Quiet
  <2> QED BY <1>1, <1>3, <2>1 DEF Down
<1>8. Recovering' = Recovering
  BY <1>1, <1>2 DEF Recovering
<1> QED BY <1>1, <1>2, <1>3, <1>5, <1>6, <1>7, <1>8 DEF IInv, Stutters

LEMMA NextStep ==
  ASSUME IInv, [Next]_vars
  PROVE  IInv' /\ Effect
<1>1. CASE \E w \in Thread : (\E sync \in BOOLEAN : Write(w, sync)) \/ CompactMemTable(w) \/ Lead(w)
  <2>1. PICK w \in Thread : (\E sync \in BOOLEAN : Write(w, sync)) \/ CompactMemTable(w) \/ Lead(w)
    BY <1>1
  <2>2. CASE \E sync \in BOOLEAN : Write(w, sync)
    BY <2>2, WriteStep DEF Effect
  <2>3. CASE CompactMemTable(w)
    BY <2>3, CompactMemTableStep DEF Effect
  <2>4. CASE Lead(w)
    BY <2>4, YieldErrorStep, AwaitRoomStep, SwitchMemTableStep, SwitchFailsStep, NothingToWriteStep,
       BeginGroupStep, AwaitImmStep, MemTableIsCompactedStep DEF Lead, Effect
  <2> QED BY <2>1, <2>2, <2>3, <2>4
<1>2. CASE Log
  BY <1>2, AddRecordStep, AddRecordFailsStep, SyncLogStep, SyncFailsStep, InsertIntoStep, EndGroupStep
     DEF Log, Effect
<1>3. CASE Background
  BY <1>3, NothingToDoStep, StartFlushStep, BuildTableStep, BuildTableInVainStep, BuildTableFailsStep,
     StartCompactionStep, MoveTableStep, WriteOutputStep, MergeStopsStep, InstallResultsStep,
     AppendEditStep, FlushIsInstalledStep, CompactionIsInstalledStep, ApplyFailsStep DEF Background, Effect
<1>4. CASE \E r \in Reader : StartRead(r) \/ EndRead(r)
  BY <1>4, StartReadStep, EndReadStep DEF Effect
<1>5. CASE Start
  BY <1>5, RecoverStep, RecoverLogFileStep, OpenStep, OpenFailsStep DEF Start, Effect
<1>6. CASE Close \/ Closed \/ ProcessCrash \/ MachineCrash
  BY <1>6, CloseStep, ClosedStep, ProcessCrashStep, MachineCrashStep DEF Effect
<1>7. CASE UNCHANGED vars
  BY <1>7, StutterStep DEF Effect
<1> QED BY <1>1, <1>2, <1>3, <1>4, <1>5, <1>6, <1>7 DEF Next

\* The inductive invariant holds: every version the next process may have to
\* start from is sound, whatever the threads are in the middle of.
THEOREM InvariantHolds == Spec => []IInv
<1>1. Init => IInv
  BY InitIsSound
<1>2. IInv /\ [Next]_vars => IInv'
  BY NextStep
<1> QED BY <1>1, <1>2, PTL DEF Spec

LEMMA KeptIsAsked ==
  ASSUME IInv
  PROVE  kept \subseteq Nat /\ asked \subseteq Nat
<1>1. DiskOK(disk) /\ UsedOK /\ EntriesOK
  BY DEF IInv
<1>2. VersionOK(Manifest, disk, Visible, asked, kept)
  BY <1>1, LastVersion, ManifestIsSound DEF Manifest
<1>3. Secured(disk, Manifest) \subseteq Content(disk, Manifest)
  BY <1>1, ContentHas, SyncedIsLogged
<1>4. Secured(disk, Manifest) \subseteq Everything
  BY <1>3, ContentInFiles DEF Everything
<1>5. \A e \in Everything : e.id \in Nat
  BY <1>1 DEF EntriesOK, Entry
<1>6. kept \subseteq Nat
  <2>1. kept \subseteq Ids(Secured(disk, Manifest))
    BY <1>2 DEF VersionOK
  <2> QED BY <1>4, <1>5, <2>1 DEF Ids
<1>7. asked \subseteq Nat
  BY <1>1 DEF UsedOK
<1> QED BY <1>6, <1>7

LEMMA TypesAreRight ==
  ASSUME IInv
  PROVE  TypeOK
<1>1. DiskOK(disk) /\ QueueOK /\ GroupOK
  BY DEF IInv
<1>2. kept \subseteq Nat /\ asked \subseteq Nat
  BY KeptIsAsked
<1>3. /\ writers \in Seq(Thread) /\ call \in [Thread -> MaybeOneOf(CallRecord)]
      /\ asleep \subseteq ToSet(writers) /\ awaiting \subseteq Thread
  BY <1>1 DEF QueueOK
<1>4. group \in MaybeOneOf(GroupRecord) /\ (group # None => group.size \in 1 .. Len(writers))
  BY <1>1 DEF GroupOK, MaybeOneOf
<1>5. DOMAIN disk.logs \subseteq Nat /\ DOMAIN disk.tables \subseteq Nat
  BY <1>1 DEF DiskOK
<1>6. /\ mem \subseteq Entry /\ imm \subseteq SUBSET Entry
      /\ l0 \subseteq Nat /\ deep \subseteq Nat
      /\ {logNumber, logfile, next, lastSeq} \subseteq Nat
      /\ pending \subseteq Nat /\ {bgError, scheduled} \subseteq BOOLEAN
      /\ flush \in MaybeOneOf(Nat) /\ compaction \in MaybeOneOf(CompactionRecord)
      /\ edit \in MaybeOneOf(EditRecord)
      /\ pinned \in [Reader -> MaybeOneOf(SUBSET Nat)]
  <2>1. CASE IsRunning
    <3>1. /\ MemoryOK /\ EditOK /\ FlushOK /\ CompactionOK /\ WorkOK
          /\ next \in Nat /\ lastSeq \in Nat /\ logfile \in Nat /\ logNumber \in Nat
      BY <2>1, WhenRunning
    <3>2. mem \subseteq Entry /\ imm \subseteq SUBSET Entry /\ l0 \subseteq Nat /\ deep \subseteq Nat
      BY <3>1 DEF MemoryOK
    <3>3. flush \in MaybeOneOf(Nat)
      BY <3>1 DEF FlushOK, MaybeOneOf
    <3>4. compaction \in MaybeOneOf(CompactionRecord)
      BY <3>1 DEF CompactionOK, MaybeOneOf
    <3>5. edit \in MaybeOneOf(EditRecord)
      BY <3>1 DEF EditOK, MaybeOneOf
    <3>6. pending \subseteq Nat /\ {bgError, scheduled} \subseteq BOOLEAN
      BY <3>1 DEF WorkOK
    <3>7. pinned \in [Reader -> MaybeOneOf(SUBSET Nat)]
      <4>1. pinned \in [Reader -> MaybeOneOf(SUBSET DOMAIN disk.tables)]
        BY <3>1 DEF WorkOK
      <4>2. MaybeOneOf(SUBSET DOMAIN disk.tables) \subseteq MaybeOneOf(SUBSET Nat)
        BY <1>5 DEF MaybeOneOf
      <4> QED BY <4>1, <4>2
    <3> QED BY <3>1, <3>2, <3>3, <3>4, <3>5, <3>6, <3>7
  <2>2. CASE ~ IsRunning
    <3>1. Down
      BY <2>2 DEF IInv
    <3>2. Quiet
      BY <3>1 DEF Down
    <3>3. /\ mem = {} /\ imm = {} /\ pending = {} /\ bgError = FALSE /\ scheduled = FALSE
          /\ flush = None /\ compaction = None /\ edit = None /\ pinned = [r \in Reader |-> None]
      BY <3>2 DEF Quiet
    <3>4. flush \in MaybeOneOf(Nat) /\ compaction \in MaybeOneOf(CompactionRecord)
          /\ edit \in MaybeOneOf(EditRecord)
      BY <3>3 DEF MaybeOneOf
    <3>5. pinned \in [Reader -> MaybeOneOf(SUBSET Nat)]
      BY <3>3 DEF MaybeOneOf
    <3> QED BY <3>1, <3>3, <3>4, <3>5 DEF Down
  <2> QED BY <2>1, <2>2
<1>7. up \in {"open", "closing", "down", "recovering", "corrupt"}
  BY DEF IInv
<1> QED BY <1>2, <1>3, <1>4, <1>5, <1>6, <1>7 DEF TypeOK

LEMMA NumbersAreUnique ==
  ASSUME IInv
  PROVE  SequenceNumbersAreUnique
<1>1. Visible \subseteq Everything
  <2>1. CASE IsRunning
    BY <2>1, SeenIsThere
  <2>2. CASE ~ IsRunning
    BY <2>2, SeenWhenDown, ContentInFiles DEF Everything
  <2> QED BY <2>1, <2>2
<1>2. (IF group = None THEN {} ELSE group.entries) \subseteq Everything
  BY DEF Everything, Flying
<1> QED BY <1>1, <1>2 DEF IInv, EntriesOK, SequenceNumbersAreUnique

\* No two writes share a sequence number, and the state is well formed: also
\* after failed groups, whose numbers are used up, and after a recovery from
\* logs that end anywhere (DBImpl::Write, RecoverLogFile).
THEOREM EngineIsSound == Spec => []StoreIsSound
<1>1. IInv => StoreIsSound
  BY TypesAreRight, NumbersAreUnique DEF StoreIsSound
<1> QED BY <1>1, InvariantHolds, PTL

LEMMA TablesKept ==
  ASSUME IInv, [Next]_vars
  PROVE  KeepsTables
<1>1. CASE \E w \in Thread : (\E sync \in BOOLEAN : Write(w, sync)) \/ CompactMemTable(w) \/ Lead(w)
  BY <1>1, ClientKeepsTables
<1>2. CASE \E r \in Reader : StartRead(r) \/ EndRead(r)
  <2>1. disk' = disk
    BY <1>2 DEF StartRead, EndRead
  <2> QED BY <2>1, KeptWhenSame
<1>3. CASE UNCHANGED vars
  BY <1>3, KeptWhenSame DEF vars
<1> QED BY <1>1, <1>2, <1>3, LogKeepsTables, BackgroundKeepsTables, StartKeepsTables, EndKeepsTables
    DEF Next

\* A table that somebody may open -- the current version, the manifest's, a
\* reader's, a compaction's -- is there, and stays what it is
\* (DeleteObsoleteFiles, pending_outputs_, MarkFileNumberUsed).
THEOREM TablesStay == Spec => TablesInUseStay
<1>1. IInv => TablesAreThere
  BY InUseAreThere
<1>2. IInv /\ [Next]_vars => KeepsTables
  BY TablesKept
<1>3. TablesAreThere' /\ KeepsTables =>
        [\A n \in TablesInUse' :
           /\ n \in DOMAIN disk'.tables
           /\ n \in TablesInUse => disk'.tables[n] = disk.tables[n]]_vars
  BY DEF TablesAreThere, KeepsTables
<1> QED BY <1>1, <1>2, <1>3, InvariantHolds, PTL DEF Spec, TablesInUseStay

-----------------------------------------------------------------------------
(* The refinement.                                                         *)

LEMMA EffectIsAllowed ==
  ASSUME Effect
  PROVE  [Writes!Next]_<<asked, {e.id : e \in Visible}, kept>>
<1> DEFINE db == {e.id : e \in Visible}
<1>1. db = Ids(Visible) /\ db' = Ids(Visible')
  BY DEF Ids
<1>2. CASE Stutters
  BY <1>2 DEF Stutters
<1>3. CASE AsksOne
  <2>1. PICK id \in 1 .. MaxWrites :
          /\ id \notin asked \cup Ids(Visible)
          /\ asked' = asked \cup {id} /\ Visible' = Visible /\ kept' = kept
    BY <1>3 DEF AsksOne
  <2>2. Writes!Ask(id)
    BY <1>1, <2>1 DEF Writes!Ask
  <2> QED BY <2>2 DEF Writes!Next
<1>4. CASE Commits
  <2>1. PICK W \in SUBSET asked : \E synced \in SUBSET W :
          /\ W # {} /\ asked' = asked \ W
          /\ Ids(Visible') = Ids(Visible) \cup W /\ kept' = kept \cup synced
    BY <1>4 DEF Commits
  <2>2. PICK synced \in SUBSET W :
          /\ W # {} /\ asked' = asked \ W
          /\ Ids(Visible') = Ids(Visible) \cup W /\ kept' = kept \cup synced
    BY <2>1
  <2>3. Writes!Commit(W, synced)
    BY <1>1, <2>2 DEF Writes!Commit
  <2> QED BY <2>3 DEF Writes!Next
<1>5. CASE ShowsUp
  <2>1. Writes!ProcessCrash
    BY <1>1, <1>5 DEF ShowsUp, Writes!ProcessCrash
  <2> QED BY <2>1 DEF Writes!Next
<1>6. CASE Shrinks
  <2>1. db' \in SUBSET (db \cup asked) /\ kept \subseteq db' /\ UNCHANGED <<asked, kept>>
    BY <1>1, <1>6 DEF Shrinks
  <2>2. Writes!MachineCrash
    BY <2>1 DEF Writes!MachineCrash
  <2> QED BY <2>2 DEF Writes!Next
<1>7. CASE Settles
  <2>1. Writes!Settle
    BY <1>1, <1>7 DEF Settles, Writes!Settle
  <2> QED BY <2>1 DEF Writes!Next
<1> QED BY <1>2, <1>3, <1>4, <1>5, <1>6, <1>7 DEF Effect

\* The engine implements DurableWrites: what logs, memtables, tables, merges,
\* removals, crashes and recoveries make of the writes is what a set of writes
\* does of which those acknowledged with sync are never lost.
THEOREM EngineKeepsItsPromise == Spec => ImplementsDurableWrites
<1>1. Init => Writes!Init
  BY InitIsSound DEF Writes!Init
<1>2. IInv /\ [Next]_vars => [Writes!Next]_<<asked, {e.id : e \in Visible}, kept>>
  BY NextStep, EffectIsAllowed
<1> QED BY <1>1, <1>2, InvariantHolds, PTL DEF Spec, ImplementsDurableWrites, Writes!Spec, Writes!vars
=============================================================================
