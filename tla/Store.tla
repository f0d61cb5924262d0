------------------------------- MODULE Store -------------------------------
(***************************************************************************)
(* The storage engine (leveldb-library/db: DBImpl, and the parts of        *)
(* VersionSet it commits with): the queue of writers and its group commit, *)
(* the log and the two memtables, the background thread that turns them    *)
(* into tables and merges tables, the manifest, the removal of files that  *)
(* nobody needs, and what a new process makes of the directory.            *)
(*                                                                         *)
(* A step of the model is what a thread does between two points where it   *)
(* gives up mutex_, or one file operation done without it.  Of a write     *)
(* only its identity and its sequence number are kept: what a merge may    *)
(* drop and how the levels are searched is the subject of Levels.          *)
(*                                                                         *)
(* Not here: reuse_logs (off by default), several tables made of one log,  *)
(* manual compactions, those the size of a deeper level calls for, the 1   *)
(* ms delay of a write near the limit of level 0, which changes nothing,   *)
(* and log records torn by a write that failed half way.                   *)
(***************************************************************************)
EXTENDS Naturals, FiniteSets, Sequences, SequencesExt, Functions

CONSTANTS
  Thread,     \* client threads that write
  Reader,     \* iterators and Gets, which hold on to a version
  None,
  MaxWrites,  \* the most writes of an instance
  Instances,  \* bounds: writes, calls of TEST_CompactMemTable, reads, ends of the
              \* process, faults
  MaxMem,     \* entries that fill a memtable (write_buffer_size)
  Trigger,    \* level-0 tables that call for a compaction (kL0_CompactionTrigger)
  Stop        \* level-0 tables that stop writes (kL0_StopWritesTrigger)

ASSUME StoreAssumption ==
  /\ None \notin Thread
  /\ MaxWrites \in Nat
  /\ MaxMem \in Nat \ {0}
  /\ Trigger \in Nat \ {0} /\ Stop \in Nat /\ Trigger <= Stop
  /\ \A i \in Instances :
       i \in [writes : 0 .. MaxWrites, flushes : Nat, reads : Nat, crashes : Nat, faults : Nat]

VARIABLES
  up,         \* "open", "closing", "down", "recovering" or "corrupt"
  writers,    \* writers_: the queue, its head writes for a group of them
  call,       \* what each thread is doing, or None
  asleep,     \* threads waiting on their own condition variable
  awaiting,   \* threads waiting on background_work_finished_signal_
  group,      \* the group being written without the mutex, or None
  mem, imm,   \* the entries of mem_, and those of imm_ as a set of none or one memtable
  l0, deep,   \* the current version: tables of level 0, and of all the others
  logNumber,  \* versions_->LogNumber(): older logs are not needed
  logfile,    \* logfile_number_: the log being written
  next,       \* next_file_number_
  lastSeq,    \* last_sequence_
  pending,    \* pending_outputs_
  bgError,    \* bg_error_ is set
  scheduled,  \* background_compaction_scheduled_
  flush,      \* the memtable compaction in progress, or None
  compaction, \* the table compaction in progress, or None
  edit,       \* the LogAndApply in progress, or None
  pinned,     \* the tables of the version each reader holds, or None
  recovery,   \* the logs still to replay, and the tables made of the others
  disk,       \* logs, tables, and the manifest: what replaying it gives, without
              \* the edits not yet synced, with the first of them, and so on
  asked, kept,  \* writes not decided, and those acknowledged with sync
  instance, used  \* the bounds, and what has been used of them

client == <<writers, call, asleep, awaiting, group, asked, kept>>
memory == <<mem, imm, l0, deep, logNumber, logfile, next, lastSeq>>
work == <<pending, bgError, scheduled, flush, compaction, edit>>
rest == <<up, pinned, recovery, instance, used>>
vars == <<client, memory, work, rest, disk>>

\* Bounds are charged where they are used.
Use(what) ==
  /\ used[what] < instance[what]
  /\ used' = [used EXCEPT ![what] = @ + 1]
  /\ UNCHANGED instance
Fault == Use("faults")
Untouched == UNCHANGED <<up, pinned, recovery, instance>>

-----------------------------------------------------------------------------
(* Files.                                                                  *)

NewLog == [records |-> <<>>, synced |-> 0]

\* The files with one more, or with another content of it.
With(files, n, content) ==
  [k \in DOMAIN files \cup {n} |-> IF k = n THEN content ELSE files[k]]

Logged(n) == UNION ToSet(disk.logs[n].records)

Stored(numbers) == UNION {disk.tables[n] : n \in numbers \cap DOMAIN disk.tables}

\* VersionSet::Builder: an edit deletes tables and adds others.
Apply(m, e) ==
  [l0 |-> (m.l0 \ e.del) \cup e.add0, deep |-> (m.deep \ e.del) \cup e.add,
   log |-> e.log, next |-> e.next, last |-> e.last]

\* What the manifest says, edits that may not be on disk included.
Manifest == Last(disk.manifest)

\* Mutant of Live: what is being written is not in use yet.
LiveInVersions(p, tables, compacted) ==
  tables \cup compacted \cup UNION {pinned[r] : r \in {r \in Reader : pinned[r] # None}}

\* AddLiveFiles and pending_outputs_: the tables somebody may still open --
\* of the current version, the readers', and the one a compaction reads.
Live(p, tables, compacted) ==
  p \cup tables \cup compacted
  \cup UNION {pinned[r] : r \in {r \in Reader : pinned[r] # None}}

\* DeleteObsoleteFiles, which does nothing after a background error.
DeleteObsoleteFiles(d, live, log) ==
  IF bgError THEN d
  ELSE [d EXCEPT !.tables = Restrict(@, DOMAIN @ \cap live),
                 !.logs = Restrict(@, {n \in DOMAIN @ : n >= log})]

-----------------------------------------------------------------------------
(* The background thread's flag and the conditions of its being called.    *)

NeedsCompaction(level0) == Cardinality(level0) >= Trigger

\* MaybeScheduleCompaction, for the state a step leaves.
WorkToDo(error, memtables, level0) ==
  up = "open" /\ ~error /\ (memtables # {} \/ NeedsCompaction(level0))

\* The end of BackgroundCall: the thread is done, more work is scheduled, and
\* all who wait are woken.
EndOfWork(error, memtables, level0) ==
  /\ scheduled' = WorkToDo(error, memtables, level0)
  /\ awaiting' = {}

-----------------------------------------------------------------------------
(* Writing (DBImpl::Write).                                                *)

\* call[w].id is 0 for the null batch of TEST_CompactMemTable.
HasBatch(w) == call[w].id # 0

\* Write: join the queue; who is not at its head sleeps.
Join(w, id, sync) ==
  /\ up = "open" /\ call[w] = None
  /\ call' = [call EXCEPT ![w] = [id |-> id, sync |-> sync, force |-> id = 0, stage |-> "queue"]]
  /\ writers' = Append(writers, w)
  /\ asleep' = IF writers = <<>> THEN asleep ELSE asleep \cup {w}
  /\ UNCHANGED <<awaiting, group, kept, memory, work, disk>> /\ Untouched

Write(w, sync) ==
  /\ Use("writes")
  /\ Join(w, used'["writes"], sync)
  /\ asked' = asked \cup {used'["writes"]}

CompactMemTable(w) == Use("flushes") /\ Join(w, 0, FALSE) /\ UNCHANGED asked

\* The head of the queue goes on by itself until its group is written.
IsLeader(w) ==
  /\ up = "open" /\ group = None
  /\ writers # <<>> /\ w = Head(writers)
  /\ w \notin asleep \cup awaiting

\* Mutant of Signalled: the new head is not woken.
SignalledDone(n) == asleep \ {writers[k] : k \in 1 .. n}

\* The first n writers are told they are done; the new head is told it is one.
Signalled(n) == asleep \ {writers[k] : k \in 1 .. n + 1 \cap DOMAIN writers}

\* The end of Write: the first n writers get the status.  A null batch that
\* succeeded goes on to wait for imm_ in TEST_CompactMemTable.
Answer(n, ok) ==
  LET answered == {writers[k] : k \in 1 .. n}
      ids == {call[w].id : w \in answered} \ {0}
  IN  /\ writers' = SubSeq(writers, n + 1, Len(writers))
      /\ asleep' = Signalled(n)
      /\ call' = [w \in Thread |->
                    IF w \notin answered THEN call[w]
                    ELSE IF ok /\ ~HasBatch(w) THEN [call[w] EXCEPT !.stage = "imm"]
                    ELSE None]
      /\ asked' = IF ok THEN asked \ ids ELSE asked
      /\ kept' = IF ok THEN kept \cup {call[w].id : w \in {w \in answered : call[w].sync}}
                       ELSE kept

\* MakeRoomForWrite.
IsFull(w) == call[w].force \/ Cardinality(mem) >= MaxMem

YieldError(w) ==
  /\ IsLeader(w) /\ bgError
  /\ Answer(1, FALSE)
  /\ UNCHANGED <<awaiting, group, memory, work, disk, used>> /\ Untouched

AwaitRoom(w) ==
  /\ IsLeader(w) /\ ~bgError /\ IsFull(w)
  /\ imm # {} \/ Cardinality(l0) >= Stop
  /\ awaiting' = awaiting \cup {w}
  /\ UNCHANGED <<writers, call, asleep, group, asked, kept, memory, work, disk, used>>
  /\ Untouched

CanSwitch(w) ==
  IsLeader(w) /\ ~bgError /\ IsFull(w) /\ imm = {} /\ Cardinality(l0) < Stop

\* The old log is closed as it is: nothing syncs it.
SwitchMemTable(w) ==
  /\ CanSwitch(w)
  /\ disk' = [disk EXCEPT !.logs = With(@, next, NewLog)]
  /\ logfile' = next /\ next' = next + 1
  /\ imm' = {mem} /\ mem' = {}
  /\ call' = [call EXCEPT ![w].force = FALSE]
  /\ scheduled' = (scheduled \/ WorkToDo(FALSE, imm', l0))
  /\ UNCHANGED <<writers, asleep, awaiting, group, asked, kept, l0, deep, logNumber, lastSeq,
                 pending, bgError, flush, compaction, edit, used>>
  /\ Untouched

\* No new log could be made: its number is given back, the write fails.
SwitchFails(w) ==
  /\ CanSwitch(w) /\ Fault
  /\ Answer(1, FALSE)
  /\ UNCHANGED <<awaiting, group, memory, work, disk>> /\ Untouched

\* There is room, and nothing to write: the null batch is done.
NothingToWrite(w) ==
  /\ IsLeader(w) /\ ~bgError /\ ~IsFull(w) /\ ~HasBatch(w)
  /\ Answer(1, TRUE)
  /\ UNCHANGED <<awaiting, group, memory, work, disk, used>> /\ Untouched

\* Mutant of CanJoin: a sync write may follow one that is not.
AnyCanJoin(n) == n \in 1 .. Len(writers)

\* A sync write is not included in a batch handled by a non-sync write.
CanJoin(n) ==
  /\ n \in 1 .. Len(writers)
  /\ \A k \in 2 .. n : call[writers[k]].sync => call[Head(writers)].sync

\* BuildBatchGroup: the head and writers behind it, up to a size.
BuildBatchGroup(n) ==
  LET batches == {k \in 1 .. n : HasBatch(writers[k])}
  IN  {[id |-> call[writers[k]].id, seq |-> lastSeq + Cardinality({j \in batches : j <= k})] :
         k \in batches}

BeginGroup(w) ==
  /\ IsLeader(w) /\ ~bgError /\ ~IsFull(w) /\ HasBatch(w)
  /\ \E n \in 1 .. Len(writers) :
       /\ CanJoin(n)
       /\ group' = [size |-> n, entries |-> BuildBatchGroup(n), sync |-> call[w].sync,
                    stage |-> "append"]
  /\ UNCHANGED <<writers, call, asleep, awaiting, asked, kept, memory, work, disk, used>>
  /\ Untouched

\* The group's stages run without the mutex; the leader's place in the queue
\* keeps everybody else from the log and from mem_.
InGroup(stage) == group # None /\ group.stage = stage

GoesTo(stage) ==
  /\ group' = [group EXCEPT !.stage = stage]
  /\ UNCHANGED <<writers, call, asleep, awaiting, asked, kept, work>> /\ Untouched

AppendRecord == [disk EXCEPT !.logs[logfile].records = Append(@, group.entries)]

AddRecord ==
  /\ InGroup("append")
  /\ disk' = AppendRecord
  /\ GoesTo(IF group.sync THEN "sync" ELSE "insert")
  /\ UNCHANGED <<memory, used>>

\* The error of AddRecord is the write's alone; the record may be there or not.
AddRecordFails ==
  /\ InGroup("append") /\ Fault
  /\ disk' \in {disk, AppendRecord}
  /\ GoesTo("failed")
  /\ UNCHANGED memory

SyncLog ==
  /\ InGroup("sync")
  /\ disk' = [disk EXCEPT !.logs[logfile].synced = Len(disk.logs[logfile].records)]
  /\ GoesTo("insert")
  /\ UNCHANGED <<memory, used>>

SyncFails ==
  /\ InGroup("sync") /\ Fault
  /\ GoesTo("unsynced")
  /\ UNCHANGED <<memory, disk>>

InsertInto ==
  /\ InGroup("insert")
  /\ mem' = mem \cup group.entries
  /\ GoesTo("written")
  /\ UNCHANGED <<imm, l0, deep, logNumber, logfile, next, lastSeq, disk, used>>

\* The mutex is taken again.  The sequence numbers are used up in any case;
\* after a failed sync the state of the log is not known: no more writes.
EndGroup ==
  /\ group # None /\ group.stage \in {"written", "failed", "unsynced"}
  /\ lastSeq' = lastSeq + Cardinality(group.entries)
  /\ bgError' = (bgError \/ group.stage = "unsynced")
  /\ awaiting' = IF bgError' # bgError THEN {} ELSE awaiting
  /\ Answer(group.size, group.stage = "written")
  /\ group' = None
  /\ UNCHANGED <<mem, imm, l0, deep, logNumber, logfile, next, pending, scheduled, flush,
                 compaction, edit, disk, used>>
  /\ Untouched

\* The rest of TEST_CompactMemTable: wait while there is an imm_.
IsAwaitingImm(w) ==
  call[w] # None /\ call[w].stage = "imm" /\ w \notin awaiting

AwaitImm(w) ==
  /\ IsAwaitingImm(w) /\ imm # {} /\ ~bgError
  /\ awaiting' = awaiting \cup {w}
  /\ UNCHANGED <<writers, call, asleep, group, asked, kept, memory, work, disk, used>>
  /\ Untouched

MemTableIsCompacted(w) ==
  /\ IsAwaitingImm(w) /\ (imm = {} \/ bgError)
  /\ call' = [call EXCEPT ![w] = None]
  /\ UNCHANGED <<writers, asleep, awaiting, group, asked, kept, memory, work, disk, used>>
  /\ Untouched

-----------------------------------------------------------------------------
(* The background thread (BackgroundCall).                                 *)

IsIdle == flush = None /\ compaction = None

CanStart == up = "open" /\ ~bgError

NothingToDo ==
  /\ scheduled /\ IsIdle
  /\ CanStart => imm = {} /\ ~NeedsCompaction(l0)
  /\ EndOfWork(bgError, imm, l0)
  /\ UNCHANGED <<writers, call, asleep, group, asked, kept, memory, pending, bgError, flush,
                 compaction, edit, disk, used>>
  /\ Untouched

\* WriteLevel0Table: at the start of the call, or within a table compaction,
\* which looks for an imm_ before each entry and does not mind bg_error_.
StartFlush ==
  /\ flush = None /\ imm # {}
  /\ \/ scheduled /\ compaction = None /\ CanStart
     \/ compaction # None /\ compaction.stage = "merge" /\ up = "open"
  /\ flush' = next
  /\ next' = next + 1
  /\ pending' = pending \cup {next}
  /\ UNCHANGED <<client, mem, imm, l0, deep, logNumber, logfile, lastSeq, bgError, scheduled,
                 compaction, edit, disk, used>>
  /\ Untouched

\* What an edit records besides its files (LogAndApply).
EditOf(add0, add, del, log) ==
  [add0 |-> add0, add |-> add, del |-> del, log |-> log, next |-> next, last |-> lastSeq,
   stage |-> "append"]

IsBuilding == flush # None /\ flush \in pending

\* CompactMemTable failed, by itself or in LogAndApply: the error is recorded,
\* imm_ stays.
FlushFails ==
  /\ flush' = None /\ edit' = None
  /\ bgError' = TRUE
  /\ IF compaction = None THEN EndOfWork(TRUE, imm, l0)
                          ELSE awaiting' = {} /\ UNCHANGED scheduled
  /\ UNCHANGED <<writers, call, asleep, group, asked, kept, memory, compaction>>
  /\ Untouched

\* A table with no entry is not made.
WithTable == IF UNION imm = {} THEN disk ELSE [disk EXCEPT !.tables = With(@, flush, UNION imm)]

\* BuildTable: the table is written, synced and opened, and the edit begun:
\* the log that was current when imm_ was replaced is now the oldest needed.
\* The level is PickLevelForMemTableOutput's.
BuildTable ==
  /\ IsBuilding /\ up = "open"
  /\ disk' = WithTable
  /\ pending' = pending \ {flush}
  /\ LET table == IF UNION imm = {} THEN {} ELSE {flush}
     IN  edit' \in {EditOf(table, {}, {}, logfile), EditOf({}, table, {}, logfile)}
  /\ UNCHANGED <<client, memory, bgError, scheduled, flush, compaction, used>>
  /\ Untouched

\* Shutting down: the table is there, but not added to any version.
BuildTableInVain ==
  /\ IsBuilding /\ up = "closing"
  /\ disk' = WithTable
  /\ pending' = pending \ {flush}
  /\ FlushFails
  /\ UNCHANGED used

BuildTableFails ==
  /\ IsBuilding /\ Fault
  /\ disk' = [disk EXCEPT !.tables = Restrict(@, DOMAIN @ \ {flush})]
  /\ pending' = pending \ {flush}
  /\ FlushFails

\* PickCompaction: tables of level 0 with tables of the other levels; the
\* version they are in is referenced until the end.
StartCompaction ==
  /\ scheduled /\ IsIdle /\ CanStart /\ imm = {} /\ NeedsCompaction(l0)
  /\ \E inputs0 \in (SUBSET l0) \ {{}}, inputs1 \in SUBSET deep :
       compaction' = [inputs |-> inputs0 \cup inputs1, base |-> l0 \cup deep, output |-> 0,
                      stage |-> "merge"]
  /\ UNCHANGED <<client, memory, pending, bgError, scheduled, flush, edit, disk, used>>
  /\ Untouched

\* ... or a single table that overlaps nothing, which moves one level down.
MoveTable ==
  /\ scheduled /\ IsIdle /\ CanStart /\ imm = {} /\ NeedsCompaction(l0)
  /\ \E n \in l0 :
       /\ compaction' = [inputs |-> {n}, base |-> l0 \cup deep, output |-> 0, stage |-> "move"]
       /\ edit' = EditOf({}, {n}, {n}, logNumber)
  /\ UNCHANGED <<client, memory, pending, bgError, scheduled, flush, disk, used>>
  /\ Untouched

IsMerging == compaction # None /\ compaction.stage = "merge" /\ flush = None

\* The rest of BackgroundCompaction after DoCompactionWork failed.
CompactionFails ==
  /\ compaction' = None /\ edit' = None
  /\ pending' = pending \ {compaction.output}
  /\ bgError' = TRUE
  /\ EndOfWork(TRUE, imm, l0)
  /\ UNCHANGED <<writers, call, asleep, group, asked, kept, memory, flush>>
  /\ Untouched

\* Open-, write and FinishCompactionOutputFile.
WriteOutput ==
  /\ IsMerging /\ compaction.output = 0 /\ up = "open"
  /\ compaction' = [compaction EXCEPT !.output = next]
  /\ next' = next + 1
  /\ pending' = pending \cup {next}
  /\ disk' = [disk EXCEPT !.tables = With(@, next, Stored(compaction.inputs))]
  /\ UNCHANGED <<client, mem, imm, l0, deep, logNumber, logfile, lastSeq, bgError, scheduled,
                 flush, edit, used>>
  /\ Untouched

\* An error of the output file, or the process is shutting down.
MergeStops ==
  /\ IsMerging
  /\ \/ Fault
     \/ up = "closing" /\ UNCHANGED <<instance, used>>
  /\ CompactionFails
  /\ UNCHANGED disk

\* InstallCompactionResults: the inputs go, the output comes one level down.
InstallResults ==
  /\ IsMerging /\ compaction.output # 0 /\ up = "open"
  /\ compaction' = [compaction EXCEPT !.stage = "install"]
  /\ edit' = EditOf({}, {compaction.output}, compaction.inputs, logNumber)
  /\ UNCHANGED <<client, memory, pending, bgError, scheduled, flush, disk, used>>
  /\ Untouched

\* LogAndApply, which gives up the mutex to write the manifest.
IsApplying(stage) == edit # None /\ edit.stage = stage

AppendEdit ==
  /\ IsApplying("append")
  /\ disk' = [disk EXCEPT !.manifest = Append(@, Apply(Manifest, edit))]
  /\ edit' = [edit EXCEPT !.stage = "sync"]
  /\ UNCHANGED <<client, memory, pending, bgError, scheduled, flush, compaction, used>>
  /\ Untouched

\* The new version is current.
Installed ==
  /\ l0' = (l0 \ edit.del) \cup edit.add0
  /\ deep' = (deep \ edit.del) \cup edit.add
  /\ logNumber' = edit.log
  /\ edit' = None

SyncedManifest == [disk EXCEPT !.manifest = <<Manifest>>]

\* ... for the flush: imm_ is dropped.
FlushIsInstalled ==
  /\ IsApplying("sync") /\ flush # None
  /\ Installed
  /\ imm' = {} /\ flush' = None
  /\ LET compacted == IF compaction = None THEN {} ELSE compaction.base
     IN  disk' = DeleteObsoleteFiles(SyncedManifest, Live(pending, l0' \cup deep', compacted),
                                     logNumber')
  /\ IF compaction = None THEN EndOfWork(bgError, {}, l0')
                          ELSE awaiting' = {} /\ UNCHANGED scheduled
  /\ UNCHANGED <<writers, call, asleep, group, asked, kept, mem, logfile, next, lastSeq,
                 pending, bgError, compaction, used>>
  /\ Untouched

\* ... for the compaction: its outputs are not pending, its version not
\* referenced any more.
CompactionIsInstalled ==
  /\ IsApplying("sync") /\ flush = None
  /\ Installed
  /\ compaction' = None
  /\ pending' = pending \ {compaction.output}
  /\ disk' = IF compaction.stage = "move" THEN SyncedManifest
             ELSE DeleteObsoleteFiles(SyncedManifest, Live(pending', l0' \cup deep', {}), logNumber')
  /\ EndOfWork(bgError, imm, l0')
  /\ UNCHANGED <<writers, call, asleep, group, asked, kept, mem, imm, logfile, next, lastSeq,
                 bgError, flush, used>>
  /\ Untouched

\* The edit could not be written, or not be synced: it may be on disk or not.
ApplyFails ==
  /\ edit # None /\ Fault
  /\ IF flush # None THEN FlushFails /\ UNCHANGED pending ELSE CompactionFails
  /\ UNCHANGED disk

-----------------------------------------------------------------------------
(* Readers: a Get, or an iterator, references the version it found.        *)

StartRead(r) ==
  /\ up = "open" /\ pinned[r] = None /\ Use("reads")
  /\ pinned' = [pinned EXCEPT ![r] = l0 \cup deep]
  /\ UNCHANGED <<client, memory, work, disk, up, recovery>>

EndRead(r) ==
  /\ pinned[r] # None
  /\ pinned' = [pinned EXCEPT ![r] = None]
  /\ UNCHANGED <<client, memory, work, disk, up, recovery, instance, used>>

-----------------------------------------------------------------------------
(* The process: its end, planned or not, and its start.                    *)

\* ~DBImpl, which nobody may be using: wait for the background thread.
Close ==
  /\ up = "open" /\ Use("crashes")
  /\ \A w \in Thread : call[w] = None
  /\ \A r \in Reader : pinned[r] = None
  /\ up' = "closing"
  /\ UNCHANGED <<client, memory, work, disk, pinned, recovery>>

\* What is in memory is gone.
Gone ==
  /\ writers' = <<>> /\ call' = [w \in Thread |-> None]
  /\ asleep' = {} /\ awaiting' = {} /\ group' = None
  /\ mem' = {} /\ imm' = {} /\ l0' = {} /\ deep' = {}
  /\ logNumber' = 0 /\ logfile' = 0 /\ next' = 0 /\ lastSeq' = 0
  /\ pending' = {} /\ bgError' = FALSE /\ scheduled' = FALSE
  /\ flush' = None /\ compaction' = None /\ edit' = None
  /\ pinned' = [r \in Reader |-> None]
  /\ recovery' = None
  /\ UNCHANGED <<asked, kept>>

Closed ==
  /\ up = "closing" /\ ~scheduled
  /\ up' = "down" /\ Gone
  /\ UNCHANGED <<disk, instance, used>>

IsUp == up \in {"open", "closing", "recovering"}

\* What was written is in the system's hands.
ProcessCrash ==
  /\ IsUp /\ Use("crashes")
  /\ up' = "down" /\ Gone
  /\ UNCHANGED disk

\* Of every log at least what was synced is left, and of the edits a prefix.
MachineCrash ==
  /\ IsUp /\ Use("crashes")
  /\ up' = "down" /\ Gone
  /\ \E left \in [DOMAIN disk.logs -> 0 .. instance.writes], m \in ToSet(disk.manifest) :
       /\ \A n \in DOMAIN left :
            left[n] \in disk.logs[n].synced .. Len(disk.logs[n].records)
       /\ disk' =
            [disk EXCEPT
               !.logs = [n \in DOMAIN left |->
                           [records |-> SubSeq(disk.logs[n].records, 1, left[n]),
                            synced |-> left[n]]],
               !.manifest = <<m>>]

\* VersionSet::Recover, and the choice of the logs (DBImpl::Recover).  A table
\* counts as there when any file has its number.
Recover ==
  LET m == Manifest
      live == m.l0 \cup m.deep
  IN  /\ up = "down"
      /\ up' = IF live \subseteq DOMAIN disk.tables \cup DOMAIN disk.logs
               THEN "recovering" ELSE "corrupt"
      /\ l0' = m.l0 /\ deep' = m.deep /\ logNumber' = m.log
      /\ next' = m.next + 1 /\ lastSeq' = m.last
      /\ recovery' = [logs |-> {n \in DOMAIN disk.logs : n >= m.log}, tables |-> {}]
      /\ UNCHANGED <<client, mem, imm, logfile, work, disk, pinned, instance, used>>

Highest(a, b) == IF a < b THEN b ELSE a

\* Mutant of LastOf: what the manifest says is taken for the last number.
LastOf0(entries) == lastSeq

\* max_sequence
LastOf(entries) == Highest(lastSeq, Max({0} \cup {e.seq : e \in entries}))

\* RecoverLogFile: the oldest log is replayed and becomes a table.
RecoverLogFile ==
  /\ up = "recovering" /\ recovery.logs # {}
  /\ LET n == Min(recovery.logs)
         made == IF Logged(n) = {} THEN {} ELSE {next}
     IN  /\ recovery' = [logs |-> recovery.logs \ {n}, tables |-> recovery.tables \cup made]
         /\ disk' = IF made = {} THEN disk ELSE [disk EXCEPT !.tables = With(@, next, Logged(n))]
         /\ next' = Highest(next + Cardinality(made), n + 1)
         /\ lastSeq' = LastOf(Logged(n))
  /\ UNCHANGED <<client, mem, imm, l0, deep, logNumber, logfile, work, up, pinned, instance,
                 used>>

\* The rest of DB::Open: a new log, and a new manifest, which CURRENT names
\* once it is whole.
WithNewLog == [disk EXCEPT !.logs = With(@, next, NewLog)]

Open ==
  /\ up = "recovering" /\ recovery.logs = {}
  /\ up' = "open"
  /\ logfile' = next /\ logNumber' = next /\ next' = next + 1
  /\ l0' = l0 \cup recovery.tables
  /\ recovery' = None
  /\ disk' = DeleteObsoleteFiles(
               [WithNewLog EXCEPT
                  !.manifest = <<[l0 |-> l0', deep |-> deep, log |-> next, next |-> next',
                                  last |-> lastSeq]>>],
               Live({}, l0' \cup deep, {}), next)
  /\ scheduled' = NeedsCompaction(l0')
  /\ asked' = {}
  /\ UNCHANGED <<writers, call, asleep, awaiting, group, kept, mem, imm, deep, lastSeq, pending, bgError, flush, compaction, edit,
                 pinned, instance, used>>

\* The new manifest could not be made; the caller may open again.
OpenFails ==
  /\ up = "recovering" /\ recovery.logs = {} /\ Fault
  /\ up' = "down" /\ Gone
  /\ disk' = WithNewLog

-----------------------------------------------------------------------------
\* NewDB, and a first Open.
Init ==
  /\ up = "open"
  /\ writers = <<>> /\ call = [w \in Thread |-> None]
  /\ asleep = {} /\ awaiting = {} /\ group = None
  /\ mem = {} /\ imm = {} /\ l0 = {} /\ deep = {}
  /\ logNumber = 3 /\ logfile = 3 /\ next = 4 /\ lastSeq = 0
  /\ pending = {} /\ bgError = FALSE /\ scheduled = FALSE
  /\ flush = None /\ compaction = None /\ edit = None
  /\ pinned = [r \in Reader |-> None]
  /\ recovery = None
  /\ disk = [logs |-> [n \in {3} |-> NewLog], tables |-> <<>>,
             manifest |-> <<[l0 |-> {}, deep |-> {}, log |-> 3, next |-> 4, last |-> 0]>>]
  /\ asked = {} /\ kept = {}
  /\ instance \in Instances
  /\ used = [writes |-> 0, flushes |-> 0, reads |-> 0, crashes |-> 0, faults |-> 0]

Lead(w) ==
  \/ YieldError(w) \/ AwaitRoom(w) \/ SwitchMemTable(w) \/ SwitchFails(w)
  \/ NothingToWrite(w) \/ BeginGroup(w)
  \/ AwaitImm(w) \/ MemTableIsCompacted(w)

Log == AddRecord \/ AddRecordFails \/ SyncLog \/ SyncFails \/ InsertInto \/ EndGroup

Background ==
  \/ NothingToDo
  \/ StartFlush \/ BuildTable \/ BuildTableInVain \/ BuildTableFails
  \/ StartCompaction \/ MoveTable \/ WriteOutput \/ MergeStops \/ InstallResults
  \/ AppendEdit \/ FlushIsInstalled \/ CompactionIsInstalled \/ ApplyFails

Start == Recover \/ RecoverLogFile \/ Open \/ OpenFails

Next ==
  \/ \E w \in Thread : (\E sync \in BOOLEAN : Write(w, sync)) \/ CompactMemTable(w) \/ Lead(w)
  \/ Log
  \/ Background
  \/ \E r \in Reader : StartRead(r) \/ EndRead(r)
  \/ Start
  \/ Close \/ Closed \/ ProcessCrash \/ MachineCrash

\* Threads that can go on do, and the database is opened again.
Fairness ==
  /\ \A w \in Thread : WF_vars(Lead(w))
  /\ WF_vars(Log) /\ WF_vars(Background) /\ WF_vars(Closed) /\ WF_vars(Start)

Spec == Init /\ [][Next]_vars /\ Fairness

-----------------------------------------------------------------------------
(* Properties.                                                             *)

Entry == [id : Nat, seq : Nat]
CallRecord == [id : Nat, sync : BOOLEAN, force : BOOLEAN, stage : {"queue", "imm"}]
GroupRecord ==
  [size : Nat, entries : SUBSET Entry, sync : BOOLEAN,
   stage : {"append", "sync", "insert", "written", "failed", "unsynced"}]
EditRecord ==
  [add0 : SUBSET Nat, add : SUBSET Nat, del : SUBSET Nat, log : Nat, next : Nat, last : Nat,
   stage : {"append", "sync"}]
CompactionRecord ==
  [inputs : SUBSET Nat, base : SUBSET Nat, output : Nat, stage : {"merge", "install", "move"}]

\* None is no number and no record.
ASSUME NoneAssumption ==
  /\ None \notin Nat /\ None \notin CallRecord /\ None \notin GroupRecord
  /\ None \notin EditRecord /\ None \notin CompactionRecord

MaybeOneOf(S) == S \cup {None}

\* The variables have the declared types.
TypeOK ==
  /\ up \in {"open", "closing", "down", "recovering", "corrupt"}
  /\ writers \in Seq(Thread)
  /\ call \in [Thread -> MaybeOneOf(CallRecord)]
  /\ asleep \subseteq ToSet(writers) /\ awaiting \subseteq Thread
  /\ group \in MaybeOneOf(GroupRecord) /\ (group # None => group.size \in 1 .. Len(writers))
  /\ mem \subseteq Entry /\ imm \subseteq SUBSET Entry
  /\ l0 \subseteq Nat /\ deep \subseteq Nat
  /\ {logNumber, logfile, next, lastSeq} \subseteq Nat
  /\ pending \subseteq Nat /\ {bgError, scheduled} \subseteq BOOLEAN
  /\ flush \in MaybeOneOf(Nat) /\ compaction \in MaybeOneOf(CompactionRecord)
  /\ edit \in MaybeOneOf(EditRecord)
  /\ pinned \in [Reader -> MaybeOneOf(SUBSET Nat)]
  /\ DOMAIN disk.logs \subseteq Nat /\ DOMAIN disk.tables \subseteq Nat
  /\ asked \subseteq Nat /\ kept \subseteq Nat

\* What a read would see, now or after the next open.
Durable ==
  LET m == Manifest
  IN  Stored(m.l0 \cup m.deep) \cup UNION {Logged(n) : n \in {n \in DOMAIN disk.logs : n >= m.log}}
Visible ==
  IF up \in {"open", "closing"}
  THEN {e \in mem \cup (UNION imm) \cup Stored(l0 \cup deep) : e.seq <= lastSeq}
  ELSE Durable

\* The engine keeps the promise of DurableWrites: no switch, flush, merge,
\* removal of files or recovery, at whatever moment the process or the machine
\* ends, loses a write it must keep or brings back one that was given up.
Writes == INSTANCE DurableWrites
            WITH WriteId <- 1 .. MaxWrites, db <- {e.id : e \in Visible}
ImplementsDurableWrites == Writes!Spec

\* A table somebody may open -- of the current version, of the manifest's, of
\* a reader's, of the version a compaction reads and its output -- is there and
\* never changes: it is not collected too soon, and its number is not given to
\* another one, whatever numbers the last process had used without saying so.
TablesInUse ==
  l0 \cup deep \cup Manifest.l0 \cup Manifest.deep
  \cup (UNION {pinned[r] : r \in {r \in Reader : pinned[r] # None}})
  \cup (IF compaction = None THEN {} ELSE compaction.base \cup ({compaction.output} \ {0}))
TablesInUseStay ==
  [][\A n \in TablesInUse' :
       /\ n \in DOMAIN disk'.tables
       /\ n \in TablesInUse => disk'.tables[n] = disk.tables[n]]_vars

\* No two writes have the same sequence number: numbers of failed groups and
\* of logs that were replayed are not given again while something that carries
\* them may be read.
SequenceNumbersAreUnique ==
  \A e, f \in Visible \cup (IF group = None THEN {} ELSE group.entries) :
    e.seq = f.seq => e.id = f.id

StoreIsSound == TypeOK /\ SequenceNumbersAreUnique

\* Every call comes back: no thread sleeps through the signal meant for it and
\* none waits for a compaction that nobody scheduled.
CallsReturn == \A w \in Thread : call[w] # None ~> call[w] = None
=============================================================================
