------------------------------ MODULE Levels -------------------------------
(***************************************************************************)
(* The levels of the storage engine (leveldb-library/db: version_set.cc,   *)
(* and the parts of db_impl.cc that read and rewrite tables): where a      *)
(* memtable is flushed to, which tables a compaction takes, which entries  *)
(* it drops, and how a read with a snapshot searches memtables and levels. *)
(*                                                                         *)
(* A table is the set of its entries, an entry a key, its sequence number  *)
(* and whether it is a deletion marker: the value does not matter.  Sizes  *)
(* are counted in entries.  Where the code weighs bytes of another level   *)
(* against a limit, either outcome is possible.  Which table a compaction  *)
(* starts from (the level's score, its compaction pointer, seeks charged   *)
(* to a table) is a free choice.                                           *)
(*                                                                         *)
(* Crashes, failures and the threads' hand-over are the subject of Store.  *)
(***************************************************************************)
EXTENDS Naturals, FiniteSets, Sequences, SequencesExt, FiniteSetsExt, TLC

CONSTANTS
  Key,        \* numbers, for their order
  None,
  Instances   \* bounds: the levels, the keys used, entries of an output table, writes,
              \* deletions among them, snapshots, calls of CompactRange; and whether
              \* the levels fill up so far that they call for a compaction

Ranges == [from : Key, to : Key]

\* A CompactRange: the level it is at, all of its range and what is left of it,
\* and the level where it ends.
ManualCompaction == [level : Nat, whole : Ranges, range : Ranges, last : Nat]

ASSUME LevelsAssumption ==
  /\ Key \subseteq Nat /\ Key # {}
  /\ None \notin ManualCompaction
  /\ \A i \in Instances :
       /\ i \in [levels : Nat, keys : SUBSET Key, table : Nat, writes : Nat,
                 deletes : Nat, snapshots : Nat, manual : Nat, automatic : BOOLEAN]
       /\ i.table > 0 /\ i.levels >= 2

VARIABLES
  written,    \* every entry ever written, for the properties
  mem, imm,   \* the entries of the memtables; imm is {} when there is none
  levels,     \* the current version: the tables of each level
  next,       \* next_file_number_; only tables of level 0 are told apart by it
  snapshots,  \* sequence numbers that readers hold
  job,        \* the compaction whose merge is in progress, or None
  manual,     \* the CompactRange in progress, or None
  instance, calls  \* the bounds, and the calls of CompactRange

vars == <<written, mem, imm, levels, next, snapshots, job, manual, instance, calls>>

NumLevels == instance.levels
Level == 0 .. NumLevels - 1

\* 2 of 7 in the code; of fewer levels the last.
MaxMemCompactLevel == Min({2, NumLevels - 1})

-----------------------------------------------------------------------------
(* Keys, tables and ranges.                                                *)

\* Internal keys: by user key, then the newest first.
Before(a, b) == a.key < b.key \/ (a.key = b.key /\ a.seq > b.seq)

Smallest(f) == CHOOSE e \in f.entries : \A x \in f.entries : ~Before(x, e)
Largest(f) == CHOOSE e \in f.entries : \A x \in f.entries : ~Before(e, x)

\* User keys from the first to the last of a table, or of several.
Range1(f) == [from |-> Smallest(f).key, to |-> Largest(f).key]
RangeOf(files) ==
  [from |-> Min({Range1(f).from : f \in files}), to |-> Max({Range1(f).to : f \in files})]

Overlaps(f, r) == ~(Range1(f).to < r.from) /\ ~(Range1(f).from > r.to)

EntriesOf(files) == UNION {f.entries : f \in files}

LastSequence == Cardinality(written)

\* At level 0 the range grows until no table sticks out of it.
Widened(v, r) ==
  LET closed == {w \in Ranges :
                   /\ w.from <= r.from /\ r.to <= w.to
                   /\ \A f \in v[0] : Overlaps(f, w) =>
                        w.from <= Range1(f).from /\ Range1(f).to <= w.to}
  IN  [from |-> Max({w.from : w \in closed}), to |-> Min({w.to : w \in closed})]

GetOverlappingInputs(v, level, r) ==
  LET wide == IF level = 0 THEN Widened(v, r) ELSE r
  IN  {f \in v[level] : Overlaps(f, wide)}

-----------------------------------------------------------------------------
(* Writing.                                                                *)

Add(k, del) ==
  /\ k \in instance.keys /\ LastSequence < instance.writes
  /\ del => Cardinality({e \in written : e.del}) < instance.deletes
  /\ LET e == [key |-> k, seq |-> LastSequence + 1, del |-> del]
     IN  written' = written \cup {e} /\ mem' = mem \cup {e}
  /\ UNCHANGED <<imm, levels, next, snapshots, job, manual, instance, calls>>

SwitchMemTable ==
  /\ mem # {} /\ imm = {}
  /\ imm' = mem /\ mem' = {}
  /\ UNCHANGED <<written, levels, next, snapshots, job, manual, instance, calls>>

\* Mutant of PickLevelForMemTableOutput: what is there is not looked at.
PickAnyLevel(r) == {MaxMemCompactLevel}

\* PickLevelForMemTableOutput: down while nothing overlaps; it may stop where
\* the level after the next has much in the way.
PickLevelForMemTableOutput(r) ==
  LET IsClear(level) == \A f \in levels[level] : ~Overlaps(f, r)
      CanReach(level) == level = 0 \/ \A l \in 0 .. level : IsClear(l)
      MayStop(level) ==
        \/ level = MaxMemCompactLevel \/ ~CanReach(level + 1)
        \/ level + 2 \in Level /\ ~IsClear(level + 2)
  IN  {level \in 0 .. MaxMemCompactLevel : CanReach(level) /\ MayStop(level)}

\* CompactMemTable: between compactions, or within one.
CompactMemTable ==
  /\ imm # {}
  /\ LET f == [number |-> next, entries |-> imm]
     IN  \E level \in PickLevelForMemTableOutput(Range1(f)) :
           levels' = [levels EXCEPT ![level] = @ \cup {f}]
  /\ imm' = {} /\ next' = next + 1
  /\ UNCHANGED <<written, mem, snapshots, job, manual, instance, calls>>

-----------------------------------------------------------------------------
(* What a compaction takes (SetupOtherInputs), from the version it is      *)
(* picked in, which is the current one.                                    *)

\* Mutant of AddBoundaryInputs: nothing is added.
AddNoInputs(files, inputs) == inputs

\* FindSmallestBoundaryFile: of the tables that go on with older entries of the
\* last user key taken, the first.
NextBoundary(files, taken) ==
  LET boundary == {f \in files : \E last \in EntriesOf(taken) :
                     /\ \A x \in EntriesOf(taken) : ~Before(last, x)
                     /\ Smallest(f).key = last.key /\ Before(last, Smallest(f))}
  IN  {f \in boundary : \A g \in boundary : ~Before(Smallest(g), Smallest(f))}

\* They come along, until there is none.
AddBoundaryInputs(files, inputs) ==
  LET Taken[n \in Nat] ==
        IF n = 0 THEN inputs ELSE Taken[n - 1] \cup NextBoundary(files, Taken[n - 1])
  IN  Taken[Cardinality(files)]

\* Both sets of inputs, given the first tables of the upper one.  If more of
\* the upper level fits without taking more of the lower one it may be taken.
SetupOtherInputs(level, first) ==
  LET in0 == AddBoundaryInputs(levels[level], first)
      in1 == GetOverlappingInputs(levels, level + 1, RangeOf(in0))
      more0 == AddBoundaryInputs(levels[level],
                 GetOverlappingInputs(levels, level, RangeOf(in0 \cup in1)))
      more1 == GetOverlappingInputs(levels, level + 1, RangeOf(more0))
      fits == /\ in1 # {}
              /\ Cardinality(more0) > Cardinality(in0)
              /\ Cardinality(more1) = Cardinality(in1)
  IN  {<<in0, in1>>} \cup (IF fits THEN {<<more0, more1>>} ELSE {})

\* Mutant of SmallestSnapshot: the snapshots are forgotten.
NoSnapshot == LastSequence

\* Older entries than the newest one up to here are of no use to anybody.
SmallestSnapshot == IF snapshots = {} THEN LastSequence ELSE Min(snapshots)

Job(level, in0, in1) ==
  [level |-> level, in0 |-> in0, in1 |-> in1, version |-> levels,
   smallest |-> SmallestSnapshot]

Grandparents(level, in0, in1) ==
  IF level + 2 \in Level THEN GetOverlappingInputs(levels, level + 2, RangeOf(in0 \cup in1))
  ELSE {}

IsTrivialMove(in0, in1) == Cardinality(in0) = 1 /\ in1 = {}

CanCompact == job = None /\ imm = {}

\* PickCompaction's inputs for the table it starts from.
Picked(level, f) ==
  SetupOtherInputs(level, IF level = 0 THEN GetOverlappingInputs(levels, 0, Range1(f)) ELSE {f})

PickCompaction(level, f) ==
  /\ CanCompact /\ instance.automatic
  /\ \E inputs \in Picked(level, f) :
       /\ ~IsTrivialMove(inputs[1], inputs[2]) \/ Grandparents(level, inputs[1], inputs[2]) # {}
       /\ job' = Job(level, inputs[1], inputs[2])
  /\ UNCHANGED <<written, mem, imm, levels, next, snapshots, manual, instance, calls>>

\* A table that nothing in the next level overlaps is moved there as it is.
MoveTable(level, f) ==
  /\ CanCompact /\ instance.automatic
  /\ \E inputs \in Picked(level, f) :
       /\ IsTrivialMove(inputs[1], inputs[2])
       /\ levels' = [levels EXCEPT ![level] = @ \ inputs[1], ![level + 1] = @ \cup inputs[1]]
  /\ UNCHANGED <<written, mem, imm, next, snapshots, job, manual, instance, calls>>

-----------------------------------------------------------------------------
(* The merge (DoCompactionWork), of which only the start and the end are   *)
(* seen: meanwhile a memtable may be flushed.                              *)

Inputs(j) == EntriesOf(j.in0 \cup j.in1)

\* Mutant of IsBaseLevelForKey: nobody asks.
AnyLevelIsBase(j, k) == TRUE

IsBaseLevelForKey(j, k) ==
  \A level \in j.level + 2 .. NumLevels - 1 :
    \A f \in j.version[level] : ~(Range1(f).from <= k /\ k <= Range1(f).to)

\* Hidden by a newer entry that every snapshot sees, or a deletion marker with
\* nothing left to delete.
IsDropped(j, e) ==
  \/ \E x \in Inputs(j) : x.key = e.key /\ e.seq < x.seq /\ x.seq <= j.smallest
  \/ e.del /\ e.seq <= j.smallest /\ IsBaseLevelForKey(j, e.key)

\* The entries left over, in tables of instance.table of them: an output is
\* closed when it is full, and opened for an entry.
Outputs(j) ==
  LET left == {e \in Inputs(j) : ~IsDropped(j, e)}
      Number(e) == Cardinality({x \in left : Before(x, e)}) \div instance.table
  IN  {[number |-> 0, entries |-> {e \in left : Number(e) = i}] : i \in {Number(e) : e \in left}}

\* InstallCompactionResults.
FinishCompaction ==
  /\ job # None
  /\ levels' = [levels EXCEPT ![job.level] = @ \ job.in0,
                              ![job.level + 1] = (@ \ job.in1) \cup Outputs(job)]
  /\ job' = None
  /\ UNCHANGED <<written, mem, imm, next, snapshots, manual, instance, calls>>

-----------------------------------------------------------------------------
(* CompactRange: the memtable, then level by level, and within a level     *)
(* piece by piece.                                                         *)

CompactRange(r) ==
  /\ manual = None /\ calls < instance.manual
  /\ {r.from, r.to} \subseteq instance.keys /\ r.from <= r.to
  /\ calls' = calls + 1
  /\ manual' = [level |-> 0, whole |-> r, range |-> r,
                last |-> Max({1} \cup {l \in 1 .. NumLevels - 1 :
                                         \E f \in levels[l] : Overlaps(f, r)})]
  \* TEST_CompactMemTable
  /\ IF mem = {} THEN UNCHANGED <<mem, imm>> ELSE imm = {} /\ imm' = mem /\ mem' = {}
  /\ UNCHANGED <<written, levels, next, snapshots, job, instance>>

\* Not too much at once, except at level 0.
FirstOf(files, level) ==
  LET UpTo(f) == {g \in files : ~Before(Smallest(f), Smallest(g))}
      enough == {f \in files : Cardinality(EntriesOf(UpTo(f))) >= instance.table}
  IN  IF level = 0 \/ enough = {} THEN files
      ELSE UpTo(CHOOSE f \in enough : \A g \in enough : ~Before(Smallest(g), Smallest(f)))

ManualInputs == GetOverlappingInputs(levels, manual.level, manual.range)

\* A piece is merged, even where it could be moved; the next one starts at its
\* last key.
CompactPiece ==
  /\ CanCompact /\ manual # None /\ ManualInputs # {}
  /\ \E inputs \in SetupOtherInputs(manual.level, FirstOf(ManualInputs, manual.level)) :
       LET end == CHOOSE f \in inputs[1] :
                    \A g \in inputs[1] : ~Before(Smallest(f), Smallest(g))
       IN  /\ job' = Job(manual.level, inputs[1], inputs[2])
           /\ manual' = [manual EXCEPT !.range.from = Largest(end).key]
  /\ UNCHANGED <<written, mem, imm, levels, next, snapshots, instance, calls>>

\* Nothing is left in the range at this level: the next level, with the whole
\* range, or the end.
LevelIsDone ==
  /\ CanCompact /\ manual # None /\ ManualInputs = {}
  /\ manual' = IF manual.level + 1 < manual.last
               THEN [manual EXCEPT !.level = @ + 1, !.range = manual.whole] ELSE None
  /\ UNCHANGED <<written, mem, imm, levels, next, snapshots, job, instance, calls>>

-----------------------------------------------------------------------------
(* Reading.                                                                *)

GetSnapshot ==
  /\ Cardinality(snapshots) < instance.snapshots
  /\ LastSequence \notin snapshots
  /\ snapshots' = snapshots \cup {LastSequence}
  /\ UNCHANGED <<written, mem, imm, levels, next, job, manual, instance, calls>>

ReleaseSnapshot(s) ==
  /\ snapshots' = snapshots \ {s}
  /\ UNCHANGED <<written, mem, imm, levels, next, job, manual, instance, calls>>

\* The newest entry of a key up to a sequence number, if there is one.
Newest(entries, k, s) ==
  LET found == {e \in entries : e.key = k /\ e.seq <= s}
  IN  {e \in found : \A x \in found : x.seq <= e.seq}

\* Version::Get, in level 0: the newest table first.
InLevel0(k, s) ==
  LET holding == {f \in levels[0] : Range1(f).from <= k /\ k <= Range1(f).to
                                    /\ Newest(f.entries, k, s) # {}}
  IN  UNION {Newest(f.entries, k, s) :
               f \in {f \in holding : \A g \in holding : g.number <= f.number}}

\* In the others, FindFile: the first table that does not end before the key.
InLevel(level, k, s) ==
  LET target == [key |-> k, seq |-> s]
      after == {f \in levels[level] : ~Before(Largest(f), target)}
  IN  UNION {Newest(f.entries, k, s) :
               f \in {f \in after : \A g \in after : ~Before(Largest(g), Largest(f))}}

\* DBImpl::Get: the first place that knows of the key has the answer.
Places(k, s) ==
  <<Newest(mem, k, s), Newest(imm, k, s), InLevel0(k, s)>>
  \o [level \in 1 .. NumLevels - 1 |-> InLevel(level, k, s)]

ValueOf(entries) == {e.seq : e \in {e \in entries : ~e.del}}

Get(k, s) ==
  LET places == Places(k, s)
      known == {i \in DOMAIN places : places[i] # {}}
  IN  IF known = {} THEN {} ELSE ValueOf(places[Min(known)])

-----------------------------------------------------------------------------
Init ==
  /\ instance \in Instances
  /\ written = {} /\ mem = {} /\ imm = {}
  /\ levels = [level \in Level |-> {}]
  /\ next = 1 /\ snapshots = {} /\ job = None /\ manual = None
  /\ calls = 0

\* Past two tables of a level that overlap nothing is followed: the assertion
\* ends the process, or without it searches are left to chance.
Sorted ==
  \A level \in Level \ {0} : \A f, g \in levels[level] :
    f # g => Before(Largest(f), Smallest(g)) \/ Before(Largest(g), Smallest(f))

Next ==
  /\ Sorted
  /\ \/ \E k \in Key, del \in BOOLEAN : Add(k, del)
     \/ SwitchMemTable \/ CompactMemTable
     \/ \E level \in 0 .. NumLevels - 2 : \E f \in levels[level] :
          PickCompaction(level, f) \/ MoveTable(level, f)
     \/ FinishCompaction
     \/ \E r \in Ranges : CompactRange(r)
     \/ CompactPiece \/ LevelIsDone
     \/ GetSnapshot
     \/ \E s \in snapshots : ReleaseSnapshot(s)

Spec == Init /\ [][Next]_vars

-----------------------------------------------------------------------------
(* Properties.                                                             *)

Entry == [key : Key, seq : Nat, del : BOOLEAN]

\* The variables have the declared types; a table is never empty.
TypeOK ==
  /\ written \subseteq Entry /\ mem \subseteq written /\ imm \subseteq written
  /\ DOMAIN levels = Level
  /\ \A level \in Level : \A f \in levels[level] :
       f.number < next /\ f.entries # {} /\ f.entries \subseteq written
  /\ snapshots \subseteq 0 .. LastSequence
  /\ job # None => job.in0 \subseteq levels[job.level] /\ job.in1 \subseteq levels[job.level + 1]

\* No two tables of a level above 0 overlap (the assertion of
\* VersionSet::Builder): each flush and each merge finds the place of its
\* tables free, whatever the other one did meanwhile.  The one exception is a
\* piece of CompactRange, whose tables may have a gap between them: a memtable
\* may be flushed into it, at the level that the merge goes on to write to.
GapWasFilled ==
  /\ manual # None /\ job # None
  /\ \E f \in levels[job.level + 1] \ job.version[job.level + 1] :
       /\ Overlaps(f, RangeOf(job.in0 \cup job.in1))
       /\ \A g \in job.in0 \cup job.in1 : ~Overlaps(f, Range1(g))
OnlyFilledGapsOverlap ==
  [][Sorted => Sorted' \/ (job' = None /\ GapWasFilled)]_vars

\* Of one key, the entries of a level are newer than those of the levels below
\* it: the search may stop at the first it finds.
NewerIsAbove ==
  \A i, j \in Level : i < j =>
    \A e \in EntriesOf(levels[i]), f \in EntriesOf(levels[j]) :
      e.key = f.key => e.seq > f.seq
LevelsAreOrdered == TypeOK /\ NewerIsAbove

\* A read gives what was written last before its snapshot, or before now: no
\* flush, merge or move loses a value a snapshot needs or brings back one that
\* was overwritten or deleted.
ReadsAreRight ==
  Sorted => \A k \in Key, s \in snapshots \cup {LastSequence} :
    Get(k, s) = ValueOf(Newest(written, k, s))

\* What a merge leaves of a key begins with the same entry as before, or was a
\* deletion marker and nothing is left: a marker is dropped when it is obsolete
\* (DoCompactionWork), not while it still hides something older.
MergesKeepTheNewest ==
  [][job # None /\ job' = None =>
       \A k \in Key :
         LET Top(v) == Newest(UNION {EntriesOf(v[l]) : l \in Level}, k, LastSequence)
         IN  \/ Top(levels') = Top(levels)
             \/ Top(levels') = {} /\ ValueOf(Top(levels)) = {}]_vars
=============================================================================
