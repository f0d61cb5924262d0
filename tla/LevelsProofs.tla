---------------------------- MODULE LevelsProofs ----------------------------
(***************************************************************************)
(* Proofs about Levels, for any number of levels, any keys and tables of   *)
(* any size.                                                               *)
(*                                                                         *)
(* What has to be shown is that the tables a compaction takes leave a      *)
(* place for what it writes, although a memtable may be flushed meanwhile, *)
(* and leave nothing older behind in the upper level.  The first holds     *)
(* because the ranges of the inputs are connected (but for the pieces of   *)
(* CompactRange), the second because no boundary table is left out.        *)
(*                                                                         *)
(* The two loops of the code, the one that adds boundary tables and the    *)
(* one that widens a range, are dealt with by their fixed points: NatStep  *)
(* is the induction for them.                                              *)
(*                                                                         *)
(* That reads are right needs more: that a merge drops only what nobody    *)
(* can miss.  That is so when the tables it takes of the lower level hold  *)
(* all that the level has of the keys it merges (InputsAreWhole).          *)
(* SetupOtherInputs adds boundary tables to the upper inputs only, so that *)
(* snapshots can part a key and then it fails.  The theorems on reading    *)
(* have it as their condition, and it is proved for who takes no snapshots.*)
(***************************************************************************)
EXTENDS Levels, ProofBasics

-----------------------------------------------------------------------------
(* Entries and tables.                                                     *)

\* Every entry has a sequence number of its own.
History(W) ==
  /\ W \subseteq Entry /\ IsFiniteSet(W)
  /\ \A a, b \in W : a.seq = b.seq => a = b

TableOf(W) == [number : Nat, entries : (SUBSET W) \ {{}}]

LEMMA BeforeIsOrder ==
  ASSUME NEW W, History(W), NEW a \in W, NEW b \in W, NEW c \in W
  PROVE  /\ ~ Before(a, a)
         /\ Before(a, b) /\ Before(b, c) => Before(a, c)
         /\ Before(a, b) => ~ Before(b, a)
         /\ a = b \/ Before(a, b) \/ Before(b, a)
         /\ ~ Before(b, a) /\ Before(b, c) => Before(a, c)
         /\ Before(a, b) /\ ~ Before(c, b) => Before(a, c)
         /\ ~ Before(b, a) => a.key <= b.key
         /\ Before(a, b) /\ a.key = b.key => a.seq > b.seq
         /\ a.key \in Key /\ a.key \in Nat /\ a.seq \in Nat
<1>1. a \in Entry /\ b \in Entry /\ c \in Entry /\ (a.seq = b.seq => a = b)
  BY DEF History
<1>2. /\ a.key \in Nat /\ b.key \in Nat /\ c.key \in Nat /\ a.key \in Key
      /\ a.seq \in Nat /\ b.seq \in Nat /\ c.seq \in Nat
  BY <1>1, LevelsAssumption DEF Entry
<1> QED BY <1>1, <1>2 DEF Before

LEMMA FirstAndLast ==
  ASSUME NEW W, History(W), NEW E \in SUBSET W, E # {}
  PROVE  /\ \E m \in E : \A x \in E : ~ Before(x, m)
         /\ \E m \in E : \A x \in E : ~ Before(m, x)
<1>0. IsFiniteSet(E)
  BY FS_Subset DEF History
<1>1. \E m \in E : \A x \in E : ~ Before(x, m)
  <2> DEFINE R == {p \in E \X E : Before(p[1], p[2])}
  <2>1. \A x, y \in E : <<x, y>> \in R <=> Before(x, y)
    OBVIOUS
  <2>2. \A x, y, z \in E : ~ Before(x, x) /\ (Before(x, y) /\ Before(y, z) => Before(x, z))
    BY BeforeIsOrder
  <2> HIDE DEF R
  <2>3. \E m \in E : \A x \in E : <<x, m>> \notin R
    BY <1>0, <2>1, <2>2, FiniteMinimal
  <2> QED BY <2>1, <2>3
<1>2. \E m \in E : \A x \in E : ~ Before(m, x)
  <2> DEFINE R == {p \in E \X E : Before(p[2], p[1])}
  <2>1. \A x, y \in E : <<x, y>> \in R <=> Before(y, x)
    OBVIOUS
  <2>2. \A x, y, z \in E : ~ Before(x, x) /\ (Before(z, y) /\ Before(y, x) => Before(z, x))
    BY BeforeIsOrder
  <2> HIDE DEF R
  <2>3. \E m \in E : \A x \in E : <<x, m>> \notin R
    BY <1>0, <2>1, <2>2, FiniteMinimal
  <2> QED BY <2>1, <2>3
<1> QED BY <1>1, <1>2

LEMMA TableFacts ==
  ASSUME NEW W, History(W), NEW f \in TableOf(W)
  PROVE  /\ Smallest(f) \in f.entries /\ Largest(f) \in f.entries
         /\ Smallest(f) \in W /\ Largest(f) \in W /\ f.entries \subseteq W
         /\ \A x \in f.entries : ~ Before(x, Smallest(f)) /\ ~ Before(Largest(f), x)
         /\ Range1(f) = [from |-> Smallest(f).key, to |-> Largest(f).key]
         /\ Range1(f).from \in Key /\ Range1(f).to \in Key
         /\ Range1(f).from \in Nat /\ Range1(f).to \in Nat
         /\ \A x \in f.entries : Range1(f).from <= x.key /\ x.key <= Range1(f).to
         /\ Range1(f).from <= Range1(f).to
<1>1. f.entries \in SUBSET W /\ f.entries # {}
  BY DEF TableOf
<1>2. /\ Smallest(f) \in f.entries /\ Largest(f) \in f.entries
      /\ \A x \in f.entries : ~ Before(x, Smallest(f)) /\ ~ Before(Largest(f), x)
  <2>1. /\ \E m \in f.entries : \A x \in f.entries : ~ Before(x, m)
        /\ \E m \in f.entries : \A x \in f.entries : ~ Before(m, x)
    BY <1>1, FirstAndLast
  <2> QED BY <2>1 DEF Smallest, Largest
<1>3. Range1(f) = [from |-> Smallest(f).key, to |-> Largest(f).key]
  BY DEF Range1
<1>4. \A x \in f.entries : Smallest(f).key <= x.key /\ x.key <= Largest(f).key
  BY <1>1, <1>2, BeforeIsOrder
<1> QED BY <1>1, <1>2, <1>3, <1>4, BeforeIsOrder

-----------------------------------------------------------------------------
(* Ranges.                                                                 *)

LEMMA RangeTypes ==
  ASSUME NEW r \in Ranges
  PROVE  r.from \in Key /\ r.to \in Key /\ r.from \in Nat /\ r.to \in Nat
BY LevelsAssumption DEF Ranges

LEMMA RangeOfFacts ==
  ASSUME NEW W, History(W), NEW files \in SUBSET TableOf(W), IsFiniteSet(files), files # {}
  PROVE  /\ RangeOf(files) \in Ranges
         /\ \E f \in files : RangeOf(files).from = Range1(f).from
         /\ \E f \in files : RangeOf(files).to = Range1(f).to
         /\ \A f \in files : RangeOf(files).from <= Range1(f).from
                             /\ Range1(f).to <= RangeOf(files).to
<1> DEFINE A == {Range1(f).from : f \in files}
           B == {Range1(f).to : f \in files}
<1>1. \A f \in files : /\ Range1(f).from \in Key /\ Range1(f).to \in Key
                       /\ Range1(f).from \in Nat /\ Range1(f).to \in Nat
  BY TableFacts
<1>2. A \in SUBSET Nat /\ A # {} /\ A \subseteq Key
  BY <1>1
<1>3. B \in SUBSET Nat /\ B # {} /\ B \subseteq Key
  BY <1>1
<1>4. IsFiniteSet(B)
  <2> DEFINE g == [f \in files |-> Range1(f).to]
  <2>1. IsFiniteSet({g[f] : f \in files})
    BY ImageIsFinite
  <2>2. B = {g[f] : f \in files}
    OBVIOUS
  <2> QED BY <2>1, <2>2
<1>5. RangeOf(files) = [from |-> Min(A), to |-> Max(B)]
  BY DEF RangeOf
<1>6. Min(A) \in A /\ \A x \in A : Min(A) <= x
  <2> HIDE DEF A
  <2> QED BY <1>2, MinIsThere
<1>7. Max(B) \in B /\ \A x \in B : x <= Max(B)
  <2> HIDE DEF B
  <2> QED BY <1>3, <1>4, MaxIsThere
<1>8. \A f \in files : Range1(f).from \in A /\ Range1(f).to \in B
  OBVIOUS
<1>9. (\E f \in files : Min(A) = Range1(f).from) /\ (\E f \in files : Max(B) = Range1(f).to)
  BY <1>6, <1>7
<1> HIDE DEF A, B
<1>10. RangeOf(files).from = Min(A) /\ RangeOf(files).to = Max(B)
  BY <1>5
<1>11. RangeOf(files) \in Ranges
  <2>1. Min(A) \in Key /\ Max(B) \in Key
    BY <1>2, <1>3, <1>6, <1>7
  <2> QED BY <1>5, <2>1 DEF Ranges
<1> QED BY <1>6, <1>7, <1>8, <1>9, <1>10, <1>11

\* w is wide enough for r, and no table sticks out of it.
Closed(files, r, w) ==
  /\ w \in Ranges /\ w.from <= r.from /\ r.to <= w.to
  /\ \A f \in files : Overlaps(f, w) => w.from <= Range1(f).from /\ Range1(f).to <= w.to

LEMMA WidenedIsLeast ==
  ASSUME NEW W, History(W), NEW files \in SUBSET TableOf(W), IsFiniteSet(files), NEW v, v[0] = files,
         NEW r \in Ranges
  PROVE  /\ Closed(files, r, Widened(v, r))
         /\ \A w : Closed(files, r, w) => w.from <= Widened(v, r).from /\ Widened(v, r).to <= w.to
<1> DEFINE C == {w \in Ranges : Closed(files, r, w)}
           A == {w.from : w \in C}
           B == {w.to : w \in C}
           all == [from |-> Min({r.from} \cup {Range1(f).from : f \in files}),
                   to |-> Max({r.to} \cup {Range1(f).to : f \in files})]
<1>1. \A f \in files : /\ Range1(f).from \in Key /\ Range1(f).to \in Key
                      /\ Range1(f).from \in Nat /\ Range1(f).to \in Nat
  BY TableFacts
<1>2. Closed(files, r, all)
  <2> DEFINE F == {r.from} \cup {Range1(f).from : f \in files}
             T == {r.to} \cup {Range1(f).to : f \in files}
  <2>1. F \in SUBSET Nat /\ F # {} /\ F \subseteq Key /\ r.from \in F
    BY <1>1, RangeTypes
  <2>2. T \in SUBSET Nat /\ T # {} /\ T \subseteq Key /\ r.to \in T
    BY <1>1, RangeTypes
  <2>3. IsFiniteSet(T)
    <3> DEFINE g == [f \in files |-> Range1(f).to]
    <3>1. IsFiniteSet({g[f] : f \in files})
      <4> HIDE DEF g
      <4> QED BY ImageIsFinite
    <3>2. IsFiniteSet({r.to})
      BY FS_Singleton
    <3>3. {g[f] : f \in files} = {Range1(f).to : f \in files}
      OBVIOUS
    <3> QED BY <3>1, <3>2, <3>3, FS_Union
  <2>4. \A f \in files : Range1(f).from \in F /\ Range1(f).to \in T
    OBVIOUS
  <2> HIDE DEF F, T
  <2>5. Min(F) \in F /\ \A x \in F : Min(F) <= x
    BY <2>1, MinIsThere
  <2>6. Max(T) \in T /\ \A x \in T : x <= Max(T)
    BY <2>2, <2>3, MaxIsThere
  <2>7. all = [from |-> Min(F), to |-> Max(T)]
    BY DEF F, T
  <2> QED BY <2>1, <2>2, <2>4, <2>5, <2>6, <2>7 DEF Closed, Ranges
<1>3. C # {} /\ \A w \in C : w.from \in A /\ w.to \in B
  BY <1>2 DEF Closed
<1>4. A \in SUBSET Nat /\ A # {} /\ B \in SUBSET Nat /\ B # {}
  BY <1>3, RangeTypes
<1>5. IsFiniteSet(A)
  <2>1. \A x \in A : x <= r.from
    BY DEF Closed
  <2> HIDE DEF A
  <2> QED BY <1>4, <2>1, RangeTypes, FS_BoundedSetOfNaturals
<1>6. Widened(v, r) = [from |-> Max(A), to |-> Min(B)]
  <2>1. C = {w \in Ranges :
                   /\ w.from <= r.from /\ r.to <= w.to
                   /\ \A f \in files : Overlaps(f, w) =>
                        w.from <= Range1(f).from /\ Range1(f).to <= w.to}
    BY DEF Closed, Ranges
  <2>2. C = {w \in Ranges :
                   /\ w.from <= r.from /\ r.to <= w.to
                   /\ \A f \in v[0] : Overlaps(f, w) =>
                        w.from <= Range1(f).from /\ Range1(f).to <= w.to}
    BY <2>1
  <2> HIDE DEF C
  <2> QED BY <2>2 DEF Widened
<1>7. Max(A) \in A /\ \A x \in A : x <= Max(A)
  <2> HIDE DEF A
  <2> QED BY <1>4, <1>5, MaxIsThere
<1>8. Min(B) \in B /\ \A x \in B : Min(B) <= x
  <2> HIDE DEF B
  <2> QED BY <1>4, MinIsThere
<1>9. PICK a \in C : a.from = Max(A)
  BY <1>7
<1>10. PICK b \in C : b.to = Min(B)
  BY <1>8
<1>11. a.to >= b.to /\ b.from <= a.from
  BY <1>3, <1>7, <1>8, <1>9, <1>10
<1>12. Closed(files, r, a) /\ Closed(files, r, b)
  OBVIOUS
<1>13. Widened(v, r) = [from |-> a.from, to |-> b.to]
  BY <1>6, <1>9, <1>10
<1>14. Closed(files, r, [from |-> a.from, to |-> b.to])
  <2>1. a.from \in Key /\ b.to \in Key /\ a.from \in Nat /\ a.to \in Nat /\ b.from \in Nat /\ b.to \in Nat
    BY RangeTypes
  <2> HIDE DEF C
  <2>2. ASSUME NEW f \in files, Overlaps(f, [from |-> a.from, to |-> b.to])
        PROVE  a.from <= Range1(f).from /\ Range1(f).to <= b.to
    <3>1. Overlaps(f, a) /\ Overlaps(f, b)
      BY <1>1, <1>11, <2>1, <2>2 DEF Overlaps
    <3> QED BY <1>12, <3>1 DEF Closed
  <2> QED BY <1>12, <2>1, <2>2 DEF Closed, Ranges
<1>15. ASSUME NEW w, Closed(files, r, w) PROVE w.from <= a.from /\ b.to <= w.to
  <2>1. w \in C
    BY <1>15 DEF Closed
  <2> QED BY <1>3, <1>7, <1>8, <1>9, <1>10, <2>1
<1> QED BY <1>13, <1>14, <1>15

-----------------------------------------------------------------------------
(* Tables of a level, and parts of them.                                   *)

SortedFiles(files) ==
  \A f, g \in files : f # g => Before(Largest(f), Smallest(g)) \/ Before(Largest(g), Smallest(f))

LEMMA TablesInOrder ==
  ASSUME NEW W, History(W), NEW f \in TableOf(W), NEW g \in TableOf(W),
         Before(Largest(f), Smallest(g))
  PROVE  /\ \A e \in f.entries, x \in g.entries : Before(e, x)
         /\ Before(Smallest(f), Smallest(g))
         /\ Range1(f).to <= Range1(g).from
<1>1. Smallest(f) \in W /\ Largest(f) \in W /\ Smallest(g) \in W
  BY TableFacts
<1>2. Range1(f).to = Largest(f).key /\ Range1(g).from = Smallest(g).key
  BY TableFacts
<1>3. ASSUME NEW e \in f.entries, NEW x \in g.entries PROVE Before(e, x)
  <2>1. e \in W /\ x \in W /\ ~ Before(Largest(f), e) /\ ~ Before(x, Smallest(g))
    BY TableFacts
  <2>2. Before(e, Smallest(g))
    BY <1>1, <2>1, BeforeIsOrder
  <2> QED BY <1>1, <2>1, <2>2, BeforeIsOrder
<1>4. Smallest(f) \in f.entries /\ Smallest(g) \in g.entries
  BY TableFacts
<1>5. Largest(f).key <= Smallest(g).key
  BY <1>1, BeforeIsOrder
<1> QED BY <1>2, <1>3, <1>4, <1>5

\* No table of the rest is between two of the part.
Contiguous(files, part) ==
  \A f, h \in part, g \in files :
    Before(Smallest(f), Smallest(g)) /\ Before(Smallest(g), Smallest(h)) => g \in part

\* The tables of a range are next to each other.
LEMMA OverlappingIsContiguous ==
  ASSUME NEW W, History(W), NEW files \in SUBSET TableOf(W), SortedFiles(files),
         NEW r \in Ranges
  PROVE  Contiguous(files, {f \in files : Overlaps(f, r)})
<1> SUFFICES ASSUME NEW f \in files, NEW g \in files, NEW h \in files,
                    Overlaps(f, r), Overlaps(h, r),
                    Before(Smallest(f), Smallest(g)), Before(Smallest(g), Smallest(h))
             PROVE  Overlaps(g, r)
  BY DEF Contiguous
<1>1. Smallest(f) \in W /\ Smallest(g) \in W /\ Smallest(h) \in W
  BY TableFacts
<1>2. f # g /\ g # h
  BY <1>1, BeforeIsOrder
<1>3. ~ Before(Largest(g), Smallest(f)) /\ ~ Before(Largest(h), Smallest(g))
  <2>1. ~ Before(Smallest(g), Smallest(f)) /\ ~ Before(Smallest(h), Smallest(g))
    BY <1>1, BeforeIsOrder
  <2> QED BY <2>1, TablesInOrder
<1>4. Before(Largest(f), Smallest(g)) /\ Before(Largest(g), Smallest(h))
  BY <1>2, <1>3 DEF SortedFiles
<1>5. Range1(f).to <= Range1(g).from /\ Range1(g).to <= Range1(h).from
  BY <1>4, TablesInOrder
<1>6. /\ Range1(f).to \in Nat /\ Range1(g).from \in Nat /\ Range1(g).to \in Nat
      /\ Range1(h).from \in Nat /\ Range1(g).from <= Range1(g).to /\ r.from \in Nat /\ r.to \in Nat
  BY TableFacts, RangeTypes
<1> QED BY <1>5, <1>6 DEF Overlaps

\* Of one key, what is left behind is newer than what is taken.
TakesOldest(files, part) ==
  \A f \in part, g \in files \ part : \A e \in f.entries, x \in g.entries :
    x.key = e.key => x.seq > e.seq

\* The tables reach over a stretch of keys without a gap: a range that meets
\* none of them is before or after all of them.
Connected(files) ==
  \A r \in Ranges :
    r.from <= r.to /\ (\A f \in files : ~ Overlaps(f, r)) =>
      \/ \A f \in files : Range1(f).to < r.from
      \/ \A f \in files : r.to < Range1(f).from

LEMMA MissedOnOneSide ==
  ASSUME NEW W, History(W), NEW f \in TableOf(W), NEW r \in Ranges, r.from <= r.to,
         ~ Overlaps(f, r)
  PROVE  \/ Range1(f).to < r.from /\ ~(r.to < Range1(f).from) /\ Range1(f).from < r.from
         \/ r.to < Range1(f).from /\ ~(Range1(f).to < r.from) /\ r.to < Range1(f).to
<1>1. /\ Range1(f).to \in Nat /\ Range1(f).from \in Nat /\ Range1(f).from <= Range1(f).to
      /\ r.from \in Nat /\ r.to \in Nat
  BY TableFacts, RangeTypes
<1> QED BY <1>1 DEF Overlaps

LEMMA OneIsConnected ==
  ASSUME NEW W, History(W), NEW f \in TableOf(W)
  PROVE  Connected({f})
BY MissedOnOneSide DEF Connected

\* Tables that meet the range of connected ones can be added.
LEMMA ConnectOverlapping ==
  ASSUME NEW W, History(W), NEW S \in SUBSET TableOf(W), NEW T \in SUBSET TableOf(W),
         Connected(S), S # {}, IsFiniteSet(S), NEW R \in SUBSET S, R # {},
         \A g \in T : Overlaps(g, RangeOf(R))
  PROVE  Connected(S \cup T)
<1> SUFFICES ASSUME NEW r \in Ranges, r.from <= r.to, \A f \in S \cup T : ~ Overlaps(f, r)
             PROVE  \/ \A f \in S \cup T : Range1(f).to < r.from
                    \/ \A f \in S \cup T : r.to < Range1(f).from
  BY DEF Connected
<1>0. IsFiniteSet(R) /\ R \in SUBSET TableOf(W)
  BY FS_Subset
<1>1. PICK a \in R : RangeOf(R).from = Range1(a).from
  BY <1>0, RangeOfFacts
<1>2. PICK b \in R : RangeOf(R).to = Range1(b).to
  BY <1>0, RangeOfFacts
<1>3. r.from \in Nat /\ r.to \in Nat
  BY RangeTypes
<1>4. Range1(a).from \in Nat /\ Range1(b).to \in Nat /\ Range1(a).from <= Range1(a).to
      /\ Range1(a).to \in Nat
  BY TableFacts
<1>5. CASE \A f \in S : Range1(f).to < r.from
  <2>1. ASSUME NEW g \in T PROVE Range1(g).to < r.from
    <3>1. Overlaps(g, RangeOf(R)) /\ ~ Overlaps(g, r) /\ Range1(b).to < r.from
      BY <1>5
    <3>2. Range1(g).from \in Nat /\ Range1(g).to \in Nat
      BY TableFacts
    <3>3. Range1(g).from <= Range1(b).to
      BY <1>2, <1>4, <3>1, <3>2 DEF Overlaps
    <3> QED BY <1>3, <1>4, <3>1, <3>2, <3>3, MissedOnOneSide
  <2> QED BY <1>5, <2>1
<1>6. CASE \A f \in S : r.to < Range1(f).from
  <2>1. ASSUME NEW g \in T PROVE r.to < Range1(g).from
    <3>1. Overlaps(g, RangeOf(R)) /\ ~ Overlaps(g, r) /\ r.to < Range1(a).from
      BY <1>6
    <3>2. Range1(g).from \in Nat /\ Range1(g).to \in Nat
      BY TableFacts
    <3>3. Range1(a).from <= Range1(g).to
      BY <1>1, <1>4, <3>1, <3>2 DEF Overlaps
    <3> QED BY <1>3, <1>4, <3>1, <3>2, <3>3, MissedOnOneSide
  <2> QED BY <1>6, <2>1
<1> QED BY <1>5, <1>6 DEF Connected

\* So can one that goes on with a key of theirs.
LEMMA ConnectNext ==
  ASSUME NEW W, History(W), NEW S \in SUBSET TableOf(W), Connected(S), NEW f \in TableOf(W),
         NEW g \in S, NEW e \in g.entries, e.key = Smallest(f).key
  PROVE  Connected(S \cup {f})
<1> SUFFICES ASSUME NEW r \in Ranges, r.from <= r.to, \A h \in S \cup {f} : ~ Overlaps(h, r)
             PROVE  \/ \A h \in S \cup {f} : Range1(h).to < r.from
                    \/ \A h \in S \cup {f} : r.to < Range1(h).from
  BY DEF Connected
<1>1. /\ Range1(g).from <= Range1(f).from /\ Range1(f).from <= Range1(g).to
      /\ Range1(g).from \in Nat /\ Range1(f).from \in Nat /\ Range1(g).to \in Nat
      /\ r.from \in Nat /\ r.to \in Nat
  BY TableFacts, RangeTypes
<1>2. CASE \A h \in S : Range1(h).to < r.from
  BY <1>1, <1>2, MissedOnOneSide
<1>3. CASE \A h \in S : r.to < Range1(h).from
  BY <1>1, <1>3, MissedOnOneSide
<1> QED BY <1>2, <1>3 DEF Connected

-----------------------------------------------------------------------------
(* Boundary tables.                                                        *)

Boundary(files, taken) ==
  {f \in files : \E last \in EntriesOf(taken) :
                     /\ \A x \in EntriesOf(taken) : ~Before(last, x)
                     /\ Smallest(f).key = last.key /\ Before(last, Smallest(f))}

LEMMA NextIsFirstBoundary ==
  ASSUME NEW W, History(W), NEW files \in SUBSET TableOf(W), IsFiniteSet(files),
         NEW taken \in SUBSET files
  PROVE  /\ NextBoundary(files, taken)
              = {f \in Boundary(files, taken) :
                   \A g \in Boundary(files, taken) : ~Before(Smallest(g), Smallest(f))}
         /\ NextBoundary(files, taken) = {} => Boundary(files, taken) = {}
         /\ Boundary(files, taken) \in SUBSET (files \ taken)
<1> DEFINE B == Boundary(files, taken)
<1>1. NextBoundary(files, taken)
              = {f \in B : \A g \in B : ~Before(Smallest(g), Smallest(f))}
  BY DEF NextBoundary, Boundary
<1>2. ASSUME NEW f \in B PROVE f \in files \ taken
  <2>1. PICK last \in EntriesOf(taken) : /\ \A x \in EntriesOf(taken) : ~Before(last, x)
                                         /\ Before(last, Smallest(f))
    BY DEF Boundary
  <2>2. f \in files /\ f \in TableOf(W)
    BY DEF Boundary
  <2>3. Smallest(f) \in f.entries
    BY <2>2, TableFacts
  <2>4. f \notin taken
    BY <2>1, <2>3 DEF EntriesOf
  <2> QED BY <2>2, <2>4
<1>3. ASSUME B # {} PROVE \E f \in B : \A g \in B : ~Before(Smallest(g), Smallest(f))
  <2> DEFINE R == {p \in B \X B : Before(Smallest(p[1]), Smallest(p[2]))}
  <2>1. \A f \in B : f \in TableOf(W) /\ Smallest(f) \in W
    BY <1>2, TableFacts
  <2>2. IsFiniteSet(B)
    <3>1. B \subseteq files
      BY <1>2
    <3> QED BY <3>1, FS_Subset
  <2> HIDE DEF B
  <2>3. \A f, g \in B : <<f, g>> \in R <=> Before(Smallest(f), Smallest(g))
    OBVIOUS
  <2>4. \A f, g, h \in B : ~ Before(Smallest(f), Smallest(f)) /\
          (Before(Smallest(f), Smallest(g)) /\ Before(Smallest(g), Smallest(h))
             => Before(Smallest(f), Smallest(h)))
    BY <2>1, BeforeIsOrder
  <2> HIDE DEF R
  <2>5. \E f \in B : \A g \in B : <<g, f>> \notin R
    BY <1>3, <2>2, <2>3, <2>4, FiniteMinimal
  <2> QED BY <2>3, <2>5
<1> HIDE DEF B
<1>4. NextBoundary(files, taken) = {} => B = {}
  BY <1>1, <1>3
<1> QED BY <1>1, <1>2, <1>4 DEF B

\* The loop keeps what a round of it keeps, and ends when nothing is left to add.
LEMMA BoundaryLoop ==
  ASSUME NEW W, History(W), NEW files \in SUBSET TableOf(W), IsFiniteSet(files),
         NEW G \in SUBSET (SUBSET files), NEW inputs \in G,
         \A T \in G : T \cup NextBoundary(files, T) \in G
  PROVE  /\ AddBoundaryInputs(files, inputs) \in G
         /\ NextBoundary(files, AddBoundaryInputs(files, inputs)) = {}
<1> DEFINE step == [T \in G |-> T \cup NextBoundary(files, T)]
           Taken[n \in Nat] ==
             IF n = 0 THEN inputs ELSE Taken[n - 1] \cup NextBoundary(files, Taken[n - 1])
<1>1. step \in [G -> G] /\ \A T \in G : step[T] = T \cup NextBoundary(files, T)
  OBVIOUS
<1>2. PICK g \in [Nat -> G] : g = [n \in Nat |-> IF n = 0 THEN inputs ELSE step[g[n - 1]]]
  <2> HIDE DEF step
  <2> QED BY <1>1, LoopIsDefined
<1>3. g = [n \in Nat |-> IF n = 0 THEN inputs ELSE g[n - 1] \cup NextBoundary(files, g[n - 1])]
  <2> DEFINE h == [n \in Nat |-> IF n = 0 THEN inputs ELSE g[n - 1] \cup NextBoundary(files, g[n - 1])]
  <2> HIDE DEF step
  <2>1. ASSUME NEW n \in Nat PROVE g[n] = h[n]
    <3>1. CASE n = 0
      BY <1>2, <3>1
    <3>2. CASE n # 0
      <4>1. n - 1 \in Nat
        BY <3>2
      <4>2. g[n] = step[g[n - 1]] /\ g[n - 1] \in G
        BY <1>2, <3>2, <4>1
      <4>3. step[g[n - 1]] = g[n - 1] \cup NextBoundary(files, g[n - 1])
        BY <1>1, <4>2
      <4> QED BY <3>2, <4>2, <4>3
    <3> QED BY <3>1, <3>2
  <2> QED BY <1>2, <2>1
<1>4. Taken = [n \in Nat |->
                 IF n = 0 THEN inputs ELSE Taken[n - 1] \cup NextBoundary(files, Taken[n - 1])]
  BY <1>3
<1>5. AddBoundaryInputs(files, inputs) = Taken[Cardinality(files)]
  BY DEF AddBoundaryInputs
<1> HIDE DEF Taken, step
<1>6. Taken[0] = inputs /\ \A n \in Nat : Taken[n + 1] = Taken[n] \cup NextBoundary(files, Taken[n])
  <2>1. \A n \in Nat : n + 1 # 0 /\ (n + 1) - 1 = n /\ n + 1 \in Nat
    OBVIOUS
  <2>2. Taken[0] = inputs
    BY <1>4
  <2>3. ASSUME NEW n \in Nat PROVE Taken[n + 1] = Taken[n] \cup NextBoundary(files, Taken[n])
    BY <1>4, <2>1
  <2> QED BY <2>2, <2>3
<1>7. \A n \in Nat : Taken[n] \in G
  <2> DEFINE H == {n \in Nat : Taken[n] \in G}
  <2>1. 0 \in H /\ \A n \in H : n + 1 \in H
    BY <1>6
  <2> HIDE DEF H
  <2>2. H = Nat
    BY <2>1, NatStep DEF H
  <2> QED BY <2>2 DEF H
<1>8. ASSUME NEW T \in G, NextBoundary(files, T) # {}
      PROVE  /\ IsFiniteSet(T) /\ IsFiniteSet(T \cup NextBoundary(files, T))
             /\ Cardinality(T) + 1 <= Cardinality(T \cup NextBoundary(files, T))
  <2>1. T \subseteq files /\ NextBoundary(files, T) \subseteq files \ T
    BY NextIsFirstBoundary
  <2>2. IsFiniteSet(T) /\ IsFiniteSet(T \cup NextBoundary(files, T))
    BY <2>1, FS_Subset
  <2>3. PICK f \in NextBoundary(files, T) : f \notin T
    BY <1>8, <2>1
  <2>4. Cardinality(T \cup {f}) = Cardinality(T) + 1 /\ IsFiniteSet(T \cup {f})
    BY <2>2, <2>3, FS_AddElement
  <2>5. Cardinality(T \cup {f}) <= Cardinality(T \cup NextBoundary(files, T))
    BY <2>2, <2>3, FS_Subset
  <2> QED BY <2>2, <2>4, <2>5
<1>9. \A n \in Nat : NextBoundary(files, Taken[n]) = {} \/ n <= Cardinality(Taken[n])
  <2> DEFINE H == {n \in Nat : NextBoundary(files, Taken[n]) = {} \/ n <= Cardinality(Taken[n])}
  <2>1. 0 \in H
    <3>1. IsFiniteSet(Taken[0])
      BY <1>7, FS_Subset
    <3> QED BY <3>1, FS_CardinalityType
  <2>2. ASSUME NEW n \in H PROVE n + 1 \in H
    <3>1. CASE NextBoundary(files, Taken[n]) = {}
      <4>1. Taken[n + 1] = Taken[n]
        BY <1>6, <3>1
      <4>2. NextBoundary(files, Taken[n + 1]) = {}
        BY <3>1, <4>1
      <4> QED BY <4>2
    <3>2. CASE NextBoundary(files, Taken[n]) # {}
      <4>1. n <= Cardinality(Taken[n]) /\ Taken[n + 1] = Taken[n] \cup NextBoundary(files, Taken[n])
        BY <1>6, <3>2
      <4>2. /\ IsFiniteSet(Taken[n]) /\ IsFiniteSet(Taken[n + 1])
            /\ Cardinality(Taken[n]) + 1 <= Cardinality(Taken[n + 1])
        BY <1>7, <1>8, <3>2, <4>1
      <4>3. Cardinality(Taken[n]) \in Nat /\ Cardinality(Taken[n + 1]) \in Nat
        BY <4>2, FS_CardinalityType
      <4>4. n + 1 <= Cardinality(Taken[n + 1])
        BY <4>1, <4>2, <4>3
      <4> QED BY <4>4
    <3> QED BY <3>1, <3>2
  <2> HIDE DEF H
  <2>3. H = Nat
    BY <2>1, <2>2, NatStep DEF H
  <2> QED BY <2>3 DEF H
<1>10. NextBoundary(files, Taken[Cardinality(files)]) = {}
  <2> DEFINE T == Taken[Cardinality(files)]
  <2>1. Cardinality(files) \in Nat
    BY FS_CardinalityType
  <2>2. T \in G /\ (NextBoundary(files, T) = {} \/ Cardinality(files) <= Cardinality(T))
    BY <1>7, <1>9, <2>1
  <2> HIDE DEF T
  <2>3. CASE Cardinality(files) <= Cardinality(T)
    <3>1. IsFiniteSet(T) /\ Cardinality(T) <= Cardinality(files)
      BY <2>2, FS_Subset
    <3>2. Cardinality(T) = Cardinality(files)
      BY <2>1, <2>3, <3>1, FS_CardinalityType
    <3>3. T = files
      BY <2>2, <3>2, FS_Subset
    <3> QED BY <3>3, NextIsFirstBoundary DEF T
  <2> QED BY <2>2, <2>3 DEF T
<1> QED BY <1>5, <1>7, <1>10, FS_CardinalityType

LEMMA LastOfPart ==
  ASSUME NEW W, History(W), NEW part \in SUBSET TableOf(W), part # {}, IsFiniteSet(part)
  PROVE  \E t \in part : \E last \in t.entries :
           \A x \in EntriesOf(part) : ~ Before(last, x)
<1>1. EntriesOf(part) \in SUBSET W /\ EntriesOf(part) # {}
  <2>1. \A f \in part : f.entries \subseteq W /\ Smallest(f) \in f.entries
    BY TableFacts
  <2> QED BY <2>1 DEF EntriesOf
<1>2. \E last \in EntriesOf(part) : \A x \in EntriesOf(part) : ~ Before(last, x)
  BY <1>1, FirstAndLast
<1> QED BY <1>2 DEF EntriesOf

\* A table right after the part, if it is the first of the boundary.
LEMMA NextIsContiguous ==
  ASSUME NEW W, History(W), NEW files \in SUBSET TableOf(W), IsFiniteSet(files),
         SortedFiles(files), NEW T \in SUBSET files, Contiguous(files, T)
  PROVE  Contiguous(files, T \cup NextBoundary(files, T))
<1>1. SUFFICES ASSUME NEW f \in T \cup NextBoundary(files, T), NEW h \in T \cup NextBoundary(files, T),
                      NEW g \in files, g \notin T,
                      Before(Smallest(f), Smallest(g)), Before(Smallest(g), Smallest(h))
               PROVE  g \in NextBoundary(files, T)
  BY DEF Contiguous
<1>2. /\ NextBoundary(files, T) \subseteq Boundary(files, T)
      /\ \A a, b \in NextBoundary(files, T) : ~ Before(Smallest(a), Smallest(b))
      /\ \A a \in NextBoundary(files, T), b \in Boundary(files, T) : ~ Before(Smallest(b), Smallest(a))
      /\ Boundary(files, T) \subseteq files
  BY NextIsFirstBoundary
<1>3. f \in files /\ h \in files /\ f \in TableOf(W) /\ g \in TableOf(W) /\ h \in TableOf(W)
  BY <1>2
<1>4. Smallest(f) \in W /\ Smallest(g) \in W /\ Smallest(h) \in W
  BY <1>3, TableFacts
\* A boundary table comes after the whole part.
<1>5. ASSUME NEW b \in Boundary(files, T)
      PROVE  \E last \in EntriesOf(T) :
               /\ \A x \in EntriesOf(T) : ~ Before(last, x)
               /\ Smallest(b).key = last.key /\ Before(last, Smallest(b))
  BY DEF Boundary
<1>6. CASE h \in T /\ f \in T
  BY <1>1, <1>6 DEF Contiguous
<1>7. CASE h \in T /\ f \notin T
  <2>1. f \in Boundary(files, T)
    BY <1>2, <1>7
  <2>2. PICK last \in EntriesOf(T) : /\ \A x \in EntriesOf(T) : ~ Before(last, x)
                                     /\ Before(last, Smallest(f))
    BY <1>5, <2>1
  <2>3. Smallest(h) \in EntriesOf(T) /\ last \in W
    BY <1>3, <1>7, TableFacts DEF EntriesOf
  <2>4. ~ Before(last, Smallest(h)) /\ Before(last, Smallest(h))
    BY <1>1, <1>4, <2>2, <2>3, BeforeIsOrder
  <2> QED BY <2>4
<1>8. CASE h \notin T
  <2>1. h \in NextBoundary(files, T) /\ h \in Boundary(files, T) /\ f \in T
    <3>1. h \in NextBoundary(files, T) /\ h \in Boundary(files, T)
      BY <1>2, <1>8
    <3>2. ASSUME f \in NextBoundary(files, T) PROVE FALSE
      <4>1. Before(Smallest(f), Smallest(h))
        BY <1>1, <1>4, BeforeIsOrder
      <4> QED BY <1>2, <3>1, <3>2, <4>1
    <3> QED BY <3>1, <3>2
  <2>2. PICK last \in EntriesOf(T) :
               /\ \A x \in EntriesOf(T) : ~ Before(last, x)
               /\ Smallest(h).key = last.key /\ Before(last, Smallest(h))
    BY <1>5, <2>1
  <2>3. PICK t \in T : last \in t.entries
    BY DEF EntriesOf
  <2>4. t \in TableOf(W) /\ last \in W /\ Smallest(t) \in W
    BY <2>3, TableFacts
  <2>5. t # g
    BY <1>1
  <2>6. Before(Largest(t), Smallest(g))
    <3>1. SUFFICES ASSUME Before(Largest(g), Smallest(t)) PROVE FALSE
      BY <2>5 DEF SortedFiles
    <3>2. Before(Smallest(g), Smallest(t))
      BY <1>3, <2>4, <3>1, TablesInOrder
    <3>3. g \in T
      BY <1>1, <2>1, <3>2 DEF Contiguous
    <3> QED BY <1>1, <3>3
  <2>7. Before(last, Smallest(g))
    BY <1>3, <2>3, <2>4, <2>6, TablesInOrder, TableFacts
  <2>8. Smallest(g).key = last.key
    <3>1. last.key <= Smallest(g).key /\ Smallest(g).key <= Smallest(h).key
      BY <1>1, <1>4, <2>4, <2>7, BeforeIsOrder
    <3> QED BY <1>4, <2>2, <2>4, <3>1, BeforeIsOrder
  <2>9. g \in Boundary(files, T)
    BY <2>2, <2>7, <2>8 DEF Boundary
  <2> QED BY <1>1, <1>2, <2>1, <2>9
<1> QED BY <1>6, <1>7, <1>8

\* Without a boundary table, what comes after a contiguous part has none of its
\* keys, and what comes before it is newer.
LEMMA ClosedTakesOldest ==
  ASSUME NEW W, History(W), NEW files \in SUBSET TableOf(W), IsFiniteSet(files),
         SortedFiles(files), NEW T \in SUBSET files, T # {}, Contiguous(files, T),
         Boundary(files, T) = {}
  PROVE  TakesOldest(files, T)
<1> SUFFICES ASSUME NEW f \in T, NEW g \in files \ T, NEW e \in f.entries, NEW x \in g.entries,
                    x.key = e.key
             PROVE  x.seq > e.seq
  BY DEF TakesOldest
<1>1. f \in TableOf(W) /\ g \in TableOf(W) /\ f # g /\ e \in W /\ x \in W
  BY TableFacts
<1>2. CASE Before(Largest(g), Smallest(f))
  <2>1. Before(x, e)
    BY <1>1, <1>2, TablesInOrder
  <2> QED BY <1>1, <2>1, BeforeIsOrder
<1>3. CASE Before(Largest(f), Smallest(g))
  <2>1. PICK t \in T : \E last \in t.entries : \A y \in EntriesOf(T) : ~ Before(last, y)
    <3>1. IsFiniteSet(T)
      BY FS_Subset
    <3> QED BY <3>1, LastOfPart
  <2>2. PICK last \in t.entries : \A y \in EntriesOf(T) : ~ Before(last, y)
    BY <2>1
  <2>3. t \in TableOf(W) /\ last \in W /\ t # g /\ Smallest(g) \in W /\ ~ Before(x, Smallest(g))
    BY <1>1, TableFacts
  <2>4. Before(Largest(t), Smallest(g))
    <3>1. SUFFICES ASSUME Before(Largest(g), Smallest(t)) PROVE FALSE
      BY <2>3 DEF SortedFiles
    <3>2. Before(Smallest(f), Smallest(g)) /\ Before(Smallest(g), Smallest(t))
      BY <1>1, <1>3, <2>3, <3>1, TablesInOrder
    <3> QED BY <3>2 DEF Contiguous
  <2>5. Before(last, Smallest(g))
    BY <1>1, <2>3, <2>4, TablesInOrder, TableFacts
  <2>6. ~ Before(last, e)
    BY <2>2 DEF EntriesOf
  <2>7. e.key <= last.key /\ last.key <= Smallest(g).key /\ Smallest(g).key <= x.key
    BY <1>1, <2>3, <2>5, <2>6, BeforeIsOrder
  <2>8. Smallest(g).key = last.key
    BY <1>1, <2>3, <2>7, BeforeIsOrder
  <2>9. last \in EntriesOf(T)
    BY DEF EntriesOf
  <2>10. g \in Boundary(files, T)
    BY <2>2, <2>5, <2>8, <2>9 DEF Boundary
  <2> QED BY <2>10
<1> QED BY <1>1, <1>2, <1>3 DEF SortedFiles

LEMMA SortedBoundary ==
  ASSUME NEW W, History(W), NEW files \in SUBSET TableOf(W), IsFiniteSet(files),
         SortedFiles(files), NEW inputs \in SUBSET files, inputs # {}, Contiguous(files, inputs)
  PROVE  /\ inputs \subseteq AddBoundaryInputs(files, inputs)
         /\ AddBoundaryInputs(files, inputs) \subseteq files
         /\ TakesOldest(files, AddBoundaryInputs(files, inputs))
         /\ \A X \in SUBSET TableOf(W) :
              Connected(inputs \cup X) => Connected(AddBoundaryInputs(files, inputs) \cup X)
<1> DEFINE G == {T \in SUBSET files :
                   /\ inputs \subseteq T /\ Contiguous(files, T)
                   /\ \A X \in SUBSET TableOf(W) : Connected(inputs \cup X) => Connected(T \cup X)}
           A == AddBoundaryInputs(files, inputs)
<1>1. ASSUME NEW T \in G PROVE T \cup NextBoundary(files, T) \in G
  <2>1. NextBoundary(files, T) \subseteq Boundary(files, T) /\ Boundary(files, T) \subseteq files
    BY NextIsFirstBoundary
  <2>2. Contiguous(files, T \cup NextBoundary(files, T))
    BY NextIsContiguous
  <2>3. ASSUME NEW X \in SUBSET TableOf(W), Connected(T \cup X)
        PROVE  Connected((T \cup NextBoundary(files, T)) \cup X)
    <3>1. CASE NextBoundary(files, T) = {}
      <4>1. (T \cup NextBoundary(files, T)) \cup X = T \cup X
        BY <3>1
      <4> QED BY <2>3, <4>1
    <3>2. ASSUME NEW f \in NextBoundary(files, T) PROVE Connected((T \cup X) \cup {f})
      <4>1. f \in Boundary(files, T) /\ f \in TableOf(W)
        BY <2>1
      <4>2. PICK last \in EntriesOf(T) : Smallest(f).key = last.key
        BY <4>1 DEF Boundary
      <4>3. PICK g \in T : last \in g.entries
        BY DEF EntriesOf
      <4> DEFINE S == T \cup X
      <4>4. S \in SUBSET TableOf(W) /\ Connected(S) /\ g \in S
        BY <2>3
      <4> HIDE DEF S
      <4> QED BY <4>1, <4>2, <4>3, <4>4, ConnectNext DEF S
    \* All of them are one table, but this need not be known.
    <3>3. CASE NextBoundary(files, T) # {}
      <4>1. SUFFICES ASSUME NEW r \in Ranges, r.from <= r.to,
                            \A h \in (T \cup NextBoundary(files, T)) \cup X : ~ Overlaps(h, r)
                     PROVE  \/ \A h \in (T \cup NextBoundary(files, T)) \cup X : Range1(h).to < r.from
                            \/ \A h \in (T \cup NextBoundary(files, T)) \cup X : r.to < Range1(h).from
        BY DEF Connected
      <4>2. \A f \in NextBoundary(files, T) :
              \/ \A h \in (T \cup X) \cup {f} : Range1(h).to < r.from
              \/ \A h \in (T \cup X) \cup {f} : r.to < Range1(h).from
        BY <3>2, <4>1 DEF Connected
      <4>3. PICK f0 \in NextBoundary(files, T) : TRUE
        BY <3>3
      <4>4. PICK t \in T : TRUE
        OBVIOUS
      <4>5. t \in TableOf(W) /\ ~ Overlaps(t, r)
        BY <4>1
      <4>6. ~(Range1(t).to < r.from /\ r.to < Range1(t).from)
        BY <4>1, <4>5, MissedOnOneSide
      <4> QED BY <4>2, <4>3, <4>4, <4>6
    <3> QED BY <3>1, <3>3
  <2> QED BY <2>1, <2>2, <2>3
<1>2. inputs \in G
  OBVIOUS
<1>3. A \in G /\ NextBoundary(files, A) = {}
  <2>1. G \in SUBSET (SUBSET files)
    OBVIOUS
  <2> HIDE DEF G
  <2> QED BY <1>1, <1>2, <2>1, BoundaryLoop
<1> HIDE DEF A
<1>4. /\ A \in SUBSET files /\ inputs \subseteq A /\ Contiguous(files, A)
      /\ \A X \in SUBSET TableOf(W) : Connected(inputs \cup X) => Connected(A \cup X)
  BY <1>3
<1>5. Boundary(files, A) = {}
  BY <1>3, <1>4, NextIsFirstBoundary
<1>6. TakesOldest(files, A)
  BY <1>4, <1>5, ClosedTakesOldest
<1> QED BY <1>4, <1>6 DEF A

\* Where nothing overlaps a part there is no boundary, sorted or not.
LEMMA NoBoundary ==
  ASSUME NEW W, History(W), NEW files \in SUBSET TableOf(W), IsFiniteSet(files),
         NEW inputs \in SUBSET files,
         \A f \in files \ inputs, g \in inputs : ~ Overlaps(f, Range1(g))
  PROVE  AddBoundaryInputs(files, inputs) = inputs /\ TakesOldest(files, inputs)
<1>1. ASSUME NEW f \in files \ inputs, NEW g \in inputs, NEW e \in g.entries, NEW x \in f.entries
      PROVE  x.key # e.key
  <2>1. /\ Range1(g).from <= e.key /\ e.key <= Range1(g).to
        /\ Range1(f).from <= x.key /\ x.key <= Range1(f).to
        /\ e \in W /\ x \in W
    BY TableFacts
  <2>2. /\ Range1(g).from \in Nat /\ Range1(g).to \in Nat /\ Range1(f).from \in Nat
        /\ Range1(f).to \in Nat /\ e.key \in Nat /\ x.key \in Nat
    BY <2>1, TableFacts, BeforeIsOrder
  <2> QED BY <2>1, <2>2 DEF Overlaps
<1>2. Boundary(files, inputs) = {}
  <2>1. SUFFICES ASSUME NEW f \in Boundary(files, inputs) PROVE FALSE
    OBVIOUS
  <2>2. f \in files \ inputs /\ f \in TableOf(W)
    BY NextIsFirstBoundary
  <2>3. PICK last \in EntriesOf(inputs) : Smallest(f).key = last.key
    BY DEF Boundary
  <2>4. PICK g \in inputs : last \in g.entries
    BY DEF EntriesOf
  <2>5. Smallest(f) \in f.entries
    BY <2>2, TableFacts
  <2> QED BY <1>1, <2>2, <2>3, <2>4, <2>5
<1>3. NextBoundary(files, inputs) = {}
  BY <1>2, NextIsFirstBoundary
<1>4. AddBoundaryInputs(files, inputs) = inputs
  <2> DEFINE G == {inputs}
  <2>1. G \in SUBSET (SUBSET files) /\ inputs \in G /\ \A T \in G : T \cup NextBoundary(files, T) \in G
    BY <1>3
  <2>2. AddBoundaryInputs(files, inputs) \in G
    <3> HIDE DEF G
    <3> QED BY <2>1, BoundaryLoop
  <2> QED BY <2>2
<1> QED BY <1>1, <1>4 DEF TakesOldest

-----------------------------------------------------------------------------
(* The inputs of a compaction.                                             *)

\* Widening takes no table that does not hang together with the others.
LEMMA WidenedIsConnected ==
  ASSUME NEW W, History(W), NEW files \in SUBSET TableOf(W), IsFiniteSet(files), NEW v, v[0] = files,
         NEW S \in SUBSET TableOf(W), IsFiniteSet(S), S # {}, Connected(S)
  PROVE  Connected(S \cup {f \in files : Overlaps(f, Widened(v, RangeOf(S)))})
<1> DEFINE w == Widened(v, RangeOf(S))
           P == {f \in files : Overlaps(f, w)}
<1>1. SUFFICES ASSUME NEW r \in Ranges, r.from <= r.to, \A f \in S \cup P : ~ Overlaps(f, r)
               PROVE  \/ \A f \in S \cup P : Range1(f).to < r.from
                      \/ \A f \in S \cup P : r.to < Range1(f).from
  BY DEF Connected
<1>2. /\ RangeOf(S) \in Ranges
      /\ \E f \in S : RangeOf(S).from = Range1(f).from
      /\ \E f \in S : RangeOf(S).to = Range1(f).to
      /\ \A f \in S : RangeOf(S).from <= Range1(f).from /\ Range1(f).to <= RangeOf(S).to
  BY RangeOfFacts
<1>3. /\ Closed(files, RangeOf(S), w)
      /\ \A c : Closed(files, RangeOf(S), c) => c.from <= w.from /\ w.to <= c.to
  BY <1>2, WidenedIsLeast
<1>4. w \in Ranges /\ w.from <= RangeOf(S).from /\ RangeOf(S).to <= w.to
      /\ \A f \in P : w.from <= Range1(f).from /\ Range1(f).to <= w.to
  BY <1>3 DEF Closed
<1>5. /\ w.from \in Nat /\ w.to \in Nat /\ r.from \in Nat /\ r.to \in Nat
      /\ RangeOf(S).from \in Nat /\ RangeOf(S).to \in Nat /\ w.from \in Key /\ w.to \in Key
  BY <1>2, <1>4, RangeTypes
<1>6. \A f \in S \cup files : /\ Range1(f).from \in Nat /\ Range1(f).to \in Nat
                             /\ Range1(f).from \in Key /\ Range1(f).to \in Key
                             /\ Range1(f).from <= Range1(f).to
  BY TableFacts
<1>7. \A f \in files : Overlaps(f, w) => f \in P
  OBVIOUS
<1>8. P \subseteq files
  OBVIOUS
<1>9. ASSUME NEW f \in S \cup P
      PROVE  \/ Range1(f).to < r.from /\ ~(r.to < Range1(f).from) /\ Range1(f).from < r.from
             \/ r.to < Range1(f).from /\ ~(Range1(f).to < r.from) /\ r.to < Range1(f).to
  <2>1. f \in TableOf(W) /\ ~ Overlaps(f, r)
    BY <1>1, <1>8
  <2> HIDE DEF P, w
  <2> QED BY <1>1, <2>1, MissedOnOneSide
<1> HIDE DEF w, P
<1>10. IsFiniteSet(S \cup P)
  BY <1>8, FS_Subset, FS_Union
<1>11. CASE \A f \in S : Range1(f).to < r.from
  <2> DEFINE A == {f \in S \cup P : Range1(f).to < r.from}
             g == [f \in A |-> Range1(f).to]
             M == {g[f] : f \in A}
  <2>1. IsFiniteSet(A) /\ S \subseteq A
    <3>1. A \subseteq S \cup P
      OBVIOUS
    <3>2. S \subseteq A
      BY <1>11
    <3> HIDE DEF A
    <3> QED BY <1>10, <3>1, <3>2, FS_Subset
  <2>2. \A f \in A : f \in S \cup P /\ Range1(f).to < r.from /\ g[f] = Range1(f).to
    OBVIOUS
  <2>3. \A f \in S \cup P : Range1(f).to < r.from => f \in A
    OBVIOUS
  <2> HIDE DEF A
  <2>4. IsFiniteSet(M)
    <3> HIDE DEF g
    <3> QED BY <2>1, ImageIsFinite
  <2>5. M \in SUBSET Nat /\ M # {}
    BY <1>6, <1>8, <2>1, <2>2
  <2>6. \A f \in A : g[f] \in M
    OBVIOUS
  <2>7. \A x \in M : \E f \in A : x = Range1(f).to
    BY <2>2
  <2> HIDE DEF M, g
  <2>8. Max(M) \in M /\ \A x \in M : x <= Max(M)
    BY <2>4, <2>5, MaxIsThere
  <2>9. PICK f0 \in A : Max(M) = Range1(f0).to
    BY <2>7, <2>8
  <2> DEFINE m == Range1(f0).to
  <2>10. m \in Nat /\ m \in Key /\ m < r.from /\ (\A f \in A : Range1(f).to <= m)
    BY <1>6, <1>8, <2>2, <2>6, <2>8, <2>9
  <2>11. m <= w.to
    <3>1. CASE f0 \in P
      BY <1>4, <3>1
    <3>2. CASE f0 \in S
      <4>1. m <= RangeOf(S).to
        BY <1>2, <3>2
      <4> QED BY <1>4, <1>5, <2>10, <4>1
    <3> QED BY <2>2, <3>1, <3>2
  <2>12. RangeOf(S).to <= m
    BY <1>2, <2>1, <2>10
  <2> HIDE DEF m
  <2>13. Closed(files, RangeOf(S), [from |-> w.from, to |-> m])
    <3>1. ASSUME NEW f \in files, Overlaps(f, [from |-> w.from, to |-> m])
          PROVE  w.from <= Range1(f).from /\ Range1(f).to <= m
      <4>1. Range1(f).from <= m /\ w.from <= Range1(f).to
        BY <1>5, <1>6, <2>10, <3>1 DEF Overlaps
      <4>2. Overlaps(f, w)
        BY <1>5, <1>6, <2>10, <2>11, <4>1 DEF Overlaps
      <4>3. f \in P
        BY <1>7, <4>2
      <4>4. Range1(f).to < r.from
        BY <1>1, <1>5, <1>6, <1>9, <2>10, <4>1, <4>3
      <4> QED BY <1>4, <2>3, <2>10, <4>3, <4>4
    <3>2. [from |-> w.from, to |-> m] \in Ranges
      BY <1>5, <2>10 DEF Ranges
    <3> QED BY <1>4, <2>12, <3>1, <3>2 DEF Closed
  <2>14. w.to <= m
    BY <1>3, <2>13
  <2>15. ASSUME NEW f \in P PROVE Range1(f).to < r.from
    BY <1>4, <1>5, <1>6, <1>8, <2>10, <2>14
  <2> QED BY <1>11, <2>15
<1>12. CASE \A f \in S : r.to < Range1(f).from
  <2> DEFINE A == {f \in S \cup P : r.to < Range1(f).from}
             M == {Range1(f).from : f \in A}
  <2>1. S \subseteq A
    BY <1>12
  <2>2. \A f \in A : f \in S \cup P /\ r.to < Range1(f).from
    OBVIOUS
  <2>3. \A f \in S \cup P : r.to < Range1(f).from => f \in A
    OBVIOUS
  <2> HIDE DEF A
  <2>5. M \in SUBSET Nat /\ M # {}
    BY <1>6, <1>8, <2>1, <2>2
  <2>6. \A f \in A : Range1(f).from \in M
    OBVIOUS
  <2>7. \A x \in M : \E f \in A : x = Range1(f).from
    OBVIOUS
  <2> HIDE DEF M
  <2>8. Min(M) \in M /\ \A x \in M : Min(M) <= x
    BY <2>5, MinIsThere
  <2>9. PICK f0 \in A : Min(M) = Range1(f0).from
    BY <2>7, <2>8
  <2> DEFINE m == Range1(f0).from
  <2>10. m \in Nat /\ m \in Key /\ r.to < m /\ (\A f \in A : m <= Range1(f).from)
    BY <1>6, <1>8, <2>2, <2>6, <2>8, <2>9
  <2>11. w.from <= m
    <3>1. CASE f0 \in P
      BY <1>4, <3>1
    <3>2. CASE f0 \in S
      <4>1. RangeOf(S).from <= m
        BY <1>2, <3>2
      <4> QED BY <1>4, <1>5, <2>10, <4>1
    <3> QED BY <2>2, <3>1, <3>2
  <2>12. m <= RangeOf(S).from
    BY <1>2, <2>1, <2>10
  <2> HIDE DEF m
  <2>13. Closed(files, RangeOf(S), [from |-> m, to |-> w.to])
    <3>1. ASSUME NEW f \in files, Overlaps(f, [from |-> m, to |-> w.to])
          PROVE  m <= Range1(f).from /\ Range1(f).to <= w.to
      <4>1. Range1(f).from <= w.to /\ m <= Range1(f).to
        BY <1>5, <1>6, <2>10, <3>1 DEF Overlaps
      <4>2. Overlaps(f, w)
        BY <1>5, <1>6, <2>10, <2>11, <4>1 DEF Overlaps
      <4>3. f \in P
        BY <1>7, <4>2
      <4>4. r.to < Range1(f).from
        BY <1>1, <1>5, <1>6, <1>9, <2>10, <4>1, <4>3
      <4> QED BY <1>4, <2>3, <2>10, <4>3, <4>4
    <3>2. [from |-> m, to |-> w.to] \in Ranges
      BY <1>5, <2>10 DEF Ranges
    <3> QED BY <1>4, <2>12, <3>1, <3>2 DEF Closed
  <2>14. m <= w.from
    BY <1>3, <2>13
  <2>15. ASSUME NEW f \in P PROVE r.to < Range1(f).from
    BY <1>4, <1>5, <1>6, <1>8, <2>10, <2>14
  <2> QED BY <1>12, <2>15
<1>13. \/ \A f \in S : Range1(f).to < r.from
       \/ \A f \in S : r.to < Range1(f).from
  BY <1>1 DEF Connected
<1> QED BY <1>11, <1>12, <1>13

\* What the compaction starts from: on level 0 nothing else overlaps it, on
\* the others nothing else is within.
GoodPart(files, level, part) ==
  /\ part \in SUBSET files /\ part # {}
  /\ IF level = 0 THEN \A f \in files \ part, g \in part : ~ Overlaps(f, Range1(g))
                  ELSE SortedFiles(files) /\ Contiguous(files, part)

LEMMA OverlappingIsGood ==
  ASSUME NEW W, History(W), NEW v, NEW level \in Nat,
         NEW files \in SUBSET TableOf(W), IsFiniteSet(files), v[level] = files,
         level # 0 => SortedFiles(files),
         NEW r \in Ranges, GetOverlappingInputs(v, level, r) # {}
  PROVE  GoodPart(files, level, GetOverlappingInputs(v, level, r))
<1>1. CASE level = 0
  <2> DEFINE w == Widened(v, r)
             part == {f \in files : Overlaps(f, w)}
  <2>1. GetOverlappingInputs(v, level, r) = part
    BY <1>1 DEF GetOverlappingInputs
  <2>2. Closed(files, r, w)
    BY <1>1, WidenedIsLeast
  <2>3. ASSUME NEW f \in files \ part, NEW g \in part PROVE ~ Overlaps(f, Range1(g))
    <3>1. w.from <= Range1(g).from /\ Range1(g).to <= w.to /\ w \in Ranges
      BY <2>2 DEF Closed
    <3>2. w.from \in Nat /\ w.to \in Nat
      BY <3>1, RangeTypes
    <3>3. g \in TableOf(W) /\ f \in TableOf(W) /\ ~ Overlaps(f, w)
      OBVIOUS
    <3>4. /\ Range1(g).from \in Nat /\ Range1(g).to \in Nat
          /\ Range1(f).from \in Nat /\ Range1(f).to \in Nat
      BY <3>3, TableFacts
    <3> HIDE DEF w, part
    <3> QED BY <3>1, <3>2, <3>3, <3>4 DEF Overlaps
  <2> HIDE DEF w
  <2> QED BY <1>1, <2>1, <2>3 DEF GoodPart
<1>2. CASE level # 0
  <2>1. GetOverlappingInputs(v, level, r) = {f \in files : Overlaps(f, r)}
    BY <1>2 DEF GetOverlappingInputs
  <2>2. Contiguous(files, {f \in files : Overlaps(f, r)})
    BY <1>2, OverlappingIsContiguous
  <2> QED BY <1>2, <2>1, <2>2 DEF GoodPart
<1> QED BY <1>1, <1>2

\* A good part with its boundary tables.
LEMMA BoundaryOfGood ==
  ASSUME NEW W, History(W), NEW files \in SUBSET TableOf(W), IsFiniteSet(files),
         NEW level, NEW part, GoodPart(files, level, part)
  PROVE  /\ part \subseteq AddBoundaryInputs(files, part)
         /\ AddBoundaryInputs(files, part) \subseteq files
         /\ TakesOldest(files, AddBoundaryInputs(files, part))
         /\ \A X \in SUBSET TableOf(W) :
              Connected(part \cup X) => Connected(AddBoundaryInputs(files, part) \cup X)
<1>1. CASE level = 0
  <2>1. AddBoundaryInputs(files, part) = part /\ TakesOldest(files, part)
    BY <1>1, NoBoundary DEF GoodPart
  <2> QED BY <2>1 DEF GoodPart
<1>2. CASE level # 0
  BY <1>2, SortedBoundary DEF GoodPart
<1> QED BY <1>1, <1>2

TablesOK(W) ==
  /\ History(W)
  /\ instance.levels \in Nat /\ instance.levels >= 2
  /\ levels \in [Level -> SUBSET TableOf(W)]
  /\ \A level \in Level : IsFiniteSet(levels[level])

LEMMA UpperAndLower ==
  ASSUME NEW W, TablesOK(W), NEW level \in 0 .. NumLevels - 2
  PROVE  /\ level \in Nat /\ level \in Level /\ level + 1 \in Level /\ level + 1 # 0
         /\ level + 1 # level /\ level + 1 \in Nat
         /\ levels[level] \in SUBSET TableOf(W) /\ IsFiniteSet(levels[level])
         /\ levels[level + 1] \in SUBSET TableOf(W) /\ IsFiniteSet(levels[level + 1])
<1>1. level \in Nat /\ level \in Level /\ level + 1 \in Level /\ level + 1 # 0 /\ level + 1 # level
  BY DEF TablesOK, NumLevels, Level
<1> QED BY <1>1 DEF TablesOK

LEMMA TakenFromGood ==
  ASSUME NEW W, TablesOK(W), NEW level \in 0 .. NumLevels - 2,
         NEW part, GoodPart(levels[level], level, part)
  PROVE  LET in0 == AddBoundaryInputs(levels[level], part)
             in1 == GetOverlappingInputs(levels, level + 1, RangeOf(in0))
         IN  /\ part \subseteq in0 /\ in0 \in SUBSET levels[level] /\ in0 # {}
             /\ IsFiniteSet(in0) /\ in0 \in SUBSET TableOf(W) /\ RangeOf(in0) \in Ranges
             /\ TakesOldest(levels[level], in0)
             /\ in1 = {f \in levels[level + 1] : Overlaps(f, RangeOf(in0))}
             /\ \A X \in SUBSET TableOf(W) : Connected(part \cup X) => Connected(in0 \cup X)
<1> DEFINE in0 == AddBoundaryInputs(levels[level], part)
           in1 == GetOverlappingInputs(levels, level + 1, RangeOf(in0))
<1>1. /\ level \in Nat /\ level \in Level /\ level + 1 \in Level /\ level + 1 # 0 /\ History(W)
      /\ levels[level] \in SUBSET TableOf(W) /\ IsFiniteSet(levels[level])
  BY UpperAndLower DEF TablesOK
<1>2. part # {}
  BY DEF GoodPart
<1>3. /\ part \subseteq in0 /\ in0 \subseteq levels[level]
      /\ TakesOldest(levels[level], in0)
      /\ \A X \in SUBSET TableOf(W) : Connected(part \cup X) => Connected(in0 \cup X)
  BY <1>1, BoundaryOfGood
<1>4. in1 = {f \in levels[level + 1] : Overlaps(f, RangeOf(in0))}
  BY <1>1 DEF GetOverlappingInputs
<1> HIDE DEF in0
<1>5. in0 # {} /\ IsFiniteSet(in0) /\ in0 \in SUBSET TableOf(W)
  BY <1>1, <1>2, <1>3, FS_Subset
<1>6. RangeOf(in0) \in Ranges
  BY <1>1, <1>5, RangeOfFacts
<1> QED BY <1>3, <1>4, <1>5, <1>6 DEF in0

\* The tables of the upper level that the inputs so far meet.
LEMMA ExpandedIsGood ==
  ASSUME NEW W, TablesOK(W), Sorted, NEW level \in 0 .. NumLevels - 2,
         NEW in0 \in SUBSET levels[level], in0 # {}, NEW in1 \in SUBSET levels[level + 1]
  PROVE  LET part == GetOverlappingInputs(levels, level, RangeOf(in0 \cup in1))
         IN  /\ GoodPart(levels[level], level, part) /\ in0 \subseteq part
             /\ Connected(in0 \cup in1) => Connected(part \cup in1)
<1> DEFINE part == GetOverlappingInputs(levels, level, RangeOf(in0 \cup in1))
           S == in0 \cup in1
           files == levels[level]
           r == RangeOf(S)
<1>1. /\ level \in Nat /\ level \in Level /\ History(W)
      /\ files \in SUBSET TableOf(W) /\ IsFiniteSet(files)
      /\ levels[level + 1] \in SUBSET TableOf(W) /\ IsFiniteSet(levels[level + 1])
  BY UpperAndLower DEF TablesOK
<1>2. S \in SUBSET TableOf(W) /\ IsFiniteSet(S) /\ S # {} /\ in0 \subseteq S
  <2>1. IsFiniteSet(in0) /\ IsFiniteSet(in1)
    BY <1>1, FS_Subset
  <2> QED BY <1>1, <2>1, FS_Union
<1>3. r \in Ranges /\ \A f \in S : r.from <= Range1(f).from /\ Range1(f).to <= r.to
  <2> HIDE DEF S
  <2> QED BY <1>1, <1>2, RangeOfFacts
<1>4. level # 0 => SortedFiles(files)
  BY <1>1 DEF Sorted, SortedFiles
<1> HIDE DEF r, S
<1>5. r.from \in Nat /\ r.to \in Nat
  BY <1>3, RangeTypes
<1>6. ASSUME NEW w \in Ranges, w.from <= r.from, r.to <= w.to, NEW f \in in0
      PROVE  Overlaps(f, w)
  <2>1. f \in TableOf(W) /\ r.from <= Range1(f).from /\ Range1(f).to <= r.to
    BY <1>2, <1>3
  <2>2. Range1(f).from \in Nat /\ Range1(f).to \in Nat /\ Range1(f).from <= Range1(f).to
    BY <1>1, <2>1, TableFacts
  <2>3. w.from \in Nat /\ w.to \in Nat
    BY RangeTypes
  <2> QED BY <1>5, <1>6, <2>1, <2>2, <2>3 DEF Overlaps
<1>7. part = {f \in files : Overlaps(f, IF level = 0 THEN Widened(levels, r) ELSE r)}
  BY DEF GetOverlappingInputs, r, S
<1>8. ASSUME level = 0
      PROVE  in0 \subseteq part /\ (Connected(in0 \cup in1) => Connected(part \cup in1))
  <2>1. part = {f \in files : Overlaps(f, Widened(levels, r))}
    BY <1>7, <1>8
  <2>2. Closed(files, r, Widened(levels, r))
    <3>1. levels[0] = files
      BY <1>8
    <3> HIDE DEF files
    <3> QED BY <1>1, <1>3, <3>1, WidenedIsLeast
  <2>3. in0 \subseteq part
    <3>1. /\ Widened(levels, r) \in Ranges
          /\ Widened(levels, r).from <= r.from /\ r.to <= Widened(levels, r).to
      BY <2>2 DEF Closed
    <3>2. \A f \in in0 : Overlaps(f, Widened(levels, r))
      BY <1>6, <3>1
    <3> QED BY <2>1, <3>2
  <2>4. Connected(S) => Connected(part \cup in1)
    <3> SUFFICES ASSUME Connected(S) PROVE Connected(part \cup in1)
      OBVIOUS
    <3>0. levels[0] = files
      BY <1>8
    <3>1. Connected(S \cup {f \in files : Overlaps(f, Widened(levels, RangeOf(S)))})
      <4> HIDE DEF files
      <4> QED BY <1>1, <1>2, <3>0, WidenedIsConnected
    <3>2. S \cup {f \in files : Overlaps(f, Widened(levels, RangeOf(S)))} = part \cup in1
      <4>1. part = {f \in files : Overlaps(f, Widened(levels, RangeOf(S)))}
        BY <2>1 DEF r
      <4> HIDE DEF part
      <4> QED BY <4>1, <2>3 DEF S
    <3> QED BY <3>1, <3>2
  <2> QED BY <2>3, <2>4 DEF S
<1>9. ASSUME level # 0
      PROVE  in0 \subseteq part /\ (Connected(in0 \cup in1) => Connected(part \cup in1))
  <2>1. part = {f \in files : Overlaps(f, r)}
    BY <1>7, <1>9
  <2>2. in0 \subseteq part
    <3>1. \A f \in in0 : Overlaps(f, r)
      BY <1>3, <1>5, <1>6
    <3> QED BY <2>1, <3>1
  <2>3. Connected(S) => Connected(part \cup in1)
    <3> SUFFICES ASSUME Connected(S) PROVE Connected(part \cup in1)
      OBVIOUS
    <3>1. part \in SUBSET TableOf(W) /\ \A g \in part : Overlaps(g, RangeOf(S))
      BY <1>1, <2>1 DEF r
    <3>2. Connected(S \cup part)
      <4> HIDE DEF part, files
      <4> QED BY <1>1, <1>2, <3>1, ConnectOverlapping
    <3>3. S \cup part = part \cup in1
      BY <2>2 DEF S
    <3> QED BY <3>2, <3>3
  <2> QED BY <2>2, <2>3 DEF S
<1>10. in0 \subseteq part /\ (Connected(in0 \cup in1) => Connected(part \cup in1))
  BY <1>8, <1>9
<1>11. GoodPart(files, level, part)
  <2>1. part # {}
    BY <1>10
  <2>2. part = GetOverlappingInputs(levels, level, r)
    BY DEF r, S
  <2> HIDE DEF files, part
  <2>3. files = levels[level]
    BY DEF files
  <2> QED BY <1>1, <1>3, <1>4, <2>1, <2>2, <2>3, OverlappingIsGood
<1> QED BY <1>10, <1>11

\* What makes inputs fit: nothing older is left behind in the upper level, and
\* of the lower level all is taken that is within their range.
Fitting(level, in0, in1) ==
  /\ in0 \in SUBSET levels[level] /\ in0 # {}
  /\ TakesOldest(levels[level], in0)
  /\ in1 = {f \in levels[level + 1] : Overlaps(f, RangeOf(in0))}

LEMMA InputsFit ==
  ASSUME NEW W, TablesOK(W), Sorted, NEW level \in 0 .. NumLevels - 2,
         NEW first, GoodPart(levels[level], level, first),
         NEW inputs \in SetupOtherInputs(level, first)
  PROVE  /\ Fitting(level, inputs[1], inputs[2])
         /\ Connected(first) => Connected(inputs[1] \cup inputs[2])
<1> DEFINE in0 == AddBoundaryInputs(levels[level], first)
           in1 == GetOverlappingInputs(levels, level + 1, RangeOf(in0))
           part == GetOverlappingInputs(levels, level, RangeOf(in0 \cup in1))
           more0 == AddBoundaryInputs(levels[level], part)
           more1 == GetOverlappingInputs(levels, level + 1, RangeOf(more0))
<1>0. inputs = <<in0, in1>> \/ inputs = <<more0, more1>>
  BY DEF SetupOtherInputs
<1>1. /\ History(W) /\ levels[level + 1] \in SUBSET TableOf(W) /\ IsFiniteSet(levels[level + 1])
  BY UpperAndLower DEF TablesOK
<1>2. /\ first \subseteq in0 /\ in0 \in SUBSET levels[level] /\ in0 # {}
      /\ IsFiniteSet(in0) /\ in0 \in SUBSET TableOf(W) /\ RangeOf(in0) \in Ranges
      /\ TakesOldest(levels[level], in0)
      /\ in1 = {f \in levels[level + 1] : Overlaps(f, RangeOf(in0))}
      /\ \A X \in SUBSET TableOf(W) : Connected(first \cup X) => Connected(in0 \cup X)
  BY TakenFromGood
<1> HIDE DEF in0, in1
<1>3. /\ GoodPart(levels[level], level, part) /\ in0 \subseteq part
      /\ Connected(in0 \cup in1) => Connected(part \cup in1)
  <2>1. in1 \in SUBSET levels[level + 1]
    BY <1>2
  <2> QED BY <1>2, <2>1, ExpandedIsGood
<1> HIDE DEF part
<1>4. /\ part \subseteq more0 /\ more0 \in SUBSET levels[level] /\ more0 # {}
      /\ IsFiniteSet(more0) /\ more0 \in SUBSET TableOf(W) /\ RangeOf(more0) \in Ranges
      /\ TakesOldest(levels[level], more0)
      /\ more1 = {f \in levels[level + 1] : Overlaps(f, RangeOf(more0))}
      /\ \A X \in SUBSET TableOf(W) : Connected(part \cup X) => Connected(more0 \cup X)
  BY <1>3, TakenFromGood
<1> HIDE DEF more0, more1
<1>5. in1 \in SUBSET TableOf(W) /\ more1 \in SUBSET TableOf(W) /\ IsFiniteSet(in1)
  <2>1. in1 \subseteq levels[level + 1] /\ more1 \subseteq levels[level + 1]
    BY <1>2, <1>4
  <2> QED BY <1>1, <2>1, FS_Subset
<1>6. ASSUME Connected(first) PROVE Connected(in0 \cup in1)
  <2>1. Connected(in0)
    <3>1. first \cup {} = first /\ in0 \cup {} = in0 /\ {} \in SUBSET TableOf(W)
      OBVIOUS
    <3> QED BY <1>2, <1>6, <3>1
  <2>2. in0 \in SUBSET in0 /\ \A g \in in1 : Overlaps(g, RangeOf(in0))
    BY <1>2
  <2> QED BY <1>1, <1>2, <1>5, <2>1, <2>2, ConnectOverlapping
<1>7. in1 \subseteq more1
  <2>1. /\ \A f \in more0 : RangeOf(more0).from <= Range1(f).from /\ Range1(f).to <= RangeOf(more0).to
        /\ \E f \in in0 : RangeOf(in0).from = Range1(f).from
        /\ \E f \in in0 : RangeOf(in0).to = Range1(f).to
    BY <1>1, <1>2, <1>4, RangeOfFacts
  <2>2. in0 \subseteq more0
    BY <1>3, <1>4
  <2>3. RangeOf(more0).from <= RangeOf(in0).from /\ RangeOf(in0).to <= RangeOf(more0).to
    BY <2>1, <2>2
  <2>4. /\ RangeOf(more0).from \in Nat /\ RangeOf(in0).from \in Nat
        /\ RangeOf(more0).to \in Nat /\ RangeOf(in0).to \in Nat
    BY <1>2, <1>4, RangeTypes
  <2>5. ASSUME NEW f \in in1 PROVE Overlaps(f, RangeOf(more0))
    <3>1. Overlaps(f, RangeOf(in0)) /\ f \in TableOf(W)
      BY <1>2, <1>5
    <3>2. Range1(f).from \in Nat /\ Range1(f).to \in Nat
      BY <1>1, <3>1, TableFacts
    <3> QED BY <2>3, <2>4, <3>1, <3>2 DEF Overlaps
  <2> QED BY <1>2, <1>4, <2>5
<1>8. ASSUME Connected(first) PROVE Connected(more0 \cup more1)
  <2> DEFINE S == more0 \cup in1
  <2>1. Connected(S)
    BY <1>3, <1>4, <1>5, <1>6, <1>8
  <2>2. S \in SUBSET TableOf(W) /\ S # {} /\ IsFiniteSet(S) /\ more0 \in SUBSET S
    BY <1>4, <1>5, FS_Union
  <2>3. S \cup more1 = more0 \cup more1
    BY <1>7
  <2>4. \A g \in more1 : Overlaps(g, RangeOf(more0))
    BY <1>4
  <2> HIDE DEF S
  <2>5. Connected(S \cup more1)
    BY <1>1, <1>4, <1>5, <2>1, <2>2, <2>4, ConnectOverlapping
  <2> QED BY <2>3, <2>5
<1>9. Fitting(level, in0, in1) /\ Fitting(level, more0, more1)
  BY <1>2, <1>4 DEF Fitting
<1>10. CASE inputs = <<in0, in1>>
  <2>1. inputs[1] = in0 /\ inputs[2] = in1
    BY <1>10
  <2> QED BY <1>6, <1>9, <2>1
<1>11. CASE inputs = <<more0, more1>>
  <2>1. inputs[1] = more0 /\ inputs[2] = more1
    BY <1>11
  <2> QED BY <1>8, <1>9, <2>1
<1> QED BY <1>0, <1>10, <1>11

\* All of a table before, or all of it after, every entry of a set.
Aside(f, entries) ==
  \/ \A e \in f.entries, x \in entries : Before(e, x)
  \/ \A e \in f.entries, x \in entries : Before(x, e)

\* A table that misses a range is aside of all entries in it.
LEMMA MissedIsAside ==
  ASSUME NEW W, History(W), NEW f \in TableOf(W), NEW r \in Ranges, ~ Overlaps(f, r),
         NEW E \in SUBSET W, \A e \in E : r.from <= e.key /\ e.key <= r.to
  PROVE  Aside(f, E)
<1>1. /\ Range1(f).to \in Nat /\ Range1(f).from \in Nat /\ r.from \in Nat /\ r.to \in Nat
      /\ \A e \in f.entries : e \in W /\ Range1(f).from <= e.key /\ e.key <= Range1(f).to
  BY TableFacts, RangeTypes
<1>2. \A e \in W : e.key \in Nat
  BY BeforeIsOrder
<1>3. CASE Range1(f).to < r.from
  BY <1>1, <1>2, <1>3 DEF Aside, Before
<1>4. CASE Range1(f).from > r.to
  BY <1>1, <1>2, <1>4 DEF Aside, Before
<1> QED BY <1>3, <1>4 DEF Overlaps

\* The tables of the lower level that stay are aside of all that is merged.
LEMMA RestIsAside ==
  ASSUME NEW W, TablesOK(W), Sorted, NEW level \in 0 .. NumLevels - 2,
         NEW in0, NEW in1, Fitting(level, in0, in1), NEW g \in levels[level + 1] \ in1
  PROVE  Aside(g, EntriesOf(in0 \cup in1))
<1>1. /\ History(W) /\ levels[level + 1] \in SUBSET TableOf(W) /\ IsFiniteSet(levels[level + 1])
      /\ levels[level] \in SUBSET TableOf(W) /\ IsFiniteSet(levels[level])
      /\ level + 1 \in Level /\ level + 1 # 0
  BY UpperAndLower DEF TablesOK
<1>2. /\ in0 \in SUBSET TableOf(W) /\ IsFiniteSet(in0) /\ in0 # {}
      /\ in1 \in SUBSET levels[level + 1] /\ in1 \in SUBSET TableOf(W)
      /\ \A f \in in1 : Overlaps(f, RangeOf(in0))
      /\ ~ Overlaps(g, RangeOf(in0)) /\ g \in TableOf(W)
  BY <1>1, FS_Subset DEF Fitting
<1> DEFINE r == RangeOf(in0)
<1>3. r \in Ranges /\ \A f \in in0 : r.from <= Range1(f).from /\ Range1(f).to <= r.to
  BY <1>1, <1>2, RangeOfFacts
<1> HIDE DEF r
<1>4. r.from \in Nat /\ r.to \in Nat
  BY <1>3, RangeTypes
<1>5. Range1(g).from \in Nat /\ Range1(g).to \in Nat /\ Range1(g).from <= Range1(g).to
  BY <1>1, <1>2, TableFacts
<1>6. ASSUME NEW f \in in0, NEW e \in f.entries
      PROVE  e \in W /\ r.from <= e.key /\ e.key <= r.to
  <2>1. /\ Range1(f).from <= e.key /\ e.key <= Range1(f).to /\ e \in W
        /\ Range1(f).from \in Nat /\ Range1(f).to \in Nat
    BY <1>1, <1>2, TableFacts
  <2>2. e.key \in Nat
    BY <1>1, <2>1, BeforeIsOrder
  <2> QED BY <1>3, <1>4, <2>1, <2>2
<1>7. ASSUME NEW e \in g.entries
      PROVE  e \in W /\ Range1(g).from <= e.key /\ e.key <= Range1(g).to /\ e.key \in Nat
  BY <1>1, <1>2, TableFacts, BeforeIsOrder
<1>8. ASSUME NEW f \in in1 PROVE Before(Largest(g), Smallest(f)) \/ Before(Largest(f), Smallest(g))
  <2>1. f \in levels[level + 1] /\ f # g
    BY <1>2
  <2> QED BY <1>1, <2>1 DEF Sorted
<1>9. ASSUME NEW f \in in1
      PROVE  /\ f \in TableOf(W) /\ Overlaps(f, r)
             /\ Range1(f).from \in Nat /\ Range1(f).to \in Nat /\ Range1(f).from <= Range1(f).to
  <2>1. f \in TableOf(W) /\ Overlaps(f, r)
    BY <1>2 DEF r
  <2> QED BY <1>1, <2>1, TableFacts
<1>10. CASE Range1(g).to < r.from
  <2>1. ASSUME NEW f \in in1 PROVE Before(Largest(g), Smallest(f))
    <3>1. SUFFICES ASSUME Before(Largest(f), Smallest(g)) PROVE FALSE
      BY <1>8
    <3>2. Range1(f).to <= Range1(g).from
      BY <1>1, <1>2, <1>9, <3>1, TablesInOrder
    <3> QED BY <1>4, <1>5, <1>9, <1>10, <3>2 DEF Overlaps
  <2>2. ASSUME NEW f \in in0 \cup in1, NEW e \in g.entries, NEW x \in f.entries
        PROVE  Before(e, x)
    <3>1. CASE f \in in1
      BY <1>1, <1>2, <1>9, <2>1, <3>1, TablesInOrder
    <3>2. CASE f \in in0
      <4>1. r.from <= x.key /\ x \in W
        BY <1>6, <3>2
      <4>2. x.key \in Nat
        BY <1>1, <4>1, BeforeIsOrder
      <4> QED BY <1>4, <1>5, <1>7, <1>10, <4>1, <4>2 DEF Before
    <3> QED BY <3>1, <3>2
  <2> QED BY <2>2 DEF Aside, EntriesOf
<1>11. CASE Range1(g).from > r.to
  <2>1. ASSUME NEW f \in in1 PROVE Before(Largest(f), Smallest(g))
    <3>1. SUFFICES ASSUME Before(Largest(g), Smallest(f)) PROVE FALSE
      BY <1>8
    <3>2. Range1(g).to <= Range1(f).from
      BY <1>1, <1>2, <1>9, <3>1, TablesInOrder
    <3> QED BY <1>4, <1>5, <1>9, <1>11, <3>2 DEF Overlaps
  <2>2. ASSUME NEW f \in in0 \cup in1, NEW e \in g.entries, NEW x \in f.entries
        PROVE  Before(x, e)
    <3>1. CASE f \in in1
      BY <1>1, <1>2, <1>9, <2>1, <3>1, TablesInOrder
    <3>2. CASE f \in in0
      <4>1. x.key <= r.to /\ x \in W
        BY <1>6, <3>2
      <4>2. x.key \in Nat
        BY <1>1, <4>1, BeforeIsOrder
      <4> QED BY <1>4, <1>5, <1>7, <1>11, <4>1, <4>2 DEF Before
    <3> QED BY <3>1, <3>2
  <2> QED BY <2>2 DEF Aside, EntriesOf
<1> QED BY <1>2, <1>10, <1>11 DEF Overlaps, r

\* Of some tables one begins first, and one begins last.
LEMMA FirstAndLastTable ==
  ASSUME NEW W, History(W), NEW files \in SUBSET TableOf(W), IsFiniteSet(files), files # {}
  PROVE  /\ \E f \in files : \A g \in files : ~ Before(Smallest(g), Smallest(f))
         /\ \E f \in files : \A g \in files : ~ Before(Smallest(f), Smallest(g))
<1>1. \A f \in files : Smallest(f) \in W
  BY TableFacts
<1>2. \A f, g, h \in files : ~ Before(Smallest(f), Smallest(f)) /\
          (Before(Smallest(f), Smallest(g)) /\ Before(Smallest(g), Smallest(h))
             => Before(Smallest(f), Smallest(h)))
  BY <1>1, BeforeIsOrder
<1>3. \E f \in files : \A g \in files : ~ Before(Smallest(g), Smallest(f))
  <2> DEFINE R == {p \in files \X files : Before(Smallest(p[1]), Smallest(p[2]))}
  <2>1. \A f, g \in files : <<f, g>> \in R <=> Before(Smallest(f), Smallest(g))
    OBVIOUS
  <2> HIDE DEF R
  <2>2. \E f \in files : \A g \in files : <<g, f>> \notin R
    BY <1>2, <2>1, FiniteMinimal, SMTT(30)
  <2> QED BY <2>1, <2>2
<1>4. \E f \in files : \A g \in files : ~ Before(Smallest(f), Smallest(g))
  <2> DEFINE R == {p \in files \X files : Before(Smallest(p[2]), Smallest(p[1]))}
  <2>1. \A f, g \in files : <<f, g>> \in R <=> Before(Smallest(g), Smallest(f))
    OBVIOUS
  <2> HIDE DEF R
  <2>2. \E f \in files : \A g \in files : <<g, f>> \notin R
    BY <1>2, <2>1, FiniteMinimal, SMTT(30)
  <2> QED BY <2>1, <2>2
<1> QED BY <1>3, <1>4

LEMMA PickedIsGood ==
  ASSUME NEW W, TablesOK(W), Sorted, NEW level \in 0 .. NumLevels - 2, NEW f \in levels[level],
         NEW inputs \in Picked(level, f)
  PROVE  Fitting(level, inputs[1], inputs[2]) /\ Connected(inputs[1] \cup inputs[2])
<1> DEFINE files == levels[level]
           first == IF level = 0 THEN GetOverlappingInputs(levels, 0, Range1(f)) ELSE {f}
<1>1. /\ level \in Nat /\ level \in Level /\ History(W)
      /\ files \in SUBSET TableOf(W) /\ IsFiniteSet(files)
  BY UpperAndLower DEF TablesOK
<1>2. f \in TableOf(W) /\ Smallest(f) \in W /\ Range1(f) \in Ranges /\ Connected({f})
  <2>1. f \in TableOf(W)
    BY <1>1
  <2>2. /\ Range1(f) = [from |-> Smallest(f).key, to |-> Largest(f).key]
        /\ Smallest(f) \in W /\ Range1(f).from \in Key /\ Range1(f).to \in Key
    BY <1>1, <2>1, TableFacts
  <2>3. Range1(f) \in Ranges
    BY <2>2 DEF Ranges
  <2> QED BY <1>1, <2>1, <2>2, <2>3, OneIsConnected
<1>3. ASSUME level # 0 PROVE GoodPart(files, level, first) /\ Connected(first)
  <2>1. first = {f}
    BY <1>3
  <2>2. Contiguous(files, {f})
    BY <1>1, <1>2, TableFacts, BeforeIsOrder DEF Contiguous
  <2>3. SortedFiles(files)
    BY <1>1, <1>3 DEF Sorted, SortedFiles
  <2> HIDE DEF first, files
  <2> QED BY <1>2, <1>3, <2>1, <2>2, <2>3 DEF GoodPart, files
<1>4. ASSUME level = 0 PROVE GoodPart(files, level, first) /\ Connected(first)
  <2>1. levels[0] = files /\ first = GetOverlappingInputs(levels, level, Range1(f))
    BY <1>4
  <2>2. first = {g \in files : Overlaps(g, Widened(levels, Range1(f)))}
    BY <1>4 DEF GetOverlappingInputs
  <2>3. f \in files
    OBVIOUS
  <2> HIDE DEF first, files
  <2>4. Closed(files, Range1(f), Widened(levels, Range1(f)))
    BY <1>1, <1>2, <2>1, WidenedIsLeast
  <2>5. f \in first
    <3> DEFINE w == Widened(levels, Range1(f))
    <3>1. w \in Ranges /\ w.from <= Range1(f).from /\ Range1(f).to <= w.to
      BY <2>4 DEF Closed
    <3>2. w.from \in Nat /\ w.to \in Nat
      BY <3>1, RangeTypes
    <3> HIDE DEF w
    <3>3. Range1(f).from \in Nat /\ Range1(f).to \in Nat /\ Range1(f).from <= Range1(f).to
      BY <1>1, <1>2, <2>3, TableFacts
    <3>4. Overlaps(f, w)
      BY <3>1, <3>2, <3>3 DEF Overlaps
    <3> QED BY <2>2, <2>3, <3>4 DEF w
  <2>6. GoodPart(files, level, first)
    <3>1. levels[level] = files
      BY DEF files
    <3> QED BY <1>1, <1>2, <1>4, <2>1, <2>5, <3>1, OverlappingIsGood
  <2>7. Connected(first)
    <3> DEFINE S == {f}
    <3>1. S \in SUBSET TableOf(W) /\ IsFiniteSet(S) /\ S # {} /\ Connected(S)
      BY <1>1, <1>2, <2>3, FS_Singleton
    <3>2. \A g \in S : g = f
      OBVIOUS
    <3> HIDE DEF S
    <3>3. RangeOf(S) = Range1(f)
      <4>1. /\ RangeOf(S) \in Ranges /\ RangeOf(S).from = Range1(f).from
            /\ RangeOf(S).to = Range1(f).to
        BY <1>1, <3>1, <3>2, RangeOfFacts
      <4> QED BY <1>2, <4>1 DEF Ranges
    <3>4. Connected(S \cup {g \in files : Overlaps(g, Widened(levels, RangeOf(S)))})
      BY <1>1, <2>1, <3>1, WidenedIsConnected
    <3>5. S \cup {g \in files : Overlaps(g, Widened(levels, RangeOf(S)))} = first
      BY <2>2, <2>5, <3>2, <3>3
    <3> QED BY <3>4, <3>5
  <2> QED BY <2>6, <2>7
<1>5. inputs \in SetupOtherInputs(level, first)
  BY DEF Picked
<1> HIDE DEF first
<1>6. GoodPart(levels[level], level, first) /\ Connected(first)
  BY <1>3, <1>4
<1> QED BY <1>5, <1>6, InputsFit

\* The pieces of CompactRange.
LEMMA PieceIsGood ==
  ASSUME NEW W, TablesOK(W), Sorted, manual.level \in 0 .. NumLevels - 2,
         manual.range \in Ranges, ManualInputs # {},
         NEW inputs \in SetupOtherInputs(manual.level, FirstOf(ManualInputs, manual.level))
  PROVE  Fitting(manual.level, inputs[1], inputs[2])
<1> DEFINE level == manual.level
           files == levels[level]
           part == GetOverlappingInputs(levels, level, manual.range)
           UpTo(f) == {g \in part : ~Before(Smallest(f), Smallest(g))}
           enough == {f \in part : Cardinality(EntriesOf(UpTo(f))) >= instance.table}
           end == CHOOSE f \in enough : \A g \in enough : ~Before(Smallest(g), Smallest(f))
           first == IF level = 0 \/ enough = {} THEN part ELSE UpTo(end)
<1>1. /\ level \in Nat /\ level \in Level /\ History(W) /\ files = levels[level]
      /\ files \in SUBSET TableOf(W) /\ IsFiniteSet(files)
  BY UpperAndLower DEF TablesOK
<1>2. level # 0 => SortedFiles(files)
  BY <1>1 DEF Sorted, SortedFiles
<1>3. first = FirstOf(ManualInputs, level)
  BY DEF FirstOf, ManualInputs
<1>4. GoodPart(files, level, part)
  <2>1. part # {}
    BY DEF ManualInputs
  <2> HIDE DEF files, level
  <2> QED BY <1>1, <1>2, <2>1, OverlappingIsGood
<1>5. part \in SUBSET files /\ IsFiniteSet(part) /\ part \in SUBSET TableOf(W)
  BY <1>1, <1>4, FS_Subset DEF GoodPart
<1>6. ASSUME NEW f \in part, level # 0 PROVE GoodPart(files, level, UpTo(f))
  <2> HIDE DEF part, files, level
  <2>1. \A g \in part : Smallest(g) \in W
    BY <1>1, <1>5, TableFacts
  <2>2. f \in UpTo(f)
    BY <1>1, <2>1, BeforeIsOrder
  <2>3. SortedFiles(files) /\ Contiguous(files, part)
    BY <1>4, <1>6 DEF GoodPart
  <2>4. ASSUME NEW a \in UpTo(f), NEW b \in UpTo(f), NEW g \in files,
               Before(Smallest(a), Smallest(g)), Before(Smallest(g), Smallest(b))
        PROVE  g \in UpTo(f)
    <3>1. g \in part
      BY <2>3, <2>4 DEF Contiguous
    <3>2. ~ Before(Smallest(f), Smallest(b)) /\ b \in part
      OBVIOUS
    <3>3. ~ Before(Smallest(f), Smallest(g))
      BY <1>1, <2>1, <2>4, <3>1, <3>2, BeforeIsOrder
    <3> QED BY <3>1, <3>3
  <2>5. UpTo(f) \in SUBSET files /\ UpTo(f) # {}
    BY <1>5, <2>2
  <2> HIDE DEF UpTo
  <2> QED BY <1>6, <2>3, <2>4, <2>5 DEF GoodPart, Contiguous
<1>7. ASSUME enough # {} PROVE end \in part
  <2>1. enough \subseteq part
    OBVIOUS
  <2> HIDE DEF enough, part
  <2>2. enough \in SUBSET TableOf(W) /\ IsFiniteSet(enough)
    BY <1>5, <2>1, FS_Subset
  <2>3. \E f \in enough : \A g \in enough : ~Before(Smallest(g), Smallest(f))
    BY <1>1, <1>7, <2>2, FirstAndLastTable
  <2>4. end \in enough
    BY <2>3
  <2> QED BY <2>1, <2>4
<1> HIDE DEF enough, end, UpTo, part
<1>8. GoodPart(files, level, first)
  BY <1>4, <1>6, <1>7
<1> HIDE DEF first
<1> QED BY <1>3, <1>8, InputsFit

-----------------------------------------------------------------------------
(* What a merge writes.                                                    *)

LEMMA DivMonotone ==
  ASSUME NEW a \in Nat, NEW b \in Nat, NEW s \in Nat, s > 0, a <= b
  PROVE  a \div s \in Nat /\ a \div s <= b \div s
OBVIOUS

\* The outputs are full of what is left of the inputs, one after the other.
LEMMA OutputsFacts ==
  ASSUME NEW W, History(W), instance.table \in Nat, instance.table > 0,
         NEW j, Inputs(j) \in SUBSET W
  PROVE  /\ Outputs(j) \in SUBSET TableOf(W) /\ IsFiniteSet(Outputs(j))
         /\ \A f \in Outputs(j) : f.number = 0 /\ f.entries \subseteq Inputs(j)
         /\ SortedFiles(Outputs(j))
<1> DEFINE left == {e \in Inputs(j) : ~IsDropped(j, e)}
           Ahead(e) == {x \in left : Before(x, e)}
           Number(e) == Cardinality(Ahead(e)) \div instance.table
           numbers == {Number(e) : e \in left}
           Output(i) == [number |-> 0, entries |-> {e \in left : Number(e) = i}]
<1>1. Outputs(j) = {Output(i) : i \in numbers}
  BY DEF Outputs
<1>2. left \subseteq W /\ left \subseteq Inputs(j) /\ IsFiniteSet(left)
  BY FS_Subset DEF History
<1> HIDE DEF left
<1>3. ASSUME NEW e \in left
      PROVE  IsFiniteSet(Ahead(e)) /\ Cardinality(Ahead(e)) \in Nat /\ Number(e) \in Nat
  <2>1. Ahead(e) \subseteq left
    OBVIOUS
  <2> HIDE DEF Ahead
  <2>2. IsFiniteSet(Ahead(e)) /\ Cardinality(Ahead(e)) \in Nat
    BY <1>2, <2>1, FS_Subset, FS_CardinalityType
  <2> QED BY <2>2
<1>4. ASSUME NEW a \in left, NEW b \in left, Number(a) < Number(b)
      PROVE  Before(a, b)
  <2>1. a \in W /\ b \in W
    BY <1>2
  <2>2. a # b
    BY <1>3, <1>4
  <2>3. ASSUME Before(b, a) PROVE FALSE
    <3>1. \A x \in left : Before(x, b) => Before(x, a)
      BY <1>2, <2>1, <2>3, BeforeIsOrder
    <3>2. Ahead(b) \subseteq Ahead(a)
      BY <3>1
    <3>3. IsFiniteSet(Ahead(a)) /\ Cardinality(Ahead(a)) \in Nat /\ Cardinality(Ahead(b)) \in Nat
      BY <1>3
    <3>4. Cardinality(Ahead(b)) <= Cardinality(Ahead(a))
      <4> HIDE DEF Ahead
      <4> QED BY <3>2, <3>3, FS_Subset
    <3>5. Number(b) <= Number(a)
      <4> HIDE DEF Ahead
      <4> QED BY <3>3, <3>4, DivMonotone
    <3>6. Number(a) \in Nat /\ Number(b) \in Nat
      BY <1>3
    <3> HIDE DEF Number
    <3> QED BY <1>4, <3>5, <3>6
  <2> QED BY <2>1, <2>2, <2>3, BeforeIsOrder
<1> HIDE DEF Number
<1>5. \A i \in numbers : Output(i) \in TableOf(W) /\ Output(i).number = 0
                         /\ Output(i).entries \subseteq left
  BY <1>2 DEF TableOf
<1>6. IsFiniteSet(Outputs(j))
  <2> DEFINE g == [e \in left |-> Output(Number(e))]
  <2>1. Outputs(j) = {g[e] : e \in left}
    BY <1>1
  <2> HIDE DEF g
  <2> QED BY <1>2, <2>1, ImageIsFinite
<1>7. SortedFiles(Outputs(j))
  <2>1. SUFFICES ASSUME NEW i \in numbers, NEW k \in numbers, Output(i) # Output(k)
                 PROVE  \/ Before(Largest(Output(i)), Smallest(Output(k)))
                        \/ Before(Largest(Output(k)), Smallest(Output(i)))
    BY <1>1 DEF SortedFiles
  <2>2. /\ Largest(Output(i)) \in Output(i).entries /\ Smallest(Output(i)) \in Output(i).entries
        /\ Largest(Output(k)) \in Output(k).entries /\ Smallest(Output(k)) \in Output(k).entries
    BY <1>5, TableFacts
  <2>3. i # k /\ i \in Nat /\ k \in Nat
    BY <1>3, <2>1
  <2>4. CASE i < k
    BY <1>4, <2>2, <2>4
  <2>5. CASE k < i
    BY <1>4, <2>2, <2>5
  <2> QED BY <2>3, <2>4, <2>5
<1> QED BY <1>1, <1>2, <1>5, <1>6, <1>7

-----------------------------------------------------------------------------
(* The inductive invariant.                                                *)

Types ==
  /\ instance \in Instances
  /\ TablesOK(written)
  /\ \A e \in written : e.seq <= LastSequence
  /\ mem \subseteq written /\ imm \subseteq written
  /\ next \in Nat
  /\ \A level \in Level : \A f \in levels[level] : f.number < next
  /\ next > 0
  /\ snapshots \subseteq 0 .. LastSequence
  /\ manual # None =>
       /\ manual \in ManualCompaction
       /\ manual.level < manual.last /\ manual.last < NumLevels

\* What is in memory is newer than what is in tables.
MemoryIsNewest ==
  /\ \A e \in mem, x \in imm : x.seq < e.seq
  /\ \A e \in mem \cup imm, level \in Level : \A x \in EntriesOf(levels[level]) : x.seq < e.seq

\* The inputs of a merge are still there when it ends, and its outputs have a
\* place: tables of the lower level it was picked in are aside of it, and those
\* that were flushed since meet no input, although they may be between two.
JobIsSafe ==
  job # None =>
    /\ job.level \in 0 .. NumLevels - 2
    /\ job.in0 \subseteq levels[job.level] /\ job.in1 \subseteq levels[job.level + 1]
    /\ job.in0 # {}
    /\ TakesOldest(levels[job.level], job.in0)
    /\ \A f \in levels[job.level + 1] \ job.in1 :
         IF f \in job.version[job.level + 1] THEN Aside(f, Inputs(job))
         ELSE \A g \in job.in0 \cup job.in1 : ~ Overlaps(f, Range1(g))
    /\ \A f \in job.version[job.level + 1] : f.number \in 0 .. next - 1
    /\ manual # None \/ Connected(job.in0 \cup job.in1)

IInv == Types /\ MemoryIsNewest /\ NewerIsAbove /\ JobIsSafe

LEMMA InstanceFacts ==
  ASSUME instance \in Instances
  PROVE  /\ instance.levels \in Nat /\ instance.levels >= 2 /\ NumLevels = instance.levels
         /\ instance.table \in Nat /\ instance.table > 0 /\ instance.keys \subseteq Key
BY LevelsAssumption DEF NumLevels

LEMMA InitHolds == Init => IInv
<1> SUFFICES ASSUME Init PROVE IInv
  OBVIOUS
<1>1. instance \in Instances /\ levels = [level \in Level |-> {}]
  BY DEF Init
<1>2. LastSequence = 0 /\ IsFiniteSet({}) /\ History(written)
  BY FS_EmptySet DEF Init, LastSequence, History
<1>3. TablesOK(written)
  BY <1>1, <1>2, InstanceFacts DEF TablesOK
<1>4. Types
  BY <1>1, <1>2, <1>3 DEF Types, Init
<1>5. MemoryIsNewest /\ JobIsSafe
  BY DEF Init, MemoryIsNewest, JobIsSafe
<1>6. NewerIsAbove
  BY <1>1 DEF NewerIsAbove, EntriesOf
<1> QED BY <1>4, <1>5, <1>6 DEF IInv

LEMMA TypeOKHolds == IInv => TypeOK /\ NewerIsAbove
<1> SUFFICES ASSUME IInv PROVE TypeOK
  BY DEF IInv
<1>1. written \subseteq Entry /\ DOMAIN levels = Level
  BY DEF IInv, Types, TablesOK, History
<1>2. ASSUME NEW level \in Level, NEW f \in levels[level]
      PROVE  f.number < next /\ f.entries # {} /\ f.entries \subseteq written
  BY DEF IInv, Types, TablesOK, TableOf
<1> QED BY <1>1, <1>2 DEF TypeOK, IInv, Types, JobIsSafe

\* Nothing happens to the tables.
LEMMA TablesStay ==
  ASSUME IInv, UNCHANGED <<levels, next, job, instance>>,
         manual # None => manual' # None
  PROVE  NewerIsAbove' /\ JobIsSafe'
<1>1. NumLevels' = NumLevels /\ Level' = Level
  BY DEF NumLevels, Level
<1>2. NewerIsAbove'
  BY <1>1 DEF IInv, NewerIsAbove
<1>3. JobIsSafe'
  BY <1>1 DEF IInv, JobIsSafe
<1> QED BY <1>2, <1>3

LEMMA AddHolds ==
  ASSUME IInv, NEW k \in Key, NEW del \in BOOLEAN, Add(k, del)
  PROVE  IInv'
<1> DEFINE e == [key |-> k, seq |-> LastSequence + 1, del |-> del]
<1>1. /\ written' = written \cup {e} /\ mem' = mem \cup {e}
      /\ UNCHANGED <<imm, levels, next, snapshots, job, manual, instance>>
  BY DEF Add
<1>2. /\ History(written) /\ IsFiniteSet(written) /\ LastSequence \in Nat
      /\ \A x \in written : x.seq \in Nat /\ x.seq <= LastSequence
  <2>1. History(written) /\ IsFiniteSet(written) /\ written \subseteq Entry
    BY DEF IInv, Types, TablesOK, History
  <2>2. LastSequence \in Nat
    BY <2>1, FS_CardinalityType DEF LastSequence
  <2> QED BY <2>1, <2>2 DEF IInv, Types, Entry
<1>3. e \in Entry /\ e.seq = LastSequence + 1 /\ e \notin written
  BY <1>2, LevelsAssumption DEF Entry
<1> HIDE DEF e
<1>4. IsFiniteSet(written') /\ LastSequence' = LastSequence + 1
  BY <1>1, <1>2, <1>3, FS_AddElement DEF LastSequence
<1>5. History(written')
  BY <1>1, <1>2, <1>3, <1>4 DEF History
<1>6. NumLevels' = NumLevels /\ Level' = Level
  BY <1>1 DEF NumLevels, Level
<1>7. TablesOK(written)'
  <2>1. TableOf(written) \subseteq TableOf(written')
    BY <1>1 DEF TableOf
  <2>2. TablesOK(written)
    BY DEF IInv, Types
  <2> QED BY <1>1, <1>5, <1>6, <2>1, <2>2 DEF TablesOK
<1>8. Types'
  <2>1. Types
    BY DEF IInv
  <2>2. (\A x \in written : x.seq <= LastSequence)'
    BY <1>1, <1>2, <1>3, <1>4
  <2>3. snapshots' \subseteq 0 .. LastSequence'
    BY <1>1, <1>2, <1>4, <2>1 DEF Types
  <2> QED BY <1>1, <1>6, <1>7, <2>1, <2>2, <2>3 DEF Types
<1>9. MemoryIsNewest'
  <2>1. \A level \in Level : \A x \in EntriesOf(levels[level]) : x \in written
    <3>1. levels \in [Level -> SUBSET TableOf(written)]
      BY DEF IInv, Types, TablesOK
    <3> QED BY <3>1 DEF EntriesOf, TableOf
  <2>2. imm \subseteq written
    BY DEF IInv, Types
  <2>3. MemoryIsNewest
    BY DEF IInv
  <2> QED BY <1>1, <1>2, <1>3, <1>6, <2>1, <2>2, <2>3 DEF MemoryIsNewest
<1>10. NewerIsAbove' /\ JobIsSafe'
  BY <1>1, TablesStay
<1> QED BY <1>8, <1>9, <1>10 DEF IInv

\* Actions that only move entries within memory, or change what is asked for.
LEMMA QuietHolds ==
  ASSUME IInv, UNCHANGED <<written, levels, next, job, instance>>,
         \/ UNCHANGED <<mem, imm>>
         \/ imm = {} /\ imm' = mem /\ mem' = {},
         snapshots' \subseteq 0 .. LastSequence,
         manual # None => manual' # None,
         manual' # None => /\ manual' \in ManualCompaction
                           /\ manual'.level < manual'.last /\ manual'.last < NumLevels
  PROVE  IInv'
<1>1. NumLevels' = NumLevels /\ Level' = Level /\ LastSequence' = LastSequence
  BY DEF NumLevels, Level, LastSequence
<1>2. TablesOK(written)'
  BY <1>1 DEF IInv, Types, TablesOK
<1>3. Types'
  BY <1>1, <1>2 DEF IInv, Types
<1>4. MemoryIsNewest'
  BY <1>1 DEF IInv, MemoryIsNewest
<1>5. NewerIsAbove' /\ JobIsSafe'
  BY TablesStay
<1> QED BY <1>3, <1>4, <1>5 DEF IInv

LEMMA SwitchMemTableHolds ==
  ASSUME IInv, SwitchMemTable
  PROVE  IInv'
<1>1. /\ snapshots' \subseteq 0 .. LastSequence /\ manual' = manual
      /\ manual' # None => /\ manual' \in ManualCompaction
                           /\ manual'.level < manual'.last /\ manual'.last < NumLevels
  BY DEF SwitchMemTable, IInv, Types
<1> QED BY <1>1, QuietHolds DEF SwitchMemTable

LEMMA SnapshotsHold ==
  ASSUME IInv, GetSnapshot \/ \E s \in snapshots : ReleaseSnapshot(s)
  PROVE  IInv'
<1>1. LastSequence \in Nat
  BY FS_CardinalityType DEF IInv, Types, TablesOK, History, LastSequence
<1>2. snapshots' \subseteq 0 .. LastSequence
  <2>1. snapshots' \subseteq snapshots \cup {LastSequence}
    BY DEF GetSnapshot, ReleaseSnapshot
  <2>2. snapshots \subseteq 0 .. LastSequence /\ LastSequence \in 0 .. LastSequence
    BY <1>1 DEF IInv, Types
  <2> QED BY <2>1, <2>2
<1>3. /\ manual' = manual /\ UNCHANGED <<written, mem, imm, levels, next, job, instance>>
      /\ manual' # None => /\ manual' \in ManualCompaction
                           /\ manual'.level < manual'.last /\ manual'.last < NumLevels
  BY DEF IInv, Types, GetSnapshot, ReleaseSnapshot
<1> QED
  <2>1. (manual # None => manual' # None) /\ UNCHANGED <<mem, imm>>
    BY <1>3
  <2> QED BY <1>2, <1>3, <2>1, QuietHolds

LEMMA CompactRangeHolds ==
  ASSUME IInv, NEW r \in Ranges, CompactRange(r)
  PROVE  IInv'
<1> DEFINE reached == {1} \cup {l \in 1 .. NumLevels - 1 : \E f \in levels[l] : Overlaps(f, r)}
<1>1. NumLevels \in Nat /\ NumLevels >= 2
  BY InstanceFacts DEF IInv, Types
<1>2. Max(reached) \in 1 .. NumLevels - 1
  <2>1. reached \in SUBSET (1 .. NumLevels - 1) /\ reached # {}
    BY <1>1
  <2> HIDE DEF reached
  <2>2. IsFiniteSet(1 .. NumLevels - 1) /\ 1 .. NumLevels - 1 \subseteq Nat
    BY <1>1, FS_Interval
  <2>3. reached \in SUBSET Nat /\ IsFiniteSet(reached)
    BY <2>1, <2>2, FS_Subset
  <2> QED BY <2>1, <2>3, MaxIsThere
<1>3. manual' = [level |-> 0, whole |-> r, range |-> r, last |-> Max(reached)]
  BY DEF CompactRange
<1> HIDE DEF reached
<1>4. /\ manual' \in ManualCompaction /\ manual'.level < manual'.last /\ manual'.last < NumLevels
  BY <1>1, <1>2, <1>3 DEF ManualCompaction
<1>5. /\ UNCHANGED <<written, levels, next, job, instance>> /\ manual = None
      /\ \/ UNCHANGED <<mem, imm>>
         \/ imm = {} /\ imm' = mem /\ mem' = {}
      /\ snapshots' \subseteq 0 .. LastSequence
  BY DEF CompactRange, IInv, Types
<1> QED BY <1>4, <1>5, QuietHolds

LEMMA LevelIsDoneHolds ==
  ASSUME IInv, LevelIsDone
  PROVE  IInv'
<1>1. /\ job = None /\ manual # None
      /\ UNCHANGED <<written, mem, imm, levels, next, snapshots, job, instance>>
      /\ manual' = IF manual.level + 1 < manual.last
                   THEN [manual EXCEPT !.level = @ + 1, !.range = manual.whole] ELSE None
  BY DEF LevelIsDone, CanCompact
<1>2. NumLevels' = NumLevels /\ Level' = Level /\ LastSequence' = LastSequence
  BY <1>1 DEF NumLevels, Level, LastSequence
<1>3. TablesOK(written)'
  BY <1>1, <1>2 DEF IInv, Types, TablesOK
<1>4. manual' # None => /\ manual' \in ManualCompaction
                        /\ manual'.level < manual'.last /\ manual'.last < NumLevels
  <2>1. manual \in ManualCompaction /\ manual.last < NumLevels
    BY <1>1 DEF IInv, Types
  <2>2. CASE manual.level + 1 < manual.last
    <3>1. manual' = [manual EXCEPT !.level = @ + 1, !.range = manual.whole]
      BY <1>1, <2>2
    <3>2. manual.level + 1 \in Nat
      BY <2>1 DEF ManualCompaction
    <3>3. /\ manual'.level = manual.level + 1 /\ manual'.last = manual.last
          /\ manual' \in ManualCompaction
      BY <2>1, <3>1, <3>2 DEF ManualCompaction
    <3> QED BY <2>1, <2>2, <3>3
  <2>3. CASE ~(manual.level + 1 < manual.last)
    BY <1>1, <2>3
  <2> QED BY <2>2, <2>3
<1>5. Types'
  BY <1>1, <1>2, <1>3, <1>4 DEF IInv, Types
<1>6. MemoryIsNewest' /\ NewerIsAbove' /\ JobIsSafe'
  BY <1>1, <1>2 DEF IInv, MemoryIsNewest, NewerIsAbove, JobIsSafe
<1> QED BY <1>5, <1>6 DEF IInv

-----------------------------------------------------------------------------
(* Steps that change the tables.                                           *)

\* What a move and the end of a merge have in common.
Replaces(level, in0, in1, out) ==
  /\ in0 \subseteq levels[level] /\ in1 \subseteq levels[level + 1]
  /\ TakesOldest(levels[level], in0)
  /\ out \in SUBSET TableOf(written) /\ IsFiniteSet(out)
  /\ \A f \in out : f.number < next
  /\ EntriesOf(out) \subseteq EntriesOf(in0 \cup in1)
  /\ levels' = [levels EXCEPT ![level] = @ \ in0, ![level + 1] = (@ \ in1) \cup out]
  /\ UNCHANGED <<written, mem, imm, next, snapshots, manual, instance>>

LEMMA ReplacedLevels ==
  ASSUME IInv, NEW level \in 0 .. NumLevels - 2, NEW in0, NEW in1, NEW out,
         Replaces(level, in0, in1, out)
  PROVE  /\ Level' = Level /\ NumLevels' = NumLevels
         /\ levels'[level] = levels[level] \ in0
         /\ levels'[level + 1] = (levels[level + 1] \ in1) \cup out
         /\ \A l \in Level : l # level /\ l # level + 1 => levels'[l] = levels[l]
         /\ DOMAIN levels' = Level
         /\ levels' = [l \in Level |-> levels'[l]]
<1>1. TablesOK(written)
  BY DEF IInv, Types
<1>2. /\ level \in Level /\ level + 1 \in Level /\ level + 1 # level
      /\ levels \in [Level -> SUBSET TableOf(written)]
  BY <1>1, UpperAndLower DEF TablesOK
<1>3. levels' = [levels EXCEPT ![level] = levels[level] \ in0,
                               ![level + 1] = (levels[level + 1] \ in1) \cup out]
  BY <1>2 DEF Replaces
<1>4. Level' = Level /\ NumLevels' = NumLevels
  BY DEF Replaces, Level, NumLevels
<1> QED BY <1>2, <1>3, <1>4

LEMMA ReplaceHolds ==
  ASSUME IInv, NEW level \in 0 .. NumLevels - 2, NEW in0, NEW in1, NEW out,
         Replaces(level, in0, in1, out), job' = None
  PROVE  IInv'
<1>1. TablesOK(written) /\ Types
  BY DEF IInv, Types
<1>2. /\ level \in Level /\ level + 1 \in Level /\ level + 1 # level /\ level \in Nat
      /\ levels \in [Level -> SUBSET TableOf(written)]
      /\ \A l \in Level : IsFiniteSet(levels[l])
  BY <1>1, UpperAndLower DEF TablesOK
<1>3. /\ Level' = Level /\ NumLevels' = NumLevels
      /\ levels'[level] = levels[level] \ in0
      /\ levels'[level + 1] = (levels[level + 1] \ in1) \cup out
      /\ \A l \in Level : l # level /\ l # level + 1 => levels'[l] = levels[l]
      /\ levels' = [l \in Level |-> levels'[l]]
  BY ReplacedLevels
<1>4. /\ in0 \subseteq levels[level] /\ in1 \subseteq levels[level + 1]
      /\ TakesOldest(levels[level], in0)
      /\ out \in SUBSET TableOf(written) /\ IsFiniteSet(out)
      /\ \A f \in out : f.number < next
      /\ EntriesOf(out) \subseteq EntriesOf(in0 \cup in1)
      /\ UNCHANGED <<written, mem, imm, next, snapshots, manual, instance>>
  BY DEF Replaces
<1>5. ASSUME NEW l \in Level
      PROVE  /\ levels'[l] \in SUBSET TableOf(written) /\ IsFiniteSet(levels'[l])
             /\ \A f \in levels'[l] : f.number < next
  <2>1. levels'[l] \subseteq levels[l] \cup out
    BY <1>3
  <2>2. IsFiniteSet(levels[l] \cup out)
    BY <1>2, <1>4, FS_Union
  <2>3. IsFiniteSet(levels'[l])
    BY <2>1, <2>2, FS_Subset
  <2> QED BY <1>1, <1>2, <1>4, <2>1, <2>3 DEF Types
<1>6. TablesOK(written)'
  <2>1. levels' \in [Level -> SUBSET TableOf(written)]
    BY <1>3, <1>5
  <2> QED BY <1>1, <1>3, <1>4, <1>5, <2>1 DEF TablesOK
<1>7. Types'
  <2>1. LastSequence' = LastSequence
    BY <1>4 DEF LastSequence
  <2> QED BY <1>1, <1>3, <1>4, <1>5, <1>6, <2>1 DEF Types
\* Where an entry was.
<1>8. ASSUME NEW l \in Level, NEW x \in EntriesOf(levels'[l])
      PROVE  \/ x \in EntriesOf(levels[l]) /\ (l = level => x \in EntriesOf(levels[level] \ in0))
             \/ l = level + 1 /\ x \in EntriesOf(in0)
  <2>1. PICK f \in levels'[l] : x \in f.entries
    BY DEF EntriesOf
  <2>2. CASE f \in out
    <3>1. x \in EntriesOf(in0 \cup in1)
      BY <1>4, <2>1, <2>2 DEF EntriesOf
    <3>2. l = level + 1 \/ f \in levels[l] \ (IF l = level THEN in0 ELSE {})
      BY <1>3, <2>1
    <3> QED BY <1>2, <1>4, <2>1, <3>1, <3>2 DEF EntriesOf
  <2>3. CASE f \notin out
    <3>1. f \in levels[l] /\ (l = level => f \in levels[level] \ in0)
      BY <1>2, <1>3, <2>1, <2>3
    <3> QED BY <2>1, <3>1 DEF EntriesOf
  <2> QED BY <2>2, <2>3
<1>9. EntriesOf(in0) \subseteq EntriesOf(levels[level])
  BY <1>4 DEF EntriesOf
<1>10. MemoryIsNewest'
  <2>1. MemoryIsNewest
    BY DEF IInv
  <2>2. ASSUME NEW l \in Level, NEW x \in EntriesOf(levels'[l])
        PROVE  \E m \in Level : x \in EntriesOf(levels[m])
    BY <1>2, <1>8, <1>9
  <2> QED BY <1>3, <1>4, <2>1, <2>2 DEF MemoryIsNewest
<1>11. NewerIsAbove'
  <2>1. SUFFICES ASSUME NEW i \in Level, NEW j \in Level, i < j,
                        NEW e \in EntriesOf(levels'[i]), NEW f \in EntriesOf(levels'[j]),
                        e.key = f.key
                 PROVE  e.seq > f.seq
    BY <1>3 DEF NewerIsAbove
  <2>2. NewerIsAbove
    BY DEF IInv
  <2>3. i \in Nat /\ j \in Nat
    BY <1>1, InstanceFacts DEF Types, Level
  <2>4. CASE e \in EntriesOf(levels[i]) /\ f \in EntriesOf(levels[j])
    BY <2>1, <2>2, <2>4 DEF NewerIsAbove
  <2>5. CASE i = level + 1 /\ e \in EntriesOf(in0)
    <3>1. j # level /\ j # level + 1 /\ level < j
      BY <1>2, <2>1, <2>3, <2>5
    <3>2. f \in EntriesOf(levels[j])
      BY <1>8, <3>1
    <3> QED BY <1>2, <1>9, <2>1, <2>2, <2>5, <3>1, <3>2 DEF NewerIsAbove
  <2>6. CASE j = level + 1 /\ f \in EntriesOf(in0)
    <3>1. i < level \/ i = level
      BY <1>2, <2>1, <2>3, <2>6
    <3>2. CASE i < level
      <4>1. e \in EntriesOf(levels[i])
        BY <1>2, <1>8, <2>3, <3>2
      <4> QED BY <1>2, <1>9, <2>1, <2>2, <2>6, <3>2, <4>1 DEF NewerIsAbove
    <3>3. CASE i = level
      <4>1. e \in EntriesOf(levels[level] \ in0)
        BY <1>2, <1>8, <3>3
      <4>2. PICK g \in levels[level] \ in0 : e \in g.entries
        BY <4>1 DEF EntriesOf
      <4>3. PICK h \in in0 : f \in h.entries
        BY <2>6 DEF EntriesOf
      <4> QED BY <1>4, <2>1, <4>2, <4>3 DEF TakesOldest
    <3> QED BY <3>1, <3>2, <3>3
  <2> QED BY <1>8, <2>4, <2>5, <2>6
<1>12. JobIsSafe'
  BY DEF JobIsSafe
<1> QED BY <1>7, <1>10, <1>11, <1>12 DEF IInv

LEMMA MoveReplaces ==
  ASSUME IInv, Sorted, NEW level \in 0 .. NumLevels - 2, NEW f \in levels[level],
         MoveTable(level, f)
  PROVE  \E in0 : Replaces(level, in0, {}, in0) /\ Fitting(level, in0, {}) /\ job' = None
                  /\ SortedFiles(in0) /\ \E g : in0 = {g}
<1>1. PICK inputs \in Picked(level, f) :
        /\ IsTrivialMove(inputs[1], inputs[2])
        /\ levels' = [levels EXCEPT ![level] = @ \ inputs[1], ![level + 1] = @ \cup inputs[1]]
  BY DEF MoveTable
<1>2. UNCHANGED <<written, mem, imm, next, snapshots, job, manual, instance>> /\ job = None
  BY DEF MoveTable, CanCompact
<1>3. TablesOK(written) /\ Types
  BY DEF IInv, Types
<1>4. Fitting(level, inputs[1], inputs[2])
  BY <1>3, PickedIsGood
<1>5. /\ level \in Level /\ level + 1 \in Level /\ level + 1 # level
      /\ levels[level] \in SUBSET TableOf(written) /\ IsFiniteSet(levels[level])
  BY <1>3, UpperAndLower
<1> DEFINE in0 == inputs[1]
<1>6. /\ in0 \subseteq levels[level] /\ TakesOldest(levels[level], in0) /\ in0 # {}
      /\ Cardinality(in0) = 1 /\ inputs[2] = {}
  BY <1>1, <1>4 DEF Fitting, IsTrivialMove
<1> HIDE DEF in0
<1>7. IsFiniteSet(in0) /\ in0 \in SUBSET TableOf(written)
  BY <1>5, <1>6, FS_Subset
<1>8. \A g \in in0 : g.number < next
  BY <1>3, <1>5, <1>6 DEF Types
<1>9. levels' = [levels EXCEPT ![level] = @ \ in0, ![level + 1] = (@ \ {}) \cup in0]
  BY <1>1 DEF in0
<1>10. Replaces(level, in0, {}, in0)
  <2>1. in0 \cup {} = in0
    OBVIOUS
  <2> QED BY <1>2, <1>6, <1>7, <1>8, <1>9, <2>1 DEF Replaces
<1>11. SortedFiles(in0) /\ \E g : in0 = {g}
  <2>1. PICK g : in0 = {g}
    BY <1>6, <1>7, FS_Singleton
  <2> QED BY <2>1 DEF SortedFiles
<1>12. Fitting(level, in0, {})
  BY <1>4, <1>6 DEF in0
<1> QED BY <1>2, <1>10, <1>11, <1>12

LEMMA FinishReplaces ==
  ASSUME IInv, FinishCompaction
  PROVE  /\ job.level \in 0 .. NumLevels - 2 /\ job # None /\ job' = None
         /\ Replaces(job.level, job.in0, job.in1, Outputs(job))
         /\ SortedFiles(Outputs(job))
         /\ Inputs(job) \subseteq written
         /\ job.in0 \cup job.in1 \in SUBSET TableOf(written) /\ job.in0 \cup job.in1 # {}
         /\ IsFiniteSet(job.in0 \cup job.in1)
<1>1. /\ job # None /\ job' = None
      /\ levels' = [levels EXCEPT ![job.level] = @ \ job.in0,
                                  ![job.level + 1] = (@ \ job.in1) \cup Outputs(job)]
      /\ UNCHANGED <<written, mem, imm, next, snapshots, manual, instance>>
  BY DEF FinishCompaction
<1>2. Types /\ TablesOK(written) /\ History(written)
  BY DEF IInv, Types, TablesOK
<1>3. /\ job.level \in 0 .. NumLevels - 2
      /\ job.in0 \subseteq levels[job.level] /\ job.in1 \subseteq levels[job.level + 1]
      /\ job.in0 # {} /\ TakesOldest(levels[job.level], job.in0)
  BY <1>1 DEF IInv, JobIsSafe
<1>4. /\ levels[job.level] \in SUBSET TableOf(written) /\ IsFiniteSet(levels[job.level])
      /\ levels[job.level + 1] \in SUBSET TableOf(written) /\ IsFiniteSet(levels[job.level + 1])
  BY <1>2, <1>3, UpperAndLower
<1>5. job.in0 \cup job.in1 \in SUBSET TableOf(written) /\ IsFiniteSet(job.in0 \cup job.in1)
  <2>1. IsFiniteSet(job.in0) /\ IsFiniteSet(job.in1)
    BY <1>3, <1>4, FS_Subset
  <2> QED BY <1>3, <1>4, <2>1, FS_Union
<1>6. Inputs(job) \in SUBSET written
  BY <1>5 DEF Inputs, EntriesOf, TableOf
<1>7. instance.table \in Nat /\ instance.table > 0
  BY <1>2, InstanceFacts DEF Types
<1>8. /\ Outputs(job) \in SUBSET TableOf(written) /\ IsFiniteSet(Outputs(job))
      /\ \A f \in Outputs(job) : f.number = 0 /\ f.entries \subseteq Inputs(job)
      /\ SortedFiles(Outputs(job))
  BY <1>2, <1>6, <1>7, OutputsFacts
<1>9. EntriesOf(Outputs(job)) \subseteq EntriesOf(job.in0 \cup job.in1)
  BY <1>8 DEF EntriesOf, Inputs
<1>10. \A f \in Outputs(job) : f.number < next
  BY <1>2, <1>8 DEF Types
<1> QED BY <1>1, <1>3, <1>5, <1>6, <1>8, <1>9, <1>10 DEF Replaces

\* A level stays sorted if its tables are aside of all that comes.
LEMMA ReplaceSorted ==
  ASSUME IInv, Sorted, NEW level \in 0 .. NumLevels - 2, NEW in0, NEW in1, NEW out,
         Replaces(level, in0, in1, out), SortedFiles(out),
         \A f \in levels[level + 1] \ in1 : Aside(f, EntriesOf(in0 \cup in1))
  PROVE  Sorted'
<1>1. TablesOK(written) /\ History(written)
  BY DEF IInv, Types, TablesOK
<1>2. /\ level \in Level /\ level + 1 \in Level /\ level + 1 # 0 /\ level + 1 # level
      /\ levels[level + 1] \in SUBSET TableOf(written)
  BY <1>1, UpperAndLower
<1>3. /\ Level' = Level
      /\ levels'[level] = levels[level] \ in0
      /\ levels'[level + 1] = (levels[level + 1] \ in1) \cup out
      /\ \A l \in Level : l # level /\ l # level + 1 => levels'[l] = levels[l]
  BY ReplacedLevels
<1>4. out \in SUBSET TableOf(written) /\ EntriesOf(out) \subseteq EntriesOf(in0 \cup in1)
  BY DEF Replaces
<1>5. SUFFICES ASSUME NEW l \in Level \ {0}, NEW f \in levels'[l], NEW g \in levels'[l], f # g
               PROVE  Before(Largest(f), Smallest(g)) \/ Before(Largest(g), Smallest(f))
  BY <1>3 DEF Sorted
<1>6. ASSUME NEW o \in out, NEW h \in levels[level + 1] \ in1
      PROVE  Before(Largest(o), Smallest(h)) \/ Before(Largest(h), Smallest(o))
  <2>1. o \in TableOf(written) /\ h \in TableOf(written)
    BY <1>2, <1>4
  <2>2. /\ Largest(o) \in o.entries /\ Smallest(o) \in o.entries
        /\ Largest(h) \in h.entries /\ Smallest(h) \in h.entries
    BY <1>1, <2>1, TableFacts
  <2>3. o.entries \subseteq EntriesOf(in0 \cup in1)
    BY <1>4 DEF EntriesOf
  <2> QED BY <2>2, <2>3 DEF Aside
<1>7. CASE f \in levels[l] /\ g \in levels[l]
  BY <1>5, <1>7 DEF Sorted
<1>8. CASE ~(f \in levels[l] /\ g \in levels[l])
  <2>1. l = level + 1
    BY <1>2, <1>3, <1>8
  <2>2. CASE f \in out /\ g \in out
    BY <1>5, <2>2 DEF SortedFiles
  <2>3. CASE f \in out /\ g \notin out
    BY <1>3, <1>6, <2>1, <2>3
  <2>4. CASE f \notin out /\ g \in out
    BY <1>3, <1>6, <2>1, <2>4
  <2>5. CASE f \notin out /\ g \notin out
    BY <1>3, <1>8, <2>1, <2>5
  <2> QED BY <2>2, <2>3, <2>4, <2>5
<1> QED BY <1>7, <1>8

LEMMA MoveTableHolds ==
  ASSUME IInv, Sorted, NEW level \in 0 .. NumLevels - 2, NEW f \in levels[level],
         MoveTable(level, f)
  PROVE  IInv' /\ Sorted'
<1>1. PICK in0 : Replaces(level, in0, {}, in0) /\ Fitting(level, in0, {}) /\ job' = None
                  /\ SortedFiles(in0)
  BY MoveReplaces
<1>2. TablesOK(written)
  BY DEF IInv, Types
<1>3. \A g \in levels[level + 1] \ {} : Aside(g, EntriesOf(in0 \cup {}))
  BY <1>1, <1>2, RestIsAside
<1> QED BY <1>1, <1>3, ReplaceHolds, ReplaceSorted

LEMMA FinishCompactionHolds ==
  ASSUME IInv, Sorted, FinishCompaction
  PROVE  IInv' /\ (Sorted' \/ (job' = None /\ GapWasFilled))
<1> DEFINE L == job.level
           ins == job.in0 \cup job.in1
<1>1. /\ L \in 0 .. NumLevels - 2 /\ job # None /\ job' = None
      /\ Replaces(L, job.in0, job.in1, Outputs(job))
      /\ SortedFiles(Outputs(job))
      /\ Inputs(job) \subseteq written
      /\ ins \in SUBSET TableOf(written) /\ ins # {} /\ IsFiniteSet(ins)
  BY FinishReplaces
<1>2. IInv'
  BY <1>1, ReplaceHolds
<1>3. SUFFICES ASSUME ~ Sorted' PROVE GapWasFilled
  BY <1>1, <1>2
<1>4. PICK f \in levels[L + 1] \ job.in1 : ~ Aside(f, Inputs(job))
  BY <1>1, <1>3, ReplaceSorted DEF Inputs
<1>5. /\ f \notin job.version[L + 1] /\ \A g \in ins : ~ Overlaps(f, Range1(g))
      /\ manual # None \/ Connected(ins)
  BY <1>1, <1>4 DEF IInv, JobIsSafe
<1>6. TablesOK(written) /\ History(written)
  BY DEF IInv, Types, TablesOK
<1>7. f \in TableOf(written)
  BY <1>1, <1>4, <1>6, UpperAndLower
<1>8. /\ Range1(f) \in Ranges /\ Range1(f).from <= Range1(f).to
      /\ Range1(f).from \in Nat /\ Range1(f).to \in Nat
  <2>1. /\ Range1(f) = [from |-> Smallest(f).key, to |-> Largest(f).key]
        /\ Range1(f).from \in Key /\ Range1(f).to \in Key
        /\ Range1(f).from \in Nat /\ Range1(f).to \in Nat /\ Range1(f).from <= Range1(f).to
    BY <1>6, <1>7, TableFacts
  <2> QED BY <2>1 DEF Ranges
<1>9. ASSUME NEW g \in ins
      PROVE  /\ g \in TableOf(written) /\ g.entries \subseteq written
             /\ Range1(g).from \in Nat /\ Range1(g).to \in Nat
             /\ \A x \in g.entries : Range1(g).from <= x.key /\ x.key <= Range1(g).to /\ x.key \in Nat
  <2>1. g \in TableOf(written)
    BY <1>1
  <2> QED BY <1>6, <2>1, TableFacts, BeforeIsOrder
<1>10. \A e \in f.entries : Range1(f).from <= e.key /\ e.key <= Range1(f).to /\ e.key \in Nat
  BY <1>6, <1>7, TableFacts, BeforeIsOrder
<1>11. Inputs(job) = EntriesOf(ins)
  BY DEF Inputs
<1> HIDE DEF ins
<1>12. Overlaps(f, RangeOf(ins))
  <2>1. SUFFICES ASSUME ~ Overlaps(f, RangeOf(ins)) PROVE Aside(f, Inputs(job))
    BY <1>4
  <2>2. /\ RangeOf(ins) \in Ranges
        /\ \A g \in ins : RangeOf(ins).from <= Range1(g).from /\ Range1(g).to <= RangeOf(ins).to
    BY <1>1, <1>6, RangeOfFacts
  <2>3. RangeOf(ins).from \in Nat /\ RangeOf(ins).to \in Nat
    BY <2>2, RangeTypes
  <2>4. ASSUME NEW x \in Inputs(job)
        PROVE  RangeOf(ins).from <= x.key /\ x.key <= RangeOf(ins).to
    <3>1. PICK g \in ins : x \in g.entries
      BY <1>11 DEF EntriesOf
    <3>2. /\ RangeOf(ins).from <= Range1(g).from /\ Range1(g).to <= RangeOf(ins).to
          /\ Range1(g).from <= x.key /\ x.key <= Range1(g).to /\ x.key \in Nat
          /\ Range1(g).from \in Nat /\ Range1(g).to \in Nat
      BY <1>9, <2>2, <3>1
    <3> QED BY <2>3, <3>2
  <2> QED BY <1>1, <1>6, <1>7, <2>1, <2>2, <2>4, MissedIsAside
<1>13. ASSUME Connected(ins) PROVE FALSE
  <2>1. \A g \in ins : ~ Overlaps(g, Range1(f))
    BY <1>5, <1>8, <1>9 DEF Overlaps
  <2>2. \/ \A g \in ins : Range1(g).to < Range1(f).from
        \/ \A g \in ins : Range1(f).to < Range1(g).from
    BY <1>8, <1>13, <2>1 DEF Connected
  <2>3. CASE \A g \in ins : Range1(g).to < Range1(f).from
    <3>1. ASSUME NEW e \in f.entries, NEW g \in ins, NEW x \in g.entries PROVE Before(x, e)
      <4>1. x.key < e.key
        BY <1>8, <1>9, <1>10, <2>3
      <4> QED BY <4>1 DEF Before
    <3> QED BY <1>4, <1>11, <3>1 DEF Aside, EntriesOf
  <2>4. CASE \A g \in ins : Range1(f).to < Range1(g).from
    <3>1. ASSUME NEW e \in f.entries, NEW g \in ins, NEW x \in g.entries PROVE Before(e, x)
      <4>1. e.key < x.key
        BY <1>8, <1>9, <1>10, <2>4
      <4> QED BY <4>1 DEF Before
    <3> QED BY <1>4, <1>11, <3>1 DEF Aside, EntriesOf
  <2> QED BY <2>2, <2>3, <2>4
<1>14. manual # None
  BY <1>5, <1>13
<1> QED BY <1>1, <1>4, <1>5, <1>12, <1>14 DEF GapWasFilled, ins

\* A merge that begins.
LEMMA NewJobHolds ==
  ASSUME IInv, Sorted, NEW level \in 0 .. NumLevels - 2, NEW in0, NEW in1,
         Fitting(level, in0, in1), job' = Job(level, in0, in1),
         UNCHANGED <<written, mem, imm, levels, next, snapshots, instance>>,
         manual' # None \/ Connected(in0 \cup in1),
         manual' # None => /\ manual' \in ManualCompaction
                           /\ manual'.level < manual'.last /\ manual'.last < NumLevels
  PROVE  IInv'
<1>1. NumLevels' = NumLevels /\ Level' = Level /\ LastSequence' = LastSequence
  BY DEF NumLevels, Level, LastSequence
<1>2. Types /\ TablesOK(written)
  BY DEF IInv, Types
<1>3. TablesOK(written)'
  BY <1>1, <1>2 DEF TablesOK
<1>4. Types'
  BY <1>1, <1>2, <1>3 DEF Types
<1>5. MemoryIsNewest' /\ NewerIsAbove'
  BY <1>1 DEF IInv, MemoryIsNewest, NewerIsAbove
<1>6. /\ job'.level = level /\ job'.in0 = in0 /\ job'.in1 = in1 /\ job'.version = levels
  BY DEF Job
<1>7. \A f \in levels[level + 1] \ in1 : Aside(f, Inputs(job'))
  BY <1>2, <1>6, RestIsAside DEF Inputs
<1>8. level + 1 \in Level
  BY <1>2, UpperAndLower
<1>9. JobIsSafe'
  <2>1. in0 \subseteq levels[level] /\ in1 \subseteq levels[level + 1] /\ in0 # {}
        /\ TakesOldest(levels[level], in0)
    BY DEF Fitting
  <2>2. \A f \in levels[level + 1] : f.number \in 0 .. next - 1
    <3>1. \A f \in levels[level + 1] : f.number < next /\ f.number \in Nat
      BY <1>2, <1>8 DEF Types, TablesOK, TableOf
    <3>2. next \in Nat
      BY <1>2 DEF Types
    <3> QED BY <3>1, <3>2
  <2>3. Inputs(job)' = Inputs(job')
    BY DEF Inputs
  <2> QED BY <1>1, <1>6, <1>7, <2>1, <2>2, <2>3 DEF JobIsSafe
<1> QED BY <1>4, <1>5, <1>9 DEF IInv

LEMMA PickCompactionHolds ==
  ASSUME IInv, Sorted, NEW level \in 0 .. NumLevels - 2, NEW f \in levels[level],
         PickCompaction(level, f)
  PROVE  IInv'
<1>1. PICK inputs \in Picked(level, f) : job' = Job(level, inputs[1], inputs[2])
  BY DEF PickCompaction
<1>2. UNCHANGED <<written, mem, imm, levels, next, snapshots, manual, instance>>
  BY DEF PickCompaction
<1>3. Fitting(level, inputs[1], inputs[2]) /\ Connected(inputs[1] \cup inputs[2])
  BY PickedIsGood DEF IInv, Types
<1>4. manual' # None => /\ manual' \in ManualCompaction
                        /\ manual'.level < manual'.last /\ manual'.last < NumLevels
  BY <1>2 DEF IInv, Types
<1> QED BY <1>1, <1>2, <1>3, <1>4, NewJobHolds

LEMMA CompactPieceHolds ==
  ASSUME IInv, Sorted, CompactPiece
  PROVE  IInv'
<1> DEFINE level == manual.level
           End(in0) == CHOOSE f \in in0 : \A g \in in0 : ~Before(Smallest(f), Smallest(g))
<1>1. /\ manual # None /\ ManualInputs # {}
      /\ UNCHANGED <<written, mem, imm, levels, next, snapshots, instance>>
  BY DEF CompactPiece
<1>2. PICK inputs \in SetupOtherInputs(level, FirstOf(ManualInputs, level)) :
        /\ job' = Job(level, inputs[1], inputs[2])
        /\ manual' = [manual EXCEPT !.range.from = Largest(End(inputs[1])).key]
  BY DEF CompactPiece
<1>3. /\ manual \in ManualCompaction /\ manual.level < manual.last /\ manual.last < NumLevels
      /\ TablesOK(written) /\ History(written) /\ NumLevels \in Nat
  BY <1>1, InstanceFacts DEF IInv, Types, TablesOK
<1>4. level \in 0 .. NumLevels - 2 /\ manual.range \in Ranges
  BY <1>3 DEF ManualCompaction
<1> DEFINE in0 == inputs[1]
<1>5. Fitting(level, in0, inputs[2])
  BY <1>1, <1>2, <1>3, <1>4, PieceIsGood
<1>6. Largest(End(in0)).key \in Key
  <2>1. levels[level] \in SUBSET TableOf(written) /\ IsFiniteSet(levels[level])
    BY <1>3, <1>4, UpperAndLower
  <2>2. in0 \in SUBSET TableOf(written) /\ IsFiniteSet(in0) /\ in0 # {}
    BY <1>5, <2>1, FS_Subset DEF Fitting
  <2> HIDE DEF in0
  <2>3. End(in0) \in in0
    <3>1. \E f \in in0 : \A g \in in0 : ~Before(Smallest(f), Smallest(g))
      BY <1>3, <2>2, FirstAndLastTable
    <3> QED BY <3>1
  <2>4. End(in0) \in TableOf(written)
    BY <2>2, <2>3
  <2> HIDE DEF End
  <2> QED BY <1>3, <2>4, TableFacts, BeforeIsOrder
<1> HIDE DEF End
<1>7. /\ manual' \in ManualCompaction /\ manual'.level = manual.level /\ manual'.last = manual.last
  <2>1. [manual.range EXCEPT !.from = Largest(End(in0)).key] \in Ranges
    BY <1>4, <1>6 DEF Ranges
  <2>2. manual' = [manual EXCEPT !.range = [manual.range EXCEPT !.from = Largest(End(in0)).key]]
    BY <1>2, <1>3 DEF ManualCompaction
  <2> QED BY <1>3, <2>1, <2>2 DEF ManualCompaction
<1>8. manual' # None
  BY <1>7, LevelsAssumption
<1> QED BY <1>1, <1>2, <1>3, <1>4, <1>5, <1>7, <1>8, NewJobHolds

\* A flush goes above everything its table overlaps.
LEMMA FlushPlace ==
  ASSUME IInv, CompactMemTable
  PROVE  LET f == [number |-> next, entries |-> imm]
         IN  /\ f \in TableOf(written)
             /\ \E level \in Level :
                  /\ levels' = [levels EXCEPT ![level] = levels[level] \cup {f}]
                  /\ \A l \in Level : l <= level /\ level # 0 =>
                       \A g \in levels[l] : ~ Overlaps(g, Range1(f))
<1> DEFINE f == [number |-> next, entries |-> imm]
<1>1. f \in TableOf(written)
  BY DEF CompactMemTable, IInv, Types, TableOf
<1>2. PICK level \in PickLevelForMemTableOutput(Range1(f)) :
        levels' = [levels EXCEPT ![level] = @ \cup {f}]
  BY DEF CompactMemTable
<1>3. NumLevels \in Nat /\ NumLevels >= 2 /\ levels \in [Level -> SUBSET TableOf(written)]
  BY InstanceFacts DEF IInv, Types, TablesOK
<1>4. MaxMemCompactLevel \in 0 .. NumLevels - 1
  <2> DEFINE S == {2, NumLevels - 1}
  <2>1. S \in SUBSET Nat /\ S # {} /\ NumLevels - 1 \in S
    BY <1>3
  <2> HIDE DEF S
  <2>2. Min(S) \in S /\ \A x \in S : Min(S) <= x
    BY <2>1, MinIsThere
  <2>3. Min(S) \in Nat /\ Min(S) <= NumLevels - 1
    BY <2>1, <2>2
  <2>4. Min(S) \in 0 .. NumLevels - 1
    BY <1>3, <2>3
  <2> QED BY <2>4 DEF MaxMemCompactLevel, S
<1> HIDE DEF f
<1>5. /\ level \in 0 .. MaxMemCompactLevel
      /\ level = 0 \/ \A l \in 0 .. level : \A g \in levels[l] : ~ Overlaps(g, Range1(f))
  BY <1>2 DEF PickLevelForMemTableOutput
<1>6. level \in Level /\ \A l \in Level : l <= level => l \in 0 .. level
  BY <1>3, <1>4, <1>5 DEF Level
<1>7. levels' = [levels EXCEPT ![level] = levels[level] \cup {f}]
  BY <1>2, <1>3, <1>6
<1> QED BY <1>1, <1>5, <1>6, <1>7 DEF f

LEMMA OverlapsBothWays ==
  ASSUME NEW W, History(W), NEW f \in TableOf(W), NEW g \in TableOf(W), ~ Overlaps(g, Range1(f))
  PROVE  /\ ~ Overlaps(f, Range1(g))
         /\ Before(Largest(f), Smallest(g)) \/ Before(Largest(g), Smallest(f))
<1>1. /\ Range1(f).to = Largest(f).key /\ Range1(f).from = Smallest(f).key
      /\ Range1(g).to = Largest(g).key /\ Range1(g).from = Smallest(g).key
      /\ Range1(f).to \in Nat /\ Range1(f).from \in Nat
      /\ Range1(g).to \in Nat /\ Range1(g).from \in Nat
  BY TableFacts
<1> QED BY <1>1 DEF Overlaps, Before

LEMMA CompactMemTableHolds ==
  ASSUME IInv, Sorted, CompactMemTable
  PROVE  IInv' /\ Sorted'
<1> DEFINE f == [number |-> next, entries |-> imm]
<1>1. f \in TableOf(written) /\ f.number = next /\ f.entries = imm
  BY FlushPlace
<1>2. PICK level \in Level :
        /\ levels' = [levels EXCEPT ![level] = levels[level] \cup {f}]
        /\ \A l \in Level : l <= level /\ level # 0 => \A g \in levels[l] : ~ Overlaps(g, Range1(f))
  BY FlushPlace
<1>3. /\ imm' = {} /\ next' = next + 1
      /\ UNCHANGED <<written, mem, snapshots, job, manual, instance>>
  BY DEF CompactMemTable
<1>4. /\ Types /\ TablesOK(written) /\ History(written) /\ MemoryIsNewest /\ NewerIsAbove
      /\ JobIsSafe
      /\ NumLevels \in Nat /\ NumLevels >= 2 /\ next \in Nat
  BY InstanceFacts DEF IInv, Types, TablesOK
<1>5. NumLevels' = NumLevels /\ Level' = Level /\ LastSequence' = LastSequence
  BY <1>3 DEF NumLevels, Level, LastSequence
<1> HIDE DEF f
<1>6. /\ levels \in [Level -> SUBSET TableOf(written)]
      /\ \A l \in Level : IsFiniteSet(levels[l]) /\ l \in Nat
      /\ \A l \in Level : \A g \in levels[l] : g.number < next /\ g.number \in Nat
  BY <1>4 DEF Types, TablesOK, Level, TableOf
<1>7. \A l \in Level : levels'[l] = IF l = level THEN levels[l] \cup {f} ELSE levels[l]
  BY <1>2, <1>6
<1>8. TablesOK(written)'
  <2>1. levels' \in [Level -> SUBSET TableOf(written)]
    BY <1>1, <1>2, <1>6
  <2>2. \A l \in Level : IsFiniteSet(levels'[l])
    <3>1. IsFiniteSet(levels[level] \cup {f})
      BY <1>6, FS_AddElement
    <3> QED BY <1>6, <1>7, <3>1
  <2> QED BY <1>3, <1>4, <1>5, <2>1, <2>2 DEF TablesOK
<1>9. Types'
  <2>1. ASSUME NEW l \in Level, NEW g \in levels'[l] PROVE g.number < next + 1
    <3>1. CASE g = f
      BY <1>1, <1>4, <3>1
    <3>2. CASE g # f
      <4>1. g \in levels[l]
        BY <1>7, <3>2
      <4> QED BY <1>4, <1>6, <4>1
    <3> QED BY <3>1, <3>2
  <2> QED BY <1>3, <1>4, <1>5, <1>8, <2>1 DEF Types
\* The entries of a level, and those of memory.
<1>10. ASSUME NEW l \in Level, NEW x \in EntriesOf(levels'[l])
       PROVE  x \in EntriesOf(levels[l]) \/ (l = level /\ x \in imm)
  <2>1. PICK g \in levels'[l] : x \in g.entries
    BY DEF EntriesOf
  <2> QED BY <1>1, <1>7, <2>1 DEF EntriesOf
<1>11. /\ \A e \in imm, l \in Level : \A x \in EntriesOf(levels[l]) : x.seq < e.seq
       /\ \A e \in mem, l \in Level : \A x \in EntriesOf(levels[l]) : x.seq < e.seq
       /\ \A e \in mem, x \in imm : x.seq < e.seq
  BY <1>4 DEF MemoryIsNewest
<1>12. MemoryIsNewest'
  <2>1. \A e \in mem, l \in Level : \A x \in EntriesOf(levels'[l]) : x.seq < e.seq
    BY <1>10, <1>11
  <2> QED BY <1>3, <1>5, <2>1 DEF MemoryIsNewest
<1>13. \A l \in Level : \A x \in EntriesOf(levels[l]) : x \in written /\ x.seq \in Nat
  <2>1. written \subseteq Entry
    BY <1>4 DEF History
  <2> QED BY <1>6, <2>1 DEF EntriesOf, TableOf, Entry
<1>14. \A x \in imm : x \in written /\ x.seq \in Nat
  BY <1>4 DEF Types, History, Entry
\* An entry of the new table and one of a level above it have different keys.
<1>15. ASSUME NEW i \in Level, i < level, NEW e \in EntriesOf(levels[i]), NEW x \in imm
       PROVE  e.key # x.key
  <2>1. PICK g \in levels[i] : e \in g.entries
    BY DEF EntriesOf
  <2>2. level # 0 /\ i <= level /\ level \in Nat /\ i \in Nat
    BY <1>6, <1>15
  <2>3. ~ Overlaps(g, Range1(f)) /\ g \in TableOf(written)
    BY <1>2, <1>6, <2>1, <2>2
  <2>4. /\ Range1(f).from <= x.key /\ x.key <= Range1(f).to
        /\ Range1(f).from \in Nat /\ Range1(f).to \in Nat
    BY <1>1, <1>4, TableFacts
  <2>5. /\ Range1(g).from <= e.key /\ e.key <= Range1(g).to
        /\ Range1(g).from \in Nat /\ Range1(g).to \in Nat
    BY <1>4, <2>1, <2>3, TableFacts
  <2>6. e.key \in Nat /\ x.key \in Nat
    BY <1>4, <1>13, <1>14, BeforeIsOrder
  <2> QED BY <2>3, <2>4, <2>5, <2>6 DEF Overlaps
<1>16. NewerIsAbove'
  <2>1. SUFFICES ASSUME NEW i \in Level, NEW j \in Level, i < j,
                        NEW e \in EntriesOf(levels'[i]), NEW x \in EntriesOf(levels'[j]),
                        e.key = x.key
                 PROVE  e.seq > x.seq
    BY <1>5 DEF NewerIsAbove
  <2>2. CASE e \in EntriesOf(levels[i]) /\ x \in EntriesOf(levels[j])
    BY <1>4, <2>1, <2>2 DEF NewerIsAbove
  <2>3. CASE i = level /\ e \in imm
    <3>1. j # level
      BY <1>6, <2>1, <2>3
    <3>2. x \in EntriesOf(levels[j])
      BY <1>10, <3>1
    <3> QED BY <1>11, <1>13, <1>14, <2>3, <3>2
  <2>4. CASE j = level /\ x \in imm /\ e \in EntriesOf(levels[i])
    BY <1>15, <2>1, <2>4
  <2> QED BY <1>10, <2>2, <2>3, <2>4
<1>17. JobIsSafe'
  <2> DEFINE L == job.level
  <2>1. SUFFICES ASSUME job # None
                 PROVE  /\ L \in 0 .. NumLevels - 2
                        /\ job.in0 \subseteq levels'[L] /\ job.in1 \subseteq levels'[L + 1]
                        /\ job.in0 # {}
                        /\ TakesOldest(levels'[L], job.in0)
                        /\ \A h \in levels'[L + 1] \ job.in1 :
                             IF h \in job.version[L + 1] THEN Aside(h, Inputs(job))
                             ELSE \A g \in job.in0 \cup job.in1 : ~ Overlaps(h, Range1(g))
                        /\ \A h \in job.version[L + 1] : h.number \in 0 .. (next + 1) - 1
                        /\ manual # None \/ Connected(job.in0 \cup job.in1)
    <3>1. Inputs(job)' = Inputs(job)
      BY <1>3 DEF Inputs
    <3> QED BY <1>3, <1>5, <2>1, <3>1 DEF JobIsSafe
  <2>2. /\ L \in 0 .. NumLevels - 2
        /\ job.in0 \subseteq levels[L] /\ job.in1 \subseteq levels[L + 1]
        /\ job.in0 # {}
        /\ TakesOldest(levels[L], job.in0)
        /\ \A h \in levels[L + 1] \ job.in1 :
             IF h \in job.version[L + 1] THEN Aside(h, Inputs(job))
             ELSE \A g \in job.in0 \cup job.in1 : ~ Overlaps(h, Range1(g))
        /\ \A h \in job.version[L + 1] : h.number \in 0 .. next - 1
        /\ manual # None \/ Connected(job.in0 \cup job.in1)
    BY <1>4, <2>1 DEF JobIsSafe
  <2>3. L \in Level /\ L + 1 \in Level /\ L + 1 # 0 /\ L <= L + 1
    BY <1>4, <2>2, UpperAndLower
  <2> HIDE DEF L
  <2>4. levels[L] \subseteq levels'[L] /\ levels[L + 1] \subseteq levels'[L + 1]
    BY <1>7, <2>3
  <2>5. TakesOldest(levels'[L], job.in0)
    <3>1. SUFFICES ASSUME NEW g \in job.in0, NEW h \in levels'[L] \ job.in0,
                          NEW e \in g.entries, NEW x \in h.entries, x.key = e.key
                   PROVE  x.seq > e.seq
      BY DEF TakesOldest
    <3>2. CASE h \in levels[L]
      BY <2>2, <3>1, <3>2 DEF TakesOldest
    <3>3. CASE h = f
      <4>1. x \in imm /\ e \in EntriesOf(levels[L])
        BY <1>1, <2>2, <3>3 DEF EntriesOf
      <4> QED BY <1>11, <1>13, <1>14, <2>3, <4>1
    <3> QED BY <1>7, <2>3, <3>2, <3>3
  <2>6. ASSUME NEW h \in levels'[L + 1] \ job.in1
        PROVE  IF h \in job.version[L + 1] THEN Aside(h, Inputs(job))
               ELSE \A g \in job.in0 \cup job.in1 : ~ Overlaps(h, Range1(g))
    <3>1. CASE h \in levels[L + 1]
      BY <2>2, <3>1
    <3>2. CASE h \notin levels[L + 1]
      <4>1. h = f /\ level = L + 1
        BY <1>7, <2>3, <2>6, <3>2
      <4>2. h \notin job.version[L + 1]
        BY <1>1, <1>4, <2>2, <4>1
      <4>3. ASSUME NEW g \in job.in0 \cup job.in1 PROVE ~ Overlaps(h, Range1(g))
        <5>1. g \in levels[L] \/ g \in levels[L + 1]
          BY <2>2
        <5>2. L <= level /\ L + 1 <= level /\ level # 0
          BY <1>6, <2>3, <4>1
        <5>3. ~ Overlaps(g, Range1(f)) /\ g \in TableOf(written)
          BY <1>2, <1>6, <2>3, <5>1, <5>2
        <5> QED BY <1>1, <1>4, <4>1, <5>3, OverlapsBothWays
      <4> QED BY <4>2, <4>3
    <3> QED BY <3>1, <3>2
  <2>7. \A h \in job.version[L + 1] : h.number \in 0 .. (next + 1) - 1
    BY <1>4, <2>2
  <2> QED BY <2>2, <2>4, <2>5, <2>6, <2>7 DEF L
<1>18. Sorted'
  <2>1. SUFFICES ASSUME NEW l \in Level \ {0}, NEW g \in levels'[l], NEW h \in levels'[l], g # h
                 PROVE  Before(Largest(g), Smallest(h)) \/ Before(Largest(h), Smallest(g))
    BY <1>5 DEF Sorted
  <2>2. CASE g \in levels[l] /\ h \in levels[l]
    BY <2>1, <2>2 DEF Sorted
  <2>3. ASSUME l = level, NEW o \in levels[l]
        PROVE  Before(Largest(f), Smallest(o)) \/ Before(Largest(o), Smallest(f))
    <3>1. ~ Overlaps(o, Range1(f)) /\ o \in TableOf(written)
      <4>1. l <= level /\ level # 0
        BY <1>6, <2>3
      <4> QED BY <1>2, <1>6, <4>1
    <3> QED BY <1>1, <1>4, <3>1, OverlapsBothWays
  <2>4. CASE ~(g \in levels[l] /\ h \in levels[l])
    <3>1. /\ l = level /\ (g = f \/ h = f)
          /\ g = f \/ g \in levels[l]
          /\ h = f \/ h \in levels[l]
      BY <1>7, <2>1, <2>4
    <3> QED BY <2>1, <2>3, <3>1
  <2> QED BY <2>2, <2>4
<1> QED BY <1>9, <1>12, <1>16, <1>17, <1>18 DEF IInv

-----------------------------------------------------------------------------
(* Theorems.                                                               *)

LEMMA StutterHolds ==
  ASSUME IInv, UNCHANGED vars
  PROVE  IInv'
<1>1. /\ snapshots' \subseteq 0 .. LastSequence
      /\ UNCHANGED <<written, levels, next, job, instance>> /\ UNCHANGED <<mem, imm>>
      /\ manual # None => manual' # None
      /\ manual' # None => /\ manual' \in ManualCompaction
                           /\ manual'.level < manual'.last /\ manual'.last < NumLevels
  BY DEF IInv, Types, vars
<1> QED BY <1>1, QuietHolds

\* What a step does: the invariant is kept, and so are the levels sorted, but
\* for a gap that was filled.
LEMMA NextHolds ==
  ASSUME IInv, Next
  PROVE  IInv' /\ (Sorted' \/ (job' = None /\ GapWasFilled))
<1>1. Sorted
  BY DEF Next
<1>2. ASSUME levels' = levels, instance' = instance PROVE Sorted'
  BY <1>1, <1>2 DEF Sorted, Level, NumLevels
<1>3. CASE \E k \in Key, del \in BOOLEAN : Add(k, del)
  <2>1. levels' = levels /\ instance' = instance
    BY <1>3 DEF Add
  <2> QED BY <1>2, <1>3, <2>1, AddHolds
<1>4. CASE SwitchMemTable
  <2>1. levels' = levels /\ instance' = instance
    BY <1>4 DEF SwitchMemTable
  <2> QED BY <1>2, <1>4, <2>1, SwitchMemTableHolds
<1>5. CASE CompactMemTable
  BY <1>1, <1>5, CompactMemTableHolds
<1>6. ASSUME NEW level \in 0 .. NumLevels - 2, NEW f \in levels[level],
             PickCompaction(level, f) \/ MoveTable(level, f)
      PROVE  IInv' /\ Sorted'
  <2>1. CASE PickCompaction(level, f)
    <3>1. levels' = levels /\ instance' = instance
      BY <2>1 DEF PickCompaction
    <3> QED BY <1>1, <1>2, <2>1, <3>1, PickCompactionHolds
  <2>2. CASE MoveTable(level, f)
    BY <1>1, <2>2, MoveTableHolds
  <2> QED BY <1>6, <2>1, <2>2
<1>7. CASE FinishCompaction
  BY <1>1, <1>7, FinishCompactionHolds
<1>8. CASE \E r \in Ranges : CompactRange(r)
  <2>1. levels' = levels /\ instance' = instance
    BY <1>8 DEF CompactRange
  <2> QED BY <1>2, <1>8, <2>1, CompactRangeHolds
<1>9. CASE CompactPiece
  <2>1. levels' = levels /\ instance' = instance
    BY <1>9 DEF CompactPiece
  <2> QED BY <1>1, <1>2, <1>9, <2>1, CompactPieceHolds
<1>10. CASE LevelIsDone
  <2>1. levels' = levels /\ instance' = instance
    BY <1>10 DEF LevelIsDone
  <2> QED BY <1>2, <1>10, <2>1, LevelIsDoneHolds
<1>11. CASE GetSnapshot \/ \E s \in snapshots : ReleaseSnapshot(s)
  <2>1. levels' = levels /\ instance' = instance
    BY <1>11 DEF GetSnapshot, ReleaseSnapshot
  <2> QED BY <1>2, <1>11, <2>1, SnapshotsHold
<1> QED BY <1>3, <1>4, <1>5, <1>6, <1>7, <1>8, <1>9, <1>10, <1>11 DEF Next

\* Together they are inductive: the types, what is newer than what, and that the
\* merge in progress still has its inputs and its place.
THEOREM InvariantHolds == Spec => []IInv
<1>1. Init => IInv
  BY InitHolds
<1>2. IInv /\ [Next]_vars => IInv'
  BY NextHolds, StutterHolds
<1> QED BY <1>1, <1>2, PTL DEF Spec

\* Of every key, the levels above have the newer entries, for any number of
\* levels and any tables: a search may stop at the first level that has the key.
THEOREM LevelsStayOrdered == Spec => []LevelsAreOrdered
<1>1. IInv => LevelsAreOrdered
  BY TypeOKHolds DEF LevelsAreOrdered
<1> QED BY <1>1, InvariantHolds, PTL

\* Flushes and merges find a free place for their tables, but for the flush
\* into the gap between the tables of a piece of CompactRange.
THEOREM OnlyGapsAreFilled == Spec => OnlyFilledGapsOverlap
<1>1. IInv /\ [Next]_vars => [Sorted => Sorted' \/ (job' = None /\ GapWasFilled)]_vars
  BY NextHolds
<1> QED BY <1>1, InvariantHolds, PTL DEF Spec, OnlyFilledGapsOverlap

-----------------------------------------------------------------------------
(* Reading.  A search finds the newest entry of a key that is stored.      *)

LEMMA NewestIsThere ==
  ASSUME NEW W, History(W), NEW E \in SUBSET W, NEW k, NEW s, NEW e \in E, e.key = k, e.seq <= s
  PROVE  \E y \in E : Newest(E, k, s) = {y}
<1> DEFINE found == {x \in E : x.key = k /\ x.seq <= s}
<1>1. found \in SUBSET W /\ found # {}
  OBVIOUS
<1>2. Newest(E, k, s) = {x \in found : \A z \in found : z.seq <= x.seq}
  BY DEF Newest
<1>3. \A x \in found : x \in E /\ x.key = k
  OBVIOUS
<1> HIDE DEF found
<1>4. PICK y \in found : \A x \in found : ~ Before(x, y)
  BY <1>1, FirstAndLast
<1>5. \A x \in found : x.seq \in Nat /\ x \in W
  BY <1>1, BeforeIsOrder
<1>6. \A x \in found : x.seq <= y.seq
  BY <1>3, <1>4, <1>5 DEF Before
<1>7. ASSUME NEW x \in found, \A z \in found : z.seq <= x.seq PROVE x = y
  <2>1. x.seq = y.seq
    BY <1>5, <1>6, <1>7
  <2> QED BY <1>5, <2>1 DEF History
<1>8. Newest(E, k, s) = {y}
  BY <1>2, <1>6, <1>7
<1> QED BY <1>3, <1>8

\* A table or a level that holds the newest entry of a key among others.
LEMMA NewestIsIt ==
  ASSUME NEW W, History(W), NEW E \in SUBSET W, NEW k, NEW s, NEW y \in E,
         y.key = k, y.seq <= s, \A x \in E : x.key = k /\ x.seq <= s => x.seq <= y.seq
  PROVE  Newest(E, k, s) = {y}
<1>1. y \in Newest(E, k, s)
  BY DEF Newest
<1>2. PICK z \in E : Newest(E, k, s) = {z}
  BY NewestIsThere
<1> QED BY <1>1, <1>2

LEMMA NoNewest ==
  ASSUME NEW E, NEW k, NEW s, \A x \in E : ~(x.key = k /\ x.seq <= s)
  PROVE  Newest(E, k, s) = {}
BY DEF Newest

\* Tables of level 0 have numbers of their own, and the greater the number the
\* newer all entries.
NewerByNumber ==
  \A f, g \in levels[0] :
    /\ f.number = g.number => f = g
    /\ f.number < g.number => \A e \in f.entries, x \in g.entries : e.seq < x.seq

LEMMA LevelZeroSearch ==
  ASSUME IInv, NewerByNumber, NEW k \in Key, NEW s \in Nat
  PROVE  InLevel0(k, s) = Newest(EntriesOf(levels[0]), k, s)
<1>1. /\ History(written) /\ 0 \in Level
      /\ levels[0] \in SUBSET TableOf(written) /\ IsFiniteSet(levels[0])
  <2>1. 0 \in Level /\ TablesOK(written)
    BY InstanceFacts DEF IInv, Types, Level
  <2> QED BY <2>1 DEF TablesOK
<1> DEFINE E == EntriesOf(levels[0])
           holding == {f \in levels[0] : Range1(f).from <= k /\ k <= Range1(f).to
                                         /\ Newest(f.entries, k, s) # {}}
           last == {f \in holding : \A g \in holding : g.number <= f.number}
<1>2. InLevel0(k, s) = UNION {Newest(f.entries, k, s) : f \in last}
  BY DEF InLevel0
<1>3. E \in SUBSET written /\ \A f \in levels[0] : f.entries \in SUBSET E /\ f.entries \in SUBSET written
  BY <1>1 DEF EntriesOf, TableOf
<1>4. ASSUME NEW f \in levels[0], NEW e \in f.entries, e.key = k, e.seq <= s
      PROVE  f \in holding /\ \E y \in f.entries : Newest(f.entries, k, s) = {y}
  <2>1. \E y \in f.entries : Newest(f.entries, k, s) = {y}
    <3>1. f.entries \in SUBSET written
      BY <1>3
    <3> QED BY <1>1, <1>4, <3>1, NewestIsThere
  <2>2. Range1(f).from <= k /\ k <= Range1(f).to
    BY <1>1, <1>4, TableFacts
  <2> QED BY <2>1, <2>2
<1>5. \A f \in holding : f \in levels[0] /\ \E e \in f.entries : e.key = k /\ e.seq <= s
  BY DEF Newest
<1> HIDE DEF holding
<1>6. CASE holding = {}
  <2>1. \A x \in E : ~(x.key = k /\ x.seq <= s)
    BY <1>4, <1>6 DEF EntriesOf
  <2>2. Newest(E, k, s) = {}
    BY <2>1, NoNewest
  <2>3. last = {}
    BY <1>6
  <2> QED BY <1>2, <2>2, <2>3
<1>7. CASE holding # {}
  <2> DEFINE numbers == {f.number : f \in holding}
  <2>1. IsFiniteSet(numbers) /\ numbers \in SUBSET Nat /\ numbers # {}
    <3>1. IsFiniteSet(holding)
      BY <1>1, <1>5, FS_Subset
    <3>2. numbers = {[g \in holding |-> g.number][f] : f \in holding}
      OBVIOUS
    <3>3. IsFiniteSet({[g \in holding |-> g.number][f] : f \in holding})
      BY <3>1, ImageIsFinite
    <3> QED BY <1>1, <1>5, <1>7, <3>2, <3>3 DEF TableOf
  <2>2. Max(numbers) \in numbers /\ \A n \in numbers : n <= Max(numbers)
    BY <2>1, MaxIsThere
  <2>3. PICK f \in holding : \A g \in holding : g.number <= f.number
    BY <2>2
  <2>4. f \in levels[0] /\ \A g \in levels[0] : g.number \in Nat
    BY <1>1, <1>5 DEF TableOf
  <2>5. last = {f}
    <3>1. ASSUME NEW g \in last PROVE g = f
      <4>1. g \in holding /\ g.number <= f.number /\ f.number <= g.number
        BY <2>3
      <4> QED BY <1>5, <2>4, <4>1 DEF NewerByNumber
    <3> QED BY <2>3, <3>1
  <2>6. PICK y \in f.entries : Newest(f.entries, k, s) = {y}
    BY <1>4, <1>5
  <2>7. /\ y.key = k /\ y.seq <= s
        /\ \A x \in f.entries : x.key = k /\ x.seq <= s => x.seq <= y.seq
    BY <2>6 DEF Newest
  <2>8. ASSUME NEW x \in E, x.key = k, x.seq <= s PROVE x.seq <= y.seq
    <3>1. PICK g \in levels[0] : x \in g.entries
      BY DEF EntriesOf
    <3>2. g \in holding /\ g.number <= f.number
      BY <1>4, <2>3, <2>8, <3>1
    <3>3. x.seq \in Nat /\ y.seq \in Nat
      BY <1>1, <1>3, <2>4, BeforeIsOrder
    <3>4. CASE g = f
      BY <2>7, <2>8, <3>1, <3>4
    <3>5. CASE g # f
      <4>1. g.number < f.number
        BY <2>4, <3>2, <3>5 DEF NewerByNumber
      <4>2. x.seq < y.seq
        BY <2>4, <3>1, <4>1 DEF NewerByNumber
      <4> QED BY <3>3, <4>2
    <3> QED BY <3>4, <3>5
  <2>9. Newest(E, k, s) = {y}
    <3>1. y \in E
      BY <1>3, <2>4
    <3> QED BY <1>1, <1>3, <2>7, <2>8, <3>1, NewestIsIt
  <2> QED BY <1>2, <2>5, <2>6, <2>9
<1> QED BY <1>6, <1>7

\* In a sorted level, the first table that does not end before the key has the
\* newest entry, if there is one.
LEMMA LevelSearch ==
  ASSUME IInv, Sorted, NEW l \in Level \ {0}, NEW k \in Key, NEW s \in Nat
  PROVE  InLevel(l, k, s) = Newest(EntriesOf(levels[l]), k, s)
<1>1. /\ History(written)
      /\ levels[l] \in SUBSET TableOf(written) /\ IsFiniteSet(levels[l])
      /\ SortedFiles(levels[l])
  BY DEF IInv, Types, TablesOK, Sorted, SortedFiles
<1> DEFINE E == EntriesOf(levels[l])
           target == [key |-> k, seq |-> s]
           after == {f \in levels[l] : ~ Before(Largest(f), target)}
           first == {f \in after : \A g \in after : ~ Before(Largest(g), Largest(f))}
<1>2. InLevel(l, k, s) = UNION {Newest(f.entries, k, s) : f \in first}
  BY DEF InLevel
<1>3. E \in SUBSET written /\ \A f \in levels[l] : f.entries \in SUBSET E /\ f.entries \in SUBSET written
  BY <1>1 DEF EntriesOf, TableOf
<1>4. k \in Nat /\ target.key = k /\ target.seq = s
  BY LevelsAssumption
<1>5. \A x \in written : x.key \in Nat /\ x.seq \in Nat
  BY <1>1, BeforeIsOrder
<1>6. \A f \in levels[l] : Largest(f) \in f.entries /\ Largest(f) \in written
                           /\ \A x \in f.entries : ~ Before(Largest(f), x)
  BY <1>1, TableFacts
<1> HIDE DEF target
\* What the tables before hold is not it.
<1>7. ASSUME NEW g \in levels[l], Before(Largest(g), target), NEW x \in g.entries
      PROVE  ~(x.key = k /\ x.seq <= s)
  <2>1. /\ x.key \in Nat /\ x.seq \in Nat /\ Largest(g).key \in Nat /\ Largest(g).seq \in Nat
        /\ ~ Before(Largest(g), x)
    BY <1>3, <1>5, <1>6
  <2> QED BY <1>4, <1>7, <2>1 DEF Before
<1>8. CASE after = {}
  <2>1. \A x \in E : ~(x.key = k /\ x.seq <= s)
    BY <1>7, <1>8 DEF EntriesOf
  <2>2. Newest(E, k, s) = {} /\ first = {}
    BY <1>8, <2>1, NoNewest
  <2> QED BY <1>2, <2>2
<1>9. CASE after # {}
  <2> DEFINE lasts == {Largest(f) : f \in after}
  <2>1. lasts \in SUBSET written /\ lasts # {}
    BY <1>6, <1>9
  <2>2. PICK b \in lasts : \A x \in lasts : ~ Before(x, b)
    BY <1>1, <2>1, FirstAndLast
  <2>3. PICK f \in after : \A g \in after : ~ Before(Largest(g), Largest(f))
    BY <2>2
  <2>4. f \in levels[l] /\ ~ Before(Largest(f), target) /\ f \in TableOf(written)
    BY <1>1
  <2>5. ASSUME NEW g \in after, g # f PROVE Before(Largest(f), Smallest(g))
    <3>1. g \in levels[l] /\ g \in TableOf(written)
      BY <1>1
    <3>2. ~ Before(Largest(g), Smallest(f))
      <4>1. SUFFICES ASSUME Before(Largest(g), Smallest(f)) PROVE FALSE
        OBVIOUS
      <4>2. Before(Largest(g), Largest(f))
        BY <1>1, <1>6, <2>4, <3>1, <4>1, TablesInOrder
      <4> QED BY <2>3, <4>2
    <3> QED BY <1>1, <2>4, <2>5, <3>1, <3>2 DEF SortedFiles
  <2>6. first = {f}
    <3>1. ASSUME NEW g \in first, g # f PROVE FALSE
      <4>1. g \in after /\ g \in TableOf(written) /\ g \in levels[l] /\ ~ Before(Largest(f), Largest(g))
        BY <1>1, <2>3
      <4>2. Before(Largest(f), Smallest(g))
        BY <2>5, <3>1, <4>1
      <4>3. Before(Largest(f), Largest(g))
        BY <1>1, <1>6, <2>4, <4>1, <4>2, TablesInOrder
      <4> QED BY <4>1, <4>3
    <3> QED BY <2>3, <3>1
\* The tables after it hold only greater keys, or older entries of this one.
  <2>7. ASSUME NEW g \in after, g # f, NEW x \in g.entries, NEW e \in f.entries
        PROVE  Before(e, x)
    BY <1>1, <2>4, <2>5, <2>7, TablesInOrder
  <2>8. CASE \E e \in f.entries : e.key = k /\ e.seq <= s
    <3>1. PICK y \in f.entries : Newest(f.entries, k, s) = {y}
      <4>1. f.entries \in SUBSET written
        BY <1>3, <2>4
      <4> QED BY <1>1, <2>8, <4>1, NewestIsThere
    <3>2. /\ y.key = k /\ y.seq <= s
          /\ \A x \in f.entries : x.key = k /\ x.seq <= s => x.seq <= y.seq
      BY <3>1 DEF Newest
    <3>3. ASSUME NEW x \in E, x.key = k, x.seq <= s PROVE x.seq <= y.seq
      <4>1. PICK g \in levels[l] : x \in g.entries
        BY DEF EntriesOf
      <4>2. g \in after
        BY <1>7, <3>3, <4>1
      <4>3. CASE g = f
        BY <3>2, <3>3, <4>1, <4>3
      <4>4. CASE g # f
        <5>1. Before(y, x)
          BY <2>7, <4>1, <4>2, <4>4
        <5>2. x.seq \in Nat /\ y.seq \in Nat /\ x.key \in Nat
          BY <1>3, <1>5, <2>4
        <5> QED BY <3>2, <3>3, <5>1, <5>2 DEF Before
      <4> QED BY <4>3, <4>4
    <3>4. y \in E
      BY <1>3, <2>4
    <3>5. Newest(E, k, s) = {y}
      <4>1. E \in SUBSET written
        BY <1>3
      <4> HIDE DEF E
      <4> QED BY <1>1, <3>2, <3>3, <3>4, <4>1, NewestIsIt
    <3> QED BY <1>2, <2>6, <3>1, <3>5
  <2>9. CASE ~ \E e \in f.entries : e.key = k /\ e.seq <= s
    <3>1. Newest(f.entries, k, s) = {}
      BY <2>9, NoNewest
    <3>2. Largest(f).key > k
      <4>1. /\ Largest(f) \in f.entries /\ Largest(f).key \in Nat /\ Largest(f).seq \in Nat
        BY <1>5, <1>6, <2>4
      <4> QED BY <1>4, <2>4, <2>9, <4>1 DEF Before
    <3>3. ASSUME NEW x \in E, x.key = k, x.seq <= s PROVE FALSE
      <4>1. PICK g \in levels[l] : x \in g.entries
        BY DEF EntriesOf
      <4>2. g \in after /\ g # f
        BY <1>7, <2>9, <3>3, <4>1
      <4>3. Before(Largest(f), x)
        BY <1>6, <2>4, <2>7, <4>1, <4>2
      <4>4. Largest(f).key \in Nat
        BY <1>5, <1>6, <2>4
      <4> QED BY <1>4, <3>2, <3>3, <4>3, <4>4 DEF Before
    <3>4. Newest(E, k, s) = {}
      BY <3>3, NoNewest
    <3> QED BY <1>2, <2>6, <3>1, <3>4
  <2> QED BY <2>8, <2>9
<1> QED BY <1>8, <1>9

\* Everything that is stored, in memory or in tables.
InTables == UNION {EntriesOf(levels[l]) : l \in Level}
Stored == mem \cup imm \cup InTables

LEMMA StoredIsWritten ==
  ASSUME IInv
  PROVE  /\ History(written) /\ Stored \in SUBSET written /\ InTables \in SUBSET written
         /\ LastSequence \in Nat /\ snapshots \in SUBSET Nat
         /\ \A e \in written : e.seq \in Nat /\ e.key \in Nat /\ e.seq <= LastSequence
         /\ NumLevels \in Nat /\ NumLevels >= 2 /\ Level = 0 .. NumLevels - 1
<1>1. /\ Types /\ TablesOK(written) /\ History(written)
      /\ NumLevels \in Nat /\ NumLevels >= 2 /\ Level = 0 .. NumLevels - 1
  BY InstanceFacts DEF IInv, Types, TablesOK, Level
<1>2. \A l \in Level : levels[l] \in SUBSET TableOf(written)
  BY <1>1 DEF TablesOK
<1>3. InTables \in SUBSET written
  BY <1>2 DEF InTables, EntriesOf, TableOf
<1>4. LastSequence \in Nat
  BY <1>1, FS_CardinalityType DEF History, LastSequence
<1>5. \A e \in written : e.seq \in Nat /\ e.key \in Nat /\ e.seq <= LastSequence
  BY <1>1, BeforeIsOrder DEF Types
<1> QED BY <1>1, <1>3, <1>4, <1>5 DEF Types, Stored

\* Get gives the newest entry of the key: memory first, then level by level.
LEMMA GetIsRight ==
  ASSUME IInv, Sorted, NewerByNumber, NEW k \in Key, NEW s \in Nat
  PROVE  Get(k, s) = ValueOf(Newest(Stored, k, s))
<1> DEFINE places == Places(k, s)
           Part(i) == IF i = 1 THEN mem ELSE IF i = 2 THEN imm ELSE EntriesOf(levels[i - 3])
           known == {i \in DOMAIN places : places[i] # {}}
           n == NumLevels + 2
<1>1. /\ History(written) /\ Stored \in SUBSET written
      /\ NumLevels \in Nat /\ NumLevels >= 2 /\ Level = 0 .. NumLevels - 1
      /\ \A e \in written : e.seq \in Nat
  BY StoredIsWritten
<1>2. /\ DOMAIN places = 1 .. n
      /\ places[1] = Newest(mem, k, s) /\ places[2] = Newest(imm, k, s)
      /\ places[3] = InLevel0(k, s)
      /\ \A i \in 4 .. n : places[i] = InLevel(i - 3, k, s)
  <2> DEFINE a == <<Newest(mem, k, s), Newest(imm, k, s), InLevel0(k, s)>>
             b == [level \in 1 .. NumLevels - 1 |-> InLevel(level, k, s)]
  <2>1. places = a \o b
    BY DEF Places
  <2>2. Len(a) = 3 /\ a[1] = Newest(mem, k, s) /\ a[2] = Newest(imm, k, s) /\ a[3] = InLevel0(k, s)
    OBVIOUS
  <2>3. /\ Len(b) = NumLevels - 1 /\ NumLevels - 1 \in Nat
        /\ \A i \in 1 .. NumLevels - 1 : b[i] = InLevel(i, k, s)
    BY <1>1
  <2> HIDE DEF a, b
  <2>4. /\ DOMAIN (a \o b) = 1 .. Len(a) + Len(b)
        /\ \A i \in 1 .. Len(a) + Len(b) : (a \o b)[i] = IF i <= Len(a) THEN a[i] ELSE b[i - Len(a)]
    OBVIOUS
  <2>5. Len(a) + Len(b) = n
    BY <1>1, <2>2, <2>3
  <2>6. ASSUME NEW i \in 4 .. n PROVE places[i] = InLevel(i - 3, k, s)
    <3>1. i \in 1 .. n /\ ~(i <= 3) /\ i - 3 \in 1 .. NumLevels - 1
      BY <1>1
    <3> QED BY <2>1, <2>2, <2>3, <2>4, <2>5, <3>1
  <2>7. 1 \in 1 .. n /\ 2 \in 1 .. n /\ 3 \in 1 .. n
    BY <1>1
  <2> QED BY <2>1, <2>2, <2>4, <2>5, <2>6, <2>7
<1> HIDE DEF places
<1>3. \A i \in 1 .. n : i = 1 \/ i = 2 \/ i = 3 \/ i \in 4 .. n
  BY <1>1
<1>4. ASSUME NEW i \in 1 .. n PROVE places[i] = Newest(Part(i), k, s)
  <2>1. CASE i = 3
    <3>1. Part(3) = EntriesOf(levels[0])
      OBVIOUS
    <3> QED BY <1>2, <2>1, <3>1, LevelZeroSearch
  <2>2. CASE i \in 4 .. n
    <3>1. i - 3 \in Level \ {0} /\ Part(i) = EntriesOf(levels[i - 3])
      BY <1>1, <2>2
    <3> HIDE DEF Part
    <3> QED BY <1>2, <2>2, <3>1, LevelSearch
  <2> QED BY <1>2, <1>3, <2>1, <2>2
<1>5. ASSUME NEW i \in 1 .. n PROVE i > 2 => i - 3 \in Level /\ Part(i) = EntriesOf(levels[i - 3])
  BY <1>1
<1>6. Stored = UNION {Part(i) : i \in 1 .. n}
  <2>1. ASSUME NEW x \in Stored PROVE \E i \in 1 .. n : x \in Part(i)
    <3>1. CASE x \in mem
      BY <1>1, <3>1
    <3>2. CASE x \in imm
      BY <1>1, <3>2
    <3>3. CASE x \in InTables
      <4>1. PICK l \in Level : x \in EntriesOf(levels[l])
        BY <3>3 DEF InTables
      <4>2. l + 3 \in 1 .. n /\ (l + 3) - 3 = l /\ l + 3 # 1 /\ l + 3 # 2
        BY <1>1
      <4>3. Part(l + 3) = EntriesOf(levels[l])
        BY <4>2
      <4> HIDE DEF Part
      <4> QED BY <4>1, <4>2, <4>3
    <3> QED BY <3>1, <3>2, <3>3 DEF Stored
  <2>2. ASSUME NEW i \in 1 .. n, NEW x \in Part(i) PROVE x \in Stored
    <3>1. CASE i > 2
      <4> HIDE DEF Part
      <4> QED BY <1>5, <2>2, <3>1 DEF Stored, InTables
    <3>2. CASE i = 1 \/ i = 2
      BY <2>2, <3>2 DEF Stored
    <3> QED BY <1>1, <3>1, <3>2
  <2> HIDE DEF Part
  <2> QED BY <2>1, <2>2
\* Of one key, what is found earlier is newer.
<1>7. ASSUME NEW i \in 1 .. n, NEW j \in 1 .. n, i < j,
             NEW e \in Part(i), NEW x \in Part(j), e.key = x.key
      PROVE  x.seq < e.seq
  <2>1. MemoryIsNewest /\ NewerIsAbove
    BY DEF IInv
  <2>2. CASE j = 2
    <3>1. e \in mem /\ x \in imm
      BY <1>1, <1>7, <2>2
    <3> QED BY <2>1, <3>1 DEF MemoryIsNewest
  <2>3. CASE j > 2
    <3>1. j - 3 \in Level /\ x \in EntriesOf(levels[j - 3])
      <4> HIDE DEF Part
      <4> QED BY <1>5, <1>7, <2>3
    <3>2. CASE i > 2
      <4>1. i - 3 \in Level /\ e \in EntriesOf(levels[i - 3]) /\ i - 3 < j - 3
        <5> HIDE DEF Part
        <5> QED BY <1>5, <1>7, <3>2
      <4>2. e.seq > x.seq
        BY <1>7, <2>1, <3>1, <4>1 DEF NewerIsAbove
      <4> QED BY <4>2
    <3>3. CASE i = 1 \/ i = 2
      <4>1. e \in mem \cup imm
        BY <1>7, <3>3
      <4> QED BY <2>1, <3>1, <4>1 DEF MemoryIsNewest
    <3> QED BY <1>1, <3>2, <3>3
  <2> QED BY <1>1, <1>7, <2>2, <2>3
<1> HIDE DEF Part
<1>8. \A i \in 1 .. n : Part(i) \in SUBSET Stored /\ Part(i) \in SUBSET written
  BY <1>1, <1>6
<1>9. known = {i \in 1 .. n : places[i] # {}}
  BY <1>2
<1>10. ASSUME NEW x \in Stored, x.key = k, x.seq <= s
       PROVE  \E i \in known : x \in Part(i)
  <2>1. PICK i \in 1 .. n : x \in Part(i)
    BY <1>6
  <2>2. Newest(Part(i), k, s) # {}
    <3>1. Part(i) \in SUBSET written
      BY <1>8
    <3> DEFINE P == Part(i)
    <3>2. P \in SUBSET written /\ x \in P /\ History(written)
      BY <1>1, <2>1, <3>1
    <3> HIDE DEF P
    <3>3. \E y \in P : Newest(P, k, s) = {y}
      BY <1>10, <3>2, NewestIsThere, SMTT(30)
    <3> QED BY <3>3 DEF P
  <2> QED BY <1>4, <1>9, <2>1, <2>2
<1>11. Get(k, s) = IF known = {} THEN {} ELSE ValueOf(places[Min(known)])
  BY DEF Get, places
<1> HIDE DEF known
<1>12. CASE known = {}
  <2>1. Newest(Stored, k, s) = {}
    BY <1>10, <1>12, NoNewest
  <2> QED BY <1>11, <1>12, <2>1 DEF ValueOf
<1>13. CASE known # {}
  <2>1. known \in SUBSET Nat
    BY <1>1, <1>9
  <2>2. Min(known) \in known /\ \A i \in known : Min(known) <= i
    BY <1>13, <2>1, MinIsThere
  <2> DEFINE m == Min(known)
  <2> HIDE DEF m
  <2>3. m \in known /\ m \in 1 .. n /\ \A i \in known : m <= i
    BY <1>9, <2>2 DEF m
  <2>4. places[m] = Newest(Part(m), k, s) /\ places[m] # {}
    BY <1>4, <1>9, <2>3
  <2>5. PICK y \in Part(m) : places[m] = {y} /\ y.key = k /\ y.seq <= s
                             /\ \A x \in Part(m) : x.key = k /\ x.seq <= s => x.seq <= y.seq
    <3>1. PICK z \in Part(m) : z.key = k /\ z.seq <= s
      BY <2>4 DEF Newest
    <3>2. Part(m) \in SUBSET written
      BY <1>8, <2>3
    <3>3. PICK y \in Part(m) : Newest(Part(m), k, s) = {y}
      BY <1>1, <3>1, <3>2, NewestIsThere, ZenonT(60)
    <3>4. y \in Newest(Part(m), k, s)
      BY <3>3
    <3> QED BY <2>4, <3>3, <3>4 DEF Newest
  <2>6. ASSUME NEW x \in Stored, x.key = k, x.seq <= s PROVE x.seq <= y.seq
    <3>1. PICK i \in known : x \in Part(i)
      BY <1>10, <2>6
    <3>2. i \in 1 .. n /\ m <= i
      BY <1>9, <2>3, <3>1
    <3>3. x.seq \in Nat /\ y.seq \in Nat
      BY <1>1, <1>8, <2>3, <2>5
    <3>4. CASE i = m
      BY <2>5, <2>6, <3>1, <3>4
    <3>5. CASE i # m
      <4>1. m < i
        BY <2>3, <3>2, <3>5
      <4>2. x.seq < y.seq
        BY <1>7, <2>3, <2>5, <2>6, <3>1, <3>2, <4>1
      <4> QED BY <3>3, <4>2
    <3> QED BY <3>4, <3>5
  <2>7. y \in Stored
    BY <1>8, <2>3, <2>5
  <2>8. Newest(Stored, k, s) = {y}
    <3>1. History(written) /\ Stored \in SUBSET written
      BY <1>1
    <3>2. y.key = k /\ y.seq <= s
      BY <2>5
    <3>3. \A x \in Stored : x.key = k /\ x.seq <= s => x.seq <= y.seq
      BY <2>6
    <3> DEFINE E == Stored
    <3>4. E \in SUBSET written /\ y \in E /\ \A x \in E : x.key = k /\ x.seq <= s => x.seq <= y.seq
      BY <2>7, <3>1, <3>3
    <3> HIDE DEF E
    <3>5. Newest(E, k, s) = {y}
      <4>1. y \in Newest(E, k, s)
        BY <3>2, <3>4 DEF Newest
      <4>2. E \in SUBSET written /\ y \in E /\ y.key = k /\ y.seq <= s /\ History(written)
        BY <3>1, <3>2, <3>4
      <4>3. \E z \in E : Newest(E, k, s) = {z}
        BY <4>2, NewestIsThere, ZenonT(60)
      <4> QED BY <4>1, <4>3
    <3> QED BY <3>5 DEF E
  <2> QED BY <1>11, <1>13, <2>5, <2>8 DEF m
<1> QED BY <1>12, <1>13

-----------------------------------------------------------------------------
(* What a merge may drop.                                                  *)

ApartInKeys(A, B) == \A e \in A, x \in B : e.key # x.key

\* What a merge relies on: nobody reads below its smallest snapshot, and the
\* keys of its upper inputs are nowhere else in the lower level, nor its keys
\* in tables that were flushed below since it began.
JobSpares ==
  job # None =>
    /\ job.smallest \in Nat /\ \A s \in snapshots \cup {LastSequence} : job.smallest <= s
    /\ \A f \in levels[job.level + 1] \ job.in1 : ApartInKeys(f.entries, EntriesOf(job.in0))
    /\ \A l \in Level : l > job.level + 1 =>
         \A f \in levels[l] \ job.version[l] : ApartInKeys(f.entries, Inputs(job))

\* The merge has all of the lower level's tables that hold its keys.  The code
\* sees to that for the keys of the upper inputs only (SetupOtherInputs).
InputsAreWhole ==
  job # None =>
    \A f \in levels[job.level + 1] \ job.in1 : ApartInKeys(f.entries, EntriesOf(job.in1))

LEMMA OutputsAre ==
  ASSUME NEW j
  PROVE  EntriesOf(Outputs(j)) = {e \in Inputs(j) : ~ IsDropped(j, e)}
<1> DEFINE left == {e \in Inputs(j) : ~ IsDropped(j, e)}
           Number(e) == Cardinality({x \in left : Before(x, e)}) \div instance.table
           Output(i) == [number |-> 0, entries |-> {e \in left : Number(e) = i}]
<1>1. Outputs(j) = {Output(i) : i \in {Number(e) : e \in left}}
  BY DEF Outputs
<1> HIDE DEF left, Number
<1>2. \A e \in left : Output(Number(e)) \in Outputs(j) /\ e \in Output(Number(e)).entries
  BY <1>1
<1>3. \A f \in Outputs(j) : f.entries \subseteq left
  BY <1>1
<1>4. EntriesOf(Outputs(j)) = left
  BY <1>2, <1>3 DEF EntriesOf
<1> QED BY <1>4 DEF left

\* What is dropped was hidden, or was a deletion marker with nothing older left.
LEMMA MergeSpares ==
  ASSUME IInv, JobSpares, InputsAreWhole, FinishCompaction
  PROVE  /\ InTables' \subseteq InTables
         /\ \A y \in InTables \ InTables' :
              \/ \E x \in InTables : x.key = y.key /\ y.seq < x.seq /\ x.seq <= job.smallest
              \/ /\ y.del /\ y.seq <= job.smallest
                 /\ \A z \in Stored' : z.key = y.key => y.seq < z.seq
<1> DEFINE L == job.level
           in0 == job.in0
           in1 == job.in1
           out == Outputs(job)
<1>1. /\ L \in 0 .. NumLevels - 2 /\ job # None
      /\ Replaces(L, in0, in1, out)
      /\ Inputs(job) \subseteq written
  BY FinishReplaces
<1>2. /\ TablesOK(written) /\ History(written) /\ MemoryIsNewest /\ NewerIsAbove
      /\ \A e \in written : e.seq \in Nat /\ e.key \in Nat
      /\ InTables \in SUBSET written
      /\ \A l \in Level : l \in Nat
  BY StoredIsWritten DEF IInv, Types, Level
<1>3. /\ L \in Nat /\ L \in Level /\ L + 1 \in Level /\ L + 1 # L
      /\ \A l \in Level : levels[l] \in SUBSET TableOf(written)
  BY <1>1, <1>2, UpperAndLower DEF TablesOK
<1>4. /\ Level' = Level
      /\ levels'[L] = levels[L] \ in0
      /\ levels'[L + 1] = (levels[L + 1] \ in1) \cup out
      /\ \A l \in Level : l # L /\ l # L + 1 => levels'[l] = levels[l]
  BY <1>1, ReplacedLevels
<1>5. /\ in0 \subseteq levels[L] /\ in1 \subseteq levels[L + 1]
      /\ TakesOldest(levels[L], in0)
      /\ mem' = mem /\ imm' = imm
  BY <1>1 DEF Replaces
<1>6. /\ \A f \in levels[L + 1] \ in1 :
            ApartInKeys(f.entries, EntriesOf(in0)) /\ ApartInKeys(f.entries, EntriesOf(in1))
      /\ \A l \in Level : l > L + 1 =>
           \A f \in levels[l] \ job.version[l] : ApartInKeys(f.entries, Inputs(job))
  BY <1>1 DEF JobSpares, InputsAreWhole
<1>7. Inputs(job) = EntriesOf(in0) \cup EntriesOf(in1)
  BY DEF Inputs, EntriesOf
<1>8. EntriesOf(out) = {e \in Inputs(job) : ~ IsDropped(job, e)}
  BY OutputsAre
<1>9. EntriesOf(in0) \subseteq EntriesOf(levels[L]) /\ EntriesOf(in1) \subseteq EntriesOf(levels[L + 1])
  BY <1>5 DEF EntriesOf
<1>10. Inputs(job) \subseteq InTables
  BY <1>3, <1>7, <1>9 DEF InTables
<1> HIDE DEF L, in0, in1, out
\* Where a table of the new version comes from.
<1>11. ASSUME NEW l \in Level, NEW g \in levels'[l]
       PROVE  \/ l = L + 1 /\ g \in out
              \/ g \in levels[l] /\ (l = L => g \notin in0) /\ (l = L + 1 => g \notin in1)
  BY <1>3, <1>4, <1>11
<1>12. InTables' \subseteq InTables
  <2>1. SUFFICES ASSUME NEW x \in InTables' PROVE x \in InTables
    OBVIOUS
  <2>2. PICK l \in Level : \E g \in levels'[l] : x \in g.entries
    BY <1>4 DEF InTables, EntriesOf
  <2>3. PICK g \in levels'[l] : x \in g.entries
    BY <2>2
  <2>4. CASE g \in levels[l]
    BY <2>3, <2>4 DEF InTables, EntriesOf
  <2>5. CASE g \in out
    <3>1. x \in EntriesOf(out)
      BY <2>3, <2>5 DEF EntriesOf
    <3> QED BY <1>8, <1>10, <3>1
  <2> QED BY <1>11, <2>4, <2>5
<1>13. ASSUME NEW y \in InTables, y \notin InTables'
       PROVE  y \in Inputs(job) /\ IsDropped(job, y)
  <2>1. PICK l \in Level : \E g \in levels[l] : y \in g.entries
    BY DEF InTables, EntriesOf
  <2>2. PICK g \in levels[l] : y \in g.entries
    BY <2>1
  <2>3. \A m \in Level : \A h \in levels'[m] : y \notin h.entries
    BY <1>4, <1>13 DEF InTables, EntriesOf
  <2>4. (l = L /\ g \in in0) \/ (l = L + 1 /\ g \in in1)
    BY <1>3, <1>4, <2>2, <2>3
  <2>5. y \in Inputs(job)
    BY <1>7, <2>2, <2>4 DEF EntriesOf
  <2>6. y \notin EntriesOf(out)
    BY <1>3, <1>4, <2>3 DEF EntriesOf
  <2> QED BY <1>8, <2>5, <2>6
<1>14. ASSUME NEW y \in Inputs(job), y \notin InTables', y.seq <= job.smallest,
              IsBaseLevelForKey(job, y.key), NEW z \in Stored', z.key = y.key
       PROVE  y.seq < z.seq
  <2>1. y \in written /\ y.seq \in Nat /\ y.key \in Nat
    BY <1>1, <1>2
  <2>2. (y \in EntriesOf(in0) /\ y \in EntriesOf(levels[L]))
        \/ (y \in EntriesOf(in1) /\ y \in EntriesOf(levels[L + 1]))
    BY <1>7, <1>9
  <2>3. CASE z \in mem \/ z \in imm
    BY <1>2, <1>3, <2>2, <2>3 DEF MemoryIsNewest
  <2>4. ASSUME NEW l \in Level, NEW g \in levels'[l], z \in g.entries
        PROVE  y.seq < z.seq
    <3>0. l \in Nat
      BY <1>2
    <3>1. z \in InTables'
      BY <1>4, <2>4 DEF InTables, EntriesOf
    <3>2. z \in written /\ z.seq \in Nat
      BY <1>2, <1>12, <3>1
    <3>3. CASE g \in out
      <4>1. z \in Inputs(job) /\ ~ IsDropped(job, z)
        BY <1>8, <2>4, <3>3 DEF EntriesOf
      <4>2. ~(z.seq < y.seq)
        BY <1>14, <4>1 DEF IsDropped
      <4>3. z.seq # y.seq
        BY <1>2, <1>14, <2>1, <3>1, <3>2 DEF History
      <4> QED BY <2>1, <3>2, <4>2, <4>3
    <3>4. CASE g \in levels[l] /\ (l = L => g \notin in0) /\ (l = L + 1 => g \notin in1)
      <4>1. z \in EntriesOf(levels[l])
        BY <2>4, <3>4 DEF EntriesOf
      <4>2. CASE l < L
        <5>1. l < L + 1
          BY <1>3, <3>0, <4>2
        <5>2. z.seq > y.seq
          BY <1>2, <1>3, <1>14, <2>2, <4>1, <4>2, <5>1 DEF NewerIsAbove
        <5> QED BY <5>2
      <4>3. CASE l = L
        <5>1. CASE y \in EntriesOf(in0)
          <6>1. PICK h \in in0 : y \in h.entries
            BY <5>1 DEF EntriesOf
          <6>2. z.seq > y.seq
            BY <1>5, <1>14, <2>4, <3>4, <4>3, <6>1 DEF TakesOldest
          <6> QED BY <6>2
        <5>2. CASE y \in EntriesOf(levels[L + 1])
          <6>1. L < L + 1
            BY <1>3
          <6>2. z.seq > y.seq
            BY <1>2, <1>3, <1>14, <4>1, <4>3, <5>2, <6>1 DEF NewerIsAbove
          <6> QED BY <6>2
        <5> QED BY <2>2, <5>1, <5>2
      <4>4. CASE l = L + 1
        BY <1>6, <1>14, <2>2, <2>4, <3>4, <4>4 DEF ApartInKeys
      <4>5. CASE l > L + 1
        <5>1. CASE g \in job.version[l]
          <6>1. l \in L + 2 .. NumLevels - 1
            <7>1. l \in 0 .. NumLevels - 1 /\ NumLevels \in Nat
              BY StoredIsWritten
            <7> QED BY <1>3, <4>5, <7>1
          <6>2. ~(Range1(g).from <= y.key /\ y.key <= Range1(g).to)
            <7>1. l \in job.level + 2 .. NumLevels - 1
              BY <6>1 DEF L
            <7>2. \A f \in job.version[l] : ~(Range1(f).from <= y.key /\ y.key <= Range1(f).to)
              BY <1>14, <7>1, Zenon DEF IsBaseLevelForKey
            <7> QED BY <5>1, <7>2
          <6>3. g \in TableOf(written)
            BY <1>3, <3>4
          <6>4. Range1(g).from <= z.key /\ z.key <= Range1(g).to
            BY <1>2, <2>4, <6>3, TableFacts
          <6> QED BY <1>14, <6>2, <6>4
        <5>2. CASE g \notin job.version[l]
          BY <1>6, <1>14, <2>4, <3>4, <4>5, <5>2 DEF ApartInKeys
        <5> QED BY <5>1, <5>2
      <4> QED BY <1>3, <3>0, <4>2, <4>3, <4>4, <4>5
    <3> QED BY <1>11, <3>3, <3>4
  <2>5. CASE z \in InTables'
    <3>1. \E l \in Level : \E g \in levels'[l] : z \in g.entries
      BY <1>4, <2>5 DEF InTables, EntriesOf
    <3> QED BY <2>4, <3>1
  <2> QED BY <1>5, <2>3, <2>5 DEF Stored
<1>15. ASSUME NEW y \in InTables, y \notin InTables'
       PROVE  \/ \E x \in InTables : x.key = y.key /\ y.seq < x.seq /\ x.seq <= job.smallest
              \/ /\ y.del /\ y.seq <= job.smallest
                 /\ \A z \in Stored' : z.key = y.key => y.seq < z.seq
  <2>1. y \in Inputs(job) /\ IsDropped(job, y)
    BY <1>13, <1>15
  <2>2. CASE \E x \in Inputs(job) : x.key = y.key /\ y.seq < x.seq /\ x.seq <= job.smallest
    BY <1>10, <2>2
  <2>3. CASE y.del /\ y.seq <= job.smallest /\ IsBaseLevelForKey(job, y.key)
    BY <1>14, <1>15, <2>1, <2>3
  <2> QED BY <2>1, <2>2, <2>3 DEF IsDropped
<1> QED BY <1>12, <1>15

\* Then the newest entry stays, or was a marker and nothing is left.
LEMMA NewestIsKept ==
  ASSUME NEW W, History(W), NEW A \in SUBSET W, NEW B \in SUBSET A,
         NEW m \in Nat, NEW s \in Nat, m <= s, NEW k,
         \A y \in A \ B :
           \/ \E x \in A : x.key = y.key /\ y.seq < x.seq /\ x.seq <= m
           \/ y.del /\ y.seq <= m /\ \A z \in B : z.key = y.key => y.seq < z.seq
  PROVE  \/ Newest(B, k, s) = Newest(A, k, s)
         \/ Newest(B, k, s) = {} /\ ValueOf(Newest(A, k, s)) = {}
<1>1. \A e \in A : e.seq \in Nat
  BY BeforeIsOrder
<1>2. CASE \A e \in A : ~(e.key = k /\ e.seq <= s)
  <2>1. Newest(A, k, s) = {}
    BY <1>2, NoNewest
  <2>2. Newest(B, k, s) = {}
    BY <1>2, NoNewest
  <2> QED BY <2>1, <2>2
<1>3. CASE \E e \in A : e.key = k /\ e.seq <= s
  <2>1. PICK y \in A : Newest(A, k, s) = {y}
    BY <1>3, NewestIsThere
  <2>2. y \in Newest(A, k, s)
    BY <2>1
  <2>3. y.key = k /\ y.seq <= s /\ \A x \in A : x.key = k /\ x.seq <= s => x.seq <= y.seq
    BY <2>2 DEF Newest
  <2>4. CASE y \in B
    <3>1. y \in Newest(B, k, s)
      BY <2>3, <2>4 DEF Newest
    <3>2. \E z \in B : Newest(B, k, s) = {z}
      <4>1. B \in SUBSET W /\ y \in B /\ y.key = k /\ y.seq <= s /\ History(W)
        BY <2>3, <2>4
      <4> QED BY <4>1, NewestIsThere, ZenonT(60)
    <3> QED BY <2>1, <3>1, <3>2
  <2>5. CASE y \notin B
    <3>1. ASSUME NEW x \in A, x.key = k, y.seq < x.seq, x.seq <= m PROVE FALSE
      <4>1. x.seq \in Nat /\ y.seq \in Nat
        BY <1>1
      <4>2. x.seq <= s
        BY <3>1, <4>1
      <4> QED BY <2>3, <3>1, <4>1, <4>2
    <3>2. y.del /\ \A z \in B : z.key = k => y.seq < z.seq
      BY <2>3, <2>5, <3>1
    <3>3. ASSUME NEW z \in B, z.key = k, z.seq <= s PROVE FALSE
      <4>1. z.seq \in Nat /\ y.seq \in Nat
        BY <1>1
      <4> QED BY <2>3, <3>2, <3>3, <4>1
    <3>4. Newest(B, k, s) = {}
      BY <3>3, NoNewest
    <3>5. ValueOf({y}) = {}
      BY <3>2 DEF ValueOf
    <3> QED BY <2>1, <3>4, <3>5
  <2> QED BY <2>4, <2>5
<1> QED BY <1>2, <1>3

\* For every reader, what is stored gives what was written.
NothingIsLost ==
  \A k \in Key, s \in snapshots \cup {LastSequence} :
    ValueOf(Newest(Stored, k, s)) = ValueOf(Newest(written, k, s))

DataIsSafe == NewerByNumber /\ JobSpares /\ NothingIsLost

LEMMA DataInit == Init => DataIsSafe
<1> SUFFICES ASSUME Init PROVE DataIsSafe
  OBVIOUS
<1>1. /\ written = {} /\ mem = {} /\ imm = {} /\ job = None
      /\ \A l \in Level : levels[l] = {}
  BY DEF Init
<1>2. IInv
  BY InitHolds
<1>3. NewerByNumber
  <2>1. 0 \in Level
    BY <1>2, StoredIsWritten
  <2> QED BY <1>1, <2>1 DEF NewerByNumber
<1>4. Stored = written
  BY <1>1 DEF Stored, InTables, EntriesOf
<1> QED BY <1>1, <1>3, <1>4 DEF DataIsSafe, JobSpares, NothingIsLost

\* Nothing written, no table changed: a switch of memtables, a snapshot, a
\* CompactRange.
LEMMA DataStays ==
  ASSUME IInv, DataIsSafe, UNCHANGED <<written, levels, job, instance>>,
         mem' \cup imm' = mem \cup imm, snapshots' \subseteq snapshots \cup {LastSequence}
  PROVE  DataIsSafe'
<1>1. Level' = Level /\ LastSequence' = LastSequence
  BY DEF Level, NumLevels, LastSequence
<1>2. Stored' = Stored
  BY <1>1 DEF Stored, InTables
<1>3. NewerByNumber'
  BY DEF DataIsSafe, NewerByNumber
<1>4. JobSpares'
  <2>1. Inputs(job)' = Inputs(job)
    BY DEF Inputs
  <2> QED BY <1>1, <2>1 DEF DataIsSafe, JobSpares
<1>5. NothingIsLost'
  BY <1>1, <1>2 DEF DataIsSafe, NothingIsLost
<1> QED BY <1>3, <1>4, <1>5 DEF DataIsSafe

LEMMA DataAdd ==
  ASSUME IInv, DataIsSafe, NEW k \in Key, NEW del \in BOOLEAN, Add(k, del)
  PROVE  DataIsSafe'
<1> DEFINE e == [key |-> k, seq |-> LastSequence + 1, del |-> del]
           n == LastSequence
           t == n + 1
<1>1. /\ written' = written \cup {e} /\ mem' = mem \cup {e}
      /\ UNCHANGED <<imm, levels, next, snapshots, job, manual, instance>>
  BY DEF Add
<1>2. /\ History(written) /\ Stored \in SUBSET written /\ n \in Nat /\ t \in Nat /\ t = n + 1 /\ snapshots \in SUBSET Nat
      /\ \A x \in written : x.seq \in Nat /\ x.seq <= n
      /\ \A s \in snapshots : s <= n
  BY StoredIsWritten DEF IInv, Types
<1>3. IInv'
  BY AddHolds
<1>4. History(written')
  BY <1>3 DEF IInv, Types, TablesOK
<1>5. e.seq = t /\ e.key = k /\ e \in written'
  BY <1>1
<1>6. e \notin written
  BY <1>2, <1>5
<1>7. LastSequence' = t
  <2>1. IsFiniteSet(written)
    BY <1>2 DEF History
  <2> HIDE DEF e
  <2> QED BY <1>1, <1>6, <2>1, FS_AddElement DEF LastSequence
<1>8. Level' = Level
  BY <1>1 DEF Level, NumLevels
<1>9. Stored' = Stored \cup {e}
  BY <1>1, <1>8 DEF Stored, InTables
<1> HIDE DEF e, n, t
<1>10. NewerByNumber'
  BY <1>1 DEF DataIsSafe, NewerByNumber
<1>11. JobSpares'
  <2>1. Inputs(job)' = Inputs(job)
    BY <1>1 DEF Inputs
  <2>2. ASSUME job # None
        PROVE  \A s \in snapshots' \cup {LastSequence'} : job.smallest <= s
    <3>1. job.smallest \in Nat /\ job.smallest <= n /\ \A s \in snapshots : job.smallest <= s
      BY <2>2 DEF DataIsSafe, JobSpares, n
    <3> QED BY <1>1, <1>2, <1>7, <3>1
  <2> QED BY <1>1, <1>8, <2>1, <2>2 DEF DataIsSafe, JobSpares
<1>12. NothingIsLost'
  <2>1. SUFFICES ASSUME NEW j \in Key, NEW s \in snapshots \cup {t}
                 PROVE  ValueOf(Newest(Stored \cup {e}, j, s)) = ValueOf(Newest(written \cup {e}, j, s))
    BY <1>1, <1>7, <1>9 DEF NothingIsLost
  <2>2. /\ Stored \in SUBSET written' /\ written \in SUBSET written'
        /\ \A x \in Stored : x.seq <= n
    BY <1>1, <1>2
  <2>3. \A r \in snapshots \cup {n} :
          ValueOf(Newest(Stored, j, r)) = ValueOf(Newest(written, j, r))
    BY DEF DataIsSafe, NothingIsLost, n
  <2>4. s \in Nat
    BY <1>2
  <2> DEFINE W == written'
  <2>5. /\ History(W) /\ Stored \in SUBSET W /\ written \in SUBSET W /\ e \in W
    BY <1>4, <1>5, <2>2
  <2> HIDE DEF W
\* The new entry is the newest of its key and nothing to all other reads.
  <2>6. ASSUME NEW E \in SUBSET W, \A x \in E : x.seq <= n
        PROVE  /\ \A r \in Nat : r <= n => Newest(E \cup {e}, j, r) = Newest(E, j, r)
               /\ e.key # j => Newest(E \cup {e}, j, t) = Newest(E, j, n)
               /\ e.key = j => Newest(E \cup {e}, j, t) = {e}
    <3>0. n \in Nat /\ t \in Nat /\ n < t /\ e.seq = t
      BY <1>2, <1>5
    <3>1. \A x \in E : x.seq \in Nat
      BY <2>5, <2>6, BeforeIsOrder
    <3>2. ASSUME NEW r \in Nat, r <= n PROVE Newest(E \cup {e}, j, r) = Newest(E, j, r)
      <4>1. ~(e.seq <= r)
        BY <3>0, <3>2
      <4>2. {x \in E \cup {e} : x.key = j /\ x.seq <= r} = {x \in E : x.key = j /\ x.seq <= r}
        BY <4>1
      <4> QED BY <4>2 DEF Newest
    <3>3. ASSUME e.key # j PROVE Newest(E \cup {e}, j, t) = Newest(E, j, n)
      <4>1. \A x \in E : x.seq <= t
        BY <2>6, <3>0, <3>1
      <4>2. {x \in E \cup {e} : x.key = j /\ x.seq <= t} = {x \in E : x.key = j /\ x.seq <= n}
        BY <2>6, <3>0, <3>1, <3>3, <4>1
      <4> QED BY <4>2 DEF Newest
    <3>4. ASSUME e.key = j PROVE Newest(E \cup {e}, j, t) = {e}
      <4> DEFINE A == E \cup {e}
      <4>1. A \in SUBSET W /\ e \in A /\ e.seq <= t /\ History(W) /\ e.key = j
        BY <2>5, <3>0, <3>4
      <4>2. \A x \in A : x.key = j /\ x.seq <= t => x.seq <= e.seq
        BY <2>6, <3>0, <3>1
      <4> HIDE DEF A
      <4>3. e \in Newest(A, j, t)
        BY <4>1, <4>2 DEF Newest
      <4>4. \E y \in A : Newest(A, j, t) = {y}
        BY <4>1, NewestIsThere, ZenonT(60)
      <4>5. Newest(A, j, t) = {e}
        BY <4>3, <4>4
      <4> QED BY <4>5 DEF A
    <3> QED BY <3>2, <3>3, <3>4
  <2>7. /\ \A r \in Nat : r <= n => Newest(Stored \cup {e}, j, r) = Newest(Stored, j, r)
        /\ \A r \in Nat : r <= n => Newest(written \cup {e}, j, r) = Newest(written, j, r)
        /\ e.key # j => /\ Newest(Stored \cup {e}, j, t) = Newest(Stored, j, n)
                        /\ Newest(written \cup {e}, j, t) = Newest(written, j, n)
        /\ e.key = j => /\ Newest(Stored \cup {e}, j, t) = {e}
                        /\ Newest(written \cup {e}, j, t) = {e}
    BY <1>2, <2>2, <2>5, <2>6
  <2>8. CASE s \in snapshots
    <3>1. s <= n
      BY <1>2, <2>8
    <3> QED BY <2>3, <2>4, <2>7, <2>8, <3>1
  <2>9. CASE s = t
    <3>1. CASE e.key = j
      BY <2>7, <2>9, <3>1
    <3>2. CASE e.key # j
      BY <2>3, <2>7, <2>9, <3>2
    <3> QED BY <3>1, <3>2
  <2> QED BY <2>8, <2>9
<1> QED BY <1>10, <1>11, <1>12 DEF DataIsSafe

\* A flush.
LEMMA DataFlush ==
  ASSUME IInv, Sorted, DataIsSafe, CompactMemTable
  PROVE  DataIsSafe'
<1> DEFINE f == [number |-> next, entries |-> imm]
<1>1. f \in TableOf(written) /\ f.number = next /\ f.entries = imm
  BY FlushPlace
<1>2. PICK level \in Level : levels' = [levels EXCEPT ![level] = levels[level] \cup {f}]
  BY FlushPlace
<1>3. /\ imm' = {} /\ next' = next + 1
      /\ UNCHANGED <<written, mem, snapshots, job, manual, instance>>
  BY DEF CompactMemTable
<1>4. IInv'
  BY CompactMemTableHolds
<1> HIDE DEF f
<1>5. /\ Level' = Level /\ NumLevels' = NumLevels /\ LastSequence' = LastSequence
      /\ MemoryIsNewest /\ JobIsSafe /\ NewerIsAbove'
      /\ NumLevels \in Nat /\ NumLevels >= 2 /\ Level = 0 .. NumLevels - 1
      /\ \A e \in written : e.seq \in Nat /\ e.key \in Nat
      /\ imm \subseteq written /\ DOMAIN levels = Level
  BY <1>3, <1>4, StoredIsWritten DEF IInv, Types, TablesOK, LastSequence, NumLevels, Level
<1>6. \A l \in Level : levels'[l] = IF l = level THEN levels[l] \cup {f} ELSE levels[l]
  BY <1>2, <1>5
<1>7. \A l \in Level : levels[l] \in SUBSET TableOf(written)
                       /\ \A g \in levels[l] : g.number < next /\ g.number \in Nat
  BY DEF IInv, Types, TablesOK, TableOf
<1>8. next \in Nat
  BY DEF IInv, Types
<1>9. NewerByNumber'
  <2>1. SUFFICES ASSUME NEW g \in levels'[0], NEW h \in levels'[0]
                 PROVE  /\ g.number = h.number => g = h
                        /\ g.number < h.number => \A e \in g.entries, x \in h.entries : e.seq < x.seq
    BY DEF NewerByNumber
  <2>2. 0 \in Level
    BY <1>5
  <2>3. (g = f \/ g \in levels[0]) /\ (h = f \/ h \in levels[0])
    BY <1>6, <2>2
  <2>4. CASE g \in levels[0] /\ h \in levels[0]
    BY <2>4 DEF DataIsSafe, NewerByNumber
  <2>5. CASE g = f /\ h \in levels[0]
    BY <1>1, <1>7, <1>8, <2>2, <2>5
  <2>6. CASE g \in levels[0] /\ h = f
    <3>1. g.number < next /\ g.number \in Nat
      BY <1>7, <2>2, <2>6
    <3>2. ASSUME NEW e \in g.entries, NEW x \in imm PROVE e.seq < x.seq
      <4>1. e \in EntriesOf(levels[0])
        BY <2>6 DEF EntriesOf
      <4> QED BY <1>5, <2>2, <4>1 DEF MemoryIsNewest
    <3> QED BY <1>1, <1>8, <2>6, <3>1, <3>2
  <2>7. CASE g = f /\ h = f
    BY <1>1, <1>8, <2>7
  <2> QED BY <2>3, <2>4, <2>5, <2>6, <2>7
\* The new table is newer than those above it: there it has no key.
<1>10. ASSUME NEW l \in Level, l < level, NEW x \in EntriesOf(levels[l]), NEW e \in f.entries
       PROVE  e.key # x.key
  <2>1. x \in EntriesOf(levels'[l])
    BY <1>6, <1>10 DEF EntriesOf
  <2>2. f \in levels'[level]
    BY <1>6
  <2>3. e \in EntriesOf(levels'[level])
    BY <2>2 DEF EntriesOf
  <2>4. e.key = x.key => x.seq > e.seq
    BY <1>5, <1>10, <2>1, <2>3 DEF NewerIsAbove
  <2>5. x.seq < e.seq
    BY <1>1, <1>5, <1>10 DEF MemoryIsNewest
  <2>6. e.seq \in Nat /\ x.seq \in Nat
    <3>1. e \in written
      BY <1>1, <1>5
    <3>2. x \in written
      BY <1>7, <1>10 DEF EntriesOf, TableOf
    <3> QED BY <1>5, <3>1, <3>2
  <2> QED BY <2>4, <2>5, <2>6
<1>11. JobSpares'
  <2> DEFINE L == job.level
  <2>1. SUFFICES ASSUME job # None
                 PROVE  /\ \A g \in levels'[L + 1] \ job.in1 :
                             ApartInKeys(g.entries, EntriesOf(job.in0))
                        /\ \A l \in Level : l > L + 1 =>
                             \A g \in levels'[l] \ job.version[l] : ApartInKeys(g.entries, Inputs(job))
    <3>1. Inputs(job)' = Inputs(job)
      BY <1>3 DEF Inputs
    <3>2. job # None => job.smallest \in Nat /\ \A s \in snapshots \cup {LastSequence} : job.smallest <= s
      BY DEF DataIsSafe, JobSpares
    <3> QED BY <1>3, <1>5, <2>1, <3>1, <3>2 DEF JobSpares
  <2>2. /\ L \in 0 .. NumLevels - 2
        /\ job.in0 \subseteq levels[L] /\ job.in1 \subseteq levels[L + 1]
    BY <1>5, <2>1 DEF JobIsSafe
  <2>3. L \in Nat /\ L \in Level /\ L + 1 \in Level
    BY <1>5, <2>2
  <2>4. /\ \A g \in levels[L + 1] \ job.in1 : ApartInKeys(g.entries, EntriesOf(job.in0))
        /\ \A l \in Level : l > L + 1 =>
             \A g \in levels[l] \ job.version[l] : ApartInKeys(g.entries, Inputs(job))
    BY <2>1 DEF DataIsSafe, JobSpares
  <2>5. /\ EntriesOf(job.in0) \subseteq EntriesOf(levels[L])
        /\ Inputs(job) \subseteq EntriesOf(levels[L]) \cup EntriesOf(levels[L + 1])
    BY <2>2 DEF EntriesOf, Inputs
  <2> HIDE DEF L
  <2>6. ASSUME NEW g \in levels'[L + 1] \ job.in1
        PROVE  ApartInKeys(g.entries, EntriesOf(job.in0))
    <3>1. CASE g \in levels[L + 1]
      BY <2>4, <2>6, <3>1
    <3>2. CASE g \notin levels[L + 1]
      <4>1. g = f /\ level = L + 1
        BY <1>6, <2>3, <2>6, <3>2
      <4>2. L < level
        BY <2>3, <4>1
      <4> QED BY <1>10, <2>3, <2>5, <4>1, <4>2 DEF ApartInKeys
    <3> QED BY <3>1, <3>2
  <2>7. ASSUME NEW l \in Level, l > L + 1, NEW g \in levels'[l] \ job.version[l]
        PROVE  ApartInKeys(g.entries, Inputs(job))
    <3>1. CASE g \in levels[l]
      BY <2>4, <2>7, <3>1
    <3>2. CASE g \notin levels[l]
      <4>1. g = f /\ level = l
        BY <1>6, <2>7, <3>2
      <4>2. l \in Nat
        BY <1>5
      <4>3. L < level /\ L + 1 < level
        BY <2>3, <2>7, <4>1, <4>2
      <4> QED BY <1>10, <2>3, <2>5, <4>1, <4>3 DEF ApartInKeys
    <3> QED BY <3>1, <3>2
  <2> QED BY <2>6, <2>7 DEF L
<1>12. Stored' = Stored
  <2>1. \A l \in Level : EntriesOf(levels'[l]) = EntriesOf(levels[l]) \cup (IF l = level THEN imm ELSE {})
    BY <1>1, <1>6 DEF EntriesOf
  <2> QED BY <1>3, <1>5, <2>1 DEF Stored, InTables
<1>13. NothingIsLost'
  BY <1>3, <1>5, <1>12 DEF DataIsSafe, NothingIsLost
<1> QED BY <1>9, <1>11, <1>13 DEF DataIsSafe

\* A merge that begins has the tables that fit.
LEMMA JobBegins ==
  ASSUME IInv, Sorted,
         \/ \E level \in 0 .. NumLevels - 2 : \E f \in levels[level] : PickCompaction(level, f)
         \/ CompactPiece
  PROVE  /\ \E level \in 0 .. NumLevels - 2 : \E in0, in1 :
              Fitting(level, in0, in1) /\ job' = Job(level, in0, in1)
         /\ job = None
         /\ UNCHANGED <<written, mem, imm, levels, next, snapshots, instance>>
<1>1. ASSUME NEW level \in 0 .. NumLevels - 2, NEW f \in levels[level], PickCompaction(level, f)
      PROVE  /\ \E in0, in1 : Fitting(level, in0, in1) /\ job' = Job(level, in0, in1)
             /\ job = None
             /\ UNCHANGED <<written, mem, imm, levels, next, snapshots, instance>>
  <2>1. PICK inputs \in Picked(level, f) : job' = Job(level, inputs[1], inputs[2])
    BY <1>1 DEF PickCompaction
  <2>2. Fitting(level, inputs[1], inputs[2])
    BY PickedIsGood DEF IInv, Types
  <2> QED BY <1>1, <2>1, <2>2 DEF PickCompaction, CanCompact
<1>2. ASSUME CompactPiece
      PROVE  /\ \E level \in 0 .. NumLevels - 2 : \E in0, in1 :
                  Fitting(level, in0, in1) /\ job' = Job(level, in0, in1)
             /\ job = None
             /\ UNCHANGED <<written, mem, imm, levels, next, snapshots, instance>>
  <2> DEFINE level == manual.level
  <2>1. /\ manual # None /\ ManualInputs # {} /\ job = None
        /\ UNCHANGED <<written, mem, imm, levels, next, snapshots, instance>>
    BY <1>2 DEF CompactPiece, CanCompact
  <2>2. PICK inputs \in SetupOtherInputs(level, FirstOf(ManualInputs, level)) :
          job' = Job(level, inputs[1], inputs[2])
    BY <1>2 DEF CompactPiece
  <2>3. /\ manual \in ManualCompaction /\ manual.level < manual.last /\ manual.last < NumLevels
        /\ TablesOK(written) /\ NumLevels \in Nat
    BY <2>1, StoredIsWritten DEF IInv, Types
  <2>4. level \in 0 .. NumLevels - 2 /\ manual.range \in Ranges
    BY <2>3 DEF ManualCompaction
  <2>5. Fitting(level, inputs[1], inputs[2])
    BY <2>1, <2>2, <2>3, <2>4, PieceIsGood
  <2> QED BY <2>1, <2>2, <2>4, <2>5
<1> QED BY <1>1, <1>2

\* No other table of the lower level has a key of the upper inputs.
LEMMA FittingIsApart ==
  ASSUME IInv, NEW level \in 0 .. NumLevels - 2, NEW in0, NEW in1, Fitting(level, in0, in1),
         NEW f \in levels[level + 1] \ in1
  PROVE  ApartInKeys(f.entries, EntriesOf(in0))
<1>1. TablesOK(written) /\ History(written)
  BY DEF IInv, Types, TablesOK
<1>2. /\ levels[level] \in SUBSET TableOf(written) /\ IsFiniteSet(levels[level])
      /\ levels[level + 1] \in SUBSET TableOf(written)
  BY <1>1, UpperAndLower
<1>3. /\ in0 \in SUBSET TableOf(written) /\ IsFiniteSet(in0) /\ in0 # {}
      /\ f \in TableOf(written) /\ ~ Overlaps(f, RangeOf(in0))
  BY <1>2, FS_Subset DEF Fitting
<1> DEFINE r == RangeOf(in0)
<1>4. r \in Ranges /\ \A g \in in0 : r.from <= Range1(g).from /\ Range1(g).to <= r.to
  BY <1>1, <1>3, RangeOfFacts
<1>5. r.from \in Nat /\ r.to \in Nat
  BY <1>4, RangeTypes
<1>6. Range1(f).to < r.from \/ Range1(f).from > r.to
  BY <1>3 DEF Overlaps
<1> HIDE DEF r
<1> SUFFICES ASSUME NEW e \in f.entries, NEW x \in EntriesOf(in0) PROVE e.key # x.key
  BY DEF ApartInKeys
<1>7. PICK g \in in0 : x \in g.entries
  BY DEF EntriesOf
<1>8. g \in TableOf(written)
  BY <1>3
<1>9. /\ Range1(f).from <= e.key /\ e.key <= Range1(f).to /\ e \in written
      /\ Range1(g).from <= x.key /\ x.key <= Range1(g).to /\ x \in written
      /\ Range1(f).from \in Nat /\ Range1(f).to \in Nat
      /\ Range1(g).from \in Nat /\ Range1(g).to \in Nat
  BY <1>1, <1>3, <1>7, <1>8, TableFacts
<1>10. e.key \in Nat /\ x.key \in Nat
  BY <1>1, <1>9, BeforeIsOrder
<1>11. r.from <= Range1(g).from /\ Range1(g).to <= r.to
  BY <1>4
<1> QED BY <1>5, <1>6, <1>9, <1>10, <1>11

LEMMA DataJob ==
  ASSUME IInv, Sorted, DataIsSafe,
         \/ \E level \in 0 .. NumLevels - 2 : \E f \in levels[level] : PickCompaction(level, f)
         \/ CompactPiece
  PROVE  DataIsSafe'
<1>1. PICK level \in 0 .. NumLevels - 2 : \E in0, in1 :
        Fitting(level, in0, in1) /\ job' = Job(level, in0, in1)
  BY JobBegins
<1>2. PICK in0, in1 : Fitting(level, in0, in1) /\ job' = Job(level, in0, in1)
  BY <1>1
<1>3. UNCHANGED <<written, mem, imm, levels, next, snapshots, instance>>
  BY JobBegins
<1>4. Level' = Level /\ LastSequence' = LastSequence
  BY <1>3 DEF Level, NumLevels, LastSequence
<1>5. NewerByNumber'
  BY <1>3 DEF DataIsSafe, NewerByNumber
<1>6. NothingIsLost'
  <2>1. Stored' = Stored
    BY <1>3, <1>4 DEF Stored, InTables
  <2> QED BY <1>3, <1>4, <2>1 DEF DataIsSafe, NothingIsLost
<1>7. /\ job'.level = level /\ job'.in0 = in0 /\ job'.in1 = in1 /\ job'.version = levels
      /\ job'.smallest = SmallestSnapshot
  BY <1>2 DEF Job
<1>8. SmallestSnapshot \in Nat /\ \A s \in snapshots \cup {LastSequence} : SmallestSnapshot <= s
  <2>1. LastSequence \in Nat /\ snapshots \in SUBSET Nat /\ \A s \in snapshots : s <= LastSequence
    BY StoredIsWritten DEF IInv, Types
  <2>2. CASE snapshots = {}
    BY <2>1, <2>2 DEF SmallestSnapshot
  <2>3. CASE snapshots # {}
    <3>1. Min(snapshots) \in snapshots /\ \A s \in snapshots : Min(snapshots) <= s
      BY <2>1, <2>3, MinIsThere
    <3> DEFINE m == Min(snapshots)
    <3>2. SmallestSnapshot = m
      BY <2>3 DEF SmallestSnapshot
    <3> HIDE DEF m
    <3>3. m \in Nat /\ m <= LastSequence /\ \A s \in snapshots : m <= s
      BY <2>1, <3>1 DEF m
    <3> QED BY <3>2, <3>3
  <2> QED BY <2>2, <2>3
<1>9. JobSpares'
  <2>1. \A f \in levels[level + 1] \ in1 : ApartInKeys(f.entries, EntriesOf(in0))
    BY <1>2, FittingIsApart
  <2>2. \A l \in Level : levels[l] \ job'.version[l] = {}
    BY <1>7
  <2> QED BY <1>3, <1>4, <1>7, <1>8, <2>1, <2>2 DEF JobSpares
<1> QED BY <1>5, <1>6, <1>9 DEF DataIsSafe

LEMMA DataMove ==
  ASSUME IInv, Sorted, DataIsSafe, NEW level \in 0 .. NumLevels - 2, NEW f \in levels[level],
         MoveTable(level, f)
  PROVE  DataIsSafe'
<1>1. PICK in0 : Replaces(level, in0, {}, in0) /\ job' = None
  BY MoveReplaces
<1>2. /\ Level' = Level /\ LastSequence' = LastSequence
      /\ levels'[level] = levels[level] \ in0
      /\ levels'[level + 1] = levels[level + 1] \cup in0
      /\ \A l \in Level : l # level /\ l # level + 1 => levels'[l] = levels[l]
      /\ in0 \subseteq levels[level]
      /\ UNCHANGED <<written, mem, imm, snapshots>>
  <2>1. /\ Level' = Level
        /\ levels'[level] = levels[level] \ in0
        /\ levels'[level + 1] = (levels[level + 1] \ {}) \cup in0
        /\ \A l \in Level : l # level /\ l # level + 1 => levels'[l] = levels[l]
    BY <1>1, ReplacedLevels
  <2>2. in0 \subseteq levels[level] /\ UNCHANGED <<written, mem, imm, snapshots>>
    BY <1>1 DEF Replaces
  <2>3. LastSequence' = LastSequence
    BY <2>2 DEF LastSequence
  <2> QED BY <2>1, <2>2, <2>3
<1>3. level \in Level /\ level + 1 \in Level /\ level + 1 # level /\ level + 1 # 0 /\ 0 \in Level
  BY UpperAndLower, StoredIsWritten DEF IInv, Types
<1>4. NewerByNumber'
  <2>1. levels'[0] \subseteq levels[0]
    BY <1>2, <1>3
  <2> QED BY <2>1 DEF DataIsSafe, NewerByNumber
<1>5. InTables' = InTables
  <2>1. ASSUME NEW x \in InTables PROVE x \in InTables'
    <3>1. PICK l \in Level : \E g \in levels[l] : x \in g.entries
      BY DEF InTables, EntriesOf
    <3>2. PICK g \in levels[l] : x \in g.entries
      BY <3>1
    <3>3. \E m \in Level : g \in levels'[m]
      BY <1>2, <1>3
    <3> QED BY <1>2, <3>2, <3>3 DEF InTables, EntriesOf
  <2>2. ASSUME NEW x \in InTables' PROVE x \in InTables
    <3>1. PICK l \in Level : \E g \in levels'[l] : x \in g.entries
      BY <1>2 DEF InTables, EntriesOf
    <3>2. PICK g \in levels'[l] : x \in g.entries
      BY <3>1
    <3>3. \E m \in Level : g \in levels[m]
      BY <1>2, <1>3
    <3> QED BY <3>2, <3>3 DEF InTables, EntriesOf
  <2> QED BY <2>1, <2>2
<1>6. NothingIsLost'
  <2>1. Stored' = Stored
    BY <1>2, <1>5 DEF Stored
  <2> QED BY <1>2, <2>1 DEF DataIsSafe, NothingIsLost
<1> QED BY <1>1, <1>4, <1>6 DEF DataIsSafe, JobSpares

LEMMA DataFinish ==
  ASSUME IInv, DataIsSafe, InputsAreWhole, FinishCompaction
  PROVE  DataIsSafe'
<1> DEFINE m == job.smallest
<1>1. /\ job.level \in 0 .. NumLevels - 2 /\ job # None /\ job' = None
      /\ Replaces(job.level, job.in0, job.in1, Outputs(job))
  BY FinishReplaces
<1>2. LastSequence' = LastSequence /\ UNCHANGED <<written, mem, imm, snapshots>>
  BY <1>1 DEF Replaces, LastSequence
<1>3. NewerByNumber'
  <2>1. /\ levels'[job.level] = levels[job.level] \ job.in0
        /\ levels'[job.level + 1] = (levels[job.level + 1] \ job.in1) \cup Outputs(job)
        /\ \A l \in Level : l # job.level /\ l # job.level + 1 => levels'[l] = levels[l]
    BY <1>1, ReplacedLevels
  <2>2. job.level + 1 # 0 /\ 0 \in Level
    BY <1>1, UpperAndLower, StoredIsWritten DEF IInv, Types
  <2>3. levels'[0] \subseteq levels[0]
    BY <2>1, <2>2
  <2> QED BY <2>3 DEF DataIsSafe, NewerByNumber
<1>4. /\ History(written) /\ Stored \in SUBSET written
      /\ LastSequence \in Nat /\ snapshots \in SUBSET Nat
  BY StoredIsWritten
<1>5. m \in Nat /\ \A s \in snapshots \cup {LastSequence} : m <= s
  BY <1>1 DEF DataIsSafe, JobSpares
<1>6. /\ Stored' \subseteq Stored
      /\ \A y \in Stored \ Stored' :
           \/ \E x \in Stored : x.key = y.key /\ y.seq < x.seq /\ x.seq <= m
           \/ y.del /\ y.seq <= m /\ \A z \in Stored' : z.key = y.key => y.seq < z.seq
  BY <1>2, MergeSpares DEF DataIsSafe, Stored
<1>7. NothingIsLost'
  <2>1. SUFFICES ASSUME NEW k \in Key, NEW s \in snapshots \cup {LastSequence}
                 PROVE  ValueOf(Newest(Stored', k, s)) = ValueOf(Newest(written, k, s))
    BY <1>2 DEF NothingIsLost
  <2>2. ValueOf(Newest(Stored, k, s)) = ValueOf(Newest(written, k, s))
    BY DEF DataIsSafe, NothingIsLost
  <2>3. \/ Newest(Stored', k, s) = Newest(Stored, k, s)
        \/ Newest(Stored', k, s) = {} /\ ValueOf(Newest(Stored, k, s)) = {}
    <3> DEFINE A == Stored
               B == Stored'
    <3>1. /\ s \in Nat /\ m \in Nat /\ m <= s
          /\ History(written) /\ A \in SUBSET written /\ B \in SUBSET A
          /\ \A y \in A \ B :
               \/ \E x \in A : x.key = y.key /\ y.seq < x.seq /\ x.seq <= m
               \/ y.del /\ y.seq <= m /\ \A z \in B : z.key = y.key => y.seq < z.seq
      BY <1>4, <1>5, <1>6
    <3> HIDE DEF A, B, m
    <3>2. \/ Newest(B, k, s) = Newest(A, k, s)
          \/ Newest(B, k, s) = {} /\ ValueOf(Newest(A, k, s)) = {}
      BY <3>1, NewestIsKept
    <3> QED BY <3>2 DEF A, B
  <2>4. ValueOf({}) = {}
    BY DEF ValueOf
  <2> QED BY <2>2, <2>3, <2>4
<1> QED BY <1>1, <1>3, <1>7 DEF DataIsSafe, JobSpares

LEMMA DataStep ==
  ASSUME IInv, DataIsSafe, InputsAreWhole, Next
  PROVE  DataIsSafe'
<1>1. Sorted
  BY DEF Next
<1>2. CASE \E k \in Key, del \in BOOLEAN : Add(k, del)
  BY <1>2, DataAdd
<1>3. CASE CompactMemTable
  BY <1>1, <1>3, DataFlush
<1>4. CASE FinishCompaction
  BY <1>4, DataFinish
<1>5. CASE \/ \E level \in 0 .. NumLevels - 2 : \E f \in levels[level] : PickCompaction(level, f)
           \/ CompactPiece
  BY <1>1, <1>5, DataJob
<1>6. CASE \E level \in 0 .. NumLevels - 2 : \E f \in levels[level] : MoveTable(level, f)
  BY <1>1, <1>6, DataMove
<1>7. CASE SwitchMemTable
  BY <1>7, DataStays DEF SwitchMemTable
<1>8. CASE \E r \in Ranges : CompactRange(r)
  BY <1>8, DataStays DEF CompactRange
<1>9. CASE LevelIsDone \/ GetSnapshot \/ \E s \in snapshots : ReleaseSnapshot(s)
  BY <1>9, DataStays DEF LevelIsDone, GetSnapshot, ReleaseSnapshot
<1> QED BY <1>2, <1>3, <1>4, <1>5, <1>6, <1>7, <1>8, <1>9 DEF Next

\* As long as no merge leaves out a table of the lower level that holds one of
\* its keys, every reader gets what was written last before its snapshot.
LEMMA DataHolds == Spec /\ []InputsAreWhole => []DataIsSafe
<1>1. IInv /\ DataIsSafe /\ InputsAreWhole /\ [Next]_vars => DataIsSafe'
  <2>1. ASSUME IInv, DataIsSafe, UNCHANGED vars PROVE DataIsSafe'
    <3>1. UNCHANGED <<written, levels, job, instance, snapshots, mem, imm>>
      BY <2>1 DEF vars
    <3> QED BY <2>1, <3>1, DataStays
  <2> QED BY <2>1, DataStep
<1> QED BY <1>1, DataInit, InvariantHolds, PTL DEF Spec

\* As long as no merge leaves a table out that has a key of its inputs, a read
\* finds what was written: the newest entry that its snapshot may see, whatever
\* was flushed, moved, merged and dropped meanwhile (Version::Get, DoCompactionWork).
THEOREM WholeMergesReadRight == Spec /\ []InputsAreWhole => []ReadsAreRight
<1>1. IInv /\ DataIsSafe => ReadsAreRight
  <2> SUFFICES ASSUME IInv, DataIsSafe, Sorted,
                      NEW k \in Key, NEW s \in snapshots \cup {LastSequence}
               PROVE  Get(k, s) = ValueOf(Newest(written, k, s))
    BY DEF ReadsAreRight
  <2>1. s \in Nat
    BY StoredIsWritten
  <2>2. Get(k, s) = ValueOf(Newest(Stored, k, s))
    BY <2>1, GetIsRight DEF DataIsSafe
  <2> QED BY <2>2 DEF DataIsSafe, NothingIsLost
<1> QED BY <1>1, DataHolds, InvariantHolds, PTL

\* As long as they are whole, a merge loses the newest entry of a key only when
\* that is a deletion, and then no entry of the key is left in any table.
THEOREM WholeMergesKeepTheNewest == Spec /\ []InputsAreWhole => MergesKeepTheNewest
<1> DEFINE Kept(k) ==
             LET Top(v) == Newest(UNION {EntriesOf(v[l]) : l \in Level}, k, LastSequence)
             IN  \/ Top(levels') = Top(levels)
                 \/ Top(levels') = {} /\ ValueOf(Top(levels)) = {}
<1>1. ASSUME IInv, DataIsSafe, InputsAreWhole, [Next]_vars, job # None, job' = None, NEW k \in Key
      PROVE  Kept(k)
  <2>1. FinishCompaction
    BY <1>1 DEF Next, vars, Add, SwitchMemTable, CompactMemTable, PickCompaction, MoveTable, CanCompact,
                CompactRange, CompactPiece, LevelIsDone, GetSnapshot, ReleaseSnapshot
  <2> DEFINE m == job.smallest
             s == LastSequence
             A == InTables
             B == UNION {EntriesOf(levels'[l]) : l \in Level}
  <2>2. /\ s \in Nat /\ m \in Nat /\ m <= s /\ History(written) /\ A \in SUBSET written
    BY <1>1, StoredIsWritten DEF DataIsSafe, JobSpares
  <2>3. Level' = Level
    BY <2>1 DEF FinishCompaction, Level, NumLevels
  <2>4. B = InTables'
    BY <2>3 DEF InTables
  <2>5. /\ B \in SUBSET A
        /\ \A y \in A \ B :
             \/ \E x \in A : x.key = y.key /\ y.seq < x.seq /\ x.seq <= m
             \/ y.del /\ y.seq <= m /\ \A z \in B : z.key = y.key => y.seq < z.seq
    <3>1. InTables' \subseteq Stored'
      BY DEF Stored
    <3>2. /\ InTables' \subseteq InTables
          /\ \A y \in InTables \ InTables' :
               \/ \E x \in InTables : x.key = y.key /\ y.seq < x.seq /\ x.seq <= job.smallest
               \/ /\ y.del /\ y.seq <= job.smallest
                  /\ \A z \in Stored' : z.key = y.key => y.seq < z.seq
      BY <1>1, <2>1, MergeSpares DEF DataIsSafe
    <3> HIDE DEF B
    <3> QED BY <2>4, <3>1, <3>2
  <2> HIDE DEF A, B, m, s
  <2>6. \/ Newest(B, k, s) = Newest(A, k, s)
        \/ Newest(B, k, s) = {} /\ ValueOf(Newest(A, k, s)) = {}
    BY <1>1, <2>2, <2>5, NewestIsKept
  <2> QED BY <2>6 DEF A, B, s, InTables
<1>2. ASSUME IInv, DataIsSafe, InputsAreWhole, [Next]_vars
      PROVE  [job # None /\ job' = None => \A k \in Key : Kept(k)]_vars
  BY <1>1, <1>2
<1> QED BY <1>2, DataHolds, InvariantHolds, PTL DEF Spec, MergesKeepTheNewest

-----------------------------------------------------------------------------
(* Without snapshots.                                                      *)

\* Of one key, a level below the first has entries in one table only, and a
\* merge may drop all of a key but its newest entry.
KeysTogether ==
  /\ \A l \in Level \ {0} : \A f, g \in levels[l] : f # g => ApartInKeys(f.entries, g.entries)
  /\ job # None => \A x \in Inputs(job) : x.seq <= job.smallest

LEMMA TogetherIsWhole ==
  ASSUME IInv, KeysTogether
  PROVE  InputsAreWhole
<1> SUFFICES ASSUME job # None, NEW f \in levels[job.level + 1] \ job.in1,
                    NEW e \in f.entries, NEW x \in EntriesOf(job.in1)
             PROVE  e.key # x.key
  BY DEF InputsAreWhole, ApartInKeys
<1>1. job.level \in 0 .. NumLevels - 2 /\ job.in1 \subseteq levels[job.level + 1]
  BY DEF IInv, JobIsSafe
<1>2. job.level + 1 \in Level \ {0}
  BY <1>1, UpperAndLower DEF IInv, Types
<1>3. PICK g \in job.in1 : x \in g.entries
  BY DEF EntriesOf
<1> QED BY <1>1, <1>2, <1>3 DEF KeysTogether, ApartInKeys

LEMMA ApartIsMutual ==
  ASSUME NEW A, NEW B, ApartInKeys(A, B)
  PROVE  ApartInKeys(B, A)
BY DEF ApartInKeys

LEMMA TogetherInit == Init => KeysTogether
BY DEF Init, KeysTogether

LEMMA TogetherStays ==
  ASSUME KeysTogether, UNCHANGED <<levels, job, instance>>
  PROVE  KeysTogether'
<1>1. Level' = Level /\ Inputs(job)' = Inputs(job)
  BY DEF Level, NumLevels, Inputs
<1> QED BY <1>1 DEF KeysTogether

LEMMA TogetherFlush ==
  ASSUME IInv, Sorted, KeysTogether, CompactMemTable
  PROVE  KeysTogether'
<1> DEFINE f == [number |-> next, entries |-> imm]
<1>1. f \in TableOf(written)
  BY FlushPlace
<1>2. PICK level \in Level :
        /\ levels' = [levels EXCEPT ![level] = levels[level] \cup {f}]
        /\ \A l \in Level : l <= level /\ level # 0 => \A g \in levels[l] : ~ Overlaps(g, Range1(f))
  BY FlushPlace
<1> HIDE DEF f
<1>3. job' = job /\ instance' = instance
  BY DEF CompactMemTable
<1>4. /\ Level' = Level /\ Inputs(job)' = Inputs(job) /\ level \in Nat
      /\ History(written) /\ \A l \in Level : levels[l] \in SUBSET TableOf(written)
      /\ DOMAIN levels = Level
      /\ \A e \in written : e.key \in Nat
  BY <1>3, StoredIsWritten DEF Level, NumLevels, Inputs, IInv, Types, TablesOK
<1>5. \A l \in Level : levels'[l] = IF l = level THEN levels[l] \cup {f} ELSE levels[l]
  BY <1>2, <1>4
<1>6. ASSUME NEW g \in levels[level], level # 0, NEW e \in g.entries, NEW x \in f.entries
      PROVE  e.key # x.key
  <2>1. ~ Overlaps(g, Range1(f)) /\ g \in TableOf(written)
    BY <1>2, <1>4, <1>6
  <2>2. /\ Range1(g).from <= e.key /\ e.key <= Range1(g).to /\ e \in written
        /\ Range1(f).from <= x.key /\ x.key <= Range1(f).to /\ x \in written
        /\ Range1(g).from \in Nat /\ Range1(g).to \in Nat
        /\ Range1(f).from \in Nat /\ Range1(f).to \in Nat
    BY <1>1, <1>4, <1>6, <2>1, TableFacts
  <2>3. e.key \in Nat /\ x.key \in Nat
    BY <1>4, <2>2
  <2> QED BY <2>1, <2>2, <2>3 DEF Overlaps
<1>7. ASSUME NEW l \in Level \ {0}, NEW g \in levels'[l], NEW h \in levels'[l], g # h
      PROVE  ApartInKeys(g.entries, h.entries)
  <2>1. CASE g \in levels[l] /\ h \in levels[l]
    BY <1>7, <2>1 DEF KeysTogether
  <2>2. CASE g = f \/ h = f
    <3>1. l = level \/ (g \in levels[l] /\ h \in levels[l])
      BY <1>5, <1>7
    <3>2. CASE l = level
      <4>1. (g = f \/ g \in levels[level]) /\ (h = f \/ h \in levels[level])
        BY <1>5, <3>2
      <4> QED BY <1>6, <1>7, <2>2, <3>2, <4>1 DEF ApartInKeys
    <3> QED BY <2>1, <3>1, <3>2
  <2> QED BY <1>5, <1>7, <2>1, <2>2
<1> QED BY <1>3, <1>4, <1>7 DEF KeysTogether

LEMMA TogetherJob ==
  ASSUME IInv, Sorted, KeysTogether, snapshots = {},
         \/ \E level \in 0 .. NumLevels - 2 : \E f \in levels[level] : PickCompaction(level, f)
         \/ CompactPiece
  PROVE  KeysTogether'
<1>1. PICK level \in 0 .. NumLevels - 2 : \E in0, in1 :
        Fitting(level, in0, in1) /\ job' = Job(level, in0, in1)
  BY JobBegins
<1>2. PICK in0, in1 : Fitting(level, in0, in1) /\ job' = Job(level, in0, in1)
  BY <1>1
<1>3. levels' = levels /\ instance' = instance
  BY JobBegins
<1>4. Level' = Level
  BY <1>3 DEF Level, NumLevels
<1>5. job'.smallest = LastSequence /\ job'.in0 = in0 /\ job'.in1 = in1
  BY <1>2 DEF Job, SmallestSnapshot
<1>6. /\ levels[level] \in SUBSET TableOf(written) /\ levels[level + 1] \in SUBSET TableOf(written)
      /\ \A x \in written : x.seq <= LastSequence
  BY UpperAndLower DEF IInv, Types
<1>7. in0 \cup in1 \in SUBSET TableOf(written)
  BY <1>2, <1>6 DEF Fitting
<1>8. Inputs(job)' \subseteq written
  BY <1>5, <1>7 DEF Inputs, EntriesOf, TableOf
<1> QED BY <1>3, <1>4, <1>5, <1>6, <1>8 DEF KeysTogether

LEMMA TogetherMove ==
  ASSUME IInv, Sorted, KeysTogether, NEW level \in 0 .. NumLevels - 2, NEW f \in levels[level],
         MoveTable(level, f)
  PROVE  KeysTogether'
<1>1. PICK in0 : Replaces(level, in0, {}, in0) /\ Fitting(level, in0, {}) /\ job' = None
                 /\ \E g : in0 = {g}
  BY MoveReplaces
<1>2. PICK g : in0 = {g}
  BY <1>1
<1>3. /\ Level' = Level
      /\ levels'[level] = levels[level] \ in0
      /\ levels'[level + 1] = (levels[level + 1] \ {}) \cup in0
      /\ \A l \in Level : l # level /\ l # level + 1 => levels'[l] = levels[l]
  BY <1>1, ReplacedLevels
<1>4. \A h \in levels[level + 1] : ApartInKeys(h.entries, g.entries)
  <2>1. \A h \in levels[level + 1] \ {} : ApartInKeys(h.entries, EntriesOf(in0))
    BY <1>1, FittingIsApart
  <2>2. EntriesOf(in0) = g.entries
    BY <1>2 DEF EntriesOf
  <2> QED BY <2>1, <2>2
<1>5. ASSUME NEW l \in Level \ {0}, NEW h \in levels'[l], NEW o \in levels'[l], h # o
      PROVE  ApartInKeys(h.entries, o.entries)
  <2>1. CASE h \in levels[l] /\ o \in levels[l]
    BY <1>5, <2>1 DEF KeysTogether
  <2>2. CASE ~(h \in levels[l] /\ o \in levels[l])
    <3>1. /\ l = level + 1
          /\ h = g \/ h \in levels[level + 1]
          /\ o = g \/ o \in levels[level + 1]
          /\ h = g \/ o = g
      BY <1>2, <1>3, <1>5, <2>2
    <3> QED BY <1>4, <1>5, <3>1, ApartIsMutual
  <2> QED BY <2>1, <2>2
<1> QED BY <1>1, <1>3, <1>5 DEF KeysTogether

LEMMA TogetherFinish ==
  ASSUME IInv, DataIsSafe, KeysTogether, FinishCompaction
  PROVE  KeysTogether'
<1> DEFINE L == job.level
           in0 == job.in0
           in1 == job.in1
           out == Outputs(job)
<1>1. /\ L \in 0 .. NumLevels - 2 /\ job # None /\ job' = None
      /\ Replaces(L, in0, in1, out)
      /\ SortedFiles(out)
      /\ Inputs(job) \subseteq written
  BY FinishReplaces
<1>2. /\ Level' = Level
      /\ levels'[L] = levels[L] \ in0
      /\ levels'[L + 1] = (levels[L + 1] \ in1) \cup out
      /\ \A l \in Level : l # L /\ l # L + 1 => levels'[l] = levels[l]
  BY <1>1, ReplacedLevels
<1>3. /\ \A f \in levels[L + 1] \ in1 :
           ApartInKeys(f.entries, EntriesOf(in0)) /\ ApartInKeys(f.entries, EntriesOf(in1))
      /\ \A x \in Inputs(job) : x.seq <= job.smallest
  BY <1>1, TogetherIsWhole DEF DataIsSafe, JobSpares, InputsAreWhole, KeysTogether
<1>4. /\ History(written) /\ \A e \in written : e.seq \in Nat
      /\ out \in SUBSET TableOf(written)
  BY <1>1, StoredIsWritten DEF Replaces
<1>5. Inputs(job) = EntriesOf(in0) \cup EntriesOf(in1)
  BY DEF Inputs, EntriesOf
<1>6. EntriesOf(out) = {e \in Inputs(job) : ~ IsDropped(job, e)}
  BY OutputsAre
<1> HIDE DEF L, in0, in1, out
<1>7. ASSUME NEW o \in out, NEW f \in levels[L + 1] \ in1
      PROVE  ApartInKeys(f.entries, o.entries)
  <2>1. o.entries \subseteq EntriesOf(in0) \cup EntriesOf(in1)
    <3>1. o.entries \subseteq EntriesOf(out)
      BY DEF EntriesOf
    <3> QED BY <1>5, <1>6, <3>1
  <2> QED BY <1>3, <2>1 DEF ApartInKeys
\* Of every key, the merge leaves one entry.
<1>8. ASSUME NEW o \in out, NEW p \in out, o # p, NEW e \in o.entries, NEW x \in p.entries,
             e.key = x.key
      PROVE  FALSE
  <2>1. e \in EntriesOf(out) /\ x \in EntriesOf(out)
    BY DEF EntriesOf
  <2>2. /\ e \in Inputs(job) /\ x \in Inputs(job) /\ e \in written /\ x \in written
        /\ ~ IsDropped(job, e) /\ ~ IsDropped(job, x)
    BY <1>1, <1>6, <2>1
  <2>3. e.seq \in Nat /\ x.seq \in Nat /\ e.seq <= job.smallest /\ x.seq <= job.smallest
    BY <1>3, <1>4, <2>2
  <2>4. ~(e.seq < x.seq) /\ ~(x.seq < e.seq)
    BY <1>8, <2>2, <2>3 DEF IsDropped
  <2>5. e = x
    BY <1>4, <2>2, <2>3, <2>4 DEF History
  <2>6. Before(e, x) \/ Before(x, e)
    <3>1. o \in TableOf(written) /\ p \in TableOf(written)
      BY <1>4
    <3>2. Before(Largest(o), Smallest(p)) \/ Before(Largest(p), Smallest(o))
      BY <1>1, <1>8 DEF SortedFiles, out
    <3>3. CASE Before(Largest(o), Smallest(p))
      BY <1>4, <3>1, <3>3, TablesInOrder
    <3>4. CASE Before(Largest(p), Smallest(o))
      BY <1>4, <3>1, <3>4, TablesInOrder
    <3> QED BY <3>2, <3>3, <3>4
  <2> QED BY <1>4, <2>2, <2>5, <2>6, BeforeIsOrder
<1>9. ASSUME NEW l \in Level \ {0}, NEW h \in levels'[l], NEW o \in levels'[l], h # o
      PROVE  ApartInKeys(h.entries, o.entries)
  <2>1. CASE h \in levels[l] /\ o \in levels[l]
    BY <1>9, <2>1 DEF KeysTogether
  <2>2. CASE ~(h \in levels[l] /\ o \in levels[l])
    <3>1. /\ h \in out \/ h \in levels[L + 1] \ in1
          /\ o \in out \/ o \in levels[L + 1] \ in1
          /\ h \in out \/ o \in out
      BY <1>2, <1>9, <2>2
    <3>2. CASE h \in out /\ o \in out
      BY <1>8, <1>9, <3>2 DEF ApartInKeys
    <3> QED BY <1>7, <3>1, <3>2, ApartIsMutual
  <2> QED BY <2>1, <2>2
<1> QED BY <1>1, <1>2, <1>9 DEF KeysTogether

LEMMA TogetherStep ==
  ASSUME IInv, DataIsSafe, KeysTogether, snapshots = {}, Next
  PROVE  KeysTogether'
<1>1. Sorted
  BY DEF Next
<1>2. CASE CompactMemTable
  BY <1>1, <1>2, TogetherFlush
<1>3. CASE FinishCompaction
  BY <1>3, TogetherFinish
<1>4. CASE \/ \E level \in 0 .. NumLevels - 2 : \E f \in levels[level] : PickCompaction(level, f)
           \/ CompactPiece
  BY <1>1, <1>4, TogetherJob
<1>5. CASE \E level \in 0 .. NumLevels - 2 : \E f \in levels[level] : MoveTable(level, f)
  BY <1>1, <1>5, TogetherMove
<1>6. CASE \/ \E k \in Key, del \in BOOLEAN : Add(k, del)
           \/ SwitchMemTable \/ \E r \in Ranges : CompactRange(r)
           \/ LevelIsDone \/ GetSnapshot \/ \E s \in snapshots : ReleaseSnapshot(s)
  <2>1. UNCHANGED <<levels, job, instance>>
    BY <1>6 DEF Add, SwitchMemTable, CompactRange, LevelIsDone, GetSnapshot, ReleaseSnapshot
  <2> QED BY <2>1, TogetherStays
<1> QED BY <1>2, <1>3, <1>4, <1>5, <1>6 DEF Next

\* Who takes no snapshots, as the app's wrapper of the engine does not, has
\* only merges that are whole.
THEOREM WithoutSnapshotsMergesAreWhole == Spec /\ [](snapshots = {}) => []InputsAreWhole
<1>1. Init => DataIsSafe /\ KeysTogether
  BY DataInit, TogetherInit
<1>2. ASSUME IInv, DataIsSafe, KeysTogether, snapshots = {}, [Next]_vars
      PROVE  DataIsSafe' /\ KeysTogether'
  <2>1. CASE Next
    BY <1>2, <2>1, TogetherIsWhole, DataStep, TogetherStep
  <2>2. CASE UNCHANGED vars
    <3>1. UNCHANGED <<written, levels, job, instance, snapshots, mem, imm>>
      BY <2>2 DEF vars
    <3> QED BY <1>2, <3>1, DataStays, TogetherStays
  <2> QED BY <1>2, <2>1, <2>2
<1>3. IInv /\ KeysTogether => InputsAreWhole
  BY TogetherIsWhole
<1> QED BY <1>1, <1>2, <1>3, InvariantHolds, PTL DEF Spec

\* So for the app both hold without a condition on merges: what it wrote last is
\* what it reads, and merges keep it.
THEOREM ReadsWithoutSnapshots ==
  Spec /\ [](snapshots = {}) => []ReadsAreRight /\ MergesKeepTheNewest
BY WithoutSnapshotsMergesAreWhole, WholeMergesReadRight, WholeMergesKeepTheNewest, PTL
=============================================================================
