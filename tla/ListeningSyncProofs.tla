------------------------ MODULE ListeningSyncProofs ------------------------
(***************************************************************************)
(* Proofs about ListeningSync, for any devices and bounds.                 *)
(*                                                                         *)
(* The invariant is that of RecordSyncProofs, said twice: of whether there *)
(* is a record, and of its position.  They are reported by different       *)
(* callbacks (ReportNames) and excused for different records (Doubts).     *)
(* For either the last callback under way tells what the client's cache    *)
(* has (CallsTell), and without one the device has what the cache has      *)
(* (AgreesOn).                                                             *)
(*                                                                         *)
(* That a restart brings the position back (SavedOK) needs to know that a  *)
(* device without records has none on its disk either: the first record of *)
(* an answer is made without being saved.                                  *)
(***************************************************************************)
EXTENDS ListeningSync, ProofBasics

-----------------------------------------------------------------------------
(* The inductive invariant.                                                *)

\* What is agreed on: whether there is a record, and its position.
Matters == {"record", "position"}

\* The callbacks that tell of it, and what they have to agree with.
ReportNames(what) ==
  IF what = "record" THEN {"didAdd", "didRemove"} ELSE {"didAdd", "didUpdate", "didRemove"}

Same(what, v, w) == IF what = "record" THEN (v = Gone <=> w = Gone) ELSE v = w

Reports(call, k, what) == call.name \in ReportNames(what) /\ call.key = k

IsReported(calls, k, what) == \E i \in DOMAIN calls : Reports(calls[i], k, what)

IsLastReport(calls, k, i, what) ==
  Reports(calls[i], k, what) /\ \A j \in DOMAIN calls : j > i => ~ Reports(calls[j], k, what)

\* The last report of a record under way tells what the cache has.
CallsTell(calls, cache) ==
  \A what \in Matters : \A k \in Key : \A i \in DOMAIN calls :
    IsLastReport(calls, k, i, what) => Same(what, calls[i].value, cache[k])

Doubts(x, what) == IF what = "record" THEN x.doubtful ELSE x.doubtful \cup x.stale

\* A record of which no report is under way is here as in the cache.
AgreesOn(x, k) ==
  \A what \in Matters :
    ~ IsReported(x.calls, k, what) /\ k \notin Doubts(x, what)
      => Same(what, x.records[k], x.cache[k])

\* The view context and the disk, with the records ms made so far.  What is on
\* the disk is never broken.
Whole(x, ms) ==
  /\ x \in DeviceState
  /\ Held(x.records) \cup Held(x.cache) \cup Held(x.disk.records) \subseteq ms
  /\ x.link \in Held(x.records) \cup {NoKey}
  /\ x.disk.link \in Held(x.disk.records) \cup {NoKey}
  /\ Held(x.disk.records) \subseteq {x.disk.link}

SavedOK(x) ==
  /\ Broken(x) = {} => \A k \in Held(x.records) \cap Held(x.disk.records) :
                         x.records[k] = x.disk.records[k]
  /\ Held(x.records) = {} => Held(x.disk.records) = {}

ContextOK(x, ms) == Whole(x, ms) /\ SavedOK(x)

CallOK(call, ms) ==
  /\ call.name \in ReportNames("position") =>
       call.key \in ms /\ (call.value = Gone <=> call.name = "didRemove")
  /\ call.name = "didGet" => Held(call.all) \subseteq ms

\* What is under way to the server and to the main thread.
QueuesOK(x, ms) ==
  /\ \A i \in DOMAIN x.out : x.out[i].key \in ms
  /\ \A i \in DOMAIN x.calls : CallOK(x.calls[i], ms)
  /\ x.observers + Cardinality(Connecting(x.calls)) <= MaxObservers

NothingReported(calls) == \A k \in Key : \A what \in Matters : ~ IsReported(calls, k, what)

\* What a client shows before it hears from the server ...
ClientHolds(x) ==
  /\ x.line = "up" => x.observers > 0
  /\ x.observers = 0 => x.cache = NoRecords /\ NothingReported(x.calls)
  /\ x.observers > 0 => Overlay(x.cache, x.out) = x.cache
  /\ CallsTell(x.calls, x.cache)

\* ... and with these records on the server.
ClientOK(x, records) ==
  ClientHolds(x) /\ (x.line = "up" => x.cache = Overlay(records, x.out))

Fits(x, records, ms) ==
  /\ ContextOK(x, ms) /\ QueuesOK(x, ms) /\ ClientOK(x, records)
  /\ \A k \in Key : AgreesOn(x, k)

IInv ==
  /\ instance \in Instances
  /\ server \in Records /\ made \in 0 .. MaxRecords /\ Held(server) \subseteq 1 .. made
  /\ ticks \in 0 .. MaxTicks /\ restarts \in 0 .. MaxRestarts
  /\ dev \in [Device -> DeviceState]
  /\ \A d \in Device : Fits(dev[d], server, 1 .. made)

-----------------------------------------------------------------------------
(* Bounds.                                                                 *)

LEMMA InstanceFacts ==
  ASSUME instance \in Instances
  PROVE  /\ MaxRecords \in Nat /\ MaxTicks \in Nat /\ MaxTime \in Nat /\ MaxObservers \in Nat
         /\ MaxRestarts \in Nat
BY ListeningSyncAssumption
   DEF MaxRecords, MaxTicks, MaxTime, MaxObservers, MaxRestarts

LEMMA KeyFacts ==
  ASSUME instance \in Instances
  PROVE  /\ IsFiniteSet(Key) /\ NoKey \notin Key
         /\ 0 \in Time /\ Gone \notin Time /\ Gone # 0 /\ NoRecords \in Records
<1>1. MaxRecords \in Nat /\ MaxTime \in Nat
  BY InstanceFacts
<1>2. IsFiniteSet(Key)
  BY <1>1, FS_Interval DEF Key
<1> QED BY <1>1, <1>2 DEF Key, NoKey, Time, Gone, NoRecords, Records

-----------------------------------------------------------------------------
(* Writes on their way.                                                    *)

About(out, k) == {i \in DOMAIN out : out[i].key = k}

\* The last of the writes about a record.
IsLast(i, S) == i \in S /\ \A j \in S : j <= i

LEMMA LastIsThere ==
  ASSUME NEW out \in Seq(WriteRecord), NEW k
  PROVE  About(out, k) = {} \/ \E i \in About(out, k) : IsLast(i, About(out, k))
<1>1. About(out, k) \in SUBSET (1 .. Len(out)) /\ Len(out) \in Nat
  BY DEF About
<1>2. About(out, k) # {} => IsLast(Max(About(out, k)), About(out, k))
  BY <1>1, MaxUpTo DEF IsLast
<1> QED BY <1>2 DEF IsLast

\* What the client shows of a record: what the last write about it says, or
\* what the server has.
LEMMA OverlayHas ==
  ASSUME NEW out \in Seq(WriteRecord), NEW records, NEW k \in Key
  PROVE  /\ About(out, k) = {} => Overlay(records, out)[k] = records[k]
         /\ \A i : IsLast(i, About(out, k)) => Overlay(records, out)[k] = out[i].value
<1>1. Overlay(records, out)[k]
        = IF About(out, k) = {} THEN records[k] ELSE out[Max(About(out, k))].value
  BY DEF Overlay, About
<1>2. ASSUME NEW i, IsLast(i, About(out, k)) PROVE Max(About(out, k)) = i
  <2>1. About(out, k) \in SUBSET (1 .. Len(out)) /\ Len(out) \in Nat /\ About(out, k) # {}
    BY <1>2 DEF About, IsLast
  <2>2. IsLast(Max(About(out, k)), About(out, k))
    BY <2>1, MaxUpTo DEF IsLast
  <2>3. i \in Nat /\ Max(About(out, k)) \in Nat
    BY <1>2, <2>1, <2>2 DEF IsLast
  <2>4. Max(About(out, k)) <= i /\ i <= Max(About(out, k))
    BY <1>2, <2>2 DEF IsLast
  <2> QED BY <2>3, <2>4
<1>3. \A i : IsLast(i, About(out, k)) => About(out, k) # {}
  BY DEF IsLast
<1> QED BY <1>1, <1>2, <1>3

LEMMA OverlayType ==
  ASSUME NEW out \in Seq(WriteRecord), NEW records \in Records
  PROVE  Overlay(records, out) \in Records
<1>1. ASSUME NEW k \in Key PROVE Overlay(records, out)[k] \in Time \cup {Gone}
  <2>1. CASE About(out, k) = {}
    BY <2>1, OverlayHas DEF Records
  <2>2. CASE About(out, k) # {}
    <3>1. PICK i \in About(out, k) : IsLast(i, About(out, k))
      BY <2>2, LastIsThere
    <3>2. out[i] \in WriteRecord
      BY DEF About
    <3>4. out[i].value \in Time \cup {Gone}
      BY <3>2 DEF WriteRecord
    <3>3. Overlay(records, out)[k] = out[i].value
      BY <3>1, OverlayHas
    <3> QED BY <3>3, <3>4
  <2> QED BY <2>1, <2>2
<1>2. Overlay(records, out) = [k \in Key |-> Overlay(records, out)[k]]
  BY DEF Overlay
<1> QED BY <1>1, <1>2 DEF Records

\* Nothing but the server's records and what was written is shown.
LEMMA OverlayWithin ==
  ASSUME NEW out \in Seq(WriteRecord), NEW records \in Records, NEW ms,
         Held(records) \subseteq ms, \A i \in DOMAIN out : out[i].key \in ms
  PROVE  Held(Overlay(records, out)) \subseteq ms
<1> SUFFICES ASSUME NEW k \in Key, Overlay(records, out)[k] # Gone, k \notin ms PROVE FALSE
  BY DEF Held
<1>1. About(out, k) = {}
  BY DEF About
<1> QED BY <1>1, OverlayHas DEF Held

\* Showing twice what was written makes no difference.
LEMMA OverlayTwice ==
  ASSUME NEW out \in Seq(WriteRecord), NEW records \in Records
  PROVE  Overlay(Overlay(records, out), out) = Overlay(records, out)
<1> DEFINE once == Overlay(records, out)
<1>1. once \in Records /\ Overlay(once, out) \in Records
  BY OverlayType
<1>2. ASSUME NEW k \in Key PROVE Overlay(once, out)[k] = once[k]
  <2>1. CASE About(out, k) = {}
    BY <2>1, OverlayHas
  <2>2. CASE About(out, k) # {}
    <3>1. PICK i \in About(out, k) : IsLast(i, About(out, k))
      BY <2>2, LastIsThere
    <3> HIDE DEF once
    <3>2. Overlay(once, out)[k] = out[i].value
      BY <3>1, OverlayHas
    <3>3. once[k] = out[i].value
      BY <3>1, OverlayHas DEF once
    <3> QED BY <3>2, <3>3
  <2> QED BY <2>1, <2>2
<1> HIDE DEF once
<1> QED BY <1>1, <1>2 DEF Records, once

\* One more write.
LEMMA OverlayAppend ==
  ASSUME NEW out \in Seq(WriteRecord), NEW records \in Records, NEW w \in WriteRecord
  PROVE  Overlay(records, Append(out, w)) = Applied(Overlay(records, out), w)
<1> DEFINE new == Append(out, w)
           n == Len(out) + 1
           old == Overlay(records, out)
<1>1. /\ new \in Seq(WriteRecord) /\ n \in DOMAIN new /\ new[n] = w
      /\ DOMAIN new = DOMAIN out \cup {n} /\ n \notin DOMAIN out
      /\ \A i \in DOMAIN out : new[i] = out[i] /\ n > i /\ i \in Nat
      /\ n \in Nat
  OBVIOUS
<1>2. old \in Records
  BY OverlayType
<1> HIDE DEF new, n, old
<1>3. \A k : About(new, k) = IF k = w.key THEN About(out, k) \cup {n} ELSE About(out, k)
  BY <1>1 DEF About
<1>4. Overlay(records, new) \in Records /\ Applied(old, w) \in Records
  BY <1>1, <1>2, OverlayType DEF Applied, Records, WriteRecord
<1>5. ASSUME NEW k \in Key PROVE Overlay(records, new)[k] = Applied(old, w)[k]
  <2>1. CASE k = w.key
    <3>1. IsLast(n, About(new, k))
      BY <1>1, <1>3, <2>1 DEF IsLast, About
    <3>2. Overlay(records, new)[k] = w.value
      BY <3>1, <1>1, OverlayHas
    <3> QED BY <3>2, <2>1, <1>2 DEF Applied, Records
  <2>2. CASE k # w.key
    <3>1. Applied(old, w)[k] = old[k]
      BY <2>2, <1>2 DEF Applied, Records
    <3>2. About(new, k) = About(out, k)
      BY <1>3, <2>2
    <3>3. CASE About(out, k) = {}
      BY <3>1, <3>2, <3>3, <1>1, OverlayHas DEF old
    <3>4. CASE About(out, k) # {}
      <4>1. PICK i \in About(out, k) : IsLast(i, About(out, k))
        BY <3>4, LastIsThere
      <4>2. old[k] = out[i].value
        BY <4>1, OverlayHas DEF old
      <4>3. Overlay(records, new)[k] = new[i].value
        BY <4>1, <3>2, <1>1, OverlayHas
      <4>4. new[i] = out[i]
        BY <1>1 DEF About
      <4> QED BY <3>1, <4>2, <4>3, <4>4
    <3> QED BY <3>3, <3>4
  <2> QED BY <2>1, <2>2
<1> QED BY <1>4, <1>5 DEF Records, new, old

\* What shows the writes already shows those that are left.
LEMMA OverlayTail ==
  ASSUME NEW out \in Seq(WriteRecord), out # <<>>, NEW records \in Records,
         Overlay(records, out) = records
  PROVE  Overlay(records, Tail(out)) = records
<1> DEFINE rest == Tail(out)
<1>1. /\ rest \in Seq(WriteRecord)
      /\ \A i \in DOMAIN rest : i + 1 \in DOMAIN out /\ rest[i] = out[i + 1]
      /\ \A i \in DOMAIN out : i > 1 => i - 1 \in DOMAIN rest /\ rest[i - 1] = out[i]
      /\ \A i \in DOMAIN rest : i \in Int /\ i >= 1
      /\ \A i \in DOMAIN out : i \in Int /\ i >= 1
  <2>1. rest \in Seq(WriteRecord) /\ Len(rest) = Len(out) - 1 /\ Len(out) \in Nat
    OBVIOUS
  <2>2. DOMAIN rest = 1 .. Len(out) - 1 /\ DOMAIN out = 1 .. Len(out)
    BY <2>1
  <2>3. \A i \in 1 .. Len(out) - 1 : rest[i] = out[i + 1]
    OBVIOUS
  <2> HIDE DEF rest
  <2>4. \A i \in 2 .. Len(out) : rest[i - 1] = out[i]
    <3> SUFFICES ASSUME NEW i \in 2 .. Len(out) PROVE rest[i - 1] = out[i]
      OBVIOUS
    <3>1. i - 1 \in 1 .. Len(out) - 1 /\ (i - 1) + 1 = i
      BY <2>1
    <3> QED BY <3>1, <2>3
  <2> QED BY <2>1, <2>2, <2>3, <2>4
<1> HIDE DEF rest
<1>2. Overlay(records, rest) \in Records
  BY <1>1, OverlayType
<1>3. ASSUME NEW k \in Key PROVE Overlay(records, rest)[k] = records[k]
  <2>1. CASE About(rest, k) = {}
    BY <2>1, <1>1, OverlayHas
  <2>2. CASE About(rest, k) # {}
    <3>1. PICK i \in About(rest, k) : IsLast(i, About(rest, k))
      BY <2>2, <1>1, LastIsThere
    <3>2. i \in DOMAIN rest /\ rest[i].key = k
      BY DEF About
    <3>3. i + 1 \in About(out, k) /\ rest[i] = out[i + 1]
      BY <3>2, <1>1 DEF About
    <3>4. ASSUME NEW j \in About(out, k) PROVE j <= i + 1
      <4>1. CASE j > 1
        <5>1. j - 1 \in DOMAIN rest /\ rest[j - 1] = out[j] /\ out[j].key = k
          BY <1>1, <4>1 DEF About
        <5>2. j - 1 <= i
          BY <5>1, <3>1 DEF IsLast, About
        <5> QED BY <5>2, <3>2, <1>1 DEF About
      <4>2. CASE ~(j > 1)
        BY <4>2, <3>2, <1>1 DEF About
      <4> QED BY <4>1, <4>2
    <3>5. IsLast(i + 1, About(out, k))
      BY <3>3, <3>4 DEF IsLast
    <3>6. Overlay(records, out)[k] = out[i + 1].value
      BY <3>5, OverlayHas
    <3>7. Overlay(records, rest)[k] = rest[i].value
      BY <3>1, <1>1, OverlayHas
    <3> QED BY <3>3, <3>6, <3>7
  <2> QED BY <2>1, <2>2
<1> QED BY <1>2, <1>3 DEF Records, rest

-----------------------------------------------------------------------------
(* Callbacks on their way.                                                 *)

CallOf(name, k, records) == [name |-> name, key |-> k, value |-> records[k]]

\* Every observer is told of every record in S, and of nothing else.
TellOf(calls, n, name, S, records) ==
  /\ calls \in Seq({CallOf(name, k, records) : k \in S})
  /\ n > 0 => \A k \in S : \E i \in DOMAIN calls : calls[i] = CallOf(name, k, records)

LEMMA CallsForFacts ==
  ASSUME NEW n \in Nat, NEW name, NEW S, IsFiniteSet(S), NEW records
  PROVE  TellOf(CallsFor(n, name, S, records), n, name, S, records)
<1> DEFINE order == SetToSeq(S)
           calls == CallsFor(n, name, S, records)
           call(i) == CallOf(name, order[1 + (i - 1) \div n], records)
           R == {CallOf(name, k, records) : k \in S}
<1>1. order \in Seq(S) /\ \A k \in S : \E i \in 1 .. Len(order) : order[i] = k
  BY OrderOf
<1>2. calls = [i \in 1 .. n * Len(order) |-> call(i)]
  BY DEF CallsFor, CallOf
<1> HIDE DEF order, calls
<1>3. n * Len(order) \in Nat
  BY <1>1
<1>4. CASE n = 0
  <2>1. 1 .. n * Len(order) = {}
    BY <1>1, <1>4
  <2>2. calls = <<>>
    BY <1>2, <2>1
  <2> QED BY <2>2, <1>4 DEF calls, TellOf
<1>5. CASE n > 0
  <2>1. ASSUME NEW i \in 1 .. n * Len(order) PROVE 1 + (i - 1) \div n \in 1 .. Len(order)
    <3>1. i - 1 \in Nat /\ i - 1 < n * Len(order) /\ Len(order) \in Nat
      BY <1>1, <1>3
    <3> DEFINE q == (i - 1) \div n
    <3>2. q \in Nat /\ n * q <= i - 1
      BY <3>1, <1>5
    <3> HIDE DEF q
    <3>3. n * q < n * Len(order)
      BY <3>1, <3>2, <1>3
    <3>4. q < Len(order)
      BY <3>1, <3>2, <3>3, <1>5
    <3> QED BY <3>2, <3>4, <3>1 DEF q
  <2>2. \A i \in 1 .. n * Len(order) : call(i) \in R
    <3> SUFFICES ASSUME NEW i \in 1 .. n * Len(order) PROVE call(i) \in R
      OBVIOUS
    <3>1. order[1 + (i - 1) \div n] \in S
      BY <1>1, <2>1
    <3> QED BY <3>1
  <2>3. calls \in Seq(R)
    <3> DEFINE m == n * Len(order)
    <3>1. m \in Nat /\ calls = [i \in 1 .. m |-> call(i)] /\ \A i \in 1 .. m : call(i) \in R
      BY <1>2, <1>3, <2>2
    <3> HIDE DEF call, m, R
    <3> QED BY <3>1
  <2>4. ASSUME NEW k \in S PROVE \E i \in DOMAIN calls : calls[i] = CallOf(name, k, records)
    <3>1. PICK j \in 1 .. Len(order) : order[j] = k
      BY <1>1
    <3> DEFINE l == n * (j - 1)
               i == 1 + l
    <3>2. j - 1 \in Nat /\ j - 1 <= Len(order) - 1 /\ Len(order) \in Nat
      BY <1>1
    <3>3. l \in Nat /\ l \div n = j - 1
      BY <3>2, <1>5
    <3>4. l <= n * (Len(order) - 1)
      BY <3>2, <1>5
    <3>5. n * (Len(order) - 1) = n * Len(order) - n
      BY <3>2, <1>5
    <3> HIDE DEF l
    <3>6. i \in 1 .. n * Len(order) /\ i - 1 = l
      BY <3>3, <3>4, <3>5, <1>3, <1>5
    <3> HIDE DEF i
    <3>7. 1 + (i - 1) \div n = j
      BY <3>6, <3>3, <3>2
    <3>8. calls[i] = call(i)
      BY <3>6, <1>2
    <3>9. call(i) = CallOf(name, k, records)
      BY <3>7, <3>1
    <3> QED BY <3>6, <3>8, <3>9, <1>2
  <2> QED BY <2>3, <2>4 DEF calls, TellOf
<1> QED BY <1>4, <1>5 DEF calls

\* A callback that tells of a record what is so.
Tells(call, old, new) ==
  /\ call.name \in ReportNames("position")
  /\ call.key \in Held(old) \cup Held(new)
  /\ call.value = new[call.key]
  /\ call.value = Gone <=> call.name = "didRemove"

\* Callbacks that tell of changed records what is so, and of the others nothing.
TellsChange(r, old, new) ==
  /\ r \in Seq(Call)
  /\ \A i \in DOMAIN r : Tells(r[i], old, new)
  /\ \A k \in Key : \A what \in Matters :
       ~ IsReported(r, k, what) => Same(what, old[k], new[k])

\* Such callbacks, about the records in S only.
TellsPart(r, name, S, old, new) ==
  /\ r \in Seq(Call)
  /\ \A i \in DOMAIN r : Tells(r[i], old, new)
  /\ \A k \in S : \E i \in DOMAIN r : r[i].name = name /\ r[i].key = k

LEMMA PartFacts ==
  ASSUME NEW n \in Nat, n > 0, NEW old \in Records, NEW new \in Records,
         IsFiniteSet(Key), NEW name \in {"didAdd", "didUpdate", "didRemove"},
         NEW S \in SUBSET (Held(old) \cup Held(new)),
         \A k \in S : new[k] = Gone <=> name = "didRemove"
  PROVE  TellsPart(CallsFor(n, name, S, new), name, S, old, new)
<1> DEFINE r == CallsFor(n, name, S, new)
           R == {CallOf(name, k, new) : k \in S}
<1>1. IsFiniteSet(S) /\ S \subseteq Key
  BY FS_Subset DEF Held
<1>2. TellOf(r, n, name, S, new)
  BY <1>1, CallsForFacts
<1> HIDE DEF r
<1>3. \A c \in R : c \in Call /\ Tells(c, old, new)
  BY <1>1 DEF CallOf, Call, Records, Tells, ReportNames
<1>4. r \in Seq(R)
  BY <1>2 DEF TellOf
<1> HIDE DEF R
<1>5. r \in Seq(Call) /\ \A i \in DOMAIN r : Tells(r[i], old, new)
  BY <1>3, <1>4
<1>6. \A k \in S : \E i \in DOMAIN r : r[i] = CallOf(name, k, new)
  BY <1>2 DEF TellOf
<1>7. \A k \in S : \E i \in DOMAIN r : r[i].name = name /\ r[i].key = k
  BY <1>6 DEF CallOf
<1> QED BY <1>5, <1>7 DEF TellsPart, r

LEMMA PartsTogether ==
  ASSUME NEW s, NEW r, NEW a, NEW b, NEW S, NEW T, NEW old, NEW new,
         TellsPart(s, a, S, old, new), TellsPart(r, b, T, old, new)
  PROVE  TellsPart(s \o r, a, S, old, new) /\ TellsPart(s \o r, b, T, old, new)
<1>1. s \in Seq(Call) /\ r \in Seq(Call)
  BY DEF TellsPart
<1>2. s \o r \in Seq(Call) /\ IsMadeOf(s \o r, s, r)
  BY <1>1, ConcatHas
<1> DEFINE t == s \o r
<1> HIDE DEF t
<1>3. \A i \in DOMAIN t : Tells(t[i], old, new)
  BY <1>2 DEF TellsPart, IsMadeOf, t
<1>4. \A k \in S : \E i \in DOMAIN t : t[i].name = a /\ t[i].key = k
  BY <1>2 DEF TellsPart, IsMadeOf, t
<1>5. \A k \in T : \E i \in DOMAIN t : t[i].name = b /\ t[i].key = k
  BY <1>2 DEF TellsPart, IsMadeOf, t
<1> QED BY <1>2, <1>3, <1>4, <1>5 DEF TellsPart, t

LEMMA RaisedTells ==
  ASSUME NEW n \in Nat, n > 0, NEW old \in Records, NEW new \in Records, IsFiniteSet(Key)
  PROVE  TellsChange(Raised(n, old, new), old, new)
<1> DEFINE went == Held(old) \ Held(new)
           came == Held(new) \ Held(old)
           changed == {k \in Held(old) \cap Held(new) : old[k] # new[k]}
           a == CallsFor(n, "didRemove", went, new)
           b == CallsFor(n, "didAdd", came, new)
           c == CallsFor(n, "didUpdate", changed, new)
           r == Raised(n, old, new)
<1>1. r = a \o b \o c
  BY DEF Raised
<1>2. /\ \A k \in went : new[k] = Gone <=> "didRemove" = "didRemove"
      /\ \A k \in came : new[k] = Gone <=> "didAdd" = "didRemove"
      /\ \A k \in changed : new[k] = Gone <=> "didUpdate" = "didRemove"
      /\ went \in SUBSET (Held(old) \cup Held(new)) /\ came \in SUBSET (Held(old) \cup Held(new))
      /\ changed \in SUBSET (Held(old) \cup Held(new))
  BY DEF Held
<1>3. \A k \in Key :
        /\ k \notin went \cup came => Same("record", old[k], new[k])
        /\ k \notin went \cup came \cup changed => Same("position", old[k], new[k])
  BY DEF Held, Same
<1> HIDE DEF went, came, changed, r
<1>4. TellsPart(a, "didRemove", went, old, new)
  BY <1>2, PartFacts
<1>5. TellsPart(b, "didAdd", came, old, new)
  BY <1>2, PartFacts
<1>6. TellsPart(c, "didUpdate", changed, old, new)
  BY <1>2, PartFacts
<1> HIDE DEF a, b, c
<1>7. TellsPart(a \o b, "didRemove", went, old, new) /\ TellsPart(a \o b, "didAdd", came, old, new)
  BY <1>4, <1>5, PartsTogether
<1>8. /\ TellsPart(r, "didRemove", went, old, new) /\ TellsPart(r, "didUpdate", changed, old, new)
      /\ TellsPart(r, "didAdd", came, old, new)
  BY <1>1, <1>6, <1>7, PartsTogether
<1>9. ASSUME NEW k \in Key, NEW what \in Matters, ~ IsReported(r, k, what)
      PROVE  Same(what, old[k], new[k])
  <2>1. k \notin went \cup came
    BY <1>8, <1>9 DEF TellsPart, IsReported, Reports, ReportNames, Matters
  <2>2. CASE what = "record"
    BY <2>1, <2>2, <1>3
  <2>3. CASE what = "position"
    <3>1. k \notin changed
      BY <1>8, <1>9, <2>3 DEF TellsPart, IsReported, Reports, ReportNames
    <3> QED BY <2>1, <2>3, <3>1, <1>3
  <2> QED BY <2>2, <2>3 DEF Matters
<1> QED BY <1>8, <1>9 DEF TellsChange, TellsPart, r

LEMMA ReportsIn ==
  ASSUME NEW s \in Seq(Call), NEW r \in Seq(Call), NEW k, NEW what
  PROVE  IsReported(s \o r, k, what) <=> IsReported(s, k, what) \/ IsReported(r, k, what)
<1>1. IsMadeOf(s \o r, s, r)
  BY ConcatHas
<1> DEFINE t == s \o r
<1> HIDE DEF t
<1>2. IsReported(t, k, what) => IsReported(s, k, what) \/ IsReported(r, k, what)
  BY <1>1 DEF IsReported, IsMadeOf, t
<1>3. IsReported(s, k, what) => IsReported(t, k, what)
  BY <1>1 DEF IsReported, IsMadeOf, t
<1>4. IsReported(r, k, what) => IsReported(t, k, what)
  BY <1>1 DEF IsReported, IsMadeOf, t
<1> QED BY <1>2, <1>3, <1>4 DEF t

\* Having the same is like being equal.
LEMMA SameFacts ==
  ASSUME NEW what
  PROVE  /\ \A v : Same(what, v, v)
         /\ \A v, w : Same(what, v, w) => Same(what, w, v)
         /\ \A u, v, w : Same(what, u, v) /\ Same(what, v, w) => Same(what, u, w)
BY DEF Same

\* The callbacks go on telling what the cache has.
LEMMA CallsGoOnTelling ==
  ASSUME NEW s \in Seq(Call), NEW old, NEW new, NEW r, TellsChange(r, old, new),
         CallsTell(s, old)
  PROVE  CallsTell(s \o r, new)
<1> DEFINE t == s \o r
<1>0. r \in Seq(Call)
  BY DEF TellsChange
<1>1. /\ Len(t) = Len(s) + Len(r) /\ Len(s) \in Nat /\ Len(r) \in Nat
      /\ DOMAIN t = 1 .. Len(t) /\ DOMAIN s = 1 .. Len(s) /\ DOMAIN r = 1 .. Len(r)
      /\ \A i \in 1 .. Len(s) : t[i] = s[i]
      /\ \A i \in 1 .. Len(r) : t[i + Len(s)] = r[i]
      /\ \A i \in 1 .. Len(t) : i > Len(s) => t[i] = r[i - Len(s)]
  BY <1>0
<1> HIDE DEF t
<1> SUFFICES ASSUME NEW what \in Matters, NEW k \in Key, NEW i \in DOMAIN t,
                    IsLastReport(t, k, i, what)
             PROVE  Same(what, t[i].value, new[k])
  BY DEF CallsTell, t
<1>2. CASE i <= Len(s)
  <2>1. i \in DOMAIN s /\ s[i] = t[i]
    BY <1>2, <1>1
  <2>2. \A j \in DOMAIN s : j > i => ~ Reports(s[j], k, what)
    <3> SUFFICES ASSUME NEW j \in DOMAIN s, j > i PROVE ~ Reports(s[j], k, what)
      OBVIOUS
    <3>1. j \in DOMAIN t /\ t[j] = s[j]
      BY <1>1
    <3> QED BY <3>1 DEF IsLastReport
  <2>3. IsLastReport(s, k, i, what)
    BY <2>1, <2>2 DEF IsLastReport
  <2>4. Same(what, s[i].value, old[k])
    BY <2>1, <2>3 DEF CallsTell
  <2>5. ~ IsReported(r, k, what)
    <3> SUFFICES ASSUME NEW j \in DOMAIN r PROVE ~ Reports(r[j], k, what)
      BY DEF IsReported
    <3>1. j + Len(s) \in DOMAIN t /\ t[j + Len(s)] = r[j] /\ j + Len(s) > i
      BY <1>1, <1>2
    <3> QED BY <3>1 DEF IsLastReport
  <2>6. Same(what, old[k], new[k])
    BY <2>5 DEF TellsChange
  <2>7. Same(what, s[i].value, new[k])
    BY <2>4, <2>6, SameFacts
  <2> QED BY <2>1, <2>7
<1>3. CASE i > Len(s)
  <2>1. i - Len(s) \in DOMAIN r /\ r[i - Len(s)] = t[i]
    BY <1>3, <1>1
  <2>2. Tells(t[i], old, new)
    BY <2>1 DEF TellsChange
  <2>3. t[i].value = new[k]
    BY <2>2 DEF IsLastReport, Reports, Tells
  <2> QED BY <2>3, SameFacts
<1> QED BY <1>1, <1>2, <1>3

\* A callback that reports nothing.
LEMMA QuietAppend ==
  ASSUME NEW s \in Seq(Call), NEW c \in Call, c.name \notin ReportNames("position"), NEW cache,
         CallsTell(s, cache)
  PROVE  /\ CallsTell(Append(s, c), cache)
         /\ \A k : \A what \in Matters : IsReported(Append(s, c), k, what) <=> IsReported(s, k, what)
<1> DEFINE t == Append(s, c)
<1>1. /\ DOMAIN t = DOMAIN s \cup {Len(s) + 1} /\ t[Len(s) + 1] = c
      /\ \A i \in DOMAIN s : t[i] = s[i]
  OBVIOUS
<1>2. \A k : \A what \in Matters : ~ Reports(c, k, what)
  BY DEF Reports, ReportNames, Matters
<1> HIDE DEF t
<1>3. \A k : \A what \in Matters : IsReported(t, k, what) <=> IsReported(s, k, what)
  BY <1>1, <1>2 DEF IsReported
<1>4. CallsTell(t, cache)
  BY <1>1, <1>2 DEF CallsTell, IsLastReport
<1> QED BY <1>3, <1>4 DEF t

\* The first callback is taken away.
LEMMA TailReports ==
  ASSUME NEW s \in Seq(Call), s # <<>>, NEW cache, CallsTell(s, cache), NEW what \in Matters
  PROVE  /\ \A k : IsReported(Tail(s), k, what) => IsReported(s, k, what)
         /\ \A k : IsReported(s, k, what) => IsReported(Tail(s), k, what) \/ Reports(Head(s), k, what)
         /\ \A k \in Key : Reports(Head(s), k, what) /\ ~ IsReported(Tail(s), k, what) =>
                             Same(what, Head(s).value, cache[k])
         /\ CallsTell(Tail(s), cache)
<1> DEFINE t == Tail(s)
<1>1. /\ t \in Seq(Call) /\ Len(s) \in Nat /\ Len(s) > 0 /\ Head(s) = s[1]
      /\ DOMAIN t = 1 .. Len(s) - 1 /\ DOMAIN s = 1 .. Len(s)
      /\ \A i \in 1 .. Len(s) - 1 : t[i] = s[i + 1]
  OBVIOUS
<1> HIDE DEF t
<1>2. ASSUME NEW j \in 1 .. Len(s), j # 1
      PROVE  j - 1 \in 1 .. Len(s) - 1 /\ (j - 1) + 1 = j /\ t[j - 1] = s[j]
  <2>1. j - 1 \in 1 .. Len(s) - 1 /\ (j - 1) + 1 = j
    BY <1>1, <1>2
  <2> QED BY <2>1, <1>1
<1>3. ASSUME NEW k, NEW i \in DOMAIN t, NEW w, IsLastReport(t, k, i, w)
      PROVE  IsLastReport(s, k, i + 1, w)
  <2>1. Reports(s[i + 1], k, w)
    BY <1>1, <1>3 DEF IsLastReport
  <2>2. ASSUME NEW j \in DOMAIN s, j > i + 1 PROVE ~ Reports(s[j], k, w)
    <3>1. j # 1 /\ j - 1 > i
      BY <1>1, <2>2
    <3>2. j - 1 \in DOMAIN t /\ t[j - 1] = s[j]
      BY <3>1, <1>1, <1>2
    <3> QED BY <3>1, <3>2, <1>3 DEF IsLastReport
  <2> QED BY <2>1, <2>2 DEF IsLastReport
<1>4. CallsTell(t, cache)
  <2> SUFFICES ASSUME NEW w \in Matters, NEW k \in Key, NEW i \in DOMAIN t, IsLastReport(t, k, i, w)
               PROVE  Same(w, t[i].value, cache[k])
    BY DEF CallsTell
  <2>1. i + 1 \in DOMAIN s /\ t[i] = s[i + 1]
    BY <1>1
  <2>2. IsLastReport(s, k, i + 1, w)
    BY <1>3
  <2> QED BY <2>1, <2>2 DEF CallsTell
<1>5. ASSUME NEW k, IsReported(t, k, what) PROVE IsReported(s, k, what)
  <2>1. PICK i \in DOMAIN t : Reports(t[i], k, what)
    BY <1>5 DEF IsReported
  <2>2. i + 1 \in DOMAIN s /\ t[i] = s[i + 1]
    BY <1>1
  <2> QED BY <2>1, <2>2 DEF IsReported
<1>6. ASSUME NEW k, IsReported(s, k, what), ~ Reports(Head(s), k, what)
      PROVE  IsReported(t, k, what)
  <2>1. PICK j \in DOMAIN s : Reports(s[j], k, what)
    BY <1>6 DEF IsReported
  <2>2. j # 1
    BY <2>1, <1>1, <1>6
  <2>3. j - 1 \in DOMAIN t /\ t[j - 1] = s[j]
    BY <1>1, <1>2, <2>2
  <2> QED BY <2>1, <2>3 DEF IsReported
<1>7. ASSUME NEW k \in Key, Reports(Head(s), k, what), ~ IsReported(t, k, what)
      PROVE  Same(what, Head(s).value, cache[k])
  <2>1. ASSUME NEW j \in DOMAIN s, j > 1 PROVE ~ Reports(s[j], k, what)
    <3>1. j - 1 \in DOMAIN t /\ t[j - 1] = s[j]
      BY <1>1, <1>2, <2>1
    <3> QED BY <3>1, <1>7 DEF IsReported
  <2>2. 1 \in DOMAIN s /\ IsLastReport(s, k, 1, what)
    BY <1>1, <1>7, <2>1 DEF IsLastReport
  <2> QED BY <2>2, <1>1 DEF CallsTell
<1> QED BY <1>4, <1>5, <1>6, <1>7 DEF t

\* If a record was reported, then at last, too.
LEMMA LastReportIsThere ==
  ASSUME NEW s \in Seq(Call), NEW k, NEW what, IsReported(s, k, what)
  PROVE  \E i \in DOMAIN s : IsLastReport(s, k, i, what)
<1> DEFINE S == {i \in DOMAIN s : Reports(s[i], k, what)}
<1>1. S \in SUBSET (1 .. Len(s)) /\ Len(s) \in Nat /\ S # {}
  BY DEF IsReported
<1>2. PICK m \in S : \A i \in S : i <= m
  <2> HIDE DEF S
  <2> QED BY <1>1, MaxUpTo
<1>3. m \in DOMAIN s /\ Reports(s[m], k, what) /\ m \in Nat
  BY <1>1
<1>4. ASSUME NEW j \in DOMAIN s, j > m PROVE ~ Reports(s[j], k, what)
  <2>1. j \notin S
    BY <1>1, <1>2, <1>3, <1>4
  <2> QED BY <2>1
<1> QED BY <1>3, <1>4 DEF IsLastReport

-----------------------------------------------------------------------------
(* The view context.                                                       *)

\* Only the context of y differs from x ...
SameClient(x, y) ==
  /\ y.line = x.line /\ y.observers = x.observers /\ y.cache = x.cache
  /\ y.out = x.out /\ y.calls = x.calls

\* ... and it is as doubtful.
SameDoubts(x, y) == y.doubtful = x.doubtful /\ y.stale = x.stale

\* Only the records and the link of y differ from x.
Becomes(x, y, records, link) ==
  /\ y \in DeviceState /\ SameClient(x, y) /\ SameDoubts(x, y) /\ y.disk = x.disk
  /\ y.records = records /\ y.link = link

LEMMA BecomesWhole ==
  ASSUME NEW ms, NEW x, Whole(x, ms), NEW y, NEW records, NEW link,
         Becomes(x, y, records, link), Held(records) \subseteq ms,
         link \in Held(records) \cup {NoKey}
  PROVE  Whole(y, ms)
BY DEF Whole, Becomes, SameClient

\* The records with another value at k.
IsPut(new, records, k, v) ==
  /\ new \in Records /\ new[k] = v /\ \A l \in Key : l # k => new[l] = records[l]
  /\ Held(new) = IF v = Gone THEN Held(records) \ {k} ELSE Held(records) \cup {k}

LEMMA HeldExcept ==
  ASSUME NEW records \in Records, NEW k \in Key, NEW v \in Time \cup {Gone}
  PROVE  IsPut([records EXCEPT ![k] = v], records, k, v)
BY DEF Records, Held, IsPut

\* What is saved is right, whatever was before.
LEMMA SaveOK ==
  ASSUME NEW ms, NEW x, Whole(x, ms)
  PROVE  /\ ContextOK(Save(x), ms) /\ SameClient(x, Save(x)) /\ SameDoubts(x, Save(x))
         /\ Save(x).records = x.records /\ Save(x).link = x.link
<1>1. x \in DeviceState
  BY DEF Whole
<1>2. CASE Broken(x) = {}
  <2> DEFINE y == [x EXCEPT !.disk = [records |-> x.records, link |-> x.link]]
  <2>1. Save(x) = y
    BY <1>2 DEF Save
  <2>2. /\ y \in DeviceState /\ SameClient(x, y) /\ SameDoubts(x, y)
        /\ y.records = x.records /\ y.link = x.link
        /\ y.disk.records = x.records /\ y.disk.link = x.link
    BY <1>1 DEF DeviceState, SameClient, SameDoubts
  <2> HIDE DEF y
  <2>3. Held(x.records) \subseteq {x.link}
    BY <1>2 DEF Broken
  <2>4. Whole(y, ms)
    BY <2>2, <2>3 DEF Whole, SameClient
  <2>5. SavedOK(y)
    BY <2>2 DEF SavedOK
  <2> QED BY <2>1, <2>2, <2>4, <2>5 DEF ContextOK
<1>3. CASE Broken(x) # {}
  <2>1. Save(x) = x
    BY <1>3 DEF Save
  <2>2. SavedOK(x)
    BY <1>3 DEF SavedOK, Broken
  <2> QED BY <2>1, <2>2 DEF SameClient, SameDoubts, ContextOK
<1> QED BY <1>2, <1>3

LEMMA InsertBecomes ==
  ASSUME NEW x \in DeviceState, NEW k \in Key, NEW t \in Time
  PROVE  Becomes(x, Insert(x, k, t), [x.records EXCEPT ![k] = t], k)
<1>1. x.records \in Records
  BY DEF DeviceState
<1>2. [x.records EXCEPT ![k] = t] \in Records
  BY <1>1, HeldExcept DEF IsPut
<1>3. Insert(x, k, t) = [x EXCEPT !.records = [x.records EXCEPT ![k] = t], !.link = k]
  BY DEF Insert, DeviceState
<1> QED BY <1>2, <1>3 DEF DeviceState, Becomes, SameClient, SameDoubts, Link

LEMMA InsertWhole ==
  ASSUME instance \in Instances, NEW ms \in SUBSET Key, NEW x, Whole(x, ms), NEW k \in ms,
         NEW t \in Time
  PROVE  Whole(Insert(x, k, t), ms)
<1>1. x \in DeviceState /\ x.records \in Records /\ Held(x.records) \subseteq ms
  BY DEF Whole, DeviceState
<1>2. Becomes(x, Insert(x, k, t), [x.records EXCEPT ![k] = t], k)
  BY <1>1, InsertBecomes
<1>3. t # Gone
  BY KeyFacts
<1>4. Held([x.records EXCEPT ![k] = t]) = Held(x.records) \cup {k}
  <2>1. k \in Key /\ t \in Time \cup {Gone}
    OBVIOUS
  <2>2. IsPut([x.records EXCEPT ![k] = t], x.records, k, t)
    BY <1>1, <2>1, HeldExcept
  <2> QED BY <1>3, <2>2 DEF IsPut
<1> QED BY <1>1, <1>2, <1>4, BecomesWhole

\* A known record gets a position.
LEMMA PutBecomes ==
  ASSUME NEW x \in DeviceState, NEW k \in Key, NEW v \in Time
  PROVE  Becomes(x, [x EXCEPT !.records[k] = v], [x.records EXCEPT ![k] = v], x.link)
<1>1. x.records \in Records
  BY DEF DeviceState
<1>2. [x.records EXCEPT ![k] = v] \in Records
  BY <1>1, HeldExcept DEF IsPut
<1>3. [x EXCEPT !.records[k] = v] = [x EXCEPT !.records = [x.records EXCEPT ![k] = v]]
  BY DEF DeviceState
<1> QED BY <1>2, <1>3 DEF DeviceState, Becomes, SameClient, SameDoubts

LEMMA PutWhole ==
  ASSUME instance \in Instances, NEW ms \in SUBSET Key, NEW x, Whole(x, ms),
         NEW k \in Held(x.records), NEW v \in Time
  PROVE  Whole([x EXCEPT !.records[k] = v], ms)
<1>1. x \in DeviceState /\ x.records \in Records /\ Held(x.records) \subseteq ms /\ k \in Key
      /\ x.link \in Held(x.records) \cup {NoKey}
  BY DEF Whole, DeviceState, Held
<1>2. Becomes(x, [x EXCEPT !.records[k] = v], [x.records EXCEPT ![k] = v], x.link)
  BY <1>1, PutBecomes
<1>3. v # Gone
  BY KeyFacts
<1>4. Held([x.records EXCEPT ![k] = v]) = Held(x.records)
  <2>1. IsPut([x.records EXCEPT ![k] = v], x.records, k, v)
    BY <1>1, HeldExcept
  <2> QED BY <1>3, <2>1 DEF IsPut
<1> QED BY <1>1, <1>2, <1>4, BecomesWhole

LEMMA RemoveOK ==
  ASSUME NEW ms \in SUBSET Key, NEW x, ContextOK(x, ms), NEW k \in Key
  PROVE  /\ ContextOK(RemoveFromCoreData(x, k), ms)
         /\ SameClient(x, RemoveFromCoreData(x, k)) /\ SameDoubts(x, RemoveFromCoreData(x, k))
         /\ RemoveFromCoreData(x, k).records = [x.records EXCEPT ![k] = Gone]
         /\ Broken(RemoveFromCoreData(x, k)) \subseteq Broken(x)
<1>1. x \in DeviceState /\ x.records \in Records
  BY DEF ContextOK, Whole, DeviceState
<1>2. CASE k \in Held(x.records)
  <2> DEFINE records == [x.records EXCEPT ![k] = Gone]
             link == IF x.link = k THEN NoKey ELSE x.link
             y == [x EXCEPT !.records = records, !.link = link]
  <2>1. RemoveFromCoreData(x, k) = Save(y)
    <3>1. x.records[k] # Gone
      BY <1>2 DEF Held
    <3>2. [x EXCEPT !.records[k] = Gone, !.link = IF @ = k THEN NoKey ELSE @] = y
      BY <1>1 DEF DeviceState
    <3> QED BY <3>1, <3>2 DEF RemoveFromCoreData
  <2>2. records \in Records /\ Held(records) = Held(x.records) \ {k}
    BY <1>1, HeldExcept DEF IsPut
  <2>3. link \in Link /\ (link = NoKey \/ (link = x.link /\ link # k))
    BY <1>1 DEF DeviceState, Link
  <2>4. IF x.link = k THEN link = NoKey ELSE link = x.link
    OBVIOUS
  <2> HIDE DEF records, link
  <2>5. Becomes(x, y, records, link)
    BY <1>1, <2>2, <2>3 DEF DeviceState, Becomes, SameClient, SameDoubts
  <2> HIDE DEF y
  <2>6. Whole(x, ms)
    BY DEF ContextOK
  <2>7. Held(records) \subseteq ms /\ link \in Held(records) \cup {NoKey}
    BY <2>2, <2>3, <2>6 DEF Whole
  <2>8. Whole(y, ms)
    BY <2>5, <2>6, <2>7, BecomesWhole
  <2>9. /\ ContextOK(Save(y), ms) /\ SameClient(y, Save(y)) /\ SameDoubts(y, Save(y))
        /\ Save(y).records = y.records /\ Save(y).link = y.link
    BY <2>8, SaveOK
  <2>10. Broken(Save(y)) = Held(records) \ {link}
    BY <2>5, <2>9 DEF Broken, Becomes
  <2>11. Held(records) \ {link} \subseteq Held(x.records) \ {x.link}
    BY <2>2, <2>3, <2>4
  <2> QED BY <2>1, <2>5, <2>9, <2>10, <2>11 DEF Becomes, SameClient, SameDoubts, records, Broken
<1>3. CASE k \notin Held(x.records)
  <2>1. RemoveFromCoreData(x, k) = x
    BY <1>3 DEF RemoveFromCoreData, Held
  <2>2. [x.records EXCEPT ![k] = Gone] = x.records
    BY <1>1, <1>3 DEF Records, Held
  <2> QED BY <2>1, <2>2 DEF SameClient, SameDoubts
<1> QED BY <1>2, <1>3

-----------------------------------------------------------------------------
(* The client.                                                             *)

\* What of a device does not change when callbacks are raised.
SameContext(x, y) ==
  /\ y.records = x.records /\ y.link = x.link /\ y.disk = x.disk
  /\ y.line = x.line /\ y.observers = x.observers

LEMMA SameContextOK ==
  ASSUME NEW ms, NEW x, ContextOK(x, ms), NEW y \in DeviceState, SameContext(x, y),
         Held(y.cache) \subseteq ms
  PROVE  ContextOK(y, ms)
BY DEF ContextOK, Whole, SavedOK, Broken, SameContext

\* The queues with raised callbacks.
LEMMA QueuesGrow ==
  ASSUME NEW ms \in SUBSET Key, NEW x \in DeviceState, QueuesOK(x, ms),
         NEW old, NEW new, NEW r, TellsChange(r, old, new),
         Held(old) \cup Held(new) \subseteq ms,
         NEW y \in DeviceState, y.calls = x.calls \o r, y.out = x.out,
         y.observers + Cardinality(Connecting(x.calls)) <= MaxObservers
  PROVE  QueuesOK(y, ms)
<1>1. x.calls \in Seq(Call) /\ r \in Seq(Call)
  BY DEF DeviceState, TellsChange
<1>2. \A i \in DOMAIN r : CallOK(r[i], ms) /\ r[i].name # "connected"
  BY DEF TellsChange, Tells, CallOK, ReportNames
<1>3. Connecting(x.calls \o r) = Connecting(x.calls)
  BY <1>1, <1>2, ConnectingRaised
<1>4. IsMadeOf(x.calls \o r, x.calls, r)
  BY <1>1, ConcatHas
<1>5. \A i \in DOMAIN y.calls : CallOK(y.calls[i], ms)
  BY <1>2, <1>4 DEF QueuesOK, IsMadeOf
<1> QED BY <1>3, <1>5 DEF QueuesOK

\* Where the device agrees with what is shown now it agrees afterwards.
Ready(x, new) ==
  \A k \in Key : \A what \in Matters :
    ~ IsReported(x.calls, k, what) /\ k \notin Doubts(x, what) /\ Same(what, x.cache[k], new[k])
      => Same(what, x.records[k], new[k])

\* The client shows something new.
LEMMA NoticedFits ==
  ASSUME instance \in Instances, NEW records, NEW ms \in SUBSET Key, NEW x,
         ContextOK(x, ms), QueuesOK(x, ms), x.observers > 0, CallsTell(x.calls, x.cache),
         NEW new \in Records, Held(new) \subseteq ms, Overlay(new, x.out) = new,
         x.line = "up" => new = Overlay(records, x.out),
         Ready(x, new)
  PROVE  Fits(Noticed(x, new), records, ms)
<1> DEFINE r == Raised(x.observers, x.cache, new)
           y == Noticed(x, new)
<1>1. /\ x \in DeviceState /\ x.observers \in Nat /\ x.cache \in Records
      /\ x.calls \in Seq(Call) /\ x.out \in Seq(WriteRecord) /\ Held(x.cache) \subseteq ms
  BY DEF ContextOK, Whole, DeviceState
<1>2. TellsChange(r, x.cache, new)
  BY <1>1, KeyFacts, RaisedTells
<1> HIDE DEF r
<1>3. r \in Seq(Call)
  BY <1>2 DEF TellsChange
<1>4. x.calls \o r \in Seq(Call)
  BY <1>1, <1>3
<1>5. /\ y \in DeviceState /\ SameContext(x, y) /\ y.cache = new /\ y.calls = x.calls \o r
      /\ y.out = x.out /\ SameDoubts(x, y)
  BY <1>1, <1>4 DEF DeviceState, SameContext, SameDoubts, Noticed, r
<1> HIDE DEF y
<1>6. ContextOK(y, ms)
  BY <1>5, SameContextOK
<1>7. QueuesOK(y, ms)
  <2>1. y.observers + Cardinality(Connecting(x.calls)) <= MaxObservers
    BY <1>5 DEF SameContext, QueuesOK
  <2>2. Held(x.cache) \cup Held(new) \subseteq ms
    BY <1>1
  <2> QED BY <1>1, <1>2, <1>5, <2>1, <2>2, QueuesGrow
<1>8. ClientOK(y, records)
  <2>1. CallsTell(y.calls, y.cache)
    BY <1>1, <1>2, <1>5, CallsGoOnTelling
  <2> QED BY <2>1, <1>5, <1>1 DEF ClientOK, ClientHolds, SameContext
<1>9. ASSUME NEW k \in Key PROVE AgreesOn(y, k)
  <2> SUFFICES ASSUME NEW what \in Matters, ~ IsReported(y.calls, k, what), k \notin Doubts(y, what)
               PROVE  Same(what, y.records[k], y.cache[k])
    BY DEF AgreesOn
  <2>1. ~ IsReported(x.calls, k, what) /\ ~ IsReported(r, k, what)
    BY <1>1, <1>3, <1>5, ReportsIn
  <2>2. Same(what, x.cache[k], new[k])
    BY <2>1, <1>2 DEF TellsChange
  <2>3. k \notin Doubts(x, what)
    BY <1>5 DEF Doubts, SameDoubts
  <2>4. Same(what, x.records[k], new[k])
    BY <2>1, <2>2, <2>3 DEF Ready
  <2> QED BY <2>4, <1>5 DEF SameContext
<1> QED BY <1>6, <1>7, <1>8, <1>9 DEF Fits, y

\* A device that agrees with its cache is ready for anything.
LEMMA AgreesReady ==
  ASSUME NEW x, \A k \in Key : AgreesOn(x, k), NEW new
  PROVE  Ready(x, new)
<1> SUFFICES ASSUME NEW k \in Key, NEW what \in Matters, ~ IsReported(x.calls, k, what),
                    k \notin Doubts(x, what), Same(what, x.cache[k], new[k])
             PROVE  Same(what, x.records[k], new[k])
  BY DEF Ready
<1>1. Same(what, x.records[k], x.cache[k])
  BY DEF AgreesOn
<1> QED BY <1>1, SameFacts

\* A write: the record is here as written, the others are as before.
LEMMA WriteFits ==
  ASSUME instance \in Instances, NEW records \in Records, NEW ms \in SUBSET Key, NEW x,
         ContextOK(x, ms), QueuesOK(x, ms), ClientOK(x, records),
         NEW k \in ms, NEW v \in Time \cup {Gone}, x.records[k] = v,
         \A l \in Key : l # k => AgreesOn(x, l)
  PROVE  Fits(Write(x, k, v), records, ms)
<1> DEFINE w == [key |-> k, value |-> v]
           sent == [x EXCEPT !.out = Append(@, w)]
<1>1. /\ x \in DeviceState /\ x.cache \in Records /\ x.observers \in Nat
      /\ x.out \in Seq(WriteRecord) /\ Held(x.cache) \subseteq ms /\ x.records \in Records
  BY DEF ContextOK, Whole, DeviceState
<1>2. w \in WriteRecord /\ w.key = k /\ w.value = v
  BY DEF WriteRecord
<1> HIDE DEF w
<1>3. /\ sent \in DeviceState /\ SameContext(x, sent) /\ sent.cache = x.cache
      /\ sent.calls = x.calls /\ SameDoubts(x, sent) /\ sent.out = Append(x.out, w)
  <2>1. Append(x.out, w) \in Seq(WriteRecord)
    BY <1>1, <1>2
  <2> QED BY <1>1, <2>1 DEF DeviceState, SameContext, SameDoubts
<1> HIDE DEF sent
<1>4. ContextOK(sent, ms)
  BY <1>1, <1>3, SameContextOK
<1>5. QueuesOK(sent, ms)
  <2>1. \A i \in DOMAIN sent.out : sent.out[i] = w \/ (i \in DOMAIN x.out /\ sent.out[i] = x.out[i])
    BY <1>1, <1>2, <1>3
  <2> QED BY <2>1, <1>2, <1>3 DEF QueuesOK, SameContext
<1>6. CASE x.observers = 0
  <2> DEFINE y == [sent EXCEPT !.doubtful = @ \cup {k}]
  <2>1. Write(x, k, v) = y
    BY <1>6 DEF Write, sent, w
  <2>2. /\ y \in DeviceState /\ SameContext(sent, y) /\ y.cache = sent.cache
        /\ y.calls = sent.calls /\ y.out = sent.out
        /\ y.doubtful = sent.doubtful \cup {k} /\ y.stale = sent.stale
    BY <1>3 DEF DeviceState, SameContext
  <2> HIDE DEF y
  <2>3. ContextOK(y, ms)
    BY <1>1, <1>3, <1>4, <2>2, SameContextOK
  <2>4. QueuesOK(y, ms)
    BY <1>5, <2>2 DEF QueuesOK, SameContext
  <2>5. ClientOK(y, records)
    BY <1>6, <1>3, <2>2 DEF ClientOK, ClientHolds, SameContext
  <2>6. ASSUME NEW l \in Key PROVE AgreesOn(y, l)
    <3>1. CASE l = k
      <4>1. \A what \in Matters : l \in Doubts(y, what)
        BY <2>2, <3>1 DEF Doubts, Matters
      <4> QED BY <4>1 DEF AgreesOn
    <3>2. CASE l # k
      <4>1. \A what \in Matters : l \notin Doubts(y, what) => l \notin Doubts(x, what)
        BY <1>3, <2>2 DEF Doubts, SameDoubts
      <4>2. y.calls = x.calls /\ y.records = x.records /\ y.cache = x.cache
        BY <1>3, <2>2 DEF SameContext
      <4>3. AgreesOn(x, l)
        BY <3>2
      <4> QED BY <4>1, <4>2, <4>3 DEF AgreesOn
    <3> QED BY <3>1, <3>2
  <2> QED BY <2>1, <2>3, <2>4, <2>5, <2>6 DEF Fits
<1>7. CASE x.observers # 0
  <2> DEFINE new == Applied(x.cache, w)
  <2>1. Write(x, k, v) = Noticed(sent, new)
    BY <1>7 DEF Write, sent, w
  <2>2. /\ new \in Records /\ Held(new) \subseteq ms /\ new[k] = v
        /\ \A l \in Key : l # k => new[l] = x.cache[l]
    <3>1. new = [x.cache EXCEPT ![k] = v]
      BY <1>2 DEF Applied
    <3>2. k \in Key
      OBVIOUS
    <3>3. IsPut([x.cache EXCEPT ![k] = v], x.cache, k, v)
      BY <3>2, <1>1, HeldExcept
    <3> HIDE DEF new
    <3> QED BY <3>1, <3>3, <1>1 DEF IsPut
  <2>3. new = Overlay(x.cache, sent.out)
    BY <1>1, <1>2, <1>3, <1>7, OverlayAppend DEF ClientOK, ClientHolds
  <2>4. Overlay(new, sent.out) = new
    <3>1. sent.out \in Seq(WriteRecord)
      BY <1>1, <1>2, <1>3
    <3> HIDE DEF new
    <3> QED BY <2>3, <3>1, <1>1, OverlayTwice
  <2>5. sent.line = "up" => new = Overlay(records, sent.out)
    <3> SUFFICES ASSUME x.line = "up" PROVE new = Overlay(records, sent.out)
      BY <1>3 DEF SameContext
    <3>1. x.cache = Overlay(records, x.out)
      BY DEF ClientOK
    <3> QED BY <3>1, <1>1, <1>2, <1>3, OverlayAppend
  <2> HIDE DEF new
  <2>6. Ready(sent, new)
    <3> SUFFICES ASSUME NEW l \in Key, NEW what \in Matters, ~ IsReported(sent.calls, l, what),
                        l \notin Doubts(sent, what), Same(what, sent.cache[l], new[l])
                 PROVE  Same(what, sent.records[l], new[l])
      BY DEF Ready
    <3>1. CASE l = k
      BY <3>1, <1>3, <2>2, SameFacts DEF SameContext
    <3>2. CASE l # k
      <4>1. AgreesOn(x, l) /\ l \notin Doubts(x, what) /\ ~ IsReported(x.calls, l, what)
        BY <3>2, <1>3 DEF Doubts, SameDoubts
      <4>2. Same(what, x.records[l], x.cache[l])
        BY <4>1 DEF AgreesOn
      <4> QED BY <4>2, <3>2, <1>3, <2>2 DEF SameContext
    <3> QED BY <3>1, <3>2
  <2>7. sent.observers > 0 /\ CallsTell(sent.calls, sent.cache)
    BY <1>1, <1>3, <1>7 DEF ClientOK, ClientHolds, SameContext
  <2> QED BY <2>1, <2>2, <2>4, <2>5, <2>6, <2>7, <1>4, <1>5, NoticedFits
<1> QED BY <1>6, <1>7

-----------------------------------------------------------------------------
(* The user and the player.                                                *)

\* The server's records have changed, or come over the new connection.
LEMMA RefreshedFits ==
  ASSUME instance \in Instances, NEW ms \in SUBSET Key,
         NEW records \in Records, Held(records) \subseteq ms,
         NEW x, ContextOK(x, ms), QueuesOK(x, ms), ClientHolds(x), \A k \in Key : AgreesOn(x, k)
  PROVE  Fits(Refreshed(x, records), records, ms)
<1>1. CASE x.line = "up"
  <2> DEFINE new == Overlay(records, x.out)
  <2>1. Refreshed(x, records) = Noticed(x, new)
    BY <1>1 DEF Refreshed
  <2>2. x.out \in Seq(WriteRecord)
    BY DEF ContextOK, Whole, DeviceState
  <2>3. new \in Records
    BY <2>2, OverlayType
  <2>4. Held(new) \subseteq ms
    BY <2>2, OverlayWithin DEF QueuesOK
  <2>5. Overlay(new, x.out) = new
    BY <2>2, OverlayTwice
  <2>6. x.line = "up" => new = Overlay(records, x.out)
    OBVIOUS
  <2> HIDE DEF new
  <2>7. x.observers > 0 /\ CallsTell(x.calls, x.cache)
    BY <1>1 DEF ClientHolds
  <2>8. Ready(x, new)
    BY AgreesReady
  <2> QED BY <2>1, <2>3, <2>4, <2>5, <2>6, <2>7, <2>8, NoticedFits
<1>2. CASE x.line # "up"
  BY <1>2 DEF Refreshed, Fits, ClientOK
<1> QED BY <1>1, <1>2

LEMMA SameClientFits ==
  ASSUME NEW records, NEW ms, NEW x, QueuesOK(x, ms), ClientOK(x, records),
         NEW y, SameClient(x, y)
  PROVE  QueuesOK(y, ms) /\ ClientOK(y, records)
BY DEF QueuesOK, ClientOK, ClientHolds, SameClient

\* The other records are as they were.
SameElsewhere(x, y, k) ==
  \A l \in Key : l # k =>
    /\ y.records[l] = x.records[l]
    /\ l \in x.doubtful => l \in y.doubtful
    /\ l \in x.stale => l \in y.stale

LEMMA AgreesElsewhere ==
  ASSUME NEW x, NEW k, \A l \in Key : l # k => AgreesOn(x, l),
         NEW y, SameClient(x, y), SameElsewhere(x, y, k)
  PROVE  \A l \in Key : l # k => AgreesOn(y, l)
<1> SUFFICES ASSUME NEW l \in Key, l # k, NEW what \in Matters,
                    ~ IsReported(y.calls, l, what), l \notin Doubts(y, what)
             PROVE  Same(what, y.records[l], y.cache[l])
  BY DEF AgreesOn
<1>1. y.calls = x.calls /\ y.cache = x.cache /\ y.records[l] = x.records[l]
  BY DEF SameClient, SameElsewhere
<1>2. l \notin Doubts(x, what)
  BY DEF SameElsewhere, Doubts
<1>3. AgreesOn(x, l)
  OBVIOUS
<1> QED BY <1>1, <1>2, <1>3 DEF AgreesOn

\* A device that keeps its other records writes one.
LEMMA WrittenFits ==
  ASSUME instance \in Instances, NEW records \in Records, NEW ms \in SUBSET Key,
         NEW x, Fits(x, records, ms), NEW k \in ms, NEW v \in Time \cup {Gone},
         NEW y, ContextOK(y, ms), SameClient(x, y), SameElsewhere(x, y, k), y.records[k] = v
  PROVE  Fits(Write(y, k, v), records, ms)
<1>1. QueuesOK(y, ms) /\ ClientOK(y, records)
  BY SameClientFits DEF Fits
<1>2. \A l \in Key : l # k => AgreesOn(y, l)
  BY AgreesElsewhere DEF Fits
<1> QED BY <1>1, <1>2, WriteFits

\* A tick: the position is put into the podcast's record.
LEMMA SaveProgressFits ==
  ASSUME instance \in Instances, NEW records \in Records, NEW ms \in SUBSET Key,
         NEW x, Fits(x, records, ms), x.link # NoKey, NEW t \in Time
  PROVE  Fits(SaveProgress(x, t), records, ms)
<1> DEFINE k == x.link
           u == [x EXCEPT !.records[k] = t]
           y == [x EXCEPT !.records[k] = t, !.stale = @ \ {k}]
<1>1. x \in DeviceState /\ Whole(x, ms) /\ k \in Held(x.records) /\ Held(x.records) \subseteq ms
  BY DEF Fits, ContextOK, Whole
<1>2. k \in ms /\ k \in Key
  BY <1>1
<1> HIDE DEF k
<1>3. Whole(u, ms)
  BY <1>1, PutWhole
<1>4. Becomes(x, u, [x.records EXCEPT ![k] = t], x.link)
  BY <1>1, <1>2, PutBecomes
<1>5. y = [u EXCEPT !.stale = @ \ {k}]
  BY <1>1 DEF DeviceState
<1> HIDE DEF u, y
<1>6. u \in DeviceState
  BY <1>4 DEF Becomes
<1>7. /\ y \in DeviceState /\ SameClient(u, y) /\ y.records = u.records /\ y.link = u.link
      /\ y.disk = u.disk /\ y.doubtful = u.doubtful /\ y.stale = u.stale \ {k}
  BY <1>5, <1>6 DEF DeviceState, SameClient
<1>8. Whole(y, ms)
  BY <1>3, <1>7 DEF Whole, SameClient
<1>9. /\ ContextOK(Save(y), ms) /\ SameClient(y, Save(y)) /\ SameDoubts(y, Save(y))
      /\ Save(y).records = y.records
  BY <1>8, SaveOK
<1>10. x.records \in Records
  BY <1>1 DEF DeviceState
<1>11. /\ [x.records EXCEPT ![k] = t][k] = t
       /\ \A l \in Key : l # k => [x.records EXCEPT ![k] = t][l] = x.records[l]
  <2>1. IsPut([x.records EXCEPT ![k] = t], x.records, k, t)
    BY <1>2, <1>10, HeldExcept
  <2> QED BY <2>1 DEF IsPut
<1>12. Save(y).records[k] = t
  BY <1>4, <1>7, <1>9, <1>11 DEF Becomes
<1>13. SameElsewhere(x, Save(y), k)
  BY <1>4, <1>7, <1>9, <1>11 DEF Becomes, SameDoubts, SameElsewhere
<1>14. SameClient(x, Save(y))
  BY <1>4, <1>7, <1>9 DEF Becomes, SameClient
<1>15. Fits(Write(Save(y), k, t), records, ms)
  BY <1>2, <1>9, <1>12, <1>13, <1>14, WrittenFits
<1> QED BY <1>15 DEF SaveProgress, y, k

\* y is x with the value t put into the record k, as saved as it can be.
IsInserted(y, x, k, t, ms) ==
  /\ ContextOK(y, ms) /\ SameClient(x, y) /\ SameDoubts(x, y)
  /\ y.records = [x.records EXCEPT ![k] = t]

LEMMA InsertSaved ==
  ASSUME instance \in Instances, NEW ms \in SUBSET Key,
         NEW x, Whole(x, ms), NEW k \in ms, NEW t \in Time
  PROVE  IsInserted(Save(Insert(x, k, t)), x, k, t, ms) /\ Save(Insert(x, k, t)).link = k
<1> DEFINE y == Insert(x, k, t)
<1>1. Whole(y, ms)
  BY InsertWhole
<1>2. Becomes(x, y, [x.records EXCEPT ![k] = t], k)
  <2>1. x \in DeviceState /\ k \in Key
    BY DEF Whole
  <2> QED BY <2>1, InsertBecomes
<1> HIDE DEF y
<1>3. /\ ContextOK(Save(y), ms) /\ SameClient(y, Save(y)) /\ SameDoubts(y, Save(y))
      /\ Save(y).records = y.records /\ Save(y).link = y.link
  BY <1>1, SaveOK
<1>4. SameClient(x, Save(y)) /\ SameDoubts(x, Save(y))
  BY <1>2, <1>3 DEF Becomes, SameClient, SameDoubts
<1> QED BY <1>2, <1>3, <1>4 DEF Becomes, y, IsInserted

\* The first tick makes the record.
LEMMA MakeRecordFits ==
  ASSUME instance \in Instances, NEW records \in Records, NEW ms \in SUBSET Key,
         NEW x, Fits(x, records, ms), NEW k \in ms
  PROVE  Fits(MakeRecord(x, k), records, ms)
<1> DEFINE y == Save(Insert(x, k, 0))
<1>1. Whole(x, ms) /\ x.records \in Records /\ k \in Key /\ 0 \in Time \cup {Gone}
  BY KeyFacts DEF Fits, ContextOK, Whole, DeviceState
<1>2. /\ ContextOK(y, ms) /\ SameClient(x, y) /\ SameDoubts(x, y)
      /\ y.records = [x.records EXCEPT ![k] = 0]
  <2>1. PICK t \in Time : t = 0
    BY KeyFacts
  <2>2. y = Save(Insert(x, k, t))
    BY <2>1
  <2> HIDE DEF y
  <2>3. IsInserted(y, x, k, t, ms)
    BY <1>1, <2>2, InsertSaved
  <2> QED BY <2>1, <2>3 DEF IsInserted
<1> HIDE DEF y
<1>3. y.records[k] = 0 /\ \A l \in Key : l # k => y.records[l] = x.records[l]
  <2>1. IsPut([x.records EXCEPT ![k] = 0], x.records, k, 0)
    BY <1>1, HeldExcept
  <2> QED BY <1>2, <2>1 DEF IsPut
<1>4. SameElsewhere(x, y, k)
  BY <1>2, <1>3 DEF SameDoubts, SameElsewhere
<1>5. Fits(Write(y, k, 0), records, ms)
  BY <1>1, <1>2, <1>3, <1>4, WrittenFits
<1> QED BY <1>5 DEF MakeRecord, y

LEMMA RemoveRecordFits ==
  ASSUME instance \in Instances, NEW records \in Records, NEW ms \in SUBSET Key,
         NEW x, Fits(x, records, ms), NEW k \in ms
  PROVE  Fits(RemoveRecord(x, k), records, ms)
<1> DEFINE y == RemoveFromCoreData(x, k)
<1>1. ContextOK(x, ms) /\ x.records \in Records /\ k \in Key
  BY DEF Fits, ContextOK, Whole, DeviceState
<1>2. /\ ContextOK(y, ms) /\ SameClient(x, y) /\ SameDoubts(x, y)
      /\ y.records = [x.records EXCEPT ![k] = Gone]
  BY <1>1, RemoveOK
<1> HIDE DEF y
<1>3. y.records[k] = Gone /\ \A l \in Key : l # k => y.records[l] = x.records[l]
  <2>1. IsPut([x.records EXCEPT ![k] = Gone], x.records, k, Gone)
    BY <1>1, HeldExcept
  <2> QED BY <1>2, <2>1 DEF IsPut
<1>4. SameElsewhere(x, y, k)
  BY <1>2, <1>3 DEF SameDoubts, SameElsewhere
<1>5. Fits(Write(y, k, Gone), records, ms)
  BY <1>2, <1>3, <1>4, WrittenFits
<1> QED BY <1>5 DEF RemoveRecord, y

\* Whatever removing one record keeps, the loop of removeAll keeps.
LEMMA RemoveAllStays ==
  ASSUME NEW ks, IsFiniteSet(ks), NEW S, NEW x \in S,
         \A y \in S : \A k \in ks : RemoveRecord(y, k) \in S
  PROVE  InTurn(RemoveRecord, x, ks) \in S
<1> DEFINE order == SetToSeq(ks)
           step == [i \in 1 .. Len(order) |-> [y \in S |-> RemoveRecord(y, order[i])]]
           after == CHOOSE f : f = [n \in 0 .. Len(order) |->
                                      IF n = 0 THEN x ELSE RemoveRecord(f[n - 1], order[n])]
<1>1. order \in Seq(ks) /\ Len(order) \in Nat
  <2>1. order \in Seq(ks)
    BY OrderOf
  <2> HIDE DEF order
  <2> QED BY <2>1
<1>2. InTurn(RemoveRecord, x, ks) = after[Len(order)]
  BY DEF InTurn
<1> HIDE DEF order
<1>3. /\ step \in [1 .. Len(order) -> [S -> S]]
      /\ \A i \in 1 .. Len(order) : \A y \in S : step[i][y] = RemoveRecord(y, order[i])
  BY <1>1
<1> HIDE DEF step
<1>4. PICK g : IsLoop(g, S, Len(order), x, step)
  <2>1. Len(order) \in Nat
    BY <1>1
  <2>2. step \in [1 .. Len(order) -> [S -> S]]
    BY <1>3
  <2> QED BY <2>1, <2>2, LoopRuns
<1>5. g = [n \in 0 .. Len(order) |-> IF n = 0 THEN x ELSE RemoveRecord(g[n - 1], order[n])]
  <2>1. \A n \in 1 .. Len(order) : g[n - 1] \in S
    BY <1>1, <1>4 DEF IsLoop
  <2>2. \A n \in 1 .. Len(order) : g[n] = RemoveRecord(g[n - 1], order[n])
    BY <1>3, <1>4, <2>1 DEF IsLoop
  <2>3. \A n \in 0 .. Len(order) : g[n] = IF n = 0 THEN x ELSE RemoveRecord(g[n - 1], order[n])
    BY <1>1, <1>4, <2>2 DEF IsLoop
  <2> QED BY <1>4, <2>3 DEF IsLoop
<1>6. after = [n \in 0 .. Len(order) |->
                 IF n = 0 THEN x ELSE RemoveRecord(after[n - 1], order[n])]
  BY <1>5
<1> HIDE DEF after
<1>7. after[0] \in S
  BY <1>1, <1>6
<1>8. ASSUME NEW n \in 1 .. Len(order), after[n - 1] \in S PROVE after[n] \in S
  <2>1. n \in 0 .. Len(order) /\ n # 0 /\ order[n] \in ks
    BY <1>1
  <2>2. after[n] = RemoveRecord(after[n - 1], order[n])
    BY <1>6, <2>1
  <2> QED BY <1>8, <2>1, <2>2
<1> QED BY <1>1, <1>2, <1>7, <1>8, LoopStays

\* The same of the loop that removes the records that an answer lacks.
LEMMA RemoveLostStays ==
  ASSUME NEW ks, IsFiniteSet(ks), NEW S, NEW x \in S,
         \A y \in S : \A k \in ks : RemoveFromCoreData(y, k) \in S
  PROVE  InTurn(RemoveFromCoreData, x, ks) \in S
<1> DEFINE order == SetToSeq(ks)
           step == [i \in 1 .. Len(order) |-> [y \in S |-> RemoveFromCoreData(y, order[i])]]
           after == CHOOSE f : f = [n \in 0 .. Len(order) |->
                                      IF n = 0 THEN x ELSE RemoveFromCoreData(f[n - 1], order[n])]
<1>1. order \in Seq(ks) /\ Len(order) \in Nat
  <2>1. order \in Seq(ks)
    BY OrderOf
  <2> HIDE DEF order
  <2> QED BY <2>1
<1>2. InTurn(RemoveFromCoreData, x, ks) = after[Len(order)]
  BY DEF InTurn
<1> HIDE DEF order
<1>3. /\ step \in [1 .. Len(order) -> [S -> S]]
      /\ \A i \in 1 .. Len(order) : \A y \in S : step[i][y] = RemoveFromCoreData(y, order[i])
  BY <1>1
<1> HIDE DEF step
<1>4. PICK g : IsLoop(g, S, Len(order), x, step)
  <2>1. Len(order) \in Nat
    BY <1>1
  <2>2. step \in [1 .. Len(order) -> [S -> S]]
    BY <1>3
  <2> QED BY <2>1, <2>2, LoopRuns
<1>5. g = [n \in 0 .. Len(order) |-> IF n = 0 THEN x ELSE RemoveFromCoreData(g[n - 1], order[n])]
  <2>1. \A n \in 1 .. Len(order) : g[n - 1] \in S
    BY <1>1, <1>4 DEF IsLoop
  <2>2. \A n \in 1 .. Len(order) : g[n] = RemoveFromCoreData(g[n - 1], order[n])
    BY <1>3, <1>4, <2>1 DEF IsLoop
  <2>3. \A n \in 0 .. Len(order) : g[n] = IF n = 0 THEN x ELSE RemoveFromCoreData(g[n - 1], order[n])
    BY <1>1, <1>4, <2>2 DEF IsLoop
  <2> QED BY <1>4, <2>3 DEF IsLoop
<1>6. after = [n \in 0 .. Len(order) |->
                 IF n = 0 THEN x ELSE RemoveFromCoreData(after[n - 1], order[n])]
  BY <1>5
<1> HIDE DEF after
<1>7. after[0] \in S
  BY <1>1, <1>6
<1>8. ASSUME NEW n \in 1 .. Len(order), after[n - 1] \in S PROVE after[n] \in S
  <2>1. n \in 0 .. Len(order) /\ n # 0 /\ order[n] \in ks
    BY <1>1
  <2>2. after[n] = RemoveFromCoreData(after[n - 1], order[n])
    BY <1>6, <2>1
  <2> QED BY <1>8, <2>1, <2>2
<1> QED BY <1>1, <1>2, <1>7, <1>8, LoopStays

\* All records that the loop of removeAll comes to are removed.
LEMMA RemoveAllFits ==
  ASSUME instance \in Instances, NEW records \in Records, NEW ms \in SUBSET Key,
         NEW x, Fits(x, records, ms), NEW gone \in SUBSET ms
  PROVE  Fits(InTurn(RemoveRecord, x, gone), records, ms)
<1> DEFINE S == {y \in DeviceState : Fits(y, records, ms)}
<1>1. \A y \in S : \A k \in gone : RemoveRecord(y, k) \in S
  BY RemoveRecordFits DEF Fits, ContextOK, Whole
<1>2. x \in S /\ IsFiniteSet(gone)
  BY KeyFacts, FS_Subset DEF Fits, ContextOK, Whole
<1> HIDE DEF S
<1>3. InTurn(RemoveRecord, x, gone) \in S
  BY <1>1, <1>2, RemoveAllStays
<1> QED BY <1>3 DEF S

-----------------------------------------------------------------------------
(* The main thread.                                                        *)

\* A device whose first callback is taken.
Taken(x) == [x EXCEPT !.calls = Tail(@)]

LEMMA TakenOK ==
  ASSUME instance \in Instances, NEW records, NEW ms \in SUBSET Key,
         NEW x, Fits(x, records, ms), x.calls # <<>>
  PROVE  /\ Taken(x) \in DeviceState /\ SameContext(x, Taken(x)) /\ SameDoubts(x, Taken(x))
         /\ Taken(x).cache = x.cache /\ Taken(x).out = x.out /\ Taken(x).playing = x.playing
         /\ Taken(x).calls = Tail(x.calls) /\ x.calls \in Seq(Call)
         /\ Head(x.calls) \in Call /\ CallOK(Head(x.calls), ms)
         /\ ContextOK(Taken(x), ms) /\ QueuesOK(Taken(x), ms) /\ ClientOK(Taken(x), records)
         /\ Head(x.calls).name = "connected" =>
              x.observers + 1 + Cardinality(Connecting(Tail(x.calls))) <= MaxObservers
<1> DEFINE y == Taken(x)
<1>1. /\ x \in DeviceState /\ x.calls \in Seq(Call) /\ x.observers \in Nat
      /\ Held(x.cache) \subseteq ms
  <2>1. x \in DeviceState /\ Held(x.cache) \subseteq ms
    BY DEF Fits, ContextOK, Whole
  <2> QED BY <2>1 DEF DeviceState
<1>2. Tail(x.calls) \in Seq(Call) /\ Head(x.calls) = x.calls[1] /\ 1 \in DOMAIN x.calls
  BY <1>1
<1>3. /\ y \in DeviceState /\ SameContext(x, y) /\ SameDoubts(x, y)
      /\ y.cache = x.cache /\ y.out = x.out /\ y.playing = x.playing
      /\ y.calls = Tail(x.calls)
  BY <1>1, <1>2 DEF DeviceState, SameContext, SameDoubts, Taken
<1> HIDE DEF y
<1>4. Head(x.calls) \in Call /\ CallOK(Head(x.calls), ms)
  BY <1>1, <1>2 DEF Fits, QueuesOK
<1>5. ContextOK(y, ms)
  BY <1>1, <1>3, SameContextOK DEF Fits
<1>6. /\ Cardinality(Connecting(x.calls)) \in Nat /\ Cardinality(Connecting(y.calls)) \in Nat
      /\ Cardinality(Connecting(y.calls))
           = Cardinality(Connecting(x.calls)) - (IF Head(x.calls).name = "connected" THEN 1 ELSE 0)
  BY <1>1, <1>2, <1>3, ConnectingType, ConnectingTail
<1>7. QueuesOK(y, ms)
  <2>1. \A i \in DOMAIN y.calls : i + 1 \in DOMAIN x.calls /\ y.calls[i] = x.calls[i + 1]
    BY <1>1, <1>3
  <2>2. \A i \in DOMAIN y.calls : CallOK(y.calls[i], ms)
    BY <2>1 DEF Fits, QueuesOK
  <2>3. y.observers + Cardinality(Connecting(y.calls)) <= MaxObservers
    BY <1>1, <1>3, <1>6, InstanceFacts DEF Fits, QueuesOK, SameContext
  <2> QED BY <2>2, <2>3, <1>3 DEF Fits, QueuesOK
<1>8. Head(x.calls).name = "connected" =>
        x.observers + 1 + Cardinality(Connecting(Tail(x.calls))) <= MaxObservers
  BY <1>1, <1>3, <1>6, InstanceFacts DEF Fits, QueuesOK
<1>9. ClientOK(y, records)
  <2>1. CallsTell(x.calls, x.cache)
    BY DEF Fits, ClientOK, ClientHolds
  <2>2. /\ \A k : \A what \in Matters : IsReported(y.calls, k, what) => IsReported(x.calls, k, what)
        /\ CallsTell(y.calls, y.cache)
    <3>1. ASSUME NEW what \in Matters
          PROVE  /\ \A k : IsReported(Tail(x.calls), k, what) => IsReported(x.calls, k, what)
                 /\ CallsTell(Tail(x.calls), x.cache)
      BY <1>1, <2>1, TailReports
    <3>2. "record" \in Matters
      BY DEF Matters
    <3> QED BY <3>1, <3>2, <1>3
  <2> QED BY <2>2, <1>3 DEF Fits, ClientOK, ClientHolds, SameContext, NothingReported
<1> QED BY <1>1, <1>3, <1>4, <1>5, <1>7, <1>8, <1>9 DEF y

\* What the callback does not report is agreed on as before.
LEMMA TakenAgrees ==
  ASSUME instance \in Instances, NEW records, NEW ms \in SUBSET Key,
         NEW x, Fits(x, records, ms), x.calls # <<>>, NEW l \in Key, NEW what \in Matters,
         ~ Reports(Head(x.calls), l, what),
         ~ IsReported(Tail(x.calls), l, what), l \notin Doubts(x, what)
  PROVE  Same(what, x.records[l], x.cache[l])
<1>1. x.calls \in Seq(Call) /\ CallsTell(x.calls, x.cache)
  BY TakenOK DEF Fits, ClientOK, ClientHolds
<1>2. ~ IsReported(x.calls, l, what)
  BY <1>1, TailReports
<1>3. AgreesOn(x, l)
  BY DEF Fits
<1> QED BY <1>2, <1>3 DEF AgreesOn

\* A callback about k is handled and calls nothing up.
LEMMA HeardFits ==
  ASSUME instance \in Instances, NEW records \in Records, NEW ms \in SUBSET Key,
         NEW x, Fits(x, records, ms), x.calls # <<>>,
         NEW k, Head(x.calls).name \in ReportNames("position"), Head(x.calls).key = k,
         NEW y, ContextOK(y, ms), SameClient(Taken(x), y), SameElsewhere(x, y, k),
         AgreesOn(y, k)
  PROVE  Fits(y, records, ms)
<1>1. /\ QueuesOK(Taken(x), ms) /\ ClientOK(Taken(x), records)
      /\ Taken(x).calls = Tail(x.calls) /\ Taken(x).cache = x.cache
  BY TakenOK
<1>2. QueuesOK(y, ms) /\ ClientOK(y, records)
  BY <1>1, SameClientFits
<1>3. ASSUME NEW l \in Key PROVE AgreesOn(y, l)
  <2>1. CASE l = k
    BY <2>1
  <2>2. CASE l # k
    <3> SUFFICES ASSUME NEW what \in Matters, ~ IsReported(y.calls, l, what), l \notin Doubts(y, what)
                 PROVE  Same(what, y.records[l], y.cache[l])
      BY DEF AgreesOn
    <3>1. y.calls = Tail(x.calls) /\ y.cache = x.cache /\ y.records[l] = x.records[l]
      BY <1>1, <2>2 DEF SameClient, SameElsewhere
    <3>2. l \notin Doubts(x, what)
      BY <2>2 DEF SameElsewhere, Doubts
    <3>3. ~ Reports(Head(x.calls), l, what)
      BY <2>2 DEF Reports
    <3>4. Same(what, x.records[l], x.cache[l])
      BY <3>1, <3>2, <3>3, TakenAgrees
    <3> QED BY <3>1, <3>4
  <2> QED BY <2>1, <2>2
<1> QED BY <1>2, <1>3 DEF Fits

\* What is reported of the record k, if nothing more is.
LEMMA HeadTells ==
  ASSUME instance \in Instances, NEW records, NEW ms \in SUBSET Key,
         NEW x, Fits(x, records, ms), x.calls # <<>>, NEW k \in Key, NEW what \in Matters,
         Reports(Head(x.calls), k, what), ~ IsReported(Tail(x.calls), k, what)
  PROVE  Same(what, Head(x.calls).value, x.cache[k])
<1>1. x.calls \in Seq(Call) /\ CallsTell(x.calls, x.cache)
  BY TakenOK DEF Fits, ClientOK, ClientHolds
<1> QED BY <1>1, TailReports

\* The device with what it has of k as last heard.
LEMMA CurrentOK ==
  ASSUME NEW ms, NEW x, ContextOK(x, ms), NEW k
  PROVE  /\ ContextOK(Current(x, k), ms) /\ SameClient(x, Current(x, k))
         /\ Current(x, k).records = x.records /\ Current(x, k).playing = x.playing
         /\ Current(x, k).link = x.link
         /\ Current(x, k).doubtful = x.doubtful \ {k} /\ Current(x, k).stale = x.stale \ {k}
<1> DEFINE y == Current(x, k)
<1>1. x \in DeviceState
  BY DEF ContextOK, Whole
<1>2. /\ y \in DeviceState /\ SameClient(x, y) /\ SameContext(x, y) /\ y.playing = x.playing
      /\ y.doubtful = x.doubtful \ {k} /\ y.stale = x.stale \ {k}
  BY <1>1 DEF DeviceState, SameClient, SameContext, Current
<1> HIDE DEF y
<1>3. Held(y.cache) \subseteq ms
  BY <1>2 DEF ContextOK, Whole, SameClient
<1>4. ContextOK(y, ms)
  BY <1>2, <1>3, SameContextOK
<1> QED BY <1>2, <1>4 DEF y, SameContext

\* Saving what was heard changes nothing else.
LEMMA SavedHeard ==
  ASSUME NEW ms, NEW x, ContextOK(x, ms), NEW S \in SUBSET Key, NEW y, y = [x EXCEPT !.stale = S]
  PROVE  /\ ContextOK(Save(y), ms) /\ SameClient(x, Save(y))
         /\ Save(y).records = x.records /\ Save(y).link = x.link
         /\ Save(y).doubtful = x.doubtful /\ Save(y).stale = S
<1>1. x \in DeviceState /\ Whole(x, ms)
  BY DEF ContextOK, Whole
<1>2. /\ y \in DeviceState /\ SameClient(x, y) /\ SameContext(x, y)
      /\ y.doubtful = x.doubtful /\ y.stale = S
  BY <1>1 DEF DeviceState, SameClient, SameContext
<1>3. Whole(y, ms)
  BY <1>1, <1>2 DEF Whole, SameClient, SameContext
<1>4. /\ ContextOK(Save(y), ms) /\ SameClient(y, Save(y)) /\ SameDoubts(y, Save(y))
      /\ Save(y).records = y.records /\ Save(y).link = y.link
  BY <1>3, SaveOK
<1> QED BY <1>2, <1>4 DEF SameClient, SameDoubts, SameContext

\* The handler's view of the callback.
LEMMA HandledCases ==
  ASSUME NEW x, NEW call, NEW y \in Handled(x, call)
  PROVE  /\ call.name = "didAdd" => y = DidAdd(Current(Taken(x), call.key), call.key, call.value)
         /\ call.name = "didUpdate" => y = DidUpdate(Taken(x), call.key, call.value)
         /\ call.name = "didRemove" => y = RemoveRecord(Current(Taken(x), call.key), call.key)
         /\ call.name = "connected" => y = Observed(Taken(x))
         /\ call.name = "didGet" => \E z \in DidGet(Taken(x), call.all) : y = Noted(z)
BY DEF Handled, Taken, DidRemove

LEMMA DidAddFits ==
  ASSUME instance \in Instances, NEW records \in Records, NEW ms \in SUBSET Key,
         NEW x, Fits(x, records, ms), x.calls # <<>>,
         Head(x.calls).name = "didAdd", NEW y \in Handled(x, Head(x.calls))
  PROVE  Fits(y, records, ms)
<1> DEFINE k == Head(x.calls).key
           t == Head(x.calls).value
           heard == Current(Taken(x), k)
<1>1. /\ SameContext(x, Taken(x)) /\ SameDoubts(x, Taken(x)) /\ Taken(x).cache = x.cache
      /\ Taken(x).calls = Tail(x.calls) /\ ContextOK(Taken(x), ms)
      /\ CallOK(Head(x.calls), ms) /\ Head(x.calls) \in Call
  BY TakenOK
<1>2. k \in ms /\ t # Gone /\ t \in Time
  BY <1>1 DEF CallOK, ReportNames, Call
<1>3. y = DidAdd(heard, k, t)
  BY HandledCases
<1>4. /\ ContextOK(heard, ms) /\ SameClient(Taken(x), heard) /\ heard.records = x.records
      /\ heard.doubtful = x.doubtful \ {k} /\ heard.stale = x.stale \ {k}
  <2>1. Taken(x).records = x.records /\ Taken(x).doubtful = x.doubtful /\ Taken(x).stale = x.stale
    BY <1>1 DEF SameContext, SameDoubts
  <2> QED BY <1>1, <2>1, CurrentOK
<1>5. /\ Reports(Head(x.calls), k, "record") /\ Reports(Head(x.calls), k, "position")
      /\ Head(x.calls).name \in ReportNames("position")
  BY DEF Reports, ReportNames
<1>6. \A what \in Matters : ~ IsReported(Tail(x.calls), k, what) => Same(what, t, x.cache[k])
  BY <1>2, <1>5, HeadTells DEF Matters
<1> HIDE DEF heard, k, t
<1>7. k \in Key /\ heard.records \in Records
  BY <1>2, <1>4 DEF ContextOK, Whole, DeviceState
<1>8. /\ ContextOK(y, ms) /\ SameClient(heard, y) /\ y.doubtful = heard.doubtful
      /\ \A l \in Key : l # k => y.records[l] = heard.records[l]
      /\ \A l : l # k => (l \in heard.stale => l \in y.stale)
      /\ y.records[k] # Gone /\ (y.records[k] = t \/ k \in y.stale)
  <2>1. CASE heard.records[k] = Gone
    <3>1. y = Save(Insert(heard, k, t))
      BY <1>3, <2>1 DEF DidAdd
    <3>2. /\ ContextOK(y, ms) /\ SameClient(heard, y) /\ SameDoubts(heard, y)
          /\ y.records = [heard.records EXCEPT ![k] = t]
      <4>1. Whole(heard, ms)
        BY <1>4 DEF ContextOK
      <4>2. IsInserted(y, heard, k, t, ms)
        BY <3>1, <4>1, <1>2, InsertSaved
      <4> QED BY <4>2 DEF IsInserted
    <3>3. y.records[k] = t /\ \A l \in Key : l # k => y.records[l] = heard.records[l]
      <4>1. IsPut([heard.records EXCEPT ![k] = t], heard.records, k, t)
        BY <1>2, <1>7, HeldExcept
      <4> QED BY <3>2, <4>1 DEF IsPut
    <3> QED BY <3>2, <3>3, <1>2 DEF SameDoubts
  <2>2. CASE heard.records[k] # Gone
    <3> DEFINE S == IF heard.records[k] = t THEN heard.stale ELSE heard.stale \cup {k}
               z == [heard EXCEPT !.stale = S]
    <3>1. y = Save(z)
      BY <1>3, <2>2 DEF DidAdd
    <3>2. S \in SUBSET Key
      BY <1>4, <1>7 DEF ContextOK, Whole, DeviceState
    <3>3. heard.stale \subseteq S /\ (heard.records[k] = t \/ k \in S)
      OBVIOUS
    <3> HIDE DEF S
    <3>0. z = [heard EXCEPT !.stale = S]
      OBVIOUS
    <3> HIDE DEF z
    <3>4. /\ ContextOK(y, ms) /\ SameClient(heard, y) /\ y.records = heard.records
          /\ y.doubtful = heard.doubtful /\ y.stale = S
      BY <3>0, <3>1, <3>2, <1>4, SavedHeard
    <3> QED BY <3>3, <3>4, <2>2
  <2> QED BY <2>1, <2>2
<1>9. SameElsewhere(x, y, k)
  BY <1>4, <1>8 DEF SameElsewhere
<1>10. SameClient(Taken(x), y) /\ y.calls = Tail(x.calls) /\ y.cache = x.cache
  BY <1>1, <1>4, <1>8 DEF SameClient
<1>11. AgreesOn(y, k)
  <2> SUFFICES ASSUME NEW what \in Matters, ~ IsReported(Tail(x.calls), k, what), k \notin Doubts(y, what)
               PROVE  Same(what, y.records[k], x.cache[k])
    BY <1>10 DEF AgreesOn
  <2>1. Same(what, t, x.cache[k])
    BY <1>6
  <2>2. CASE what = "record"
    BY <2>1, <2>2, <1>2, <1>8 DEF Same
  <2>3. CASE what = "position"
    <3>1. y.records[k] = t
      BY <1>8, <2>3 DEF Doubts
    <3> QED BY <2>1, <3>1
  <2> QED BY <2>2, <2>3 DEF Matters
<1> QED BY <1>5, <1>8, <1>9, <1>10, <1>11, HeardFits DEF k

\* A value that is reported is one of a record that is there.
LEMMA UpdatedIsThere ==
  ASSUME instance \in Instances, NEW records, NEW ms \in SUBSET Key,
         NEW x, Fits(x, records, ms), x.calls # <<>>,
         Head(x.calls).name = "didUpdate", NEW k \in Key, Head(x.calls).key = k,
         ~ IsReported(Tail(x.calls), k, "record")
  PROVE  x.cache[k] # Gone
<1>1. /\ CallOK(Head(x.calls), ms) /\ x.calls \in Seq(Call) /\ Tail(x.calls) \in Seq(Call)
      /\ QueuesOK(Taken(x), ms) /\ Taken(x).calls = Tail(x.calls) /\ Taken(x).cache = x.cache
      /\ ClientOK(Taken(x), records)
  BY TakenOK
<1>2. "position" \in Matters /\ Reports(Head(x.calls), k, "position")
  BY DEF Matters, Reports, ReportNames
<1>3. Head(x.calls).value # Gone
  BY <1>1 DEF CallOK, ReportNames
<1>4. CASE ~ IsReported(Tail(x.calls), k, "position")
  <2>1. Same("position", Head(x.calls).value, x.cache[k])
    BY <1>2, <1>4, HeadTells
  <2> QED BY <2>1, <1>3 DEF Same
<1>5. CASE IsReported(Tail(x.calls), k, "position")
  <2> DEFINE s == Tail(x.calls)
  <2>1. PICK i \in DOMAIN s : IsLastReport(s, k, i, "position")
    BY <1>1, <1>5, LastReportIsThere
  <2>2. CallsTell(s, x.cache)
    BY <1>1 DEF ClientOK, ClientHolds
  <2>3. CallOK(s[i], ms)
    BY <1>1 DEF QueuesOK
  <2> HIDE DEF s
  <2>4. Same("position", s[i].value, x.cache[k])
    BY <1>2, <2>1, <2>2 DEF CallsTell
  <2>5. s[i].name \in {"didAdd", "didUpdate", "didRemove"} /\ s[i].key = k
    BY <2>1 DEF IsLastReport, Reports, ReportNames
  <2>6. ~ Reports(s[i], k, "record")
    BY DEF IsReported, s
  <2>7. s[i].name # "didRemove"
    BY <2>5, <2>6 DEF Reports, ReportNames
  <2>8. s[i].value # Gone
    BY <2>3, <2>5, <2>7 DEF CallOK, ReportNames
  <2> QED BY <2>4, <2>8 DEF Same
<1> QED BY <1>4, <1>5

\* What is reported is put into the record, or makes one.
LEMMA UpdateSaved ==
  ASSUME instance \in Instances, NEW ms \in SUBSET Key, NEW x, ContextOK(x, ms),
         NEW k \in ms, NEW t \in Time, NEW z, z = Save(UpdateCoreData(x, k, t))
  PROVE  IsInserted(z, x, k, t, ms)
<1>1. Whole(x, ms) /\ x \in DeviceState /\ x.records \in Records /\ k \in Key
  BY DEF ContextOK, Whole, DeviceState
<1>2. CASE x.records[k] = Gone
  <2>1. z = Save(Insert(x, k, t))
    BY <1>2 DEF UpdateCoreData
  <2>2. IsInserted(z, x, k, t, ms)
    BY <1>1, <2>1, InsertSaved
  <2> QED BY <2>2 DEF IsInserted
<1>3. CASE x.records[k] # Gone
  <2> DEFINE u == [x EXCEPT !.records[k] = t]
  <2>1. z = Save(u)
    BY <1>3 DEF UpdateCoreData, UpdateObject
  <2>2. k \in Held(x.records)
    BY <1>1, <1>3 DEF Held
  <2>3. Whole(u, ms)
    BY <1>1, <2>2, PutWhole
  <2>4. Becomes(x, u, [x.records EXCEPT ![k] = t], x.link)
    BY <1>1, PutBecomes
  <2> HIDE DEF u
  <2>5. /\ ContextOK(z, ms) /\ SameClient(u, z) /\ SameDoubts(u, z) /\ z.records = u.records
    BY <2>1, <2>3, SaveOK
  <2> QED BY <2>4, <2>5 DEF Becomes, SameClient, SameDoubts, IsInserted
<1> QED BY <1>2, <1>3

LEMMA DidUpdateFits ==
  ASSUME instance \in Instances, NEW records \in Records, NEW ms \in SUBSET Key,
         NEW x, Fits(x, records, ms), x.calls # <<>>,
         Head(x.calls).name = "didUpdate", NEW y \in Handled(x, Head(x.calls))
  PROVE  Fits(y, records, ms)
<1> DEFINE k == Head(x.calls).key
           t == Head(x.calls).value
           rest == Taken(x)
<1>1. /\ SameContext(x, rest) /\ SameDoubts(x, rest) /\ rest.cache = x.cache
      /\ rest.calls = Tail(x.calls) /\ ContextOK(rest, ms) /\ rest \in DeviceState
      /\ CallOK(Head(x.calls), ms) /\ Head(x.calls) \in Call
  BY TakenOK
<1>2. k \in ms /\ t # Gone /\ t \in Time
  BY <1>1 DEF CallOK, ReportNames, Call
<1>3. y = DidUpdate(rest, k, t)
  BY HandledCases
<1>4. rest.records = x.records /\ rest.doubtful = x.doubtful /\ rest.stale = x.stale
  BY <1>1 DEF SameContext, SameDoubts
<1>5. /\ ~ Reports(Head(x.calls), k, "record") /\ Reports(Head(x.calls), k, "position")
      /\ Head(x.calls).name \in ReportNames("position")
  BY DEF Reports, ReportNames
<1>6. ~ IsReported(Tail(x.calls), k, "position") => Same("position", t, x.cache[k])
  BY <1>2, <1>5, HeadTells DEF Matters
<1>7. ~ IsReported(Tail(x.calls), k, "record") => x.cache[k] # Gone
  BY <1>2, UpdatedIsThere
<1>8. ~ IsReported(Tail(x.calls), k, "record") /\ k \notin x.doubtful =>
        Same("record", x.records[k], x.cache[k])
  BY <1>2, <1>5, TakenAgrees DEF Matters, Doubts
<1> HIDE DEF rest, k, t
<1>9. k \in Key /\ rest.records \in Records
  BY <1>1, <1>2 DEF DeviceState
<1>10. CASE rest.playing
  <2> DEFINE S == IF rest.records[k] = t THEN rest.stale \ {k} ELSE rest.stale \cup {k}
  <2>1. y = [rest EXCEPT !.stale = S]
    BY <1>3, <1>10 DEF DidUpdate
  <2>2. S \in SUBSET Key /\ (k \in S \/ rest.records[k] = t)
    BY <1>1, <1>9 DEF DeviceState
  <2>3. \A l : l # k => (l \in rest.stale => l \in S)
    OBVIOUS
  <2> HIDE DEF S
  <2>4. /\ y \in DeviceState /\ SameContext(rest, y) /\ SameClient(rest, y)
        /\ y.records = rest.records /\ y.doubtful = rest.doubtful /\ y.stale = S
    BY <2>1, <2>2, <1>1 DEF DeviceState, SameContext, SameClient
  <2>5. ContextOK(y, ms)
    <3>1. Held(y.cache) \subseteq ms
      BY <1>1, <2>4 DEF ContextOK, Whole, SameClient
    <3> QED BY <1>1, <2>4, <3>1, SameContextOK
  <2>6. SameElsewhere(x, y, k)
    BY <1>4, <2>3, <2>4 DEF SameElsewhere
  <2>7. y.calls = Tail(x.calls) /\ y.cache = x.cache
    BY <1>1, <2>4 DEF SameClient
  <2>8. AgreesOn(y, k)
    <3> SUFFICES ASSUME NEW what \in Matters, ~ IsReported(Tail(x.calls), k, what), k \notin Doubts(y, what)
                 PROVE  Same(what, y.records[k], x.cache[k])
      BY <2>7 DEF AgreesOn
    <3>1. CASE what = "record"
      BY <3>1, <1>4, <1>8, <2>4 DEF Doubts
    <3>2. CASE what = "position"
      BY <3>2, <1>6, <2>2, <2>4 DEF Doubts, Same
    <3> QED BY <3>1, <3>2 DEF Matters
  <2> QED BY <1>5, <2>4, <2>5, <2>6, <2>8, HeardFits DEF rest, k
<1>11. CASE ~ rest.playing
  <2> DEFINE z == Save(UpdateCoreData(rest, k, t))
  <2>1. y = Current(z, k)
    BY <1>3, <1>11 DEF DidUpdate
  <2>2. /\ ContextOK(z, ms) /\ SameClient(rest, z) /\ SameDoubts(rest, z)
        /\ z.records = [rest.records EXCEPT ![k] = t]
    <3>1. k \in ms /\ t \in Time
      BY <1>2
    <3>2. ContextOK(rest, ms)
      BY <1>1
    <3> HIDE DEF z
    <3>3. IsInserted(z, rest, k, t, ms)
      BY <3>1, <3>2, UpdateSaved DEF z
    <3> QED BY <3>3 DEF IsInserted
  <2> HIDE DEF z
  <2>3. /\ ContextOK(y, ms) /\ SameClient(z, y) /\ y.records = z.records
        /\ y.doubtful = z.doubtful \ {k} /\ y.stale = z.stale \ {k}
    BY <2>1, <2>2, CurrentOK
  <2>4. SameClient(rest, y)
    BY <2>2, <2>3 DEF SameClient
  <2>5. y.records[k] = t /\ \A l \in Key : l # k => y.records[l] = rest.records[l]
    <3>1. IsPut([rest.records EXCEPT ![k] = t], rest.records, k, t)
      BY <1>2, <1>9, HeldExcept
    <3> QED BY <2>2, <2>3, <3>1 DEF IsPut
  <2>6. SameElsewhere(x, y, k)
    BY <1>4, <2>2, <2>3, <2>5 DEF SameElsewhere, SameDoubts
  <2>7. y.calls = Tail(x.calls) /\ y.cache = x.cache
    BY <1>1, <2>4 DEF SameClient
  <2>8. AgreesOn(y, k)
    <3> SUFFICES ASSUME NEW what \in Matters, ~ IsReported(Tail(x.calls), k, what)
                 PROVE  Same(what, y.records[k], x.cache[k])
      BY <2>7 DEF AgreesOn
    <3>1. CASE what = "record"
      BY <3>1, <1>2, <1>7, <2>5 DEF Same
    <3>2. CASE what = "position"
      BY <3>2, <1>6, <2>5
    <3> QED BY <3>1, <3>2 DEF Matters
  <2> QED BY <1>5, <2>3, <2>4, <2>6, <2>8, HeardFits DEF rest, k
<1> QED BY <1>10, <1>11

\* The removal is sent once more.
LEMMA DidRemoveFits ==
  ASSUME instance \in Instances, NEW records \in Records, NEW ms \in SUBSET Key,
         NEW x, Fits(x, records, ms), x.calls # <<>>,
         Head(x.calls).name = "didRemove", NEW y \in Handled(x, Head(x.calls))
  PROVE  Fits(y, records, ms)
<1> DEFINE k == Head(x.calls).key
           heard == Current(Taken(x), k)
           z == RemoveFromCoreData(heard, k)
<1>1. /\ SameContext(x, Taken(x)) /\ SameDoubts(x, Taken(x)) /\ Taken(x).cache = x.cache
      /\ Taken(x).calls = Tail(x.calls) /\ ContextOK(Taken(x), ms)
      /\ QueuesOK(Taken(x), ms) /\ ClientOK(Taken(x), records)
      /\ CallOK(Head(x.calls), ms)
  BY TakenOK
<1>2. k \in ms
  BY <1>1 DEF CallOK, ReportNames
<1>3. y = Write(z, k, Gone)
  BY HandledCases DEF RemoveRecord
<1>4. /\ ContextOK(heard, ms) /\ SameClient(Taken(x), heard) /\ heard.records = x.records
      /\ heard.doubtful = x.doubtful \ {k} /\ heard.stale = x.stale \ {k}
  <2>1. Taken(x).records = x.records /\ Taken(x).doubtful = x.doubtful /\ Taken(x).stale = x.stale
    BY <1>1 DEF SameContext, SameDoubts
  <2> QED BY <1>1, <2>1, CurrentOK
<1> HIDE DEF heard
<1>5. k \in Key /\ heard.records \in Records
  BY <1>2, <1>4 DEF ContextOK, Whole, DeviceState
<1>6. \A l \in Key : \A what \in Matters : l # k => ~ Reports(Head(x.calls), l, what)
  BY DEF Reports
<1> HIDE DEF k
<1>7. /\ ContextOK(z, ms) /\ SameClient(heard, z) /\ SameDoubts(heard, z)
      /\ z.records = [heard.records EXCEPT ![k] = Gone]
  BY <1>4, <1>5, RemoveOK
<1> HIDE DEF z
<1>8. z.records[k] = Gone /\ \A l \in Key : l # k => z.records[l] = heard.records[l]
  <2>1. IsPut([heard.records EXCEPT ![k] = Gone], heard.records, k, Gone)
    BY <1>5, HeldExcept
  <2> QED BY <1>7, <2>1 DEF IsPut
<1>9. SameClient(Taken(x), z)
  BY <1>4, <1>7 DEF SameClient
<1>10. QueuesOK(z, ms) /\ ClientOK(z, records)
  BY <1>1, <1>9, SameClientFits
<1>11. ASSUME NEW l \in Key, l # k PROVE AgreesOn(z, l)
  <2> SUFFICES ASSUME NEW what \in Matters, ~ IsReported(z.calls, l, what), l \notin Doubts(z, what)
               PROVE  Same(what, z.records[l], z.cache[l])
    BY DEF AgreesOn
  <2>1. z.calls = Tail(x.calls) /\ z.cache = x.cache /\ z.records[l] = x.records[l]
    BY <1>1, <1>4, <1>8, <1>9, <1>11 DEF SameClient
  <2>2. l \notin Doubts(x, what)
    BY <1>4, <1>7, <1>11 DEF SameDoubts, Doubts
  <2>3. ~ Reports(Head(x.calls), l, what)
    BY <1>6, <1>11
  <2>4. Same(what, x.records[l], x.cache[l])
    BY <2>1, <2>2, <2>3, TakenAgrees
  <2> QED BY <2>1, <2>4
<1> QED BY <1>2, <1>3, <1>7, <1>8, <1>10, <1>11, WriteFits

\* One more observer hears of all that there is.
LEMMA ObservedFits ==
  ASSUME instance \in Instances, NEW records \in Records, NEW ms \in SUBSET Key,
         NEW x, Fits(x, records, ms), x.calls # <<>>,
         Head(x.calls).name = "connected", NEW y \in Handled(x, Head(x.calls))
  PROVE  Fits(y, records, ms)
<1> DEFINE rest == Taken(x)
           seen == Overlay(rest.cache, rest.out)
           r == CallsFor(1, "didAdd", Held(seen), seen)
<1>1. y = [rest EXCEPT !.observers = @ + 1, !.cache = seen, !.calls = @ \o r]
  BY HandledCases DEF Observed
<1>2. /\ rest \in DeviceState /\ SameContext(x, rest) /\ SameDoubts(x, rest)
      /\ rest.cache = x.cache /\ rest.out = x.out
      /\ rest.calls = Tail(x.calls) /\ x.calls \in Seq(Call)
      /\ ContextOK(rest, ms) /\ QueuesOK(rest, ms) /\ ClientOK(rest, records)
      /\ x.observers + 1 + Cardinality(Connecting(Tail(x.calls))) <= MaxObservers
  BY TakenOK
<1> HIDE DEF rest
<1>3. /\ rest.out \in Seq(WriteRecord) /\ rest.calls \in Seq(Call) /\ rest.observers \in Nat
      /\ rest.cache \in Records /\ Held(rest.cache) \subseteq ms
  BY <1>2 DEF DeviceState, ContextOK, Whole
<1>4. seen \in Records /\ Held(seen) \subseteq ms /\ Overlay(seen, rest.out) = seen
  BY <1>2, <1>3, OverlayType, OverlayWithin, OverlayTwice DEF QueuesOK
<1>5. rest.observers > 0 => seen = rest.cache
  BY <1>2 DEF ClientOK, ClientHolds
<1> HIDE DEF seen
<1>6. TellsPart(r, "didAdd", Held(seen), rest.cache, seen)
  <2>1. Held(seen) \in SUBSET (Held(rest.cache) \cup Held(seen))
    OBVIOUS
  <2>2. \A k \in Held(seen) : seen[k] = Gone <=> "didAdd" = "didRemove"
    BY DEF Held
  <2>3. "didAdd" \in {"didAdd", "didUpdate", "didRemove"} /\ 1 \in Nat /\ 1 > 0
    OBVIOUS
  <2> QED BY <2>1, <2>2, <2>3, <1>3, <1>4, KeyFacts, PartFacts
<1> HIDE DEF r
<1>7. r \in Seq(Call)
  BY <1>6 DEF TellsPart
<1>8. TellsChange(r, rest.cache, seen)
  <2>1. ASSUME NEW k \in Key, NEW what \in Matters, ~ IsReported(r, k, what)
        PROVE  Same(what, rest.cache[k], seen[k])
    <3>1. CASE rest.observers > 0
      BY <3>1, <1>5, SameFacts
    <3>2. CASE ~(rest.observers > 0)
      <4>1. rest.cache = NoRecords
        BY <3>2, <1>2, <1>3 DEF ClientOK, ClientHolds
      <4>2. "didAdd" \in ReportNames(what)
        BY DEF ReportNames
      <4>3. k \notin Held(seen)
        BY <4>2, <2>1, <1>6 DEF TellsPart, IsReported, Reports
      <4>4. seen[k] = Gone /\ rest.cache[k] = Gone
        BY <4>1, <4>3 DEF Held, NoRecords
      <4> QED BY <4>4, SameFacts
    <3> QED BY <3>1, <3>2
  <2> QED BY <2>1, <1>6 DEF TellsChange, TellsPart
<1>9. rest.calls \o r \in Seq(Call) /\ rest.observers + 1 \in 0 .. MaxObservers
  <2>1. Cardinality(Connecting(rest.calls)) \in Nat
    BY <1>3, ConnectingType
  <2>2. x.observers = rest.observers
    BY <1>2 DEF SameContext
  <2> QED BY <2>1, <2>2, <1>2, <1>3, <1>7, InstanceFacts
<1>10. /\ y \in DeviceState /\ y.records = rest.records /\ y.link = rest.link /\ y.disk = rest.disk
       /\ y.line = rest.line /\ y.observers = rest.observers + 1 /\ y.cache = seen
       /\ y.calls = rest.calls \o r /\ y.out = rest.out /\ SameDoubts(rest, y)
  BY <1>1, <1>2, <1>4, <1>9 DEF DeviceState, SameDoubts
<1>11. ContextOK(y, ms)
  BY <1>2, <1>4, <1>10 DEF ContextOK, Whole, SavedOK, Broken
<1>12. QueuesOK(y, ms)
  <2>1. y.observers + Cardinality(Connecting(rest.calls)) <= MaxObservers
    BY <1>2, <1>10 DEF SameContext
  <2>2. Held(rest.cache) \cup Held(seen) \subseteq ms
    BY <1>3, <1>4
  <2> QED BY <1>2, <1>8, <1>10, <2>1, <2>2, QueuesGrow
<1>13. ClientOK(y, records)
  <2>1. CallsTell(y.calls, y.cache)
    <3>1. CallsTell(rest.calls, rest.cache)
      BY <1>2 DEF ClientOK, ClientHolds
    <3>2. CallsTell(rest.calls \o r, seen)
      BY <3>1, <1>3, <1>8, CallsGoOnTelling
    <3> QED BY <3>2, <1>10
  <2>2. y.line = "up" => y.cache = Overlay(records, y.out)
    BY <1>2, <1>5, <1>10 DEF ClientOK, ClientHolds
  <2> QED BY <2>1, <2>2, <1>3, <1>4, <1>10 DEF ClientOK, ClientHolds
<1>14. ASSUME NEW k \in Key PROVE AgreesOn(y, k)
  <2> SUFFICES ASSUME NEW what \in Matters, ~ IsReported(y.calls, k, what), k \notin Doubts(y, what)
               PROVE  Same(what, y.records[k], y.cache[k])
    BY DEF AgreesOn
  <2>1. ~ IsReported(Tail(x.calls), k, what) /\ ~ IsReported(r, k, what)
    <3>1. ~ IsReported(rest.calls \o r, k, what)
      BY <1>10
    <3>2. ~ IsReported(rest.calls, k, what) /\ ~ IsReported(r, k, what)
      BY <3>1, <1>3, <1>7, ReportsIn
    <3> QED BY <3>2, <1>2
  <2>2. ~ Reports(Head(x.calls), k, what)
    BY DEF Reports, ReportNames
  <2>3. k \notin Doubts(x, what)
    BY <1>2, <1>10 DEF Doubts, SameDoubts
  <2>4. Same(what, x.records[k], x.cache[k])
    BY <2>1, <2>2, <2>3, TakenAgrees
  <2>5. Same(what, rest.cache[k], seen[k])
    BY <2>1, <1>8 DEF TellsChange
  <2>6. y.records = x.records /\ y.cache = seen /\ rest.cache = x.cache
    BY <1>2, <1>10 DEF SameContext
  <2> QED BY <2>4, <2>5, <2>6, SameFacts
<1> QED BY <1>11, <1>12, <1>13, <1>14 DEF Fits

\* The records after an answer: the first ones it brings are saved with nothing
\* that was there before.
LEMMA BroughtOK ==
  ASSUME instance \in Instances, NEW ms \in SUBSET Key, NEW x, ContextOK(x, ms),
         NEW all \in Records, Held(all) \subseteq ms, NEW new, new = Held(all) \ Held(x.records),
         NEW l, IF new = {} THEN l = x.link ELSE l \in new,
         NEW y,
         y = [x EXCEPT !.records = [k \in Key |-> IF k \in new THEN all[k] ELSE x.records[k]],
                       !.link = l]
  PROVE  ContextOK(y, ms) /\ SameClient(x, y)
<1> DEFINE whole == [k \in Key |-> IF k \in new THEN all[k] ELSE x.records[k]]
<1>1. /\ x \in DeviceState /\ x.records \in Records /\ x.link \in Link
      /\ x.link \in Held(x.records) \cup {NoKey} /\ Held(x.records) \subseteq ms
  BY DEF ContextOK, Whole, DeviceState
<1>2. whole \in Records /\ Held(whole) = Held(x.records) \cup new
      /\ \A k \in Key \ new : whole[k] = x.records[k]
  BY <1>1 DEF Records, Held
<1>3. new = {} => whole = x.records
  BY <1>1, <1>2 DEF Records
<1>4. new \subseteq ms /\ new \subseteq Key /\ new \cap Held(x.records) = {}
  BY DEF Held
<1>5. l \in Held(whole) \cup {NoKey} /\ l \in Link
  BY <1>1, <1>2, <1>4 DEF Link
<1>6. y = [x EXCEPT !.records = whole, !.link = l]
  OBVIOUS
<1> HIDE DEF whole
<1>7. Becomes(x, y, whole, l)
  BY <1>1, <1>2, <1>5, <1>6 DEF DeviceState, Becomes, SameClient, SameDoubts
<1>8. Held(whole) \subseteq ms
  BY <1>1, <1>2, <1>4
<1>9. Whole(y, ms)
  BY <1>5, <1>7, <1>8, BecomesWhole DEF ContextOK
<1>10. SavedOK(y)
  <2>1. CASE new = {}
    <3>1. y.records = x.records /\ y.link = x.link /\ y.disk = x.disk
      BY <2>1, <1>3, <1>7 DEF Becomes
    <3> QED BY <3>1 DEF ContextOK, SavedOK, Broken
  <2>2. CASE new # {}
    <3>1. Broken(y) = {} => Held(x.records) = {}
      <4>1. Broken(y) = (Held(x.records) \cup new) \ {l} /\ l \in new
        BY <2>2, <1>2, <1>7 DEF Broken, Becomes
      <4> QED BY <4>1, <1>4
    <3>2. Broken(y) = {} => Held(y.disk.records) = {}
      BY <3>1, <1>7 DEF ContextOK, SavedOK, Becomes
    <3>3. Held(y.records) # {}
      BY <2>2, <1>2, <1>7 DEF Becomes
    <3> QED BY <3>2, <3>3 DEF SavedOK
  <2> QED BY <2>1, <2>2
<1> QED BY <1>7, <1>9, <1>10 DEF ContextOK, Becomes

\* What an answer brings and what it takes.
LEMMA DidGetOK ==
  ASSUME instance \in Instances, NEW ms \in SUBSET Key, NEW x, ContextOK(x, ms),
         NEW all \in Records, Held(all) \subseteq ms, NEW z \in DidGet(x, all)
  PROVE  ContextOK(z, ms) /\ SameClient(x, z)
<1> DEFINE new == Held(all) \ Held(x.records)
           lost == Held(x.records) \ Held(all)
<1>1. PICK l \in IF new = {} THEN {x.link} ELSE new :
        z = InTurn(RemoveFromCoreData,
                   [x EXCEPT !.records = [k \in Key |-> IF k \in new THEN all[k] ELSE x.records[k]],
                             !.link = l],
                   lost)
  BY DEF DidGet
<1> DEFINE y == [x EXCEPT !.records = [k \in Key |-> IF k \in new THEN all[k] ELSE x.records[k]],
                          !.link = l]
<1>2. IF new = {} THEN l = x.link ELSE l \in new
  OBVIOUS
<1>3. ContextOK(y, ms) /\ SameClient(x, y)
  BY <1>2, BroughtOK
<1>4. lost \in SUBSET Key
  BY DEF Held
<1>5. IsFiniteSet(lost)
  BY <1>4, KeyFacts, FS_Subset
<1>6. z = InTurn(RemoveFromCoreData, y, lost)
  BY <1>1
<1> HIDE DEF y, lost, new
<1> DEFINE S == {u \in DeviceState : ContextOK(u, ms) /\ SameClient(x, u)}
<1>7. ASSUME NEW u \in S, NEW k \in lost PROVE RemoveFromCoreData(u, k) \in S
  <2>1. k \in Key
    BY <1>4
  <2>2. ContextOK(RemoveFromCoreData(u, k), ms) /\ SameClient(u, RemoveFromCoreData(u, k))
    BY <2>1, RemoveOK
  <2>3. SameClient(x, RemoveFromCoreData(u, k))
    BY <2>2 DEF SameClient
  <2> QED BY <2>2, <2>3 DEF ContextOK, Whole
<1>8. y \in S
  BY <1>3 DEF ContextOK, Whole
<1> HIDE DEF S
<1>9. z \in S
  BY <1>5, <1>6, <1>7, <1>8, RemoveLostStays
<1> QED BY <1>9 DEF S

LEMMA DidGetFits ==
  ASSUME instance \in Instances, NEW records \in Records, NEW ms \in SUBSET Key,
         NEW x, Fits(x, records, ms), x.calls # <<>>,
         Head(x.calls).name = "didGet", NEW y \in Handled(x, Head(x.calls))
  PROVE  Fits(y, records, ms)
<1> DEFINE rest == Taken(x)
           all == Head(x.calls).all
<1>1. /\ ContextOK(rest, ms) /\ QueuesOK(rest, ms) /\ ClientOK(rest, records)
      /\ CallOK(Head(x.calls), ms) /\ Head(x.calls) \in Call
  BY TakenOK
<1>2. all \in Records /\ Held(all) \subseteq ms
  BY <1>1 DEF CallOK, Call
<1>3. PICK z \in DidGet(rest, all) : y = Noted(z)
  BY HandledCases
<1> HIDE DEF rest, all
<1>4. ContextOK(z, ms) /\ SameClient(rest, z)
  BY <1>1, <1>2, DidGetOK
<1>5. QueuesOK(z, ms) /\ ClientOK(z, records)
  BY <1>1, <1>4, SameClientFits
<1>6. z \in DeviceState /\ Held(z.cache) \subseteq ms
  BY <1>4 DEF ContextOK, Whole
<1>7. /\ y \in DeviceState /\ SameContext(z, y) /\ SameClient(z, y)
      /\ y.doubtful = {k \in Key : (z.records[k] = Gone) # (z.cache[k] = Gone)}
      /\ y.stale = {k \in Key : z.records[k] # z.cache[k]}
  BY <1>3, <1>6 DEF Noted, DeviceState, SameContext, SameClient
<1>8. ContextOK(y, ms)
  BY <1>4, <1>6, <1>7, SameContextOK DEF SameClient
<1>9. QueuesOK(y, ms) /\ ClientOK(y, records)
  BY <1>5, <1>7, SameClientFits
<1>10. ASSUME NEW k \in Key PROVE AgreesOn(y, k)
  <2>1. y.records = z.records /\ y.cache = z.cache
    BY <1>7 DEF SameContext, SameClient
  <2>2. k \notin y.doubtful => (z.records[k] = Gone <=> z.cache[k] = Gone)
    BY <1>7
  <2>3. k \notin y.stale => z.records[k] = z.cache[k]
    BY <1>7
  <2>4. \A what \in Matters : k \notin Doubts(y, what) => Same(what, z.records[k], z.cache[k])
    BY <2>2, <2>3 DEF Doubts, Same, Matters
  <2> QED BY <2>1, <2>4 DEF AgreesOn
<1> QED BY <1>8, <1>9, <1>10 DEF Fits

\* The next callback.
LEMMA HandledFits ==
  ASSUME instance \in Instances, NEW records \in Records, NEW ms \in SUBSET Key,
         NEW x, Fits(x, records, ms), x.calls # <<>>, NEW y \in Handled(x, Head(x.calls))
  PROVE  Fits(y, records, ms)
<1>1. Head(x.calls) \in Call
  BY TakenOK
<1>2. Head(x.calls).name \in {"didAdd", "didUpdate", "didRemove", "didGet", "connected"}
  BY <1>1 DEF Call
<1> QED BY <1>2, DidAddFits, DidUpdateFits, DidRemoveFits, ObservedFits, DidGetFits


-----------------------------------------------------------------------------
(* The connection.                                                         *)

\* A callback that reports nothing is added: a request's answer, or, where the
\* bound allows it, a connection.
LEMMA QuietFits ==
  ASSUME instance \in Instances, NEW records, NEW ms, NEW x, Fits(x, records, ms),
         NEW c \in Call, c.name \notin ReportNames("position"),
         c.name = "didGet" => Held(c.all) \subseteq ms,
         c.name = "connected" => x.observers + Cardinality(Connecting(x.calls)) < MaxObservers,
         NEW y \in DeviceState, SameContext(x, y), SameDoubts(x, y),
         y.cache = x.cache, y.out = x.out, y.calls = Append(x.calls, c)
  PROVE  Fits(y, records, ms)
<1>1. x \in DeviceState /\ x.calls \in Seq(Call) /\ x.observers \in Nat /\ Held(x.cache) \subseteq ms
  BY DEF Fits, ContextOK, Whole, DeviceState
<1>2. ContextOK(y, ms)
  BY <1>1, SameContextOK DEF Fits
<1>3. QueuesOK(y, ms)
  <2>1. /\ Cardinality(Connecting(x.calls)) \in Nat
        /\ Cardinality(Connecting(y.calls))
             = Cardinality(Connecting(x.calls)) + (IF c.name = "connected" THEN 1 ELSE 0)
    BY <1>1, ConnectingType, ConnectingAppend
  <2>2. y.observers + Cardinality(Connecting(y.calls)) <= MaxObservers
    BY <1>1, <2>1, InstanceFacts DEF Fits, QueuesOK, SameContext
  <2>3. CallOK(c, ms)
    BY DEF CallOK
  <2>4. \A i \in DOMAIN y.calls : y.calls[i] = c \/ (i \in DOMAIN x.calls /\ y.calls[i] = x.calls[i])
    BY <1>1
  <2>5. \A i \in DOMAIN y.calls : CallOK(y.calls[i], ms)
    BY <2>3, <2>4 DEF Fits, QueuesOK
  <2> QED BY <2>2, <2>5 DEF Fits, QueuesOK
<1>4. /\ CallsTell(y.calls, y.cache)
      /\ \A k : \A what \in Matters : IsReported(y.calls, k, what) <=> IsReported(x.calls, k, what)
  BY <1>1, QuietAppend DEF Fits, ClientOK, ClientHolds
<1>5. NothingReported(x.calls) => NothingReported(y.calls)
  BY <1>4 DEF NothingReported
<1>6. ClientOK(y, records)
  BY <1>4, <1>5 DEF Fits, ClientOK, ClientHolds, SameContext
<1>7. \A k \in Key : AgreesOn(y, k)
  BY <1>4 DEF Fits, AgreesOn, SameContext, Doubts, SameDoubts
<1> QED BY <1>2, <1>3, <1>6, <1>7 DEF Fits

\* All but the line, the request and the player stays.
SameButLine(x, y) ==
  /\ y \in DeviceState /\ y.records = x.records /\ y.link = x.link /\ y.disk = x.disk
  /\ y.observers = x.observers /\ y.cache = x.cache /\ y.out = x.out
  /\ y.calls = x.calls /\ SameDoubts(x, y)

LEMMA SameButLineOK ==
  ASSUME NEW ms, NEW x, ContextOK(x, ms), QueuesOK(x, ms), \A k \in Key : AgreesOn(x, k),
         NEW y, SameButLine(x, y)
  PROVE  ContextOK(y, ms) /\ QueuesOK(y, ms) /\ \A k \in Key : AgreesOn(y, k)
<1>1. ContextOK(y, ms)
  BY DEF SameButLine, ContextOK, Whole, SavedOK, Broken
<1>2. QueuesOK(y, ms)
  BY DEF SameButLine, QueuesOK
<1>3. \A k \in Key : AgreesOn(y, k)
  BY DEF SameButLine, AgreesOn, Doubts, SameDoubts
<1> QED BY <1>1, <1>2, <1>3

\* The line stays or goes down.
LEMMA LineFits ==
  ASSUME NEW records, NEW ms, NEW x, Fits(x, records, ms),
         NEW y, SameButLine(x, y), y.line \in {x.line, "down", "open"}
  PROVE  Fits(y, records, ms)
<1>1. ContextOK(y, ms) /\ QueuesOK(y, ms) /\ \A k \in Key : AgreesOn(y, k)
  BY SameButLineOK DEF Fits
<1>2. ClientOK(y, records)
  BY DEF Fits, ClientOK, ClientHolds, SameButLine
<1> QED BY <1>1, <1>2 DEF Fits

\* A process that starts.
LEMMA StartedFits ==
  ASSUME instance \in Instances, NEW records, NEW ms, NEW x, Fits(x, records, ms)
  PROVE  Fits(Started(x.disk), records, ms)
<1> DEFINE y == Started(x.disk)
<1>1. /\ x \in DeviceState /\ x.disk.records \in Records /\ x.disk.link \in Link
      /\ x.disk \in [records : Records, link : Link] /\ Held(x.disk.records) \in SUBSET Key
  <2>1. x \in DeviceState
    BY DEF Fits, ContextOK, Whole
  <2> QED BY <2>1 DEF DeviceState, Held
<1>2. /\ y.records = x.disk.records /\ y.link = x.disk.link /\ y.disk = x.disk /\ y.line = "down"
      /\ y.observers = 0 /\ y.cache = NoRecords /\ y.out = <<>> /\ y.calls = <<>>
      /\ y.doubtful = Held(x.disk.records) /\ y.stale = Held(x.disk.records)
  BY DEF Started
<1>3. y \in DeviceState
  BY <1>1, InstanceFacts, KeyFacts DEF Started, DeviceState
<1> HIDE DEF y
<1>4. Held(y.cache) = {} /\ Held(x.disk.records) \subseteq ms
  BY <1>2 DEF Held, NoRecords, Fits, ContextOK, Whole
<1>5. ContextOK(y, ms)
  <2>1. Whole(y, ms)
    BY <1>2, <1>3, <1>4 DEF Whole, Fits, ContextOK
  <2>2. SavedOK(y)
    BY <1>2 DEF SavedOK
  <2> QED BY <2>1, <2>2 DEF ContextOK
<1>6. QueuesOK(y, ms)
  <2>1. Connecting(y.calls) = {}
    BY <1>2 DEF Connecting
  <2>2. Cardinality(Connecting(y.calls)) = 0
    BY <2>1, FS_EmptySet
  <2> QED BY <1>2, <2>2, InstanceFacts DEF QueuesOK
<1>7. ClientOK(y, records)
  BY <1>2 DEF ClientOK, ClientHolds, CallsTell, NothingReported, IsReported, IsLastReport, Reports
<1>8. ASSUME NEW k \in Key PROVE AgreesOn(y, k)
  <2>1. k \in Held(x.disk.records) \/ y.records[k] = y.cache[k]
    BY <1>2 DEF Held, NoRecords
  <2> QED BY <2>1, <1>2, SameFacts DEF AgreesOn, Doubts
<1> QED BY <1>5, <1>6, <1>7, <1>8 DEF Fits, y

-----------------------------------------------------------------------------
(* The actions keep the invariant.                                         *)

\* More records are made.
LEMMA FitsMore ==
  ASSUME NEW records, NEW ms, NEW more, ms \subseteq more, NEW x, Fits(x, records, ms)
  PROVE  Fits(x, records, more)
<1>1. ContextOK(x, more)
  BY DEF Fits, ContextOK, Whole
<1>2. QueuesOK(x, more)
  BY DEF Fits, QueuesOK, CallOK
<1> QED BY <1>1, <1>2 DEF Fits

\* The same bounds: what fits in the next state fits in this sense.
LEMMA FitsNext ==
  ASSUME instance' = instance, NEW d \in Device, Fits(dev'[d], server', 1 .. made')
  PROVE  Fits(dev[d], server, 1 .. made)'
<1>1. Key' = Key /\ Time' = Time /\ MaxObservers' = MaxObservers
  BY DEF Key, Time, MaxRecords, MaxTime, MaxObservers
<1>2. Records' = Records /\ Link' = Link /\ WriteRecord' = WriteRecord /\ NoRecords' = NoRecords
  BY <1>1 DEF Records, Link, WriteRecord, NoRecords
<1>3. Call' = Call
  BY <1>1, <1>2 DEF Call
<1>4. DeviceState' = DeviceState
  BY <1>1, <1>2, <1>3 DEF DeviceState
<1>5. ContextOK(dev[d], 1 .. made)'
  BY <1>1, <1>4 DEF Fits, ContextOK, Whole, SavedOK, Broken, Held
<1>6. QueuesOK(dev[d], 1 .. made)'
  BY <1>1 DEF Fits, QueuesOK, CallOK, Held
<1>7. ClientOK(dev[d], server)'
  <2>1. ClientHolds(dev[d])'
    BY <1>1, <1>2 DEF Fits, ClientOK, ClientHolds, CallsTell, NothingReported, Overlay
  <2>2. (dev[d].line = "up" => dev[d].cache = Overlay(server, dev[d].out))'
    BY <1>1 DEF Fits, ClientOK, Overlay
  <2> QED BY <2>1, <2>2 DEF ClientOK
<1>8. (\A k \in Key : AgreesOn(dev[d], k))'
  BY <1>1 DEF Fits, AgreesOn
<1> QED BY <1>5, <1>6, <1>7, <1>8 DEF Fits

LEMMA StepHolds ==
  ASSUME IInv, instance' = instance, restarts' \in 0 .. MaxRestarts, ticks' \in 0 .. MaxTicks,
         made' \in 0 .. MaxRecords, server' \in Records, Held(server') \subseteq 1 .. made',
         DOMAIN dev' = Device, dev' = [d \in DOMAIN dev' |-> dev'[d]],
         \A d \in Device : Fits(dev'[d], server', 1 .. made')
  PROVE  IInv'
<1>1. (/\ instance \in Instances /\ restarts \in 0 .. MaxRestarts /\ ticks \in 0 .. MaxTicks
       /\ made \in 0 .. MaxRecords)'
  BY DEF IInv, MaxRestarts, MaxTicks, MaxRecords
<1>2. (server \in Records /\ Held(server) \subseteq 1 .. made)'
  BY DEF Records, Held, Key, Time, MaxRecords, MaxTime
<1>3. \A d \in Device : Fits(dev[d], server, 1 .. made)'
  BY FitsNext
<1>4. \A d \in Device : (dev[d] \in DeviceState)'
  BY <1>3 DEF Fits, ContextOK, Whole
<1>5. (dev \in [Device -> DeviceState])'
  BY <1>4
<1> QED BY <1>1, <1>2, <1>3, <1>5 DEF IInv

\* A device alone changes.
LEMMA DoesHolds ==
  ASSUME IInv, instance' = instance, restarts' \in 0 .. MaxRestarts, ticks' \in 0 .. MaxTicks,
         UNCHANGED <<server, made>>,
         NEW d \in Device, NEW x, Does(d, x), Fits(x, server, 1 .. made)
  PROVE  IInv'
<1>1. \A e \in Device : dev'[e] = IF e = d THEN x ELSE dev[e]
  BY DEF Does, IInv
<1>2. \A e \in Device : Fits(dev'[e], server', 1 .. made')
  BY <1>1 DEF IInv
<1>3. DOMAIN dev' = Device /\ dev' = [e \in DOMAIN dev' |-> dev'[e]]
  BY DEF Does, IInv
<1> QED BY <1>2, <1>3, StepHolds DEF IInv

\* What all devices satisfy.
LEMMA DeviceFacts ==
  ASSUME IInv, NEW d \in Device
  PROVE  /\ Fits(dev[d], server, 1 .. made) /\ dev[d] \in DeviceState
         /\ (1 .. made) \in SUBSET Key /\ server \in Records /\ Held(server) \subseteq 1 .. made
         /\ restarts \in 0 .. MaxRestarts /\ ticks \in 0 .. MaxTicks /\ instance \in Instances
         /\ made \in 0 .. MaxRecords /\ MaxRecords \in Nat
BY InstanceFacts DEF IInv, Key

LEMMA PlayerHolds ==
  ASSUME IInv, instance' = instance, NEW d \in Device, Play(d) \/ \E t \in Time : Tick(d, t)
  PROVE  IInv'
<1> DEFINE x == dev[d]
<1>1. /\ Fits(x, server, 1 .. made) /\ x \in DeviceState /\ (1 .. made) \in SUBSET Key
      /\ server \in Records /\ restarts \in 0 .. MaxRestarts /\ ticks \in 0 .. MaxTicks
      /\ instance \in Instances
  BY DeviceFacts
<1>2. CASE Play(d)
  <2> DEFINE y == [x EXCEPT !.playing = ~ @]
  <2>1. y \in DeviceState
    <3>1. (~ x.playing) \in BOOLEAN
      BY <1>1 DEF DeviceState
    <3> QED BY <1>1, <3>1 DEF DeviceState
  <2>2. SameButLine(x, y) /\ y.line = x.line
    BY <1>1, <2>1 DEF SameButLine, SameDoubts, DeviceState
  <2>3. Does(d, y) /\ UNCHANGED <<server, made, ticks, restarts>>
    BY <1>2 DEF Play
  <2> HIDE DEF y
  <2>4. Fits(y, server, 1 .. made)
    BY <1>1, <2>2, LineFits
  <2> QED BY <1>1, <2>3, <2>4, DoesHolds
<1>3. ASSUME NEW t \in Time, Tick(d, t) PROVE IInv'
  <2>1. Fits(SaveProgress(x, t), server, 1 .. made)
    BY <1>1, <1>3, SaveProgressFits DEF Tick
  <2>2. Does(d, SaveProgress(x, t)) /\ UNCHANGED <<server, made, restarts>>
    BY <1>3 DEF Tick
  <2>3. ticks' \in 0 .. MaxTicks
    BY <1>1, <1>3, InstanceFacts DEF Tick
  <2> QED BY <1>1, <2>1, <2>2, <2>3, DoesHolds
<1> QED BY <1>2, <1>3

LEMMA FirstTickHolds ==
  ASSUME IInv, instance' = instance, NEW d \in Device, FirstTick(d)
  PROVE  IInv'
<1> DEFINE k == made + 1
           more == 1 .. made'
<1>1. made \in 0 .. MaxRecords /\ MaxRecords \in Nat /\ ticks \in 0 .. MaxTicks /\ MaxTicks \in Nat
      /\ instance \in Instances /\ server \in Records /\ Held(server) \subseteq 1 .. made
      /\ restarts \in 0 .. MaxRestarts
  BY DeviceFacts, InstanceFacts
<1>2. /\ made' = k /\ made' \in 0 .. MaxRecords /\ ticks' \in 0 .. MaxTicks
      /\ more \in SUBSET Key /\ k \in more /\ 1 .. made \subseteq more
  BY <1>1 DEF FirstTick, Key
<1>3. dev' = [dev EXCEPT ![d] = MakeRecord(dev[d], k)] /\ UNCHANGED <<server, restarts>>
  BY DEF FirstTick, Does
<1> HIDE DEF k, more
<1>4. \A e \in Device : Fits(dev[e], server, more)
  BY <1>2, FitsMore DEF IInv
<1>5. Fits(MakeRecord(dev[d], k), server, more)
  BY <1>1, <1>2, <1>4, MakeRecordFits
<1>6. \A e \in Device : dev'[e] = IF e = d THEN MakeRecord(dev[d], k) ELSE dev[e]
  BY <1>3 DEF IInv
<1>7. \A e \in Device : Fits(dev'[e], server', 1 .. made')
  BY <1>3, <1>4, <1>5, <1>6 DEF more
<1>8. DOMAIN dev' = Device /\ dev' = [e \in DOMAIN dev' |-> dev'[e]]
  BY <1>3 DEF IInv
<1>9. server' \in Records /\ Held(server') \subseteq 1 .. made' /\ restarts' \in 0 .. MaxRestarts
  BY <1>1, <1>2, <1>3 DEF more
<1> QED BY <1>2, <1>7, <1>8, <1>9, StepHolds

LEMMA UserHolds ==
  ASSUME IInv, instance' = instance, NEW d \in Device, RemoveAll(d) \/ RemoveTapped(d)
  PROVE  IInv'
<1>1. /\ Fits(dev[d], server, 1 .. made) /\ (1 .. made) \in SUBSET Key
      /\ server \in Records /\ restarts \in 0 .. MaxRestarts /\ ticks \in 0 .. MaxTicks
      /\ instance \in Instances
  BY DeviceFacts
<1>2. Held(dev[d].records) \in SUBSET (1 .. made)
      /\ dev[d].link \in Held(dev[d].records) \cup {NoKey}
  BY <1>1 DEF Fits, ContextOK, Whole
<1>3. CASE RemoveAll(d)
  <2>1. Fits(InTurn(RemoveRecord, dev[d], Held(dev[d].records)), server, 1 .. made)
    BY <1>1, <1>2, RemoveAllFits
  <2> QED BY <1>1, <1>3, <2>1, DoesHolds DEF RemoveAll
<1>4. CASE RemoveTapped(d)
  <2>1. dev[d].link \in 1 .. made
    BY <1>2, <1>4 DEF RemoveTapped
  <2>2. Fits(RemoveRecord(dev[d], dev[d].link), server, 1 .. made)
    BY <1>1, <2>1, RemoveRecordFits
  <2> QED BY <1>1, <1>4, <2>2, DoesHolds DEF RemoveTapped
<1> QED BY <1>3, <1>4

LEMMA RunCallHolds ==
  ASSUME IInv, instance' = instance, NEW d \in Device, RunCall(d)
  PROVE  IInv'
<1>1. PICK x \in Handled(dev[d], Head(dev[d].calls)) : Does(d, x)
  BY DEF RunCall
<1>2. Fits(x, server, 1 .. made)
  BY DeviceFacts, HandledFits DEF RunCall
<1> QED BY <1>1, <1>2, DeviceFacts, DoesHolds DEF RunCall

\* The line, the request and the process of one device.
LEMMA LineHolds ==
  ASSUME IInv, instance' = instance, NEW d \in Device,
         Connect(d) \/ Disconnect(d) \/ Hears(d) \/ RequestFails(d) \/ Restart(d)
  PROVE  IInv'
<1> DEFINE x == dev[d]
<1>1. /\ Fits(x, server, 1 .. made) /\ x \in DeviceState /\ (1 .. made) \in SUBSET Key
      /\ server \in Records /\ Held(server) \subseteq 1 .. made
      /\ restarts \in 0 .. MaxRestarts /\ ticks \in 0 .. MaxTicks /\ instance \in Instances
  BY DeviceFacts
<1>2. x.calls \in Seq(Call) /\ x.observers \in Nat
  BY <1>1 DEF DeviceState
<1>3. CASE Connect(d)
  <2> DEFINE u == [x EXCEPT !.line = "open"]
             c == [name |-> "connected"]
             y == [u EXCEPT !.calls = Append(@, c)]
  <2>1. Does(d, y) /\ UNCHANGED <<server, made, ticks, restarts>>
        /\ x.observers + Cardinality(Connecting(x.calls)) < MaxObservers
    BY <1>1, <1>3 DEF Connect, MayConnect, Connecting, DeviceState
  <2>2. SameButLine(x, u) /\ u.line = "open"
    BY <1>1 DEF DeviceState, SameButLine, SameDoubts
  <2>3. c \in Call /\ c.name = "connected" /\ c.name \notin ReportNames("position")
    BY DEF Call, ReportNames
  <2> HIDE DEF u, c
  <2>4. Fits(u, server, 1 .. made)
    BY <1>1, <2>2, LineFits
  <2>5. u \in DeviceState /\ u.calls = x.calls /\ u.observers = x.observers
    BY <2>2 DEF SameButLine
  <2>6. Append(u.calls, c) \in Seq(Call)
    BY <1>2, <2>3, <2>5
  <2>7. /\ y \in DeviceState /\ SameContext(u, y) /\ y.cache = u.cache /\ y.out = u.out
        /\ SameDoubts(u, y) /\ y.calls = Append(u.calls, c)
    BY <2>5, <2>6 DEF DeviceState, SameContext, SameDoubts
  <2> HIDE DEF y
  <2>8. Fits(y, server, 1 .. made)
    BY <1>1, <2>1, <2>3, <2>4, <2>5, <2>7, QuietFits
  <2> QED BY <1>1, <2>1, <2>8, DoesHolds
<1>4. CASE Disconnect(d)
  <2> DEFINE y == [x EXCEPT !.line = "down"]
  <2>1. SameButLine(x, y) /\ y.line = "down"
    BY <1>1 DEF DeviceState, SameButLine, SameDoubts
  <2>2. Does(d, y) /\ UNCHANGED <<server, made, ticks, restarts>>
    BY <1>4 DEF Disconnect
  <2> HIDE DEF y
  <2>3. Fits(y, server, 1 .. made)
    BY <1>1, <2>1, LineFits
  <2> QED BY <1>1, <2>2, <2>3, DoesHolds
<1>5. CASE Hears(d)
  <2> DEFINE u == [x EXCEPT !.line = "up"]
  <2>1. SameButLine(x, u)
    BY <1>1 DEF DeviceState, SameButLine, SameDoubts
  <2>2. Does(d, Refreshed(u, server)) /\ x.observers > 0 /\ UNCHANGED <<server, made, ticks, restarts>>
    BY <1>5 DEF Hears
  <2> HIDE DEF u
  <2>3. ContextOK(u, 1 .. made) /\ QueuesOK(u, 1 .. made) /\ \A k \in Key : AgreesOn(u, k)
    BY <1>1, <2>1, SameButLineOK DEF Fits
  <2>4. ClientHolds(u)
    BY <1>1, <2>1, <2>2 DEF Fits, ClientOK, ClientHolds, SameButLine
  <2>5. Fits(Refreshed(u, server), server, 1 .. made)
    BY <1>1, <2>3, <2>4, RefreshedFits
  <2> QED BY <1>1, <2>2, <2>5, DoesHolds
<1>6. CASE RequestFails(d)
  <2> DEFINE y == [x EXCEPT !.asked = FALSE]
  <2>1. SameButLine(x, y) /\ y.line = x.line
    BY <1>1 DEF DeviceState, SameButLine, SameDoubts
  <2>2. Does(d, y) /\ UNCHANGED <<server, made, ticks, restarts>>
    BY <1>6 DEF RequestFails
  <2> HIDE DEF y
  <2>3. Fits(y, server, 1 .. made)
    BY <1>1, <2>1, LineFits
  <2> QED BY <1>1, <2>2, <2>3, DoesHolds
<1>7. CASE Restart(d)
  <2>1. Fits(Started(x.disk), server, 1 .. made)
    BY <1>1, StartedFits
  <2>2. restarts' \in 0 .. MaxRestarts /\ UNCHANGED <<server, made, ticks>>
        /\ Does(d, Started(x.disk))
    BY <1>1, <1>7, InstanceFacts DEF Restart
  <2> QED BY <1>1, <2>1, <2>2, DoesHolds
<1> QED BY <1>3, <1>4, <1>5, <1>6, <1>7

LEMMA AnswerHolds ==
  ASSUME IInv, instance' = instance, NEW d \in Device, Answer(d)
  PROVE  IInv'
<1> DEFINE u == IF dev[d].observers = 0 THEN dev[d]
                ELSE Noticed(dev[d], Overlay(server, dev[d].out))
           c == [name |-> "didGet", all |-> server]
           y == [u EXCEPT !.asked = FALSE, !.calls = Append(@, c)]
<1>1. /\ Fits(dev[d], server, 1 .. made) /\ dev[d] \in DeviceState /\ (1 .. made) \in SUBSET Key
      /\ server \in Records /\ Held(server) \subseteq 1 .. made
      /\ restarts \in 0 .. MaxRestarts /\ ticks \in 0 .. MaxTicks /\ instance \in Instances
  BY DeviceFacts
<1>2. Does(d, y) /\ UNCHANGED <<server, made, ticks, restarts>>
  BY DEF Answer
<1>3. Fits(u, server, 1 .. made)
  <2>1. CASE dev[d].observers = 0
    BY <2>1, <1>1
  <2>2. CASE dev[d].observers # 0
    <3> DEFINE new == Overlay(server, dev[d].out)
    <3>1. u = Noticed(dev[d], new)
      BY <2>2
    <3>2. dev[d].out \in Seq(WriteRecord) /\ dev[d].observers > 0
      BY <1>1, <2>2 DEF DeviceState
    <3>3. new \in Records
      BY <1>1, <3>2, OverlayType
    <3>4. Held(new) \subseteq 1 .. made
      <4>1. \A i \in DOMAIN dev[d].out : dev[d].out[i].key \in 1 .. made
        BY <1>1 DEF Fits, QueuesOK
      <4> QED BY <1>1, <3>2, <4>1, OverlayWithin
    <3>5. Overlay(new, dev[d].out) = new
      BY <1>1, <3>2, OverlayTwice
    <3>6. dev[d].line = "up" => new = Overlay(server, dev[d].out)
      OBVIOUS
    <3> HIDE DEF new, u
    <3>7. Ready(dev[d], new)
      BY <1>1, AgreesReady DEF Fits
    <3>8. /\ ContextOK(dev[d], 1 .. made) /\ QueuesOK(dev[d], 1 .. made)
          /\ CallsTell(dev[d].calls, dev[d].cache)
      BY <1>1 DEF Fits, ClientOK, ClientHolds
    <3>9. Fits(Noticed(dev[d], new), server, 1 .. made)
      BY <1>1, <3>2, <3>3, <3>4, <3>5, <3>6, <3>7, <3>8, NoticedFits
    <3> QED BY <3>1, <3>9
  <2> QED BY <2>1, <2>2
<1> HIDE DEF u
<1>4. u \in DeviceState /\ u.calls \in Seq(Call)
  BY <1>3 DEF Fits, ContextOK, Whole, DeviceState
<1>5. c \in Call /\ c.name = "didGet" /\ c.all = server /\ c.name \notin ReportNames("position")
  BY <1>1 DEF Call, ReportNames
<1> HIDE DEF c
<1>6. Append(u.calls, c) \in Seq(Call)
  BY <1>4, <1>5
<1>7. /\ y \in DeviceState /\ SameContext(u, y) /\ y.cache = u.cache /\ y.out = u.out
      /\ SameDoubts(u, y) /\ y.calls = Append(u.calls, c)
  BY <1>4, <1>6 DEF DeviceState, SameContext, SameDoubts
<1> HIDE DEF y
<1>8. Fits(y, server, 1 .. made)
  BY <1>1, <1>3, <1>5, <1>7, QuietFits
<1> QED BY <1>1, <1>2, <1>8, DoesHolds

LEMMA ServerAppliesHolds ==
  ASSUME IInv, instance' = instance, NEW d \in Device, ServerApplies(d)
  PROVE  IInv'
<1> DEFINE x == dev[d]
           records == Applied(server, Head(x.out))
           sent == [x EXCEPT !.out = Tail(@)]
<1>1. /\ Fits(x, server, 1 .. made) /\ x \in DeviceState /\ (1 .. made) \in SUBSET Key
      /\ server \in Records /\ Held(server) \subseteq 1 .. made
      /\ restarts \in 0 .. MaxRestarts /\ ticks \in 0 .. MaxTicks /\ instance \in Instances
      /\ made \in 0 .. MaxRecords
  BY DeviceFacts
<1>2. x.out # <<>> /\ x.out \in Seq(WriteRecord)
  BY <1>1 DEF ServerApplies, DeviceState
<1>3. Head(x.out) = x.out[1] /\ 1 \in DOMAIN x.out /\ Tail(x.out) \in Seq(WriteRecord)
      /\ Head(x.out) \in WriteRecord
  BY <1>2
<1>4. records \in Records /\ Held(records) \subseteq 1 .. made
  <2> DEFINE w == Head(x.out)
  <2>1. w.key \in 1 .. made /\ w.key \in Key /\ w.value \in Time \cup {Gone}
    BY <1>1, <1>3 DEF Fits, QueuesOK, WriteRecord
  <2>2. records = [server EXCEPT ![w.key] = w.value]
    BY DEF Applied
  <2> HIDE DEF w, records
  <2>3. IsPut([server EXCEPT ![w.key] = w.value], server, w.key, w.value)
    BY <1>1, <2>1, HeldExcept
  <2>4. records \in Records /\ Held(records) \subseteq Held(server) \cup {w.key}
    BY <2>2, <2>3 DEF IsPut
  <2> QED BY <1>1, <2>1, <2>4
<1>5. /\ sent \in DeviceState /\ sent.records = x.records /\ sent.link = x.link /\ sent.disk = x.disk
      /\ sent.observers = x.observers /\ sent.cache = x.cache /\ sent.out = Tail(x.out)
      /\ sent.calls = x.calls /\ SameDoubts(x, sent) /\ sent.line = x.line
  BY <1>1, <1>3 DEF DeviceState, SameDoubts
<1>6. /\ server' = records /\ UNCHANGED <<made, ticks, restarts>>
      /\ dev' = [e \in Device |-> Refreshed([dev EXCEPT ![d] = sent][e], records)]
  BY DEF ServerApplies
<1>7. DOMAIN dev' = Device /\ dev' = [e \in DOMAIN dev' |-> dev'[e]]
  BY <1>6
<1> HIDE DEF records, sent
<1>8. \A e \in Device : dev'[e] = Refreshed(IF e = d THEN sent ELSE dev[e], records)
  BY <1>6 DEF IInv
<1>9. ASSUME NEW e \in Device, e # d PROVE Fits(Refreshed(dev[e], records), records, 1 .. made)
  <2>1. Fits(dev[e], server, 1 .. made)
    BY DEF IInv
  <2>2. ClientHolds(dev[e])
    BY <2>1 DEF Fits, ClientOK
  <2> QED BY <1>1, <1>4, <2>1, <2>2, RefreshedFits DEF Fits
<1>10. Fits(Refreshed(sent, records), records, 1 .. made)
  <2>1. ContextOK(sent, 1 .. made)
    <3>1. SameContext(x, sent) /\ Held(sent.cache) \subseteq 1 .. made /\ ContextOK(x, 1 .. made)
      BY <1>1, <1>5 DEF Fits, ContextOK, Whole, SameContext
    <3> QED BY <1>5, <3>1, SameContextOK
  <2>2. QueuesOK(sent, 1 .. made)
    <3>1. \A i \in DOMAIN sent.out : i + 1 \in DOMAIN x.out /\ sent.out[i] = x.out[i + 1]
      BY <1>2, <1>5
    <3> QED BY <1>1, <1>5, <3>1 DEF Fits, QueuesOK
  <2>3. sent.observers > 0 => Overlay(sent.cache, sent.out) = sent.cache
    <3>1. x.cache \in Records
      BY <1>1 DEF DeviceState
    <3> QED BY <1>1, <1>2, <1>5, <3>1, OverlayTail DEF Fits, ClientOK, ClientHolds
  <2>4. ClientHolds(sent)
    BY <1>1, <1>5, <2>3 DEF Fits, ClientOK, ClientHolds
  <2>5. \A k \in Key : AgreesOn(sent, k)
    BY <1>1, <1>5 DEF Fits, AgreesOn, Doubts, SameDoubts
  <2> QED BY <1>1, <1>4, <2>1, <2>2, <2>4, <2>5, RefreshedFits
<1>11. \A e \in Device : Fits(dev'[e], server', 1 .. made')
  BY <1>6, <1>8, <1>9, <1>10
<1> QED BY <1>1, <1>4, <1>6, <1>7, <1>11, StepHolds

LEMMA InitHolds == Init => IInv
<1> SUFFICES ASSUME Init PROVE IInv
  OBVIOUS
<1> DEFINE disk == [records |-> NoRecords, link |-> NoKey]
           x == Started(disk)
<1>1. MaxObservers \in Nat /\ MaxRestarts \in Nat /\ MaxTicks \in Nat /\ MaxRecords \in Nat
      /\ instance \in Instances /\ NoRecords \in Records /\ Held(NoRecords) = {}
  BY InstanceFacts, KeyFacts DEF Init, Held, NoRecords
<1>2. x \in DeviceState
  BY <1>1 DEF Started, DeviceState, Link
<1>3. /\ x.records = NoRecords /\ x.link = NoKey /\ x.disk = disk /\ x.line = "down"
      /\ x.observers = 0 /\ x.cache = NoRecords /\ x.out = <<>> /\ x.calls = <<>>
      /\ x.doubtful = {} /\ x.stale = {} /\ disk.records = NoRecords /\ disk.link = NoKey
  BY <1>1 DEF Started
<1> HIDE DEF x, disk
<1>4. ContextOK(x, 1 .. 0)
  BY <1>1, <1>2, <1>3 DEF ContextOK, Whole, SavedOK
<1>5. QueuesOK(x, 1 .. 0)
  <2>1. Connecting(x.calls) = {}
    BY <1>3 DEF Connecting
  <2>2. Cardinality(Connecting(x.calls)) = 0
    BY <2>1, FS_EmptySet
  <2> QED BY <1>1, <1>3, <2>2 DEF QueuesOK
<1>6. ClientOK(x, NoRecords)
  BY <1>3 DEF ClientOK, ClientHolds, CallsTell, NothingReported, IsReported, IsLastReport, Reports
<1>7. \A k \in Key : AgreesOn(x, k)
  BY <1>3, SameFacts DEF AgreesOn
<1>8. Fits(x, NoRecords, 1 .. 0)
  BY <1>4, <1>5, <1>6, <1>7 DEF Fits
<1>9. dev = [d \in Device |-> x] /\ made = 0 /\ server = NoRecords /\ restarts = 0 /\ ticks = 0
  BY DEF Init, x, disk
<1> QED BY <1>1, <1>2, <1>8, <1>9 DEF IInv

LEMMA NextHolds ==
  ASSUME IInv, [Next]_vars
  PROVE  IInv'
<1>1. CASE UNCHANGED vars
  BY <1>1, StepHolds DEF vars, IInv
<1>2. CASE Next
  <2>1. instance' = instance
    BY <1>2 DEF Next
  <2>2. PICK d \in Device :
          \/ Play(d) \/ FirstTick(d) \/ \E t \in Time : Tick(d, t)
          \/ RemoveTapped(d) \/ RemoveAll(d) \/ RunCall(d) \/ ServerApplies(d)
          \/ Connect(d) \/ Hears(d) \/ Disconnect(d)
          \/ RequestFails(d) \/ Answer(d) \/ Restart(d)
    BY <1>2 DEF Next
  <2> QED BY <2>1, <2>2, PlayerHolds, FirstTickHolds, UserHolds, RunCallHolds,
             ServerAppliesHolds, LineHolds, AnswerHolds
<1> QED BY <1>1, <1>2

-----------------------------------------------------------------------------
(* What a step takes from the podcast.                                     *)

\* No other record loses its podcast.
BreaksNone(x, y) == Broken(y) \subseteq Broken(x)

\* The context does not change, whatever is sent, raised or noted.
LEMMA SameContextBreaksNone ==
  ASSUME NEW x, NEW y, y.records = x.records, y.link = x.link
  PROVE  BreaksNone(x, y)
BY DEF BreaksNone, Broken

\* What writes and reports do not change.
LEMMA NoticedContext ==
  ASSUME NEW x \in DeviceState, NEW new
  PROVE  Noticed(x, new).records = x.records /\ Noticed(x, new).link = x.link
BY DEF Noticed, DeviceState

LEMMA RefreshedContext ==
  ASSUME NEW x \in DeviceState, NEW records
  PROVE  Refreshed(x, records).records = x.records /\ Refreshed(x, records).link = x.link
BY NoticedContext DEF Refreshed

LEMMA WriteContext ==
  ASSUME NEW x \in DeviceState, NEW k \in Key, NEW v \in Time \cup {Gone}
  PROVE  Write(x, k, v).records = x.records /\ Write(x, k, v).link = x.link
<1> DEFINE w == [key |-> k, value |-> v]
           sent == [x EXCEPT !.out = Append(@, w)]
<1>1. Append(x.out, w) \in Seq(WriteRecord)
  BY DEF DeviceState, WriteRecord
<1>2. sent \in DeviceState /\ sent.records = x.records /\ sent.link = x.link
  BY <1>1 DEF DeviceState
<1>3. CASE x.observers = 0
  <2>1. Write(x, k, v) = [sent EXCEPT !.doubtful = @ \cup {k}]
    BY <1>3 DEF Write
  <2> HIDE DEF sent
  <2> QED BY <1>2, <2>1 DEF DeviceState
<1>4. CASE x.observers # 0
  <2> DEFINE new == Applied(x.cache, w)
  <2>1. Write(x, k, v) = Noticed(sent, new)
    BY <1>4 DEF Write
  <2> HIDE DEF sent, new
  <2> QED BY <1>2, <2>1, NoticedContext
<1> QED BY <1>3, <1>4

LEMMA SaveProgressBreaksNone ==
  ASSUME instance \in Instances, NEW ms \in SUBSET Key, NEW x, ContextOK(x, ms),
         x.link # NoKey, NEW t \in Time
  PROVE  BreaksNone(x, SaveProgress(x, t))
<1> DEFINE k == x.link
           u == [x EXCEPT !.records[k] = t]
           y == [x EXCEPT !.records[k] = t, !.stale = @ \ {k}]
<1>1. x \in DeviceState /\ x.records \in Records /\ k \in Held(x.records) /\ k \in Key
      /\ Whole(x, ms)
  BY DEF ContextOK, Whole, DeviceState, Held
<1>2. y = [u EXCEPT !.stale = @ \ {k}]
  BY <1>1 DEF DeviceState
<1>3. t # Gone
  BY KeyFacts
<1>4. Whole(u, ms)
  BY <1>1, PutWhole
<1>5. Becomes(x, u, [x.records EXCEPT ![k] = t], x.link)
  BY <1>1, PutBecomes
<1>6. Held([x.records EXCEPT ![k] = t]) = Held(x.records)
  <2>1. IsPut([x.records EXCEPT ![k] = t], x.records, k, t)
    BY <1>1, HeldExcept
  <2> QED BY <1>1, <1>3, <2>1 DEF IsPut
<1> HIDE DEF u, y
<1>7. /\ y \in DeviceState /\ SameClient(u, y) /\ y.records = u.records /\ y.link = u.link
      /\ y.disk = u.disk
  BY <1>2, <1>5 DEF Becomes, DeviceState, SameClient
<1>8. Whole(y, ms)
  BY <1>4, <1>7 DEF Whole, SameClient
<1>9. ContextOK(Save(y), ms) /\ Save(y).records = y.records /\ Save(y).link = y.link
  BY <1>8, SaveOK
<1>10. Save(y) \in DeviceState
  BY <1>9 DEF ContextOK, Whole
<1>11. Broken(Save(y)) = Broken(x)
  BY <1>5, <1>6, <1>7, <1>9 DEF Broken, Becomes
<1> DEFINE v == Save(y)
<1> HIDE DEF v
<1>12. Write(v, k, t).records = v.records /\ Write(v, k, t).link = v.link
  BY <1>1, <1>10, WriteContext DEF v
<1>13. BreaksNone(x, Write(v, k, t))
  BY <1>11, <1>12 DEF BreaksNone, Broken, v
<1> QED BY <1>13 DEF SaveProgress, y, k, v

\* The first tick comes to a podcast without a record: nothing is left to lose.
LEMMA MakeRecordBreaksNone ==
  ASSUME instance \in Instances, NEW ms \in SUBSET Key, NEW x, ContextOK(x, ms),
         x.link = NoKey, NEW k \in ms
  PROVE  BreaksNone(x, MakeRecord(x, k))
<1> DEFINE y == Save(Insert(x, k, 0))
<1>1. Whole(x, ms) /\ x.records \in Records /\ k \in Key /\ 0 \in Time \cup {Gone} /\ 0 # Gone
  BY KeyFacts DEF ContextOK, Whole, DeviceState
<1>2. y \in DeviceState /\ y.records = [x.records EXCEPT ![k] = 0] /\ y.link = k
  <2>1. PICK t \in Time : t = 0
    BY KeyFacts
  <2>2. y = Save(Insert(x, k, t))
    BY <2>1
  <2> HIDE DEF y
  <2>3. IsInserted(y, x, k, t, ms) /\ y.link = k
    BY <1>1, <2>2, InsertSaved
  <2> QED BY <2>1, <2>3 DEF IsInserted, ContextOK, Whole
<1> HIDE DEF y
<1>3. Held(y.records) = Held(x.records) \cup {k}
  <2>1. IsPut([x.records EXCEPT ![k] = 0], x.records, k, 0)
    BY <1>1, HeldExcept
  <2> QED BY <1>1, <1>2, <2>1 DEF IsPut
<1>4. Broken(y) \subseteq Broken(x)
  <2>1. NoKey \notin Held(x.records)
    BY KeyFacts DEF Held
  <2> QED BY <1>2, <1>3, <2>1 DEF Broken
<1>5. Write(y, k, 0).records = y.records /\ Write(y, k, 0).link = y.link
  BY <1>1, <1>2, WriteContext
<1> QED BY <1>4, <1>5 DEF MakeRecord, BreaksNone, Broken, y

LEMMA RemoveRecordBreaksNone ==
  ASSUME NEW ms \in SUBSET Key, NEW x, ContextOK(x, ms), NEW k \in Key
  PROVE  BreaksNone(x, RemoveRecord(x, k))
<1> DEFINE y == RemoveFromCoreData(x, k)
<1>1. ContextOK(y, ms) /\ Broken(y) \subseteq Broken(x)
  BY RemoveOK
<1>2. y \in DeviceState
  BY <1>1 DEF ContextOK, Whole
<1> HIDE DEF y
<1>3. Write(y, k, Gone).records = y.records /\ Write(y, k, Gone).link = y.link
  BY <1>2, WriteContext
<1> QED BY <1>1, <1>3 DEF RemoveRecord, BreaksNone, Broken, y

LEMMA RemoveAllBreaksNone ==
  ASSUME instance \in Instances, NEW records \in Records, NEW ms \in SUBSET Key,
         NEW x, Fits(x, records, ms), NEW gone \in SUBSET ms
  PROVE  BreaksNone(x, InTurn(RemoveRecord, x, gone))
<1> DEFINE S == {y \in DeviceState : Fits(y, records, ms) /\ BreaksNone(x, y)}
<1>1. ASSUME NEW y \in S, NEW k \in gone PROVE RemoveRecord(y, k) \in S
  <2>1. Fits(RemoveRecord(y, k), records, ms)
    BY RemoveRecordFits
  <2>2. BreaksNone(y, RemoveRecord(y, k))
    BY RemoveRecordBreaksNone DEF Fits
  <2> QED BY <2>1, <2>2 DEF BreaksNone, Fits, ContextOK, Whole
<1>2. x \in S /\ IsFiniteSet(gone)
  BY KeyFacts, FS_Subset DEF Fits, ContextOK, Whole, BreaksNone
<1> HIDE DEF S
<1>3. InTurn(RemoveRecord, x, gone) \in S
  BY <1>1, <1>2, RemoveAllStays
<1> QED BY <1>3 DEF S

\* A callback that may break a record raises no other.
LEMMA HandledTakes ==
  ASSUME instance \in Instances, NEW records \in Records, NEW ms \in SUBSET Key,
         NEW x, Fits(x, records, ms), x.calls # <<>>, NEW y \in Handled(x, Head(x.calls))
  PROVE  BreaksNone(x, y) \/ y.calls = Tail(x.calls)
<1> DEFINE c == Head(x.calls)
           rest == Taken(x)
           heard == Current(rest, c.key)
<1>1. /\ rest \in DeviceState /\ SameContext(x, rest) /\ rest.calls = Tail(x.calls)
      /\ c \in Call /\ CallOK(c, ms) /\ ContextOK(rest, ms) /\ Whole(rest, ms)
  BY TakenOK DEF ContextOK
<1>2. c.name \in {"didAdd", "didUpdate", "didRemove", "didGet", "connected"}
  BY <1>1 DEF Call
<1>3. c.name \in {"didAdd", "didUpdate"} => c.key \in ms /\ c.value \in Time
  BY <1>1 DEF CallOK, ReportNames, Call
<1>4. /\ ContextOK(heard, ms) /\ Whole(heard, ms) /\ heard \in DeviceState
      /\ heard.calls = rest.calls /\ heard.records = rest.records /\ heard.link = rest.link
  <2>1. /\ ContextOK(heard, ms) /\ SameClient(rest, heard) /\ heard.records = rest.records
        /\ heard.link = rest.link
    BY <1>1, CurrentOK
  <2> HIDE DEF heard, rest
  <2> QED BY <2>1 DEF ContextOK, Whole, SameClient
<1>5. /\ c.name = "didAdd" => y = DidAdd(heard, c.key, c.value)
      /\ c.name = "didUpdate" => y = DidUpdate(rest, c.key, c.value)
      /\ c.name = "didRemove" => y = RemoveRecord(heard, c.key)
      /\ c.name = "connected" => y = Observed(rest)
      /\ c.name = "didGet" => \E z \in DidGet(rest, c.all) : y = Noted(z)
  BY HandledCases
<1> HIDE DEF rest, heard
<1>6. CASE c.name = "didAdd"
  <2>1. PICK k \in ms, t \in Time : k = c.key /\ t = c.value
    BY <1>3, <1>6
  <2>2. y = DidAdd(heard, k, t)
    BY <1>5, <1>6, <2>1
  <2>3. CASE heard.records[k] = Gone
    <3>1. y = Save(Insert(heard, k, t))
      BY <2>2, <2>3 DEF DidAdd
    <3>2. IsInserted(y, heard, k, t, ms)
      BY <1>4, <3>1, InsertSaved
    <3> QED BY <1>1, <1>4, <3>2 DEF IsInserted, SameClient
  <2>4. CASE heard.records[k] # Gone
    <3> DEFINE S == IF heard.records[k] = t THEN heard.stale ELSE heard.stale \cup {k}
               u == [heard EXCEPT !.stale = S]
    <3>1. y = Save(u)
      BY <2>2, <2>4 DEF DidAdd
    <3>2. S \in SUBSET Key
      BY <1>4 DEF DeviceState
    <3> HIDE DEF S, c
    <3>3. u = [heard EXCEPT !.stale = S]
      OBVIOUS
    <3> HIDE DEF u
    <3>4. SameClient(heard, y)
      BY <1>4, <3>1, <3>2, <3>3, SavedHeard
    <3> QED BY <1>1, <1>4, <3>4 DEF SameClient
  <2> QED BY <2>3, <2>4
<1>7. CASE c.name = "didUpdate"
  <2>1. PICK k \in ms, t \in Time : k = c.key /\ t = c.value
    BY <1>3, <1>7
  <2>2. y = DidUpdate(rest, k, t)
    BY <1>5, <1>7, <2>1
  <2>3. CASE rest.playing
    <3>1. y = [rest EXCEPT !.stale = IF rest.records[k] = t THEN @ \ {k} ELSE @ \cup {k}]
      BY <2>2, <2>3 DEF DidUpdate
    <3> QED BY <1>1, <3>1 DEF DeviceState
  <2>4. CASE ~ rest.playing
    <3> DEFINE z == Save(UpdateCoreData(rest, k, t))
    <3>1. y = Current(z, k)
      BY <2>2, <2>4 DEF DidUpdate
    <3> HIDE DEF c
    <3>2. z = Save(UpdateCoreData(rest, k, t))
      OBVIOUS
    <3> HIDE DEF z
    <3>3. IsInserted(z, rest, k, t, ms)
      BY <1>1, <3>2, UpdateSaved
    <3>4. SameClient(z, y)
      BY <3>1, <3>3, CurrentOK DEF IsInserted
    <3> QED BY <1>1, <3>3, <3>4 DEF IsInserted, SameClient
  <2> QED BY <2>3, <2>4
<1>8. CASE c.name = "didRemove"
  <2>1. PICK k \in Key : k = c.key
    BY <1>1, <1>8 DEF Call
  <2>2. BreaksNone(heard, RemoveRecord(heard, k))
    BY <1>4, RemoveRecordBreaksNone
  <2> QED BY <1>1, <1>4, <1>5, <1>8, <2>1, <2>2 DEF BreaksNone, Broken, SameContext
<1>9. CASE c.name = "connected"
  <2>1. y.records = rest.records /\ y.link = rest.link
    BY <1>1, <1>5, <1>9 DEF Observed, DeviceState
  <2> QED BY <1>1, <2>1, SameContextBreaksNone DEF SameContext
<1>10. CASE c.name = "didGet"
  <2>1. PICK z \in DidGet(rest, c.all) : y = Noted(z)
    BY <1>5, <1>10
  <2>2. PICK all \in Records : all = c.all
    BY <1>1, <1>10 DEF Call
  <2>3. Held(all) \subseteq ms /\ z \in DidGet(rest, all)
    BY <1>1, <1>10, <2>1, <2>2 DEF CallOK
  <2>4. ContextOK(z, ms) /\ SameClient(rest, z)
    BY <1>1, <2>3, DidGetOK
  <2>5. y.calls = z.calls
    BY <2>1, <2>4 DEF Noted, ContextOK, Whole, DeviceState
  <2> QED BY <1>1, <2>4, <2>5 DEF SameClient
<1> QED BY <1>2, <1>6, <1>7, <1>8, <1>9, <1>10

\* The records and the link of a step that RunCall and the user's do not make.
LEMMA LineBreaksNone ==
  ASSUME IInv, NEW d \in Device, NEW y, Does(d, y),
         \/ Play(d) \/ Connect(d) \/ Disconnect(d) \/ Hears(d) \/ RequestFails(d) \/ Answer(d)
         \/ Restart(d)
  PROVE  BreaksNone(dev[d], y)
<1> DEFINE x == dev[d]
<1>1. x \in DeviceState /\ Fits(x, server, 1 .. made) /\ dev'[d] = y
  BY DeviceFacts DEF Does, IInv
<1>2. ASSUME NEW z, Does(d, z) PROVE y = z
  BY <1>1, <1>2 DEF Does, IInv
<1>3. CASE Play(d)
  <2>1. y = [x EXCEPT !.playing = ~ @]
    BY <1>2, <1>3 DEF Play
  <2> QED BY <1>1, <2>1, SameContextBreaksNone DEF DeviceState
<1>4. CASE Connect(d)
  <2>1. y = [x EXCEPT !.line = "open", !.calls = Append(@, [name |-> "connected"])]
    BY <1>2, <1>4 DEF Connect
  <2>2. y.records = x.records /\ y.link = x.link
    BY <2>1
  <2> QED BY <2>2, SameContextBreaksNone
<1>5. CASE Disconnect(d)
  <2>1. y = [x EXCEPT !.line = "down"]
    BY <1>2, <1>5 DEF Disconnect
  <2> QED BY <1>1, <2>1, SameContextBreaksNone DEF DeviceState
<1>6. CASE Hears(d)
  <2> DEFINE u == [x EXCEPT !.line = "up"]
  <2>1. y = Refreshed(u, server)
    BY <1>2, <1>6 DEF Hears
  <2>2. u \in DeviceState /\ u.records = x.records /\ u.link = x.link
    BY <1>1 DEF DeviceState
  <2> HIDE DEF u
  <2> QED BY <2>1, <2>2, RefreshedContext, SameContextBreaksNone
<1>7. CASE RequestFails(d)
  <2>1. y = [x EXCEPT !.asked = FALSE]
    BY <1>2, <1>7 DEF RequestFails
  <2> QED BY <1>1, <2>1, SameContextBreaksNone DEF DeviceState
<1>8. CASE Answer(d)
  <2> DEFINE new == Overlay(server, x.out)
             u == IF x.observers = 0 THEN x ELSE Noticed(x, new)
  <2>1. y = [u EXCEPT !.asked = FALSE, !.calls = Append(@, [name |-> "didGet", all |-> server])]
    BY <1>2, <1>8 DEF Answer
  <2> HIDE DEF new
  <2>2. u.records = x.records /\ u.link = x.link
    BY <1>1, NoticedContext
  <2> HIDE DEF u
  <2>3. y.records = u.records /\ y.link = u.link
    BY <2>1
  <2> QED BY <2>2, <2>3, SameContextBreaksNone
<1>9. CASE Restart(d)
  <2>1. y = Started(x.disk)
    BY <1>2, <1>9 DEF Restart
  <2>2. Held(x.disk.records) \subseteq {x.disk.link}
    BY <1>1 DEF Fits, ContextOK, Whole
  <2>3. y.records = x.disk.records /\ y.link = x.disk.link
    BY <2>1 DEF Started
  <2> QED BY <2>2, <2>3 DEF BreaksNone, Broken
<1> QED BY <1>3, <1>4, <1>5, <1>6, <1>7, <1>8, <1>9

\* A step that breaks a record of a device runs a callback there.
LEMMA NextTakes ==
  ASSUME IInv, [Next]_vars, NEW d \in Device, ~ BreaksNone(dev[d], dev'[d])
  PROVE  dev[d].calls # <<>> /\ dev'[d].calls # dev[d].calls /\ made' = made
<1>1. CASE UNCHANGED vars
  BY <1>1 DEF vars, BreaksNone
<1>2. CASE Next
  <2>1. PICK e \in Device :
          \/ Play(e) \/ FirstTick(e) \/ \E t \in Time : Tick(e, t)
          \/ RemoveTapped(e) \/ RemoveAll(e) \/ RunCall(e) \/ ServerApplies(e)
          \/ Connect(e) \/ Hears(e) \/ Disconnect(e)
          \/ RequestFails(e) \/ Answer(e) \/ Restart(e)
    BY <1>2 DEF Next
  <2>2. ASSUME NEW y, Does(e, y), BreaksNone(dev[e], y) PROVE FALSE
    <3>1. dev'[d] = IF d = e THEN y ELSE dev[d]
      BY <2>2 DEF Does, IInv
    <3> QED BY <2>2, <3>1 DEF BreaksNone
  <2>3. /\ Fits(dev[e], server, 1 .. made) /\ (1 .. made) \in SUBSET Key /\ server \in Records
        /\ ContextOK(dev[e], 1 .. made) /\ instance \in Instances
        /\ Held(dev[e].records) \in SUBSET (1 .. made)
        /\ dev[e].link \in Held(dev[e].records) \cup {NoKey}
        /\ made \in 0 .. MaxRecords /\ MaxRecords \in Nat
    BY DeviceFacts DEF Fits, ContextOK, Whole
  <2>4. ASSUME NEW t \in Time, Tick(e, t) PROVE FALSE
    <3>1. BreaksNone(dev[e], SaveProgress(dev[e], t))
      BY <2>3, <2>4, SaveProgressBreaksNone DEF Tick
    <3> QED BY <2>2, <2>4, <3>1 DEF Tick
  <2>5. CASE FirstTick(e)
    <3> DEFINE k == made + 1
               more == 1 .. made + 1
    <3>1. k \in more /\ more \in SUBSET Key /\ 1 .. made \subseteq more
      BY <2>3, <2>5 DEF FirstTick, Key
    <3>2. Does(e, MakeRecord(dev[e], k)) /\ dev[e].link = NoKey
      BY <2>5 DEF FirstTick
    <3> HIDE DEF k, more
    <3>3. ContextOK(dev[e], more)
      BY <2>3, <3>1, FitsMore DEF Fits
    <3>4. BreaksNone(dev[e], MakeRecord(dev[e], k))
      BY <2>3, <3>1, <3>2, <3>3, MakeRecordBreaksNone
    <3> QED BY <2>2, <3>2, <3>4
  <2>6. CASE RemoveTapped(e)
    <3>1. dev[e].link \in Key
      BY <2>3, <2>6 DEF RemoveTapped
    <3>2. BreaksNone(dev[e], RemoveRecord(dev[e], dev[e].link))
      BY <2>3, <3>1, RemoveRecordBreaksNone
    <3> QED BY <2>2, <2>6, <3>2 DEF RemoveTapped
  <2>7. CASE RemoveAll(e)
    <3>1. BreaksNone(dev[e], InTurn(RemoveRecord, dev[e], Held(dev[e].records)))
      BY <2>3, RemoveAllBreaksNone
    <3> QED BY <2>2, <2>7, <3>1 DEF RemoveAll
  <2>8. CASE RunCall(e)
    <3>1. PICK y \in Handled(dev[e], Head(dev[e].calls)) : Does(e, y)
      BY <2>8 DEF RunCall
    <3>2. dev[e].calls # <<>> /\ made' = made
      BY <2>8 DEF RunCall
    <3>3. ~ BreaksNone(dev[e], y)
      BY <2>2, <3>1
    <3>4. y.calls = Tail(dev[e].calls)
      BY <2>3, <3>1, <3>2, <3>3, HandledTakes
    <3>5. dev[e].calls \in Seq(Call)
      BY DeviceFacts DEF DeviceState
    <3>6. Tail(dev[e].calls) # dev[e].calls
      <4>1. Len(Tail(dev[e].calls)) = Len(dev[e].calls) - 1 /\ Len(dev[e].calls) \in Nat
        BY <3>2, <3>5
      <4>2. Len(dev[e].calls) - 1 # Len(dev[e].calls)
        BY <4>1
      <4> QED BY <4>1, <4>2
    <3>7. dev'[d] = IF d = e THEN y ELSE dev[d]
      BY <3>1 DEF Does, IInv
    <3>8. d = e
      BY <3>7 DEF BreaksNone
    <3> QED BY <3>2, <3>4, <3>6, <3>7, <3>8
  <2>9. CASE ServerApplies(e)
    <3> DEFINE records == Applied(server, Head(dev[e].out))
               sent == [dev[e] EXCEPT !.out = Tail(@)]
    <3>1. dev'[d] = Refreshed([dev EXCEPT ![e] = sent][d], records)
      BY <2>9 DEF ServerApplies
    <3>2. dev[e] \in DeviceState /\ dev[d] \in DeviceState /\ dev[e].out # <<>>
      BY <2>9, DeviceFacts DEF ServerApplies
    <3>3. Tail(dev[e].out) \in Seq(WriteRecord)
      BY <3>2 DEF DeviceState
    <3>4. sent \in DeviceState /\ sent.records = dev[e].records /\ sent.link = dev[e].link
      BY <3>2, <3>3 DEF DeviceState
    <3> HIDE DEF records, sent
    <3> DEFINE u == IF d = e THEN sent ELSE dev[d]
    <3>5. dev'[d] = Refreshed(u, records)
      BY <3>1 DEF IInv
    <3>6. u \in DeviceState /\ u.records = dev[d].records /\ u.link = dev[d].link
      BY <3>2, <3>4
    <3> HIDE DEF u
    <3>7. dev'[d].records = dev[d].records /\ dev'[d].link = dev[d].link
      BY <3>5, <3>6, RefreshedContext
    <3> QED BY <3>7, SameContextBreaksNone
  <2>10. ASSUME \/ Play(e) \/ Connect(e) \/ Disconnect(e) \/ Hears(e) \/ RequestFails(e)
                \/ Answer(e) \/ Restart(e)
         PROVE  FALSE
    <3>1. PICK y : Does(e, y)
      BY <2>10 DEF Play, Connect, Disconnect, Hears, RequestFails, Answer, Restart
    <3> QED BY <2>2, <2>10, <3>1, LineBreaksNone
  <2> QED BY <2>1, <2>4, <2>5, <2>6, <2>7, <2>8, <2>9, <2>10
<1> QED BY <1>1, <1>2

-----------------------------------------------------------------------------
(* Theorems.                                                               *)

\* The invariant, which every handler of the manager and of the database's
\* client keeps.
THEOREM InvariantHolds == Spec => []IInv
<1>1. Init => IInv
  BY InitHolds
<1>2. IInv /\ [Next]_vars => IInv'
  BY NextHolds
<1> QED BY <1>1, <1>2, PTL DEF Spec

\* Connected devices to which nothing is on its way about a record agree with
\* the server on whether there is one, and on its position unless the last one
\* reported was not taken: ticks, echoes of one's own writes and removals sent
\* again do no harm.
THEOREM SettledDevicesAgree == Spec => []DevicesAgree
<1>1. IInv => DevicesAgree
  <2> SUFFICES ASSUME IInv PROVE DevicesAgree
    OBVIOUS
  <2>1. TypeOK
    BY DEF TypeOK, IInv, Fits, ContextOK, Whole
  <2>2. ASSUME NEW d \in Device, NEW k \in Key, IsSettled(dev[d], k), NEW what \in Matters,
               k \notin Doubts(dev[d], what)
        PROVE  Same(what, dev[d].records[k], Overlay(server, dev[d].out)[k])
    <3>1. Fits(dev[d], server, 1 .. made)
      BY DEF IInv
    <3>2. ~ IsReported(dev[d].calls, k, what)
      BY <2>2 DEF IsSettled, IsAbout, IsReported, Reports, ReportNames
    <3>3. dev[d].cache = Overlay(server, dev[d].out)
      BY <2>2, <3>1 DEF IsSettled, Fits, ClientOK
    <3>4. AgreesOn(dev[d], k)
      BY <3>1 DEF Fits
    <3> QED BY <2>2, <3>2, <3>3, <3>4 DEF AgreesOn
  <2>3. RecordsAgree
    BY <2>2 DEF RecordsAgree, Matters, Doubts, Same
  <2>4. PositionsAgree
    BY <2>2 DEF PositionsAgree, Matters, Doubts, Same
  <2> QED BY <2>1, <2>3, <2>4 DEF DevicesAgree
<1> QED BY <1>1, InvariantHolds, PTL

\* A restart brings back the position that the device had: whatever puts one into
\* a record saves it, as long as every record can be saved.
THEOREM RestartsKeepPositions == Spec => []PositionsAreSaved
<1>1. IInv => PositionsAreSaved
  BY DEF IInv, Fits, ContextOK, SavedOK, PositionsAreSaved
<1> QED BY <1>1, InvariantHolds, PTL

\* Neither a tick, nor the user, nor a restart takes the podcast from a record:
\* only a callback does, and it brings a record made on another device.
THEOREM OthersTakeThePodcast == Spec => OnlyForeignRecordsTakeThePodcast
<1>1. IInv /\ [Next]_vars =>
        [\A d \in Device :
           Broken(dev'[d]) \ Broken(dev[d]) # {} =>
             dev[d].calls # <<>> /\ dev'[d].calls # dev[d].calls /\ made' = made]_vars
  BY NextTakes DEF BreaksNone
<1> QED BY <1>1, InvariantHolds, PTL DEF Spec, OnlyForeignRecordsTakeThePodcast
=============================================================================
