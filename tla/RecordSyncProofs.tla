-------------------------- MODULE RecordSyncProofs --------------------------
(***************************************************************************)
(* Proofs about RecordSync, for any devices, podcasts and bounds.          *)
(*                                                                         *)
(* That a settled device agrees with the server is not inductive: it says  *)
(* nothing of a device that has something under way.  What is, is that     *)
(* the last callback under way about a record tells what the client's      *)
(* cache has of it (CallsTell), that a record without such a callback is   *)
(* here as in the cache (AgreesOn), and that the cache of a connected      *)
(* client is the server's data with its own writes (ClientOK).             *)
(*                                                                         *)
(* A removal is final because a record is sent to be added once only, and  *)
(* not any more when the server has it or had it (AddsOnce).               *)
(***************************************************************************)
EXTENDS RecordSync, ProofBasics

-----------------------------------------------------------------------------
(* The inductive invariant.                                                *)

\* A callback that reports a record.
Reports(call, k) == call.name \in {"didAdd", "didRemove"} /\ call.keys = {k}

IsReported(calls, k) == \E i \in DOMAIN calls : Reports(calls[i], k)

IsLastReport(calls, k, i) ==
  Reports(calls[i], k) /\ \A j \in DOMAIN calls : j > i => ~ Reports(calls[j], k)

\* The last report of a record under way says whether the cache has it.
CallsTell(calls, cache) ==
  \A k \in Key : \A i \in DOMAIN calls :
    IsLastReport(calls, k, i) => (calls[i].name = "didAdd" <=> k \in cache)

\* A record of which no report is under way is here as in the cache.
AgreesOn(x, k) ==
  ~ IsReported(x.calls, k) /\ k \notin x.doubtful => (k \in x.keys <=> k \in x.cache)

\* The view context and the disk, with the records ms made so far.
ContextOK(x, ms) ==
  /\ x \in DeviceState
  /\ x.keys \cup x.cache \cup x.disk.keys \subseteq ms
  /\ \A p \in Podcast : x.link[p] \in x.keys \cup {NoKey}
  /\ \A p \in Podcast : x.disk.link[p] \in x.disk.keys \cup {NoKey}
  /\ IsFavourites => \A k \in x.disk.keys : x.disk.link[k.podcast] = k

CallOK(call, ms) ==
  /\ call.keys \subseteq ms
  /\ call.name \in {"didAdd", "didRemove"} => \E k \in ms : call.keys = {k}

\* What is under way to the server and to the main thread.
QueuesOK(x, ms) ==
  /\ \A i \in DOMAIN x.out : x.out[i].key \in ms
  /\ \A i \in DOMAIN x.calls : CallOK(x.calls[i], ms)
  /\ x.observers + Cardinality(Connecting(x.calls)) <= MaxObservers

\* What the client shows, with the records ks on the server.
ClientOK(x, ks) ==
  /\ x.line = "up" => x.observers > 0 /\ x.cache = Overlay(ks, x.out)
  /\ x.observers = 0 => x.cache = {} /\ \A k \in Key : ~ IsReported(x.calls, k)
  /\ x.observers > 0 => Overlay(x.cache, x.out) = x.cache
  /\ CallsTell(x.calls, x.cache)

Fits(x, ks, ms) ==
  /\ ContextOK(x, ms) /\ QueuesOK(x, ms) /\ ClientOK(x, ks)
  /\ \A k \in Key : AgreesOn(x, k)

\* The ids are numbered.
MadeOK ==
  /\ made \subseteq Key /\ server \subseteq made
  /\ IsFiniteSet(made) /\ \A k \in made : k.number <= Cardinality(made)

IInv ==
  /\ instance \in Instances
  /\ restarts \in 0 .. MaxRestarts /\ lostAcks \in 0 .. MaxLostAcks
  /\ MadeOK
  /\ dev \in [Device -> DeviceState]
  /\ \A d \in Device : Fits(dev[d], server, made)

\* A record is sent to be added once, and not when the server has or had it.
AddsOnce ==
  /\ dropped \subseteq made
  /\ lostAcks = 0 =>
       /\ server \cap dropped = {}
       /\ \A d \in Device : \A i \in DOMAIN dev[d].out :
            dev[d].out[i].op = "add" => dev[d].out[i].key \notin server \cup dropped
       /\ \A d, e \in Device : \A i \in DOMAIN dev[d].out : \A j \in DOMAIN dev[e].out :
            dev[d].out[i].op = "add" /\ dev[e].out[j] = dev[d].out[i] => d = e /\ i = j

-----------------------------------------------------------------------------
(* Writes on their way.                                                    *)

\* The last write about a record is there, if there is any.
LEMMA LastWriteIsThere ==
  ASSUME NEW out \in Seq(WriteRecord), NEW i \in DOMAIN out
  PROVE  \E j \in DOMAIN out : IsLastWrite(out, j) /\ out[j].key = out[i].key
<1> DEFINE A == {Len(out) - j : j \in {j \in DOMAIN out : out[j].key = out[i].key}}
<1>1. A \in SUBSET Nat /\ A # {}
  OBVIOUS
<1>2. PICK m \in A : \A l \in A : m <= l
  <2> HIDE DEF A
  <2> QED BY <1>1, NatLeast
<1>3. PICK j \in DOMAIN out : out[j].key = out[i].key /\ m = Len(out) - j
  BY <1>2
<1>4. ASSUME NEW l \in DOMAIN out, l > j PROVE out[l].key # out[j].key
  <2>1. out[l].key = out[i].key => m <= Len(out) - l
    BY <1>2
  <2> QED BY <1>3, <1>4, <2>1
<1> QED BY <1>3, <1>4 DEF IsLastWrite

\* Two last writes about a record are the same.
LEMMA LastWriteIsUnique ==
  ASSUME NEW out \in Seq(WriteRecord), NEW i \in DOMAIN out, NEW j \in DOMAIN out,
         IsLastWrite(out, i), IsLastWrite(out, j), out[i].key = out[j].key
  PROVE  i = j
BY DEF IsLastWrite

\* Whether the client shows a record: as the last write about it says, or as
\* the server has it.
LEMMA OverlayHas ==
  ASSUME NEW out \in Seq(WriteRecord), NEW ks, NEW k
  PROVE  /\ \A i \in DOMAIN out : IsLastWrite(out, i) /\ out[i].key = k =>
              (k \in Overlay(ks, out) <=> out[i].op = "add")
         /\ (\A i \in DOMAIN out : out[i].key # k) => (k \in Overlay(ks, out) <=> k \in ks)
<1>1. ASSUME NEW i \in DOMAIN out, IsLastWrite(out, i), out[i].key = k
      PROVE  k \in Overlay(ks, out) <=> out[i].op = "add"
  <2>1. \A w \in LastWrites(out) : w.key = k => w = out[i]
    BY <1>1, LastWriteIsUnique DEF LastWrites
  <2>2. out[i] \in LastWrites(out)
    BY <1>1 DEF LastWrites
  <2> QED BY <1>1, <2>1, <2>2 DEF Overlay
<1>2. ASSUME \A i \in DOMAIN out : out[i].key # k
      PROVE  k \in Overlay(ks, out) <=> k \in ks
  BY <1>2 DEF Overlay, LastWrites
<1> QED BY <1>1, <1>2

\* Showing twice what was written makes no difference.
LEMMA OverlayTwice ==
  ASSUME NEW out \in Seq(WriteRecord), NEW ks
  PROVE  Overlay(Overlay(ks, out), out) = Overlay(ks, out)
BY DEF Overlay

\* One more write.
LEMMA OverlayAppend ==
  ASSUME NEW out \in Seq(WriteRecord), NEW ks, NEW w \in WriteRecord
  PROVE  Overlay(ks, Append(out, w)) = Applied(Overlay(ks, out), w)
<1> DEFINE new == Append(out, w)
           n == Len(out) + 1
<1>1. /\ new \in Seq(WriteRecord) /\ n \in DOMAIN new /\ new[n] = w
      /\ DOMAIN new = DOMAIN out \cup {n} /\ n \notin DOMAIN out
      /\ \A i \in DOMAIN out : new[i] = out[i] /\ n > i
  OBVIOUS
<1>2. IsLastWrite(new, n)
  BY DEF IsLastWrite
<1> HIDE DEF new
<1>3. \A i \in DOMAIN out : out[i].key # w.key => (IsLastWrite(new, i) <=> IsLastWrite(out, i))
  BY <1>1 DEF IsLastWrite
<1> HIDE DEF n
<1>4. ASSUME NEW k PROVE k \in Overlay(ks, new) <=> k \in Applied(Overlay(ks, out), w)
  <2>1. CASE k = w.key
    BY <1>1, <1>2, <2>1, OverlayHas DEF Applied
  <2>2. CASE k # w.key
    <3>1. k \in Applied(Overlay(ks, out), w) <=> k \in Overlay(ks, out)
      BY <2>2 DEF Applied
    <3>2. CASE \E i \in DOMAIN out : out[i].key = k
      <4>1. PICK i \in DOMAIN out : IsLastWrite(out, i) /\ out[i].key = k
        BY <3>2, LastWriteIsThere
      <4>2. k \in Overlay(ks, out) <=> out[i].op = "add"
        BY <4>1, OverlayHas
      <4>3. i \in DOMAIN new /\ IsLastWrite(new, i) /\ new[i] = out[i]
        BY <4>1, <2>2, <1>1, <1>3
      <4>4. k \in Overlay(ks, new) <=> out[i].op = "add"
        BY <4>1, <4>3, <1>1, OverlayHas
      <4> QED BY <3>1, <4>2, <4>4
    <3>3. CASE \A i \in DOMAIN out : out[i].key # k
      <4>1. \A i \in DOMAIN new : new[i].key # k
        BY <3>3, <2>2, <1>1
      <4> QED BY <3>3, <4>1, <3>1, <1>1, OverlayHas
    <3> QED BY <3>2, <3>3
  <2> QED BY <2>1, <2>2
<1> QED BY <1>4 DEF new

\* What shows the writes already shows those that are left.
LEMMA OverlayTail ==
  ASSUME NEW out \in Seq(WriteRecord), out # <<>>, NEW ks, Overlay(ks, out) = ks
  PROVE  Overlay(ks, Tail(out)) = ks
<1> DEFINE rest == Tail(out)
<1>1. /\ rest \in Seq(WriteRecord)
      /\ \A i \in DOMAIN rest : i + 1 \in DOMAIN out /\ rest[i] = out[i + 1]
      /\ \A i \in DOMAIN out : i > 1 => i - 1 \in DOMAIN rest /\ rest[i - 1] = out[i]
      /\ \A i \in DOMAIN rest : i \in Int
      /\ \A i \in DOMAIN out : i \in Int /\ i >= 1
  <2>1. rest \in Seq(WriteRecord) /\ Len(rest) = Len(out) - 1 /\ Len(out) \in Nat
    OBVIOUS
  <2>2. DOMAIN rest = 1 .. Len(out) - 1 /\ DOMAIN out = 1 .. Len(out)
    BY <2>1
  <2>3. \A i \in 1 .. Len(out) - 1 : rest[i] = out[i + 1]
    OBVIOUS
  <2> HIDE DEF rest
  <2>4. \A i \in 2 .. Len(out) : rest[i - 1] = out[i]
    <3> SUFFICES ASSUME NEW i \in 2 .. Len(out) PROVE rest[i - 1] = out[i]
      OBVIOUS
    <3>1. i - 1 \in 1 .. Len(out) - 1 /\ (i - 1) + 1 = i
      BY <2>1
    <3> QED BY <3>1, <2>3
  <2> QED BY <2>1, <2>2, <2>3, <2>4
<1> HIDE DEF rest
<1>2. \A i \in DOMAIN rest : IsLastWrite(rest, i) => IsLastWrite(out, i + 1)
  <2> SUFFICES ASSUME NEW i \in DOMAIN rest, IsLastWrite(rest, i), NEW j \in DOMAIN out, j > i + 1
               PROVE  out[j].key # out[i + 1].key
    BY <1>1 DEF IsLastWrite
  <2>1. j - 1 \in DOMAIN rest /\ rest[j - 1] = out[j] /\ j - 1 > i /\ rest[i] = out[i + 1]
    BY <1>1
  <2> QED BY <2>1 DEF IsLastWrite
<1>3. ASSUME NEW k PROVE k \in Overlay(ks, rest) <=> k \in ks
  <2>1. CASE \E i \in DOMAIN rest : rest[i].key = k
    <3>0. PICK l \in DOMAIN rest : rest[l].key = k
      BY <2>1
    <3>1. PICK i \in DOMAIN rest : IsLastWrite(rest, i) /\ rest[i].key = k
      <4>1. rest \in Seq(WriteRecord)
        BY <1>1
      <4>2. \E i \in DOMAIN rest : IsLastWrite(rest, i) /\ rest[i].key = rest[l].key
        BY <4>1, LastWriteIsThere
      <4> QED BY <4>2, <3>0
    <3>2. i + 1 \in DOMAIN out /\ IsLastWrite(out, i + 1) /\ out[i + 1] = rest[i]
      BY <3>1, <1>1, <1>2
    <3>3. k \in Overlay(ks, out) <=> out[i + 1].op = "add"
      BY <3>1, <3>2, OverlayHas
    <3>4. k \in Overlay(ks, rest) <=> rest[i].op = "add"
      BY <3>1, <1>1, OverlayHas
    <3> QED BY <3>2, <3>3, <3>4
  <2>2. CASE \A i \in DOMAIN rest : rest[i].key # k
    BY <2>2, <1>1, OverlayHas
  <2> QED BY <2>1, <2>2
<1> QED BY <1>3 DEF rest

\* Nothing but the server's records and what was written is shown.
LEMMA OverlayWithin ==
  ASSUME NEW out \in Seq(WriteRecord), NEW ks, NEW ms, ks \subseteq ms,
         \A i \in DOMAIN out : out[i].key \in ms
  PROVE  Overlay(ks, out) \subseteq ms
BY DEF Overlay, LastWrites

-----------------------------------------------------------------------------
(* Callbacks on their way.                                                 *)

\* Every observer is told of every child, and of nothing else.
TellOf(calls, n, name, S) ==
  /\ calls \in Seq([name : {name}, keys : SUBSET S])
  /\ \A i \in DOMAIN calls : \E k \in S : calls[i] = [name |-> name, keys |-> {k}]
  /\ n > 0 => \A k \in S : \E i \in DOMAIN calls : calls[i] = [name |-> name, keys |-> {k}]

LEMMA CallsForFacts ==
  ASSUME NEW n \in Nat, NEW name, NEW S, IsFiniteSet(S)
  PROVE  TellOf(CallsFor(n, name, S), n, name, S)
<1> DEFINE order == SetToSeq(S)
           calls == CallsFor(n, name, S)
           call(i) == [name |-> name, keys |-> {order[1 + (i - 1) \div n]}]
<1>1. order \in Seq(S) /\ \A k \in S : \E i \in 1 .. Len(order) : order[i] = k
  BY OrderOf
<1>2. calls = [i \in 1 .. n * Len(order) |-> call(i)]
  BY DEF CallsFor
<1> HIDE DEF order, calls
<1>3. n * Len(order) \in Nat
  BY <1>1
<1>4. CASE n = 0
  <2>1. 1 .. n * Len(order) = {}
    BY <1>1, <1>4
  <2>2. calls = <<>>
    BY <1>2, <2>1
  <2> QED BY <2>2, <1>4 DEF calls, TellOf
<1>5. CASE n > 0
  <2>1. ASSUME NEW i \in 1 .. n * Len(order) PROVE 1 + (i - 1) \div n \in 1 .. Len(order)
    <3>1. i - 1 \in Nat /\ i - 1 < n * Len(order) /\ Len(order) \in Nat
      BY <1>1, <1>3
    <3> DEFINE q == (i - 1) \div n
    <3>2. q \in Nat /\ n * q <= i - 1
      BY <3>1, <1>5
    <3> HIDE DEF q
    <3>3. n * q < n * Len(order)
      BY <3>1, <3>2, <1>3
    <3>4. q < Len(order)
      BY <3>1, <3>2, <3>3, <1>5
    <3> QED BY <3>2, <3>4, <3>1 DEF q
  <2>2. \A i \in 1 .. n * Len(order) : \E k \in S : call(i) = [name |-> name, keys |-> {k}]
    <3> SUFFICES ASSUME NEW i \in 1 .. n * Len(order)
                 PROVE  \E k \in S : call(i) = [name |-> name, keys |-> {k}]
      OBVIOUS
    <3>1. order[1 + (i - 1) \div n] \in S
      BY <1>1, <2>1
    <3> QED BY <3>1
  <2>3. \A i \in 1 .. n * Len(order) : call(i) \in [name : {name}, keys : SUBSET S]
    <3> HIDE DEF call
    <3> QED BY <2>2
  <2>5. calls \in Seq([name : {name}, keys : SUBSET S])
    <3> DEFINE m == n * Len(order)
               R == [name : {name}, keys : SUBSET S]
    <3>1. m \in Nat /\ calls = [i \in 1 .. m |-> call(i)] /\ \A i \in 1 .. m : call(i) \in R
      BY <1>2, <1>3, <2>3
    <3> HIDE DEF call, m, R
    <3>2. calls \in Seq(R)
      BY <3>1
    <3> QED BY <3>2 DEF R
  <2>6. \A i \in DOMAIN calls : \E k \in S : calls[i] = [name |-> name, keys |-> {k}]
    <3> HIDE DEF call
    <3> QED BY <1>2, <2>2
  <2>4. ASSUME NEW k \in S
        PROVE  \E i \in DOMAIN calls : calls[i] = [name |-> name, keys |-> {k}]
    <3>1. PICK j \in 1 .. Len(order) : order[j] = k
      BY <1>1
    <3> DEFINE l == n * (j - 1)
               i == 1 + l
    <3>2. j - 1 \in Nat /\ j - 1 <= Len(order) - 1 /\ Len(order) \in Nat
      BY <1>1
    <3>3. l \in Nat /\ l \div n = j - 1
      BY <3>2, <1>5
    <3>4. l <= n * (Len(order) - 1)
      BY <3>2, <1>5
    <3>5. n * (Len(order) - 1) = n * Len(order) - n
      BY <3>2, <1>5
    <3> HIDE DEF l
    <3>6. i \in 1 .. n * Len(order) /\ i - 1 = l
      BY <3>3, <3>4, <3>5, <1>3, <1>5
    <3> HIDE DEF i
    <3>7. 1 + (i - 1) \div n = j
      BY <3>6, <3>3, <3>2
    <3>8. calls[i] = call(i)
      BY <3>6, <1>2
    <3>9. call(i) = [name |-> name, keys |-> {k}]
      BY <3>7, <3>1
    <3> QED BY <3>6, <3>8, <3>9, <1>2
  <2> QED BY <2>4, <2>5, <2>6 DEF calls, TellOf
<1> QED BY <1>4, <1>5 DEF calls

\* What is raised: n observers hear of each record that went or came.
IsRaised(calls, n, old, new) ==
  /\ calls \in Seq(Call)
  /\ \A i \in DOMAIN calls : \E k \in (old \ new) \cup (new \ old) :
       calls[i] = [name |-> IF k \in new THEN "didAdd" ELSE "didRemove", keys |-> {k}]
  /\ n > 0 => \A k \in (old \ new) \cup (new \ old) : IsReported(calls, k)

LEMMA RaisedFacts ==
  ASSUME NEW n \in Nat, NEW old \in SUBSET Key, NEW new \in SUBSET Key,
         IsFiniteSet(old), IsFiniteSet(new)
  PROVE  IsRaised(Raised(n, old, new), n, old, new)
<1> DEFINE s == CallsFor(n, "didRemove", old \ new)
           t == CallsFor(n, "didAdd", new \ old)
           r == Raised(n, old, new)
<1>1. IsFiniteSet(old \ new) /\ IsFiniteSet(new \ old)
  BY FS_Difference
<1>2. TellOf(s, n, "didRemove", old \ new)
  BY <1>1, CallsForFacts
<1>3. TellOf(t, n, "didAdd", new \ old)
  BY <1>1, CallsForFacts
<1>4. r = s \o t
  BY DEF Raised
<1> HIDE DEF s, t, r
<1>5. /\ [name : {"didRemove"}, keys : SUBSET (old \ new)] \subseteq Call
      /\ [name : {"didAdd"}, keys : SUBSET (new \ old)] \subseteq Call
  BY DEF Call
<1>6. s \in Seq(Call) /\ t \in Seq(Call)
  BY <1>2, <1>3, <1>5 DEF TellOf
<1>7. /\ r \in Seq(Call) /\ Len(r) = Len(s) + Len(t)
      /\ \A i \in 1 .. Len(r) : r[i] = IF i <= Len(s) THEN s[i] ELSE t[i - Len(s)]
      /\ Len(s) \in Nat /\ Len(t) \in Nat
  BY <1>4, <1>6
<1>8. ASSUME NEW i \in DOMAIN r
      PROVE  \E k \in (old \ new) \cup (new \ old) :
               r[i] = [name |-> IF k \in new THEN "didAdd" ELSE "didRemove", keys |-> {k}]
  <2>1. CASE i <= Len(s)
    <3>1. r[i] = s[i] /\ i \in DOMAIN s
      BY <2>1, <1>7, <1>6
    <3>2. \E k \in old \ new : s[i] = [name |-> "didRemove", keys |-> {k}]
      BY <3>1, <1>2 DEF TellOf
    <3> QED BY <3>1, <3>2
  <2>2. CASE ~(i <= Len(s))
    <3>1. r[i] = t[i - Len(s)] /\ i - Len(s) \in DOMAIN t
      BY <2>2, <1>7, <1>6
    <3>2. \E k \in new \ old : t[i - Len(s)] = [name |-> "didAdd", keys |-> {k}]
      BY <3>1, <1>3 DEF TellOf
    <3> QED BY <3>1, <3>2
  <2> QED BY <2>1, <2>2
<1>9. ASSUME n > 0, NEW k \in (old \ new) \cup (new \ old) PROVE IsReported(r, k)
  <2>1. CASE k \in old \ new
    <3>1. PICK i \in DOMAIN s : s[i] = [name |-> "didRemove", keys |-> {k}]
      BY <2>1, <1>2, <1>9 DEF TellOf
    <3>2. i \in DOMAIN r /\ r[i] = s[i]
      BY <1>6, <1>7
    <3> QED BY <3>1, <3>2 DEF IsReported, Reports
  <2>2. CASE k \in new \ old
    <3>1. PICK i \in DOMAIN t : t[i] = [name |-> "didAdd", keys |-> {k}]
      BY <2>2, <1>3, <1>9 DEF TellOf
    <3>2. i + Len(s) \in DOMAIN r /\ r[i + Len(s)] = t[i]
      BY <1>6, <1>7
    <3> QED BY <3>1, <3>2 DEF IsReported, Reports
  <2> QED BY <2>1, <2>2
<1> QED BY <1>7, <1>8, <1>9 DEF IsRaised, r

LEMMA ReportsIn ==
  ASSUME NEW s \in Seq(Call), NEW r \in Seq(Call), NEW k
  PROVE  IsReported(s \o r, k) <=> IsReported(s, k) \/ IsReported(r, k)
<1> DEFINE t == s \o r
<1>1. /\ Len(t) = Len(s) + Len(r) /\ Len(s) \in Nat /\ Len(r) \in Nat
      /\ DOMAIN t = 1 .. Len(t) /\ DOMAIN s = 1 .. Len(s) /\ DOMAIN r = 1 .. Len(r)
      /\ \A i \in 1 .. Len(s) : t[i] = s[i]
      /\ \A i \in 1 .. Len(r) : t[i + Len(s)] = r[i]
      /\ \A i \in 1 .. Len(t) : i > Len(s) => t[i] = r[i - Len(s)]
  OBVIOUS
<1> HIDE DEF t
<1>2. ASSUME IsReported(s, k) PROVE IsReported(t, k)
  <2>1. PICK i \in DOMAIN s : Reports(s[i], k)
    BY <1>2 DEF IsReported
  <2>2. i \in DOMAIN t /\ t[i] = s[i]
    BY <1>1
  <2> QED BY <2>1, <2>2 DEF IsReported
<1>3. ASSUME IsReported(r, k) PROVE IsReported(t, k)
  <2>1. PICK i \in DOMAIN r : Reports(r[i], k)
    BY <1>3 DEF IsReported
  <2>2. i + Len(s) \in DOMAIN t /\ t[i + Len(s)] = r[i]
    BY <1>1
  <2> QED BY <2>1, <2>2 DEF IsReported
<1>4. ASSUME IsReported(t, k) PROVE IsReported(s, k) \/ IsReported(r, k)
  <2>1. PICK i \in DOMAIN t : Reports(t[i], k)
    BY <1>4 DEF IsReported
  <2>2. CASE i <= Len(s)
    <3>1. i \in DOMAIN s /\ s[i] = t[i]
      BY <2>2, <1>1
    <3> QED BY <2>1, <3>1 DEF IsReported
  <2>3. CASE i > Len(s)
    <3>1. i - Len(s) \in DOMAIN r /\ r[i - Len(s)] = t[i]
      BY <2>3, <1>1
    <3> QED BY <2>1, <3>1 DEF IsReported
  <2> QED BY <2>2, <2>3, <1>1
<1> QED BY <1>2, <1>3, <1>4 DEF t

\* Callbacks that tell of new records what is so, and of the others nothing.
TellsChange(r, old, new) ==
  /\ r \in Seq(Call)
  /\ \A i \in DOMAIN r : \E k \in Key :
       r[i] = [name |-> IF k \in new THEN "didAdd" ELSE "didRemove", keys |-> {k}]
  /\ \A k \in Key : ~ IsReported(r, k) => (k \in old <=> k \in new)

LEMMA RaisedTells ==
  ASSUME NEW n \in Nat, n > 0, NEW old \in SUBSET Key, NEW new \in SUBSET Key, NEW r,
         IsRaised(r, n, old, new)
  PROVE  TellsChange(r, old, new)
BY DEF IsRaised, TellsChange

\* The callbacks go on telling what the cache has.
LEMMA CallsGoOnTelling ==
  ASSUME NEW s \in Seq(Call), NEW old, NEW new, NEW r, TellsChange(r, old, new),
         CallsTell(s, old)
  PROVE  CallsTell(s \o r, new)
<1> DEFINE t == s \o r
<1>0. r \in Seq(Call)
  BY DEF TellsChange
<1>1. /\ Len(t) = Len(s) + Len(r) /\ Len(s) \in Nat /\ Len(r) \in Nat
      /\ DOMAIN t = 1 .. Len(t) /\ DOMAIN s = 1 .. Len(s) /\ DOMAIN r = 1 .. Len(r)
      /\ \A i \in 1 .. Len(s) : t[i] = s[i]
      /\ \A i \in 1 .. Len(r) : t[i + Len(s)] = r[i]
      /\ \A i \in 1 .. Len(t) : i > Len(s) => t[i] = r[i - Len(s)]
  BY <1>0
<1> HIDE DEF t
<1> SUFFICES ASSUME NEW k \in Key, NEW i \in DOMAIN t, IsLastReport(t, k, i)
             PROVE  t[i].name = "didAdd" <=> k \in new
  BY DEF CallsTell, t
<1>2. CASE i <= Len(s)
  <2>1. i \in DOMAIN s /\ s[i] = t[i]
    BY <1>2, <1>1
  <2>2. \A j \in DOMAIN s : j > i => ~ Reports(s[j], k)
    <3> SUFFICES ASSUME NEW j \in DOMAIN s, j > i PROVE ~ Reports(s[j], k)
      OBVIOUS
    <3>1. j \in DOMAIN t /\ t[j] = s[j]
      BY <1>1
    <3> QED BY <3>1 DEF IsLastReport
  <2>3. s[i].name = "didAdd" <=> k \in old
    BY <2>1, <2>2 DEF IsLastReport, CallsTell
  <2>4. ~ IsReported(r, k)
    <3> SUFFICES ASSUME NEW j \in DOMAIN r PROVE ~ Reports(r[j], k)
      BY DEF IsReported
    <3>1. j + Len(s) \in DOMAIN t /\ t[j + Len(s)] = r[j] /\ j + Len(s) > i
      BY <1>1, <1>2
    <3> QED BY <3>1 DEF IsLastReport
  <2>5. k \in old <=> k \in new
    BY <2>4 DEF TellsChange
  <2> QED BY <2>1, <2>3, <2>5
<1>3. CASE i > Len(s)
  <2>1. i - Len(s) \in DOMAIN r /\ r[i - Len(s)] = t[i]
    BY <1>3, <1>1
  <2>2. PICK l : t[i] = [name |-> IF l \in new THEN "didAdd" ELSE "didRemove", keys |-> {l}]
    BY <2>1 DEF TellsChange
  <2>3. l = k
    BY <2>2 DEF IsLastReport, Reports
  <2> QED BY <2>2, <2>3
<1> QED BY <1>1, <1>2, <1>3

\* A callback that reports nothing.
LEMMA QuietAppend ==
  ASSUME NEW s \in Seq(Call), NEW c \in Call, c.name \notin {"didAdd", "didRemove"}, NEW cache,
         CallsTell(s, cache)
  PROVE  /\ CallsTell(Append(s, c), cache)
         /\ \A k : IsReported(Append(s, c), k) <=> IsReported(s, k)
<1> DEFINE t == Append(s, c)
<1>1. /\ DOMAIN t = DOMAIN s \cup {Len(s) + 1} /\ t[Len(s) + 1] = c
      /\ \A i \in DOMAIN s : t[i] = s[i]
  OBVIOUS
<1>2. \A k : ~ Reports(c, k)
  BY DEF Reports
<1> HIDE DEF t
<1>3. \A k : IsReported(t, k) <=> IsReported(s, k)
  BY <1>1, <1>2 DEF IsReported
<1>4. CallsTell(t, cache)
  BY <1>1, <1>2 DEF CallsTell, IsLastReport
<1> QED BY <1>3, <1>4 DEF t

\* The first callback is taken away.
LEMMA TailReports ==
  ASSUME NEW s \in Seq(Call), s # <<>>, NEW cache, CallsTell(s, cache)
  PROVE  /\ CallsTell(Tail(s), cache)
         /\ \A k : IsReported(Tail(s), k) => IsReported(s, k)
         /\ \A k : IsReported(s, k) => IsReported(Tail(s), k) \/ Reports(Head(s), k)
         /\ \A k \in Key : Reports(Head(s), k) /\ ~ IsReported(Tail(s), k) =>
                             (Head(s).name = "didAdd" <=> k \in cache)
<1> DEFINE t == Tail(s)
<1>1. /\ t \in Seq(Call) /\ Len(s) \in Nat /\ Len(s) > 0 /\ Head(s) = s[1]
      /\ DOMAIN t = 1 .. Len(s) - 1 /\ DOMAIN s = 1 .. Len(s)
      /\ \A i \in 1 .. Len(s) - 1 : t[i] = s[i + 1]
  OBVIOUS
<1> HIDE DEF t
<1>2. ASSUME NEW j \in 1 .. Len(s), j # 1
      PROVE  j - 1 \in 1 .. Len(s) - 1 /\ (j - 1) + 1 = j /\ t[j - 1] = s[j]
  <2>1. j - 1 \in 1 .. Len(s) - 1 /\ (j - 1) + 1 = j
    BY <1>1, <1>2
  <2> QED BY <2>1, <1>1
<1>3. ASSUME NEW k, NEW i \in DOMAIN t, IsLastReport(t, k, i) PROVE IsLastReport(s, k, i + 1)
  <2>1. Reports(s[i + 1], k)
    BY <1>1, <1>3 DEF IsLastReport
  <2>2. ASSUME NEW j \in DOMAIN s, j > i + 1 PROVE ~ Reports(s[j], k)
    <3>1. j # 1 /\ j - 1 > i
      BY <1>1, <2>2
    <3> QED BY <3>1, <1>1, <1>2, <1>3 DEF IsLastReport
  <2> QED BY <2>1, <2>2 DEF IsLastReport
<1>4. CallsTell(t, cache)
  <2> SUFFICES ASSUME NEW k \in Key, NEW i \in DOMAIN t, IsLastReport(t, k, i)
               PROVE  t[i].name = "didAdd" <=> k \in cache
    BY DEF CallsTell
  <2>1. i + 1 \in DOMAIN s /\ t[i] = s[i + 1]
    BY <1>1
  <2> QED BY <2>1, <1>3 DEF CallsTell
<1>5. ASSUME NEW k, IsReported(t, k) PROVE IsReported(s, k)
  <2>1. PICK i \in DOMAIN t : Reports(t[i], k)
    BY <1>5 DEF IsReported
  <2>2. i + 1 \in DOMAIN s /\ t[i] = s[i + 1]
    BY <1>1
  <2> QED BY <2>1, <2>2 DEF IsReported
<1>6. ASSUME NEW k, IsReported(s, k), ~ Reports(Head(s), k) PROVE IsReported(t, k)
  <2>1. PICK j \in DOMAIN s : Reports(s[j], k)
    BY <1>6 DEF IsReported
  <2>2. j # 1
    BY <2>1, <1>1, <1>6
  <2>3. j - 1 \in DOMAIN t /\ t[j - 1] = s[j]
    BY <1>1, <1>2, <2>2
  <2> QED BY <2>1, <2>3 DEF IsReported
<1>7. ASSUME NEW k \in Key, Reports(Head(s), k), ~ IsReported(t, k)
      PROVE  Head(s).name = "didAdd" <=> k \in cache
  <2>1. ASSUME NEW j \in DOMAIN s, j > 1 PROVE ~ Reports(s[j], k)
    <3>1. j - 1 \in DOMAIN t /\ t[j - 1] = s[j]
      BY <1>1, <1>2, <2>1
    <3> QED BY <3>1, <1>7 DEF IsReported
  <2>2. 1 \in DOMAIN s /\ IsLastReport(s, k, 1)
    BY <1>1, <1>7, <2>1 DEF IsLastReport
  <2> QED BY <2>2, <1>1 DEF CallsTell
<1> QED BY <1>4, <1>5, <1>6, <1>7 DEF t

-----------------------------------------------------------------------------
(* The view context.                                                       *)

\* Only the context of y differs from x.
SameClient(x, y) ==
  /\ y.line = x.line /\ y.observers = x.observers /\ y.cache = x.cache
  /\ y.out = x.out /\ y.calls = x.calls /\ y.doubtful = x.doubtful

LEMMA SaveOK ==
  ASSUME NEW ms, NEW x, ContextOK(x, ms)
  PROVE  ContextOK(Save(x), ms) /\ SameClient(x, Save(x)) /\ Save(x).keys = x.keys
<1>1. x \in DeviceState
  BY DEF ContextOK
<1>2. CASE Broken(x) = {}
  <2> DEFINE y == [x EXCEPT !.disk = [keys |-> x.keys, link |-> x.link]]
  <2>1. Save(x) = y
    BY <1>2 DEF Save
  <2>2. /\ y \in DeviceState /\ SameClient(x, y) /\ y.keys = x.keys /\ y.link = x.link
        /\ y.disk.keys = x.keys /\ y.disk.link = x.link
    BY <1>1 DEF DeviceState, SameClient
  <2>3. IsFavourites => \A k \in x.keys : x.link[k.podcast] = k
    BY <1>2 DEF Broken
  <2> HIDE DEF y
  <2>4. ContextOK(y, ms)
    BY <2>2, <2>3 DEF ContextOK, SameClient
  <2> QED BY <2>1, <2>2, <2>4
<1>3. CASE Broken(x) # {}
  BY <1>3 DEF Save, SameClient
<1> QED BY <1>2, <1>3

LEMMA InsertOK ==
  ASSUME NEW ms \in SUBSET Key, NEW x, ContextOK(x, ms), NEW k \in ms
  PROVE  /\ ContextOK(Insert(x, k), ms) /\ SameClient(x, Insert(x, k))
         /\ Insert(x, k).keys = x.keys \cup {k}
<1> DEFINE link == IF IsFavourites THEN [x.link EXCEPT ![k.podcast] = k] ELSE x.link
           y == [x EXCEPT !.keys = @ \cup {k}, !.link = link]
<1>1. x \in DeviceState
  BY DEF ContextOK
<1>2. Insert(x, k) = y
  BY DEF Insert
<1>3. link \in [Podcast -> Key \cup {NoKey}]
  BY <1>1 DEF DeviceState
<1>4. \A p \in Podcast : link[p] \in {x.link[p], k}
  BY <1>1 DEF DeviceState
<1> HIDE DEF link
<1>5. /\ y \in DeviceState /\ SameClient(x, y) /\ y.keys = x.keys \cup {k}
      /\ y.link = link /\ y.disk = x.disk
  BY <1>1, <1>3 DEF DeviceState, SameClient
<1> HIDE DEF y
<1>6. \A p \in Podcast : y.link[p] \in y.keys \cup {NoKey}
  BY <1>4, <1>5 DEF ContextOK
<1>7. ContextOK(y, ms)
  BY <1>5, <1>6 DEF ContextOK, SameClient
<1> QED BY <1>2, <1>5, <1>7

LEMMA RemoveOK ==
  ASSUME NEW ms, NEW x, ContextOK(x, ms), NEW k
  PROVE  /\ ContextOK(RemoveFromCoreData(x, k), ms) /\ SameClient(x, RemoveFromCoreData(x, k))
         /\ RemoveFromCoreData(x, k).keys = x.keys \ {k}
<1>1. x \in DeviceState
  BY DEF ContextOK
<1>2. CASE k \in x.keys
  <2> DEFINE link == [p \in Podcast |-> IF x.link[p] = k THEN NoKey ELSE x.link[p]]
             y == [x EXCEPT !.keys = @ \ {k}, !.link = link]
  <2>1. RemoveFromCoreData(x, k) = Save(y)
    BY <1>2 DEF RemoveFromCoreData
  <2>2. link \in [Podcast -> Key \cup {NoKey}]
    BY <1>1 DEF DeviceState
  <2>3. \A p \in Podcast : link[p] = NoKey \/ (link[p] = x.link[p] /\ link[p] # k)
    OBVIOUS
  <2> HIDE DEF link
  <2>4. /\ y \in DeviceState /\ SameClient(x, y) /\ y.keys = x.keys \ {k}
        /\ y.link = link /\ y.disk = x.disk
    BY <1>1, <2>2 DEF DeviceState, SameClient
  <2> HIDE DEF y
  <2>5. \A p \in Podcast : y.link[p] \in y.keys \cup {NoKey}
    BY <2>3, <2>4 DEF ContextOK
  <2>6. ContextOK(y, ms)
    BY <2>4, <2>5 DEF ContextOK, SameClient
  <2> QED BY <2>1, <2>4, <2>6, SaveOK DEF SameClient
<1>3. CASE k \notin x.keys
  BY <1>3 DEF RemoveFromCoreData, SameClient
<1> QED BY <1>2, <1>3

-----------------------------------------------------------------------------
(* The client.                                                             *)

\* What of a device does not change when callbacks are raised.
SameContext(x, y) ==
  /\ y.keys = x.keys /\ y.link = x.link /\ y.disk = x.disk
  /\ y.line = x.line /\ y.observers = x.observers

LEMMA SameContextOK ==
  ASSUME NEW ms, NEW x, ContextOK(x, ms), NEW y \in DeviceState, SameContext(x, y),
         y.cache \subseteq ms
  PROVE  ContextOK(y, ms)
BY DEF ContextOK, SameContext

\* The queues with raised callbacks.
LEMMA QueuesGrow ==
  ASSUME NEW ms \in SUBSET Key, NEW x \in DeviceState, QueuesOK(x, ms), NEW r \in Seq(Call),
         \A i \in DOMAIN r : r[i].name \in {"didAdd", "didRemove"} /\ \E k \in ms : r[i].keys = {k},
         NEW y \in DeviceState, y.calls = x.calls \o r, y.out = x.out,
         y.observers + Cardinality(Connecting(x.calls)) <= MaxObservers
  PROVE  QueuesOK(y, ms)
<1>1. x.calls \in Seq(Call)
  BY DEF DeviceState
<1>2. Connecting(y.calls) = Connecting(x.calls)
  BY <1>1, ConnectingRaised
<1>3. ASSUME NEW i \in DOMAIN y.calls
      PROVE  y.calls[i] \in {x.calls[j] : j \in DOMAIN x.calls} \cup {r[j] : j \in DOMAIN r}
  <2>1. y.calls[i] = IF i <= Len(x.calls) THEN x.calls[i] ELSE r[i - Len(x.calls)]
    BY <1>1
  <2>2. CASE i <= Len(x.calls)
    <3>1. i \in DOMAIN x.calls
      BY <1>1, <2>2
    <3> QED BY <2>1, <2>2, <3>1
  <2>3. CASE ~(i <= Len(x.calls))
    <3>1. i - Len(x.calls) \in DOMAIN r
      BY <1>1, <2>3
    <3> QED BY <2>1, <2>3, <3>1
  <2> QED BY <2>2, <2>3
<1>4. \A i \in DOMAIN r : CallOK(r[i], ms)
  BY DEF CallOK
<1>5. \A i \in DOMAIN y.calls : CallOK(y.calls[i], ms)
  BY <1>3, <1>4 DEF QueuesOK
<1> QED BY <1>2, <1>5 DEF QueuesOK

\* The client shows something new.
LEMMA NoticedFits ==
  ASSUME NEW ks, NEW ms \in SUBSET Key, IsFiniteSet(ms), NEW x,
         ContextOK(x, ms), QueuesOK(x, ms), x.observers > 0, CallsTell(x.calls, x.cache),
         NEW new \in SUBSET ms, Overlay(new, x.out) = new,
         x.line = "up" => new = Overlay(ks, x.out),
         \A k \in Key :
           (~ IsReported(x.calls, k) /\ k \notin x.doubtful /\ (k \in x.cache <=> k \in new))
             => (k \in x.keys <=> k \in new)
  PROVE  Fits(Noticed(x, new), ks, ms)
<1> DEFINE r == Raised(x.observers, x.cache, new)
           y == Noticed(x, new)
<1>1. /\ x \in DeviceState /\ x.observers \in Nat /\ x.cache \in SUBSET ms
      /\ x.calls \in Seq(Call) /\ x.out \in Seq(WriteRecord)
  BY DEF ContextOK, DeviceState
<1>2. IsFiniteSet(x.cache) /\ IsFiniteSet(new)
  BY <1>1, FS_Subset
<1>3. IsRaised(r, x.observers, x.cache, new)
  BY <1>1, <1>2, RaisedFacts
<1>4. TellsChange(r, x.cache, new)
  BY <1>1, <1>3, RaisedTells
<1> HIDE DEF r
<1>5. r \in Seq(Call)
  BY <1>4 DEF TellsChange
<1>6. x.calls \o r \in Seq(Call)
  BY <1>1, <1>5
<1>7. /\ y \in DeviceState /\ SameContext(x, y) /\ y.cache = new /\ y.calls = x.calls \o r
      /\ y.out = x.out /\ y.doubtful = x.doubtful
  BY <1>1, <1>6 DEF DeviceState, SameContext, Noticed, r
<1> HIDE DEF y
<1>8. ContextOK(y, ms)
  BY <1>7, SameContextOK
<1>9. QueuesOK(y, ms)
  <2>1. \A i \in DOMAIN r : r[i].name \in {"didAdd", "didRemove"} /\ \E k \in ms : r[i].keys = {k}
    BY <1>1, <1>3 DEF IsRaised
  <2>2. y.observers + Cardinality(Connecting(x.calls)) <= MaxObservers
    BY <1>7 DEF SameContext, QueuesOK
  <2> QED BY <1>1, <1>5, <1>7, <2>1, <2>2, QueuesGrow
<1>10. ClientOK(y, ks)
  <2>1. CallsTell(y.calls, y.cache)
    BY <1>1, <1>4, <1>7, CallsGoOnTelling
  <2> QED BY <2>1, <1>7, <1>1 DEF ClientOK, SameContext
<1>11. ASSUME NEW k \in Key PROVE AgreesOn(y, k)
  <2> SUFFICES ASSUME ~ IsReported(y.calls, k), k \notin y.doubtful
               PROVE  k \in y.keys <=> k \in y.cache
    BY DEF AgreesOn
  <2>1. ~ IsReported(x.calls, k) /\ ~ IsReported(r, k)
    BY <1>1, <1>5, <1>7, ReportsIn
  <2>2. k \in x.cache <=> k \in new
    BY <2>1, <1>4 DEF TellsChange
  <2> QED BY <2>1, <2>2, <1>7 DEF SameContext
<1> QED BY <1>8, <1>9, <1>10, <1>11 DEF Fits, y

\* A write: the record is here as written, the others are as before.
LEMMA WriteFits ==
  ASSUME NEW ks, NEW ms \in SUBSET Key, IsFiniteSet(ms), NEW x,
         ContextOK(x, ms), QueuesOK(x, ms), ClientOK(x, ks),
         NEW op \in {"add", "remove"}, NEW k \in ms, k \in x.keys <=> op = "add",
         \A l \in Key : l # k => AgreesOn(x, l)
  PROVE  Fits(Write(x, op, k), ks, ms)
<1> DEFINE w == [op |-> op, key |-> k]
           sent == [x EXCEPT !.out = Append(@, w)]
<1>1. /\ x \in DeviceState /\ x.cache \in SUBSET ms /\ x.observers \in Nat
      /\ x.out \in Seq(WriteRecord)
  BY DEF ContextOK, DeviceState
<1>2. w \in WriteRecord /\ w.op = op /\ w.key = k
  BY DEF WriteRecord
<1> HIDE DEF w
<1>3. /\ sent \in DeviceState /\ SameContext(x, sent) /\ sent.cache = x.cache
      /\ sent.calls = x.calls /\ sent.doubtful = x.doubtful /\ sent.out = Append(x.out, w)
  <2>1. Append(x.out, w) \in Seq(WriteRecord)
    BY <1>1, <1>2
  <2> QED BY <1>1, <2>1 DEF DeviceState, SameContext
<1> HIDE DEF sent
<1>4. ContextOK(sent, ms)
  BY <1>1, <1>3, SameContextOK
<1>5. QueuesOK(sent, ms)
  <2>1. \A i \in DOMAIN sent.out : sent.out[i] = w \/ (i \in DOMAIN x.out /\ sent.out[i] = x.out[i])
    BY <1>1, <1>2, <1>3
  <2> QED BY <2>1, <1>2, <1>3 DEF QueuesOK, SameContext
<1>6. CASE x.observers = 0
  <2> DEFINE y == [sent EXCEPT !.doubtful = @ \cup {k}]
  <2>1. Write(x, op, k) = y
    BY <1>6 DEF Write, sent, w
  <2>2. /\ y \in DeviceState /\ SameContext(sent, y) /\ y.cache = sent.cache
        /\ y.calls = sent.calls /\ y.doubtful = sent.doubtful \cup {k} /\ y.out = sent.out
    BY <1>3 DEF DeviceState, SameContext
  <2> HIDE DEF y
  <2>3. ContextOK(y, ms)
    BY <1>1, <1>3, <1>4, <2>2, SameContextOK
  <2>4. QueuesOK(y, ms)
    BY <1>5, <2>2 DEF QueuesOK, SameContext
  <2>5. ClientOK(y, ks)
    BY <1>6, <1>3, <2>2 DEF ClientOK, SameContext
  <2>6. \A l \in Key : AgreesOn(y, l)
    BY <1>3, <2>2 DEF AgreesOn, SameContext
  <2> QED BY <2>1, <2>3, <2>4, <2>5, <2>6 DEF Fits
<1>7. CASE x.observers # 0
  <2> DEFINE new == Applied(x.cache, w)
  <2>1. Write(x, op, k) = Noticed(sent, new)
    BY <1>7 DEF Write, sent, w
  <2>2. new \in SUBSET ms /\ \A l : l \in new <=> IF l = k THEN op = "add" ELSE l \in x.cache
    BY <1>1, <1>2 DEF Applied
  <2>3. new = Overlay(x.cache, sent.out)
    BY <1>1, <1>2, <1>3, <1>7, OverlayAppend DEF ClientOK
  <2>4. Overlay(new, sent.out) = new
    <3>1. sent.out \in Seq(WriteRecord)
      BY <1>1, <1>2, <1>3
    <3> QED BY <2>3, <3>1, OverlayTwice
  <2>5. sent.line = "up" => new = Overlay(ks, sent.out)
    BY <1>1, <1>2, <1>3, OverlayAppend DEF ClientOK, SameContext
  <2> HIDE DEF new
  <2>6. ASSUME NEW l \in Key, ~ IsReported(sent.calls, l), l \notin sent.doubtful,
               l \in sent.cache <=> l \in new
        PROVE  l \in sent.keys <=> l \in new
    BY <2>6, <2>2, <1>3 DEF AgreesOn, SameContext
  <2>7. sent.observers > 0 /\ CallsTell(sent.calls, sent.cache)
    BY <1>1, <1>3, <1>7 DEF ClientOK, SameContext
  <2> QED BY <2>1, <2>2, <2>4, <2>5, <2>6, <2>7, <1>4, <1>5, NoticedFits
<1> QED BY <1>6, <1>7

\* What a client shows before it hears from the server.
ClientHolds(x) ==
  /\ x.line = "up" => x.observers > 0
  /\ x.observers = 0 => x.cache = {} /\ \A k \in Key : ~ IsReported(x.calls, k)
  /\ x.observers > 0 => Overlay(x.cache, x.out) = x.cache
  /\ CallsTell(x.calls, x.cache)

\* The server's records have changed, or come over the new connection.
LEMMA RefreshedFits ==
  ASSUME NEW ms \in SUBSET Key, IsFiniteSet(ms), NEW ks \in SUBSET ms, NEW x,
         ContextOK(x, ms), QueuesOK(x, ms), ClientHolds(x), \A k \in Key : AgreesOn(x, k)
  PROVE  Fits(Refreshed(x, ks), ks, ms)
<1>1. CASE x.line = "up"
  <2> DEFINE new == Overlay(ks, x.out)
  <2>1. Refreshed(x, ks) = Noticed(x, new)
    BY <1>1 DEF Refreshed
  <2>2. x.out \in Seq(WriteRecord)
    BY DEF ContextOK, DeviceState
  <2>3. new \in SUBSET ms
    BY <2>2, OverlayWithin DEF QueuesOK
  <2>4. Overlay(new, x.out) = new
    BY <2>2, OverlayTwice
  <2> HIDE DEF new
  <2>5. x.observers > 0 /\ CallsTell(x.calls, x.cache)
    BY <1>1 DEF ClientHolds
  <2>6. ASSUME NEW k \in Key, ~ IsReported(x.calls, k), k \notin x.doubtful, k \in x.cache <=> k \in new
        PROVE  k \in x.keys <=> k \in new
    BY <2>6 DEF AgreesOn
  <2>7. x.line = "up" => new = Overlay(ks, x.out)
    BY DEF new
  <2> QED BY <2>1, <2>3, <2>4, <2>5, <2>6, <2>7, NoticedFits
<1>2. CASE x.line # "up"
  BY <1>2 DEF Refreshed, Fits, ClientOK, ClientHolds
<1> QED BY <1>1, <1>2

LEMMA SameClientFits ==
  ASSUME NEW ks, NEW ms, NEW x, QueuesOK(x, ms), ClientOK(x, ks), NEW y, SameClient(x, y)
  PROVE  QueuesOK(y, ms) /\ ClientOK(y, ks)
BY DEF QueuesOK, ClientOK, SameClient

LEMMA AddRecordFits ==
  ASSUME NEW ks, NEW ms \in SUBSET Key, IsFiniteSet(ms), NEW x, Fits(x, ks, ms), NEW k \in ms
  PROVE  Fits(AddRecord(x, k), ks, ms)
<1> DEFINE y == Insert(x, k)
           z == Save(y)
<1>1. ContextOK(y, ms) /\ SameClient(x, y) /\ y.keys = x.keys \cup {k}
  BY InsertOK DEF Fits
<1> HIDE DEF y
<1>2. ContextOK(z, ms) /\ SameClient(y, z) /\ z.keys = y.keys
  BY <1>1, SaveOK
<1> HIDE DEF z
<1>3. SameClient(x, z)
  BY <1>1, <1>2 DEF SameClient
<1>4. QueuesOK(z, ms) /\ ClientOK(z, ks)
  BY <1>3, SameClientFits DEF Fits
<1>5. \A l \in Key : l # k => AgreesOn(z, l)
  BY <1>1, <1>2, <1>3 DEF Fits, AgreesOn, SameClient
<1>6. Fits(Write(z, "add", k), ks, ms)
  BY <1>1, <1>2, <1>4, <1>5, WriteFits
<1> QED BY <1>6 DEF AddRecord, z, y

LEMMA RemoveRecordFits ==
  ASSUME NEW ks, NEW ms \in SUBSET Key, IsFiniteSet(ms), NEW x, Fits(x, ks, ms), NEW k \in ms
  PROVE  Fits(RemoveRecord(x, k), ks, ms)
<1> DEFINE z == RemoveFromCoreData(x, k)
<1>1. ContextOK(z, ms) /\ SameClient(x, z) /\ z.keys = x.keys \ {k}
  BY RemoveOK DEF Fits
<1> HIDE DEF z
<1>2. QueuesOK(z, ms) /\ ClientOK(z, ks)
  BY <1>1, SameClientFits DEF Fits
<1>3. \A l \in Key : l # k => AgreesOn(z, l)
  BY <1>1 DEF Fits, AgreesOn, SameClient
<1>4. Fits(Write(z, "remove", k), ks, ms)
  BY <1>1, <1>2, <1>3, WriteFits
<1> QED BY <1>4 DEF RemoveRecord, z

\* Whatever removing one record keeps, the loop of removeAll keeps.
LEMMA RemoveAllStays ==
  ASSUME NEW gone, IsFiniteSet(gone), NEW S, NEW x \in S,
         \A y \in S : \A k \in gone : RemoveRecord(y, k) \in S
  PROVE  InTurn(RemoveRecord, x, gone) \in S
<1> DEFINE order == SetToSeq(gone)
           step == [i \in 1 .. Len(order) |-> [y \in S |-> RemoveRecord(y, order[i])]]
           after == CHOOSE f : f = [n \in 0 .. Len(order) |->
                                      IF n = 0 THEN x ELSE RemoveRecord(f[n - 1], order[n])]
<1>1. order \in Seq(gone) /\ Len(order) \in Nat
  <2>1. order \in Seq(gone)
    BY OrderOf
  <2> HIDE DEF order
  <2> QED BY <2>1
<1>2. InTurn(RemoveRecord, x, gone) = after[Len(order)]
  BY DEF InTurn
<1> HIDE DEF order
<1>3. /\ step \in [1 .. Len(order) -> [S -> S]]
      /\ \A i \in 1 .. Len(order) : \A y \in S : step[i][y] = RemoveRecord(y, order[i])
  BY <1>1
<1> HIDE DEF step
<1>4. PICK g : IsLoop(g, S, Len(order), x, step)
  <2>1. Len(order) \in Nat
    BY <1>1
  <2>2. step \in [1 .. Len(order) -> [S -> S]]
    BY <1>3
  <2> QED BY <2>1, <2>2, LoopRuns
<1>5. g = [n \in 0 .. Len(order) |-> IF n = 0 THEN x ELSE RemoveRecord(g[n - 1], order[n])]
  <2>1. \A n \in 1 .. Len(order) : g[n - 1] \in S
    BY <1>1, <1>4 DEF IsLoop
  <2>2. \A n \in 1 .. Len(order) : g[n] = RemoveRecord(g[n - 1], order[n])
    BY <1>3, <1>4, <2>1 DEF IsLoop
  <2>3. \A n \in 0 .. Len(order) : g[n] = IF n = 0 THEN x ELSE RemoveRecord(g[n - 1], order[n])
    BY <1>1, <1>4, <2>2 DEF IsLoop
  <2> QED BY <1>4, <2>3 DEF IsLoop
<1>6. after = [n \in 0 .. Len(order) |->
                 IF n = 0 THEN x ELSE RemoveRecord(after[n - 1], order[n])]
  BY <1>5
<1> HIDE DEF after
<1>7. after[0] \in S
  BY <1>1, <1>6
<1>8. ASSUME NEW n \in 1 .. Len(order), after[n - 1] \in S PROVE after[n] \in S
  <2>1. n \in 0 .. Len(order) /\ n # 0 /\ order[n] \in gone
    BY <1>1
  <2>2. after[n] = RemoveRecord(after[n - 1], order[n])
    BY <1>6, <2>1
  <2> QED BY <1>8, <2>1, <2>2
<1> QED BY <1>1, <1>2, <1>7, <1>8, LoopStays

\* The same of the loop that removes the records that an answer lacks.
LEMMA ReplacedStays ==
  ASSUME NEW x, NEW ks, IsFiniteSet(x.keys \ ks), NEW S, x \in S,
         \A y \in S : \A k \in x.keys \ ks : RemoveFromCoreData(y, k) \in S
  PROVE  Replaced(x, ks) \in S
<1> DEFINE gone == x.keys \ ks
           order == SetToSeq(gone)
           step == [i \in 1 .. Len(order) |-> [y \in S |-> RemoveFromCoreData(y, order[i])]]
           after == CHOOSE f : f = [n \in 0 .. Len(order) |->
                                      IF n = 0 THEN x ELSE RemoveFromCoreData(f[n - 1], order[n])]
<1>1. order \in Seq(gone) /\ Len(order) \in Nat
  <2> HIDE DEF gone
  <2>1. order \in Seq(gone)
    BY OrderOf DEF gone
  <2> HIDE DEF order
  <2> QED BY <2>1
<1>2. Replaced(x, ks) = after[Len(order)]
  BY DEF Replaced, InTurn
<1> HIDE DEF order
<1>3. \A y \in S : \A k \in gone : RemoveFromCoreData(y, k) \in S
  OBVIOUS
<1> HIDE DEF gone
<1>4. /\ step \in [1 .. Len(order) -> [S -> S]]
      /\ \A i \in 1 .. Len(order) : \A y \in S : step[i][y] = RemoveFromCoreData(y, order[i])
  BY <1>1, <1>3
<1> HIDE DEF step
<1>5. PICK g : IsLoop(g, S, Len(order), x, step)
  <2>1. Len(order) \in Nat
    BY <1>1
  <2>2. step \in [1 .. Len(order) -> [S -> S]]
    BY <1>4
  <2> QED BY <2>1, <2>2, LoopRuns
<1>6. g = [n \in 0 .. Len(order) |-> IF n = 0 THEN x ELSE RemoveFromCoreData(g[n - 1], order[n])]
  <2>1. \A n \in 1 .. Len(order) : g[n - 1] \in S
    BY <1>1, <1>5 DEF IsLoop
  <2>2. \A n \in 1 .. Len(order) : g[n] = RemoveFromCoreData(g[n - 1], order[n])
    BY <1>4, <1>5, <2>1 DEF IsLoop
  <2>3. \A n \in 0 .. Len(order) : g[n] = IF n = 0 THEN x ELSE RemoveFromCoreData(g[n - 1], order[n])
    BY <1>1, <1>5, <2>2 DEF IsLoop
  <2> QED BY <1>5, <2>3 DEF IsLoop
<1>7. after = [n \in 0 .. Len(order) |->
                 IF n = 0 THEN x ELSE RemoveFromCoreData(after[n - 1], order[n])]
  BY <1>6
<1> HIDE DEF after
<1>8. after[0] \in S
  BY <1>1, <1>7
<1>9. ASSUME NEW n \in 1 .. Len(order), after[n - 1] \in S PROVE after[n] \in S
  <2>1. n \in 0 .. Len(order) /\ n # 0 /\ order[n] \in gone
    BY <1>1
  <2>2. after[n] = RemoveFromCoreData(after[n - 1], order[n])
    BY <1>7, <2>1
  <2> QED BY <1>3, <1>9, <2>1, <2>2
<1> QED BY <1>1, <1>2, <1>8, <1>9, LoopStays

\* All records that the loop of removeAll comes to are removed.
LEMMA RemoveAllFits ==
  ASSUME NEW ks, NEW ms \in SUBSET Key, IsFiniteSet(ms), NEW x, Fits(x, ks, ms),
         NEW gone \in SUBSET ms
  PROVE  Fits(InTurn(RemoveRecord, x, gone), ks, ms)
<1> DEFINE S == {y \in DeviceState : Fits(y, ks, ms)}
<1>1. \A y \in S : \A k \in gone : RemoveRecord(y, k) \in S
  BY RemoveRecordFits DEF Fits, ContextOK
<1>2. x \in S /\ IsFiniteSet(gone)
  BY FS_Subset DEF Fits, ContextOK
<1> HIDE DEF S
<1>3. InTurn(RemoveRecord, x, gone) \in S
  BY <1>1, <1>2, RemoveAllStays
<1> QED BY <1>3 DEF S

LEMMA ReplacedOK ==
  ASSUME NEW ms \in SUBSET Key, IsFiniteSet(ms), NEW x, ContextOK(x, ms), NEW ks
  PROVE  ContextOK(Replaced(x, ks), ms) /\ SameClient(x, Replaced(x, ks))
<1> DEFINE S == {y \in DeviceState : ContextOK(y, ms) /\ SameClient(x, y)}
<1>1. ASSUME NEW y \in S, NEW k PROVE RemoveFromCoreData(y, k) \in S
  <2>1. ContextOK(RemoveFromCoreData(y, k), ms) /\ SameClient(y, RemoveFromCoreData(y, k))
    BY RemoveOK
  <2>2. SameClient(x, RemoveFromCoreData(y, k))
    BY <2>1 DEF SameClient
  <2>3. RemoveFromCoreData(y, k) \in DeviceState
    BY <2>1 DEF ContextOK
  <2> QED BY <2>1, <2>2, <2>3
<1>2. x \in S /\ x.keys \in SUBSET ms
  BY DEF SameClient, ContextOK
<1>3. IsFiniteSet(x.keys \ ks)
  BY <1>2, FS_Subset
<1> HIDE DEF S
<1>4. Replaced(x, ks) \in S
  BY <1>1, <1>2, <1>3, ReplacedStays
<1> QED BY <1>4 DEF S

-----------------------------------------------------------------------------
(* The main thread.                                                        *)

\* A device whose first callback is taken.
Taken(x) == [x EXCEPT !.calls = Tail(@)]

LEMMA TakenOK ==
  ASSUME NEW ks, NEW ms \in SUBSET Key, MaxObservers \in Nat,
         NEW x, Fits(x, ks, ms), x.calls # <<>>
  PROVE  /\ Taken(x) \in DeviceState /\ SameContext(x, Taken(x))
         /\ Taken(x).cache = x.cache /\ Taken(x).out = x.out /\ Taken(x).doubtful = x.doubtful
         /\ Taken(x).calls = Tail(x.calls) /\ x.calls \in Seq(Call)
         /\ Head(x.calls) \in Call /\ CallOK(Head(x.calls), ms)
         /\ ContextOK(Taken(x), ms) /\ QueuesOK(Taken(x), ms) /\ ClientOK(Taken(x), ks)
         /\ Head(x.calls).name = "connected" =>
              x.observers + 1 + Cardinality(Connecting(Tail(x.calls))) <= MaxObservers
<1> DEFINE y == Taken(x)
<1>1. /\ x \in DeviceState /\ x.calls \in Seq(Call) /\ x.observers \in Nat
  <2>1. x \in DeviceState
    BY DEF Fits, ContextOK
  <2> QED BY <2>1 DEF DeviceState
<1>2. Tail(x.calls) \in Seq(Call) /\ Head(x.calls) = x.calls[1] /\ 1 \in DOMAIN x.calls
  BY <1>1
<1>3. /\ y \in DeviceState /\ SameContext(x, y) /\ y.cache = x.cache /\ y.out = x.out
      /\ y.doubtful = x.doubtful /\ y.calls = Tail(x.calls)
  BY <1>1, <1>2 DEF DeviceState, SameContext, Taken
<1> HIDE DEF y
<1>4. Head(x.calls) \in Call /\ CallOK(Head(x.calls), ms)
  BY <1>1, <1>2 DEF Fits, QueuesOK
<1>5. ContextOK(y, ms)
  BY <1>3, SameContextOK DEF Fits, ContextOK
<1>6. /\ Cardinality(Connecting(x.calls)) \in Nat /\ Cardinality(Connecting(y.calls)) \in Nat
      /\ Cardinality(Connecting(y.calls))
           = Cardinality(Connecting(x.calls)) - (IF Head(x.calls).name = "connected" THEN 1 ELSE 0)
  BY <1>1, <1>2, <1>3, ConnectingType, ConnectingTail
<1>7. QueuesOK(y, ms)
  <2>1. \A i \in DOMAIN y.calls : i + 1 \in DOMAIN x.calls /\ y.calls[i] = x.calls[i + 1]
    BY <1>1, <1>3
  <2>2. \A i \in DOMAIN y.calls : CallOK(y.calls[i], ms)
    BY <2>1 DEF Fits, QueuesOK
  <2>3. y.observers + Cardinality(Connecting(y.calls)) <= MaxObservers
    BY <1>1, <1>3, <1>6 DEF Fits, QueuesOK, SameContext
  <2> QED BY <2>2, <2>3, <1>3 DEF Fits, QueuesOK
<1>8. Head(x.calls).name = "connected" =>
        x.observers + 1 + Cardinality(Connecting(Tail(x.calls))) <= MaxObservers
  BY <1>1, <1>3, <1>6 DEF Fits, QueuesOK
<1>9. ClientOK(y, ks)
  <2>1. CallsTell(y.calls, y.cache) /\ \A k : IsReported(y.calls, k) => IsReported(x.calls, k)
    BY <1>1, <1>3, TailReports DEF Fits, ClientOK
  <2> QED BY <2>1, <1>3 DEF Fits, ClientOK, SameContext
<1> QED BY <1>1, <1>3, <1>4, <1>5, <1>7, <1>8, <1>9 DEF y

\* What was reported last of k is so, here too.
LEMMA HeardFits ==
  ASSUME NEW ks, NEW ms \in SUBSET Key, MaxObservers \in Nat,
         NEW x, Fits(x, ks, ms), x.calls # <<>>,
         NEW k \in ms, Reports(Head(x.calls), k),
         NEW y, ContextOK(y, ms), SameClient([Taken(x) EXCEPT !.doubtful = @ \ {k}], y),
         \A l \in Key : l # k => (l \in y.keys <=> l \in x.keys),
         k \in y.keys <=> Head(x.calls).name = "didAdd"
  PROVE  Fits(y, ks, ms)
<1> DEFINE heard == [Taken(x) EXCEPT !.doubtful = @ \ {k}]
<1>1. /\ Taken(x) \in DeviceState /\ SameContext(x, Taken(x))
      /\ Taken(x).cache = x.cache /\ Taken(x).out = x.out /\ Taken(x).doubtful = x.doubtful
      /\ Taken(x).calls = Tail(x.calls) /\ x.calls \in Seq(Call)
      /\ QueuesOK(Taken(x), ms) /\ ClientOK(Taken(x), ks)
  BY TakenOK
<1>2. /\ SameContext(Taken(x), heard) /\ heard.cache = Taken(x).cache /\ heard.out = Taken(x).out
      /\ heard.calls = Taken(x).calls /\ heard.doubtful = Taken(x).doubtful \ {k}
  BY <1>1 DEF DeviceState, SameContext
<1> HIDE DEF heard
<1>3. QueuesOK(heard, ms) /\ ClientOK(heard, ks)
  BY <1>1, <1>2 DEF QueuesOK, ClientOK, SameContext
<1>4. QueuesOK(y, ms) /\ ClientOK(y, ks)
  BY <1>3, SameClientFits DEF heard
<1>5. /\ \A l : IsReported(x.calls, l) => IsReported(Tail(x.calls), l) \/ Reports(Head(x.calls), l)
      /\ \A l \in Key : Reports(Head(x.calls), l) /\ ~ IsReported(Tail(x.calls), l) =>
                          (Head(x.calls).name = "didAdd" <=> l \in x.cache)
  BY <1>1, TailReports DEF Fits, ClientOK
<1>6. y.calls = Tail(x.calls) /\ y.cache = x.cache /\ y.doubtful = x.doubtful \ {k}
  BY <1>1, <1>2 DEF SameClient, heard
<1>7. ASSUME NEW l \in Key PROVE AgreesOn(y, l)
  <2> SUFFICES ASSUME ~ IsReported(Tail(x.calls), l), l \notin x.doubtful \ {k}
               PROVE  l \in y.keys <=> l \in x.cache
    BY <1>6 DEF AgreesOn
  <2>1. CASE l = k
    BY <2>1, <1>5
  <2>2. CASE l # k
    <3>1. ~ Reports(Head(x.calls), l)
      BY <2>2 DEF Reports
    <3>2. AgreesOn(x, l)
      BY DEF Fits
    <3> QED BY <2>2, <3>1, <3>2, <1>5 DEF AgreesOn
  <2> QED BY <2>1, <2>2
<1> QED BY <1>4, <1>7 DEF Fits

LEMMA DidAddFits ==
  ASSUME NEW ks, NEW ms \in SUBSET Key, MaxObservers \in Nat,
         NEW x, Fits(x, ks, ms), x.calls # <<>>,
         Head(x.calls).name = "didAdd", NEW y \in Handled(x, Head(x.calls))
  PROVE  Fits(y, ks, ms)
<1>1. PICK k \in ms : Head(x.calls).keys = {k}
  <2>1. CallOK(Head(x.calls), ms)
    BY TakenOK
  <2> QED BY <2>1 DEF CallOK
<1> DEFINE heard == [Taken(x) EXCEPT !.doubtful = @ \ {k}]
<1>2. y = DidAdd(heard, k)
  BY <1>1 DEF Handled, Taken
<1>3. Taken(x) \in DeviceState /\ SameContext(x, Taken(x)) /\ Taken(x).cache = x.cache
      /\ ContextOK(Taken(x), ms)
  BY TakenOK
<1>4. heard \in DeviceState /\ SameContext(Taken(x), heard) /\ heard.cache = Taken(x).cache
  BY <1>3 DEF DeviceState, SameContext
<1> HIDE DEF heard
<1>5. ContextOK(heard, ms)
  BY <1>3, <1>4, SameContextOK DEF ContextOK
<1>6. heard.keys = x.keys
  BY <1>3, <1>4 DEF SameContext
<1>7. ContextOK(y, ms) /\ SameClient(heard, y) /\ y.keys = x.keys \cup {k}
  <2>1. CASE k \in heard.keys
    <3>1. y = heard
      BY <1>2, <2>1 DEF DidAdd
    <3> QED BY <3>1, <2>1, <1>5, <1>6 DEF SameClient
  <2>2. CASE k \notin heard.keys
    <3>1. y = Insert(heard, k)
      BY <1>2, <2>2 DEF DidAdd
    <3>2. /\ ContextOK(Insert(heard, k), ms) /\ SameClient(heard, Insert(heard, k))
          /\ Insert(heard, k).keys = heard.keys \cup {k}
      BY <1>5, InsertOK
    <3> QED BY <3>1, <3>2, <1>6
  <2> QED BY <2>1, <2>2
<1>8. Reports(Head(x.calls), k)
  BY <1>1 DEF Reports
<1> QED BY <1>7, <1>8, HeardFits DEF heard

LEMMA DidRemoveFits ==
  ASSUME NEW ks, NEW ms \in SUBSET Key, MaxObservers \in Nat,
         NEW x, Fits(x, ks, ms), x.calls # <<>>,
         Head(x.calls).name = "didRemove", NEW y \in Handled(x, Head(x.calls))
  PROVE  Fits(y, ks, ms)
<1>1. PICK k \in ms : Head(x.calls).keys = {k}
  <2>1. CallOK(Head(x.calls), ms)
    BY TakenOK
  <2> QED BY <2>1 DEF CallOK
<1> DEFINE heard == [Taken(x) EXCEPT !.doubtful = @ \ {k}]
<1>2. y = RemoveFromCoreData(heard, k)
  BY <1>1 DEF Handled, Taken, DidRemove
<1>3. Taken(x) \in DeviceState /\ SameContext(x, Taken(x)) /\ Taken(x).cache = x.cache
      /\ ContextOK(Taken(x), ms)
  BY TakenOK
<1>4. heard \in DeviceState /\ SameContext(Taken(x), heard) /\ heard.cache = Taken(x).cache
  BY <1>3 DEF DeviceState, SameContext
<1> HIDE DEF heard
<1>5. ContextOK(heard, ms)
  BY <1>3, <1>4, SameContextOK DEF ContextOK
<1>6. heard.keys = x.keys
  BY <1>3, <1>4 DEF SameContext
<1>7. ContextOK(y, ms) /\ SameClient(heard, y) /\ y.keys = x.keys \ {k}
  BY <1>2, <1>5, <1>6, RemoveOK
<1>8. Reports(Head(x.calls), k)
  BY <1>1 DEF Reports
<1> QED BY <1>7, <1>8, HeardFits DEF heard

\* One more observer hears of all that there is.
LEMMA ObservedFits ==
  ASSUME NEW ks, NEW ms \in SUBSET Key, IsFiniteSet(ms), MaxObservers \in Nat,
         NEW x, Fits(x, ks, ms), x.calls # <<>>,
         Head(x.calls).name = "connected", NEW y \in Handled(x, Head(x.calls))
  PROVE  Fits(y, ks, ms)
<1> DEFINE rest == Taken(x)
           seen == Overlay(rest.cache, rest.out)
           r == CallsFor(1, "didAdd", seen)
<1>1. y = [rest EXCEPT !.observers = @ + 1, !.cache = seen, !.calls = @ \o r]
  BY DEF Handled, Observed, Taken
<1>2. /\ rest \in DeviceState /\ SameContext(x, rest) /\ rest.cache = x.cache /\ rest.out = x.out
      /\ rest.doubtful = x.doubtful /\ rest.calls = Tail(x.calls) /\ x.calls \in Seq(Call)
      /\ ContextOK(rest, ms) /\ QueuesOK(rest, ms) /\ ClientOK(rest, ks)
      /\ x.observers + 1 + Cardinality(Connecting(Tail(x.calls))) <= MaxObservers
  BY TakenOK
<1> HIDE DEF rest
<1>3. /\ rest.out \in Seq(WriteRecord) /\ rest.calls \in Seq(Call) /\ rest.observers \in Nat
      /\ rest.cache \in SUBSET ms
  BY <1>2 DEF DeviceState, ContextOK
<1>4. seen \in SUBSET ms /\ Overlay(seen, rest.out) = seen
  BY <1>2, <1>3, OverlayWithin, OverlayTwice DEF QueuesOK
<1>5. rest.observers > 0 => seen = rest.cache
  BY <1>2 DEF ClientOK
<1> HIDE DEF seen
<1>6. TellOf(r, 1, "didAdd", seen)
  BY <1>4, FS_Subset, CallsForFacts
<1> HIDE DEF r
<1>7. r \in Seq(Call)
  <2>1. [name : {"didAdd"}, keys : SUBSET seen] \subseteq Call
    BY <1>4 DEF Call
  <2> QED BY <2>1, <1>6 DEF TellOf
<1>8. TellsChange(r, rest.cache, seen)
  <2>1. \A i \in DOMAIN r : \E k \in Key :
          r[i] = [name |-> IF k \in seen THEN "didAdd" ELSE "didRemove", keys |-> {k}]
    BY <1>4, <1>6 DEF TellOf
  <2>2. ASSUME NEW k \in Key, ~ IsReported(r, k) PROVE k \in rest.cache <=> k \in seen
    <3>1. \A l \in seen : \E i \in DOMAIN r : r[i] = [name |-> "didAdd", keys |-> {l}]
      <4>1. 1 > 0
        OBVIOUS
      <4> QED BY <1>6, <4>1, Zenon DEF TellOf
    <3>2. \A l \in seen : IsReported(r, l)
      BY <3>1 DEF IsReported, Reports
    <3>3. k \notin seen
      BY <3>2, <2>2
    <3> QED BY <3>3, <1>2, <1>3, <1>5 DEF ClientOK
  <2> QED BY <2>1, <2>2, <1>7 DEF TellsChange
<1>9. rest.calls \o r \in Seq(Call) /\ rest.observers + 1 \in 0 .. MaxObservers
  <2>1. Cardinality(Connecting(rest.calls)) \in Nat
    BY <1>3, ConnectingType
  <2>2. x.observers = rest.observers
    BY <1>2 DEF SameContext
  <2> QED BY <2>1, <2>2, <1>2, <1>3, <1>7
<1>10. /\ y \in DeviceState /\ y.keys = rest.keys /\ y.link = rest.link /\ y.disk = rest.disk
       /\ y.line = rest.line /\ y.observers = rest.observers + 1 /\ y.cache = seen
       /\ y.calls = rest.calls \o r /\ y.out = rest.out /\ y.doubtful = rest.doubtful
  BY <1>1, <1>2, <1>4, <1>9 DEF DeviceState
<1>11. ContextOK(y, ms)
  BY <1>2, <1>4, <1>10 DEF ContextOK
<1>12. QueuesOK(y, ms)
  <2>1. \A i \in DOMAIN r : r[i].name \in {"didAdd", "didRemove"} /\ \E k \in ms : r[i].keys = {k}
    BY <1>4, <1>6 DEF TellOf
  <2>2. y.observers + Cardinality(Connecting(rest.calls)) <= MaxObservers
    BY <1>2, <1>10 DEF SameContext
  <2> QED BY <1>2, <1>7, <1>10, <2>1, <2>2, QueuesGrow
<1>13. ClientOK(y, ks)
  <2>1. CallsTell(y.calls, y.cache)
    <3>1. CallsTell(rest.calls, rest.cache)
      BY <1>2 DEF ClientOK
    <3>2. CallsTell(rest.calls \o r, seen)
      BY <3>1, <1>3, <1>8, CallsGoOnTelling
    <3> QED BY <3>2, <1>10
  <2>2. y.line = "up" => y.cache = Overlay(ks, y.out)
    BY <1>2, <1>5, <1>10 DEF ClientOK
  <2> QED BY <2>1, <2>2, <1>3, <1>4, <1>10 DEF ClientOK
<1>14. ASSUME NEW k \in Key PROVE AgreesOn(y, k)
  <2> SUFFICES ASSUME ~ IsReported(y.calls, k), k \notin y.doubtful
               PROVE  k \in y.keys <=> k \in y.cache
    BY DEF AgreesOn
  <2>1. ~ IsReported(Tail(x.calls), k) /\ ~ IsReported(r, k)
    <3>1. ~ IsReported(rest.calls \o r, k)
      BY <1>10
    <3>2. ~ IsReported(rest.calls, k) /\ ~ IsReported(r, k)
      BY <3>1, <1>3, <1>7, ReportsIn
    <3> QED BY <3>2, <1>2
  <2>2. ~ IsReported(x.calls, k)
    <3>1. ~ Reports(Head(x.calls), k)
      BY DEF Reports
    <3> QED BY <3>1, <2>1, <1>2, TailReports DEF Fits, ClientOK
  <2>3. k \in rest.cache <=> k \in seen
    BY <2>1, <1>8 DEF TellsChange
  <2>4. AgreesOn(x, k)
    BY DEF Fits
  <2> QED BY <2>2, <2>3, <2>4, <1>2, <1>10 DEF AgreesOn, SameContext
<1> QED BY <1>11, <1>12, <1>13, <1>14 DEF Fits

\* The answer to the request made at start.
LEMMA DidGetFits ==
  ASSUME NEW ks, NEW ms \in SUBSET Key, IsFiniteSet(ms), MaxObservers \in Nat,
         NEW x, Fits(x, ks, ms), x.calls # <<>>,
         Head(x.calls).name = "didGet", NEW y \in Handled(x, Head(x.calls))
  PROVE  Fits(y, ks, ms)
<1> DEFINE rest == Taken(x)
           gs == Head(x.calls).keys
<1>1. /\ rest \in DeviceState /\ SameContext(x, rest) /\ rest.cache = x.cache /\ rest.out = x.out
      /\ rest.doubtful = x.doubtful /\ rest.calls = Tail(x.calls) /\ x.calls \in Seq(Call)
      /\ ContextOK(rest, ms) /\ QueuesOK(rest, ms) /\ ClientOK(rest, ks)
      /\ CallOK(Head(x.calls), ms)
  BY TakenOK
<1>2. PICK z \in DidGet(rest, gs) : y = Noted(z, gs)
  BY DEF Handled, Taken
<1>3. gs \in SUBSET ms
  BY <1>1 DEF CallOK
<1> HIDE DEF rest, gs
<1>4. CASE gs # {} /\ ~ IsFavourites
  <2>1. y = rest
    BY <1>2, <1>4 DEF DidGet, Noted
  <2>2. ASSUME NEW k \in Key PROVE AgreesOn(rest, k)
    <3>1. ~ Reports(Head(x.calls), k)
      BY DEF Reports
    <3>2. IsReported(x.calls, k) => IsReported(Tail(x.calls), k)
      BY <3>1, <1>1, TailReports DEF Fits, ClientOK
    <3>3. AgreesOn(x, k)
      BY DEF Fits
    <3> QED BY <3>2, <3>3, <1>1 DEF AgreesOn, SameContext
  <2> QED BY <2>1, <2>2, <1>1 DEF Fits
<1>5. CASE ~(gs # {} /\ ~ IsFavourites)
  <2>1. PICK l \in LinksAfter(rest, gs \ rest.keys) :
          z = Replaced([rest EXCEPT !.keys = @ \cup gs, !.link = l], gs)
    BY <1>2, <1>5 DEF DidGet
  <2> DEFINE u == [rest EXCEPT !.keys = @ \cup gs, !.link = l]
  <2>2. /\ l \in [Podcast -> Key \cup {NoKey}]
        /\ \A p \in Podcast : l[p] = rest.link[p] \/ l[p] \in gs
    BY DEF LinksAfter
  <2>3. /\ u \in DeviceState /\ SameClient(rest, u) /\ u.keys = rest.keys \cup gs /\ u.link = l
        /\ u.disk = rest.disk
    BY <1>1, <1>3, <2>2 DEF DeviceState, SameClient
  <2> HIDE DEF u
  <2>4. \A p \in Podcast : u.link[p] \in u.keys \cup {NoKey}
    BY <1>1, <2>2, <2>3 DEF ContextOK
  <2>5. ContextOK(u, ms)
    BY <1>1, <1>3, <2>3, <2>4 DEF ContextOK, SameClient
  <2>6. ContextOK(z, ms) /\ SameClient(u, z)
    BY <2>1, <2>5, ReplacedOK DEF u
  <2>7. y = [z EXCEPT !.doubtful = (z.keys \ z.cache) \cup (z.cache \ z.keys)]
    BY <1>2, <1>5 DEF Noted
  <2>8. /\ y \in DeviceState /\ SameContext(z, y) /\ y.cache = z.cache /\ y.out = z.out
        /\ y.calls = z.calls /\ y.doubtful = (z.keys \ z.cache) \cup (z.cache \ z.keys)
    <3>1. z \in DeviceState
      BY <2>6 DEF ContextOK
    <3> QED BY <2>7, <3>1 DEF DeviceState, SameContext
  <2>9. ContextOK(y, ms)
    BY <2>6, <2>8, SameContextOK DEF ContextOK
  <2>10. QueuesOK(z, ms) /\ ClientOK(z, ks)
    <3>1. SameClient(rest, z)
      BY <2>3, <2>6 DEF SameClient
    <3> QED BY <3>1, <1>1, SameClientFits
  <2>11. QueuesOK(y, ms) /\ ClientOK(y, ks)
    BY <2>8, <2>10 DEF QueuesOK, ClientOK, SameContext
  <2>12. \A k \in Key : AgreesOn(y, k)
    BY <2>8 DEF AgreesOn, SameContext
  <2> QED BY <2>9, <2>11, <2>12 DEF Fits
<1> QED BY <1>4, <1>5

\* The next callback.
LEMMA HandledFits ==
  ASSUME NEW ks, NEW ms \in SUBSET Key, IsFiniteSet(ms), MaxObservers \in Nat,
         NEW x, Fits(x, ks, ms), x.calls # <<>>, NEW y \in Handled(x, Head(x.calls))
  PROVE  Fits(y, ks, ms)
<1>1. Head(x.calls) \in Call
  BY TakenOK
<1>2. Head(x.calls).name \in {"didAdd", "didRemove", "didGet", "connected"}
  BY <1>1 DEF Call
<1> QED BY <1>2, DidAddFits, DidRemoveFits, ObservedFits, DidGetFits

-----------------------------------------------------------------------------
(* The connection.                                                         *)

\* A callback that reports nothing is added: a request's answer, or, where the
\* bound allows it, a connection.
LEMMA QuietFits ==
  ASSUME NEW ks, NEW ms, NEW x, ContextOK(x, ms), QueuesOK(x, ms), ClientOK(x, ks),
         \A k \in Key : AgreesOn(x, k),
         NEW c \in Call, c.name \notin {"didAdd", "didRemove"}, c.keys \subseteq ms,
         c.name = "connected" => x.observers + Cardinality(Connecting(x.calls)) < MaxObservers,
         MaxObservers \in Nat,
         NEW y \in DeviceState, SameContext(x, y), y.cache = x.cache, y.out = x.out,
         y.doubtful = x.doubtful, y.calls = Append(x.calls, c)
  PROVE  Fits(y, ks, ms)
<1>1. x \in DeviceState /\ x.calls \in Seq(Call) /\ x.observers \in Nat
  BY DEF ContextOK, DeviceState
<1>2. ContextOK(y, ms)
  BY SameContextOK DEF ContextOK
<1>3. QueuesOK(y, ms)
  <2>1. /\ Cardinality(Connecting(x.calls)) \in Nat
        /\ Cardinality(Connecting(y.calls))
             = Cardinality(Connecting(x.calls)) + (IF c.name = "connected" THEN 1 ELSE 0)
    BY <1>1, ConnectingType, ConnectingAppend
  <2>2. y.observers + Cardinality(Connecting(y.calls)) <= MaxObservers
    BY <1>1, <2>1 DEF QueuesOK, SameContext
  <2>3. CallOK(c, ms)
    BY DEF CallOK
  <2>4. \A i \in DOMAIN y.calls : y.calls[i] = c \/ (i \in DOMAIN x.calls /\ y.calls[i] = x.calls[i])
    BY <1>1
  <2>5. \A i \in DOMAIN y.calls : CallOK(y.calls[i], ms)
    BY <2>3, <2>4 DEF QueuesOK
  <2> QED BY <2>2, <2>5 DEF QueuesOK
<1>4. /\ CallsTell(y.calls, y.cache)
      /\ \A k : IsReported(y.calls, k) <=> IsReported(x.calls, k)
  BY <1>1, QuietAppend DEF ClientOK
<1>5. ClientOK(y, ks)
  BY <1>4 DEF ClientOK, SameContext
<1>6. \A k \in Key : AgreesOn(y, k)
  BY <1>4 DEF AgreesOn, SameContext
<1> QED BY <1>2, <1>3, <1>5, <1>6 DEF Fits

\* A change of the line alone, whatever the server's records become.
LEMMA LineFits ==
  ASSUME NEW ks, NEW ms, NEW x, NEW old, Fits(x, old, ms), NEW line \in {"down", "open"}
  PROVE  Fits([x EXCEPT !.line = line], ks, ms)
<1> DEFINE y == [x EXCEPT !.line = line]
<1>1. x \in DeviceState
  BY DEF Fits, ContextOK
<1>2. /\ y \in DeviceState /\ y.keys = x.keys /\ y.link = x.link /\ y.disk = x.disk
      /\ y.line = line /\ y.observers = x.observers /\ y.cache = x.cache /\ y.out = x.out
      /\ y.calls = x.calls /\ y.doubtful = x.doubtful
  BY <1>1 DEF DeviceState
<1> HIDE DEF y
<1>3. ContextOK(y, ms)
  BY <1>2 DEF Fits, ContextOK
<1>4. QueuesOK(y, ms)
  BY <1>2 DEF Fits, QueuesOK
<1>5. ClientOK(y, ks)
  BY <1>2 DEF Fits, ClientOK
<1>6. \A k \in Key : AgreesOn(y, k)
  BY <1>2 DEF Fits, AgreesOn
<1> QED BY <1>3, <1>4, <1>5, <1>6 DEF Fits, y

\* A process that starts.
LEMMA StartedFits ==
  ASSUME NEW ks, NEW ms, NEW x, Fits(x, ks, ms), MaxObservers \in Nat
  PROVE  Fits(Started(x.disk), ks, ms)
<1> DEFINE y == Started(x.disk)
<1>1. /\ x \in DeviceState
      /\ x.disk.keys \in SUBSET Key /\ x.disk.link \in [Podcast -> Key \cup {NoKey}]
      /\ x.disk \in [keys : SUBSET Key, link : [Podcast -> Key \cup {NoKey}]]
  BY DEF Fits, ContextOK, DeviceState
<1>2. /\ y.keys = x.disk.keys /\ y.link = x.disk.link /\ y.disk = x.disk /\ y.line = "down"
      /\ y.observers = 0 /\ y.cache = {} /\ y.out = <<>> /\ y.calls = <<>>
      /\ y.doubtful = x.disk.keys
  BY DEF Started
<1>3. y \in DeviceState
  BY <1>1 DEF Started, DeviceState
<1> HIDE DEF y
<1>4. ContextOK(y, ms)
  BY <1>2, <1>3 DEF Fits, ContextOK
<1>5. QueuesOK(y, ms)
  <2>1. Connecting(y.calls) = {}
    BY <1>2 DEF Connecting
  <2>2. Cardinality(Connecting(y.calls)) = 0
    BY <2>1, FS_EmptySet
  <2> QED BY <1>2, <2>2 DEF QueuesOK
<1>6. ClientOK(y, ks) /\ \A k : ~ IsReported(y.calls, k)
  BY <1>2 DEF ClientOK, CallsTell, IsReported
<1>7. \A k \in Key : AgreesOn(y, k)
  BY <1>2 DEF AgreesOn
<1> QED BY <1>4, <1>5, <1>6, <1>7 DEF Fits, y

-----------------------------------------------------------------------------
(* The actions keep the invariant.                                         *)

LEMMA InstanceFacts ==
  ASSUME instance \in Instances
  PROVE  /\ MaxRecords \in Nat /\ MaxObservers \in Nat /\ MaxRestarts \in Nat
         /\ MaxLostAcks \in Nat
BY RecordSyncAssumption DEF MaxRecords, MaxObservers, MaxRestarts, MaxLostAcks

\* More records are made.
LEMMA FitsMore ==
  ASSUME NEW ks, NEW ms, NEW more, ms \subseteq more, NEW x, Fits(x, ks, ms)
  PROVE  Fits(x, ks, more)
<1>1. ContextOK(x, more)
  BY DEF Fits, ContextOK
<1>2. QueuesOK(x, more)
  BY DEF Fits, QueuesOK, CallOK
<1> QED BY <1>1, <1>2 DEF Fits

\* The same bounds: what fits in the next state fits in this sense.
LEMMA FitsNext ==
  ASSUME instance' = instance, NEW d \in Device, Fits(dev'[d], server', made')
  PROVE  Fits(dev[d], server, made)'
<1>1. Key' = Key /\ IsFavourites' = IsFavourites /\ MaxObservers' = MaxObservers
  BY DEF Key, MaxRecords, IsFavourites, MaxObservers
<1>2. WriteRecord' = WriteRecord /\ Call' = Call
  BY <1>1 DEF WriteRecord, Call
<1>3. DeviceState' = DeviceState
  BY <1>1, <1>2 DEF DeviceState
<1>4. ContextOK(dev[d], made)'
  BY <1>1, <1>3 DEF Fits, ContextOK
<1>5. QueuesOK(dev[d], made)'
  BY <1>1 DEF Fits, QueuesOK
<1>6. ClientOK(dev[d], server)'
  BY <1>1 DEF Fits, ClientOK, CallsTell
<1>7. (\A k \in Key : AgreesOn(dev[d], k))'
  BY <1>1 DEF Fits, AgreesOn
<1> QED BY <1>4, <1>5, <1>6, <1>7 DEF Fits

LEMMA StepHolds ==
  ASSUME IInv, instance' = instance, restarts' \in 0 .. MaxRestarts,
         lostAcks' \in 0 .. MaxLostAcks,
         made' \subseteq Key, server' \subseteq made', IsFiniteSet(made'),
         \A k \in made' : k.number <= Cardinality(made'),
         DOMAIN dev' = Device, dev' = [d \in DOMAIN dev' |-> dev'[d]],
         \A d \in Device : Fits(dev'[d], server', made')
  PROVE  IInv'
<1>1. (instance \in Instances /\ restarts \in 0 .. MaxRestarts /\ lostAcks \in 0 .. MaxLostAcks)'
  BY DEF IInv, MaxRestarts, MaxLostAcks
<1>2. MadeOK'
  BY DEF MadeOK, Key, MaxRecords
<1>3. \A d \in Device : Fits(dev[d], server, made)'
  BY FitsNext
<1>4. \A d \in Device : (dev[d] \in DeviceState)'
  BY <1>3 DEF Fits, ContextOK
<1>5. (dev \in [Device -> DeviceState])'
  BY <1>4
<1> QED BY <1>1, <1>2, <1>3, <1>5 DEF IInv

\* A device alone changes.
LEMMA DoesHolds ==
  ASSUME IInv, instance' = instance, restarts' \in 0 .. MaxRestarts,
         UNCHANGED <<server, made, lostAcks>>,
         NEW d \in Device, NEW x, Does(d, x), Fits(x, server, made)
  PROVE  IInv'
<1>1. \A e \in Device : dev'[e] = IF e = d THEN x ELSE dev[e]
  BY DEF Does, IInv
<1>2. \A e \in Device : Fits(dev'[e], server', made')
  BY <1>1 DEF IInv
<1>3. DOMAIN dev' = Device /\ dev' = [e \in DOMAIN dev' |-> dev'[e]]
  BY DEF Does, IInv
<1> QED BY <1>2, <1>3, StepHolds DEF IInv, MadeOK

\* What all devices satisfy.
LEMMA DeviceFacts ==
  ASSUME IInv, NEW d \in Device
  PROVE  /\ Fits(dev[d], server, made) /\ dev[d] \in DeviceState
         /\ made \in SUBSET Key /\ server \in SUBSET made /\ IsFiniteSet(made)
         /\ MaxObservers \in Nat /\ restarts \in 0 .. MaxRestarts /\ instance \in Instances
BY InstanceFacts DEF IInv, MadeOK

LEMMA FreshFacts ==
  ASSUME IInv, NEW d \in Device, NEW p \in Podcast, Cardinality(made) < MaxRecords,
         NEW more, more = made \cup {FreshKey(d, p)}
  PROVE  /\ FreshKey(d, p) \in Key \ made
         /\ more \subseteq Key /\ IsFiniteSet(more)
         /\ \A k \in more : k.number <= Cardinality(more)
<1> DEFINE k == FreshKey(d, p)
<1>1. Cardinality(made) \in Nat /\ MaxRecords \in Nat
  BY FS_CardinalityType, InstanceFacts DEF IInv, MadeOK
<1>2. k \in Key /\ k.number = Cardinality(made) + 1
  BY <1>1 DEF FreshKey, Key
<1>3. made \subseteq Key /\ \A l \in made : l.number <= Cardinality(made) /\ l.number \in Nat
  BY DEF IInv, MadeOK, Key
<1> HIDE DEF k
<1>4. k \notin made
  BY <1>1, <1>2, <1>3
<1>5. IsFiniteSet(made \cup {k}) /\ Cardinality(made \cup {k}) = Cardinality(made) + 1
  BY <1>4, FS_AddElement DEF IInv, MadeOK
<1>6. \A l \in made \cup {k} : l.number <= Cardinality(made) + 1
  BY <1>1, <1>2, <1>3
<1> QED BY <1>2, <1>3, <1>4, <1>5, <1>6 DEF k

LEMMA AddTappedHolds ==
  ASSUME IInv, instance' = instance, NEW d \in Device, NEW p \in Podcast, AddTapped(d, p)
  PROVE  IInv'
<1> DEFINE k == FreshKey(d, p)
           more == made \cup {k}
<1>1. /\ k \in Key \ made /\ more \subseteq Key /\ IsFiniteSet(more)
      /\ \A l \in more : l.number <= Cardinality(more)
  BY FreshFacts DEF AddTapped
<1>2. made' = more /\ k \in more /\ made \subseteq more
  BY DEF AddTapped
<1>3. dev' = [dev EXCEPT ![d] = AddRecord(dev[d], k)] /\ UNCHANGED <<server, restarts, lostAcks>>
  BY DEF AddTapped, Does
<1> HIDE DEF k, more
<1>4. \A e \in Device : Fits(dev[e], server, more)
  BY <1>2, FitsMore DEF IInv
<1>5. Fits(AddRecord(dev[d], k), server, more)
  BY <1>1, <1>2, <1>4, AddRecordFits
<1>6. \A e \in Device : dev'[e] = IF e = d THEN AddRecord(dev[d], k) ELSE dev[e]
  BY <1>3 DEF IInv
<1>7. \A e \in Device : Fits(dev'[e], server', made')
  BY <1>2, <1>3, <1>4, <1>5, <1>6
<1>8. DOMAIN dev' = Device /\ dev' = [e \in DOMAIN dev' |-> dev'[e]]
  BY <1>3 DEF IInv
<1>9. server' \subseteq made' /\ restarts' \in 0 .. MaxRestarts /\ lostAcks' \in 0 .. MaxLostAcks
  BY <1>2, <1>3 DEF IInv, MadeOK
<1> QED BY <1>1, <1>2, <1>7, <1>8, <1>9, StepHolds

LEMMA UserHolds ==
  ASSUME IInv, instance' = instance, NEW d \in Device,
         RemoveAll(d) \/ OtherSave(d) \/ \E p \in Podcast : RemoveTapped(d, p)
  PROVE  IInv'
<1>1. /\ Fits(dev[d], server, made) /\ dev[d] \in DeviceState
      /\ made \in SUBSET Key /\ IsFiniteSet(made) /\ restarts \in 0 .. MaxRestarts
  BY DeviceFacts
<1>2. CASE RemoveAll(d)
  <2>1. dev[d].keys \in SUBSET made
    BY <1>1 DEF Fits, ContextOK
  <2>2. Fits(InTurn(RemoveRecord, dev[d], dev[d].keys), server, made)
    BY <1>1, <2>1, RemoveAllFits
  <2> QED BY <1>1, <1>2, <2>2, DoesHolds DEF RemoveAll
<1>3. CASE OtherSave(d)
  <2>1. ContextOK(Save(dev[d]), made) /\ SameClient(dev[d], Save(dev[d]))
        /\ Save(dev[d]).keys = dev[d].keys
    BY <1>1, SaveOK DEF Fits
  <2>2. QueuesOK(Save(dev[d]), made) /\ ClientOK(Save(dev[d]), server)
    BY <1>1, <2>1, SameClientFits DEF Fits
  <2>3. \A k \in Key : AgreesOn(Save(dev[d]), k)
    BY <1>1, <2>1 DEF Fits, AgreesOn, SameClient
  <2>4. Fits(Save(dev[d]), server, made)
    BY <2>1, <2>2, <2>3 DEF Fits
  <2> QED BY <1>1, <1>3, <2>4, DoesHolds DEF OtherSave
<1>4. CASE \E p \in Podcast : RemoveTapped(d, p)
  <2>1. PICK p \in Podcast : RemoveTapped(d, p)
    BY <1>4
  <2>2. dev[d].link[p] \in made
    BY <1>1, <2>1 DEF RemoveTapped, Fits, ContextOK
  <2>3. Fits(RemoveRecord(dev[d], dev[d].link[p]), server, made)
    BY <1>1, <2>2, RemoveRecordFits
  <2> QED BY <1>1, <2>1, <2>3, DoesHolds DEF RemoveTapped
<1> QED BY <1>2, <1>3, <1>4

LEMMA RunCallHolds ==
  ASSUME IInv, instance' = instance, NEW d \in Device, RunCall(d)
  PROVE  IInv'
<1>1. PICK x \in Handled(dev[d], Head(dev[d].calls)) : Does(d, x)
  BY DEF RunCall
<1>2. Fits(x, server, made)
  BY DeviceFacts, HandledFits DEF RunCall
<1> QED BY <1>1, <1>2, DeviceFacts, DoesHolds DEF RunCall

\* The line, the request and the process of one device.
LEMMA LineHolds ==
  ASSUME IInv, instance' = instance, NEW d \in Device,
         Connect(d) \/ Disconnect(d) \/ Hears(d) \/ RequestFails(d) \/ Restart(d)
  PROVE  IInv'
<1> DEFINE x == dev[d]
<1>1. /\ Fits(x, server, made) /\ x \in DeviceState /\ made \in SUBSET Key
      /\ server \in SUBSET made /\ IsFiniteSet(made)
      /\ MaxObservers \in Nat /\ restarts \in 0 .. MaxRestarts
  BY DeviceFacts
<1>2. x.calls \in Seq(Call) /\ x.observers \in Nat
  BY <1>1 DEF DeviceState
<1>3. CASE Connect(d)
  <2> DEFINE u == [x EXCEPT !.line = "open"]
             c == [name |-> "connected", keys |-> {}]
             y == [u EXCEPT !.calls = Append(@, c)]
  <2>1. Does(d, y) /\ UNCHANGED <<server, made, restarts, lostAcks>>
        /\ x.observers + Cardinality(Connecting(x.calls)) < MaxObservers
    BY <1>1, <1>3 DEF Connect, MayConnect, Connecting, DeviceState
  <2>2. Fits(u, server, made)
    BY <1>1, LineFits
  <2>3. u \in DeviceState /\ u.calls = x.calls /\ u.observers = x.observers
    BY <1>1 DEF DeviceState
  <2>4. c \in Call /\ c.name = "connected" /\ c.keys = {}
    BY DEF Call
  <2> HIDE DEF u, c
  <2>5. Append(u.calls, c) \in Seq(Call)
    BY <1>2, <2>3, <2>4
  <2>6. /\ y \in DeviceState /\ SameContext(u, y) /\ y.cache = u.cache /\ y.out = u.out
        /\ y.doubtful = u.doubtful /\ y.calls = Append(u.calls, c)
    BY <2>3, <2>5 DEF DeviceState, SameContext
  <2> HIDE DEF y
  <2>7. Fits(y, server, made)
    BY <1>1, <2>1, <2>2, <2>3, <2>4, <2>6, QuietFits DEF Fits
  <2> QED BY <1>1, <2>1, <2>7, DoesHolds
<1>4. CASE Disconnect(d)
  <2>1. Fits([x EXCEPT !.line = "down"], server, made)
    BY <1>1, LineFits
  <2> QED BY <1>1, <1>4, <2>1, DoesHolds DEF Disconnect
<1>5. CASE Hears(d)
  <2> DEFINE u == [x EXCEPT !.line = "up"]
  <2>1. /\ u \in DeviceState /\ u.keys = x.keys /\ u.link = x.link /\ u.disk = x.disk
        /\ u.observers = x.observers /\ u.cache = x.cache /\ u.out = x.out
        /\ u.calls = x.calls /\ u.doubtful = x.doubtful
    BY <1>1 DEF DeviceState
  <2>2. Does(d, Refreshed(u, server)) /\ x.observers > 0 /\ UNCHANGED <<server, made, restarts, lostAcks>>
    BY <1>5 DEF Hears
  <2> HIDE DEF u
  <2>3. ContextOK(u, made)
    BY <1>1, <2>1 DEF Fits, ContextOK
  <2>4. QueuesOK(u, made)
    BY <1>1, <2>1 DEF Fits, QueuesOK
  <2>5. ClientHolds(u)
    BY <1>1, <2>1, <2>2 DEF Fits, ClientOK, ClientHolds
  <2>6. \A k \in Key : AgreesOn(u, k)
    BY <1>1, <2>1 DEF Fits, AgreesOn
  <2>7. Fits(Refreshed(u, server), server, made)
    BY <1>1, <2>3, <2>4, <2>5, <2>6, RefreshedFits
  <2> QED BY <1>1, <2>2, <2>7, DoesHolds
<1>6. CASE RequestFails(d)
  <2> DEFINE y == [x EXCEPT !.asked = FALSE]
  <2>1. /\ y \in DeviceState /\ y.keys = x.keys /\ y.link = x.link /\ y.disk = x.disk
        /\ y.observers = x.observers /\ y.cache = x.cache /\ y.out = x.out
        /\ y.calls = x.calls /\ y.doubtful = x.doubtful /\ y.line = x.line
    BY <1>1 DEF DeviceState
  <2>2. Does(d, y) /\ UNCHANGED <<server, made, restarts, lostAcks>>
    BY <1>6 DEF RequestFails
  <2> HIDE DEF y
  <2>3. ContextOK(y, made)
    BY <1>1, <2>1 DEF Fits, ContextOK
  <2>4. QueuesOK(y, made)
    BY <1>1, <2>1 DEF Fits, QueuesOK
  <2>5. ClientOK(y, server)
    BY <1>1, <2>1, <2>2 DEF Fits, ClientOK
  <2>6. \A k \in Key : AgreesOn(y, k)
    BY <1>1, <2>1 DEF Fits, AgreesOn
  <2>7. Fits(y, server, made)
    BY <2>3, <2>4, <2>5, <2>6 DEF Fits
  <2> QED BY <1>1, <2>2, <2>7, DoesHolds
<1>7. CASE Restart(d)
  <2>1. Fits(Started(x.disk), server, made)
    BY <1>1, StartedFits
  <2>2. restarts' \in 0 .. MaxRestarts /\ UNCHANGED <<server, made, lostAcks>>
        /\ Does(d, Started(x.disk))
    BY <1>1, <1>7, InstanceFacts DEF Restart, IInv
  <2> QED BY <2>1, <2>2, DoesHolds
<1> QED BY <1>3, <1>4, <1>5, <1>6, <1>7

LEMMA AnswerHolds ==
  ASSUME IInv, instance' = instance, NEW d \in Device, Answer(d)
  PROVE  IInv'
<1> DEFINE u == IF dev[d].observers = 0 THEN dev[d]
                ELSE Noticed(dev[d], Overlay(server, dev[d].out))
           c == [name |-> "didGet", keys |-> server]
           y == [u EXCEPT !.asked = FALSE, !.calls = Append(@, c)]
<1>1. /\ Fits(dev[d], server, made) /\ dev[d] \in DeviceState /\ made \in SUBSET Key
      /\ server \in SUBSET made /\ IsFiniteSet(made)
      /\ MaxObservers \in Nat /\ restarts \in 0 .. MaxRestarts
  BY DeviceFacts
<1>2. Does(d, y) /\ UNCHANGED <<server, made, restarts, lostAcks>>
  BY DEF Answer
<1>3. Fits(u, server, made)
  <2>1. CASE dev[d].observers = 0
    BY <2>1, <1>1
  <2>2. CASE dev[d].observers # 0
    <3> DEFINE new == Overlay(server, dev[d].out)
    <3>1. u = Noticed(dev[d], new)
      BY <2>2
    <3>2. dev[d].out \in Seq(WriteRecord) /\ dev[d].observers > 0
      BY <1>1, <2>2 DEF DeviceState
    <3>3. new \in SUBSET made
      <4>1. \A i \in DOMAIN dev[d].out : dev[d].out[i].key \in made
        BY <1>1 DEF Fits, QueuesOK
      <4>2. server \subseteq made
        BY <1>1
      <4>3. Overlay(server, dev[d].out) \subseteq made
        BY <3>2, <4>1, <4>2, OverlayWithin
      <4> QED
        BY <4>3
    <3>4. Overlay(new, dev[d].out) = new
      BY <3>2, OverlayTwice
    <3>5. dev[d].line = "up" => new = Overlay(server, dev[d].out)
      OBVIOUS
    <3> HIDE DEF new, u
    <3>6. ASSUME NEW k \in Key, ~ IsReported(dev[d].calls, k), k \notin dev[d].doubtful,
                 k \in dev[d].cache <=> k \in new
          PROVE  k \in dev[d].keys <=> k \in new
      BY <3>6, <1>1 DEF Fits, AgreesOn
    <3>7. /\ ContextOK(dev[d], made) /\ QueuesOK(dev[d], made)
          /\ CallsTell(dev[d].calls, dev[d].cache)
      BY <1>1 DEF Fits, ClientOK
    <3>8. Fits(Noticed(dev[d], new), server, made)
      BY <1>1, <3>2, <3>3, <3>4, <3>5, <3>6, <3>7, NoticedFits
    <3> QED BY <3>1, <3>8
  <2> QED BY <2>1, <2>2
<1> HIDE DEF u
<1>4. u \in DeviceState /\ u.calls \in Seq(Call)
  BY <1>3 DEF Fits, ContextOK, DeviceState
<1>5. c \in Call /\ c.name = "didGet" /\ c.keys = server
  BY <1>1 DEF Call
<1> HIDE DEF c
<1>6. Append(u.calls, c) \in Seq(Call)
  BY <1>4, <1>5
<1>7. /\ y \in DeviceState /\ SameContext(u, y) /\ y.cache = u.cache /\ y.out = u.out
      /\ y.doubtful = u.doubtful /\ y.calls = Append(u.calls, c)
  BY <1>4, <1>6 DEF DeviceState, SameContext
<1> HIDE DEF y
<1>8. Fits(y, server, made)
  BY <1>1, <1>3, <1>5, <1>7, QuietFits DEF Fits
<1> QED BY <1>1, <1>2, <1>8, DoesHolds

LEMMA ServerAppliesHolds ==
  ASSUME IInv, instance' = instance, NEW d \in Device, NEW acknowledged \in BOOLEAN,
         ServerApplies(d, acknowledged)
  PROVE  IInv'
<1> DEFINE x == dev[d]
           ks == Applied(server, Head(x.out))
           sent == [x EXCEPT !.out = Tail(@)]
<1>1. /\ Fits(x, server, made) /\ x \in DeviceState /\ made \in SUBSET Key
      /\ server \in SUBSET made /\ IsFiniteSet(made)
      /\ MaxObservers \in Nat /\ restarts \in 0 .. MaxRestarts
  BY DeviceFacts
<1>2. x.out # <<>> /\ x.out \in Seq(WriteRecord)
  BY <1>1 DEF ServerApplies, DeviceState
<1>3. Head(x.out) = x.out[1] /\ 1 \in DOMAIN x.out /\ Tail(x.out) \in Seq(WriteRecord)
  BY <1>2
<1>4. ks \in SUBSET made
  BY <1>1, <1>3 DEF Applied, Fits, QueuesOK
<1>5. ASSUME NEW e \in Device, e # d PROVE Fits(Refreshed(dev[e], ks), ks, made)
  <2>1. Fits(dev[e], server, made)
    BY DEF IInv
  <2> HIDE DEF ks
  <2>2. ClientHolds(dev[e])
    BY <2>1 DEF Fits, ClientOK, ClientHolds
  <2> QED BY <1>1, <1>4, <2>1, <2>2, RefreshedFits DEF Fits
<1>6. Fits(Refreshed(sent, ks), ks, made)
  <2>1. /\ sent \in DeviceState /\ sent.keys = x.keys /\ sent.link = x.link /\ sent.disk = x.disk
        /\ sent.observers = x.observers /\ sent.cache = x.cache /\ sent.out = Tail(x.out)
        /\ sent.calls = x.calls /\ sent.doubtful = x.doubtful /\ sent.line = x.line
    BY <1>1, <1>3 DEF DeviceState
  <2> HIDE DEF ks, sent
  <2>2. ContextOK(sent, made)
    BY <1>1, <2>1 DEF Fits, ContextOK
  <2>3. QueuesOK(sent, made)
    <3>1. \A i \in DOMAIN sent.out : i + 1 \in DOMAIN x.out /\ sent.out[i] = x.out[i + 1]
      BY <1>2, <2>1
    <3> QED BY <1>1, <2>1, <3>1 DEF Fits, QueuesOK
  <2>4. sent.observers > 0 => Overlay(sent.cache, sent.out) = sent.cache
    BY <1>1, <1>2, <2>1, OverlayTail DEF Fits, ClientOK
  <2>5. ClientHolds(sent)
    BY <1>1, <2>1, <2>4 DEF Fits, ClientOK, ClientHolds
  <2>6. \A k \in Key : AgreesOn(sent, k)
    BY <1>1, <2>1 DEF Fits, AgreesOn
  <2> QED BY <1>1, <1>4, <2>2, <2>3, <2>5, <2>6, RefreshedFits
<1>7. Fits([x EXCEPT !.line = "down"], ks, made)
  BY <1>1, LineFits
<1>8. /\ server' = ks /\ UNCHANGED <<made, restarts>>
      /\ dev' = [e \in Device |-> IF e # d THEN Refreshed(dev[e], ks)
                                  ELSE IF acknowledged THEN Refreshed(sent, ks)
                                  ELSE [x EXCEPT !.line = "down"]]
  BY DEF ServerApplies
<1>9. lostAcks' \in 0 .. MaxLostAcks
  BY InstanceFacts DEF ServerApplies, IInv
<1> HIDE DEF ks, sent
<1>10. \A e \in Device : Fits(dev'[e], server', made')
  BY <1>5, <1>6, <1>7, <1>8
<1>11. DOMAIN dev' = Device /\ dev' = [e \in DOMAIN dev' |-> dev'[e]]
  BY <1>8
<1> QED BY <1>1, <1>4, <1>8, <1>9, <1>10, <1>11, StepHolds DEF IInv, MadeOK

LEMMA InitHolds == Init => IInv
<1> SUFFICES ASSUME Init PROVE IInv
  OBVIOUS
<1> DEFINE disk == [keys |-> {}, link |-> NoLinks]
           x == Started(disk)
<1>1. MaxObservers \in Nat /\ MaxRestarts \in Nat /\ MaxLostAcks \in Nat
  BY InstanceFacts DEF Init
<1>2. NoLinks \in [Podcast -> Key \cup {NoKey}]
  BY DEF NoLinks
<1>3. x \in DeviceState
  BY <1>1, <1>2 DEF Started, DeviceState
<1>4. /\ x.keys = {} /\ x.link = NoLinks /\ x.disk = disk /\ x.line = "down" /\ x.observers = 0
      /\ x.cache = {} /\ x.out = <<>> /\ x.calls = <<>> /\ x.doubtful = {}
      /\ disk.keys = {} /\ disk.link = NoLinks
  BY DEF Started
<1> HIDE DEF x, disk
<1>5. ContextOK(x, {})
  BY <1>3, <1>4 DEF ContextOK, NoLinks
<1>6. QueuesOK(x, {})
  <2>1. Connecting(x.calls) = {}
    BY <1>4 DEF Connecting
  <2>2. Cardinality(Connecting(x.calls)) = 0
    BY <2>1, FS_EmptySet
  <2> QED BY <1>1, <1>4, <2>2 DEF QueuesOK
<1>7. ClientOK(x, {}) /\ \A k : ~ IsReported(x.calls, k)
  BY <1>4 DEF ClientOK, CallsTell, IsReported
<1>8. \A k \in Key : AgreesOn(x, k)
  BY <1>4 DEF AgreesOn
<1>9. Fits(x, {}, {})
  BY <1>5, <1>6, <1>7, <1>8 DEF Fits
<1>10. dev = [d \in Device |-> x] /\ made = {} /\ server = {} /\ restarts = 0 /\ lostAcks = 0
       /\ instance \in Instances
  BY DEF Init, x, disk
<1>11. MadeOK
  BY <1>10, FS_EmptySet DEF MadeOK
<1> QED BY <1>1, <1>3, <1>9, <1>10, <1>11 DEF IInv

LEMMA NextHolds ==
  ASSUME IInv, [Next]_vars
  PROVE  IInv'
<1>1. CASE UNCHANGED vars
  BY <1>1, StepHolds DEF vars, IInv, MadeOK
<1>2. CASE Next
  <2>1. instance' = instance
    BY <1>2 DEF Next
  <2>2. PICK d \in Device :
          \/ \E p \in Podcast : AddTapped(d, p) \/ RemoveTapped(d, p)
          \/ RemoveAll(d) \/ OtherSave(d) \/ RunCall(d)
          \/ \E acknowledged \in BOOLEAN : ServerApplies(d, acknowledged)
          \/ Connect(d) \/ Hears(d) \/ Disconnect(d)
          \/ RequestFails(d) \/ Answer(d) \/ Restart(d)
    BY <1>2 DEF Next
  <2> QED BY <2>1, <2>2, AddTappedHolds, UserHolds, RunCallHolds, ServerAppliesHolds,
             LineHolds, AnswerHolds
<1> QED BY <1>1, <1>2

-----------------------------------------------------------------------------
(* What a step of one device adds and takes.                               *)

\* Nothing is sent to be added that was not on its way before.
SameAdds(old, new) ==
  \A i \in DOMAIN new : new[i].op = "add" => i \in DOMAIN old /\ new[i] = old[i]

\* A record loses its podcast to a new one of ms only.
TakenByNew(x, y, ms) ==
  \A k \in Broken(y) \ Broken(x) :
    \E other \in y.keys \ x.keys : other.podcast = k.podcast /\ other \in ms

Calm(x, y, ms) == SameAdds(x.out, y.out) /\ TakenByNew(x, y, ms)

\* A device whose context does not change.
LEMMA SameContextCalm ==
  ASSUME NEW ms, NEW x, NEW y, y.keys = x.keys, y.link = x.link, y.out = x.out
  PROVE  Calm(x, y, ms)
BY DEF Calm, SameAdds, TakenByNew, Broken

\* A write leaves the context alone.
LEMMA WriteContext ==
  ASSUME NEW x \in DeviceState, NEW op \in {"add", "remove"}, NEW k \in Key
  PROVE  /\ Write(x, op, k).keys = x.keys /\ Write(x, op, k).link = x.link
         /\ Write(x, op, k).out = Append(x.out, [op |-> op, key |-> k])
BY DEF Write, Noticed, DeviceState

LEMMA RefreshedContext ==
  ASSUME NEW x \in DeviceState, NEW ks
  PROVE  /\ Refreshed(x, ks).keys = x.keys /\ Refreshed(x, ks).link = x.link
         /\ Refreshed(x, ks).out = x.out
BY DEF Refreshed, Noticed, DeviceState

LEMMA SaveContext ==
  ASSUME NEW x \in DeviceState
  PROVE  Save(x).keys = x.keys /\ Save(x).link = x.link
BY DEF Save, DeviceState

\* Removing a record takes no podcast from another.
LEMMA RemoveBreaksNone ==
  ASSUME NEW x \in DeviceState, NEW k
  PROVE  Broken(RemoveFromCoreData(x, k)) \subseteq Broken(x)
<1>1. CASE k \in x.keys
  <2> DEFINE link == [p \in Podcast |-> IF x.link[p] = k THEN NoKey ELSE x.link[p]]
             y == [x EXCEPT !.keys = @ \ {k}, !.link = link]
  <2>1. RemoveFromCoreData(x, k) = Save(y)
    BY <1>1 DEF RemoveFromCoreData
  <2>2. link \in [Podcast -> Key \cup {NoKey}]
    BY DEF DeviceState
  <2>3. \A l \in x.keys \ {k} : x.link[l.podcast] = l => link[l.podcast] = l
    BY DEF DeviceState, Key
  <2> HIDE DEF link
  <2>4. y \in DeviceState /\ y.keys = x.keys \ {k} /\ y.link = link
    BY <2>2 DEF DeviceState
  <2> HIDE DEF y
  <2>5. Save(y).keys = x.keys \ {k} /\ Save(y).link = link
    BY <2>4, SaveContext
  <2> QED BY <2>1, <2>3, <2>5 DEF Broken
<1>2. CASE k \notin x.keys
  BY <1>2 DEF RemoveFromCoreData
<1> QED BY <1>1, <1>2

\* A new record takes a podcast from others of that podcast.
LEMMA InsertTakes ==
  ASSUME NEW x \in DeviceState, NEW k \in Key
  PROVE  /\ Insert(x, k).keys = x.keys \cup {k}
         /\ \A l \in Broken(Insert(x, k)) \ Broken(x) :
              IsFavourites /\ l \in x.keys /\ l.podcast = k.podcast /\ x.link[k.podcast] = l
<1> DEFINE link == IF IsFavourites THEN [x.link EXCEPT ![k.podcast] = k] ELSE x.link
           y == [x EXCEPT !.keys = @ \cup {k}, !.link = link]
<1>1. Insert(x, k) = y
  BY DEF Insert
<1>2. y.keys = x.keys \cup {k} /\ y.link = link
  BY DEF DeviceState
<1>3. x.link \in [Podcast -> Key \cup {NoKey}] /\ x.keys \subseteq Key
      /\ \A l \in Key : l.podcast \in Podcast
  BY DEF DeviceState, Key
<1>4. IsFavourites => link[k.podcast] = k
  BY <1>3
<1>5. \A l \in Key : l.podcast # k.podcast => link[l.podcast] = x.link[l.podcast]
  BY <1>3
<1> HIDE DEF link, y
<1>6. ASSUME NEW l \in Broken(y) \ Broken(x)
      PROVE  IsFavourites /\ l \in x.keys /\ l.podcast = k.podcast /\ x.link[k.podcast] = l
  <2>1. IsFavourites /\ l \in y.keys /\ link[l.podcast] # l
        /\ (l \in x.keys => x.link[l.podcast] = l)
    BY <1>2, <1>6 DEF Broken
  <2>2. l \in x.keys
    BY <2>1, <1>2, <1>4
  <2>3. l.podcast = k.podcast
    BY <2>1, <2>2, <1>3, <1>5
  <2> QED BY <2>1, <2>2, <2>3
<1> QED BY <1>1, <1>2, <1>6

LEMMA RemoveRecordCalm ==
  ASSUME NEW ms, NEW x, ContextOK(x, ms), NEW k \in Key
  PROVE  /\ RemoveRecord(x, k).out = Append(x.out, [op |-> "remove", key |-> k])
         /\ Broken(RemoveRecord(x, k)) \subseteq Broken(x)
<1> DEFINE z == RemoveFromCoreData(x, k)
<1>1. ContextOK(z, ms) /\ SameClient(x, z) /\ Broken(z) \subseteq Broken(x)
  BY RemoveOK, RemoveBreaksNone DEF ContextOK
<1> HIDE DEF z
<1>2. z \in DeviceState /\ z.out = x.out
  BY <1>1 DEF ContextOK, SameClient
<1>3. /\ Write(z, "remove", k).keys = z.keys /\ Write(z, "remove", k).link = z.link
      /\ Write(z, "remove", k).out = Append(z.out, [op |-> "remove", key |-> k])
  BY <1>2, WriteContext
<1>4. Broken(Write(z, "remove", k)) = Broken(z)
  BY <1>3 DEF Broken
<1> QED BY <1>1, <1>2, <1>3, <1>4 DEF RemoveRecord, z

\* One more removal on its way.
LEMMA SameAddsRemove ==
  ASSUME NEW old, NEW out \in Seq(WriteRecord), SameAdds(old, out), NEW k \in Key
  PROVE  SameAdds(old, Append(out, [op |-> "remove", key |-> k]))
<1> DEFINE w == [op |-> "remove", key |-> k]
<1>1. w.op # "add"
  OBVIOUS
<1> HIDE DEF w
<1>2. \A i \in DOMAIN Append(out, w) :
        Append(out, w)[i] = w \/ (i \in DOMAIN out /\ Append(out, w)[i] = out[i])
  OBVIOUS
<1> QED BY <1>1, <1>2 DEF SameAdds, w

LEMMA RemoveAllCalm ==
  ASSUME NEW ks, NEW ms \in SUBSET Key, IsFiniteSet(ms), NEW x, Fits(x, ks, ms),
         NEW gone \in SUBSET ms
  PROVE  Calm(x, InTurn(RemoveRecord, x, gone), ms)
<1> DEFINE S == {y \in DeviceState : Fits(y, ks, ms) /\ SameAdds(x.out, y.out)
                                     /\ Broken(y) \subseteq Broken(x)}
<1>1. ASSUME NEW y \in S, NEW k \in gone PROVE RemoveRecord(y, k) \in S
  <2>1. Fits(RemoveRecord(y, k), ks, ms)
    BY RemoveRecordFits
  <2>2. /\ RemoveRecord(y, k).out = Append(y.out, [op |-> "remove", key |-> k])
        /\ Broken(RemoveRecord(y, k)) \subseteq Broken(y)
    BY RemoveRecordCalm DEF Fits
  <2>3. y.out \in Seq(WriteRecord) /\ k \in Key
    BY DEF DeviceState
  <2>4. SameAdds(x.out, RemoveRecord(y, k).out)
    BY <2>2, <2>3, SameAddsRemove
  <2> QED BY <2>1, <2>2, <2>4 DEF Fits, ContextOK
<1>2. x \in S /\ IsFiniteSet(gone)
  BY FS_Subset DEF Fits, ContextOK, SameAdds
<1> HIDE DEF S
<1>3. InTurn(RemoveRecord, x, gone) \in S
  BY <1>1, <1>2, RemoveAllStays
<1> QED BY <1>3 DEF S, Calm, TakenByNew

\* What the user makes is of a podcast that has none.
LEMMA AddRecordBreaksNone ==
  ASSUME NEW ms \in SUBSET Key, NEW x, ContextOK(x, ms), NEW k \in ms,
         IsFavourites => x.link[k.podcast] = NoKey
  PROVE  /\ Broken(AddRecord(x, k)) \subseteq Broken(x)
         /\ AddRecord(x, k).out = Append(x.out, [op |-> "add", key |-> k])
<1> DEFINE y == Insert(x, k)
           z == Save(y)
<1>1. x \in DeviceState /\ k \in Key /\ NoKey \notin Key
  BY DEF ContextOK, Key, NoKey
<1>2. ContextOK(y, ms) /\ SameClient(x, y)
  BY InsertOK
<1>3. Broken(y) \subseteq Broken(x)
  <2>1. \A l \in Broken(y) \ Broken(x) : IsFavourites /\ l \in x.keys /\ x.link[k.podcast] = l
    BY <1>1, InsertTakes
  <2>2. x.keys \subseteq Key
    BY <1>1 DEF DeviceState
  <2> HIDE DEF y
  <2> QED BY <2>1, <2>2, <1>1
<1> HIDE DEF y
<1>4. ContextOK(z, ms) /\ SameClient(y, z) /\ z.keys = y.keys /\ z.link = y.link
  BY <1>2, SaveOK, SaveContext DEF ContextOK
<1> HIDE DEF z
<1>5. z \in DeviceState /\ z.out = x.out
  BY <1>2, <1>4 DEF ContextOK, SameClient
<1>6. /\ Write(z, "add", k).keys = z.keys /\ Write(z, "add", k).link = z.link
      /\ Write(z, "add", k).out = Append(z.out, [op |-> "add", key |-> k])
  BY <1>1, <1>5, WriteContext
<1>7. Broken(Write(z, "add", k)) = Broken(y)
  BY <1>4, <1>6 DEF Broken
<1> QED BY <1>3, <1>5, <1>6, <1>7 DEF AddRecord, z, y

\* The records that an answer brings take podcasts, those it lacks give theirs up.
LEMMA DidGetCalm ==
  ASSUME NEW ms \in SUBSET Key, IsFiniteSet(ms), NEW x, ContextOK(x, ms), NEW gs \in SUBSET ms,
         NEW y \in DidGet(x, gs)
  PROVE  Calm(x, y, ms) /\ ContextOK(y, ms)
<1>1. CASE gs # {} /\ ~ IsFavourites
  <2>1. y = x
    BY <1>1 DEF DidGet
  <2> QED BY <2>1, SameContextCalm
<1>2. CASE ~(gs # {} /\ ~ IsFavourites)
  <2>1. PICK l \in LinksAfter(x, gs \ x.keys) :
          y = Replaced([x EXCEPT !.keys = @ \cup gs, !.link = l], gs)
    BY <1>2 DEF DidGet
  <2> DEFINE u == [x EXCEPT !.keys = @ \cup gs, !.link = l]
  <2>2. /\ l \in [Podcast -> Key \cup {NoKey}]
        /\ IsFavourites => \A k \in gs \ x.keys : l[k.podcast] \in {m \in gs \ x.keys : m.podcast = k.podcast}
        /\ \A p \in Podcast : l[p] = x.link[p] \/ l[p] \in {m \in gs \ x.keys : m.podcast = p}
    BY DEF LinksAfter, Key
  <2>3. x \in DeviceState /\ x.keys \in SUBSET ms /\ x.link \in [Podcast -> Key \cup {NoKey}]
    BY DEF ContextOK, DeviceState
  <2>4. u \in DeviceState /\ u.keys = x.keys \cup gs /\ u.link = l /\ u.out = x.out
    BY <2>2, <2>3 DEF DeviceState
  <2> HIDE DEF u
  <2>5. ContextOK(u, ms)
    <3>1. \A p \in Podcast : l[p] \in x.keys \cup gs \cup {NoKey}
      BY <2>2, <2>3 DEF ContextOK
    <3>2. u.cache = x.cache /\ u.disk = x.disk
      BY <2>3 DEF DeviceState, u
    <3> QED BY <2>3, <2>4, <3>1, <3>2 DEF ContextOK
  <2>6. /\ ContextOK(y, ms) /\ SameClient(u, y) /\ gs \subseteq y.keys /\ Broken(y) \subseteq Broken(u)
    <3> DEFINE S == {z \in DeviceState : /\ ContextOK(z, ms) /\ SameClient(u, z)
                                         /\ gs \subseteq z.keys /\ Broken(z) \subseteq Broken(u)}
    <3>1. ASSUME NEW z \in S, NEW k \in u.keys \ gs PROVE RemoveFromCoreData(z, k) \in S
      <4>1. /\ ContextOK(RemoveFromCoreData(z, k), ms) /\ SameClient(z, RemoveFromCoreData(z, k))
            /\ RemoveFromCoreData(z, k).keys = z.keys \ {k}
        BY RemoveOK
      <4>2. Broken(RemoveFromCoreData(z, k)) \subseteq Broken(z)
        BY RemoveBreaksNone
      <4>3. SameClient(u, RemoveFromCoreData(z, k))
        BY <4>1 DEF SameClient
      <4>4. gs \subseteq RemoveFromCoreData(z, k).keys
        BY <4>1
      <4> QED BY <4>1, <4>2, <4>3, <4>4 DEF ContextOK
    <3>2. u \in S
      BY <2>4, <2>5 DEF SameClient
    <3>3. u.keys \ gs \in SUBSET ms
      BY <2>3, <2>4
    <3>4. IsFiniteSet(u.keys \ gs)
      BY <3>3, FS_Subset
    <3> HIDE DEF S
    <3>5. Replaced(u, gs) \in S
      BY <3>1, <3>2, <3>4, ReplacedStays
    <3> QED BY <2>1, <3>5 DEF S, u
  <2>7. ASSUME NEW k \in Broken(u) \ Broken(x)
        PROVE  \E other \in gs \ x.keys : other.podcast = k.podcast
    <3>1. IsFavourites /\ k \in u.keys /\ l[k.podcast] # k /\ (k \in x.keys => x.link[k.podcast] = k)
      BY <2>4, <2>7 DEF Broken
    <3>2. k.podcast \in Podcast
      BY <2>3, <2>4, <3>1 DEF Key
    <3>3. CASE k \in x.keys
      <4>1. l[k.podcast] # x.link[k.podcast]
        BY <3>1, <3>3
      <4> QED BY <4>1, <3>2, <2>2
    <3>4. CASE k \notin x.keys
      BY <3>1, <3>4, <2>4
    <3> QED BY <3>3, <3>4
  <2>8. y.out = x.out
    BY <2>4, <2>6 DEF SameClient
  <2>9. SameAdds(x.out, y.out)
    BY <2>8 DEF SameAdds
  <2> QED BY <2>6, <2>7, <2>9 DEF Calm, TakenByNew
<1> QED BY <1>1, <1>2

LEMMA HandledCalm ==
  ASSUME NEW ks, NEW ms \in SUBSET Key, IsFiniteSet(ms), MaxObservers \in Nat,
         NEW x, Fits(x, ks, ms), x.calls # <<>>, NEW y \in Handled(x, Head(x.calls))
  PROVE  Calm(x, y, ms)
<1> DEFINE call == Head(x.calls)
           rest == Taken(x)
           heard == [rest EXCEPT !.doubtful = @ \ call.keys]
<1>1. /\ rest \in DeviceState /\ SameContext(x, rest) /\ rest.out = x.out
      /\ call \in Call /\ CallOK(call, ms) /\ ContextOK(rest, ms)
  BY TakenOK
<1>2. heard \in DeviceState /\ SameContext(rest, heard) /\ heard.out = rest.out
      /\ heard.cache = rest.cache
  BY <1>1 DEF DeviceState, SameContext
<1>3. ContextOK(heard, ms)
  BY <1>1, <1>2, SameContextOK DEF ContextOK
<1>4. /\ call.name = "didAdd" => \E k \in call.keys : y = DidAdd(heard, k)
      /\ call.name = "didRemove" => \E k \in call.keys : y = RemoveFromCoreData(heard, k)
      /\ call.name = "connected" => y = Observed(rest)
      /\ call.name = "didGet" => \E z \in DidGet(rest, call.keys) : y = Noted(z, call.keys)
  BY DEF Handled, DidRemove, Taken
<1>5. call.name \in {"didAdd", "didRemove", "didGet", "connected"} /\ call.keys \subseteq ms
  BY <1>1 DEF Call, CallOK
<1> HIDE DEF rest, heard, call
<1>6. CASE call.name = "didAdd"
  <2>1. PICK k \in ms : y = DidAdd(heard, k)
    BY <1>4, <1>5, <1>6
  <2>2. CASE k \in heard.keys
    BY <2>1, <2>2, <1>1, <1>2, SameContextCalm DEF DidAdd, SameContext
  <2>3. CASE k \notin heard.keys
    <3>1. y = Insert(heard, k)
      BY <2>1, <2>3 DEF DidAdd
    <3>2. /\ SameClient(heard, Insert(heard, k)) /\ Insert(heard, k).keys = heard.keys \cup {k}
          /\ \A l \in Broken(Insert(heard, k)) \ Broken(heard) : l.podcast = k.podcast
      <4>1. k \in Key
        OBVIOUS
      <4>2. \A l \in Broken(Insert(heard, k)) \ Broken(heard) :
              IsFavourites /\ l \in heard.keys /\ l.podcast = k.podcast /\ heard.link[k.podcast] = l
        BY <4>1, <1>2, InsertTakes
      <4> QED BY <4>2, <1>3, InsertOK
    <3>3. Broken(heard) = Broken(x) /\ heard.keys = x.keys /\ heard.out = x.out
      BY <1>1, <1>2 DEF Broken, SameContext
    <3>4. SameAdds(x.out, y.out)
      BY <3>1, <3>2, <3>3 DEF SameClient, SameAdds
    <3>5. k \in y.keys \ x.keys /\ \A l \in Broken(y) \ Broken(x) : l.podcast = k.podcast
      BY <2>3, <3>1, <3>2, <3>3
    <3> QED BY <3>4, <3>5 DEF Calm, TakenByNew
  <2> QED BY <2>2, <2>3
<1>7. CASE call.name = "didRemove"
  <2>1. PICK k \in ms : y = RemoveFromCoreData(heard, k)
    BY <1>4, <1>5, <1>7
  <2>2. SameClient(heard, y) /\ Broken(y) \subseteq Broken(heard)
    BY <2>1, <1>2, <1>3, RemoveOK, RemoveBreaksNone
  <2>3. Broken(heard) = Broken(x) /\ y.out = x.out
    BY <1>1, <1>2, <2>2 DEF Broken, SameContext, SameClient
  <2> QED BY <2>2, <2>3 DEF Calm, TakenByNew, SameAdds
<1>8. CASE call.name = "connected"
  <2>1. y.keys = rest.keys /\ y.link = rest.link /\ y.out = rest.out
    BY <1>1, <1>4, <1>8 DEF Observed, DeviceState
  <2> QED BY <2>1, <1>1, SameContextCalm DEF SameContext
<1>9. CASE call.name = "didGet"
  <2>1. PICK z \in DidGet(rest, call.keys) : y = Noted(z, call.keys)
    BY <1>4, <1>9
  <2>2. Calm(rest, z, ms) /\ ContextOK(z, ms)
    BY <1>1, <1>5, DidGetCalm
  <2>3. z \in DeviceState
    BY <2>2 DEF ContextOK
  <2>4. y.keys = z.keys /\ y.link = z.link /\ y.out = z.out
    BY <2>1, <2>3 DEF Noted, DeviceState
  <2>5. Broken(y) = Broken(z) /\ Broken(rest) = Broken(x) /\ rest.keys = x.keys
    BY <1>1, <2>4 DEF Broken, SameContext
  <2> QED BY <2>2, <2>4, <2>5, <1>1 DEF Calm, TakenByNew
<1> QED BY <1>5, <1>6, <1>7, <1>8, <1>9

\* All steps but those that make a record or reach the server.
LEMMA StepsAreCalm ==
  ASSUME IInv, NEW d \in Device,
         \/ \E p \in Podcast : RemoveTapped(d, p)
         \/ RemoveAll(d) \/ OtherSave(d) \/ RunCall(d) \/ Connect(d) \/ Hears(d)
         \/ Disconnect(d) \/ RequestFails(d) \/ Answer(d) \/ Restart(d)
  PROVE  /\ UNCHANGED <<server, made, dropped, lostAcks>>
         /\ \E y : Does(d, y) /\ Calm(dev[d], y, made)
<1> DEFINE x == dev[d]
<1>0. UNCHANGED <<server, made, dropped, lostAcks>>
  BY DEF RemoveTapped, RemoveAll, OtherSave, RunCall, Connect, Hears, Disconnect,
         RequestFails, Answer, Restart
<1> SUFFICES \E y : Does(d, y) /\ Calm(x, y, made)
  BY <1>0
<1>1. /\ Fits(x, server, made) /\ x \in DeviceState /\ ContextOK(x, made)
      /\ made \in SUBSET Key /\ IsFiniteSet(made) /\ MaxObservers \in Nat
  BY DeviceFacts DEF Fits
<1>2. ASSUME NEW p \in Podcast, RemoveTapped(d, p)
      PROVE  \E y : Does(d, y) /\ Calm(x, y, made)
  <2>1. Does(d, RemoveRecord(x, x.link[p])) /\ x.link[p] # NoKey
    BY <1>2 DEF RemoveTapped
  <2>2. x.link[p] \in Key /\ x.out \in Seq(WriteRecord)
    BY <1>1, <2>1 DEF DeviceState
  <2> DEFINE k == x.link[p]
  <2> HIDE DEF k, x
  <2>3. /\ RemoveRecord(x, k).out = Append(x.out, [op |-> "remove", key |-> k])
        /\ Broken(RemoveRecord(x, k)) \subseteq Broken(x)
    BY <1>1, <2>2, RemoveRecordCalm DEF k
  <2>4. SameAdds(x.out, x.out) /\ k \in Key
    BY <2>2 DEF SameAdds, k
  <2>5. SameAdds(x.out, RemoveRecord(x, k).out)
    BY <2>2, <2>3, <2>4, SameAddsRemove
  <2>6. Calm(x, RemoveRecord(x, k), made)
    BY <2>3, <2>5 DEF Calm, TakenByNew
  <2> QED BY <2>1, <2>6 DEF k
<1>3. CASE RemoveAll(d)
  <2>1. x.keys \in SUBSET made
    BY <1>1 DEF ContextOK
  <2>2. Calm(x, InTurn(RemoveRecord, x, x.keys), made)
    BY <1>1, <2>1, RemoveAllCalm
  <2> QED BY <1>3, <2>2 DEF RemoveAll
<1>4. CASE OtherSave(d)
  <2>1. Save(x).keys = x.keys /\ Save(x).link = x.link /\ Save(x).out = x.out
    BY <1>1, SaveContext, SaveOK DEF SameClient
  <2>2. Calm(x, Save(x), made)
    BY <2>1, SameContextCalm
  <2> QED BY <1>4, <2>2 DEF OtherSave
<1>5. CASE RunCall(d)
  <2>1. PICK y \in Handled(x, Head(x.calls)) : Does(d, y)
    BY <1>5 DEF RunCall
  <2>2. x.calls # <<>>
    BY <1>5 DEF RunCall
  <2>3. Calm(x, y, made)
    BY <1>1, <2>2, HandledCalm
  <2> QED BY <2>1, <2>3
<1>6. CASE Connect(d)
  <2> DEFINE y == [x EXCEPT !.line = "open",
                            !.calls = Append(@, [name |-> "connected", keys |-> {}])]
  <2>1. y.keys = x.keys /\ y.link = x.link /\ y.out = x.out
    BY <1>1 DEF DeviceState
  <2>2. Does(d, y)
    BY <1>6 DEF Connect
  <2> HIDE DEF y
  <2> QED BY <2>1, <2>2, SameContextCalm
<1>7. CASE Hears(d)
  <2> DEFINE u == [x EXCEPT !.line = "up"]
  <2>1. u \in DeviceState /\ u.keys = x.keys /\ u.link = x.link /\ u.out = x.out
    BY <1>1 DEF DeviceState
  <2>2. Does(d, Refreshed(u, server))
    BY <1>7 DEF Hears
  <2> HIDE DEF u
  <2> QED BY <2>1, <2>2, RefreshedContext, SameContextCalm
<1>8. CASE Disconnect(d)
  <2> DEFINE y == [x EXCEPT !.line = "down"]
  <2>1. y.keys = x.keys /\ y.link = x.link /\ y.out = x.out
    BY <1>1 DEF DeviceState
  <2>2. Does(d, y)
    BY <1>8 DEF Disconnect
  <2> HIDE DEF y
  <2> QED BY <2>1, <2>2, SameContextCalm
<1>9. CASE RequestFails(d)
  <2> DEFINE y == [x EXCEPT !.asked = FALSE]
  <2>1. y.keys = x.keys /\ y.link = x.link /\ y.out = x.out
    BY <1>1 DEF DeviceState
  <2>2. Does(d, y)
    BY <1>9 DEF RequestFails
  <2> HIDE DEF y
  <2> QED BY <2>1, <2>2, SameContextCalm
<1>10. CASE Answer(d)
  <2> DEFINE u == IF x.observers = 0 THEN x ELSE Noticed(x, Overlay(server, x.out))
             y == [u EXCEPT !.asked = FALSE,
                            !.calls = Append(@, [name |-> "didGet", keys |-> server])]
  <2>1. DOMAIN u = DOMAIN x /\ u.keys = x.keys /\ u.link = x.link /\ u.out = x.out
    BY <1>1 DEF Noticed, DeviceState
  <2>2. DOMAIN x = DOMAIN Started(x.disk)
    BY <1>1 DEF DeviceState, Started
  <2>3. Does(d, y)
    BY <1>10 DEF Answer
  <2>4. y.keys = u.keys /\ y.link = u.link /\ y.out = u.out
    <3>1. {"keys", "link", "out"} \subseteq DOMAIN u
      BY <2>1, <1>1 DEF DeviceState
    <3> HIDE DEF u
    <3> QED BY <3>1
  <2> HIDE DEF y, u
  <2> QED BY <2>1, <2>3, <2>4, SameContextCalm
<1>11. CASE Restart(d)
  <2> DEFINE y == Started(x.disk)
  <2>1. y.keys = x.disk.keys /\ y.link = x.disk.link /\ y.out = <<>>
    BY DEF Started
  <2>2. Does(d, y)
    BY <1>11 DEF Restart
  <2> HIDE DEF y
  <2>3. Broken(y) = {}
    BY <1>1, <2>1 DEF Broken, ContextOK
  <2> QED BY <2>1, <2>2, <2>3 DEF Calm, SameAdds, TakenByNew
<1> QED BY <1>2, <1>3, <1>4, <1>5, <1>6, <1>7, <1>8, <1>9, <1>10, <1>11

-----------------------------------------------------------------------------
(* A record is sent to be added once.                                      *)

\* The writes of a device, as writes.
LEMMA OutFacts ==
  ASSUME IInv, NEW d \in Device
  PROVE  /\ dev[d].out \in Seq(WriteRecord)
         /\ \A i \in DOMAIN dev[d].out : dev[d].out[i].key \in made
BY DeviceFacts DEF Fits, QueuesOK, DeviceState

LEMMA CalmAddsOnce ==
  ASSUME IInv, AddsOnce, UNCHANGED <<server, made, dropped, lostAcks>>,
         NEW d \in Device, NEW y, Does(d, y), SameAdds(dev[d].out, y.out)
  PROVE  AddsOnce'
<1>1. \A e \in Device : dev'[e] = IF e = d THEN y ELSE dev[e]
  BY DEF Does, IInv
<1>2. \A e \in Device : SameAdds(dev[e].out, dev'[e].out)
  BY <1>1 DEF SameAdds
<1>3. CASE lostAcks # 0
  BY <1>3 DEF AddsOnce
<1>4. CASE lostAcks = 0
  <2>1. server' \cap dropped' = {} /\ dropped' \subseteq made'
    BY <1>4 DEF AddsOnce
  <2>2. ASSUME NEW e \in Device, NEW i \in DOMAIN dev'[e].out, dev'[e].out[i].op = "add"
        PROVE  i \in DOMAIN dev[e].out /\ dev'[e].out[i] = dev[e].out[i]
    BY <1>2, <2>2 DEF SameAdds
  <2>3. ASSUME NEW e \in Device, NEW i \in DOMAIN dev'[e].out, dev'[e].out[i].op = "add"
        PROVE  dev'[e].out[i].key \notin server' \cup dropped'
    BY <1>4, <2>2, <2>3 DEF AddsOnce
  <2>4. ASSUME NEW e \in Device, NEW f \in Device, NEW i \in DOMAIN dev'[e].out,
               NEW j \in DOMAIN dev'[f].out, dev'[e].out[i].op = "add",
               dev'[f].out[j] = dev'[e].out[i]
        PROVE  e = f /\ i = j
    <3>1. /\ i \in DOMAIN dev[e].out /\ dev'[e].out[i] = dev[e].out[i]
          /\ j \in DOMAIN dev[f].out /\ dev'[f].out[j] = dev[f].out[j]
      BY <2>2, <2>4
    <3> QED BY <1>4, <2>4, <3>1 DEF AddsOnce
  <2> QED BY <2>1, <2>3, <2>4 DEF AddsOnce
<1> QED BY <1>3, <1>4

\* A new id is in no queue yet.
LEMMA AddTappedAddsOnce ==
  ASSUME IInv, AddsOnce, NEW d \in Device, NEW p \in Podcast, AddTapped(d, p)
  PROVE  AddsOnce'
<1> DEFINE k == FreshKey(d, p)
           more == made \cup {k}
           w == [op |-> "add", key |-> k]
<1>1. k \in Key \ made /\ more \subseteq Key
  BY FreshFacts DEF AddTapped
<1>2. /\ made' = more /\ dev' = [dev EXCEPT ![d] = AddRecord(dev[d], k)]
      /\ UNCHANGED <<server, dropped, lostAcks>> /\ (IsFavourites => dev[d].link[p] = NoKey)
      /\ k.podcast = p /\ k \in more /\ made \subseteq more
  BY DEF AddTapped, Does, FreshKey
<1>3. w.op = "add" /\ w.key = k
  OBVIOUS
<1> HIDE DEF k, more
<1>4. AddRecord(dev[d], k).out = Append(dev[d].out, w)
  <2>1. ContextOK(dev[d], more)
    BY <1>2, FitsMore, DeviceFacts DEF Fits
  <2>2. more \in SUBSET Key /\ k \in more /\ (IsFavourites => dev[d].link[k.podcast] = NoKey)
    BY <1>1, <1>2
  <2>3. AddRecord(dev[d], k).out = Append(dev[d].out, [op |-> "add", key |-> k])
    BY <2>1, <2>2, AddRecordBreaksNone
  <2> QED BY <2>3 DEF w
<1> HIDE DEF w
<1>5. \A e \in Device : dev'[e].out = IF e = d THEN Append(dev[d].out, w) ELSE dev[e].out
  BY <1>2, <1>4 DEF IInv
<1>6. server \cup dropped \subseteq made
  BY DEF IInv, MadeOK, AddsOnce
<1>7. ASSUME NEW e \in Device, NEW i \in DOMAIN dev'[e].out
      PROVE  \/ i \in DOMAIN dev[e].out /\ dev'[e].out[i] = dev[e].out[i]
                /\ dev[e].out[i].key # k
             \/ e = d /\ i = Len(dev[d].out) + 1 /\ dev'[e].out[i] = w
  <2>1. \A j \in DOMAIN dev[e].out : dev[e].out[j].key # k
    BY <1>1, OutFacts
  <2>2. dev[e].out \in Seq(WriteRecord)
    BY OutFacts
  <2>3. CASE e = d
    <3>1. dev'[e].out = Append(dev[e].out, w)
      BY <1>5, <2>3
    <3> QED BY <2>1, <2>2, <2>3, <3>1
  <2>4. CASE e # d
    BY <1>5, <2>1, <2>4
  <2> QED BY <2>3, <2>4
<1>8. CASE lostAcks # 0
  BY <1>2, <1>6, <1>8 DEF AddsOnce
<1>9. CASE lostAcks = 0
  <2>1. server' \cap dropped' = {} /\ dropped' \subseteq made'
    BY <1>2, <1>6, <1>9 DEF AddsOnce
  <2>2. ASSUME NEW e \in Device, NEW i \in DOMAIN dev'[e].out, dev'[e].out[i].op = "add"
        PROVE  dev'[e].out[i].key \notin server' \cup dropped'
    <3>1. CASE i \in DOMAIN dev[e].out /\ dev'[e].out[i] = dev[e].out[i]
      BY <1>2, <1>9, <2>2, <3>1 DEF AddsOnce
    <3>2. CASE dev'[e].out[i] = w
      BY <1>1, <1>2, <1>3, <1>6, <3>2
    <3> QED BY <1>7, <3>1, <3>2
  <2>3. ASSUME NEW e \in Device, NEW f \in Device, NEW i \in DOMAIN dev'[e].out,
               NEW j \in DOMAIN dev'[f].out, dev'[e].out[i].op = "add",
               dev'[f].out[j] = dev'[e].out[i]
        PROVE  e = f /\ i = j
    <3>1. CASE dev'[e].out[i] = w
      <4>1. e = d /\ i = Len(dev[d].out) + 1
        BY <1>3, <1>7, <3>1
      <4>2. f = d /\ j = Len(dev[d].out) + 1
        BY <1>3, <1>7, <2>3, <3>1
      <4> QED BY <4>1, <4>2
    <3>2. CASE dev'[e].out[i] # w
      <4>1. i \in DOMAIN dev[e].out /\ dev'[e].out[i] = dev[e].out[i]
        BY <1>7, <3>2
      <4>2. j \in DOMAIN dev[f].out /\ dev'[f].out[j] = dev[f].out[j]
        BY <1>7, <2>3, <3>2
      <4> QED BY <1>9, <2>3, <4>1, <4>2 DEF AddsOnce
    <3> QED BY <3>1, <3>2
  <2> QED BY <2>1, <2>2, <2>3 DEF AddsOnce
<1> QED BY <1>8, <1>9

\* What the server has applied is on its way no more.
LEMMA ServerAppliesAddsOnce ==
  ASSUME IInv, AddsOnce, NEW d \in Device, NEW acknowledged \in BOOLEAN,
         ServerApplies(d, acknowledged)
  PROVE  AddsOnce'
<1> DEFINE w == Head(dev[d].out)
           ks == Applied(server, w)
<1>1. /\ server' = ks /\ dropped' = dropped \cup (server \ ks) /\ made' = made
      /\ lostAcks' = IF acknowledged THEN lostAcks ELSE lostAcks + 1
      /\ dev[d].out # <<>>
  BY DEF ServerApplies
<1>2. dev[d].out \in Seq(WriteRecord) /\ dropped' \subseteq made' /\ lostAcks \in Nat
  <2>1. dropped \subseteq made /\ server \subseteq made /\ lostAcks \in Nat
    BY InstanceFacts DEF IInv, MadeOK, AddsOnce
  <2> QED BY <1>1, <2>1, OutFacts
<1>3. w = dev[d].out[1] /\ 1 \in DOMAIN dev[d].out /\ w \in WriteRecord
  BY <1>1, <1>2
<1>4. CASE ~(acknowledged /\ lostAcks = 0)
  <2>1. lostAcks' # 0
    BY <1>1, <1>2, <1>4
  <2> QED BY <2>1, <1>2 DEF AddsOnce
<1>5. CASE acknowledged /\ lostAcks = 0
  <2>1. \A e \in Device : dev'[e].out = IF e = d THEN Tail(dev[d].out) ELSE dev[e].out
    <3>1. dev' = [e \in Device |-> IF e # d THEN Refreshed(dev[e], ks)
                                   ELSE Refreshed([dev[d] EXCEPT !.out = Tail(@)], ks)]
      BY <1>5 DEF ServerApplies
    <3>2. [dev[d] EXCEPT !.out = Tail(@)] \in DeviceState
          /\ [dev[d] EXCEPT !.out = Tail(@)].out = Tail(dev[d].out)
      <4>1. Tail(dev[d].out) \in Seq(WriteRecord) /\ dev[d] \in DeviceState
        BY <1>1, <1>2, DeviceFacts
      <4> QED BY <4>1 DEF DeviceState
    <3>3. \A e \in Device : dev[e] \in DeviceState
      BY DeviceFacts
    <3> DEFINE sent == [dev[d] EXCEPT !.out = Tail(@)]
    <3> HIDE DEF sent, ks
    <3>4. \A e \in Device : dev'[e] = IF e # d THEN Refreshed(dev[e], ks) ELSE Refreshed(sent, ks)
      BY <3>1 DEF sent
    <3>5. Refreshed(sent, ks).out = Tail(dev[d].out)
      BY <3>2, RefreshedContext DEF sent
    <3>6. \A e \in Device : Refreshed(dev[e], ks).out = dev[e].out
      BY <3>3, RefreshedContext
    <3> QED BY <3>4, <3>5, <3>6
  <2>2. ASSUME NEW e \in Device, NEW i \in DOMAIN dev'[e].out
        PROVE  \E j \in DOMAIN dev[e].out :
                 /\ dev'[e].out[i] = dev[e].out[j] /\ i \in Nat
                 /\ IF e = d THEN j = i + 1 /\ j # 1 ELSE j = i
    <3>1. CASE e = d
      <4>1. dev'[e].out = Tail(dev[e].out) /\ dev[e].out \in Seq(WriteRecord) /\ dev[e].out # <<>>
        BY <1>1, <1>2, <2>1, <3>1
      <4>2. i \in Nat /\ i + 1 \in DOMAIN dev[e].out /\ i + 1 # 1
            /\ dev'[e].out[i] = dev[e].out[i + 1]
        BY <4>1
      <4> QED BY <3>1, <4>2
    <3>2. CASE e # d
      <4>1. dev'[e].out = dev[e].out /\ dev[e].out \in Seq(WriteRecord)
        BY <2>1, <3>2, OutFacts
      <4> QED BY <3>2, <4>1
    <3> QED BY <3>1, <3>2
  <2>3. /\ server \cap dropped = {}
        /\ \A e \in Device : \A j \in DOMAIN dev[e].out :
             dev[e].out[j].op = "add" => dev[e].out[j].key \notin server \cup dropped
        /\ \A e, f \in Device : \A i \in DOMAIN dev[e].out : \A j \in DOMAIN dev[f].out :
             dev[e].out[i].op = "add" /\ dev[f].out[j] = dev[e].out[i] => e = f /\ i = j
    BY <1>5 DEF AddsOnce
  <2>4. server' \cap dropped' = {}
    <3>1. CASE w.op = "add"
      <4>1. w.key \notin dropped /\ ks = server \cup {w.key}
        BY <1>3, <2>3, <3>1 DEF Applied
      <4> QED BY <1>1, <2>3, <4>1
    <3>2. CASE w.op # "add"
      <4>1. ks = server \ {w.key}
        BY <3>2 DEF Applied
      <4> QED BY <1>1, <2>3, <4>1
    <3> QED BY <3>1, <3>2
  <2>5. server' \cup dropped' \subseteq server \cup dropped \cup (IF w.op = "add" THEN {w.key} ELSE {})
    BY <1>1 DEF Applied
  <2> HIDE DEF w, ks
  <2>6. ASSUME NEW e \in Device, NEW i \in DOMAIN dev'[e].out, dev'[e].out[i].op = "add"
        PROVE  dev'[e].out[i].key \notin server' \cup dropped'
    <3>1. PICK j \in DOMAIN dev[e].out :
            /\ dev'[e].out[i] = dev[e].out[j] /\ i \in Nat
            /\ IF e = d THEN j = i + 1 /\ j # 1 ELSE j = i
      BY <2>2
    <3>2. dev[e].out[j].op = "add" /\ dev[e].out[j].key \notin server \cup dropped
      BY <2>3, <2>6, <3>1
    <3>3. dev[e].out[j] \in WriteRecord
      BY OutFacts
    <3>4. ~(w.op = "add" /\ w.key = dev[e].out[j].key)
      <4> SUFFICES ASSUME w.op = "add", w.key = dev[e].out[j].key PROVE FALSE
        OBVIOUS
      <4>1. w = dev[e].out[j]
        BY <1>3, <3>2, <3>3 DEF WriteRecord
      <4>2. dev[d].out[1].op = "add" /\ dev[e].out[j] = dev[d].out[1]
        BY <1>3, <3>2, <4>1
      <4>3. d = e /\ 1 = j
        BY <1>3, <2>3, <4>2
      <4> QED BY <3>1, <4>3
    <3> QED BY <2>5, <3>1, <3>2, <3>4
  <2>7. ASSUME NEW e \in Device, NEW f \in Device, NEW i \in DOMAIN dev'[e].out,
               NEW j \in DOMAIN dev'[f].out, dev'[e].out[i].op = "add",
               dev'[f].out[j] = dev'[e].out[i]
        PROVE  e = f /\ i = j
    <3>1. PICK a \in DOMAIN dev[e].out :
            /\ dev'[e].out[i] = dev[e].out[a] /\ i \in Nat
            /\ IF e = d THEN a = i + 1 /\ a # 1 ELSE a = i
      BY <2>2
    <3>2. PICK b \in DOMAIN dev[f].out :
            /\ dev'[f].out[j] = dev[f].out[b] /\ j \in Nat
            /\ IF f = d THEN b = j + 1 /\ b # 1 ELSE b = j
      BY <2>2
    <3>3. e = f /\ a = b
      BY <2>3, <2>7, <3>1, <3>2
    <3> QED BY <3>1, <3>2, <3>3
  <2> QED BY <1>2, <2>4, <2>6, <2>7 DEF AddsOnce
<1> QED BY <1>4, <1>5

LEMMA NextAddsOnce ==
  ASSUME IInv, AddsOnce, [Next]_vars
  PROVE  AddsOnce'
<1>1. CASE UNCHANGED vars
  BY <1>1 DEF vars, AddsOnce
<1>2. CASE Next
  <2>1. PICK d \in Device :
          \/ \E p \in Podcast : AddTapped(d, p) \/ RemoveTapped(d, p)
          \/ RemoveAll(d) \/ OtherSave(d) \/ RunCall(d)
          \/ \E acknowledged \in BOOLEAN : ServerApplies(d, acknowledged)
          \/ Connect(d) \/ Hears(d) \/ Disconnect(d)
          \/ RequestFails(d) \/ Answer(d) \/ Restart(d)
    BY <1>2 DEF Next
  <2>2. ASSUME NEW p \in Podcast, AddTapped(d, p) PROVE AddsOnce'
    BY <2>2, AddTappedAddsOnce
  <2>3. ASSUME NEW acknowledged \in BOOLEAN, ServerApplies(d, acknowledged) PROVE AddsOnce'
    BY <2>3, ServerAppliesAddsOnce
  <2>4. ASSUME \/ \E p \in Podcast : RemoveTapped(d, p)
               \/ RemoveAll(d) \/ OtherSave(d) \/ RunCall(d) \/ Connect(d) \/ Hears(d)
               \/ Disconnect(d) \/ RequestFails(d) \/ Answer(d) \/ Restart(d)
        PROVE  AddsOnce'
    <3>1. PICK y : Does(d, y) /\ Calm(dev[d], y, made)
      BY <2>4, StepsAreCalm
    <3>2. UNCHANGED <<server, made, dropped, lostAcks>>
      BY <2>4, StepsAreCalm
    <3> QED BY <3>1, <3>2, CalmAddsOnce DEF Calm
  <2> QED BY <2>1, <2>2, <2>3, <2>4
<1> QED BY <1>1, <1>2

\* A record of a device loses its podcast only as the property says.
LEMMA NextTakes ==
  ASSUME IInv, [Next]_vars, NEW d \in Device
  PROVE  TakenByNew(dev[d], dev'[d], made)
<1>1. CASE UNCHANGED vars
  BY <1>1 DEF vars, TakenByNew
<1>2. CASE Next
  <2>1. PICK e \in Device :
          \/ \E p \in Podcast : AddTapped(e, p) \/ RemoveTapped(e, p)
          \/ RemoveAll(e) \/ OtherSave(e) \/ RunCall(e)
          \/ \E acknowledged \in BOOLEAN : ServerApplies(e, acknowledged)
          \/ Connect(e) \/ Hears(e) \/ Disconnect(e)
          \/ RequestFails(e) \/ Answer(e) \/ Restart(e)
    BY <1>2 DEF Next
  <2>2. ASSUME NEW y, Does(e, y), TakenByNew(dev[e], y, made)
        PROVE  TakenByNew(dev[d], dev'[d], made)
    <3>1. CASE d = e
      <4>1. dev'[d] = y
        BY <2>2, <3>1 DEF Does, IInv
      <4> QED BY <2>2, <3>1, <4>1
    <3>2. CASE d # e
      <4>1. dev'[d] = dev[d]
        BY <2>2, <3>2 DEF Does, IInv
      <4> QED BY <4>1 DEF TakenByNew
    <3> QED BY <3>1, <3>2
  <2>3. ASSUME NEW p \in Podcast, AddTapped(e, p)
        PROVE  TakenByNew(dev[d], dev'[d], made)
    <3> DEFINE k == FreshKey(e, p)
               more == made \cup {k}
    <3>1. k \in Key \ made /\ more \subseteq Key
      BY <2>3, FreshFacts DEF AddTapped
    <3>2. Does(e, AddRecord(dev[e], k)) /\ (IsFavourites => dev[e].link[p] = NoKey) /\ k.podcast = p
      BY <2>3 DEF AddTapped, FreshKey
    <3>3. k \in more /\ made \subseteq more
      OBVIOUS
    <3> HIDE DEF k, more
    <3>4. ContextOK(dev[e], more)
      BY <3>3, FitsMore, DeviceFacts DEF Fits
    <3>5. more \in SUBSET Key /\ (IsFavourites => dev[e].link[k.podcast] = NoKey)
      BY <3>1, <3>2
    <3>6. Broken(AddRecord(dev[e], k)) \subseteq Broken(dev[e])
      BY <3>3, <3>4, <3>5, AddRecordBreaksNone
    <3>7. TakenByNew(dev[e], AddRecord(dev[e], k), made)
      BY <3>6 DEF TakenByNew
    <3> QED BY <2>2, <3>2, <3>7
  <2>4. ASSUME NEW acknowledged \in BOOLEAN, ServerApplies(e, acknowledged)
        PROVE  TakenByNew(dev[d], dev'[d], made)
    <3> DEFINE x == dev[e]
               ks == Applied(server, Head(x.out))
               sent == [x EXCEPT !.out = Tail(@)]
               down == [x EXCEPT !.line = "down"]
    <3>1. dev' = [f \in Device |-> IF f # e THEN Refreshed(dev[f], ks)
                                   ELSE IF acknowledged THEN Refreshed(sent, ks) ELSE down]
      BY <2>4 DEF ServerApplies
    <3>2. x \in DeviceState /\ dev[d] \in DeviceState /\ x.out # <<>>
      BY <2>4, DeviceFacts DEF ServerApplies
    <3>3. Tail(x.out) \in Seq(WriteRecord)
      BY <3>2 DEF DeviceState
    <3>4. /\ sent \in DeviceState /\ sent.keys = x.keys /\ sent.link = x.link
          /\ down.keys = x.keys /\ down.link = x.link
      BY <3>2, <3>3 DEF DeviceState
    <3> HIDE DEF x, ks, sent, down
    <3>5. dev'[d].keys = dev[d].keys /\ dev'[d].link = dev[d].link
      <4>1. dev'[d] = IF d # e THEN Refreshed(dev[d], ks)
                      ELSE IF acknowledged THEN Refreshed(sent, ks) ELSE down
        BY <3>1
      <4>2. CASE d # e
        BY <4>1, <4>2, <3>2, RefreshedContext
      <4>3. CASE d = e
        <5>1. Refreshed(sent, ks).keys = x.keys /\ Refreshed(sent, ks).link = x.link
          BY <3>4, RefreshedContext
        <5> QED BY <4>1, <4>3, <5>1, <3>4 DEF x
      <4> QED BY <4>2, <4>3
    <3> QED BY <3>5 DEF TakenByNew, Broken
  <2>5. ASSUME \/ \E p \in Podcast : RemoveTapped(e, p)
               \/ RemoveAll(e) \/ OtherSave(e) \/ RunCall(e) \/ Connect(e) \/ Hears(e)
               \/ Disconnect(e) \/ RequestFails(e) \/ Answer(e) \/ Restart(e)
        PROVE  TakenByNew(dev[d], dev'[d], made)
    <3>1. PICK y : Does(e, y) /\ Calm(dev[e], y, made)
      BY <2>5, StepsAreCalm
    <3> QED BY <2>2, <3>1 DEF Calm
  <2> QED BY <2>1, <2>3, <2>4, <2>5
<1> QED BY <1>1, <1>2

-----------------------------------------------------------------------------
(* Theorems.                                                               *)

\* The invariant, which every handler of the managers and of the database's
\* client keeps.
THEOREM InvariantHolds == Spec => []IInv
<1>1. Init => IInv
  BY InitHolds
<1>2. IInv /\ [Next]_vars => IInv'
  BY NextHolds
<1> QED BY <1>1, <1>2, PTL DEF Spec

\* Devices that are connected, and to which nothing is on its way about a
\* record, agree on it with the server: callbacks that come twice, late or from
\* the device's own writes do no harm.
THEOREM SettledDevicesAgree == Spec => []DevicesAgree
<1>1. IInv => DevicesAgree
  <2> SUFFICES ASSUME IInv PROVE DevicesAgree
    OBVIOUS
  <2>1. TypeOK
    <3>1. \A d \in Device : Range(dev[d].link) \subseteq dev[d].keys \cup {NoKey}
      BY DEF IInv, Fits, ContextOK, DeviceState, Range
    <3> QED BY <3>1 DEF TypeOK, IInv, MadeOK, Fits, ContextOK
  <2>2. ASSUME NEW d \in Device, NEW k \in made, IsSettled(dev[d], k), k \notin dev[d].doubtful
        PROVE  k \in dev[d].keys <=> k \in Overlay(server, dev[d].out)
    <3>1. k \in Key /\ Fits(dev[d], server, made)
      BY DEF IInv, MadeOK
    <3>2. ~ IsReported(dev[d].calls, k)
      BY <2>2 DEF IsSettled, IsReported, Reports
    <3>3. dev[d].cache = Overlay(server, dev[d].out)
      BY <2>2, <3>1 DEF IsSettled, Fits, ClientOK
    <3> QED BY <2>2, <3>1, <3>2, <3>3 DEF Fits, AgreesOn
  <2> QED BY <2>1, <2>2 DEF DevicesAgree, RecordsAgree
<1> QED BY <1>1, InvariantHolds, PTL

\* As long as no acknowledgement is lost, a removed record is gone for good: no
\* late callback, no answer to the request made at start and no restart of any
\* device sends it again.
THEOREM RemovedForGood == Spec => []RemovalIsFinal
<1>1. Init => AddsOnce
  BY DEF Init, AddsOnce, Started
<1>2. IInv /\ AddsOnce /\ [Next]_vars => AddsOnce'
  BY NextAddsOnce
<1>3. AddsOnce => RemovalIsFinal
  BY DEF AddsOnce, RemovalIsFinal
<1> QED BY <1>1, <1>2, <1>3, InvariantHolds, PTL DEF Spec

\* A favourite loses its podcast to one that comes from elsewhere or comes back,
\* never to one the user makes here, to a removal or to a save.
THEOREM ReturnsTakePodcasts == Spec => OnlyReturnsTakeAPodcast
<1>1. IInv /\ [Next]_vars =>
        [\A d \in Device : \A k \in Broken(dev'[d]) \ Broken(dev[d]) :
           \E other \in dev'[d].keys \ dev[d].keys :
             other.podcast = k.podcast /\ other \in made]_vars
  BY NextTakes DEF TakenByNew
<1> QED BY <1>1, InvariantHolds, PTL DEF Spec, OnlyReturnsTakeAPodcast

====
