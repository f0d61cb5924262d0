---------------------------- MODULE ListeningSync ----------------------------
(***************************************************************************)
(* The listening progress of one podcast on several devices of one user    *)
(* (Services/ListeningManager.swift), with the realtime database between   *)
(* them (FirebaseDataBase.swift) and the player that feeds it.             *)
(*                                                                         *)
(* While a device plays the podcast, each tick of its player writes the    *)
(* position into the podcast's record, here and in the remote database;    *)
(* the first tick makes the record.  What other devices write arrives as   *)
(* callbacks on the main thread.  The database's client is that of         *)
(* RecordSync; here a write carries a value too, and observers hear of     *)
(* values that change.                                                     *)
(*                                                                         *)
(* Records of other podcasts are left out: they share only the save, which *)
(* fails for all of them together.  The podcast itself stays, whatever     *)
(* becomes of its record (ObjectGraph says when it would not).             *)
(*                                                                         *)
(* Bounds, one of Instances for each behaviour: MaxRecords records are     *)
(* made and MaxTicks ticks delivered, at positions up to MaxTime; the      *)
(* other bounds are those of RecordSync.                                   *)
(***************************************************************************)
EXTENDS Integers, Sequences, FiniteSets, SequencesExt

CONSTANTS
  Device,
  Instances   \* whether the request made at start is ever sent or given up, and the
              \* bounds

ASSUME ListeningSyncAssumption ==
  Instances \subseteq [answers : BOOLEAN, records : Nat, ticks : Nat, time : Nat,
                        observers : Nat, restarts : Nat, pending : Nat]

VARIABLES
  instance,  \* the bounds: it never changes
  server,    \* the records in the remote database
  made,      \* how many records were made
  dev,       \* the devices
  ticks, restarts

vars == <<instance, server, made, dev, ticks, restarts>>

-----------------------------------------------------------------------------
(* State.                                                                  *)

Answers == instance.answers
MaxRecords == instance.records
MaxTicks == instance.ticks
MaxTime == instance.time
MaxObservers == instance.observers
MaxRestarts == instance.restarts
MaxPending == instance.pending

\* The id of a record, and the position it holds: 0 when it is made.
Key == 1 .. MaxRecords
NoKey == 0
Time == 0 .. MaxTime
Gone == -1

Records == [Key -> Time \cup {Gone}]
Link == Key \cup {NoKey}
NoRecords == [k \in Key |-> Gone]

Held(records) == {k \in Key : records[k] # Gone}

\* A write on its way to the server, and a block on its way to the main thread.
WriteRecord == [key : Key, value : Time \cup {Gone}]
Call ==
  [name : {"didAdd", "didUpdate", "didRemove"}, key : Key, value : Time \cup {Gone}]
  \cup [name : {"didGet"}, all : Records] \cup [name : {"connected"}]

\* records and link are the view context: the records of the podcast and the one
\* that it is linked to; disk is the last saved context.  playing: the current
\* track of the player is the podcast.  line, observers, cache, out, calls and
\* asked as in RecordSync.  History, about this process: doubtful holds the
\* records found on the disk or written before there was an observer, or that an
\* answer left other than the cache, until something is heard of them; stale
\* those whose last reported value was not taken.
DeviceState ==
  [records : Records, link : Link, disk : [records : Records, link : Link],
   playing : BOOLEAN, line : {"down", "open", "up"}, observers : 0 .. MaxObservers,
   cache : Records, out : Seq(WriteRecord), calls : Seq(Call),
   asked : BOOLEAN, doubtful : SUBSET Key, stale : SUBSET Key]

\* A loop over ks, in some order.
InTurn(Step(_, _), x, ks) ==
  LET order == SetToSeq(ks)
      after[n \in 0 .. Len(order)] ==
        IF n = 0 THEN x ELSE Step(after[n - 1], order[n])
  IN  after[Len(order)]

\* A process that starts with what was saved.
Started(disk) ==
  [records |-> disk.records, link |-> disk.link, disk |-> disk, playing |-> FALSE,
   line |-> "down", observers |-> 0, cache |-> NoRecords, out |-> <<>>,
   calls |-> <<>>, asked |-> TRUE, doubtful |-> Held(disk.records),
   stale |-> Held(disk.records)]

-----------------------------------------------------------------------------
(* Core Data.                                                              *)

\* The podcast has one listening record: another takes the podcast from it.
Insert(x, k, t) == [x EXCEPT !.records[k] = t, !.link = k]

\* A record without its podcast cannot be saved, and nothing else with it.
Broken(x) == Held(x.records) \ {x.link}

Save(x) ==
  IF Broken(x) = {}
  THEN [x EXCEPT !.disk = [records |-> x.records, link |-> x.link]]
  ELSE x

RemoveFromCoreData(x, k) ==
  IF x.records[k] = Gone THEN x
  ELSE Save([x EXCEPT !.records[k] = Gone, !.link = IF @ = k THEN NoKey ELSE @])

\* The attributes of a known record are overwritten, its podcast is not.
UpdateObject(x, k, t) == [x EXCEPT !.records[k] = t]

UpdateCoreData(x, k, t) ==
  IF x.records[k] = Gone THEN Insert(x, k, t) ELSE UpdateObject(x, k, t)

-----------------------------------------------------------------------------
(* The database's client.                                                  *)

Applied(records, w) == [records EXCEPT ![w.key] = w.value]

\* The server's records with the writes that it has not acknowledged: of those
\* about a record the last one counts.
Overlay(records, out) ==
  [k \in Key |-> LET about == {i \in DOMAIN out : out[i].key = k}
                 IN  IF about = {} THEN records[k] ELSE out[Max(about)].value]

\* Each of n observers is told of each of the keys.
CallsFor(n, name, keys, records) ==
  LET order == SetToSeq(keys)
      call(k) == [name |-> name, key |-> k, value |-> records[k]]
  IN  [i \in 1 .. n * Len(order) |-> call(order[1 + (i - 1) \div n])]

\* What went, what came and what changed, in this order.
Raised(n, old, new) ==
  LET changed == {k \in Held(old) \cap Held(new) : old[k] # new[k]}
  IN  CallsFor(n, "didRemove", Held(old) \ Held(new), new)
      \o CallsFor(n, "didAdd", Held(new) \ Held(old), new)
      \o CallsFor(n, "didUpdate", changed, new)

Noticed(x, new) ==
  [x EXCEPT !.cache = new, !.calls = @ \o Raised(x.observers, x.cache, new)]

\* setValue and removeValue: observers hear of them at once, if there are any.
Write(x, k, value) ==
  LET w == [key |-> k, value |-> value]
      sent == [x EXCEPT !.out = Append(@, w)]
  IN  IF x.observers = 0 THEN [sent EXCEPT !.doubtful = @ \cup {k}]
      ELSE Noticed(sent, Applied(x.cache, w))

\* The server's records have changed.
Refreshed(x, records) ==
  IF x.line = "up" THEN Noticed(x, Overlay(records, x.out)) ELSE x

\* One more observer is registered and told of all that the client has by then.
Observed(x) ==
  LET seen == Overlay(x.cache, x.out)
  IN  [x EXCEPT !.observers = @ + 1, !.cache = seen,
                !.calls = @ \o CallsFor(1, "didAdd", Held(seen), seen)]

-----------------------------------------------------------------------------
(* The manager.                                                            *)

\* History: what the device has of k is what it last heard of k.
Current(x, k) == [x EXCEPT !.doubtful = @ \ {k}, !.stale = @ \ {k}]

\* Mutants of SaveProgress: only the local record is written; nothing is saved.
SaveProgressHere(x, t) == Save([x EXCEPT !.records[x.link] = t])
SaveProgressUnsaved(x, t) == Write([x EXCEPT !.records[x.link] = t], x.link, t)

\* The podcast has a record: it gets the position.
SaveProgress(x, t) ==
  Write(Save([x EXCEPT !.records[x.link] = t, !.stale = @ \ {x.link}]), x.link, t)

\* It has none: the record is made and saved, with the position 0.
MakeRecord(x, k) == Write(Save(Insert(x, k, 0)), k, 0)

\* removeFromFireBase is TRUE for the user and for removals heard of.
RemoveRecord(x, k) == Write(RemoveFromCoreData(x, k), k, Gone)

\* A known record keeps its values, even if others come with it.
DidAdd(x, k, t) ==
  IF x.records[k] = Gone THEN Save(Insert(x, k, t))
  ELSE Save([x EXCEPT !.stale = IF x.records[k] = t THEN @ ELSE @ \cup {k}])

\* Mutant of DidUpdate: the device that plays defends its own position.
DidUpdateDefends(x, k, t) ==
  IF x.playing /\ x.records[k] \notin {t, Gone} THEN Write(x, k, x.records[k])
  ELSE Save(UpdateCoreData(x, k, t))

\* What others report about the podcast being played is ignored.
DidUpdate(x, k, t) ==
  IF x.playing
  THEN [x EXCEPT !.stale = IF x.records[k] = t THEN @ \ {k} ELSE @ \cup {k}]
  ELSE Current(Save(UpdateCoreData(x, k, t)), k)

\* Mutant of DidRemove: while the podcast is played its record stays.
DidRemoveUnlessPlaying(x, k) == IF x.playing THEN x ELSE RemoveRecord(x, k)

\* The removal is sent again to the remote database.
DidRemove(x, k) == RemoveRecord(x, k)

\* The answer to the request made at start.  Records it lacks go, those it
\* brings are made, without being saved; known ones keep their values.
DidGet(x, all) ==
  LET new  == Held(all) \ Held(x.records)
      lost == Held(x.records) \ Held(all)
      whole == [k \in Key |-> IF k \in new THEN all[k] ELSE x.records[k]]
      with(l) == [x EXCEPT !.records = whole, !.link = l]
  IN  {InTurn(RemoveFromCoreData, with(l), lost) :
         l \in IF new = {} THEN {x.link} ELSE new}

\* History of an answer: what it left other than the observers were told.
Noted(x) ==
  [x EXCEPT !.doubtful = {k \in Key : (x.records[k] = Gone) # (x.cache[k] = Gone)},
            !.stale = {k \in Key : x.records[k] # x.cache[k]}]

Handled(x, call) ==
  LET rest == [x EXCEPT !.calls = Tail(@)]
  IN  CASE call.name = "didAdd" ->
             {DidAdd(Current(rest, call.key), call.key, call.value)}
        [] call.name = "didUpdate" -> {DidUpdate(rest, call.key, call.value)}
        [] call.name = "didRemove" -> {DidRemove(Current(rest, call.key), call.key)}
        [] call.name = "connected" -> {Observed(rest)}
        [] call.name = "didGet" -> {Noted(y) : y \in DidGet(rest, call.all)}

-----------------------------------------------------------------------------
(* The actions.                                                            *)

Does(d, x) == dev' = [dev EXCEPT ![d] = x]

\* Bound: times a process connects.
MayConnect(x) ==
  x.observers + Cardinality({i \in DOMAIN x.calls : x.calls[i].name = "connected"})
    < MaxObservers

MayAct(d) == Len(dev[d].out) < MaxPending /\ Len(dev[d].calls) < MaxPending

\* The podcast becomes the current track, or another one does.
Play(d) ==
  /\ ticks < MaxTicks
  /\ Does(d, [dev[d] EXCEPT !.playing = ~ @])
  /\ UNCHANGED <<server, made, ticks, restarts>>

\* The player is at t: it was started, has gone on, or was moved there.
Tick(d, t) ==
  /\ dev[d].playing /\ dev[d].link # NoKey
  /\ MayAct(d) /\ ticks < MaxTicks
  /\ Does(d, SaveProgress(dev[d], t))
  /\ ticks' = ticks + 1
  /\ UNCHANGED <<server, made, restarts>>

\* Mutant of FirstTick: the podcast's record is not looked for.
FirstTickAnyway(d) ==
  /\ dev[d].playing /\ MayAct(d) /\ ticks < MaxTicks /\ made < MaxRecords
  /\ Does(d, MakeRecord(dev[d], made + 1))
  /\ made' = made + 1 /\ ticks' = ticks + 1
  /\ UNCHANGED <<server, restarts>>

FirstTick(d) ==
  /\ dev[d].playing /\ dev[d].link = NoKey
  /\ MayAct(d) /\ ticks < MaxTicks /\ made < MaxRecords
  /\ Does(d, MakeRecord(dev[d], made + 1))
  /\ made' = made + 1 /\ ticks' = ticks + 1
  /\ UNCHANGED <<server, restarts>>

\* The long press on the podcast's row in the list.
RemoveTapped(d) ==
  /\ MayAct(d) /\ dev[d].link # NoKey
  /\ Does(d, RemoveRecord(dev[d], dev[d].link))
  /\ UNCHANGED <<server, made, ticks, restarts>>

RemoveAll(d) ==
  /\ MayAct(d) /\ Held(dev[d].records) # {}
  /\ Does(d, InTurn(RemoveRecord, dev[d], Held(dev[d].records)))
  /\ UNCHANGED <<server, made, ticks, restarts>>

\* The main thread runs the next callback.
RunCall(d) ==
  /\ dev[d].calls # <<>>
  /\ \E x \in Handled(dev[d], Head(dev[d].calls)) : Does(d, x)
  /\ UNCHANGED <<server, made, ticks, restarts>>

\* The server applies a write, acknowledges it and tells the devices.
ServerApplies(d) ==
  LET records == Applied(server, Head(dev[d].out))
      sent == [dev EXCEPT ![d].out = Tail(@)]
  IN  /\ dev[d].line # "down" /\ dev[d].out # <<>>
      /\ server' = records
      /\ dev' = [e \in Device |-> Refreshed(sent[e], records)]
      /\ UNCHANGED <<made, ticks, restarts>>

\* ".info/connected" becomes true, to which the app answers with one more observer.
Connect(d) ==
  /\ dev[d].line = "down" /\ MayConnect(dev[d])
  /\ Does(d, [dev[d] EXCEPT !.line = "open",
                            !.calls = Append(@, [name |-> "connected"])])
  /\ UNCHANGED <<server, made, ticks, restarts>>

\* The server's data arrive over the new connection.
Hears(d) ==
  /\ dev[d].line = "open" /\ dev[d].observers > 0
  /\ Does(d, Refreshed([dev[d] EXCEPT !.line = "up"], server))
  /\ UNCHANGED <<server, made, ticks, restarts>>

Disconnect(d) ==
  /\ dev[d].line # "down" /\ MayConnect(dev[d])
  /\ Does(d, [dev[d] EXCEPT !.line = "down"])
  /\ UNCHANGED <<server, made, ticks, restarts>>

\* The request was not sent in time or failed, and an error is printed; or the
\* connection it was sent over is gone, for unlike a write it is not sent again.
RequestFails(d) ==
  /\ Answers /\ dev[d].asked
  /\ Does(d, [dev[d] EXCEPT !.asked = FALSE])
  /\ UNCHANGED <<server, made, ticks, restarts>>

\* The answer is the server's data; observers that are registered by then hear
\* of them first.
Answer(d) ==
  LET x == IF dev[d].observers = 0 THEN dev[d]
           ELSE Noticed(dev[d], Overlay(server, dev[d].out))
  IN  /\ Answers /\ dev[d].asked /\ dev[d].line # "down"
      /\ Does(d, [x EXCEPT !.asked = FALSE,
                           !.calls = Append(@, [name |-> "didGet", all |-> server])])
      /\ UNCHANGED <<server, made, ticks, restarts>>

Restart(d) ==
  /\ restarts < MaxRestarts
  /\ restarts' = restarts + 1
  /\ Does(d, Started(dev[d].disk))
  /\ UNCHANGED <<server, made, ticks>>

Init ==
  /\ instance \in Instances
  /\ server = NoRecords /\ made = 0 /\ ticks = 0 /\ restarts = 0
  /\ dev = [d \in Device |-> Started([records |-> NoRecords, link |-> NoKey])]

Next ==
  /\ UNCHANGED instance
  /\ \E d \in Device :
    \/ Play(d) \/ FirstTick(d) \/ \E t \in Time : Tick(d, t)
    \/ RemoveTapped(d) \/ RemoveAll(d) \/ RunCall(d) \/ ServerApplies(d)
    \/ Connect(d) \/ Hears(d) \/ Disconnect(d)
    \/ RequestFails(d) \/ Answer(d) \/ Restart(d)

\* The main thread runs what was dispatched to it, and the server answers.
Spec ==
  Init /\ [][Next]_vars
  /\ \A d \in Device :
       /\ WF_vars(RunCall(d) /\ UNCHANGED instance)
       /\ WF_vars(ServerApplies(d) /\ UNCHANGED instance)

-----------------------------------------------------------------------------
(* Properties.                                                             *)

\* The variables have the declared types, no record is invented, and the podcast
\* is not linked to a record that is gone.
TypeOK ==
  /\ instance \in Instances
  /\ server \in Records /\ made \in 0 .. MaxRecords
  /\ dev \in [Device -> DeviceState]
  /\ \A d \in Device : Held(dev[d].records) \cup Held(server) \subseteq 1 .. made
  /\ \A d \in Device : dev[d].link \in Held(dev[d].records) \cup {NoKey}
  /\ ticks \in 0 .. MaxTicks /\ restarts \in 0 .. MaxRestarts

IsAbout(call, k) ==
  \/ call.name = "didGet"
  \/ call.name \in {"didAdd", "didUpdate", "didRemove"} /\ call.key = k

\* Nothing is on its way to this device about k.
IsSettled(x, k) ==
  x.line = "up" /\ \A i \in DOMAIN x.calls : ~ IsAbout(x.calls[i], k)

\* A connected device to which nothing about a record is on its way has the
\* record exactly when the server has it, this device's own unsent writes
\* applied, although every device sends every removal it hears of again and a
\* tick may bring back a record that another device has just removed.
RecordsAgree ==
  \A d \in Device : \A k \in Key :
    IsSettled(dev[d], k) /\ k \notin dev[d].doubtful =>
      (dev[d].records[k] = Gone <=> Overlay(server, dev[d].out)[k] = Gone)

\* It has the server's position too, unless the last one reported was not taken,
\* because the podcast was being played or the record was already known.
PositionsAgree ==
  \A d \in Device : \A k \in Key :
    IsSettled(dev[d], k) /\ k \notin dev[d].doubtful \cup dev[d].stale =>
      dev[d].records[k] = Overlay(server, dev[d].out)[k]

\* The devices agree on which records there are and on their positions.
DevicesAgree == TypeOK /\ RecordsAgree /\ PositionsAgree

\* The position a restart brings back is the one the device had, as long as no
\* record has lost its podcast.
PositionsAreSaved ==
  \A d \in Device : Broken(dev[d]) = {} =>
    \A k \in Held(dev[d].records) \cap Held(dev[d].disk.records) :
      dev[d].records[k] = dev[d].disk.records[k]

\* A record loses its podcast, after which nothing can be saved any more, only
\* to one made on another device, which comes as a callback or as the answer.
OnlyForeignRecordsTakeThePodcast ==
  [][\A d \in Device :
       Broken(dev'[d]) \ Broken(dev[d]) # {} =>
         dev[d].calls # <<>> /\ dev'[d].calls # dev[d].calls /\ made' = made]_vars

\* Devices that play the same podcast, and devices that repeat each other's
\* removals, do not answer each other for ever.
EchoesDieOut ==
  <>[](\A d \in Device : dev[d].calls = <<>> /\ (dev[d].line # "down" => dev[d].out = <<>>))

=============================================================================
