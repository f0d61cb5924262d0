----------------------------- MODULE RecordSync -----------------------------
(***************************************************************************)
(* Favourites and liked moments on several devices of one user             *)
(* (Services/FavouriteManager.swift, LikeManager.swift) and the realtime   *)
(* database between them (FirebaseDataBase.swift).                         *)
(*                                                                         *)
(* A record has a fresh id, its key in the remote database.  A manager     *)
(* changes Core Data and writes to the remote database at once; what other *)
(* devices write reaches it as callbacks on the main thread, its own       *)
(* writes come back to it as callbacks too.  At start it asks for all      *)
(* records once; the answer replaces the favourites.                       *)
(*                                                                         *)
(* The database's client (Pods/FirebaseDatabase) queues writes, shows its  *)
(* observers the server's data with these writes applied, sends again what *)
(* was not acknowledged when it reconnects, and keeps nothing when the     *)
(* process ends.  The server behind it is external.                        *)
(*                                                                         *)
(* Each handler is an operator from the state of a device to its next      *)
(* state.  Bounds, one of Instances for each behaviour: MaxRecords records *)
(* are made, MaxObservers times a process connects, MaxRestarts restarts,  *)
(* MaxLostAcks acknowledgements are lost; the user does nothing while      *)
(* MaxPending writes or callbacks are pending.                             *)
(***************************************************************************)
EXTENDS Integers, Sequences, FiniteSets, SequencesExt

CONSTANTS
  Device, Podcast,
  Instances    \* whose records to look at, and the bounds

ASSUME RecordSyncAssumption ==
  Instances \subseteq [entity : {"FavouritePodcast", "LikedMoment"}, records : Nat,
                        observers : Nat, restarts : Nat, lostAcks : Nat, pending : Nat]

VARIABLES
  instance,  \* which of the two managers, and the bounds: it never changes
  server,    \* the records in the remote database
  made,      \* the ids made so far
  dev,       \* the devices
  dropped,   \* history: the records removed from it
  restarts, lostAcks

vars == <<instance, server, made, dev, dropped, restarts, lostAcks>>

-----------------------------------------------------------------------------
(* State.                                                                  *)

MaxRecords == instance.records
MaxObservers == instance.observers
MaxRestarts == instance.restarts
MaxLostAcks == instance.lostAcks
MaxPending == instance.pending

\* An id is unique; who made it, and for which podcast, goes with it.
Key == [author : Device, podcast : Podcast, number : 1 .. MaxRecords]
NoKey == [author |-> "nobody", podcast |-> "none", number |-> 0]

FreshKey(d, p) == [author |-> d, podcast |-> p, number |-> Cardinality(made) + 1]

IsFavourites == instance.entity = "FavouritePodcast"

\* A write on its way to the server, and a block on its way to the main thread.
WriteRecord == [op : {"add", "remove"}, key : Key]
Call == [name : {"didAdd", "didRemove", "didGet", "connected"}, keys : SUBSET Key]

\* keys and link are the view context: its records and, because a podcast has
\* at most one favourite, the one each podcast is linked to; disk is the last
\* saved context.  line is the connection, "open" before the server's data have
\* come over it; cache is what the client shows its observers.  asked: the
\* request for all records is under way.  doubtful is history: the records that
\* this process found on its disk, or wrote before it had an observer, or that an
\* answer made or left different from the cache, until something is heard of them.
DeviceState ==
  [keys : SUBSET Key, link : [Podcast -> Key \cup {NoKey}],
   disk : [keys : SUBSET Key, link : [Podcast -> Key \cup {NoKey}]],
   line : {"down", "open", "up"}, observers : 0 .. MaxObservers, cache : SUBSET Key,
   out : Seq(WriteRecord), calls : Seq(Call), asked : BOOLEAN, doubtful : SUBSET Key]

\* A loop over ks, in some order.
InTurn(Step(_, _), x, ks) ==
  LET order == SetToSeq(ks)
      after[n \in 0 .. Len(order)] ==
        IF n = 0 THEN x ELSE Step(after[n - 1], order[n])
  IN  after[Len(order)]

NoLinks == [p \in Podcast |-> NoKey]

\* A process that starts with what was saved: the managers' init.
Started(disk) ==
  [keys |-> disk.keys, link |-> disk.link, disk |-> disk, line |-> "down",
   observers |-> 0, cache |-> {}, out |-> <<>>, calls |-> <<>>, asked |-> TRUE,
   doubtful |-> disk.keys]

-----------------------------------------------------------------------------
(* Core Data.                                                              *)

\* The link from podcast to favourite is to-one: a second favourite of the
\* podcast takes it from the first, which is then without its podcast ...
Insert(x, k) ==
  [x EXCEPT !.keys = @ \cup {k},
            !.link = IF IsFavourites THEN [@ EXCEPT ![k.podcast] = k] ELSE @]

\* ... and cannot be saved, the podcast being mandatory.
Broken(x) == IF IsFavourites THEN {k \in x.keys : x.link[k.podcast] # k} ELSE {}

\* save: an error is printed, nothing at all is saved then.
Save(x) ==
  IF Broken(x) = {} THEN [x EXCEPT !.disk = [keys |-> x.keys, link |-> x.link]] ELSE x

RemoveFromCoreData(x, k) ==
  IF k \in x.keys
  THEN Save([x EXCEPT !.keys = @ \ {k},
                      !.link = [p \in Podcast |-> IF @[p] = k THEN NoKey ELSE @[p]]])
  ELSE x

-----------------------------------------------------------------------------
(* The database's client.                                                  *)

Applied(ks, w) == IF w.op = "add" THEN ks \cup {w.key} ELSE ks \ {w.key}

\* Of the writes about a record the last one counts.
IsLastWrite(out, i) == \A j \in DOMAIN out : j > i => out[j].key # out[i].key
LastWrites(out) == {out[i] : i \in {j \in DOMAIN out : IsLastWrite(out, j)}}

\* The server's records with the writes that it has not acknowledged.
Overlay(ks, out) ==
  LET added == {w \in LastWrites(out) : w.op = "add"}
  IN  (ks \ {w.key : w \in LastWrites(out)}) \cup {w.key : w \in added}

\* Each of n observers is told of each of the children.
CallsFor(n, name, ks) ==
  LET order == SetToSeq(ks)
  IN  [i \in 1 .. n * Len(order) |->
         [name |-> name, keys |-> {order[1 + (i - 1) \div n]}]]

\* What went, then what came.
Raised(n, old, new) ==
  CallsFor(n, "didRemove", old \ new) \o CallsFor(n, "didAdd", new \ old)

Noticed(x, new) ==
  [x EXCEPT !.cache = new, !.calls = @ \o Raised(x.observers, x.cache, new)]

\* setValue and removeValue: observers hear of them at once, if there are any.
Write(x, op, k) ==
  LET w == [op |-> op, key |-> k]
      sent == [x EXCEPT !.out = Append(@, w)]
  IN  IF x.observers = 0 THEN [sent EXCEPT !.doubtful = @ \cup {k}]
      ELSE Noticed(sent, Applied(x.cache, w))

\* The server's records have changed to ks.
Refreshed(x, ks) ==
  IF x.line = "up" THEN Noticed(x, Overlay(ks, x.out)) ELSE x

\* One more observer is registered and told of all that the client has by then.
Observed(x) ==
  LET seen == Overlay(x.cache, x.out)
  IN  [x EXCEPT !.observers = @ + 1, !.cache = seen,
                !.calls = @ \o CallsFor(1, "didAdd", seen)]

-----------------------------------------------------------------------------
(* The managers.                                                           *)

AddRecord(x, k) == Write(Save(Insert(x, k)), "add", k)

\* Mutant of RemoveRecord: the remote record is forgotten.
RemoveHereOnly(x, k) == RemoveFromCoreData(x, k)

RemoveRecord(x, k) == Write(RemoveFromCoreData(x, k), "remove", k)

\* Mutants of DidAdd: a podcast that has a favourite gets no other; the record is
\* made as if by the user.
DidAddOnePerPodcast(x, k) ==
  IF k \in x.keys \/ x.link[k.podcast] # NoKey THEN x ELSE Insert(x, k)
DidAddAsUser(x, k) == IF k \in x.keys THEN x ELSE AddRecord(x, k)

DidAdd(x, k) == IF k \in x.keys THEN x ELSE Insert(x, k)

DidRemove(x, k) == RemoveFromCoreData(x, k)

\* The links after inserting ks in some order.
LinksAfter(x, ks) ==
  {l \in [Podcast -> Key \cup {NoKey}] :
     \A p \in Podcast :
       LET new == {k \in ks : k.podcast = p}
       IN  IF new = {} \/ ~ IsFavourites THEN l[p] = x.link[p] ELSE l[p] \in new}

\* The answer to the request made at start.  No data: every record goes.
\* Data: the favourites become those of the answer, the new ones without
\* being saved, and nobody is told; the liked moments stay as they are.
Replaced(x, ks) == InTurn(RemoveFromCoreData, x, x.keys \ ks)

DidGet(x, ks) ==
  IF ks # {} /\ ~ IsFavourites THEN {x}
  ELSE {Replaced([x EXCEPT !.keys = @ \cup ks, !.link = l], ks) :
          l \in LinksAfter(x, ks \ x.keys)}

\* History of an answer that replaced the records.
Noted(x, ks) ==
  IF ks # {} /\ ~ IsFavourites THEN x
  ELSE [x EXCEPT !.doubtful = (x.keys \ x.cache) \cup (x.cache \ x.keys)]

Handled(x, call) ==
  LET rest  == [x EXCEPT !.calls = Tail(@)]
      heard == [rest EXCEPT !.doubtful = @ \ call.keys]
  IN  CASE call.name = "didAdd"    -> {DidAdd(heard, k) : k \in call.keys}
        [] call.name = "didRemove" -> {DidRemove(heard, k) : k \in call.keys}
        [] call.name = "connected" -> {Observed(rest)}
        [] call.name = "didGet"    -> {Noted(y, call.keys) : y \in DidGet(rest, call.keys)}

-----------------------------------------------------------------------------
(* The actions.                                                            *)

Does(d, x) == dev' = [dev EXCEPT ![d] = x]

\* Bound: times a process connects.
MayConnect(x) ==
  x.observers + Cardinality({i \in DOMAIN x.calls : x.calls[i].name = "connected"})
    < MaxObservers

MayTap(d) == Len(dev[d].out) < MaxPending /\ Len(dev[d].calls) < MaxPending

\* Mutant of AddTapped: a podcast that has a favourite is made one again.
AddTappedTwice(d, p) ==
  /\ MayTap(d) /\ Cardinality(made) < MaxRecords
  /\ made' = made \cup {FreshKey(d, p)}
  /\ Does(d, AddRecord(dev[d], FreshKey(d, p)))
  /\ UNCHANGED <<server, dropped, restarts, lostAcks>>

\* A podcast that has a favourite is not made one again; a moment always is.
AddTapped(d, p) ==
  /\ MayTap(d) /\ Cardinality(made) < MaxRecords
  /\ IsFavourites => dev[d].link[p] = NoKey
  /\ made' = made \cup {FreshKey(d, p)}
  /\ Does(d, AddRecord(dev[d], FreshKey(d, p)))
  /\ UNCHANGED <<server, dropped, restarts, lostAcks>>

\* The heart of a podcast finds the record through the podcast.
RemoveTapped(d, p) ==
  /\ MayTap(d) /\ IsFavourites /\ dev[d].link[p] # NoKey
  /\ Does(d, RemoveRecord(dev[d], dev[d].link[p]))
  /\ UNCHANGED <<server, made, dropped, restarts, lostAcks>>

\* Removing everything from the list screen.
RemoveAll(d) ==
  /\ MayTap(d) /\ dev[d].keys # {}
  /\ Does(d, InTurn(RemoveRecord, dev[d], dev[d].keys))
  /\ UNCHANGED <<server, made, dropped, restarts, lostAcks>>

\* Another service of the device saves the context they share; it makes a
\* difference to a later restart only.
OtherSave(d) ==
  /\ restarts < MaxRestarts
  /\ Does(d, Save(dev[d]))
  /\ UNCHANGED <<server, made, dropped, restarts, lostAcks>>

\* The main thread runs the next callback.
RunCall(d) ==
  /\ dev[d].calls # <<>>
  /\ \E x \in Handled(dev[d], Head(dev[d].calls)) : Does(d, x)
  /\ UNCHANGED <<server, made, dropped, restarts, lostAcks>>

\* The server applies a write and tells the devices; the acknowledgement may
\* be lost with the connection.
ServerApplies(d, acknowledged) ==
  LET ks == Applied(server, Head(dev[d].out))
  IN  /\ dev[d].line # "down" /\ dev[d].out # <<>>
      /\ acknowledged \/ (lostAcks < MaxLostAcks /\ MayConnect(dev[d]))
      /\ server' = ks
      /\ dev' = [e \in Device |->
           IF e # d THEN Refreshed(dev[e], ks)
           ELSE IF acknowledged THEN Refreshed([dev[d] EXCEPT !.out = Tail(@)], ks)
           ELSE [dev[d] EXCEPT !.line = "down"]]
      /\ dropped' = dropped \cup (server \ ks)
      /\ lostAcks' = IF acknowledged THEN lostAcks ELSE lostAcks + 1
      /\ UNCHANGED <<made, restarts>>

\* ".info/connected" becomes true, to which the app answers with one more observer.
Connect(d) ==
  /\ dev[d].line = "down" /\ MayConnect(dev[d])
  /\ Does(d, [dev[d] EXCEPT !.line = "open",
                            !.calls = Append(@, [name |-> "connected", keys |-> {}])])
  /\ UNCHANGED <<server, made, dropped, restarts, lostAcks>>

\* The server's data arrive over the new connection.
Hears(d) ==
  /\ dev[d].line = "open" /\ dev[d].observers > 0
  /\ Does(d, Refreshed([dev[d] EXCEPT !.line = "up"], server))
  /\ UNCHANGED <<server, made, dropped, restarts, lostAcks>>

Disconnect(d) ==
  /\ dev[d].line # "down" /\ MayConnect(dev[d])
  /\ Does(d, [dev[d] EXCEPT !.line = "down"])
  /\ UNCHANGED <<server, made, dropped, restarts, lostAcks>>

\* The request was not sent in time or failed, and an error is printed; or the
\* connection it was sent over is gone, for unlike a write it is not sent again.
RequestFails(d) ==
  /\ dev[d].asked
  /\ Does(d, [dev[d] EXCEPT !.asked = FALSE])
  /\ UNCHANGED <<server, made, dropped, restarts, lostAcks>>

\* The answer is the server's data; observers that are registered by then hear
\* of them first.
Answer(d) ==
  LET x == IF dev[d].observers = 0 THEN dev[d]
           ELSE Noticed(dev[d], Overlay(server, dev[d].out))
  IN  /\ dev[d].asked /\ dev[d].line # "down"
      /\ Does(d, [x EXCEPT !.asked = FALSE,
                           !.calls = Append(@, [name |-> "didGet", keys |-> server])])
      /\ UNCHANGED <<server, made, dropped, restarts, lostAcks>>

Restart(d) ==
  /\ restarts < MaxRestarts
  /\ restarts' = restarts + 1
  /\ Does(d, Started(dev[d].disk))
  /\ UNCHANGED <<server, made, dropped, lostAcks>>

Init ==
  /\ instance \in Instances
  /\ server = {} /\ made = {} /\ dropped = {}
  /\ dev = [d \in Device |-> Started([keys |-> {}, link |-> NoLinks])]
  /\ restarts = 0 /\ lostAcks = 0

Next ==
  /\ UNCHANGED instance
  /\ \E d \in Device :
    \/ \E p \in Podcast : AddTapped(d, p) \/ RemoveTapped(d, p)
    \/ RemoveAll(d) \/ OtherSave(d) \/ RunCall(d)
    \/ \E acknowledged \in BOOLEAN : ServerApplies(d, acknowledged)
    \/ Connect(d) \/ Hears(d) \/ Disconnect(d)
    \/ RequestFails(d) \/ Answer(d) \/ Restart(d)

\* The main thread runs what was dispatched to it.
Spec == Init /\ [][Next]_vars /\ \A d \in Device : WF_vars(RunCall(d))

-----------------------------------------------------------------------------
(* Properties.                                                             *)

\* The variables have the declared types, no record is invented, and no podcast
\* is linked to a record that is gone.
TypeOK ==
  /\ instance \in Instances
  /\ made \subseteq Key /\ server \subseteq made
  /\ dev \in [Device -> DeviceState]
  /\ \A d \in Device : dev[d].keys \cup dev[d].cache \cup dev[d].disk.keys \subseteq made
  /\ \A d \in Device : Range(dev[d].link) \subseteq dev[d].keys \cup {NoKey}
  /\ restarts \in 0 .. MaxRestarts /\ lostAcks \in 0 .. MaxLostAcks

\* Nothing is on its way to this device about k.
IsSettled(x, k) ==
  /\ x.line = "up"
  /\ \A i \in DOMAIN x.calls : x.calls[i].name # "didGet" /\ k \notin x.calls[i].keys

\* A connected device to which nothing about a record is on its way has the
\* record exactly when the server has it, this device's own unsent writes
\* applied -- whatever callbacks came twice, late or from its own writes.  The
\* exceptions are the records it found on its disk or wrote before it observed
\* anything, and those that an answer changed against its observers' word, until
\* the next callback about them.
RecordsAgree ==
  \A d \in Device : \A k \in made :
    IsSettled(dev[d], k) /\ k \notin dev[d].doubtful =>
      (k \in dev[d].keys <=> k \in Overlay(server, dev[d].out))

DevicesAgree == TypeOK /\ RecordsAgree

\* No callback, answer or restart of any device brings a removed record back to
\* the server: that takes a write sent again because its acknowledgement was lost.
RemovalIsFinal == lostAcks = 0 => server \cap dropped = {}

\* A favourite loses its podcast, after which nothing can be saved any more,
\* only to a record that comes back or comes from elsewhere, never to one the
\* user makes on this device.
OnlyReturnsTakeAPodcast ==
  [][\A d \in Device : \A k \in Broken(dev'[d]) \ Broken(dev[d]) :
       \E other \in dev'[d].keys \ dev[d].keys :
         other.podcast = k.podcast /\ other \in made]_vars

=============================================================================
