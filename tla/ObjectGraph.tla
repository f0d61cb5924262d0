---------------------------- MODULE ObjectGraph ----------------------------
(***************************************************************************)
(* The Core Data graph of a device (Services/DataStoreManager.swift and    *)
(* CoreData.xcdatamodel): records -- favourites, liked moments, listening  *)
(* progress -- that need a podcast, podcasts that live as long as a record *)
(* uses them, genres that live as long as a podcast has them.              *)
(*                                                                         *)
(* Nothing but removeFromCoreData and checkSubItem collects what is no     *)
(* longer used.  They run on the main thread and attempt a save after each *)
(* of their steps, so a removal is several actions here and the process    *)
(* may die between any two of them.                                        *)
(***************************************************************************)
EXTENDS FiniteSets

CONSTANTS
  Record, Podcast, Genre,
  Nothing,    \* no podcast, no genre, no removal
  Kind,       \* the entity of a record
  GenresOf    \* the genres a podcast comes with

ASSUME ObjectGraphAssumption ==
  /\ Kind \in [Record -> {"FavouritePodcast", "LikedMoment", "ListeningPodcast"}]
  /\ GenresOf \in [Podcast -> SUBSET Genre]
  /\ Nothing \notin Podcast \cup Genre \cup Record

VARIABLES
  records,    \* the records of the view context
  podcastOf,  \* their to-one link; the podcast's links are its inverse
  podcasts, genresOf, genres,
  disk,       \* the context as it was last saved
  removal     \* the record being removed and how far that has come

context == <<records, podcastOf, podcasts, genresOf, genres>>
graphVars == <<context, disk, removal>>

Idle == [record |-> Nothing, step |-> "idle", podcast |-> Nothing, left |-> {}, genre |-> Nothing]

Context ==
  [records |-> records, podcastOf |-> podcastOf, podcasts |-> podcasts,
   genresOf |-> genresOf, genres |-> genres]

-----------------------------------------------------------------------------
(* Operators.                                                              *)

\* The link of a podcast to its liked moments is to-many, the others to-one.
IsToOne(r) == Kind[r] # "LikedMoment"

Holders(p) == {r \in records : podcastOf[r] = p}

\* getFavourite and its likes: the record of r's kind that a podcast has.
HasOneLike(r, p) == \E s \in Holders(p) : Kind[s] = Kind[r]

\* A new holder of a to-one link takes it from the old one.
LinksWith(r, p) ==
  [s \in Record |->
     IF s = r THEN p
     ELSE IF podcastOf[s] = p /\ Kind[s] = Kind[r] /\ IsToOne(r) THEN Nothing
     ELSE podcastOf[s]]

\* Mutant of Save: what is valid or not is saved.
SaveAnything == disk' = Context'

\* Every record's podcast is mandatory: a context with a record that has none
\* is not saved at all; the error is printed.
IsValid == \A r \in records : podcastOf[r] # Nothing

Save == disk' = IF IsValid' THEN Context' ELSE disk

\* A record is inserted, with its podcast and that one's genres if they are
\* not there yet.
Insert(r, p) ==
  /\ records' = records \cup {r}
  /\ podcastOf' = LinksWith(r, p)
  /\ podcasts' = podcasts \cup {p}
  /\ genresOf' = IF p \in podcasts THEN genresOf
                 ELSE [genresOf EXCEPT ![p] = GenresOf[p]]
  /\ genres' = IF p \in podcasts THEN genres ELSE genres \cup GenresOf[p]

-----------------------------------------------------------------------------
(* The actions.                                                            *)

\* A favourite or progress is made for a podcast that has none, a liked moment
\* always; it is saved.
AddedHere(r, p) ==
  /\ removal = Idle /\ r \notin records
  /\ IsToOne(r) => ~ HasOneLike(r, p)
  /\ UNCHANGED removal
  /\ Insert(r, p) /\ Save

\* A record comes from the remote database, or as a part of an answer.  Only
\* listening progress that comes alone is saved.
AddedElsewhere(r, p) ==
  /\ removal = Idle /\ r \notin records
  /\ Insert(r, p)
  /\ \/ disk' = disk
     \/ Kind[r] = "ListeningPodcast" /\ Save
  /\ UNCHANGED removal

OtherSave ==
  /\ removal = Idle
  /\ UNCHANGED <<context, removal>>
  /\ Save

\* Mutant of RemoveUnlinks: the podcast goes whoever else holds it.
RemoveUnlinksAll(r) ==
  LET p == podcastOf[r]
  IN  /\ removal = Idle /\ r \in records
      /\ podcastOf' = [podcastOf EXCEPT ![r] = Nothing]
      /\ UNCHANGED <<records, podcasts, genresOf, genres>>
      /\ IF p = Nothing THEN UNCHANGED disk ELSE Save
      /\ removal' =
           IF p = Nothing THEN [Idle EXCEPT !.record = r, !.step = "record"]
           ELSE [record |-> r, step |-> "genres", podcast |-> p,
                 left |-> genresOf[p], genre |-> Nothing]

\* removeFromCoreData(r): the podcast, if there is one, loses its link to r.  Any
\* other record that holds it keeps it.
RemoveUnlinks(r) ==
  LET p == podcastOf[r]
  IN  /\ removal = Idle /\ r \in records
      /\ podcastOf' = [podcastOf EXCEPT ![r] = Nothing]
      /\ UNCHANGED <<records, podcasts, genresOf, genres>>
      /\ IF p = Nothing THEN UNCHANGED disk ELSE Save
      /\ removal' =
           IF p = Nothing \/ Holders(p) # {r}
           THEN [Idle EXCEPT !.record = r, !.step = "record"]
           ELSE [record |-> r, step |-> "genres", podcast |-> p,
                 left |-> genresOf[p], genre |-> Nothing]

\* checkSubItem of a genre of the podcast that goes: it is unlinked ...
UnlinkGenre(g) ==
  /\ removal.step = "genres" /\ removal.genre = Nothing /\ g \in removal.left
  /\ genresOf' = [genresOf EXCEPT ![removal.podcast] = @ \ {g}]
  /\ UNCHANGED <<records, podcastOf, podcasts, genres>>
  /\ Save
  /\ removal' = [removal EXCEPT !.left = @ \ {g}, !.genre = g]

\* Mutant of DeleteGenre: a genre that nobody has stays.
DeleteGenreNever ==
  /\ removal.step = "genres" /\ removal.genre # Nothing
  /\ removal' = [removal EXCEPT !.genre = Nothing]
  /\ UNCHANGED <<context, disk>>

\* ... and deleted unless another podcast has it.
DeleteGenre ==
  LET isUnused == \A p \in podcasts : removal.genre \notin genresOf[p]
  IN  /\ removal.step = "genres" /\ removal.genre # Nothing
      /\ genres' = IF isUnused THEN genres \ {removal.genre} ELSE genres
      /\ UNCHANGED <<records, podcastOf, podcasts, genresOf>>
      /\ IF isUnused THEN Save ELSE UNCHANGED disk
      /\ removal' = [removal EXCEPT !.genre = Nothing]

\* The podcast itself goes,
DeletePodcast ==
  /\ removal.step = "genres" /\ removal.genre = Nothing /\ removal.left = {}
  /\ podcasts' = podcasts \ {removal.podcast}
  /\ UNCHANGED <<records, podcastOf, genresOf, genres>>
  /\ Save
  /\ removal' = [Idle EXCEPT !.record = removal.record, !.step = "record"]

\* and at last the record.
DeleteRecord ==
  /\ removal.step = "record"
  /\ records' = records \ {removal.record}
  /\ UNCHANGED <<podcastOf, podcasts, genresOf, genres>>
  /\ Save
  /\ removal' = Idle

\* The process dies; the next one starts with what was saved.
Restart ==
  /\ records' = disk.records /\ podcastOf' = disk.podcastOf
  /\ podcasts' = disk.podcasts /\ genresOf' = disk.genresOf /\ genres' = disk.genres
  /\ removal' = Idle
  /\ UNCHANGED disk

GraphInit ==
  /\ records = {} /\ podcastOf = [r \in Record |-> Nothing]
  /\ podcasts = {} /\ genresOf = [p \in Podcast |-> {}] /\ genres = {}
  /\ disk = Context
  /\ removal = Idle

Removing ==
  \/ \E r \in Record : RemoveUnlinks(r)
  \/ \E g \in Genre : UnlinkGenre(g)
  \/ DeleteGenre \/ DeletePodcast \/ DeleteRecord

GraphNext ==
  \/ \E r \in Record, p \in Podcast : AddedHere(r, p) \/ AddedElsewhere(r, p)
  \/ OtherSave \/ Removing \/ Restart

GraphSpec == GraphInit /\ [][GraphNext]_graphVars

-----------------------------------------------------------------------------
(* Properties.                                                             *)

Graph ==
  [records : SUBSET Record, podcastOf : [Record -> Podcast \cup {Nothing}],
   podcasts : SUBSET Podcast, genresOf : [Podcast -> SUBSET Genre],
   genres : SUBSET Genre]

\* The variables have the declared types, and the record being removed is there
\* without a podcast.
GraphTypeOK ==
  /\ Context \in Graph /\ disk \in Graph
  /\ removal \in [record : Record \cup {Nothing}, step : {"idle", "genres", "record"},
                  podcast : Podcast \cup {Nothing}, left : SUBSET Genre,
                  genre : Genre \cup {Nothing}]
  /\ removal = Idle \/ (removal.record \in records /\ podcastOf[removal.record] = Nothing)

\* What a record or a podcast uses is there.
IsClosed(c) ==
  /\ \A r \in c.records : c.podcastOf[r] \in c.podcasts \cup {Nothing}
  /\ \A p \in c.podcasts : c.genresOf[p] \subseteq c.genres

\* What nobody uses is not there.
IsLean(c) ==
  /\ \A p \in c.podcasts : \E r \in c.records : c.podcastOf[r] = p
  /\ \A g \in c.genres : \E p \in c.podcasts : g \in c.genresOf[p]

\* No removal takes a podcast or a genre from a record or a podcast that still
\* uses it, in any state between its steps.
NothingInUseGoes == IsClosed(Context)

\* When no removal is under way, the context holds no podcast without a record
\* and no genre without a podcast.
NothingUnusedStays == removal = Idle => IsLean(Context)

\* Whenever the process dies, the store is one that it could have saved at
\* rest: each record has its podcast, all that is used is there and nothing else.
StoreIsWhole ==
  /\ IsClosed(disk) /\ IsLean(disk)
  /\ \A r \in disk.records : disk.podcastOf[r] # Nothing

=============================================================================
