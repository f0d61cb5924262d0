-------------------------- MODULE ViewContextProofs --------------------------
(***************************************************************************)
(* Proofs about what the main thread makes of the view context's records:  *)
(* the graph of podcasts and genres they hold (ObjectGraph), and the table *)
(* that lists them (ListTable).                                            *)
(*                                                                         *)
(* ObjectGraph, for any records, podcasts and genres.  While a podcast is  *)
(* collected, the context breaks the rules that the store keeps: the       *)
(* podcast has no record, and the genre just unlinked no podcast.          *)
(* GraphInv says that these are the only exceptions, and that the record   *)
(* being removed is then without podcast.  So no save succeeds before the  *)
(* removal is complete, which is why the store is whole whenever the       *)
(* process dies.                                                           *)
(*                                                                         *)
(* ListTable, for any instances and rows.  Loose says that no section is   *)
(* listed twice and no row is in two places, that all rows are of their    *)
(* section's kind, and that what is on show is of all that there is.  With *)
(* a table that shows what the view model has, the lists are Firm, and     *)
(* Tight if each row on show is in its own section.  The steps go from     *)
(* Tight to Loose: a reorder may leave the table out of step or a row in   *)
(* another section, and then nothing is followed.  ListInv adds that the   *)
(* rows are stored, and found by the search; ScopeOK, that the sections    *)
(* that are left out are those that the scope does.                        *)
(*                                                                         *)
(* Every update is a loop over one list that changes two others.  There is *)
(* one lemma on what a turn makes of the lists and one on the loop; the    *)
(* relations between two states of the lists (Less, More, Updated,         *)
(* Toggles, Rearranged, Scoped, ...) say what an update leaves.            *)
(***************************************************************************)
EXTENDS ObjectGraph, ListTable, ProofBasics, SequenceTheorems

-----------------------------------------------------------------------------
(* ObjectGraph.                                                            *)

RemovalOK ==
  /\ removal.step = "idle" <=> removal = Idle
  /\ removal.step = "genres" =>
       /\ removal.podcast \in podcasts
       /\ \A r \in records : podcastOf[r] # removal.podcast
       /\ removal.left = genresOf[removal.podcast]

LeanButForRemoval ==
  /\ \A p \in podcasts :
       \/ \E r \in records : podcastOf[r] = p
       \/ removal.step = "genres" /\ p = removal.podcast
  /\ \A g \in genres :
       \/ \E p \in podcasts : g \in genresOf[p]
       \/ removal.step = "genres" /\ g = removal.genre

GraphInv == GraphTypeOK /\ RemovalOK /\ NothingInUseGoes /\ LeanButForRemoval /\ StoreIsWhole

-----------------------------------------------------------------------------

\* What the context's rules mean, variable by variable.
LEMMA ContextTypes ==
  Context \in Graph <=>
    /\ records \in SUBSET Record /\ podcastOf \in [Record -> Podcast \cup {Nothing}]
    /\ podcasts \in SUBSET Podcast /\ genresOf \in [Podcast -> SUBSET Genre]
    /\ genres \in SUBSET Genre
BY DEF Context, Graph

LEMMA ContextClosed ==
  IsClosed(Context) <=>
    /\ \A r \in records : podcastOf[r] \in podcasts \cup {Nothing}
    /\ \A p \in podcasts : genresOf[p] \subseteq genres
BY DEF Context, IsClosed

LEMMA ContextLean ==
  IsLean(Context) <=>
    /\ \A p \in podcasts : \E r \in records : podcastOf[r] = p
    /\ \A g \in genres : \E p \in podcasts : g \in genresOf[p]
BY DEF Context, IsLean

\* The rules of the context make it whole whenever it is valid: then no removal
\* is under way, for the record being removed would be without podcast.
LEMMA ValidIsWhole ==
  ASSUME GraphTypeOK, RemovalOK, NothingInUseGoes, LeanButForRemoval, IsValid
  PROVE  /\ IsClosed(Context) /\ IsLean(Context)
         /\ \A r \in Context.records : Context.podcastOf[r] # Nothing
<1>1. removal = Idle
  BY DEF GraphTypeOK, IsValid
<1>2. removal.step # "genres"
  BY <1>1 DEF Idle
<1>3. IsLean(Context)
  BY <1>2, ContextLean DEF LeanButForRemoval
<1> QED
  BY <1>3 DEF NothingInUseGoes, IsValid, Context

\* A step that saves, or does not, keeps the store whole if it keeps the rest.
LEMMA SaveKeepsStore ==
  ASSUME StoreIsWhole, GraphTypeOK', RemovalOK', NothingInUseGoes', LeanButForRemoval',
         Save \/ disk' = disk
  PROVE  StoreIsWhole'
<1>1. CASE disk' = disk
  BY <1>1 DEF StoreIsWhole, IsClosed, IsLean
<1>2. CASE Save /\ IsValid'
  <2>1. disk' = Context'
    BY <1>2 DEF Save
  <2>2. /\ IsClosed(Context)' /\ IsLean(Context)'
        /\ (\A r \in Context.records : Context.podcastOf[r] # Nothing)'
    BY <1>2, ValidIsWhole, PTL
  <2> QED
    BY <2>1, <2>2 DEF StoreIsWhole, IsClosed, IsLean
<1>3. CASE Save /\ ~ IsValid'
  BY <1>1, <1>3 DEF Save
<1> QED
  BY <1>1, <1>2, <1>3

\* The typing of a step's result, given that of its parts.
LEMMA TypeFromParts ==
  ASSUME GraphTypeOK, Save \/ disk' = disk,
         records' \in SUBSET Record, podcastOf' \in [Record -> Podcast \cup {Nothing}],
         podcasts' \in SUBSET Podcast, genresOf' \in [Podcast -> SUBSET Genre],
         genres' \in SUBSET Genre,
         removal' \in [record : Record \cup {Nothing}, step : {"idle", "genres", "record"},
                       podcast : Podcast \cup {Nothing}, left : SUBSET Genre,
                       genre : Genre \cup {Nothing}],
         \/ removal' = Idle
         \/ removal'.record \in records' /\ podcastOf'[removal'.record] = Nothing
  PROVE  GraphTypeOK'
<1>1. Context' \in Graph
  BY DEF Context, Graph
<1>2. disk' \in Graph
  BY <1>1 DEF GraphTypeOK, Save
<1> QED
  BY <1>1, <1>2 DEF GraphTypeOK, Idle

-----------------------------------------------------------------------------

LEMMA GraphInvInit == ASSUME GraphInit PROVE GraphInv
<1>1. GraphTypeOK
  BY DEF GraphInit, GraphTypeOK, Context, Graph, Idle
<1>2. RemovalOK
  BY DEF GraphInit, RemovalOK, Idle
<1>3. NothingInUseGoes /\ LeanButForRemoval
  BY DEF GraphInit, NothingInUseGoes, IsClosed, LeanButForRemoval, Context
<1>4. StoreIsWhole
  BY DEF GraphInit, StoreIsWhole, IsClosed, IsLean, Context
<1> QED
  BY <1>1, <1>2, <1>3, <1>4 DEF GraphInv

\* Inserting a record, saved or not, by the user or from elsewhere.
LEMMA InsertPreserves ==
  ASSUME GraphInv, NEW r \in Record, NEW p \in Podcast,
         removal = Idle, r \notin records, Insert(r, p), Save \/ disk' = disk,
         UNCHANGED removal
  PROVE  GraphInv'
<1> USE DEF Insert
<1>1. /\ records \in SUBSET Record /\ podcastOf \in [Record -> Podcast \cup {Nothing}]
      /\ podcasts \in SUBSET Podcast /\ genresOf \in [Podcast -> SUBSET Genre]
      /\ genres \in SUBSET Genre
  BY ContextTypes DEF GraphInv, GraphTypeOK
<1>2. /\ \A s \in records : podcastOf[s] \in podcasts \cup {Nothing}
      /\ \A q \in podcasts : genresOf[q] \subseteq genres
  BY ContextClosed DEF GraphInv, NothingInUseGoes
<1>3. /\ \A q \in podcasts : \E s \in records : podcastOf[s] = q
      /\ \A g \in genres : \E q \in podcasts : g \in genresOf[q]
  BY DEF GraphInv, LeanButForRemoval, Idle
<1>4. GenresOf[p] \in SUBSET Genre /\ Nothing \notin Podcast
  BY ObjectGraphAssumption
<1>5. /\ podcastOf' \in [Record -> Podcast \cup {Nothing}]
      /\ podcastOf'[r] = p
      /\ \A s \in records : podcastOf'[s] = podcastOf[s]
                            \/ (podcastOf'[s] = Nothing /\ podcastOf[s] = p)
  BY <1>1 DEF LinksWith
<1>6. GraphTypeOK'
  <2>1. records' \in SUBSET Record /\ podcasts' \in SUBSET Podcast
    BY <1>1
  <2>2. genresOf' \in [Podcast -> SUBSET Genre] /\ genres' \in SUBSET Genre
    BY <1>1, <1>4
  <2>3. removal' = Idle
    OBVIOUS
  <2> QED
    BY <1>5, <2>1, <2>2, <2>3, TypeFromParts DEF GraphInv, Idle
<1>7. RemovalOK'
  BY DEF RemovalOK, Idle
<1>8. NothingInUseGoes'
  <2>1. \A s \in records' : podcastOf'[s] \in podcasts' \cup {Nothing}
    BY <1>2, <1>5
  <2>2. \A q \in podcasts' : genresOf'[q] \subseteq genres'
    BY <1>1, <1>2, <1>4
  <2> QED
    BY <2>1, <2>2 DEF NothingInUseGoes, IsClosed, Context
<1>9. LeanButForRemoval'
  <2>1. \A q \in podcasts' : \E s \in records' : podcastOf'[s] = q
    BY <1>3, <1>5
  <2>2. \A g \in genres' : \E q \in podcasts' : g \in genresOf'[q]
    BY <1>1, <1>3, <1>4
  <2> QED
    BY <2>1, <2>2 DEF LeanButForRemoval
<1>10. StoreIsWhole'
  BY <1>6, <1>7, <1>8, <1>9, SaveKeepsStore DEF GraphInv
<1> QED
  BY <1>6, <1>7, <1>8, <1>9, <1>10 DEF GraphInv

LEMMA OtherSavePreserves == ASSUME GraphInv, OtherSave PROVE GraphInv'
<1> USE DEF OtherSave
<1>1. GraphTypeOK' /\ RemovalOK' /\ NothingInUseGoes' /\ LeanButForRemoval'
  BY DEF GraphInv, GraphTypeOK, RemovalOK, NothingInUseGoes, LeanButForRemoval, IsClosed,
         Context, context, Save, Idle, Graph
<1> QED
  BY <1>1, SaveKeepsStore DEF GraphInv

-----------------------------------------------------------------------------
(* The steps of a removal.                                                 *)

\* What the invariant says, for use in the steps.
LEMMA GraphInvFacts ==
  ASSUME GraphInv
  PROVE  /\ records \in SUBSET Record /\ podcastOf \in [Record -> Podcast \cup {Nothing}]
         /\ podcasts \in SUBSET Podcast /\ genresOf \in [Podcast -> SUBSET Genre]
         /\ genres \in SUBSET Genre
         /\ removal \in [record : Record \cup {Nothing}, step : {"idle", "genres", "record"},
                         podcast : Podcast \cup {Nothing}, left : SUBSET Genre,
                         genre : Genre \cup {Nothing}]
         /\ \A s \in records : podcastOf[s] \in podcasts \cup {Nothing}
         /\ \A q \in podcasts : genresOf[q] \subseteq genres
BY ContextTypes, ContextClosed DEF GraphInv, GraphTypeOK, NothingInUseGoes

\* A removal that has begun and is not over.
LEMMA RemovingFacts ==
  ASSUME GraphInv, removal.step # "idle"
  PROVE  removal.record \in records /\ podcastOf[removal.record] = Nothing
BY DEF GraphInv, GraphTypeOK, RemovalOK

LEMMA RemoveUnlinksPreserves ==
  ASSUME GraphInv, NEW r \in Record, RemoveUnlinks(r)
  PROVE  GraphInv'
<1> DEFINE p == podcastOf[r]
<1> USE DEF RemoveUnlinks
<1>0. Nothing \notin Podcast
  BY ObjectGraphAssumption
<1>1. /\ removal = Idle /\ r \in records
      /\ UNCHANGED <<records, podcasts, genresOf, genres>>
      /\ Save \/ disk' = disk
  OBVIOUS
<1>2. /\ podcastOf' \in [Record -> Podcast \cup {Nothing}] /\ podcastOf'[r] = Nothing
      /\ \A s \in records : s # r => podcastOf'[s] = podcastOf[s]
  BY GraphInvFacts
<1>3. /\ \A q \in podcasts : \E s \in records : podcastOf[s] = q
      /\ \A g \in genres : \E q \in podcasts : g \in genresOf[q]
  BY <1>1 DEF GraphInv, LeanButForRemoval, Idle
<1>4. CASE p = Nothing \/ Holders(p) # {r}
  <2>1. removal' = [Idle EXCEPT !.record = r, !.step = "record"]
    BY <1>4
  <2>2. removal'.record = r /\ removal'.step = "record"
    BY <2>1 DEF Idle
  <2>3. GraphTypeOK'
    BY <1>1, <1>2, <2>1, <2>2, GraphInvFacts, TypeFromParts DEF GraphInv, Idle
  <2>4. RemovalOK'
    BY <2>2 DEF RemovalOK, Idle
  <2>5. NothingInUseGoes'
    BY <1>1, <1>2, GraphInvFacts DEF NothingInUseGoes, IsClosed, Context
  <2>6. \A q \in podcasts : \E s \in records : podcastOf'[s] = q
    <3>1. SUFFICES ASSUME NEW q \in podcasts PROVE \E s \in records : podcastOf'[s] = q
      OBVIOUS
    <3>2. PICK s \in records : podcastOf[s] = q
      BY <1>3
    <3>3. CASE s # r
      BY <1>2, <3>2, <3>3
    <3>4. CASE s = r
      <4>1. p = q /\ p # Nothing
        BY <1>0, <3>2, <3>4, GraphInvFacts
      <4>2. PICK t \in records : podcastOf[t] = p /\ t # r
        BY <1>1, <1>4, <4>1 DEF Holders
      <4> QED
        BY <1>2, <4>1, <4>2
    <3> QED
      BY <3>3, <3>4
  <2>7. LeanButForRemoval'
    BY <1>1, <1>3, <2>6 DEF LeanButForRemoval
  <2>8. StoreIsWhole'
    BY <1>1, <2>3, <2>4, <2>5, <2>7, SaveKeepsStore DEF GraphInv
  <2> QED
    BY <2>3, <2>4, <2>5, <2>7, <2>8 DEF GraphInv
<1>5. CASE p # Nothing /\ Holders(p) = {r}
  <2>1. removal' = [record |-> r, step |-> "genres", podcast |-> p,
                    left |-> genresOf[p], genre |-> Nothing]
    BY <1>5
  <2>2. p \in podcasts /\ p \in Podcast
    BY <1>1, <1>5, GraphInvFacts
  <2>3. GraphTypeOK'
    BY <1>1, <1>2, <2>1, <2>2, GraphInvFacts, TypeFromParts DEF GraphInv
  <2>4. \A s \in records : podcastOf'[s] # p
    BY <1>2, <1>5 DEF Holders
  <2>5. RemovalOK'
    BY <1>1, <2>1, <2>2, <2>4 DEF RemovalOK, Idle
  <2>6. NothingInUseGoes'
    BY <1>1, <1>2, GraphInvFacts DEF NothingInUseGoes, IsClosed, Context
  <2>7. \A q \in podcasts : q = p \/ \E s \in records : podcastOf'[s] = q
    BY <1>2, <1>3
  <2>8. LeanButForRemoval'
    <3> HIDE DEF RemoveUnlinks, p
    <3>1. removal'.step = "genres" /\ removal'.podcast = p
      BY <2>1
    <3>2. \A q \in podcasts' :
            \/ \E s \in records' : podcastOf'[s] = q
            \/ removal'.step = "genres" /\ q = removal'.podcast
      BY <1>1, <2>7, <3>1
    <3>3. \A g \in genres' : \E q \in podcasts' : g \in genresOf'[q]
      BY <1>1, <1>3
    <3> QED
      BY <3>2, <3>3 DEF LeanButForRemoval
  <2>9. StoreIsWhole'
    BY <1>1, <2>3, <2>5, <2>6, <2>8, SaveKeepsStore DEF GraphInv
  <2> QED
    BY <2>3, <2>5, <2>6, <2>8, <2>9 DEF GraphInv
<1> QED
  BY <1>4, <1>5

LEMMA UnlinkGenrePreserves ==
  ASSUME GraphInv, NEW g \in Genre, UnlinkGenre(g)
  PROVE  GraphInv'
<1> DEFINE p == removal.podcast
<1> USE DEF UnlinkGenre
<1>1. /\ UNCHANGED <<records, podcastOf, podcasts, genres>> /\ Save
      /\ removal.step = "genres" /\ removal.genre = Nothing
      /\ removal' = [removal EXCEPT !.left = @ \ {g}, !.genre = g]
  OBVIOUS
<1>2. /\ p \in podcasts /\ p \in Podcast /\ removal.left = genresOf[p]
      /\ \A s \in records : podcastOf[s] # p
  BY <1>1, GraphInvFacts DEF GraphInv, RemovalOK
<1>3. /\ genresOf' \in [Podcast -> SUBSET Genre] /\ genresOf'[p] = genresOf[p] \ {g}
      /\ \A q \in podcasts : q # p => genresOf'[q] = genresOf[q]
  BY <1>2, GraphInvFacts
<1>4. /\ removal'.step = "genres" /\ removal'.podcast = p /\ removal'.genre = g
      /\ removal'.left = genresOf'[p] /\ removal'.record = removal.record
  BY <1>1, <1>2, <1>3, GraphInvFacts
<1>5. GraphTypeOK'
  <2>1. removal' \in [record : Record \cup {Nothing}, step : {"idle", "genres", "record"},
                      podcast : Podcast \cup {Nothing}, left : SUBSET Genre,
                      genre : Genre \cup {Nothing}]
    <3>1. removal.left \ {g} \in SUBSET Genre /\ g \in Genre \cup {Nothing}
      BY GraphInvFacts
    <3> HIDE DEF UnlinkGenre
    <3> QED
      BY <1>1, <3>1, GraphInvFacts
  <2>2. removal'.record \in records' /\ podcastOf'[removal'.record] = Nothing
    BY <1>1, <1>4, RemovingFacts
  <2> QED
    BY <1>1, <1>3, <2>1, <2>2, GraphInvFacts, TypeFromParts DEF GraphInv
<1>6. RemovalOK'
  <2>1. removal'.step # "idle" /\ removal' # Idle
    BY <1>4 DEF Idle
  <2>2. \A s \in records' : podcastOf'[s] # removal'.podcast
    BY <1>1, <1>2, <1>4
  <2>3. removal'.podcast \in podcasts' /\ removal'.left = genresOf'[removal'.podcast]
    BY <1>1, <1>2, <1>4
  <2> QED
    BY <2>1, <2>2, <2>3 DEF RemovalOK
<1>7. NothingInUseGoes'
  BY <1>1, <1>3, GraphInvFacts DEF NothingInUseGoes, IsClosed, Context
<1>8. LeanButForRemoval'
  <2>1. \A q \in podcasts : q = p \/ \E s \in records : podcastOf'[s] = q
    BY <1>1 DEF GraphInv, LeanButForRemoval
  <2>2. \A h \in genres : h = g \/ \E q \in podcasts : h \in genresOf'[q]
    <3>1. \A h \in genres : h # Nothing
      BY GraphInvFacts, ObjectGraphAssumption
    <3>2. \A h \in genres : \E q \in podcasts : h \in genresOf[q]
      BY <1>1, <3>1 DEF GraphInv, LeanButForRemoval
    <3> QED
      BY <1>3, <3>2
  <2> QED
    BY <1>1, <1>4, <2>1, <2>2 DEF LeanButForRemoval
<1>9. StoreIsWhole'
  BY <1>1, <1>5, <1>6, <1>7, <1>8, SaveKeepsStore DEF GraphInv
<1> QED
  BY <1>5, <1>6, <1>7, <1>8, <1>9 DEF GraphInv

LEMMA DeleteGenrePreserves ==
  ASSUME GraphInv, DeleteGenre
  PROVE  GraphInv'
<1> DEFINE g == removal.genre
<1>1. /\ UNCHANGED <<records, podcastOf, podcasts, genresOf>>
      /\ Save \/ disk' = disk
      /\ removal.step = "genres" /\ g # Nothing
      /\ removal' = [removal EXCEPT !.genre = Nothing]
      /\ \/ genres' = genres /\ \E q \in podcasts : g \in genresOf[q]
         \/ genres' = genres \ {g} /\ \A q \in podcasts : g \notin genresOf[q]
  BY DEF DeleteGenre
<1>2. /\ removal'.step = "genres" /\ removal'.podcast = removal.podcast
      /\ removal'.left = removal.left /\ removal'.record = removal.record
      /\ removal' \in [record : Record \cup {Nothing}, step : {"idle", "genres", "record"},
                       podcast : Podcast \cup {Nothing}, left : SUBSET Genre,
                       genre : Genre \cup {Nothing}]
  BY <1>1, GraphInvFacts
<1>3. GraphTypeOK'
  <2>1. removal'.record \in records' /\ podcastOf'[removal'.record] = Nothing
    BY <1>1, <1>2, RemovingFacts
  <2> QED
    BY <1>1, <1>2, <2>1, GraphInvFacts, TypeFromParts DEF GraphInv
<1>4. RemovalOK'
  <2>1. removal'.step # "idle" /\ removal' # Idle
    BY <1>2 DEF Idle
  <2> QED
    BY <1>1, <1>2, <2>1 DEF GraphInv, RemovalOK
<1>5. NothingInUseGoes'
  <2>1. \A q \in podcasts : genresOf[q] \subseteq genres'
    BY <1>1, GraphInvFacts
  <2> QED
    BY <1>1, <2>1, GraphInvFacts DEF NothingInUseGoes, IsClosed, Context
<1>6. LeanButForRemoval'
  <2>1. \A q \in podcasts : \/ \E s \in records : podcastOf[s] = q
                            \/ q = removal.podcast
    BY DEF GraphInv, LeanButForRemoval
  <2>2. \A h \in genres' : \E q \in podcasts : h \in genresOf[q]
    BY <1>1 DEF GraphInv, LeanButForRemoval
  <2> QED
    BY <1>1, <1>2, <2>1, <2>2 DEF LeanButForRemoval
<1>7. StoreIsWhole'
  BY <1>1, <1>3, <1>4, <1>5, <1>6, SaveKeepsStore DEF GraphInv
<1> QED
  BY <1>3, <1>4, <1>5, <1>6, <1>7 DEF GraphInv

LEMMA DeletePodcastPreserves ==
  ASSUME GraphInv, DeletePodcast
  PROVE  GraphInv'
<1> DEFINE p == removal.podcast
<1>1. /\ UNCHANGED <<records, podcastOf, genresOf, genres>>
      /\ podcasts' = podcasts \ {p} /\ Save
      /\ removal.step = "genres" /\ removal.genre = Nothing /\ removal.left = {}
      /\ removal' = [Idle EXCEPT !.record = removal.record, !.step = "record"]
  BY DEF DeletePodcast
<1>2. /\ removal'.step = "record" /\ removal'.record = removal.record
      /\ removal' \in [record : Record \cup {Nothing}, step : {"idle", "genres", "record"},
                       podcast : Podcast \cup {Nothing}, left : SUBSET Genre,
                       genre : Genre \cup {Nothing}]
  BY <1>1, GraphInvFacts DEF Idle
<1>3. genresOf[p] = {} /\ \A s \in records : podcastOf[s] # p
  BY <1>1 DEF GraphInv, RemovalOK
<1>4. GraphTypeOK'
  <2>1. removal'.record \in records' /\ podcastOf'[removal'.record] = Nothing
    BY <1>1, <1>2, RemovingFacts
  <2> QED
    BY <1>1, <1>2, <2>1, GraphInvFacts, TypeFromParts DEF GraphInv
<1>5. RemovalOK'
  BY <1>2 DEF RemovalOK, Idle
<1>6. NothingInUseGoes'
  BY <1>1, <1>3, GraphInvFacts DEF NothingInUseGoes, IsClosed, Context
<1>7. LeanButForRemoval'
  <2>1. \A q \in podcasts' : \E s \in records : podcastOf[s] = q
    BY <1>1 DEF GraphInv, LeanButForRemoval
  <2>2. \A h \in genres : \E q \in podcasts' : h \in genresOf[q]
    <3>1. \A h \in genres : h # Nothing
      BY GraphInvFacts, ObjectGraphAssumption
    <3> QED
      BY <1>1, <1>3, <3>1 DEF GraphInv, LeanButForRemoval
  <2> QED
    BY <1>1, <2>1, <2>2 DEF LeanButForRemoval
<1>8. StoreIsWhole'
  BY <1>1, <1>4, <1>5, <1>6, <1>7, SaveKeepsStore DEF GraphInv
<1> QED
  BY <1>4, <1>5, <1>6, <1>7, <1>8 DEF GraphInv

LEMMA DeleteRecordPreserves ==
  ASSUME GraphInv, DeleteRecord
  PROVE  GraphInv'
<1> DEFINE r == removal.record
<1>1. /\ UNCHANGED <<podcastOf, podcasts, genresOf, genres>>
      /\ records' = records \ {r} /\ Save
      /\ removal.step = "record" /\ removal' = Idle
  BY DEF DeleteRecord
<1>2. podcastOf[r] = Nothing /\ r \in records
  BY <1>1, RemovingFacts
<1>3. GraphTypeOK'
  BY <1>1, GraphInvFacts, TypeFromParts DEF GraphInv, Idle
<1>4. RemovalOK'
  BY <1>1 DEF RemovalOK, Idle
<1>5. NothingInUseGoes'
  BY <1>1, GraphInvFacts DEF NothingInUseGoes, IsClosed, Context
<1>6. LeanButForRemoval'
  <2>1. \A q \in podcasts : \E s \in records' : podcastOf[s] = q
    <3>1. \A q \in podcasts : q # Nothing
      BY GraphInvFacts, ObjectGraphAssumption
    <3> QED
      BY <1>1, <1>2, <3>1 DEF GraphInv, LeanButForRemoval
  <2> QED
    BY <1>1, <2>1 DEF GraphInv, LeanButForRemoval
<1>7. StoreIsWhole'
  BY <1>1, <1>3, <1>4, <1>5, <1>6, SaveKeepsStore DEF GraphInv
<1> QED
  BY <1>3, <1>4, <1>5, <1>6, <1>7 DEF GraphInv

LEMMA RestartPreserves ==
  ASSUME GraphInv, Restart
  PROVE  GraphInv'
<1> USE DEF Restart
<1>1. GraphTypeOK'
  BY DEF GraphInv, GraphTypeOK, Context, Graph, Idle
<1>2. RemovalOK'
  BY DEF RemovalOK, Idle
<1>3. NothingInUseGoes' /\ LeanButForRemoval'
  BY DEF GraphInv, StoreIsWhole, NothingInUseGoes, LeanButForRemoval, IsClosed, IsLean, Context
<1>4. StoreIsWhole'
  BY DEF GraphInv, StoreIsWhole, IsClosed, IsLean
<1> QED
  BY <1>1, <1>2, <1>3, <1>4 DEF GraphInv

-----------------------------------------------------------------------------
(* The theorems.                                                           *)

\* Every reachable state satisfies the inductive invariant, whatever the
\* records, podcasts and genres are.
THEOREM GraphInvariant == GraphSpec => []GraphInv
<1>1. ASSUME GraphInit PROVE GraphInv
  BY <1>1, GraphInvInit
<1>2. ASSUME GraphInv, [GraphNext]_graphVars PROVE GraphInv'
  <2>1. CASE \E r \in Record, p \in Podcast : AddedHere(r, p) \/ AddedElsewhere(r, p)
    BY <1>2, <2>1, InsertPreserves DEF AddedHere, AddedElsewhere
  <2>2. CASE OtherSave
    BY <1>2, <2>2, OtherSavePreserves
  <2>3. CASE Removing
    BY <1>2, <2>3, RemoveUnlinksPreserves, UnlinkGenrePreserves, DeleteGenrePreserves,
       DeletePodcastPreserves, DeleteRecordPreserves DEF Removing
  <2>4. CASE Restart
    BY <1>2, <2>4, RestartPreserves
  <2>5. CASE UNCHANGED graphVars
    BY <1>2, <2>5 DEF graphVars, context, GraphInv, GraphTypeOK, RemovalOK, NothingInUseGoes,
       LeanButForRemoval, StoreIsWhole, IsClosed, IsLean, Context, Idle, Graph
  <2> QED
    BY <1>2, <2>1, <2>2, <2>3, <2>4, <2>5 DEF GraphNext
<1> QED
  BY <1>1, <1>2, PTL DEF GraphSpec

\* The variables have their types in every reachable state.
THEOREM GraphTypeCorrect == GraphSpec => []GraphTypeOK
BY GraphInvariant, PTL DEF GraphInv

\* No podcast and no genre is ever deleted while something uses it.
THEOREM CollectsOnlyUnused == GraphSpec => []NothingInUseGoes
BY GraphInvariant, PTL DEF GraphInv

\* At rest nothing is kept that nobody uses.
THEOREM CollectsAllUnused == GraphSpec => []NothingUnusedStays
<1>1. ASSUME GraphInv PROVE NothingUnusedStays
  BY <1>1, ContextLean DEF GraphInv, LeanButForRemoval, NothingUnusedStays, Idle
<1> QED
  BY <1>1, GraphInvariant, PTL

\* Whatever step of a removal the process dies in, the store is whole.
THEOREM CrashSafe == GraphSpec => []StoreIsWhole
BY GraphInvariant, PTL DEF GraphInv

-----------------------------------------------------------------------------
(* Loops: a fold over a sequence is turns, one after the other.            *)

\* A turn of each loop of the model; p is what the loop has beside.
Turn(loop, y, x, p) ==
  CASE loop = "remove rows" -> RemoveRow(y, x)
    [] loop = "append rows" -> AppendRow(y, x, p)
    [] loop = "remove lacking" -> RemoveLacking(y, x, p)
    [] loop = "append lacking" -> AppendLacking(y, x)
    [] loop = "insert rows" -> InsertRowAt(y, p, x)
    [] loop = "delete rows" -> DeleteRowAt(y, p, x)
    [] loop = "narrow" -> NarrowTo(y, x, p)
    [] loop = "widen" -> WidenTo(y, x, p)
    [] loop = "change" -> Change(y, x)

\* The recursive function that folds by turns has a value.
IsFold(f, loop, l, seq, p, n) ==
  f = [s \in SUBSET (1 .. n) |->
         IF s = {} THEN l ELSE Turn(loop, f[s \ {Max(s)}], seq[Max(s)], p)]

LEMMA TurnsExist ==
  ASSUME NEW loop, NEW l, NEW seq, NEW p, NEW n \in Nat
  PROVE  \E f : IsFold(f, loop, l, seq, p, n)
<1> DEFINE Is(f, m) == IsFold(f, loop, l, seq, p, m)
           H == {m \in Nat : \E f : Is(f, m)}
<1>1. 0 \in H
  <2> DEFINE f == [s \in SUBSET (1 .. 0) |-> l]
  <2>1. \A s \in SUBSET (1 .. 0) : s = {}
    OBVIOUS
  <2>2. Is(f, 0)
    BY <2>1 DEF IsFold
  <2> HIDE DEF Is, f
  <2> QED BY <2>2
<1>2. ASSUME NEW m \in H PROVE m + 1 \in H
  <2> HIDE DEF Is
  <2>0. PICK f : Is(f, m)
    OBVIOUS
  <2> USE DEF Is
  <2>1. \A s \in SUBSET (1 .. m) :
          f[s] = IF s = {} THEN l ELSE Turn(loop, f[s \ {Max(s)}], seq[Max(s)], p)
    BY <2>0 DEF IsFold
  <2> DEFINE g == [s \in SUBSET (1 .. m + 1) |->
                     IF m + 1 \in s THEN Turn(loop, f[s \ {m + 1}], seq[m + 1], p) ELSE f[s]]
  <2>2. ASSUME NEW s \in SUBSET (1 .. m + 1), m + 1 \in s
        PROVE  /\ Max(s) = m + 1 /\ s \ {m + 1} \in SUBSET (1 .. m)
               /\ s \ {m + 1} \in SUBSET (1 .. m + 1) /\ s # {}
    <3>1. Max(s) \in s /\ \A i \in s : i <= Max(s)
      <4>1. m + 1 \in Nat /\ s # {}
        BY <2>2
      <4> QED BY <4>1, MaxUpTo
    <3>2. Max(s) = m + 1
      <4>1. m \in Nat /\ Max(s) \in 1 .. m + 1 /\ m + 1 <= Max(s)
        BY <2>2, <3>1
      <4> QED BY <4>1
    <3> QED BY <2>2, <3>2
  <2>3. ASSUME NEW s \in SUBSET (1 .. m + 1), m + 1 \notin s, s # {}
        PROVE  /\ s \in SUBSET (1 .. m) /\ s \ {Max(s)} \in SUBSET (1 .. m)
               /\ s \ {Max(s)} \in SUBSET (1 .. m + 1) /\ m + 1 \notin s \ {Max(s)}
    <3>1. m \in Nat /\ \A i \in 1 .. m + 1 : i # m + 1 => i \in 1 .. m
      OBVIOUS
    <3>2. s \subseteq 1 .. m
      BY <2>3, <3>1
    <3> QED BY <2>3, <3>2
  <2>4. g = [s \in SUBSET (1 .. m + 1) |-> g[s]]
    OBVIOUS
  <2>5. \A s \in SUBSET (1 .. m + 1) :
          g[s] = IF m + 1 \in s THEN Turn(loop, f[s \ {m + 1}], seq[m + 1], p) ELSE f[s]
    OBVIOUS
  <2> HIDE DEF g
  <2>6. ASSUME NEW s \in SUBSET (1 .. m + 1)
        PROVE  g[s] = IF s = {} THEN l ELSE Turn(loop, g[s \ {Max(s)}], seq[Max(s)], p)
    <3>1. CASE m + 1 \in s
      <4>1. m + 1 \notin s \ {m + 1}
        OBVIOUS
      <4>2. g[s \ {Max(s)}] = f[s \ {m + 1}]
        BY <2>2, <2>5, <3>1, <4>1
      <4> QED BY <2>2, <2>5, <3>1, <4>2
    <3>2. CASE m + 1 \notin s /\ s # {}
      <4>1. g[s \ {Max(s)}] = f[s \ {Max(s)}] /\ g[s] = f[s]
        BY <2>3, <2>5, <3>2
      <4> QED BY <2>1, <2>3, <3>2, <4>1
    <3>3. CASE s = {}
      <4>1. {} \in SUBSET (1 .. m) /\ m + 1 \notin {}
        OBVIOUS
      <4> QED BY <2>1, <2>5, <3>3, <4>1
    <3> QED BY <3>1, <3>2, <3>3
  <2>7. Is(g, m + 1)
    BY <2>4, <2>6 DEF IsFold
  <2> HIDE DEF Is
  <2> QED BY <2>7
<1>3. H = Nat
  <2> HIDE DEF H
  <2> QED BY <1>1, <1>2, NatStep DEF H
<1> QED BY <1>3

\* What is left of each loop after i turns.
Turns(loop, l, seq, p, n, g) ==
  g[0] = l /\ \A i \in 1 .. n : g[i] = Turn(loop, g[i - 1], seq[i], p)

Folded(loop, l, seq, p, n) == (CHOOSE f : IsFold(f, loop, l, seq, p, n))[1 .. n]

LEMMA FoldTurns ==
  ASSUME NEW loop, NEW l, NEW seq, NEW p, NEW n \in Nat
  PROVE  \E g : /\ Turns(loop, l, seq, p, n, g)
                /\ g[n] = Folded(loop, l, seq, p, n)
<1> DEFINE f == CHOOSE f : IsFold(f, loop, l, seq, p, n)
           g == [i \in 0 .. n |-> f[1 .. i]]
<1>1. IsFold(f, loop, l, seq, p, n)
  BY TurnsExist
<1>5. f = [s \in SUBSET (1 .. n) |->
             IF s = {} THEN l ELSE Turn(loop, f[s \ {Max(s)}], seq[Max(s)], p)]
  BY <1>1 DEF IsFold
<1> HIDE DEF f
<1>2. g[0] = l
  <2>1. 1 .. 0 = {} /\ 0 \in 0 .. n /\ 1 .. 0 \in SUBSET (1 .. n)
    OBVIOUS
  <2> QED BY <1>5, <2>1
<1>3. ASSUME NEW i \in 1 .. n PROVE g[i] = Turn(loop, g[i - 1], seq[i], p)
  <2>1. 1 .. i \in SUBSET (1 .. n) /\ 1 .. i # {} /\ i \in Nat /\ i \in 1 .. i /\ i - 1 \in 0 .. n /\ i \in 0 .. n
    <3>2. i \in Nat /\ 1 <= i /\ i <= n
      OBVIOUS
    <3>3. \A j \in 1 .. i : j \in 1 .. n
      BY <3>2
    <3>4. i \in 1 .. i /\ i - 1 \in 0 .. n /\ i \in 0 .. n
      BY <3>2
    <3> QED BY <3>2, <3>3, <3>4
  <2>2. Max(1 .. i) = i
    <3>1. Max(1 .. i) \in 1 .. i /\ \A j \in 1 .. i : j <= Max(1 .. i)
      BY <2>1, MaxUpTo
    <3> QED BY <2>1, <3>1
  <2>3. (1 .. i) \ {i} = 1 .. i - 1
    BY <2>1
  <2>4. f[1 .. i] = Turn(loop, f[(1 .. i) \ {Max(1 .. i)}], seq[Max(1 .. i)], p)
    BY <1>5, <2>1
  <2> QED BY <2>1, <2>2, <2>3, <2>4
<1>4. g[n] = f[1 .. n]
  OBVIOUS
<1> QED BY <1>2, <1>3, <1>4 DEF Turns, Folded, f

LEMMA RemoveRowsTurns ==
  ASSUME NEW l, NEW T, NEW rows \in Seq(T)
  PROVE  \E g : /\ g[0] = l /\ \A i \in 1 .. Len(rows) : g[i] = RemoveRow(g[i - 1], rows[i])
                /\ RemoveRows(l, rows) = g[Len(rows)]
<1>1. Len(rows) \in Nat /\ DOMAIN rows = 1 .. Len(rows)
  OBVIOUS
<1>2. RemoveRows(l, rows) = Folded("remove rows", l, rows, l, Len(rows))
  BY <1>1 DEF RemoveRows, FoldLeft, MapThenFoldSet, Folded, IsFold, Turn
<1>3. PICK g : /\ Turns("remove rows", l, rows, l, Len(rows), g)
               /\ g[Len(rows)] = Folded("remove rows", l, rows, l, Len(rows))
  BY <1>1, FoldTurns
<1> QED BY <1>2, <1>3 DEF Turns, Turn

LEMMA AppendRowsTurns ==
  ASSUME NEW l, NEW T, NEW rows \in Seq(T), NEW sd
  PROVE  \E g : /\ g[0] = l /\ \A i \in 1 .. Len(rows) : g[i] = AppendRow(g[i - 1], rows[i], sd)
                /\ AppendRows(l, rows, sd) = g[Len(rows)]
<1>1. Len(rows) \in Nat /\ DOMAIN rows = 1 .. Len(rows)
  OBVIOUS
<1>2. AppendRows(l, rows, sd) = Folded("append rows", l, rows, sd, Len(rows))
  BY <1>1 DEF AppendRows, FoldLeft, MapThenFoldSet, Folded, IsFold, Turn
<1>3. PICK g : /\ Turns("append rows", l, rows, sd, Len(rows), g)
               /\ g[Len(rows)] = Folded("append rows", l, rows, sd, Len(rows))
  BY <1>1, FoldTurns
<1> QED BY <1>2, <1>3 DEF Turns, Turn

\* The two loops of update(by:), one over the old list and one over the new.
RemovedLacking(l, seq, new) == FoldLeft(LAMBDA m, sd : RemoveLacking(m, sd, new), l, seq)

LEMMA RemoveLackingTurns ==
  ASSUME NEW l, NEW T, NEW seq \in Seq(T), NEW new
  PROVE  \E g : /\ g[0] = l /\ \A i \in 1 .. Len(seq) : g[i] = RemoveLacking(g[i - 1], seq[i], new)
                /\ RemovedLacking(l, seq, new) = g[Len(seq)]
<1>1. Len(seq) \in Nat /\ DOMAIN seq = 1 .. Len(seq)
  OBVIOUS
<1>2. RemovedLacking(l, seq, new)
        = Folded("remove lacking", l, seq, new, Len(seq))
  BY <1>1 DEF RemovedLacking, FoldLeft, MapThenFoldSet, Folded, IsFold, Turn
<1>3. PICK g : /\ Turns("remove lacking", l, seq, new, Len(seq), g)
               /\ g[Len(seq)] = Folded("remove lacking", l, seq, new, Len(seq))
  BY <1>1, FoldTurns
<1> QED BY <1>2, <1>3 DEF Turns, Turn

AppendedLacking(l, seq) == FoldLeft(AppendLacking, l, seq)

LEMMA AppendLackingTurns ==
  ASSUME NEW l, NEW T, NEW seq \in Seq(T)
  PROVE  \E g : /\ g[0] = l /\ \A i \in 1 .. Len(seq) : g[i] = AppendLacking(g[i - 1], seq[i])
                /\ AppendedLacking(l, seq) = g[Len(seq)]
<1>1. Len(seq) \in Nat /\ DOMAIN seq = 1 .. Len(seq)
  OBVIOUS
<1>2. AppendedLacking(l, seq) = Folded("append lacking", l, seq, l, Len(seq))
  BY <1>1 DEF AppendedLacking, FoldLeft, MapThenFoldSet, Folded, IsFold, Turn
<1>3. PICK g : /\ Turns("append lacking", l, seq, l, Len(seq), g)
               /\ g[Len(seq)] = Folded("append lacking", l, seq, l, Len(seq))
  BY <1>1, FoldTurns
<1> QED BY <1>2, <1>3 DEF Turns, Turn

LEMMA InsertRowsAtTurns ==
  ASSUME NEW l, NEW T, NEW rows \in Seq(T), NEW p
  PROVE  \E g : /\ g[0] = l /\ \A i \in 1 .. Len(rows) : g[i] = InsertRowAt(g[i - 1], p, rows[i])
                /\ InsertRowsAt(l, p, rows) = g[Len(rows)]
<1>1. Len(rows) \in Nat /\ DOMAIN rows = 1 .. Len(rows)
  OBVIOUS
<1>2. InsertRowsAt(l, p, rows) = Folded("insert rows", l, rows, p, Len(rows))
  BY <1>1 DEF InsertRowsAt, FoldLeft, MapThenFoldSet, Folded, IsFold, Turn
<1>3. PICK g : /\ Turns("insert rows", l, rows, p, Len(rows), g)
               /\ g[Len(rows)] = Folded("insert rows", l, rows, p, Len(rows))
  BY <1>1, FoldTurns
<1> QED BY <1>2, <1>3 DEF Turns, Turn

AreDeletions(g, l, p, n) ==
  /\ g[0] = l /\ \A i \in 1 .. n : g[i] = DeleteRowAt(g[i - 1], p, (n - i) + 1)
  /\ DeleteRowsAt(l, p, n) = g[n]

LEMMA DeleteRowsAtTurns ==
  ASSUME NEW l, NEW n \in Nat, NEW p
  PROVE  \E g : AreDeletions(g, l, p, n)
<1> DEFINE seq == Reverse([k \in 1 .. n |-> k])
<1>1. seq \in [1 .. n -> Nat] /\ Len(seq) = n /\ DOMAIN seq = 1 .. n
      /\ \A i \in 1 .. n : seq[i] = (n - i) + 1
  BY DEF Reverse
<1>4. DeleteRowsAt(l, p, n) = FoldLeft(LAMBDA m, k : DeleteRowAt(m, p, k), l, seq)
  BY DEF DeleteRowsAt
<1> HIDE DEF seq
<1>2. FoldLeft(LAMBDA m, k : DeleteRowAt(m, p, k), l, seq) = Folded("delete rows", l, seq, p, n)
  BY <1>1 DEF FoldLeft, MapThenFoldSet, Folded, IsFold, Turn
<1>3. PICK g : Turns("delete rows", l, seq, p, n, g) /\ g[n] = Folded("delete rows", l, seq, p, n)
  BY <1>1, FoldTurns
<1> QED BY <1>1, <1>2, <1>3, <1>4 DEF Turns, Turn, AreDeletions

\* The two loops of changeSearchedSection.
Narrowed(l, seq, s) == FoldLeft(LAMBDA m, sd : NarrowTo(m, sd, s), l, seq)

LEMMA NarrowTurns ==
  ASSUME NEW l, NEW T, NEW seq \in Seq(T), NEW s
  PROVE  \E g : /\ g[0] = l /\ \A i \in 1 .. Len(seq) : g[i] = NarrowTo(g[i - 1], seq[i], s)
                /\ Narrowed(l, seq, s) = g[Len(seq)]
<1>1. Len(seq) \in Nat /\ DOMAIN seq = 1 .. Len(seq)
  OBVIOUS
<1>2. Narrowed(l, seq, s) = Folded("narrow", l, seq, s, Len(seq))
  BY <1>1 DEF Narrowed, FoldLeft, MapThenFoldSet, Folded, IsFold, Turn
<1>3. PICK g : /\ Turns("narrow", l, seq, s, Len(seq), g)
               /\ g[Len(seq)] = Folded("narrow", l, seq, s, Len(seq))
  BY <1>1, FoldTurns
<1> QED BY <1>2, <1>3 DEF Turns, Turn

Widened(l, seq, s) == FoldLeft(LAMBDA m, sd : WidenTo(m, sd, s), l, seq)

LEMMA WidenTurns ==
  ASSUME NEW l, NEW T, NEW seq \in Seq(T), NEW s
  PROVE  \E g : /\ g[0] = l /\ \A i \in 1 .. Len(seq) : g[i] = WidenTo(g[i - 1], seq[i], s)
                /\ Widened(l, seq, s) = g[Len(seq)]
<1>1. Len(seq) \in Nat /\ DOMAIN seq = 1 .. Len(seq)
  OBVIOUS
<1>2. Widened(l, seq, s) = Folded("widen", l, seq, s, Len(seq))
  BY <1>1 DEF Widened, FoldLeft, MapThenFoldSet, Folded, IsFold, Turn
<1>3. PICK g : /\ Turns("widen", l, seq, s, Len(seq), g)
               /\ g[Len(seq)] = Folded("widen", l, seq, s, Len(seq))
  BY <1>1, FoldTurns
<1> QED BY <1>2, <1>3 DEF Turns, Turn

Changed(l, seq) == FoldLeft(Change, l, seq)

LEMMA ChangeTurns ==
  ASSUME NEW l, NEW T, NEW seq \in Seq(T)
  PROVE  \E g : /\ g[0] = l /\ \A i \in 1 .. Len(seq) : g[i] = Change(g[i - 1], seq[i])
                /\ Changed(l, seq) = g[Len(seq)]
<1>1. Len(seq) \in Nat /\ DOMAIN seq = 1 .. Len(seq)
  OBVIOUS
<1>2. Changed(l, seq) = Folded("change", l, seq, l, Len(seq))
  BY <1>1 DEF Changed, FoldLeft, MapThenFoldSet, Folded, IsFold, Turn
<1>3. PICK g : /\ Turns("change", l, seq, l, Len(seq), g)
               /\ g[Len(seq)] = Folded("change", l, seq, l, Len(seq))
  BY <1>1, FoldTurns
<1> QED BY <1>2, <1>3 DEF Turns, Turn

-----------------------------------------------------------------------------
(* Sequences.                                                              *)

LEMMA RangeIs ==
  ASSUME NEW S, NEW s \in Seq(S)
  PROVE  /\ Range(s) = {s[j] : j \in 1 .. Len(s)} /\ Range(s) \subseteq S
         /\ DOMAIN s = 1 .. Len(s) /\ Len(s) \in Nat
BY DEF Range

LEMMA RemoveAtIs ==
  ASSUME NEW S, NEW s \in Seq(S), NEW i \in 1 .. Len(s)
  PROVE  /\ RemoveAt(s, i) \in Seq(S) /\ Len(RemoveAt(s, i)) = Len(s) - 1
         /\ \A j \in 1 .. Len(s) - 1 : RemoveAt(s, i)[j] = IF j < i THEN s[j] ELSE s[j + 1]
<1> DEFINE a == SubSeq(s, 1, i - 1)
           b == SubSeq(s, i + 1, Len(s))
<1>1. Len(s) \in Nat /\ i \in Nat /\ 1 <= i /\ i <= Len(s) /\ \A j \in 1 .. Len(s) : s[j] \in S
  OBVIOUS
<1>2. a \in Seq(S) /\ Len(a) = i - 1 /\ \A j \in 1 .. i - 1 : a[j] = s[j]
  <2>1. /\ SubSeq(s, 1, i - 1) \in Seq(S)
        /\ Len(SubSeq(s, 1, i - 1)) = IF 1 <= i - 1 THEN (i - 1) - 1 + 1 ELSE 0
        /\ \A j \in 1 .. (i - 1) - 1 + 1 : SubSeq(s, 1, i - 1)[j] = s[1 + j - 1]
    <3>1. 1 \in Int /\ i - 1 \in Int /\ \A j \in 1 .. i - 1 : s[j] \in S
      BY <1>1
    <3> QED BY <3>1, SubSeqProperties
  <2> QED BY <1>1, <2>1
<1>3. b \in Seq(S) /\ Len(b) = Len(s) - i /\ \A j \in 1 .. Len(s) - i : b[j] = s[j + i]
  <2>1. /\ SubSeq(s, i + 1, Len(s)) \in Seq(S)
        /\ Len(SubSeq(s, i + 1, Len(s))) = IF i + 1 <= Len(s) THEN Len(s) - (i + 1) + 1 ELSE 0
        /\ \A j \in 1 .. Len(s) - (i + 1) + 1 : SubSeq(s, i + 1, Len(s))[j] = s[(i + 1) + j - 1]
    <3>1. i + 1 \in Int /\ Len(s) \in Int /\ \A j \in i + 1 .. Len(s) : s[j] \in S
      BY <1>1
    <3> QED BY <3>1, SubSeqProperties
  <2> QED BY <1>1, <2>1
<1> HIDE DEF a, b
<1>4. /\ a \o b \in Seq(S) /\ Len(a \o b) = Len(a) + Len(b)
      /\ \A j \in 1 .. Len(a) + Len(b) : (a \o b)[j] = IF j <= Len(a) THEN a[j] ELSE b[j - Len(a)]
  BY <1>2, <1>3, ConcatProperties
<1>5. RemoveAt(s, i) = a \o b
  BY DEF RemoveAt, a, b
<1>6. ASSUME NEW j \in 1 .. Len(s) - 1 PROVE (a \o b)[j] = IF j < i THEN s[j] ELSE s[j + 1]
  <2>1. j \in 1 .. Len(a) + Len(b)
    BY <1>1, <1>2, <1>3
  <2>2. CASE j < i
    BY <1>1, <1>2, <1>4, <2>1, <2>2
  <2>3. CASE ~(j < i)
    <3>1. j - (i - 1) \in 1 .. Len(s) - i /\ (j - (i - 1)) + i = j + 1 /\ ~(j <= i - 1)
      BY <1>1, <2>3
    <3>2. (a \o b)[j] = b[j - Len(a)]
      BY <1>2, <1>4, <2>1, <3>1
    <3> QED BY <1>2, <1>3, <2>3, <3>1, <3>2
  <2> QED BY <2>2, <2>3
<1>7. Len(a) + Len(b) = Len(s) - 1
  BY <1>1, <1>2, <1>3
<1>8. \A j \in 1 .. Len(s) - 1 : RemoveAt(s, i)[j] = IF j < i THEN s[j] ELSE s[j + 1]
  BY <1>5, <1>6
<1> QED BY <1>4, <1>5, <1>7, <1>8

LEMMA InsertAtIs ==
  ASSUME NEW S, NEW s \in Seq(S), NEW e \in S, NEW i \in 1 .. Len(s) + 1
  PROVE  /\ InsertAt(s, i, e) \in Seq(S) /\ Len(InsertAt(s, i, e)) = Len(s) + 1
         /\ \A j \in 1 .. Len(s) + 1 :
              InsertAt(s, i, e)[j] = IF j < i THEN s[j] ELSE IF j = i THEN e ELSE s[j - 1]
<1> DEFINE a == SubSeq(s, 1, i - 1)
           m == a \o <<e>>
           b == SubSeq(s, i, Len(s))
<1>1. Len(s) \in Nat /\ i \in Nat /\ 1 <= i /\ i <= Len(s) + 1 /\ \A j \in 1 .. Len(s) : s[j] \in S
  OBVIOUS
<1>2. a \in Seq(S) /\ Len(a) = i - 1 /\ \A j \in 1 .. i - 1 : a[j] = s[j]
  <2>1. /\ SubSeq(s, 1, i - 1) \in Seq(S)
        /\ Len(SubSeq(s, 1, i - 1)) = IF 1 <= i - 1 THEN (i - 1) - 1 + 1 ELSE 0
        /\ \A j \in 1 .. (i - 1) - 1 + 1 : SubSeq(s, 1, i - 1)[j] = s[1 + j - 1]
    <3>1. 1 \in Int /\ i - 1 \in Int /\ \A j \in 1 .. i - 1 : s[j] \in S
      BY <1>1
    <3> QED BY <3>1, SubSeqProperties
  <2> QED BY <1>1, <2>1
<1>3. b \in Seq(S) /\ Len(b) = (Len(s) + 1) - i /\ \A j \in 1 .. (Len(s) + 1) - i : b[j] = s[(j + i) - 1]
  <2>1. /\ SubSeq(s, i, Len(s)) \in Seq(S)
        /\ Len(SubSeq(s, i, Len(s))) = IF i <= Len(s) THEN Len(s) - i + 1 ELSE 0
        /\ \A j \in 1 .. Len(s) - i + 1 : SubSeq(s, i, Len(s))[j] = s[i + j - 1]
    <3>1. i \in Int /\ Len(s) \in Int /\ \A j \in i .. Len(s) : s[j] \in S
      BY <1>1
    <3> QED BY <3>1, SubSeqProperties
  <2> QED BY <1>1, <2>1
<1> HIDE DEF a, b
<1>4. /\ m \in Seq(S) /\ Len(m) = i /\ m[i] = e /\ \A j \in 1 .. i - 1 : m[j] = s[j]
  <2>1. <<e>> \in Seq(S) /\ Len(<<e>>) = 1 /\ <<e>>[1] = e
    OBVIOUS
  <2>2. /\ a \o <<e>> \in Seq(S) /\ Len(a \o <<e>>) = Len(a) + Len(<<e>>)
        /\ \A j \in 1 .. Len(a) + Len(<<e>>) :
             (a \o <<e>>)[j] = IF j <= Len(a) THEN a[j] ELSE <<e>>[j - Len(a)]
    BY <1>2, <2>1, ConcatProperties
  <2>3. Len(a) + Len(<<e>>) = i /\ i - Len(a) = 1 /\ i \in 1 .. i /\ ~(i <= Len(a))
    BY <1>1, <1>2, <2>1
  <2>4. \A j \in 1 .. i - 1 : j \in 1 .. i /\ j <= Len(a)
    BY <1>1, <1>2
  <2>5. m[i] = e
    BY <2>1, <2>2, <2>3
  <2>6. \A j \in 1 .. i - 1 : m[j] = s[j]
    BY <1>2, <2>2, <2>3, <2>4
  <2> QED BY <2>2, <2>3, <2>5, <2>6
<1> HIDE DEF m
<1>5. /\ m \o b \in Seq(S) /\ Len(m \o b) = Len(m) + Len(b)
      /\ \A j \in 1 .. Len(m) + Len(b) : (m \o b)[j] = IF j <= Len(m) THEN m[j] ELSE b[j - Len(m)]
  BY <1>3, <1>4, ConcatProperties
<1>6. InsertAt(s, i, e) = m \o b
  BY DEF InsertAt, a, b, m
<1>7. ASSUME NEW j \in 1 .. Len(s) + 1
      PROVE (m \o b)[j] = IF j < i THEN s[j] ELSE IF j = i THEN e ELSE s[j - 1]
  <2>1. j \in 1 .. Len(m) + Len(b)
    BY <1>1, <1>3, <1>4
  <2>2. CASE j <= i
    BY <1>1, <1>4, <1>5, <2>1, <2>2
  <2>3. CASE ~(j <= i)
    <3>1. j - i \in 1 .. (Len(s) + 1) - i /\ ((j - i) + i) - 1 = j - 1
      BY <1>1, <2>3
    <3>2. (m \o b)[j] = b[j - i]
      BY <1>4, <1>5, <2>1, <2>3
    <3> QED BY <1>3, <2>3, <3>1, <3>2
  <2> QED BY <2>2, <2>3
<1> QED BY <1>1, <1>3, <1>4, <1>5, <1>6, <1>7

LEMMA TurnByTurn ==
  ASSUME NEW n \in Nat, NEW H, 0 \in H, \A i \in 1 .. n : i - 1 \in H => i \in H
  PROVE  \A i \in 0 .. n : i \in H
<1> DEFINE K == {m \in Nat : m <= n => m \in H}
<1>1. 0 \in K
  OBVIOUS
<1>2. ASSUME NEW m \in K PROVE m + 1 \in K
  <2>1. m + 1 <= n => m + 1 \in 1 .. n /\ (m + 1) - 1 = m /\ m <= n
    OBVIOUS
  <2> QED BY <2>1
<1>3. K = Nat
  <2> HIDE DEF K
  <2> QED BY <1>1, <1>2, NatStep DEF K
<1> QED BY <1>3

\* The values of D, and no others, each once.
Picks(kept, val, D) ==
  \E at \in [1 .. Len(kept) -> D] :
    /\ \A k \in 1 .. Len(kept) : kept[k] = val[at[k]]
    /\ \A j, k \in 1 .. Len(kept) : at[j] = at[k] => j = k
    /\ \A i \in D : \E k \in 1 .. Len(kept) : at[k] = i

IsJoin(g, val, D, n) ==
  g = [i \in 0 .. n |-> IF i = 0 THEN <<>> ELSE g[i - 1] \o (IF i \in D THEN <<val[i]>> ELSE <<>>)]

LEMMA JoinExists ==
  ASSUME NEW T, NEW n \in Nat, NEW D, NEW val, \A i \in D : val[i] \in T
  PROVE  \E g : IsJoin(g, val, D, n)
<1> DEFINE piece == [i \in 1 .. n |-> IF i \in D THEN <<val[i]>> ELSE <<>>]
           step == [i \in 1 .. n |-> [x \in Seq(T) |-> x \o piece[i]]]
<1>1. \A i \in 1 .. n : piece[i] \in Seq(T) /\ piece[i] = IF i \in D THEN <<val[i]>> ELSE <<>>
  OBVIOUS
<1> HIDE DEF piece
<1>2. step \in [1 .. n -> [Seq(T) -> Seq(T)]] /\ <<>> \in Seq(T)
  <2>1. \A i \in 1 .. n : [x \in Seq(T) |-> x \o piece[i]] \in [Seq(T) -> Seq(T)]
    <3> SUFFICES ASSUME NEW i \in 1 .. n, NEW x \in Seq(T) PROVE x \o piece[i] \in Seq(T)
      OBVIOUS
    <3>1. piece[i] \in Seq(T)
      BY <1>1
    <3> QED BY <3>1
  <2> QED BY <2>1
<1>3. \A i \in 1 .. n : \A x \in Seq(T) : step[i][x] = x \o piece[i]
  OBVIOUS
<1> HIDE DEF step
<1>4. PICK g : IsLoop(g, Seq(T), n, <<>>, step)
  BY <1>2, LoopRuns
<1>5. g \in [0 .. n -> Seq(T)] /\ g[0] = <<>> /\ \A i \in 1 .. n : g[i] = step[i][g[i - 1]]
  BY <1>4 DEF IsLoop
<1>6. \A i \in 1 .. n : i - 1 \in 0 .. n /\ i # 0
  OBVIOUS
<1>7. \A i \in 1 .. n : g[i] = g[i - 1] \o (IF i \in D THEN <<val[i]>> ELSE <<>>)
  BY <1>1, <1>3, <1>5, <1>6
<1>8. \A i \in 0 .. n : g[i] = IF i = 0 THEN <<>> ELSE g[i - 1] \o (IF i \in D THEN <<val[i]>> ELSE <<>>)
  <2>1. \A i \in 0 .. n : i # 0 => i \in 1 .. n
    OBVIOUS
  <2> QED BY <1>5, <1>7, <2>1
<1>9. IsJoin(g, val, D, n)
  BY <1>5, <1>8 DEF IsJoin
<1> QED BY <1>9

LEMMA JoinPicks ==
  ASSUME NEW T, NEW n \in Nat, NEW D \in SUBSET (1 .. n), NEW val, \A i \in D : val[i] \in T,
         NEW g, IsJoin(g, val, D, n)
  PROVE  g[n] \in Seq(T) /\ Picks(g[n], val, D)
<1> DEFINE H == {m \in 0 .. n : g[m] \in Seq(T) /\ Picks(g[m], val, D \cap (1 .. m))}
<1>1. g[0] = <<>> /\ \A i \in 1 .. n : g[i] = g[i - 1] \o (IF i \in D THEN <<val[i]>> ELSE <<>>)
  <2>1. \A i \in 1 .. n : i \in 0 .. n /\ i # 0
    OBVIOUS
  <2>2. 0 \in 0 .. n
    OBVIOUS
  <2> QED BY <2>1, <2>2 DEF IsJoin
<1>2. 0 \in H
  <2>1. <<>> \in Seq(T) /\ Len(<<>>) = 0 /\ 1 .. 0 = {} /\ D \cap (1 .. 0) = {}
    OBVIOUS
  <2>2. Picks(<<>>, val, {})
    <3>1. [k \in {} |-> 0] \in [{} -> {}]
      OBVIOUS
    <3> QED BY <2>1, <3>1 DEF Picks
  <2>3. 0 \in 0 .. n
    OBVIOUS
  <2>4. g[0] \in Seq(T) /\ Picks(g[0], val, D \cap (1 .. 0))
    BY <1>1, <2>1, <2>2
  <2> QED BY <2>3, <2>4
<1>3. ASSUME NEW i \in 1 .. n, i - 1 \in H PROVE i \in H
  <2> DEFINE q == g[i - 1]
             C == D \cap (1 .. i - 1)
  <2>1. q \in Seq(T) /\ Picks(q, val, C) /\ i \in 0 .. n
    BY <1>3
  <2>2. CASE i \notin D
    <3>1. D \cap (1 .. i) = C
      BY <2>2
    <3>2. g[i] = q
      <4>1. g[i] = q \o <<>>
        BY <1>1, <2>2
      <4> HIDE DEF q
      <4> QED BY <2>1, <4>1
    <3> QED BY <2>1, <3>1, <3>2
  <2>3. CASE i \in D
    <3> HIDE DEF q
    <3>1. D \cap (1 .. i) = C \cup {i} /\ i \notin C
      BY <2>3
    <3> HIDE DEF C
    <3>2. g[i] = q \o <<val[i]>> /\ val[i] \in T
      BY <1>1, <2>3 DEF q
    <3>3. /\ q \o <<val[i]>> \in Seq(T) /\ Len(q \o <<val[i]>>) = Len(q) + 1 /\ Len(q) \in Nat
          /\ (q \o <<val[i]>>)[Len(q) + 1] = val[i]
          /\ \A k \in 1 .. Len(q) : (q \o <<val[i]>>)[k] = q[k]
      BY <2>1, <3>2
    <3> DEFINE r == q \o <<val[i]>>
    <3> HIDE DEF r
    <3>4. PICK at \in [1 .. Len(q) -> C] :
            /\ \A k \in 1 .. Len(q) : q[k] = val[at[k]]
            /\ \A j, k \in 1 .. Len(q) : at[j] = at[k] => j = k
            /\ \A c \in C : \E k \in 1 .. Len(q) : at[k] = c
      BY <2>1 DEF Picks
    <3> DEFINE h == [k \in 1 .. Len(q) + 1 |-> IF k = Len(q) + 1 THEN i ELSE at[k]]
    <3>5. \A k \in 1 .. Len(q) + 1 : k = Len(q) + 1 \/ k \in 1 .. Len(q)
      BY <3>3
    <3>6. \A k \in 1 .. Len(q) : h[k] = at[k] /\ at[k] \in C /\ k \in 1 .. Len(q) + 1
      BY <3>3
    <3>7. h[Len(q) + 1] = i /\ Len(q) + 1 \in 1 .. Len(q) + 1
      BY <3>3
    <3>8. h \in [1 .. Len(q) + 1 -> C \cup {i}]
      BY <3>5, <3>6, <3>7
    <3> HIDE DEF h
    <3>9. \A k \in 1 .. Len(q) + 1 : r[k] = val[h[k]]
      BY <3>3, <3>4, <3>5, <3>6, <3>7 DEF r
    <3>10. \A j, k \in 1 .. Len(q) + 1 : h[j] = h[k] => j = k
      BY <3>1, <3>4, <3>5, <3>6, <3>7
    <3>11. \A c \in C \cup {i} : \E k \in 1 .. Len(q) + 1 : h[k] = c
      BY <3>4, <3>6, <3>7
    <3>12. Picks(r, val, C \cup {i})
      BY <3>3, <3>8, <3>9, <3>10, <3>11 DEF Picks, r
    <3> QED BY <2>1, <3>1, <3>2, <3>3, <3>12 DEF r
  <2> QED BY <2>2, <2>3
<1>4. n \in H
  <2> HIDE DEF H
  <2> QED BY <1>2, <1>3, TurnByTurn
<1>5. D \cap (1 .. n) = D
  OBVIOUS
<1> QED BY <1>4, <1>5

LEMMA FilteredIs ==
  ASSUME NEW T, NEW q \in Seq(T), NEW S
  PROVE  /\ Filtered(q, S) \in Seq(T)
         /\ Picks(Filtered(q, S), q, {i \in 1 .. Len(q) : q[i] \in S})
<1> DEFINE D == {i \in 1 .. Len(q) : q[i] \in S}
           Good(f) == f = [n \in 0 .. Len(q) |->
                    IF n = 0 THEN <<>> ELSE f[n - 1] \o (IF q[n] \in S THEN <<q[n]>> ELSE <<>>)]
           up == CHOOSE f : Good(f)
<1>1. Filtered(q, S) = up[Len(q)]
  BY DEF Filtered, Joined
<1>2. \A i \in D : q[i] \in T
  OBVIOUS
<1>3. D \in SUBSET (1 .. Len(q)) /\ Len(q) \in Nat
  OBVIOUS
<1>4. \A i \in 0 .. Len(q) : i # 0 => (i \in D <=> q[i] \in S)
  OBVIOUS
<1>5. ASSUME NEW f PROVE Good(f) <=> IsJoin(f, q, D, Len(q))
  <2> HIDE DEF D
  <2>1. [n \in 0 .. Len(q) |->
                    IF n = 0 THEN <<>> ELSE f[n - 1] \o (IF q[n] \in S THEN <<q[n]>> ELSE <<>>)]
          = [n \in 0 .. Len(q) |->
                    IF n = 0 THEN <<>> ELSE f[n - 1] \o (IF n \in D THEN <<q[n]>> ELSE <<>>)]
    BY <1>4
  <2> QED BY <2>1 DEF IsJoin
<1> HIDE DEF D
<1>6. PICK g : IsJoin(g, q, D, Len(q))
  BY <1>2, <1>3, JoinExists
<1>7. Good(g)
  BY <1>5, <1>6
<1> HIDE DEF Good
<1>8. Good(up)
  BY <1>7
<1> HIDE DEF up
<1>9. IsJoin(up, q, D, Len(q))
  BY <1>5, <1>8
<1>10. up[Len(q)] \in Seq(T) /\ Picks(up[Len(q)], q, D)
  BY <1>2, <1>3, <1>9, JoinPicks
<1> QED BY <1>1, <1>10 DEF D

-----------------------------------------------------------------------------
(* Sections and rows.                                                      *)

SectionDatum == [section : Section, rows : Seq(Row), isActive : BOOLEAN, isSearched : BOOLEAN]
Cell == [section : Section, rows : Seq(Row)]
IsRowed(T) == T = SectionDatum \/ T = Cell

HasRow(sd, r) == \E k \in DOMAIN sd.rows : sd.rows[k] = r
RowsOf(src) == {r \in Row : \E i \in DOMAIN src : HasRow(src[i], r)}
Sections(src) == {src[i].section : i \in DOMAIN src}
Active(src) == {src[i].section : i \in {i \in DOMAIN src : src[i].isActive}}
Flagged(src, A) == \A i \in DOMAIN src : src[i].isActive = (src[i].section \in A)

\* The sections with something to show, and those that the scope leaves out.
Available(src) == {src[i].section : i \in {i \in DOMAIN src : isAvailable(src[i])}}
Unsearched(src) == {src[i].section : i \in {i \in DOMAIN src : ~src[i].isSearched}}

Keyed(src) == \A i, j \in DOMAIN src : src[i].section = src[j].section => i = j
RowsOnce(src) ==
  \A i, j \in DOMAIN src : \A k \in DOMAIN src[i].rows, m \in DOMAIN src[j].rows :
    src[i].rows[k] = src[j].rows[m] => i = j /\ k = m

LEMMA SeqIs ==
  ASSUME NEW T, NEW q \in Seq(T)
  PROVE  /\ Len(q) \in Nat /\ DOMAIN q = 1 .. Len(q)
         /\ \A i \in DOMAIN q : q[i] \in T
OBVIOUS

LEMMA SameSeqs ==
  ASSUME NEW T, NEW p \in Seq(T), NEW q \in Seq(T), Len(p) = Len(q),
         \A i \in 1 .. Len(p) : p[i] = q[i]
  PROVE  p = q
OBVIOUS

LEMMA DatumIs ==
  ASSUME NEW T, IsRowed(T), NEW d \in T
  PROVE  /\ d.section \in Section /\ d.rows \in Seq(Row)
         /\ DOMAIN d.rows = 1 .. Len(d.rows) /\ Len(d.rows) \in Nat
         /\ \A k \in DOMAIN d.rows : d.rows[k] \in Row
<1>1. d.section \in Section /\ d.rows \in Seq(Row)
  <2>1. CASE T = SectionDatum
    BY <2>1 DEF SectionDatum
  <2>2. CASE T = Cell
    BY <2>2 DEF Cell
  <2> QED BY <2>1, <2>2 DEF IsRowed
<1> QED BY <1>1, SeqIs

WithRows(src, i, q) == [src EXCEPT ![i].rows = q]
IsWithRows(T, new, src, i, q) ==
  /\ new \in Seq(T) /\ Len(new) = Len(src) /\ DOMAIN new = DOMAIN src
  /\ new[i].rows = q /\ new[i].section = src[i].section
  /\ T = SectionDatum => /\ new[i].isActive = src[i].isActive
                         /\ new[i].isSearched = src[i].isSearched
  /\ \A j \in DOMAIN src : j # i => new[j] = src[j]

LEMMA SetRows ==
  ASSUME NEW T, IsRowed(T), NEW src \in Seq(T), NEW i \in DOMAIN src, NEW q \in Seq(Row),
         NEW new, new = WithRows(src, i, q)
  PROVE  IsWithRows(T, new, src, i, q)
<1>1. src[i] \in T /\ Len(src) \in Nat /\ DOMAIN src = 1 .. Len(src)
  BY SeqIs
<1>2. /\ [src[i] EXCEPT !.rows = q] \in T
      /\ [src[i] EXCEPT !.rows = q].rows = q
      /\ [src[i] EXCEPT !.rows = q].section = src[i].section
      /\ T = SectionDatum => /\ [src[i] EXCEPT !.rows = q].isActive = src[i].isActive
                             /\ [src[i] EXCEPT !.rows = q].isSearched = src[i].isSearched
  <2>1. CASE T = SectionDatum
    BY <1>1, <2>1 DEF SectionDatum
  <2>2. CASE T = Cell /\ T # SectionDatum
    BY <1>1, <2>2 DEF Cell
  <2> QED BY <2>1, <2>2 DEF IsRowed
<1>3. new = [src EXCEPT ![i] = [src[i] EXCEPT !.rows = q]]
  BY DEF WithRows
<1> QED BY <1>1, <1>2, <1>3 DEF IsWithRows

MoreRows(src, i, r) == [src EXCEPT ![i].rows = Append(@, r)]
LessRows(src, i, k) == [src EXCEPT ![i].rows = RemoveAt(@, k)]

\* A row more in a section.
LEMMA AddRow ==
  ASSUME NEW T, IsRowed(T), NEW src \in Seq(T), NEW i \in DOMAIN src, NEW r \in Row,
         NEW new, new = MoreRows(src, i, r)
  PROVE  /\ IsWithRows(T, new, src, i, Append(src[i].rows, r))
         /\ RowsOf(new) = RowsOf(src) \cup {r}
         /\ RowsOnce(src) /\ r \notin RowsOf(src) => RowsOnce(new)
<1>1. /\ src[i].rows \in Seq(Row) /\ Len(src[i].rows) \in Nat /\ DOMAIN src[i].rows = 1 .. Len(src[i].rows)
      /\ \A j \in DOMAIN src : \A k \in DOMAIN src[j].rows : src[j].rows[k] \in Row
  BY SeqIs, DatumIs
<1> DEFINE q == Append(src[i].rows, r)
           n == Len(src[i].rows)
<1>2. /\ q \in Seq(Row) /\ DOMAIN q = DOMAIN src[i].rows \cup {n + 1} /\ n + 1 \notin DOMAIN src[i].rows
      /\ q[n + 1] = r /\ \A k \in DOMAIN src[i].rows : q[k] = src[i].rows[k]
  BY <1>1
<1>3. new = WithRows(src, i, q)
  BY DEF WithRows, MoreRows, LessRows
<1> HIDE DEF q
<1>4. /\ new \in Seq(T) /\ Len(new) = Len(src) /\ DOMAIN new = DOMAIN src
      /\ new[i].rows = q /\ new[i].section = src[i].section
      /\ T = SectionDatum => /\ new[i].isActive = src[i].isActive
                             /\ new[i].isSearched = src[i].isSearched
      /\ \A j \in DOMAIN src : j # i => new[j] = src[j]
  <2>1. q \in Seq(Row)
    BY <1>2
  <2>2. IsWithRows(T, new, src, i, q)
    BY <2>1, <1>3, SetRows
  <2> QED BY <2>2 DEF IsWithRows
<1>5. RowsOf(new) = RowsOf(src) \cup {r}
  <2>1. \A x : HasRow(new[i], x) <=> HasRow(src[i], x) \/ x = r
    BY <1>2, <1>4 DEF HasRow
  <2>2. \A j \in DOMAIN src : j # i => \A x : HasRow(new[j], x) <=> HasRow(src[j], x)
    BY <1>4
  <2> QED BY <1>4, <2>1, <2>2 DEF RowsOf
<1>6. ASSUME RowsOnce(src), r \notin RowsOf(src) PROVE RowsOnce(new)
  <2>1. \A j \in DOMAIN src : \A k \in DOMAIN src[j].rows : src[j].rows[k] # r
    BY <1>6 DEF RowsOf, HasRow
  <2> SUFFICES ASSUME NEW a \in DOMAIN new, NEW b \in DOMAIN new,
                      NEW k \in DOMAIN new[a].rows, NEW m \in DOMAIN new[b].rows,
                      new[a].rows[k] = new[b].rows[m]
               PROVE  a = b /\ k = m
    BY DEF RowsOnce
  <2>2. CASE a = i /\ k = n + 1
    <3>1. new[b].rows[m] = r
      BY <1>2, <1>4, <2>2
    <3>2. CASE b = i
      BY <1>2, <1>4, <2>1, <2>2, <3>1, <3>2
    <3>3. CASE b # i
      BY <1>4, <2>1, <3>1, <3>3
    <3> QED BY <3>2, <3>3
  <2>3. CASE b = i /\ m = n + 1
    <3>1. new[a].rows[k] = r
      BY <1>2, <1>4, <2>3
    <3>2. CASE a = i
      BY <1>2, <1>4, <2>1, <2>3, <3>1, <3>2
    <3>3. CASE a # i
      BY <1>4, <2>1, <3>1, <3>3
    <3> QED BY <3>2, <3>3
  <2>4. CASE ~(a = i /\ k = n + 1) /\ ~(b = i /\ m = n + 1)
    <3>1. /\ a \in DOMAIN src /\ k \in DOMAIN src[a].rows /\ new[a].rows[k] = src[a].rows[k]
          /\ b \in DOMAIN src /\ m \in DOMAIN src[b].rows /\ new[b].rows[m] = src[b].rows[m]
      BY <1>2, <1>4, <2>4
    <3>2. src[a].rows[k] = src[b].rows[m]
      BY <3>1
    <3>3. a \in DOMAIN src /\ k \in DOMAIN src[a].rows /\ b \in DOMAIN src /\ m \in DOMAIN src[b].rows
      BY <3>1
    <3> QED BY <1>6, <3>2, <3>3 DEF RowsOnce
  <2> QED BY <2>2, <2>3, <2>4
<1> QED BY <1>4, <1>5, <1>6 DEF q, IsWithRows

\* A row less in a section.
LEMMA DropRow ==
  ASSUME NEW T, IsRowed(T), NEW src \in Seq(T), NEW i \in DOMAIN src, NEW k \in DOMAIN src[i].rows,
         RowsOnce(src), NEW new, new = LessRows(src, i, k)
  PROVE  /\ IsWithRows(T, new, src, i, RemoveAt(src[i].rows, k))
         /\ RowsOf(new) = RowsOf(src) \ {src[i].rows[k]}
         /\ RowsOnce(new)
<1> DEFINE r == src[i].rows[k]
           q == RemoveAt(src[i].rows, k)
           n == Len(src[i].rows)
<1>1. /\ src[i].rows \in Seq(Row) /\ Len(src[i].rows) \in Nat /\ DOMAIN src[i].rows = 1 .. Len(src[i].rows)
      /\ \A j \in DOMAIN src : \A m \in DOMAIN src[j].rows : src[j].rows[m] \in Row
  BY SeqIs, DatumIs
<1>2. /\ q \in Seq(Row) /\ DOMAIN q = 1 .. n - 1
      /\ \A j \in 1 .. n - 1 : q[j] = IF j < k THEN src[i].rows[j] ELSE src[i].rows[j + 1]
  <2>1. src[i].rows \in Seq(Row) /\ k \in 1 .. Len(src[i].rows)
    BY <1>1
  <2>2. /\ q \in Seq(Row) /\ Len(q) = Len(src[i].rows) - 1
        /\ \A j \in 1 .. Len(src[i].rows) - 1 :
             q[j] = IF j < k THEN src[i].rows[j] ELSE src[i].rows[j + 1]
    BY <2>1, RemoveAtIs
  <2> HIDE DEF q
  <2>3. Len(q) = n - 1 /\ DOMAIN q = 1 .. Len(q) /\ q \in Seq(Row)
    BY <2>2
  <2> QED BY <2>2, <2>3
<1>3. new = WithRows(src, i, q)
  BY DEF WithRows, MoreRows, LessRows
<1> HIDE DEF q
<1>4. /\ new \in Seq(T) /\ Len(new) = Len(src) /\ DOMAIN new = DOMAIN src
      /\ new[i].rows = q /\ new[i].section = src[i].section
      /\ T = SectionDatum => /\ new[i].isActive = src[i].isActive
                             /\ new[i].isSearched = src[i].isSearched
      /\ \A j \in DOMAIN src : j # i => new[j] = src[j]
  <2>1. q \in Seq(Row)
    BY <1>2
  <2>2. IsWithRows(T, new, src, i, q)
    BY <2>1, <1>3, SetRows
  <2> QED BY <2>2 DEF IsWithRows
<1> DEFINE old(j, m) == IF j = i /\ ~(m < k) THEN m + 1 ELSE m
<1>5. ASSUME NEW j \in DOMAIN new, NEW m \in DOMAIN new[j].rows
      PROVE  /\ old(j, m) \in DOMAIN src[j].rows /\ new[j].rows[m] = src[j].rows[old(j, m)]
             /\ ~(j = i /\ old(j, m) = k)
  <2>1. CASE j = i
    <3>1. m \in 1 .. n - 1 /\ m \in Nat /\ k \in 1 .. n /\ n \in Nat
      BY <1>1, <1>2, <1>4, <2>1
    <3>2. q[m] = IF m < k THEN src[i].rows[m] ELSE src[i].rows[m + 1]
      BY <1>2, <3>1
    <3>3. (m < k => m \in 1 .. n) /\ (~(m < k) => m + 1 \in 1 .. n /\ m + 1 # k)
      BY <3>1
    <3> QED BY <1>1, <1>4, <2>1, <3>2, <3>3
  <2>2. CASE j # i
    BY <1>4, <2>2
  <2> QED BY <2>1, <2>2
<1>6. ASSUME NEW j \in DOMAIN src, NEW m \in DOMAIN src[j].rows, ~(j = i /\ m = k)
      PROVE  HasRow(new[j], src[j].rows[m])
  <2>1. CASE j = i
    <3> DEFINE h == IF m < k THEN m ELSE m - 1
    <3>1. m \in 1 .. n /\ k \in 1 .. n /\ m # k /\ n \in Nat
      BY <1>1, <1>6, <2>1
    <3>2. h \in 1 .. n - 1 /\ (IF h < k THEN h ELSE h + 1) = m
      BY <3>1
    <3>3. q[h] = src[i].rows[m]
      BY <1>2, <3>2
    <3> QED BY <1>2, <1>4, <2>1, <3>2, <3>3 DEF HasRow
  <2>2. CASE j # i
    BY <1>4, <2>2 DEF HasRow
  <2> QED BY <2>1, <2>2
<1>7. RowsOf(new) = RowsOf(src) \ {r}
  <2>1. ASSUME NEW x \in RowsOf(new) PROVE x \in RowsOf(src) /\ x # r
    <3>0. PICK j \in DOMAIN new : HasRow(new[j], x)
      BY DEF RowsOf
    <3>1. PICK m \in DOMAIN new[j].rows : new[j].rows[m] = x
      BY <3>0 DEF HasRow
    <3>2. old(j, m) \in DOMAIN src[j].rows /\ x = src[j].rows[old(j, m)] /\ ~(j = i /\ old(j, m) = k)
      BY <1>5, <3>1
    <3> HIDE DEF old
    <3>3. x # r
      BY <1>4, <3>2 DEF RowsOnce
    <3> QED BY <1>4, <3>2, <3>3 DEF RowsOf, HasRow
  <2>2. ASSUME NEW x \in RowsOf(src), x # r PROVE x \in RowsOf(new)
    <3>0. PICK j \in DOMAIN src : HasRow(src[j], x)
      BY DEF RowsOf
    <3>1. PICK m \in DOMAIN src[j].rows : src[j].rows[m] = x
      BY <3>0 DEF HasRow
    <3>2. HasRow(new[j], x)
      BY <1>6, <2>2, <3>1
    <3> QED BY <1>4, <3>2 DEF RowsOf
  <2> QED BY <2>1, <2>2
<1>8. RowsOnce(new)
  <2> SUFFICES ASSUME NEW a \in DOMAIN new, NEW b \in DOMAIN new,
                      NEW x \in DOMAIN new[a].rows, NEW y \in DOMAIN new[b].rows,
                      new[a].rows[x] = new[b].rows[y]
               PROVE  a = b /\ x = y
    BY DEF RowsOnce
  <2>1. /\ old(a, x) \in DOMAIN src[a].rows /\ new[a].rows[x] = src[a].rows[old(a, x)]
        /\ old(b, y) \in DOMAIN src[b].rows /\ new[b].rows[y] = src[b].rows[old(b, y)]
    BY <1>5
  <2>2. a = b /\ old(a, x) = old(b, y)
    <3>1. a \in DOMAIN src /\ b \in DOMAIN src
      BY <1>4
    <3> HIDE DEF old
    <3>2. src[a].rows[old(a, x)] = src[b].rows[old(b, y)]
      BY <2>1
    <3> QED BY <2>1, <3>1, <3>2 DEF RowsOnce
  <2>3. x \in Nat /\ y \in Nat /\ k \in Nat
    <3>2. \A j \in DOMAIN new : new[j] \in T
      BY <1>4, SeqIs
    <3>1. \A j \in DOMAIN new : new[j].rows \in Seq(Row)
      BY <3>2, DatumIs
    <3>3. DOMAIN new[a].rows = 1 .. Len(new[a].rows) /\ DOMAIN new[b].rows = 1 .. Len(new[b].rows)
      BY <3>1
    <3> QED BY <1>1, <3>3, SMTT(20)
  <2> QED BY <2>2, <2>3
<1> QED BY <1>4, <1>7, <1>8 DEF q, IsWithRows

\* Sections less.
LEMMA RemovePicks ==
  ASSUME NEW T, NEW s \in Seq(T), NEW i \in DOMAIN s
  PROVE  RemoveAt(s, i) \in Seq(T) /\ Picks(RemoveAt(s, i), s, DOMAIN s \ {i})
<1> DEFINE n == Len(s)
           q == RemoveAt(s, i)
           at == [j \in 1 .. n - 1 |-> IF j < i THEN j ELSE j + 1]
<1>1. n \in Nat /\ i \in 1 .. n /\ DOMAIN s = 1 .. n
  <2> HIDE DEF q, at
  <2> QED BY SeqIs, SMTT(20)
<1>2. /\ q \in Seq(T) /\ Len(q) = n - 1
      /\ \A j \in 1 .. n - 1 : q[j] = IF j < i THEN s[j] ELSE s[j + 1]
  BY <1>1, RemoveAtIs
<1> HIDE DEF q, n
<1>3. \A j \in 1 .. n - 1 : at[j] = IF j < i THEN j ELSE j + 1
  OBVIOUS
<1>4. at \in [1 .. n - 1 -> (1 .. n) \ {i}]
  BY <1>1
<1> HIDE DEF at
<1>5. \A j \in 1 .. n - 1 : q[j] = s[at[j]]
  BY <1>2, <1>3
<1>6. \A j, k \in 1 .. n - 1 : at[j] = at[k] => j = k
  BY <1>1, <1>3
<1>7. ASSUME NEW c \in (1 .. n) \ {i} PROVE \E j \in 1 .. n - 1 : at[j] = c
  <2> DEFINE j == IF c < i THEN c ELSE c - 1
  <2>1. j \in 1 .. n - 1 /\ (IF j < i THEN j ELSE j + 1) = c
    BY <1>1
  <2> HIDE DEF j
  <2> QED BY <1>3, <2>1
<1>8. Picks(q, s, (1 .. n) \ {i})
  BY <1>2, <1>4, <1>5, <1>6, <1>7, SMTT(20) DEF Picks
<1> QED BY <1>1, <1>2, <1>8 DEF q

LEMMA InsertPicks ==
  ASSUME NEW T, NEW s \in Seq(T), NEW d \in T, NEW i \in 1 .. Len(s) + 1
  PROVE  /\ InsertAt(s, i, d) \in Seq(T) /\ Len(InsertAt(s, i, d)) = Len(s) + 1
         /\ i \in DOMAIN InsertAt(s, i, d) /\ InsertAt(s, i, d)[i] = d
         /\ Picks(s, InsertAt(s, i, d), DOMAIN InsertAt(s, i, d) \ {i})
<1> DEFINE n == Len(s)
           q == InsertAt(s, i, d)
           at == [j \in 1 .. n |-> IF j < i THEN j ELSE j + 1]
<1>1. n \in Nat /\ i \in 1 .. n + 1 /\ DOMAIN s = 1 .. n
  OBVIOUS
<1>2. /\ q \in Seq(T) /\ Len(q) = n + 1 /\ DOMAIN q = 1 .. n + 1
      /\ \A j \in 1 .. n + 1 : q[j] = IF j < i THEN s[j] ELSE IF j = i THEN d ELSE s[j - 1]
  <2>1. /\ q \in Seq(T) /\ Len(q) = Len(s) + 1
        /\ \A j \in 1 .. Len(s) + 1 : q[j] = IF j < i THEN s[j] ELSE IF j = i THEN d ELSE s[j - 1]
    BY InsertAtIs
  <2> HIDE DEF q
  <2> QED BY <2>1
<1> HIDE DEF q, n
<1>3. \A j \in 1 .. n : at[j] = IF j < i THEN j ELSE j + 1
  OBVIOUS
<1>4. at \in [1 .. n -> (1 .. n + 1) \ {i}]
  BY <1>1
<1> HIDE DEF at
<1>5. \A j \in 1 .. n : s[j] = q[at[j]]
  BY <1>1, <1>2, <1>3
<1>6. \A j, k \in 1 .. n : at[j] = at[k] => j = k
  BY <1>1, <1>3
<1>7. ASSUME NEW c \in (1 .. n + 1) \ {i} PROVE \E j \in 1 .. n : at[j] = c
  <2> DEFINE j == IF c < i THEN c ELSE c - 1
  <2>1. j \in 1 .. n /\ (IF j < i THEN j ELSE j + 1) = c
    BY <1>1
  <2> HIDE DEF j
  <2> QED BY <1>3, <2>1
<1>8. q[i] = d /\ i \in DOMAIN q
  BY <1>1, <1>2
<1>9. Picks(s, q, DOMAIN q \ {i})
  BY <1>2, <1>4, <1>5, <1>6, <1>7, SMTT(20) DEF Picks, n
<1> QED BY <1>2, <1>8, <1>9 DEF q, n

LEMMA AppendIsInsert ==
  ASSUME NEW T, NEW s \in Seq(T), NEW d \in T
  PROVE  Append(s, d) = InsertAt(s, Len(s) + 1, d)
<1>1. PICK i \in 1 .. Len(s) + 1 : i = Len(s) + 1
  OBVIOUS
<1> DEFINE q == InsertAt(s, i, d)
<1>2. /\ q \in Seq(T) /\ Len(q) = Len(s) + 1
      /\ \A j \in 1 .. Len(s) + 1 : q[j] = IF j < i THEN s[j] ELSE IF j = i THEN d ELSE s[j - 1]
  BY InsertAtIs
<1> HIDE DEF q
<1>3. \A j \in 1 .. Len(s) + 1 : q[j] = IF j < Len(s) + 1 THEN s[j] ELSE d
  <2>1. \A j \in 1 .. Len(s) + 1 : ~(j < Len(s) + 1) => j = Len(s) + 1
    OBVIOUS
  <2> QED BY <1>1, <1>2, <2>1
<1>4. Append(s, d) \in Seq(T) /\ Len(Append(s, d)) = Len(s) + 1
      /\ \A j \in 1 .. Len(s) + 1 : Append(s, d)[j] = IF j < Len(s) + 1 THEN s[j] ELSE d
  OBVIOUS
<1>5. Append(s, d) = q
  BY <1>2, <1>3, <1>4
<1> QED BY <1>1, <1>5 DEF q

\* What is picked has no more than there was.
HasPicked(new, src, D) ==
  /\ RowsOf(new) = {r \in Row : \E i \in D : HasRow(src[i], r)}
  /\ Sections(new) = {src[i].section : i \in D}
  /\ Active(new) = {src[i].section : i \in {i \in D : src[i].isActive}}
  /\ Keyed(src) => Keyed(new)
  /\ RowsOnce(src) => RowsOnce(new)
  /\ OneKind(src) => OneKind(new)
  /\ \A A : Flagged(src, A) => Flagged(new, A)

LEMMA PickedHas ==
  ASSUME NEW src, NEW D \in SUBSET DOMAIN src, NEW T, NEW new \in Seq(T), Picks(new, src, D)
  PROVE  HasPicked(new, src, D)
<1>1. PICK at \in [1 .. Len(new) -> D] :
        /\ \A k \in 1 .. Len(new) : new[k] = src[at[k]]
        /\ \A j, k \in 1 .. Len(new) : at[j] = at[k] => j = k
        /\ \A i \in D : \E k \in 1 .. Len(new) : at[k] = i
  BY DEF Picks
<1>2. DOMAIN new = 1 .. Len(new) /\ \A k \in DOMAIN new : at[k] \in D /\ at[k] \in DOMAIN src /\ new[k] = src[at[k]]
  BY <1>1
<1>3. \A i \in D : \E k \in DOMAIN new : at[k] = i /\ new[k] = src[i]
  BY <1>1, <1>2
<1>4. RowsOf(new) = {r \in Row : \E i \in D : HasRow(src[i], r)}
  BY <1>2, <1>3 DEF RowsOf
<1>5. Sections(new) = {src[i].section : i \in D}
  BY <1>2, <1>3 DEF Sections
<1>6. Active(new) = {src[i].section : i \in {i \in D : src[i].isActive}}
  BY <1>2, <1>3 DEF Active
<1>7. \A A : Flagged(src, A) => Flagged(new, A)
  BY <1>2 DEF Flagged
<1>8. Keyed(src) => Keyed(new)
  BY <1>1, <1>2 DEF Keyed
<1>9. RowsOnce(src) => RowsOnce(new)
  BY <1>1, <1>2 DEF RowsOnce
<1>10. OneKind(src) => OneKind(new)
  BY <1>2 DEF OneKind
<1> QED BY <1>4, <1>5, <1>6, <1>7, <1>8, <1>9, <1>10 DEF HasPicked

\* A section more.
HasPut(new, src, d) ==
  /\ RowsOf(new) = RowsOf(src) \cup {r \in Row : HasRow(d, r)}
  /\ Sections(new) = Sections(src) \cup {d.section}
  /\ Active(new) = Active(src) \cup (IF d.isActive THEN {d.section} ELSE {})
  /\ Keyed(src) /\ d.section \notin Sections(src) => Keyed(new)
  /\ /\ RowsOnce(src) /\ \A r \in RowsOf(src) : ~HasRow(d, r)
     /\ \A j, k \in DOMAIN d.rows : d.rows[j] = d.rows[k] => j = k
     => RowsOnce(new)
  /\ OneKind(src) /\ (\A k \in DOMAIN d.rows : KindOf[d.rows[k]] = d.section) => OneKind(new)
  /\ \A A : Flagged(src, A) /\ d.isActive = (d.section \in A) => Flagged(new, A)

LEMMA PutHas ==
  ASSUME NEW T, NEW src \in Seq(T), NEW new, NEW i \in DOMAIN new, Picks(src, new, DOMAIN new \ {i}),
         \A k \in DOMAIN new[i].rows : new[i].rows[k] \in Row
  PROVE  HasPut(new, src, new[i])
<1>1. PICK at \in [1 .. Len(src) -> DOMAIN new \ {i}] :
        /\ \A k \in 1 .. Len(src) : src[k] = new[at[k]]
        /\ \A j, k \in 1 .. Len(src) : at[j] = at[k] => j = k
        /\ \A c \in DOMAIN new \ {i} : \E k \in 1 .. Len(src) : at[k] = c
  BY DEF Picks
<1>2. DOMAIN src = 1 .. Len(src) /\ \A k \in DOMAIN src : at[k] \in DOMAIN new /\ at[k] # i /\ src[k] = new[at[k]]
  BY <1>1
<1>3. \A c \in DOMAIN new : c # i => \E k \in DOMAIN src : at[k] = c /\ src[k] = new[c]
  BY <1>1, <1>2
<1>4. RowsOf(new) = RowsOf(src) \cup {r \in Row : HasRow(new[i], r)}
  BY <1>2, <1>3 DEF RowsOf
<1>5. Sections(new) = Sections(src) \cup {new[i].section}
  BY <1>2, <1>3 DEF Sections
<1>6. Active(new) = Active(src) \cup (IF new[i].isActive THEN {new[i].section} ELSE {})
  BY <1>2, <1>3 DEF Active
<1>7. \A A : Flagged(src, A) /\ new[i].isActive = (new[i].section \in A) => Flagged(new, A)
  BY <1>3 DEF Flagged
<1>8. Keyed(src) /\ new[i].section \notin Sections(src) => Keyed(new)
  BY <1>2, <1>3 DEF Keyed, Sections
<1>9. ASSUME RowsOnce(src), \A r \in RowsOf(src) : ~HasRow(new[i], r),
             \A j, k \in DOMAIN new[i].rows : new[i].rows[j] = new[i].rows[k] => j = k
      PROVE  RowsOnce(new)
  <2>1. ASSUME NEW c \in DOMAIN new, c # i, NEW k \in DOMAIN new[i].rows, NEW m \in DOMAIN new[c].rows,
               new[i].rows[k] = new[c].rows[m]
        PROVE  FALSE
    <3>1. PICK j \in DOMAIN src : src[j] = new[c]
      BY <1>3, <2>1
    <3>2. new[i].rows[k] \in RowsOf(src)
      BY <2>1, <3>1 DEF RowsOf, HasRow
    <3> QED BY <1>9, <3>2 DEF HasRow
  <2> SUFFICES ASSUME NEW a \in DOMAIN new, NEW b \in DOMAIN new,
                      NEW k \in DOMAIN new[a].rows, NEW m \in DOMAIN new[b].rows,
                      new[a].rows[k] = new[b].rows[m]
               PROVE  a = b /\ k = m
    BY DEF RowsOnce
  <2>2. CASE a = i /\ b = i
    BY <1>9, <2>2
  <2>3. CASE a = i /\ b # i
    BY <2>1, <2>3
  <2>4. CASE a # i /\ b = i
    BY <2>1, <2>4
  <2>5. CASE a # i /\ b # i
    <3>1. PICK x \in DOMAIN src : at[x] = a /\ src[x] = new[a]
      BY <1>3, <2>5
    <3>2. PICK y \in DOMAIN src : at[y] = b /\ src[y] = new[b]
      BY <1>3, <2>5
    <3>3. x = y /\ k = m
      BY <1>9, <3>1, <3>2 DEF RowsOnce
    <3> QED BY <3>1, <3>2, <3>3
  <2> QED BY <2>2, <2>3, <2>4, <2>5
<1>10. ASSUME OneKind(src), \A k \in DOMAIN new[i].rows : KindOf[new[i].rows[k]] = new[i].section
       PROVE  OneKind(new)
  <2> SUFFICES ASSUME NEW c \in DOMAIN new, NEW k \in DOMAIN new[c].rows
               PROVE  KindOf[new[c].rows[k]] = new[c].section
    BY DEF OneKind, Range
  <2>1. CASE c = i
    BY <1>10, <2>1
  <2>2. CASE c # i
    <3>1. PICK j \in DOMAIN src : src[j] = new[c]
      BY <1>3, <2>2
    <3> QED BY <1>10, <3>1 DEF OneKind, Range
  <2> QED BY <2>1, <2>2
<1> QED BY <1>4, <1>5, <1>6, <1>7, <1>8, <1>9, <1>10 DEF HasPut

-----------------------------------------------------------------------------
(* Where a section and a row are.                                          *)

LEMMA FirstIs ==
  ASSUME NEW n \in Nat, NEW I \in SUBSET (1 .. n), NEW k, k = IF I # {} THEN Min(I) ELSE 0
  PROVE  k \in 0 .. n /\ (k = 0 <=> I = {}) /\ (k # 0 => k \in I)
<1>1. I \in SUBSET Nat
  OBVIOUS
<1>2. I # {} => Min(I) \in I
  BY <1>1, MinIsThere
<1>3. CASE I = {}
  BY <1>3
<1>4. CASE I # {}
  <2>1. k \in I
    BY <1>2, <1>4
  <2>2. k \in 1 .. n
    BY <2>1
  <2> QED BY <1>4, <2>1, <2>2
<1> QED BY <1>3, <1>4

LEMMA IndexIs ==
  ASSUME NEW T, NEW src \in Seq(T), NEW s
  PROVE  /\ Has(src, s) <=> s \in Sections(src)
         /\ ~Has(src, s) <=> IndexOf(src, s) = 0
         /\ IndexOf(src, s) # 0 => IndexOf(src, s) \in DOMAIN src /\ src[IndexOf(src, s)].section = s
         /\ Keyed(src) => \A i \in DOMAIN src : src[i].section = s => IndexOf(src, s) = i
<1> DEFINE I == {i \in 1 .. Len(src) : src[i].section = s}
           k == IndexOf(src, s)
<1>1. k = IF I # {} THEN Min(I) ELSE 0
  BY DEF IndexOf, SelectInSeq
<1>2. Len(src) \in Nat /\ DOMAIN src = 1 .. Len(src) /\ I \in SUBSET (1 .. Len(src))
  OBVIOUS
<1> HIDE DEF k
<1>3. k \in 0 .. Len(src) /\ (k = 0 <=> I = {}) /\ (k # 0 => k \in I)
  <2> HIDE DEF I
  <2> QED BY <1>1, <1>2, FirstIs
<1>4. I # {} <=> s \in Sections(src)
  BY <1>2 DEF Sections
<1>5. Has(src, s) <=> k # 0
  BY DEF Has, k
<1>6. Keyed(src) => \A i \in DOMAIN src : src[i].section = s => k = i
  BY <1>2, <1>3 DEF Keyed
<1> QED BY <1>2, <1>3, <1>4, <1>5, <1>6 DEF k

LEMMA IndexOfRowIs ==
  ASSUME NEW T, IsRowed(T), NEW src \in Seq(T), NEW r \in Row
  PROVE  /\ IndexOfRow(src, r) = 0 <=> r \notin RowsOf(src)
         /\ IndexOfRow(src, r) # 0 => /\ IndexOfRow(src, r) \in DOMAIN src
                                      /\ HasRow(src[IndexOfRow(src, r)], r)
<1> DEFINE I == {i \in 1 .. Len(src) : Contains(src[i].rows, r)}
           k == IndexOfRow(src, r)
<1>1. k = IF I # {} THEN Min(I) ELSE 0
  BY DEF IndexOfRow, SelectInSeq
<1>2. /\ Len(src) \in Nat /\ DOMAIN src = 1 .. Len(src) /\ I \in SUBSET (1 .. Len(src))
      /\ \A i \in DOMAIN src : Contains(src[i].rows, r) <=> HasRow(src[i], r)
  <2>1. \A i \in DOMAIN src : src[i] \in T
    BY SeqIs
  <2>2. \A i \in DOMAIN src : DOMAIN src[i].rows = 1 .. Len(src[i].rows)
    BY <2>1, DatumIs
  <2> QED BY <2>2 DEF Contains, HasRow
<1> HIDE DEF k
<1>3. k \in 0 .. Len(src) /\ (k = 0 <=> I = {}) /\ (k # 0 => k \in I)
  <2> HIDE DEF I
  <2> QED BY <1>1, <1>2, FirstIs
<1>4. I # {} <=> r \in RowsOf(src)
  BY <1>2 DEF RowsOf
<1> QED BY <1>2, <1>3, <1>4 DEF k

LEMMA RowIndexIs ==
  ASSUME NEW q \in Seq(Row), NEW r, \E k \in DOMAIN q : q[k] = r
  PROVE  /\ SelectInSeq(q, LAMBDA x : x = r) \in DOMAIN q
         /\ q[SelectInSeq(q, LAMBDA x : x = r)] = r
<1> DEFINE I == {i \in 1 .. Len(q) : q[i] = r}
           k == SelectInSeq(q, LAMBDA x : x = r)
<1>1. k = IF I # {} THEN Min(I) ELSE 0
  BY DEF SelectInSeq
<1>2. Len(q) \in Nat /\ DOMAIN q = 1 .. Len(q) /\ I \in SUBSET (1 .. Len(q)) /\ I # {}
  OBVIOUS
<1> HIDE DEF k
<1>3. k # 0 /\ k \in I
  <2> HIDE DEF I
  <2> QED BY <1>1, <1>2, FirstIs
<1> QED BY <1>2, <1>3 DEF k

LEMMA KindIsSection ==
  ASSUME instance \in Instances
  PROVE  /\ KindOf \in Seq(Section) /\ Row = 1 .. Len(KindOf) /\ Len(KindOf) \in Nat
         /\ \A r \in Row : KindOf[r] \in Section
         /\ instance.sections \in Seq(Section) /\ None \notin Section
<1> DEFINE i == instance
<1>1. i.sections \in Seq(STRING) /\ None \notin Range(i.sections) /\ i.kindOf \in Seq(Range(i.sections))
  BY ListTableAssumption
<1>2. i.sections \in Seq(Range(i.sections))
  <2> DEFINE s == i.sections
  <2>1. s \in Seq(STRING)
    BY <1>1
  <2> HIDE DEF s
  <2>2. s \in [1 .. Len(s) -> {s[x] : x \in DOMAIN s}] /\ Len(s) \in Nat
    BY <2>1
  <2> QED BY <2>2 DEF s, Range
<1>3. KindOf \in Seq(Section)
  BY <1>1 DEF KindOf, Section
<1>4. Row = 1 .. Len(KindOf) /\ \A r \in Row : KindOf[r] \in Section
  BY <1>3 DEF KindOf, Row
<1> QED BY <1>1, <1>2, <1>3, <1>4 DEF Section

-----------------------------------------------------------------------------
(* What the table is told of a section.                                    *)

CellOf(sd) == [section |-> sd.section, rows |-> sd.rows]

LEMMA ShownInIs ==
  ASSUME NEW src \in Seq(SectionDatum)
  PROVE  /\ ShownIn(src) \in Seq(Cell) /\ Len(ShownIn(src)) = Len(src)
         /\ DOMAIN ShownIn(src) = DOMAIN src
         /\ \A i \in DOMAIN src : /\ ShownIn(src)[i] = CellOf(src[i])
                                  /\ ShownIn(src)[i].section = src[i].section
                                  /\ ShownIn(src)[i].rows = src[i].rows
         /\ RowsOf(ShownIn(src)) = RowsOf(src)
         /\ RowsOnce(src) => RowsOnce(ShownIn(src))
<1> DEFINE new == ShownIn(src)
<1>1. DOMAIN new = DOMAIN src /\ \A i \in DOMAIN src : new[i] = CellOf(src[i])
  BY DEF ShownIn, CellOf
<1>2. DOMAIN src = 1 .. Len(src) /\ Len(src) \in Nat /\ \A i \in DOMAIN src : src[i] \in SectionDatum
  BY SeqIs
<1>3. \A i \in DOMAIN src : CellOf(src[i]) \in Cell
  BY <1>2 DEF SectionDatum, Cell, CellOf
<1>4. new \in Seq(Cell) /\ Len(new) = Len(src)
  BY <1>1, <1>2, <1>3 DEF ShownIn, CellOf
<1>5. \A i \in DOMAIN src : new[i].section = src[i].section /\ new[i].rows = src[i].rows
  BY <1>1 DEF CellOf
<1> HIDE DEF new
<1>6. RowsOf(new) = RowsOf(src)
  BY <1>1, <1>5 DEF RowsOf, HasRow
<1>7. RowsOnce(src) => RowsOnce(new)
  BY <1>1, <1>5 DEF RowsOnce
<1> QED BY <1>1, <1>4, <1>5, <1>6, <1>7 DEF new

LEMMA SameCell ==
  ASSUME NEW c \in Cell, NEW d \in Cell, c.section = d.section, c.rows = d.rows
  PROVE  c = d
BY DEF Cell

LEMMA SameCells ==
  ASSUME NEW src \in Seq(SectionDatum), NEW c \in Seq(Cell), Len(c) = Len(src),
         \A i \in DOMAIN src : c[i].section = src[i].section /\ c[i].rows = src[i].rows
  PROVE  c = ShownIn(src)
<1>1. DOMAIN src = 1 .. Len(src) /\ DOMAIN c = 1 .. Len(src) /\ Len(src) \in Nat
  OBVIOUS
<1>2. \A i \in DOMAIN src : c[i] \in Cell
  BY <1>1, SeqIs
<1>3. \A i \in DOMAIN src : c[i] = CellOf(src[i])
  BY <1>2 DEF Cell, CellOf
<1>4. /\ ShownIn(src) \in Seq(Cell) /\ Len(ShownIn(src)) = Len(src)
      /\ \A i \in DOMAIN src : ShownIn(src)[i] = CellOf(src[i])
  BY ShownInIs
<1> QED BY <1>1, <1>3, <1>4

LEMMA ShownWithRows ==
  ASSUME NEW src \in Seq(SectionDatum), NEW new, NEW c, NEW i \in DOMAIN src, NEW q,
         IsWithRows(SectionDatum, new, src, i, q), IsWithRows(Cell, c, ShownIn(src), i, q)
  PROVE  c = ShownIn(new)
<1>1. /\ new \in Seq(SectionDatum) /\ Len(new) = Len(src) /\ DOMAIN new = DOMAIN src
      /\ new[i].rows = q /\ new[i].section = src[i].section
      /\ \A j \in DOMAIN src : j # i => new[j] = src[j]
  BY DEF IsWithRows
<1>2. /\ Len(ShownIn(src)) = Len(src) /\ DOMAIN ShownIn(src) = DOMAIN src
      /\ \A j \in DOMAIN src : /\ ShownIn(src)[j].section = src[j].section
                               /\ ShownIn(src)[j].rows = src[j].rows
  BY ShownInIs
<1>3. /\ c \in Seq(Cell) /\ Len(c) = Len(src)
      /\ c[i].rows = q /\ c[i].section = src[i].section
      /\ \A j \in DOMAIN src : j # i => c[j] = ShownIn(src)[j]
  BY <1>2 DEF IsWithRows
<1>4. ASSUME NEW j \in DOMAIN new
      PROVE  c[j].section = new[j].section /\ c[j].rows = new[j].rows
  <2>1. CASE j = i
    BY <1>1, <1>2, <1>3, <2>1
  <2>2. CASE j # i
    BY <1>1, <1>2, <1>3, <2>2
  <2> QED BY <2>1, <2>2
<1> QED BY <1>1, <1>3, <1>4, SameCells

LEMMA ShownRemove ==
  ASSUME NEW src \in Seq(SectionDatum), NEW i \in DOMAIN src
  PROVE  RemoveAt(ShownIn(src), i) = ShownIn(RemoveAt(src, i))
<1> DEFINE n == Len(src)
           new == RemoveAt(src, i)
           c == RemoveAt(ShownIn(src), i)
<1>1. n \in Nat /\ i \in 1 .. n /\ DOMAIN src = 1 .. n
  BY SMTT(20)
<1>2. /\ ShownIn(src) \in Seq(Cell) /\ Len(ShownIn(src)) = n
      /\ \A j \in DOMAIN src : /\ ShownIn(src)[j].section = src[j].section
                               /\ ShownIn(src)[j].rows = src[j].rows
  <2> HIDE DEF new, c
  <2> QED BY ShownInIs, SMTT(20)
<1>3. /\ new \in Seq(SectionDatum) /\ Len(new) = n - 1
      /\ \A j \in 1 .. n - 1 : new[j] = IF j < i THEN src[j] ELSE src[j + 1]
  BY <1>1, RemoveAtIs
<1>4. /\ c \in Seq(Cell) /\ Len(c) = n - 1
      /\ \A j \in 1 .. n - 1 : c[j] = IF j < i THEN ShownIn(src)[j] ELSE ShownIn(src)[j + 1]
  <2> DEFINE s == ShownIn(src)
  <2>1. s \in Seq(Cell) /\ i \in 1 .. Len(s) /\ Len(s) = n
    BY <1>1, <1>2
  <2> HIDE DEF s
  <2>2. /\ RemoveAt(s, i) \in Seq(Cell) /\ Len(RemoveAt(s, i)) = Len(s) - 1
        /\ \A j \in 1 .. Len(s) - 1 : RemoveAt(s, i)[j] = IF j < i THEN s[j] ELSE s[j + 1]
    BY <2>1, RemoveAtIs
  <2> QED BY <2>1, <2>2 DEF s
<1> HIDE DEF new, c, n
<1>5. DOMAIN new = 1 .. n - 1
  BY <1>3
<1>6. \A j \in 1 .. n - 1 : j \in 1 .. n /\ j + 1 \in 1 .. n
  BY <1>1
<1>7. ASSUME NEW j \in DOMAIN new
      PROVE  c[j].section = new[j].section /\ c[j].rows = new[j].rows
  <2>1. CASE j < i
    <3>1. new[j] = src[j] /\ c[j] = ShownIn(src)[j] /\ j \in DOMAIN src
      BY <1>1, <1>3, <1>4, <1>5, <1>6, <2>1
    <3> QED BY <1>2, <3>1
  <2>2. CASE ~(j < i)
    <3>1. new[j] = src[j + 1] /\ c[j] = ShownIn(src)[j + 1] /\ j + 1 \in DOMAIN src
      BY <1>1, <1>3, <1>4, <1>5, <1>6, <2>2
    <3> QED BY <1>2, <3>1
  <2> QED BY <2>1, <2>2
<1>8. Len(c) = Len(new)
  BY <1>3, <1>4
<1>9. c = ShownIn(new)
  BY <1>3, <1>4, <1>7, <1>8, SameCells
<1> QED BY <1>9 DEF c, new

IsInserted(T, q, s, i, e) ==
  /\ q \in Seq(T) /\ Len(q) = Len(s) + 1
  /\ \A j \in 1 .. Len(s) + 1 : q[j] = IF j < i THEN s[j] ELSE IF j = i THEN e ELSE s[j - 1]

LEMMA InsertedIs ==
  ASSUME NEW T, NEW s \in Seq(T), NEW e \in T, NEW i \in 1 .. Len(s) + 1
  PROVE  IsInserted(T, InsertAt(s, i, e), s, i, e)
<1>1. /\ InsertAt(s, i, e) \in Seq(T) /\ Len(InsertAt(s, i, e)) = Len(s) + 1
      /\ \A j \in 1 .. Len(s) + 1 :
           InsertAt(s, i, e)[j] = IF j < i THEN s[j] ELSE IF j = i THEN e ELSE s[j - 1]
  BY InsertAtIs
<1> QED BY <1>1 DEF IsInserted

LEMMA ShownInsert ==
  ASSUME NEW src \in Seq(SectionDatum), NEW sd \in SectionDatum, NEW i \in 1 .. Len(src) + 1
  PROVE  InsertAt(ShownIn(src), i, CellOf(sd)) = ShownIn(InsertAt(src, i, sd))
<1> DEFINE n == Len(src)
           new == InsertAt(src, i, sd)
           c == InsertAt(ShownIn(src), i, CellOf(sd))
<1>1. n \in Nat /\ i \in 1 .. n + 1 /\ DOMAIN src = 1 .. n
  OBVIOUS
<1>2. /\ ShownIn(src) \in Seq(Cell) /\ Len(ShownIn(src)) = n
      /\ \A j \in DOMAIN src : /\ ShownIn(src)[j].section = src[j].section
                               /\ ShownIn(src)[j].rows = src[j].rows
  BY ShownInIs
<1>3. /\ new \in Seq(SectionDatum) /\ Len(new) = n + 1
      /\ \A j \in 1 .. n + 1 : new[j] = IF j < i THEN src[j] ELSE IF j = i THEN sd ELSE src[j - 1]
  BY <1>1, InsertAtIs
<1>0. CellOf(sd) \in Cell /\ CellOf(sd).section = sd.section /\ CellOf(sd).rows = sd.rows
  BY DEF CellOf, Cell, SectionDatum
<1>4. /\ c \in Seq(Cell) /\ Len(c) = n + 1
      /\ \A j \in 1 .. n + 1 : c[j] = IF j < i THEN ShownIn(src)[j]
                                      ELSE IF j = i THEN CellOf(sd) ELSE ShownIn(src)[j - 1]
  <2>1. IsInserted(Cell, c, ShownIn(src), i, CellOf(sd))
    <3>1. i \in 1 .. Len(ShownIn(src)) + 1
      BY <1>1, <1>2
    <3> QED BY <1>0, <1>2, <3>1, InsertedIs
  <2> QED BY <1>2, <2>1 DEF IsInserted
<1> HIDE DEF new, c, n
<1>5. DOMAIN new = 1 .. n + 1
  BY <1>1, <1>3
<1>6. \A j \in 1 .. n + 1 : (j < i => j \in 1 .. n) /\ (~(j < i) /\ j # i => j - 1 \in 1 .. n)
  BY <1>1
<1>7. ASSUME NEW j \in DOMAIN new
      PROVE  c[j].section = new[j].section /\ c[j].rows = new[j].rows
  <2>1. CASE j < i
    <3>1. new[j] = src[j] /\ c[j] = ShownIn(src)[j] /\ j \in DOMAIN src
      BY <1>1, <1>3, <1>4, <1>5, <1>6, <2>1
    <3> QED BY <1>2, <3>1
  <2>2. CASE j = i
    <3>1. new[j] = sd /\ c[j] = CellOf(sd)
      BY <1>1, <1>3, <1>4, <1>5, <2>2
    <3> QED BY <1>0, <3>1
  <2>3. CASE ~(j < i) /\ j # i
    <3>1. new[j] = src[j - 1] /\ c[j] = ShownIn(src)[j - 1] /\ j - 1 \in DOMAIN src
      BY <1>1, <1>3, <1>4, <1>5, <1>6, <2>3
    <3> QED BY <1>2, <3>1
  <2> QED BY <2>1, <2>2, <2>3
<1>8. Len(c) = Len(new)
  BY <1>3, <1>4
<1>9. c = ShownIn(new)
  BY <1>3, <1>4, <1>7, <1>8, SameCells
<1> QED BY <1>9 DEF c, new

-----------------------------------------------------------------------------
(* What stays as it was.                                                   *)

LEMMA WithRowsHas ==
  ASSUME NEW src \in Seq(SectionDatum), NEW new, NEW i \in DOMAIN src, NEW q,
         IsWithRows(SectionDatum, new, src, i, q)
  PROVE  /\ Sections(new) = Sections(src) /\ Active(new) = Active(src)
         /\ Keyed(src) => Keyed(new)
         /\ \A A : Flagged(src, A) => Flagged(new, A)
         /\ OneKind(src) /\ (\A k \in DOMAIN q : KindOf[q[k]] = src[i].section) => OneKind(new)
<1>1. /\ DOMAIN new = DOMAIN src /\ new[i].rows = q
      /\ \A j \in DOMAIN src : j # i => new[j] = src[j]
      /\ \A j \in DOMAIN src : new[j].section = src[j].section /\ new[j].isActive = src[j].isActive
  BY DEF IsWithRows
<1>2. Sections(new) = Sections(src)
  BY <1>1 DEF Sections
<1>3. Active(new) = Active(src)
  BY <1>1 DEF Active
<1>4. Keyed(src) => Keyed(new)
  BY <1>1 DEF Keyed
<1>5. \A A : Flagged(src, A) => Flagged(new, A)
  BY <1>1 DEF Flagged
<1>6. ASSUME OneKind(src), \A k \in DOMAIN q : KindOf[q[k]] = src[i].section PROVE OneKind(new)
  <2> SUFFICES ASSUME NEW j \in DOMAIN new, NEW k \in DOMAIN new[j].rows
               PROVE  KindOf[new[j].rows[k]] = new[j].section
    BY DEF OneKind, Range
  <2>1. CASE j = i
    BY <1>1, <1>6, <2>1
  <2>2. CASE j # i
    BY <1>1, <1>6, <2>2 DEF OneKind, Range
  <2> QED BY <2>1, <2>2
<1> QED BY <1>2, <1>3, <1>4, <1>5, <1>6

\* The rows of a section are of its kind, and in no other section.
LEMMA KindIs ==
  ASSUME NEW src, OneKind(src)
  PROVE  \A i \in DOMAIN src : \A k \in DOMAIN src[i].rows : KindOf[src[i].rows[k]] = src[i].section
BY DEF OneKind, Range

LEMMA KindOfRow ==
  ASSUME NEW src, OneKind(src), Keyed(src), NEW r \in RowsOf(src)
  PROVE  /\ KindOf[r] \in Sections(src)
         /\ \A i \in DOMAIN src : src[i].section = KindOf[r] => HasRow(src[i], r)
<1>1. PICK i \in DOMAIN src : HasRow(src[i], r)
  BY DEF RowsOf
<1>2. KindOf[r] = src[i].section
  BY <1>1, KindIs DEF HasRow
<1> QED BY <1>1, <1>2 DEF Sections, Keyed

LEMMA LessRowsHas ==
  ASSUME NEW src \in Seq(SectionDatum), NEW i \in DOMAIN src, NEW k \in DOMAIN src[i].rows,
         RowsOnce(src), NEW new, new = LessRows(src, i, k)
  PROVE  /\ new \in Seq(SectionDatum) /\ DOMAIN new = DOMAIN src /\ RowsOnce(new)
         /\ RowsOf(new) = RowsOf(src) \ {src[i].rows[k]}
         /\ Sections(new) = Sections(src) /\ Active(new) = Active(src)
         /\ Keyed(src) => Keyed(new)
         /\ \A A : Flagged(src, A) => Flagged(new, A)
         /\ OneKind(src) => OneKind(new)
         /\ \A j \in DOMAIN src : new[j].section = src[j].section
<1> DEFINE q == RemoveAt(src[i].rows, k)
<1>0. IsRowed(SectionDatum)
  BY DEF IsRowed
<1>1. /\ IsWithRows(SectionDatum, new, src, i, q)
      /\ RowsOf(new) = RowsOf(src) \ {src[i].rows[k]} /\ RowsOnce(new)
  BY <1>0, DropRow
<1>2. /\ src[i].rows \in Seq(Row) /\ Len(src[i].rows) \in Nat /\ DOMAIN src[i].rows = 1 .. Len(src[i].rows)
  BY <1>0, SeqIs, DatumIs
<1>3. \A j \in DOMAIN q : \E m \in DOMAIN src[i].rows : q[j] = src[i].rows[m]
  <2>1. /\ q \in Seq(Row) /\ Len(q) = Len(src[i].rows) - 1
        /\ \A j \in 1 .. Len(src[i].rows) - 1 :
             q[j] = IF j < k THEN src[i].rows[j] ELSE src[i].rows[j + 1]
    <3>1. src[i].rows \in Seq(Row) /\ k \in 1 .. Len(src[i].rows)
      BY <1>2
    <3> QED BY <3>1, RemoveAtIs
  <2> HIDE DEF q
  <2>2. DOMAIN q = 1 .. Len(src[i].rows) - 1
    BY <2>1
  <2>3. \A j \in DOMAIN q : j \in DOMAIN src[i].rows /\ j + 1 \in DOMAIN src[i].rows
    BY <1>2, <2>2
  <2> QED BY <2>1, <2>2, <2>3
<1> HIDE DEF q
<1>4. OneKind(src) => \A j \in DOMAIN q : KindOf[q[j]] = src[i].section
  BY <1>3, KindIs
<1>5. /\ Sections(new) = Sections(src) /\ Active(new) = Active(src)
      /\ Keyed(src) => Keyed(new)
      /\ \A A : Flagged(src, A) => Flagged(new, A)
      /\ OneKind(src) /\ (\A j \in DOMAIN q : KindOf[q[j]] = src[i].section) => OneKind(new)
  BY <1>1, WithRowsHas
<1>6. new \in Seq(SectionDatum) /\ DOMAIN new = DOMAIN src /\ \A j \in DOMAIN src : new[j].section = src[j].section
  BY <1>1 DEF IsWithRows
<1> QED BY <1>1, <1>4, <1>5, <1>6

LEMMA LessSectionHas ==
  ASSUME NEW src \in Seq(SectionDatum), NEW i \in DOMAIN src, Keyed(src), NEW new, new = RemoveAt(src, i)
  PROVE  /\ new \in Seq(SectionDatum) /\ Keyed(new)
         /\ Sections(new) = Sections(src) \ {src[i].section}
         /\ Active(new) = Active(src) \ {src[i].section}
         /\ RowsOf(new) \subseteq RowsOf(src)
         /\ RowsOf(src) \subseteq RowsOf(new) \cup {r \in Row : HasRow(src[i], r)}
         /\ RowsOnce(src) => RowsOnce(new)
         /\ OneKind(src) => OneKind(new)
         /\ \A A : Flagged(src, A) => Flagged(new, A)
<1>0. PICK D \in SUBSET DOMAIN src : D = DOMAIN src \ {i}
  OBVIOUS
<1>1. new \in Seq(SectionDatum) /\ Picks(new, src, D)
  BY <1>0, RemovePicks
<1>2. /\ RowsOf(new) = {r \in Row : \E j \in D : HasRow(src[j], r)}
      /\ Sections(new) = {src[j].section : j \in D}
      /\ Active(new) = {src[j].section : j \in {j \in D : src[j].isActive}}
      /\ Keyed(src) => Keyed(new)
      /\ RowsOnce(src) => RowsOnce(new)
      /\ OneKind(src) => OneKind(new)
      /\ \A A : Flagged(src, A) => Flagged(new, A)
  <2>1. HasPicked(new, src, D)
    BY <1>1, PickedHas
  <2> QED BY <2>1 DEF HasPicked
<1>7. \A j \in DOMAIN src : j \in D \/ j = i
  BY <1>0
<1>8. \A j \in D : j \in DOMAIN src /\ src[j].section # src[i].section
  BY <1>0 DEF Keyed
<1>3. Sections(new) = Sections(src) \ {src[i].section}
  BY <1>2, <1>7, <1>8 DEF Sections
<1>4. Active(new) = Active(src) \ {src[i].section}
  BY <1>2, <1>7, <1>8 DEF Active
<1>5. RowsOf(new) \subseteq RowsOf(src)
  BY <1>0, <1>2 DEF RowsOf
<1>6. RowsOf(src) \subseteq RowsOf(new) \cup {r \in Row : HasRow(src[i], r)}
  BY <1>0, <1>2 DEF RowsOf
<1> QED BY <1>0, <1>1, <1>2, <1>3, <1>4, <1>5, <1>6

-----------------------------------------------------------------------------
(* The lists.                                                              *)

Lists ==
  [all : Seq(SectionDatum), view : Seq(SectionDatum), snap : Seq(Cell),
   trapped : BOOLEAN, updating : BOOLEAN]

\* What is on show is of all that there is, and each once.
Fits(a, v) ==
  /\ a \in Seq(SectionDatum) /\ Keyed(a) /\ RowsOnce(a) /\ OneKind(a)
  /\ v \in Seq(SectionDatum) /\ Keyed(v) /\ RowsOnce(v)
  /\ RowsOf(v) \subseteq RowsOf(a) /\ Sections(v) \subseteq Active(a)

\* Whatever the table shows;
Loose(l) ==
  /\ l \in Lists /\ Fits(l.all, l.view)
  /\ RowsOnce(l.snap) /\ RowsOf(l.snap) \subseteq RowsOf(l.all)

\* the table shows what the view model has;
Firm(l) == l \in Lists /\ Fits(l.all, l.view) /\ l.snap = ShownIn(l.view)

\* and each row in its own section.
Tight(l) == Firm(l) /\ OneKind(l.view)

LEMMA FirmIsLoose ==
  ASSUME NEW l, Firm(l)
  PROVE  Loose(l)
<1>1. l.view \in Seq(SectionDatum) /\ RowsOnce(l.view) /\ RowsOf(l.view) \subseteq RowsOf(l.all)
  BY DEF Firm, Fits
<1>2. RowsOf(ShownIn(l.view)) = RowsOf(l.view) /\ RowsOnce(ShownIn(l.view))
  BY <1>1, ShownInIs
<1> QED BY <1>1, <1>2 DEF Firm, Loose

\* A row is out of the list of all.
LEMMA FitsLessRow ==
  ASSUME NEW a, NEW v, Fits(a, v), NEW i \in DOMAIN a, NEW k \in DOMAIN a[i].rows,
         a[i].rows[k] \notin RowsOf(v)
  PROVE  Fits(LessRows(a, i, k), v)
<1>1. /\ a \in Seq(SectionDatum) /\ Keyed(a) /\ RowsOnce(a) /\ OneKind(a)
      /\ v \in Seq(SectionDatum) /\ Keyed(v) /\ RowsOnce(v)
      /\ RowsOf(v) \subseteq RowsOf(a) /\ Sections(v) \subseteq Active(a)
  BY DEF Fits
<1> DEFINE new == LessRows(a, i, k)
<1>2. /\ new \in Seq(SectionDatum) /\ RowsOnce(new)
      /\ RowsOf(new) = RowsOf(a) \ {a[i].rows[k]}
      /\ Active(new) = Active(a)
      /\ Keyed(a) => Keyed(new)
      /\ OneKind(a) => OneKind(new)
  BY <1>1, LessRowsHas
<1> QED BY <1>1, <1>2 DEF Fits

\* A row is off the list of what is on show.
LEMMA FitsHiddenRow ==
  ASSUME NEW a, NEW v, Fits(a, v), NEW i \in DOMAIN v, NEW k \in DOMAIN v[i].rows
  PROVE  Fits(a, LessRows(v, i, k))
<1>1. /\ a \in Seq(SectionDatum) /\ Keyed(a) /\ RowsOnce(a) /\ OneKind(a)
      /\ v \in Seq(SectionDatum) /\ Keyed(v) /\ RowsOnce(v)
      /\ RowsOf(v) \subseteq RowsOf(a) /\ Sections(v) \subseteq Active(a)
  BY DEF Fits
<1> DEFINE new == LessRows(v, i, k)
<1>2. /\ new \in Seq(SectionDatum) /\ RowsOnce(new)
      /\ RowsOf(new) = RowsOf(v) \ {v[i].rows[k]}
      /\ Sections(new) = Sections(v)
      /\ Keyed(v) => Keyed(new)
  BY <1>1, LessRowsHas
<1> QED BY <1>1, <1>2 DEF Fits

\* A section is off the list of what is on show.
LEMMA FitsHiddenSection ==
  ASSUME NEW a, NEW v, Fits(a, v), NEW i \in DOMAIN v
  PROVE  /\ Fits(a, RemoveAt(v, i))
         /\ Sections(RemoveAt(v, i)) = Sections(v) \ {v[i].section}
         /\ OneKind(v) => OneKind(RemoveAt(v, i))
<1>1. /\ a \in Seq(SectionDatum) /\ Keyed(a) /\ RowsOnce(a) /\ OneKind(a)
      /\ v \in Seq(SectionDatum) /\ Keyed(v) /\ RowsOnce(v)
      /\ RowsOf(v) \subseteq RowsOf(a) /\ Sections(v) \subseteq Active(a)
  BY DEF Fits
<1> DEFINE new == RemoveAt(v, i)
<1>2. /\ new \in Seq(SectionDatum) /\ Keyed(new)
      /\ Sections(new) = Sections(v) \ {v[i].section}
      /\ RowsOf(new) \subseteq RowsOf(v)
      /\ RowsOnce(v) => RowsOnce(new)
      /\ OneKind(v) => OneKind(new)
  BY <1>1, LessSectionHas
<1> QED BY <1>1, <1>2 DEF Fits

\* A section is out of the list of all: it and its rows were not on show.
LEMMA FitsLessSection ==
  ASSUME NEW a, NEW v, Fits(a, v), NEW i \in DOMAIN a, a[i].section \notin Sections(v),
         \A r \in RowsOf(v) : ~HasRow(a[i], r)
  PROVE  Fits(RemoveAt(a, i), v)
<1>1. /\ a \in Seq(SectionDatum) /\ Keyed(a) /\ RowsOnce(a) /\ OneKind(a)
      /\ v \in Seq(SectionDatum) /\ Keyed(v) /\ RowsOnce(v)
      /\ RowsOf(v) \subseteq RowsOf(a) /\ Sections(v) \subseteq Active(a)
  BY DEF Fits
<1> DEFINE new == RemoveAt(a, i)
<1>2. /\ new \in Seq(SectionDatum) /\ Keyed(new)
      /\ Active(new) = Active(a) \ {a[i].section}
      /\ RowsOf(a) \subseteq RowsOf(new) \cup {r \in Row : HasRow(a[i], r)}
      /\ RowsOnce(a) => RowsOnce(new)
      /\ OneKind(a) => OneKind(new)
  BY <1>1, LessSectionHas
<1>3. RowsOf(v) \subseteq RowsOf(new)
  BY <1>1, <1>2
<1> QED BY <1>1, <1>2, <1>3 DEF Fits

-----------------------------------------------------------------------------
(* What is to be shown.                                                    *)

\* Every section with something to show is on show,
Shown(l) == Available(l.all) \subseteq Sections(l.view)
\* and none that the scope leaves out.
Reached(l) == Sections(l.view) \cap Unsearched(l.all) = {}

\* If l is like that, so is m.
Keeps(l, m) ==
  /\ Unsearched(m.all) \subseteq Unsearched(l.all)
  /\ Shown(l) => Shown(m)
  /\ Reached(l) => Reached(m)

LEMMA KeepsAlike ==
  ASSUME NEW l, NEW m, m.all = l.all, m.view = l.view
  PROVE  Keeps(l, m)
BY DEF Keeps, Shown, Reached

LEMMA KeepsStill ==
  ASSUME NEW l, NEW m, NEW p, Keeps(l, m), Keeps(m, p)
  PROVE  Keeps(l, p)
BY DEF Keeps

\* No section comes, and what there is to show of one that goes is nothing.
LEMMA KeepsLess ==
  ASSUME NEW l, NEW m, Unsearched(m.all) \subseteq Unsearched(l.all),
         Available(m.all) \subseteq Available(l.all), Sections(m.view) \subseteq Sections(l.view),
         (Sections(l.view) \ Sections(m.view)) \cap Available(m.all) = {}
  PROVE  Keeps(l, m)
BY DEF Keeps, Shown, Reached

\* The sections that come are searched.
LEMMA KeepsMore ==
  ASSUME NEW l, NEW m, Unsearched(m.all) \subseteq Unsearched(l.all),
         Sections(l.view) \subseteq Sections(m.view),
         Available(m.all) \subseteq Available(l.all) \cup Sections(m.view),
         (Sections(m.view) \ Sections(l.view)) \cap Unsearched(m.all) = {}
  PROVE  Keeps(l, m)
BY DEF Keeps, Shown, Reached

\* What a section is at the place of a row.
LEMMA RowIsIn ==
  ASSUME NEW src \in Seq(SectionDatum), NEW i \in DOMAIN src
  PROVE  src[i].rows \in Seq(Row)
<1>1. src[i] \in SectionDatum
  BY SeqIs
<1> QED BY <1>1 DEF SectionDatum

LEMMA LessRowsShow ==
  ASSUME NEW src \in Seq(SectionDatum), NEW i \in DOMAIN src, NEW k \in DOMAIN src[i].rows,
         NEW new, new = LessRows(src, i, k)
  PROVE  Available(new) \subseteq Available(src) /\ Unsearched(new) = Unsearched(src)
<1> DEFINE q == RemoveAt(src[i].rows, k)
<1>1. src[i].rows \in Seq(Row) /\ q \in Seq(Row)
  BY RowIsIn, RemoveAtIs
<1>2. IsWithRows(SectionDatum, new, src, i, q)
  <2>1. IsRowed(SectionDatum) /\ new = WithRows(src, i, q)
    BY DEF IsRowed, WithRows, LessRows
  <2> HIDE DEF q
  <2> QED BY <1>1, <2>1, SetRows
<1>3. /\ DOMAIN new = DOMAIN src /\ src[i].rows # <<>>
      /\ \A j \in DOMAIN src : j # i => new[j] = src[j]
      /\ \A j \in DOMAIN src : /\ new[j].section = src[j].section /\ new[j].isActive = src[j].isActive
                               /\ new[j].isSearched = src[j].isSearched
  BY <1>1, <1>2 DEF IsWithRows
<1>4. Unsearched(new) = Unsearched(src)
  BY <1>3 DEF Unsearched
<1>5. \A j \in DOMAIN src : isAvailable(new[j]) => isAvailable(src[j])
  BY <1>3 DEF isAvailable
<1>6. Available(new) \subseteq Available(src)
  BY <1>3, <1>5 DEF Available
<1> QED BY <1>4, <1>6

LEMMA LessSectionShows ==
  ASSUME NEW src \in Seq(SectionDatum), NEW i \in DOMAIN src, Keyed(src), NEW new, new = RemoveAt(src, i)
  PROVE  /\ Available(new) = Available(src) \ {src[i].section}
         /\ Unsearched(new) = Unsearched(src) \ {src[i].section}
<1>0. PICK D \in SUBSET DOMAIN src : D = DOMAIN src \ {i}
  OBVIOUS
<1>1. new \in Seq(SectionDatum) /\ Picks(new, src, D)
  BY <1>0, RemovePicks
<1>2. PICK at \in [1 .. Len(new) -> D] :
        /\ \A k \in 1 .. Len(new) : new[k] = src[at[k]]
        /\ \A j \in D : \E k \in 1 .. Len(new) : at[k] = j
  BY <1>1 DEF Picks
<1>3. \A k \in DOMAIN new : at[k] \in D /\ at[k] \in DOMAIN src /\ new[k] = src[at[k]]
  BY <1>0, <1>1, <1>2
<1>4. \A j \in D : \E k \in DOMAIN new : new[k] = src[j]
  BY <1>1, <1>2
<1>5. \A j \in DOMAIN src : src[j].section # src[i].section <=> j \in D
  BY <1>0 DEF Keyed
<1>6. Available(new) = Available(src) \ {src[i].section}
  BY <1>3, <1>4, <1>5 DEF Available
<1>7. Unsearched(new) = Unsearched(src) \ {src[i].section}
  BY <1>3, <1>4, <1>5 DEF Unsearched
<1> QED BY <1>6, <1>7

-----------------------------------------------------------------------------
(* A row is removed.                                                       *)

\* m is l less the rows R, on show too, and perhaps less the sections S.
Less(l, m, R, S) ==
  /\ Tight(m)
  /\ RowsOf(m.all) = RowsOf(l.all) \ R
  /\ Sections(m.all) \subseteq Sections(l.all)
  /\ Sections(l.all) \ Sections(m.all) \subseteq S
  /\ \A A : Flagged(l.all, A) => Flagged(m.all, A)
  /\ m.updating = l.updating
  /\ Keeps(l, m)

\* A row of a section, taken off both lists at its place.
LEMMA FitsLessBoth ==
  ASSUME NEW a, NEW v, Fits(a, v), OneKind(v), NEW i \in DOMAIN a, NEW k \in DOMAIN a[i].rows,
         NEW j \in DOMAIN v, NEW h \in DOMAIN v[j].rows, v[j].rows[h] = a[i].rows[k]
  PROVE  /\ Fits(LessRows(a, i, k), LessRows(v, j, h)) /\ OneKind(LessRows(v, j, h))
         /\ LessRows(v, j, h) \in Seq(SectionDatum) /\ DOMAIN LessRows(v, j, h) = DOMAIN v
         /\ \A x \in DOMAIN v : LessRows(v, j, h)[x].section = v[x].section
         /\ LessRows(ShownIn(v), j, h) = ShownIn(LessRows(v, j, h))
<1> DEFINE w == LessRows(v, j, h)
<1>1. /\ v \in Seq(SectionDatum) /\ Keyed(v) /\ RowsOnce(v)
  BY DEF Fits
<1>2. /\ w \in Seq(SectionDatum) /\ RowsOnce(w) /\ DOMAIN w = DOMAIN v
      /\ RowsOf(w) = RowsOf(v) \ {v[j].rows[h]}
      /\ OneKind(v) => OneKind(w)
      /\ \A x \in DOMAIN v : w[x].section = v[x].section
  BY <1>1, LessRowsHas
<1>3. Fits(a, w)
  BY FitsHiddenRow
<1>4. a[i].rows[k] \notin RowsOf(w)
  BY <1>2
<1>5. Fits(LessRows(a, i, k), w)
  <2> HIDE DEF w
  <2> QED BY <1>3, <1>4, FitsLessRow
<1>6. LessRows(ShownIn(v), j, h) = ShownIn(w)
  <2> DEFINE c == ShownIn(v)
  <2>0. IsRowed(SectionDatum) /\ IsRowed(Cell)
    BY DEF IsRowed
  <2>1. c \in Seq(Cell) /\ RowsOnce(c) /\ j \in DOMAIN c /\ c[j].rows = v[j].rows
    BY <1>1, ShownInIs
  <2> HIDE DEF c
  <2>2. h \in DOMAIN c[j].rows
    BY <2>1
  <2>3. IsWithRows(Cell, LessRows(c, j, h), c, j, RemoveAt(c[j].rows, h))
    BY <2>0, <2>1, <2>2, DropRow
  <2>4. IsWithRows(SectionDatum, w, v, j, RemoveAt(v[j].rows, h))
    BY <2>0, <1>1, DropRow
  <2>5. IsWithRows(Cell, LessRows(c, j, h), ShownIn(v), j, RemoveAt(v[j].rows, h))
    BY <2>1, <2>3 DEF c
  <2> QED BY <1>1, <2>4, <2>5, ShownWithRows DEF c
<1> QED BY <1>2, <1>5, <1>6

LEMMA RemoveFirstIs ==
  ASSUME NEW q \in Seq(Row), NEW r, \E k \in DOMAIN q : q[k] = r
  PROVE  \E k \in DOMAIN q : q[k] = r /\ RemoveFirst(q, r) = RemoveAt(q, k)
<1>1. \E i \in 1 .. Len(q) : q[i] = r
  OBVIOUS
<1>2. /\ SelectInSeq(q, LAMBDA x : x = r) \in DOMAIN q
      /\ q[SelectInSeq(q, LAMBDA x : x = r)] = r
  BY RowIndexIs
<1> QED BY <1>1, <1>2 DEF RemoveFirst

LEMMA RemoveRowIs ==
  ASSUME NEW l, Tight(l), NEW r \in Row
  PROVE  Less(l, RemoveRow(l, r), {r}, {KindOf[r]})
<1> DEFINE a == l.all
           v == l.view
           i == IndexOfRow(a, r)
<1>1. l \in Lists /\ Fits(a, v) /\ l.snap = ShownIn(v) /\ OneKind(v)
  BY DEF Tight, Firm
<1>2. /\ a \in Seq(SectionDatum) /\ Keyed(a) /\ RowsOnce(a) /\ OneKind(a)
      /\ v \in Seq(SectionDatum) /\ Keyed(v) /\ RowsOnce(v)
      /\ RowsOf(v) \subseteq RowsOf(a) /\ Sections(v) \subseteq Active(a)
  BY <1>1 DEF Fits
<1>3. IsRowed(SectionDatum)
  BY DEF IsRowed
<1>4. /\ i = 0 <=> r \notin RowsOf(a)
      /\ i # 0 => i \in DOMAIN a /\ HasRow(a[i], r)
  BY <1>2, <1>3, IndexOfRowIs
<1>5. CASE i = 0
  <2>1. RemoveRow(l, r) = l
    BY <1>5 DEF RemoveRow
  <2>2. RowsOf(l.all) = RowsOf(l.all) \ {r}
    BY <1>4, <1>5
  <2>3. Keeps(l, l)
    BY KeepsAlike
  <2> QED BY <2>1, <2>2, <2>3 DEF Less
<1>6. CASE i # 0
  <2>1. i \in DOMAIN a /\ HasRow(a[i], r) /\ a[i].rows \in Seq(Row)
    BY <1>2, <1>4, <1>6, RowIsIn
  <2> HIDE DEF i
  <2>2. PICK k \in DOMAIN a[i].rows : a[i].rows[k] = r /\ RemoveFirst(a[i].rows, r) = RemoveAt(a[i].rows, k)
    BY <2>1, RemoveFirstIs DEF HasRow
  <2> DEFINE b == LessRows(a, i, k)
             less == [l EXCEPT !.all[i].rows = RemoveFirst(@, r)]
  <2>3. /\ b \in Seq(SectionDatum) /\ DOMAIN b = DOMAIN a /\ RowsOnce(b)
        /\ RowsOf(b) = RowsOf(a) \ {r}
        /\ Sections(b) = Sections(a) /\ Active(b) = Active(a)
        /\ Keyed(b) /\ OneKind(b)
        /\ \A A : Flagged(a, A) => Flagged(b, A)
        /\ \A j \in DOMAIN a : b[j].section = a[j].section
    BY <1>2, <2>1, <2>2, LessRowsHas
  <2>4. less = [l EXCEPT !.all = b]
    BY <2>2 DEF LessRows
  <2>5. less \in Lists /\ less.all = b /\ less.view = v /\ less.snap = ShownIn(v) /\ less.updating = l.updating
    <3> HIDE DEF b, less
    <3> QED BY <1>1, <2>3, <2>4 DEF Lists
  <2> HIDE DEF b, less
  <2>6. RemoveRow(l, r) = IF ~a[i].isActive \/ IndexOfRow(v, r) = 0 THEN less ELSE HideRow(less, r, i)
    BY <1>6 DEF RemoveRow, less, i
  <2>7. /\ IndexOfRow(v, r) = 0 <=> r \notin RowsOf(v)
        /\ IndexOfRow(v, r) # 0 => IndexOfRow(v, r) \in DOMAIN v /\ HasRow(v[IndexOfRow(v, r)], r)
    BY <1>2, <1>3, IndexOfRowIs
  <2>8. a[i].section = KindOf[r] /\ a[i].section \in Sections(a)
    BY <1>2, <2>1, <2>2, KindIs DEF Sections
  <2>9. Available(b) \subseteq Available(a) /\ Unsearched(b) = Unsearched(a)
    BY <1>2, <2>1, <2>2, LessRowsShow DEF b
  <2>10. CASE r \notin RowsOf(v)
    <3>1. Fits(b, v)
      BY <1>1, <2>1, <2>2, <2>10, FitsLessRow DEF b
    <3>2. Tight(less)
      BY <1>1, <2>5, <3>1 DEF Tight, Firm
    <3>3. RemoveRow(l, r) = less
      BY <2>6, <2>7, <2>10
    <3>4. Keeps(l, less)
      BY <2>5, <2>9, KeepsLess
    <3> QED BY <2>3, <2>5, <3>2, <3>3, <3>4 DEF Less
  <2>11. CASE r \in RowsOf(v)
    <3>1. a[i].isActive
      <4>1. KindOf[r] \in Sections(v)
        BY <1>1, <1>2, <2>11, KindOfRow
      <4>2. PICK j \in DOMAIN a : a[j].isActive /\ a[j].section = KindOf[r]
        BY <1>2, <4>1 DEF Active
      <4> QED BY <1>2, <2>1, <2>8, <4>2 DEF Keyed
    <3> DEFINE j == IndexOfRow(v, r)
               h == SelectInSeq(v[j].rows, LAMBDA q : q = r)
               u == LessRows(v, j, h)
    <3>2. j # 0 /\ j \in DOMAIN v /\ HasRow(v[j], r) /\ v[j].rows \in Seq(Row)
      BY <1>2, <2>7, <2>11, RowIsIn
    <3> HIDE DEF j
    <3>3. h \in DOMAIN v[j].rows /\ v[j].rows[h] = r
      BY <3>2, RowIndexIs DEF HasRow
    <3> HIDE DEF h
    <3>4. /\ Fits(b, u) /\ OneKind(u) /\ u \in Seq(SectionDatum) /\ DOMAIN u = DOMAIN v
          /\ \A x \in DOMAIN v : u[x].section = v[x].section
          /\ LessRows(ShownIn(v), j, h) = ShownIn(u)
      BY <1>1, <2>1, <2>2, <3>2, <3>3, FitsLessBoth DEF b
    <3> DEFINE off == [less EXCEPT !.view[j].rows = RemoveAt(@, h)]
               gone == DeleteRowAt(off, j, h)
    <3>5. off = [less EXCEPT !.view = u]
      BY <2>5 DEF LessRows
    <3>6. off \in Lists /\ off.all = b /\ off.view = u /\ off.snap = ShownIn(v) /\ off.updating = l.updating
      <4> HIDE DEF off, u
      <4> QED BY <2>5, <3>4, <3>5 DEF Lists
    <3>7. gone = [off EXCEPT !.snap = ShownIn(u)]
      <4>1. Len(ShownIn(v)) = Len(v) /\ ShownIn(v)[j].rows = v[j].rows
        BY <1>2, <3>2, ShownInIs
      <4>2. ~(j > Len(ShownIn(v))) /\ ~(h > Len(v[j].rows))
        BY <1>2, <3>2, <3>3, <4>1
      <4>3. gone = [off EXCEPT !.snap[j].rows = RemoveAt(@, h)]
        <5> HIDE DEF off
        <5> QED BY <3>6, <4>1, <4>2 DEF DeleteRowAt
      <4> HIDE DEF off, u
      <4> QED BY <3>4, <3>6, <4>3 DEF LessRows
    <3> HIDE DEF u, off
    <3>8. gone \in Lists /\ gone.all = b /\ gone.view = u /\ gone.snap = ShownIn(u) /\ gone.updating = l.updating
      <4>1. ShownIn(u) \in Seq(Cell)
        BY <3>4, ShownInIs
      <4> HIDE DEF gone
      <4> QED BY <3>6, <3>7, <4>1 DEF Lists
    <3> HIDE DEF gone
    <3> DEFINE w == IndexOf(v, a[i].section)
    <3>9. RemoveRow(l, r) = HideRow(less, r, i)
      BY <2>6, <3>1, <3>2 DEF j
    <3>10. HideRow(less, r, i)
             = IF b[i].rows # <<>> \/ w = 0 THEN gone
               ELSE DeleteSectionAt([gone EXCEPT !.all = RemoveAt(@, i), !.view = RemoveAt(@, w)], w)
      BY <2>1, <2>3, <2>5 DEF HideRow, gone, off, h, j
    <3>11. Sections(u) = Sections(v)
      BY <3>4 DEF Sections
    <3>12. CASE b[i].rows # <<>> \/ w = 0
      <4>1. Tight(gone)
        BY <3>4, <3>8 DEF Tight, Firm
      <4>2. Keeps(l, gone)
        BY <2>9, <3>8, <3>11, KeepsLess
      <4> QED BY <2>3, <3>8, <3>9, <3>10, <3>12, <4>1, <4>2 DEF Less
    <3>13. CASE b[i].rows = <<>> /\ w # 0
      <4>1. w \in DOMAIN v /\ v[w].section = a[i].section
        BY <1>2, <3>13, IndexIs
      <4> HIDE DEF w
      <4> DEFINE c == RemoveAt(b, i)
                 x == RemoveAt(u, w)
                 cut == [gone EXCEPT !.all = RemoveAt(@, i), !.view = RemoveAt(@, w)]
      <4>2. /\ Fits(b, x) /\ Sections(x) = Sections(u) \ {a[i].section} /\ OneKind(x)
        BY <3>4, <4>1, FitsHiddenSection
      <4>3. Fits(c, x)
        <5>1. i \in DOMAIN b /\ b[i].section \notin Sections(x) /\ \A q : ~HasRow(b[i], q)
          BY <2>1, <2>3, <3>13, <4>2 DEF HasRow
        <5> HIDE DEF x
        <5> QED BY <4>2, <5>1, FitsLessSection
      <4>4. /\ c \in Seq(SectionDatum) /\ Keyed(c)
            /\ Sections(c) = Sections(b) \ {b[i].section}
            /\ RowsOf(c) \subseteq RowsOf(b)
            /\ RowsOf(b) \subseteq RowsOf(c) \cup {q \in Row : HasRow(b[i], q)}
            /\ \A A : Flagged(b, A) => Flagged(c, A)
        BY <2>1, <2>3, LessSectionHas
      <4>5. RowsOf(c) = RowsOf(a) \ {r}
        <5>1. {q \in Row : HasRow(b[i], q)} = {}
          BY <3>13 DEF HasRow
        <5> QED BY <2>3, <4>4, <5>1
      <4>6. x \in Seq(SectionDatum) /\ ShownIn(x) \in Seq(Cell) /\ RemoveAt(ShownIn(u), w) = ShownIn(x)
        <5>1. w \in DOMAIN u
          BY <3>4, <4>1
        <5>2. x \in Seq(SectionDatum)
          BY <4>2 DEF Fits
        <5> QED BY <3>4, <5>1, <5>2, ShownRemove, ShownInIs
      <4> HIDE DEF c, x
      <4>7. cut \in Lists /\ cut.all = c /\ cut.view = x /\ cut.snap = ShownIn(u) /\ cut.updating = l.updating
        BY <3>8, <4>4, <4>6 DEF Lists, c, x
      <4>8. DeleteSectionAt(cut, w) = [cut EXCEPT !.snap = ShownIn(x)]
        <5>1. Len(ShownIn(u)) = Len(u) /\ w \in 1 .. Len(u)
          BY <3>4, <4>1, ShownInIs
        <5>2. ~(w > Len(cut.snap))
          BY <4>7, <5>1
        <5> HIDE DEF cut
        <5> QED BY <4>6, <4>7, <5>2 DEF DeleteSectionAt
      <4> HIDE DEF cut
      <4> DEFINE m == DeleteSectionAt(cut, w)
      <4>9. m \in Lists /\ m.all = c /\ m.view = x /\ m.snap = ShownIn(x) /\ m.updating = l.updating
        BY <4>6, <4>7, <4>8 DEF Lists
      <4>10. RemoveRow(l, r) = m
        BY <3>9, <3>10, <3>13 DEF cut
      <4> HIDE DEF m
      <4>11. Tight(m)
        BY <4>2, <4>3, <4>9 DEF Tight, Firm
      <4>12. Sections(m.all) = Sections(l.all) \ {KindOf[r]}
        BY <2>1, <2>3, <2>8, <4>4, <4>9
      <4>13. /\ Available(c) = Available(b) \ {b[i].section}
             /\ Unsearched(c) = Unsearched(b) \ {b[i].section}
        BY <2>1, <2>3, LessSectionShows DEF c
      <4>14. Keeps(l, m)
        BY <2>1, <2>3, <2>9, <3>11, <4>2, <4>9, <4>13, KeepsLess
      <4> QED BY <2>3, <4>4, <4>5, <4>9, <4>10, <4>11, <4>12, <4>14 DEF Less
    <3> QED BY <3>12, <3>13
  <2> QED BY <2>10, <2>11
<1> QED BY <1>5, <1>6

LEMMA LessNothing ==
  ASSUME NEW l, Tight(l)
  PROVE  Less(l, l, {}, {})
BY KeepsAlike DEF Less

LEMMA LessStill ==
  ASSUME NEW l, NEW m, NEW p, NEW R, NEW S, NEW Q, NEW P, Less(l, m, R, S), Less(m, p, Q, P)
  PROVE  Less(l, p, R \cup Q, S \cup P)
<1>1. Keeps(l, p)
  BY KeepsStill DEF Less
<1> QED BY <1>1 DEF Less

LEMMA RemoveRowsIs ==
  ASSUME NEW l, Tight(l), NEW rows \in Seq(Row), NEW S, \A i \in DOMAIN rows : KindOf[rows[i]] \in S
  PROVE  Less(l, RemoveRows(l, rows), {rows[i] : i \in DOMAIN rows}, S)
<1>1. PICK g : /\ g[0] = l /\ \A i \in 1 .. Len(rows) : g[i] = RemoveRow(g[i - 1], rows[i])
               /\ RemoveRows(l, rows) = g[Len(rows)]
  BY RemoveRowsTurns
<1> DEFINE R(i) == {rows[j] : j \in 1 .. i}
           H == {i \in 0 .. Len(rows) : Less(l, g[i], R(i), S)}
<1>2. Len(rows) \in Nat /\ DOMAIN rows = 1 .. Len(rows) /\ \A i \in DOMAIN rows : rows[i] \in Row
  OBVIOUS
<1>3. 0 \in H
  <2>1. Less(l, l, {}, {})
    BY LessNothing
  <2>2. R(0) = {}
    OBVIOUS
  <2>3. Less(l, l, {}, S)
    BY <2>1 DEF Less
  <2>4. 0 \in 0 .. Len(rows)
    BY <1>2
  <2> HIDE DEF R
  <2> QED BY <1>1, <2>2, <2>3, <2>4
<1>4. ASSUME NEW i \in 1 .. Len(rows), i - 1 \in H PROVE i \in H
  <2>1. Less(l, g[i - 1], R(i - 1), S)
    BY <1>4
  <2>2. Less(g[i - 1], RemoveRow(g[i - 1], rows[i]), {rows[i]}, {KindOf[rows[i]]})
    <3>1. Tight(g[i - 1]) /\ rows[i] \in Row
      BY <1>2, <2>1 DEF Less
    <3> QED BY <3>1, RemoveRowIs
  <2>3. Less(g[i - 1], g[i], {rows[i]}, {KindOf[rows[i]]})
    BY <1>1, <2>2
  <2>4. Less(l, g[i], R(i - 1) \cup {rows[i]}, S \cup {KindOf[rows[i]]})
    <3> HIDE DEF R
    <3> QED BY <2>1, <2>3, LessStill
  <2>5. R(i - 1) \cup {rows[i]} = R(i)
    <3>1. \A j : j \in 1 .. i <=> j \in 1 .. i - 1 \/ j = i
      BY <1>2
    <3> QED BY <3>1
  <2>6. S \cup {KindOf[rows[i]]} = S
    BY <1>2
  <2>7. i \in 0 .. Len(rows)
    BY <1>2
  <2> HIDE DEF R
  <2> QED BY <2>4, <2>5, <2>6, <2>7
<1>5. \A i \in 0 .. Len(rows) : i \in H
  <2> HIDE DEF H
  <2> QED BY <1>2, <1>3, <1>4, TurnByTurn
<1>7. Len(rows) \in 0 .. Len(rows)
  BY <1>2
<1>6. Less(l, g[Len(rows)], R(Len(rows)), S)
  <2> HIDE DEF R
  <2> QED BY <1>5, <1>7
<1> QED BY <1>1, <1>2, <1>6

\* The new list, as it is fetched.
IsNew(new) == new \in Seq(SectionDatum) /\ Keyed(new) /\ RowsOnce(new) /\ OneKind(new)

\* The rows of a section that the new list does not have.
Lost(S, new) == {r \in Row : KindOf[r] \in S /\ r \notin RowsOf(new)}

LEMMA LackingIs ==
  ASSUME NEW rows \in Seq(Row), NEW others \in Seq(Row)
  PROVE  /\ Lacking(rows, others) \in Seq(Row)
         /\ {Lacking(rows, others)[i] : i \in DOMAIN Lacking(rows, others)}
              = {r \in Row : (\E i \in DOMAIN rows : rows[i] = r) /\ ~\E i \in DOMAIN others : others[i] = r}
         /\ (\A i, j \in DOMAIN rows : rows[i] = rows[j] => i = j)
            => \A i, j \in DOMAIN Lacking(rows, others) :
                 Lacking(rows, others)[i] = Lacking(rows, others)[j] => i = j
<1> DEFINE q == Lacking(rows, others)
           D == {i \in 1 .. Len(rows) : rows[i] \in Range(rows) \ Range(others)}
<1>1. q \in Seq(Row) /\ Picks(q, rows, D)
  BY FilteredIs DEF Lacking
<1>2. DOMAIN rows = 1 .. Len(rows) /\ \A i \in DOMAIN rows : rows[i] \in Row
  OBVIOUS
<1>3. \A i \in DOMAIN rows : i \in D <=> ~\E j \in DOMAIN others : others[j] = rows[i]
  BY <1>2 DEF Range
<1>4. \A i \in D : i \in DOMAIN rows
  BY <1>2
<1> HIDE DEF q, D
<1>5. PICK at \in [1 .. Len(q) -> D] :
        /\ \A k \in 1 .. Len(q) : q[k] = rows[at[k]]
        /\ \A j, k \in 1 .. Len(q) : at[j] = at[k] => j = k
        /\ \A i \in D : \E k \in 1 .. Len(q) : at[k] = i
  BY <1>1 DEF Picks
<1>6. DOMAIN q = 1 .. Len(q) /\ \A k \in DOMAIN q : q[k] \in Row
  BY <1>1
<1>7. {q[i] : i \in DOMAIN q}
        = {r \in Row : (\E i \in DOMAIN rows : rows[i] = r) /\ ~\E i \in DOMAIN others : others[i] = r}
  <2>1. ASSUME NEW k \in DOMAIN q
        PROVE  /\ q[k] \in Row /\ (\E i \in DOMAIN rows : rows[i] = q[k])
               /\ ~\E i \in DOMAIN others : others[i] = q[k]
    BY <1>3, <1>4, <1>5, <1>6
  <2>2. ASSUME NEW r \in Row, NEW i \in DOMAIN rows, rows[i] = r, ~\E j \in DOMAIN others : others[j] = r
        PROVE  \E k \in DOMAIN q : q[k] = r
    <3>1. i \in D
      BY <1>3, <2>2
    <3>2. PICK k \in 1 .. Len(q) : at[k] = i
      BY <1>5, <3>1
    <3> QED BY <1>5, <1>6, <2>2, <3>2
  <2> QED BY <2>1, <2>2
<1>8. (\A i, j \in DOMAIN rows : rows[i] = rows[j] => i = j)
      => \A i, j \in DOMAIN q : q[i] = q[j] => i = j
  BY <1>4, <1>5, <1>6
<1> QED BY <1>1, <1>7, <1>8 DEF q

LEMMA ReverseIs ==
  ASSUME NEW T, NEW q \in Seq(T)
  PROVE  /\ Reverse(q) \in Seq(T) /\ Len(Reverse(q)) = Len(q) /\ Len(q) \in Nat
         /\ DOMAIN Reverse(q) = DOMAIN q
         /\ \A i \in DOMAIN q : \E j \in DOMAIN q : Reverse(q)[j] = q[i]
         /\ \A i \in DOMAIN q : Reverse(q)[i] \in T
         /\ \A j \in DOMAIN q : (Len(q) - j) + 1 \in DOMAIN q /\ Reverse(q)[j] = q[(Len(q) - j) + 1]
<1>1. Len(q) \in Nat /\ DOMAIN q = 1 .. Len(q) /\ \A i \in DOMAIN q : q[i] \in T
  OBVIOUS
<1>2. Reverse(q) = [j \in 1 .. Len(q) |-> q[(Len(q) - j) + 1]]
  BY DEF Reverse
<1>3. \A j \in 1 .. Len(q) : (Len(q) - j) + 1 \in 1 .. Len(q) /\ (Len(q) - ((Len(q) - j) + 1)) + 1 = j
  BY <1>1
<1>4. \A j \in DOMAIN q : (Len(q) - j) + 1 \in DOMAIN q /\ Reverse(q)[j] = q[(Len(q) - j) + 1]
  BY <1>1, <1>2, <1>3
<1>5. Reverse(q) \in Seq(T) /\ Len(Reverse(q)) = Len(q)
  BY <1>1, <1>2, <1>3
<1>6. ASSUME NEW i \in DOMAIN q PROVE \E j \in DOMAIN q : Reverse(q)[j] = q[i]
  <2>1. (Len(q) - i) + 1 \in DOMAIN q /\ Reverse(q)[(Len(q) - i) + 1] = q[(Len(q) - ((Len(q) - i) + 1)) + 1]
    BY <1>4
  <2> QED BY <1>1, <1>3, <2>1
<1> QED BY <1>1, <1>4, <1>5, <1>6

LEMMA RemoveLackingIs ==
  ASSUME NEW l, Tight(l), NEW sd \in SectionDatum, NEW new, IsNew(new),
         sd.section \in Sections(l.all),
         \A k \in DOMAIN sd.rows : KindOf[sd.rows[k]] = sd.section,
         \A r \in RowsOf(l.all) : KindOf[r] = sd.section => HasRow(sd, r)
  PROVE  Less(l, RemoveLacking(l, sd, new), Lost({sd.section}, new), {sd.section})
<1> DEFINE s == sd.section
           j == IndexOf(new, s)
           m == RemoveLacking(l, sd, new)
<1>0. Tight(l)
  OBVIOUS
<1>1. /\ l \in Lists /\ Fits(l.all, l.view) /\ l.snap = ShownIn(l.view) /\ OneKind(l.view)
      /\ l.all \in Seq(SectionDatum) /\ Keyed(l.all) /\ RowsOnce(l.all) /\ OneKind(l.all)
      /\ l.view \in Seq(SectionDatum)
  BY DEF Tight, Firm, Fits
<1>2. new \in Seq(SectionDatum) /\ Keyed(new) /\ RowsOnce(new) /\ OneKind(new)
  BY DEF IsNew
<1>3. sd.rows \in Seq(Row) /\ s \in Section
  BY DEF SectionDatum
<1>4. /\ Has(new, s) <=> s \in Sections(new)
      /\ ~Has(new, s) <=> j = 0
      /\ j # 0 => j \in DOMAIN new /\ new[j].section = s
  BY <1>2, IndexIs
<1>5. CASE Has(new, s)
  <2> DEFINE q == Lacking(sd.rows, new[j].rows)
             R == {q[i] : i \in DOMAIN q}
  <2>1. j \in DOMAIN new /\ new[j].section = s /\ new[j].rows \in Seq(Row)
    BY <1>2, <1>4, <1>5, RowIsIn
  <2>2. /\ q \in Seq(Row)
        /\ R = {r \in Row : (\E i \in DOMAIN sd.rows : sd.rows[i] = r) /\ ~\E i \in DOMAIN new[j].rows : new[j].rows[i] = r}
    <3> HIDE DEF j
    <3> QED BY <1>3, <2>1, LackingIs
  <2> HIDE DEF q
  <2>3. \A i \in DOMAIN q : KindOf[q[i]] \in {s}
    BY <2>2
  <2>4. Less(l, RemoveRows(l, q), R, {s})
    BY <1>0, <2>2, <2>3, RemoveRowsIs
  <2>5. m = RemoveRows(l, q)
    BY <1>5 DEF RemoveLacking, q
  <2>6. ASSUME NEW r \in RowsOf(l.all) PROVE r \in R <=> r \in Lost({s}, new)
    <3>1. r \in Row
      BY DEF RowsOf
    <3>2. ASSUME r \in R PROVE r \in Lost({s}, new)
      <4>1. KindOf[r] = s
        BY <2>2, <3>2
      <4>2. r \notin RowsOf(new)
        BY <1>2, <2>1, <2>2, <3>2, <4>1, KindOfRow DEF HasRow
      <4> QED BY <3>1, <4>1, <4>2 DEF Lost
    <3>3. ASSUME r \in Lost({s}, new) PROVE r \in R
      <4>1. HasRow(sd, r) /\ r \notin RowsOf(new)
        BY <3>3 DEF Lost
      <4>2. ~HasRow(new[j], r)
        BY <2>1, <3>1, <4>1 DEF RowsOf
      <4> QED BY <2>2, <3>1, <4>1, <4>2 DEF HasRow
    <3> QED BY <3>2, <3>3
  <2> HIDE DEF R, m
  <2> QED BY <2>4, <2>5, <2>6 DEF Less, m
<1>6. CASE ~Has(new, s)
  <2>1. m = removeSectionData(l, sd)
    BY <1>6 DEF RemoveLacking
  <2>2. \A r \in Row : KindOf[r] = s => r \notin RowsOf(new)
    BY <1>2, <1>4, <1>6, KindOfRow
  <2>3. Lost({s}, new) = {r \in Row : KindOf[r] = s}
    BY <2>2 DEF Lost
  <2>4. CASE Has(l.view, s)
    <3> DEFINE q == Reverse(sd.rows)
               R == {q[i] : i \in DOMAIN q}
    <3>0. /\ q \in Seq(Row) /\ DOMAIN q = DOMAIN sd.rows
          /\ \A i \in DOMAIN sd.rows : \E k \in DOMAIN sd.rows : q[k] = sd.rows[i]
          /\ \A i \in DOMAIN sd.rows : q[i] \in Row
          /\ \A k \in DOMAIN sd.rows : \E i \in DOMAIN sd.rows : q[k] = sd.rows[i]
      BY <1>3, ReverseIs
    <3>1. q \in Seq(Row) /\ R = {r \in Row : HasRow(sd, r)}
      <4> HIDE DEF q
      <4>1. ASSUME NEW i \in DOMAIN q PROVE q[i] \in Row /\ HasRow(sd, q[i])
        BY <3>0 DEF HasRow
      <4>2. ASSUME NEW r \in Row, HasRow(sd, r) PROVE \E i \in DOMAIN q : q[i] = r
        <5>1. PICK i \in DOMAIN sd.rows : sd.rows[i] = r
          BY <4>2 DEF HasRow
        <5> QED BY <3>0, <5>1
      <4> QED BY <3>0, <4>1, <4>2
    <3>2. \A i \in DOMAIN q : KindOf[q[i]] \in {s}
      BY <3>1 DEF HasRow
    <3> HIDE DEF q
    <3>3. Less(l, RemoveRows(l, q), R, {s})
      BY <1>0, <3>1, <3>2, RemoveRowsIs
    <3>4. m = RemoveRows(l, q)
      BY <2>1, <2>4 DEF removeSectionData, q
    <3>5. \A r \in RowsOf(l.all) : r \in R <=> r \in Lost({s}, new)
      BY <2>3, <3>1 DEF RowsOf, HasRow
    <3> HIDE DEF R, m
    <3> QED BY <3>3, <3>4, <3>5 DEF Less, m
  <2>5. CASE ~Has(l.view, s)
    <3> DEFINE i == IndexOf(l.all, s)
               c == RemoveAt(l.all, i)
    <3>1. i \in DOMAIN l.all /\ l.all[i].section = s
      BY <1>1, IndexIs
    <3>2. s \notin Sections(l.view)
      BY <1>1, <2>5, IndexIs
    <3>3. m = [l EXCEPT !.all = c]
      BY <2>1, <2>5 DEF removeSectionData
    <3> HIDE DEF i
    <3>4. /\ c \in Seq(SectionDatum)
          /\ Sections(c) = Sections(l.all) \ {s}
          /\ RowsOf(c) \subseteq RowsOf(l.all)
          /\ RowsOf(l.all) \subseteq RowsOf(c) \cup {r \in Row : HasRow(l.all[i], r)}
          /\ OneKind(c) /\ Keyed(c)
          /\ \A A : Flagged(l.all, A) => Flagged(c, A)
      BY <1>1, <3>1, LessSectionHas
    <3>5. \A r \in Row : HasRow(l.all[i], r) => KindOf[r] = s
      BY <1>1, <3>1, KindIs DEF HasRow
    <3>6. \A r \in RowsOf(l.view) : KindOf[r] # s
      BY <1>1, <3>2, KindOfRow DEF Fits
    <3>7. \A r \in RowsOf(c) : KindOf[r] # s
      BY <3>4, KindOfRow
    <3>8. RowsOf(c) = RowsOf(l.all) \ Lost({s}, new)
      BY <2>3, <3>4, <3>5, <3>7 DEF RowsOf
    <3>9. Fits(c, l.view)
      <4>1. \A r \in RowsOf(l.view) : ~HasRow(l.all[i], r)
        BY <3>5, <3>6 DEF RowsOf
      <4> QED BY <1>1, <3>1, <3>2, <4>1, FitsLessSection
    <3> HIDE DEF c, m
    <3>10. m \in Lists /\ m.all = c /\ m.view = l.view /\ m.snap = l.snap /\ m.updating = l.updating
      BY <1>1, <3>3, <3>4 DEF Lists
    <3>11. Tight(m)
      BY <1>1, <3>9, <3>10 DEF Tight, Firm
    <3>12. Available(c) = Available(l.all) \ {s} /\ Unsearched(c) = Unsearched(l.all) \ {s}
      BY <1>1, <3>1, LessSectionShows DEF c
    <3>13. Keeps(l, m)
      BY <3>10, <3>12, KeepsLess
    <3> QED BY <3>4, <3>8, <3>10, <3>11, <3>13 DEF Less, m
  <2> QED BY <2>4, <2>5
<1> QED BY <1>5, <1>6

\* What the new list does not have is gone.
LEMMA RemovedIs ==
  ASSUME NEW l, Tight(l), NEW new, IsNew(new)
  PROVE  Less(l, RemovedLacking(l, Reverse(l.all), new), Lost(Sections(l.all), new), Sections(l.all))
<1> DEFINE seq == Reverse(l.all)
           n == Len(seq)
           S(i) == {seq[j].section : j \in 1 .. i}
<1>0. Tight(l) /\ IsNew(new)
  OBVIOUS
<1>1. l.all \in Seq(SectionDatum) /\ Keyed(l.all) /\ RowsOnce(l.all) /\ OneKind(l.all)
  BY DEF Tight, Firm, Fits
<1>10. /\ n \in Nat /\ n = Len(l.all) /\ DOMAIN l.all = 1 .. Len(l.all)
       /\ seq \in Seq(SectionDatum) /\ DOMAIN seq = DOMAIN l.all
       /\ \A i \in DOMAIN l.all : \E j \in DOMAIN l.all : seq[j] = l.all[i]
       /\ \A i \in DOMAIN l.all : seq[i] \in SectionDatum
       /\ \A j \in DOMAIN l.all : (Len(l.all) - j) + 1 \in DOMAIN l.all
                                  /\ seq[j] = l.all[(Len(l.all) - j) + 1]
  BY <1>1, ReverseIs
<1>11. Len(l.all) = n /\ DOMAIN l.all = 1 .. n
  BY <1>10
<1>2. /\ seq \in Seq(SectionDatum) /\ n \in Nat /\ n = Len(l.all) /\ DOMAIN l.all = 1 .. n
      /\ \A i \in 1 .. n : \E j \in 1 .. n : seq[j] = l.all[i]
      /\ \A i \in 1 .. n : seq[i] \in SectionDatum
      /\ \A j \in 1 .. n : (n - j) + 1 \in 1 .. n /\ seq[j] = l.all[(n - j) + 1]
  <2> HIDE DEF n, seq
  <2> QED BY <1>10, <1>11
<1>3. PICK g : /\ g[0] = l /\ \A i \in 1 .. Len(seq) : g[i] = RemoveLacking(g[i - 1], seq[i], new)
               /\ RemovedLacking(l, seq, new) = g[Len(seq)]
  <2>1. seq \in Seq(SectionDatum)
    BY <1>2
  <2> HIDE DEF seq, n
  <2> QED BY <2>1, RemoveLackingTurns
<1>4. g[0] = l /\ (\A i \in 1 .. n : g[i] = RemoveLacking(g[i - 1], seq[i], new)) /\ RemovedLacking(l, Reverse(l.all), new) = g[n]
  BY <1>3
<1>12. n \in Nat /\ 0 \in 0 .. n /\ n \in 0 .. n
  BY <1>2
<1> HIDE DEF seq, n
<1> DEFINE H == {i \in 0 .. n : Less(l, g[i], Lost(S(i), new), S(i))}
<1>5. 0 \in H
  <2>1. Less(l, l, {}, {})
    BY <1>0, LessNothing
  <2>2. S(0) = {}
    OBVIOUS
  <2>3. Lost({}, new) = {}
    BY DEF Lost
  <2> HIDE DEF S
  <2> QED BY <1>4, <1>12, <2>1, <2>2, <2>3
<1>6. ASSUME NEW i \in 1 .. n, i - 1 \in H PROVE i \in H
  <2> DEFINE m == g[i - 1]
             sd == seq[i]
  <2>1. Less(l, m, Lost(S(i - 1), new), S(i - 1))
    BY <1>6
  <2>2. sd \in SectionDatum /\ (n - i) + 1 \in DOMAIN l.all /\ sd = l.all[(n - i) + 1]
    BY <1>2
  <2>3. sd.section \in Sections(l.all)
    BY <2>2 DEF Sections
  <2>4. sd.section \notin S(i - 1)
    <3> SUFFICES ASSUME NEW j \in 1 .. i - 1, seq[j].section = sd.section PROVE FALSE
      OBVIOUS
    <3>2. j \in 1 .. n /\ (n - j) + 1 # (n - i) + 1
      BY <1>12
    <3>1. (n - j) + 1 \in DOMAIN l.all /\ seq[j] = l.all[(n - j) + 1] /\ (n - j) + 1 # (n - i) + 1
      BY <1>2, <3>2
    <3> QED BY <1>1, <2>2, <3>1 DEF Keyed
  <2>5. sd.section \in Sections(m.all)
    BY <2>1, <2>3, <2>4 DEF Less
  <2>6. \A k \in DOMAIN sd.rows : KindOf[sd.rows[k]] = sd.section
    BY <1>1, <2>2, KindIs
  <2>7. \A r \in RowsOf(m.all) : KindOf[r] = sd.section => HasRow(sd, r)
    <3>1. \A r \in RowsOf(m.all) : r \in RowsOf(l.all)
      BY <2>1 DEF Less
    <3> QED BY <1>1, <2>2, <3>1, KindOfRow
  <2>8. Tight(m)
    BY <2>1 DEF Less
  <2> HIDE DEF m, sd
  <2>9. Less(m, RemoveLacking(m, sd, new), Lost({sd.section}, new), {sd.section})
    BY <1>0, <2>2, <2>5, <2>6, <2>7, <2>8, RemoveLackingIs
  <2>10. Less(m, g[i], Lost({sd.section}, new), {sd.section})
    BY <1>4, <2>9 DEF m, sd
  <2>11. Less(l, g[i], Lost(S(i - 1), new) \cup Lost({sd.section}, new), S(i - 1) \cup {sd.section})
    <3> HIDE DEF S
    <3> QED BY <2>1, <2>10, LessStill
  <2>12. S(i - 1) \cup {sd.section} = S(i)
    <3>1. \A j : j \in 1 .. i <=> j \in 1 .. i - 1 \/ j = i
      BY <1>12
    <3> QED BY <3>1 DEF sd
  <2>13. Lost(S(i - 1), new) \cup Lost({sd.section}, new) = Lost(S(i - 1) \cup {sd.section}, new)
    <3> HIDE DEF S
    <3> QED BY DEF Lost
  <2>14. i \in 0 .. n
    BY <1>12
  <2> HIDE DEF S
  <2> QED BY <2>11, <2>12, <2>13, <2>14
<1>7. \A i \in 0 .. n : i \in H
  <2> HIDE DEF H
  <2> QED BY <1>12, <1>5, <1>6, TurnByTurn
<1>8. Less(l, g[n], Lost(S(n), new), S(n))
  <2> HIDE DEF S
  <2> QED BY <1>7, <1>12
<1>9. S(n) = Sections(l.all)
  <2>1. \A i \in DOMAIN l.all : \E j \in 1 .. n : seq[j] = l.all[i]
    BY <1>2
  <2>2. \A j \in 1 .. n : \E i \in DOMAIN l.all : seq[j] = l.all[i]
    BY <1>2
  <2> QED BY <2>1, <2>2 DEF Sections
<1> QED BY <1>4, <1>8, <1>9

-----------------------------------------------------------------------------
(* A row is appended.                                                      *)

\* m is l with the rows R and the sections S, whose flags are A's if l's are.
More(l, m, R, S, A) ==
  /\ Firm(m)
  /\ RowsOf(m.all) = RowsOf(l.all) \cup R
  /\ Sections(m.all) = Sections(l.all) \cup S
  /\ Flagged(l.all, A) => Flagged(m.all, A)
  /\ m.updating = l.updating
  /\ Keeps(l, m)

LEMMA MoreRowsHas ==
  ASSUME NEW src \in Seq(SectionDatum), NEW i \in DOMAIN src, NEW r \in Row,
         NEW new, new = MoreRows(src, i, r)
  PROVE  /\ new \in Seq(SectionDatum) /\ DOMAIN new = DOMAIN src
         /\ RowsOf(new) = RowsOf(src) \cup {r}
         /\ RowsOnce(src) /\ r \notin RowsOf(src) => RowsOnce(new)
         /\ Sections(new) = Sections(src) /\ Active(new) = Active(src)
         /\ Keyed(src) => Keyed(new)
         /\ \A A : Flagged(src, A) => Flagged(new, A)
         /\ OneKind(src) /\ KindOf[r] = src[i].section => OneKind(new)
         /\ \A j \in DOMAIN src : new[j].section = src[j].section
<1> DEFINE q == Append(src[i].rows, r)
<1>0. IsRowed(SectionDatum)
  BY DEF IsRowed
<1>1. /\ IsWithRows(SectionDatum, new, src, i, q)
      /\ RowsOf(new) = RowsOf(src) \cup {r}
      /\ RowsOnce(src) /\ r \notin RowsOf(src) => RowsOnce(new)
  BY <1>0, AddRow
<1>2. src[i].rows \in Seq(Row)
  BY RowIsIn
<1>3. \A j \in DOMAIN q : q[j] = r \/ \E m \in DOMAIN src[i].rows : q[j] = src[i].rows[m]
  BY <1>2
<1> HIDE DEF q
<1>4. OneKind(src) /\ KindOf[r] = src[i].section => \A j \in DOMAIN q : KindOf[q[j]] = src[i].section
  BY <1>3, KindIs
<1>5. /\ Sections(new) = Sections(src) /\ Active(new) = Active(src)
      /\ Keyed(src) => Keyed(new)
      /\ \A A : Flagged(src, A) => Flagged(new, A)
      /\ OneKind(src) /\ (\A j \in DOMAIN q : KindOf[q[j]] = src[i].section) => OneKind(new)
  BY <1>1, WithRowsHas
<1>6. new \in Seq(SectionDatum) /\ DOMAIN new = DOMAIN src /\ \A j \in DOMAIN src : new[j].section = src[j].section
  BY <1>1 DEF IsWithRows
<1> QED BY <1>1, <1>4, <1>5, <1>6

LEMMA PutIs ==
  ASSUME NEW T, IsRowed(T), NEW src \in Seq(T), NEW d \in T, NEW i \in 1 .. Len(src) + 1
  PROVE  /\ InsertAt(src, i, d) \in Seq(T) /\ Len(InsertAt(src, i, d)) = Len(src) + 1
         /\ i \in DOMAIN InsertAt(src, i, d) /\ InsertAt(src, i, d)[i] = d
         /\ HasPut(InsertAt(src, i, d), src, d)
<1> DEFINE new == InsertAt(src, i, d)
<1>1. /\ new \in Seq(T) /\ Len(new) = Len(src) + 1 /\ i \in DOMAIN new /\ new[i] = d
      /\ Picks(src, new, DOMAIN new \ {i})
  BY InsertPicks
<1>2. \A k \in DOMAIN d.rows : d.rows[k] \in Row
  BY DatumIs
<1> HIDE DEF new
<1>3. HasPut(new, src, new[i])
  BY <1>1, <1>2, PutHas
<1> QED BY <1>1, <1>3 DEF new

\* What a row more, and a section more, add to what there is to show.
LEMMA MoreRowsShow ==
  ASSUME NEW src \in Seq(SectionDatum), Keyed(src), NEW i \in DOMAIN src, NEW r \in Row,
         NEW new, new = MoreRows(src, i, r)
  PROVE  /\ Unsearched(new) = Unsearched(src)
         /\ Available(new) \subseteq Available(src) \cup {src[i].section}
         /\ ~isAvailable(new[i]) => Available(new) \subseteq Available(src)
         /\ isAvailable(new[i]) => src[i].section \notin Unsearched(new)
<1> DEFINE q == Append(src[i].rows, r)
<1>1. IsWithRows(SectionDatum, new, src, i, q)
  <2>1. IsRowed(SectionDatum)
    BY DEF IsRowed
  <2> QED BY <2>1, AddRow
<1> HIDE DEF q
<1>2. /\ DOMAIN new = DOMAIN src /\ \A j \in DOMAIN src : j # i => new[j] = src[j]
      /\ \A j \in DOMAIN src : new[j].section = src[j].section /\ new[j].isSearched = src[j].isSearched
  BY <1>1 DEF IsWithRows
<1>3. Unsearched(new) = Unsearched(src)
  BY <1>2 DEF Unsearched
<1>4. /\ Available(new) \subseteq Available(src) \cup {src[i].section}
      /\ ~isAvailable(new[i]) => Available(new) \subseteq Available(src)
  BY <1>2 DEF Available
<1>5. isAvailable(new[i]) => src[i].section \notin Unsearched(new)
  BY <1>2 DEF isAvailable, Unsearched, Keyed
<1> QED BY <1>3, <1>4, <1>5

LEMMA PutShows ==
  ASSUME NEW src \in Seq(SectionDatum), NEW d \in SectionDatum, NEW i \in 1 .. Len(src) + 1,
         NEW new, new = InsertAt(src, i, d)
  PROVE  /\ Available(new) = Available(src) \cup {s \in {d.section} : isAvailable(d)}
         /\ Unsearched(new) = Unsearched(src) \cup {s \in {d.section} : ~d.isSearched}
<1>1. /\ i \in DOMAIN new /\ new[i] = d /\ Picks(src, new, DOMAIN new \ {i})
  BY InsertPicks
<1>2. PICK at \in [1 .. Len(src) -> DOMAIN new \ {i}] :
        /\ \A k \in 1 .. Len(src) : src[k] = new[at[k]]
        /\ \A j \in DOMAIN new \ {i} : \E k \in 1 .. Len(src) : at[k] = j
  BY <1>1 DEF Picks
<1>3. DOMAIN src = 1 .. Len(src)
  BY SeqIs
<1>4. \A k \in DOMAIN src : at[k] \in DOMAIN new /\ src[k] = new[at[k]]
  BY <1>2, <1>3
<1>5. \A j \in DOMAIN new : j = i \/ \E k \in DOMAIN src : src[k] = new[j]
  BY <1>2, <1>3
<1>6. Available(new) = Available(src) \cup {s \in {d.section} : isAvailable(d)}
  BY <1>1, <1>4, <1>5 DEF Available
<1>7. Unsearched(new) = Unsearched(src) \cup {s \in {d.section} : ~d.isSearched}
  BY <1>1, <1>4, <1>5 DEF Unsearched
<1> QED BY <1>6, <1>7

\* The rows of a section are d's alone.
Distinct(d) == \A j, k \in DOMAIN d.rows : d.rows[j] = d.rows[k] => j = k
OfKind(d) == \A k \in DOMAIN d.rows : KindOf[d.rows[k]] = d.section

LEMMA FitsMoreSection ==
  ASSUME NEW a, NEW v, Fits(a, v), NEW d \in SectionDatum, NEW i \in 1 .. Len(a) + 1,
         d.section \notin Sections(a), Distinct(d), OfKind(d), \A r \in RowsOf(a) : ~HasRow(d, r)
  PROVE  /\ Fits(InsertAt(a, i, d), v)
         /\ RowsOf(InsertAt(a, i, d)) = RowsOf(a) \cup {r \in Row : HasRow(d, r)}
         /\ Sections(InsertAt(a, i, d)) = Sections(a) \cup {d.section}
         /\ \A A : Flagged(a, A) /\ d.isActive = (d.section \in A) => Flagged(InsertAt(a, i, d), A)
<1>1. /\ a \in Seq(SectionDatum) /\ Keyed(a) /\ RowsOnce(a) /\ OneKind(a)
      /\ v \in Seq(SectionDatum) /\ Keyed(v) /\ RowsOnce(v)
      /\ RowsOf(v) \subseteq RowsOf(a) /\ Sections(v) \subseteq Active(a)
  BY DEF Fits
<1> DEFINE new == InsertAt(a, i, d)
<1>2. new \in Seq(SectionDatum) /\ HasPut(new, a, d)
  <2>1. IsRowed(SectionDatum)
    BY DEF IsRowed
  <2> QED BY <1>1, <2>1, PutIs
<1> HIDE DEF new
<1>3. Keyed(new) /\ RowsOnce(new) /\ OneKind(new)
  BY <1>1, <1>2 DEF HasPut, Distinct, OfKind
<1>4. Active(a) \subseteq Active(new) /\ RowsOf(a) \subseteq RowsOf(new)
  BY <1>2 DEF HasPut
<1>5. Fits(new, v)
  BY <1>1, <1>2, <1>3, <1>4 DEF Fits
<1> QED BY <1>2, <1>5 DEF HasPut, new

LEMMA FitsShownSection ==
  ASSUME NEW a, NEW v, Fits(a, v), NEW d \in SectionDatum, NEW i \in 1 .. Len(v) + 1,
         d.section \notin Sections(v), d.section \in Active(a), Distinct(d),
         \A r \in RowsOf(v) : ~HasRow(d, r), \A r \in Row : HasRow(d, r) => r \in RowsOf(a)
  PROVE  /\ Fits(a, InsertAt(v, i, d))
         /\ RowsOf(InsertAt(v, i, d)) = RowsOf(v) \cup {r \in Row : HasRow(d, r)}
         /\ OneKind(v) /\ OfKind(d) => OneKind(InsertAt(v, i, d))
         /\ Sections(InsertAt(v, i, d)) = Sections(v) \cup {d.section}
<1>1. /\ a \in Seq(SectionDatum) /\ Keyed(a) /\ RowsOnce(a) /\ OneKind(a)
      /\ v \in Seq(SectionDatum) /\ Keyed(v) /\ RowsOnce(v)
      /\ RowsOf(v) \subseteq RowsOf(a) /\ Sections(v) \subseteq Active(a)
  BY DEF Fits
<1> DEFINE new == InsertAt(v, i, d)
<1>2. new \in Seq(SectionDatum) /\ HasPut(new, v, d)
  <2>1. IsRowed(SectionDatum)
    BY DEF IsRowed
  <2> QED BY <1>1, <2>1, PutIs
<1> HIDE DEF new
<1>3. Keyed(new) /\ RowsOnce(new) /\ (OneKind(v) /\ OfKind(d) => OneKind(new))
  BY <1>1, <1>2 DEF HasPut, Distinct, OfKind
<1>4. Sections(new) \subseteq Active(a) /\ RowsOf(new) \subseteq RowsOf(a)
  BY <1>1, <1>2 DEF HasPut
<1>5. Fits(a, new)
  BY <1>1, <1>2, <1>3, <1>4 DEF Fits
<1> QED BY <1>2, <1>3, <1>5 DEF HasPut, new

LEMMA FitsMoreRow ==
  ASSUME NEW a, NEW v, Fits(a, v), NEW i \in DOMAIN a, NEW r \in Row, r \notin RowsOf(a),
         KindOf[r] = a[i].section
  PROVE  Fits(MoreRows(a, i, r), v)
<1>1. /\ a \in Seq(SectionDatum) /\ Keyed(a) /\ RowsOnce(a) /\ OneKind(a)
      /\ v \in Seq(SectionDatum) /\ Keyed(v) /\ RowsOnce(v)
      /\ RowsOf(v) \subseteq RowsOf(a) /\ Sections(v) \subseteq Active(a)
  BY DEF Fits
<1> DEFINE new == MoreRows(a, i, r)
<1>2. /\ new \in Seq(SectionDatum) /\ RowsOnce(new)
      /\ RowsOf(new) = RowsOf(a) \cup {r}
      /\ Active(new) = Active(a)
      /\ Keyed(new) /\ OneKind(new)
  BY <1>1, MoreRowsHas
<1> HIDE DEF new
<1>3. Fits(new, v)
  BY <1>1, <1>2 DEF Fits
<1> QED BY <1>3 DEF new

LEMMA FitsShownRow ==
  ASSUME NEW a, NEW v, Fits(a, v), NEW i \in DOMAIN v, NEW r \in RowsOf(a), r \notin RowsOf(v)
  PROVE  Fits(a, MoreRows(v, i, r))
<1>1. /\ a \in Seq(SectionDatum) /\ Keyed(a) /\ RowsOnce(a) /\ OneKind(a)
      /\ v \in Seq(SectionDatum) /\ Keyed(v) /\ RowsOnce(v)
      /\ RowsOf(v) \subseteq RowsOf(a) /\ Sections(v) \subseteq Active(a)
  BY DEF Fits
<1>0. r \in Row
  BY DEF RowsOf
<1> DEFINE new == MoreRows(v, i, r)
<1>2. /\ new \in Seq(SectionDatum) /\ RowsOnce(new)
      /\ RowsOf(new) = RowsOf(v) \cup {r}
      /\ Sections(new) = Sections(v)
      /\ Keyed(new)
  BY <1>0, <1>1, MoreRowsHas
<1> HIDE DEF new
<1>3. Fits(a, new)
  BY <1>1, <1>2 DEF Fits
<1> QED BY <1>3 DEF new

LEMMA TrapIs ==
  ASSUME NEW l \in Lists
  PROVE  /\ Trap(l) \in Lists /\ Trap(l).all = l.all /\ Trap(l).view = l.view
         /\ Trap(l).snap = l.snap /\ Trap(l).updating = l.updating
BY DEF Trap, Lists

LEMMA ShowRowIs ==
  ASSUME NEW l, Firm(l), NEW r \in RowsOf(l.all), r \notin RowsOf(l.view), NEW i \in Nat, i # 0
  PROVE  /\ Firm(ShowRow(l, r, i)) /\ ShowRow(l, r, i).all = l.all
         /\ ShowRow(l, r, i).updating = l.updating
         /\ Sections(ShowRow(l, r, i).view) = Sections(l.view)
<1> DEFINE v == l.view
           m == ShowRow(l, r, i)
<1>1. l \in Lists /\ Fits(l.all, v) /\ l.snap = ShownIn(v) /\ v \in Seq(SectionDatum)
  BY DEF Firm, Fits
<1>2. r \in Row
  BY DEF RowsOf
<1>3. CASE i > Len(v)
  <2>1. m = Trap(l)
    BY <1>3 DEF ShowRow
  <2>2. /\ m \in Lists /\ m.all = l.all /\ m.view = l.view
        /\ m.snap = l.snap /\ m.updating = l.updating
    BY <1>1, <2>1, TrapIs
  <2> HIDE DEF m
  <2>3. Firm(m)
    BY <1>1, <2>2 DEF Firm
  <2> QED BY <2>2, <2>3 DEF m
<1>4. CASE ~(i > Len(v))
  <2>1. i \in DOMAIN v
    <3>1. Len(v) \in Nat /\ DOMAIN v = 1 .. Len(v)
      BY <1>1
    <3> QED BY <1>4, <3>1
  <2> DEFINE u == MoreRows(v, i, r)
             on == [l EXCEPT !.view[i].rows = Append(@, r)]
  <2>2. IsWithRows(SectionDatum, u, v, i, Append(v[i].rows, r))
    <3>1. IsRowed(SectionDatum)
      BY DEF IsRowed
    <3> QED BY <1>1, <1>2, <2>1, <3>1, AddRow
  <2>3. u \in Seq(SectionDatum) /\ Fits(l.all, u)
    BY <1>1, <2>1, <2>2, FitsShownRow DEF IsWithRows
  <2>4. on = [l EXCEPT !.view = u]
    BY DEF MoreRows
  <2>5. on \in Lists /\ on.all = l.all /\ on.view = u /\ on.snap = ShownIn(v) /\ on.updating = l.updating
    <3> HIDE DEF on, u
    <3> QED BY <1>1, <2>3, <2>4 DEF Lists
  <2> DEFINE c == ShownIn(v)
             x == MoreRows(c, i, r)
  <2>6. c \in Seq(Cell) /\ i \in DOMAIN c /\ Len(c) = Len(v) /\ c[i].rows = v[i].rows
    BY <1>1, <2>1, ShownInIs
  <2>7. x \in Seq(Cell) /\ x = ShownIn(u)
    <3>1. IsRowed(Cell)
      BY DEF IsRowed
    <3>2. IsWithRows(Cell, x, c, i, Append(c[i].rows, r))
      <4> HIDE DEF c
      <4> QED BY <1>2, <2>6, <3>1, AddRow
    <3>3. IsWithRows(Cell, x, c, i, Append(v[i].rows, r))
      <4> HIDE DEF c, x
      <4> QED BY <2>6, <3>2
    <3>4. x = ShownIn(u)
      <4> HIDE DEF x, u
      <4> QED BY <1>1, <2>1, <2>2, <3>3, ShownWithRows
    <3>5. x \in Seq(Cell)
      BY <3>2 DEF IsWithRows
    <3> QED BY <3>4, <3>5
  <2>8. m = InsertRowAt(on, i, r)
    BY <1>4 DEF ShowRow
  <2>9. InsertRowAt(on, i, r) = [on EXCEPT !.snap = x]
    <3>1. ~(i > Len(on.snap)) /\ on.snap = c
      BY <1>4, <2>5, <2>6
    <3> HIDE DEF on
    <3>2. InsertRowAt(on, i, r) = [on EXCEPT !.snap[i].rows = Append(@, r)]
      BY <3>1 DEF InsertRowAt
    <3> HIDE DEF c
    <3> QED BY <3>1, <3>2 DEF MoreRows
  <2> HIDE DEF m, on, x, u
  <2>10. m \in Lists /\ m.all = l.all /\ m.view = u /\ m.snap = ShownIn(u) /\ m.updating = l.updating
    BY <2>5, <2>7, <2>8, <2>9 DEF Lists
  <2>11. Firm(m)
    BY <2>3, <2>10 DEF Firm
  <2>12. Sections(u) = Sections(v)
    BY <2>2 DEF IsWithRows, Sections
  <2> QED BY <2>10, <2>11, <2>12 DEF m
<1> QED BY <1>3, <1>4

LEMMA PlaceIs ==
  ASSUME NEW l \in Lists, NEW s
  PROVE  /\ getIndexOfActiveSectionForView(l, s) \in Nat
         /\ getIndexOfActiveSectionForView(l, s) # 0
         /\ ~Has(l.view, s) => getIndexOfActiveSectionForView(l, s) = 1
<1> DEFINE i == IndexOf(l.all, s)
           before == 1 .. i - 1
           ready == {j \in before : isAvailable(l.all[j])}
<1>1. l.all \in Seq(SectionDatum) /\ l.view \in Seq(SectionDatum)
  BY DEF Lists
<1>2. i \in Nat
  <2>1. i # 0 => i \in DOMAIN l.all
    BY <1>1, IndexIs
  <2>2. DOMAIN l.all = 1 .. Len(l.all) /\ Len(l.all) \in Nat
    BY <1>1
  <2> HIDE DEF i
  <2> QED BY <2>1, <2>2
<1> HIDE DEF i
<1>3. IsFiniteSet(before) /\ IsFiniteSet(ready)
  <2>1. IsFiniteSet(before)
    BY <1>2, FS_Interval
  <2> QED BY <2>1, FS_Subset
<1>4. Cardinality(before) \in Nat /\ Cardinality(ready) \in Nat
  BY <1>3, FS_CardinalityType
<1> DEFINE n == Cardinality(before)
           k == Cardinality(ready)
<1> HIDE DEF before, ready
<1>5. \/ getIndexOfActiveSectionForView(l, s) = 1
      \/ getIndexOfActiveSectionForView(l, s) = n + 1
      \/ getIndexOfActiveSectionForView(l, s) = k + 1
  BY DEF getIndexOfActiveSectionForView, n, k, before, ready, i
<1>6. n \in Nat /\ k \in Nat
  BY <1>4
<1> HIDE DEF n, k
<1>7. ~Has(l.view, s) => getIndexOfActiveSectionForView(l, s) = 1
  BY DEF getIndexOfActiveSectionForView, Has
<1> QED BY <1>5, <1>6, <1>7

LEMMA EmptyIs ==
  ASSUME NEW d \in SectionDatum
  PROVE  /\ Empty(d) \in SectionDatum /\ Empty(d).section = d.section /\ Empty(d).isActive = d.isActive
         /\ Distinct(Empty(d)) /\ OfKind(Empty(d)) /\ \A r : ~HasRow(Empty(d), r)
         /\ CellOf(Empty(d)) = [section |-> d.section, rows |-> <<>>]
<1>1. Empty(d) \in SectionDatum /\ Empty(d).section = d.section /\ Empty(d).isActive = d.isActive
      /\ Empty(d).rows = <<>>
  <2>1. <<>> \in Seq(Row)
    OBVIOUS
  <2> QED BY <2>1 DEF Empty, SectionDatum
<1>2. DOMAIN Empty(d).rows = {}
  BY <1>1
<1> QED BY <1>1, <1>2 DEF Distinct, OfKind, HasRow, CellOf

LEMMA EmptyShows ==
  ASSUME NEW d \in SectionDatum
  PROVE  ~isAvailable(Empty(d)) /\ Empty(d).isSearched = d.isSearched
BY DEF Empty, isAvailable, SectionDatum

LEMMA ShowSectionIs ==
  ASSUME NEW l, Firm(l), NEW d \in SectionDatum, d.section \notin Sections(l.view),
         d.section \in Active(l.all)
  PROVE  /\ Firm(ShowSection(l, d)) /\ ShowSection(l, d).all = l.all
         /\ ShowSection(l, d).updating = l.updating
         /\ RowsOf(ShowSection(l, d).view) = RowsOf(l.view)
         /\ Sections(ShowSection(l, d).view) = Sections(l.view) \cup {d.section}
<1> DEFINE v == l.view
           e == Empty(d)
           u == Append(v, e)
           c == ShownIn(v)
           on == [l EXCEPT !.view = u]
           m == ShowSection(l, d)
<1>1. l \in Lists /\ Fits(l.all, v) /\ l.snap = c /\ v \in Seq(SectionDatum)
  BY DEF Firm, Fits
<1>2. /\ e \in SectionDatum /\ e.section = d.section /\ Distinct(e) /\ \A r : ~HasRow(e, r)
      /\ CellOf(e) = [section |-> d.section, rows |-> <<>>]
  BY EmptyIs
<1> HIDE DEF e
<1>3. PICK i \in 1 .. Len(v) + 1 : i = Len(v) + 1
  BY <1>1
<1>4. u = InsertAt(v, i, e)
  BY <1>1, <1>2, <1>3, AppendIsInsert
<1> HIDE DEF u
<1>5. /\ Fits(l.all, u) /\ RowsOf(u) = RowsOf(v) /\ u \in Seq(SectionDatum)
      /\ Sections(u) = Sections(v) \cup {d.section}
  <2>1. /\ Fits(l.all, InsertAt(v, i, e)) /\ RowsOf(InsertAt(v, i, e)) = RowsOf(v) \cup {r \in Row : HasRow(e, r)}
        /\ Sections(InsertAt(v, i, e)) = Sections(v) \cup {e.section}
    BY <1>1, <1>2, FitsShownSection
  <2>2. {r \in Row : HasRow(e, r)} = {}
    BY <1>2
  <2>3. Fits(l.all, u) /\ RowsOf(u) = RowsOf(v) /\ Sections(u) = Sections(v) \cup {d.section}
    BY <1>2, <1>4, <2>1, <2>2
  <2> QED BY <2>3 DEF Fits
<1>6. InsertAt(c, i, CellOf(e)) = ShownIn(u) /\ ShownIn(u) \in Seq(Cell) /\ Len(c) = Len(v)
  BY <1>1, <1>2, <1>4, <1>5, ShownInsert, ShownInIs
<1>7. on \in Lists /\ on.all = l.all /\ on.view = u /\ on.snap = c /\ on.updating = l.updating
  BY <1>1, <1>5 DEF Lists
<1>8. m = InsertSectionAt(on, d.section, Len(v) + 1)
  BY DEF ShowSection, u, e
<1> HIDE DEF on, m, c
<1>9. m = [on EXCEPT !.snap = InsertAt(c, i, CellOf(e))]
  <2>1. (IF i > Len(c) THEN Len(c) + 1 ELSE i) = i /\ Len(v) + 1 = i
    BY <1>3, <1>6
  <2> QED BY <1>2, <1>7, <1>8, <2>1 DEF InsertSectionAt
<1>10. m \in Lists /\ m.all = l.all /\ m.view = u /\ m.snap = ShownIn(u) /\ m.updating = l.updating
  BY <1>6, <1>7, <1>9 DEF Lists
<1>11. Firm(m)
  BY <1>5, <1>10 DEF Firm
<1> QED BY <1>5, <1>10, <1>11 DEF m

LEMMA AppendRowIs ==
  ASSUME NEW l, Firm(l), NEW r \in Row, r \notin RowsOf(l.all), NEW sd \in SectionDatum,
         sd.isSearched \/ sd.section \in Sections(l.all),
         KindOf[r] = sd.section, NEW A, Flagged(l.all, A) => sd.isActive = (sd.section \in A)
  PROVE  More(l, AppendRow(l, r, sd), {r}, {sd.section}, A)
<1> DEFINE s == sd.section
           v == l.view
           known == IF Has(l.all, s) THEN l ELSE [l EXCEPT !.all = Append(@, Empty(sd))]
           a == known.all
           i == IndexOf(a, s)
           b == MoreRows(a, i, r)
           stored == [known EXCEPT !.all[i].rows = Append(@, r)]
<1>1. /\ l \in Lists /\ Fits(l.all, v) /\ l.snap = ShownIn(v)
      /\ l.all \in Seq(SectionDatum) /\ v \in Seq(SectionDatum)
      /\ RowsOf(v) \subseteq RowsOf(l.all)
  BY DEF Firm, Fits
<1>2. /\ known \in Lists /\ Fits(a, v) /\ known.view = v /\ known.snap = ShownIn(v)
      /\ known.updating = l.updating
      /\ RowsOf(a) = RowsOf(l.all) /\ Sections(a) = Sections(l.all) \cup {s}
      /\ Flagged(l.all, A) => Flagged(a, A)
  <2>1. CASE Has(l.all, s)
    <3>1. s \in Sections(l.all)
      BY <1>1, <2>1, IndexIs
    <3>2. known = l
      BY <2>1
    <3> HIDE DEF known
    <3> QED BY <1>1, <3>1, <3>2
  <2>2. CASE ~Has(l.all, s)
    <3> DEFINE e == Empty(sd)
    <3>1. s \notin Sections(l.all)
      BY <1>1, <2>2, IndexIs
    <3>2. /\ e \in SectionDatum /\ e.section = s /\ e.isActive = sd.isActive
          /\ Distinct(e) /\ OfKind(e) /\ \A q : ~HasRow(e, q)
      BY EmptyIs
    <3> HIDE DEF e
    <3>3. PICK j \in 1 .. Len(l.all) + 1 : j = Len(l.all) + 1
      BY <1>1
    <3>4. Append(l.all, e) = InsertAt(l.all, j, e)
      BY <1>1, <3>2, <3>3, AppendIsInsert
    <3> DEFINE x == Append(l.all, e)
    <3>5. /\ Fits(x, v) /\ RowsOf(x) = RowsOf(l.all) \cup {q \in Row : HasRow(e, q)}
          /\ Sections(x) = Sections(l.all) \cup {e.section}
          /\ \A B : Flagged(l.all, B) /\ e.isActive = (e.section \in B) => Flagged(x, B)
      <4>1. /\ Fits(InsertAt(l.all, j, e), v)
            /\ RowsOf(InsertAt(l.all, j, e)) = RowsOf(l.all) \cup {q \in Row : HasRow(e, q)}
            /\ Sections(InsertAt(l.all, j, e)) = Sections(l.all) \cup {e.section}
            /\ \A B : Flagged(l.all, B) /\ e.isActive = (e.section \in B) => Flagged(InsertAt(l.all, j, e), B)
        <5>1. e.section \notin Sections(l.all)
          BY <3>1, <3>2
        <5> HIDE DEF v
        <5> QED BY <1>1, <3>2, <5>1, FitsMoreSection
      <4> QED BY <3>4, <4>1
    <3>6. known = [l EXCEPT !.all = x] /\ x \in Seq(SectionDatum)
      BY <2>2, <3>5 DEF e, Fits
    <3> HIDE DEF x, known
    <3>7. /\ known \in Lists /\ a = x /\ known.view = v /\ known.snap = ShownIn(v)
          /\ known.updating = l.updating
      BY <1>1, <3>6 DEF Lists
    <3>8. {q \in Row : HasRow(e, q)} = {}
      BY <3>2
    <3> QED BY <3>2, <3>5, <3>7, <3>8
  <2> QED BY <2>1, <2>2
<1>15. Available(a) \subseteq Available(l.all) /\ Unsearched(a) \subseteq Unsearched(l.all)
  <2>1. CASE Has(l.all, s)
    BY <2>1
  <2>2. CASE ~Has(l.all, s)
    <3> DEFINE e == Empty(sd)
    <3>1. s \notin Sections(l.all)
      BY <1>1, <2>2, IndexIs
    <3>2. e \in SectionDatum /\ ~isAvailable(e) /\ e.isSearched
      BY <3>1, EmptyIs, EmptyShows
    <3>3. a = Append(l.all, e)
      BY <1>1, <2>2 DEF Lists
    <3> HIDE DEF e, known
    <3>4. PICK j \in 1 .. Len(l.all) + 1 : j = Len(l.all) + 1
      BY <1>1
    <3>5. a = InsertAt(l.all, j, e)
      BY <1>1, <3>2, <3>3, <3>4, AppendIsInsert
    <3> QED BY <1>1, <3>2, <3>5, PutShows
  <2> QED BY <2>1, <2>2
<1>3. a \in Seq(SectionDatum) /\ Keyed(a) /\ i \in DOMAIN a /\ a[i].section = s
  <2>1. a \in Seq(SectionDatum) /\ Keyed(a) /\ s \in Sections(a)
    BY <1>2 DEF Fits
  <2> HIDE DEF known
  <2> QED BY <2>1, IndexIs
<1>4. AppendRow(l, r, sd)
        = IF ~isAvailable(stored.all[IndexOf(stored.all, s)]) THEN stored
          ELSE IF Has(stored.view, s)
          THEN ShowRow(stored, r, getIndexOfActiveSectionForView(stored, s))
          ELSE ShowRow(ShowSection(stored, sd), r, Len(stored.view) + 1)
  BY DEF AppendRow
<1> HIDE DEF known
<1>5. /\ b \in Seq(SectionDatum) /\ RowsOf(b) = RowsOf(a) \cup {r}
      /\ Sections(b) = Sections(a) /\ Keyed(b)
      /\ \A B : Flagged(a, B) => Flagged(b, B)
      /\ b[i].section = s /\ i \in DOMAIN b
  <2> HIDE DEF i
  <2> QED BY <1>3, MoreRowsHas
<1>16. /\ Unsearched(b) = Unsearched(a) /\ Available(b) \subseteq Available(a) \cup {s}
       /\ ~isAvailable(b[i]) => Available(b) \subseteq Available(a)
       /\ isAvailable(b[i]) => s \notin Unsearched(b)
  <2> HIDE DEF i
  <2> QED BY <1>3, MoreRowsShow
<1>6. Fits(b, v)
  <2> HIDE DEF i
  <2> QED BY <1>2, <1>3, FitsMoreRow
<1>7. stored = [known EXCEPT !.all = b]
  BY DEF MoreRows
<1> HIDE DEF i, b, stored
<1>8. /\ stored \in Lists /\ stored.all = b /\ stored.view = v /\ stored.snap = ShownIn(v)
      /\ stored.updating = l.updating
  BY <1>2, <1>5, <1>7 DEF Lists
<1>9. IndexOf(b, s) = i
  BY <1>5, IndexIs
<1>10. Firm(stored)
  BY <1>6, <1>8 DEF Firm
<1> DEFINE m == AppendRow(l, r, sd)
<1>11. /\ Firm(m) /\ m.all = b /\ m.updating = l.updating
       /\ Sections(m.view) = Sections(v) \cup {x \in {s} : isAvailable(b[i])}
  <2>0. r \notin RowsOf(v) /\ r \in RowsOf(stored.all) /\ r \notin RowsOf(stored.view)
    BY <1>1, <1>5, <1>8
  <2>1. CASE ~isAvailable(b[i])
    BY <1>4, <1>8, <1>9, <1>10, <2>1
  <2>2. CASE isAvailable(b[i]) /\ Has(v, s)
    <3> DEFINE p == getIndexOfActiveSectionForView(stored, s)
    <3>1. p \in Nat /\ p # 0
      BY <1>8, PlaceIs
    <3>2. m = ShowRow(stored, r, p)
      BY <1>4, <1>8, <1>9, <2>2
    <3>3. s \in Sections(v)
      BY <1>1, <2>2, IndexIs
    <3> HIDE DEF p, m
    <3> QED BY <1>8, <1>10, <2>0, <2>2, <3>1, <3>2, <3>3, ShowRowIs
  <2>3. CASE isAvailable(b[i]) /\ ~Has(v, s)
    <3>1. s \notin Sections(v)
      BY <1>1, <2>3, IndexIs
    <3>2. s \in Active(b)
      BY <1>5, <2>3 DEF isAvailable, Active
    <3> DEFINE x == ShowSection(stored, sd)
    <3>3. /\ Firm(x) /\ x.all = b /\ x.updating = l.updating /\ RowsOf(x.view) = RowsOf(v)
          /\ Sections(x.view) = Sections(v) \cup {s}
      BY <1>8, <1>10, <3>1, <3>2, ShowSectionIs
    <3>4. m = ShowRow(x, r, Len(v) + 1)
      BY <1>4, <1>8, <1>9, <2>3
    <3>5. Len(v) + 1 \in Nat /\ Len(v) + 1 # 0
      BY <1>1
    <3>6. r \in RowsOf(x.all) /\ r \notin RowsOf(x.view)
      BY <1>8, <2>0, <3>3
    <3> HIDE DEF x, m
    <3>7. /\ Firm(ShowRow(x, r, Len(v) + 1)) /\ ShowRow(x, r, Len(v) + 1).all = x.all
          /\ ShowRow(x, r, Len(v) + 1).updating = x.updating
          /\ Sections(ShowRow(x, r, Len(v) + 1).view) = Sections(x.view)
      <4> DEFINE p == Len(v) + 1
      <4> HIDE DEF p
      <4>1. p \in Nat /\ p # 0
        BY <3>5 DEF p
      <4>2. /\ Firm(ShowRow(x, r, p)) /\ ShowRow(x, r, p).all = x.all /\ ShowRow(x, r, p).updating = x.updating
            /\ Sections(ShowRow(x, r, p).view) = Sections(x.view)
        BY <3>3, <3>6, <4>1, ShowRowIs
      <4> QED BY <4>2 DEF p
    <3> QED BY <2>3, <3>3, <3>4, <3>7
  <2> QED BY <2>1, <2>2, <2>3
<1> HIDE DEF m
<1>12. Flagged(l.all, A) => Flagged(b, A)
  BY <1>2, <1>5
<1>13. RowsOf(b) = RowsOf(l.all) \cup {r} /\ Sections(b) = Sections(l.all) \cup {s}
  BY <1>2, <1>5
<1>17. Keeps(l, m)
  BY <1>11, <1>15, <1>16, KeepsMore
<1>14. More(l, m, {r}, {s}, A)
  BY <1>11, <1>12, <1>13, <1>17 DEF More
<1> QED BY <1>14 DEF m

LEMMA MoreStill ==
  ASSUME NEW l, NEW m, NEW p, NEW R, NEW S, NEW Q, NEW P, NEW A, More(l, m, R, S, A), More(m, p, Q, P, A)
  PROVE  More(l, p, R \cup Q, S \cup P, A)
<1>1. RowsOf(p.all) = RowsOf(l.all) \cup (R \cup Q)
  BY DEF More
<1>2. Sections(p.all) = Sections(l.all) \cup (S \cup P)
  BY DEF More
<1>3. Keeps(l, p)
  BY KeepsStill DEF More
<1> QED BY <1>1, <1>2, <1>3 DEF More

\* The section data's flag is that of A.
LEMMA AppendRowsTo ==
  ASSUME NEW l, Firm(l), NEW sd \in SectionDatum, NEW rows \in Seq(Row),
         sd.isSearched \/ sd.section \in Sections(l.all),
         rows # <<>> \/ sd.section \in Sections(l.all),
         \A i \in DOMAIN rows : KindOf[rows[i]] = sd.section /\ rows[i] \notin RowsOf(l.all),
         \A i, j \in DOMAIN rows : rows[i] = rows[j] => i = j,
         NEW A, sd.isActive = (sd.section \in A)
  PROVE  More(l, AppendRows(l, rows, sd), {rows[i] : i \in DOMAIN rows}, {sd.section}, A)
<1> DEFINE n == Len(rows)
           R(i) == {rows[j] : j \in 1 .. i}
           S(i) == IF i = 0 THEN {} ELSE {sd.section}
<1>1. PICK g : /\ g[0] = l /\ \A i \in 1 .. Len(rows) : g[i] = AppendRow(g[i - 1], rows[i], sd)
               /\ AppendRows(l, rows, sd) = g[Len(rows)]
  BY AppendRowsTurns
<1> DEFINE H == {i \in 0 .. n : More(l, g[i], R(i), S(i), A)}
<1>2. n \in Nat /\ DOMAIN rows = 1 .. n /\ (n = 0 <=> rows = <<>>) /\ 0 \in 0 .. n /\ n \in 0 .. n
      /\ \A i \in 1 .. n : rows[i] \in Row
  OBVIOUS
<1>0. Firm(l) /\ sd \in SectionDatum /\ sd.isActive = (sd.section \in A)
      /\ (\A i \in 1 .. n : KindOf[rows[i]] = sd.section /\ rows[i] \notin RowsOf(l.all))
      /\ (\A i, j \in 1 .. n : rows[i] = rows[j] => i = j)
      /\ (n # 0 \/ sd.section \in Sections(l.all))
      /\ (sd.isSearched \/ sd.section \in Sections(l.all))
  BY <1>2
<1>3. /\ g[0] = l /\ (\A i \in 1 .. n : g[i] = AppendRow(g[i - 1], rows[i], sd))
      /\ AppendRows(l, rows, sd) = g[n]
  BY <1>1
<1> HIDE DEF n
<1>4. 0 \in H
  <2>1. R(0) = {} /\ S(0) = {}
    OBVIOUS
  <2>2. More(l, l, {}, {}, A)
    BY <1>0, KeepsAlike DEF More
  <2> HIDE DEF R, S
  <2> QED BY <1>2, <1>3, <2>1, <2>2
<1>5. ASSUME NEW i \in 1 .. n, i - 1 \in H PROVE i \in H
  <2> DEFINE m == g[i - 1]
  <2>1. More(l, m, R(i - 1), S(i - 1), A)
    BY <1>5
  <2>2. rows[i] \notin R(i - 1)
    <3>1. \A j \in 1 .. i - 1 : j \in 1 .. n /\ j # i
      BY <1>2
    <3> QED BY <1>0, <3>1
  <2>3. rows[i] \in Row /\ KindOf[rows[i]] = sd.section /\ rows[i] \notin RowsOf(l.all) /\ i \in 0 .. n
    BY <1>0, <1>2
  <2>4. /\ Firm(m) /\ rows[i] \notin RowsOf(m.all)
        /\ sd.isSearched \/ sd.section \in Sections(m.all)
    <3> HIDE DEF R, S, m
    <3> QED BY <1>0, <2>1, <2>2, <2>3 DEF More
  <2> HIDE DEF m
  <2>5. More(m, AppendRow(m, rows[i], sd), {rows[i]}, {sd.section}, A)
    BY <1>0, <2>3, <2>4, AppendRowIs
  <2>6. More(m, g[i], {rows[i]}, {sd.section}, A)
    BY <1>3, <2>5 DEF m
  <2>7. More(l, g[i], R(i - 1) \cup {rows[i]}, S(i - 1) \cup {sd.section}, A)
    <3> HIDE DEF R, S
    <3> QED BY <2>1, <2>6, MoreStill
  <2>8. R(i - 1) \cup {rows[i]} = R(i)
    <3>1. \A j : j \in 1 .. i <=> j \in 1 .. i - 1 \/ j = i
      BY <1>2
    <3> QED BY <3>1
  <2>9. S(i - 1) \cup {sd.section} = S(i)
    OBVIOUS
  <2> HIDE DEF R, S
  <2> QED BY <2>3, <2>7, <2>8, <2>9
<1>6. \A i \in 0 .. n : i \in H
  <2> HIDE DEF H
  <2> QED BY <1>2, <1>4, <1>5, TurnByTurn
<1>7. More(l, g[n], R(n), S(n), A)
  <2> HIDE DEF R, S
  <2> QED BY <1>2, <1>6
<1>8. R(n) = {rows[i] : i \in DOMAIN rows}
  BY <1>2
<1>9. Sections(l.all) \cup S(n) = Sections(l.all) \cup {sd.section}
  BY <1>0
<1> HIDE DEF R, S
<1>10. More(l, g[n], R(n), {sd.section}, A)
  BY <1>7, <1>9 DEF More
<1> QED BY <1>3, <1>8, <1>10

LEMMA AppendRowsIs ==
  ASSUME NEW l, Firm(l), NEW sd \in SectionDatum, NEW rows \in Seq(Row),
         sd.isSearched \/ sd.section \in Sections(l.all),
         rows # <<>> \/ sd.section \in Sections(l.all),
         \A i \in DOMAIN rows : KindOf[rows[i]] = sd.section /\ rows[i] \notin RowsOf(l.all),
         \A i, j \in DOMAIN rows : rows[i] = rows[j] => i = j,
         NEW A, Flagged(l.all, A) => sd.isActive = (sd.section \in A)
  PROVE  More(l, AppendRows(l, rows, sd), {rows[i] : i \in DOMAIN rows}, {sd.section}, A)
<1>1. CASE sd.isActive = (sd.section \in A)
  BY <1>1, AppendRowsTo
<1>2. CASE sd.isActive # (sd.section \in A)
  <2> DEFINE B == IF sd.isActive THEN {sd.section} ELSE {}
             R == {rows[i] : i \in DOMAIN rows}
             m == AppendRows(l, rows, sd)
  <2>1. sd.isActive = (sd.section \in B)
    BY DEF SectionDatum
  <2> HIDE DEF B
  <2>2. More(l, m, R, {sd.section}, B)
    BY <2>1, AppendRowsTo
  <2> HIDE DEF R, m
  <2>3. More(l, m, R, {sd.section}, A)
    BY <1>2, <2>2 DEF More
  <2> QED BY <2>3 DEF R, m
<1> QED BY <1>1, <1>2

\* A section that is not known yet.
LEMMA AppendSectionIs ==
  ASSUME NEW l, Firm(l), NEW sd \in SectionDatum, Distinct(sd), OfKind(sd),
         sd.section \notin Sections(l.all), sd.isSearched,
         NEW A, Flagged(l.all, A) => sd.isActive = (sd.section \in A)
  PROVE  More(l, appendSectionData(l, sd), {r \in Row : HasRow(sd, r)}, {sd.section}, A)
<1> DEFINE m == appendSectionData(l, sd)
           R == {r \in Row : HasRow(sd, r)}
<1>1. sd.rows \in Seq(Row)
  BY DEF SectionDatum
<1>2. l \in Lists /\ Fits(l.all, l.view) /\ l.all \in Seq(SectionDatum) /\ Keyed(l.all) /\ OneKind(l.all)
  BY DEF Firm, Fits
<1>3. \A r \in RowsOf(l.all) : ~HasRow(sd, r)
  <2>1. \A r \in RowsOf(l.all) : KindOf[r] \in Sections(l.all)
    BY <1>2, KindOfRow
  <2> QED BY <2>1 DEF OfKind, HasRow
<1>4. CASE sd.rows = <<>>
  <2>1. PICK j \in 1 .. Len(l.all) + 1 : j = Len(l.all) + 1
    BY <1>2
  <2> DEFINE x == Append(l.all, sd)
  <2>2. x = InsertAt(l.all, j, sd)
    BY <1>2, <2>1, AppendIsInsert
  <2>3. /\ Fits(InsertAt(l.all, j, sd), l.view)
        /\ RowsOf(InsertAt(l.all, j, sd)) = RowsOf(l.all) \cup R
        /\ Sections(InsertAt(l.all, j, sd)) = Sections(l.all) \cup {sd.section}
        /\ \A B : Flagged(l.all, B) /\ sd.isActive = (sd.section \in B) => Flagged(InsertAt(l.all, j, sd), B)
    BY <1>2, <1>3, FitsMoreSection
  <2>4. /\ Fits(x, l.view)
        /\ RowsOf(x) = RowsOf(l.all) \cup R
        /\ Sections(x) = Sections(l.all) \cup {sd.section}
        /\ Flagged(l.all, A) => Flagged(x, A)
    <3> HIDE DEF x, R
    <3> QED BY <2>2, <2>3
  <2>5. m = [l EXCEPT !.all = x] /\ x \in Seq(SectionDatum)
    BY <1>2, <1>4 DEF appendSectionData
  <2> HIDE DEF x, m
  <2>6. m \in Lists /\ m.all = x /\ m.view = l.view /\ m.snap = l.snap /\ m.updating = l.updating
    BY <1>2, <2>5 DEF Lists
  <2>7. Firm(m)
    BY <2>4, <2>6 DEF Firm
  <2>9. Keeps(l, m)
    <3>1. ~isAvailable(sd)
      BY <1>4 DEF isAvailable
    <3>2. x = InsertAt(l.all, j, sd)
      BY <2>2 DEF x
    <3>3. Available(x) \subseteq Available(l.all) /\ Unsearched(x) \subseteq Unsearched(l.all)
      BY <1>2, <3>1, <3>2, PutShows
    <3> QED BY <2>6, <3>3, KeepsMore
  <2> HIDE DEF R
  <2>8. More(l, m, R, {sd.section}, A)
    BY <2>4, <2>6, <2>7, <2>9 DEF More
  <2> QED BY <2>8 DEF m, R
<1>5. CASE sd.rows # <<>>
  <2>1. \A i \in DOMAIN sd.rows : KindOf[sd.rows[i]] = sd.section /\ sd.rows[i] \notin RowsOf(l.all)
    BY <1>3 DEF OfKind, HasRow
  <2>2. \A i, j \in DOMAIN sd.rows : sd.rows[i] = sd.rows[j] => i = j
    BY DEF Distinct
  <2>3. More(l, AppendRows(l, sd.rows, sd), {sd.rows[i] : i \in DOMAIN sd.rows}, {sd.section}, A)
    BY <1>1, <1>5, <2>1, <2>2, AppendRowsIs
  <2>4. {sd.rows[i] : i \in DOMAIN sd.rows} = R
    BY <1>1 DEF HasRow
  <2>5. m = AppendRows(l, sd.rows, sd)
    BY <1>5 DEF appendSectionData
  <2> HIDE DEF R, m
  <2>6. More(l, m, R, {sd.section}, A)
    BY <2>3, <2>4, <2>5
  <2> QED BY <2>6 DEF R, m
<1> QED BY <1>4, <1>5

LEMMA DistinctRows ==
  ASSUME NEW src, RowsOnce(src), NEW i \in DOMAIN src
  PROVE  Distinct(src[i])
BY DEF RowsOnce, Distinct

LEMMA AppendLackingIs ==
  ASSUME NEW l, Firm(l), NEW sd \in SectionDatum, Distinct(sd), OfKind(sd), sd.isSearched,
         NEW A, sd.isActive = (sd.section \in A)
  PROVE  More(l, AppendLacking(l, sd), {r \in Row : HasRow(sd, r)}, {sd.section}, A)
<1> DEFINE m == AppendLacking(l, sd)
           R == {r \in Row : HasRow(sd, r)}
           i == IndexOf(l.all, sd.section)
<1>1. sd.rows \in Seq(Row)
  BY DEF SectionDatum
<1>2. l.all \in Seq(SectionDatum) /\ Keyed(l.all) /\ OneKind(l.all)
  BY DEF Firm, Fits
<1>3. /\ i = 0 <=> sd.section \notin Sections(l.all)
      /\ i # 0 => i \in DOMAIN l.all /\ l.all[i].section = sd.section
  BY <1>2, IndexIs
<1>4. CASE i = 0
  <2>1. m = appendSectionData(l, sd)
    BY <1>4 DEF AppendLacking
  <2>2. sd.section \notin Sections(l.all)
    BY <1>3, <1>4
  <2>3. More(l, appendSectionData(l, sd), {r \in Row : HasRow(sd, r)}, {sd.section}, A)
    BY <2>2, AppendSectionIs
  <2> QED BY <2>1, <2>3
<1>5. CASE i # 0
  <2> DEFINE d == l.all[i]
             q == Lacking(sd.rows, d.rows)
             Q == {q[j] : j \in DOMAIN q}
  <2>1. i \in DOMAIN l.all /\ d.section = sd.section /\ d.rows \in Seq(Row) /\ d \in SectionDatum
        /\ sd.section \in Sections(l.all)
    <3> HIDE DEF i
    <3> QED BY <1>2, <1>3, <1>5, RowIsIn, SeqIs
  <2>2. m = AppendRows(l, q, d)
    BY <1>5 DEF AppendLacking
  <2> HIDE DEF i
  <2>3. /\ q \in Seq(Row)
        /\ Q = {r \in Row : (\E j \in DOMAIN sd.rows : sd.rows[j] = r) /\ ~\E j \in DOMAIN d.rows : d.rows[j] = r}
        /\ (\A j, k \in DOMAIN sd.rows : sd.rows[j] = sd.rows[k] => j = k)
           => \A j, k \in DOMAIN q : q[j] = q[k] => j = k
    <3> HIDE DEF d
    <3> QED BY <1>1, <2>1, LackingIs
  <2> HIDE DEF q
  <2>4. \A j, k \in DOMAIN q : q[j] = q[k] => j = k
    BY <2>3 DEF Distinct
  <2>5. ASSUME NEW j \in DOMAIN q PROVE KindOf[q[j]] = sd.section /\ q[j] \notin RowsOf(l.all)
    <3>1. q[j] \in Q
      OBVIOUS
    <3>2. q[j] \in Row /\ HasRow(sd, q[j]) /\ ~HasRow(d, q[j])
      <4> HIDE DEF Q, d
      <4> QED BY <2>3, <3>1 DEF HasRow
    <3>3. KindOf[q[j]] = sd.section
      BY <3>2 DEF OfKind, HasRow
    <3> QED BY <1>2, <2>1, <3>2, <3>3, KindOfRow
  <2>6. Flagged(l.all, A) => d.isActive = (d.section \in A)
    BY <2>1 DEF Flagged
  <2> HIDE DEF d
  <2>7. More(l, AppendRows(l, q, d), Q, {d.section}, A)
    <3>1. d \in SectionDatum /\ q \in Seq(Row) /\ d.section \in Sections(l.all)
      BY <2>1, <2>3
    <3>2. \A j \in DOMAIN q : KindOf[q[j]] = d.section /\ q[j] \notin RowsOf(l.all)
      BY <2>1, <2>5
    <3> QED BY <2>4, <2>6, <3>1, <3>2, AppendRowsIs
  <2>8. RowsOf(l.all) \cup Q = RowsOf(l.all) \cup R
    <3>1. \A r \in Row : HasRow(d, r) => r \in RowsOf(l.all)
      BY <2>1 DEF RowsOf, d
    <3>2. \A r : r \in Q => r \in R
      BY <2>3 DEF HasRow
    <3>3. \A r : r \in R => r \in Q \/ r \in RowsOf(l.all)
      BY <2>3, <3>1 DEF HasRow
    <3> QED BY <3>2, <3>3
  <2> HIDE DEF Q, R, m
  <2>9. More(l, m, R, {sd.section}, A)
    BY <2>1, <2>2, <2>7, <2>8 DEF More
  <2> QED BY <2>9 DEF m, R
<1> QED BY <1>4, <1>5

LEMMA AppendedIs ==
  ASSUME NEW l, Firm(l), NEW new, IsNew(new), Unsearched(new) = {}, NEW A, Flagged(new, A)
  PROVE  More(l, AppendedLacking(l, new), RowsOf(new), Sections(new), A)
<1> DEFINE n == Len(new)
           R(i) == {r \in Row : \E j \in 1 .. i : HasRow(new[j], r)}
           S(i) == {new[j].section : j \in 1 .. i}
<1>1. new \in Seq(SectionDatum) /\ Keyed(new) /\ RowsOnce(new) /\ OneKind(new)
  BY DEF IsNew
<1>2. n \in Nat /\ DOMAIN new = 1 .. n /\ 0 \in 0 .. n /\ n \in 0 .. n
      /\ \A i \in 1 .. n : new[i] \in SectionDatum
  BY <1>1
<1>3. PICK g : /\ g[0] = l /\ \A i \in 1 .. Len(new) : g[i] = AppendLacking(g[i - 1], new[i])
               /\ AppendedLacking(l, new) = g[Len(new)]
  BY <1>1, AppendLackingTurns
<1>4. /\ g[0] = l /\ (\A i \in 1 .. n : g[i] = AppendLacking(g[i - 1], new[i]))
      /\ AppendedLacking(l, new) = g[n]
  BY <1>3
<1> HIDE DEF n
<1> DEFINE H == {i \in 0 .. n : More(l, g[i], R(i), S(i), A)}
<1>5. 0 \in H
  <2>1. R(0) = {} /\ S(0) = {}
    OBVIOUS
  <2>2. More(l, l, {}, {}, A)
    BY KeepsAlike DEF More
  <2> HIDE DEF R, S
  <2> QED BY <1>2, <1>4, <2>1, <2>2
<1>6. ASSUME NEW i \in 1 .. n, i - 1 \in H PROVE i \in H
  <2> DEFINE m == g[i - 1]
             sd == new[i]
             Q == {r \in Row : HasRow(sd, r)}
  <2>1. More(l, m, R(i - 1), S(i - 1), A)
    BY <1>6
  <2>2. sd \in SectionDatum /\ Distinct(sd) /\ i \in 0 .. n
    BY <1>1, <1>2, DistinctRows
  <2>3. OfKind(sd)
    BY <1>1, <1>2, KindIs DEF OfKind
  <2>4. sd.isActive = (sd.section \in A)
    BY <1>2 DEF Flagged
  <2>5. Firm(m)
    BY <2>1 DEF More
  <2>12. sd.isSearched
    BY <1>2 DEF Unsearched
  <2> HIDE DEF m, sd
  <2>6. More(m, AppendLacking(m, sd), Q, {sd.section}, A)
    BY <2>2, <2>3, <2>4, <2>5, <2>12, AppendLackingIs
  <2>7. More(m, g[i], Q, {sd.section}, A)
    BY <1>4, <2>6 DEF m, sd
  <2>8. More(l, g[i], R(i - 1) \cup Q, S(i - 1) \cup {sd.section}, A)
    <3> HIDE DEF R, S, Q
    <3> QED BY <2>1, <2>7, MoreStill
  <2>9. \A j : j \in 1 .. i <=> j \in 1 .. i - 1 \/ j = i
    BY <1>2
  <2>10. R(i - 1) \cup Q = R(i)
    BY <2>9 DEF sd
  <2>11. S(i - 1) \cup {sd.section} = S(i)
    BY <2>9 DEF sd
  <2> HIDE DEF R, S, Q
  <2> QED BY <2>2, <2>8, <2>10, <2>11
<1>7. \A i \in 0 .. n : i \in H
  <2> HIDE DEF H
  <2> QED BY <1>2, <1>5, <1>6, TurnByTurn
<1>8. More(l, g[n], R(n), S(n), A)
  <2> HIDE DEF R, S
  <2> QED BY <1>2, <1>7
<1>9. R(n) = RowsOf(new)
  BY <1>2 DEF RowsOf
<1>10. S(n) = Sections(new)
  BY <1>2 DEF Sections
<1> QED BY <1>4, <1>8, <1>9, <1>10

\* m is l brought up to date with the new list.
Updated(l, m, new, A) ==
  /\ Firm(m) /\ RowsOf(m.all) = RowsOf(new)
  /\ Sections(new) \subseteq Sections(m.all)
  /\ Sections(m.all) \subseteq Sections(l.all) \cup Sections(new)
  /\ Flagged(l.all, A) => Flagged(m.all, A)
  /\ m.updating = (new = <<>>)
  /\ new = <<>> => Tight(m)
  /\ Keeps(l, m)

LEMMA UpdateIs ==
  ASSUME NEW l, Tight(l), NEW new, IsNew(new), Unsearched(new) = {}, NEW A, Flagged(new, A)
  PROVE  Updated(l, Update(l, new), new, A)
<1> DEFINE removed == RemovedLacking(l, Reverse(l.all), new)
           cut == [removed EXCEPT !.updating = new = <<>>]
           m == AppendedLacking(cut, new)
<1>0. Tight(l) /\ IsNew(new) /\ Flagged(new, A) /\ Unsearched(new) = {}
  OBVIOUS
<1>1. Update(l, new) = m
  BY DEF Update, RemovedLacking, AppendedLacking
<1>2. Less(l, removed, Lost(Sections(l.all), new), Sections(l.all))
  BY RemovedIs
<1> HIDE DEF removed
<1>3. Tight(removed)
  BY <1>2 DEF Less
<1>4. removed \in Lists
  BY <1>3 DEF Tight, Firm
<1>5. /\ cut \in Lists /\ cut.all = removed.all /\ cut.view = removed.view /\ cut.snap = removed.snap
      /\ cut.updating = (new = <<>>)
  BY <1>4 DEF Lists
<1> HIDE DEF cut
<1>6. Tight(cut)
  BY <1>3, <1>5 DEF Tight, Firm
<1>7. Firm(cut)
  BY <1>6 DEF Tight
<1>8. More(cut, m, RowsOf(new), Sections(new), A)
  BY <1>0, <1>7, AppendedIs
<1>9. RowsOf(l.all) \subseteq RowsOf(new) \cup Lost(Sections(l.all), new)
  <2>1. Keyed(l.all) /\ OneKind(l.all)
    BY <1>0 DEF Tight, Firm, Fits
  <2> QED BY <2>1, KindOfRow DEF Lost, RowsOf
<1>10. RowsOf(m.all) = RowsOf(new)
  BY <1>2, <1>5, <1>8, <1>9 DEF Less, More
<1>11. Sections(m.all) = Sections(removed.all) \cup Sections(new) /\ Sections(removed.all) \subseteq Sections(l.all)
  BY <1>2, <1>5, <1>8 DEF Less, More
<1>12. Flagged(l.all, A) => Flagged(m.all, A)
  BY <1>2, <1>5, <1>8 DEF Less, More
<1>13. Firm(m) /\ m.updating = (new = <<>>)
  BY <1>5, <1>8 DEF More
<1>14. new = <<>> => Tight(m)
  <2>1. new = <<>> => RowsOf(new) = {}
    BY DEF RowsOf
  <2>2. RowsOf(m.view) \subseteq RowsOf(m.all)
    BY <1>13 DEF Firm, Fits
  <2>3. m.view \in Seq(SectionDatum)
    BY <1>13 DEF Firm, Fits
  <2>4. ASSUME RowsOf(m.view) = {} PROVE OneKind(m.view)
    <3>1. \A i \in DOMAIN m.view : m.view[i].rows \in Seq(Row)
      BY <2>3, RowIsIn
    <3>2. \A i \in DOMAIN m.view : \A k \in DOMAIN m.view[i].rows : m.view[i].rows[k] \in Row
      BY <3>1
    <3> QED BY <2>4, <3>2 DEF RowsOf, HasRow, OneKind, Range
  <2> QED BY <1>10, <1>13, <2>1, <2>2, <2>4 DEF Tight
<1>16. Keeps(l, m)
  <2>1. Keeps(removed, cut)
    BY <1>5, KeepsAlike
  <2>2. Keeps(l, cut)
    BY <1>2, <2>1, KeepsStill DEF Less
  <2> HIDE DEF m
  <2> QED BY <1>8, <2>2, KeepsStill DEF More
<1> HIDE DEF m
<1>15. Updated(l, m, new, A)
  BY <1>10, <1>11, <1>12, <1>13, <1>14, <1>16 DEF Updated
<1> QED BY <1>1, <1>15

-----------------------------------------------------------------------------
(* What is fetched.                                                        *)

\* The records of the store that the search finds.
Wanted == {r \in store : Found(r)}

LEMMA FetchedIs ==
  ASSUME instance \in Instances, store \subseteq Row, NEW s
  PROVE  /\ Fetched(s) \in Seq(Row)
         /\ \A r \in Row : (\E k \in DOMAIN Fetched(s) : Fetched(s)[k] = r) <=> r \in Wanted /\ KindOf[r] = s
         /\ \A j, k \in DOMAIN Fetched(s) : Fetched(s)[j] = Fetched(s)[k] => j = k
<1> DEFINE S == {r \in store : KindOf[r] = s /\ Found(r)}
           rows == [r \in Row |-> r]
           q == Fetched(s)
           D == {i \in 1 .. Len(rows) : rows[i] \in S}
<1>1. PICK n \in Nat : Row = 1 .. n
  BY KindIsSection
<1>2. rows = [r \in 1 .. n |-> r] /\ rows \in Seq(Row) /\ Len(rows) = n
  BY <1>1
<1>3. q = Filtered(rows, S)
  BY DEF Fetched
<1> HIDE DEF rows, S
<1>4. Filtered(rows, S) \in Seq(Row) /\ Picks(Filtered(rows, S), rows, D)
  BY <1>2, FilteredIs
<1>5. q \in Seq(Row) /\ Picks(q, rows, D)
  BY <1>3, <1>4
<1> HIDE DEF q
<1>6. \A i \in 1 .. n : rows[i] = i
  BY <1>2
<1>7. D = S
  <2>1. S \subseteq 1 .. n
    BY <1>1 DEF S
  <2> QED BY <1>2, <1>6, <2>1
<1> HIDE DEF D
<1>8. PICK at \in [1 .. Len(q) -> D] :
        /\ \A k \in 1 .. Len(q) : q[k] = rows[at[k]]
        /\ \A j, k \in 1 .. Len(q) : at[j] = at[k] => j = k
        /\ \A i \in D : \E k \in 1 .. Len(q) : at[k] = i
  BY <1>5 DEF Picks
<1>9. DOMAIN q = 1 .. Len(q)
  BY <1>5
<1>10. \A k \in DOMAIN q : q[k] = at[k] /\ at[k] \in S
  <2>1. S \subseteq 1 .. n
    BY <1>1 DEF S
  <2>2. ASSUME NEW k \in 1 .. Len(q) PROVE q[k] = at[k] /\ at[k] \in S
    <3>1. at[k] \in D
      BY <1>8
    <3>2. at[k] \in S /\ at[k] \in 1 .. n
      BY <1>7, <2>1, <3>1
    <3>3. rows[at[k]] = at[k]
      BY <1>6, <3>2
    <3> QED BY <1>8, <3>2, <3>3
  <2> QED BY <1>9, <2>2
<1>11. \A r \in Row : (\E k \in DOMAIN q : q[k] = r) <=> r \in S
  BY <1>7, <1>8, <1>9, <1>10
<1>12. \A j, k \in DOMAIN q : q[j] = q[k] => j = k
  BY <1>8, <1>9, <1>10
<1>13. \A r \in Row : r \in S <=> r \in Wanted /\ KindOf[r] = s
  BY DEF S, Wanted
<1> QED BY <1>5, <1>11, <1>12, <1>13 DEF q

LEMMA SectionDataIs ==
  ASSUME instance \in Instances, store \subseteq Row, NEW s \in Section
  PROVE  /\ SectionData(s, Fetched(s)) \in SectionDatum
         /\ SectionData(s, Fetched(s)).section = s
         /\ SectionData(s, Fetched(s)).isActive = (s \in active)
         /\ SectionData(s, Fetched(s)).isSearched
         /\ Distinct(SectionData(s, Fetched(s))) /\ OfKind(SectionData(s, Fetched(s)))
         /\ \A r \in Row : HasRow(SectionData(s, Fetched(s)), r) <=> r \in Wanted /\ KindOf[r] = s
<1> DEFINE d == SectionData(s, Fetched(s))
           q == Fetched(s)
<1>1. /\ q \in Seq(Row)
      /\ \A r \in Row : (\E k \in DOMAIN q : q[k] = r) <=> r \in Wanted /\ KindOf[r] = s
      /\ \A j, k \in DOMAIN q : q[j] = q[k] => j = k
  BY FetchedIs
<1>2. d = [section |-> s, rows |-> q, isActive |-> s \in active, isSearched |-> TRUE]
  BY DEF SectionData
<1> HIDE DEF d, q
<1>3. d \in SectionDatum /\ d.section = s /\ d.rows = q
  BY <1>1, <1>2 DEF SectionDatum
<1>4. d.isActive = (s \in active) /\ d.isSearched
  BY <1>2
<1>5. Distinct(d) /\ \A r \in Row : HasRow(d, r) <=> r \in Wanted /\ KindOf[r] = s
  BY <1>1, <1>3 DEF Distinct, HasRow
<1>6. OfKind(d)
  <2>1. \A k \in DOMAIN q : q[k] \in Row
    BY <1>1
  <2> QED BY <1>1, <1>3, <2>1 DEF OfKind
<1> QED BY <1>3, <1>4, <1>5, <1>6 DEF d, q

\* An order of the list sections.
IsOrder(q) ==
  /\ q \in Seq(Section)
  /\ \A i, j \in DOMAIN q : q[i] = q[j] => i = j
  /\ \A s \in Section : \E i \in DOMAIN q : q[i] = s

LEMMA FirstOrder ==
  ASSUME instance \in Instances
  PROVE  IsOrder(instance.sections)
<1> DEFINE q == instance.sections
<1>1. q \in Seq(Section)
  BY KindIsSection
<1>2. IsInjective(q)
  BY ListTableAssumption
<1>3. Section = {q[i] : i \in DOMAIN q}
  BY DEF Section, Range
<1> HIDE DEF q
<1>4. IsOrder(q)
  BY <1>1, <1>2, <1>3 DEF IsOrder, IsInjective
<1> QED BY <1>4 DEF q

LEMMA OrdersAre ==
  ASSUME instance \in Instances, NEW q
  PROVE  /\ q \in SetToSeqs(Section) <=> IsOrder(q)
         /\ IsFiniteSet(Section)
<1> DEFINE f == instance.sections
           n == Len(f)
           c == Cardinality(Section)
<1>1. IsOrder(f)
  BY FirstOrder
<1>2. f \in Seq(Section) /\ n \in Nat /\ DOMAIN f = 1 .. n
  BY <1>1 DEF IsOrder
<1> HIDE DEF n
<1>3. f \in [1 .. n -> Section]
  BY <1>2
<1>4. f \in Bijection(1 .. n, Section)
  BY <1>1, <1>2, <1>3 DEF IsOrder, Bijection, Injection, Surjection, IsInjective
<1>5. IsFiniteSet(Section) /\ c = n
  <2>1. ExistsBijection(1 .. n, Section)
    BY <1>4 DEF ExistsBijection
  <2> QED BY <1>2, <2>1, FS_CountingElements, FS_NatBijection
<1>6. SetToSeqs(Section) = {g \in [1 .. c -> Section] : \A i, j \in 1 .. c : i # j => g[i] # g[j]}
  BY DEF SetToSeqs
<1> HIDE DEF c
<1>7. ASSUME q \in SetToSeqs(Section) PROVE IsOrder(q)
  <2>1. q \in [1 .. c -> Section] /\ \A i, j \in 1 .. c : i # j => q[i] # q[j]
    BY <1>6, <1>7
  <2>2. q \in Seq(Section) /\ DOMAIN q = 1 .. c /\ c \in Nat
    BY <1>2, <1>5, <2>1
  <2>3. q \in Injection(1 .. c, Section)
    BY <2>1 DEF Injection, IsInjective
  <2>4. Cardinality(1 .. c) = c
    BY <2>2, FS_Interval
  <2>5. q \in Surjection(1 .. c, Section)
    BY <1>5, <2>3, <2>4, FS_Injection DEF c
  <2>6. \A s \in Section : \E i \in 1 .. c : q[i] = s
    BY <2>5 DEF Surjection
  <2> QED BY <2>1, <2>2, <2>6 DEF IsOrder
<1>8. ASSUME IsOrder(q) PROVE q \in SetToSeqs(Section)
  <2> DEFINE m == Len(q)
  <2>1. m \in Nat /\ DOMAIN q = 1 .. m /\ q \in [1 .. m -> Section]
    BY <1>8 DEF IsOrder
  <2> HIDE DEF m
  <2>2. q \in Bijection(1 .. m, Section)
    BY <1>8, <2>1 DEF IsOrder, Bijection, Injection, Surjection, IsInjective
  <2>3. c = m
    <3>1. ExistsBijection(1 .. m, Section)
      BY <2>2 DEF ExistsBijection
    <3> QED BY <2>1, <3>1, FS_CountingElements DEF c
  <2>4. \A i, j \in 1 .. c : i # j => q[i] # q[j]
    BY <1>8, <2>1, <2>3 DEF IsOrder
  <2> QED BY <1>6, <2>1, <2>3, <2>4
<1> QED BY <1>5, <1>7, <1>8

IsPut(T, new, s, i, d) == new \in Seq(T) /\ i \in DOMAIN new /\ new[i] = d /\ Picks(s, new, DOMAIN new \ {i})

LEMMA PutPicks ==
  ASSUME NEW T, NEW s \in Seq(T), NEW d \in T, NEW i \in 1 .. Len(s) + 1
  PROVE  IsPut(T, InsertAt(s, i, d), s, i, d)
BY InsertPicks DEF IsPut

LEMMA ReorderIs ==
  ASSUME NEW q, IsOrder(q), NEW from \in DOMAIN q, NEW to \in DOMAIN q
  PROVE  IsOrder(InsertAt(RemoveAt(q, from), to, q[from]))
<1> DEFINE e == q[from]
           r == RemoveAt(q, from)
           new == InsertAt(r, to, e)
<1>1. /\ q \in Seq(Section) /\ e \in Section /\ from \in 1 .. Len(q) /\ to \in 1 .. Len(q) /\ Len(q) \in Nat
      /\ \A i, j \in DOMAIN q : q[i] = q[j] => i = j
      /\ \A s \in Section : \E i \in DOMAIN q : q[i] = s
  BY DEF IsOrder
<1>2. r \in Seq(Section) /\ Picks(r, q, DOMAIN q \ {from}) /\ Len(r) = Len(q) - 1
  BY <1>1, RemovePicks, RemoveAtIs
<1> HIDE DEF r, e
<1>3. to \in 1 .. Len(r) + 1
  BY <1>1, <1>2
<1>4. /\ new \in Seq(Section) /\ to \in DOMAIN new /\ new[to] = e
      /\ Picks(r, new, DOMAIN new \ {to})
  BY <1>1, <1>2, <1>3, PutPicks DEF IsPut
<1> HIDE DEF new
<1>5. PICK at \in [1 .. Len(r) -> DOMAIN q \ {from}] :
        /\ \A k \in 1 .. Len(r) : r[k] = q[at[k]]
        /\ \A j, k \in 1 .. Len(r) : at[j] = at[k] => j = k
        /\ \A i \in DOMAIN q \ {from} : \E k \in 1 .. Len(r) : at[k] = i
  BY <1>2 DEF Picks
<1>6. PICK to2 \in [1 .. Len(r) -> DOMAIN new \ {to}] :
        /\ \A k \in 1 .. Len(r) : r[k] = new[to2[k]]
        /\ \A j, k \in 1 .. Len(r) : to2[j] = to2[k] => j = k
        /\ \A i \in DOMAIN new \ {to} : \E k \in 1 .. Len(r) : to2[k] = i
  BY <1>4 DEF Picks
<1>7. \A i \in DOMAIN new : i = to \/ \E k \in 1 .. Len(r) : to2[k] = i /\ new[i] = r[k]
  BY <1>6
<1>8. \A j, k \in 1 .. Len(r) : r[j] = r[k] => j = k
  <2>1. \A k \in 1 .. Len(r) : at[k] \in DOMAIN q /\ r[k] = q[at[k]]
    BY <1>5
  <2> QED BY <1>1, <1>5, <2>1
<1>9. \A k \in 1 .. Len(r) : r[k] # e
  <2>1. \A k \in 1 .. Len(r) : at[k] \in DOMAIN q /\ at[k] # from /\ r[k] = q[at[k]]
    BY <1>5
  <2> QED BY <1>1, <2>1 DEF e
<1>10. ASSUME NEW i \in DOMAIN new, NEW j \in DOMAIN new, new[i] = new[j] PROVE i = j
  <2>1. CASE i = to
    <3>1. ASSUME NEW k \in 1 .. Len(r), new[j] = r[k] PROVE FALSE
      BY <1>4, <1>9, <1>10, <2>1, <3>1
    <3> QED BY <1>7, <2>1, <3>1
  <2>2. CASE j = to
    <3>1. ASSUME NEW k \in 1 .. Len(r), new[i] = r[k] PROVE FALSE
      BY <1>4, <1>9, <1>10, <2>2, <3>1
    <3> QED BY <1>7, <2>2, <3>1
  <2>3. CASE i # to /\ j # to
    <3>1. PICK x \in 1 .. Len(r) : to2[x] = i /\ new[i] = r[x]
      BY <1>7, <2>3
    <3>2. PICK y \in 1 .. Len(r) : to2[y] = j /\ new[j] = r[y]
      BY <1>7, <2>3
    <3>3. x = y
      BY <1>8, <1>10, <3>1, <3>2
    <3> QED BY <3>1, <3>2, <3>3
  <2> QED BY <2>1, <2>2, <2>3
<1>11. ASSUME NEW s \in Section PROVE \E i \in DOMAIN new : new[i] = s
  <2>1. PICK i \in DOMAIN q : q[i] = s
    BY <1>1
  <2>2. CASE i = from
    BY <1>4, <2>1, <2>2 DEF e
  <2>3. CASE i # from
    <3>1. PICK k \in 1 .. Len(r) : at[k] = i
      BY <1>5, <2>3
    <3>2. r[k] = s
      BY <1>5, <2>1, <3>1
    <3>3. to2[k] \in DOMAIN new /\ new[to2[k]] = s
      BY <1>6, <3>2
    <3> QED BY <3>3
  <2> QED BY <2>2, <2>3
<1>12. IsOrder(new)
  BY <1>4, <1>10, <1>11 DEF IsOrder
<1> QED BY <1>12 DEF new, r, e

\* What configureDataSource gets.
IsFetched(new) ==
  /\ IsNew(new) /\ Flagged(new, active) /\ Sections(new) = present
  /\ RowsOf(new) = {r \in Wanted : KindOf[r] \in present}
  /\ new = <<>> => present = {}
  /\ Unsearched(new) = {}

LEMMA SectionsNowIs ==
  ASSUME instance \in Instances, store \subseteq Row, present \subseteq Section, IsOrder(order)
  PROVE  IsFetched(SectionsNow)
<1> DEFINE n == Len(order)
           D == {i \in 1 .. n : order[i] \in present}
           val == [i \in 1 .. n |-> SectionData(order[i], Fetched(order[i]))]
           Good(f) == f = [k \in 0 .. Len(order) |->
             IF k = 0 THEN <<>>
             ELSE f[k - 1] \o (IF order[k] \in present
                               THEN <<SectionData(order[k], Fetched(order[k]))>> ELSE <<>>)]
           up == CHOOSE f : Good(f)
           new == SectionsNow
<1>1. new = up[Len(order)]
  BY DEF SectionsNow, Joined
<1>2. /\ order \in Seq(Section) /\ n \in Nat /\ DOMAIN order = 1 .. n
      /\ \A i, j \in 1 .. n : order[i] = order[j] => i = j
      /\ \A s \in Section : \E i \in 1 .. n : order[i] = s
      /\ \A i \in 1 .. n : order[i] \in Section
  BY DEF IsOrder
<1>3. \A i \in 1 .. n : val[i] = SectionData(order[i], Fetched(order[i]))
  OBVIOUS
<1>4. ASSUME NEW i \in 1 .. n
      PROVE  /\ val[i] \in SectionDatum /\ val[i].section = order[i]
             /\ val[i].isActive = (order[i] \in active) /\ Distinct(val[i]) /\ OfKind(val[i])
             /\ val[i].isSearched
             /\ \A r \in Row : HasRow(val[i], r) <=> r \in Wanted /\ KindOf[r] = order[i]
  <2> DEFINE s == order[i]
  <2>1. s \in Section /\ val[i] = SectionData(s, Fetched(s))
    BY <1>2, <1>3
  <2> HIDE DEF s, val
  <2>2. /\ SectionData(s, Fetched(s)) \in SectionDatum
        /\ SectionData(s, Fetched(s)).section = s
        /\ SectionData(s, Fetched(s)).isActive = (s \in active)
        /\ SectionData(s, Fetched(s)).isSearched
        /\ Distinct(SectionData(s, Fetched(s))) /\ OfKind(SectionData(s, Fetched(s)))
        /\ \A r \in Row : HasRow(SectionData(s, Fetched(s)), r) <=> r \in Wanted /\ KindOf[r] = s
    BY <2>1, SectionDataIs
  <2>3. /\ val[i] \in SectionDatum /\ val[i].section = s
        /\ val[i].isActive = (s \in active) /\ Distinct(val[i]) /\ OfKind(val[i])
        /\ val[i].isSearched
        /\ \A r \in Row : HasRow(val[i], r) <=> r \in Wanted /\ KindOf[r] = s
    BY <2>1, <2>2
  <2> QED BY <2>3 DEF s
<1>5. ASSUME NEW f PROVE Good(f) <=> IsJoin(f, val, D, n)
  <2>1. \A k \in 0 .. n : k # 0 => (k \in D <=> order[k] \in present) /\ val[k] = SectionData(order[k], Fetched(order[k]))
    BY <1>2
  <2> HIDE DEF D, val
  <2>2. [k \in 0 .. Len(order) |->
             IF k = 0 THEN <<>>
             ELSE f[k - 1] \o (IF order[k] \in present
                               THEN <<SectionData(order[k], Fetched(order[k]))>> ELSE <<>>)]
          = [k \in 0 .. n |-> IF k = 0 THEN <<>> ELSE f[k - 1] \o (IF k \in D THEN <<val[k]>> ELSE <<>>)]
    BY <2>1
  <2> QED BY <2>2 DEF IsJoin
<1>6. D \in SUBSET (1 .. n) /\ \A i \in D : val[i] \in SectionDatum
  BY <1>4
<1> HIDE DEF D, val, Good
<1>7. PICK g : IsJoin(g, val, D, n)
  <2>1. n \in Nat
    BY <1>2
  <2> HIDE DEF n, up, new
  <2> QED BY <1>6, <2>1, JoinExists
<1>8. Good(up)
  BY <1>5, <1>7
<1> HIDE DEF up
<1>9. IsJoin(up, val, D, n)
  BY <1>5, <1>8
<1>10. up[n] \in Seq(SectionDatum) /\ Picks(up[n], val, D)
  BY <1>2, <1>6, <1>9, JoinPicks
<1> HIDE DEF new
<1>11. new \in Seq(SectionDatum) /\ Picks(new, val, D)
  BY <1>1, <1>10
<1>12. DOMAIN val = 1 .. n
  BY DEF val
<1>13. PICK C \in SUBSET DOMAIN val : C = D
  BY <1>6, <1>12
<1>14. HasPicked(new, val, C)
  BY <1>11, <1>13, PickedHas
<1>15. Keyed(val) /\ OneKind(val)
  BY <1>2, <1>4, <1>12 DEF Keyed, OneKind, OfKind, Range
<1>16. RowsOnce(val)
  <2> SUFFICES ASSUME NEW i \in 1 .. n, NEW j \in 1 .. n,
                      NEW k \in DOMAIN val[i].rows, NEW m \in DOMAIN val[j].rows,
                      val[i].rows[k] = val[j].rows[m]
               PROVE  i = j /\ k = m
    BY <1>12 DEF RowsOnce
  <2>1. order[i] = order[j]
    BY <1>4 DEF OfKind
  <2>2. i = j
    BY <1>2, <2>1
  <2>3. k = m
    BY <1>4, <2>2 DEF Distinct
  <2> QED BY <2>2, <2>3
<1>17. Flagged(val, active)
  BY <1>4, <1>12 DEF Flagged
<1>18. IsNew(new) /\ Flagged(new, active)
  BY <1>11, <1>14, <1>15, <1>16, <1>17 DEF HasPicked, IsNew
<1>19. \A i \in 1 .. n : i \in D <=> order[i] \in present
  BY DEF D
<1>20. Sections(new) = present
  <2>1. Sections(new) = {val[i].section : i \in D}
    BY <1>13, <1>14 DEF HasPicked
  <2>2. ASSUME NEW i \in D PROVE val[i].section \in present
    BY <1>4, <1>6, <1>19
  <2>3. ASSUME NEW s \in present PROVE \E i \in D : val[i].section = s
    BY <1>2, <1>4, <1>19
  <2> QED BY <2>1, <2>2, <2>3
<1>21. RowsOf(new) = {r \in Wanted : KindOf[r] \in present}
  <2>1. RowsOf(new) = {r \in Row : \E i \in D : HasRow(val[i], r)}
    BY <1>13, <1>14 DEF HasPicked
  <2>2. ASSUME NEW r \in Row, NEW i \in D, HasRow(val[i], r) PROVE r \in Wanted /\ KindOf[r] \in present
    BY <1>4, <1>6, <1>19, <2>2
  <2>3. ASSUME NEW r \in Wanted, KindOf[r] \in present PROVE r \in Row /\ \E i \in D : HasRow(val[i], r)
    <3>1. r \in Row
      BY DEF Wanted
    <3>2. PICK i \in 1 .. n : order[i] = KindOf[r]
      BY <1>2, <2>3
    <3>3. i \in D /\ HasRow(val[i], r)
      BY <1>4, <1>19, <2>3, <3>1, <3>2
    <3> QED BY <3>1, <3>3
  <2> QED BY <2>1, <2>2, <2>3
<1>22. new = <<>> => present = {}
  <2>1. new = <<>> => Sections(new) = {}
    BY DEF Sections
  <2> QED BY <1>20, <2>1
<1>23. Unsearched(new) = {}
  <2>1. \A k \in DOMAIN new : \E i \in D : new[k] = val[i]
    BY <1>11 DEF Picks
  <2>2. \A i \in D : val[i].isSearched
    BY <1>4, <1>6
  <2> QED BY <2>1, <2>2 DEF Unsearched
<1> QED BY <1>18, <1>20, <1>21, <1>22, <1>23 DEF IsFetched, new

-----------------------------------------------------------------------------
(* A whole section goes on show, or off it.                                *)

\* m is l but for the rows of the snapshot's section i.
Besides(l, m, i) ==
  /\ m \in Lists /\ m.all = l.all /\ m.view = l.view /\ m.updating = l.updating
  /\ Len(m.snap) = Len(l.snap)
  /\ \A j \in DOMAIN l.snap : j # i => m.snap[j] = l.snap[j]

LEMMA BesidesStill ==
  ASSUME NEW l, NEW m, NEW p, NEW i, l \in Lists, Besides(l, m, i), Besides(m, p, i)
  PROVE  Besides(l, p, i)
<1>1. DOMAIN l.snap = DOMAIN m.snap
  <2>1. l.snap \in Seq(Cell) /\ m.snap \in Seq(Cell) /\ Len(m.snap) = Len(l.snap)
    BY DEF Lists, Besides
  <2> QED BY <2>1
<1> QED BY <1>1 DEF Besides

LEMMA DeleteRowIs ==
  ASSUME NEW l \in Lists, NEW i \in Nat \ {0}, NEW k \in Nat \ {0}
  PROVE  Besides(l, DeleteRowAt(l, i, k), i)
<1> DEFINE c == l.snap
<1>1. c \in Seq(Cell) /\ Len(c) \in Nat /\ DOMAIN c = 1 .. Len(c)
  BY DEF Lists
<1>2. CASE i > Len(c) \/ k > Len(c[i].rows)
  <2>1. DeleteRowAt(l, i, k) = l
    BY <1>2 DEF DeleteRowAt
  <2> QED BY <2>1 DEF Besides
<1>3. CASE ~(i > Len(c)) /\ ~(k > Len(c[i].rows))
  <2>1. i \in DOMAIN c
    BY <1>1, <1>3
  <2>2. c[i].rows \in Seq(Row) /\ Len(c[i].rows) \in Nat
    <3>1. c[i] \in Cell
      BY <1>1, <2>1
    <3> HIDE DEF c
    <3> QED BY <3>1 DEF Cell
  <2>3. k \in 1 .. Len(c[i].rows)
    BY <1>3, <2>2
  <2> DEFINE q == RemoveAt(c[i].rows, k)
             x == WithRows(c, i, q)
             m == DeleteRowAt(l, i, k)
  <2>4. q \in Seq(Row)
    BY <2>2, <2>3, RemoveAtIs
  <2>5. m = [l EXCEPT !.snap = x]
    BY <1>3 DEF DeleteRowAt, WithRows
  <2>6. IsWithRows(Cell, x, c, i, q)
    <3>1. IsRowed(Cell)
      BY DEF IsRowed
    <3> HIDE DEF q
    <3> QED BY <1>1, <2>1, <2>4, <3>1, SetRows
  <2>7. x \in Seq(Cell) /\ Len(x) = Len(c) /\ \A j \in DOMAIN c : j # i => x[j] = c[j]
    BY <2>6 DEF IsWithRows
  <2> HIDE DEF x, m
  <2>8. m \in Lists /\ m.all = l.all /\ m.view = l.view /\ m.updating = l.updating /\ m.snap = x
    BY <2>5, <2>7 DEF Lists
  <2>9. Besides(l, m, i)
    BY <2>7, <2>8 DEF Besides
  <2> QED BY <2>9 DEF m
<1> QED BY <1>2, <1>3

LEMMA DeleteRowsAre ==
  ASSUME NEW l \in Lists, NEW i \in Nat \ {0}, NEW n \in Nat
  PROVE  Besides(l, DeleteRowsAt(l, i, n), i)
<1>0. PICK g : AreDeletions(g, l, i, n)
  BY DeleteRowsAtTurns
<1>1. /\ g[0] = l /\ \A k \in 1 .. n : g[k] = DeleteRowAt(g[k - 1], i, (n - k) + 1)
      /\ DeleteRowsAt(l, i, n) = g[n]
  BY <1>0 DEF AreDeletions
<1> DEFINE H == {k \in 0 .. n : Besides(l, g[k], i)}
<1>2. 0 \in H
  BY <1>1 DEF Besides
<1>3. ASSUME NEW k \in 1 .. n, k - 1 \in H PROVE k \in H
  <2>1. Besides(l, g[k - 1], i) /\ g[k - 1] \in Lists
    BY <1>3 DEF Besides
  <2>2. (n - k) + 1 \in Nat \ {0} /\ k \in 0 .. n
    OBVIOUS
  <2> DEFINE m == g[k - 1]
             h == (n - k) + 1
  <2>3. g[k] = DeleteRowAt(m, i, h)
    BY <1>1
  <2> HIDE DEF m, h
  <2>4. Besides(m, g[k], i)
    BY <2>1, <2>2, <2>3, DeleteRowIs DEF m, h
  <2>5. Besides(l, g[k], i)
    BY <2>1, <2>4, BesidesStill DEF m
  <2> QED BY <2>2, <2>5
<1>4. \A k \in 0 .. n : k \in H
  <2> HIDE DEF H
  <2> QED BY <1>2, <1>3, TurnByTurn
<1>5. n \in 0 .. n
  OBVIOUS
<1> QED BY <1>1, <1>4, <1>5

LEMMA SameRemoved ==
  ASSUME NEW T, NEW c \in Seq(T), NEW d \in Seq(T), Len(c) = Len(d), NEW i \in DOMAIN c,
         \A j \in DOMAIN c : j # i => d[j] = c[j]
  PROVE  RemoveAt(d, i) = RemoveAt(c, i)
<1> DEFINE n == Len(c)
           x == RemoveAt(c, i)
           y == RemoveAt(d, i)
<1>1. n \in Nat /\ DOMAIN c = 1 .. n /\ i \in 1 .. n /\ i \in 1 .. Len(d)
  BY SeqIs
<1>2. x \in Seq(T) /\ Len(x) = n - 1 /\ \A j \in 1 .. n - 1 : x[j] = IF j < i THEN c[j] ELSE c[j + 1]
  <2>1. i \in 1 .. Len(c)
    BY <1>1
  <2> QED BY <2>1, RemoveAtIs
<1>3. y \in Seq(T) /\ Len(y) = n - 1 /\ \A j \in 1 .. n - 1 : y[j] = IF j < i THEN d[j] ELSE d[j + 1]
  <2>1. i \in 1 .. Len(d) /\ Len(d) = n
    BY <1>1
  <2> HIDE DEF n
  <2>2. /\ y \in Seq(T) /\ Len(y) = Len(d) - 1
        /\ \A j \in 1 .. Len(d) - 1 : y[j] = IF j < i THEN d[j] ELSE d[j + 1]
    BY <2>1, RemoveAtIs
  <2> HIDE DEF y
  <2> QED BY <2>1, <2>2
<1> HIDE DEF n, x, y
<1>4. \A j \in 1 .. n - 1 : (j < i => j \in DOMAIN c /\ j # i) /\ (~(j < i) => j + 1 \in DOMAIN c /\ j + 1 # i)
  BY <1>1
<1>5. \A j \in 1 .. n - 1 : x[j] = y[j]
  BY <1>2, <1>3, <1>4
<1>6. x = y
  BY <1>2, <1>3, <1>5, SameSeqs
<1> QED BY <1>6 DEF x, y

\* m is l without section s.
IsHidden(l, m, s) ==
  /\ m \in Lists /\ m.all = l.all /\ m.updating = l.updating
  /\ s \notin Sections(l.view) => m = l
  /\ s \in Sections(l.view) =>
       \E i \in DOMAIN l.view :
         /\ l.view[i].section = s /\ m.view = RemoveAt(l.view, i)
         /\ i \in DOMAIN l.snap => m.snap = RemoveAt(l.snap, i)
         /\ i \notin DOMAIN l.snap => m.snap = l.snap

LEMMA HideWholeIs ==
  ASSUME NEW l \in Lists, NEW sd \in SectionDatum
  PROVE  IsHidden(l, HideWhole(l, sd), sd.section)
<1> DEFINE v == l.view
           s == sd.section
           i == IndexOf(v, s)
           m == HideWhole(l, sd)
           n == Len(sd.rows)
           bare == DeleteRowsAt(l, i, n)
           cut == DeleteSectionAt(bare, i)
<1>1. v \in Seq(SectionDatum) /\ n \in Nat /\ l.snap \in Seq(Cell)
  BY DEF Lists, SectionDatum
<1>2. /\ s \notin Sections(v) <=> i = 0
      /\ i # 0 => i \in DOMAIN v /\ v[i].section = s
  BY <1>1, IndexIs
<1>3. m = IF i = 0 THEN l ELSE [cut EXCEPT !.view = RemoveAt(@, i)]
  BY DEF HideWhole
<1> HIDE DEF i, n
<1>4. CASE i = 0
  BY <1>2, <1>3, <1>4 DEF IsHidden
<1>5. CASE i # 0
  <2>1. i \in Nat \ {0} /\ i \in 1 .. Len(v)
    BY <1>1, <1>2, <1>5
  <2>2. Besides(l, bare, i)
    BY <1>1, <2>1, DeleteRowsAre
  <2>3. /\ bare \in Lists /\ bare.all = l.all /\ bare.view = v /\ bare.updating = l.updating
        /\ Len(bare.snap) = Len(l.snap) /\ bare.snap \in Seq(Cell)
        /\ \A j \in DOMAIN l.snap : j # i => bare.snap[j] = l.snap[j]
    BY <2>2 DEF Besides, Lists
  <2> HIDE DEF bare
  <2>4. RemoveAt(v, i) \in Seq(SectionDatum)
    BY <1>1, <2>1, RemoveAtIs
  <2>5. CASE i > Len(l.snap)
    <3>1. cut = Trap(bare)
      BY <2>3, <2>5 DEF DeleteSectionAt
    <3>2. /\ cut \in Lists /\ cut.all = l.all /\ cut.view = v /\ cut.updating = l.updating
      BY <2>3, <3>1, TrapIs
    <3>3. bare = l
      <4>1. i \in Nat \ {0}
        BY <2>1
      <4>0. PICK g : AreDeletions(g, l, i, n)
        BY <1>1, DeleteRowsAtTurns
      <4>2. /\ g[0] = l /\ \A k \in 1 .. n : g[k] = DeleteRowAt(g[k - 1], i, (n - k) + 1)
            /\ DeleteRowsAt(l, i, n) = g[n]
        BY <4>0 DEF AreDeletions
      <4> DEFINE H == {k \in 0 .. n : g[k] = l}
      <4>3. 0 \in H
        BY <1>1, <4>2
      <4>4. ASSUME NEW k \in 1 .. n, k - 1 \in H PROVE k \in H
        <5>1. g[k] = DeleteRowAt(l, i, (n - k) + 1)
          BY <4>2, <4>4
        <5>2. k \in 0 .. n
          BY <1>1
        <5> QED BY <2>5, <5>1, <5>2 DEF DeleteRowAt
      <4>5. \A k \in 0 .. n : k \in H
        <5> HIDE DEF H
        <5> QED BY <1>1, <4>3, <4>4, TurnByTurn
      <4>6. n \in 0 .. n
        BY <1>1
      <4> QED BY <4>2, <4>5, <4>6 DEF bare
    <3>4. cut.snap = l.snap
      BY <3>1, <3>3, TrapIs
    <3> HIDE DEF cut, m
    <3>5. m = [cut EXCEPT !.view = RemoveAt(v, i)]
      BY <1>3, <1>5, <3>2
    <3>6. m \in Lists /\ m.all = l.all /\ m.view = RemoveAt(v, i) /\ m.snap = l.snap /\ m.updating = l.updating
      BY <2>4, <3>2, <3>4, <3>5 DEF Lists
    <3>7. i \notin DOMAIN l.snap
      BY <1>1, <2>5
    <3>8. IsHidden(l, m, s)
      BY <1>2, <1>5, <3>6, <3>7 DEF IsHidden
    <3> QED BY <3>8 DEF m
  <2>6. CASE ~(i > Len(l.snap))
    <3>1. i \in DOMAIN l.snap /\ i \in 1 .. Len(l.snap)
      BY <1>1, <2>1, <2>6
    <3>2. cut = [bare EXCEPT !.snap = RemoveAt(@, i)]
      BY <2>3, <2>6 DEF DeleteSectionAt
    <3>3. RemoveAt(bare.snap, i) = RemoveAt(l.snap, i)
      BY <1>1, <2>3, <3>1, SameRemoved
    <3>4. RemoveAt(l.snap, i) \in Seq(Cell)
      BY <1>1, <3>1, RemoveAtIs
    <3> HIDE DEF cut, m
    <3>5. /\ cut \in Lists /\ cut.all = l.all /\ cut.view = v /\ cut.updating = l.updating
          /\ cut.snap = RemoveAt(l.snap, i)
      BY <2>3, <3>2, <3>3, <3>4 DEF Lists
    <3>6. m = [cut EXCEPT !.view = RemoveAt(v, i)]
      BY <1>3, <1>5, <3>5
    <3>7. /\ m \in Lists /\ m.all = l.all /\ m.view = RemoveAt(v, i) /\ m.updating = l.updating
          /\ m.snap = RemoveAt(l.snap, i)
      BY <2>4, <3>5, <3>6 DEF Lists
    <3>8. IsHidden(l, m, s)
      BY <1>2, <1>5, <3>1, <3>7 DEF IsHidden
    <3> QED BY <3>8 DEF m
  <2> QED BY <2>5, <2>6
<1> QED BY <1>4, <1>5

\* The first k of the rows are in the snapshot's section i.
HasFirst(l, m, i, rows, k) ==
  /\ Besides(l, m, i)
  /\ m.snap[i].section = l.snap[i].section
  /\ m.snap[i].rows \in Seq(Row) /\ Len(m.snap[i].rows) = k
  /\ \A j \in 1 .. k : m.snap[i].rows[j] = rows[j]

LEMMA InsertRowIs ==
  ASSUME NEW l \in Lists, NEW m, NEW rows \in Seq(Row), NEW i \in DOMAIN l.snap,
         NEW k \in 1 .. Len(rows), HasFirst(l, m, i, rows, k - 1)
  PROVE  HasFirst(l, InsertRowAt(m, i, rows[k]), i, rows, k)
<1> DEFINE c == m.snap
           r == rows[k]
           q == Append(c[i].rows, r)
           x == MoreRows(c, i, r)
           p == InsertRowAt(m, i, r)
<1>1. /\ m \in Lists /\ m.all = l.all /\ m.view = l.view /\ m.updating = l.updating
      /\ Len(c) = Len(l.snap) /\ (\A j \in DOMAIN l.snap : j # i => c[j] = l.snap[j])
      /\ c[i].section = l.snap[i].section
      /\ c[i].rows \in Seq(Row) /\ Len(c[i].rows) = k - 1
      /\ \A j \in 1 .. k - 1 : c[i].rows[j] = rows[j]
  BY DEF HasFirst, Besides
<1>2. c \in Seq(Cell) /\ l.snap \in Seq(Cell) /\ r \in Row
  BY <1>1 DEF Lists
<1>3. i \in DOMAIN c /\ DOMAIN c = DOMAIN l.snap /\ ~(i > Len(c))
  BY <1>1, <1>2
<1>4. IsWithRows(Cell, x, c, i, q)
  <2>1. IsRowed(Cell)
    BY DEF IsRowed
  <2> HIDE DEF c, r
  <2> QED BY <1>2, <1>3, <2>1, AddRow
<1>5. /\ x \in Seq(Cell) /\ Len(x) = Len(c) /\ x[i].rows = q /\ x[i].section = c[i].section
      /\ \A j \in DOMAIN c : j # i => x[j] = c[j]
  BY <1>4 DEF IsWithRows
<1>6. p = [m EXCEPT !.snap = x]
  BY <1>3 DEF InsertRowAt, MoreRows
<1>7. q \in Seq(Row) /\ Len(q) = k /\ \A j \in 1 .. k : q[j] = rows[j]
  BY <1>1, <1>2
<1> HIDE DEF x, p, q
<1>8. p \in Lists /\ p.all = l.all /\ p.view = l.view /\ p.updating = l.updating /\ p.snap = x
  BY <1>1, <1>5, <1>6 DEF Lists
<1> HIDE DEF c
<1>9. HasFirst(l, p, i, rows, k)
  BY <1>1, <1>3, <1>5, <1>7, <1>8 DEF HasFirst, Besides
<1> QED BY <1>9 DEF p, r

LEMMA InsertRowsAre ==
  ASSUME NEW l \in Lists, NEW rows \in Seq(Row), NEW i \in DOMAIN l.snap, l.snap[i].rows = <<>>
  PROVE  HasFirst(l, InsertRowsAt(l, i, rows), i, rows, Len(rows))
<1> DEFINE n == Len(rows)
<1>1. PICK g : /\ g[0] = l /\ \A k \in 1 .. n : g[k] = InsertRowAt(g[k - 1], i, rows[k])
               /\ InsertRowsAt(l, i, rows) = g[n]
  BY InsertRowsAtTurns
<1> DEFINE H == {k \in 0 .. n : HasFirst(l, g[k], i, rows, k)}
<1>2. n \in Nat /\ 0 \in 0 .. n /\ n \in 0 .. n
  OBVIOUS
<1>3. 0 \in H
  <2>1. Besides(l, l, i)
    BY DEF Besides
  <2>2. <<>> \in Seq(Row) /\ Len(<<>>) = 0
    OBVIOUS
  <2>3. HasFirst(l, l, i, rows, 0)
    BY <2>1, <2>2 DEF HasFirst
  <2> QED BY <1>1, <1>2, <2>3
<1>4. ASSUME NEW k \in 1 .. n, k - 1 \in H PROVE k \in H
  <2> DEFINE m == g[k - 1]
  <2>1. HasFirst(l, m, i, rows, k - 1) /\ k \in 0 .. n
    BY <1>2, <1>4
  <2>2. g[k] = InsertRowAt(m, i, rows[k])
    BY <1>1
  <2> HIDE DEF m
  <2>3. HasFirst(l, g[k], i, rows, k)
    BY <2>1, <2>2, InsertRowIs
  <2> QED BY <2>1, <2>3
<1>5. \A k \in 0 .. n : k \in H
  <2> HIDE DEF H, n
  <2> QED BY <1>2, <1>3, <1>4, TurnByTurn
<1> QED BY <1>1, <1>2, <1>5

\* m is l with section d at i.
IsShown(l, m, d, i) ==
  /\ m \in Lists /\ m.all = l.all /\ m.updating = l.updating
  /\ m.view = InsertAt(l.view, i, d) /\ m.snap = InsertAt(l.snap, i, CellOf(d))

LEMMA ShowWholeIs ==
  ASSUME NEW l \in Lists, NEW d \in SectionDatum,
         NEW i \in 1 .. Len(l.view) + 1, i \in 1 .. Len(l.snap) + 1
  PROVE  IsShown(l, ShowWhole(l, d, i), d, i)
<1> DEFINE v == l.view
           c == l.snap
           u == InsertAt(v, i, d)
           e == [section |-> d.section, rows |-> <<>>]
           x == InsertAt(c, i, e)
           y == InsertAt(c, i, CellOf(d))
           on == [l EXCEPT !.view = u]
           at == InsertSectionAt(on, d.section, i)
           m == ShowWhole(l, d, i)
<1>1. v \in Seq(SectionDatum) /\ c \in Seq(Cell) /\ Len(v) \in Nat /\ Len(c) \in Nat
  BY DEF Lists
<1>2. u \in Seq(SectionDatum)
  <2>1. IsInserted(SectionDatum, u, v, i, d)
    BY <1>1, InsertedIs
  <2> QED BY <2>1 DEF IsInserted
<1>3. /\ e \in Cell /\ e.section = d.section /\ e.rows = <<>>
      /\ CellOf(d) \in Cell /\ CellOf(d).section = d.section /\ CellOf(d).rows = d.rows
      /\ d.rows \in Seq(Row)
  BY DEF Cell, CellOf, SectionDatum
<1> HIDE DEF e
<1>4. IsInserted(Cell, x, c, i, e) /\ IsInserted(Cell, y, c, i, CellOf(d))
  BY <1>1, <1>3, InsertedIs
<1>5. on \in Lists /\ on.all = l.all /\ on.view = u /\ on.snap = c /\ on.updating = l.updating
  <2> HIDE DEF u
  <2> QED BY <1>2 DEF Lists
<1>6. at = [on EXCEPT !.snap = x]
  <2>1. (IF i > Len(c) THEN Len(c) + 1 ELSE i) = i
    BY <1>1
  <2> HIDE DEF on
  <2> QED BY <1>5, <2>1 DEF InsertSectionAt, e
<1>7. m = InsertRowsAt(at, i, d.rows)
  BY <1>1 DEF ShowWhole
<1> HIDE DEF x, y, u, on, at, m
<1>8. x \in Seq(Cell) /\ Len(x) = Len(c) + 1 /\ i \in DOMAIN x /\ x[i] = e
  <2>1. x \in Seq(Cell) /\ Len(x) = Len(c) + 1
    BY <1>4 DEF IsInserted
  <2> QED BY <1>4, <2>1 DEF IsInserted
<1>9. at \in Lists /\ at.all = l.all /\ at.view = u /\ at.snap = x /\ at.updating = l.updating
  BY <1>5, <1>6, <1>8 DEF Lists
<1>10. HasFirst(at, m, i, d.rows, Len(d.rows))
  <2>1. i \in DOMAIN at.snap /\ at.snap[i].rows = <<>>
    BY <1>3, <1>8, <1>9
  <2> QED BY <1>3, <1>7, <1>9, <2>1, InsertRowsAre
<1>11. /\ m \in Lists /\ m.all = l.all /\ m.view = u /\ m.updating = l.updating
       /\ Len(m.snap) = Len(x) /\ (\A j \in DOMAIN x : j # i => m.snap[j] = x[j])
       /\ m.snap[i].section = d.section
       /\ m.snap[i].rows \in Seq(Row) /\ Len(m.snap[i].rows) = Len(d.rows)
       /\ \A j \in 1 .. Len(d.rows) : m.snap[i].rows[j] = d.rows[j]
  BY <1>3, <1>8, <1>9, <1>10 DEF HasFirst, Besides
<1>12. m.snap \in Seq(Cell) /\ DOMAIN m.snap = 1 .. Len(c) + 1 /\ DOMAIN x = 1 .. Len(c) + 1
  BY <1>8, <1>11 DEF Lists
<1>13. m.snap[i].rows = d.rows
  BY <1>3, <1>11, SameSeqs
<1>14. m.snap[i] = CellOf(d)
  <2>1. i \in DOMAIN m.snap
    BY <1>8, <1>12
  <2>2. m.snap[i] \in Cell
    BY <1>12, <2>1, SeqIs
  <2> QED BY <1>3, <1>11, <1>13, <2>2, SameCell
<1>15. y \in Seq(Cell) /\ Len(y) = Len(c) + 1 /\ DOMAIN y = 1 .. Len(c) + 1
  <2>1. y \in Seq(Cell) /\ Len(y) = Len(c) + 1
    BY <1>4 DEF IsInserted
  <2> QED BY <2>1
<1>16. \A j \in 1 .. Len(c) + 1 : m.snap[j] = y[j]
  <2> TAKE j \in 1 .. Len(c) + 1
  <2>1. /\ x[j] = IF j < i THEN c[j] ELSE IF j = i THEN e ELSE c[j - 1]
        /\ y[j] = IF j < i THEN c[j] ELSE IF j = i THEN CellOf(d) ELSE c[j - 1]
    BY <1>4 DEF IsInserted
  <2>2. CASE j = i
    BY <1>14, <2>1, <2>2
  <2>3. CASE j # i
    <3>1. m.snap[j] = x[j]
      BY <1>11, <1>12, <2>3
    <3> QED BY <2>1, <2>3, <3>1
  <2> QED BY <2>2, <2>3
<1>17. m.snap = y
  BY <1>8, <1>11, <1>12, <1>15, <1>16, SameSeqs
<1>18. IsShown(l, m, d, i)
  BY <1>11, <1>17 DEF IsShown, u, y
<1> QED BY <1>18 DEF m

-----------------------------------------------------------------------------
(* Flags.                                                                  *)

SameRows(new, src) ==
  /\ new \in Seq(SectionDatum) /\ DOMAIN new = DOMAIN src /\ Len(new) = Len(src)
  /\ \A j \in DOMAIN src : new[j].section = src[j].section /\ new[j].rows = src[j].rows

LEMMA SameRowsHas ==
  ASSUME NEW src, NEW new, SameRows(new, src)
  PROVE  /\ RowsOf(new) = RowsOf(src) /\ Sections(new) = Sections(src)
         /\ Keyed(src) => Keyed(new)
         /\ RowsOnce(src) => RowsOnce(new)
         /\ OneKind(src) => OneKind(new)
         /\ \A j \in DOMAIN src : \A r : HasRow(new[j], r) <=> HasRow(src[j], r)
<1>1. \A j \in DOMAIN src : \A r : HasRow(new[j], r) <=> HasRow(src[j], r)
  BY DEF SameRows, HasRow
<1>2. RowsOf(new) = RowsOf(src)
  BY <1>1 DEF SameRows, RowsOf
<1>3. Sections(new) = Sections(src)
  BY DEF SameRows, Sections
<1>4. Keyed(src) => Keyed(new)
  BY DEF SameRows, Keyed
<1>5. RowsOnce(src) => RowsOnce(new)
  BY DEF SameRows, RowsOnce
<1>6. OneKind(src) => OneKind(new)
  BY DEF SameRows, OneKind
<1> QED BY <1>1, <1>2, <1>3, <1>4, <1>5, <1>6

WithFlag(src, i, b) == [src EXCEPT ![i].isActive = b]

IsWithFlag(new, src, i, b) ==
  /\ SameRows(new, src) /\ new[i].isActive = b
  /\ \A j \in DOMAIN src : new[j].isSearched = src[j].isSearched
  /\ \A j \in DOMAIN src : j # i => new[j] = src[j]

LEMMA WithFlagIs ==
  ASSUME NEW src \in Seq(SectionDatum), NEW i \in DOMAIN src, NEW b \in BOOLEAN,
         NEW new, new = WithFlag(src, i, b)
  PROVE  IsWithFlag(new, src, i, b)
<1>1. src[i] \in SectionDatum
  OBVIOUS
<1> DEFINE d == [src[i] EXCEPT !.isActive = b]
<1>2. /\ d \in SectionDatum /\ d.section = src[i].section /\ d.rows = src[i].rows
      /\ d.isActive = b /\ d.isSearched = src[i].isSearched
  BY <1>1 DEF SectionDatum
<1>3. new = [src EXCEPT ![i] = d]
  BY DEF WithFlag
<1> HIDE DEF d
<1>4. new \in Seq(SectionDatum) /\ Len(new) = Len(src) /\ DOMAIN new = DOMAIN src
  BY <1>2, <1>3
<1>5. new[i] = d /\ \A j \in DOMAIN src : j # i => new[j] = src[j]
  BY <1>3
<1> QED BY <1>2, <1>4, <1>5 DEF IsWithFlag, SameRows

LEMMA FitsFlag ==
  ASSUME NEW a, NEW v, Fits(a, v), NEW i \in DOMAIN a, NEW b \in BOOLEAN,
         NEW new, new = WithFlag(a, i, b), b \/ a[i].section \notin Sections(v)
  PROVE  Fits(new, v)
<1>1. /\ a \in Seq(SectionDatum) /\ Keyed(a) /\ RowsOnce(a) /\ OneKind(a)
      /\ v \in Seq(SectionDatum) /\ Keyed(v) /\ RowsOnce(v)
      /\ RowsOf(v) \subseteq RowsOf(a) /\ Sections(v) \subseteq Active(a)
  BY DEF Fits
<1>2. IsWithFlag(new, a, i, b)
  BY <1>1, WithFlagIs
<1>3. /\ SameRows(new, a) /\ new[i].isActive = b
      /\ \A j \in DOMAIN a : j # i => new[j] = a[j]
  BY <1>2 DEF IsWithFlag
<1>4. /\ RowsOf(new) = RowsOf(a) /\ Keyed(new) /\ RowsOnce(new) /\ OneKind(new)
  BY <1>1, <1>3, SameRowsHas
<1>5. ASSUME NEW s \in Sections(v) PROVE s \in Active(new)
  <2>1. PICK j \in DOMAIN a : a[j].isActive /\ a[j].section = s
    BY <1>1, <1>5 DEF Active
  <2>2. j \in DOMAIN new /\ new[j].section = s
    BY <1>3, <2>1 DEF SameRows
  <2>3. new[j].isActive
    <3>1. CASE j = i
      BY <1>3, <1>5, <2>1, <3>1
    <3>2. CASE j # i
      BY <1>3, <2>1, <3>2
    <3> QED BY <3>1, <3>2
  <2> QED BY <2>2, <2>3 DEF Active
<1> QED BY <1>1, <1>3, <1>4, <1>5 DEF Fits, SameRows

LEMMA WithFlagShows ==
  ASSUME NEW src \in Seq(SectionDatum), Keyed(src), NEW i \in DOMAIN src, NEW b \in BOOLEAN,
         NEW new, IsWithFlag(new, src, i, b)
  PROVE  /\ Unsearched(new) = Unsearched(src)
         /\ Available(new) \subseteq Available(src) \cup {src[i].section}
         /\ ~isAvailable(new[i]) =>
              Available(new) \subseteq Available(src) /\ src[i].section \notin Available(new)
         /\ isAvailable(new[i]) => src[i].section \notin Unsearched(new)
<1>1. /\ DOMAIN new = DOMAIN src
      /\ \A j \in DOMAIN src : /\ new[j].section = src[j].section
                               /\ new[j].isSearched = src[j].isSearched
                               /\ j # i => new[j] = src[j]
  BY DEF IsWithFlag, SameRows
<1>2. \A j \in DOMAIN src : src[j].section = src[i].section => j = i
  BY DEF Keyed
<1>3. Unsearched(new) = Unsearched(src)
  BY <1>1 DEF Unsearched
<1>4. Available(new) \subseteq Available(src) \cup {src[i].section}
  BY <1>1 DEF Available
<1>5. ASSUME ~isAvailable(new[i])
      PROVE  Available(new) \subseteq Available(src) /\ src[i].section \notin Available(new)
  <2>1. src[i].section \notin Available(new)
    BY <1>1, <1>2, <1>5 DEF Available
  <2> QED BY <1>4, <2>1
<1>6. isAvailable(new[i]) => src[i].section \notin Unsearched(new)
  BY <1>1, <1>2 DEF Unsearched, isAvailable
<1> QED BY <1>3, <1>4, <1>5, <1>6

-----------------------------------------------------------------------------
(* A section is toggled.                                                   *)

\* What the sections to be shown have is not in the table.
Off(l, A) ==
  \A i \in DOMAIN l.all : l.all[i].section \in A /\ ~l.all[i].isActive =>
    \A r \in RowsOf(l.snap) : ~HasRow(l.all[i], r)

Slack(l, A) == Loose(l) /\ OneKind(l.view) /\ Off(l, A)

\* A section that is not on show has no row that is.
LEMMA HiddenIs ==
  ASSUME NEW a, NEW v, Fits(a, v), OneKind(v), NEW i \in DOMAIN a
  PROVE  /\ ~a[i].isActive => a[i].section \notin Sections(v)
         /\ a[i].section \notin Sections(v) => \A r \in RowsOf(v) : ~HasRow(a[i], r)
<1>1. /\ a \in Seq(SectionDatum) /\ Keyed(a) /\ OneKind(a)
      /\ Keyed(v) /\ Sections(v) \subseteq Active(a)
  BY DEF Fits
<1>2. a[i].section \in Sections(v) => a[i].isActive
  BY <1>1 DEF Active, Keyed
<1>3. ASSUME NEW r \in RowsOf(v), HasRow(a[i], r) PROVE a[i].section \in Sections(v)
  <2>1. KindOf[r] \in Sections(v)
    BY <1>1, KindOfRow
  <2>2. KindOf[r] = a[i].section
    BY <1>1, <1>3, KindIs DEF HasRow
  <2> QED BY <2>1, <2>2
<1> QED BY <1>2, <1>3

LEMMA TightIsSlack ==
  ASSUME NEW l, Tight(l), NEW A
  PROVE  Slack(l, A)
<1>1. /\ l \in Lists /\ Fits(l.all, l.view) /\ l.snap = ShownIn(l.view) /\ OneKind(l.view)
      /\ Loose(l)
  BY FirmIsLoose DEF Tight, Firm
<1>2. RowsOf(l.snap) = RowsOf(l.view)
  <2>1. l.view \in Seq(SectionDatum)
    BY <1>1 DEF Lists
  <2> QED BY <1>1, <2>1, ShownInIs
<1>3. Off(l, A)
  BY <1>1, <1>2, HiddenIs DEF Off
<1> QED BY <1>1, <1>3 DEF Slack

\* Section s is not on show, and has nothing to show.
NothingToShow(m, s) == s \notin Sections(m.view) /\ s \notin Available(m.all)

\* m is l with section i's flag b.
IsToggled(l, m, i, b, A) ==
  /\ Slack(m, A) /\ m.all = WithFlag(l.all, i, b)
  /\ Tight(l) => Tight(m)
  /\ Keeps(l, m)
  /\ m.updating => l.all[i].section \notin Sections(l.view) /\ NothingToShow(m, l.all[i].section)

LEMMA OffStill ==
  ASSUME NEW l, NEW m, NEW i \in DOMAIN l.all, NEW b, NEW A, Off(l, A),
         IsWithFlag(m.all, l.all, i, b), RowsOf(m.snap) \subseteq RowsOf(l.snap),
         b \/ l.all[i].section \notin A
  PROVE  Off(m, A)
<1>1. /\ DOMAIN m.all = DOMAIN l.all /\ m.all[i].section = l.all[i].section
      /\ m.all[i].isActive = b
      /\ \A j \in DOMAIN l.all : j # i => m.all[j] = l.all[j]
  BY DEF IsWithFlag, SameRows
<1>2. SUFFICES ASSUME NEW j \in DOMAIN l.all, m.all[j].section \in A, ~m.all[j].isActive,
                      NEW r \in RowsOf(m.snap)
               PROVE  ~HasRow(m.all[j], r)
  BY <1>1 DEF Off
<1>3. j # i
  BY <1>1, <1>2
<1>4. m.all[j] = l.all[j] /\ r \in RowsOf(l.snap)
  BY <1>1, <1>2, <1>3
<1> QED BY <1>2, <1>4 DEF Off

LEMMA RemovedCellIs ==
  ASSUME NEW c \in Seq(Cell), NEW i \in DOMAIN c, RowsOnce(c)
  PROVE  RemoveAt(c, i) \in Seq(Cell) /\ RowsOnce(RemoveAt(c, i)) /\ RowsOf(RemoveAt(c, i)) \subseteq RowsOf(c)
<1> DEFINE new == RemoveAt(c, i)
           D == DOMAIN c \ {i}
<1>1. new \in Seq(Cell) /\ Picks(new, c, D)
  BY RemovePicks
<1> HIDE DEF new
<1>2. HasPicked(new, c, D)
  <2>1. D \in SUBSET DOMAIN c
    OBVIOUS
  <2> HIDE DEF D
  <2> QED BY <1>1, <2>1, PickedHas
<1>3. RowsOnce(new) /\ RowsOf(new) \subseteq RowsOf(c)
  BY <1>2 DEF HasPicked, RowsOf
<1> QED BY <1>1, <1>3 DEF new

LEMMA DeactivateIs ==
  ASSUME NEW l, NEW A, Slack(l, A), NEW i \in DOMAIN l.all, l.all[i].section \notin A
  PROVE  IsToggled(l, Deactivate(l, l.all[i]), i, FALSE, A)
<1> DEFINE a == l.all
           v == l.view
           d == a[i]
           s == d.section
           b == WithFlag(a, i, FALSE)
           off == [l EXCEPT !.all[IndexOf(l.all, d.section)].isActive = FALSE]
           h == HideWhole(off, d)
           m == Deactivate(l, d)
<1>1. /\ l \in Lists /\ Fits(a, v) /\ RowsOnce(l.snap) /\ RowsOf(l.snap) \subseteq RowsOf(a)
      /\ OneKind(v) /\ Off(l, A)
  BY DEF Slack, Loose
<1>2. a \in Seq(SectionDatum) /\ v \in Seq(SectionDatum) /\ l.snap \in Seq(Cell) /\ Keyed(a)
  BY <1>1 DEF Lists, Fits
<1>3. IndexOf(a, s) = i
  <2>1. s \in Sections(a)
    BY DEF Sections
  <2> QED BY <1>2, <2>1, IndexIs
<1>4. off = [l EXCEPT !.all = b]
  BY <1>3 DEF WithFlag
<1>5. IsWithFlag(b, a, i, FALSE) /\ b \in Seq(SectionDatum) /\ RowsOf(b) = RowsOf(a)
  <2>1. IsWithFlag(b, a, i, FALSE)
    BY <1>2, WithFlagIs
  <2>2. SameRows(b, a)
    BY <2>1 DEF IsWithFlag
  <2> QED BY <2>1, <2>2, SameRowsHas DEF SameRows
<1> HIDE DEF off
<1>6. off \in Lists /\ off.all = b /\ off.view = v /\ off.snap = l.snap /\ off.updating = l.updating
  <2> HIDE DEF b
  <2> QED BY <1>1, <1>4, <1>5 DEF Lists
<1>7. d \in SectionDatum
  BY <1>2
<1>8. IsHidden(off, h, s)
  BY <1>6, <1>7, HideWholeIs
<1>9. m = [h EXCEPT !.updating = ~Has(v, s)] /\ Has(v, s) \in BOOLEAN
  BY DEF Deactivate, off, h, Has
<1>15. Has(v, s) <=> s \in Sections(v)
  BY <1>2, IndexIs
<1> HIDE DEF m, h, d, b
<1>10. /\ m \in Lists /\ m.all = h.all /\ m.view = h.view /\ m.snap = h.snap
       /\ h \in Lists /\ h.all = b /\ m.updating = ~Has(v, s)
  BY <1>6, <1>8, <1>9 DEF Lists, IsHidden
<1>11. /\ Fits(b, h.view) /\ OneKind(h.view)
       /\ RowsOnce(h.snap) /\ RowsOf(h.snap) \subseteq RowsOf(l.snap)
       /\ Tight(l) => h.snap = ShownIn(h.view)
       /\ Sections(h.view) = Sections(v) \ {s}
  <2>1. CASE s \notin Sections(v)
    <3>1. h = off
      BY <1>6, <1>8, <2>1 DEF IsHidden
    <3>2. Fits(b, v)
      BY <1>1, <2>1, FitsFlag DEF b, d
    <3>3. h.view = v /\ h.snap = l.snap
      BY <1>6, <3>1
    <3>4. Tight(l) => h.snap = ShownIn(h.view)
      BY <3>3 DEF Tight, Firm
    <3>5. Sections(h.view) = Sections(v) \ {s}
      BY <2>1, <3>3
    <3> QED BY <1>1, <3>2, <3>3, <3>4, <3>5
  <2>2. CASE s \in Sections(v)
    <3>1. PICK k \in DOMAIN v : /\ v[k].section = s /\ h.view = RemoveAt(v, k)
                                /\ k \in DOMAIN l.snap => h.snap = RemoveAt(l.snap, k)
                                /\ k \notin DOMAIN l.snap => h.snap = l.snap
      BY <1>6, <1>8, <2>2 DEF IsHidden
    <3>2. /\ Fits(a, h.view) /\ Sections(h.view) = Sections(v) \ {s} /\ OneKind(h.view)
      BY <1>1, <3>1, FitsHiddenSection
    <3>3. Fits(b, h.view)
      BY <3>2, FitsFlag DEF b, d
    <3>4. RowsOnce(h.snap) /\ RowsOf(h.snap) \subseteq RowsOf(l.snap)
      <4>1. CASE k \in DOMAIN l.snap
        BY <1>1, <1>2, <3>1, <4>1, RemovedCellIs
      <4>2. CASE k \notin DOMAIN l.snap
        BY <1>1, <3>1, <4>2
      <4> QED BY <4>1, <4>2
    <3>5. ASSUME Tight(l) PROVE h.snap = ShownIn(h.view)
      <4>1. l.snap = ShownIn(v)
        BY <3>5 DEF Tight, Firm
      <4>2. k \in DOMAIN l.snap
        BY <1>2, <4>1, ShownInIs
      <4> QED BY <1>2, <3>1, <4>1, <4>2, ShownRemove
    <3> QED BY <3>2, <3>3, <3>4, <3>5
  <2> QED BY <2>1, <2>2
<1>12. Loose(m)
  BY <1>1, <1>5, <1>10, <1>11 DEF Loose
<1>13. Off(m, A)
  BY <1>1, <1>5, <1>10, <1>11, OffStill
<1>14. Tight(l) => Tight(m)
  BY <1>10, <1>11 DEF Tight, Firm
<1>16. Unsearched(b) = Unsearched(a) /\ Available(b) \subseteq Available(a) /\ s \notin Available(b)
  <2>1. ~isAvailable(b[i])
    BY <1>5 DEF isAvailable, IsWithFlag
  <2> QED BY <1>2, <1>5, <2>1, WithFlagShows DEF d
<1>17. Keeps(l, m)
  BY <1>10, <1>11, <1>16, KeepsLess
<1>18. m.updating => s \notin Sections(v) /\ NothingToShow(m, s)
  BY <1>10, <1>11, <1>15, <1>16 DEF NothingToShow
<1> QED BY <1>10, <1>11, <1>12, <1>13, <1>14, <1>17, <1>18 DEF IsToggled, Slack, m, d, b

\* A section goes on show at i, and in the table.
LEMMA ShownCellIs ==
  ASSUME NEW c \in Seq(Cell), RowsOnce(c), NEW d \in SectionDatum, Distinct(d),
         \A r \in RowsOf(c) : ~HasRow(d, r), NEW i \in 1 .. Len(c) + 1
  PROVE  /\ InsertAt(c, i, CellOf(d)) \in Seq(Cell) /\ RowsOnce(InsertAt(c, i, CellOf(d)))
         /\ RowsOf(InsertAt(c, i, CellOf(d))) = RowsOf(c) \cup {r \in Row : HasRow(d, r)}
<1> DEFINE e == CellOf(d)
           new == InsertAt(c, i, e)
<1>1. e \in Cell /\ e.section = d.section /\ e.rows = d.rows
  BY DEF Cell, CellOf, SectionDatum
<1>2. IsRowed(Cell)
  BY DEF IsRowed
<1> HIDE DEF e
<1>3. new \in Seq(Cell) /\ HasPut(new, c, e)
  BY <1>1, <1>2, PutIs
<1> HIDE DEF new
<1>4. \A r : HasRow(e, r) <=> HasRow(d, r)
  BY <1>1 DEF HasRow
<1>5. \A j, k \in DOMAIN e.rows : e.rows[j] = e.rows[k] => j = k
  BY <1>1 DEF Distinct
<1>6. RowsOf(new) = RowsOf(c) \cup {r \in Row : HasRow(d, r)}
  BY <1>3, <1>4 DEF HasPut
<1>7. RowsOnce(new)
  BY <1>3, <1>4, <1>5 DEF HasPut
<1> QED BY <1>3, <1>6, <1>7 DEF new, e

LEMMA ActivateIs ==
  ASSUME NEW l, NEW A, Slack(l, A), NEW i \in DOMAIN l.all, l.all[i].section \in A, ~l.all[i].isActive
  PROVE  IsToggled(l, Activate(l, l.all[i]), i, TRUE, A)
<1> DEFINE a == l.all
           v == l.view
           c == l.snap
           d == a[i]
           s == d.section
           b == WithFlag(a, i, TRUE)
           on == [l EXCEPT !.all[i].isActive = TRUE]
           m == Activate(l, d)
           place == getIndexOfActiveSectionForView(on, s)
           w == ShowWhole(on, d, place)
<1>1. /\ l \in Lists /\ Fits(a, v) /\ RowsOnce(c) /\ RowsOf(c) \subseteq RowsOf(a)
      /\ OneKind(v) /\ Off(l, A)
  BY DEF Slack, Loose
<1>2. /\ a \in Seq(SectionDatum) /\ v \in Seq(SectionDatum) /\ c \in Seq(Cell)
      /\ Keyed(a) /\ RowsOnce(a) /\ OneKind(a) /\ Len(v) \in Nat /\ Len(c) \in Nat
  BY <1>1 DEF Lists, Fits
<1>3. IndexOf(a, s) = i
  <2>1. s \in Sections(a)
    BY DEF Sections
  <2> QED BY <1>2, <2>1, IndexIs
<1>4. on = [l EXCEPT !.all = b]
  BY DEF WithFlag
<1>5. IsWithFlag(b, a, i, TRUE) /\ SameRows(b, a) /\ b \in Seq(SectionDatum) /\ RowsOf(b) = RowsOf(a)
  <2>1. IsWithFlag(b, a, i, TRUE)
    BY <1>2, WithFlagIs
  <2>2. SameRows(b, a)
    BY <2>1 DEF IsWithFlag
  <2> QED BY <2>1, <2>2, SameRowsHas DEF SameRows
<1>6. m = IF ~isAvailable(on.all[i]) THEN [on EXCEPT !.updating = TRUE]
          ELSE [w EXCEPT !.updating = FALSE]
  BY <1>3 DEF Activate
<1> HIDE DEF on
<1>7. on \in Lists /\ on.all = b /\ on.view = v /\ on.snap = c /\ on.updating = l.updating
  <2> HIDE DEF b
  <2> QED BY <1>1, <1>4, <1>5 DEF Lists
<1>8. d \in SectionDatum /\ Distinct(d) /\ OfKind(d)
  <2>1. d \in SectionDatum
    BY <1>2
  <2>2. Distinct(d)
    BY <1>2, DistinctRows
  <2>3. OfKind(d)
    BY <1>2, KindIs DEF OfKind
  <2> QED BY <2>1, <2>2, <2>3
<1>9. s \notin Sections(v) /\ \A r \in RowsOf(v) : ~HasRow(d, r)
  BY <1>1, HiddenIs
<1>10. \A r \in RowsOf(c) : ~HasRow(d, r)
  BY <1>1 DEF Off
<1>11. place = 1
  <2>1. ~Has(on.view, s)
    BY <1>2, <1>7, <1>9, IndexIs
  <2> QED BY <1>7, <2>1, PlaceIs
<1>12. Fits(b, v)
  BY <1>1, FitsFlag
<1> HIDE DEF m, w, place
<1>16. /\ Unsearched(b) = Unsearched(a) /\ Available(b) \subseteq Available(a) \cup {s}
       /\ ~isAvailable(b[i]) => Available(b) \subseteq Available(a) /\ s \notin Available(b)
       /\ isAvailable(b[i]) => s \notin Unsearched(b)
  <2> HIDE DEF b, a
  <2>1. i \in DOMAIN a /\ TRUE \in BOOLEAN
    BY DEF a
  <2> QED BY <1>2, <1>5, <2>1, WithFlagShows DEF d
<1>17. on.all[i] = b[i]
  BY <1>7
<1>13. CASE ~isAvailable(on.all[i])
  <2>1. m \in Lists /\ m.all = b /\ m.view = v /\ m.snap = c
    BY <1>6, <1>7, <1>13 DEF Lists
  <2>2. Loose(m)
    BY <1>1, <1>5, <1>12, <2>1 DEF Loose
  <2>3. Off(m, A)
    <3>1. IsWithFlag(m.all, l.all, i, TRUE) /\ RowsOf(m.snap) \subseteq RowsOf(l.snap)
      BY <1>5, <2>1
    <3> HIDE DEF b, a, v, c
    <3> QED BY <1>1, <3>1, OffStill
  <2>4. Tight(l) => Tight(m)
    BY <1>12, <2>1 DEF Tight, Firm
  <2>5. Keeps(l, m)
    BY <1>13, <1>16, <1>17, <2>1, KeepsLess
  <2>6. s \notin Sections(v) /\ NothingToShow(m, s)
    BY <1>9, <1>13, <1>16, <1>17, <2>1 DEF NothingToShow
  <2> QED BY <1>1, <2>1, <2>2, <2>3, <2>4, <2>5, <2>6 DEF IsToggled, Slack, m
<1>14. CASE isAvailable(on.all[i])
  <2>1. PICK k \in 1 .. Len(v) + 1 : k = 1
    BY <1>2
  <2>2. k \in 1 .. Len(c) + 1
    BY <1>2, <2>1
  <2> DEFINE u == InsertAt(v, k, d)
             x == InsertAt(c, k, CellOf(d))
  <2>3. IsShown(on, w, d, k)
    BY <1>7, <1>8, <1>11, <2>1, <2>2, ShowWholeIs DEF w
  <2>4. w \in Lists /\ w.all = b /\ w.view = u /\ w.snap = x
    BY <1>7, <2>3 DEF IsShown
  <2>5. Fits(b, u) /\ OneKind(u)
    <3>1. s \in Active(b)
      BY <1>5 DEF Active, IsWithFlag, SameRows
    <3>2. \A r \in Row : HasRow(d, r) => r \in RowsOf(b)
      BY <1>5 DEF RowsOf
    <3> HIDE DEF b, d, a, v
    <3>3. /\ Fits(b, InsertAt(v, k, d))
          /\ OneKind(v) /\ OfKind(d) => OneKind(InsertAt(v, k, d))
      BY <1>8, <1>9, <1>12, <3>1, <3>2, FitsShownSection
    <3> QED BY <1>1, <1>8, <3>3
  <2>6. /\ x \in Seq(Cell) /\ RowsOnce(x)
        /\ RowsOf(x) = RowsOf(c) \cup {r \in Row : HasRow(d, r)}
    BY <1>1, <1>2, <1>8, <1>10, <2>2, ShownCellIs
  <2>7. Tight(l) => x = ShownIn(u)
    <3>1. Tight(l) => c = ShownIn(v)
      BY DEF Tight, Firm
    <3>2. InsertAt(ShownIn(v), k, CellOf(d)) = ShownIn(u)
      BY <1>2, <1>8, ShownInsert
    <3> QED BY <3>1, <3>2
  <2> HIDE DEF u, x
  <2>8. m \in Lists /\ m.all = b /\ m.view = u /\ m.snap = x
    BY <1>6, <1>14, <2>4 DEF Lists
  <2>9. RowsOf(x) \subseteq RowsOf(b)
    BY <1>1, <1>5, <2>6 DEF RowsOf
  <2>10. Loose(m)
    BY <2>5, <2>6, <2>8, <2>9 DEF Loose
  <2>11. Off(m, A)
    <3>1. /\ DOMAIN b = DOMAIN a /\ b[i].isActive
          /\ \A j \in DOMAIN a : j # i => b[j] = a[j]
      BY <1>5 DEF IsWithFlag, SameRows
    <3>2. SUFFICES ASSUME NEW j \in DOMAIN a, b[j].section \in A, ~b[j].isActive, NEW r \in RowsOf(x)
                   PROVE  ~HasRow(b[j], r)
      BY <2>8, <3>1 DEF Off
    <3>3. j # i /\ b[j] = a[j]
      BY <3>1, <3>2
    <3>4. CASE r \in RowsOf(c)
      BY <1>1, <3>2, <3>3, <3>4 DEF Off
    <3>5. CASE HasRow(d, r)
      BY <1>2, <3>3, <3>5 DEF RowsOnce, HasRow
    <3> QED BY <2>6, <3>2, <3>4, <3>5
  <2>12. Tight(l) => Tight(m)
    BY <2>5, <2>7, <2>8 DEF Tight, Firm
  <2>13. Sections(u) = Sections(v) \cup {s}
    <3>1. HasPut(u, v, d)
      <4>1. IsRowed(SectionDatum)
        BY DEF IsRowed
      <4> HIDE DEF v, d
      <4> QED BY <1>2, <1>8, <4>1, PutIs DEF u
    <3> QED BY <3>1 DEF HasPut
  <2>14. Keeps(l, m)
    BY <1>14, <1>16, <1>17, <2>8, <2>13, KeepsMore
  <2>15. ~m.updating
    <3>1. m = [w EXCEPT !.updating = FALSE]
      BY <1>6, <1>14
    <3> QED BY <2>4, <3>1 DEF Lists
  <2> QED BY <2>5, <2>8, <2>10, <2>11, <2>12, <2>14, <2>15 DEF IsToggled, Slack, m
<1> QED BY <1>13, <1>14

\* A toggle of section s, if its flag is another.
TogglesOne(l, m, s, A) ==
  \E i \in DOMAIN l.all : \E b \in BOOLEAN :
    /\ l.all[i].section = s /\ b = (s \in A) /\ l.all[i].isActive # b
    /\ IsToggled(l, m, i, b, A) /\ IsWithFlag(m.all, l.all, i, b)

LEMMA ToggleIsOne ==
  ASSUME NEW l, Slack(l, active'), NEW s
  PROVE  \/ Toggle(l, s) = l /\ \A i \in DOMAIN l.all :
                                  l.all[i].section = s => l.all[i].isActive = (s \in active')
         \/ TogglesOne(l, Toggle(l, s), s, active')
<1> DEFINE a == l.all
           i == IndexOf(a, s)
           m == Toggle(l, s)
           A == active'
<1>1. a \in Seq(SectionDatum) /\ Keyed(a)
  BY DEF Slack, Loose, Lists, Fits
<1>2. CASE i = 0 \/ a[i].isActive = (s \in A)
  <2>1. m = l
    BY <1>2 DEF Toggle
  <2>2. ASSUME NEW j \in DOMAIN a, a[j].section = s PROVE j = i /\ i # 0
    <3>1. IndexOf(a, s) = j /\ s \in Sections(a)
      BY <1>1, <2>2, IndexIs DEF Sections
    <3>2. j # 0
      BY <1>1
    <3> QED BY <3>1, <3>2
  <2> QED BY <1>2, <2>1, <2>2
<1>3. CASE i # 0 /\ a[i].isActive # (s \in A)
  <2>1. i \in DOMAIN a /\ a[i].section = s /\ a[i].isActive \in BOOLEAN
    <3>1. i \in DOMAIN a /\ a[i].section = s
      BY <1>1, <1>3, IndexIs
    <3>2. a[i] \in SectionDatum
      BY <1>1, <3>1
    <3> HIDE DEF i
    <3> QED BY <3>1, <3>2 DEF SectionDatum
  <2>2. m = IF s \in A THEN Activate(l, a[i]) ELSE Deactivate(l, a[i])
    BY <1>3 DEF Toggle
  <2> HIDE DEF m, i, A
  <2>3. PICK b \in BOOLEAN : b = (s \in A) /\ IsToggled(l, m, i, b, A)
    <3>1. CASE s \in A
      <4>1. ~a[i].isActive /\ l.all[i].section \in A
        BY <1>3, <2>1, <3>1
      <4>2. IsToggled(l, Activate(l, l.all[i]), i, TRUE, A)
        BY <2>1, <4>1, ActivateIs DEF A
      <4>3. m = Activate(l, l.all[i])
        BY <2>2, <3>1
      <4>4. TRUE = (s \in A)
        BY <3>1
      <4> QED BY <4>2, <4>3, <4>4
    <3>2. CASE s \notin A
      <4>1. l.all[i].section \notin A
        BY <2>1, <3>2
      <4>2. IsToggled(l, Deactivate(l, l.all[i]), i, FALSE, A)
        BY <2>1, <4>1, DeactivateIs DEF A
      <4>3. m = Deactivate(l, l.all[i])
        BY <2>2, <3>2
      <4>4. FALSE = (s \in A)
        BY <3>2
      <4> QED BY <4>2, <4>3, <4>4
    <3> QED BY <3>1, <3>2
  <2>4. IsWithFlag(m.all, a, i, b)
    <3>1. m.all = WithFlag(a, i, b)
      BY <2>3 DEF IsToggled
    <3> QED BY <1>1, <2>1, <3>1, WithFlagIs
  <2>5. a[i].isActive # b
    BY <1>3, <2>3
  <2>6. \E j \in DOMAIN a : \E c \in BOOLEAN :
          /\ a[j].section = s /\ c = (s \in A) /\ a[j].isActive # c
          /\ IsToggled(l, m, j, c, A) /\ IsWithFlag(m.all, a, j, c)
    BY <2>1, <2>3, <2>4, <2>5
  <2> QED BY <2>6 DEF TogglesOne, m, A
<1> QED BY <1>2, <1>3

\* Whether a toggle is of section s or not.
Toggles(l, m, A) ==
  /\ Slack(m, A) /\ SameRows(m.all, l.all)
  /\ Tight(l) => Tight(m)
  /\ Keeps(l, m)

LEMMA ToggleIs ==
  ASSUME NEW l, Slack(l, active'), NEW s
  PROVE  Toggles(l, Toggle(l, s), active')
<1> DEFINE m == Toggle(l, s)
<1>1. CASE m = l
  <2>1. l.all \in Seq(SectionDatum)
    BY DEF Slack, Loose, Lists
  <2>2. SameRows(l.all, l.all)
    BY <2>1 DEF SameRows
  <2> HIDE DEF m
  <2>3. Toggles(l, m, active')
    BY <1>1, <2>2, KeepsAlike DEF Toggles
  <2> QED BY <2>3 DEF m
<1>2. CASE TogglesOne(l, m, s, active')
  BY <1>2 DEF TogglesOne, IsToggled, IsWithFlag, Toggles
<1> QED BY <1>1, <1>2, ToggleIsOne

\* Section s has the flag of its list section.
IsCurrent(m, s, A) == \A i \in DOMAIN m.all : m.all[i].section = s => m.all[i].isActive = (s \in A)

\* A toggle that leaves the indicator on is of a section with nothing to show.
LEMMA ToggleSwitches ==
  ASSUME NEW l, Slack(l, active'), NEW s
  PROVE  \/ Toggle(l, s) = l
         \/ /\ ~IsCurrent(l, s, active') /\ IsCurrent(Toggle(l, s), s, active')
            /\ Toggle(l, s).updating => s \notin Sections(l.view) /\ NothingToShow(Toggle(l, s), s)
<1> DEFINE m == Toggle(l, s)
<1>1. SUFFICES ASSUME TogglesOne(l, m, s, active')
               PROVE  /\ ~IsCurrent(l, s, active') /\ IsCurrent(m, s, active')
                      /\ m.updating => s \notin Sections(l.view) /\ NothingToShow(m, s)
  BY ToggleIsOne
<1> HIDE DEF m
<1>2. PICK i \in DOMAIN l.all : \E b \in BOOLEAN :
        /\ l.all[i].section = s /\ b = (s \in active') /\ l.all[i].isActive # b
        /\ IsToggled(l, m, i, b, active') /\ IsWithFlag(m.all, l.all, i, b)
  BY <1>1 DEF TogglesOne
<1>3. Keyed(l.all)
  BY DEF Slack, Loose, Fits
<1>4. ~IsCurrent(l, s, active')
  BY <1>2 DEF IsCurrent
<1>5. IsCurrent(m, s, active')
  BY <1>2, <1>3 DEF IsCurrent, IsWithFlag, SameRows, Keyed
<1>6. m.updating => s \notin Sections(l.view) /\ NothingToShow(m, s)
  BY <1>2 DEF IsToggled
<1> QED BY <1>4, <1>5, <1>6

-----------------------------------------------------------------------------
(* A section is moved.                                                     *)

\* new is src in another order.
IsMoved(T, new, src) ==
  /\ new \in Seq(T) /\ Len(new) = Len(src)
  /\ RowsOf(new) = RowsOf(src) /\ Sections(new) = Sections(src) /\ Active(new) = Active(src)
  /\ Keyed(src) => Keyed(new)
  /\ RowsOnce(src) => RowsOnce(new)
  /\ OneKind(src) => OneKind(new)
  /\ \A j \in DOMAIN new : \E k \in DOMAIN src : new[j] = src[k]

LEMMA MovedHas ==
  ASSUME NEW T, IsRowed(T), NEW src \in Seq(T), NEW i \in DOMAIN src, NEW to \in 1 .. Len(src)
  PROVE  IsMoved(T, InsertAt(RemoveAt(src, i), to, src[i]), src)
<1> DEFINE d == src[i]
           D == DOMAIN src \ {i}
           rest == RemoveAt(src, i)
           new == InsertAt(rest, to, d)
<1>1. Len(src) \in Nat /\ DOMAIN src = 1 .. Len(src) /\ d \in T /\ i \in D \cup {i}
  <2>1. Len(src) \in Nat /\ DOMAIN src = 1 .. Len(src) /\ d \in T
    BY SeqIs, SMTT(20)
  <2> QED BY <2>1, Zenon
<1>2. rest \in Seq(T) /\ Picks(rest, src, D) /\ Len(rest) = Len(src) - 1
  BY <1>1, RemovePicks, RemoveAtIs
<1>3. \A k \in DOMAIN d.rows : d.rows[k] \in Row
  BY <1>1, DatumIs
<1> HIDE DEF rest
<1>4. HasPicked(rest, src, D)
  <2>1. D \in SUBSET DOMAIN src
    OBVIOUS
  <2> HIDE DEF D
  <2> QED BY <1>2, <2>1, PickedHas
<1>5. to \in 1 .. Len(rest) + 1
  BY <1>1, <1>2
<1>6. new \in Seq(T) /\ Len(new) = Len(rest) + 1 /\ HasPut(new, rest, d)
  <2> HIDE DEF d
  <2> QED BY <1>1, <1>2, <1>5, PutIs
<1>7. IsInserted(T, new, rest, to, d)
  <2> HIDE DEF d
  <2> QED BY <1>1, <1>2, <1>5, InsertedIs
<1> HIDE DEF new, d, D
<1>8. \A k \in DOMAIN src : k \in D \/ k = i
  BY DEF D
<1>9. \A k \in D : k \in DOMAIN src /\ k # i
  BY DEF D
<1>10. RowsOf(new) = RowsOf(src)
  <2>1. RowsOf(new) = RowsOf(rest) \cup {r \in Row : HasRow(d, r)}
    BY <1>6 DEF HasPut
  <2>2. RowsOf(rest) = {r \in Row : \E k \in D : HasRow(src[k], r)}
    BY <1>4 DEF HasPicked
  <2>3. RowsOf(src) = {r \in Row : (\E k \in D : HasRow(src[k], r)) \/ HasRow(src[i], r)}
    BY <1>8, <1>9 DEF RowsOf
  <2> QED BY <2>1, <2>2, <2>3 DEF d
<1>11. Sections(new) = Sections(src)
  <2>1. Sections(new) = Sections(rest) \cup {d.section}
    BY <1>6 DEF HasPut
  <2>2. Sections(rest) = {src[k].section : k \in D}
    BY <1>4 DEF HasPicked
  <2> QED BY <1>8, <1>9, <2>1, <2>2 DEF Sections, d
<1>12. Active(new) = Active(src)
  <2>1. Active(new) = Active(rest) \cup (IF d.isActive THEN {d.section} ELSE {})
    BY <1>6 DEF HasPut
  <2>2. Active(rest) = {src[k].section : k \in {k \in D : src[k].isActive}}
    BY <1>4 DEF HasPicked
  <2>3. ASSUME NEW s \in Active(new) PROVE s \in Active(src)
    <3>1. CASE s \in Active(rest)
      BY <1>9, <2>2, <3>1 DEF Active
    <3>2. CASE d.isActive /\ s = d.section
      BY <3>2 DEF Active, d
    <3> QED BY <2>1, <2>3, <3>1, <3>2
  <2>4. ASSUME NEW s \in Active(src) PROVE s \in Active(new)
    <3>1. PICK k \in DOMAIN src : src[k].isActive /\ src[k].section = s
      BY <2>4 DEF Active
    <3>2. CASE k \in D
      BY <2>1, <2>2, <3>1, <3>2
    <3>3. CASE k = i
      BY <2>1, <3>1, <3>3 DEF d
    <3> QED BY <1>8, <3>1, <3>2, <3>3
  <2> QED BY <2>3, <2>4
<1>13. ASSUME Keyed(src) PROVE Keyed(new)
  <2>1. Keyed(rest) /\ Sections(rest) = {src[k].section : k \in D}
    BY <1>4, <1>13 DEF HasPicked
  <2>2. d.section \notin Sections(rest)
    BY <1>9, <1>13, <2>1 DEF Keyed, d
  <2> QED BY <1>6, <2>1, <2>2 DEF HasPut
<1>14. ASSUME RowsOnce(src) PROVE RowsOnce(new)
  <2>1. RowsOnce(rest) /\ RowsOf(rest) = {r \in Row : \E k \in D : HasRow(src[k], r)}
    BY <1>4, <1>14 DEF HasPicked
  <2>2. \A r \in RowsOf(rest) : ~HasRow(d, r)
    BY <1>9, <1>14, <2>1 DEF RowsOnce, HasRow, d
  <2>3. \A j, k \in DOMAIN d.rows : d.rows[j] = d.rows[k] => j = k
    BY <1>14 DEF RowsOnce, d
  <2> QED BY <1>6, <2>1, <2>2, <2>3 DEF HasPut
<1>15. ASSUME OneKind(src) PROVE OneKind(new)
  <2>1. OneKind(rest)
    BY <1>4, <1>15 DEF HasPicked
  <2>2. \A k \in DOMAIN d.rows : KindOf[d.rows[k]] = d.section
    BY <1>15, KindIs DEF d
  <2> QED BY <1>6, <2>1, <2>2 DEF HasPut
<1>16. \A j \in DOMAIN new : \E k \in DOMAIN src : new[j] = src[k]
  <2>1. \A k \in 1 .. Len(rest) : \E h \in DOMAIN src : rest[k] = src[h]
    <3>1. PICK at \in [1 .. Len(rest) -> D] : \A k \in 1 .. Len(rest) : rest[k] = src[at[k]]
      BY <1>2 DEF Picks
    <3> QED BY <1>9, <3>1
  <2> TAKE j \in DOMAIN new
  <2>2. j \in 1 .. Len(rest) + 1 /\ Len(rest) \in Nat
    BY <1>1, <1>2, <1>6
  <2>3. new[j] = IF j < to THEN rest[j] ELSE IF j = to THEN d ELSE rest[j - 1]
    BY <1>7, <2>2 DEF IsInserted
  <2>4. CASE j < to
    <3>1. j \in 1 .. Len(rest)
      BY <1>5, <2>2, <2>4
    <3> QED BY <2>1, <2>3, <2>4, <3>1
  <2>5. CASE j = to
    BY <1>5, <2>3, <2>5 DEF d
  <2>6. CASE ~(j < to) /\ j # to
    <3>1. j - 1 \in 1 .. Len(rest)
      BY <1>5, <2>2, <2>6
    <3> QED BY <2>1, <2>3, <2>6, <3>1
  <2> QED BY <2>4, <2>5, <2>6
<1>17. Len(new) = Len(src)
  BY <1>1, <1>2, <1>6
<1>18. IsMoved(T, new, src)
  BY <1>6, <1>10, <1>11, <1>12, <1>13, <1>14, <1>15, <1>16, <1>17 DEF IsMoved
<1> QED BY <1>18 DEF new, d, rest

LEMMA MoveSectionAtIs ==
  ASSUME NEW l \in Lists, NEW from \in Nat \ {0}, NEW to \in Nat \ {0}, RowsOnce(l.snap)
  PROVE  /\ MoveSectionAt(l, from, to) \in Lists
         /\ MoveSectionAt(l, from, to).all = l.all /\ MoveSectionAt(l, from, to).view = l.view
         /\ MoveSectionAt(l, from, to).updating = l.updating
         /\ RowsOnce(MoveSectionAt(l, from, to).snap)
         /\ RowsOf(MoveSectionAt(l, from, to).snap) = RowsOf(l.snap)
<1> DEFINE c == l.snap
           rest == RemoveAt(c, from)
           target == IF to \in {1, Len(c)} THEN to ELSE IndexOf(rest, c[to].section)
           new == InsertAt(rest, target, c[from])
           m == MoveSectionAt(l, from, to)
<1>1. c \in Seq(Cell) /\ Len(c) \in Nat /\ DOMAIN c = 1 .. Len(c)
  BY DEF Lists
<1>2. m = IF to = from THEN l
          ELSE IF from > Len(c) \/ to > Len(c) THEN Trap(l)
          ELSE [l EXCEPT !.snap = new]
  BY DEF MoveSectionAt
<1>3. CASE to = from
  BY <1>2, <1>3
<1>4. CASE to # from /\ (from > Len(c) \/ to > Len(c))
  <2>1. m = Trap(l)
    BY <1>2, <1>4
  <2> QED BY <2>1, TrapIs
<1>5. CASE to # from /\ ~(from > Len(c)) /\ ~(to > Len(c))
  <2>1. from \in DOMAIN c /\ to \in DOMAIN c
    BY <1>1, <1>5
  <2>2. target \in 1 .. Len(c)
    <3>1. CASE to \in {1, Len(c)}
      BY <1>1, <2>1, <3>1
    <3>2. CASE to \notin {1, Len(c)}
      <4>1. rest \in Seq(Cell) /\ Picks(rest, c, DOMAIN c \ {from}) /\ Len(rest) = Len(c) - 1
        BY <1>1, <2>1, RemovePicks, RemoveAtIs
      <4> HIDE DEF rest
      <4>2. HasPicked(rest, c, DOMAIN c \ {from})
        <5>1. PICK D \in SUBSET DOMAIN c : D = DOMAIN c \ {from}
          OBVIOUS
        <5> QED BY <4>1, <5>1, PickedHas
      <4>3. c[to].section \in Sections(rest)
        BY <1>5, <2>1, <4>2 DEF HasPicked
      <4>4. IndexOf(rest, c[to].section) \in DOMAIN rest
        BY <4>1, <4>3, IndexIs
      <4>5. DOMAIN rest = 1 .. Len(c) - 1
        BY <4>1
      <4> QED BY <1>1, <3>2, <4>4, <4>5
    <3> QED BY <3>1, <3>2
  <2> HIDE DEF target
  <2>3. IsMoved(Cell, new, c)
    <3>1. IsRowed(Cell)
      BY DEF IsRowed
    <3> HIDE DEF c
    <3> QED BY <1>1, <2>1, <2>2, <3>1, MovedHas
  <2>4. new \in Seq(Cell) /\ RowsOnce(new) /\ RowsOf(new) = RowsOf(c)
    BY <2>3 DEF IsMoved
  <2> HIDE DEF new
  <2>5. m = [l EXCEPT !.snap = new]
    BY <1>2, <1>5
  <2> HIDE DEF m
  <2>6. /\ m \in Lists /\ m.all = l.all /\ m.view = l.view /\ m.updating = l.updating /\ m.snap = new
    BY <2>4, <2>5 DEF Lists
  <2> QED BY <2>4, <2>6 DEF m
<1> QED BY <1>3, <1>4, <1>5

\* What is available is on show, in the order of all that there is.
LEMMA SortedIs ==
  ASSUME NEW b \in Seq(SectionDatum), Keyed(b), RowsOnce(b), OneKind(b),
         NEW v, v = Filtered(b, {sd \in Range(b) : isAvailable(sd)})
  PROVE  /\ Fits(b, v) /\ OneKind(v)
         /\ \A i \in DOMAIN b : isAvailable(b[i]) => b[i].section \in Sections(v)
         /\ Sections(v) = Available(b)
<1> DEFINE S == {sd \in Range(b) : isAvailable(sd)}
           D == {i \in 1 .. Len(b) : b[i] \in S}
<1>1. v \in Seq(SectionDatum) /\ Picks(v, b, D)
  <2>1. v = Filtered(b, S)
    OBVIOUS
  <2> HIDE DEF S
  <2>2. Filtered(b, S) \in Seq(SectionDatum) /\ Picks(Filtered(b, S), b, D)
    BY FilteredIs
  <2> QED BY <2>1, <2>2
<1>2. DOMAIN b = 1 .. Len(b) /\ Range(b) = {b[j] : j \in 1 .. Len(b)}
  BY RangeIs
<1>3. \A i \in DOMAIN b : i \in D <=> isAvailable(b[i])
  BY <1>2
<1>4. D \in SUBSET DOMAIN b
  BY <1>2
<1> HIDE DEF D
<1>5. HasPicked(v, b, D)
  BY <1>1, <1>4, PickedHas
<1>6. /\ RowsOf(v) = {r \in Row : \E i \in D : HasRow(b[i], r)}
      /\ Sections(v) = {b[i].section : i \in D}
      /\ Keyed(v) /\ RowsOnce(v) /\ OneKind(v)
  BY <1>5 DEF HasPicked
<1>7. RowsOf(v) \subseteq RowsOf(b)
  BY <1>4, <1>6 DEF RowsOf
<1>8. Sections(v) \subseteq Active(b)
  BY <1>3, <1>4, <1>6 DEF Active, isAvailable
<1>9. Sections(v) = Available(b)
  BY <1>3, <1>4, <1>6 DEF Available
<1> QED BY <1>1, <1>3, <1>6, <1>7, <1>8, <1>9 DEF Fits

LEMMA MovedShows ==
  ASSUME NEW src \in Seq(SectionDatum), Keyed(src), NEW i \in DOMAIN src, NEW to \in 1 .. Len(src),
         NEW new, new = InsertAt(RemoveAt(src, i), to, src[i])
  PROVE  Available(new) = Available(src) /\ Unsearched(new) = Unsearched(src)
<1> DEFINE rest == RemoveAt(src, i)
           d == src[i]
<1>1. rest \in Seq(SectionDatum) /\ Len(rest) = Len(src) - 1
  BY SeqIs, RemoveAtIs
<1>2. to \in 1 .. Len(rest) + 1 /\ d \in SectionDatum
  BY <1>1
<1>3. /\ Available(rest) = Available(src) \ {d.section}
      /\ Unsearched(rest) = Unsearched(src) \ {d.section}
  BY LessSectionShows
<1>4. /\ Available(new) = Available(rest) \cup {s \in {d.section} : isAvailable(d)}
      /\ Unsearched(new) = Unsearched(rest) \cup {s \in {d.section} : ~d.isSearched}
  <2>1. new = InsertAt(rest, to, d)
    OBVIOUS
  <2> HIDE DEF rest, d
  <2> QED BY <1>1, <1>2, <2>1, PutShows
<1>5. \A j \in DOMAIN src : src[j].section = d.section => src[j] = d
  BY DEF Keyed
<1>6. d.section \in Available(src) <=> isAvailable(d)
  BY <1>5 DEF Available
<1>7. d.section \in Unsearched(src) <=> ~d.isSearched
  BY <1>5 DEF Unsearched
<1> HIDE DEF rest, d
<1> QED BY <1>3, <1>4, <1>6, <1>7

\* What is to be shown and what is searched are the same, and what is on show is
\* the same or all that is to be.
Reshuffled(l, m) ==
  /\ Available(m.all) = Available(l.all) /\ Unsearched(m.all) = Unsearched(l.all)
  /\ Sections(m.view) = Sections(l.view) \/ Sections(m.view) = Available(l.all)
  /\ \A j \in DOMAIN m.all : \E k \in DOMAIN l.all : m.all[j] = l.all[k]
  /\ m.updating = l.updating

LEMMA ReshuffledKeeps ==
  ASSUME NEW l, NEW m, Reshuffled(l, m), Keyed(l.all)
  PROVE  Keeps(l, m)
<1>1. Available(l.all) \cap Unsearched(l.all) = {}
  BY DEF Available, Unsearched, Keyed, isAvailable
<1> QED BY <1>1 DEF Reshuffled, Keeps, Shown, Reached

\* m has the rows and sections of l.
Rearranged(l, m, A) ==
  /\ Slack(m, A)
  /\ RowsOf(m.all) = RowsOf(l.all) /\ Sections(m.all) = Sections(l.all)
  /\ Keeps(l, m)

LEMMA MoveSectionIs ==
  ASSUME NEW l, NEW A, Slack(l, A), NEW s, NEW to \in Nat \ {0}
  PROVE  /\ Rearranged(l, MoveSection(l, s, to), A)
         /\ Reshuffled(l, MoveSection(l, s, to))
<1> DEFINE a == l.all
           i == IndexOf(a, s)
           rest == RemoveAt(a, i)
           b == InsertAt(rest, to, a[i])
           moved == [l EXCEPT !.all = b]
           from == IndexOf(l.view, s)
           u == Filtered(moved.all, {sd \in Range(moved.all) : isAvailable(sd)})
           sorted == [moved EXCEPT !.view = u]
           m == MoveSection(l, s, to)
<1>1. /\ l \in Lists /\ Fits(a, l.view) /\ RowsOnce(l.snap) /\ RowsOf(l.snap) \subseteq RowsOf(a)
      /\ OneKind(l.view) /\ Off(l, A)
  BY DEF Slack, Loose
<1>2. a \in Seq(SectionDatum) /\ Keyed(a) /\ RowsOnce(a) /\ OneKind(a) /\ l.view \in Seq(SectionDatum)
  BY <1>1 DEF Fits
<1>3. m = IF i = 0 THEN l
          ELSE IF to > Len(rest) + 1 THEN Trap(l)
          ELSE IF ~isAvailable(a[i]) \/ from = 0 THEN moved
          ELSE MoveSectionAt(sorted, from, IndexOf(sorted.view, s))
  BY DEF MoveSection
<1>8. Rearranged(l, m, A) <=> /\ Slack(m, A) /\ Keeps(l, m)
                              /\ RowsOf(m.all) = RowsOf(a) /\ Sections(m.all) = Sections(a)
  BY DEF Rearranged
<1>7. SUFFICES /\ Slack(m, A) /\ RowsOf(m.all) = RowsOf(a) /\ Sections(m.all) = Sections(a)
               /\ Reshuffled(l, m)
  <2> HIDE DEF m
  <2> QED BY <1>2, <1>7, <1>8, ReshuffledKeeps DEF m
<1>4. CASE i = 0
  BY <1>3, <1>4 DEF Reshuffled
<1>5. CASE i # 0 /\ to > Len(rest) + 1
  <2>1. m = Trap(l)
    BY <1>3, <1>5
  <2> HIDE DEF m
  <2>2. m \in Lists /\ m.all = a /\ m.view = l.view /\ m.snap = l.snap /\ m.updating = l.updating
    BY <1>1, <2>1, TrapIs
  <2>3. Slack(m, A)
    BY <1>1, <2>2 DEF Slack, Loose, Off
  <2> QED BY <2>2, <2>3 DEF Reshuffled, m
<1>6. CASE i # 0 /\ ~(to > Len(rest) + 1)
  <2>1. i \in DOMAIN a /\ a[i].section = s /\ i \in 1 .. Len(a) /\ Len(a) \in Nat
    BY <1>2, <1>6, IndexIs
  <2> HIDE DEF i
  <2>2. to \in 1 .. Len(a)
    <3>1. Len(rest) = Len(a) - 1
      BY <1>2, <2>1, RemoveAtIs
    <3> QED BY <1>6, <2>1, <3>1
  <2>3. IsMoved(SectionDatum, b, a)
    <3>1. IsRowed(SectionDatum)
      BY DEF IsRowed
    <3> HIDE DEF a
    <3> QED BY <1>2, <2>1, <2>2, <3>1, MovedHas
  <2>8. Available(b) = Available(a) /\ Unsearched(b) = Unsearched(a)
    <3> HIDE DEF a
    <3> QED BY <1>2, <2>1, <2>2, MovedShows
  <2> HIDE DEF rest, b
  <2>4. /\ b \in Seq(SectionDatum) /\ RowsOf(b) = RowsOf(a) /\ Sections(b) = Sections(a)
        /\ Active(b) = Active(a) /\ Keyed(b) /\ RowsOnce(b) /\ OneKind(b)
        /\ \A j \in DOMAIN b : \E k \in DOMAIN a : b[j] = a[k]
    BY <1>2, <2>3 DEF IsMoved
  <2>5. /\ moved \in Lists /\ moved.all = b /\ moved.view = l.view /\ moved.snap = l.snap
        /\ moved.updating = l.updating
    BY <1>1, <2>4 DEF Lists
  <2> HIDE DEF moved
  <2>6. CASE ~isAvailable(a[i]) \/ from = 0
    <3>1. m = moved
      BY <1>3, <1>6, <2>6
    <3> HIDE DEF m
    <3>2. Fits(b, l.view)
      BY <1>1, <2>4 DEF Fits
    <3>3. Off(m, A)
      BY <1>1, <2>4, <2>5, <3>1 DEF Off
    <3>4. Slack(m, A)
      BY <1>1, <2>4, <2>5, <3>1, <3>2, <3>3 DEF Slack, Loose
    <3>5. Reshuffled(l, m)
      BY <2>4, <2>5, <2>8, <3>1 DEF Reshuffled
    <3> QED BY <2>4, <2>5, <3>1, <3>4, <3>5 DEF m
  <2>7. CASE isAvailable(a[i]) /\ from # 0
    <3> DEFINE to2 == IndexOf(sorted.view, s)
    <3>1. m = MoveSectionAt(sorted, from, to2)
      BY <1>3, <1>6, <2>7
    <3>2. /\ Fits(b, u) /\ OneKind(u)
          /\ \A j \in DOMAIN b : isAvailable(b[j]) => b[j].section \in Sections(u)
          /\ Sections(u) = Available(b)
      <4>1. u = Filtered(b, {sd \in Range(b) : isAvailable(sd)})
        BY <2>5
      <4> HIDE DEF u
      <4> QED BY <2>4, <4>1, SortedIs
    <3> HIDE DEF u
    <3>3. u \in Seq(SectionDatum)
      BY <3>2 DEF Fits
    <3>4. /\ sorted \in Lists /\ sorted.all = b /\ sorted.view = u /\ sorted.snap = l.snap
          /\ sorted.updating = l.updating
      BY <2>5, <3>3 DEF Lists
    <3>5. from \in Nat \ {0}
      <4>1. from \in DOMAIN l.view
        BY <1>2, <2>7, IndexIs
      <4> QED BY <1>2, <4>1
    <3>6. s \in Sections(u)
      <4>1. PICK n \in 1 .. Len(b) : b[n] = a[i]
        <5>1. Len(rest) = Len(a) - 1 /\ rest \in Seq(SectionDatum)
          BY <1>2, <2>1, RemoveAtIs DEF rest
        <5>2. IsInserted(SectionDatum, b, rest, to, a[i])
          <6>1. a[i] \in SectionDatum /\ to \in 1 .. Len(rest) + 1
            BY <1>2, <2>1, <2>2, <5>1
          <6> HIDE DEF a
          <6> QED BY <5>1, <6>1, InsertedIs DEF b
        <5>3. Len(b) = Len(rest) + 1 /\ to \in 1 .. Len(rest) + 1
          BY <2>1, <2>2, <5>1, <5>2 DEF IsInserted
        <5>4. b[to] = a[i]
          BY <2>1, <2>2, <5>2, <5>3 DEF IsInserted
        <5> QED BY <5>3, <5>4
      <4>2. n \in DOMAIN b
        BY <2>4
      <4> QED BY <2>1, <2>7, <3>2, <4>1, <4>2
    <3>7. to2 \in Nat \ {0}
      <4>1. to2 # 0 /\ to2 \in DOMAIN u
        BY <3>3, <3>4, <3>6, IndexIs
      <4> QED BY <3>3, <4>1
    <3> HIDE DEF m, to2, from, sorted
    <3>8. /\ m \in Lists /\ m.all = b /\ m.view = u /\ m.updating = l.updating
          /\ RowsOnce(m.snap) /\ RowsOf(m.snap) = RowsOf(l.snap)
      BY <1>1, <3>1, <3>4, <3>5, <3>7, MoveSectionAtIs
    <3>9. Off(m, A)
      BY <1>1, <2>4, <3>8 DEF Off
    <3>10. Slack(m, A)
      BY <1>1, <2>4, <3>2, <3>8, <3>9 DEF Slack, Loose
    <3>11. Reshuffled(l, m)
      BY <2>4, <2>8, <3>2, <3>8 DEF Reshuffled
    <3> QED BY <2>4, <3>8, <3>10, <3>11 DEF m
  <2> QED BY <2>6, <2>7
<1> QED BY <1>4, <1>5, <1>6

-----------------------------------------------------------------------------
(* The list has a new order and new flags.                                 *)

LEMMA ChangeIs ==
  ASSUME NEW l, Slack(l, active'), NEW i \in Nat \ {0}
  PROVE  Rearranged(l, Change(l, i), active')
<1>1. CASE Moved(i)
  BY <1>1, MoveSectionIs DEF Change
<1>2. CASE ~Moved(i)
  <2> DEFINE m == Toggle(l, order[i])
  <2>1. Change(l, i) = m
    BY <1>2 DEF Change
  <2>2. Toggles(l, m, active')
    BY ToggleIs
  <2> HIDE DEF m
  <2>3. RowsOf(m.all) = RowsOf(l.all) /\ Sections(m.all) = Sections(l.all)
    BY <2>2, SameRowsHas DEF Toggles
  <2> QED BY <2>1, <2>2, <2>3 DEF Rearranged, Toggles
<1> QED BY <1>1, <1>2

LEMMA RearrangedStill ==
  ASSUME NEW l, NEW m, NEW p, NEW A, Rearranged(l, m, A), Rearranged(m, p, A)
  PROVE  Rearranged(l, p, A)
BY KeepsStill DEF Rearranged

LEMMA ChangedIs ==
  ASSUME NEW l, Slack(l, active'), NEW events \in Seq(Nat \ {0})
  PROVE  Rearranged(l, Changed(l, events), active')
<1> DEFINE n == Len(events)
           A == active'
<1>1. PICK g : /\ g[0] = l /\ \A i \in 1 .. Len(events) : g[i] = Change(g[i - 1], events[i])
               /\ Changed(l, events) = g[Len(events)]
  BY ChangeTurns
<1>2. n \in Nat /\ 0 \in 0 .. n /\ n \in 0 .. n /\ \A i \in 1 .. n : events[i] \in Nat \ {0} /\ i \in 0 .. n
  OBVIOUS
<1> HIDE DEF n
<1> DEFINE H == {i \in 0 .. n : Rearranged(l, g[i], active')}
<1>3. 0 \in H
  <2>1. Rearranged(l, l, active')
    BY KeepsAlike DEF Rearranged
  <2> QED BY <1>1, <1>2, <2>1
<1>4. ASSUME NEW i \in 1 .. n, i - 1 \in H PROVE i \in H
  <2> DEFINE m == g[i - 1]
  <2>1. Rearranged(l, m, active') /\ Slack(m, active')
    BY <1>4 DEF Rearranged
  <2>2. g[i] = Change(m, events[i]) /\ events[i] \in Nat \ {0} /\ i \in 0 .. n
    BY <1>1, <1>2 DEF n
  <2> HIDE DEF m
  <2>3. Rearranged(m, g[i], active')
    BY <2>1, <2>2, ChangeIs
  <2>4. Rearranged(l, g[i], active')
    BY <2>1, <2>3, RearrangedStill
  <2> QED BY <2>2, <2>4
<1>5. \A i \in 0 .. n : i \in H
  <2> HIDE DEF H
  <2> QED BY <1>2, <1>3, <1>4, TurnByTurn
<1> QED BY <1>1, <1>2, <1>5 DEF n

LEMMA EventsAre ==
  ASSUME NEW n \in Nat, NEW changed \in SUBSET (1 .. n), NEW events \in SetToSeqs(changed)
  PROVE  /\ events \in Seq(Nat \ {0})
         /\ \A i \in changed : \E k \in DOMAIN events : events[k] = i
         /\ \A k \in DOMAIN events : events[k] \in changed
         /\ \A j, k \in DOMAIN events : events[j] = events[k] => j = k
<1> DEFINE c == Cardinality(changed)
<1>1. IsFiniteSet(changed) /\ c \in Nat
  <2>1. IsFiniteSet(1 .. n)
    BY FS_Interval
  <2>2. IsFiniteSet(changed)
    BY <2>1, FS_Subset
  <2> QED BY <2>2, FS_CardinalityType
<1>2. events \in [1 .. c -> changed] /\ \A i, j \in 1 .. c : i # j => events[i] # events[j]
  BY DEF SetToSeqs
<1> HIDE DEF c
<1>3. DOMAIN events = 1 .. c /\ \A i \in 1 .. c : events[i] \in changed /\ events[i] \in Nat \ {0}
  <2>1. DOMAIN events = 1 .. c /\ \A i \in 1 .. c : events[i] \in changed
    BY <1>2
  <2>2. \A i \in changed : i \in 1 .. n
    OBVIOUS
  <2>3. \A i \in 1 .. n : i \in Nat \ {0}
    OBVIOUS
  <2> QED BY <2>1, <2>2, <2>3
<1>4. events \in Seq(Nat \ {0})
  BY <1>1, <1>2, <1>3
<1>5. events \in Injection(1 .. c, changed)
  BY <1>2 DEF Injection, IsInjective
<1>6. Cardinality(1 .. c) = c
  BY <1>1, FS_Interval
<1>7. events \in Surjection(1 .. c, changed)
  BY <1>1, <1>5, <1>6, FS_Injection DEF c
<1>8. \A i \in changed : \E k \in 1 .. c : events[k] = i
  BY <1>7 DEF Surjection
<1> QED BY <1>2, <1>3, <1>4, <1>8

-----------------------------------------------------------------------------
(* Scopes.                                                                 *)

\* As src but for what is searched.
SameData(new, src) ==
  SameRows(new, src) /\ \A j \in DOMAIN src : new[j].isActive = src[j].isActive

WithSearched(src, i, b) == [src EXCEPT ![i].isSearched = b]

IsWithSearched(new, src, i, b) ==
  /\ SameData(new, src) /\ new[i].isSearched = b
  /\ \A j \in DOMAIN src : j # i => new[j] = src[j]

LEMMA WithSearchedIs ==
  ASSUME NEW src \in Seq(SectionDatum), NEW i \in DOMAIN src, NEW b \in BOOLEAN,
         NEW new, new = WithSearched(src, i, b)
  PROVE  IsWithSearched(new, src, i, b)
<1>1. src[i] \in SectionDatum
  OBVIOUS
<1> DEFINE d == [src[i] EXCEPT !.isSearched = b]
<1>2. /\ d \in SectionDatum /\ d.section = src[i].section /\ d.rows = src[i].rows
      /\ d.isActive = src[i].isActive /\ d.isSearched = b
  BY <1>1 DEF SectionDatum
<1>3. new = [src EXCEPT ![i] = d]
  BY DEF WithSearched
<1> HIDE DEF d
<1>4. new \in Seq(SectionDatum) /\ Len(new) = Len(src) /\ DOMAIN new = DOMAIN src
  BY <1>2, <1>3
<1>5. new[i] = d /\ \A j \in DOMAIN src : j # i => new[j] = src[j]
  BY <1>3
<1> QED BY <1>2, <1>4, <1>5 DEF IsWithSearched, SameData, SameRows

LEMMA LeftOutShows ==
  ASSUME NEW src \in Seq(SectionDatum), Keyed(src), NEW i \in DOMAIN src,
         NEW new, IsWithSearched(new, src, i, FALSE), NEW s, s = src[i].section
  PROVE  /\ Unsearched(new) = Unsearched(src) \cup {s}
         /\ Available(new) \subseteq Available(src) \ {s}
<1>1. /\ DOMAIN new = DOMAIN src /\ ~new[i].isSearched
      /\ \A j \in DOMAIN src : new[j].section = src[j].section /\ (j # i => new[j] = src[j])
      /\ \A j \in DOMAIN src : src[j].section = s => j = i
  BY DEF IsWithSearched, SameData, SameRows, Keyed
<1>2. Unsearched(new) = Unsearched(src) \cup {s}
  BY <1>1 DEF Unsearched
<1>3. \A j \in DOMAIN new : isAvailable(new[j]) => j # i
  BY <1>1 DEF isAvailable
<1>4. Available(new) \subseteq Available(src) \ {s}
  BY <1>1, <1>3 DEF Available
<1> QED BY <1>2, <1>4

\* The sections of new, if s is not left out of it.
ShowsAgain(new, src, s) ==
  /\ Unsearched(new) = Unsearched(src) \ {s}
  /\ Available(new) \subseteq Available(src) \cup {s}
  /\ s \notin Unsearched(src) => Available(new) \subseteq Available(src)

LEMMA TakenInShows ==
  ASSUME NEW src, Keyed(src), NEW i \in DOMAIN src, NEW new, IsWithSearched(new, src, i, TRUE)
  PROVE  ShowsAgain(new, src, src[i].section)
<1> DEFINE s == src[i].section
<1>1. /\ DOMAIN new = DOMAIN src /\ new[i].isSearched
      /\ \A j \in DOMAIN src : /\ new[j].section = src[j].section /\ new[j].rows = src[j].rows
                               /\ new[j].isActive = src[j].isActive
                               /\ j # i => new[j] = src[j]
      /\ \A j \in DOMAIN src : src[j].section = s => j = i
  BY DEF IsWithSearched, SameData, SameRows, Keyed
<1>2. Unsearched(new) = Unsearched(src) \ {s}
  <2>1. ASSUME NEW x \in Unsearched(new) PROVE x \in Unsearched(src) /\ x # s
    <3>1. PICK j \in DOMAIN src : ~new[j].isSearched /\ new[j].section = x
      BY <1>1 DEF Unsearched
    <3>2. j # i /\ new[j] = src[j]
      BY <1>1, <3>1
    <3> QED BY <1>1, <3>1, <3>2 DEF Unsearched
  <2>2. ASSUME NEW x \in Unsearched(src), x # s PROVE x \in Unsearched(new)
    <3>1. PICK j \in DOMAIN src : ~src[j].isSearched /\ src[j].section = x
      BY DEF Unsearched
    <3>2. j # i
      BY <2>2, <3>1
    <3> QED BY <1>1, <3>1, <3>2 DEF Unsearched
  <2> QED BY <2>1, <2>2
<1>3. Available(new) \subseteq Available(src) \cup {s}
  BY <1>1 DEF Available
<1>4. ASSUME s \notin Unsearched(src) PROVE Available(new) \subseteq Available(src)
  <2>1. src[i].isSearched
    BY <1>4 DEF Unsearched
  <2>2. \A j \in DOMAIN new : isAvailable(new[j]) => isAvailable(src[j])
    BY <1>1, <2>1 DEF isAvailable
  <2> QED BY <1>1, <2>2 DEF Available
<1> QED BY <1>2, <1>3, <1>4 DEF ShowsAgain

LEMMA SameDataStill ==
  ASSUME NEW a, NEW b, NEW c, SameData(b, a), SameData(c, b)
  PROVE  SameData(c, a)
BY DEF SameData, SameRows

LEMMA FitsSameData ==
  ASSUME NEW a, NEW v, Fits(a, v), NEW b, SameData(b, a)
  PROVE  /\ Fits(b, v) /\ Active(b) = Active(a)
         /\ RowsOf(b) = RowsOf(a) /\ Sections(b) = Sections(a)
         /\ \A A : Flagged(a, A) => Flagged(b, A)
<1>1. /\ RowsOf(b) = RowsOf(a) /\ Sections(b) = Sections(a)
      /\ Keyed(a) => Keyed(b)
      /\ RowsOnce(a) => RowsOnce(b)
      /\ OneKind(a) => OneKind(b)
  BY SameRowsHas DEF SameData
<1>2. Active(b) = Active(a)
  BY DEF SameData, SameRows, Active
<1>3. b \in Seq(SectionDatum)
  BY DEF SameData, SameRows
<1>4. \A A : Flagged(a, A) => Flagged(b, A)
  BY DEF SameData, SameRows, Flagged
<1> QED BY <1>1, <1>2, <1>3, <1>4 DEF Fits

\* m is l in another scope.
Scoped(l, m) == Tight(m) /\ SameData(m.all, l.all) /\ m.updating = l.updating

LEMMA ScopedStill ==
  ASSUME NEW l, NEW m, NEW p, Scoped(l, m), Scoped(m, p)
  PROVE  Scoped(l, p)
BY SameDataStill DEF Scoped

LEMMA ScopedNothing ==
  ASSUME NEW l, Tight(l)
  PROVE  Scoped(l, l)
BY DEF Scoped, SameData, SameRows, Tight, Firm, Fits

\* Section s is left out,
LeavesOut(l, m, s) ==
  /\ Unsearched(m.all) = Unsearched(l.all) \cup {s}
  /\ Available(m.all) \subseteq Available(l.all) \ {s}
  /\ Sections(m.view) = Sections(l.view) \ {s}

\* or taken in.
TakesIn(l, m, s) ==
  /\ Unsearched(m.all) = Unsearched(l.all) \ {s}
  /\ Available(m.all) \subseteq Available(l.all) \cup {s}
  /\ s \notin Unsearched(l.all) => Available(m.all) \subseteq Available(l.all)
  /\ Sections(m.view) = Sections(l.view) \/ Sections(m.view) = Sections(l.view) \cup {s}

LEMMA ScopeOffIs ==
  ASSUME NEW l, Tight(l), NEW sd \in SectionDatum, sd.section \in Sections(l.all)
  PROVE  Scoped(l, ScopeOff(l, sd)) /\ LeavesOut(l, ScopeOff(l, sd), sd.section)
<1> DEFINE a == l.all
           v == l.view
           s == sd.section
           i == IndexOf(a, s)
           b == WithSearched(a, i, FALSE)
           off == [l EXCEPT !.all[IndexOf(l.all, sd.section)].isSearched = FALSE]
           m == ScopeOff(l, sd)
<1>1. l \in Lists /\ Fits(a, v) /\ l.snap = ShownIn(v) /\ OneKind(v)
  BY DEF Tight, Firm
<1>2. a \in Seq(SectionDatum) /\ v \in Seq(SectionDatum)
  BY <1>1 DEF Fits
<1>3. i \in DOMAIN a /\ a[i].section = s /\ Keyed(a)
  BY <1>1, <1>2, IndexIs DEF Fits
<1>4. off = [l EXCEPT !.all = b]
  BY DEF WithSearched
<1>5. m = HideWhole(off, sd)
  BY DEF ScopeOff
<1> HIDE DEF i, off, m
<1>6. /\ SameData(b, a) /\ b \in Seq(SectionDatum)
      /\ Unsearched(b) = Unsearched(a) \cup {s} /\ Available(b) \subseteq Available(a) \ {s}
  <2>1. IsWithSearched(b, a, i, FALSE)
    BY <1>2, <1>3, WithSearchedIs
  <2>2. SameData(b, a) /\ b \in Seq(SectionDatum)
    BY <2>1 DEF IsWithSearched, SameData, SameRows
  <2>3. Unsearched(b) = Unsearched(a) \cup {s} /\ Available(b) \subseteq Available(a) \ {s}
    <3> HIDE DEF a, b
    <3> QED BY <1>2, <1>3, <2>1, LeftOutShows
  <2> QED BY <2>2, <2>3
<1> HIDE DEF b
<1>7. off \in Lists /\ off.all = b /\ off.view = v /\ off.snap = l.snap /\ off.updating = l.updating
  BY <1>1, <1>4, <1>6 DEF Lists
<1>8. Fits(b, v)
  BY <1>1, <1>6, FitsSameData
<1>9. IsHidden(off, m, s)
  BY <1>5, <1>7, HideWholeIs
<1>10. m \in Lists /\ m.all = b /\ m.updating = l.updating
  BY <1>7, <1>9 DEF IsHidden
<1>11. /\ Fits(b, m.view) /\ OneKind(m.view) /\ m.snap = ShownIn(m.view)
       /\ Sections(m.view) = Sections(v) \ {s}
  <2>1. CASE s \notin Sections(v)
    BY <1>1, <1>7, <1>8, <1>9, <2>1 DEF IsHidden
  <2>2. CASE s \in Sections(v)
    <3>1. PICK k \in DOMAIN v : /\ v[k].section = s /\ m.view = RemoveAt(v, k)
                                /\ k \in DOMAIN l.snap => m.snap = RemoveAt(l.snap, k)
      BY <1>7, <1>9, <2>2 DEF IsHidden
    <3>2. Fits(b, m.view) /\ OneKind(m.view) /\ Sections(m.view) = Sections(v) \ {s}
      BY <1>1, <1>8, <3>1, FitsHiddenSection
    <3>3. m.snap = ShownIn(m.view)
      <4>1. k \in DOMAIN l.snap
        BY <1>1, <1>2, ShownInIs
      <4> QED BY <1>1, <1>2, <3>1, <4>1, ShownRemove
    <3> QED BY <3>2, <3>3
  <2> QED BY <2>1, <2>2
<1>12. LeavesOut(l, m, s)
  BY <1>6, <1>10, <1>11 DEF LeavesOut
<1> QED BY <1>6, <1>10, <1>11, <1>12 DEF Scoped, Tight, Firm, m

LEMMA ScopeOnIs ==
  ASSUME NEW l, Tight(l), NEW sd \in SectionDatum, NEW i \in DOMAIN l.all,
         l.all[i].section = sd.section, l.all[i].rows = sd.rows, l.all[i].isActive = sd.isActive
  PROVE  Scoped(l, ScopeOn(l, sd)) /\ TakesIn(l, ScopeOn(l, sd), sd.section)
<1> DEFINE a == l.all
           v == l.view
           s == sd.section
           b == WithSearched(a, i, TRUE)
           before == {j \in 1 .. i - 1 : isAvailable(a[j])}
           place == IF v = <<>> THEN 1 ELSE Cardinality(before) + 1
           on == [l EXCEPT !.all[i].isSearched = TRUE]
           w == ShowWhole(on, sd, place)
           m == ScopeOn(l, sd)
<1>1. l \in Lists /\ Fits(a, v) /\ l.snap = ShownIn(v) /\ OneKind(v)
  BY DEF Tight, Firm
<1>2. /\ a \in Seq(SectionDatum) /\ v \in Seq(SectionDatum) /\ Keyed(a) /\ RowsOnce(a) /\ OneKind(a)
      /\ i \in Nat
  BY <1>1 DEF Fits
<1>3. IndexOf(a, s) = i
  <2>1. s \in Sections(a)
    BY DEF Sections
  <2> QED BY <1>2, <2>1, IndexIs
<1>4. on = [l EXCEPT !.all = b]
  BY DEF WithSearched
<1>5. m = IF ~isAvailable(sd) \/ Has(v, s) THEN on ELSE w
  BY <1>3 DEF ScopeOn
<1>6. place \in Nat \ {0}
  <2>1. IsFiniteSet(before) /\ Cardinality(before) \in Nat
    <3>1. IsFiniteSet(1 .. i - 1)
      BY <1>2, FS_Interval
    <3>2. IsFiniteSet(before)
      BY <3>1, FS_Subset
    <3> QED BY <3>2, FS_CardinalityType
  <2> HIDE DEF before
  <2> QED BY <2>1
<1> HIDE DEF on, m, place, w
<1>7. SameData(b, a) /\ b \in Seq(SectionDatum)
  <2>1. IsWithSearched(b, a, i, TRUE)
    BY <1>2, WithSearchedIs
  <2> QED BY <2>1 DEF IsWithSearched, SameData, SameRows
<1>12. /\ Unsearched(b) = Unsearched(a) \ {s} /\ Available(b) \subseteq Available(a) \cup {s}
       /\ s \notin Unsearched(a) => Available(b) \subseteq Available(a)
  <2>1. IsWithSearched(b, a, i, TRUE)
    BY <1>2, WithSearchedIs
  <2>2. i \in DOMAIN a /\ a[i].section = s
    OBVIOUS
  <2>3. a \in Seq(SectionDatum) /\ Keyed(a) /\ s = a[i].section
    BY <1>2, <2>2
  <2> HIDE DEF a, b, s
  <2>4. ShowsAgain(b, a, s)
    BY <2>1, <2>2, <2>3, TakenInShows
  <2> QED BY <2>4 DEF ShowsAgain
<1> HIDE DEF b
<1>8. on \in Lists /\ on.all = b /\ on.view = v /\ on.snap = l.snap /\ on.updating = l.updating
  BY <1>1, <1>4, <1>7 DEF Lists
<1>9. Fits(b, v) /\ Active(b) = Active(a) /\ RowsOf(b) = RowsOf(a)
  BY <1>1, <1>7, FitsSameData
<1>10. CASE ~isAvailable(sd) \/ Has(v, s)
  <2>1. m = on
    BY <1>5, <1>10
  <2>2. TakesIn(l, m, s)
    BY <1>8, <1>12, <2>1 DEF TakesIn
  <2>3. Scoped(l, m)
    BY <1>1, <1>7, <1>8, <1>9, <2>1 DEF Scoped, Tight, Firm
  <2> QED BY <2>2, <2>3 DEF m
<1>11. CASE isAvailable(sd) /\ ~Has(v, s)
  <2>1. m = w
    BY <1>5, <1>11
  <2>2. CASE place > Len(v) + 1
    <3>1. m = Trap(on)
      BY <1>8, <2>1, <2>2 DEF ShowWhole, w
    <3>2. m \in Lists /\ m.all = b /\ m.view = v /\ m.snap = l.snap /\ m.updating = l.updating
      BY <1>8, <3>1, TrapIs
    <3>3. TakesIn(l, m, s)
      BY <1>12, <3>2 DEF TakesIn
    <3> QED BY <1>1, <1>7, <1>9, <3>2, <3>3 DEF Scoped, Tight, Firm, m
  <2>3. CASE ~(place > Len(v) + 1)
    <3>1. PICK k \in 1 .. Len(v) + 1 : k = place
      BY <1>2, <1>6, <2>3
    <3>2. k \in 1 .. Len(on.snap) + 1
      BY <1>1, <1>2, <1>8, ShownInIs
    <3> DEFINE u == InsertAt(v, k, sd)
    <3>3. IsShown(on, m, sd, k)
      BY <1>8, <2>1, <3>1, <3>2, ShowWholeIs DEF w
    <3>4. /\ m \in Lists /\ m.all = b /\ m.updating = l.updating /\ m.view = u
          /\ m.snap = InsertAt(ShownIn(v), k, CellOf(sd))
      BY <1>1, <1>8, <3>3 DEF IsShown
    <3>5. m.snap = ShownIn(u)
      BY <1>2, <3>4, ShownInsert
    <3>6. s \notin Sections(v) /\ a[i].section = s /\ \A r : HasRow(sd, r) <=> HasRow(a[i], r)
      BY <1>2, <1>11, IndexIs DEF HasRow
    <3>7. \A r \in RowsOf(v) : ~HasRow(sd, r)
      BY <1>1, <3>6, HiddenIs
    <3>8. Distinct(sd) /\ OfKind(sd)
      <4>1. Distinct(a[i])
        BY <1>2, DistinctRows
      <4>2. OfKind(a[i])
        BY <1>2, KindIs DEF OfKind
      <4> QED BY <4>1, <4>2 DEF Distinct, OfKind
    <3>9. s \in Active(b)
      BY <1>9, <1>11, <3>6 DEF Active, isAvailable
    <3>10. \A r \in Row : HasRow(sd, r) => r \in RowsOf(b)
      BY <1>9, <3>6 DEF RowsOf
    <3>11. Fits(b, u) /\ OneKind(u)
      <4>1. /\ Fits(b, InsertAt(v, k, sd))
            /\ OneKind(v) /\ OfKind(sd) => OneKind(InsertAt(v, k, sd))
        <5> HIDE DEF v
        <5> QED BY <1>9, <3>6, <3>7, <3>8, <3>9, <3>10, FitsShownSection
      <4> QED BY <1>1, <3>8, <4>1
    <3>12. Sections(u) = Sections(v) \cup {s}
      <4>1. HasPut(u, v, sd)
        <5>1. IsRowed(SectionDatum)
          BY DEF IsRowed
        <5> HIDE DEF v
        <5> QED BY <1>2, <5>1, PutIs
      <4> QED BY <4>1 DEF HasPut
    <3> HIDE DEF u
    <3>13. TakesIn(l, m, s)
      BY <1>12, <3>4, <3>12 DEF TakesIn
    <3> QED BY <1>7, <3>4, <3>5, <3>11, <3>13 DEF Scoped, Tight, Firm, m
  <2> QED BY <2>2, <2>3
<1> QED BY <1>10, <1>11

\* All but s are left out.
Narrows(l, m, s) ==
  /\ Shown(l) => Shown(m)
  /\ Reached(l) => Reached(m)
  /\ s \notin Unsearched(l.all) => s \notin Unsearched(m.all)

\* The sections S are taken in.
Widens(l, m, S) ==
  /\ Unsearched(m.all) \subseteq Unsearched(l.all) \ S
  /\ Reached(l) => Reached(m)
  /\ S \cap Unsearched(l.all) = {} /\ Shown(l) => Shown(m)

LEMMA NarrowsStill ==
  ASSUME NEW l, NEW m, NEW p, NEW s, Narrows(l, m, s), m = p \/ \E x : x # s /\ LeavesOut(m, p, x)
  PROVE  Narrows(l, p, s)
<1>1. CASE m = p
  BY <1>1
<1>2. ASSUME NEW x, x # s, LeavesOut(m, p, x) PROVE Narrows(l, p, s)
  <2>1. /\ Unsearched(p.all) = Unsearched(m.all) \cup {x}
        /\ Available(p.all) \subseteq Available(m.all) \ {x}
        /\ Sections(p.view) = Sections(m.view) \ {x}
    BY <1>2 DEF LeavesOut
  <2>2. Shown(m) => Shown(p)
    BY <2>1 DEF Shown
  <2>3. Reached(m) => Reached(p)
    BY <2>1 DEF Reached
  <2> QED BY <1>2, <2>1, <2>2, <2>3 DEF Narrows
<1> QED BY <1>1, <1>2

LEMMA WidensStill ==
  ASSUME NEW l, NEW m, NEW p, NEW S, NEW Q, Widens(l, m, S),
         (m = p /\ Q = S) \/ \E x : Q = S \cup {x} /\ TakesIn(m, p, x)
  PROVE  Widens(l, p, Q)
<1>1. CASE m = p /\ Q = S
  BY <1>1 DEF Widens
<1>2. ASSUME NEW x, Q = S \cup {x}, TakesIn(m, p, x) PROVE Widens(l, p, Q)
  <2>1. /\ Unsearched(p.all) = Unsearched(m.all) \ {x}
        /\ Available(p.all) \subseteq Available(m.all) \cup {x}
        /\ x \notin Unsearched(m.all) => Available(p.all) \subseteq Available(m.all)
        /\ Sections(p.view) = Sections(m.view) \/ Sections(p.view) = Sections(m.view) \cup {x}
    BY <1>2 DEF TakesIn
  <2>2. x \notin Unsearched(m.all) /\ Shown(m) => Shown(p)
    BY <2>1 DEF Shown
  <2>3. Reached(m) => Reached(p)
    BY <2>1 DEF Reached
  <2>4. /\ Unsearched(m.all) \subseteq Unsearched(l.all) \ S
        /\ Reached(l) => Reached(m)
        /\ S \cap Unsearched(l.all) = {} /\ Shown(l) => Shown(m)
    BY DEF Widens
  <2>5. Unsearched(p.all) \subseteq Unsearched(l.all) \ Q
    BY <1>2, <2>1, <2>4
  <2>6. Q \cap Unsearched(l.all) = {} /\ Shown(l) => Shown(p)
    BY <1>2, <2>2, <2>4
  <2> QED BY <2>3, <2>4, <2>5, <2>6 DEF Widens
<1> QED BY <1>1, <1>2

LEMMA NarrowedIs ==
  ASSUME NEW l, Tight(l), NEW s
  PROVE  /\ Scoped(l, Narrowed(l, l.all, s))
         /\ Narrows(l, Narrowed(l, l.all, s), s)
<1> DEFINE a == l.all
           n == Len(a)
<1>1. a \in Seq(SectionDatum)
  BY DEF Tight, Firm, Fits
<1>2. PICK g : /\ g[0] = l /\ \A i \in 1 .. Len(a) : g[i] = NarrowTo(g[i - 1], a[i], s)
               /\ Narrowed(l, a, s) = g[Len(a)]
  <2> HIDE DEF a
  <2> QED BY <1>1, NarrowTurns
<1>3. n \in Nat /\ 0 \in 0 .. n /\ n \in 0 .. n /\ DOMAIN a = 1 .. n
      /\ \A i \in 1 .. n : a[i] \in SectionDatum /\ i \in 0 .. n
  BY <1>1
<1>4. /\ g[0] = l /\ (\A i \in 1 .. n : g[i] = NarrowTo(g[i - 1], a[i], s))
      /\ Narrowed(l, a, s) = g[n]
  BY <1>2
<1> HIDE DEF n
<1> DEFINE H == {i \in 0 .. n : Scoped(l, g[i]) /\ Narrows(l, g[i], s)}
<1>5. 0 \in H
  BY <1>3, <1>4, ScopedNothing DEF Narrows
<1>6. ASSUME NEW i \in 1 .. n, i - 1 \in H PROVE i \in H
  <2> DEFINE m == g[i - 1]
             sd == a[i]
  <2>1. Scoped(l, m) /\ Narrows(l, m, s) /\ i \in 0 .. n
    BY <1>3, <1>6
  <2>2. g[i] = NarrowTo(m, sd, s) /\ sd \in SectionDatum
    BY <1>3, <1>4
  <2>3. sd.section \in Sections(m.all)
    <3>1. SameRows(m.all, a)
      BY <2>1 DEF Scoped, SameData
    <3>2. sd.section \in Sections(a)
      BY <1>3 DEF Sections
    <3> HIDE DEF m, sd
    <3> QED BY <3>1, <3>2, SameRowsHas
  <2> HIDE DEF m, sd
  <2>4. Scoped(m, g[i]) /\ (m = g[i] \/ \E x : x # s /\ LeavesOut(m, g[i], x))
    <3>1. Tight(m)
      BY <2>1 DEF Scoped
    <3>2. CASE s \notin {None, sd.section}
      BY <2>2, <2>3, <3>1, <3>2, ScopeOffIs DEF NarrowTo
    <3>3. CASE s \in {None, sd.section}
      BY <2>2, <3>1, <3>3, ScopedNothing DEF NarrowTo
    <3> QED BY <3>2, <3>3
  <2>5. Scoped(l, g[i])
    BY <2>1, <2>4, ScopedStill
  <2>6. Narrows(l, g[i], s)
    BY <2>1, <2>4, NarrowsStill
  <2> QED BY <2>1, <2>5, <2>6
<1>7. \A i \in 0 .. n : i \in H
  <2> HIDE DEF H
  <2> QED BY <1>3, <1>5, <1>6, TurnByTurn
<1>8. Scoped(l, g[n]) /\ Narrows(l, g[n], s)
  BY <1>3, <1>7
<1> QED BY <1>4, <1>8

LEMMA WidenedIs ==
  ASSUME NEW l, Tight(l), NEW s
  PROVE  /\ Scoped(l, Widened(l, l.all, s))
         /\ Widens(l, Widened(l, l.all, s), {x \in Sections(l.all) : s \in {None, x}})
<1> DEFINE a == l.all
           n == Len(a)
<1>1. a \in Seq(SectionDatum)
  BY DEF Tight, Firm, Fits
<1>2. PICK g : /\ g[0] = l /\ \A i \in 1 .. Len(a) : g[i] = WidenTo(g[i - 1], a[i], s)
               /\ Widened(l, a, s) = g[Len(a)]
  <2> HIDE DEF a
  <2> QED BY <1>1, WidenTurns
<1>3. n \in Nat /\ 0 \in 0 .. n /\ n \in 0 .. n /\ DOMAIN a = 1 .. n
      /\ \A i \in 1 .. n : a[i] \in SectionDatum /\ i \in 0 .. n
  BY <1>1
<1>4. /\ g[0] = l /\ (\A i \in 1 .. n : g[i] = WidenTo(g[i - 1], a[i], s))
      /\ Widened(l, a, s) = g[n]
  BY <1>2
<1> HIDE DEF n
<1> DEFINE S(i) == {x \in {a[j].section : j \in 1 .. i} : s \in {None, x}}
           H == {i \in 0 .. n : Scoped(l, g[i]) /\ Widens(l, g[i], S(i))}
<1>5. 0 \in H
  <2>1. S(0) = {}
    OBVIOUS
  <2> HIDE DEF S
  <2>2. Scoped(l, l) /\ Widens(l, l, S(0))
    BY <2>1, ScopedNothing DEF Widens
  <2> QED BY <1>3, <1>4, <2>2
<1>6. ASSUME NEW i \in 1 .. n, i - 1 \in H PROVE i \in H
  <2> DEFINE m == g[i - 1]
             sd == a[i]
  <2>1. Scoped(l, m) /\ Widens(l, m, S(i - 1)) /\ i \in 0 .. n
    BY <1>3, <1>6
  <2>2. g[i] = WidenTo(m, sd, s) /\ sd \in SectionDatum
    BY <1>3, <1>4
  <2>3. /\ i \in DOMAIN m.all /\ m.all[i].section = sd.section /\ m.all[i].rows = sd.rows
        /\ m.all[i].isActive = sd.isActive
    BY <1>3, <2>1 DEF Scoped, SameData, SameRows
  <2>7. S(i) = S(i - 1) \cup {x \in {sd.section} : s \in {None, x}}
    <3>1. \A j \in 1 .. i : j \in 1 .. i - 1 \/ j = i
      BY <1>3
    <3>2. \A j \in 1 .. i - 1 : j \in 1 .. i
      BY <1>3
    <3>3. i \in 1 .. i
      BY <1>3
    <3> HIDE DEF a
    <3> QED BY <3>1, <3>2, <3>3
  <2> HIDE DEF m, sd, S
  <2>4. /\ Scoped(m, g[i])
        /\ (m = g[i] /\ S(i) = S(i - 1)) \/ \E x : S(i) = S(i - 1) \cup {x} /\ TakesIn(m, g[i], x)
    <3>1. Tight(m)
      BY <2>1 DEF Scoped
    <3>2. CASE s \in {None, sd.section}
      <4>1. g[i] = ScopeOn(m, sd)
        BY <2>2, <3>2 DEF WidenTo
      <4>2. Scoped(m, ScopeOn(m, sd)) /\ TakesIn(m, ScopeOn(m, sd), sd.section)
        BY <2>2, <2>3, <3>1, ScopeOnIs
      <4>3. S(i) = S(i - 1) \cup {sd.section}
        BY <2>7, <3>2
      <4> QED BY <4>1, <4>2, <4>3
    <3>3. CASE s \notin {None, sd.section}
      <4>1. g[i] = m
        BY <2>2, <3>3 DEF WidenTo
      <4>2. S(i) = S(i - 1)
        BY <2>7, <3>3
      <4> QED BY <3>1, <4>1, <4>2, ScopedNothing
    <3> QED BY <3>2, <3>3
  <2>5. Scoped(l, g[i])
    BY <2>1, <2>4, ScopedStill
  <2>6. Widens(l, g[i], S(i))
    BY <2>1, <2>4, WidensStill
  <2> QED BY <2>1, <2>5, <2>6
<1>7. \A i \in 0 .. n : i \in H
  <2> HIDE DEF H
  <2> QED BY <1>3, <1>5, <1>6, TurnByTurn
<1>8. Scoped(l, g[n]) /\ Widens(l, g[n], S(n))
  BY <1>3, <1>7
<1>9. S(n) = {x \in Sections(l.all) : s \in {None, x}}
  BY <1>3 DEF Sections
<1> HIDE DEF S
<1> QED BY <1>4, <1>8, <1>9

\* What a scope leaves out, and on show.
Rescoped(l, m, s) ==
  /\ Reached(l) => Reached(m)
  /\ \A x \in Sections(l.all) : s \in {None, x} => x \notin Unsearched(m.all)
  /\ s # None /\ s \notin Unsearched(l.all) /\ Shown(l) => Shown(m)

LEMMA ChangeScopeIs ==
  ASSUME NEW l, Tight(l), NEW s
  PROVE  Scoped(l, changeSearchedSection(l, s)) /\ Rescoped(l, changeSearchedSection(l, s), s)
<1> DEFINE m == Narrowed(l, l.all, s)
<1>1. changeSearchedSection(l, s) = Widened(m, m.all, s)
  BY DEF changeSearchedSection, Narrowed, Widened
<1> HIDE DEF m
<1>2. Scoped(l, m) /\ Tight(m)
  BY NarrowedIs DEF m, Scoped
<1> DEFINE p == Widened(m, m.all, s)
           S == {x \in Sections(m.all) : s \in {None, x}}
<1>3. Scoped(m, p) /\ Widens(m, p, S)
  BY <1>2, WidenedIs
<1>4. Sections(m.all) = Sections(l.all)
  BY <1>2, SameRowsHas DEF Scoped, SameData
<1>5. Narrows(l, m, s)
  BY NarrowedIs DEF m
<1> HIDE DEF p
<1>6. Scoped(l, p)
  BY <1>2, <1>3, ScopedStill
<1>7. Rescoped(l, p, s)
  <2>1. \A x \in Sections(l.all) : s \in {None, x} => x \notin Unsearched(p.all)
    BY <1>3, <1>4 DEF Widens
  <2>2. ASSUME s # None, s \notin Unsearched(l.all), Shown(l) PROVE Shown(p)
    <3>1. Shown(m) /\ s \notin Unsearched(m.all)
      BY <1>5, <2>2 DEF Narrows
    <3>2. S \cap Unsearched(m.all) = {}
      BY <2>2, <3>1
    <3> QED BY <1>3, <3>1, <3>2 DEF Widens
  <2>3. Reached(l) => Reached(p)
    BY <1>3, <1>5 DEF Narrows, Widens
  <2> QED BY <2>1, <2>2, <2>3 DEF Rescoped
<1> QED BY <1>1, <1>6, <1>7 DEF p

-----------------------------------------------------------------------------
(* The state.                                                              *)

\* What there is to list.
StoreOK ==
  /\ instance \in Instances /\ store \subseteq Row /\ present \subseteq Section
  /\ IsOrder(order) /\ active \subseteq Section

ControlOK ==
  /\ clearing \in BOOLEAN /\ changes \in 0 .. instance.changes
  /\ scope \in Section \cup {None} /\ text \in {"nil", "", "text"}

\* The four copies of the list, however far apart.
ListOK ==
  /\ Loose(List) /\ RowsOf(all) \subseteq Wanted /\ Sections(all) \subseteq present

ListInv == StoreOK /\ ControlOK /\ ListOK

LEMMA BecomesIs ==
  ASSUME NEW l, l \in Lists, Becomes(l)
  PROVE  /\ List' = l
         /\ all' = l.all /\ view' = l.view /\ snap' = l.snap
         /\ trapped' = l.trapped /\ updating' = l.updating
BY DEF Becomes, List, Lists

LEMMA ListIs ==
  /\ List.all = all /\ List.view = view /\ List.snap = snap
  /\ List.trapped = trapped /\ List.updating = updating
BY DEF List

LEMMA AliveIsTight ==
  ASSUME ListInv, Alive
  PROVE  Tight(List)
BY ListIs DEF ListInv, ListOK, Alive, InStep, Loose, Tight, Firm

\* What is said of the instance alone.
LEMMA SameInstance ==
  ASSUME UNCHANGED instance
  PROVE  /\ Row' = Row /\ Section' = Section /\ KindOf' = KindOf
         /\ SectionDatum' = SectionDatum /\ Cell' = Cell /\ Lists' = Lists
<1>1. Row' = Row /\ Section' = Section /\ KindOf' = KindOf
  BY DEF Row, Section, KindOf
<1>2. SectionDatum' = SectionDatum /\ Cell' = Cell
  BY <1>1 DEF SectionDatum, Cell
<1> QED BY <1>1, <1>2 DEF Lists

LEMMA LooseIs ==
  Loose(List) <=> /\ List \in Lists /\ Fits(all, view) /\ RowsOnce(snap)
                  /\ RowsOf(snap) \subseteq RowsOf(all)
BY ListIs DEF Loose

\* The next state's list, seen from this one.
LEMMA LooseNext ==
  ASSUME UNCHANGED instance, NEW m, Loose(m), Becomes(m)
  PROVE  Loose(List)'
<1>1. /\ Row' = Row /\ KindOf' = KindOf /\ SectionDatum' = SectionDatum /\ Lists' = Lists
  BY SameInstance
<1>2. m \in Lists /\ Fits(m.all, m.view) /\ RowsOnce(m.snap) /\ RowsOf(m.snap) \subseteq RowsOf(m.all)
  BY DEF Loose
<1>3. List' = m /\ all' = m.all /\ view' = m.view /\ snap' = m.snap
  BY <1>2, BecomesIs
<1>5. RowsOf(all)' = RowsOf(all') /\ RowsOf(view)' = RowsOf(view') /\ RowsOf(snap)' = RowsOf(snap')
  BY <1>1 DEF RowsOf, HasRow
<1>6. Sections(view)' = Sections(view') /\ Active(all)' = Active(all')
  BY DEF Sections, Active
<1>7. OneKind(all)' <=> OneKind(all')
  BY <1>1 DEF OneKind
<1>8. Keyed(all)' <=> Keyed(all')
  BY DEF Keyed
<1>9. Keyed(view)' <=> Keyed(view')
  BY DEF Keyed
<1>10. RowsOnce(all)' <=> RowsOnce(all')
  BY DEF RowsOnce
<1>11. RowsOnce(view)' <=> RowsOnce(view')
  BY DEF RowsOnce
<1>12. RowsOnce(snap)' <=> RowsOnce(snap')
  BY DEF RowsOnce
<1>13. /\ all' \in Seq(SectionDatum) /\ Keyed(all') /\ RowsOnce(all') /\ OneKind(all')
       /\ view' \in Seq(SectionDatum) /\ Keyed(view') /\ RowsOnce(view')
       /\ RowsOf(view') \subseteq RowsOf(all') /\ Sections(view') \subseteq Active(all')
  BY <1>2, <1>3 DEF Fits
<1>14. Fits(all, view)'
  BY <1>1, <1>5, <1>6, <1>7, <1>8, <1>9, <1>10, <1>11, <1>13 DEF Fits
<1>15. (List \in Lists)' /\ RowsOnce(snap)' /\ RowsOf(snap)' \subseteq RowsOf(all)'
  BY <1>1, <1>2, <1>3, <1>5, <1>12
<1>17. Loose(List)' <=> (/\ List \in Lists /\ Fits(all, view) /\ RowsOnce(snap)
                         /\ RowsOf(snap) \subseteq RowsOf(all))'
  BY LooseIs, PTL
<1> QED BY <1>14, <1>15, <1>17

LEMMA SectionsNowNow ==
  StoreOK => IsFetched(SectionsNow)
BY SectionsNowIs DEF StoreOK

LEMMA SectionsNowNext ==
  StoreOK' => IsFetched(SectionsNow)'
BY SectionsNowNow, PTL

LEMMA OrderNext ==
  ASSUME UNCHANGED instance
  PROVE  IsOrder(order)' <=> IsOrder(order')
BY SameInstance DEF IsOrder

LEMMA StoreNext ==
  ASSUME UNCHANGED instance, StoreOK, store' \subseteq Row, present' \subseteq Section,
         IsOrder(order'), active' \subseteq Section
  PROVE  StoreOK'
BY SameInstance, OrderNext DEF StoreOK

LEMMA ListInvNext ==
  ASSUME UNCHANGED instance, StoreOK', ControlOK', NEW m, Loose(m), Becomes(m),
         RowsOf(m.all) \subseteq Wanted', Sections(m.all) \subseteq present'
  PROVE  ListInv'
<1>1. Loose(List)'
  BY LooseNext
<1>2. all' = m.all
  BY DEF Becomes
<1>3. RowsOf(all)' = RowsOf(m.all)
  <2>1. Row' = Row
    BY SameInstance
  <2> QED BY <1>2, <2>1 DEF RowsOf, HasRow
<1>4. Sections(all)' = Sections(m.all)
  BY <1>2 DEF Sections
<1>5. ListOK'
  BY <1>1, <1>3, <1>4 DEF ListOK
<1> QED BY <1>5 DEF ListInv

\* What is fetched, of the records W.
IsFetchedOf(new, W) ==
  /\ IsNew(new) /\ Flagged(new, active) /\ Sections(new) = present
  /\ RowsOf(new) = {r \in W : KindOf[r] \in present}
  /\ new = <<>> => present = {}
  /\ Unsearched(new) = {}

LEMMA FetchedNow ==
  ASSUME StoreOK
  PROVE  IsFetchedOf(SectionsNow, Wanted)
<1>1. IsFetched(SectionsNow)
  BY SectionsNowNow
<1> QED BY <1>1 DEF IsFetched, IsFetchedOf

LEMMA FetchedNext ==
  ASSUME UNCHANGED instance, StoreOK', UNCHANGED <<active, present>>
  PROVE  IsFetchedOf(SectionsNow', Wanted')
<1> DEFINE new == SectionsNow'
<1>1. IsFetched(SectionsNow)'
  BY SectionsNowNext
<1>2. Row' = Row /\ KindOf' = KindOf /\ SectionDatum' = SectionDatum
  BY SameInstance
<1>3. /\ IsNew(SectionsNow)' /\ Flagged(SectionsNow, active)' /\ Sections(SectionsNow)' = present'
      /\ RowsOf(SectionsNow)' = {r \in Wanted' : KindOf'[r] \in present'}
      /\ new = <<>> => present' = {}
      /\ Unsearched(SectionsNow)' = {}
  BY <1>1 DEF IsFetched
<1>4. new \in Seq(SectionDatum)
  BY <1>2, <1>3 DEF IsNew
<1>5. Keyed(new)
  BY <1>3 DEF IsNew, Keyed
<1>6. RowsOnce(new)
  BY <1>3 DEF IsNew, RowsOnce
<1>7. OneKind(new)
  BY <1>2, <1>3 DEF IsNew, OneKind
<1>8. Flagged(new, active)
  BY <1>3 DEF Flagged
<1>9. Sections(new) = present
  BY <1>3 DEF Sections
<1>10. RowsOf(new) = {r \in Wanted' : KindOf[r] \in present}
  BY <1>2, <1>3 DEF RowsOf, HasRow
<1>11. new = <<>> => present = {}
  BY <1>3
<1>12. Unsearched(new) = {}
  BY <1>3 DEF Unsearched
<1> QED BY <1>4, <1>5, <1>6, <1>7, <1>8, <1>9, <1>10, <1>11, <1>12 DEF IsFetchedOf, IsNew

\* m is l brought up to date with the records W.
Renewed(l, m, W) ==
  /\ Firm(m) /\ RowsOf(m.all) = {r \in W : KindOf[r] \in present}
  /\ Sections(m.all) = present
  /\ Flagged(l.all, active) => Flagged(m.all, active)
  /\ m.updating => present = {}
  /\ Keeps(l, m)

LEMMA RenewedIs ==
  ASSUME NEW l, Tight(l), Sections(l.all) \subseteq present, NEW new, NEW W, IsFetchedOf(new, W)
  PROVE  Renewed(l, Update(l, new), W)
<1>1. IsNew(new) /\ Flagged(new, active) /\ Unsearched(new) = {}
  BY DEF IsFetchedOf
<1>2. Updated(l, Update(l, new), new, active)
  BY <1>1, UpdateIs
<1> QED BY <1>2 DEF Renewed, Updated, IsFetchedOf

\* m is l without records.
Cleared(l, m) ==
  /\ Tight(m) /\ RowsOf(m.all) = {} /\ Sections(m.all) \subseteq Sections(l.all)
  /\ \A A : Flagged(l.all, A) => Flagged(m.all, A)
  /\ Keeps(l, m)

LEMMA ClearedIs ==
  ASSUME NEW l, Tight(l)
  PROVE  Cleared(l, Update(l, <<>>))
<1> DEFINE m == Update(l, <<>>)
<1>1. /\ IsNew(<<>>) /\ RowsOf(<<>>) = {} /\ Sections(<<>>) = {} /\ Unsearched(<<>>) = {}
      /\ \A A : Flagged(<<>>, A)
  BY DEF IsNew, Keyed, RowsOnce, OneKind, RowsOf, Sections, Unsearched, Flagged
<1> HIDE DEF m
<1>2. ASSUME NEW A PROVE Updated(l, m, <<>>, A)
  BY <1>1, UpdateIs DEF m
<1>3. Tight(m) /\ RowsOf(m.all) = {} /\ Sections(m.all) \subseteq Sections(l.all) /\ Keeps(l, m)
  <2>1. Updated(l, m, <<>>, {})
    BY <1>2
  <2> QED BY <1>1, <2>1 DEF Updated
<1>4. \A A : Flagged(l.all, A) => Flagged(m.all, A)
  BY <1>2 DEF Updated
<1> QED BY <1>3, <1>4 DEF Cleared, m

-----------------------------------------------------------------------------
(* What each action does.                                                  *)

RecordComes(r, m) ==
  /\ Found(r) /\ KindOf[r] \in Sections(all) => More(List, m, {r}, {KindOf[r]}, active)
  /\ ~(Found(r) /\ KindOf[r] \in Sections(all)) => m = List

LEMMA RecordInsertedIs ==
  ASSUME ListInv, Alive, NEW r \in Row, RecordInserted(r)
  PROVE  \E m : Becomes(m) /\ RecordComes(r, m)
<1> DEFINE i == IndexOf(all, KindOf[r])
<1>1. Tight(List) /\ Firm(List) /\ List.all = all /\ all \in Seq(SectionDatum)
  BY AliveIsTight, ListIs DEF Tight, Firm, Fits
<1>2. r \notin RowsOf(all)
  BY DEF RecordInserted, ListInv, ListOK, Wanted
<1>3. /\ KindOf[r] \in Sections(all) <=> i # 0
      /\ i # 0 => i \in DOMAIN all /\ all[i].section = KindOf[r]
  BY <1>1, IndexIs
<1>4. Becomes(IF Found(r) /\ i # 0 THEN AppendRow(List, r, all[i]) ELSE List)
  BY DEF RecordInserted
<1> HIDE DEF i
<1>5. CASE Found(r) /\ i # 0
  <2> DEFINE m == AppendRow(List, r, all[i])
             d == all[i]
  <2>1. d \in SectionDatum /\ d.section = KindOf[r]
    BY <1>1, <1>3, <1>5
  <2>2. Flagged(all, active) => d.isActive = (d.section \in active)
    BY <1>3, <1>5 DEF Flagged
  <2>5. d.section \in Sections(List.all)
    BY <1>1, <1>3, <1>5, <2>1
  <2> HIDE DEF d
  <2>3. More(List, AppendRow(List, r, d), {r}, {d.section}, active)
    BY <1>1, <1>2, <2>1, <2>2, <2>5, AppendRowIs
  <2>4. More(List, m, {r}, {KindOf[r]}, active)
    BY <2>1, <2>3 DEF d
  <2> QED BY <1>3, <1>4, <1>5, <2>4 DEF RecordComes
<1>6. CASE ~(Found(r) /\ i # 0)
  BY <1>3, <1>4, <1>6 DEF RecordComes
<1> QED BY <1>5, <1>6

RecordGoes(r, m) ==
  /\ Found(r) => Less(List, m, {r}, {KindOf[r]})
  /\ ~Found(r) => m = List

LEMMA RecordDeletedIs ==
  ASSUME ListInv, Alive, NEW r \in Row, RecordDeleted(r)
  PROVE  \E m : Becomes(m) /\ RecordGoes(r, m)
<1>1. Tight(List)
  BY AliveIsTight
<1>2. Becomes(IF Found(r) THEN RemoveRow(List, r) ELSE List)
  BY DEF RecordDeleted
<1>3. CASE Found(r)
  <2>1. Less(List, RemoveRow(List, r), {r}, {KindOf[r]})
    BY <1>1, RemoveRowIs
  <2> QED BY <1>2, <1>3, <2>1 DEF RecordGoes
<1>4. CASE ~Found(r)
  BY <1>2, <1>4 DEF RecordGoes
<1> QED BY <1>3, <1>4

SectionComes(s, m) ==
  /\ s \in active => More(List, m, {r \in Wanted : KindOf[r] = s}, {s}, active)
  /\ s \notin active => m = List

LEMMA SectionInsertedIs ==
  ASSUME ListInv, Alive, NEW s \in Section, SectionInserted(s)
  PROVE  \E m : Becomes(m) /\ SectionComes(s, m)
<1> DEFINE d == SectionData(s, Fetched(s))
<1>1. Firm(List) /\ List.all = all
  BY AliveIsTight, ListIs DEF Tight
<1>2. s \notin Sections(all)
  BY DEF SectionInserted, ListInv, ListOK
<1>3. /\ d \in SectionDatum /\ d.section = s /\ d.isActive = (s \in active)
      /\ d.isSearched /\ Distinct(d) /\ OfKind(d)
      /\ \A r \in Row : HasRow(d, r) <=> r \in Wanted /\ KindOf[r] = s
  BY SectionDataIs DEF ListInv, StoreOK
<1>4. Becomes(IF s \in active THEN appendSectionData(List, d) ELSE List)
  BY DEF SectionInserted
<1> HIDE DEF d
<1>5. {r \in Row : HasRow(d, r)} = {r \in Wanted : KindOf[r] = s}
  BY <1>3 DEF Wanted, ListInv, StoreOK
<1>6. CASE s \in active
  <2>1. More(List, appendSectionData(List, d), {r \in Row : HasRow(d, r)}, {d.section}, active)
    BY <1>1, <1>2, <1>3, AppendSectionIs
  <2>2. More(List, appendSectionData(List, d), {r \in Wanted : KindOf[r] = s}, {s}, active)
    BY <1>3, <1>5, <2>1
  <2> QED BY <1>4, <1>6, <2>2 DEF SectionComes
<1>7. CASE s \notin active
  BY <1>4, <1>7 DEF SectionComes
<1> QED BY <1>6, <1>7

LEMMA SectionToggledIs ==
  ASSUME ListInv, Alive, NEW s \in Section, SectionToggled(s)
  PROVE  \E m : Becomes(m) /\ m = Toggle(List, s) /\ Toggles(List, m, active')
<1>1. Slack(List, active')
  BY AliveIsTight, TightIsSlack
<1>2. Toggles(List, Toggle(List, s), active')
  BY <1>1, ToggleIs
<1> QED BY <1>2 DEF SectionToggled

LEMMA ListChangedIs ==
  ASSUME ListInv, Alive, ListChanged
  PROVE  \E m : Becomes(m) /\ Rearranged(List, m, active')
<1> DEFINE n == Len(order)
           changed == {i \in DOMAIN order :
                         Moved(i) \/ (order[i] \in active) # (order[i] \in active')}
<1>1. Slack(List, active')
  BY AliveIsTight, TightIsSlack
<1>2. PICK events \in SetToSeqs(changed) : Becomes(FoldLeft(Change, List, events))
  BY DEF ListChanged
<1>3. n \in Nat /\ DOMAIN order = 1 .. n
  BY DEF ListInv, StoreOK, IsOrder
<1>4. changed \in SUBSET (1 .. n)
  BY <1>3
<1> HIDE DEF changed, n
<1>5. events \in Seq(Nat \ {0})
  BY <1>2, <1>3, <1>4, EventsAre
<1>6. Rearranged(List, Changed(List, events), active')
  BY <1>1, <1>5, ChangedIs
<1> QED BY <1>2, <1>6 DEF Changed

LEMMA ScopesIs ==
  ASSUME ListInv, Alive, ScopeChosen(scope') \/ AllScopesChosen
  PROVE  \E m : Becomes(m) /\ Scoped(List, m) /\ Rescoped(List, m, scope')
<1>1. Becomes(changeSearchedSection(List, scope'))
  BY DEF ScopeChosen, AllScopesChosen
<1>2. ASSUME NEW s PROVE Scoped(List, changeSearchedSection(List, s))
                         /\ Rescoped(List, changeSearchedSection(List, s), s)
  BY AliveIsTight, ChangeScopeIs
<1> QED BY <1>1, <1>2

\* All of the list is brought up to date with what is fetched for the text.
LEMMA SearchedForIs ==
  ASSUME ListInv, UNCHANGED <<instance, store, present, order, active>>,
         NEW l, Tight(l), Sections(l.all) \subseteq present, NEW t, SearchedFor(l, t)
  PROVE  \E m : Becomes(m) /\ Renewed(l, m, Wanted')
<1>1. StoreOK'
  BY StoreNext DEF ListInv, StoreOK
<1>2. IsFetchedOf(SectionsNow', Wanted')
  BY <1>1, FetchedNext
<1>3. Renewed(l, Update(l, SectionsNow'), Wanted')
  BY <1>2, RenewedIs
<1> QED BY <1>3 DEF SearchedFor

LEMMA SectionsAreThere ==
  ASSUME ListInv
  PROVE  Sections(List.all) \subseteq present /\ RowsOf(List.all) \subseteq Wanted
BY ListIs DEF ListInv, ListOK

LEMMA TextTypedIs ==
  ASSUME ListInv, Alive, UNCHANGED instance, NEW t, TextTyped(t)
  PROVE  \E m : Becomes(m) /\ Renewed(List, m, Wanted')
<1>1. SearchedFor(List, t) /\ UNCHANGED <<instance, store, present, order, active>>
  BY DEF TextTyped
<1> QED BY <1>1, AliveIsTight, SectionsAreThere, SearchedForIs

LEMMA SearchCancelledIs ==
  ASSUME ListInv, Alive, UNCHANGED instance, SearchCancelled
  PROVE  \E l, m : /\ Becomes(m) /\ Scoped(List, l)
                   /\ (scope = None /\ l = List) \/ (scope # None /\ Rescoped(List, l, None))
                   /\ \/ text' = text /\ m = l
                      \/ Renewed(l, m, Wanted')
<1> DEFINE l == IF scope = None THEN List ELSE changeSearchedSection(List, None)
<1>1. UNCHANGED <<instance, store, present, order, active>>
  BY DEF SearchCancelled
<1>2. Tight(List)
  BY AliveIsTight
<1>3. Scoped(List, l) /\ ((scope = None /\ l = List) \/ (scope # None /\ Rescoped(List, l, None)))
  BY <1>2, ScopedNothing, ChangeScopeIs
<1>4. IF text = "nil" THEN Becomes(l) /\ UNCHANGED text ELSE SearchedFor(l, "")
  BY DEF SearchCancelled
<1> HIDE DEF l
<1>5. Tight(l) /\ Sections(l.all) \subseteq present
  <2>1. Sections(l.all) = Sections(List.all)
    BY <1>3, SameRowsHas DEF Scoped, SameData
  <2> QED BY <1>3, <2>1, SectionsAreThere DEF Scoped
<1>6. CASE text = "nil"
  BY <1>3, <1>4, <1>6
<1>7. CASE text # "nil"
  <2>1. \E m : Becomes(m) /\ Renewed(l, m, Wanted')
    BY <1>1, <1>4, <1>5, <1>7, SearchedForIs
  <2> QED BY <1>3, <2>1
<1> QED BY <1>6, <1>7

LEMMA RefreshedIs ==
  ASSUME ListInv, Alive, Refreshed
  PROVE  \E m : Becomes(m) /\ Renewed(List, m, Wanted)
<1>1. PICK cleared \in BOOLEAN :
        Becomes(Update(IF cleared THEN Update(List, <<>>) ELSE List, SectionsNow))
  BY DEF Refreshed
<1>2. Tight(List) /\ Sections(List.all) \subseteq present
  BY AliveIsTight, SectionsAreThere
<1>3. IsFetchedOf(SectionsNow, Wanted)
  BY FetchedNow DEF ListInv
<1> DEFINE c == Update(List, <<>>)
<1>4. CASE cleared
  <2>1. Cleared(List, c) /\ Becomes(Update(c, SectionsNow))
    BY <1>1, <1>2, <1>4, ClearedIs
  <2> HIDE DEF c
  <2>2. Tight(c) /\ Sections(c.all) \subseteq present
    BY <1>2, <2>1 DEF Cleared
  <2> DEFINE m == Update(c, SectionsNow)
  <2>3. Renewed(c, m, Wanted)
    BY <1>3, <2>2, RenewedIs
  <2> HIDE DEF m
  <2>4. Renewed(List, m, Wanted)
    BY <2>1, <2>3, KeepsStill DEF Renewed, Cleared
  <2> QED BY <2>1, <2>4 DEF m
<1>5. CASE ~cleared
  <2>1. Becomes(Update(List, SectionsNow))
    BY <1>1, <1>5
  <2>2. Renewed(List, Update(List, SectionsNow), Wanted)
    BY <1>2, <1>3, RenewedIs
  <2> QED BY <2>1, <2>2
<1> QED BY <1>4, <1>5

LEMMA BackgroundClearsIs ==
  ASSUME ListInv, Alive, BackgroundClears
  PROVE  \E m : Becomes(m) /\ Cleared(List, m)
<1>1. Becomes(Update(List, <<>>))
  BY DEF BackgroundClears
<1> QED BY <1>1, AliveIsTight, ClearedIs

-----------------------------------------------------------------------------
(* The invariant.                                                          *)

\* The first list is the empty one brought up to date.
LEMMA StartIs ==
  ASSUME Init
  PROVE  /\ ListInv
         /\ \E l : /\ l.all = <<>> /\ l.view = <<>>
                  /\ Renewed(l, List, Wanted)
<1> DEFINE none == [all |-> <<>>, view |-> <<>>, snap |-> <<>>, trapped |-> FALSE, updating |-> FALSE]
           start == Update(none, SectionsNow)
<1>1. /\ instance \in Instances /\ store \subseteq Row /\ active \subseteq Section
      /\ \/ present = {} /\ order \in SetToSeqs(Section)
         \/ present = Section /\ order = instance.sections
      /\ scope = None /\ text = "nil" /\ clearing = FALSE /\ changes = 0
      /\ all = start.all /\ view = start.view /\ snap = start.snap
      /\ trapped = start.trapped /\ updating = start.updating
  BY DEF Init
<1>2. StoreOK
  <2>1. IsOrder(order)
    BY <1>1, FirstOrder, OrdersAre
  <2> QED BY <1>1, <2>1 DEF StoreOK
<1>3. ControlOK
  <2>1. instance.changes \in Nat
    BY <1>1, ListTableAssumption
  <2>2. 0 \in 0 .. instance.changes
    BY <2>1
  <2>3. scope = None /\ text = "nil" /\ clearing = FALSE /\ changes = 0
    BY <1>1
  <2> QED BY <2>2, <2>3 DEF ControlOK
<1>4. Tight(none) /\ Sections(none.all) \subseteq present
  <2>1. none \in Lists /\ none.all = <<>> /\ none.view = <<>> /\ none.snap = <<>>
    BY DEF Lists
  <2> HIDE DEF none
  <2>2. <<>> \in Seq(SectionDatum) /\ Keyed(<<>>) /\ RowsOnce(<<>>) /\ OneKind(<<>>)
    BY DEF Keyed, RowsOnce, OneKind
  <2>3. RowsOf(<<>>) = {} /\ Sections(<<>>) = {}
    BY DEF RowsOf, Sections
  <2>4. ShownIn(<<>>) = <<>>
    <3>1. ShownIn(<<>>) \in Seq(Cell) /\ Len(ShownIn(<<>>)) = Len(<<>>)
      BY <2>2, ShownInIs
    <3> HIDE DEF ShownIn
    <3> QED BY <3>1
  <2>5. Fits(<<>>, <<>>)
    BY <2>2, <2>3 DEF Fits
  <2> QED BY <2>1, <2>2, <2>3, <2>4, <2>5 DEF Tight, Firm
<1>5. IsFetchedOf(SectionsNow, Wanted)
  BY <1>2, FetchedNow
<1>10. none.all = <<>> /\ none.view = <<>>
  OBVIOUS
<1> HIDE DEF none
<1>6. Renewed(none, start, Wanted)
  BY <1>4, <1>5, RenewedIs
<1> HIDE DEF start
<1>7. start \in Lists /\ Loose(start)
  BY <1>6, FirmIsLoose DEF Renewed, Firm
<1>8. List = start
  BY <1>1, <1>7 DEF List, Lists
<1>9. ListOK
  BY <1>1, <1>6, <1>7, <1>8 DEF ListOK, Renewed
<1> QED BY <1>2, <1>3, <1>6, <1>8, <1>9, <1>10 DEF ListInv

LEMMA ListInvInit ==
  Init => ListInv
BY StartIs

LEMMA OneMore ==
  ASSUME ListInv, OneMoreChange
  PROVE  changes' \in 0 .. instance.changes
<1>1. instance.changes \in Nat /\ changes \in 0 .. instance.changes
  BY ListTableAssumption DEF ListInv, StoreOK, ControlOK
<1> QED BY <1>1 DEF OneMoreChange

LEMMA SameStore ==
  ASSUME ListInv, UNCHANGED <<instance, store, present, order, active>>
  PROVE  StoreOK'
BY StoreNext DEF ListInv, StoreOK

LEMMA ControlNext ==
  ASSUME ListInv, UNCHANGED instance, clearing' \in BOOLEAN, changes' \in 0 .. instance.changes,
         scope' \in Section \cup {None}, text' \in {"nil", "", "text"}
  PROVE  ControlOK'
BY SameInstance DEF ControlOK

LEMMA SameControl ==
  ASSUME ListInv, UNCHANGED instance
  PROVE  /\ UNCHANGED clearing => clearing' \in BOOLEAN
         /\ UNCHANGED changes => changes' \in 0 .. instance.changes
         /\ UNCHANGED scope => scope' \in Section \cup {None}
         /\ UNCHANGED text => text' \in {"nil", "", "text"}
BY DEF ListInv, ControlOK

LEMMA ListLoose ==
  ASSUME ListInv
  PROVE  Loose(List)
BY DEF ListInv, ListOK

LEMMA TightIsLoose ==
  ASSUME NEW l, Tight(l)
  PROVE  Loose(l)
BY FirmIsLoose DEF Tight

LEMMA SameWanted ==
  ASSUME UNCHANGED <<instance, text>>
  PROVE  /\ Wanted' = {r \in store' : Found(r)}
         /\ UNCHANGED store => Wanted' = Wanted
BY DEF Wanted, Found

LEMMA InvRecordInserted ==
  ASSUME ListInv, Alive, UNCHANGED instance, NEW r \in Row, RecordInserted(r)
  PROVE  ListInv'
<1>1. PICK m : Becomes(m) /\ RecordComes(r, m)
  BY RecordInsertedIs
<1>2. /\ store' = store \cup {r} /\ OneMoreChange
      /\ UNCHANGED <<present, order, active, scope, text, clearing>>
  BY DEF RecordInserted
<1>3. StoreOK'
  BY <1>2, StoreNext DEF ListInv, StoreOK
<1>4. ControlOK'
  BY <1>2, OneMore, SameControl, ControlNext
<1>5. Wanted' = {q \in store' : Found(q)}
  BY <1>2, SameWanted
<1>6. Loose(m) /\ RowsOf(m.all) \subseteq Wanted' /\ Sections(m.all) \subseteq present'
  <2>1. RowsOf(List.all) \subseteq Wanted' /\ Sections(List.all) \subseteq present'
    BY <1>2, <1>5, SectionsAreThere DEF Wanted
  <2>2. CASE Found(r) /\ KindOf[r] \in Sections(all)
    <3>1. More(List, m, {r}, {KindOf[r]}, active)
      BY <1>1, <2>2 DEF RecordComes
    <3>2. KindOf[r] \in Sections(List.all) /\ r \in Wanted'
      BY <1>2, <1>5, <2>2, ListIs
    <3> QED BY <2>1, <3>1, <3>2, FirmIsLoose DEF More
  <2>3. CASE ~(Found(r) /\ KindOf[r] \in Sections(all))
    BY <1>1, <2>1, <2>3, ListLoose DEF RecordComes
  <2> QED BY <2>2, <2>3
<1> QED BY <1>1, <1>3, <1>4, <1>6, ListInvNext

LEMMA InvRecordDeleted ==
  ASSUME ListInv, Alive, UNCHANGED instance, NEW r \in Row, RecordDeleted(r)
  PROVE  ListInv'
<1>1. PICK m : Becomes(m) /\ RecordGoes(r, m)
  BY RecordDeletedIs
<1>2. /\ store' = store \ {r} /\ OneMoreChange
      /\ UNCHANGED <<present, order, active, scope, text, clearing>>
  BY DEF RecordDeleted
<1>3. StoreOK'
  BY <1>2, StoreNext DEF ListInv, StoreOK
<1>4. ControlOK'
  BY <1>2, OneMore, SameControl, ControlNext
<1>5. Wanted' = {q \in store' : Found(q)}
  BY <1>2, SameWanted
<1>6. Loose(m) /\ RowsOf(m.all) \subseteq Wanted' /\ Sections(m.all) \subseteq present'
  <2>1. /\ RowsOf(List.all) \subseteq Wanted /\ Sections(List.all) \subseteq present'
        /\ RowsOf(List.all) \ {r} \subseteq Wanted'
    BY <1>2, <1>5, SectionsAreThere DEF Wanted
  <2>2. CASE Found(r)
    <3>1. Less(List, m, {r}, {KindOf[r]})
      BY <1>1, <2>2 DEF RecordGoes
    <3> QED BY <2>1, <3>1, TightIsLoose DEF Less
  <2>3. CASE ~Found(r)
    <3>1. m = List
      BY <1>1, <2>3 DEF RecordGoes
    <3>2. r \notin RowsOf(List.all)
      BY <2>1, <2>3 DEF Wanted
    <3> QED BY <2>1, <3>1, <3>2, ListLoose
  <2> QED BY <2>2, <2>3
<1> QED BY <1>1, <1>3, <1>4, <1>6, ListInvNext

LEMMA InvSectionInserted ==
  ASSUME ListInv, Alive, UNCHANGED instance, NEW s \in Section, SectionInserted(s)
  PROVE  ListInv'
<1>1. PICK m : Becomes(m) /\ SectionComes(s, m)
  BY SectionInsertedIs
<1>2. /\ present' = present \cup {s}
      /\ UNCHANGED <<store, order, active, scope, text, clearing, changes>>
  BY DEF SectionInserted
<1>3. StoreOK'
  BY <1>2, StoreNext DEF ListInv, StoreOK
<1>4. ControlOK'
  BY <1>2, SameControl, ControlNext
<1>5. Wanted' = Wanted
  BY <1>2, SameWanted
<1>6. Loose(m) /\ RowsOf(m.all) \subseteq Wanted' /\ Sections(m.all) \subseteq present'
  <2>1. RowsOf(List.all) \subseteq Wanted /\ Sections(List.all) \subseteq present
    BY SectionsAreThere
  <2>2. CASE s \in active
    <3>1. More(List, m, {r \in Wanted : KindOf[r] = s}, {s}, active)
      BY <1>1, <2>2 DEF SectionComes
    <3> QED BY <1>2, <1>5, <2>1, <3>1, FirmIsLoose DEF More
  <2>3. CASE s \notin active
    BY <1>1, <1>2, <1>5, <2>1, <2>3, ListLoose DEF SectionComes
  <2> QED BY <2>2, <2>3
<1> QED BY <1>1, <1>3, <1>4, <1>6, ListInvNext

LEMMA InvSectionToggled ==
  ASSUME ListInv, Alive, UNCHANGED instance, NEW s \in Section, SectionToggled(s)
  PROVE  ListInv'
<1>1. PICK m : Becomes(m) /\ Toggles(List, m, active')
  BY SectionToggledIs
<1>2. /\ Toggled(s) /\ OneMoreChange
      /\ UNCHANGED <<store, present, order, scope, text, clearing>>
  BY DEF SectionToggled
<1>3. StoreOK'
  BY <1>2, StoreNext DEF ListInv, StoreOK, Toggled
<1>4. ControlOK'
  BY <1>2, OneMore, SameControl, ControlNext
<1>5. Wanted' = Wanted
  BY <1>2, SameWanted
<1>6. Loose(m) /\ RowsOf(m.all) = RowsOf(List.all) /\ Sections(m.all) = Sections(List.all)
  BY <1>1, SameRowsHas DEF Toggles, Slack
<1>7. RowsOf(m.all) \subseteq Wanted' /\ Sections(m.all) \subseteq present'
  BY <1>2, <1>5, <1>6, SectionsAreThere
<1> QED BY <1>1, <1>3, <1>4, <1>6, <1>7, ListInvNext

LEMMA InvReordered ==
  ASSUME ListInv, Alive, UNCHANGED instance, NEW i \in DOMAIN order, NEW j \in DOMAIN order,
         Reordered(i, j), active' \subseteq Section, ListChanged
  PROVE  ListInv'
<1>1. PICK m : Becomes(m) /\ Rearranged(List, m, active')
  BY ListChangedIs
<1>2. /\ order' = InsertAt(RemoveAt(order, i), j, order[i]) /\ OneMoreChange
      /\ UNCHANGED <<store, present, scope, text, clearing>>
  BY DEF Reordered
<1>3. IsOrder(order')
  <2>1. IsOrder(order)
    BY DEF ListInv, StoreOK
  <2>2. IsOrder(InsertAt(RemoveAt(order, i), j, order[i]))
    BY <2>1, ReorderIs
  <2> QED BY <1>2, <2>2
<1>4. StoreOK'
  BY <1>2, <1>3, StoreNext DEF ListInv, StoreOK
<1>5. ControlOK'
  BY <1>2, OneMore, SameControl, ControlNext
<1>6. Wanted' = Wanted
  BY <1>2, SameWanted
<1>7. Loose(m) /\ RowsOf(m.all) \subseteq Wanted' /\ Sections(m.all) \subseteq present'
  BY <1>1, <1>2, <1>6, SectionsAreThere DEF Rearranged, Slack
<1> QED BY <1>1, <1>4, <1>5, <1>7, ListInvNext

LEMMA ScopedIsLoose ==
  ASSUME ListInv, NEW m, Scoped(List, m)
  PROVE  Loose(m) /\ RowsOf(m.all) \subseteq Wanted /\ Sections(m.all) \subseteq present
<1>1. RowsOf(m.all) = RowsOf(List.all) /\ Sections(m.all) = Sections(List.all)
  BY SameRowsHas DEF Scoped, SameData
<1> QED BY <1>1, SectionsAreThere, TightIsLoose DEF Scoped

LEMMA RenewedIsLoose ==
  ASSUME NEW l, NEW m, NEW W, Renewed(l, m, W)
  PROVE  Loose(m) /\ RowsOf(m.all) \subseteq W /\ Sections(m.all) \subseteq present
BY FirmIsLoose DEF Renewed

LEMMA InvScopes ==
  ASSUME ListInv, Alive, UNCHANGED instance, scope' \in Section \cup {None},
         ScopeChosen(scope') \/ AllScopesChosen
  PROVE  ListInv'
<1>1. PICK m : Becomes(m) /\ Scoped(List, m)
  BY ScopesIs
<1>2. UNCHANGED <<store, present, order, active, text, clearing, changes>>
  BY DEF ScopeChosen, AllScopesChosen
<1>3. StoreOK'
  BY <1>2, SameStore
<1>4. ControlOK'
  BY <1>2, SameControl, ControlNext
<1>5. Wanted' = Wanted
  BY <1>2, SameWanted
<1>6. Loose(m) /\ RowsOf(m.all) \subseteq Wanted' /\ Sections(m.all) \subseteq present'
  BY <1>1, <1>2, <1>5, ScopedIsLoose
<1> QED BY <1>1, <1>3, <1>4, <1>6, ListInvNext

LEMMA InvTextTyped ==
  ASSUME ListInv, Alive, UNCHANGED instance, NEW t \in instance.texts, TextTyped(t)
  PROVE  ListInv'
<1>1. PICK m : Becomes(m) /\ Renewed(List, m, Wanted')
  BY TextTypedIs
<1>2. text' = t /\ UNCHANGED <<store, present, order, active, scope, clearing, changes>>
  BY DEF TextTyped, SearchedFor
<1>3. StoreOK'
  BY <1>2, SameStore
<1>4. ControlOK'
  <2>1. t \in {"", "text"}
    BY ListTableAssumption DEF ListInv, StoreOK
  <2> QED BY <1>2, <2>1, SameControl, ControlNext
<1>5. Loose(m) /\ RowsOf(m.all) \subseteq Wanted' /\ Sections(m.all) \subseteq present'
  BY <1>1, <1>2, RenewedIsLoose
<1> QED BY <1>1, <1>3, <1>4, <1>5, ListInvNext

LEMMA InvSearchCancelled ==
  ASSUME ListInv, Alive, UNCHANGED instance, SearchCancelled
  PROVE  ListInv'
<1>1. PICK l, m : /\ Becomes(m) /\ Scoped(List, l)
                  /\ \/ text' = text /\ m = l
                     \/ Renewed(l, m, Wanted')
  BY SearchCancelledIs
<1>2. scope' = None /\ UNCHANGED <<store, present, order, active, clearing, changes>>
  BY DEF SearchCancelled
<1>3. StoreOK'
  BY <1>2, SameStore
<1>4. ControlOK'
  <2>1. text' \in {"nil", "", "text"}
    BY SameControl DEF SearchCancelled, SearchedFor
  <2> QED BY <1>2, <2>1, SameControl, ControlNext
<1>5. Loose(m) /\ RowsOf(m.all) \subseteq Wanted' /\ Sections(m.all) \subseteq present'
  <2>1. CASE text' = text /\ m = l
    <3>1. Wanted' = Wanted
      BY <1>2, <2>1, SameWanted
    <3> QED BY <1>1, <1>2, <2>1, <3>1, ScopedIsLoose
  <2>2. CASE Renewed(l, m, Wanted')
    BY <1>2, <2>2, RenewedIsLoose
  <2> QED BY <1>1, <2>1, <2>2
<1> QED BY <1>1, <1>3, <1>4, <1>5, ListInvNext

LEMMA InvRefreshed ==
  ASSUME ListInv, Alive, UNCHANGED instance, Refreshed
  PROVE  ListInv'
<1>1. PICK m : Becomes(m) /\ Renewed(List, m, Wanted)
  BY RefreshedIs
<1>2. /\ clearing' \in BOOLEAN /\ OneMoreChange
      /\ UNCHANGED <<store, present, order, active, scope, text>>
  BY DEF Refreshed
<1>3. StoreOK'
  BY <1>2, SameStore
<1>4. ControlOK'
  BY <1>2, OneMore, SameControl, ControlNext
<1>5. Wanted' = Wanted
  BY <1>2, SameWanted
<1>6. Loose(m) /\ RowsOf(m.all) \subseteq Wanted' /\ Sections(m.all) \subseteq present'
  BY <1>1, <1>2, <1>5, RenewedIsLoose
<1> QED BY <1>1, <1>3, <1>4, <1>6, ListInvNext

LEMMA InvBackgroundClears ==
  ASSUME ListInv, Alive, UNCHANGED instance, BackgroundClears
  PROVE  ListInv'
<1>1. PICK m : Becomes(m) /\ Cleared(List, m)
  BY BackgroundClearsIs
<1>2. clearing' = FALSE /\ UNCHANGED <<store, present, order, active, scope, text, changes>>
  BY DEF BackgroundClears
<1>3. StoreOK'
  BY <1>2, SameStore
<1>4. ControlOK'
  BY <1>2, SameControl, ControlNext
<1>5. Wanted' = Wanted
  BY <1>2, SameWanted
<1>6. Loose(m) /\ RowsOf(m.all) \subseteq Wanted' /\ Sections(m.all) \subseteq present'
  BY <1>1, <1>2, <1>5, SectionsAreThere, TightIsLoose DEF Cleared
<1> QED BY <1>1, <1>3, <1>4, <1>6, ListInvNext

LEMMA ListInvStep ==
  ListInv /\ [Next]_vars => ListInv'
<1> SUFFICES ASSUME ListInv, [Next]_vars PROVE ListInv'
  OBVIOUS
<1>1. CASE Next
  <2>1. Alive /\ UNCHANGED instance
    BY <1>1 DEF Next
  <2>2. ASSUME NEW r \in Row, RecordInserted(r) \/ RecordDeleted(r) PROVE ListInv'
    BY <2>1, <2>2, InvRecordInserted, InvRecordDeleted
  <2>3. ASSUME NEW s \in Section, SectionInserted(s) \/ SectionToggled(s) PROVE ListInv'
    BY <2>1, <2>3, InvSectionInserted, InvSectionToggled
  <2>4. ASSUME NEW i \in DOMAIN order, NEW j \in DOMAIN order, SectionMoved(i, j) PROVE ListInv'
    <3>1. Reordered(i, j) /\ active' \subseteq Section /\ ListChanged
      BY <2>4 DEF SectionMoved, ListInv, StoreOK
    <3> QED BY <2>1, <3>1, InvReordered
  <2>5. ASSUME NEW i \in DOMAIN order, NEW j \in DOMAIN order, NEW s \in Section, ListReceived(i, j, s)
        PROVE  ListInv'
    <3>1. Reordered(i, j) /\ active' \subseteq Section /\ ListChanged
      BY <2>5 DEF ListReceived, Toggled, ListInv, StoreOK
    <3> QED BY <2>1, <3>1, InvReordered
  <2>6. ASSUME NEW s \in searchedSections, ScopeChosen(s) PROVE ListInv'
    <3>1. s \in Section
      <4>1. all \in Seq(SectionDatum)
        BY LooseIs DEF ListInv, ListOK, Fits
      <4>2. PICK sd \in Range(all) : sd.section = s
        BY DEF searchedSections
      <4>3. sd \in SectionDatum
        BY <4>1, RangeIs
      <4> QED BY <4>2, <4>3 DEF SectionDatum
    <3>2. scope' = s
      BY <2>6 DEF ScopeChosen
    <3> QED BY <2>1, <2>6, <3>1, <3>2, InvScopes
  <2>7. CASE AllScopesChosen
    <3>1. scope' = None
      BY <2>7 DEF AllScopesChosen
    <3> QED BY <2>1, <2>7, <3>1, InvScopes
  <2>8. ASSUME NEW t \in instance.texts, TextTyped(t) PROVE ListInv'
    BY <2>1, <2>8, InvTextTyped
  <2>9. CASE SearchCancelled
    BY <2>1, <2>9, InvSearchCancelled
  <2>10. CASE Refreshed
    BY <2>1, <2>10, InvRefreshed
  <2>11. CASE BackgroundClears
    BY <2>1, <2>11, InvBackgroundClears
  <2> QED BY <1>1, <2>2, <2>3, <2>4, <2>5, <2>6, <2>7, <2>8, <2>9, <2>10, <2>11 DEF Next
<1>2. CASE UNCHANGED vars
  <2>1. UNCHANGED <<instance, store, present, order, active, scope, text, clearing, changes,
                    all, view, snap, trapped, updating>>
    BY <1>2 DEF vars, list
  <2>2. StoreOK'
    BY <2>1, SameStore
  <2>3. ControlOK'
    BY <2>1, SameControl, ControlNext
  <2>4. Becomes(List)
    BY <2>1, ListIs DEF Becomes
  <2>5. Wanted' = Wanted
    BY <2>1, SameWanted
  <2> QED BY <2>1, <2>2, <2>3, <2>4, <2>5, ListLoose, SectionsAreThere, ListInvNext
<1> QED BY <1>1, <1>2

\* What the proofs of all the properties of the lists rest on: the view model's
\* lists hold what the records of the store are, each once, whatever the table
\* shows of them (FavouriteViewModel, IViewModelDinamicUpdating).
THEOREM ListInvariant == Spec => []ListInv
BY ListInvInit, ListInvStep, PTL DEF Spec

-----------------------------------------------------------------------------
(* What is on show.                                                        *)

LEMMA PlacesAre ==
  ASSUME NEW src, RowsOnce(src), NEW r \in Row
  PROVE  /\ r \notin RowsOf(src) => Cardinality(Places(src, r)) = 0
         /\ r \in RowsOf(src) => Cardinality(Places(src, r)) = 1
<1> DEFINE P == Places(src, r)
<1>1. \A p : p \in P <=> \E i \in DOMAIN src : \E k \in DOMAIN src[i].rows : src[i].rows[k] = r /\ p = <<i, k>>
  BY DEF Places
<1>2. ASSUME r \notin RowsOf(src) PROVE Cardinality(P) = 0
  <2>1. P = {}
    BY <1>1, <1>2 DEF RowsOf, HasRow
  <2> QED BY <2>1, FS_EmptySet
<1>3. ASSUME r \in RowsOf(src) PROVE Cardinality(P) = 1
  <2>1. PICK i \in DOMAIN src : \E k \in DOMAIN src[i].rows : src[i].rows[k] = r
    BY <1>3 DEF RowsOf, HasRow
  <2>2. PICK k \in DOMAIN src[i].rows : src[i].rows[k] = r
    BY <2>1
  <2>3. <<i, k>> \in P
    BY <1>1, <2>2
  <2>4. ASSUME NEW p \in P PROVE p = <<i, k>>
    <3>1. PICK j \in DOMAIN src : \E h \in DOMAIN src[j].rows : src[j].rows[h] = r /\ p = <<j, h>>
      BY <1>1
    <3>2. PICK h \in DOMAIN src[j].rows : src[j].rows[h] = r /\ p = <<j, h>>
      BY <3>1
    <3>3. j = i /\ h = k
      BY <2>2, <3>2 DEF RowsOnce
    <3> QED BY <3>2, <3>3
  <2> HIDE DEF P
  <2>5. P = {<<i, k>>}
    BY <2>3, <2>4
  <2> QED BY <2>5, FS_Singleton
<1> QED BY <1>2, <1>3

LEMMA InvNothingDeleted ==
  ListInv => NothingDeletedIsShown
<1> SUFFICES ASSUME ListInv, NEW r \in Row, NEW src \in {view, snap}
             PROVE  Cardinality(Places(src, r)) <= IF r \in store THEN 1 ELSE 0
  BY DEF NothingDeletedIsShown
<1>1. RowsOnce(src) /\ RowsOf(src) \subseteq store
  BY LooseIs DEF ListInv, ListOK, Fits, Wanted
<1>2. CASE r \in store
  <2>1. Cardinality(Places(src, r)) \in {0, 1}
    BY <1>1, PlacesAre
  <2> QED BY <1>2, <2>1
<1>3. CASE r \notin store
  <2>1. Cardinality(Places(src, r)) = 0
    BY <1>1, <1>3, PlacesAre
  <2> QED BY <1>3, <2>1
<1> QED BY <1>2, <1>3

LEMMA InvTypeOK ==
  ListInv => TypeOK
<1> SUFFICES ASSUME ListInv PROVE TypeOK
  OBVIOUS
<1>1. StoreOK /\ ControlOK /\ List \in Lists /\ List.all = all /\ List.view = view
  BY LooseIs, ListIs DEF ListInv, ListOK
<1>2. /\ all \in Seq(SectionDatum) /\ view \in Seq(SectionDatum) /\ snap \in Seq(Cell)
      /\ trapped \in BOOLEAN /\ updating \in BOOLEAN
  BY <1>1, ListIs DEF Lists
<1>3. ShownIn(all) \in Seq(Cell) /\ ShownIn(view) \in Seq(Cell)
  BY <1>2, ShownInIs
<1>4. order \in SetToSeqs(Section)
  BY <1>1, OrdersAre DEF StoreOK
<1> QED BY <1>1, <1>2, <1>3, <1>4 DEF TypeOK, StoreOK, ControlOK, Cell

\* The lists are of sections and records; no record is on show twice, and none
\* that the view context no longer has (removeRow, appendRow, update(by:)).
THEOREM ListsStayWhole == Spec => []ListsAreWhole
<1>1. ListInv => ListsAreWhole
  BY InvNothingDeleted, InvTypeOK DEF ListsAreWhole
<1> QED BY <1>1, ListInvariant, PTL

-----------------------------------------------------------------------------
(* No record is lost.                                                      *)

LEMMA AsManyAs ==
  ASSUME NEW q \in Seq(Row), \A j, k \in DOMAIN q : q[j] = q[k] => j = k
  PROVE  Len(q) = Cardinality(Range(q))
<1>1. Len(q) \in Nat /\ DOMAIN q = 1 .. Len(q) /\ q = [k \in 1 .. Len(q) |-> q[k]]
  OBVIOUS
<1>2. q \in [1 .. Len(q) -> Range(q)]
  BY <1>1 DEF Range
<1>3. q \in Bijection(1 .. Len(q), Range(q))
  BY <1>1, <1>2 DEF Bijection, Injection, Surjection, IsInjective, Range
<1>4. ExistsBijection(1 .. Len(q), Range(q))
  BY <1>3 DEF ExistsBijection
<1> QED BY <1>1, <1>4, FS_CountingElements

\* The rows of the sections there are, of the records W.
HasAllOf(a, W) == \A r \in W : KindOf[r] \in Sections(a) => r \in RowsOf(a)

LEMMA HaveRecordsIs ==
  ListInv => (SectionsHaveTheirRecords <=> HasAllOf(all, Wanted))
<1> SUFFICES ASSUME ListInv PROVE SectionsHaveTheirRecords <=> HasAllOf(all, Wanted)
  OBVIOUS
<1>1. /\ all \in Seq(SectionDatum) /\ Keyed(all) /\ RowsOnce(all) /\ OneKind(all)
      /\ RowsOf(all) \subseteq Wanted /\ store \subseteq Row
  BY LooseIs DEF ListInv, ListOK, StoreOK, Fits
<1>2. ASSUME NEW i \in DOMAIN all
      PROVE  /\ \A r : r \in Range(all[i].rows) <=> HasRow(all[i], r)
             /\ all[i].rows \in Seq(Row)
             /\ IndexOf(all, all[i].section) = i
             /\ Len(all[i].rows) = Cardinality(Range(all[i].rows))
  <2>1. all[i].rows \in Seq(Row)
    BY <1>1, RowIsIn
  <2>2. Distinct(all[i])
    BY <1>1, DistinctRows
  <2>3. Len(all[i].rows) = Cardinality(Range(all[i].rows))
    BY <2>1, <2>2, AsManyAs DEF Distinct
  <2>4. IndexOf(all, all[i].section) = i
    BY <1>1, IndexIs
  <2> QED BY <2>1, <2>3, <2>4 DEF Range, HasRow
<1>3. ASSUME SectionsHaveTheirRecords, NEW r \in Wanted, KindOf[r] \in Sections(all)
      PROVE  r \in RowsOf(all)
  <2>1. PICK i \in DOMAIN all : all[i].section = KindOf[r]
    BY <1>3 DEF Sections
  <2>2. r \in Range(all[i].rows)
    BY <1>3, <2>1 DEF SectionsHaveTheirRecords, Wanted
  <2> QED BY <1>1, <1>2, <2>2 DEF RowsOf, Wanted
<1>4. ASSUME HasAllOf(all, Wanted), NEW i \in DOMAIN all
      PROVE  Range(all[i].rows) = {r \in store : KindOf[r] = all[i].section /\ Found(r)}
  <2>1. ASSUME NEW r \in Range(all[i].rows)
        PROVE  r \in store /\ KindOf[r] = all[i].section /\ Found(r)
    <3>1. HasRow(all[i], r)
      BY <1>2
    <3>0. r \in Row
      BY <1>2, <3>1 DEF HasRow
    <3>2. r \in Wanted
      BY <1>1, <3>0, <3>1 DEF RowsOf
    <3> QED BY <1>1, <3>2 DEF OneKind, Wanted
  <2>2. ASSUME NEW r \in store, KindOf[r] = all[i].section, Found(r)
        PROVE  r \in Range(all[i].rows)
    <3>1. r \in Wanted /\ KindOf[r] \in Sections(all)
      BY <2>2 DEF Wanted, Sections
    <3>2. r \in RowsOf(all)
      BY <1>4, <3>1 DEF HasAllOf
    <3>3. HasRow(all[i], r)
      BY <1>1, <2>2, <3>2, KindOfRow
    <3> QED BY <1>2, <3>3
  <2> QED BY <2>1, <2>2
<1> QED BY <1>2, <1>3, <1>4 DEF SectionsHaveTheirRecords, HasAllOf

\* The same of the next state's list, seen from this one.
LEMMA HaveRecordsNext ==
  ASSUME ListInv', UNCHANGED instance, NEW m, Becomes(m)
  PROVE  SectionsHaveTheirRecords' <=> HasAllOf(m.all, Wanted')
<1>1. (ListInv => (SectionsHaveTheirRecords <=> HasAllOf(all, Wanted)))'
  BY HaveRecordsIs, PTL
<1>2. Row' = Row /\ KindOf' = KindOf /\ all' = m.all
  BY SameInstance DEF Becomes
<1>3. RowsOf(all)' = RowsOf(m.all) /\ Sections(all)' = Sections(m.all)
  BY <1>2 DEF RowsOf, HasRow, Sections
<1>4. HasAllOf(all, Wanted)' <=> HasAllOf(m.all, Wanted')
  BY <1>2, <1>3 DEF HasAllOf
<1> QED BY <1>1, <1>4

\* The lists of one state and the next, as far as the records go.
LEMMA SameRecords ==
  ASSUME NEW a, NEW b, NEW W, HasAllOf(a, W), RowsOf(b) = RowsOf(a), Sections(b) = Sections(a)
  PROVE  HasAllOf(b, W)
BY DEF HasAllOf

LEMMA RecordsStep ==
  ASSUME ListInv, ListInv', Next, ~TheClearing, HasAllOf(all, Wanted)
  PROVE  \E m : Becomes(m) /\ HasAllOf(m.all, Wanted')
<1>1. Alive /\ UNCHANGED instance /\ List.all = all /\ store \subseteq Row
  BY ListIs DEF Next, ListInv, StoreOK
<1>2. ASSUME NEW r \in Row, RecordInserted(r) PROVE \E m : Becomes(m) /\ HasAllOf(m.all, Wanted')
  <2>1. PICK m : Becomes(m) /\ RecordComes(r, m)
    BY <1>1, <1>2, RecordInsertedIs
  <2>2. store' = store \cup {r} /\ UNCHANGED text
    BY <1>2 DEF RecordInserted
  <2>3. Wanted' = {q \in store' : Found(q)}
    BY <1>1, <2>2, SameWanted
  <2>4. CASE Found(r) /\ KindOf[r] \in Sections(all)
    <3>1. RowsOf(m.all) = RowsOf(all) \cup {r} /\ Sections(m.all) = Sections(all)
      BY <1>1, <2>1, <2>4 DEF RecordComes, More
    <3> QED BY <2>1, <2>2, <2>3, <3>1 DEF HasAllOf, Wanted
  <2>5. CASE ~(Found(r) /\ KindOf[r] \in Sections(all))
    <3>1. m.all = all
      BY <1>1, <2>1, <2>5 DEF RecordComes
    <3> QED BY <2>1, <2>2, <2>3, <2>5, <3>1 DEF HasAllOf, Wanted
  <2> QED BY <2>4, <2>5
<1>3. ASSUME NEW r \in Row, RecordDeleted(r) PROVE \E m : Becomes(m) /\ HasAllOf(m.all, Wanted')
  <2>1. PICK m : Becomes(m) /\ RecordGoes(r, m)
    BY <1>1, <1>3, RecordDeletedIs
  <2>2. store' = store \ {r} /\ UNCHANGED text
    BY <1>3 DEF RecordDeleted
  <2>3. Wanted' = {q \in store' : Found(q)}
    BY <1>1, <2>2, SameWanted
  <2>4. RowsOf(all) \ {r} \subseteq RowsOf(m.all) /\ Sections(m.all) \subseteq Sections(all)
    BY <1>1, <2>1 DEF RecordGoes, Less
  <2> QED BY <2>1, <2>2, <2>3, <2>4 DEF HasAllOf, Wanted
<1>4. ASSUME NEW s \in Section, SectionInserted(s) PROVE \E m : Becomes(m) /\ HasAllOf(m.all, Wanted')
  <2>1. PICK m : Becomes(m) /\ SectionComes(s, m)
    BY <1>1, <1>4, SectionInsertedIs
  <2>2. Wanted' = Wanted
    BY <1>1, <1>4, SameWanted DEF SectionInserted
  <2>3. CASE s \in active
    <3>1. /\ RowsOf(m.all) = RowsOf(all) \cup {r \in Wanted : KindOf[r] = s}
          /\ Sections(m.all) = Sections(all) \cup {s}
      BY <1>1, <2>1, <2>3 DEF SectionComes, More
    <3> QED BY <2>1, <2>2, <3>1 DEF HasAllOf
  <2>4. CASE s \notin active
    BY <1>1, <2>1, <2>2, <2>4 DEF SectionComes
  <2> QED BY <2>3, <2>4
<1>5. ASSUME NEW s \in Section, SectionToggled(s) PROVE \E m : Becomes(m) /\ HasAllOf(m.all, Wanted')
  <2>1. PICK m : Becomes(m) /\ Toggles(List, m, active')
    BY <1>1, <1>5, SectionToggledIs
  <2>2. Wanted' = Wanted
    BY <1>1, <1>5, SameWanted DEF SectionToggled
  <2>3. RowsOf(m.all) = RowsOf(all) /\ Sections(m.all) = Sections(all)
    BY <1>1, <2>1, SameRowsHas DEF Toggles
  <2> QED BY <2>1, <2>2, <2>3, SameRecords
<1>6. ASSUME NEW i \in DOMAIN order, NEW j \in DOMAIN order, Reordered(i, j), ListChanged
      PROVE  \E m : Becomes(m) /\ HasAllOf(m.all, Wanted')
  <2>1. PICK m : Becomes(m) /\ Rearranged(List, m, active')
    BY <1>1, <1>6, ListChangedIs
  <2>2. Wanted' = Wanted
    BY <1>1, <1>6, SameWanted DEF Reordered
  <2> QED BY <1>1, <2>1, <2>2, SameRecords DEF Rearranged
<1>7. ASSUME NEW m, Scoped(List, m) PROVE HasAllOf(m.all, Wanted)
  <2>1. RowsOf(m.all) = RowsOf(all) /\ Sections(m.all) = Sections(all)
    BY <1>1, <1>7, SameRowsHas DEF Scoped, SameData
  <2> QED BY <2>1, SameRecords
<1>8. ASSUME ScopeChosen(scope') \/ AllScopesChosen PROVE \E m : Becomes(m) /\ HasAllOf(m.all, Wanted')
  <2>1. PICK m : Becomes(m) /\ Scoped(List, m)
    BY <1>1, <1>8, ScopesIs
  <2>2. Wanted' = Wanted
    BY <1>1, <1>8, SameWanted DEF ScopeChosen, AllScopesChosen
  <2> QED BY <1>7, <2>1, <2>2
<1>9. ASSUME NEW l, NEW m, NEW W, Renewed(l, m, W) PROVE HasAllOf(m.all, W)
  BY <1>9 DEF Renewed, HasAllOf
<1>10. ASSUME NEW t, TextTyped(t) PROVE \E m : Becomes(m) /\ HasAllOf(m.all, Wanted')
  BY <1>1, <1>9, <1>10, TextTypedIs
<1>11. ASSUME SearchCancelled PROVE \E m : Becomes(m) /\ HasAllOf(m.all, Wanted')
  <2>1. PICK l, m : /\ Becomes(m) /\ Scoped(List, l)
                    /\ \/ text' = text /\ m = l
                       \/ Renewed(l, m, Wanted')
    BY <1>1, <1>11, SearchCancelledIs
  <2>2. text' = text => Wanted' = Wanted
    BY <1>1, <1>11, SameWanted DEF SearchCancelled
  <2> QED BY <1>7, <1>9, <2>1, <2>2
<1>12. ASSUME Refreshed PROVE \E m : Becomes(m) /\ HasAllOf(m.all, Wanted')
  <2>1. PICK m : Becomes(m) /\ Renewed(List, m, Wanted)
    BY <1>1, <1>12, RefreshedIs
  <2>2. Wanted' = Wanted
    BY <1>1, <1>12, SameWanted DEF Refreshed
  <2> QED BY <1>9, <2>1, <2>2
<1>13. ~BackgroundClears
  BY DEF BackgroundClears, TheClearing
<1>14. \A s : ScopeChosen(s) => ScopeChosen(scope')
  BY DEF ScopeChosen
<1>15. \A i, j : /\ SectionMoved(i, j) => Reordered(i, j) /\ ListChanged
                 /\ \A s : ListReceived(i, j, s) => Reordered(i, j) /\ ListChanged
  BY DEF SectionMoved, ListReceived
<1> QED
  BY <1>2, <1>3, <1>4, <1>5, <1>6, <1>8, <1>10, <1>11, <1>12, <1>13, <1>14, <1>15 DEF Next

\* Only the clearing that comes last takes a record from a section the view
\* model has: whatever else happens, all of the section's records that the search
\* finds stay in it, each once (update(by:), appendRow, removeRow).
THEOREM RecordsAreKept == Spec => OnlyClearingLosesRecords
<1>1. ASSUME ListInv, ListInv', [Next]_vars, SectionsHaveTheirRecords, ~TheClearing
      PROVE  SectionsHaveTheirRecords'
  <2>1. CASE Next
    <3>1. HasAllOf(all, Wanted)
      BY <1>1, HaveRecordsIs
    <3>2. PICK m : Becomes(m) /\ HasAllOf(m.all, Wanted')
      BY <1>1, <2>1, <3>1, RecordsStep
    <3>3. UNCHANGED instance
      BY <2>1 DEF Next
    <3> QED BY <1>1, <3>2, <3>3, HaveRecordsNext
  <2>2. CASE UNCHANGED vars
    BY <1>1, <2>2 DEF vars, list, SectionsHaveTheirRecords, KindOf, Found
  <2> QED BY <1>1, <2>1, <2>2
<1>2. ListInv /\ ListInv' /\ [Next]_vars
        => [SectionsHaveTheirRecords /\ ~TheClearing => SectionsHaveTheirRecords']_vars
  BY <1>1
<1> QED BY <1>2, ListInvariant, PTL DEF Spec, OnlyClearingLosesRecords

-----------------------------------------------------------------------------
(* What is forgotten.                                                      *)

\* Of a section that was dropped, and of one that came.
Forgets(m) ==
  \A s \in present :
    /\ s \in Sections(all) /\ s \notin Sections(m.all) => TheClearing \/ IsEmptied(s)
    /\ s \notin Sections(all) /\ s \in Sections(m.all) => MakesTheListAnew

LEMMA ForgetsNone ==
  ASSUME NEW m, Sections(m.all) = Sections(all)
  PROVE  Forgets(m)
BY DEF Forgets

LEMMA RenewedForgets ==
  ASSUME NEW l, NEW m, NEW W, Renewed(l, m, W), MakesTheListAnew
  PROVE  Forgets(m)
BY DEF Forgets, Renewed

LEMMA EmptiedIs ==
  ASSUME ListInv, NEW r \in Row, store' = store \ {r}, NEW m, Less(List, m, {r}, {KindOf[r]}),
         NEW s \in Sections(all), s \notin Sections(m.all)
  PROVE  IsEmptied(s)
<1>1. all \in Seq(SectionDatum) /\ OneKind(all) /\ List.all = all
  BY LooseIs, ListIs DEF ListInv, ListOK, Fits
<1>2. /\ RowsOf(all) \ {r} \subseteq RowsOf(m.all) /\ Keyed(m.all) /\ OneKind(m.all)
  BY <1>1 DEF Less, Tight, Firm, Fits
<1> SUFFICES ASSUME NEW q \in Rows(s) PROVE q \notin store'
  BY DEF IsEmptied
<1>3. PICK i \in DOMAIN all : all[i].section = s /\ q \in Range(all[i].rows)
  BY DEF Rows
<1>4. all[i].rows \in Seq(Row)
  BY <1>1, RowIsIn
<1>5. HasRow(all[i], q)
  BY <1>3 DEF HasRow, Range
<1>6. q \in Row
  BY <1>4, <1>5 DEF HasRow
<1>7. KindOf[q] = s /\ q \in RowsOf(all)
  BY <1>1, <1>3, <1>5, <1>6 DEF OneKind, RowsOf
<1>8. q \notin RowsOf(m.all)
  BY <1>2, <1>7, KindOfRow
<1> QED BY <1>2, <1>7, <1>8

LEMMA ForgetsStep ==
  ASSUME ListInv, Next
  PROVE  \E m : Becomes(m) /\ m.all \in Seq(SectionDatum) /\ Forgets(m)
<1>1. Alive /\ UNCHANGED instance /\ List.all = all
  BY ListIs DEF Next
<1>0. /\ \A m : Firm(m) => m.all \in Seq(SectionDatum)
      /\ \A m : Tight(m) => m.all \in Seq(SectionDatum)
      /\ \A m, A : Slack(m, A) => m.all \in Seq(SectionDatum)
      /\ all \in Seq(SectionDatum)
  BY LooseIs DEF Firm, Tight, Slack, Loose, Fits, ListInv, ListOK
<1> DEFINE Done == \E m : Becomes(m) /\ m.all \in Seq(SectionDatum) /\ Forgets(m)
<1>2. ASSUME NEW r \in Row, RecordInserted(r) PROVE Done
  <2>1. PICK m : Becomes(m) /\ RecordComes(r, m)
    BY <1>1, <1>2, RecordInsertedIs
  <2>2. Sections(m.all) = Sections(all) /\ m.all \in Seq(SectionDatum)
    BY <1>0, <1>1, <2>1 DEF RecordComes, More
  <2> QED BY <2>1, <2>2, ForgetsNone
<1>3. ASSUME NEW r \in Row, RecordDeleted(r) PROVE Done
  <2>1. PICK m : Becomes(m) /\ RecordGoes(r, m)
    BY <1>1, <1>3, RecordDeletedIs
  <2>2. CASE Found(r)
    <3>1. Less(List, m, {r}, {KindOf[r]})
      BY <2>1, <2>2 DEF RecordGoes
    <3>2. Sections(m.all) \subseteq Sections(all) /\ m.all \in Seq(SectionDatum)
      BY <1>0, <1>1, <3>1 DEF Less
    <3>3. store' = store \ {r}
      BY <1>3 DEF RecordDeleted
    <3>4. \A s \in Sections(all) : s \notin Sections(m.all) => IsEmptied(s)
      BY <3>1, <3>3, EmptiedIs
    <3> QED BY <2>1, <3>2, <3>4 DEF Forgets
  <2>3. CASE ~Found(r)
    BY <1>0, <1>1, <2>1, <2>3, ForgetsNone DEF RecordGoes
  <2> QED BY <2>2, <2>3
<1>4. ASSUME NEW s \in Section, SectionInserted(s) PROVE Done
  <2>1. PICK m : Becomes(m) /\ SectionComes(s, m)
    BY <1>1, <1>4, SectionInsertedIs
  <2>2. s \notin present
    BY <1>4 DEF SectionInserted
  <2>3. CASE s \in active
    <3>1. Sections(m.all) = Sections(all) \cup {s} /\ m.all \in Seq(SectionDatum)
      BY <1>0, <1>1, <2>1, <2>3 DEF SectionComes, More
    <3> QED BY <2>1, <2>2, <3>1 DEF Forgets
  <2>4. CASE s \notin active
    BY <1>0, <1>1, <2>1, <2>4, ForgetsNone DEF SectionComes
  <2> QED BY <2>3, <2>4
<1>5. ASSUME NEW s \in Section, SectionToggled(s) PROVE Done
  <2>1. PICK m : Becomes(m) /\ Toggles(List, m, active')
    BY <1>1, <1>5, SectionToggledIs
  <2>2. Sections(m.all) = Sections(all) /\ m.all \in Seq(SectionDatum)
    BY <1>0, <1>1, <2>1, SameRowsHas DEF Toggles
  <2> QED BY <2>1, <2>2, ForgetsNone
<1>6. ASSUME ListChanged PROVE Done
  <2>1. PICK m : Becomes(m) /\ Rearranged(List, m, active')
    BY <1>1, <1>6, ListChangedIs
  <2>2. Sections(m.all) = Sections(all) /\ m.all \in Seq(SectionDatum)
    BY <1>0, <1>1, <2>1 DEF Rearranged
  <2> QED BY <2>1, <2>2, ForgetsNone
<1>7. ASSUME NEW m, Scoped(List, m) PROVE Forgets(m) /\ m.all \in Seq(SectionDatum)
  <2>1. Sections(m.all) = Sections(all) /\ m.all \in Seq(SectionDatum)
    BY <1>0, <1>1, <1>7, SameRowsHas DEF Scoped, SameData
  <2> QED BY <2>1, ForgetsNone
<1>8. ASSUME ScopeChosen(scope') \/ AllScopesChosen PROVE Done
  BY <1>1, <1>7, <1>8, ScopesIs
<1>9. ASSUME NEW l, NEW m, NEW W, Renewed(l, m, W), MakesTheListAnew
      PROVE  Forgets(m) /\ m.all \in Seq(SectionDatum)
  BY <1>0, <1>9, RenewedForgets DEF Renewed
<1>10. ASSUME NEW t \in instance.texts, TextTyped(t) PROVE Done
  <2>1. MakesTheListAnew
    BY <1>10 DEF MakesTheListAnew
  <2> QED BY <1>1, <1>9, <1>10, <2>1, TextTypedIs
<1>11. ASSUME SearchCancelled PROVE Done
  <2>1. PICK l, m : /\ Becomes(m) /\ Scoped(List, l)
                    /\ \/ text' = text /\ m = l
                       \/ Renewed(l, m, Wanted')
    BY <1>1, <1>11, SearchCancelledIs
  <2>2. MakesTheListAnew
    BY <1>11 DEF MakesTheListAnew
  <2> QED BY <1>7, <1>9, <2>1, <2>2
<1>12. ASSUME Refreshed PROVE Done
  <2>1. MakesTheListAnew
    BY <1>12 DEF MakesTheListAnew
  <2> QED BY <1>1, <1>9, <1>12, <2>1, RefreshedIs
<1>13. ASSUME BackgroundClears PROVE Done
  <2>1. PICK m : Becomes(m) /\ Cleared(List, m)
    BY <1>1, <1>13, BackgroundClearsIs
  <2>2. TheClearing
    BY <1>13 DEF BackgroundClears, TheClearing
  <2>3. Sections(m.all) \subseteq Sections(all) /\ m.all \in Seq(SectionDatum)
    BY <1>0, <1>1, <2>1 DEF Cleared
  <2> QED BY <2>1, <2>2, <2>3 DEF Forgets
<1>14. \A s : ScopeChosen(s) => ScopeChosen(scope')
  BY DEF ScopeChosen
<1>15. \A i, j : /\ SectionMoved(i, j) => ListChanged
                 /\ \A s : ListReceived(i, j, s) => ListChanged
  BY DEF SectionMoved, ListReceived
<1> QED
  BY <1>2, <1>3, <1>4, <1>5, <1>6, <1>8, <1>10, <1>11, <1>12, <1>13, <1>14, <1>15 DEF Next

\* A section is dropped only with the last of its rows, or by a clearing that
\* comes last; and one that is not in dataSourceAll comes back only with the next
\* search or refresh, whatever comes or is toggled before (appendSectionData,
\* removeRow, update(by:)).
THEOREM SectionsAreKept == Spec => OnlyEmptySectionsAreForgotten
<1>1. ASSUME ListInv, Next, NEW s \in present
      PROVE  /\ Has(all, s) /\ ~Has(all', s) => TheClearing \/ IsEmptied(s)
             /\ ~Has(all, s) /\ Has(all', s) => MakesTheListAnew
  <2>1. PICK m : Becomes(m) /\ m.all \in Seq(SectionDatum) /\ Forgets(m)
    BY <1>1, ForgetsStep
  <2>2. all \in Seq(SectionDatum) /\ all' = m.all
    BY <1>1, <2>1, LooseIs DEF ListInv, ListOK, Fits, Becomes
  <2>3. Has(all, s) <=> s \in Sections(all)
    BY <2>2, IndexIs
  <2>4. Has(m.all, s) <=> s \in Sections(m.all)
    BY <2>1, IndexIs
  <2> QED BY <1>1, <2>1, <2>2, <2>3, <2>4 DEF Forgets
<1>2. ListInv /\ [Next]_vars
        => [\A s \in present :
              /\ Has(all, s) /\ ~Has(all', s) => TheClearing \/ IsEmptied(s)
              /\ ~Has(all, s) /\ Has(all', s) => MakesTheListAnew]_vars
  BY <1>1
<1> QED BY <1>2, ListInvariant, PTL DEF Spec, OnlyEmptySectionsAreForgotten

-----------------------------------------------------------------------------
(* In step.                                                                *)

\* A toggle leaves every section with its flag.
LEMMA ToggleFlags ==
  ASSUME NEW l, Slack(l, active'), NEW s, Toggled(s), Flagged(l.all, active)
  PROVE  Flagged(Toggle(l, s).all, active')
<1> DEFINE m == Toggle(l, s)
<1>1. Keyed(l.all)
  BY DEF Slack, Loose, Fits
<1>2. \A i \in DOMAIN l.all : l.all[i].section # s => l.all[i].isActive = (l.all[i].section \in active')
  BY DEF Flagged, Toggled
<1>3. CASE m = l /\ \A i \in DOMAIN l.all : l.all[i].section = s => l.all[i].isActive = (s \in active')
  BY <1>2, <1>3 DEF Flagged
<1>4. CASE TogglesOne(l, m, s, active')
  <2> HIDE DEF m
  <2>1. PICK i \in DOMAIN l.all : \E b \in BOOLEAN :
          /\ l.all[i].section = s /\ b = (s \in active')
          /\ IsWithFlag(m.all, l.all, i, b)
    BY <1>4 DEF TogglesOne
  <2>2. \A j \in DOMAIN l.all : l.all[j].section = s => j = i
    BY <1>1, <2>1 DEF Keyed
  <2>3. Flagged(m.all, active')
    BY <1>2, <2>1, <2>2 DEF Flagged, IsWithFlag, SameRows
  <2> QED BY <2>3 DEF m
<1> QED BY <1>3, <1>4, ToggleIsOne

\* Every other order is another.
LEMMA ReorderedIs ==
  ASSUME IsOrder(order), NEW i \in DOMAIN order, NEW j \in DOMAIN order, Reordered(i, j)
  PROVE  order' # order
<1>1. order \in Seq(Section) /\ i \in 1 .. Len(order) /\ j \in 1 .. Len(order) /\ Len(order) \in Nat
  BY DEF IsOrder
<1> DEFINE rest == RemoveAt(order, i)
<1>2. rest \in Seq(Section) /\ Len(rest) = Len(order) - 1
  BY <1>1, RemoveAtIs
<1> HIDE DEF rest
<1>3. j \in 1 .. Len(rest) + 1 /\ order[i] \in Section
  BY <1>1, <1>2
<1>4. InsertAt(rest, j, order[i])[j] = order[i]
  BY <1>2, <1>3, InsertAtIs
<1>5. order'[j] = order[i] /\ i # j
  BY <1>4 DEF Reordered, rest
<1> QED BY <1>5 DEF IsOrder

LEMMA ScopedFlags ==
  ASSUME NEW l, NEW m, Scoped(l, m), Flagged(l.all, active)
  PROVE  Firm(m) /\ Flagged(m.all, active)
BY DEF Scoped, Tight, SameData, SameRows, Flagged

LEMMA RenewedFlags ==
  ASSUME NEW l, NEW m, NEW W, Renewed(l, m, W), Flagged(l.all, active)
  PROVE  Firm(m) /\ Flagged(m.all, active)
BY DEF Renewed

LEMMA InStepStep ==
  ASSUME ListInv, Next, order' = order, Flagged(all, active)
  PROVE  \E m : Becomes(m) /\ Firm(m) /\ Flagged(m.all, active')
<1>1. Alive /\ UNCHANGED instance /\ List.all = all /\ Tight(List) /\ Firm(List)
  BY ListIs, AliveIsTight DEF Next, Tight
<1> DEFINE Done == \E m : Becomes(m) /\ Firm(m) /\ Flagged(m.all, active')
<1>2. ASSUME NEW r \in Row, RecordInserted(r) PROVE Done
  <2>1. PICK m : Becomes(m) /\ RecordComes(r, m)
    BY <1>1, <1>2, RecordInsertedIs
  <2>2. Firm(m) /\ Flagged(m.all, active)
    BY <1>1, <2>1 DEF RecordComes, More
  <2>3. UNCHANGED active
    BY <1>2 DEF RecordInserted
  <2> QED BY <2>1, <2>2, <2>3
<1>3. ASSUME NEW r \in Row, RecordDeleted(r) PROVE Done
  <2>1. PICK m : Becomes(m) /\ RecordGoes(r, m)
    BY <1>1, <1>3, RecordDeletedIs
  <2>2. Firm(m) /\ Flagged(m.all, active)
    BY <1>1, <2>1 DEF RecordGoes, Less, Tight
  <2>3. UNCHANGED active
    BY <1>3 DEF RecordDeleted
  <2> QED BY <2>1, <2>2, <2>3
<1>4. ASSUME NEW s \in Section, SectionInserted(s) PROVE Done
  <2>1. PICK m : Becomes(m) /\ SectionComes(s, m)
    BY <1>1, <1>4, SectionInsertedIs
  <2>2. Firm(m) /\ Flagged(m.all, active)
    BY <1>1, <2>1 DEF SectionComes, More
  <2>3. UNCHANGED active
    BY <1>4 DEF SectionInserted
  <2> QED BY <2>1, <2>2, <2>3
<1>5. ASSUME NEW s \in Section, SectionToggled(s) PROVE Done
  <2>1. PICK m : Becomes(m) /\ m = Toggle(List, s) /\ Toggles(List, m, active')
    BY <1>1, <1>5, SectionToggledIs
  <2>2. Toggled(s)
    BY <1>5 DEF SectionToggled
  <2>3. Slack(List, active')
    BY <1>1, TightIsSlack
  <2>4. Flagged(m.all, active')
    BY <1>1, <2>1, <2>2, <2>3, ToggleFlags
  <2> QED BY <1>1, <2>1, <2>4 DEF Toggles, Tight
<1>6. \A i, j \in DOMAIN order : ~Reordered(i, j)
  BY ReorderedIs DEF ListInv, StoreOK
<1>7. ASSUME ScopeChosen(scope') \/ AllScopesChosen PROVE Done
  <2>1. UNCHANGED active
    BY <1>7 DEF ScopeChosen, AllScopesChosen
  <2>2. PICK m : Becomes(m) /\ Scoped(List, m)
    BY <1>1, <1>7, ScopesIs
  <2>3. Firm(m) /\ Flagged(m.all, active)
    BY <1>1, <2>2, ScopedFlags
  <2> QED BY <2>1, <2>2, <2>3
<1>8. ASSUME NEW t, TextTyped(t) PROVE Done
  <2>1. UNCHANGED active
    BY <1>8 DEF TextTyped
  <2>2. PICK m : Becomes(m) /\ Renewed(List, m, Wanted')
    BY <1>1, <1>8, TextTypedIs
  <2>3. Firm(m) /\ Flagged(m.all, active)
    BY <1>1, <2>2, RenewedFlags
  <2> QED BY <2>1, <2>2, <2>3
<1>9. ASSUME SearchCancelled PROVE Done
  <2>1. UNCHANGED active
    BY <1>9 DEF SearchCancelled
  <2>2. PICK l, m : /\ Becomes(m) /\ Scoped(List, l)
                    /\ \/ text' = text /\ m = l
                       \/ Renewed(l, m, Wanted')
    BY <1>1, <1>9, SearchCancelledIs
  <2>3. Firm(l) /\ Flagged(l.all, active)
    BY <1>1, <2>2, ScopedFlags
  <2>4. Firm(m) /\ Flagged(m.all, active)
    BY <2>2, <2>3, RenewedFlags
  <2> QED BY <2>1, <2>2, <2>4
<1>10. ASSUME Refreshed PROVE Done
  <2>1. UNCHANGED active
    BY <1>10 DEF Refreshed
  <2>2. PICK m : Becomes(m) /\ Renewed(List, m, Wanted)
    BY <1>1, <1>10, RefreshedIs
  <2>3. Firm(m) /\ Flagged(m.all, active)
    BY <1>1, <2>2, RenewedFlags
  <2> QED BY <2>1, <2>2, <2>3
<1>11. ASSUME BackgroundClears PROVE Done
  <2>1. UNCHANGED active
    BY <1>11 DEF BackgroundClears
  <2>2. PICK m : Becomes(m) /\ Cleared(List, m)
    BY <1>1, <1>11, BackgroundClearsIs
  <2>3. Firm(m) /\ Flagged(m.all, active)
    BY <1>1, <2>2 DEF Cleared, Tight
  <2> QED BY <2>1, <2>2, <2>3
<1>12. \A s : ScopeChosen(s) => ScopeChosen(scope')
  BY DEF ScopeChosen
<1>13. \A i, j : /\ SectionMoved(i, j) => Reordered(i, j)
                 /\ \A s : ListReceived(i, j, s) => Reordered(i, j)
  BY DEF SectionMoved, ListReceived
<1> QED
  BY <1>2, <1>3, <1>4, <1>5, <1>6, <1>7, <1>8, <1>9, <1>10, <1>11, <1>12, <1>13 DEF Next

\* While the sections keep their order, whatever comes, goes, is searched for or
\* toggled, the table shows what dataSourceForView has and each section has the
\* flag of its list section (activateSection, deactivateSection, update(by:)).
THEOREM TheTableStaysInStep == Spec => OnlyReordersPutTheTableOutOfStep
<1>1. ASSUME ListInv, [Next]_vars, InStep, FlagsAreCurrent, order' = order
      PROVE  (InStep /\ FlagsAreCurrent)'
  <2>1. CASE Next
    <3>1. Flagged(all, active)
      BY <1>1 DEF FlagsAreCurrent, Flagged
    <3>2. PICK m : Becomes(m) /\ Firm(m) /\ Flagged(m.all, active')
      BY <1>1, <2>1, <3>1, InStepStep
    <3>3. all' = m.all /\ snap' = ShownIn(view')
      BY <3>2 DEF Becomes, Firm
    <3>4. InStep'
      BY <3>3 DEF InStep, ShownIn
    <3>5. FlagsAreCurrent'
      BY <3>2, <3>3 DEF FlagsAreCurrent, Flagged
    <3> QED BY <3>4, <3>5
  <2>2. CASE UNCHANGED vars
    BY <1>1, <2>2 DEF vars, list, InStep, FlagsAreCurrent, ShownIn
  <2> QED BY <1>1, <2>1, <2>2
<1>2. ListInv /\ [Next]_vars
        => [InStep /\ FlagsAreCurrent /\ order' = order => (InStep /\ FlagsAreCurrent)']_vars
  BY <1>1
<1> QED BY <1>2, ListInvariant, PTL DEF Spec, OnlyReordersPutTheTableOutOfStep

-----------------------------------------------------------------------------
(* The scope.                                                              *)

\* The sections that are left out are the ones that the scope does: not one if
\* there is none, and never its own.
ScopeOK ==
  /\ Reached(List)
  /\ \A x \in Unsearched(all) : scope \notin {None, x}

\* What a step makes of it: the scope is as it was until there is another.
FollowsScope(m) ==
  \E l : /\ Keeps(l, m)
         /\ \/ l = List /\ UNCHANGED scope
            \/ /\ Rescoped(List, l, scope') /\ Sections(l.all) = Sections(all)
               /\ scope # None \/ scope' # None

LEMMA KeepsScope ==
  ASSUME NEW m, Keeps(List, m), UNCHANGED scope
  PROVE  FollowsScope(m)
BY DEF FollowsScope

LEMMA ScopeAnew ==
  ASSUME NEW m, Rescoped(List, m, scope'), Scoped(List, m), scope # None \/ scope' # None
  PROVE  FollowsScope(m)
<1>1. Sections(m.all) = Sections(all)
  BY SameRowsHas, ListIs DEF Scoped, SameData
<1>2. Keeps(m, m)
  BY KeepsAlike
<1> QED BY <1>1, <1>2 DEF FollowsScope

LEMMA ScopeStep ==
  ASSUME ListInv, Next
  PROVE  \E m : Becomes(m) /\ m \in Lists /\ FollowsScope(m)
<1>1. Alive /\ UNCHANGED instance /\ Tight(List) /\ List \in Lists /\ Keeps(List, List)
  BY AliveIsTight, LooseIs, KeepsAlike DEF Next, ListInv, ListOK
<1>0. /\ \A m : Firm(m) => m \in Lists
      /\ \A m : Tight(m) => m \in Lists
      /\ \A m, A : Slack(m, A) => m \in Lists
  BY DEF Firm, Tight, Slack, Loose
<1> DEFINE Done == \E m : Becomes(m) /\ m \in Lists /\ FollowsScope(m)
<1>2. ASSUME NEW r \in Row, RecordInserted(r) PROVE Done
  <2>1. PICK m : Becomes(m) /\ RecordComes(r, m)
    BY <1>1, <1>2, RecordInsertedIs
  <2>2. Keeps(List, m) /\ m \in Lists
    BY <1>0, <1>1, <2>1 DEF RecordComes, More
  <2>3. UNCHANGED scope
    BY <1>2 DEF RecordInserted
  <2> QED BY <2>1, <2>2, <2>3, KeepsScope
<1>3. ASSUME NEW r \in Row, RecordDeleted(r) PROVE Done
  <2>1. PICK m : Becomes(m) /\ RecordGoes(r, m)
    BY <1>1, <1>3, RecordDeletedIs
  <2>2. Keeps(List, m) /\ m \in Lists
    BY <1>0, <1>1, <2>1 DEF RecordGoes, Less
  <2>3. UNCHANGED scope
    BY <1>3 DEF RecordDeleted
  <2> QED BY <2>1, <2>2, <2>3, KeepsScope
<1>4. ASSUME NEW s \in Section, SectionInserted(s) PROVE Done
  <2>1. PICK m : Becomes(m) /\ SectionComes(s, m)
    BY <1>1, <1>4, SectionInsertedIs
  <2>2. Keeps(List, m) /\ m \in Lists
    BY <1>0, <1>1, <2>1 DEF SectionComes, More
  <2>3. UNCHANGED scope
    BY <1>4 DEF SectionInserted
  <2> QED BY <2>1, <2>2, <2>3, KeepsScope
<1>5. ASSUME NEW s \in Section, SectionToggled(s) PROVE Done
  <2>1. PICK m : Becomes(m) /\ Toggles(List, m, active')
    BY <1>1, <1>5, SectionToggledIs
  <2>2. Keeps(List, m) /\ m \in Lists
    BY <1>0, <2>1 DEF Toggles
  <2>3. UNCHANGED scope
    BY <1>5 DEF SectionToggled
  <2> QED BY <2>1, <2>2, <2>3, KeepsScope
<1>6. ASSUME NEW i, NEW j, Reordered(i, j), ListChanged PROVE Done
  <2>1. PICK m : Becomes(m) /\ Rearranged(List, m, active')
    BY <1>1, <1>6, ListChangedIs
  <2>2. Keeps(List, m) /\ m \in Lists
    BY <1>0, <2>1 DEF Rearranged
  <2>3. UNCHANGED scope
    BY <1>6 DEF Reordered
  <2> QED BY <2>1, <2>2, <2>3, KeepsScope
<1>7. ASSUME NEW s \in searchedSections, ScopeChosen(s) PROVE Done
  <2>1. s \in Section /\ None \notin Section
    <3>1. searchedSections \subseteq Sections(all)
      BY DEF searchedSections, Sections, Range
    <3> QED BY <3>1, KindIsSection DEF ListInv, ListOK, StoreOK
  <2>2. scope' = s /\ ScopeChosen(scope')
    BY <1>7 DEF ScopeChosen
  <2>3. PICK m : Becomes(m) /\ Scoped(List, m) /\ Rescoped(List, m, scope')
    BY <1>1, <2>2, ScopesIs
  <2>4. m \in Lists
    BY <1>0, <2>3 DEF Scoped
  <2> QED BY <2>1, <2>2, <2>3, <2>4, ScopeAnew
<1>8. ASSUME AllScopesChosen PROVE Done
  <2>1. PICK m : Becomes(m) /\ Scoped(List, m) /\ Rescoped(List, m, scope')
    BY <1>1, <1>8, ScopesIs
  <2>2. m \in Lists
    BY <1>0, <2>1 DEF Scoped
  <2>3. scope # None
    BY <1>8 DEF AllScopesChosen
  <2> QED BY <2>1, <2>2, <2>3, ScopeAnew
<1>9. ASSUME NEW t, TextTyped(t) PROVE Done
  <2>1. PICK m : Becomes(m) /\ Renewed(List, m, Wanted')
    BY <1>1, <1>9, TextTypedIs
  <2>2. Keeps(List, m) /\ m \in Lists
    BY <1>0, <2>1 DEF Renewed
  <2>3. UNCHANGED scope
    BY <1>9 DEF TextTyped
  <2> QED BY <2>1, <2>2, <2>3, KeepsScope
<1>10. ASSUME SearchCancelled PROVE Done
  <2>1. PICK l, m : /\ Becomes(m) /\ Scoped(List, l)
                    /\ (scope = None /\ l = List) \/ (scope # None /\ Rescoped(List, l, None))
                    /\ \/ text' = text /\ m = l
                       \/ Renewed(l, m, Wanted')
    BY <1>1, <1>10, SearchCancelledIs
  <2>2. scope' = None
    BY <1>10 DEF SearchCancelled
  <2>3. Keeps(l, m) /\ m \in Lists
    BY <1>0, <2>1, KeepsAlike DEF Scoped, Renewed
  <2>4. CASE scope = None /\ l = List
    BY <2>1, <2>2, <2>3, <2>4, KeepsScope
  <2>5. CASE scope # None /\ Rescoped(List, l, None)
    <3>1. Sections(l.all) = Sections(all)
      BY <2>1, SameRowsHas, ListIs DEF Scoped, SameData
    <3> QED BY <2>1, <2>2, <2>3, <2>5, <3>1 DEF FollowsScope
  <2> QED BY <2>1, <2>4, <2>5
<1>11. ASSUME Refreshed PROVE Done
  <2>1. PICK m : Becomes(m) /\ Renewed(List, m, Wanted)
    BY <1>1, <1>11, RefreshedIs
  <2>2. Keeps(List, m) /\ m \in Lists
    BY <1>0, <2>1 DEF Renewed
  <2>3. UNCHANGED scope
    BY <1>11 DEF Refreshed
  <2> QED BY <2>1, <2>2, <2>3, KeepsScope
<1>12. ASSUME BackgroundClears PROVE Done
  <2>1. PICK m : Becomes(m) /\ Cleared(List, m)
    BY <1>1, <1>12, BackgroundClearsIs
  <2>2. Keeps(List, m) /\ m \in Lists
    BY <1>0, <2>1 DEF Cleared
  <2>3. UNCHANGED scope
    BY <1>12 DEF BackgroundClears
  <2> QED BY <2>1, <2>2, <2>3, KeepsScope
<1>13. \A i, j : /\ SectionMoved(i, j) => Reordered(i, j) /\ ListChanged
                 /\ \A s : ListReceived(i, j, s) => Reordered(i, j) /\ ListChanged
  BY DEF SectionMoved, ListReceived
<1> QED
  BY <1>2, <1>3, <1>4, <1>5, <1>6, <1>7, <1>8, <1>9, <1>10, <1>11, <1>12, <1>13 DEF Next

LEMMA ScopeOKInit ==
  Init => ScopeOK
<1> SUFFICES ASSUME Init PROVE ScopeOK
  OBVIOUS
<1>1. PICK l : l.all = <<>> /\ l.view = <<>> /\ Renewed(l, List, Wanted)
  BY StartIs
<1>2. Unsearched(l.all) = {} /\ Reached(l)
  BY <1>1 DEF Unsearched, Reached, Sections
<1>3. Keeps(l, List)
  BY <1>1 DEF Renewed
<1>4. Unsearched(List.all) = {} /\ Reached(List)
  BY <1>2, <1>3 DEF Keeps
<1> QED BY <1>4, ListIs DEF ScopeOK

LEMMA ScopeOKStep ==
  ListInv /\ ScopeOK /\ [Next]_vars => ScopeOK'
<1> SUFFICES ASSUME ListInv, ScopeOK, [Next]_vars PROVE ScopeOK'
  OBVIOUS
<1>1. CASE Next
  <2>1. PICK m : Becomes(m) /\ m \in Lists /\ FollowsScope(m)
    BY <1>1, ScopeStep
  <2>2. PICK l : /\ Keeps(l, m)
                 /\ \/ l = List /\ UNCHANGED scope
                    \/ Rescoped(List, l, scope') /\ Sections(l.all) = Sections(all)
    BY <2>1 DEF FollowsScope
  <2>3. Reached(List) /\ List.all = all /\ \A x \in Unsearched(all) : scope \notin {None, x}
    BY ListIs DEF ScopeOK
  <2>4. Reached(l) /\ \A x \in Unsearched(l.all) : scope' \notin {None, x}
    <3>1. Unsearched(l.all) \subseteq Sections(l.all)
      BY DEF Unsearched, Sections
    <3> QED BY <2>2, <2>3, <3>1 DEF Rescoped
  <2>5. Reached(m) /\ \A x \in Unsearched(m.all) : scope' \notin {None, x}
    BY <2>2, <2>4 DEF Keeps
  <2>6. List' = m /\ all' = m.all
    BY <2>1, BecomesIs
  <2>7. Reached(List)'
    BY <2>5, <2>6 DEF Reached, Sections, Unsearched
  <2>8. Unsearched(all)' = Unsearched(all')
    BY DEF Unsearched
  <2> QED BY <2>5, <2>6, <2>7, <2>8 DEF ScopeOK
<1>2. CASE UNCHANGED vars
  BY <1>2 DEF vars, list, ScopeOK, Reached, Sections, Unsearched, List
<1> QED BY <1>1, <1>2

LEMMA ScopeInvariant ==
  Spec => [](ListInv /\ ScopeOK)
<1>1. ListInv /\ [Next]_vars => ListInv'
  BY ListInvStep
<1>2. ListInv /\ ScopeOK /\ [Next]_vars => ScopeOK'
  BY ScopeOKStep
<1> QED BY <1>1, <1>2, ListInvInit, ScopeOKInit, PTL DEF Spec

LEMMA EveryIsShown ==
  ASSUME NEW l, l.all \in Seq(SectionDatum), l.view \in Seq(SectionDatum)
  PROVE  (\A i \in DOMAIN l.all : isAvailable(l.all[i]) => Has(l.view, l.all[i].section)) <=> Shown(l)
<1>1. \A s : Has(l.view, s) <=> s \in Sections(l.view)
  BY IndexIs
<1> QED BY <1>1 DEF Shown, Available

\* While the scope is the same, every section with something to show stays on
\* show (changeSearchedSection, activateSection, appendRow, update(by:)).
THEOREM ScopesAloneHide == Spec => OnlyScopesHideSections
<1>1. ASSUME ListInv, ScopeOK, [Next]_vars, EverySectionIsShown, scope' = scope
      PROVE  EverySectionIsShown'
  <2>1. CASE Next
    <3>1. List.all \in Seq(SectionDatum) /\ List.view \in Seq(SectionDatum)
      <4>1. List \in Lists
        BY <1>1 DEF ListInv, ListOK, Loose
      <4> QED BY <4>1 DEF Lists
    <3>2. Shown(List)
      BY <1>1, <3>1, EveryIsShown, ListIs DEF EverySectionIsShown
    <3>3. PICK m : Becomes(m) /\ m \in Lists /\ FollowsScope(m)
      BY <1>1, <2>1, ScopeStep
    <3>4. PICK l : /\ Keeps(l, m)
                   /\ \/ l = List
                      \/ Rescoped(List, l, scope) /\ scope # None
      BY <1>1, <3>3 DEF FollowsScope
    <3>5. Shown(l)
      <4>1. scope \notin Unsearched(List.all)
        BY <1>1, ListIs DEF ScopeOK
      <4> QED BY <3>2, <3>4, <4>1 DEF Rescoped
    <3>6. Shown(m) /\ m.all \in Seq(SectionDatum) /\ m.view \in Seq(SectionDatum)
      BY <3>3, <3>4, <3>5 DEF Keeps, Lists
    <3>7. \A i \in DOMAIN m.all : isAvailable(m.all[i]) => Has(m.view, m.all[i].section)
      BY <3>6, EveryIsShown
    <3>8. all' = m.all /\ view' = m.view
      BY <3>3 DEF Becomes
    <3> QED BY <3>7, <3>8 DEF EverySectionIsShown
  <2>2. CASE UNCHANGED vars
    BY <1>1, <2>2 DEF vars, list, EverySectionIsShown
  <2> QED BY <1>1, <2>1, <2>2
<1>2. ListInv /\ ScopeOK /\ [Next]_vars
        => [EverySectionIsShown /\ scope' = scope => EverySectionIsShown']_vars
  BY <1>1
<1> QED BY <1>2, ScopeInvariant, PTL DEF Spec, OnlyScopesHideSections

-----------------------------------------------------------------------------
(* The indicator.                                                          *)

\* Section s has rows on show.
OnShow(l, s) == s \in Sections(l.view) /\ s \in Available(l.all)

\* What the toggles of the sections T have made of l so far.
Settles(l, m, T, A) ==
  /\ m.updating /\ ~l.updating => \E s \in T : ~OnShow(l, s) /\ NothingToShow(m, s)
  /\ \A s \in T : OnShow(l, s) => OnShow(m, s) \/ IsCurrent(m, s, A)

LEMMA MoveSettles ==
  ASSUME NEW l, NEW m, NEW p, NEW T, NEW A, Settles(l, m, T, A), Reshuffled(m, p)
  PROVE  Settles(l, p, T, A)
<1>1. p.updating = m.updating
  BY DEF Reshuffled
<1>2. ASSUME NEW s, NothingToShow(m, s) PROVE NothingToShow(p, s)
  BY <1>2 DEF NothingToShow, Reshuffled
<1>3. ASSUME NEW s, OnShow(m, s) PROVE OnShow(p, s)
  BY <1>3 DEF OnShow, Reshuffled
<1>4. ASSUME NEW s, IsCurrent(m, s, A) PROVE IsCurrent(p, s, A)
  BY <1>4 DEF IsCurrent, Reshuffled
<1> QED BY <1>1, <1>2, <1>3, <1>4 DEF Settles

LEMMA ToggleSettles ==
  ASSUME NEW l, NEW m, NEW T, NEW s \in T, \A x \in T : x = s,
         Slack(m, active'), Settles(l, m, T, active')
  PROVE  Settles(l, Toggle(m, s), T, active')
<1> DEFINE p == Toggle(m, s)
<1>1. \/ p = m
      \/ /\ ~IsCurrent(m, s, active') /\ IsCurrent(p, s, active')
         /\ p.updating => s \notin Sections(m.view) /\ NothingToShow(p, s)
  BY ToggleSwitches
<1> HIDE DEF p
<1>2. CASE p = m
  BY <1>2 DEF p
<1>3. CASE /\ ~IsCurrent(m, s, active') /\ IsCurrent(p, s, active')
           /\ p.updating => s \notin Sections(m.view) /\ NothingToShow(p, s)
  <2>1. p.updating => ~OnShow(l, s)
    BY <1>3 DEF Settles, OnShow
  <2>2. Settles(l, p, T, active')
    BY <1>3, <2>1 DEF Settles
  <2> QED BY <2>2 DEF p
<1> QED BY <1>1, <1>2, <1>3

LEMMA ChangeSettles ==
  ASSUME NEW l, NEW m, NEW T, \A x, y \in T : x = y, Slack(m, active'), Settles(l, m, T, active'),
         NEW i \in Nat \ {0}, Moved(i) \/ order[i] \in T
  PROVE  Settles(l, Change(m, i), T, active')
<1>1. CASE Moved(i)
  <2>1. Reshuffled(m, MoveSection(m, order'[i], i))
    BY MoveSectionIs
  <2> QED BY <1>1, <2>1, MoveSettles DEF Change
<1>2. CASE ~Moved(i)
  BY <1>2, ToggleSettles DEF Change
<1> QED BY <1>1, <1>2

LEMMA ChangedSettles ==
  ASSUME NEW l, Slack(l, active'), NEW T, \A x, y \in T : x = y, NEW events \in Seq(Nat \ {0}),
         \A k \in DOMAIN events : Moved(events[k]) \/ order[events[k]] \in T
  PROVE  Settles(l, Changed(l, events), T, active')
<1> DEFINE n == Len(events)
<1>1. PICK g : /\ g[0] = l /\ \A i \in 1 .. Len(events) : g[i] = Change(g[i - 1], events[i])
               /\ Changed(l, events) = g[Len(events)]
  BY ChangeTurns
<1>2. /\ n \in Nat /\ 0 \in 0 .. n /\ n \in 0 .. n
      /\ \A i \in 1 .. n : /\ events[i] \in Nat \ {0} /\ i \in 0 .. n
                           /\ Moved(events[i]) \/ order[events[i]] \in T
  <2>1. DOMAIN events = 1 .. n
    OBVIOUS
  <2> QED BY <2>1
<1> HIDE DEF n
<1> DEFINE H == {i \in 0 .. n : Slack(g[i], active') /\ Settles(l, g[i], T, active')}
<1>3. 0 \in H
  <2>1. Settles(l, l, T, active')
    BY DEF Settles
  <2> QED BY <1>1, <1>2, <2>1
<1>4. ASSUME NEW i \in 1 .. n, i - 1 \in H PROVE i \in H
  <2> DEFINE m == g[i - 1]
             e == events[i]
  <2>1. Slack(m, active') /\ Settles(l, m, T, active')
    BY <1>4
  <2>2. g[i] = Change(m, e) /\ e \in Nat \ {0} /\ i \in 0 .. n
    BY <1>1, <1>2 DEF n
  <2>3. Moved(e) \/ order[e] \in T
    BY <1>2
  <2> HIDE DEF m, e
  <2>4. Slack(Change(m, e), active')
    BY <2>1, <2>2, ChangeIs DEF Rearranged
  <2>5. Settles(l, Change(m, e), T, active')
    BY <2>1, <2>2, <2>3, ChangeSettles
  <2> QED BY <2>2, <2>4, <2>5
<1>5. \A i \in 0 .. n : i \in H
  <2> HIDE DEF H
  <2> QED BY <1>2, <1>3, <1>4, TurnByTurn
<1> QED BY <1>1, <1>2, <1>5 DEF n

ToggledSections == {s \in Section : (s \in active) # (s \in active')}

LEMMA ListChangedSettles ==
  ASSUME ListInv, Alive, ListChanged, \A x, y \in ToggledSections : x = y
  PROVE  \E m : Becomes(m) /\ Settles(List, m, ToggledSections, active')
<1> DEFINE n == Len(order)
           changed == {i \in DOMAIN order :
                         Moved(i) \/ (order[i] \in active) # (order[i] \in active')}
<1>1. Slack(List, active')
  BY AliveIsTight, TightIsSlack
<1>2. PICK events \in SetToSeqs(changed) : Becomes(FoldLeft(Change, List, events))
  BY DEF ListChanged
<1>3. n \in Nat /\ DOMAIN order = 1 .. n /\ \A i \in DOMAIN order : order[i] \in Section
  BY DEF ListInv, StoreOK, IsOrder
<1>4. changed \in SUBSET (1 .. n)
  BY <1>3
<1>5. \A i \in changed : Moved(i) \/ order[i] \in ToggledSections
  BY <1>3 DEF ToggledSections
<1> HIDE DEF changed, n
<1>6. events \in Seq(Nat \ {0}) /\ \A k \in DOMAIN events : events[k] \in changed
  BY <1>2, <1>3, <1>4, EventsAre
<1>7. \A k \in DOMAIN events : Moved(events[k]) \/ order[events[k]] \in ToggledSections
  BY <1>5, <1>6
<1>8. Settles(List, Changed(List, events), ToggledSections, active')
  BY <1>1, <1>6, <1>7, ChangedSettles
<1> QED BY <1>2, <1>8 DEF Changed

\* What has rows on show is on show.
LEMMA RowsAreShown ==
  ASSUME ListInv, ScopeOK, Alive, NEW s, ShowsRows(view, s)
  PROVE  OnShow(List, s)
<1>1. PICK i \in DOMAIN view : view[i].section = s /\ view[i].rows # <<>>
  BY DEF ShowsRows
<1>2. Fits(all, view) /\ OneKind(view) /\ List.all = all /\ List.view = view
  BY LooseIs, ListIs DEF ListInv, ListOK, Alive
<1>3. /\ view \in Seq(SectionDatum) /\ all \in Seq(SectionDatum) /\ Keyed(all) /\ OneKind(all)
      /\ RowsOf(view) \subseteq RowsOf(all) /\ Sections(view) \subseteq Active(all)
  BY <1>2 DEF Fits
<1>4. s \in Sections(view)
  BY <1>1 DEF Sections
<1>5. PICK r \in RowsOf(view) : HasRow(view[i], r)
  <2>1. view[i].rows \in Seq(Row)
    BY <1>3, RowIsIn
  <2>2. 1 \in DOMAIN view[i].rows /\ view[i].rows[1] \in Row
    BY <1>1, <2>1
  <2> QED BY <2>2 DEF RowsOf, HasRow
<1>6. KindOf[r] = s
  BY <1>1, <1>2, <1>5, KindIs DEF HasRow
<1>7. PICK j \in DOMAIN all : all[j].section = s /\ all[j].isActive
  BY <1>3, <1>4 DEF Active
<1>8. HasRow(all[j], r)
  BY <1>3, <1>6, <1>7, KindOfRow
<1>9. all[j].rows # <<>>
  BY <1>8 DEF HasRow
<1>10. all[j].isSearched
  BY <1>2, <1>4, <1>7 DEF ScopeOK, Reached, Unsearched
<1>11. s \in Available(all)
  BY <1>7, <1>9, <1>10 DEF Available, isAvailable
<1> QED BY <1>2, <1>4, <1>11 DEF OnShow

LEMMA IdleShowsNone ==
  ASSUME NEW m, NEW s, NothingToShow(m, s)
  PROVE  ~ShowsRows(m.view, s)
BY DEF NothingToShow, ShowsRows, Sections

\* The indicator is left on by the sections toggled.
LEMMA SettledIdly ==
  ASSUME ListInv, ScopeOK, Alive, NEW m, Becomes(m), Settles(List, m, ToggledSections, active'),
         ~updating, updating'
  PROVE  \E s \in Section : IdlyToggled(s)
<1>1. PICK s \in ToggledSections : ~OnShow(List, s) /\ NothingToShow(m, s)
  BY ListIs DEF Settles, Becomes
<1>2. ~ShowsRows(view, s)
  BY <1>1, RowsAreShown
<1>3. ~ShowsRows(view', s)
  BY <1>1, IdleShowsNone DEF Becomes
<1> QED BY <1>1, <1>2, <1>3 DEF IdlyToggled, ToggledSections

LEMMA OneToggled ==
  ASSUME UNCHANGED active \/ \E s \in Section : Toggled(s)
  PROVE  \A x, y \in ToggledSections : x = y
BY DEF ToggledSections, Toggled

LEMMA SectionToggledSettles ==
  ASSUME ListInv, Alive, NEW s \in Section, SectionToggled(s)
  PROVE  \E m : Becomes(m) /\ Settles(List, m, ToggledSections, active')
<1>1. Slack(List, active')
  BY AliveIsTight, TightIsSlack
<1>2. Toggled(s) /\ Becomes(Toggle(List, s))
  BY DEF SectionToggled
<1>3. s \in ToggledSections /\ \A x \in ToggledSections : x = s
  BY <1>2 DEF Toggled, ToggledSections
<1>4. Settles(List, List, ToggledSections, active')
  BY DEF Settles
<1> QED BY <1>1, <1>2, <1>3, <1>4, ToggleSettles

LEMMA IndicatorStep ==
  ASSUME ListInv, ScopeOK, Next, ~updating, updating', ~TheClearing, present # {}
  PROVE  \E s \in Section : IdlyToggled(s)
<1>1. Alive /\ UNCHANGED instance /\ ~List.updating
  BY ListIs DEF Next
<1>0. \A m : Becomes(m) => m.updating
  BY DEF Becomes
<1> DEFINE Done == \E s \in Section : IdlyToggled(s)
<1>2. ASSUME NEW r \in Row, RecordInserted(r) PROVE Done
  BY <1>0, <1>1, <1>2, RecordInsertedIs DEF RecordComes, More
<1>3. ASSUME NEW r \in Row, RecordDeleted(r) PROVE Done
  BY <1>0, <1>1, <1>3, RecordDeletedIs DEF RecordGoes, Less
<1>4. ASSUME NEW s \in Section, SectionInserted(s) PROVE Done
  BY <1>0, <1>1, <1>4, SectionInsertedIs DEF SectionComes, More
<1>5. ASSUME NEW s \in Section, SectionToggled(s) PROVE Done
  BY <1>1, <1>5, SectionToggledSettles, SettledIdly
<1>6. ASSUME ListChanged, UNCHANGED active \/ \E s \in Section : Toggled(s) PROVE Done
  <2>1. \A x, y \in ToggledSections : x = y
    BY <1>6, OneToggled
  <2> QED BY <1>1, <1>6, <2>1, ListChangedSettles, SettledIdly
<1>7. ASSUME ScopeChosen(scope') \/ AllScopesChosen PROVE Done
  BY <1>0, <1>1, <1>7, ScopesIs DEF Scoped
<1>8. ASSUME NEW t, TextTyped(t) PROVE Done
  BY <1>0, <1>1, <1>8, TextTypedIs DEF Renewed
<1>9. ASSUME SearchCancelled PROVE Done
  <2>1. PICK l, m : /\ Becomes(m) /\ Scoped(List, l)
                    /\ \/ text' = text /\ m = l
                       \/ Renewed(l, m, Wanted')
    BY <1>1, <1>9, SearchCancelledIs
  <2> QED BY <1>0, <1>1, <2>1 DEF Scoped, Renewed
<1>10. ASSUME Refreshed PROVE Done
  BY <1>0, <1>1, <1>10, RefreshedIs DEF Renewed
<1>11. ~BackgroundClears
  BY DEF BackgroundClears, TheClearing
<1>12. \A s : ScopeChosen(s) => ScopeChosen(scope')
  BY DEF ScopeChosen
<1>13. \A i, j : /\ SectionMoved(i, j) => ListChanged /\ UNCHANGED active
                 /\ \A s : ListReceived(i, j, s) => ListChanged /\ Toggled(s)
  BY DEF SectionMoved, ListReceived
<1> QED
  BY <1>2, <1>3, <1>4, <1>5, <1>6, <1>7, <1>8, <1>9, <1>10, <1>11, <1>12, <1>13 DEF Next

\* The activity indicator stays on only after a toggle of a section that shows no
\* row, before or after; a clearing that comes last; or a refresh before there is
\* any section (activateSection, deactivateSection, update(by:)).
THEOREM IdleTogglesAloneKeepIt == Spec => OnlyIdleTogglesKeepTheIndicator
<1>1. ASSUME ListInv, ScopeOK, [Next]_vars, ~updating, updating'
      PROVE  TheClearing \/ present = {} \/ \E s \in Section : IdlyToggled(s)
  <2>1. CASE Next
    BY <1>1, <2>1, IndicatorStep
  <2>2. CASE UNCHANGED vars
    BY <1>1, <2>2 DEF vars, list
  <2> QED BY <1>1, <2>1, <2>2
<1>2. ListInv /\ ScopeOK /\ [Next]_vars
        => [~updating /\ updating'
              => TheClearing \/ present = {} \/ \E s \in Section : IdlyToggled(s)]_vars
  BY <1>1
<1> QED BY <1>2, ScopeInvariant, PTL DEF Spec, OnlyIdleTogglesKeepTheIndicator
=============================================================================
