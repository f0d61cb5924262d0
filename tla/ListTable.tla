----------------------------- MODULE ListTable -----------------------------
(***************************************************************************)
(* The table of the "List" tab: FavouriteTableViewModel with the protocols *)
(* it is made of (IViewModelDinamicUpdating, ITableViewSearched) and the   *)
(* diffable table it drives (IDiffableTableView).                          *)
(*                                                                         *)
(* The same list is kept four times: the records of the store as the       *)
(* fetched results controllers (FRC) report them, all the sections         *)
(* (dataSourceAll), the sections on show (dataSourceForView) and the       *)
(* snapshot of the table.  Every change is carried from one to the next by *)
(* index arithmetic; nothing compares them afterwards.                     *)
(***************************************************************************)
EXTENDS Naturals, FiniteSets, Sequences, SequencesExt

CONSTANTS
  None,       \* no section
  Instances   \* what is listed, searched for and changed, one choice per behaviour:
              \*   sections  the list sections, in their first order
              \*   kindOf    the section each record belongs in, in fetch order
              \*   matches   the records whose podcast has the text being searched for
              \*   texts     what is typed into the search field
              \*   changes   bound: how often a record comes or goes, the sections are
              \*             moved or toggled, the table is refreshed

ASSUME ListTableAssumption ==
  \A i \in Instances :
    /\ i.sections \in Seq(STRING) /\ IsInjective(i.sections) /\ None \notin Range(i.sections)
    /\ i.kindOf \in Seq(Range(i.sections))
    /\ i.matches \subseteq DOMAIN i.kindOf
    /\ i.texts \subseteq {"", "text"}
    /\ i.changes \in Nat

VARIABLES
  store,      \* the records in the view context
  present,    \* the list sections in it,
  order,      \* their order (sequenceNumber)
  active,     \* and those that are active
  all,        \* dataSourceAll
  view,       \* dataSourceForView
  snap,       \* mySnapShot, which the table shows
  trapped,    \* an index was out of range: the process has ended
  updating,   \* isUpdating: the screen shows its activity indicator
  scope,      \* searchedSectionData's section
  text,       \* searchedText: "nil", "" or "text"
  clearing,   \* update(by: []) waits on a global queue
  changes,    \* how often something has changed
  instance    \* the instance of this behaviour

list == <<all, view, snap, trapped, updating>>
vars == <<store, present, order, active, list, scope, text, clearing, changes,
          instance>>

-----------------------------------------------------------------------------
(* The lists.                                                              *)

Row == DOMAIN instance.kindOf
Section == Range(instance.sections)
KindOf == instance.kindOf

SectionData(s, rows) ==
  [section |-> s, rows |-> rows, isActive |-> s \in active, isSearched |-> TRUE]

isAvailable(sd) == sd.isActive /\ sd.rows # <<>> /\ sd.isSearched

IndexOf(src, s) == SelectInSeq(src, LAMBDA sd : sd.section = s)
Has(src, s) == IndexOf(src, s) # 0
IndexOfRow(src, r) == SelectInSeq(src, LAMBDA sd : Contains(sd.rows, r))

\* What the operations pass along; the last one's result is the next state.
List ==
  [all |-> all, view |-> view, snap |-> snap, trapped |-> trapped, updating |-> updating]
Becomes(l) ==
  /\ all' = l.all
  /\ view' = l.view
  /\ snap' = l.snap
  /\ trapped' = l.trapped
  /\ updating' = l.updating

\* flatMap: what Piece makes of each element, one after the other.
Joined(seq, Piece(_)) ==
  LET upTo[n \in 0 .. Len(seq)] == IF n = 0 THEN <<>> ELSE upTo[n - 1] \o Piece(seq[n])
  IN  upTo[Len(seq)]

\* filter: the elements of seq that are in S.
Filtered(seq, S) == Joined(seq, LAMBDA e : IF e \in S THEN <<e>> ELSE <<>>)

ShownIn(src) == [i \in DOMAIN src |-> [section |-> src[i].section, rows |-> src[i].rows]]
Empty(sd) == [sd EXCEPT !.rows = <<>>]

\* What the FRC of a section fetches.
Found(r) == text = "text" => r \in instance.matches
Fetched(s) ==
  Filtered([r \in Row |-> r], {r \in store : KindOf[r] = s /\ Found(r)})

-----------------------------------------------------------------------------
(* The diffable table: what it is told is by index.                        *)

Trap(l) == [l EXCEPT !.trapped = TRUE]

DeleteRowAt(l, i, k) ==
  IF i > Len(l.snap) \/ k > Len(l.snap[i].rows) THEN l
  ELSE [l EXCEPT !.snap[i].rows = RemoveAt(@, k)]
DeleteSectionAt(l, i) ==
  IF i > Len(l.snap) THEN Trap(l) ELSE [l EXCEPT !.snap = RemoveAt(@, i)]
\* Past the end it is the last.
InsertSectionAt(l, s, i) ==
  [l EXCEPT !.snap = InsertAt(@, IF i > Len(@) THEN Len(@) + 1 ELSE i,
                              [section |-> s, rows |-> <<>>])]
InsertRowAt(l, i, r) ==
  IF i > Len(l.snap) THEN Trap(l) ELSE [l EXCEPT !.snap[i].rows = Append(@, r)]

\* Neither the first nor the last: before what is at the new index now.
MoveSectionAt(l, from, to) ==
  LET rest == RemoveAt(l.snap, from)
      target == IF to \in {1, Len(l.snap)} THEN to
                ELSE IndexOf(rest, l.snap[to].section)
  IN  IF to = from THEN l
      ELSE IF from > Len(l.snap) \/ to > Len(l.snap) THEN Trap(l)
      ELSE [l EXCEPT !.snap = InsertAt(rest, target, @[from])]

-----------------------------------------------------------------------------
(* IViewModelDinamicUpdating.                                              *)

\* Where a section is on show if those before it are there in the order of
\* dataSourceAll.  One that is not on show yet counts nothing, one that is there
\* without a row counts everything.
getIndexOfActiveSectionForView(l, s) ==
  LET v == IndexOf(l.view, s)
      before == 1 .. IndexOf(l.all, s) - 1
  IN  CASE v = 0 -> 1
        [] v # 0 /\ l.view[v].rows = <<>> -> Cardinality(before) + 1
        [] OTHER -> Cardinality({i \in before : isAvailable(l.all[i])}) + 1

\* A section's first row puts it on show, at the end.
ShowSection(l, sd) ==
  InsertSectionAt([l EXCEPT !.view = Append(@, Empty(sd))], sd.section, Len(l.view) + 1)

ShowRow(l, r, i) ==
  IF i > Len(l.view) THEN Trap(l)
  ELSE InsertRowAt([l EXCEPT !.view[i].rows = Append(@, r)], i, r)

AppendRow(l, r, sd) ==
  LET s == sd.section
      known == IF Has(l.all, s) THEN l ELSE [l EXCEPT !.all = Append(@, Empty(sd))]
      stored == [known EXCEPT !.all[IndexOf(known.all, s)].rows = Append(@, r)]
  IN  IF ~isAvailable(stored.all[IndexOf(stored.all, s)]) THEN stored
      ELSE IF Has(stored.view, s)
      THEN ShowRow(stored, r, getIndexOfActiveSectionForView(stored, s))
      ELSE ShowRow(ShowSection(stored, sd), r, Len(stored.view) + 1)

\* Mutant of HideRow: the section is taken for empty.
HideSection(l, r, i) ==
  LET w == IndexOf(l.view, l.all[i].section)
  IN  DeleteSectionAt([l EXCEPT !.all = RemoveAt(@, i), !.view = RemoveAt(@, w)], w)

\* A row on show goes; after its last row the section is forgotten.
HideRow(l, r, i) ==
  LET v == IndexOfRow(l.view, r)
      k == SelectInSeq(l.view[v].rows, LAMBDA q : q = r)
      gone == DeleteRowAt([l EXCEPT !.view[v].rows = RemoveAt(@, k)], v, k)
      w == IndexOf(l.view, l.all[i].section)
  IN  IF l.all[i].rows # <<>> \/ w = 0 THEN gone
      ELSE DeleteSectionAt([gone EXCEPT !.all = RemoveAt(@, i), !.view = RemoveAt(@, w)], w)

\* Mutant of RemoveRow: it goes from dataSourceAll alone.
RemoveRowFromAll(l, r) ==
  LET i == IndexOfRow(l.all, r)
  IN  IF i = 0 THEN l ELSE [l EXCEPT !.all[i].rows = RemoveFirst(@, r)]

RemoveRow(l, r) ==
  LET i == IndexOfRow(l.all, r)
      less == [l EXCEPT !.all[i].rows = RemoveFirst(@, r)]
  IN  IF i = 0 THEN l
      ELSE IF ~l.all[i].isActive \/ IndexOfRow(l.view, r) = 0 THEN less
      ELSE HideRow(less, r, i)

RemoveRows(l, rows) == FoldLeft(RemoveRow, l, rows)
AppendRows(l, rows, sd) == FoldLeft(LAMBDA m, r : AppendRow(m, r, sd), l, rows)

removeSectionData(l, sd) ==
  IF Has(l.view, sd.section) THEN RemoveRows(l, Reverse(sd.rows))
  ELSE [l EXCEPT !.all = RemoveAt(@, IndexOf(l.all, sd.section))]

appendSectionData(l, sd) ==
  IF sd.rows = <<>> THEN [l EXCEPT !.all = Append(@, sd)]
  ELSE AppendRows(l, sd.rows, sd)

Lacking(rows, others) == Filtered(rows, Range(rows) \ Range(others))

\* Mutant of Update: what is no longer there stays.
UpdateAppends(l, new) ==
  LET Append1(m, sd) == IF Has(m.all, sd.section) THEN m ELSE appendSectionData(m, sd)
  IN  FoldLeft(Append1, l, new)

\* What the new list does not have goes, what the old one does not have comes.
RemoveLacking(l, sd, new) ==
  IF Has(new, sd.section)
  THEN RemoveRows(l, Lacking(sd.rows, new[IndexOf(new, sd.section)].rows))
  ELSE removeSectionData(l, sd)

AppendLacking(l, sd) ==
  LET i == IndexOf(l.all, sd.section)
  IN  IF i = 0 THEN appendSectionData(l, sd)
      ELSE AppendRows(l, Lacking(sd.rows, l.all[i].rows), l.all[i])

\* isUpdating is set, and reset with each section of the new list.
Update(l, new) ==
  LET removed == FoldLeft(LAMBDA m, sd : RemoveLacking(m, sd, new), l, Reverse(l.all))
  IN  FoldLeft(AppendLacking, [removed EXCEPT !.updating = new = <<>>], new)

\* A whole section on show at i, or off it.
InsertRowsAt(l, i, rows) == FoldLeft(LAMBDA m, r : InsertRowAt(m, i, r), l, rows)
DeleteRowsAt(l, i, n) ==
  FoldLeft(LAMBDA m, k : DeleteRowAt(m, i, k), l, Reverse([k \in 1 .. n |-> k]))

ShowWhole(l, sd, i) ==
  IF i > Len(l.view) + 1 THEN Trap(l)
  ELSE InsertRowsAt(InsertSectionAt([l EXCEPT !.view = InsertAt(@, i, sd)], sd.section, i),
                    i, sd.rows)

\* Mutant of HideWhole: the rows go, the section's place in the table stays.
HideRowsOnly(l, sd) ==
  LET i == IndexOf(l.view, sd.section)
  IN  IF i = 0 THEN l
      ELSE [DeleteRowsAt(l, i, Len(sd.rows)) EXCEPT !.view = RemoveAt(@, i)]

HideWhole(l, sd) ==
  LET i == IndexOf(l.view, sd.section)
  IN  IF i = 0 THEN l
      ELSE [DeleteSectionAt(DeleteRowsAt(l, i, Len(sd.rows)), i) EXCEPT !.view = RemoveAt(@, i)]

\* Mutant of Activate: the flag is set, the section is not shown.
ActivateFlag(l, sd) == [l EXCEPT !.all[IndexOf(l.all, sd.section)].isActive = TRUE]

\* isUpdating is left set where there is nothing to show, or to hide.
Activate(l, sd) ==
  LET i == IndexOf(l.all, sd.section)
      on == [l EXCEPT !.all[i].isActive = TRUE]
  IN  IF ~isAvailable(on.all[i]) THEN [on EXCEPT !.updating = TRUE]
      ELSE [ShowWhole(on, sd, getIndexOfActiveSectionForView(on, sd.section))
              EXCEPT !.updating = FALSE]

\* Mutant of Deactivate: isUpdating is not reset.
DeactivateForGood(l, sd) ==
  [HideWhole([l EXCEPT !.all[IndexOf(l.all, sd.section)].isActive = FALSE], sd)
     EXCEPT !.updating = TRUE]

Deactivate(l, sd) ==
  [HideWhole([l EXCEPT !.all[IndexOf(l.all, sd.section)].isActive = FALSE], sd)
     EXCEPT !.updating = ~Has(l.view, sd.section)]

\* A list section has a new place: dataSourceForView is made anew from
\* dataSourceAll, the table is told of this one section.
MoveSection(l, s, to) ==
  LET i == IndexOf(l.all, s)
      rest == RemoveAt(l.all, i)
      moved == [l EXCEPT !.all = InsertAt(rest, to, l.all[i])]
      from == IndexOf(l.view, s)
      sorted == [moved EXCEPT !.view = Filtered(moved.all, {sd \in Range(moved.all) : isAvailable(sd)})]
  IN  IF i = 0 THEN l
      ELSE IF to > Len(rest) + 1 THEN Trap(l)
      ELSE IF ~isAvailable(l.all[i]) \/ from = 0 THEN moved
      ELSE MoveSectionAt(sorted, from, IndexOf(sorted.view, s))

-----------------------------------------------------------------------------
(* ITableViewSearched: the section data it is given was read before the    *)
(* flags were set.                                                         *)

ScopeOn(l, sd) ==
  LET i == IndexOf(l.all, sd.section)
      on == [l EXCEPT !.all[i].isSearched = TRUE]
      before == {j \in 1 .. i - 1 : isAvailable(l.all[j])}
  IN  IF ~isAvailable(sd) \/ Has(l.view, sd.section) THEN on
      ELSE ShowWhole(on, sd, IF l.view = <<>> THEN 1 ELSE Cardinality(before) + 1)

ScopeOff(l, sd) ==
  HideWhole([l EXCEPT !.all[IndexOf(l.all, sd.section)].isSearched = FALSE], sd)

\* s = None: no scope, all sections again.
NarrowTo(l, sd, s) == IF s \notin {None, sd.section} THEN ScopeOff(l, sd) ELSE l
WidenTo(l, sd, s) == IF s \in {None, sd.section} THEN ScopeOn(l, sd) ELSE l

changeSearchedSection(l, s) ==
  LET narrowed == FoldLeft(LAMBDA m, sd : NarrowTo(m, sd, s), l, l.all)
  IN  FoldLeft(LAMBDA m, sd : WidenTo(m, sd, s), narrowed, narrowed.all)

isSearching == text = "text" \/ scope # None
IsScope(sd) == sd.isActive /\ sd.rows # <<>> /\ (isSearching \/ sd.isSearched)
searchedSections == {sd.section : sd \in {sd \in Range(all) : IsScope(sd)}}

-----------------------------------------------------------------------------
(* The actions.  Each is one callback on the main thread, except the last. *)

\* getCell: a row is of the kind its section is of, fatalError() if not.
OneKind(src) == \A i \in DOMAIN src : \A r \in Range(src[i].rows) : KindOf[r] = src[i].section

\* The table shows what the view model has.  Past this, what UIKit does with a
\* table and a data source that differ is not followed.
InStep == snap = ShownIn(view)
Alive == ~trapped /\ OneKind(view) /\ InStep

SectionsNow ==
  Joined(order, LAMBDA s : IF s \in present THEN <<SectionData(s, Fetched(s))>> ELSE <<>>)

Init ==
  /\ instance \in Instances
  /\ store \in SUBSET Row
  /\ active \in SUBSET Section
  /\ \/ present = {} /\ order \in SetToSeqs(Section)   \* the first start,
     \/ present = Section /\ order = instance.sections       \* or any other
  /\ scope = None /\ text = "nil" /\ clearing = FALSE /\ changes = 0
  /\ LET none == [all |-> <<>>, view |-> <<>>, snap |-> <<>>, trapped |-> FALSE,
                  updating |-> FALSE]
         start == Update(none, SectionsNow)
     IN  /\ all = start.all /\ view = start.view /\ snap = start.snap
         /\ trapped = start.trapped /\ updating = start.updating

OneMoreChange == changes < instance.changes /\ changes' = changes + 1

\* controller(didChange) .insert of a record.
RecordInserted(r) ==
  /\ r \notin store
  /\ store' = store \cup {r}
  /\ OneMoreChange
  /\ LET i == IndexOf(all, KindOf[r])
     IN  Becomes(IF Found(r) /\ i # 0 THEN AppendRow(List, r, all[i]) ELSE List)
  /\ UNCHANGED <<present, order, active, scope, text, clearing>>

\* controller(didChange) .delete of a record.
RecordDeleted(r) ==
  /\ r \in store
  /\ store' = store \ {r}
  /\ OneMoreChange
  /\ Becomes(IF Found(r) THEN RemoveRow(List, r) ELSE List)
  /\ UNCHANGED <<present, order, active, scope, text, clearing>>

\* controller(didChange) .insert of a list section: made at the first start, or
\* got from the database in the order of a set.  An inactive one is not kept, and
\* what is reported of it later finds nothing to change.
SectionInserted(s) ==
  /\ s \notin present
  /\ present' = present \cup {s}
  /\ Becomes(IF s \in active THEN appendSectionData(List, SectionData(s, Fetched(s))) ELSE List)
  /\ UNCHANGED <<store, order, active, scope, text, clearing, changes>>

\* controller(didChange) .update of a list section whose isActive is another.
Toggle(l, s) ==
  LET i == IndexOf(l.all, s)
  IN  IF i = 0 \/ l.all[i].isActive = (s \in active') THEN l
      ELSE IF s \in active' THEN Activate(l, l.all[i])
      ELSE Deactivate(l, l.all[i])

Toggled(s) == active' = IF s \in active THEN active \ {s} ELSE active \cup {s}

\* changeActiveState.
SectionToggled(s) ==
  /\ s \in present
  /\ Toggled(s)
  /\ Becomes(Toggle(List, s))
  /\ OneMoreChange
  /\ UNCHANGED <<store, present, order, scope, text, clearing>>

\* What the controller reports of a new order and new flags: a .move, no .update
\* besides, of a section with another number, in an order of its own.
Moved(i) == order'[i] # order[i]
Change(l, i) == IF Moved(i) THEN MoveSection(l, order'[i], i) ELSE Toggle(l, order[i])

ListChanged ==
  LET changed == {i \in DOMAIN order : Moved(i) \/ (order[i] \in active) # (order[i] \in active')}
  IN  \E events \in SetToSeqs(changed) : Becomes(FoldLeft(Change, List, events))

Reordered(from, to) ==
  /\ present = Section /\ from # to
  /\ order' = InsertAt(RemoveAt(order, from), to, order[from])
  /\ OneMoreChange
  /\ UNCHANGED <<store, present, scope, text, clearing>>

\* change(for:sequenceNumber:).
SectionMoved(from, to) ==
  /\ Reordered(from, to)
  /\ UNCHANGED active
  /\ ListChanged

\* updateListData: the list of another device, which was moved and toggled there.
ListReceived(from, to, s) ==
  /\ Reordered(from, to)
  /\ Toggled(s)
  /\ ListChanged

\* A scope button: "All" and one for each of searchedSections, if there is a bar.
ScopeChosen(s) ==
  /\ view # <<>>
  /\ scope' = s
  /\ Becomes(changeSearchedSection(List, scope'))
  /\ UNCHANGED <<store, present, order, active, text, clearing, changes>>

AllScopesChosen ==
  /\ view # <<>> /\ scope # None
  /\ scope' = None
  /\ Becomes(changeSearchedSection(List, None))
  /\ UNCHANGED <<store, present, order, active, text, clearing, changes>>

\* configureDataSource over what is fetched for the new text.
SearchedFor(l, t) ==
  /\ text' = t
  /\ Becomes(Update(l, SectionsNow'))

\* isSearchControllerIsHidden: there is a search field.
HasSearchField == view # <<>> \/ isSearching

\* performSearch: the text in the search field has changed.
TextTyped(t) ==
  /\ HasSearchField
  /\ t # text
  /\ UNCHANGED <<store, present, order, active, scope, clearing, changes>>
  /\ SearchedFor(List, t)

\* cancelSearching.
SearchCancelled ==
  /\ HasSearchField
  /\ scope' = None
  /\ UNCHANGED <<store, present, order, active, clearing, changes>>
  /\ LET l == IF scope = None THEN List ELSE changeSearchedSection(List, None)
     IN  IF text = "nil" THEN Becomes(l) /\ UNCHANGED text
         ELSE SearchedFor(l, "")

\* refresh: update(by: []) is sent to a global queue while configureDataSource
\* runs here; either may have the list first.
Refreshed ==
  /\ ~clearing
  /\ \E cleared \in BOOLEAN :
       /\ Becomes(Update(IF cleared THEN Update(List, <<>>) ELSE List, SectionsNow))
       /\ clearing' = ~cleared
  /\ OneMoreChange
  /\ UNCHANGED <<store, present, order, active, scope, text>>

BackgroundClears ==
  /\ clearing
  /\ clearing' = FALSE
  /\ Becomes(Update(List, <<>>))
  /\ UNCHANGED <<store, present, order, active, scope, text, changes>>

Next ==
  /\ Alive
  /\ UNCHANGED instance
  /\ \/ \E r \in Row : RecordInserted(r) \/ RecordDeleted(r)
     \/ \E s \in Section : SectionInserted(s) \/ SectionToggled(s)
     \/ \E i, j \in DOMAIN order :
          SectionMoved(i, j) \/ \E s \in Section : ListReceived(i, j, s)
     \/ \E s \in searchedSections : ScopeChosen(s)
     \/ AllScopesChosen
     \/ \E t \in instance.texts : TextTyped(t)
     \/ SearchCancelled
     \/ Refreshed
     \/ BackgroundClears

Spec == Init /\ [][Next]_vars

-----------------------------------------------------------------------------
(* Properties.                                                             *)

TypeOK ==
  LET Data(snapped) == snapped \in Seq([section : Section, rows : Seq(Row)])
  IN  /\ store \subseteq Row
      /\ present \subseteq Section
      /\ order \in SetToSeqs(Section)
      /\ active \subseteq Section
      /\ Data(ShownIn(all)) /\ Data(ShownIn(view)) /\ Data(snap)
      /\ trapped \in BOOLEAN /\ updating \in BOOLEAN /\ clearing \in BOOLEAN
      /\ changes \in 0 .. instance.changes
      /\ scope \in Section \cup {None}
      /\ text \in {"nil", "", "text"}
      /\ instance \in Instances

TheClearing == clearing /\ ~clearing'

\* Every section the view model knows has the records of its kind that the
\* search finds, whatever is on show: only a refresh's clearing that comes last
\* takes a record from it (update(by:), appendRow, removeRow).
SectionsHaveTheirRecords ==
  \A i \in DOMAIN all :
    /\ IndexOf(all, all[i].section) = i
    /\ Range(all[i].rows) = {r \in store : KindOf[r] = all[i].section /\ Found(r)}
    /\ Len(all[i].rows) = Cardinality(Range(all[i].rows))
OnlyClearingLosesRecords ==
  [][SectionsHaveTheirRecords /\ ~TheClearing => SectionsHaveTheirRecords']_vars

Places(src, r) == UNION {{<<i, k>> : k \in {k \in DOMAIN src[i].rows : src[i].rows[k] = r}} :
                            i \in DOMAIN src}

\* No record is on show twice, none that the view context no longer has: a cell
\* of it would be made from a deleted object (removeRow by two index paths).
NothingDeletedIsShown ==
  \A r \in Row : \A src \in {view, snap} :
    Cardinality(Places(src, r)) <= IF r \in store THEN 1 ELSE 0
ListsAreWhole == TypeOK /\ NothingDeletedIsShown

\* Only a new order of the sections, moved through a table that is told of one
\* section at a time, puts the table out of step with dataSourceForView, or
\* leaves a section with a flag that is not its list section's.
FlagsAreCurrent == \A i \in DOMAIN all : all[i].isActive = (all[i].section \in active)
OnlyReordersPutTheTableOutOfStep ==
  [][InStep /\ FlagsAreCurrent /\ order' = order => (InStep /\ FlagsAreCurrent)']_vars

\* A section is dropped from dataSourceAll only when the last of its rows has
\* gone, or by a clearing that comes last.  A list section of which there is no
\* section data -- dropped so, or because it arrived inactive -- is not seen again,
\* whatever records come and however often it is toggled, before the next search
\* or refresh.
Rows(s) == UNION {Range(all[i].rows) : i \in {i \in DOMAIN all : all[i].section = s}}
IsEmptied(s) == \A r \in Rows(s) : r \notin store' \/ ~Found(r)'
MakesTheListAnew == Refreshed \/ SearchCancelled \/ \E t \in instance.texts : TextTyped(t)
OnlyEmptySectionsAreForgotten ==
  [][\A s \in present :
       /\ Has(all, s) /\ ~Has(all', s) => TheClearing \/ IsEmptied(s)
       /\ ~Has(all, s) /\ Has(all', s) => MakesTheListAnew]_vars

\* The sections with something to show are the ones on show, until a scope is
\* taken or dropped: only searchedSectionData's flags leave one out.
EverySectionIsShown ==
  \A i \in DOMAIN all : isAvailable(all[i]) => Has(view, all[i].section)
OnlyScopesHideSections ==
  [][EverySectionIsShown /\ scope' = scope => EverySectionIsShown']_vars

\* The activity indicator is left running only by a toggle of a section with no
\* rows on show -- an empty one, or one hidden by a scope -- and by a clearing
\* that comes last, or a refresh before there are sections (ListViewModel.isLoading).
ShowsRows(src, s) == \E i \in DOMAIN src : src[i].section = s /\ src[i].rows # <<>>
IdlyToggled(s) == (s \in active) # (s \in active') /\ ~ShowsRows(view, s) /\ ~ShowsRows(view', s)
OnlyIdleTogglesKeepTheIndicator ==
  [][~updating /\ updating'
       => TheClearing \/ present = {} \/ \E s \in Section : IdlyToggled(s)]_vars

\* The fatalError() of getCell is for what cannot be: a row among rows of
\* another kind (View/TableView/FavouriteViewModel.swift:158).
RowsAreOfOneKind == OneKind(view)

=============================================================================
