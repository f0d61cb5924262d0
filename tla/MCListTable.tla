---------------------------- MODULE MCListTable ----------------------------
(***************************************************************************)
(* Instances of ListTable for TLC.                                         *)
(***************************************************************************)
EXTENDS ListTable

\* Three sections, so that there is a place in the middle, with a record each.
OneEach ==
  [sections |-> <<"Listening", "Favourite", "Liked">>,
   kindOf |-> <<"Listening", "Favourite", "Liked">>,
   matches |-> {}, texts |-> {}, changes |-> 1]

\* Two sections, one of which can lose a record and keep another.  The text is
\* found in one record of it and not in the other.
TwoRows ==
  [sections |-> <<"Favourite", "Liked">>,
   kindOf |-> <<"Favourite", "Favourite", "Liked">>,
   matches |-> {2, 3}, texts |-> {"", "text"}, changes |-> 3]

Both == {OneEach, TwoRows}
FewChanges == {[TwoRows EXCEPT !.texts = {}, !.changes = 2]}
=============================================================================
