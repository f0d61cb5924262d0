------------------------------ MODULE MCLevels -----------------------------
(***************************************************************************)
(* Instances of Levels for TLC.                                            *)
(***************************************************************************)
EXTENDS Levels

Keys == 1 .. 3

Instance(l, k, t, w, d, s, c) ==
  [levels |-> l, keys |-> 1 .. k, table |-> t, writes |-> w, deletes |-> d,
   snapshots |-> s, manual |-> c, automatic |-> TRUE]

\* Tables of one entry, so that every key of several versions is spread over
\* tables, and tables of all of them; calls of CompactRange on two keys, and on
\* three, where a flush can go into a gap and nothing else merges.
SomeInstances ==
  {Instance(3, 2, 1, 4, 1, 1, 0), Instance(3, 2, 9, 4, 1, 1, 0),
   Instance(3, 3, 2, 4, 1, 0, 0), Instance(3, 2, 1, 3, 1, 1, 1),
   Instance(3, 2, 9, 3, 1, 0, 1), [Instance(2, 3, 9, 5, 0, 0, 1) EXCEPT !.automatic = FALSE]}

\* Tables of two entries: the versions of a key part in the middle of a level.
SplitInstances == {Instance(3, 2, 2, 4, 1, 1, 0)}
=============================================================================
