------------------------------ MODULE MCPlayer ------------------------------
(***************************************************************************)
(* Instances of Player for TLC.                                            *)
(***************************************************************************)
EXTENDS Player, TLC

CONSTANTS a, b, c, d

AllTracks == {a, b, c, d}

\* Three tracks play; their lists overlap, so that a switch of list moves a track
\* to another position.  One came without an episode url; it is first in one list,
\* which is shorter than the position reached in the others, and last in another.
Playable == {a, b, c}
Lists == {<<a, b, c>>, <<c, a>>, <<d>>, <<b, d>>}

=============================================================================
