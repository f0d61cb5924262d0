---------------------------- MODULE MCDownloads ----------------------------
(***************************************************************************)
(* Instances of Downloads for TLC.                                         *)
(***************************************************************************)
EXTENDS Downloads, TLC

CONSTANTS a, b, pa, pb

Urls == {a, b}
Paths == {pa, pb}

\* Two urls with their own places, and two whose last component is the same.
OwnPlaces   == (a :> pa) @@ (b :> pb)
SharedPlace == (a :> pa) @@ (b :> pa)

Small ==
  [place |-> OwnPlaces, tasks |-> 1, restarts |-> 0, queue |-> 1, collisions |-> 0]

\* Two downloads, a restart and a filling main queue; two downloads to one
\* place and a lost write of the table.
SomeInstances ==
  {[Small EXCEPT !.tasks = 2, !.restarts = 1, !.queue = 2],
   [Small EXCEPT !.place = SharedPlace, !.tasks = 2, !.collisions = 1]}

OneDownload == {Small}
=============================================================================
