---------------------------- MODULE MCRecordSync ----------------------------
(***************************************************************************)
(* Instances of RecordSync for TLC: two favourites and nothing that fails; *)
(* one favourite with reconnects, and a restart or a lost acknowledgement; *)
(* one liked moment with a lost acknowledgement.                           *)
(***************************************************************************)
EXTENDS RecordSync

CONSTANTS phone, tablet, p

Devices == {phone, tablet}
Podcasts == {p}

Two ==
  [entity |-> "FavouritePodcast", records |-> 2, observers |-> 1, restarts |-> 0,
   lostAcks |-> 0, pending |-> 1]
One ==
  [entity |-> "FavouritePodcast", records |-> 1, observers |-> 2, restarts |-> 0,
   lostAcks |-> 0, pending |-> 1]

SomeInstances ==
  {Two, [One EXCEPT !.restarts = 1], [One EXCEPT !.lostAcks = 1],
   [One EXCEPT !.entity = "LikedMoment", !.lostAcks = 1]}
=============================================================================
