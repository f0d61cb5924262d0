--------------------------- MODULE MCObjectGraph ---------------------------
(***************************************************************************)
(* An instance of ObjectGraph for TLC: two favourites, which compete for a *)
(* podcast's link, a liked moment, progress, and two podcasts that share   *)
(* a genre.                                                                *)
(***************************************************************************)
EXTENDS ObjectGraph, TLC

CONSTANTS favourite1, favourite2, liked, progress, p1, p2, g1, g2

Records == {favourite1, favourite2, liked, progress}
Podcasts == {p1, p2}
Genres == {g1, g2}
Kinds ==
  (favourite1 :> "FavouritePodcast") @@ (favourite2 :> "FavouritePodcast")
  @@ (liked :> "LikedMoment") @@ (progress :> "ListeningPodcast")
TheirGenres == (p1 :> {g1}) @@ (p2 :> {g1, g2})
=============================================================================
