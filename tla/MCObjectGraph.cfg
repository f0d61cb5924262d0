SPECIFICATION GraphSpec
CONSTANTS
  favourite1 = favourite1
  favourite2 = favourite2
  liked = liked
  progress = progress
  p1 = p1
  p2 = p2
  g1 = g1
  g2 = g2
  Nothing = Nothing
  Record <- Records
  Podcast <- Podcasts
  Genre <- Genres
  Kind <- Kinds
  GenresOf <- TheirGenres
INVARIANTS
  NothingInUseGoes
  NothingUnusedStays
  StoreIsWhole
