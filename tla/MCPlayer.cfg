SPECIFICATION Spec
CONSTANTS
  a = a
  b = b
  c = c
  d = d
  NoTrack = NoTrack
  Track <- AllTracks
  HasUrl <- Playable
  Playlists <- Lists
INVARIANTS
  OnlyCurrentCellIsLit
  SoundIsAccountedFor
  PositionIsCurrent
  TrapsOnlyOnUnplayableList
  PanelIsCurrent
  SmallPlayersFollow
PROPERTIES
  OnlySeeksHideSmallPlayers
  OutOfStepOnlyOnFirstStart
  SilenceEnds
