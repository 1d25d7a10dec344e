\* Plays around a family: Auto Stop, the old position, the end of the parent.
SPECIFICATION Spec
CONSTANTS
  None = None
  Block = Block
  sa = sa
  sb = sb
  sc = sc
  sd = sd
  Songs <- FamilySongs
  Start <- FamilyStart
  End <- FamilyEnd
  Parent <- FamilyParent
  Playlist <- FamilyPlaylist
  Markers <- TwoMarkers
  MaxPos = 12
  Settings <- Stopping
  Commands <- PlayCommands
  MaxCommands = 3
  SeekLead = 2
  StopWindow = 1
  PendingLife = 2
  StaleTol = 1
  PartsGrace = 1
  SuppressLife = 2
  MaxStale = 1
  MaxLag = 1
  IdleLag = 4
  MaxLate = 4
PROPERTY FamilyPlaysOn
PROPERTY FreshPlayGoesOn
PROPERTY AutoStopNotMissed
PROPERTY NoStopInSong
