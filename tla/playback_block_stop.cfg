SPECIFICATION Spec
CONSTANTS
  None = None
  Block = Block
  sa = sa
  sb = sb
  sc = sc
  sd = sd
  Songs <- ShowSongs
  Start <- ShowStart
  End <- ShowEnd
  Parent <- ShowParent
  Playlist <- ShowPlaylist
  Markers <- TwoMarkers
  MaxPos = 12
  Settings <- BlockAuto
  Commands <- PlayOnly
  MaxCommands = 3
  SeekLead = 2
  StopWindow = 1
  PendingLife = 2
  StaleTol = 1
  PartsGrace = 1
  SuppressLife = 2
  MaxStale = 1
  MaxLag = 1
  IdleLag = 4
  MaxLate = 4
PROPERTY BlockStops
