SPECIFICATION FairSpec
CONSTANTS
  None = None
  voice = voice
  band = band
  Tracks <- TwoTracks
  Full = 2
  SongEnd = 9
  Paired <- TwoPairs
  From <- PairFrom
  To <- PairTo
  Lead <- PairLead
  AutoTracks <- FadeBand
  Ms <- MuteVoice
  ResumeTol = 1
  Fading <- FadeVoice
  FadeLen = 2
  RestoreDelay = 1
  CancelWindow = 1
  Marks <- PairMarks
  PlayFrom <- Starts
  SeekTo <- Clicks
  Levels <- HalfFull
  Commands <- StageCommands
  FreshLife = 1
  PartReach = 1
  MaxPos = 10
  MaxLag = 1
  MaxCommands = 3
INVARIANTS
    StageTypeOK
    NeverLouder
    MixKept
    LetOut
PROPERTIES
    FadeOutStops
    PauseFreezes
    FadeEnds
    MixReturns
