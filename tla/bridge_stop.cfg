\* Starting, stopping and bypassing and coming back under every interleaving.
SPECIFICATION FairSpec
CONSTANTS
  p1 = p1
  o1 = o1
  s1 = s1
  Pulses <- MCPulses
  Selections <- MCSelections
  Others <- MCOthers
  Limit = 2
  DrainMax = 2
  MaxBatch = 2
INVARIANT TypeOK
INVARIANT FlagHasThread
INVARIANT BypassQuiet
INVARIANT PublishedOpen
PROPERTY StopReturns
PROPERTY ComesBack
CHECK_DEADLOCK FALSE
