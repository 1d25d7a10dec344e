\* Six commands, a queue of three, two taken per tick.
SPECIFICATION QueueSpec
CONSTANTS
  p1 = p1
  p2 = p2
  s1 = s1
  s2 = s2
  o1 = o1
  o2 = o2
  Pulses <- MCPulses
  Selections <- MCSelections
  Others <- MCOthers
  Limit = 3
  DrainMax = 2
  MaxBatch = 3
INVARIANT QueueTypeOK
PROPERTY KeepsLanes
PROPERTY ServesLanes
PROPERTY Served
