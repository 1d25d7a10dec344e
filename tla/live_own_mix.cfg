SPECIFICATION FairSpec
CONSTANTS
    s = s
    m = m
    t1 = t1
    t2 = t2
    x = x
    None = None
    Items <- MCItems
    Tracks <- MCTracks
    Rank <- MCRank
    Steady = {s}
    Spare = {x}
    Home <- MCHome
    Start <- MCStart
    Coming = {x}
    MaxEdits = 1
    MaxFaults = 0
PROPERTY
    EditsReach
CHECK_DEADLOCK FALSE
