SPECIFICATION Spec
CONSTANTS
    s = s
    m = m
    t1 = t1
    t2 = t2
    x = x
    None = None
    Items <- MCItems
    Tracks <- MCTracks
    Rank <- MCRank
    Steady = {s}
    Spare = {x}
    Home <- MCHome
    Start <- MCStartOnSpare
    Coming = {}
    MaxEdits = 2
    MaxFaults = 0
PROPERTY
    OnlyRemainingGo
CHECK_DEADLOCK FALSE
