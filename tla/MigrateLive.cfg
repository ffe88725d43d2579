CONSTANTS
    s1 = s1
    s2 = s2
    Sessions <- MCSessions
    None = None
    Versions = {1, 2}
    Downs = {1, 2}
    BatchSizes = {0}
    MaxCalls = 3
    MaxEdits = 0
SPECIFICATION FairSpec
PROPERTIES EveryCallEnds
