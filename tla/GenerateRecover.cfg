CONSTANTS
    Tables = {1}
    OrmFiles = 1
    GraphqlFiles = 2
    Options <- AllOptions
    Unsigned = {2}
    Reverts = TRUE
    SameSecond = TRUE
    CutPoints <- AllCutPoints
    None = None
    Torn = Torn
    MaxEdits = 2
    MaxRuns = 2
    MaxFaults = 1
SPECIFICATION FairSpec
PROPERTIES ForceDelivers WatchConverges
