CONSTANTS
    Tables = {1, 2}
    OrmFiles = 1
    GraphqlFiles = 2
    Options <- PlainOption
    Unsigned = {}
    Reverts = FALSE
    SameSecond = FALSE
    CutPoints <- AllCutPoints
    None = None
    Torn = Torn
    MaxEdits = 1
    MaxRuns = 2
    MaxFaults = 0
SPECIFICATION Spec
INVARIANT DistinctVersions
