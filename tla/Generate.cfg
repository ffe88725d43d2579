CONSTANTS
    Tables = {1, 2}
    OrmFiles = 1
    GraphqlFiles = 2
    Options <- AllOptions
    Unsigned = {}
    Reverts = FALSE
    SameSecond = FALSE
    CutPoints <- SafeCutPoints
    None = None
    Torn = Torn
    MaxEdits = 2
    MaxRuns = 2
    MaxFaults = 1
SPECIFICATION Spec
INVARIANTS TypeOK SkipIsSound MigrationsReplay
