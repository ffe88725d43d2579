CONSTANTS
    s1 = s1
    s2 = s2
    Sessions <- MCSessions
    None = None
    Versions = {1, 2, 3}
    Downs = {1, 3}
    BatchSizes = {0, 1}
    MaxCalls = 3
    MaxEdits = 1
SPECIFICATION Spec
INVARIANTS TypeOK RecordedMatchesSchema PlanIsCurrent
PROPERTIES AppliesNextBatch RevertsLatestStamp ImplementsAbs
SYMMETRY MCSymmetry
