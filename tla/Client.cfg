CONSTANTS
    Entities <- Accounts
    Ids = {3, 4}
    Values = {1, 2}
    MaxClock = 3
    None = None
    a = a
    b = b
    Objects = {a, b}
    Keys = {1, 2}
    Targets = {1, 2}
    Kinds = {"ToOne", "ToMany", "ManyToMany"}
    MaxParents = 2
    MaxItems = 1
    Faults = {"query", "rows"}
    Nil = Nil
    RowIds = {1, 2}
    RowValues = {1, 2}
    Limits <- MCLimits
    Offsets <- MCOffsets
    MaxWhere = 2
    NoValue = NoValue
    Refused = Refused
    N = 5
    Sizes <- MCSizes
    DefaultSize = 2
    Afters <- MCAfters
    MaxChanges = 3
    Omitted = Omitted
    Garbage = Garbage
SPECIFICATION Spec
SYMMETRY Interchangeable
CHECK_DEADLOCK FALSE
INVARIANTS TypeOK RoundTrip LoadedIsRight AnswersAsAsked WalkIsComplete
PROPERTIES CreatedAtKept
