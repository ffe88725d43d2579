CONSTANTS
    r1 = r1
    r2 = r2
    Reads <- TwoReads
    NReplicas = 2
    Config <- MCConfig
    Contexts <- MCContexts
    Routings <- MCRoutings
    Reports <- MCReports
    Interval = 1
    MaxClock = 2
    MaxChanges = 1
    None = None
SPECIFICATION Spec
INVARIANTS TypeOK RoutedByFreshStatus PrimaryHasTheLastWord ResourcesAreReturned
PROPERTY ProbesAreSpaced
SYMMETRY MCSymmetry
