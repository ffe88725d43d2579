CONSTANTS
    Types = {"User", "Post", "Helper"}
    Entities = {"User", "Post"}
    MethodNames = {"Fields", "Edges"}
    Suffix <- MCSuffix
    New <- MCNew
    Layouts <- MCLayouts
    Schemas <- AllSchemas
    Package <- MCPackage
SPECIFICATION Spec
CHECK_DEADLOCK FALSE
INVARIANTS ReadAsRun
PROPERTIES ReadsPackage
